----------------------------- MODULE FlushCache -----------------------------
(***************************************************************************)
(* FlushCache (include/heap/nvm_tuple.h:95-146): the per-thread table of   *)
(* row ids whose tuple copyUpdatedColumnsToNVM has flushed.  GROUP groups  *)
(* of SET 64-bit words; a word holds the row id in its low 50 bits (FMASK) *)
(* and a hit counter from bit COUNT_START up.  A word is modelled as a     *)
(* record [key, count]; the constructor fills every word with 0, which is  *)
(* key 0 with count 0.  One `counter` is shared by all groups and names    *)
(* the next way to try for replacement.  access() runs on one thread       *)
(* (g_rowIdCache is thread_local), so a call is one step.  The module is   *)
(* the algorithm; PMPersistence instantiates it for its worker thread.    *)
(***************************************************************************)
EXTENDS Naturals, FiniteSets

CONSTANTS
    Keys,       \* row ids passed to access()
    NGroups,    \* GROUP
    NWays,      \* SET
    MaxCount    \* the saturation bound of the hit counter (10000 in the code)

ASSUME /\ Keys \subseteq Nat
       /\ NGroups \in {1, 2, 4, 8}
       /\ NWays \in Nat \ {0}
       /\ MaxCount \in Nat \ {0}

VARIABLES slots, counter, hit, key   \* key: the argument of the last call

vars == <<slots, counter, hit, key>>

Groups == 0 .. NGroups - 1
Ways == 0 .. NWays - 1
Word == [key : Keys \cup {0}, count : 0 .. MaxCount]

\* k = ((access / 100) % 1'000'000'007) & (GROUP - 1); GROUP is a power of two.
GroupOf(k) == ((k \div 100) % 1000000007) % NGroups

\* A word matches when its low 50 bits equal the key, whatever its count.
HitWays(s, k) == {w \in Ways : s[GroupOf(k)][w].key = k}

\* if (count < 10000) cache += (FMASK + 1)
CountAfterHit(n) == IF n < MaxCount THEN n + 1 ELSE n

\* One round of the replacement loop on group g: wrap the shared counter,
\* take the way it names if its count is 0, otherwise age that way.
Replace(s, c, g, k) ==
    LET w == IF c = NWays THEN 0 ELSE c
    IN  IF s[g][w].count = 0
        THEN [slots |-> [s EXCEPT ![g][w] = [key |-> k, count |-> 0]],
              counter |-> w + 1, done |-> TRUE]
        ELSE [slots |-> [s EXCEPT ![g][w].count = @ - 1],
              counter |-> w + 1, done |-> FALSE]

\* access(k): the result and the cache after the call.
AccessResult(s, c, k) ==
    LET g == GroupOf(k)
        ws == HitWays(s, k)
        w == CHOOSE x \in ws : \A y \in ws : x <= y
        r1 == Replace(s, c, g, k)
        r2 == Replace(r1.slots, r1.counter, g, k)
    IN  IF ws # {}
        THEN [hit |-> TRUE, counter |-> c,
              slots |-> [s EXCEPT ![g][w].count = CountAfterHit(@)]]
        ELSE [hit |-> FALSE,
              slots |-> IF r1.done THEN r1.slots ELSE r2.slots,
              counter |-> IF r1.done THEN r1.counter ELSE r2.counter]

\* The constructor: every word 0.
EmptySlots == [g \in Groups |-> [w \in Ways |-> [key |-> 0, count |-> 0]]]

Init ==
    /\ slots = EmptySlots
    /\ counter = 0
    /\ hit = FALSE
    /\ key = CHOOSE k \in Keys : TRUE   \* no call yet: a placeholder

=============================================================================
