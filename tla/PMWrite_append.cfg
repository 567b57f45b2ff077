\* Two segments of two lines each, records of 24, 40 and 100 bytes (short,
\* below one line, and longer than a line), four appends: records start at
\* every alignment these lengths produce and cross a segment boundary.
CONSTANTS
    SegSize = 128
    NSegs = 2
    RecLens = {24, 40, 100}
    MaxRecs = 4
SPECIFICATION Spec
INVARIANT UnflushedOnlyAtOffset
