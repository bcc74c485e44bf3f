\* Eight bytes to a chunk, two words of one byte counted, and the largest payload that
\* the assumption allows.
CONSTANTS
    MaxChunkSize = 8
    Counted = 2
    MaxData = 46
SPECIFICATION ChunksSpec
INVARIANTS SentIsPrefix TrueIsComplete PayloadFits
