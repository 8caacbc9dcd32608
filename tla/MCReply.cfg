SPECIFICATION FairSpec
CONSTANTS
    BufSize = 5
    OutSize = 3
    FilterSize = 7
    MaxLine = 6
    Encoding = {"quoted-printable", "base64"}
    Command <- MCCommand
    Unfinished <- MCUnfinished
    Chunk <- MCChunk
    MaxCmd = 2
    MaxDef = 2
    MaxText = 4
    MaxFault = 1
INVARIANTS  InOrder AllOut RepliesInStep TextExact EncodedExact LinesIntact
PROPERTY Answers
CHECK_DEADLOCK FALSE
