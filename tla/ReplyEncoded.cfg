SPECIFICATION Spec
CONSTANTS
    BufSize = 5
    OutSize = 3
    FilterSize = 7
    MaxLine = 6
    Encoding = {"quoted-printable", "base64"}
    Command <- MCCommand
    Unfinished <- MCUnfinished
    Chunk <- MCChunk
    MaxCmd = 2
    MaxDef = 2
    MaxText = 5
    MaxFault = 0
INVARIANT DocEncoded
CHECK_DEADLOCK FALSE
