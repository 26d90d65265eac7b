SPECIFICATION CSpec
CONSTANTS
    Windows = {0, 31}
    Seqs = {0, 255}
    Stamps = {0, 1}
    Lengths = {0, 3, 256, 512}
    Contents = {c1, c2}
    MaxFaults = 2
    TypeArgs = {0, 1, 2}
    TrArgs = {0, 1, 2}
    WindowArgs = {31, 32}
    LengthArgs = {0, 3, 513}
    BufLens = {12, 528}
INVARIANTS
    CodecTypeOK
    DecodeComplete
    DecodeSound
