CONSTANTS
    SeqSpace = 4
    MaxWindow = 2
    SndCap = 4
    RcvCap = 4
    MaskBits = 4
    CounterWrap = 16
    Lifetime = 2
    NData = 5
    NetCap = 2
    MaxDupAck = 3
    MaxRetrans = 2
    MaxRetries = 2
    MaxLinger = 2
    InputIsPipe = FALSE
    OutputMayBlock = FALSE
    TimingFaults = FALSE
INIT Init
NEXT Next
INVARIANTS
    AckedIsReceived
PROPERTIES
    StreamRefined
