CONSTANTS
    SeqSpace <- MCZWSeqSpace
    MaxWindow <- MCZWMaxWindow
    SndCap <- MCZWCap
    RcvCap <- MCZWCap
    MaskBits <- MCZWCap
    CounterWrap <- MCZWCounterWrap
    Lifetime <- MCZWLifetime
    NData = 2
    NetCap = 1
    MaxDupAck = 3
    MaxRetrans = 2
    MaxRetries = 2
    MaxLinger = 2
    InputIsPipe = FALSE
    OutputMayBlock = TRUE
    TimingFaults = FALSE
SPECIFICATION FairSpec
PROPERTIES
    ZeroWindowReopens
