CONSTANTS
    SeqSpace <- MCSeqSpace
    MaxWindow <- MCMaxWindow
    SndCap <- MCCap
    RcvCap <- MCCap
    MaskBits <- MCCap
    CounterWrap <- MCCounterWrap
    Lifetime <- MCLifetime
    NData = 1
    NetCap = 2
    MaxDupAck = 3
    MaxRetrans = 2
    MaxRetries = 2
    MaxLinger = 2
    InputIsPipe = FALSE
    OutputMayBlock = FALSE
    TimingFaults = FALSE
SPECIFICATION FairSpec
PROPERTIES
    SenderTerminates
    ReceiverTerminates
    DoneDelivers
