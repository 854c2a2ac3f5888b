SPECIFICATION FairSpec
CONSTANTS
    s1 = s1
    s2 = s2
    e1 = e1
    Sink = {s1, s2}
    Entry = {e1, e2, e3}
    Wanted <- TwoWanted
    BatchSize = 2
    BufferSize = 2
    None = None
CHECK_DEADLOCK FALSE
PROPERTIES
    ImplementsLossyFifo
    
    CloseReturns
