SPECIFICATION FairSpec
CONSTANTS
    Threads = {t1, t2, t3}
    Values = {v1, v2}
    Capacity = 2
    None = None
    MaxSends = 4
INVARIANTS
    NoLostReceiverWakeup
    NoLostSenderWakeup
PROPERTIES
    ImplementsBoundedChannel
    CloseUnblocks
