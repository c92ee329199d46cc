CONSTANTS
    m1 = m1
    m2 = m2
    NoDelay = NoDelay
    MsgIds <- MCMsgIds
    Delays <- MCDelays
SPECIFICATION Spec
INVARIANT AbortIsException
CHECK_DEADLOCK FALSE
