CONSTANTS
    m1 = m1
    m2 = m2
    NoDelay = NoDelay
    MsgIds <- MCMsgIds
    Delays <- MCDelays
SPECIFICATION Spec
PROPERTY LedgerFrozenAfterResolution
CHECK_DEADLOCK FALSE
