CONSTANTS
    m1 = m1
    m2 = m2
    m3 = m3
    NoDelay = NoDelay
    MsgIds <- MCMsgIds
    Delays <- MCDelays
SYMMETRY MCSymmetry
SPECIFICATION LedgerSpec
INVARIANT BatchDecisionsExclusive
INVARIANT AckRetryDisjoint
PROPERTY AckAllFreezesMessages
