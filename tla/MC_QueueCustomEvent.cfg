CONSTANTS
    m1 = m1
    m2 = m2
    NoDelay = NoDelay
    MsgIds <- MCMsgIds
    Delays <- MCDelays
SPECIFICATION Spec
INVARIANT OkOnlyAfterHandlerSucceeded
INVARIANT OkWaitsForWaitUntil
PROPERTY NoOkAfterLimitExceeded
PROPERTY DeliveryResolves
CHECK_DEADLOCK FALSE
