CONSTANTS
    NoSendDelay = NoSendDelay
    PayloadSizes <- MCPayloadSizes
    SendDelays <- MCSendDelays
    TypeNames <- MCTypeNames
    MaxBatch = 2
SPECIFICATION Spec
INVARIANT SendBatchAcceptsWhatSendAccepts
CHECK_DEADLOCK FALSE
