CONSTANTS
    NoSendDelay = NoSendDelay
    PayloadSizes <- MCPayloadSizes
    SendDelays <- MCSendDelays
    TypeNames <- MCTypeNames
    MaxBatch = 2
SPECIFICATION Spec
INVARIANT DeclaredFormatMatchesEncoding
INVARIANT BatchBodyFitsEstimate
INVARIANT BatchMsgsAreSendMsgs
CHECK_DEADLOCK FALSE
