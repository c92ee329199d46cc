------------------------- MODULE MC_QueueCustomEvent -------------------------
(* TLC instance of one delivery: a batch of two messages, one delay value. *)
EXTENDS QueueCustomEvent, TLC

CONSTANTS m1, m2

MCMsgIds == {m1, m2}
MCDelays == {30}

=============================================================================
