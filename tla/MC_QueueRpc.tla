---------------------------- MODULE MC_QueueRpc ----------------------------
(* TLC instance of a remote delivery: two messages, one delay value (so   *)
(* a retry with and one without a delay can be told apart).               *)
EXTENDS QueueRpc, TLC

CONSTANTS m1, m2

MCMsgIds == {m1, m2}
MCDelays == {30}
=============================================================================
