-------------------------- MODULE MC_QueueProducer --------------------------
(* TLC instance of the producer: payloads of 1, 2 and 3 bytes (each       *)
(* residue of base64's 3-byte groups), a one-digit delay and the least  *)
(* int (the longest delaySecs), contentType spellings that take each     *)
(* path and every tag, batches of up to two messages, both flag values.  *)
EXTENDS QueueProducer, TLC

MCPayloadSizes == {1, 2, 3}
MCSendDelays == {7, -2147483647 - 1}
MCTypeNames == {"text", "TEXT", "bytes", "json", "V8", "xml"}
=============================================================================
