--------------------------- MODULE MC_QueueLedger ---------------------------
(* TLC instance of the ledger: three messages, two delay values.             *)
EXTENDS QueueLedger, TLC

CONSTANTS m1, m2, m3

MCMsgIds == {m1, m2, m3}
MCDelays == {30, 60}

\* Message ids are interchangeable: no action tells one from another.
MCSymmetry == Permutations(MCMsgIds)
=============================================================================
