------------------------- MODULE QueueLedger_proofs -------------------------
(***************************************************************************)
(* Proofs about the ack/retry ledger, for every set of message ids and     *)
(* every set of delays.                                                    *)
(***************************************************************************)
EXTENDS QueueLedger, TLAPS

\* The inductive invariant: the type and the two exclusion rules together.
\* Neither exclusion rule needs the other, so the invariant is inductive as
\* it stands; the type part is needed to know that retries is a function.
LedgerIInv == LedgerTypeOK /\ LedgerInv

\* A fresh QueueEventResult satisfies the invariant.
LEMMA LedgerInitIInv == LedgerInit => LedgerIInv
<1> SUFFICES ASSUME LedgerInit PROVE LedgerIInv
    OBVIOUS
<1>1. DOMAIN retries = {} /\ retries \in [DOMAIN retries -> OptDelay]
  BY DEF LedgerInit
<1>2. retryBatch \in [retry : BOOLEAN, delaySeconds : OptDelay]
  BY DEF LedgerInit, OptDelay
<1>3. QED
  BY <1>1, <1>2 DEF LedgerInit, LedgerIInv, LedgerTypeOK, LedgerInv,
                    BatchDecisionsExclusive, AckRetryDisjoint

\* Every ledger operation preserves the invariant.
LEMMA LedgerStepIInv == LedgerIInv /\ [LedgerOp]_ledgerVars => LedgerIInv'
<1> SUFFICES ASSUME LedgerIInv, [LedgerOp]_ledgerVars PROVE LedgerIInv'
    OBVIOUS
<1> USE DEF LedgerIInv, LedgerInv
<1>1. ASSUME NEW id \in MsgIds, NEW d \in OptDelay, Retry(id, d)
      PROVE  LedgerIInv'
  <2>1. retries' \in [DOMAIN retries \cup {id} -> OptDelay]
        /\ DOMAIN retries' = DOMAIN retries \cup {id}
    <3>1. retries \in [DOMAIN retries -> OptDelay]
      BY DEF LedgerTypeOK
    <3>2. retries' = Upsert(retries, id, d)
      BY <1>1 DEF Retry
    <3>3. /\ Upsert(retries, id, d) \in [DOMAIN retries \cup {id} -> OptDelay]
          /\ DOMAIN Upsert(retries, id, d) = DOMAIN retries \cup {id}
      BY <3>1 DEF Upsert
    <3>4. QED
      BY <3>2, <3>3
  <2>2. LedgerTypeOK'
    BY <1>1, <2>1 DEF Retry, LedgerTypeOK
  <2>3. AckRetryDisjoint'
    BY <1>1, <2>1 DEF Retry, AckRetryDisjoint
  <2>4. BatchDecisionsExclusive'
    BY <1>1 DEF Retry, BatchDecisionsExclusive
  <2>5. QED
    BY <2>2, <2>3, <2>4
<1>2. ASSUME NEW id \in MsgIds, Ack(id)
      PROVE  LedgerIInv'
  BY <1>2 DEF Ack, LedgerTypeOK, AckRetryDisjoint, BatchDecisionsExclusive
<1>3. ASSUME NEW d \in OptDelay, RetryAll(d)
      PROVE  LedgerIInv'
  BY <1>3 DEF RetryAll, SetIfGiven, LedgerTypeOK, AckRetryDisjoint,
              BatchDecisionsExclusive
<1>4. CASE AckAll
  BY <1>4 DEF AckAll, LedgerTypeOK, AckRetryDisjoint, BatchDecisionsExclusive
<1>5. CASE UNCHANGED ledgerVars
  BY <1>5 DEF ledgerVars, LedgerTypeOK, AckRetryDisjoint,
              BatchDecisionsExclusive
<1>6. QED
  BY <1>1, <1>2, <1>3, <1>4, <1>5 DEF LedgerOp

\* The ledger is always well typed and its exclusion rules always hold:
\* never both ackAll and retryAll, never a message both acked and retried.
THEOREM LedgerSafety ==
    LedgerSpec => [](LedgerTypeOK /\ BatchDecisionsExclusive /\ AckRetryDisjoint)
<1>1. LedgerInit => LedgerIInv
  BY LedgerInitIInv
<1>2. LedgerIInv /\ [LedgerOp]_ledgerVars => LedgerIInv'
  BY LedgerStepIInv
<1>3. LedgerIInv => LedgerTypeOK /\ BatchDecisionsExclusive /\ AckRetryDisjoint
  BY DEF LedgerIInv, LedgerInv
<1>4. QED
  BY <1>1, <1>2, <1>3, PTL DEF LedgerSpec

\* Once ackAll() has taken effect no per-message call changes a decision.
THEOREM AckAllFreezes == LedgerSpec => AckAllFreezesMessages
<1>1. [LedgerOp]_ledgerVars => [ackAll => UNCHANGED <<explicitAcks, retries>>]_ledgerVars
  BY DEF LedgerOp, Retry, Ack, RetryAll, AckAll, ledgerVars
<1>2. QED
  BY <1>1, PTL DEF LedgerSpec, AckAllFreezesMessages
=============================================================================
