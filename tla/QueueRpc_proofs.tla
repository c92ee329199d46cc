--------------------------- MODULE QueueRpc_proofs ---------------------------
(***************************************************************************)
(* Proofs about a delivery run remotely through sendRpc (QueueRpc), for    *)
(* every set of message ids and delays: when no drain() runs on, the       *)
(* caller's QueueEventResult after the copy is exactly the remote one.     *)
(***************************************************************************)
EXTENDS QueueRpc, QueueCustomEvent_proofs, TLAPS

\* The response the server would build now.
CurrentReply ==
    [outcome |-> outcome, ackAll |-> ackAll, retryBatch |-> retryBatch,
     explicitAcks |-> GetExplicitAcks, retryMessages |-> GetRetryMessages]

(***************************************************************************)
(* The strengthening: the caller's result stays fresh until the copy; the  *)
(* server answers only after run() co_returned; without drain() the       *)
(* response on the wire is what the remote state still is.                *)
(***************************************************************************)
RInv ==
    /\ IInv
    /\ rpc \in {"inflight", "replied", "received", "failed"}
    /\ rpc \in {"inflight", "replied"} => localResult = FreshResult
    /\ rpc \in {"replied", "received"} => pc = "done"
    /\ (rpc = "replied" /\ ~drain) => reply = CurrentReply
    /\ ReceivedMirrorsRemote

\* getRetryMessages() followed by the copy loop gives back the HashMap.
LEMMA RetriesRoundTrip ==
    ASSUME LedgerTypeOK
    PROVE  CopiedRetries(GetRetryMessages) = retries
<1> DEFINE rm == GetRetryMessages
<1> DEFINE Entry(k) == [msgId |-> k, delaySeconds |-> retries[k]]
<1>0. rm = {Entry(k) : k \in DOMAIN retries}
  BY DEF GetRetryMessages
<1>1. {m.msgId : m \in rm} = DOMAIN retries
  <2>1. \A m \in rm : m.msgId \in DOMAIN retries
    BY <1>0
  <2>2. \A k \in DOMAIN retries : Entry(k) \in rm /\ Entry(k).msgId = k
    BY <1>0
  <2>3. QED
    BY <2>1, <2>2
<1>2. ASSUME NEW k \in DOMAIN retries
      PROVE  (CHOOSE m \in rm : m.msgId = k).delaySeconds = retries[k]
  <2>1. \A m \in rm : m.msgId = k => m = Entry(k)
    BY <1>0
  <2>2. Entry(k) \in rm /\ Entry(k).msgId = k
    BY <1>0
  <2>3. QED
    BY <2>1, <2>2
<1>3. retries = [k \in DOMAIN retries |-> retries[k]]
  BY DEF LedgerTypeOK
<1>4. QED
  BY <1>1, <1>2, <1>3 DEF CopiedRetries

\* The copy into a fresh result reproduces the server's ledger.
LEMMA CopyBackFresh ==
    ASSUME LedgerTypeOK
    PROVE  CopyBack(FreshResult, CurrentReply) = RemoteLedger
<1>1. CopiedRetryBatch(FreshResult.retryBatch, retryBatch) = retryBatch
  BY DEF LedgerTypeOK, CopiedRetryBatch, FreshResult, LedgerRecord, SetIfGiven
<1>2. CopiedRetries(CurrentReply.retryMessages) = retries
  BY RetriesRoundTrip DEF CurrentReply
<1>3. QED
  BY <1>1, <1>2 DEF CopyBack, CurrentReply, RemoteLedger, LedgerRecord,
     GetExplicitAcks

\* After run() co_returned without drain(), no step of the remote delivery
\* touches its ledger or its outcome: no JS of the request runs any more.
LEMMA DoneFrozen ==
    ASSUME IInv, Next, pc = "done", ~drain
    PROVE  UNCHANGED <<ledgerVars, outcome, drain, pc>>
<1>1. ~JSCanRun
  BY DEF JSCanRun
<1>2. QED
  BY <1>1 DEF Next, StartQueueEvent, StartFails, ExportedHandlerReturns,
     ExportedHandlerThrows, ListenerReturns, HandlerSettles,
     HandlerCallsLedger, SpawnWaitUntil, WaitUntilSettles, TimerFires,
     AbortRequested, AbortFires, NoWaitRaceWon, ServiceWorkerFinish,
     LegacyFinish, IInv, SyncWhileRacing

LEMMA RpcInitRInv == RpcInit => RInv
<1> SUFFICES ASSUME RpcInit PROVE RInv
    OBVIOUS
<1>1. IInv
  BY InitIInv DEF RpcInit
<1>2. QED
  BY <1>1 DEF RpcInit, RInv, ReceivedMirrorsRemote

LEMMA RpcStepRInv == RInv /\ [RpcNext]_allVars => RInv'
<1> SUFFICES ASSUME RInv, [RpcNext]_allVars PROVE RInv'
    OBVIOUS
<1>0. IInv
  BY DEF RInv
<1>1. CASE RemoteStep
  <2>1. IInv'
    BY <1>0, <1>1, StepIInv DEF RemoteStep
  <2>2. CASE pc = "done" /\ ~drain
    <3>1. UNCHANGED <<ledgerVars, outcome, drain, pc>>
      BY <1>0, <1>1, <2>2, DoneFrozen DEF RemoteStep
    <3>2. UNCHANGED <<CurrentReply, RemoteLedger>>
      BY <3>1 DEF ledgerVars, CurrentReply, GetExplicitAcks,
         GetRetryMessages, RemoteLedger, LedgerRecord
    <3>3. QED
      BY <1>1, <2>1, <3>1, <3>2 DEF RemoteStep, rpcVars, RInv,
         ReceivedMirrorsRemote
  <2>3. CASE pc = "done" /\ drain
    <3>1. pc' = "done" /\ drain'
      BY <1>0, <1>1, <2>3 DEF RemoteStep, Next, StartQueueEvent, StartFails,
         ExportedHandlerReturns, ExportedHandlerThrows, ListenerReturns,
         HandlerSettles, HandlerCallsLedger, coordVars, SpawnWaitUntil,
         WaitUntilSettles, TimerFires, AbortRequested, AbortFires,
         NoWaitRaceWon, ServiceWorkerFinish, LegacyFinish
    <3>2. QED
      BY <1>1, <2>1, <3>1 DEF RemoteStep, rpcVars, RInv, ReceivedMirrorsRemote
  <2>4. CASE pc # "done"
    <3>1. rpc \notin {"replied", "received"}
      BY <2>4 DEF RInv
    <3>2. QED
      BY <1>1, <2>1, <3>1 DEF RemoteStep, rpcVars, RInv, ReceivedMirrorsRemote
  <2>5. QED
    BY <2>2, <2>3, <2>4
<1>2. CASE ServerReplies
  <2>1. IInv'
    BY <1>0, <1>2, StepIInv DEF ServerReplies
  <2>2. QED
    BY <1>2, <2>1 DEF ServerReplies, RInv, CurrentReply, ReceivedMirrorsRemote,
       vars, ledgerVars, coordVars, GetExplicitAcks, GetRetryMessages
<1>3. CASE ClientReceives
  <2>1. IInv'
    BY <1>0, <1>3, StepIInv DEF ClientReceives
  <2>2. CASE ~drain
    <3>1. localResult' = RemoteLedger /\ localOutcome' = outcome
      BY <1>0, <1>3, <2>2, CopyBackFresh DEF ClientReceives, RInv, IInv,
         TypeOK, CurrentReply
    <3>2. QED
      BY <1>3, <2>1, <3>1 DEF ClientReceives, RInv, ReceivedMirrorsRemote,
         vars, ledgerVars, coordVars, RemoteLedger
  <2>3. CASE drain
    BY <1>3, <2>1, <2>3 DEF ClientReceives, RInv, ReceivedMirrorsRemote, vars,
       coordVars
  <2>4. QED
    BY <2>2, <2>3
<1>4. CASE ConnectionFails
  <2>1. IInv'
    BY <1>0, <1>4, StepIInv DEF ConnectionFails
  <2>2. QED
    BY <1>4, <2>1 DEF ConnectionFails, RInv, ReceivedMirrorsRemote
<1>5. CASE UNCHANGED allVars
  <2>1. IInv'
    BY <1>0, <1>5, StepIInv DEF allVars
  <2>2. QED
    BY <1>5, <2>1 DEF allVars, vars, rpcVars, ledgerVars, coordVars, RInv,
       CurrentReply, GetExplicitAcks, GetRetryMessages, ReceivedMirrorsRemote,
       RemoteLedger, LedgerRecord
<1>6. QED
  BY <1>1, <1>2, <1>3, <1>4, <1>5 DEF RpcNext

\* Where no drain() keeps the remote request going, whatever the order of
\* the remote steps, the reply and a lost connection, a caller that got the
\* response holds exactly the remote QueueEventResult and outcome.
THEOREM RemoteMirrored == RpcSpec => []ReceivedMirrorsRemote
<1>1. RInv => ReceivedMirrorsRemote
  BY DEF RInv
<1>2. QED
  BY <1>1, RpcInitRInv, RpcStepRInv, PTL DEF RpcSpec
=============================================================================
