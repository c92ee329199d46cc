----------------------- MODULE QueueCustomEvent_proofs -----------------------
(***************************************************************************)
(* Proofs about one queue delivery (QueueCustomEvent), for every set of    *)
(* message ids and delays: the state stays well typed, and an OK outcome   *)
(* is only ever reported after the handler finished successfully.          *)
(***************************************************************************)
EXTENDS QueueCustomEvent, QueueLedger_proofs, TLAPS

(***************************************************************************)
(* OkOnlyAfterHandlerSucceeded is not inductive: a step that co_returns OK *)
(* must know that the handler it looked at ended with a recorded success.  *)
(* The strengthening ties the promise states together the way              *)
(* startQueueEvent chains them.                                            *)
(***************************************************************************)
\* A resolved handler has recorded CompletedSuccessfully (its .then(), or
\* line 520 for a listener).
ResolvedRecorded == handler = "resolved" => event = "CompletedSuccessfully"

\* runProm resolves only when startQueueEvent returned: a listener has then
\* finished, a queue() handler has returned its promise.
RunPromResolvedHasHandler ==
    runProm = "resolved" =>
        \/ handlerKind = "listener" /\ handler = "resolved"
        \/ handlerKind = "queueFn" /\ handler \in {"pending", "resolved", "rejected"}

\* The synchronous part of a handler runs before run() can return, and a
\* handler's promise is pending only before its .then() recorded a status.
SyncWhileRacing == handler = "sync" => pc = "racing" /\ event = "Incomplete"
PendingIncomplete == handler = "pending" => event = "Incomplete"

\* Before the handler is entered no QueueEvent is stored.
IdleEmpty == handler = "idle" => event = "Empty"

\* A synchronous throw rejects runProm.
ThrewRejectsRunProm == handler = "threw" => runProm = "rejected"

\* The listener path reaches finishScheduled() only after an OK race.
SwFinishAfterListener ==
    pc = "swFinish" => handlerKind = "listener" /\ handler = "resolved"

\* An OK outcome was computed from a resolved handler.
OkFromResolvedHandler == outcome = "OK" => handler = "resolved"

\* run() has an outcome only once it co_returned.
OutcomeOnlyWhenDone == outcome # "none" => pc = "done"

\* A limit is only recorded by an abort while user code was active, and the
\* abort stops that code where it is: the handler never leaves "sync" by
\* itself under an abort, and a pending promise or task stays pending.
AbortFreezesUser == abort # "none" => handler # "sync"
LimitsKeepUserActive == limits # "none" => abort # "none" /\ UserActive

\* drain() is only reached on the noWait path, after run() returned, and not
\* after a listener's OK (that one went through finishScheduled() instead).
DrainOnlyNoWait ==
    drain => /\ noWait
             /\ pc = "done"
             /\ ~(outcome = "OK" /\ handlerKind = "listener")

IInv ==
    /\ TypeOK
    /\ LedgerInv
    /\ ResolvedRecorded
    /\ RunPromResolvedHasHandler
    /\ ThrewRejectsRunProm
    /\ SwFinishAfterListener
    /\ OkFromResolvedHandler
    /\ OkOnlyAfterHandlerSucceeded
    /\ OutcomeOnlyWhenDone
    /\ DrainOnlyNoWait
    /\ OkWaitsForWaitUntil
    /\ AbortFreezesUser
    /\ LimitsKeepUserActive
    /\ SyncWhileRacing
    /\ PendingIncomplete
    /\ IdleEmpty
-----------------------------------------------------------------------------
USE DEF HandlerKinds, Outcomes, Limits

LEMMA InitIInv == Init => IInv
<1> SUFFICES ASSUME Init PROVE IInv
    OBVIOUS
<1>1. LedgerTypeOK /\ LedgerInv
  BY LedgerInitIInv DEF Init, LedgerIInv
<1>2. QED
  BY <1>1 DEF Init, IInv, TypeOK, ResolvedRecorded, RunPromResolvedHasHandler,
              ThrewRejectsRunProm, SwFinishAfterListener,
              OkFromResolvedHandler, OkOnlyAfterHandlerSucceeded,
              OutcomeOnlyWhenDone, DrainOnlyNoWait, OkWaitsForWaitUntil,
              AbortFreezesUser, LimitsKeepUserActive, SyncWhileRacing,
              PendingIncomplete, IdleEmpty

\* The steps that leave the ledger alone keep its part of the invariant.
LEMMA LedgerUnchanged ==
    ASSUME LedgerTypeOK, LedgerInv, UNCHANGED ledgerVars
    PROVE  LedgerTypeOK' /\ LedgerInv'
BY DEF ledgerVars, LedgerTypeOK, LedgerInv, BatchDecisionsExclusive,
       AckRetryDisjoint

\* Every step of the delivery preserves the invariant.
LEMMA StepIInv == IInv /\ [Next]_vars => IInv'
<1> SUFFICES ASSUME IInv, [Next]_vars PROVE IInv'
    OBVIOUS
<1> DEFINE CoordInv == /\ ResolvedRecorded /\ RunPromResolvedHasHandler
                       /\ ThrewRejectsRunProm /\ SwFinishAfterListener
                       /\ OkFromResolvedHandler /\ OkOnlyAfterHandlerSucceeded
                       /\ OutcomeOnlyWhenDone /\ DrainOnlyNoWait
                       /\ OkWaitsForWaitUntil /\ AbortFreezesUser
                       /\ LimitsKeepUserActive /\ SyncWhileRacing
                       /\ PendingIncomplete /\ IdleEmpty
<1>0. LedgerTypeOK /\ LedgerInv /\ CoordInv
  BY DEF IInv, TypeOK
<1> USE DEF IInv, TypeOK, ResolvedRecorded, RunPromResolvedHasHandler,
            ThrewRejectsRunProm, SwFinishAfterListener, OkFromResolvedHandler,
            OkOnlyAfterHandlerSucceeded, OutcomeOnlyWhenDone, DrainOnlyNoWait,
            OkWaitsForWaitUntil, AbortFreezesUser, LimitsKeepUserActive,
            SyncWhileRacing, PendingIncomplete, IdleEmpty, UserActive
<1>1. CASE StartQueueEvent
  BY <1>0, <1>1, LedgerUnchanged DEF StartQueueEvent
<1>2. CASE StartFails
  BY <1>0, <1>2, LedgerUnchanged DEF StartFails
<1>3. CASE ExportedHandlerReturns
  BY <1>0, <1>3, LedgerUnchanged DEF ExportedHandlerReturns
<1>4. CASE ExportedHandlerThrows
  BY <1>0, <1>4, LedgerUnchanged DEF ExportedHandlerThrows
<1>5. CASE ListenerReturns
  BY <1>0, <1>5, LedgerUnchanged DEF ListenerReturns
<1>6. ASSUME NEW r \in {"resolved", "rejected"}, HandlerSettles(r)
      PROVE  IInv'
  BY <1>0, <1>6, LedgerUnchanged DEF HandlerSettles, JSCanRun
<1>7. CASE HandlerCallsLedger
  <2>1. LedgerTypeOK' /\ LedgerInv'
    BY <1>0, <1>7, LedgerStepIInv DEF HandlerCallsLedger, LedgerIInv
  <2>2. QED
    BY <1>0, <1>7, <2>1 DEF HandlerCallsLedger, coordVars
<1>8. CASE SpawnWaitUntil
  BY <1>0, <1>8, LedgerUnchanged DEF SpawnWaitUntil, JSCanRun
<1>9. ASSUME NEW r \in {"ok", "failed"}, WaitUntilSettles(r)
      PROVE  IInv'
  BY <1>0, <1>9, LedgerUnchanged DEF WaitUntilSettles, JSCanRun
<1>10. CASE TimerFires
  BY <1>0, <1>10, LedgerUnchanged DEF TimerFires
<1>11. ASSUME NEW l \in Limits \cup {"none"}, AbortRequested(l)
       PROVE  IInv'
  BY <1>0, <1>11, LedgerUnchanged DEF AbortRequested
<1>12. CASE AbortFires
  BY <1>0, <1>12, LedgerUnchanged DEF AbortFires
<1>13. ASSUME NEW by \in {"handler", "timeout", "abort"}, NoWaitRaceWon(by)
       PROVE  IInv'
  <2> USE DEF NoWaitRaceWon
  <2>1. LedgerTypeOK' /\ LedgerInv'
    BY <1>0, <1>13, LedgerUnchanged
  <2>2. RaceOutcome[by] = "OK" => handler = "resolved"
    <3>1. CASE by = "handler"
      <4>1. ChainSettled /\ RaceOutcome[by] = ChainOutcome
        BY <1>13, <3>1 DEF RaceReady, RaceOutcome
      <4>2. QED
        BY <1>0, <4>1 DEF ChainSettled, ChainOutcome
    <3>2. CASE by # "handler"
      BY <3>2 DEF RaceOutcome
    <3>3. QED
      BY <3>1, <3>2
  <2>3. CASE RaceOutcome[by] = "OK" /\ handlerKind = "listener"
    BY <1>0, <1>13, <2>1, <2>2, <2>3
  <2>4. CASE ~(RaceOutcome[by] = "OK" /\ handlerKind = "listener")
    <3>1. outcome' = WithLimits(RaceOutcome[by])
      BY <1>13, <2>4
    <3>2. RaceOutcome[by] \in Outcomes
      BY DEF RaceOutcome, ChainOutcome
    <3>3. outcome' \in Outcomes /\ (outcome' = "OK" => RaceOutcome[by] = "OK")
      BY <3>1, <3>2 DEF WithLimits
    <3>4. outcome' = "OK" => handler' = "resolved"
      BY <3>3, <2>2, <1>13
    <3>5. pc' = "done" /\ drain' = TRUE
      BY <1>13, <2>4
    <3>6. QED
      BY <1>0, <1>13, <2>1, <3>3, <3>4, <3>5
  <2>5. QED
    BY <2>3, <2>4
<1>14. ASSUME NEW by \in {"tasks", "timeout", "abort"}, ServiceWorkerFinish(by)
       PROVE  IInv'
  BY <1>0, <1>14, LedgerUnchanged DEF ServiceWorkerFinish, FinishReady,
        FinishOutcome, WaitUntilDone, WaitUntilStatus, WithLimits
<1>15. ASSUME NEW by \in {"tasks", "timeout", "abort"}, LegacyFinish(by)
       PROVE  IInv'
  BY <1>0, <1>15, LedgerUnchanged DEF LegacyFinish, FinishReady,
        FinishOutcome, WaitUntilDone, WaitUntilStatus
<1>16. CASE UNCHANGED vars
  BY <1>0, <1>16, LedgerUnchanged DEF vars, coordVars
<1>17. QED
  BY <1>1, <1>2, <1>3, <1>4, <1>5, <1>6, <1>7, <1>8, <1>9, <1>10, <1>11,
     <1>12, <1>13, <1>14, <1>15, <1>16 DEF Next

\* Every delivery state is well typed.
THEOREM TypeCorrect == Spec => []TypeOK
<1>1. IInv => TypeOK
  BY DEF IInv
<1>2. QED
  BY InitIInv, StepIInv, <1>1, PTL DEF Spec

\* An OK outcome is only ever reported after the user's handler recorded
\* CompletedSuccessfully, in both modes and for both kinds of handler.
THEOREM OkOnlyAfterSuccess == Spec => []OkOnlyAfterHandlerSucceeded
<1>1. IInv => OkOnlyAfterHandlerSucceeded
  BY DEF IInv
<1>2. QED
  BY InitIInv, StepIInv, <1>1, PTL DEF Spec

\* Where run() waits on the waitUntil tasks (legacy, and a listener under
\* noWait), an OK outcome means the handler's waitUntil task is done and did
\* not fail; drain() never runs on those paths, so no task starts later.
THEOREM OkWaitsForTasks == Spec => []OkWaitsForWaitUntil
<1>1. IInv => OkWaitsForWaitUntil
  BY DEF IInv
<1>2. QED
  BY InitIInv, StepIInv, <1>1, PTL DEF Spec

\* The step of run() that co_returns never reports OK once a limit was
\* exceeded: on the noWait paths the override replaces the outcome; on the
\* legacy path the aborted handler or task never completes, so
\* finishScheduled() can only time out or abort.
LEMMA LimitStep ==
    ASSUME IInv, [Next]_vars,
           pc # "done", pc' = "done", limits' # "none"
    PROVE  outcome' # "OK"
<1> USE DEF IInv, TypeOK
<1>1. ASSUME NEW by \in {"handler", "timeout", "abort"}, NoWaitRaceWon(by)
      PROVE  outcome' # "OK"
  <2>1. outcome' = WithLimits(RaceOutcome[by]) /\ limits' = limits
    BY <1>1 DEF NoWaitRaceWon
  <2>2. QED
    BY <2>1 DEF WithLimits
<1>2. ASSUME NEW by \in {"tasks", "timeout", "abort"}, ServiceWorkerFinish(by)
      PROVE  outcome' # "OK"
  BY <1>2 DEF ServiceWorkerFinish, WithLimits
<1>3. ASSUME NEW by \in {"tasks", "timeout", "abort"}, LegacyFinish(by)
      PROVE  outcome' # "OK"
  <2>1. UserActive
    BY <1>3 DEF LegacyFinish, LimitsKeepUserActive
  <2>2. by # "tasks"
    BY <1>3, <2>1 DEF LegacyFinish, FinishReady, WaitUntilDone, UserActive
  <2>3. QED
    BY <1>3, <2>2 DEF LegacyFinish, FinishOutcome
<1>4. QED
  BY <1>1, <1>2, <1>3
     DEF Next, vars, coordVars, StartQueueEvent, StartFails,
         ExportedHandlerReturns, ExportedHandlerThrows, ListenerReturns,
         HandlerSettles, HandlerCallsLedger, SpawnWaitUntil, WaitUntilSettles,
         TimerFires, AbortRequested, AbortFires

\* A delivery during which a CPU or memory limit was exceeded is never
\* reported OK, in either mode (the getLimitsExceeded() override of run()).
THEOREM NoOkAfterLimit == Spec => NoOkAfterLimitExceeded
<1>1. IInv /\ [Next]_vars
        => [(pc # "done" /\ pc' = "done" /\ limits' # "none") => outcome' # "OK"]_vars
  BY LimitStep
<1>2. QED
  BY InitIInv, StepIInv, <1>1, PTL DEF Spec, NoOkAfterLimitExceeded

\* Under the whole delivery, the handler's ack() and retry() calls from any
\* interleaving of its synchronous part, its promise and its waitUntil task
\* never leave a message both acked and marked for retry.
THEOREM DeliveryAckRetryDisjoint == Spec => []AckRetryDisjoint
<1>1. IInv => AckRetryDisjoint
  BY DEF IInv, LedgerInv
<1>2. QED
  BY <1>1, InitIInv, StepIInv, PTL DEF Spec
=============================================================================
