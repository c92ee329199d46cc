-------------------------- MODULE QueueCustomEvent --------------------------
(***************************************************************************)
(* One queue batch delivery on the consumer side: QueueCustomEventImpl::run *)
(* and startQueueEvent (src/workerd/api/queue.c++, lines 464-705), with the *)
(* handler mutating the ledger of QueueLedger while it runs.                *)
(*                                                                         *)
(* run() calls the handler inside context.run() (runProm) and then waits:   *)
(*  - with the queueConsumerNoWaitForWaitUntil flag (noWait), on the race   *)
(*    of the handler's promise against limitScheduled() and onAbort(); a    *)
(*    service-worker listener then also waits in finishScheduled(); the     *)
(*    limits exceeded so far override the outcome; waitUntil tasks and the  *)
(*    handler's own JS keep running (drain) after run() returns;            *)
(*  - without it (legacy), in finishScheduled() on every waitUntil task,    *)
(*    the handler's promise and runProm included.                           *)
(* The user's code (handler, waitUntil task) and the environment (timer,    *)
(* abort) are nondeterministic; JS is single threaded, so the synchronous   *)
(* part of a handler is one critical section ("sync").                     *)
(***************************************************************************)
EXTENDS QueueLedger

\* What the worker exports: a queue() handler, a "queue" event listener, or
\* neither (no queue() export, or no listener: both throw in startQueueEvent).
HandlerKinds == {"queueFn", "listener", "missing"}

Outcomes == {"OK", "EXCEPTION", "EXCEEDED_CPU", "EXCEEDED_MEMORY"}
Limits == {"EXCEEDED_CPU", "EXCEEDED_MEMORY"}

VARIABLES
    noWait,       \* compat flag queueConsumerNoWaitForWaitUntil
    handlerKind,  \* which handler the worker has, in HandlerKinds
    pc,           \* run(): "racing", "swFinish" (line 630), "done" (co_return)
    drain,        \* run() returned and drain() keeps the request's JS going
    runProm,      \* the context.run() promise: pending, resolved, rejected
    event,        \* QueueEvent completion status; "Empty" while not stored
    handler,      \* the handler: idle, sync, pending, resolved, rejected, threw
    bg,           \* a waitUntil'd task of the handler: none, pending, ok, failed
    timer,        \* limitScheduled(): armed, fired
    abort,        \* the IoContext abort: none, requested, fired (onAbort)
    limits,       \* getLimitsExceeded(): "none" or a member of Limits
    outcome,      \* the co_returned EventOutcome, "none" before
    resolvedBy    \* the signal that decided the outcome (history variable)

coordVars == <<noWait, handlerKind, pc, drain, runProm, event, handler, bg,
               timer, abort, limits, outcome, resolvedBy>>
vars == <<ledgerVars, coordVars>>

\* JS of this request may run: the context is not aborted and run() has not
\* returned, or it returned into drain().
JSCanRun == abort = "none" /\ (pc # "done" \/ drain)

\* The user's code is executing or has work outstanding.
UserActive == handler \in {"sync", "pending"} \/ bg = "pending"

-----------------------------------------------------------------------------
Init ==
    /\ LedgerInit
    /\ noWait \in BOOLEAN
    /\ handlerKind \in HandlerKinds
    /\ pc = "racing"
    /\ drain = FALSE
    /\ runProm = "pending"
    /\ event = "Empty"
    /\ handler = "idle"
    /\ bg = "none"
    /\ timer = "armed"
    /\ abort = "none"
    /\ limits = "none"
    /\ outcome = "none"
    /\ resolvedBy = "none"

\* context.run() gets the lock and runs startQueueEvent: the QueueEvent is
\* built (its messages deserialized), then the handler is entered. When the
\* race has already been lost, the runProm chain is cancelled and this never
\* runs.
StartQueueEvent ==
    /\ pc = "racing"
    /\ runProm = "pending"
    /\ handler = "idle"
    /\ abort = "none"
    /\ handlerKind # "missing"
    /\ handler' = "sync"
    /\ event' = "Incomplete"
    /\ UNCHANGED <<ledgerVars, noWait, handlerKind, pc, drain, runProm, bg,
                   timer, abort, limits, outcome, resolvedBy>>

\* startQueueEvent throws before the event is stored in the holder: a message
\* fails to deserialize (unsupported content type, bad JSON), or the worker
\* has no queue() export (line 510) or no listener (line 517).
StartFails ==
    /\ pc = "racing"
    /\ runProm = "pending"
    /\ handler = "idle"
    /\ abort = "none"
    /\ runProm' = "rejected"
    /\ UNCHANGED <<ledgerVars, noWait, handlerKind, pc, drain, event, handler,
                   bg, timer, abort, limits, outcome, resolvedBy>>

\* queue() returns its promise; the .then() that records the completion
\* status is attached and startQueueEvent returns (runProm resolves).
ExportedHandlerReturns ==
    /\ handlerKind = "queueFn"
    /\ handler = "sync"
    /\ handler' = "pending"
    /\ runProm' = "resolved"
    /\ UNCHANGED <<ledgerVars, noWait, handlerKind, pc, drain, event, bg,
                   timer, abort, limits, outcome, resolvedBy>>

\* queue() throws synchronously: no promise, runProm rejects, the completion
\* status stays Incomplete.
ExportedHandlerThrows ==
    /\ handlerKind = "queueFn"
    /\ handler = "sync"
    /\ handler' = "threw"
    /\ runProm' = "rejected"
    /\ UNCHANGED <<ledgerVars, noWait, handlerKind, pc, drain, event, bg,
                   timer, abort, limits, outcome, resolvedBy>>

\* dispatchEventImpl returns and the event is marked CompletedSuccessfully
\* at once (line 520).
ListenerReturns ==
    /\ handlerKind = "listener"
    /\ handler = "sync"
    /\ handler' = "resolved"
    /\ event' = "CompletedSuccessfully"
    /\ runProm' = "resolved"
    /\ UNCHANGED <<ledgerVars, noWait, handlerKind, pc, drain, bg, timer,
                   abort, limits, outcome, resolvedBy>>

\* The promise queue() returned settles; its .then() records the status.
HandlerSettles(r) ==
    /\ handler = "pending"
    /\ JSCanRun
    /\ handler' = r
    /\ event' = IF r = "resolved" THEN "CompletedSuccessfully"
                                  ELSE "CompletedWithError"
    /\ UNCHANGED <<ledgerVars, noWait, handlerKind, pc, drain, runProm, bg,
                   timer, abort, limits, outcome, resolvedBy>>

\* The handler calls ack/retry/ackAll/retryAll, synchronously or after an
\* await, or from a waitUntil'd task: nothing stops it once run() returned.
HandlerCallsLedger ==
    /\ JSCanRun
    /\ UserActive
    /\ LedgerOp
    /\ UNCHANGED coordVars

\* ctx.waitUntil() / event.waitUntil(): the handler hands over a task.
SpawnWaitUntil ==
    /\ JSCanRun
    /\ handler \in {"sync", "pending"}
    /\ bg = "none"
    /\ bg' = "pending"
    /\ UNCHANGED <<ledgerVars, noWait, handlerKind, pc, drain, runProm, event,
                   handler, timer, abort, limits, outcome, resolvedBy>>

WaitUntilSettles(r) ==
    /\ bg = "pending"
    /\ handler # "sync"
    /\ JSCanRun
    /\ bg' = r
    /\ UNCHANGED <<ledgerVars, noWait, handlerKind, pc, drain, runProm, event,
                   handler, timer, abort, limits, outcome, resolvedBy>>
-----------------------------------------------------------------------------
(* The environment: the wall-clock limit and the IoContext abort. Nothing  *)
(* but JS ops happen while the handler's synchronous part runs.             *)

\* limitScheduled() resolves (the same deadline finishScheduled() uses).
TimerFires ==
    /\ timer = "armed"
    /\ handler # "sync"
    /\ pc # "done"
    /\ timer' = "fired"
    /\ UNCHANGED <<ledgerVars, noWait, handlerKind, pc, drain, runProm, event,
                   handler, bg, abort, limits, outcome, resolvedBy>>

\* The IoContext is aborted: for an exceeded CPU or memory limit while user
\* code runs (getLimitsExceeded() then reports it), or for an unrelated
\* reason at any time. JS of the request stops at once.
AbortRequested(l) ==
    /\ abort = "none"
    /\ handler # "sync"
    /\ pc # "done" \/ drain
    /\ l \in Limits => UserActive
    /\ abort' = "requested"
    /\ limits' = l
    /\ UNCHANGED <<ledgerVars, noWait, handlerKind, pc, drain, runProm, event,
                   handler, bg, timer, outcome, resolvedBy>>

\* context.onAbort() settles.
AbortFires ==
    /\ abort = "requested"
    /\ handler # "sync"
    /\ abort' = "fired"
    /\ UNCHANGED <<ledgerVars, noWait, handlerKind, pc, drain, runProm, event,
                   handler, bg, timer, limits, outcome, resolvedBy>>

-----------------------------------------------------------------------------
(* run(), noWait path (lines 592-646).                                      *)

\* Mutant: the chain does not wait on exportedHandlerProm.
ChainSettledNoHandlerWait == runProm # "pending"

\* runProm.then(exportedHandlerProm) has settled: a listener has no
\* exportedHandlerProm, a queue() handler's is its promise's .then() chain.
ChainSettled ==
    \/ runProm = "rejected"
    \/ runProm = "resolved" /\ handlerKind = "listener"
    \/ runProm = "resolved" /\ handler \in {"resolved", "rejected"}

\* Its value once settled: OK, or EXCEPTION through .catch_().
ChainOutcome ==
    IF runProm = "rejected" \/ handler = "rejected" THEN "EXCEPTION" ELSE "OK"

\* Mutant: the join without the timeout promise.
RaceReadyNoTimeout ==
    [handler |-> ChainSettled, timeout |-> FALSE, abort |-> abort = "fired"]

\* The three promises of the exclusiveJoin, whether each has resolved, and
\* the outcome each maps to.
RaceReady ==
    [handler |-> ChainSettled, timeout |-> timer = "fired",
     abort |-> abort = "fired"]
RaceOutcome ==
    [handler |-> ChainOutcome, timeout |-> "EXCEEDED_CPU", abort |-> "EXCEPTION"]

\* Mutant: no getLimitsExceeded() override.
WithoutLimits(o) == o

\* KJ_IF_SOME(status, getLimitsExceeded()) { outcome = status; }
WithLimits(o) == IF limits = "none" THEN o ELSE limits

\* The first promise of the join to resolve wins. An OK from a listener
\* (isServiceWorkerHandler) goes on to finishScheduled(); anything else
\* hands the request to drain() and returns, the limits overriding.
NoWaitRaceWon(by) ==
    /\ noWait
    /\ pc = "racing"
    /\ handler # "sync"
    /\ RaceReady[by]
    /\ resolvedBy' = by
    /\ \/ /\ RaceOutcome[by] = "OK" /\ handlerKind = "listener"
          /\ pc' = "swFinish"
          /\ UNCHANGED <<drain, outcome>>
       \/ /\ ~(RaceOutcome[by] = "OK" /\ handlerKind = "listener")
          /\ pc' = "done"
          /\ drain' = TRUE
          /\ outcome' = WithLimits(RaceOutcome[by])
    /\ UNCHANGED <<ledgerVars, noWait, handlerKind, runProm, event, handler,
                   bg, timer, abort, limits>>

-----------------------------------------------------------------------------
(* finishScheduled() (in IoContext): COMPLETED once the waitUntil tasks are *)
(* done, TIMEOUT, or ABORTED. In the legacy path runProm and the handler's  *)
(* promise are waitUntil tasks too; in the noWait listener path they have   *)
(* settled already, so one predicate serves both.                          *)

\* Mutant: finishScheduled() forgets the handler's own waitUntil task.
WaitUntilDoneIgnoringTask == runProm # "pending" /\ handler \notin {"sync", "pending"}

WaitUntilDone == runProm # "pending" /\ handler \notin {"sync", "pending"}
                 /\ bg # "pending"

\* context.waitUntilStatus(): EXCEPTION when a waitUntil task failed.
WaitUntilStatus ==
    IF runProm = "rejected" \/ handler = "rejected" \/ bg = "failed"
    THEN "EXCEPTION" ELSE "OK"

FinishReady ==
    [tasks |-> WaitUntilDone, timeout |-> timer = "fired",
     abort |-> abort = "fired"]

\* completed ? context.waitUntilStatus() : EventOutcome::EXCEEDED_CPU
FinishOutcome(by) == IF by = "tasks" THEN WaitUntilStatus ELSE "EXCEEDED_CPU"

\* noWait, listener: co_await finishScheduled() (lines 630-632), then the
\* limits override (643-645) and co_return.
ServiceWorkerFinish(by) ==
    /\ pc = "swFinish"
    /\ handler # "sync"
    /\ FinishReady[by]
    /\ pc' = "done"
    /\ outcome' = WithLimits(FinishOutcome(by))
    /\ resolvedBy' = by
    /\ UNCHANGED <<ledgerVars, noWait, handlerKind, drain, runProm, event,
                   handler, bg, timer, abort, limits>>

\* Legacy: addWaitUntil(runProm), co_await finishScheduled(), log the
\* completion status when not completed, co_return (lines 647-704).
LegacyFinish(by) ==
    /\ ~noWait
    /\ pc = "racing"
    /\ handler # "sync"
    /\ FinishReady[by]
    /\ pc' = "done"
    /\ outcome' = FinishOutcome(by)
    /\ resolvedBy' = by
    /\ UNCHANGED <<ledgerVars, noWait, handlerKind, drain, runProm, event,
                   handler, bg, timer, abort, limits>>

-----------------------------------------------------------------------------
Next ==
    \/ StartQueueEvent
    \/ StartFails
    \/ ExportedHandlerReturns
    \/ ExportedHandlerThrows
    \/ ListenerReturns
    \/ \E r \in {"resolved", "rejected"} : HandlerSettles(r)
    \/ HandlerCallsLedger
    \/ SpawnWaitUntil
    \/ \E r \in {"ok", "failed"} : WaitUntilSettles(r)
    \/ TimerFires
    \/ \E l \in Limits \cup {"none"} : AbortRequested(l)
    \/ AbortFires
    \/ \E by \in {"handler", "timeout", "abort"} : NoWaitRaceWon(by)
    \/ \E by \in {"tasks", "timeout", "abort"} : ServiceWorkerFinish(by)
    \/ \E by \in {"tasks", "timeout", "abort"} : LegacyFinish(by)

\* The timer and the abort promise always fire, the event loop always runs
\* the continuation of a resolved join, context.run() gets the lock, and a
\* synchronous handler part ends (an endless one is cut by the CPU limit).
\* The user's promises and tasks are not fair: they may hang forever.
Fairness ==
    /\ WF_vars(TimerFires)
    /\ WF_vars(AbortFires)
    /\ WF_vars(StartQueueEvent \/ StartFails)
    /\ WF_vars(ExportedHandlerReturns \/ ExportedHandlerThrows \/ ListenerReturns)
    /\ WF_vars(\E by \in {"handler", "timeout", "abort"} : NoWaitRaceWon(by))
    /\ WF_vars(\E by \in {"tasks", "timeout", "abort"} : ServiceWorkerFinish(by))
    /\ WF_vars(\E by \in {"tasks", "timeout", "abort"} : LegacyFinish(by))

Spec == Init /\ [][Next]_vars /\ Fairness

-----------------------------------------------------------------------------
TypeOK ==
    /\ LedgerTypeOK
    /\ noWait \in BOOLEAN
    /\ handlerKind \in HandlerKinds
    /\ pc \in {"racing", "swFinish", "done"}
    /\ drain \in BOOLEAN
    /\ runProm \in {"pending", "resolved", "rejected"}
    /\ event \in {"Empty", "Incomplete", "CompletedSuccessfully",
                  "CompletedWithError"}
    /\ handler \in {"idle", "sync", "pending", "resolved", "rejected", "threw"}
    /\ bg \in {"none", "pending", "ok", "failed"}
    /\ timer \in {"armed", "fired"}
    /\ abort \in {"none", "requested", "fired"}
    /\ limits \in Limits \cup {"none"}
    /\ outcome \in Outcomes \cup {"none"}
    /\ resolvedBy \in {"none", "handler", "tasks", "timeout", "abort"}

\* A delivery is reported OK only when the user's handler observably
\* finished without error: its completion status is CompletedSuccessfully.
\* A run() that stops waiting on the handler's promise early breaks it.
OkOnlyAfterHandlerSucceeded ==
    outcome = "OK" => event = "CompletedSuccessfully"

\* Where run() waits on the waitUntil tasks (legacy, and the listener path
\* of noWait), OK means every one of them finished and none failed.
OkWaitsForWaitUntil ==
    (outcome = "OK" /\ (~noWait \/ handlerKind = "listener"))
        => bg \in {"none", "ok"}

\* A delivery during which a CPU or memory limit was exceeded is not
\* reported OK, even when the handler's promise won the race before the
\* abort fired (the getLimitsExceeded() override).
NoOkAfterLimitExceeded ==
    [][(pc # "done" /\ pc' = "done" /\ limits' # "none") => outcome' # "OK"]_vars

\* Every delivery ends: run() co_returns an outcome, whatever the handler
\* and its waitUntil tasks do.
DeliveryResolves == <>(pc = "done")

\* The spec (4.4): an abort unrelated to a limit is reported as EXCEPTION,
\* in both modes.
AbortIsException ==
    (pc = "done" /\ resolvedBy = "abort" /\ limits = "none")
        => outcome = "EXCEPTION"

\* The spec (4.4, 5): once the delivery is resolved, later ack()/retry()
\* calls are no-ops; the ledger at resolution is what is reported.
LedgerFrozenAfterResolution ==
    [][pc = "done" => UNCHANGED ledgerVars]_vars
=============================================================================
