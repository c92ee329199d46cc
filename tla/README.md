# Formal models of workerd's Queues API (`src/workerd/api/queue.c++`)

These TLA+ modules model the Queues binding of workerd. There are two sides to it.

- **Producer.** `WorkerQueue::send` and `WorkerQueue::sendBatch` turn JS values
  into an HTTP request to the queue broker. They use `validateContentType` and
  `serialize`, and `sendBatch` builds the JSON body by hand.
- **Consumer.** `QueueCustomEventImpl::run` delivers a batch to the worker.
  - `startQueueEvent` builds the `QueueEvent` and its messages (through
    `deserialize`) and calls the `queue()` handler or the `"queue"` listener.
  - While the handler runs it records decisions in a `QueueEventResult`, the
    *ledger*, through `ack`, `retry`, `ackAll` and `retryAll`.
  - `run` waits for the handler, its `waitUntil` tasks, the wall-clock limit or
    an abort, and returns an `EventOutcome`. How it waits depends on the compat
    flag `queueConsumerNoWaitForWaitUntil`, called *noWait* below.
  - `sendRpc` runs the same event remotely and copies the remote ledger back.

The two sides meet only through the broker. The only contract between them is
the message format. The consumer decodes a body in its declared format,
defaulting to V8.

## Modules

| Module | Models | State |
|---|---|---|
| `QueueLedger` | `QueueMessage::retry`, `QueueMessage::ack`, `QueueEvent::retryAll`, `QueueEvent::ackAll` (lines 364-462) | `ackAll`, `retryBatch`, `explicitAcks` (a set), `retries` (a function id -> delay) |
| `QueueCustomEvent` | `startQueueEvent` and `QueueCustomEventImpl::run` (lines 464-705). It EXTENDS `QueueLedger`, and the handler calls the ledger's operations. | compat flag, handler kind, `run`'s control point, `drain`, the `runProm` promise, the `QueueEvent` completion status, the handler and one `waitUntil` task, the timer, the abort, the limits exceeded, the outcome |
| `QueueProducer` | `validateContentType`, `serialize`, `deserialize`'s choice of format, `send`, `sendBatch` (lines 23-340) | the JSON-messages feature flag, and the last call with its inputs and its request (or `TypeError`) |
| `QueueRpc` | `QueueCustomEventImpl::sendRpc`, `getRetryMessages`, `getExplicitAcks` (lines 705-774). It EXTENDS `QueueCustomEvent`: the delivery runs on the remote side. | the call's state (`inflight`, `replied`, `received`, `failed`), the reply on the wire, the caller's own `QueueEventResult`, the outcome the caller returns |
| `QueueLedger_proofs`, `QueueCustomEvent_proofs`, `QueueProducer_proofs`, `QueueRpc_proofs` | TLAPS proofs | |
| `MC_*` | TLC instances | |

### QueueLedger

There is one action per method. Its guard is the negation of the method's early
returns, which only log a warning. Those early returns are therefore stuttering
steps.

- `Retry` uses `Upsert`, which models `HashMap::upsert(id, {})`. It replaces the
  entry, so a later `retry()` without a delay clears an earlier delay.
- `RetryAll` keeps the old `delaySeconds` when no delay is given (`SetIfGiven`).

### QueueCustomEvent

JS runs on a single thread. The synchronous part of the handler (`handler =
"sync"`) is therefore one critical section, in which nothing but the handler's
own calls happen.

The handler's actions are:

- `ExportedHandlerReturns` and `ExportedHandlerThrows` for a `queue()` export.
- `ListenerReturns` for a listener. Its status is set to `CompletedSuccessfully`
  at once (line 520).
- `StartFails` when deserialization fails or no handler exists.
- `HandlerSettles` when the promise of a `queue()` handler settles.
- `HandlerCallsLedger` and `SpawnWaitUntil`, which can happen whenever the
  request's JS may run: before `run` returns, or after it under `drain()`.

The environment's actions are `TimerFires` (`limitScheduled`), `AbortRequested`
(with the limit that caused it, if any) and `AbortFires` (`onAbort`).

`run`'s own steps are:

- `NoWaitRaceWon(by)` models the `exclusiveJoin` of lines 598-622 and the
  branch that follows it.
  - An OK from a listener goes on to `ServiceWorkerFinish`, the
    `finishScheduled` hack of line 623.
  - Every other outcome sets `drain`.
  - The `getLimitsExceeded()` override is applied (`WithLimits`).
- `LegacyFinish(by)` models lines 647-704. It has no limits override.

`finishScheduled` is modelled by its result: COMPLETED when every `waitUntil`
task is done, TIMEOUT, or ABORTED. The source of `IoContext` is not in this
repository. `resolvedBy` is a history variable that records which signal
decided the outcome.

### QueueProducer

Payload bytes are abstracted to their length. A message on the wire is its
declared format (header or field, or none), the format its bytes were written
in, its size and its delay.

- `Send` and `SendBatch` keep these `TypeError` paths (the failures of JSON
  and V8 serialization are not modelled, see below):
  - an undefined body;
  - an unsupported type;
  - a body that does not fit the type;
  - an empty batch.
- `SendBatch` also computes the size headers, the exact length of the
  hand-built JSON body (`BatchBodyLen`, with `kj::str` of an `int` in
  `DecimalLen`) and `estimatedSize`.
  - The sums of the two loops (`totalSize`, and the characters appended per
    message) are `SumTo`, a recursive function over the index.
  - A delay is a C++ `int` (`SerializedWithOptions::delaySeconds`, line 131).
    `ProducerAssumption` requires `SendDelays \subseteq IntMin..IntMax`, so
    `kj::str` writes at most 11 characters.
- The producer keeps no state between calls. A behaviour is therefore one call:
  `Next` fires once, and the runs set `CHECK_DEADLOCK FALSE` for this reason.

### QueueRpc

The caller sends `queueRequest` and waits. The remote side is the whole
`QueueCustomEvent` delivery (`RemoteStep`).

- `ServerReplies` fires once the remote `run` has returned. The reply holds the
  outcome, `ackAll`, `retryBatch` and what `getExplicitAcks` and
  `getRetryMessages` report.
- `ClientReceives` is the `.then()` of lines 732-756. It copies the reply into
  the caller's fresh result: the acks and retries are cleared and refilled, and
  `retryBatch.delaySeconds` is set only when the reply has one.
- `ConnectionFails` is the fault model. The call rejects before or after the
  server replied, and the `.then()` never runs.
- Under `drain()` the remote handler may still change its ledger after the
  reply was built. The reply is then a snapshot.

## Runs

| Run | Properties | Result |
|---|---|---|
| `ledger` | `BatchDecisionsExclusive`, `AckRetryDisjoint`, `AckAllFreezesMessages` | pass (175 states, 3 messages, 2 delays, symmetry over messages) |
| `ledger_retryAll` | `RetryAllFreezesMessages` | violation: `retryAll()` then `retry()` |
| `delivery` | `OkOnlyAfterHandlerSucceeded`, `OkWaitsForWaitUntil`, `NoOkAfterLimitExceeded`, `DeliveryResolves` | pass (64,040 states) |
| `rpc` | `ReceivedMirrorsRemote` | pass (470,368 states) |
| `delivery_abort` | `AbortIsException` | violation: a plain abort on the legacy path gives EXCEEDED_CPU |
| `delivery_ledger_after_resolution` | `LedgerFrozenAfterResolution` | violation: under noWait, the handler still retries after `run` returned |
| `producer` | `DeclaredFormatMatchesEncoding`, `BatchBodyFitsEstimate`, `BatchMsgsAreSendMsgs` | pass (128,020 states) |
| `producer_case` | `SendBatchAcceptsWhatSendAccepts` | violation: `contentType: "TEXT"` |

### Bounds

- **Ledger runs.** Three messages are enough for every pairwise interplay
  between an ack and a retry with a batch decision in between. Two delays show
  the replacement of a delay.
- **Delivery runs.**
  - Both flag values, the three handler kinds, one `waitUntil` task, one timer
    and one abort cover every branch of `run`.
  - Two messages and one delay are enough for the ledger calls that interleave.
  - More tasks only multiply the cases in which some task is pending.
- **RPC run.** Two messages and one delay, as for the delivery. Each flag
  value and handler kind is included, so the reply is built both with and
  without a `drain()` still running. The connection may fail in every state of
  the call.
- **Producer run.**
  - Payload sizes 1, 2 and 3 cover every residue of base64's 3-byte groups.
  - The delays are a 1-digit value and `INT_MIN`, which is the longest output
    of `kj::str`.
  - The contentType spellings are `text`, `TEXT`, `bytes`, `json`, `V8` and
    `xml`. Together they reach every tag of `validateContentType`, the
    unsupported-type error, and the case mismatch between validate and
    serialize.
  - Each kind of body is included, batches hold up to 2 messages, and both flag
    values are used.
  - The envelope of one message is at most 59 characters (58 and a comma)
    and its allowance is 64. So
    one message at the worst case already stresses the estimate, and more
    messages add the same slack each.

`ReceivedMirrorsRemote` says that when no `drain()` runs on, the caller's result
after the copy equals the remote ledger, and its outcome equals the remote one.
That needs every entry from the getters, every delay from the copy loop, and no
ledger call after the reply. With `drain()` the copy is only a snapshot, and
nothing stronger than the ledger's own invariants holds of it.

Each property of a passing run is broken by a mutant of the code it is about, for
example an `ack()` without its `retries.find` check, or a join without the
timeout (PROJECT.json lists them all).

### Fairness

The delivery spec assumes weak fairness for the following:

- the timer and the abort: `limitScheduled` always resolves, and an abort that
  was requested is delivered;
- `context.run` getting the lock;
- the end of a synchronous handler part: an endless one is cut by the CPU
  limit;
- the continuations of `run`.

The RPC spec assumes no fairness: only safety is asked of the call. Whether
a call ends depends on Cap'n Proto delivering the reply or failing the
connection, which is the transport's promise, not this code's.

The user's promises and tasks get **no** fairness, because they may hang
forever. `DeliveryResolves` shows that the timer alone is enough for every
delivery to end.

## Findings

1. `retry()` does not check `retryBatch.retry` (line 364). After `retryAll()`,
   per-message retries are still recorded, unlike after `ackAll()`.
2. An abort that finishes `finishScheduled` as ABORTED is reported as
   EXCEEDED_CPU (lines 702 and 632). Spec section 4.4 says EXCEPTION. The
   comment at lines 617-619 presents EXCEPTION as a change made on purpose
   under the compat flag, so the legacy mapping is deliberate: a divergence
   from the spec, not a slip. Under noWait, only the race itself maps an abort
   to EXCEPTION.
3. Under noWait, `drain()` keeps the handler's JS running after the outcome is
   returned, and that JS can still change the ledger (line 639). Spec section
   4.4 says no ledger mutation is honored after resolution (late calls are
   no-ops).
4. `sendBatch` passes the caller's `contentType` to `serialize`, not the
   validated tag (line 252). So `"TEXT"` is accepted by `send` but makes
   `sendBatch` throw.

## Proofs (TLAPS)

- **`QueueLedger_proofs`.**
  - `LedgerSafety` proves that `LedgerTypeOK /\ BatchDecisionsExclusive /\
    AckRetryDisjoint` always holds, for every set of messages and delays. The
    invariant is inductive as it stands. The type part is needed so that
    `retries` is known to be a function after `Upsert`.
  - `AckAllFreezes` proves the action property `AckAllFreezesMessages`
    directly from the definitions of the four operations.
- **`QueueCustomEvent_proofs`.**
  - `TypeCorrect` proves `[]TypeOK`.
  - `OkOnlyAfterSuccess` proves `[]OkOnlyAfterHandlerSucceeded`.
  - `OkOnlyAfterHandlerSucceeded` is not inductive. The strengthening `IInv`
    adds these facts:
    - a resolved handler has recorded `CompletedSuccessfully`;
    - a resolved `runProm` means the handler got past its synchronous part;
    - a handler that threw has rejected `runProm`;
    - `swFinish` is reached only by a listener;
    - OK implies the handler resolved.
    - an outcome exists only once `run` has returned;
    - `drain` happens only on the noWait path, and never after a listener's
      OK;
    - under an abort the handler is never in its synchronous part;
    - a recorded limit means an abort hit while user code was active, and that
      code stays unfinished.
  - `IInv` was checked with TLC before it was proved. The step proof has one
    case per action.
  - `OkWaitsForTasks` proves `[]OkWaitsForWaitUntil` from the same `IInv`.
    When the outcome is OK on those paths, `drain` is off, so no JS can start
    or settle a task afterwards.
  - `IInv` also holds these facts, which tie the handler's state to its
    stored completion status:
    - the synchronous part runs only while `run` races, with the status
      `Incomplete`;
    - a pending handler has the status `Incomplete`;
    - an idle handler has no status stored yet.
  - `DeliveryAckRetryDisjoint` proves `[]AckRetryDisjoint` for the whole
    delivery, whatever the interleaving of handler, task and `run`.
  - `NoOkAfterLimit` proves the action property `NoOkAfterLimitExceeded`
    (lemma `LimitStep`).
    - On the noWait paths the override replaces the outcome.
    - On the legacy path no override exists. OK is still impossible, because
      the aborted handler or task never completes. So `finishScheduled` can
      only time out or abort.

- **`QueueProducer_proofs`.**
  - `FormatsMatch` proves `[]DeclaredFormatMatchesEncoding` for every set of
    sizes, delays and contentType spellings. The property is inductive: each
    call builds its request from scratch.
  - `SendMsgDecodable` and `BatchMsgDecodable` go branch by branch. The key
    lemma for `sendBatch` is `AcceptedTagIsCanonical`: a string that
    `serialize` accepts is already lower case, so the validated tag in the
    field and the raw string given to `serialize` agree.
  - `BatchNarrowsSend` proves `[]BatchMsgsAreSendMsgs`. Each message of a
    batch that `sendBatch` accepts is exactly the message `send` would write
    for it, under either flag value. The key lemma is again
    `AcceptedTagIsCanonical`. With the `producer_case` violation this settles
    the relation: `sendBatch` accepts fewer messages than `send`, never
    different ones.
  - `Digits` counts the powers of ten an `int` reaches. It is not recursive, so
    the module can hold proofs.
  - `BodyFits` proves `[]BatchBodyFitsEstimate`: the `KJ_DASSERT` of line 299
    holds for every batch of up to `MaxBatch` messages, every payload size,
    every tag spelling and every `int` delay. The property is inductive, like
    `FormatsMatch`. The argument:
    - `MsgBound`: one message object is at most 58 characters besides its
      base64, so `3 * MsgJsonLen(m) <= 4 * m.size + 182`. This uses
      `Base64Bounds` (`3 * Base64Len(s) <= 4 * s + 8`), `DecimalLenBound` (at
      most 11 characters) and the longest tag, `bytes`.
    - `SumBound`: a bound that holds for every term holds for the sums,
      `3 * MJ <= 4 * TS + 182 * L`.
    - `Base64Bounds` again: the rounded-up `(TS + 2) / 3 * 4` is at least
      `4 * TS / 3`. So `MJ + L + 15 <= estimatedSize`, with room to spare of
      about `7 * L / 3 + 17`.
  - `SumBound` needs induction over the index of a sum. The library's
    induction theorems take the predicate as an operator parameter, which the
    provers cannot instantiate. The proof therefore uses the least-number
    principle instead (`NatLeast`, from `WFMin` and `NatLessThanWellFounded` of
    `WellFoundedInduction`): a least index where the bound fails cannot exist.
  - `PartialDef` shows that the recursive function inside `SumTo` exists and
    satisfies its equation. TLAPS reads the recursive definition as a
    `CHOOSE`, so this has to be proved. The proof is by the same least-index
    argument.

- **`QueueRpc_proofs`.**
  - `RemoteMirrored` proves `[]ReceivedMirrorsRemote` for every set of
    messages and delays.
  - The strengthening `RInv` adds `IInv` and these facts:
    - the caller's result is fresh until the copy;
    - the server answers only after `run` returned;
    - without `drain()`, the reply on the wire equals what the remote state
      still is.
  - `DoneFrozen` says that after `run` returned without `drain()`, no remote
    step changes the ledger, the outcome, `pc` or `drain`.
  - `RetriesRoundTrip` says that `getRetryMessages` followed by the copy loop
    gives back the same `HashMap`. `CopyBackFresh` adds that a fresh
    `retryBatch` takes the reply's delay in both cases.

Only TLC checks the following:

- The liveness property `DeliveryResolves`. TLAPS does not reason about
  fairness and ENABLED.

## Not modelled, and the plan

- **The parameters of `sendRpc`.** The queue name and the copies of the
  messages (lines 709-728) are data.
- **The HTTP round trip of `send` and `sendBatch`.** A non-200 answer throws
  and changes no state here.
- **Byte-level encodings.** V8 serialization and JSON text are abstracted to a
  format and a length.
- **Tracing and the legacy debug log.**
- **Serialization failures.** `serialize` can also throw when `JSON.stringify`
  (line 116) or the V8 serializer (line 122) fails on the value. The model's
  bodies are always serializable, so these `TypeError` paths are left out.
- **A listener that throws after ledger calls.** `ListenerReturns` models the
  listener returning; a listener whose `dispatchEventImpl` throws after some
  `ack()` or `retry()` calls is not modelled.
- **The batch-level `delaySeconds` header** of `sendBatch` (lines 314-318). It
  is a header of the request and is not related to any property here.
