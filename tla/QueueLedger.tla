---------------------------- MODULE QueueLedger ----------------------------
(***************************************************************************)
(* The ack/retry ledger of one queue batch delivery: the QueueEventResult  *)
(* that QueueMessage::ack/retry and QueueEvent::ackAll/retryAll mutate     *)
(* (src/workerd/api/queue.c++, lines 364-462).                             *)
(*                                                                         *)
(* A call that hits one of the code's early returns (the ones that only    *)
(* log a warning) leaves the ledger as it is: it is a stuttering step, so  *)
(* each action below is the branch of the handler that changes state, its *)
(* guard the negation of every early return before it.                     *)
(***************************************************************************)
EXTENDS FiniteSets

CONSTANTS
    MsgIds,     \* ids of the messages of the batch (QueueMessage::id)
    Delays,     \* the delaySeconds values a handler passes
    NoDelay     \* kj::none: no delaySeconds given

ASSUME LedgerAssumption ==
    /\ NoDelay \notin Delays
    /\ IsFiniteSet(MsgIds)

\* A delaySeconds field: kj::Maybe<int>.
OptDelay == Delays \cup {NoDelay}

VARIABLES
    ackAll,        \* QueueEventResult::ackAll
    retryBatch,    \* QueueEventResult::retryBatch: [retry, delaySeconds]
    explicitAcks,  \* QueueEventResult::explicitAcks, a kj::HashSet of ids
    retries        \* QueueEventResult::retries, a kj::HashMap id -> delaySeconds

ledgerVars == <<ackAll, retryBatch, explicitAcks, retries>>

\* kj::HashMap::upsert(key, value): insert, or replace the existing value.
Upsert(f, k, v) == [i \in DOMAIN f \cup {k} |-> IF i = k THEN v ELSE f[i]]

\* KJ_IF_SOME(secs, opts.delaySeconds) { field = secs; }: keep the old value
\* when no delay is given.
SetIfGiven(old, d) == IF d = NoDelay THEN old ELSE d

-----------------------------------------------------------------------------
\* A fresh QueueEventResult.
LedgerInit ==
    /\ ackAll = FALSE
    /\ retryBatch = [retry |-> FALSE, delaySeconds |-> NoDelay]
    /\ explicitAcks = {}
    /\ retries = [i \in {} |-> NoDelay]

\* Mutant: retry() without the ackAll check.
RetryIgnoringAckAll(id, d) ==
    /\ id \notin explicitAcks
    /\ retries' = Upsert(retries, id, d)
    /\ UNCHANGED <<ackAll, retryBatch, explicitAcks>>

\* QueueMessage::retry(options): ignored after ackAll() or after ack() of the
\* same message; otherwise upserts a fresh entry {} and sets its delay if one
\* is given, so a later retry() without a delay clears an earlier delay.
Retry(id, d) ==
    /\ ~ackAll
    /\ id \notin explicitAcks
    /\ retries' = Upsert(retries, id, d)
    /\ UNCHANGED <<ackAll, retryBatch, explicitAcks>>

\* Mutant: ack() without the retries.find(id) check.
AckIgnoringRetries(id) ==
    /\ ~ackAll
    /\ ~retryBatch.retry
    /\ explicitAcks' = explicitAcks \cup {id}
    /\ UNCHANGED <<ackAll, retryBatch, retries>>

\* QueueMessage::ack(): ignored after ackAll(), after retryAll(), or after
\* retry() of the same message; otherwise findOrCreate in explicitAcks.
Ack(id) ==
    /\ ~ackAll
    /\ ~retryBatch.retry
    /\ id \notin DOMAIN retries
    /\ explicitAcks' = explicitAcks \cup {id}
    /\ UNCHANGED <<ackAll, retryBatch, retries>>

\* QueueEvent::retryAll(options): ignored after ackAll(); otherwise sets
\* retry and, only when a delay is given, delaySeconds.
RetryAll(d) ==
    /\ ~ackAll
    /\ retryBatch' = [retry |-> TRUE,
                      delaySeconds |-> SetIfGiven(retryBatch.delaySeconds, d)]
    /\ UNCHANGED <<ackAll, explicitAcks, retries>>

\* Mutant: ackAll() without the retryBatch.retry check.
AckAllIgnoringRetryAll ==
    /\ ackAll' = TRUE
    /\ UNCHANGED <<retryBatch, explicitAcks, retries>>

\* QueueEvent::ackAll(): ignored after retryAll().
AckAll ==
    /\ ~retryBatch.retry
    /\ ackAll' = TRUE
    /\ UNCHANGED <<retryBatch, explicitAcks, retries>>

\* One call of the handler on the ledger.
LedgerOp ==
    \/ \E id \in MsgIds, d \in OptDelay : Retry(id, d)
    \/ \E id \in MsgIds : Ack(id)
    \/ \E d \in OptDelay : RetryAll(d)
    \/ AckAll

\* The ledger on its own: a handler calls the four operations in any order.
LedgerSpec == LedgerInit /\ [][LedgerOp]_ledgerVars

-----------------------------------------------------------------------------
LedgerTypeOK ==
    /\ ackAll \in BOOLEAN
    /\ retryBatch \in [retry : BOOLEAN, delaySeconds : OptDelay]
    /\ explicitAcks \subseteq MsgIds
    /\ DOMAIN retries \subseteq MsgIds
    /\ retries \in [DOMAIN retries -> OptDelay]

\* ackAll() and retryAll() exclude each other: whichever is called first wins
\* and the other one is ignored, so the broker never gets both decisions.
BatchDecisionsExclusive == ~(ackAll /\ retryBatch.retry)

\* ack() and retry() of one message exclude each other: the first call wins,
\* so no message is both acknowledged and retried.
AckRetryDisjoint == explicitAcks \cap DOMAIN retries = {}

\* The ledger's safety invariant.
LedgerInv == BatchDecisionsExclusive /\ AckRetryDisjoint

\* Once ackAll() has taken effect, no per-message ack() or retry() changes
\* the per-message decisions (ack() returns silently, retry() warns).
AckAllFreezesMessages ==
    [][ackAll => UNCHANGED <<explicitAcks, retries>>]_ledgerVars

\* The spec's claim for retryAll(): once it has taken effect, per-message
\* calls are no-ops as they are after ackAll().
RetryAllFreezesMessages ==
    [][retryBatch.retry => UNCHANGED <<explicitAcks, retries>>]_ledgerVars
=============================================================================
