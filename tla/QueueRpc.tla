------------------------------ MODULE QueueRpc ------------------------------
(***************************************************************************)
(* A queue delivery run in another process: QueueCustomEventImpl::sendRpc   *)
(* (src/workerd/api/queue.c++, lines 707-757) on the calling side, and on   *)
(* the remote side the delivery of QueueCustomEvent, whose ledger the      *)
(* server reports back through getRetryMessages and getExplicitAcks        *)
(* (lines 759-774). The caller copies the reported ledger into its own,    *)
(* fresh, QueueEventResult. The capnp call may fail (disconnect) before or *)
(* after the server replied; the .then() then never runs.                  *)
(***************************************************************************)
EXTENDS QueueCustomEvent

VARIABLES
    rpc,          \* the queueRequest call: inflight, replied, received, failed
    reply,        \* the response on the wire once the server built it
    localResult,  \* the caller's QueueEventResult, as a record
    localOutcome  \* the outcome sendRpc returns, "none" before

rpcVars == <<rpc, reply, localResult, localOutcome>>
allVars == <<vars, rpcVars>>

\* A QueueEventResult as a record of the four ledger fields.
LedgerRecord(aa, rb, ea, rt) ==
    [ackAll |-> aa, retryBatch |-> rb, explicitAcks |-> ea, retries |-> rt]

\* The remote delivery's ledger.
RemoteLedger == LedgerRecord(ackAll, retryBatch, explicitAcks, retries)

\* getExplicitAcks(): the ids of the HashSet, in an array whose order the
\* caller does not use.
GetExplicitAcks == explicitAcks

\* getRetryMessages(): one QueueRetryMessage per entry of the HashMap.
GetRetryMessages ==
    {[msgId |-> k, delaySeconds |-> retries[k]] : k \in DOMAIN retries}

\* Mutant: the copy-back loop forgets the isDelaySeconds() branch.
CopiedRetriesNoDelay(rm) ==
    [k \in {m.msgId : m \in rm} |-> NoDelay]

\* retries.clear(), then upsert(msgId, {}) and the delay when one was sent:
\* the ids are unique, so each entry holds its message's delay.
CopiedRetries(rm) ==
    [k \in {m.msgId : m \in rm} |->
        (CHOOSE m \in rm : m.msgId = k).delaySeconds]

\* retryBatch: retry is copied; delaySeconds only when the union holds one.
CopiedRetryBatch(old, rb) ==
    [retry |-> rb.retry, delaySeconds |-> SetIfGiven(old.delaySeconds, rb.delaySeconds)]

\* The .then() of sendRpc: the caller's result after the copy.
CopyBack(old, r) ==
    LedgerRecord(r.ackAll, CopiedRetryBatch(old.retryBatch, r.retryBatch),
                 r.explicitAcks, CopiedRetries(r.retryMessages))

\* The fresh QueueEventResult of the caller's QueueCustomEventImpl.
FreshResult ==
    LedgerRecord(FALSE, [retry |-> FALSE, delaySeconds |-> NoDelay], {},
                 [i \in {} |-> NoDelay])

\* No response yet: an empty response with no outcome.
NoReply ==
    [outcome |-> "none", ackAll |-> FALSE,
     retryBatch |-> [retry |-> FALSE, delaySeconds |-> NoDelay],
     explicitAcks |-> {}, retryMessages |-> {}]

-----------------------------------------------------------------------------
RpcInit ==
    /\ Init
    /\ rpc = "inflight"
    /\ reply = NoReply
    /\ localResult = FreshResult
    /\ localOutcome = "none"

\* A step of the remote delivery.
RemoteStep ==
    /\ Next
    /\ UNCHANGED rpcVars

\* The server answers once the remote run() co_returned, with its outcome
\* and its ledger as the getters report it.
ServerReplies ==
    /\ pc = "done"
    /\ rpc = "inflight"
    /\ rpc' = "replied"
    /\ reply' = [outcome |-> outcome, ackAll |-> ackAll, retryBatch |-> retryBatch,
                 explicitAcks |-> GetExplicitAcks, retryMessages |-> GetRetryMessages]
    /\ UNCHANGED <<vars, localResult, localOutcome>>

\* req.send().then(...): the caller copies the response and returns its
\* outcome.
ClientReceives ==
    /\ rpc = "replied"
    /\ rpc' = "received"
    /\ localResult' = CopyBack(localResult, reply)
    /\ localOutcome' = reply.outcome
    /\ UNCHANGED <<vars, reply>>

\* The call rejects (the connection to the remote is lost): the .then() is
\* skipped and the caller's result is left as it was.
ConnectionFails ==
    /\ rpc \in {"inflight", "replied"}
    /\ rpc' = "failed"
    /\ UNCHANGED <<vars, reply, localResult, localOutcome>>

RpcNext ==
    \/ RemoteStep
    \/ ServerReplies
    \/ ClientReceives
    \/ ConnectionFails

\* Only safety is asked of the call, so no fairness is assumed.
RpcSpec == RpcInit /\ [][RpcNext]_allVars

-----------------------------------------------------------------------------
\* Where nothing of the remote request runs after run() returned (legacy,
\* and a listener's OK under noWait: no drain()), the caller ends up with
\* exactly the remote ledger and outcome: the getters report every entry,
\* the copy keeps every delay, and no ack()/retry() lands after the reply.
ReceivedMirrorsRemote ==
    (rpc = "received" /\ ~drain)
        => /\ localResult = RemoteLedger
           /\ localOutcome = outcome
=============================================================================
