---------------------------- MODULE QueueProducer ----------------------------
(***************************************************************************)
(* The producer side: WorkerQueue::send and WorkerQueue::sendBatch with     *)
(* validateContentType and serialize (src/workerd/api/queue.c++, 23-340).   *)
(* Each step is one call by the worker: it either builds the request that   *)
(* goes to the broker or throws a TypeError. The request keeps what the     *)
(* broker and the consumer see: each message's declared format (header or   *)
(* contentType field), the format its bytes were encoded in, its size, and  *)
(* for a batch the size headers and the length of the JSON body.           *)
(* Payload bytes are abstracted to their length; the network round trip    *)
(* (handleSend/handleWrite) is not modelled here.                          *)
(***************************************************************************)
EXTENDS Integers, Sequences

CONSTANTS
    PayloadSizes,  \* lengths of serialized payloads, in bytes
    SendDelays,    \* delaySeconds values (an int: may be negative)
    NoSendDelay,   \* no delaySeconds given
    MaxBatch,      \* the longest batch a call passes
    TypeNames      \* the contentType strings callers pass

\* The range of a C++ int: SerializedWithOptions::delaySeconds is a
\* kj::Maybe<int> (line 131).
IntMin == -2147483647 - 1
IntMax == 2147483647

ASSUME ProducerAssumption ==
    /\ PayloadSizes \subseteq Nat
    /\ SendDelays \subseteq IntMin..IntMax
    /\ NoSendDelay \notin SendDelays
    /\ MaxBatch \in Nat \ {0}

\* IncomingQueueMessage::ContentType.
TEXT == "text"
BYTES == "bytes"
JSON == "json"
V8 == "v8"

\* The contentType strings a caller passes, with what toLower() makes of
\* them; "xml" is not a queue content type.
LowerOf == [t \in {"text", "TEXT", "Text", "bytes", "BYTES", "json", "JSON",
                   "v8", "V8", "xml"} |->
               CASE t \in {"text", "TEXT", "Text"} -> TEXT
                 [] t \in {"bytes", "BYTES"} -> BYTES
                 [] t \in {"json", "JSON"} -> JSON
                 [] t \in {"v8", "V8"} -> V8
                 [] t = "xml" -> "xml"]
NoType == "none"
TypeInputs == TypeNames \cup {NoType}

ASSUME TypeNamesAssumption == TypeNames \subseteq DOMAIN LowerOf

\* What a JS body is, as far as serialize() tells values apart.
BodyKinds == {"string", "bytes", "object", "undefined"}

\* A JSG TypeError: what validateContentType and serialize throw, and a
\* call's result when it throws.
TypeErr == "TypeError"
Error == [thrown |-> TypeErr]

\* validateContentType: the canonical tag, or Error.
ValidateContentType(t) ==
    IF LowerOf[t] \in {TEXT, BYTES, JSON, V8} THEN LowerOf[t] ELSE TypeErr

\* serialize(): the format the bytes are written in, or Error when the body
\* does not fit the type or the type string is not one of the four tags
\* (compared as given, without toLower).
Serialize(kind, t) ==
    CASE t = TEXT  -> IF kind = "string" THEN TEXT ELSE TypeErr
      [] t = BYTES -> IF kind = "bytes" THEN BYTES ELSE TypeErr
      [] t \in {JSON, V8} -> t
      [] OTHER -> TypeErr

\* A call's message: its body, contentType option, delaySeconds, and the
\* length of what it serializes to.
Items == [kind : BodyKinds, type : TypeInputs, delay : SendDelays \cup {NoSendDelay},
          size : PayloadSizes]

\* The broker's view of one message: the declared format (kj::none when no
\* header/field was written), the format of its bytes, its length, delay.
WireMsg(declared, encoded, item) ==
    [declared |-> declared, encoded |-> encoded, size |-> item.size,
     delay |-> item.delay]

-----------------------------------------------------------------------------
(* Lengths of the JSON body sendBatch builds by hand (lines 270-298).       *)

\* The magnitude of n reaches 10^k; stated without -n, which does not exist
\* for the least int.
Reaches(n, k) == IF n >= 10^k \/ n <= -(10^k) THEN 1 ELSE 0

\* The decimal digits of an int: one, and one more for every power of ten
\* up to 10^9 its magnitude reaches (an int has at most 10 digits).
Digits(n) == 1 + Reaches(n, 1) + Reaches(n, 2) + Reaches(n, 3) + Reaches(n, 4)
               + Reaches(n, 5) + Reaches(n, 6) + Reaches(n, 7) + Reaches(n, 8)
               + Reaches(n, 9)

\* Characters of kj::str(n) for an int n: the sign and the digits.
DecimalLen(n) == (IF n < 0 THEN 1 ELSE 0) + Digits(n)

\* kj::encodeBase64 output length.
Base64Len(n) == ((n + 2) \div 3) * 4

\* The characters of a content type tag.
TagLen(t) == CASE t = TEXT -> 4 [] t = BYTES -> 5 [] t = JSON -> 4 [] t = V8 -> 2

\* {"body":"<b64>" [,"contentType":"<t>"] [,"delaySecs": <d>]}
MsgJsonLen(m) ==
    9 + Base64Len(m.size) + 1
    + (IF m.declared = NoType THEN 0 ELSE 16 + TagLen(m.declared) + 1)
    + (IF m.delay = NoSendDelay THEN 0 ELSE 14 + DecimalLen(m.delay))
    + 1

\* v[1] + ... + v[n], accumulated the way the loops of sendBatch do.
SumTo(v, n) ==
    LET sum[i \in 0..n] == IF i = 0 THEN 0 ELSE sum[i - 1] + v[i]
    IN  sum[n]

\* totalSize (lines 262-263): the serialized bytes of the batch.
TotalSize(msgs) == SumTo([i \in 1..Len(msgs) |-> msgs[i].size], Len(msgs))

\* The characters of the batch's message objects.
MessagesJsonLen(msgs) ==
    SumTo([i \in 1..Len(msgs) |-> MsgJsonLen(msgs[i])], Len(msgs))

\* bodyBuilder.size(): {"messages":[ ... ]} with commas and the final NUL.
BatchBodyLen(msgs) == 13 + MessagesJsonLen(msgs) + (Len(msgs) - 1) + 2 + 1

\* Mutant: the estimate without the fixed allowance for the envelope.
EstimatedSizeNoEnvelope(msgs) ==
    ((TotalSize(msgs) + 2) \div 3) * 4 + Len(msgs) * 64

\* estimatedSize, line 270.
EstimatedSize(msgs) ==
    ((TotalSize(msgs) + 2) \div 3) * 4 + Len(msgs) * 64 + 32

-----------------------------------------------------------------------------
VARIABLES
    jsonFlag,  \* FeatureFlags::getQueuesJsonMessages()
    call       \* the last call: its op, its inputs, and the request or Error

vars == <<jsonFlag, call>>

\* One message of send(): the X-Msg-Fmt header it gets and the format
\* serialize() writes (lines 177-204), or Error.
SendMsg(item) ==
    IF item.kind = "undefined" THEN Error
    ELSE IF item.type # NoType
         THEN LET v == ValidateContentType(item.type)
              IN  IF v = TypeErr \/ Serialize(item.kind, v) = TypeErr THEN Error
                  ELSE WireMsg(v, Serialize(item.kind, v), item)
    ELSE IF jsonFlag
         THEN IF Serialize(item.kind, JSON) = TypeErr THEN Error
              ELSE WireMsg(JSON, JSON, item)
    ELSE WireMsg(NoType, V8, item)

\* Mutant: the JSON-by-default path without the X-Msg-Fmt header.
BatchMsgNoJsonTag(item) ==
    IF item.kind = "undefined" THEN Error
    ELSE IF item.type # NoType
         THEN LET v == ValidateContentType(item.type)
              IN  IF v = TypeErr \/ Serialize(item.kind, item.type) = TypeErr THEN Error
                  ELSE WireMsg(v, Serialize(item.kind, item.type), item)
    ELSE IF jsonFlag
         THEN IF Serialize(item.kind, JSON) = TypeErr THEN Error
              ELSE WireMsg(NoType, JSON, item)
    ELSE WireMsg(NoType, V8, item)

\* Mutant: sendBatch() without the queues_json_messages flag: V8 always.
BatchMsgIgnoringFlag(item) ==
    IF item.kind = "undefined" THEN Error
    ELSE IF item.type # NoType
         THEN LET v == ValidateContentType(item.type)
              IN  IF v = TypeErr \/ Serialize(item.kind, item.type) = TypeErr THEN Error
                  ELSE WireMsg(v, Serialize(item.kind, item.type), item)
    ELSE WireMsg(NoType, V8, item)

\* One message of sendBatch() (lines 242-259): its contentType field is the
\* validated tag, but serialize() is handed the type as the caller wrote it.
BatchMsg(item) ==
    IF item.kind = "undefined" THEN Error
    ELSE IF item.type # NoType
         THEN LET v == ValidateContentType(item.type)
              IN  IF v = TypeErr \/ Serialize(item.kind, item.type) = TypeErr THEN Error
                  ELSE WireMsg(v, Serialize(item.kind, item.type), item)
    ELSE IF jsonFlag
         THEN IF Serialize(item.kind, JSON) = TypeErr THEN Error
              ELSE WireMsg(JSON, JSON, item)
    ELSE WireMsg(NoType, V8, item)

Init ==
    /\ jsonFlag \in BOOLEAN
    /\ call = [op |-> "none", items |-> <<>>, result |-> Error]

\* WorkerQueue::send: POST /message with one message.
Send(item) ==
    /\ call' = [op |-> "send", items |-> <<item>>,
                result |-> IF SendMsg(item) = Error THEN Error
                           ELSE [path |-> "message", msgs |-> <<SendMsg(item)>>]]
    /\ UNCHANGED jsonFlag

\* WorkerQueue::sendBatch: POST /batch with the JSON body and the size
\* headers CF-Queue-Batch-Count/-Bytes/-Largest-Msg (lines 230-318).
SendBatch(items) ==
    LET msgs == [i \in 1..Len(items) |-> BatchMsg(items[i])]
        sizes == {items[i].size : i \in 1..Len(items)}
    IN /\ call' = [op |-> "sendBatch", items |-> items,
                   result |->
                     IF items = <<>> \/ \E i \in 1..Len(items) : msgs[i] = Error
                     THEN Error
                     ELSE [path |-> "batch", msgs |-> msgs,
                           count |-> Len(items),
                           bytes |-> TotalSize(msgs),
                           largest |-> CHOOSE x \in sizes : \A y \in sizes : y <= x,
                           bodyLen |-> BatchBodyLen(msgs),
                           estimate |-> EstimatedSize(msgs)]]
       /\ UNCHANGED jsonFlag

\* Batches of up to MaxBatch messages.
Batches == UNION {[1..n -> Items] : n \in 0..MaxBatch}

\* send and sendBatch keep no state between calls (the flag is fixed for the
\* worker), so a behaviour is one call: a later call starts from the same
\* state and can reach nothing more.
Next ==
    /\ call.op = "none"
    /\ \/ \E item \in Items : Send(item)
       \/ \E items \in Batches : SendBatch(items)

Spec == Init /\ [][Next]_vars

-----------------------------------------------------------------------------
\* The format the consumer decodes a message with: the declared one, V8 when
\* none was written (deserialize, lines 136 and 153-156).
DecodedAs(m) == IF m.declared = NoType THEN V8 ELSE m.declared

\* Every message the broker accepts is decoded by the consumer in the format
\* its bytes were written in, on both send paths and under both flag values.
DeclaredFormatMatchesEncoding ==
    call.result # Error =>
        \A i \in DOMAIN call.result.msgs :
            DecodedAs(call.result.msgs[i]) = call.result.msgs[i].encoded

\* The KJ_DASSERT of line 299: the hand-built batch body never outgrows the
\* buffer pre-sized by estimatedSize, whatever the sizes, tags and delays.
BatchBodyFitsEstimate ==
    (call.op = "sendBatch" /\ call.result # Error) =>
        call.result.bodyLen <= call.result.estimate

\* sendBatch() is never more permissive than send() and never writes a
\* message differently: each message of an accepted batch is exactly what
\* send() would have put on the wire for it (field vs header, the format of
\* its bytes, its size and delay), under either value of the JSON flag.
BatchMsgsAreSendMsgs ==
    (call.op = "sendBatch" /\ call.result # Error) =>
        \A i \in DOMAIN call.items : call.result.msgs[i] = SendMsg(call.items[i])

\* validateContentType is case-insensitive, so send() and sendBatch() should
\* accept the same messages: a batch whose every message send() accepts is
\* not rejected.
SendBatchAcceptsWhatSendAccepts ==
    (call.op = "sendBatch" /\ call.items # <<>>
     /\ \A i \in DOMAIN call.items : SendMsg(call.items[i]) # Error)
        => call.result # Error
=============================================================================
