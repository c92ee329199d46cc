------------------------ MODULE QueueProducer_proofs ------------------------
(***************************************************************************)
(* Proofs about the producer (QueueProducer), for every set of payload     *)
(* sizes, delays and contentType spellings: whatever send() or sendBatch() *)
(* puts on the wire is decoded by the consumer in the format it was        *)
(* written in, and the JSON body sendBatch() builds by hand fits the       *)
(* buffer it pre-sized.                                                    *)
(***************************************************************************)
EXTENDS QueueProducer, WellFoundedInduction, TLAPS

\* The format that serialize() wrote is the one the consumer picks: every
\* message that is not Error.
MsgDecodable(m) == m # Error => DecodedAs(m) = m.encoded

\* serialize() never changes the tag it was given when it succeeds.
LEMMA SerializeKeepsTag ==
    ASSUME NEW kind, NEW t, Serialize(kind, t) # TypeErr
    PROVE  Serialize(kind, t) = t
BY DEF Serialize, TEXT, BYTES, JSON, V8

\* A string that serialize() accepts is already lower case: toLower()
\* leaves it as it is.
LEMMA AcceptedTagIsCanonical ==
    ASSUME NEW kind, NEW t \in TypeNames, Serialize(kind, t) # TypeErr
    PROVE  LowerOf[t] = t
<1>1. t \in {TEXT, BYTES, JSON, V8}
  BY DEF Serialize, TEXT, BYTES, JSON, V8
<1>2. QED
  BY <1>1 DEF LowerOf, TEXT, BYTES, JSON, V8

\* The JSON-by-default and V8 branches agree with DecodedAs.
LEMMA DefaultBranches ==
    ASSUME NEW item
    PROVE  /\ DecodedAs(WireMsg(JSON, JSON, item)) = JSON
           /\ DecodedAs(WireMsg(NoType, V8, item)) = V8
BY DEF DecodedAs, WireMsg, JSON, V8, NoType

\* send(): the header is the validated tag and serialize() was given it.
LEMMA SendMsgDecodable ==
    ASSUME NEW item \in Items
    PROVE  MsgDecodable(SendMsg(item))
<1> DEFINE v == ValidateContentType(item.type)
<1>1. CASE item.kind = "undefined"
  BY <1>1 DEF SendMsg, MsgDecodable
<1>2. CASE item.kind # "undefined" /\ item.type # NoType
           /\ (v = TypeErr \/ Serialize(item.kind, v) = TypeErr)
  BY <1>2 DEF SendMsg, MsgDecodable
<1>3. CASE item.kind # "undefined" /\ item.type # NoType
           /\ ~(v = TypeErr \/ Serialize(item.kind, v) = TypeErr)
  <2>1. Serialize(item.kind, v) = v
    BY <1>3, SerializeKeepsTag
  <2>2. SendMsg(item) = WireMsg(v, v, item)
    BY <1>3, <2>1 DEF SendMsg
  <2>3. v # NoType
    BY DEF ValidateContentType, TEXT, BYTES, JSON, V8, NoType, TypeErr
  <2>4. QED
    BY <2>2, <2>3 DEF MsgDecodable, DecodedAs, WireMsg
<1>4. CASE item.kind # "undefined" /\ item.type = NoType
  BY <1>4, DefaultBranches DEF SendMsg, MsgDecodable, WireMsg
<1>5. QED
  BY <1>1, <1>2, <1>3, <1>4

\* sendBatch(): the field is the validated tag, serialize() was given the
\* caller's string; when serialize() accepts that string it is a canonical
\* tag already, and the two agree.
LEMMA BatchMsgDecodable ==
    ASSUME NEW item \in Items
    PROVE  MsgDecodable(BatchMsg(item))
<1> DEFINE v == ValidateContentType(item.type)
           enc == Serialize(item.kind, item.type)
<1>1. CASE item.kind = "undefined"
  BY <1>1 DEF BatchMsg, MsgDecodable
<1>2. CASE item.kind # "undefined" /\ item.type # NoType
           /\ (v = TypeErr \/ enc = TypeErr)
  BY <1>2 DEF BatchMsg, MsgDecodable
<1>3. CASE item.kind # "undefined" /\ item.type # NoType
           /\ ~(v = TypeErr \/ enc = TypeErr)
  <2>1. item.type \in TypeNames
    BY <1>3 DEF Items, TypeInputs
  <2>2. enc = item.type /\ LowerOf[item.type] = item.type
    BY <1>3, <2>1, SerializeKeepsTag, AcceptedTagIsCanonical
  <2>3. item.type \in {TEXT, BYTES, JSON, V8}
    BY <1>3, <2>2 DEF Serialize
  <2>4. v = item.type
    BY <2>2, <2>3 DEF ValidateContentType
  <2>5. BatchMsg(item) = WireMsg(item.type, item.type, item)
    BY <1>3, <2>2, <2>4 DEF BatchMsg
  <2>6. QED
    BY <2>3, <2>5 DEF MsgDecodable, DecodedAs, WireMsg, TEXT, BYTES, JSON,
       V8, NoType
<1>4. CASE item.kind # "undefined" /\ item.type = NoType
  BY <1>4, DefaultBranches DEF BatchMsg, MsgDecodable, WireMsg
<1>5. QED
  BY <1>1, <1>2, <1>3, <1>4

\* A step of a call leaves a result whose every message is decodable.
LEMMA StepDecodable == [Next]_vars /\ DeclaredFormatMatchesEncoding
                       => DeclaredFormatMatchesEncoding'
<1> SUFFICES ASSUME [Next]_vars, DeclaredFormatMatchesEncoding
             PROVE  DeclaredFormatMatchesEncoding'
    OBVIOUS
<1>1. ASSUME NEW item \in Items, Send(item)
      PROVE  DeclaredFormatMatchesEncoding'
  <2>1. SUFFICES ASSUME SendMsg(item) # Error
                 PROVE  DeclaredFormatMatchesEncoding'
    BY <1>1 DEF Send, DeclaredFormatMatchesEncoding
  <2>2. call'.result.msgs = <<SendMsg(item)>>
    BY <1>1, <2>1 DEF Send
  <2>3. QED
    BY <2>1, <2>2, SendMsgDecodable DEF MsgDecodable,
       DeclaredFormatMatchesEncoding
<1>2. ASSUME NEW items \in Batches, SendBatch(items)
      PROVE  DeclaredFormatMatchesEncoding'
  <2> DEFINE msgs == [i \in 1..Len(items) |-> BatchMsg(items[i])]
  <2>1. SUFFICES ASSUME items # <<>>, \A i \in 1..Len(items) : msgs[i] # Error
                 PROVE  DeclaredFormatMatchesEncoding'
    BY <1>2 DEF SendBatch, DeclaredFormatMatchesEncoding
  <2>2. call'.result.msgs = msgs
    BY <1>2, <2>1 DEF SendBatch
  <2>3. \A i \in 1..Len(items) : items[i] \in Items
    <3>1. PICK n \in 0..MaxBatch : items \in [1..n -> Items]
      BY <1>2 DEF Batches
    <3>2. Len(items) = n
      BY <3>1
    <3>3. QED
      BY <3>1, <3>2
  <2>4. \A i \in 1..Len(items) : MsgDecodable(msgs[i])
    BY <2>3, BatchMsgDecodable
  <2>5. QED
    BY <2>1, <2>2, <2>4 DEF MsgDecodable, DeclaredFormatMatchesEncoding
<1>3. CASE UNCHANGED vars
  BY <1>3 DEF vars, DeclaredFormatMatchesEncoding
<1>4. QED
  BY <1>1, <1>2, <1>3 DEF Next

\* Whatever a worker sends, on either path and under either flag value,
\* every message the broker accepts is decoded in its own format.
THEOREM FormatsMatch == Spec => []DeclaredFormatMatchesEncoding
<1>1. Init => DeclaredFormatMatchesEncoding
  BY DEF Init, DeclaredFormatMatchesEncoding
<1>2. QED
  BY <1>1, StepDecodable, PTL DEF Spec

-----------------------------------------------------------------------------
(***************************************************************************)
(* The KJ_DASSERT of sendBatch (BatchBodyFitsEstimate). The body is a sum  *)
(* over the batch, so the proof needs the partial sums of SumTo and an     *)
(* induction over the index; the induction is the least-number principle:  *)
(* a least index where a bound fails cannot exist.                         *)
(***************************************************************************)
\* Every non-empty set of naturals has a least element.
LEMMA NatLeast ==
    \A T \in SUBSET Nat : T # {} => \E x \in T : \A y \in T : x <= y
<1> SUFFICES ASSUME NEW T \in SUBSET Nat, T # {}
             PROVE  \E x \in T : \A y \in T : x <= y
    OBVIOUS
<1>1. \E x \in T : \A y \in T : ~(<<y, x>> \in OpToRel(<, Nat))
  BY NatLessThanWellFounded, WFMin
<1>2. \A x, y \in Nat : y < x => <<y, x>> \in OpToRel(<, Nat)
  BY Zenon DEF OpToRel
<1>3. PICK x \in T : \A y \in T : ~(<<y, x>> \in OpToRel(<, Nat))
  BY <1>1
<1>4. ASSUME NEW y \in T PROVE x <= y
  <2>1. ~(y < x)
    BY <1>2, <1>3
  <2>2. QED
    BY <2>1
<1>5. QED
  BY <1>4

\* The partial sums SumTo's recursive function stands for.
Partial(v, n) == CHOOSE f : f = [i \in 0..n |-> IF i = 0 THEN 0 ELSE f[i - 1] + v[i]]

LEMMA SumToPartial ==
    ASSUME NEW v, NEW n \in Nat
    PROVE  SumTo(v, n) = Partial(v, n)[n]
BY DEF SumTo, Partial

\* v[1] + ... + v[k], for k up to n, as a function on 0..n.
PrefixSums(v, n, g) ==
    /\ g \in [0..n -> Int]
    /\ g[0] = 0
    /\ \A i \in 1..n : g[i] = g[i - 1] + v[i]

\* The partial sums exist: the recursive definition is well formed.
LEMMA PartialDef ==
    ASSUME NEW n \in Nat, NEW v \in [1..n -> Int]
    PROVE  PrefixSums(v, n, Partial(v, n))
<1> DEFINE Bad == {k \in 0..n : ~\E g : PrefixSums(v, k, g)}
<1>1. Bad = {}
  <2>1. SUFFICES ASSUME Bad # {} PROVE FALSE
    OBVIOUS
  <2>2. Bad \in SUBSET Nat
    BY DEF Bad
  <2>3. PICK x \in Bad : \A y \in Bad : x <= y
    BY <2>1, <2>2, NatLeast
  <2>4. x \in 0..n /\ ~\E g : PrefixSums(v, x, g)
    BY <2>3 DEF Bad
  <2>5. CASE x = 0
    <3>1. PrefixSums(v, 0, [i \in 0..0 |-> 0])
      BY DEF PrefixSums
    <3>2. QED
      BY <2>4, <2>5, <3>1
  <2>6. CASE x # 0
    <3>1. x - 1 \in 0..n /\ x - 1 \notin Bad
      BY <2>3, <2>4, <2>6
    <3>2. PICK g : PrefixSums(v, x - 1, g)
      BY <3>1 DEF Bad
    <3>3. PrefixSums(v, x, [i \in 0..x |-> IF i < x THEN g[i] ELSE g[x - 1] + v[x]])
      BY <2>4, <2>6, <3>2 DEF PrefixSums
    <3>4. QED
      BY <2>4, <3>3
  <2>7. QED
    BY <2>5, <2>6
<1>2. PICK g : PrefixSums(v, n, g)
  <2>1. n \notin Bad
    BY <1>1
  <2>2. QED
    BY <2>1 DEF Bad
<1>3. g = [i \in 0..n |-> IF i = 0 THEN 0 ELSE g[i - 1] + v[i]]
  BY <1>2 DEF PrefixSums
<1>4. \A f : f = [i \in 0..n |-> IF i = 0 THEN 0 ELSE f[i - 1] + v[i]]
                => PrefixSums(v, n, f)
  <2>1. SUFFICES ASSUME NEW f,
                        f = [i \in 0..n |-> IF i = 0 THEN 0 ELSE f[i - 1] + v[i]]
                 PROVE  PrefixSums(v, n, f)
    OBVIOUS
  <2>2. f[0] = 0 /\ \A i \in 1..n : f[i] = f[i - 1] + v[i]
    BY <2>1
  <2>3. \A k \in 0..n : f[k] \in Int
    <3> DEFINE NotInt == {k \in 0..n : f[k] \notin Int}
    <3>1. SUFFICES ASSUME NotInt # {} PROVE FALSE
      BY DEF NotInt
    <3>2. NotInt \in SUBSET Nat
      BY DEF NotInt
    <3>3. PICK x \in NotInt : \A y \in NotInt : x <= y
      BY <3>1, <3>2, NatLeast
    <3>4. x \in 0..n /\ f[x] \notin Int
      BY <3>3 DEF NotInt
    <3>5. CASE x = 0
      BY <2>2, <3>4, <3>5
    <3>6. CASE x # 0
      <4>1. x - 1 \in 0..n /\ x - 1 \notin NotInt
        BY <3>3, <3>4, <3>6
      <4>2. f[x - 1] \in Int
        BY <4>1 DEF NotInt
      <4>3. QED
        BY <2>2, <3>4, <3>6, <4>2
    <3>7. QED
      BY <3>5, <3>6
  <2>4. QED
    BY <2>1, <2>2, <2>3 DEF PrefixSums
<1>5. QED
  BY <1>3, <1>4 DEF Partial

\* Two bounds of the form 3 * p <= 4 * q + a add up.
LEMMA AddBounds ==
    \A p, q, r, t, a, c \in Int :
        3 * p <= 4 * q + a /\ 3 * r <= 4 * t + c
            => 3 * (p + r) <= 4 * (q + t) + (a + c)
  OBVIOUS

\* A bound that holds term by term holds for the sums: with
\* 3 * v[i] <= 4 * w[i] + c for every i, 3 * sum(v) <= 4 * sum(w) + c * n.
LEMMA SumBound ==
    ASSUME NEW n \in Nat, NEW v \in [1..n -> Int], NEW w \in [1..n -> Int],
           NEW c \in Int,
           \A i \in 1..n : 3 * v[i] <= 4 * w[i] + c
    PROVE  3 * SumTo(v, n) <= 4 * SumTo(w, n) + c * n
<1>1. PICK fv, fw : /\ PrefixSums(v, n, fv) /\ PrefixSums(w, n, fw)
                    /\ SumTo(v, n) = fv[n] /\ SumTo(w, n) = fw[n]
  BY PartialDef, SumToPartial
<1>0. PICK Bad : Bad = {k \in 0..n : ~(3 * fv[k] <= 4 * fw[k] + c * k)}
  OBVIOUS
<1>2. Bad = {}
  <2>1. SUFFICES ASSUME Bad # {} PROVE FALSE
    OBVIOUS
  <2>2. Bad \in SUBSET Nat
    BY <1>0
  <2>3. PICK x \in Bad : \A y \in Bad : x <= y
    BY <2>1, <2>2, NatLeast
  <2>4. x \in 0..n /\ ~(3 * fv[x] <= 4 * fw[x] + c * x)
    BY <2>3, <1>0
  <2>5. CASE x = 0
    BY <1>1, <2>4, <2>5 DEF PrefixSums
  <2>6. CASE x # 0
    <3>1. x - 1 \in 0..n /\ x - 1 \notin Bad
      BY <2>3, <2>4, <2>6
    <3>2. 3 * fv[x - 1] <= 4 * fw[x - 1] + c * (x - 1)
      BY <3>1, <1>0
    <3>0. x \in 1..n
      BY <2>4, <2>6
    <3>3. fv[x] = fv[x - 1] + v[x] /\ fw[x] = fw[x - 1] + w[x]
      BY <3>0, <1>1, Zenon DEF PrefixSums
    <3>4. 3 * v[x] <= 4 * w[x] + c
      BY <2>4, <2>6
    <3>5. PICK a, b \in Int : a = c * (x - 1) /\ b = c * x /\ b = a + c
      BY <2>4
    <3>6. fv[x - 1] \in Int /\ fw[x - 1] \in Int /\ v[x] \in Int /\ w[x] \in Int
      BY <1>1, <3>1, <2>4, <2>6 DEF PrefixSums
    <3>7. 3 * fv[x - 1] <= 4 * fw[x - 1] + a
      BY <3>2, <3>5, Zenon
    <3>8. b = a + c
      BY <3>5, Zenon
    <3>9. 3 * fv[x] <= 4 * fw[x] + b
      <4>1. 3 * (fv[x - 1] + v[x]) <= 4 * (fw[x - 1] + w[x]) + (a + c)
        BY <3>4, <3>6, <3>7, AddBounds
      <4>2. QED
        BY <3>3, <3>8, <4>1, Zenon
    <3>10. QED
      BY <2>4, <3>5, <3>9, Zenon
  <2>7. QED
    BY <2>5, <2>6
<1>3. n \in 0..n
  OBVIOUS
<1>4. 3 * fv[n] <= 4 * fw[n] + c * n
  BY <1>2, <1>3, <1>0, Zenon
<1>5. QED
  BY <1>1, <1>4, Zenon

\* A sum of integers is an integer.
LEMMA SumToInt ==
    ASSUME NEW n \in Nat, NEW v \in [1..n -> Int]
    PROVE  SumTo(v, n) \in Int
<1>1. PICK f : PrefixSums(v, n, f) /\ SumTo(v, n) = f[n]
  BY PartialDef, SumToPartial
<1>2. QED
  BY <1>1 DEF PrefixSums

\* kj::str of any int has a sign and at most ten digits.
LEMMA DecimalLenBound ==
    ASSUME NEW d
    PROVE  DecimalLen(d) \in 1..11
<1>1. \A k \in 1..9 : Reaches(d, k) \in {0, 1}
  BY DEF Reaches
<1>2. QED
  BY <1>1 DEF DecimalLen, Digits

\* kj::encodeBase64 rounds up: 3 * Base64Len(s) lies between 4 * s and
\* 4 * s + 8.
LEMMA Base64Bounds ==
    ASSUME NEW s \in Int
    PROVE  /\ Base64Len(s) \in Int
           /\ 4 * s <= 3 * Base64Len(s)
           /\ 3 * Base64Len(s) <= 4 * s + 8
BY DEF Base64Len

\* One message object of the hand-built body: 58 characters besides the
\* base64 of the payload at most, with the longest tag ("bytes") and the
\* longest delay (an 11-character negative int).
LEMMA MsgBound ==
    ASSUME NEW m, m.size \in Int, m.declared \in {TEXT, BYTES, JSON, V8, NoType}
    PROVE  /\ MsgJsonLen(m) \in Int
           /\ 3 * MsgJsonLen(m) <= 4 * m.size + 182
<1>1. PICK b \in Int : b = Base64Len(m.size) /\ 3 * b <= 4 * m.size + 8
  BY Base64Bounds
<1>2. PICK t \in 0..22 :
        t = IF m.declared = NoType THEN 0 ELSE 16 + TagLen(m.declared) + 1
  BY DEF TagLen, TEXT, BYTES, JSON, V8, NoType
<1>3. PICK d \in 0..25 :
        d = IF m.delay = NoSendDelay THEN 0 ELSE 14 + DecimalLen(m.delay)
  BY DecimalLenBound
<1>4. MsgJsonLen(m) = 9 + b + 1 + t + d + 1
  BY <1>1, <1>2, <1>3 DEF MsgJsonLen
<1>5. QED
  BY <1>1, <1>2, <1>3, <1>4

\* The arithmetic of the estimate: a body whose message objects total
\* MJ <= (4 * TS + 182 * L) / 3 characters fits 4/3 of TS plus the
\* allowance of 64 per message and 32 for the envelope.
LEMMA FitsArith ==
    \A MJ, TS, B, L \in Int :
        L >= 0 /\ 3 * MJ <= 4 * TS + 182 * L /\ 4 * TS <= 3 * B
            => 13 + MJ + (L - 1) + 2 + 1 <= B + L * 64 + 32
  OBVIOUS

\* A message sendBatch() accepts keeps the item's size, and its
\* contentType field is one of the four tags or absent.
LEMMA BatchMsgShape ==
    ASSUME NEW item \in Items, BatchMsg(item) # Error
    PROVE  /\ BatchMsg(item).size = item.size
           /\ BatchMsg(item).declared \in {TEXT, BYTES, JSON, V8, NoType}
<1> DEFINE v == ValidateContentType(item.type)
           enc == Serialize(item.kind, item.type)
<1>1. CASE item.type # NoType
  <2>1. ~(v = TypeErr \/ enc = TypeErr) /\ item.kind # "undefined"
    BY <1>1 DEF BatchMsg
  <2>2. BatchMsg(item) = WireMsg(v, enc, item)
    BY <1>1, <2>1 DEF BatchMsg
  <2>3. v \in {TEXT, BYTES, JSON, V8}
    BY <2>1 DEF ValidateContentType
  <2>4. QED
    BY <2>2, <2>3 DEF WireMsg
<1>2. CASE item.type = NoType
  BY <1>2 DEF BatchMsg, WireMsg
<1>3. QED
  BY <1>1, <1>2

\* A sendBatch() call leaves a body no longer than the estimate: the sum of
\* the per-message bounds against the rounded-up base64 of the total size.
LEMMA SendBatchFits ==
    ASSUME NEW items \in Batches, SendBatch(items)
    PROVE  BatchBodyFitsEstimate'
<1>0. PICK L \in 0..MaxBatch : items \in [1..L -> Items]
  BY DEF Batches
<1>1. PICK msgs : msgs = [i \in 1..Len(items) |-> BatchMsg(items[i])]
  OBVIOUS
<1>2. SUFFICES ASSUME items # <<>>, \A i \in 1..L : msgs[i] # Error
               PROVE  BatchBodyFitsEstimate'
  BY <1>0, <1>1 DEF SendBatch, BatchBodyFitsEstimate
<1>3. /\ call'.result.bodyLen = BatchBodyLen(msgs)
      /\ call'.result.estimate = EstimatedSize(msgs)
      /\ call'.result # Error
  <2>1. ~(items = <<>> \/ \E i \in 1..Len(items) : msgs[i] = Error)
    BY <1>0, <1>2
  <2>2. QED
    BY <1>1, <2>1 DEF SendBatch, Error
<1>4. Len(items) = L /\ Len(msgs) = L /\ L \in Nat
  BY <1>0, <1>1
<1>5. ASSUME NEW i \in 1..L
      PROVE  /\ msgs[i].size \in Int
             /\ MsgJsonLen(msgs[i]) \in Int
             /\ 3 * MsgJsonLen(msgs[i]) <= 4 * msgs[i].size + 182
  <2>1. items[i] \in Items /\ msgs[i] = BatchMsg(items[i])
    BY <1>0, <1>1
  <2>2. msgs[i].size = items[i].size
        /\ msgs[i].declared \in {TEXT, BYTES, JSON, V8, NoType}
    BY <1>2, <2>1, BatchMsgShape
  <2>3. items[i].size \in Nat
    BY <2>1, ProducerAssumption DEF Items
  <2>4. QED
    BY <2>2, <2>3, MsgBound
<1>6. PICK js, sz : /\ js = [i \in 1..L |-> MsgJsonLen(msgs[i])]
                    /\ sz = [i \in 1..L |-> msgs[i].size]
  OBVIOUS
<1>7. js \in [1..L -> Int] /\ sz \in [1..L -> Int]
      /\ \A i \in 1..L : 3 * js[i] <= 4 * sz[i] + 182
  BY <1>5, <1>6
<1>8. MessagesJsonLen(msgs) = SumTo(js, L) /\ TotalSize(msgs) = SumTo(sz, L)
  BY <1>4, <1>6 DEF MessagesJsonLen, TotalSize
<1>9. PICK MJ \in Int, TS \in Int :
        /\ MJ = MessagesJsonLen(msgs) /\ TS = TotalSize(msgs)
        /\ 3 * MJ <= 4 * TS + 182 * L
  <2>1. SumTo(js, L) \in Int /\ SumTo(sz, L) \in Int
    BY <1>4, <1>7, SumToInt
  <2>2. 3 * SumTo(js, L) <= 4 * SumTo(sz, L) + 182 * L
    <3>1. 182 \in Int
      OBVIOUS
    <3>2. QED
      BY <1>4, <1>7, <3>1, SumBound, Zenon
  <2>3. QED
    BY <1>8, <2>1, <2>2
<1>10. PICK B \in Int : B = Base64Len(TS) /\ 4 * TS <= 3 * B
  BY Base64Bounds
<1>11. /\ BatchBodyLen(msgs) = 13 + MJ + (L - 1) + 2 + 1
       /\ EstimatedSize(msgs) = B + L * 64 + 32
  BY <1>4, <1>9, <1>10 DEF BatchBodyLen, EstimatedSize, Base64Len
<1>12. 13 + MJ + (L - 1) + 2 + 1 <= B + L * 64 + 32
  <2>1. L \in Int /\ L >= 0
    BY <1>4
  <2>2. QED
    BY <1>9, <1>10, <2>1, FitsArith, Zenon
<1>13. QED
  BY <1>3, <1>11, <1>12 DEF BatchBodyFitsEstimate

\* The KJ_DASSERT of sendBatch() holds for every batch of up to MaxBatch
\* messages, every payload size, every tag spelling and every int delay:
\* the body built by hand never outgrows the buffer sized by estimatedSize.
THEOREM BodyFits == Spec => []BatchBodyFitsEstimate
<1>1. Init => BatchBodyFitsEstimate
  BY DEF Init, BatchBodyFitsEstimate
<1>2. BatchBodyFitsEstimate /\ [Next]_vars => BatchBodyFitsEstimate'
  <2> SUFFICES ASSUME BatchBodyFitsEstimate, [Next]_vars
               PROVE  BatchBodyFitsEstimate'
    OBVIOUS
  <2>1. ASSUME NEW item \in Items, Send(item) PROVE BatchBodyFitsEstimate'
    BY <2>1 DEF Send, BatchBodyFitsEstimate
  <2>2. ASSUME NEW items \in Batches, SendBatch(items)
        PROVE  BatchBodyFitsEstimate'
    BY <2>2, SendBatchFits
  <2>3. CASE UNCHANGED vars
    BY <2>3 DEF vars, BatchBodyFitsEstimate
  <2>4. QED
    BY <2>1, <2>2, <2>3 DEF Next
<1>3. QED
  BY <1>1, <1>2, PTL DEF Spec

-----------------------------------------------------------------------------
\* A message sendBatch() accepts is the one send() writes: the raw string
\* serialize() accepted is canonical, so validating it changes nothing and
\* send() takes the same branch with the same tag.
LEMMA BatchMsgIsSendMsg ==
    ASSUME NEW item \in Items, BatchMsg(item) # Error
    PROVE  SendMsg(item) = BatchMsg(item)
<1> DEFINE v == ValidateContentType(item.type)
           enc == Serialize(item.kind, item.type)
<1>1. CASE item.kind # "undefined" /\ item.type # NoType
  <2>1. ~(v = TypeErr \/ enc = TypeErr)
    BY <1>1 DEF BatchMsg
  <2>2. item.type \in TypeNames
    BY <1>1 DEF Items, TypeInputs
  <2>3. enc = item.type /\ LowerOf[item.type] = item.type
    BY <2>1, <2>2, SerializeKeepsTag, AcceptedTagIsCanonical
  <2>4. item.type \in {TEXT, BYTES, JSON, V8}
    BY <2>1, <2>3 DEF Serialize
  <2>5. v = item.type
    BY <2>3, <2>4 DEF ValidateContentType
  <2>6. BatchMsg(item) = WireMsg(v, enc, item)
    BY <1>1, <2>1 DEF BatchMsg
  <2>7. SendMsg(item) = WireMsg(v, Serialize(item.kind, v), item)
    BY <1>1, <2>1, <2>5 DEF SendMsg
  <2>8. QED
    BY <2>5, <2>6, <2>7
<1>2. CASE item.kind = "undefined" \/ item.type = NoType
  BY <1>2 DEF BatchMsg, SendMsg
<1>3. QED
  BY <1>1, <1>2

\* The flag is fixed for the worker: a call leaves what send() would write
\* for any message as it was.
LEMMA SendMsgFixed ==
    ASSUME UNCHANGED jsonFlag
    PROVE  \A item : SendMsg(item)' = SendMsg(item)
BY DEF SendMsg

\* Under either value of the JSON flag, every message of every batch that
\* sendBatch() sends is exactly what send() would have sent for it.
THEOREM BatchNarrowsSend == Spec => []BatchMsgsAreSendMsgs
<1>1. Init => BatchMsgsAreSendMsgs
  BY DEF Init, BatchMsgsAreSendMsgs
<1>2. BatchMsgsAreSendMsgs /\ [Next]_vars => BatchMsgsAreSendMsgs'
  <2> SUFFICES ASSUME BatchMsgsAreSendMsgs, [Next]_vars
               PROVE  BatchMsgsAreSendMsgs'
    OBVIOUS
  <2>1. ASSUME NEW item \in Items, Send(item) PROVE BatchMsgsAreSendMsgs'
    BY <2>1 DEF Send, BatchMsgsAreSendMsgs
  <2>2. ASSUME NEW items \in Batches, SendBatch(items)
        PROVE  BatchMsgsAreSendMsgs'
    <3>0. PICK L \in 0..MaxBatch : items \in [1..L -> Items]
      BY DEF Batches
    <3>1. PICK msgs : msgs = [i \in 1..Len(items) |-> BatchMsg(items[i])]
      OBVIOUS
    <3>2. SUFFICES ASSUME items # <<>>, \A i \in 1..L : msgs[i] # Error
                   PROVE  BatchMsgsAreSendMsgs'
      <4>1. CASE items = <<>> \/ \E i \in 1..Len(items) : msgs[i] = Error
        BY <2>2, <3>1, <4>1 DEF SendBatch, BatchMsgsAreSendMsgs
      <4>2. QED
        BY <3>0, <4>1
    <3>3. /\ call'.result.msgs = msgs /\ call'.items = items
          /\ ~(items = <<>> \/ \E i \in 1..Len(items) : msgs[i] = Error)
      <4>1. ~(items = <<>> \/ \E i \in 1..Len(items) : msgs[i] = Error)
        BY <3>0, <3>2
      <4>2. QED
        BY <2>2, <3>1, <4>1 DEF SendBatch
    <3>4. DOMAIN items = 1..L /\ Len(items) = L
      BY <3>0
    <3>5. ASSUME NEW i \in 1..L PROVE msgs[i] = SendMsg(items[i])'
      <4>1. items[i] \in Items /\ msgs[i] = BatchMsg(items[i])
        BY <3>0, <3>1, <3>4
      <4>2. msgs[i] = SendMsg(items[i])
        BY <3>2, <4>1, BatchMsgIsSendMsg
      <4>3. QED
        BY <2>2, <4>2, SendMsgFixed DEF SendBatch
    <3>6. QED
      BY <3>3, <3>4, <3>5 DEF BatchMsgsAreSendMsgs
  <2>3. CASE UNCHANGED vars
    <3>1. UNCHANGED jsonFlag /\ UNCHANGED call
      BY <2>3 DEF vars
    <3>2. QED
      BY <3>1, SendMsgFixed DEF BatchMsgsAreSendMsgs
  <2>4. QED
    BY <2>1, <2>2, <2>3 DEF Next
<1>3. QED
  BY <1>1, <1>2, PTL DEF Spec
=============================================================================
