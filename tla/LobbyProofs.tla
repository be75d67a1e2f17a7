---------------------------- MODULE LobbyProofs ----------------------------
(* Proofs about module Protocol, and about module Lobby, for any number of    *)
(* clients and any limits.                                                    *)
EXTENDS LobbyInvariant, SequenceTheorems, TLAPS

----------------------------------------------------------------------------
(* The codec.  What it does with bytes it does with any numbers.              *)
Number == Nat

LEMMA Concat ==
  ASSUME NEW a \in Seq(Number), NEW b \in Seq(Number)
  PROVE  /\ a \o b \in Seq(Number) /\ Len(a \o b) = Len(a) + Len(b)
         /\ \A i \in 1..Len(a) : (a \o b)[i] = a[i]
         /\ \A i \in 1..Len(b) : (a \o b)[Len(a) + i] = b[i]
<1>1. Len(a) \in Nat /\ Len(b) \in Nat
  BY LenProperties
<1>2. /\ a \o b \in Seq(Number) /\ Len(a \o b) = Len(a) + Len(b)
      /\ \A i \in 1 .. Len(a) + Len(b) :
           (a \o b)[i] = IF i <= Len(a) THEN a[i] ELSE b[i - Len(a)]
  BY ConcatProperties
<1>3. QED
  BY <1>1, <1>2

(* A sequence is found again between the two it was put between.              *)
LEMMA Slice ==
  ASSUME NEW a \in Seq(Number), NEW b \in Seq(Number), NEW c \in Seq(Number)
  PROVE  SubSeq((a \o b) \o c, Len(a) + 1, Len(a) + Len(b)) = b
<1> DEFINE s == (a \o b) \o c
           t == SubSeq(s, Len(a) + 1, Len(a) + Len(b))
<1>1. /\ Len(a) \in Nat /\ Len(b) \in Nat /\ Len(c) \in Nat
      /\ a \o b \in Seq(Number) /\ Len(a \o b) = Len(a) + Len(b)
      /\ s \in Seq(Number) /\ Len(s) = Len(a) + Len(b) + Len(c)
  BY ConcatProperties, LenProperties
<1>2. \A i \in 1..Len(b) : s[Len(a) + i] = b[i]
  <2> SUFFICES ASSUME NEW i \in 1..Len(b) PROVE s[Len(a) + i] = b[i]
    OBVIOUS
  <2>1. s[Len(a) + i] = (a \o b)[Len(a) + i]
    BY <1>1, ConcatProperties
  <2>2. (a \o b)[Len(a) + i] = b[i]
    BY <1>1, ConcatProperties
  <2>3. QED
    BY <2>1, <2>2
<1>3. \A i \in Len(a) + 1 .. Len(a) + Len(b) : s[i] \in Number
  BY <1>1, ElementOfSeq
<1> HIDE DEF s
<1>4. /\ t \in Seq(Number) /\ Len(t) = Len(b)
      /\ \A i \in 1..Len(b) : t[i] = s[Len(a) + i]
  <2>1. /\ t \in Seq(Number)
        /\ Len(t) = IF Len(a) + 1 <= Len(a) + Len(b)
                    THEN Len(a) + Len(b) - (Len(a) + 1) + 1 ELSE 0
        /\ \A i \in 1 .. Len(a) + Len(b) - (Len(a) + 1) + 1 :
             t[i] = s[Len(a) + 1 + i - 1]
    BY <1>1, <1>3, SubSeqProperties
  <2>2. QED
    BY <1>1, <2>1
<1>5. t = b
  BY <1>2, <1>4, SeqEqual
<1>6. QED
  BY <1>5 DEF s

(* A message as its five parts: n is the place of the length of the name.     *)
Laid(e, type, fields, name, n) ==
  /\ e \in Seq(Number) /\ Len(e) = n + Len(name)
  /\ SubSeq(e, 1, 4) = DISPATCH_MAGIC /\ e[5] = DISPATCH_VERSION /\ e[6] = type
  /\ \A i \in 1..Len(fields) : e[6 + i] = fields[i]
  /\ e[n] = Len(name) /\ SubSeq(e, n + 1, n + Len(name)) = name

LEMMA EncodedParts ==
  ASSUME NEW type \in Number, NEW fields \in Seq(Number), NEW name \in Seq(Number),
         Len(name) \in Number, NEW n \in Nat, n = 7 + Len(fields)
  PROVE  Laid(Encoded(type, fields, name), type, fields, name, n)
<1> DEFINE e     == Encoded(type, fields, name)
           magic == DISPATCH_MAGIC
           kind  == <<DISPATCH_VERSION, type>>
           size  == <<Len(name)>>
           top   == magic \o kind
           head  == top \o fields
           fixed == head \o size
<1>1. /\ magic \in Seq(Number) /\ Len(magic) = 4
      /\ kind \in Seq(Number) /\ Len(kind) = 2 /\ kind[1] = DISPATCH_VERSION /\ kind[2] = type
      /\ size \in Seq(Number) /\ Len(size) = 1 /\ size[1] = Len(name)
  BY DEF DISPATCH_MAGIC, DISPATCH_VERSION, Number
<1>2. e = fixed \o name
  BY DEF Encoded
<1> HIDE DEF e, magic, kind, size
<1>3. Len(fields) \in Nat /\ Len(name) \in Nat /\ n \in Nat
  BY LenProperties
<1>4. /\ top \in Seq(Number) /\ Len(top) = 6
      /\ top[5] = DISPATCH_VERSION /\ top[6] = type /\ \A i \in 1..4 : top[i] = magic[i]
  <2>1. /\ top \in Seq(Number) /\ Len(top) = Len(magic) + Len(kind)
        /\ \A i \in 1..Len(magic) : top[i] = magic[i]
        /\ \A i \in 1..Len(kind) : top[Len(magic) + i] = kind[i]
    BY <1>1, Concat
  <2> HIDE DEF top
  <2>2. top[4 + 1] = kind[1] /\ top[4 + 2] = kind[2]
    BY <1>1, <2>1
  <2>3. QED
    BY <1>1, <2>1, <2>2
<1> HIDE DEF top
<1>5. /\ head \in Seq(Number) /\ Len(head) = 6 + Len(fields)
      /\ \A i \in 1..6 : head[i] = top[i]
      /\ \A i \in 1..Len(fields) : head[6 + i] = fields[i]
  <2>1. /\ head \in Seq(Number) /\ Len(head) = Len(top) + Len(fields)
        /\ \A i \in 1..Len(top) : head[i] = top[i]
        /\ \A i \in 1..Len(fields) : head[Len(top) + i] = fields[i]
    BY <1>4, Concat
  <2>2. QED
    BY <1>4, <2>1
<1> HIDE DEF head
<1>6. /\ fixed \in Seq(Number) /\ Len(fixed) = n
      /\ \A i \in 1 .. 6 + Len(fields) : fixed[i] = head[i]
      /\ fixed[n] = Len(name)
  <2>1. /\ fixed \in Seq(Number) /\ Len(fixed) = Len(head) + Len(size)
        /\ \A i \in 1..Len(head) : fixed[i] = head[i]
        /\ \A i \in 1..Len(size) : fixed[Len(head) + i] = size[i]
    BY <1>1, <1>5, Concat
  <2> HIDE DEF fixed
  <2>2. fixed[Len(head) + 1] = size[1] /\ Len(head) + 1 = n
    BY <1>1, <1>3, <1>5, <2>1
  <2>3. QED
    BY <1>1, <1>3, <1>5, <2>1, <2>2
<1> HIDE DEF fixed
<1>7. /\ e \in Seq(Number) /\ Len(e) = n + Len(name)
      /\ \A i \in 1..n : e[i] = fixed[i]
  <2>1. /\ e \in Seq(Number) /\ Len(e) = Len(fixed) + Len(name)
        /\ \A i \in 1..Len(fixed) : e[i] = fixed[i]
    <3>1. /\ fixed \o name \in Seq(Number) /\ Len(fixed \o name) = Len(fixed) + Len(name)
          /\ \A i \in 1..Len(fixed) : (fixed \o name)[i] = fixed[i]
      BY <1>6, Concat
    <3>2. QED
      BY <1>2, <3>1
  <2>2. QED
    BY <1>6, <2>1
<1>8. \A i \in 1..6 : e[i] = top[i]
  <2> SUFFICES ASSUME NEW i \in 1..6 PROVE e[i] = top[i]
    OBVIOUS
  <2>1. i \in 1..n /\ i \in 1 .. 6 + Len(fields)
    BY <1>3
  <2>2. QED
    BY <2>1, <1>5, <1>6, <1>7
<1>9. \A i \in 1..Len(fields) : e[6 + i] = fields[i]
  <2> SUFFICES ASSUME NEW i \in 1..Len(fields) PROVE e[6 + i] = fields[i]
    OBVIOUS
  <2>1. 6 + i \in 1..n /\ 6 + i \in 1 .. 6 + Len(fields)
    BY <1>3
  <2>2. QED
    BY <2>1, <1>5, <1>6, <1>7
<1>10. SubSeq(e, 1, 4) = DISPATCH_MAGIC
  <2>1. /\ SubSeq(e, 1, 4) \in Seq(Number) /\ Len(SubSeq(e, 1, 4)) = 4
        /\ \A i \in 1..4 : SubSeq(e, 1, 4)[i] = e[i]
    <3>1. \A i \in 1..4 : e[i] \in Number
      BY <1>3, <1>7, ElementOfSeq
    <3>2. QED
      BY <3>1, SubSeqProperties
  <2>2. \A i \in 1..4 : SubSeq(e, 1, 4)[i] = magic[i]
    BY <2>1, <1>4, <1>8
  <2>3. SubSeq(e, 1, 4) = magic
    BY <1>1, <2>1, <2>2, SeqEqual
  <2>4. QED
    BY <2>3 DEF magic
<1>11. SubSeq(e, n + 1, n + Len(name)) = name
  <2>1. /\ <<>> \in Seq(Number) /\ Len(<<>>) = 0 /\ (fixed \o name) \o <<>> = fixed \o name
    BY <1>2, <1>7, ConcatEmptySeq, EmptySeq
  <2>2. QED
    BY <1>2, <1>6, <2>1, Slice
<1>12. e[5] = DISPATCH_VERSION /\ e[6] = type /\ e[n] = Len(name)
  BY <1>3, <1>4, <1>6, <1>7, <1>8
<1>13. Laid(e, type, fields, name, n)
  BY <1>7, <1>9, <1>10, <1>11, <1>12 DEF Laid
<1>14. QED
  BY <1>13 DEF e

(* A name that is cut to its limit fits its byte of length.                   *)
LEMMA CutName ==
  ASSUME NEW name \in Seq(Number), NEW max \in 0..255
  PROVE  /\ Cut(name, max) \in Seq(Number) /\ Len(Cut(name, max)) \in 0..max
         /\ Len(name) <= max => Cut(name, max) = name
<1> DEFINE n == IF Len(name) <= max THEN Len(name) ELSE max
<1>1. Len(name) \in Nat /\ n \in 0..max /\ n <= Len(name)
  BY LenProperties
<1> HIDE DEF n
<1>2. \A i \in 1..n : name[i] \in Number
  BY <1>1, ElementOfSeq
<1>3. /\ SubSeq(name, 1, n) \in Seq(Number)
      /\ Len(SubSeq(name, 1, n)) = IF 1 <= n THEN n - 1 + 1 ELSE 0
  BY <1>1, <1>2, SubSeqProperties
<1>4. Cut(name, max) = SubSeq(name, 1, n)
  BY DEF Cut, n
<1>5. Len(name) <= max => SubSeq(name, 1, n) = name
  BY SubSeqFull DEF n
<1>6. QED
  BY <1>1, <1>3, <1>4, <1>5

LEMMA Numbers ==
  ASSUME NEW k \in Nat, NEW f \in [1..k -> Number]
  PROVE  f \in Seq(Number) /\ Len(f) = k
<1>1. f \in Seq(Number)
  BY SeqDef
<1>2. QED
  BY <1>1, LenProperties

(* The parts of a message of fixed length.                                    *)
LEMMA Field ==
  ASSUME NEW e \in Seq(Number), NEW at \in Nat, NEW k \in Nat, at + k <= Len(e),
         NEW f \in Seq(Number), Len(f) = k, \A i \in 1..k : e[at + i] = f[i]
  PROVE  SubSeq(e, at + 1, at + k) = f
<1>1. Len(e) \in Nat
  BY LenProperties
<1>2. \A i \in at + 1 .. at + k : e[i] \in Number
  BY <1>1, ElementOfSeq
<1> DEFINE t == SubSeq(e, at + 1, at + k)
<1>3. /\ t \in Seq(Number)
      /\ Len(t) = IF at + 1 <= at + k THEN at + k - (at + 1) + 1 ELSE 0
      /\ \A i \in 1 .. at + k - (at + 1) + 1 : t[i] = e[at + 1 + i - 1]
  BY <1>2, SubSeqProperties
<1> HIDE DEF t
<1>4. Len(t) = k /\ \A i \in 1..k : t[i] = f[i]
  BY <1>3
<1>5. t = f
  BY <1>3, <1>4, SeqEqual
<1>6. QED
  BY <1>5 DEF t

WideRequest  == [pid : [1..4 -> Number], revision : [1..2 -> Number], name : Seq(Number)]
WideResponse == [status : Number, client_id : [1..4 -> Number], channel_name : Seq(Number)]

LEMMA RequestCodec ==
  ASSUME NEW req \in WideRequest
  PROVE  /\ encode_request(req) \in Seq(Number) /\ Len(encode_request(req)) >= 13
         /\ encode_request(req)[5] = DISPATCH_VERSION
         /\ request_error(encode_request(req)) = "none"
         /\ decode_request(encode_request(req)) =
              [req EXCEPT !.name = from_utf8_lossy(Cut(req.name, MAX_NAME_LEN))]
<1>1. /\ req.pid \in Seq(Number) /\ Len(req.pid) = 4
      /\ req.revision \in Seq(Number) /\ Len(req.revision) = 2
      /\ req.name \in Seq(Number)
  <2>1. /\ req.pid \in [1..4 -> Number] /\ req.revision \in [1..2 -> Number]
        /\ req.name \in Seq(Number)
    BY DEF WideRequest
  <2>2. QED
    BY <2>1, Numbers
<1> DEFINE name == Cut(req.name, MAX_NAME_LEN)
<1>2. name \in Seq(Number) /\ Len(name) \in Number /\ Len(name) \in Nat
  <2>1. MAX_NAME_LEN \in 0..255
    BY ProtocolAssumption
  <2>2. name \in Seq(Number) /\ Len(name) \in 0..MAX_NAME_LEN
    BY <1>1, <2>1, CutName
  <2>3. \A n \in 0..MAX_NAME_LEN : n \in Number /\ n \in Nat
    BY <2>1 DEF Number
  <2>4. QED
    BY <2>2, <2>3
<1> DEFINE fields == req.pid \o req.revision
<1>3. /\ fields \in Seq(Number) /\ Len(fields) = 6
      /\ \A i \in 1..4 : fields[i] = req.pid[i]
      /\ \A i \in 1..2 : fields[4 + i] = req.revision[i]
  <2>1. /\ fields \in Seq(Number) /\ Len(fields) = Len(req.pid) + Len(req.revision)
        /\ \A i \in 1..Len(req.pid) : fields[i] = req.pid[i]
        /\ \A i \in 1..Len(req.revision) : fields[Len(req.pid) + i] = req.revision[i]
    BY <1>1, Concat
  <2> HIDE DEF fields
  <2>2. QED
    BY <1>1, <2>1
<1> DEFINE e == encode_request(req)
<1>4. e = Encoded(MSG_TYPE_REQUEST, fields, name) /\ MSG_TYPE_REQUEST \in Number
  BY DEF encode_request, MSG_TYPE_REQUEST, Number
<1> HIDE DEF name, fields, e
<1>5. /\ e \in Seq(Number) /\ Len(e) = 13 + Len(name)
      /\ SubSeq(e, 1, 4) = DISPATCH_MAGIC /\ e[5] = DISPATCH_VERSION /\ e[6] = MSG_TYPE_REQUEST
      /\ \A i \in 1..6 : e[6 + i] = fields[i]
      /\ e[13] = Len(name) /\ SubSeq(e, 13 + 1, 13 + Len(name)) = name
  <2>1. 13 \in Nat /\ 13 = 7 + Len(fields)
    BY <1>3
  <2>2. Laid(Encoded(MSG_TYPE_REQUEST, fields, name), MSG_TYPE_REQUEST, fields, name, 13)
    BY <1>2, <1>3, <1>4, <2>1, EncodedParts
  <2>3. QED
    BY <1>3, <1>4, <2>2 DEF Laid
<1>6. request_error(e) = "none"
  BY <1>2, <1>5 DEF request_error, Fault
<1>7. SubSeq(e, 6 + 1, 6 + 4) = req.pid
  <2>1. /\ 6 \in Nat /\ 4 \in Nat /\ 6 + 4 <= Len(e)
        /\ \A i \in 1..4 : e[6 + i] = req.pid[i]
    BY <1>2, <1>3, <1>5
  <2>2. QED
    BY <1>1, <1>5, <2>1, Field
<1>8. SubSeq(e, 10 + 1, 10 + 2) = req.revision
  <2>1. e[6 + (4 + 1)] = fields[4 + 1] /\ e[6 + (4 + 2)] = fields[4 + 2]
    BY <1>5
  <2>2. /\ 10 \in Nat /\ 2 \in Nat /\ 10 + 2 <= Len(e)
        /\ \A i \in 1..2 : e[10 + i] = req.revision[i]
    BY <1>2, <1>3, <1>5, <2>1
  <2>3. QED
    BY <1>1, <1>5, <2>2, Field
<1>9. decode_request(e) =
        [pid |-> req.pid, revision |-> req.revision, name |-> from_utf8_lossy(name)]
  <2>1. SubSeq(e, 7, 10) = req.pid /\ SubSeq(e, 11, 12) = req.revision
    BY <1>7, <1>8
  <2>2. NameAfter(e, 13) = from_utf8_lossy(name)
    BY <1>5 DEF NameAfter
  <2>3. QED
    BY <2>1, <2>2 DEF decode_request
<1>10. [req EXCEPT !.name = from_utf8_lossy(name)] =
         [pid |-> req.pid, revision |-> req.revision, name |-> from_utf8_lossy(name)]
  BY DEF WideRequest
<1>11. Len(e) >= 13
  BY <1>2, <1>5
<1>12. QED
  BY <1>5, <1>6, <1>9, <1>10, <1>11 DEF e, name

LEMMA ResponseCodec ==
  ASSUME NEW resp \in WideResponse
  PROVE  /\ response_error(encode_response(resp)) = "none"
         /\ decode_response(encode_response(resp)) =
              [resp EXCEPT !.channel_name =
                 from_utf8_lossy(Cut(resp.channel_name, MAX_CHANNEL_NAME_LEN))]
<1>1. /\ resp.client_id \in Seq(Number) /\ Len(resp.client_id) = 4
      /\ resp.channel_name \in Seq(Number) /\ resp.status \in Number
  <2>1. /\ resp.client_id \in [1..4 -> Number] /\ resp.status \in Number
        /\ resp.channel_name \in Seq(Number)
    BY DEF WideResponse
  <2>2. QED
    BY <2>1, Numbers
<1> DEFINE name == Cut(resp.channel_name, MAX_CHANNEL_NAME_LEN)
<1>2. name \in Seq(Number) /\ Len(name) \in Number /\ Len(name) \in Nat
  <2>1. MAX_CHANNEL_NAME_LEN \in 0..255
    BY ProtocolAssumption
  <2>2. name \in Seq(Number) /\ Len(name) \in 0..MAX_CHANNEL_NAME_LEN
    BY <1>1, <2>1, CutName
  <2>3. \A n \in 0..MAX_CHANNEL_NAME_LEN : n \in Number /\ n \in Nat
    BY <2>1 DEF Number
  <2>4. QED
    BY <2>2, <2>3
<1> DEFINE status == <<resp.status>>
<1>3. status \in Seq(Number) /\ Len(status) = 1 /\ status[1] = resp.status
  BY <1>1
<1> DEFINE fields == status \o resp.client_id
<1>4. /\ fields \in Seq(Number) /\ Len(fields) = 5 /\ fields[1] = resp.status
      /\ \A i \in 1..4 : fields[1 + i] = resp.client_id[i]
  <2> HIDE DEF status
  <2>1. /\ fields \in Seq(Number) /\ Len(fields) = Len(status) + Len(resp.client_id)
        /\ \A i \in 1..Len(status) : fields[i] = status[i]
        /\ \A i \in 1..Len(resp.client_id) : fields[Len(status) + i] = resp.client_id[i]
    BY <1>1, <1>3, Concat
  <2> HIDE DEF fields
  <2>2. QED
    BY <1>1, <1>3, <2>1
<1> DEFINE e == encode_response(resp)
<1>5. e = Encoded(MSG_TYPE_RESPONSE, fields, name) /\ MSG_TYPE_RESPONSE \in Number
  BY DEF encode_response, MSG_TYPE_RESPONSE, Number
<1> HIDE DEF name, fields, e
<1>6. /\ e \in Seq(Number) /\ Len(e) = 12 + Len(name)
      /\ SubSeq(e, 1, 4) = DISPATCH_MAGIC /\ e[5] = DISPATCH_VERSION /\ e[6] = MSG_TYPE_RESPONSE
      /\ \A i \in 1..5 : e[6 + i] = fields[i]
      /\ e[12] = Len(name) /\ SubSeq(e, 12 + 1, 12 + Len(name)) = name
  <2>1. 12 \in Nat /\ 12 = 7 + Len(fields)
    BY <1>4
  <2>2. Laid(Encoded(MSG_TYPE_RESPONSE, fields, name), MSG_TYPE_RESPONSE, fields, name, 12)
    BY <1>2, <1>4, <1>5, <2>1, EncodedParts
  <2>3. QED
    BY <1>4, <1>5, <2>2 DEF Laid
<1>7. response_error(e) = "none"
  BY <1>2, <1>6 DEF response_error, Fault
<1>8. e[7] = resp.status
  <2>1. e[6 + 1] = fields[1]
    BY <1>6
  <2>2. QED
    BY <1>4, <2>1
<1>9. SubSeq(e, 7 + 1, 7 + 4) = resp.client_id
  <2>1. /\ 7 \in Nat /\ 4 \in Nat /\ 7 + 4 <= Len(e)
        /\ \A i \in 1..4 : e[6 + (1 + i)] = fields[1 + i]
    BY <1>2, <1>6
  <2>2. \A i \in 1..4 : e[7 + i] = resp.client_id[i]
    BY <1>4, <2>1
  <2>3. QED
    BY <1>1, <1>6, <2>1, <2>2, Field
<1>10. decode_response(e) =
         [status |-> resp.status, client_id |-> resp.client_id,
          channel_name |-> from_utf8_lossy(name)]
  <2>1. SubSeq(e, 8, 11) = resp.client_id
    BY <1>9
  <2>2. NameAfter(e, 12) = from_utf8_lossy(name)
    BY <1>6 DEF NameAfter
  <2>3. QED
    BY <1>8, <2>1, <2>2 DEF decode_response
<1>11. [resp EXCEPT !.channel_name = from_utf8_lossy(name)] =
         [status |-> resp.status, client_id |-> resp.client_id,
          channel_name |-> from_utf8_lossy(name)]
  BY DEF WideResponse
<1>12. QED
  BY <1>7, <1>10, <1>11 DEF e, name

(* What a decoder makes of the first bytes of a String.                       *)
LEMMA SameChar ==
  ASSUME NEW a, NEW b, NEW i \in Nat, NEW j \in Nat, Char(a, i, j), i <= j,
         \A x \in i..j : b[x] = a[x]
  PROVE  Char(b, i, j)
<1>1. b[i] = a[i] /\ \A x \in i + 1 .. j : b[x] = a[x]
  OBVIOUS
<1>2. QED
  BY <1>1 DEF Char

LEMMA TextIsWhole ==
  ASSUME NEW s \in Text
  PROVE  s \in Seq(Byte) /\ from_utf8_lossy(s) = s
<1>1. s \in Seq(Byte)
  BY DEF Text
<1>2. Len(s) \in Nat /\ DOMAIN s = 1..Len(s) /\ (s # <<>> => Len(s) \in DOMAIN s)
  BY <1>1, LenProperties, EmptySeq
<1>3. ASSUME s # <<>>
      PROVE  \E i \in DOMAIN s : Char(s, i, Len(s))
  <2>1. PICK i \in DOMAIN s, j \in DOMAIN s : Len(s) <= j /\ Char(s, i, j)
    BY <1>2, <1>3 DEF Text
  <2>2. j = Len(s)
    BY <1>2, <2>1
  <2>3. QED
    BY <2>1, <2>2
<1>4. QED
  BY <1>1, <1>3 DEF from_utf8_lossy, Whole

LEMMA TextStaysText ==
  ASSUME NEW s \in Text, NEW max \in 0..255
  PROVE  from_utf8_lossy(Cut(s, max)) \in Text
<1> DEFINE n == IF Len(s) <= max THEN Len(s) ELSE max
           b == Cut(s, max)
<1>1. /\ s \in Seq(Byte) /\ Len(s) \in Nat /\ DOMAIN s = 1..Len(s)
      /\ n \in Nat /\ n <= Len(s)
  BY LenProperties DEF Text
<1>2. b = SubSeq(s, 1, n)
  BY DEF Cut
<1> HIDE DEF n, b
<1>3. /\ b \in Seq(Byte) /\ Len(b) = n /\ DOMAIN b = 1..n
      /\ \A x \in 1..n : b[x] = s[x]
  <2>1. \A x \in 1..n : s[x] \in Byte
    BY <1>1, ElementOfSeq
  <2>2. /\ b \in Seq(Byte)
        /\ Len(b) = IF 1 <= n THEN n - 1 + 1 ELSE 0
        /\ \A x \in 1 .. n - 1 + 1 : b[x] = s[1 + x - 1]
    BY <1>1, <1>2, <2>1, SubSeqProperties
  <2>3. Len(b) = n /\ \A x \in 1..n : b[x] = s[x]
    BY <1>1, <2>2
  <2>4. QED
    BY <2>2, <2>3, LenProperties
<1>4. CASE n = 0
  <2>1. b = <<>>
    BY <1>3, <1>4, EmptySeq
  <2>2. from_utf8_lossy(b) = b
    BY <2>1 DEF from_utf8_lossy, Whole
  <2>3. b \in Text
    BY <1>3, <1>4 DEF Text
  <2>4. QED
    BY <2>2, <2>3 DEF b
<1>5. CASE n # 0
  (* The character that the last byte left belongs to, and those before it.   *)
  <2>1. PICK i \in 1..Len(s), j \in 1..Len(s) : i <= n /\ n <= j /\ Char(s, i, j)
    <3>1. n \in DOMAIN s
      BY <1>1, <1>5
    <3>2. QED
      BY <1>1, <3>1 DEF Text
  <2>2. /\ s[i] \notin Continuation /\ j = i + Width(s[i]) - 1
        /\ \A x \in i + 1 .. j : s[x] \in Continuation
    BY <2>1 DEF Char
  <2>3. ASSUME NEW x \in 1 .. i - 1
        PROVE  \E p, q \in 1 .. i - 1 : p <= x /\ x <= q /\ Char(s, p, q)
    <3>1. PICK p \in DOMAIN s, q \in DOMAIN s : p <= x /\ x <= q /\ Char(s, p, q)
      <4>1. x \in DOMAIN s
        BY <1>1, <2>1
      <4>2. QED
        BY <4>1 DEF Text
    <3>2. ~(i <= q)
      BY <1>1, <2>1, <2>2, <3>1 DEF Char
    <3>3. p \in 1 .. i - 1 /\ q \in 1 .. i - 1
      BY <1>1, <2>1, <3>1, <3>2
    <3>4. QED
      BY <3>1, <3>3
  <2>4. CASE j = n
    <3>1. Char(b, i, n)
      BY <1>1, <1>3, <2>1, <2>4, SameChar
    <3>2. ASSUME NEW x \in DOMAIN b
          PROVE  \E p, q \in DOMAIN b : p <= x /\ x <= q /\ Char(b, p, q)
      <4>1. CASE x < i
        <5>1. x \in 1 .. i - 1
          BY <1>3, <2>1, <4>1
        <5>2. PICK p \in 1 .. i - 1, q \in 1 .. i - 1 : p <= x /\ x <= q /\ Char(s, p, q)
          BY <2>3, <5>1
        <5>3. p \in Nat /\ q \in Nat /\ p <= q /\ \A y \in p..q : y \in 1..n
          BY <1>1, <1>3, <2>1, <5>1, <5>2
        <5>4. \A y \in p..q : b[y] = s[y]
          BY <1>3, <5>3
        <5>5. Char(b, p, q)
          BY <5>2, <5>3, <5>4, SameChar
        <5>6. p \in DOMAIN b /\ q \in DOMAIN b
          BY <1>1, <1>3, <2>1, <5>2
        <5>7. QED
          BY <5>2, <5>5, <5>6
      <4>2. CASE ~(x < i)
        <5>1. i \in DOMAIN b /\ n \in DOMAIN b /\ i <= x /\ x <= n
          BY <1>1, <1>3, <2>1, <4>2
        <5>2. QED
          BY <3>1, <5>1
      <4>3. QED
        BY <4>1, <4>2
    <3>3. b \in Text
      BY <1>3, <3>2 DEF Text
    <3>4. QED
      BY <3>3, TextIsWhole DEF b
  <2>5. CASE j # n
    <3>1. /\ i \in DOMAIN b /\ b[i] \notin Continuation
          /\ \A x \in i + 1 .. n : b[x] \in Continuation
      BY <1>1, <1>3, <2>1, <2>2
    <3>2. \A k \in DOMAIN b : /\ b[k] \notin Continuation
                              /\ \A x \in k + 1 .. n : b[x] \in Continuation
                              => k = i
      BY <1>1, <1>3, <3>1
    <3>3. ~Whole(b)
      <4>1. b # <<>>
        BY <1>3, <1>5
      <4>2. ASSUME NEW k \in DOMAIN b, Char(b, k, Len(b))
            PROVE  FALSE
        <5>1. k = i
          BY <1>3, <3>2, <4>2 DEF Char
        <5>2. b[k] = s[i]
          BY <1>3, <5>1
        <5>3. n = i + Width(s[i]) - 1
          BY <1>3, <4>2, <5>1, <5>2 DEF Char
        <5>4. QED
          BY <2>2, <2>5, <5>3
      <4>3. QED
        BY <4>1, <4>2 DEF Whole
    <3>4. LastChar(b) = i
      <4>1. \E k \in DOMAIN b : /\ b[k] \notin Continuation
                                /\ \A x \in k + 1 .. Len(b) : b[x] \in Continuation
        BY <1>3, <3>1
      <4>2. /\ LastChar(b) \in DOMAIN b /\ b[LastChar(b)] \notin Continuation
            /\ \A x \in LastChar(b) + 1 .. Len(b) : b[x] \in Continuation
        BY <4>1 DEF LastChar
      <4>3. QED
        BY <1>3, <3>2, <4>2
    <3> DEFINE head == SubSeq(b, 1, i - 1)
               r == head \o REPLACEMENT
    <3>5. from_utf8_lossy(b) = r
      BY <3>3, <3>4 DEF from_utf8_lossy
    <3>6. /\ head \in Seq(Byte) /\ Len(head) = i - 1
          /\ \A x \in 1 .. i - 1 : head[x] = s[x]
      <4>1. i - 1 \in Nat /\ i - 1 <= n /\ \A x \in 1 .. i - 1 : x \in 1..n
        BY <1>1, <2>1
      <4>2. \A x \in 1 .. i - 1 : b[x] \in Byte
        BY <1>3, <4>1, ElementOfSeq
      <4>3. /\ head \in Seq(Byte)
            /\ Len(head) = IF 1 <= i - 1 THEN (i - 1) - 1 + 1 ELSE 0
            /\ \A x \in 1 .. (i - 1) - 1 + 1 : head[x] = b[1 + x - 1]
        BY <4>1, <4>2, SubSeqProperties
      <4>4. \A x \in 1 .. i - 1 : head[x] = b[x]
        BY <4>1, <4>3
      <4>5. QED
        BY <1>3, <4>1, <4>3, <4>4
    <3>7. /\ REPLACEMENT \in Seq(Byte) /\ Len(REPLACEMENT) = 3 /\ REPLACEMENT[1] = 239
          /\ REPLACEMENT[2] \in Continuation /\ REPLACEMENT[3] \in Continuation
      BY DEF REPLACEMENT, Byte, Continuation
    <3> HIDE DEF head
    <3>8. /\ r \in Seq(Byte) /\ Len(r) = i + 2 /\ DOMAIN r = 1 .. i + 2
          /\ \A x \in 1 .. i - 1 : r[x] = s[x]
          /\ r[i] = 239 /\ r[i + 1] \in Continuation /\ r[i + 2] \in Continuation
      <4>1. /\ r \in Seq(Byte) /\ Len(r) = Len(head) + Len(REPLACEMENT)
            /\ \A x \in 1 .. Len(head) + Len(REPLACEMENT) :
                 r[x] = IF x <= Len(head) THEN head[x] ELSE REPLACEMENT[x - Len(head)]
        <5>1. head \in Seq(Byte) /\ REPLACEMENT \in Seq(Byte)
          BY <3>6, <3>7
        <5>2. QED
          BY <5>1, ConcatProperties
      <4> HIDE DEF r
      <4>2. Len(r) = i + 2 /\ \A x \in 1 .. i + 2 :
              r[x] = IF x <= i - 1 THEN head[x] ELSE REPLACEMENT[x - (i - 1)]
        BY <2>1, <3>6, <3>7, <4>1
      <4>3. /\ \A x \in 1 .. i - 1 : x \in 1 .. i + 2 /\ x <= i - 1
            /\ i \in 1 .. i + 2 /\ ~(i <= i - 1) /\ i - (i - 1) = 1
            /\ i + 1 \in 1 .. i + 2 /\ ~(i + 1 <= i - 1) /\ i + 1 - (i - 1) = 2
            /\ i + 2 \in 1 .. i + 2 /\ ~(i + 2 <= i - 1) /\ i + 2 - (i - 1) = 3
        BY <2>1
      <4>4. \A x \in 1 .. i - 1 : r[x] = s[x]
        BY <3>6, <4>2, <4>3
      <4>5. r[i] = REPLACEMENT[1] /\ r[i + 1] = REPLACEMENT[2] /\ r[i + 2] = REPLACEMENT[3]
        <5>1. r[i] = REPLACEMENT[i - (i - 1)]
          BY <4>2, <4>3
        <5>2. r[i + 1] = REPLACEMENT[i + 1 - (i - 1)]
          BY <4>2, <4>3
        <5>3. r[i + 2] = REPLACEMENT[i + 2 - (i - 1)]
          BY <4>2, <4>3
        <5>4. QED
          BY <4>3, <5>1, <5>2, <5>3
      <4>6. QED
        BY <3>7, <4>1, <4>2, <4>4, <4>5, LenProperties
    <3> HIDE DEF r
    <3>9. Char(r, i, i + 2)
      <4>1. \A x \in i + 1 .. i + 2 : x = i + 1 \/ x = i + 2
        BY <2>1
      <4>2. r[i] \notin Continuation /\ i + 2 = i + Width(r[i]) - 1
        BY <2>1, <3>8 DEF Width, Continuation
      <4>3. \A x \in i + 1 .. i + 2 : r[x] \in Continuation
        BY <3>8, <4>1
      <4>4. QED
        BY <4>2, <4>3 DEF Char
    <3>10. ASSUME NEW x \in DOMAIN r
           PROVE  \E p, q \in DOMAIN r : p <= x /\ x <= q /\ Char(r, p, q)
      <4>1. CASE x < i
        <5>1. x \in 1 .. i - 1
          BY <2>1, <3>8, <4>1
        <5>2. PICK p \in 1 .. i - 1, q \in 1 .. i - 1 : p <= x /\ x <= q /\ Char(s, p, q)
          BY <2>3, <5>1
        <5>3. p <= q /\ \A y \in p..q : y \in 1 .. i - 1
          BY <2>1, <5>1, <5>2
        <5>4. Char(r, p, q)
          BY <3>8, <5>2, <5>3, SameChar
        <5>5. p \in DOMAIN r /\ q \in DOMAIN r
          BY <2>1, <3>8, <5>2
        <5>6. QED
          BY <5>2, <5>4, <5>5
      <4>2. CASE ~(x < i)
        <5>1. i \in DOMAIN r /\ i + 2 \in DOMAIN r /\ i <= x /\ x <= i + 2
          BY <2>1, <3>8, <4>2
        <5>2. QED
          BY <3>9, <5>1
      <4>3. QED
        BY <4>1, <4>2
    <3>11. r \in Text
      BY <3>8, <3>10 DEF Text
    <3>12. QED
      BY <3>5, <3>11 DEF b
  <2>6. QED
    BY <2>4, <2>5
<1>6. QED
  BY <1>4, <1>5

(* encode_request, then decode_request: no error, and the registration again, *)
(* its name as from_utf8_lossy reads the first MAX_NAME_LEN bytes: a String,  *)
(* and the same one if it was not longer.                                     *)
THEOREM RequestDecoded ==
  ASSUME NEW req \in RegistrationRequest
  PROVE  LET decoded == decode_request(encode_request(req)) IN
         /\ request_error(encode_request(req)) = "none"
         /\ decoded = [req EXCEPT !.name = from_utf8_lossy(Cut(req.name, MAX_NAME_LEN))]
         /\ decoded \in RegistrationRequest
         /\ Len(req.name) <= MAX_NAME_LEN => decoded = req
<1>1. req.name \in Text /\ req.name \in Seq(Byte) /\ MAX_NAME_LEN \in 0..255
  BY ProtocolAssumption, TextIsWhole DEF RegistrationRequest
<1>2. Byte \subseteq Number
  BY DEF Byte, Number
<1>3. req \in WideRequest
  <2>1. [1..4 -> Byte] \subseteq [1..4 -> Number] /\ [1..2 -> Byte] \subseteq [1..2 -> Number]
    BY <1>2
  <2>2. req.name \in Seq(Number)
    BY <1>1, <1>2, SeqMonotonic
  <2>3. QED
    BY <2>1, <2>2 DEF RegistrationRequest, WideRequest
<1>4. from_utf8_lossy(Cut(req.name, MAX_NAME_LEN)) \in Text
  BY <1>1, TextStaysText
<1>5. ASSUME Len(req.name) <= MAX_NAME_LEN
      PROVE  from_utf8_lossy(Cut(req.name, MAX_NAME_LEN)) = req.name
  <2>1. Cut(req.name, MAX_NAME_LEN) = req.name
    BY <1>1, <1>3, <1>5, CutName DEF WideRequest
  <2>2. QED
    BY <1>1, <2>1, TextIsWhole
<1>6. [req EXCEPT !.name = req.name] = req
  BY DEF RegistrationRequest
<1>7. [req EXCEPT !.name = from_utf8_lossy(Cut(req.name, MAX_NAME_LEN))] \in RegistrationRequest
  BY <1>4 DEF RegistrationRequest
<1>8. QED
  BY <1>3, <1>5, <1>6, <1>7, RequestCodec

(* encode_response, then decode_response: likewise.                           *)
THEOREM ResponseDecoded ==
  ASSUME NEW resp \in RegistrationResponse
  PROVE  LET decoded == decode_response(encode_response(resp)) IN
         /\ response_error(encode_response(resp)) = "none"
         /\ decoded = [resp EXCEPT !.channel_name =
                         from_utf8_lossy(Cut(resp.channel_name, MAX_CHANNEL_NAME_LEN))]
         /\ decoded \in RegistrationResponse
         /\ Len(resp.channel_name) <= MAX_CHANNEL_NAME_LEN => decoded = resp
<1>1. /\ resp.channel_name \in Text /\ resp.channel_name \in Seq(Byte)
      /\ MAX_CHANNEL_NAME_LEN \in 0..255
  BY ProtocolAssumption, TextIsWhole DEF RegistrationResponse
<1>2. Byte \subseteq Number
  BY DEF Byte, Number
<1>3. resp \in WideResponse
  <2>1. [1..4 -> Byte] \subseteq [1..4 -> Number]
    BY <1>2
  <2>2. resp.channel_name \in Seq(Number)
    BY <1>1, <1>2, SeqMonotonic
  <2>3. QED
    BY <1>2, <2>1, <2>2 DEF RegistrationResponse, WideResponse
<1>4. from_utf8_lossy(Cut(resp.channel_name, MAX_CHANNEL_NAME_LEN)) \in Text
  BY <1>1, TextStaysText
<1>5. ASSUME Len(resp.channel_name) <= MAX_CHANNEL_NAME_LEN
      PROVE  from_utf8_lossy(Cut(resp.channel_name, MAX_CHANNEL_NAME_LEN)) = resp.channel_name
  <2>1. Cut(resp.channel_name, MAX_CHANNEL_NAME_LEN) = resp.channel_name
    BY <1>1, <1>3, <1>5, CutName DEF WideResponse
  <2>2. QED
    BY <1>1, <2>1, TextIsWhole
<1>6. [resp EXCEPT !.channel_name = resp.channel_name] = resp
  BY DEF RegistrationResponse
<1>7. [resp EXCEPT !.channel_name = from_utf8_lossy(Cut(resp.channel_name, MAX_CHANNEL_NAME_LEN))]
        \in RegistrationResponse
  BY <1>4 DEF RegistrationResponse
<1>8. QED
  BY <1>3, <1>5, <1>6, <1>7, ResponseCodec

----------------------------------------------------------------------------
(* What the lobby and its clients make of the messages there are.             *)
LEMMA RegistrationRead ==
  ASSUME NEW k \in Clients
  PROVE  /\ request_error(Registration(k)) = "none"
         /\ decode_request(Registration(k)).pid = Pid(k)
         /\ request_error(Garbage(k)) # "none"
<1> DEFINE req == [pid |-> <<k, k, k, k>>, revision |-> <<0, 0>>, name |-> <<k, 195, 169>>]
           e   == Registration(k)
<1>1. {k, 0, 195, 169} \subseteq Number
  BY LobbyAssumption DEF Number
<1>2. req \in WideRequest
  <2>1. <<k, k, k, k>> \in [1..4 -> Number] /\ <<0, 0>> \in [1..2 -> Number]
    BY <1>1
  <2>2. <<k, 195, 169>> \in Seq(Number)
    BY <1>1
  <2>3. QED
    BY <2>1, <2>2 DEF WideRequest
<1>3. e = encode_request(req)
  BY DEF Registration
<1> HIDE DEF e
<1>4. /\ e \in Seq(Number) /\ Len(e) >= 13 /\ e[5] = DISPATCH_VERSION
      /\ request_error(e) = "none"
      /\ decode_request(e) = [req EXCEPT !.name = from_utf8_lossy(Cut(req.name, MAX_NAME_LEN))]
  <2> HIDE DEF req
  <2>1. QED
    BY <1>2, <1>3, RequestCodec
<1>5. decode_request(e).pid = Pid(k)
  BY <1>4 DEF Pid
<1>6. Garbage(k)[5] # DISPATCH_VERSION
  <2>1. Garbage(k) = [e EXCEPT ![5] = DISPATCH_VERSION - 1]
    BY DEF Garbage, e
  <2>2. 5 \in DOMAIN e
    <3>1. Len(e) \in Nat /\ DOMAIN e = 1..Len(e)
      BY <1>4, LenProperties
    <3>2. QED
      BY <1>4, <3>1
  <2>3. Garbage(k)[5] = DISPATCH_VERSION - 1
    BY <2>1, <2>2
  <2>4. QED
    BY <2>3 DEF DISPATCH_VERSION
<1>7. request_error(Garbage(k)) # "none"
  BY <1>6 DEF request_error, Fault
<1>8. QED
  BY <1>4, <1>5, <1>7 DEF e

LEMMA RequestRead ==
  ASSUME NEW k \in Clients, NEW m \in RequestsOf(k), request_error(m) = "none"
  PROVE  decode_request(m) \in Infos /\ decode_request(m).pid = Pid(k)
<1>1. m = Registration(k)
  BY RegistrationRead DEF RequestsOf
<1>2. QED
  BY <1>1, RegistrationRead DEF Infos

LEMMA ServingRead ==
  ASSUME NEW id \in Nat
  PROVE  /\ response_error(Serving(id, STATUS_OK)) = "none"
         /\ decode_response(Serving(id, STATUS_OK)).status = STATUS_OK
         /\ decode_response(Serving(id, STATUS_OK)).client_id[1] = id
         /\ decode_response(Serving(id, STATUS_REJECTED)).status # STATUS_OK
<1> DEFINE resp(status) ==
      [status |-> status, client_id |-> <<id, 0, 0, 0>>,
       channel_name |-> IF status = STATUS_OK THEN <<id>> ELSE <<>>]
<1>1. id \in Number /\ 0 \in Number /\ STATUS_OK \in Number /\ STATUS_REJECTED \in Number
  BY DEF Number, STATUS_OK, STATUS_REJECTED
<1>2. \A status \in {STATUS_OK, STATUS_REJECTED} :
        /\ resp(status) \in WideResponse
        /\ Serving(id, status) = encode_response(resp(status))
  <2>1. <<id, 0, 0, 0>> \in [1..4 -> Number]
    BY <1>1
  <2>2. <<id>> \in Seq(Number) /\ <<>> \in Seq(Number)
    BY <1>1
  <2>3. QED
    BY <1>1, <2>1, <2>2 DEF WideResponse, Serving
<1>3. \A status \in {STATUS_OK, STATUS_REJECTED} :
        /\ response_error(Serving(id, status)) = "none"
        /\ decode_response(Serving(id, status)) =
             [resp(status) EXCEPT !.channel_name =
                from_utf8_lossy(Cut(resp(status).channel_name, MAX_CHANNEL_NAME_LEN))]
  <2> HIDE DEF resp
  <2>1. QED
    BY <1>2, ResponseCodec
<1>4. \A status \in {STATUS_OK, STATUS_REJECTED} :
        /\ decode_response(Serving(id, status)).status = status
        /\ decode_response(Serving(id, status)).client_id[1] = id
  BY <1>3
<1>5. QED
  BY <1>3, <1>4 DEF STATUS_OK, STATUS_REJECTED

LEMMA AnswerRead ==
  ASSUME NEW m \in Answers,
         response_error(m) = "none", decode_response(m).status = STATUS_OK
  PROVE  /\ decode_response(m).client_id[1] \in Nat
         /\ \A k \in Clients : AnswerFor(k, m) =>
              LET id == decode_response(m).client_id[1] IN
              id <= Len(info) /\ info[id].pid = Pid(k)
<1>1. m # Serving(0, STATUS_REJECTED)
  BY ServingRead
<1>2. decode_response(m).client_id[1] \in Nat
  BY <1>1, ServingRead DEF Answers
<1>3. ASSUME NEW k \in Clients, AnswerFor(k, m)
      PROVE  LET id == decode_response(m).client_id[1] IN
             id <= Len(info) /\ info[id].pid = Pid(k)
  <2>1. PICK id \in 1..Len(info) : m = Serving(id, STATUS_OK) /\ info[id].pid = Pid(k)
    BY <1>1, <1>3 DEF AnswerFor
  <2>2. id \in Nat /\ id <= Len(info)
    BY <2>1
  <2>3. decode_response(m).client_id[1] = id
    BY <2>1, <2>2, ServingRead
  <2>4. QED
    BY <2>1, <2>2, <2>3
<1>4. QED
  BY <1>2, <1>3

----------------------------------------------------------------------------
(* What the operators of the channel make of its rings.                       *)
Exact(r) == r.count = Len(r.msgs)

LEMMA WriteOp ==
  ASSUME NEW M, NEW r \in Rings(M), Exact(r), NEW m \in M
  PROVE  /\ Write(r, m) \in Rings(M) /\ Exact(Write(r, m))
         /\ r.msgs = <<>> => Write(r, m).msgs = <<m>>
<1>1. r.count \in Nat /\ r.msgs \in Seq(M) /\ r.data \in BOOLEAN /\ r.count = Len(r.msgs)
  BY DEF Rings, Exact
<1> DEFINE q == Append(r.msgs, m)
<1>2. q \in Seq(M) /\ Len(q) = r.count + 1 /\ r.count + 1 \in Nat
  BY <1>1
<1>3. r.msgs = <<>> => q = <<m>>
  <2>1. Append(<<>>, m) = <<m>>
    OBVIOUS
  <2>2. QED
    BY <2>1, Zenon DEF q
<1>4. Write(r, m) = [r EXCEPT !.count = r.count + 1, !.msgs = q]
  BY DEF Write, Counted
<1> HIDE DEF q
<1>5. Write(r, m) = [count |-> r.count + 1, msgs |-> q, data |-> r.data]
  BY <1>4 DEF Rings
<1>6. QED
  BY <1>1, <1>2, <1>3, <1>5 DEF Rings, Exact

LEMMA ReadOp ==
  ASSUME NEW M, NEW r \in Rings(M), Exact(r)
  PROVE  /\ QueueEmpty(r) <=> r.msgs = <<>>
         /\ r.msgs # <<>> =>
              /\ ReadOff(r) \in Rings(M) /\ Exact(ReadOff(r))
              /\ ReadOff(r).msgs = Tail(r.msgs)
              /\ Len(Tail(r.msgs)) = Len(r.msgs) - 1
              /\ Head(r.msgs) \in M /\ Head(r.msgs) = r.msgs[1] /\ 1 \in 1..Len(r.msgs)
<1>1. r.count \in Nat /\ r.msgs \in Seq(M) /\ r.data \in BOOLEAN /\ r.count = Len(r.msgs)
  BY DEF Rings, Exact
<1>2. QueueEmpty(r) <=> r.msgs = <<>>
  BY <1>1 DEF QueueEmpty
<1>3. ASSUME r.msgs # <<>>
      PROVE  /\ ReadOff(r) \in Rings(M) /\ Exact(ReadOff(r))
             /\ ReadOff(r).msgs = Tail(r.msgs)
             /\ Len(Tail(r.msgs)) = Len(r.msgs) - 1
             /\ Head(r.msgs) \in M /\ Head(r.msgs) = r.msgs[1] /\ 1 \in 1..Len(r.msgs)
  <2>1. /\ Tail(r.msgs) \in Seq(M) /\ Len(Tail(r.msgs)) = r.count - 1 /\ r.count # 0
        /\ Head(r.msgs) \in M /\ Head(r.msgs) = r.msgs[1] /\ 1 \in 1..Len(r.msgs)
    BY <1>1, <1>3
  <2>2. Taken(r) = [r EXCEPT !.msgs = Tail(r.msgs)]
    BY DEF Taken
  <2>3. ReadOff(r) = [r EXCEPT !.msgs = Tail(r.msgs), !.count = r.count - 1]
    BY <1>1, <2>1, <2>2 DEF ReadOff, Subtracted, Rings
  <2>4. r.count - 1 \in Nat
    BY <1>1, <2>1
  <2>5. ReadOff(r) \in Rings(M) /\ Exact(ReadOff(r)) /\ ReadOff(r).msgs = Tail(r.msgs)
    BY <2>1, <2>3, <2>4 DEF Rings, Exact
  <2>6. QED
    BY <1>1, <2>1, <2>5
<1>4. QED
  BY <1>2, <1>3

LEMMA ResetOp ==
  ASSUME NEW M, NEW r \in Rings(M)
  PROVE  ResetRing(r) \in Rings(M) /\ Exact(ResetRing(r)) /\ ResetRing(r).msgs = <<>>
<1>1. <<>> \in Seq(M) /\ Len(<<>>) = 0
  OBVIOUS
<1>2. QED
  BY <1>1 DEF ResetRing, Rings, Exact

----------------------------------------------------------------------------
(* The actions of the lobby: the types, the counts, and what changes.         *)
Entry == [pc : Stages, tries : Nat, id : Nat, met : BOOLEAN]
SameRings == shm'.c2s = shm.c2s /\ shm'.s2c = shm.s2c
SameStates ==
  /\ shm'.server_state = shm.server_state /\ shm'.client_state = shm.client_state
  /\ shm'.connect_ack = shm.connect_ack
LobbyAlone == reg' = reg /\ info' = info

LEMMA SectionFields ==
  ASSUME NEW x \in Sections
  PROVE  /\ x.server_state \in {"IDLE", "READY"} /\ x.client_state \in {"IDLE", "HELLO", "READY"}
         /\ x.generation \in Nat /\ x.connect_req \in BOOLEAN /\ x.connect_ack \in BOOLEAN
         /\ x.disconnect \in BOOLEAN /\ x.c2s \in Rings(Requests) /\ x.s2c \in Rings(Answers)
         /\ (x.generation + 1) % Generations \in Nat
  BY ChannelAssumption DEF Sections

LEMMA MovesTo ==
  ASSUME NEW pc \in Places
  PROVE  Types /\ Moves(pc) => lobby'.pc = pc /\ lobby' \in [pc : Places, running : BOOLEAN]
  BY DEF Types, Moves

LEMMA CreateStep ==
  Types /\ CreateLobby =>
    /\ Types' /\ Counts' /\ LobbyAlone /\ ~SectionExists /\ fault' = fault
    /\ lobby'.pc = "wait" /\ shm'.client_state = "IDLE" /\ ~shm'.connect_ack
    /\ shm'.s2c.msgs = <<>>
<1> HAVE Types /\ CreateLobby
<1>1. lobby'.pc = "wait" /\ lobby' \in [pc : Places, running : BOOLEAN]
  BY MovesTo DEF CreateLobby, Places
<1>2. EmptyRing \in Rings(Requests) /\ EmptyRing \in Rings(Answers)
  BY DEF EmptyRing, Rings
<1>3. shm' = Fresh /\ Fresh \in Sections
  BY <1>2 DEF CreateLobby, Fresh, Sections
<1>4. Len(<<>>) = 0
  OBVIOUS
<1>5. Counts'
  BY <1>1, <1>3, <1>4 DEF Counts, Fresh, EmptyRing
<1>6. QED
  BY <1>1, <1>3, <1>5 DEF CreateLobby, Types, LobbyAlone, Fresh, EmptyRing

LEMMA TakeRequestStep ==
  Types /\ Counts /\ TakeRequest =>
    /\ Types' /\ Counts' /\ LobbyAlone /\ fault' = fault /\ lobby.pc = "wait"
    /\ shm'.connect_ack = shm.connect_ack
    /\ \/ /\ lobby'.pc = "ready" /\ shm.client_state = "HELLO" /\ shm'.client_state = "HELLO"
          /\ shm'.c2s.msgs = <<>> /\ shm'.s2c.msgs = <<>>
       \/ /\ lobby'.pc = "start" /\ SameRings
          /\ shm'.server_state = "IDLE" /\ shm'.client_state = "IDLE"
<1> HAVE Types /\ Counts /\ TakeRequest
<1>1. /\ shm \in Sections /\ info \in Seq(Infos) /\ reg \in [Clients -> Entry]
      /\ lobby.pc = "wait" /\ LobbyAlone /\ fault' = fault
  BY DEF Types, Entry, TakeRequest, LobbyAlone
<1>2. CASE shm.client_state = "HELLO"
  <2> DEFINE c == ResetRing(shm.c2s)
             s == ResetRing(shm.s2c)
             g == (shm.generation + 1) % Generations
  <2>1. /\ c \in Rings(Requests) /\ Exact(c) /\ c.msgs = <<>>
        /\ s \in Rings(Answers) /\ Exact(s) /\ s.msgs = <<>>
    BY <1>1, SectionFields, ResetOp
  <2>2. shm' = [shm EXCEPT !.connect_req = FALSE, !.c2s = c, !.s2c = s,
                           !.generation = g, !.server_state = "READY"]
    BY <1>1, <1>2 DEF TakeRequest, ServerReady, ResetRings, Sections
  <2>3. lobby'.pc = "ready" /\ lobby' \in [pc : Places, running : BOOLEAN]
    BY <1>2, MovesTo DEF TakeRequest, Places
  <2>4. g \in Nat
    BY <1>1, SectionFields
  <2>5. Len(<<>>) = 0 /\ 0 <= 1
    OBVIOUS
  <2> HIDE DEF c, s, g
  <2>6. /\ shm' \in Sections /\ shm'.c2s = c /\ shm'.s2c = s /\ shm'.server_state = "READY"
        /\ shm'.connect_ack = shm.connect_ack /\ shm'.client_state = "HELLO"
    BY <1>1, <1>2, <2>1, <2>2, <2>4 DEF Sections
  <2>7. Counts'
    BY <2>1, <2>3, <2>5, <2>6 DEF Counts, Exact
  <2>8. Types'
    BY <1>1, <2>3, <2>6 DEF Types, Entry, LobbyAlone
  <2>9. QED
    BY <1>1, <1>2, <2>1, <2>3, <2>6, <2>7, <2>8
<1>3. CASE shm.client_state # "HELLO"
  <2>1. /\ shm' \in Sections /\ SameRings /\ shm'.connect_ack = shm.connect_ack
        /\ shm'.server_state = "IDLE" /\ shm'.client_state = "IDLE"
    BY <1>1, <1>3 DEF TakeRequest, DropServer, MarkDisconnected, Sections, SameRings
  <2>2. lobby'.pc = "start" /\ lobby' \in [pc : Places, running : BOOLEAN]
    BY <1>3, MovesTo DEF TakeRequest, Places
  <2>3. Counts'
    BY <2>1, <2>2 DEF Counts, SameRings
  <2>4. Types'
    BY <1>1, <2>1, <2>2 DEF Types, Entry, LobbyAlone
  <2>5. QED
    BY <1>1, <2>1, <2>2, <2>3, <2>4
<1>4. QED
  BY <1>2, <1>3

LEMMA AckRequestStep ==
  Types /\ Counts /\ AckRequest =>
    /\ Types' /\ Counts' /\ LobbyAlone /\ fault' = fault /\ SameRings
    /\ lobby.pc = "ready" /\ lobby'.pc = "serve"
    /\ shm'.connect_ack /\ shm'.client_state = "READY"
<1> HAVE Types /\ Counts /\ AckRequest
<1>1. /\ shm \in Sections /\ info \in Seq(Infos) /\ reg \in [Clients -> Entry]
      /\ lobby.pc = "ready" /\ LobbyAlone /\ fault' = fault
  BY DEF Types, Entry, AckRequest, LobbyAlone
<1>2. /\ shm' \in Sections /\ SameRings /\ shm'.connect_ack /\ shm'.client_state = "READY"
      /\ shm'.server_state = shm.server_state
  BY <1>1 DEF AckRequest, Acknowledge, ClientReady, Sections, SameRings
<1>3. lobby'.pc = "serve" /\ lobby' \in [pc : Places, running : BOOLEAN]
  BY MovesTo DEF AckRequest, Places
<1>4. Counts'
  BY <1>1, <1>2, <1>3 DEF Counts, SameRings
<1>5. Types'
  BY <1>1, <1>2, <1>3 DEF Types, Entry, LobbyAlone
<1>6. QED
  BY <1>1, <1>2, <1>3, <1>4, <1>5

LEMMA ReadRequestStep ==
  Types /\ Counts /\ ReadRequest =>
    /\ Types' /\ Counts' /\ SameStates /\ reg' = reg /\ fault' = fault
    /\ shm'.s2c = shm.s2c /\ shm.s2c.msgs = <<>>
    /\ lobby.pc = "serve" /\ 1 \in 1..Len(shm.c2s.msgs)
    /\ \/ lobby'.pc = "reply" /\ request_error(shm.c2s.msgs[1]) = "none"
          /\ info' = Append(info, decode_request(shm.c2s.msgs[1]))
       \/ lobby'.pc = "mark" /\ info' = info
<1> HAVE Types /\ Counts /\ ReadRequest
<1>1. /\ shm \in Sections /\ info \in Seq(Infos) /\ reg \in [Clients -> Entry]
      /\ lobby.pc = "serve" /\ reg' = reg /\ fault' = fault /\ ~QueueEmpty(shm.c2s)
  BY DEF Types, Entry, ReadRequest
<1>2. shm.c2s \in Rings(Requests) /\ Exact(shm.c2s) /\ Exact(shm.s2c)
  BY <1>1, SectionFields DEF Counts, Exact
<1> DEFINE c == ReadOff(shm.c2s)
           m == shm.c2s.msgs[1]
<1>3. /\ c \in Rings(Requests) /\ Exact(c) /\ shm.c2s.msgs # <<>>
      /\ Head(shm.c2s.msgs) = m /\ m \in Requests /\ 1 \in 1..Len(shm.c2s.msgs)
  BY <1>1, <1>2, ReadOp
<1>4. shm' = [shm EXCEPT !.c2s = c]
  BY DEF ReadRequest
<1> HIDE DEF c
<1>5. shm' \in Sections /\ SameStates /\ shm'.s2c = shm.s2c /\ shm'.c2s = c
  BY <1>1, <1>3, <1>4 DEF Sections, SameStates
<1>6. shm.s2c.msgs = <<>>
  BY <1>1 DEF Counts
<1>7. CASE request_error(m) = "none"
  <2>1. lobby'.pc = "reply" /\ lobby' \in [pc : Places, running : BOOLEAN]
    BY <1>3, <1>7, MovesTo DEF ReadRequest, Places
  <2>2. info' = Append(info, decode_request(m))
    BY <1>3, <1>7 DEF ReadRequest
  <2>3. decode_request(m) \in Infos
    BY <1>3, <1>7, RequestRead DEF Requests
  <2>4. info' \in Seq(Infos)
    BY <1>1, <2>2, <2>3
  <2>5. Counts'
    BY <1>2, <1>3, <1>5, <1>6, <2>1 DEF Counts, Exact
  <2>6. Types'
    BY <1>1, <1>5, <2>1, <2>4 DEF Types, Entry
  <2>7. QED
    BY <1>1, <1>3, <1>5, <1>6, <1>7, <2>1, <2>2, <2>5, <2>6
<1>8. CASE request_error(m) # "none"
  <2>1. lobby'.pc = "mark" /\ lobby' \in [pc : Places, running : BOOLEAN]
    BY <1>3, <1>8, MovesTo DEF ReadRequest, Places
  <2>2. info' = info
    BY <1>3, <1>8 DEF ReadRequest
  <2>5. Counts'
    BY <1>2, <1>3, <1>5, <1>6, <2>1 DEF Counts, Exact
  <2>6. Types'
    BY <1>1, <1>5, <2>1, <2>2 DEF Types, Entry
  <2>7. QED
    BY <1>1, <1>3, <1>5, <1>6, <2>1, <2>2, <2>5, <2>6
<1>9. QED
  BY <1>7, <1>8

(* Reply and Reject.                                                          *)
LEMMA AnswerStep ==
  Types /\ Counts /\ (Reply \/ Reject) =>
    /\ Types' /\ Counts' /\ SameStates /\ LobbyAlone
    /\ fault' = fault \/ (fault = "none" /\ fault' = "reject")
    /\ lobby.pc = "reply" /\ lobby'.pc = "mark" /\ shm'.c2s = shm.c2s
    /\ \/ shm'.s2c.msgs = <<Serving(Len(info), STATUS_OK)>>
       \/ shm'.s2c.msgs = <<Serving(0, STATUS_REJECTED)>>
<1> HAVE Types /\ Counts /\ (Reply \/ Reject)
<1>1. /\ shm \in Sections /\ info \in Seq(Infos) /\ reg \in [Clients -> Entry]
      /\ lobby.pc = "reply" /\ LobbyAlone /\ Moves("mark")
      /\ fault' = fault \/ (fault = "none" /\ fault' = "reject")
  BY DEF Types, Entry, Reply, Reject, LobbyAlone, Happens
<1>2. shm.s2c \in Rings(Answers) /\ Exact(shm.c2s) /\ Exact(shm.s2c) /\ shm.s2c.msgs = <<>>
  BY <1>1, SectionFields DEF Counts, Exact
<1>3. PICK m : /\ m \in {Serving(Len(info), STATUS_OK), Serving(0, STATUS_REJECTED)}
               /\ shm' = [shm EXCEPT !.s2c = Write(@, m)]
  BY DEF Reply, Reject
<1>4. Len(info) \in Nat
  BY <1>1, LenProperties
<1>5. m \in Answers
  BY <1>3, <1>4 DEF Answers
<1> DEFINE s == Write(shm.s2c, m)
<1>6. s \in Rings(Answers) /\ Exact(s) /\ s.msgs = <<m>>
  BY <1>2, <1>5, WriteOp
<1>7. shm' = [shm EXCEPT !.s2c = s]
  BY <1>3
<1> HIDE DEF s
<1>8. shm' \in Sections /\ SameStates /\ shm'.s2c = s /\ shm'.c2s = shm.c2s
  BY <1>1, <1>6, <1>7 DEF Sections, SameStates
<1>9. lobby'.pc = "mark" /\ lobby' \in [pc : Places, running : BOOLEAN]
  BY <1>1, MovesTo DEF Places
<1>10. Len(<<m>>) = 1 /\ 1 <= 1
  OBVIOUS
<1>11. Counts'
  BY <1>2, <1>6, <1>8, <1>9, <1>10 DEF Counts, Exact
<1>12. Types'
  BY <1>1, <1>8, <1>9 DEF Types, Entry, LobbyAlone
<1>13. QED
  BY <1>1, <1>3, <1>6, <1>8, <1>9, <1>11, <1>12

(* The service ends without an answer.                                        *)
LEMMA LeaveStep ==
  Types /\ Counts /\ (ServeTimeout \/ ServeTimeoutEarly \/ ReplyFails) =>
    /\ Types' /\ Counts' /\ SameStates /\ SameRings /\ LobbyAlone
    /\ lobby.pc \in {"serve", "reply"} /\ lobby'.pc = "mark"
    /\ fault' = fault \/ (fault = "none" /\ fault' \in {"timeout", "unsent"})
<1> HAVE Types /\ Counts /\ (ServeTimeout \/ ServeTimeoutEarly \/ ReplyFails)
<1>1. /\ shm' = shm /\ lobby.pc \in {"serve", "reply"} /\ LobbyAlone /\ Moves("mark")
      /\ fault' = fault \/ (fault = "none" /\ fault' \in {"timeout", "unsent"})
  BY DEF ServeTimeout, ServeTimeoutEarly, ReplyFails, LeaveClient, LobbyAlone, Happens
<1>2. lobby'.pc = "mark" /\ lobby' \in [pc : Places, running : BOOLEAN]
  BY <1>1, MovesTo DEF Places
<1>3. Types'
  BY <1>1, <1>2 DEF Types, LobbyAlone
<1>4. Counts'
  BY <1>1, <1>2 DEF Counts
<1>5. QED
  BY <1>1, <1>2, <1>3, <1>4 DEF SameStates, SameRings

LEMMA MarkStep ==
  Types /\ Counts /\ Mark =>
    /\ Types' /\ Counts' /\ SameRings /\ LobbyAlone /\ fault' = fault
    /\ lobby.pc = "mark" /\ lobby'.pc \in {"wait", "start"}
    /\ shm'.connect_ack = shm.connect_ack
    /\ shm'.server_state = "IDLE" /\ shm'.client_state = "IDLE"
<1> HAVE Types /\ Counts /\ Mark
<1>1. /\ shm \in Sections /\ info \in Seq(Infos) /\ reg \in [Clients -> Entry]
      /\ lobby.pc = "mark" /\ LobbyAlone /\ fault' = fault
  BY DEF Types, Entry, Mark, LobbyAlone
<1>2. /\ shm' \in Sections /\ SameRings /\ shm'.connect_ack = shm.connect_ack
      /\ shm'.server_state = "IDLE" /\ shm'.client_state = "IDLE"
  BY <1>1 DEF Mark, MarkDisconnected, Sections, SameRings
<1>3. lobby'.pc \in {"wait", "start"} /\ lobby' \in [pc : Places, running : BOOLEAN]
  BY MovesTo DEF Mark, Places
<1>4. Counts'
  BY <1>2, <1>3 DEF Counts, SameRings
<1>5. Types'
  BY <1>1, <1>2, <1>3 DEF Types, Entry, LobbyAlone
<1>6. QED
  BY <1>1, <1>2, <1>3, <1>4, <1>5

LEMMA StopStep ==
  Types /\ Counts /\ Stop =>
    /\ Types' /\ Counts' /\ LobbyAlone /\ fault' = fault /\ shm' = shm /\ lobby'.pc = lobby.pc
<1> HAVE Types /\ Counts /\ Stop
<1>1. LobbyAlone /\ fault' = fault /\ shm' = shm
  BY DEF Stop, LobbyAlone
<1>2. lobby'.pc = lobby.pc /\ lobby' \in [pc : Places, running : BOOLEAN]
  BY DEF Stop, Types
<1>3. Types'
  BY <1>1, <1>2 DEF Types, LobbyAlone
<1>4. Counts'
  BY <1>1, <1>2 DEF Counts
<1>5. QED
  BY <1>1, <1>2, <1>3, <1>4

LEMMA EndStep ==
  Types /\ Counts /\ LobbyEnds =>
    /\ Types' /\ Counts' /\ SameRings /\ LobbyAlone /\ fault' = fault
    /\ lobby.pc \in {"start", "wait"} /\ lobby'.pc = "done"
    /\ SameStates \/ (/\ shm'.server_state = "IDLE" /\ shm'.client_state = "IDLE"
                      /\ shm'.connect_ack = shm.connect_ack)
<1> HAVE Types /\ Counts /\ LobbyEnds
<1>1. /\ shm \in Sections /\ info \in Seq(Infos) /\ reg \in [Clients -> Entry]
      /\ lobby.pc \in {"start", "wait"} /\ LobbyAlone /\ fault' = fault
  BY DEF Types, Entry, LobbyEnds, LobbyAlone
<1>2. /\ shm' \in Sections /\ SameRings
      /\ \/ SameStates
         \/ /\ shm'.server_state = "IDLE" /\ shm'.client_state = "IDLE"
            /\ shm'.connect_ack = shm.connect_ack
  <2>1. CASE lobby.pc = "wait"
    BY <1>1, <2>1 DEF LobbyEnds, DropServer, MarkDisconnected, Sections, SameRings
  <2>2. CASE lobby.pc # "wait"
    BY <1>1, <2>2 DEF LobbyEnds, SameRings, SameStates
  <2>3. QED
    BY <2>1, <2>2
<1>3. lobby'.pc = "done" /\ lobby' \in [pc : Places, running : BOOLEAN]
  BY MovesTo DEF LobbyEnds, Places
<1>4. Counts'
  BY <1>2, <1>3 DEF Counts, SameRings
<1>5. Types'
  BY <1>1, <1>2, <1>3 DEF Types, Entry, LobbyAlone
<1>6. QED
  BY <1>1, <1>2, <1>3, <1>4, <1>5

----------------------------------------------------------------------------
(* The actions of a client.                                                   *)
Rest(k) == \A j \in Clients \ {k} : reg'[j] = reg[j]
LeavesIn(k) == Rest(k) /\ reg'[k].pc \in {"out", "dead"} /\ reg'[k].id = reg[k].id
ClientAlone == lobby' = lobby /\ info' = info

LEMMA EntryUpdates ==
  ASSUME NEW k \in Clients
  PROVE  /\ \A pc \in Stages : Types /\ Goes(k, pc) =>
              /\ reg' \in [Clients -> Entry] /\ Rest(k)
              /\ reg'[k].pc = pc /\ reg'[k].met = reg[k].met /\ reg'[k].id = reg[k].id
         /\ Types /\ Fails(k) => reg' \in [Clients -> Entry] /\ LeavesIn(k) /\ reg'[k].pc = "out"
         /\ \A id \in Nat : Types /\ Returns(k, id) =>
              /\ reg' \in [Clients -> Entry] /\ Rest(k)
              /\ reg'[k].pc = "out" /\ reg'[k].met = reg[k].met /\ reg'[k].id = id
<1>1. Types => reg \in [Clients -> Entry]
  BY DEF Types, Entry
<1>2. ASSUME NEW pc \in Stages, Types, Goes(k, pc)
      PROVE  /\ reg' \in [Clients -> Entry] /\ Rest(k)
             /\ reg'[k].pc = pc /\ reg'[k].met = reg[k].met /\ reg'[k].id = reg[k].id
  BY <1>1, <1>2 DEF Goes, Rest, Entry
<1>3. ASSUME Types, Fails(k)
      PROVE  reg' \in [Clients -> Entry] /\ LeavesIn(k) /\ reg'[k].pc = "out"
  BY <1>1, <1>3 DEF Fails, LeavesIn, Rest, Entry, Stages
<1>4. ASSUME NEW id \in Nat, Types, Returns(k, id)
      PROVE  /\ reg' \in [Clients -> Entry] /\ Rest(k)
             /\ reg'[k].pc = "out" /\ reg'[k].met = reg[k].met /\ reg'[k].id = id
  BY <1>1, <1>4 DEF Returns, Rest, Entry, Stages
<1>5. QED
  BY <1>2, <1>3, <1>4

(* A client that comes is met by all who are there.                           *)
LEMMA ConnectStep ==
  ASSUME NEW k \in Clients
  PROVE  Types /\ Counts /\ Connect(k) =>
    /\ Types' /\ Counts' /\ ClientAlone /\ SameRings /\ fault' = fault
    /\ shm'.server_state = shm.server_state /\ shm'.connect_ack = shm.connect_ack
    /\ reg[k].pc = "out" /\ reg[k].id = 0
    /\ \A j \in Clients : reg'[j].id = reg[j].id
    /\ \A j \in Clients \ {k} : reg'[j].pc = reg[j].pc /\ (reg[j].met => reg'[j].met)
    /\ shm'.client_state = "HELLO" /\ reg'[k].pc = "req"
    /\ reg'[k].met <=> \E j \in Clients : Inside(j)
    /\ \A j \in Clients \ {k} : reg'[j].met <=> reg[j].met \/ Inside(j)
<1> HAVE Types /\ Counts /\ Connect(k)
<1>1. /\ shm \in Sections /\ info \in Seq(Infos) /\ reg \in [Clients -> Entry]
      /\ lobby \in [pc : Places, running : BOOLEAN]
      /\ reg[k].pc = "out" /\ reg[k].id = 0 /\ ClientAlone /\ fault' = fault
  BY DEF Types, Entry, Connect, ClientAlone
<1> DEFINE others == {j \in Clients : Inside(j)}
<1>2. \A j \in Clients : reg[j] \in Entry /\ reg[j].met \in BOOLEAN
  BY <1>1 DEF Entry
<1>3. /\ shm' \in Sections /\ SameRings /\ shm'.client_state = "HELLO"
      /\ shm'.server_state = shm.server_state /\ shm'.connect_ack = shm.connect_ack
  BY <1>1 DEF Connect, Hello, Sections, SameRings
<1>4. reg' = [j \in Clients |->
        IF j = k THEN [reg[k] EXCEPT !.pc = "req", !.met = others # {}]
                 ELSE [reg[j] EXCEPT !.met = @ \/ j \in others]]
  BY DEF Connect
<1>5. \A j \in Clients : (reg[j].met \/ j \in others) \in BOOLEAN
  BY <1>2, Zenon
<1>6. /\ (others # {}) \in BOOLEAN
      /\ (others # {}) <=> \E j \in Clients : Inside(j)
  BY Zenon
<1> HIDE DEF others
<1>7. reg'[k] = [reg[k] EXCEPT !.pc = "req", !.met = others # {}]
  BY <1>4
<1>8. reg'[k] \in Entry /\ reg'[k].pc = "req" /\ reg'[k].id = reg[k].id
  BY <1>2, <1>6, <1>7 DEF Entry, Stages
<1>9. reg'[k].met = (others # {})
  BY <1>2, <1>7 DEF Entry
<1>10. ASSUME NEW j \in Clients \ {k}
       PROVE  /\ reg'[j] \in Entry /\ reg'[j].id = reg[j].id /\ reg'[j].pc = reg[j].pc
              /\ reg'[j].met = (reg[j].met \/ j \in others)
  <2>1. reg'[j] = [reg[j] EXCEPT !.met = @ \/ j \in others]
    BY <1>4
  <2>2. QED
    BY <1>2, <1>5, <2>1 DEF Entry
<1>11. reg' \in [Clients -> Entry]
  BY <1>4, <1>8, <1>10
<1>12. \A j \in Clients \ {k} : reg'[j].met <=> reg[j].met \/ Inside(j)
  BY <1>10, Zenon DEF others
<1>13. reg'[k].met <=> \E j \in Clients : Inside(j)
  BY <1>6, <1>9, Zenon
<1>14. Types'
  BY <1>1, <1>3, <1>11 DEF Types, ClientAlone, Entry
<1>15. Counts'
  BY <1>1, <1>3 DEF Counts, ClientAlone, SameRings
<1>16. \A j \in Clients : reg'[j].id = reg[j].id
  BY <1>8, <1>10
<1>17. \A j \in Clients \ {k} : reg'[j].pc = reg[j].pc /\ (reg[j].met => reg'[j].met)
  BY <1>10, <1>12, Zenon
<1>18. QED
  BY <1>1, <1>3, <1>8, <1>12, <1>13, <1>14, <1>15, <1>16, <1>17

LEMMA SetRequestStep ==
  ASSUME NEW k \in Clients
  PROVE  Types /\ Counts /\ SetRequest(k) =>
    /\ Types' /\ Counts' /\ ClientAlone /\ SameRings /\ SameStates /\ fault' = fault /\ Rest(k)
    /\ reg[k].pc = "req" /\ reg'[k].pc = "wait"
    /\ reg'[k].met = reg[k].met /\ reg'[k].id = reg[k].id
<1> HAVE Types /\ Counts /\ SetRequest(k)
<1>1. /\ shm \in Sections /\ reg[k].pc = "req" /\ ClientAlone /\ fault' = fault
  BY DEF Types, SetRequest, ClientAlone
<1>2. shm' \in Sections /\ SameRings /\ SameStates
  BY <1>1 DEF SetRequest, Request, Sections, SameRings, SameStates
<1>3. /\ reg' \in [Clients -> Entry] /\ Rest(k)
      /\ reg'[k].pc = "wait" /\ reg'[k].met = reg[k].met /\ reg'[k].id = reg[k].id
  BY EntryUpdates DEF SetRequest, Stages
<1>4. Types'
  BY <1>1, <1>2, <1>3 DEF Types, ClientAlone, Entry
<1>5. Counts'
  BY <1>1, <1>2 DEF Counts, ClientAlone, SameRings, SameStates
<1>6. QED
  BY <1>1, <1>2, <1>3, <1>4, <1>5

LEMMA TakeAckStep ==
  ASSUME NEW k \in Clients
  PROVE  Types /\ Counts /\ TakeAck(k) =>
    /\ Types' /\ Counts' /\ ClientAlone /\ SameRings /\ fault' = fault /\ Rest(k)
    /\ reg[k].pc = "wait" /\ shm.connect_ack /\ ~shm'.connect_ack
    /\ reg'[k].id = reg[k].id
    /\ \/ /\ shm.server_state = "READY" /\ shm'.client_state = shm.client_state
          /\ reg'[k].pc = "send" /\ reg'[k].met = reg[k].met
       \/ lobby.pc # "ready" /\ shm'.client_state = "IDLE" /\ reg'[k].pc = "out"
<1> HAVE Types /\ Counts /\ TakeAck(k)
<1>1. /\ shm \in Sections /\ reg[k].pc = "wait" /\ shm.connect_ack
      /\ ClientAlone /\ fault' = fault
  BY DEF Types, TakeAck, ClientAlone
<1>2. /\ shm' \in Sections /\ SameRings /\ ~shm'.connect_ack
      /\ shm'.server_state = shm.server_state
      /\ shm'.client_state = IF shm.server_state = "READY" THEN shm.client_state ELSE "IDLE"
  BY <1>1 DEF TakeAck, GiveUp, Sections, SameRings
<1>3. /\ reg' \in [Clients -> Entry] /\ Rest(k) /\ reg'[k].id = reg[k].id
      /\ IF shm.server_state = "READY" THEN reg'[k].pc = "send" /\ reg'[k].met = reg[k].met
                                       ELSE reg'[k].pc = "out"
  BY EntryUpdates DEF TakeAck, LeavesIn, Stages
<1>4. lobby.pc = "ready" => shm.server_state = "READY"
  BY DEF Counts
<1>5. Types'
  BY <1>1, <1>2, <1>3 DEF Types, ClientAlone, Entry
<1>6. Counts'
  BY <1>1, <1>2 DEF Counts, ClientAlone, SameRings
<1>7. QED
  BY <1>1, <1>2, <1>3, <1>4, <1>5, <1>6

(* TimesOut and TimesOutEarly.                                                *)
LEMMA AckMissedStep ==
  ASSUME NEW k \in Clients
  PROVE  Types /\ Counts /\ AckMissed(k) =>
    /\ Types' /\ Counts' /\ ClientAlone /\ SameRings /\ LeavesIn(k)
    /\ reg[k].pc = "wait" /\ ~shm.connect_ack /\ ~shm'.connect_ack
    /\ shm'.client_state = "IDLE"
<1> HAVE Types /\ Counts /\ AckMissed(k)
<1>1. shm \in Sections /\ reg[k].pc = "wait" /\ ~shm.connect_ack /\ ClientAlone
  BY DEF Types, AckMissed, ClientAlone
<1>2. /\ shm' \in Sections /\ SameRings /\ shm'.client_state = "IDLE"
      /\ shm'.connect_ack = shm.connect_ack /\ shm'.server_state = shm.server_state
  BY <1>1 DEF AckMissed, GiveUp, Sections, SameRings
<1>3. reg' \in [Clients -> Entry] /\ LeavesIn(k)
  BY EntryUpdates DEF AckMissed
<1>4. Types'
  BY <1>1, <1>2, <1>3 DEF Types, ClientAlone, Entry
<1>5. Counts'
  BY <1>1, <1>2 DEF Counts, ClientAlone, SameRings
<1>6. QED
  BY <1>1, <1>2, <1>3, <1>4, <1>5

(* SendRequest and SendGarbage.                                               *)
LEMMA SendStep ==
  ASSUME NEW k \in Clients
  PROVE  Types /\ Counts /\ (SendRequest(k) \/ SendGarbage(k)) =>
    /\ Types' /\ Counts' /\ ClientAlone /\ SameStates /\ Rest(k) /\ shm'.s2c = shm.s2c
    /\ fault' = fault \/ (fault = "none" /\ fault' = "garbage")
    /\ reg[k].pc = "send" /\ reg'[k].pc = "answer"
    /\ reg'[k].met = reg[k].met /\ reg'[k].id = reg[k].id
    /\ shm.c2s.msgs = <<>> => \E m \in RequestsOf(k) : shm'.c2s.msgs = <<m>>
<1> HAVE Types /\ Counts /\ (SendRequest(k) \/ SendGarbage(k))
<1>1. PICK m \in RequestsOf(k) : Sends(k, m)
  BY DEF SendRequest, SendGarbage, RequestsOf, Garbage
<1>2. /\ shm \in Sections /\ reg[k].pc = "send" /\ ClientAlone
      /\ fault' = fault \/ (fault = "none" /\ fault' = "garbage")
  BY <1>1 DEF Types, Sends, SendRequest, SendGarbage, Happens, ClientAlone
<1>3. shm.c2s \in Rings(Requests) /\ Exact(shm.c2s) /\ m \in Requests
  BY <1>2, SectionFields DEF Counts, Exact, Requests
<1> DEFINE c == Write(shm.c2s, m)
<1>4. c \in Rings(Requests) /\ Exact(c) /\ (shm.c2s.msgs = <<>> => c.msgs = <<m>>)
  BY <1>3, WriteOp
<1>5. shm' = [shm EXCEPT !.c2s = c]
  BY <1>1 DEF Sends
<1> HIDE DEF c
<1>6. shm' \in Sections /\ SameStates /\ shm'.s2c = shm.s2c /\ shm'.c2s = c
  BY <1>2, <1>4, <1>5 DEF Sections, SameStates
<1>7. /\ reg' \in [Clients -> Entry] /\ Rest(k)
      /\ reg'[k].pc = "answer" /\ reg'[k].met = reg[k].met /\ reg'[k].id = reg[k].id
  <2>1. /\ reg \in [Clients -> Entry] /\ reg[k].tries + 1 \in Nat
        /\ reg' = [reg EXCEPT ![k].pc = "answer", ![k].tries = reg[k].tries + 1]
    BY <1>1 DEF Types, Entry, Sends
  <2>2. QED
    BY <2>1 DEF Entry, Rest, Stages
<1>8. Types'
  BY <1>2, <1>6, <1>7 DEF Types, ClientAlone, Entry
<1>9. Counts'
  BY <1>2, <1>4, <1>6 DEF Counts, ClientAlone, SameStates, Exact
<1>10. QED
  BY <1>2, <1>4, <1>6, <1>7, <1>8, <1>9

LEMMA ReadAnswerStep ==
  ASSUME NEW k \in Clients
  PROVE  Types /\ Counts /\ ReadAnswer(k) =>
    /\ Types' /\ Counts' /\ ClientAlone /\ Rest(k) /\ fault' = fault
    /\ reg[k].pc = "answer" /\ reg'[k].pc = "out"
    /\ shm'.c2s = shm.c2s /\ shm'.s2c.msgs = <<>> /\ lobby.pc \notin {"ready", "serve", "reply"}
    /\ shm'.client_state = "IDLE" /\ shm'.connect_ack = shm.connect_ack
    /\ 1 \in 1..Len(shm.s2c.msgs)
    /\ \/ LeavesIn(k)
       \/ /\ reg'[k].met = reg[k].met
          /\ AnswerFor(k, shm.s2c.msgs[1]) =>
               reg'[k].id <= Len(info) /\ info[reg'[k].id].pid = Pid(k)
<1> HAVE Types /\ Counts /\ ReadAnswer(k)
<1>1. /\ shm \in Sections /\ reg[k].pc = "answer" /\ ClientAlone /\ fault' = fault
      /\ ~QueueEmpty(shm.s2c)
  BY DEF Types, ReadAnswer, ClientAlone
<1>2. shm.s2c \in Rings(Answers) /\ Exact(shm.c2s) /\ Exact(shm.s2c)
  BY <1>1, SectionFields DEF Counts, Exact
<1> DEFINE s == ReadOff(shm.s2c)
           m == shm.s2c.msgs[1]
<1>3. /\ s \in Rings(Answers) /\ Exact(s) /\ shm.s2c.msgs # <<>>
      /\ s.msgs = Tail(shm.s2c.msgs) /\ Len(s.msgs) = Len(shm.s2c.msgs) - 1
      /\ Head(shm.s2c.msgs) = m /\ m \in Answers /\ 1 \in 1..Len(shm.s2c.msgs)
  BY <1>1, <1>2, ReadOp
<1>4. shm' = [shm EXCEPT !.s2c = s, !.client_state = "IDLE", !.disconnect = TRUE]
  BY <1>1 DEF ReadAnswer, DropClient, Sections
<1> HIDE DEF s
<1>5. /\ shm' \in Sections /\ shm'.s2c = s /\ shm'.c2s = shm.c2s
      /\ shm'.client_state = "IDLE" /\ shm'.connect_ack = shm.connect_ack
      /\ shm'.server_state = shm.server_state
  BY <1>1, <1>3, <1>4 DEF Sections
<1>6. Len(shm.s2c.msgs) <= 1 /\ lobby.pc \notin {"ready", "serve", "reply"}
  BY <1>3 DEF Counts
<1>7. s.msgs = <<>> /\ Len(s.msgs) <= 1
  <2>1. s.msgs \in Seq(Answers) /\ Len(shm.s2c.msgs) \in Nat
    BY <1>2, <1>3, LenProperties DEF Rings
  <2>2. Len(s.msgs) <= 0 /\ Len(s.msgs) \in Nat
    BY <1>3, <1>6, <2>1
  <2>3. QED
    BY <2>1, <2>2
<1>8. Counts'
  BY <1>1, <1>2, <1>3, <1>5, <1>6, <1>7 DEF Counts, ClientAlone, Exact
<1>9. CASE response_error(m) = "none" /\ decode_response(m).status = STATUS_OK
  <2>1. Returns(k, decode_response(m).client_id[1])
    BY <1>3, <1>9 DEF ReadAnswer
  <2>2. /\ decode_response(m).client_id[1] \in Nat
        /\ AnswerFor(k, m) =>
             /\ decode_response(m).client_id[1] <= Len(info)
             /\ info[decode_response(m).client_id[1]].pid = Pid(k)
    BY <1>3, <1>9, AnswerRead
  <2>3. /\ reg' \in [Clients -> Entry] /\ Rest(k) /\ reg'[k].pc = "out"
        /\ reg'[k].met = reg[k].met /\ reg'[k].id = decode_response(m).client_id[1]
    BY <2>1, <2>2, EntryUpdates
  <2>4. Types'
    BY <1>1, <1>5, <2>3 DEF Types, ClientAlone, Entry
  <2>5. QED
    BY <1>1, <1>3, <1>5, <1>6, <1>7, <1>8, <2>2, <2>3, <2>4
<1>10. CASE ~(response_error(m) = "none" /\ decode_response(m).status = STATUS_OK)
  <2>1. Fails(k)
    BY <1>3, <1>10 DEF ReadAnswer
  <2>2. reg' \in [Clients -> Entry] /\ LeavesIn(k) /\ reg'[k].pc = "out"
    BY <2>1, EntryUpdates
  <2>3. Types'
    BY <1>1, <1>5, <2>2 DEF Types, ClientAlone, Entry
  <2>4. QED
    BY <1>1, <1>3, <1>5, <1>6, <1>7, <1>8, <2>2, <2>3 DEF LeavesIn
<1>11. QED
  BY <1>9, <1>10

(* AnswerTimeout and AnswerTimeoutEarly.                                      *)
LEMMA GivesUpStep ==
  ASSUME NEW k \in Clients
  PROVE  Types /\ Counts /\ GivesUp(k) =>
    /\ Types' /\ Counts' /\ ClientAlone /\ SameRings /\ LeavesIn(k)
    /\ reg[k].pc = "answer" /\ shm.s2c.msgs = <<>>
    /\ QueueEmpty(shm.c2s) <=> shm.c2s.msgs = <<>>
    /\ shm'.client_state = "IDLE" /\ shm'.connect_ack = shm.connect_ack
<1> HAVE Types /\ Counts /\ GivesUp(k)
<1>1. shm \in Sections /\ reg[k].pc = "answer" /\ QueueEmpty(shm.s2c) /\ ClientAlone
  BY DEF Types, GivesUp, ClientAlone
<1>2. shm.s2c.msgs = <<>> /\ (QueueEmpty(shm.c2s) <=> shm.c2s.msgs = <<>>)
  <2>1. /\ shm.s2c \in Rings(Answers) /\ Exact(shm.s2c)
        /\ shm.c2s \in Rings(Requests) /\ Exact(shm.c2s)
    BY <1>1, SectionFields DEF Counts, Exact
  <2>2. QED
    BY <1>1, <2>1, ReadOp
<1>3. /\ shm' \in Sections /\ SameRings /\ shm'.client_state = "IDLE"
      /\ shm'.connect_ack = shm.connect_ack /\ shm'.server_state = shm.server_state
  BY <1>1 DEF GivesUp, DropClient, Sections, SameRings
<1>4. reg' \in [Clients -> Entry] /\ LeavesIn(k)
  BY EntryUpdates DEF GivesUp
<1>5. Types'
  BY <1>1, <1>3, <1>4 DEF Types, ClientAlone, Entry
<1>6. Counts'
  BY <1>1, <1>3 DEF Counts, ClientAlone, SameRings
<1>7. QED
  BY <1>1, <1>2, <1>3, <1>4, <1>5, <1>6

LEMMA CrashStep ==
  ASSUME NEW k \in Clients
  PROVE  Types /\ Counts /\ Crash(k) =>
    /\ Types' /\ Counts' /\ ClientAlone /\ shm' = shm /\ LeavesIn(k)
    /\ Inside(k) /\ fault = "none" /\ fault' = "crash"
<1> HAVE Types /\ Counts /\ Crash(k)
<1>1. /\ reg \in [Clients -> Entry] /\ ClientAlone /\ shm' = shm /\ Inside(k)
      /\ fault = "none" /\ fault' = "crash"
  BY DEF Types, Entry, Crash, ClientAlone, Happens
<1>2. reg' \in [Clients -> Entry] /\ LeavesIn(k)
  BY <1>1 DEF Crash, LeavesIn, Rest, Entry, Stages
<1>3. Types'
  BY <1>1, <1>2 DEF Types, ClientAlone, Entry
<1>4. Counts'
  BY <1>1 DEF Counts, ClientAlone
<1>5. QED
  BY <1>1, <1>2, <1>3, <1>4

----------------------------------------------------------------------------
(* An acknowledgement goes to one who waits for it, and an answer is for one  *)
(* who awaits it, as long as no client leaves when it should not.             *)
LobbySteps == LobbyStep \/ Stop \/ Reject \/ ReplyFails \/ ServeTimeoutEarly

LEMMA AckByLobby ==
  Types /\ Counts /\ Acknowledged /\ LobbySteps => Acknowledged'
<1> HAVE Types /\ Counts /\ Acknowledged /\ LobbySteps
<1>1. /\ reg' = reg
      /\ shm'.connect_ack \/ Due' => shm.connect_ack \/ Due
      /\ shm'.connect_ack /\ Due' => shm.connect_ack /\ Due
  <2> USE DEF LobbyAlone
  <2>1. CASE CreateLobby
    BY <2>1, CreateStep DEF Due
  <2>2. CASE TakeRequest
    BY <2>2, TakeRequestStep DEF Due
  <2>3. CASE AckRequest
    BY <2>3, AckRequestStep DEF Due
  <2>4. CASE ReadRequest
    BY <2>4, ReadRequestStep DEF Due, SameStates
  <2>5. CASE Reply \/ Reject
    BY <2>5, AnswerStep DEF Due, SameStates
  <2>6. CASE ServeTimeout \/ ServeTimeoutEarly \/ ReplyFails
    BY <2>6, LeaveStep DEF Due, SameStates
  <2>7. CASE Mark
    BY <2>7, MarkStep DEF Due
  <2>8. CASE LobbyEnds
    BY <2>8, EndStep DEF Due, SameStates
  <2>9. CASE Stop
    BY <2>9, StopStep DEF Due
  <2>10. QED
    BY <2>1, <2>2, <2>3, <2>4, <2>5, <2>6, <2>7, <2>8, <2>9 DEF LobbySteps, LobbyStep
<1>2. QED
  BY <1>1 DEF Acknowledged, Waiting

(* The steps of a client that spoil nothing.                                  *)
LEMMA AckByClient ==
  ASSUME NEW k \in Clients
  PROVE  /\ Types /\ Counts /\ Acknowledged
         /\ \/ ClientStep(k) \/ Connect(k) \/ SendGarbage(k) \/ AnswerTimeoutEarly(k)
            \/ Crash(k) /\ ~Waiting(k)
         => Acknowledged'
<1> HAVE /\ Types /\ Counts /\ Acknowledged
         /\ \/ ClientStep(k) \/ Connect(k) \/ SendGarbage(k) \/ AnswerTimeoutEarly(k)
            \/ Crash(k) /\ ~Waiting(k)
<1> USE DEF Waiting, Due
<1>1. CASE Connect(k)
  <2>1. /\ ~Waiting(k) /\ lobby' = lobby /\ shm'.connect_ack = shm.connect_ack
        /\ \A j \in Clients : Waiting(j) => Waiting(j)'
    BY <1>1, ConnectStep DEF ClientAlone
  <2>2. CASE reg'[k].pc = "req"
    <3>1. Waiting(k)'
      BY <2>2
    <3>2. ASSUME shm'.connect_ack
          PROVE  \E i, j \in Clients : i # j /\ Waiting(i)' /\ Waiting(j)'
      <4>1. PICK i \in Clients : Waiting(i)
        BY <2>1, <3>2 DEF Acknowledged
      <4>2. i # k /\ Waiting(i)'
        BY <2>1, <4>1
      <4>3. QED
        BY <3>1, <4>2
    <3>3. QED
      BY <3>1, <3>2 DEF Acknowledged
  <2>3. CASE reg'[k].pc # "req"
    <3>1. shm'.client_state = shm.client_state
      BY <1>1, <2>3, ConnectStep
    <3>2. QED
      BY <2>1, <3>1 DEF Acknowledged
  <2>4. QED
    BY <2>2, <2>3
<1>2. CASE SetRequest(k)
  <2>1. /\ lobby' = lobby /\ SameStates /\ \A j \in Clients : Waiting(j) => Waiting(j)'
    BY <1>2, SetRequestStep DEF ClientAlone, Rest
  <2>2. QED
    BY <2>1 DEF Acknowledged, SameStates
<1>3. CASE TakeAck(k)
  <2>1. /\ lobby' = lobby /\ shm.connect_ack /\ ~shm'.connect_ack
        /\ \A j \in Clients \ {k} : Waiting(j) => Waiting(j)'
        /\ Due' => Due
    BY <1>3, TakeAckStep DEF ClientAlone, Rest
  <2>2. ASSUME Due'
        PROVE  \E i \in Clients : Waiting(i)'
    <3>1. PICK i, j \in Clients : i # j /\ Waiting(i) /\ Waiting(j)
      BY <2>1, <2>2 DEF Acknowledged
    <3>2. i # k \/ j # k
      BY <3>1
    <3>3. QED
      BY <2>1, <3>1, <3>2
  <2>3. QED
    BY <2>1, <2>2 DEF Acknowledged
<1>4. CASE TimesOut(k)
  <2>1. /\ lobby' = lobby /\ ~shm'.connect_ack /\ shm'.client_state = "IDLE"
    BY <1>4, AckMissedStep DEF TimesOut, ClientAlone
  <2>2. lobby.pc # "ready"
    BY <1>4 DEF TimesOut, NobodyAnswers
  <2>3. QED
    BY <2>1, <2>2 DEF Acknowledged
<1>5. CASE SendRequest(k) \/ SendGarbage(k)
  <2>1. /\ lobby' = lobby /\ SameStates /\ \A j \in Clients : Waiting(j) => Waiting(j)'
    BY <1>5, SendStep DEF ClientAlone, Rest
  <2>2. QED
    BY <2>1 DEF Acknowledged, SameStates
<1>6. CASE ReadAnswer(k)
  <2>1. /\ lobby' = lobby /\ shm'.connect_ack = shm.connect_ack /\ shm'.client_state = "IDLE"
        /\ \A j \in Clients : Waiting(j) => Waiting(j)'
    BY <1>6, ReadAnswerStep DEF ClientAlone, Rest
  <2>2. QED
    BY <2>1 DEF Acknowledged
<1>7. CASE AnswerTimeout(k) \/ AnswerTimeoutEarly(k)
  <2>1. /\ lobby' = lobby /\ shm'.connect_ack = shm.connect_ack /\ shm'.client_state = "IDLE"
        /\ \A j \in Clients : Waiting(j) => Waiting(j)'
    BY <1>7, GivesUpStep DEF ClientAlone, Rest, LeavesIn, AnswerTimeout, AnswerTimeoutEarly
  <2>2. QED
    BY <2>1 DEF Acknowledged
<1>8. CASE Crash(k) /\ ~Waiting(k)
  <2>1. lobby' = lobby /\ shm' = shm /\ \A j \in Clients : Waiting(j) => Waiting(j)'
    BY <1>8, CrashStep DEF ClientAlone, Rest, LeavesIn
  <2>2. QED
    BY <2>1 DEF Acknowledged
<1>9. QED
  BY <1>1, <1>2, <1>3, <1>4, <1>5, <1>6, <1>7, <1>8 DEF ClientStep

LEMMA AnsweredByLobby ==
  Types /\ Counts /\ Answered /\ LobbySteps => Answered'
<1> HAVE Types /\ Counts /\ Answered /\ LobbySteps
<1>1. reg' = reg /\ (Clean => Clean')
  <2> USE DEF LobbyAlone
  <2>1. CASE CreateLobby
    BY <2>1, CreateStep DEF Clean
  <2>2. CASE TakeRequest
    BY <2>2, TakeRequestStep DEF Clean, SameRings
  <2>3. CASE AckRequest
    BY <2>3, AckRequestStep DEF Clean, SameRings
  <2>4. CASE ReadRequest
    <3>1. lobby.pc = "serve" /\ 1 \in 1..Len(shm.c2s.msgs) /\ reg' = reg
      BY <2>4, ReadRequestStep
    <3>2. shm.c2s.msgs # <<>>
      BY <3>1
    <3>3. QED
      BY <3>1, <3>2 DEF Clean
  <2>5. CASE Reply \/ Reject
    <3>1. lobby.pc = "reply" /\ reg' = reg
      BY <2>5, AnswerStep
    <3>2. QED
      BY <3>1 DEF Clean
  <2>6. CASE ServeTimeout \/ ServeTimeoutEarly \/ ReplyFails
    BY <2>6, LeaveStep DEF Clean, SameRings
  <2>7. CASE Mark
    BY <2>7, MarkStep DEF Clean, SameRings
  <2>8. CASE LobbyEnds
    BY <2>8, EndStep DEF Clean, SameRings
  <2>9. CASE Stop
    BY <2>9, StopStep DEF Clean
  <2>10. QED
    BY <2>1, <2>2, <2>3, <2>4, <2>5, <2>6, <2>7, <2>8, <2>9 DEF LobbySteps, LobbyStep
<1>2. QED
  BY <1>1 DEF Answered

LEMMA AnsweredByClient ==
  ASSUME NEW k \in Clients
  PROVE  /\ Types /\ Counts /\ Answered
         /\ \/ ClientStep(k) \/ Connect(k) \/ SendGarbage(k) \/ TimesOutEarly(k)
            \/ Crash(k) /\ reg[k].pc # "answer"
         => Answered'
<1> HAVE /\ Types /\ Counts /\ Answered
         /\ \/ ClientStep(k) \/ Connect(k) \/ SendGarbage(k) \/ TimesOutEarly(k)
            \/ Crash(k) /\ reg[k].pc # "answer"
<1> DEFINE Kept == /\ lobby' = lobby /\ SameRings
                   /\ \A j \in Clients : reg[j].pc = "answer" => reg'[j].pc = "answer"
<1>1. Kept => Answered'
  BY DEF Answered, Clean, SameRings
<1>2. CASE Connect(k)
  <2>1. Kept
    BY <1>2, ConnectStep DEF ClientAlone
  <2>2. QED
    BY <1>1, <2>1
<1>3. CASE SetRequest(k)
  <2>1. Kept
    BY <1>3, SetRequestStep DEF ClientAlone, Rest
  <2>2. QED
    BY <1>1, <2>1
<1>4. CASE TakeAck(k)
  <2>1. Kept
    BY <1>4, TakeAckStep DEF ClientAlone, Rest
  <2>2. QED
    BY <1>1, <2>1
<1>5. CASE TimesOut(k) \/ TimesOutEarly(k)
  <2>1. Kept
    BY <1>5, AckMissedStep DEF ClientAlone, Rest, LeavesIn, TimesOut, TimesOutEarly
  <2>2. QED
    BY <1>1, <2>1
<1>6. CASE SendRequest(k) \/ SendGarbage(k)
  <2>1. reg'[k].pc = "answer"
    BY <1>6, SendStep
  <2>2. QED
    BY <2>1 DEF Answered
<1>7. CASE ReadAnswer(k)
  <2>1. lobby' = lobby /\ shm'.s2c.msgs = <<>> /\ lobby.pc \notin {"ready", "serve", "reply"}
    BY <1>7, ReadAnswerStep DEF ClientAlone
  <2>2. Clean'
    BY <2>1 DEF Clean
  <2>3. QED
    BY <2>2 DEF Answered
<1>8. CASE AnswerTimeout(k)
  <2>1. /\ lobby' = lobby /\ SameRings /\ shm.s2c.msgs = <<>>
        /\ QueueEmpty(shm.c2s) <=> shm.c2s.msgs = <<>>
    BY <1>8, GivesUpStep DEF AnswerTimeout, ClientAlone
  <2>2. ~AnswerComes
    BY <1>8 DEF AnswerTimeout
  <2>3. Clean'
    BY <2>1, <2>2 DEF Clean, AnswerComes, SameRings
  <2>4. QED
    BY <2>3 DEF Answered
<1>9. CASE Crash(k) /\ reg[k].pc # "answer"
  <2>1. Kept
    BY <1>9, CrashStep DEF ClientAlone, Rest, LeavesIn, SameRings
  <2>2. QED
    BY <1>1, <2>1
<1>10. QED
  BY <1>2, <1>3, <1>4, <1>5, <1>6, <1>7, <1>8, <1>9 DEF ClientStep

(* One fault spoils one of the two.                                           *)
ClientSteps(k) ==
  \/ ClientStep(k) \/ Connect(k) \/ Crash(k)
  \/ TimesOutEarly(k) \/ AnswerTimeoutEarly(k) \/ SendGarbage(k)

LEMMA HealthKept ==
  Types /\ Counts /\ Health /\ (LobbySteps \/ \E k \in Clients : ClientSteps(k)) => Health'
<1> HAVE Types /\ Counts /\ Health /\ (LobbySteps \/ \E k \in Clients : ClientSteps(k))
<1>1. CASE LobbySteps
  <2>1. (Acknowledged => Acknowledged') /\ (Answered => Answered')
    BY <1>1, AckByLobby, AnsweredByLobby
  <2>2. fault' = fault \/ fault = "none"
    BY <1>1, CreateStep, TakeRequestStep, AckRequestStep, ReadRequestStep, AnswerStep, LeaveStep,
       MarkStep, EndStep, StopStep, Zenon DEF LobbySteps, LobbyStep
  <2>3. QED
    BY <2>1, <2>2 DEF Health
<1>2. ASSUME NEW k \in Clients, ClientSteps(k)
      PROVE  Health'
  <2>1. CASE ClientStep(k) \/ Connect(k) \/ SendGarbage(k)
    <3>1. (Acknowledged => Acknowledged') /\ (Answered => Answered')
      BY <2>1, AckByClient, AnsweredByClient
    <3>2. fault' = fault \/ fault = "none"
      BY <2>1, SetRequestStep, TakeAckStep, SendStep, ReadAnswerStep, ConnectStep, Zenon
         DEF ClientStep, TimesOut, AnswerTimeout
    <3>3. QED
      BY <3>1, <3>2 DEF Health
  <2>2. CASE TimesOutEarly(k)
    <3>1. fault = "none" /\ fault' = "timeout"
      BY <2>2 DEF TimesOutEarly, Happens
    <3>2. Answered => Answered'
      BY <2>2, AnsweredByClient
    <3>3. QED
      BY <3>1, <3>2 DEF Health
  <2>3. CASE AnswerTimeoutEarly(k)
    <3>1. fault = "none" /\ fault' = "timeout"
      BY <2>3 DEF AnswerTimeoutEarly, Happens
    <3>2. Acknowledged => Acknowledged'
      BY <2>3, AckByClient
    <3>3. QED
      BY <3>1, <3>2 DEF Health
  <2>4. CASE Crash(k)
    <3>1. fault = "none" /\ fault' = "crash"
      BY <2>4, CrashStep
    <3>2. \/ Acknowledged => Acknowledged'
          \/ Answered => Answered'
      <4>1. ~Waiting(k) \/ reg[k].pc # "answer"
        BY DEF Waiting
      <4>2. QED
        BY <2>4, <4>1, AckByClient, AnsweredByClient
    <3>3. QED
      BY <3>1, <3>2 DEF Health
  <2>5. QED
    BY <1>2, <2>1, <2>2, <2>3, <2>4 DEF ClientSteps
<1>3. QED
  BY <1>1, <1>2

----------------------------------------------------------------------------
(* A client alone in the lobby.                                               *)
LEMMA SolitaryByLobby ==
  ASSUME NEW k \in Clients
  PROVE  Types /\ Counts /\ Solitary(k) /\ LobbySteps => Solitary(k)'
<1> SUFFICES ASSUME Types, Counts, Solitary(k), LobbySteps, Inside(k)', ~(reg[k].met)'
             PROVE  /\ Alone(k)'
                    /\ LetIn(k)' => Clean'
                    /\ (reg[k].pc = "answer")' => Own(k)'
  BY DEF Solitary
<1>1. reg' = reg
  BY CreateStep, TakeRequestStep, AckRequestStep, ReadRequestStep, AnswerStep, LeaveStep,
     MarkStep, EndStep, StopStep DEF LobbySteps, LobbyStep, LobbyAlone
<1>2. /\ Inside(k) /\ Alone(k) /\ Alone(k)'
      /\ LetIn(k) => Clean
      /\ reg[k].pc = "answer" => Own(k)
  BY <1>1 DEF Solitary, Inside, Alone
<1>3. SectionExists
  BY <1>2 DEF SectionExists
<1> USE DEF LobbyAlone
<1>4. CASE CreateLobby
  BY <1>3, <1>4, CreateStep
<1>5. CASE TakeRequest
  <2>1. CASE lobby'.pc = "ready"
    <3>1. shm'.c2s.msgs = <<>> /\ shm'.s2c.msgs = <<>>
      BY <1>5, <2>1, TakeRequestStep
    <3>2. Len(<<>>) = 0
      OBVIOUS
    <3>3. Clean'
      BY <2>1, <3>1 DEF Clean
    <3>4. Own(k)'
      BY <2>1, <3>1, <3>2 DEF Own
    <3>5. QED
      BY <1>2, <3>3, <3>4
  <2>2. CASE lobby'.pc # "ready"
    <3>1. /\ lobby'.pc = "start" /\ SameRings /\ LobbyAlone
          /\ shm'.server_state = "IDLE"
      BY <1>5, <2>2, TakeRequestStep
    <3>2. LetIn(k)' => LetIn(k)
      BY <1>1, <3>1 DEF LetIn
    <3>3. Clean => Clean'
      BY <3>1 DEF Clean, SameRings
    <3>4. Own(k) => Own(k)'
      BY <3>1 DEF Own, SameRings, AnswerFor
    <3>5. QED
      BY <1>1, <1>2, <3>2, <3>3, <3>4
  <2>3. QED
    BY <2>1, <2>2
<1>6. CASE AckRequest
  <2>1. /\ LobbyAlone /\ SameRings /\ lobby.pc = "ready" /\ lobby'.pc = "serve"
    BY <1>6, AckRequestStep
  <2>2. LetIn(k)' => LetIn(k)
    BY <1>1, <2>1 DEF LetIn, Waiting
  <2>3. Clean => Clean'
    BY <2>1 DEF Clean, SameRings
  <2>4. Own(k) => Own(k)'
    BY <2>1 DEF Own, SameRings, AnswerFor
  <2>5. QED
    BY <1>1, <1>2, <2>2, <2>3, <2>4
<1>7. CASE ReadRequest
  <2>1. /\ SameStates /\ shm'.s2c.msgs = <<>>
        /\ lobby.pc = "serve" /\ lobby'.pc \in {"reply", "mark"}
        /\ 1 \in 1..Len(shm.c2s.msgs)
    BY <1>7, ReadRequestStep
  <2>2. shm.c2s.msgs # <<>>
    BY <2>1
  <2>3. ~Clean /\ ~LetIn(k)
    BY <1>2, <2>1, <2>2 DEF Clean
  <2>4. ~LetIn(k)'
    BY <1>1, <2>1, <2>3 DEF LetIn, SameStates, Waiting
  <2>5. ASSUME reg[k].pc = "answer"
        PROVE  Own(k)'
    <3>1. \A i \in 1..Len(shm'.s2c.msgs) : AnswerFor(k, shm.s2c.msgs[i])'
      <4>1. Len(<<>>) = 0
        OBVIOUS
      <4>2. QED
        BY <2>1, <4>1
    <3>2. CASE lobby'.pc = "reply"
      <4> DEFINE m == shm.c2s.msgs[1]
                 x == decode_request(m)
      <4>1. m \in RequestsOf(k)
        BY <1>2, <2>1, <2>5 DEF Own
      <4>2. request_error(m) = "none" /\ info' = Append(info, x)
        BY <1>7, <3>2, ReadRequestStep
      <4>3. x \in Infos /\ x.pid = Pid(k)
        BY <4>1, <4>2, RequestRead
      <4> HIDE DEF x
      <4>4. /\ Len(info') = Len(info) + 1 /\ Len(info') # 0
            /\ info'[Len(info')] = x
        <5>1. info \in Seq(Infos) /\ Len(info) \in Nat
          BY LenProperties DEF Types
        <5>2. QED
          BY <4>2, <4>3, <5>1
      <4>5. QED
        BY <3>1, <3>2, <4>3, <4>4 DEF Own
    <3>3. CASE lobby'.pc = "mark"
      BY <3>1, <3>3 DEF Own
    <3>4. QED
      BY <2>1, <3>2, <3>3
  <2>6. QED
    BY <1>1, <1>2, <2>4, <2>5
<1>8. CASE Reply \/ Reject
  <2>1. /\ SameStates /\ LobbyAlone /\ lobby.pc = "reply" /\ lobby'.pc = "mark"
    BY <1>8, AnswerStep
  <2>2. ~LetIn(k)
    BY <1>2, <2>1 DEF Clean
  <2>3. ~LetIn(k)'
    BY <1>1, <2>1, <2>2 DEF LetIn, SameStates, Waiting
  <2>4. ASSUME reg[k].pc = "answer"
        PROVE  Own(k)'
    <3>1. Len(info) # 0 /\ info[Len(info)].pid = Pid(k)
      BY <1>2, <2>1, <2>4 DEF Own
    <3>2. PICK m : /\ shm'.s2c.msgs = <<m>>
                   /\ m = Serving(Len(info), STATUS_OK) \/ m = Serving(0, STATUS_REJECTED)
      BY <1>8, AnswerStep
    <3>3. Len(info) \in 1..Len(info)
      <4>1. Len(info) \in Nat
        BY LenProperties DEF Types
      <4>2. QED
        BY <3>1, <4>1
    <3>4. AnswerFor(k, m)
      BY <3>1, <3>2, <3>3 DEF AnswerFor
    <3>5. AnswerFor(k, m)'
      BY <2>1, <3>4 DEF AnswerFor
    <3>6. \A i \in 1..Len(shm'.s2c.msgs) : shm'.s2c.msgs[i] = m
      BY <3>2
    <3>7. QED
      BY <2>1, <3>5, <3>6 DEF Own
  <2>5. QED
    BY <1>1, <1>2, <2>3, <2>4
<1>9. CASE ServeTimeout \/ ServeTimeoutEarly \/ ReplyFails \/ Mark \/ LobbyEnds \/ Stop
  <2>1. /\ LobbyAlone /\ SameRings
        /\ shm'.server_state = "IDLE" \/ SameStates
        /\ lobby'.pc \in {"mark", "wait", "start", "done"} \/ lobby'.pc = lobby.pc
        /\ lobby'.pc # "reply" \/ lobby.pc = "reply"
    BY <1>9, LeaveStep, MarkStep, EndStep, StopStep DEF SameRings, SameStates
  <2>2. LetIn(k)' => LetIn(k)
    BY <1>1, <2>1 DEF LetIn, Waiting, SameStates
  <2>3. Clean => Clean'
    BY <2>1 DEF Clean, SameRings
  <2>4. Own(k) => Own(k)'
    BY <2>1 DEF Own, SameRings, AnswerFor
  <2>5. QED
    BY <1>1, <1>2, <2>2, <2>3, <2>4
<1>10. QED
  BY <1>4, <1>5, <1>6, <1>7, <1>8, <1>9 DEF LobbySteps, LobbyStep

LEMMA SolitaryByItself ==
  ASSUME NEW k \in Clients
  PROVE  Types /\ Counts /\ Health /\ Solitary(k) /\ ClientSteps(k) => Solitary(k)'
<1> SUFFICES ASSUME Types, Counts, Health, Solitary(k), ClientSteps(k),
                    Inside(k)', ~(reg[k].met)'
             PROVE  /\ Alone(k)'
                    /\ LetIn(k)' => Clean'
                    /\ (reg[k].pc = "answer")' => Own(k)'
  BY DEF Solitary
<1>1. CASE Connect(k)
  <2>1. reg'[k].pc # "out"
    BY DEF Inside
  <2>2. /\ reg'[k].pc = "req" /\ reg[k].pc = "out" /\ \A j \in Clients : ~Inside(j)
        /\ \A j \in Clients \ {k} : reg'[j].pc = reg[j].pc
        /\ ClientAlone /\ SameRings
        /\ shm'.connect_ack = shm.connect_ack /\ shm'.server_state = shm.server_state
    BY <1>1, <2>1, ConnectStep
  <2>3. Alone(k)'
    BY <2>2 DEF Alone, Inside
  <2>4. LetIn(k)' => Clean'
    <3>1. \A i \in Clients : ~Waiting(i) /\ reg[i].pc # "answer"
      BY <2>2 DEF Inside, Waiting
    <3>2. CASE Answered
      BY <2>2, <3>1, <3>2 DEF Answered, Clean, SameRings, ClientAlone
    <3>3. CASE Acknowledged
      <4>1. ~shm.connect_ack /\ lobby.pc # "ready"
        BY <3>1, <3>3 DEF Acknowledged, Due
      <4>2. QED
        BY <2>2, <4>1 DEF LetIn, ClientAlone
    <3>4. QED
      BY <3>2, <3>3 DEF Health
  <2>5. QED
    BY <2>2, <2>3, <2>4
<1>2. ASSUME ~Connect(k)
      PROVE  /\ lobby' = lobby /\ info' = info /\ Rest(k) /\ reg'[k].met = reg[k].met
             /\ \/ SetRequest(k)
                \/ TakeAck(k) /\ shm.server_state = "READY"
                \/ SendRequest(k) \/ SendGarbage(k)
  <2>1. ~LeavesIn(k) /\ reg'[k].pc # "out"
    BY DEF LeavesIn, Inside
  <2>2. ~(TimesOut(k) \/ TimesOutEarly(k))
    BY <2>1, AckMissedStep DEF TimesOut, TimesOutEarly
  <2>3. ~(AnswerTimeout(k) \/ AnswerTimeoutEarly(k))
    BY <2>1, GivesUpStep DEF AnswerTimeout, AnswerTimeoutEarly
  <2>4. ~Crash(k) /\ ~ReadAnswer(k)
    BY <2>1, CrashStep, ReadAnswerStep
  <2>5. CASE SetRequest(k)
    BY <2>5, SetRequestStep DEF ClientAlone
  <2>6. CASE TakeAck(k)
    BY <2>1, <2>6, TakeAckStep DEF ClientAlone
  <2>7. CASE SendRequest(k) \/ SendGarbage(k)
    BY <2>7, SendStep DEF ClientAlone
  <2>8. QED
    BY <1>2, <2>2, <2>3, <2>4, <2>5, <2>6, <2>7 DEF ClientSteps, ClientStep
<1>3. ASSUME ~Connect(k), Inside(k)
      PROVE  /\ Alone(k) /\ Alone(k)'
             /\ LetIn(k) => Clean
             /\ reg[k].pc = "answer" => Own(k)
  <2>1. /\ Alone(k)
        /\ LetIn(k) => Clean
        /\ reg[k].pc = "answer" => Own(k)
    BY <1>2, <1>3 DEF Solitary
  <2>2. Alone(k)'
    BY <1>2, <1>3, <2>1 DEF Alone, Inside, Rest
  <2>3. QED
    BY <2>1, <2>2
<1>4. CASE SetRequest(k)
  <2>1. /\ SameRings /\ SameStates /\ lobby' = lobby
        /\ reg[k].pc = "req" /\ reg'[k].pc = "wait"
    BY <1>4, SetRequestStep DEF ClientAlone
  <2>2. Inside(k) /\ ~Connect(k)
    BY <2>1 DEF Inside, Connect
  <2>3. LetIn(k)' => LetIn(k)
    BY <2>1 DEF LetIn, Waiting, SameStates
  <2>4. Clean => Clean'
    BY <2>1 DEF Clean, SameRings
  <2>5. QED
    BY <1>3, <2>1, <2>2, <2>3, <2>4
<1>5. CASE TakeAck(k) /\ shm.server_state = "READY"
  <2>1. /\ SameRings /\ lobby' = lobby /\ shm.connect_ack
        /\ reg[k].pc = "wait" /\ reg'[k].pc \in {"send", "out"}
    BY <1>5, TakeAckStep DEF ClientAlone
  <2>2. Inside(k) /\ ~Connect(k)
    BY <2>1 DEF Inside, Connect
  <2>3. LetIn(k)
    BY <1>5, <2>1 DEF LetIn, Waiting
  <2>4. Clean => Clean'
    BY <2>1 DEF Clean, SameRings
  <2>5. QED
    BY <1>3, <2>1, <2>2, <2>3, <2>4
<1>6. CASE SendRequest(k) \/ SendGarbage(k)
  <2>1. /\ shm'.s2c = shm.s2c /\ lobby' = lobby
        /\ reg[k].pc = "send" /\ reg'[k].pc = "answer"
        /\ shm.c2s.msgs = <<>> => \E m \in RequestsOf(k) : shm'.c2s.msgs = <<m>>
    BY <1>6, SendStep DEF ClientAlone
  <2>2. Inside(k) /\ ~Connect(k)
    BY <2>1 DEF Inside, Connect
  <2>3. Clean
    BY <1>3, <2>1, <2>2 DEF LetIn
  <2>4. ~LetIn(k)'
    BY <2>1 DEF LetIn, Waiting
  <2>5. Own(k)'
    <3>1. \A i \in 1..Len(shm'.s2c.msgs) : AnswerFor(k, shm.s2c.msgs[i])'
      <4>1. Len(<<>>) = 0 /\ shm'.s2c.msgs = <<>>
        BY <2>1, <2>3 DEF Clean
      <4>2. QED
        BY <4>1
    <3>2. lobby'.pc # "reply"
      BY <2>1, <2>3 DEF Clean
    <3>3. ASSUME lobby'.pc \in {"ready", "serve"}
          PROVE  \A i \in 1..Len(shm'.c2s.msgs) : shm'.c2s.msgs[i] \in RequestsOf(k)
      <4>1. shm.c2s.msgs = <<>>
        BY <2>1, <2>3, <3>3 DEF Clean
      <4>2. PICK m \in RequestsOf(k) : shm'.c2s.msgs = <<m>>
        BY <2>1, <4>1
      <4>3. QED
        BY <4>2
    <3>4. QED
      BY <3>1, <3>2, <3>3 DEF Own
  <2>6. QED
    BY <1>3, <2>2, <2>4, <2>5
<1>7. QED
  BY <1>1, <1>2, <1>4, <1>5, <1>6

LEMMA SolitaryByOther ==
  ASSUME NEW k \in Clients, NEW j \in Clients \ {k}
  PROVE  Types /\ Counts /\ Solitary(k) /\ ClientSteps(j) => Solitary(k)'
<1> SUFFICES ASSUME Types, Counts, Solitary(k), ClientSteps(j), Inside(k)', ~(reg[k].met)'
             PROVE  FALSE
  BY DEF Solitary
<1>1. CASE Connect(j)
  <2>1. reg'[k].pc = reg[k].pc
    BY <1>1, ConnectStep
  <2>2. Inside(k)
    BY <2>1 DEF Inside
  <2>3. QED
    BY <1>1, <2>2, ConnectStep
<1>2. CASE ~Connect(j)
  <2>1. reg'[k] = reg[k] /\ Inside(j)
    <3>1. CASE SetRequest(j)
      BY <3>1, SetRequestStep DEF Rest, Inside
    <3>2. CASE TakeAck(j)
      BY <3>2, TakeAckStep DEF Rest, Inside
    <3>3. CASE TimesOut(j) \/ TimesOutEarly(j)
      BY <3>3, AckMissedStep DEF TimesOut, TimesOutEarly, LeavesIn, Rest, Inside
    <3>4. CASE SendRequest(j) \/ SendGarbage(j)
      BY <3>4, SendStep DEF Rest, Inside
    <3>5. CASE ReadAnswer(j)
      BY <3>5, ReadAnswerStep DEF Rest, Inside
    <3>6. CASE AnswerTimeout(j) \/ AnswerTimeoutEarly(j)
      BY <3>6, GivesUpStep DEF AnswerTimeout, AnswerTimeoutEarly, LeavesIn, Rest, Inside
    <3>7. CASE Crash(j)
      BY <3>7, CrashStep DEF LeavesIn, Rest
    <3>8. QED
      BY <1>2, <3>1, <3>2, <3>3, <3>4, <3>5, <3>6, <3>7 DEF ClientSteps, ClientStep
  <2>2. Inside(k) /\ ~reg[k].met
    BY <2>1 DEF Inside
  <2>3. QED
    BY <2>1, <2>2 DEF Solitary, Alone
<1>3. QED
  BY <1>1, <1>2

(* The id that a client got stays its own.                                    *)
LEMMA RegisteredKept ==
  ASSUME NEW k \in Clients
  PROVE  /\ Types /\ Counts /\ Solitary(k) /\ Registered(k)
         /\ LobbySteps \/ \E j \in Clients : ClientSteps(j)
         => Registered(k)'
<1> HAVE /\ Types /\ Counts /\ Solitary(k) /\ Registered(k)
         /\ LobbySteps \/ \E j \in Clients : ClientSteps(j)
<1>0. reg[k].id \in Nat /\ info \in Seq(Infos) /\ Len(info) \in Nat
  <2>1. reg \in [Clients -> Entry] /\ info \in Seq(Infos)
    BY DEF Types, Entry
  <2>2. QED
    BY <2>1, LenProperties DEF Entry
<1>1. CASE LobbySteps
  <2>1. /\ reg' = reg
        /\ info' = info \/ \E x \in Infos : info' = Append(info, x)
    <3>1. CASE ReadRequest
      <4>1. reg' = reg
        BY <3>1, ReadRequestStep
      <4>2. info' \in Seq(Infos)
        BY <3>1, ReadRequestStep DEF Types
      <4>3. CASE info' = info
        BY <4>1, <4>3
      <4>4. CASE info' # info
        <5> DEFINE x == decode_request(shm.c2s.msgs[1])
        <5>1. info' = Append(info, x)
          BY <3>1, <4>4, ReadRequestStep
        <5> HIDE DEF x
        <5>2. x = info'[Len(info) + 1] /\ Len(info) + 1 \in 1..Len(info')
          BY <1>0, <5>1
        <5>3. x \in Infos
          BY <4>2, <5>2, ElementOfSeq
        <5>4. QED
          BY <4>1, <5>1, <5>3
      <4>5. QED
        BY <4>3, <4>4
    <3>2. CASE ~ReadRequest
      BY <1>1, <3>2, CreateStep, TakeRequestStep, AckRequestStep, AnswerStep, LeaveStep,
         MarkStep, EndStep, StopStep DEF LobbySteps, LobbyStep, LobbyAlone
    <3>3. QED
      BY <3>1, <3>2
  <2>2. CASE info' = info
    BY <2>1, <2>2 DEF Registered
  <2>3. ASSUME NEW x \in Infos, info' = Append(info, x)
        PROVE  Registered(k)'
    <3>1. \A n \in Nat : n # 0 /\ n <= Len(info) => n <= Len(info') /\ info'[n] = info[n]
      BY <1>0, <2>3
    <3>2. QED
      BY <1>0, <2>1, <3>1 DEF Registered
  <2>4. QED
    BY <2>1, <2>2, <2>3
<1>2. ASSUME NEW j \in Clients, ClientSteps(j)
      PROVE  Registered(k)'
  <2>1. CASE Connect(j)
    <3>1. /\ info' = info /\ reg'[k].id = reg[k].id
          /\ reg[k].id # 0 => reg'[k].pc = reg[k].pc /\ (reg[k].met => reg'[k].met)
      BY <2>1, ConnectStep DEF ClientAlone
    <3>2. QED
      BY <3>1 DEF Registered
  <2>2. CASE ReadAnswer(j) /\ j = k /\ ~LeavesIn(k)
    <3> DEFINE m == shm.s2c.msgs[1]
    <3>1. /\ info' = info /\ reg'[k].pc = "out" /\ reg'[k].met = reg[k].met
          /\ reg[k].pc = "answer" /\ 1 \in 1..Len(shm.s2c.msgs)
          /\ AnswerFor(k, m) => reg'[k].id <= Len(info) /\ info[reg'[k].id].pid = Pid(k)
      BY <2>2, ReadAnswerStep DEF ClientAlone
    <3>2. ~reg[k].met => AnswerFor(k, m)
      BY <3>1 DEF Solitary, Inside, Own
    <3>3. QED
      BY <3>1, <3>2 DEF Registered
  <2>3. CASE ~Connect(j) /\ ~(ReadAnswer(j) /\ j = k /\ ~LeavesIn(k))
    <3>1. /\ info' = info /\ Rest(j)
          /\ j = k => reg[k].pc # "out" /\ reg'[k].id = reg[k].id
      <4>1. CASE SetRequest(j)
        BY <4>1, SetRequestStep DEF ClientAlone
      <4>2. CASE TakeAck(j)
        BY <4>2, TakeAckStep DEF ClientAlone
      <4>3. CASE TimesOut(j) \/ TimesOutEarly(j)
        BY <4>3, AckMissedStep DEF TimesOut, TimesOutEarly, LeavesIn, ClientAlone
      <4>4. CASE SendRequest(j) \/ SendGarbage(j)
        BY <4>4, SendStep DEF ClientAlone
      <4>5. CASE ReadAnswer(j)
        BY <2>3, <4>5, ReadAnswerStep DEF ClientAlone, LeavesIn
      <4>6. CASE AnswerTimeout(j) \/ AnswerTimeoutEarly(j)
        BY <4>6, GivesUpStep DEF AnswerTimeout, AnswerTimeoutEarly, LeavesIn, ClientAlone
      <4>7. CASE Crash(j)
        BY <4>7, CrashStep DEF LeavesIn, ClientAlone, Inside
      <4>8. QED
        BY <1>2, <2>3, <4>1, <4>2, <4>3, <4>4, <4>5, <4>6, <4>7 DEF ClientSteps, ClientStep
    <3>2. CASE j = k
      BY <3>1, <3>2 DEF Registered
    <3>3. CASE j # k
      BY <3>1, <3>3 DEF Rest, Registered
    <3>4. QED
      BY <3>2, <3>3
  <2>4. QED
    BY <2>1, <2>2, <2>3
<1>3. QED
  BY <1>1, <1>2

----------------------------------------------------------------------------
LEMMA StepKinds == Next => LobbySteps \/ \E k \in Clients : ClientSteps(k)
  BY DEF Next, LobbySteps, ClientSteps

LEMMA TypesKept == Types /\ Counts /\ Next => Types' /\ Counts'
<1> HAVE Types /\ Counts /\ Next
<1>1. CASE LobbySteps
  BY <1>1, CreateStep, TakeRequestStep, AckRequestStep, ReadRequestStep, AnswerStep, LeaveStep,
     MarkStep, EndStep, StopStep DEF LobbySteps, LobbyStep
<1>2. ASSUME NEW k \in Clients, ClientSteps(k)
      PROVE  Types' /\ Counts'
  BY <1>2, ConnectStep, SetRequestStep, TakeAckStep, AckMissedStep, SendStep, ReadAnswerStep,
     GivesUpStep, CrashStep
     DEF ClientSteps, ClientStep, TimesOut, TimesOutEarly, AnswerTimeout, AnswerTimeoutEarly
<1>3. QED
  BY <1>1, <1>2, StepKinds

LEMMA Start == Init => IInv
<1> HAVE Init
<1>1. Len(<<>>) = 0 /\ <<>> \in Seq(Infos) /\ <<>> \in Seq(Requests) /\ <<>> \in Seq(Answers)
  OBVIOUS
<1>2. Fresh \in Sections
  BY <1>1 DEF Fresh, EmptyRing, Rings, Sections
<1>3. Types
  BY <1>1, <1>2 DEF Init, Types, Places, Stages
<1>4. Counts
  BY <1>1 DEF Init, Counts, Fresh, EmptyRing
<1>5. Health
  BY DEF Init, Health, Answered, Clean, Acknowledged, Due, Fresh, EmptyRing
<1>6. \A k \in Clients : Solitary(k) /\ Registered(k)
  BY DEF Init, Solitary, Registered, Inside
<1>7. QED
  BY <1>3, <1>4, <1>5, <1>6 DEF IInv, Guests

LEMMA Step == IInv /\ [Next]_vars => IInv'
<1> HAVE IInv /\ [Next]_vars
<1>1. Types /\ Counts /\ Health /\ \A k \in Clients : Solitary(k) /\ Registered(k)
  BY DEF IInv, Guests
<1>2. CASE Next
  <2>1. Types' /\ Counts' /\ Health'
    BY <1>1, <1>2, TypesKept, StepKinds, HealthKept
  <2>2. ASSUME NEW k \in Clients
        PROVE  Solitary(k)' /\ Registered(k)'
    <3>1. Registered(k)'
      BY <1>1, <1>2, StepKinds, RegisteredKept
    <3>2. CASE LobbySteps
      BY <1>1, <3>1, <3>2, SolitaryByLobby
    <3>3. ASSUME NEW j \in Clients, ClientSteps(j)
          PROVE  Solitary(k)'
      <4>1. CASE j = k
        BY <1>1, <3>3, <4>1, SolitaryByItself
      <4>2. CASE j # k
        BY <1>1, <3>3, <4>2, SolitaryByOther
      <4>3. QED
        BY <4>1, <4>2
    <3>4. QED
      BY <1>2, <3>1, <3>2, <3>3, StepKinds
  <2>3. QED
    BY <2>1, <2>2 DEF IInv, Guests
<1>3. CASE UNCHANGED vars
  BY <1>1, <1>3
     DEF vars, IInv, Guests, Types, Counts, Health, Answered, Clean, Acknowledged, Due, Waiting,
         Solitary, Inside, Alone, LetIn, Own, AnswerFor, Registered
<1>4. QED
  BY <1>2, <1>3

(* What holds of the lobby's rings, of its signals and of the client that is  *)
(* alone in it, for any number of clients, calls and faults of each kind.     *)
THEOREM Invariance == Spec => []IInv
<1>1. Init => IInv
  BY Start
<1>2. IInv /\ [Next]_vars => IInv'
  BY Step
<1>3. QED
  BY <1>1, <1>2, PTL DEF Spec

(* lobby_register returns the id that was given to the client's own           *)
(* registration, if no other client was in the lobby with it.                 *)
THEOREM AnswersAreOwn == Spec => []OwnAnswer
<1>1. IInv => OwnAnswer
  BY DEF IInv, Guests, OwnAnswer, Registered, Pid
<1>2. QED
  BY <1>1, Invariance, PTL
=============================================================================
