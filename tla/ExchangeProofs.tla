--------------------------- MODULE ExchangeProofs ---------------------------
(***************************************************************************)
(* What the modules the two sessions are built from guarantee: the         *)
(* decisions of RetryPolicy, the calls of UdpExchange and Keepalive, and   *)
(* the answers of AuthServer.                                              *)
(***************************************************************************)
EXTENDS ExchangeOrder, SequenceTheorems, TLAPS

-----------------------------------------------------------------------------
(* UdpExchange: the types. *)

(* Taking a datagram out of a queue leaves a queue of datagrams.           *)
LEMMA WithoutType ==
    ASSUME NEW S, NEW q \in Seq(S), NEW i \in DOMAIN q
    PROVE  Without(q, i) \in Seq(S)
<1>1. i \in 1 .. Len(q)
  BY LenProperties
<1>2. SubSeq(q, 1, i - 1) \in Seq(S) /\ SubSeq(q, i + 1, Len(q)) \in Seq(S)
  BY <1>1, SubSeqProperties
<1> QED
  BY <1>2, ConcatProperties DEF Without

(* Offering one to a bounded queue does too, whether it fits or is lost.   *)
LEMMA OfferType ==
    ASSUME NEW S, NEW q \in Seq(S), NEW d \in S, NEW cap
    PROVE  Offer(q, d, cap) \in Seq(S)
BY AppendProperties DEF Offer

(* Clearing the history bit changes no type.                               *)
LEMMA AgedRequests ==
    ASSUME NEW q \in Seq(Requests)
    PROVE  Aged(q) \in Seq(Requests)
<1>1. Len(q) \in Nat /\ DOMAIN q = 1 .. Len(q) /\ \A i \in 1 .. Len(q) : q[i] \in Requests
  BY LenProperties, ElementOfSeq
<1>2. \A i \in 1 .. Len(q) : [q[i] EXCEPT !.fresh = FALSE] \in Requests
  BY <1>1 DEF Requests
<1> QED
  BY <1>1, <1>2 DEF Aged

LEMMA AgedDatagrams ==
    ASSUME NEW q \in Seq(Datagrams)
    PROVE  Aged(q) \in Seq(Datagrams)
<1>1. Len(q) \in Nat /\ DOMAIN q = 1 .. Len(q) /\ \A i \in 1 .. Len(q) : q[i] \in Datagrams
  BY LenProperties, ElementOfSeq
<1>2. \A i \in 1 .. Len(q) : [q[i] EXCEPT !.fresh = FALSE] \in Datagrams
  BY <1>1 DEF Datagrams
<1> QED
  BY <1>1, <1>2 DEF Aged

(* The values the model's datagrams are made of.                           *)
LEMMA ByteValues ==
    /\ {0, 1, 2, 3, 4, 5, 6, 7} \subseteq Byte
    /\ Nonces \subseteq Echoes
    /\ {"data", "file", "other"} \subseteq Echoes
    /\ Counters \subseteq Byte
BY UdpAssumption DEF Byte, Echoes, Counters

(* A datagram built from well-typed parts is one.                          *)
LEMMA DatagramType ==
    ASSUME NEW from \in {"server", "other"}, NEW first \in Byte,
           NEW second \in Byte, NEW echo \in Echoes, NEW sixth \in Byte,
           NEW len \in Nat, NEW fresh \in BOOLEAN
    PROVE  Datagram(from, first, second, echo, sixth, len, fresh) \in Datagrams
BY DEF Datagram, Datagrams, Codes

(* No exchange and no reply are of their types.                            *)
LEMMA IdleType == NoReply \in Datagrams /\ Idle \in Exchanges
<1>1. NoReply \in Datagrams
  BY ByteValues, DatagramType DEF NoReply
<1>2. 0 \in 0 .. RetryCount + 1
  BY UdpAssumption
<1> QED
  BY <1>1, <1>2 DEF Idle, Exchanges, Ids, IdsOf

(* Beginning a call.                                                       *)
LEMMA BeginType ==
    ASSUME UdpTypeOK, NEW kind \in Kinds, NEW id \in IdsOf(kind), Begin(kind, id)
    PROVE  UdpTypeOK'
<1> DEFINE request == [kind |-> kind, id |-> id, fresh |-> TRUE]
<1> DEFINE call(st) == [Idle EXCEPT !.st = st, !.kind = kind, !.id = id, !.sends = 1]
<1>1. toClient' \in Seq(Datagrams)
  BY AgedDatagrams DEF UdpTypeOK, Begin
<1>2. request \in Requests
  BY DEF Requests, IdsOf, Ids
<1>3. Aged(toServer) \in Seq(Requests)
  BY AgedRequests DEF UdpTypeOK
<1>4. toServer' \in Seq(Requests)
  BY <1>2, <1>3, OfferType DEF Begin
<1>5. \A st \in {"wait", "failed"} : call(st) \in Exchanges
  <2>1. 1 \in 0 .. RetryCount + 1
    BY UdpAssumption
  <2> QED
    BY <2>1, IdleType DEF Exchanges, Idle, IdsOf, Ids
<1>6. xch' \in Exchanges
  BY <1>5 DEF Begin
<1> QED
  BY <1>1, <1>4, <1>6 DEF UdpTypeOK

LEMMA IdleSocketType ==
    ASSUME UdpTypeOK, xch' = Idle, UNCHANGED <<toServer, toClient>>
    PROVE  UdpTypeOK'
BY IdleType DEF UdpTypeOK

LEMMA ListenType ==
    ASSUME UdpTypeOK, Listen("notice")
    PROVE  UdpTypeOK'
BY IdleType DEF UdpTypeOK, Listen, Exchanges, Idle, IdsOf

(* Waiting: a reply, a datagram to ignore, a resend or a failure.          *)
LEMMA WaitType ==
    ASSUME UdpTypeOK, Wait
    PROVE  UdpTypeOK'
<1>1. ASSUME NEW i \in DOMAIN toClient
      PROVE  toClient[i] \in Datagrams /\ Without(toClient, i) \in Seq(Datagrams)
  BY <1>1, WithoutType, ElementOfSeq, LenProperties DEF UdpTypeOK
<1>2. CASE ReceiveExpected
  <2>1. PICK i \in DOMAIN toClient :
           /\ xch' = [xch EXCEPT !.st = "got", !.got = toClient[i]]
           /\ toClient' = Without(toClient, i)
    BY <1>2 DEF ReceiveExpected, Arrivals
  <2>2. xch' \in Exchanges
    BY <1>1, <2>1 DEF UdpTypeOK, Exchanges
  <2> QED
    BY <1>1, <1>2, <2>1, <2>2 DEF UdpTypeOK, ReceiveExpected
<1>3. CASE IgnoreUnexpected
  BY <1>1, <1>3 DEF UdpTypeOK, IgnoreUnexpected, Arrivals
<1>4. CASE Timeout
  <2> DEFINE again == [kind |-> xch.kind, id |-> xch.id, fresh |-> TRUE]
  <2>1. xch \in Exchanges
    BY DEF UdpTypeOK
  <2>2. [xch EXCEPT !.st = "failed"] \in Exchanges
    BY <2>1 DEF Exchanges
  <2>3. CASE Resends(xch.kind) /\ xch.sends <= RetryCount
    <3>1. again \in Requests
      BY <2>1, <2>3 DEF Exchanges, Requests, Resends
    <3>2. xch.sends + 1 \in 0 .. RetryCount + 1
      BY <2>1, <2>3, UdpAssumption DEF Exchanges
    <3>3. Offer(toServer, again, RequestCap) \in Seq(Requests)
      BY <3>1, OfferType DEF UdpTypeOK
    <3>4. /\ [xch EXCEPT !.sends = @ + 1] \in Exchanges
          /\ [xch EXCEPT !.st = "failed", !.sends = @ + 1] \in Exchanges
      BY <2>1, <3>2 DEF Exchanges
    <3> HIDE DEF again
    <3> QED
      BY <1>4, <2>3, <3>3, <3>4 DEF UdpTypeOK, Timeout, again
  <2> QED
    BY <1>4, <2>2, <2>3 DEF UdpTypeOK, Timeout
<1> QED
  BY <1>2, <1>3, <1>4 DEF Wait

(* Losing and duplicating datagrams.                                       *)
LEMMA NetworkType ==
    ASSUME UdpTypeOK, Network
    PROVE  UdpTypeOK'
<1>1. CASE LoseRequest
  BY <1>1, WithoutType DEF UdpTypeOK, LoseRequest
<1>2. CASE LoseReply
  BY <1>2, WithoutType DEF UdpTypeOK, LoseReply
<1>3. CASE DuplicateReply
  <2>1. Head(toClient) \in Datagrams
    BY <1>3, HeadTailProperties DEF UdpTypeOK, DuplicateReply
  <2>2. <<Head(toClient)>> \in Seq(Datagrams)
    BY <2>1
  <2> QED
    BY <1>3, <2>2, ConcatProperties DEF UdpTypeOK, DuplicateReply
<1> QED
  BY <1>1, <1>2, <1>3 DEF Network

-----------------------------------------------------------------------------
(* AuthServer and Keepalive: the types. *)

(* The replies the server builds are datagrams.                            *)
LEMMA ServerReplyType ==
    ASSUME NEW r \in Requests, NEW first \in Byte, NEW second \in Byte,
           NEW echo \in Echoes, NEW sixth \in Byte, NEW len \in Nat
    PROVE  ServerReply(r, first, second, echo, sixth, len) \in Datagrams
<1>1. r.fresh \in BOOLEAN
  BY DEF Requests
<1> QED
  BY <1>1, DatagramType DEF ServerReply

LEMMA WithDataType ==
    ASSUME NEW d \in Datagrams, NEW data \in Nonces \cup {None}
    PROVE  WithData(d, data) \in Datagrams
BY DEF WithData, Datagrams

LEMMA WithReasonType ==
    ASSUME NEW d \in Datagrams, NEW why, why.code \in Codes, why.after \in Nat
    PROVE  WithReason(d, why) \in Datagrams
BY DEF WithReason, Datagrams

LEMMA AnswersType ==
    ASSUME NEW r \in Requests, NEW reply \in Answers(r)
    PROVE  reply \in Datagrams
<1> USE ServerReplyType, ByteValues
<1>1. r.kind \in Kinds /\ r.id \in IdsOf(r.kind)
  BY DEF Requests
<1>2. CASE r.kind \in {"challenge", "logoutChallenge"}
  <2>1. r.id \in Nonces
    BY <1>1, <1>2 DEF IdsOf
  <2>2. /\ ServerReply(r, 2, 2, r.id, 0, 8) \in Datagrams
        /\ ServerReply(r, 2, 3, r.id, 0, 8) \in Datagrams
    BY <2>1
  <2> QED
    BY <1>2, <2>1, <2>2, WithDataType DEF Answers
<1>3. CASE r.kind \in {"extra", "first", "third"}
  <2>1. r.id \in Byte
    BY <1>1, <1>3 DEF IdsOf
  <2>2. /\ ServerReply(r, 7, r.id, "file", 6, 40) \in Datagrams
        /\ ServerReply(r, 7, r.id, "other", 6, 40) \in Datagrams
        /\ ServerReply(r, 7, r.id, "data", 2, 40) \in Datagrams
        /\ ServerReply(r, 7, r.id, "data", 4, 40) \in Datagrams
    BY <2>1
  <2> QED
    BY <1>3, <2>2 DEF Answers
<1>4. CASE r.kind \in {"logout", "keepalive1Seed", "keepalive1", "login"}
  <2>1. /\ ServerReply(r, 4, 0, "other", 0, 1) \in Datagrams
        /\ ServerReply(r, 7, 1, "file", 0, 12) \in Datagrams
        /\ ServerReply(r, 7, 0, "file", 0, 12) \in Datagrams
    OBVIOUS
  <2> QED
    BY <1>4, <2>1 DEF Answers
<1>5. CASE r.kind \in {"pppoeChallenge", "pppoeLogin"}
  <2>1. r.id \in Byte
    BY <1>1, <1>5 DEF IdsOf
  <2>2. /\ ServerReply(r, 7, r.id, "file", 0, 32) \in Datagrams
        /\ ServerReply(r, 0, r.id, "file", 0, 32) \in Datagrams
    BY <2>1
  <2> QED
    BY <1>5, <2>2 DEF Answers
<1> QED
  BY <1>1, <1>2, <1>3, <1>4, <1>5 DEF Kinds

(* What the server sends is a datagram, and its session is a seed or none. *)
LEMMA ServerType ==
    ASSUME UdpTypeOK, session \in Nonces \cup {None}, ServerNext \/ Stray
    PROVE  UdpTypeOK' /\ session' \in Nonces \cup {None}
<1>1. CASE ServerHandles
  <2>1. PICK i \in DOMAIN toServer :
          /\ toServer' = Without(toServer, i)
          /\ HandleLogin(toServer[i]) \/ HandleOther(toServer[i])
    BY <1>1 DEF ServerHandles, Arrivals
  <2> DEFINE r == toServer[i]
  <2>2. r \in Requests
    BY LenProperties, ElementOfSeq DEF UdpTypeOK
  <2>3. toServer' \in Seq(Requests)
    BY <2>1, WithoutType DEF UdpTypeOK
  <2> HIDE DEF r
  <2>4. Accepted(r) \in Datagrams \/ r.kind # "login"
    <3>1. ServerReply(r, 4, 0, "other", 0, 39) \in Datagrams
      BY <2>2, ServerReplyType, ByteValues
    <3> QED
      BY <2>2, <3>1, WithDataType DEF Accepted, Requests, IdsOf
  <2>5. ShortAccept(r) \in Datagrams
    BY <2>2, ServerReplyType, ByteValues DEF ShortAccept
  <2>6. \A why \in Rejections : Rejected(r, why) \in Datagrams
    <3> SUFFICES ASSUME NEW why \in Rejections
                 PROVE  Rejected(r, why) \in Datagrams
      OBVIOUS
    <3>1. why.code \in Codes /\ why.len \in Nat /\ why.after \in Nat
      BY ServerAssumption
    <3>2. ServerReply(r, 5, 0, "other", 0, why.len) \in Datagrams
      BY <2>2, <3>1, ServerReplyType, ByteValues
    <3> QED
      BY <3>1, <3>2, WithReasonType DEF Rejected
  <2>7. \A reply \in Answers(r) : reply \in Datagrams
    BY <2>2, AnswersType
  <2>8. CASE HandleLogin(r)
    <3>1. \A reply \in Datagrams : Deliver(reply) => toClient' \in Seq(Datagrams)
      BY OfferType DEF Deliver, UdpTypeOK
    <3>2. toClient' \in Seq(Datagrams)
      BY <2>4, <2>5, <2>6, <2>8, <3>1 DEF HandleLogin
    <3>3. session' \in Nonces \cup {None}
      BY <2>2, <2>8 DEF HandleLogin, Requests, IdsOf
    <3> QED
      BY <1>1, <2>3, <3>2, <3>3 DEF ServerHandles, UdpTypeOK
  <2>9. CASE HandleOther(r)
    <3>1. toClient' \in Seq(Datagrams)
      BY <2>7, <2>9, OfferType DEF HandleOther, Deliver, UdpTypeOK
    <3>2. session' \in Nonces \cup {None}
      BY <2>9 DEF HandleOther
    <3> QED
      BY <1>1, <2>3, <3>1, <3>2 DEF ServerHandles, UdpTypeOK
  <2> QED
    BY <2>1, <2>8, <2>9 DEF r
<1>2. CASE ServerEndsSession
  BY <1>2 DEF ServerEndsSession, UdpTypeOK, udpVars
<1>3. CASE Stray
  <2>1. Datagram("other", 4, 0, "other", 0, 39, FALSE) \in Datagrams
    BY DatagramType, ByteValues
  <2> QED
    BY <1>3, <2>1, OfferType DEF Stray, Deliver, UdpTypeOK
<1> QED
  BY <1>1, <1>2, <1>3 DEF ServerNext

(* The keepalive calls keep the types of the socket and of the counter.    *)
LEMMA CounterType ==
    ASSUME counter \in Counters
    PROVE  (counter + 1) % CounterModulus \in Counters
BY UdpAssumption DEF Counters

LEMMA SendKeepalive2Type ==
    ASSUME UdpTypeOK, counter \in Counters, NEW kind \in {"extra", "first", "third"}, SendKeepalive2(kind)
    PROVE  UdpTypeOK' /\ counter' \in Counters
<1>1. counter \in IdsOf(kind) /\ kind \in Kinds
  BY DEF IdsOf, Kinds
<1> QED
  BY <1>1, BeginType, CounterType DEF SendKeepalive2

LEMMA Keepalive1Type ==
    ASSUME UdpTypeOK, NEW id \in Nonces \cup {None},
           NEW kind \in {"keepalive1Seed", "keepalive1"},
           Begin(kind, id)
    PROVE  UdpTypeOK'
<1>1. id \in IdsOf(kind) /\ kind \in Kinds
  BY DEF IdsOf, Kinds
<1> QED
  BY <1>1, BeginType

(* What the calls leave behind: the socket waits or has failed after a     *)
(* send, and only a waiting socket ever moves on by itself.                *)
LEMMA BeginEffect ==
    ASSUME NEW kind, NEW id, Begin(kind, id)
    PROVE  xch'.st \in {"wait", "failed"} /\ xch'.kind = kind
BY DEF Begin, Idle

LEMMA ListenEffect ==
    ASSUME NEW kind, Listen(kind)
    PROVE  xch'.st = "wait" /\ xch'.kind = kind
BY DEF Listen, Idle

LEMMA WaitEffect ==
    ASSUME UdpTypeOK, Wait
    PROVE  /\ xch.st = "wait"
           /\ xch'.kind = xch.kind
           /\ xch'.st \in {"wait", "got", "failed"}
BY DEF Wait, ReceiveExpected, IgnoreUnexpected, Timeout, UdpTypeOK, Exchanges

-----------------------------------------------------------------------------
(* How a call comes to an end. *)

LEMMA Multiples ==
    ASSUME NEW k \in Nat, NEW w \in Nat
    PROVE  k * w \in Nat /\ (k + 1) * w = k * w + w
OBVIOUS

LEMMA MultiplesGrow ==
    ASSUME NEW w \in Nat, NEW j \in Nat, NEW k \in Nat, j <= k
    PROVE  j * w <= k * w
<1>1. k = j + (k - j) /\ k - j \in Nat
  OBVIOUS
<1>2. k * w = j * w + (k - j) * w
  BY <1>1
<1>3. (k - j) * w \in Nat
  BY <1>1
<1> QED
  BY <1>2, <1>3

(* A place fewer outweighs every wait. *)
LEMMA FewerPlaces ==
    ASSUME NEW a \in Nat, NEW b \in Nat, a < b,
           NEW v \in 0 .. RetryCount + 2, NEW w \in Nat
    PROVE  /\ a * LongestWait + v \in 0 .. b * LongestWait + w
           /\ a * LongestWait + v < b * LongestWait + w
<1>1. LongestWait \in Nat /\ v < LongestWait /\ v \in Nat
  BY UdpAssumption DEF LongestWait
<1> HIDE DEF LongestWait
<1>2. a + 1 \in Nat /\ a + 1 <= b
  OBVIOUS
<1>3. (a + 1) * LongestWait <= b * LongestWait
  BY <1>1, <1>2, MultiplesGrow
<1>4. /\ (a + 1) * LongestWait = a * LongestWait + LongestWait
      /\ a * LongestWait \in Nat /\ b * LongestWait \in Nat
  BY <1>1, Multiples
<1>5. PICK p \in Nat, q \in Nat, l \in Nat :
         p = a * LongestWait /\ q = b * LongestWait /\ l = LongestWait
  BY <1>1, <1>4
<1>6. p + v \in 0 .. q + w /\ p + v < q + w
  BY <1>1, <1>3, <1>4, <1>5
<1> QED
  BY <1>5, <1>6

WaitBounded == WaitLeft \in 0 .. RetryCount + 2

LEMMA WaitRange == UdpTypeOK => WaitBounded
BY UdpAssumption DEF UdpTypeOK, Exchanges, WaitLeft, WaitBounded

LEMMA WaitRangeNext == UdpTypeOK' => WaitBounded'
BY WaitRange, PTL

(* A datagram or a timeout shortens a call, and a strange datagram does    *)
(* not lengthen it.                                                        *)
LEMMA WaitShortens ==
    ASSUME UdpTypeOK, Wait
    PROVE  /\ xch'.kind = xch.kind
           /\ WaitLeft' \in 0 .. WaitLeft
           /\ Timeout => WaitLeft' < WaitLeft
<1>1. /\ xch.st = "wait" /\ xch \in Exchanges
      /\ xch.sends \in 0 .. RetryCount + 1 /\ RetryCount \in Nat
      /\ WaitLeft = RetryCount + 2 - xch.sends
  BY UdpAssumption DEF Wait, ReceiveExpected, IgnoreUnexpected, Timeout, UdpTypeOK,
     Exchanges, WaitLeft
<1>2. CASE ReceiveExpected
  <2>1. xch'.st = "got" /\ xch'.kind = xch.kind
    BY <1>1, <1>2 DEF ReceiveExpected, Exchanges
  <2>2. WaitLeft' = 0
    BY <2>1 DEF WaitLeft
  <2>3. ~ (WaitLeft' >= WaitLeft)
    BY <1>1, <2>2
  <2> QED
    BY <1>1, <2>1, <2>2, <2>3
<1>3. CASE IgnoreUnexpected
  <2>1. xch' = xch
    BY <1>3 DEF IgnoreUnexpected
  <2>2. WaitLeft' = WaitLeft
    BY <2>1 DEF WaitLeft
  <2>3. ~ Timeout
    <3>1. Timeout => xch'.st = "failed" \/ xch'.sends = xch.sends + 1
      BY <1>1 DEF Timeout, Exchanges
    <3> QED
      BY <1>1, <2>1, <3>1
  <2>4. WaitLeft' \in 0 .. WaitLeft
    BY <1>1, <2>2
  <2> QED
    BY <2>1, <2>3, <2>4
<1>4. CASE Timeout
  <2>1. /\ xch'.kind = xch.kind
        /\ xch'.st = "failed" \/ (xch'.st = "wait" /\ xch'.sends = xch.sends + 1 /\ xch.sends <= RetryCount)
    BY <1>1, <1>4 DEF Timeout, Exchanges
  <2>2. CASE xch'.st = "failed"
    <3>1. WaitLeft' = 0
      BY <2>2 DEF WaitLeft
    <3> QED
      BY <1>1, <2>1, <3>1
  <2>3. CASE xch'.st = "wait" /\ xch'.sends = xch.sends + 1 /\ xch.sends <= RetryCount
    <3>1. WaitLeft' = RetryCount + 2 - (xch.sends + 1)
      BY <2>3 DEF WaitLeft
    <3> QED
      BY <1>1, <2>1, <2>3, <3>1
  <2> QED
    BY <2>1, <2>2, <2>3
<1> QED
  BY <1>2, <1>3, <1>4 DEF Wait

(* A call waits it out or ends; where it is, stays. *)
LEMMA WaitLeadsOn ==
    ASSUME UdpTypeOK, Wait, NEW n \in Nat
    PROVE  /\ n * LongestWait + WaitLeft' \in 0 .. n * LongestWait + WaitLeft
           /\ Timeout => n * LongestWait + WaitLeft' < n * LongestWait + WaitLeft
<1>1. WaitLeft' \in 0 .. WaitLeft /\ (Timeout => WaitLeft' < WaitLeft)
  BY WaitShortens
<1>2. n * LongestWait \in Nat /\ WaitLeft \in Nat
  BY Multiples, WaitRange, UdpAssumption DEF LongestWait, WaitBounded
<1>3. PICK p \in Nat, v \in Nat : p = n * LongestWait /\ v = WaitLeft
  BY <1>2
<1>4. PICK u \in 0 .. v : u = WaitLeft' /\ (Timeout => u < v)
  BY <1>1, <1>3
<1>5. p + u \in 0 .. p + v /\ (Timeout => p + u < p + v)
  BY <1>3, <1>4
<1> QED
  BY <1>3, <1>4, <1>5

-----------------------------------------------------------------------------
(* ExchangeOrder: what the steps do to the queues. *)

LEMMA WithoutShape ==
    ASSUME NEW S, NEW q \in Seq(S), NEW i \in 1 .. Len(q)
    PROVE  /\ Len(Without(q, i)) = Len(q) - 1
           /\ \A j \in 1 .. Len(q) - 1 :
                 Without(q, i)[j] = IF j < i THEN q[j] ELSE q[j + 1]
<1> DEFINE a == SubSeq(q, 1, i - 1)
           b == SubSeq(q, i + 1, Len(q))
<1>1. Len(q) \in Nat /\ i \in Nat /\ i >= 1 /\ i <= Len(q)
  OBVIOUS
<1>2. /\ a \in Seq(S) /\ Len(a) = i - 1
      /\ \A j \in 1 .. i - 1 : a[j] = q[j]
  BY <1>1, SubSeqProperties
<1>3. /\ b \in Seq(S) /\ Len(b) = Len(q) - i
      /\ \A j \in 1 .. Len(q) - i : b[j] = q[i + j]
  BY <1>1, SubSeqProperties
<1> HIDE DEF a, b
<1>4. /\ Len(a \o b) = Len(q) - 1
      /\ \A j \in 1 .. Len(q) - 1 : (a \o b)[j] = IF j <= i - 1 THEN a[j] ELSE b[j - (i - 1)]
  <2>1. /\ Len(a \o b) = Len(a) + Len(b)
        /\ \A j \in 1 .. Len(a) + Len(b) :
              (a \o b)[j] = IF j <= Len(a) THEN a[j] ELSE b[j - Len(a)]
    <3>1. a \in Seq(S) /\ b \in Seq(S)
      BY <1>2, <1>3
    <3> QED
      BY <3>1, ConcatProperties, Zenon
  <2> QED
    BY <1>1, <1>2, <1>3, <2>1
<1>5. ASSUME NEW j \in 1 .. Len(q) - 1
      PROVE  (a \o b)[j] = IF j < i THEN q[j] ELSE q[j + 1]
  <2>1. CASE j < i
    BY <1>1, <1>2, <1>4, <2>1
  <2>2. CASE ~ j < i
    <3>1. j - (i - 1) \in 1 .. Len(q) - i /\ i + (j - (i - 1)) = j + 1
      BY <1>1, <2>2
    <3>2. b[j - (i - 1)] = q[j + 1]
      BY <1>3, <3>1
    <3> QED
      BY <1>1, <1>4, <2>2, <3>2
  <2> QED
    BY <2>1, <2>2
<1> QED
  BY <1>4, <1>5 DEF Without, a, b

(* Of the elements of one queue, in their order, the other is made. *)
Follows(new, old) ==
    \E e \in [1 .. Len(new) -> 1 .. Len(old)] :
        /\ \A i \in 1 .. Len(new) : new[i] = old[e[i]]
        /\ \A i, j \in 1 .. Len(new) : i < j => e[i] <= e[j]

LEMMA FollowsItself ==
    ASSUME NEW S, NEW q \in Seq(S)
    PROVE  Follows(q, q)
<1> DEFINE e == [i \in 1 .. Len(q) |-> i]
<1>1. e \in [1 .. Len(q) -> 1 .. Len(q)]
  OBVIOUS
<1>2. \A i \in 1 .. Len(q) : q[i] = q[e[i]]
  OBVIOUS
<1>3. \A i, j \in 1 .. Len(q) : i < j => e[i] <= e[j]
  OBVIOUS
<1> HIDE DEF e
<1> QED
  BY <1>1, <1>2, <1>3 DEF Follows

LEMMA WithoutFollows ==
    ASSUME NEW S, NEW q \in Seq(S), NEW i \in 1 .. Len(q)
    PROVE  Follows(Without(q, i), q)
<1> DEFINE w == Without(q, i)
           e == [j \in 1 .. Len(w) |-> IF j < i THEN j ELSE j + 1]
<1>1. Len(w) = Len(q) - 1 /\ Len(q) \in Nat
      /\ \A j \in 1 .. Len(q) - 1 : w[j] = IF j < i THEN q[j] ELSE q[j + 1]
  <2>1. Len(q) \in Nat
    OBVIOUS
  <2> QED
    BY <2>1, WithoutShape, Zenon
<1> HIDE DEF w
<1>2. e \in [1 .. Len(w) -> 1 .. Len(q)]
  BY <1>1
<1>3. \A j \in 1 .. Len(w) : w[j] = q[e[j]]
  BY <1>1
<1>4. \A j, k \in 1 .. Len(w) : j < k => e[j] <= e[k]
  BY <1>1
<1> HIDE DEF e
<1> QED
  BY <1>2, <1>3, <1>4 DEF Follows, w

LEMMA DuplicateFollows ==
    ASSUME NEW S, NEW q \in Seq(S), q # <<>>
    PROVE  Follows(<<Head(q)>> \o q, q)
<1> DEFINE w == <<Head(q)>> \o q
           e == [j \in 1 .. Len(w) |-> IF j = 1 THEN 1 ELSE j - 1]
<1>1. /\ Len(w) = Len(q) + 1 /\ Len(q) \in Nat /\ Len(q) >= 1
      /\ \A j \in 1 .. Len(w) : w[j] = IF j = 1 THEN q[1] ELSE q[j - 1]
  OBVIOUS
<1> HIDE DEF w
<1>2. e \in [1 .. Len(w) -> 1 .. Len(q)]
  BY <1>1
<1>3. \A j \in 1 .. Len(w) : w[j] = q[e[j]]
  BY <1>1
<1>4. \A j, k \in 1 .. Len(w) : j < k => e[j] <= e[k]
  BY <1>1
<1> HIDE DEF e
<1> QED
  BY <1>2, <1>3, <1>4 DEF Follows, w

LEMMA OfferShape ==
    ASSUME NEW S, NEW q \in Seq(S), NEW d \in S, NEW cap \in Nat
    PROVE  /\ Offer(q, d, cap) \in Seq(S)
           /\ Len(Offer(q, d, cap)) \in {Len(q), Len(q) + 1}
           /\ \A i \in 1 .. Len(q) : Offer(q, d, cap)[i] = q[i]
           /\ \A i \in 1 .. Len(Offer(q, d, cap)) :
                 i \notin 1 .. Len(q) => i = Len(q) + 1 /\ Offer(q, d, cap)[i] = d
<1>1. CASE Len(q) < cap
  BY <1>1 DEF Offer
<1>2. CASE ~ Len(q) < cap
  BY <1>2 DEF Offer
<1> QED
  BY <1>1, <1>2

LEMMA AgedShape ==
    ASSUME NEW q, NEW i \in DOMAIN q
    PROVE  Aged(q)[i] = [q[i] EXCEPT !.fresh = FALSE]
BY DEF Aged

(* The order survives what the network and the waits do. *)
LEMMA FifoFollows ==
    ASSUME Fifo, Follows(toServer', toServer), Follows(toClient', toClient)
    PROVE  Fifo' /\ (AllFresh => AllFresh')
<1>1. PICK e \in [1 .. Len(toServer') -> 1 .. Len(toServer)] :
        /\ \A i \in 1 .. Len(toServer') : toServer'[i] = toServer[e[i]]
        /\ \A i, j \in 1 .. Len(toServer') : i < j => e[i] <= e[j]
  BY DEF Follows
<1>2. PICK f \in [1 .. Len(toClient') -> 1 .. Len(toClient)] :
        /\ \A i \in 1 .. Len(toClient') : toClient'[i] = toClient[f[i]]
        /\ \A i, j \in 1 .. Len(toClient') : i < j => f[i] <= f[j]
  BY DEF Follows
<1>3. \A i \in Said' : i \in 1 .. Len(toClient') /\ f[i] \in Said
  BY <1>2 DEF Said
<1>4. \A i \in Asked' : i \in 1 .. Len(toServer') /\ e[i] \in Asked
  BY <1>1 DEF Asked
<1>5. \A i, j \in Asked' : i < j /\ toServer'[i].fresh => toServer'[j].fresh
  <2> SUFFICES ASSUME NEW i \in Asked', NEW j \in Asked', i < j, toServer'[i].fresh
               PROVE  toServer'[j].fresh
    OBVIOUS
  <2>1. e[i] <= e[j] /\ e[i] \in Int /\ e[j] \in Int
    BY <1>1, <1>4
  <2>2. CASE e[i] = e[j]
    BY <1>1, <1>4, <2>2
  <2>3. CASE e[i] < e[j]
    BY <1>1, <1>4, <2>3 DEF Fifo
  <2> QED
    BY <2>1, <2>2, <2>3
<1>6. \A i, j \in Said' : i < j /\ toClient'[i].fresh => toClient'[j].fresh
  <2> SUFFICES ASSUME NEW i \in Said', NEW j \in Said', i < j, toClient'[i].fresh
               PROVE  toClient'[j].fresh
    OBVIOUS
  <2>1. f[i] <= f[j] /\ f[i] \in Int /\ f[j] \in Int
    BY <1>2, <1>3
  <2>2. CASE f[i] = f[j]
    BY <1>2, <1>3, <2>2
  <2>3. CASE f[i] < f[j]
    BY <1>2, <1>3, <2>3 DEF Fifo
  <2> QED
    BY <2>1, <2>2, <2>3
<1>7. \A i \in Said', j \in Asked' : toClient'[i].fresh => toServer'[j].fresh
  BY <1>1, <1>2, <1>3, <1>4 DEF Fifo
<1>8. AllFresh => AllFresh'
  BY <1>1, <1>2, <1>3, <1>4 DEF AllFresh
<1> QED
  BY <1>5, <1>6, <1>7, <1>8 DEF Fifo

(* What every element of a queue has, every element of what follows it has. *)
LEMMA FollowsEach ==
    ASSUME NEW new, NEW old, Follows(new, old)
    PROVE  \A i \in 1 .. Len(new) : \E j \in 1 .. Len(old) : new[i] = old[j]
BY DEF Follows

(* The filters that name a request. *)
LEMMA NamedFits ==
    ASSUME NEW d \in Datagrams, NEW id
    PROVE  /\ Matches(d, Expected("challenge", id)) <=>
                 d.from = "server" /\ d.first = 2 /\ d.second = 2 /\ d.echo = id /\ d.len >= 8
           /\ Matches(d, Expected("logoutChallenge", id)) <=>
                 d.from = "server" /\ d.first = 2 /\ d.second = 3 /\ d.echo = id /\ d.len >= 8
           /\ Matches(d, Expected("first", id)) <=>
                 /\ d.from = "server" /\ d.first = 7 /\ d.second = id /\ d.echo = "data"
                 /\ d.sixth = 2 /\ d.len >= 20
           /\ Matches(d, Expected("third", id)) <=>
                 /\ d.from = "server" /\ d.first = 7 /\ d.second = id /\ d.echo = "data"
                 /\ d.sixth = 4 /\ d.len >= 6
<1>1. d.sixth \in Byte
  BY DEF Datagrams
<1>2. /\ Expected("challenge", id) = Filter({2}, {2}, {id}, Byte, 8)
      /\ Expected("logoutChallenge", id) = Filter({2}, {3}, {id}, Byte, 8)
      /\ Expected("first", id) = Filter({7}, {id}, {"data"}, {2}, 20)
      /\ Expected("third", id) = Filter({7}, {id}, {"data"}, {4}, 6)
  BY DEF Expected, ChallengeExpected, LogoutExpected, Keepalive2Expected
<1> QED
  BY <1>1, <1>2 DEF Matches, Filter

LEMMA AgedFits ==
    ASSUME NEW d \in Datagrams, NEW f
    PROVE  /\ Matches([d EXCEPT !.fresh = FALSE], f) <=> Matches(d, f)
           /\ SeedIsEcho([d EXCEPT !.fresh = FALSE]) <=> SeedIsEcho(d)
<1> DEFINE a == [d EXCEPT !.fresh = FALSE]
<1>1. /\ a.from = d.from /\ a.first = d.first /\ a.second = d.second /\ a.echo = d.echo
      /\ a.sixth = d.sixth /\ a.len = d.len /\ a.data = d.data
  BY DEF Datagrams
<1> HIDE DEF a
<1> QED
  BY <1>1 DEF Matches, SeedIsEcho, a

(* What the server says to a request, as far as the filters can tell.      *)
ReplyTo(r, d) ==
    /\ d.from = "server" /\ d.fresh = r.fresh /\ SeedIsEcho(d)
    /\ r.kind = "challenge" => d.first = 2 /\ d.second = 2 /\ d.echo = r.id /\ d.len >= 8
    /\ r.kind = "logoutChallenge" =>
          d.first = 2 /\ d.second = 3 /\ d.echo = r.id /\ d.len >= 8
    /\ r.kind = "login" =>
          d.first \in {4, 5} /\ (d.first = 4 /\ d.len >= 39 => d.data = r.id)
    /\ r.kind = "logout" => d.first = 4
    /\ r.kind = "first" =>
          d.first = 7 /\ d.second = r.id /\ d.echo = "data" /\ d.sixth = 2 /\ d.len >= 20
    /\ r.kind = "third" =>
          d.first = 7 /\ d.second = r.id /\ d.echo = "data" /\ d.sixth = 4 /\ d.len >= 6
    /\ r.kind \in Kinds \ (Named \cup {"login", "logout"}) =>
          d.first \in {0, 7} /\ d.sixth \notin {2, 4}

LEMMA AnswersReply ==
    ASSUME NEW r \in Requests, r.kind # "login", NEW d \in Answers(r)
    PROVE  ReplyTo(r, d)
<1> USE DEF ReplyTo, SeedIsEcho, Answers, ServerReply, WithData, Datagram
<1>1. r.kind \in Kinds
  BY DEF Requests
<1>2. CASE r.kind = "challenge"
  BY <1>2 DEF Named, Challenges
<1>3. CASE r.kind = "logoutChallenge"
  BY <1>3 DEF Named, Challenges
<1>4. CASE r.kind \in {"logout", "keepalive1Seed", "keepalive1"}
  BY <1>4
<1>5. CASE r.kind \in {"first", "third"}
  BY <1>5 DEF Named, Beats
<1>6. CASE r.kind = "extra"
  <2>1. PICK e \in {"file", "other"} : d = ServerReply(r, 7, r.id, e, 6, 40)
    BY <1>6
  <2> QED
    BY <1>6, <2>1
<1>7. CASE r.kind \in {"pppoeChallenge", "pppoeLogin"}
  <2>1. PICK code \in {7, 0} : d = ServerReply(r, code, r.id, "file", 0, 32)
    BY <1>7
  <2> QED
    BY <1>7, <2>1
<1> QED
  BY <1>1, <1>2, <1>3, <1>4, <1>5, <1>6, <1>7 DEF Kinds

LEMMA LoginReply ==
    ASSUME NEW r \in Requests, r.kind = "login", NEW d,
           \/ d = Accepted(r) \/ d = ShortAccept(r)
           \/ \E why \in Rejections : d = Rejected(r, why)
    PROVE  ReplyTo(r, d) /\ (d.first = 4 /\ d.len >= 39 <=> d = Accepted(r))
<1> USE DEF ReplyTo, SeedIsEcho, ServerReply, WithData, WithReason, Datagram, Named, Challenges, Beats
<1>0. Accepted(r).first = 4 /\ Accepted(r).len = 39
  BY DEF Accepted
<1>1. CASE d = Accepted(r)
  BY <1>1 DEF Accepted
<1>2. CASE d = ShortAccept(r)
  <2>1. d.len = 38
    BY <1>2 DEF ShortAccept
  <2> QED
    BY <1>0, <1>2, <2>1 DEF ShortAccept
<1>3. CASE \E why \in Rejections : d = Rejected(r, why)
  <2>1. PICK why \in Rejections : d = Rejected(r, why)
    BY <1>3
  <2>2. d.first = 5 /\ d.from = "server" /\ d.fresh = r.fresh
    BY <2>1 DEF Rejected
  <2> HIDE DEF ServerReply, WithData, WithReason, Datagram
  <2>3. d # Accepted(r)
    BY <1>0, <2>2
  <2> QED
    BY <2>2, <2>3
<1> QED
  BY <1>1, <1>2, <1>3

LEMMA ReplyFits ==
    ASSUME NEW r \in Requests, NEW d \in Datagrams, ReplyTo(r, d),
           NEW kind \in Named, NEW id
    PROVE  Matches(d, Expected(kind, id)) <=> r.kind = kind /\ r.id = id
<1>1. r.kind \in Kinds
  BY DEF Requests
<1>2. kind \in {"challenge", "logoutChallenge", "first", "third"}
  BY DEF Named, Challenges, Beats
<1>3. CASE r.kind \in {"login", "logout"}
  BY <1>2, <1>3, NamedFits DEF ReplyTo
<1>4. CASE r.kind \in Named
  <2>1. r.kind \in {"challenge", "logoutChallenge", "first", "third"}
    BY <1>4 DEF Named, Challenges, Beats
  <2> QED
    BY <1>2, <2>1, NamedFits DEF ReplyTo
<1>5. CASE r.kind \in Kinds \ (Named \cup {"login", "logout"})
  BY <1>2, <1>5, NamedFits DEF ReplyTo
<1> QED
  BY <1>1, <1>3, <1>4, <1>5

LEMMA ArrivalIsHead ==
    ASSUME ~ Reorders, NEW S, NEW q \in Seq(S), NEW i \in Arrivals(q)
    PROVE  i = 1 /\ i \in 1 .. Len(q) /\ q[i] \in S
BY DEF Arrivals

(* What the server does: it takes the oldest request and answers it. *)
LEMMA ServerHandlesShape ==
    ASSUME UdpTypeOK, ~ Reorders, ServerHandles
    PROVE  /\ 1 \in Asked /\ toServer[1] \in Requests
           /\ toServer' = Without(toServer, 1) /\ xch' = xch
           /\ \E d \in Datagrams :
                 /\ ReplyTo(toServer[1], d)
                 /\ toClient' = Offer(toClient, d, ReplyCap)
                 /\ toServer[1].kind = "login" =>
                       /\ session' \in {session, toServer[1].id}
                       /\ d.first = 4 /\ d.len >= 39 => session' = toServer[1].id
                 /\ toServer[1].kind # "login" =>
                       session' = IF toServer[1].kind = "logout" /\ toServer[1].id = session
                                  THEN None ELSE session
<1>1. PICK i \in Arrivals(toServer) :
        /\ toServer' = Without(toServer, i)
        /\ HandleLogin(toServer[i]) \/ HandleOther(toServer[i])
  BY DEF ServerHandles
<1>2. i = 1 /\ 1 \in Asked /\ toServer[1] \in Requests /\ xch' = xch
  BY ArrivalIsHead DEF UdpTypeOK, ServerHandles, Asked
<1> DEFINE r == toServer[1]
<1> HIDE DEF r
<1>3. r \in Requests /\ (HandleLogin(r) \/ HandleOther(r))
  BY <1>1, <1>2 DEF r
<1>4. CASE HandleLogin(r)
  <2>1. r.kind = "login"
    BY <1>4 DEF HandleLogin
  <2>2. \E d : /\ d = Accepted(r) \/ d = ShortAccept(r) \/ \E why \in Rejections : d = Rejected(r, why)
               /\ Deliver(d) /\ session' \in {session, r.id} /\ (d = Accepted(r) => session' = r.id)
    <3>1. CASE Deliver(Accepted(r)) /\ session' = r.id
      BY <3>1
    <3>2. CASE Deliver(ShortAccept(r)) /\ UNCHANGED session
      <4>1. ShortAccept(r) # Accepted(r)
        BY DEF ShortAccept, Accepted, WithData, ServerReply, Datagram
      <4> QED
        BY <3>2, <4>1
    <3>3. CASE (\E why \in Rejections : Deliver(Rejected(r, why))) /\ UNCHANGED session
      <4>1. PICK why \in Rejections : Deliver(Rejected(r, why))
        BY <3>3
      <4>2. Rejected(r, why) # Accepted(r)
        <5>1. Accepted(r).first = 4
          BY DEF Accepted, WithData, ServerReply, Datagram
        <5>2. Rejected(r, why).first = 5
          BY DEF Rejected, WithReason, ServerReply, Datagram
        <5> QED
          BY <5>1, <5>2
      <4> QED
        BY <3>3, <4>1, <4>2
    <3> QED
      BY <1>4, <3>1, <3>2, <3>3 DEF HandleLogin
  <2>3. PICK d : /\ d = Accepted(r) \/ d = ShortAccept(r) \/ \E why \in Rejections : d = Rejected(r, why)
                 /\ Deliver(d) /\ session' \in {session, r.id} /\ (d = Accepted(r) => session' = r.id)
    BY <2>2
  <2>4. d \in Datagrams
    <3>1. r.id \in Nonces \cup {None}
      BY <1>3, <2>1 DEF Requests, IdsOf
    <3>2. Accepted(r) \in Datagrams
      <4>1. ServerReply(r, 4, 0, "other", 0, 39) \in Datagrams
        BY <1>3, ServerReplyType, ByteValues
      <4> QED
        BY <3>1, <4>1, WithDataType DEF Accepted
    <3>3. ShortAccept(r) \in Datagrams
      BY <1>3, ServerReplyType, ByteValues DEF ShortAccept
    <3>4. ASSUME NEW why \in Rejections PROVE Rejected(r, why) \in Datagrams
      <4>1. why.code \in Codes /\ why.len \in Nat /\ why.after \in Nat
        BY ServerAssumption
      <4>2. ServerReply(r, 5, 0, "other", 0, why.len) \in Datagrams
        BY <1>3, <4>1, ServerReplyType, ByteValues
      <4> QED
        BY <4>1, <4>2, WithReasonType DEF Rejected
    <3> QED
      BY <2>3, <3>2, <3>3, <3>4
  <2>5. ReplyTo(r, d) /\ (d.first = 4 /\ d.len >= 39 <=> d = Accepted(r))
    BY <1>3, <2>1, <2>3, LoginReply
  <2> QED
    BY <1>1, <1>2, <2>1, <2>3, <2>4, <2>5 DEF Deliver, r
<1>5. CASE HandleOther(r)
  <2>1. /\ r.kind # "login"
        /\ session' = IF r.kind = "logout" /\ r.id = session THEN None ELSE session
    BY <1>5 DEF HandleOther
  <2>2. PICK d \in Answers(r) : Deliver(d)
    BY <1>5 DEF HandleOther
  <2>3. d \in Datagrams /\ ReplyTo(r, d)
    BY <1>3, <2>1, <2>2, AnswersType, AnswersReply
  <2> QED
    BY <1>1, <1>2, <2>1, <2>2, <2>3 DEF Deliver, r
<1> QED
  BY <1>3, <1>4, <1>5

(* What a queue with one more element at its end has at each place. *)
LEMMA OfferedElement ==
    ASSUME NEW S, NEW q \in Seq(S), NEW d \in S, NEW cap \in Nat,
           NEW i \in 1 .. Len(Offer(q, d, cap))
    PROVE  \/ i \in 1 .. Len(q) /\ Offer(q, d, cap)[i] = q[i]
           \/ i = Len(q) + 1 /\ Offer(q, d, cap)[i] = d
BY OfferShape

(* A timeout leaves the queues as they are, or the request once more in    *)
(* the one to the server.                                                  *)
LEMMA TimeoutQueues ==
    ASSUME UdpTypeOK, Timeout
    PROVE  /\ xch.st = "wait" /\ xch'.st \in {"wait", "failed"} /\ toClient' = toClient
           /\ xch'.kind = xch.kind /\ xch'.id = xch.id /\ xch'.got = xch.got
           /\ \/ toServer' = toServer
              \/ /\ Resends(xch.kind)
                 /\ \A i \in Asked' :
                       \/ i \in Asked /\ toServer'[i] = toServer[i]
                       \/ /\ i = Len(toServer) + 1
                          /\ toServer'[i] = [kind |-> xch.kind, id |-> xch.id, fresh |-> TRUE]
<1> DEFINE again == [kind |-> xch.kind, id |-> xch.id, fresh |-> TRUE]
<1>0. xch \in Exchanges /\ xch.st = "wait" /\ toClient' = toClient
  BY DEF UdpTypeOK, Timeout
<1>1. /\ xch'.kind = xch.kind /\ xch'.id = xch.id /\ xch'.got = xch.got
      /\ xch'.st \in {"wait", "failed"}
  BY <1>0 DEF Timeout, Exchanges
<1>2. ASSUME toServer' # toServer
      PROVE  /\ Resends(xch.kind)
             /\ \A i \in Asked' : \/ i \in Asked /\ toServer'[i] = toServer[i]
                                  \/ i = Len(toServer) + 1 /\ toServer'[i] = again
  <2>1. Resends(xch.kind) /\ toServer' = Offer(toServer, again, RequestCap)
    BY <1>2 DEF Timeout
  <2>2. again \in Requests
    BY <1>0, <2>1 DEF Exchanges, Requests, Resends
  <2> HIDE DEF again
  <2>3. toServer \in Seq(Requests) /\ RequestCap \in Nat
    BY UdpAssumption DEF UdpTypeOK
  <2>4. \A i \in 1 .. Len(Offer(toServer, again, RequestCap)) :
          \/ i \in 1 .. Len(toServer) /\ Offer(toServer, again, RequestCap)[i] = toServer[i]
          \/ i = Len(toServer) + 1 /\ Offer(toServer, again, RequestCap)[i] = again
    BY <2>2, <2>3, OfferedElement
  <2> QED
    BY <2>1, <2>4 DEF Asked
<1> QED
  BY <1>0, <1>1, <1>2

(* Each step keeps the order and the named exchanges in step with it.      *)
LEMMA PipeFollows ==
    ASSUME NEW K, PipeInv(K), xch' = xch,
           Follows(toServer', toServer), Follows(toClient', toClient)
    PROVE  PipeInv(K)'
<1>1. \A i \in Asked' : \E j \in Asked : toServer'[i] = toServer[j]
  BY FollowsEach DEF Asked
<1>2. \A i \in 1 .. Len(toClient') : \E j \in 1 .. Len(toClient) : toClient'[i] = toClient[j]
  BY FollowsEach
<1>3. \A i \in Said' : \E j \in Said : toClient'[i] = toClient[j]
  BY <1>2 DEF Said
<1>4. Fifo' /\ (AllFresh => AllFresh')
  BY FifoFollows DEF PipeInv
<1>5. Distinct(K)'
  BY <1>1, <1>3 DEF PipeInv, Distinct, Ours, Fitting
<1>6. Cleared(K)'
  BY <1>4 DEF PipeInv, Cleared, Fitting
<1>7. SeedsAreEchoes'
  BY <1>2 DEF PipeInv, SeedsAreEchoes, SeedIsEcho
<1> QED
  BY <1>4, <1>5, <1>6, <1>7 DEF PipeInv

LEMMA PipeNetwork ==
    ASSUME NEW K, UdpTypeOK, PipeInv(K), Network
    PROVE  PipeInv(K)'
<1>1. /\ toServer \in Seq(Requests) /\ toClient \in Seq(Datagrams)
      /\ Follows(toServer, toServer) /\ Follows(toClient, toClient)
  BY FollowsItself DEF UdpTypeOK
<1>2. CASE LoseRequest
  <2>1. Follows(toServer', toServer)
    BY <1>1, <1>2, WithoutFollows DEF LoseRequest
  <2> QED
    BY <1>1, <1>2, <2>1, PipeFollows DEF LoseRequest
<1>3. CASE LoseReply
  <2>1. Follows(toClient', toClient)
    BY <1>1, <1>3, WithoutFollows DEF LoseReply
  <2> QED
    BY <1>1, <1>3, <2>1, PipeFollows DEF LoseReply
<1>4. CASE DuplicateReply
  <2>1. Follows(toClient', toClient)
    BY <1>1, <1>4, DuplicateFollows DEF DuplicateReply
  <2> QED
    BY <1>1, <1>4, <2>1, PipeFollows DEF DuplicateReply
<1> QED
  BY <1>2, <1>3, <1>4 DEF Network

LEMMA PipeIdle ==
    ASSUME NEW K, K \subseteq Named, PipeInv(K), UNCHANGED <<toServer, toClient>>,
           \/ xch' = xch \/ xch' = Idle \/ Listen("notice")
    PROVE  PipeInv(K)'
<1>1. "notice" \notin K
  BY DEF Named, Challenges, Beats
<1>2. CASE xch' = xch
  BY <1>2
  DEF PipeInv, Fifo, Distinct, Cleared, AllFresh, SeedsAreEchoes, SeedIsEcho, Asked, Said,
      Ours, Fitting
<1>3. CASE xch' = Idle \/ Listen("notice")
  <2>1. /\ xch'.st = "idle" \/ (xch'.st = "wait" /\ xch'.kind \notin K)
        /\ xch'.got.from = "other"
    <3>1. Idle.st = "idle" /\ Idle.got.from = "other"
      BY DEF Idle, NoReply, Datagram
    <3>2. CASE Listen("notice")
      <4>1. xch'.st = "wait" /\ xch'.kind = "notice" /\ xch'.got = Idle.got
        BY <3>2 DEF Listen, Idle
      <4> QED
        BY <1>1, <3>1, <4>1
    <3> QED
      BY <1>3, <3>1, <3>2
  <2>2. Fifo' /\ Distinct(K)' /\ Cleared(K)'
    BY <2>1 DEF PipeInv, Fifo, Distinct, Cleared, Asked, Said
  <2>3. SeedsAreEchoes'
    BY <2>1 DEF PipeInv, SeedsAreEchoes, SeedIsEcho
  <2> QED
    BY <2>2, <2>3 DEF PipeInv
<1> QED
  BY <1>2, <1>3

LEMMA PipeReceive ==
    ASSUME NEW K, K \subseteq Named, ~ Reorders, UdpTypeOK, PipeInv(K), ReceiveExpected
    PROVE  PipeInv(K)'
<1>1. PICK i \in Arrivals(toClient) :
        /\ Matches(toClient[i], Expected(xch.kind, xch.id))
        /\ xch' = [xch EXCEPT !.st = "got", !.got = toClient[i]]
        /\ toClient' = Without(toClient, i)
  BY DEF ReceiveExpected
<1>2. i = 1 /\ 1 \in 1 .. Len(toClient) /\ toClient[1] \in Datagrams
  BY ArrivalIsHead DEF UdpTypeOK
<1>3. /\ xch'.st = "got" /\ xch'.kind = xch.kind /\ xch'.id = xch.id
      /\ xch'.got = toClient[1] /\ xch.st = "wait" /\ toServer' = toServer
  BY <1>1, <1>2 DEF ReceiveExpected, UdpTypeOK, Exchanges
<1>4. Follows(toServer', toServer) /\ Follows(toClient', toClient)
  BY <1>1, <1>2, <1>3, FollowsItself, WithoutFollows DEF UdpTypeOK
<1>5. Fifo' /\ (AllFresh => AllFresh')
  BY <1>4, FifoFollows DEF PipeInv
<1>6. \A j \in 1 .. Len(toClient') : \E k \in 1 .. Len(toClient) : toClient'[j] = toClient[k]
  BY <1>4, FollowsEach
<1>7. \A j \in Said' : \E k \in Said : toClient'[j] = toClient[k]
  BY <1>6 DEF Said
<1>8. Distinct(K)'
  BY <1>3, <1>7 DEF PipeInv, Distinct, Ours, Fitting, Asked
<1>9. ASSUME xch.kind \in K
      PROVE  toClient[1].fresh /\ AllFresh
  <2>1. xch.kind \in {"challenge", "logoutChallenge", "first", "third"}
    BY <1>9 DEF Named, Challenges, Beats
  <2>2. toClient[1].from = "server"
    BY <1>1, <1>2, <2>1, NamedFits
  <2>3. 1 \in Said
    BY <1>2, <2>2 DEF Said
  <2>4. toClient[1].fresh
    BY <1>1, <1>2, <1>3, <1>9, <2>3 DEF PipeInv, Distinct, Fitting
  <2>5. \A j \in Said : j = 1 \/ 1 < j
    BY DEF Said
  <2> QED
    BY <2>3, <2>4, <2>5 DEF PipeInv, Fifo, AllFresh
<1>10. Cleared(K)'
  BY <1>1, <1>2, <1>3, <1>5, <1>9 DEF Cleared, Fitting
<1>11. SeedsAreEchoes'
  BY <1>2, <1>3, <1>6 DEF PipeInv, SeedsAreEchoes, SeedIsEcho
<1> QED
  BY <1>5, <1>8, <1>10, <1>11 DEF PipeInv

LEMMA PipeResend ==
    ASSUME NEW K, UdpTypeOK, PipeInv(K), Timeout
    PROVE  PipeInv(K)'
<1> DEFINE again == [kind |-> xch.kind, id |-> xch.id, fresh |-> TRUE]
<1>0. /\ xch'.kind = xch.kind /\ xch'.id = xch.id /\ xch'.got = xch.got
      /\ xch.st = "wait" /\ xch'.st \in {"wait", "failed"} /\ toClient' = toClient
  BY TimeoutQueues
<1>1. \/ toServer' = toServer
      \/ \A i \in Asked' : \/ i \in Asked /\ toServer'[i] = toServer[i]
                           \/ i = Len(toServer) + 1 /\ toServer'[i] = again
  BY TimeoutQueues
<1>2. SeedsAreEchoes'
  BY <1>0 DEF PipeInv, SeedsAreEchoes, SeedIsEcho
<1>3. Cleared(K)'
  BY <1>0 DEF Cleared
<1>4. CASE toServer' = toServer
  BY <1>0, <1>2, <1>3, <1>4 DEF PipeInv, Fifo, Distinct, Ours, Fitting, Asked, Said
<1>5. CASE toServer' # toServer
  <2>1. again.fresh /\ again.kind = xch.kind /\ again.id = xch.id
    OBVIOUS
  <2> HIDE DEF again
  <2>2. Len(toServer) \in Nat
    BY DEF UdpTypeOK
  <2>3. Fifo'
    <3>1. \A i, j \in Asked' : i < j /\ toServer'[i].fresh => toServer'[j].fresh
      BY <1>1, <1>5, <2>1, <2>2 DEF PipeInv, Fifo, Asked
    <3>2. Said' = Said
      BY <1>0 DEF Said
    <3> QED
      BY <1>0, <1>1, <1>5, <2>1, <3>1, <3>2 DEF PipeInv, Fifo
  <2>4. Distinct(K)'
    BY <1>0, <1>1, <1>5, <2>1 DEF PipeInv, Distinct, Ours, Fitting, Said
  <2> QED
    BY <1>2, <1>3, <2>3, <2>4 DEF PipeInv
<1> QED
  BY <1>4, <1>5

LEMMA PipeWait ==
    ASSUME NEW K, K \subseteq Named, ~ Reorders, UdpTypeOK, PipeInv(K), Wait
    PROVE  PipeInv(K)'
<1>1. CASE IgnoreUnexpected
  <2>1. PICK i \in 1 .. Len(toClient) : toClient' = Without(toClient, i)
    BY <1>1, ArrivalIsHead DEF IgnoreUnexpected, UdpTypeOK
  <2>2. Follows(toServer', toServer) /\ Follows(toClient', toClient) /\ xch' = xch
    BY <1>1, <2>1, FollowsItself, WithoutFollows DEF IgnoreUnexpected, UdpTypeOK
  <2> QED
    BY <2>2, PipeFollows
<1> QED
  BY <1>1, PipeReceive, PipeResend DEF Wait

LEMMA AgedLength ==
    ASSUME NEW S, NEW q \in Seq(S), Aged(q) \in Seq(S)
    PROVE  Len(Aged(q)) = Len(q)
BY LenProperties DEF Aged

(* What a call begun leaves in the queues. *)
LEMMA BeginQueues ==
    ASSUME UdpTypeOK, NEW kind \in Kinds, NEW id \in IdsOf(kind), Begin(kind, id)
    PROVE  /\ xch'.st \in {"wait", "failed"} /\ xch'.kind = kind /\ xch'.id = id
           /\ xch'.got.from = "other" /\ xch'.got.first = 0
           /\ \A i \in Asked' :
                 \/ /\ i \in Asked /\ ~ toServer'[i].fresh
                    /\ toServer'[i].kind = toServer[i].kind /\ toServer'[i].id = toServer[i].id
                 \/ /\ i = Len(toServer) + 1
                    /\ toServer'[i] = [kind |-> kind, id |-> id, fresh |-> TRUE]
           /\ Len(toClient') = Len(toClient)
           /\ \A i \in 1 .. Len(toClient) :
                 /\ toClient[i] \in Datagrams
                 /\ toClient'[i] = [toClient[i] EXCEPT !.fresh = FALSE]
<1> DEFINE request == [kind |-> kind, id |-> id, fresh |-> TRUE]
           old == Aged(toServer)
<1>0. toServer \in Seq(Requests) /\ toClient \in Seq(Datagrams) /\ xch \in Exchanges
  BY DEF UdpTypeOK
<1>1. request \in Requests
  BY DEF Requests, IdsOf, Ids
<1>2. /\ xch'.st \in {"wait", "failed"} /\ xch'.kind = kind /\ xch'.id = id
      /\ xch'.got.from = "other" /\ xch'.got.first = 0
  <2>1. Idle.got.from = "other" /\ Idle.got.first = 0
    BY DEF Idle, NoReply, Datagram
  <2>2. xch'.st \in {"wait", "failed"} /\ xch'.kind = kind /\ xch'.id = id /\ xch'.got = Idle.got
    BY DEF Begin, Idle
  <2> QED
    BY <2>1, <2>2
<1>3. /\ Len(old) = Len(toServer) /\ old \in Seq(Requests)
      /\ \A i \in Asked : ~ old[i].fresh /\ old[i].kind = toServer[i].kind /\ old[i].id = toServer[i].id
  <2>1. \A i \in Asked : toServer[i] \in Requests /\ i \in DOMAIN toServer
    BY <1>0 DEF Asked
  <2>2. \A i \in Asked : old[i] = [toServer[i] EXCEPT !.fresh = FALSE]
    BY <2>1, AgedShape
  <2>3. old \in Seq(Requests)
    BY <1>0, AgedRequests
  <2>4. Len(old) = Len(toServer)
    BY <1>0, <2>3, AgedLength
  <2> HIDE DEF old
  <2> QED
    BY <2>1, <2>2, <2>3, <2>4 DEF Requests
<1>4. /\ Len(toClient') = Len(toClient)
      /\ \A i \in 1 .. Len(toClient) :
            toClient[i] \in Datagrams /\ toClient'[i] = [toClient[i] EXCEPT !.fresh = FALSE]
  <2>1. toClient' = Aged(toClient)
    BY DEF Begin
  <2>2. Aged(toClient) \in Seq(Datagrams)
    BY <1>0, AgedDatagrams
  <2>3. Len(toClient') = Len(toClient)
    BY <1>0, <2>1, <2>2, AgedLength
  <2>4. \A i \in 1 .. Len(toClient) : i \in DOMAIN toClient /\ toClient[i] \in Datagrams
    BY <1>0
  <2>5. \A i \in DOMAIN toClient : Aged(toClient)[i] = [toClient[i] EXCEPT !.fresh = FALSE]
    BY AgedShape
  <2> QED
    BY <2>1, <2>3, <2>4, <2>5
<1>5. \A i \in Asked' : \/ i \in Asked /\ toServer'[i] = old[i]
                        \/ i = Len(toServer) + 1 /\ toServer'[i] = request
  <2>1. CASE toServer' = old
    BY <1>3, <2>1 DEF Asked
  <2>2. CASE toServer' = Offer(old, request, RequestCap)
    <3> HIDE DEF old, request
    <3>1. RequestCap \in Nat
      BY UdpAssumption
    <3>2. \A i \in 1 .. Len(Offer(old, request, RequestCap)) :
            \/ i \in 1 .. Len(old) /\ Offer(old, request, RequestCap)[i] = old[i]
            \/ i = Len(old) + 1 /\ Offer(old, request, RequestCap)[i] = request
      BY <1>1, <1>3, <3>1, OfferedElement
    <3> QED
      BY <1>3, <2>2, <3>2 DEF Asked
  <2> QED
    BY <2>1, <2>2 DEF Begin
<1> HIDE DEF old
<1>6. \A i \in Asked' :
        \/ /\ i \in Asked /\ ~ toServer'[i].fresh
           /\ toServer'[i].kind = toServer[i].kind /\ toServer'[i].id = toServer[i].id
        \/ i = Len(toServer) + 1 /\ toServer'[i] = request
  BY <1>3, <1>5
<1> QED
  BY <1>2, <1>4, <1>6

(* The fields a filter reads do not age. *)
LEMMA AgedFields ==
    ASSUME NEW d \in Datagrams, NEW a, a = [d EXCEPT !.fresh = FALSE]
    PROVE  /\ ~ a.fresh /\ a.from = d.from /\ a.first = d.first /\ a.second = d.second
           /\ a.echo = d.echo /\ a.sixth = d.sixth /\ a.len = d.len /\ a.data = d.data
BY DEF Datagrams

(* A request begun: it is the only fresh one, and the only one of its name. *)
LEMMA PipeBegin ==
    ASSUME NEW K, UdpTypeOK, PipeInv(K), NEW kind \in Kinds, NEW id \in IdsOf(kind),
           Begin(kind, id), kind \in K => NothingLike(kind, id)
    PROVE  PipeInv(K)'
<1> DEFINE request == [kind |-> kind, id |-> id, fresh |-> TRUE]
<1>1. request.fresh /\ request.kind = kind /\ request.id = id
  OBVIOUS
<1>2. /\ xch'.st \in {"wait", "failed"} /\ xch'.kind = kind /\ xch'.id = id
      /\ xch'.got.from = "other"
  BY BeginQueues
<1>4. /\ Len(toClient') = Len(toClient)
      /\ \A i \in 1 .. Len(toClient) :
            toClient[i] \in Datagrams /\ toClient'[i] = [toClient[i] EXCEPT !.fresh = FALSE]
  BY BeginQueues
<1>5. \A i \in 1 .. Len(toClient) :
        /\ ~ toClient'[i].fresh /\ toClient'[i].from = toClient[i].from
        /\ \A f : Matches(toClient'[i], f) <=> Matches(toClient[i], f)
        /\ SeedIsEcho(toClient[i]) => SeedIsEcho(toClient'[i])
  <2> SUFFICES ASSUME NEW i \in 1 .. Len(toClient)
               PROVE  /\ ~ toClient'[i].fresh /\ toClient'[i].from = toClient[i].from
                      /\ \A f : Matches(toClient'[i], f) <=> Matches(toClient[i], f)
                      /\ SeedIsEcho(toClient[i]) => SeedIsEcho(toClient'[i])
    OBVIOUS
  <2>1. toClient[i] \in Datagrams /\ toClient'[i] = [toClient[i] EXCEPT !.fresh = FALSE]
    BY <1>4
  <2> QED
    BY <2>1, AgedFits, AgedFields
<1>6. Said' = Said
  BY <1>4, <1>5 DEF Said
<1>7. \A i \in Asked' :
        \/ /\ i \in Asked /\ ~ toServer'[i].fresh
           /\ toServer'[i].kind = toServer[i].kind /\ toServer'[i].id = toServer[i].id
        \/ i = Len(toServer) + 1 /\ toServer'[i] = request
  BY BeginQueues
<1> HIDE DEF request
<1>8. Len(toServer) \in Nat
  BY DEF UdpTypeOK
<1>9. Fifo'
  <2>1. \A i, j \in Asked' : i < j /\ toServer'[i].fresh => toServer'[j].fresh
    BY <1>1, <1>7, <1>8 DEF Asked
  <2>2. \A i \in Said : ~ toClient'[i].fresh
    BY <1>5 DEF Said
  <2> QED
    BY <1>6, <2>1, <2>2 DEF Fifo
<1>10. Distinct(K)'
  <2> SUFFICES ASSUME kind \in K
               PROVE  /\ \A i \in Asked' : toServer'[i].fresh <=> (toServer'[i].kind = kind /\ toServer'[i].id = id)
                      /\ \A i \in Said' : toClient'[i].fresh <=> Matches(toClient'[i], Expected(kind, id))
    BY <1>2 DEF Distinct, Ours, Fitting
  <2>1. \A i \in Asked' : toServer'[i].fresh <=> (toServer'[i].kind = kind /\ toServer'[i].id = id)
    BY <1>1, <1>7 DEF NothingLike
  <2>2. \A i \in Said' : toClient'[i].fresh <=> Matches(toClient'[i], Expected(kind, id))
    BY <1>5, <1>6 DEF NothingLike, Said
  <2> QED
    BY <2>1, <2>2
<1>11. Cleared(K)'
  BY <1>2 DEF Cleared
<1>12. SeedsAreEchoes'
  BY <1>2, <1>4, <1>5 DEF PipeInv, SeedsAreEchoes, SeedIsEcho
<1> QED
  BY <1>9, <1>10, <1>11, <1>12 DEF PipeInv

(* What an answer leaves in the queues, and of the session. *)
LEMMA AnswerQueues ==
    ASSUME ~ Reorders, UdpTypeOK, ServerHandles
    PROVE  /\ 1 \in Asked /\ toServer[1] \in Requests /\ xch' = xch
           /\ \A i \in Asked' : i + 1 \in Asked /\ toServer'[i] = toServer[i + 1]
           /\ \E d \in Datagrams :
                 /\ ReplyTo(toServer[1], d)
                 /\ \A i \in 1 .. Len(toClient') :
                       \/ i \in 1 .. Len(toClient) /\ toClient'[i] = toClient[i]
                       \/ i = Len(toClient) + 1 /\ toClient'[i] = d
                 /\ toServer[1].kind = "login" =>
                       /\ session' \in {session, toServer[1].id}
                       /\ d.first = 4 /\ d.len >= 39 => session' = toServer[1].id
                 /\ toServer[1].kind # "login" =>
                       session' = IF toServer[1].kind = "logout" /\ toServer[1].id = session
                                  THEN None ELSE session
<1>0. toServer \in Seq(Requests) /\ toClient \in Seq(Datagrams) /\ ReplyCap \in Nat
  BY UdpAssumption DEF UdpTypeOK
<1>1. /\ 1 \in Asked /\ toServer[1] \in Requests
      /\ toServer' = Without(toServer, 1) /\ xch' = xch
  BY ServerHandlesShape
<1>2. \A i \in Asked' : i + 1 \in Asked /\ toServer'[i] = toServer[i + 1]
  <2>1. /\ Len(toServer') = Len(toServer) - 1 /\ Len(toServer) \in Nat
        /\ \A j \in 1 .. Len(toServer) - 1 :
              toServer'[j] = IF j < 1 THEN toServer[j] ELSE toServer[j + 1]
    <3>1. 1 \in 1 .. Len(toServer) /\ Len(toServer) \in Nat
      BY <1>0, <1>1 DEF Asked
    <3>2. /\ Len(Without(toServer, 1)) = Len(toServer) - 1
          /\ \A j \in 1 .. Len(toServer) - 1 :
                Without(toServer, 1)[j] = IF j < 1 THEN toServer[j] ELSE toServer[j + 1]
      BY <1>0, <3>1, WithoutShape, Zenon
    <3> QED
      BY <1>1, <3>1, <3>2
  <2> QED
    BY <2>1 DEF Asked
<1>3. PICK d \in Datagrams :
        /\ ReplyTo(toServer[1], d) /\ toClient' = Offer(toClient, d, ReplyCap)
        /\ toServer[1].kind = "login" =>
              /\ session' \in {session, toServer[1].id}
              /\ d.first = 4 /\ d.len >= 39 => session' = toServer[1].id
        /\ toServer[1].kind # "login" =>
              session' = IF toServer[1].kind = "logout" /\ toServer[1].id = session
                         THEN None ELSE session
  BY ServerHandlesShape
<1>4. \A i \in 1 .. Len(toClient') :
        \/ i \in 1 .. Len(toClient) /\ toClient'[i] = toClient[i]
        \/ i = Len(toClient) + 1 /\ toClient'[i] = d
  BY <1>0, <1>3, OfferedElement
<1> QED
  BY <1>1, <1>2, <1>3, <1>4

(* The oldest request answered: its answer is as fresh as it was, and      *)
(* fits if it was the request.                                             *)
LEMMA PipeAnswer ==
    ASSUME NEW K, K \subseteq Named, ~ Reorders, UdpTypeOK, PipeInv(K), ServerHandles
    PROVE  PipeInv(K)'
<1>0. Len(toServer) \in Nat /\ Len(toClient) \in Nat
  BY DEF UdpTypeOK
<1>1. /\ 1 \in Asked /\ toServer[1] \in Requests /\ xch' = xch
      /\ \A i \in Asked' : i + 1 \in Asked /\ toServer'[i] = toServer[i + 1]
  BY AnswerQueues
<1>2. PICK d \in Datagrams :
        /\ ReplyTo(toServer[1], d)
        /\ \A i \in 1 .. Len(toClient') :
              \/ i \in 1 .. Len(toClient) /\ toClient'[i] = toClient[i]
              \/ i = Len(toClient) + 1 /\ toClient'[i] = d
  BY AnswerQueues
<1>3. \A i \in Asked' : i + 1 \in Asked /\ toServer'[i] = toServer[i + 1]
  BY <1>1
<1>4. \A i \in 1 .. Len(toClient') :
        \/ i \in 1 .. Len(toClient) /\ toClient'[i] = toClient[i]
        \/ i = Len(toClient) + 1 /\ toClient'[i] = d
  BY <1>2
<1>5. d.from = "server" /\ d.fresh = toServer[1].fresh /\ SeedIsEcho(d)
  BY <1>2 DEF ReplyTo
<1>6. \A i \in Said' : \/ i \in Said /\ toClient'[i] = toClient[i]
                       \/ i = Len(toClient) + 1 /\ toClient'[i] = d
  BY <1>4 DEF Said
<1>7. Fifo'
  <2>0. \A i \in Said, j \in Asked : toClient[i].fresh => toServer[j].fresh
    BY DEF PipeInv, Fifo
  <2>1. \A i, j \in Asked' : i < j /\ toServer'[i].fresh => toServer'[j].fresh
    <3> SUFFICES ASSUME NEW i \in Asked', NEW j \in Asked', i < j, toServer'[i].fresh
                 PROVE  toServer'[j].fresh
      OBVIOUS
    <3>1. i + 1 \in Asked /\ j + 1 \in Asked /\ i + 1 < j + 1
      BY <1>3 DEF Asked
    <3>2. toServer'[i] = toServer[i + 1] /\ toServer'[j] = toServer[j + 1]
      BY <1>3
    <3> QED
      BY <3>1, <3>2 DEF PipeInv, Fifo
  <2>2. \A i, j \in Said' : i < j /\ toClient'[i].fresh => toClient'[j].fresh
    <3> SUFFICES ASSUME NEW i \in Said', NEW j \in Said', i < j, toClient'[i].fresh
                 PROVE  toClient'[j].fresh
      OBVIOUS
    <3>1. i \in Said /\ toClient'[i] = toClient[i]
      BY <1>0, <1>6 DEF Said
    <3>2. CASE j \in Said /\ toClient'[j] = toClient[j]
      BY <3>1, <3>2 DEF PipeInv, Fifo
    <3>3. CASE toClient'[j] = d
      BY <1>1, <1>5, <2>0, <3>1, <3>3
    <3> QED
      BY <1>6, <3>2, <3>3
  <2>3. ASSUME NEW i \in Said', NEW j \in Asked', toClient'[i].fresh
        PROVE  toServer'[j].fresh
    <3>1. CASE i \in Said /\ toClient'[i] = toClient[i]
      BY <1>3, <2>0, <2>3, <3>1
    <3>2. CASE toClient'[i] = d
      <4>1. j + 1 \in Asked /\ 1 < j + 1 /\ toServer'[j] = toServer[j + 1]
        BY <1>3 DEF Asked
      <4> QED
        BY <1>1, <1>5, <2>3, <3>2, <4>1 DEF PipeInv, Fifo
    <3> QED
      BY <1>6, <3>1, <3>2
  <2> QED
    BY <2>1, <2>2, <2>3 DEF Fifo
<1>8. Distinct(K)'
  <2> SUFFICES ASSUME xch.st \in {"wait", "got"}, xch.kind \in K
               PROVE  /\ \A i \in Asked' : toServer'[i].fresh <=> Ours(toServer'[i])
                      /\ \A i \in Said' : toClient'[i].fresh <=> Fitting(toClient'[i])
    BY <1>1 DEF Distinct, Ours, Fitting
  <2>1. /\ \A i \in Asked : toServer[i].fresh <=> Ours(toServer[i])
        /\ \A i \in Said : toClient[i].fresh <=> Fitting(toClient[i])
    BY DEF PipeInv, Distinct
  <2>2. d.fresh <=> Fitting(d)
    <3>1. Matches(d, Expected(xch.kind, xch.id)) <=>
            toServer[1].kind = xch.kind /\ toServer[1].id = xch.id
      BY <1>1, <1>2, ReplyFits
    <3> QED
      BY <1>1, <1>5, <2>1, <3>1 DEF Ours, Fitting
  <2> QED
    BY <1>3, <1>6, <2>1, <2>2
<1>9. Cleared(K)'
  <2> SUFFICES ASSUME xch.st = "got", xch.kind \in K
               PROVE  xch.got.fresh /\ Fitting(xch.got) /\ AllFresh'
    BY <1>1 DEF Cleared, Fitting
  <2>1. xch.got.fresh /\ Fitting(xch.got) /\ AllFresh
    BY DEF PipeInv, Cleared
  <2>2. AllFresh'
    BY <1>1, <1>3, <1>5, <1>6, <2>1 DEF AllFresh
  <2> QED
    BY <2>1, <2>2
<1>10. SeedsAreEchoes'
  BY <1>1, <1>4, <1>5 DEF PipeInv, SeedsAreEchoes, SeedIsEcho
<1> QED
  BY <1>7, <1>8, <1>9, <1>10 DEF PipeInv

LEMMA PipeStray ==
    ASSUME NEW K, UdpTypeOK, PipeInv(K), Stray
    PROVE  PipeInv(K)'
<1> DEFINE d == Datagram("other", 4, 0, "other", 0, 39, FALSE)
<1>1. d \in Datagrams /\ d.from = "other"
  <2>1. d.from = "other"
    BY DEF Datagram
  <2> QED
    BY <2>1, DatagramType, ByteValues
<1>2. toClient' = Offer(toClient, d, ReplyCap) /\ toServer' = toServer /\ xch' = xch
  BY DEF Stray, Deliver
<1> HIDE DEF d
<1>3. \A i \in 1 .. Len(toClient') :
        \/ i \in 1 .. Len(toClient) /\ toClient'[i] = toClient[i]
        \/ i = Len(toClient) + 1 /\ toClient'[i] = d
  <2>1. toClient \in Seq(Datagrams) /\ ReplyCap \in Nat
    BY UdpAssumption DEF UdpTypeOK
  <2> QED
    BY <1>1, <1>2, <2>1, OfferedElement
<1>4. \A i \in Said' : i \in Said /\ toClient'[i] = toClient[i]
  BY <1>1, <1>3 DEF Said
<1>5. Fifo' /\ (AllFresh => AllFresh')
  BY <1>2, <1>4 DEF PipeInv, Fifo, AllFresh, Asked
<1>6. Distinct(K)'
  BY <1>2, <1>4 DEF PipeInv, Distinct, Ours, Fitting, Asked
<1>7. Cleared(K)'
  BY <1>2, <1>5 DEF PipeInv, Cleared, Fitting
<1>8. SeedsAreEchoes'
  BY <1>1, <1>2, <1>3 DEF PipeInv, SeedsAreEchoes, SeedIsEcho
<1> QED
  BY <1>5, <1>6, <1>7, <1>8 DEF PipeInv

LEMMA PipeServer ==
    ASSUME NEW K, K \subseteq Named, ~ Reorders, UdpTypeOK, PipeInv(K), ServerNext \/ Stray
    PROVE  PipeInv(K)'
<1>1. CASE ServerEndsSession
  BY <1>1, PipeIdle DEF ServerEndsSession, udpVars
<1> QED
  BY <1>1, PipeAnswer, PipeStray DEF ServerNext

-----------------------------------------------------------------------------
(* RetryPolicy: the bounded counters the models keep decide exactly as the *)
(* unbounded ones of dogcom() do.                                          *)

USE RetryPolicyAssumption

(* The next number after n has the next remainder, or none. *)
LEMMA NextRemainder ==
    ASSUME NEW n \in Nat, NEW k \in Nat \ {0}
    PROVE  /\ n % k \in 0 .. k - 1
           /\ (n % k) + 1 < k => (n + 1) % k = (n % k) + 1
           /\ (n % k) + 1 = k => (n + 1) % k = 0
<1> DEFINE q == n \div k
<1> DEFINE r == n % k
<1>1. q \in Nat /\ r \in 0 .. k - 1 /\ n = k * q + r
  OBVIOUS
<1>2. (r + 1 < k) => (n + 1) % k = r + 1
  <2> HIDE DEF q, r
  <2> SUFFICES ASSUME r + 1 < k PROVE (n + 1) % k = r + 1
    OBVIOUS
  <2>1. n + 1 = k * q + (r + 1) /\ r + 1 \in 0 .. k - 1
    BY <1>1
  <2> QED
    BY <1>1, <2>1
<1>3. (r + 1 = k) => (n + 1) % k = 0
  <2> HIDE DEF q, r
  <2> SUFFICES ASSUME r + 1 = k PROVE (n + 1) % k = 0
    OBVIOUS
  <2>1. n + 1 = k * (q + 1)
    BY <1>1
  <2>2. (k * (q + 1)) % k = 0
    BY <1>1
  <2> QED
    BY <2>1, <2>2
<1> QED
  BY <1>1, <1>2, <1>3

(* keepalive_rounds may be counted in 0 .. ExtraInterval.                  *)
THEOREM RoundsQuotient ==
    ASSUME NEW n \in Nat
    PROVE  /\ ReducedRounds(n + 1) = NextRounds(ReducedRounds(n))
           /\ KeepaliveExtraKind(ReducedRounds(n)) = KeepaliveExtraKind(n)
<1> DEFINE k == ExtraInterval
<1>1. CASE n = 0
  BY <1>1 DEF ReducedRounds, NextRounds, KeepaliveExtraKind
<1>2. CASE n > 0
  <2> DEFINE r == (n - 1) % k
  <2>1. n - 1 \in Nat /\ k \in Nat \ {0} /\ (n - 1) + 1 = n
    BY <1>2
  <2>2. /\ r \in 0 .. k - 1
        /\ r + 1 < k => n % k = r + 1
        /\ r + 1 = k => n % k = 0
    <3> DEFINE m == n - 1
    <3>1. m \in Nat /\ n = m + 1
      BY <2>1
    <3> HIDE DEF m, k
    <3>2. /\ m % k \in 0 .. k - 1
          /\ (m % k) + 1 < k => (m + 1) % k = (m % k) + 1
          /\ (m % k) + 1 = k => (m + 1) % k = 0
      BY <2>1, <3>1, NextRemainder
    <3> QED
      BY <3>1, <3>2 DEF m
  <2>3. ReducedRounds(n) = r + 1 /\ ReducedRounds(n + 1) = (n % k) + 1
    BY <1>2 DEF ReducedRounds
  <2>4. r + 1 < k => (r + 1) % k = r + 1
    BY <2>1, <2>2
  <2>5. r + 1 = k => (r + 1) % k = 0
    BY <2>1, <2>2
  <2> HIDE DEF r
  <2>6. ReducedRounds(n + 1) = NextRounds(ReducedRounds(n))
    BY <2>1, <2>2, <2>3 DEF NextRounds
  <2>7. (n % k = 0) <=> ((r + 1) % k = 0)
    BY <2>1, <2>2, <2>4, <2>5
  <2>8. KeepaliveExtraKind(r + 1) = KeepaliveExtraKind(n)
    BY <1>2, <2>1, <2>2, <2>7 DEF KeepaliveExtraKind
  <2> QED
    BY <2>3, <2>6, <2>8
<1> QED
  BY <1>1, <1>2

(* login_failed_attempts may be counted in 0 .. 4.                         *)
THEOREM FailedLoginsQuotient ==
    ASSUME NEW n \in Nat, NEW jluMode \in BOOLEAN
    PROVE  /\ ReducedFailedLogins(n + 1) = NextFailedLogins(ReducedFailedLogins(n))
           /\ LoginTemplateForAttempt(jluMode, ReducedFailedLogins(n)) =
                  LoginTemplateForAttempt(jluMode, n)
<1>1. /\ ReducedFailedLogins(n + 1) = NextFailedLogins(ReducedFailedLogins(n))
  BY DEF ReducedFailedLogins, NextFailedLogins
<1>2. LoginTemplateForAttempt(jluMode, ReducedFailedLogins(n)) =
          LoginTemplateForAttempt(jluMode, n)
  BY DEF ReducedFailedLogins, LoginTemplateForAttempt
<1> QED
  BY <1>1, <1>2

-----------------------------------------------------------------------------
(* The keepalive counter modulo CounterModulus, and the packets that carry *)
(* a value it had not long ago.                                            *)

LEMMA RemainderSteps ==
    ASSUME NEW m \in Nat \ {0}, NEW a \in Nat
    PROVE  (a + 1) % m = ((a % m) + 1) % m
<1> DEFINE r == a % m
<1>1. /\ r \in 0 .. m - 1
      /\ r + 1 < m => (a + 1) % m = r + 1
      /\ r + 1 = m => (a + 1) % m = 0
  BY NextRemainder
<1> HIDE DEF r
<1>2. CASE r + 1 < m
  <2>1. (r + 1) % m = r + 1
    BY <1>1, <1>2
  <2> QED
    BY <1>1, <1>2, <2>1 DEF r
<1>3. CASE r + 1 = m
  <2>1. m % m = 0
    OBVIOUS
  <2> QED
    BY <1>1, <1>3, <2>1 DEF r
<1> QED
  BY <1>1, <1>2, <1>3

LEMMA RemainderMoves ==
    ASSUME NEW m \in Nat \ {0}, NEW c \in 0 .. m - 1, NEW k \in 1 .. m - 1
    PROVE  (c + k) % m # c
<1>1. CASE c + k < m
  BY <1>1
<1>2. CASE c + k >= m
  <2>1. c + k - m \in 0 .. m - 1 /\ c + k = m * 1 + (c + k - m)
    BY <1>2
  <2>2. (c + k) % m = c + k - m
    BY <2>1
  <2> QED
    BY <2>2
<1> QED
  BY <1>1, <1>2

LEMMA BehindMore ==
    ASSUME NEW x, NEW n \in Int, NEW k \in Int, n <= k, Behind(x, n)
    PROVE  Behind(x, k)
BY DEF Behind

LEMMA BehindGrows ==
    ASSUME NEW x \in Nat, NEW n \in Nat, Behind(x, n),
           counter' = (counter + 1) % CounterModulus
    PROVE  Behind(x, n + 1)'
<1>1. PICK k \in 1 .. n : (x + k) % CounterModulus = counter
  BY DEF Behind
<1>2. x + k \in Nat /\ CounterModulus \in Nat \ {0} /\ k + 1 \in 1 .. n + 1
  BY UdpAssumption
<1>3. (x + k + 1) % CounterModulus = (((x + k) % CounterModulus) + 1) % CounterModulus
  <2> DEFINE a == x + k
  <2>1. a \in Nat
    BY <1>2
  <2> HIDE DEF a
  <2>2. (a + 1) % CounterModulus = ((a % CounterModulus) + 1) % CounterModulus
    BY <1>2, <2>1, RemainderSteps
  <2> QED
    BY <2>2 DEF a
<1>4. (x + (k + 1)) % CounterModulus = counter'
  <2>1. x + (k + 1) = x + k + 1
    BY <1>2
  <2> QED
    BY <1>1, <1>3, <2>1
<1> QED
  BY <1>2, <1>4 DEF Behind

LEMMA BehindSent ==
    ASSUME NEW x, x = counter, counter' = (counter + 1) % CounterModulus, NEW n \in Nat
    PROVE  Behind(x, n + 1)'
BY DEF Behind

LEMMA NotBehindItself ==
    ASSUME counter \in Counters, NEW n \in Nat, n < CounterModulus
    PROVE  ~ Behind(counter, n)
<1> SUFFICES ASSUME NEW k \in 1 .. n
             PROVE  (counter + k) % CounterModulus # counter
  BY DEF Behind
<1>1. CounterModulus \in Nat \ {0} /\ counter \in 0 .. CounterModulus - 1 /\ k \in 1 .. CounterModulus - 1
  BY UdpAssumption DEF Counters
<1> DEFINE c == counter
           m == CounterModulus
<1>2. c \in 0 .. m - 1 /\ m \in Nat \ {0} /\ k \in 1 .. m - 1
  BY <1>1
<1> HIDE DEF c, m
<1>3. (c + k) % m # c
  BY <1>2, RemainderMoves
<1> QED
  BY <1>3 DEF c, m

LEMMA WindowMore ==
    ASSUME NEW n \in Int, NEW k \in Int, n <= k, Window(n)
    PROVE  Window(k)
BY BehindMore DEF Window

(* While the counter stands still, the window bounds what it bounded, and  *)
(* what is added to the queues within it.                                  *)
LEMMA WindowStays ==
    ASSUME NEW n, Window(n), counter' = counter,
           \A i \in Asked' :
              \/ \E j \in Asked : /\ toServer'[i].kind = toServer[j].kind
                                /\ toServer'[i].id = toServer[j].id
              \/ toServer'[i].kind = "first" => Behind(toServer'[i].id, n),
           \A i \in 1 .. Len(toClient') :
              \/ \E j \in 1 .. Len(toClient) :
                    /\ AnswersFirst(toClient'[i]) => AnswersFirst(toClient[j])
                    /\ toClient'[i].second = toClient[j].second
              \/ AnswersFirst(toClient'[i]) => Behind(toClient'[i].second, n)
    PROVE  Window(n)'
<1>1. \A x : Behind(x, n) <=> (\E k \in 1 .. n : (x + k) % CounterModulus = counter')
  BY DEF Behind
<1>2. \A i \in Asked' : toServer'[i].kind = "first" =>
         \E k \in 1 .. n : (toServer'[i].id + k) % CounterModulus = counter'
  BY <1>1 DEF Window
<1>3. \A i \in 1 .. Len(toClient') : AnswersFirst(toClient'[i]) =>
         \E k \in 1 .. n : (toClient'[i].second + k) % CounterModulus = counter'
  BY <1>1 DEF Window
<1> QED
  BY <1>2, <1>3 DEF Window, Behind, AnswersFirst

(* The aged replies answer what they answered. *)
LEMMA AgedReplies ==
    ASSUME UdpTypeOK, NEW kind \in Kinds, NEW id \in IdsOf(kind), Begin(kind, id)
    PROVE  \A i \in 1 .. Len(toClient') :
              /\ i \in 1 .. Len(toClient) /\ toClient'[i].second = toClient[i].second
              /\ AnswersFirst(toClient'[i]) => AnswersFirst(toClient[i])
<1>1. /\ Len(toClient') = Len(toClient)
      /\ \A i \in 1 .. Len(toClient) :
            toClient[i] \in Datagrams /\ toClient'[i] = [toClient[i] EXCEPT !.fresh = FALSE]
  BY BeginQueues
<1>2. ASSUME NEW i \in 1 .. Len(toClient)
      PROVE  /\ toClient'[i].from = toClient[i].from /\ toClient'[i].first = toClient[i].first
             /\ toClient'[i].second = toClient[i].second
             /\ toClient'[i].sixth = toClient[i].sixth
  <2>1. toClient[i] \in Datagrams /\ toClient'[i] = [toClient[i] EXCEPT !.fresh = FALSE]
    BY <1>1
  <2> QED
    BY <2>1, AgedFields
<1> QED
  BY <1>1, <1>2 DEF AnswersFirst

LEMMA WindowBegin ==
    ASSUME UdpTypeOK, NEW kind \in Kinds \ {"first"}, NEW id \in IdsOf(kind), Begin(kind, id),
           counter' = counter, NEW n, Window(n)
    PROVE  Window(n)'
<1>1. \A i \in Asked' :
        \/ /\ i \in Asked
           /\ toServer'[i].kind = toServer[i].kind /\ toServer'[i].id = toServer[i].id
        \/ toServer'[i] = [kind |-> kind, id |-> id, fresh |-> TRUE]
  BY BeginQueues
<1>2. \A i \in Asked' :
        \/ \E j \in Asked : toServer'[i].kind = toServer[j].kind /\ toServer'[i].id = toServer[j].id
        \/ toServer'[i].kind = "first" => Behind(toServer'[i].id, n)
  BY <1>1
<1>3. \A i \in 1 .. Len(toClient') :
        \E j \in 1 .. Len(toClient) :
           /\ AnswersFirst(toClient'[i]) => AnswersFirst(toClient[j])
           /\ toClient'[i].second = toClient[j].second
  BY AgedReplies
<1> QED
  BY <1>2, <1>3, WindowStays

(* Each packet sent widens it by one. *)
LEMMA WindowSend ==
    ASSUME UdpTypeOK, counter \in Counters, NEW kind \in {"extra", "first", "third"},
           SendKeepalive2(kind), NEW n \in Nat, Window(n)
    PROVE  Window(n + 1)'
<1>0. /\ kind \in Kinds /\ counter \in IdsOf(kind) /\ Begin(kind, counter)
      /\ counter' = (counter + 1) % CounterModulus
  BY DEF Kinds, IdsOf, SendKeepalive2
<1>1. \A i \in Asked' :
        \/ /\ i \in Asked
           /\ toServer'[i].kind = toServer[i].kind /\ toServer'[i].id = toServer[i].id
        \/ toServer'[i] = [kind |-> kind, id |-> counter, fresh |-> TRUE]
  BY <1>0, BeginQueues
<1>2. ASSUME NEW i \in Asked', toServer'[i].kind = "first"
      PROVE  Behind(toServer[i].id, n + 1)'
  <2>1. CASE toServer'[i] = [kind |-> kind, id |-> counter, fresh |-> TRUE]
    <3>1. toServer'[i].id = counter
      BY <2>1
    <3> QED
      BY <1>0, <3>1 DEF Behind
  <2>2. CASE /\ i \in Asked
             /\ toServer'[i].kind = toServer[i].kind /\ toServer'[i].id = toServer[i].id
    <3>1. Behind(toServer[i].id, n) /\ toServer[i].kind = "first" /\ toServer[i] \in Requests
      BY <1>2, <2>2 DEF Window, UdpTypeOK, Asked
    <3>2. toServer[i].id \in Nat
      <4>1. \A x \in Counters : x \in Nat
        BY UdpAssumption DEF Counters
      <4>2. toServer[i].id \in Counters
        BY <3>1 DEF Requests, IdsOf
      <4> QED
        BY <4>1, <4>2, Zenon
    <3>3. \E k \in 1 .. n + 1 : (toServer[i].id + k) % CounterModulus = counter'
      BY <1>0, <3>1, <3>2, BehindGrows DEF Behind
    <3> QED
      BY <2>2, <3>3 DEF Behind
  <2> QED
    BY <1>1, <2>1, <2>2
<1>3. ASSUME NEW i \in 1 .. Len(toClient'), AnswersFirst(toClient'[i])
      PROVE  Behind(toClient[i].second, n + 1)'
  <2>1. /\ i \in 1 .. Len(toClient) /\ toClient'[i].second = toClient[i].second
        /\ AnswersFirst(toClient[i])
    BY <1>0, <1>3, AgedReplies
  <2>2. Behind(toClient[i].second, n) /\ toClient[i] \in Datagrams
    BY <2>1 DEF Window, UdpTypeOK
  <2>3. toClient[i].second \in Nat
    <3>1. \A x \in Byte : x \in Nat
      BY DEF Byte
    <3>2. toClient[i].second \in Byte
      BY <2>2 DEF Datagrams
    <3> QED
      BY <3>1, <3>2, Zenon
  <2>4. \E k \in 1 .. n + 1 : (toClient[i].second + k) % CounterModulus = counter'
    BY <1>0, <2>2, <2>3, BehindGrows DEF Behind
  <2> QED
    BY <2>1, <2>4 DEF Behind
<1> QED
  BY <1>2, <1>3 DEF Window, AnswersFirst

LEMMA WindowFollows ==
    ASSUME Follows(toServer', toServer), Follows(toClient', toClient), counter' = counter,
           NEW n, Window(n)
    PROVE  Window(n)'
<1>1. \A i \in Asked' : \E j \in Asked : toServer'[i] = toServer[j]
  BY FollowsEach DEF Asked
<1>2. \A i \in 1 .. Len(toClient') : \E j \in 1 .. Len(toClient) : toClient'[i] = toClient[j]
  BY FollowsEach
<1> QED
  BY <1>1, <1>2, WindowStays

(* A packet sent again is the one last sent. *)
LEMMA WindowResend ==
    ASSUME UdpTypeOK, Timeout, counter' = counter, NEW n, Window(n),
           xch.kind = "first" => Behind(xch.id, n)
    PROVE  Window(n)'
<1> DEFINE again == [kind |-> xch.kind, id |-> xch.id, fresh |-> TRUE]
<1>1. \/ toServer' = toServer
      \/ \A i \in Asked' : \/ i \in Asked /\ toServer'[i] = toServer[i]
                           \/ toServer'[i] = again
  BY TimeoutQueues
<1>2. toClient' = toClient
  BY DEF Timeout
<1>3. again.kind = xch.kind /\ again.id = xch.id
  OBVIOUS
<1> HIDE DEF again
<1>4. \A i \in Asked' :
        \/ \E j \in Asked : toServer'[i].kind = toServer[j].kind /\ toServer'[i].id = toServer[j].id
        \/ toServer'[i].kind = "first" => Behind(toServer'[i].id, n)
  BY <1>1, <1>3 DEF Asked
<1>5. \A i \in 1 .. Len(toClient') :
        \E j \in 1 .. Len(toClient) :
           /\ AnswersFirst(toClient'[i]) => AnswersFirst(toClient[j])
           /\ toClient'[i].second = toClient[j].second
  BY <1>2
<1> QED
  BY <1>4, <1>5, WindowStays

(* What the server answers is as old as what it was asked. *)
LEMMA WindowAnswer ==
    ASSUME ~ Reorders, UdpTypeOK, ServerHandles, counter' = counter, NEW n, Window(n)
    PROVE  Window(n)'
<1> DEFINE r == toServer[1]
<1>1. /\ 1 \in Asked /\ r \in Requests
      /\ \A i \in Asked' : i + 1 \in Asked /\ toServer'[i] = toServer[i + 1]
  BY AnswerQueues
<1>2. PICK d \in Datagrams :
        /\ ReplyTo(r, d)
        /\ \A i \in 1 .. Len(toClient') :
              \/ i \in 1 .. Len(toClient) /\ toClient'[i] = toClient[i]
              \/ i = Len(toClient) + 1 /\ toClient'[i] = d
  BY AnswerQueues
<1> HIDE DEF r
<1>3. AnswersFirst(d) => r.kind = "first" /\ d.second = r.id
  <2>1. r.kind \in Kinds
    BY <1>1 DEF Requests
  <2>2. CASE r.kind \in {"challenge", "logoutChallenge", "login", "logout", "first", "third"}
    BY <1>2, <2>2 DEF ReplyTo, AnswersFirst
  <2>3. CASE r.kind \in Kinds \ (Named \cup {"login", "logout"})
    BY <1>2, <2>3 DEF ReplyTo, AnswersFirst
  <2> QED
    BY <2>1, <2>2, <2>3 DEF Named, Challenges, Beats
<1>4. AnswersFirst(d) => Behind(d.second, n)
  BY <1>1, <1>3 DEF Window, r
<1>5. \A i \in Asked' :
        \E j \in Asked : toServer'[i].kind = toServer[j].kind /\ toServer'[i].id = toServer[j].id
  BY <1>1
<1>6. \A i \in 1 .. Len(toClient') :
        \/ \E j \in 1 .. Len(toClient) :
              /\ AnswersFirst(toClient'[i]) => AnswersFirst(toClient[j])
              /\ toClient'[i].second = toClient[j].second
        \/ AnswersFirst(toClient'[i]) => Behind(toClient'[i].second, n)
  BY <1>2, <1>4
<1> QED
  BY <1>5, <1>6, WindowStays

LEMMA WindowStray ==
    ASSUME UdpTypeOK, Stray, counter' = counter, NEW n, Window(n)
    PROVE  Window(n)'
<1> DEFINE d == Datagram("other", 4, 0, "other", 0, 39, FALSE)
<1>1. d \in Datagrams /\ d.from = "other"
  <2>1. d.from = "other"
    BY DEF Datagram
  <2> QED
    BY <2>1, DatagramType, ByteValues
<1>2. toClient' = Offer(toClient, d, ReplyCap) /\ toServer' = toServer
  BY DEF Stray, Deliver
<1> HIDE DEF d
<1>3. toClient \in Seq(Datagrams) /\ ReplyCap \in Nat
  BY UdpAssumption DEF UdpTypeOK
<1>4. \A i \in 1 .. Len(toClient') :
        \/ i \in 1 .. Len(toClient) /\ toClient'[i] = toClient[i]
        \/ i = Len(toClient) + 1 /\ toClient'[i] = d
  BY <1>1, <1>2, <1>3, OfferedElement
<1>5. ~ AnswersFirst(d)
  BY <1>1 DEF AnswersFirst
<1>6. \A i \in Asked' :
        \E j \in Asked : toServer'[i].kind = toServer[j].kind /\ toServer'[i].id = toServer[j].id
  BY <1>2 DEF Asked
<1>7. \A i \in 1 .. Len(toClient') :
        \/ \E j \in 1 .. Len(toClient) :
              /\ AnswersFirst(toClient'[i]) => AnswersFirst(toClient[j])
              /\ toClient'[i].second = toClient[j].second
        \/ AnswersFirst(toClient'[i]) => Behind(toClient'[i].second, n)
  BY <1>4, <1>5
<1> QED
  BY <1>6, <1>7, WindowStays

LEMMA WindowNetwork ==
    ASSUME UdpTypeOK, Network, counter' = counter, NEW n, Window(n)
    PROVE  Window(n)'
<1>1. /\ toServer \in Seq(Requests) /\ toClient \in Seq(Datagrams)
      /\ Follows(toServer, toServer) /\ Follows(toClient, toClient)
  BY FollowsItself DEF UdpTypeOK
<1>2. CASE LoseRequest
  <2>1. Follows(toServer', toServer)
    BY <1>1, <1>2, WithoutFollows DEF LoseRequest
  <2> QED
    BY <1>1, <1>2, <2>1, WindowFollows DEF LoseRequest
<1>3. CASE LoseReply
  <2>1. Follows(toClient', toClient)
    BY <1>1, <1>3, WithoutFollows DEF LoseReply
  <2> QED
    BY <1>1, <1>3, <2>1, WindowFollows DEF LoseReply
<1>4. CASE DuplicateReply
  <2>1. Follows(toClient', toClient)
    BY <1>1, <1>4, DuplicateFollows DEF DuplicateReply
  <2> QED
    BY <1>1, <1>4, <2>1, WindowFollows DEF DuplicateReply
<1> QED
  BY <1>2, <1>3, <1>4 DEF Network

LEMMA WindowWait ==
    ASSUME ~ Reorders, UdpTypeOK, Wait, counter' = counter, NEW n, Window(n),
           xch.kind = "first" => Behind(xch.id, n)
    PROVE  Window(n)'
<1>1. CASE ReceiveExpected \/ IgnoreUnexpected
  <2>1. PICK i \in Arrivals(toClient) : toClient' = Without(toClient, i)
    BY <1>1 DEF ReceiveExpected, IgnoreUnexpected
  <2>2. i \in 1 .. Len(toClient)
    BY <2>1, ArrivalIsHead DEF UdpTypeOK
  <2>3. Follows(toServer', toServer) /\ Follows(toClient', toClient)
    BY <1>1, <2>1, <2>2, FollowsItself, WithoutFollows
    DEF UdpTypeOK, ReceiveExpected, IgnoreUnexpected
  <2> QED
    BY <2>3, WindowFollows
<1> QED
  BY <1>1, WindowResend DEF Wait

LEMMA WindowServer ==
    ASSUME ~ Reorders, UdpTypeOK, ServerNext \/ Stray, counter' = counter, NEW n, Window(n)
    PROVE  Window(n)'
<1>1. CASE ServerEndsSession
  <2>1. UNCHANGED <<toServer, toClient>>
    BY <1>1 DEF ServerEndsSession, udpVars
  <2> QED
    BY <2>1, WindowStays DEF Asked
<1> QED
  BY <1>1, WindowAnswer, WindowStray DEF ServerNext

(* A keepalive answered clears the queues of all that is older. *)
LEMMA AfterBeat ==
    ASSUME UdpTypeOK, PipeInv(Beats), NEW kind \in Beats, Answered(kind)
    PROVE  /\ \A i \in Asked : toServer[i].kind = kind /\ toServer[i].id = xch.id
           /\ \A i \in 1 .. Len(toClient) :
                 AnswersFirst(toClient[i]) => kind = "first" /\ toClient[i].second = xch.id
           /\ \A i \in Said : toClient[i].sixth = IF kind = "first" THEN 2 ELSE 4
<1>1. xch.st = "got" /\ xch.kind = kind /\ kind \in {"first", "third"}
  BY DEF Answered, Beats
<1>2. /\ \A i \in Asked : toServer[i].kind = kind /\ toServer[i].id = xch.id
      /\ \A i \in Said : Matches(toClient[i], Expected(kind, xch.id))
  BY <1>1 DEF PipeInv, Distinct, Cleared, AllFresh, Ours, Fitting
<1>3. \A i \in Said : /\ toClient[i].second = xch.id
                      /\ toClient[i].sixth = IF kind = "first" THEN 2 ELSE 4
  <2>1. \A i \in Said : toClient[i] \in Datagrams
    BY DEF UdpTypeOK, Said
  <2> QED
    BY <1>1, <1>2, <2>1, NamedFits
<1>4. \A i \in 1 .. Len(toClient) : AnswersFirst(toClient[i]) => i \in Said
  BY DEF AnswersFirst, Said
<1>5. \A i \in 1 .. Len(toClient) :
        AnswersFirst(toClient[i]) => kind = "first" /\ toClient[i].second = xch.id
  BY <1>1, <1>3, <1>4 DEF AnswersFirst
<1> QED
  BY <1>2, <1>3, <1>5

(* So the third packet finds none before it, *)
LEMMA ThirdIsUnlike ==
    ASSUME UdpTypeOK, PipeInv(Beats), Answered("first"), NEW id
    PROVE  NothingLike("third", id)
<1>0. "first" \in Beats
  BY DEF Beats
<1>1. \A i \in Asked : toServer[i].kind # "third"
  BY <1>0, AfterBeat
<1>2. \A i \in Said : toClient[i].sixth = 2 /\ toClient[i] \in Datagrams
  BY <1>0, AfterBeat DEF UdpTypeOK, Said
<1>3. \A i \in Said : ~ Matches(toClient[i], Expected("third", id))
  BY <1>2, NamedFits
<1> QED
  BY <1>1, <1>3 DEF NothingLike

(* and the first one of the next round, none within a turn of the counter. *)
LEMMA FirstIsUnlike ==
    ASSUME UdpTypeOK, counter \in Counters, NEW n \in Nat, Window(n), n < CounterModulus
    PROVE  NothingLike("first", counter)
<1>1. ~ Behind(counter, n)
  BY NotBehindItself
<1>2. \A i \in Said : toClient[i] \in Datagrams /\ i \in 1 .. Len(toClient)
  BY DEF UdpTypeOK, Said
<1>3. ASSUME NEW i \in Said, Matches(toClient[i], Expected("first", counter))
      PROVE  FALSE
  <2>1. AnswersFirst(toClient[i]) /\ toClient[i].second = counter
    BY <1>2, <1>3, NamedFits DEF AnswersFirst
  <2> QED
    BY <1>1, <1>2, <2>1 DEF Window
<1> QED
  BY <1>1, <1>3 DEF NothingLike, Window
=============================================================================
