---------------------------- MODULE EapLoginProofs ----------------------------
(***************************************************************************)
(* LoginInv of EapLogin is inductive, and what follows from it.            *)
(***************************************************************************)
EXTENDS EapLogin, TLAPS

USE EapAssumption

-----------------------------------------------------------------------------
(* The queues. *)

LEMMA OfferShape ==
    ASSUME NEW S, NEW q \in Seq(S), NEW f \in S, NEW cap \in Nat
    PROVE  /\ Offer(q, f, cap) \in Seq(S)
           /\ Len(q) <= Len(Offer(q, f, cap))
           /\ \A i \in 1 .. Len(q) : Offer(q, f, cap)[i] = q[i]
           /\ \A i \in 1 .. Len(Offer(q, f, cap)) :
                 i > Len(q) => Offer(q, f, cap)[i] = f
<1>1. CASE Len(q) < cap
  BY <1>1 DEF Offer
<1>2. CASE ~ Len(q) < cap
  BY <1>2 DEF Offer
<1> QED
  BY <1>1, <1>2

LEMMA TailShape ==
    ASSUME NEW S, NEW q \in Seq(S), q # <<>>
    PROVE  /\ Tail(q) \in Seq(S) /\ Head(q) \in S
           /\ 1 \in 1 .. Len(q) /\ Head(q) = q[1]
           /\ Len(Tail(q)) = Len(q) - 1
           /\ \A i \in 1 .. Len(q) - 1 : Tail(q)[i] = q[i + 1] /\ i + 1 \in 1 .. Len(q)
  OBVIOUS

(* An element of the tail was in the queue. *)
LEMMA TailUnder ==
    ASSUME NEW S, NEW q \in Seq(S), q # <<>>, NEW kinds
    PROVE  Under(Tail(q), kinds) => Under(q, kinds)
  BY TailShape DEF Under

LEMMA OfferUnder ==
    ASSUME NEW S, NEW q \in Seq(S), NEW f \in S, NEW cap \in Nat, NEW kinds
    PROVE  Under(Offer(q, f, cap), kinds) => Under(q, kinds) \/ f.kind \in kinds
<1> DEFINE r == Offer(q, f, cap)
<1>1. /\ r \in Seq(S) /\ \A i \in 1 .. Len(q) : r[i] = q[i]
      /\ \A i \in 1 .. Len(r) : i > Len(q) => r[i] = f
  BY OfferShape
<1> HIDE DEF r
<1>2. ASSUME NEW i \in 1 .. Len(r), r[i].kind \in kinds
      PROVE  (\E j \in 1 .. Len(q) : q[j].kind \in kinds) \/ f.kind \in kinds
  <2>1. CASE i \in 1 .. Len(q)
    BY <1>1, <1>2, <2>1
  <2>2. CASE i > Len(q)
    BY <1>1, <1>2, <2>2
  <2> QED
    BY <1>1, <2>1, <2>2
<1> QED
  BY <1>2 DEF Under, r

(* The order of the answers, of a queue. *)
Ordered(q) ==
    \A i, j \in 1 .. Len(q) : q[i].kind \in Undoing /\ q[j].kind = "md5" => i < j

LEMMA TailOrdered ==
    ASSUME NEW q \in Seq(Sent), q # <<>>, Ordered(q)
    PROVE  Ordered(Tail(q)) /\ (q[1].kind = "md5" => ~ Under(q, Undoing))
<1>1. /\ Tail(q) \in Seq(Sent) /\ 1 \in 1 .. Len(q) /\ Len(Tail(q)) = Len(q) - 1
      /\ \A i \in 1 .. Len(q) - 1 : Tail(q)[i] = q[i + 1] /\ i + 1 \in 1 .. Len(q)
  BY TailShape
<1>2. Ordered(Tail(q))
  <2> SUFFICES ASSUME NEW i \in 1 .. Len(q) - 1, NEW j \in 1 .. Len(q) - 1,
                      q[i + 1].kind \in Undoing, q[j + 1].kind = "md5"
               PROVE  i < j
    BY <1>1 DEF Ordered
  <2>1. i + 1 < j + 1
    BY <1>1 DEF Ordered
  <2> QED
    BY <2>1
<1>3. q[1].kind = "md5" => ~ Under(q, Undoing)
  BY <1>1 DEF Ordered, Under
<1> QED
  BY <1>2, <1>3

(* What is sent behind an answer undoes nothing. *)
LEMMA OfferOrdered ==
    ASSUME NEW q \in Seq(Sent), NEW p \in Sent, NEW cap \in Nat, Ordered(q),
           p.kind \in Undoing => ~ Under(q, {"md5"})
    PROVE  Ordered(Offer(q, p, cap))
<1> DEFINE r == Offer(q, p, cap)
<1>1. /\ r \in Seq(Sent) /\ Len(q) <= Len(r)
      /\ \A i \in 1 .. Len(q) : r[i] = q[i]
      /\ \A i \in 1 .. Len(r) : i > Len(q) => r[i] = p
  BY OfferShape
<1> HIDE DEF r
<1> SUFFICES ASSUME NEW i \in 1 .. Len(r), NEW j \in 1 .. Len(r),
                    r[i].kind \in Undoing, r[j].kind = "md5"
             PROVE  i < j
  BY DEF Ordered, r
<1>3. CASE i \in 1 .. Len(q) /\ j \in 1 .. Len(q)
  BY <1>1, <1>3 DEF Ordered
<1>4. CASE i \in 1 .. Len(q) /\ j > Len(q)
  BY <1>1, <1>4
<1>5. CASE i > Len(q) /\ j \in 1 .. Len(q)
  BY <1>1, <1>5 DEF Under
<1>6. CASE i > Len(q) /\ j > Len(q)
  BY <1>1, <1>6 DEF Undoing
<1> QED
  BY <1>1, <1>3, <1>4, <1>5, <1>6

-----------------------------------------------------------------------------
(* The steps. *)

LEMMA OrderedIs == AnswersLast <=> Ordered(toSwitch)
  BY DEF AnswersLast, Ordered

LEMMA OrderedIsNext == AnswersLast' <=> Ordered(toSwitch')
  BY DEF AnswersLast, Ordered

(* No frame is heard that was not said. *)
LEMMA HeardWasSaid ==
    ASSUME TypeOK, NEW f,
           \/ toHost # <<>> /\ f = Head(toHost) /\ toHost' = Tail(toHost)
           \/ f \in Frames /\ f.code # "success" /\ toHost' = toHost
           \/ f = last /\ toHost' = toHost,
           last' = f
    PROVE  /\ f \in Frames /\ toHost' \in Seq(Frames)
           /\ f.code = "success" => SuccessSaid
           /\ SuccessSaid' => SuccessSaid
<1>1. CASE toHost # <<>> /\ f = Head(toHost) /\ toHost' = Tail(toHost)
  <2>1. /\ toHost \in Seq(Frames) /\ Tail(toHost) \in Seq(Frames)
        /\ Head(toHost) \in Frames /\ Head(toHost) = toHost[1] /\ 1 \in 1 .. Len(toHost)
        /\ Len(Tail(toHost)) = Len(toHost) - 1
        /\ \A i \in 1 .. Len(toHost) - 1 :
              Tail(toHost)[i] = toHost[i + 1] /\ i + 1 \in 1 .. Len(toHost)
    BY <1>1, TailShape DEF TypeOK
  <2> QED
    BY <1>1, <2>1 DEF SuccessSaid
<1>2. CASE toHost' = toHost
  BY <1>2 DEF TypeOK, SuccessSaid
<1> QED
  BY <1>1, <1>2

LEMMA SaidNow ==
    ASSUME TypeOK, NEW f \in Frames, toHost' = Offer(toHost, f, HostCap), last' = last
    PROVE  /\ toHost' \in Seq(Frames)
           /\ SuccessSaid' => SuccessSaid \/ f.code = "success"
<1>1. /\ toHost' \in Seq(Frames)
      /\ \A i \in 1 .. Len(toHost) : toHost'[i] = toHost[i]
      /\ \A i \in 1 .. Len(toHost') : i > Len(toHost) => toHost'[i] = f
      /\ toHost \in Seq(Frames)
  BY OfferShape DEF TypeOK
<1>2. ASSUME NEW i \in 1 .. Len(toHost'), toHost'[i].code = "success"
      PROVE  SuccessSaid \/ f.code = "success"
  <2>1. CASE i \in 1 .. Len(toHost)
    BY <1>1, <1>2, <2>1 DEF SuccessSaid
  <2>2. CASE i > Len(toHost)
    BY <1>1, <1>2, <2>2
  <2> QED
    BY <1>1, <2>1, <2>2
<1>3. last.code = "success" => SuccessSaid
  BY DEF SuccessSaid
<1> QED
  BY <1>1, <1>2, <1>3 DEF SuccessSaid

(* What the host sends on the interface it tries. *)
LEMMA Sends ==
    ASSUME TypeOK, AnswersLast, NEW p \in Sent,
           p.kind \in Undoing /\ nic = Uplink => ~ Under(toSwitch, {"md5"}),
           Sending(p)
    PROVE  /\ toSwitch' \in Seq(Sent) /\ AnswersLast'
           /\ nic # Uplink => toSwitch' = toSwitch
           /\ \A kinds : Under(toSwitch', kinds) => Under(toSwitch, kinds) \/ p.kind \in kinds
<1>1. CASE nic = Uplink
  <2>1. toSwitch' = Offer(toSwitch, p, SwitchCap) /\ toSwitch \in Seq(Sent)
    BY <1>1 DEF Sending, TypeOK
  <2>2. toSwitch' \in Seq(Sent)
    BY <2>1, OfferShape
  <2>3. AnswersLast'
    <3>1. Ordered(toSwitch) /\ SwitchCap \in Nat
      BY OrderedIs
    <3>2. Ordered(toSwitch')
      BY <1>1, <2>1, <3>1, OfferOrdered
    <3> QED
      BY <3>2, OrderedIsNext
  <2>4. \A kinds : Under(toSwitch', kinds) => Under(toSwitch, kinds) \/ p.kind \in kinds
    BY <2>1, OfferUnder
  <2> QED
    BY <1>1, <2>2, <2>3, <2>4
<1>2. CASE nic # Uplink
  BY <1>2 DEF Sending, TypeOK, AnswersLast
<1> QED
  BY <1>1, <1>2

LEMMA OpenInterfaceStep ==
    ASSUME LoginInv, OpenInterface
    PROVE  LoginInv'
<1> DEFINE p == Packet("logoff", LogoffId)
           r == Packet("start", LogoffId)
           q == Offer(toSwitch, p, SwitchCap)
<1>1. /\ pc = "open" /\ pc' = "start" /\ late' = FALSE /\ try' = 0 /\ sent' = LogoffId
      /\ UNCHANGED <<nic, last, toHost, port, turn>>
      /\ toSwitch' = IF nic = Uplink THEN Offer(q, r, SwitchCap) ELSE toSwitch
  BY DEF OpenInterface, EnterWait, switchVars
<1>2. TypeOK /\ AnswersLast /\ SuccessLasts /\ Unasked /\ AtTheUplink
  BY DEF LoginInv
<1>3. LogoffId \in Ids /\ p \in Sent /\ r \in Sent /\ p.kind = "logoff" /\ r.kind = "start"
  BY DEF LogoffId, Ids, Packet, Sent
<1>4. nic = Uplink => ~ SuccessSaid /\ ~ Under(toSwitch, {"md5"})
  BY <1>1, <1>2 DEF Unasked, TypeOK
<1>5. SuccessSaid' <=> SuccessSaid
  BY <1>1 DEF SuccessSaid
<1>6. nic \in Int
  BY <1>2 DEF TypeOK
<1>7. /\ pc' \in {"open"} \cup Stages \cup Ended /\ nic' \in 1 .. Nics
      /\ try' \in 0 .. TryTimes - 1 /\ late' \in BOOLEAN
      /\ last' \in Frames /\ sent' \in Ids /\ toHost' \in Seq(Frames)
      /\ port' \in {"open", "closed"} /\ turn' \in Turns
  <2>1. pc' \in {"open"} \cup Stages \cup Ended /\ late' \in BOOLEAN
    BY <1>1 DEF Stages
  <2>2. nic' \in 1 .. Nics /\ try' \in 0 .. TryTimes - 1
    BY <1>1, <1>2 DEF TypeOK
  <2> QED
    BY <1>1, <1>2, <1>3, <2>1, <2>2 DEF TypeOK
<1> HIDE DEF p, r, q
<1>8. CASE nic = Uplink
  <2>1. toSwitch \in Seq(Sent) /\ Ordered(toSwitch)
    BY <1>2, OrderedIs DEF TypeOK
  <2>2. q \in Seq(Sent) /\ Ordered(q) /\ ~ Under(q, {"md5"})
    BY <1>3, <1>4, <1>8, <2>1, OfferShape, OfferUnder, OfferOrdered DEF q
  <2>3. /\ toSwitch' \in Seq(Sent) /\ Ordered(toSwitch') /\ ~ Under(toSwitch', {"md5"})
    BY <1>1, <1>3, <1>8, <2>2, OfferShape, OfferUnder, OfferOrdered
  <2>4. TypeOK'
    BY <1>7, <2>3 DEF TypeOK
  <2>5. AnswersLast'
    BY <2>3, OrderedIsNext
  <2>6. SuccessLasts' /\ Unasked' /\ AtTheUplink'
    BY <1>1, <1>4, <1>5, <1>8, <2>3 DEF SuccessLasts, Unasked, AtTheUplink
  <2> QED
    BY <2>4, <2>5, <2>6 DEF LoginInv
<1>9. CASE nic # Uplink
  <2>1. toSwitch' = toSwitch
    BY <1>1, <1>9
  <2>2. TypeOK'
    BY <1>2, <1>7, <2>1 DEF TypeOK
  <2>3. SuccessLasts'
    BY <1>1, <1>2, <1>5, <2>1 DEF SuccessLasts, Earned, Under
  <2>4. AnswersLast' /\ AtTheUplink'
    BY <1>1, <1>2, <2>1 DEF AnswersLast, AtTheUplink
  <2>5. Unasked'
    BY <1>1, <1>2, <1>5, <2>1 DEF Unasked, Under
  <2> QED
    BY <2>2, <2>3, <2>4, <2>5 DEF LoginInv
<1> QED
  BY <1>8, <1>9

(* Only frames leave or come of the host's own accord: the switch and what *)
(* is under way to it stay. *)
LEMMA QuietStep ==
    ASSUME LoginInv, TypeOK',
           UNCHANGED <<toSwitch, port, turn>>,
           SuccessSaid' => SuccessSaid,
           \/ pc' = pc /\ nic' = nic
           \/ pc' = "failed" /\ nic' = nic
           \/ pc' = "open" /\ nic' = nic + 1 /\ (nic < Uplink => pc \in {"open", "start"})
           \/ pc = "md5" /\ pc' = "ok" /\ nic' = nic /\ SuccessSaid
    PROVE  LoginInv'
<1>1. TypeOK /\ AnswersLast /\ SuccessLasts /\ Unasked /\ AtTheUplink
  BY DEF LoginInv
<1>2. nic \in Int /\ Uplink \in Int
  BY <1>1 DEF TypeOK
<1>3. \A kinds : Under(toSwitch', kinds) <=> Under(toSwitch, kinds)
  BY DEF Under
<1>4. SuccessLasts'
  BY <1>1, <1>3 DEF SuccessLasts, Earned
<1>5. AnswersLast'
  BY <1>1 DEF AnswersLast
<1>6. Unasked'
  BY <1>1, <1>2, <1>3 DEF Unasked
<1>7. AtTheUplink'
  BY <1>1, <1>2 DEF AtTheUplink
<1> QED
  BY <1>4, <1>5, <1>6, <1>7 DEF LoginInv

(* A request or an answer is sent, and waited for. *)
LEMMA SendStep ==
    ASSUME LoginInv, NEW p \in Sent, Sending(p),
           pc' \in Stages, late' = FALSE, try' \in 0 .. TryTimes - 1, nic' = nic,
           last' \in Frames, sent' \in Ids, toHost' \in Seq(Frames),
           UNCHANGED <<port, turn>>,
           SuccessSaid' => SuccessSaid,
           \/ pc = "start" /\ p.kind = "start" /\ pc' = "start"
           \/ nic = Uplink /\ pc \in Stages /\ p.kind = pc' /\ pc' \in {"identity", "md5"}
    PROVE  LoginInv'
<1>1. TypeOK /\ AnswersLast /\ SuccessLasts /\ Unasked /\ AtTheUplink
  BY DEF LoginInv
<1>2. nic \in Int /\ Uplink \in Int
  BY <1>1 DEF TypeOK
<1>3. p.kind \in Undoing => p.kind = "start" /\ pc = "start" /\ pc' = "start"
  BY DEF Undoing
<1>4. p.kind \in Undoing /\ nic = Uplink => ~ SuccessSaid /\ ~ Under(toSwitch, {"md5"})
  BY <1>1, <1>2, <1>3 DEF Unasked
<1>5. /\ toSwitch' \in Seq(Sent) /\ AnswersLast'
      /\ nic # Uplink => toSwitch' = toSwitch
      /\ \A kinds : Under(toSwitch', kinds) => Under(toSwitch, kinds) \/ p.kind \in kinds
  BY <1>1, <1>4, Sends
<1>6. TypeOK'
  <2>1. pc' \in {"open"} \cup Stages \cup Ended /\ late' \in BOOLEAN /\ nic' \in 1 .. Nics
    BY <1>1 DEF TypeOK
  <2>2. port' \in {"open", "closed"} /\ turn' \in Turns
    BY <1>1 DEF TypeOK
  <2> QED
    BY <1>5, <2>1, <2>2 DEF TypeOK
<1>7. SuccessLasts'
  <2>1. SUFFICES ASSUME SuccessSaid
                 PROVE  Earned'
    BY DEF SuccessLasts, Stages
  <2>2. port = "open" /\ turn.st = "idle" /\ ~ Under(toSwitch, Undoing)
    BY <1>1, <2>1 DEF SuccessLasts, Earned
  <2>3. ~ Under(toSwitch', Undoing)
    BY <1>4, <1>5, <2>1, <2>2
  <2> QED
    BY <2>2, <2>3 DEF Earned
<1>8. Unasked'
  <2>1. SUFFICES ASSUME pc' = "start", nic <= Uplink
                 PROVE  ~ SuccessSaid' /\ ~ Under(toSwitch', {"md5"})
    BY DEF Unasked, Stages
  <2>2. pc = "start" /\ p.kind = "start"
    BY <2>1
  <2>3. ~ SuccessSaid /\ ~ Under(toSwitch, {"md5"})
    BY <1>1, <2>1, <2>2 DEF Unasked
  <2> QED
    BY <1>5, <2>2, <2>3
<1>9. AtTheUplink'
  BY <1>1 DEF AtTheUplink, Stages
<1> QED
  BY <1>5, <1>6, <1>7, <1>8, <1>9 DEF LoginInv

LEMMA PacketType ==
    ASSUME NEW k \in {"start", "identity", "md5"}, NEW id \in Ids
    PROVE  Packet(k, id) \in Sent /\ Packet(k, id).kind = k
  BY DEF Packet, Sent

LEMMA ReceivedStep ==
    ASSUME LoginInv, NEW f, Received(f),
           \/ toHost # <<>> /\ f = Head(toHost) /\ toHost' = Tail(toHost)
           \/ f \in Frames /\ f.code # "success" /\ toHost' = toHost
           \/ f = last /\ toHost' = toHost
    PROVE  LoginInv'
<1>1. TypeOK /\ AtTheUplink
  BY DEF LoginInv
<1>2. pc \in Stages /\ last' = f /\ UNCHANGED <<port, turn>>
  BY DEF Received, switchVars
<1>3. /\ f \in Frames /\ f.id \in Ids /\ toHost' \in Seq(Frames)
      /\ f.code = "success" => SuccessSaid
      /\ SuccessSaid' => SuccessSaid
  <2>1. last' = f
    BY <1>2
  <2>2. /\ f \in Frames /\ toHost' \in Seq(Frames)
        /\ f.code = "success" => SuccessSaid
        /\ SuccessSaid' => SuccessSaid
    BY <1>1, <2>1, HeardWasSaid
  <2> QED
    BY <2>2 DEF Frames
<1>4. CASE Proceed(f) /\ pc # "md5"
  <2>1. /\ nic = Uplink /\ nic' = nic /\ late' = FALSE /\ try' = 0
        /\ pc' = After[pc] /\ SendRequest(After[pc], f)
    BY <1>4 DEF Proceed, Matches, ForUs, EnterWait
  <2>2. pc' \in {"identity", "md5"} /\ pc' = After[pc]
    BY <1>2, <1>4, <2>1 DEF After, Stages
  <2>3. Sending(Packet(pc', f.id)) /\ sent' = f.id
    BY <2>1, <2>2 DEF SendRequest
  <2>4. pc' \in Stages /\ try' \in 0 .. TryTimes - 1
    BY <2>1, <2>2 DEF Stages
  <2>5. Packet(pc', f.id) \in Sent /\ Packet(pc', f.id).kind = pc'
    BY <1>3, <2>2, PacketType
  <2> QED
    BY <1>2, <1>3, <2>1, <2>2, <2>3, <2>4, <2>5, SendStep
<1>5. CASE Proceed(f) /\ pc = "md5"
  <2>1. /\ nic' = nic /\ late' = FALSE /\ try' = 0 /\ pc' = "ok"
        /\ UNCHANGED <<sent, toSwitch>> /\ f.code = "success"
    BY <1>5 DEF Proceed, Matches, EnterWait, After, Wanted
  <2>2. TypeOK'
    <3>1. late' \in BOOLEAN
      BY <2>1
    <3>2. try' \in 0 .. TryTimes - 1
      BY <2>1
    <3> QED
      BY <1>1, <1>2, <1>3, <2>1, <3>1, <3>2 DEF TypeOK, Ended
  <2> QED
    BY <1>2, <1>3, <1>5, <2>1, <2>2, QuietStep
<1>6. CASE Refused(f) \/ TriesExhausted(f)
  <2>1. UNCHANGED <<try, late, sent, toSwitch>> /\ NextInterface
    BY <1>6 DEF Refused, TriesExhausted
  <2>2. nic < Uplink => pc \in {"open", "start"}
    BY <1>1, <1>2 DEF TypeOK, AtTheUplink, Stages
  <2>3. CASE nic < Nics
    <3>1. pc' = "open" /\ nic' = nic + 1
      BY <2>1, <2>3 DEF NextInterface
    <3>2. TypeOK'
      BY <1>1, <1>2, <1>3, <2>1, <2>3, <3>1 DEF TypeOK
    <3> QED
      BY <1>2, <1>3, <2>1, <2>2, <3>1, <3>2, QuietStep
  <2>4. CASE ~ nic < Nics
    <3>1. pc' = "failed" /\ nic' = nic
      BY <2>1, <2>4 DEF NextInterface
    <3>2. TypeOK'
      BY <1>1, <1>2, <1>3, <2>1, <3>1 DEF TypeOK, Ended
    <3> QED
      BY <1>2, <1>3, <2>1, <3>1, <3>2, QuietStep
  <2> QED
    BY <2>3, <2>4
<1>7. CASE Ignored(f)
  <2>1. UNCHANGED <<pc, nic, try, late, sent, toSwitch>>
    BY <1>7 DEF Ignored
  <2>2. TypeOK'
    BY <1>1, <1>2, <1>3, <2>1 DEF TypeOK
  <2> QED
    BY <1>2, <1>3, <2>1, <2>2, QuietStep
<1>8. CASE Repeated(f)
  <2>1. /\ try + 1 < TryTimes /\ try' = try + 1 /\ nic' = nic /\ pc' = pc
        /\ late' = FALSE /\ SendRequest(pc, f)
    BY <1>8 DEF Repeated, EnterWait
  <2>2. try' \in 0 .. TryTimes - 1 /\ pc' \in Stages /\ sent \in Ids
    BY <1>1, <1>2, <2>1 DEF TypeOK
  <2>3. CASE pc = "start"
    <3>1. Sending(Packet("start", sent)) /\ sent' = sent
      BY <2>1, <2>3 DEF SendRequest
    <3> QED
      BY <1>2, <1>3, <2>1, <2>2, <2>3, <3>1, PacketType, SendStep
  <2>4. CASE pc # "start"
    <3>1. Sending(Packet(pc, f.id)) /\ sent' = f.id /\ pc \in {"identity", "md5"}
      BY <1>2, <2>1, <2>4 DEF SendRequest, Stages
    <3>2. nic = Uplink
      BY <1>1, <3>1 DEF AtTheUplink
    <3> QED
      BY <1>2, <1>3, <2>1, <2>2, <3>1, <3>2, PacketType, SendStep
  <2> QED
    BY <2>3, <2>4
<1> QED
  BY <1>4, <1>5, <1>6, <1>7, <1>8 DEF Received

LEMMA AloneStep ==
    ASSUME LoginInv, InterfaceFails \/ TimePasses
    PROVE  LoginInv'
<1>1. TypeOK
  BY DEF LoginInv
<1>2. CASE InterfaceFails
  <2>1. /\ pc = "open" /\ NextInterface
        /\ UNCHANGED <<try, late, last, sent, toHost, toSwitch, port, turn>>
    BY <1>2 DEF InterfaceFails, switchVars
  <2>2. SuccessSaid' => SuccessSaid
    BY <2>1 DEF SuccessSaid
  <2>3. CASE nic < Nics
    <3>1. pc' = "open" /\ nic' = nic + 1
      BY <2>1, <2>3 DEF NextInterface
    <3>2. TypeOK'
      BY <1>1, <2>1, <2>3, <3>1 DEF TypeOK
    <3> QED
      BY <2>1, <2>2, <3>1, <3>2, QuietStep
  <2>4. CASE ~ nic < Nics
    <3>1. pc' = "failed" /\ nic' = nic
      BY <2>1, <2>4 DEF NextInterface
    <3>2. TypeOK'
      BY <1>1, <2>1, <3>1 DEF TypeOK, Ended
    <3> QED
      BY <2>1, <2>2, <3>1, <3>2, QuietStep
  <2> QED
    BY <2>3, <2>4
<1>3. CASE TimePasses
  <2>1. late' = TRUE /\ UNCHANGED <<pc, nic, try, last, sent, toHost, toSwitch, port, turn>>
    BY <1>3 DEF TimePasses, switchVars
  <2>2. SuccessSaid' => SuccessSaid
    BY <2>1 DEF SuccessSaid
  <2>3. late' \in BOOLEAN
    BY <2>1
  <2>4. TypeOK'
    BY <1>1, <2>1, <2>3 DEF TypeOK
  <2> QED
    BY <2>1, <2>2, <2>4, QuietStep
<1> QED
  BY <1>2, <1>3

(* A step of the switch or of the link: what it takes to keep LoginInv. *)
LEMMA OutsideStep ==
    ASSUME LoginInv, UNCHANGED hostVars,
           toHost' \in Seq(Frames), toSwitch' \in Seq(Sent),
           port' \in {"open", "closed"}, turn' \in Turns,
           Ordered(toSwitch'),
           Under(toSwitch', {"md5"}) => Under(toSwitch, {"md5"}),
           SuccessSaid' => SuccessSaid \/ Under(toSwitch, {"md5"}),
           (SuccessSaid' \/ pc = "ok") => Earned'
    PROVE  LoginInv'
<1>1. TypeOK /\ AnswersLast /\ Unasked /\ AtTheUplink
  BY DEF LoginInv
<1>2. UNCHANGED <<pc, nic, try, late, last, sent>>
  BY DEF hostVars
<1>3. TypeOK'
  BY <1>1, <1>2 DEF TypeOK
<1>4. AnswersLast'
  BY OrderedIsNext
<1>5. SuccessLasts'
  BY <1>2 DEF SuccessLasts
<1>6. Unasked' /\ AtTheUplink'
  BY <1>1, <1>2 DEF Unasked, AtTheUplink
<1> QED
  BY <1>3, <1>4, <1>5, <1>6 DEF LoginInv

LEMMA TurnType ==
    ASSUME TypeOK
    PROVE  /\ NextId \in Ids /\ turn.id \in Ids /\ LogoffId \in Ids
           /\ [turn EXCEPT !.st = "idle"] \in Turns
           /\ \A st \in {"idle", "identity", "md5"}, id \in Ids :
                 [st |-> st, id |-> id] \in Turns
<1>1. turn \in Turns /\ turn.id \in Ids /\ turn.st \in {"idle", "identity", "md5"}
  BY DEF TypeOK, Turns
<1>2. \A a, b \in Int : b > 0 => a % b \in 0 .. b - 1
  OBVIOUS
<1>3. NextId \in Ids /\ LogoffId \in Ids
  BY <1>1, <1>2 DEF NextId, Ids, LogoffId
<1>4. \A st \in {"idle", "identity", "md5"}, id \in Ids : [st |-> st, id |-> id] \in Turns
  BY DEF Turns
<1>5. [turn EXCEPT !.st = "idle"] \in Turns
  BY <1>1 DEF Turns
<1> QED
  BY <1>1, <1>3, <1>4, <1>5

(* It answers what it hears: a question, unless the port was earned. *)
LEMMA SwitchHandlesStep ==
    ASSUME LoginInv, SwitchHandles
    PROVE  LoginInv'
<1> DEFINE p == Head(toSwitch)
<1>1. /\ TypeOK /\ SuccessLasts /\ AnswersLast
      /\ toSwitch \in Seq(Sent) /\ Ordered(toSwitch)
  BY OrderedIs DEF LoginInv, TypeOK
<1>2. /\ toSwitch # <<>> /\ toSwitch' = Tail(toSwitch) /\ Handles(p) /\ UNCHANGED hostVars
      /\ last' = last /\ pc' = pc
  BY DEF SwitchHandles, hostVars
<1>3. /\ toSwitch' \in Seq(Sent) /\ Ordered(toSwitch')
      /\ p.kind = "md5" => ~ Under(toSwitch, Undoing)
      /\ \A kinds : Under(toSwitch', kinds) => Under(toSwitch, kinds)
      /\ \A kinds : p.kind \in kinds => Under(toSwitch, kinds)
  <2>1. p = toSwitch[1] /\ 1 \in 1 .. Len(toSwitch)
    BY <1>1, <1>2
  <2>2. \A kinds : p.kind \in kinds => Under(toSwitch, kinds)
    BY <2>1 DEF Under
  <2>3. toSwitch' \in Seq(Sent)
    BY <1>1, <1>2, TailShape
  <2>4. Ordered(toSwitch') /\ (p.kind = "md5" => ~ Under(toSwitch, Undoing))
    BY <1>1, <1>2, <2>1, TailOrdered
  <2>5. \A kinds : Under(toSwitch', kinds) => Under(toSwitch, kinds)
    BY <1>1, <1>2, TailUnder
  <2> QED
    BY <2>2, <2>3, <2>4, <2>5
<1>4. /\ NextId \in Ids /\ turn.id \in Ids /\ LogoffId \in Ids
      /\ [turn EXCEPT !.st = "idle"] \in Turns
      /\ turn \in Turns /\ port \in {"open", "closed"}
      /\ \A st \in {"idle", "identity", "md5"}, id \in Ids : [st |-> st, id |-> id] \in Turns
  BY <1>1, TurnType DEF TypeOK
<1>5. \A code \in {"identity", "md5", "success", "failure", "other"}, id \in Ids :
         Says(code, id) => /\ toHost' \in Seq(Frames)
                           /\ SuccessSaid' => SuccessSaid \/ code = "success"
  <2> SUFFICES ASSUME NEW code \in {"identity", "md5", "success", "failure", "other"},
                      NEW id \in Ids, Says(code, id)
               PROVE  /\ toHost' \in Seq(Frames)
                      /\ SuccessSaid' => SuccessSaid \/ code = "success"
    OBVIOUS
  <2> DEFINE f == [code |-> code, id |-> id]
  <2>1. f \in Frames /\ f.code = code
    BY DEF Frames
  <2>2. toHost' = Offer(toHost, f, HostCap)
    BY DEF Says
  <2> HIDE DEF f
  <2> QED
    BY <1>1, <1>2, <2>1, <2>2, SaidNow
<1>6. SuccessSaid \/ pc = "ok" =>
         port = "open" /\ turn.st = "idle" /\ ~ Under(toSwitch, Undoing)
  BY <1>1 DEF SuccessLasts, Earned
<1>13. /\ toSwitch' \in Seq(Sent) /\ Ordered(toSwitch')
       /\ Under(toSwitch', {"md5"}) => Under(toSwitch, {"md5"})
  BY <1>3
<1>14. turn.st \in {"idle", "identity", "md5"} /\ p.kind \in {"start", "logoff", "identity", "md5"}
  <2>1. p \in Sent
    BY <1>1, <1>2, TailShape
  <2> QED
    BY <1>4, <2>1 DEF Turns, Sent
<1> HIDE DEF p
<1>7. CASE p.kind = "start" /\ Asks("identity") /\ UNCHANGED port
  <2>1. /\ toHost' \in Seq(Frames)
        /\ SuccessSaid' => SuccessSaid
        /\ turn' = [st |-> "identity", id |-> NextId]
    BY <1>4, <1>5, <1>7 DEF Asks
  <2>2. Under(toSwitch, Undoing)
    BY <1>3, <1>7 DEF Undoing
  <2>3. turn' \in Turns
    BY <1>4, <2>1
  <2>4. ~ SuccessSaid' /\ pc # "ok"
    BY <1>6, <2>1, <2>2
  <2> QED
    BY <1>2, <1>4, <1>13, <1>7, <2>1, <2>3, <2>4, OutsideStep
<1>8. CASE /\ p.kind = "logoff" /\ Says("failure", LogoffId)
           /\ port' = "closed" /\ turn' = [turn EXCEPT !.st = "idle"]
  <2>1. toHost' \in Seq(Frames) /\ (SuccessSaid' => SuccessSaid)
    BY <1>4, <1>5, <1>8
  <2>2. Under(toSwitch, Undoing)
    BY <1>3, <1>8 DEF Undoing
  <2>4. ~ SuccessSaid' /\ pc # "ok"
    BY <1>6, <2>1, <2>2
  <2> QED
    BY <1>2, <1>4, <1>13, <1>8, <2>1, <2>4, OutsideStep
<1>9. CASE p.kind = turn.st /\ p.kind = "identity" /\ Asks("md5") /\ UNCHANGED port
  <2>1. /\ toHost' \in Seq(Frames)
        /\ SuccessSaid' => SuccessSaid
        /\ turn' = [st |-> "md5", id |-> NextId]
    BY <1>4, <1>5, <1>9 DEF Asks
  <2>2. turn.st # "idle"
    BY <1>9
  <2>3. turn' \in Turns
    BY <1>4, <2>1
  <2>4. ~ SuccessSaid' /\ pc # "ok"
    BY <1>6, <2>1, <2>2
  <2> QED
    BY <1>2, <1>4, <1>13, <1>9, <2>1, <2>3, <2>4, OutsideStep
<1>10. CASE p.kind = turn.st /\ p.kind = "md5" /\ Decides("success", "open")
  <2>1. /\ toHost' \in Seq(Frames) /\ port' = "open"
        /\ turn' = [turn EXCEPT !.st = "idle"]
    BY <1>4, <1>5, <1>10 DEF Decides
  <2>2. Under(toSwitch, {"md5"}) /\ ~ Under(toSwitch', Undoing)
    BY <1>3, <1>10
  <2>3. turn'.st = "idle"
    BY <1>4, <2>1 DEF Turns
  <2>4. Earned'
    BY <2>1, <2>2, <2>3 DEF Earned
  <2> QED
    BY <1>2, <1>4, <1>13, <2>1, <2>2, <2>4, OutsideStep
<1>11. CASE p.kind = turn.st /\ p.kind \in {"identity", "md5"} /\ Decides("failure", "closed")
  <2>1. /\ toHost' \in Seq(Frames)
        /\ SuccessSaid' => SuccessSaid
        /\ port' = "closed" /\ turn' = [turn EXCEPT !.st = "idle"]
    BY <1>4, <1>5, <1>11 DEF Decides
  <2>2. turn.st # "idle"
    BY <1>11
  <2>4. ~ SuccessSaid' /\ pc # "ok"
    BY <1>6, <2>1, <2>2
  <2> QED
    BY <1>2, <1>4, <1>13, <2>1, <2>4, OutsideStep
<1>12. CASE UNCHANGED <<toHost, switchVars>>
  <2>1. toHost' = toHost /\ port' = port /\ turn' = turn /\ toHost \in Seq(Frames)
    BY <1>1, <1>12 DEF switchVars, TypeOK
  <2>2. SuccessSaid' => SuccessSaid
    BY <1>2, <2>1 DEF SuccessSaid
  <2>3. (SuccessSaid' \/ pc = "ok") => Earned'
    BY <1>3, <1>6, <2>1, <2>2 DEF Earned
  <2> QED
    BY <1>2, <1>4, <1>13, <2>1, <2>2, <2>3, OutsideStep
<1> QED
  <2>1. Handles(p)
    BY <1>2
  <2> QED
    BY <1>7, <1>8, <1>9, <1>10, <1>11, <1>12, <1>14, <2>1 DEF Handles

(* It asks again, which changes nothing about a port it has opened. *)
LEMMA SwitchAsksStep ==
    ASSUME LoginInv, SwitchAsks
    PROVE  LoginInv'
<1>1. /\ TypeOK /\ SuccessLasts
      /\ toSwitch \in Seq(Sent) /\ Ordered(toSwitch)
      /\ turn \in Turns /\ turn.st \in {"idle", "identity", "md5"} /\ turn.id \in Ids
      /\ port \in {"open", "closed"}
  BY OrderedIs DEF LoginInv, TypeOK, Turns
<1>2. UNCHANGED hostVars /\ toSwitch' = toSwitch /\ port' = port /\ last' = last /\ pc' = pc
  BY DEF SwitchAsks, hostVars
<1>3. \E code \in {"identity", "md5"}, id \in Ids :
         Says(code, id) /\ turn' \in Turns /\ turn'.st = turn.st
  <2>1. NextId \in Ids
    BY <1>1, TurnType
  <2>2. CASE turn.st # "idle" /\ Says(turn.st, turn.id) /\ UNCHANGED turn
    BY <1>1, <2>2
  <2>3. CASE Says("identity", NextId) /\ turn' = [turn EXCEPT !.id = NextId]
    <3>1. turn' \in Turns /\ turn'.st = turn.st
      BY <1>1, <2>1, <2>3 DEF Turns
    <3> QED
      BY <2>1, <2>3, <3>1
  <2> QED
    BY <2>2, <2>3 DEF SwitchAsks
<1>4. PICK code \in {"identity", "md5"}, id \in Ids :
         Says(code, id) /\ turn' \in Turns /\ turn'.st = turn.st
  BY <1>3
<1> DEFINE f == [code |-> code, id |-> id]
<1>5. f \in Frames /\ f.code # "success"
  BY DEF Frames
<1>6. toHost' = Offer(toHost, f, HostCap)
  BY <1>4 DEF Says
<1> HIDE DEF f
<1>7. toHost' \in Seq(Frames) /\ (SuccessSaid' => SuccessSaid)
  BY <1>1, <1>2, <1>5, <1>6, SaidNow
<1>8. (SuccessSaid' \/ pc = "ok") => Earned'
  BY <1>1, <1>2, <1>4, <1>7 DEF SuccessLasts, Earned, Under
<1> QED
  BY <1>1, <1>2, <1>4, <1>7, <1>8, OutsideStep

(* The keep-alive answers questions for the identity only. *)
LEMMA KeeperAnswersStep ==
    ASSUME LoginInv, KeeperAnswers
    PROVE  LoginInv'
<1> DEFINE p == Packet("identity", Head(toHost).id)
<1>1. /\ TypeOK /\ SuccessLasts
      /\ toSwitch \in Seq(Sent) /\ Ordered(toSwitch) /\ toHost \in Seq(Frames)
      /\ turn \in Turns /\ port \in {"open", "closed"}
  BY OrderedIs DEF LoginInv, TypeOK
<1>2. /\ UNCHANGED hostVars /\ toHost' = toHost /\ port' = port /\ turn' = turn
      /\ last' = last /\ pc' = pc /\ toHost # <<>>
      /\ toSwitch' = Offer(toSwitch, p, SwitchCap)
  BY DEF KeeperAnswers, hostVars, switchVars, Offer
<1>3. p \in Sent /\ p.kind = "identity"
  <2>1. Head(toHost) \in Frames
    BY <1>1, <1>2, TailShape
  <2> QED
    BY <2>1, PacketType DEF Frames
<1> HIDE DEF p
<1>4. toSwitch' \in Seq(Sent) /\ Ordered(toSwitch')
  BY <1>1, <1>2, <1>3, OfferShape, OfferOrdered DEF Undoing
<1>5. \A kinds : Under(toSwitch', kinds) => Under(toSwitch, kinds) \/ p.kind \in kinds
  BY <1>1, <1>2, <1>3, OfferUnder
<1>6. /\ Under(toSwitch', {"md5"}) => Under(toSwitch, {"md5"})
      /\ Under(toSwitch', Undoing) => Under(toSwitch, Undoing)
  BY <1>3, <1>5 DEF Undoing
<1>7. SuccessSaid' => SuccessSaid
  BY <1>2 DEF SuccessSaid
<1>8. (SuccessSaid' \/ pc = "ok") => Earned'
  BY <1>1, <1>2, <1>6, <1>7 DEF SuccessLasts, Earned
<1> QED
  BY <1>1, <1>2, <1>4, <1>6, <1>7, <1>8, OutsideStep

LEMMA FrameLostStep ==
    ASSUME LoginInv, FrameLost
    PROVE  LoginInv'
<1>1. /\ TypeOK /\ SuccessLasts
      /\ toSwitch \in Seq(Sent) /\ Ordered(toSwitch) /\ toHost \in Seq(Frames)
      /\ turn \in Turns /\ port \in {"open", "closed"}
  BY OrderedIs DEF LoginInv, TypeOK
<1>2. /\ UNCHANGED hostVars /\ port' = port /\ turn' = turn /\ last' = last /\ pc' = pc
  BY DEF FrameLost, hostVars, switchVars
<1>3. CASE toHost # <<>> /\ toHost' = Tail(toHost) /\ UNCHANGED toSwitch
  <2>1. toHost' \in Seq(Frames)
    BY <1>1, <1>3, TailShape
  <2>2. SuccessSaid' => SuccessSaid
    BY <1>1, <1>2, <1>3, TailShape DEF SuccessSaid
  <2>3. (SuccessSaid' \/ pc = "ok") => Earned'
    BY <1>1, <1>2, <1>3, <2>2 DEF SuccessLasts, Earned, Under
  <2> QED
    BY <1>1, <1>2, <1>3, <2>1, <2>2, <2>3, OutsideStep
<1>4. CASE toSwitch # <<>> /\ toSwitch' = Tail(toSwitch) /\ UNCHANGED toHost
  <2>1. toSwitch' \in Seq(Sent) /\ Ordered(toSwitch')
    BY <1>1, <1>4, TailShape, TailOrdered
  <2>2. \A kinds : Under(toSwitch', kinds) => Under(toSwitch, kinds)
    BY <1>1, <1>4, TailUnder
  <2>3. Under(toSwitch', {"md5"}) => Under(toSwitch, {"md5"})
    BY <2>2
  <2>4. SuccessSaid' => SuccessSaid
    BY <1>2, <1>4 DEF SuccessSaid
  <2>5. (SuccessSaid' \/ pc = "ok") => Earned'
    BY <1>1, <1>2, <2>2, <2>4 DEF SuccessLasts, Earned
  <2> QED
    BY <1>1, <1>2, <1>4, <2>1, <2>3, <2>4, <2>5, OutsideStep
<1> QED
  BY <1>3, <1>4 DEF FrameLost

-----------------------------------------------------------------------------
LEMMA LoginInit == Init => LoginInv
<1> SUFFICES ASSUME Init PROVE LoginInv
  OBVIOUS
<1>1. /\ pc \in {"open", "failed"} /\ nic = 1 /\ try = 0 /\ late = FALSE
      /\ last = Blank /\ sent = 0 /\ toHost = <<>> /\ toSwitch = <<>>
      /\ port \in {"open", "closed"} /\ turn = [st |-> "idle", id |-> 0]
  BY DEF Init
<1>2. 0 \in Ids /\ 0 \in 0 .. TryTimes - 1 /\ 1 \in 1 .. Nics
  BY DEF Ids
<1>3. Blank \in Frames /\ Blank.code = "other" /\ turn \in Turns
  BY <1>1, <1>2 DEF Blank, Frames, Turns
<1>4. late \in BOOLEAN
  BY <1>1
<1>5. toHost \in Seq(Frames) /\ toSwitch \in Seq(Sent) /\ Len(toHost) = 0 /\ Len(toSwitch) = 0
  BY <1>1
<1>6. TypeOK
  BY <1>1, <1>2, <1>3, <1>4, <1>5 DEF TypeOK, Ended
<1>7. ~ SuccessSaid /\ pc # "ok" /\ ~ Under(toSwitch, {"md5"})
  BY <1>1, <1>3, <1>5 DEF SuccessSaid, Under
<1>8. AnswersLast
  BY <1>5 DEF AnswersLast
<1> QED
  BY <1>1, <1>6, <1>7, <1>8 DEF LoginInv, SuccessLasts, Unasked, AtTheUplink

LEMMA LoginNext ==
    ASSUME LoginInv, [Next]_vars
    PROVE  LoginInv'
<1>1. CASE UNCHANGED vars
  BY <1>1 DEF vars, hostVars, switchVars, LoginInv, TypeOK, SuccessLasts, SuccessSaid, Earned,
              Under, AnswersLast, Unasked, AtTheUplink
<1>2. CASE HearSwitch
  BY <1>2, ReceivedStep DEF HearSwitch
<1>3. CASE HearOther
  <2>1. PICK id \in Ids : Received([code |-> "other", id |-> id])
    BY <1>3 DEF HearOther
  <2>2. [code |-> "other", id |-> id] \in Frames
    BY DEF Frames
  <2> QED
    BY <1>3, <2>1, <2>2, ReceivedStep DEF HearOther
<1>4. CASE HearNothing
  BY <1>4, ReceivedStep DEF HearNothing
<1> QED
  BY <1>1, <1>2, <1>3, <1>4, OpenInterfaceStep, AloneStep, SwitchHandlesStep, SwitchAsksStep,
     KeeperAnswersStep, FrameLostStep DEF Next

(* The variables of the login keep to their types whatever the switch says *)
(* and however the frames of eapol.c are lost.                             *)
THEOREM LoginTyped == Spec => []TypeOK
<1>1. LoginInv => TypeOK
  BY DEF LoginInv
<1> QED
  BY LoginInit, LoginNext, <1>1, PTL DEF Spec

(* When eaplogin returns 0, the switch has the port open: for every number *)
(* of interfaces, wherever among them the switch is, for every TRY_TIMES,  *)
(* every range of ids and whatever was left over from an earlier process.  *)
THEOREM SuccessEarned == Spec => []SuccessIsEarned
<1>1. LoginInv => SuccessIsEarned
  BY DEF LoginInv, SuccessLasts, SuccessIsEarned, Earned
<1> QED
  BY LoginInit, LoginNext, <1>1, PTL DEF Spec

-----------------------------------------------------------------------------
(* The login goes forward only. *)

LEMMA Product ==
    ASSUME NEW k \in Nat, NEW w \in Nat
    PROVE  k * w \in Nat /\ (k + 1) * w = k * w + w
  OBVIOUS

WaitsCounted ==
    /\ WaitsHere \in Nat /\ (pc \notin Ended => WaitsHere >= 1)
    /\ pc \in Ended => WaitsHere = 0
    /\ Nics - nic \in Nat /\ (Nics - nic) * (3 * TryTimes + 1) \in Nat
    /\ WaitsLeft \in Nat

LEMMA WaitsRange == TypeOK => WaitsCounted
<1> SUFFICES ASSUME TypeOK PROVE WaitsCounted
  OBVIOUS
<1>1. /\ pc \in {"open", "start", "identity", "md5", "ok", "failed"}
      /\ try \in 0 .. TryTimes - 1 /\ TryTimes \in Nat
  BY DEF TypeOK, Stages, Ended
<1>2. /\ WaitsHere \in Nat /\ (pc \notin Ended => WaitsHere >= 1)
      /\ pc \in Ended => WaitsHere = 0
  <2>1. CASE pc \in Ended
    <3>1. WaitsHere = 0
      BY <2>1 DEF WaitsHere, Ended
    <3> QED
      BY <2>1, <3>1
  <2>2. CASE pc = "md5"
    BY <1>1, <2>2 DEF WaitsHere, Ended
  <2>3. CASE pc = "identity"
    BY <1>1, <2>3 DEF WaitsHere, Ended
  <2>4. CASE pc = "start"
    BY <1>1, <2>4 DEF WaitsHere, Ended
  <2>5. CASE pc = "open"
    BY <1>1, <2>5 DEF WaitsHere, Ended
  <2> QED
    BY <1>1, <2>1, <2>2, <2>3, <2>4, <2>5 DEF Ended
<1>3. Nics - nic \in Nat
  BY DEF TypeOK
<1>4. (Nics - nic) * (3 * TryTimes + 1) \in Nat
  <2>1. 3 * TryTimes + 1 \in Nat
    BY <1>1
  <2> QED
    BY <1>3, <2>1, Product
<1> QED
  BY <1>2, <1>3, <1>4 DEF WaitsLeft, WaitsCounted

LEMMA WaitsRangeNext == TypeOK' => WaitsCounted'
  BY WaitsRange, PTL

(* One wait fewer is two parts fewer, and the new one may be whole. *)
LEMMA FewerParts ==
    ASSUME TypeOK, TypeOK', WaitsLeft' < WaitsLeft
    PROVE  PartsLeft' \in 0 .. PartsLeft - 1
<1>1. WaitsLeft \in Nat /\ WaitsLeft' \in Nat
  BY WaitsRange, WaitsRangeNext DEF WaitsCounted
<1>2. PartsLeft \in {2 * WaitsLeft, 2 * WaitsLeft + 1}
  BY <1>1 DEF PartsLeft
<1>3. PartsLeft' \in {2 * WaitsLeft', 2 * WaitsLeft' + 1}
  BY <1>1 DEF PartsLeft
<1>4. PICK a \in Nat, b \in Nat : a = WaitsLeft /\ b = WaitsLeft'
  BY <1>1
<1>5. PICK p, q : p = PartsLeft /\ q = PartsLeft'
  OBVIOUS
<1>6. q \in 0 .. p - 1
  <2>1. b < a
    BY <1>4
  <2>2. p \in {2 * a, 2 * a + 1} /\ q \in {2 * b, 2 * b + 1}
    BY <1>2, <1>3, <1>4, <1>5
  <2> QED
    BY <2>1, <2>2
<1> QED
  BY <1>5, <1>6

LEMMA FewerHere ==
    ASSUME TypeOK, TypeOK', nic' = nic, WaitsHere' < WaitsHere
    PROVE  PartsLeft' \in 0 .. PartsLeft - 1
<1>1. /\ (Nics - nic) * (3 * TryTimes + 1) \in Nat
      /\ WaitsHere \in Nat /\ WaitsHere' \in Nat
  BY WaitsRange, WaitsRangeNext DEF WaitsCounted
<1>2. WaitsLeft' = (Nics - nic) * (3 * TryTimes + 1) + WaitsHere'
  BY DEF WaitsLeft
<1>3. WaitsLeft' < WaitsLeft
  BY <1>1, <1>2 DEF WaitsLeft
<1> QED
  BY <1>3, FewerParts

LEMMA NextInterfaceAdvances ==
    ASSUME TypeOK, TypeOK', NextInterface, pc \notin Ended
    PROVE  PartsLeft' \in 0 .. PartsLeft - 1
<1>0. /\ WaitsHere \in Nat /\ WaitsHere >= 1
      /\ Nics \in Nat /\ nic \in Nat /\ Nics - nic \in Nat /\ 3 * TryTimes + 1 \in Nat
  BY WaitsRange DEF TypeOK, WaitsCounted
<1>1. CASE nic < Nics
  <2>1. pc' = "open" /\ nic' = nic + 1
    BY <1>1 DEF NextInterface
  <2>2. WaitsHere' = 3 * TryTimes + 1
    BY <2>1 DEF WaitsHere, Ended
  <2>3. Nics - nic' \in Nat /\ (Nics - nic') + 1 = Nics - nic
    BY <1>0, <1>1, <2>1
  <2> DEFINE w == 3 * TryTimes + 1
             k == Nics - nic'
  <2>4. (k + 1) * w = k * w + w /\ k * w \in Nat
    BY <1>0, <2>3, Product
  <2>5. WaitsLeft' = k * w + w
    BY <2>2 DEF WaitsLeft
  <2>6. WaitsLeft = (k + 1) * w + WaitsHere
    BY <2>3 DEF WaitsLeft
  <2> HIDE DEF w, k
  <2>7. w \in Nat
    BY <1>0 DEF w
  <2>8. WaitsLeft' < WaitsLeft
    BY <1>0, <2>4, <2>5, <2>6, <2>7
  <2> QED
    BY <2>8, FewerParts
<1>2. CASE ~ (nic < Nics)
  <2>1. pc' = "failed" /\ nic' = nic
    BY <1>2 DEF NextInterface
  <2>2. WaitsHere' = 0
    BY <2>1 DEF WaitsHere, Ended
  <2> QED
    BY <1>0, <2>1, <2>2, FewerHere
<1> QED
  BY <1>1, <1>2

LEMMA ReceivedAdvances ==
    ASSUME TypeOK, TypeOK', NEW f, Received(f)
    PROVE  \/ UNCHANGED <<pc, nic, try, late>>
           \/ PartsLeft' \in 0 .. PartsLeft - 1
<1>0. /\ pc \in Stages /\ pc \notin Ended
      /\ try \in 0 .. TryTimes - 1 /\ TryTimes \in Nat
  BY DEF Received, Stages, Ended, TypeOK
<1>1. CASE Proceed(f)
  <2>1. nic' = nic /\ try' = 0 /\ pc' = After[pc]
    BY <1>1 DEF Proceed, EnterWait
  <2>2. WaitsHere' < WaitsHere
    <3>1. CASE pc = "start"
      <4>1. pc' = "identity"
        BY <2>1, <3>1 DEF After
      <4>2. WaitsHere = 3 * TryTimes - try
        BY <3>1 DEF WaitsHere, Ended
      <4>3. WaitsHere' = 2 * TryTimes - 0
        BY <2>1, <4>1 DEF WaitsHere, Ended
      <4> QED
        BY <1>0, <4>2, <4>3
    <3>2. CASE pc = "identity"
      <4>1. pc' = "md5"
        BY <2>1, <3>2 DEF After
      <4>2. WaitsHere = 2 * TryTimes - try
        BY <3>2 DEF WaitsHere, Ended
      <4>3. WaitsHere' = TryTimes - 0
        BY <2>1, <4>1 DEF WaitsHere, Ended
      <4> QED
        BY <1>0, <4>2, <4>3
    <3>3. CASE pc = "md5"
      <4>1. pc' = "ok"
        BY <2>1, <3>3 DEF After
      <4>2. WaitsHere' = 0
        BY <4>1 DEF WaitsHere, Ended
      <4> QED
        BY <1>0, <4>2, WaitsRange DEF WaitsCounted
    <3> QED
      BY <1>0, <3>1, <3>2, <3>3 DEF Stages
  <2> QED
    BY <2>1, <2>2, FewerHere
<1>2. CASE Refused(f)
  BY <1>0, <1>2, NextInterfaceAdvances DEF Refused
<1>3. CASE Ignored(f)
  BY <1>3 DEF Ignored
<1>4. CASE Repeated(f)
  <2>1. pc' = pc /\ nic' = nic /\ try' = try + 1
    BY <1>4 DEF Repeated, EnterWait
  <2>2. WaitsHere' < WaitsHere
    <3>1. CASE pc = "start"
      <4>1. WaitsHere = 3 * TryTimes - try /\ WaitsHere' = 3 * TryTimes - (try + 1)
        BY <2>1, <3>1 DEF WaitsHere, Ended
      <4> QED
        BY <1>0, <4>1
    <3>2. CASE pc = "identity"
      <4>1. WaitsHere = 2 * TryTimes - try /\ WaitsHere' = 2 * TryTimes - (try + 1)
        BY <2>1, <3>2 DEF WaitsHere, Ended
      <4> QED
        BY <1>0, <4>1
    <3>3. CASE pc = "md5"
      <4>1. WaitsHere = TryTimes - try /\ WaitsHere' = TryTimes - (try + 1)
        BY <2>1, <3>3 DEF WaitsHere, Ended
      <4> QED
        BY <1>0, <4>1
    <3> QED
      BY <1>0, <3>1, <3>2, <3>3 DEF Stages
  <2> QED
    BY <2>1, <2>2, FewerHere
<1>5. CASE TriesExhausted(f)
  BY <1>0, <1>5, NextInterfaceAdvances DEF TriesExhausted
<1> QED
  BY <1>1, <1>2, <1>3, <1>4, <1>5 DEF Received

LEMMA AdvanceStep ==
    ASSUME TypeOK, TypeOK', [Next]_vars
    PROVE  \/ UNCHANGED <<pc, nic, try, late>>
           \/ PartsLeft' \in 0 .. PartsLeft - 1
<1>1. CASE OpenInterface
  <2>1. pc = "open" /\ pc' = "start" /\ try' = 0 /\ nic' = nic
    BY <1>1 DEF OpenInterface, EnterWait
  <2>2. WaitsHere = 3 * TryTimes + 1 /\ WaitsHere' = 3 * TryTimes - 0
    BY <2>1 DEF WaitsHere, Ended
  <2>3. WaitsHere' < WaitsHere
    BY <2>2
  <2> QED
    BY <2>1, <2>3, FewerHere
<1>2. CASE InterfaceFails
  <2>1. pc \notin Ended
    BY <1>2 DEF InterfaceFails, Ended
  <2> QED
    BY <1>2, <2>1, NextInterfaceAdvances DEF InterfaceFails
<1>3. CASE HearSwitch
  BY <1>3, ReceivedAdvances DEF HearSwitch
<1>4. CASE HearOther
  <2>1. PICK id \in Ids : Received([code |-> "other", id |-> id])
    BY <1>4 DEF HearOther
  <2> QED
    BY <2>1, ReceivedAdvances
<1>5. CASE HearNothing
  BY <1>5, ReceivedAdvances DEF HearNothing
<1>6. CASE TimePasses
  <2>1. /\ pc \in Stages /\ late = FALSE /\ late' = TRUE /\ UNCHANGED <<pc, nic, try>>
    BY <1>6 DEF TimePasses, TypeOK
  <2>2. WaitsLeft' = WaitsLeft /\ WaitsLeft \in Nat
    BY <2>1, WaitsRange DEF WaitsLeft, WaitsHere, WaitsCounted
  <2>3. PartsLeft = 2 * WaitsLeft + 1
    BY <2>1 DEF PartsLeft
  <2>4. PartsLeft' = 2 * WaitsLeft + 0
    BY <2>1, <2>2 DEF PartsLeft
  <2> QED
    BY <2>2, <2>3, <2>4
<1>7. CASE SwitchHandles \/ SwitchAsks \/ KeeperAnswers \/ FrameLost \/ UNCHANGED vars
  BY <1>7 DEF SwitchHandles, SwitchAsks, KeeperAnswers, FrameLost, vars, hostVars
<1> QED
  BY <1>1, <1>2, <1>3, <1>4, <1>5, <1>6, <1>7 DEF Next

(* No frame, of whatever sender, and no lost one takes the login back: for *)
(* every number of interfaces and of tries its stages, their tries and the *)
(* two parts of each wait are a measure that only falls.  LoginEnds rests  *)
(* on it; what else that takes is traffic, and is left to TLC.             *)
THEOREM LoginGoesForward == Spec => LoginAdvances
<1>1. LoginInv /\ [Next]_vars =>
         [\/ UNCHANGED <<pc, nic, try, late>>
          \/ PartsLeft' \in 0 .. PartsLeft - 1]_vars
  BY LoginNext, AdvanceStep DEF LoginInv
<1> QED
  BY <1>1, LoginInit, LoginNext, PTL DEF Spec, LoginAdvances
=============================================================================
