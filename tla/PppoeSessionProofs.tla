------------------------- MODULE PppoeSessionProofs --------------------------
(***************************************************************************)
(* Theorems of PppoeSession for every value of its constants: its types,   *)
(* and that keepalive_2 takes no answer to an older packet.  They rest on  *)
(* the inductive invariants TypeInv and RoundInv of PppoeOrder.            *)
(***************************************************************************)
EXTENDS PppoeOrder, ExchangeProofs, FiniteSetTheorems

USE RetryPolicyAssumption, PppoeAssumption

-----------------------------------------------------------------------------
(* The types. *)

LEMMA NumberedType ==
    ASSUME TypeOK, NEW kind \in {"pppoeChallenge", "pppoeLogin"}, SendNumbered(kind)
    PROVE  UdpTypeOK' /\ number' \in Counters
<1>1. kind \in Kinds /\ number \in IdsOf(kind) /\ Begin(kind, number)
  BY DEF TypeOK, SendNumbered, Kinds, IdsOf
<1>2. number' \in Counters
  BY UdpAssumption DEF TypeOK, SendNumbered, Counters
<1> QED
  BY <1>1, <1>2, BeginType DEF TypeOK

LEMMA TypeStep ==
    ASSUME TypeInv, [Next]_vars
    PROVE  TypeOK'
<1>0. TypeOK /\ UdpTypeOK /\ TriesLeft /\ NoDhcpLogin
  BY DEF TypeInv, TypeOK
<1>a. TryTimes \in Nat
  OBVIOUS
<1>1. CASE Startup \/ StopAtLoop \/ WakeUp \/ RequestStop \/ UNCHANGED vars
  BY <1>0, <1>1
  DEF Startup, StopAtLoop, WakeUp, RequestStop, vars, clientVars, udpVars, TypeOK, UdpTypeOK,
      Pcs, Exited
<1>2. CASE SendChallenge
  BY <1>0, <1>2, NumberedType DEF SendChallenge, TypeOK, Pcs
<1>3. CASE SendLogin
  BY <1>0, <1>3, NumberedType DEF SendLogin, TypeOK, Pcs
<1>4. CASE ChallengeFails
  <2>1. UdpTypeOK'
    BY <1>0, <1>4, IdleSocketType DEF ChallengeFails
  <2>2. tries' \in 0 .. TryTimes
    BY <1>0, <1>4 DEF ChallengeFails, TriesLeft, TypeOK, Exited
  <2>3. pc' \in Pcs
    BY <1>4 DEF ChallengeFails, Pcs, Exited
  <2> QED
    BY <1>0, <1>4, <2>1, <2>2, <2>3 DEF ChallengeFails, TypeOK
<1>5. CASE LoginFails \/ RoundDone \/ RoundFails
  BY <1>0, <1>5, IdleSocketType DEF LoginFails, RoundDone, RoundFails, TypeOK, Pcs
<1>6. CASE AwaitNotice
  BY <1>0, <1>6, ListenType DEF AwaitNotice, clientVars, TypeOK
<1>7. CASE StartRound
  BY <1>0, <1>7, SendKeepalive2Type DEF StartRound, BeginKeepalive2, TypeOK, Pcs
<1>8. CASE RoundStep
  BY <1>0, <1>8, SendKeepalive2Type DEF RoundStep, ExtraAnswered, FirstAnswered, TypeOK
<1>9. CASE WaitStep
  BY <1>0, <1>9, WaitType DEF WaitStep, clientVars, TypeOK
<1>10. CASE NetworkStep
  BY <1>0, <1>10, NetworkType DEF NetworkStep, clientVars, TypeOK
<1>11. CASE ServerHandles /\ UNCHANGED clientVars
  <2>1. session' = None
    <3>1. PICK i \in Arrivals(toServer) : HandleLogin(toServer[i]) \/ HandleOther(toServer[i])
      BY <1>11 DEF ServerHandles
    <3>2. toServer[i].kind # "login"
      BY <1>0, <3>1, LenProperties DEF NoDhcpLogin, Asked, Arrivals, UdpTypeOK
    <3> QED
      BY <1>0, <3>1, <3>2 DEF HandleLogin, HandleOther, TypeOK
  <2>2. UdpTypeOK'
    BY <1>0, <1>11, ServerType DEF ServerNext, TypeOK
  <2> QED
    BY <1>0, <1>11, <2>1, <2>2 DEF clientVars, TypeOK
<1>12. CASE Stray /\ UNCHANGED clientVars
  <2>1. session' = None
    BY <1>0, <1>12 DEF Stray, TypeOK
  <2>2. UdpTypeOK'
    BY <1>0, <1>12, ServerType DEF TypeOK
  <2> QED
    BY <1>0, <1>12, <2>1, <2>2 DEF clientVars, TypeOK
<1> QED
  BY <1>1, <1>2, <1>3, <1>4, <1>5, <1>6, <1>7, <1>8, <1>9, <1>10, <1>11, <1>12
  DEF Next, ClientStep, ServerStep

(* What the calls leave behind, by their kinds. *)
LEMMA NumberedEffect ==
    ASSUME NEW kind, SendNumbered(kind)
    PROVE  xch'.st \in {"wait", "failed"} /\ xch'.kind = kind
BY BeginEffect DEF SendNumbered

LEMMA ControlStep ==
    ASSUME TypeInv, [Next]_vars
    PROVE  TriesLeft' /\ CallOfPlace'
<1>0. TypeOK /\ UdpTypeOK /\ TriesLeft /\ CallOfPlace /\ tries \in Nat
  BY DEF TypeInv, TypeOK
<1> USE DEF TriesLeft, CallOfPlace
<1>1. CASE Startup \/ StopAtLoop \/ WakeUp \/ RequestStop \/ UNCHANGED vars
  BY <1>0, <1>1
  DEF Startup, StopAtLoop, WakeUp, RequestStop, vars, clientVars, udpVars, Exited
<1>2. CASE SendChallenge
  BY <1>0, <1>2, NumberedEffect DEF SendChallenge, Exited
<1>3. CASE SendLogin
  BY <1>0, <1>3, NumberedEffect DEF SendLogin, Exited
<1>4. CASE ChallengeFails
  <2>1. TriesLeft'
    BY <1>0, <1>4 DEF ChallengeFails, Exited
  <2> QED
    BY <1>4, <2>1 DEF ChallengeFails, Idle
<1>5. CASE LoginFails \/ RoundDone \/ RoundFails
  BY <1>0, <1>5 DEF LoginFails, RoundDone, RoundFails, Exited, Idle
<1>6. CASE AwaitNotice
  BY <1>0, <1>6, ListenEffect DEF AwaitNotice, clientVars
<1>7. CASE StartRound
  <2>1. xch'.kind \in {"extra", "first"}
    BY <1>7, BeginEffect DEF StartRound, BeginKeepalive2, SendKeepalive2
  <2> QED
    BY <1>0, <1>7, <2>1 DEF StartRound, Exited
<1>8. CASE RoundStep
  <2>1. xch'.kind \in {"first", "third"}
    BY <1>8, BeginEffect DEF RoundStep, ExtraAnswered, FirstAnswered, SendKeepalive2
  <2> QED
    BY <1>0, <1>8, <2>1 DEF RoundStep, Exited
<1>9. CASE WaitStep
  <2>1. xch.st = "wait" /\ xch'.kind = xch.kind
    BY <1>0, <1>9, WaitEffect DEF WaitStep
  <2> QED
    BY <1>0, <1>9, <2>1 DEF WaitStep, clientVars
<1>10. CASE NetworkStep \/ ServerStep
  <2>1. UNCHANGED <<pc, tries, xch>>
    BY <1>10
    DEF NetworkStep, ServerStep, clientVars, Network, LoseRequest, LoseReply, DuplicateReply,
        ServerHandles, Stray
  <2> QED
    BY <1>0, <2>1
<1> QED
  BY <1>1, <1>2, <1>3, <1>4, <1>5, <1>6, <1>7, <1>8, <1>9, <1>10
  DEF Next, ClientStep

LEMMA BeginsNoLogin ==
    ASSUME UdpTypeOK, NoDhcpLogin, NEW kind \in Kinds \ {"login"}, NEW id \in IdsOf(kind),
           Begin(kind, id)
    PROVE  NoDhcpLogin'
<1>1. \A i \in Asked' :
        \/ i \in Asked /\ toServer'[i].kind = toServer[i].kind
        \/ toServer'[i] = [kind |-> kind, id |-> id, fresh |-> TRUE]
  BY BeginQueues
<1>2. [kind |-> kind, id |-> id, fresh |-> TRUE].kind # "login"
  OBVIOUS
<1> QED
  BY <1>1, <1>2 DEF NoDhcpLogin

LEMMA NoDhcpLoginStep ==
    ASSUME TypeInv, [Next]_vars
    PROVE  NoDhcpLogin'
<1>0. TypeOK /\ UdpTypeOK /\ NoDhcpLogin /\ CallOfPlace /\ toServer \in Seq(Requests)
  BY DEF TypeInv, TypeOK, UdpTypeOK
<1>1. CASE UNCHANGED toServer
  BY <1>0, <1>1 DEF NoDhcpLogin, Asked
<1>2. ASSUME NEW kind \in {"pppoeChallenge", "pppoeLogin"}, SendNumbered(kind)
      PROVE  NoDhcpLogin'
  <2>1. kind \in Kinds \ {"login"} /\ number \in IdsOf(kind) /\ Begin(kind, number)
    BY <1>0, <1>2 DEF TypeOK, SendNumbered, Kinds, IdsOf
  <2> QED
    BY <1>0, <2>1, BeginsNoLogin
<1>3. ASSUME NEW kind \in {"extra", "first", "third"}, SendKeepalive2(kind)
      PROVE  NoDhcpLogin'
  <2>1. kind \in Kinds \ {"login"} /\ counter \in IdsOf(kind) /\ Begin(kind, counter)
    BY <1>0, <1>3 DEF TypeOK, SendKeepalive2, Kinds, IdsOf
  <2> QED
    BY <1>0, <2>1, BeginsNoLogin
<1>4. ASSUME NEW i \in 1 .. Len(toServer), toServer' = Without(toServer, i)
      PROVE  NoDhcpLogin'
  <2>1. Follows(toServer', toServer)
    BY <1>0, <1>4, WithoutFollows
  <2>2. \A j \in Asked' : \E k \in Asked : toServer'[j] = toServer[k]
    BY <2>1, FollowsEach DEF Asked
  <2> QED
    BY <1>0, <2>2 DEF NoDhcpLogin
<1>5. CASE Timeout
  <2>1. xch.kind # "login"
    BY <1>0, <1>5 DEF Timeout, CallOfPlace
  <2> QED
    BY <1>0, <1>5, <2>1, TimeoutQueues DEF NoDhcpLogin, Asked
<1>6. CASE ServerHandles \/ LoseRequest
  <2>1. PICK i \in DOMAIN toServer : toServer' = Without(toServer, i)
    BY <1>6 DEF ServerHandles, LoseRequest, Arrivals
  <2>2. i \in 1 .. Len(toServer)
    BY <1>0, <2>1, LenProperties
  <2> QED
    BY <1>4, <2>1, <2>2
<1> QED
  BY <1>1, <1>2, <1>3, <1>5, <1>6
  DEF Next, ClientStep, WaitStep, NetworkStep, ServerStep, Wait, Network, vars, udpVars,
      Startup, StopAtLoop, SendChallenge, ChallengeFails, SendLogin, LoginFails, AwaitNotice,
      StartRound, RoundStep, RoundDone, RoundFails, WakeUp, RequestStop, Listen,
      BeginKeepalive2, ExtraAnswered, FirstAnswered, ReceiveExpected, IgnoreUnexpected,
      LoseReply, DuplicateReply, Stray

LEMMA InitTypes == Init => TypeInv
<1> SUFFICES ASSUME Init PROVE TypeInv
  OBVIOUS
<1>1. UdpTypeOK
  <2>1. <<>> \in Seq(Requests) /\ <<>> \in Seq(Datagrams)
    OBVIOUS
  <2> QED
    BY <2>1, IdleType DEF Init, UdpTypeOK
<1>2. 0 \in Counters /\ TryTimes \in Nat \ {0}
  BY UdpAssumption DEF Counters
<1>3. TypeOK
  <2>1. stop \in BOOLEAN /\ loginFirst \in BOOLEAN /\ first \in BOOLEAN
    BY DEF Init
  <2>2. counter \in Counters /\ number \in Counters /\ tries \in 0 .. TryTimes /\ pc \in Pcs
    BY <1>2 DEF Init, Pcs
  <2> QED
    BY <1>1, <2>1, <2>2 DEF Init, TypeOK
<1>4. TriesLeft /\ NoDhcpLogin /\ CallOfPlace
  BY <1>2 DEF Init, TriesLeft, NoDhcpLogin, CallOfPlace, Asked, Idle
<1> QED
  BY <1>3, <1>4 DEF TypeInv

(* TypeInv is an invariant of the client. *)
THEOREM Invariance == Spec => []TypeInv
<1>1. TypeInv /\ [Next]_vars => TypeInv'
  BY TypeStep, ControlStep, NoDhcpLoginStep DEF TypeInv
<1> QED
  BY <1>1, InitTypes, PTL DEF Spec

(* Every state of the client has the types TypeOK states; the server never *)
(* opens a session for it.                                                 *)
THEOREM TypeCorrectness == Spec => []TypeOK
<1>1. TypeInv => TypeOK
  BY DEF TypeInv
<1> QED
  BY <1>1, Invariance, PTL

-----------------------------------------------------------------------------
(* The way out after a stop. *)

LEMMA CallsCounted ==
    /\ \A kind : CallsToEnd(kind) \in 3 .. 8
    /\ CallsToEnd("third") = 3 /\ CallsToEnd("first") = 4 /\ CallsToEnd("extra") = 5
    /\ CallsToEnd("notice") = 6 /\ CallsToEnd("pppoeLogin") = 7
    /\ CallsToEnd("pppoeChallenge") = 8
BY DEF CallsToEnd

PlacesCounted == PlacesToEnd \in Nat

LEMMA PlacesRange == TypeOK => PlacesCounted
<1> SUFFICES ASSUME TypeOK PROVE PlacesToEnd \in Nat
  BY DEF PlacesCounted
<1>1. pc \in Pcs /\ CallsToEnd(xch.kind) \in Nat
  BY CallsCounted DEF TypeOK
<1> QED
  BY <1>1 DEF PlacesToEnd, Pcs, Exited

LEMMA PlacesRangeNext == TypeOK' => PlacesCounted'
BY PlacesRange, PTL

(* The places, read off pc before and after a step. *)
PlacesOfPc ==
    /\ pc \in Exited => PlacesToEnd = 0
    /\ pc \in {"start", "loop"} => PlacesToEnd = 1
    /\ pc \in {"pause", "nap"} => PlacesToEnd = 2
    /\ pc \in {"challenge", "login", "round"} => PlacesToEnd = CallsToEnd(xch.kind)

LEMMA PlacesOf == PlacesOfPc
BY DEF PlacesOfPc, PlacesToEnd, Exited

LEMMA PlacesOfNext == PlacesOfPc'
BY PlacesOf, PTL

(* From what call to what call the steps of the thread lead. *)
CallEnds ==
    \/ pc = "challenge" /\ xch.kind = "pppoeChallenge" /\ pc' \in {"pause", "exit1"}
    \/ pc = "login" /\ xch.kind = "pppoeLogin" /\ pc' = "loop"
    \/ pc = "round" /\ xch.kind \in {"extra", "first", "third"} /\ pc' = "loop"
    \/ pc = "round" /\ xch.kind = "third" /\ pc' = "nap"

CallFollows ==
    \/ pc = "challenge" /\ xch.kind = "pppoeChallenge" /\ pc' = "login" /\ xch'.kind = "pppoeLogin"
    \/ pc = "login" /\ xch.kind = "pppoeLogin" /\ pc' = "login" /\ xch'.kind = "notice"
    \/ pc = "login" /\ xch.kind = "notice" /\ pc' = "round" /\ xch'.kind \in {"extra", "first"}
    \/ pc = "round" /\ xch.kind = "extra" /\ pc' = "round" /\ xch'.kind = "first"
    \/ pc = "round" /\ xch.kind = "first" /\ pc' = "round" /\ xch'.kind = "third"

Between ==
    \/ pc = "start" /\ pc' \in {"loop", "exit0", "exit1"}
    \/ pc = "loop" /\ pc' = "exit0"
    \/ pc \in {"pause", "nap"} /\ pc' = "loop"

LEMMA ClientTurns ==
    ASSUME TypeInv, ClientStep
    PROVE  \/ Between /\ tries' = tries /\ (stop /\ pc = "start" => pc' \in Exited)
           \/ SendChallenge
           \/ ChallengeFails /\ CallEnds
           \/ (CallEnds \/ CallFollows) /\ tries' = tries /\ pc' \notin Exited \cup {"pause"}
<1>0. CallOfPlace
  BY DEF TypeInv
<1>1. CASE Startup \/ StopAtLoop \/ WakeUp
  BY <1>1 DEF Startup, StopAtLoop, WakeUp, Between, Exited
<1>2. CASE ChallengeFails
  BY <1>2 DEF ChallengeFails, NotHeard, CallEnds
<1>3. CASE SendLogin
  <2>1. pc = "challenge" /\ xch.kind = "pppoeChallenge" /\ pc' = "login"
        /\ xch'.kind = "pppoeLogin" /\ tries' = tries
    BY <1>3, NumberedEffect DEF SendLogin, Heard, Answered
  <2> QED
    BY <2>1 DEF CallFollows, Exited
<1>4. CASE LoginFails
  BY <1>4 DEF LoginFails, NotHeard, CallEnds, Exited
<1>5. CASE AwaitNotice
  <2>1. pc = "login" /\ xch.kind = "pppoeLogin" /\ pc' = "login"
        /\ xch'.kind = "notice" /\ tries' = tries
    BY <1>5, ListenEffect DEF AwaitNotice, Heard, Answered, clientVars
  <2> QED
    BY <2>1 DEF CallFollows, Exited
<1>6. CASE StartRound
  <2>1. pc = "login" /\ xch.kind = "notice" /\ pc' = "round"
        /\ xch'.kind \in {"extra", "first"} /\ tries' = tries
    BY <1>6, BeginEffect DEF StartRound, BeginKeepalive2, SendKeepalive2
  <2> QED
    BY <2>1 DEF CallFollows, Exited
<1>7. CASE RoundStep
  <2>1. pc = "round" /\ pc' = "round" /\ tries' = tries
    BY <1>7 DEF RoundStep
  <2>2. \/ xch.kind = "extra" /\ xch'.kind = "first"
        \/ xch.kind = "first" /\ xch'.kind = "third"
    BY <1>7, BeginEffect DEF RoundStep, ExtraAnswered, FirstAnswered, SendKeepalive2, Answered
  <2> QED
    BY <2>1, <2>2 DEF CallFollows, Exited
<1>8. CASE RoundDone
  BY <1>8 DEF RoundDone, Keepalive2Done, Answered, CallEnds, Exited
<1>9. CASE RoundFails
  BY <1>0, <1>9 DEF RoundFails, CallOfPlace, CallEnds, Exited
<1> QED
  BY <1>1, <1>2, <1>3, <1>4, <1>5, <1>6, <1>7, <1>8, <1>9 DEF ClientStep

(* Fewer places, less to go. *)
LEMMA Nearer ==
    ASSUME TypeOK, TypeOK', PlacesToEnd' < PlacesToEnd
    PROVE  WayOut' \in 0 .. WayOut /\ WayOut' < WayOut
<1>1. /\ PlacesToEnd \in Nat /\ PlacesToEnd' \in Nat
      /\ WaitLeft \in Nat /\ WaitLeft' \in 0 .. RetryCount + 2
  BY PlacesRange, PlacesRangeNext, WaitRange, WaitRangeNext, UdpAssumption
  DEF TypeOK, PlacesCounted, WaitBounded
<1>2. WayOut' = PlacesToEnd' * LongestWait + WaitLeft'
  BY DEF WayOut, LongestWait
<1> QED
  BY <1>1, <1>2, FewerPlaces DEF WayOut

(* What the thread does on its own leads on, once the flag is raised. *)
LEMMA ThreadLeadsOut ==
    ASSUME TypeInv, stop, ClientStep
    PROVE  PlacesToEnd' < PlacesToEnd
<1> USE CallsCounted, PlacesOf, PlacesOfNext DEF PlacesOfPc
<1>1. CASE Between /\ (pc = "start" => pc' \in Exited)
  BY <1>1 DEF Between, Exited
<1>2. CASE CallEnds
  <2>1. PlacesToEnd \in {3, 4, 5, 7, 8}
    BY <1>2 DEF CallEnds
  <2>2. PlacesToEnd' \in {0, 1, 2}
    BY <1>2 DEF CallEnds, Exited
  <2> QED
    BY <2>1, <2>2
<1>3. CASE CallFollows
  BY <1>3 DEF CallFollows
<1>4. ~ SendChallenge
  BY DEF SendChallenge
<1> QED
  BY <1>1, <1>2, <1>3, <1>4, ClientTurns

LEMMA OthersStand ==
    ASSUME [Next]_vars, ~ ClientStep, ~ WaitStep
    PROVE  xch' = xch /\ pc' = pc /\ tries' = tries
BY DEF Next, NetworkStep, Network, LoseRequest, LoseReply, DuplicateReply, ServerStep,
   ServerHandles, Stray, RequestStop, vars, udpVars, clientVars

LEMMA StepLeadsOut ==
    ASSUME TypeInv, TypeOK', stop, [Next]_vars
    PROVE  /\ WayOut' \in 0 .. WayOut
           /\ ClientStep \/ TimeoutStep => WayOut' < WayOut
<1>0. TypeOK /\ UdpTypeOK
  BY DEF TypeInv, TypeOK
<1>1. CASE ClientStep
  BY <1>0, <1>1, ThreadLeadsOut, Nearer
<1>2. CASE WaitStep /\ ~ ClientStep
  <2>1. xch'.kind = xch.kind /\ pc' = pc /\ Wait
    BY <1>0, <1>2, WaitShortens DEF WaitStep, clientVars
  <2>2. PlacesToEnd' = PlacesToEnd /\ PlacesToEnd \in Nat
    BY <1>0, <2>1, PlacesRange DEF PlacesToEnd, PlacesCounted
  <2>3. WayOut' = PlacesToEnd * LongestWait + WaitLeft'
    BY <2>2 DEF WayOut, LongestWait
  <2> QED
    BY <1>0, <1>2, <2>1, <2>2, <2>3, WaitLeadsOn DEF WayOut, TimeoutStep
<1>3. TimeoutStep => WaitStep
  BY DEF TimeoutStep, WaitStep, Wait
<1>4. CASE ~ ClientStep /\ ~ WaitStep
  <2>1. xch' = xch /\ pc' = pc
    BY <1>4, OthersStand
  <2>2. WayOut' = WayOut
    BY <2>1 DEF WayOut, PlacesToEnd, WaitLeft, LongestWait
  <2>3. PlacesToEnd * LongestWait \in Nat /\ WaitLeft \in Nat
    BY <1>0, Multiples, PlacesRange, WaitRange, UdpAssumption
    DEF LongestWait, PlacesCounted, WaitBounded
  <2>4. WayOut \in Nat
    BY <2>3 DEF WayOut
  <2> QED
    BY <1>3, <1>4, <2>2, <2>4
<1> QED
  BY <1>1, <1>2, <1>4

(* After a stop the PPPoE client has at most WayOut steps and timeouts     *)
(* ahead of it, whatever it is sent: the measure behind StopIsHonoured.    *)
THEOREM StopsLeadOut == Spec => StopLeadsOut
<1>1. TypeInv /\ TypeInv' /\ [Next]_vars =>
         [stop =>
            /\ WayOut' \in 0 .. WayOut
            /\ WayOut' = WayOut => ~ (ClientStep \/ TimeoutStep)]_vars
  BY StepLeadsOut DEF TypeInv
<1> QED
  BY <1>1, Invariance, PTL DEF Spec, StopLeadsOut

-----------------------------------------------------------------------------
(* Silence, and the tries it uses up. *)

DefeatCounted == PlacesToFailure \in 0 .. 9 /\ PlacesToDefeat \in Nat

LEMMA DefeatRange == TypeOK => DefeatCounted
<1> SUFFICES ASSUME TypeOK PROVE DefeatCounted
  OBVIOUS
<1>1. pc \in Pcs /\ TryTimes - tries \in Nat
  BY DEF TypeOK
<1>2. CallsToEnd(xch.kind) + 1 \in 4 .. 9
  BY CallsCounted
<1>3. PlacesToFailure \in 0 .. 9
  BY <1>1, <1>2 DEF PlacesToFailure, Pcs, Exited
<1> QED
  BY <1>1, <1>3 DEF DefeatCounted, PlacesToDefeat

LEMMA DefeatRangeNext == TypeOK' => DefeatCounted'
BY DefeatRange, PTL

(* The places to the next failed challenge, read off pc. *)
FailureOfPc ==
    /\ pc \in Exited => PlacesToFailure = 0
    /\ pc = "challenge" /\ xch.st # "got" => PlacesToFailure = 1
    /\ pc = "challenge" /\ xch.st = "got" => PlacesToFailure = CallsToEnd(xch.kind) + 1
    /\ pc = "loop" => PlacesToFailure = 2
    /\ pc \in {"start", "pause", "nap"} => PlacesToFailure = 3
    /\ pc \in {"login", "round"} => PlacesToFailure = CallsToEnd(xch.kind) + 1

LEMMA FailureOf == FailureOfPc
BY DEF FailureOfPc, PlacesToFailure, Exited

LEMMA FailureOfNext == FailureOfPc'
BY FailureOf, PTL

LEMMA NearerDefeat ==
    ASSUME TypeOK, TypeOK', PlacesToDefeat' < PlacesToDefeat
    PROVE  Patience' \in 0 .. Patience /\ Patience' < Patience
<1>1. /\ PlacesToDefeat \in Nat /\ PlacesToDefeat' \in Nat
      /\ WaitLeft \in Nat /\ WaitLeft' \in 0 .. RetryCount + 2
  BY DefeatRange, DefeatRangeNext, WaitRange, WaitRangeNext, UdpAssumption
  DEF TypeOK, DefeatCounted, WaitBounded
<1>2. Patience' = PlacesToDefeat' * LongestWait + WaitLeft'
  BY DEF Patience, LongestWait
<1> QED
  BY <1>1, <1>2, FewerPlaces DEF Patience

(* A step that leaves the tries alone leads to a challenge ... *)
LEMMA LeadsToChallenge ==
    ASSUME TypeOK, TypeOK', tries' = tries, PlacesToFailure' < PlacesToFailure
    PROVE  PlacesToDefeat' < PlacesToDefeat
<1>1. PICK t \in Nat, k \in 0 .. 9, l \in 0 .. 9 :
         t = (TryTimes - tries) * 10 /\ k = PlacesToFailure /\ l = PlacesToFailure'
  <2>1. (TryTimes - tries) * 10 \in Nat
    BY DEF TypeOK
  <2>2. PlacesToFailure \in 0 .. 9 /\ PlacesToFailure' \in 0 .. 9
    BY DefeatRange, DefeatRangeNext DEF DefeatCounted
  <2> QED
    BY <2>1, <2>2
<1>2. PlacesToDefeat = t + k /\ PlacesToDefeat' = t + l
  BY <1>1 DEF PlacesToDefeat
<1>3. t + l < t + k
  BY <1>1
<1> QED
  BY <1>2, <1>3

(* ... and the challenge that fails is worth all the way to the next. *)
LEMMA TryIsWorthIt ==
    ASSUME TypeInv, TypeOK', ~ Eternal, ChallengeFails
    PROVE  PlacesToDefeat' < PlacesToDefeat
<1>0. TypeOK /\ TriesLeft
  BY DEF TypeInv
<1>1. tries' = tries + 1 /\ pc' \in {"pause", "exit1"} /\ pc = "challenge"
  BY DEF ChallengeFails
<1>2. PlacesToFailure' \in {0, 3} /\ PlacesToFailure \in 0 .. 9
  BY <1>0, <1>1, DefeatRange, FailureOfNext DEF FailureOfPc, DefeatCounted, Exited
<1>3. PICK t \in Nat : t = TryTimes - tries /\ 1 <= t
  BY <1>0, <1>1 DEF TypeOK, TriesLeft, Exited
<1>4. TryTimes - tries' = t - 1
  BY <1>0, <1>1, <1>3 DEF TypeOK
<1>5. PICK k \in 0 .. 9, l \in {0, 3} : k = PlacesToFailure /\ l = PlacesToFailure'
  BY <1>2
<1>6. PlacesToDefeat = t * 10 + k /\ PlacesToDefeat' = (t - 1) * 10 + l
  BY <1>3, <1>4, <1>5 DEF PlacesToDefeat
<1>7. (t - 1) * 10 + l < t * 10 + k
  BY <1>3, <1>5
<1> QED
  BY <1>6, <1>7

LEMMA ThreadLosesPatience ==
    ASSUME TypeInv, TypeOK', ~ Eternal, ClientStep
    PROVE  PlacesToDefeat' < PlacesToDefeat
<1>0. TypeOK
  BY DEF TypeInv
<1> USE CallsCounted, FailureOf, FailureOfNext DEF FailureOfPc
<1>1. CASE Between /\ tries' = tries
  <2>1. PlacesToFailure' < PlacesToFailure
    BY <1>1 DEF Between, Exited
  <2> QED
    BY <1>0, <1>1, <2>1, LeadsToChallenge
<1>2. CASE SendChallenge
  <2>1. pc = "loop" /\ pc' = "challenge" /\ xch'.st # "got" /\ tries' = tries
    BY <1>2, NumberedEffect DEF SendChallenge
  <2>2. PlacesToFailure' < PlacesToFailure
    BY <2>1
  <2> QED
    BY <1>0, <2>1, <2>2, LeadsToChallenge
<1>3. CASE ChallengeFails
  BY <1>3, TryIsWorthIt
<1>4. CASE CallEnds /\ tries' = tries /\ pc' \notin Exited \cup {"pause"}
  <2>1. PlacesToFailure \in {4, 5, 6, 8}
    BY <1>4 DEF CallEnds, Exited
  <2>2. PlacesToFailure' \in {2, 3}
    BY <1>4 DEF CallEnds, Exited
  <2>3. PlacesToFailure' < PlacesToFailure
    BY <2>1, <2>2
  <2> QED
    BY <1>0, <1>4, <2>3, LeadsToChallenge
<1>5. CASE CallFollows /\ tries' = tries
  <2>1. pc = "challenge" => xch.st = "got"
    <3>1. pc = "challenge" /\ pc' = "login" => SendLogin
      BY DEF ClientStep, Startup, StopAtLoop, SendChallenge, ChallengeFails, LoginFails,
         AwaitNotice, StartRound, RoundStep, RoundDone, RoundFails, WakeUp
    <3> QED
      BY <1>5, <3>1 DEF CallFollows, SendLogin, Heard, Answered
  <2>2. PlacesToFailure' < PlacesToFailure
    BY <1>5, <2>1 DEF CallFollows
  <2> QED
    BY <1>0, <1>5, <2>2, LeadsToChallenge
<1> QED
  BY <1>1, <1>2, <1>3, <1>4, <1>5, ClientTurns

LEMMA StepLosesPatience ==
    ASSUME TypeInv, TypeOK', ~ Eternal, ~ (xch.st = "wait" /\ xch'.st = "got"), [Next]_vars
    PROVE  /\ Patience' \in 0 .. Patience
           /\ ClientStep \/ TimeoutStep => Patience' < Patience
<1>0. TypeOK /\ UdpTypeOK
  BY DEF TypeInv, TypeOK
<1>1. CASE ClientStep
  BY <1>0, <1>1, ThreadLosesPatience, NearerDefeat
<1>2. CASE WaitStep /\ ~ ClientStep
  <2>1. xch'.kind = xch.kind /\ pc' = pc /\ tries' = tries /\ Wait
    BY <1>0, <1>2, WaitShortens DEF WaitStep, clientVars
  <2>2. xch.st = "wait" /\ xch'.st # "got"
    BY <1>0, <2>1, WaitEffect
  <2>3. PlacesToDefeat' = PlacesToDefeat /\ PlacesToDefeat \in Nat
    BY <1>0, <2>1, <2>2, DefeatRange DEF PlacesToDefeat, PlacesToFailure, DefeatCounted
  <2>4. Patience' = PlacesToDefeat * LongestWait + WaitLeft'
    BY <2>3 DEF Patience, LongestWait
  <2> QED
    BY <1>0, <1>2, <2>1, <2>3, <2>4, WaitLeadsOn DEF Patience, TimeoutStep
<1>3. TimeoutStep => WaitStep
  BY DEF TimeoutStep, WaitStep, Wait
<1>4. CASE ~ ClientStep /\ ~ WaitStep
  <2>1. xch' = xch /\ pc' = pc /\ tries' = tries
    BY <1>4, OthersStand
  <2>2. Patience' = Patience
    BY <2>1 DEF Patience, PlacesToDefeat, PlacesToFailure, WaitLeft, LongestWait
  <2>3. PlacesToDefeat * LongestWait \in Nat /\ WaitLeft \in Nat
    BY <1>0, Multiples, DefeatRange, WaitRange, UdpAssumption
    DEF LongestWait, DefeatCounted, WaitBounded
  <2>4. Patience \in Nat
    BY <2>3 DEF Patience
  <2> QED
    BY <1>3, <1>4, <2>2, <2>4
<1> QED
  BY <1>1, <1>2, <1>4

(* Without -e silence can not be waited out: while no datagram is taken    *)
(* every step uses up Patience, which is finite for every try_times and    *)
(* RETRY_COUNT.  The measure behind SilenceEndsTheClient.                  *)
THEOREM SilenceCounts == Spec => SilenceIsCounted
<1>1. TypeInv /\ TypeInv' /\ [Next]_vars =>
         [~ Eternal /\ ~ (xch.st = "wait" /\ xch'.st = "got") =>
            /\ Patience' \in 0 .. Patience
            /\ Patience' = Patience => ~ (ClientStep \/ TimeoutStep)]_vars
  BY StepLosesPatience DEF TypeInv
<1> QED
  BY <1>1, Invariance, PTL DEF Spec, SilenceIsCounted

-----------------------------------------------------------------------------
(* Counting the datagrams of the server in a queue. *)

LEMMA UptoFinite ==
    ASSUME NEW S, NEW q \in Seq(S), NEW i
    PROVE  /\ IsFiniteSet(Upto(q, i)) /\ Cardinality(Upto(q, i)) \in Nat
           /\ Cardinality(Upto(q, i)) <= Len(q)
<1>1. Len(q) \in Nat /\ 1 \in Int
  OBVIOUS
<1> DEFINE n == Len(q)
<1>2. IsFiniteSet(1 .. n) /\ Cardinality(1 .. n) = IF 1 > n THEN 0 ELSE n - 1 + 1
  <2>1. n \in Int
    BY <1>1
  <2> HIDE DEF n
  <2> QED
    BY <1>1, <2>1, FS_Interval, Zenon
<1>3. Cardinality(1 .. n) <= n
  BY <1>1, <1>2
<1>4. Upto(q, i) \in SUBSET (1 .. n)
  BY DEF Upto
<1> HIDE DEF n
<1>5. /\ IsFiniteSet(Upto(q, i)) /\ Cardinality(Upto(q, i)) <= Cardinality(1 .. n)
  BY <1>2, <1>4, FS_Subset, Zenon
<1>6. Cardinality(Upto(q, i)) \in Nat /\ Cardinality(1 .. n) \in Nat
  BY <1>2, <1>5, FS_CardinalityType
<1> QED
  BY <1>1, <1>3, <1>5, <1>6 DEF n

(* One-to-one into a set, and past one of its elements. *)
LEMMA Injected ==
    ASSUME NEW S, NEW T, IsFiniteSet(T), NEW f \in [S -> T],
           \A x, y \in S : f[x] = f[y] => x = y
    PROVE  /\ IsFiniteSet(S) /\ Cardinality(S) <= Cardinality(T)
           /\ \A t \in T : (\A x \in S : f[x] # t) => Cardinality(S) + 1 <= Cardinality(T)
<1>1. f \in Injection(S, T)
  BY DEF Injection, IsInjective
<1>2. IsFiniteSet(S) /\ Cardinality(S) <= Cardinality(T)
  BY <1>1, FS_Injection, Zenon
<1>3. ASSUME NEW t \in T, \A x \in S : f[x] # t
      PROVE  Cardinality(S) + 1 <= Cardinality(T)
  <2> DEFINE R == T \ {t}
  <2>1. f \in Injection(S, R)
    <3>1. f \in [S -> R]
      BY <1>3
    <3> QED
      BY <3>1 DEF Injection, IsInjective
  <2>2. IsFiniteSet(R) /\ Cardinality(R) = Cardinality(T) - 1
    BY <1>3, FS_RemoveElement
  <2> HIDE DEF R
  <2>3. Cardinality(S) <= Cardinality(R)
    BY <2>1, <2>2, FS_Injection, Zenon
  <2>4. Cardinality(S) \in Nat /\ Cardinality(T) \in Nat
    BY <1>2, FS_CardinalityType
  <2> QED
    BY <2>2, <2>3, <2>4
<1> QED
  BY <1>2, <1>3

(* The j-th of w was the k-th of q before the p-th was taken out. *)
WasAt(q, p, w, j, k) ==
    /\ w[j] = q[k]
    /\ Cardinality(Upto(w, j)) <= Cardinality(Upto(q, k))
    /\ p = 1 /\ q[p].from = "server" =>
          Cardinality(Upto(w, j)) + 1 <= Cardinality(Upto(q, k))

(* A datagram taken out of the queue brings those behind it one ahead. *)
LEMMA TakenOut ==
    ASSUME NEW S, NEW q \in Seq(S), NEW p \in 1 .. Len(q), NEW w, w = Without(q, p)
    PROVE  /\ w \in Seq(S) /\ Len(w) = Len(q) - 1
           /\ Cardinality(Upto(w, Len(w))) <= Cardinality(Upto(q, Len(q)))
           /\ q[p].from = "server" =>
                 Cardinality(Upto(w, Len(w))) + 1 <= Cardinality(Upto(q, Len(q)))
           /\ \A j \in 1 .. Len(w) : \E k \in 1 .. Len(q) : WasAt(q, p, w, j, k)
<1> DEFINE s(j) == IF j < p THEN j ELSE j + 1
<1>1. /\ w \in Seq(S) /\ Len(w) = Len(q) - 1 /\ Len(q) \in Nat /\ p \in Nat /\ p >= 1
      /\ \A j \in 1 .. Len(w) : w[j] = q[s(j)] /\ s(j) \in 1 .. Len(q)
  <2>1. Len(q) \in Nat /\ p \in DOMAIN q /\ p \in Nat /\ p >= 1
    OBVIOUS
  <2>2. /\ Len(Without(q, p)) = Len(q) - 1
        /\ \A j \in 1 .. Len(q) - 1 : Without(q, p)[j] = IF j < p THEN q[j] ELSE q[j + 1]
    BY <2>1, WithoutShape, Zenon
  <2>3. w \in Seq(S)
    BY <2>1, WithoutType, Zenon
  <2> QED
    BY <2>1, <2>2, <2>3
<1>2. ASSUME NEW j \in Nat, NEW k \in Nat, j <= Len(w), k = IF j < p THEN j ELSE j + 1
      PROVE  /\ Cardinality(Upto(w, j)) <= Cardinality(Upto(q, k))
             /\ p <= k /\ q[p].from = "server" =>
                   Cardinality(Upto(w, j)) + 1 <= Cardinality(Upto(q, k))
  <2> DEFINE f == [x \in Upto(w, j) |-> s(x)]
  <2>1. f \in [Upto(w, j) -> Upto(q, k)]
    <3>1. \A x \in Upto(w, j) : x \in 1 .. Len(w) /\ x <= j /\ w[x].from = "server"
      BY DEF Upto
    <3>2. \A x \in Upto(w, j) : s(x) \in 1 .. Len(q) /\ s(x) <= k
      BY <1>1, <1>2, <3>1
    <3>3. \A x \in Upto(w, j) : q[s(x)].from = "server"
      BY <1>1, <3>1
    <3> HIDE DEF s
    <3>4. \A x \in Upto(w, j) : s(x) \in Upto(q, k)
      BY <3>2, <3>3 DEF Upto
    <3> QED
      BY <3>4
  <2>2. \A x, y \in Upto(w, j) : f[x] = f[y] => x = y
    BY <1>1 DEF Upto
  <2>3. \A x \in Upto(w, j) : f[x] # p
    BY <1>1 DEF Upto
  <2>4. IsFiniteSet(Upto(q, k))
    BY UptoFinite
  <2>5. p <= k /\ q[p].from = "server" => p \in Upto(q, k)
    BY DEF Upto
  <2> HIDE DEF f
  <2> QED
    BY <2>1, <2>2, <2>3, <2>4, <2>5, Injected
<1>3. ASSUME NEW j \in 1 .. Len(w)
      PROVE  \E k \in 1 .. Len(q) : WasAt(q, p, w, j, k)
  <2>1. PICK k : k = s(j)
    OBVIOUS
  <2>2. k \in Nat /\ j \in Nat /\ j <= Len(w) /\ k \in 1 .. Len(q) /\ w[j] = q[k]
    BY <1>1, <2>1
  <2>3. p = 1 => p <= k
    BY <2>2
  <2> QED
    BY <1>2, <2>1, <2>2, <2>3 DEF WasAt
<1>4. /\ Cardinality(Upto(w, Len(w))) <= Cardinality(Upto(q, Len(q)))
      /\ q[p].from = "server" =>
            Cardinality(Upto(w, Len(w))) + 1 <= Cardinality(Upto(q, Len(q)))
  <2>1. PICK l : l = Len(w)
    OBVIOUS
  <2>2. CASE p = Len(q)
    <3> DEFINE f == [x \in Upto(w, l) |-> x]
    <3>1. f \in [Upto(w, l) -> Upto(q, Len(q))]
      BY <1>1, <2>1, <2>2 DEF Upto
    <3>2. \A x, y \in Upto(w, l) : f[x] = f[y] => x = y
      OBVIOUS
    <3>3. \A x \in Upto(w, l) : f[x] # p
      BY <1>1, <2>1, <2>2 DEF Upto
    <3>4. IsFiniteSet(Upto(q, Len(q)))
      BY UptoFinite
    <3>5. q[p].from = "server" => p \in Upto(q, Len(q))
      BY <1>1 DEF Upto
    <3> HIDE DEF f
    <3> QED
      BY <2>1, <3>1, <3>2, <3>3, <3>4, <3>5, Injected
  <2>3. CASE p # Len(q)
    <3>1. l \in Nat /\ l <= Len(w) /\ Len(q) = (IF l < p THEN l ELSE l + 1) /\ p <= Len(q)
      BY <1>1, <2>1, <2>3
    <3> QED
      BY <1>1, <1>2, <2>1, <3>1
  <2> QED
    BY <2>2, <2>3
<1> QED
  BY <1>1, <1>3, <1>4

(* One added at the end of the queue leaves the others where they are. *)
LEMMA AddedLast ==
    ASSUME NEW S, NEW q \in Seq(S), NEW d \in S, NEW cap \in Nat,
           NEW w, w = Offer(q, d, cap)
    PROVE  /\ w \in Seq(S) /\ Len(w) \in {Len(q), Len(q) + 1}
           /\ Len(q) <= cap => Len(w) <= cap
           /\ \A i \in 1 .. Len(q) : w[i] = q[i] /\ Upto(w, i) = Upto(q, i)
           /\ \A i \in 1 .. Len(w) : i \notin 1 .. Len(q) => i = Len(q) + 1 /\ w[i] = d
           /\ Cardinality(Upto(w, Len(w))) <=
                 Cardinality(Upto(q, Len(q))) + (IF d.from = "server" THEN 1 ELSE 0)
<1>1. /\ w \in Seq(S) /\ Len(w) \in {Len(q), Len(q) + 1} /\ Len(q) \in Nat
      /\ \A i \in 1 .. Len(q) : w[i] = q[i]
      /\ \A i \in 1 .. Len(w) : i \notin 1 .. Len(q) => i = Len(q) + 1 /\ w[i] = d
  <2>1. Len(q) \in Nat
    OBVIOUS
  <2>2. /\ Offer(q, d, cap) \in Seq(S)
        /\ Len(Offer(q, d, cap)) \in {Len(q), Len(q) + 1}
        /\ \A i \in 1 .. Len(q) : Offer(q, d, cap)[i] = q[i]
        /\ \A i \in 1 .. Len(Offer(q, d, cap)) :
              i \notin 1 .. Len(q) => i = Len(q) + 1 /\ Offer(q, d, cap)[i] = d
    BY OfferShape
  <2> QED
    BY <2>1, <2>2
<1>2. Len(q) <= cap => Len(w) <= cap
  <2>1. CASE Len(q) < cap
    BY <1>1, <2>1
  <2>2. CASE ~ Len(q) < cap
    BY <1>1, <2>2 DEF Offer
  <2> QED
    BY <2>1, <2>2
<1>3. \A i \in 1 .. Len(q) : Upto(w, i) = Upto(q, i)
  BY <1>1 DEF Upto
<1> DEFINE A == Upto(q, Len(q))
<1>4. IsFiniteSet(A) /\ Cardinality(A) \in Nat
  BY UptoFinite
<1>5. CASE d.from = "server"
  <2>1. Upto(w, Len(w)) \in SUBSET (A \cup {Len(q) + 1})
    BY <1>1 DEF Upto
  <2> HIDE DEF A
  <2>2. IsFiniteSet(A \cup {Len(q) + 1}) /\ Cardinality(A \cup {Len(q) + 1}) <= Cardinality(A) + 1
    <3>1. PICK x : x = Len(q) + 1
      OBVIOUS
    <3>2. /\ IsFiniteSet(A \cup {x})
          /\ Cardinality(A \cup {x}) = IF x \in A THEN Cardinality(A) ELSE Cardinality(A) + 1
      BY <1>4, FS_AddElement, Zenon
    <3> QED
      BY <1>4, <3>1, <3>2
  <2>3. Cardinality(Upto(w, Len(w))) <= Cardinality(A \cup {Len(q) + 1})
    BY <2>1, <2>2, FS_Subset, Zenon
  <2>4. Cardinality(Upto(w, Len(w))) \in Nat /\ Cardinality(A \cup {Len(q) + 1}) \in Nat
    BY <1>1, <2>2, UptoFinite, FS_CardinalityType
  <2>5. Cardinality(Upto(w, Len(w))) <= Cardinality(A) + 1
    BY <1>4, <2>2, <2>3, <2>4
  <2> QED
    BY <1>1, <1>2, <1>3, <1>5, <2>5 DEF A
<1>6. CASE d.from # "server"
  <2>1. Upto(w, Len(w)) \in SUBSET A
    BY <1>1, <1>6 DEF Upto
  <2> HIDE DEF A
  <2>2. Cardinality(Upto(w, Len(w))) <= Cardinality(A)
    BY <1>4, <2>1, FS_Subset, Zenon
  <2>3. Cardinality(Upto(w, Len(w))) <= Cardinality(A) + 0
    BY <1>4, <2>2
  <2> QED
    BY <1>1, <1>2, <1>3, <1>6, <2>3 DEF A
<1> QED
  BY <1>5, <1>6

-----------------------------------------------------------------------------
(* The queues stay within their bounds, and strays are no answers. *)

LEMMA CountTypes ==
    ASSUME UdpTypeOK
    PROVE  /\ Len(toServer) \in Nat /\ Len(toClient) \in Nat
           /\ \A i : Ahead(i) \in Nat
           /\ Replies \in Nat /\ Replies <= Len(toClient)
           /\ \A i \in Said : Ahead(i) >= 1
<1>1. toServer \in Seq(Requests) /\ toClient \in Seq(Datagrams)
  BY DEF UdpTypeOK
<1>2. /\ \A i : Ahead(i) \in Nat /\ IsFiniteSet(Upto(toClient, i))
      /\ Replies \in Nat /\ Replies <= Len(toClient)
  BY <1>1, UptoFinite DEF Ahead, Replies
<1>3. ASSUME NEW i \in Said PROVE Ahead(i) >= 1
  <2>1. i \in Upto(toClient, i)
    BY DEF Said, Upto
  <2>2. Cardinality(Upto(toClient, i)) # 0
    BY <1>2, <2>1, FS_EmptySet
  <2> QED
    BY <1>2, <2>2 DEF Ahead
<1> QED
  BY <1>1, <1>2, <1>3

(* A request begun moves no datagram. *)
LEMMA BeginCounts ==
    ASSUME UdpTypeOK, NEW kind \in Kinds, NEW id \in IdsOf(kind), Begin(kind, id)
    PROVE  /\ Len(toClient') = Len(toClient)
           /\ \A i \in 1 .. Len(toClient) : /\ toClient'[i].from = toClient[i].from
                                            /\ toClient'[i].first = toClient[i].first
           /\ \A i : Upto(toClient', i) = Upto(toClient, i)
           /\ \A i : Ahead(i)' = Ahead(i)
           /\ Replies' = Replies
<1>1. /\ Len(toClient') = Len(toClient)
      /\ \A i \in 1 .. Len(toClient) :
            toClient[i] \in Datagrams /\ toClient'[i] = [toClient[i] EXCEPT !.fresh = FALSE]
  BY BeginQueues
<1>2. \A i \in 1 .. Len(toClient) :
        toClient'[i].from = toClient[i].from /\ toClient'[i].first = toClient[i].first
  BY <1>1, AgedFields
<1>3. \A i : Upto(toClient', i) = Upto(toClient, i)
  BY <1>1, <1>2 DEF Upto
<1>4. \A i : Ahead(i)' = Ahead(i)
  BY <1>3 DEF Ahead
<1> QED
  BY <1>1, <1>2, <1>3, <1>4 DEF Replies, Ahead

LEMMA FitBegin ==
    ASSUME UdpTypeOK, NEW kind \in Kinds, NEW id \in IdsOf(kind), Begin(kind, id),
           QueuesFit, StraysAreNoAnswers
    PROVE  QueuesFit' /\ StraysAreNoAnswers'
<1> DEFINE request == [kind |-> kind, id |-> id, fresh |-> TRUE]
           old == Aged(toServer)
<1>1. StraysAreNoAnswers' /\ Len(toClient') <= ReplyCap
  BY BeginCounts DEF QueuesFit, StraysAreNoAnswers
<1>2. request \in Requests
  BY DEF Requests, IdsOf, Ids
<1>3. old \in Seq(Requests) /\ Len(old) = Len(toServer) /\ RequestCap \in Nat
  BY AgedRequests, AgedLength, UdpAssumption DEF UdpTypeOK
<1>4. toServer' = old \/ toServer' = Offer(old, request, RequestCap)
  BY DEF Begin
<1> HIDE DEF old, request
<1>5. Len(toServer') <= RequestCap
  BY <1>2, <1>3, <1>4, AddedLast DEF QueuesFit
<1> QED
  BY <1>1, <1>5 DEF QueuesFit

(* What is taken out of a queue leaves it within its bounds. *)
LEMMA FitFewer ==
    ASSUME UdpTypeOK, QueuesFit, StraysAreNoAnswers,
           \/ toServer' = toServer
           \/ \E i \in 1 .. Len(toServer) : toServer' = Without(toServer, i),
           \/ toClient' = toClient
           \/ \E i \in 1 .. Len(toClient) : toClient' = Without(toClient, i)
    PROVE  QueuesFit' /\ StraysAreNoAnswers'
<1>0. toServer \in Seq(Requests) /\ toClient \in Seq(Datagrams)
      /\ Len(toServer) \in Nat /\ Len(toClient) \in Nat
      /\ RequestCap \in Nat /\ ReplyCap \in Nat
  BY UdpAssumption DEF UdpTypeOK
<1>1. Len(toServer') <= RequestCap
  <2>1. Len(toServer') <= Len(toServer) /\ Len(toServer') \in Int
    BY <1>0, TakenOut
  <2> QED
    BY <1>0, <2>1 DEF QueuesFit
<1>2. Len(toClient') <= ReplyCap
  <2>1. Len(toClient') <= Len(toClient) /\ Len(toClient') \in Int
    BY <1>0, TakenOut
  <2> QED
    BY <1>0, <2>1 DEF QueuesFit
<1>3. \A j \in 1 .. Len(toClient') : \E k \in 1 .. Len(toClient) : toClient'[j] = toClient[k]
  <2>1. CASE toClient' = toClient
    BY <2>1
  <2>2. CASE \E i \in 1 .. Len(toClient) : toClient' = Without(toClient, i)
    <3>1. PICK i \in 1 .. Len(toClient) : toClient' = Without(toClient, i)
      BY <2>2
    <3>2. \A j \in 1 .. Len(toClient') :
             \E k \in 1 .. Len(toClient) : WasAt(toClient, i, toClient', j, k)
      BY <1>0, <3>1, TakenOut
    <3> QED
      BY <3>2 DEF WasAt
  <2> QED
    BY <2>1, <2>2
<1> QED
  BY <1>1, <1>2, <1>3 DEF QueuesFit, StraysAreNoAnswers

LEMMA FitWait ==
    ASSUME ~ Reorders, UdpTypeOK, Wait, QueuesFit, StraysAreNoAnswers
    PROVE  QueuesFit' /\ StraysAreNoAnswers'
<1>1. CASE ReceiveExpected \/ IgnoreUnexpected
  <2>1. PICK i \in Arrivals(toClient) : toClient' = Without(toClient, i)
    BY <1>1 DEF ReceiveExpected, IgnoreUnexpected
  <2>2. i \in 1 .. Len(toClient)
    BY <2>1, ArrivalIsHead DEF UdpTypeOK
  <2> QED
    BY <1>1, <2>1, <2>2, FitFewer DEF ReceiveExpected, IgnoreUnexpected
<1>2. CASE Timeout
  <2> DEFINE again == [kind |-> xch.kind, id |-> xch.id, fresh |-> TRUE]
  <2>1. toClient' = toClient
    BY <1>2 DEF Timeout
  <2>2. CASE toServer' = toServer
    BY <2>1, <2>2 DEF QueuesFit, StraysAreNoAnswers
  <2>3. CASE toServer' # toServer
    <3>1. Resends(xch.kind) /\ toServer' = Offer(toServer, again, RequestCap)
      BY <1>2, <2>3 DEF Timeout
    <3>2. again \in Requests
      BY <3>1 DEF UdpTypeOK, Exchanges, Requests, Resends
    <3>3. toServer \in Seq(Requests) /\ RequestCap \in Nat
      BY UdpAssumption DEF UdpTypeOK
    <3> HIDE DEF again
    <3>4. Len(toServer') <= RequestCap
      BY <3>1, <3>2, <3>3, AddedLast DEF QueuesFit
    <3> QED
      BY <2>1, <3>4 DEF QueuesFit, StraysAreNoAnswers
  <2> QED
    BY <2>2, <2>3
<1> QED
  BY <1>1, <1>2 DEF Wait

LEMMA FitNetwork ==
    ASSUME ~ Duplicates, UdpTypeOK, Network, QueuesFit, StraysAreNoAnswers
    PROVE  QueuesFit' /\ StraysAreNoAnswers'
<1>1. DOMAIN toServer = 1 .. Len(toServer) /\ DOMAIN toClient = 1 .. Len(toClient)
  BY DEF UdpTypeOK
<1> QED
  BY <1>1, FitFewer DEF Network, LoseRequest, LoseReply, DuplicateReply

(* What the server says comes from the server, what others say is no 0x07. *)
LEMMA FitServer ==
    ASSUME ~ Reorders, UdpTypeOK, ServerHandles \/ Stray, QueuesFit, StraysAreNoAnswers
    PROVE  QueuesFit' /\ StraysAreNoAnswers'
<1>0. toServer \in Seq(Requests) /\ toClient \in Seq(Datagrams)
      /\ Len(toServer) \in Nat /\ RequestCap \in Nat /\ ReplyCap \in Nat
  BY UdpAssumption DEF UdpTypeOK
<1>1. ASSUME NEW d \in Datagrams, d.from # "server" => d.first # 7,
             toClient' = Offer(toClient, d, ReplyCap)
      PROVE  Len(toClient') <= ReplyCap /\ StraysAreNoAnswers'
  <2>1. /\ Len(toClient') <= ReplyCap
        /\ \A i \in 1 .. Len(toClient) : toClient'[i] = toClient[i]
        /\ \A i \in 1 .. Len(toClient') : i \notin 1 .. Len(toClient) => toClient'[i] = d
    BY <1>0, <1>1, AddedLast DEF QueuesFit
  <2> QED
    BY <1>1, <2>1 DEF StraysAreNoAnswers
<1>2. CASE ServerHandles
  <2>1. /\ 1 \in Asked /\ toServer' = Without(toServer, 1)
        /\ \E d \in Datagrams :
              ReplyTo(toServer[1], d) /\ toClient' = Offer(toClient, d, ReplyCap)
    BY <1>2, ServerHandlesShape
  <2>2. PICK d \in Datagrams :
          d.from = "server" /\ toClient' = Offer(toClient, d, ReplyCap)
    BY <2>1 DEF ReplyTo
  <2>3. Len(toServer') = Len(toServer) - 1
    BY <1>0, <2>1, TakenOut DEF Asked
  <2> QED
    BY <1>0, <1>1, <2>2, <2>3 DEF QueuesFit
<1>3. CASE Stray
  <2> DEFINE d == Datagram("other", 4, 0, "other", 0, 39, FALSE)
  <2>1. d.first # 7
    BY DEF Datagram
  <2>2. d \in Datagrams
    BY DatagramType, ByteValues
  <2>3. toClient' = Offer(toClient, d, ReplyCap) /\ toServer' = toServer
    BY <1>3 DEF Stray, Deliver
  <2> HIDE DEF d
  <2> QED
    BY <1>1, <2>1, <2>2, <2>3 DEF QueuesFit
<1> QED
  BY <1>2, <1>3

-----------------------------------------------------------------------------
(* What is paid for stays paid for. *)

LEMMA PaidMore ==
    ASSUME UdpTypeOK, NEW n \in Int, NEW k \in Int, n <= k, Paid(n)
    PROVE  Paid(k)
<1>1. /\ \A i \in Asked : n - (Replies + i) \in Int /\ k - (Replies + i) \in Int
                          /\ n - (Replies + i) <= k - (Replies + i)
      /\ \A i : n - Ahead(i) \in Int /\ k - Ahead(i) \in Int
                /\ n - Ahead(i) <= k - Ahead(i)
  BY CountTypes DEF Asked
<1>2. ASSUME NEW i \in Asked, toServer[i].kind = "first"
      PROVE  Behind(toServer[i].id, k - (Replies + i))
  BY <1>1, <1>2, BehindMore DEF Paid
<1>3. ASSUME NEW i \in 1 .. Len(toClient), AnswersFirst(toClient[i])
      PROVE  Behind(toClient[i].second, k - Ahead(i))
  BY <1>1, <1>3, BehindMore DEF Paid
<1> QED
  BY <1>2, <1>3 DEF Paid

(* The counter stands still, and every datagram on its way is no further   *)
(* back than it was, or within what is paid for.                           *)
LEMMA PaidStays ==
    ASSUME UdpTypeOK, UdpTypeOK', counter' = counter, NEW n \in Int, NEW m \in Int, Paid(n),
           \A i \in Asked' : toServer'[i].kind = "first" =>
              \/ \E j \in Asked : /\ toServer[j].kind = "first"
                                  /\ toServer[j].id = toServer'[i].id
                                  /\ n - (Replies + j) <= m - (Replies' + i)
              \/ Behind(toServer'[i].id, m - (Replies' + i)),
           \A i \in 1 .. Len(toClient') : AnswersFirst(toClient'[i]) =>
              \/ \E j \in Asked : /\ toServer[j].kind = "first"
                                  /\ toServer[j].id = toClient'[i].second
                                  /\ n - (Replies + j) <= m - Ahead(i)'
              \/ \E j \in 1 .. Len(toClient) : /\ AnswersFirst(toClient[j])
                                               /\ toClient[j].second = toClient'[i].second
                                               /\ n - Ahead(j) <= m - Ahead(i)'
    PROVE  Paid(m)'
<1>1. /\ Replies \in Nat /\ \A i : Ahead(i) \in Nat
      /\ Replies' \in Nat /\ \A i : Ahead(i)' \in Nat
  <2>1. Replies \in Nat /\ \A i : Ahead(i) \in Nat
    BY CountTypes
  <2>2. Replies' \in Nat /\ \A i : Ahead(i)' \in Nat
    BY UptoFinite DEF Ahead, Replies, UdpTypeOK
  <2> QED
    BY <2>1, <2>2
<1>2. \A i \in Asked' : toServer'[i].kind = "first" =>
         Behind(toServer'[i].id, m - (Replies' + i))
  <2> SUFFICES ASSUME NEW i \in Asked', toServer'[i].kind = "first"
               PROVE  Behind(toServer'[i].id, m - (Replies' + i))
    OBVIOUS
  <2>1. SUFFICES ASSUME NEW j \in Asked, toServer[j].kind = "first",
                        toServer[j].id = toServer'[i].id,
                        n - (Replies + j) <= m - (Replies' + i)
                 PROVE  Behind(toServer'[i].id, m - (Replies' + i))
    OBVIOUS
  <2>2. n - (Replies + j) \in Int /\ m - (Replies' + i) \in Int
    BY <1>1 DEF Asked
  <2>3. Behind(toServer[j].id, n - (Replies + j))
    BY <2>1 DEF Paid
  <2> QED
    BY <2>1, <2>2, <2>3, BehindMore
<1>3. \A i \in 1 .. Len(toClient') : AnswersFirst(toClient'[i]) =>
         Behind(toClient'[i].second, m - Ahead(i)')
  <2> SUFFICES ASSUME NEW i \in 1 .. Len(toClient'), AnswersFirst(toClient'[i])
               PROVE  Behind(toClient'[i].second, m - Ahead(i)')
    OBVIOUS
  <2>0. m - Ahead(i)' \in Int
    BY <1>1
  <2>1. CASE \E j \in Asked : /\ toServer[j].kind = "first"
                              /\ toServer[j].id = toClient'[i].second
                              /\ n - (Replies + j) <= m - Ahead(i)'
    <3>1. PICK j \in Asked : /\ toServer[j].kind = "first"
                             /\ toServer[j].id = toClient'[i].second
                             /\ n - (Replies + j) <= m - Ahead(i)'
      BY <2>1
    <3>2. n - (Replies + j) \in Int
      BY <1>1 DEF Asked
    <3>3. Behind(toServer[j].id, n - (Replies + j))
      BY <3>1 DEF Paid
    <3> QED
      BY <2>0, <3>1, <3>2, <3>3, BehindMore
  <2>2. CASE \E j \in 1 .. Len(toClient) : /\ AnswersFirst(toClient[j])
                                           /\ toClient[j].second = toClient'[i].second
                                           /\ n - Ahead(j) <= m - Ahead(i)'
    <3>1. PICK j \in 1 .. Len(toClient) : /\ AnswersFirst(toClient[j])
                                          /\ toClient[j].second = toClient'[i].second
                                          /\ n - Ahead(j) <= m - Ahead(i)'
      BY <2>2
    <3>2. n - Ahead(j) \in Int
      BY <1>1
    <3>3. Behind(toClient[j].second, n - Ahead(j))
      BY <3>1 DEF Paid
    <3> QED
      BY <2>0, <3>1, <3>2, <3>3, BehindMore
  <2> QED
    BY <2>1, <2>2
<1>4. \A x, k : Behind(x, k) <=> (\E l \in 1 .. k : (x + l) % CounterModulus = counter')
  BY DEF Behind
<1>5. \A i \in Asked' : toServer'[i].kind = "first" =>
         \E l \in 1 .. m - (Replies' + i) : (toServer'[i].id + l) % CounterModulus = counter'
  BY <1>2, <1>4
<1>6. \A i \in 1 .. Len(toClient') : AnswersFirst(toClient'[i]) =>
         \E l \in 1 .. m - Ahead(i)' : (toClient'[i].second + l) % CounterModulus = counter'
  BY <1>3, <1>4
<1> QED
  BY <1>5, <1>6 DEF Paid, Behind, AnswersFirst

(* A step that leaves the queues and the counter alone. *)
LEMMA PaidIdle ==
    ASSUME UNCHANGED <<toServer, toClient, counter>>, NEW n, Paid(n)
    PROVE  Paid(n)'
BY DEF Paid, Behind, AnswersFirst, Asked, Replies, Ahead, Upto

(* Requests that are no `first' packets cost nothing. *)
LEMMA PaidBegin ==
    ASSUME UdpTypeOK, UdpTypeOK', NEW kind \in Kinds \ {"first"}, NEW id \in IdsOf(kind),
           Begin(kind, id), counter' = counter, NEW n \in Int, Paid(n)
    PROVE  Paid(n)'
<1> DEFINE request == [kind |-> kind, id |-> id, fresh |-> TRUE]
<1>1. \A i \in Asked' :
        \/ /\ i \in Asked
           /\ toServer'[i].kind = toServer[i].kind /\ toServer'[i].id = toServer[i].id
        \/ toServer'[i] = request
  BY BeginQueues
<1>2. request.kind # "first"
  OBVIOUS
<1> HIDE DEF request
<1>3. Replies' = Replies /\ \A i : Ahead(i)' = Ahead(i)
  BY BeginCounts
<1>4. Replies \in Nat /\ \A i : Ahead(i) \in Nat
  BY CountTypes
<1>5. \A i \in Asked' : toServer'[i].kind = "first" =>
         \E j \in Asked : /\ toServer[j].kind = "first"
                          /\ toServer[j].id = toServer'[i].id
                          /\ n - (Replies + j) <= n - (Replies' + i)
  <2> SUFFICES ASSUME NEW i \in Asked', toServer'[i].kind = "first"
               PROVE  \E j \in Asked : /\ toServer[j].kind = "first"
                                       /\ toServer[j].id = toServer'[i].id
                                       /\ n - (Replies + j) <= n - (Replies' + i)
    OBVIOUS
  <2>1. /\ i \in Asked /\ toServer[i].kind = "first" /\ toServer[i].id = toServer'[i].id
    BY <1>1, <1>2
  <2>2. n - (Replies + i) <= n - (Replies' + i)
    BY <1>3, <1>4, <2>1 DEF Asked
  <2> QED
    BY <2>1, <2>2
<1>6. \A i \in 1 .. Len(toClient') : AnswersFirst(toClient'[i]) =>
         \E j \in 1 .. Len(toClient) : /\ AnswersFirst(toClient[j])
                                       /\ toClient[j].second = toClient'[i].second
                                       /\ n - Ahead(j) <= n - Ahead(i)'
  <2> SUFFICES ASSUME NEW i \in 1 .. Len(toClient'), AnswersFirst(toClient'[i])
               PROVE  \E j \in 1 .. Len(toClient) : /\ AnswersFirst(toClient[j])
                                                    /\ toClient[j].second = toClient'[i].second
                                                    /\ n - Ahead(j) <= n - Ahead(i)'
    OBVIOUS
  <2>1. /\ i \in 1 .. Len(toClient) /\ AnswersFirst(toClient[i])
        /\ toClient[i].second = toClient'[i].second
    BY AgedReplies
  <2>2. n - Ahead(i) <= n - Ahead(i)'
    BY <1>3, <1>4
  <2> QED
    BY <2>1, <2>2
<1> QED
  BY <1>5, <1>6, PaidStays

LEMMA BehindNext ==
    ASSUME NEW x \in Nat, NEW n \in Int, Behind(x, n),
           counter' = (counter + 1) % CounterModulus
    PROVE  Behind(x, n + 1)'
<1>1. n \in Nat
  BY DEF Behind
<1> QED
  BY <1>1, BehindGrows

(* The places of the queues, after a step. *)
LEMMA PlacesNext ==
    ASSUME UdpTypeOK', QueuesFit'
    PROVE  \A i \in Asked' : i \in Int /\ Replies' + i \in Nat /\ Replies' + i <= Places
<1>1. /\ RequestCap \in Nat /\ ReplyCap \in Nat /\ Len(toServer') \in Nat /\ Len(toClient') \in Nat
      /\ Len(toServer') <= RequestCap /\ Len(toClient') <= ReplyCap
  BY UdpAssumption DEF UdpTypeOK, QueuesFit
<1>2. Replies' \in Nat /\ Replies' <= Len(toClient')
  BY UptoFinite DEF Replies, Ahead, UdpTypeOK
<1>3. PICK r \in Nat : r = Replies'
  BY <1>2
<1>4. r <= ReplyCap
  BY <1>1, <1>2, <1>3
<1>5. \A i \in Asked' : i \in Nat /\ i <= RequestCap
  BY <1>1 DEF Asked
<1>6. \A i \in Asked' : i \in Int /\ r + i \in Nat /\ r + i <= RequestCap + ReplyCap
  BY <1>1, <1>3, <1>4, <1>5
<1> QED
  BY <1>3, <1>6 DEF Places

(* A keepalive packet costs one, and must find its own place paid for. *)
LEMMA PaidSend ==
    ASSUME UdpTypeOK, UdpTypeOK', QueuesFit', counter \in Counters,
           NEW kind \in {"extra", "first", "third"}, SendKeepalive2(kind),
           NEW n \in Int, Paid(n), kind = "first" => n >= Places,
           NEW m \in Int, m = n + 1
    PROVE  Paid(m)'
<1> DEFINE request == [kind |-> kind, id |-> counter, fresh |-> TRUE]
<1>0. /\ kind \in Kinds /\ counter \in IdsOf(kind) /\ Begin(kind, counter)
      /\ counter' = (counter + 1) % CounterModulus
  BY DEF Kinds, IdsOf, SendKeepalive2
<1>1. \A i \in Asked' :
        \/ /\ i \in Asked
           /\ toServer'[i].kind = toServer[i].kind /\ toServer'[i].id = toServer[i].id
        \/ toServer'[i] = request
  BY <1>0, BeginQueues
<1>2. request.kind = kind /\ request.id = counter
  OBVIOUS
<1> HIDE DEF request
<1>3. Replies' = Replies /\ \A i : Ahead(i)' = Ahead(i)
  BY <1>0, BeginCounts
<1>4. Replies \in Nat /\ \A i : Ahead(i) \in Nat
  BY CountTypes
<1>5. \A i \in Asked' : i \in Int /\ Replies' + i \in Nat /\ Replies' + i <= Places
  BY PlacesNext
<1>6. ASSUME NEW i \in Asked', toServer'[i].kind = "first"
      PROVE  Behind(toServer[i].id, n + 1 - (Replies + i))'
  <2> DEFINE k == n - (Replies + i)
  <2>0. k \in Int /\ n + 1 - (Replies' + i) = k + 1
    BY <1>3, <1>4, <1>5
  <2>1. CASE /\ i \in Asked
             /\ toServer'[i].kind = toServer[i].kind /\ toServer'[i].id = toServer[i].id
    <3> DEFINE x == toServer[i].id
    <3>1. x \in Nat /\ toServer'[i].id = x /\ Behind(x, k)
      <4>1. toServer[i].kind = "first"
        BY <1>6, <2>1
      <4>2. toServer[i] \in Requests
        BY <2>1 DEF UdpTypeOK, Asked
      <4>3. x \in Counters
        BY <4>1, <4>2 DEF Requests, IdsOf
      <4>4. \A c \in Counters : c \in Nat
        BY UdpAssumption DEF Counters
      <4>5. Behind(x, k)
        BY <2>1, <4>1 DEF Paid
      <4> QED
        BY <2>1, <4>3, <4>4, <4>5
    <3> HIDE DEF x, k
    <3>2. PICK y \in Nat : y = x
      BY <3>1
    <3>3. PICK l \in Int : l = k
      BY <2>0
    <3>4. Behind(y, l + 1)'
      BY <1>0, <3>1, <3>2, <3>3, BehindNext
    <3> QED
      BY <2>0, <3>1, <3>2, <3>3, <3>4 DEF Behind
  <2>2. CASE toServer'[i] = request
    <3>1. kind = "first" /\ toServer'[i].id = counter
      BY <1>2, <1>6, <2>2
    <3>2. k \in Nat
      <4>1. n >= Places /\ Places \in Int
        BY <3>1, UdpAssumption DEF Places
      <4> QED
        BY <1>3, <1>5, <4>1
    <3> HIDE DEF k
    <3>3. PICK y : y = counter
      OBVIOUS
    <3>4. PICK l \in Nat : l = k
      BY <3>2
    <3>5. Behind(y, l + 1)'
      BY <1>0, <3>3, BehindSent
    <3> QED
      BY <2>0, <3>1, <3>3, <3>4, <3>5 DEF Behind
  <2> QED
    BY <1>1, <2>1, <2>2
<1>7. ASSUME NEW i \in 1 .. Len(toClient'), AnswersFirst(toClient'[i])
      PROVE  Behind(toClient[i].second, n + 1 - Ahead(i))'
  <2> DEFINE k == n - Ahead(i)
             x == toClient[i].second
  <2>0. k \in Int /\ n + 1 - Ahead(i)' = k + 1
    BY <1>3, <1>4
  <2>1. /\ i \in 1 .. Len(toClient) /\ AnswersFirst(toClient[i])
        /\ toClient'[i].second = x
    BY <1>0, <1>7, AgedReplies
  <2>2. Behind(x, k)
    BY <2>1 DEF Paid
  <2>3. x \in Nat
    <3>1. toClient[i] \in Datagrams
      BY <2>1 DEF UdpTypeOK
    <3>2. x \in Byte
      BY <3>1 DEF Datagrams
    <3>3. \A b \in Byte : b \in Nat
      BY DEF Byte
    <3> QED
      BY <3>2, <3>3
  <2> HIDE DEF x, k
  <2>4. PICK y \in Nat : y = x
    BY <2>3
  <2>5. PICK l \in Int : l = k
    BY <2>0
  <2>6. Behind(y, l + 1)'
    BY <1>0, <2>2, <2>4, <2>5, BehindNext
  <2> QED
    BY <2>0, <2>1, <2>4, <2>5, <2>6 DEF Behind
<1>8. \A i \in Asked' : toServer'[i].kind = "first" =>
         \E l \in 1 .. m - (Replies' + i) :
            (toServer'[i].id + l) % CounterModulus = counter'
  BY <1>5, <1>6 DEF Behind
<1>9. \A i \in 1 .. Len(toClient') : AnswersFirst(toClient'[i]) =>
         \E l \in 1 .. m - Ahead(i)' :
            (toClient'[i].second + l) % CounterModulus = counter'
  BY <1>3, <1>4, <1>7 DEF Behind
<1> QED
  BY <1>8, <1>9 DEF Paid, Behind, AnswersFirst

(* A datagram taken out, and where that leaves the others. *)
LEMMA TakenCounts ==
    ASSUME UdpTypeOK, NEW p \in 1 .. Len(toClient), toClient' = Without(toClient, p)
    PROVE  /\ Replies' <= Replies
           /\ toClient[p].from = "server" => Replies' + 1 <= Replies
           /\ \A i \in 1 .. Len(toClient') : \E j \in 1 .. Len(toClient) :
                 /\ toClient'[i] = toClient[j]
                 /\ Ahead(i)' <= Ahead(j)
                 /\ p = 1 /\ toClient[p].from = "server" => Ahead(i)' + 1 <= Ahead(j)
<1>1. PICK w : w = toClient'
  OBVIOUS
<1>2. PICK q : q = toClient
  OBVIOUS
<1>3. q \in Seq(Datagrams)
  BY <1>2 DEF UdpTypeOK
<1>4. p \in 1 .. Len(q) /\ w = Without(q, p)
  BY <1>1, <1>2
<1>5. Cardinality(Upto(w, Len(w))) <= Cardinality(Upto(q, Len(q)))
  BY <1>3, <1>4, TakenOut, Zenon
<1>6. q[p].from = "server" =>
        Cardinality(Upto(w, Len(w))) + 1 <= Cardinality(Upto(q, Len(q)))
  BY <1>3, <1>4, TakenOut, Zenon
<1>7. \A i \in 1 .. Len(w) : \E j \in 1 .. Len(q) : WasAt(q, p, w, i, j)
  BY <1>3, <1>4, TakenOut, Zenon
<1>8. /\ Replies' = Cardinality(Upto(w, Len(w))) /\ Replies = Cardinality(Upto(q, Len(q)))
      /\ \A i : Ahead(i)' = Cardinality(Upto(w, i)) /\ Ahead(i) = Cardinality(Upto(q, i))
  BY <1>1, <1>2 DEF Replies, Ahead
<1>9. Replies' <= Replies /\ (toClient[p].from = "server" => Replies' + 1 <= Replies)
  BY <1>2, <1>5, <1>6, <1>8
<1>10. \A i \in 1 .. Len(toClient') : \E j \in 1 .. Len(toClient) :
         /\ toClient'[i] = toClient[j]
         /\ Ahead(i)' <= Ahead(j)
         /\ p = 1 /\ toClient[p].from = "server" => Ahead(i)' + 1 <= Ahead(j)
  BY <1>1, <1>2, <1>7, <1>8 DEF WasAt
<1> QED
  BY <1>9, <1>10

(* The same requests, with no more replies ahead of them. *)
LEMMA SameRequests ==
    ASSUME toServer' = toServer, NEW n \in Int, NEW m \in Int,
           \A i \in Int : n - (Replies + i) <= m - (Replies' + i)
    PROVE  \A i \in Asked' : toServer'[i].kind = "first" =>
              \E j \in Asked : /\ toServer[j].kind = "first"
                               /\ toServer[j].id = toServer'[i].id
                               /\ n - (Replies + j) <= m - (Replies' + i)
<1> SUFFICES ASSUME NEW i \in Asked', toServer'[i].kind = "first"
             PROVE  \E j \in Asked : /\ toServer[j].kind = "first"
                                     /\ toServer[j].id = toServer'[i].id
                                     /\ n - (Replies + j) <= m - (Replies' + i)
  OBVIOUS
<1>1. i \in Asked /\ toServer[i] = toServer'[i]
  BY DEF Asked
<1>2. i \in Int
  BY <1>1 DEF Asked
<1>3. n - (Replies + i) <= m - (Replies' + i)
  BY <1>2
<1> QED
  BY <1>1, <1>3

LEMMA Distance ==
    ASSUME NEW n \in Int, NEW m \in Int, NEW a \in Int, NEW b \in Int, n - a <= m - b
    PROVE  \A i \in Int : n - (a + i) <= m - (b + i)
OBVIOUS

(* A datagram taken out, and one place gained where the server sent it. *)
LEMMA PaidTaken ==
    ASSUME UdpTypeOK, UdpTypeOK', counter' = counter, toServer' = toServer,
           1 \in 1 .. Len(toClient), toClient' = Without(toClient, 1),
           NEW n \in Int, Paid(n),
           NEW m \in Int, m = IF toClient[1].from = "server" THEN n - 1 ELSE n
    PROVE  Paid(m)'
<1>0. toClient \in Seq(Datagrams) /\ Replies \in Nat /\ \A i : Ahead(i) \in Nat
  BY CountTypes DEF UdpTypeOK
<1>1. /\ Replies' <= Replies
      /\ toClient[1].from = "server" => Replies' + 1 <= Replies
      /\ \A i \in 1 .. Len(toClient') : \E j \in 1 .. Len(toClient) :
            /\ toClient'[i] = toClient[j]
            /\ Ahead(i)' <= Ahead(j)
            /\ toClient[1].from = "server" => Ahead(i)' + 1 <= Ahead(j)
  <2>1. PICK p \in 1 .. Len(toClient) : p = 1
    OBVIOUS
  <2> QED
    BY <2>1, TakenCounts
<1>2. Replies' \in Nat /\ \A i : Ahead(i)' \in Nat
  BY UptoFinite DEF Ahead, Replies, UdpTypeOK
<1>3. \A i \in Asked' : toServer'[i].kind = "first" =>
         \E j \in Asked : /\ toServer[j].kind = "first"
                          /\ toServer[j].id = toServer'[i].id
                          /\ n - (Replies + j) <= m - (Replies' + i)
  <2>1. PICK a \in Nat : a = Replies
    BY <1>0
  <2>2. PICK b \in Nat : b = Replies'
    BY <1>2
  <2>3. n - a <= m - b
    <3>1. b <= a /\ (toClient[1].from = "server" => b + 1 <= a)
      BY <1>1, <2>1, <2>2
    <3>2. a \in Int /\ b \in Int
      BY <2>1, <2>2
    <3> QED
      BY <3>1, <3>2
  <2>4. a \in Int /\ b \in Int
    BY <2>1, <2>2
  <2>5. \A i \in Int : n - (a + i) <= m - (b + i)
    BY <2>3, <2>4, Distance
  <2> QED
    BY <2>1, <2>2, <2>5, SameRequests
<1>4. \A i \in 1 .. Len(toClient') : AnswersFirst(toClient'[i]) =>
         \E j \in 1 .. Len(toClient) : /\ AnswersFirst(toClient[j])
                                       /\ toClient[j].second = toClient'[i].second
                                       /\ n - Ahead(j) <= m - Ahead(i)'
  <2> SUFFICES ASSUME NEW i \in 1 .. Len(toClient'), AnswersFirst(toClient'[i])
               PROVE  \E j \in 1 .. Len(toClient) : /\ AnswersFirst(toClient[j])
                                                    /\ toClient[j].second = toClient'[i].second
                                                    /\ n - Ahead(j) <= m - Ahead(i)'
    OBVIOUS
  <2>1. PICK j \in 1 .. Len(toClient) :
            /\ toClient'[i] = toClient[j]
            /\ Ahead(i)' <= Ahead(j)
            /\ toClient[1].from = "server" => Ahead(i)' + 1 <= Ahead(j)
    BY <1>1
  <2>2. n - Ahead(j) <= m - Ahead(i)'
    BY <1>0, <1>2, <2>1
  <2> QED
    BY <2>1, <2>2
<1> QED
  BY <1>3, <1>4, PaidStays

-----------------------------------------------------------------------------
(* What is paid for stays paid for while the client waits, on the network  *)
(* and at the server.                                                      *)

(* The last packet sent again: one packet behind the counter, and one      *)
(* place is paid for it.                                                   *)
LEMMA PaidResend ==
    ASSUME UdpTypeOK, UdpTypeOK', QueuesFit', Timeout, counter' = counter,
           NEW n \in Int, Paid(n),
           xch.kind = "first" => Behind(xch.id, 1) /\ n > Places
    PROVE  Paid(n)'
<1> DEFINE again == [kind |-> xch.kind, id |-> xch.id, fresh |-> TRUE]
<1>1. \/ toServer' = toServer
      \/ \A i \in Asked' : \/ i \in Asked /\ toServer'[i] = toServer[i]
                           \/ toServer'[i] = again
  BY TimeoutQueues
<1>2. toClient' = toClient
  BY DEF Timeout
<1>3. again.kind = xch.kind /\ again.id = xch.id
  OBVIOUS
<1> HIDE DEF again
<1>4. Replies' = Replies /\ \A i : Ahead(i)' = Ahead(i)
  BY <1>2 DEF Replies, Ahead
<1>5. Replies \in Nat /\ \A i : Ahead(i) \in Nat
  BY CountTypes
<1>6. \A i \in Asked' : i \in Int /\ Replies' + i \in Nat /\ Replies' + i <= Places
  BY PlacesNext
<1>7. \A i \in Asked' : toServer'[i].kind = "first" =>
         \/ \E j \in Asked : /\ toServer[j].kind = "first"
                             /\ toServer[j].id = toServer'[i].id
                             /\ n - (Replies + j) <= n - (Replies' + i)
         \/ Behind(toServer'[i].id, n - (Replies' + i))
  <2> SUFFICES ASSUME NEW i \in Asked', toServer'[i].kind = "first"
               PROVE  \/ \E j \in Asked : /\ toServer[j].kind = "first"
                                          /\ toServer[j].id = toServer'[i].id
                                          /\ n - (Replies + j) <= n - (Replies' + i)
                      \/ Behind(toServer'[i].id, n - (Replies' + i))
    OBVIOUS
  <2>1. CASE i \in Asked /\ toServer'[i] = toServer[i]
    <3>1. n - (Replies + i) <= n - (Replies' + i)
      BY <1>4, <1>5, <1>6
    <3> QED
      BY <2>1, <3>1
  <2>2. CASE toServer'[i] = again
    <3>1. Behind(xch.id, 1) /\ n > Places /\ toServer'[i].id = xch.id
      BY <1>3, <2>2
    <3>2. PICK k \in Int : k = n - (Replies' + i)
      BY <1>6
    <3>3. Places \in Int
      BY UdpAssumption DEF Places
    <3>4. 1 <= k
      BY <1>6, <3>1, <3>2, <3>3
    <3>5. Behind(xch.id, k)
      BY <3>1, <3>4, BehindMore
    <3> QED
      BY <3>1, <3>2, <3>5
  <2>3. CASE toServer' = toServer
    <3>1. i \in Asked /\ toServer'[i] = toServer[i]
      BY <2>3 DEF Asked
    <3> QED
      BY <2>1, <3>1
  <2> QED
    BY <1>1, <2>1, <2>2, <2>3
<1>8. \A i \in 1 .. Len(toClient') : AnswersFirst(toClient'[i]) =>
         \E j \in 1 .. Len(toClient) : /\ AnswersFirst(toClient[j])
                                       /\ toClient[j].second = toClient'[i].second
                                       /\ n - Ahead(j) <= n - Ahead(i)'
  BY <1>2, <1>4, <1>5
<1> QED
  BY <1>7, <1>8, PaidStays

(* A request lost moves those behind it ahead, or none. *)
LEMMA PaidLoseRequest ==
    ASSUME UdpTypeOK, UdpTypeOK', LoseRequest, counter' = counter, NEW n \in Int, Paid(n)
    PROVE  Paid(n)'
<1>1. PICK p \in DOMAIN toServer : toServer' = Without(toServer, p)
  BY DEF LoseRequest
<1>2. toClient' = toClient
  BY DEF LoseRequest
<1>3. Replies' = Replies /\ \A i : Ahead(i)' = Ahead(i)
  BY <1>2 DEF Replies, Ahead
<1>4. Replies \in Nat /\ \A i : Ahead(i) \in Nat
  BY CountTypes
<1>5. \A i \in Asked' : \E j \in Asked :
         toServer'[i] = toServer[j] /\ i \in Nat /\ j \in Nat /\ i <= j
  <2>1. toServer \in Seq(Requests) /\ p \in 1 .. Len(toServer) /\ Len(toServer) \in Nat
    BY <1>1 DEF UdpTypeOK
  <2>2. /\ Len(Without(toServer, p)) = Len(toServer) - 1
        /\ \A j \in 1 .. Len(toServer) - 1 :
              Without(toServer, p)[j] = IF j < p THEN toServer[j] ELSE toServer[j + 1]
    BY <2>1, WithoutShape, Zenon
  <2> SUFFICES ASSUME NEW i \in Asked'
               PROVE  \E j \in Asked :
                        toServer'[i] = toServer[j] /\ i \in Nat /\ j \in Nat /\ i <= j
    OBVIOUS
  <2>3. i \in 1 .. Len(toServer) - 1
    BY <1>1, <2>1, <2>2 DEF Asked
  <2>4. CASE i < p
    BY <1>1, <2>1, <2>2, <2>3, <2>4 DEF Asked
  <2>5. CASE ~ i < p
    <3>1. i + 1 \in Asked /\ toServer'[i] = toServer[i + 1] /\ i \in Nat /\ i <= i + 1
      BY <1>1, <2>1, <2>2, <2>3, <2>5 DEF Asked
    <3> QED
      BY <3>1
  <2> QED
    BY <2>4, <2>5
<1>6. \A i \in Asked' : toServer'[i].kind = "first" =>
         \E j \in Asked : /\ toServer[j].kind = "first"
                          /\ toServer[j].id = toServer'[i].id
                          /\ n - (Replies + j) <= n - (Replies' + i)
  <2> SUFFICES ASSUME NEW i \in Asked', toServer'[i].kind = "first"
               PROVE  \E j \in Asked : /\ toServer[j].kind = "first"
                                       /\ toServer[j].id = toServer'[i].id
                                       /\ n - (Replies + j) <= n - (Replies' + i)
    OBVIOUS
  <2>1. PICK j \in Asked : toServer'[i] = toServer[j] /\ i \in Nat /\ j \in Nat /\ i <= j
    BY <1>5
  <2>2. n - (Replies + j) <= n - (Replies' + i)
    BY <1>3, <1>4, <2>1
  <2> QED
    BY <2>1, <2>2
<1>7. \A i \in 1 .. Len(toClient') : AnswersFirst(toClient'[i]) =>
         \E j \in 1 .. Len(toClient) : /\ AnswersFirst(toClient[j])
                                       /\ toClient[j].second = toClient'[i].second
                                       /\ n - Ahead(j) <= n - Ahead(i)'
  BY <1>2, <1>3, <1>4
<1> QED
  BY <1>6, <1>7, PaidStays

(* A reply lost frees its place. *)
LEMMA PaidLoseReply ==
    ASSUME UdpTypeOK, UdpTypeOK', LoseReply, counter' = counter, NEW n \in Int, Paid(n)
    PROVE  Paid(n)'
<1>1. PICK p \in DOMAIN toClient : toClient' = Without(toClient, p)
  BY DEF LoseReply
<1>2. toServer' = toServer
  BY DEF LoseReply
<1>3. /\ Replies' <= Replies
      /\ \A i \in 1 .. Len(toClient') : \E j \in 1 .. Len(toClient) :
            toClient'[i] = toClient[j] /\ Ahead(i)' <= Ahead(j)
  <2>1. p \in 1 .. Len(toClient)
    BY <1>1 DEF UdpTypeOK
  <2> QED
    BY <1>1, <2>1, TakenCounts
<1>4. Replies \in Nat /\ \A i : Ahead(i) \in Nat
  BY CountTypes
<1>5. Replies' \in Nat /\ \A i : Ahead(i)' \in Nat
  BY UptoFinite DEF Ahead, Replies, UdpTypeOK
<1>6. \A i \in Asked' : toServer'[i].kind = "first" =>
         \E j \in Asked : /\ toServer[j].kind = "first"
                          /\ toServer[j].id = toServer'[i].id
                          /\ n - (Replies + j) <= n - (Replies' + i)
  <2>1. PICK a \in Nat : a = Replies
    BY <1>4
  <2>2. PICK b \in Nat : b = Replies'
    BY <1>5
  <2>3. b <= a
    BY <1>3, <2>1, <2>2
  <2>4. a \in Int /\ b \in Int
    BY <2>1, <2>2
  <2>5. n - a <= n - b
    BY <2>3, <2>4
  <2>6. \A i \in Int : n - (a + i) <= n - (b + i)
    BY <2>4, <2>5, Distance
  <2> QED
    BY <1>2, <2>1, <2>2, <2>6, SameRequests
<1>7. \A i \in 1 .. Len(toClient') : AnswersFirst(toClient'[i]) =>
         \E j \in 1 .. Len(toClient) : /\ AnswersFirst(toClient[j])
                                       /\ toClient[j].second = toClient'[i].second
                                       /\ n - Ahead(j) <= n - Ahead(i)'
  <2> SUFFICES ASSUME NEW i \in 1 .. Len(toClient'), AnswersFirst(toClient'[i])
               PROVE  \E j \in 1 .. Len(toClient) : /\ AnswersFirst(toClient[j])
                                                    /\ toClient[j].second = toClient'[i].second
                                                    /\ n - Ahead(j) <= n - Ahead(i)'
    OBVIOUS
  <2>1. PICK j \in 1 .. Len(toClient) : toClient'[i] = toClient[j] /\ Ahead(i)' <= Ahead(j)
    BY <1>3
  <2>2. n - Ahead(j) <= n - Ahead(i)'
    BY <1>4, <1>5, <2>1
  <2> QED
    BY <2>1, <2>2
<1> QED
  BY <1>6, <1>7, PaidStays

(* One datagram more behind the others leaves them where they are. *)
LEMMA DeliveredCounts ==
    ASSUME UdpTypeOK, UdpTypeOK', NEW d \in Datagrams,
           toClient' = Offer(toClient, d, ReplyCap)
    PROVE  /\ \A i \in 1 .. Len(toClient) : toClient'[i] = toClient[i] /\ Ahead(i)' = Ahead(i)
           /\ \A i \in 1 .. Len(toClient') :
                 i \notin 1 .. Len(toClient) => toClient'[i] = d /\ Ahead(i)' <= Replies'
           /\ Replies' <= Replies + (IF d.from = "server" THEN 1 ELSE 0)
<1>1. PICK w : w = toClient'
  OBVIOUS
<1>2. PICK q \in Seq(Datagrams) : q = toClient
  BY DEF UdpTypeOK
<1>3. PICK cap \in Nat : cap = ReplyCap
  BY UdpAssumption
<1>4. w = Offer(q, d, cap)
  BY <1>1, <1>2, <1>3
<1>5. /\ w \in Seq(Datagrams) /\ Len(w) \in {Len(q), Len(q) + 1}
      /\ \A i \in 1 .. Len(q) : w[i] = q[i] /\ Upto(w, i) = Upto(q, i)
      /\ \A i \in 1 .. Len(w) : i \notin 1 .. Len(q) => i = Len(q) + 1 /\ w[i] = d
      /\ Cardinality(Upto(w, Len(w))) <=
            Cardinality(Upto(q, Len(q))) + (IF d.from = "server" THEN 1 ELSE 0)
  BY <1>2, <1>3, <1>4, AddedLast
<1>6. /\ Replies' = Cardinality(Upto(w, Len(w))) /\ Replies = Cardinality(Upto(q, Len(q)))
      /\ \A i : Ahead(i)' = Cardinality(Upto(w, i)) /\ Ahead(i) = Cardinality(Upto(q, i))
  BY <1>1, <1>2 DEF Replies, Ahead
<1>7. \A i \in 1 .. Len(w) : i \notin 1 .. Len(q) => w[i] = d /\ Ahead(i)' <= Replies'
  <2> SUFFICES ASSUME NEW i \in 1 .. Len(w), i \notin 1 .. Len(q)
               PROVE  w[i] = d /\ Ahead(i)' <= Replies'
    OBVIOUS
  <2>1. i = Len(q) + 1 /\ w[i] = d /\ Len(q) \in Nat
    BY <1>2, <1>5
  <2>2. i = Len(w)
    BY <1>5, <2>1
  <2>3. Ahead(i)' = Replies'
    BY <1>6, <2>2
  <2>4. Replies' \in Nat
    BY <1>5, <1>6, UptoFinite
  <2> QED
    BY <2>1, <2>3, <2>4
<1>8. \A i \in 1 .. Len(q) : w[i] = q[i] /\ Ahead(i)' = Ahead(i)
  BY <1>5, <1>6
<1> QED
  BY <1>1, <1>2, <1>5, <1>6, <1>7, <1>8

(* The oldest request answered: the others are one place ahead of where    *)
(* they were, and its answer takes its place.                              *)
LEMMA PaidAnswer ==
    ASSUME ~ Reorders, UdpTypeOK, UdpTypeOK', ServerHandles, counter' = counter,
           NEW n \in Int, Paid(n)
    PROVE  Paid(n)'
<1>1. /\ 1 \in Asked /\ toServer[1] \in Requests
      /\ \A i \in Asked' : i + 1 \in Asked /\ toServer'[i] = toServer[i + 1]
  BY AnswerQueues
<1>2. PICK d \in Datagrams :
        ReplyTo(toServer[1], d) /\ toClient' = Offer(toClient, d, ReplyCap)
  BY ServerHandlesShape
<1>3. AnswersFirst(d) => toServer[1].kind = "first" /\ d.second = toServer[1].id
  <2>1. PICK r \in Requests : r = toServer[1]
    BY <1>1
  <2>2. r.kind \in Kinds /\ ReplyTo(r, d)
    BY <1>2, <2>1 DEF Requests
  <2>3. CASE r.kind \in {"challenge", "logoutChallenge", "login", "logout", "first", "third"}
    BY <2>1, <2>2, <2>3 DEF ReplyTo, AnswersFirst
  <2>4. CASE r.kind \in Kinds \ (Named \cup {"login", "logout"})
    BY <2>2, <2>4 DEF ReplyTo, AnswersFirst
  <2> QED
    BY <2>2, <2>3, <2>4 DEF Named, Challenges, Beats
<1>4. /\ \A i \in 1 .. Len(toClient) : toClient'[i] = toClient[i] /\ Ahead(i)' = Ahead(i)
      /\ \A i \in 1 .. Len(toClient') :
            i \notin 1 .. Len(toClient) => toClient'[i] = d /\ Ahead(i)' <= Replies'
      /\ Replies' <= Replies + (IF d.from = "server" THEN 1 ELSE 0)
  BY <1>2, DeliveredCounts
<1>5. /\ Replies \in Nat /\ \A i : Ahead(i) \in Nat
      /\ Replies' \in Nat /\ \A i : Ahead(i)' \in Nat
  <2>1. Replies \in Nat /\ \A i : Ahead(i) \in Nat
    BY CountTypes
  <2>2. Replies' \in Nat /\ \A i : Ahead(i)' \in Nat
    BY UptoFinite DEF Ahead, Replies, UdpTypeOK
  <2> QED
    BY <2>1, <2>2
<1>6. Replies' <= Replies + 1
  BY <1>4, <1>5
<1>7. \A i \in Asked' : toServer'[i].kind = "first" =>
         \E j \in Asked : /\ toServer[j].kind = "first"
                          /\ toServer[j].id = toServer'[i].id
                          /\ n - (Replies + j) <= n - (Replies' + i)
  <2> SUFFICES ASSUME NEW i \in Asked', toServer'[i].kind = "first"
               PROVE  \E j \in Asked : /\ toServer[j].kind = "first"
                                       /\ toServer[j].id = toServer'[i].id
                                       /\ n - (Replies + j) <= n - (Replies' + i)
    OBVIOUS
  <2>1. i + 1 \in Asked /\ toServer'[i] = toServer[i + 1]
    BY <1>1
  <2>0. i \in Int
    BY DEF Asked
  <2>2. PICK a \in Nat : a = Replies
    BY <1>5
  <2>3. PICK b \in Nat : b = Replies'
    BY <1>5
  <2>4. b <= a + 1
    BY <1>6, <2>2, <2>3
  <2>5. n - (a + (i + 1)) <= n - (b + i)
    <3>1. PICK z \in Int : z = i
      BY <2>0
    <3>2. n \in Int /\ a \in Int /\ b \in Int
      BY <2>2, <2>3
    <3>3. n - (a + (z + 1)) <= n - (b + z)
      BY <2>4, <3>1, <3>2
    <3> QED
      BY <3>1, <3>3
  <2> QED
    BY <2>1, <2>2, <2>3, <2>5
<1>8. \A i \in 1 .. Len(toClient') : AnswersFirst(toClient'[i]) =>
         \/ \E j \in Asked : /\ toServer[j].kind = "first"
                             /\ toServer[j].id = toClient'[i].second
                             /\ n - (Replies + j) <= n - Ahead(i)'
         \/ \E j \in 1 .. Len(toClient) : /\ AnswersFirst(toClient[j])
                                          /\ toClient[j].second = toClient'[i].second
                                          /\ n - Ahead(j) <= n - Ahead(i)'
  <2> SUFFICES ASSUME NEW i \in 1 .. Len(toClient'), AnswersFirst(toClient'[i])
               PROVE  \/ \E j \in Asked : /\ toServer[j].kind = "first"
                                          /\ toServer[j].id = toClient'[i].second
                                          /\ n - (Replies + j) <= n - Ahead(i)'
                      \/ \E j \in 1 .. Len(toClient) : /\ AnswersFirst(toClient[j])
                                                       /\ toClient[j].second = toClient'[i].second
                                                       /\ n - Ahead(j) <= n - Ahead(i)'
    OBVIOUS
  <2>1. CASE i \in 1 .. Len(toClient)
    <3>1. n - Ahead(i) <= n - Ahead(i)'
      BY <1>4, <1>5, <2>1
    <3> QED
      BY <1>4, <2>1, <3>1
  <2>2. CASE i \notin 1 .. Len(toClient)
    <3>1. toClient'[i] = d /\ Ahead(i)' <= Replies'
      BY <1>4, <2>2
    <3>2. n - (Replies + 1) <= n - Ahead(i)'
      BY <1>5, <1>6, <3>1
    <3> QED
      BY <1>1, <1>3, <3>1, <3>2
  <2> QED
    BY <2>1, <2>2
<1> QED
  BY <1>7, <1>8, PaidStays

(* What others say answers nothing, and takes no place of the server's. *)
LEMMA PaidStray ==
    ASSUME UdpTypeOK, UdpTypeOK', Stray, counter' = counter, NEW n \in Int, Paid(n)
    PROVE  Paid(n)'
<1> DEFINE d == Datagram("other", 4, 0, "other", 0, 39, FALSE)
<1>1. d \in Datagrams /\ d.from = "other"
  <2>1. d.from = "other"
    BY DEF Datagram
  <2> QED
    BY <2>1, DatagramType, ByteValues
<1>2. toClient' = Offer(toClient, d, ReplyCap) /\ toServer' = toServer
  BY DEF Stray, Deliver
<1> HIDE DEF d
<1>3. /\ \A i \in 1 .. Len(toClient) : toClient'[i] = toClient[i] /\ Ahead(i)' = Ahead(i)
      /\ \A i \in 1 .. Len(toClient') : i \notin 1 .. Len(toClient) => toClient'[i] = d
      /\ Replies' <= Replies + (IF d.from = "server" THEN 1 ELSE 0)
  BY <1>1, <1>2, DeliveredCounts
<1>4. /\ Replies \in Nat /\ \A i : Ahead(i) \in Nat
      /\ Replies' \in Nat /\ \A i : Ahead(i)' \in Nat
  <2>1. Replies \in Nat /\ \A i : Ahead(i) \in Nat
    BY CountTypes
  <2>2. Replies' \in Nat /\ \A i : Ahead(i)' \in Nat
    BY UptoFinite DEF Ahead, Replies, UdpTypeOK
  <2> QED
    BY <2>1, <2>2
<1>5. Replies' <= Replies
  BY <1>1, <1>3, <1>4
<1>6. \A i \in Asked' : toServer'[i].kind = "first" =>
         \E j \in Asked : /\ toServer[j].kind = "first"
                          /\ toServer[j].id = toServer'[i].id
                          /\ n - (Replies + j) <= n - (Replies' + i)
  <2>1. PICK a \in Nat : a = Replies
    BY <1>4
  <2>2. PICK b \in Nat : b = Replies'
    BY <1>4
  <2>3. b <= a
    BY <1>5, <2>1, <2>2
  <2>4. a \in Int /\ b \in Int
    BY <2>1, <2>2
  <2>5. n - a <= n - b
    BY <2>3, <2>4
  <2>6. \A i \in Int : n - (a + i) <= n - (b + i)
    BY <2>4, <2>5, Distance
  <2> QED
    BY <1>2, <2>1, <2>2, <2>6, SameRequests
<1>7. \A i \in 1 .. Len(toClient') : AnswersFirst(toClient'[i]) =>
         \E j \in 1 .. Len(toClient) : /\ AnswersFirst(toClient[j])
                                       /\ toClient[j].second = toClient'[i].second
                                       /\ n - Ahead(j) <= n - Ahead(i)'
  <2>1. ~ AnswersFirst(d)
    BY <1>1 DEF AnswersFirst
  <2> SUFFICES ASSUME NEW i \in 1 .. Len(toClient'), AnswersFirst(toClient'[i])
               PROVE  \E j \in 1 .. Len(toClient) : /\ AnswersFirst(toClient[j])
                                                    /\ toClient[j].second = toClient'[i].second
                                                    /\ n - Ahead(j) <= n - Ahead(i)'
    OBVIOUS
  <2>2. i \in 1 .. Len(toClient) /\ toClient'[i] = toClient[i] /\ Ahead(i)' = Ahead(i)
    BY <1>3, <2>1
  <2>3. n - Ahead(i) <= n - Ahead(i)'
    BY <1>4, <2>2
  <2> QED
    BY <2>2, <2>3
<1> QED
  BY <1>6, <1>7, PaidStays

-----------------------------------------------------------------------------
(* Each step keeps RoundInv. *)

(* What has been earned, place by place. *)
LEMMA EarnedAt ==
    /\ Earned \in 0 .. 2
    /\ pc \notin {"challenge", "login", "round"} => Earned = 0
    /\ pc = "challenge" => Earned = IF Heard("pppoeChallenge") THEN 1 ELSE 0
    /\ pc = "login" => Earned = IF xch.kind = "notice" \/ Heard("pppoeLogin") THEN 2 ELSE 1
    /\ pc = "round" => Earned = IF xch.kind = "extra" \/ Answered("first") THEN 1 ELSE 0
<1>1. CASE pc = "challenge"
  BY <1>1 DEF Earned
<1>2. CASE pc = "login"
  BY <1>2 DEF Earned
<1>3. CASE pc = "round"
  BY <1>3 DEF Earned
<1>4. CASE pc \notin {"challenge", "login", "round"}
  BY <1>4 DEF Earned
<1> QED
  BY <1>1, <1>2, <1>3, <1>4

LEMMA EarnedNext ==
    /\ Earned' \in 0 .. 2
    /\ pc' \notin {"challenge", "login", "round"} => Earned' = 0
    /\ pc' = "challenge" =>
          Earned' = IF xch'.st = "got" /\ xch'.kind = "pppoeChallenge" /\ xch'.got.first = 7
                    THEN 1 ELSE 0
    /\ pc' = "login" =>
          Earned' = IF \/ xch'.kind = "notice"
                       \/ xch'.st = "got" /\ xch'.kind = "pppoeLogin" /\ xch'.got.first = 7
                    THEN 2 ELSE 1
    /\ pc' = "round" =>
          Earned' = IF \/ xch'.kind = "extra"
                       \/ xch'.st = "got" /\ xch'.kind = "first"
                    THEN 1 ELSE 0
<1>1. CASE pc' = "challenge"
  BY <1>1 DEF Earned, Heard, Answered
<1>2. CASE pc' = "login"
  BY <1>2 DEF Earned, Heard, Answered
<1>3. CASE pc' = "round"
  BY <1>3 DEF Earned, Heard, Answered
<1>4. CASE pc' \notin {"challenge", "login", "round"}
  BY <1>4 DEF Earned
<1> QED
  BY <1>1, <1>2, <1>3, <1>4

(* The place paid up to, as answers are earned and spent. *)
LEMMA Dues ==
    /\ Places \in Nat /\ Due \in Int /\ Due' \in Int
    /\ Earned' <= Earned => Due <= Due'
    /\ Earned' <= Earned + 1 => Due <= Due' + 1
    /\ Earned' + 1 <= Earned => Due + 1 <= Due'
    /\ Earned' = 0 => Due' - 1 = Places
    /\ Earned = 0 => Due > Places
    /\ Earned >= 1 => Due <= Places
<1>1. PICK e \in Int : e = Earned
  BY EarnedAt
<1>2. PICK f \in Int : f = Earned'
  BY EarnedNext
<1>3. PICK p \in Nat : p = Places
  BY UdpAssumption DEF Places
<1>4. Due = p + 1 - e /\ Due' = p + 1 - f
  BY <1>1, <1>2, <1>3 DEF Due, Places
<1>5. /\ f <= e => p + 1 - e <= p + 1 - f
      /\ f <= e + 1 => p + 1 - e <= (p + 1 - f) + 1
      /\ f + 1 <= e => (p + 1 - e) + 1 <= p + 1 - f
      /\ f = 0 => (p + 1 - f) - 1 = p
      /\ e = 0 => p + 1 - e > p
      /\ e >= 1 => p + 1 - e <= p
      /\ p + 1 - e \in Int /\ p + 1 - f \in Int
  <2>1. e \in Int /\ f \in Int /\ p \in Int
    BY <1>1, <1>2, <1>3
  <2> QED
    BY <2>1
<1> QED
  BY <1>1, <1>2, <1>3, <1>4, <1>5

LEMMA PaidDue ==
    ASSUME NEW n, n = Due', Paid(n)'
    PROVE  Paid(Due)'
BY DEF Paid, Behind, AnswersFirst

(* A step that leaves the queues and the counter alone, and earns nothing. *)
LEMMA QuietRound ==
    ASSUME TypeOK, RoundInv, UNCHANGED <<toServer, toClient, counter>>,
           Earned' <= Earned, PipeInv(Beats)', CounterIsNext'
    PROVE  RoundInv'
<1>1. PICK n \in Int : n = Due'
  BY Dues
<1>2. Due \in Int /\ Due <= n
  BY <1>1, Dues
<1>3. Paid(n)
  BY <1>1, <1>2, PaidMore DEF RoundInv, TypeOK
<1>4. Paid(n)'
  BY <1>3, PaidIdle
<1>5. QueuesFit' /\ StraysAreNoAnswers'
  BY DEF RoundInv, QueuesFit, StraysAreNoAnswers
<1>6. Paid(Due)'
  BY <1>1, <1>4, PaidDue
<1> QED
  BY <1>5, <1>6 DEF RoundInv

LEMMA QuietSteps ==
    ASSUME TypeInv, RoundInv, Earned' <= Earned,
           \/ Startup \/ StopAtLoop \/ WakeUp \/ RequestStop \/ ChallengeFails \/ LoginFails
              \/ RoundDone \/ RoundFails \/ AwaitNotice
           \/ UNCHANGED vars
    PROVE  RoundInv'
<1>1. UNCHANGED <<toServer, toClient, counter>>
  BY DEF Startup, StopAtLoop, WakeUp, RequestStop, ChallengeFails, LoginFails, RoundDone,
         RoundFails, AwaitNotice, Listen, vars, clientVars, udpVars
<1>2. xch' = xch \/ xch' = Idle \/ Listen("notice")
  BY DEF Startup, StopAtLoop, WakeUp, RequestStop, ChallengeFails, LoginFails, RoundDone,
         RoundFails, AwaitNotice, vars, udpVars
<1>3. PipeInv(Beats)'
  BY <1>1, <1>2, PipeIdle DEF Named, RoundInv
<1>4. CounterIsNext'
  <2>1. CASE pc' = pc /\ xch' = xch
    BY <1>1, <2>1 DEF RoundInv, CounterIsNext
  <2>2. CASE pc' # "round"
    BY <2>2 DEF CounterIsNext
  <2>3. (pc' = pc /\ xch' = xch) \/ pc' # "round"
    <3>1. CASE Startup \/ StopAtLoop \/ WakeUp
      BY <3>1 DEF Startup, StopAtLoop, WakeUp
    <3>2. CASE RequestStop \/ UNCHANGED vars
      BY <3>2 DEF RequestStop, vars, clientVars, udpVars
    <3>3. CASE ChallengeFails \/ LoginFails \/ RoundDone \/ RoundFails \/ AwaitNotice
      BY <3>3 DEF ChallengeFails, LoginFails, RoundDone, RoundFails, AwaitNotice, clientVars
    <3> QED
      BY <3>1, <3>2, <3>3
  <2> QED
    BY <2>1, <2>2, <2>3
<1> QED
  BY <1>1, <1>3, <1>4, QuietRound DEF TypeInv

(* Challenges and logins sent. *)
LEMMA NumberedRound ==
    ASSUME TypeOK, UdpTypeOK', RoundInv, NEW kind \in {"pppoeChallenge", "pppoeLogin"},
           SendNumbered(kind), counter' = counter, Earned' <= Earned
    PROVE  RoundInv'
<1>1. kind \in Kinds \ {"first"} /\ number \in IdsOf(kind) /\ Begin(kind, number) /\ UdpTypeOK
  BY DEF TypeOK, SendNumbered, Kinds, IdsOf
<1>2. kind \notin Beats
  BY DEF Beats
<1>3. PipeInv(Beats)'
  BY <1>1, <1>2, PipeBegin DEF RoundInv
<1>4. QueuesFit' /\ StraysAreNoAnswers'
  BY <1>1, FitBegin DEF RoundInv
<1>5. PICK n \in Int : n = Due'
  BY Dues
<1>6. Due \in Int /\ Due <= n
  BY <1>5, Dues
<1>7. Paid(n)
  BY <1>1, <1>5, <1>6, PaidMore DEF RoundInv
<1>8. Paid(n)'
  BY <1>1, <1>5, <1>7, PaidBegin
<1>9. Paid(Due)'
  BY <1>5, <1>8, PaidDue
<1>10. CounterIsNext'
  BY <1>1, BeginEffect DEF CounterIsNext
<1> QED
  BY <1>3, <1>4, <1>9, <1>10 DEF RoundInv

(* What is paid up to the n-th place is less than n packets behind.        *)
LEMMA PaidWindow ==
    ASSUME UdpTypeOK, NEW n \in Int, Paid(n)
    PROVE  Window(n - 1)
<1>1. Replies \in Nat /\ \A i : Ahead(i) \in Nat
  BY CountTypes
<1>2. ASSUME NEW i \in Asked, toServer[i].kind = "first"
      PROVE  Behind(toServer[i].id, n - 1)
  <2>1. i \in Nat /\ i >= 1
    BY DEF Asked
  <2>2. n - (Replies + i) \in Int /\ n - 1 \in Int /\ n - (Replies + i) <= n - 1
    BY <1>1, <2>1
  <2>3. Behind(toServer[i].id, n - (Replies + i))
    BY <1>2 DEF Paid
  <2> QED
    BY <2>2, <2>3, BehindMore
<1>3. ASSUME NEW i \in 1 .. Len(toClient), AnswersFirst(toClient[i])
      PROVE  Behind(toClient[i].second, n - 1)
  <2>1. Ahead(i) >= 1
    BY <1>3, CountTypes DEF Said, AnswersFirst
  <2>2. n - Ahead(i) \in Int /\ n - 1 \in Int /\ n - Ahead(i) <= n - 1
    BY <1>1, <2>1
  <2>3. Behind(toClient[i].second, n - Ahead(i))
    BY <1>3 DEF Paid
  <2> QED
    BY <2>2, <2>3, BehindMore
<1> QED
  BY <1>2, <1>3 DEF Window

(* A keepalive packet sent spends an answer. *)
LEMMA SpendRound ==
    ASSUME Places <= CounterModulus, TypeOK, UdpTypeOK', RoundInv,
           NEW kind \in {"extra", "first", "third"}, SendKeepalive2(kind),
           kind = "third" => Answered("first"),
           pc' = "round", Earned' + 1 <= Earned
    PROVE  RoundInv'
<1>1. /\ kind \in Kinds /\ counter \in IdsOf(kind) /\ Begin(kind, counter)
      /\ counter' = (counter + 1) % CounterModulus /\ UdpTypeOK /\ counter \in Counters
  BY DEF TypeOK, SendKeepalive2, Kinds, IdsOf
<1>2. /\ xch'.kind = kind /\ xch'.id = counter /\ xch'.st \in {"wait", "failed"}
  BY <1>1, BeginQueues
<1>3. Earned \in 0 .. 2 /\ Earned' \in 0 .. 2 /\ (kind # "extra" => Earned' = 0)
  BY <1>2, EarnedAt, EarnedNext
<1>4. Earned >= 1
  <2>1. PICK e \in Int : e = Earned
    BY <1>3
  <2>2. PICK f \in Nat : f = Earned'
    BY <1>3
  <2>3. f + 1 <= e
    BY <2>1, <2>2
  <2>4. e \in Int /\ f \in Nat
    BY <2>1, <2>2
  <2>5. e >= 1
    BY <2>3, <2>4
  <2> QED
    BY <2>1, <2>5
<1>5. kind = "first" => NothingLike("first", counter)
  <2>1. Due <= Places /\ Due \in Int /\ Places \in Nat /\ Places >= 1
    <3>1. Places >= 1
      BY UdpAssumption DEF Places
    <3> QED
      BY <1>4, <3>1, Dues
  <2>2. PICK n \in Nat : n = Places
    BY <2>1
  <2>3. Paid(n)
    BY <1>1, <2>1, <2>2, PaidMore DEF RoundInv
  <2>4. Window(n - 1)
    BY <1>1, <2>2, <2>3, PaidWindow
  <2>5. n - 1 \in Nat /\ n - 1 < CounterModulus
    BY <2>1, <2>2, UdpAssumption
  <2> QED
    BY <1>1, <2>4, <2>5, FirstIsUnlike
<1>6. kind = "third" => NothingLike("third", counter)
  BY <1>1, ThirdIsUnlike DEF RoundInv
<1>7. PipeInv(Beats)'
  <2>1. kind \in Beats => NothingLike(kind, counter)
    BY <1>5, <1>6 DEF Beats
  <2> QED
    BY <1>1, <2>1, PipeBegin DEF RoundInv
<1>8. QueuesFit' /\ StraysAreNoAnswers'
  BY <1>1, FitBegin DEF RoundInv
<1>9. PICK m \in Int : m = Due'
  BY Dues
<1>10. PICK n \in Int : n = m - 1
  OBVIOUS
<1>11. Due \in Int /\ Due <= n /\ m = n + 1 /\ (kind = "first" => n >= Places)
  <2>1. PICK d \in Int : d = Due
    BY Dues
  <2>2. d + 1 <= m
    BY <1>9, <2>1, Dues
  <2>3. d <= n /\ m = n + 1
    <3>1. d \in Int /\ m \in Int /\ n = m - 1
      BY <1>9, <1>10, <2>1
    <3> QED
      BY <2>2, <3>1
  <2>4. kind = "first" => n = Places
    BY <1>3, <1>9, <1>10, Dues
  <2>5. Places \in Int
    BY Dues
  <2> QED
    BY <2>1, <2>3, <2>4, <2>5
<1>12. Paid(n)
  BY <1>1, <1>10, <1>11, PaidMore DEF RoundInv
<1>13. Paid(m)'
  BY <1>1, <1>8, <1>9, <1>10, <1>11, <1>12, PaidSend
<1>14. Paid(Due)'
  BY <1>9, <1>13, PaidDue
<1>15. CounterIsNext'
  BY <1>1, <1>2 DEF CounterIsNext
<1> QED
  BY <1>7, <1>8, <1>14, <1>15 DEF RoundInv

(* What the client does in its loop and its calls. *)
LEMMA ClientRounds ==
    ASSUME Places <= CounterModulus, TypeInv, TypeOK', RoundInv, ClientStep
    PROVE  RoundInv'
<1>0. TypeOK /\ UdpTypeOK /\ UdpTypeOK' /\ CallOfPlace
  BY DEF TypeInv, TypeOK
<1>1. CASE Startup \/ StopAtLoop \/ WakeUp
  <2>1. Earned = 0 /\ Earned' = 0
    BY <1>1, EarnedAt, EarnedNext DEF Startup, StopAtLoop, WakeUp
  <2> QED
    BY <1>1, <2>1, QuietSteps
<1>2. CASE ChallengeFails \/ LoginFails \/ RoundDone \/ RoundFails
  <2>1. Earned' = 0
    BY <1>2, EarnedNext DEF ChallengeFails, LoginFails, RoundDone, RoundFails
  <2>2. Earned \in Nat
    BY EarnedAt
  <2>3. Earned' <= Earned
    BY <2>1, <2>2
  <2> QED
    BY <1>2, <2>3, QuietSteps
<1>3. CASE AwaitNotice
  <2>1. Earned = 2 /\ Earned' = 2
    <3>1. pc = "login" /\ pc' = "login" /\ Heard("pppoeLogin") /\ xch'.kind = "notice"
      BY <1>3, ListenEffect DEF AwaitNotice, clientVars
    <3> QED
      BY <3>1, EarnedAt, EarnedNext
  <2> QED
    BY <1>3, <2>1, QuietSteps
<1>4. CASE SendChallenge
  <2>1. Earned = 0
    BY <1>4, EarnedAt DEF SendChallenge
  <2>2. Earned' = 0
    BY <1>4, EarnedNext, NumberedEffect DEF SendChallenge
  <2>3. SendNumbered("pppoeChallenge") /\ counter' = counter
    BY <1>4 DEF SendChallenge
  <2> QED
    BY <1>0, <2>1, <2>2, <2>3, NumberedRound
<1>5. CASE SendLogin
  <2>1. Earned = 1
    BY <1>5, EarnedAt DEF SendLogin
  <2>2. Earned' = 1
    BY <1>5, EarnedNext, NumberedEffect DEF SendLogin
  <2>3. SendNumbered("pppoeLogin") /\ counter' = counter
    BY <1>5 DEF SendLogin
  <2> QED
    BY <1>0, <2>1, <2>2, <2>3, NumberedRound
<1>6. ASSUME NEW kind \in {"extra", "first", "third"}, SendKeepalive2(kind), pc' = "round"
      PROVE  Earned' = IF kind = "extra" THEN 1 ELSE 0
  <2>1. xch'.kind = kind /\ xch'.st \in {"wait", "failed"}
    BY <1>6, BeginEffect DEF SendKeepalive2
  <2> QED
    BY <1>6, <2>1, EarnedNext
<1>7. CASE StartRound
  <2>1. PICK kind \in {"extra", "first"} : SendKeepalive2(kind)
    BY <1>7 DEF StartRound, BeginKeepalive2
  <2>2. pc' = "round" /\ Earned = 2
    BY <1>7, EarnedAt DEF StartRound
  <2>3. Earned' + 1 <= Earned
    BY <1>6, <2>1, <2>2
  <2> QED
    BY <1>0, <2>1, <2>2, <2>3, SpendRound
<1>8. CASE RoundStep
  <2>1. pc = "round" /\ pc' = "round"
    BY <1>8 DEF RoundStep
  <2>2. CASE ExtraAnswered
    <3>1. SendKeepalive2("first") /\ xch.kind = "extra"
      BY <2>2 DEF ExtraAnswered, Answered
    <3>2. Earned = 1 /\ Earned' = 0
      BY <1>6, <2>1, <3>1, EarnedAt
    <3> QED
      BY <1>0, <2>1, <3>1, <3>2, SpendRound
  <2>3. CASE FirstAnswered
    <3>1. SendKeepalive2("third") /\ Answered("first")
      BY <2>3 DEF FirstAnswered
    <3>2. Earned = 1 /\ Earned' = 0
      BY <1>6, <2>1, <3>1, EarnedAt
    <3> QED
      BY <1>0, <2>1, <3>1, <3>2, SpendRound
  <2> QED
    BY <1>8, <2>2, <2>3 DEF RoundStep
<1> QED
  BY <1>1, <1>2, <1>3, <1>4, <1>5, <1>7, <1>8 DEF ClientStep

(* An answer taken is earned, if it is one of the server's. *)
LEMMA TakeRound ==
    ASSUME ~ Reorders, TypeInv, TypeOK', RoundInv, UNCHANGED <<clientVars, session>>,
           ReceiveExpected \/ IgnoreUnexpected
    PROVE  Paid(Due)'
<1>0. TypeOK /\ UdpTypeOK /\ UdpTypeOK' /\ CallOfPlace /\ counter' = counter /\ pc' = pc
  BY DEF TypeInv, TypeOK, clientVars
<1>1. /\ 1 \in 1 .. Len(toClient) /\ toClient[1] \in Datagrams
      /\ toClient' = Without(toClient, 1) /\ toServer' = toServer /\ xch.st = "wait"
      /\ \/ xch' = xch
         \/ /\ xch' = [xch EXCEPT !.st = "got", !.got = toClient[1]]
            /\ Matches(toClient[1], Expected(xch.kind, xch.id))
  <2>1. PICK i \in Arrivals(toClient) :
          /\ toClient' = Without(toClient, i)
          /\ \/ xch' = xch
             \/ /\ xch' = [xch EXCEPT !.st = "got", !.got = toClient[i]]
                /\ Matches(toClient[i], Expected(xch.kind, xch.id))
    BY DEF ReceiveExpected, IgnoreUnexpected
  <2>2. i = 1 /\ i \in 1 .. Len(toClient) /\ toClient[i] \in Datagrams
    BY <1>0, ArrivalIsHead DEF UdpTypeOK
  <2> QED
    BY <2>1, <2>2 DEF ReceiveExpected, IgnoreUnexpected
<1>2. pc \in {"challenge", "login", "round"}
  BY <1>0, <1>1 DEF CallOfPlace
<1>3. /\ Earned' <= Earned + 1
      /\ toClient[1].from # "server" => Earned' <= Earned
  <2>0. Earned \in 0 .. 2 /\ Earned' \in 0 .. 2
    BY EarnedAt, EarnedNext
  <2>1. CASE xch' = xch
    <3>1. Earned' = Earned
      BY <1>0, <2>1 DEF Earned, Heard, Answered
    <3> QED
      BY <2>0, <3>1
  <2>2. CASE /\ xch' = [xch EXCEPT !.st = "got", !.got = toClient[1]]
             /\ Matches(toClient[1], Expected(xch.kind, xch.id))
    <3>1. /\ xch'.st = "got" /\ xch'.kind = xch.kind /\ xch'.id = xch.id
          /\ xch'.got = toClient[1]
      BY <1>0, <2>2 DEF UdpTypeOK, Exchanges
    <3>2. toClient[1].from # "server" => toClient[1].first # 7
      BY <1>1 DEF RoundInv, StraysAreNoAnswers
    <3>3. CASE pc = "challenge"
      <4>1. Earned = 0
        BY <1>1, <3>3, EarnedAt DEF Heard, Answered
      <4>2. Earned' = IF toClient[1].first = 7 THEN 1 ELSE 0
        BY <1>0, <3>1, <3>3, EarnedNext DEF CallOfPlace
      <4> QED
        BY <3>2, <4>1, <4>2
    <3>4. CASE pc = "login"
      <4>1. Earned = IF xch.kind = "notice" THEN 2 ELSE 1
        BY <1>1, <3>4, EarnedAt DEF Heard, Answered
      <4>2. Earned' = IF xch.kind = "notice" \/ toClient[1].first = 7 THEN 2 ELSE 1
        BY <1>0, <3>1, <3>4, EarnedNext DEF CallOfPlace
      <4> QED
        BY <3>2, <4>1, <4>2
    <3>5. CASE pc = "round"
      <4>1. Earned = IF xch.kind = "extra" THEN 1 ELSE 0
        BY <1>1, <3>5, EarnedAt DEF Answered
      <4>2. Earned' = IF xch.kind \in {"extra", "first"} THEN 1 ELSE 0
        BY <1>0, <3>1, <3>5, EarnedNext
      <4>3. xch.kind = "first" => toClient[1].from = "server"
        BY <2>2 DEF Matches, Expected, Keepalive2Expected, Filter
      <4> QED
        BY <4>1, <4>2, <4>3
    <3> QED
      BY <1>2, <3>3, <3>4, <3>5
  <2> QED
    BY <1>1, <2>1, <2>2
<1>4. PICK m \in Int : m = Due'
  BY Dues
<1>5. PICK n \in Int : n = IF toClient[1].from = "server" THEN m + 1 ELSE m
  OBVIOUS
<1>6. Due \in Int /\ Due <= n /\ m = IF toClient[1].from = "server" THEN n - 1 ELSE n
  <2>1. CASE toClient[1].from = "server"
    <3>1. Due \in Int /\ Due <= m + 1 /\ n = m + 1
      BY <1>3, <1>4, <1>5, <2>1, Dues
    <3>2. m = n - 1
      BY <3>1
    <3> QED
      BY <2>1, <3>1, <3>2
  <2>2. CASE toClient[1].from # "server"
    BY <1>3, <1>4, <1>5, <2>2, Dues
  <2> QED
    BY <2>1, <2>2
<1>7. Paid(n)
  BY <1>0, <1>5, <1>6, PaidMore DEF RoundInv
<1>8. Paid(m)'
  BY <1>0, <1>1, <1>4, <1>5, <1>6, <1>7, PaidTaken
<1> QED
  BY <1>4, <1>8, PaidDue

(* Until then nothing is earned and nothing is spent. *)
LEMMA TimeoutRound ==
    ASSUME TypeInv, TypeOK', RoundInv, QueuesFit', Timeout, UNCHANGED <<clientVars, session>>
    PROVE  Paid(Due)'
<1>0. TypeOK /\ UdpTypeOK /\ UdpTypeOK' /\ CallOfPlace /\ counter' = counter /\ pc' = pc
  BY DEF TypeInv, TypeOK, clientVars
<1>1. xch.st = "wait" /\ xch'.st \in {"wait", "failed"} /\ xch'.kind = xch.kind
  BY <1>0, TimeoutQueues
<1>2. pc \in {"challenge", "login", "round"}
  BY <1>0, <1>1 DEF CallOfPlace
<1>3. Earned' = Earned
  <2>1. CASE pc = "challenge"
    BY <1>0, <1>1, <2>1, EarnedAt, EarnedNext DEF Heard, Answered
  <2>2. CASE pc = "login"
    BY <1>0, <1>1, <2>2, EarnedAt, EarnedNext DEF Heard, Answered
  <2>3. CASE pc = "round"
    BY <1>0, <1>1, <2>3, EarnedAt, EarnedNext DEF Answered
  <2> QED
    BY <1>2, <2>1, <2>2, <2>3
<1>4. PICK n \in Int : n = Due'
  BY Dues
<1>5. n = Due
  BY <1>3, <1>4 DEF Due, Places
<1>6. Paid(n)
  BY <1>5 DEF RoundInv
<1>7. xch.kind = "first" => Behind(xch.id, 1) /\ n > Places
  <2> SUFFICES ASSUME xch.kind = "first"
               PROVE  Behind(xch.id, 1) /\ n > Places
    OBVIOUS
  <2>1. pc = "round"
    BY <1>0, <1>2 DEF CallOfPlace
  <2>2. counter = (xch.id + 1) % CounterModulus
    BY <2>1 DEF RoundInv, CounterIsNext
  <2>3. Behind(xch.id, 1)
    BY <2>2 DEF Behind
  <2>4. Earned = 0
    BY <1>1, <2>1, EarnedAt DEF Answered
  <2> QED
    BY <1>5, <2>3, <2>4, Dues
<1>8. Paid(n)'
  BY <1>0, <1>4, <1>6, <1>7, PaidResend
<1> QED
  BY <1>4, <1>8, PaidDue

LEMMA WaitRound ==
    ASSUME ~ Reorders, TypeInv, TypeOK', RoundInv, WaitStep
    PROVE  RoundInv'
<1>0. UdpTypeOK /\ Wait /\ UNCHANGED <<clientVars, session>>
  BY DEF TypeInv, TypeOK, WaitStep
<1>1. PipeInv(Beats)'
  BY <1>0, PipeWait DEF Named, RoundInv
<1>2. QueuesFit' /\ StraysAreNoAnswers'
  BY <1>0, FitWait DEF RoundInv
<1>3. Paid(Due)'
  BY <1>0, <1>2, TakeRound, TimeoutRound DEF Wait
<1>4. CounterIsNext'
  <2>1. xch'.kind = xch.kind /\ xch'.id = xch.id
    BY <1>0 DEF Wait, ReceiveExpected, IgnoreUnexpected, Timeout, UdpTypeOK, Exchanges
  <2> QED
    BY <1>0, <2>1 DEF RoundInv, CounterIsNext, clientVars
<1> QED
  BY <1>1, <1>2, <1>3, <1>4 DEF RoundInv

(* The network and the server. *)
LEMMA OutsideRound ==
    ASSUME ~ Reorders, ~ Duplicates, TypeInv, TypeOK', RoundInv, NetworkStep \/ ServerStep
    PROVE  RoundInv'
<1>0. UdpTypeOK /\ UdpTypeOK'
  BY DEF TypeInv, TypeOK
<1>1. xch' = xch /\ pc' = pc /\ counter' = counter
  BY DEF NetworkStep, ServerStep, clientVars, Network, LoseRequest, LoseReply, DuplicateReply,
         ServerHandles, Stray
<1>2. CounterIsNext'
  BY <1>1 DEF RoundInv, CounterIsNext
<1>3. Earned' = Earned
  BY <1>1 DEF Earned, Heard, Answered
<1>4. PICK n \in Int : n = Due'
  BY Dues
<1>5. n = Due
  BY <1>3, <1>4 DEF Due, Places
<1>6. Paid(n)
  BY <1>5 DEF RoundInv
<1>7. CASE NetworkStep
  <2>1. Network
    BY <1>7 DEF NetworkStep
  <2>2. PipeInv(Beats)'
    BY <1>0, <2>1, PipeNetwork DEF RoundInv
  <2>3. QueuesFit' /\ StraysAreNoAnswers'
    BY <1>0, <2>1, FitNetwork DEF RoundInv
  <2>4. LoseRequest \/ LoseReply
    BY <2>1 DEF Network, DuplicateReply
  <2>5. Paid(n)'
    BY <1>0, <1>1, <1>4, <1>6, <2>4, PaidLoseRequest, PaidLoseReply
  <2> QED
    BY <1>2, <1>4, <2>2, <2>3, <2>5, PaidDue DEF RoundInv
<1>8. CASE ServerStep
  <2>1. ServerHandles \/ Stray
    BY <1>8 DEF ServerStep
  <2>2. PipeInv(Beats)'
    BY <1>0, <2>1, PipeServer DEF RoundInv, Named, ServerNext
  <2>3. QueuesFit' /\ StraysAreNoAnswers'
    BY <1>0, <2>1, FitServer DEF RoundInv
  <2>4. Paid(n)'
    BY <1>0, <1>1, <1>4, <1>6, <2>1, PaidAnswer, PaidStray
  <2> QED
    BY <1>2, <1>4, <2>2, <2>3, <2>4, PaidDue DEF RoundInv
<1> QED
  BY <1>7, <1>8

LEMMA RoundInvStep ==
    ASSUME ~ Reorders, ~ Duplicates, Places <= CounterModulus,
           TypeInv, TypeInv', RoundInv, [Next]_vars
    PROVE  RoundInv'
<1>0. TypeOK'
  BY DEF TypeInv
<1>1. CASE RequestStop \/ UNCHANGED vars
  <2>1. pc' = pc /\ xch' = xch
    BY <1>1 DEF RequestStop, vars, clientVars, udpVars
  <2>2. Earned' = Earned
    BY <2>1 DEF Earned, Heard, Answered
  <2>3. Earned \in Int
    BY EarnedAt
  <2>4. Earned' <= Earned
    BY <2>2, <2>3
  <2> QED
    BY <1>1, <2>4, QuietSteps
<1>2. CASE ClientStep
  BY <1>0, <1>2, ClientRounds
<1>3. CASE WaitStep
  BY <1>0, <1>3, WaitRound
<1>4. CASE NetworkStep \/ ServerStep
  BY <1>0, <1>4, OutsideRound
<1> QED
  BY <1>1, <1>2, <1>3, <1>4 DEF Next

LEMMA InitRound == Init => RoundInv
<1> SUFFICES ASSUME Init PROVE RoundInv
  OBVIOUS
<1>1. Idle.st = "idle" /\ Idle.got.from = "other"
  BY DEF Idle, NoReply, Datagram
<1>2. toServer = <<>> /\ toClient = <<>> /\ xch = Idle /\ pc = "start"
  BY DEF Init
<1>3. Asked = {} /\ Said = {}
  BY <1>2 DEF Asked, Said
<1>4. PipeInv(Beats)
  BY <1>1, <1>2, <1>3
  DEF PipeInv, Fifo, Distinct, Cleared, SeedsAreEchoes, SeedIsEcho
<1>5. QueuesFit /\ StraysAreNoAnswers
  BY <1>2, UdpAssumption DEF QueuesFit, StraysAreNoAnswers
<1>6. Paid(Due)
  BY <1>2, <1>3 DEF Paid
<1>7. CounterIsNext
  BY <1>2 DEF CounterIsNext
<1> QED
  BY <1>4, <1>5, <1>6, <1>7 DEF RoundInv

(* RoundInv is an invariant where the network neither reorders nor         *)
(* duplicates and has no more places than the counter has values.          *)
THEOREM RoundsArePaid ==
    ASSUME ~ Reorders, ~ Duplicates, Places <= CounterModulus
    PROVE  Spec => []RoundInv
<1>1. TypeInv /\ TypeInv' /\ RoundInv /\ [Next]_vars => RoundInv'
  BY RoundInvStep
<1> QED
  BY <1>1, Invariance, InitRound, PTL DEF Spec

(* The two packets that end a keepalive_2 of PPPoE mode                    *)
(* (keepalive.c:476-565) are satisfied only by their own answers, although *)
(* nothing ever resets keepalive_counter and pppoe_challenge and           *)
(* pppoe_login take whatever datagram comes first.  The extra packet       *)
(* before them is not covered.                                             *)
THEOREM RoundRepliesAreFresh ==
    ASSUME ~ Reorders, ~ Duplicates, Places <= CounterModulus
    PROVE  Spec => []FreshRoundReplies
<1>1. RoundInv => FreshRoundReplies
  BY DEF RoundInv, PipeInv, Cleared, FreshRoundReplies, Beats
<1> QED
  BY <1>1, RoundsArePaid, PTL
=============================================================================
