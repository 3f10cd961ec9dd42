-------------------------- MODULE DhcpSessionProofs --------------------------
(***************************************************************************)
(* Theorems of DhcpSession for every value of its constants: its types,    *)
(* its safety properties, and that it implements ClientLifecycle.  The     *)
(* first part rests on the inductive invariant IInv of DhcpSession; the    *)
(* second, on a network that keeps the order, on OrderInv and RoundInv of  *)
(* DhcpOrder.                                                              *)
(***************************************************************************)
EXTENDS DhcpOrder, ExchangeProofs, WellFoundedInduction

USE RetryPolicyAssumption, SessionAssumption DEF ShortGenericDelay, DefaultDelay

LEMMA RoundStepType ==
    ASSUME TypeOK, RoundStep
    PROVE  UdpTypeOK' /\ counter' \in Counters
<1>1. CASE Keepalive1Second
  <2>1. xch.id \in Nonces \cup {None}
    BY <1>1 DEF Keepalive1Second, Answered, TypeOK, UdpTypeOK, Exchanges, IdsOf
  <2> QED
    BY <1>1, <2>1, Keepalive1Type DEF Keepalive1Second, TypeOK
<1>2. CASE ExtraAnswered
  BY <1>2, SendKeepalive2Type DEF ExtraAnswered, TypeOK
<1>3. CASE FirstAnswered
  BY <1>3, SendKeepalive2Type DEF FirstAnswered, TypeOK
<1>4. CASE BeginKeepalive2(ExtraForRound)
  BY <1>4, SendKeepalive2Type DEF BeginKeepalive2, TypeOK
<1> QED
  BY <1>1, <1>2, <1>3, <1>4 DEF RoundStep, KeepaliveStep

(* The counters of the loop stay in their ranges.                          *)
LEMMA PolicyTypes ==
    ASSUME TypeOK
    PROVE  /\ NextFailedLogins(loginFailed) \in 0 .. 4
           /\ NextRounds(rounds) \in 0 .. ExtraInterval
           /\ LoginTemplateForAttempt(JluMode, loginFailed) \in Templates
           /\ failures < FailureThreshold =>
                  NextKeepaliveFailureCount(failures, FALSE) \in 0 .. FailureThreshold
BY DEF TypeOK, NextFailedLogins, NextRounds, LoginTemplateForAttempt, Templates,
       NextKeepaliveFailureCount

LEMMA RefusalDelay ==
    ASSUME NEW d \in Datagrams
    PROVE  /\ DelayAfterRefusal(d) \in Nat \ {0}
           /\ d.len <= 4 => DelayAfterRefusal(d) = ShortGenericDelay
           /\ d.len > 4 /\ d.code = "UPDATE_CLIENT" /\ d.after > 0 =>
                  DelayAfterRefusal(d) = d.after
           /\ d.len > 5 /\ d.code # "UPDATE_CLIENT" =>
                  DelayAfterRefusal(d) = DefaultDelay
<1>1. d.len \in Nat /\ d.after \in Nat
  BY DEF Datagrams
<1> QED
  BY <1>1 DEF DelayAfterRefusal, NormalizeLoginRetryDelay, RetryDelayForLoginReply

LEMMA ChallengeType ==
    ASSUME UdpTypeOK, NEW kind \in {"challenge", "logoutChallenge"},
           BeginChallenge(kind)
    PROVE  UdpTypeOK'
<1>1. \A n \in FreshNonces : n \in IdsOf(kind)
  BY DEF FreshNonces, IdsOf
<1>2. kind \in Kinds
  BY DEF Kinds
<1> QED
  BY <1>1, <1>2, BeginType DEF BeginChallenge

(* The types hold after every step. *)
LEMMA TypeStep ==
    ASSUME IInv, [Next]_vars
    PROVE  TypeOK'
<1> USE DEF IInv, ControlInv
<1>a. addresses' = addresses /\ addresses \in BOOLEAN
  BY DEF Next, ClientStep, OutsideStep, WaitStep, NetworkStep, ServerStep,
         clientVars, vars, TypeOK
<1> USE <1>a
<1>0. /\ UdpTypeOK
      /\ xch.got \in Datagrams
      /\ xch.got.data \in Nonces \cup {None}
  BY DEF TypeOK, UdpTypeOK, Exchanges, Datagrams
<1>1. CASE Startup \/ StopAtLoop \/ TriesExhausted
  BY <1>1 DEF Startup, StopAtLoop, TriesExhausted, TypeOK, UdpTypeOK, udpVars,
              Pcs, Exited
<1>2. CASE StartChallenge
  BY <1>2, ChallengeType DEF StartChallenge, TypeOK, Pcs
<1>3. CASE ChallengeFailed
  BY <1>3 DEF ChallengeFailed, AfterFailedAttempt, TypeOK, UdpTypeOK, udpVars,
              Pcs, Exited
<1>4. CASE SendLogin
  <2>1. xch.got.data \in IdsOf("login") /\ "login" \in Kinds
    BY <1>0 DEF IdsOf, Kinds
  <2>2. UdpTypeOK'
    BY <1>0, <1>4, <2>1, BeginType DEF SendLogin
  <2> QED
    BY <1>0, <1>4, <2>2, PolicyTypes DEF SendLogin, TypeOK
<1>5. CASE LoginImpossible
  BY <1>0, <1>5, PolicyTypes
  DEF LoginImpossible, AfterFailedAttempt, TypeOK, UdpTypeOK, udpVars, Pcs, Exited
<1>6. CASE LoginFails
  <2>1. delay' \in Nat \ {0}
    BY <1>0, <1>6, RefusalDelay DEF LoginFails, TypeOK
  <2>2. loginFailed' \in 0 .. 4
    BY <1>6, PolicyTypes DEF LoginFails
  <2>3. pc' \in Pcs
    BY <1>6 DEF LoginFails, AfterFailedAttempt, Pcs, Exited
  <2>4. UdpTypeOK'
    BY <1>0, <1>6 DEF LoginFails, UdpTypeOK, udpVars
  <2> QED
    BY <1>6, <2>1, <2>2, <2>3, <2>4 DEF LoginFails, TypeOK
<1>7. CASE AcceptLogin
  BY <1>0, <1>7, ListenType DEF AcceptLogin, TypeOK
<1>8. CASE EnterSession
  <2>1. 0 \in Counters
    BY UdpAssumption DEF Counters
  <2> QED
    BY <1>0, <1>8, <2>1, IdleSocketType DEF EnterSession, TypeOK, Pcs
<1>9. CASE BackoffEnds
  BY <1>0, <1>9, IdleSocketType DEF BackoffEnds, TypeOK, AttemptCounted, Pcs
<1>10. CASE StartRound
  <2>1. UdpTypeOK'
    BY <1>10, Keepalive1Type DEF StartRound, BeginKeepalive1, TypeOK
  <2> QED
    BY <1>10, <2>1 DEF StartRound, BeginKeepalive1, TypeOK, Pcs
<1>11. CASE RoundStep
  BY <1>11, RoundStepType DEF RoundStep, TypeOK
<1>12. CASE RoundDone
  BY <1>0, <1>12, IdleSocketType, PolicyTypes
  DEF RoundDone, TypeOK, NextKeepaliveFailureCount, Pcs
<1>13. CASE WakeUp
  BY <1>13 DEF WakeUp, TypeOK, UdpTypeOK, udpVars, Pcs
<1>14. CASE RetryRound
  BY <1>0, <1>14, IdleSocketType, PolicyTypes
  DEF RetryRound, CountFailure, BelowThreshold, TypeOK, Pcs
<1>15. CASE GiveUpSession
  <2>1. failures' \in 0 .. FailureThreshold
    BY <1>15, PolicyTypes DEF GiveUpSession, CountFailure, BelowThreshold
  <2>2. delay' \in Nat \ {0}
    BY <1>15 DEF GiveUpSession, NormalizeLoginRetryDelay
  <2>3. UdpTypeOK'
    BY <1>0, <1>15 DEF GiveUpSession, UdpTypeOK, udpVars
  <2> QED
    BY <1>15, <2>1, <2>2, <2>3 DEF GiveUpSession, TypeOK, Pcs
<1>16. CASE GiveUpStopping
  <2>1. failures' \in 0 .. FailureThreshold
    BY <1>16, PolicyTypes DEF GiveUpStopping, CountFailure, BelowThreshold
  <2>2. delay' \in Nat \ {0}
    BY <1>16 DEF GiveUpStopping, NormalizeLoginRetryDelay
  <2>3. UdpTypeOK' /\ pc' \in Pcs
    BY <1>0, <1>16, ChallengeType DEF GiveUpStopping, BeginLogout, Pcs
  <2> QED
    BY <1>16, <2>1, <2>2, <2>3 DEF GiveUpStopping, TypeOK
<1>17. CASE StopAtTop
  BY <1>0, <1>17, ChallengeType DEF StopAtTop, BeginLogout, TypeOK, Pcs
<1>18. CASE SendLogout
  <2>1. auth \in IdsOf("logout") /\ "logout" \in Kinds
    BY DEF IdsOf, Kinds, TypeOK
  <2>2. UdpTypeOK'
    BY <1>0, <1>18, <2>1, BeginType DEF SendLogout
  <2> QED
    BY <1>18, <2>2 DEF SendLogout, clientVars, TypeOK
<1>19. CASE FinishLogout
  BY <1>19 DEF FinishLogout, TypeOK, UdpTypeOK, udpVars, Pcs, Exited
<1>20. CASE WaitStep
  BY <1>20, WaitType DEF WaitStep, clientVars, TypeOK
<1>21. CASE NetworkStep
  BY <1>21, NetworkType DEF NetworkStep, clientVars, TypeOK
<1>22. CASE ServerStep
  BY <1>22, ServerType DEF ServerStep, clientVars, TypeOK
<1>23. CASE RequestStop
  BY <1>23 DEF RequestStop, TypeOK, UdpTypeOK, udpVars
<1>24. CASE Kill
  BY <1>0, <1>24, IdleSocketType DEF Kill, TypeOK, Pcs, Exited
<1>25. CASE Respawn
  <2>1. 0 \in Counters
    BY UdpAssumption DEF Counters
  <2> QED
    BY <1>0, <1>25, <2>1, IdleSocketType DEF Respawn, TypeOK, Pcs, Templates
<1>26. CASE UNCHANGED vars
  BY <1>26 DEF vars, clientVars, udpVars, TypeOK, UdpTypeOK
<1> QED
  BY <1>1, <1>2, <1>3, <1>4, <1>5, <1>6, <1>7, <1>8, <1>9, <1>10, <1>11, <1>12,
     <1>13, <1>14, <1>15, <1>16, <1>17, <1>18, <1>19, <1>20, <1>21, <1>22, <1>23,
     <1>24, <1>25, <1>26
  DEF Next, ClientStep, OutsideStep, AttemptStep, SessionStep, LogoutStep

(* The same of the calls of dogcom. *)
LEMMA ChallengeEffect ==
    ASSUME NEW kind, BeginChallenge(kind)
    PROVE  xch'.st \in {"wait", "failed"} /\ xch'.kind = kind
BY BeginEffect DEF BeginChallenge

LEMMA RoundEffect ==
    ASSUME RoundStep
    PROVE  xch'.st \in {"wait", "failed"}
BY BeginEffect
DEF RoundStep, KeepaliveStep, Keepalive1Second, ExtraAnswered, FirstAnswered,
    BeginKeepalive2, SendKeepalive2

(* The control part of the invariant: one step per action. *)
LEMMA ControlStep ==
    ASSUME IInv, [Next]_vars
    PROVE  ControlInv'
<1> USE DEF IInv, ControlInv, AttemptCounted, BelowThreshold, WaitsInCalls,
            DelayIsDefault, NoSessionForgotten, StopExitAccounted, GivenUp
<1>0. UdpTypeOK
  BY DEF TypeOK
<1>1. CASE Startup
  BY <1>1 DEF Startup, udpVars
<1>2. CASE StopAtLoop \/ TriesExhausted
  BY <1>2 DEF StopAtLoop, TriesExhausted, udpVars
<1>3. CASE StartChallenge
  BY <1>3, ChallengeEffect DEF StartChallenge, TypeOK
<1>4. CASE ChallengeFailed
  BY <1>4 DEF ChallengeFailed, AfterFailedAttempt, udpVars
<1>5. CASE SendLogin
  BY <1>5, BeginEffect DEF SendLogin, Answered
<1>6. CASE LoginImpossible
  BY <1>6 DEF LoginImpossible, AfterFailedAttempt, Answered, udpVars
<1>7. CASE LoginFails
  BY <1>7
  DEF LoginFails, LoginRefused, LoginUnanswered, AfterFailedAttempt, Answered, udpVars
<1>8. CASE AcceptLogin
  BY <1>8, ListenEffect DEF AcceptLogin
<1>9. CASE EnterSession
  BY <1>9 DEF EnterSession, Idle
<1>10. CASE BackoffEnds
  BY <1>10 DEF BackoffEnds, Idle
<1>11. CASE StartRound
  BY <1>11, BeginEffect DEF StartRound, BeginKeepalive1
<1>12. CASE RoundStep
  BY <1>12, RoundEffect DEF RoundStep
<1>13. CASE RoundDone
  BY <1>13 DEF RoundDone, NextKeepaliveFailureCount, Idle
<1>14. CASE WakeUp
  BY <1>14 DEF WakeUp, udpVars, TypeOK
<1>15. CASE RetryRound
  BY <1>15 DEF RetryRound, CountFailure, NextKeepaliveFailureCount, ShouldReconnect,
               Idle, TypeOK
<1>16. CASE GiveUpSession
  BY <1>16 DEF GiveUpSession, ShouldReconnect, KeepaliveFailed, Answered, udpVars
<1>17. CASE GiveUpStopping
  BY <1>17, ChallengeEffect DEF GiveUpStopping, BeginLogout
<1>18. CASE StopAtTop
  BY <1>18, ChallengeEffect DEF StopAtTop, BeginLogout
<1>19. CASE SendLogout
  BY <1>19, BeginEffect DEF SendLogout, Answered, clientVars
<1>20. CASE FinishLogout
  BY <1>20 DEF FinishLogout, Answered, udpVars
<1>21. CASE WaitStep
  BY <1>0, <1>21, WaitEffect DEF WaitStep, clientVars
<1>22. CASE NetworkStep
  BY <1>22 DEF NetworkStep, Network, LoseRequest, LoseReply, DuplicateReply, clientVars
<1>23. CASE ServerStep
  BY <1>23
  DEF ServerStep, ServerNext, ServerHandles, ServerEndsSession, Stray, clientVars, udpVars
<1>24. CASE RequestStop
  BY <1>24 DEF RequestStop, udpVars
<1>25. CASE Kill
  BY <1>25 DEF Kill, Idle
<1>26. CASE Respawn
  BY <1>26 DEF Respawn, Idle
<1>27. CASE UNCHANGED vars
  BY <1>27 DEF vars, clientVars, udpVars
<1> QED
  BY <1>1, <1>2, <1>3, <1>4, <1>5, <1>6, <1>7, <1>8, <1>9, <1>10, <1>11, <1>12,
     <1>13, <1>14, <1>15, <1>16, <1>17, <1>18, <1>19, <1>20, <1>21, <1>22, <1>23,
     <1>24, <1>25, <1>26, <1>27
  DEF Next, ClientStep, OutsideStep, AttemptStep, SessionStep, LogoutStep

(* A back-off begins with a cause for its delay, and keeps it: while it    *)
(* lasts nothing is received and the delay is not touched.                 *)
LEMMA DelayStep ==
    ASSUME IInv, [Next]_vars
    PROVE  DelayHasCause'
<1> USE DEF DelayHasCause
<1>0. /\ UdpTypeOK
      /\ xch.got \in Datagrams
      /\ DelayHasCause
      /\ WaitsInCalls
      /\ DelayIsDefault
  BY DEF IInv, ControlInv, TypeOK, UdpTypeOK, Exchanges
<1>1. CASE ChallengeFailed
  BY <1>0, <1>1
  DEF ChallengeFailed, AfterFailedAttempt, DelayIsDefault, LoginRefused, Answered, udpVars
<1>2. CASE LoginImpossible
  BY <1>0, <1>2
  DEF LoginImpossible, AfterFailedAttempt, DelayIsDefault, LoginRefused, Answered, udpVars
<1>3. CASE LoginFails
  <2>1. UNCHANGED xch
    BY <1>3 DEF LoginFails, udpVars
  <2>2. CASE LoginRefused
    <3>1. delay' = DelayAfterRefusal(xch.got)
      BY <1>3, <2>2 DEF LoginFails, LoginRefused, LoginUnanswered, Answered
    <3> QED
      BY <1>0, <2>1, <2>2, <3>1, RefusalDelay DEF LoginRefused, Answered
  <2>3. CASE ~ LoginRefused
    BY <1>0, <1>3, <2>1, <2>3 DEF LoginFails, DelayIsDefault, LoginRefused, Answered
  <2> QED
    BY <2>2, <2>3
<1>4. CASE GiveUpSession
  BY <1>4
  DEF GiveUpSession, NormalizeLoginRetryDelay, KeepaliveFailed, KeepaliveKinds,
      LoginRefused, Answered, udpVars
<1>5. CASE pc' # "backoff"
  BY <1>5
<1>6. CASE pc = "backoff" /\ UNCHANGED <<pc, delay, xch>>
  BY <1>0, <1>6 DEF LoginRefused, Answered
<1>7. CASE ClientStep
  BY <1>1, <1>2, <1>3, <1>4, <1>5, <1>7
  DEF ClientStep, AttemptStep, SessionStep, LogoutStep, Startup, StopAtLoop,
      TriesExhausted, StartChallenge, SendLogin, AcceptLogin, EnterSession,
      BackoffEnds, StartRound, RoundStep, RoundDone, WakeUp, RetryRound,
      GiveUpStopping, BeginLogout, StopAtTop, SendLogout, FinishLogout, clientVars
<1>8. CASE WaitStep
  BY <1>0, <1>5, <1>8, WaitEffect DEF WaitStep, WaitsInCalls, clientVars
<1>9. CASE NetworkStep
  BY <1>5, <1>6, <1>9
  DEF NetworkStep, Network, LoseRequest, LoseReply, DuplicateReply, clientVars
<1>10. CASE ServerStep
  BY <1>5, <1>6, <1>10
  DEF ServerStep, ServerNext, ServerHandles, ServerEndsSession, Stray, clientVars, udpVars
<1>11. CASE RequestStop \/ UNCHANGED vars
  BY <1>5, <1>6, <1>11 DEF RequestStop, vars, clientVars, udpVars
<1>12. CASE Kill \/ Respawn
  BY <1>5, <1>12 DEF Kill, Respawn
<1> QED
  BY <1>7, <1>8, <1>9, <1>10, <1>11, <1>12 DEF Next, OutsideStep

LEMMA InitIInv == Init => IInv
<1> SUFFICES ASSUME Init PROVE IInv
  OBVIOUS
<1>1. TypeOK
  <2>1. 0 \in Counters
    BY UdpAssumption DEF Counters
  <2>2. UdpTypeOK
    <3>1. <<>> \in Seq(Requests) /\ <<>> \in Seq(Datagrams)
      OBVIOUS
    <3> QED
      BY <3>1, IdleType DEF Init, UdpTypeOK
  <2>3. failures \in 0 .. FailureThreshold /\ rounds \in 0 .. ExtraInterval
    BY DEF Init
  <2>4. tries \in 0 .. TryTimes /\ loginFailed \in 0 .. 4 /\ delay \in Nat \ {0}
    BY DEF Init
  <2> QED
    BY <2>1, <2>2, <2>3, <2>4 DEF Init, TypeOK, Pcs, Templates
<1>2. ControlInv
  BY DEF Init, ControlInv, AttemptCounted, BelowThreshold, WaitsInCalls,
         DelayIsDefault, NoSessionForgotten, StopExitAccounted, Idle
<1>3. DelayHasCause
  BY DEF Init, DelayHasCause
<1> QED
  BY <1>1, <1>2, <1>3 DEF IInv

(* IInv is an invariant of the client. *)
THEOREM Invariance == Spec => []IInv
<1>1. IInv /\ [Next]_vars => IInv'
  BY TypeStep, ControlStep, DelayStep DEF IInv
<1> QED
  BY <1>1, InitIInv, PTL DEF Spec

(* Every state of the client has the types TypeOK states. *)
THEOREM TypeCorrectness == Spec => []TypeOK
<1>1. IInv => TypeOK
  BY DEF IInv
<1> QED
  BY <1>1, Invariance, PTL

(* A back-off lasts what the reply that ended this attempt asks for: the   *)
(* static login_retry_delay_seconds of auth.c never carries the delay of   *)
(* an earlier attempt into it.                                             *)
THEOREM DelaysHaveCauses == Spec => []DelayHasCause
<1>1. IInv => DelayHasCause
  BY DEF IInv
<1> QED
  BY <1>1, Invariance, PTL

(* A requested stop leaves a session the client knew of alive only after   *)
(* its logout was tried to the end, or after the session was given up.     *)
THEOREM StopExitsRelease == Spec => []StopExitReleases
<1>1. IInv => StopExitReleases
  BY DEF IInv, ControlInv, StopExitAccounted, StopExitReleases
<1> QED
  BY <1>1, Invariance, PTL

(* The abstract state each place of the loop stands for. *)
PhaseOfPc ==
    /\ pc \in {"top", "round"} => Phase = "online" /\ Misses = failures
    /\ pc \notin {"top", "round"} => Phase # "online" /\ Misses = 0
    /\ pc = "nap" => Phase = "resting"
    /\ pc = "logout" => Phase = "leaving"
    /\ pc \in {"exit0", "exit1"} => Phase = "gone"
    /\ pc = "killed" => Phase = "dead"
    /\ pc \in {"start", "loop", "attempt", "backoff"} => Phase = "offline"

LEMMA PhaseLemma == PhaseOfPc /\ PhaseOfPc'
<1>1. PhaseOfPc
  BY DEF PhaseOfPc, Phase, Misses
<1>2. PhaseOfPc'
  BY DEF PhaseOfPc, Phase, Misses
<1> QED
  BY <1>1, <1>2

(* Every step of the client is a step of the abstract client or leaves it  *)
(* as it is.                                                               *)
LEMMA RefinementStep ==
    ASSUME IInv, [Next]_vars
    PROVE  [Lifecycle!LifeNext]_(Lifecycle!lifeVars)
<1> USE PhaseLemma DEF PhaseOfPc
<1>0. /\ pc \in Pcs /\ stop \in BOOLEAN /\ failures \in Nat
      /\ BelowThreshold
  BY DEF IInv, ControlInv, TypeOK
<1>1. CASE UNCHANGED <<pc, stop, failures>>
  <2>1. UNCHANGED <<Phase, stop, Misses>>
    BY <1>1 DEF Phase, Misses
  <2> QED
    BY <2>1 DEF Lifecycle!lifeVars
<1>2. CASE /\ pc \in {"start", "loop", "attempt", "backoff"}
           /\ pc' \in {"start", "loop", "attempt", "backoff"}
           /\ UNCHANGED stop
  BY <1>2 DEF Lifecycle!lifeVars
<1>3. CASE /\ pc \in {"start", "loop", "attempt", "backoff", "logout"}
           /\ pc' \in {"exit0", "exit1"}
           /\ UNCHANGED stop
  <2>1. Lifecycle!End
    BY <1>3 DEF Lifecycle!End
  <2> QED
    BY <2>1 DEF Lifecycle!LifeNext
<1>4. CASE AttemptStep
  <2>1. CASE EnterSession
    <3>1. Lifecycle!LogIn
      BY <2>1 DEF EnterSession, Lifecycle!LogIn
    <3> QED
      BY <3>1 DEF Lifecycle!LifeNext
  <2>2. CASE SendLogin \/ AcceptLogin
    BY <1>1, <2>2 DEF SendLogin, AcceptLogin
  <2> QED
    BY <1>2, <1>3, <1>4, <2>1, <2>2
    DEF AttemptStep, Startup, StopAtLoop, TriesExhausted, StartChallenge,
        ChallengeFailed, LoginImpossible, LoginFails, AfterFailedAttempt, BackoffEnds
<1>5. CASE StartRound
  BY <1>5 DEF StartRound, Lifecycle!lifeVars
<1>6. CASE RoundStep
  BY <1>1, <1>6 DEF RoundStep
<1>7. CASE RoundDone
  <2>1. Lifecycle!Beat
    BY <1>7 DEF RoundDone, Lifecycle!Beat
  <2> QED
    BY <2>1 DEF Lifecycle!LifeNext
<1>8. CASE WakeUp
  <2>1. Lifecycle!Wake
    BY <1>0, <1>8 DEF WakeUp, BelowThreshold, Lifecycle!Wake
  <2> QED
    BY <2>1 DEF Lifecycle!LifeNext
<1>9. CASE RetryRound \/ GiveUpSession \/ GiveUpStopping
  <2>1. failures' = failures + 1 /\ failures < FailureThreshold
    BY <1>0, <1>9
    DEF RetryRound, GiveUpSession, GiveUpStopping, CountFailure,
        NextKeepaliveFailureCount, BelowThreshold
  <2>2. CASE RetryRound
    <3>1. Lifecycle!Miss
      BY <1>0, <2>1, <2>2 DEF RetryRound, ShouldReconnect, Lifecycle!Miss
    <3> QED
      BY <3>1 DEF Lifecycle!LifeNext
  <2>3. CASE GiveUpSession \/ GiveUpStopping
    <3>1. Lifecycle!GiveUp
      BY <1>0, <2>1, <2>3
      DEF GiveUpSession, GiveUpStopping, BeginLogout, ShouldReconnect, Lifecycle!GiveUp
    <3> QED
      BY <3>1 DEF Lifecycle!LifeNext
  <2> QED
    BY <1>9, <2>2, <2>3
<1>10. CASE StopAtTop
  <2>1. Lifecycle!Leave
    BY <1>10 DEF StopAtTop, BeginLogout, Lifecycle!Leave
  <2> QED
    BY <2>1 DEF Lifecycle!LifeNext
<1>11. CASE SendLogout
  BY <1>1, <1>11 DEF SendLogout, clientVars
<1>12. CASE FinishLogout
  BY <1>3, <1>12 DEF FinishLogout
<1>13. CASE WaitStep \/ NetworkStep \/ ServerStep \/ UNCHANGED vars
  BY <1>1, <1>13 DEF WaitStep, NetworkStep, ServerStep, vars, clientVars
<1>14. CASE RequestStop
  <2>1. Lifecycle!AskToStop
    <3>1. Phase \in {"offline", "online", "resting", "leaving"}
      BY <1>0, <1>14 DEF RequestStop, Pcs
    <3>2. UNCHANGED <<Phase, Misses>>
      BY <1>14 DEF RequestStop, Phase, Misses
    <3> QED
      BY <1>14, <3>1, <3>2 DEF RequestStop, Lifecycle!AskToStop, Lifecycle!Alive
  <2> QED
    BY <2>1 DEF Lifecycle!LifeNext
<1>15. CASE Kill
  <2>1. Lifecycle!Die
    BY <1>0, <1>15 DEF Kill, Pcs, Lifecycle!Die, Lifecycle!Alive
  <2> QED
    BY <2>1 DEF Lifecycle!LifeNext
<1>16. CASE Respawn
  <2>1. Lifecycle!Restart
    BY <1>16 DEF Respawn, Lifecycle!Restart
  <2> QED
    BY <2>1 DEF Lifecycle!LifeNext
<1> QED
  BY <1>4, <1>5, <1>6, <1>7, <1>8, <1>9, <1>10, <1>11, <1>12, <1>13, <1>14, <1>15,
     <1>16
  DEF Next, ClientStep, OutsideStep, SessionStep, LogoutStep

(* The client implements ClientLifecycle: it ends an online session only   *)
(* through a logout, a death or FailureThreshold failed rounds in a row,   *)
(* and counts no miss across a good round.                                 *)
THEOREM Refinement == Spec => KeepsLifecycle
<1>1. Init => Lifecycle!LifeInit
  BY PhaseLemma DEF PhaseOfPc, Init, Lifecycle!LifeInit
<1>2. IInv /\ [Next]_vars => [Lifecycle!LifeNext]_(Lifecycle!lifeVars)
  BY RefinementStep
<1> QED
  BY <1>1, <1>2, Invariance, PTL DEF Spec, KeepsLifecycle, Lifecycle!LifeSpec

-----------------------------------------------------------------------------
(* AuthMatchesLogin and CleanLogoutReleases, on a network that keeps the   *)
(* order: the pipe first, then what the loop knows of it.                  *)

(* Every call of the loop begins with a request, and none but a challenge  *)
(* is named by its random bytes.                                           *)
LEMMA FreshIsUnlike ==
    ASSUME TypeOK, NEW kind \in Challenges, NEW n \in FreshNonces
    PROVE  kind \in Kinds /\ n \in IdsOf(kind) /\ NothingLike(kind, n)
<1>1. kind \in {"challenge", "logoutChallenge"}
  BY DEF Challenges
<1>2. n \in IdsOf(kind) /\ kind \in Kinds
  BY <1>1 DEF FreshNonces, IdsOf, Kinds
<1>3. \A i \in Asked : toServer[i].id # n
  BY DEF FreshNonces, Asked, TypeOK, UdpTypeOK
<1>4. \A i \in Said : toClient[i] \in Datagrams /\ toClient[i].echo # n
  BY DEF FreshNonces, Said, TypeOK, UdpTypeOK
<1>5. \A i \in Said : ~ Matches(toClient[i], Expected(kind, n))
  BY <1>1, <1>4, NamedFits
<1> QED
  BY <1>2, <1>3, <1>5 DEF NothingLike

LEMMA ChallengePipe ==
    ASSUME TypeOK, PipeInv(Challenges), NEW kind \in Challenges, BeginChallenge(kind)
    PROVE  PipeInv(Challenges)'
<1>1. PICK n \in FreshNonces : Begin(kind, n)
  BY DEF BeginChallenge
<1> QED
  BY <1>1, FreshIsUnlike, PipeBegin DEF TypeOK

(* The requests that are no challenge. *)
Unnamed(kind, id) == kind \in Kinds \ Challenges /\ id \in IdsOf(kind) /\ Begin(kind, id)

LEMMA RoundBegins ==
    ASSUME TypeOK, RoundStep
    PROVE  \E kind \in KeepaliveKinds : \E id \in Ids : Unnamed(kind, id)
<1> USE DEF Unnamed, Challenges, KeepaliveKinds, Kinds, IdsOf, Ids
<1>0. counter \in Counters /\ xch \in Exchanges
  BY DEF TypeOK, UdpTypeOK
<1>1. CASE Keepalive1Second
  <2>1. xch.id \in Nonces \cup {None}
    BY <1>0, <1>1 DEF Keepalive1Second, Answered, Exchanges
  <2> QED
    BY <1>1, <2>1 DEF Keepalive1Second
<1>2. CASE ExtraAnswered
  BY <1>0, <1>2 DEF ExtraAnswered, SendKeepalive2
<1>3. CASE FirstAnswered
  BY <1>0, <1>3 DEF FirstAnswered, SendKeepalive2
<1>4. CASE BeginKeepalive2(ExtraForRound)
  BY <1>0, <1>4 DEF BeginKeepalive2, SendKeepalive2
<1> QED
  BY <1>1, <1>2, <1>3, <1>4 DEF RoundStep, KeepaliveStep

LEMMA ClientPipe ==
    ASSUME IInv, PipeInv(Challenges), ClientStep
    PROVE  PipeInv(Challenges)'
<1>0. TypeOK /\ UdpTypeOK
  BY DEF IInv, TypeOK
<1>1. Challenges \subseteq Named /\ {"challenge", "logoutChallenge"} \subseteq Challenges
  BY DEF Named, Challenges
<1>2. CASE \E kind \in Challenges : BeginChallenge(kind)
  BY <1>0, <1>2, ChallengePipe
<1>3. CASE \E kind \in Kinds, id \in Ids : Unnamed(kind, id)
  BY <1>0, <1>3, PipeBegin DEF Unnamed
<1>4. CASE /\ UNCHANGED <<toServer, toClient>>
           /\ xch' = xch \/ xch' = Idle \/ Listen("notice")
  BY <1>1, <1>4, PipeIdle
<1>5. CASE StartChallenge \/ StopAtTop \/ GiveUpStopping
  BY <1>1, <1>2, <1>5 DEF StartChallenge, StopAtTop, GiveUpStopping, BeginLogout
<1>6. CASE SendLogin
  <2>1. xch.got.data \in Nonces \cup {None}
    BY <1>0 DEF UdpTypeOK, Exchanges, Datagrams
  <2> QED
    BY <1>3, <1>6, <2>1 DEF SendLogin, Unnamed, Challenges, Kinds, IdsOf, Ids
<1>7. CASE StartRound
  <2>1. auth \in Nonces \cup {None}
    BY <1>0 DEF TypeOK
  <2> QED
    BY <1>3, <1>7, <2>1
    DEF StartRound, BeginKeepalive1, Unnamed, Challenges, Kinds, IdsOf, Ids
<1>8. CASE SendLogout
  <2>1. auth \in Nonces \cup {None}
    BY <1>0 DEF TypeOK
  <2> QED
    BY <1>3, <1>8, <2>1 DEF SendLogout, Unnamed, Challenges, Kinds, IdsOf, Ids
<1>9. CASE RoundStep
  <2>1. KeepaliveKinds \subseteq Kinds
    BY DEF KeepaliveKinds, Kinds
  <2> QED
    BY <1>0, <1>3, <1>9, <2>1, RoundBegins
<1>10. CASE AcceptLogin
  BY <1>4, <1>10 DEF AcceptLogin, Listen
<1> QED
  BY <1>4, <1>5, <1>6, <1>7, <1>8, <1>9, <1>10
  DEF ClientStep, AttemptStep, SessionStep, LogoutStep, Startup, StopAtLoop,
      TriesExhausted, ChallengeFailed, LoginImpossible, LoginFails, EnterSession,
      BackoffEnds, RoundDone, WakeUp, RetryRound, GiveUpSession, FinishLogout, udpVars

LEMMA PipeStep ==
    ASSUME ~ Reorders, IInv, PipeInv(Challenges), [Next]_vars
    PROVE  PipeInv(Challenges)'
<1>0. UdpTypeOK /\ Challenges \subseteq Named
  BY DEF IInv, TypeOK, Named
<1>1. CASE OutsideStep \/ UNCHANGED vars
  BY <1>0, <1>1, PipeIdle
  DEF OutsideStep, RequestStop, Kill, Respawn, vars, udpVars
<1>2. CASE WaitStep
  BY <1>0, <1>2, PipeWait DEF WaitStep
<1>3. CASE NetworkStep
  BY <1>0, <1>3, PipeNetwork DEF NetworkStep
<1>4. CASE ServerStep
  BY <1>0, <1>4, PipeServer DEF ServerStep
<1> QED
  BY <1>1, <1>2, <1>3, <1>4, ClientPipe DEF Next

-----------------------------------------------------------------------------
(* What the loop knows.  Its steps fall into a few classes.                *)

(* Out of every session and every attempt. *)
LEMMA LoopOutside ==
    ASSUME pc' \notin {"attempt", "top", "round", "nap", "logout"},
           pc' \in {"start", "loop"} => xch'.st = "idle",
           pc' = "exit0" => ~ (xch'.st = "got" /\ xch'.kind = "logout")
    PROVE  LoopInv'
<1> USE DEF InSession, Noticing
<1>1. LoginIsAlone' /\ AcceptsAreOurs'
  BY DEF LoginIsAlone, AcceptsAreOurs
<1>2. SessionIsOurs' /\ NoticeFollowsLogin'
  BY DEF SessionIsOurs, NoticeFollowsLogin
<1>3. LogoutIsAnswered' /\ CleanLogoutReleases' /\ QuietAtLoop'
  BY DEF LogoutIsAnswered, CleanLogoutReleases, QuietAtLoop, Answered
<1> QED
  BY <1>1, <1>2, <1>3 DEF LoopInv

(* In an attempt, before the login. *)
LEMMA LoopChallenge ==
    ASSUME pc' = "attempt", xch'.kind = "challenge"
    PROVE  LoopInv'
<1> USE DEF InSession, Noticing
<1>1. LoginIsAlone' /\ AcceptsAreOurs'
  BY DEF LoginIsAlone, AcceptsAreOurs
<1>2. SessionIsOurs' /\ NoticeFollowsLogin'
  BY DEF SessionIsOurs, NoticeFollowsLogin
<1>3. LogoutIsAnswered' /\ CleanLogoutReleases' /\ QuietAtLoop'
  BY DEF LogoutIsAnswered, CleanLogoutReleases, QuietAtLoop
<1> QED
  BY <1>1, <1>2, <1>3 DEF LoopInv

(* In a session, before the logout. *)
LEMMA LoopInSession ==
    ASSUME LoopInv, InSession \/ Noticing, NoLogin',
           \/ pc' \in {"top", "round", "nap"}
           \/ pc' = "logout" /\ xch'.kind = "logoutChallenge",
           UNCHANGED <<seed, auth, session>>
    PROVE  LoopInv'
<1>1. LoginIsAlone' /\ AcceptsAreOurs'
  BY DEF LoginIsAlone, AcceptsAreOurs
<1>2. SessionIsOurs' /\ NoticeFollowsLogin'
  BY DEF LoopInv, SessionIsOurs, NoticeFollowsLogin, Noticing
<1>3. LogoutIsAnswered' /\ CleanLogoutReleases' /\ QuietAtLoop'
  BY DEF LogoutIsAnswered, CleanLogoutReleases, QuietAtLoop
<1> QED
  BY <1>1, <1>2, <1>3 DEF LoopInv

LEMMA BeginKeepsNoLogin ==
    ASSUME UdpTypeOK, NoLogin, NEW kind \in Kinds \ {"login"}, NEW id \in IdsOf(kind),
           Begin(kind, id)
    PROVE  NoLogin'
<1>1. \A i \in Asked' :
        \/ i \in Asked /\ toServer'[i].kind = toServer[i].kind
        \/ toServer'[i] = [kind |-> kind, id |-> id, fresh |-> TRUE]
  BY BeginQueues
<1> QED
  BY <1>1 DEF NoLogin

LEMMA ChallengeKeepsNoLogin ==
    ASSUME TypeOK, NoLogin, NEW kind \in Challenges, BeginChallenge(kind)
    PROVE  NoLogin' /\ xch'.kind = kind
<1>1. PICK n \in FreshNonces : Begin(kind, n)
  BY DEF BeginChallenge
<1>2. kind \in Kinds \ {"login"} /\ n \in IdsOf(kind)
  BY <1>1, FreshIsUnlike DEF Challenges
<1> QED
  BY <1>1, <1>2, BeginKeepsNoLogin, BeginEffect DEF TypeOK

(* What a challenge answered leaves of the queues. *)
LEMMA AfterChallenge ==
    ASSUME PipeInv(Challenges), NEW kind \in Challenges, Answered(kind)
    PROVE  /\ \A i \in Asked : toServer[i].kind = kind
           /\ \A i \in Said : Fitting(toClient[i])
           /\ Fitting(xch.got)
BY DEF PipeInv, Distinct, Cleared, AllFresh, Ours, Answered

LEMMA LoopSendLogin ==
    ASSUME IInv, OrderInv, SendLogin
    PROVE  LoopInv'
<1> DEFINE s == xch.got.data
<1>0. UdpTypeOK /\ PipeInv(Challenges) /\ pc' = "attempt" /\ xch.kind = "challenge"
  BY DEF IInv, TypeOK, OrderInv, SendLogin, Answered
<1>1. s \in IdsOf("login") /\ "login" \in Kinds
  BY <1>0 DEF UdpTypeOK, Exchanges, Datagrams, IdsOf, Kinds
<1>2. Begin("login", s) /\ seed' = s
  BY DEF SendLogin
<1> HIDE DEF s
<1>3. /\ \A i \in Asked : toServer[i].kind = "challenge"
      /\ \A i \in Said : Fitting(toClient[i])
  BY <1>0, AfterChallenge DEF SendLogin, Challenges
<1>4. \A i \in Said : toClient[i].first = 2
  <2>1. \A i \in Said : toClient[i] \in Datagrams
    BY <1>0 DEF UdpTypeOK, Said
  <2> QED
    BY <1>0, <1>3, <2>1, NamedFits DEF Fitting
<1>5. /\ xch'.st # "got" /\ xch'.kind = "login" /\ xch'.id = s
      /\ \A i \in Asked' :
            \/ toServer'[i].kind = "challenge"
            \/ /\ i = Len(toServer) + 1
               /\ toServer'[i].kind = "login" /\ toServer'[i].id = s
  <2>1. /\ xch'.st \in {"wait", "failed"} /\ xch'.kind = "login" /\ xch'.id = s
        /\ \A i \in Asked' :
              \/ i \in Asked /\ toServer'[i].kind = toServer[i].kind
              \/ /\ i = Len(toServer) + 1
                 /\ toServer'[i] = [kind |-> "login", id |-> s, fresh |-> TRUE]
    BY <1>0, <1>1, <1>2, BeginQueues
  <2> QED
    BY <1>3, <2>1
<1>6. \A i \in Said' : toClient'[i].first = 2
  <2>1. /\ Len(toClient') = Len(toClient)
        /\ \A i \in 1 .. Len(toClient) :
              toClient[i] \in Datagrams /\ toClient'[i] = [toClient[i] EXCEPT !.fresh = FALSE]
    BY <1>0, <1>1, <1>2, BeginQueues
  <2>2. ASSUME NEW i \in 1 .. Len(toClient)
        PROVE  toClient'[i].from = toClient[i].from /\ toClient'[i].first = toClient[i].first
    <3>1. toClient[i] \in Datagrams /\ toClient'[i] = [toClient[i] EXCEPT !.fresh = FALSE]
      BY <2>1
    <3> QED
      BY <3>1, AgedFields
  <2> QED
    BY <1>4, <2>1, <2>2 DEF Said
<1>7. LoginIsAlone'
  BY <1>2, <1>5, <1>6 DEF LoginIsAlone, Holds
<1>8. AcceptsAreOurs'
  BY <1>5, <1>6 DEF AcceptsAreOurs, AcceptedOnce, Accepts
<1>9. SessionIsOurs' /\ NoticeFollowsLogin' /\ LogoutIsAnswered'
  BY <1>0, <1>5 DEF SessionIsOurs, NoticeFollowsLogin, LogoutIsAnswered, InSession, Noticing
<1>10. CleanLogoutReleases' /\ QuietAtLoop'
  BY <1>0 DEF CleanLogoutReleases, QuietAtLoop
<1> QED
  BY <1>7, <1>8, <1>9, <1>10 DEF LoopInv

LEMMA LoopAcceptLogin ==
    ASSUME IInv, OrderInv, AcceptLogin
    PROVE  LoopInv'
<1>0. /\ pc = "attempt" /\ pc' = "attempt" /\ Answered("login")
      /\ LoginIsAlone /\ AcceptsAreOurs /\ xch'.kind = "notice"
      /\ UNCHANGED <<toServer, toClient, session, seed>>
  BY ListenEffect DEF OrderInv, LoopInv, AcceptLogin, LoginSucceeded, Listen
<1>1. AcceptedOnce(xch.got) /\ Accepts(xch.got) /\ auth' = xch.got.data
  BY <1>0 DEF AcceptLogin, LoginSucceeded, Answered, AcceptsAreOurs, Accepts
<1>2. /\ auth' = xch.id /\ NoLogin /\ session \in {None, xch.id} /\ seed = xch.id
      /\ Holds({"challenge", "login"}, {2, 4, 5})
  BY <1>0, <1>1 DEF AcceptedOnce, LoginIsAlone, Answered
<1>3. SessionIsOurs'
  BY <1>0, <1>2 DEF SessionIsOurs, NoLogin, Asked
<1>4. NoticeFollowsLogin'
  BY <1>0, <1>2 DEF NoticeFollowsLogin, Holds, NoLogin, Asked, Said
<1>5. LoginIsAlone' /\ AcceptsAreOurs' /\ LogoutIsAnswered'
  BY <1>0 DEF LoginIsAlone, AcceptsAreOurs, LogoutIsAnswered
<1>6. CleanLogoutReleases' /\ QuietAtLoop'
  BY <1>0 DEF CleanLogoutReleases, QuietAtLoop
<1> QED
  BY <1>3, <1>4, <1>5, <1>6 DEF LoopInv

LEMMA LoopSendLogout ==
    ASSUME IInv, OrderInv, SendLogout
    PROVE  LoopInv'
<1>0. /\ UdpTypeOK /\ PipeInv(Challenges) /\ pc = "logout" /\ pc' = "logout"
      /\ xch.kind = "logoutChallenge" /\ SessionIsOurs
      /\ UNCHANGED <<auth, seed, session>>
  BY DEF IInv, TypeOK, OrderInv, LoopInv, SendLogout, Answered, clientVars
<1>1. auth \in IdsOf("logout") /\ "logout" \in Kinds \ {"login"}
  BY DEF IInv, TypeOK, IdsOf, Kinds
<1>2. Begin("logout", auth)
  BY DEF SendLogout
<1>3. /\ \A i \in Asked : toServer[i].kind = "logoutChallenge"
      /\ \A i \in Said : Fitting(toClient[i])
  BY <1>0, AfterChallenge DEF SendLogout, Challenges
<1>4. \A i \in Said : toClient[i].first = 2
  <2>1. \A i \in Said : toClient[i] \in Datagrams
    BY <1>0 DEF UdpTypeOK, Said
  <2> QED
    BY <1>0, <1>3, <2>1, NamedFits DEF Fitting
<1>5. /\ xch'.st # "got" /\ xch'.kind = "logout" /\ xch'.id = auth
      /\ \A i \in Asked' :
            \/ toServer'[i].kind = "logoutChallenge"
            \/ toServer'[i].kind = "logout" /\ toServer'[i].id = auth
  <2>1. /\ xch'.st \in {"wait", "failed"} /\ xch'.kind = "logout" /\ xch'.id = auth
        /\ \A i \in Asked' :
              \/ i \in Asked /\ toServer'[i].kind = toServer[i].kind
              \/ toServer'[i] = [kind |-> "logout", id |-> auth, fresh |-> TRUE]
    BY <1>0, <1>1, <1>2, BeginQueues
  <2> QED
    BY <1>3, <2>1
<1>6. \A i \in Said' : toClient'[i].first = 2
  <2>1. /\ Len(toClient') = Len(toClient)
        /\ \A i \in 1 .. Len(toClient) :
              toClient[i] \in Datagrams /\ toClient'[i] = [toClient[i] EXCEPT !.fresh = FALSE]
    BY <1>0, <1>1, <1>2, BeginQueues
  <2>2. ASSUME NEW i \in 1 .. Len(toClient)
        PROVE  toClient'[i].from = toClient[i].from /\ toClient'[i].first = toClient[i].first
    <3>1. toClient[i] \in Datagrams /\ toClient'[i] = [toClient[i] EXCEPT !.fresh = FALSE]
      BY <2>1
    <3> QED
      BY <3>1, AgedFields
  <2> QED
    BY <1>4, <2>1, <2>2 DEF Said
<1>7. LogoutIsAnswered'
  BY <1>0, <1>5, <1>6 DEF LogoutIsAnswered, Holds
<1>8. SessionIsOurs'
  BY <1>0, <1>5 DEF SessionIsOurs, InSession, NoLogin
<1>9. LoginIsAlone' /\ AcceptsAreOurs' /\ NoticeFollowsLogin'
  BY <1>0 DEF LoginIsAlone, AcceptsAreOurs, NoticeFollowsLogin, Noticing
<1>10. CleanLogoutReleases' /\ QuietAtLoop'
  BY <1>0 DEF CleanLogoutReleases, QuietAtLoop
<1> QED
  BY <1>7, <1>8, <1>9, <1>10 DEF LoopInv

LEMMA LoopFinishLogout ==
    ASSUME IInv, OrderInv, FinishLogout
    PROVE  LoopInv'
<1>0. /\ pc = "logout" /\ pc' = "exit0" /\ xch' = xch /\ toServer' = toServer
      /\ session' = session /\ SessionIsOurs /\ LogoutIsAnswered
  BY DEF OrderInv, LoopInv, FinishLogout, udpVars
<1>1. CleanLogoutReleases'
  <2>1. Answered("logout") => session = None
    BY <1>0 DEF LogoutIsAnswered, Answered
  <2>2. \A i \in Asked : toServer[i].kind # "login"
    BY <1>0 DEF SessionIsOurs, InSession, NoLogin
  <2>3. DOMAIN toServer = Asked
    BY DEF IInv, TypeOK, UdpTypeOK, Asked
  <2> QED
    BY <1>0, <2>1, <2>2, <2>3 DEF CleanLogoutReleases, Answered
<1>2. LoginIsAlone' /\ AcceptsAreOurs' /\ NoticeFollowsLogin'
  BY <1>0 DEF LoginIsAlone, AcceptsAreOurs, NoticeFollowsLogin, Noticing
<1>3. SessionIsOurs' /\ LogoutIsAnswered' /\ QuietAtLoop'
  BY <1>0 DEF SessionIsOurs, LogoutIsAnswered, QuietAtLoop, InSession, Noticing
<1> QED
  BY <1>1, <1>2, <1>3 DEF LoopInv

(* The client's steps. *)
LEMMA ClientLoop ==
    ASSUME IInv, OrderInv, ClientStep
    PROVE  LoopInv'
<1>0. LoopInv /\ TypeOK /\ UdpTypeOK /\ WaitsInCalls
  BY DEF OrderInv, IInv, ControlInv, TypeOK
<1>1. InSession \/ Noticing => NoLogin
  BY <1>0 DEF LoopInv, SessionIsOurs
<1>2. toServer' = toServer /\ NoLogin => NoLogin'
  BY DEF NoLogin, Asked
<1>3. CASE Startup \/ StopAtLoop \/ TriesExhausted
  BY <1>0, <1>3, LoopOutside
  DEF Startup, StopAtLoop, TriesExhausted, LoopInv, QuietAtLoop, udpVars
<1>4. CASE StartChallenge
  BY <1>0, <1>4, ChallengeEffect, LoopChallenge DEF StartChallenge
<1>5. CASE ChallengeFailed \/ LoginImpossible \/ LoginFails
  BY <1>0, <1>5, LoopOutside
  DEF ChallengeFailed, LoginImpossible, LoginFails, AfterFailedAttempt, WaitsInCalls, udpVars
<1>6. CASE SendLogin
  BY <1>6, LoopSendLogin
<1>7. CASE AcceptLogin
  BY <1>7, LoopAcceptLogin
<1>8. CASE EnterSession
  BY <1>0, <1>1, <1>2, <1>8, LoopInSession DEF EnterSession, Noticing
<1>9. CASE BackoffEnds
  BY <1>0, <1>9, LoopOutside DEF BackoffEnds, Idle
<1>10. CASE StartRound
  <2>1. auth \in Nonces \cup {None}
    BY <1>0 DEF TypeOK
  <2>2. NoLogin'
    BY <1>0, <1>1, <1>10, <2>1, BeginKeepsNoLogin
    DEF StartRound, BeginKeepalive1, InSession, Kinds, IdsOf
  <2> QED
    BY <1>0, <1>10, <2>2, LoopInSession DEF StartRound, InSession
<1>11. CASE RoundStep
  <2>1. PICK kind \in KeepaliveKinds, id \in Ids : Unnamed(kind, id)
    BY <1>0, <1>11, RoundBegins
  <2>2. NoLogin'
    BY <1>0, <1>1, <1>11, <2>1, BeginKeepsNoLogin DEF RoundStep, InSession, Unnamed, KeepaliveKinds
  <2> QED
    BY <1>0, <1>11, <2>2, LoopInSession DEF RoundStep, InSession
<1>12. CASE RoundDone \/ WakeUp \/ RetryRound
  BY <1>0, <1>1, <1>2, <1>12, LoopInSession DEF RoundDone, WakeUp, RetryRound, InSession, udpVars
<1>13. CASE GiveUpSession
  BY <1>13, LoopOutside DEF GiveUpSession
<1>14. CASE StopAtTop \/ GiveUpStopping
  <2>1. BeginChallenge("logoutChallenge") /\ NoLogin
    BY <1>1, <1>14 DEF StopAtTop, GiveUpStopping, BeginLogout, InSession
  <2>2. NoLogin' /\ xch'.kind = "logoutChallenge"
    BY <1>0, <2>1, ChallengeKeepsNoLogin DEF Challenges
  <2> QED
    BY <1>0, <1>14, <2>2, LoopInSession DEF StopAtTop, GiveUpStopping, BeginLogout, InSession
<1>15. CASE SendLogout
  BY <1>15, LoopSendLogout
<1>16. CASE FinishLogout
  BY <1>16, LoopFinishLogout
<1> QED
  BY <1>3, <1>4, <1>5, <1>6, <1>7, <1>8, <1>9, <1>10, <1>11, <1>12, <1>13, <1>14, <1>15, <1>16
  DEF ClientStep, AttemptStep, SessionStep, LogoutStep

-----------------------------------------------------------------------------
(* Nothing new in the queues, and nothing received that was not in them. *)
OneLogin ==
    \A i, j \in Asked : toServer[i].kind = "login" /\ toServer[j].kind = "login" => i = j

LEMMA LoopKeeps ==
    ASSUME LoopInv, UNCHANGED <<pc, seed, auth, session>>,
           xch'.kind = xch.kind, xch'.id = xch.id,
           pc \in {"start", "loop", "exit0"} => xch' = xch,
           \A i \in Asked' : \E j \in Asked : toServer'[i] = toServer[j],
           \A i \in Said' : \E j \in Said : toClient'[i] = toClient[j],
           OneLogin => OneLogin',
           DOMAIN toServer = Asked, (DOMAIN toServer = Asked)',
           xch'.st = "got" /\ xch'.kind \in {"login", "logout"} =>
               \/ xch' = xch
               \/ \E j \in Said : /\ xch'.got = toClient[j]
                                 /\ (xch.kind = "logout" => toClient[j].first = 4)
    PROVE  LoopInv'
<1> USE DEF LoopInv, Holds
<1>0. NoLogin => NoLogin'
  BY DEF NoLogin
<1>1. LoginIsAlone'
  BY DEF LoginIsAlone, OneLogin
<1>2. AcceptsAreOurs'
  <2> SUFFICES ASSUME pc = "attempt", xch.kind = "login"
               PROVE  /\ \A i \in Said' : AcceptedOnce(toClient[i])'
                      /\ xch'.st = "got" => AcceptedOnce(xch.got)'
    BY DEF AcceptsAreOurs
  <2>1. \A d : AcceptedOnce(d) /\ d.first = 4 /\ d.len >= 39 =>
           d.data = xch'.id /\ NoLogin' /\ session' \in {None, xch'.id}
    BY <1>0 DEF AcceptedOnce, Accepts
  <2>2. /\ \A i \in Said : AcceptedOnce(toClient[i])
        /\ xch.st = "got" => AcceptedOnce(xch.got)
    BY DEF AcceptsAreOurs
  <2>3. \A i \in Said' : AcceptedOnce(toClient[i])'
    BY <2>1, <2>2 DEF AcceptedOnce, Accepts
  <2>4. xch'.st = "got" => AcceptedOnce(xch.got)'
    BY <2>1, <2>2 DEF AcceptedOnce, Accepts
  <2> QED
    BY <2>3, <2>4
<1>3. SessionIsOurs'
  BY <1>0 DEF SessionIsOurs, InSession, Noticing
<1>4. NoticeFollowsLogin'
  BY DEF NoticeFollowsLogin, Noticing
<1>5. LogoutIsAnswered'
  BY DEF LogoutIsAnswered
<1>6. CleanLogoutReleases'
  BY DEF CleanLogoutReleases, Answered
<1>7. QuietAtLoop'
  BY DEF QuietAtLoop
<1> QED
  BY <1>1, <1>2, <1>3, <1>4, <1>5, <1>6, <1>7

LEMMA LoopReceive ==
    ASSUME ~ Reorders, IInv, LoopInv, ReceiveExpected, UNCHANGED <<clientVars, session>>
    PROVE  LoopInv'
<1>0. UdpTypeOK /\ WaitsInCalls
  BY DEF IInv, ControlInv, TypeOK
<1>1. PICK i \in Arrivals(toClient) :
        /\ Matches(toClient[i], Expected(xch.kind, xch.id))
        /\ xch' = [xch EXCEPT !.st = "got", !.got = toClient[i]]
        /\ toClient' = Without(toClient, i)
  BY DEF ReceiveExpected
<1>2. i = 1 /\ 1 \in 1 .. Len(toClient) /\ toClient[1] \in Datagrams
  BY <1>0, <1>1, ArrivalIsHead DEF UdpTypeOK
<1>3. /\ xch'.st = "got" /\ xch'.kind = xch.kind /\ xch'.id = xch.id
      /\ xch'.got = toClient[1] /\ xch.st = "wait" /\ toServer' = toServer
  BY <1>0, <1>1, <1>2 DEF ReceiveExpected, UdpTypeOK, Exchanges
<1>4. \A j \in Said' : \E k \in Said : toClient'[j] = toClient[k]
  <2>1. Follows(toClient', toClient)
    BY <1>0, <1>1, <1>2, WithoutFollows DEF UdpTypeOK
  <2> QED
    BY <2>1, FollowsEach DEF Said
<1>5. xch.kind \in {"login", "logout"} =>
         1 \in Said /\ (xch.kind = "logout" => toClient[1].first = 4)
  <2>1. xch.kind \in {"login", "logout"} =>
           toClient[1].from = "server" /\ (xch.kind = "logout" => toClient[1].first = 4)
    BY <1>1, <1>2 DEF Matches, Expected, LoginExpected, LogoutExpected, Filter
  <2> QED
    BY <1>2, <2>1 DEF Said
<1>6. pc \notin {"start", "loop", "exit0"}
  BY <1>0, <1>3 DEF WaitsInCalls
<1>7. DOMAIN toServer = Asked /\ (DOMAIN toServer = Asked)'
  BY <1>0, <1>3 DEF UdpTypeOK, Asked
<1>8. (OneLogin => OneLogin') /\ \A j \in Asked' : \E k \in Asked : toServer'[j] = toServer[k]
  BY <1>3 DEF OneLogin, Asked
<1> QED
  BY <1>3, <1>4, <1>5, <1>6, <1>7, <1>8, LoopKeeps DEF clientVars

LEMMA LoopTimeout ==
    ASSUME IInv, LoopInv, Timeout, UNCHANGED <<clientVars, session>>
    PROVE  LoopInv'
<1> DEFINE again == [kind |-> xch.kind, id |-> xch.id, fresh |-> TRUE]
<1>0. UdpTypeOK /\ WaitsInCalls /\ UNCHANGED <<pc, seed, auth, session>>
  BY DEF IInv, ControlInv, TypeOK, clientVars
<1>1. /\ xch.st = "wait" /\ xch'.st \in {"wait", "failed"} /\ toClient' = toClient
      /\ xch'.kind = xch.kind /\ xch'.id = xch.id
  BY <1>0, TimeoutQueues
<1>2. pc \in {"attempt", "round", "logout"} /\ Said' = Said
  BY <1>0, <1>1 DEF WaitsInCalls, Said
<1>3. CASE toServer' = toServer
  <2>1. DOMAIN toServer = Asked /\ (DOMAIN toServer = Asked)'
    BY <1>0, <1>3 DEF UdpTypeOK, Asked
  <2>2. (OneLogin => OneLogin') /\ \A j \in Asked' : \E k \in Asked : toServer'[j] = toServer[k]
    BY <1>3 DEF OneLogin, Asked
  <2> QED
    BY <1>0, <1>1, <1>2, <2>1, <2>2, LoopKeeps
<1>4. CASE toServer' # toServer
  <2>1. /\ Resends(xch.kind)
        /\ \A i \in Asked' : \/ i \in Asked /\ toServer'[i] = toServer[i]
                             \/ toServer'[i] = again
    BY <1>0, <1>4, TimeoutQueues
  <2>2. again.kind = xch.kind /\ again.id = xch.id
    OBVIOUS
  <2> HIDE DEF again
  <2>3. xch.kind # "login" /\ xch.kind # "notice"
    BY <2>1 DEF Resends, SentOnce, Kinds
  <2>4. NoLogin => NoLogin'
    BY <2>1, <2>2, <2>3 DEF NoLogin
  <2>5. CASE pc = "attempt"
    BY <1>0, <1>1, <2>3, <2>5, LoopChallenge DEF WaitsInCalls
  <2>6. CASE pc = "round"
    BY <1>0, <2>4, <2>6, LoopInSession DEF LoopInv, SessionIsOurs, InSession
  <2>7. CASE pc = "logout" /\ xch.kind = "logoutChallenge"
    BY <1>0, <1>1, <2>4, <2>7, LoopInSession DEF LoopInv, SessionIsOurs, InSession
  <2>8. CASE pc = "logout" /\ xch.kind = "logout"
    <3>1. LogoutIsAnswered'
      BY <1>0, <1>1, <1>2, <2>1, <2>2, <2>8 DEF LoopInv, LogoutIsAnswered, Holds
    <3>2. SessionIsOurs'
      BY <1>0, <1>1, <2>4, <2>8 DEF LoopInv, SessionIsOurs, InSession
    <3>3. LoginIsAlone' /\ AcceptsAreOurs' /\ NoticeFollowsLogin'
      BY <1>0, <2>8 DEF LoginIsAlone, AcceptsAreOurs, NoticeFollowsLogin, Noticing
    <3>4. CleanLogoutReleases' /\ QuietAtLoop'
      BY <1>0, <2>8 DEF CleanLogoutReleases, QuietAtLoop
    <3> QED
      BY <3>1, <3>2, <3>3, <3>4 DEF LoopInv
  <2> QED
    BY <1>0, <1>2, <2>5, <2>6, <2>7, <2>8 DEF WaitsInCalls
<1> QED
  BY <1>3, <1>4

(* Datagrams lost, duplicated or ignored. *)
LEMMA LoopFollows ==
    ASSUME IInv, LoopInv, UNCHANGED <<clientVars, session>>, xch' = xch,
           \/ UNCHANGED toServer
           \/ \E i \in 1 .. Len(toServer) : toServer' = Without(toServer, i),
           Follows(toClient', toClient),
           toServer' \in Seq(Requests)
    PROVE  LoopInv'
<1>0. toServer \in Seq(Requests) /\ UNCHANGED <<pc, seed, auth, session>>
  BY DEF IInv, TypeOK, UdpTypeOK, clientVars
<1>1. \A j \in Said' : \E k \in Said : toClient'[j] = toClient[k]
  BY FollowsEach DEF Said
<1>2. DOMAIN toServer = Asked /\ (DOMAIN toServer = Asked)'
  BY <1>0 DEF Asked
<1>3. (OneLogin => OneLogin') /\ \A j \in Asked' : \E k \in Asked : toServer'[j] = toServer[k]
  <2>1. CASE UNCHANGED toServer
    BY <2>1 DEF OneLogin, Asked
  <2>2. CASE \E i \in 1 .. Len(toServer) : toServer' = Without(toServer, i)
    <3>1. PICK i \in 1 .. Len(toServer) : toServer' = Without(toServer, i)
      BY <2>2
    <3>2. Len(toServer) \in Nat
      BY <1>0
    <3>3. /\ Len(Without(toServer, i)) = Len(toServer) - 1
          /\ \A j \in 1 .. Len(toServer) - 1 :
                Without(toServer, i)[j] = IF j < i THEN toServer[j] ELSE toServer[j + 1]
      BY <1>0, <3>1, WithoutShape, ZenonT(40)
    <3> DEFINE e == [j \in 1 .. Len(toServer) - 1 |-> IF j < i THEN j ELSE j + 1]
    <3>4. /\ \A j \in Asked' : e[j] \in Asked /\ toServer'[j] = toServer[e[j]]
          /\ \A j, k \in Asked' : e[j] = e[k] => j = k
      BY <3>1, <3>2, <3>3 DEF Asked
    <3> HIDE DEF e
    <3> QED
      BY <3>4 DEF OneLogin
  <2> QED
    BY <2>1, <2>2
<1> QED
  BY <1>0, <1>1, <1>2, <1>3, LoopKeeps

LEMMA LoopNetwork ==
    ASSUME IInv, LoopInv, Network, UNCHANGED <<clientVars, session>>
    PROVE  LoopInv'
<1>0. UdpTypeOK /\ UdpTypeOK'
  BY NetworkType DEF IInv, TypeOK
<1>1. /\ toServer' \in Seq(Requests) /\ toServer \in Seq(Requests)
      /\ toClient \in Seq(Datagrams) /\ Follows(toClient, toClient)
  BY <1>0, FollowsItself DEF UdpTypeOK
<1>2. CASE LoseRequest
  BY <1>1, <1>2, LoopFollows DEF LoseRequest
<1>3. CASE LoseReply
  <2>1. Follows(toClient', toClient)
    BY <1>1, <1>3, WithoutFollows DEF LoseReply
  <2> QED
    BY <1>1, <1>3, <2>1, LoopFollows DEF LoseReply
<1>4. CASE DuplicateReply
  <2>1. Follows(toClient', toClient)
    BY <1>1, <1>4, DuplicateFollows DEF DuplicateReply
  <2> QED
    BY <1>1, <1>4, <2>1, LoopFollows DEF DuplicateReply
<1> QED
  BY <1>2, <1>3, <1>4 DEF Network

LEMMA LoopWait ==
    ASSUME ~ Reorders, IInv, LoopInv, WaitStep
    PROVE  LoopInv'
<1>1. CASE IgnoreUnexpected
  <2>1. toClient \in Seq(Datagrams) /\ toServer \in Seq(Requests)
    BY DEF IInv, TypeOK, UdpTypeOK
  <2>2. PICK i \in 1 .. Len(toClient) : toClient' = Without(toClient, i)
    BY <1>1, <2>1, ArrivalIsHead DEF IgnoreUnexpected
  <2>3. Follows(toClient', toClient)
    BY <2>1, <2>2, WithoutFollows
  <2> QED
    BY <1>1, <2>1, <2>3, LoopFollows DEF IgnoreUnexpected, WaitStep
<1> QED
  BY <1>1, LoopReceive, LoopTimeout DEF WaitStep, Wait

(* The server's answers. *)
LEMMA LoopAnswer ==
    ASSUME ~ Reorders, IInv, LoopInv, ServerHandles, UNCHANGED clientVars
    PROVE  LoopInv'
<1> DEFINE r == toServer[1]
<1>0. UdpTypeOK /\ UNCHANGED <<pc, seed, auth>>
  BY DEF IInv, TypeOK, clientVars
<1>1. /\ 1 \in Asked /\ xch' = xch
      /\ \A i \in Asked' : i + 1 \in Asked /\ toServer'[i] = toServer[i + 1]
  BY <1>0, AnswerQueues
<1>2. PICK d \in Datagrams :
        /\ ReplyTo(r, d)
        /\ \A i \in 1 .. Len(toClient') :
              \/ i \in 1 .. Len(toClient) /\ toClient'[i] = toClient[i]
              \/ i = Len(toClient) + 1 /\ toClient'[i] = d
        /\ r.kind = "login" =>
              /\ session' \in {session, r.id}
              /\ d.first = 4 /\ d.len >= 39 => session' = r.id
        /\ r.kind # "login" =>
              session' = IF r.kind = "logout" /\ r.id = session THEN None ELSE session
  BY <1>0, AnswerQueues
<1>3. \A i \in Said' : toClient'[i] = d \/ (i \in Said /\ toClient'[i] = toClient[i])
  BY <1>2 DEF Said
<1>4. /\ r.kind \in {"challenge", "logoutChallenge"} => d.first = 2
      /\ r.kind = "login" =>
            d.first \in {4, 5} /\ (d.first = 4 /\ d.len >= 39 => d.data = r.id)
      /\ r.kind = "logout" => d.first = 4
  BY <1>2 DEF ReplyTo
<1>5. r.kind # "login" => session' \in {None, session}
  BY <1>2
<1>6. NoLogin => NoLogin' /\ r.kind # "login"
  BY <1>1 DEF NoLogin
<1>7. DOMAIN toServer = Asked /\ (DOMAIN toServer = Asked)'
  BY <1>0, ServerType DEF ServerNext, IInv, TypeOK, UdpTypeOK, Asked
<1>8. \A i \in Asked' : i + 1 # 1
  BY DEF Asked
<1> HIDE DEF r
<1>9. LoginIsAlone'
  <2> SUFFICES ASSUME pc = "attempt", xch.kind = "login"
               PROVE  /\ seed = xch.id
                      /\ \A i \in Asked' : toServer'[i].kind \in {"challenge", "login"}
                      /\ \A i \in Said' : toClient'[i].first \in {2, 4, 5}
                      /\ \A i \in Asked' : toServer'[i].kind = "login" => toServer'[i].id = xch.id
                      /\ \A i, j \in Asked' :
                            toServer'[i].kind = "login" /\ toServer'[j].kind = "login" => i = j
    BY <1>0, <1>1 DEF LoginIsAlone, Holds
  <2>1. /\ seed = xch.id /\ Holds({"challenge", "login"}, {2, 4, 5})
        /\ \A i \in Asked : toServer[i].kind = "login" => toServer[i].id = xch.id
        /\ \A i, j \in Asked :
              toServer[i].kind = "login" /\ toServer[j].kind = "login" => i = j
    BY DEF LoopInv, LoginIsAlone
  <2>2. r.kind \in {"challenge", "login"}
    BY <1>1, <2>1 DEF Holds, r
  <2>3. \A i, j \in Asked' :
           toServer'[i].kind = "login" /\ toServer'[j].kind = "login" => i = j
    <3> SUFFICES ASSUME NEW i \in Asked', NEW j \in Asked',
                        toServer'[i].kind = "login", toServer'[j].kind = "login"
                 PROVE  i = j
      OBVIOUS
    <3>1. i + 1 = j + 1 /\ i \in Int /\ j \in Int
      BY <1>1, <2>1 DEF Asked
    <3> QED
      BY <3>1
  <2> QED
    BY <1>1, <1>3, <1>4, <2>1, <2>2, <2>3 DEF Holds
<1>10. AcceptsAreOurs'
  <2> SUFFICES ASSUME pc = "attempt", xch.kind = "login"
               PROVE  /\ \A i \in Said' : AcceptedOnce(toClient[i])'
                      /\ xch.st = "got" => AcceptedOnce(xch.got)'
    BY <1>0, <1>1 DEF AcceptsAreOurs, AcceptedOnce, Accepts
  <2>1. /\ \A i \in Said : AcceptedOnce(toClient[i])
        /\ xch.st = "got" => AcceptedOnce(xch.got)
    BY DEF LoopInv, AcceptsAreOurs
  <2>2. CASE r.kind = "login"
    <3>1. r.id = xch.id
      BY <1>1, <2>2 DEF LoopInv, LoginIsAlone, r
    <3>2. NoLogin'
      BY <1>1, <1>8, <2>2 DEF LoopInv, LoginIsAlone, NoLogin, r
    <3>3. ~ NoLogin
      BY <1>6, <2>2
    <3>4. \A i \in Said : ~ Accepts(toClient[i])
      BY <2>1, <3>3 DEF AcceptedOnce
    <3>5. xch.st = "got" => ~ Accepts(xch.got)
      BY <2>1, <3>3 DEF AcceptedOnce
    <3>6. Accepts(d) => d.data = xch.id /\ session' = xch.id
      BY <1>2, <1>4, <2>2, <3>1 DEF Accepts
    <3>7. \A i \in Said' : AcceptedOnce(toClient[i])'
      BY <1>1, <1>3, <3>2, <3>4, <3>6 DEF AcceptedOnce, Accepts
    <3> QED
      BY <1>1, <3>5, <3>7 DEF AcceptedOnce, Accepts
  <2>3. CASE r.kind # "login"
    <3>1. r.kind = "challenge"
      BY <1>1, <2>3 DEF LoopInv, LoginIsAlone, Holds, r
    <3>2. ~ Accepts(d)
      BY <1>4, <3>1 DEF Accepts
    <3>3. session' \in {None, session}
      BY <1>5, <3>1
    <3>4. \A i \in Said' : AcceptedOnce(toClient[i])'
      BY <1>1, <1>3, <1>6, <2>1, <3>2, <3>3 DEF AcceptedOnce, Accepts
    <3> QED
      BY <1>1, <1>6, <2>1, <3>3, <3>4 DEF AcceptedOnce, Accepts
  <2> QED
    BY <2>2, <2>3
<1>11. SessionIsOurs'
  BY <1>0, <1>1, <1>5, <1>6 DEF LoopInv, SessionIsOurs, InSession, Noticing
<1>12. NoticeFollowsLogin'
  <2> SUFFICES ASSUME Noticing
               PROVE  /\ \A i \in Asked' : toServer'[i].kind \in {"challenge"}
                      /\ \A i \in Said' : toClient'[i].first \in {2, 4, 5}
    BY <1>0, <1>1 DEF NoticeFollowsLogin, Holds, Noticing
  <2>1. Holds({"challenge"}, {2, 4, 5})
    BY DEF LoopInv, NoticeFollowsLogin
  <2>2. d.first = 2
    BY <1>1, <1>4, <2>1 DEF Holds, r
  <2> QED
    BY <1>1, <1>3, <2>1, <2>2 DEF Holds
<1>13. LogoutIsAnswered'
  <2> SUFFICES ASSUME pc = "logout", xch.kind = "logout"
               PROVE  /\ xch.id = auth
                      /\ \A i \in Asked' : toServer'[i].kind \in {"logoutChallenge", "logout"}
                      /\ \A i \in Said' : toClient'[i].first \in {2, 4}
                      /\ \A i \in Asked' : toServer'[i].kind = "logout" => toServer'[i].id = auth
                      /\ \A i \in Said' : toClient'[i].first = 4 => session' = None
                      /\ xch.st = "got" => session' = None
    BY <1>0, <1>1 DEF LogoutIsAnswered, Holds
  <2>1. /\ xch.id = auth /\ Holds({"logoutChallenge", "logout"}, {2, 4})
        /\ \A i \in Asked : toServer[i].kind = "logout" => toServer[i].id = auth
        /\ \A i \in Said : toClient[i].first = 4 => session = None
        /\ xch.st = "got" => session = None
    BY DEF LoopInv, LogoutIsAnswered
  <2>2. session \in {None, auth}
    BY DEF LoopInv, SessionIsOurs, InSession
  <2>3. r.kind \in {"logoutChallenge", "logout"} /\ (r.kind = "logout" => r.id = auth)
    BY <1>1, <2>1 DEF Holds, r
  <2>4. session' \in {None, session} /\ (r.kind = "logout" => session' = None)
    BY <1>2, <1>5, <2>2, <2>3
  <2>5. d.first \in {2, 4} /\ (d.first = 4 => session' = None)
    BY <1>4, <2>3, <2>4
  <2> QED
    BY <1>1, <1>3, <2>1, <2>4, <2>5 DEF Holds
<1>14. CleanLogoutReleases'
  <2> SUFFICES ASSUME pc = "exit0", Answered("logout")
               PROVE  session' = None /\ NoLogin'
    BY <1>0, <1>1, <1>7 DEF CleanLogoutReleases, Answered, NoLogin
  <2>1. session = None /\ NoLogin
    BY <1>7 DEF LoopInv, CleanLogoutReleases, NoLogin
  <2> QED
    BY <1>5, <1>6, <2>1
<1>15. QuietAtLoop'
  BY <1>0, <1>1 DEF LoopInv, QuietAtLoop
<1> QED
  BY <1>9, <1>10, <1>11, <1>12, <1>13, <1>14, <1>15 DEF LoopInv

LEMMA LoopEndsSession ==
    ASSUME LoopInv, ServerEndsSession, UNCHANGED clientVars
    PROVE  LoopInv'
<1>0. UNCHANGED <<pc, seed, auth, toServer, toClient, xch>> /\ session' = None
  BY DEF ServerEndsSession, clientVars, udpVars
<1>1. LoginIsAlone' /\ NoticeFollowsLogin' /\ QuietAtLoop'
  BY <1>0 DEF LoopInv, LoginIsAlone, NoticeFollowsLogin, QuietAtLoop, Noticing, Holds, Asked, Said
<1>2. AcceptsAreOurs'
  BY <1>0 DEF LoopInv, AcceptsAreOurs, AcceptedOnce, Accepts, NoLogin, Asked, Said
<1>3. SessionIsOurs'
  BY <1>0 DEF LoopInv, SessionIsOurs, NoLogin, InSession, Noticing, Asked
<1>4. LogoutIsAnswered' /\ CleanLogoutReleases'
  BY <1>0 DEF LoopInv, LogoutIsAnswered, CleanLogoutReleases, Answered, Holds, Asked, Said
<1> QED
  BY <1>1, <1>2, <1>3, <1>4 DEF LoopInv

(* A stray datagram is from another host, and said by nobody. *)
LEMMA LoopStray ==
    ASSUME IInv, LoopInv, Stray, UNCHANGED clientVars
    PROVE  LoopInv'
<1> DEFINE d == Datagram("other", 4, 0, "other", 0, 39, FALSE)
<1>0. UdpTypeOK /\ UNCHANGED <<pc, seed, auth, toServer, xch, session>>
  BY DEF IInv, TypeOK, clientVars, Stray
<1>1. d \in Datagrams /\ d.from = "other"
  <2>1. d.from = "other"
    BY DEF Datagram
  <2> QED
    BY <2>1, DatagramType, ByteValues
<1>2. toClient' = Offer(toClient, d, ReplyCap)
  BY DEF Stray, Deliver
<1> HIDE DEF d
<1>3. toClient \in Seq(Datagrams) /\ ReplyCap \in Nat
  BY <1>0, UdpAssumption DEF UdpTypeOK
<1>4. \A i \in 1 .. Len(toClient') :
        \/ i \in 1 .. Len(toClient) /\ toClient'[i] = toClient[i]
        \/ i = Len(toClient) + 1 /\ toClient'[i] = d
  BY <1>1, <1>2, <1>3, OfferedElement
<1>5. \A i \in Said' : \E j \in Said : toClient'[i] = toClient[j]
  BY <1>1, <1>4 DEF Said
<1>6. DOMAIN toServer = Asked /\ (DOMAIN toServer = Asked)'
  BY <1>0 DEF UdpTypeOK, Asked
<1>7. (OneLogin => OneLogin') /\ \A j \in Asked' : \E k \in Asked : toServer'[j] = toServer[k]
  BY <1>0 DEF OneLogin, Asked
<1> QED
  BY <1>0, <1>5, <1>6, <1>7, LoopKeeps

LEMMA LoopStep ==
    ASSUME ~ Reorders, IInv, OrderInv, [Next]_vars
    PROVE  LoopInv'
<1>0. LoopInv
  BY DEF OrderInv
<1>1. CASE RequestStop \/ UNCHANGED vars
  <2>0. UNCHANGED <<pc, seed, auth, toServer, toClient, xch, session>>
    BY <1>1 DEF RequestStop, vars, clientVars, udpVars
  <2>1. LoginIsAlone' /\ NoticeFollowsLogin' /\ QuietAtLoop'
    BY <1>0, <2>0
    DEF LoopInv, LoginIsAlone, NoticeFollowsLogin, QuietAtLoop, Noticing, Holds, Asked, Said
  <2>2. AcceptsAreOurs'
    BY <1>0, <2>0 DEF LoopInv, AcceptsAreOurs, AcceptedOnce, Accepts, NoLogin, Asked, Said
  <2>3. SessionIsOurs'
    BY <1>0, <2>0 DEF LoopInv, SessionIsOurs, NoLogin, InSession, Noticing, Asked
  <2>4. LogoutIsAnswered' /\ CleanLogoutReleases'
    BY <1>0, <2>0 DEF LoopInv, LogoutIsAnswered, CleanLogoutReleases, Answered, Holds, Asked, Said
  <2> QED
    BY <2>1, <2>2, <2>3, <2>4 DEF LoopInv
<1>2. CASE Kill \/ Respawn
  BY <1>2, LoopOutside DEF Kill, Respawn, Idle
<1>3. CASE NetworkStep
  BY <1>0, <1>3, LoopNetwork DEF NetworkStep
<1>4. CASE ServerStep
  BY <1>0, <1>4, LoopAnswer, LoopEndsSession, LoopStray DEF ServerStep, ServerNext
<1> QED
  BY <1>0, <1>1, <1>2, <1>3, <1>4, ClientLoop, LoopWait DEF Next, OutsideStep

LEMMA InitOrder == Init => OrderInv
<1> SUFFICES ASSUME Init PROVE OrderInv
  OBVIOUS
<1>1. /\ Len(toServer) = 0 /\ Len(toClient) = 0 /\ xch = Idle /\ pc = "start"
  BY DEF Init
<1>2. Idle.st = "idle" /\ Idle.got.from = "other"
  BY DEF Idle, NoReply, Datagram
<1>3. PipeInv(Challenges)
  BY <1>1, <1>2 DEF PipeInv, Fifo, Distinct, Cleared, SeedsAreEchoes, SeedIsEcho, Asked, Said
<1>4. LoopInv
  BY <1>1, <1>2
  DEF LoopInv, LoginIsAlone, AcceptsAreOurs, SessionIsOurs, NoticeFollowsLogin,
      LogoutIsAnswered, CleanLogoutReleases, QuietAtLoop, InSession, Noticing
<1> QED
  BY <1>3, <1>4 DEF OrderInv

(* OrderInv is an invariant where the network keeps the order. *)
THEOREM OrderIsKept ==
    ASSUME ~ Reorders
    PROVE  Spec => []OrderInv
<1>1. IInv /\ OrderInv /\ [Next]_vars => OrderInv'
  BY PipeStep, LoopStep DEF OrderInv
<1> QED
  BY <1>1, Invariance, InitOrder, PTL DEF Spec

(* On a network that keeps the order of the datagrams, the authentication  *)
(* data of a session is the answer to the login of this very attempt,      *)
(* whatever an earlier attempt or an earlier process left on its way.      *)
THEOREM AuthIsOurs ==
    ASSUME ~ Reorders
    PROVE  Spec => []AuthMatchesLogin
<1>1. OrderInv => AuthMatchesLogin
  BY DEF OrderInv, LoopInv, SessionIsOurs, AuthMatchesLogin
<1> QED
  BY <1>1, OrderIsKept, PTL

(* On such a network, a logout that was answered has ended the session at  *)
(* the server, and no login is on its way to open another.                 *)
THEOREM CleanLogouts ==
    ASSUME ~ Reorders
    PROVE  Spec => []CleanLogoutReleases
<1>1. OrderInv => CleanLogoutReleases
  BY DEF OrderInv, LoopInv
<1> QED
  BY <1>1, OrderIsKept, PTL

-----------------------------------------------------------------------------
(* FreshRoundReplies: the counter of the keepalives turns over slowly      *)
(* enough.                                                                 *)

Turns == 2 * FailureThreshold <= CounterModulus

LEMMA RoundNumbers ==
    ASSUME Turns, IInv, pc \in {"top", "round"}
    PROVE  /\ failures \in Nat /\ counter \in Counters /\ CounterModulus \in Nat
           /\ 2 * failures \in Nat /\ 2 * failures + 1 \in Nat /\ 2 * failures + 2 \in Nat
           /\ 2 * failures + 1 < CounterModulus
           /\ Lag \in {2 * failures, 2 * failures + 1, 2 * failures + 2}
<1>1. failures < FailureThreshold /\ counter \in Counters /\ failures \in 0 .. FailureThreshold
  BY DEF IInv, ControlInv, BelowThreshold, TypeOK
<1>2. FailureThreshold \in Nat /\ CounterModulus \in Nat /\ CounterModulus >= 2 * FailureThreshold
  BY RetryPolicyAssumption, UdpAssumption DEF Turns
<1>3. failures \in Nat /\ failures + 1 <= FailureThreshold
  BY <1>1, <1>2
<1>4. 2 * failures + 1 < CounterModulus
  BY <1>2, <1>3
<1>5. 2 * failures \in Nat /\ 2 * failures + 1 \in Nat /\ 2 * failures + 2 \in Nat
  BY <1>3
<1>6. Lag \in {2 * failures, 2 * failures + 1, 2 * failures + 2}
  BY DEF Lag
<1> QED
  BY <1>1, <1>2, <1>3, <1>4, <1>5, <1>6

(* Requests that are not keepalives leave the round alone. *)
LEMMA BeatsPipeBegin ==
    ASSUME UdpTypeOK, PipeInv(Beats), NEW kind \in Kinds \ Beats, NEW id \in IdsOf(kind),
           Begin(kind, id)
    PROVE  PipeInv(Beats)'
BY PipeBegin

LEMMA ChallengeBegins ==
    ASSUME TypeOK, NEW kind \in {"challenge", "logoutChallenge"}, BeginChallenge(kind)
    PROVE  \E id \in IdsOf(kind) : Begin(kind, id) /\ kind \in Kinds \ Beats
<1>1. PICK n \in FreshNonces : Begin(kind, n)
  BY DEF BeginChallenge
<1> QED
  BY <1>1 DEF FreshNonces, IdsOf, Kinds, Beats

(* The steps outside of the rounds. *)
LEMMA RoundInvElsewhere ==
    ASSUME pc' \notin {"nap", "top", "round"}
    PROVE  WindowKept' /\ RoundCounts'
BY DEF WindowKept, RoundCounts

(* The bounds of the window, after a step. *)
LEMMA TopWindow ==
    ASSUME NEW n, n = 2 * failures', Window(n)'
    PROVE  Window(2 * failures)'
BY DEF Window, Behind

LEMMA LagWindow ==
    ASSUME NEW n, n = Lag', Window(n)'
    PROVE  Window(Lag)'
BY DEF Window, Behind

LEMMA ClientRound ==
    ASSUME Turns, IInv, OrderInv, RoundInv, ClientStep, ~ RoundStep
    PROVE  RoundInv'
<1>0. UdpTypeOK /\ TypeOK /\ PipeInv(Beats) /\ Beats \subseteq Named
  BY DEF IInv, TypeOK, RoundInv, Named
<1>a. xch.got.data \in Nonces \cup {None} /\ auth \in Nonces \cup {None} /\ pc \in Pcs
  BY <1>0 DEF TypeOK, UdpTypeOK, Exchanges, Datagrams
<1>1. CASE /\ UNCHANGED <<toServer, toClient>> /\ pc' \notin {"nap", "top", "round"}
           /\ xch' = xch \/ xch' = Idle \/ Listen("notice")
  BY <1>0, <1>1, PipeIdle, RoundInvElsewhere DEF RoundInv
<1>2. CASE StartChallenge \/ StopAtTop \/ GiveUpStopping
  <2>1. pc' \notin {"nap", "top", "round"}
    BY <1>2 DEF StartChallenge, StopAtTop, GiveUpStopping, BeginLogout
  <2>2. \E kind \in {"challenge", "logoutChallenge"} : BeginChallenge(kind)
    BY <1>2 DEF StartChallenge, StopAtTop, GiveUpStopping, BeginLogout
  <2> QED
    BY <1>0, <2>1, <2>2, ChallengeBegins, BeatsPipeBegin, RoundInvElsewhere DEF RoundInv
<1>3. CASE SendLogin \/ SendLogout
  <2>1. pc' \notin {"nap", "top", "round"}
    BY <1>3 DEF SendLogin, SendLogout, clientVars
  <2>2. \E kind \in Kinds \ Beats : \E id \in IdsOf(kind) : Begin(kind, id)
    BY <1>a, <1>3 DEF SendLogin, SendLogout, Kinds, Beats, IdsOf
  <2> QED
    BY <1>0, <2>1, <2>2, BeatsPipeBegin, RoundInvElsewhere DEF RoundInv
<1>4. CASE EnterSession
  <2>1. /\ xch' = Idle /\ UNCHANGED <<toServer, toClient>> /\ pc' = "top" /\ failures' = 0
        /\ Noticing
    BY <1>4 DEF EnterSession, Noticing
  <2>2. PipeInv(Beats)'
    BY <1>0, <2>1, PipeIdle
  <2>3. Holds({"challenge"}, {2, 4, 5})
    BY <2>1 DEF OrderInv, LoopInv, NoticeFollowsLogin
  <2>4. /\ \A i \in Asked' : toServer'[i].kind # "first"
        /\ \A i \in 1 .. Len(toClient') : ~ AnswersFirst(toClient'[i])
    BY <2>1, <2>3 DEF Holds, AnswersFirst, Asked, Said
  <2>5. Window(2 * failures)'
    BY <2>4 DEF Window, AnswersFirst
  <2> QED
    BY <2>1, <2>2, <2>5 DEF RoundInv, WindowKept, RoundCounts
<1>5. CASE StartRound
  <2>1. /\ pc = "top" /\ pc' = "round" /\ UNCHANGED <<counter, failures>>
        /\ Window(2 * failures)
    BY <1>5 DEF StartRound, BeginKeepalive1, RoundInv, WindowKept
  <2>2. PICK kind \in {"keepalive1Seed", "keepalive1"} : Begin(kind, auth)
    BY <1>5 DEF StartRound, BeginKeepalive1
  <2>3. kind \in (Kinds \ Beats) \cap (Kinds \ {"first"}) /\ auth \in IdsOf(kind)
    BY <1>a DEF Kinds, Beats, IdsOf
  <2>4. PipeInv(Beats)'
    BY <1>0, <2>2, <2>3, BeatsPipeBegin
  <2>5. xch'.kind = kind
    BY <2>2, BeginEffect
  <2>6. Window(2 * failures)'
    <3>1. PICK n : n = 2 * failures
      OBVIOUS
    <3>2. Window(n)'
      BY <1>0, <2>1, <2>2, <2>3, <3>1, WindowBegin
    <3> QED
      BY <2>1, <3>1, <3>2, TopWindow
  <2> QED
    BY <2>1, <2>4, <2>5, <2>6 DEF RoundInv, WindowKept, RoundCounts, Lag, KeepaliveKinds
<1>6. CASE RoundDone
  <2>1. /\ pc' = "nap" /\ xch' = Idle /\ UNCHANGED <<toServer, toClient, counter>>
        /\ Answered("third")
    BY <1>6 DEF RoundDone, Keepalive2Done
  <2>2. PipeInv(Beats)'
    BY <1>0, <2>1, PipeIdle
  <2>3. /\ \A i \in Asked : toServer[i].kind # "first"
        /\ \A i \in 1 .. Len(toClient) : ~ AnswersFirst(toClient[i])
    BY <1>0, <2>1, AfterBeat DEF Beats
  <2>4. Window(0)'
    BY <2>1, <2>3 DEF Window, Asked, AnswersFirst
  <2> QED
    BY <2>1, <2>2, <2>4 DEF RoundInv, WindowKept, RoundCounts
<1>7. CASE WakeUp
  <2>1. /\ pc = "nap" /\ pc' = "top" /\ UNCHANGED <<toServer, toClient, xch, counter, failures>>
        /\ Window(0) /\ failures = 0
    BY <1>7 DEF WakeUp, udpVars, RoundInv, WindowKept, IInv, ControlInv, BelowThreshold
  <2>2. PipeInv(Beats)'
    BY <1>0, <2>1, PipeIdle
  <2>3. Window(0)'
    BY <2>1, WindowStays DEF Asked
  <2>4. Window(2 * failures)'
    BY <2>1, <2>3, TopWindow
  <2> QED
    BY <2>1, <2>2, <2>4 DEF RoundInv, WindowKept, RoundCounts
<1>8. CASE RetryRound
  <2>1. /\ pc = "round" /\ pc' = "top" /\ xch' = Idle /\ UNCHANGED <<toServer, toClient, counter>>
        /\ failures' = failures + 1
    BY <1>0, <1>8 DEF RetryRound, CountFailure, NextKeepaliveFailureCount, TypeOK
  <2>2. PipeInv(Beats)'
    BY <1>0, <2>1, PipeIdle
  <2>3. Window(2 * failures + 2)
    <3>1. Window(Lag)
      BY <2>1 DEF RoundInv, WindowKept
    <3>2. Lag \in Int /\ 2 * failures + 2 \in Int /\ Lag <= 2 * failures + 2
      BY <2>1, RoundNumbers
    <3> QED
      BY <3>1, <3>2, WindowMore
  <2>4. PICK n : n = 2 * failures + 2
    OBVIOUS
  <2>5. Window(n)'
    BY <2>1, <2>3, <2>4, WindowStays DEF Asked
  <2>6. n = 2 * failures'
    BY <2>1, <2>4, RoundNumbers
  <2>7. Window(2 * failures)'
    BY <2>5, <2>6, TopWindow
  <2> QED
    BY <2>1, <2>2, <2>7 DEF RoundInv, WindowKept, RoundCounts
<1>9. CASE AcceptLogin
  BY <1>1, <1>9 DEF AcceptLogin, Listen
<1> QED
  BY <1>1, <1>2, <1>3, <1>4, <1>5, <1>6, <1>7, <1>8, <1>9
  DEF ClientStep, AttemptStep, SessionStep, LogoutStep, Startup, StopAtLoop,
      TriesExhausted, ChallengeFailed, LoginImpossible, LoginFails, AfterFailedAttempt,
      BackoffEnds, GiveUpSession, FinishLogout, udpVars

LEMMA ClientRoundStep ==
    ASSUME Turns, IInv, RoundInv, RoundStep
    PROVE  RoundInv'
<1>0. /\ UdpTypeOK /\ TypeOK /\ PipeInv(Beats) /\ Beats \subseteq Named
      /\ pc = "round" /\ pc' = "round" /\ failures' = failures
  BY DEF IInv, TypeOK, RoundInv, Named, RoundStep
<1>1. /\ failures \in Nat /\ counter \in Counters
      /\ 2 * failures \in Nat /\ 2 * failures + 1 \in Nat /\ 2 * failures + 2 \in Nat
      /\ 2 * failures < CounterModulus /\ 2 * failures + 1 < CounterModulus
  BY <1>0, RoundNumbers
<1>2. Window(Lag) /\ xch.kind \in KeepaliveKinds
  BY <1>0 DEF RoundInv, WindowKept, RoundCounts
<1>3. CASE Keepalive1Second
  <2>1. Begin("keepalive1", xch.id) /\ counter' = counter /\ xch.kind = "keepalive1Seed"
    BY <1>3 DEF Keepalive1Second, Answered
  <2>2. xch.id \in IdsOf("keepalive1") /\ "keepalive1" \in (Kinds \ Beats) \cap (Kinds \ {"first"})
    BY <1>0, <2>1 DEF UdpTypeOK, Exchanges, IdsOf, Kinds, Beats
  <2>3. PipeInv(Beats)' /\ xch'.kind = "keepalive1"
    BY <1>0, <2>1, <2>2, BeatsPipeBegin, BeginEffect
  <2>4. Window(2 * failures)
    BY <1>2, <2>1 DEF Lag
  <2>5. PICK n : n = 2 * failures
    OBVIOUS
  <2>6. Window(n)'
    BY <1>0, <2>1, <2>2, <2>4, <2>5, WindowBegin
  <2>7. n = Lag'
    BY <1>0, <2>3, <2>5 DEF Lag
  <2>8. Window(Lag)'
    BY <2>6, <2>7, LagWindow
  <2> QED
    BY <1>0, <2>3, <2>8 DEF RoundInv, WindowKept, RoundCounts, KeepaliveKinds
<1>4. CASE Keepalive1Done /\ BeginKeepalive2(ExtraForRound) /\ ExtraForRound # "NONE"
  <2>1. SendKeepalive2("extra") /\ xch.kind = "keepalive1"
    BY <1>4 DEF Keepalive1Done, Answered, BeginKeepalive2
  <2>2. counter \in IdsOf("extra") /\ "extra" \in Kinds \ Beats /\ Begin("extra", counter)
    BY <1>1, <2>1 DEF IdsOf, Kinds, Beats, SendKeepalive2
  <2>3. PipeInv(Beats)' /\ xch'.kind = "extra"
    BY <1>0, <2>2, BeatsPipeBegin, BeginEffect
  <2>4. Window(2 * failures)
    BY <1>2, <2>1 DEF Lag
  <2>5. PICK n \in Nat : n = 2 * failures
    BY <1>1
  <2>6. Window(n + 1)'
    BY <1>0, <1>1, <2>1, <2>4, <2>5, WindowSend
  <2>7. n + 1 = Lag'
    BY <1>0, <2>3, <2>5 DEF Lag
  <2>8. Window(Lag)'
    BY <2>6, <2>7, LagWindow
  <2> QED
    BY <1>0, <2>3, <2>8 DEF RoundInv, WindowKept, RoundCounts, KeepaliveKinds
<1>5. ASSUME SendKeepalive2("first"), NEW n \in Nat, Window(n), n < CounterModulus,
             n + 1 <= 2 * failures + 2
      PROVE  RoundInv'
  <2>1. /\ counter \in IdsOf("first") /\ "first" \in Kinds /\ Begin("first", counter)
        /\ counter' = (counter + 1) % CounterModulus
    BY <1>1, <1>5 DEF IdsOf, Kinds, SendKeepalive2
  <2>2. NothingLike("first", counter)
    BY <1>0, <1>1, <1>5, FirstIsUnlike
  <2>3. PipeInv(Beats)'
    BY <1>0, <2>1, <2>2, PipeBegin
  <2>4. xch'.kind = "first" /\ xch'.id = counter
    BY <1>0, <2>1, BeginQueues
  <2>5. Window(n + 1)'
    BY <1>0, <1>1, <1>5, WindowSend
  <2>6. PICK m \in Nat : m = 2 * failures + 2
    BY <1>1
  <2>7. Window(m)'
    <3>1. n + 1 \in Int /\ m \in Int /\ n + 1 <= m
      BY <1>5, <2>6
    <3> QED
      BY <2>5, <3>1 DEF Window, Behind
  <2>8. m = Lag'
    BY <1>0, <2>4, <2>6 DEF Lag
  <2>9. Window(Lag)'
    BY <2>7, <2>8, LagWindow
  <2> QED
    BY <1>0, <2>1, <2>3, <2>4, <2>9 DEF RoundInv, WindowKept, RoundCounts, KeepaliveKinds
<1>6. CASE Keepalive1Done /\ BeginKeepalive2(ExtraForRound) /\ ExtraForRound = "NONE"
  <2>1. SendKeepalive2("first") /\ xch.kind = "keepalive1"
    BY <1>6 DEF Keepalive1Done, Answered, BeginKeepalive2
  <2>2. Window(2 * failures)
    BY <1>2, <2>1 DEF Lag
  <2>3. PICK n \in Nat : n = 2 * failures
    BY <1>1
  <2> QED
    BY <1>1, <1>5, <2>1, <2>2, <2>3
<1>7. CASE ExtraAnswered
  <2>1. SendKeepalive2("first") /\ xch.kind = "extra"
    BY <1>7 DEF ExtraAnswered, Answered
  <2>2. Window(2 * failures + 1)
    BY <1>2, <2>1 DEF Lag
  <2>3. PICK n \in Nat : n = 2 * failures + 1
    BY <1>1
  <2> QED
    BY <1>1, <1>5, <2>1, <2>2, <2>3
<1>8. CASE FirstAnswered
  <2>1. /\ SendKeepalive2("third") /\ Answered("first") /\ xch.kind = "first"
        /\ "first" \in Beats /\ "third" \in Kinds
    BY <1>8 DEF FirstAnswered, Answered, Beats, Kinds
  <2>2. /\ counter \in IdsOf("third") /\ Begin("third", counter)
        /\ counter = (xch.id + 1) % CounterModulus
    BY <1>0, <1>1, <2>1 DEF IdsOf, SendKeepalive2, RoundInv, RoundCounts
  <2>3. NothingLike("third", counter)
    BY <1>0, <2>1, ThirdIsUnlike
  <2>4. PipeInv(Beats)' /\ xch'.kind = "third"
    BY <1>0, <2>1, <2>2, <2>3, PipeBegin, BeginEffect
  <2>5. Window(1)
    <3>1. Behind(xch.id, 1)
      BY <2>2 DEF Behind
    <3> QED
      BY <1>0, <2>1, <3>1, AfterBeat DEF Window
  <2>6. Window(1 + 1)'
    BY <1>0, <1>1, <2>1, <2>5, WindowSend
  <2>7. PICK m \in Nat : m = 2 * failures + 2
    BY <1>1
  <2>8. Window(m)'
    <3>1. m \in Int /\ 1 + 1 <= m
      BY <1>1, <2>7
    <3> QED
      BY <2>6, <3>1 DEF Window, Behind
  <2>9. m = Lag'
    BY <1>0, <2>4, <2>7 DEF Lag
  <2>10. Window(Lag)'
    BY <2>8, <2>9, LagWindow
  <2> QED
    BY <1>0, <2>4, <2>10 DEF RoundInv, WindowKept, RoundCounts, KeepaliveKinds
<1> QED
  BY <1>3, <1>4, <1>6, <1>7, <1>8 DEF RoundStep, KeepaliveStep

(* The steps that leave the client where it is. *)
LEMMA RoundWait ==
    ASSUME ~ Reorders, Turns, IInv, RoundInv, WaitStep
    PROVE  RoundInv'
<1>0. UdpTypeOK /\ PipeInv(Beats) /\ Beats \subseteq Named /\ Wait /\ UNCHANGED clientVars
  BY DEF IInv, TypeOK, RoundInv, Named, WaitStep
<1>1. PipeInv(Beats)'
  BY <1>0, PipeWait
<1>2. xch.st = "wait" /\ xch'.kind = xch.kind /\ xch'.id = xch.id
  <2>1. CASE ReceiveExpected
    BY <1>0, <2>1 DEF ReceiveExpected, UdpTypeOK, Exchanges
  <2>2. CASE IgnoreUnexpected
    BY <2>2 DEF IgnoreUnexpected
  <2>3. CASE Timeout
    BY <1>0, <2>3, TimeoutQueues
  <2> QED
    BY <1>0, <2>1, <2>2, <2>3 DEF Wait
<1>3. pc \in {"attempt", "round", "logout"}
  BY <1>2 DEF IInv, ControlInv, WaitsInCalls
<1>4. pc' = pc /\ counter' = counter /\ failures' = failures
  BY <1>0 DEF clientVars
<1>5. CASE pc # "round"
  BY <1>1, <1>3, <1>4, <1>5, RoundInvElsewhere DEF RoundInv
<1>6. CASE pc = "round"
  <2>1. Window(Lag) /\ xch.kind \in KeepaliveKinds
    BY <1>6 DEF RoundInv, WindowKept, RoundCounts
  <2>2. RoundCounts'
    BY <1>2, <1>4, <1>6 DEF RoundInv, RoundCounts
  <2>3. xch.kind = "first" => Behind(xch.id, Lag)
    <3>1. SUFFICES ASSUME xch.kind = "first" PROVE Behind(xch.id, Lag)
      OBVIOUS
    <3>2. (xch.id + 1) % CounterModulus = counter
      BY <1>6, <3>1 DEF RoundInv, RoundCounts
    <3>3. Lag = 2 * failures + 2 /\ failures \in Nat
      BY <1>6, <3>1, RoundNumbers DEF Lag
    <3>4. 1 \in 1 .. Lag
      BY <3>3
    <3> QED
      BY <3>2, <3>4 DEF Behind
  <2>4. PICK n : n = Lag
    OBVIOUS
  <2>5. Window(n)'
    BY <1>0, <1>4, <2>1, <2>3, <2>4, WindowWait
  <2>6. n = Lag'
    BY <1>2, <1>4, <2>4 DEF Lag
  <2>7. Window(Lag)'
    BY <2>5, <2>6, LagWindow
  <2> QED
    BY <1>1, <1>4, <1>6, <2>2, <2>7 DEF RoundInv, WindowKept
<1> QED
  BY <1>5, <1>6

(* What others do to the queues. *)
LEMMA RoundAround ==
    ASSUME RoundInv, PipeInv(Beats)', UNCHANGED <<pc, xch, counter, failures>>,
           \A n : Window(n) => Window(n)'
    PROVE  RoundInv'
<1>1. RoundCounts'
  BY DEF RoundInv, RoundCounts
<1>2. ASSUME pc' = "nap" PROVE Window(0)'
  BY <1>2 DEF RoundInv, WindowKept
<1>3. ASSUME pc' = "top" PROVE Window(2 * failures)'
  <2>1. PICK n : n = 2 * failures
    OBVIOUS
  <2>2. Window(n)'
    BY <1>3, <2>1 DEF RoundInv, WindowKept
  <2> QED
    BY <2>1, <2>2, TopWindow
<1>4. ASSUME pc' = "round" PROVE Window(Lag)'
  <2>1. PICK n : n = Lag
    OBVIOUS
  <2>2. Window(n)'
    BY <1>4, <2>1 DEF RoundInv, WindowKept
  <2>3. n = Lag'
    BY <2>1 DEF Lag
  <2> QED
    BY <2>2, <2>3, LagWindow
<1> QED
  BY <1>1, <1>2, <1>3, <1>4 DEF RoundInv, WindowKept

LEMMA RoundNetwork ==
    ASSUME ~ Reorders, IInv, RoundInv, NetworkStep \/ ServerStep
    PROVE  RoundInv'
<1>0. /\ UdpTypeOK /\ PipeInv(Beats) /\ Beats \subseteq Named
      /\ UNCHANGED <<pc, counter, failures>>
  BY DEF IInv, TypeOK, RoundInv, Named, NetworkStep, ServerStep, clientVars
<1>1. xch' = xch
  BY DEF NetworkStep, ServerStep, Network, LoseRequest, LoseReply, DuplicateReply,
         ServerNext, ServerHandles, ServerEndsSession, Stray, udpVars
<1>2. CASE NetworkStep
  <2>1. PipeInv(Beats)'
    BY <1>0, <1>2, PipeNetwork DEF NetworkStep
  <2>2. \A n : Window(n) => Window(n)'
    BY <1>0, <1>2, WindowNetwork DEF NetworkStep
  <2> QED
    BY <1>0, <1>1, <2>1, <2>2, RoundAround
<1>3. CASE ServerStep
  <2>1. PipeInv(Beats)'
    BY <1>0, <1>3, PipeServer DEF ServerStep
  <2>2. \A n : Window(n) => Window(n)'
    BY <1>0, <1>3, WindowServer DEF ServerStep
  <2> QED
    BY <1>0, <1>1, <2>1, <2>2, RoundAround
<1> QED
  BY <1>2, <1>3

LEMMA RoundInvStep ==
    ASSUME ~ Reorders, Turns, IInv, OrderInv, RoundInv, [Next]_vars
    PROVE  RoundInv'
<1>0. PipeInv(Beats) /\ Beats \subseteq Named
  BY DEF RoundInv, Named
<1>1. CASE RequestStop \/ UNCHANGED vars
  <2>1. UNCHANGED <<pc, toServer, toClient, xch, counter, failures>>
    BY <1>1 DEF RequestStop, vars, clientVars, udpVars
  <2>2. PipeInv(Beats)'
    BY <1>0, <2>1, PipeIdle
  <2>3. \A n : Window(n) => Window(n)'
    BY <2>1, WindowStays DEF Asked
  <2> QED
    BY <2>1, <2>2, <2>3, RoundAround
<1>2. CASE Kill \/ Respawn
  <2>1. /\ pc' \notin {"nap", "top", "round"} /\ xch' = Idle
        /\ UNCHANGED <<toServer, toClient>>
    BY <1>2 DEF Kill, Respawn
  <2>2. PipeInv(Beats)'
    BY <1>0, <2>1, PipeIdle
  <2> QED
    BY <2>1, <2>2, RoundInvElsewhere DEF RoundInv
<1> QED
  BY <1>1, <1>2, ClientRound, ClientRoundStep, RoundWait, RoundNetwork DEF Next, OutsideStep

LEMMA InitRound == Init => RoundInv
<1> SUFFICES ASSUME Init PROVE RoundInv
  OBVIOUS
<1>1. /\ Len(toServer) = 0 /\ Len(toClient) = 0 /\ xch = Idle /\ pc = "start"
  BY DEF Init
<1>2. Idle.st = "idle" /\ Idle.got.from = "other"
  BY DEF Idle, NoReply, Datagram
<1>3. PipeInv(Beats)
  BY <1>1, <1>2 DEF PipeInv, Fifo, Distinct, Cleared, SeedsAreEchoes, SeedIsEcho, Asked, Said
<1> QED
  BY <1>1, <1>3 DEF RoundInv, WindowKept, RoundCounts

(* RoundInv is an invariant where the network keeps the order and the      *)
(* counter outlasts the failed rounds of a session.                        *)
THEOREM RoundsAreKept ==
    ASSUME ~ Reorders, Turns
    PROVE  Spec => []RoundInv
<1>1. IInv /\ OrderInv /\ RoundInv /\ [Next]_vars => RoundInv'
  BY RoundInvStep
<1> QED
  BY <1>1, Invariance, OrderIsKept, InitRound, PTL DEF Spec

(* On a network that keeps the order of the datagrams, nothing older is    *)
(* taken for the answer to one of the two packets that end a keepalive_2   *)
(* (keepalive.c:476-565), as long as the counter does not come round       *)
(* within the failures a session lives through: 2 * 6 packets against 255  *)
(* in the code.  The extra packet before them is not covered.              *)
THEOREM RoundRepliesAreFresh ==
    ASSUME ~ Reorders, Turns
    PROVE  Spec => []FreshRoundReplies
<1>1. RoundInv => FreshRoundReplies
  BY DEF RoundInv, PipeInv, Cleared, Beats, FreshRoundReplies
<1> QED
  BY <1>1, RoundsAreKept, PTL

-----------------------------------------------------------------------------
(* The login templates take turns. *)

(* The network and the server leave the client's exchange alone. *)
LEMMA OutsideKeepsExchange ==
    ASSUME NetworkStep \/ ServerStep
    PROVE  xch' = xch
<1>1. ASSUME NetworkStep PROVE xch' = xch
  BY <1>1 DEF NetworkStep, Network, LoseRequest, LoseReply, DuplicateReply
<1>2. ASSUME ServerNext PROVE xch' = xch
  BY <1>2 DEF ServerNext, ServerHandles, ServerEndsSession, udpVars
<1>3. ASSUME Stray PROVE xch' = xch
  BY <1>3 DEF Stray
<1> QED
  BY <1>1, <1>2, <1>3 DEF ServerStep

LEMMA TemplateStep ==
    ASSUME IInv, TemplateInv, [Next]_vars
    PROVE  TemplateInv'
<1>0. /\ UdpTypeOK /\ WaitsInCalls /\ loginFailed \in 0 .. 4
      /\ TemplateTried /\ TemplateTurns /\ NoneFailedOnline
  BY DEF IInv, TypeOK, ControlInv, TemplateInv
<1> USE DEF TemplateInv, TemplateTried, TemplateTurns, NoneFailedOnline
<1>1. CASE WaitStep
  <2>1. xch'.kind = xch.kind
    BY <1>0, <1>1, WaitEffect DEF WaitStep
  <2> QED
    BY <1>0, <1>1, <2>1 DEF WaitStep, clientVars
<1>2. CASE NetworkStep \/ ServerStep
  <2>1. pc' = pc /\ template' = template /\ loginFailed' = loginFailed
    BY <1>2 DEF NetworkStep, ServerStep, clientVars
  <2>2. xch' = xch
    BY <1>2, OutsideKeepsExchange
  <2> QED
    BY <1>0, <2>1, <2>2
<1>3. CASE RequestStop \/ UNCHANGED vars
  BY <1>0, <1>3 DEF RequestStop, vars, clientVars, udpVars
<1>4. CASE Kill \/ Respawn
  BY <1>4 DEF Kill, Respawn
<1>5. CASE Startup \/ StopAtLoop \/ TriesExhausted \/ BackoffEnds
  BY <1>0, <1>5 DEF Startup, StopAtLoop, TriesExhausted, BackoffEnds
<1>6. CASE StartChallenge
  <2>1. xch'.kind = "challenge"
    BY <1>6, ChallengeEffect DEF StartChallenge
  <2> QED
    BY <1>0, <1>6, <2>1 DEF StartChallenge
<1>7. CASE ChallengeFailed
  BY <1>0, <1>7 DEF ChallengeFailed, AfterFailedAttempt
<1>8. CASE SendLogin
  <2>1. xch'.kind = "login"
    BY <1>8, BeginEffect DEF SendLogin
  <2> QED
    BY <1>0, <1>8, <2>1 DEF SendLogin
<1>9. ASSUME template' = LoginTemplateForAttempt(JluMode, loginFailed),
             loginFailed' = NextFailedLogins(loginFailed), AfterFailedAttempt
      PROVE  TemplateInv'
  <2>1. pc' \in {"exit0", "backoff"}
    BY <1>9 DEF AfterFailedAttempt
  <2>2. /\ ~ JluMode /\ loginFailed' = 3 => template' = "STANDARD"
        /\ ~ JluMode /\ loginFailed' = 4 => template' = "JLU"
    BY <1>0, <1>9 DEF NextFailedLogins, LoginTemplateForAttempt
  <2> QED
    BY <2>1, <2>2
<1>10. CASE LoginImpossible
  BY <1>9, <1>10 DEF LoginImpossible
<1>11. CASE LoginFails
  BY <1>0, <1>9, <1>11 DEF LoginFails, LoginRefused, LoginUnanswered, Answered
<1>12. CASE AcceptLogin
  BY <1>0, <1>12, ListenEffect DEF AcceptLogin
<1>13. CASE EnterSession
  BY <1>13 DEF EnterSession
<1>14. CASE StartRound \/ RoundStep \/ RoundDone \/ WakeUp \/ RetryRound
  BY <1>0, <1>14 DEF StartRound, RoundStep, RoundDone, WakeUp, RetryRound
<1>15. CASE GiveUpSession \/ GiveUpStopping
  BY <1>0, <1>15 DEF GiveUpSession, GiveUpStopping, BeginLogout
<1>16. CASE LogoutStep
  BY <1>16 DEF LogoutStep, StopAtTop, BeginLogout, SendLogout, FinishLogout, clientVars
<1> QED
  BY <1>1, <1>2, <1>3, <1>4, <1>5, <1>6, <1>7, <1>8, <1>10, <1>11, <1>12, <1>13,
     <1>14, <1>15, <1>16
  DEF Next, ClientStep, OutsideStep, AttemptStep, SessionStep

(* From the fourth failed login on, every attempt of a generic client uses *)
(* the template the last one did not: failed challenges between them,      *)
(* sessions given up and restarts do not break the turns.                  *)
THEOREM TemplatesTakeTurns == Spec => TemplateAlternates
<1>1. Init => TemplateInv
  BY DEF Init, TemplateInv, TemplateTried, TemplateTurns, NoneFailedOnline
<1>2. IInv /\ TemplateInv /\ [Next]_vars => TemplateInv'
  BY TemplateStep
<1>3. IInv /\ TemplateInv /\ [Next]_vars =>
         [SendLogin /\ loginFailed >= 3 /\ ~ JluMode => template' # template]_vars
  <2> SUFFICES ASSUME IInv, TemplateInv, SendLogin, loginFailed >= 3, ~ JluMode
               PROVE  template' # template
    OBVIOUS
  <2>1. loginFailed \in 3 .. 4
    BY DEF IInv, TypeOK
  <2>2. template = IF loginFailed = 3 THEN "STANDARD" ELSE "JLU"
    BY <2>1 DEF TemplateInv, TemplateTurns, SendLogin, Answered
  <2> QED
    BY <2>1, <2>2 DEF SendLogin, LoginTemplateForAttempt
<1> QED
  BY <1>1, <1>2, <1>3, Invariance, PTL DEF Spec, TemplateAlternates

-----------------------------------------------------------------------------
(* The way out after a stop. *)

LEMMA CallsCounted ==
    /\ \A kind : CallsToEnd(kind) \in 1 .. 9
    /\ CallsToEnd("logout") = 1 /\ CallsToEnd("logoutChallenge") = 2
    /\ CallsToEnd("notice") = 4
    /\ CallsToEnd("login") = 5 /\ CallsToEnd("challenge") = 6
    /\ CallsToEnd("third") = 5 /\ CallsToEnd("first") = 6 /\ CallsToEnd("extra") = 7
    /\ CallsToEnd("keepalive1") = 8 /\ CallsToEnd("keepalive1Seed") = 9
BY DEF CallsToEnd

PlacesCounted == PlacesToEnd \in Nat

LEMMA PlacesRange == TypeOK => PlacesCounted
<1> SUFFICES ASSUME TypeOK PROVE PlacesToEnd \in Nat
  BY DEF PlacesCounted
<1>1. pc \in Pcs
  BY DEF TypeOK
<1>2. CallsToEnd(xch.kind) \in Nat
  BY CallsCounted
<1> QED
  BY <1>1, <1>2 DEF PlacesToEnd, Pcs, Exited

LEMMA PlacesRangeNext == TypeOK' => PlacesCounted'
BY PlacesRange, PTL

(* The places, read off pc before and after a step. *)
PlacesOfPc ==
    /\ pc \in Exited => PlacesToEnd = 0
    /\ pc \in {"start", "loop"} => PlacesToEnd = 1
    /\ pc = "backoff" => PlacesToEnd = 2
    /\ pc = "top" => PlacesToEnd = 3
    /\ pc = "nap" => PlacesToEnd = 4
    /\ pc \in {"attempt", "round", "logout"} => PlacesToEnd = CallsToEnd(xch.kind)

LEMMA PlacesOf == PlacesOfPc
BY DEF PlacesOfPc, PlacesToEnd, Exited

LEMMA PlacesOfNext == PlacesOfPc'
BY PlacesOf, PTL

LEMMA Nearer ==
    ASSUME TypeOK, TypeOK', PlacesToEnd' < PlacesToEnd
    PROVE  WayOut' \in 0 .. WayOut /\ WayOut' < WayOut
<1>1. /\ PlacesToEnd \in Nat /\ PlacesToEnd' \in Nat
      /\ WaitLeft \in Nat /\ WaitLeft' \in 0 .. RetryCount + 2
  BY PlacesRange, PlacesRangeNext, WaitRange, WaitRangeNext, UdpAssumption
  DEF TypeOK, PlacesCounted, WaitBounded
<1>2. WayOut' = PlacesToEnd' * LongestWait + WaitLeft'
  BY DEF WayOut, LongestWait
<1> QED
  BY <1>1, <1>2, FewerPlaces DEF WayOut

(* What the thread does on its own leads on, once the flag is raised. *)
LEMMA ThreadLeadsOut ==
    ASSUME TypeOK, WaitsInCalls, stop, ClientStep
    PROVE  PlacesToEnd' < PlacesToEnd
<1> USE CallsCounted, PlacesOf, PlacesOfNext DEF PlacesOfPc
<1>1. CASE Startup \/ StopAtLoop \/ TriesExhausted \/ BackoffEnds
  <2>1. CASE Startup \/ StopAtLoop \/ TriesExhausted
    <3>1. pc \in {"start", "loop"} /\ pc' \in Exited
      BY <2>1 DEF Startup, StopAtLoop, TriesExhausted, Exited
    <3> QED
      BY <3>1
  <2>2. CASE BackoffEnds
    <3>1. pc = "backoff" /\ pc' = "loop"
      BY <2>2 DEF BackoffEnds
    <3> QED
      BY <3>1
  <2> QED
    BY <1>1, <2>1, <2>2
<1>2. CASE StartChallenge \/ StartRound \/ GiveUpSession
  BY <1>2 DEF StartChallenge, StartRound, GiveUpSession
<1>3. CASE ChallengeFailed \/ LoginImpossible
  <2>1. pc = "attempt" /\ xch.kind = "challenge"
    BY <1>3 DEF ChallengeFailed, LoginImpossible, Answered
  <2>2. pc' \in Exited \cup {"backoff", "loop"}
    BY <1>3 DEF ChallengeFailed, LoginImpossible, AfterFailedAttempt, Exited
  <2>3. PlacesToEnd = 6 /\ PlacesToEnd' \in {0, 1, 2}
    BY <2>1, <2>2
  <2> QED
    BY <2>3
<1>4. CASE SendLogin
  <2>1. pc' = "attempt" /\ xch'.kind = "login" /\ pc = "attempt" /\ xch.kind = "challenge"
    BY <1>4, BeginEffect DEF SendLogin, Answered
  <2> QED
    BY <2>1
<1>5. CASE LoginFails
  BY <1>5 DEF LoginFails, LoginRefused, LoginUnanswered, AfterFailedAttempt, Answered, Exited
<1>6. CASE AcceptLogin
  <2>1. pc' = "attempt" /\ xch'.kind = "notice" /\ pc = "attempt" /\ xch.kind = "login"
    BY <1>6, ListenEffect DEF AcceptLogin, LoginSucceeded, Answered
  <2> QED
    BY <2>1
<1>7. CASE EnterSession
  BY <1>7 DEF EnterSession
<1>8. CASE RoundStep
  <2>1. pc = "round" /\ pc' = "round"
    BY <1>8 DEF RoundStep
  <2>2. CASE Keepalive1Second
    <3>1. xch.kind = "keepalive1Seed" /\ xch'.kind = "keepalive1"
      BY <2>2, BeginEffect DEF Keepalive1Second, Answered
    <3> QED
      BY <2>1, <3>1
  <2>3. CASE ExtraAnswered
    <3>1. xch.kind = "extra" /\ xch'.kind = "first"
      BY <2>3, BeginEffect DEF ExtraAnswered, SendKeepalive2, Answered
    <3> QED
      BY <2>1, <3>1
  <2>4. CASE FirstAnswered
    <3>1. xch.kind = "first" /\ xch'.kind = "third"
      BY <2>4, BeginEffect DEF FirstAnswered, SendKeepalive2, Answered
    <3> QED
      BY <2>1, <3>1
  <2>5. CASE Keepalive1Done /\ BeginKeepalive2(ExtraForRound)
    <3>1. xch.kind = "keepalive1" /\ xch'.kind \in {"first", "extra"}
      BY <2>5, BeginEffect DEF Keepalive1Done, BeginKeepalive2, SendKeepalive2, Answered
    <3> QED
      BY <2>1, <3>1
  <2> QED
    BY <1>8, <2>2, <2>3, <2>4, <2>5 DEF RoundStep, KeepaliveStep
<1>9. CASE RoundDone
  BY <1>9 DEF RoundDone, Keepalive2Done, Answered
<1>10. CASE WakeUp
  BY <1>10 DEF WakeUp
<1>11. CASE RetryRound \/ GiveUpStopping
  <2>1. pc = "round" /\ xch.kind \in {"keepalive1Seed", "keepalive1", "extra", "first", "third"}
    BY <1>11 DEF RetryRound, GiveUpStopping, KeepaliveFailed, KeepaliveKinds, Answered
  <2>2. PlacesToEnd >= 5
    BY <2>1
  <2>3. CASE RetryRound
    BY <2>2, <2>3 DEF RetryRound
  <2>4. CASE GiveUpStopping
    <3>1. pc' = "logout" /\ xch'.kind = "logoutChallenge"
      BY <2>4, ChallengeEffect DEF GiveUpStopping, BeginLogout
    <3>2. PlacesToEnd' = 2
      BY <3>1
    <3>3. PlacesToEnd \in {5, 6, 7, 8, 9}
      BY <2>1
    <3> QED
      BY <3>2, <3>3
  <2> QED
    BY <1>11, <2>3, <2>4
<1>12. CASE StopAtTop
  <2>1. pc' = "logout" /\ xch'.kind = "logoutChallenge" /\ pc = "top"
    BY <1>12, ChallengeEffect DEF StopAtTop, BeginLogout
  <2> QED
    BY <2>1
<1>13. CASE SendLogout
  <2>1. pc = "logout" /\ pc' = "logout" /\ xch.kind = "logoutChallenge" /\ xch'.kind = "logout"
    BY <1>13, BeginEffect DEF SendLogout, Answered, clientVars
  <2> QED
    BY <2>1
<1>14. CASE FinishLogout
  <2>1. pc = "logout" /\ pc' \in Exited
    BY <1>14 DEF FinishLogout, Exited
  <2>2. PlacesToEnd \in 1 .. 9 /\ PlacesToEnd' = 0
    BY <2>1
  <2> QED
    BY <2>2
<1> QED
  BY <1>1, <1>2, <1>3, <1>4, <1>5, <1>6, <1>7, <1>8, <1>9, <1>10, <1>11, <1>12, <1>13,
     <1>14
  DEF ClientStep, AttemptStep, SessionStep, LogoutStep

(* A call waits it out or ends; where it is, stays. *)
LEMMA WaitLeadsOut ==
    ASSUME TypeOK, WaitStep
    PROVE  WayOut' \in 0 .. WayOut /\ (TimeoutStep => WayOut' < WayOut)
<1>1. xch'.kind = xch.kind /\ pc' = pc /\ Wait /\ UdpTypeOK
  BY WaitShortens DEF WaitStep, TypeOK, clientVars
<1>2. PlacesToEnd' = PlacesToEnd /\ PlacesToEnd \in Nat
  BY <1>1, PlacesRange DEF PlacesToEnd, PlacesCounted
<1>3. WayOut' = PlacesToEnd * LongestWait + WaitLeft'
  BY <1>2 DEF WayOut, LongestWait
<1> QED
  BY <1>1, <1>2, <1>3, WaitLeadsOn DEF WayOut, TimeoutStep

LEMMA StepLeadsOut ==
    ASSUME IInv, TypeOK', stop, [Next]_vars
    PROVE  /\ WayOut' \in 0 .. WayOut
           /\ ClientStep \/ TimeoutStep => WayOut' < WayOut
<1>0. TypeOK /\ WaitsInCalls
  BY DEF IInv, ControlInv
<1>1. CASE ClientStep
  BY <1>0, <1>1, ThreadLeadsOut, Nearer
<1>2. CASE WaitStep /\ ~ ClientStep
  BY <1>0, <1>2, WaitLeadsOut
<1>3. TimeoutStep => WaitStep
  BY DEF TimeoutStep, WaitStep, Wait
<1>4. CASE (NetworkStep \/ ServerStep \/ UNCHANGED vars) /\ ~ ClientStep /\ ~ WaitStep
  <2>1. xch' = xch /\ pc' = pc
    BY <1>4 DEF NetworkStep, Network, LoseRequest, LoseReply, DuplicateReply, ServerStep,
       ServerNext, ServerHandles, ServerEndsSession, Stray, vars, udpVars, clientVars
  <2>2. WayOut' = WayOut
    BY <2>1 DEF WayOut, PlacesToEnd, WaitLeft, LongestWait
  <2>3. WayOut \in Nat
    <3>1. PlacesToEnd \in Nat /\ LongestWait \in Nat /\ WaitLeft \in Nat
      BY <1>0, PlacesRange, WaitRange, UdpAssumption
        DEF LongestWait, TypeOK, PlacesCounted, WaitBounded
    <3>2. PlacesToEnd * LongestWait \in Nat
      BY <3>1, Multiples
    <3> QED
      BY <3>1, <3>2 DEF WayOut
  <2> QED
    BY <1>3, <1>4, <2>2, <2>3
<1>5. CASE OutsideStep
  <2>1. Kill
    BY <1>5 DEF OutsideStep, RequestStop, Respawn
  <2>2. pc \notin Exited /\ pc' \in Exited
    BY <2>1 DEF Kill, Exited
  <2>3. PlacesToEnd' = 0
    BY <2>2, PlacesOfNext DEF PlacesOfPc
  <2>4. PlacesToEnd \in 1 .. 9
    <3>1. pc \in Pcs /\ CallsToEnd(xch.kind) \in 1 .. 9
      BY <1>0, CallsCounted DEF TypeOK
    <3> QED
      BY <2>2, <3>1, PlacesOf DEF PlacesOfPc, Pcs
  <2>5. PlacesToEnd' < PlacesToEnd
    BY <2>3, <2>4
  <2> QED
    BY <1>0, <2>5, Nearer
<1> QED
  BY <1>1, <1>2, <1>4, <1>5 DEF Next

(* After a stop the process has at most WayOut steps and timeouts ahead of *)
(* it, for every RETRY_COUNT, every profile and whatever the server and    *)
(* the network do: the measure that StopIsHonoured rests on.  That the     *)
(* thread is scheduled and a quiet line times out is left to TLC.          *)
THEOREM StopsLeadOut == Spec => StopLeadsOut
<1>1. IInv /\ IInv' /\ [Next]_vars =>
         [stop =>
            /\ WayOut' \in 0 .. WayOut
            /\ WayOut' = WayOut => ~ (ClientStep \/ TimeoutStep)]_vars
  BY StepLeadsOut DEF IInv
<1> QED
  BY <1>1, Invariance, PTL DEF Spec, StopLeadsOut

-----------------------------------------------------------------------------
(* The cooldown in the text of a refusal. *)

(* A nonempty set of natural numbers has a least one: the library's theorem *)
(* about minimal elements, which stands in for induction below.             *)
LEMMA LeastNat ==
    ASSUME NEW T \in SUBSET Nat, T # {}
    PROVE  \E m \in T : \A k \in T : m <= k
<1> DEFINE Less == {p \in Nat \X Nat : p[1] < p[2]}
<1>1. IsWellFoundedOn(Less, Nat)
  BY NatLessThanWellFounded, Zenon DEF OpToRel
<1>2. PICK m \in T : \A k \in T : ~ (<<k, m>> \in Less)
  <2> HIDE DEF Less
  <2> QED
    BY <1>1, WFMin
<1>3. \A k \in T : k \in Nat /\ m \in Nat /\ ~ (k < m)
  BY <1>2
<1> HIDE DEF Less
<1> QED
  BY <1>3

(* The recursion of Scan has a solution for every length: there is no least *)
(* one that lacks it.                                                       *)
Found(text, g, n) ==
    g = [i \in 0 .. n |-> IF i = 0 THEN NothingFound ELSE ReadByte(text, g[i - 1], i)]

(* One byte more. *)
LEMMA FoundNext ==
    ASSUME NEW text, NEW n \in Nat, NEW g, Found(text, g, n)
    PROVE  \E h : Found(text, h, n + 1)
<1> DEFINE h == [i \in 0 .. n + 1 |->
                    IF i = n + 1 THEN ReadByte(text, g[n], n + 1) ELSE g[i]]
<1>1. \A i \in 0 .. n : h[i] = g[i]
  OBVIOUS
<1>2. \A i \in 0 .. n : g[i] = IF i = 0 THEN NothingFound ELSE ReadByte(text, g[i - 1], i)
  BY DEF Found
<1>3. ASSUME NEW i \in 0 .. n + 1
      PROVE  h[i] = IF i = 0 THEN NothingFound ELSE ReadByte(text, h[i - 1], i)
  <2>1. CASE i = n + 1
    <3>1. i # 0 /\ i - 1 = n /\ n \in 0 .. n
      BY <2>1
    <3>2. h[i - 1] = g[n] /\ h[i] = ReadByte(text, g[n], n + 1)
      BY <2>1, <3>1
    <3> QED
      BY <2>1, <3>1, <3>2
  <2>2. CASE i \in 1 .. n
    <3>1. i \in 0 .. n /\ i - 1 \in 0 .. n /\ i # 0
      BY <2>2
    <3> HIDE DEF h
    <3> QED
      BY <1>1, <1>2, <3>1
  <2>3. CASE i = 0
    BY <1>1, <1>2, <2>3
  <2> QED
    BY <2>1, <2>2, <2>3
<1>4. h = [i \in 0 .. n + 1 |-> h[i]]
  OBVIOUS
<1> HIDE DEF h
<1>5. h = [i \in 0 .. n + 1 |-> IF i = 0 THEN NothingFound ELSE ReadByte(text, h[i - 1], i)]
  BY <1>3, <1>4
<1> QED
  BY <1>5 DEF Found

(* A text of no bytes. *)
LEMMA FoundFirst == ASSUME NEW text PROVE \E g : Found(text, g, 0)
<1> DEFINE g == [i \in 0 .. 0 |-> NothingFound]
<1>1. g = [i \in 0 .. 0 |-> IF i = 0 THEN NothingFound ELSE ReadByte(text, g[i - 1], i)]
  OBVIOUS
<1> QED
  BY <1>1 DEF Found

(* What Scan chooses is therefore a solution. *)
LEMMA ScanDefined ==
    ASSUME NEW text \in Seq(0 .. 255)
    PROVE  Found(text, Scan(text), Len(text))
<1> DEFINE Unsolved == {n \in Nat : ~ \E g : Found(text, g, n)}
<1>1. Unsolved = {}
  <2> SUFFICES ASSUME Unsolved # {} PROVE FALSE
    OBVIOUS
  <2>1. PICK m \in Unsolved : \A k \in Unsolved : m <= k
    BY LeastNat
  <2>2. CASE m = 0
    BY <2>2, FoundFirst
  <2>3. CASE m # 0
    <3>1. m - 1 \in Nat /\ m - 1 \notin Unsolved /\ (m - 1) + 1 = m
      BY <2>1, <2>3
    <3>2. PICK g : Found(text, g, m - 1)
      BY <3>1
    <3>3. \E h : Found(text, h, (m - 1) + 1)
      BY <3>1, <3>2, FoundNext
    <3> QED
      BY <3>1, <3>3
  <2> QED
    BY <2>2, <2>3
<1>2. Len(text) \in Nat
  OBVIOUS
<1>3. \E g : Found(text, g, Len(text))
  BY <1>1, <1>2
<1> QED
  BY <1>3 DEF Scan, Found

(* The value the loop holds after the digits a .. i of the text: theirs, or *)
(* one that stays out of range whatever digits follow.                      *)
ValueIs(text, a, i, value) ==
    /\ value \in Nat
    /\ IF i - 4 \in Significant(text, <<a, i>>) THEN value >= 10000
       ELSE value = Decimal(text, <<a, i>>)

(* The digits a .. i are the run that ends at byte i. *)
Run(text, a, i) ==
    /\ a \in 1 .. i
    /\ \A k \in a .. i : IsDigit(text[k])
    /\ a > 1 => ~ IsDigit(text[a - 1])

(* Another digit adds no significant one before it. *)
LEMMA SignificantNext ==
    ASSUME NEW text \in Seq(0 .. 255), NEW a \in Nat \ {0}, NEW i \in Nat, a <= i,
           i + 1 <= Len(text), \A k \in a .. i + 1 : IsDigit(text[k])
    PROVE  /\ \A k \in Int : k <= i =>
                 (k \in Significant(text, <<a, i + 1>>) <=> k \in Significant(text, <<a, i>>))
           /\ \A k \in Int : k < i /\ k \in Significant(text, <<a, i>>)
                    => k + 1 \in Significant(text, <<a, i>>)
           /\ \A k \in Significant(text, <<a, i>>) :
                 k - 1 \notin Significant(text, <<a, i>>) => text[k] # 48
           /\ i + 1 \notin Significant(text, <<a, i + 1>>) => text[i + 1] = 48
<1>1. /\ Significant(text, <<a, i>>) = {k \in a .. i : \E j \in a .. k : text[j] # 48}
      /\ Significant(text, <<a, i + 1>>) = {k \in a .. i + 1 : \E j \in a .. k : text[j] # 48}
  BY DEF Significant
<1>2. \A k \in Int : k <= i =>
         (k \in Significant(text, <<a, i + 1>>) <=> k \in Significant(text, <<a, i>>))
  <2>1. \A k \in Int : k <= i => (k \in a .. i + 1 <=> k \in a .. i)
    OBVIOUS
  <2> QED
    BY <1>1, <2>1
<1>3. ASSUME NEW k \in Int, k < i, k \in Significant(text, <<a, i>>)
      PROVE  k + 1 \in Significant(text, <<a, i>>)
  <2>1. PICK j \in a .. k : text[j] # 48
    BY <1>1, <1>3
  <2>2. k \in a .. i /\ k + 1 \in a .. i /\ j \in a .. k + 1
    BY <1>1, <1>3
  <2> QED
    BY <1>1, <2>1, <2>2
<1>4. ASSUME NEW k \in Significant(text, <<a, i>>),
             k - 1 \notin Significant(text, <<a, i>>)
      PROVE  text[k] # 48
  <2>1. PICK j \in a .. k : text[j] # 48
    BY <1>1
  <2>2. k \in a .. i /\ j \in a .. k
    BY <1>1, <2>1
  <2>3. j # k => k - 1 \in a .. i /\ j \in a .. k - 1
    BY <2>1, <2>2
  <2>4. j # k => k - 1 \in Significant(text, <<a, i>>)
    BY <1>1, <2>1, <2>3
  <2>5. j = k
    BY <1>4, <2>4
  <2> QED
    BY <2>1, <2>5
<1>5. i + 1 \notin Significant(text, <<a, i + 1>>) => text[i + 1] = 48
  BY <1>1
<1> QED
  BY <1>2, <1>3, <1>4, <1>5

(* The first digit of a number. *)
LEMMA ValueFirst ==
    ASSUME NEW text \in Seq(0 .. 255), NEW i \in 1 .. Len(text), IsDigit(text[i])
    PROVE  ValueIs(text, i, i, NextValue(0, text[i]))
<1> DEFINE r == <<i, i>>
<1>1. text[i] \in 48 .. 57
  BY DEF IsDigit
<1>2. Significant(text, r) = {k \in i .. i : text[i] # 48}
  BY DEF Significant
<1>3. /\ i - 4 \notin Significant(text, r) /\ i - 3 \notin Significant(text, r)
      /\ i - 2 \notin Significant(text, r) /\ i - 1 \notin Significant(text, r)
      /\ i \in Significant(text, r) <=> text[i] # 48
  BY <1>2
<1>4. Decimal(text, r) = text[i] - 48
  <2>1. r[2] = i
    OBVIOUS
  <2> HIDE DEF r
  <2>2. /\ Digit(text, r, r[2] - 3) = 0 /\ Digit(text, r, r[2] - 2) = 0
        /\ Digit(text, r, r[2] - 1) = 0 /\ r[2] - 4 \notin Significant(text, r)
    BY <1>3, <2>1 DEF Digit
  <2>3. PICK d \in 0 .. 9 : d = text[i] - 48
    BY <1>1
  <2>4. Digit(text, r, r[2]) = d
    BY <1>3, <2>1, <2>3 DEF Digit
  <2>5. Decimal(text, r) = 1000 * 0 + 100 * 0 + 10 * 0 + d
    BY <2>2, <2>4, SMTT(20) DEF Decimal
  <2> QED
    BY <2>3, <2>5
<1>5. NextValue(0, text[i]) = text[i] - 48 /\ text[i] - 48 \in Nat
  BY <1>1 DEF NextValue
<1> QED
  BY <1>3, <1>4, <1>5 DEF ValueIs

(* One digit more. *)
LEMMA ValueNext ==
    ASSUME NEW text \in Seq(0 .. 255), NEW a \in Nat \ {0}, NEW i \in Nat, a <= i,
           i + 1 <= Len(text), Run(text, a, i + 1),
           NEW value, ValueIs(text, a, i, value)
    PROVE  ValueIs(text, a, i + 1, NextValue(value, text[i + 1]))
<1> DEFINE r == <<a, i>>
           q == <<a, i + 1>>
           next == NextValue(value, text[i + 1])
<1>1. PICK d \in 0 .. 9 : d = text[i + 1] - 48
  BY DEF Run, IsDigit
<1>2. /\ value \in Nat /\ next \in Nat
      /\ next = IF value < 100000 THEN value * 10 + d ELSE value
  <2>1. value \in Nat
    BY DEF ValueIs
  <2>2. next = IF value < 100000 THEN value * 10 + d ELSE value
    BY <1>1 DEF NextValue
  <2> HIDE DEF next
  <2> QED
    BY <2>1, <2>2
<1>3. /\ \A k \in Int : k <= i => (k \in Significant(text, q) <=> k \in Significant(text, r))
      /\ \A k \in Int : k < i /\ k \in Significant(text, r) => k + 1 \in Significant(text, r)
      /\ \A k \in Significant(text, r) : k - 1 \notin Significant(text, r) => text[k] # 48
      /\ i + 1 \notin Significant(text, q) => text[i + 1] = 48
  BY SignificantNext DEF Run
<1>4. Significant(text, r) \subseteq a .. i
  BY DEF Significant
<1>5. \A k \in Significant(text, r) : text[k] \in 48 .. 57
  BY <1>4 DEF Run, IsDigit
<1>6. ASSUME NEW k PROVE Digit(text, r, k) \in 0 .. 9
  <2> HIDE DEF r
  <2>1. CASE k \in Significant(text, r)
    BY <1>5, <2>1 DEF Digit
  <2>2. CASE k \notin Significant(text, r)
    BY <2>2 DEF Digit
  <2> QED
    BY <2>1, <2>2
<1>7. PICK x3 \in 0 .. 9, x2 \in 0 .. 9, x1 \in 0 .. 9, x0 \in 0 .. 9 :
         /\ Digit(text, r, i - 3) = x3 /\ Digit(text, r, i - 2) = x2
         /\ Digit(text, r, i - 1) = x1 /\ Digit(text, r, i) = x0
  BY <1>6, Zenon
<1>8. i - 4 \notin Significant(text, r) => value = 1000 * x3 + 100 * x2 + 10 * x1 + x0
  <2>1. r[1] = a /\ r[2] = i
    OBVIOUS
  <2> HIDE DEF r
  <2>2. i - 4 \notin Significant(text, r) => value = Decimal(text, r)
    BY <2>1 DEF ValueIs, r
  <2>3. i - 4 \notin Significant(text, r) =>
           Decimal(text, r) = 1000 * x3 + 100 * x2 + 10 * x1 + x0
    <3> SUFFICES ASSUME i - 4 \notin Significant(text, r)
                 PROVE  Decimal(text, r) = 1000 * x3 + 100 * x2 + 10 * x1 + x0
      OBVIOUS
    <3>1. /\ Digit(text, r, r[2] - 3) = x3 /\ Digit(text, r, r[2] - 2) = x2
          /\ Digit(text, r, r[2] - 1) = x1 /\ Digit(text, r, r[2]) = x0
          /\ r[2] - 4 \notin Significant(text, r)
      BY <1>7, <2>1
    <3> QED
      BY <3>1, SMTT(20) DEF Decimal
  <2> QED
    BY <2>2, <2>3
<1>9. /\ q[2] = i + 1 /\ i - 4 \in Int /\ i - 3 \in Int /\ i - 2 \in Int /\ i - 1 \in Int
      /\ i \in Int /\ (i + 1) - 4 = i - 3 /\ (i + 1) - 3 = i - 2 /\ (i + 1) - 2 = i - 1
      /\ (i + 1) - 1 = i /\ (i - 4) + 1 = i - 3 /\ (i - 3) - 1 = i - 4
      /\ i - 4 < i /\ i - 3 <= i /\ i - 2 <= i /\ i - 1 <= i /\ i <= i
  OBVIOUS
<1>10. ValueIs(text, a, i + 1, next) <=>
          /\ next \in Nat
          /\ IF i - 3 \in Significant(text, q) THEN next >= 10000
             ELSE next = Decimal(text, q)
  BY <1>9 DEF ValueIs
<1>11. i - 4 \in Significant(text, r) => value >= 10000
  BY DEF ValueIs
<1> SUFFICES ValueIs(text, a, i + 1, next)
  OBVIOUS
<1> HIDE DEF r, q, next
<1>12. i - 3 \in Significant(text, q) <=> i - 3 \in Significant(text, r)
  BY <1>3, <1>9
<1>13. CASE i - 4 \in Significant(text, r)
  <2>1. i - 3 \in Significant(text, q)
    BY <1>3, <1>9, <1>12, <1>13
  <2>2. next >= 10000
    BY <1>2, <1>11, <1>13
  <2> QED
    BY <1>2, <1>10, <2>1, <2>2
<1>14. CASE i - 4 \notin Significant(text, r) /\ i - 3 \in Significant(text, r)
  <2>1. text[i - 3] \in 49 .. 57
    BY <1>3, <1>5, <1>9, <1>14
  <2>2. x3 >= 1
    <3>1. x3 = text[i - 3] - 48
      BY <1>7, <1>12, <1>14 DEF Digit
    <3>2. PICK b \in 49 .. 57 : b = text[i - 3]
      BY <2>1
    <3>3. x3 = b - 48
      BY <3>1, <3>2
    <3> QED
      BY <3>3
  <2>3. value >= 1000 /\ value < 100000
    BY <1>8, <1>14, <2>2
  <2>4. next >= 10000
    BY <1>2, <2>3
  <2> QED
    BY <1>2, <1>10, <1>12, <1>14, <2>4
<1>15. CASE i - 4 \notin Significant(text, r) /\ i - 3 \notin Significant(text, r)
  <2>1. x3 = 0
    BY <1>7, <1>15 DEF Digit
  <2>2. /\ Digit(text, q, i - 2) = x2 /\ Digit(text, q, i - 1) = x1
        /\ Digit(text, q, i) = x0
    BY <1>3, <1>7, <1>9 DEF Digit
  <2>3. Digit(text, q, i + 1) = d
    BY <1>1, <1>3 DEF Digit
  <2>4. Decimal(text, q) = 1000 * x2 + 100 * x1 + 10 * x0 + d
    <3>1. PICK n \in Nat : n = i + 1
      OBVIOUS
    <3>2. /\ n - 4 = i - 3 /\ n - 3 = i - 2 /\ n - 2 = i - 1 /\ n - 1 = i /\ q[2] = n
      BY <1>9, <3>1
    <3>3. /\ Digit(text, q, q[2] - 3) = x2 /\ Digit(text, q, q[2] - 2) = x1
          /\ Digit(text, q, q[2] - 1) = x0 /\ Digit(text, q, q[2]) = d
          /\ q[2] - 4 \notin Significant(text, q)
      BY <1>12, <1>15, <2>2, <2>3, <3>1, <3>2
    <3> QED
      BY <3>3, SMTT(20) DEF Decimal
  <2>5. value = 100 * x2 + 10 * x1 + x0 /\ value < 100000
    BY <1>8, <1>15, <2>1
  <2>6. next = value * 10 + d
    BY <1>2, <2>5
  <2>7. next = Decimal(text, q)
    BY <2>4, <2>5, <2>6
  <2> QED
    BY <1>2, <1>10, <1>12, <1>15, <2>7
<1> QED
  BY <1>13, <1>14, <1>15

(* What the loop knows after byte i, unless it has been left: no number     *)
(* with a unit ends before i, and the value is that of the run it is in.    *)
Reading(text, i, s) ==
    /\ s.result = 0
    /\ \A k \in 1 .. i : text[k] # NUL
    /\ \A r \in Numbers(text) : r[2] >= i
    /\ s.digits => \E a \in Nat : Run(text, a, i) /\ ValueIs(text, a, i, s.value)
    /\ ~ s.digits => s.value = 0 /\ (i > 0 => ~ IsDigit(text[i]))

ScanStates == [value : Nat, digits : BOOLEAN, over : BOOLEAN, result : 0 .. LongestCooldown]

(* The loop invariant. *)
ScanInv(text, i, s) ==
    /\ s \in ScanStates
    /\ s.over => s.result = Cooldown(text)
    /\ ~ s.over => Reading(text, i, s)

(* Numbers, read as facts about their first and last digit. *)
LEMMA NumbersAre ==
    ASSUME NEW text \in Seq(0 .. 255), NEW r \in Numbers(text)
    PROVE  /\ r = <<r[1], r[2]>>
           /\ r[1] \in 1 .. Len(text) /\ r[2] \in 1 .. Len(text) /\ r[2] + 1 \in 1 .. Len(text)
           /\ r[1] <= r[2] /\ \A k \in r[1] .. r[2] : IsDigit(text[k])
           /\ r[1] > 1 => ~ IsDigit(text[r[1] - 1])
           /\ \A k \in 1 .. r[2] + 1 : text[k] # NUL
           /\ ~ IsDigit(text[r[2] + 1]) /\ SecondsFollow(text, r[2] + 1)
  BY DEF Numbers, Readable

(* Five digits are out of range, whatever they are. *)
LEMMA OutOfRange ==
    /\ \A v \in Nat : v >= 10000 => InRange(v) = 0
    /\ InRange(LongestCooldown + 1) = 0
  BY DEF InRange, LongestCooldown

(* The number that ends the scan is the first one. *)
LEMMA FirstNumber ==
    ASSUME NEW text \in Seq(0 .. 255), NEW i \in Nat, i + 1 <= Len(text),
           NEW a \in Nat, Run(text, a, i),
           \A k \in 1 .. i + 1 : text[k] # NUL, ~ IsDigit(text[i + 1]),
           SecondsFollow(text, i + 1),
           \A r \in Numbers(text) : r[2] >= i,
           NEW value, ValueIs(text, a, i, value)
    PROVE  InRange(value) = Cooldown(text)
<1> DEFINE n == <<a, i>>
<1>1. a \in 1 .. i /\ i \in 1 .. Len(text) /\ a \in 1 .. Len(text)
  BY DEF Run
<1>2. a \in Readable(text) /\ i \in Readable(text) /\ i + 1 \in Readable(text)
  BY <1>1 DEF Readable
<1>3. n \in Numbers(text)
  BY <1>1, <1>2 DEF Run, Numbers
<1>4. ASSUME NEW r \in Numbers(text) PROVE a <= r[1] /\ (r[1] = a => r = n)
  <2>1. /\ r = <<r[1], r[2]>> /\ r[1] \in Nat /\ r[2] \in Nat /\ r[1] <= r[2] /\ i <= r[2]
        /\ \A k \in r[1] .. r[2] : IsDigit(text[k])
    BY NumbersAre
  <2>2. a <= r[1]
    <3> SUFFICES ASSUME r[1] < a PROVE FALSE
      BY <1>1, <2>1
    <3>1. a > 1 /\ a - 1 \in r[1] .. r[2]
      BY <1>1, <2>1, NumbersAre
    <3> QED
      BY <2>1, <3>1 DEF Run
  <2>3. r[1] = a => r[2] = i
    <3> SUFFICES ASSUME r[1] = a, r[2] # i PROVE FALSE
      OBVIOUS
    <3>1. i + 1 \in r[1] .. r[2]
      BY <1>1, <2>1
    <3> QED
      BY <2>1, <3>1
  <2> QED
    BY <2>1, <2>2, <2>3
<1>5. n[1] = a
  OBVIOUS
<1> DEFINE first == CHOOSE r \in Numbers(text) : \A q \in Numbers(text) : r[1] <= q[1]
<1> HIDE DEF n
<1>6. first = n
  <2>1. first \in Numbers(text) /\ \A q \in Numbers(text) : first[1] <= q[1]
    BY <1>3, <1>4, <1>5
  <2> HIDE DEF first
  <2>2. first[1] <= a
    BY <1>3, <1>5, <2>1
  <2>3. a <= first[1]
    BY <1>4, <2>1
  <2>4. first[1] \in 1 .. Len(text)
    BY <2>1, NumbersAre
  <2>5. first[1] = a
    BY <2>2, <2>3, <2>4
  <2> QED
    BY <1>4, <2>1, <2>5
<1>7. Cooldown(text) = InRange(Decimal(text, n))
  BY <1>3, <1>6 DEF Cooldown
<1>8. InRange(value) = InRange(Decimal(text, n))
  <2>1. CASE i - 4 \in Significant(text, n)
    <3>1. value \in Nat /\ value >= 10000
      BY <2>1 DEF ValueIs, n
    <3>2. n[2] = i
      BY DEF n
    <3>3. Decimal(text, n) = LongestCooldown + 1
      BY <2>1, <3>2 DEF Decimal
    <3> QED
      BY <3>1, <3>3, OutOfRange
  <2>2. CASE i - 4 \notin Significant(text, n)
    BY <2>2 DEF ValueIs, n
  <2> QED
    BY <2>1, <2>2
<1> QED
  BY <1>7, <1>8

(* A text without one. *)
LEMMA NoNumber ==
    ASSUME NEW text, Numbers(text) = {}
    PROVE  Cooldown(text) = 0
  BY DEF Cooldown

(* One turn of the loop keeps the invariant. *)
LEMMA ReadByteStep ==
    ASSUME NEW text \in Seq(0 .. 255), NEW i \in Nat, i + 1 <= Len(text),
           NEW s, ScanInv(text, i, s)
    PROVE  ScanInv(text, i + 1, ReadByte(text, s, i + 1))
<1> DEFINE byte == text[i + 1]
           t == ReadByte(text, s, i + 1)
<1>0. /\ s \in ScanStates /\ s.value \in Nat /\ s.digits \in BOOLEAN /\ s.over \in BOOLEAN
      /\ s.result \in 0 .. LongestCooldown
  BY DEF ScanInv, ScanStates
<1>1. CASE s.over
  BY <1>1 DEF ScanInv, ReadByte
<1>2. CASE ~ s.over /\ byte = NUL
  <2>0. byte = 0 /\ ~ IsDigit(byte)
    BY <1>2 DEF NUL, IsDigit
  <2>1. t = [s EXCEPT !.over = TRUE]
    BY <1>2, <2>0 DEF ReadByte
  <2>2. t \in ScanStates /\ t.over /\ t.result = s.result
    BY <1>0, <2>1 DEF ScanStates
  <2>3. Reading(text, i, s)
    BY <1>2 DEF ScanInv
  <2>4. Numbers(text) = {}
    <3> SUFFICES ASSUME NEW r \in Numbers(text) PROVE FALSE
      OBVIOUS
    <3>1. r[2] \in Nat /\ r[2] >= i /\ \A k \in 1 .. r[2] + 1 : text[k] # NUL
      BY <2>3, NumbersAre DEF Reading
    <3>2. i + 1 \in 1 .. r[2] + 1
      BY <3>1
    <3> QED
      BY <1>2, <3>1, <3>2
  <2>5. t.result = Cooldown(text)
    BY <2>2, <2>3, <2>4, NoNumber DEF Reading
  <2> HIDE DEF t
  <2> QED
    BY <2>2, <2>5 DEF ScanInv, t
<1>3. CASE ~ s.over /\ IsDigit(byte)
  <2>1. byte \in 48 .. 57 /\ byte # NUL
    BY <1>3 DEF IsDigit, NUL
  <2>2. t = [s EXCEPT !.value = NextValue(s.value, byte), !.digits = TRUE]
    BY <1>3, <2>1 DEF ReadByte
  <2>3. NextValue(s.value, byte) \in Nat
    <3>1. PICK v \in Nat : s.value = v
      BY <1>0
    <3>2. PICK d \in 0 .. 9 : d = byte - 48
      BY <2>1
    <3>3. NextValue(v, byte) = IF v < 100000 THEN v * 10 + d ELSE v
      BY <3>2 DEF NextValue
    <3>4. NextValue(v, byte) \in Nat
      BY <3>3
    <3> QED
      BY <3>1, <3>4
  <2>4. /\ t \in ScanStates /\ ~ t.over /\ t.digits /\ t.result = s.result
        /\ t.value = NextValue(s.value, byte)
    <3>1. PICK v \in Nat : v = NextValue(s.value, byte)
      BY <2>3
    <3> HIDE DEF t, byte
    <3>2. t = [s EXCEPT !.value = v, !.digits = TRUE]
      BY <2>2, <3>1
    <3>3. /\ t \in ScanStates /\ t.over = s.over /\ t.digits
          /\ t.result = s.result /\ t.value = v
      BY <1>0, <3>2 DEF ScanStates
    <3> QED
      BY <1>3, <3>1, <3>3
  <2>5. Reading(text, i, s)
    BY <1>3 DEF ScanInv
  <2> HIDE DEF t
  <2>6. \A r \in Numbers(text) : r[2] >= i + 1
    <3> SUFFICES ASSUME NEW r \in Numbers(text), r[2] < i + 1 PROVE FALSE
      BY NumbersAre
    <3>1. r[2] \in Nat /\ r[2] >= i /\ ~ IsDigit(text[r[2] + 1])
      BY <2>5, NumbersAre DEF Reading
    <3>2. r[2] = i
      BY <3>1
    <3> QED
      BY <1>3, <3>1, <3>2
  <2>7. \E a \in Nat : Run(text, a, i + 1) /\ ValueIs(text, a, i + 1, t.value)
    <3>1. CASE s.digits
      <4>1. PICK a \in Nat : Run(text, a, i) /\ ValueIs(text, a, i, s.value)
        BY <2>5, <3>1 DEF Reading
      <4>2. Run(text, a, i + 1)
        BY <1>3, <4>1 DEF Run
      <4>3. a # 0 /\ a <= i
        BY <4>1 DEF Run
      <4>4. ValueIs(text, a, i + 1, NextValue(s.value, text[i + 1]))
        BY <4>1, <4>2, <4>3, ValueNext
      <4> QED
        BY <2>4, <4>2, <4>4
    <3>2. CASE ~ s.digits
      <4>1. s.value = 0 /\ (i > 0 => ~ IsDigit(text[i]))
        BY <2>5, <3>2 DEF Reading
      <4>2. Run(text, i + 1, i + 1)
        BY <1>3, <4>1 DEF Run
      <4>3. i + 1 \in 1 .. Len(text)
        OBVIOUS
      <4>4. ValueIs(text, i + 1, i + 1, NextValue(0, text[i + 1]))
        BY <1>3, <4>3, ValueFirst
      <4> QED
        BY <2>4, <4>1, <4>2, <4>4
    <3> QED
      BY <3>1, <3>2
  <2>8. \A k \in 1 .. i + 1 : text[k] # NUL
    BY <2>1, <2>5 DEF Reading
  <2>9. t.result = 0
    BY <2>4, <2>5 DEF Reading
  <2>10. Reading(text, i + 1, t)
    BY <2>4, <2>6, <2>7, <2>8, <2>9 DEF Reading
  <2> QED
    BY <2>4, <2>10 DEF ScanInv, t
<1>4. CASE ~ s.over /\ ~ IsDigit(byte) /\ byte # NUL
  <2>1. Reading(text, i, s)
    BY <1>4 DEF ScanInv
  <2>2. \A k \in 1 .. i + 1 : text[k] # NUL
    BY <1>4, <2>1 DEF Reading
  <2>3. CASE s.digits /\ SecondsFollow(text, i + 1)
    <3>1. t = [s EXCEPT !.over = TRUE, !.result = InRange(s.value)]
      BY <1>4, <2>3 DEF ReadByte
    <3>2. PICK w \in 0 .. LongestCooldown : w = InRange(s.value)
      <4>1. PICK v \in Nat : v = s.value
        BY <1>0
      <4>2. InRange(v) \in 0 .. LongestCooldown
        BY DEF InRange, LongestCooldown
      <4> QED
        BY <4>1, <4>2
    <3> HIDE DEF t, byte
    <3>3. t \in ScanStates /\ t.over /\ t.result = InRange(s.value)
      <4>1. t = [s EXCEPT !.over = TRUE, !.result = w]
        BY <3>1, <3>2
      <4>2. t \in ScanStates /\ t.over = TRUE /\ t.result = w
        BY <1>0, <4>1 DEF ScanStates
      <4> QED
        BY <3>2, <4>2
    <3>4. PICK a \in Nat : Run(text, a, i) /\ ValueIs(text, a, i, s.value)
      BY <2>1, <2>3 DEF Reading
    <3>5. \A r \in Numbers(text) : r[2] >= i
      BY <2>1 DEF Reading
    <3>6. InRange(s.value) = Cooldown(text)
      BY <1>4, <2>2, <2>3, <3>4, <3>5, FirstNumber DEF byte
    <3> QED
      BY <3>3, <3>6 DEF ScanInv, t
  <2>4. CASE ~ (s.digits /\ SecondsFollow(text, i + 1))
    <3>1. t = [s EXCEPT !.value = 0, !.digits = FALSE]
      BY <1>4, <2>4 DEF ReadByte
    <3> HIDE DEF t
    <3>2. t \in ScanStates /\ ~ t.over /\ ~ t.digits /\ t.value = 0 /\ t.result = s.result
      <4>1. t \in ScanStates
        BY <1>0, <3>1 DEF ScanStates
      <4>2. t.over = s.over /\ t.digits = FALSE /\ t.value = 0 /\ t.result = s.result
        BY <1>0, <3>1 DEF ScanStates
      <4> QED
        BY <1>4, <4>1, <4>2
    <3>3. \A r \in Numbers(text) : r[2] >= i + 1
      <4> SUFFICES ASSUME NEW r \in Numbers(text), r[2] < i + 1 PROVE FALSE
        BY NumbersAre
      <4>1. /\ r[2] \in 1 .. Len(text) /\ r[2] >= i /\ SecondsFollow(text, r[2] + 1)
            /\ r[1] <= r[2] /\ r[1] \in Nat /\ \A k \in r[1] .. r[2] : IsDigit(text[k])
        BY <2>1, NumbersAre DEF Reading
      <4>2. r[2] = i /\ i > 0 /\ r[2] \in r[1] .. r[2]
        BY <4>1
      <4>3. ~ s.digits /\ IsDigit(text[i])
        BY <2>4, <4>1, <4>2
      <4> QED
        BY <2>1, <4>2, <4>3 DEF Reading
    <3>4. i + 1 > 0 => ~ IsDigit(text[i + 1])
      BY <1>4
    <3>5. Reading(text, i + 1, t)
      BY <2>1, <2>2, <3>2, <3>3, <3>4 DEF Reading
    <3> QED
      BY <3>2, <3>5 DEF ScanInv, t
  <2> QED
    BY <2>3, <2>4
<1> QED
  BY <1>0, <1>1, <1>2, <1>3, <1>4

(* So it holds after every byte: none is the first to break it. *)
LEMMA ScanKeepsInv ==
    ASSUME NEW text \in Seq(0 .. 255)
    PROVE  \A i \in 0 .. Len(text) : ScanInv(text, i, Scan(text)[i])
<1> DEFINE g == Scan(text)
           Broken == {i \in Nat : i <= Len(text) /\ ~ ScanInv(text, i, g[i])}
<1>1. Len(text) \in Nat
  OBVIOUS
<1>2. /\ g[0] = NothingFound
      /\ \A i \in 1 .. Len(text) : g[i] = ReadByte(text, g[i - 1], i)
  <2>1. Found(text, g, Len(text))
    BY ScanDefined
  <2> HIDE DEF g
  <2>2. \A i \in 0 .. Len(text) :
           g[i] = IF i = 0 THEN NothingFound ELSE ReadByte(text, g[i - 1], i)
    BY <2>1 DEF Found
  <2> QED
    BY <1>1, <2>2
<1>3. ScanInv(text, 0, g[0])
  <2>1. NothingFound \in ScanStates
    BY DEF NothingFound, ScanStates, LongestCooldown
  <2>2. \A r \in Numbers(text) : r[2] >= 0
    BY NumbersAre
  <2> HIDE DEF g
  <2> QED
    BY <1>2, <2>1, <2>2 DEF ScanInv, Reading, NothingFound
<1> HIDE DEF g
<1>4. Broken = {}
  <2> SUFFICES ASSUME Broken # {} PROVE FALSE
    OBVIOUS
  <2>1. PICK m \in Broken : \A k \in Broken : m <= k
    BY LeastNat
  <2>2. m # 0 /\ m \in 1 .. Len(text) /\ m - 1 \in Nat /\ m - 1 \notin Broken
    BY <1>1, <1>3, <2>1
  <2>3. ScanInv(text, m - 1, g[m - 1]) /\ (m - 1) + 1 = m /\ (m - 1) + 1 <= Len(text)
    BY <1>1, <2>2
  <2>4. ScanInv(text, (m - 1) + 1, ReadByte(text, g[m - 1], (m - 1) + 1))
    BY <2>2, <2>3, ReadByteStep
  <2> QED
    BY <1>2, <2>2, <2>3, <2>4
<1> QED
  BY <1>1, <1>4 DEF g

(* extract_retry_after_seconds finds the cooldown in every text, of any     *)
(* length: the number of the first digits that have a unit behind them, and *)
(* 0 where there is none or it is longer than half an hour; the value that  *)
(* stops growing to keep out of an overflow changes no answer.              *)
THEOREM ReadsCooldowns ==
    \A text \in Seq(0 .. 255) : RetryAfterSeconds(text) = Cooldown(text)
<1> SUFFICES ASSUME NEW text \in Seq(0 .. 255)
             PROVE  RetryAfterSeconds(text) = Cooldown(text)
  OBVIOUS
<1> DEFINE s == Scan(text)[Len(text)]
<1>1. ScanInv(text, Len(text), s) /\ Len(text) \in Nat
  BY ScanKeepsInv
<1> HIDE DEF s
<1>2. CASE s.over
  BY <1>1, <1>2 DEF ScanInv, RetryAfterSeconds, s
<1>3. CASE ~ s.over
  <2>1. s.result = 0 /\ \A r \in Numbers(text) : r[2] >= Len(text)
    BY <1>1, <1>3 DEF ScanInv, Reading
  <2>2. Numbers(text) = {}
    BY <1>1, <2>1, NumbersAre
  <2> QED
    BY <2>1, <2>2, NoNumber DEF RetryAfterSeconds, s
<1> QED
  BY <1>2, <1>3

(* Whatever the refusals of the server say. *)
THEOREM CooldownsAreRead == Spec => []CooldownIsRead
<1>1. CooldownIsRead
  BY ReadsCooldowns DEF CooldownIsRead
<1>2. CooldownIsRead'
  BY ReadsCooldowns DEF CooldownIsRead
<1>3. Init => CooldownIsRead
  BY <1>1
<1>4. CooldownIsRead /\ [Next]_vars => CooldownIsRead'
  BY <1>2
<1> QED
  BY <1>3, <1>4, PTL DEF Spec
=============================================================================
