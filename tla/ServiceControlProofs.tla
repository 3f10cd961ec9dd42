------------------------ MODULE ServiceControlProofs ------------------------
(***************************************************************************)
(* For any lengths of the waits, of procd's delays and of the script's     *)
(* loop: TypeOK, StopIsTimely, BindsSucceed, StateFileIsTrue and           *)
(* KillsOnlyTheWarned.  The client's part comes first: the types of        *)
(* TimedSession, and how long a stop may take, which needs to know at      *)
(* every moment how long the way out still is: what is left of the call,   *)
(* the packets it has yet to send, and the calls that follow it once the   *)
(* stop is raised.  ServiceInv then says how script, procd and client keep *)
(* out of each other's way.  Two more invariants, each with a budget of    *)
(* its own, give LeftBehindHasCause (SessionInv) and KillHasCause          *)
(* (GraceInv).                                                             *)
(***************************************************************************)
EXTENDS ServiceControl, TLAPS

(* What is left of the call the thread is in. *)
InCall ==
    IF call \in Resent THEN left + (RetryCount + 1 - sends) * WaitSeconds ELSE left

(* What follows it before the process has ended. *)
Afterwards ==
    CASE call = "logoutChallenge" -> Exchange
      [] call \in {"nap", "notice"} -> 2 * Exchange
      [] call = "login" -> WaitSeconds + 2 * Exchange
      [] call = "challenge" -> 2 * WaitSeconds + 2 * Exchange
      [] call = "keepalive" -> (togo - 1) * Exchange + NapSeconds + 2 * Exchange
      [] OTHER -> 0

Allowance ==
    IF call \in {"backoff", "delay"} THEN Duration(call) ELSE LongestWayOut

RoundInv ==
    /\ call = "keepalive" => togo >= 1
    /\ call \in {"keepalive", "nap", "notice"} => failures < FailureThreshold

StopInv ==
    /\ ~ stop => elapsed = 0
    /\ stop /\ Alive =>
        elapsed + InCall + Afterwards <= Allowance + WaitSeconds * strays

ClientInv == ClientTypeOK /\ RoundInv /\ StopInv

-----------------------------------------------------------------------------
(* Arithmetic. *)

LEMMA Times ==
    ASSUME NEW k \in Nat, NEW w \in Nat
    PROVE  k * w \in Nat /\ (k + 1) * w = k * w + w
OBVIOUS

LEMMA TimesMonotonic ==
    ASSUME NEW w \in Nat, NEW j \in Nat, NEW k \in Nat, j <= k
    PROVE  j * w <= k * w
<1>1. k = j + (k - j) /\ k - j \in Nat
  OBVIOUS
<1>2. k * w = j * w + (k - j) * w
  BY <1>1
<1>3. (k - j) * w \in Nat
  BY <1>1
<1> QED
  BY <1>2, <1>3

LEMMA Slack ==
    ASSUME NEW e \in Int, NEW i \in Int, NEW a \in Int, NEW l \in Int, NEW w \in Int,
           NEW i2 \in Int, NEW a2 \in Int, NEW l2 \in Int,
           i2 + a2 <= i + a, l <= l2, e + i + a <= l + w
    PROVE  e + i2 + a2 <= l2 + w
OBVIOUS

LEMMA OneLess ==
    ASSUME NEW e \in Int, NEW i \in Int, NEW a \in Int, NEW l \in Int, NEW w \in Int,
           e + i + a <= l + w
    PROVE  (e + 1) + (i + (-1)) + a <= l + w
OBVIOUS

LEMMA NoMore ==
    ASSUME NEW e \in Int, NEW i \in Int, NEW a \in Int, NEW l \in Int, NEW w \in Int,
           NEW d \in Int, d <= 0, e + i + a <= l + w
    PROVE  e + (i + d) + a <= l + w
OBVIOUS

LEMMA Constants ==
    /\ WaitSeconds \in Nat \ {0} /\ NapSeconds \in Nat /\ BackoffSeconds \in Nat
    /\ StartupSeconds \in Nat /\ RetryCount \in Nat /\ MaxRound \in Nat
    /\ FailureThreshold \in Nat \ {0} /\ FaultCap \in Nat /\ MaxStrays \in Nat
    /\ MaxRound >= 3
    /\ RoundLengths \subseteq 3 .. MaxRound
<1>1. PICK n \in RoundLengths : n \in 3 .. MaxRound
  BY TimedAssumption
<1>2. MaxRound \in Nat
  BY TimedAssumption
<1>3. MaxRound >= 3
  BY <1>1, <1>2
<1> QED
  BY <1>3, TimedAssumption

LEMMA WayOut ==
    /\ Exchange \in Nat /\ Exchange >= WaitSeconds
    /\ Exchange = RetryCount * WaitSeconds + WaitSeconds
    /\ LongestWayOut \in Nat
    /\ LongestWayOut = MaxRound * Exchange + NapSeconds + 2 * Exchange
    /\ LongestWayOut >= 5 * Exchange + NapSeconds
<1>1. /\ Exchange \in Nat /\ RetryCount * WaitSeconds \in Nat
      /\ Exchange = RetryCount * WaitSeconds + WaitSeconds
  BY Constants, Times DEF Exchange
<1>2. MaxRound * Exchange \in Nat /\ 3 * Exchange <= MaxRound * Exchange
  BY <1>1, Constants, Times, TimesMonotonic
<1> QED
  BY <1>1, <1>2, Constants DEF LongestWayOut

LEMMA CallNames ==
    /\ Resent \subseteq Waits /\ Waits \cap Sleeps = {}
    /\ (Waits \cup Sleeps) \cap Ended = {}
    /\ Waits = {"challenge", "keepalive", "logoutChallenge", "logout", "login", "notice"}
    /\ \A c \in Waits : Duration(c) = WaitSeconds
    /\ \A c \in Waits \cup Sleeps \cup Ended : Duration(c) \in Nat
BY Constants DEF Resent, Waits, Sleeps, Ended, Duration

-----------------------------------------------------------------------------
(* Where a step enters another call. *)

LEMMA Entered ==
    ASSUME NEW c \in Waits \cup Sleeps \cup Ended, Enter(c)
    PROVE  /\ call' = c /\ left' = Duration(c) /\ left' \in 0 .. Duration(c)
           /\ sends' = 1 /\ sends' \in 1 .. RetryCount + 1
           /\ InCall' = IF c \in Resent THEN Exchange ELSE Duration(c)
<1>1. call' = c /\ left' = Duration(c) /\ sends' = 1
  BY DEF Enter
<1>2. Duration(c) \in Nat /\ (c \in Resent => Duration(c) = WaitSeconds)
  BY CallNames
<1>3. InCall' = IF c \in Resent THEN Duration(c) + RetryCount * WaitSeconds
                ELSE Duration(c)
  BY <1>1, Constants DEF InCall
<1> QED
  BY <1>1, <1>2, <1>3, Constants, WayOut

(* The head of the keepalive loop: a stop leads to the logout. *)
LEMMA TopEffect ==
    ASSUME ClientTypeOK, Top
    PROVE  /\ call' = IF stop THEN "logoutChallenge" ELSE "keepalive"
           /\ left' \in 0 .. WaitSeconds
           /\ sends' \in 1 .. RetryCount + 1
           /\ togo' \in 0 .. MaxRound
           /\ call' = "keepalive" => togo' >= 1
           /\ stop => InCall' + Afterwards' = 2 * Exchange
<1>1. CASE stop
  <2>1. Enter("logoutChallenge") /\ togo' = togo
    BY <1>1 DEF Top, BeginLogout
  <2>2. "logoutChallenge" \in Waits \cap Resent
    BY DEF Waits, Resent
  <2>3. call' = "logoutChallenge" /\ InCall' = Exchange
    BY <2>1, <2>2, Entered, Zenon
  <2>4. Afterwards' = Exchange
    BY <2>3 DEF Afterwards
  <2> QED
    BY <1>1, <2>1, <2>2, <2>3, <2>4, Entered, CallNames, WayOut DEF ClientTypeOK
<1>2. CASE ~ stop
  <2>1. Enter("keepalive") /\ togo' \in 3 .. MaxRound
    BY <1>2, Constants DEF Top, BeginRound
  <2>2. "keepalive" \in Waits \cap Resent
    BY DEF Waits, Resent
  <2> QED
    BY <1>2, <2>1, <2>2, Entered, CallNames, Constants
<1> QED
  BY <1>1, <1>2

LEMMA LeaveEffect ==
    ASSUME NEW c \in Waits \cup Sleeps \cup Ended, LeaveOr(c)
    PROVE  /\ call' = IF stop THEN "gone" ELSE c
           /\ left' \in 0 .. Duration(call')
           /\ sends' \in 1 .. RetryCount + 1
           /\ togo' = togo /\ failures' = failures
<1> DEFINE d == IF stop THEN "gone" ELSE c
<1>1. d \in Waits \cup Sleeps \cup Ended /\ Enter(d)
  BY DEF LeaveOr, Ended
<1>2. togo' = togo /\ failures' = failures
  BY DEF LeaveOr
<1> HIDE DEF d
<1>3. call' = d /\ left' \in 0 .. Duration(d) /\ sends' \in 1 .. RetryCount + 1
  BY <1>1, Entered
<1> QED
  BY <1>2, <1>3 DEF d

(* The effects of a step on where the thread is, whatever the stop. *)
MovedWell ==
    /\ call' \in Waits \cup Sleeps \cup Ended
    /\ left' \in 0 .. Duration(call')
    /\ sends' \in 1 .. RetryCount + 1
    /\ togo' \in 0 .. MaxRound
    /\ failures' \in 0 .. FailureThreshold
    /\ RoundInv'

LEMMA TopMoves ==
    ASSUME ClientTypeOK, Top, failures' \in 0 .. FailureThreshold,
           ~ stop => failures' < FailureThreshold
    PROVE  MovedWell
<1>1. call' \in {"logoutChallenge", "keepalive"}
  BY TopEffect
<1>2. call' \in Waits /\ Duration(call') = WaitSeconds
  BY <1>1, CallNames
<1>3. RoundInv'
  BY <1>1, TopEffect DEF RoundInv
<1> QED
  BY <1>2, <1>3, TopEffect DEF MovedWell

LEMMA LeaveMoves ==
    ASSUME ClientTypeOK, NEW c \in Waits \cup Sleeps \cup Ended, LeaveOr(c),
           c \notin {"keepalive", "nap", "notice"}
    PROVE  MovedWell
<1>1. call' \in Waits \cup Sleeps \cup Ended
  BY LeaveEffect DEF Ended
<1>2. call' \notin {"keepalive", "nap", "notice"}
  BY LeaveEffect
<1>3. RoundInv'
  BY <1>2 DEF RoundInv
<1> QED
  BY <1>1, <1>3, LeaveEffect DEF MovedWell, ClientTypeOK

LEMMA FailedMoves ==
    ASSUME ClientTypeOK, RoundInv, Failed
    PROVE  /\ MovedWell
           /\ stop => \/ call' = "gone"
                      \/ /\ call \in {"keepalive", "notice"}
                         /\ call' = "logoutChallenge"
                         /\ InCall' + Afterwards' = 2 * Exchange
<1>1. CASE call \in {"challenge", "login"}
  <2>1. LeaveOr("backoff")
    BY <1>1 DEF Failed
  <2>2. "backoff" \in Waits \cup Sleeps \cup Ended
    BY DEF Sleeps
  <2> QED
    BY <2>1, <2>2, LeaveEffect, LeaveMoves
<1>2. CASE call \in {"logoutChallenge", "logout"}
  <2>1. LeaveOr("gone")
    BY <1>2 DEF Failed
  <2>2. "gone" \in Waits \cup Sleeps \cup Ended
    BY DEF Ended
  <2> QED
    BY <2>1, <2>2, LeaveEffect, LeaveMoves
<1>3. CASE call = "notice"
  <2>1. Top /\ failures' = failures
    BY <1>3 DEF Failed
  <2>2. failures' \in 0 .. FailureThreshold /\ failures' < FailureThreshold
    BY <1>3, <2>1 DEF RoundInv, ClientTypeOK
  <2> QED
    BY <1>3, <2>1, <2>2, TopMoves, TopEffect
<1>4. CASE call = "keepalive"
  <2>1. RoundFailed
    BY <1>4 DEF Failed
  <2>2. /\ failures' = failures + 1
        /\ failures' \in 0 .. FailureThreshold
    BY <1>4, <2>1, Constants DEF RoundFailed, RoundInv, ClientTypeOK
  <2>3. CASE failures + 1 >= FailureThreshold /\ ~ stop
    <3>1. Enter("backoff") /\ togo' = togo
      BY <2>1, <2>3 DEF RoundFailed
    <3>2. "backoff" \in Waits \cup Sleeps \cup Ended
      BY DEF Sleeps
    <3>3. /\ call' = "backoff" /\ left' \in 0 .. Duration("backoff")
          /\ sends' \in 1 .. RetryCount + 1
      BY <3>1, <3>2, Entered, Zenon
    <3>4. RoundInv'
      BY <3>3 DEF RoundInv
    <3> QED
      BY <2>2, <2>3, <3>1, <3>2, <3>3, <3>4 DEF MovedWell, ClientTypeOK
  <2>4. CASE ~ (failures + 1 >= FailureThreshold /\ ~ stop)
    <3>1. Top
      BY <2>1, <2>4 DEF RoundFailed
    <3>2. ~ stop => failures' < FailureThreshold
      BY <2>2, <2>4, Constants DEF ClientTypeOK
    <3> QED
      BY <1>4, <2>2, <3>1, <3>2, TopMoves, TopEffect
  <2> QED
    BY <2>3, <2>4
<1> QED
  BY <1>1, <1>2, <1>3, <1>4 DEF Failed

LEMMA EnterMoves ==
    ASSUME ClientTypeOK, NEW c \in Waits \cup Sleeps \cup Ended, Enter(c),
           togo' \in 0 .. MaxRound, failures' \in 0 .. FailureThreshold,
           c = "keepalive" => togo' >= 1,
           c \in {"keepalive", "nap", "notice"} => failures' < FailureThreshold
    PROVE  MovedWell
<1>1. /\ call' = c /\ left' \in 0 .. Duration(c) /\ sends' \in 1 .. RetryCount + 1
  BY Entered, Zenon
<1>2. RoundInv'
  BY <1>1 DEF RoundInv
<1> QED
  BY <1>1, <1>2 DEF MovedWell

(* A step that leaves the thread in its call. *)
LEMMA StaysMoves ==
    ASSUME ClientTypeOK, RoundInv, UNCHANGED <<call, togo, failures>>,
           left' \in 0 .. Duration(call), sends' \in 1 .. RetryCount + 1
    PROVE  MovedWell
BY DEF MovedWell, RoundInv, ClientTypeOK

LEMMA ThreadMoves ==
    ASSUME ClientTypeOK, RoundInv, ThreadStep
    PROVE  MovedWell
<1> USE Constants
<1>1. CASE SleepOver
  <2>1. CASE call = "nap"
    BY <1>1, <2>1, TopMoves DEF SleepOver, RoundInv, ClientTypeOK
  <2>2. CASE call # "nap"
    <3>1. LeaveOr("challenge")
      BY <1>1, <2>2 DEF SleepOver
    <3>2. "challenge" \in Waits \cup Sleeps \cup Ended
      BY CallNames
    <3> QED
      BY <3>1, <3>2, LeaveMoves
  <2> QED
    BY <2>1, <2>2
<1>2. CASE Resend
  <2>1. call \in Waits /\ Duration(call) = WaitSeconds
    BY <1>2, CallNames DEF Resend
  <2>2. sends' \in 1 .. RetryCount + 1 /\ left' \in 0 .. Duration(call)
    BY <1>2, <2>1 DEF Resend, ClientTypeOK
  <2>3. UNCHANGED <<call, togo, failures>>
    BY <1>2 DEF Resend
  <2> QED
    BY <2>2, <2>3, StaysMoves
<1>3. CASE GiveUpExchange
  BY <1>3, FailedMoves DEF GiveUpExchange
<1>4. CASE SendFails
  BY <1>4, FailedMoves DEF SendFails
<1>5. CASE Stray
  <2>1. call \in Waits /\ Duration(call) = WaitSeconds
    BY <1>5, CallNames DEF Stray
  <2>2. sends' \in 1 .. RetryCount + 1 /\ left' \in 0 .. Duration(call)
    BY <1>5, <2>1 DEF Stray, ClientTypeOK
  <2>3. UNCHANGED <<call, togo, failures>>
    BY <1>5 DEF Stray
  <2> QED
    BY <2>2, <2>3, StaysMoves
<1>6. CASE ChallengeAnswered
  <2>1. Enter("login") /\ "login" \in Waits \cup Sleeps \cup Ended
    BY <1>6, CallNames DEF ChallengeAnswered
  <2> QED
    BY <1>6, <2>1, EnterMoves DEF ChallengeAnswered, ClientTypeOK
<1>7. CASE LoginHandled \/ LogoutHandled
  <2>1. UNCHANGED <<call, togo, failures, left, sends>>
    BY <1>7 DEF LoginHandled, LogoutHandled, callVars
  <2> QED
    BY <2>1, StaysMoves DEF ClientTypeOK
<1>8. CASE LoginAccepted
  <2>1. /\ Enter("notice") /\ "notice" \in Waits \cup Sleeps \cup Ended
        /\ failures' = 0 /\ togo' = togo
    BY <1>8, CallNames DEF LoginAccepted
  <2> QED
    BY <2>1, EnterMoves DEF ClientTypeOK
<1>9. CASE LoginRefused
  <2>1. LeaveOr("backoff") /\ "backoff" \in Waits \cup Sleeps \cup Ended
    BY <1>9 DEF LoginRefused, Sleeps
  <2> QED
    BY <2>1, LeaveMoves
<1>10. CASE NoticeReceived
  BY <1>10, TopMoves DEF NoticeReceived, RoundInv, ClientTypeOK
<1>11. CASE KeepaliveAnswered
  <2>1. call = "keepalive" /\ togo \in 1 .. MaxRound /\ togo' = togo - 1
    BY <1>11 DEF KeepaliveAnswered, RoundInv, ClientTypeOK
  <2>2. CASE togo > 1 /\ Enter("keepalive") /\ UNCHANGED failures
    <3>1. "keepalive" \in Waits \cup Sleeps \cup Ended
      BY CallNames
    <3>2. failures' \in 0 .. FailureThreshold /\ failures' < FailureThreshold
      BY <2>1, <2>2 DEF RoundInv, ClientTypeOK
    <3>3. togo' >= 1 /\ togo' \in 0 .. MaxRound
      BY <2>1, <2>2
    <3> QED
      BY <2>2, <3>1, <3>2, <3>3, EnterMoves
  <2>3. CASE togo = 1 /\ Enter("nap") /\ failures' = 0
    <3>1. "nap" \in Waits \cup Sleeps \cup Ended
      BY DEF Sleeps
    <3>2. togo' \in 0 .. MaxRound
      BY <2>1, <2>3
    <3> QED
      BY <2>3, <3>1, <3>2, EnterMoves
  <2> QED
    BY <1>11, <2>2, <2>3 DEF KeepaliveAnswered
<1>12. CASE LogoutChallengeAnswered
  <2>1. Enter("logout") /\ "logout" \in Waits \cup Sleeps \cup Ended
    BY <1>12, CallNames DEF LogoutChallengeAnswered
  <2> QED
    BY <1>12, <2>1, EnterMoves DEF LogoutChallengeAnswered, ClientTypeOK
<1>13. CASE LogoutAnswered
  <2>1. Enter("gone") /\ "gone" \in Waits \cup Sleeps \cup Ended
    BY <1>13 DEF LogoutAnswered, Ended
  <2> QED
    BY <1>13, <2>1, EnterMoves DEF LogoutAnswered, ClientTypeOK
<1> QED
  BY <1>1, <1>2, <1>3, <1>4, <1>5, <1>6, <1>7, <1>8, <1>9, <1>10, <1>11, <1>12, <1>13
  DEF ThreadStep

-----------------------------------------------------------------------------
(* The way out. *)

LEMMA Budget ==
    ASSUME ClientTypeOK, RoundInv
    PROVE  /\ InCall \in Nat /\ Afterwards \in Nat /\ Allowance \in Nat
           /\ InCall >= left
           /\ InCall + Afterwards <= Allowance
<1> USE Constants
<1>1. left \in Nat /\ sends \in 1 .. RetryCount + 1 /\ togo \in 0 .. MaxRound
  <2>1. Duration(call) \in Nat
    BY CallNames DEF ClientTypeOK
  <2> QED
    BY <2>1 DEF ClientTypeOK
<1>2. CASE call \in Resent
  <2>1. call \in Waits /\ left <= WaitSeconds
    BY <1>2, CallNames DEF ClientTypeOK
  <2>2. RetryCount + 1 - sends \in Nat /\ RetryCount + 1 - sends <= RetryCount
    BY <1>1
  <2>3. (RetryCount + 1 - sends) * WaitSeconds \in Nat
    BY <2>2, Times
  <2>4. (RetryCount + 1 - sends) * WaitSeconds <= RetryCount * WaitSeconds
    BY <2>2, TimesMonotonic
  <2>5. InCall = left + (RetryCount + 1 - sends) * WaitSeconds
    BY <1>2 DEF InCall
  <2>6. InCall \in Nat /\ InCall >= left /\ InCall <= Exchange
    <3> HIDE Constants
    <3> DEFINE more == (RetryCount + 1 - sends) * WaitSeconds
               most == RetryCount * WaitSeconds
    <3>1. Exchange = most + WaitSeconds /\ most \in Nat
      BY WayOut, Times, Constants
    <3>2. more \in Nat /\ more <= most /\ InCall = left + more
      BY <2>3, <2>4, <2>5
    <3>3. WaitSeconds \in Nat
      BY Constants
    <3> HIDE DEF more, most
    <3> QED
      BY <1>1, <2>1, <3>1, <3>2, <3>3
  <2>7. Allowance = LongestWayOut
    BY <1>2 DEF Allowance, Resent
  <2>8. CASE call # "keepalive"
    <3>1. /\ Afterwards \in Nat
          /\ Afterwards <= 2 * WaitSeconds + 2 * Exchange
      BY <1>2, <2>8, WayOut DEF Afterwards, Resent
    <3> QED
      BY <2>6, <2>7, <3>1, WayOut
  <2>9. CASE call = "keepalive"
    <3>1. togo - 1 \in Nat
      BY <1>1, <2>9 DEF RoundInv
    <3>2. /\ (togo - 1) * Exchange \in Nat
          /\ togo * Exchange = (togo - 1) * Exchange + Exchange
      <4> DEFINE k == togo - 1
      <4>1. k \in Nat /\ Exchange \in Nat
        BY <3>1, WayOut
      <4> HIDE DEF k
      <4>2. k * Exchange \in Nat /\ (k + 1) * Exchange = k * Exchange + Exchange
        BY <4>1, Times
      <4>3. togo = k + 1
        BY <1>1 DEF k
      <4> QED
        BY <4>2, <4>3 DEF k
    <3>3. togo * Exchange <= MaxRound * Exchange
      BY <1>1, WayOut, TimesMonotonic
    <3>4. Afterwards = (togo - 1) * Exchange + NapSeconds + 2 * Exchange
      BY <2>9 DEF Afterwards
    <3> QED
      BY <2>6, <2>7, <3>2, <3>3, <3>4, WayOut
  <2> QED
    BY <2>6, <2>7, <2>8, <2>9
<1>3. CASE call \notin Resent
  <2>1. InCall = left
    BY <1>3 DEF InCall
  <2>2. CASE call \in {"login", "notice"}
    <3>1. left <= WaitSeconds
      BY <2>2, CallNames DEF ClientTypeOK
    <3>2. Afterwards \in Nat /\ Afterwards <= WaitSeconds + 2 * Exchange
      BY <2>2, WayOut DEF Afterwards
    <3>3. Allowance = LongestWayOut
      BY <2>2 DEF Allowance
    <3> QED
      BY <1>1, <2>1, <3>1, <3>2, <3>3, WayOut
  <2>3. CASE call = "nap"
    <3>1. left <= NapSeconds
      BY <2>3 DEF ClientTypeOK, Duration
    <3>2. Afterwards = 2 * Exchange /\ Allowance = LongestWayOut
      BY <2>3 DEF Afterwards, Allowance
    <3> QED
      BY <1>1, <2>1, <3>1, <3>2, WayOut
  <2>4. CASE call \in {"backoff", "delay"}
    <3>1. Afterwards = 0 /\ Allowance = Duration(call) /\ left <= Duration(call)
      BY <2>4 DEF Afterwards, Allowance, ClientTypeOK
    <3> QED
      BY <1>1, <2>1, <2>4, <3>1 DEF Duration
  <2>5. CASE call \in Ended
    <3>1. Afterwards = 0 /\ Allowance = LongestWayOut /\ left = 0
      BY <2>5 DEF Afterwards, Allowance, ClientTypeOK, Duration, Ended
    <3> QED
      BY <2>1, <3>1, WayOut
  <2> QED
    BY <1>3, <2>2, <2>3, <2>4, <2>5 DEF ClientTypeOK, Waits, Sleeps
<1> QED
  BY <1>2, <1>3

(* A step of the thread under a stop, if it is not the last, shortens what *)
(* is left of the way out or leaves it as it is.                           *)
Shrinks ==
    /\ InCall' + Afterwards' <= InCall + Afterwards
    /\ Allowance <= Allowance'
    /\ Allowance' \in Nat

LEMMA Halfway ==
    ASSUME ClientTypeOK, RoundInv, call \in Waits \cup {"nap"},
           call' = "logoutChallenge", InCall' + Afterwards' = 2 * Exchange,
           Afterwards >= 2 * Exchange
    PROVE  Shrinks
<1>1. Allowance' = LongestWayOut /\ Allowance = LongestWayOut
  BY DEF Allowance, Waits, Resent
<1>2. InCall \in Nat /\ Afterwards \in Nat /\ Exchange \in Nat /\ LongestWayOut \in Nat
  BY Budget, WayOut
<1> QED
  BY <1>1, <1>2 DEF Shrinks

LEMMA Stays ==
    ASSUME ClientTypeOK, RoundInv, UNCHANGED <<call, togo>>,
           InCall' = InCall
    PROVE  Shrinks
<1>1. Afterwards' = Afterwards /\ Allowance' = Allowance
  BY DEF Afterwards, Allowance
<1>2. InCall \in Nat /\ Afterwards \in Nat /\ Allowance \in Nat
  BY Budget
<1> QED
  BY <1>1, <1>2 DEF Shrinks

LEMMA ThreadShrinks ==
    ASSUME ClientTypeOK, RoundInv, ThreadStep, ~ Stray, stop
    PROVE  call' \in Ended \/ Shrinks
<1>1. "gone" \in Ended
  BY DEF Ended
<1>2. InCall \in Nat /\ Afterwards \in Nat /\ Allowance \in Nat /\ InCall >= left
  BY Budget
<1>3. Exchange \in Nat /\ LongestWayOut \in Nat /\ WaitSeconds \in Nat /\ NapSeconds \in Nat
  BY WayOut, Constants
<1>4. CASE SleepOver
  <2>1. CASE call = "nap"
    <3>1. Top
      BY <1>4, <2>1 DEF SleepOver
    <3>2. call' = "logoutChallenge" /\ InCall' + Afterwards' = 2 * Exchange
      BY <3>1, TopEffect
    <3>3. Afterwards = 2 * Exchange
      BY <2>1 DEF Afterwards
    <3> QED
      BY <1>3, <2>1, <3>2, <3>3, Halfway
  <2>2. CASE call # "nap"
    <3>1. LeaveOr("challenge") /\ "challenge" \in Waits \cup Sleeps \cup Ended
      BY <1>4, <2>2, CallNames DEF SleepOver
    <3> QED
      BY <1>1, <3>1, LeaveEffect
  <2> QED
    BY <2>1, <2>2
<1>5. CASE Resend
  <2>1. /\ UNCHANGED <<call, togo>> /\ call \in Resent
        /\ left = 0 /\ sends <= RetryCount /\ sends' = sends + 1 /\ left' = WaitSeconds
    BY <1>5 DEF Resend
  <2> DEFINE k == RetryCount - sends
  <2>2. k \in Nat /\ RetryCount + 1 - sends = k + 1 /\ RetryCount + 1 - sends' = k
    BY <2>1, Constants DEF ClientTypeOK
  <2> HIDE DEF k
  <2>3. InCall = (k + 1) * WaitSeconds /\ InCall' = WaitSeconds + k * WaitSeconds
    <3>1. (k + 1) * WaitSeconds \in Nat
      BY <1>3, <2>2, Times
    <3>2. InCall = 0 + (k + 1) * WaitSeconds
      BY <2>1, <2>2 DEF InCall
    <3>3. InCall' = WaitSeconds + k * WaitSeconds
      BY <2>1, <2>2 DEF InCall
    <3> QED
      BY <3>1, <3>2, <3>3
  <2>4. InCall' = InCall
    BY <1>3, <2>2, <2>3, Times
  <2> QED
    BY <2>1, <2>4, Stays
<1>6. CASE GiveUpExchange \/ SendFails
  <2>1. Failed
    BY <1>6 DEF GiveUpExchange, SendFails
  <2>2. CASE call' = "gone"
    BY <1>1, <2>2
  <2>3. CASE /\ call \in {"keepalive", "notice"} /\ call' = "logoutChallenge"
             /\ InCall' + Afterwards' = 2 * Exchange
    <3>1. CASE call = "notice"
      BY <1>3, <2>3, <3>1, Halfway, CallNames DEF Afterwards
    <3>2. CASE call = "keepalive"
      <4>1. togo - 1 \in Nat
        BY <3>2 DEF RoundInv, ClientTypeOK
      <4>2. (togo - 1) * Exchange \in Nat
        BY <1>3, <4>1, Times
      <4>3. Afterwards = (togo - 1) * Exchange + NapSeconds + 2 * Exchange
        BY <3>2 DEF Afterwards
      <4>4. Afterwards >= 2 * Exchange
        BY <1>3, <4>2, <4>3
      <4> QED
        BY <2>3, <3>2, <4>4, Halfway, CallNames
    <3> QED
      BY <2>3, <3>1, <3>2
  <2> QED
    BY <2>1, <2>2, <2>3, FailedMoves
<1>7. CASE ChallengeAnswered
  <2>1. /\ call = "challenge" /\ Enter("login")
        /\ "login" \in Waits \cup Sleeps \cup Ended /\ "login" \notin Resent
    BY <1>7, CallNames DEF ChallengeAnswered, Resent
  <2>2. call' = "login" /\ InCall' = WaitSeconds
    BY <2>1, Entered, CallNames
  <2>3. Afterwards' = WaitSeconds + 2 * Exchange
    BY <2>2 DEF Afterwards
  <2>4. Afterwards = 2 * WaitSeconds + 2 * Exchange
    BY <2>1 DEF Afterwards
  <2>5. Allowance = LongestWayOut /\ Allowance' = LongestWayOut
    BY <2>1, <2>2 DEF Allowance
  <2> QED
    BY <1>2, <1>3, <2>2, <2>3, <2>4, <2>5 DEF Shrinks
<1>8. CASE LoginHandled \/ LogoutHandled
  <2>1. UNCHANGED <<call, togo, left, sends>>
    BY <1>8 DEF LoginHandled, LogoutHandled, callVars
  <2>2. InCall' = InCall
    BY <2>1 DEF InCall
  <2> QED
    BY <2>1, <2>2, Stays
<1>9. CASE LoginAccepted
  <2>1. /\ call = "login" /\ Enter("notice")
        /\ "notice" \in Waits \cup Sleeps \cup Ended /\ "notice" \notin Resent
    BY <1>9, CallNames DEF LoginAccepted, Resent
  <2>2. call' = "notice" /\ InCall' = WaitSeconds
    BY <2>1, Entered, CallNames
  <2>3. Afterwards' = 2 * Exchange /\ Afterwards = WaitSeconds + 2 * Exchange
    BY <2>1, <2>2 DEF Afterwards
  <2>4. Allowance = LongestWayOut /\ Allowance' = LongestWayOut
    BY <2>1, <2>2 DEF Allowance
  <2> QED
    BY <1>2, <1>3, <2>2, <2>3, <2>4 DEF Shrinks
<1>10. CASE LoginRefused
  <2>1. LeaveOr("backoff") /\ "backoff" \in Waits \cup Sleeps \cup Ended
    BY <1>10 DEF LoginRefused, Sleeps
  <2> QED
    BY <1>1, <2>1, LeaveEffect
<1>11. CASE NoticeReceived
  <2>1. call = "notice" /\ Top
    BY <1>11 DEF NoticeReceived
  <2>2. call' = "logoutChallenge" /\ InCall' + Afterwards' = 2 * Exchange
    BY <2>1, TopEffect
  <2>3. Afterwards = 2 * Exchange
    BY <2>1 DEF Afterwards
  <2> QED
    BY <1>3, <2>1, <2>2, <2>3, Halfway, CallNames
<1>12. CASE KeepaliveAnswered
  <2>1. call = "keepalive" /\ togo \in 1 .. MaxRound /\ togo' = togo - 1
    BY <1>12 DEF KeepaliveAnswered, RoundInv, ClientTypeOK
  <2> DEFINE more == (togo - 1) * Exchange
  <2>2. Afterwards = more + NapSeconds + 2 * Exchange
    BY <2>1 DEF Afterwards
  <2>3. Allowance = LongestWayOut
    BY <2>1 DEF Allowance
  <2>4. CASE togo > 1 /\ Enter("keepalive")
    <3>1. "keepalive" \in (Waits \cup Sleeps \cup Ended) \cap Resent
      BY DEF Resent, Waits
    <3>2. call' = "keepalive" /\ InCall' = Exchange
      BY <2>4, <3>1, Entered
    <3> DEFINE k == togo - 2
    <3>3. k \in Nat /\ togo - 1 = k + 1 /\ togo' - 1 = k
      BY <2>1, <2>4
    <3> HIDE DEF k, more
    <3>4. Afterwards' = k * Exchange + NapSeconds + 2 * Exchange
      BY <3>2, <3>3 DEF Afterwards
    <3>5. more = k * Exchange + Exchange /\ k * Exchange \in Nat
      BY <1>3, <3>3, Times DEF more
    <3>6. InCall' + Afterwards' = Afterwards
      BY <1>3, <2>2, <3>2, <3>4, <3>5
    <3>7. Allowance' = LongestWayOut
      BY <3>2 DEF Allowance
    <3> QED
      BY <1>2, <1>3, <2>3, <3>6, <3>7 DEF Shrinks
  <2>5. CASE togo = 1 /\ Enter("nap")
    <3>1. "nap" \in Waits \cup Sleeps \cup Ended /\ "nap" \notin Resent
      BY DEF Sleeps, Resent
    <3>2. Duration("nap") = NapSeconds
      BY Zenon DEF Duration, Ended
    <3>3. call' = "nap" /\ InCall' = NapSeconds
      BY <2>5, <3>1, <3>2, Entered
    <3>4. Afterwards' = 2 * Exchange /\ Allowance' = LongestWayOut
      BY <3>3 DEF Afterwards, Allowance
    <3>5. more = 0
      BY <1>3, <2>5
    <3> HIDE DEF more
    <3> QED
      BY <1>2, <1>3, <2>2, <2>3, <3>3, <3>4, <3>5 DEF Shrinks
  <2> QED
    BY <1>12, <2>4, <2>5 DEF KeepaliveAnswered
<1>13. CASE LogoutChallengeAnswered
  <2>1. /\ call = "logoutChallenge" /\ Enter("logout")
        /\ "logout" \in (Waits \cup Sleeps \cup Ended) \cap Resent
    BY <1>13, CallNames DEF LogoutChallengeAnswered, Resent
  <2>2. call' = "logout" /\ InCall' = Exchange
    BY <2>1, Entered
  <2>3. Afterwards' = 0 /\ Afterwards = Exchange
    BY <2>1, <2>2 DEF Afterwards
  <2>4. Allowance = LongestWayOut /\ Allowance' = LongestWayOut
    BY <2>1, <2>2 DEF Allowance
  <2> QED
    BY <1>2, <1>3, <2>2, <2>3, <2>4 DEF Shrinks
<1>14. CASE LogoutAnswered
  BY <1>1, <1>14 DEF LogoutAnswered, Enter
<1> QED
  BY <1>4, <1>5, <1>6, <1>7, <1>8, <1>9, <1>10, <1>11, <1>12, <1>13, <1>14 DEF ThreadStep

-----------------------------------------------------------------------------
(* The invariant. *)

LEMMA Counted ==
    ASSUME ClientTypeOK, OneMoreFault
    PROVE  faults' \in 0 .. FaultCap
BY Constants DEF OneMoreFault, ClientTypeOK

LEMMA ThreadKeeps ==
    ASSUME ClientInv, ThreadStep
    PROVE  ClientInv'
<1>1. ClientTypeOK /\ RoundInv /\ StopInv
  BY DEF ClientInv
<1>2. MovedWell
  BY <1>1, ThreadMoves
<1>3. UNCHANGED <<stop, elapsed, caught>>
  BY DEF ThreadStep, SleepOver, Resend, GiveUpExchange, SendFails, Stray,
         ChallengeAnswered, LoginHandled, LoginAccepted, LoginRefused, NoticeReceived,
         KeepaliveAnswered, LogoutChallengeAnswered, LogoutHandled, LogoutAnswered, history
<1>4. session' \in BOOLEAN
  BY <1>1 DEF ThreadStep, SleepOver, Resend, GiveUpExchange, SendFails, Stray,
         ChallengeAnswered, LoginHandled, LoginAccepted, LoginRefused, NoticeReceived,
         KeepaliveAnswered, LogoutChallengeAnswered, LogoutHandled, LogoutAnswered,
         ClientTypeOK
<1>5. faults' \in 0 .. FaultCap
  <2>1. CASE SendFails
    BY <1>1, <2>1, Counted DEF SendFails
  <2>2. CASE ~ SendFails
    <3>1. faults' = faults
      BY <2>2 DEF ThreadStep, SleepOver, Resend, GiveUpExchange, Stray,
         ChallengeAnswered, LoginHandled, LoginAccepted, LoginRefused, NoticeReceived,
         KeepaliveAnswered, LogoutChallengeAnswered, LogoutHandled, LogoutAnswered, history
    <3> QED
      BY <1>1, <3>1 DEF ClientTypeOK
  <2> QED
    BY <2>1, <2>2
<1>6. IF Stray THEN strays' = strays + 1 ELSE strays' = strays
  BY DEF ThreadStep, SleepOver, Resend, GiveUpExchange, SendFails, Stray,
         ChallengeAnswered, LoginHandled, LoginAccepted, LoginRefused, NoticeReceived,
         KeepaliveAnswered, LogoutChallengeAnswered, LogoutHandled, LogoutAnswered, history
<1>7. strays' \in 0 .. MaxStrays
  BY <1>1, <1>6, Constants DEF Stray, ClientTypeOK
<1>8. ClientTypeOK'
  BY <1>1, <1>2, <1>3, <1>4, <1>5, <1>7 DEF ClientTypeOK, MovedWell
<1>9. StopInv'
  <2>1. ~ stop' => elapsed' = 0
    BY <1>1, <1>3 DEF StopInv
  <2>2. SUFFICES ASSUME stop', Alive'
                 PROVE  elapsed' + InCall' + Afterwards' <= Allowance' + WaitSeconds * strays'
    BY <2>1 DEF StopInv
  <2>3. call \in Waits \cup Sleeps
    BY DEF ThreadStep, SleepOver, Resend, GiveUpExchange, Failed, SendFails, Stray,
         ChallengeAnswered, LoginHandled, LoginAccepted, LoginRefused, NoticeReceived,
         KeepaliveAnswered, LogoutChallengeAnswered, LogoutHandled, LogoutAnswered,
         Waits, Resent, Sleeps
  <2>4. stop /\ Alive
    BY <1>3, <2>2, <2>3, CallNames DEF Alive
  <2>5. elapsed + InCall + Afterwards <= Allowance + WaitSeconds * strays
    BY <1>1, <2>4 DEF StopInv
  <2>6. /\ InCall \in Nat /\ Afterwards \in Nat /\ Allowance \in Nat /\ InCall >= left
        /\ elapsed \in Nat /\ strays \in Nat /\ WaitSeconds \in Nat
    BY <1>1, Budget, Constants DEF ClientTypeOK
  <2>7. WaitSeconds * strays \in Nat /\ WaitSeconds * (strays + 1) = WaitSeconds * strays + WaitSeconds
    BY <2>6, Times
  <2>8. CASE ~ Stray
    <3>1. call' \notin Ended /\ strays' = strays /\ elapsed' = elapsed
      BY <1>3, <1>6, <2>2, <2>8 DEF Alive
    <3>2. Shrinks
      BY <1>1, <2>4, <2>8, <3>1, ThreadShrinks
    <3>3. /\ InCall' + Afterwards' <= InCall + Afterwards
          /\ Allowance <= Allowance' /\ Allowance' \in Nat
      BY <3>2 DEF Shrinks
    <3>4. InCall' \in Int /\ Afterwards' \in Int
      <4>1. left' \in Int /\ sends' \in Int /\ togo' \in Int
        BY <1>2, CallNames DEF MovedWell
      <4>2. (RetryCount + 1 - sends') * WaitSeconds \in Int /\ (togo' - 1) * Exchange \in Int
        BY <4>1, Constants, WayOut
      <4>3. InCall' \in Int
        BY <4>1, <4>2 DEF InCall
      <4>4. Afterwards' \in Int
        BY <4>2, Constants, WayOut DEF Afterwards
      <4> QED
        BY <4>3, <4>4
    <3> DEFINE w == WaitSeconds * strays
    <3>5. WaitSeconds * strays' = w /\ w \in Nat
      BY <2>7, <3>1
    <3> HIDE DEF w
    <3>6. elapsed + InCall + Afterwards <= Allowance + w
      BY <2>5 DEF w
    <3>7. /\ elapsed \in Int /\ InCall \in Int /\ Afterwards \in Int /\ Allowance \in Int
          /\ Allowance' \in Int /\ w \in Int
      <4>1. elapsed \in Int /\ InCall \in Int /\ Afterwards \in Int /\ Allowance \in Int
        BY <2>6
      <4>2. Allowance' \in Int
        BY <3>3
      <4>3. w \in Int
        BY <3>5
      <4> QED
        BY <4>1, <4>2, <4>3
    <3>8. elapsed + InCall' + Afterwards' <= Allowance' + w
      BY <3>3, <3>4, <3>6, <3>7, Slack, ZenonT(40)
    <3> QED
      BY <3>1, <3>5, <3>8, Zenon
  <2>9. CASE Stray
    <3>1. /\ UNCHANGED <<call, sends, togo>> /\ left' = WaitSeconds /\ left \in Nat
          /\ sends \in 1 .. RetryCount + 1
      BY <1>1, <2>9, CallNames DEF Stray, ClientTypeOK
    <3>2. Afterwards' = Afterwards /\ Allowance' = Allowance
      BY <3>1 DEF Afterwards, Allowance
    <3> DEFINE more == (RetryCount + 1 - sends) * WaitSeconds
               w == WaitSeconds * strays
    <3>3. more \in Int
      BY <3>1, Constants
    <3>4. InCall' <= InCall + WaitSeconds /\ InCall' \in Int
      <4>1. InCall = IF call \in Resent THEN left + more ELSE left
        BY DEF InCall
      <4>2. InCall' = IF call \in Resent THEN WaitSeconds + more ELSE WaitSeconds
        BY <3>1 DEF InCall
      <4> HIDE DEF more
      <4> QED
        BY <2>6, <3>1, <3>3, <4>1, <4>2
    <3>5. WaitSeconds * strays' = w + WaitSeconds /\ w \in Nat
      BY <1>6, <2>7, <2>9
    <3> HIDE DEF w
    <3>6. elapsed + InCall + Afterwards <= Allowance + w
      BY <2>5 DEF w
    <3> QED
      BY <1>3, <2>6, <3>2, <3>4, <3>5, <3>6
  <2> QED
    BY <2>8, <2>9
<1> QED
  BY <1>2, <1>8, <1>9 DEF ClientInv, MovedWell

(* A step that takes d seconds off the call. *)
LEMMA BudgetAfter ==
    ASSUME ClientTypeOK, UNCHANGED <<call, sends, togo>>,
           NEW d \in Int, left' = left + d
    PROVE  InCall' = InCall + d /\ Afterwards' = Afterwards /\ Allowance' = Allowance
<1>1. left \in Nat
  BY CallNames DEF ClientTypeOK
<1> DEFINE more == (RetryCount + 1 - sends) * WaitSeconds
<1>2. more \in Int
  BY Constants DEF ClientTypeOK
<1>3. InCall = IF call \in Resent THEN left + more ELSE left
  BY DEF InCall
<1>4. InCall' = IF call \in Resent THEN (left + d) + more ELSE left + d
  BY DEF InCall
<1> HIDE DEF more
<1>5. (left + d) + more = (left + more) + d
  BY <1>1, <1>2
<1>6. InCall' = InCall + d
  BY <1>3, <1>4, <1>5, Zenon
<1> QED
  BY <1>6 DEF Afterwards, Allowance

LEMMA TermKeeps ==
    ASSUME ClientInv, Term
    PROVE  ClientInv'
<1>1. ClientTypeOK /\ RoundInv /\ StopInv
  BY DEF ClientInv
<1>2. /\ Alive /\ stop' = TRUE
      /\ UNCHANGED <<call, sends, togo, failures, session, elapsed, faults, strays>>
  BY DEF Term
<1>3. left' \in 0 .. left /\ left \in Nat
  BY <1>1, CallNames DEF Term, ClientTypeOK
<1>4. left' \in 0 .. Duration(call')
  BY <1>1, <1>2, <1>3, CallNames DEF ClientTypeOK
<1>5. caught' \in Waits \cup Sleeps \cup {"none"}
  BY <1>1 DEF Term, Alive, ClientTypeOK
<1>6. ClientTypeOK'
  BY <1>1, <1>2, <1>4, <1>5 DEF ClientTypeOK
<1>7. RoundInv'
  BY <1>1, <1>2 DEF RoundInv
<1>8. StopInv'
  <2> DEFINE d == left' - left
  <2>d. d \in Int /\ d <= 0 /\ left' = left + d
    <3>1. PICK n \in 0 .. left : left' = n
      BY <1>3
    <3>2. n - left \in Int /\ n - left <= 0 /\ n = left + (n - left)
      BY <1>3
    <3> QED
      BY <3>1, <3>2, Zenon
  <2> HIDE DEF d
  <2>1. InCall' = InCall + d /\ Afterwards' = Afterwards /\ Allowance' = Allowance
    BY <1>1, <1>2, <2>d, BudgetAfter
  <2>2. /\ InCall \in Nat /\ Afterwards \in Nat /\ Allowance \in Nat
        /\ InCall + Afterwards <= Allowance
    BY <1>1, Budget
  <2> DEFINE w == WaitSeconds * strays
  <2>3. w \in Nat /\ WaitSeconds * strays' = w
    BY <1>1, <1>2, Constants, Times DEF ClientTypeOK
  <2>4. elapsed + InCall + Afterwards <= Allowance + w
    <3>1. CASE stop
      BY <1>1, <1>2, <3>1 DEF StopInv
    <3>2. CASE ~ stop
      <4>1. elapsed = 0
        BY <1>1, <3>2 DEF StopInv
      <4> HIDE DEF w
      <4> QED
        BY <2>2, <2>3, <4>1
    <3> QED
      BY <3>1, <3>2
  <2> HIDE DEF w
  <2>5. elapsed \in Int /\ w \in Int /\ Allowance \in Int /\ InCall \in Int /\ Afterwards \in Int
    BY <1>1, <2>2, <2>3 DEF ClientTypeOK
  <2>6. elapsed + InCall' + Afterwards <= Allowance + w
    BY <2>d, <2>1, <2>4, <2>5, NoMore, Zenon
  <2> QED
    BY <1>2, <2>1, <2>3, <2>6, Zenon DEF StopInv
<1> QED
  BY <1>6, <1>7, <1>8 DEF ClientInv

LEMMA KillKeeps ==
    ASSUME ClientInv, Kill
    PROVE  ClientInv'
<1>1. /\ call' = "killed" /\ left' = 0
      /\ UNCHANGED <<sends, togo, failures, stop, session, elapsed, caught, faults, strays>>
  BY DEF Kill, history
<1>2. ClientTypeOK'
  BY <1>1 DEF ClientInv, ClientTypeOK, Ended, Duration
<1>3. RoundInv'
  BY <1>1 DEF RoundInv
<1>4. StopInv'
  BY <1>1 DEF ClientInv, StopInv, Alive, Ended
<1> QED
  BY <1>2, <1>3, <1>4 DEF ClientInv

LEMMA LaunchKeeps ==
    ASSUME Launch
    PROVE  ClientInv'
<1>1. /\ call' = "delay" /\ left' \in 0 .. StartupSeconds
      /\ sends' = 1 /\ togo' = 0 /\ failures' = 0
      /\ stop' = FALSE /\ session' = FALSE
      /\ elapsed' = 0 /\ caught' = "none" /\ faults' = 0 /\ strays' = 0
  BY DEF Launch
<1>2. call' \in Waits \cup Sleeps \cup Ended /\ left' \in 0 .. Duration(call')
  <2>1. Duration("delay") = StartupSeconds
    BY Zenon DEF Duration, Ended
  <2>2. Duration(call') = StartupSeconds
    BY <1>1, <2>1, Zenon
  <2>3. left' \in 0 .. StartupSeconds
    BY <1>1, Constants
  <2> QED
    BY <1>1, <2>2, <2>3 DEF Sleeps
<1>3. sends' \in 1 .. RetryCount + 1 /\ togo' \in 0 .. MaxRound
  BY <1>1, Constants
<1>4. /\ failures' \in 0 .. FailureThreshold /\ faults' \in 0 .. FaultCap
      /\ strays' \in 0 .. MaxStrays
  BY <1>1, Constants
<1>5. ClientTypeOK'
  BY <1>1, <1>2, <1>3, <1>4 DEF ClientTypeOK
<1>6. RoundInv'
  BY <1>1 DEF RoundInv
<1>7. StopInv'
  BY <1>1 DEF StopInv
<1> QED
  BY <1>5, <1>6, <1>7 DEF ClientInv

LEMMA InitKeeps ==
    ASSUME ClientInit
    PROVE  ClientInv
<1>1. call = "gone" /\ left = 0
  BY DEF ClientInit
<1>2. call \in Waits \cup Sleeps \cup Ended /\ left \in 0 .. Duration(call)
  BY <1>1 DEF Ended, Duration
<1>3. sends \in 1 .. RetryCount + 1 /\ togo \in 0 .. MaxRound
  BY Constants DEF ClientInit
<1>4. failures \in 0 .. FailureThreshold /\ faults \in 0 .. FaultCap /\ strays \in 0 .. MaxStrays
  BY Constants DEF ClientInit
<1>5. ClientTypeOK
  BY <1>2, <1>3, <1>4 DEF ClientInit, ClientTypeOK
<1>6. RoundInv /\ StopInv
  BY <1>1 DEF ClientInit, RoundInv, StopInv
<1> QED
  BY <1>5, <1>6 DEF ClientInv

LEMMA TickKeeps ==
    ASSUME ClientInv, ClientTick
    PROVE  ClientInv'
<1>1. ClientTypeOK /\ RoundInv /\ StopInv
  BY DEF ClientInv
<1>2. CASE ~ Alive
  <2>1. UNCHANGED <<call, left, sends, togo, failures, stop, session,
                    elapsed, caught, faults, strays>>
    BY <1>2 DEF ClientTick, clientVars, callVars, history
  <2>2. ClientTypeOK' /\ RoundInv'
    BY <1>1, <2>1 DEF ClientTypeOK, RoundInv
  <2>3. StopInv'
    BY <1>1, <1>2, <2>1 DEF StopInv, Alive
  <2> QED
    BY <2>2, <2>3 DEF ClientInv
<1>3. CASE Alive
  <2>1. /\ left > 0 /\ left' = left - 1
        /\ elapsed' = IF stop THEN elapsed + 1 ELSE elapsed
        /\ UNCHANGED <<call, sends, togo, failures, stop, session, caught, strays>>
    BY <1>3 DEF ClientTick
  <2>2. left \in Nat /\ left' \in 0 .. left /\ left' \in 0 .. Duration(call')
    BY <1>1, <2>1, CallNames DEF ClientTypeOK
  <2>3. faults' \in 0 .. FaultCap
    BY <1>1, <1>3, Counted DEF ClientTick, ClientTypeOK
  <2>4. elapsed' \in Nat
    BY <1>1, <2>1 DEF ClientTypeOK
  <2>5. ClientTypeOK'
    BY <1>1, <2>1, <2>2, <2>3, <2>4 DEF ClientTypeOK
  <2>6. RoundInv'
    BY <1>1, <2>1 DEF RoundInv
  <2>7. StopInv'
    <3>1. CASE ~ stop
      BY <1>1, <2>1, <3>1 DEF StopInv
    <3>2. CASE stop
      <4>1. InCall' = InCall + (-1) /\ Afterwards' = Afterwards /\ Allowance' = Allowance
        <5>1. -1 \in Int /\ left' = left + (-1)
          BY <2>1, <2>2
        <5> QED
          BY <1>1, <2>1, <5>1, BudgetAfter
      <4>2. InCall \in Nat /\ Afterwards \in Nat /\ Allowance \in Nat
        BY <1>1, Budget
      <4> DEFINE w == WaitSeconds * strays
      <4>3. w \in Nat /\ WaitSeconds * strays' = w
        BY <1>1, <2>1, Constants, Times DEF ClientTypeOK
      <4>4. elapsed + InCall + Afterwards <= Allowance + w
        BY <1>1, <1>3, <3>2 DEF StopInv
      <4> HIDE DEF w
      <4>5. /\ elapsed \in Int /\ w \in Int /\ Allowance \in Int
            /\ InCall \in Int /\ Afterwards \in Int
        BY <1>1, <4>2, <4>3 DEF ClientTypeOK
      <4>6. elapsed' = elapsed + 1
        BY <2>1, <3>2
      <4>7. (elapsed + 1) + (InCall + (-1)) + Afterwards <= Allowance + w
        BY <4>4, <4>5, OneLess, Zenon
      <4>8. elapsed' + InCall' + Afterwards' <= Allowance' + WaitSeconds * strays'
        BY <4>1, <4>3, <4>6, <4>7, Zenon
      <4> QED
        BY <2>1, <3>2, <4>8 DEF StopInv
    <3> QED
      BY <3>1, <3>2
  <2> QED
    BY <2>5, <2>6, <2>7 DEF ClientInv
<1> QED
  BY <1>2, <1>3

LEMMA UnchangedKeeps ==
    ASSUME ClientInv, UNCHANGED clientVars
    PROVE  ClientInv'
BY DEF ClientInv, ClientTypeOK, RoundInv, StopInv, InCall, Afterwards, Allowance, Alive,
       Duration, clientVars, callVars, history

LEMMA ClientKeeps ==
    ASSUME ClientInv, [ClientNext]_clientVars
    PROVE  ClientInv'
BY ThreadKeeps, TermKeeps, KillKeeps, LaunchKeeps, TickKeeps, UnchangedKeeps DEF ClientNext

LEMMA InvIsTimely ==
    ASSUME ClientInv
    PROVE  StopIsTimely
<1>1. InCall \in Nat /\ Afterwards \in Nat /\ Allowance \in Nat
  BY Budget DEF ClientInv
<1> DEFINE w == WaitSeconds * strays
<1>2. w \in Nat /\ elapsed \in Nat
  BY Constants, Times DEF ClientInv, ClientTypeOK
<1>3. stop /\ Alive => elapsed + InCall + Afterwards <= Allowance + w
  BY DEF ClientInv, StopInv
<1> HIDE DEF w
<1>4. stop /\ Alive => elapsed <= Allowance + w
  BY <1>1, <1>2, <1>3
<1> QED
  BY <1>4 DEF StopIsTimely, Allowance, w

-----------------------------------------------------------------------------
(* Script, procd and client. *)

(* While the script waits, procd has a second or more to its next fork:    *)
(* the script finds the port free before.                                  *)
ServiceInv ==
    /\ procd # "off" => squatter = "none"
    /\ procd \in {"off", "start", "wait"} => ~ Alive
    /\ script # "idle" => procd # "start" /\ (procd = "wait" => procdLeft > scriptLeft)
    /\ script = "poll" /\ Alive => warned
    /\ script = "struck" => ~ Alive

-----------------------------------------------------------------------------
(* Every step of the system is one of the client, or leaves it alone. *)

LEMMA StepsOfClient ==
    ASSUME [Next]_vars
    PROVE  [ClientNext]_clientVars
<1>1. CASE Next
  BY <1>1 DEF Next, ClientNext, StartFree, StartBusy, StartRecovery, PollFree, PollAgain,
     Strike, AfterStrike, Stop, Fork, Reap, TermRunsOut, OtherTerm, SquatterLeaves,
     SquatterComes, Client, Tick
<1>2. CASE UNCHANGED vars
  BY <1>2 DEF vars
<1> QED
  BY <1>1, <1>2

LEMMA ClientInvInductive ==
    ASSUME ClientInv, [Next]_vars
    PROVE  ClientInv'
BY StepsOfClient, ClientKeeps

(* Only a launch brings a client to life. *)
LEMMA AliveOnly ==
    /\ UNCHANGED clientVars => Alive' = Alive
    /\ Term => Alive /\ Alive'
    /\ Kill => ~ Alive'
    /\ ClientTick => Alive' = Alive
    /\ ThreadStep => Alive
<1>1. UNCHANGED clientVars => Alive' = Alive
  BY DEF Alive, clientVars, callVars
<1>2. Term => Alive /\ Alive'
  BY DEF Term, Alive
<1>3. Kill => ~ Alive'
  BY DEF Kill, Alive, Ended
<1>4. ClientTick => Alive' = Alive
  BY <1>1 DEF ClientTick, Alive
<1>5. ThreadStep => Alive
  <2>1. ThreadStep => call \in Waits \cup Sleeps
    BY DEF ThreadStep, SleepOver, Resend, GiveUpExchange, Failed, SendFails, Stray,
       ChallengeAnswered, LoginHandled, LoginAccepted, LoginRefused, NoticeReceived,
       KeepaliveAnswered, LogoutChallengeAnswered, LogoutHandled, LogoutAnswered,
       Waits, Resent, Sleeps
  <2> QED
    BY <2>1, CallNames DEF Alive
<1> QED
  BY <1>1, <1>2, <1>3, <1>4, <1>5

-----------------------------------------------------------------------------
(* The invariant, action by action.  OuterOK is TypeOK without the client. *)

OuterOK ==
    /\ squatter \in {"none", "other", "hidden"}
    /\ script \in {"idle", "poll", "struck"}
    /\ scriptLeft \in 0 .. 1
    /\ polls \in 0 .. Polls
    /\ portState \in {"none", "free", "busy", "recovered", "failed"}
    /\ procd \in {"off", "start", "up", "term", "wait"}
    /\ procdLeft \in 0 .. TermTimeout + RespawnSeconds
    /\ warned \in BOOLEAN

OuterInv == OuterOK /\ ServiceInv /\ StateFileIsTrue

LEMMA Finished ==
    ASSUME OuterInv, UNCHANGED <<clientVars, squatter, warned>>,
           NEW status \in {"free", "recovered", "busy", "failed"}, Finish(status),
           status \in {"free", "recovered"} => PortFree,
           status \notin {"free", "recovered"} => squatter # "none"
    PROVE  OuterInv'
<1>1. /\ script' = "idle" /\ scriptLeft' = 0 /\ polls' = 0 /\ portState' = status
      /\ procdLeft' = procdLeft
      /\ procd' = IF status \in {"free", "recovered"} /\ procd \in {"off", "term"}
                  THEN "start" ELSE procd
      /\ squatter' = squatter /\ warned' = warned
  BY DEF Finish, Register, procdVars, OuterInv, OuterOK
<1>2. Alive' = Alive
  BY AliveOnly
<1>3. OuterOK'
  BY <1>1, ServiceAssumption DEF OuterInv, OuterOK
<1>4. CASE status \in {"free", "recovered"}
  BY <1>1, <1>2, <1>3, <1>4 DEF OuterInv, OuterOK, ServiceInv, StateFileIsTrue, PortFree
<1>5. CASE status \notin {"free", "recovered"}
  <2>1. procd = "off"
    BY <1>5 DEF OuterInv, ServiceInv
  <2> QED
    BY <1>1, <1>2, <1>3, <1>5, <2>1 DEF OuterInv, ServiceInv, StateFileIsTrue
<1> QED
  BY <1>4, <1>5

LEMMA ScriptKeeps ==
    ASSUME OuterInv,
           StartFree \/ StartBusy \/ StartRecovery \/ PollFree \/ PollAgain \/ Strike \/ AfterStrike
    PROVE  OuterInv'
<1>1. CASE StartFree
  BY <1>1, Finished DEF StartFree
<1>2. CASE StartBusy
  BY <1>2, Finished DEF StartBusy
<1>3. CASE PollFree
  BY <1>3, Finished DEF PollFree
<1>4. CASE AfterStrike
  <2>1. script = "struck" /\ ~ Alive
    BY <1>4 DEF AfterStrike, OuterInv, ServiceInv
  <2>2. CASE PortFree
    BY <1>4, <2>2, Finished DEF AfterStrike
  <2>3. CASE ~ PortFree
    BY <1>4, <2>1, <2>3, Finished DEF AfterStrike, PortFree
  <2> QED
    BY <2>2, <2>3
<1>5. CASE StartRecovery
  <2>1. /\ script' = "poll" /\ scriptLeft' = 1 /\ polls' = 0
        /\ UNCHANGED <<portState, squatter, procd, procdLeft>>
    BY <1>5 DEF StartRecovery, SleepOneSecond, procdVars
  <2>2. CASE Term /\ warned' = TRUE
    <3>1. OuterOK'
      BY <2>1, <2>2, ServiceAssumption DEF OuterInv, OuterOK
    <3>2. Alive /\ Alive'
      BY <2>2, AliveOnly
    <3> QED
      BY <2>1, <2>2, <3>1, <3>2 DEF OuterInv, ServiceInv, StateFileIsTrue
  <2>3. CASE squatter = "other" /\ UNCHANGED <<clientVars, warned>>
    <3>1. OuterOK'
      BY <2>1, <2>3, ServiceAssumption DEF OuterInv, OuterOK
    <3>2. procd = "off" /\ ~ Alive /\ ~ Alive'
      BY <2>3, AliveOnly DEF OuterInv, ServiceInv
    <3> QED
      BY <2>1, <2>3, <3>1, <3>2 DEF OuterInv, ServiceInv, StateFileIsTrue
  <2> QED
    BY <1>5, <2>2, <2>3 DEF StartRecovery
<1>6. CASE PollAgain
  <2>1. /\ script = "poll" /\ script' = "poll" /\ scriptLeft' = 1 /\ polls' = polls + 1
        /\ polls + 1 < Polls /\ ~ PortFree
        /\ UNCHANGED <<portState, squatter, procd, procdLeft, warned>>
    BY <1>6 DEF PollAgain, SleepOneSecond, procdVars
  <2>2. Alive' = Alive
    BY <1>6, AliveOnly DEF PollAgain
  <2>3. OuterOK'
    BY <2>1, ServiceAssumption DEF OuterInv, OuterOK
  <2>4. procd # "wait"
    BY <2>1 DEF OuterInv, ServiceInv, PortFree
  <2> QED
    BY <2>1, <2>2, <2>3, <2>4 DEF OuterInv, ServiceInv, StateFileIsTrue
<1>7. CASE Strike
  <2>1. /\ script = "poll" /\ script' = "struck" /\ scriptLeft' = 1 /\ polls' = Polls
        /\ ~ PortFree
        /\ UNCHANGED <<portState, procd, procdLeft, warned>>
        /\ squatter' \in {squatter, "none", "other"} /\ (squatter = "none" => squatter' = "none")
    BY <1>7 DEF Strike, procdVars
  <2>2. ~ Alive'
    <3>1. CASE Kill
      BY <3>1, AliveOnly
    <3>2. CASE squatter = "other" /\ UNCHANGED clientVars
      BY <3>2, AliveOnly DEF OuterInv, ServiceInv
    <3> QED
      BY <1>7, <3>1, <3>2 DEF Strike
  <2>3. OuterOK'
    BY <2>1, ServiceAssumption DEF OuterInv, OuterOK
  <2>4. procd # "wait"
    BY <2>1 DEF OuterInv, ServiceInv, PortFree
  <2> QED
    BY <2>1, <2>2, <2>3, <2>4 DEF OuterInv, ServiceInv, StateFileIsTrue
<1> QED
  BY <1>1, <1>2, <1>3, <1>4, <1>5, <1>6, <1>7

LEMMA StopKeeps ==
    ASSUME OuterInv, Stop
    PROVE  OuterInv'
<1>1. /\ script = "idle" /\ portState' = "none"
      /\ UNCHANGED <<script, scriptLeft, polls, squatter, warned>>
  BY DEF Stop
<1>2. CASE procd = "up" /\ Alive
  <2>1. procd' = "term" /\ procdLeft' = TermTimeout /\ Term
    BY <1>2 DEF Stop
  <2>2. OuterOK'
    BY <1>1, <2>1, ServiceAssumption DEF OuterInv, OuterOK
  <2> QED
    BY <1>1, <1>2, <2>1, <2>2 DEF OuterInv, ServiceInv, StateFileIsTrue
<1>3. CASE ~ (procd = "up" /\ Alive)
  <2>1. /\ procdLeft' = procdLeft /\ UNCHANGED clientVars
        /\ procd' = IF procd = "term" THEN "term" ELSE "off"
    BY <1>3 DEF Stop
  <2>2. OuterOK'
    BY <1>1, <2>1 DEF OuterInv, OuterOK
  <2>3. Alive' = Alive
    BY <2>1, AliveOnly
  <2>4. procd' = "off" => ~ Alive
    BY <1>3, <2>1 DEF OuterInv, OuterOK, ServiceInv
  <2> QED
    BY <1>1, <2>1, <2>2, <2>3, <2>4 DEF OuterInv, OuterOK, ServiceInv, StateFileIsTrue
<1> QED
  BY <1>2, <1>3

LEMMA ProcdKeeps ==
    ASSUME OuterInv, Fork \/ Reap \/ TermRunsOut
    PROVE  OuterInv'
<1>1. CASE Fork
  <2>1. PortFree
    BY <1>1 DEF Fork, ForkDue, OuterInv, ServiceInv, PortFree
  <2>2. procd' = "up" /\ procdLeft' = 0 /\ warned' = FALSE /\ UNCHANGED <<squatter, scriptVars>>
    BY <1>1, <2>1 DEF Fork
  <2>3. script = "idle"
    BY <1>1 DEF Fork, ForkDue, OuterInv, OuterOK, ServiceInv
  <2>4. OuterOK'
    <3>1. 0 \in 0 .. TermTimeout + RespawnSeconds
      BY ServiceAssumption
    <3> QED
      BY <2>2, <3>1 DEF OuterInv, OuterOK, scriptVars
  <2> QED
    BY <1>1, <2>1, <2>2, <2>3, <2>4
    DEF Fork, ForkDue, OuterInv, ServiceInv, StateFileIsTrue, scriptVars, PortFree
<1>2. CASE Reap
  <2>1. ~ Alive /\ ~ Alive' /\ UNCHANGED <<squatter, script, scriptLeft, polls, portState, warned>>
    BY <1>2, AliveOnly DEF Reap, scriptVars
  <2>2. CASE procd = "up" /\ procd' = "wait" /\ procdLeft' = RespawnSeconds
    <3>1. OuterOK'
      BY <2>1, <2>2, ServiceAssumption DEF OuterInv, OuterOK
    <3>2. procdLeft' > scriptLeft'
      BY <2>1, <2>2, ServiceAssumption DEF OuterInv, OuterOK
    <3> QED
      BY <2>1, <2>2, <3>1, <3>2 DEF OuterInv, ServiceInv, StateFileIsTrue
  <2>3. CASE procd = "term" /\ procd' = "off" /\ procdLeft' = 0
    <3>1. OuterOK'
      BY <2>1, <2>3, ServiceAssumption DEF OuterInv, OuterOK
    <3> QED
      BY <2>1, <2>3, <3>1 DEF OuterInv, ServiceInv, StateFileIsTrue
  <2> QED
    BY <1>2, <2>2, <2>3 DEF Reap
<1>3. CASE TermRunsOut
  <2>1. ~ Alive' /\ UNCHANGED <<squatter, script, scriptLeft, polls, portState, procd, procdLeft, warned>>
    BY <1>3, AliveOnly DEF TermRunsOut, scriptVars, procdVars
  <2>2. OuterOK'
    BY <2>1 DEF OuterInv, OuterOK
  <2> QED
    BY <2>1, <2>2 DEF OuterInv, ServiceInv, StateFileIsTrue
<1> QED
  BY <1>1, <1>2, <1>3

LEMMA OthersKeep ==
    ASSUME OuterInv, OtherTerm \/ SquatterLeaves \/ SquatterComes \/ Client \/ Tick
    PROVE  OuterInv'
<1>1. CASE OtherTerm \/ Client
  <2>1. UNCHANGED <<squatter, script, scriptLeft, polls, portState, procd, procdLeft, warned>>
    BY <1>1 DEF OtherTerm, Client, scriptVars, procdVars
  <2>2. Alive
    BY <1>1, AliveOnly DEF OtherTerm, Client
  <2>3. OuterOK'
    BY <2>1 DEF OuterInv, OuterOK
  <2> QED
    BY <2>1, <2>2, <2>3 DEF OuterInv, ServiceInv, StateFileIsTrue
<1>2. CASE SquatterLeaves
  <2>1. /\ UNCHANGED <<script, scriptLeft, polls, portState, procd, procdLeft, warned>>
        /\ squatter' = "none"
    BY <1>2 DEF SquatterLeaves, scriptVars, procdVars
  <2>2. Alive' = Alive
    BY <1>2, AliveOnly DEF SquatterLeaves
  <2>3. OuterOK'
    BY <2>1 DEF OuterInv, OuterOK
  <2> QED
    BY <2>1, <2>2, <2>3 DEF OuterInv, ServiceInv, StateFileIsTrue
<1>3. CASE Tick
  <2>1. /\ UNCHANGED <<squatter, script, polls, portState, procd, warned>>
        /\ Alive' = Alive
    BY <1>3, AliveOnly DEF Tick
  <2>2. /\ scriptLeft' = IF scriptLeft > 0 THEN scriptLeft - 1 ELSE 0
        /\ procdLeft' = IF procdLeft > 0 THEN procdLeft - 1 ELSE 0
    BY <1>3 DEF Tick, CountDown
  <2>3. /\ scriptLeft \in 0 .. 1 /\ procdLeft \in 0 .. TermTimeout + RespawnSeconds
        /\ TermTimeout \in Nat /\ RespawnSeconds \in Nat
    BY ServiceAssumption DEF OuterInv, OuterOK
  <2>4. scriptLeft' \in 0 .. 1 /\ procdLeft' \in 0 .. TermTimeout + RespawnSeconds
    BY <2>2, <2>3
  <2>5. OuterOK'
    BY <2>1, <2>4 DEF OuterInv, OuterOK
  <2>6. script # "idle" => scriptLeft > 0
    BY <1>3, <2>3 DEF Tick, ScriptDue
  <2>7. script # "idle" /\ procd = "wait" => procdLeft' > scriptLeft'
    BY <2>2, <2>3, <2>6 DEF OuterInv, ServiceInv
  <2> QED
    BY <2>1, <2>5, <2>7 DEF OuterInv, ServiceInv, StateFileIsTrue
<1>4. CASE SquatterComes
  <2>1. /\ UNCHANGED <<script, scriptLeft, polls, portState, procd, procdLeft, warned>>
        /\ squatter' \in {"other", "hidden"} /\ procd = "off" /\ script = "idle"
    BY <1>4 DEF SquatterComes, scriptVars, procdVars
  <2>2. Alive' = Alive
    BY <1>4, AliveOnly DEF SquatterComes
  <2>3. OuterOK'
    BY <2>1 DEF OuterInv, OuterOK
  <2> QED
    BY <2>1, <2>2, <2>3 DEF OuterInv, ServiceInv, StateFileIsTrue
<1> QED
  BY <1>1, <1>2, <1>3, <1>4

LEMMA OuterUnchanged ==
    ASSUME OuterInv, UNCHANGED vars
    PROVE  OuterInv'
<1>1. /\ UNCHANGED <<squatter, script, scriptLeft, polls, portState, procd, procdLeft, warned>>
      /\ Alive' = Alive
  BY AliveOnly DEF vars, scriptVars, procdVars
<1> QED
  BY <1>1 DEF OuterInv, OuterOK, ServiceInv, StateFileIsTrue

LEMMA OuterInvInductive ==
    ASSUME OuterInv, [Next]_vars
    PROVE  OuterInv'
BY ScriptKeeps, StopKeeps, ProcdKeeps, OthersKeep, OuterUnchanged DEF Next

LEMMA OuterInvInit ==
    ASSUME Init
    PROVE  OuterInv
<1>1. ~ Alive
  BY DEF Init, ClientInit, Alive, Ended
<1>2. OuterOK
  <2>1. 0 \in 0 .. Polls
    BY ServiceAssumption
  <2>2. 0 \in 0 .. TermTimeout + RespawnSeconds
    BY ServiceAssumption
  <2>3. polls \in 0 .. Polls /\ procdLeft \in 0 .. TermTimeout + RespawnSeconds
    BY <2>1, <2>2 DEF Init
  <2>4. scriptLeft = 0 /\ warned = FALSE
    BY DEF Init
  <2>5. warned \in BOOLEAN
    BY <2>4, Zenon
  <2>6. scriptLeft \in 0 .. 1
    BY <2>4
  <2>7. squatter \in {"none", "other", "hidden"}
    BY DEF Init
  <2>8. script = "idle" /\ portState = "none" /\ procd = "off"
    BY DEF Init
  <2> QED
    BY <2>3, <2>5, <2>6, <2>7, <2>8 DEF OuterOK
<1> QED
  BY <1>1, <1>2 DEF Init, OuterInv, ServiceInv, StateFileIsTrue

-----------------------------------------------------------------------------
(* The invariant of every behaviour. *)
THEOREM Invariance == Spec => [](ClientInv /\ OuterInv)
<1>1. Init => ClientInv /\ OuterInv
  BY InitKeeps, OuterInvInit DEF Init
<1>2. ClientInv /\ OuterInv /\ [Next]_vars => (ClientInv /\ OuterInv)'
  BY ClientInvInductive, OuterInvInductive
<1> QED
  BY <1>1, <1>2, PTL DEF Spec

(* The types, among them that no counter passes its bound: the resends of  *)
(* auth.c:52, the failed rounds before a back-off of auth.c:936, the looks *)
(* at the port of init.d/drcom:95.                                         *)
THEOREM TypeCorrect == Spec => []TypeOK
<1>1. ClientInv /\ OuterInv => TypeOK
  BY DEF ClientInv, OuterInv, OuterOK, TypeOK
<1> QED
  BY <1>1, Invariance, PTL

(* From a SIGTERM to the end of the process takes no longer than a round,  *)
(* the nap and a logout, and a wait more for each stray, whatever is lost  *)
(* and whatever procd and the script do meanwhile (auth.c:853-1009,        *)
(* keepalive.c:118-181).                                                   *)
THEOREM StopBounded == Spec => []StopIsTimely
<1>1. ClientInv => StopIsTimely
  BY InvIsTimely
<1> QED
  BY <1>1, Invariance, PTL

(* procd never starts the client on a port that another program or an     *)
(* earlier client still holds: the bind of auth.c:815 succeeds.            *)
THEOREM BindsNeverFail == Spec => []BindsSucceed
<1>1. OuterInv => BindsSucceed
  BY DEF OuterInv, ServiceInv, ForkDue, PortFree, BindsSucceed
<1> QED
  BY <1>1, Invariance, PTL

(* The port state LuCI reads agrees with what procd was asked to run       *)
(* (init.d/drcom:66-132).                                                  *)
THEOREM PortStateIsTrue == Spec => []StateFileIsTrue
<1>1. OuterInv => StateFileIsTrue
  BY DEF OuterInv
<1> QED
  BY <1>1, Invariance, PTL

(* The KILL of the script never meets a client it has not first asked to   *)
(* end, for any number of polls and any respawn delay of two seconds or    *)
(* more (init.d/drcom:85-104).                                             *)
THEOREM KillsAfterWarning == Spec => KillsOnlyTheWarned
<1>1. OuterInv => (Strike /\ Alive => warned)
  BY DEF OuterInv, ServiceInv, Strike
<1>2. OuterInv /\ [Next]_vars => [Strike /\ Alive => warned]_vars
  BY <1>1
<1> QED
  BY <1>2, Invariance, PTL DEF Spec, KillsOnlyTheWarned

-----------------------------------------------------------------------------
(* The client, signalled, killed and started again, implements             *)
(* ClientLifecycle.                                                        *)

(* A good round, which leads to the nap, has cleared the count. *)
NothingMissed == call = "nap" => failures = 0

LEMMA PhaseOfCall ==
    /\ call \in {"notice", "keepalive"} => Phase = "online" /\ Misses = failures
    /\ call \notin {"notice", "keepalive"} => Phase # "online" /\ Misses = 0
    /\ call = "nap" => Phase = "resting"
    /\ call \in {"logoutChallenge", "logout"} => Phase = "leaving"
    /\ call = "gone" => Phase = "gone"
    /\ call = "killed" => Phase = "dead"
    /\ call \in {"delay", "challenge", "login", "backoff"} => Phase = "offline"
BY DEF Phase, Misses

(* The same after a step. *)
LEMMA PhaseOfCallNext ==
    /\ call' \in {"notice", "keepalive"} => Phase' = "online" /\ Misses' = failures'
    /\ call' \notin {"notice", "keepalive"} => Phase' # "online" /\ Misses' = 0
    /\ call' = "nap" => Phase' = "resting"
    /\ call' \in {"logoutChallenge", "logout"} => Phase' = "leaving"
    /\ call' = "gone" => Phase' = "gone"
    /\ call' = "killed" => Phase' = "dead"
    /\ call' \in {"delay", "challenge", "login", "backoff"} => Phase' = "offline"
BY DEF Phase, Misses

LifeStep == [Lifecycle!LifeNext]_(Lifecycle!lifeVars) /\ NothingMissed'

(* Offline, the process tries again or ends. *)
LEMMA LifeOffline ==
    ASSUME call \in {"delay", "challenge", "login", "backoff"}, stop' = stop,
           call' \in {"delay", "challenge", "login", "backoff", "gone"}
    PROVE  LifeStep
<1>1. CASE call' = "gone"
  <2>1. Lifecycle!End
    BY <1>1, PhaseOfCall, PhaseOfCallNext DEF Lifecycle!End
  <2> QED
    BY <1>1, <2>1 DEF LifeStep, NothingMissed, Lifecycle!LifeNext
<1>2. CASE call' # "gone"
  BY <1>2, PhaseOfCall, PhaseOfCallNext DEF LifeStep, NothingMissed, Lifecycle!lifeVars
<1> QED
  BY <1>1, <1>2

(* The logout ends with the process. *)
LEMMA LifeLeaving ==
    ASSUME call \in {"logoutChallenge", "logout"}, stop' = stop,
           call' \in {"logout", "gone"}
    PROVE  LifeStep
<1>1. CASE call' = "gone"
  <2>1. Lifecycle!End
    BY <1>1, PhaseOfCall, PhaseOfCallNext DEF Lifecycle!End
  <2> QED
    BY <1>1, <2>1 DEF LifeStep, NothingMissed, Lifecycle!LifeNext
<1>2. CASE call' = "logout"
  BY <1>2, PhaseOfCall, PhaseOfCallNext DEF LifeStep, NothingMissed, Lifecycle!lifeVars
<1> QED
  BY <1>1, <1>2

(* The head of the keepalive loop, from a login or from a nap. *)
LEMMA LifeTop ==
    ASSUME ClientTypeOK, NothingMissed, call \in {"notice", "nap"}, Top,
           failures' = failures, stop' = stop
    PROVE  LifeStep
<1>1. call' = IF stop THEN "logoutChallenge" ELSE "keepalive"
  BY TopEffect
<1>2. NothingMissed'
  BY <1>1 DEF NothingMissed
<1>3. CASE stop
  <2>1. Lifecycle!Leave
    BY <1>1, <1>3, PhaseOfCall, PhaseOfCallNext DEF Lifecycle!Leave
  <2> QED
    BY <1>2, <2>1 DEF LifeStep, Lifecycle!LifeNext
<1>4. CASE ~ stop /\ call = "nap"
  <2>1. Lifecycle!Wake
    BY <1>1, <1>4, PhaseOfCall, PhaseOfCallNext DEF NothingMissed, Lifecycle!Wake
  <2> QED
    BY <1>2, <2>1 DEF LifeStep, Lifecycle!LifeNext
<1>5. CASE ~ stop /\ call = "notice"
  BY <1>1, <1>2, <1>5, PhaseOfCall, PhaseOfCallNext DEF LifeStep, Lifecycle!lifeVars
<1> QED
  BY <1>3, <1>4, <1>5

(* A failed round is a miss, the last one, or the end of the session.      *)
LEMMA LifeRoundFailed ==
    ASSUME ClientTypeOK, RoundInv, call = "keepalive", RoundFailed, stop' = stop
    PROVE  LifeStep
<1>1. /\ failures \in Nat /\ failures < FailureThreshold /\ FailureThreshold \in Nat
      /\ failures' = failures + 1
  BY Constants DEF RoundFailed, RoundInv, ClientTypeOK
<1>2. CASE failures + 1 = FailureThreshold
  <2>1. call' = IF stop THEN "logoutChallenge" ELSE "backoff"
    <3>1. CASE stop
      BY <1>1, <1>2, <3>1, TopEffect DEF RoundFailed
    <3>2. CASE ~ stop
      BY <1>1, <1>2, <3>2 DEF RoundFailed, Enter
    <3> QED
      BY <3>1, <3>2
  <2>2. Lifecycle!GiveUp
    BY <1>1, <1>2, <2>1, PhaseOfCall, PhaseOfCallNext DEF Lifecycle!GiveUp
  <2> QED
    BY <2>1, <2>2 DEF LifeStep, NothingMissed, Lifecycle!LifeNext
<1>3. CASE failures + 1 # FailureThreshold
  <2>1. failures + 1 < FailureThreshold /\ ~ (failures + 1 >= FailureThreshold)
    BY <1>1, <1>3
  <2>2. call' = IF stop THEN "logoutChallenge" ELSE "keepalive"
    BY <2>1, TopEffect DEF RoundFailed
  <2>3. NothingMissed'
    BY <2>2 DEF NothingMissed
  <2>4. CASE stop
    <3>1. Lifecycle!Leave
      BY <2>2, <2>4, PhaseOfCall, PhaseOfCallNext DEF Lifecycle!Leave
    <3> QED
      BY <2>3, <3>1 DEF LifeStep, Lifecycle!LifeNext
  <2>5. CASE ~ stop
    <3>1. Lifecycle!Miss
      BY <1>1, <2>1, <2>2, <2>5, PhaseOfCall, PhaseOfCallNext DEF Lifecycle!Miss
    <3> QED
      BY <2>3, <3>1 DEF LifeStep, Lifecycle!LifeNext
  <2> QED
    BY <2>4, <2>5
<1> QED
  BY <1>2, <1>3

LEMMA LifeFailed ==
    ASSUME ClientTypeOK, RoundInv, NothingMissed, Failed, stop' = stop
    PROVE  LifeStep
<1>1. CASE call \in {"challenge", "login"} /\ LeaveOr("backoff")
  BY <1>1, LifeOffline DEF LeaveOr, Enter
<1>2. CASE call = "keepalive" /\ RoundFailed
  BY <1>2, LifeRoundFailed
<1>3. CASE call = "notice" /\ Top /\ UNCHANGED failures
  BY <1>3, LifeTop
<1>4. CASE call \in {"logoutChallenge", "logout"} /\ LeaveOr("gone")
  BY <1>4, LifeLeaving DEF LeaveOr, Enter
<1> QED
  BY <1>1, <1>2, <1>3, <1>4 DEF Failed

(* A step that leaves the thread in its call. *)
LEMMA LifeSame ==
    ASSUME NothingMissed, UNCHANGED <<call, failures, stop>>
    PROVE  LifeStep
BY PhaseOfCall, PhaseOfCallNext DEF LifeStep, NothingMissed, Phase, Misses, Lifecycle!lifeVars

LEMMA LifeThread ==
    ASSUME ClientTypeOK, RoundInv, NothingMissed, ThreadStep
    PROVE  LifeStep
<1>1. CASE SleepOver
  <2>1. CASE call = "nap"
    BY <1>1, <2>1, LifeTop DEF SleepOver
  <2>2. CASE call # "nap"
    BY <1>1, <2>2, LifeOffline DEF SleepOver, Sleeps, LeaveOr, Enter
  <2> QED
    BY <2>1, <2>2
<1>2. CASE GiveUpExchange
  BY <1>2, LifeFailed DEF GiveUpExchange
<1>3. CASE SendFails
  BY <1>3, LifeFailed DEF SendFails
<1>4. CASE Resend \/ Stray \/ LoginHandled \/ LogoutHandled
  BY <1>4, LifeSame DEF Resend, Stray, LoginHandled, LogoutHandled, callVars
<1>5. CASE ChallengeAnswered \/ LoginRefused
  BY <1>5, LifeOffline DEF ChallengeAnswered, LoginRefused, LeaveOr, Enter
<1>6. CASE LogoutChallengeAnswered \/ LogoutAnswered
  BY <1>6, LifeLeaving DEF LogoutChallengeAnswered, LogoutAnswered, Enter
<1>7. CASE LoginAccepted
  <2>1. call = "login" /\ call' = "notice" /\ failures' = 0 /\ stop' = stop
    BY <1>7 DEF LoginAccepted, Enter
  <2>2. Lifecycle!LogIn
    BY <2>1, PhaseOfCall, PhaseOfCallNext DEF Lifecycle!LogIn
  <2> QED
    BY <2>1, <2>2 DEF LifeStep, NothingMissed, Lifecycle!LifeNext
<1>8. CASE NoticeReceived
  BY <1>8, LifeTop DEF NoticeReceived
<1>9. CASE KeepaliveAnswered
  <2>1. CASE togo > 1 /\ Enter("keepalive") /\ UNCHANGED failures
    BY <1>9, <2>1, LifeSame DEF KeepaliveAnswered, Enter
  <2>2. CASE togo = 1 /\ Enter("nap") /\ failures' = 0
    <3>1. call = "keepalive" /\ call' = "nap" /\ stop' = stop
      BY <1>9, <2>2 DEF KeepaliveAnswered, Enter
    <3>2. Lifecycle!Beat
      BY <3>1, PhaseOfCall, PhaseOfCallNext DEF Lifecycle!Beat
    <3> QED
      BY <2>2, <3>2 DEF LifeStep, NothingMissed, Lifecycle!LifeNext
  <2> QED
    BY <1>9, <2>1, <2>2 DEF KeepaliveAnswered
<1> QED
  BY <1>1, <1>2, <1>3, <1>4, <1>5, <1>6, <1>7, <1>8, <1>9 DEF ThreadStep

LEMMA LifeClient ==
    ASSUME ClientTypeOK, RoundInv, NothingMissed, [ClientNext]_clientVars
    PROVE  LifeStep
<1>0. /\ call \in Waits \cup Sleeps \cup Ended /\ stop \in BOOLEAN
      /\ Alive => Phase \in {"offline", "online", "resting", "leaving"}
  <2>1. call \in Waits \cup Sleeps \cup Ended /\ stop \in BOOLEAN
    BY DEF ClientTypeOK
  <2> QED
    BY <2>1, PhaseOfCall DEF Alive, Waits, Resent, Sleeps
<1>1. CASE Launch
  <2>1. call \in Ended /\ call' = "delay" /\ stop' = FALSE
    BY <1>1 DEF Launch, Alive
  <2>2. Lifecycle!Restart
    BY <2>1, PhaseOfCall, PhaseOfCallNext DEF Ended, Lifecycle!Restart
  <2> QED
    BY <2>1, <2>2 DEF LifeStep, NothingMissed, Lifecycle!LifeNext
<1>2. CASE Term
  <2>1. Alive /\ stop' = TRUE /\ UNCHANGED <<call, failures>>
    BY <1>2 DEF Term
  <2>2. CASE stop
    BY <2>1, <2>2, LifeSame
  <2>3. CASE ~ stop
    <3>1. UNCHANGED <<Phase, Misses>>
      BY <2>1 DEF Phase, Misses
    <3>2. Lifecycle!AskToStop
      BY <1>0, <2>1, <2>3, <3>1 DEF Lifecycle!AskToStop, Lifecycle!Alive
    <3> QED
      BY <2>1, <3>2 DEF LifeStep, NothingMissed, Lifecycle!LifeNext
  <2> QED
    BY <1>0, <2>2, <2>3
<1>3. CASE Kill
  <2>1. Alive /\ call' = "killed" /\ stop' = stop
    BY <1>3 DEF Kill, history
  <2>2. Lifecycle!Die
    BY <1>0, <2>1, PhaseOfCallNext DEF Lifecycle!Die, Lifecycle!Alive
  <2> QED
    BY <2>1, <2>2 DEF LifeStep, NothingMissed, Lifecycle!LifeNext
<1>4. CASE ClientTick \/ UNCHANGED clientVars
  BY <1>4, LifeSame DEF ClientTick, clientVars, callVars
<1> QED
  BY <1>1, <1>2, <1>3, <1>4, LifeThread DEF ClientNext

(* However the client is signalled, killed and started again, by procd, by *)
(* the script or by anybody: it ends an online session only through a      *)
(* logout, a death or FailureThreshold failed rounds in a row, and counts  *)
(* no miss across a good round, a login or a restart (auth.c:833-1012).    *)
THEOREM Refinement == Spec => KeepsLifecycle
<1>1. Init => Lifecycle!LifeInit /\ NothingMissed
  BY PhaseOfCall DEF Init, ClientInit, NothingMissed, Lifecycle!LifeInit
<1>2. ClientInv /\ NothingMissed /\ [Next]_vars =>
         [Lifecycle!LifeNext]_(Lifecycle!lifeVars) /\ NothingMissed'
  BY StepsOfClient, LifeClient DEF ClientInv, LifeStep
<1> QED
  BY <1>1, <1>2, Invariance, PTL DEF Spec, KeepsLifecycle, Lifecycle!LifeSpec

-----------------------------------------------------------------------------
(* No session is left behind without a cause.  A TERM costs an exchange at *)
(* most the attempt it interrupts: Cut counts those of the call that came  *)
(* to nothing, OpenTerms the senders of TERM still to come once the stop   *)
(* is raised.  Without a fault only TERM ends an attempt before its        *)
(* answer.                                                                 *)

One(b) == IF b THEN 1 ELSE 0
Cut == IF left = 0 THEN sends ELSE sends - 1
OpenTerms == One(procd = "up") + One(script = "idle")

Undisturbed == faults = 0 /\ caught # "login"

InSession ==
    {"login", "notice", "keepalive", "nap", "logoutChallenge", "logout", "killed"}

SessionKept ==
    /\ call = "login" => left > 0
    /\ session => call \in InSession
    /\ call = "keepalive" /\ ~ stop => Cut = 0
    /\ call \in {"logoutChallenge", "logout"} => stop /\ Cut + OpenTerms <= 2

SessionInv ==
    /\ caught = "login" => stop
    /\ Undisturbed => SessionKept

LEMMA OpenTermsRange ==
    /\ OpenTerms \in 0 .. 2 /\ OpenTerms' \in 0 .. 2
    /\ procd' = procd /\ script' = script => OpenTerms' = OpenTerms
BY DEF OpenTerms, One

LEMMA CutRange ==
    ASSUME ClientTypeOK
    PROVE  Cut \in Int
<1>1. sends \in Int
  BY Constants DEF ClientTypeOK
<1> QED
  BY <1>1 DEF Cut

LEMMA OneCutMore ==
    ASSUME NEW c \in Int, NEW o \in Int, NEW c2 \in Int, NEW o2 \in Int,
           c + o <= 2, c2 <= c + 1, o2 <= o - 1
    PROVE  c2 + o2 <= 2
OBVIOUS

LEMMA SameCut ==
    ASSUME NEW c \in Int, NEW o \in Int, NEW o2 \in Int, c + o <= 2, o2 <= o
    PROVE  c + o2 <= 2
OBVIOUS

(* Entering a call: nothing of it is cut. *)
LEMMA EnterKept ==
    ASSUME NEW c, Enter(c), UNCHANGED <<stop, session>>,
           session => c \in InSession,
           c \in {"logoutChallenge", "logout"} => stop
    PROVE  SessionKept'
<1>1. call' = c /\ sends' = 1 /\ stop' = stop /\ session' = session
  BY DEF Enter
<1>2. c \in {"login", "keepalive", "logoutChallenge", "logout"} =>
        left' = WaitSeconds /\ left' > 0 /\ Cut' = 0
  <2>1. c \in {"login", "keepalive", "logoutChallenge", "logout"} =>
          Duration(c) = WaitSeconds /\ WaitSeconds > 0
    BY Constants, CallNames
  <2> QED
    BY <1>1, <2>1, Constants DEF Enter, Cut
<1> QED
  BY <1>1, <1>2, OpenTermsRange DEF SessionKept

LEMMA TopKept ==
    ASSUME Top, UNCHANGED <<stop, session>>
    PROVE  SessionKept'
<1>1. CASE stop
  <2>1. Enter("logoutChallenge")
    BY <1>1 DEF Top, BeginLogout
  <2> QED
    BY <1>1, <2>1, EnterKept DEF InSession
<1>2. CASE ~ stop
  <2>1. Enter("keepalive")
    BY <1>2 DEF Top, BeginRound
  <2> QED
    BY <2>1, EnterKept DEF InSession
<1> QED
  BY <1>1, <1>2

LEMMA LeaveKept ==
    ASSUME NEW c, c \notin {"logoutChallenge", "logout"}, LeaveOr(c),
           UNCHANGED <<stop, session>>, ~ session
    PROVE  SessionKept'
<1>1. CASE stop
  <2>1. Enter("gone")
    BY <1>1 DEF LeaveOr
  <2> QED
    BY <2>1, EnterKept
<1>2. CASE ~ stop
  <2>1. Enter(c)
    BY <1>2 DEF LeaveOr
  <2> QED
    BY <2>1, EnterKept
<1> QED
  BY <1>1, <1>2

(* The thread by itself fails no exchange within a session. *)
LEMMA GiveUpKept ==
    ASSUME ClientTypeOK, SessionKept, GiveUpExchange
    PROVE  SessionKept'
<1>1. /\ left = 0 /\ Failed /\ UNCHANGED <<stop, session>>
      /\ call \in Resent => sends > RetryCount
  BY DEF GiveUpExchange
<1>2. Cut = sends /\ sends \in Nat /\ RetryCount \in Nat /\ OpenTerms \in Nat
  BY <1>1, Constants, OpenTermsRange DEF Cut, ClientTypeOK
<1>3. call # "login"
  BY <1>1 DEF SessionKept
<1>4. call \notin {"logoutChallenge", "logout"}
  <2>1. call \in {"logoutChallenge", "logout"} => sends > RetryCount /\ sends + OpenTerms <= 2
    BY <1>1, <1>2 DEF SessionKept, Resent
  <2> QED
    BY <1>2, <2>1, AttemptsAssumption
<1>5. CASE call = "challenge" /\ LeaveOr("backoff")
  BY <1>1, <1>5, LeaveKept DEF SessionKept, InSession
<1>6. CASE call = "keepalive" /\ RoundFailed
  <2>1. stop
    <3>1. call = "keepalive" => sends > RetryCount
      BY <1>1 DEF Resent
    <3> QED
      BY <1>2, <1>6, <3>1 DEF SessionKept
  <2>2. Top
    BY <1>6, <2>1 DEF RoundFailed
  <2> QED
    BY <1>1, <2>2, TopKept
<1>7. CASE call = "notice" /\ Top
  BY <1>1, <1>7, TopKept
<1> QED
  BY <1>1, <1>3, <1>4, <1>5, <1>6, <1>7 DEF Failed

LEMMA ThreadKept ==
    ASSUME ClientTypeOK, SessionKept, ThreadStep, faults = 0, faults' = 0,
           OpenTerms' = OpenTerms
    PROVE  SessionKept'
<1>1. CASE SleepOver
  <2>1. UNCHANGED <<stop, session>> /\ call \in Sleeps
    BY <1>1 DEF SleepOver
  <2>2. CASE call = "nap"
    BY <1>1, <2>1, <2>2, TopKept DEF SleepOver
  <2>3. CASE call # "nap"
    <3>1. ~ session
      BY <2>1, <2>3 DEF SessionKept, InSession, Sleeps
    <3> QED
      BY <1>1, <2>1, <2>3, <3>1, LeaveKept DEF SleepOver
  <2> QED
    BY <2>2, <2>3
<1>2. CASE Resend
  <2>1. /\ UNCHANGED <<call, stop, session>> /\ left = 0 /\ call # "login"
        /\ sends' = sends + 1 /\ left' = WaitSeconds /\ sends \in Int
    BY <1>2 DEF Resend, Resent, ClientTypeOK
  <2>2. Cut' = Cut
    BY <2>1, Constants DEF Cut
  <2> QED
    BY <2>1, <2>2 DEF SessionKept
<1>3. CASE GiveUpExchange
  BY <1>3, GiveUpKept
<1>4. CASE SendFails
  <2>1. faults' = 1
    BY <1>4, AttemptsAssumption, Constants DEF SendFails, OneMoreFault
  <2> QED
    BY <2>1
<1>5. CASE Stray
  <2>1. UNCHANGED <<call, stop, session, sends>> /\ left > 0 /\ left' = WaitSeconds
    BY <1>5 DEF Stray
  <2>2. left # 0 /\ left' # 0 /\ left' > 0
    BY <2>1, Constants
  <2>3. Cut' = Cut
    BY <2>1, <2>2 DEF Cut
  <2> QED
    BY <2>1, <2>2, <2>3 DEF SessionKept
<1>6. CASE ChallengeAnswered
  BY <1>6, EnterKept DEF ChallengeAnswered, InSession
<1>7. CASE LoginHandled
  <2>1. call = "login" /\ session' = TRUE /\ UNCHANGED <<call, left, sends, stop>>
    BY <1>7 DEF LoginHandled, callVars
  <2> QED
    BY <2>1 DEF SessionKept, InSession
<1>8. CASE LoginAccepted
  BY <1>8, EnterKept DEF LoginAccepted, InSession
<1>9. CASE LoginRefused
  <2>1. ~ session /\ LeaveOr("backoff") /\ UNCHANGED <<stop, session>>
    BY <1>9 DEF LoginRefused
  <2> QED
    BY <2>1, LeaveKept
<1>10. CASE NoticeReceived
  BY <1>10, TopKept DEF NoticeReceived
<1>11. CASE KeepaliveAnswered
  <2>1. UNCHANGED <<stop, session>> /\ (Enter("keepalive") \/ Enter("nap"))
    BY <1>11 DEF KeepaliveAnswered
  <2> QED
    BY <2>1, EnterKept DEF InSession
<1>12. CASE LogoutChallengeAnswered
  <2>1. UNCHANGED <<stop, session>> /\ Enter("logout") /\ call = "logoutChallenge"
    BY <1>12 DEF LogoutChallengeAnswered
  <2> QED
    BY <2>1, EnterKept DEF SessionKept, InSession
<1>13. CASE LogoutHandled
  <2>1. call = "logout" /\ session' = FALSE /\ UNCHANGED <<call, left, sends, stop>>
    BY <1>13 DEF LogoutHandled, callVars
  <2>2. Cut' = Cut
    BY <2>1 DEF Cut
  <2> QED
    BY <2>1, <2>2 DEF SessionKept
<1>14. CASE LogoutAnswered
  <2>1. ~ session /\ Enter("gone") /\ UNCHANGED <<stop, session>>
    BY <1>14 DEF LogoutAnswered
  <2> QED
    BY <2>1, EnterKept
<1> QED
  BY <1>1, <1>2, <1>3, <1>4, <1>5, <1>6, <1>7, <1>8, <1>9, <1>10, <1>11, <1>12, <1>13, <1>14
  DEF ThreadStep

(* What a step of the thread does to the history. *)
LEMMA ThreadHistory ==
    ASSUME ClientTypeOK, ThreadStep
    PROVE  /\ UNCHANGED <<stop, caught>>
           /\ faults' = 0 => faults = 0
<1>1. CASE SendFails
  BY <1>1, Constants DEF SendFails, OneMoreFault, ClientTypeOK
<1>2. CASE ~ SendFails
  BY <1>2 DEF ThreadStep, SleepOver, Resend, GiveUpExchange, Stray, ChallengeAnswered,
     LoginHandled, LoginAccepted, LoginRefused, NoticeReceived, KeepaliveAnswered,
     LogoutChallengeAnswered, LogoutHandled, LogoutAnswered, history
<1> QED
  BY <1>1, <1>2

LEMMA SessionThread ==
    ASSUME ClientTypeOK, SessionInv, ThreadStep, UNCHANGED <<procd, script>>
    PROVE  SessionInv'
BY ThreadHistory, ThreadKept, OpenTermsRange DEF SessionInv, Undisturbed

(* A TERM cuts one attempt and its sender sends no second. *)
LEMMA SessionTerm ==
    ASSUME ClientTypeOK, SessionInv, Term, stop => OpenTerms' <= OpenTerms - 1
    PROVE  SessionInv'
<1>1. /\ stop' = TRUE /\ UNCHANGED <<call, sends, session, faults>>
      /\ left' = 0 \/ (left' = left /\ left = Duration(call))
      /\ caught' = IF left' = 0 /\ (~ stop \/ call = "login") THEN call ELSE caught
      /\ left \in Int /\ sends \in Int /\ OpenTerms \in Int /\ OpenTerms' \in Int
  <2>1. call \in Waits \cup Sleeps
    BY DEF Term, Alive, ClientTypeOK
  <2>2. Duration(call) \in Nat
    BY <2>1, CallNames
  <2> QED
    BY <2>2, Constants, OpenTermsRange DEF Term, ClientTypeOK
<1>2. SUFFICES ASSUME Undisturbed' PROVE SessionKept'
  BY <1>1 DEF SessionInv
<1>3. SessionKept
  BY <1>1, <1>2 DEF SessionInv, Undisturbed
<1>4. call = "login" => left' # 0
  BY <1>1, <1>2 DEF Undisturbed
<1>5. call = "login" => left' > 0
  BY <1>1, <1>3, <1>4 DEF SessionKept
<1>6. Cut' <= Cut + 1
  BY <1>1 DEF Cut
<1>7. Cut \in Int /\ Cut' \in Int
  BY <1>1 DEF Cut
<1>8. call \in {"logoutChallenge", "logout"} => Cut' + OpenTerms' <= 2
  <2>1. SUFFICES ASSUME call \in {"logoutChallenge", "logout"} PROVE Cut' + OpenTerms' <= 2
    OBVIOUS
  <2>2. Cut + OpenTerms <= 2 /\ OpenTerms' <= OpenTerms - 1
    BY <1>3, <2>1 DEF SessionKept
  <2>3. OpenTerms \in Int /\ OpenTerms' \in Int
    BY <1>1
  <2> QED
    BY <1>6, <1>7, <2>2, <2>3, OneCutMore, Zenon
<1> QED
  BY <1>1, <1>3, <1>5, <1>8 DEF SessionKept

LEMMA SessionKill ==
    ASSUME SessionInv, Kill
    PROVE  SessionInv'
<1>1. call' = "killed" /\ UNCHANGED <<stop, session, caught, faults>>
  BY DEF Kill, history
<1> QED
  BY <1>1 DEF SessionInv, SessionKept, InSession

LEMMA SessionLaunch ==
    ASSUME Launch
    PROVE  SessionInv'
<1>1. call' = "delay" /\ session' = FALSE /\ caught' = "none"
  BY DEF Launch
<1> QED
  BY <1>1 DEF SessionInv, SessionKept

LEMMA SessionSame ==
    ASSUME ClientTypeOK, SessionInv, UNCHANGED clientVars, Alive => OpenTerms' <= OpenTerms
    PROVE  SessionInv'
<1>1. UNCHANGED <<call, left, sends, stop, session, caught, faults>>
  BY DEF clientVars, callVars, history
<1>2. Cut' = Cut /\ Undisturbed' = Undisturbed
  BY <1>1 DEF Cut, Undisturbed
<1>3. CASE call \in {"logoutChallenge", "logout"}
  <2>1. OpenTerms' <= OpenTerms
    BY <1>3 DEF Alive, Ended
  <2>2. Cut + OpenTerms <= 2 => Cut + OpenTerms' <= 2
    <3>1. Cut \in Int /\ OpenTerms \in Int /\ OpenTerms' \in Int
      BY CutRange, OpenTermsRange
    <3> QED
      BY <2>1, <3>1, SameCut, Zenon
  <2> QED
    BY <1>1, <1>2, <1>3, <2>2 DEF SessionInv, SessionKept
<1>4. CASE call \notin {"logoutChallenge", "logout"}
  BY <1>1, <1>2, <1>4 DEF SessionInv, SessionKept
<1> QED
  BY <1>3, <1>4

LEMMA SessionTick ==
    ASSUME ClientTypeOK, SessionInv, ClientTick, UNCHANGED <<procd, script>>
    PROVE  SessionInv'
<1>1. OpenTerms' = OpenTerms /\ OpenTerms \in Int
  BY OpenTermsRange
<1>2. CASE ~ Alive
  BY <1>1, <1>2, SessionSame DEF ClientTick
<1>3. CASE Alive
  <2>1. /\ left > 0 /\ left' = left - 1 /\ left \in Nat
        /\ UNCHANGED <<call, sends, stop, session, caught>>
        /\ faults' = IF Unanswered /\ left = 1
                     THEN IF faults < FaultCap THEN faults + 1 ELSE faults
                     ELSE faults
        /\ faults \in Nat
    <3>1. call \in Waits \cup Sleeps
      BY <1>3 DEF Alive, ClientTypeOK
    <3>2. Duration(call) \in Nat
      BY <3>1, CallNames
    <3> QED
      BY <1>3, <3>2, Constants DEF ClientTick, OneMoreFault, ClientTypeOK
  <2>2. SUFFICES ASSUME Undisturbed' PROVE SessionKept'
    BY <2>1 DEF SessionInv
  <2>3. faults = 0 /\ ~ (Unanswered /\ left = 1)
    BY <2>1, <2>2, Constants, AttemptsAssumption DEF Undisturbed
  <2>4. SessionKept
    BY <2>1, <2>2, <2>3 DEF SessionInv, Undisturbed
  <2>5. call \in {"login", "keepalive", "logoutChallenge", "logout"} =>
          left' > 0 /\ Cut' = Cut
    BY <2>1, <2>3 DEF Unanswered, Waits, Resent, Cut
  <2> QED
    BY <1>1, <2>1, <2>4, <2>5 DEF SessionKept
<1> QED
  BY <1>2, <1>3

LEMMA SessionInvInductive ==
    ASSUME ClientInv, OuterInv, SessionInv, [Next]_vars
    PROVE  SessionInv'
<1> USE DEF ClientInv
<1>1. CASE StartFree \/ PollFree \/ AfterStrike
  <2>1. ~ Alive
    BY <1>1 DEF StartFree, PollFree, AfterStrike, PortFree, OuterInv, ServiceInv
  <2> QED
    BY <1>1, <2>1, SessionSame DEF StartFree, PollFree, AfterStrike
<1>2. CASE StartBusy
  <2>1. procd = "off"
    BY <1>2 DEF StartBusy, OuterInv, ServiceInv
  <2>2. ~ Alive
    BY <2>1 DEF OuterInv, ServiceInv
  <2> QED
    BY <1>2, <2>2, SessionSame DEF StartBusy
<1>3. CASE StartRecovery
  <2>1. script = "idle" /\ script' = "poll" /\ procd' = procd
    BY <1>3 DEF StartRecovery, SleepOneSecond, procdVars
  <2>2. OpenTerms' <= OpenTerms - 1
    BY <2>1 DEF OpenTerms, One
  <2>3. CASE Term
    BY <2>2, <2>3, SessionTerm
  <2>4. CASE UNCHANGED clientVars
    BY <2>2, <2>4, SessionSame, OpenTermsRange
  <2> QED
    BY <1>3, <2>3, <2>4 DEF StartRecovery
<1>4. CASE PollAgain
  <2>1. script = "poll" /\ script' = "poll" /\ procd' = procd
    BY <1>4 DEF PollAgain, SleepOneSecond, procdVars
  <2>2. OpenTerms' <= OpenTerms
    BY <2>1 DEF OpenTerms, One
  <2> QED
    BY <1>4, <2>2, SessionSame DEF PollAgain
<1>5. CASE Strike
  <2>1. script = "poll" /\ script' = "struck" /\ procd' = procd
    BY <1>5 DEF Strike, procdVars
  <2>2. OpenTerms' <= OpenTerms
    BY <2>1 DEF OpenTerms, One
  <2>3. CASE Kill
    BY <2>3, SessionKill
  <2>4. CASE UNCHANGED clientVars
    BY <2>2, <2>4, SessionSame
  <2> QED
    BY <1>5, <2>3, <2>4 DEF Strike
<1>6. CASE Stop
  <2>1. script' = script
    BY <1>6 DEF Stop
  <2>2. CASE procd = "up" /\ Alive
    <3>1. Term /\ procd' = "term"
      BY <1>6, <2>2 DEF Stop
    <3>2. OpenTerms' <= OpenTerms - 1
      BY <2>1, <2>2, <3>1 DEF OpenTerms, One
    <3> QED
      BY <3>1, <3>2, SessionTerm
  <2>3. CASE ~ (procd = "up" /\ Alive)
    <3>1. UNCHANGED clientVars /\ procd' # "up"
      BY <1>6, <2>3 DEF Stop
    <3>2. OpenTerms' <= OpenTerms
      BY <2>1, <3>1 DEF OpenTerms, One
    <3> QED
      BY <3>1, <3>2, SessionSame
  <2> QED
    BY <2>2, <2>3
<1>7. CASE Fork
  <2>1. CASE PortFree
    BY <1>7, <2>1, SessionLaunch DEF Fork
  <2>2. CASE ~ PortFree
    <3>1. ~ Alive
      BY <1>7 DEF Fork, ForkDue, OuterInv, ServiceInv
    <3> QED
      BY <1>7, <2>2, <3>1, SessionSame DEF Fork
  <2> QED
    BY <2>1, <2>2
<1>8. CASE Reap
  BY <1>8, SessionSame DEF Reap
<1>9. CASE TermRunsOut
  BY <1>9, SessionKill DEF TermRunsOut
<1>10. CASE OtherTerm
  BY <1>10, SessionTerm DEF OtherTerm
<1>11. CASE SquatterLeaves \/ SquatterComes
  <2>1. procd' = procd /\ script' = script /\ UNCHANGED clientVars
    BY <1>11 DEF SquatterLeaves, SquatterComes, procdVars, scriptVars
  <2> QED
    BY <2>1, SessionSame, OpenTermsRange
<1>12. CASE Client
  BY <1>12, SessionThread DEF Client, procdVars, scriptVars
<1>13. CASE Tick
  BY <1>13, SessionTick DEF Tick
<1>14. CASE UNCHANGED vars
  <2>1. procd' = procd /\ script' = script /\ UNCHANGED clientVars
    BY <1>14 DEF vars, procdVars, scriptVars
  <2> QED
    BY <2>1, SessionSame, OpenTermsRange
<1> QED
  BY <1>1, <1>2, <1>3, <1>4, <1>5, <1>6, <1>7, <1>8, <1>9, <1>10, <1>11, <1>12, <1>13, <1>14
  DEF Next

LEMMA SessionInvInit ==
    ASSUME Init
    PROVE  SessionInv
<1>1. call = "gone" /\ session = FALSE /\ caught = "none"
  BY DEF Init, ClientInit
<1> QED
  BY <1>1 DEF SessionInv, SessionKept

(* A process that ended by itself left a session at the server only after  *)
(* a fault, or a signal during its login: however the TERMs of the script, *)
(* of procd and of others fall, an attempt at the logout and at its        *)
(* challenge is left (auth.c:52-161, 936-1009).                            *)
THEOREM NothingLeftBehind == Spec => []LeftBehindHasCause
<1>1. ClientInv /\ SessionInv => LeftBehindHasCause
  <2> SUFFICES ASSUME ClientInv, SessionInv, call = "gone", session, faults <= 0,
                      caught # "login"
               PROVE  FALSE
    BY Constants DEF LeftBehindHasCause, ClientInv, ClientTypeOK
  <2>1. faults = 0
    BY Constants DEF ClientInv, ClientTypeOK
  <2> QED
    BY <2>1 DEF SessionInv, Undisturbed, SessionKept, InSession
<1>2. ClientInv /\ OuterInv /\ SessionInv /\ [Next]_vars => SessionInv'
  BY SessionInvInductive
<1>3. Init => SessionInv
  BY SessionInvInit
<1>4. Spec => []SessionInv
  BY <1>2, <1>3, Invariance, PTL DEF Spec
<1> QED
  BY <1>1, <1>4, Invariance, PTL
-----------------------------------------------------------------------------
(* The grace of procd and of the script is long enough.  Without a fault   *)
(* and without a stray every wait of the logout ends before its time:      *)
(* answered, or cut by a TERM.  Remaining is what the call can still take, *)
(* a cut one from its resend; the logout and a TERM of the script each add *)
(* one wait to the budget of procd.                                        *)

Waited == call \in {"nap", "logoutChallenge", "logout"}
Remaining == IF left = 0 THEN WaitSeconds ELSE left
LogoutBudget == WaitSeconds + One(call = "logout") * WaitSeconds

Asleep == caught = "nap" /\ faults = 0 /\ strays = 0

GraceKept ==
    /\ call # "killed"
    /\ Alive => Waited /\ (call = "nap" => left = 0)
    /\ Alive /\ procd = "term" =>
        (TermTimeout - procdLeft) + Remaining
            <= LogoutBudget + One(script # "idle") * WaitSeconds
    /\ Alive /\ script = "poll" =>
        (polls + 1 - scriptLeft) + Remaining <= LogoutBudget

GraceInv ==
    /\ Alive /\ (procd = "term" \/ script = "poll") => stop
    /\ caught = "nap" => stop
    /\ Asleep => GraceKept

LEMMA BudgetRange ==
    /\ call = "logout" => LogoutBudget = WaitSeconds + WaitSeconds
    /\ call # "logout" => LogoutBudget = WaitSeconds
    /\ LogoutBudget \in Nat /\ LogoutBudget >= WaitSeconds
    /\ LogoutBudget <= 2 * WaitSeconds
    /\ LogoutBudget' \in Nat
    /\ call' = call => LogoutBudget' = LogoutBudget
    /\ call' = "logout" => LogoutBudget' = WaitSeconds + WaitSeconds
    /\ call' # "logout" => LogoutBudget' = WaitSeconds
BY Constants DEF LogoutBudget, One

LEMMA OuterRange ==
    ASSUME OuterInv
    PROVE  /\ procdLeft \in Int /\ polls \in Int /\ scriptLeft \in Int
           /\ TermTimeout \in Int /\ Polls \in Int
           /\ One(script # "idle") * WaitSeconds \in Int
           /\ One(script # "idle") * WaitSeconds >= 0
           /\ One(script # "idle") * WaitSeconds <= WaitSeconds
BY ServiceAssumption, Constants DEF OuterInv, OuterOK, One

LEMMA RemainingRange ==
    ASSUME ClientTypeOK, Waited, call = "nap" => left = 0
    PROVE  Remaining \in 1 .. WaitSeconds
<1>1. CASE call = "nap"
  BY <1>1, Constants DEF Remaining
<1>2. CASE call # "nap"
  <2>1. Duration(call) = WaitSeconds
    BY <1>2, CallNames DEF Waited
  <2> QED
    BY <2>1, Constants DEF Remaining, ClientTypeOK
<1> QED
  BY <1>1, <1>2

LEMMA NoMoreThanBefore ==
    ASSUME NEW t \in Int, NEW r \in Int, NEW b \in Int, NEW x \in Int,
           NEW r2 \in Int, NEW b2 \in Int,
           t + r <= b + x, r2 + b <= r + b2
    PROVE  t + r2 <= b2 + x
OBVIOUS

LEMMA NoExtra ==
    ASSUME NEW t \in Int, NEW r \in Int, NEW b \in Int, t + r <= b + 0
    PROVE  t + r <= b
OBVIOUS

LEMMA FromNow ==
    ASSUME NEW t, t = 0, NEW r \in Int, NEW w \in Int, NEW b \in Int, r <= w, b >= w
    PROVE  t + r <= b
OBVIOUS

(* Either the process ends, or the thread is in a call of the logout whose *)
(* budget covers it.                                                       *)
LEMMA LogoutMoves ==
    ASSUME ClientTypeOK, Waited, call = "nap" => left = 0, stop, ThreadStep,
           faults' = 0, strays' = 0
    PROVE  \/ ~ Alive' /\ call' # "killed"
           \/ /\ Waited' /\ (call' = "nap" => left' = 0)
              /\ Remaining' \in Int
              /\ Remaining' + LogoutBudget <= Remaining + LogoutBudget'
<1>1. Remaining \in 1 .. WaitSeconds
  BY RemainingRange
<1>2. call \notin {"challenge", "login", "notice", "keepalive", "delay", "backoff"}
  BY DEF Waited
<1>3. ASSUME Enter("gone") PROVE ~ Alive' /\ call' # "killed"
  BY <1>3 DEF Enter, Alive, Ended
<1>4. CASE SleepOver
  <2>1. call = "nap" /\ Enter("logoutChallenge")
    BY <1>2, <1>4 DEF SleepOver, Sleeps, Top, BeginLogout
  <2>2. call' = "logoutChallenge" /\ left' = WaitSeconds
    BY <2>1, CallNames DEF Enter
  <2>3. Remaining = WaitSeconds /\ Remaining' = WaitSeconds
    BY <2>1, <2>2, Constants DEF Remaining
  <2> QED
    BY <2>1, <2>2, <2>3, BudgetRange, Constants DEF Waited
<1>5. CASE Resend
  <2>1. call' = call /\ call # "nap" /\ left = 0 /\ left' = WaitSeconds
    BY <1>5 DEF Resend, Resent
  <2>2. Remaining = WaitSeconds /\ Remaining' = WaitSeconds
    BY <2>1, Constants DEF Remaining
  <2> QED
    BY <2>1, <2>2, BudgetRange, Constants DEF Waited
<1>6. CASE GiveUpExchange
  <2>1. Enter("gone")
    BY <1>2, <1>6 DEF GiveUpExchange, Failed, LeaveOr, Waits, Resent, Waited
  <2> QED
    BY <1>3, <2>1
<1>7. CASE SendFails
  <2>1. faults' = 1
    BY <1>7, AttemptsAssumption, Constants DEF SendFails, OneMoreFault, ClientTypeOK
  <2> QED
    BY <2>1
<1>8. CASE Stray
  <2>1. strays' = strays + 1 /\ strays \in Nat
    BY <1>8, Constants DEF Stray, ClientTypeOK
  <2> QED
    BY <2>1
<1>9. CASE LogoutChallengeAnswered
  <2>1. call = "logoutChallenge" /\ Enter("logout")
    BY <1>9 DEF LogoutChallengeAnswered
  <2>2. call' = "logout" /\ left' = WaitSeconds
    BY <2>1, CallNames DEF Enter
  <2>3. Remaining' = WaitSeconds
    BY <2>2, Constants DEF Remaining
  <2> QED
    BY <1>1, <2>1, <2>2, <2>3, BudgetRange, Constants DEF Waited
<1>10. CASE LogoutHandled
  <2>1. call' = call /\ left' = left
    BY <1>10 DEF LogoutHandled, callVars
  <2>2. Remaining' = Remaining
    BY <2>1 DEF Remaining
  <2>3. Waited' /\ (call' = "nap" => left' = 0)
    BY <2>1 DEF Waited
  <2> QED
    BY <1>1, <2>1, <2>2, <2>3, BudgetRange, Constants
<1>11. CASE LogoutAnswered
  BY <1>3, <1>11 DEF LogoutAnswered
<1> QED
  BY <1>2, <1>4, <1>5, <1>6, <1>7, <1>8, <1>9, <1>10, <1>11
  DEF ThreadStep, ChallengeAnswered, LoginHandled, LoginAccepted, LoginRefused,
      NoticeReceived, KeepaliveAnswered

LEMMA GraceThread ==
    ASSUME ClientTypeOK, OuterInv, GraceInv, ThreadStep,
           UNCHANGED <<procd, procdLeft, script, scriptLeft, polls>>
    PROVE  GraceInv'
<1>1. UNCHANGED <<stop, caught>> /\ (faults' = 0 => faults = 0) /\ Alive
  BY ThreadHistory, AliveOnly
<1>2. strays' = 0 => strays = 0
  <2>1. CASE Stray
    BY <2>1, Constants DEF Stray, ClientTypeOK
  <2>2. CASE ~ Stray
    BY <2>2 DEF ThreadStep, SleepOver, Resend, GiveUpExchange, SendFails, ChallengeAnswered,
       LoginHandled, LoginAccepted, LoginRefused, NoticeReceived, KeepaliveAnswered,
       LogoutChallengeAnswered, LogoutHandled, LogoutAnswered, history
  <2> QED
    BY <2>1, <2>2
<1>3. Alive' /\ (procd' = "term" \/ script' = "poll") => stop'
  BY <1>1 DEF GraceInv
<1>4. caught' = "nap" => stop'
  BY <1>1 DEF GraceInv
<1>5. ASSUME Asleep' PROVE GraceKept'
  <2>1. /\ GraceKept /\ stop
        /\ Waited /\ (call = "nap" => left = 0)
    BY <1>1, <1>2, <1>5 DEF GraceInv, Asleep, GraceKept
  <2>2. faults' = 0 /\ strays' = 0
    BY <1>5 DEF Asleep
  <2>3. CASE ~ Alive' /\ call' # "killed"
    BY <2>3 DEF GraceKept
  <2>4. CASE /\ Waited' /\ (call' = "nap" => left' = 0)
             /\ Remaining' \in Int
             /\ Remaining' + LogoutBudget <= Remaining + LogoutBudget'
    <3> DEFINE extra == One(script # "idle") * WaitSeconds
               term == TermTimeout - procdLeft
               poll == polls + 1 - scriptLeft
    <3>1. extra' = extra /\ term' = term /\ poll' = poll
      OBVIOUS
    <3>2. extra \in Int /\ term \in Int /\ poll \in Int
      BY OuterRange
    <3>3. /\ LogoutBudget \in Int /\ LogoutBudget' \in Int
          /\ Remaining \in Int /\ Remaining' \in Int
      BY <2>1, <2>4, BudgetRange, RemainingRange, Constants
    <3>4. call' # "killed"
      BY <2>4 DEF Waited
    <3>5. procd = "term" => term + Remaining <= LogoutBudget + extra
      BY <1>1, <2>1 DEF GraceKept
    <3>6. script = "poll" => poll + Remaining <= LogoutBudget + 0
      <4>1. script = "poll" => poll + Remaining <= LogoutBudget
        BY <1>1, <2>1 DEF GraceKept
      <4> QED
        BY <3>3, <4>1
    <3> HIDE DEF extra, term, poll
    <3>7. procd = "term" => term + Remaining' <= LogoutBudget' + extra
      BY <2>4, <3>2, <3>3, <3>5, NoMoreThanBefore, Zenon
    <3>8. script = "poll" => poll + Remaining' <= LogoutBudget' + 0
      <4>1. 0 \in Int
        OBVIOUS
      <4> QED
        BY <2>4, <3>2, <3>3, <3>6, <4>1, NoMoreThanBefore, Zenon
    <3>9. script = "poll" => poll + Remaining' <= LogoutBudget'
      BY <3>2, <3>3, <3>8, NoExtra, Zenon
    <3> QED
      BY <2>4, <3>1, <3>4, <3>7, <3>9 DEF GraceKept, extra, term, poll
  <2> QED
    BY <2>1, <2>2, <2>3, <2>4, LogoutMoves
<1> QED
  BY <1>3, <1>4, <1>5 DEF GraceInv

(* What a TERM finds in a client that it, or an earlier one, woke.         *)
LEMMA TermWakes ==
    ASSUME ClientTypeOK, GraceInv, Term
    PROVE  /\ stop' /\ call' = call /\ Alive
           /\ Asleep' =>
                /\ call' # "killed" /\ Waited' /\ (call' = "nap" => left' = 0)
                /\ Remaining' \in 1 .. WaitSeconds
                /\ stop => Asleep /\ GraceKept /\ Remaining \in 1 .. WaitSeconds
<1>1. /\ stop' = TRUE /\ call' = call /\ UNCHANGED <<faults, strays>> /\ Alive
      /\ left' \in {0} \cup {s \in {left} : s = Duration(call)}
      /\ caught' = IF left' = 0 /\ (~ stop \/ call = "login") THEN call ELSE caught
  BY DEF Term
<1>2. SUFFICES ASSUME Asleep'
               PROVE  /\ call' # "killed" /\ Waited' /\ (call' = "nap" => left' = 0)
                      /\ Remaining' \in 1 .. WaitSeconds
                      /\ stop => Asleep /\ GraceKept /\ Remaining \in 1 .. WaitSeconds
  BY <1>1
<1>3. CASE caught = "nap"
  <2>1. Asleep /\ GraceKept
    BY <1>1, <1>2, <1>3 DEF GraceInv, Asleep
  <2>2. Waited /\ (call = "nap" => left = 0)
    BY <1>1, <2>1 DEF GraceKept
  <2>3. Remaining \in 1 .. WaitSeconds
    BY <2>2, RemainingRange
  <2>4. left' = 0 \/ left' = left
    BY <1>1
  <2>5. Remaining' \in 1 .. WaitSeconds
    BY <2>3, <2>4, Constants DEF Remaining
  <2>6. Waited' /\ (call' = "nap" => left' = 0)
    BY <1>1, <2>2, <2>4 DEF Waited
  <2>7. call' # "killed"
    BY <2>6 DEF Waited
  <2> QED
    BY <2>1, <2>3, <2>5, <2>6, <2>7
<1>4. CASE caught # "nap"
  <2>1. call = "nap" /\ left' = 0 /\ ~ stop
    BY <1>1, <1>2, <1>4 DEF Asleep
  <2>2. Remaining' \in 1 .. WaitSeconds
    BY <2>1, Constants DEF Remaining
  <2> QED
    BY <1>1, <2>1, <2>2 DEF Waited
<1> QED
  BY <1>3, <1>4

LEMMA GraceStop ==
    ASSUME ClientTypeOK, OuterInv, GraceInv, Term, script = "idle", script' = script,
           procd' = "term", procdLeft' = TermTimeout
    PROVE  GraceInv'
<1>1. ASSUME Asleep' PROVE GraceKept'
  <2>1. /\ call' # "killed" /\ Waited' /\ (call' = "nap" => left' = 0)
        /\ Remaining' \in 1 .. WaitSeconds
    BY <1>1, TermWakes
  <2>2. TermTimeout - procdLeft' = 0
    BY OuterRange
  <2>3. One(script' # "idle") * WaitSeconds = 0
    BY Constants DEF One
  <2>4. LogoutBudget' \in Nat /\ LogoutBudget' >= WaitSeconds
    BY BudgetRange, Constants
  <2>5. (TermTimeout - procdLeft') + Remaining' <= LogoutBudget' + One(script' # "idle") * WaitSeconds
    BY <2>1, <2>2, <2>3, <2>4, Constants
  <2> QED
    BY <2>1, <2>5 DEF GraceKept
<1> QED
  BY <1>1, TermWakes DEF GraceInv

LEMMA GraceRecovery ==
    ASSUME ClientTypeOK, OuterInv, GraceInv, Term, script = "idle", script' = "poll",
           scriptLeft' = 1, polls' = 0, UNCHANGED <<procd, procdLeft>>
    PROVE  GraceInv'
<1>1. ASSUME Asleep' PROVE GraceKept'
  <2>1. /\ call' = call /\ Alive
        /\ call' # "killed" /\ Waited' /\ (call' = "nap" => left' = 0)
        /\ Remaining' \in 1 .. WaitSeconds
        /\ stop => GraceKept /\ Remaining \in 1 .. WaitSeconds
    BY <1>1, TermWakes
  <2>2. /\ LogoutBudget \in Nat /\ LogoutBudget' = LogoutBudget
        /\ LogoutBudget >= WaitSeconds
    BY <2>1, BudgetRange
  <2>3. (polls' + 1 - scriptLeft') + Remaining' <= LogoutBudget'
    <3>1. polls' + 1 - scriptLeft' = 0
      OBVIOUS
    <3>2. LogoutBudget' \in Nat /\ LogoutBudget' >= WaitSeconds
      BY <2>2
    <3>3. /\ Remaining' \in Int /\ WaitSeconds \in Int /\ LogoutBudget' \in Int
          /\ Remaining' <= WaitSeconds
      BY <2>1, <3>2, Constants
    <3> QED
      BY <3>1, <3>2, <3>3, FromNow, Zenon
  <2>4. /\ One(script # "idle") * WaitSeconds = 0
        /\ One(script' # "idle") * WaitSeconds = WaitSeconds
    BY Constants DEF One
  <2>5. ASSUME procd = "term"
        PROVE  (TermTimeout - procdLeft') + Remaining'
                 <= LogoutBudget' + One(script' # "idle") * WaitSeconds
    <3>1. stop
      BY <2>1, <2>5 DEF GraceInv
    <3>2. (TermTimeout - procdLeft) + Remaining <= LogoutBudget
      BY <2>1, <2>2, <2>4, <2>5, <3>1 DEF GraceKept
    <3>3. TermTimeout - procdLeft \in Int
      BY OuterRange
    <3> QED
      BY <2>1, <2>2, <2>4, <3>1, <3>2, <3>3, Constants
  <2> QED
    BY <2>1, <2>3, <2>5 DEF GraceKept
<1> QED
  BY <1>1, TermWakes DEF GraceInv

LEMMA GraceOtherTerm ==
    ASSUME ClientTypeOK, GraceInv, Term, ~ stop,
           UNCHANGED <<procd, procdLeft, script, scriptLeft, polls>>
    PROVE  GraceInv'
<1>1. procd # "term" /\ script # "poll"
  BY TermWakes DEF GraceInv
<1>2. Asleep' => GraceKept'
  BY <1>1, TermWakes DEF GraceKept
<1> QED
  BY <1>2, TermWakes DEF GraceInv

(* The KILLs come too late for a client without a fault.                   *)
LEMMA GraceKill ==
    ASSUME ClientTypeOK, OuterInv, GraceInv, Kill,
           \/ procd = "term" /\ procdLeft = 0
           \/ script = "poll" /\ scriptLeft = 0 /\ polls + 1 = Polls
    PROVE  GraceInv'
<1>1. UNCHANGED <<stop, caught, faults, strays>> /\ Alive /\ ~ Alive'
  BY AliveOnly DEF Kill, history
<1>2. ASSUME Asleep PROVE FALSE
  <2>1. GraceKept /\ Waited /\ (call = "nap" => left = 0)
    BY <1>1, <1>2 DEF GraceInv, GraceKept
  <2>2. Remaining \in 1 .. WaitSeconds
    BY <2>1, RemainingRange
  <2>3. LogoutBudget \in Nat /\ LogoutBudget <= 2 * WaitSeconds
    BY BudgetRange
  <2>4. CASE procd = "term" /\ procdLeft = 0
    <3>1. (TermTimeout - procdLeft) + Remaining <= LogoutBudget + One(script # "idle") * WaitSeconds
      BY <1>1, <2>1, <2>4 DEF GraceKept
    <3>2. TermTimeout - procdLeft = TermTimeout
      BY <2>4, OuterRange
    <3> QED
      BY <2>2, <2>3, <3>1, <3>2, OuterRange, GraceAssumption, Constants
  <2>5. CASE script = "poll" /\ scriptLeft = 0 /\ polls + 1 = Polls
    <3>1. (polls + 1 - scriptLeft) + Remaining <= LogoutBudget
      BY <1>1, <2>1, <2>5 DEF GraceKept
    <3>2. polls + 1 - scriptLeft = Polls
      BY <2>5, OuterRange
    <3> QED
      BY <2>2, <2>3, <3>1, <3>2, OuterRange, GraceAssumption, Constants
  <2> QED
    BY <2>4, <2>5
<1>3. ~ Asleep'
  BY <1>1, <1>2 DEF Asleep
<1> QED
  BY <1>1, <1>3 DEF GraceInv

LEMMA GraceEnded ==
    ASSUME GraceInv, UNCHANGED clientVars, ~ Alive
    PROVE  GraceInv'
<1>1. UNCHANGED <<call, stop, caught, faults, strays>> /\ ~ Alive'
  BY AliveOnly DEF clientVars, callVars, history
<1>2. ASSUME Asleep' PROVE GraceKept'
  <2>1. call # "killed"
    BY <1>1, <1>2 DEF GraceInv, GraceKept, Asleep
  <2> QED
    BY <1>1, <2>1 DEF GraceKept
<1> QED
  BY <1>1, <1>2 DEF GraceInv

LEMMA GraceSame ==
    ASSUME GraceInv, UNCHANGED <<clientVars, procd, procdLeft, script>>,
           polls' + 1 - scriptLeft' = polls + 1 - scriptLeft
    PROVE  GraceInv'
<1>1. UNCHANGED <<call, left, stop, caught, faults, strays>>
  BY DEF clientVars, callVars, history
<1>2. /\ Alive' = Alive /\ Asleep' = Asleep /\ Waited' = Waited
      /\ Remaining' = Remaining /\ LogoutBudget' = LogoutBudget
  BY <1>1, AliveOnly DEF Asleep, Waited, Remaining, LogoutBudget
<1> QED
  BY <1>1, <1>2 DEF GraceInv, GraceKept

LEMMA GraceTick ==
    ASSUME ClientTypeOK, OuterInv, GraceInv, Tick
    PROVE  GraceInv'
<1>1. /\ UNCHANGED <<procd, script, polls>> /\ ClientTick
      /\ procdLeft' = CountDown(procdLeft) /\ scriptLeft' = CountDown(scriptLeft)
  BY DEF Tick
<1>2. CASE ~ Alive
  BY <1>1, <1>2, GraceEnded DEF ClientTick
<1>3. CASE Alive
  <2>1. /\ left > 0 /\ left' = left - 1
        /\ UNCHANGED <<call, stop, caught, strays>>
        /\ faults' = IF Unanswered /\ left = 1
                     THEN IF faults < FaultCap THEN faults + 1 ELSE faults
                     ELSE faults
    BY <1>1, <1>3 DEF ClientTick, OneMoreFault
  <2>2. ASSUME Asleep' PROVE GraceKept'
    <3>1. faults = 0 /\ ~ (Unanswered /\ left = 1)
      BY <2>1, <2>2, Constants, AttemptsAssumption DEF Asleep, ClientTypeOK
    <3>2. GraceKept
      BY <2>1, <2>2, <3>1 DEF GraceInv, Asleep
    <3>3. Waited /\ call # "nap" /\ Unanswered
      BY <1>3, <2>1, <3>2 DEF GraceKept, Waited, Unanswered, Waits, Resent
    <3>4. Remaining \in 1 .. WaitSeconds
      BY <3>3, RemainingRange
    <3>5. Remaining' = Remaining - 1
      <4>1. left # 0 /\ Remaining = left
        BY <2>1 DEF Remaining
      <4>2. left' # 0
        BY <2>1, <3>1, <3>3, <3>4, <4>1, Constants
      <4> QED
        BY <2>1, <4>1, <4>2 DEF Remaining
    <3>6. LogoutBudget' = LogoutBudget /\ LogoutBudget \in Int
      BY <2>1, BudgetRange
    <3>7. procd = "term" => procdLeft' = procdLeft - 1
      <4>1. procd = "term" => procdLeft # 0
        BY DEF Tick, ProcdDue
      <4>2. procdLeft \in Nat
        BY ServiceAssumption DEF OuterInv, OuterOK
      <4> QED
        BY <1>1, <4>1, <4>2 DEF CountDown
    <3>8. script = "poll" => scriptLeft' = scriptLeft - 1
      <4>1. script = "poll" => scriptLeft # 0
        BY DEF Tick, ScriptDue
      <4>2. scriptLeft \in Nat
        BY DEF OuterInv, OuterOK
      <4> QED
        BY <1>1, <4>1, <4>2 DEF CountDown
    <3>9. ASSUME procd = "term"
          PROVE  (TermTimeout - procdLeft') + Remaining'
                   <= LogoutBudget' + One(script' # "idle") * WaitSeconds
      <4>1. (TermTimeout - procdLeft) + Remaining
               <= LogoutBudget + One(script # "idle") * WaitSeconds
        BY <1>3, <3>2, <3>9 DEF GraceKept
      <4>2. (TermTimeout - procdLeft') + Remaining' = (TermTimeout - procdLeft) + Remaining
        BY <3>4, <3>5, <3>7, <3>9, OuterRange
      <4> QED
        BY <1>1, <3>6, <4>1, <4>2
    <3>10. ASSUME script = "poll"
           PROVE  (polls' + 1 - scriptLeft') + Remaining' <= LogoutBudget'
      <4>1. (polls + 1 - scriptLeft) + Remaining <= LogoutBudget
        BY <1>3, <3>2, <3>10 DEF GraceKept
      <4>2. (polls' + 1 - scriptLeft') + Remaining' = (polls + 1 - scriptLeft) + Remaining
        BY <1>1, <3>4, <3>5, <3>8, <3>10, OuterRange
      <4> QED
        BY <3>6, <4>1, <4>2
    <3>11. Waited' /\ call' # "nap" /\ call' # "killed"
      BY <2>1, <3>3 DEF Waited
    <3> QED
      BY <1>1, <3>9, <3>10, <3>11 DEF GraceKept
  <2>3. Alive' = Alive
    BY <1>1, AliveOnly
  <2> QED
    BY <1>1, <2>1, <2>2, <2>3 DEF GraceInv
<1> QED
  BY <1>2, <1>3

LEMMA GraceInvInductive ==
    ASSUME ClientInv, OuterInv, GraceInv, [Next]_vars
    PROVE  GraceInv'
<1> USE DEF ClientInv
<1>1. CASE StartFree \/ PollFree \/ AfterStrike \/ StartBusy \/ Reap
  <2>1. ~ Alive
    BY <1>1 DEF StartFree, PollFree, AfterStrike, StartBusy, Reap, PortFree, OuterInv,
       ServiceInv
  <2>2. UNCHANGED clientVars
    BY <1>1 DEF StartFree, PollFree, AfterStrike, StartBusy, Reap
  <2> QED
    BY <2>1, <2>2, GraceEnded
<1>2. CASE StartRecovery
  <2>1. /\ script = "idle" /\ script' = "poll" /\ scriptLeft' = 1 /\ polls' = 0
        /\ UNCHANGED <<procd, procdLeft>>
    BY <1>2 DEF StartRecovery, SleepOneSecond, procdVars
  <2>2. CASE Term
    BY <2>1, <2>2, GraceRecovery
  <2>3. CASE squatter = "other" /\ UNCHANGED clientVars
    BY <2>3, GraceEnded DEF OuterInv, ServiceInv
  <2> QED
    BY <1>2, <2>2, <2>3 DEF StartRecovery
<1>3. CASE PollAgain
  <2>1. /\ scriptLeft = 0 /\ scriptLeft' = 1 /\ polls' = polls + 1
        /\ UNCHANGED <<clientVars, procd, procdLeft, script>>
    BY <1>3 DEF PollAgain, SleepOneSecond, procdVars
  <2>2. polls' + 1 - scriptLeft' = polls + 1 - scriptLeft
    BY <2>1, OuterRange
  <2> QED
    BY <2>1, <2>2, GraceSame
<1>4. CASE Strike
  <2>1. CASE Kill
    BY <1>4, <2>1, GraceKill DEF Strike
  <2>2. CASE squatter = "other" /\ UNCHANGED clientVars
    BY <2>2, GraceEnded DEF OuterInv, ServiceInv
  <2> QED
    BY <1>4, <2>1, <2>2 DEF Strike
<1>5. CASE Stop
  <2>1. script = "idle" /\ UNCHANGED <<script, scriptLeft, polls>>
    BY <1>5 DEF Stop
  <2>2. CASE procd = "up" /\ Alive
    BY <1>5, <2>1, <2>2, GraceStop DEF Stop
  <2>3. CASE ~ Alive
    BY <1>5, <2>3, GraceEnded DEF Stop
  <2>4. CASE Alive /\ procd # "up"
    <3>1. procd = "term"
      BY <2>4 DEF OuterInv, OuterOK, ServiceInv
    <3>2. UNCHANGED <<clientVars, procd, procdLeft>>
      BY <1>5, <2>4, <3>1 DEF Stop
    <3> QED
      BY <2>1, <3>2, GraceSame
  <2> QED
    BY <2>2, <2>3, <2>4
<1>6. CASE Fork
  <2>1. PortFree
    BY <1>6 DEF Fork, ForkDue, OuterInv, ServiceInv, PortFree
  <2>2. Launch /\ procd' = "up" /\ UNCHANGED scriptVars
    BY <1>6, <2>1 DEF Fork
  <2>3. script = "idle"
    BY <1>6 DEF Fork, ForkDue, OuterInv, OuterOK, ServiceInv
  <2>4. caught' = "none"
    BY <2>2 DEF Launch
  <2> QED
    BY <2>2, <2>3, <2>4 DEF GraceInv, Asleep, scriptVars
<1>7. CASE TermRunsOut
  BY <1>7, GraceKill DEF TermRunsOut
<1>8. CASE OtherTerm
  BY <1>8, GraceOtherTerm DEF OtherTerm, procdVars, scriptVars
<1>9. CASE Client
  BY <1>9, GraceThread DEF Client, procdVars, scriptVars
<1>10. CASE Tick
  BY <1>10, GraceTick
<1>11. CASE SquatterLeaves \/ SquatterComes \/ UNCHANGED vars
  <2>1. UNCHANGED <<clientVars, procd, procdLeft, script, scriptLeft, polls>>
    BY <1>11 DEF SquatterLeaves, SquatterComes, vars, procdVars, scriptVars
  <2> QED
    BY <2>1, GraceSame
<1> QED
  BY <1>1, <1>2, <1>3, <1>4, <1>5, <1>6, <1>7, <1>8, <1>9, <1>10, <1>11 DEF Next

LEMMA GraceInvInit ==
    ASSUME Init
    PROVE  GraceInv
<1>1. ~ Alive /\ caught = "none"
  BY DEF Init, ClientInit, Alive, Ended
<1> QED
  BY <1>1 DEF GraceInv, Asleep

(* A client woken from its nap by a TERM is killed in its logout only      *)
(* after a fault or a stray, if three waits fit into procd's term_timeout  *)
(* and two into the script's loop (init.d/drcom:95, 124): however late the *)
(* server answers, and whichever TERM follows the first.                   *)
THEOREM KillsHaveCauses == Spec => []KillHasCause
<1>1. ClientInv /\ GraceInv => KillHasCause
  <2> SUFFICES ASSUME ClientInv, GraceInv, call = "killed", caught = "nap"
               PROVE  faults + strays > 0
    BY DEF KillHasCause
  <2>1. faults \in Nat /\ strays \in Nat
    BY Constants DEF ClientInv, ClientTypeOK
  <2>2. ~ (faults = 0 /\ strays = 0)
    BY DEF GraceInv, Asleep, GraceKept
  <2> QED
    BY <2>1, <2>2
<1>2. ClientInv /\ OuterInv /\ GraceInv /\ [Next]_vars => GraceInv'
  BY GraceInvInductive
<1>3. Init => GraceInv
  BY GraceInvInit
<1>4. Spec => []GraceInv
  BY <1>2, <1>3, Invariance, PTL DEF Spec
<1> QED
  BY <1>1, <1>4, Invariance, PTL
=============================================================================
