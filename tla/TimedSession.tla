---------------------------- MODULE TimedSession ----------------------------
(***************************************************************************)
(* dogcom() of src/drcom/src/auth.c in DHCP mode with -e, as the init      *)
(* script starts it, with its clock: how long the thread sits in each      *)
(* recvfrom and each sleep, and what a SIGTERM cuts short.  DhcpSession    *)
(* has the contents of the datagrams; here a datagram is the answer, a     *)
(* stray, or missing.                                                      *)
(*                                                                         *)
(* `call' is where the thread is blocked: waiting for the answer to a      *)
(* packet, for the notice after a login, or sleeping (delay at start-up,   *)
(* nap after a good round, backoff before a retry).  Time passes only      *)
(* while it is blocked, one second at a time, and never past the end of a  *)
(* wait; usleep(200000) between two packets is taken as no time.           *)
(***************************************************************************)
EXTENDS Integers

CONSTANTS
    WaitSeconds,       \* SO_RCVTIMEO of the socket: 3
    RetryCount,        \* DRCOM_UDP_PACKET_RETRY_COUNT: 3
    NapSeconds,        \* sleep(20) after a good round
    BackoffSeconds,    \* sleep_before_retry
    StartupSeconds,    \* maybe_delay_initial_login
    RoundLengths,      \* exchanges in a round: 3, 4 with either option, 5 with both
    MaxRound,          \* the longest of them
    FailureThreshold,  \* DRCOM_KEEPALIVE_FAILURE_RECONNECT_THRESHOLD: 6
    Faulty,            \* may answers be lost or take a second, a sendto fail?
    MaxStrays,         \* bound: unexpected datagrams in the life of a process
    FaultCap           \* bound: faults are counted up to here

ASSUME TimedAssumption ==
    /\ {WaitSeconds, NapSeconds, BackoffSeconds, FailureThreshold} \subseteq Nat \ {0}
    /\ {RetryCount, StartupSeconds, MaxStrays, FaultCap, MaxRound} \subseteq Nat
    /\ RoundLengths # {} /\ RoundLengths \subseteq 3 .. MaxRound
    /\ Faulty \in BOOLEAN

VARIABLES
    call,      \* where the thread is blocked
    left,      \* seconds until that call returns by itself
    sends,     \* packets sent in this call
    togo,      \* exchanges of the round not yet answered
    failures,  \* keepalive_try_counter
    stop,      \* stop_requested
    session,   \* does the server hold a session this process logged in?
    elapsed,   \* history: seconds since the stop was raised
    caught,    \* history: the call interrupted by the signal that raised it,
               \* or the login a later one interrupted
    faults,    \* history: waits that ran out and sends that failed
    strays     \* history: unexpected datagrams

callVars == <<call, left, sends, togo, failures>>
history == <<elapsed, caught, faults, strays>>
clientVars == <<callVars, stop, session, history>>

Resent == {"challenge", "keepalive", "logoutChallenge", "logout"}
Waits == Resent \cup {"login", "notice"}
Sleeps == {"delay", "nap", "backoff"}
Ended == {"gone", "killed"}

Alive == call \notin Ended

Duration(c) ==
    CASE c = "delay" -> StartupSeconds
      [] c = "nap" -> NapSeconds
      [] c = "backoff" -> BackoffSeconds
      [] c \in Ended -> 0
      [] OTHER -> WaitSeconds

ClientTypeOK ==
    /\ call \in Waits \cup Sleeps \cup Ended
    /\ left \in 0 .. Duration(call)
    /\ sends \in 1 .. RetryCount + 1
    /\ togo \in 0 .. MaxRound
    /\ failures \in 0 .. FailureThreshold
    /\ stop \in BOOLEAN
    /\ session \in BOOLEAN
    /\ elapsed \in Nat
    /\ caught \in Waits \cup Sleeps \cup {"none"}
    /\ faults \in 0 .. FaultCap
    /\ strays \in 0 .. MaxStrays

ClientInit ==
    /\ call = "gone" /\ left = 0 /\ sends = 1 /\ togo = 0 /\ failures = 0
    /\ stop = FALSE /\ session = FALSE
    /\ elapsed = 0 /\ caught = "none" /\ faults = 0 /\ strays = 0

OneMoreFault == faults' = IF faults < FaultCap THEN faults + 1 ELSE faults

-----------------------------------------------------------------------------
(* From one call to the next. *)

Enter(c) == call' = c /\ left' = Duration(c) /\ sends' = 1

(* Where the code reads the flag: it leaves, or goes on. *)
LeaveOr(c) == Enter(IF stop THEN "gone" ELSE c) /\ UNCHANGED <<togo, failures>>

BeginRound == Enter("keepalive") /\ togo' \in RoundLengths

BeginLogout == Enter("logoutChallenge") /\ UNCHANGED togo

(* Mutant: the flag is read after the round, not before it. *)
RoundFirst == BeginRound

(* Mutant: a stop ends the process without a logout. *)
LeaveAtTop == IF stop THEN Enter("gone") /\ UNCHANGED togo ELSE BeginRound

(* The head of the keepalive loop. *)
Top == IF stop THEN BeginLogout ELSE BeginRound

RoundFailed ==
    LET given == failures + 1 >= FailureThreshold
    IN  /\ failures' = failures + 1
        /\ IF given /\ ~ stop
           THEN Enter("backoff") /\ UNCHANGED togo
           ELSE Top

(* An exchange that was not answered. *)
Failed ==
    \/ call \in {"challenge", "login"} /\ LeaveOr("backoff")
    \/ call = "keepalive" /\ RoundFailed
    \/ call = "notice" /\ Top /\ UNCHANGED failures
    \/ call \in {"logoutChallenge", "logout"} /\ LeaveOr("gone")

-----------------------------------------------------------------------------
(* The thread. *)

Launch ==
    /\ ~ Alive
    /\ call' = "delay" /\ left' \in 0 .. StartupSeconds
    /\ sends' = 1 /\ togo' = 0 /\ failures' = 0
    /\ stop' = FALSE /\ session' = FALSE
    /\ elapsed' = 0 /\ caught' = "none" /\ faults' = 0 /\ strays' = 0

SleepOver ==
    /\ call \in Sleeps /\ left = 0
    /\ IF call = "nap" THEN Top /\ UNCHANGED failures ELSE LeaveOr("challenge")
    /\ UNCHANGED <<stop, session, history>>

(* Mutant: a resend that is not counted. *)
ResendForever ==
    /\ call \in Resent /\ left = 0
    /\ left' = WaitSeconds
    /\ UNCHANGED <<call, sends, togo, failures, stop, session, history>>

Resend ==
    /\ call \in Resent /\ left = 0 /\ sends <= RetryCount
    /\ sends' = sends + 1 /\ left' = WaitSeconds
    /\ UNCHANGED <<call, togo, failures, stop, session, history>>

GiveUpExchange ==
    /\ call \in Waits /\ left = 0
    /\ call \in Resent => sends > RetryCount
    /\ Failed
    /\ UNCHANGED <<stop, session, history>>

(* sendto fails: the exchange is over at once, without a wait. *)
SendFails ==
    /\ Faulty /\ call \in Resent /\ left = WaitSeconds
    /\ Failed
    /\ OneMoreFault
    /\ UNCHANGED <<stop, session, elapsed, caught, strays>>

ChallengeAnswered ==
    /\ call = "challenge"
    /\ Enter("login")
    /\ UNCHANGED <<togo, failures, stop, session, history>>

(* The server has accepted the login; its answer is on the way. *)
LoginHandled ==
    /\ call = "login" /\ ~ session
    /\ session' = TRUE
    /\ UNCHANGED <<callVars, stop, history>>

(* Mutant: the failed rounds of the last session are still counted. *)
LoginKeepsFailures ==
    /\ call = "login" /\ session
    /\ Enter("notice")
    /\ UNCHANGED <<togo, failures, stop, session, history>>

LoginAccepted ==
    /\ call = "login" /\ session
    /\ Enter("notice")
    /\ failures' = 0
    /\ UNCHANGED <<togo, stop, session, history>>

(* A server that still holds a session of this process may refuse as well; *)
(* that takes an earlier fault.                                            *)
LoginRefused ==
    /\ call = "login" /\ (~ session \/ faults > 0)
    /\ LeaveOr("backoff")
    /\ UNCHANGED <<stop, session, history>>

(* Any datagram ends the wait for the notice. *)
NoticeReceived ==
    /\ call = "notice"
    /\ Top
    /\ UNCHANGED <<failures, stop, session, history>>

KeepaliveAnswered ==
    /\ call = "keepalive"
    /\ togo' = togo - 1
    /\ \/ togo > 1 /\ Enter("keepalive") /\ UNCHANGED failures
       \/ togo = 1 /\ Enter("nap") /\ failures' = 0
    /\ UNCHANGED <<stop, session, history>>

LogoutChallengeAnswered ==
    /\ call = "logoutChallenge"
    /\ Enter("logout")
    /\ UNCHANGED <<togo, failures, stop, session, history>>

LogoutHandled ==
    /\ call = "logout" /\ session
    /\ session' = FALSE
    /\ UNCHANGED <<callVars, stop, history>>

LogoutAnswered ==
    /\ call = "logout" /\ ~ session
    /\ Enter("gone")
    /\ UNCHANGED <<togo, failures, stop, session, history>>

(* An unexpected datagram: the wait starts again. *)
Stray ==
    /\ call \in Waits \ {"notice"} /\ left > 0 /\ strays < MaxStrays
    /\ left' = WaitSeconds
    /\ strays' = strays + 1
    /\ UNCHANGED <<call, sends, togo, failures, stop, session, elapsed, caught, faults>>

ThreadStep ==
    \/ SleepOver \/ Resend \/ GiveUpExchange \/ SendFails \/ Stray
    \/ ChallengeAnswered \/ LoginHandled \/ LoginAccepted \/ LoginRefused
    \/ NoticeReceived \/ KeepaliveAnswered
    \/ LogoutChallengeAnswered \/ LogoutHandled \/ LogoutAnswered

-----------------------------------------------------------------------------
(* From outside. *)

(* SIGTERM: the handler raises the flag; sleep and a recvfrom with a       *)
(* timeout return.  A signal just before the call cuts nothing short.      *)
Term ==
    /\ Alive
    /\ stop' = TRUE
    /\ left' \in {0} \cup {s \in {left} : s = Duration(call)}
    /\ caught' = IF left' = 0 /\ (~ stop \/ call = "login") THEN call ELSE caught
    /\ UNCHANGED <<call, sends, togo, failures, session, elapsed, faults, strays>>

Kill ==
    /\ Alive
    /\ call' = "killed" /\ left' = 0
    /\ UNCHANGED <<sends, togo, failures, stop, session, history>>

(* A second passes.  The server sends no notice, or answers something.     *)
Unanswered == call \in Waits \ {"notice"}

ClientTick ==
    IF Alive
    THEN /\ left > 0
         /\ Unanswered => Faulty
         /\ left' = left - 1
         /\ elapsed' = IF stop THEN elapsed + 1 ELSE elapsed
         /\ IF Unanswered /\ left = 1 THEN OneMoreFault ELSE UNCHANGED faults
         /\ UNCHANGED <<call, sends, togo, failures, stop, session, caught, strays>>
    ELSE UNCHANGED clientVars

ClientNext == Launch \/ ThreadStep \/ Term \/ Kill \/ ClientTick

-----------------------------------------------------------------------------
Exchange == (RetryCount + 1) * WaitSeconds

(* The longest way out of a session: a round, the nap after it, a logout.  *)
LongestWayOut == MaxRound * Exchange + NapSeconds + 2 * Exchange

(* A stop takes no longer than a full round, the nap after it and a logout *)
(* would, and one wait more for each stray datagram; out of a sleep before *)
(* a login, no longer than that sleep.  So no path of dogcom() begins a    *)
(* back-off, a second round or a second exchange of a kind after a stop    *)
(* (auth.c:853, 887, 936, 946), whatever was lost.                         *)
StopIsTimely ==
    stop /\ Alive =>
        elapsed <= (IF call \in {"backoff", "delay"} THEN Duration(call)
                    ELSE LongestWayOut) + WaitSeconds * strays

(* A process that ended by itself left its session at the server only if   *)
(* something was lost, or the signal interrupted the wait for the answer   *)
(* to its login (auth.c:946): other signals cut waits short, but never all *)
(* the attempts of a logout.                                               *)
LeftBehindHasCause ==
    call = "gone" /\ session => faults > 0 \/ caught = "login"

Phase ==
    CASE call \in {"notice", "keepalive"} -> "online"
      [] call = "nap" -> "resting"
      [] call \in {"logoutChallenge", "logout"} -> "leaving"
      [] call = "gone" -> "gone"
      [] call = "killed" -> "dead"
      [] OTHER -> "offline"

Misses == IF Phase = "online" THEN failures ELSE 0

(* The init script and procd start the client again also after a stop. *)
Lifecycle == INSTANCE ClientLifecycle WITH
    phase <- Phase, stopping <- stop, misses <- Misses, OnCommand <- TRUE

(* The client that procd and the init script start, signal, kill and start *)
(* again keeps the promise of ClientLifecycle too: a signal that cuts a    *)
(* wait or a sleep short never takes it out of a session past the logout,  *)
(* and no failed round of an earlier session counts in this one.           *)
KeepsLifecycle == Lifecycle!LifeSpec
=============================================================================
