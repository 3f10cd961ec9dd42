----------------------------- MODULE DhcpSession -----------------------------
(***************************************************************************)
(* dogcom() of src/drcom/src/auth.c in DHCP mode: challenge, login, the    *)
(* keepalive rounds, giving a dead session up and logging in again, and    *)
(* the logout before a requested stop.  It runs as one thread; SIGINT and  *)
(* SIGTERM only raise the `stop' flag, which the loop reads between calls. *)
(* The process may be killed and procd starts it again (files/etc/init.d). *)
(*                                                                         *)
(* `pc' is where the loop is:                                              *)
(*   start    opening the socket, sleeping the start-up delay              *)
(*   loop     the head of the for loop over try_counter                    *)
(*   attempt  inside dhcp_challenge or dhcp_login                          *)
(*   top      the head of the keepalive while loop                         *)
(*   round    inside keepalive_1 or keepalive_2                            *)
(*   nap      sleep(20) after a good round                                 *)
(*   backoff  sleep_before_retry                                           *)
(*   logout   inside logout_before_stop_exit                               *)
(*   exit0, exit1, killed   the process is gone                            *)
(***************************************************************************)
EXTENDS Keepalive, AuthServer, RetryAfter

CONSTANTS
    TryTimes,             \* dogcom(5) in main.c
    Eternal,              \* -e, as the init script starts the service
    JluMode,              \* drcom_config.jlu_mode
    AddressOutcomes,      \* may host_ip, PRIMARY_DNS and dhcp_server all parse?
    Crashes,              \* may the process be killed and respawned?
    RefusalTexts          \* what the refusals may say, byte by byte

ASSUME SessionAssumption ==
    /\ TryTimes \in Nat \ {0, 1}
    /\ {Eternal, JluMode, Crashes} \cup AddressOutcomes \subseteq BOOLEAN
    /\ RefusalTexts \subseteq Seq(0 .. 255)

VARIABLES
    pc,
    stop,         \* stop_requested
    tries,        \* try_counter
    loginFailed,  \* login_failed_attempts, up to NextFailedLogins
    template,     \* try_JLUversion
    delay,        \* login_retry_delay_seconds
    seed,
    auth,         \* auth_information of the last accepted login
    failures,     \* keepalive_try_counter
    rounds,       \* keepalive_rounds, up to NextRounds
    addresses     \* do the three addresses of the configuration parse?

clientVars == <<pc, stop, tries, loginFailed, template, delay, seed, auth,
                failures, rounds, counter, addresses>>
vars == <<clientVars, udpVars, session>>

Exited == {"exit0", "exit1", "killed"}
Pcs == {"start", "loop", "attempt", "top", "round", "nap", "backoff",
        "logout"} \cup Exited

TypeOK ==
    /\ UdpTypeOK
    /\ session \in Nonces \cup {None}
    /\ counter \in Counters
    /\ pc \in Pcs
    /\ stop \in BOOLEAN
    /\ tries \in 0 .. TryTimes
    /\ loginFailed \in 0 .. 4
    /\ template \in Templates
    /\ delay \in Nat \ {0}
    /\ seed \in Nonces \cup {None}
    /\ auth \in Nonces \cup {None}
    /\ failures \in 0 .. FailureThreshold
    /\ rounds \in 0 .. ExtraInterval
    /\ addresses \in BOOLEAN

Init ==
    /\ toServer = <<>> /\ toClient = <<>> /\ xch = Idle
    /\ session = None
    /\ pc = "start" /\ stop = FALSE
    /\ tries = 0 /\ loginFailed = 0 /\ template = "STANDARD"
    /\ delay = DefaultDelay
    /\ seed = None /\ auth = None
    /\ failures = 0 /\ rounds = 0 /\ counter = 0
    /\ addresses \in AddressOutcomes

(* rand() for the two id bytes of a challenge: taken not to repeat an id   *)
(* still on its way, nor one behind a session either side holds.           *)
FreshNonces ==
    {n \in Nonces \ {session, auth} :
        /\ \A i \in DOMAIN toServer : toServer[i].id # n
        /\ \A i \in DOMAIN toClient : n \notin {toClient[i].echo, toClient[i].data}}

BeginChallenge(kind) == \E n \in FreshNonces : Begin(kind, n)

-----------------------------------------------------------------------------
(* The socket is made, bound and given its timeout, or the process exits;  *)
(* then the start-up delay is slept.                                       *)
Startup ==
    /\ pc = "start"
    /\ pc' \in {IF stop THEN "exit0" ELSE "loop", "exit1"}
    /\ UNCHANGED <<stop, tries, loginFailed, template, delay, seed, auth,
                   failures, rounds, counter, udpVars, session>>

StopAtLoop ==
    /\ pc = "loop" /\ tries < TryTimes /\ stop
    /\ pc' = "exit0"
    /\ UNCHANGED <<stop, tries, loginFailed, template, delay, seed, auth,
                   failures, rounds, counter, udpVars, session>>

TriesExhausted ==
    /\ pc = "loop" /\ tries >= TryTimes
    /\ pc' = "exit1"
    /\ UNCHANGED <<stop, tries, loginFailed, template, delay, seed, auth,
                   failures, rounds, counter, udpVars, session>>

(* Mutant: the delay of an earlier attempt is kept. *)
StartChallengeKeepsDelay ==
    /\ pc = "loop" /\ tries < TryTimes /\ ~ stop
    /\ BeginChallenge("challenge")
    /\ pc' = "attempt"
    /\ tries' = IF Eternal THEN 0 ELSE tries
    /\ UNCHANGED <<stop, loginFailed, template, delay, seed, auth, failures,
                   rounds, counter, session>>

(* dhcp_challenge resets the retry delay before it sends. *)
StartChallenge ==
    /\ pc = "loop" /\ tries < TryTimes /\ ~ stop
    /\ BeginChallenge("challenge")
    /\ pc' = "attempt"
    /\ tries' = IF Eternal THEN 0 ELSE tries
    /\ delay' = DefaultDelay
    /\ UNCHANGED <<stop, loginFailed, template, seed, auth, failures, rounds,
                   counter, session>>

AfterFailedAttempt == pc' = IF stop THEN "exit0" ELSE "backoff"

ChallengeFailed ==
    /\ pc = "attempt" /\ xch.kind = "challenge" /\ xch.st = "failed"
    /\ AfterFailedAttempt
    /\ UNCHANGED <<stop, tries, loginFailed, template, delay, seed, auth,
                   failures, rounds, counter, udpVars, session>>

(* dhcp_login, which refuses to build a packet without its addresses. *)
SendLogin ==
    /\ pc = "attempt" /\ Answered("challenge")
    /\ addresses
    /\ seed' = xch.got.data
    /\ template' = LoginTemplateForAttempt(JluMode, loginFailed)
    /\ Begin("login", xch.got.data)
    /\ UNCHANGED <<pc, stop, tries, loginFailed, delay, auth, failures, rounds,
                   counter, session>>

LoginImpossible ==
    /\ pc = "attempt" /\ Answered("challenge")
    /\ ~ addresses
    /\ seed' = xch.got.data
    /\ template' = LoginTemplateForAttempt(JluMode, loginFailed)
    /\ loginFailed' = NextFailedLogins(loginFailed)
    /\ AfterFailedAttempt
    /\ UNCHANGED <<stop, tries, delay, auth, failures, rounds, counter,
                   udpVars, session>>

LoginSucceeded == Answered("login") /\ xch.got.first = 4 /\ xch.got.len >= 39
LoginRefused == Answered("login") /\ xch.got.first = 5
LoginUnanswered ==
    \/ xch.kind = "login" /\ xch.st = "failed"
    \/ Answered("login") /\ xch.got.first = 4 /\ xch.got.len < 39

DelayAfterRefusal(d) ==
    IF d.len <= 4 THEN ShortGenericDelay
    ELSE NormalizeLoginRetryDelay(RetryDelayForLoginReply(d.code, d.len, d.after))

LoginFails ==
    /\ pc = "attempt"
    /\ \/ LoginRefused /\ delay' = DelayAfterRefusal(xch.got)
       \/ LoginUnanswered /\ UNCHANGED delay
    /\ loginFailed' = NextFailedLogins(loginFailed)
    /\ AfterFailedAttempt
    /\ UNCHANGED <<stop, tries, template, seed, auth, failures, rounds,
                   counter, udpVars, session>>

(* An accepted login is followed by one recvfrom of whatever comes next. *)
AcceptLogin ==
    /\ pc = "attempt" /\ LoginSucceeded
    /\ auth' = xch.got.data
    /\ Listen("notice")
    /\ UNCHANGED <<pc, stop, tries, loginFailed, template, delay, seed,
                   failures, rounds, counter, session>>

EnterSession ==
    /\ pc = "attempt" /\ xch.kind = "notice" /\ xch.st \in {"got", "failed"}
    /\ pc' = "top"
    /\ xch' = Idle
    /\ loginFailed' = 0 /\ delay' = DefaultDelay
    /\ failures' = 0 /\ rounds' = 0 /\ counter' = 0
    /\ UNCHANGED <<stop, tries, template, seed, auth, toServer, toClient, session>>

-----------------------------------------------------------------------------
StartRound ==
    /\ pc = "top" /\ ~ stop
    /\ BeginKeepalive1(auth)
    /\ pc' = "round"
    /\ UNCHANGED <<stop, tries, loginFailed, template, delay, seed, auth,
                   failures, rounds, session>>

ExtraForRound ==
    IF JluMode THEN KeepaliveExtraKind(rounds)
    ELSE IF rounds = 0 THEN "FIRST" ELSE "NONE"

RoundStep ==
    /\ pc = "round"
    /\ KeepaliveStep \/ (Keepalive1Done /\ BeginKeepalive2(ExtraForRound))
    /\ UNCHANGED <<pc, stop, tries, loginFailed, template, delay, seed, auth,
                   failures, rounds, session>>

RoundDone ==
    /\ pc = "round" /\ Keepalive2Done
    /\ pc' = "nap"
    /\ xch' = Idle
    /\ rounds' = NextRounds(rounds)
    /\ failures' = NextKeepaliveFailureCount(failures, TRUE)
    /\ UNCHANGED <<stop, tries, loginFailed, template, delay, seed, auth,
                   counter, toServer, toClient, session>>

WakeUp ==
    /\ pc = "nap"
    /\ pc' = "top"
    /\ UNCHANGED <<stop, tries, loginFailed, template, delay, seed, auth,
                   failures, rounds, counter, udpVars, session>>

CountFailure == failures' = NextKeepaliveFailureCount(failures, FALSE)

(* A failed round is repeated at once, without a pause... *)
RetryRound ==
    /\ pc = "round" /\ KeepaliveFailed
    /\ CountFailure
    /\ ~ ShouldReconnect(failures')
    /\ pc' = "top"
    /\ xch' = Idle
    /\ UNCHANGED <<stop, tries, loginFailed, template, delay, seed, auth,
                   rounds, counter, toServer, toClient, session>>

(* ... until the threshold: the session is given up, not logged out.       *)
GiveUpSession ==
    /\ pc = "round" /\ KeepaliveFailed /\ ~ stop
    /\ CountFailure
    /\ ShouldReconnect(failures')
    /\ delay' = NormalizeLoginRetryDelay(DefaultDelay)
    /\ pc' = "backoff"
    /\ UNCHANGED <<stop, tries, loginFailed, template, seed, auth, rounds,
                   counter, udpVars, session>>

BackoffEnds ==
    /\ pc = "backoff"
    /\ pc' = "loop"
    /\ tries' = tries + 1
    /\ xch' = Idle
    /\ UNCHANGED <<stop, loginFailed, template, delay, seed, auth, failures,
                   rounds, counter, toServer, toClient, session>>

-----------------------------------------------------------------------------
(* Mutant: the logout packet goes out without a challenge before it. *)
BlindLogout == Begin("logout", auth) /\ pc' = "logout"

BeginLogout ==
    /\ BeginChallenge("logoutChallenge")
    /\ pc' = "logout"

(* Mutant: the keepalive loop leaves without logging out. *)
StopAtTopQuits ==
    /\ pc = "top" /\ stop
    /\ pc' = "exit0"
    /\ UNCHANGED <<stop, tries, loginFailed, template, delay, seed, auth,
                   failures, rounds, counter, udpVars, session>>

StopAtTop ==
    /\ pc = "top" /\ stop
    /\ BeginLogout
    /\ UNCHANGED <<stop, tries, loginFailed, template, delay, seed, auth,
                   failures, rounds, counter, session>>

GiveUpStopping ==
    /\ pc = "round" /\ KeepaliveFailed /\ stop
    /\ CountFailure
    /\ ShouldReconnect(failures')
    /\ delay' = NormalizeLoginRetryDelay(DefaultDelay)
    /\ BeginLogout
    /\ UNCHANGED <<stop, tries, loginFailed, template, seed, auth, rounds,
                   counter, session>>

SendLogout ==
    /\ pc = "logout" /\ Answered("logoutChallenge")
    /\ Begin("logout", auth)
    /\ UNCHANGED <<clientVars, session>>

FinishLogout ==
    /\ pc = "logout" /\ (xch.st = "failed" \/ Answered("logout"))
    /\ pc' = "exit0"
    /\ UNCHANGED <<stop, tries, loginFailed, template, delay, seed, auth,
                   failures, rounds, counter, udpVars, session>>

-----------------------------------------------------------------------------
RequestStop ==
    /\ ~ stop /\ pc \notin Exited
    /\ stop' = TRUE
    /\ UNCHANGED <<pc, tries, loginFailed, template, delay, seed, auth,
                   failures, rounds, counter, udpVars, session>>

(* SIGKILL, from procd ten seconds after SIGTERM or from anywhere else.    *)
Kill ==
    /\ Crashes /\ pc \notin Exited
    /\ pc' = "killed"
    /\ xch' = Idle
    /\ UNCHANGED <<stop, tries, loginFailed, template, delay, seed, auth,
                   failures, rounds, counter, toServer, toClient, session>>

(* procd starts a process that died without being asked to.  What it left  *)
(* on the network reaches its successor, which binds the same port.        *)
Respawn ==
    /\ Crashes /\ pc \in {"killed", "exit1"} /\ ~ stop
    /\ pc' = "start" /\ xch' = Idle
    /\ tries' = 0 /\ loginFailed' = 0 /\ template' = "STANDARD"
    /\ delay' = DefaultDelay /\ seed' = None /\ auth' = None
    /\ failures' = 0 /\ rounds' = 0 /\ counter' = 0
    /\ UNCHANGED <<stop, toServer, toClient, session>>

-----------------------------------------------------------------------------
WaitStep == Wait /\ UNCHANGED <<clientVars, session>>
NetworkStep == Network /\ UNCHANGED <<clientVars, session>>
ServerStep == (ServerNext \/ Stray) /\ UNCHANGED clientVars

AttemptStep ==
    \/ Startup \/ StopAtLoop \/ TriesExhausted \/ StartChallenge
    \/ ChallengeFailed \/ SendLogin \/ LoginImpossible \/ LoginFails
    \/ AcceptLogin \/ EnterSession \/ BackoffEnds

SessionStep ==
    \/ StartRound \/ RoundStep \/ RoundDone \/ WakeUp \/ RetryRound
    \/ GiveUpSession \/ GiveUpStopping

LogoutStep == StopAtTop \/ SendLogout \/ FinishLogout

ClientStep ==
    /\ AttemptStep \/ SessionStep \/ LogoutStep
    /\ UNCHANGED addresses

(* What others do to the process; its configuration file stays the same. *)
OutsideStep ==
    /\ RequestStop \/ Kill \/ Respawn
    /\ UNCHANGED addresses

Next == ClientStep \/ WaitStep \/ NetworkStep \/ ServerStep \/ OutsideStep

Spec == Init /\ [][Next]_vars

TimeoutStep == Timeout /\ UNCHANGED <<clientVars, session>>

(* The client's thread keeps running, and a recvfrom that is not answered  *)
(* returns once the line is quiet for three seconds.  Nothing is asked of  *)
(* the network or of the server.                                           *)
Fairness == WF_vars(ClientStep) /\ WF_vars(TimeoutStep)

FairSpec == Spec /\ Fairness

-----------------------------------------------------------------------------
(* Properties. *)

InSession == pc \in {"top", "round", "nap", "logout"}
GivenUp == failures >= FailureThreshold

(* The authentication data that keepalives and the logout carry is the     *)
(* answer to the login this attempt sent, although dhcp_login takes any    *)
(* 0x04: a late answer to an earlier attempt, or to a process that died,   *)
(* never becomes the session's.                                            *)
AuthMatchesLogin == InSession => auth = seed

(* A logout the client reports as done has ended the server's session, and *)
(* no login is left on its way to open another.                            *)
CleanLogoutReleases ==
    pc = "exit0" /\ Answered("logout") =>
        /\ session = None
        /\ \A i \in DOMAIN toServer : toServer[i].kind # "login"

(* A stop leaves a session the client knew of alive at the server only     *)
(* after its logout was tried to the end, or the session was given up.     *)
StopExitReleases ==
    pc = "exit0" /\ session # None /\ session = auth =>
        \/ xch.kind = "logoutChallenge" /\ xch.st = "failed"
        \/ xch.kind = "logout"
        \/ GivenUp

(* A back-off lasts what the reply that ended this very attempt asks for,  *)
(* and the default otherwise: the delay is a static variable of auth.c,    *)
(* and no value of an earlier attempt survives in it.                      *)
DelayHasCause ==
    pc = "backoff" =>
        IF ~ LoginRefused THEN delay = DefaultDelay
        ELSE LET d == xch.got IN
             /\ d.len <= 4 => delay = ShortGenericDelay
             /\ d.len > 4 /\ d.code = "UPDATE_CLIENT" /\ d.after > 0 => delay = d.after
             /\ d.len > 5 /\ d.code # "UPDATE_CLIENT" => delay = DefaultDelay

(* The cooldown a refused login waits for is the first number of seconds   *)
(* in the text of the refusal, up to half an hour, and no cooldown is read *)
(* out of any other text (auth.c:138).  A function of the text alone: it   *)
(* is compared before the client starts.                                   *)
CooldownIsRead ==
    pc = "start" =>
        \A text \in RefusalTexts : RetryAfterSeconds(text) = Cooldown(text)

(* The two packets that end every keepalive_2, without which no round is   *)
(* good (keepalive.c:476-565), are satisfied only by their own answers,    *)
(* although the counter comes back after CounterModulus packets and starts *)
(* at 0 in every session.  Nothing is said of the extra packet before      *)
(* them: its filter (keepalive.c:449) names the counter and no type, and   *)
(* takes a copy of keepalive_1's answer for its own.                       *)
FreshRoundReplies ==
    xch.st = "got" /\ xch.kind \in {"first", "third"} => xch.got.fresh

(* The same of keepalive_1, which takes any datagram that begins with 07.  *)
FreshKeepalive1Replies ==
    xch.st = "got" /\ xch.kind \in {"keepalive1Seed", "keepalive1"} => xch.got.fresh

(* From the fourth failed login on, each attempt of a generic client uses  *)
(* the template the one before did not.                                    *)
TemplateAlternates ==
    [][SendLogin /\ loginFailed >= 3 /\ ~ JluMode => template' # template]_vars

(* The inductive invariant behind TypeOK, DelayHasCause, StopExitReleases   *)
(* and KeepsLifecycle, proved in DhcpSessionProofs.                         *)

(* An attempt in progress has been let through by the head of the loop.    *)
AttemptCounted ==
    pc \in {"attempt", "top", "round", "nap", "backoff"} => tries < TryTimes

BelowThreshold ==
    /\ pc \in {"top", "round"} => failures < FailureThreshold
    /\ pc = "nap" => failures = 0

(* The thread waits on the socket nowhere but inside a call. *)
WaitsInCalls ==
    /\ xch.st = "wait" => pc \in {"attempt", "round", "logout"}
    /\ pc = "attempt" => xch.kind \in {"challenge", "login", "notice"}
    /\ pc = "logout" => xch.kind \in {"logoutChallenge", "logout"}

DelayIsDefault == pc = "attempt" => delay = DefaultDelay

(* Outside a session the client knows of none, or has given it up. *)
NoSessionForgotten ==
    pc \in {"start", "loop", "backoff"} \/ (pc = "attempt" /\ xch.kind # "notice")
        => auth = None \/ GivenUp

StopExitAccounted ==
    pc = "exit0" =>
        \/ auth = None \/ GivenUp
        \/ xch.kind = "logoutChallenge" /\ xch.st = "failed"
        \/ xch.kind = "logout"

ControlInv ==
    /\ AttemptCounted
    /\ BelowThreshold
    /\ WaitsInCalls
    /\ DelayIsDefault
    /\ NoSessionForgotten
    /\ StopExitAccounted

IInv ==
    /\ TypeOK
    /\ ControlInv
    /\ DelayHasCause

(* The template last tried is the one the count of failed logins says, and *)
(* the next one is the other: what TemplateAlternates rests on.            *)
TemplateTried ==
    pc = "attempt" /\ xch.kind = "login" =>
        template = LoginTemplateForAttempt(JluMode, loginFailed)

TemplateTurns ==
    pc \in {"start", "loop", "backoff"} \/ (pc = "attempt" /\ xch.kind = "challenge") =>
        /\ ~ JluMode /\ loginFailed = 3 => template = "STANDARD"
        /\ ~ JluMode /\ loginFailed = 4 => template = "JLU"

NoneFailedOnline == pc \in {"top", "round", "nap"} => loginFailed = 0

TemplateInv == TemplateTried /\ TemplateTurns /\ NoneFailedOnline

Phase ==
    CASE pc \in {"top", "round"} -> "online"
      [] pc = "nap" -> "resting"
      [] pc = "logout" -> "leaving"
      [] pc \in {"exit0", "exit1"} -> "gone"
      [] pc = "killed" -> "dead"
      [] OTHER -> "offline"

Misses == IF Phase = "online" THEN failures ELSE 0

Lifecycle == INSTANCE ClientLifecycle WITH
    phase <- Phase, stopping <- stop, misses <- Misses, OnCommand <- FALSE

(* The client keeps the promise of ClientLifecycle: it never ends an online *)
(* session without a logout, and abandons one only after FailureThreshold  *)
(* failed rounds with no good round between them.                          *)
KeepsLifecycle == Lifecycle!LifeSpec

(* The calls and sleeps between here and the end of a process that has     *)
(* been asked to stop: the rest of an attempt or of a round, and a logout. *)
CallsToEnd(kind) ==
    CASE kind = "logout" -> 1
      [] kind = "logoutChallenge" -> 2
      [] kind = "notice" -> 4
      [] kind \in {"third", "login"} -> 5
      [] kind \in {"first", "challenge"} -> 6
      [] kind = "extra" -> 7
      [] kind = "keepalive1" -> 8
      [] OTHER -> 9

PlacesToEnd ==
    CASE pc \in Exited -> 0
      [] pc \in {"start", "loop"} -> 1
      [] pc = "backoff" -> 2
      [] pc = "top" -> 3
      [] pc = "nap" -> 4
      [] pc \in {"attempt", "round", "logout"} -> CallsToEnd(xch.kind)

WayOut == PlacesToEnd * LongestWait + WaitLeft

(* After a stop every step of the thread, and every wait that runs out,    *)
(* brings the process nearer to its end, and nothing takes it back: no     *)
(* round, attempt or exchange is begun twice on the way, whatever is       *)
(* answered, lost or refused (auth.c:853, 887, 936, 946).                  *)
StopLeadsOut ==
    [][stop =>
        /\ WayOut' \in 0 .. WayOut
        /\ WayOut' = WayOut => ~ (ClientStep \/ TimeoutStep)]_vars

(* A requested stop ends the process, whatever it was waiting for. *)
StopIsHonoured == stop ~> pc \in Exited
=============================================================================
