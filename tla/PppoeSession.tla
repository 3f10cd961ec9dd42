---------------------------- MODULE PppoeSession ----------------------------
(***************************************************************************)
(* dogcom() of src/drcom/src/auth.c in PPPoE mode, with pppoe_challenge    *)
(* and pppoe_login: a challenge, a login and one keepalive_2, over and     *)
(* over.  The first two take the next datagram, whatever it is; only the   *)
(* keepalive goes through the filters of UdpExchange.  There is no logout. *)
(*                                                                         *)
(* `pc' is where the loop is:                                              *)
(*   start      opening the socket, sleeping the start-up delay            *)
(*   loop       the head of the while loop                                 *)
(*   challenge, login   inside pppoe_challenge, pppoe_login                *)
(*   round      inside keepalive_2                                         *)
(*   pause      sleep(5) after a failed challenge                          *)
(*   nap        sleep(10) after a good round                               *)
(*   exit0, exit1       the process is gone                                *)
(***************************************************************************)
EXTENDS Keepalive, AuthServer

CONSTANTS
    TryTimes,   \* dogcom(5) in main.c
    Eternal     \* -e

ASSUME PppoeAssumption ==
    /\ TryTimes \in Nat \ {0}
    /\ Eternal \in BOOLEAN

VARIABLES
    pc,
    stop,        \* stop_requested
    tries,       \* try_counter
    number,      \* pppoe_counter, modulo 0xFF as it is sent
    loginFirst,  \* login_first
    first

clientVars == <<pc, stop, tries, number, loginFirst, first, counter>>
vars == <<clientVars, udpVars, session>>

Exited == {"exit0", "exit1"}
Pcs == {"start", "loop", "challenge", "login", "round", "pause", "nap"} \cup Exited

TypeOK ==
    /\ UdpTypeOK
    /\ session = None
    /\ counter \in Counters
    /\ pc \in Pcs
    /\ stop \in BOOLEAN /\ loginFirst \in BOOLEAN /\ first \in BOOLEAN
    /\ tries \in 0 .. TryTimes
    /\ number \in Counters

Init ==
    /\ toServer = <<>> /\ toClient = <<>> /\ xch = Idle
    /\ session = None
    /\ pc = "start" /\ stop = FALSE /\ tries = 0
    /\ number = 0 /\ counter = 0
    /\ loginFirst = TRUE /\ first = TRUE

-----------------------------------------------------------------------------
Startup ==
    /\ pc = "start"
    /\ pc' \in {IF stop THEN "exit0" ELSE "loop", "exit1"}
    /\ UNCHANGED <<stop, tries, number, loginFirst, first, counter, udpVars, session>>

StopAtLoop ==
    /\ pc = "loop" /\ stop
    /\ pc' = "exit0"
    /\ UNCHANGED <<stop, tries, number, loginFirst, first, counter, udpVars, session>>

(* Challenges and logins share one packet number. *)
SendNumbered(kind) ==
    /\ Begin(kind, number)
    /\ number' = (number + 1) % CounterModulus

SendChallenge ==
    /\ pc = "loop" /\ ~ stop
    /\ SendNumbered("pppoeChallenge")
    /\ pc' = "challenge"
    /\ UNCHANGED <<stop, tries, loginFirst, first, counter, session>>

(* What a bare recvfrom brought: 0x07 passes for a good answer. *)
Heard(kind) == Answered(kind) /\ xch.got.first = 7

NotHeard(kind) ==
    /\ xch.kind = kind
    /\ \/ xch.st = "failed"
       \/ xch.st = "got" /\ xch.got.first # 7

(* Mutant: a failed challenge is not counted. *)
ChallengeFailsUncounted ==
    /\ pc = "challenge" /\ NotHeard("pppoeChallenge")
    /\ loginFirst' = TRUE
    /\ pc' = "pause"
    /\ xch' = Idle
    /\ UNCHANGED <<stop, tries, number, first, counter, toServer, toClient, session>>

(* Mutant: one failed challenge more than allowed. *)
ChallengeFailsOnceMore ==
    /\ pc = "challenge" /\ NotHeard("pppoeChallenge")
    /\ loginFirst' = TRUE
    /\ tries' = IF Eternal THEN 0 ELSE tries + 1
    /\ pc' = IF tries' > TryTimes THEN "exit1" ELSE "pause"
    /\ xch' = Idle
    /\ UNCHANGED <<stop, number, first, counter, toServer, toClient, session>>

(* Only a failed challenge counts as a try, and no success takes it back.  *)
ChallengeFails ==
    /\ pc = "challenge" /\ NotHeard("pppoeChallenge")
    /\ loginFirst' = TRUE
    /\ tries' = IF Eternal THEN 0 ELSE tries + 1
    /\ pc' = IF tries' >= TryTimes THEN "exit1" ELSE "pause"
    /\ xch' = Idle
    /\ UNCHANGED <<stop, number, first, counter, toServer, toClient, session>>

SendLogin ==
    /\ pc = "challenge" /\ Heard("pppoeChallenge")
    /\ SendNumbered("pppoeLogin")
    /\ pc' = "login"
    /\ UNCHANGED <<stop, tries, loginFirst, first, counter, session>>

(* Mutant: a failed login is tried again on the spot. *)
LoginRetries ==
    /\ pc = "login" /\ NotHeard("pppoeLogin")
    /\ SendNumbered("pppoeLogin")
    /\ UNCHANGED <<pc, stop, tries, loginFirst, first, counter, session>>

LoginFails ==
    /\ pc = "login" /\ NotHeard("pppoeLogin")
    /\ pc' = "loop"
    /\ xch' = Idle
    /\ UNCHANGED <<stop, tries, number, loginFirst, first, counter, toServer,
                   toClient, session>>

AwaitNotice ==
    /\ pc = "login" /\ Heard("pppoeLogin")
    /\ Listen("notice")
    /\ UNCHANGED <<clientVars, session>>

StartRound ==
    /\ pc = "login" /\ xch.kind = "notice" /\ xch.st \in {"got", "failed"}
    /\ loginFirst' = FALSE
    /\ BeginKeepalive2(IF first THEN "FIRST" ELSE "NONE")
    /\ pc' = "round"
    /\ UNCHANGED <<stop, tries, number, first, session>>

RoundStep ==
    /\ pc = "round"
    /\ ExtraAnswered \/ FirstAnswered
    /\ UNCHANGED <<pc, stop, tries, number, loginFirst, first, session>>

RoundDone ==
    /\ pc = "round" /\ Keepalive2Done
    /\ first' = FALSE
    /\ pc' = "nap"
    /\ xch' = Idle
    /\ UNCHANGED <<stop, tries, number, loginFirst, counter, toServer, toClient, session>>

(* A failed round goes back to a challenge, without a pause. *)
RoundFails ==
    /\ pc = "round" /\ KeepaliveFailed
    /\ pc' = "loop"
    /\ xch' = Idle
    /\ UNCHANGED <<stop, tries, number, loginFirst, first, counter, toServer,
                   toClient, session>>

WakeUp ==
    /\ pc \in {"pause", "nap"}
    /\ pc' = "loop"
    /\ UNCHANGED <<stop, tries, number, loginFirst, first, counter, udpVars, session>>

RequestStop ==
    /\ ~ stop /\ pc \notin Exited
    /\ stop' = TRUE
    /\ UNCHANGED <<pc, tries, number, loginFirst, first, counter, udpVars, session>>

-----------------------------------------------------------------------------
ClientStep ==
    \/ Startup \/ StopAtLoop \/ SendChallenge \/ ChallengeFails \/ SendLogin
    \/ LoginFails \/ AwaitNotice \/ StartRound \/ RoundStep \/ RoundDone
    \/ RoundFails \/ WakeUp

WaitStep == Wait /\ UNCHANGED <<clientVars, session>>
NetworkStep == Network /\ UNCHANGED <<clientVars, session>>
ServerStep == (ServerHandles \/ Stray) /\ UNCHANGED clientVars

Next == ClientStep \/ WaitStep \/ NetworkStep \/ ServerStep \/ RequestStop

Spec == Init /\ [][Next]_vars

TimeoutStep == Timeout /\ UNCHANGED <<clientVars, session>>

(* As in DhcpSession: the thread runs, and a quiet line times a wait out.  *)
Fairness == WF_vars(ClientStep) /\ WF_vars(TimeoutStep)

FairSpec == Spec /\ Fairness

-----------------------------------------------------------------------------
(* Properties. *)

(* pppoe_challenge and pppoe_login take any datagram and can fall behind   *)
(* by one or more answers; still the two packets that end the keepalive_2  *)
(* that follows (keepalive.c:476-565) are satisfied only by their own      *)
(* answers, because keepalive_counter outlives the sessions.  It needs a   *)
(* network that does not duplicate: see README.md.  Nothing is said of the *)
(* extra packet before them: its filter names no type                      *)
(* (keepalive.c:449) and takes such a late answer for its own.             *)
FreshRoundReplies ==
    xch.st = "got" /\ xch.kind \in {"first", "third"} => xch.got.fresh

(* The calls and sleeps between here and the end of a process that has     *)
(* been asked to stop.                                                     *)
CallsToEnd(kind) ==
    CASE kind = "third" -> 3
      [] kind = "first" -> 4
      [] kind = "extra" -> 5
      [] kind = "notice" -> 6
      [] kind = "pppoeLogin" -> 7
      [] OTHER -> 8

PlacesToEnd ==
    CASE pc \in Exited -> 0
      [] pc \in {"start", "loop"} -> 1
      [] pc \in {"pause", "nap"} -> 2
      [] pc \in {"challenge", "login", "round"} -> CallsToEnd(xch.kind)

WayOut == PlacesToEnd * LongestWait + WaitLeft

(* After a stop every step of the thread, and every wait that runs out,    *)
(* brings the process nearer to its end, and nothing takes it back: no     *)
(* failure of the challenge, the login or the round is repaired before     *)
(* the flag is read again.                                                 *)
StopLeadsOut ==
    [][stop =>
        /\ WayOut' \in 0 .. WayOut
        /\ WayOut' = WayOut => ~ (ClientStep \/ TimeoutStep)]_vars

(* The calls and sleeps between here and the next failed challenge, when   *)
(* nothing is heard any more.                                              *)
PlacesToFailure ==
    CASE pc \in Exited -> 0
      [] pc = "challenge" -> IF xch.st = "got" THEN CallsToEnd(xch.kind) + 1 ELSE 1
      [] pc = "loop" -> 2
      [] pc \in {"start", "pause", "nap"} -> 3
      [] pc \in {"login", "round"} -> CallsToEnd(xch.kind) + 1

PlacesToDefeat == (TryTimes - tries) * 10 + PlacesToFailure

Patience == PlacesToDefeat * LongestWait + WaitLeft

(* Without -e every step that takes no datagram brings the client nearer   *)
(* to giving up.  Failed logins and rounds are not counted, and a good     *)
(* answer to a challenge takes back no try; but every way round the loop   *)
(* passes a challenge, so that silence can not be waited out for ever.     *)
SilenceIsCounted ==
    [][~ Eternal /\ ~ (xch.st = "wait" /\ xch'.st = "got") =>
        /\ Patience' \in 0 .. Patience
        /\ Patience' = Patience => ~ (ClientStep \/ TimeoutStep)]_vars

(* SIGTERM while dogcom is in any of its waits or sleeps ends the process: *)
(* each failure path of the loop leads back to the check of                *)
(* drcom_stop_requested at its head.                                       *)
StopIsHonoured == stop ~> pc \in Exited

(* Without -e a client that hears nothing any more uses up try_times and   *)
(* leaves the loop, although the failures of pppoe_login and keepalive_2   *)
(* are not counted.                                                        *)
SilenceEndsTheClient ==
    ~ Eternal => (<>[](toClient = <<>>) => <>(pc \in Exited))
=============================================================================
