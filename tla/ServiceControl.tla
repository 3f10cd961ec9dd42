--------------------------- MODULE ServiceControl ---------------------------
(***************************************************************************)
(* The init script files/etc/init.d/drcom around one client: start_service *)
(* with ensure_bind_port_available, which looks at UDP port 61440, stops   *)
(* whoever holds it, waits and in the end kills; stop_service; and procd,  *)
(* external, which starts the process, sends TERM and later KILL, and      *)
(* starts it again when it ends by itself.  rc.common runs one command of  *)
(* the script at a time; a restart is Stop and then a start.               *)
(*                                                                         *)
(* The client holds the port from bind to its end; `squatter' is another   *)
(* program that does.  Another program may come and go while the service   *)
(* is off, and takes no port from procd while it has the instance.         *)
(***************************************************************************)
EXTENDS TimedSession

CONSTANTS
    Polls,           \* turns of the waiting loop: 10
    TermTimeout,     \* procd_set_param term_timeout 10
    RespawnSeconds   \* procd's respawn timeout: 5

ASSUME ServiceAssumption ==
    /\ Polls \in Nat \ {0}
    /\ TermTimeout \in Nat \ {0}
    /\ RespawnSeconds \in Nat \ {0, 1}

(* The script and procd interrupt one attempt each; a third is left.  A    *)
(* fault is counted at all.                                                *)
ASSUME AttemptsAssumption == RetryCount >= 2 /\ FaultCap >= 1

(* A late challenge, an attempt cut short and a late answer to the logout  *)
(* take less than procd grants, the two waits less than the script does.   *)
ASSUME GraceAssumption == 3 * WaitSeconds <= TermTimeout /\ 2 * WaitSeconds <= Polls

VARIABLES
    squatter,     \* none, other, or hidden: another program without a visible pid
    script,       \* idle, poll: in the waiting loop, struck: asleep after the KILL
    scriptLeft,   \* seconds of its sleep
    polls,        \* looks at the port since the TERM
    portState,    \* status= in /tmp/drcom-port-state, or none
    procd,        \* off, start, up, term, wait: before a respawn
    procdLeft,    \* seconds to procd's next move
    warned        \* history: the script has sent TERM to this process

scriptVars == <<script, scriptLeft, polls, portState>>
procdVars == <<procd, procdLeft>>
vars == <<clientVars, squatter, scriptVars, procdVars, warned>>

PortFree == ~ Alive /\ squatter = "none"

TypeOK ==
    /\ ClientTypeOK
    /\ squatter \in {"none", "other", "hidden"}
    /\ script \in {"idle", "poll", "struck"}
    /\ scriptLeft \in 0 .. 1
    /\ polls \in 0 .. Polls
    /\ portState \in {"none", "free", "busy", "recovered", "failed"}
    /\ procd \in {"off", "start", "up", "term", "wait"}
    /\ procdLeft \in 0 .. TermTimeout + RespawnSeconds
    /\ warned \in BOOLEAN

Init ==
    /\ ClientInit
    /\ squatter \in {"none", "other", "hidden"}
    /\ script = "idle" /\ scriptLeft = 0 /\ polls = 0 /\ portState = "none"
    /\ procd = "off" /\ procdLeft = 0
    /\ warned = FALSE

-----------------------------------------------------------------------------
(* The script. *)

(* The instance is handed to procd; one it already runs is left as it is.  *)
Register ==
    /\ procd' = IF procd \in {"off", "term"} THEN "start" ELSE procd
    /\ UNCHANGED procdLeft

(* Mutant: a recovered port is reported as a failure to start. *)
FinishUnlessRecovered(status) ==
    /\ script' = "idle" /\ scriptLeft' = 0 /\ polls' = 0
    /\ portState' = status
    /\ IF status = "free" THEN Register ELSE UNCHANGED procdVars

Finish(status) ==
    /\ script' = "idle" /\ scriptLeft' = 0 /\ polls' = 0
    /\ portState' = status
    /\ IF status \in {"free", "recovered"} THEN Register ELSE UNCHANGED procdVars

(* Mutant: the look at the port overlooks the service's own client. *)
StartFreeOfOthers ==
    /\ script = "idle" /\ squatter = "none"
    /\ Finish("free")
    /\ UNCHANGED <<clientVars, squatter, warned>>

StartFree ==
    /\ script = "idle" /\ PortFree
    /\ Finish("free")
    /\ UNCHANGED <<clientVars, squatter, warned>>

StartBusy ==
    /\ script = "idle" /\ squatter = "hidden"
    /\ Finish("busy")
    /\ UNCHANGED <<clientVars, squatter, warned>>

SleepOneSecond(n) == script' = "poll" /\ scriptLeft' = 1 /\ polls' = n

StartRecovery ==
    /\ script = "idle"
    /\ \/ Term /\ warned' = TRUE
       \/ squatter = "other" /\ UNCHANGED <<clientVars, warned>>
    /\ SleepOneSecond(0)
    /\ UNCHANGED <<portState, squatter, procdVars>>

PollFree ==
    /\ script = "poll" /\ scriptLeft = 0 /\ PortFree
    /\ Finish("recovered")
    /\ UNCHANGED <<clientVars, squatter, warned>>

(* Mutant: the loop does not look at the port before it has waited. *)
PollsOnRegardless ==
    /\ script = "poll" /\ scriptLeft = 0 /\ polls + 1 < Polls
    /\ SleepOneSecond(polls + 1)
    /\ UNCHANGED <<portState, clientVars, squatter, procdVars, warned>>

PollAgain ==
    /\ script = "poll" /\ scriptLeft = 0 /\ ~ PortFree /\ polls + 1 < Polls
    /\ SleepOneSecond(polls + 1)
    /\ UNCHANGED <<portState, clientVars, squatter, procdVars, warned>>

(* After the last look KILL goes to whoever holds the port now.  Another   *)
(* program may survive it (a process in the kernel does).                  *)
Strike ==
    /\ script = "poll" /\ scriptLeft = 0 /\ ~ PortFree /\ polls + 1 = Polls
    /\ script' = "struck" /\ scriptLeft' = 1 /\ polls' = Polls
    /\ \/ Kill /\ UNCHANGED squatter
       \/ squatter = "other" /\ squatter' \in {"none", "other"} /\ UNCHANGED clientVars
    /\ UNCHANGED <<portState, procdVars, warned>>

AfterStrike ==
    /\ script = "struck" /\ scriptLeft = 0
    /\ Finish(IF PortFree THEN "recovered" ELSE "failed")
    /\ UNCHANGED <<clientVars, squatter, warned>>

(* stop_service removes the state file; rc.common has procd end the        *)
(* instance.                                                               *)
Stop ==
    /\ script = "idle"
    /\ portState' = "none"
    /\ IF procd = "up" /\ Alive
       THEN Term /\ procd' = "term" /\ procdLeft' = TermTimeout
       ELSE /\ UNCHANGED <<clientVars, procdLeft>>
            /\ procd' = IF procd = "term" THEN "term" ELSE "off"
    /\ UNCHANGED <<script, scriptLeft, polls, squatter, warned>>

-----------------------------------------------------------------------------
(* procd and the rest of the router. *)

ForkDue == procd = "start" \/ (procd = "wait" /\ procdLeft = 0)

(* When the port is taken bind fails and the process ends at once. *)
Fork ==
    /\ ForkDue
    /\ IF PortFree
       THEN Launch /\ procd' = "up" /\ procdLeft' = 0 /\ warned' = FALSE
       ELSE /\ procd' = "wait" /\ procdLeft' = RespawnSeconds
            /\ UNCHANGED <<clientVars, warned>>
    /\ UNCHANGED <<squatter, scriptVars>>

Reap ==
    /\ ~ Alive
    /\ \/ procd = "up" /\ procd' = "wait" /\ procdLeft' = RespawnSeconds
       \/ procd = "term" /\ procd' = "off" /\ procdLeft' = 0
    /\ UNCHANGED <<clientVars, squatter, scriptVars, warned>>

TermRunsOut ==
    /\ procd = "term" /\ procdLeft = 0
    /\ Kill
    /\ UNCHANGED <<squatter, scriptVars, procdVars, warned>>

(* Someone else stops the client: procd takes it for a crash. *)
OtherTerm ==
    /\ ~ stop /\ Term
    /\ UNCHANGED <<squatter, scriptVars, procdVars, warned>>

SquatterLeaves ==
    /\ squatter # "none" /\ squatter' = "none"
    /\ UNCHANGED <<clientVars, scriptVars, procdVars, warned>>

SquatterComes ==
    /\ script = "idle" /\ procd = "off" /\ PortFree
    /\ squatter' \in {"other", "hidden"}
    /\ UNCHANGED <<clientVars, scriptVars, procdVars, warned>>

Client ==
    /\ ThreadStep
    /\ UNCHANGED <<squatter, scriptVars, procdVars, warned>>

(* A second passes when nobody is due. *)
ProcdDue ==
    \/ ForkDue
    \/ procd = "term" /\ procdLeft = 0
    \/ procd \in {"up", "term"} /\ ~ Alive

ScriptDue == script # "idle" /\ scriptLeft = 0

CountDown(n) == IF n > 0 THEN n - 1 ELSE 0

Tick ==
    /\ ~ ProcdDue /\ ~ ScriptDue
    /\ ClientTick
    /\ scriptLeft' = CountDown(scriptLeft)
    /\ procdLeft' = CountDown(procdLeft)
    /\ UNCHANGED <<squatter, script, polls, portState, procd, warned>>

Next ==
    \/ StartFree \/ StartBusy \/ StartRecovery \/ PollFree \/ PollAgain \/ Strike
    \/ AfterStrike \/ Stop
    \/ Fork \/ Reap \/ TermRunsOut
    \/ OtherTerm \/ SquatterLeaves \/ SquatterComes
    \/ Client \/ Tick

Spec == Init /\ [][Next]_vars

-----------------------------------------------------------------------------
(* A client that was asleep when it was asked to stop has its logout       *)
(* killed, by procd or by the script, only after a wait that ran out, a    *)
(* failed send or a stray (auth.c:52, keepalive.c:122, init.d/drcom:95,    *)
(* 124): late answers and a second TERM alone never use up ten seconds.    *)
KillHasCause ==
    call = "killed" /\ caught = "nap" => faults + strays > 0

(* The script kills only a process that it has asked to end, ten seconds   *)
(* before: never one that procd has started meanwhile (init.d/drcom:85-98: *)
(* the port is looked at each second, procd waits five).                   *)
KillsOnlyTheWarned == [][Strike /\ Alive => warned]_vars

(* When procd is about to start the client nobody holds the port: no       *)
(* other program, and no earlier client that still runs or is logging out  *)
(* (init.d/drcom:66-119): bind in auth.c:815 does not fail.                *)
BindsSucceed == ForkDue => PortFree

(* The state file LuCI shows says that the port was made free exactly when *)
(* procd has the instance: it is gone after a stop, and says so when the   *)
(* start failed (init.d/drcom:66-132).                                     *)
StateFileIsTrue ==
    portState \in {"free", "recovered"} <=> procd \in {"start", "up", "wait"}

(* A client that is logged in when it is stopped logs out before it ends   *)
(* (scripts/tests/auth_static_smoke.py:46, README.md:208).                 *)
GracefulStop == call = "killed" => ~ session
=============================================================================
