--------------------------- MODULE ClientLifecycle ---------------------------
(***************************************************************************)
(* What the client promises its user, without packets: it is offline until *)
(* a login succeeds; online it rests after every good keepalive round and  *)
(* abandons the session only when FailureThreshold rounds in a row fail;   *)
(* once asked to stop it leaves an online session through a logout.        *)
(* DhcpSession implements it packet by packet, ServiceControl second by    *)
(* second.  A process that is killed promises nothing.                     *)
(***************************************************************************)
EXTENDS Integers

CONSTANTS
    FailureThreshold,   \* a positive number: RetryPolicyAssumption
    OnCommand           \* may a process that was asked to stop be started again?

VARIABLES
    phase,      \* offline, online, resting, leaving, gone or dead
    stopping,
    misses      \* failed rounds since the last good one

lifeVars == <<phase, stopping, misses>>

Alive == {"offline", "online", "resting", "leaving"}

LifeInit == phase \in {"offline", "gone"} /\ stopping = FALSE /\ misses = 0

LogIn ==
    /\ phase = "offline"
    /\ phase' = "online" /\ misses' = 0
    /\ UNCHANGED stopping

Beat ==
    /\ phase = "online"
    /\ phase' = "resting" /\ misses' = 0
    /\ UNCHANGED stopping

Wake ==
    /\ phase = "resting"
    /\ phase' = "online"
    /\ UNCHANGED <<stopping, misses>>

Miss ==
    /\ phase = "online" /\ misses + 1 < FailureThreshold
    /\ misses' = misses + 1
    /\ UNCHANGED <<phase, stopping>>

(* The last miss: without a logout, unless the client was asked to stop.   *)
GiveUp ==
    /\ phase = "online" /\ misses + 1 = FailureThreshold
    /\ phase' = IF stopping THEN "leaving" ELSE "offline"
    /\ misses' = 0
    /\ UNCHANGED stopping

Leave ==
    /\ phase \in {"online", "resting"} /\ stopping
    /\ phase' = "leaving" /\ misses' = 0
    /\ UNCHANGED stopping

End ==
    /\ phase \in {"offline", "leaving"}
    /\ phase' = "gone"
    /\ UNCHANGED <<stopping, misses>>

Die ==
    /\ phase \in Alive
    /\ phase' = "dead" /\ misses' = 0
    /\ UNCHANGED stopping

Restart ==
    /\ phase \in {"gone", "dead"} /\ (stopping => OnCommand)
    /\ phase' = "offline" /\ stopping' = FALSE
    /\ UNCHANGED misses

AskToStop ==
    /\ phase \in Alive /\ ~ stopping
    /\ stopping' = TRUE
    /\ UNCHANGED <<phase, misses>>

LifeNext ==
    \/ LogIn \/ Beat \/ Wake \/ Miss \/ GiveUp \/ Leave \/ End \/ Die
    \/ Restart \/ AskToStop

LifeSpec == LifeInit /\ [][LifeNext]_lifeVars
=============================================================================
