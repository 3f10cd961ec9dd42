------------------------------ MODULE EapKeeper ------------------------------
(***************************************************************************)
(* The keep-alive processes of the 802.1X login.  Each successful eaplogin *)
(* (eapol.c) forks one; eap_daemon kills the one its pid file names, puts  *)
(* its own pid there and answers the switch for ever after.  Nothing else  *)
(* ends it: not the end of the process that forked it, not procd.          *)
(*                                                                         *)
(* The rest of the system runs processes too, and a pid is used again when *)
(* its process is gone.                                                    *)
(***************************************************************************)
EXTENDS Integers, FiniteSets

CONSTANTS
    Pids,       \* process ids
    NoFile,     \* the pid file does not exist
    Empty,      \* the pid file has no number in it
    Overlap     \* may a login succeed before the child of the one before is done?

ASSUME KeeperAssumption ==
    /\ NoFile \notin Pids /\ Empty \notin Pids /\ NoFile # Empty
    /\ Overlap \in BOOLEAN

VARIABLES
    role,       \* what each pid is
    file        \* PID_FILE, /tmp/cwnu-drcom-eap.pid

vars == <<role, file>>

(* A child is `forked', then `heir' once it has killed its predecessor,    *)
(* `writing' once the file is truncated, `keeper' in eap_keep_alive.       *)
Children == {"forked", "heir", "writing"}
Ours == Children \cup {"keeper"}
Roles == {"free", "other"} \cup Ours

TypeOK ==
    /\ role \in [Pids -> Roles]
    /\ file \in Pids \cup {NoFile, Empty}

Init ==
    /\ role \in [Pids -> {"free", "other"}]
    /\ file = NoFile

Become(p, what) == role' = [role EXCEPT ![p] = what]

-----------------------------------------------------------------------------
(* eaplogin has succeeded; where fork fails, nothing happens. *)
Fork(p) ==
    /\ role[p] = "free"
    /\ Overlap \/ \A q \in Pids : role[q] \notin Children
    /\ Become(p, "forked")
    /\ UNCHANGED file

(* Mutant: the predecessor is left alone. *)
InheritAlongside(p) ==
    /\ role[p] = "forked"
    /\ Become(p, "heir")
    /\ file' = IF file = NoFile THEN Empty ELSE file

(* fopen, which makes the file if there is none; then SIGKILL for the pid  *)
(* in it, whatever it is now, the child's own included.                    *)
Inherit(p) ==
    /\ role[p] = "forked"
    /\ role' = [q \in Pids |-> IF q = file THEN "free"
                               ELSE IF q = p THEN "heir" ELSE role[q]]
    /\ file' = IF file = NoFile THEN Empty ELSE file

(* The file cannot be made: the child exits.  One that is there opens.     *)
FileUnusable(p) ==
    /\ role[p] = "forked" /\ file = NoFile
    /\ Become(p, "free")
    /\ UNCHANGED file

(* Mutant: the file is not written anew. *)
SkipFile(p) ==
    /\ role[p] = "heir"
    /\ Become(p, "keeper")
    /\ UNCHANGED file

Truncate(p) ==
    /\ role[p] = "heir"
    /\ Become(p, "writing")
    /\ file' = Empty

WritePid(p) ==
    /\ role[p] = "writing"
    /\ Become(p, "keeper")
    /\ file' = p

(* Out of memory, or by hand: at any moment, and the file stays as it is.  *)
Dies(p) ==
    /\ role[p] \in Ours
    /\ Become(p, "free")
    /\ UNCHANGED file

OtherStarts(p) ==
    /\ role[p] = "free"
    /\ Become(p, "other")
    /\ UNCHANGED file

(* It ends of itself; to the file the two are the same. *)
OtherEnds(p) ==
    /\ role[p] = "other"
    /\ Become(p, "free")
    /\ UNCHANGED file

ChildStep(p) ==
    \/ Inherit(p) \/ FileUnusable(p) \/ Truncate(p) \/ WritePid(p)

Next ==
    \E p \in Pids :
        Fork(p) \/ ChildStep(p) \/ Dies(p) \/ OtherStarts(p) \/ OtherEnds(p)

Spec == Init /\ [][Next]_vars

-----------------------------------------------------------------------------
(* Properties. *)

(* However many logins eaplogin made and wherever a process died: at most  *)
(* one process of ours is past the kill of eap_daemon.                     *)
OneKeeper ==
    \A p, q \in Pids :
        role[p] \in Ours \ {"forked"} /\ role[q] \in Ours \ {"forked"} => p = q

(* eap_daemon leaves no keep-alive process the next login could not find:  *)
(* the file names every one that has entered eap_keep_alive.               *)
FileNamesKeeper == \A p \in Pids : role[p] = "keeper" => file = p

(* eapol.c:328 says that the keep-alive process there was is done away     *)
(* with: the signal goes to a process of ours, and not to the child itself.*)
KillsOnlyKeepers ==
    [][\A p, q \in Pids :
          Inherit(p) /\ q = file /\ role[q] # "free" => role[q] = "keeper"]_vars

(* The inductive invariant behind OneKeeper: children come one at a time,  *)
(* and one past the kill has no keeper beside it. *)
OneChild ==
    \A p, q \in Pids : role[p] \in Children /\ role[q] \in Children => p = q

IInv ==
    /\ TypeOK
    /\ OneChild
    /\ OneKeeper
    /\ FileNamesKeeper
=============================================================================
