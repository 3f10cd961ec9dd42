------------------------------ MODULE EapLogin ------------------------------
(***************************************************************************)
(* The 802.1X login of `dogcom -x': try_smart_eaplogin of main.c calls     *)
(* eaplogin (eapol.c) for one network interface after the other, until one *)
(* of them lets it in.  A switch stands at one of the interfaces.          *)
(*                                                                         *)
(* The socket hears every frame of every interface.  A wait ends with a    *)
(* frame it asked for; it looks at the clock only when some frame has      *)
(* come, and an answer that is repeated is built from whatever came last.  *)
(*                                                                         *)
(* `pc' is the wait the process is in, named for what it sent last:        *)
(*   open      opening the socket for the interface `nic'                  *)
(*   start     eap-start sent, in filte_req_identity                       *)
(*   identity  response-identity sent, in filte_req_md5clg                 *)
(*   md5       response-md5clg sent, in filte_success                      *)
(*   ok, failed   try_smart_eaplogin has returned 0, -1                    *)
(***************************************************************************)
EXTENDS Integers, Sequences

CONSTANTS
    Nics,         \* number of interfaces getall_ifs lists
    Uplink,       \* the one the switch is at
    TryTimes,     \* TRY_TIMES, 3
    IdModulus,    \* 256: EAP ids are bytes
    HostCap,      \* bound: frames in flight towards the host
    SwitchCap     \* bound: frames in flight towards the switch

ASSUME EapAssumption ==
    /\ Nics \in Nat \ {0}
    /\ Uplink \in 1 .. Nics
    /\ TryTimes \in Nat \ {0}
    /\ IdModulus \in 2 .. 256
    /\ HostCap \in Nat \ {0}
    /\ SwitchCap \in Nat \ {0}

VARIABLES
    pc, nic,
    try,        \* i of the stage's for loop
    late,       \* has the wait lasted longer than TIMEOUT?
    last,       \* recvbuff
    sent,       \* sendeap->id
    toHost, toSwitch,
    port, turn  \* the switch: is the port open, what it waits for

hostVars == <<pc, nic, try, late, last, sent>>
switchVars == <<port, turn>>
vars == <<hostVars, toHost, toSwitch, switchVars>>

Ids == 0 .. IdModulus - 1
LogoffId == IdModulus - 1        \* EAPOL_LOGOFF_ID, 255

(* What the filters tell apart.  Of a frame that is not an EAP frame for   *)
(* this host the byte where an id would be still matters.                  *)
Frames == [code : {"identity", "md5", "success", "failure", "other"}, id : Ids]
Sent == [kind : {"start", "logoff", "identity", "md5"}, id : Ids]
Turns == [st : {"idle", "identity", "md5"}, id : Ids]

Stages == {"start", "identity", "md5"}
Ended == {"ok", "failed"}

TypeOK ==
    /\ pc \in {"open"} \cup Stages \cup Ended
    /\ nic \in 1 .. Nics
    /\ try \in 0 .. TryTimes - 1
    /\ late \in BOOLEAN
    /\ last \in Frames
    /\ sent \in Ids
    /\ toHost \in Seq(Frames)
    /\ toSwitch \in Seq(Sent)
    /\ port \in {"open", "closed"}
    /\ turn \in Turns

Blank == [code |-> "other", id |-> 0]

(* getall_ifs may have failed. *)
Init ==
    /\ pc \in {"open", "failed"} /\ nic = 1 /\ try = 0 /\ late = FALSE
    /\ last = Blank /\ sent = 0
    /\ toHost = <<>> /\ toSwitch = <<>>
    /\ port \in {"open", "closed"}
    /\ turn = [st |-> "idle", id |-> 0]

-----------------------------------------------------------------------------
Offer(queue, f, cap) == IF Len(queue) < cap THEN Append(queue, f) ELSE queue

Packet(kind, id) == [kind |-> kind, id |-> id]

(* sendto on the interface under trial, its result ignored. *)
Sending(packet) ==
    toSwitch' = IF nic = Uplink THEN Offer(toSwitch, packet, SwitchCap) ELSE toSwitch

EnterWait(stage) == pc' = stage /\ late' = FALSE

(* eapol_start, eap_res_identity, eap_md5_clg: the answers take their id   *)
(* from recvbuff, as it is when they are sent.                             *)
SendRequest(stage, buffer) ==
    IF stage = "start"
    THEN Sending(Packet("start", sent)) /\ UNCHANGED sent
    ELSE Sending(Packet(stage, buffer.id)) /\ sent' = buffer.id

(* eapol_init, eapol_logoff, the first eapol_start. *)
OpenInterface ==
    /\ pc = "open"
    /\ EnterWait("start") /\ try' = 0
    /\ sent' = LogoffId
    /\ toSwitch' =
          IF nic = Uplink
          THEN Offer(Offer(toSwitch, Packet("logoff", LogoffId), SwitchCap),
                     Packet("start", LogoffId), SwitchCap)
          ELSE toSwitch
    /\ UNCHANGED <<nic, last, toHost, switchVars>>

(* eaplogin returned other than 0: the next interface, if there is one.    *)
NextInterface ==
    IF nic < Nics
    THEN pc' = "open" /\ nic' = nic + 1
    ELSE pc' = "failed" /\ UNCHANGED nic

InterfaceFails ==
    /\ pc = "open"
    /\ NextInterface
    /\ UNCHANGED <<try, late, last, sent, toHost, toSwitch, switchVars>>

-----------------------------------------------------------------------------
(* One turn of a filter's loop, with f in the buffer. *)

Wanted == [start |-> "identity", identity |-> "md5", md5 |-> "success"]
After == [start |-> "identity", identity |-> "md5", md5 |-> "ok"]

ForUs(f) == nic = Uplink /\ f.code # "other"

(* Mutant: what ends the last stage is not looked at closely. *)
MatchesAnyAnswer(f) ==
    /\ ForUs(f)
    /\ f.code = Wanted[pc] \/ (pc = "md5" /\ f.code = "failure")
    /\ pc = "md5" => f.id = sent

Matches(f) ==
    /\ ForUs(f)
    /\ f.code = Wanted[pc]
    /\ pc = "md5" => f.id = sent

Refuses(f) ==
    /\ ForUs(f)
    /\ pc \in {"identity", "md5"}
    /\ f.code = "failure" /\ f.id = sent

Proceed(f) ==
    /\ Matches(f)
    /\ EnterWait(After[pc]) /\ try' = 0
    /\ IF pc = "md5" THEN UNCHANGED <<sent, toSwitch>> ELSE SendRequest(After[pc], f)
    /\ UNCHANGED nic

Refused(f) ==
    /\ ~ Matches(f) /\ Refuses(f)
    /\ NextInterface
    /\ UNCHANGED <<try, late, sent, toSwitch>>

Ignored(f) ==
    /\ ~ Matches(f) /\ ~ Refuses(f) /\ ~ late
    /\ UNCHANGED <<pc, nic, try, late, sent, toSwitch>>

(* Mutant: one repetition more than TRY_TIMES allows. *)
RepeatedOnceMore(f) ==
    /\ ~ Matches(f) /\ ~ Refuses(f) /\ late
    /\ try < TryTimes
    /\ try' = try + 1
    /\ EnterWait(pc)
    /\ SendRequest(pc, f)
    /\ UNCHANGED nic

(* Mutant: the stage's loop starts over with each repetition. *)
RepeatedUncounted(f) ==
    /\ ~ Matches(f) /\ ~ Refuses(f) /\ late
    /\ EnterWait(pc)
    /\ SendRequest(pc, f)
    /\ UNCHANGED <<nic, try>>

Repeated(f) ==
    /\ ~ Matches(f) /\ ~ Refuses(f) /\ late
    /\ try + 1 < TryTimes
    /\ try' = try + 1
    /\ EnterWait(pc)
    /\ SendRequest(pc, f)
    /\ UNCHANGED nic

TriesExhausted(f) ==
    /\ ~ Matches(f) /\ ~ Refuses(f) /\ late
    /\ try + 1 >= TryTimes
    /\ NextInterface
    /\ UNCHANGED <<try, late, sent, toSwitch>>

Received(f) ==
    /\ pc \in Stages
    /\ last' = f
    /\ Proceed(f) \/ Refused(f) \/ Ignored(f) \/ Repeated(f) \/ TriesExhausted(f)
    /\ UNCHANGED switchVars

HearSwitch ==
    /\ toHost # <<>>
    /\ toHost' = Tail(toHost)
    /\ Received(Head(toHost))

(* Any other traffic of any interface. *)
HearOther ==
    /\ \E id \in Ids : Received([code |-> "other", id |-> id])
    /\ UNCHANGED toHost

(* recvfrom fails, its result is ignored: the buffer is read again. *)
HearNothing ==
    /\ Received(last)
    /\ UNCHANGED toHost

TimePasses ==
    /\ pc \in Stages /\ ~ late
    /\ late' = TRUE
    /\ UNCHANGED <<pc, nic, try, last, sent, toHost, toSwitch, switchVars>>

-----------------------------------------------------------------------------
(* The switch and the link, which are not part of the repository. *)

NextId == (turn.id + 1) % IdModulus

Says(code, id) == toHost' = Offer(toHost, [code |-> code, id |-> id], HostCap)

Asks(st) ==
    /\ turn' = [st |-> st, id |-> NextId]
    /\ Says(st, NextId)

Decides(code, state) ==
    /\ Says(code, turn.id)
    /\ turn' = [turn EXCEPT !.st = "idle"]
    /\ port' = state

Handles(p) ==
    \/ p.kind = "start" /\ Asks("identity") /\ UNCHANGED port
    \/ /\ p.kind = "logoff"
       /\ Says("failure", LogoffId)
       /\ port' = "closed" /\ turn' = [turn EXCEPT !.st = "idle"]
    \/ /\ p.kind = turn.st /\ p.id = turn.id
       /\ \/ p.kind = "identity" /\ Asks("md5") /\ UNCHANGED port
          \/ p.kind = "md5" /\ Decides("success", "open")
          \/ Decides("failure", "closed")
    \/ /\ p.kind \in {"identity", "md5"}
       /\ p.kind # turn.st \/ p.id # turn.id
       /\ UNCHANGED <<toHost, switchVars>>

SwitchHandles ==
    /\ toSwitch # <<>>
    /\ toSwitch' = Tail(toSwitch)
    /\ Handles(Head(toSwitch))
    /\ UNCHANGED hostVars

(* It repeats a question, and asks now and then whether the host is there. *)
SwitchAsks ==
    /\ Len(toHost) < HostCap
    /\ \/ turn.st # "idle" /\ Says(turn.st, turn.id) /\ UNCHANGED turn
       \/ turn.st = "idle" /\ port = "open" /\ Says("identity", NextId)
          /\ turn' = [turn EXCEPT !.id = NextId]
    /\ UNCHANGED <<hostVars, toSwitch, port>>

(* The keep-alive process of an earlier login answers as well. *)
KeeperAnswers ==
    /\ toHost # <<>> /\ Head(toHost).code = "identity"
    /\ Len(toSwitch) < SwitchCap
    /\ toSwitch' = Append(toSwitch, Packet("identity", Head(toHost).id))
    /\ UNCHANGED <<hostVars, toHost, switchVars>>

FrameLost ==
    /\ \/ toHost # <<>> /\ toHost' = Tail(toHost) /\ UNCHANGED toSwitch
       \/ toSwitch # <<>> /\ toSwitch' = Tail(toSwitch) /\ UNCHANGED toHost
    /\ UNCHANGED <<hostVars, switchVars>>

-----------------------------------------------------------------------------
Next ==
    \/ OpenInterface \/ InterfaceFails
    \/ HearSwitch \/ HearOther \/ HearNothing
    \/ TimePasses
    \/ SwitchHandles \/ SwitchAsks \/ KeeperAnswers \/ FrameLost

Spec == Init /\ [][Next]_vars

(* The process runs, time passes, the switch handles what reaches it. *)
Fairness ==
    /\ WF_vars(OpenInterface) /\ WF_vars(HearSwitch) /\ WF_vars(TimePasses)
    /\ WF_vars(SwitchHandles)

(* Nothing is asked of the other traffic... *)
QuietSpec == Spec /\ Fairness

(* ... or there always is more of it. *)
BusySpec == Spec /\ Fairness /\ WF_vars(HearOther)

-----------------------------------------------------------------------------
(* Properties. *)

(* When eaplogin reports success, the switch has opened the port for an   *)
(* answer of this login and has not closed it: no answer to another        *)
(* question, of an earlier process or of the keep-alive, passes for it.    *)
SuccessIsEarned == pc = "ok" => port = "open"

(* The invariant behind it.  A success on its way, or in the buffer, was   *)
(* said of the port as it still is: nothing that would close the port or   *)
(* ask the host again is under way behind the answer that earned it, since *)
(* all of that is sent before the first answer to a challenge.             *)
Undoing == {"start", "logoff"}

Under(queue, kinds) == \E i \in 1 .. Len(queue) : queue[i].kind \in kinds

SuccessSaid ==
    last.code = "success" \/ \E i \in 1 .. Len(toHost) : toHost[i].code = "success"

Earned == port = "open" /\ turn.st = "idle" /\ ~ Under(toSwitch, Undoing)

SuccessLasts == SuccessSaid \/ pc = "ok" => Earned

AnswersLast ==
    \A i, j \in 1 .. Len(toSwitch) :
        toSwitch[i].kind \in Undoing /\ toSwitch[j].kind = "md5" => i < j

Unasked ==
    pc \in {"open", "start"} /\ nic <= Uplink
        => ~ SuccessSaid /\ ~ Under(toSwitch, {"md5"})

AtTheUplink == pc \in {"identity", "md5", "ok"} => nic = Uplink

LoginInv == TypeOK /\ SuccessLasts /\ AnswersLast /\ Unasked /\ AtTheUplink

(* The waits the login has left on this interface, and on all of them;     *)
(* each of them has a part before TIMEOUT and one after it.                *)
WaitsHere ==
    CASE pc \in Ended -> 0
      [] pc = "md5" -> TryTimes - try
      [] pc = "identity" -> 2 * TryTimes - try
      [] pc = "start" -> 3 * TryTimes - try
      [] pc = "open" -> 3 * TryTimes + 1

WaitsLeft == (Nics - nic) * (3 * TryTimes + 1) + WaitsHere

PartsLeft == 2 * WaitsLeft + IF pc \in Stages /\ ~ late THEN 1 ELSE 0

(* Whatever the switch, the link and the rest of the traffic bring, the    *)
(* login only goes forward: no frame takes a stage back to an earlier one, *)
(* gives it more than TRY_TIMES waits, or leads back to an interface, so   *)
(* that PartsLeft bounds the waits of the whole login (eapol.c:403-440,    *)
(* main.c:264).                                                            *)
LoginAdvances ==
    [][\/ UNCHANGED <<pc, nic, try, late>>
       \/ PartsLeft' \in 0 .. PartsLeft - 1]_vars

(* Where there is traffic, try_smart_eaplogin comes to an end: no stage of *)
(* eaplogin is repeated for ever, on the interface of the switch or off it.*)
LoginEnds == <>(pc \in Ended)

(* eapol.h:9 says of TIMEOUT that a request is made again once that many   *)
(* seconds have passed.  recvfrom has no timeout, so it takes a frame.     *)
TimeoutsEnd == (pc \in Stages /\ late) ~> ~ late
=============================================================================
