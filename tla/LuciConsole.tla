----------------------------- MODULE LuciConsole -----------------------------
(***************************************************************************)
(* The service page (luci/view/drcom/form.htm) in one browser, with the    *)
(* controller it talks to.  The page refreshes itself: a status request,   *)
(* then a log request, then a timer for the next refresh; a click may send *)
(* a service action meanwhile.  The browser runs one callback at a time.   *)
(*                                                                         *)
(* `refresh' is the stage of refreshAll and refreshBusy in one.  `armed'   *)
(* holds while a timeout that refreshTimer names is pending; `followUps'   *)
(* counts the timeouts of triggerService, which nothing can cancel.        *)
(***************************************************************************)
EXTENDS LuciController

CONSTANTS
    MaxFollowUps,   \* bound: pending timeouts of triggerService
    MaxFaults       \* bound: requests that fail

ASSUME ConsoleAssumption ==
    /\ MaxFollowUps \in Nat \ {0}
    /\ MaxFaults \in Nat

VARIABLES
    autoRefresh,
    visible,        \* ~ document.hidden
    refresh,
    armed,
    followUps,
    get,            \* the request of the refresh
    post,           \* the service action
    shown,          \* lastStatusData
    logs,           \* lastLogsData
    panel,          \* whose errors the error panel shows
    faults

pageVars == <<autoRefresh, visible, refresh, armed, followUps, get, post,
              shown, logs, panel, faults>>
vars == <<controllerVars, pageVars>>

NoRequest == [st |-> "none"]
Asked == [st |-> "asked"]
Reply(snapshot) == [st |-> "reply", with |-> snapshot]
Failure == [st |-> "failed"]
Commands(action) == [st |-> "asked", action |-> action]

Replies == {Reply(w) : w \in Worlds} \cup {NoRequest, Failure}

TypeOK ==
    /\ ControllerTypeOK
    /\ autoRefresh \in BOOLEAN /\ visible \in BOOLEAN /\ armed \in BOOLEAN
    /\ refresh \in {"idle", "status", "logs"}
    /\ followUps \in 0 .. MaxFollowUps
    /\ get \in Replies \cup {Asked}
    /\ post \in Replies \cup {Commands(a) : a \in ServiceActions}
    /\ shown \in Snapshots
    /\ logs \in Snapshots
    /\ panel \in {"status", "logs"}
    /\ faults \in 0 .. MaxFaults

(* The page was just rendered, and its script has run refreshAll(false).   *)
FreshPage ==
    /\ autoRefresh = TRUE /\ visible = TRUE
    /\ refresh = "status" /\ get = Asked
    /\ armed = FALSE /\ followUps = 0
    /\ post = NoRequest
    /\ shown = Nothing /\ logs = Nothing /\ panel = "status"

Init ==
    /\ world \in Worlds
    /\ cache = Stored(world)
    /\ changes = 0 /\ faults = 0
    /\ FreshPage

-----------------------------------------------------------------------------
Busy == refresh # "idle"

(* Mutant: a hidden page arms the timer as well. *)
ScheduleRefreshHidden(on) == armed' = on

(* scheduleRefresh: the timer is cleared, and set again if it has a use.   *)
ScheduleRefresh(on) == armed' = (on /\ visible)

(* refreshAll, given what the timer is when it is called. *)
RefreshAll(timer) ==
    IF Busy
    THEN armed' = timer /\ UNCHANGED <<refresh, get>>
    ELSE armed' = FALSE /\ refresh' = "status" /\ get' = Asked

(* The callback of refreshStatus asks for the logs, whatever it was told. *)
StatusAnswered ==
    /\ refresh = "status" /\ get.st \in {"reply", "failed"}
    /\ IF get.st = "reply"
       THEN shown' = get.with /\ panel' = "status"
       ELSE UNCHANGED <<shown, panel>>
    /\ refresh' = "logs" /\ get' = Asked
    /\ UNCHANGED <<controllerVars, autoRefresh, visible, armed, followUps,
                   post, logs, faults>>

(* Mutant: only a refresh that went well arms the timer for the next.      *)
LogsAnsweredOrStuck ==
    /\ refresh = "logs" /\ get.st \in {"reply", "failed"}
    /\ refresh' = "idle" /\ get' = NoRequest
    /\ IF get.st = "reply"
       THEN logs' = get.with /\ panel' = "logs" /\ ScheduleRefresh(autoRefresh)
       ELSE UNCHANGED <<logs, panel, armed>>
    /\ UNCHANGED <<controllerVars, autoRefresh, visible, followUps, post,
                   shown, faults>>

LogsAnswered ==
    /\ refresh = "logs" /\ get.st \in {"reply", "failed"}
    /\ IF get.st = "reply"
       THEN logs' = get.with /\ panel' = "logs"
       ELSE UNCHANGED <<logs, panel>>
    /\ refresh' = "idle" /\ get' = NoRequest
    /\ ScheduleRefresh(autoRefresh)
    /\ UNCHANGED <<controllerVars, autoRefresh, visible, followUps, post,
                   shown, faults>>

TimerFires ==
    /\ armed
    /\ RefreshAll(FALSE)
    /\ UNCHANGED <<controllerVars, autoRefresh, visible, followUps, post,
                   shown, logs, panel, faults>>

FollowUpFires ==
    /\ followUps > 0
    /\ followUps' = followUps - 1
    /\ RefreshAll(armed)
    /\ UNCHANGED <<controllerVars, autoRefresh, visible, post, shown, logs,
                   panel, faults>>

-----------------------------------------------------------------------------
(* Clicks.  While a service action is out the controls are disabled. *)
ControlsEnabled == visible /\ post = NoRequest

TriggerService(action) ==
    /\ ControlsEnabled
    /\ followUps < MaxFollowUps
    /\ Change
    /\ armed' = FALSE
    /\ post' = Commands(action)
    /\ UNCHANGED <<world, cache, autoRefresh, visible, refresh, followUps,
                   get, shown, logs, panel, faults>>

AutostartClicked ==
    TriggerService(IF shown # Nothing /\ shown.auto THEN "disable" ELSE "enable")

ServiceClicked == \E action \in {"start", "stop", "restart"} : TriggerService(action)

(* Mutant: the answer to an action is taken for the last word. *)
PostAnsweredAndDone ==
    /\ post.st \in {"reply", "failed"}
    /\ IF post.st = "reply"
       THEN shown' = post.with /\ panel' = "status" /\ UNCHANGED armed
       ELSE ScheduleRefresh(autoRefresh) /\ UNCHANGED <<shown, panel>>
    /\ post' = NoRequest
    /\ UNCHANGED <<controllerVars, autoRefresh, visible, refresh, get,
                   followUps, logs, faults>>

(* An action that was carried out shows the status it came with and asks   *)
(* for another refresh; one that failed goes back to the timer.            *)
PostAnswered ==
    /\ post.st \in {"reply", "failed"}
    /\ IF post.st = "reply"
       THEN /\ shown' = post.with /\ panel' = "status"
            /\ followUps' = followUps + 1
            /\ UNCHANGED armed
       ELSE ScheduleRefresh(autoRefresh) /\ UNCHANGED <<shown, panel, followUps>>
    /\ post' = NoRequest
    /\ UNCHANGED <<controllerVars, autoRefresh, visible, refresh, get, logs,
                   faults>>

RefreshClicked ==
    /\ ControlsEnabled
    /\ RefreshAll(armed)
    /\ UNCHANGED <<controllerVars, autoRefresh, visible, followUps, post,
                   shown, logs, panel, faults>>

PauseClicked ==
    /\ ControlsEnabled
    /\ autoRefresh' = ~ autoRefresh
    /\ ScheduleRefresh(autoRefresh')
    /\ UNCHANGED <<controllerVars, visible, refresh, followUps, get, post,
                   shown, logs, panel, faults>>

(* setLanguage renders the last status and the last logs again. *)
LanguageChosen ==
    /\ visible
    /\ panel' = IF logs # Nothing THEN "logs" ELSE panel
    /\ RefreshAll(armed)
    /\ UNCHANGED <<controllerVars, autoRefresh, visible, followUps, post,
                   shown, logs, faults>>

Hide ==
    /\ visible
    /\ visible' = FALSE
    /\ armed' = (armed /\ ~ autoRefresh)
    /\ UNCHANGED <<controllerVars, autoRefresh, refresh, followUps, get, post,
                   shown, logs, panel, faults>>

Show ==
    /\ ~ visible
    /\ visible' = TRUE
    /\ IF autoRefresh THEN RefreshAll(armed)
       ELSE UNCHANGED <<armed, refresh, get>>
    /\ UNCHANGED <<controllerVars, autoRefresh, followUps, post, shown, logs,
                   panel, faults>>

(* The form is submitted, or the page is loaded again: a new page starts.  *)
LoadPage ==
    /\ visible
    /\ Change
    /\ RenderForm \/ \E conf \in Confs : SaveRestart(conf)
    /\ autoRefresh' = TRUE /\ visible' = TRUE
    /\ refresh' = "status" /\ get' = Asked
    /\ armed' = FALSE /\ followUps' = 0
    /\ post' = NoRequest
    /\ shown' = Nothing /\ logs' = Nothing /\ panel' = "status"
    /\ UNCHANGED faults

-----------------------------------------------------------------------------
HandleGet ==
    /\ get = Asked
    /\ ServeFromCache
    /\ get' = Reply(Served)
    /\ UNCHANGED <<autoRefresh, visible, refresh, armed, followUps, post,
                   shown, logs, panel, faults>>

(* The reply says whether the command went well; it may fail after it had  *)
(* an effect.                                                              *)
HandlePost ==
    /\ post.st = "asked"
    /\ ServiceAction(post.action)
    /\ post' \in {Reply(world'), Failure}
    /\ UNCHANGED <<changes, autoRefresh, visible, refresh, armed, followUps,
                   get, shown, logs, panel, faults>>

(* A request or its reply is lost, or the session has run out. *)
GetFails ==
    /\ get.st \in {"asked", "reply"} /\ faults < MaxFaults
    /\ get' = Failure /\ faults' = faults + 1
    /\ UNCHANGED <<controllerVars, autoRefresh, visible, refresh, armed,
                   followUps, post, shown, logs, panel>>

PostFails ==
    /\ post.st \in {"asked", "reply"} /\ faults < MaxFaults
    /\ post' = Failure /\ faults' = faults + 1
    /\ UNCHANGED <<controllerVars, autoRefresh, visible, refresh, armed,
                   followUps, get, shown, logs, panel>>

(* Another page, or an action this page sent before it was left.           *)
OtherPage ==
    /\ \/ ServeFromCache
       \/ RenderForm /\ UNCHANGED changes
       \/ Change /\ \E action \in ServiceActions : ServiceAction(action)
       \/ Change /\ \E conf \in Confs : SaveRestart(conf)
    /\ UNCHANGED pageVars

RouterStep ==
    /\ ProcessChanges \/ SecondPasses \/ CacheForgotten \/ ClockSetBack
    /\ UNCHANGED pageVars

Callback ==
    \/ StatusAnswered \/ LogsAnswered \/ PostAnswered
    \/ TimerFires \/ FollowUpFires

Click ==
    \/ ServiceClicked \/ AutostartClicked \/ RefreshClicked \/ PauseClicked
    \/ LanguageChosen \/ Hide \/ Show \/ LoadPage

Serve == HandleGet \/ HandlePost

Next == Callback \/ Click \/ Serve \/ GetFails \/ PostFails \/ OtherPage \/ RouterStep

Spec == Init /\ [][Next]_vars

(* The browser runs the callbacks that are due and the timeouts that have  *)
(* passed, the controller answers, the router's clock runs.                *)
Fairness ==
    /\ WF_vars(StatusAnswered) /\ WF_vars(LogsAnswered) /\ WF_vars(PostAnswered)
    /\ WF_vars(TimerFires) /\ WF_vars(FollowUpFires)
    /\ WF_vars(HandleGet) /\ WF_vars(HandlePost)
    /\ WF_vars(SecondPasses /\ UNCHANGED pageVars)

FairSpec == Spec /\ Fairness

-----------------------------------------------------------------------------
(* Properties. *)

Watching == autoRefresh /\ visible

(* A page that is looked at and not paused never falls silent: something   *)
(* that ends in another refresh is always pending.  Seven handlers arm,    *)
(* clear and skip the timer, in any order the callbacks come.              *)
RefreshPending == Watching => armed \/ Busy \/ post # NoRequest \/ followUps > 0

(* A paused or hidden page polls no more once what it began has ended.     *)
PausedIsQuiet == armed => Watching

(* Whatever the cache holds agrees with the router in what only the        *)
(* console changes: no action leaves a snapshot from before it behind.     *)
CacheKeepsSettings ==
    cache.full # Nothing =>
        cache.full.auto = world.auto /\ cache.full.conf = world.conf

Settled == shown = world /\ logs = world

(* A page that stays watched ends up showing the service as it is, though  *)
(* replies overtake each other, the cache serves old snapshots and a       *)
(* follow-up may be dropped because a refresh is under way.                *)
DisplaySettles == <>[]Watching => <>[]Settled

(* The inductive invariant behind the first three, in LuciConsoleProofs. *)
(* An action that is out has room for its follow-up. *)
ControlsHeld == post # NoRequest => followUps < MaxFollowUps

IInv ==
    /\ TypeOK
    /\ ControlsHeld
    /\ RefreshPending
    /\ PausedIsQuiet
    /\ CacheKeepsSettings
=============================================================================
