-------------------------- MODULE LuciConsoleProofs --------------------------
(***************************************************************************)
(* Proofs about LuciConsole: its inductive invariant, and with it that a   *)
(* watched page always has a refresh pending, that a paused one is quiet,  *)
(* and that the snapshot cache never outlives an action of the console.    *)
(***************************************************************************)
EXTENDS LuciConsole, TLAPS

USE ControllerAssumption, ConsoleAssumption

(* Only a reply carries a snapshot, and it carries one of the router.      *)
LEMMA ReplyContents ==
    ASSUME NEW r \in Replies \cup {Asked} \cup {Commands(a) : a \in ServiceActions},
           r.st = "reply"
    PROVE  r.with \in Worlds
BY DEF Replies, Reply, Asked, Commands, NoRequest, Failure

LEMMA StoredType ==
    ASSUME NEW s \in Snapshots
    PROVE  Stored(s) \in [full : Snapshots, age : Ages]
BY DEF Stored, Ages

(* What an action of the console leaves of the router's state.             *)
LEMMA OutcomesType ==
    ASSUME NEW a \in ServiceActions, NEW w \in Worlds
    PROVE  Outcomes(a, w) \subseteq Worlds
<1>1. Commanded(a, w) \in Worlds
  BY DEF Commanded, ServiceActions, Worlds
<1>2. [w EXCEPT !.up = FALSE] \in Worlds
  BY DEF Worlds
<1>3. QED
  BY <1>1, <1>2 DEF Outcomes

LEMMA ServedType ==
    ASSUME ControllerTypeOK
    PROVE  Served \in Worlds
BY DEF ControllerTypeOK, Served, CacheHit, Snapshots, Nothing

-----------------------------------------------------------------------------
(* The controller's handlers. *)

LEMMA ServeFromCacheStep ==
    ASSUME ControllerTypeOK, CacheKeepsSettings, ServeFromCache
    PROVE  ControllerTypeOK' /\ CacheKeepsSettings'
<1>1. CASE CacheHit
  BY <1>1 DEF ServeFromCache, ControllerTypeOK, CacheKeepsSettings
<1>2. CASE ~ CacheHit
  <2>1. cache' = Stored(world) /\ world' = world /\ changes' = changes
    BY <1>2 DEF ServeFromCache
  <2>2. world \in Snapshots
    BY DEF ControllerTypeOK, Snapshots
  <2>3. ControllerTypeOK'
    BY <2>1, <2>2, StoredType DEF ControllerTypeOK
  <2>4. CacheKeepsSettings'
    BY <2>1 DEF CacheKeepsSettings, Stored
  <2>5. QED
    BY <2>3, <2>4
<1>3. QED
  BY <1>1, <1>2

LEMMA ForceRefreshStep ==
    ASSUME ControllerTypeOK, world' \in Worlds, changes' \in 0 .. MaxChanges,
           ForceRefresh
    PROVE  ControllerTypeOK' /\ CacheKeepsSettings'
<1>1. world' \in Snapshots
  BY DEF Snapshots
<1>2. cache' = Stored(world')
  BY DEF ForceRefresh
<1>3. ControllerTypeOK'
  BY <1>1, <1>2, StoredType DEF ControllerTypeOK
<1>4. CacheKeepsSettings'
  BY <1>2 DEF CacheKeepsSettings, Stored
<1>5. QED
  BY <1>3, <1>4

LEMMA ChangeStep ==
    ASSUME ControllerTypeOK, Change
    PROVE  changes' \in 0 .. MaxChanges
BY DEF ControllerTypeOK, Change

LEMMA SaveRestartType ==
    ASSUME ControllerTypeOK, NEW conf \in Confs, SaveRestart(conf)
    PROVE  world' \in Worlds
<1>1. [world EXCEPT !.conf = conf] \in Worlds
  BY DEF ControllerTypeOK, Worlds
<1>2. QED
  BY <1>1, OutcomesType DEF SaveRestart, ServiceActions

LEMMA ServiceActionType ==
    ASSUME ControllerTypeOK, NEW a \in ServiceActions, ServiceAction(a)
    PROVE  world' \in Worlds
BY OutcomesType DEF ServiceAction, ControllerTypeOK

LEMMA RouterTypeStep ==
    ASSUME ControllerTypeOK, CacheKeepsSettings,
           ProcessChanges \/ SecondPasses \/ CacheForgotten \/ ClockSetBack
    PROVE  ControllerTypeOK' /\ CacheKeepsSettings'
<1>1. CASE ProcessChanges
  <2>1. world' \in Worlds /\ changes' \in 0 .. MaxChanges
    BY <1>1, ChangeStep DEF ProcessChanges, ControllerTypeOK, Worlds
  <2>2. cache' = cache
    BY <1>1 DEF ProcessChanges
  <2>3. world'.auto = world.auto /\ world'.conf = world.conf
    BY <1>1 DEF ProcessChanges, ControllerTypeOK, Worlds
  <2>4. QED
    BY <2>1, <2>2, <2>3 DEF ControllerTypeOK, CacheKeepsSettings
<1>2. CASE SecondPasses
  <2>1. cache' = [cache EXCEPT !.age = @ + 1] /\ cache.age < Ttl
    BY <1>2 DEF SecondPasses
  <2>2. cache.age + 1 \in Ages
    BY <2>1 DEF ControllerTypeOK, Ages
  <2>3. world' = world /\ changes' = changes
    BY <1>2 DEF SecondPasses
  <2>4. cache' \in [full : Snapshots, age : Ages] /\ cache'.full = cache.full
    BY <2>1, <2>2 DEF ControllerTypeOK
  <2>5. QED
    BY <2>3, <2>4 DEF ControllerTypeOK, CacheKeepsSettings
<1>3. CASE CacheForgotten
  <2>1. Nothing \in Snapshots
    BY DEF Snapshots
  <2>2. cache' = Stored(Nothing) /\ world' = world /\ changes' = changes
    BY <1>3 DEF CacheForgotten
  <2>3. cache'.full = Nothing
    BY <2>2 DEF Stored
  <2>4. QED
    BY <2>1, <2>2, <2>3, StoredType DEF ControllerTypeOK, CacheKeepsSettings
<1>4. CASE ClockSetBack
  <2>1. cache' = [cache EXCEPT !.age = - ClockSlack] /\ world' = world
    BY <1>4 DEF ClockSetBack
  <2>2. - ClockSlack \in Ages
    BY DEF Ages
  <2>3. cache' \in [full : Snapshots, age : Ages] /\ cache'.full = cache.full
    BY <2>1, <2>2 DEF ControllerTypeOK
  <2>4. changes' \in 0 .. MaxChanges
    BY <1>4, ChangeStep DEF ClockSetBack
  <2>5. QED
    BY <2>1, <2>3, <2>4 DEF ControllerTypeOK, CacheKeepsSettings
<1>5. QED
  BY <1>1, <1>2, <1>3, <1>4

(* A step that leaves the controller alone. *)
LEMMA ControllerUnchanged ==
    ASSUME ControllerTypeOK, CacheKeepsSettings, UNCHANGED controllerVars
    PROVE  ControllerTypeOK' /\ CacheKeepsSettings'
BY DEF ControllerTypeOK, CacheKeepsSettings, controllerVars

-----------------------------------------------------------------------------
(* The page.  What RefreshAll does to the parts of the invariant. *)

PageTypeOK ==
    /\ autoRefresh \in BOOLEAN /\ visible \in BOOLEAN /\ armed \in BOOLEAN
    /\ refresh \in {"idle", "status", "logs"}
    /\ followUps \in 0 .. MaxFollowUps
    /\ get \in Replies \cup {Asked}
    /\ post \in Replies \cup {Commands(a) : a \in ServiceActions}
    /\ shown \in Snapshots
    /\ logs \in Snapshots
    /\ panel \in {"status", "logs"}
    /\ faults \in 0 .. MaxFaults

PageInv ==
    /\ PageTypeOK
    /\ ControlsHeld
    /\ RefreshPending
    /\ PausedIsQuiet

LEMMA Parts == IInv <=> ControllerTypeOK /\ CacheKeepsSettings /\ PageInv
BY DEF IInv, TypeOK, PageInv, PageTypeOK

LEMMA RequestTypes ==
    /\ NoRequest \in Replies
    /\ Failure \in Replies
    /\ \A w \in Worlds : Reply(w) \in Replies
BY DEF Replies

LEMMA RefreshAllEffect ==
    ASSUME PageTypeOK, NEW t \in BOOLEAN, RefreshAll(t)
    PROVE  /\ armed' \in BOOLEAN
           /\ armed' => t
           /\ refresh' \in {"idle", "status", "logs"}
           /\ get' \in Replies \cup {Asked}
           /\ Busy'
BY DEF RefreshAll, PageTypeOK, Busy

(* A callback or a click that calls refreshAll and otherwise leaves the    *)
(* page's switches as they are.                                            *)
LEMMA RefreshAllStep ==
    ASSUME PageInv, NEW t \in BOOLEAN, t => armed, RefreshAll(t),
           UNCHANGED <<autoRefresh, visible, post, shown, logs, faults>>,
           followUps' \in 0 .. followUps,
           panel' \in {"status", "logs"}
    PROVE  PageInv'
<1>1. /\ armed' \in BOOLEAN
      /\ armed' => t
      /\ refresh' \in {"idle", "status", "logs"}
      /\ get' \in Replies \cup {Asked}
      /\ Busy'
  BY RefreshAllEffect DEF PageInv
<1>2. followUps' \in 0 .. MaxFollowUps /\ followUps' <= followUps
  BY DEF PageInv, PageTypeOK
<1>3. PageTypeOK'
  BY <1>1, <1>2 DEF PageInv, PageTypeOK
<1>4. ControlsHeld'
  BY <1>2 DEF PageInv, PageTypeOK, ControlsHeld
<1>5. RefreshPending'
  BY <1>1 DEF RefreshPending
<1>6. PausedIsQuiet'
  BY <1>1 DEF PageInv, PausedIsQuiet, Watching
<1>7. QED
  BY <1>3, <1>4, <1>5, <1>6 DEF PageInv

LEMMA CallbackStep ==
    ASSUME PageInv, Callback
    PROVE  PageInv'
<1>1. CASE StatusAnswered
  <2>1. shown' \in Snapshots /\ panel' \in {"status", "logs"}
    <3>1. CASE get.st = "reply"
      BY <1>1, <3>1, ReplyContents
         DEF StatusAnswered, PageInv, PageTypeOK, Snapshots
    <3>2. CASE get.st # "reply"
      BY <1>1, <3>2 DEF StatusAnswered, PageInv, PageTypeOK
    <3>3. QED
      BY <3>1, <3>2
  <2>2. /\ refresh' = "logs" /\ get' = Asked
        /\ UNCHANGED <<autoRefresh, visible, armed, followUps, post, logs, faults>>
    BY <1>1 DEF StatusAnswered
  <2>3. PageTypeOK'
    BY <2>1, <2>2 DEF PageInv, PageTypeOK
  <2>4. ControlsHeld' /\ RefreshPending' /\ PausedIsQuiet'
    BY <2>2 DEF PageInv, ControlsHeld, RefreshPending, PausedIsQuiet, Watching, Busy
  <2>5. QED
    BY <2>3, <2>4 DEF PageInv
<1>2. CASE LogsAnswered
  <2>1. logs' \in Snapshots /\ panel' \in {"status", "logs"}
    <3>1. CASE get.st = "reply"
      BY <1>2, <3>1, ReplyContents
         DEF LogsAnswered, PageInv, PageTypeOK, Snapshots
    <3>2. CASE get.st # "reply"
      BY <1>2, <3>2 DEF LogsAnswered, PageInv, PageTypeOK
    <3>3. QED
      BY <3>1, <3>2
  <2>2. /\ refresh' = "idle" /\ get' = NoRequest
        /\ armed' = (autoRefresh /\ visible)
        /\ UNCHANGED <<autoRefresh, visible, followUps, post, shown, faults>>
    BY <1>2 DEF LogsAnswered, ScheduleRefresh
  <2>3. PageTypeOK'
    BY <2>1, <2>2, RequestTypes DEF PageInv, PageTypeOK
  <2>4. ControlsHeld' /\ RefreshPending' /\ PausedIsQuiet'
    BY <2>2 DEF PageInv, ControlsHeld, RefreshPending, PausedIsQuiet, Watching, Busy
  <2>5. QED
    BY <2>3, <2>4 DEF PageInv
<1>3. CASE PostAnswered
  <2>1. /\ post' = NoRequest
        /\ UNCHANGED <<autoRefresh, visible, refresh, get, logs, faults>>
    BY <1>3 DEF PostAnswered
  <2>2. followUps < MaxFollowUps
    BY <1>3 DEF PostAnswered, PageInv, ControlsHeld, NoRequest
  <2>3. CASE post.st = "reply"
    <3>1. /\ shown' = post.with /\ panel' = "status"
          /\ followUps' = followUps + 1 /\ armed' = armed
      BY <1>3, <2>3 DEF PostAnswered
    <3>2. shown' \in Snapshots
      BY <3>1, <2>3, ReplyContents DEF PageInv, PageTypeOK, Snapshots
    <3>3. followUps' \in 0 .. MaxFollowUps /\ followUps' > 0
      BY <2>2, <3>1 DEF PageInv, PageTypeOK
    <3>4. PageTypeOK'
      BY <2>1, <3>1, <3>2, <3>3, RequestTypes DEF PageInv, PageTypeOK
    <3>5. ControlsHeld' /\ RefreshPending' /\ PausedIsQuiet'
      BY <2>1, <3>1, <3>3
         DEF PageInv, ControlsHeld, RefreshPending, PausedIsQuiet, Watching
    <3>6. QED
      BY <3>4, <3>5 DEF PageInv
  <2>4. CASE post.st # "reply"
    <3>1. /\ armed' = (autoRefresh /\ visible)
          /\ UNCHANGED <<shown, panel, followUps>>
      BY <1>3, <2>4 DEF PostAnswered, ScheduleRefresh
    <3>2. PageTypeOK'
      BY <2>1, <3>1, RequestTypes DEF PageInv, PageTypeOK
    <3>3. ControlsHeld' /\ RefreshPending' /\ PausedIsQuiet'
      BY <2>1, <3>1
         DEF PageInv, ControlsHeld, RefreshPending, PausedIsQuiet, Watching
    <3>4. QED
      BY <3>2, <3>3 DEF PageInv
  <2>5. QED
    BY <2>3, <2>4
<1>4. CASE TimerFires
  <2>1. /\ armed /\ RefreshAll(FALSE)
        /\ UNCHANGED <<autoRefresh, visible, followUps, post, shown, logs,
                       panel, faults>>
    BY <1>4 DEF TimerFires
  <2>2. followUps' \in 0 .. followUps /\ panel' \in {"status", "logs"}
    BY <2>1 DEF PageInv, PageTypeOK
  <2>3. QED
    BY <2>1, <2>2, RefreshAllStep
<1>5. CASE FollowUpFires
  <2>1. followUps' \in 0 .. followUps
    BY <1>5 DEF FollowUpFires, PageInv, PageTypeOK
  <2>2. armed \in BOOLEAN
    BY DEF PageInv, PageTypeOK
  <2>3. QED
    BY <1>5, <2>1, <2>2, RefreshAllStep DEF FollowUpFires, PageInv, PageTypeOK
<1>6. QED
  BY <1>1, <1>2, <1>3, <1>4, <1>5 DEF Callback

LEMMA TriggerStep ==
    ASSUME PageInv, NEW a \in ServiceActions, TriggerService(a)
    PROVE  PageInv'
<1>1. /\ post = NoRequest /\ followUps < MaxFollowUps
      /\ armed' = FALSE /\ post' = Commands(a)
      /\ UNCHANGED <<autoRefresh, visible, refresh, followUps, get, shown,
                     logs, panel, faults>>
  BY DEF TriggerService, ControlsEnabled
<1>2. post' # NoRequest
  BY <1>1 DEF Commands, NoRequest
<1>3. PageTypeOK'
  BY <1>1 DEF PageInv, PageTypeOK
<1>4. ControlsHeld' /\ RefreshPending' /\ PausedIsQuiet'
  BY <1>1, <1>2 DEF PageInv, ControlsHeld, RefreshPending, PausedIsQuiet
<1>5. QED
  BY <1>3, <1>4 DEF PageInv

LEMMA FreshPageHolds ==
    ASSUME FreshPage, faults \in 0 .. MaxFaults
    PROVE  PageInv
<1>1. PageTypeOK
  <2>1. shown \in Snapshots /\ logs \in Snapshots /\ panel \in {"status", "logs"}
    BY DEF FreshPage, Snapshots
  <2>2. autoRefresh \in BOOLEAN /\ visible \in BOOLEAN /\ armed \in BOOLEAN
    BY DEF FreshPage
  <2>3. get \in Replies \cup {Asked} /\ refresh \in {"idle", "status", "logs"}
    BY DEF FreshPage
  <2>4. post \in Replies \cup {Commands(a) : a \in ServiceActions}
    BY RequestTypes DEF FreshPage
  <2>5. followUps \in 0 .. MaxFollowUps
    BY DEF FreshPage
  <2>6. QED
    BY <2>1, <2>2, <2>3, <2>4, <2>5 DEF PageTypeOK
<1>2. ControlsHeld /\ RefreshPending /\ PausedIsQuiet
  BY DEF FreshPage, ControlsHeld, RefreshPending, PausedIsQuiet, Busy
<1>3. QED
  BY <1>1, <1>2 DEF PageInv

LEMMA LoadPageStep ==
    ASSUME PageInv, LoadPage
    PROVE  PageInv'
<1>1. /\ autoRefresh' = TRUE /\ visible' = TRUE
      /\ refresh' = "status" /\ get' = Asked
      /\ armed' = FALSE /\ followUps' = 0 /\ post' = NoRequest
      /\ shown' = Nothing /\ logs' = Nothing /\ panel' = "status"
      /\ faults' = faults
  BY DEF LoadPage
<1>2. PageTypeOK'
  <2>1. shown' \in Snapshots /\ logs' \in Snapshots
    BY <1>1 DEF Snapshots
  <2>2. autoRefresh' \in BOOLEAN /\ visible' \in BOOLEAN /\ armed' \in BOOLEAN
    BY <1>1
  <2>3. /\ refresh' \in {"idle", "status", "logs"}
        /\ panel' \in {"status", "logs"}
        /\ get' \in Replies \cup {Asked}
    BY <1>1
  <2>4. post' \in Replies \cup {Commands(a) : a \in ServiceActions}
    BY <1>1, RequestTypes
  <2>5. followUps' \in 0 .. MaxFollowUps /\ faults' \in 0 .. MaxFaults
    BY <1>1 DEF PageInv, PageTypeOK
  <2>6. QED
    BY <2>1, <2>2, <2>3, <2>4, <2>5 DEF PageTypeOK
<1>3. ControlsHeld' /\ RefreshPending' /\ PausedIsQuiet'
  BY <1>1 DEF ControlsHeld, RefreshPending, PausedIsQuiet, Busy
<1>4. QED
  BY <1>2, <1>3 DEF PageInv

LEMMA ClickStep ==
    ASSUME PageInv, Click
    PROVE  PageInv'
<1>1. CASE ServiceClicked
  BY <1>1, TriggerStep DEF ServiceClicked, ServiceActions
<1>2. CASE AutostartClicked
  <2>1. PICK a \in {"enable", "disable"} : TriggerService(a)
    BY <1>2 DEF AutostartClicked
  <2>2. QED
    BY <2>1, TriggerStep DEF ServiceActions
<1>3. CASE RefreshClicked
  <2>1. /\ RefreshAll(armed)
        /\ UNCHANGED <<autoRefresh, visible, followUps, post, shown, logs,
                       panel, faults>>
    BY <1>3 DEF RefreshClicked
  <2>2. /\ followUps' \in 0 .. followUps
        /\ panel' \in {"status", "logs"}
        /\ armed \in BOOLEAN
    BY <2>1 DEF PageInv, PageTypeOK
  <2>3. QED
    BY <2>1, <2>2, RefreshAllStep
<1>4. CASE PauseClicked
  <2>1. /\ post = NoRequest
        /\ autoRefresh' = ~ autoRefresh
        /\ armed' = (autoRefresh' /\ visible)
        /\ UNCHANGED <<visible, refresh, followUps, get, post, shown, logs,
                       panel, faults>>
    BY <1>4 DEF PauseClicked, ControlsEnabled, ScheduleRefresh
  <2>2. PageTypeOK'
    BY <2>1 DEF PageInv, PageTypeOK
  <2>3. ControlsHeld' /\ RefreshPending' /\ PausedIsQuiet'
    BY <2>1 DEF PageInv, ControlsHeld, RefreshPending, PausedIsQuiet, Watching
  <2>4. QED
    BY <2>2, <2>3 DEF PageInv
<1>5. CASE LanguageChosen
  <2>1. /\ RefreshAll(armed)
        /\ UNCHANGED <<autoRefresh, visible, followUps, post, shown, logs, faults>>
    BY <1>5 DEF LanguageChosen
  <2>2. panel' \in {"status", "logs"}
    BY <1>5 DEF LanguageChosen, PageInv, PageTypeOK
  <2>3. /\ followUps' \in 0 .. followUps
        /\ armed \in BOOLEAN
    BY <2>1 DEF PageInv, PageTypeOK
  <2>4. QED
    BY <2>1, <2>2, <2>3, RefreshAllStep
<1>6. CASE Hide
  <2>1. /\ visible' = FALSE /\ armed' = (armed /\ ~ autoRefresh)
        /\ UNCHANGED <<autoRefresh, refresh, followUps, get, post, shown,
                       logs, panel, faults>>
    BY <1>6 DEF Hide
  <2>2. PageTypeOK'
    BY <2>1 DEF PageInv, PageTypeOK
  <2>3. ControlsHeld' /\ RefreshPending' /\ PausedIsQuiet'
    BY <2>1 DEF PageInv, ControlsHeld, RefreshPending, PausedIsQuiet, Watching
  <2>4. QED
    BY <2>2, <2>3 DEF PageInv
<1>7. CASE Show
  <2>1. /\ visible' = TRUE
        /\ UNCHANGED <<autoRefresh, followUps, post, shown, logs, panel, faults>>
    BY <1>7 DEF Show
  <2>2. CASE autoRefresh
    <3>1. RefreshAll(armed) /\ armed \in BOOLEAN
      BY <1>7, <2>2 DEF Show, PageInv, PageTypeOK
    <3>2. /\ armed' \in BOOLEAN
          /\ armed' => armed
          /\ refresh' \in {"idle", "status", "logs"}
          /\ get' \in Replies \cup {Asked}
          /\ Busy'
      BY <3>1, RefreshAllEffect DEF PageInv
    <3>3. PageTypeOK'
      BY <2>1, <3>2 DEF PageInv, PageTypeOK
    <3>4. ControlsHeld' /\ RefreshPending' /\ PausedIsQuiet'
      BY <2>1, <2>2, <3>2
         DEF PageInv, ControlsHeld, RefreshPending, PausedIsQuiet, Watching
    <3>5. QED
      BY <3>3, <3>4 DEF PageInv
  <2>3. CASE ~ autoRefresh
    <3>1. UNCHANGED <<armed, refresh, get>>
      BY <1>7, <2>3 DEF Show
    <3>2. PageTypeOK'
      BY <2>1, <3>1 DEF PageInv, PageTypeOK
    <3>3. ControlsHeld' /\ RefreshPending' /\ PausedIsQuiet'
      BY <2>1, <2>3, <3>1
         DEF PageInv, ControlsHeld, RefreshPending, PausedIsQuiet, Watching
    <3>4. QED
      BY <3>2, <3>3 DEF PageInv
  <2>4. QED
    BY <2>2, <2>3
<1>8. CASE LoadPage
  BY <1>8, LoadPageStep
<1>9. QED
  BY <1>1, <1>2, <1>3, <1>4, <1>5, <1>6, <1>7, <1>8 DEF Click

(* A step of the controller or of the network that touches one request.    *)
LEMMA RequestStep ==
    ASSUME PageInv,
           get' \in Replies \cup {Asked},
           post' = post \/ (post # NoRequest /\ post' \in Replies),
           faults' \in 0 .. MaxFaults,
           post' = NoRequest => post = NoRequest,
           UNCHANGED <<autoRefresh, visible, refresh, armed, followUps, shown,
                       logs, panel>>
    PROVE  PageInv'
<1>1. PageTypeOK'
  BY DEF PageInv, PageTypeOK
<1>2. ControlsHeld' /\ RefreshPending' /\ PausedIsQuiet'
  BY DEF PageInv, ControlsHeld, RefreshPending, PausedIsQuiet, Watching, Busy
<1>3. QED
  BY <1>1, <1>2 DEF PageInv

LEMMA ServePageStep ==
    ASSUME ControllerTypeOK, PageInv, Serve
    PROVE  PageInv'
<1>1. CASE HandleGet
  <2>1. get' \in Replies
    BY <1>1, ServedType, RequestTypes DEF HandleGet
  <2>2. UNCHANGED <<autoRefresh, visible, refresh, armed, followUps, post,
                    shown, logs, panel, faults>>
    BY <1>1 DEF HandleGet
  <2>3. faults' \in 0 .. MaxFaults
    BY <2>2 DEF PageInv, PageTypeOK
  <2>4. QED
    BY <2>1, <2>2, <2>3, RequestStep
<1>2. CASE HandlePost
  <2>1. post.st = "asked" /\ ServiceAction(post.action)
    BY <1>2 DEF HandlePost
  <2>2. post.action \in ServiceActions
    BY <2>1 DEF PageInv, PageTypeOK, Replies, Reply, NoRequest, Failure, Commands
  <2>3. world' \in Worlds
    BY <2>1, <2>2, ServiceActionType
  <2>4. post' \in {Reply(world'), Failure}
    BY <1>2 DEF HandlePost
  <2>5. post' \in Replies /\ post' # NoRequest
    BY <2>3, <2>4, RequestTypes DEF Reply, Failure, NoRequest
  <2>6. UNCHANGED <<autoRefresh, visible, refresh, armed, followUps, get,
                    shown, logs, panel, faults>>
    BY <1>2 DEF HandlePost
  <2>7. post # NoRequest
    BY <2>1 DEF NoRequest
  <2>8. faults' \in 0 .. MaxFaults /\ get' \in Replies \cup {Asked}
    BY <2>6 DEF PageInv, PageTypeOK
  <2>9. QED
    BY <2>5, <2>6, <2>7, <2>8, RequestStep
<1>3. QED
  BY <1>1, <1>2 DEF Serve

LEMMA FaultStep ==
    ASSUME PageInv, GetFails \/ PostFails
    PROVE  PageInv'
<1>1. faults' \in 0 .. MaxFaults
  BY DEF PageInv, PageTypeOK, GetFails, PostFails
<1>2. CASE GetFails
  BY <1>1, <1>2, RequestTypes, RequestStep DEF GetFails
<1>3. CASE PostFails
  <2>1. /\ post # NoRequest /\ post' = Failure
        /\ UNCHANGED <<autoRefresh, visible, refresh, armed, followUps, get,
                       shown, logs, panel>>
    BY <1>3 DEF PostFails, NoRequest
  <2>2. get' \in Replies \cup {Asked} /\ post' # NoRequest /\ post' \in Replies
    BY <2>1, RequestTypes DEF PageInv, PageTypeOK, Failure, NoRequest
  <2>3. QED
    BY <1>1, <2>1, <2>2, RequestStep
<1>4. QED
  BY <1>2, <1>3

LEMMA PageUnchanged ==
    ASSUME PageInv, UNCHANGED pageVars
    PROVE  PageInv'
BY DEF pageVars, PageInv, PageTypeOK, ControlsHeld, RefreshPending,
       PausedIsQuiet, Watching, Busy

LEMMA PageStep ==
    ASSUME ControllerTypeOK, PageInv, [Next]_vars
    PROVE  PageInv'
<1>1. CASE OtherPage \/ RouterStep \/ UNCHANGED vars
  BY <1>1, PageUnchanged DEF OtherPage, RouterStep, vars
<1>2. QED
  BY <1>1, CallbackStep, ClickStep, ServePageStep, FaultStep DEF Next

LEMMA ControllerStep ==
    ASSUME ControllerTypeOK, CacheKeepsSettings, PageInv, [Next]_vars
    PROVE  ControllerTypeOK' /\ CacheKeepsSettings'
<1>1. CASE Callback \/ GetFails \/ PostFails \/ UNCHANGED vars
  <2>1. UNCHANGED controllerVars
    BY <1>1 DEF Callback, StatusAnswered, LogsAnswered, PostAnswered,
                TimerFires, FollowUpFires, GetFails, PostFails, vars
  <2>2. QED
    BY <2>1, ControllerUnchanged
<1>2. CASE Click
  <2>1. CASE RefreshClicked \/ PauseClicked \/ LanguageChosen \/ Hide \/ Show
    <3>1. UNCHANGED controllerVars
      BY <2>1 DEF RefreshClicked, PauseClicked, LanguageChosen, Hide, Show
    <3>2. QED
      BY <3>1, ControllerUnchanged
  <2>2. CASE ServiceClicked \/ AutostartClicked
    <3>1. Change /\ UNCHANGED <<world, cache>>
      BY <2>2 DEF ServiceClicked, AutostartClicked, TriggerService
    <3>2. QED
      BY <3>1, ChangeStep DEF ControllerTypeOK, CacheKeepsSettings
  <2>3. CASE LoadPage
    <3>1. changes' \in 0 .. MaxChanges
      BY <2>3, ChangeStep DEF LoadPage
    <3>2. CASE RenderForm
      BY <3>1, <3>2, ForceRefreshStep DEF RenderForm, ControllerTypeOK
    <3>3. CASE \E conf \in Confs : SaveRestart(conf)
      <4>1. world' \in Worlds /\ ForceRefresh
        BY <3>3, SaveRestartType DEF SaveRestart
      <4>2. QED
        BY <3>1, <4>1, ForceRefreshStep
    <3>4. QED
      BY <2>3, <3>2, <3>3 DEF LoadPage
  <2>4. QED
    BY <1>2, <2>1, <2>2, <2>3 DEF Click
<1>3. CASE Serve
  <2>1. CASE HandleGet
    BY <2>1, ServeFromCacheStep DEF HandleGet
  <2>2. CASE HandlePost
    <3>1. post.st = "asked" /\ ServiceAction(post.action) /\ changes' = changes
      BY <2>2 DEF HandlePost
    <3>2. post.action \in ServiceActions
      BY <3>1 DEF PageInv, PageTypeOK, Replies, Reply, NoRequest, Failure, Commands
    <3>3. world' \in Worlds /\ ForceRefresh
      BY <3>1, <3>2, ServiceActionType DEF ServiceAction
    <3>4. changes' \in 0 .. MaxChanges
      BY <3>1 DEF ControllerTypeOK
    <3>5. QED
      BY <3>3, <3>4, ForceRefreshStep
  <2>3. QED
    BY <1>3, <2>1, <2>2 DEF Serve
<1>4. CASE OtherPage
  <2>1. CASE ServeFromCache
    BY <2>1, ServeFromCacheStep
  <2>2. CASE RenderForm /\ UNCHANGED changes
    <3>1. world' \in Worlds /\ ForceRefresh /\ changes' \in 0 .. MaxChanges
      BY <2>2 DEF RenderForm, ControllerTypeOK
    <3>2. QED
      BY <3>1, ForceRefreshStep
  <2>3. CASE Change /\ \E a \in ServiceActions : ServiceAction(a)
    <3>1. world' \in Worlds /\ ForceRefresh
      BY <2>3, ServiceActionType DEF ServiceAction
    <3>2. QED
      BY <2>3, <3>1, ChangeStep, ForceRefreshStep
  <2>4. CASE Change /\ \E conf \in Confs : SaveRestart(conf)
    <3>1. world' \in Worlds /\ ForceRefresh
      BY <2>4, SaveRestartType DEF SaveRestart
    <3>2. QED
      BY <2>4, <3>1, ChangeStep, ForceRefreshStep
  <2>5. QED
    BY <1>4, <2>1, <2>2, <2>3, <2>4 DEF OtherPage
<1>5. CASE RouterStep
  BY <1>5, RouterTypeStep DEF RouterStep
<1>6. QED
  BY <1>1, <1>2, <1>3, <1>4, <1>5 DEF Next

LEMMA InitInv ==
    ASSUME Init
    PROVE  IInv
<1>1. cache \in [full : Snapshots, age : Ages] /\ cache.full = world
  BY StoredType DEF Init, Snapshots, Stored
<1>2. ControllerTypeOK
  BY <1>1 DEF Init, ControllerTypeOK
<1>3. CacheKeepsSettings
  BY <1>1 DEF CacheKeepsSettings
<1>4. PageInv
  BY FreshPageHolds DEF Init
<1>5. QED
  BY <1>2, <1>3, <1>4, Parts

-----------------------------------------------------------------------------
(* The invariant of the console: types, room for the follow-up of an       *)
(* action that is out, and the three properties below.                     *)
THEOREM Invariance == Spec => []IInv
<1>1. Init => IInv
  BY InitInv
<1>2. IInv /\ [Next]_vars => IInv'
  <2>1. SUFFICES ASSUME IInv, [Next]_vars PROVE IInv'
    OBVIOUS
  <2>2. ControllerTypeOK /\ CacheKeepsSettings /\ PageInv
    BY <2>1, Parts
  <2>3. ControllerTypeOK' /\ CacheKeepsSettings'
    BY <2>1, <2>2, ControllerStep
  <2>4. PageInv'
    BY <2>1, <2>2, PageStep
  <2>5. QED
    BY <2>3, <2>4 DEF IInv, TypeOK, PageInv, PageTypeOK
<1>3. QED
  BY <1>1, <1>2, PTL DEF Spec

(* A page that is looked at and not paused always has a refresh coming,    *)
(* whatever order its callbacks, clicks and replies come in.               *)
THEOREM RefreshNeverStalls == Spec => []RefreshPending
<1>1. IInv => RefreshPending
  BY DEF IInv
<1>2. QED
  BY <1>1, Invariance, PTL

(* The refresh timer of a paused or hidden page is off. *)
THEOREM PauseHolds == Spec => []PausedIsQuiet
<1>1. IInv => PausedIsQuiet
  BY DEF IInv
<1>2. QED
  BY <1>1, Invariance, PTL

(* No service action and no saved configuration leaves an older snapshot   *)
(* in the controller's cache.                                              *)
THEOREM CacheFollowsActions == Spec => []CacheKeepsSettings
<1>1. IInv => CacheKeepsSettings
  BY DEF IInv
<1>2. QED
  BY <1>1, Invariance, PTL
=============================================================================
