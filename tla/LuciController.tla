--------------------------- MODULE LuciController ---------------------------
(***************************************************************************)
(* The LuCI controller of the service (luci/controller/drcom.lua): the     *)
(* snapshot of the service it builds for the page, the cache it keeps the  *)
(* last one in, and the requests that change the service or its            *)
(* configuration.  A handler runs to its end before the next one starts.   *)
(*                                                                         *)
(* `world' is what a snapshot reports: whether the process runs, whether   *)
(* it starts at boot, and which configuration is on disk.                  *)
(***************************************************************************)
EXTENDS Integers

CONSTANTS
    Ttl,         \* SNAPSHOT_CACHE_TTL, 3 seconds
    ClockSlack,  \* how far the router's clock may be set back
    Confs,       \* configuration files
    MaxChanges   \* bound: changes of the world in one behaviour

ASSUME ControllerAssumption ==
    /\ Ttl \in Nat
    /\ ClockSlack \in Nat
    /\ MaxChanges \in Nat

VARIABLES
    world,
    cache,       \* snapshot_cache, the age it has by os.time() with it
    changes

controllerVars == <<world, cache, changes>>

Worlds == [up : BOOLEAN, auto : BOOLEAN, conf : Confs]
Nothing == [empty |-> TRUE]
Snapshots == Worlds \cup {Nothing}
Ages == (- ClockSlack) .. Ttl

ControllerTypeOK ==
    /\ world \in Worlds
    /\ cache \in [full : Snapshots, age : Ages]
    /\ changes \in 0 .. MaxChanges

CacheHit == cache.full # Nothing /\ cache.age < Ttl

Stored(snapshot) == [full |-> snapshot, age |-> 0]

(* build_snapshot(_, false): what it returns, what it leaves in the cache.  *)
Served == IF CacheHit THEN cache.full ELSE world

ServeFromCache ==
    /\ cache' = IF CacheHit THEN cache ELSE Stored(world)
    /\ UNCHANGED <<world, changes>>

(* build_snapshot(_, true), once the rest of the handler is done.          *)
ForceRefresh == cache' = Stored(world')

-----------------------------------------------------------------------------
ServiceActions == {"start", "stop", "restart", "enable", "disable"}

(* run_service_action: the init script's command, which may fail half way. *)
(* procd starts and ends the process after the command has returned, so    *)
(* the snapshot that follows may still see the process as it was.          *)
Commanded(action, w) ==
    CASE action = "start" -> [w EXCEPT !.up = TRUE]
      [] action = "stop" -> [w EXCEPT !.up = FALSE]
      [] action = "restart" -> [w EXCEPT !.up = TRUE]
      [] action = "enable" -> [w EXCEPT !.auto = TRUE]
      [] action = "disable" -> [w EXCEPT !.auto = FALSE]

Outcomes(action, w) ==
    {w, Commanded(action, w)} \cup
        (IF action = "restart" THEN {[w EXCEPT !.up = FALSE]} ELSE {})

Change == changes < MaxChanges /\ changes' = changes + 1

(* Mutant: the reply and the cache keep the snapshot of before the action. *)
ServiceActionCached(action) ==
    /\ world' \in Outcomes(action, world)
    /\ cache' = IF CacheHit THEN cache ELSE Stored(world')

(* service_action, without its reply. *)
ServiceAction(action) ==
    /\ world' \in Outcomes(action, world)
    /\ ForceRefresh

(* render_form with save_restart: the file is written, the service is      *)
(* restarted, the page is built.                                           *)
SaveRestart(conf) ==
    /\ world' \in Outcomes("restart", [world EXCEPT !.conf = conf])
    /\ ForceRefresh

(* render_form without an action, or with a token that does not match.     *)
RenderForm ==
    /\ UNCHANGED world
    /\ ForceRefresh

-----------------------------------------------------------------------------
(* The process starts, ends or dies on its own. *)
ProcessChanges ==
    /\ Change
    /\ world' = [world EXCEPT !.up = ~ @]
    /\ UNCHANGED cache

SecondPasses ==
    /\ cache.age < Ttl
    /\ cache' = [cache EXCEPT !.age = @ + 1]
    /\ UNCHANGED <<world, changes>>

(* The web server starts its interpreter again. *)
CacheForgotten ==
    /\ cache' = Stored(Nothing)
    /\ UNCHANGED <<world, changes>>

(* The router keeps no time while it is off and sets its clock from the net. *)
ClockSetBack ==
    /\ Change
    /\ cache' = [cache EXCEPT !.age = - ClockSlack]
    /\ UNCHANGED world
=============================================================================
