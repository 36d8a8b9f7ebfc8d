---------------------------- MODULE StateViews ----------------------------
(***************************************************************************)
(* The subscribers of ProxyRuntime::state_changes and what they show: the  *)
(* task that emits runtime events to the window and the task that updates  *)
(* the tray (spawn_runtime_forwarder and spawn_tray, src-tauri/lib.rs).    *)
(*                                                                         *)
(* Each of them loops: wait until the watch channel holds a value it has   *)
(* not seen, read health(), show the result.  health() holds the mutex of  *)
(* the handle map, which keeps start, stop and shutdown out, but it reads  *)
(* the handles one after another and the tasks behind them go on setting   *)
(* their states meanwhile.  The number the channel carries is not used:    *)
(* any send wakes every subscriber, however many sends it missed.          *)
(***************************************************************************)
EXTENDS ProxyRuntime, FiniteSets

CONSTANT Viewer    \* the subscriber tasks

VARIABLES
  fresh,      \* viewers whose receiver holds an unseen value
  stage,      \* where each viewer is in its loop
  unread,     \* handles the running health() has still to read
  snapshot,   \* what its health() has read so far
  view        \* what it shows

viewVars == <<fresh, stage, unread, snapshot, view>>
allVars == <<vars, viewVars>>

(* The viewer that holds the mutex of the handle map, if any. *)
MapLocked == \E v \in Viewer : stage[v] = "reading"

Nothing == [l \in Listener |-> "Unknown"]

(* Both viewers subscribe before the first listener is started.            *)
InitViews ==
  /\ Init
  /\ fresh = {}
  /\ stage = [v \in Viewer |-> "waiting"]
  /\ unread = [v \in Viewer |-> {}]
  /\ snapshot = [v \in Viewer |-> Nothing]
  /\ view = [v \in Viewer |-> Nothing]

-----------------------------------------------------------------------------
(* changed() returns and marks the current value as seen.                  *)
Wake(v) ==
  /\ stage[v] = "waiting"
  /\ v \in fresh
  /\ fresh' = fresh \ {v}
  /\ stage' = [stage EXCEPT ![v] = "woken"]
  /\ UNCHANGED <<vars, unread, snapshot, view>>

LockMap(v) ==
  /\ stage[v] = "woken"
  /\ ~MapLocked
  /\ stage' = [stage EXCEPT ![v] = "reading"]
  /\ unread' = [unread EXCEPT ![v] = {l \in Listener : gen[l] # 0}]
  /\ snapshot' = [snapshot EXCEPT ![v] = Nothing]
  /\ UNCHANGED <<vars, fresh, view>>

ReadHandle(v, l) ==
  /\ stage[v] = "reading"
  /\ l \in unread[v]
  /\ unread' = [unread EXCEPT ![v] = @ \ {l}]
  /\ snapshot' = [snapshot EXCEPT ![v][l] = Reported(l)]
  /\ UNCHANGED <<vars, fresh, stage, view>>

UnlockMap(v) ==
  /\ stage[v] = "reading"
  /\ unread[v] = {}
  /\ stage' = [stage EXCEPT ![v] = "showing"]
  /\ UNCHANGED <<vars, fresh, unread, snapshot, view>>

(* Faulty: the value is marked as seen only once the result is shown.      *)
ShowThenMarkSeen(v) ==
  /\ stage[v] = "showing"
  /\ stage' = [stage EXCEPT ![v] = "waiting"]
  /\ view' = [view EXCEPT ![v] = snapshot[v]]
  /\ fresh' = fresh \ {v}
  /\ UNCHANGED <<vars, unread, snapshot>>

Show(v) ==
  /\ stage[v] = "showing"
  /\ stage' = [stage EXCEPT ![v] = "waiting"]
  /\ view' = [view EXCEPT ![v] = snapshot[v]]
  /\ UNCHANGED <<vars, fresh, unread, snapshot>>

ViewerStep(v) ==
  \/ Wake(v)
  \/ LockMap(v)
  \/ \E l \in Listener : ReadHandle(v, l)
  \/ UnlockMap(v)
  \/ Show(v)

-----------------------------------------------------------------------------
(* Calls wait for the mutex. *)
Call ==
  /\ ~MapLocked
  /\ \/ \E l \in Listener, p \in Port : StartListener(l, p)
     \/ \E l \in Listener : StopListener(l)
     \/ Shutdown
  /\ UNCHANGED viewVars

(* A send marks the channel's value as unseen for every subscriber.        *)
RuntimeStep ==
  \E l \in Listener, n \in Task :
    /\ TaskStep(l, n)
    /\ fresh' = IF SendGeneration(l, n) THEN Viewer ELSE fresh
    /\ UNCHANGED <<stage, unread, snapshot, view>>

NextViews == Call \/ RuntimeStep \/ \E v \in Viewer : ViewerStep(v)

SafetyViews == InitViews /\ [][NextViews]_allVars

(* The viewers are tasks of the same runtime as the listeners.  Weak       *)
(* fairness is enough for the mutex as well: it is contended only as often *)
(* as there are state changes.                                             *)
SpecViews ==
  /\ SafetyViews
  /\ WF_allVars(RuntimeStep)
  /\ \A v \in Viewer : WF_allVars(ViewerStep(v))

-----------------------------------------------------------------------------
(* A loss of notifications never leaves a wrong picture: a viewer that is  *)
(* waiting with nothing unseen, while no task is between setting a state   *)
(* and announcing it, shows every listener as it is -- except one that is  *)
(* Starting, which start_listener does not announce.                       *)
WaitingViewIsCurrent ==
  \A v \in Viewer :
    (/\ stage[v] = "waiting"
     /\ v \notin fresh
     /\ \A l \in Listener, n \in Task : notifying[l][n] = "no")
    => \A l \in Listener : Reported(l) # "Starting" => view[v][l] = Reported(l)

(* Every subscriber comes to show a listener that stays Running or Stopped *)
(* or Failed.                                                              *)
ViewsCatchUp ==
  \A v \in Viewer, l \in Listener :
    \A s \in {"Running", "Stopped", "Failed"} :
      (Reported(l) = s) ~> (Reported(l) # s \/ view[v][l] = s)
=============================================================================
