--------------------------- MODULE ProxyRuntime ---------------------------
(***************************************************************************)
(* The proxy runtime: the map of listener handles (proxy/mod.rs) and the   *)
(* background task behind each handle (run_listener, proxy/server.rs).     *)
(*                                                                         *)
(* Every start_listener that is not ignored spawns a new task and puts its *)
(* handle in the map in place of the previous one.  The tasks of listener  *)
(* l are numbered 1, 2, ... in the order they are spawned, so gen[l] names *)
(* the one whose handle is in the map (0: no handle), and the predecessor  *)
(* that task n receives is task n - 1.  The handle of task n is dropped,   *)
(* and with it the sending half of its shutdown channel, exactly when task *)
(* n + 1 is spawned.                                                       *)
(*                                                                         *)
(* Callers of start, stop and shutdown hold the map's mutex for the whole  *)
(* call, so each of them is one action; the steps of run_listener          *)
(* interleave with them and with each other.  Connections are left to      *)
(* ListenerConnections: here draining ends when they have been joined.     *)
(***************************************************************************)
EXTENDS Integers

CONSTANTS Listener,    \* listener ids
          Port,        \* loopback ports
          NoPort,
          MaxStarts    \* bound: tasks ever spawned for one listener

ASSUME NoPortAssumption == NoPort \notin Port
ASSUME MaxStartsAssumption == MaxStarts \in Nat

Task == 1..MaxStarts

VARIABLES
  gen,         \* [Listener -> 0..MaxStarts]: the task whose handle is in the map
  port,        \* the port each task was given
  phase,       \* where each task is in run_listener
  state,       \* ListenerHandle.state, shared by the handle and the task
  shutdown,    \* value of the handle's shutdown channel
  notifying,   \* progress of notify_state_change inside set_state
  seen,        \* the generation it has read and not yet written back
  generation   \* Inner.state_generation

vars == <<gen, port, phase, state, shutdown, notifying, seen, generation>>
handleVars == <<gen, port, shutdown>>
noteVars == <<notifying, seen, generation>>

(***************************************************************************)
(* spawned: awaiting the predecessor      bound: holds the socket          *)
(* accepting: in the select! loop         draining: out of the loop        *)
(* closing: Stopped is published, the socket is not yet dropped            *)
(* refused: bind failed                   failing: Failed is published     *)
(* returned: the future is complete and everything it owned is dropped     *)
(***************************************************************************)
Phase == {"unspawned", "spawned", "binding", "bound", "accepting", "draining",
          "closing", "refused", "failing", "returned"}
HandleState == {"None", "Starting", "Running", "Stopped", "Failed"}

(* The task owns a listening socket on its port. *)
HoldsSocket(l, n) == phase[l][n] \in {"bound", "accepting", "draining", "closing"}

(* Faulty: a test that overlooks a listener on its way up. *)
IsRunningMissesStarting(l) ==
  /\ gen[l] # 0
  /\ state[l][gen[l]] = "Running"

(* ListenerHandle::is_running of the handle in the map, as is_active reads it. *)
IsRunning(l) ==
  /\ gen[l] # 0
  /\ state[l][gen[l]] \in {"Starting", "Running"}

Init ==
  /\ gen = [l \in Listener |-> 0]
  /\ port = [l \in Listener |-> [n \in Task |-> NoPort]]
  /\ phase = [l \in Listener |-> [n \in Task |-> "unspawned"]]
  /\ state = [l \in Listener |-> [n \in Task |-> "None"]]
  /\ shutdown = [l \in Listener |-> [n \in Task |-> FALSE]]
  /\ notifying = [l \in Listener |-> [n \in Task |-> "no"]]
  /\ seen = [l \in Listener |-> [n \in Task |-> 0]]
  /\ generation = 0

-----------------------------------------------------------------------------
(* Calls on the runtime. *)

(* start_listener returns early when the handle in the map is running. *)
StartIgnored(l) == IsRunning(l) /\ UNCHANGED vars

(* Otherwise it replaces the handle and spawns the next task. *)
StartListener(l, p) ==
  /\ ~IsRunning(l)
  /\ gen[l] < MaxStarts
  /\ LET n == gen[l] + 1 IN
       /\ gen' = [gen EXCEPT ![l] = n]
       /\ port' = [port EXCEPT ![l][n] = p]
       /\ phase' = [phase EXCEPT ![l][n] = "spawned"]
       /\ state' = [state EXCEPT ![l][n] = "Starting"]
  /\ UNCHANGED shutdown
  /\ UNCHANGED noteVars

(* A send on a watch channel whose receivers are gone changes nothing. *)
Signalled(l) ==
  [n \in Task |-> shutdown[l][n] \/ (n = gen[l] /\ phase[l][n] # "returned")]

StopListener(l) ==
  /\ gen[l] # 0
  /\ shutdown' = [shutdown EXCEPT ![l] = Signalled(l)]
  /\ UNCHANGED <<gen, port, phase, state>>
  /\ UNCHANGED noteVars

(* ProxyRuntime::shutdown signals every handle in the map. *)
Shutdown ==
  /\ shutdown' = [l \in Listener |-> Signalled(l)]
  /\ UNCHANGED <<gen, port, phase, state>>
  /\ UNCHANGED noteVars

-----------------------------------------------------------------------------
(* Steps of run_listener for task n of listener l. *)

Move(l, n, from, to) ==
  /\ phase[l][n] = from
  /\ notifying[l][n] = "no"
  /\ phase' = [phase EXCEPT ![l][n] = to]

(* The first half of set_state: the new state is visible to health(). *)
SetState(l, n, s) ==
  /\ state' = [state EXCEPT ![l][n] = s]
  /\ notifying' = [notifying EXCEPT ![l][n] = "reading"]
  /\ UNCHANGED <<seen, generation>>

(* Faulty: the new task does not wait for the task it replaces. *)
AwaitNothing(l, n) ==
  /\ Move(l, n, "spawned", "binding")
  /\ UNCHANGED <<handleVars, noteVars, state>>

(* Faulty: Running is announced before the port is bound. *)
AnnounceBeforeBind(l, n) ==
  /\ Move(l, n, "spawned", "binding")
  /\ n > 1 => phase[l][n - 1] = "returned"
  /\ SetState(l, n, "Running")
  /\ UNCHANGED handleVars

AwaitPredecessor(l, n) ==
  /\ Move(l, n, "spawned", "binding")
  /\ n > 1 => phase[l][n - 1] = "returned"
  /\ UNCHANGED <<handleVars, noteVars, state>>

PortTaken(p) ==
  \E l \in Listener, n \in Task : HoldsSocket(l, n) /\ port[l][n] = p

(* Faulty: the socket is bound with SO_REUSEPORT. *)
BindShared(l, n) ==
  /\ Move(l, n, "binding", "bound")
  /\ UNCHANGED <<handleVars, noteVars, state>>

Bind(l, n) ==
  /\ ~PortTaken(port[l][n])
  /\ Move(l, n, "binding", "bound")
  /\ UNCHANGED <<handleVars, noteVars, state>>

(* The system refuses: the port is taken by a listener or by another       *)
(* program, or the bind fails for a reason of its own.                     *)
BindRefused(l, n) ==
  /\ Move(l, n, "binding", "refused")
  /\ UNCHANGED <<handleVars, noteVars, state>>

PublishFailed(l, n) ==
  /\ Move(l, n, "refused", "failing")
  /\ SetState(l, n, "Failed")
  /\ UNCHANGED handleVars

(* Faulty: the loop subscribes to the shutdown channel anew, and takes the *)
(* value it finds there for already seen.                                  *)
PublishRunningSubscribing(l, n) ==
  /\ Move(l, n, "bound", "accepting")
  /\ SetState(l, n, "Running")
  /\ shutdown' = [shutdown EXCEPT ![l][n] = FALSE]
  /\ UNCHANGED <<gen, port>>

PublishRunning(l, n) ==
  /\ Move(l, n, "bound", "accepting")
  /\ SetState(l, n, "Running")
  /\ UNCHANGED handleVars

(* shutdown.changed() is ready when true was sent or the sender is gone.   *)
(* The receiver is a clone of the one made with the handle, so a value     *)
(* sent before the loop was entered is still seen.                         *)
ShutdownReady(l, n) == shutdown[l][n] \/ n < gen[l]

LeaveLoop(l, n) ==
  /\ ShutdownReady(l, n)
  /\ Move(l, n, "accepting", "draining")
  /\ UNCHANGED <<handleVars, noteVars, state>>

PublishStopped(l, n) ==
  /\ Move(l, n, "draining", "closing")
  /\ SetState(l, n, "Stopped")
  /\ UNCHANGED handleVars

(* The future completes; its socket, if it has one, is dropped. *)
Return(l, n) ==
  /\ phase[l][n] \in {"closing", "failing"}
  /\ Move(l, n, phase[l][n], "returned")
  /\ UNCHANGED <<handleVars, noteVars, state>>

(* notify_state_change: the counter is read ...                            *)
ReadGeneration(l, n) ==
  /\ notifying[l][n] = "reading"
  /\ notifying' = [notifying EXCEPT ![l][n] = "sending"]
  /\ seen' = [seen EXCEPT ![l][n] = generation]
  /\ UNCHANGED <<handleVars, phase, state, generation>>

(* Faulty: the counter goes down. *)
SendGenerationDown(l, n) ==
  /\ notifying[l][n] = "sending"
  /\ notifying' = [notifying EXCEPT ![l][n] = "no"]
  /\ generation' = seen[l][n] - 1
  /\ seen' = [seen EXCEPT ![l][n] = 0]
  /\ UNCHANGED <<handleVars, phase, state>>

(* ... and written back increased; the send wakes every subscriber.        *)
SendGeneration(l, n) ==
  /\ notifying[l][n] = "sending"
  /\ notifying' = [notifying EXCEPT ![l][n] = "no"]
  /\ generation' = seen[l][n] + 1
  /\ seen' = [seen EXCEPT ![l][n] = 0]
  /\ UNCHANGED <<handleVars, phase, state>>

TaskStep(l, n) ==
  \/ AwaitPredecessor(l, n)
  \/ Bind(l, n)
  \/ BindRefused(l, n)
  \/ PublishFailed(l, n)
  \/ PublishRunning(l, n)
  \/ LeaveLoop(l, n)
  \/ PublishStopped(l, n)
  \/ Return(l, n)
  \/ ReadGeneration(l, n)
  \/ SendGeneration(l, n)

Next ==
  \/ \E l \in Listener, p \in Port : StartListener(l, p)
  \/ \E l \in Listener : StartIgnored(l) \/ StopListener(l)
  \/ Shutdown
  \/ \E l \in Listener, n \in Task : TaskStep(l, n)

(* Tokio keeps polling a task that can make progress; the select! loop     *)
(* picks among ready branches at random, so a shutdown that is ready is    *)
(* taken however busy accept is.  Nobody is obliged to call the runtime.   *)
Fairness == \A l \in Listener, n \in Task : WF_vars(TaskStep(l, n))

Safety == Init /\ [][Next]_vars

Spec == Safety /\ Fairness

-----------------------------------------------------------------------------
(* Correctness. *)

TypeOK ==
  /\ gen \in [Listener -> 0..MaxStarts]
  /\ port \in [Listener -> [Task -> Port \cup {NoPort}]]
  /\ phase \in [Listener -> [Task -> Phase]]
  /\ state \in [Listener -> [Task -> HandleState]]
  /\ shutdown \in [Listener -> [Task -> BOOLEAN]]
  /\ notifying \in [Listener -> [Task -> {"no", "reading", "sending"}]]
  /\ seen \in [Listener -> [Task -> Nat]]
  /\ generation \in Nat

(* When a task of a listener binds its port, no other task of the same     *)
(* listener holds a socket: a restart never finds the port taken by the    *)
(* run it replaces (the reason run_listener awaits its predecessor).       *)
OwnPortFree ==
  \A l \in Listener, n, m \in Task :
    (phase[l][n] = "binding" /\ m # n) => ~HoldsSocket(l, m)

(* Every task whose handle has left the map has already published Stopped  *)
(* or Failed: nothing that serves connections is out of reach of           *)
(* stop_listener, shutdown and health.                                     *)
NoOrphanTask ==
  \A l \in Listener, n \in Task :
    n < gen[l] => state[l][n] \in {"Stopped", "Failed"}

(* A listener that health() reports Running holds its socket. *)
RunningServes ==
  \A l \in Listener :
    (gen[l] # 0 /\ state[l][gen[l]] = "Running") => HoldsSocket(l, gen[l])

(* The states reported by health(), the ports of the present runs and the  *)
(* stops asked for behave as ListenerStatus promises, in safety and in     *)
(* liveness: running listeners have distinct ports, a restart follows only *)
(* a reported end, a listener ends only when asked to and then it does,    *)
(* every start ends in Running or Failed.                                  *)
Reported(l) == IF gen[l] = 0 THEN "Unknown" ELSE state[l][gen[l]]

GivenPort(l) == IF IsRunning(l) THEN port[l][gen[l]] ELSE NoPort

AskedToStop(l) == IsRunning(l) /\ shutdown[l][gen[l]]

Abs == INSTANCE ListenerStatus
         WITH status <- [l \in Listener |-> Reported(l)],
              given <- [l \in Listener |-> GivenPort(l)],
              asked <- [l \in Listener |-> AskedToStop(l)]

AbsSpec == Abs!Spec

(* A task that was signalled to stop, however early, returns and frees its *)
(* port (stop_listener, shutdown and the clone of the receiver made after  *)
(* the bind).                                                              *)
StopTakesEffect ==
  \A l \in Listener, n \in Task :
    shutdown[l][n] ~> phase[l][n] = "returned"
=============================================================================
