------------------------ MODULE ProxyRuntimeProofs ------------------------
(***************************************************************************)
(* Proofs about ProxyRuntime, for every set of listeners and of ports and  *)
(* every bound on the number of starts.                                    *)
(***************************************************************************)
EXTENDS ProxyRuntime, TLAPS

LEMMA TypeInitially == Init => TypeOK
  BY MaxStartsAssumption DEF Init, TypeOK, Task, Phase, HandleState

LEMMA TypeStep == TypeOK /\ [Next]_vars => TypeOK'
<1> SUFFICES ASSUME TypeOK, [Next]_vars
             PROVE  TypeOK'
  OBVIOUS
<1> USE DEF TypeOK, Phase, HandleState, handleVars, noteVars, Move, SetState
<1>1. ASSUME NEW l \in Listener, NEW p \in Port, StartListener(l, p)
      PROVE  TypeOK'
  BY <1>1, MaxStartsAssumption DEF StartListener, Task
<1>2. ASSUME NEW l \in Listener, StopListener(l)
      PROVE  TypeOK'
  BY <1>2 DEF StopListener, Signalled
<1>3. ASSUME Shutdown
      PROVE  TypeOK'
  BY <1>3 DEF Shutdown, Signalled
<1>4. ASSUME NEW l \in Listener, NEW n \in Task, TaskStep(l, n)
      PROVE  TypeOK'
  <2>1. CASE AwaitPredecessor(l, n) BY <2>1 DEF AwaitPredecessor
  <2>2. CASE Bind(l, n)             BY <2>2 DEF Bind
  <2>3. CASE BindRefused(l, n)      BY <2>3 DEF BindRefused
  <2>4. CASE PublishFailed(l, n)    BY <2>4 DEF PublishFailed
  <2>5. CASE PublishRunning(l, n)   BY <2>5 DEF PublishRunning
  <2>6. CASE LeaveLoop(l, n)        BY <2>6 DEF LeaveLoop
  <2>7. CASE PublishStopped(l, n)   BY <2>7 DEF PublishStopped
  <2>8. CASE Return(l, n)           BY <2>8 DEF Return
  <2>9. CASE ReadGeneration(l, n)   BY <2>9 DEF ReadGeneration
  <2>10. CASE SendGeneration(l, n)  BY <2>10 DEF SendGeneration
  <2> QED
    BY <1>4, <2>1, <2>2, <2>3, <2>4, <2>5, <2>6, <2>7, <2>8, <2>9, <2>10
    DEF TaskStep
<1>5. CASE UNCHANGED vars
  BY <1>5 DEF vars
<1> QED
  BY <1>1, <1>2, <1>3, <1>4, <1>5 DEF Next, StartIgnored

(* Every variable of the runtime keeps its type through every call and     *)
(* every step of run_listener.                                             *)
THEOREM TypeCorrect == Safety => []TypeOK
  BY TypeInitially, TypeStep, PTL DEF Safety

-----------------------------------------------------------------------------
(***************************************************************************)
(* The safety invariants are not inductive by themselves: that a listener  *)
(* has one task past its predecessor's end rests on how states, phases,    *)
(* numbers and sockets fit together.                                       *)
(***************************************************************************)
StateFitsPhase(l, n) ==
  /\ phase[l][n] \in {"spawned", "binding", "bound", "refused"} => state[l][n] = "Starting"
  /\ phase[l][n] \in {"accepting", "draining"} => state[l][n] = "Running"
  /\ phase[l][n] = "closing" => state[l][n] = "Stopped"
  /\ phase[l][n] = "failing" => state[l][n] = "Failed"
  /\ phase[l][n] = "returned" => state[l][n] \in {"Stopped", "Failed"}

(* Tasks are spawned in the order of their numbers, on a port. *)
Numbered(l, n) ==
  /\ phase[l][n] = "unspawned" <=> n > gen[l]
  /\ n <= gen[l] => port[l][n] \in Port

(* A replaced task is past the publication of its end. *)
ReplacedIsEnding(l, n) ==
  n < gen[l] => phase[l][n] \in {"closing", "failing", "returned"}

(* A task past its predecessor is past every earlier one. *)
EarlierReturned(l, n) ==
  phase[l][n] \notin {"unspawned", "spawned"} =>
    \A m \in Task : m < n => phase[l][m] = "returned"

(* Only spawned tasks are signalled, and a task leaves its loop because it *)
(* was: its handle cannot have been dropped before it published its end.   *)
SignalFits(l, n) ==
  /\ n > gen[l] => ~shutdown[l][n]
  /\ phase[l][n] = "draining" => shutdown[l][n]

(* One socket per port. *)
PortsExclusive ==
  \A l, k \in Listener, n, m \in Task :
    (HoldsSocket(l, n) /\ HoldsSocket(k, m) /\ port[l][n] = port[k][m])
      => (l = k /\ n = m)

IInv ==
  /\ TypeOK
  /\ \A l \in Listener, n \in Task :
       /\ StateFitsPhase(l, n)
       /\ Numbered(l, n)
       /\ ReplacedIsEnding(l, n)
       /\ EarlierReturned(l, n)
       /\ SignalFits(l, n)
  /\ PortsExclusive

LEMMA IInvInitially == Init => IInv
  BY MaxStartsAssumption
  DEF Init, IInv, TypeOK, Task, Phase, HandleState, StateFitsPhase, Numbered,
      ReplacedIsEnding, EarlierReturned, SignalFits, PortsExclusive, HoldsSocket

(* start_listener: the replaced task is not running, so it is ending.      *)
LEMMA StartPreserves ==
  ASSUME TypeOK', IInv, NEW l \in Listener, NEW p \in Port, StartListener(l, p)
  PROVE  IInv'
<1> DEFINE g == gen[l] + 1
<1>0. g \in Task /\ gen[l] \in 0..MaxStarts
  BY MaxStartsAssumption DEF IInv, TypeOK, StartListener, Task
<1>1. \A k \in Listener, n \in Task :
        /\ gen'[k] = (IF k = l THEN g ELSE gen[k])
        /\ phase'[k][n] = (IF k = l /\ n = g THEN "spawned" ELSE phase[k][n])
        /\ state'[k][n] = (IF k = l /\ n = g THEN "Starting" ELSE state[k][n])
        /\ port'[k][n] = (IF k = l /\ n = g THEN p ELSE port[k][n])
  BY <1>0 DEF IInv, TypeOK, StartListener
<1>2. gen[l] # 0 => phase[l][gen[l]] \in {"closing", "failing", "returned"}
  <2> SUFFICES ASSUME gen[l] # 0
               PROVE  phase[l][gen[l]] \in {"closing", "failing", "returned"}
    OBVIOUS
  <2>1. gen[l] \in Task
    BY <1>0, MaxStartsAssumption DEF Task
  <2> QED
    BY <2>1, <1>0 DEF IInv, TypeOK, Phase, StateFitsPhase, Numbered, StartListener, IsRunning
<1>3. phase[l][g] = "unspawned"
  BY <1>0 DEF IInv, Numbered
<1>4. ASSUME NEW k \in Listener, NEW n \in Task
      PROVE  /\ StateFitsPhase(k, n)'
             /\ Numbered(k, n)'
             /\ ReplacedIsEnding(k, n)'
             /\ EarlierReturned(k, n)'
             /\ SignalFits(k, n)'
  <2>0. /\ StateFitsPhase(k, n) /\ Numbered(k, n) /\ ReplacedIsEnding(k, n)
        /\ EarlierReturned(k, n) /\ SignalFits(k, n)
    BY DEF IInv
  <2>1. StateFitsPhase(k, n)'
    BY <1>1, <2>0 DEF StateFitsPhase
  <2>2. Numbered(k, n)'
    BY <1>0, <1>1, <2>0 DEF Numbered, Task
  <2>3. ReplacedIsEnding(k, n)'
    BY <1>0, <1>1, <1>2, <2>0 DEF ReplacedIsEnding, Task
  <2>4. EarlierReturned(k, n)'
    BY <1>1, <1>3, <2>0 DEF EarlierReturned
  <2>5. SignalFits(k, n)'
    BY <1>0, <1>1, <2>0 DEF SignalFits, StartListener, Task
  <2> QED BY <2>1, <2>2, <2>3, <2>4, <2>5
<1>5. PortsExclusive'
  BY <1>1 DEF IInv, PortsExclusive, HoldsSocket
<1> QED
  BY <1>4, <1>5 DEF IInv

(* A step of run_listener moves one task along; only the await of the      *)
(* predecessor and the bind can disturb what relates it to other tasks.    *)
LEMMA TaskStepPreserves ==
  ASSUME TypeOK', IInv, NEW l \in Listener, NEW n \in Task, TaskStep(l, n)
  PROVE  IInv'
<1> USE DEF handleVars, noteVars, Move, SetState
<1>0. TypeOK /\ UNCHANGED <<gen, port, shutdown>>
  BY DEF IInv, TaskStep, AwaitPredecessor, Bind, BindRefused, PublishFailed,
     PublishRunning, LeaveLoop, PublishStopped, Return, ReadGeneration, SendGeneration
<1>a. ASSUME NEW k \in Listener, NEW m \in Task
      PROVE  /\ StateFitsPhase(k, m)
             /\ Numbered(k, m)
             /\ ReplacedIsEnding(k, m)
             /\ EarlierReturned(k, m)
             /\ SignalFits(k, m)
  BY DEF IInv
<1>1. CASE AwaitPredecessor(l, n)
  <2>1. \A k \in Listener, m \in Task :
          phase'[k][m] = (IF k = l /\ m = n THEN "binding" ELSE phase[k][m])
    BY <1>0, <1>1 DEF TypeOK, AwaitPredecessor
  <2>2. UNCHANGED state /\ phase[l][n] = "spawned"
    BY <1>1 DEF AwaitPredecessor
  <2>3. \A m \in Task : m < n => phase[l][m] = "returned"
    <3> SUFFICES ASSUME NEW m \in Task, m < n
                 PROVE  phase[l][m] = "returned"
      OBVIOUS
    <3>1. n - 1 \in Task /\ phase[l][n - 1] = "returned"
      BY <1>1, MaxStartsAssumption DEF AwaitPredecessor, Task
    <3>2. \A i \in Task : i < n - 1 => phase[l][i] = "returned"
      BY <3>1, <1>a DEF EarlierReturned
    <3> QED
      BY <3>1, <3>2, MaxStartsAssumption DEF Task
  <2>4. ASSUME NEW k \in Listener, NEW m \in Task
        PROVE  /\ StateFitsPhase(k, m)'
               /\ Numbered(k, m)'
               /\ ReplacedIsEnding(k, m)'
               /\ EarlierReturned(k, m)'
               /\ SignalFits(k, m)'
    <3>1. StateFitsPhase(k, m)'
      BY <1>a, <2>1, <2>2 DEF StateFitsPhase
    <3>2. Numbered(k, m)' /\ ReplacedIsEnding(k, m)'
      BY <1>0, <1>a, <2>1, <2>2 DEF Numbered, ReplacedIsEnding
    <3>3. EarlierReturned(k, m)'
      BY <1>a, <2>1, <2>2, <2>3 DEF EarlierReturned
    <3>4. SignalFits(k, m)'
      BY <1>0, <1>a, <2>1 DEF SignalFits
    <3> QED BY <3>1, <3>2, <3>3, <3>4
  <2>5. PortsExclusive'
    BY <1>0, <2>1 DEF IInv, PortsExclusive, HoldsSocket
  <2> QED BY <2>4, <2>5 DEF IInv
<1>2. CASE Bind(l, n)
  <2>1. \A k \in Listener, m \in Task :
          phase'[k][m] = (IF k = l /\ m = n THEN "bound" ELSE phase[k][m])
    BY <1>0, <1>2 DEF TypeOK, Bind
  <2>2. UNCHANGED state /\ phase[l][n] = "binding" /\ ~PortTaken(port[l][n])
    BY <1>2 DEF Bind
  <2>3. ASSUME NEW k \in Listener, NEW m \in Task
        PROVE  /\ StateFitsPhase(k, m)'
               /\ Numbered(k, m)'
               /\ ReplacedIsEnding(k, m)'
               /\ EarlierReturned(k, m)'
               /\ SignalFits(k, m)'
    BY <1>0, <1>a, <2>1, <2>2
    DEF StateFitsPhase, Numbered, ReplacedIsEnding, EarlierReturned, SignalFits
  <2>4. PortsExclusive'
    BY <1>0, <2>1, <2>2 DEF IInv, PortsExclusive, HoldsSocket, PortTaken
  <2> QED BY <2>3, <2>4 DEF IInv
<1>3. ASSUME NEW from \in {"binding", "refused", "bound", "accepting", "draining",
                           "closing", "failing"},
             NEW to \in Phase \ {"unspawned", "spawned", "bound"},
             phase[l][n] = from,
             to \in {"accepting", "draining", "closing"} => HoldsSocket(l, n),
             from \in {"closing", "failing"} => to = "returned",
             to = "draining" => shutdown[l][n],
             phase' = [phase EXCEPT ![l][n] = to],
             \A k \in Listener, m \in Task : (k # l \/ m # n) => state'[k][m] = state[k][m],
             StateFitsPhase(l, n)'
      PROVE  IInv'
  <2>1. \A k \in Listener, m \in Task :
          phase'[k][m] = (IF k = l /\ m = n THEN to ELSE phase[k][m])
    BY <1>0, <1>3 DEF TypeOK
  <2>2. ASSUME NEW k \in Listener, NEW m \in Task
        PROVE  /\ StateFitsPhase(k, m)'
               /\ Numbered(k, m)'
               /\ ReplacedIsEnding(k, m)'
               /\ EarlierReturned(k, m)'
               /\ SignalFits(k, m)'
    <3>1. StateFitsPhase(k, m)'
      BY <1>a, <1>3, <2>1 DEF StateFitsPhase
    <3>2. Numbered(k, m)'
      BY <1>0, <1>a, <1>3, <2>1 DEF Numbered
    <3>3. ReplacedIsEnding(k, m)'
      BY <1>0, <1>a, <1>3, <2>1 DEF ReplacedIsEnding
    <3>4. EarlierReturned(k, m)'
      BY <1>a, <1>3, <2>1 DEF EarlierReturned
    <3>5. SignalFits(k, m)'
      BY <1>0, <1>a, <1>3, <2>1 DEF SignalFits
    <3> QED BY <3>1, <3>2, <3>3, <3>4, <3>5
  <2>3. PortsExclusive'
    <3>1. \A k \in Listener, m \in Task : HoldsSocket(k, m)' => HoldsSocket(k, m)
      BY <1>3, <2>1 DEF HoldsSocket
    <3> QED
      BY <3>1, <1>0 DEF IInv, PortsExclusive
  <2> QED BY <2>2, <2>3 DEF IInv
<1> USE DEF TypeOK, StateFitsPhase, HoldsSocket, Phase
<1>4. CASE BindRefused(l, n)
  <2>1. /\ phase[l][n] = "binding"
        /\ phase' = [phase EXCEPT ![l][n] = "refused"]
        /\ state' = state
    BY <1>4 DEF BindRefused
  <2>2. phase'[l][n] = "refused" /\ StateFitsPhase(l, n)'
    BY <1>0, <1>a, <2>1
  <2>3. \A k \in Listener, m \in Task :
          (k # l \/ m # n) => state'[k][m] = state[k][m]
    BY <2>1
  <2> QED BY <1>3, <2>1, <2>2, <2>3
<1>5. CASE PublishFailed(l, n)
  <2>1. /\ phase[l][n] = "refused"
        /\ phase' = [phase EXCEPT ![l][n] = "failing"]
        /\ state' = [state EXCEPT ![l][n] = "Failed"]
    BY <1>5 DEF PublishFailed
  <2>2. \A k \in Listener, m \in Task :
          state'[k][m] = (IF k = l /\ m = n THEN "Failed" ELSE state[k][m])
    BY <1>0, <2>1
  <2>3. phase'[l][n] = "failing" /\ StateFitsPhase(l, n)'
    BY <1>0, <2>1, <2>2
  <2>4. \A k \in Listener, m \in Task :
          (k # l \/ m # n) => state'[k][m] = state[k][m]
    BY <2>2
  <2> QED BY <1>3, <2>1, <2>3, <2>4
<1>6. CASE PublishRunning(l, n)
  <2>1. /\ phase[l][n] = "bound"
        /\ phase' = [phase EXCEPT ![l][n] = "accepting"]
        /\ state' = [state EXCEPT ![l][n] = "Running"]
    BY <1>6 DEF PublishRunning
  <2>2. \A k \in Listener, m \in Task :
          state'[k][m] = (IF k = l /\ m = n THEN "Running" ELSE state[k][m])
    BY <1>0, <2>1
  <2>3. phase'[l][n] = "accepting" /\ StateFitsPhase(l, n)'
    BY <1>0, <2>1, <2>2
  <2>4. \A k \in Listener, m \in Task :
          (k # l \/ m # n) => state'[k][m] = state[k][m]
    BY <2>2
  <2> QED BY <1>3, <2>1, <2>3, <2>4
<1>7. CASE LeaveLoop(l, n)
  <2>1. shutdown[l][n]
    BY <1>7, <1>a DEF LeaveLoop, ShutdownReady, ReplacedIsEnding
  <2> QED BY <1>0, <1>3, <1>7, <1>a, <2>1 DEF LeaveLoop
<1>8. CASE PublishStopped(l, n)
  <2>1. /\ phase[l][n] = "draining"
        /\ phase' = [phase EXCEPT ![l][n] = "closing"]
        /\ state' = [state EXCEPT ![l][n] = "Stopped"]
    BY <1>8 DEF PublishStopped
  <2>2. \A k \in Listener, m \in Task :
          state'[k][m] = (IF k = l /\ m = n THEN "Stopped" ELSE state[k][m])
    BY <1>0, <2>1
  <2>3. phase'[l][n] = "closing" /\ StateFitsPhase(l, n)'
    BY <1>0, <2>1, <2>2
  <2>4. \A k \in Listener, m \in Task :
          (k # l \/ m # n) => state'[k][m] = state[k][m]
    BY <2>2
  <2> QED BY <1>3, <2>1, <2>3, <2>4
<1>9. CASE Return(l, n)
  <2>1. /\ phase[l][n] \in {"closing", "failing"}
        /\ phase' = [phase EXCEPT ![l][n] = "returned"]
        /\ state' = state
    BY <1>9 DEF Return
  <2>2. phase'[l][n] = "returned" /\ StateFitsPhase(l, n)'
    BY <1>0, <1>a, <2>1
  <2>3. \A k \in Listener, m \in Task :
          (k # l \/ m # n) => state'[k][m] = state[k][m]
    BY <2>1
  <2> QED BY <1>3, <2>1, <2>2, <2>3
<1>10. CASE ReadGeneration(l, n) \/ SendGeneration(l, n)
  BY <1>0, <1>10
  DEF ReadGeneration, SendGeneration, IInv, Numbered, ReplacedIsEnding,
      EarlierReturned, SignalFits, PortsExclusive
<1> QED
  BY <1>1, <1>2, <1>4, <1>5, <1>6, <1>7, <1>8, <1>9, <1>10 DEF TaskStep

(* stop_listener and shutdown raise signals of spawned tasks only.         *)
LEMMA SignalsPreserve ==
  ASSUME TypeOK', IInv, UNCHANGED <<gen, port, phase, state>>,
         \A l \in Listener, n \in Task :
           /\ shutdown'[l][n] => shutdown[l][n] \/ n = gen[l]
           /\ shutdown[l][n] => shutdown'[l][n]
  PROVE  IInv'
<1>1. \A l \in Listener, n \in Task : SignalFits(l, n)'
  BY DEF IInv, TypeOK, SignalFits, Task
<1> QED
  BY <1>1
  DEF IInv, StateFitsPhase, Numbered, ReplacedIsEnding, EarlierReturned,
      PortsExclusive, HoldsSocket

LEMMA IInvInductive == IInv /\ [Next]_vars => IInv'
<1> SUFFICES ASSUME IInv, [Next]_vars
             PROVE  IInv'
  OBVIOUS
<1>0. TypeOK'
  BY TypeStep DEF IInv
<1>1. ASSUME NEW l \in Listener, NEW p \in Port, StartListener(l, p)
      PROVE  IInv'
  BY <1>0, <1>1, StartPreserves
<1>2. ASSUME Shutdown \/ \E l \in Listener : StopListener(l)
      PROVE  IInv'
  <2>1. ASSUME NEW l \in Listener, NEW n \in Task
        PROVE  /\ shutdown'[l][n] => shutdown[l][n] \/ n = gen[l]
               /\ shutdown[l][n] => shutdown'[l][n]
    <3>1. CASE Shutdown
      BY <3>1 DEF Shutdown, Signalled
    <3>2. CASE \E k \in Listener : StopListener(k)
      BY <3>2 DEF IInv, TypeOK, StopListener, Signalled
    <3> QED BY <1>2, <3>1, <3>2
  <2> QED BY <1>0, <1>2, <2>1, SignalsPreserve DEF Shutdown, StopListener
<1>4. CASE UNCHANGED vars
  BY <1>0, <1>4, SignalsPreserve DEF vars
<1>3. ASSUME NEW l \in Listener, NEW n \in Task, TaskStep(l, n)
      PROVE  IInv'
  BY <1>0, <1>3, TaskStepPreserves
<1> QED
  BY <1>1, <1>2, <1>3, <1>4 DEF Next, StartIgnored

THEOREM Inductive == Safety => []IInv
  BY IInvInitially, IInvInductive, PTL DEF Safety

(* A restart never finds its port held by the run it replaces. *)
THEOREM RestartFindsPortFree == Safety => []OwnPortFree
<1>1. IInv => OwnPortFree
  <2> SUFFICES ASSUME IInv, NEW l \in Listener, NEW n \in Task, NEW m \in Task,
                      phase[l][n] = "binding", m # n, HoldsSocket(l, m)
               PROVE  FALSE
    BY DEF OwnPortFree
  <2>1. CASE m < n
    BY <2>1 DEF IInv, EarlierReturned, HoldsSocket
  <2>2. CASE n < m
    BY <2>2 DEF IInv, EarlierReturned, HoldsSocket
  <2>3. m < n \/ n < m
    BY MaxStartsAssumption DEF Task
  <2> QED BY <2>1, <2>2, <2>3
<1> QED BY <1>1, Inductive, PTL

(* No task that still serves is out of reach of stop, shutdown and health. *)
THEOREM NoTaskOrphaned == Safety => []NoOrphanTask
<1>1. IInv => NoOrphanTask
  BY DEF IInv, NoOrphanTask, ReplacedIsEnding, StateFitsPhase
<1> QED BY <1>1, Inductive, PTL

(* The handle in the map belongs to a spawned task. *)
LEMMA CurrentTask ==
  ASSUME IInv, NEW l \in Listener, gen[l] # 0
  PROVE  /\ gen[l] \in Task
         /\ phase[l][gen[l]] \in Phase \ {"unspawned"}
         /\ port[l][gen[l]] \in Port
         /\ StateFitsPhase(l, gen[l])
<1>1. gen[l] \in Task
  BY MaxStartsAssumption DEF IInv, TypeOK, Task
<1>2. Numbered(l, gen[l]) /\ StateFitsPhase(l, gen[l]) /\ phase[l][gen[l]] \in Phase
  BY <1>1 DEF IInv, TypeOK
<1> QED
  BY <1>1, <1>2, MaxStartsAssumption DEF Numbered, Task

(* What health() reports Running holds its socket. *)
THEOREM ReportedRunningServes == Safety => []RunningServes
<1>1. IInv => RunningServes
  <2> SUFFICES ASSUME IInv, NEW l \in Listener, gen[l] # 0, state[l][gen[l]] = "Running"
               PROVE  HoldsSocket(l, gen[l])
    BY DEF RunningServes
  <2>1. StateFitsPhase(l, gen[l]) /\ phase[l][gen[l]] \in Phase \ {"unspawned"}
    BY CurrentTask
  <2> QED
    BY <2>1 DEF Phase, StateFitsPhase, HoldsSocket
<1> QED BY <1>1, Inductive, PTL

-----------------------------------------------------------------------------
(* Refinement: every step of the runtime is a step of ListenerStatus or    *)
(* leaves what callers can see of the listeners as it is.                  *)

LEMMA AbsInitially == Init => Abs!Init
  BY DEF Init, Abs!Init, Reported, GivenPort, AskedToStop, IsRunning

(* What callers see of a listener depends on the current task only.        *)
LEMMA AbsUnchanged ==
  ASSUME UNCHANGED <<gen, port, state, shutdown>>
  PROVE  UNCHANGED Abs!vars
  BY DEF Abs!vars, Reported, GivenPort, AskedToStop, IsRunning

LEMMA ActiveIsRunning ==
  ASSUME NEW l \in Listener
  PROVE  Abs!Active(l) <=> IsRunning(l)
  BY DEF Abs!Active, Reported, IsRunning

(* Nobody else is reported Running on the port of a task about to report   *)
(* it.                                                                     *)
LEMMA BoundAlone ==
  ASSUME IInv, NEW l \in Listener, gen[l] # 0, phase[l][gen[l]] = "bound",
         NEW k \in Listener, Reported(k) = "Running"
  PROVE  GivenPort(k) # GivenPort(l)
<1>1. gen[k] # 0 /\ state[k][gen[k]] = "Running"
  BY DEF Reported
<1>2. /\ gen[k] \in Task /\ gen[l] \in Task
      /\ StateFitsPhase(k, gen[k]) /\ StateFitsPhase(l, gen[l])
      /\ phase[k][gen[k]] \in Phase \ {"unspawned"}
  BY <1>1, CurrentTask
<1>3. HoldsSocket(k, gen[k]) /\ HoldsSocket(l, gen[l]) /\ k # l
  BY <1>1, <1>2 DEF Phase, StateFitsPhase, HoldsSocket
<1>4. port[k][gen[k]] # port[l][gen[l]]
  BY <1>2, <1>3 DEF IInv, PortsExclusive
<1>5. IsRunning(k) /\ IsRunning(l)
  BY <1>1, <1>2 DEF IsRunning, StateFitsPhase
<1> QED BY <1>4, <1>5 DEF GivenPort

(* start_listener *)
LEMMA StartBegins ==
  ASSUME IInv, NEW l \in Listener, NEW p \in Port, StartListener(l, p)
  PROVE  Abs!Begin(l, p)
<1> DEFINE g == gen[l] + 1
<1>0. TypeOK
  BY DEF IInv
<1>1. g \in Task /\ g # 0 /\ g > gen[l]
  BY <1>0, MaxStartsAssumption DEF TypeOK, StartListener, Task
<1>2. \A k \in Listener :
        /\ gen'[k] = (IF k = l THEN g ELSE gen[k])
        /\ k # l => state'[k] = state[k] /\ port'[k] = port[k]
  BY <1>0 DEF TypeOK, StartListener
<1>3. state'[l][g] = "Starting" /\ port'[l][g] = p /\ UNCHANGED shutdown
  BY <1>0, <1>1 DEF TypeOK, StartListener
<1>4. ~shutdown[l][g]
  BY <1>1 DEF IInv, SignalFits
<1>5. \A k \in Listener :
        /\ Reported(k)' = (IF k = l THEN "Starting" ELSE Reported(k))
        /\ GivenPort(k)' = (IF k = l THEN p ELSE GivenPort(k))
  BY <1>1, <1>2, <1>3 DEF Reported, GivenPort, IsRunning
<1>6. \A k \in Listener : AskedToStop(k)' = AskedToStop(k)
  <2>1. AskedToStop(l)' = FALSE /\ AskedToStop(l) = FALSE
    BY <1>1, <1>2, <1>3, <1>4 DEF AskedToStop, StartListener
  <2>2. ASSUME NEW k \in Listener, k # l
        PROVE  AskedToStop(k)' = AskedToStop(k)
    BY <1>2, <1>3, <2>2 DEF AskedToStop, IsRunning
  <2> QED BY <2>1, <2>2
<1> QED
  BY <1>5, <1>6, ActiveIsRunning DEF Abs!Begin, StartListener

(* stop_listener and shutdown *)
LEMMA SignalAsks ==
  ASSUME IInv, NEW S \in SUBSET Listener, UNCHANGED <<gen, port, state>>,
         shutdown' = [l \in Listener |-> IF l \in S THEN Signalled(l) ELSE shutdown[l]]
  PROVE  Abs!AskStop(S)
<1>1. \A l \in Listener :
        Reported(l)' = Reported(l) /\ GivenPort(l)' = GivenPort(l)
  BY DEF Reported, GivenPort, IsRunning
<1>2. ASSUME NEW l \in Listener
      PROVE  AskedToStop(l)' = (AskedToStop(l) \/ (l \in S /\ Abs!Active(l)))
  <2>1. CASE ~IsRunning(l)
    BY <2>1, ActiveIsRunning DEF AskedToStop, IsRunning
  <2>2. CASE IsRunning(l)
    <3>1. gen[l] # 0 /\ gen[l] \in Task /\ phase[l][gen[l]] # "returned"
      BY <2>2, CurrentTask DEF IsRunning, StateFitsPhase
    <3>2. shutdown'[l][gen[l]] = (shutdown[l][gen[l]] \/ l \in S)
      BY <3>1 DEF Signalled, IInv, TypeOK
    <3> QED
      BY <2>2, <3>2, ActiveIsRunning DEF AskedToStop, IsRunning
  <2> QED BY <2>1, <2>2
<1> QED
  BY <1>1, <1>2 DEF Abs!AskStop

(* What a publication through set_state shows to callers.                  *)
LEMMA PublicationSeen ==
  ASSUME IInv, NEW l \in Listener, NEW n \in Task,
         NEW from \in {"Starting", "Running"}, NEW s \in HandleState,
         phase[l][n] # "unspawned", state[l][n] = from,
         state' = [state EXCEPT ![l][n] = s], UNCHANGED <<gen, port, shutdown>>
  PROVE  /\ n = gen[l] /\ gen[l] # 0 /\ Reported(l) = from
         /\ AskedToStop(l) = shutdown[l][n]
         /\ \A k \in Listener :
              /\ Reported(k)' = (IF k = l THEN s ELSE Reported(k))
              /\ GivenPort(k)' = (IF k = l /\ s \notin {"Starting", "Running"}
                                 THEN NoPort ELSE GivenPort(k))
              /\ k # l => AskedToStop(k)' = AskedToStop(k)
         /\ AskedToStop(l)' = (s \in {"Starting", "Running"} /\ shutdown[l][n])
<1>0. TypeOK
  BY DEF IInv
<1>1. n = gen[l]
  <2>1. ~(n < gen[l])
    BY DEF IInv, ReplacedIsEnding, StateFitsPhase
  <2>2. ~(n > gen[l])
    BY DEF IInv, Numbered
  <2> QED
    BY <1>0, <2>1, <2>2, MaxStartsAssumption DEF TypeOK, Task
<1>2. gen[l] # 0
  BY <1>1, MaxStartsAssumption DEF Task
<1>3. \A k \in Listener, m \in Task :
        state'[k][m] = (IF k = l /\ m = n THEN s ELSE state[k][m])
  BY <1>0 DEF TypeOK
<1>4. \A k \in Listener : gen[k] # 0 => gen[k] \in Task
  BY <1>0, MaxStartsAssumption DEF TypeOK, Task
<1>5. \A k \in Listener : Reported(k)' = (IF k = l THEN s ELSE Reported(k))
  BY <1>1, <1>2, <1>3, <1>4 DEF Reported
<1>6. \A k \in Listener :
        GivenPort(k)' = (IF k = l /\ s \notin {"Starting", "Running"} THEN NoPort ELSE GivenPort(k))
  BY <1>1, <1>2, <1>3, <1>4 DEF GivenPort, IsRunning
<1>7. \A k \in Listener : k # l => AskedToStop(k)' = AskedToStop(k)
  BY <1>3, <1>4 DEF AskedToStop, IsRunning
<1>8. AskedToStop(l) = shutdown[l][n] /\ shutdown[l][n] \in BOOLEAN
  BY <1>0, <1>1, <1>2 DEF AskedToStop, IsRunning, TypeOK
<1>9. AskedToStop(l)' = (s \in {"Starting", "Running"} /\ shutdown[l][n])
  BY <1>0, <1>1, <1>2, <1>3 DEF AskedToStop, IsRunning
<1> QED
  BY <1>1, <1>2, <1>5, <1>6, <1>7, <1>8, <1>9 DEF Reported

LEMMA AbsStep == IInv /\ [Next]_vars => [Abs!Next]_(Abs!vars)
<1> SUFFICES ASSUME IInv, [Next]_vars
             PROVE  [Abs!Next]_(Abs!vars)
  OBVIOUS
<1>1. ASSUME NEW l \in Listener, NEW p \in Port, StartListener(l, p)
      PROVE  [Abs!Next]_(Abs!vars)
  BY <1>1, StartBegins DEF Abs!Next
<1>2. ASSUME NEW l \in Listener, StopListener(l)
      PROVE  [Abs!Next]_(Abs!vars)
  <2>1. shutdown' = [k \in Listener |-> IF k \in {l} THEN Signalled(k) ELSE shutdown[k]]
    BY <1>2 DEF StopListener, IInv, TypeOK
  <2>2. Abs!AskStop({l})
    BY <1>2, <2>1, SignalAsks DEF StopListener
  <2> QED BY <2>2 DEF Abs!Next
<1>3. CASE Shutdown
  <2>1. shutdown' = [k \in Listener |-> IF k \in Listener THEN Signalled(k) ELSE shutdown[k]]
    BY <1>3 DEF Shutdown
  <2>2. Abs!AskStop(Listener)
    BY <1>3, <2>1, SignalAsks DEF Shutdown
  <2> QED BY <2>2 DEF Abs!Next
<1>4. ASSUME NEW l \in Listener, NEW n \in Task, PublishFailed(l, n)
      PROVE  Abs!Refuse(l)
  <2>1. /\ state[l][n] = "Starting" /\ state' = [state EXCEPT ![l][n] = "Failed"]
        /\ UNCHANGED <<gen, port, shutdown>> /\ phase[l][n] # "unspawned"
    BY <1>4 DEF PublishFailed, Move, SetState, handleVars, IInv, StateFitsPhase
  <2>2. /\ Reported(l) = "Starting"
        /\ \A k \in Listener :
             /\ Reported(k)' = (IF k = l THEN "Failed" ELSE Reported(k))
             /\ GivenPort(k)' = (IF k = l THEN NoPort ELSE GivenPort(k))
             /\ k # l => AskedToStop(k)' = AskedToStop(k)
        /\ AskedToStop(l)' = ("Failed" \in {"Starting", "Running"} /\ shutdown[l][n])
    BY <2>1, PublicationSeen DEF HandleState
  <2> QED BY <2>2 DEF Abs!Refuse
<1>5. ASSUME NEW l \in Listener, NEW n \in Task, PublishRunning(l, n)
      PROVE  Abs!Serve(l)
  <2>1. /\ state[l][n] = "Starting" /\ state' = [state EXCEPT ![l][n] = "Running"]
        /\ UNCHANGED <<gen, port, shutdown>> /\ phase[l][n] = "bound"
    BY <1>5 DEF PublishRunning, Move, SetState, handleVars, IInv, StateFitsPhase
  <2>2. /\ n = gen[l] /\ gen[l] # 0
        /\ Reported(l) = "Starting" /\ AskedToStop(l) = shutdown[l][n]
        /\ \A k \in Listener :
             /\ Reported(k)' = (IF k = l THEN "Running" ELSE Reported(k))
             /\ GivenPort(k)' = GivenPort(k)
             /\ k # l => AskedToStop(k)' = AskedToStop(k)
        /\ AskedToStop(l)' = ("Running" \in {"Starting", "Running"} /\ shutdown[l][n])
    BY <2>1, PublicationSeen DEF HandleState
  <2>3. \A k \in Listener : Reported(k) = "Running" => GivenPort(k) # GivenPort(l)
    BY <2>1, <2>2, BoundAlone
  <2>4. \A k \in Listener : AskedToStop(k)' = AskedToStop(k)
    BY <2>2 DEF IInv, TypeOK
  <2> QED BY <2>2, <2>3, <2>4 DEF Abs!Serve
<1>6. ASSUME NEW l \in Listener, NEW n \in Task, PublishStopped(l, n)
      PROVE  Abs!Close(l)
  <2>1. /\ state[l][n] = "Running" /\ state' = [state EXCEPT ![l][n] = "Stopped"]
        /\ UNCHANGED <<gen, port, shutdown>> /\ phase[l][n] = "draining" /\ shutdown[l][n]
    BY <1>6 DEF PublishStopped, Move, SetState, handleVars, IInv, StateFitsPhase, SignalFits
  <2>2. /\ Reported(l) = "Running" /\ AskedToStop(l) = shutdown[l][n]
        /\ \A k \in Listener :
             /\ Reported(k)' = (IF k = l THEN "Stopped" ELSE Reported(k))
             /\ GivenPort(k)' = (IF k = l THEN NoPort ELSE GivenPort(k))
             /\ k # l => AskedToStop(k)' = AskedToStop(k)
        /\ AskedToStop(l)' = ("Stopped" \in {"Starting", "Running"} /\ shutdown[l][n])
    BY <2>1, PublicationSeen DEF HandleState
  <2> QED BY <2>1, <2>2 DEF Abs!Close
<1>7. CASE UNCHANGED <<gen, port, state, shutdown>>
  BY <1>7, AbsUnchanged
<1>8. ASSUME NEW l \in Listener, NEW n \in Task, TaskStep(l, n)
      PROVE  [Abs!Next]_(Abs!vars)
  <2>1. CASE PublishFailed(l, n)
    BY <1>4, <2>1 DEF Abs!Next, Abs!Settle
  <2>2. CASE PublishRunning(l, n)
    BY <1>5, <2>2 DEF Abs!Next, Abs!Settle
  <2>3. CASE PublishStopped(l, n)
    BY <1>6, <2>3 DEF Abs!Next
  <2> QED
    BY <1>7, <1>8, <2>1, <2>2, <2>3
    DEF TaskStep, AwaitPredecessor, Bind, BindRefused, LeaveLoop, Return,
        ReadGeneration, SendGeneration, handleVars
<1> QED
  BY <1>1, <1>2, <1>3, <1>7, <1>8 DEF Next, vars, StartIgnored

(* The runtime keeps the safety part of what ListenerStatus promises.      *)
THEOREM ImplementsListenerStatus == Safety => Abs!Safety
  BY AbsInitially, AbsStep, Inductive, PTL DEF Safety, Abs!Safety
=============================================================================
