-------------------------- MODULE StateViewsProofs --------------------------
(***************************************************************************)
(* Proofs about StateViews, for every set of listeners, ports and          *)
(* subscribers and every bound on the number of starts.                    *)
(***************************************************************************)
EXTENDS StateViews, ProxyRuntimeProofs

(* The subscribers only look: no step of theirs is one of the runtime.     *)
LEMMA RuntimeStepOfViews == [NextViews]_allVars => [Next]_vars
BY DEF NextViews, allVars, Call, RuntimeStep, ViewerStep, Wake, LockMap, ReadHandle,
       UnlockMap, Show, Next

(* What is proved of ProxyRuntime holds with subscribers about: health()   *)
(* and the watch channel leave the tasks and their handles as they are.    *)
THEOREM ViewsLeaveRuntimeAlone == SafetyViews => Safety
<1>1. InitViews => Init
  BY DEF InitViews
<1> QED
  BY <1>1, RuntimeStepOfViews, PTL DEF SafetyViews, Safety

-----------------------------------------------------------------------------
ViewTyped ==
  /\ TypeOK
  /\ stage \in [Viewer -> {"waiting", "woken", "reading", "showing"}]
  /\ unread \in [Viewer -> SUBSET Listener]
  /\ snapshot \in [Viewer -> [Listener -> HandleState \cup {"Unknown"}]]
  /\ view \in [Viewer -> [Listener -> HandleState \cup {"Unknown"}]]

(* The announcement of the reported state of l is still to come. *)
Announcing(l) == gen[l] # 0 /\ notifying[l][gen[l]] # "no"

(* What v has read of l on its way round its loop, if it is to be shown.   *)
InHand(v, l) ==
  CASE stage[v] = "waiting" -> view[v][l] = Reported(l)
    [] stage[v] = "woken"   -> TRUE
    [] stage[v] = "reading" -> l \in unread[v] \/ snapshot[v][l] = Reported(l)
    [] OTHER                -> snapshot[v][l] = Reported(l)

(* The strengthening: wherever a subscriber is, it has the reported state  *)
(* in hand, or is bound to look again.                                     *)
UpToDate(v, l) ==
  Reported(l) = "Starting" \/ Announcing(l) \/ v \in fresh \/ InHand(v, l)

ViewInv == ViewTyped /\ \A v \in Viewer, l \in Listener : UpToDate(v, l)

(* health() reports a state of a handle, or that there is none.            *)
LEMMA ReportedTyped ==
  ASSUME TypeOK, NEW l \in Listener
  PROVE  Reported(l) \in HandleState \cup {"Unknown"}
<1>1. gen[l] # 0 => gen[l] \in Task
  BY MaxStartsAssumption DEF TypeOK, Task
<1> QED
  BY <1>1 DEF TypeOK, Reported

LEMMA ViewInvInitially == InitViews => ViewInv
<1> SUFFICES ASSUME InitViews
             PROVE  ViewInv
  OBVIOUS
<1>1. TypeOK
  BY TypeInitially DEF InitViews
<1>2. ViewTyped
  BY <1>1 DEF InitViews, ViewTyped, Nothing
<1>3. ASSUME NEW v \in Viewer, NEW l \in Listener
      PROVE  UpToDate(v, l)
  BY DEF InitViews, Init, UpToDate, InHand, Nothing, Reported
<1> QED
  BY <1>2, <1>3 DEF ViewInv

(* A call can change what is reported only to Starting. *)
LEMMA CallKeepsUpToDate ==
  ASSUME ViewInv, Call
  PROVE  ViewInv'
<1>1. TypeOK' /\ ViewTyped
  <2>1. [Next]_vars
    BY RuntimeStepOfViews DEF NextViews
  <2> QED
    BY <2>1, TypeStep DEF ViewInv, ViewTyped
<1>2. UNCHANGED <<fresh, stage, unread, snapshot, view, notifying>>
  BY DEF Call, viewVars, StartListener, StopListener, Shutdown, noteVars
<1>3. ASSUME NEW l \in Listener
      PROVE  \/ Reported(l)' = "Starting"
             \/ Reported(l)' = Reported(l) /\ (Announcing(l) => Announcing(l)')
  <2>1. CASE UNCHANGED <<gen, state>>
    BY <1>2, <2>1 DEF Reported, Announcing
  <2>2. ASSUME NEW k \in Listener, NEW p \in Port, StartListener(k, p)
        PROVE  \/ Reported(l)' = "Starting"
               \/ Reported(l)' = Reported(l) /\ (Announcing(l) => Announcing(l)')
    <3>1. gen[k] + 1 \in Task /\ gen[k] + 1 # 0
      BY <1>1, <2>2, MaxStartsAssumption DEF ViewTyped, TypeOK, StartListener, Task
    <3>2. CASE l = k
      BY <1>1, <2>2, <3>1, <3>2 DEF ViewTyped, TypeOK, StartListener, Reported
    <3>3. CASE l # k
      <4>1. gen'[l] = gen[l] /\ state'[l] = state[l]
        BY <1>1, <2>2, <3>3 DEF ViewTyped, TypeOK, StartListener
      <4> QED
        BY <1>2, <4>1 DEF Reported, Announcing
    <3> QED
      BY <3>2, <3>3
  <2> QED
    BY <2>1, <2>2 DEF Call, StopListener, Shutdown
<1>4. ASSUME NEW v \in Viewer, NEW l \in Listener
      PROVE  UpToDate(v, l)'
  BY <1>2, <1>3 DEF ViewInv, UpToDate, InHand
<1> QED
  BY <1>1, <1>2, <1>4 DEF ViewInv, ViewTyped

(* A task that changes what is reported is announcing it from then on, and *)
(* when it has announced it everybody has something unseen.                *)
LEMMA TaskKeepsUpToDate ==
  ASSUME ViewInv, RuntimeStep
  PROVE  ViewInv'
<1> PICK l \in Listener, n \in Task :
      /\ TaskStep(l, n)
      /\ fresh' = IF SendGeneration(l, n) THEN Viewer ELSE fresh
      /\ UNCHANGED <<stage, unread, snapshot, view>>
  BY DEF RuntimeStep
<1>1. TypeOK' /\ ViewTyped /\ TypeOK
  <2>1. [Next]_vars
    BY DEF Next
  <2> QED
    BY <2>1, TypeStep DEF ViewInv, ViewTyped
<1>2. ViewTyped'
  BY <1>1 DEF ViewTyped
<1>3. UNCHANGED gen
  BY DEF TaskStep, AwaitPredecessor, Bind, BindRefused, PublishFailed, PublishRunning,
     LeaveLoop, PublishStopped, Return, ReadGeneration, SendGeneration, handleVars
<1>4. CASE SendGeneration(l, n)
  BY <1>2, <1>4 DEF ViewInv, UpToDate
<1>5. CASE ~SendGeneration(l, n)
  <2>1. \/ UNCHANGED <<state, notifying>>
        \/ UNCHANGED state /\ notifying' = [notifying EXCEPT ![l][n] = "sending"]
        \/ \E s \in HandleState : SetState(l, n, s)
    BY <1>5 DEF TaskStep, AwaitPredecessor, Bind, BindRefused, PublishFailed,
       PublishRunning, LeaveLoop, PublishStopped, Return, ReadGeneration, noteVars, HandleState
  <2>2. ASSUME NEW k \in Listener
        PROVE  Announcing(k)' \/ (Reported(k)' = Reported(k) /\ (Announcing(k) => Announcing(k)'))
    <3>1. gen[k] # 0 => gen[k] \in Task
      BY <1>1, MaxStartsAssumption DEF TypeOK, Task
    <3>2. CASE UNCHANGED <<state, notifying>>
      BY <1>3, <3>2 DEF Reported, Announcing
    <3>3. CASE k = l /\ n = gen[k] /\ ~UNCHANGED <<state, notifying>>
      <4>1. gen[k] # 0
        BY <3>3, MaxStartsAssumption DEF Task
      <4> QED
        BY <1>1, <1>3, <2>1, <3>1, <3>3, <4>1 DEF TypeOK, SetState, Announcing
    <3>4. CASE ~(k = l /\ n = gen[k])
      <4>1. gen[k] # 0 => /\ state'[k][gen[k]] = state[k][gen[k]]
                          /\ notifying'[k][gen[k]] = notifying[k][gen[k]]
        BY <1>1, <2>1, <3>1, <3>4 DEF TypeOK, SetState
      <4> QED
        BY <1>3, <4>1 DEF Reported, Announcing
    <3> QED
      BY <3>2, <3>3, <3>4
  <2>3. ASSUME NEW v \in Viewer, NEW k \in Listener
        PROVE  UpToDate(v, k)'
    <3>1. UpToDate(v, k) /\ UNCHANGED <<fresh, stage, unread, snapshot, view>>
      BY <1>5 DEF ViewInv
    <3> QED
      BY <2>2, <3>1 DEF UpToDate, InHand
  <2> QED
    BY <1>2, <2>3 DEF ViewInv
<1> QED
  BY <1>4, <1>5

(* A subscriber looks at a handle only after it has marked the value seen. *)
LEMMA ViewerKeepsUpToDate ==
  ASSUME ViewInv, NEW w \in Viewer, ViewerStep(w)
  PROVE  ViewInv'
<1>1. ViewTyped /\ TypeOK
  BY DEF ViewInv, ViewTyped
<1>2. UNCHANGED vars
  BY DEF ViewerStep, Wake, LockMap, ReadHandle, UnlockMap, Show
<1>3. TypeOK' /\ \A l \in Listener : Reported(l)' = Reported(l) /\ (Announcing(l)' <=> Announcing(l))
  BY <1>1, <1>2 DEF vars, TypeOK, Reported, Announcing
<1>4. \A l \in Listener : Reported(l) \in HandleState \cup {"Unknown"}
  BY <1>1, ReportedTyped
<1>5. ViewTyped'
  <2> USE <1>1, <1>3 DEF ViewTyped
  <2>1. CASE Wake(w) \/ UnlockMap(w)
    BY <2>1 DEF Wake, UnlockMap
  <2>2. CASE LockMap(w)
    BY <2>2 DEF LockMap, Nothing
  <2>3. ASSUME NEW l \in Listener, ReadHandle(w, l)
        PROVE  ViewTyped'
    BY <1>4, <2>3 DEF ReadHandle
  <2>4. CASE Show(w)
    BY <2>4 DEF Show
  <2> QED
    BY <2>1, <2>2, <2>3, <2>4 DEF ViewerStep
<1>6. ASSUME NEW v \in Viewer, NEW l \in Listener
      PROVE  UpToDate(v, l)'
  <2>0. UpToDate(v, l)
    BY DEF ViewInv
  <2>1. CASE v # w
    <3>1. /\ stage'[v] = stage[v] /\ unread'[v] = unread[v] /\ snapshot'[v] = snapshot[v]
          /\ view'[v] = view[v] /\ (v \in fresh' <=> v \in fresh)
      BY <1>1, <2>1 DEF ViewTyped, ViewerStep, Wake, LockMap, ReadHandle, UnlockMap, Show
    <3> QED
      BY <1>3, <2>0, <3>1 DEF UpToDate, InHand
  <2>2. CASE v = w
    <3> USE <1>1, <1>3, <2>0, <2>2 DEF ViewTyped, UpToDate, InHand
    <3>1. CASE Wake(w)
      BY <3>1 DEF Wake
    <3>2. CASE LockMap(w)
      <4>1. gen[l] = 0 => Reported(l) = "Unknown"
        BY DEF Reported
      <4> QED
        BY <3>2, <4>1 DEF LockMap, Nothing
    <3>3. ASSUME NEW k \in Listener, ReadHandle(w, k)
          PROVE  UpToDate(v, l)'
      BY <3>3 DEF ReadHandle
    <3>4. CASE UnlockMap(w)
      BY <3>4 DEF UnlockMap
    <3>5. CASE Show(w)
      BY <3>5 DEF Show
    <3> QED
      BY <3>1, <3>2, <3>3, <3>4, <3>5 DEF ViewerStep
  <2> QED
    BY <2>1, <2>2
<1> QED
  BY <1>5, <1>6 DEF ViewInv

(* Once no announcement is under way, every subscriber that waits shows    *)
(* what health() reports, however many announcements were merged into one  *)
(* (spawn_runtime_forwarder, spawn_tray).                                  *)
THEOREM WaitingShowsTheTruth == SafetyViews => []WaitingViewIsCurrent
<1>1. ViewInv /\ [NextViews]_allVars => ViewInv'
  <2> SUFFICES ASSUME ViewInv, [NextViews]_allVars
               PROVE  ViewInv'
    OBVIOUS
  <2>1. CASE UNCHANGED allVars
    <3>1. /\ UNCHANGED <<gen, port, phase, state, shutdown, notifying, seen, generation>>
          /\ UNCHANGED <<fresh, stage, unread, snapshot, view>>
      BY <2>1 DEF allVars, vars, viewVars
    <3> QED
      BY <3>1 DEF ViewInv, ViewTyped, TypeOK, UpToDate, InHand, Reported, Announcing
  <2> QED
    BY <2>1, CallKeepsUpToDate, TaskKeepsUpToDate, ViewerKeepsUpToDate DEF NextViews
<1>2. ViewInv => WaitingViewIsCurrent
  <2> SUFFICES ASSUME ViewInv, NEW v \in Viewer, stage[v] = "waiting", v \notin fresh,
                      \A l \in Listener, n \in Task : notifying[l][n] = "no",
                      NEW l \in Listener, Reported(l) # "Starting"
               PROVE  view[v][l] = Reported(l)
    BY DEF WaitingViewIsCurrent
  <2>1. ~Announcing(l)
    <3>1. gen[l] # 0 => gen[l] \in Task
      BY MaxStartsAssumption DEF ViewInv, ViewTyped, TypeOK, Task
    <3> QED
      BY <3>1 DEF Announcing
  <2> QED
    BY <2>1 DEF ViewInv, UpToDate, InHand
<1> QED
  BY ViewInvInitially, <1>1, <1>2, PTL DEF SafetyViews
=============================================================================
