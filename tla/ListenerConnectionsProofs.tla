--------------------- MODULE ListenerConnectionsProofs ---------------------
(***************************************************************************)
(* Proofs about ListenerConnections, for any clients, finitely many or not, *)
(* and any limit on connections.                                           *)
(***************************************************************************)
EXTENDS ListenerConnections, FiniteSetTheorems, TLAPS

(***************************************************************************)
(* The inductive invariant.  What relates permits, counter and tasks is    *)
(* inductive only with the two facts about aborted tasks: there are none   *)
(* before the shutdown aborts connections, and each is a task that lives.  *)
(***************************************************************************)
Typed ==
  /\ loop \in {"accepting", "left", "tunnelsAborted", "joining", "stopped", "closed"}
  /\ shutdown \in BOOLEAN
  /\ permits \in Nat
  /\ active \in Int
  /\ stage \in [Client -> {"away", "backlog"} \cup Suspended \cup MidPoll]
  /\ request \in [Client -> Request \cup {NoRequest}]
  /\ verdict \in [Client -> Verdict \cup {"none"}]
  /\ since \in [Client -> SUBSET Verdict]
  /\ tunnel \in [Client -> {"none", "waiting", "copying", "ended"}]
  /\ registry \in SUBSET Client
  /\ dropped \in SUBSET Client
  /\ policy \in Verdict

CancelledLive ==
  /\ cancelled \subseteq Alive
  /\ cancelled # {} => loop \in {"joining", "stopped", "closed"}

Counted ==
  /\ IsFiniteSet(Alive)
  /\ ActiveIsExact

(* What a task holds of a request, along its stages. *)
Judged(c) ==
  /\ stage[c] \in {"away", "backlog", "reading"} => verdict[c] = "none"
  /\ stage[c] = "loading" =>
       /\ policy \in since[c]
       /\ request[c] \in Request /\ request[c].target # "missing"
  /\ verdict[c] # "none" => verdict[c] \in since[c]
  /\ stage[c] \in {"connecting", "forwarding", "upgrading"} \cup MidPoll =>
       verdict[c] = "allow" /\ request[c].target = "outside"

IInv ==
  /\ Typed
  /\ CancelledLive
  /\ Counted
  /\ StoppedLeavesNoConnection
  /\ \A c \in Client : Judged(c)
  /\ TunnelsReachable

LEMMA IInvInitially == Init => IInv
<1> SUFFICES ASSUME Init
             PROVE  IInv
  OBVIOUS
<1>1. Typed
  <2>1. request \in [Client -> Request \cup {NoRequest}]
    BY DEF Init
  <2>2. stage \in [Client -> {"away", "backlog"} \cup Suspended \cup MidPoll]
    BY DEF Init
  <2>3. /\ verdict \in [Client -> Verdict \cup {"none"}]
        /\ since \in [Client -> SUBSET Verdict]
        /\ tunnel \in [Client -> {"none", "waiting", "copying", "ended"}]
    BY DEF Init
  <2>4. loop = "accepting" /\ shutdown = FALSE /\ registry = {} /\ dropped = {}
        /\ permits \in Nat /\ active \in Int /\ policy \in Verdict
    BY MaxConnectionsAssumption DEF Init
  <2> QED
    BY <2>1, <2>2, <2>3, <2>4 DEF Typed
<1>2. Alive = {}
  BY DEF Init, Alive, Suspended, MidPoll
<1>3. CancelledLive /\ StoppedLeavesNoConnection
  BY <1>2 DEF Init, CancelledLive, StoppedLeavesNoConnection
<1>4. Counted
  BY <1>2, FS_EmptySet, MaxConnectionsAssumption DEF Init, Counted, ActiveIsExact
<1>5. TunnelsReachable /\ \A c \in Client : Judged(c)
  BY DEF Init, TunnelsReachable, LiveTunnels, Judged, MidPoll
<1> QED
  BY <1>1, <1>3, <1>4, <1>5 DEF IInv

-----------------------------------------------------------------------------
(* Types. *)

LEMMA TypedStep ==
  ASSUME Typed, \A c \in Client : Judged(c), [Next]_vars
  PROVE  Typed'
<1> USE DEF Typed, Suspended, MidPoll, Request, NoRequest, Verdict, loopVars, limitVars,
            requestVars, tunnelVars, Step, Resume
<1>1. CASE LoopStep
  BY <1>1 DEF LoopStep, LeaveLoop, AbortTunnels, AbortConnections, PublishStopped, DropSocket
<1>2. CASE SignalShutdown
  BY <1>2 DEF SignalShutdown
<1>3. ASSUME NEW c \in Client, ConnectionStep(c)
      PROVE  Typed'
  <2>1. CASE Connect(c) \/ Accept(c) \/ RefuseOverLimit(c)
    BY <2>1 DEF Connect, Accept, RefuseOverLimit
  <2>2. ASSUME NEW r \in Request, Arrive(c, r)
        PROVE  Typed'
    BY <2>2 DEF Arrive
  <2>3. CASE Hangup(c) \/ EndAfterHandOver(c) \/ AbortTakesEffect(c)
    BY <2>3 DEF Hangup, EndAfterHandOver, End, AbortTakesEffect
  <2>4. CASE LoadSnapshot(c)
    BY <2>4 DEF LoadSnapshot
  <2>5. CASE Decide(c)
    BY <2>5 DEF Decide, Allows, Judged
  <2>6. CASE Answer(c) \/ KeepAlive(c) \/ UpstreamReached(c)
    BY <2>6 DEF Answer, KeepAlive, UpstreamReached
  <2>7. CASE SpawnTunnel(c) \/ RegisterTunnel(c) \/ ParkAnswer(c)
    BY <2>7 DEF SpawnTunnel, RegisterTunnel, ParkAnswer
  <2>8. CASE HandOver(c) \/ TunnelEnds(c)
    BY <2>8 DEF HandOver, TunnelEnds
  <2> QED
    BY <1>3, <2>1, <2>2, <2>3, <2>4, <2>5, <2>6, <2>7, <2>8 DEF ConnectionStep, PollStep
<1>4. ASSUME NEW v \in Verdict, ChangePolicy(v)
      PROVE  Typed'
  BY <1>4 DEF ChangePolicy
<1>5. CASE UNCHANGED vars
  BY <1>5 DEF vars
<1> QED
  BY <1>1, <1>2, <1>3, <1>4, <1>5 DEF Next

-----------------------------------------------------------------------------
(***************************************************************************)
(* Counting.  A step moves one task, so the tasks that live change by one  *)
(* element or not at all.                                                  *)
(***************************************************************************)
LEMMA AliveAfterStep ==
  ASSUME Typed, NEW c \in Client, NEW to, stage' = [stage EXCEPT ![c] = to]
  PROVE  Alive' = IF to \in Suspended \cup MidPoll THEN Alive \cup {c} ELSE Alive \ {c}
BY DEF Typed, Alive

(* Nothing that counts has changed. *)
LEMMA SameCount ==
  ASSUME Counted, Alive' = Alive, UNCHANGED limitVars,
         loop' = "accepting" => loop = "accepting"
  PROVE  Counted'
BY DEF Counted, ActiveIsExact, limitVars

(* A task has ended, by itself or aborted: its permit is back, and unless  *)
(* it was aborted the counter has gone down.                               *)
LEMMA OneTaskLess ==
  ASSUME Typed, Counted, UNCHANGED loop,
         NEW c \in Alive, Alive' = Alive \ {c},
         permits' = permits + 1,
         active' = active - 1 \/ (active' = active /\ loop # "accepting")
  PROVE  Counted'
<1>1. /\ IsFiniteSet(Alive')
      /\ Cardinality(Alive') = Cardinality(Alive) - 1
      /\ Cardinality(Alive) \in Nat
  BY FS_RemoveElement, FS_CardinalityType DEF Counted
<1> QED
  BY <1>1, MaxConnectionsAssumption DEF Typed, Counted, ActiveIsExact

(* A connection that takes its permit is counted.                          *)
LEMMA OneTaskMore ==
  ASSUME Typed, Counted, UNCHANGED loop,
         NEW c \in Client \ Alive, Alive' = Alive \cup {c},
         permits' = permits - 1, active' = active + 1
  PROVE  Counted'
<1>1. /\ IsFiniteSet(Alive')
      /\ Cardinality(Alive') = Cardinality(Alive) + 1
      /\ Cardinality(Alive) \in Nat
  BY FS_AddElement, FS_CardinalityType DEF Counted
<1> QED
  BY <1>1, MaxConnectionsAssumption DEF Typed, Counted, ActiveIsExact

(* What the whole next-state relation does to the tasks that live: a task  *)
(* ends, a task begins, or none does either.                               *)
Ended(c) ==
  /\ c \in Alive /\ Alive' = Alive \ {c}
  /\ cancelled' = cancelled \ {c}
  /\ permits' = permits + 1
  /\ active' = active - 1 \/ (active' = active /\ c \in cancelled)
  /\ UNCHANGED loop

Begun(c) ==
  /\ c \notin Alive /\ Alive' = Alive \cup {c}
  /\ permits > 0 /\ permits' = permits - 1 /\ active' = active + 1
  /\ loop = "accepting"
  /\ UNCHANGED <<loop, cancelled>>

Continued ==
  /\ Alive' = Alive
  /\ UNCHANGED limitVars
  /\ \/ UNCHANGED <<loop, cancelled>>
     \/ loop' \in {"left", "tunnelsAborted"} /\ cancelled' = {}
     \/ loop' = "joining" /\ cancelled' = Alive
     \/ loop' \in {"stopped", "closed"} /\ Alive = {} /\ UNCHANGED cancelled

(* A step begins one task, ends one, or leaves the tasks alive as they     *)
(* were.                                                                   *)
LEMMA TasksChange ==
  ASSUME IInv, [Next]_vars
  PROVE  Continued \/ \E c \in Client : Begun(c) \/ Ended(c)
<1> USE DEF loopVars, limitVars, requestVars, tunnelVars, IInv
<1>1. CASE LoopStep
  <2>1. CASE DropSocket
    <3>1. Alive = {} /\ loop' = "closed"
      BY <2>1 DEF DropSocket, StoppedLeavesNoConnection
    <3>2. Alive' = {}
      BY <2>1 DEF DropSocket, Alive, Suspended, MidPoll
    <3> QED
      BY <2>1, <3>1, <3>2 DEF DropSocket, Continued
  <2>2. CASE LeaveLoop \/ AbortTunnels \/ AbortConnections \/ PublishStopped
    <3>1. UNCHANGED stage
      BY <2>2 DEF LeaveLoop, AbortTunnels, AbortConnections, PublishStopped
    <3>2. Alive' = Alive
      BY <3>1 DEF Alive
    <3> QED
      BY <2>2, <3>2 DEF LeaveLoop, AbortTunnels, AbortConnections, PublishStopped,
                        Continued, CancelledLive
  <2> QED
    BY <1>1, <2>1, <2>2 DEF LoopStep
<1>2. CASE SignalShutdown \/ (\E v \in Verdict : ChangePolicy(v)) \/ UNCHANGED vars
  <2>1. UNCHANGED <<loop, permits, active, stage, cancelled>>
    BY <1>2 DEF SignalShutdown, ChangePolicy, vars
  <2> QED
    BY <2>1 DEF Continued, Alive
<1>3. ASSUME NEW c \in Client, ConnectionStep(c)
      PROVE  Continued \/ Begun(c) \/ Ended(c)
  <2> USE DEF Step, Resume
  <2>1. CASE Accept(c)
    <3>1. Alive' = Alive \cup {c} /\ c \notin Alive
      BY <2>1, AliveAfterStep DEF Accept, Alive, Suspended, MidPoll
    <3> QED
      BY <2>1, <3>1 DEF Accept, Begun
  <2>2. CASE Connect(c) \/ RefuseOverLimit(c)
    <3>1. Alive' = Alive /\ c \notin Alive
      BY <2>2, AliveAfterStep DEF Connect, RefuseOverLimit, Alive, Suspended, MidPoll
    <3> QED
      BY <2>2, <3>1 DEF Connect, RefuseOverLimit, Continued
  <2>3. ASSUME Hangup(c) \/ EndAfterHandOver(c) \/ AbortTakesEffect(c)
        PROVE  Ended(c)
    <3>1. stage[c] \in Suspended \cup MidPoll /\ stage' = [stage EXCEPT ![c] = "away"]
      BY <2>3 DEF Hangup, EndAfterHandOver, End, AbortTakesEffect, MidPoll
    <3>2. c \in Alive /\ Alive' = Alive \ {c}
      BY <3>1, AliveAfterStep DEF Alive, Suspended, MidPoll
    <3> QED
      BY <2>3, <3>2 DEF Hangup, EndAfterHandOver, End, AbortTakesEffect, Ended
  <2>4. ASSUME LoadSnapshot(c) \/ TunnelEnds(c)
        PROVE  Continued
    BY <2>4 DEF LoadSnapshot, TunnelEnds, Continued, Alive
  <2>5. ASSUME \/ \E r \in Request : Arrive(c, r)
               \/ Decide(c) \/ Answer(c) \/ KeepAlive(c) \/ UpstreamReached(c)
               \/ SpawnTunnel(c) \/ RegisterTunnel(c) \/ ParkAnswer(c) \/ HandOver(c)
        PROVE  Continued
    <3>1. PICK to \in Suspended \cup MidPoll :
            stage[c] \in Suspended \cup MidPoll /\ stage' = [stage EXCEPT ![c] = to]
      <4>1. CASE Decide(c)
        BY <4>1 DEF Decide, Allows, Judged, Request, Suspended, MidPoll
      <4>2. CASE ~Decide(c)
        BY <2>5, <4>2 DEF Arrive, Answer, KeepAlive, UpstreamReached, SpawnTunnel,
                   RegisterTunnel, ParkAnswer, HandOver, Suspended, MidPoll
      <4> QED
        BY <4>1, <4>2
    <3>2. Alive' = Alive
      BY <3>1, AliveAfterStep DEF Alive
    <3> QED
      BY <2>5, <3>2 DEF Arrive, Decide, Answer, KeepAlive, UpstreamReached, SpawnTunnel,
                        RegisterTunnel, ParkAnswer, HandOver, Continued
  <2> QED
    BY <1>3, <2>1, <2>2, <2>3, <2>4, <2>5 DEF ConnectionStep, PollStep
<1> QED
  BY <1>1, <1>2, <1>3 DEF Next

LEMMA CountedStep ==
  ASSUME IInv, [Next]_vars
  PROVE  Counted' /\ CancelledLive' /\ StoppedLeavesNoConnection'
<1> USE DEF IInv, CancelledLive, StoppedLeavesNoConnection
<1>1. CASE Continued
  <2>1. Counted'
    BY <1>1, SameCount DEF Continued
  <2> QED
    BY <1>1, <2>1 DEF Continued
<1>2. ASSUME NEW c \in Client, Begun(c)
      PROVE  Counted' /\ CancelledLive' /\ StoppedLeavesNoConnection'
  <2>1. Counted'
    BY <1>2, OneTaskMore DEF Begun
  <2> QED
    BY <1>2, <2>1 DEF Begun
<1>3. ASSUME NEW c \in Client, Ended(c)
      PROVE  Counted' /\ CancelledLive' /\ StoppedLeavesNoConnection'
  <2>1. active' = active - 1 \/ (active' = active /\ loop # "accepting")
    BY <1>3 DEF Ended
  <2>2. Counted'
    BY <1>3, <2>1, OneTaskLess DEF Ended
  <2> QED
    BY <1>3, <2>2 DEF Ended
<1> QED
  BY <1>1, <1>2, <1>3, TasksChange

-----------------------------------------------------------------------------
(* Decisions. *)

LEMMA JudgedStep ==
  ASSUME IInv, [Next]_vars
  PROVE  \A c \in Client : Judged(c)'
<1> USE DEF Suspended, MidPoll, loopVars, limitVars, requestVars, tunnelVars, Step, Resume
<1>0. Typed /\ \A c \in Client : Judged(c)
  BY DEF IInv
<1>1. CASE LoopStep
  <2>1. CASE DropSocket
    <3>1. Alive = {}
      BY <2>1 DEF DropSocket, IInv, StoppedLeavesNoConnection
    <3>2. \A c \in Client : stage[c] \in {"away", "backlog"}
      BY <1>0, <3>1 DEF Alive, Typed
    <3> QED
      BY <1>0, <2>1, <3>2 DEF DropSocket, Judged
  <2>2. CASE LeaveLoop \/ AbortTunnels \/ AbortConnections \/ PublishStopped
    <3>1. UNCHANGED <<stage, request, verdict, since, policy>>
      BY <2>2 DEF LeaveLoop, AbortTunnels, AbortConnections, PublishStopped
    <3> QED
      BY <1>0, <3>1 DEF Judged
  <2> QED
    BY <1>1, <2>1, <2>2 DEF LoopStep
<1>2. CASE SignalShutdown \/ UNCHANGED vars
  <2>1. UNCHANGED <<stage, request, verdict, since, policy>>
    BY <1>2 DEF SignalShutdown, vars
  <2> QED
    BY <1>0, <2>1 DEF Judged
<1>3. ASSUME NEW v \in Verdict, ChangePolicy(v)
      PROVE  \A c \in Client : Judged(c)'
  <2>1. /\ policy' = v
        /\ UNCHANGED <<stage, request, verdict>>
        /\ \A c \in Client : since'[c] = IF since[c] = {} THEN {} ELSE since[c] \cup {v}
    BY <1>3 DEF ChangePolicy
  <2> QED
    BY <1>0, <2>1 DEF Judged
<1>4. ASSUME NEW c \in Client, ConnectionStep(c), NEW d \in Client
      PROVE  Judged(d)'
  <2>0. UNCHANGED policy
    BY <1>4 DEF ConnectionStep, PollStep, Connect, Accept, RefuseOverLimit, Arrive, Hangup,
       End, LoadSnapshot, Decide, Answer, KeepAlive, UpstreamReached, SpawnTunnel,
       RegisterTunnel, ParkAnswer, HandOver, EndAfterHandOver, AbortTakesEffect, TunnelEnds
  <2>1. CASE d # c
    <3>1. /\ stage'[d] = stage[d] /\ request'[d] = request[d]
          /\ verdict'[d] = verdict[d] /\ since'[d] = since[d]
      BY <1>0, <1>4, <2>1
      DEF Typed, ConnectionStep, PollStep, Connect, Accept, RefuseOverLimit, Arrive, Hangup,
       End, LoadSnapshot, Decide, Answer, KeepAlive, UpstreamReached, SpawnTunnel,
       RegisterTunnel, ParkAnswer, HandOver, EndAfterHandOver, AbortTakesEffect, TunnelEnds
    <3> QED
      BY <1>0, <2>0, <3>1 DEF Judged
  <2>2. CASE d = c
    <3> USE <1>0, <2>0, <2>2 DEF Typed, Judged
    <3>1. CASE Connect(c) \/ Accept(c) \/ RefuseOverLimit(c) \/ TunnelEnds(c)
      BY <3>1 DEF Connect, Accept, RefuseOverLimit, TunnelEnds
    <3>2. ASSUME NEW r \in Request, Arrive(c, r)
          PROVE  Judged(d)'
      BY <3>2 DEF Arrive
    <3>3. CASE Hangup(c) \/ EndAfterHandOver(c) \/ AbortTakesEffect(c) \/ KeepAlive(c)
      BY <3>3 DEF Hangup, End, EndAfterHandOver, AbortTakesEffect, KeepAlive
    <3>4. CASE LoadSnapshot(c)
      BY <3>4 DEF LoadSnapshot
    <3>5. CASE Decide(c)
      BY <3>5 DEF Decide, Allows, Request
    <3>6. CASE Answer(c) \/ UpstreamReached(c)
      BY <3>6 DEF Answer, UpstreamReached
    <3>7. CASE SpawnTunnel(c) \/ RegisterTunnel(c) \/ ParkAnswer(c) \/ HandOver(c)
      BY <3>7 DEF SpawnTunnel, RegisterTunnel, ParkAnswer, HandOver
    <3> QED
      BY <1>4, <3>1, <3>2, <3>3, <3>4, <3>5, <3>6, <3>7 DEF ConnectionStep, PollStep
  <2> QED
    BY <2>1, <2>2
<1> QED
  BY <1>1, <1>2, <1>3, <1>4 DEF Next

-----------------------------------------------------------------------------
(* Tunnels. *)

LEMMA ReachableStep ==
  ASSUME IInv, [Next]_vars
  PROVE  TunnelsReachable'
<1> USE DEF loopVars, limitVars, requestVars, tunnelVars, Step, Resume
<1> SUFFICES ASSUME loop' = "accepting", NEW d \in Client, tunnel'[d] \in {"waiting", "copying"}
             PROVE  d \in registry' \/ stage'[d] = "spawned"
  BY DEF TunnelsReachable, LiveTunnels
<1>1. Typed
  BY DEF IInv
<1>2. CASE UNCHANGED <<loop, stage, tunnel, registry>>
  BY <1>2 DEF IInv, TunnelsReachable, LiveTunnels
<1>3. CASE LoopStep
  BY <1>3 DEF LoopStep, LeaveLoop, AbortTunnels, AbortConnections, PublishStopped, DropSocket
<1>4. ASSUME NEW c \in Client, ConnectionStep(c)
      PROVE  d \in registry' \/ stage'[d] = "spawned"
  <2>1. loop = "accepting"
    BY <1>4 DEF ConnectionStep, PollStep, Connect, Accept, RefuseOverLimit, Arrive, Hangup,
       End, LoadSnapshot, Decide, Answer, KeepAlive, UpstreamReached, SpawnTunnel,
       RegisterTunnel, ParkAnswer, HandOver, EndAfterHandOver, AbortTakesEffect, TunnelEnds
  <2>2. tunnel[d] \in {"waiting", "copying"} => d \in registry \/ stage[d] = "spawned"
    BY <2>1 DEF IInv, TunnelsReachable, LiveTunnels
  <2>3. CASE SpawnTunnel(c)
    BY <1>1, <2>2, <2>3 DEF SpawnTunnel, Typed
  <2>4. CASE RegisterTunnel(c)
    BY <1>1, <2>2, <2>4 DEF RegisterTunnel, Typed, LiveTunnels
  <2>5. CASE HandOver(c) \/ TunnelEnds(c)
    BY <1>1, <2>2, <2>5 DEF HandOver, TunnelEnds, Typed
  <2>6. ASSUME ~SpawnTunnel(c), ~RegisterTunnel(c), ~HandOver(c), ~TunnelEnds(c)
        PROVE  UNCHANGED <<tunnel, registry>> /\ (stage'[d] = stage[d] \/ stage[d] # "spawned")
    <3>1. UNCHANGED <<tunnel, registry>>
      BY <1>4, <2>6
      DEF ConnectionStep, PollStep, Connect, Accept, RefuseOverLimit, Arrive, Hangup,
        End, LoadSnapshot, Decide, Answer, KeepAlive, UpstreamReached, ParkAnswer,
        EndAfterHandOver, AbortTakesEffect
    <3>2. stage'[d] = stage[d] \/ stage[d] # "spawned"
      BY <1>1, <1>4, <2>6
      DEF Typed, ConnectionStep, PollStep, Connect, Accept, RefuseOverLimit, Arrive, Hangup,
        End, LoadSnapshot, Decide, Answer, KeepAlive, UpstreamReached, ParkAnswer,
        EndAfterHandOver, AbortTakesEffect, Suspended
    <3> QED
      BY <3>1, <3>2
  <2> QED
    BY <2>2, <2>3, <2>4, <2>5, <2>6
<1> QED
  BY <1>2, <1>3, <1>4 DEF Next, SignalShutdown, ChangePolicy, vars

-----------------------------------------------------------------------------
THEOREM Inductive == Safety => []IInv
<1>1. IInv /\ [Next]_vars => IInv'
  <2> SUFFICES ASSUME IInv, [Next]_vars
               PROVE  IInv'
    OBVIOUS
  <2>1. Typed'
    BY TypedStep DEF IInv
  <2> QED
    BY <2>1, CountedStep, JudgedStep, ReachableStep DEF IInv
<1> QED
  BY IInvInitially, <1>1, PTL DEF Safety

LEMMA IInvImplies ==
  ASSUME IInv
  PROVE  TypeOK /\ OnlyAllowedReachTarget
<1>1. Cardinality(Alive) \in Nat
  BY FS_CardinalityType DEF IInv, Counted
<1>2. permits \in 0..MaxConnections /\ active \in Nat
  <2>1. permits \in Nat /\ active \in Int
    BY DEF IInv, Typed
  <2>2. permits + Cardinality(Alive) = MaxConnections /\ active >= Cardinality(Alive)
    BY DEF IInv, Counted, ActiveIsExact
  <2> QED
    BY <1>1, <2>1, <2>2, MaxConnectionsAssumption
<1>3. cancelled \in SUBSET Client
  BY DEF IInv, CancelledLive, Alive
<1>4. TypeOK
  BY <1>2, <1>3 DEF IInv, Typed, TypeOK
<1>5. OnlyAllowedReachTarget
  BY DEF IInv, Judged, OnlyAllowedReachTarget
<1> QED
  BY <1>4, <1>5

(* Every variable keeps its type; in particular the permits stay within    *)
(* the limit of run_listener's semaphore and the counter does not wrap.    *)
THEOREM TypeCorrect == Safety => []TypeOK
  BY Inductive, IInvImplies, PTL

(* handle_request hands a request on only if a policy allowed it that was  *)
(* in force while it waited, however the policy changes meanwhile, and     *)
(* never to the listener itself.                                           *)
THEOREM OnlyAllowedPass == Safety => []OnlyAllowedReachTarget
  BY Inductive, IInvImplies, PTL

(* Permits and tasks always add up to the limit, and the counter is never  *)
(* below the number of tasks, exactly it while the listener accepts.       *)
THEOREM CountsAgree == Safety => []ActiveIsExact
<1>1. IInv => ActiveIsExact
  BY DEF IInv, Counted
<1> QED
  BY <1>1, Inductive, PTL

(* run_listener publishes Stopped only when its tasks are gone, and none   *)
(* appears afterwards.                                                     *)
THEOREM StoppedIsDrained == Safety => []StoppedLeavesNoConnection
<1>1. IInv => StoppedLeavesNoConnection
  BY DEF IInv
<1> QED
  BY <1>1, Inductive, PTL

(* Before the shutdown no live tunnel is missing from the registry, except *)
(* between spawn and register of handle_connect.                           *)
THEOREM TunnelsRegistered == Safety => []TunnelsReachable
<1>1. IInv => TunnelsReachable
  BY DEF IInv
<1> QED
  BY <1>1, Inductive, PTL
=============================================================================
