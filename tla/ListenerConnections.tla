------------------------ MODULE ListenerConnections ------------------------
(***************************************************************************)
(* One run of a listener from its select! loop to its end: the connection  *)
(* tasks it accepts, the CONNECT tunnels they leave behind, and the        *)
(* shutdown that ends them (run_listener, serve_connection,                *)
(* handle_request, handle_connect, handle_forward, TunnelRegistry;         *)
(* proxy/server.rs).                                                       *)
(*                                                                         *)
(* Tasks run in parallel on a multi-threaded runtime.  An abort takes      *)
(* effect at an await: a suspended task is not polled again, one that is   *)
(* being polled on another thread first runs to its next await or to its   *)
(* end.  The stages of a connection in MidPoll are those between two       *)
(* awaits in which another thread can tell the difference.                 *)
(*                                                                         *)
(* The policy is external: its value may change at any moment, and is read *)
(* as one snapshot by a thread of the blocking pool.                       *)
(***************************************************************************)
EXTENDS Naturals, FiniteSets

CONSTANTS Client,           \* clients, each with at most one connection and tunnel
          MaxConnections    \* ProxyLimits.max_connections_per_listener

ASSUME MaxConnectionsAssumption == MaxConnections \in Nat

VARIABLES
  loop,        \* where run_listener is
  shutdown,    \* the shutdown channel holds true
  permits,     \* permits left in the semaphore
  active,      \* ListenerHandle.active
  stage,       \* where each client's connection task is
  cancelled,   \* connection tasks that were told to abort
  request,     \* the request each task is serving
  verdict,     \* what the snapshot read for it says of its target
  since,       \* verdicts the policy has held since the request arrived
  tunnel,      \* the tunnel task each client's connection spawned
  registry,    \* TunnelRegistry.handles
  dropped,     \* tunnel tasks that were told to abort
  policy       \* the verdict of the stored policy: external

vars == <<loop, shutdown, permits, active, stage, cancelled, request, verdict,
          since, tunnel, registry, dropped, policy>>
loopVars == <<loop, shutdown>>
limitVars == <<permits, active>>
requestVars == <<request, verdict, since>>
tunnelVars == <<tunnel, registry, dropped>>

(* The target of a request is missing, the listener itself, or outside.    *)
Request == [method : {"CONNECT", "forward"}, target : {"missing", "self", "outside"}]
NoRequest == [method |-> "none", target |-> "none"]

(* unavailable: no profile, a storage error or a failed task.              *)
Verdict == {"allow", "deny", "unavailable"}

Suspended == {"reading", "loading", "connecting", "forwarding", "answering", "upgrading"}
MidPoll == {"connected", "spawned", "registered", "handed"}

(* Connection tasks of the JoinSet that have not ended. *)
Alive == {c \in Client : stage[c] \in Suspended \cup MidPoll}

LiveTunnels == {c \in Client : tunnel[c] \in {"waiting", "copying"}}

Init ==
  /\ loop = "accepting"
  /\ shutdown = FALSE
  /\ permits = MaxConnections
  /\ active = 0
  /\ stage = [c \in Client |-> "away"]
  /\ cancelled = {}
  /\ request = [c \in Client |-> NoRequest]
  /\ verdict = [c \in Client |-> "none"]
  /\ since = [c \in Client |-> {}]
  /\ tunnel = [c \in Client |-> "none"]
  /\ registry = {}
  /\ dropped = {}
  /\ policy \in Verdict

Step(c, from, to) ==
  /\ stage[c] = from
  /\ stage' = [stage EXCEPT ![c] = to]

(* A suspended task is polled again, unless it has been told to abort.     *)
Resume(c, from, to) == c \notin cancelled /\ Step(c, from, to)

-----------------------------------------------------------------------------
(* The accept loop. *)

(* A client reaches the socket's backlog. *)
Connect(c) ==
  /\ loop # "closed"
  /\ tunnel[c] \notin {"waiting", "copying"}
  /\ Step(c, "away", "backlog")
  /\ UNCHANGED <<loopVars, limitVars, cancelled, requestVars, tunnelVars, policy>>

(* Faulty: the permit goes out of scope in the loop. *)
AcceptDroppingPermit(c) ==
  /\ loop = "accepting"
  /\ permits > 0
  /\ Step(c, "backlog", "reading")
  /\ active' = active + 1
  /\ UNCHANGED <<loopVars, permits, cancelled, requestVars, tunnelVars, policy>>

(* accept with a permit: the task owns it until it ends. (A peer that is   *)
(* not loopback cannot reach a socket bound to a loopback address.)        *)
Accept(c) ==
  /\ loop = "accepting"
  /\ permits > 0
  /\ Step(c, "backlog", "reading")
  /\ permits' = permits - 1
  /\ active' = active + 1
  /\ UNCHANGED <<loopVars, cancelled, requestVars, tunnelVars, policy>>

(* The limit is reached: the accepted stream is dropped. *)
RefuseOverLimit(c) ==
  /\ loop = "accepting"
  /\ permits = 0
  /\ Step(c, "backlog", "away")
  /\ UNCHANGED <<loopVars, limitVars, cancelled, requestVars, tunnelVars, policy>>

-----------------------------------------------------------------------------
(* A connection task. *)

(* The task ends by itself: the permit returns and the counter goes down.  *)
End(c, from) ==
  /\ Step(c, from, "away")
  /\ permits' = permits + 1
  /\ active' = active - 1
  /\ cancelled' = cancelled \ {c}
  /\ request' = [request EXCEPT ![c] = NoRequest]
  /\ verdict' = [verdict EXCEPT ![c] = "none"]
  /\ since' = [since EXCEPT ![c] = {}]
  /\ UNCHANGED <<loopVars, tunnelVars, policy>>

(* The task is dropped at an await: its permit is dropped with it, the     *)
(* statement after serve_connection is not reached.                        *)
AbortTakesEffect(c) ==
  /\ c \in cancelled
  /\ stage[c] \in Suspended
  /\ stage' = [stage EXCEPT ![c] = "away"]
  /\ permits' = permits + 1
  /\ cancelled' = cancelled \ {c}
  /\ request' = [request EXCEPT ![c] = NoRequest]
  /\ verdict' = [verdict EXCEPT ![c] = "none"]
  /\ since' = [since EXCEPT ![c] = {}]
  /\ UNCHANGED <<loopVars, active, tunnelVars, policy>>

(* A request head is read. Without a target it is answered at once.        *)
Arrive(c, r) ==
  /\ Resume(c, "reading", IF r.target = "missing" THEN "answering" ELSE "loading")
  /\ request' = [request EXCEPT ![c] = r]
  /\ since' = [since EXCEPT ![c] = {policy}]
  /\ UNCHANGED <<loopVars, limitVars, cancelled, verdict, tunnelVars, policy>>

(* The header timeout passes, the client goes away -- which drops whatever *)
(* its request is waiting for -- or the answer ends the connection.        *)
Hangup(c) == c \notin cancelled /\ \E from \in Suspended : End(c, from)

(* load_snapshot: a thread of the blocking pool reads the policy. *)
LoadSnapshot(c) ==
  /\ stage[c] = "loading"
  /\ verdict[c] = "none"
  /\ verdict' = [verdict EXCEPT ![c] = policy]
  /\ UNCHANGED <<loopVars, limitVars, stage, cancelled, request, since, tunnelVars, policy>>

(* decide: a request to the listener itself is denied before the policy is *)
(* consulted, a policy that cannot be read denies.                         *)
Allows(c) ==
  /\ request[c].target # "self"
  /\ verdict[c] = "allow"

(* The decision is made and published, then the request is answered with   *)
(* a denial or sent on its way.                                            *)
Decide(c) ==
  /\ verdict[c] # "none"
  /\ Resume(c, "loading",
            CASE ~Allows(c) -> "answering"
              [] Allows(c) /\ request[c].method = "CONNECT" -> "connecting"
              [] Allows(c) /\ request[c].method = "forward" -> "forwarding")
  /\ UNCHANGED <<loopVars, limitVars, cancelled, requestVars, tunnelVars, policy>>

(* The target answers, refuses or times out: an answer to the client.      *)
Answer(c) ==
  /\ Resume(c, "forwarding", "answering") \/ Resume(c, "connecting", "answering")
  /\ UNCHANGED <<loopVars, limitVars, cancelled, requestVars, tunnelVars, policy>>

(* Faulty: the snapshot is read once and kept for the whole connection.    *)
KeepAliveWithSnapshot(c) ==
  /\ Resume(c, "answering", "reading")
  /\ request' = [request EXCEPT ![c] = NoRequest]
  /\ since' = [since EXCEPT ![c] = {}]
  /\ UNCHANGED <<loopVars, limitVars, cancelled, verdict, tunnelVars, policy>>

(* The connection is kept alive for the next request. *)
KeepAlive(c) ==
  /\ Resume(c, "answering", "reading")
  /\ request' = [request EXCEPT ![c] = NoRequest]
  /\ verdict' = [verdict EXCEPT ![c] = "none"]
  /\ since' = [since EXCEPT ![c] = {}]
  /\ UNCHANGED <<loopVars, limitVars, cancelled, tunnelVars, policy>>

-----------------------------------------------------------------------------
(* handle_connect after the target has been reached. *)

UpstreamReached(c) ==
  /\ Resume(c, "connecting", "connected")
  /\ UNCHANGED <<loopVars, limitVars, cancelled, requestVars, tunnelVars, policy>>

(* A handle of an earlier tunnel of this client is of no effect any more.  *)
SpawnTunnel(c) ==
  /\ Step(c, "connected", "spawned")
  /\ tunnel' = [tunnel EXCEPT ![c] = "waiting"]
  /\ registry' = registry \ {c}
  /\ UNCHANGED <<loopVars, limitVars, cancelled, requestVars, dropped, policy>>

(* Faulty: register keeps the finished tunnels instead of the others.      *)
RegisterForgettingLive(c) ==
  /\ Step(c, "spawned", "registered")
  /\ registry' = (registry \ LiveTunnels) \cup {c}
  /\ UNCHANGED <<loopVars, limitVars, cancelled, requestVars, tunnel, dropped, policy>>

RegisterTunnel(c) ==
  /\ Step(c, "spawned", "registered")
  /\ registry' = (registry \cap LiveTunnels) \cup {c}
  /\ UNCHANGED <<loopVars, limitVars, cancelled, requestVars, tunnel, dropped, policy>>

(* The answer 200 cannot be written at once. *)
ParkAnswer(c) ==
  /\ Step(c, "registered", "upgrading")
  /\ UNCHANGED <<loopVars, limitVars, cancelled, requestVars, tunnelVars, policy>>

(* The answer is written and the stream is handed to the tunnel task.      *)
HandOver(c) ==
  /\ Step(c, "registered", "handed") \/ Resume(c, "upgrading", "handed")
  /\ tunnel' = [tunnel EXCEPT ![c] = IF @ = "waiting" THEN "copying" ELSE @]
  /\ UNCHANGED <<loopVars, limitVars, cancelled, requestVars, registry, dropped, policy>>

(* The connection task ends while the tunnel goes on. *)
EndAfterHandOver(c) == End(c, "handed")

(* Either side closes; the upgrade failed with its connection; the abort.  *)
TunnelEnds(c) ==
  /\ \/ tunnel[c] = "copying"
     \/ tunnel[c] = "waiting" /\ stage[c] \notin {"spawned", "registered", "upgrading"}
     \/ tunnel[c] = "waiting" /\ c \in dropped
  /\ tunnel' = [tunnel EXCEPT ![c] = "ended"]
  /\ dropped' = dropped \ {c}
  /\ UNCHANGED <<loopVars, limitVars, stage, cancelled, requestVars, registry, policy>>

-----------------------------------------------------------------------------
(* Shutdown. *)

SignalShutdown ==
  /\ shutdown' = TRUE
  /\ UNCHANGED <<loop, limitVars, stage, cancelled, requestVars, tunnelVars, policy>>

LeaveLoop ==
  /\ loop = "accepting"
  /\ shutdown
  /\ loop' = "left"
  /\ UNCHANGED <<shutdown, limitVars, stage, cancelled, requestVars, tunnelVars, policy>>

(* TunnelRegistry::abort_all *)
AbortTunnels ==
  /\ loop = "left"
  /\ loop' = "tunnelsAborted"
  /\ dropped' = dropped \cup (registry \cap LiveTunnels)
  /\ registry' = {}
  /\ UNCHANGED <<shutdown, limitVars, stage, cancelled, requestVars, tunnel, policy>>

(* Faulty: the connections are joined but not aborted. *)
AbortNoConnections ==
  /\ loop = "tunnelsAborted"
  /\ loop' = "joining"
  /\ UNCHANGED <<shutdown, limitVars, stage, cancelled, requestVars, tunnelVars, policy>>

AbortConnections ==
  /\ loop = "tunnelsAborted"
  /\ loop' = "joining"
  /\ cancelled' = Alive
  /\ UNCHANGED <<shutdown, limitVars, stage, requestVars, tunnelVars, policy>>

(* Faulty: Stopped is published without waiting for the aborted tasks.     *)
StopWithoutJoining ==
  /\ loop = "joining"
  /\ loop' = "stopped"
  /\ UNCHANGED <<shutdown, limitVars, stage, cancelled, requestVars, tunnelVars, policy>>

(* join_next returns None; Stopped is published.                           *)
PublishStopped ==
  /\ loop = "joining"
  /\ Alive = {}
  /\ loop' = "stopped"
  /\ UNCHANGED <<shutdown, limitVars, stage, cancelled, requestVars, tunnelVars, policy>>

(* The task returns, the socket and its backlog are dropped.               *)
DropSocket ==
  /\ loop = "stopped"
  /\ loop' = "closed"
  /\ stage' = [c \in Client |-> "away"]
  /\ UNCHANGED <<shutdown, limitVars, cancelled, requestVars, tunnelVars, policy>>

-----------------------------------------------------------------------------
(* External: the stored policy changes, becomes unreadable or readable.    *)
ChangePolicy(v) ==
  /\ v # policy
  /\ policy' = v
  /\ since' = [c \in Client |-> IF since[c] = {} THEN {} ELSE since[c] \cup {v}]
  /\ UNCHANGED <<loopVars, limitVars, stage, cancelled, request, verdict, tunnelVars>>

LoopStep ==
  LeaveLoop \/ AbortTunnels \/ AbortConnections \/ PublishStopped \/ DropSocket

(* What a task that is being polled does before its next await. *)
PollStep(c) ==
  SpawnTunnel(c) \/ RegisterTunnel(c) \/ ParkAnswer(c) \/ HandOver(c) \/ EndAfterHandOver(c)

ConnectionStep(c) ==
  \/ Connect(c) \/ Accept(c) \/ RefuseOverLimit(c)
  \/ \E r \in Request : Arrive(c, r)
  \/ Hangup(c) \/ LoadSnapshot(c) \/ Decide(c) \/ Answer(c) \/ KeepAlive(c)
  \/ UpstreamReached(c) \/ PollStep(c)
  \/ AbortTakesEffect(c) \/ TunnelEnds(c)

Next ==
  \/ LoopStep
  \/ SignalShutdown
  \/ \E c \in Client : ConnectionStep(c)
  \/ \E v \in Verdict : ChangePolicy(v)

Safety == Init /\ [][Next]_vars

(* The runtime polls the listener's task, finishes a poll it has begun,    *)
(* drops an aborted task and runs the blocking pool.  Clients and targets  *)
(* owe nothing.                                                            *)
Spec ==
  /\ Safety
  /\ WF_vars(LoopStep)
  /\ \A c \in Client : /\ WF_vars(PollStep(c))
                       /\ WF_vars(AbortTakesEffect(c))

-----------------------------------------------------------------------------
(* Correctness. *)

TypeOK ==
  /\ loop \in {"accepting", "left", "tunnelsAborted", "joining", "stopped", "closed"}
  /\ shutdown \in BOOLEAN
  /\ permits \in 0..MaxConnections
  /\ active \in Nat
  /\ stage \in [Client -> {"away", "backlog"} \cup Suspended \cup MidPoll]
  /\ cancelled \in SUBSET Client
  /\ request \in [Client -> Request \cup {NoRequest}]
  /\ verdict \in [Client -> Verdict \cup {"none"}]
  /\ since \in [Client -> SUBSET Verdict]
  /\ tunnel \in [Client -> {"none", "waiting", "copying", "ended"}]
  /\ registry \in SUBSET Client
  /\ dropped \in SUBSET Client
  /\ policy \in Verdict

(* No request reaches its target unless a policy allowed it that was in    *)
(* force at some moment since the request arrived, also on a connection    *)
(* kept alive across a policy change: not when the policy is unavailable,  *)
(* never the listener itself.                                              *)
OnlyAllowedReachTarget ==
  \A c \in Client :
    /\ verdict[c] # "none" => verdict[c] \in since[c]
    /\ stage[c] \in {"connecting", "forwarding", "upgrading"} \cup MidPoll =>
         verdict[c] = "allow" /\ request[c].target = "outside"

(* Permits are neither lost nor returned twice, on any way a connection    *)
(* may end.  While the listener accepts, the reported number of active     *)
(* connections is that of its connection tasks; the abort of the shutdown  *)
(* leaves it too high, never too low.                                      *)
ActiveIsExact ==
  /\ permits + Cardinality(Alive) = MaxConnections
  /\ active >= Cardinality(Alive)
  /\ loop = "accepting" => active = Cardinality(Alive)

(* Once Stopped is published no connection task is left.                   *)
StoppedLeavesNoConnection == loop \in {"stopped", "closed"} => Alive = {}

(* While the listener accepts, a tunnel can be aborted through the         *)
(* registry from the moment its connection has registered it.              *)
TunnelsReachable ==
  loop = "accepting" =>
    \A c \in LiveTunnels : c \in registry \/ stage[c] = "spawned"

(* A shutdown ends the listener, whatever its clients and targets do.      *)
ShutdownEnds == shutdown ~> loop = "closed"
=============================================================================
