-------------------------- MODULE ListenerStatus --------------------------
(***************************************************************************)
(* What the proxy runtime promises to its callers -- the listener service, *)
(* the tray and the views -- without any of its tasks: for each listener   *)
(* the state that ProxyRuntime::health reports, the port of its present    *)
(* run, and whether that run has been asked to stop.                       *)
(*                                                                         *)
(*   - a listener becomes Running only from Starting, and only on a port   *)
(*     that no other running listener was given;                           *)
(*   - it is started anew only after it was reported Stopped or Failed;    *)
(*   - it stops only when asked to, and then it does;                      *)
(*   - a start never hangs: Starting ends in Running or Failed.            *)
(*                                                                         *)
(* ProxyRuntime implements this specification (Abs in that module);        *)
(* ListenerConfig builds on it.                                            *)
(***************************************************************************)
CONSTANTS Listener,   \* identities of configured listeners
          Port,       \* the loopback ports they may be given
          NoPort      \* the port of a listener that is not active

VARIABLES status,     \* what health() reports; "Unknown": no handle
          given,      \* the port of the present run
          asked       \* the present run was signalled to stop

vars == <<status, given, asked>>

Status == {"Unknown", "Starting", "Running", "Stopped", "Failed"}

TypeOK ==
  /\ status \in [Listener -> Status]
  /\ given \in [Listener -> Port \cup {NoPort}]
  /\ asked \in [Listener -> BOOLEAN]

Init ==
  /\ status = [l \in Listener |-> "Unknown"]
  /\ given = [l \in Listener |-> NoPort]
  /\ asked = [l \in Listener |-> FALSE]

(* is_active *)
Active(l) == status[l] \in {"Starting", "Running"}

Begin(l, p) ==
  /\ ~Active(l)
  /\ status' = [status EXCEPT ![l] = "Starting"]
  /\ given' = [given EXCEPT ![l] = p]
  /\ UNCHANGED asked

(* A request to stop concerns the present run of each listener in S only.  *)
AskStop(S) ==
  /\ asked' = [l \in Listener |-> asked[l] \/ (l \in S /\ Active(l))]
  /\ UNCHANGED <<status, given>>

Serve(l) ==
  /\ status[l] = "Starting"
  /\ \A other \in Listener : status[other] = "Running" => given[other] # given[l]
  /\ status' = [status EXCEPT ![l] = "Running"]
  /\ UNCHANGED <<given, asked>>

Refuse(l) ==
  /\ status[l] = "Starting"
  /\ status' = [status EXCEPT ![l] = "Failed"]
  /\ asked' = [asked EXCEPT ![l] = FALSE]
  /\ given' = [given EXCEPT ![l] = NoPort]

Close(l) ==
  /\ status[l] = "Running"
  /\ asked[l]
  /\ status' = [status EXCEPT ![l] = "Stopped"]
  /\ asked' = [asked EXCEPT ![l] = FALSE]
  /\ given' = [given EXCEPT ![l] = NoPort]

Settle(l) == Serve(l) \/ Refuse(l)

Next ==
  \/ \E l \in Listener : (\E p \in Port : Begin(l, p)) \/ AskStop({l}) \/ Settle(l) \/ Close(l)
  \/ AskStop(Listener)

Safety == Init /\ [][Next]_vars

Fairness == \A l \in Listener : WF_vars(Settle(l)) /\ WF_vars(Close(l))

Spec == Safety /\ Fairness
=============================================================================
