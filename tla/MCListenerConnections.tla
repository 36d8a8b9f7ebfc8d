----------------------- MODULE MCListenerConnections -----------------------
(***************************************************************************)
(* Bounded instances of ListenerConnections, and what a comment in the     *)
(* code says that a run refutes.                                           *)
(***************************************************************************)
EXTENDS ListenerConnections

Copying == {c \in Client : tunnel[c] = "copying"}

(* "The listener owns everything it spawned": tunnels end with it          *)
(* (server.rs, before tunnels.abort_all).  When Stopped is published,      *)
(* every tunnel that still carries data has at least been told to abort.   *)
StoppedEndsTunnels == loop \in {"stopped", "closed"} => Copying \subseteq dropped
=============================================================================
