------------------------- MODULE MCListenerConfig -------------------------
(***************************************************************************)
(* Bounded instances of ListenerConfig, and what the code's comments say   *)
(* that the runs refute.                                                   *)
(***************************************************************************)
EXTENDS ListenerConfig, TLC

Symmetry ==
  Permutations(Listener) \cup Permutations(Port) \cup Permutations(Profile) \cup Permutations(Actor)

(* The new task awaits the old one so that "a fast off-on cycle" works     *)
(* (proxy/mod.rs, start_listener): a listener that stays enabled while     *)
(* nobody stops it is not left stopped.                                    *)
OffOnServes ==
  \A l \in Listener :
    <>[](row[l].enabled /\ \A a \in Actor : at[a] = "idle")
      => []<>(status[l] \in {"Running", "Failed"})

(* "The last profile cannot be deleted: the system must not be left        *)
(* without any policy" (application/policy.rs, delete_profile).            *)
SomeProfile == profiles # {}

(* The runtime is not "left with a listener that is no longer in the       *)
(* store" (ListenerService::delete).                                       *)
NoListenerWithoutRow == \A l \in Listener : Serves(l) => Exists(l)
=============================================================================
