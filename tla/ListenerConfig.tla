-------------------------- MODULE ListenerConfig --------------------------
(***************************************************************************)
(* The stored configuration of listeners and the commands that keep the    *)
(* proxy runtime in step with it: ListenerService (application/            *)
(* listeners.rs) over its SQLite repository (sqlite/listeners.rs),         *)
(* PolicyService::delete_profile, whose cascade removes listeners, and     *)
(* start_enabled_listeners of the shell (src-tauri/state.rs).              *)
(*                                                                         *)
(* Commands run in a pool of blocking threads, the tray's own ones beside  *)
(* them.  The connection's mutex makes one access to the store atomic, not *)
(* a command: each access and each call of the runtime is a step, with the *)
(* caller's locals in arg and read.  The runtime is the one promised by    *)
(* ListenerStatus.                                                         *)
(***************************************************************************)
EXTENDS Naturals

CONSTANTS Listener, NoListener, Port, NoPort, Profile, NoProfile,
          Actor,         \* threads that run commands
          Operation,     \* the commands they are given
          MaxFailures    \* bound: accesses to the store that fail

ASSUME NoneAssumption ==
  NoListener \notin Listener /\ NoPort \notin Port /\ NoProfile \notin Profile
ASSUME MaxFailuresAssumption == MaxFailures \in Nat
(* The store was opened, and seed_default_profile has left it a profile.   *)
ASSUME ProfileAssumption == Profile # {}

VARIABLES
  status, given, asked,   \* the runtime, see ListenerStatus
  serving,                \* the profile of each listener's present run
  row,                    \* table listeners
  profiles,               \* table profiles
  used,                   \* listener ids ever generated
  at,                     \* the next step of each actor's command
  arg,                    \* the arguments of that command
  read,                   \* the rows it holds
  failures,
  crossed,                \* history: a start crossed a change of the row
  halfway                 \* history: marked as disabled, then left to run

runtimeVars == <<status, given, asked, serving>>
storeVars == <<row, profiles>>
history == <<crossed, halfway>>
vars == <<runtimeVars, storeVars, used, at, arg, read, failures, history>>

Runtime == INSTANCE ListenerStatus

Row == [port : Port, profile : Profile, enabled : BOOLEAN]
NoRow == [port |-> NoPort, profile |-> NoProfile, enabled |-> FALSE]
Exists(l) == row[l] # NoRow
NoRows == [l \in Listener |-> NoRow]

NoArg == [listener |-> NoListener, port |-> NoPort, profile |-> NoProfile, enabled |-> FALSE]

(* The steps that access the store. *)
StoreStep == {"draft create", "insert", "find update", "draft update", "write",
              "mark", "reread", "find delete", "remove", "list",
              "require profile", "count", "drop"}
RuntimeCall == {"check stopped", "stop", "stop before remove", "start"}

Init ==
  /\ Runtime!Init
  /\ serving = [l \in Listener |-> NoProfile]
  /\ row = NoRows
  /\ profiles = Profile
  /\ used = {}
  /\ at = [a \in Actor |-> "idle"]
  /\ arg = [a \in Actor |-> NoArg]
  /\ read = [a \in Actor |-> NoRows]
  /\ failures = 0
  /\ crossed = {}
  /\ halfway = {}

-----------------------------------------------------------------------------
(* Control of a command. *)

Call(a, op, first, x) ==
  /\ op \in Operation
  /\ at[a] = "idle"
  /\ at' = [at EXCEPT ![a] = first]
  /\ arg' = [arg EXCEPT ![a] = x]
  /\ UNCHANGED <<runtimeVars, storeVars, read, failures>>

Proceed(a, to) ==
  /\ at' = [at EXCEPT ![a] = to]
  /\ UNCHANGED <<arg, used, failures>>

Return(a) ==
  /\ at' = [at EXCEPT ![a] = "idle"]
  /\ arg' = [arg EXCEPT ![a] = NoArg]
  /\ read' = [read EXCEPT ![a] = NoRows]
  /\ UNCHANGED used

ReturnFrom(a, from) == at[a] = from /\ Return(a) /\ UNCHANGED failures

(* A step that only looks: the command goes on, or ends with an error.     *)
Check(a, from, ok, to) ==
  /\ at[a] = from
  /\ IF ok THEN Proceed(a, to) /\ UNCHANGED read ELSE ReturnFrom(a, from)
  /\ UNCHANGED <<runtimeVars, storeVars>>

-----------------------------------------------------------------------------
(* create and update *)

(* Faulty: the port of a listener is not unique. *)
StorableOnAnyPort(l, p, f) == f \in profiles

(* UNIQUE (port) and the reference to the profile. *)
Storable(l, p, f) ==
  /\ f \in profiles
  /\ \A k \in Listener \ {l} : row[k].port # p

CallCreate(a) ==
  \E l \in Listener \ used, p \in Port, f \in Profile :
    /\ Call(a, "create", "draft create",
            [NoArg EXCEPT !.listener = l, !.port = p, !.profile = f])
    /\ used' = used \cup {l}

CallUpdate(a) ==
  \E l \in used, p \in Port, f \in Profile :
    /\ Call(a, "update", "find update",
            [NoArg EXCEPT !.listener = l, !.port = p, !.profile = f])
    /\ UNCHANGED used

CreateDraft(a) == Check(a, "draft create", arg[a].profile \in profiles, "insert")

CreateInsert(a) ==
  LET x == arg[a] IN
    /\ ReturnFrom(a, "insert")
    /\ row' = IF Storable(x.listener, x.port, x.profile)
                THEN [row EXCEPT ![x.listener] =
                        [port |-> x.port, profile |-> x.profile, enabled |-> FALSE]]
                ELSE row
    /\ UNCHANGED <<runtimeVars, profiles>>

UpdateFind(a) == Check(a, "find update", Exists(arg[a].listener), "check stopped")

(* Faulty: a listener on its way up may be reconfigured. *)
UpdateUnlessRunning(a) ==
  Check(a, "check stopped", status[arg[a].listener] # "Running", "draft update")

UpdateCheckStopped(a) ==
  Check(a, "check stopped", ~Runtime!Active(arg[a].listener), "draft update")

UpdateDraft(a) == Check(a, "draft update", arg[a].profile \in profiles, "write")

UpdateWrite(a) ==
  LET x == arg[a] IN
    /\ ReturnFrom(a, "write")
    /\ row' = IF Exists(x.listener) /\ Storable(x.listener, x.port, x.profile)
                THEN [row EXCEPT ![x.listener].port = x.port,
                                 ![x.listener].profile = x.profile]
                ELSE row
    /\ UNCHANGED <<runtimeVars, profiles>>

-----------------------------------------------------------------------------
(* set_enabled: the row is marked, read back, and the runtime is told what *)
(* the caller asked for.                                                   *)

CallSetEnabled(a) ==
  \E l \in used, on \in BOOLEAN :
    /\ Call(a, "set_enabled", "mark", [NoArg EXCEPT !.listener = l, !.enabled = on])
    /\ UNCHANGED used

Mark(a) ==
  LET x == arg[a] IN
    /\ at[a] = "mark"
    /\ IF Exists(x.listener)
         THEN /\ row' = [row EXCEPT ![x.listener].enabled = x.enabled]
              /\ Proceed(a, "reread")
              /\ UNCHANGED read
         ELSE ReturnFrom(a, "mark") /\ UNCHANGED row
    /\ UNCHANGED <<runtimeVars, profiles>>

Reread(a) ==
  LET x == arg[a] IN
    /\ at[a] = "reread"
    /\ IF Exists(x.listener)
         THEN /\ Proceed(a, IF x.enabled THEN "start" ELSE "stop")
              /\ read' = [read EXCEPT ![a][x.listener] = row[x.listener]]
         ELSE ReturnFrom(a, "reread")
    /\ UNCHANGED <<runtimeVars, storeVars>>

(* Faulty: a disabled listener is left to run until the next restart.      *)
StopLater(a) == ReturnFrom(a, "stop") /\ UNCHANGED <<runtimeVars, storeVars>>

Stop(a) ==
  /\ ReturnFrom(a, "stop")
  /\ Runtime!AskStop({arg[a].listener})
  /\ UNCHANGED <<serving, storeVars>>

(* request_start with a row the command holds; ignored while active.       *)
RequestStart(a, l) ==
  /\ at[a] = "start"
  /\ read[a][l] # NoRow
  /\ IF Runtime!Active(l)
       THEN UNCHANGED runtimeVars
       ELSE /\ Runtime!Begin(l, read[a][l].port)
            /\ serving' = [serving EXCEPT ![l] = read[a][l].profile]
  /\ read' = [read EXCEPT ![a][l] = NoRow]
  /\ UNCHANGED <<storeVars, used, at, arg, failures>>

StartsRequested(a) ==
  /\ read[a] = NoRows
  /\ ReturnFrom(a, "start")
  /\ UNCHANGED <<runtimeVars, storeVars>>

-----------------------------------------------------------------------------
(* delete *)

CallDelete(a) ==
  \E l \in used :
    Call(a, "delete", "find delete", [NoArg EXCEPT !.listener = l]) /\ UNCHANGED used

DeleteFind(a) == Check(a, "find delete", Exists(arg[a].listener), "stop before remove")

(* Faulty: the configuration goes, the listener stays.                     *)
DeleteWithoutStop(a) == Check(a, "stop before remove", TRUE, "remove")

DeleteStop(a) ==
  /\ at[a] = "stop before remove"
  /\ Runtime!AskStop({arg[a].listener})
  /\ Proceed(a, "remove")
  /\ UNCHANGED <<serving, storeVars, read>>

DeleteRemove(a) ==
  /\ ReturnFrom(a, "remove")
  /\ row' = [row EXCEPT ![arg[a].listener] = NoRow]
  /\ UNCHANGED <<runtimeVars, profiles>>

-----------------------------------------------------------------------------
(* The tray's start and stop of everything. *)

CallStartEnabled(a) == Call(a, "start_enabled", "list", NoArg) /\ UNCHANGED used

EnabledRows == [l \in Listener |-> IF row[l].enabled THEN row[l] ELSE NoRow]

ListEnabled(a) ==
  /\ at[a] = "list"
  /\ read' = [read EXCEPT ![a] = EnabledRows]
  /\ Proceed(a, "start")
  /\ UNCHANGED <<runtimeVars, storeVars>>

(* One signal to all; the rows stay enabled. *)
StopAll(a) ==
  /\ "stop_all" \in Operation
  /\ at[a] = "idle"
  /\ Runtime!AskStop(Listener)
  /\ UNCHANGED <<serving, storeVars, used, at, arg, read, failures>>

-----------------------------------------------------------------------------
(* delete_profile *)

CallDeleteProfile(a) ==
  \E f \in Profile :
    /\ Call(a, "delete_profile", "require profile", [NoArg EXCEPT !.profile = f])
    /\ UNCHANGED used

RequireProfile(a) == Check(a, "require profile", arg[a].profile \in profiles, "count")

(* More than one profile. *)
CountProfiles(a) == Check(a, "count", \E f, g \in profiles : f # g, "drop")

(* ON DELETE CASCADE removes the profile's listeners; the runtime is not   *)
(* told.                                                                   *)
DropProfile(a) ==
  LET f == arg[a].profile IN
    /\ ReturnFrom(a, "drop")
    /\ profiles' = profiles \ {f}
    /\ row' = [l \in Listener |-> IF row[l].profile = f THEN NoRow ELSE row[l]]
    /\ UNCHANGED runtimeVars

-----------------------------------------------------------------------------
(* An access to the store fails: the command ends with the error, what it  *)
(* did before stays done.                                                  *)
StoreFails(a) ==
  /\ failures < MaxFailures
  /\ at[a] \in StoreStep
  /\ Return(a)
  /\ failures' = failures + 1
  /\ UNCHANGED <<runtimeVars, storeVars>>

(* The process ends, in the middle of commands perhaps, and is started     *)
(* again: the new runtime knows no listener, and setup starts the enabled  *)
(* ones before it lets commands in.                                        *)
Restart ==
  /\ "restart" \in Operation
  /\ status' = [l \in Listener |-> IF row[l].enabled THEN "Starting" ELSE "Unknown"]
  /\ given' = [l \in Listener |-> EnabledRows[l].port]
  /\ serving' = [l \in Listener |-> EnabledRows[l].profile]
  /\ asked' = [l \in Listener |-> FALSE]
  /\ at' = [a \in Actor |-> "idle"]
  /\ arg' = [a \in Actor |-> NoArg]
  /\ read' = [a \in Actor |-> NoRows]
  /\ crossed' = {}
  /\ halfway' = {}
  /\ UNCHANGED <<storeVars, used, failures>>

-----------------------------------------------------------------------------
(* What two commands did to a listener at once.  The first is going to     *)
(* start it with the row it has read; the second has made sure that it is  *)
(* down, or is about to take it down, and has yet to finish: the edit's    *)
(* check and the removal's stop come before the row changes, the disable's *)
(* stop after it.                                                          *)
Holding(a, l) ==
  \/ at[a] = "start" /\ read[a][l] # NoRow
  \/ at[a] = "reread" /\ arg[a].listener = l /\ arg[a].enabled

Disabling(a, l) ==
  at[a] \in {"reread", "stop"} /\ arg[a].listener = l /\ ~arg[a].enabled

Changing(a, l) ==
  \/ at[a] \in {"draft update", "write", "remove"} /\ arg[a].listener = l
  \/ Disabling(a, l)

Crossing(l) == \E a, b \in Actor : Holding(a, l) /\ Changing(b, l)

(* A disable ends with an error between the mark and the stop. *)
BreaksOff(a, l) == at[a] = "reread" /\ Disabling(a, l) /\ at'[a] = "idle"

(* Either is remembered until the listener is down and in nobody's hands.  *)
Observe ==
  /\ crossed' = {l \in Listener :
       \/ Crossing(l)'
       \/ l \in crossed /\ (Runtime!Active(l) \/ \E a \in Actor : Holding(a, l))'}
  /\ halfway' = {l \in Listener :
       /\ Runtime!Active(l)'
       /\ l \in halfway \/ \E a \in Actor : BreaksOff(a, l)}

(* A command that has been called goes on by itself. *)
CommandStep(a) ==
  \/ CreateDraft(a) \/ CreateInsert(a)
  \/ UpdateFind(a) \/ UpdateCheckStopped(a) \/ UpdateDraft(a) \/ UpdateWrite(a)
  \/ Mark(a) \/ Reread(a) \/ Stop(a)
  \/ DeleteFind(a) \/ DeleteStop(a) \/ DeleteRemove(a)
  \/ ListEnabled(a) \/ (\E l \in Listener : RequestStart(a, l)) \/ StartsRequested(a)
  \/ RequireProfile(a) \/ CountProfiles(a) \/ DropProfile(a)

ActorStep(a) ==
  \/ CallCreate(a) \/ CallUpdate(a) \/ CallSetEnabled(a) \/ CallDelete(a)
  \/ CallStartEnabled(a) \/ StopAll(a) \/ CallDeleteProfile(a)
  \/ CommandStep(a)
  \/ StoreFails(a)

RuntimeStep ==
  /\ \E l \in Listener : Runtime!Settle(l) \/ Runtime!Close(l)
  /\ serving' = [l \in Listener |-> IF Runtime!Active(l)' THEN serving[l] ELSE NoProfile]
  /\ UNCHANGED <<storeVars, used, at, arg, read, failures>>

Next ==
  \/ (RuntimeStep \/ \E a \in Actor : ActorStep(a)) /\ Observe
  \/ Restart

Safety == Init /\ [][Next]_vars

(* A command runs on a thread of its own; the runtime keeps its promises.  *)
Spec ==
  /\ Safety
  /\ \A a \in Actor : WF_vars(CommandStep(a) /\ Observe)
  /\ \A l \in Listener : /\ WF_vars(RuntimeStep /\ Runtime!Settle(l) /\ Observe)
                         /\ WF_vars(RuntimeStep /\ Runtime!Close(l) /\ Observe)

-----------------------------------------------------------------------------
(* Correctness. *)

TypeOK ==
  /\ Runtime!TypeOK
  /\ serving \in [Listener -> Profile \cup {NoProfile}]
  /\ row \in [Listener -> Row \cup {NoRow}]
  /\ profiles \in SUBSET Profile
  /\ used \in SUBSET Listener
  /\ at \in [Actor -> {"idle"} \cup StoreStep \cup RuntimeCall]
  /\ \A a \in Actor : arg[a] = NoArg \/ arg[a].listener \in Listener \/ arg[a].profile \in Profile
  /\ read \in [Actor -> [Listener -> Row \cup {NoRow}]]
  /\ failures \in 0..MaxFailures
  /\ crossed \in SUBSET Listener
  /\ halfway \in SUBSET Listener

(* Rows have distinct ports and existing profiles, whatever commands race. *)
RowsConsistent ==
  /\ TypeOK
  /\ \A l \in Listener : Exists(l) =>
       /\ row[l].profile \in profiles
       /\ \A k \in Listener \ {l} : row[k].port # row[l].port

Serves(l) == Runtime!Active(l) /\ ~asked[l]

(* However many commands run, the runtime serves what the configuration    *)
(* says: a listener that is up and not being stopped has a row with its    *)
(* port and its profile -- or its profile is gone, and then it denies      *)
(* everything, or it was started across an edit, a disable or a removal of *)
(* that very listener.  (request_stop before delete_listener; the rows     *)
(* start_enabled_listeners and set_enabled read; update of a stopped one.) *)
ServesItsRow ==
  \A l \in Listener : Serves(l) =>
    \/ serving[l] \notin profiles
    \/ l \in crossed
    \/ row[l].port = given[l] /\ row[l].profile = serving[l]

(* A listener is up only if it is enabled, or its disable is on its way to *)
(* stop it -- but for the cases above, and for a disable that failed after *)
(* its mark (set_enabled; disabled listeners do not resume with the        *)
(* application).                                                           *)
UpOnlyEnabled ==
  \A l \in Listener : Serves(l) =>
    \/ row[l].enabled
    \/ \E a \in Actor : Disabling(a, l)
    \/ serving[l] \notin profiles
    \/ l \in crossed \cup halfway

(* "A working listener cannot be reconfigured" (application/listeners.rs)  *)
(* is true as long as no start falls between the check and the write: a    *)
(* row changes its port or profile only while the listener is stopped, or  *)
(* was started across that very edit.                                      *)
OnlyCrossingReconfigures ==
  [][\A l \in Listener :
       (/\ Exists(l) /\ Exists(l)'
        /\ <<row[l].port, row[l].profile>> # <<row'[l].port, row'[l].profile>>)
       => ~Runtime!Active(l) \/ l \in crossed]_vars
=============================================================================
