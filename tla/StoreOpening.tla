--------------------------- MODULE StoreOpening ---------------------------
(***************************************************************************)
(* The local store from a process's point of view: how a starting          *)
(* application finds the state directory, opens the database, migrates its *)
(* schema and creates the first profile (runtime_info.rs, fs_state_dir.rs, *)
(* store.rs, migrations.rs, AppState::initialize).                         *)
(*                                                                         *)
(* Nothing keeps a user from starting the application twice, so processes  *)
(* share the database.  A process may be killed at any step: SQLite rolls  *)
(* an open transaction back.  Storage may fail while it is being opened.   *)
(***************************************************************************)
EXTENDS Naturals, FiniteSets

CONSTANTS Process,
          Latest,     \* version of the last migration
          NoProcess,
          Budget      \* bounds: [starts, faults, edits, inputs]

ASSUME LatestAssumption == Latest \in Nat \ {0}
ASSUME ProcessAssumption == Process # {}
ASSUME NoProcessAssumption == NoProcess \notin Process

VARIABLES
  dir,                 \* what is at the path of the state directory
  version, tables,     \* user_version; the migrations whose tables exist
  profiles,            \* names of the profiles
  writer,              \* who holds SQLite's write lock
  phase,               \* where the start of a process has got
  found,               \* the version a process goes on from
  info, store,         \* the runtime info and the store it got
  doomed,              \* the profile it is about to delete
  seeds, emptied,      \* history: see SeededOnce; no profile was left
  harmed, overlapped,  \* history of a start: a failure; another process running
  left                 \* what is left of the bounds

disk == <<dir, version, tables, profiles, writer>>
process == <<phase, found, info, store, doomed>>
past == <<seeds, emptied, harmed, overlapped>>
storeVars == <<disk, process, past, left>>

Name == {"default", "mine"}
Opening == {"info", "open", "version", "begin", "commit", "count", "seed"}
Running(p) == phase[p] # "down"

StoreInit ==
  /\ dir \in {"missing", "directory", "file"}
  /\ version = 0 /\ tables = {} /\ profiles = {}
  /\ writer = NoProcess
  /\ phase = [p \in Process |-> "down"]
  /\ found = [p \in Process |-> 0]
  /\ info = [p \in Process |-> "none"]
  /\ store = [p \in Process |-> "none"]
  /\ doomed = [p \in Process |-> "none"]
  /\ seeds = 0 /\ emptied = FALSE
  /\ harmed = [p \in Process |-> FALSE]
  /\ overlapped = [p \in Process |-> FALSE]
  /\ left \in Budget

Spend(what) == left[what] > 0 /\ left' = [left EXCEPT ![what] = @ - 1]
GoTo(p, step) == phase' = [phase EXCEPT ![p] = step]

-----------------------------------------------------------------------------
(* Start, and the state directory. *)

Start(p) ==
  /\ phase[p] = "down"
  /\ Spend("starts")
  /\ GoTo(p, "info")
  /\ harmed' = [harmed EXCEPT ![p] = FALSE]
  /\ overlapped' = [q \in Process |->
       IF q = p THEN \E r \in Process \ {p} : Running(r)
                ELSE overlapped[q] \/ phase[q] \in Opening]
  /\ UNCHANGED <<disk, found, info, store, doomed, seeds, emptied>>

(* RuntimeInfoService::initialize: a missing directory is created. *)
EnsureDir(p) ==
  /\ phase[p] = "info"
  /\ dir' = IF dir = "missing" THEN "directory" ELSE dir
  /\ info' = [info EXCEPT ![p] = IF dir = "file" THEN "error" ELSE "ok"]
  /\ GoTo(p, "open")
  /\ UNCHANGED <<version, tables, profiles, writer, found, store, doomed, past, left>>

(* The store answers every command with the error it started with.         *)
Unavailable(p) ==
  /\ store' = [store EXCEPT ![p] = "unavailable"]
  /\ GoTo(p, "window")

(* SqliteStore::open, open_path, configure_connection. *)
OpenDatabase(p) ==
  /\ phase[p] = "open"
  /\ IF dir = "file"
       THEN Unavailable(p) /\ harmed' = [harmed EXCEPT ![p] = TRUE]
       ELSE GoTo(p, "version") /\ UNCHANGED <<store, harmed>>
  /\ UNCHANGED <<disk, found, info, doomed, seeds, emptied, overlapped, left>>

-----------------------------------------------------------------------------
(* migrations::apply *)

(* Faulty: a database with any schema is taken for a current one. *)
ReadVersionOfNew(p) ==
  /\ phase[p] = "version"
  /\ found' = [found EXCEPT ![p] = version]
  /\ GoTo(p, IF version = 0 THEN "begin" ELSE "count")
  /\ UNCHANGED <<disk, info, store, doomed, past, left>>

ReadVersion(p) ==
  /\ phase[p] = "version"
  /\ found' = [found EXCEPT ![p] = version]
  /\ GoTo(p, IF version < Latest THEN "begin" ELSE "count")
  /\ UNCHANGED <<disk, info, store, doomed, past, left>>

(* The next migration takes the write lock and creates its tables, which   *)
(* fails when another process has created them since.                      *)
BeginMigration(p) ==
  /\ phase[p] = "begin" /\ writer = NoProcess
  /\ IF found[p] + 1 \in tables
       THEN Unavailable(p) /\ UNCHANGED writer
       ELSE GoTo(p, "commit") /\ writer' = p /\ UNCHANGED store
  /\ UNCHANGED <<dir, version, tables, profiles, found, info, doomed, past, left>>

(* Faulty: the version is not stored with the tables. *)
CommitWithoutVersion(p) ==
  /\ phase[p] = "commit"
  /\ tables' = tables \cup {found[p] + 1}
  /\ UNCHANGED version
  /\ writer' = NoProcess
  /\ found' = [found EXCEPT ![p] = @ + 1]
  /\ GoTo(p, IF found'[p] < Latest THEN "begin" ELSE "count")
  /\ UNCHANGED <<dir, profiles, info, store, doomed, past, left>>

CommitMigration(p) ==
  /\ phase[p] = "commit"
  /\ tables' = tables \cup {found[p] + 1}
  /\ version' = found[p] + 1
  /\ writer' = NoProcess
  /\ found' = [found EXCEPT ![p] = @ + 1]
  /\ GoTo(p, IF found'[p] < Latest THEN "begin" ELSE "count")
  /\ UNCHANGED <<dir, profiles, info, store, doomed, past, left>>

-----------------------------------------------------------------------------
(* seed_default_profile *)

Available(p) ==
  /\ store' = [store EXCEPT ![p] = "ok"]
  /\ GoTo(p, "window")

(* Faulty: the profile is looked up by its name. *)
CountDefaultProfiles(p) ==
  /\ phase[p] = "count"
  /\ IF "default" \in profiles THEN Available(p) ELSE GoTo(p, "seed") /\ UNCHANGED store
  /\ UNCHANGED <<disk, found, info, doomed, past, left>>

(* Faulty: the profile is created at every start. *)
CountNothing(p) ==
  /\ phase[p] = "count"
  /\ GoTo(p, "seed") /\ UNCHANGED store
  /\ UNCHANGED <<disk, found, info, doomed, past, left>>

CountProfiles(p) ==
  /\ phase[p] = "count"
  /\ IF profiles # {} THEN Available(p) ELSE GoTo(p, "seed") /\ UNCHANGED store
  /\ UNCHANGED <<disk, found, info, doomed, past, left>>

(* A statement of its own: names are unique, another process may have been *)
(* faster.                                                                 *)
Seed(p) ==
  /\ phase[p] = "seed" /\ writer = NoProcess
  /\ IF "default" \in profiles
       THEN Unavailable(p) /\ UNCHANGED <<profiles, seeds>>
       ELSE /\ Available(p)
            /\ profiles' = profiles \cup {"default"}
            /\ seeds' = IF overlapped[p] /\ seeds > 0 THEN seeds ELSE seeds + 1
  /\ UNCHANGED <<dir, version, tables, writer, found, info, doomed, emptied, harmed, overlapped, left>>

-----------------------------------------------------------------------------
(* What may go wrong. *)

(* Another process holds the write lock for longer than BUSY_TIMEOUT.      *)
BusyTimeout(p) ==
  /\ phase[p] \in {"open", "begin", "seed"} /\ writer # NoProcess
  /\ Unavailable(p)
  /\ UNCHANGED <<disk, found, info, doomed, past, left>>

(* Storage fails: the directory cannot be made, a statement returns an     *)
(* error; an open transaction is dropped and rolled back.                  *)
StorageFails(p) ==
  /\ phase[p] \in Opening
  /\ Spend("faults")
  /\ harmed' = [harmed EXCEPT ![p] = TRUE]
  /\ writer' = IF writer = p THEN NoProcess ELSE writer
  /\ IF phase[p] = "info"
       THEN info' = [info EXCEPT ![p] = "error"] /\ GoTo(p, "open") /\ UNCHANGED store
       ELSE UNCHANGED info /\ Unavailable(p)
  /\ UNCHANGED <<dir, version, tables, profiles, found, doomed, seeds, emptied, overlapped>>

(* The process ends, by itself or killed. *)
Gone(p) ==
  /\ phase' = [phase EXCEPT ![p] = "down"]
  /\ found' = [found EXCEPT ![p] = 0]
  /\ info' = [info EXCEPT ![p] = "none"]
  /\ store' = [store EXCEPT ![p] = "none"]
  /\ doomed' = [doomed EXCEPT ![p] = "none"]
  /\ writer' = IF writer = p THEN NoProcess ELSE writer
  /\ UNCHANGED <<dir, version, tables, profiles, past>>

Open(p) ==
  \/ EnsureDir(p) \/ OpenDatabase(p) \/ ReadVersion(p)
  \/ BeginMigration(p) \/ CommitMigration(p)
  \/ CountProfiles(p) \/ Seed(p) \/ BusyTimeout(p) \/ StorageFails(p)

-----------------------------------------------------------------------------
(* Profile commands of a running process (PolicyStore has the others).     *)

Usable(p) == phase[p] = "up" /\ store[p] = "ok"

(* create_profile, and rename_profile to a name that is free.              *)
NameProfile(p) ==
  /\ Usable(p) /\ writer = NoProcess
  /\ Spend("edits")
  /\ \E n \in Name \ profiles, old \in SUBSET profiles :
       /\ Cardinality(old) <= 1
       /\ profiles' = (profiles \ old) \cup {n}
  /\ UNCHANGED <<dir, version, tables, writer, process, past>>

(* delete_profile: the last one is kept, but counting and deleting are two *)
(* accesses.                                                               *)
DeleteChecks(p) ==
  /\ Usable(p) /\ doomed[p] = "none"
  /\ Spend("edits")
  /\ Cardinality(profiles) > 1
  /\ \E n \in profiles : doomed' = [doomed EXCEPT ![p] = n]
  /\ UNCHANGED <<disk, phase, found, info, store, past>>

DeleteProfile(p) ==
  /\ Usable(p) /\ doomed[p] # "none" /\ writer = NoProcess
  /\ profiles' = profiles \ {doomed[p]}
  /\ emptied' = (emptied \/ profiles' = {})
  /\ doomed' = [doomed EXCEPT ![p] = "none"]
  /\ UNCHANGED <<dir, version, tables, writer, phase, found, info, store,
                 seeds, harmed, overlapped, left>>

Edit(p) == NameProfile(p) \/ DeleteChecks(p) \/ DeleteProfile(p)

-----------------------------------------------------------------------------
StoreTypeOK ==
  /\ dir \in {"missing", "directory", "file"}
  /\ version \in 0..Latest /\ tables \subseteq 1..Latest
  /\ profiles \subseteq Name
  /\ writer \in Process \cup {NoProcess}
  /\ phase \in [Process -> {"down"} \cup Opening \cup {"window", "autostart", "tray", "emit", "up"}]
  /\ found \in [Process -> 0..Latest]
  /\ info \in [Process -> {"none", "ok", "error"}]
  /\ store \in [Process -> {"none", "ok", "unavailable"}]
  /\ \A p \in Process : (writer = p) <=> (phase[p] = "commit")
  /\ \A p \in Process : (store[p] = "none") <=> (phase[p] \in {"down"} \cup Opening)

(* Wherever processes are killed and however their migrations interleave,  *)
(* the version says which tables there are, and whoever has a store has    *)
(* all tables and a profile, unless two deletions took the last ones.      *)
StoreIsWhole ==
  /\ tables = 1..version
  /\ \A p \in Process : store[p] = "ok" => version = Latest /\ (profiles # {} \/ emptied)

(* A start gets no store only if storage failed or another process was     *)
(* running: a start that is alone never suffers from how an earlier one    *)
(* ended.                                                                  *)
UnavailableForAReason ==
  \A p \in Process : store[p] = "unavailable" => harmed[p] \/ overlapped[p]

(* Processes that start together may take the store from each other, but   *)
(* never all of them: if storage did not fail, somebody gets it.           *)
SomebodyGetsTheStore ==
  (\A p \in Process : store[p] = "unavailable") => \E p \in Process : harmed[p]

(* seed_default_profile creates its profile once: what the user renamed or *)
(* deleted does not come back, unless no profile was left, or a start that *)
(* found none waits until another one has created it and it was renamed    *)
(* (seeds counts the first profile and those of starts that were alone).   *)
SeededOnce == seeds <= 1 \/ emptied
=============================================================================
