---------------------------- MODULE ShellProofs ----------------------------
(***************************************************************************)
(* Proofs about the start of a process and its shell, for any processes,   *)
(* any number of migrations, settings commands, kills and failures.        *)
(***************************************************************************)
EXTENDS Shell, TLAPS

(***************************************************************************)
(* The store.                                                              *)
(***************************************************************************)

(* What a starting process knows of the schema.                            *)
Migrates(p) ==
  /\ phase[p] = "begin" => found[p] <= version /\ found[p] < Latest
  /\ phase[p] = "commit" => found[p] = version /\ found[p] < Latest
  /\ phase[p] \in {"count", "seed"} => version = Latest
  /\ store[p] = "ok" => version = Latest /\ (profiles # {} \/ emptied)

(* A start that does not overlap another process has the store to itself.  *)
Alone(p) ==
  phase[p] \in Opening /\ ~overlapped[p] =>
    /\ \A q \in Process \ {p} : phase[q] = "down"
    /\ phase[p] = "begin" => found[p] = version
    /\ phase[p] = "seed" => profiles = {}

(* A process that no other one has overtaken: where it is now, it fails    *)
(* only with its storage or for want of the write lock.                    *)
Ahead(p) ==
  /\ store[p] # "unavailable"
  /\ phase[p] = "begin" => found[p] = version
  /\ phase[p] = "seed" => "default" \notin profiles

StoreTyped ==
  /\ StoreTypeOK
  /\ seeds \in Nat /\ emptied \in BOOLEAN
  /\ harmed \in [Process -> BOOLEAN] /\ overlapped \in [Process -> BOOLEAN]

StoreInv ==
  /\ StoreTyped
  /\ tables = 1..version
  /\ \A p \in Process : Migrates(p)
  /\ \A p \in Process : Alone(p)
  /\ UnavailableForAReason
  /\ (\E p \in Process : Ahead(p)) \/ (\E p \in Process : harmed[p])
  /\ seeds > 0 => profiles # {} \/ emptied
  /\ SeededOnce

(***************************************************************************)
(* The shell.                                                              *)
(***************************************************************************)
Past == {"autostart", "tray", "emit", "up"}

Overview == [status : {"none", "starting", "ready", "failed"}, heard : BOOLEAN,
             asked : BOOLEAN, events : Nat]
Screen == [status : {"closed", "loading", "ready", "failed"}, close : Behaviour,
           tray : BOOLEAN, supported : BOOLEAN, autostart : BOOLEAN]
Request == [stage : {"idle", "called", "reading", "building"}, op : {"get", "close", "autostart"},
            arg : {"none", "on", "off"} \cup Behaviour, close : Behaviour, mine : BOOLEAN]

ShellTyped ==
  /\ tray \in [Process -> BOOLEAN]
  /\ window \in [Process -> {"none", "shown", "hidden"}]
  /\ overview \in [Process -> Overview]
  /\ setting \in {"unset", "unknown"} \cup Behaviour
  /\ autostart \in BOOLEAN
  /\ screen \in [Process -> Screen]
  /\ call \in [Process -> [Call -> Request]]
  /\ unsure \in [Process -> BOOLEAN]

(* Which parts of the shell a process has, by how far its setup got.       *)
Shows(p) ==
  /\ window[p] # "none" => phase[p] \in Past
  /\ window[p] = "hidden" => phase[p] = "up" /\ tray[p] /\ store[p] = "ok"
  /\ screen[p].status # "closed" => phase[p] \in Past
  /\ screen[p].status = "ready" => store[p] = "ok"
  /\ \A c \in Call : call[p][c].stage # "idle" =>
       /\ phase[p] \in Past
       /\ call[p][c].mine => screen[p].status # "closed"
       /\ call[p][c].op = "close" => call[p][c].arg \in Behaviour

Reading(p, c) == call[p][c].mine /\ call[p][c].stage = "building"

(* Unless it may be behind, what the screen shows, or is about to be shown, *)
(* is what there is.                                                       *)
Current(p) ==
  /\ \A c \in Call : call[p][c].stage = "building" => store[p] = "ok"
  /\ ~unsure[p] => \A c \in Call : Reading(p, c) => call[p][c].close = CloseBehaviour
  /\ ~unsure[p] /\ screen[p].status = "ready" /\ (\A c \in Call : ~Reading(p, c)) =>
       screen[p].close = CloseBehaviour /\ screen[p].tray = tray[p]

ShellInv ==
  /\ StoreInv
  /\ ShellTyped
  /\ \A p \in Process : Shows(p)
  /\ \A p \in Process : Current(p)

LEMMA StoreInvInitially == StoreInit => StoreInv
<1> SUFFICES ASSUME StoreInit
             PROVE  StoreInv
  OBVIOUS
<1>1. \A p \in Process : /\ phase[p] = "down" /\ store[p] = "none" /\ found[p] = 0
                         /\ harmed[p] = FALSE /\ overlapped[p] = FALSE
  BY DEF StoreInit
<1>2. StoreTyped
  <2>1. 0 \in 0..Latest /\ {} \subseteq 1..Latest
    BY LatestAssumption
  <2>2. \A p \in Process : writer # p
    BY NoProcessAssumption DEF StoreInit
  <2> QED
    BY <1>1, <2>1, <2>2 DEF StoreInit, StoreTyped, StoreTypeOK, Opening
<1>3. tables = 1..version
  BY DEF StoreInit
<1>4. \A p \in Process : Migrates(p) /\ Alone(p) /\ Ahead(p)
  BY <1>1 DEF Migrates, Alone, Ahead, Opening
<1>5. UnavailableForAReason
  BY <1>1 DEF UnavailableForAReason
<1>6. seeds = 0
  BY DEF StoreInit
<1> QED
  BY <1>2, <1>3, <1>4, <1>5, <1>6, ProcessAssumption DEF StoreInv, SeededOnce

(* The steps of a process over the store.                                  *)
StoreStep(p) == Start(p) \/ Open(p) \/ Edit(p) \/ (Running(p) /\ Gone(p))

Phase == {"down"} \cup Opening \cup {"window", "autostart", "tray", "emit", "up"}
Result == {"none", "ok", "unavailable"}

(* What a step makes of the process's phase, its store and the write lock. *)
Move(p, s, t) ==
  /\ s \in Phase /\ t \in Result
  /\ phase' = [phase EXCEPT ![p] = s] /\ store' = [store EXCEPT ![p] = t]
  /\ t = "none" <=> s \in {"down"} \cup Opening
  /\ writer' = IF s = "commit" THEN p ELSE IF writer = p THEN NoProcess ELSE writer
  /\ s = "commit" => writer \in {p, NoProcess}

(* A move of one process leaves the others where they were.                *)
LEMMA Moved ==
  ASSUME StoreTyped, NEW p \in Process, NEW s, NEW t, Move(p, s, t)
  PROVE  /\ phase' \in [Process -> Phase] /\ store' \in [Process -> Result]
         /\ writer' \in Process \cup {NoProcess}
         /\ \A q \in Process : (writer' = q) <=> (phase'[q] = "commit")
         /\ \A q \in Process : (store'[q] = "none") <=> (phase'[q] \in {"down"} \cup Opening)
         /\ \A q \in Process \ {p} : phase'[q] = phase[q] /\ store'[q] = store[q]
         /\ phase'[p] = s /\ store'[p] = t
<1>1. /\ phase \in [Process -> Phase] /\ store \in [Process -> Result]
      /\ writer \in Process \cup {NoProcess}
      /\ \A q \in Process : (writer = q) <=> (phase[q] = "commit")
      /\ \A q \in Process : (store[q] = "none") <=> (phase[q] \in {"down"} \cup Opening)
  BY DEF StoreTyped, StoreTypeOK, Phase, Result
<1>2. \A q \in Process : phase'[q] = IF q = p THEN s ELSE phase[q]
  BY <1>1 DEF Move
<1>3. \A q \in Process : store'[q] = IF q = p THEN t ELSE store[q]
  BY <1>1 DEF Move
<1>4. \A q \in Process : (writer' = q) <=> (phase'[q] = "commit")
  BY <1>1, <1>2, NoProcessAssumption DEF Move
<1>5. \A q \in Process : (store'[q] = "none") <=> (phase'[q] \in {"down"} \cup Opening)
  BY <1>1, <1>2, <1>3 DEF Move
<1> QED
  BY <1>1, <1>2, <1>3, <1>4, <1>5 DEF Move

LEMMA TypedAfterMove ==
  ASSUME StoreTyped, NEW p \in Process, NEW s, NEW t, Move(p, s, t),
         dir' \in {"missing", "directory", "file"},
         version' \in 0..Latest, tables' \subseteq 1..Latest, profiles' \subseteq Name,
         found' \in [Process -> 0..Latest], info' \in [Process -> {"none", "ok", "error"}],
         seeds' \in Nat, emptied' \in BOOLEAN,
         harmed' \in [Process -> BOOLEAN], overlapped' \in [Process -> BOOLEAN]
  PROVE  StoreTyped'
BY Moved DEF StoreTyped, StoreTypeOK, Phase, Result

(* What the steps of a process do to itself. *)
Moves(p) ==
  \/ Start(p) /\ Move(p, "info", "none")
  \/ EnsureDir(p) /\ Move(p, "open", "none")
  \/ OpenDatabase(p) /\ dir = "file" /\ Move(p, "window", "unavailable")
  \/ OpenDatabase(p) /\ UNCHANGED harmed /\ Move(p, "version", "none")
  \/ ReadVersion(p) /\ version < Latest /\ Move(p, "begin", "none")
  \/ ReadVersion(p) /\ ~(version < Latest) /\ Move(p, "count", "none")
  \/ BeginMigration(p) /\ found[p] + 1 \in tables /\ Move(p, "window", "unavailable")
  \/ BeginMigration(p) /\ found[p] + 1 \notin tables /\ Move(p, "commit", "none")
  \/ CommitMigration(p) /\ found[p] + 1 < Latest /\ Move(p, "begin", "none")
  \/ CommitMigration(p) /\ ~(found[p] + 1 < Latest) /\ Move(p, "count", "none")
  \/ CountProfiles(p) /\ profiles # {} /\ Move(p, "window", "ok")
  \/ CountProfiles(p) /\ profiles = {} /\ Move(p, "seed", "none")
  \/ Seed(p) /\ "default" \in profiles /\ Move(p, "window", "unavailable")
  \/ Seed(p) /\ "default" \notin profiles /\ Move(p, "window", "ok")
  \/ BusyTimeout(p) /\ Move(p, "window", "unavailable")
  \/ StorageFails(p) /\ phase[p] = "info" /\ Move(p, "open", "none")
  \/ StorageFails(p) /\ phase[p] # "info" /\ Move(p, "window", "unavailable")
  \/ Gone(p) /\ Move(p, "down", "none")
  \/ Edit(p) /\ Move(p, "up", "ok")

(* Every step over the store is such a move.                               *)
LEMMA StepsMove ==
  ASSUME StoreTyped, NEW p \in Process, StoreStep(p)
  PROVE  Moves(p)
<1>0. /\ phase \in [Process -> Phase] /\ store \in [Process -> Result]
      /\ writer \in Process \cup {NoProcess} /\ found \in [Process -> 0..Latest]
      /\ (writer = p) <=> (phase[p] = "commit")
      /\ (store[p] = "none") <=> (phase[p] \in {"down"} \cup Opening)
  BY DEF StoreTyped, StoreTypeOK, Phase, Result
<1> USE <1>0, NoProcessAssumption DEF Moves, Move, Phase, Result, Opening, GoTo, Unavailable, Available
<1>1. CASE Start(p)
  BY <1>1 DEF Start, disk
<1>2. CASE EnsureDir(p)
  BY <1>2 DEF EnsureDir
<1>3. CASE OpenDatabase(p)
  BY <1>3 DEF OpenDatabase, disk
<1>4. CASE ReadVersion(p)
  BY <1>4 DEF ReadVersion, disk
<1>5. CASE BeginMigration(p)
  BY <1>5 DEF BeginMigration
<1>6. CASE CommitMigration(p)
  BY <1>6 DEF CommitMigration
<1>7. CASE CountProfiles(p)
  BY <1>7 DEF CountProfiles, disk
<1>8. CASE Seed(p)
  BY <1>8 DEF Seed
<1>9. CASE BusyTimeout(p)
  BY <1>9 DEF BusyTimeout, disk
<1>10. CASE StorageFails(p)
  BY <1>10 DEF StorageFails
<1>11. CASE Gone(p)
  BY <1>11 DEF Gone
<1>12. CASE Edit(p)
  BY <1>12 DEF Edit, NameProfile, DeleteChecks, DeleteProfile, Usable, disk, process
<1> QED
  BY <1>1, <1>2, <1>3, <1>4, <1>5, <1>6, <1>7, <1>8, <1>9, <1>10, <1>11, <1>12 DEF StoreStep, Open

(* How a process comes to be where it is after its step.                   *)
LEMMA Arrives ==
  ASSUME StoreTyped, NEW p \in Process, StoreStep(p)
  PROVE  /\ \A q \in Process \ {p} : phase'[q] = phase[q] /\ store'[q] = store[q]
         /\ phase'[p] = "begin" => \/ ReadVersion(p) /\ version < Latest
                                   \/ CommitMigration(p) /\ found[p] + 1 < Latest
         /\ phase'[p] = "commit" => BeginMigration(p) /\ found[p] + 1 \notin tables
         /\ phase'[p] = "count" => \/ ReadVersion(p) /\ ~(version < Latest)
                                   \/ CommitMigration(p) /\ ~(found[p] + 1 < Latest)
         /\ phase'[p] = "seed" => CountProfiles(p) /\ profiles = {}
         /\ store'[p] = "ok" => (CountProfiles(p) /\ profiles # {}) \/ Seed(p) \/ Edit(p)
         /\ store'[p] = "unavailable" =>
              \/ OpenDatabase(p) /\ dir = "file"
              \/ BeginMigration(p) /\ found[p] + 1 \in tables
              \/ Seed(p) /\ "default" \in profiles
              \/ BusyTimeout(p)
              \/ StorageFails(p) /\ phase[p] # "info"
         /\ phase'[p] \in Opening => phase[p] \in Opening \/ Start(p)
<1>1. Moves(p)
  BY StepsMove
<1>2. \A s, t : Move(p, s, t) => phase'[p] = s /\ store'[p] = t
  BY Moved
<1>3. \A q \in Process \ {p} : phase'[q] = phase[q] /\ store'[q] = store[q]
  BY <1>1, Moved DEF Moves
<1>4. phase'[p] \in Opening => phase[p] \in Opening \/ Start(p)
  BY <1>1, <1>2 DEF Moves, Opening, EnsureDir, OpenDatabase, ReadVersion, BeginMigration,
     CommitMigration, CountProfiles, StorageFails
<1>5. phase'[p] = "begin" => \/ ReadVersion(p) /\ version < Latest
                             \/ CommitMigration(p) /\ found[p] + 1 < Latest
  BY <1>1, <1>2 DEF Moves
<1>6. phase'[p] = "commit" => BeginMigration(p) /\ found[p] + 1 \notin tables
  BY <1>1, <1>2 DEF Moves
<1>7. phase'[p] = "count" => \/ ReadVersion(p) /\ ~(version < Latest)
                             \/ CommitMigration(p) /\ ~(found[p] + 1 < Latest)
  BY <1>1, <1>2 DEF Moves
<1>8. phase'[p] = "seed" => CountProfiles(p) /\ profiles = {}
  BY <1>1, <1>2 DEF Moves
<1>9. store'[p] = "ok" => (CountProfiles(p) /\ profiles # {}) \/ Seed(p) \/ Edit(p)
  BY <1>1, <1>2 DEF Moves
<1>10. store'[p] = "unavailable" =>
              \/ OpenDatabase(p) /\ dir = "file"
              \/ BeginMigration(p) /\ found[p] + 1 \in tables
              \/ Seed(p) /\ "default" \in profiles
              \/ BusyTimeout(p)
              \/ StorageFails(p) /\ phase[p] # "info"
  BY <1>1, <1>2 DEF Moves
<1> QED
  BY <1>3, <1>4, <1>5, <1>6, <1>7, <1>8, <1>9, <1>10, Zenon

LEMMA TypedStep ==
  ASSUME StoreInv, NEW p \in Process, StoreStep(p)
  PROVE  StoreTyped'
<1>0. StoreTyped /\ Migrates(p)
  BY DEF StoreInv
<1>1. PICK s, t : Move(p, s, t)
  BY <1>0, StepsMove DEF Moves
<1> USE <1>0 DEF StoreTyped, StoreTypeOK, StoreStep, Open, Start, EnsureDir, OpenDatabase, ReadVersion,
      BeginMigration, CommitMigration, CountProfiles, Seed, BusyTimeout, StorageFails, Gone,
      Edit, NameProfile, DeleteChecks, DeleteProfile, disk, process, past
<1>2. dir' \in {"missing", "directory", "file"} /\ profiles' \subseteq Name
  BY DEF Name
<1>3. version' \in 0..Latest /\ tables' \subseteq 1..Latest /\ found' \in [Process -> 0..Latest]
  <2>1. CASE CommitMigration(p)
    <3>1. found[p] \in 0..Latest /\ found[p] + 1 \in 0..Latest /\ found[p] + 1 \in 1..Latest
      BY <2>1, LatestAssumption DEF Migrates
    <3> QED
      BY <2>1, <3>1
  <2>2. CASE ~CommitMigration(p)
    <3>1. 0 \in 0..Latest
      BY LatestAssumption
    <3>2. UNCHANGED <<version, tables>>
      BY <2>2
    <3>3. found' \in {found, [found EXCEPT ![p] = version], [found EXCEPT ![p] = 0]}
      BY <2>2
    <3> QED
      BY <3>1, <3>2, <3>3
  <2> QED
    BY <2>1, <2>2
<1>4. info' \in [Process -> {"none", "ok", "error"}]
  OBVIOUS
<1>5. seeds' \in Nat /\ emptied' \in BOOLEAN
  <2>1. emptied' \in BOOLEAN
    OBVIOUS
  <2>2. seeds' \in {seeds, seeds + 1}
    OBVIOUS
  <2> QED
    BY <2>1, <2>2
<1>6. harmed' \in [Process -> BOOLEAN] /\ overlapped' \in [Process -> BOOLEAN]
  OBVIOUS
<1> QED
  BY <1>1, <1>2, <1>3, <1>4, <1>5, <1>6, TypedAfterMove

LEMMA TablesStep ==
  ASSUME StoreInv, NEW p \in Process, StoreStep(p)
  PROVE  /\ tables' = 1..version'
         /\ version <= version'
         /\ \A q \in Process : phase[q] = "commit" /\ q # p => version' = version
<1>0. StoreTyped /\ Migrates(p) /\ tables = 1..version /\ version \in 0..Latest
  BY DEF StoreInv, StoreTyped, StoreTypeOK
<1>1. CASE CommitMigration(p)
  <2>1. version' = version + 1 /\ tables' = tables \cup {version + 1} /\ phase[p] = "commit"
    BY <1>0, <1>1 DEF CommitMigration, Migrates
  <2>2. \A q \in Process : phase[q] = "commit" => q = p
    BY <1>0, <2>1 DEF StoreTyped, StoreTypeOK
  <2> QED
    BY <1>0, <2>1, <2>2, LatestAssumption
<1>2. CASE ~CommitMigration(p)
  <2>1. UNCHANGED <<version, tables>>
    BY <1>2 DEF StoreStep, Open, Start, EnsureDir, OpenDatabase, ReadVersion,
      BeginMigration, CountProfiles, Seed, BusyTimeout, StorageFails, Gone,
      Edit, NameProfile, DeleteChecks, DeleteProfile, disk, process, past
  <2> QED
    BY <1>0, <2>1, LatestAssumption
<1> QED
  BY <1>1, <1>2

(* Profiles vanish altogether only when two deletions take the last ones.  *)
LEMMA ProfilesStep ==
  ASSUME StoreInv, NEW p \in Process, StoreStep(p)
  PROVE  /\ emptied => emptied'
         /\ profiles # {} => profiles' # {} \/ emptied'
         /\ profiles' = profiles \/ Usable(p) \/ Seed(p)
<1> USE DEF StoreStep, Open, Start, EnsureDir, OpenDatabase, ReadVersion,
      BeginMigration, CommitMigration, CountProfiles, Seed, BusyTimeout, StorageFails, Gone,
      Edit, NameProfile, DeleteChecks, DeleteProfile, disk, process, past
<1>1. emptied => emptied'
  BY DEF StoreInv, StoreTyped
<1>2. profiles # {} => profiles' # {} \/ emptied'
  OBVIOUS
<1>3. profiles' = profiles \/ Usable(p) \/ Seed(p)
  OBVIOUS
<1> QED
  BY <1>1, <1>2, <1>3

LEMMA MigratesStep ==
  ASSUME StoreInv, NEW p \in Process, StoreStep(p)
  PROVE  \A q \in Process : Migrates(q)'
<1>0. /\ StoreTyped /\ tables = 1..version /\ version \in 0..Latest
      /\ \A q \in Process : Migrates(q)
  BY DEF StoreInv, StoreTyped, StoreTypeOK
<1>1. Moves(p)
  BY <1>0, StepsMove
<1>2. StoreTyped'
  BY TypedStep
<1>3. version' \in 0..Latest /\ \A q \in Process : found'[q] \in 0..Latest /\ found[q] \in 0..Latest
  BY <1>0, <1>2 DEF StoreTyped, StoreTypeOK
<1>4. ASSUME NEW q \in Process \ {p}
      PROVE  Migrates(q)'
  <2>1. phase'[q] = phase[q] /\ store'[q] = store[q]
    BY <1>0, <1>1, Moved DEF Moves
  <2>2. found'[q] = found[q]
    BY <1>0 DEF StoreTyped, StoreTypeOK, StoreStep, Open, Start, EnsureDir, OpenDatabase, ReadVersion,
      BeginMigration, CommitMigration, CountProfiles, Seed, BusyTimeout, StorageFails, Gone,
      Edit, NameProfile, DeleteChecks, DeleteProfile, disk, process, past
  <2> QED
    BY <1>0, <1>3, <2>1, <2>2, TablesStep, ProfilesStep, LatestAssumption DEF Migrates
<1>5. Migrates(p)'
  <2>1. found \in [Process -> 0..Latest] /\ Migrates(p)
    BY <1>0 DEF StoreTyped, StoreTypeOK
  <2>2. ReadVersion(p) => found'[p] = version /\ version' = version
    BY <2>1 DEF ReadVersion, disk
  <2>3. CommitMigration(p) => found'[p] = version' /\ version' = found[p] + 1 /\ found[p] < Latest
    BY <2>1 DEF CommitMigration, Migrates
  <2>4. phase'[p] = "begin" => found'[p] <= version' /\ found'[p] < Latest
    BY <1>0, <1>3, <2>2, <2>3, Arrives, LatestAssumption
  <2>5. phase'[p] = "commit" => found'[p] = version' /\ found'[p] < Latest
    <3> SUFFICES ASSUME phase'[p] = "commit"
                 PROVE  found'[p] = version' /\ found'[p] < Latest
      OBVIOUS
    <3>1. BeginMigration(p) /\ found[p] + 1 \notin tables
      BY <1>0, Arrives
    <3> QED
      BY <1>0, <1>3, <2>1, <3>1, LatestAssumption DEF BeginMigration, Migrates
  <2>6. phase'[p] \in {"count", "seed"} => version' = Latest
    <3>1. CountProfiles(p) => version' = Latest
      BY <2>1 DEF CountProfiles, Migrates, disk
    <3> QED
      BY <1>0, <1>3, <2>2, <2>3, <3>1, Arrives, LatestAssumption
  <2>7. store'[p] = "ok" => version' = Latest /\ (profiles' # {} \/ emptied')
    <3>1. ASSUME Edit(p)
          PROVE  version' = Latest /\ (profiles' # {} \/ emptied')
      <4>1. version' = version
        BY <3>1 DEF Edit, NameProfile, DeleteChecks, DeleteProfile, disk
      <4> QED
        BY <2>1, <3>1, <4>1, ProfilesStep DEF Edit, NameProfile, DeleteChecks, DeleteProfile, Usable, Migrates
    <3>2. ASSUME CountProfiles(p), profiles # {}
          PROVE  version' = Latest /\ (profiles' # {} \/ emptied')
      BY <2>1, <3>2 DEF CountProfiles, Migrates, disk
    <3>3. ASSUME Seed(p)
          PROVE  version' = Latest /\ (profiles' # {} \/ emptied')
      BY <2>1, <3>3 DEF Seed, Migrates
    <3> QED
      BY <1>0, <3>1, <3>2, <3>3, Arrives
  <2> QED
    BY <2>4, <2>5, <2>6, <2>7 DEF Migrates
<1> QED
  BY <1>4, <1>5

(* What happened to a start is not forgotten before the next one.          *)
LEMMA PastStep ==
  ASSUME StoreInv, NEW p \in Process, StoreStep(p)
  PROVE  /\ \A q \in Process : q # p \/ ~Start(p) => (harmed[q] => harmed'[q])
         /\ \A q \in Process : q # p \/ ~Start(p) => (overlapped[q] => overlapped'[q])
         /\ ~Start(p) => UNCHANGED overlapped
<1> USE DEF StoreInv, StoreTyped, StoreStep, Open, Start, EnsureDir, OpenDatabase, ReadVersion,
      BeginMigration, CommitMigration, CountProfiles, Seed, BusyTimeout, StorageFails, Gone,
      Edit, NameProfile, DeleteChecks, DeleteProfile, disk, process, past
<1>1. \A q \in Process : q # p \/ ~Start(p) => (harmed[q] => harmed'[q])
  OBVIOUS
<1>2. ~Start(p) => UNCHANGED overlapped
  OBVIOUS
<1>3. \A q \in Process : q # p \/ ~Start(p) => (overlapped[q] => overlapped'[q])
  BY <1>2
<1> QED
  BY <1>1, <1>2, <1>3

(* Only Start is a step of a process that is down.                         *)
LEMMA OnlyStartsWhenDown ==
  ASSUME NEW p \in Process, StoreStep(p), phase[p] = "down"
  PROVE  Start(p)
BY DEF StoreStep, Open, EnsureDir, OpenDatabase, ReadVersion, BeginMigration, CommitMigration,
       CountProfiles, Seed, BusyTimeout, StorageFails, Edit, NameProfile, DeleteChecks,
       DeleteProfile, Usable, Running, Opening

LEMMA AloneStep ==
  ASSUME StoreInv, NEW p \in Process, StoreStep(p)
  PROVE  \A q \in Process : Alone(q)'
<1>0. /\ StoreTyped /\ \A q \in Process : Alone(q)
      /\ found \in [Process -> 0..Latest]
  BY DEF StoreInv, StoreTyped, StoreTypeOK
<1>1. Start(p) => \A q \in Process : overlapped'[q] =
        IF q = p THEN \E r \in Process \ {p} : Running(r) ELSE overlapped[q] \/ phase[q] \in Opening
  BY DEF Start
<1>2. ASSUME NEW q \in Process \ {p}, phase'[q] \in Opening, ~overlapped'[q]
      PROVE  FALSE
  <2>1. phase[q] \in Opening /\ ~overlapped[q] /\ ~Start(p)
    BY <1>0, <1>1, <1>2, Arrives, PastStep
  <2>2. phase[p] = "down"
    BY <1>0, <2>1 DEF Alone
  <2> QED
    BY <2>1, <2>2, OnlyStartsWhenDown
<1>3. ASSUME phase'[p] \in Opening, ~overlapped'[p]
      PROVE  \A q \in Process \ {p} : phase'[q] = "down"
  <2>1. CASE Start(p)
    BY <1>0, <1>1, <1>3, <2>1, Arrives DEF Running
  <2>2. CASE ~Start(p)
    <3>1. phase[p] \in Opening /\ ~overlapped[p]
      BY <1>0, <1>3, <2>2, Arrives, PastStep
    <3> QED
      BY <1>0, <3>1, Arrives DEF Alone
  <2> QED
    BY <2>1, <2>2
<1>4. phase'[p] = "begin" => found'[p] = version'
  <2>1. ReadVersion(p) => found'[p] = version'
    BY <1>0 DEF ReadVersion, disk
  <2>2. CommitMigration(p) => found'[p] = version'
    BY <1>0 DEF CommitMigration
  <2> QED
    BY <1>0, <2>1, <2>2, Arrives
<1>5. phase'[p] = "seed" => profiles' = {}
  <2>1. CountProfiles(p) => profiles' = profiles
    BY DEF CountProfiles, disk
  <2> QED
    BY <1>0, <2>1, Arrives
<1> QED
  BY <1>2, <1>3, <1>4, <1>5 DEF Alone

(* Who waits for the write lock waits for a process that migrates.         *)
LEMMA SomebodyWrites ==
  ASSUME StoreTyped, NEW p \in Process, BusyTimeout(p)
  PROVE  \E w \in Process \ {p} : phase[w] = "commit"
BY DEF StoreTyped, StoreTypeOK, BusyTimeout

LEMMA ReasonStep ==
  ASSUME StoreInv, NEW p \in Process, StoreStep(p)
  PROVE  UnavailableForAReason'
<1>0. /\ StoreTyped /\ Alone(p) /\ UnavailableForAReason /\ tables = 1..version
      /\ harmed \in [Process -> BOOLEAN] /\ version \in 0..Latest /\ found[p] \in 0..Latest
  BY DEF StoreInv, StoreTyped, StoreTypeOK
<1>1. ASSUME NEW q \in Process \ {p}, store'[q] = "unavailable"
      PROVE  harmed'[q] \/ overlapped'[q]
  BY <1>0, <1>1, Arrives, PastStep DEF UnavailableForAReason
<1>2. ASSUME store'[p] = "unavailable"
      PROVE  harmed'[p] \/ overlapped'[p]
  <2>1. CASE OpenDatabase(p) /\ dir = "file"
    BY <1>0, <2>1 DEF OpenDatabase
  <2>2. CASE BeginMigration(p) /\ found[p] + 1 \in tables
    <3>1. found[p] # version
      BY <1>0, <2>2, LatestAssumption
    <3> QED
      BY <1>0, <2>2, <3>1 DEF BeginMigration, Alone, Opening, past
  <2>3. CASE Seed(p) /\ "default" \in profiles
    BY <1>0, <2>3 DEF Seed, Alone, Opening
  <2>4. CASE BusyTimeout(p)
    BY <1>0, <2>4, SomebodyWrites DEF BusyTimeout, Alone, Opening, past
  <2>5. CASE StorageFails(p)
    BY <1>0, <2>5 DEF StorageFails
  <2> QED
    BY <1>0, <1>2, <2>1, <2>2, <2>3, <2>4, <2>5, Arrives
<1> QED
  BY <1>1, <1>2 DEF UnavailableForAReason

LEMMA AheadStep ==
  ASSUME StoreInv, NEW p \in Process, StoreStep(p)
  PROVE  (\E q \in Process : Ahead(q)') \/ (\E q \in Process : harmed'[q])
<1>0. /\ StoreTyped /\ tables = 1..version /\ found \in [Process -> 0..Latest]
      /\ version \in 0..Latest /\ harmed \in [Process -> BOOLEAN] /\ StoreTyped'
      /\ (\E q \in Process : Ahead(q)) \/ (\E q \in Process : harmed[q])
  BY TypedStep DEF StoreInv, StoreTyped, StoreTypeOK
<1>1. \A q \in Process : phase'[q] \notin {"begin", "seed"} /\ store'[q] # "unavailable" => Ahead(q)'
  BY DEF Ahead
<1>2. \A q \in Process : store'[q] = "ok" => Ahead(q)'
  BY <1>0, <1>1 DEF StoreTyped, StoreTypeOK, Opening
<1>3. CASE Start(p)
  <2>1. phase'[p] = "info" /\ store'[p] = "none"
    BY <1>0, <1>3 DEF StoreTyped, StoreTypeOK, Start, GoTo
  <2> QED
    BY <1>1, <2>1
<1>4. CASE ~Start(p) /\ \E q \in Process : harmed[q]
  BY <1>4, PastStep
<1>5. ASSUME NEW r \in Process, Ahead(r), ~Start(p)
      PROVE  (\E q \in Process : Ahead(q)') \/ (\E q \in Process : harmed'[q])
  <2>1. CASE CommitMigration(p)
    <3>1. found'[p] = version' /\ store'[p] # "unavailable" /\ phase'[p] # "seed"
      BY <1>0, <2>1 DEF CommitMigration, StoreTyped, StoreTypeOK, GoTo, Opening
    <3> QED
      BY <3>1 DEF Ahead
  <2>2. CASE profiles' # profiles
    <3>1. Edit(p) => store'[p] = "ok"
      BY DEF Edit, NameProfile, DeleteChecks, DeleteProfile, Usable, process
    <3>2. Seed(p) => store'[p] = "ok"
      BY <1>0, <2>2 DEF Seed, Available, StoreTyped, StoreTypeOK
    <3>3. Edit(p) \/ Seed(p)
      BY <2>2 DEF StoreStep, Open, Start, EnsureDir, OpenDatabase, ReadVersion, BeginMigration,
         CommitMigration, CountProfiles, BusyTimeout, StorageFails, Gone, disk
    <3> QED
      BY <1>2, <3>1, <3>2, <3>3
  <2>3. CASE r = p /\ store'[p] = "unavailable"
    <3>1. CASE OpenDatabase(p) /\ dir = "file"
      BY <1>0, <3>1 DEF OpenDatabase
    <3>2. CASE BeginMigration(p) /\ found[p] + 1 \in tables
      BY <1>0, <1>5, <2>3, <3>2, LatestAssumption DEF BeginMigration, Ahead
    <3>3. CASE Seed(p) /\ "default" \in profiles
      BY <1>5, <2>3, <3>3 DEF Seed, Ahead
    <3>4. CASE BusyTimeout(p)
      <4>1. PICK w \in Process \ {p} : phase[w] = "commit"
        BY <1>0, <3>4, SomebodyWrites
      <4>2. phase'[w] = "commit" /\ store'[w] = "none"
        BY <1>0, <4>1, Arrives DEF StoreTyped, StoreTypeOK, Opening
      <4> QED
        BY <1>1, <4>2
    <3>5. CASE StorageFails(p)
      BY <1>0, <3>5 DEF StorageFails
    <3> QED
      BY <1>0, <2>3, <3>1, <3>2, <3>3, <3>4, <3>5, Arrives
  <2>4. CASE r = p /\ store'[p] # "unavailable" /\ ~CommitMigration(p)
    <3>1. phase'[p] = "begin" => found'[p] = version'
      BY <1>0, <2>4, Arrives DEF ReadVersion, disk
    <3>2. phase'[p] = "seed" => profiles' = {}
      BY <1>0, Arrives DEF CountProfiles, disk
    <3> QED
      BY <2>4, <3>1, <3>2 DEF Ahead
  <2>5. CASE r # p /\ ~CommitMigration(p) /\ profiles' = profiles
    <3>1. version' = version /\ found'[r] = found[r]
      BY <1>0, <2>5 DEF StoreStep, Open, Start, EnsureDir, OpenDatabase, ReadVersion, BeginMigration,
         CountProfiles, Seed, BusyTimeout, StorageFails, Gone, Edit, NameProfile, DeleteChecks,
         DeleteProfile, disk, process
    <3>2. phase'[r] = phase[r] /\ store'[r] = store[r]
      BY <1>0, <2>5, Arrives
    <3>3. Ahead(r)'
      BY <1>5, <2>5, <3>1, <3>2 DEF Ahead
    <3> QED
      BY <3>3
  <2> QED
    BY <2>1, <2>2, <2>3, <2>4, <2>5
<1> QED
  BY <1>0, <1>3, <1>4, <1>5

LEMMA SeedsStep ==
  ASSUME StoreInv, NEW p \in Process, StoreStep(p)
  PROVE  /\ seeds' > 0 => profiles' # {} \/ emptied'
         /\ SeededOnce'
<1>0. /\ Alone(p) /\ seeds \in Nat /\ SeededOnce
      /\ seeds > 0 => profiles # {} \/ emptied
  BY DEF StoreInv, StoreTyped
<1>1. CASE Seed(p) /\ "default" \notin profiles
  <2>1. /\ phase[p] = "seed" /\ profiles' # {} /\ emptied' = emptied
        /\ seeds' = IF overlapped[p] /\ seeds > 0 THEN seeds ELSE seeds + 1
    BY <1>1 DEF Seed
  <2>2. ~overlapped[p] => profiles = {}
    BY <1>0, <2>1 DEF Alone, Opening
  <2> QED
    BY <1>0, <2>1, <2>2 DEF SeededOnce
<1>2. CASE ~(Seed(p) /\ "default" \notin profiles)
  <2>1. seeds' = seeds
    BY <1>2 DEF StoreStep, Open, Start, EnsureDir, OpenDatabase, ReadVersion, BeginMigration,
       CommitMigration, CountProfiles, Seed, BusyTimeout, StorageFails, Gone, Edit, NameProfile,
       DeleteChecks, DeleteProfile, past
  <2> QED
    BY <1>0, <2>1, ProfilesStep DEF SeededOnce
<1> QED
  BY <1>1, <1>2

LEMMA StoreInvStep ==
  ASSUME StoreInv, NEW p \in Process, StoreStep(p)
  PROVE  StoreInv'
BY TypedStep, TablesStep, MigratesStep, AloneStep, ReasonStep, AheadStep, SeedsStep DEF StoreInv

-----------------------------------------------------------------------------
LEMMA ShellInvInitially == Init => ShellInv
<1> SUFFICES ASSUME Init
             PROVE  ShellInv
  OBVIOUS
<1>1. StoreInv
  BY StoreInvInitially DEF Init
<1>2. NoOverview \in Overview /\ Closed \in Screen /\ NoCall \in Request
  BY DEF NoOverview, Overview, Closed, Screen, NoCall, Request, Behaviour
<1>3. ShellTyped
  BY <1>2 DEF Init, ShellTyped
<1>4. \A p \in Process : /\ window[p] = "none" /\ screen[p].status = "closed"
                         /\ \A c \in Call : call[p][c].stage = "idle"
  BY DEF Init, Closed, NoCall
<1>5. \A p \in Process : Shows(p) /\ Current(p)
  BY <1>4 DEF Shows, Current, Reading
<1> QED
  BY <1>1, <1>3, <1>5 DEF ShellInv

(* Setup does not touch the store. *)
LEMMA SetupKeepsStore ==
  ASSUME StoreInv, NEW p \in Process, NEW from \in {"window"} \cup Past, NEW to \in Past,
         Setup(p, from, to), UNCHANGED setupLeaves
  PROVE  StoreInv'
<1>0. /\ UNCHANGED <<dir, version, tables, profiles, writer, found, info, store, doomed>>
      /\ UNCHANGED <<seeds, emptied, harmed, overlapped>>
      /\ phase[p] = from /\ phase' = [phase EXCEPT ![p] = to]
  BY DEF setupLeaves, disk, past, Setup, GoTo
<1>1. StoreTyped /\ StoreTypeOK
  BY DEF StoreInv, StoreTyped
<1>2. \A q \in Process : phase'[q] = IF q = p THEN to ELSE phase[q]
  BY <1>0, <1>1 DEF StoreTypeOK
<1>3. from \notin {"down"} \cup Opening /\ to \notin {"down"} \cup Opening /\ to # "commit"
  BY DEF Past, Opening
<1>4. StoreTyped'
  BY <1>0, <1>1, <1>2, <1>3 DEF StoreTyped, StoreTypeOK, Past, Opening
<1>5. \A q \in Process : Migrates(q)'
  BY <1>0, <1>2, <1>3 DEF StoreInv, Migrates, Past, Opening
<1>6. \A q \in Process : Alone(q)'
  BY <1>0, <1>2, <1>3 DEF StoreInv, Alone, Past, Opening
<1>7. \A q \in Process : Ahead(q) => Ahead(q)'
  BY <1>0, <1>2, <1>3 DEF Ahead, Past, Opening
<1>8. UnavailableForAReason' /\ SeededOnce' /\ tables' = 1..version'
      /\ (seeds' > 0 => profiles' # {} \/ emptied')
  BY <1>0 DEF StoreInv, UnavailableForAReason, SeededOnce
<1>9. (\E q \in Process : Ahead(q)') \/ (\E q \in Process : harmed'[q])
  BY <1>0, <1>7 DEF StoreInv
<1> QED
  BY <1>4, <1>5, <1>6, <1>8, <1>9 DEF StoreInv

LEMMA UntouchedStore ==
  ASSUME StoreInv, UNCHANGED <<disk, process, past>>
  PROVE  StoreInv'
<1>1. /\ UNCHANGED <<dir, version, tables, profiles, writer>>
      /\ UNCHANGED <<phase, found, info, store, doomed>>
      /\ UNCHANGED <<seeds, emptied, harmed, overlapped>>
  BY DEF disk, process, past
<1>2. StoreTyped'
  BY <1>1 DEF StoreInv, StoreTyped, StoreTypeOK
<1>3. \A q \in Process : Migrates(q)' /\ Alone(q)' /\ (Ahead(q) => Ahead(q)')
  BY <1>1 DEF StoreInv, Migrates, Alone, Ahead
<1>4. UnavailableForAReason' /\ SeededOnce' /\ tables' = 1..version'
      /\ (seeds' > 0 => profiles' # {} \/ emptied')
  BY <1>1 DEF StoreInv, UnavailableForAReason, SeededOnce
<1>5. (\E q \in Process : Ahead(q)') \/ (\E q \in Process : harmed'[q])
  BY <1>1, <1>3 DEF StoreInv
<1> QED
  BY <1>2, <1>3, <1>4, <1>5 DEF StoreInv

(***************************************************************************)
(* The steps of the shell, by what they change.                            *)
(***************************************************************************)
OverStore(p) == (Start(p) \/ Open(p) \/ Edit(p)) /\ UNCHANGED <<shell, settings>>
SetupStep(p) == CreateMainWindow(p) \/ AttachAutostart(p) \/ SpawnTray(p) \/ EmitReady(p)
EndStep(p) == Killed(p) \/ CloseQuits(p) \/ TrayQuits(p)
WindowStep(p) == CloseHides(p) \/ TrayOpens(p)
PageStep(p) == Page(p) \/ Mount(p) \/ Retry(p)
ScreenStep(p) == OpenSettings(p) \/ LeaveSettings(p) \/ Change(p) \/ Command(p)

(* The steps of a process by the part of the shell they change.            *)
LEMMA ShellSteps ==
  ASSUME NEW p \in Process, Backend(p) \/ Page(p) \/ Command(p) \/ User(p)
  PROVE  \/ OverStore(p) \/ SetupStep(p) \/ EndStep(p) \/ WindowStep(p) \/ PageStep(p)
         \/ ScreenStep(p)
BY DEF Backend, User, OverStore, SetupStep, EndStep, WindowStep, PageStep, ScreenStep

(* Only the store's own steps, setup and the end of a process concern it.  *)
LEMMA OthersLeaveStore ==
  ASSUME NEW p \in Process, WindowStep(p) \/ PageStep(p) \/ ScreenStep(p)
  PROVE  UNCHANGED <<disk, process, past>>
<1>1. WindowStep(p) => UNCHANGED <<disk, process, past>>
  BY DEF WindowStep, CloseHides, TrayOpens, storeVars
<1>2. PageStep(p) => UNCHANGED <<disk, process, past>>
  BY DEF PageStep, Page, Subscribe, HandleReady, Answer, AnswerError, Mount, Retry, overviewLeaves,
         storeVars
<1>3. OpenSettings(p) \/ LeaveSettings(p) \/ Change(p) => UNCHANGED <<disk, process, past>>
  BY DEF OpenSettings, LeaveSettings, Change, storeVars
<1>4. Command(p) => UNCHANGED <<disk, process, past>>
  BY DEF Command, Write, Refused, ReadSetting, ShowSettings, Show, storeVars
<1> QED
  BY <1>1, <1>2, <1>3, <1>4 DEF ScreenStep

LEMMA StoreAlways ==
  ASSUME StoreInv, [Next]_vars
  PROVE  StoreInv'
<1>1. ASSUME NEW p \in Process, OverStore(p) \/ EndStep(p)
      PROVE  StoreInv'
  <2>1. StoreStep(p)
    BY <1>1 DEF OverStore, EndStep, Killed, CloseQuits, TrayQuits, Ends, StoreStep
  <2> QED
    BY <2>1, StoreInvStep
<1>2. ASSUME NEW p \in Process, SetupStep(p)
      PROVE  StoreInv'
  <2>1. PICK from \in {"window"} \cup Past, to \in Past :
          Setup(p, from, to) /\ UNCHANGED setupLeaves
    <3>1. CASE CreateMainWindow(p)
      <4>1. Setup(p, "window", "autostart") /\ UNCHANGED setupLeaves
        BY <3>1 DEF CreateMainWindow
      <4> QED
        BY <4>1 DEF Past
    <3>2. CASE AttachAutostart(p)
      <4>1. Setup(p, "autostart", "tray") /\ UNCHANGED setupLeaves
        BY <3>2 DEF AttachAutostart
      <4> QED
        BY <4>1 DEF Past
    <3>3. CASE SpawnTray(p)
      <4>1. Setup(p, "tray", "emit") /\ UNCHANGED setupLeaves
        BY <3>3 DEF SpawnTray
      <4> QED
        BY <4>1 DEF Past
    <3>4. CASE EmitReady(p)
      <4>1. Setup(p, "emit", "up") /\ UNCHANGED setupLeaves
        BY <3>4 DEF EmitReady
      <4> QED
        BY <4>1 DEF Past
    <3> QED
      BY <1>2, <3>1, <3>2, <3>3, <3>4 DEF SetupStep
  <2> QED
    BY <2>1, SetupKeepsStore
<1>3. ASSUME SystemChanges \/ UNCHANGED vars
      PROVE  UNCHANGED <<disk, process, past>>
  BY <1>3 DEF SystemChanges, vars, storeVars
<1> QED
  BY <1>1, <1>2, <1>3, ShellSteps, OthersLeaveStore, UntouchedStore DEF Next

(* Where neither the shell of a process nor its place in the setup changes. *)
LEMMA Untouched ==
  ASSUME NEW p \in Process, Shows(p), Current(p),
         phase'[p] = phase[p], store'[p] = store[p], tray'[p] = tray[p], window'[p] = window[p],
         screen'[p] = screen[p], call'[p] = call[p], setting' = setting,
         unsure[p] => unsure'[p]
  PROVE  Shows(p)' /\ Current(p)'
<1>1. Shows(p)'
  BY DEF Shows
<1>2. Current(p)'
  BY DEF Current, Reading, CloseBehaviour
<1> QED
  BY <1>1, <1>2

(* A process without a page. *)
Blank(p) ==
  /\ window[p] = "none" /\ screen[p].status = "closed"
  /\ \A c \in Call : call[p][c].stage = "idle"

(* A process with no shell yet has nothing wrong on its screen.            *)
LEMMA BlankFits ==
  ASSUME NEW p \in Process, Blank(p)'
  PROVE  Shows(p)' /\ Current(p)'
BY DEF Blank, Shows, Current, Reading

LEMMA BlankBefore ==
  ASSUME NEW p \in Process, Shows(p), phase[p] \notin Past
  PROVE  Blank(p)
BY DEF Blank, Shows

LEMMA OverStoreKeepsShell ==
  ASSUME ShellInv, NEW p \in Process, OverStore(p)
  PROVE  ShellTyped' /\ \A q \in Process : Shows(q)' /\ Current(q)'
<1>0. /\ UNCHANGED <<tray, window, overview>>
      /\ UNCHANGED <<setting, autostart, screen, call, unsure>>
      /\ StoreTyped /\ StoreStep(p)
      /\ ShellTyped /\ \A q \in Process : Shows(q) /\ Current(q)
  BY DEF OverStore, shell, settings, ShellInv, StoreInv, StoreStep
<1>1. ShellTyped'
  BY <1>0 DEF ShellTyped
<1>2. ASSUME NEW q \in Process \ {p}
      PROVE  Shows(q)' /\ Current(q)'
  BY <1>0, Untouched, Arrives
<1>3. phase[p] \notin Past \/ UNCHANGED <<phase, store>>
  BY DEF OverStore, Start, Open, EnsureDir, OpenDatabase, ReadVersion, BeginMigration, CommitMigration,
     CountProfiles, Seed, BusyTimeout, StorageFails, Edit, NameProfile, DeleteChecks, DeleteProfile,
     process, Past, Opening
<1>4. Shows(p)' /\ Current(p)'
  <2>1. CASE UNCHANGED <<phase, store>>
    BY <1>0, <2>1, Untouched
  <2>2. CASE phase[p] \notin Past
    <3>1. Blank(p)
      BY <1>0, <2>2, BlankBefore
    <3>2. Blank(p)'
      BY <1>0, <3>1 DEF Blank
    <3> QED
      BY <3>2, BlankFits
  <2> QED
    BY <1>3, <2>1, <2>2
<1> QED
  BY <1>1, <1>2, <1>4

(* While setup goes on no window is hidden, and an open screen is behind.  *)
LEMMA SetupKeepsShell ==
  ASSUME ShellInv, NEW p \in Process, SetupStep(p)
  PROVE  ShellTyped' /\ \A q \in Process : Shows(q)' /\ Current(q)'
<1>0. /\ ShellTyped /\ phase \in [Process -> Phase]
      /\ \A q \in Process : Shows(q) /\ Current(q)
  BY DEF ShellInv, StoreInv, StoreTyped, StoreTypeOK, Phase
<1>1. UNCHANGED <<store, setting, autostart, screen, call>>
  BY DEF SetupStep, CreateMainWindow, AttachAutostart, SpawnTray, EmitReady, setupLeaves, settings
<1>2. /\ tray' \in [Process -> BOOLEAN] /\ window' \in [Process -> {"none", "shown", "hidden"}]
      /\ overview' \in [Process -> Overview] /\ unsure' \in [Process -> BOOLEAN]
      /\ \A q \in Process \ {p} : /\ phase'[q] = phase[q] /\ tray'[q] = tray[q]
                                  /\ window'[q] = window[q] /\ unsure'[q] = unsure[q]
  <2> USE <1>0 DEF ShellTyped, Setup, GoTo, shell, settings
  <2>1. CASE CreateMainWindow(p)
    BY <2>1 DEF CreateMainWindow
  <2>2. CASE AttachAutostart(p)
    BY <2>2 DEF AttachAutostart
  <2>3. CASE SpawnTray(p)
    BY <2>3 DEF SpawnTray
  <2>4. CASE EmitReady(p)
    BY <2>4 DEF EmitReady, Overview
  <2> QED
    BY <2>1, <2>2, <2>3, <2>4 DEF SetupStep
<1>3. ShellTyped'
  BY <1>0, <1>1, <1>2 DEF ShellTyped
<1>4. ASSUME NEW q \in Process \ {p}
      PROVE  Shows(q)' /\ Current(q)'
  BY <1>0, <1>1, <1>2, Untouched
<1>5. /\ phase'[p] \in Past
      /\ window'[p] # "hidden"
      /\ screen[p].status = "closed" \/ unsure'[p] \/ UNCHANGED <<tray, unsure>>
  <2> USE <1>0 DEF ShellTyped, Shows, Setup, GoTo, Past, shell, settings
  <2>1. CASE CreateMainWindow(p)
    BY <2>1 DEF CreateMainWindow
  <2>2. CASE AttachAutostart(p)
    BY <2>2 DEF AttachAutostart
  <2>3. CASE SpawnTray(p)
    BY <2>3 DEF SpawnTray
  <2>4. CASE EmitReady(p)
    BY <2>4 DEF EmitReady
  <2> QED
    BY <2>1, <2>2, <2>3, <2>4 DEF SetupStep
<1>6. Shows(p)'
  BY <1>0, <1>1, <1>5 DEF Shows
<1>7. Current(p)'
  <2>1. CASE UNCHANGED <<tray, unsure>>
    BY <1>0, <1>1, <2>1 DEF Current, Reading, CloseBehaviour
  <2>2. CASE unsure'[p]
    BY <1>0, <1>1, <2>2 DEF Current, Reading
  <2>3. CASE screen[p].status = "closed"
    BY <1>0, <1>1, <2>3 DEF Current, Reading, Shows
  <2> QED
    BY <1>5, <2>1, <2>2, <2>3
<1> QED
  BY <1>3, <1>4, <1>6, <1>7

LEMMA EndKeepsShell ==
  ASSUME ShellInv, NEW p \in Process, EndStep(p)
  PROVE  ShellTyped' /\ \A q \in Process : Shows(q)' /\ Current(q)'
<1>0. /\ ShellTyped /\ phase \in [Process -> Phase] /\ store \in [Process -> Result]
      /\ \A q \in Process : Shows(q) /\ Current(q)
      /\ Ends(p)
  BY DEF ShellInv, StoreInv, StoreTyped, StoreTypeOK, Phase, Result, EndStep, Killed, CloseQuits, TrayQuits
<1>1. NoOverview \in Overview /\ Closed \in Screen /\ NoCall \in Request /\ NoCall.stage = "idle"
      /\ Closed.status = "closed"
  BY DEF NoOverview, Overview, Closed, Screen, NoCall, Request, Behaviour
<1>2. /\ UNCHANGED <<setting, autostart>>
      /\ tray' = [tray EXCEPT ![p] = FALSE] /\ window' = [window EXCEPT ![p] = "none"]
      /\ overview' = [overview EXCEPT ![p] = NoOverview]
      /\ screen' = [screen EXCEPT ![p] = Closed]
      /\ call' = [call EXCEPT ![p] = [c \in Call |-> NoCall]]
      /\ unsure' = [unsure EXCEPT ![p] = FALSE]
      /\ phase' = [phase EXCEPT ![p] = "down"] /\ store' = [store EXCEPT ![p] = "none"]
  BY <1>0 DEF Ends, Gone
<1>3. ShellTyped'
  BY <1>0, <1>1, <1>2 DEF ShellTyped
<1>4. Blank(p)'
  BY <1>0, <1>1, <1>2 DEF ShellTyped, Blank
<1>5. ASSUME NEW q \in Process \ {p}
      PROVE  Shows(q)' /\ Current(q)'
  BY <1>0, <1>2, Untouched DEF ShellTyped
<1> QED
  BY <1>3, <1>4, <1>5, BlankFits

(* The window hides only where there is a tray to open it from.            *)
LEMMA WindowKeepsShell ==
  ASSUME ShellInv, NEW p \in Process, WindowStep(p)
  PROVE  ShellTyped' /\ \A q \in Process : Shows(q)' /\ Current(q)'
<1>0. ShellTyped /\ \A q \in Process : Shows(q) /\ Current(q)
  BY DEF ShellInv
<1>1. /\ UNCHANGED <<phase, store, tray, overview, setting, autostart, screen, call, unsure>>
      /\ phase[p] = "up"
      /\ \/ window' = [window EXCEPT ![p] = "hidden"] /\ \E readable \in BOOLEAN : Hides(p, readable)
         \/ window' = [window EXCEPT ![p] = "shown"]
  BY DEF WindowStep, CloseHides, TrayOpens, storeVars, process, settings
<1>2. ShellTyped'
  BY <1>0, <1>1 DEF ShellTyped
<1>3. ASSUME NEW q \in Process \ {p}
      PROVE  Shows(q)' /\ Current(q)'
  BY <1>0, <1>1, Untouched DEF ShellTyped
<1>4. Shows(p)'
  BY <1>0, <1>1 DEF ShellTyped, Shows, Hides, BehaviourOnClose, Past
<1>5. Current(p)'
  BY <1>0, <1>1 DEF Current, Reading, CloseBehaviour
<1> QED
  BY <1>2, <1>3, <1>4, <1>5

LEMMA PageKeepsShell ==
  ASSUME ShellInv, NEW p \in Process, PageStep(p)
  PROVE  ShellTyped' /\ \A q \in Process : Shows(q)' /\ Current(q)'
<1>0. ShellTyped /\ \A q \in Process : Shows(q) /\ Current(q)
  BY DEF ShellInv
<1>1. UNCHANGED <<tray, window, setting, autostart, screen, call, unsure>>
  BY DEF PageStep, Page, Subscribe, HandleReady, Answer, AnswerError, Mount, Retry, overviewLeaves, settings
<1>2. UNCHANGED <<phase, store>>
  BY OthersLeaveStore DEF process
<1>3. overview' \in [Process -> Overview]
  <2>1. overview \in [Process -> Overview]
    BY <1>0 DEF ShellTyped
  <2>2. overview[p] \in Overview
    BY <2>1
  <2>3. ASSUME NEW o \in Overview, overview' = [overview EXCEPT ![p] = o]
        PROVE  overview' \in [Process -> Overview]
    BY <2>1, <2>3
  <2>4. CASE Subscribe(p)
    <3>1. overview' = [overview EXCEPT ![p] = [overview[p] EXCEPT !.heard = TRUE]]
      BY <2>1, <2>4 DEF Subscribe
    <3>2. [overview[p] EXCEPT !.heard = TRUE] \in Overview
      BY <2>2 DEF Overview
    <3> QED
      BY <2>3, <3>1, <3>2
  <2>5. CASE HandleReady(p)
    <3>1. overview' = [overview EXCEPT ![p] = [overview[p] EXCEPT !.events = 0, !.status = "ready"]]
      BY <2>1, <2>5 DEF HandleReady
    <3>2. [overview[p] EXCEPT !.events = 0, !.status = "ready"] \in Overview
      BY <2>2 DEF Overview
    <3> QED
      BY <2>3, <3>1, <3>2
  <2>6. CASE Answer(p)
    <3>1. overview' = [overview EXCEPT ![p] = [overview[p] EXCEPT !.asked = FALSE, !.status = "ready"]]
      BY <2>1, <2>6 DEF Answer
    <3>2. [overview[p] EXCEPT !.asked = FALSE, !.status = "ready"] \in Overview
      BY <2>2 DEF Overview
    <3> QED
      BY <2>3, <3>1, <3>2
  <2>7. CASE AnswerError(p)
    <3> DEFINE status2 == IF overview[p].status = "ready" THEN "ready" ELSE "failed"
    <3>1. overview' = [overview EXCEPT ![p] = [overview[p] EXCEPT !.asked = FALSE, !.status = status2]]
      BY <2>1, <2>7 DEF AnswerError
    <3>2. [overview[p] EXCEPT !.asked = FALSE, !.status = status2] \in Overview
      BY <2>2 DEF Overview
    <3> QED
      BY <2>3, <3>1, <3>2
  <2>8. CASE Mount(p) \/ Retry(p)
    <3> DEFINE o == [NoOverview EXCEPT !.status = "starting", !.asked = TRUE]
    <3>1. o \in Overview
      BY DEF NoOverview, Overview
    <3>2. overview' = [overview EXCEPT ![p] = o]
      BY <2>8 DEF Mount, Retry
    <3> QED
      BY <2>3, <3>1, <3>2
  <2> QED
    BY <2>4, <2>5, <2>6, <2>7, <2>8 DEF PageStep, Page
<1>4. ShellTyped'
  BY <1>0, <1>1, <1>3 DEF ShellTyped
<1> QED
  BY <1>0, <1>1, <1>2, <1>4, Untouched

(***************************************************************************)
(* The settings screen.                                                    *)
(***************************************************************************)

(* A process elsewhere: nothing of its own changes, but it may be behind   *)
(* what another one has set.                                               *)
LEMMA Informed ==
  ASSUME NEW q \in Process, Shows(q), Current(q),
         UNCHANGED <<phase, store, tray, window>>, screen'[q] = screen[q], call'[q] = call[q],
         \/ setting' = setting /\ unsure'[q] = unsure[q]
         \/ unsure'[q] = (unsure[q] \/ screen[q].status # "closed")
  PROVE  Shows(q)' /\ Current(q)'
<1>1. Shows(q)'
  BY DEF Shows
<1>2. Current(q)'
  BY DEF Current, Reading, CloseBehaviour, Shows
<1> QED
  BY <1>1, <1>2

(* A call or a screen that is written changes nothing else.                *)
LEMMA CallWritten ==
  ASSUME call \in [Process -> [Call -> Request]], NEW p \in Process, NEW c \in Call,
         NEW r \in Request, call' = [call EXCEPT ![p][c] = r]
  PROVE  /\ call' \in [Process -> [Call -> Request]]
         /\ call'[p][c] = r
         /\ \A d \in Call \ {c} : call'[p][d] = call[p][d]
         /\ \A q \in Process \ {p} : call'[q] = call[q]
<1> DEFINE f == [call[p] EXCEPT ![c] = r]
<1>1. f \in [Call -> Request] /\ f[c] = r /\ \A d \in Call \ {c} : f[d] = call[p][d]
  OBVIOUS
<1>2. call' = [call EXCEPT ![p] = f]
  OBVIOUS
<1> HIDE DEF f
<1> QED
  BY <1>1, <1>2

LEMMA ScreenWritten ==
  ASSUME screen \in [Process -> Screen], NEW p \in Process, NEW r \in Screen,
         screen' = [screen EXCEPT ![p] = r]
  PROVE  /\ screen' \in [Process -> Screen] /\ screen'[p] = r
         /\ \A q \in Process \ {p} : screen'[q] = screen[q]
OBVIOUS

LEMMA StatusWritten ==
  ASSUME screen \in [Process -> Screen], NEW p \in Process, NEW x \in {"closed", "loading", "ready", "failed"},
         screen' = [screen EXCEPT ![p].status = x]
  PROVE  /\ screen' \in [Process -> Screen] /\ screen'[p].status = x
         /\ \A q \in Process \ {p} : screen'[q] = screen[q]
<1> DEFINE r == [screen[p] EXCEPT !.status = x]
<1>1. screen[p] \in Screen
  OBVIOUS
<1>2. r \in Screen /\ r.status = x
  BY <1>1 DEF Screen
<1>3. screen' = [screen EXCEPT ![p] = r]
  OBVIOUS
<1> HIDE DEF r
<1> QED
  BY <1>2, <1>3

(* A settings command is a new call.                                       *)
LEMMA Asked ==
  ASSUME ShellTyped, NEW p \in Process, NEW op \in {"get", "close", "autostart"},
         NEW x \in {"none", "on", "off"} \cup Behaviour, Asks(p, op, x)
  PROVE  \E c \in Call :
           /\ call[p][c].stage = "idle"
           /\ call' \in [Process -> [Call -> Request]]
           /\ call'[p][c].stage = "called" /\ call'[p][c].op = op /\ call'[p][c].arg = x
           /\ \A d \in Call \ {c} : call'[p][d] = call[p][d]
           /\ \A q \in Process \ {p} : call'[q] = call[q]
<1>1. PICK c \in Call :
        /\ call[p][c].stage = "idle"
        /\ call' = [call EXCEPT ![p][c] = [NoCall EXCEPT !.stage = "called", !.op = op, !.arg = x]]
  BY DEF Asks
<1> DEFINE r == [NoCall EXCEPT !.stage = "called", !.op = op, !.arg = x]
<1>2. r \in Request /\ r.stage = "called" /\ r.op = op /\ r.arg = x
  BY DEF NoCall, Request, Behaviour
<1>3. call' = [call EXCEPT ![p][c] = r]
  BY <1>1
<1> HIDE DEF r
<1> QED
  BY <1>1, <1>2, <1>3, CallWritten DEF ShellTyped

(* A call that fails, before it has read the setting.                      *)
LEMMA FailedCall ==
  ASSUME ShellInv, NEW p \in Process, NEW c \in Call, Fails(p, c),
         call[p][c].stage \in {"called", "reading"},
         UNCHANGED <<phase, store>>, UNCHANGED shell, UNCHANGED <<setting, autostart, unsure>>
  PROVE  ShellTyped' /\ \A q \in Process : Shows(q)' /\ Current(q)'
<1>0. /\ ShellTyped /\ \A q \in Process : Shows(q) /\ Current(q)
      /\ UNCHANGED <<tray, window, overview>>
  BY DEF ShellInv, shell
<1>1. NoCall \in Request /\ NoCall.stage = "idle"
  BY DEF NoCall, Request, Behaviour
<1>2. /\ call' \in [Process -> [Call -> Request]] /\ call'[p][c].stage = "idle"
      /\ \A d \in Call \ {c} : call'[p][d] = call[p][d]
      /\ \A q \in Process \ {p} : call'[q] = call[q]
  BY <1>0, <1>1, CallWritten DEF Fails, ShellTyped
<1>3. /\ screen' \in [Process -> Screen] /\ \A q \in Process \ {p} : screen'[q] = screen[q]
      /\ \/ screen'[p] = screen[p]
         \/ screen'[p].status = "failed" /\ call[p][c].mine
  <2>1. CASE screen' = screen
    BY <1>0, <2>1 DEF ShellTyped
  <2>2. CASE screen' = [screen EXCEPT ![p].status = "failed"] /\ call[p][c].mine
    BY <1>0, <2>2, StatusWritten DEF ShellTyped
  <2> QED
    BY <2>1, <2>2 DEF Fails
<1>4. ShellTyped'
  BY <1>0, <1>2, <1>3 DEF ShellTyped
<1>5. ASSUME NEW q \in Process \ {p}
      PROVE  Shows(q)' /\ Current(q)'
  BY <1>0, <1>2, <1>3, Informed
<1>6. Shows(p)'
  BY <1>0, <1>2, <1>3 DEF Shows
<1>7. Current(p)'
  <2>1. \A d \in Call : /\ Reading(p, d)' <=> Reading(p, d)
                        /\ Reading(p, d) => call'[p][d] = call[p][d]
                        /\ call'[p][d].stage = "building" => call[p][d].stage = "building"
    BY <1>2 DEF Reading
  <2> QED
    BY <1>0, <1>3, <2>1 DEF Current, CloseBehaviour
<1> QED
  BY <1>4, <1>5, <1>6, <1>7

LEMMA OpenKeepsShell ==
  ASSUME ShellInv, NEW p \in Process, OpenSettings(p)
  PROVE  ShellTyped' /\ \A q \in Process : Shows(q)' /\ Current(q)'
<1>0. /\ ShellTyped /\ \A q \in Process : Shows(q) /\ Current(q)
      /\ UNCHANGED <<phase, store>> /\ UNCHANGED <<tray, window, overview>>
      /\ UNCHANGED <<setting, autostart, unsure>>
  BY DEF ShellInv, OpenSettings, process, shell
<1>1. PICK c \in Call :
        /\ call[p][c].stage = "idle"
        /\ call' \in [Process -> [Call -> Request]]
        /\ call'[p][c].stage = "called" /\ call'[p][c].op = "get"
        /\ \A d \in Call \ {c} : call'[p][d] = call[p][d]
        /\ \A q \in Process \ {p} : call'[q] = call[q]
  BY <1>0, Asked DEF OpenSettings
<1>2. /\ screen' \in [Process -> Screen] /\ screen'[p].status = "loading"
      /\ \A q \in Process \ {p} : screen'[q] = screen[q]
  BY <1>0, StatusWritten DEF ShellTyped, OpenSettings
<1>3. ShellTyped'
  BY <1>0, <1>1, <1>2 DEF ShellTyped
<1>4. ASSUME NEW q \in Process \ {p}
      PROVE  Shows(q)' /\ Current(q)'
  BY <1>0, <1>1, <1>2, Informed
<1>5. Shows(p)'
  BY <1>0, <1>1, <1>2 DEF Shows, OpenSettings
<1>6. Current(p)'
  BY <1>0, <1>1, <1>2 DEF Current, Reading, CloseBehaviour
<1> QED
  BY <1>3, <1>4, <1>5, <1>6

LEMMA LeaveKeepsShell ==
  ASSUME ShellInv, NEW p \in Process, LeaveSettings(p)
  PROVE  ShellTyped' /\ \A q \in Process : Shows(q)' /\ Current(q)'
<1>0. /\ ShellTyped /\ \A q \in Process : Shows(q) /\ Current(q)
      /\ UNCHANGED <<phase, store>> /\ UNCHANGED <<tray, window, overview>>
      /\ UNCHANGED <<setting, autostart>>
  BY DEF ShellInv, LeaveSettings, storeVars, process, shell
<1> DEFINE f == [c \in Call |-> IF call[p][c].stage = "idle" THEN NoCall
                                                             ELSE [call[p][c] EXCEPT !.mine = FALSE]]
<1>1. f \in [Call -> Request]
  <2>1. \A c \in Call : call[p][c] \in Request
    BY <1>0 DEF ShellTyped
  <2>2. NoCall \in Request
    BY DEF NoCall, Request, Behaviour
  <2> QED
    BY <2>1, <2>2 DEF Request
<1>2. \A c \in Call : /\ f[c].stage # "idle" => call[p][c].stage = f[c].stage /\ ~f[c].mine
                                                /\ f[c].op = call[p][c].op /\ f[c].arg = call[p][c].arg
  <2>1. \A c \in Call : call[p][c] \in Request
    BY <1>0 DEF ShellTyped
  <2> QED
    BY <2>1 DEF Request, NoCall
<1>3. call' = [call EXCEPT ![p] = f]
  BY <1>0 DEF ShellTyped, LeaveSettings
<1> HIDE DEF f
<1>4. Closed \in Screen /\ Closed.status = "closed"
  BY DEF Closed, Screen, Behaviour
<1>5. /\ call' \in [Process -> [Call -> Request]] /\ call'[p] = f
      /\ screen' \in [Process -> Screen] /\ screen'[p].status = "closed"
      /\ unsure' \in [Process -> BOOLEAN]
      /\ \A q \in Process \ {p} : call'[q] = call[q] /\ screen'[q] = screen[q] /\ unsure'[q] = unsure[q]
  BY <1>0, <1>1, <1>3, <1>4 DEF ShellTyped, LeaveSettings
<1>6. ShellTyped'
  BY <1>0, <1>5 DEF ShellTyped
<1>7. ASSUME NEW q \in Process \ {p}
      PROVE  Shows(q)' /\ Current(q)'
  BY <1>0, <1>5, Informed
<1>8. Shows(p)'
  BY <1>0, <1>2, <1>5 DEF Shows
<1>9. Current(p)'
  BY <1>0, <1>2, <1>5 DEF Current, Reading
<1> QED
  BY <1>6, <1>7, <1>8, <1>9

LEMMA ChangeKeepsShell ==
  ASSUME ShellInv, NEW p \in Process, Change(p)
  PROVE  ShellTyped' /\ \A q \in Process : Shows(q)' /\ Current(q)'
<1>0. /\ ShellTyped /\ \A q \in Process : Shows(q) /\ Current(q)
      /\ UNCHANGED <<phase, store>> /\ UNCHANGED <<tray, window, overview>>
      /\ UNCHANGED <<setting, autostart, screen, unsure>>
  BY DEF ShellInv, Change, process, shell
<1>1. PICK op \in {"close", "autostart"}, x \in {"none", "on", "off"} \cup Behaviour :
        Asks(p, op, x) /\ (op = "close" => x \in Behaviour)
  <2>1. CASE \E b \in Behaviour : Asks(p, "close", b)
    BY <2>1
  <2>2. CASE Asks(p, "autostart", "off") \/ Asks(p, "autostart", "on")
    BY <2>2
  <2> QED
    BY <2>1, <2>2 DEF Change
<1>2. PICK c \in Call :
        /\ call[p][c].stage = "idle"
        /\ call' \in [Process -> [Call -> Request]]
        /\ call'[p][c].stage = "called" /\ call'[p][c].op = op /\ call'[p][c].arg = x
        /\ \A d \in Call \ {c} : call'[p][d] = call[p][d]
        /\ \A q \in Process \ {p} : call'[q] = call[q]
  BY <1>0, <1>1, Asked
<1>3. ShellTyped'
  BY <1>0, <1>2 DEF ShellTyped
<1>4. ASSUME NEW q \in Process \ {p}
      PROVE  Shows(q)' /\ Current(q)'
  BY <1>0, <1>2, Informed
<1>5. Shows(p)'
  BY <1>0, <1>1, <1>2 DEF Shows, Change
<1>6. Current(p)'
  BY <1>0, <1>2 DEF Current, Reading, CloseBehaviour
<1> QED
  BY <1>3, <1>4, <1>5, <1>6

LEMMA WriteKeepsShell ==
  ASSUME ShellInv, NEW p \in Process, NEW c \in Call, Write(p, c)
  PROVE  ShellTyped' /\ \A q \in Process : Shows(q)' /\ Current(q)'
<1> DEFINE r == [call[p][c] EXCEPT !.stage = "reading"]
<1>0. /\ ShellTyped /\ \A q \in Process : Shows(q) /\ Current(q)
      /\ UNCHANGED <<phase, store>> /\ UNCHANGED <<tray, window, overview>>
      /\ call[p][c].stage = "called" /\ call[p][c] \in Request
  BY DEF ShellInv, ShellTyped, Write, storeVars, process, shell
<1>1. CASE Fails(p, c) /\ UNCHANGED <<setting, autostart, unsure>>
  BY <1>0, <1>1, FailedCall DEF shell
<1>2. CASE /\ call' = [call EXCEPT ![p][c].stage = "reading"]
           /\ setting' = IF call[p][c].op = "close" THEN call[p][c].arg ELSE setting
           /\ autostart' = IF call[p][c].op = "autostart" THEN call[p][c].arg = "on" ELSE autostart
           /\ IF call[p][c].op = "get" THEN UNCHANGED unsure ELSE Behind
           /\ UNCHANGED screen
  <2>1. r \in Request /\ r.stage = "reading" /\ r.mine = call[p][c].mine /\ r.op = call[p][c].op
        /\ r.arg = call[p][c].arg
    BY <1>0 DEF Request
  <2>2. call' = [call EXCEPT ![p][c] = r]
    BY <1>0, <1>2 DEF ShellTyped
  <2> HIDE DEF r
  <2>3. /\ call' \in [Process -> [Call -> Request]] /\ call'[p][c] = r
        /\ \A d \in Call \ {c} : call'[p][d] = call[p][d]
        /\ \A q \in Process \ {p} : call'[q] = call[q]
    BY <1>0, <2>1, <2>2, CallWritten DEF ShellTyped
  <2>4. setting' \in {"unset", "unknown"} \cup Behaviour /\ autostart' \in BOOLEAN
    BY <1>0, <1>2 DEF ShellTyped, Shows
  <2>5. /\ unsure' \in [Process -> BOOLEAN]
        /\ \A q \in Process : \/ setting' = setting /\ unsure'[q] = unsure[q]
                              \/ unsure'[q] = (unsure[q] \/ screen[q].status # "closed")
    BY <1>0, <1>2 DEF ShellTyped, Behind
  <2>6. ShellTyped'
    BY <1>0, <1>2, <2>3, <2>4, <2>5 DEF ShellTyped
  <2>7. ASSUME NEW q \in Process \ {p}
        PROVE  Shows(q)' /\ Current(q)'
    BY <1>0, <1>2, <2>3, <2>5, Informed
  <2>8. Shows(p)'
    BY <1>0, <1>2, <2>1, <2>3 DEF Shows
  <2>9. Current(p)'
    <3>1. \A d \in Call : /\ Reading(p, d)' <=> Reading(p, d)
                          /\ Reading(p, d) => call'[p][d] = call[p][d]
                          /\ call'[p][d].stage = "building" => call[p][d].stage = "building"
      BY <1>0, <2>1, <2>3 DEF Reading
    <3>2. CASE setting' = setting /\ unsure'[p] = unsure[p]
      BY <1>0, <1>2, <3>1, <3>2 DEF Current, CloseBehaviour
    <3>3. CASE unsure'[p] = (unsure[p] \/ screen[p].status # "closed")
      BY <1>0, <1>2, <3>1, <3>3 DEF Current, Reading, Shows
    <3> QED
      BY <2>5, <3>2, <3>3
  <2> QED
    BY <2>6, <2>7, <2>8, <2>9
<1> QED
  BY <1>1, <1>2 DEF Write

LEMMA ReadKeepsShell ==
  ASSUME ShellInv, NEW p \in Process, NEW c \in Call, ReadSetting(p, c)
  PROVE  ShellTyped' /\ \A q \in Process : Shows(q)' /\ Current(q)'
<1> DEFINE r == [call[p][c] EXCEPT !.stage = "building", !.close = CloseBehaviour]
<1>0. /\ ShellTyped /\ \A q \in Process : Shows(q) /\ Current(q)
      /\ UNCHANGED <<phase, store>> /\ UNCHANGED <<tray, window, overview>>
      /\ UNCHANGED <<setting, autostart>>
      /\ call[p][c].stage = "reading" /\ call[p][c] \in Request
  BY DEF ShellInv, ShellTyped, ReadSetting, storeVars, process, shell
<1>1. CASE Fails(p, c) /\ UNCHANGED unsure
  BY <1>0, <1>1, FailedCall DEF shell
<1>2. CASE /\ store[p] = "ok"
           /\ call' = [call EXCEPT ![p][c].stage = "building", ![p][c].close = CloseBehaviour]
           /\ unsure' = [unsure EXCEPT ![p] = IF call[p][c].mine THEN Overlapped(p, c) ELSE @]
           /\ UNCHANGED screen
  <2>1. /\ r \in Request /\ r.stage = "building" /\ r.mine = call[p][c].mine /\ r.op = call[p][c].op
        /\ r.arg = call[p][c].arg /\ r.close = CloseBehaviour
    BY <1>0 DEF Request, CloseBehaviour, Behaviour
  <2>2. call' = [call EXCEPT ![p][c] = r]
    BY <1>0, <1>2 DEF ShellTyped
  <2> HIDE DEF r
  <2>3. /\ call' \in [Process -> [Call -> Request]] /\ call'[p][c] = r
        /\ \A d \in Call \ {c} : call'[p][d] = call[p][d]
        /\ \A q \in Process \ {p} : call'[q] = call[q]
    BY <1>0, <2>1, <2>2, CallWritten DEF ShellTyped
  <2>4. Overlapped(p, c) \in BOOLEAN
    BY DEF Overlapped
  <2>5. /\ unsure' \in [Process -> BOOLEAN]
        /\ unsure'[p] = IF call[p][c].mine THEN Overlapped(p, c) ELSE unsure[p]
        /\ \A q \in Process \ {p} : unsure'[q] = unsure[q]
    BY <1>0, <1>2, <2>4 DEF ShellTyped
  <2>6. ShellTyped'
    BY <1>0, <1>2, <2>3, <2>5 DEF ShellTyped
  <2>7. ASSUME NEW q \in Process \ {p}
        PROVE  Shows(q)' /\ Current(q)'
    BY <1>0, <1>2, <2>3, <2>5, Informed
  <2>8. Shows(p)'
    BY <1>0, <1>2, <2>1, <2>3 DEF Shows
  <2>9. Current(p)'
    <3>1. CASE call[p][c].mine
      <4>1. ~unsure'[p] => \A d \in Call \ {c} : ~Reading(p, d)'
        BY <2>3, <2>5, <3>1 DEF Overlapped, Reading
      <4>2. Reading(p, c)' /\ call'[p][c].close = CloseBehaviour'
        BY <1>0, <2>1, <2>3, <3>1 DEF Reading, CloseBehaviour
      <4>3. \A d \in Call : call'[p][d].stage = "building" => store'[p] = "ok"
        BY <1>0, <1>2
      <4> QED
        BY <4>1, <4>2, <4>3 DEF Current
    <3>2. CASE ~call[p][c].mine
      <4>1. \A d \in Call : /\ Reading(p, d)' <=> Reading(p, d)
                            /\ Reading(p, d) => call'[p][d] = call[p][d]
        BY <2>1, <2>3, <3>2 DEF Reading
      <4>2. CloseBehaviour' = CloseBehaviour /\ unsure'[p] = unsure[p]
        BY <1>0, <2>5, <3>2 DEF CloseBehaviour
      <4>3. /\ \A d \in Call : call'[p][d].stage = "building" => store'[p] = "ok"
            /\ ~unsure'[p] => \A d \in Call : Reading(p, d)' => call'[p][d].close = CloseBehaviour'
        BY <1>0, <1>2, <4>1, <4>2 DEF Current
      <4>4. screen'[p] = screen[p] /\ tray'[p] = tray[p]
        BY <1>0, <1>2
      <4>5. ~unsure'[p] /\ screen'[p].status = "ready" /\ (\A d \in Call : ~Reading(p, d)') =>
              screen'[p].close = CloseBehaviour' /\ screen'[p].tray = tray'[p]
        BY <1>0, <4>1, <4>2, <4>4 DEF Current
      <4> QED
        BY <4>3, <4>5 DEF Current
    <3> QED
      BY <3>1, <3>2
  <2> QED
    BY <2>6, <2>7, <2>8, <2>9
<1> QED
  BY <1>1, <1>2 DEF ReadSetting

LEMMA ShowKeepsShell ==
  ASSUME ShellInv, NEW p \in Process, NEW c \in Call, ShowSettings(p, c)
  PROVE  ShellTyped' /\ \A q \in Process : Shows(q)' /\ Current(q)'
<1>0. /\ ShellTyped /\ \A q \in Process : Shows(q) /\ Current(q)
      /\ UNCHANGED <<phase, store>> /\ UNCHANGED <<tray, window, overview>>
      /\ UNCHANGED <<setting, autostart, unsure>>
      /\ call[p][c].stage = "building" /\ call[p][c] \in Request
  BY DEF ShellInv, ShellTyped, ShowSettings, Show, storeVars, process, shell
<1>1. PICK supported \in {FALSE, Attached(p)} : Show(p, c, supported)
  BY DEF ShowSettings
<1> DEFINE s == [status |-> IF call[p][c].op = "get" THEN "ready" ELSE screen[p].status,
                 close |-> call[p][c].close, tray |-> tray[p],
                 supported |-> supported, autostart |-> supported /\ autostart]
<1>2. supported \in BOOLEAN
  <2>1. Attached(p) \in BOOLEAN
    BY DEF Attached
  <2> QED
    BY <2>1
<1>3. /\ s \in Screen /\ s.close = call[p][c].close /\ s.tray = tray[p]
      /\ s.status = IF call[p][c].op = "get" THEN "ready" ELSE screen[p].status
  <2>1. screen[p] \in Screen /\ tray[p] \in BOOLEAN /\ autostart \in BOOLEAN
    BY <1>0 DEF ShellTyped
  <2>2. (IF call[p][c].op = "get" THEN "ready" ELSE screen[p].status) \in {"closed", "loading", "ready", "failed"}
    BY <2>1 DEF Screen
  <2>3. call[p][c].close \in Behaviour
    BY <1>0 DEF Request
  <2>4. (supported /\ autostart) \in BOOLEAN
    OBVIOUS
  <2> QED
    BY <1>2, <2>1, <2>2, <2>3, <2>4 DEF Screen
<1>4. /\ call' = [call EXCEPT ![p][c] = NoCall]
      /\ screen' = IF call[p][c].mine THEN [screen EXCEPT ![p] = s] ELSE screen
  BY <1>0, <1>1 DEF Show, ShellTyped
<1> HIDE DEF s
<1>5. NoCall \in Request /\ NoCall.stage = "idle"
  BY DEF NoCall, Request, Behaviour
<1>6. /\ call' \in [Process -> [Call -> Request]] /\ call'[p][c].stage = "idle"
      /\ \A d \in Call \ {c} : call'[p][d] = call[p][d]
      /\ \A q \in Process \ {p} : call'[q] = call[q]
  BY <1>0, <1>4, <1>5, CallWritten DEF ShellTyped
<1>7. /\ screen' \in [Process -> Screen]
      /\ \A q \in Process \ {p} : screen'[q] = screen[q]
      /\ screen'[p] = IF call[p][c].mine THEN s ELSE screen[p]
  BY <1>0, <1>3, <1>4 DEF ShellTyped
<1>8. ShellTyped'
  BY <1>0, <1>6, <1>7 DEF ShellTyped
<1>9. ASSUME NEW q \in Process \ {p}
      PROVE  Shows(q)' /\ Current(q)'
  BY <1>0, <1>6, <1>7, Informed
<1>10. store[p] = "ok" /\ phase[p] \in Past /\ (call[p][c].mine => screen[p].status # "closed")
  BY <1>0 DEF Current, Shows
<1>11. Shows(p)'
  BY <1>0, <1>3, <1>6, <1>7, <1>10 DEF Shows
<1>12. Current(p)'
  <2>1. \A d \in Call : Reading(p, d)' => Reading(p, d) /\ call'[p][d] = call[p][d]
    BY <1>6 DEF Reading
  <2>2. CASE call[p][c].mine
    <3>1. Reading(p, c)
      BY <1>0, <2>2 DEF Reading
    <3> QED
      BY <1>0, <1>3, <1>7, <1>10, <2>1, <2>2, <3>1 DEF Current, CloseBehaviour
  <2>3. CASE ~call[p][c].mine
    <3>1. \A d \in Call : Reading(p, d) => Reading(p, d)'
      BY <1>6, <2>3 DEF Reading
    <3> QED
      BY <1>0, <1>7, <1>10, <2>1, <2>3, <3>1 DEF Current, CloseBehaviour
  <2> QED
    BY <2>2, <2>3
<1> QED
  BY <1>8, <1>9, <1>11, <1>12

LEMMA SystemKeepsShell ==
  ASSUME ShellInv, SystemChanges
  PROVE  ShellTyped' /\ \A q \in Process : Shows(q)' /\ Current(q)'
<1>0. /\ ShellTyped /\ \A q \in Process : Shows(q) /\ Current(q)
      /\ UNCHANGED <<phase, store>> /\ UNCHANGED <<tray, window, overview>>
      /\ UNCHANGED <<setting, screen, call>> /\ autostart' = ~autostart /\ Behind
  BY DEF ShellInv, SystemChanges, process, shell
<1>1. unsure' \in [Process -> BOOLEAN]
      /\ \A q \in Process : unsure'[q] = (unsure[q] \/ screen[q].status # "closed")
  BY <1>0 DEF Behind, ShellTyped
<1>2. ShellTyped'
  BY <1>0, <1>1 DEF ShellTyped
<1> QED
  BY <1>0, <1>1, <1>2, Informed

LEMMA ShellInvStep ==
  ASSUME ShellInv, [Next]_vars
  PROVE  ShellInv'
<1>0. StoreInv'
  BY StoreAlways DEF ShellInv
<1>1. CASE UNCHANGED vars
  <2>1. /\ UNCHANGED <<phase, store>> /\ UNCHANGED <<tray, window, overview>>
        /\ UNCHANGED <<setting, autostart, screen, call, unsure>>
    BY <1>1 DEF vars, storeVars, process, shell, settings
  <2>2. ShellTyped'
    BY <2>1 DEF ShellInv, ShellTyped
  <2> QED
    BY <1>0, <2>1, <2>2, Informed DEF ShellInv
<1>2. ASSUME NEW p \in Process, ScreenStep(p)
      PROVE  ShellTyped' /\ \A q \in Process : Shows(q)' /\ Current(q)'
  <2>1. ASSUME NEW c \in Call, Refused(p, c)
        PROVE  ShellTyped' /\ \A q \in Process : Shows(q)' /\ Current(q)'
    BY <2>1, FailedCall DEF Refused, storeVars, process
  <2> QED
    BY <1>2, <2>1, OpenKeepsShell, LeaveKeepsShell, ChangeKeepsShell, WriteKeepsShell, ReadKeepsShell,
       ShowKeepsShell DEF ScreenStep, Command
<1>3. CASE Next
  BY <1>0, <1>2, <1>3, ShellSteps, OverStoreKeepsShell, SetupKeepsShell, EndKeepsShell, WindowKeepsShell,
     PageKeepsShell, SystemKeepsShell DEF ShellInv, Next
<1> QED
  BY <1>1, <1>3

-----------------------------------------------------------------------------
LEMMA StoreInvAlways == Spec => []StoreInv
<1>1. Init => StoreInv
  BY StoreInvInitially DEF Init
<1> QED
  BY <1>1, StoreAlways, PTL DEF Spec

LEMMA ShellInvAlways == Spec => []ShellInv
BY ShellInvInitially, ShellInvStep, PTL DEF Spec

(* Every variable of the store and the shell keeps its type, the write     *)
(* lock is held exactly while a migration is being committed, and a hidden *)
(* window always has a tray to open it from (close_action).                *)
THEOREM ShellTypeCorrect == Spec => []TypeOK
<1>1. ShellInv => TypeOK
  <2> SUFFICES ASSUME ShellInv
               PROVE  TypeOK
    OBVIOUS
  <2>1. StoreTypeOK /\ ShellTyped /\ \A p \in Process : Shows(p)
    BY DEF ShellInv, StoreInv, StoreTyped
  <2>2. \A p \in Process : /\ overview[p].status \in {"none", "starting", "ready", "failed"}
                           /\ screen[p].status \in {"closed", "loading", "ready", "failed"}
    BY <2>1 DEF ShellTyped, Overview, Screen
  <2>3. /\ tray \in [Process -> BOOLEAN]
        /\ window \in [Process -> {"none", "shown", "hidden"}]
        /\ setting \in {"unset", "unknown"} \cup Behaviour
    BY <2>1 DEF ShellTyped
  <2>4. \A p \in Process : window[p] = "hidden" => tray[p] /\ store[p] = "ok"
    BY <2>1 DEF Shows
  <2> QED
    BY <2>1, <2>2, <2>3, <2>4, Zenon DEF TypeOK
<1> QED
  BY <1>1, ShellInvAlways, PTL

(* Wherever processes are killed and however their migrations interleave,  *)
(* the schema is whole: the stored version names exactly the tables there  *)
(* are, and a process with a store finds them all and a profile, unless    *)
(* two deletions took the last ones.  (migrations::apply.)                 *)
THEOREM StoreStaysWhole == Spec => []StoreIsWhole
<1>1. StoreInv => StoreIsWhole
  BY DEF StoreInv, Migrates, StoreIsWhole
<1> QED
  BY <1>1, StoreInvAlways, PTL

(* A start is left without its store only by a failure of the storage or   *)
(* another process, never by how an earlier process ended.                 *)
(* (AppState::initialize.)                                                 *)
THEOREM FailsForAReason == Spec => []UnavailableForAReason
<1>1. StoreInv => UnavailableForAReason
  BY DEF StoreInv
<1> QED
  BY <1>1, StoreInvAlways, PTL

(* However many processes start together and whoever of them is killed,    *)
(* they never all lose the store to each other: of those that migrate or   *)
(* seed one is always ahead, and only its storage can stop it.             *)
(* (migrations::apply, seed_default_profile.)                              *)
THEOREM SomebodyWins == Spec => []SomebodyGetsTheStore
<1>1. StoreInv => SomebodyGetsTheStore
  BY DEF StoreInv, Ahead, SomebodyGetsTheStore
<1> QED
  BY <1>1, StoreInvAlways, PTL

(* The first profile is created once: it does not come back after it was   *)
(* renamed or deleted, unless no profile was left.  (seed_default_profile.) *)
THEOREM SeedsOnce == Spec => []SeededOnce
<1>1. StoreInv => SeededOnce
  BY DEF StoreInv
<1> QED
  BY <1>1, StoreInvAlways, PTL

(* Closing the window does what the settings screen shows, whatever        *)
(* settings commands overlap and whatever other processes set, unless the  *)
(* screen is known to be behind; and it quits if the setting cannot be     *)
(* read at the close.  (useShellSettings, close_action, close_behavior.)   *)
THEOREM ClosesAsShown == Spec => []ClosingDoesWhatIsShown
<1>1. ShellInv => ClosingDoesWhatIsShown
  <2> SUFFICES ASSUME ShellInv, NEW p \in Process,
                      screen[p].status = "ready", ~unsure[p],
                      \A c \in Call : call[p][c].stage = "idle",
                      NEW readable \in BOOLEAN
               PROVE  Hides(p, readable) <=>
                        readable /\ screen[p].close = "hide" /\ screen[p].tray
    BY DEF ClosingDoesWhatIsShown
  <2>1. Shows(p) /\ Current(p)
    BY DEF ShellInv
  <2>2. store[p] = "ok" /\ screen[p].close = CloseBehaviour /\ screen[p].tray = tray[p]
    BY <2>1 DEF Shows, Current, Reading
  <2> QED
    BY <2>2 DEF Hides, BehaviourOnClose
<1> QED
  BY <1>1, ShellInvAlways, PTL

(* An overview that has been shown stays until its process ends: neither a *)
(* late error nor a late retry takes it away.  (useRuntimeOverview.)       *)
THEOREM OverviewStays == Spec => ReadyIsFinal
<1>1. ASSUME ShellInv, [Next]_vars, NEW p \in Process, overview[p].status = "ready"
      PROVE  overview'[p].status = "ready" \/ ~Running(p)'
  <2>0. overview \in [Process -> Overview] /\ overview[p] \in Overview /\ phase \in [Process -> Phase]
    BY <1>1 DEF ShellInv, ShellTyped, StoreInv, StoreTyped, StoreTypeOK, Phase
  <2>1. CASE UNCHANGED overview
    BY <1>1, <2>1
  <2>2. ASSUME NEW q \in Process, OverStore(q) \/ SetupStep(q) \/ WindowStep(q) \/ ScreenStep(q)
        PROVE  UNCHANGED overview \/ overview' = [overview EXCEPT ![q].events = 1]
    <3>1. OverStore(q) \/ WindowStep(q) => UNCHANGED overview
      BY DEF OverStore, WindowStep, CloseHides, TrayOpens, shell
    <3>2. SetupStep(q) => UNCHANGED overview \/ overview' = [overview EXCEPT ![q].events = 1]
      BY DEF SetupStep, CreateMainWindow, AttachAutostart, SpawnTray, EmitReady, shell
    <3>3. OpenSettings(q) \/ LeaveSettings(q) \/ Change(q) => UNCHANGED overview
      BY DEF OpenSettings, LeaveSettings, Change, shell
    <3>4. Command(q) => UNCHANGED overview
      BY DEF Command, Write, Refused, ReadSetting, ShowSettings, Show, shell
    <3> QED
      BY <2>2, <3>1, <3>2, <3>3, <3>4 DEF ScreenStep
  <2>3. ASSUME NEW q \in Process, overview' = [overview EXCEPT ![q].events = 1]
        PROVE  overview'[p].status = "ready"
    BY <1>1, <2>0, <2>3 DEF Overview
  <2>4. ASSUME NEW q \in Process, EndStep(q)
        PROVE  overview'[p].status = "ready" \/ ~Running(p)'
    <3>1. overview' = [overview EXCEPT ![q] = NoOverview] /\ phase' = [phase EXCEPT ![q] = "down"]
      BY <2>4 DEF EndStep, Killed, CloseQuits, TrayQuits, Ends, Gone
    <3> QED
      BY <1>1, <2>0, <3>1 DEF Running
  <2>5. ASSUME NEW q \in Process, PageStep(q)
        PROVE  overview'[p].status = "ready"
    <3>1. CASE Subscribe(q) \/ HandleReady(q)
      BY <1>1, <2>0, <3>1 DEF Subscribe, HandleReady, Overview
    <3>2. CASE Answer(q) \/ AnswerError(q)
      BY <1>1, <2>0, <3>2 DEF Answer, AnswerError, Overview
    <3>3. CASE Mount(q) \/ Retry(q)
      BY <1>1, <2>0, <3>3 DEF Mount, Retry
    <3> QED
      BY <2>5, <3>1, <3>2, <3>3 DEF PageStep, Page
  <2>6. SystemChanges \/ UNCHANGED vars => UNCHANGED overview
    BY DEF SystemChanges, vars, shell
  <2> QED
    BY <1>1, <2>1, <2>2, <2>3, <2>4, <2>5, <2>6, ShellSteps DEF Next
<1>2. ShellInv /\ [Next]_vars =>
        [\A p \in Process : overview[p].status = "ready" =>
           overview'[p].status = "ready" \/ ~Running(p)']_vars
  BY <1>1
<1> QED
  BY <1>2, ShellInvAlways, PTL DEF Spec, ReadyIsFinal
=============================================================================
