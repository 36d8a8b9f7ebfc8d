------------------------ MODULE ListenerConfigProofs ------------------------
(***************************************************************************)
(* Proofs about ListenerConfig, for any listeners, ports, profiles, threads *)
(* and commands and any number of failing accesses.                        *)
(*                                                                         *)
(* The first part is about the table alone, the second about the table and *)
(* the runtime: a command acts on what it read or checked before, so what  *)
(* holds of a listener holds but for starts that crossed a change of that  *)
(* listener, which crossed names.                                          *)
(***************************************************************************)
EXTENDS ListenerConfig, TLAPS

(* Which arguments a command has at each of its steps. *)
OnListener == {"draft create", "insert", "find update", "check stopped", "draft update",
               "write", "mark", "reread", "stop", "find delete", "stop before remove",
               "remove"}
Drafting == {"draft create", "insert", "find update", "check stopped", "draft update", "write"}
OnProfile == {"require profile", "count", "drop"}

Arg == [listener : Listener \cup {NoListener}, port : Port \cup {NoPort},
        profile : Profile \cup {NoProfile}, enabled : BOOLEAN]

ArgFits(a) ==
  /\ arg[a] \in Arg
  /\ at[a] \in OnListener => arg[a].listener \in used
  /\ at[a] \in Drafting => arg[a].port \in Port
  /\ at[a] \in Drafting \cup OnProfile => arg[a].profile \in Profile
  /\ at[a] \in {"idle", "list"} => arg[a] = NoArg
  /\ at[a] = "start" => arg[a] = NoArg \/ arg[a].listener \in used

ConfigTyped ==
  /\ Runtime!TypeOK
  /\ serving \in [Listener -> Profile \cup {NoProfile}]
  /\ row \in [Listener -> Row \cup {NoRow}]
  /\ profiles \in SUBSET Profile
  /\ used \in SUBSET Listener
  /\ at \in [Actor -> {"idle"} \cup StoreStep \cup RuntimeCall]
  /\ arg \in [Actor -> Arg]
  /\ read \in [Actor -> [Listener -> Row \cup {NoRow}]]
  /\ failures \in 0..MaxFailures

HistoryTyped == crossed \in SUBSET Listener /\ halfway \in SUBSET Listener

RowsFit ==
  \A l \in Listener : Exists(l) =>
    /\ row[l].profile \in profiles
    /\ \A k \in Listener \ {l} : row[k].port # row[l].port

RowsInv == ConfigTyped /\ RowsFit /\ \A a \in Actor : ArgFits(a)


LEMMA RowsInvInitially == Init => RowsInv
<1> SUFFICES ASSUME Init
             PROVE  RowsInv
  OBVIOUS
<1>1. Runtime!TypeOK
  BY DEF Init, Runtime!Init, Runtime!TypeOK, Runtime!Status
<1>2. ConfigTyped
  BY <1>1, MaxFailuresAssumption DEF Init, ConfigTyped, NoRows, NoArg, Arg, NoRow
<1>3. RowsFit
  BY DEF Init, RowsFit, Exists, NoRows
<1>4. \A a \in Actor : ArgFits(a)
  BY DEF Init, ArgFits, OnListener, Drafting, OnProfile, NoArg, Arg
<1> QED
  BY <1>2, <1>3, <1>4 DEF RowsInv

(* The runtime keeps its types, whatever is asked of it. *)
LEMMA RuntimeTyped ==
  ASSUME Runtime!TypeOK, [Runtime!Next]_(Runtime!vars)
  PROVE  Runtime!TypeOK'
BY DEF Runtime!TypeOK, Runtime!Next, Runtime!vars, Runtime!Begin, Runtime!AskStop,
       Runtime!Settle, Runtime!Serve, Runtime!Refuse, Runtime!Close, Runtime!Status

(* A step of a command that leaves the store and the runtime alone. *)
LEMMA OnlyControl ==
  ASSUME RowsInv, UNCHANGED <<runtimeVars, storeVars>>,
         used' \in SUBSET Listener, at' \in [Actor -> {"idle"} \cup StoreStep \cup RuntimeCall],
         arg' \in [Actor -> Arg], read' \in [Actor -> [Listener -> Row \cup {NoRow}]],
         failures' \in 0..MaxFailures
  PROVE  ConfigTyped' /\ RowsFit'
BY DEF RowsInv, ConfigTyped, RowsFit, Exists, Runtime!TypeOK, runtimeVars, storeVars

(***************************************************************************)
(* Steps of an actor, by what they do to the store and the runtime.        *)
(***************************************************************************)
CallStep(a) ==
  \/ CallCreate(a) \/ CallUpdate(a) \/ CallSetEnabled(a) \/ CallDelete(a)
  \/ CallStartEnabled(a) \/ CallDeleteProfile(a)

CheckStep(a) ==
  \/ CreateDraft(a) \/ UpdateFind(a) \/ UpdateCheckStopped(a) \/ UpdateDraft(a)
  \/ DeleteFind(a) \/ RequireProfile(a) \/ CountProfiles(a)

ReadStep(a) == Reread(a) \/ ListEnabled(a) \/ StartsRequested(a) \/ StoreFails(a)

WriteStep(a) ==
  CreateInsert(a) \/ UpdateWrite(a) \/ Mark(a) \/ DeleteRemove(a) \/ DropProfile(a)

TellStep(a) == Stop(a) \/ DeleteStop(a) \/ StopAll(a) \/ \E l \in Listener : RequestStart(a, l)

(* Every step of an actor is of one of the five kinds.                     *)
LEMMA ActorSteps ==
  ASSUME NEW a \in Actor, ActorStep(a)
  PROVE  CallStep(a) \/ CheckStep(a) \/ ReadStep(a) \/ WriteStep(a) \/ TellStep(a)
BY DEF ActorStep, CommandStep, CallStep, CheckStep, ReadStep, WriteStep, TellStep

LEMMA CallKeepsRows ==
  ASSUME RowsInv, NEW a \in Actor, CallStep(a)
  PROVE  RowsInv'
<1> USE DEF StoreStep, RuntimeCall, OnListener, Drafting, OnProfile, Arg, NoArg
<1> DEFINE Given(op, first, x) ==
             /\ Call(a, op, first, x)
             /\ first \in StoreStep /\ x \in Arg
             /\ used' \in SUBSET Listener /\ used \subseteq used'
             /\ first \in OnListener => x.listener \in used'
             /\ first \in Drafting => x.port \in Port
             /\ first \in Drafting \cup OnProfile => x.profile \in Profile
             /\ first = "list" => x = NoArg
<1>1. \E op, first, x : Given(op, first, x)
  <2>0. used \in SUBSET Listener
    BY DEF RowsInv, ConfigTyped
  <2>1. CASE CallCreate(a)
    <3>1. PICK l \in Listener \ used, p \in Port, f \in Profile :
            Call(a, "create", "draft create", [NoArg EXCEPT !.listener = l, !.port = p, !.profile = f]) /\ used' = used \cup {l}
      BY <2>1 DEF CallCreate
    <3>2. Given("create", "draft create", [NoArg EXCEPT !.listener = l, !.port = p, !.profile = f])
      BY <2>0, <3>1
    <3> QED
      BY <3>2
  <2>2. CASE CallUpdate(a)
    <3>1. PICK l \in used, p \in Port, f \in Profile :
            Call(a, "update", "find update", [NoArg EXCEPT !.listener = l, !.port = p, !.profile = f]) /\ UNCHANGED used
      BY <2>2 DEF CallUpdate
    <3>2. Given("update", "find update", [NoArg EXCEPT !.listener = l, !.port = p, !.profile = f])
      BY <2>0, <3>1
    <3> QED
      BY <3>2
  <2>3. CASE CallSetEnabled(a)
    <3>1. PICK l \in used, on \in BOOLEAN :
            Call(a, "set_enabled", "mark", [NoArg EXCEPT !.listener = l, !.enabled = on]) /\ UNCHANGED used
      BY <2>3 DEF CallSetEnabled
    <3>2. Given("set_enabled", "mark", [NoArg EXCEPT !.listener = l, !.enabled = on])
      BY <2>0, <3>1
    <3> QED
      BY <3>2
  <2>4. CASE CallDelete(a)
    <3>1. PICK l \in used :
            Call(a, "delete", "find delete", [NoArg EXCEPT !.listener = l]) /\ UNCHANGED used
      BY <2>4 DEF CallDelete
    <3>2. Given("delete", "find delete", [NoArg EXCEPT !.listener = l])
      BY <2>0, <3>1
    <3> QED
      BY <3>2
  <2>5. CASE CallDeleteProfile(a)
    <3>1. PICK f \in Profile :
            Call(a, "delete_profile", "require profile", [NoArg EXCEPT !.profile = f]) /\ UNCHANGED used
      BY <2>5 DEF CallDeleteProfile
    <3>2. Given("delete_profile", "require profile", [NoArg EXCEPT !.profile = f])
      BY <2>0, <3>1
    <3> QED
      BY <3>2
  <2>6. CASE CallStartEnabled(a)
    <3>1. Given("start_enabled", "list", NoArg)
      BY <2>0, <2>6 DEF CallStartEnabled
    <3> QED
      BY <3>1
  <2> QED
    BY <2>1, <2>2, <2>3, <2>4, <2>5, <2>6 DEF CallStep
<1>. PICK op, first, x : Given(op, first, x)
  BY <1>1
<1>2. ConfigTyped' /\ RowsFit'
  BY OnlyControl DEF RowsInv, ConfigTyped, Call
<1>3. ASSUME NEW b \in Actor
      PROVE  ArgFits(b)'
  BY DEF RowsInv, ConfigTyped, Call, ArgFits
<1> QED
  BY <1>2, <1>3 DEF RowsInv

LEMMA CheckKeepsRows ==
  ASSUME RowsInv, NEW a \in Actor, CheckStep(a) \/ ReadStep(a)
  PROVE  RowsInv'
<1> USE DEF StoreStep, RuntimeCall, OnListener, Drafting, OnProfile
<1>0. ConfigTyped /\ NoArg \in Arg /\ NoRows \in [Listener -> Row \cup {NoRow}]
  BY DEF RowsInv, NoArg, Arg, NoRows
<1>1. CASE CheckStep(a)
  <2>1. PICK from, ok, to :
          /\ Check(a, from, ok, to)
          /\ <<from, to>> \in {<<"draft create", "insert">>, <<"find update", "check stopped">>,
                <<"check stopped", "draft update">>, <<"draft update", "write">>,
                <<"find delete", "stop before remove">>, <<"require profile", "count">>,
                <<"count", "drop">>}
    BY <1>1 DEF CheckStep, CreateDraft, UpdateFind, UpdateCheckStopped, UpdateDraft,
       DeleteFind, RequireProfile, CountProfiles
  <2>2. ConfigTyped' /\ RowsFit'
    BY <1>0, <2>1, OnlyControl DEF ConfigTyped, Check, Proceed, ReturnFrom, Return
  <2>3. ASSUME NEW b \in Actor
        PROVE  ArgFits(b)'
    BY <1>0, <2>1 DEF RowsInv, ConfigTyped, Check, Proceed, ReturnFrom, Return, ArgFits
  <2> QED
    BY <2>2, <2>3 DEF RowsInv
<1>2. CASE ReadStep(a)
  <2>1. EnabledRows \in [Listener -> Row \cup {NoRow}]
    BY <1>0 DEF ConfigTyped, EnabledRows
  <2>2. ConfigTyped' /\ RowsFit'
    <3>1. UNCHANGED <<runtimeVars, storeVars, used>>
      BY <1>2 DEF ReadStep, Reread, ListEnabled, StartsRequested, StoreFails, Proceed,
                  ReturnFrom, Return
    <3>2. /\ at' \in [Actor -> {"idle"} \cup StoreStep \cup RuntimeCall]
          /\ arg' \in [Actor -> Arg]
      BY <1>0, <1>2 DEF ConfigTyped, ReadStep, Reread, ListEnabled, StartsRequested, StoreFails,
                  Proceed, ReturnFrom, Return
    <3>3. read' \in [Actor -> [Listener -> Row \cup {NoRow}]]
      <4> USE <1>0 DEF ConfigTyped, Proceed, ReturnFrom, Return
      <4>1. CASE Reread(a)
        <5>1. arg[a].listener \in Listener /\ row[arg[a].listener] \in Row \cup {NoRow}
          BY <4>1 DEF Reread, RowsInv, ArgFits
        <5> DEFINE r == [read[a] EXCEPT ![arg[a].listener] = row[arg[a].listener]]
        <5>2. r \in [Listener -> Row \cup {NoRow}]
          BY <5>1
        <5>3. read' = [read EXCEPT ![a] = r] \/ read' = [read EXCEPT ![a] = NoRows]
          BY <4>1 DEF Reread
        <5> HIDE DEF r
        <5> QED
          BY <5>2, <5>3
      <4>2. CASE ListEnabled(a)
        BY <2>1, <4>2 DEF ListEnabled
      <4>3. CASE StartsRequested(a) \/ StoreFails(a)
        BY <4>3 DEF StartsRequested, StoreFails
      <4> QED
        BY <1>2, <4>1, <4>2, <4>3 DEF ReadStep
    <3>4. failures' \in 0..MaxFailures
      <4>1. failures' = failures \/ (failures' = failures + 1 /\ failures < MaxFailures)
        BY <1>2 DEF ReadStep, Reread, ListEnabled, StartsRequested, StoreFails, Proceed, ReturnFrom
      <4>2. failures \in 0..MaxFailures
        BY <1>0 DEF ConfigTyped
      <4> QED
        BY <4>1, <4>2, MaxFailuresAssumption
    <3> QED
      BY <1>0, <3>1, <3>2, <3>3, <3>4, OnlyControl DEF ConfigTyped
  <2>3. ASSUME NEW b \in Actor
        PROVE  ArgFits(b)'
    BY <1>0, <1>2 DEF RowsInv, ConfigTyped, ReadStep, Reread, ListEnabled, StartsRequested,
       StoreFails, Proceed, ReturnFrom, Return, ArgFits
  <2> QED
    BY <2>2, <2>3 DEF RowsInv
<1> QED
  BY <1>1, <1>2

(* What a write makes of the rows: one row is replaced by one that fits,   *)
(* or rows are removed, and with a profile all its rows.                   *)
LEMMA RowReplaced ==
  ASSUME ConfigTyped, RowsFit, NEW l \in Listener, NEW r \in Row,
         row' = [row EXCEPT ![l] = r], UNCHANGED profiles, Storable(l, r.port, r.profile)
  PROVE  row' \in [Listener -> Row \cup {NoRow}] /\ RowsFit'
<1>1. row \in [Listener -> Row \cup {NoRow}]
  BY DEF ConfigTyped
<1>2. \A k \in Listener : row'[k] = IF k = l THEN r ELSE row[k]
  BY <1>1
<1>3. ASSUME NEW k \in Listener, Exists(k)'
      PROVE  /\ row'[k].profile \in profiles'
             /\ \A j \in Listener \ {k} : row'[j].port # row'[k].port
  BY <1>2, <1>3 DEF RowsFit, Exists, Storable
<1> QED
  BY <1>1, <1>3 DEF RowsFit

(* Removing rows and profiles together leaves the rest consistent.         *)
LEMMA RowsRemoved ==
  ASSUME ConfigTyped, RowsFit,
         row' \in [Listener -> Row \cup {NoRow}], profiles' \subseteq profiles,
         \A l \in Listener : row'[l] = NoRow \/ (row'[l] = row[l] /\ row[l].profile \in profiles')
  PROVE  RowsFit'
<1>1. ASSUME NEW l \in Listener, Exists(l)'
      PROVE  /\ row'[l].profile \in profiles'
             /\ \A k \in Listener \ {l} : row'[k].port # row'[l].port
  <2>1. row'[l] = row[l] /\ Exists(l) /\ row[l] \in Row /\ row[l].profile \in profiles'
    BY <1>1 DEF Exists, ConfigTyped
  <2>2. row[l].port \in Port /\ NoRow.port = NoPort
    BY <2>1 DEF Row, NoRow
  <2> QED
    BY <2>1, <2>2, NoneAssumption DEF RowsFit
<1> QED
  BY <1>1 DEF RowsFit

LEMMA WriteKeepsRows ==
  ASSUME RowsInv, NEW a \in Actor, WriteStep(a)
  PROVE  RowsInv'
<1> DEFINE x == arg[a]
<1>0. ConfigTyped /\ RowsFit /\ ArgFits(a) /\ NoArg \in Arg /\ NoRows \in [Listener -> Row \cup {NoRow}]
  BY DEF RowsInv, NoArg, Arg, NoRows
<1>1. /\ UNCHANGED <<runtimeVars, used, failures>>
      /\ at' \in [Actor -> {"idle"} \cup StoreStep \cup RuntimeCall]
      /\ arg' \in [Actor -> Arg]
      /\ read' \in [Actor -> [Listener -> Row \cup {NoRow}]]
      /\ \A b \in Actor : b # a => at'[b] = at[b] /\ arg'[b] = arg[b]
      /\ (at'[a] = "idle" /\ arg'[a] = NoArg) \/ (at'[a] = "reread" /\ at[a] = "mark" /\ arg'[a] = arg[a])
  BY <1>0 DEF WriteStep, CreateInsert, UpdateWrite, Mark, DeleteRemove, DropProfile, Proceed,
     ReturnFrom, Return, ConfigTyped, StoreStep
<1>2. \A b \in Actor : ArgFits(b)'
  BY <1>1 DEF RowsInv, ArgFits, OnListener, Drafting, OnProfile
<1>3. /\ row' \in [Listener -> Row \cup {NoRow}]
      /\ profiles' \in SUBSET Profile
      /\ RowsFit'
  <2>0. row \in [Listener -> Row \cup {NoRow}] /\ profiles \in SUBSET Profile /\ used \in SUBSET Listener
    BY <1>0 DEF ConfigTyped
  <2>1. CASE UNCHANGED storeVars
    BY <1>0, <2>0, <2>1 DEF storeVars, RowsFit, Exists
  <2>2. CASE CreateInsert(a) /\ ~UNCHANGED storeVars
    <3>1. x.listener \in Listener /\ x.port \in Port /\ x.profile \in Profile
      BY <1>0, <2>0, <2>2 DEF CreateInsert, ReturnFrom, ArgFits, OnListener, Drafting
    <3> DEFINE r == [port |-> x.port, profile |-> x.profile, enabled |-> FALSE]
    <3>2. r \in Row /\ r.port = x.port /\ r.profile = x.profile
      BY <3>1 DEF Row
    <3>3. /\ row' = [row EXCEPT ![x.listener] = r] /\ UNCHANGED profiles
          /\ Storable(x.listener, x.port, x.profile)
      BY <2>2 DEF CreateInsert, storeVars
    <3> QED
      BY <1>0, <2>0, <3>1, <3>2, <3>3, RowReplaced
  <2>3. CASE UpdateWrite(a) /\ ~UNCHANGED storeVars
    <3>1. x.listener \in Listener /\ x.port \in Port /\ x.profile \in Profile
      BY <1>0, <2>0, <2>3 DEF UpdateWrite, ReturnFrom, ArgFits, OnListener, Drafting
    <3> DEFINE r == [row[x.listener] EXCEPT !.port = x.port, !.profile = x.profile]
    <3>2. Exists(x.listener) /\ Storable(x.listener, x.port, x.profile) /\ UNCHANGED profiles
      BY <2>3 DEF UpdateWrite, storeVars
    <3>3. r \in Row /\ r.port = x.port /\ r.profile = x.profile
      BY <2>0, <3>1, <3>2 DEF Row, Exists
    <3>4. row' = [row EXCEPT ![x.listener] = r]
      BY <2>0, <2>3, <3>1, <3>2 DEF UpdateWrite, Exists, Row
    <3> QED
      BY <1>0, <2>0, <3>1, <3>2, <3>3, <3>4, RowReplaced
  <2>4. CASE Mark(a) /\ ~UNCHANGED storeVars
    <3>1. /\ x.listener \in Listener /\ x.enabled \in BOOLEAN /\ Exists(x.listener)
          /\ UNCHANGED profiles
      BY <1>0, <2>0, <2>4 DEF Mark, storeVars, ArgFits, OnListener, Arg
    <3> DEFINE r == [row[x.listener] EXCEPT !.enabled = x.enabled]
    <3>2. r \in Row /\ r.port = row[x.listener].port /\ r.profile = row[x.listener].profile
      BY <2>0, <3>1 DEF Row, Exists
    <3>3. row' = [row EXCEPT ![x.listener] = r]
      BY <2>0, <2>4, <3>1 DEF Mark, Exists, Row
    <3>4. Storable(x.listener, r.port, r.profile)
      BY <1>0, <3>1, <3>2 DEF RowsFit, Storable
    <3> QED
      BY <1>0, <2>0, <3>1, <3>2, <3>3, <3>4, RowReplaced
  <2>5. CASE DeleteRemove(a)
    <3>1. row' = [row EXCEPT ![x.listener] = NoRow] /\ UNCHANGED profiles
      BY <2>5 DEF DeleteRemove
    <3>2. row' \in [Listener -> Row \cup {NoRow}]
      BY <2>0, <3>1
    <3>3. \A l \in Listener : row'[l] = NoRow \/ (row'[l] = row[l] /\ row[l].profile \in profiles')
      BY <1>0, <2>0, <3>1 DEF RowsFit, Exists
    <3> QED
      BY <1>0, <2>0, <3>1, <3>2, <3>3, RowsRemoved
  <2>6. CASE DropProfile(a)
    <3>1. /\ profiles' = profiles \ {x.profile}
          /\ row' = [l \in Listener |-> IF row[l].profile = x.profile THEN NoRow ELSE row[l]]
      BY <2>6 DEF DropProfile
    <3>2. row' \in [Listener -> Row \cup {NoRow}] /\ profiles' \subseteq profiles
      BY <2>0, <3>1
    <3>3. \A l \in Listener : row'[l] = NoRow \/ (row'[l] = row[l] /\ row[l].profile \in profiles')
      BY <1>0, <2>0, <3>1 DEF RowsFit, Exists
    <3> QED
      BY <1>0, <2>0, <3>2, <3>3, RowsRemoved
  <2> QED
    BY <2>1, <2>2, <2>3, <2>4, <2>5, <2>6 DEF WriteStep
<1> QED
  BY <1>0, <1>1, <1>2, <1>3 DEF RowsInv, ConfigTyped, runtimeVars, Runtime!TypeOK

LEMMA TellKeepsRows ==
  ASSUME RowsInv, NEW a \in Actor, TellStep(a)
  PROVE  RowsInv'
<1>0. ConfigTyped /\ NoArg \in Arg /\ NoRows \in [Listener -> Row \cup {NoRow}]
  BY DEF RowsInv, NoArg, Arg, NoRows
<1>1. UNCHANGED <<storeVars, used, failures>>
  BY DEF TellStep, Stop, DeleteStop, StopAll, RequestStart, ReturnFrom, Return, Proceed
<1>2. CASE Stop(a) \/ DeleteStop(a) \/ StopAll(a)
  <2>1. \E S : Runtime!AskStop(S) /\ UNCHANGED serving
    BY <1>2 DEF Stop, DeleteStop, StopAll
  <2>2. Runtime!TypeOK'
    BY <1>0, <2>1 DEF ConfigTyped, Runtime!TypeOK, Runtime!AskStop
  <2>3. /\ at' \in [Actor -> {"idle"} \cup StoreStep \cup RuntimeCall]
        /\ arg' \in [Actor -> Arg]
        /\ read' \in [Actor -> [Listener -> Row \cup {NoRow}]]
    BY <1>0, <1>2 DEF ConfigTyped, Stop, DeleteStop, StopAll, ReturnFrom, Return, Proceed, StoreStep
  <2>4. ASSUME NEW b \in Actor
        PROVE  ArgFits(b)'
    BY <1>0, <1>1, <1>2 DEF RowsInv, ConfigTyped, Stop, DeleteStop, StopAll, ReturnFrom, Return,
       Proceed, ArgFits, OnListener, Drafting, OnProfile
  <2> QED
    BY <1>0, <1>1, <2>1, <2>2, <2>3, <2>4 DEF RowsInv, ConfigTyped, RowsFit, Exists, storeVars
<1>3. ASSUME NEW l \in Listener, RequestStart(a, l)
      PROVE  RowsInv'
  <2>1. read[a][l] \in Row
    BY <1>0, <1>3 DEF ConfigTyped, RequestStart
  <2>2. read[a][l].port \in Port /\ read[a][l].profile \in Profile
    BY <2>1 DEF Row
  <2>3. Runtime!TypeOK' /\ serving' \in [Listener -> Profile \cup {NoProfile}]
    BY <1>0, <1>3, <2>2 DEF ConfigTyped, RequestStart, Runtime!TypeOK, Runtime!Status, Runtime!Begin,
       runtimeVars
  <2>4. read' \in [Actor -> [Listener -> Row \cup {NoRow}]]
    <3> DEFINE r == [read[a] EXCEPT ![l] = NoRow]
    <3>1. r \in [Listener -> Row \cup {NoRow}]
      BY <1>0 DEF ConfigTyped
    <3>2. read' = [read EXCEPT ![a] = r]
      BY <1>3 DEF RequestStart
    <3> HIDE DEF r
    <3> QED
      BY <1>0, <3>1, <3>2 DEF ConfigTyped
  <2>5. UNCHANGED <<at, arg>>
    BY <1>3 DEF RequestStart
  <2> QED
    BY <1>0, <1>1, <2>3, <2>4, <2>5 DEF RowsInv, ConfigTyped, RowsFit, Exists, storeVars, ArgFits
<1> QED
  BY <1>2, <1>3 DEF TellStep

LEMMA RuntimeKeepsRows ==
  ASSUME RowsInv, RuntimeStep
  PROVE  RowsInv'
<1>1. ConfigTyped /\ UNCHANGED <<storeVars, used, at, arg, read, failures>>
  BY DEF RowsInv, RuntimeStep
<1>2. Runtime!TypeOK'
  BY <1>1, RuntimeTyped DEF ConfigTyped, RuntimeStep, Runtime!Next
<1>3. serving' \in [Listener -> Profile \cup {NoProfile}]
  BY <1>1 DEF ConfigTyped, RuntimeStep
<1> QED
  BY <1>1, <1>2, <1>3 DEF RowsInv, ConfigTyped, RowsFit, Exists, storeVars, ArgFits

LEMMA RestartKeepsRows ==
  ASSUME RowsInv, Restart
  PROVE  RowsInv'
<1>1. /\ ConfigTyped /\ NoArg \in Arg /\ NoRows \in [Listener -> Row \cup {NoRow}]
      /\ UNCHANGED <<storeVars, used, failures>>
  BY DEF RowsInv, Restart, NoArg, Arg, NoRows
<1>2. \A l \in Listener : /\ EnabledRows[l].port \in Port \cup {NoPort}
                          /\ EnabledRows[l].profile \in Profile \cup {NoProfile}
  BY <1>1 DEF ConfigTyped, EnabledRows, Row, NoRow
<1>3. Runtime!TypeOK' /\ serving' \in [Listener -> Profile \cup {NoProfile}]
  BY <1>2 DEF Restart, Runtime!TypeOK, Runtime!Status
<1>4. /\ at' = [b \in Actor |-> "idle"] /\ arg' = [b \in Actor |-> NoArg]
      /\ read' = [b \in Actor |-> NoRows]
  BY DEF Restart
<1>5. ConfigTyped'
  BY <1>1, <1>3, <1>4 DEF ConfigTyped, storeVars
<1>6. \A b \in Actor : ArgFits(b)'
  BY <1>1, <1>4 DEF ArgFits, OnListener, Drafting, OnProfile
<1> QED
  BY <1>1, <1>5, <1>6 DEF RowsInv, RowsFit, Exists, storeVars

LEMMA RowsInvStep ==
  ASSUME RowsInv, [Next]_vars
  PROVE  RowsInv'
<1>1. CASE UNCHANGED vars
  <2>1. /\ UNCHANGED <<status, given, asked, serving>>
        /\ UNCHANGED <<row, profiles>>
        /\ UNCHANGED <<used, at, arg, read, failures>>
    BY <1>1 DEF vars, runtimeVars, storeVars
  <2> QED
    BY <2>1 DEF RowsInv, ConfigTyped, Runtime!TypeOK, RowsFit, Exists, ArgFits
<1> QED
  BY <1>1, ActorSteps, CallKeepsRows, CheckKeepsRows, WriteKeepsRows, TellKeepsRows,
     RuntimeKeepsRows, RestartKeepsRows DEF Next

LEMMA RowsAlways == Safety => []RowsInv
BY RowsInvInitially, RowsInvStep, PTL DEF Safety

LEMMA HistoryTypedAlways == Safety => []HistoryTyped
<1>1. Init => HistoryTyped
  BY DEF Init, HistoryTyped
<1>2. HistoryTyped /\ [Next]_vars => HistoryTyped'
  BY DEF HistoryTyped, Next, Observe, Restart, vars, history
<1> QED
  BY <1>1, <1>2, PTL DEF Safety

(* The table of listeners never holds two rows of one port or a row whose  *)
(* profile is gone, and a command always has the arguments its next step   *)
(* needs, whatever commands, failures and restarts there are.              *)
THEOREM RowsStayConsistent == Safety => []RowsConsistent
<1>1. ASSUME RowsInv, HistoryTyped
      PROVE  RowsConsistent
  <2>0. ConfigTyped
    BY <1>1 DEF RowsInv
  <2>1. ASSUME NEW a \in Actor
        PROVE  arg[a] = NoArg \/ arg[a].listener \in Listener \/ arg[a].profile \in Profile
    <3>1. ArgFits(a)
      BY <1>1 DEF RowsInv
    <3>2. used \subseteq Listener
      BY <2>0 DEF ConfigTyped
    <3>3. at[a] \in {"idle"} \cup StoreStep \cup RuntimeCall
      BY <2>0 DEF ConfigTyped
    <3> QED
      BY <3>1, <3>2, <3>3 DEF ArgFits, OnListener, Drafting, OnProfile, StoreStep, RuntimeCall
  <2>2. TypeOK
    BY <1>1, <2>0, <2>1, Zenon DEF ConfigTyped, HistoryTyped, TypeOK
  <2>3. RowsFit
    BY <1>1 DEF RowsInv
  <2> QED
    BY <2>2, <2>3, Zenon DEF RowsFit, RowsConsistent
<1> QED
  BY <1>1, RowsAlways, HistoryTypedAlways, PTL

-----------------------------------------------------------------------------
(***************************************************************************)
(* The table and the runtime.                                              *)
(***************************************************************************)
Creating(a, l) == at[a] \in {"draft create", "insert"} /\ arg[a].listener = l

(* Rows are held only by those that are about to start or stop.            *)
HandsEmpty(a) == at[a] \notin {"start", "stop"} => read[a] = NoRows

(* A listener under creation is not there yet and nobody else has it.      *)
CreatesAlone ==
  \A a \in Actor, l \in Listener : Creating(a, l) =>
    /\ ~Exists(l) /\ ~Runtime!Active(l)
    /\ \A b \in Actor : ~Holding(b, l) /\ (b # a => ~Creating(b, l))

(* Only listeners that were created exist, run or are held, and a signal   *)
(* to stop is gone with the run it was given to.                           *)
UsedOnly ==
  \A l \in Listener :
    /\ Exists(l) \/ Runtime!Active(l) \/ (\E a \in Actor : Holding(a, l)) => l \in used
    /\ asked[l] => Runtime!Active(l)

(* A row that is held is the row in the table. *)
HoldsTheRow(a, l) ==
  Holding(a, l) =>
    \/ l \in crossed
    \/ /\ at[a] = "start"
       /\ \/ read[a][l].profile \notin profiles
          \/ /\ read[a][l].port = row[l].port
             /\ read[a][l].profile = row[l].profile
             /\ row[l].enabled
    \/ at[a] = "reread" /\ (row[l].enabled \/ ~Exists(l))

(* A row is changed only while its listener is down.                       *)
ChangesDown(a, l) ==
  arg[a].listener = l =>
    /\ at[a] \in {"draft update", "write"} => ~Runtime!Active(l) \/ l \in crossed
    /\ at[a] = "remove" => ~Serves(l) \/ l \in crossed

CrossingKnown == \A l \in Listener : Crossing(l) => l \in crossed

CommandFacts ==
  /\ \A a \in Actor : HandsEmpty(a)
  /\ CreatesAlone
  /\ UsedOnly
  /\ \A a \in Actor, l \in Listener : HoldsTheRow(a, l) /\ ChangesDown(a, l)
  /\ CrossingKnown
  /\ ServesItsRow
  /\ UpOnlyEnabled

CommandInv == RowsInv /\ CommandFacts

LEMMA CommandInitially == Init => CommandInv
<1> SUFFICES ASSUME Init
             PROVE  CommandInv
  OBVIOUS
<1>1. \A l \in Listener : ~Exists(l) /\ ~Runtime!Active(l) /\ ~Serves(l) /\ ~asked[l]
  BY DEF Init, Runtime!Init, Exists, NoRows, Runtime!Active, Serves
<1>2. \A a \in Actor : at[a] = "idle" /\ read[a] = NoRows
  BY DEF Init
<1>3. \A a \in Actor, l \in Listener : ~Holding(a, l) /\ ~Creating(a, l)
  BY <1>2 DEF Holding, Creating
<1> QED
  BY <1>1, <1>2, <1>3, RowsInvInitially
     DEF CommandInv, CommandFacts, HandsEmpty, CreatesAlone, UsedOnly, HoldsTheRow, ChangesDown,
         CrossingKnown, Crossing, ServesItsRow, UpOnlyEnabled

(* What Observe remembers. *)
LEMMA Remembered ==
  ASSUME Observe, NEW l \in Listener
  PROVE  /\ Crossing(l)' => l \in crossed'
         /\ l \in crossed /\ Runtime!Active(l)' => l \in crossed'
         /\ \A a \in Actor : l \in crossed /\ Holding(a, l)' => l \in crossed'
         /\ l \in halfway /\ Runtime!Active(l)' => l \in halfway'
         /\ \A a \in Actor : BreaksOff(a, l) /\ Runtime!Active(l)' => l \in halfway'
BY DEF Observe

Others(a) ==
  \A b \in Actor \ {a} : at'[b] = at[b] /\ arg'[b] = arg[b] /\ read'[b] = read[b]

LEMMA OthersKeep ==
  ASSUME NEW a \in Actor, Others(a), NEW b \in Actor \ {a}, NEW l \in Listener
  PROVE  /\ Holding(b, l)' <=> Holding(b, l)
         /\ Disabling(b, l)' <=> Disabling(b, l)
         /\ Changing(b, l)' <=> Changing(b, l)
         /\ Creating(b, l)' <=> Creating(b, l)
BY DEF Others, Holding, Disabling, Changing, Creating

(* A step of an actor moves only that actor. *)
LEMMA MovesOne ==
  ASSUME RowsInv, NEW a \in Actor, ActorStep(a)
  PROVE  Others(a) /\ used \subseteq used'
<1>0. ConfigTyped
  BY DEF RowsInv
<1>1. CASE CallStep(a)
  BY <1>0, <1>1 DEF CallStep, CallCreate, CallUpdate, CallSetEnabled, CallDelete,
     CallStartEnabled, CallDeleteProfile, Call, Others, ConfigTyped
<1>2. CASE CheckStep(a)
  BY <1>0, <1>2 DEF CheckStep, CreateDraft, UpdateFind, UpdateCheckStopped, UpdateDraft, DeleteFind,
     RequireProfile, CountProfiles, Check, Proceed, ReturnFrom, Return, Others, ConfigTyped
<1>3. CASE ReadStep(a)
  BY <1>0, <1>3 DEF ReadStep, Reread, ListEnabled, StartsRequested, StoreFails, Proceed, ReturnFrom,
     Return, Others, ConfigTyped
<1>4. CASE WriteStep(a)
  BY <1>0, <1>4 DEF WriteStep, CreateInsert, UpdateWrite, Mark, DeleteRemove, DropProfile, Proceed,
     ReturnFrom, Return, Others, ConfigTyped
<1>5. CASE TellStep(a)
  BY <1>0, <1>5 DEF TellStep, Stop, DeleteStop, StopAll, RequestStart, Proceed, ReturnFrom,
     Return, Others, ConfigTyped
<1> QED
  BY <1>1, <1>2, <1>3, <1>4, <1>5, ActorSteps

(* A step of a command that touches neither the store nor the runtime.     *)
LEMMA LooksOnly ==
  ASSUME CommandInv, Observe, NEW a \in Actor, Others(a), used \subseteq used',
         UNCHANGED <<runtimeVars, storeVars>>,
         HandsEmpty(a)',
         \A l \in Listener :
           /\ Creating(a, l)' => Creating(a, l) \/ l \notin used
           /\ Holding(a, l)' => Holding(a, l) \/ Exists(l)
           /\ HoldsTheRow(a, l)'
           /\ ChangesDown(a, l)'
           /\ Disabling(a, l) => Disabling(a, l)' \/ BreaksOff(a, l)
  PROVE  CommandFacts'
<1>0. RowsInv /\ CommandFacts
  BY DEF CommandInv
<1>1. UNCHANGED <<status, given, asked, serving, row, profiles>>
  BY DEF runtimeVars, storeVars
<1>2. \A l \in Listener :
        /\ Runtime!Active(l)' <=> Runtime!Active(l)
        /\ Serves(l)' <=> Serves(l)
        /\ Exists(l)' <=> Exists(l)
  BY <1>1 DEF Runtime!Active, Serves, Exists
<1>3. \A b \in Actor : HandsEmpty(b)'
  BY <1>0 DEF CommandFacts, Others, HandsEmpty
<1>4. CreatesAlone'
  <2> SUFFICES ASSUME NEW c \in Actor, NEW l \in Listener, Creating(c, l)'
               PROVE  /\ ~Exists(l)' /\ ~Runtime!Active(l)'
                      /\ \A b \in Actor : ~Holding(b, l)' /\ (b # c => ~Creating(b, l)')
    BY DEF CreatesAlone
  <2>1. CASE Creating(c, l)
    <3>1. ~Exists(l) /\ ~Runtime!Active(l) /\ \A b \in Actor : ~Holding(b, l) /\ (b # c => ~Creating(b, l))
      BY <1>0, <2>1 DEF CommandFacts, CreatesAlone
    <3>2. l \in used
      BY <1>0, <2>1 DEF RowsInv, ArgFits, OnListener, Creating
    <3> QED
      BY <1>2, <3>1, <3>2, OthersKeep
  <2>2. CASE ~Creating(c, l)
    <3>1. c = a /\ l \notin used
      BY <2>2, OthersKeep
    <3>2. \A b \in Actor : ~Creating(b, l) /\ ~Holding(b, l) /\ ~Exists(l) /\ ~Runtime!Active(l)
      BY <1>0, <3>1 DEF RowsInv, ArgFits, OnListener, Creating, CommandFacts, UsedOnly
    <3> QED
      BY <1>2, <3>1, <3>2, OthersKeep
  <2> QED
    BY <2>1, <2>2
<1>5. UsedOnly'
  <2>1. ASSUME NEW l \in Listener, NEW b \in Actor, Holding(b, l)'
        PROVE  l \in used
    BY <1>0, <2>1, OthersKeep DEF CommandFacts, UsedOnly
  <2> QED
    BY <1>0, <1>1, <1>2, <2>1 DEF CommandFacts, UsedOnly
<1>6. ASSUME NEW b \in Actor, NEW l \in Listener
      PROVE  HoldsTheRow(b, l)' /\ ChangesDown(b, l)'
  <2>1. CASE b = a
    BY <2>1
  <2>2. CASE b # a
    <3>1. at'[b] = at[b] /\ arg'[b] = arg[b] /\ read'[b] = read[b]
      BY <2>2 DEF Others
    <3>2. HoldsTheRow(b, l) /\ ChangesDown(b, l)
      BY <1>0 DEF CommandFacts
    <3>3. HoldsTheRow(b, l)'
      BY <1>1, <1>2, <2>2, <3>1, <3>2, OthersKeep, Remembered DEF HoldsTheRow
    <3>4. ChangesDown(b, l)'
      BY <1>2, <3>1, <3>2, Remembered DEF ChangesDown, Serves
    <3> QED
      BY <3>3, <3>4
  <2> QED
    BY <2>1, <2>2
<1>7. CrossingKnown'
  BY Remembered DEF CrossingKnown
<1>8. ServesItsRow'
  BY <1>0, <1>1, <1>2, Remembered DEF CommandFacts, ServesItsRow, Serves
<1>9. UpOnlyEnabled'
  <2> SUFFICES ASSUME NEW l \in Listener, Serves(l)'
               PROVE  \/ row'[l].enabled
                      \/ \E b \in Actor : Disabling(b, l)'
                      \/ serving'[l] \notin profiles'
                      \/ l \in crossed' \cup halfway'
    BY DEF UpOnlyEnabled
  <2>1. Runtime!Active(l)' /\ Serves(l)
    BY <1>2 DEF Serves
  <2>2. ASSUME NEW b \in Actor, Disabling(b, l)
        PROVE  Disabling(b, l)' \/ l \in halfway'
    BY <2>1, <2>2, OthersKeep, Remembered
  <2> QED
    BY <1>0, <1>1, <2>1, <2>2, Remembered DEF CommandFacts, UpOnlyEnabled
<1> QED
  BY <1>3, <1>4, <1>5, <1>6, <1>7, <1>8, <1>9 DEF CommandFacts

LEMMA CallKeepsFacts ==
  ASSUME CommandInv, Observe, NEW a \in Actor, CallStep(a)
  PROVE  CommandFacts'
<1>0. RowsInv /\ HandsEmpty(a)
  BY DEF CommandInv, CommandFacts
<1>1. /\ at[a] = "idle"
      /\ at'[a] \in {"draft create", "find update", "mark", "find delete", "list", "require profile"}
      /\ at'[a] = "draft create" => arg'[a].listener \in Listener \ used
  <2> USE DEF CommandInv, RowsInv, ConfigTyped, Call
  <2>1. CASE CallCreate(a)
    <3>1. PICK l \in Listener \ used, p \in Port, f \in Profile :
            /\ Call(a, "create", "draft create", [NoArg EXCEPT !.listener = l, !.port = p, !.profile = f])
            /\ used' = used \cup {l}
      BY <2>1 DEF CallCreate
    <3> QED
      BY <3>1 DEF NoArg
  <2>2. CASE CallUpdate(a) \/ CallSetEnabled(a) \/ CallDelete(a)
    BY <2>2 DEF CallUpdate, CallSetEnabled, CallDelete
  <2>3. CASE CallStartEnabled(a) \/ CallDeleteProfile(a)
    BY <2>3 DEF CallStartEnabled, CallDeleteProfile
  <2> QED
    BY <2>1, <2>2, <2>3 DEF CallStep
<1>2. UNCHANGED <<runtimeVars, storeVars, read, failures>>
  BY DEF CallStep, CallCreate, CallUpdate, CallSetEnabled, CallDelete, CallStartEnabled,
         CallDeleteProfile, Call
<1>3. Others(a) /\ used \subseteq used'
  BY <1>0, MovesOne DEF CallStep, ActorStep
<1>4. HandsEmpty(a)'
  BY <1>0, <1>1, <1>2 DEF HandsEmpty
<1>5. \A l \in Listener :
        /\ Creating(a, l)' => l \notin used
        /\ ~Holding(a, l)' /\ ~Disabling(a, l)
        /\ ChangesDown(a, l)'
  BY <1>1 DEF Creating, Holding, Disabling, ChangesDown
<1> QED
  BY <1>2, <1>3, <1>4, <1>5, LooksOnly DEF HoldsTheRow

LEMMA CheckKeepsFacts ==
  ASSUME CommandInv, Observe, NEW a \in Actor, CheckStep(a)
  PROVE  CommandFacts'
<1>0. RowsInv /\ HandsEmpty(a) /\ ConfigTyped /\ \A l \in Listener : ChangesDown(a, l)
  BY DEF CommandInv, CommandFacts, RowsInv
<1>1. UNCHANGED <<runtimeVars, storeVars, used, failures>>
  BY DEF CheckStep, CreateDraft, UpdateFind, UpdateCheckStopped, UpdateDraft, DeleteFind,
         RequireProfile, CountProfiles, Check, Proceed, ReturnFrom, Return
<1>2. /\ at[a] \notin {"start", "stop", "reread"}
      /\ \/ at'[a] = "idle" /\ read'[a] = NoRows
         \/ /\ arg'[a] = arg[a] /\ read'[a] = read[a]
            /\ \/ at[a] = "draft create" /\ at'[a] = "insert"
               \/ at[a] = "draft update" /\ at'[a] = "write"
               \/ at'[a] = "draft update" /\ ~Runtime!Active(arg[a].listener)
               \/ at'[a] \in {"check stopped", "stop before remove", "count", "drop"}
  <2> USE <1>0 DEF ConfigTyped, Check, Proceed, ReturnFrom, Return
  <2>1. CASE UpdateCheckStopped(a)
    BY <2>1 DEF UpdateCheckStopped
  <2>2. CASE CountProfiles(a)
    BY <2>2 DEF CountProfiles
  <2>3. CASE CreateDraft(a) \/ UpdateFind(a) \/ UpdateDraft(a) \/ DeleteFind(a) \/ RequireProfile(a)
    BY <2>3 DEF CreateDraft, UpdateFind, UpdateDraft, DeleteFind, RequireProfile
  <2> QED
    BY <2>1, <2>2, <2>3 DEF CheckStep
<1>3. Others(a) /\ used \subseteq used'
  BY <1>0, MovesOne DEF CheckStep, ActorStep, CommandStep
<1>4. HandsEmpty(a)'
  BY <1>0, <1>2 DEF HandsEmpty
<1>5. ASSUME NEW l \in Listener
      PROVE  /\ Creating(a, l)' => Creating(a, l)
             /\ ~Holding(a, l)' /\ ~Disabling(a, l)
             /\ ChangesDown(a, l)'
  <2>1. Runtime!Active(l)' <=> Runtime!Active(l)
    BY <1>1 DEF runtimeVars, Runtime!Active
  <2>2. ChangesDown(a, l)'
    BY <1>0, <1>2, <2>1, Remembered DEF ChangesDown
  <2> QED
    BY <1>2, <2>2 DEF Creating, Holding, Disabling
<1> QED
  BY <1>1, <1>3, <1>4, <1>5, LooksOnly DEF HoldsTheRow

LEMMA ReadKeepsFacts ==
  ASSUME CommandInv, Observe, NEW a \in Actor, ReadStep(a)
  PROVE  CommandFacts'
<1> DEFINE x == arg[a]
<1>0. /\ RowsInv /\ ConfigTyped /\ ArgFits(a) /\ HandsEmpty(a)
      /\ \A l \in Listener : HoldsTheRow(a, l)
  BY DEF CommandInv, CommandFacts, RowsInv
<1>1. UNCHANGED <<runtimeVars, storeVars, used>>
  BY DEF ReadStep, Reread, ListEnabled, StartsRequested, StoreFails, Proceed, ReturnFrom, Return
<1>2. Others(a) /\ used \subseteq used'
  BY <1>0, MovesOne DEF ReadStep, ActorStep, CommandStep
<1>3. ASSUME at'[a] = "idle", read'[a] = NoRows, at[a] # "stop"
      PROVE  CommandFacts'
  <2>1. HandsEmpty(a)'
    BY <1>3 DEF HandsEmpty
  <2>2. \A l \in Listener :
          /\ ~Creating(a, l)' /\ ~Holding(a, l)' /\ ChangesDown(a, l)'
          /\ Disabling(a, l) => BreaksOff(a, l)
    BY <1>3 DEF Creating, Holding, ChangesDown, Disabling, BreaksOff
  <2> QED
    BY <1>1, <1>2, <2>1, <2>2, LooksOnly DEF HoldsTheRow
<1>4. CASE StartsRequested(a) \/ StoreFails(a)
  <2>1. at'[a] = "idle" /\ read'[a] = NoRows /\ at[a] # "stop"
    BY <1>0, <1>4 DEF ConfigTyped, StartsRequested, StoreFails, ReturnFrom, Return, StoreStep
  <2> QED
    BY <1>3, <2>1
<1>5. CASE ListEnabled(a)
  <2>1. at[a] = "list" /\ at'[a] = "start" /\ read'[a] = EnabledRows /\ arg'[a] = x
    BY <1>0, <1>5 DEF ConfigTyped, ListEnabled, Proceed
  <2>2. HandsEmpty(a)'
    BY <2>1 DEF HandsEmpty
  <2>3. ASSUME NEW l \in Listener
        PROVE  /\ ~Creating(a, l)' /\ ~Disabling(a, l)
               /\ Holding(a, l)' => Exists(l)
               /\ HoldsTheRow(a, l)' /\ ChangesDown(a, l)'
    <3>1. Holding(a, l)' => row[l].enabled /\ read'[a][l] = row[l] /\ Exists(l)
      BY <2>1 DEF Holding, EnabledRows, Exists
    <3> QED
      BY <1>1, <2>1, <3>1 DEF Creating, Disabling, HoldsTheRow, ChangesDown, storeVars
  <2> QED
    BY <1>1, <1>2, <2>2, <2>3, LooksOnly
<1>6. CASE Reread(a) /\ Exists(x.listener)
  <2>1. at[a] = "reread" /\ x.listener \in Listener /\ read[a] = NoRows /\ x.enabled \in BOOLEAN
    BY <1>0, <1>6 DEF ConfigTyped, Reread, HandsEmpty, ArgFits, OnListener, Arg
  <2>2. /\ at'[a] = IF x.enabled THEN "start" ELSE "stop"
        /\ arg'[a] = x
        /\ read'[a] = [NoRows EXCEPT ![x.listener] = row[x.listener]]
    BY <1>0, <1>6, <2>1 DEF ConfigTyped, Reread, Proceed
  <2>3. HandsEmpty(a)'
    BY <2>1, <2>2 DEF HandsEmpty
  <2>4. ASSUME NEW l \in Listener
        PROVE  /\ ~Creating(a, l)' /\ ChangesDown(a, l)'
               /\ Disabling(a, l) => Disabling(a, l)'
               /\ Holding(a, l)' => Holding(a, l)
               /\ HoldsTheRow(a, l)'
    <3>1. ~Creating(a, l)' /\ ChangesDown(a, l)' /\ (Disabling(a, l) => Disabling(a, l)')
      BY <2>1, <2>2 DEF Creating, ChangesDown, Disabling
    <3>2. Holding(a, l)' => /\ l = x.listener /\ x.enabled /\ at'[a] = "start"
                            /\ read'[a][l] = row[l]
      BY <2>1, <2>2 DEF Holding, NoRows
    <3>3. Holding(a, l)' => Holding(a, l)
      BY <2>1, <3>2 DEF Holding
    <3>4. HoldsTheRow(a, l)'
      BY <1>0, <1>1, <1>6, <2>1, <3>2, <3>3, Remembered DEF HoldsTheRow, storeVars
    <3> QED
      BY <3>1, <3>3, <3>4
  <2> QED
    BY <1>1, <1>2, <2>3, <2>4, LooksOnly
<1>7. CASE Reread(a) /\ ~Exists(x.listener)
  <2>1. at'[a] = "idle" /\ read'[a] = NoRows /\ at[a] # "stop"
    BY <1>0, <1>7 DEF ConfigTyped, Reread, ReturnFrom, Return
  <2> QED
    BY <1>3, <2>1
<1> QED
  BY <1>4, <1>5, <1>6, <1>7 DEF ReadStep

(* A step of a command that writes the store and leaves the runtime alone. *)
(* What it does to the rows is said by the three facts about a row in hand *)
(* and a listener that serves.                                             *)
LEMMA Writes ==
  ASSUME CommandInv, Observe, NEW a \in Actor, Others(a), used \subseteq used',
         UNCHANGED runtimeVars, profiles' \subseteq profiles,
         HandsEmpty(a)',
         \A l \in Listener :
           /\ Creating(a, l)' => FALSE
           /\ Holding(a, l)' => Exists(l) /\ HoldsTheRow(a, l)'
           /\ ChangesDown(a, l)'
           /\ Exists(l)' => Exists(l) \/ Creating(a, l)
           /\ Disabling(a, l) => FALSE
           /\ \/ row'[l] = row[l]
              \/ ~Exists(l)' /\ row[l].profile \notin profiles'
              \/ Creating(a, l)
              \/ Changing(a, l) /\ ~Disabling(a, l)
              \/ /\ Exists(l) /\ row'[l].port = row[l].port /\ row'[l].profile = row[l].profile
                 /\ row'[l].enabled \/ Disabling(a, l)'
  PROVE  CommandFacts'
<1>0. RowsInv /\ CommandFacts /\ ConfigTyped
  BY DEF CommandInv, RowsInv
<1>1. UNCHANGED <<status, given, asked, serving>>
  BY DEF runtimeVars
<1>2. \A l \in Listener :
        /\ Runtime!Active(l)' <=> Runtime!Active(l)
        /\ Serves(l)' <=> Serves(l)
  BY <1>1 DEF Runtime!Active, Serves
<1>3. \A b \in Actor : HandsEmpty(b)'
  BY <1>0 DEF CommandFacts, Others, HandsEmpty
<1>4. CreatesAlone'
  <2> SUFFICES ASSUME NEW c \in Actor, NEW l \in Listener, Creating(c, l)'
               PROVE  /\ ~Exists(l)' /\ ~Runtime!Active(l)'
                      /\ \A b \in Actor : ~Holding(b, l)' /\ (b # c => ~Creating(b, l)')
    BY DEF CreatesAlone
  <2>1. c # a /\ Creating(c, l)
    BY OthersKeep
  <2>2. ~Exists(l) /\ ~Runtime!Active(l) /\ \A b \in Actor : ~Holding(b, l) /\ (b # c => ~Creating(b, l))
    BY <1>0, <2>1 DEF CommandFacts, CreatesAlone
  <2> QED
    BY <1>2, <2>1, <2>2, OthersKeep
<1>5. UsedOnly'
  <2>1. ASSUME NEW l \in Listener, NEW b \in Actor, Holding(b, l)'
        PROVE  l \in used
    BY <1>0, <2>1, OthersKeep DEF CommandFacts, UsedOnly
  <2>2. ASSUME NEW l \in Listener, Creating(a, l)
        PROVE  l \in used
    BY <1>0, <2>2 DEF RowsInv, ArgFits, OnListener, Creating
  <2> QED
    BY <1>0, <1>1, <1>2, <2>1, <2>2 DEF CommandFacts, UsedOnly
<1>6. ASSUME NEW b \in Actor, NEW l \in Listener
      PROVE  HoldsTheRow(b, l)' /\ ChangesDown(b, l)'
  <2>1. CASE b = a
    BY <2>1 DEF HoldsTheRow
  <2>2. CASE b # a
    <3>1. at'[b] = at[b] /\ arg'[b] = arg[b] /\ read'[b] = read[b]
      BY <2>2 DEF Others
    <3>2. HoldsTheRow(b, l) /\ ChangesDown(b, l)
      BY <1>0 DEF CommandFacts
    <3>3. ASSUME Holding(b, l)'
          PROVE  HoldsTheRow(b, l)'
      <4>1. Holding(b, l) /\ ~Creating(a, l)
        BY <1>0, <2>2, <3>3, OthersKeep DEF CommandFacts, CreatesAlone
      <4>2. CASE l \in crossed
        BY <3>3, <4>2, Remembered DEF HoldsTheRow
      <4>3. CASE Changing(a, l) \/ Disabling(a, l)'
        <5>1. Crossing(l) \/ Crossing(l)'
          BY <3>3, <4>1, <4>3 DEF Crossing, Changing
        <5>2. l \in crossed'
          BY <1>0, <3>3, <5>1, Remembered DEF CommandFacts, CrossingKnown
        <5> QED
          BY <5>2 DEF HoldsTheRow
      <4>4. CASE l \notin crossed /\ row'[l] = row[l]
        BY <3>1, <3>2, <4>1, <4>4 DEF HoldsTheRow, Exists
      <4>5. CASE l \notin crossed /\ ~Exists(l)' /\ row[l].profile \notin profiles'
        BY <3>1, <3>2, <4>1, <4>5 DEF HoldsTheRow
      <4>6. CASE /\ l \notin crossed /\ row'[l].enabled
                 /\ row'[l].port = row[l].port /\ row'[l].profile = row[l].profile
        BY <3>1, <3>2, <4>1, <4>6 DEF HoldsTheRow
      <4> QED
        BY <4>1, <4>2, <4>3, <4>4, <4>5, <4>6
    <3>4. ChangesDown(b, l)'
      BY <1>2, <3>1, <3>2, Remembered DEF ChangesDown, Serves
    <3> QED
      BY <3>3, <3>4 DEF HoldsTheRow
  <2> QED
    BY <2>1, <2>2
<1>7. CrossingKnown'
  BY Remembered DEF CrossingKnown
<1>8. ASSUME NEW l \in Listener, Serves(l), l \notin crossed
      PROVE  /\ ~Creating(a, l)
             /\ Changing(a, l) => Disabling(a, l)
  <2>1. Runtime!Active(l)
    BY <1>8 DEF Serves
  <2>2. ~Creating(a, l)
    BY <1>0, <2>1 DEF CommandFacts, CreatesAlone
  <2>3. ChangesDown(a, l)
    BY <1>0 DEF CommandFacts
  <2> QED
    BY <1>8, <2>1, <2>2, <2>3 DEF Changing, ChangesDown
<1>9. \A l \in Listener : Serves(l)' /\ l \in crossed => l \in crossed'
  BY Remembered DEF Serves
<1>10. ServesItsRow'
  <2> SUFFICES ASSUME NEW l \in Listener, Serves(l)', l \notin crossed', serving[l] \in profiles'
               PROVE  row'[l].port = given[l] /\ row'[l].profile = serving[l]
    BY <1>1 DEF ServesItsRow
  <2>1. Serves(l) /\ l \notin crossed /\ serving[l] \in profiles
    BY <1>2, <1>9
  <2>2. row[l].port = given[l] /\ row[l].profile = serving[l]
    BY <1>0, <2>1 DEF CommandFacts, ServesItsRow
  <2> QED
    BY <1>8, <2>1, <2>2
<1>11. UpOnlyEnabled'
  <2> SUFFICES ASSUME NEW l \in Listener, Serves(l)', l \notin crossed', l \notin halfway',
                      serving[l] \in profiles'
               PROVE  row'[l].enabled \/ \E b \in Actor : Disabling(b, l)'
    BY <1>1 DEF UpOnlyEnabled
  <2>1. Serves(l) /\ l \notin crossed /\ serving[l] \in profiles
    BY <1>2, <1>9
  <2>2. l \notin halfway
    BY Remembered DEF Serves
  <2>3. row[l].enabled \/ \E b \in Actor : Disabling(b, l)
    BY <1>0, <2>1, <2>2 DEF CommandFacts, UpOnlyEnabled
  <2>4. \A b \in Actor : Disabling(b, l) => Disabling(b, l)'
    BY OthersKeep
  <2>5. row[l].profile = serving[l]
    BY <1>0, <2>1 DEF CommandFacts, ServesItsRow
  <2> QED
    BY <1>8, <2>1, <2>3, <2>4, <2>5
<1> QED
  BY <1>3, <1>4, <1>5, <1>6, <1>7, <1>10, <1>11 DEF CommandFacts

(* After a write the command has returned, or a mark is to be read back.   *)
LEMMA WriteKeepsFacts ==
  ASSUME CommandInv, Observe, NEW a \in Actor, WriteStep(a)
  PROVE  CommandFacts'
<1> DEFINE x == arg[a]
<1>0. /\ RowsInv /\ ConfigTyped /\ RowsFit /\ ArgFits(a) /\ HandsEmpty(a)
      /\ row \in [Listener -> Row \cup {NoRow}]
  BY DEF CommandInv, CommandFacts, RowsInv, ConfigTyped
<1>1. Others(a) /\ used \subseteq used'
  BY <1>0, MovesOne DEF WriteStep, ActorStep, CommandStep
<1>2. UNCHANGED runtimeVars /\ at[a] \in {"insert", "write", "mark", "remove", "drop"}
  BY DEF WriteStep, CreateInsert, UpdateWrite, Mark, DeleteRemove, DropProfile, ReturnFrom
<1>3. \A l \in Listener : ~Disabling(a, l)
  BY <1>2 DEF Disabling
<1> DEFINE Returned == at'[a] = "idle" /\ read'[a] = NoRows
<1>4. ASSUME Returned
      PROVE  /\ HandsEmpty(a)'
             /\ \A l \in Listener : ~Creating(a, l)' /\ ~Holding(a, l)' /\ ChangesDown(a, l)'
  BY <1>4 DEF HandsEmpty, Creating, Holding, ChangesDown
<1>5. CASE UNCHANGED storeVars /\ Returned
  BY <1>1, <1>2, <1>3, <1>4, <1>5, Writes DEF storeVars, Exists
<1>6. CASE CreateInsert(a) /\ ~UNCHANGED storeVars
  <2>1. /\ Returned /\ UNCHANGED profiles
        /\ x.listener \in Listener
        /\ Creating(a, x.listener)
    BY <1>0, <1>6 DEF ConfigTyped, CreateInsert, ReturnFrom, Return, ArgFits, OnListener, Creating
  <2>2. \A l \in Listener : l # x.listener => row'[l] = row[l]
    BY <1>0, <1>6, <2>1 DEF CreateInsert
  <2>3. \A l \in Listener : row'[l] = row[l] \/ Creating(a, l)
    BY <2>1, <2>2
  <2> QED
    BY <1>1, <1>2, <1>3, <1>4, <2>1, <2>3, Writes DEF Exists
<1>7. CASE UpdateWrite(a) /\ ~UNCHANGED storeVars
  <2>1. /\ Returned /\ UNCHANGED profiles
        /\ x.listener \in Listener /\ Exists(x.listener)
        /\ Changing(a, x.listener)
    BY <1>0, <1>7 DEF ConfigTyped, UpdateWrite, ReturnFrom, Return, ArgFits, OnListener, Changing, storeVars
  <2>2. \A l \in Listener : l # x.listener => row'[l] = row[l]
    BY <1>0, <1>7, <2>1 DEF UpdateWrite
  <2>3. \A l \in Listener : row'[l] = row[l] \/ (Changing(a, l) /\ Exists(l))
    BY <2>1, <2>2
  <2> QED
    BY <1>1, <1>2, <1>3, <1>4, <2>1, <2>3, Writes DEF Exists
<1>8. CASE Mark(a) /\ ~Returned
  <2>1. /\ at[a] = "mark" /\ at'[a] = "reread" /\ arg'[a] = x /\ read'[a] = NoRows
        /\ x.listener \in Listener /\ Exists(x.listener) /\ UNCHANGED profiles
        /\ x.enabled \in BOOLEAN
        /\ row' = [row EXCEPT ![x.listener].enabled = x.enabled]
    BY <1>0, <1>8 DEF ConfigTyped, Mark, Proceed, ReturnFrom, Return, ArgFits, OnListener, Arg, HandsEmpty
  <2>2. row[x.listener] \in Row
    BY <1>0, <2>1 DEF Exists
  <2>3. \A l \in Listener : row'[l].port = row[l].port /\ row'[l].profile = row[l].profile
    BY <1>0, <2>1, <2>2 DEF Row
  <2>4. row'[x.listener].enabled = x.enabled /\ \A l \in Listener : l # x.listener => row'[l] = row[l]
    BY <1>0, <2>1, <2>2 DEF Row
  <2>5. HandsEmpty(a)'
    BY <2>1 DEF HandsEmpty
  <2>6. ASSUME NEW l \in Listener
        PROVE  /\ ~Creating(a, l)'
               /\ Holding(a, l)' => Exists(l) /\ HoldsTheRow(a, l)'
               /\ ChangesDown(a, l)'
               /\ Exists(l)' => Exists(l)
               /\ \/ row'[l] = row[l]
                  \/ /\ Exists(l) /\ row'[l].port = row[l].port /\ row'[l].profile = row[l].profile
                     /\ row'[l].enabled \/ Disabling(a, l)'
    <3>1. CASE l = x.listener
      BY <2>1, <2>3, <2>4, <3>1 DEF Creating, Holding, HoldsTheRow, ChangesDown, Disabling
    <3>2. CASE l # x.listener
      BY <2>1, <2>4, <3>2 DEF Creating, Holding, ChangesDown, Exists
    <3> QED
      BY <3>1, <3>2
  <2> QED
    BY <1>1, <1>2, <1>3, <2>1, <2>5, <2>6, Writes
<1>9. CASE DeleteRemove(a)
  <2>1. /\ Returned /\ UNCHANGED profiles
        /\ x.listener \in Listener
        /\ Changing(a, x.listener)
        /\ row' = [row EXCEPT ![x.listener] = NoRow]
    BY <1>0, <1>9 DEF ConfigTyped, DeleteRemove, ReturnFrom, Return, ArgFits, OnListener, Changing
  <2>2. \A l \in Listener : row'[l] = row[l] \/ (Changing(a, l) /\ ~Exists(l)')
    BY <1>0, <2>1 DEF Exists
  <2> QED
    BY <1>1, <1>2, <1>3, <1>4, <2>1, <2>2, Writes DEF Exists
<1>10. CASE DropProfile(a)
  <2>1. /\ Returned
        /\ profiles' = profiles \ {x.profile}
        /\ \A l \in Listener : row'[l] = IF row[l].profile = x.profile THEN NoRow ELSE row[l]
    BY <1>0, <1>10 DEF ConfigTyped, DropProfile, ReturnFrom, Return
  <2>2. \A l \in Listener :
          /\ row'[l] = row[l] \/ (~Exists(l)' /\ row[l].profile \notin profiles')
          /\ Exists(l)' => Exists(l)
    BY <2>1 DEF Exists
  <2> QED
    BY <1>1, <1>2, <1>3, <1>4, <2>1, <2>2, Writes
<1>11. Mark(a) /\ Returned => UNCHANGED storeVars
  BY <1>0 DEF Mark, storeVars, ReturnFrom, Return, Proceed, ConfigTyped
<1>12. CreateInsert(a) \/ UpdateWrite(a) => Returned
  BY <1>0 DEF CreateInsert, UpdateWrite, ReturnFrom, Return, ConfigTyped
<1> QED
  BY <1>5, <1>6, <1>7, <1>8, <1>9, <1>10, <1>11, <1>12 DEF WriteStep

(* A step that starts nothing and writes nothing: signals to stop, and the *)
(* runtime's own steps, which at most end runs.                            *)
LEMMA Lowers ==
  ASSUME CommandInv, Observe, UNCHANGED <<row, profiles, used>>,
         \A l \in Listener :
           /\ Runtime!Active(l)' => Runtime!Active(l)
           /\ asked'[l] => Runtime!Active(l)'
           /\ Serves(l)' => Serves(l) /\ given'[l] = given[l] /\ serving'[l] = serving[l],
         \A b \in Actor : HandsEmpty(b)',
         \A b \in Actor, l \in Listener :
           /\ Creating(b, l)' => Creating(b, l)
           /\ Holding(b, l)' => Holding(b, l) /\ at'[b] = at[b] /\ read'[b] = read[b]
           /\ ChangesDown(b, l)'
           /\ Disabling(b, l) => Disabling(b, l)' \/ ~Serves(l)'
  PROVE  CommandFacts'
<1>0. CommandFacts
  BY DEF CommandInv
<1>1. CreatesAlone' /\ UsedOnly'
  BY <1>0 DEF CommandFacts, CreatesAlone, UsedOnly, Exists
<1>2. \A b \in Actor, l \in Listener : HoldsTheRow(b, l)'
  BY <1>0, Remembered DEF CommandFacts, HoldsTheRow, Exists
<1>3. CrossingKnown'
  BY Remembered DEF CrossingKnown
<1>4. \A l \in Listener :
        Serves(l)' => /\ l \in crossed => l \in crossed'
                      /\ l \in halfway => l \in halfway'
  BY Remembered DEF Serves
<1>5. ServesItsRow' /\ UpOnlyEnabled'
  BY <1>0, <1>4 DEF CommandFacts, ServesItsRow, UpOnlyEnabled
<1> QED
  BY <1>1, <1>2, <1>3, <1>5 DEF CommandFacts

(* A command that stops listeners. *)
LEMMA StopsKeepFacts ==
  ASSUME CommandInv, Observe, NEW a \in Actor, Stop(a) \/ DeleteStop(a) \/ StopAll(a)
  PROVE  CommandFacts'
<1> DEFINE x == arg[a]
<1>0. /\ RowsInv /\ ConfigTyped /\ ArgFits(a) /\ CommandFacts
  BY DEF CommandInv, RowsInv
<1>1. Others(a) /\ UNCHANGED <<row, profiles, used, status, given, serving>>
  <2>1. Others(a)
    BY <1>0, MovesOne DEF ActorStep, CommandStep
  <2> QED
    BY <2>1 DEF Stop, DeleteStop, StopAll, ReturnFrom, Return, Proceed, storeVars, Runtime!AskStop
<1>2. PICK S : /\ Runtime!AskStop(S)
               /\ StopAll(a) \/ S = {x.listener}
  BY DEF Stop, DeleteStop, StopAll
<1>3. \A l \in Listener :
        /\ asked'[l] = (asked[l] \/ (l \in S /\ Runtime!Active(l)))
        /\ Runtime!Active(l)' <=> Runtime!Active(l)
  BY <1>1, <1>2 DEF Runtime!AskStop, Runtime!Active
<1>4. \A l \in Listener : Serves(l)' => Serves(l) /\ l \notin S
  BY <1>3 DEF Serves
<1>5. \/ at[a] = "idle" /\ UNCHANGED <<at, arg, read>>
      \/ at[a] = "stop" /\ at'[a] = "idle" /\ read'[a] = NoRows /\ S = {x.listener}
      \/ /\ at[a] = "stop before remove" /\ at'[a] = "remove" /\ arg'[a] = x /\ read'[a] = read[a]
         /\ S = {x.listener}
  BY <1>0, <1>2 DEF StopAll, Stop, DeleteStop, ReturnFrom, Return, Proceed, ConfigTyped
<1>6. ASSUME NEW b \in Actor
      PROVE  HandsEmpty(b)'
  BY <1>0, <1>1, <1>5 DEF CommandFacts, HandsEmpty, Others
<1>7. ASSUME NEW b \in Actor, NEW l \in Listener
      PROVE  /\ Creating(b, l)' => Creating(b, l)
             /\ Holding(b, l)' => Holding(b, l) /\ at'[b] = at[b] /\ read'[b] = read[b]
             /\ ChangesDown(b, l)'
             /\ Disabling(b, l) => Disabling(b, l)' \/ ~Serves(l)'
  <2>1. CASE b # a \/ UNCHANGED <<at, arg, read>>
    <3>1. at'[b] = at[b] /\ arg'[b] = arg[b] /\ read'[b] = read[b]
      BY <1>1, <2>1 DEF Others
    <3>2. ChangesDown(b, l)
      BY <1>0 DEF CommandFacts
    <3>3. ChangesDown(b, l)'
      BY <1>3, <1>4, <3>1, <3>2, Remembered DEF ChangesDown, Serves
    <3> QED
      BY <3>1, <3>3 DEF Creating, Holding, Disabling
  <2>2. CASE b = a /\ ~UNCHANGED <<at, arg, read>>
    BY <1>4, <1>5, <2>2 DEF Creating, Holding, Disabling, ChangesDown
  <2> QED
    BY <2>1, <2>2
<1>8. \A l \in Listener : asked'[l] => Runtime!Active(l)'
  BY <1>0, <1>3 DEF CommandFacts, UsedOnly
<1> QED
  BY <1>1, <1>3, <1>4, <1>6, <1>7, <1>8, Lowers

(* Of itself the runtime only ends runs.                                   *)
LEMMA RuntimeKeepsFacts ==
  ASSUME CommandInv, Observe, RuntimeStep
  PROVE  CommandFacts'
<1>0. ConfigTyped /\ CommandFacts
  BY DEF CommandInv, RowsInv
<1>1. UNCHANGED <<row, profiles, used, at, arg, read>>
  BY DEF RuntimeStep, storeVars
<1>2. PICK l \in Listener : Runtime!Settle(l) \/ Runtime!Close(l)
  BY DEF RuntimeStep
<1>3. \A k \in Listener :
        /\ Runtime!Active(k)' => /\ Runtime!Active(k)
                                 /\ given'[k] = given[k] /\ serving'[k] = serving[k]
                                 /\ asked'[k] = asked[k]
        /\ asked'[k] => Runtime!Active(k)'
  <2>1. Runtime!TypeOK /\ UsedOnly
    BY <1>0 DEF ConfigTyped, CommandFacts
  <2>2. \A k \in Listener : Runtime!Active(k)' => serving'[k] = serving[k]
    BY DEF RuntimeStep
  <2> QED
    BY <1>2, <2>1, <2>2 DEF UsedOnly, Runtime!TypeOK, Runtime!Settle, Runtime!Serve,
       Runtime!Refuse, Runtime!Close, Runtime!Active
<1>4. \A k \in Listener : Serves(k)' => Serves(k)
  BY <1>3 DEF Serves
<1>5. ASSUME NEW b \in Actor, NEW k \in Listener
      PROVE  ChangesDown(b, k)'
  <2>1. ChangesDown(b, k)
    BY <1>0 DEF CommandFacts
  <2> QED
    BY <1>1, <1>3, <1>4, <2>1, Remembered DEF ChangesDown, Serves
<1>6. \A b \in Actor : HandsEmpty(b)'
  BY <1>0, <1>1 DEF CommandFacts, HandsEmpty
<1>7. \A b \in Actor, k \in Listener :
        /\ Creating(b, k)' => Creating(b, k)
        /\ Holding(b, k)' => Holding(b, k)
        /\ Disabling(b, k) => Disabling(b, k)'
  BY <1>1 DEF Creating, Holding, Disabling
<1> QED
  BY <1>1, <1>3, <1>4, <1>5, <1>6, <1>7, Lowers DEF Serves

(* A start finds in the row what the table says, or has been crossed.      *)
LEMMA StartKeepsFacts ==
  ASSUME CommandInv, Observe, NEW a \in Actor, NEW l \in Listener, RequestStart(a, l)
  PROVE  CommandFacts'
<1>0. /\ RowsInv /\ ConfigTyped /\ CommandFacts /\ HoldsTheRow(a, l)
  BY DEF CommandInv, CommandFacts, RowsInv
<1>1. UNCHANGED <<row, profiles, used>> /\ Others(a)
  BY <1>0, MovesOne DEF RequestStart, storeVars, ActorStep, CommandStep
<1>2. /\ at[a] = "start" /\ read[a][l] # NoRow /\ Holding(a, l)
      /\ UNCHANGED <<at, arg>>
      /\ \A k \in Listener : read'[a][k] = IF k = l THEN NoRow ELSE read[a][k]
  BY <1>0, <1>1 DEF RequestStart, ConfigTyped, Holding
<1>3. \/ UNCHANGED <<status, given, asked, serving>>
      \/ /\ ~Runtime!Active(l) /\ ~asked[l]
         /\ status' = [status EXCEPT ![l] = "Starting"]
         /\ given' = [given EXCEPT ![l] = read[a][l].port]
         /\ serving' = [serving EXCEPT ![l] = read[a][l].profile]
         /\ UNCHANGED asked
  BY <1>0 DEF RequestStart, Runtime!Begin, runtimeVars, CommandFacts, UsedOnly
<1>4. \A k \in Listener :
        /\ asked'[k] = asked[k]
        /\ \/ /\ Runtime!Active(k)' <=> Runtime!Active(k)
              /\ given'[k] = given[k] /\ serving'[k] = serving[k]
           \/ /\ k = l /\ Runtime!Active(k)' /\ ~asked[k]
              /\ given'[k] = read[a][l].port /\ serving'[k] = read[a][l].profile
  BY <1>0, <1>3 DEF ConfigTyped, Runtime!TypeOK, Runtime!Active
<1>5. ASSUME NEW b \in Actor, NEW k \in Listener
      PROVE  /\ Creating(b, k)' <=> Creating(b, k)
             /\ Disabling(b, k)' <=> Disabling(b, k)
             /\ Holding(b, k)' => Holding(b, k) /\ read'[b][k] = read[b][k] /\ (b # a \/ k # l)
  <2>1. CASE b = a
    BY <1>2, <2>1 DEF Creating, Disabling, Holding
  <2>2. CASE b # a
    BY <1>1, <2>2, OthersKeep DEF Others
  <2> QED
    BY <2>1, <2>2
<1>6. \A b \in Actor : HandsEmpty(b)'
  BY <1>0, <1>1, <1>2 DEF CommandFacts, HandsEmpty, Others
<1>7. CreatesAlone'
  <2>1. \A b \in Actor : ~Creating(b, l)
    BY <1>0, <1>2 DEF CommandFacts, CreatesAlone
  <2> QED
    BY <1>0, <1>1, <1>4, <1>5, <2>1 DEF CommandFacts, CreatesAlone, Exists
<1>8. UsedOnly'
  BY <1>0, <1>1, <1>2, <1>4, <1>5 DEF CommandFacts, UsedOnly, Exists
<1>9. \A b \in Actor, k \in Listener : HoldsTheRow(b, k)'
  BY <1>0, <1>1, <1>2, <1>5, Remembered DEF CommandFacts, HoldsTheRow, Exists
<1>10. ASSUME NEW b \in Actor, NEW k \in Listener
       PROVE  ChangesDown(b, k)'
  <2>1. ChangesDown(b, k)
    BY <1>0 DEF CommandFacts
  <2>2. k = l /\ Changing(b, k) => k \in crossed
    BY <1>0, <1>2 DEF CommandFacts, CrossingKnown, Crossing
  <2> QED
    BY <1>2, <1>4, <2>1, <2>2, Remembered DEF ChangesDown, Changing, Serves
<1>11. CrossingKnown'
  BY Remembered DEF CrossingKnown
<1>12. \A k \in Listener :
         Serves(k)' => /\ k \in crossed => k \in crossed'
                       /\ k \in halfway => k \in halfway'
  BY Remembered DEF Serves
<1>13. \A k \in Listener :
         Serves(k)' => \/ Serves(k) /\ given'[k] = given[k] /\ serving'[k] = serving[k]
                       \/ /\ k = l
                          /\ given'[k] = read[a][l].port /\ serving'[k] = read[a][l].profile
  BY <1>4 DEF Serves
<1>14. \/ l \in crossed
       \/ read[a][l].profile \notin profiles
       \/ /\ read[a][l].port = row[l].port /\ read[a][l].profile = row[l].profile
          /\ row[l].enabled
  BY <1>0, <1>2 DEF HoldsTheRow
<1>15. ServesItsRow'
  BY <1>0, <1>1, <1>12, <1>13, <1>14 DEF CommandFacts, ServesItsRow
<1>16. UpOnlyEnabled'
  BY <1>0, <1>1, <1>5, <1>12, <1>13, <1>14 DEF CommandFacts, UpOnlyEnabled
<1> QED
  BY <1>6, <1>7, <1>8, <1>9, <1>10, <1>11, <1>15, <1>16 DEF CommandFacts

(* What serves after a restart is what the enabled rows say.               *)
LEMMA RestartKeepsFacts ==
  ASSUME CommandInv, Restart
  PROVE  CommandFacts'
<1>0. ConfigTyped /\ UsedOnly
  BY DEF CommandInv, CommandFacts, RowsInv
<1>1. /\ UNCHANGED <<row, profiles, used>>
      /\ \A a \in Actor : at'[a] = "idle" /\ read'[a] = NoRows
  BY DEF Restart, storeVars
<1>2. \A l \in Listener :
        /\ Runtime!Active(l)' <=> row[l].enabled
        /\ ~asked'[l]
        /\ row[l].enabled => given'[l] = row[l].port /\ serving'[l] = row[l].profile
  BY DEF Restart, EnabledRows, Runtime!Active
<1>3. \A l \in Listener : row[l].enabled => Exists(l)
  BY DEF Exists, NoRow
<1>4. \A a \in Actor, l \in Listener :
        /\ HandsEmpty(a)' /\ ~Creating(a, l)' /\ ~Holding(a, l)' /\ ChangesDown(a, l)'
  BY <1>1 DEF HandsEmpty, Creating, Holding, ChangesDown
<1>5. \A a \in Actor : HandsEmpty(a)'
  BY <1>1 DEF HandsEmpty
<1>6. UsedOnly'
  BY <1>0, <1>1, <1>2, <1>3, <1>4 DEF UsedOnly, Exists
<1>7. ServesItsRow' /\ UpOnlyEnabled'
  BY <1>1, <1>2 DEF ServesItsRow, UpOnlyEnabled, Serves
<1>8. CreatesAlone' /\ CrossingKnown' /\ \A a \in Actor, l \in Listener : HoldsTheRow(a, l)'
  BY <1>4 DEF CreatesAlone, CrossingKnown, Crossing, HoldsTheRow
<1> QED
  BY <1>4, <1>5, <1>6, <1>7, <1>8 DEF CommandFacts

LEMMA CommandInvStep ==
  ASSUME CommandInv, [Next]_vars
  PROVE  CommandInv'
<1>1. RowsInv'
  BY RowsInvStep DEF CommandInv
<1>2. CASE UNCHANGED vars
  <2>1. /\ UNCHANGED <<status, given, asked, serving>>
        /\ UNCHANGED <<row, profiles>>
        /\ UNCHANGED <<used, at, arg, read, crossed, halfway>>
    BY <1>2 DEF vars, runtimeVars, storeVars, history
  <2> USE <2>1 DEF CommandInv, CommandFacts, Exists, Serves, Runtime!Active, Holding
  <2>2. \A a \in Actor : HandsEmpty(a)'
    BY DEF HandsEmpty
  <2>3. CreatesAlone' /\ UsedOnly'
    BY DEF CreatesAlone, Creating, UsedOnly
  <2>4. \A a \in Actor, l \in Listener : HoldsTheRow(a, l)' /\ ChangesDown(a, l)'
    BY DEF HoldsTheRow, ChangesDown
  <2>5. CrossingKnown'
    BY DEF CrossingKnown, Crossing, Changing, Disabling
  <2>6. ServesItsRow' /\ UpOnlyEnabled'
    BY DEF ServesItsRow, UpOnlyEnabled, Disabling
  <2> QED
    BY <1>1, <2>2, <2>3, <2>4, <2>5, <2>6
<1>3. CASE RuntimeStep /\ Observe
  BY <1>1, <1>3, RuntimeKeepsFacts DEF CommandInv
<1>4. CASE Restart
  BY <1>1, <1>4, RestartKeepsFacts DEF CommandInv
<1>5. ASSUME NEW a \in Actor, ActorStep(a), Observe
      PROVE  CommandFacts'
  BY <1>5, ActorSteps, CallKeepsFacts, CheckKeepsFacts, ReadKeepsFacts, WriteKeepsFacts,
     StopsKeepFacts, StartKeepsFacts DEF TellStep
<1> QED
  BY <1>1, <1>2, <1>3, <1>4, <1>5 DEF CommandInv, Next

LEMMA CommandAlways == Safety => []CommandInv
BY CommandInitially, CommandInvStep, PTL DEF Safety

(* However many commands run, fail or are cut off, what is up and not      *)
(* being stopped has a row with its port and profile, or its profile is    *)
(* gone, or it was started across a change of that listener by a second    *)
(* command.  (request_stop before delete_listener; is_active before an     *)
(* update; set_enabled and the start of all read rows they then act on.)   *)
THEOREM ServedAsConfigured == Safety => []ServesItsRow
<1>1. CommandInv => ServesItsRow
  BY DEF CommandInv, CommandFacts
<1> QED
  BY <1>1, CommandAlways, PTL

(* What is up is enabled or on its way to be stopped, but for a start that *)
(* crossed its disable and a disable that failed after its mark.           *)
(* (ListenerService::set_enabled; the start of all; restarts.)             *)
THEOREM DisabledIsDown == Safety => []UpOnlyEnabled
<1>1. CommandInv => UpOnlyEnabled
  BY DEF CommandInv, CommandFacts
<1> QED
  BY <1>1, CommandAlways, PTL

(* A row changes its port or profile while the listener is up only if a    *)
(* start fell between the check and the write of that very edit.  ("A      *)
(* working listener cannot be reconfigured".)                              *)
THEOREM NoReconfigurationWhileUp == Safety => OnlyCrossingReconfigures
<1> DEFINE Stopped(l) ==
             (/\ Exists(l) /\ Exists(l)'
              /\ <<row[l].port, row[l].profile>> # <<row'[l].port, row'[l].profile>>)
             => ~Runtime!Active(l) \/ l \in crossed
<1>1. ASSUME CommandInv, [Next]_vars
      PROVE  \A l \in Listener : Stopped(l)
  <2>0. ConfigTyped /\ CreatesAlone /\ \A a \in Actor : ArgFits(a) /\ \A l \in Listener : ChangesDown(a, l)
    BY <1>1 DEF CommandInv, CommandFacts, RowsInv
  <2>1. CASE UNCHANGED row
    BY <2>1
  <2>2. ASSUME NEW a \in Actor, WriteStep(a), NEW l \in Listener
        PROVE  Stopped(l)
    <3>1. row \in [Listener -> Row \cup {NoRow}]
      BY <2>0 DEF ConfigTyped
    <3>2. CASE CreateInsert(a)
      BY <2>0, <3>1, <3>2 DEF CreateInsert, ReturnFrom, CreatesAlone, Creating
    <3>3. CASE UpdateWrite(a)
      BY <2>0, <3>1, <3>3 DEF UpdateWrite, ReturnFrom, ChangesDown
    <3>4. CASE Mark(a)
      <4>1. row'[l].port = row[l].port /\ row'[l].profile = row[l].profile
        BY <3>1, <3>4 DEF Mark, Row, NoRow
      <4> QED
        BY <4>1
    <3>5. CASE DeleteRemove(a)
      BY <3>1, <3>5 DEF DeleteRemove, Exists
    <3>6. CASE DropProfile(a)
      BY <3>1, <3>6 DEF DropProfile, Exists
    <3> QED
      BY <2>2, <3>2, <3>3, <3>4, <3>5, <3>6 DEF WriteStep
  <2>3. ASSUME NEW a \in Actor, CallStep(a) \/ CheckStep(a) \/ ReadStep(a) \/ TellStep(a)
        PROVE  UNCHANGED row
    <3>1. CallStep(a) => UNCHANGED row
      BY DEF CallStep, CallCreate, CallUpdate, CallSetEnabled, CallDelete, CallStartEnabled,
             CallDeleteProfile, Call, storeVars
    <3>2. CheckStep(a) => UNCHANGED row
      BY DEF CheckStep, CreateDraft, UpdateFind, UpdateCheckStopped, UpdateDraft, DeleteFind,
             RequireProfile, CountProfiles, Check, storeVars
    <3>3. ReadStep(a) => UNCHANGED row
      BY DEF ReadStep, Reread, ListEnabled, StartsRequested, StoreFails, storeVars
    <3>4. TellStep(a) => UNCHANGED row
      BY DEF TellStep, Stop, DeleteStop, StopAll, RequestStart, storeVars
    <3> QED
      BY <2>3, <3>1, <3>2, <3>3, <3>4
  <2>4. RuntimeStep \/ Restart \/ UNCHANGED vars => UNCHANGED row
    BY DEF RuntimeStep, Restart, vars, storeVars
  <2> QED
    BY <1>1, <2>1, <2>2, <2>3, <2>4, ActorSteps DEF Next
<1>2. CommandInv /\ [Next]_vars => [\A l \in Listener : Stopped(l)]_vars
  BY <1>1
<1> QED
  BY <1>2, CommandAlways, PTL DEF Safety, OnlyCrossingReconfigures
=============================================================================
