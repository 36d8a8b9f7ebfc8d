------------------------- MODULE ProxyConsoleProofs -------------------------
(***************************************************************************)
(* Proofs about what the user sees of the proxy, for any listeners, any    *)
(* number of commands under way and of events on their way, any limits.    *)
(***************************************************************************)
EXTENDS ProxyConsole, FiniteSetTheorems, TLAPS

Shown == [on : BOOLEAN, state : State \cup {"none"}]
Stage == {"idle", "called", "marked", "found", "told", "listing", "reading", "answered"}
Op == {"load", "create", "enable", "disable", "delete"}
Event == [state : [Listener -> State], dropped : Nat, at : Nat]
Calls == [stage : Stage, op : Op, listener : Listener, mine : BOOLEAN,
          rows : [Listener -> RowState], shown : [Listener -> Shown], dropped : Nat, at : Nat]
Screen == [status : {"closed", "loading", "ready", "failed"}, shown : [Listener -> Shown],
           dropped : Nat, at : Nat]
Tray == [stage : {"waiting", "reading"}, enabled : Nat, running : Nat, read : Nat, failed : BOOLEAN]

ListenersTyped ==
  /\ row \in [Listener -> RowState] /\ state \in [Listener -> State] /\ asked \in [Listener -> BOOLEAN]

StreamTyped ==
  /\ made \in Nat /\ dropped \in Nat
  /\ queue \in Seq(Nat) /\ posted \in Seq(Nat) /\ feed \in Seq(Nat) /\ received \in Seq(Nat)

Typed ==
  /\ ListenersTyped
  /\ StreamTyped
  /\ unseen \subseteq {"window", "tray"} /\ heard \subseteq {"decision", "runtime"}
  /\ events \in Seq(Event)
  /\ call \in [Call -> Calls]
  /\ screen \in Screen
  /\ tray \in Tray
  /\ clock \in Nat /\ newest \in Nat /\ misled \in BOOLEAN
  /\ unread \subseteq Call /\ silent \in BOOLEAN

(* Only what is active is asked to stop.                                   *)
ListenerInv == \A l \in Listener : asked[l] => Active(l)

(***************************************************************************)
(* The tray.                                                               *)
(***************************************************************************)

(* A command the tray has not caught up with has still to tell the runtime. *)
UnreadInv == \A c \in unread : call[c].stage \in {"marked", "found"}

(* Why the menu may miss a change of the rows.                             *)
Excused == silent \/ unread # {} \/ \E l \in Listener : Coming(state[l], asked[l])

TrayInv ==
  /\ UnreadInv
  /\ "tray" \in unseen \/
       IF tray.stage = "reading"
         THEN tray.read = Cardinality(Enabled) \/ Excused
         ELSE tray.failed \/ /\ tray.running = Cardinality(Running)
                             /\ tray.enabled = Cardinality(Enabled) \/ Excused

(***************************************************************************)
(* Decisions.                                                              *)
(***************************************************************************)
Rising(s) == \A i, j \in DOMAIN s : i < j => s[i] < s[j]
Before(s, t) == \A i \in DOMAIN s, j \in DOMAIN t : s[i] < t[j]

StreamInv ==
  /\ Rising(received) /\ Rising(posted) /\ Rising(queue)
  /\ Before(received, posted) /\ Before(received, queue) /\ Before(posted, queue)
  /\ \A i \in DOMAIN received : received[i] <= made
  /\ \A i \in DOMAIN posted : posted[i] <= made
  /\ \A i \in DOMAIN queue : queue[i] <= made
  /\ Len(queue) <= QueueCapacity
  /\ feed = [i \in 1..(IF Len(received) < FeedLimit THEN Len(received) ELSE FeedLimit) |->
               received[Len(received) + 1 - i]]
  /\ dropped + Len(received) + Len(posted) + Len(queue) <= made

(* The counter of dropped decisions is never ahead of the backend's.       *)
DroppedInv ==
  /\ screen.dropped <= dropped
  /\ \A i \in DOMAIN events : events[i].dropped <= dropped
  /\ \A c \in Call : call[c].dropped <= dropped

(***************************************************************************)
(* What the screen shows.                                                  *)
(***************************************************************************)

(* The rows are shown as they are.                                         *)
RowsRight(shown) ==
  \A l \in Listener : /\ shown[l].on = (row[l] = "on")
                      /\ (shown[l].state = "none") = ~Stored(row[l])

(* What is shown of listeners that do not start is true.                   *)
Known(s, on) == IF s # "Unknown" THEN s ELSE IF on THEN "Starting" ELSE "Stopped"

StatesRight(shown) ==
  \A l \in Listener :
    state[l] # "Starting" /\ shown[l].state # "none" => shown[l].state = Known(state[l], shown[l].on)

(* A call under way brings, or may bring, rows as recent as its last       *)
(* change or reading of them, which is after the moment at.                *)
Pending(at) == \E c \in Call : call[c].stage # "idle" /\ call[c].at > at

(* What is said of a listener that never ran, here or on the way.          *)
Unstarted(shown) == shown.state \in {"none", Known("Unknown", shown.on)}

NeverRan(l) ==
  state[l] = "Unknown" =>
    /\ Unstarted(screen.shown[l])
    /\ \A i \in DOMAIN events : events[i].state[l] = "Unknown"
    /\ \A c \in Call : call[c].stage = "answered" => Unstarted(call[c].shown[l])

(* The last event on its way tells the state of all that do not start.     *)
LastEventRight ==
  "window" \notin unseen /\ events # << >> =>
    \A l \in Listener : state[l] # "Starting" => events[Len(events)].state[l] = state[l]

CallInv(c) ==
  /\ call[c].at <= clock
  /\ call[c].stage = "reading" /\ call[c].at = clock => call[c].rows = row
  /\ call[c].stage = "answered" /\ call[c].at = clock => call[c].shown = Truth
  /\ call[c].stage = "reading" /\ call[c].mine =>
       call[c].rows = row \/ newest > call[c].at \/ Pending(call[c].at)
  /\ call[c].stage = "answered" /\ call[c].mine =>
       RowsRight(call[c].shown) \/ newest > call[c].at \/ Pending(call[c].at)
  /\ /\ call[c].stage = "answered" /\ call[c].mine /\ newest <= call[c].at
     /\ "window" \notin unseen /\ \A i \in DOMAIN events : events[i].at <= call[c].at
     => StatesRight(call[c].shown)

ScreenInv ==
  /\ screen.at <= clock
  /\ events # << >> => "runtime" \in heard
  /\ screen.status = "closed" => heard = {}
  /\ screen.status = "ready" /\ screen.at = clock /\ "runtime" \notin heard => screen.shown = Truth
  /\ screen.status = "ready" /\ ~misled => RowsRight(screen.shown) \/ Pending(screen.at)
  /\ screen.status = "ready" /\ ~misled /\ "window" \notin unseen /\ events = << >> =>
       StatesRight(screen.shown)

ViewInv ==
  /\ \A l \in Listener : NeverRan(l)
  /\ LastEventRight
  /\ \A c \in Call : CallInv(c)
  /\ ScreenInv

IInv ==
  /\ Typed
  /\ ListenerInv
  /\ TrayInv
  /\ StreamInv
  /\ DroppedInv
  /\ ViewInv

-----------------------------------------------------------------------------
(***************************************************************************)
(* Types.                                                                  *)
(***************************************************************************)

(* An idle call is a call, a closed screen a screen.                       *)
LEMMA Rests == NoCall \in Calls /\ Closed \in Screen /\ Absent \in Shown
<1>1. PICK l \in Listener : TRUE  BY ListenerAssumption
<1>2. (CHOOSE x \in Listener : TRUE) \in Listener  BY <1>1
<1>3. Absent \in Shown  BY DEF Absent, Shown
<1>4. NoListeners \in [Listener -> Shown]  BY <1>3 DEF NoListeners
<1>5. [x \in Listener |-> "absent"] \in [Listener -> RowState]  BY DEF RowState
<1>6. NoCall \in Calls  BY <1>2, <1>4, <1>5 DEF NoCall, Calls, Stage, Op
<1>7. Closed \in Screen  BY <1>4 DEF Closed, Screen
<1> QED  BY <1>3, <1>6, <1>7

(* A view is something the screen can show.                                *)
LEMMA ViewTyped ==
  ASSUME NEW r \in RowState, NEW s \in State
  PROVE  /\ View(r, s) \in State \cup {"none"}
         /\ View(r, s) = "none" <=> ~Stored(r)
         /\ Stored(r) /\ s # "Unknown" => View(r, s) = s
         /\ Stored(r) => View(r, s) = Known(s, r = "on")
<1>1. CASE ~Stored(r)
  <2>1. View(r, s) = "none"  BY <1>1 DEF View
  <2> QED  BY <1>1, <2>1
<1>2. CASE Stored(r)
  <2>1. View(r, s) = Known(s, r = "on")  BY <1>2 DEF View, Known
  <2>2. Known(s, r = "on") \in State  BY DEF Known, State
  <2> QED  BY <1>2, <2>1, <2>2 DEF State, Known
<1> QED  BY <1>1, <1>2

(* Sets of listeners can be counted.                                       *)
LEMMA Counted ==
  ASSUME NEW S \in SUBSET Listener
  PROVE  IsFiniteSet(S) /\ Cardinality(S) \in Nat
BY ListenerAssumption, FS_Subset, FS_CardinalityType

LEMMA CountsTyped == Cardinality(Enabled) \in Nat /\ Cardinality(Running) \in Nat
<1>1. Enabled \in SUBSET Listener /\ Running \in SUBSET Listener  BY DEF Enabled, Running
<1> QED  BY <1>1, Counted

(* The call that begins.                                                   *)
Begun(c, op, l, r) ==
  /\ r.stage \in {"called",
      "listing"} /\ r.op = op /\ r.listener = l /\ r.mine = TRUE /\ r.dropped = 0 /\ r.at = 0
  /\ call' = [call EXCEPT ![c] = r]

(* A call that begins was idle, and is a fresh one.                        *)
LEMMA Begins ==
  ASSUME Typed, NEW c \in Call, NEW op \in Op, NEW l \in Listener, Begin(c, op, l)
  PROVE  /\ call[c].stage = "idle"
         /\ \E r \in Calls : Begun(c, op, l, r)
         /\ call' \in [Call -> Calls]
<1> DEFINE r == [NoCall EXCEPT !.stage = IF op = "load" THEN "listing" ELSE "called",
                               !.op = op, !.listener = l]
<1>1. r \in Calls /\ r.stage \in {"called", "listing"} /\ r.op = op /\ r.listener = l /\ r.mine = TRUE
      /\ r.dropped = 0 /\ r.at = 0
  <2>1. NoCall.mine = TRUE /\ NoCall.dropped = 0 /\ NoCall.at = 0  BY DEF NoCall
  <2> QED  BY <2>1, Rests DEF Calls, Stage
<1>2. call' = [call EXCEPT ![c] = r] /\ call[c].stage = "idle"  BY DEF Begin
<1> HIDE DEF r
<1>3. call' \in [Call -> Calls]  BY <1>1, <1>2 DEF Typed
<1>4. Begun(c, op, l, r)  BY <1>1, <1>2 DEF Begun
<1> QED  BY <1>1, <1>2, <1>3, <1>4

LEMMA Forgotten ==
  ASSUME Typed, NEW c \in Call, Forget(c)
  PROVE  call' = [call EXCEPT ![c] = NoCall] /\ call' \in [Call -> Calls]
BY Rests DEF Typed, Forget

(* What a command under way leaves alone.                                  *)
LEMMA WorkKeeps ==
  ASSUME NEW c \in Call, Work(c)
  PROVE  UNCHANGED <<unseen, events, screen, heard, tray, stream, newest, misled, bounds>>
BY DEF Work, Write, Look, Tell, Remove, history

(* What a command under way becomes.                                       *)
Worked(c, r) ==
  /\ call' = [call EXCEPT ![c] = r]
  /\ call[c].stage \in {"called", "marked", "found", "told"}
  /\ r.stage \in {"marked", "found", "told", "listing"}
  /\ r.dropped = call[c].dropped
  /\ r.at = call[c].at \/ (r.at = clock' /\ clock' = clock + 1)
  /\ row' # row => r.at = clock' /\ clock' = clock + 1

(* Every step of a command moves its call on.                              *)
LEMMA WorkMoves ==
  ASSUME Typed, NEW c \in Call, Work(c)
  PROVE  \E r \in Calls : Worked(c, r)
<1>0. call \in [Call -> Calls] /\ call[c] \in Calls /\ clock \in Nat  BY DEF Typed
<1>1. CASE Write(c)
  <2> DEFINE st == IF call[c].op = "create" THEN "listing" ELSE "marked"
             n == clock + 1
             r == [call[c] EXCEPT !.stage = st, !.at = n]
  <2>1. call' = [call EXCEPT ![c] = r]  BY <1>0, <1>1 DEF Write, Calls
  <2>5. n \in Nat /\ st \in Stage  BY <1>0 DEF Stage
  <2>2. r \in Calls /\ r.stage = st /\ r.at = n /\ r.dropped = call[c].dropped
    <3> HIDE DEF n, st
    <3> QED  BY <1>0, <2>5 DEF Calls
  <2>3. call[c].stage = "called" /\ clock' = clock + 1  BY <1>1 DEF Write
  <2>4. st \in {"listing", "marked"}  OBVIOUS
  <2> HIDE DEF r, st
  <2> QED  BY <2>1, <2>2, <2>3, <2>4 DEF Worked
<1>2. CASE Look(c)
  <2> DEFINE r == [call[c] EXCEPT !.stage = "found"]
  <2>1. call' = [call EXCEPT ![c] = r] /\ row' = row  BY <1>0, <1>2 DEF Look, Calls, listeners
  <2>2. r \in Calls /\ r.stage = "found" /\ r.at = call[c].at /\ r.dropped = call[c].dropped
    BY <1>0 DEF Calls, Stage
  <2>3. call[c].stage \in {"called", "marked"}  BY <1>2 DEF Look
  <2> HIDE DEF r
  <2> QED  BY <2>1, <2>2, <2>3 DEF Worked
<1>3. CASE Tell(c)
  <2> DEFINE st == IF call[c].op = "delete" THEN "told" ELSE "listing"
             r == [call[c] EXCEPT !.stage = st]
  <2>1. call' = [call EXCEPT ![c] = r] /\ row' = row  BY <1>0, <1>3 DEF Tell, Calls
  <2>2. r \in Calls /\ r.stage = st /\ r.at = call[c].at /\ r.dropped = call[c].dropped
    BY <1>0 DEF Calls, Stage
  <2>3. call[c].stage = "found"  BY <1>3 DEF Tell
  <2>4. st \in {"listing", "told"}  OBVIOUS
  <2> HIDE DEF r, st
  <2> QED  BY <2>1, <2>2, <2>3, <2>4 DEF Worked
<1>4. CASE Remove(c)
  <2> DEFINE n == clock + 1
             r == [call[c] EXCEPT !.stage = "listing", !.at = n]
  <2>1. call' = [call EXCEPT ![c] = r]  BY <1>0, <1>4 DEF Remove, Calls
  <2>5. n \in Nat /\ "listing" \in Stage  BY <1>0 DEF Stage
  <2>2. r \in Calls /\ r.stage = "listing" /\ r.at = n /\ r.dropped = call[c].dropped
    <3> HIDE DEF n
    <3> QED  BY <1>0, <2>5 DEF Calls
  <2>3. call[c].stage = "told" /\ clock' = clock + 1  BY <1>4 DEF Remove
  <2> HIDE DEF r
  <2> QED  BY <2>1, <2>2, <2>3 DEF Worked
<1> QED  BY <1>1, <1>2, <1>3, <1>4 DEF Work

(* What it does to the listeners: a row is written without telling the     *)
(* runtime, and a start or a stop told without touching a row.             *)
LEMMA WorkDoes ==
  ASSUME Typed, NEW c \in Call, Work(c)
  PROVE  /\ ListenersTyped'
         /\ clock' \in {clock, clock + 1}
         /\ clock' = clock => UNCHANGED <<row, state>>
         /\ row' = row \/ UNCHANGED <<state, asked>>
         /\ \A m \in Listener :
              /\ state'[m] = state[m] \/ (~Active(m) /\ state'[m] = "Starting")
              /\ asked'[m] = asked[m] \/ (Active(m) /\ asked'[m] /\ state'[m] = state[m])
<1>0. row \in [Listener -> RowState] /\ state \in [Listener -> State] /\ asked \in [Listener -> BOOLEAN]
      /\ call[c].listener \in Listener /\ clock \in Nat
  BY DEF Typed, ListenersTyped, Calls
<1> DEFINE l == call[c].listener
<1>1. CASE Write(c) \/ Look(c) \/ Remove(c)
  <2>1. UNCHANGED <<state, asked>>  BY <1>1 DEF Write, Look, Remove, listeners
  <2>2. row' \in [Listener -> RowState]  BY <1>0, <1>1 DEF Write, Look, Remove, listeners, RowState
  <2>3. clock' = clock + 1 \/ (clock' = clock /\ row' = row)
    BY <1>1 DEF Write, Look, Remove, listeners, history
  <2> QED  BY <1>0, <2>1, <2>2, <2>3 DEF ListenersTyped
<1>2. CASE Tell(c)
  <2>1. /\ row' = row
        /\ \/ ~Active(l) /\ state' = [state EXCEPT ![l] = "Starting"] /\ clock' = clock + 1
           \/ state' = state /\ clock' = clock
        /\ asked' = asked \/ (Active(l) /\ asked' = [asked EXCEPT ![l] = TRUE] /\ state' = state)
    BY <1>2 DEF Tell
  <2> HIDE DEF l
  <2>2. l \in Listener  BY <1>0 DEF l
  <2>3. state' \in [Listener -> State] /\ asked' \in [Listener -> BOOLEAN]
    BY <1>0, <2>1, <2>2 DEF State
  <2>4. ASSUME NEW m \in Listener
        PROVE  /\ state'[m] = state[m] \/ (~Active(m) /\ state'[m] = "Starting")
               /\ asked'[m] = asked[m] \/ (Active(m) /\ asked'[m] /\ state'[m] = state[m])
    BY <1>0, <2>1, <2>2
  <2> QED  BY <1>0, <2>1, <2>3, <2>4 DEF ListenersTyped
<1> QED  BY <1>1, <1>2 DEF Work

(* What the deletion of a profile does: rows go, and what is silent of it  *)
(* is known; the runtime, the calls and what is on its way stay.           *)
LEMMA CascadeDoes ==
  ASSUME Typed, Cascade
  PROVE  /\ row' \in [Listener -> RowState] /\ clock' = clock + 1
         /\ silent' \in BOOLEAN /\ (silent => silent')
         /\ \A l \in Listener : \/ row'[l] = "on" <=> row[l] = "on"
                              \/ silent' \/ Coming(state[l], asked[l])
         /\ Lost(clock + 1)
         /\ UNCHANGED <<state, asked, unseen, events, call, screen, heard, tray, stream, unread>>
<1>0. row \in [Listener -> RowState] /\ silent \in BOOLEAN  BY DEF Typed, ListenersTyped
<1>1. PICK gone \in (SUBSET {l \in Listener : Stored(row[l])}) \ {{}} :
        /\ row' = [l \in Listener |-> IF l \in gone THEN "gone" ELSE row[l]]
        /\ silent' = (silent \/ \E l \in gone : row[l] = "on" /\ ~Coming(state[l], asked[l]))
        /\ clock' = clock + 1
        /\ Lost(clock + 1)
  BY DEF Cascade
<1>2. row' \in [Listener -> RowState]  BY <1>0, <1>1 DEF RowState
<1>3. silent' \in BOOLEAN /\ (silent => silent')  BY <1>0, <1>1
<1>4. ASSUME NEW l \in Listener
      PROVE  (row'[l] = "on" <=> row[l] = "on") \/ silent' \/ Coming(state[l], asked[l])
  <2>1. CASE l \notin gone
    <3>1. row'[l] = row[l]  BY <1>1, <2>1
    <3> QED  BY <3>1
  <2>2. CASE l \in gone
    <3>1. row'[l] = "gone"  BY <1>1, <2>2
    <3>2. row[l] = "on" /\ ~Coming(state[l], asked[l]) => silent'  BY <1>1, <2>2
    <3> QED  BY <3>1, <3>2
  <2> QED  BY <2>1, <2>2
<1>5. UNCHANGED <<state, asked, unseen, events, call, screen, heard, tray, stream, unread>>
  BY DEF Cascade
<1> QED  BY <1>1, <1>2, <1>3, <1>4, <1>5

(* What a command may do to its call.                                      *)
LEMMA CallMoves ==
  ASSUME Typed, [Next]_vars
  PROVE  call' \in [Call -> Calls]
<1>1. call \in [Call -> Calls]  BY DEF Typed
<1>2. ASSUME NEW c \in Call, Work(c) PROVE call' \in [Call -> Calls]
  BY <1>1, <1>2, WorkMoves DEF Worked
<1>3. ASSUME NEW c \in Call, ReadRows(c) PROVE call' \in [Call -> Calls]
  <2> DEFINE r == [call[c] EXCEPT !.stage = "reading", !.rows = row, !.at = clock]
  <2>1. call[c] \in Calls /\ row \in [Listener -> RowState] /\ clock \in Nat
    BY <1>1 DEF Typed, ListenersTyped
  <2>2. r \in Calls  BY <2>1 DEF Calls, Stage
  <2>3. call' = [call EXCEPT ![c] = r]  BY <1>1, <1>3, <2>1 DEF ReadRows, Calls
  <2> HIDE DEF r
  <2> QED  BY <1>1, <2>2, <2>3
<1>4. ASSUME NEW c \in Call, ReadHealth(c) PROVE call' \in [Call -> Calls]
  <2> DEFINE v == [l \in Listener |->
          [on |-> call[c].rows[l] = "on", state |-> View(call[c].rows[l], state[l])]]
             r == [call[c] EXCEPT !.stage = "answered", !.rows = NoCall.rows, !.shown = v,
                                  !.dropped = dropped]
  <2>1. call[c] \in Calls /\ dropped \in Nat /\ state \in [Listener -> State]
    BY <1>1 DEF Typed, ListenersTyped, StreamTyped
  <2>2. NoCall.rows \in [Listener -> RowState]  BY Rests DEF Calls
  <2>3. ASSUME NEW l \in Listener PROVE [on |-> call[c].rows[l] = "on", state |-> View(call[c].rows[l],
      state[l])] \in Shown
    <3>1. call[c].rows[l] \in RowState /\ state[l] \in State  BY <2>1 DEF Calls
    <3>2. View(call[c].rows[l], state[l]) \in State \cup {"none"}  BY <3>1, ViewTyped
    <3> QED  BY <3>2 DEF Shown
  <2>4. v \in [Listener -> Shown]  BY <2>3
  <2>5. call' = [call EXCEPT ![c] = r]  BY <1>1, <1>4, <2>1 DEF ReadHealth, Calls
  <2> HIDE DEF v
  <2>6. r \in Calls  BY <2>1, <2>2, <2>4 DEF Calls, Stage
  <2> HIDE DEF r
  <2> QED  BY <1>1, <2>5, <2>6
<1>5. ASSUME NEW c \in Call, Apply(c) \/ Ignore(c) \/ Fail(c) PROVE call' \in [Call -> Calls]
  BY <1>5, Forgotten DEF Apply, Ignore, Fail
<1>6. ASSUME NEW c \in Call, Open(c) PROVE call' \in [Call -> Calls]
  <2>1. NoCall.listener \in Listener  BY Rests DEF Calls
  <2>2. "load" \in Op /\ Begin(c, "load", NoCall.listener)  BY <1>6 DEF Open, Op
  <2> QED  BY <2>1, <2>2, Begins
<1>7. ASSUME NEW c \in Call, NEW l \in Listener, NEW op \in {"create", "enable", "disable", "delete"},
             Click(c, op, l)
      PROVE  call' \in [Call -> Calls]
  <2>1. op \in Op /\ Begin(c, op, l)  BY <1>7 DEF Click, Op
  <2> QED  BY <2>1, Begins
<1>8. ASSUME Leave PROVE call' \in [Call -> Calls]
  <2>1. ASSUME NEW c \in Call PROVE [call[c] EXCEPT !.mine = FALSE] \in Calls
    <3>1. call[c] \in Calls  BY <1>1
    <3> QED  BY <3>1 DEF Calls
  <2> QED  BY <1>8, <2>1, Rests DEF Leave
<1>9. CASE UNCHANGED call  BY <1>1, <1>9
<1> QED  BY <1>2, <1>3, <1>4, <1>5, <1>6, <1>7, <1>8, <1>9
         DEF Next, System, User, vars, Subscribe, Settle, Close, EmitState, HandleRuntime, TrayWake,
             TrayApply, TrayFail, EmitDecision, HandleDecision, Cascade, TrayStart, TrayStop,
             TrayClick, Publish

(* The larger of two moments.                                              *)
LEMMA LargerIs ==
  ASSUME NEW a \in Nat, NEW b \in Nat
  PROVE  Larger(a, b) \in Nat /\ Larger(a, b) >= a /\ Larger(a, b) >= b /\ Larger(a, b) \in {a, b}
BY DEF Larger

(* It overtakes every answer read before.                                  *)
LEMMA CascadeOvertakes ==
  ASSUME Typed, Cascade, NEW at \in Nat, at <= clock
  PROVE  /\ newest' \in Nat /\ newest' > at /\ newest' >= newest
         /\ misled' \in BOOLEAN /\ (misled => misled')
         /\ screen.at <= clock => misled'
<1>1. clock \in Nat /\ newest \in Nat /\ misled \in BOOLEAN /\ screen.at \in Nat  BY DEF Typed, Screen
<1>2. newest' = Larger(newest, clock + 1) /\ misled' = (misled \/ clock + 1 > screen.at)
  BY CascadeDoes DEF Lost
<1>3. newest' \in Nat /\ newest' >= clock + 1 /\ newest' >= newest  BY <1>1, <1>2, LargerIs
<1>4. newest' > at  BY <1>1, <1>3
<1>5. screen.at <= clock => clock + 1 > screen.at  BY <1>1
<1>6. misled' \in BOOLEAN /\ (misled => misled') /\ (screen.at <= clock => misled')
  BY <1>1, <1>2, <1>5, Zenon
<1> QED  BY <1>3, <1>4, <1>6

(* What the next view or decision does.                                    *)
LEMMA MergedTyped ==
  ASSUME Typed, NEW e \in Event
  PROVE  Merged(e) \in [Listener -> Shown]
<1>1. screen.shown \in [Listener -> Shown]  BY DEF Typed, Screen
<1>2. ASSUME NEW l \in Listener, ~(screen.shown[l].state = "none" \/ e.state[l] = "Unknown")
      PROVE  [screen.shown[l] EXCEPT !.state = e.state[l]] \in Shown
  <2>1. screen.shown[l] \in Shown /\ e.state[l] \in State  BY <1>1 DEF Event
  <2> QED  BY <2>1 DEF Shown
<1> QED  BY <1>1, <1>2 DEF Merged

LEMMA FeedTyped ==
  ASSUME NEW f \in Seq(Nat), NEW d \in Nat
  PROVE  PrependDecision(f, d) \in Seq(Nat)
<1>1. <<d>> \o f \in Seq(Nat)  OBVIOUS
<1>2. (IF Len(f) < FeedLimit THEN Len(f) + 1 ELSE FeedLimit) \in Nat
      /\ (IF Len(f) < FeedLimit THEN Len(f) + 1 ELSE FeedLimit) <= Len(f) + 1
  BY LimitsAssumption
<1>3. Len(<<d>> \o f) = Len(f) + 1  OBVIOUS
<1> QED  BY <1>1, <1>2, <1>3 DEF PrependDecision

(* Listeners, stream and what the screen and the tray keep stay typed.     *)
LEMMA ListenersStayTyped ==
  ASSUME Typed, [Next]_vars
  PROVE  ListenersTyped'
<1>0. row \in [Listener -> RowState] /\ state \in [Listener -> State] /\ asked \in [Listener -> BOOLEAN]
  BY DEF Typed, ListenersTyped
<1>1. ASSUME NEW c \in Call, Work(c) PROVE ListenersTyped'
  BY <1>1, WorkDoes
<1>2. ASSUME NEW l \in Listener, Settle(l) PROVE ListenersTyped'
  <2>1. PICK s \in {"Running", "Failed"} : state' = [state EXCEPT ![l] = s]  BY <1>2 DEF Settle
  <2>2. state' \in [Listener -> State]  BY <1>0, <2>1 DEF State
  <2>3. asked' \in [Listener -> BOOLEAN]  BY <1>0, <1>2 DEF Settle
  <2>4. UNCHANGED row  BY <1>2 DEF Settle
  <2> QED  BY <1>0, <2>2, <2>3, <2>4 DEF ListenersTyped
<1>3. ASSUME NEW l \in Listener, Close(l) PROVE ListenersTyped'
  BY <1>0, <1>3 DEF Close, ListenersTyped, State
<1>4. ASSUME TrayStart PROVE ListenersTyped'
  BY <1>0, <1>4 DEF TrayStart, TrayClick, ListenersTyped, State
<1>5. ASSUME TrayStop PROVE ListenersTyped'
  <2>1. asked' \in [Listener -> BOOLEAN]  BY <1>5 DEF TrayStop, Active
  <2>2. UNCHANGED <<row, state>>  BY <1>5 DEF TrayStop, TrayClick
  <2> QED  BY <1>0, <2>1, <2>2 DEF ListenersTyped
<1>6. ASSUME UNCHANGED listeners PROVE ListenersTyped'
  BY <1>0, <1>6 DEF listeners, ListenersTyped
<1>7. ASSUME NEW c \in Call, Fail(c) PROVE UNCHANGED listeners
  BY <1>7 DEF Fail, listeners
<1>8. ASSUME Cascade PROVE ListenersTyped'
  BY <1>0, <1>8, CascadeDoes DEF ListenersTyped
<1> QED  BY <1>1, <1>2, <1>3, <1>4, <1>5, <1>6, <1>7, <1>8
         DEF Next, System, User, vars, Subscribe, ReadRows, ReadHealth, Apply, Ignore,
             EmitState, HandleRuntime, TrayWake, TrayApply, TrayFail, EmitDecision, HandleDecision,
             Open, Click, Leave, Publish

LEMMA StreamStaysTyped ==
  ASSUME Typed, [Next]_vars
  PROVE  StreamTyped'
<1>0. /\ made \in Nat /\ dropped \in Nat
      /\ queue \in Seq(Nat) /\ posted \in Seq(Nat) /\ feed \in Seq(Nat) /\ received \in Seq(Nat)
  BY DEF Typed, StreamTyped
<1>1. ASSUME Publish PROVE StreamTyped'
  <2>0. made' = made + 1 /\ made' \in Nat  BY <1>0, <1>1 DEF Publish
  <2>3. Append(queue, made + 1) \in Seq(Nat)  BY <1>0
  <2>4. queue' = queue \/ queue' = Append(queue, made + 1)  BY <1>1 DEF Publish
  <2>5. dropped' = dropped \/ dropped' = dropped + 1  BY <1>1 DEF Publish
  <2>1. queue' \in Seq(Nat)  BY <1>0, <2>3, <2>4
  <2>6. dropped' \in Nat  BY <1>0, <2>5
  <2>2. UNCHANGED <<posted, feed, received>>  BY <1>1 DEF Publish
  <2> QED  BY <1>0, <2>0, <2>1, <2>2, <2>6 DEF StreamTyped
<1>2. ASSUME EmitDecision PROVE StreamTyped'
  <2>1. queue' \in Seq(Nat) /\ posted' \in Seq(Nat)  BY <1>0, <1>2 DEF EmitDecision
  <2>2. UNCHANGED <<made, dropped, feed, received>>  BY <1>2 DEF EmitDecision
  <2> QED  BY <1>0, <2>1, <2>2 DEF StreamTyped
<1>3. ASSUME HandleDecision PROVE StreamTyped'
  <2>1. posted # << >> /\ Head(posted) \in Nat  BY <1>0, <1>3 DEF HandleDecision
  <2>2. feed' \in Seq(Nat)  BY <1>0, <1>3, <2>1, FeedTyped DEF HandleDecision
  <2>3. posted' \in Seq(Nat) /\ received' \in Seq(Nat)  BY <1>0, <1>3, <2>1 DEF HandleDecision
  <2>4. UNCHANGED <<made, dropped, queue>>  BY <1>3 DEF HandleDecision
  <2> QED  BY <1>0, <2>2, <2>3, <2>4 DEF StreamTyped
<1>4. ASSUME Leave PROVE StreamTyped'
  BY <1>0, <1>4 DEF Leave, StreamTyped
<1>5. ASSUME UNCHANGED stream PROVE StreamTyped'
  BY <1>0, <1>5 DEF stream, StreamTyped
<1> QED  BY <1>1, <1>2, <1>3, <1>4, <1>5
         DEF Next, System, User, vars, Subscribe, Work, Write, Look, Tell, Remove, ReadRows, ReadHealth,
             Apply, Ignore, Fail,
             Settle, Close, EmitState, HandleRuntime, TrayWake, TrayApply, TrayFail, Open, Click,
             Cascade, TrayStart, TrayStop, TrayClick

LEMMA ScreenStaysTyped ==
  ASSUME Typed, [Next]_vars
  PROVE  screen' \in Screen /\ unseen' \subseteq {"window", "tray"} /\ heard' \subseteq {"decision", "runtime"}
         /\ clock' \in Nat /\ newest' \in Nat /\ misled' \in BOOLEAN
<1> DEFINE G == screen' \in Screen /\ unseen' \subseteq {"window", "tray"}
                /\ heard' \subseteq {"decision", "runtime"}
                /\ clock' \in Nat /\ newest' \in Nat /\ misled' \in BOOLEAN
<1>0. screen \in Screen /\ unseen \subseteq {"window", "tray"} /\ heard \subseteq {"decision", "runtime"}
      /\ clock \in Nat /\ newest \in Nat /\ misled \in BOOLEAN /\ dropped \in Nat
  BY DEF Typed, StreamTyped
<1>1. ASSUME NEW c \in Call, Work(c) PROVE G
  <2>1. UNCHANGED <<unseen, screen, heard, newest, misled>>  BY <1>1, WorkKeeps
  <2>2. clock' \in {clock, clock + 1}  BY <1>1, WorkDoes
  <2> QED  BY <1>0, <2>1, <2>2
<1>2. ASSUME NEW c \in Call, Apply(c) PROVE G
  <2>1. call[c].shown \in [Listener -> Shown] /\ call[c].dropped \in Nat /\ call[c].at \in Nat
    BY DEF Typed, Calls
  <2>2. screen' \in Screen  BY <1>2, <2>1 DEF Apply, Screen
  <2>3. newest' \in Nat  BY <1>0, <1>2, <2>1, LargerIs DEF Apply
  <2>4. misled' \in BOOLEAN  BY <1>2 DEF Apply
  <2> QED  BY <1>0, <1>2, <2>2, <2>3, <2>4 DEF Apply
<1>3. ASSUME NEW at \in Nat, Lost(at) PROVE newest' \in Nat /\ misled' \in BOOLEAN
  BY <1>0, <1>3, LargerIs DEF Lost
<1>4. ASSUME NEW c \in Call, Ignore(c) PROVE G
  <2>1. call[c].at \in Nat  BY DEF Typed, Calls
  <2>2. newest' \in Nat /\ misled' \in BOOLEAN  BY <1>3, <1>4, <2>1 DEF Ignore
  <2> QED  BY <1>0, <1>4, <2>2 DEF Ignore
<1>5. ASSUME NEW c \in Call, Fail(c) PROVE G
  <2>1. call[c].at \in Nat  BY DEF Typed, Calls
  <2>2. newest' \in Nat /\ misled' \in BOOLEAN  BY <1>3, <1>5, <2>1 DEF Fail
  <2>3. screen' \in Screen  BY <1>0, <1>5 DEF Fail, Screen
  <2> QED  BY <1>0, <1>5, <2>2, <2>3 DEF Fail
<1>6. ASSUME NEW l \in Listener, Settle(l) \/ Close(l) PROVE G
  <2>1. unseen' = {"window", "tray"} /\ clock' = clock + 1  BY <1>6 DEF Settle, Close, Announce
  <2>2. UNCHANGED <<screen, heard, newest, misled>>  BY <1>6 DEF Settle, Close
  <2> QED  BY <1>0, <2>1, <2>2
<1>7. ASSUME EmitState PROVE G
  <2>1. newest' \in Nat /\ misled' \in BOOLEAN  BY <1>0, <1>3, <1>7 DEF EmitState
  <2> QED  BY <1>0, <1>7, <2>1 DEF EmitState
<1>8. ASSUME HandleRuntime PROVE G
  <2>1. Head(events) \in Event  BY <1>8 DEF HandleRuntime, Typed
  <2>2. Head(events).dropped \in Nat /\ Head(events).at \in Nat  BY <2>1 DEF Event
  <2>3. Merged(Head(events)) \in [Listener -> Shown]  BY <2>1, MergedTyped
  <2>4. screen' \in Screen  BY <1>0, <1>8, <2>2, <2>3 DEF HandleRuntime, Screen
  <2>5. newest' \in Nat  BY <1>0, <1>8, <2>2, LargerIs DEF HandleRuntime
  <2> QED  BY <1>0, <1>8, <2>4, <2>5 DEF HandleRuntime
<1>9. ASSUME NEW kind \in {"decision", "runtime"}, Subscribe(kind) PROVE G
  BY <1>0, <1>9 DEF Subscribe, history
<1>10. ASSUME TrayWake \/ TrayApply \/ TrayFail PROVE G
  BY <1>0, <1>10 DEF TrayWake, TrayApply, TrayFail, history
<1>11. ASSUME NEW c \in Call, Open(c) PROVE G
  <2>1. screen' \in Screen  BY <1>0, <1>11 DEF Open, Screen
  <2> QED  BY <1>0, <1>11, <2>1 DEF Open, history
<1>12. ASSUME Leave PROVE G
  BY <1>0, <1>12, Rests DEF Leave
<1>13. ASSUME TrayStart \/ TrayStop PROVE G
  <2>1. clock' = clock \/ clock' = clock + 1  BY <1>13 DEF TrayStart, TrayStop
  <2>2. UNCHANGED <<unseen, screen, heard, newest, misled>>  BY <1>13 DEF TrayStart, TrayStop, TrayClick
  <2> QED  BY <1>0, <2>1, <2>2
<1>14. ASSUME UNCHANGED <<screen, unseen, heard, history>> PROVE G
  BY <1>0, <1>14 DEF history
<1>16. ASSUME Cascade PROVE G
  <2>1. newest' \in Nat /\ misled' \in BOOLEAN  BY <1>0, <1>16, CascadeOvertakes
  <2>2. UNCHANGED <<screen, unseen, heard>> /\ clock' = clock + 1  BY <1>16, CascadeDoes
  <2> QED  BY <1>0, <2>1, <2>2
<1> HIDE DEF G
<1>15. G
  BY <1>1, <1>2, <1>4, <1>5, <1>6, <1>7, <1>8, <1>9, <1>10, <1>11, <1>12, <1>13, <1>14,
     <1>16
  DEF Next, System, User, vars, ReadRows, ReadHealth, EmitDecision, HandleDecision, Click, Publish
<1> QED  BY <1>15 DEF G

LEMMA EventsStayTyped ==
  ASSUME Typed, [Next]_vars
  PROVE  events' \in Seq(Event) /\ tray' \in Tray
<1>0. events \in Seq(Event) /\ tray \in Tray /\ Cardinality(Enabled) \in Nat /\ Cardinality(Running) \in Nat
  BY CountsTyped DEF Typed
<1>1. ASSUME EmitState PROVE events' \in Seq(Event) /\ tray' \in Tray
  <2>1. [state |-> state, dropped |-> dropped, at |-> clock] \in Event
    BY DEF Typed, ListenersTyped, StreamTyped, Event
  <2> QED  BY <1>0, <1>1, <2>1 DEF EmitState
<1>2. ASSUME HandleRuntime PROVE events' \in Seq(Event) /\ tray' \in Tray
  BY <1>0, <1>2 DEF HandleRuntime
<1>3. ASSUME TrayWake \/ TrayApply \/ TrayFail PROVE events' \in Seq(Event) /\ tray' \in Tray
  <2>1. UNCHANGED events  BY <1>3 DEF TrayWake, TrayApply, TrayFail
  <2>2. tray' \in Tray
    <3>1. CASE TrayWake  BY <1>0, <3>1 DEF TrayWake, Tray
    <3>2. CASE TrayApply  BY <1>0, <3>2 DEF TrayApply, Tray
    <3>3. CASE TrayFail  BY <1>0, <3>3 DEF TrayFail, Tray
    <3> QED  BY <1>3, <3>1, <3>2, <3>3
  <2> QED  BY <1>0, <2>1, <2>2
<1>4. ASSUME Leave PROVE events' \in Seq(Event) /\ tray' \in Tray
  BY <1>0, <1>4 DEF Leave
<1>5. ASSUME UNCHANGED <<events, tray>> PROVE events' \in Seq(Event) /\ tray' \in Tray
  BY <1>0, <1>5
<1> QED  BY <1>1, <1>2, <1>3, <1>4, <1>5
         DEF Next, System, User, vars, Subscribe, Work, Write, Look, Tell, Remove, ReadRows, ReadHealth,
             Apply, Ignore, Fail,
             Settle, Close, EmitDecision, HandleDecision, Open, Click, Cascade, TrayStart, TrayStop,
             TrayClick, Publish

(* Who touches what the tray is behind with.                               *)
LEMMA OwedSteps ==
  ASSUME [Next]_vars
  PROVE  \/ \E c \in Call : Write(c) \/ Tell(c) \/ Remove(c) \/ Fail(c)
         \/ TrayWake
         \/ Cascade
         \/ UNCHANGED <<unread, silent>>
BY DEF Next, System, User, vars, owed, history, Subscribe, Work, Look, ReadRows, ReadHealth, Apply, Ignore,
       Settle, Close, EmitState, HandleRuntime, TrayApply, TrayFail, EmitDecision, HandleDecision,
       Open, Click, Leave, TrayStart, TrayStop, TrayClick, Publish

LEMMA OwedStaysTyped ==
  ASSUME Typed, [Next]_vars
  PROVE  unread' \subseteq Call /\ silent' \in BOOLEAN
<1>0. unread \subseteq Call /\ silent \in BOOLEAN  BY DEF Typed
<1>1. ASSUME NEW c \in Call, Write(c) PROVE unread' \subseteq Call /\ silent' \in BOOLEAN
  BY <1>0, <1>1 DEF Write
<1>2. ASSUME NEW c \in Call, Remove(c) PROVE unread' \subseteq Call /\ silent' \in BOOLEAN
  BY <1>0, <1>2 DEF Remove
<1>3. ASSUME NEW c \in Call, LeaveRow(c) PROVE unread' \subseteq Call /\ silent' \in BOOLEAN
  BY <1>0, <1>3 DEF LeaveRow
<1>4. ASSUME NEW c \in Call, Tell(c) \/ Fail(c) PROVE LeaveRow(c)
  BY <1>4 DEF Tell, Fail
<1>5. ASSUME TrayWake PROVE unread' \subseteq Call /\ silent' \in BOOLEAN
  BY <1>5 DEF TrayWake
<1>6. ASSUME Cascade PROVE unread' \subseteq Call /\ silent' \in BOOLEAN
  BY <1>0, <1>6, CascadeDoes
<1> QED  BY <1>0, <1>1, <1>2, <1>3, <1>4, <1>5, <1>6, OwedSteps

(* The types hold from the start and are kept.                             *)
LEMMA Types ==
  ASSUME Typed, [Next]_vars
  PROVE  Typed'
BY CallMoves, ListenersStayTyped, StreamStaysTyped, ScreenStaysTyped, EventsStayTyped, OwedStaysTyped DEF Typed

LEMMA InitTyped == Init => Typed
<1> SUFFICES ASSUME Init PROVE Typed  OBVIOUS
<1>1. ListenersTyped  BY DEF Init, ListenersTyped, RowState, State
<1>2. StreamTyped  BY DEF Init, StreamTyped
<1>3. call \in [Call -> Calls]  BY Rests DEF Init
<1>4. screen \in Screen  BY Rests DEF Init
<1>5. tray \in Tray
  <2>1. tray = [stage |-> "waiting", enabled |-> Cardinality(Enabled),
                running |-> 0, read |-> 0, failed |-> FALSE]  BY DEF Init, Enabled
  <2> QED  BY <2>1, CountsTyped DEF Tray
<1>7. unseen \subseteq {"window", "tray"} /\ heard \subseteq {"decision", "runtime"}  BY DEF Init
<1>8. events \in Seq(Event)  BY DEF Init
<1>6. /\ clock \in Nat /\ newest \in Nat /\ misled \in BOOLEAN
      /\ unread \subseteq Call /\ silent \in BOOLEAN
  BY DEF Init
<1> QED  BY <1>1, <1>2, <1>3, <1>4, <1>5, <1>6, <1>7, <1>8 DEF Typed

-----------------------------------------------------------------------------
(***************************************************************************)
(* Listeners.                                                              *)
(***************************************************************************)

(* Who changes rows and runtime.                                           *)
LEMMA Changers ==
  ASSUME [Next]_vars
  PROVE  \/ \E c \in Call : Work(c)
         \/ \E l \in Listener : Settle(l) \/ Close(l)
         \/ TrayStart
         \/ TrayStop
         \/ Cascade
         \/ UNCHANGED <<row, state, asked, clock>>
BY DEF Next, System, User, vars, listeners, history, Subscribe, ReadRows, ReadHealth, Apply, Ignore, Fail,
       EmitState, HandleRuntime, TrayWake, TrayApply, TrayFail, EmitDecision, HandleDecision,
       Open, Click, Leave, Publish

(* Only what is active is asked to stop, after every step.                 *)
LEMMA ListenersKept ==
  ASSUME Typed, ListenerInv, [Next]_vars
  PROVE  ListenerInv'
<1>0. state \in [Listener -> State] /\ asked \in [Listener -> BOOLEAN]  BY DEF Typed, ListenersTyped
<1> SUFFICES ASSUME NEW l \in Listener PROVE (asked[l] => Active(l))'
  BY DEF ListenerInv
<1>1. asked[l] => Active(l)  BY DEF ListenerInv
<1>2. ASSUME NEW c \in Call, Work(c) PROVE (asked[l] => Active(l))'
  BY <1>1, <1>2, WorkDoes DEF Active
<1>3. ASSUME NEW m \in Listener, Settle(m) PROVE (asked[l] => Active(l))'
  <2>1. PICK s \in {"Running", "Failed"} : state' = [state EXCEPT ![m] = s]  BY <1>3 DEF Settle
  <2>2. asked' = [asked EXCEPT ![m] = @ /\ state'[m] = "Running"]  BY <1>3 DEF Settle
  <2>3. CASE l # m  BY <1>0, <1>1, <2>1, <2>2, <2>3 DEF Active
  <2>4. CASE l = m  BY <1>0, <2>1, <2>2, <2>4 DEF Active
  <2> QED  BY <2>3, <2>4
<1>4. ASSUME NEW m \in Listener, Close(m) PROVE (asked[l] => Active(l))'
  <2>1. CASE l # m  BY <1>0, <1>1, <1>4, <2>1 DEF Close, Active
  <2>2. CASE l = m  BY <1>0, <1>4, <2>2 DEF Close
  <2> QED  BY <2>1, <2>2
<1>5. ASSUME TrayStart PROVE (asked[l] => Active(l))'
  <2>1. asked' = asked  BY <1>5 DEF TrayStart
  <2>2. state'[l] = state[l] \/ state'[l] = "Starting"  BY <1>5 DEF TrayStart
  <2> QED  BY <1>1, <2>1, <2>2 DEF Active
<1>6. ASSUME TrayStop PROVE (asked[l] => Active(l))'
  BY <1>6 DEF TrayStop, Active
<1>7. ASSUME UNCHANGED <<state, asked>> PROVE (asked[l] => Active(l))'
  BY <1>1, <1>7 DEF Active
<1>8. ASSUME Cascade PROVE UNCHANGED <<state, asked>>  BY <1>8, CascadeDoes
<1> QED  BY <1>2, <1>3, <1>4, <1>5, <1>6, <1>7, <1>8, Changers

LEMMA InitListeners == Init => ListenerInv
BY DEF Init, ListenerInv

-----------------------------------------------------------------------------
(***************************************************************************)
(* Decisions.                                                              *)
(***************************************************************************)

(* Rising sequences: one more element, one less, one after the other.      *)
LEMMA RisingAppend ==
  ASSUME NEW s \in Seq(Nat), NEW x \in Nat, Rising(s), \A i \in DOMAIN s : s[i] < x
  PROVE  Rising(Append(s, x))
<1>1. DOMAIN s = 1..Len(s) /\ DOMAIN Append(s, x) = 1..(Len(s) + 1)  OBVIOUS
<1>2. \A i \in 1..(Len(s) + 1) : Append(s, x)[i] = IF i = Len(s) + 1 THEN x ELSE s[i]  OBVIOUS
<1>3. ASSUME NEW i \in 1..(Len(s) + 1), NEW j \in 1..(Len(s) + 1), i < j
      PROVE  Append(s, x)[i] < Append(s, x)[j]
  <2>1. i \in 1..Len(s)  BY <1>3
  <2>2. CASE j = Len(s) + 1  BY <1>1, <1>2, <2>1, <2>2
  <2>3. CASE j # Len(s) + 1
    <3>1. j \in 1..Len(s)  BY <2>3
    <3>2. s[i] < s[j]  BY <1>1, <1>3, <2>1, <3>1 DEF Rising
    <3> QED  BY <1>2, <2>1, <3>1, <3>2
  <2> QED  BY <2>2, <2>3
<1> QED  BY <1>1, <1>3 DEF Rising

LEMMA TailIs ==
  ASSUME NEW s \in Seq(Nat), s # << >>
  PROVE  /\ Tail(s) \in Seq(Nat) /\ Head(s) \in Nat /\ Head(s) = s[1] /\ 1 \in DOMAIN s
         /\ Len(Tail(s)) = Len(s) - 1 /\ Len(s) \in Nat \ {0}
         /\ DOMAIN Tail(s) = 1..(Len(s) - 1) /\ DOMAIN s = 1..Len(s)
         /\ \A i \in DOMAIN Tail(s) : i + 1 \in DOMAIN s /\ Tail(s)[i] = s[i + 1]
OBVIOUS

(* What a stream keeps of its order when its head is taken or it is        *)
(* joined.                                                                 *)
LEMMA RisingTail ==
  ASSUME NEW s \in Seq(Nat), s # << >>, Rising(s)
  PROVE  Rising(Tail(s)) /\ \A i \in DOMAIN Tail(s) : Head(s) < Tail(s)[i]
<1>1. /\ Head(s) = s[1] /\ 1 \in DOMAIN s /\ Len(s) \in Nat /\ DOMAIN Tail(s) = 1..(Len(s) - 1)
      /\ DOMAIN s = 1..Len(s)
      /\ \A i \in DOMAIN Tail(s) : i + 1 \in DOMAIN s /\ Tail(s)[i] = s[i + 1]
  BY TailIs
<1>2. ASSUME NEW i \in DOMAIN Tail(s), NEW j \in DOMAIN Tail(s), i < j PROVE Tail(s)[i] < Tail(s)[j]
  <2>1. i + 1 \in DOMAIN s /\ j + 1 \in DOMAIN s /\ i + 1 < j + 1  BY <1>1, <1>2
  <2>2. s[i + 1] < s[j + 1]  BY <2>1 DEF Rising
  <2> QED  BY <1>1, <2>2
<1>3. ASSUME NEW i \in DOMAIN Tail(s) PROVE Head(s) < Tail(s)[i]
  <2>1. i + 1 \in DOMAIN s /\ 1 < i + 1  BY <1>1
  <2>2. s[1] < s[i + 1]  BY <1>1, <2>1 DEF Rising
  <2> QED  BY <1>1, <2>2
<1> QED  BY <1>2, <1>3 DEF Rising

LEMMA RisingConcat ==
  ASSUME NEW s \in Seq(Nat), NEW t \in Seq(Nat), Rising(s), Rising(t), Before(s, t)
  PROVE  Rising(s \o t)
<1>1. DOMAIN s = 1..Len(s) /\ DOMAIN t = 1..Len(t) /\ DOMAIN (s \o t) = 1..(Len(s) + Len(t))
      /\ Len(s) \in Nat /\ Len(t) \in Nat
  OBVIOUS
<1>2. \A i \in 1..(Len(s) + Len(t)) : (s \o t)[i] = IF i <= Len(s) THEN s[i] ELSE t[i - Len(s)]  OBVIOUS
<1>3. ASSUME NEW i \in 1..(Len(s) + Len(t)), NEW j \in 1..(Len(s) + Len(t)), i < j
      PROVE  (s \o t)[i] < (s \o t)[j]
  <2>1. CASE j <= Len(s)
    <3>1. i \in DOMAIN s /\ j \in DOMAIN s  BY <1>1, <1>3, <2>1
    <3>2. s[i] < s[j]  BY <1>3, <3>1 DEF Rising
    <3> QED  BY <1>1, <1>2, <3>1, <3>2
  <2>2. CASE i > Len(s)
    <3>1. i - Len(s) \in DOMAIN t /\ j - Len(s) \in DOMAIN t /\ i - Len(s) < j - Len(s)
      BY <1>1, <1>3, <2>2
    <3>2. t[i - Len(s)] < t[j - Len(s)]  BY <3>1 DEF Rising
    <3> QED  BY <1>1, <1>2, <1>3, <2>2, <3>2
  <2>3. CASE i <= Len(s) /\ j > Len(s)
    <3>1. i \in DOMAIN s /\ j - Len(s) \in DOMAIN t  BY <1>1, <1>3, <2>3
    <3>2. s[i] < t[j - Len(s)]  BY <3>1 DEF Before
    <3> QED  BY <1>1, <1>2, <1>3, <2>3, <3>2
  <2> QED  BY <1>1, <2>1, <2>2, <2>3
<1> QED  BY <1>1, <1>3 DEF Rising

LEMMA BeforeConcat ==
  ASSUME NEW s \in Seq(Nat), NEW t \in Seq(Nat), NEW u \in Seq(Nat), Before(s, u), Before(t, u)
  PROVE  Before(s \o t, u)
<1>1. DOMAIN s = 1..Len(s) /\ DOMAIN t = 1..Len(t) /\ DOMAIN (s \o t) = 1..(Len(s) + Len(t))
      /\ Len(s) \in Nat /\ Len(t) \in Nat
  OBVIOUS
<1>2. \A i \in 1..(Len(s) + Len(t)) : (s \o t)[i] = IF i <= Len(s) THEN s[i] ELSE t[i - Len(s)]  OBVIOUS
<1>3. ASSUME NEW i \in 1..(Len(s) + Len(t)), NEW j \in DOMAIN u PROVE (s \o t)[i] < u[j]
  <2>1. CASE i <= Len(s)
    <3>1. i \in DOMAIN s  BY <1>1, <2>1
    <3> QED  BY <1>2, <2>1, <3>1 DEF Before
  <2>2. CASE i > Len(s)
    <3>1. i - Len(s) \in DOMAIN t  BY <1>1, <2>2
    <3>2. (s \o t)[i] = t[i - Len(s)]  BY <1>1, <1>2, <2>2
    <3> QED  BY <3>1, <3>2 DEF Before
  <2> QED  BY <1>1, <2>1, <2>2
<1> QED  BY <1>1, <1>3 DEF Before

(* One more element at the end, one less at the front, of either side.     *)
LEMMA BeforeAppend ==
  ASSUME NEW s \in Seq(Nat), NEW t \in Seq(Nat), NEW x \in Nat, Before(s, t)
  PROVE  /\ (\A i \in DOMAIN s : s[i] < x) => Before(s, Append(t, x))
         /\ (\A j \in DOMAIN t : x < t[j]) => Before(Append(s, x), t)
<1>1. /\ DOMAIN s = 1..Len(s) /\ DOMAIN Append(s, x) = 1..(Len(s) + 1) /\ Len(s) \in Nat
      /\ DOMAIN t = 1..Len(t) /\ DOMAIN Append(t, x) = 1..(Len(t) + 1) /\ Len(t) \in Nat
  OBVIOUS
<1>2. \A i \in 1..(Len(s) + 1) : Append(s, x)[i] = IF i = Len(s) + 1 THEN x ELSE s[i]  OBVIOUS
<1>3. \A i \in 1..(Len(t) + 1) : Append(t, x)[i] = IF i = Len(t) + 1 THEN x ELSE t[i]  OBVIOUS
<1>4. ASSUME \A i \in DOMAIN s : s[i] < x PROVE Before(s, Append(t, x))
  <2>1. SUFFICES ASSUME NEW i \in DOMAIN s, NEW j \in 1..(Len(t) + 1) PROVE s[i] < Append(t, x)[j]
    BY <1>1 DEF Before
  <2>2. j # Len(t) + 1 => j \in DOMAIN t  BY <1>1
  <2> QED  BY <1>3, <1>4, <2>2 DEF Before
<1>5. ASSUME \A j \in DOMAIN t : x < t[j] PROVE Before(Append(s, x), t)
  <2>1. SUFFICES ASSUME NEW i \in 1..(Len(s) + 1), NEW j \in DOMAIN t PROVE Append(s, x)[i] < t[j]
    BY <1>1 DEF Before
  <2>2. i # Len(s) + 1 => i \in DOMAIN s  BY <1>1
  <2> QED  BY <1>2, <1>5, <2>2 DEF Before
<1> QED  BY <1>4, <1>5

(* What a stream is after something is put at its end.                     *)
LEMMA AppendIs ==
  ASSUME NEW s \in Seq(Nat), NEW x \in Nat
  PROVE  /\ Append(s, x) \in Seq(Nat) /\ Len(Append(s, x)) = Len(s) + 1
         /\ \A i \in DOMAIN Append(s, x) :
              Append(s, x)[i] = x \/ (i \in DOMAIN s /\ Append(s, x)[i] = s[i])
OBVIOUS

LEMMA BeforeTail ==
  ASSUME NEW s \in Seq(Nat), NEW t \in Seq(Nat), Before(s, t)
  PROVE  /\ t # << >> => Before(s, Tail(t)) /\ \A i \in DOMAIN s : s[i] < Head(t)
         /\ s # << >> => Before(Tail(s), t) /\ \A j \in DOMAIN t : Head(s) < t[j]
<1>1. ASSUME t # << >> PROVE Before(s, Tail(t)) /\ \A i \in DOMAIN s : s[i] < Head(t)
  BY <1>1, TailIs DEF Before
<1>2. ASSUME s # << >> PROVE Before(Tail(s), t) /\ \A j \in DOMAIN t : Head(s) < t[j]
  BY <1>2, TailIs DEF Before
<1> QED  BY <1>1, <1>2

(* The feed with one more decision is the latest of one more received.     *)
Latest(s) == [i \in 1..(IF Len(s) < FeedLimit THEN Len(s) ELSE FeedLimit) |-> s[Len(s) + 1 - i]]

(* A decision put before the latest gives the latest of one more.          *)
LEMMA LatestGrows ==
  ASSUME NEW s \in Seq(Nat), NEW d \in Nat
  PROVE  PrependDecision(Latest(s), d) = Latest(Append(s, d))
<1> DEFINE n == IF Len(s) < FeedLimit THEN Len(s) ELSE FeedLimit
           m == IF Len(s) + 1 < FeedLimit THEN Len(s) + 1 ELSE FeedLimit
           f == Latest(s)
<1>0. FeedLimit \in Nat /\ Len(s) \in Nat /\ n \in Nat /\ m \in Nat /\ n <= Len(s) /\ m <= n + 1
  BY LimitsAssumption
<1>1. f = [i \in 1..n |-> s[Len(s) + 1 - i]]  BY DEF Latest
<1>2. \A i \in 1..n : s[Len(s) + 1 - i] \in Nat
  <2> TAKE i \in 1..n
  <2>1. Len(s) + 1 - i \in 1..Len(s)  BY <1>0
  <2> QED  BY <2>1
<1>3. f \in Seq(Nat) /\ Len(f) = n
  BY <1>0, <1>1, <1>2
<1>4. m = IF Len(f) < FeedLimit THEN Len(f) + 1 ELSE FeedLimit  BY <1>0, <1>3
<1>5. PrependDecision(f, d) = SubSeq(<<d>> \o f, 1, m)  BY <1>4 DEF PrependDecision
<1>6. Latest(Append(s, d)) = [i \in 1..m |-> Append(s, d)[Len(s) + 2 - i]]
  <2>1. Len(Append(s, d)) = Len(s) + 1  OBVIOUS
  <2>2. \A i \in 1..m : (Len(s) + 1) + 1 - i = Len(s) + 2 - i  BY <1>0
  <2> QED  BY <2>1, <2>2 DEF Latest
<1> HIDE DEF f, n
<1>7. SubSeq(<<d>> \o f, 1, m) = [i \in 1..m |-> (<<d>> \o f)[i]]
  <2>1. <<d>> \o f \in Seq(Nat) /\ Len(<<d>> \o f) = n + 1  BY <1>3
  <2> HIDE DEF m
  <2> QED  BY <1>0, <2>1
<1>8. ASSUME NEW i \in 1..m PROVE (<<d>> \o f)[i] = Append(s, d)[Len(s) + 2 - i]
  <2>1. CASE i = 1
    <3>1. (<<d>> \o f)[1] = d  BY <1>3
    <3>2. Append(s, d)[Len(s) + 1] = d  OBVIOUS
    <3> QED  BY <1>0, <2>1, <3>1, <3>2
  <2>2. CASE i # 1
    <3>1. i - 1 \in 1..n /\ Len(s) + 2 - i \in 1..Len(s) /\ Len(s) + 1 - (i - 1) = Len(s) + 2 - i
      BY <1>0, <2>2
    <3>2. (<<d>> \o f)[i] = f[i - 1]  BY <1>0, <1>3, <2>2, <3>1
    <3>3. f[i - 1] = s[Len(s) + 2 - i]  BY <1>1, <3>1
    <3>4. Append(s, d)[Len(s) + 2 - i] = s[Len(s) + 2 - i]  BY <3>1
    <3> QED  BY <3>2, <3>3, <3>4
  <2> QED  BY <2>1, <2>2
<1>9. PrependDecision(f, d) = [i \in 1..m |-> (<<d>> \o f)[i]]  BY <1>5, <1>7
<1> HIDE DEF m
<1>10. PrependDecision(f, d) = Latest(Append(s, d))  BY <1>6, <1>8, <1>9
<1> QED  BY <1>10 DEF f

(* The decisions of one step.                                              *)
LEMMA StreamMoves ==
  ASSUME [Next]_vars
  PROVE  Publish \/ EmitDecision \/ HandleDecision \/ Leave \/ UNCHANGED stream
BY DEF Next, System, User, vars, Subscribe, Work, Write, Look, Tell, Remove, ReadRows, ReadHealth, Apply,
    Ignore, Fail, Settle, Close,
       EmitState, HandleRuntime, TrayWake, TrayApply, TrayFail, Open, Click, Cascade, TrayStart, TrayStop,
       TrayClick

(* Every step keeps the order of the decisions, and counts each once.      *)
LEMMA StreamKept ==
  ASSUME Typed, StreamInv, [Next]_vars
  PROVE  StreamInv'
<1>0. /\ made \in Nat /\ dropped \in Nat
      /\ queue \in Seq(Nat) /\ posted \in Seq(Nat) /\ feed \in Seq(Nat) /\ received \in Seq(Nat)
  BY DEF Typed, StreamTyped
<1>1. /\ Rising(received) /\ Rising(posted) /\ Rising(queue)
      /\ Before(received, posted) /\ Before(received, queue) /\ Before(posted, queue)
      /\ \A i \in DOMAIN received : received[i] <= made
      /\ \A i \in DOMAIN posted : posted[i] <= made
      /\ \A i \in DOMAIN queue : queue[i] <= made
      /\ Len(queue) <= QueueCapacity
      /\ dropped + Len(received) + Len(posted) + Len(queue) <= made
  BY DEF StreamInv
<1>2. feed = Latest(received)  BY DEF StreamInv, Latest
<1>3. Len(queue) \in Nat /\ Len(posted) \in Nat /\ Len(received) \in Nat  BY <1>0
<1> DEFINE Ordered == /\ Rising(received) /\ Rising(posted) /\ Rising(queue)
                      /\ Before(received, posted) /\ Before(received, queue) /\ Before(posted, queue)
           Bounded == /\ \A i \in DOMAIN received : received[i] <= made
                      /\ \A i \in DOMAIN posted : posted[i] <= made
                      /\ \A i \in DOMAIN queue : queue[i] <= made
           Counts == /\ Len(queue) <= QueueCapacity
                     /\ dropped + Len(received) + Len(posted) + Len(queue) <= made
<1>4. ASSUME Ordered', Bounded', Counts', feed' = Latest(received)' PROVE StreamInv'
  <2>1. feed' = [i \in 1..(IF Len(received') < FeedLimit THEN Len(received') ELSE FeedLimit) |->
               received'[Len(received') + 1 - i]]  BY <1>4 DEF Latest
  <2> QED  BY <1>4, <2>1 DEF StreamInv
<1>5. ASSUME Publish PROVE StreamInv'
  <2>1. made' = made + 1 /\ UNCHANGED <<received, posted, feed>>  BY <1>5 DEF Publish
  <2>2. \/ queue' = queue /\ dropped' = dropped + 1
        \/ queue' = Append(queue, made + 1) /\ dropped' = dropped /\ Len(queue) < QueueCapacity
    BY <1>5 DEF Publish
  <2>3. feed' = Latest(received)'  BY <1>2, <2>1 DEF Latest
  <2>4. (\A i \in DOMAIN received : received[i] < made + 1) /\ (\A i \in DOMAIN posted : posted[i] < made + 1)
        /\ (\A i \in DOMAIN queue : queue[i] < made + 1)
    BY <1>0, <1>1
  <2>5. made + 1 \in Nat  BY <1>0
  <2>6. CASE queue' = queue /\ dropped' = dropped + 1
    <3>1. Ordered'  BY <1>1, <2>1, <2>6
    <3>2. Bounded'  BY <1>0, <2>1, <2>4, <2>6
    <3>3. Counts'  BY <1>0, <1>1, <1>3, <2>1, <2>6, LimitsAssumption
    <3> QED  BY <1>4, <2>3, <3>1, <3>2, <3>3
  <2>7. CASE queue' = Append(queue, made + 1) /\ dropped' = dropped /\ Len(queue) < QueueCapacity
    <3>1. Rising(queue')  BY <1>0, <1>1, <2>4, <2>5, <2>7, RisingAppend
    <3>2. Before(received', queue')  BY <1>0, <1>1, <2>1, <2>4, <2>5, <2>7, BeforeAppend
    <3>3. Before(posted', queue')  BY <1>0, <1>1, <2>1, <2>4, <2>5, <2>7, BeforeAppend
    <3>4. Ordered'  BY <1>1, <2>1, <3>1, <3>2, <3>3
    <3>5. Len(queue') = Len(queue) + 1 /\ \A i \in DOMAIN queue' : queue'[i] = made + 1 \/ (i \in DOMAIN queue /\ queue'[i] = queue[i])
      BY <1>0, <2>5, <2>7, AppendIs
    <3>8. \A i \in DOMAIN queue : queue[i] <= made + 1  BY <1>0, <2>4
    <3>9. made + 1 <= made + 1  BY <1>0
    <3>10. \A i \in DOMAIN queue' : queue'[i] <= made + 1  BY <3>5, <3>8, <3>9
    <3>11. (\A i \in DOMAIN received : received[i] <= made + 1) /\ (\A i \in DOMAIN posted : posted[i] <= made + 1)
      BY <1>0, <2>4
    <3>6. Bounded'  BY <2>1, <3>10, <3>11
    <3>7. Counts'  BY <1>0, <1>1, <1>3, <2>1, <2>7, <3>5, LimitsAssumption
    <3> QED  BY <1>4, <2>3, <3>4, <3>6, <3>7
  <2> QED  BY <2>2, <2>6, <2>7
<1>6. ASSUME EmitDecision PROVE StreamInv'
  <2>1. queue # << >> /\ queue' = Tail(queue) /\ UNCHANGED <<made, dropped, received, feed>>
        /\ (posted' = posted \/ posted' = Append(posted, Head(queue)))
    BY <1>6 DEF EmitDecision
  <2>2. feed' = Latest(received)'  BY <1>2, <2>1 DEF Latest
  <2>3. /\ queue' \in Seq(Nat) /\ Head(queue) \in Nat /\ Head(queue) = queue[1] /\ 1 \in DOMAIN queue
        /\ Len(queue') = Len(queue) - 1
        /\ \A i \in DOMAIN queue' : i + 1 \in DOMAIN queue /\ queue'[i] = queue[i + 1]
    BY <1>0, <2>1, TailIs
  <2>4. Rising(queue') /\ \A i \in DOMAIN queue' : Head(queue) < queue'[i]
    BY <1>0, <1>1, <2>1, RisingTail
  <2>5. Before(received, queue') /\ Before(posted, queue')
        /\ (\A i \in DOMAIN received : received[i] < Head(queue))
        /\ (\A i \in DOMAIN posted : posted[i] < Head(queue))
    BY <1>0, <1>1, <2>1, BeforeTail
  <2>6. (\A i \in DOMAIN queue' : queue'[i] <= made) /\ Head(queue) <= made
    BY <1>1, <2>3
  <2>7. CASE posted' = posted
    <3>1. Ordered'  BY <1>1, <2>1, <2>4, <2>5, <2>7
    <3>2. Bounded'  BY <1>1, <2>1, <2>6, <2>7
    <3>3. Counts'  BY <1>0, <1>1, <1>3, <2>1, <2>3, <2>7, LimitsAssumption
    <3> QED  BY <1>4, <2>2, <3>1, <3>2, <3>3
  <2>8. CASE posted' = Append(posted, Head(queue))
    <3>1. Rising(posted')  BY <1>0, <1>1, <2>3, <2>5, <2>8, RisingAppend
    <3>2. Before(received, posted')  BY <1>0, <1>1, <2>3, <2>5, <2>8, BeforeAppend
    <3>3. Before(posted', queue')  BY <1>0, <2>3, <2>4, <2>5, <2>8, BeforeAppend
    <3>4. Ordered'  BY <1>1, <2>1, <2>4, <2>5, <3>1, <3>2, <3>3
    <3>5. Len(posted') = Len(posted) + 1 /\ \A i \in DOMAIN posted' : posted'[i] = Head(queue) \/ (i \in DOMAIN posted /\ posted'[i] = posted[i])
      BY <1>0, <2>3, <2>8, AppendIs
    <3>6. Bounded'  BY <1>1, <2>1, <2>6, <3>5
    <3>7. Counts'  BY <1>0, <1>1, <1>3, <2>1, <2>3, <3>5, LimitsAssumption
    <3> QED  BY <1>4, <2>2, <3>4, <3>6, <3>7
  <2> QED  BY <2>1, <2>7, <2>8
<1>7. ASSUME HandleDecision PROVE StreamInv'
  <2>1. posted # << >> /\ posted' = Tail(posted) /\ UNCHANGED <<made, dropped, queue>>
        /\ received' = Append(received, Head(posted)) /\ feed' = PrependDecision(feed, Head(posted))
    BY <1>7 DEF HandleDecision
  <2>3. /\ posted' \in Seq(Nat) /\ Head(posted) \in Nat /\ Head(posted) = posted[1] /\ 1 \in DOMAIN posted
        /\ Len(posted') = Len(posted) - 1
        /\ \A i \in DOMAIN posted' : i + 1 \in DOMAIN posted /\ posted'[i] = posted[i + 1]
    BY <1>0, <2>1, TailIs
  <2>2. feed' = Latest(received)'
    <3>1. feed' = Latest(Append(received, Head(posted)))  BY <1>0, <1>2, <2>1, <2>3, LatestGrows
    <3> QED  BY <2>1, <3>1 DEF Latest
  <2>4. Rising(posted') /\ \A i \in DOMAIN posted' : Head(posted) < posted'[i]
    BY <1>0, <1>1, <2>1, RisingTail
  <2>5. Before(received, posted') /\ \A i \in DOMAIN received : received[i] < Head(posted)
    BY <1>0, <1>1, <2>1, BeforeTail
  <2>6. Before(posted', queue) /\ \A i \in DOMAIN queue : Head(posted) < queue[i]
    BY <1>0, <1>1, <2>1, BeforeTail
  <2>7. (\A i \in DOMAIN posted' : posted'[i] <= made) /\ Head(posted) <= made
    BY <1>1, <2>3
  <2>8. Rising(received')  BY <1>0, <1>1, <2>1, <2>3, <2>5, RisingAppend
  <2>9. Before(received', posted')  BY <1>0, <2>1, <2>3, <2>4, <2>5, BeforeAppend
  <2>10. Before(received', queue)  BY <1>0, <1>1, <2>1, <2>3, <2>6, BeforeAppend
  <2>11. Ordered'  BY <1>1, <2>1, <2>4, <2>6, <2>8, <2>9, <2>10
  <2>12. Len(received') = Len(received) + 1 /\ \A i \in DOMAIN received' : received'[i] = Head(posted) \/ (i \in DOMAIN received /\ received'[i] = received[i])
    BY <1>0, <2>1, <2>3, AppendIs
  <2>13. Bounded'  BY <1>1, <2>1, <2>7, <2>12
  <2>14. Counts'  BY <1>0, <1>1, <1>3, <2>1, <2>3, <2>12, LimitsAssumption
  <2> QED  BY <1>4, <2>2, <2>11, <2>13, <2>14
<1>8. ASSUME Leave PROVE StreamInv'
  <2>1. posted' = << >> /\ feed' = << >> /\ received' = << >> /\ UNCHANGED <<made, queue, dropped>>
    BY <1>8 DEF Leave
  <2>2. DOMAIN << >> = {} /\ Len(<< >>) = 0  OBVIOUS
  <2>3. Ordered'  BY <1>1, <2>1, <2>2 DEF Rising, Before
  <2>4. Bounded'  BY <1>1, <2>1, <2>2
  <2>5. Counts'  BY <1>0, <1>1, <1>3, <2>1, <2>2
  <2>6. feed' = Latest(received)'
    <3>1. (IF Len(received') < FeedLimit THEN Len(received') ELSE FeedLimit) = 0
      BY <2>1, <2>2, LimitsAssumption
    <3>2. Latest(received)' = [i \in 1..0 |-> received'[Len(received') + 1 - i]]  BY <3>1 DEF Latest
    <3>3. [i \in 1..0 |-> received'[Len(received') + 1 - i]] = << >>  OBVIOUS
    <3> QED  BY <2>1, <3>2, <3>3
  <2> QED  BY <1>4, <2>3, <2>4, <2>5, <2>6
<1>9. ASSUME UNCHANGED stream PROVE StreamInv'
  <2>1. UNCHANGED <<made, queue, dropped, posted, feed, received>>  BY <1>9 DEF stream
  <2>2. Ordered'  BY <1>1, <2>1
  <2>3. Bounded'  BY <1>1, <2>1
  <2>4. Counts'  BY <1>1, <2>1
  <2>5. feed' = Latest(received)'  BY <1>2, <2>1 DEF Latest
  <2> QED  BY <1>4, <2>2, <2>3, <2>4, <2>5
<1> QED  BY <1>5, <1>6, <1>7, <1>8, <1>9, StreamMoves

LEMMA InitStream == Init => StreamInv
<1> SUFFICES ASSUME Init PROVE StreamInv  OBVIOUS
<1>1. made = 0 /\ dropped = 0 /\ queue = << >> /\ posted = << >> /\ received = << >> /\ feed = << >>
  BY DEF Init
<1>2. DOMAIN << >> = {} /\ Len(<< >>) = 0  OBVIOUS
<1>3. feed = [i \in 1..(IF Len(received) < FeedLimit THEN Len(received) ELSE FeedLimit) |->
               received[Len(received) + 1 - i]]
  <2>1. (IF Len(received) < FeedLimit THEN Len(received) ELSE FeedLimit) = 0
    BY <1>1, <1>2, LimitsAssumption
  <2>2. [i \in 1..0 |-> received[Len(received) + 1 - i]] = << >>  OBVIOUS
  <2> QED  BY <1>1, <2>1, <2>2
<1>4. Rising(received) /\ Rising(posted) /\ Rising(queue)  BY <1>1, <1>2 DEF Rising
<1>5. Before(received, posted) /\ Before(received, queue) /\ Before(posted, queue)
  BY <1>1, <1>2 DEF Before
<1>6. /\ \A i \in DOMAIN received : received[i] <= made
      /\ \A i \in DOMAIN posted : posted[i] <= made
      /\ \A i \in DOMAIN queue : queue[i] <= made
  BY <1>1, <1>2
<1>7. Len(queue) <= QueueCapacity /\ dropped + Len(received) + Len(posted) + Len(queue) <= made
  BY <1>1, <1>2, LimitsAssumption
<1> QED  BY <1>3, <1>4, <1>5, <1>6, <1>7 DEF StreamInv

(* What the feed shows, and that nothing older comes.                      *)
LEMMA FeedTells ==
  ASSUME Typed, StreamInv
  PROVE  FeedIsRecent
<1>0. queue \in Seq(Nat) /\ posted \in Seq(Nat) /\ received \in Seq(Nat)  BY DEF Typed, StreamTyped
<1>1. /\ Rising(received) /\ Rising(posted) /\ Rising(queue)
      /\ Before(received, posted) /\ Before(received, queue) /\ Before(posted, queue)
  BY DEF StreamInv
<1>2. Rising(received \o posted) /\ Before(received \o posted, queue) /\ received \o posted \in Seq(Nat)
  BY <1>0, <1>1, RisingConcat, BeforeConcat
<1>3. Rising((received \o posted) \o queue)  BY <1>0, <1>1, <1>2, RisingConcat
<1>4. (received \o posted) \o queue = received \o posted \o queue  OBVIOUS
<1>5. \A i, j \in DOMAIN (received \o posted \o queue) :
        i < j => (received \o posted \o queue)[i] < (received \o posted \o queue)[j]
  BY <1>3, <1>4 DEF Rising
<1>6. feed = [i \in 1..(IF Len(received) < FeedLimit THEN Len(received) ELSE FeedLimit) |->
               received[Len(received) + 1 - i]]
  BY DEF StreamInv
<1> QED  BY <1>5, <1>6 DEF FeedIsRecent

-----------------------------------------------------------------------------
(***************************************************************************)
(* What one step does to calls, clock, events and screen.                  *)
(***************************************************************************)

(* A fresh call, or still none.                                            *)
Starts(d) ==
  /\ call[d].stage = "idle" /\ call'[d].stage \in {"idle", "called", "listing"}
  /\ call'[d].at = 0 /\ call'[d].dropped = 0

Works(d) ==
  /\ Work(d)
  /\ call[d].stage \in {"called", "marked", "found", "told"}
  /\ call'[d].stage \in {"marked", "found", "told", "listing"}
  /\ call'[d].dropped = call[d].dropped
  /\ call'[d].at = call[d].at \/ (call'[d].at = clock' /\ clock' = clock + 1)

Reads(d) ==
  /\ ReadRows(d)
  /\ call'[d].stage = "reading" /\ call'[d].rows = row /\ call'[d].at = clock
  /\ call'[d].dropped = call[d].dropped

Answers(d) ==
  /\ ReadHealth(d)
  /\ call'[d].stage = "answered" /\ call'[d].at = call[d].at /\ call'[d].mine = call[d].mine
  /\ call'[d].dropped = dropped
  /\ call'[d].shown = [l \in Listener |->
       [on |-> call[d].rows[l] = "on", state |-> View(call[d].rows[l], state[l])]]

Ends(d) == (Apply(d) \/ Ignore(d) \/ Fail(d)) /\ call'[d] = NoCall

Orphaned(d) ==
  /\ Leave
  /\ call'[d].stage = call[d].stage /\ call'[d].at = call[d].at /\ call'[d].dropped = call[d].dropped
  /\ call'[d].rows = call[d].rows /\ call'[d].shown = call[d].shown /\ call'[d].mine = FALSE

(* The life of a call.                                                     *)
LEMMA CallSteps ==
  ASSUME Typed, [Next]_vars, NEW d \in Call
  PROVE  call'[d] = call[d] \/ Starts(d) \/ Works(d) \/ Reads(d) \/ Answers(d) \/ Ends(d) \/ Orphaned(d)
<1>0. call \in [Call -> Calls] /\ call[d] \in Calls  BY DEF Typed
<1> DEFINE G == call'[d] = call[d] \/ Starts(d) \/ Works(d) \/ Reads(d) \/ Answers(d) \/ Ends(d) \/ Orphaned(d)
<1>1. NoCall.stage = "idle" /\ NoCall.at = 0 /\ NoCall.dropped = 0  BY DEF NoCall
<1>2. ASSUME NEW c \in Call, Work(c) PROVE G
  <2>0. PICK r \in Calls : Worked(c, r)  BY <1>2, WorkMoves
  <2>1. CASE c = d
    <3>1. call'[d] = r  BY <1>0, <2>0, <2>1 DEF Worked
    <3>2. Works(d)  BY <1>2, <2>0, <2>1, <3>1 DEF Works, Worked
    <3> QED  BY <3>2
  <2>2. CASE c # d
    <3>1. call'[d] = call[d]  BY <1>0, <2>0, <2>2 DEF Worked
    <3> QED  BY <3>1
  <2> QED  BY <2>1, <2>2
<1>3. ASSUME NEW c \in Call, ReadRows(c) PROVE G
  <2>1. CASE c = d
    <3>1. call' = [call EXCEPT ![d] = [call[d] EXCEPT !.stage = "reading", !.rows = row, !.at = clock]]
      BY <1>0, <1>3, <2>1 DEF ReadRows, Calls
    <3>2. call'[d] = [call[d] EXCEPT !.stage = "reading", !.rows = row, !.at = clock]  BY <1>0, <3>1
    <3>3. Reads(d)  BY <1>0, <1>3, <2>1, <3>2 DEF Reads, Calls
    <3> QED  BY <3>3
  <2>2. CASE c # d
    <3>1. call'[d] = call[d]  BY <1>0, <1>3, <2>2 DEF ReadRows
    <3> QED  BY <3>1
  <2> QED  BY <2>1, <2>2
<1>4. ASSUME NEW c \in Call, ReadHealth(c) PROVE G
  <2>1. CASE c = d
    <3> DEFINE v == [l \in Listener |->
          [on |-> call[d].rows[l] = "on", state |-> View(call[d].rows[l], state[l])]]
               r == [call[d] EXCEPT !.stage = "answered", !.rows = NoCall.rows, !.shown = v,
                                    !.dropped = dropped]
    <3>1. call' = [call EXCEPT ![d] = r]  BY <1>0, <1>4, <2>1 DEF ReadHealth, Calls
    <3>2. call'[d] = r  BY <1>0, <3>1
    <3> HIDE DEF v
    <3>3. r.stage = "answered" /\ r.at = call[d].at /\ r.mine = call[d].mine
          /\ r.dropped = dropped /\ r.shown = v
      BY <1>0 DEF Calls
    <3> HIDE DEF r
    <3>4. Answers(d)  BY <1>4, <2>1, <3>2, <3>3 DEF Answers, v
    <3> QED  BY <3>4
  <2>2. CASE c # d
    <3>1. call'[d] = call[d]  BY <1>0, <1>4, <2>2 DEF ReadHealth
    <3> QED  BY <3>1
  <2> QED  BY <2>1, <2>2
<1>5. ASSUME NEW c \in Call, Apply(c) \/ Ignore(c) \/ Fail(c) PROVE G
  <2>0. Forget(c)  BY <1>5 DEF Apply, Ignore, Fail
  <2>1. CASE c = d
    <3>1. call'[d] = NoCall  BY <1>0, <2>0, <2>1 DEF Forget
    <3>2. Ends(d)  BY <1>5, <2>1, <3>1 DEF Ends
    <3> QED  BY <3>2
  <2>2. CASE c # d
    <3>1. call'[d] = call[d]  BY <1>0, <2>0, <2>2 DEF Forget
    <3> QED  BY <3>1
  <2> QED  BY <2>1, <2>2
<1>6. ASSUME NEW c \in Call, NEW op \in Op, NEW l \in Listener, Begin(c, op, l) PROVE G
  <2>1. PICK r \in Calls : Begun(c, op, l, r)  BY <1>6, Begins
  <2>2. call[c].stage = "idle"  BY <1>6, Begins
  <2>3. r.stage \in {"called", "listing"} /\ r.dropped = 0 /\ r.at = 0 /\ call' = [call EXCEPT ![c] = r]
      BY <2>1 DEF Begun
  <2>4. CASE c = d
    <3>1. call'[d] = r  BY <1>0, <2>3, <2>4
    <3>2. Starts(d)  BY <2>2, <2>3, <2>4, <3>1 DEF Starts
    <3> QED  BY <3>2
  <2>5. CASE c # d
    <3>1. call'[d] = call[d]  BY <1>0, <2>3, <2>5
    <3> QED  BY <3>1
  <2> QED  BY <2>4, <2>5
<1>7. ASSUME NEW c \in Call, Open(c) PROVE G
  <2>1. NoCall.listener \in Listener  BY Rests DEF Calls
  <2>2. "load" \in Op /\ Begin(c, "load", NoCall.listener)  BY <1>7 DEF Open, Op
  <2> QED  BY <1>6, <2>1, <2>2
<1>8. ASSUME NEW c \in Call, NEW l \in Listener, NEW op \in {"create", "enable", "disable", "delete"},
             Click(c, op, l)
      PROVE  G
  <2>1. op \in Op /\ Begin(c, op, l)  BY <1>8 DEF Click, Op
  <2> QED  BY <1>6, <2>1
<1>9. ASSUME Leave PROVE G
  <2>1. call'[d] = IF call[d].stage = "idle" THEN NoCall ELSE [call[d] EXCEPT !.mine = FALSE]
    BY <1>9 DEF Leave
  <2>2. CASE call[d].stage = "idle"
    <3>1. Starts(d)  BY <1>1, <2>1, <2>2 DEF Starts
    <3> QED  BY <3>1
  <2>3. CASE call[d].stage # "idle"
    <3>1. call'[d] = [call[d] EXCEPT !.mine = FALSE]  BY <2>1, <2>3
    <3>2. Orphaned(d)  BY <1>0, <1>9, <3>1 DEF Orphaned, Calls
    <3> QED  BY <3>2
  <2> QED  BY <2>2, <2>3
<1>10. ASSUME UNCHANGED call PROVE G
  BY <1>10
<1> HIDE DEF G
<1>11. G
  BY <1>2, <1>3, <1>4, <1>5, <1>7, <1>8, <1>9, <1>10
  DEF Next, System, User, vars, Subscribe, Settle, Close, EmitState, HandleRuntime, TrayWake,
      TrayApply, TrayFail, EmitDecision, HandleDecision, Cascade, TrayStart, TrayStop, TrayClick, Publish
<1> QED  BY <1>11 DEF G

(* The calls of a screen that is left are not of the next one.             *)
LEMMA LeavesNone ==
  ASSUME Typed, Leave, NEW d \in Call
  PROVE  call'[d].stage = "idle" \/ call'[d].mine = FALSE
<1>0. call[d] \in Calls /\ NoCall.stage = "idle"  BY DEF Typed, NoCall
<1>1. call'[d] = IF call[d].stage = "idle" THEN NoCall ELSE [call[d] EXCEPT !.mine = FALSE]
  BY DEF Leave
<1> QED  BY <1>0, <1>1 DEF Calls

(* No change of row or state goes by without a tick of the clock, and none *)
(* of a row without a call that will read the rows again, unless the row   *)
(* goes with its profile.                                                  *)
LEMMA ClockTicks ==
  ASSUME Typed, [Next]_vars
  PROVE  /\ clock' \in {clock, clock + 1}
         /\ clock' = clock => UNCHANGED <<row, state>>
         /\ row' # row /\ ~Cascade =>
              /\ clock' = clock + 1
              /\ \E c \in Call : call'[c].stage # "idle" /\ call'[c].at = clock'
<1> DEFINE G == /\ clock' \in {clock, clock + 1}
                /\ clock' = clock => UNCHANGED <<row, state>>
                /\ row' # row /\ ~Cascade =>
                     /\ clock' = clock + 1
                     /\ \E c \in Call : call'[c].stage # "idle" /\ call'[c].at = clock'
<1>0. clock \in Nat /\ clock # clock + 1 /\ call \in [Call -> Calls]  BY DEF Typed
<1>1. ASSUME NEW c \in Call, Work(c) PROVE G
  <2>1. clock' \in {clock, clock + 1} /\ (clock' = clock => UNCHANGED <<row, state>>)  BY <1>1, WorkDoes
  <2>2. PICK r \in Calls : Worked(c, r)  BY <1>1, WorkMoves
  <2>3. call'[c] = r  BY <1>0, <2>2 DEF Worked
  <2>4. row' # row => call'[c].at = clock' /\ clock' = clock + 1 /\ call'[c].stage # "idle"
    BY <2>2, <2>3 DEF Worked
  <2> QED  BY <2>1, <2>4
<1>2. ASSUME NEW l \in Listener, Settle(l) \/ Close(l) PROVE G
  <2>1. clock' = clock + 1 /\ row' = row  BY <1>2 DEF Settle, Close, Announce
  <2> QED  BY <1>0, <2>1
<1>3. ASSUME TrayStart PROVE G
  <2>1. clock' = clock + 1 /\ row' = row  BY <1>3 DEF TrayStart, TrayClick
  <2> QED  BY <1>0, <2>1
<1>4. ASSUME TrayStop PROVE G
  BY <1>4 DEF TrayStop, TrayClick
<1>5. ASSUME UNCHANGED <<row, state, asked, clock>> PROVE G
  BY <1>5
<1>7. ASSUME Cascade PROVE G
  <2>1. clock' = clock + 1  BY <1>7, CascadeDoes
  <2> QED  BY <1>0, <1>7, <2>1
<1> HIDE DEF G
<1>6. G  BY <1>1, <1>2, <1>3, <1>4, <1>5, <1>7, Changers
<1> QED  BY <1>6 DEF G

(* What becomes of events and states.                                      *)
Starting == \A l \in Listener : state'[l] = state[l] \/ state'[l] = "Starting"

(* What a step may do to the events on their way to the window.            *)
LEMMA EventSteps ==
  ASSUME Typed, ListenerInv, [Next]_vars
  PROVE  \/ Leave
         \/ EmitState
         \/ HandleRuntime
         \/ \E l \in Listener : (Settle(l) \/ Close(l)) /\ "window" \in unseen' /\ UNCHANGED events
         \/ UNCHANGED events /\ ("window" \in unseen' <=> "window" \in unseen) /\ Starting
<1> DEFINE G == UNCHANGED events /\ ("window" \in unseen' <=> "window" \in unseen) /\ Starting
<1>1. ASSUME NEW c \in Call, Work(c) PROVE G
  <2>1. UNCHANGED <<events, unseen>>  BY <1>1, WorkKeeps
  <2>2. ASSUME NEW l \in Listener PROVE state'[l] = state[l] \/ state'[l] = "Starting"
    BY <1>1, WorkDoes
  <2> QED  BY <2>1, <2>2 DEF Starting
<1>2. ASSUME NEW l \in Listener, Settle(l) \/ Close(l) PROVE "window" \in unseen' /\ UNCHANGED events
  BY <1>2 DEF Settle, Close, Announce
<1>3. ASSUME TrayStart PROVE G
  <2>1. UNCHANGED <<events, unseen>>  BY <1>3 DEF TrayStart, TrayClick
  <2>2. Starting  BY <1>3 DEF TrayStart, Starting
  <2> QED  BY <2>1, <2>2
<1>4. ASSUME TrayStop PROVE G
  BY <1>4 DEF TrayStop, TrayClick, Starting
<1>5. ASSUME UNCHANGED <<state, events, unseen>> PROVE G
  BY <1>5 DEF Starting
<1>6. ASSUME TrayWake PROVE G
  BY <1>6 DEF TrayWake, Starting, listeners
<1>8. ASSUME Cascade PROVE UNCHANGED <<state, events, unseen>>  BY <1>8, CascadeDoes
<1> HIDE DEF G
<1>7. \/ Leave \/ EmitState \/ HandleRuntime \/ G
      \/ \E l \in Listener : (Settle(l) \/ Close(l))
  BY <1>1, <1>3, <1>4, <1>5, <1>6, <1>8
  DEF Next, System, User, vars, listeners, Subscribe, ReadRows, ReadHealth, Apply, Ignore, Fail,
      TrayApply, TrayFail, EmitDecision, HandleDecision, Open, Click, Publish
<1> QED  BY <1>2, <1>7 DEF G

(* What becomes of the screen.                                             *)
LEMMA ScreenSteps ==
  ASSUME Typed, [Next]_vars
  PROVE  \/ Leave
         \/ \E c \in Call : Apply(c)
         \/ HandleRuntime
         \/ /\ screen'.shown = screen.shown /\ screen'.at = screen.at /\ screen'.dropped = screen.dropped
            /\ screen'.status = "ready" => screen.status = "ready"
            /\ screen'.status = "closed" => screen.status = "closed"
            /\ misled => misled'
<1> DEFINE G == /\ screen'.shown = screen.shown /\ screen'.at = screen.at /\ screen'.dropped = screen.dropped
                /\ screen'.status = "ready" => screen.status = "ready"
                /\ screen'.status = "closed" => screen.status = "closed"
                /\ misled => misled'
<1>0. screen \in Screen  BY DEF Typed
<1>1. ASSUME UNCHANGED <<screen, misled>> PROVE G  BY <1>1
<1>2. ASSUME NEW c \in Call, Open(c) PROVE G
  BY <1>0, <1>2 DEF Open, Screen, history
<1>3. ASSUME NEW c \in Call, Ignore(c) PROVE G
  BY <1>3 DEF Ignore, Lost
<1>4. ASSUME NEW c \in Call, Fail(c) PROVE G
  <2>1. screen' = screen \/ screen' = [screen EXCEPT !.status = "failed"]  BY <1>4 DEF Fail
  <2>2. misled => misled'  BY <1>4 DEF Fail, Lost
  <2> QED  BY <1>0, <2>1, <2>2 DEF Screen
<1>5. ASSUME EmitState PROVE G
  <2>1. UNCHANGED screen  BY <1>5 DEF EmitState
  <2>2. misled => misled'  BY <1>5 DEF EmitState, Lost
  <2> QED  BY <2>1, <2>2
<1>7. ASSUME Cascade PROVE G
  <2>1. UNCHANGED screen /\ (misled => misled')  BY <1>7, CascadeDoes DEF Lost
  <2> QED  BY <2>1
<1> HIDE DEF G
<1>6. Leave \/ (\E c \in Call : Apply(c)) \/ HandleRuntime \/ G
  BY <1>1, <1>2, <1>3, <1>4, <1>5, <1>7
  DEF Next, System, User, vars, history, Subscribe, Work, Write, Look, Tell, Remove, ReadRows, ReadHealth,
      Settle, Close,
      TrayWake, TrayApply, TrayFail, EmitDecision, HandleDecision, Click, TrayStart, TrayStop, TrayClick,
      Publish
<1> QED  BY <1>6 DEF G

(* What was newest stays so until the screen is left.                      *)
LEMMA NewestRises ==
  ASSUME Typed, [Next]_vars
  PROVE  Leave \/ newest' >= newest
<1>0. newest \in Nat /\ clock \in Nat  BY DEF Typed
<1>1. ASSUME NEW at \in Nat, Lost(at) PROVE newest' >= newest
  BY <1>0, <1>1, LargerIs DEF Lost
<1>2. ASSUME NEW c \in Call, Apply(c) \/ Ignore(c) \/ Fail(c) PROVE newest' >= newest
  <2>1. call[c].at \in Nat  BY DEF Typed, Calls
  <2>2. CASE Apply(c)  BY <1>0, <2>1, <2>2, LargerIs DEF Apply
  <2>3. CASE Ignore(c)  BY <1>1, <2>1, <2>3 DEF Ignore
  <2>4. CASE Fail(c)  BY <1>1, <2>1, <2>4 DEF Fail
  <2> QED  BY <1>2, <2>2, <2>3, <2>4
<1>3. ASSUME EmitState PROVE newest' >= newest
  <2>1. newest' = newest \/ Lost(clock)  BY <1>3 DEF EmitState
  <2> QED  BY <1>0, <1>1, <2>1
<1>4. ASSUME HandleRuntime PROVE newest' >= newest
  <2>1. Head(events) \in Event  BY <1>4 DEF HandleRuntime, Typed
  <2>2. Head(events).at \in Nat  BY <2>1 DEF Event
  <2> QED  BY <1>0, <1>4, <2>2, LargerIs DEF HandleRuntime
<1>5. ASSUME UNCHANGED newest PROVE newest' >= newest  BY <1>0, <1>5
<1>6. ASSUME Cascade PROVE newest' >= newest  BY <1>0, <1>6, CascadeOvertakes
<1> QED  BY <1>2, <1>3, <1>4, <1>5, <1>6
         DEF Next, System, User, vars, history, Subscribe, Work, Write, Look, Tell, Remove, ReadRows,
             ReadHealth, Settle, Close,
             TrayWake, TrayApply, TrayFail, EmitDecision, HandleDecision, Open, Click, TrayStart, TrayStop,
             TrayClick, Publish

(* Nothing counts more dropped decisions than the backend does.            *)
LEMMA DroppedKept ==
  ASSUME Typed, ListenerInv, DroppedInv, [Next]_vars
  PROVE  DroppedInv'
<1>0. dropped \in Nat /\ events \in Seq(Event) /\ call \in [Call -> Calls] /\ screen \in Screen
  BY DEF Typed, StreamTyped
<1>1. screen.dropped \in Nat /\ screen.dropped <= dropped  BY <1>0 DEF Screen, DroppedInv
<1>2. ASSUME NEW i \in DOMAIN events PROVE events[i].dropped \in Nat /\ events[i].dropped <= dropped
  <2>1. events[i] \in Event  BY <1>0
  <2> QED  BY <2>1 DEF Event, DroppedInv
<1>3. ASSUME NEW c \in Call PROVE call[c].dropped \in Nat /\ call[c].dropped <= dropped
  <2>1. call[c] \in Calls  BY <1>0
  <2> QED  BY <2>1 DEF Calls, DroppedInv
<1>4. dropped' \in Nat /\ dropped' >= dropped
  <2>1. dropped' = dropped \/ dropped' = dropped + 1
    BY DEF Next, System, User, vars, stream, Subscribe, Work, Write, Look, Tell, Remove, ReadRows,
        ReadHealth, Apply, Ignore, Fail,
           Settle, Close, EmitState, HandleRuntime, TrayWake, TrayApply, TrayFail, EmitDecision,
           HandleDecision, Open, Click, Leave, Cascade, TrayStart, TrayStop, TrayClick, Publish
  <2> QED  BY <1>0, <2>1
<1>5. ASSUME NEW c \in Call PROVE call'[c].dropped <= dropped'
  <2>0. NoCall.dropped = 0  BY DEF NoCall
  <2>1. call'[c].dropped \in {0, call[c].dropped, dropped}
    BY <2>0, CallSteps DEF Starts, Works, Reads, Answers, Ends, Orphaned
  <2> QED  BY <1>0, <1>3, <1>4, <2>1
<1>6. screen'.dropped <= dropped'
  <2>1. CASE Leave
    <3>1. screen'.dropped = 0  BY <2>1 DEF Leave, Closed
    <3> QED  BY <1>4, <3>1
  <2>2. ASSUME NEW c \in Call, Apply(c) PROVE screen'.dropped <= dropped'
    <3>1. screen'.dropped = call[c].dropped  BY <2>2 DEF Apply
    <3> QED  BY <1>0, <1>3, <1>4, <3>1
  <2>3. CASE HandleRuntime
    <3>1. events # << >> /\ screen' = [screen EXCEPT !.shown = Merged(Head(events)),
        !.dropped = Head(events).dropped]
      BY <2>3 DEF HandleRuntime
    <3>2. screen'.dropped = Head(events).dropped  BY <1>0, <3>1 DEF Screen
    <3>3. Head(events) = events[1] /\ 1 \in DOMAIN events  BY <1>0, <3>1
    <3> QED  BY <1>0, <1>2, <1>4, <3>2, <3>3
  <2>4. CASE screen'.dropped = screen.dropped  BY <1>0, <1>1, <1>4, <2>4
  <2> QED  BY <2>1, <2>2, <2>3, <2>4, ScreenSteps
<1>7. ASSUME NEW i \in DOMAIN events' PROVE events'[i].dropped <= dropped'
  <2>1. CASE Leave
    <3>1. events' = << >>  BY <2>1 DEF Leave
    <3> QED  BY <1>7, <3>1
  <2>2. CASE EmitState
    <3> DEFINE e == [state |-> state, dropped |-> dropped, at |-> clock]
    <3>1. events' = events \/ events' = Append(events, e)  BY <2>2 DEF EmitState
    <3>2. e.dropped = dropped  OBVIOUS
    <3>3. e \in Event  BY DEF Typed, ListenersTyped, StreamTyped, Event
    <3> HIDE DEF e
    <3>4. events'[i] = e \/ (i \in DOMAIN events /\ events'[i] = events[i])
      BY <1>0, <1>7, <3>1, <3>3
    <3> QED  BY <1>0, <1>2, <1>4, <3>2, <3>4
  <2>3. CASE HandleRuntime
    <3>1. events # << >> /\ events' = Tail(events)  BY <2>3 DEF HandleRuntime
    <3>2. i + 1 \in DOMAIN events /\ events'[i] = events[i + 1]  BY <1>0, <1>7, <3>1
    <3> QED  BY <1>0, <1>2, <1>4, <3>2
  <2>4. CASE events' = events  BY <1>0, <1>2, <1>4, <1>7, <2>4
  <2> QED  BY <2>1, <2>2, <2>3, <2>4, EventSteps
<1> QED  BY <1>5, <1>6, <1>7 DEF DroppedInv

LEMMA InitDropped == Init => DroppedInv
<1> SUFFICES ASSUME Init PROVE DroppedInv  OBVIOUS
<1>1. screen.dropped = 0 /\ dropped = 0 /\ events = << >>  BY DEF Init, Closed
<1>2. \A c \in Call : call[c].dropped = 0  BY DEF Init, NoCall
<1> QED  BY <1>1, <1>2 DEF DroppedInv

(* What is called missed is missed.                                        *)
LEMMA MissedTells ==
  ASSUME Typed, StreamInv, DroppedInv
  PROVE  MissedIsMissed
<1>0. /\ made \in Nat /\ dropped \in Nat /\ screen.dropped \in Nat
      /\ Len(queue) \in Nat /\ Len(posted) \in Nat /\ Len(received) \in Nat
  BY DEF Typed, StreamTyped, Screen
<1>1. screen.dropped <= dropped /\ dropped + Len(received) + Len(posted) + Len(queue) <= made
  BY DEF StreamInv, DroppedInv
<1>2. Len(feed) = IF Len(received) < FeedLimit THEN Len(received) ELSE FeedLimit
  <2>1. (IF Len(received) < FeedLimit THEN Len(received) ELSE FeedLimit) \in Nat
    BY <1>0, LimitsAssumption
  <2>2. DOMAIN feed = 1..(IF Len(received) < FeedLimit THEN Len(received) ELSE FeedLimit)
    BY DEF StreamInv
  <2>3. feed \in Seq(Nat)  BY DEF Typed, StreamTyped
  <2> QED  BY <2>1, <2>2, <2>3
<1>3. Len(feed) + Evicted = Len(received) /\ Evicted \in Nat /\ Len(feed) \in Nat
  <2>1. Evicted = IF Len(received) > FeedLimit THEN Len(received) - FeedLimit ELSE 0  BY DEF Evicted
  <2>2. FeedLimit \in Nat  BY LimitsAssumption
  <2>3. CASE Len(received) > FeedLimit
    <3>1. Len(feed) = FeedLimit /\ Evicted = Len(received) - FeedLimit  BY <1>0, <1>2, <2>1, <2>2, <2>3
    <3> QED  BY <1>0, <2>2, <2>3, <3>1
  <2>4. CASE ~(Len(received) > FeedLimit)
    <3>1. Len(feed) = Len(received) /\ Evicted = 0  BY <1>0, <1>2, <2>1, <2>2, <2>4
    <3> QED  BY <1>0, <3>1
  <2> QED  BY <2>3, <2>4
<1>4. \A a, b, d, e, f, p, q, n \in Nat :
        a <= d /\ d + n + p + q <= e /\ f + b = n => (a + b) + f + p + q <= e
  OBVIOUS
<1>5. (screen.dropped + Evicted) + Len(feed) + Len(posted) + Len(queue) <= made
  BY <1>0, <1>1, <1>3, <1>4
<1> QED  BY <1>5 DEF MissedIsMissed, Missed

-----------------------------------------------------------------------------
(***************************************************************************)
(* The tray.                                                               *)
(***************************************************************************)

(* A command whose row the tray has not read has still to tell the runtime. *)
LEMMA UnreadKept ==
  ASSUME Typed, UnreadInv, [Next]_vars
  PROVE  UnreadInv'
<1>0. call \in [Call -> Calls] /\ unread \subseteq Call  BY DEF Typed
<1> SUFFICES ASSUME NEW d \in unread' PROVE call'[d].stage \in {"marked", "found"}
  BY DEF UnreadInv
<1>1. ASSUME NEW c \in Call, Write(c), d = c PROVE call'[d].stage \in {"marked", "found"}
  <2>1. (row[call[c].listener] = "on") # (call[c].op = "enable") \/ c \in unread
    BY <1>1 DEF Write
  <2>2. call[c].stage = "called"  BY <1>1 DEF Write
  <2>3. c \notin unread  BY <2>2 DEF UnreadInv
  <2>4. call[c].op # "create"  BY <1>1, <2>1, <2>3 DEF Write
  <2>5. call' = [call EXCEPT ![c].stage = "marked", ![c].at = clock + 1]  BY <1>1, <2>4 DEF Write
  <2>6. call[c] \in Calls  BY <1>0
  <2> QED  BY <1>0, <1>1, <2>5, <2>6 DEF Calls
<1>2. ASSUME \A c \in Call : Write(c) => d # c PROVE d \in unread /\ d \in Call
  <2>1. ASSUME NEW c \in Call, Write(c) PROVE d \in unread
    <3>1. d # c  BY <1>2, <2>1
    <3> QED  BY <2>1, <3>1 DEF Write
  <2>2. ASSUME NEW c \in Call, Tell(c) \/ Fail(c) \/ Remove(c) PROVE d \in unread
    BY <2>2 DEF Tell, Fail, Remove, LeaveRow
  <2>3. ASSUME TrayWake PROVE FALSE  BY <2>3 DEF TrayWake
  <2>4. ASSUME Cascade PROVE d \in unread  BY <2>4, CascadeDoes
  <2> QED  BY <1>0, <2>1, <2>2, <2>3, <2>4, OwedSteps
<1>3. ASSUME \A c \in Call : Write(c) => d # c PROVE call'[d].stage \in {"marked", "found"}
  <2>0. d \in unread /\ d \in Call  BY <1>2, <1>3
  <2>1. call[d].stage \in {"marked", "found"}  BY <2>0 DEF UnreadInv
  <2>2. CASE call'[d] = call[d]  BY <2>1, <2>2
  <2>3. CASE Starts(d)  BY <2>1, <2>3 DEF Starts
  <2>4. CASE Works(d)
    <3>1. Look(d)
      <4>1. ~Write(d)  BY <1>3, <2>0
      <4>2. ~Tell(d)
        <5>1. Tell(d) => d \notin unread'  BY DEF Tell, LeaveRow
        <5> QED  BY <5>1
      <4>3. ~Remove(d)  BY <2>1 DEF Remove
      <4> QED  BY <2>4, <4>1, <4>2, <4>3 DEF Works, Work
    <3>2. call' = [call EXCEPT ![d].stage = "found"] /\ call[d] \in Calls  BY <1>0, <2>0, <3>1 DEF Look
    <3> QED  BY <1>0, <2>0, <3>2 DEF Calls
  <2>5. CASE Reads(d)  BY <2>1, <2>5 DEF Reads, ReadRows
  <2>6. CASE Answers(d)  BY <2>1, <2>6 DEF Answers, ReadHealth
  <2>7. CASE Ends(d)
    <3>1. Fail(d)  BY <2>1, <2>7 DEF Ends, Apply, Ignore
    <3>2. d \notin unread'  BY <3>1 DEF Fail, LeaveRow
    <3> QED  BY <3>2
  <2>8. CASE Orphaned(d)  BY <2>1, <2>8 DEF Orphaned
  <2> QED  BY <2>0, <2>2, <2>3, <2>4, <2>5, <2>6, <2>7, <2>8, CallSteps
<1>4. CASE \E c \in Call : Write(c) /\ d = c  BY <1>1, <1>4
<1>5. CASE \A c \in Call : Write(c) => d # c  BY <1>3, <1>5
<1> QED  BY <1>4, <1>5

(* A command that is done with its row leaves an excuse if it was one.     *)
LEMMA RowLeft ==
  ASSUME Typed, NEW c \in Call, LeaveRow(c), Excused,
         \A l \in Listener : Coming(state[l], asked[l]) => Coming(state'[l], asked'[l])
  PROVE  Excused'
<1>1. CASE silent
  BY <1>1 DEF LeaveRow, Excused
<1>2. ASSUME NEW d \in unread, d # c PROVE Excused'
  <2>1. d \in unread'  BY <1>2 DEF LeaveRow
  <2> QED  BY <2>1 DEF Excused
<1>3. CASE c \in unread
  <2>1. call[c].listener \in Listener  BY DEF Typed, Calls
  <2>2. silent' \/ Coming(state'[call[c].listener], asked'[call[c].listener])  BY <1>3 DEF LeaveRow
  <2> QED  BY <2>1, <2>2 DEF Excused
<1>4. ASSUME NEW l \in Listener, Coming(state[l], asked[l]) PROVE Excused'
  BY <1>4 DEF Excused
<1> QED  BY <1>1, <1>2, <1>3, <1>4 DEF Excused

(* A step that neither announces nor reads keeps the excuses, changes the  *)
(* number of enabled listeners only with one, and makes none run.          *)
LEMMA ExcusesKept ==
  ASSUME Typed, ListenerInv, [Next]_vars, ~TrayWake, \A l \in Listener : ~Settle(l) /\ ~Close(l)
  PROVE  /\ Excused => Excused'
         /\ Enabled' = Enabled \/ Excused'
         /\ Running' = Running
<1>0. row \in [Listener -> RowState] /\ state \in [Listener -> State] /\ asked \in [Listener -> BOOLEAN]
  BY DEF Typed, ListenersTyped
<1> DEFINE G == (Excused => Excused') /\ (Enabled' = Enabled \/ Excused') /\ Running' = Running
<1>1. ASSUME UNCHANGED row PROVE Enabled' = Enabled  BY <1>1 DEF Enabled
<1>2. ASSUME UNCHANGED state PROVE Running' = Running  BY <1>2 DEF Running
<1>3. ASSUME UNCHANGED <<row, state, asked, unread, silent>> PROVE G
  BY <1>1, <1>2, <1>3 DEF Excused
<1>4. ASSUME NEW c \in Call, Write(c) PROVE G
  <2>1. UNCHANGED <<state, asked, silent>> /\ unread \subseteq unread'  BY <1>4 DEF Write
  <2>2. Excused => Excused'  BY <2>1 DEF Excused
  <2>3. ASSUME (row[call[c].listener] = "on") # (call[c].op = "enable") PROVE Excused'
    <3>1. c \in unread'  BY <1>4, <2>3 DEF Write
    <3> QED  BY <3>1 DEF Excused
  <2>4. ASSUME (row[call[c].listener] = "on") = (call[c].op = "enable") PROVE Enabled' = Enabled
    <3>1. row' = [row EXCEPT ![call[c].listener] = IF call[c].op = "enable" THEN "on" ELSE "off"]
      BY <1>4 DEF Write
    <3>2. ASSUME NEW m \in Listener PROVE row'[m] = "on" <=> row[m] = "on"
      BY <1>0, <2>4, <3>1
    <3> QED  BY <3>2 DEF Enabled
  <2> QED  BY <1>2, <2>1, <2>2, <2>3, <2>4
<1>5. ASSUME NEW c \in Call, Tell(c) PROVE G
  <2>1. row' = row /\ LeaveRow(c)  BY <1>5 DEF Tell
  <2>2. ASSUME NEW l \in Listener
        PROVE  /\ Coming(state[l], asked[l]) => Coming(state'[l], asked'[l])
               /\ state'[l] = "Running" <=> state[l] = "Running"
    <3>1. Work(c)  BY <1>5 DEF Work
    <3>2. /\ state'[l] = state[l] \/ (~Active(l) /\ state'[l] = "Starting")
          /\ asked'[l] = asked[l] \/ (Active(l) /\ asked'[l] /\ state'[l] = state[l])
      BY <3>1, WorkDoes
    <3> QED  BY <3>2 DEF Coming, Active
  <2>3. Excused => Excused'  BY <2>1, <2>2, RowLeft
  <2>4. Running' = Running  BY <2>2 DEF Running
  <2> QED  BY <1>1, <2>1, <2>3, <2>4
<1>6. ASSUME NEW c \in Call, Remove(c) PROVE G
  <2>1. UNCHANGED <<state, asked, unread>> /\ (silent => silent')  BY <1>6 DEF Remove
  <2>2. Excused => Excused'  BY <2>1 DEF Excused
  <2>3. ASSUME row[call[c].listener] = "on" PROVE Excused'
    <3>1. silent' \/ Coming(state'[call[c].listener], asked'[call[c].listener])
      BY <1>6, <2>3 DEF Remove
    <3>2. call[c].listener \in Listener  BY DEF Typed, Calls
    <3> QED  BY <3>1, <3>2 DEF Excused
  <2>4. ASSUME row[call[c].listener] # "on" PROVE Enabled' = Enabled
    <3>1. row' = [row EXCEPT ![call[c].listener] = "gone"]  BY <1>6 DEF Remove
    <3>2. ASSUME NEW m \in Listener PROVE row'[m] = "on" <=> row[m] = "on"
      BY <1>0, <2>4, <3>1
    <3> QED  BY <3>2 DEF Enabled
  <2> QED  BY <1>2, <2>1, <2>2, <2>3, <2>4
<1>7. ASSUME NEW c \in Call, Fail(c) PROVE G
  <2>1. UNCHANGED <<row, state, asked>> /\ LeaveRow(c)  BY <1>7 DEF Fail
  <2>2. \A l \in Listener : Coming(state[l], asked[l]) => Coming(state'[l], asked'[l])  BY <2>1
  <2>3. Excused => Excused'  BY <2>1, <2>2, RowLeft
  <2> QED  BY <1>1, <1>2, <2>1, <2>3
<1>8. ASSUME TrayStart PROVE G
  <2>1. UNCHANGED <<row, asked, unread, silent>>  BY <1>8 DEF TrayStart, TrayClick, owed
  <2>2. ASSUME NEW l \in Listener
        PROVE  /\ Coming(state[l], asked[l]) => Coming(state'[l], asked'[l])
               /\ state'[l] = "Running" <=> state[l] = "Running"
    <3>1. state'[l] = state[l] \/ (~Active(l) /\ state'[l] = "Starting")  BY <1>8 DEF TrayStart
    <3> QED  BY <2>1, <3>1 DEF Coming, Active
  <2>3. Excused => Excused'  BY <2>1, <2>2 DEF Excused
  <2>4. Running' = Running  BY <2>2 DEF Running
  <2> QED  BY <1>1, <2>1, <2>3, <2>4
<1>9. ASSUME TrayStop PROVE G
  <2>1. UNCHANGED <<row, state, unread, silent>>  BY <1>9 DEF TrayStop, TrayClick, owed
  <2>2. ASSUME NEW l \in Listener PROVE Coming(state[l], asked[l]) => Coming(state'[l], asked'[l])
    <3>1. asked[l] => Active(l)  BY DEF ListenerInv
    <3>2. asked'[l] = Active(l) /\ state'[l] = state[l]  BY <1>9 DEF TrayStop
    <3> QED  BY <3>1, <3>2 DEF Coming
  <2>3. Excused => Excused'  BY <2>1, <2>2 DEF Excused
  <2> QED  BY <1>1, <1>2, <2>1, <2>3
<1>11. ASSUME Cascade PROVE G
  <2>1. /\ UNCHANGED <<state, asked, unread>> /\ (silent => silent')
        /\ \A l \in Listener : \/ row'[l] = "on" <=> row[l] = "on"
                             \/ silent' \/ Coming(state[l], asked[l])
    BY <1>11, CascadeDoes
  <2>2. Excused => Excused'  BY <2>1 DEF Excused
  <2>3. ASSUME ~Excused' PROVE Enabled' = Enabled
    <3>1. ASSUME NEW l \in Listener PROVE row'[l] = "on" <=> row[l] = "on"
      BY <2>1, <2>3 DEF Excused
    <3> QED  BY <3>1 DEF Enabled
  <2> QED  BY <1>2, <2>1, <2>2, <2>3
<1> HIDE DEF G
<1>10. G
  BY <1>3, <1>4, <1>5, <1>6, <1>7, <1>8, <1>9, <1>11
  DEF Next, System, User, vars, owed, history, listeners, Subscribe, Work, Look, ReadRows, ReadHealth, Apply,
      Ignore, EmitState, HandleRuntime, TrayApply, TrayFail, EmitDecision, HandleDecision,
      Open, Click, Leave, Publish
<1> QED  BY <1>10 DEF G

(* Who touches the menu or tells the tray.                                 *)
LEMMA TraySteps ==
  ASSUME [Next]_vars
  PROVE  \/ TrayWake \/ TrayApply \/ TrayFail
         \/ \E l \in Listener : Settle(l) \/ Close(l)
         \/ UNCHANGED tray /\ ("tray" \in unseen' <=> "tray" \in unseen)
<1>1. ASSUME NEW c \in Call, Work(c) PROVE UNCHANGED <<tray, unseen>>  BY <1>1, WorkKeeps
<1> QED  BY <1>1
         DEF Next, System, User, vars, Subscribe, ReadRows, ReadHealth, Apply, Ignore, Fail, EmitState,
             HandleRuntime, EmitDecision, HandleDecision, Open, Click, Leave, Cascade, TrayStart, TrayStop,
             TrayClick, Publish

(* The menu keeps what it was told until it is told again.                 *)
LEMMA TrayKept ==
  ASSUME Typed, ListenerInv, TrayInv, [Next]_vars
  PROVE  TrayInv'
<1> DEFINE T == "tray" \in unseen \/
       IF tray.stage = "reading"
         THEN tray.read = Cardinality(Enabled) \/ Excused
         ELSE tray.failed \/ /\ tray.running = Cardinality(Running)
                             /\ tray.enabled = Cardinality(Enabled) \/ Excused
<1>0. T /\ tray \in Tray  BY DEF TrayInv, Typed
<1>1. ASSUME NEW l \in Listener, Settle(l) \/ Close(l) PROVE T'
  <2>1. "tray" \in unseen'  BY <1>1 DEF Settle, Close, Announce
  <2> QED  BY <2>1
<1>2. ASSUME TrayWake PROVE T'
  <2>1. row' = row  BY <1>2 DEF TrayWake, listeners
  <2>2. Enabled' = Enabled  BY <2>1 DEF Enabled
  <2>3. tray'.stage = "reading" /\ tray'.read = Cardinality(Enabled)  BY <1>0, <1>2 DEF TrayWake, Tray
  <2> QED  BY <2>2, <2>3
<1>3. ASSUME ~TrayWake, \A l \in Listener : ~Settle(l) /\ ~Close(l) PROVE T'
  <2>1. /\ Excused => Excused'
        /\ Enabled' = Enabled \/ Excused'
        /\ Running' = Running
    BY <1>3, ExcusesKept
  <2>2. CASE TrayApply
    <3>1. tray.stage = "reading" /\ unseen' = unseen /\ state' = state /\ row' = row
      BY <2>2 DEF TrayApply, listeners
    <3>2. tray'.stage = "waiting" /\ tray'.enabled = tray.read /\ tray'.running = Cardinality(Running)
      BY <2>2 DEF TrayApply
    <3> QED  BY <1>0, <2>1, <3>1, <3>2
  <2>3. CASE TrayFail
    <3>1. tray'.stage = "waiting" /\ tray'.failed  BY <2>3 DEF TrayFail
    <3> QED  BY <3>1
  <2>4. CASE UNCHANGED tray /\ ("tray" \in unseen' <=> "tray" \in unseen)
    BY <1>0, <2>1, <2>4
  <2> QED  BY <1>3, <2>2, <2>3, <2>4, TraySteps
<1>4. UnreadInv'  BY UnreadKept DEF TrayInv
<1>5. T'
  <2> HIDE DEF T
  <2> QED  BY <1>1, <1>2, <1>3
<1> QED  BY <1>4, <1>5 DEF TrayInv

LEMMA InitTray == Init => TrayInv
<1> SUFFICES ASSUME Init PROVE TrayInv  OBVIOUS
<1>1. \A l \in Listener : state[l] # "Running"  BY DEF Init
<1>2. Running = {}  BY <1>1 DEF Running
<1>3. Cardinality({}) = 0  BY FS_EmptySet
<1>4. tray.stage = "waiting" /\ tray.running = 0 /\ tray.enabled = Cardinality(Enabled) /\ unread = {}
  BY DEF Init, Enabled
<1> QED  BY <1>2, <1>3, <1>4 DEF TrayInv, UnreadInv

(* With nothing under way the menu tells the number of running listeners,  *)
(* and that of enabled ones but for silent changes.                        *)
LEMMA TrayTells == Typed /\ TrayInv => TrayMissesOnlySilentChanges
<1> SUFFICES ASSUME Typed, TrayInv, Quiet, ~tray.failed
             PROVE  /\ tray.running = Cardinality(Running)
                    /\ tray.enabled = Cardinality(Enabled) \/ silent
  BY DEF TrayMissesOnlySilentChanges
<1>1. /\ "tray" \notin unseen /\ tray.stage = "waiting"
      /\ \A c \in Call : call[c].stage = "idle"
      /\ \A l \in Listener : ~Coming(state[l], asked[l])
  BY DEF Quiet, Coming
<1>2. unread = {}
  <2>1. UnreadInv /\ unread \subseteq Call  BY DEF TrayInv, Typed
  <2> QED  BY <1>1, <2>1 DEF UnreadInv
<1>3. Excused => silent  BY <1>1, <1>2 DEF Excused
<1> QED  BY <1>1, <1>3 DEF TrayInv

-----------------------------------------------------------------------------
(***************************************************************************)
(* What the screen shows.                                                  *)
(***************************************************************************)

(* The truth is right.                                                     *)
LEMMA TruthIsRight ==
  ASSUME Typed, ListenerInv
  PROVE  RowsRight(Truth) /\ StatesRight(Truth)
<1>1. ASSUME NEW l \in Listener
      PROVE  /\ Truth[l].on = (row[l] = "on")
             /\ (Truth[l].state = "none") = ~Stored(row[l])
             /\ Truth[l].state # "none" => Truth[l].state = Known(state[l], Truth[l].on)
  <2>1. row[l] \in RowState /\ state[l] \in State  BY DEF Typed, ListenersTyped
  <2>2. Truth[l].on = (row[l] = "on") /\ Truth[l].state = View(row[l], state[l])  BY DEF Truth
  <2>3. View(row[l], state[l]) = "none" <=> ~Stored(row[l])  BY <2>1, ViewTyped
  <2>4. Stored(row[l]) => View(row[l], state[l]) = Known(state[l], row[l] = "on")  BY <2>1, ViewTyped
  <2> QED  BY <2>2, <2>3, <2>4
<1> QED  BY <1>1 DEF RowsRight, StatesRight

(* An answer under way stays so, or is given, lost or refused.             *)
LEMMA PendingKept ==
  ASSUME Typed, \A c \in Call : call[c].at <= clock, [Next]_vars, NEW at \in Nat, Pending(at)
  PROVE  Pending(at)' \/ (newest' > at /\ ((\E c \in Call : Apply(c)) \/ misled' \/ screen.at > at))
<1>0. clock \in Nat /\ newest \in Nat /\ screen.at \in Nat /\ clock' \in Nat /\ clock' >= clock
  BY ClockTicks DEF Typed, Screen
<1>1. PICK c \in Call : call[c].stage # "idle" /\ call[c].at > at  BY DEF Pending
<1>2. call[c].at \in Nat /\ call[c].at <= clock  BY DEF Typed, Calls
<1>3. ASSUME call'[c].stage # "idle", call'[c].at \in {call[c].at, clock, clock'} PROVE Pending(at)'
  <2>1. call'[c].at > at  BY <1>0, <1>1, <1>2, <1>3
  <2> QED  BY <1>3, <2>1 DEF Pending
<1>4. CASE Starts(c)  BY <1>1, <1>4 DEF Starts
<1>5. CASE Works(c)  BY <1>3, <1>5 DEF Works
<1>6. CASE Reads(c)  BY <1>3, <1>6 DEF Reads
<1>7. CASE Answers(c)  BY <1>3, <1>7 DEF Answers
<1>8. CASE Ends(c)
  <2>1. CASE Apply(c)
    <3>1. newest' >= call[c].at /\ newest' \in Nat  BY <1>0, <1>2, <2>1, LargerIs DEF Apply
    <3>2. newest' > at  BY <1>1, <1>2, <3>1
    <3> QED  BY <2>1, <3>2
  <2>2. CASE Lost(call[c].at)
    <3>1. newest' >= call[c].at /\ newest' \in Nat  BY <1>0, <1>2, <2>2, LargerIs DEF Lost
    <3>2. misled' \/ ~(call[c].at > screen.at)  BY <2>2 DEF Lost
    <3> QED  BY <1>0, <1>1, <1>2, <3>1, <3>2
  <2> QED  BY <1>8, <2>1, <2>2 DEF Ends, Ignore, Fail
<1>9. CASE Orphaned(c)  BY <1>1, <1>3, <1>9 DEF Orphaned
<1>10. CASE call'[c] = call[c]  BY <1>1, <1>3, <1>10
<1> QED  BY <1>4, <1>5, <1>6, <1>7, <1>8, <1>9, <1>10, CallSteps

(* A change of a row promises one, unless the row goes with its profile.   *)
LEMMA RowChangePends ==
  ASSUME Typed, [Next]_vars, NEW at \in Nat, at <= clock, row' # row, ~Cascade
  PROVE  Pending(at)'
<1>1. PICK c \in Call : call'[c].stage # "idle" /\ call'[c].at = clock' /\ clock' = clock + 1
  BY ClockTicks
<1>2. clock \in Nat  BY DEF Typed
<1>3. call'[c].at > at  BY <1>1, <1>2
<1> QED  BY <1>1, <1>3 DEF Pending

(* A listener that has started is not forgotten.                           *)
LEMMA UnknownWas ==
  ASSUME Typed, ListenerInv, [Next]_vars, NEW l \in Listener, state'[l] = "Unknown"
  PROVE  state[l] = "Unknown"
<1>0. state \in [Listener -> State]  BY DEF Typed, ListenersTyped
<1>1. CASE Leave \/ EmitState \/ HandleRuntime
  BY <1>1 DEF Leave, EmitState, HandleRuntime, listeners
<1>2. ASSUME NEW m \in Listener, Settle(m) PROVE state[l] = "Unknown"
  <2>1. PICK s \in {"Running", "Failed"} : state' = [state EXCEPT ![m] = s]  BY <1>2 DEF Settle
  <2> QED  BY <1>0, <2>1
<1>3. ASSUME NEW m \in Listener, Close(m) PROVE state[l] = "Unknown"
  BY <1>0, <1>3 DEF Close
<1>4. CASE Starting
  BY <1>4 DEF Starting
<1> QED  BY <1>1, <1>2, <1>3, <1>4, EventSteps

(* What a view does to what is shown.                                      *)
LEMMA MergedShows ==
  ASSUME Typed, NEW l \in Listener, HandleRuntime
  PROVE  /\ screen'.shown[l].on = screen.shown[l].on
         /\ (screen'.shown[l].state = "none") = (screen.shown[l].state = "none")
         /\ screen'.shown[l].state = IF screen.shown[l].state = "none" \/ events[1].state[l] = "Unknown"
                                       THEN screen.shown[l].state ELSE events[1].state[l]
         /\ screen'.status = screen.status /\ screen'.at = screen.at /\ misled' = misled
         /\ 1 \in DOMAIN events /\ events' = Tail(events) /\ events # << >>
         /\ DOMAIN events' = 1..(Len(events) - 1) /\ Len(events) \in Nat
         /\ \A i \in DOMAIN events' : i + 1 \in DOMAIN events /\ events'[i] = events[i + 1]
<1>0. events \in Seq(Event) /\ screen \in Screen  BY DEF Typed
<1>1. events # << >> /\ events' = Tail(events)
      /\ screen' = [screen EXCEPT !.shown = Merged(Head(events)), !.dropped = Head(events).dropped]
      /\ misled' = misled
  BY DEF HandleRuntime
<1>2. Head(events) = events[1] /\ 1 \in DOMAIN events /\ events[1] \in Event  BY <1>0, <1>1
<1>3. screen'.shown = Merged(events[1]) /\ screen'.status = screen.status /\ screen'.at = screen.at
  BY <1>0, <1>1, <1>2 DEF Screen
<1>4. Merged(events[1])[l] = IF screen.shown[l].state = "none" \/ events[1].state[l] = "Unknown"
                               THEN screen.shown[l]
                               ELSE [screen.shown[l] EXCEPT !.state = events[1].state[l]]
  BY DEF Merged
<1>5. screen.shown[l] \in Shown /\ events[1].state[l] \in State  BY <1>0, <1>2 DEF Screen, Event
<1>6. "none" \notin State  BY DEF State
<1>7. /\ Merged(events[1])[l].on = screen.shown[l].on
      /\ Merged(events[1])[l].state = IF screen.shown[l].state = "none" \/ events[1].state[l] = "Unknown"
                                        THEN screen.shown[l].state ELSE events[1].state[l]
  BY <1>4, <1>5 DEF Shown
<1>8. DOMAIN events' = 1..(Len(events) - 1) /\ Len(events) \in Nat
      /\ \A i \in DOMAIN events' : i + 1 \in DOMAIN events /\ events'[i] = events[i + 1]
  BY <1>0, <1>1
<1> QED  BY <1>1, <1>2, <1>3, <1>5, <1>6, <1>7, <1>8

(* What the window is told when it is told.                                *)
LEMMA EmitTells ==
  ASSUME Typed, EmitState
  PROVE  /\ \/ /\ "runtime" \in heard
               /\ events' = Append(events, [state |-> state, dropped |-> dropped, at |-> clock])
               /\ UNCHANGED <<newest, misled>>
               /\ Len(events') = Len(events) + 1 /\ events'[Len(events')].state = state
               /\ events'[Len(events')].at = clock /\ Len(events') \in DOMAIN events' /\ events' # << >>
            \/ "runtime" \notin heard /\ events' = events /\ Lost(clock)
         /\ \A i \in DOMAIN events' : \/ events'[i].state = state /\ events'[i].at = clock
                                      \/ i \in DOMAIN events /\ events'[i] = events[i]
         /\ \A i \in DOMAIN events : i \in DOMAIN events' /\ events'[i] = events[i]
         /\ UNCHANGED <<row, state, asked, call, screen, heard, clock>>
<1> DEFINE e == [state |-> state, dropped |-> dropped, at |-> clock]
<1>0. events \in Seq(Event)  BY DEF Typed
<1>1. e \in Event /\ e.state = state /\ e.at = clock
  BY DEF Typed, ListenersTyped, StreamTyped, Event
<1>2. UNCHANGED <<row, state, asked, call, screen, heard, clock>>  BY DEF EmitState, listeners
<1>3. CASE "runtime" \in heard
  <2>1. events' = Append(events, e) /\ UNCHANGED <<newest, misled>>  BY <1>3 DEF EmitState
  <2> HIDE DEF e
  <2>2. /\ Len(events') = Len(events) + 1 /\ events'[Len(events')] = e
        /\ Len(events') \in DOMAIN events' /\ events' # << >>
        /\ \A i \in DOMAIN events' : events'[i] = e \/ (i \in DOMAIN events /\ events'[i] = events[i])
        /\ \A i \in DOMAIN events : i \in DOMAIN events' /\ events'[i] = events[i]
    BY <1>0, <1>1, <2>1
  <2>3. \A i \in DOMAIN events' : \/ events'[i].state = state /\ events'[i].at = clock
                                  \/ i \in DOMAIN events /\ events'[i] = events[i]
    BY <1>1, <2>2
  <2>4. events'[Len(events')].state = state /\ events'[Len(events')].at = clock  BY <1>1, <2>2
  <2> QED  BY <1>2, <1>3, <2>1, <2>2, <2>3, <2>4 DEF e
<1>4. CASE "runtime" \notin heard
  <2>1. events' = events /\ Lost(clock)  BY <1>4 DEF EmitState
  <2> QED  BY <1>2, <1>4, <2>1
<1> QED  BY <1>3, <1>4

(* What is said of a listener that never ran.                              *)
LEMMA NeverRanKept ==
  ASSUME Typed, ListenerInv, [Next]_vars, NEW l \in Listener, NeverRan(l)
  PROVE  NeverRan(l)'
<1>0. SUFFICES ASSUME state'[l] = "Unknown"
               PROVE  /\ Unstarted(screen'.shown[l])
                      /\ \A i \in DOMAIN events' : events'[i].state[l] = "Unknown"
                      /\ \A c \in Call : call'[c].stage = "answered" => Unstarted(call'[c].shown[l])
  BY DEF NeverRan, Unstarted, Known
<1>1. state[l] = "Unknown"  BY <1>0, UnknownWas
<1>2. /\ Unstarted(screen.shown[l])
      /\ \A i \in DOMAIN events : events[i].state[l] = "Unknown"
      /\ \A c \in Call : call[c].stage = "answered" => Unstarted(call[c].shown[l])
  BY <1>1 DEF NeverRan
<1>4. Unstarted(screen'.shown[l])
  <2>1. CASE Leave
    <3>1. screen'.shown = NoListeners  BY <2>1 DEF Leave, Closed
    <3> QED  BY <3>1 DEF NoListeners, Absent, Unstarted
  <2>2. ASSUME NEW c \in Call, Apply(c) PROVE Unstarted(screen'.shown[l])
    <3>1. screen'.shown = call[c].shown /\ call[c].stage = "answered"  BY <2>2 DEF Apply
    <3> QED  BY <1>2, <3>1
  <2>3. CASE HandleRuntime
    <3>1. /\ 1 \in DOMAIN events /\ screen'.shown[l].on = screen.shown[l].on
          /\ screen'.shown[l].state = IF screen.shown[l].state = "none" \/ events[1].state[l] = "Unknown"
                                        THEN screen.shown[l].state ELSE events[1].state[l]
      BY <2>3, MergedShows
    <3> QED  BY <1>2, <3>1 DEF Unstarted
  <2>4. CASE screen'.shown = screen.shown  BY <1>2, <2>4
  <2> QED  BY <2>1, <2>2, <2>3, <2>4, ScreenSteps
<1>5. ASSUME NEW i \in DOMAIN events' PROVE events'[i].state[l] = "Unknown"
  <2>1. CASE Leave
    <3>1. events' = << >>  BY <2>1 DEF Leave
    <3> QED  BY <1>5, <3>1
  <2>2. CASE EmitState
    <3>1. \/ events'[i].state = state
          \/ i \in DOMAIN events /\ events'[i] = events[i]
      BY <1>5, <2>2, EmitTells
    <3> QED  BY <1>1, <1>2, <3>1
  <2>3. CASE HandleRuntime
    <3>1. i + 1 \in DOMAIN events /\ events'[i] = events[i + 1]  BY <1>5, <2>3, MergedShows
    <3> QED  BY <1>2, <3>1
  <2>4. CASE events' = events  BY <1>2, <1>5, <2>4
  <2> QED  BY <2>1, <2>2, <2>3, <2>4, EventSteps
<1>6. ASSUME NEW c \in Call, call'[c].stage = "answered" PROVE Unstarted(call'[c].shown[l])
  <2>1. CASE call'[c] = call[c]  BY <1>2, <1>6, <2>1
  <2>2. CASE Starts(c) \/ Works(c) \/ Reads(c)  BY <1>6, <2>2 DEF Starts, Works, Reads
  <2>4. CASE Answers(c)
    <3>1. call[c].rows[l] \in RowState /\ state[l] \in State
      BY DEF Typed, Calls, ListenersTyped
    <3>2. /\ call'[c].shown[l].on = (call[c].rows[l] = "on")
          /\ call'[c].shown[l].state = View(call[c].rows[l], state[l])
      BY <2>4 DEF Answers
    <3>3. CASE Stored(call[c].rows[l])
      <4>1. View(call[c].rows[l], state[l]) = Known("Unknown", call[c].rows[l] = "on")
        BY <1>1, <3>1, <3>3, ViewTyped
      <4> QED  BY <3>2, <4>1 DEF Unstarted
    <3>4. CASE ~Stored(call[c].rows[l])
      <4>1. View(call[c].rows[l], state[l]) = "none"  BY <3>1, <3>4, ViewTyped
      <4> QED  BY <3>2, <4>1 DEF Unstarted
    <3> QED  BY <3>3, <3>4
  <2>5. CASE Ends(c)
    <3>1. call'[c].stage = "idle"  BY <2>5 DEF Ends, NoCall
    <3> QED  BY <1>6, <3>1
  <2>6. CASE Orphaned(c)  BY <1>2, <1>6, <2>6 DEF Orphaned
  <2> QED  BY <2>1, <2>2, <2>4, <2>5, <2>6, CallSteps
<1> QED  BY <1>4, <1>5, <1>6

(* The last event on its way is the latest.                                *)
LEMMA LastEventKept ==
  ASSUME Typed, ListenerInv, LastEventRight, events # << >> => "runtime" \in heard, [Next]_vars
  PROVE  LastEventRight'
<1>0. SUFFICES ASSUME "window" \notin unseen', events' # << >>, NEW l \in Listener, state'[l] # "Starting"
               PROVE  events'[Len(events')].state[l] = state'[l]
  BY DEF LastEventRight
<1>1. CASE Leave
  <2>1. events' = << >>  BY <1>1 DEF Leave
  <2> QED  BY <1>0, <2>1
<1>2. CASE EmitState
  <2>1. "runtime" \in heard  BY <1>0, <1>2, EmitTells
  <2>2. events'[Len(events')].state = state /\ state' = state  BY <1>2, <2>1, EmitTells
  <2> QED  BY <2>2
<1>3. CASE HandleRuntime
  <2>1. events' = Tail(events) /\ events # << >> /\ DOMAIN events' = 1..(Len(events) - 1) /\ Len(events) \in Nat
        /\ \A i \in DOMAIN events' : i + 1 \in DOMAIN events /\ events'[i] = events[i + 1]
    BY <1>3, MergedShows
  <2>2. events \in Seq(Event) /\ events' \in Seq(Event)  BY EventsStayTyped DEF Typed
  <2>3. Len(events') = Len(events) - 1 /\ Len(events') \in DOMAIN events'  BY <1>0, <2>1, <2>2
  <2>4. events'[Len(events')] = events[Len(events)]  BY <2>1, <2>3
  <2>5. UNCHANGED <<unseen, state>>  BY <1>3 DEF HandleRuntime, listeners
  <2> QED  BY <1>0, <2>1, <2>4, <2>5 DEF LastEventRight
<1>4. CASE \E m \in Listener : (Settle(m) \/ Close(m)) /\ "window" \in unseen' /\ UNCHANGED events
  BY <1>0, <1>4
<1>5. CASE UNCHANGED events /\ ("window" \in unseen' <=> "window" \in unseen) /\ Starting
  <2>1. state'[l] = state[l]  BY <1>0, <1>5 DEF Starting
  <2> QED  BY <1>0, <1>5, <2>1 DEF LastEventRight
<1> QED  BY <1>1, <1>2, <1>3, <1>4, <1>5, EventSteps

(* Events come only to a screen that listens, and a closed one does not.   *)
HeardInv == /\ events # << >> => "runtime" \in heard
            /\ screen.status = "closed" => heard = {}

(* Events are there only for a screen that listens.                        *)
LEMMA HeardKept ==
  ASSUME Typed, ListenerInv, HeardInv, [Next]_vars
  PROVE  HeardInv'
<1>0. heard \subseteq {"decision", "runtime"}  BY DEF Typed
<1>1. CASE Leave
  <2>1. events' = << >> /\ heard' = {}  BY <1>1 DEF Leave
  <2> QED  BY <2>1 DEF HeardInv
<1>2. ASSUME NEW kind \in {"decision", "runtime"}, Subscribe(kind) PROVE HeardInv'
  <2>1. screen.status # "closed" /\ heard' = heard \cup {kind} /\ UNCHANGED <<events, screen>>
    BY <1>2 DEF Subscribe
  <2> QED  BY <2>1 DEF HeardInv
<1>3. ASSUME UNCHANGED heard, ~Leave PROVE HeardInv'
  <2>1. ASSUME events' # << >> PROVE "runtime" \in heard
    <3>1. CASE EmitState  BY <2>1, <3>1, EmitTells DEF HeardInv
    <3>2. CASE HandleRuntime
      <4>1. events # << >>  BY <3>2 DEF HandleRuntime
      <4> QED  BY <4>1 DEF HeardInv
    <3>3. CASE UNCHANGED events  BY <2>1, <3>3 DEF HeardInv
    <3> QED  BY <1>3, <3>1, <3>2, <3>3, EventSteps
  <2>2. screen'.status = "closed" => screen.status = "closed"
    <3>1. ASSUME NEW c \in Call, Apply(c) PROVE screen'.status # "closed"  BY <3>1 DEF Apply
    <3>2. CASE HandleRuntime
      <4>1. PICK l \in Listener : TRUE  BY ListenerAssumption
      <4> QED  BY <3>2, <4>1, MergedShows
    <3> QED  BY <1>3, <3>1, <3>2, ScreenSteps
  <2> QED  BY <1>3, <2>1, <2>2 DEF HeardInv
<1> QED  BY <1>1, <1>2, <1>3
         DEF Next, System, User, vars, Work, Write, Look, Tell, Remove, ReadRows, ReadHealth, Apply, Ignore,
             Fail, Settle, Close,
             EmitState, HandleRuntime, TrayWake, TrayApply, TrayFail, EmitDecision, HandleDecision,
             Open, Click, Cascade, TrayStart, TrayStop, TrayClick, Publish

(* What a call brings is right, or out of date for a reason.               *)
Overtaken(at) == newest > at \/ Pending(at)

(* What is out of date stays out of date, and what will be replaced is     *)
(* replaced or still will be.                                              *)
LEMMA OvertakenKept ==
  ASSUME Typed, \A c \in Call : call[c].at <= clock, [Next]_vars, ~Leave,
         NEW at \in Nat, Overtaken(at)
  PROVE  Overtaken(at)'
<1>1. newest \in Nat /\ newest' \in Nat  BY ScreenStaysTyped DEF Typed
<1>2. newest' >= newest  BY NewestRises
<1>3. CASE newest > at
  <2>1. newest' > at  BY <1>1, <1>2, <1>3
  <2> QED  BY <2>1 DEF Overtaken
<1>4. CASE Pending(at)
  <2>1. Pending(at)' \/ newest' > at  BY <1>4, PendingKept
  <2> QED  BY <2>1 DEF Overtaken
<1> QED  BY <1>3, <1>4 DEF Overtaken

(* The truth is right after a step too.                                    *)
LEMMA TruthRight == Typed /\ ListenerInv => RowsRight(Truth) /\ StatesRight(Truth)
BY TruthIsRight

(* A whole answer read now is right.                                       *)
LEMMA TruthRightNext == Typed' /\ ListenerInv' => RowsRight(Truth)' /\ StatesRight(Truth)'
<1>1. (Typed /\ ListenerInv => RowsRight(Truth) /\ StatesRight(Truth))'  BY TruthRight, PTL
<1> QED  BY <1>1

(* What a call brings stays right, or is overtaken.                        *)
LEMMA CallKept ==
  ASSUME Typed, ListenerInv, ViewInv, [Next]_vars, NEW d \in Call
  PROVE  CallInv(d)'
<1>0. call[d] \in Calls /\ call'[d] \in Calls  BY Types DEF Typed
<1>1. call[d].at \in Nat /\ call'[d].at \in Nat /\ clock \in Nat /\ clock' \in Nat
  BY <1>0, ScreenStaysTyped DEF Calls, Typed
<1>2. \A c \in Call : call[c].at <= clock  BY DEF ViewInv, CallInv
<1>3. clock' \in {clock, clock + 1} /\ (clock' = clock => UNCHANGED <<row, state>>)  BY ClockTicks
<1>4. call'[d].at <= clock'
  <2>1. call'[d].at \in {0, call[d].at, clock, clock'}
    <3>1. NoCall.at = 0  BY DEF NoCall
    <3> QED  BY <3>1, CallSteps DEF Starts, Works, Reads, Answers, Ends, Orphaned
  <2>2. call[d].at <= clock  BY <1>2
  <2> QED  BY <1>1, <1>3, <2>1, <2>2
<1>5. ASSUME call'[d].stage \notin {"reading", "answered"} PROVE CallInv(d)'
  BY <1>4, <1>5 DEF CallInv
<1>6. CASE Starts(d) \/ Works(d)  BY <1>5, <1>6 DEF Starts, Works
<1>7. CASE Ends(d)
  <2>1. call'[d].stage = "idle"  BY <1>7 DEF Ends, NoCall
  <2> QED  BY <1>5, <2>1
<1>8. CASE Reads(d)
  <2>1. call'[d].stage = "reading" /\ call'[d].rows = row /\ row' = row
    BY <1>8 DEF Reads, ReadRows, listeners
  <2> QED  BY <1>4, <2>1 DEF CallInv
<1>9. CASE Answers(d)
  <2>1. /\ call[d].stage = "reading"
        /\ UNCHANGED <<row, state, asked, unseen, events, newest, clock>>
    BY <1>9 DEF Answers, ReadHealth, listeners, history
  <2>2. /\ call'[d].stage = "answered" /\ call'[d].at = call[d].at /\ call'[d].mine = call[d].mine
        /\ call'[d].shown = [l \in Listener |->
             [on |-> call[d].rows[l] = "on", state |-> View(call[d].rows[l], state[l])]]
    BY <1>9 DEF Answers
  <2>3. /\ call[d].at = clock => call[d].rows = row
        /\ call[d].mine => call[d].rows = row \/ Overtaken(call[d].at)
    BY <2>1 DEF ViewInv, CallInv, Overtaken
  <2>4. call[d].rows = row => call'[d].shown = Truth' /\ call'[d].shown = Truth
    BY <2>1, <2>2 DEF Truth
  <2>5. RowsRight(Truth)'
    <3>1. Typed' /\ ListenerInv'  BY Types, ListenersKept
    <3> QED  BY <3>1, TruthRightNext
  <2>6. ~Leave \/ call'[d].mine = FALSE
    BY <2>2, LeavesNone
  <2>7. PICK a \in Nat : a = call[d].at  BY <1>1
  <2>8. call'[d].mine /\ Overtaken(a) => Overtaken(a)'
    BY <1>2, <2>6, OvertakenKept
  <2>9. call'[d].mine => call[d].rows = row \/ Overtaken(a)'
    BY <2>2, <2>3, <2>7, <2>8
  <2>10. call'[d].mine => RowsRight(call[d].shown)' \/ newest' > call'[d].at \/ Pending(call[d].at)'
    <3>1. Overtaken(a)' => newest' > call'[d].at \/ Pending(call[d].at)'
      BY <2>2, <2>7 DEF Overtaken, Pending
    <3>2. call[d].rows = row => RowsRight(call[d].shown)'
      <4>1. ASSUME call'[d].shown = Truth' PROVE RowsRight(call[d].shown)'
        BY <2>5, <4>1 DEF RowsRight
      <4> QED  BY <2>4, <4>1
    <3> QED  BY <2>9, <3>1, <3>2
  <2>11. StatesRight(call[d].shown)'
    <3>1. SUFFICES ASSUME NEW l \in Listener, state'[l] # "Starting", call'[d].shown[l].state # "none"
                   PROVE  call'[d].shown[l].state = Known(state'[l], call'[d].shown[l].on)
      BY DEF StatesRight
    <3>2. /\ call'[d].shown[l].on = (call[d].rows[l] = "on")
          /\ call'[d].shown[l].state = View(call[d].rows[l], state[l])  BY <2>2
    <3>3. call[d].rows[l] \in RowState /\ state[l] \in State  BY <1>0 DEF Typed, ListenersTyped, Calls
    <3>4. Stored(call[d].rows[l])  BY <3>1, <3>2, <3>3, ViewTyped
    <3>5. View(call[d].rows[l], state[l]) = Known(state[l], call[d].rows[l] = "on")  BY <3>3, <3>4, ViewTyped
    <3> QED  BY <2>1, <3>2, <3>5
  <2>12. call'[d].at = clock' => call'[d].shown = Truth'
    BY <2>1, <2>2, <2>3, <2>4
  <2> QED  BY <1>4, <2>2, <2>10, <2>11, <2>12 DEF CallInv
<1>10. CASE Orphaned(d)
  <2>1. /\ call'[d].stage = call[d].stage /\ call'[d].at = call[d].at
        /\ call'[d].rows = call[d].rows /\ call'[d].shown = call[d].shown /\ call'[d].mine = FALSE
        /\ UNCHANGED <<row, state, clock>>
    BY <1>10 DEF Orphaned, Leave, listeners
  <2>2. call[d].stage = "reading" /\ call[d].at = clock => call[d].rows = row  BY DEF ViewInv, CallInv
  <2>3. call[d].stage = "answered" /\ call[d].at = clock => call[d].shown = Truth  BY DEF ViewInv, CallInv
  <2>4. Truth' = Truth  BY <2>1 DEF Truth
  <2> QED  BY <1>4, <2>1, <2>2, <2>3, <2>4 DEF CallInv
<1>11. ASSUME call'[d] = call[d], call[d].stage \in {"reading", "answered"} PROVE CallInv(d)'
  <2>0. call[d].at <= clock  BY <1>2
  <2>1. call[d].at = clock' => clock' = clock /\ row' = row /\ state' = state
    BY <1>1, <1>3, <2>0
  <2>2. row' = row /\ state' = state => Truth' = Truth  BY DEF Truth
  <2>3. call'[d].stage = "reading" /\ call'[d].at = clock' => call'[d].rows = row'
    BY <1>11, <2>1 DEF ViewInv, CallInv
  <2>4. call'[d].stage = "answered" /\ call'[d].at = clock' => call'[d].shown = Truth'
    BY <1>11, <2>1, <2>2 DEF ViewInv, CallInv
  <2>5. call[d].mine => ~Leave  BY <1>0, <1>11, LeavesNone
  <2>6. PICK a \in Nat : a = call[d].at  BY <1>1
  <2>7. call[d].mine /\ Overtaken(a) => Overtaken(a)'  BY <1>2, <2>5, OvertakenKept
  <2>8. call[d].mine /\ row' # row => Overtaken(a)'
    <3>1. row' # row /\ ~Cascade => Pending(a)'  BY <2>0, <2>6, RowChangePends
    <3>2. Cascade => newest' > a  BY <2>0, <2>6, CascadeOvertakes
    <3> QED  BY <3>1, <3>2 DEF Overtaken
  <2>9. Overtaken(a)' => newest' > call'[d].at \/ Pending(call[d].at)'
    BY <1>11, <2>6 DEF Overtaken, Pending
  <2>10. /\ call[d].stage = "reading" /\ call[d].mine => call[d].rows = row \/ Overtaken(a)
         /\ call[d].stage = "answered" /\ call[d].mine => RowsRight(call[d].shown) \/ Overtaken(a)
    BY <2>6 DEF ViewInv, CallInv, Overtaken
  <2>11. call'[d].stage = "reading" /\ call'[d].mine =>
           call'[d].rows = row' \/ newest' > call'[d].at \/ Pending(call[d].at)'
    BY <1>11, <2>7, <2>8, <2>9, <2>10
  <2>12. row' = row /\ RowsRight(call[d].shown) => RowsRight(call[d].shown)'
    BY <1>11 DEF RowsRight
  <2>13. call'[d].stage = "answered" /\ call'[d].mine =>
           RowsRight(call[d].shown)' \/ newest' > call'[d].at \/ Pending(call[d].at)'
    BY <1>11, <2>7, <2>8, <2>9, <2>10, <2>12
  <2>14. ASSUME call'[d].stage = "answered", call'[d].mine, newest' <= call'[d].at, "window" \notin unseen',
                \A i \in DOMAIN events' : events'[i].at <= call'[d].at
         PROVE  StatesRight(call[d].shown)'
    <3>0. newest \in Nat /\ newest' \in Nat /\ newest' >= newest
      BY <1>11, <2>5, <2>14, NewestRises, ScreenStaysTyped DEF Typed
    <3>1. newest <= call[d].at /\ call[d].stage = "answered" /\ call[d].mine  BY <1>1, <1>11, <2>14, <3>0
    <3>2. call[d].at = clock => call[d].shown = Truth  BY <3>1 DEF ViewInv, CallInv
    <3>3. "window" \notin unseen /\ (\A i \in DOMAIN events : events[i].at <= call[d].at)
          => StatesRight(call[d].shown)
      BY <3>1 DEF ViewInv, CallInv
    <3>4. StatesRight(Truth)  BY TruthIsRight
    <3>5. ASSUME state' = state, StatesRight(call[d].shown) PROVE StatesRight(call[d].shown)'
      BY <1>11, <3>5 DEF StatesRight
    <3>6. CASE EmitState
      <4>1. call[d].at >= clock
        <5>1. CASE "runtime" \in heard
          <6>1. Len(events') \in DOMAIN events' /\ events'[Len(events')].at = clock  BY <3>6, <5>1, EmitTells
          <6> QED  BY <1>1, <1>11, <2>14, <6>1
        <5>2. CASE "runtime" \notin heard
          <6>1. Lost(clock)  BY <3>6, <5>2, EmitTells
          <6>2. newest' >= clock  BY <1>1, <3>0, <6>1, LargerIs DEF Lost
          <6> QED  BY <1>1, <1>11, <2>14, <3>0, <6>2
        <5> QED  BY <5>1, <5>2
      <4>2. call[d].at = clock  BY <1>1, <2>0, <4>1
      <4>3. StatesRight(call[d].shown)  BY <3>2, <3>4, <4>2
      <4>4. state' = state  BY <3>6, EmitTells
      <4> QED  BY <3>5, <4>3, <4>4
    <3>7. CASE HandleRuntime
      <4>1. state' = state /\ unseen' = unseen  BY <3>7 DEF HandleRuntime, listeners
      <4>2. PICK l \in Listener : TRUE  BY ListenerAssumption
      <4>3. 1 \in DOMAIN events /\ events # << >>
            /\ DOMAIN events' = 1..(Len(events) - 1) /\ Len(events) \in Nat
            /\ \A i \in DOMAIN events' : i + 1 \in DOMAIN events /\ events'[i] = events[i + 1]
        BY <3>7, <4>2, MergedShows
      <4>4. events \in Seq(Event)  BY DEF Typed
      <4>5. events[1].at <= call[d].at
        <5>1. Head(events) = events[1] /\ events[1] \in Event  BY <4>3, <4>4
        <5>2. events[1].at \in Nat  BY <5>1 DEF Event
        <5>3. newest' = Larger(newest, events[1].at)  BY <3>7, <5>1 DEF HandleRuntime
        <5>4. newest' >= events[1].at  BY <3>0, <5>2, <5>3, LargerIs
        <5> QED  BY <1>1, <1>11, <2>14, <3>0, <5>2, <5>4
      <4>6. ASSUME NEW i \in DOMAIN events PROVE events[i].at <= call[d].at
        <5>1. CASE i = 1  BY <4>5, <5>1
        <5>2. CASE i # 1
          <6>1. i - 1 \in DOMAIN events' /\ (i - 1) + 1 = i  BY <4>3, <4>4, <4>6, <5>2
          <6>2. events'[i - 1] = events[i]  BY <4>3, <6>1
          <6> QED  BY <1>11, <2>14, <6>1, <6>2
        <5> QED  BY <5>1, <5>2
      <4> QED  BY <2>14, <3>3, <3>5, <4>1, <4>6
    <3>8. CASE UNCHANGED events /\ ("window" \in unseen' <=> "window" \in unseen) /\ Starting
      <4>1. StatesRight(call[d].shown)  BY <1>11, <2>14, <3>3, <3>8
      <4> QED  BY <1>11, <3>8, <4>1 DEF Starting, StatesRight
    <3> QED  BY <1>11, <2>5, <2>14, <3>6, <3>7, <3>8, EventSteps
  <2> QED  BY <1>4, <2>3, <2>4, <2>11, <2>13, <2>14 DEF CallInv
<1> QED  BY <1>5, <1>6, <1>7, <1>8, <1>9, <1>10, <1>11, CallSteps

(* What is shown stays right, or its answer is on its way, or was lost.    *)
LEMMA ScreenKept ==
  ASSUME Typed, ListenerInv, ViewInv, [Next]_vars
  PROVE  ScreenInv'
<1>0. screen \in Screen /\ screen.at \in Nat /\ clock \in Nat /\ newest \in Nat /\ clock' \in Nat
      /\ newest' \in Nat
  BY ScreenStaysTyped DEF Typed, Screen
<1>1. clock' \in {clock, clock + 1} /\ (clock' = clock => UNCHANGED <<row, state>>)  BY ClockTicks
<1>2. \A c \in Call : call[c].at <= clock  BY DEF ViewInv, CallInv
<1>3. /\ screen.at <= clock
      /\ screen.status = "ready" /\ screen.at = clock /\ "runtime" \notin heard => screen.shown = Truth
      /\ screen.status = "ready" /\ ~misled => RowsRight(screen.shown) \/ Pending(screen.at)
      /\ screen.status = "ready" /\ ~misled /\ "window" \notin unseen /\ events = << >> =>
           StatesRight(screen.shown)
  BY DEF ViewInv, ScreenInv
<1>4. HeardInv'
  <2>1. HeardInv  BY DEF ViewInv, ScreenInv, HeardInv
  <2> QED  BY <2>1, HeardKept
<1>5. (events' # << >> => "runtime" \in heard') /\ (screen'.status = "closed" => heard' = {})
  BY <1>4 DEF HeardInv
<1>6. row' = row /\ state' = state => Truth' = Truth  BY DEF Truth
<1>7. CASE Leave
  <2>1. screen'.status = "closed" /\ screen'.at = 0  BY <1>7 DEF Leave, Closed
  <2> QED  BY <1>0, <1>5, <2>1 DEF ScreenInv
<1>8. ASSUME NEW c \in Call, Apply(c) PROVE ScreenInv'
  <2>1. /\ call[c].stage = "answered" /\ call[c].mine
        /\ screen'.shown = call[c].shown /\ screen'.at = call[c].at
        /\ misled' = (call[c].at < newest)
        /\ UNCHANGED <<row, state, clock, heard, events, unseen>>
    BY <1>8 DEF Apply, listeners
  <2>2. call[c].at \in Nat /\ call[c].at <= clock  BY <1>2 DEF Typed, Calls
  <2>3. /\ call[c].at = clock => call[c].shown = Truth
        /\ RowsRight(call[c].shown) \/ newest > call[c].at \/ Pending(call[c].at)
        /\ newest <= call[c].at /\ "window" \notin unseen /\ (\A i \in DOMAIN events : events[i].at <= call[c].at)
             => StatesRight(call[c].shown)
    BY <2>1 DEF ViewInv, CallInv
  <2>4. screen'.at = clock' => screen'.shown = Truth'  BY <1>6, <2>1, <2>3
  <2>5. RowsRight(call[c].shown) => RowsRight(screen.shown)'  BY <2>1 DEF RowsRight
  <2>6. PICK a \in Nat : a = call[c].at  BY <2>2
  <2>7. ASSUME Pending(a) PROVE Pending(a)'
    <3>1. PICK d \in Call : call[d].stage # "idle" /\ call[d].at > a  BY <2>7 DEF Pending
    <3>2. call[d].at # a  BY <2>2, <2>6, <3>1
    <3>3. d # c  BY <2>6, <3>2
    <3>4. call'[d] = call[d]  BY <1>8, <3>3 DEF Apply, Forget, Typed
    <3> QED  BY <2>1, <3>1, <3>4 DEF Pending
  <2>8. ~misled' => newest <= call[c].at
    <3>1. ~misled' => ~(call[c].at < newest)  BY <2>1
    <3>2. ~(call[c].at < newest) => newest <= call[c].at  BY <1>0, <2>2
    <3> QED  BY <3>1, <3>2
  <2>9. Pending(a)' => Pending(screen.at)'  BY <2>1, <2>6 DEF Pending
  <2>10. ~misled' => RowsRight(screen.shown)' \/ Pending(screen.at)'
    <3>1. ~misled' => RowsRight(call[c].shown) \/ Pending(call[c].at)  BY <1>0, <2>2, <2>3, <2>8
    <3>2. Pending(call[c].at) => Pending(a)  BY <2>6
    <3> QED  BY <2>5, <2>7, <2>9, <3>1, <3>2
  <2>11. ~misled' /\ "window" \notin unseen' /\ events' = << >> => StatesRight(screen.shown)'
    <3>1. SUFFICES ASSUME ~misled', "window" \notin unseen', events' = << >> PROVE StatesRight(screen.shown)'
      OBVIOUS
    <3>2. StatesRight(call[c].shown)  BY <2>1, <2>3, <2>8, <3>1
    <3> QED  BY <2>1, <3>2 DEF StatesRight
  <2>12. screen'.at <= clock'  BY <2>1, <2>2
  <2> QED  BY <1>5, <2>4, <2>10, <2>11, <2>12 DEF ScreenInv
<1>9. ASSUME ~Leave, \A c \in Call : ~Apply(c) PROVE ScreenInv'
  <2>1. PICK l0 \in Listener : TRUE  BY ListenerAssumption
  <2>2. /\ screen'.at = screen.at
        /\ screen'.status = "ready" => screen.status = "ready"
        /\ misled => misled'
        /\ \A l \in Listener : /\ screen'.shown[l].on = screen.shown[l].on
                               /\ (screen'.shown[l].state = "none") = (screen.shown[l].state = "none")
    <3>1. CASE HandleRuntime  BY <2>1, <3>1, MergedShows
    <3>2. CASE ~HandleRuntime  BY <1>9, <3>2, ScreenSteps
    <3> QED  BY <3>1, <3>2
  <2>3. ~HandleRuntime => screen'.shown = screen.shown  BY <1>9, ScreenSteps
  <2>4. screen'.at <= clock'  BY <1>0, <1>1, <1>3, <2>2
  <2>5. ASSUME screen'.status = "ready", screen'.at = clock', "runtime" \notin heard'
        PROVE  screen'.shown = Truth'
    <3>1. "runtime" \notin heard
      <4>1. heard \subseteq heard'
        BY <1>9 DEF Next, System, User, vars, Subscribe, Work, Write, Look, Tell, Remove, ReadRows,
            ReadHealth, Ignore, Fail, Settle, Close,
                    EmitState, HandleRuntime, TrayWake, TrayApply, TrayFail, EmitDecision, HandleDecision,
                    Open, Click, Cascade, TrayStart, TrayStop, TrayClick, Publish
      <4> QED  BY <2>5, <4>1
    <3>2. ~HandleRuntime
      <4>1. events = << >>  BY <3>1 DEF ViewInv, ScreenInv
      <4> QED  BY <4>1 DEF HandleRuntime
    <3>3. screen.at = clock /\ clock' = clock  BY <1>0, <1>1, <1>3, <2>2, <2>5
    <3> QED  BY <1>1, <1>3, <1>6, <2>2, <2>3, <2>5, <3>1, <3>2, <3>3
  <2>6. ASSUME screen'.status = "ready", ~misled' PROVE RowsRight(screen.shown)' \/ Pending(screen.at)'
    <3>1. screen.status = "ready" /\ ~misled  BY <2>2, <2>6
    <3>2. PICK a \in Nat : a = screen.at  BY <1>0
    <3>3. Pending(a)' => Pending(screen.at)'  BY <2>2, <3>2 DEF Pending
    <3>4. ASSUME Pending(a) PROVE Pending(a)'
      <4>1. ~(screen.at > a)  BY <1>0, <3>2
      <4> QED  BY <1>2, <1>9, <2>6, <3>4, <4>1, PendingKept
    <3>5. ASSUME row' # row PROVE Pending(a)'
      <4>1. ~Cascade  BY <1>3, <2>6, <3>2, CascadeOvertakes
      <4> QED  BY <1>3, <3>2, <3>5, <4>1, RowChangePends
    <3>6. row' = row /\ RowsRight(screen.shown) => RowsRight(screen.shown)'
      BY <2>2 DEF RowsRight
    <3>7. RowsRight(screen.shown) \/ Pending(a)  BY <1>3, <3>1, <3>2
    <3> QED  BY <3>3, <3>4, <3>5, <3>6, <3>7
  <2>7. ASSUME screen'.status = "ready", ~misled', "window" \notin unseen', events' = << >>
        PROVE  StatesRight(screen.shown)'
    <3>1. screen.status = "ready" /\ ~misled  BY <2>2, <2>7
    <3>2. ASSUME StatesRight(screen.shown), screen'.shown = screen.shown, Starting
          PROVE  StatesRight(screen.shown)'
      BY <3>2 DEF StatesRight, Starting
    <3>3. CASE EmitState
      <4>1. "runtime" \notin heard /\ Lost(clock) /\ state' = state /\ screen' = screen
        BY <2>7, <3>3, EmitTells
      <4>2. ~(clock > screen.at)  BY <2>7, <4>1 DEF Lost
      <4>3. screen.at = clock  BY <1>0, <1>3, <4>2
      <4>4. screen.shown = Truth  BY <1>3, <3>1, <4>1, <4>3
      <4>5. StatesRight(screen.shown)  BY <4>4, TruthIsRight
      <4> QED  BY <3>2, <4>1, <4>5 DEF Starting
    <3>4. CASE HandleRuntime
      <4>1. unseen' = unseen /\ state' = state  BY <3>4 DEF HandleRuntime, listeners
      <4>2. 1 \in DOMAIN events /\ events # << >> /\ DOMAIN events' = 1..(Len(events) - 1) /\ Len(events) \in Nat
        BY <2>1, <3>4, MergedShows
      <4>3. Len(events) = 1
        <5>1. events \in Seq(Event)  BY DEF Typed
        <5>2. DOMAIN events' = {}  BY <2>7
        <5>3. Len(events) >= 1  BY <4>2, <5>1
        <5>4. ~(Len(events) > 1)
          <6>1. ASSUME Len(events) > 1 PROVE FALSE
            <7>1. 1 \in 1..(Len(events) - 1)  BY <4>2, <6>1
            <7> QED  BY <4>2, <5>2, <7>1
          <6> QED  BY <6>1
        <5>5. Len(events) \in Nat  BY <4>2
        <5>6. \A n \in Nat : n >= 1 /\ ~(n > 1) => n = 1  OBVIOUS
        <5> QED  BY <5>3, <5>4, <5>5, <5>6
      <4>4. SUFFICES ASSUME NEW l \in Listener, state'[l] # "Starting", screen'.shown[l].state # "none"
                     PROVE  screen'.shown[l].state = Known(state'[l], screen'.shown[l].on)
        BY DEF StatesRight
      <4>5. events[1].state[l] = state[l]
        BY <2>7, <4>1, <4>2, <4>3, <4>4 DEF ViewInv, LastEventRight
      <4>6. /\ screen'.shown[l].state = IF screen.shown[l].state = "none" \/ events[1].state[l] = "Unknown"
                                          THEN screen.shown[l].state ELSE events[1].state[l]
            /\ (screen'.shown[l].state = "none") = (screen.shown[l].state = "none")
            /\ screen'.shown[l].on = screen.shown[l].on
        BY <3>4, MergedShows
      <4>7. state[l] = "Unknown" => Unstarted(screen.shown[l])
        BY DEF ViewInv, NeverRan
      <4> QED  BY <4>1, <4>4, <4>5, <4>6, <4>7 DEF Known, Unstarted
    <3>5. CASE UNCHANGED events /\ ("window" \in unseen' <=> "window" \in unseen) /\ Starting
      <4>1. CASE HandleRuntime  BY <3>4, <4>1
      <4>2. CASE ~HandleRuntime
        <5>1. StatesRight(screen.shown)  BY <1>3, <2>7, <3>1, <3>5
        <5> QED  BY <2>3, <3>2, <3>5, <4>2, <5>1
      <4> QED  BY <4>1, <4>2
    <3> QED  BY <1>9, <2>7, <3>3, <3>4, <3>5, EventSteps
  <2> QED  BY <1>5, <2>4, <2>5, <2>6, <2>7 DEF ScreenInv
<1> QED  BY <1>7, <1>8, <1>9

LEMMA ViewKept ==
  ASSUME Typed, ListenerInv, ViewInv, [Next]_vars
  PROVE  ViewInv'
<1>1. \A l \in Listener : NeverRan(l)'  BY NeverRanKept DEF ViewInv
<1>2. LastEventRight'
  <2>1. LastEventRight /\ (events # << >> => "runtime" \in heard)  BY DEF ViewInv, ScreenInv
  <2> QED  BY <2>1, LastEventKept
<1>3. \A c \in Call : CallInv(c)'  BY CallKept
<1>4. ScreenInv'  BY ScreenKept
<1> QED  BY <1>1, <1>2, <1>3, <1>4 DEF ViewInv

LEMMA InitView == Init => ViewInv
<1> SUFFICES ASSUME Init PROVE ViewInv  OBVIOUS
<1>1. events = << >> /\ screen = Closed /\ heard = {} /\ clock = 0 /\ \A c \in Call : call[c] = NoCall
  BY DEF Init
<1>2. NoCall.stage = "idle" /\ NoCall.at = 0  BY DEF NoCall
<1>3. Closed.status = "closed" /\ Closed.at = 0 /\ \A l \in Listener : Closed.shown[l].state = "none"
  BY DEF Closed, NoListeners, Absent
<1>4. \A l \in Listener : NeverRan(l)  BY <1>1, <1>2, <1>3 DEF NeverRan, Unstarted
<1>5. LastEventRight  BY <1>1 DEF LastEventRight
<1>6. \A c \in Call : CallInv(c)  BY <1>1, <1>2 DEF CallInv
<1>7. ScreenInv  BY <1>1, <1>3 DEF ScreenInv
<1> QED  BY <1>4, <1>5, <1>6, <1>7 DEF ViewInv

(* With nothing under way, what is shown is the truth.                     *)
LEMMA ScreenTells ==
  ASSUME Typed, ListenerInv, ViewInv
  PROVE  OnlyOvertakingMisleads
<1>0. SUFFICES ASSUME Quiet, screen.status = "ready", ~misled PROVE screen.shown = Truth
  BY DEF OnlyOvertakingMisleads
<1>1. /\ "window" \notin unseen /\ events = << >>
      /\ \A c \in Call : call[c].stage = "idle"
      /\ \A l \in Listener : state[l] # "Starting"
  BY <1>0 DEF Quiet
<1>2. ~Pending(screen.at)  BY <1>1 DEF Pending
<1>3. RowsRight(screen.shown) /\ StatesRight(screen.shown)
  BY <1>0, <1>1, <1>2 DEF ViewInv, ScreenInv
<1>4. RowsRight(Truth) /\ StatesRight(Truth)  BY TruthIsRight
<1>5. screen.shown \in [Listener -> Shown] /\ Truth \in [Listener -> Shown]
  <2>1. screen.shown \in [Listener -> Shown]  BY DEF Typed, Screen
  <2>2. ASSUME NEW l \in Listener PROVE [on |-> row[l] = "on", state |-> View(row[l], state[l])] \in Shown
    <3>1. row[l] \in RowState /\ state[l] \in State  BY DEF Typed, ListenersTyped
    <3>2. View(row[l], state[l]) \in State \cup {"none"}  BY <3>1, ViewTyped
    <3> QED  BY <3>2 DEF Shown
  <2>3. Truth \in [Listener -> Shown]  BY <2>2 DEF Truth
  <2> QED  BY <2>1, <2>3
<1>6. ASSUME NEW l \in Listener PROVE screen.shown[l] = Truth[l]
  <2>1. screen.shown[l] \in Shown /\ Truth[l] \in Shown  BY <1>5
  <2>2. screen.shown[l].on = Truth[l].on /\ (screen.shown[l].state = "none") = (Truth[l].state = "none")
    BY <1>3, <1>4 DEF RowsRight
  <2>3. screen.shown[l].state # "none" => screen.shown[l].state = Truth[l].state
    BY <1>1, <1>3, <1>4, <2>2 DEF StatesRight
  <2>4. screen.shown[l].state = Truth[l].state  BY <2>2, <2>3
  <2> QED  BY <2>1, <2>2, <2>4 DEF Shown
<1> HIDE DEF Truth
<1> QED  BY <1>5, <1>6

-----------------------------------------------------------------------------
(***************************************************************************)
(* The theorems.                                                           *)
(***************************************************************************)

(* IInv is an inductive invariant of the console.                          *)
THEOREM Inductive == Spec => []IInv
<1>1. Init => IInv
  BY InitTyped, InitListeners, InitTray, InitStream, InitDropped, InitView DEF IInv
<1>2. IInv /\ [Next]_vars => IInv'
  <2>1. SUFFICES ASSUME IInv, [Next]_vars PROVE IInv'  OBVIOUS
  <2>2. Typed /\ ListenerInv /\ TrayInv /\ StreamInv /\ DroppedInv /\ ViewInv  BY <2>1 DEF IInv
  <2>3. Typed'  BY <2>1, <2>2, Types
  <2>4. ListenerInv'  BY <2>1, <2>2, ListenersKept
  <2>5. TrayInv'  BY <2>1, <2>2, TrayKept
  <2>6. StreamInv'  BY <2>1, <2>2, StreamKept
  <2>7. DroppedInv'  BY <2>1, <2>2, DroppedKept
  <2>8. ViewInv'  BY <2>1, <2>2, ViewKept
  <2> QED  BY <2>3, <2>4, <2>5, <2>6, <2>7, <2>8 DEF IInv
<1> QED  BY <1>1, <1>2, PTL DEF Spec

(* Rows, states, streams and screen have the types of the code, no queue   *)
(* or feed outgrows its limit, and only what is active is asked to stop.   *)
THEOREM ConsoleTyped == Spec => []TypeOK
<1>1. IInv => TypeOK
  <2>1. SUFFICES ASSUME IInv PROVE TypeOK  OBVIOUS
  <2>2. Typed /\ ListenerInv /\ StreamInv  BY <2>1 DEF IInv
  <2>3. row \in [Listener -> RowState] /\ state \in [Listener -> State]
        /\ unseen \subseteq {"window", "tray"} /\ heard \subseteq {"decision", "runtime"}
    BY <2>2 DEF Typed, ListenersTyped
  <2>4. screen.status \in {"closed", "loading", "ready", "failed"}  BY <2>2 DEF Typed, Screen
  <2>5. \A l \in Listener : asked[l] => Active(l)  BY <2>2 DEF ListenerInv
  <2>6. Len(queue) <= QueueCapacity  BY <2>2 DEF StreamInv
  <2>7. Len(feed) <= FeedLimit
    <3>1. received \in Seq(Nat) /\ feed \in Seq(Nat)  BY <2>2 DEF Typed, StreamTyped
    <3>2. DOMAIN feed = 1..(IF Len(received) < FeedLimit THEN Len(received) ELSE FeedLimit)
      BY <2>2 DEF StreamInv
    <3>3. Len(feed) = IF Len(received) < FeedLimit THEN Len(received) ELSE FeedLimit
      BY <3>1, <3>2, LimitsAssumption
    <3> QED  BY <3>1, <3>3, LimitsAssumption
  <2> QED  BY <2>3, <2>4, <2>5, <2>6, <2>7 DEF TypeOK
<1> QED  BY <1>1, Inductive, PTL

(* The feed shows the latest decisions the screen got, newest first, none  *)
(* twice, and no older one comes.                                          *)
THEOREM FeedShowsTheLatest == Spec => []FeedIsRecent
<1>1. IInv => FeedIsRecent  BY FeedTells DEF IInv
<1> QED  BY <1>1, Inductive, PTL

(* The number of missed decisions never counts one that is shown or may    *)
(* still be shown.                                                         *)
THEOREM MissedCountIsHonest == Spec => []MissedIsMissed
<1>1. IInv => MissedIsMissed  BY MissedTells DEF IInv
<1> QED  BY <1>1, Inductive, PTL

(* Once nothing is under way the tray's menu tells the number of running   *)
(* listeners, and that of enabled ones unless a row was changed silently   *)
(* since it was told last.                                                 *)
THEOREM TrayEndsUpRight == Spec => []TrayMissesOnlySilentChanges
<1>1. IInv => TrayMissesOnlySilentChanges  BY TrayTells DEF IInv
<1> QED  BY <1>1, Inductive, PTL

(* Once nothing is under way the screen shows the truth, unless its last   *)
(* whole answer was overtaken.                                             *)
THEOREM ScreenEndsUpTrue == Spec => []OnlyOvertakingMisleads
<1>1. IInv => OnlyOvertakingMisleads  BY ScreenTells DEF IInv
<1> QED  BY <1>1, Inductive, PTL
=============================================================================
