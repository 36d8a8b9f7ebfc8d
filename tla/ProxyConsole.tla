--------------------------- MODULE ProxyConsole ---------------------------
(***************************************************************************)
(* What the user sees of the proxy: the proxy screen of the window         *)
(* (useProxyConsole.ts), the tray's menu (tray.rs), and the two streams    *)
(* that feed them from the backend, runtime state and decisions (lib.rs,   *)
(* proxy_view.rs, publish of proxy/mod.rs).                                *)
(*                                                                         *)
(* Answers of commands travel on their own, each in its own time; events   *)
(* of one stream arrive in the order they were emitted.  A command of the  *)
(* window takes a step per access to the store or the runtime and may fail *)
(* between them; a click in the tray is one step (ListenerConfig has its   *)
(* steps), and so is a state change with its announcement (StateViews).    *)
(***************************************************************************)
EXTENDS Naturals, Sequences, FiniteSets

CONSTANTS Listener,
          Call,            \* commands under way at a time
          QueueCapacity,   \* decision_queue_capacity
          FeedLimit,       \* DECISION_FEED_LIMIT
          MaxVisits,       \* bound: times the screen is opened
          MaxInputs        \* bound: these, clicks and decisions published

ASSUME ListenerAssumption == IsFiniteSet(Listener) /\ Listener # {}

ASSUME LimitsAssumption == QueueCapacity \in Nat /\ FeedLimit \in Nat

VARIABLES
  row, state, asked,   \* the listeners: row, runtime state, asked to stop
  unseen,              \* subscribers with an unseen generation
  events,              \* runtime views on their way to the window
  call,                \* commands under way
  screen,              \* the state of useProxyConsole
  heard,               \* the events it is subscribed to
  tray,                \* the menu, and the task that keeps it
  made, queue, dropped, posted,   \* decisions: published, mpsc, counter, events
  feed, received,      \* decisions of the screen, newest first; those it got, in order
  clock, newest, misled,          \* history of the screen, see below
  unread, silent,                 \* history of the tray, see below
  clicks, visits

listeners == <<row, state, asked>>
stream == <<made, queue, dropped, posted, feed, received>>
owed == <<unread, silent>>
history == <<clock, newest, misled, unread, silent>>
bounds == <<clicks, visits>>
vars == <<listeners, unseen, events, call, screen, heard, tray, stream, history, bounds>>

RowState == {"absent", "off", "on", "gone"}
Stored(r) == r \in {"off", "on"}
State == {"Unknown", "Starting", "Running", "Failed", "Stopped"}
Active(l) == state[l] \in {"Starting", "Running"}
Coming(s, a) == s = "Starting" \/ a      \* a state change will be announced
Room == clicks + visits + made < MaxInputs
Larger(a, b) == IF a > b THEN a ELSE b

-----------------------------------------------------------------------------
(* build_status: what is shown of a listener, given its row and what the   *)
(* runtime knows of it.                                                    *)

View(r, s) ==
  IF ~Stored(r) THEN "none"
  ELSE IF s # "Unknown" THEN s
  ELSE IF r = "on" THEN "Starting"
  ELSE "Stopped"

Truth == [l \in Listener |-> [on |-> row[l] = "on", state |-> View(row[l], state[l])]]

Absent == [on |-> FALSE, state |-> "none"]
NoListeners == [l \in Listener |-> Absent]
NoCall == [stage |-> "idle", op |-> "load", listener |-> CHOOSE l \in Listener : TRUE,
           mine |-> TRUE, rows |-> [l \in Listener |-> "absent"],
           shown |-> NoListeners, dropped |-> 0, at |-> 0]

Closed == [status |-> "closed", shown |-> NoListeners, dropped |-> 0, at |-> 0]

(* setup has created the tray and then started the enabled listeners.      *)
Init ==
  /\ row \in [Listener -> {"absent", "off", "on"}]
  /\ state = [l \in Listener |-> IF row[l] = "on" THEN "Starting" ELSE "Unknown"]
  /\ asked = [l \in Listener |-> FALSE]
  /\ unseen = {}
  /\ events = << >>
  /\ call = [c \in Call |-> NoCall]
  /\ screen = Closed
  /\ heard = {}
  /\ tray = [stage |-> "waiting", enabled |-> Cardinality({l \in Listener : row[l] = "on"}),
             running |-> 0, read |-> 0, failed |-> FALSE]
  /\ made = 0 /\ queue = << >> /\ dropped = 0 /\ posted = << >>
  /\ feed = << >> /\ received = << >>
  /\ clock = 0 /\ newest = 0 /\ misled = FALSE /\ unread = {} /\ silent = FALSE
  /\ clicks = 0 /\ visits = 0

-----------------------------------------------------------------------------
(* The screen is opened and left: App mounts one screen at a time.  The    *)
(* answers to a screen that is left are ignored, and the events addressed  *)
(* to its handlers are not heard by those of the next one.                 *)

Begin(c, op, l) ==
  /\ call[c].stage = "idle"
  /\ c = CHOOSE d \in Call : call[d].stage = "idle"
  /\ call' = [call EXCEPT ![c] = [NoCall EXCEPT !.stage = IF op = "load" THEN "listing" ELSE "called",
                                                 !.op = op, !.listener = l]]

Open(c) ==
  /\ screen.status = "closed"
  /\ visits < MaxVisits /\ Room
  /\ visits' = visits + 1
  /\ screen' = [screen EXCEPT !.status = "loading"]
  /\ Begin(c, "load", NoCall.listener)
  /\ UNCHANGED <<listeners, unseen, events, heard, tray, stream, history, clicks>>

Subscribe(kind) ==
  /\ screen.status # "closed"
  /\ kind \notin heard
  /\ heard' = heard \cup {kind}
  /\ UNCHANGED <<listeners, unseen, events, call, screen, tray, stream, history, bounds>>

Leave ==
  /\ screen.status # "closed"
  /\ screen' = Closed
  /\ heard' = {}
  /\ events' = << >> /\ posted' = << >>
  /\ feed' = << >> /\ received' = << >>
  /\ call' = [c \in Call |-> IF call[c].stage = "idle" THEN NoCall
                                                       ELSE [call[c] EXCEPT !.mine = FALSE]]
  /\ newest' = 0 /\ misled' = FALSE
  /\ UNCHANGED <<listeners, unseen, tray, made, queue, dropped, clock, owed, bounds>>

(* A button of the screen: it acts on what is shown. *)
Click(c, op, l) ==
  /\ screen.status = "ready"
  /\ Room
  /\ clicks' = clicks + 1
  /\ \/ /\ op = "create" /\ row[l] = "absent"
        /\ \A d \in Call : ~(call[d].op = "create" /\ call[d].listener = l)
     \/ op \in {"enable", "disable"} /\ screen.shown[l].state # "none"
                                     /\ screen.shown[l].on = (op = "disable")
     \/ op = "delete" /\ screen.shown[l].state # "none"
  /\ Begin(c, op, l)
  /\ UNCHANGED <<listeners, unseen, events, screen, heard, tray, stream, history, visits>>

-----------------------------------------------------------------------------
(* Commands. *)

(* What an answer or an event that nobody got would have told is news,     *)
(* unless the answer on the screen is as recent.                           *)
Lost(at) ==
  /\ misled' = (misled \/ at > screen.at)
  /\ newest' = Larger(newest, at)

(* The command is done with its listener.  If the tray has not read the    *)
(* row it changed, only an announcement still to come makes it read it.    *)
LeaveRow(c) ==
  LET l == call[c].listener IN
  /\ unread' = unread \ {c}
  /\ silent' = (silent \/ (c \in unread /\ ~Coming(state'[l], asked'[l])))

(* create inserts a row of its own, set_enabled marks the row it finds.    *)
Write(c) ==
  LET l == call[c].listener
      op == call[c].op
  IN
  /\ call[c].stage = "called" /\ op # "delete"
  /\ IF op = "create" THEN row[l] = "absent" ELSE Stored(row[l])
  /\ row' = [row EXCEPT ![l] = IF op = "enable" THEN "on" ELSE "off"]
  /\ unread' = IF (row[l] = "on") = (op = "enable") THEN unread ELSE unread \cup {c}
  /\ clock' = clock + 1
  /\ call' = [call EXCEPT ![c].stage = IF op = "create" THEN "listing" ELSE "marked",
                          ![c].at = clock + 1]
  /\ UNCHANGED <<state, asked, unseen, events, screen, heard, tray, stream, newest, misled, silent, bounds>>

(* set_enabled reads the marked row again, delete looks for its row.       *)
Look(c) ==
  /\ call[c].stage = IF call[c].op = "delete" THEN "called" ELSE "marked"
  /\ Stored(row[call[c].listener])
  /\ call' = [call EXCEPT ![c].stage = "found"]
  /\ UNCHANGED <<listeners, unseen, events, screen, heard, tray, stream, history, bounds>>

(* The runtime is told to start or to stop.  A start is ignored while the  *)
(* listener is active.                                                     *)
Tell(c) ==
  LET l == call[c].listener
      starts == call[c].op = "enable" /\ ~Active(l)
      stops == call[c].op # "enable" /\ Active(l)
  IN
  /\ call[c].stage = "found"
  /\ state' = IF starts THEN [state EXCEPT ![l] = "Starting"] ELSE state
  /\ asked' = IF stops THEN [asked EXCEPT ![l] = TRUE] ELSE asked
  /\ clock' = IF starts THEN clock + 1 ELSE clock
  /\ LeaveRow(c)
  /\ call' = [call EXCEPT ![c].stage = IF call[c].op = "delete" THEN "told" ELSE "listing"]
  /\ UNCHANGED <<row, unseen, events, screen, heard, tray, stream, newest, misled, bounds>>

(* delete removes the row once the stop is signalled. *)
Remove(c) ==
  LET l == call[c].listener IN
  /\ call[c].stage = "told" /\ Stored(row[l])
  /\ row' = [row EXCEPT ![l] = "gone"]
  /\ silent' = (silent \/ (row[l] = "on" /\ ~Coming(state[l], asked[l])))
  /\ clock' = clock + 1
  /\ call' = [call EXCEPT ![c].stage = "listing", ![c].at = clock + 1]
  /\ UNCHANGED <<state, asked, unseen, events, screen, heard, tray, stream, newest, misled, unread, bounds>>

(* A command of the policy screen deletes a profile: the rows of its       *)
(* listeners go with it, and nobody is told.                               *)
Cascade ==
  \E gone \in (SUBSET {l \in Listener : Stored(row[l])}) \ {{}} :
    /\ row' = [l \in Listener |-> IF l \in gone THEN "gone" ELSE row[l]]
    /\ silent' = (silent \/ \E l \in gone : row[l] = "on" /\ ~Coming(state[l], asked[l]))
    /\ clock' = clock + 1
    /\ Lost(clock + 1)
  /\ Room
  /\ clicks' = clicks + 1
  /\ UNCHANGED <<state, asked, unseen, events, call, screen, heard, tray, stream, unread, visits>>

(* The command's work on the store and the runtime. *)
Work(c) == Write(c) \/ Look(c) \/ Tell(c) \/ Remove(c)

ReadRows(c) ==
  /\ call[c].stage = "listing"
  /\ call' = [call EXCEPT ![c].stage = "reading", ![c].rows = row, ![c].at = clock]
  /\ UNCHANGED <<listeners, unseen, events, screen, heard, tray, stream, history, bounds>>

ReadHealth(c) ==
  /\ call[c].stage = "reading"
  /\ call' = [call EXCEPT
       ![c].stage = "answered", ![c].rows = NoCall.rows,
       ![c].shown = [l \in Listener |->
          [on |-> call[c].rows[l] = "on", state |-> View(call[c].rows[l], state[l])]],
       ![c].dropped = dropped]
  /\ UNCHANGED <<listeners, unseen, events, screen, heard, tray, stream, history, bounds>>

Forget(c) == call' = [call EXCEPT ![c] = NoCall]

(* Faulty: the counter of the backend is added up. *)
ApplyAndAdd(c) ==
  /\ call[c].stage = "answered" /\ call[c].mine
  /\ screen' = [status |-> "ready", shown |-> call[c].shown,
                dropped |-> screen.dropped + call[c].dropped, at |-> call[c].at]
  /\ misled' = (call[c].at < newest)
  /\ newest' = Larger(newest, call[c].at)
  /\ Forget(c)
  /\ UNCHANGED <<listeners, unseen, events, heard, tray, stream, clock, owed, bounds>>

(* applyStatus *)
Apply(c) ==
  /\ call[c].stage = "answered" /\ call[c].mine
  /\ screen' = [status |-> "ready", shown |-> call[c].shown,
                dropped |-> call[c].dropped, at |-> call[c].at]
  /\ misled' = (call[c].at < newest)
  /\ newest' = Larger(newest, call[c].at)
  /\ Forget(c)
  /\ UNCHANGED <<listeners, unseen, events, heard, tray, stream, clock, owed, bounds>>

Ignore(c) ==
  /\ call[c].stage = "answered" /\ ~call[c].mine
  /\ Forget(c)
  /\ Lost(call[c].at)
  /\ UNCHANGED <<listeners, unseen, events, screen, heard, tray, stream, clock, owed, bounds>>

(* The row is missing or an access to the store fails: the command is      *)
(* answered by an error, what it wrote stays written and the runtime is    *)
(* not told.  Only a load shows the failure in its place.                  *)
Fail(c) ==
  /\ call[c].stage \in {"called", "marked", "told", "listing"}
  /\ Forget(c)
  /\ Lost(call[c].at)
  /\ screen' = IF call[c].mine /\ call[c].op = "load"
                 THEN [screen EXCEPT !.status = "failed"] ELSE screen
  /\ UNCHANGED <<state, asked>>
  /\ LeaveRow(c)
  /\ UNCHANGED <<row, unseen, events, heard, tray, stream, clock, bounds>>

-----------------------------------------------------------------------------
(* The runtime, and its state on its way to the window. *)

(* Faulty: the tray is not told. *)
AnnounceToWindow == unseen' = unseen \cup {"window"} /\ clock' = clock + 1

Announce == unseen' = {"window", "tray"} /\ clock' = clock + 1

Settle(l) ==
  /\ state[l] = "Starting"
  /\ \E s \in {"Running", "Failed"} : state' = [state EXCEPT ![l] = s]
  /\ asked' = [asked EXCEPT ![l] = @ /\ state'[l] = "Running"]
  /\ Announce
  /\ UNCHANGED <<row, events, call, screen, heard, tray, stream, newest, misled, owed, bounds>>

Close(l) ==
  /\ Active(l) /\ asked[l]
  /\ state' = [state EXCEPT ![l] = "Stopped"]
  /\ asked' = [asked EXCEPT ![l] = FALSE]
  /\ Announce
  /\ UNCHANGED <<row, events, call, screen, heard, tray, stream, newest, misled, owed, bounds>>

EmitState ==
  /\ "window" \in unseen
  /\ unseen' = unseen \ {"window"}
  /\ IF "runtime" \in heard
       THEN /\ events' = Append(events, [state |-> state, dropped |-> dropped, at |-> clock])
            /\ UNCHANGED <<newest, misled>>
       ELSE UNCHANGED events /\ Lost(clock)
  /\ UNCHANGED <<listeners, call, screen, heard, tray, stream, clock, owed, bounds>>

(* Faulty: a state shown as failed or stopped is kept. *)
MergedUnlessSettled(view) ==
  [l \in Listener |->
     IF screen.shown[l].state \in {"none", "Failed", "Stopped"} \/ view.state[l] = "Unknown"
       THEN screen.shown[l]
       ELSE [screen.shown[l] EXCEPT !.state = view.state[l]]]

(* mergeRuntimeState: only listeners already shown, only their state.      *)
Merged(view) ==
  [l \in Listener |->
     IF screen.shown[l].state = "none" \/ view.state[l] = "Unknown"
       THEN screen.shown[l]
       ELSE [screen.shown[l] EXCEPT !.state = view.state[l]]]

HandleRuntime ==
  /\ events # << >>
  /\ events' = Tail(events)
  /\ screen' = [screen EXCEPT !.shown = Merged(Head(events)), !.dropped = Head(events).dropped]
  /\ newest' = Larger(newest, Head(events).at)
  /\ UNCHANGED <<listeners, unseen, call, heard, tray, stream, clock, misled, owed, bounds>>

-----------------------------------------------------------------------------
(* The tray: a task reads rows, then health, and sets the menu. *)

Running == {l \in Listener : state[l] = "Running"}
Enabled == {l \in Listener : row[l] = "on"}

CanStart == tray.enabled > 0 /\ tray.running = 0
CanStop == tray.running > 0

TrayWake ==
  /\ tray.stage = "waiting" /\ "tray" \in unseen
  /\ unseen' = unseen \ {"tray"}
  /\ tray' = [tray EXCEPT !.stage = "reading", !.read = Cardinality(Enabled)]
  /\ unread' = {} /\ silent' = FALSE
  /\ UNCHANGED <<listeners, events, call, screen, heard, stream, clock, newest, misled, bounds>>

TrayApply ==
  /\ tray.stage = "reading"
  /\ tray' = [stage |-> "waiting", enabled |-> tray.read, running |-> Cardinality(Running),
              read |-> 0, failed |-> FALSE]
  /\ UNCHANGED <<listeners, unseen, events, call, screen, heard, stream, history, bounds>>

(* TrayStatus::default, when the rows cannot be read. *)
TrayFail ==
  /\ tray.stage = "reading"
  /\ tray' = [stage |-> "waiting", enabled |-> 0, running |-> 0, read |-> 0, failed |-> TRUE]
  /\ UNCHANGED <<listeners, unseen, events, call, screen, heard, stream, history, bounds>>

TrayClick ==
  /\ Room
  /\ clicks' = clicks + 1
  /\ UNCHANGED <<row, unseen, events, call, screen, heard, tray, stream, newest, misled, owed, visits>>

TrayStart ==
  /\ CanStart
  /\ state' = [l \in Listener |-> IF l \in Enabled /\ ~Active(l) THEN "Starting" ELSE state[l]]
  /\ clock' = clock + 1
  /\ UNCHANGED asked
  /\ TrayClick

TrayStop ==
  /\ CanStop
  /\ asked' = [l \in Listener |-> Active(l)]
  /\ UNCHANGED <<state, clock>>
  /\ TrayClick

-----------------------------------------------------------------------------
(* Decisions. *)

(* try_send: a full queue refuses the newest. *)
Publish ==
  /\ Room
  /\ made' = made + 1
  /\ IF Len(queue) < QueueCapacity
       THEN queue' = Append(queue, made + 1) /\ UNCHANGED dropped
       ELSE dropped' = dropped + 1 /\ UNCHANGED queue
  /\ UNCHANGED <<listeners, unseen, events, call, screen, heard, tray, posted, feed, received, history, bounds>>

EmitDecision ==
  /\ queue # << >>
  /\ queue' = Tail(queue)
  /\ posted' = IF "decision" \in heard THEN Append(posted, Head(queue)) ELSE posted
  /\ UNCHANGED <<listeners, unseen, events, call, screen, heard, tray, made, dropped, feed, received, history, bounds>>

(* Faulty: decisions are added at the end and the newest cut off. *)
AppendDecision(f, d) == SubSeq(Append(f, d), 1, IF Len(f) < FeedLimit THEN Len(f) + 1 ELSE FeedLimit)

(* Faulty: the feed is not cut. *)
PrependWithoutLimit(f, d) == <<d>> \o f

PrependDecision(f, d) == SubSeq(<<d>> \o f, 1, IF Len(f) < FeedLimit THEN Len(f) + 1 ELSE FeedLimit)

HandleDecision ==
  /\ posted # << >>
  /\ posted' = Tail(posted)
  /\ feed' = PrependDecision(feed, Head(posted))
  /\ received' = Append(received, Head(posted))
  /\ UNCHANGED <<listeners, unseen, events, call, screen, heard, tray, made, queue, dropped, history, bounds>>

(* feedEvicted, missedDecisions. *)
Evicted == IF Len(received) > FeedLimit THEN Len(received) - FeedLimit ELSE 0
Missed == screen.dropped + Evicted

-----------------------------------------------------------------------------
System ==
  \/ \E kind \in {"decision", "runtime"} : Subscribe(kind)
  \/ \E c \in Call : \/ Work(c) \/ ReadRows(c) \/ ReadHealth(c)
                     \/ Apply(c) \/ Ignore(c) \/ Fail(c)
  \/ \E l \in Listener : Settle(l) \/ Close(l)
  \/ EmitState \/ HandleRuntime
  \/ TrayWake \/ TrayApply \/ TrayFail
  \/ EmitDecision \/ HandleDecision

User ==
  \/ \E c \in Call : Open(c)
  \/ \E c \in Call, l \in Listener, op \in {"create", "enable", "disable", "delete"} : Click(c, op, l)
  \/ Leave \/ Cascade
  \/ TrayStart \/ TrayStop
  \/ Publish

Next == System \/ User

Spec == Init /\ [][Next]_vars

-----------------------------------------------------------------------------
TypeOK ==
  /\ row \in [Listener -> RowState]
  /\ state \in [Listener -> State]
  /\ \A l \in Listener : asked[l] => Active(l)
  /\ unseen \subseteq {"window", "tray"}
  /\ heard \subseteq {"decision", "runtime"}
  /\ screen.status \in {"closed", "loading", "ready", "failed"}
  /\ Len(queue) <= QueueCapacity
  /\ Len(feed) <= FeedLimit

(* Nothing is under way that the window or the tray would hear of. *)
Quiet ==
  /\ unseen = {} /\ events = << >> /\ tray.stage = "waiting"
  /\ \A c \in Call : call[c].stage = "idle"
  /\ \A l \in Listener : state[l] # "Starting" /\ ~asked[l]

(* The screen ends up with what is true, unless the last whole answer was  *)
(* overtaken: read before a change whose event or answer came first, or    *)
(* followed by a change whose event nobody listened to or whose command    *)
(* failed to read the rows again, or by the deletion of a profile.  No     *)
(* other interleaving of answers, merges and lost generations misleads it. *)
OnlyOvertakingMisleads ==
  (Quiet /\ screen.status = "ready" /\ ~misled) => screen.shown = Truth

(* The menu ends up with the number of running listeners, and with that of *)
(* enabled ones unless a row was changed silently since it was told last:  *)
(* by a command that found nothing to start or stop, failed after the mark *)
(* or removed the row after the stop was announced, or with its profile.   *)
(* No other interleaving of commands, announcements and readings leaves it *)
(* stale.                                                                  *)
TrayMissesOnlySilentChanges ==
  (Quiet /\ ~tray.failed) =>
    /\ tray.running = Cardinality(Running)
    /\ tray.enabled = Cardinality(Enabled) \/ silent

(* The feed is the latest decisions the screen got, newest first; it got   *)
(* none twice and none out of order, and an older one will not come.       *)
FeedIsRecent ==
  /\ feed = [i \in 1..(IF Len(received) < FeedLimit THEN Len(received) ELSE FeedLimit) |->
               received[Len(received) + 1 - i]]
  /\ LET all == received \o posted \o queue IN
       \A i, j \in DOMAIN all : i < j => all[i] < all[j]

(* What the screen calls missed is missed: the count never covers a        *)
(* decision that it shows or may still show, however answers and events    *)
(* with the absolute counter of the backend are interleaved.               *)
MissedIsMissed ==
  Missed + Len(feed) + Len(posted) + Len(queue) <= made
=============================================================================
