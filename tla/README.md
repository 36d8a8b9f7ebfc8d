# EgressKeeper: verification project

EgressKeeper is a desktop application (Rust core, Tauri shell, TypeScript UI)
that runs local HTTP proxies. Each configured *listener* binds a loopback port
and lets a request through only when the *policy profile* it is bound to allows
the request's host and port. Everything that fails on the way to a decision
denies. This directory holds TLA+ models of that program, the TLC
configurations that check them and machine-checked proofs about them.

Paths below are relative to the repository; `core/` stands for
`crates/egresskeeper-core/src/`.

## 1. Inventory

| component | code | state it keeps | operations | modelled in |
|---|---|---|---|---|
| Proxy runtime | `core/infrastructure/proxy/mod.rs`, `server.rs` (`run_listener`) | map of listener handles (state, shutdown channel, task), one background task per start, a watch channel with a counter of state changes | `start_listener`, `stop_listener`, `shutdown`, `health`, `is_active`; the task: await predecessor, bind, accept, drain, publish | `ProxyRuntime` (promise: `ListenerStatus`) |
| Subscribers of runtime state | `src-tauri/src/lib.rs` (`spawn_runtime_forwarder`, `spawn_tray`), `proxy_view.rs` | the last picture shown by window and tray | wait for a change, read `health()`, show | `StateViews`; the tray's menu and what the window makes of the events in `ProxyConsole` |
| Connections and tunnels | `server.rs` (accept loop, `serve_connection`, `handle_request`, `handle_connect`, `handle_forward`, `TunnelRegistry`), `policy_source.rs` | semaphore, counter of active connections, JoinSet of connection tasks, registry of tunnel tasks | accept or refuse, read a request, load a policy snapshot, decide, connect, hand over, shut down | `ListenerConnections` |
| Listener configuration | `core/application/listeners.rs`, `core/infrastructure/sqlite/listeners.rs`, `src-tauri/src/commands/proxy.rs`, `state.rs` | table `listeners` | create, update, set_enabled, delete, start of the enabled ones, stop of all, restart of the application | `ListenerConfig` |
| Policy store and service | `core/application/policy.rs`, `core/infrastructure/sqlite/repository.rs`, `core/domain/policy/entities.rs` | tables `profiles`, `rules` (positions are unique per profile) | profiles: create, rename, default action, delete; rules: add, update, delete, reorder; evaluate (in `PolicyDecision`) | `PolicyStore` (promise: `PolicyBook`); the cascade of `delete_profile` over listeners in `ListenerConfig` |
| Policy decision | `core/domain/policy/{decision,host,port}.rs`, `core/domain/proxy/outcome.rs` | none | first match over ordered rules, host patterns, port matchers, loopback targets | `HostName`, `PolicyDecision`; a loopback target is a kind of request in `ListenerConnections` |
| Decision stream | `mod.rs` (`Inner::publish`), `lib.rs` (`spawn_decision_forwarder`), `useProxyConsole.ts` | bounded queue, counter of dropped decisions, the feed of the screen | publish without waiting, forward to the window, keep the latest | `ProxyConsole` |
| Store and migrations | `core/infrastructure/sqlite/{store,migrations}.rs` | schema version, tables, default profile | open, migrate one transaction at a time, seed | `StoreOpening` |
| Shell lifecycle | `src-tauri/src/{lib,tray,lifecycle,state,settings_view}.rs`, `core/application/settings.rs` | window visibility, tray availability, behaviour on close | setup, close, show, exit, read and change settings | `Shell` |
| Autostart | `src-tauri/src/autostart.rs` | kept by the operating system | attach, read, set | `Shell` |
| Console UI | `src/features/proxy/useProxyConsole.ts` | lists merged from command answers, the initial load and events | commands, event handlers | `ProxyConsole` |
| Settings and runtime screens | `src/features/{settings,runtime}`, `src/App.tsx` | the values last answered; starting, ready or failed | load, change; subscribe, ask, retry | `Shell` |
| Runtime overview, state directory | `core/application/runtime_info.rs`, `core/infrastructure/fs_state_dir.rs` | the result of the start | create the directory once, answer for ever | `StoreOpening`, `Shell` |
| Policy editor | `src/features/policy/usePolicyEditor.ts` | selected profile, its rules | reload after every mutation | not modelled |
| IPC contract, navigation policy | `src-tauri/src/{ipc,navigation}.rs`, `src/ipc` | none | data formats, a fixed list of URLs | not modelled |

How they interact. A command of the UI runs on a blocking thread, goes through
a service of `core/application`, reads and writes the store under the mutex of
its one connection, and calls the runtime, which holds the mutex of the handle
map for one call only. Commands run concurrently, with each other and with the
tray's. A call of the runtime never waits for the task it starts
or signals. The task publishes its state in the handle and then bumps the watch
channel; window and tray wake, read `health()` and show it. A request of a proxy
client reads the policy from the store on the blocking pool. Nothing else
connects configuration and runtime: in particular deleting a profile removes
listener rows by `ON DELETE CASCADE` without a word to the runtime.

What is hard about it, component by component, and what makes it correct:

* **Runtime.** Stop is a signal, not a join; a restart spawns a task while the
  old one may still hold the port; state, socket and handle change at different
  moments. Correct: a restart never collides with its own past, no task that
  serves is out of reach, what `health()` reports is true, a signal given at any
  point takes effect.
* **Subscribers.** A watch channel coalesces, `health()` reads the handles one by
  one, several tasks bump the counter. Correct: whoever waits shows the truth,
  and everybody catches up.
* **Connections.** Tasks are aborted at their awaits, tunnels outlive the
  connections that spawn them, the policy changes while a snapshot is read.
  Correct: nothing but an allowed request reaches a target, permits and counters
  balance, a shutdown leaves nothing behind and always ends.
* **Configuration.** A command is a sequence of store accesses and runtime calls;
  commands race, fail half-way and are cut off by the end of the process.
  Correct: what runs is what is configured.
* **Policy.** Positions, reordering in a transaction, rules and profile read in
  two accesses. Correct: the order of rules is total and survives failures, a
  decision is one that a single version of the policy gives.
* **Decision of a policy.** A host is compared as a text, so that its normal form
  is all there is between a rule and the name a client sends. Correct: a stored form
  is final, ways of writing a name agree, a matcher of subdomains stops at labels, an
  answer was true at some moment.
* **Console.** Answers of commands, state events and decisions travel apart, each
  in its own order; the screen mounts and unmounts between them. Correct: when
  everything has arrived the screen and the tray show what is true, and decisions
  that are not shown are counted at most once.
* **Store.** Two processes may open one file and be killed at any step. Correct: a
  start that is alone always succeeds, processes that start together never leave
  each other all without a store, the first profile is created once.
* **Shell.** Setting, tray and window are read at different moments by different
  parties. Correct: closing does what the settings screen says, and a window is
  hidden only if something can bring it back; what the page has shown of the
  backend is not taken back.

`PROJECT.json` lists every hazard at its line with the properties that cover it.

## 2. Modules

```
 ListenerStatus            what the runtime promises
   ^ implemented by    ^ used by (INSTANCE)
 ProxyRuntime          ListenerConfig <- MCListenerConfig
   ^ EXTENDS
 StateViews            ListenerConnections <- MCListenerConnections

 PolicyBook                what the policy store promises
   ^ implemented by
 PolicyStore <- MCPolicyStore

 HostName                  StoreOpening
   ^ EXTENDS                 ^ EXTENDS
 PolicyDecision            Shell <- MCShell          ProxyConsole
   ^ EXTENDS
 MCPolicyDecision
```

The proofs about a module `M` are in `MProofs`, which EXTENDS it:
`ProxyRuntimeProofs`, `StateViewsProofs` (which also EXTENDS `ProxyRuntimeProofs`),
`ListenerConnectionsProofs`, `ListenerConfigProofs`, `PolicyStoreProofs`,
`PolicyDecisionProofs`, `ProxyConsoleProofs`, and `ShellProofs` (about `StoreOpening`
and `Shell`).

`ListenerStatus` lets the configuration be checked over all behaviours of the
runtime without its tasks: the refinement `ProxyRuntime => ListenerStatus` is
checked by TLC and its safety part proved.

### ListenerStatus

For each listener: what `health()` reports, the port of the present run, and
whether that run was asked to stop. A listener runs only on a port no other
running listener has; it is started anew only after it was reported `Stopped`
or `Failed`; it stops only when asked, and then it does; a start never hangs.

### ProxyRuntime

The tasks of a listener are numbered in the order of spawning; `gen[l]` is the
one whose handle is in the map, the predecessor a task awaits is the one before
it. `phase[l][n]` is where task n is in `run_listener`, `state[l][n]` is
`ListenerHandle.state`, `shutdown[l][n]` the value of the shutdown channel.
`start_listener`, `stop_listener` and `shutdown` hold the mutex of the map for
their whole call and are one action each. Every await and every effect of
`run_listener` that another thread can observe is an action: `AwaitPredecessor`,
`Bind` or `BindRefused`, `PublishRunning`, `LeaveLoop`, `PublishStopped`,
`PublishFailed`, `Return` (which drops the socket). `set_state` is two further
steps after the state is visible: `notify_state_change` reads the counter of the
watch channel and sends it back increased. A receiver is ready when `true` was
sent or when its sender is gone, that is when the handle has been replaced.

### StateViews

The subscriber loops over `ProxyRuntime`: `Wake` marks the channel's value as
seen, `LockMap` takes the mutex (which keeps calls out but not the tasks),
`ReadHandle` reads one handle, `UnlockMap`, `Show`. A `SendGeneration` of the
runtime marks the value unseen for every subscriber, whatever number it carries.

### ListenerConnections

One run of a listener from its loop to its end. Each client has at most one
connection task and one tunnel task. The stages of a connection are its awaits
(`reading` a head, `loading` the snapshot, `connecting`, `forwarding`,
`answering`, `upgrading`) and, after the target was reached, the moments between
two awaits at which the listener's own shutdown on another thread makes a
difference (`connected`, `spawned`, `registered`, `handed`): an abort takes
effect only at an await. Requests are a method and a target that is missing, the
listener itself, or outside; the policy is an external value, one of allow, deny,
unavailable, that may change at any moment. `since[c]` is a history variable: the
values the policy has had since the request arrived.

### ListenerConfig

The table of listeners and the commands over it, each store access and each call
of the runtime a step of its own, because the connection's mutex makes an access
atomic and not a command. `arg` and `read` are a command's locals. `set_enabled`
is `Mark`, `Reread`, then `Stop` or `RequestStart`; `update` checks the row, the
runtime, the profile, then writes; `delete` signals and then removes. Any store
access may fail (`StoreFails`): what was done stays done. `Restart` is the end of
the process at any step and the next start, which starts the enabled listeners.
Profiles are there for the cascade of `delete_profile`. Two history variables name
what commands do to each other. A listener is `crossed` once one command was about to
start it (`Holding`) while another was between its check or stop and the end of an edit,
a disable or a removal (`Changing`); it is `halfway` once a disable broke off between
the mark and the stop (`BreaksOff`). Either is forgotten when the listener is down and in
nobody's hands.

### PolicyBook, PolicyStore

`PolicyBook` is what the editor and the proxy may rely on: profiles with names of
their own, each with a default action and a *list* of rules; a new rule comes
last, removing or amending one leaves the order of the others alone, a reordering
permutes. `PolicyStore` is the service over its tables, where the list is an
`ORDER BY position`. A command is a sequence of accesses, as in `ListenerConfig`
(`CreateFindName`, `Create`; `DeleteFind`, `DeleteCount`, `DeleteProfile`;
`AddFind`, `AddRule`); the transaction of `reorder_rules` is taken apart into its
statements (`Begin`, `Shift` row by row, `Assign` per rule, `Commit`) because what
they pass through is subject to `UNIQUE (profile_id, position)` and to the `CHECK`
on positions. `working` is the transaction's own view of the positions; nobody
else sees it, since the connection's mutex is held (`Free`). `Fail` lets any
access or statement fail, or the process end: an open transaction is gone.
Names are what `fold_name` makes of them.

### HostName, PolicyDecision

A host is a sequence of characters, and `HostName` has the functions of `host.rs` as
operators: `NormalizeHost` with its order of steps (trim, ASCII, bracketed literal,
no colon, drop one trailing dot, lower, IPv4 or labels), `Matcher` and `IsSubdomainOf`.
The alphabet has a few characters of every class the code tells apart; the limits
on lengths, octets and octet values are constants. `Number` reads an octet as
`u8::from_str` does, with its optional plus sign.

`PolicyDecision` has the rules of one profile with their positions, `Evaluate` (the
first match), the editor's commands as one step each, the deletion of the profile with
its rules among them, and `PolicyService::evaluate` in its two accesses, `Ask` and
`Answer`. `given` and `edits` are history variables: what the policy would have answered
at each moment since the question, and in which order the default action and the rules
were written or deleted since.

### ProxyConsole

Two commands at a time, each called, working (`Work`), listing the rows, reading
`health()`, answering. The work is a step per access: `Write` inserts or marks the row,
`Look` reads it again (or finds it, for `delete`), `Tell` starts or stops the listener,
`Remove` deletes the row; `Fail` ends a command with an error between any two of them.
`Cascade` is the deletion of a profile by the policy screen, whose command may still be
under way when the proxy screen is open: the rows of its listeners go and nobody is told. `state` is the runtime's, `unseen`
the watch channel of its two subscribers, `events` and `posted` the two event streams
on their way to the window, `queue` the bounded channel of decisions. `screen` is the
state of the hook; leaving the screen drops it, the subscriptions and what was
addressed to them, while commands under way go on and their answers are ignored.
The tray task reads rows, then health, then sets the menu. `unread` are the commands
whose change of a row the tray has not read, and `silent` says that one of them left the
row, or removed it, or that a profile took it along, with no state change to come that would
wake the tray. `clock` numbers what
the screen should reflect, `newest` is the latest of it the screen has been given and
`misled` says that the last whole answer was older than that, or that news was lost
after it (the event came while nobody listened, a command failed to list the rows
after its write, or a profile was deleted with its rows).

### StoreOpening, Shell

`StoreOpening` is the start of a process up to its store: `EnsureDir`, `OpenDatabase`,
`ReadVersion` once, then `BeginMigration` and `CommitMigration` per version (the write
lock is held between them, the tables must not exist yet), `CountProfiles`, `Seed`.
Any of them may fail, wait too long for the other process, or be the last thing the
process does; an open transaction is gone with it. `Shell` goes on with `setup`
(`CreateMainWindow`, `AttachAutostart`, `SpawnTray`, `EmitReady`) while the page already
runs (`Mount`, `Subscribe`, `HandleReady`, `Answer`, `AnswerError`, `Retry`), with the
window and the tray, and with the settings commands, which write, read the setting and
read the platform in separate steps. `CloseHides` and `CloseQuits` are the handler of the
window with its own reading of the setting, which may fail (`readable`) and then quits. `harmed`, `overlapped`, `seeds`, `emptied` and
`unsure` are history variables, explained beside the properties that use them.

## 3. Runs

| run | instance | what it shows |
|---|---|---|
| `runtime` (`ProxyRuntime.cfg`) | 2 listeners, 2 ports, 2 starts each | type; `OwnPortFree`, `NoOrphanTask`, `RunningServes`; `AbsSpec`: the runtime implements `ListenerStatus` with its liveness |
| `views` (`StateViews.cfg`) | 1 listener started twice, window and tray | `WaitingViewIsCurrent`, `ViewsCatchUp`; `StopTakesEffect` with the readers about |
| `connections` (`MCListenerConnections.cfg`) | 2 clients, 1 permit | type; `OnlyAllowedReachTarget` (allowed by a policy that was in force while the request waited), `ActiveIsExact`, `StoppedLeavesNoConnection`, `TunnelsReachable`, `ShutdownEnds` |
| `stopped_tunnels` (`MCListenerConnectionsTunnels.cfg`) | the same | refutes `StoppedEndsTunnels` |
| `config` (`MCListenerConfig.cfg`) | 2 listeners, 1 port, 2 profiles, two commands at a time (2,634,113 states), one failure, restarts | `RowsConsistent` (types of the rows and of the commands' locals included), `ServesItsRow`, `UpOnlyEnabled`; `OnlyCrossingReconfigures` |
| `config_off_on` (`MCListenerConfigOffOn.cfg`) | 1 listener | refutes `OffOnServes` |
| `config_cascade` (`MCListenerConfigCascade.cfg`) | 1 listener, 2 profiles | refutes `NoListenerWithoutRow` |
| `config_last_profile` (`MCListenerConfigLastProfile.cfg`) | 2 profiles, two commands at a time | refutes `SomeProfile` |
| `policy_store` (`MCPolicyStore.cfg`) | 2 profiles, 3 rules, 2 names, two commands at a time, position limit 3 | `ReorderKeepsConstraints`, `CommitsAsAsked`; `ImplementsPolicyBook` |
| `policy_decision` (`MCPolicyDecision.cfg`) | every text of up to 4 characters of 11 classes, domains of up to 6; rules of 7 kinds of input, positions bounded | `WrittenFormsAgree`, `SubdomainsAreBelow` (against the path of labels); `AddedRuleComesLast`, `AnswerWasInForce` |
| `console` (`ProxyConsole.cfg`) | 1 listener, 2 commands at a time, queue and feed of 1, 2 visits, 3 inputs (6,058,125 states) | `OnlyOvertakingMisleads`, `TrayMissesOnlySilentChanges`, `FeedIsRecent`, `MissedIsMissed` |
| `shell` (`MCShell.cfg`) | 2 processes, 2 migrations, 2 settings commands, four budgets of starts, faults, edits and inputs | `StoreIsWhole`, `UnavailableForAReason`, `SomebodyGetsTheStore`, `SeededOnce`, `ClosingDoesWhatIsShown`; `ReadyIsFinal` |

Why the bounds are enough. Two starts of a listener give every overlap of an
ending task with its successor; a third start can only meet the second one,
since a task awaits its predecessor, which awaited its own (part
`EarlierReturned` of the inductive invariant, proved for any number of starts). Two listeners on two
ports give the race for a port, the change of port between runs, and two
announcements at once. Connections of a listener meet only in the semaphore, the
counter and the registry: one permit and two clients give a connection refused,
a permit that changes hands, and a tunnel alive while another connection is
registering its own. In `ListenerConfig` two commands give every pair that can cross,
a second listener a conflict of ports and a command over several rows, a second
profile the cascade and an update that matters (a second port would be a second such
update; the theorems have any number). `used` bounds
the listeners ever created, `MaxFailures` the failing accesses; a listener id is
not reused, as ids are random UUIDs. In `PolicyStore` likewise
(`spent`; a command that needs an id when none is left can only fail). Three
positions and three rules give every permutation of three, gaps, a profile that is
refused a rule although it has room, and a reordering overtaken by an addition and
a deletion, so that the number of rules matches and the rules do not. `POSITION_SHIFT` and
`POSITION_LIMIT` are equal in the code and in the instance.

In `PolicyDecision` the limits are shrunk (lengths, two octets of at most 127), so that
texts of four to six characters cross every one of them; every check of `host.rs` looks
at one character, at the ends of a label, at neighbouring labels or at a length, and
each of those fits (`PolicyDecisionProofs` drops the bounds). In `ProxyConsole` one
listener is enough since the hook merges each
listener by itself and the counts of the tray are sums; a queue and a feed of one
overflow at the second decision. Two commands, or a load and a command, give every
overtaking there is between two answers; a third only repeats it. In `StoreOpening` a
migration before and one after the version another process has read are two; two
processes and a restart give a start beside another, after a killed one, and both.
`MCBudget` splits the instance into what a run has room for at once: starts with a
kill, starts with edits of profiles, one process with five inputs, two with three.
The processes are symmetric; no liveness is checked there.

Each property was also tried against a faulty variant of the code it is about
(the definitions marked "Faulty" beside the ones they replace, listed under
`mutants`); every one of them is found.

### Fairness

Weak fairness of each step of a listener task and of each subscriber: Tokio polls
a task that was woken, and no task here blocks its thread. The loop of
`run_listener` is a `select!` without `biased`, which picks among ready branches
at random, so a ready shutdown is taken however busy `accept` is (also when
`accept` fails all the time). A poll that has begun runs to its next await, an
aborted task is dropped, a command that was called runs on a thread of its own.
`PolicyDecision`, `ProxyConsole` and `Shell` state safety only and assume no fairness;
their instances stop where the inputs are used up, so deadlock is not checked there.
Nothing is assumed of callers, proxy clients, targets or the operating system's
answer to `bind`.

### What the code's own words do not survive

Four runs expect a violation; each refutes a sentence of the repository and is
listed under `findings`.

* `config_off_on`. `start_listener` is ignored while the handle still says
  `Running`, and it says so until the task has noticed its stop signal. Disable
  and enable at once: the row is enabled, the start is ignored, the old task stops.
* `stopped_tunnels`. `abort_all` empties the tunnel registry before the
  connections are aborted; a connection that another thread is polling past its
  connect registers a tunnel afterwards, hands its stream over in the same poll
  and leaves the tunnel to carry data after `Stopped`.
* `config_cascade`. Deleting a profile leaves its running listener without a row.
  It denies everything, but nothing in the UI can stop it.
* `config_last_profile`. `delete_profile` counts the profiles and deletes one in two
  accesses. Two commands at once both count two; no profile is left, though "the system
  must not be left without any policy" (`core/application/policy.rs:166-167`).

Four more sentences hold only with an exception, which the property about them names;
without it TLC refutes each of them.

* "A working listener cannot be reconfigured ... otherwise the state would no longer
  correspond to the configuration" (`core/application/listeners.rs:3-6`). `update` checks at
  line 92 and writes at line 101; a start in between makes it false. With
  `OnlyCrossingReconfigures` and `ServesItsRow` it is true of everything but a start that
  crossed an edit, a disable or a removal of that listener (`crossed`); the same start
  escapes a disable or a removal and leaves a listener up that the row calls off, or
  that has no row.
* "The tray cannot show anything else than the window" (`src-tauri/src/state.rs:331-332`). The
  tray reads only after a state change, and some changes of rows come without one, or
  after it: disabling or deleting a stopped listener, an enable that failed after its
  mark, a delete that removes the row after the stop was announced, the deletion of a
  profile with its rows. Its tooltip and its
  "start" then stay those of the old rows until the next state change
  (`TrayMissesOnlySilentChanges`: nothing but these, `silent`). An enable whose second
  reading fails (`core/infrastructure/sqlite/listeners.rs:176`) also leaves a row that
  says on, is shown as starting and is not started before somebody asks again.
* "The loss of an event does not lead to a wrong screen" (`src-tauri/src/lib.rs:49-50`) is
  said of decisions and of what can be read again. An event of the runtime's state that is
  lost between the answer of the load and the subscription does lead to one, until the
  next answer or event (`OnlyOvertakingMisleads`, `misled`).
* "If the settings are unavailable ... the storage is unavailable as a whole and the
  proxy applies no policy" (`src-tauri/src/state.rs:173-177`) is the reason to quit when the
  setting cannot be read at the close. The same arm is taken when one read fails while
  store and proxy work, and then the window quits although the screen says that it
  hides (`ClosingDoesWhatIsShown` with `readable`).

Others met while modelling and kept out of the runs, each visible in the models:
the counter of the watch channel can lose a change when two tasks bump it at
once, against the doc of `state_changes` (harmless: `WaitingViewIsCurrent`
does not depend on it); an aborted connection is never subtracted from `active`
(`ActiveIsExact` states what is true: too high, never too low); a tunnel holds no
permit, so more clients than `max_connections_per_listener` can be served; `reorder_rules`
with an empty list succeeds for a profile that does not exist, though its doc
promises `NotFound`; the position limit is reached by adding and deleting, however
few rules there are, until a reordering closes the gaps.

Also, from the modules that were added last: `u8::from_str` accepts a leading plus, so
`+1.2.3.4` is taken for an IPv4 literal although the doc of `NormalizedHost::parse`
says that characters that are not allowed are refused; nor are addresses brought to one form,
since octets and IPv6 literals are kept as written: `10.0.0.1`, `10.0.0.01` and
`+10.0.0.1` are three hosts to a rule and one to the system, and so are `[::1]` and
`[0:0:0:0:0:0:0:1]`, so a rule about one of them does not meet a request for another
(`WrittenFormsAgree` speaks of capitals, spaces and the final dot only), and the loopback
check, which knows four names and a prefix (`outcome.rs:125-128`), does not know the
others; an evaluation between an edit of the default action and one of the rules, or
before a deletion of the profile, can report a default no policy ever gave that target
(`AnswerWasInForce` names both exceptions); the
doc of `ProxyRuntime::new` says that old decisions are dropped when the queue is full,
`try_send` drops the new one; the doc of `useShellSettings` says that what is shown
always corresponds to the fact, which two overlapping changes or a failed re-read
break until the next one (`unsure`); the proxy screen likewise stays behind after an
answer that was overtaken (`misled`), since the hook applies whole answers in the order
they arrive; nothing keeps the application from being started twice, and of two
processes that start at the same time over a new database one may answer "storage
unavailable" for as long as it lives, because a table, or the default profile, is
already there; a start that has counted no profiles may create the default one after
another process has created it and the user has renamed it.

## 4. Proofs

`ProxyRuntimeProofs` is about `Safety` of `ProxyRuntime` for any sets of listeners
and ports and any bound on starts, from `NoPortAssumption` and
`MaxStartsAssumption`. `TypeCorrect` is inductive by itself. The other properties
are not, and `Inductive` proves a conjunction that is:

* `StateFitsPhase`: the published state follows the task's phase;
* `Numbered`: exactly the tasks up to `gen[l]` have been spawned;
* `ReplacedIsEnding`: a task whose handle was replaced has published its end
  (needed for the step of `start_listener`, whose guard is that very state);
* `EarlierReturned`: a task past its predecessor is past all earlier ones
  (`OwnPortFree` speaks of any two tasks, the code awaits only one);
* `SignalFits`: only spawned tasks are signalled, and a task that has left its
  loop while its handle is in the map was signalled (the refinement needs it: a
  listener stops only when asked);
* `PortsExclusive`: one socket per port (the refinement's distinct ports).

From it: `RestartFindsPortFree` (`OwnPortFree`), `NoTaskOrphaned`
(`NoOrphanTask`), `ReportedRunningServes` (`RunningServes`) and
`ImplementsListenerStatus`, that every step of the runtime is a step of
`ListenerStatus` or invisible to callers. The step is proved action by action; the
three publications share the lemma `PublicationSeen`.

`StateViewsProofs` first shows that the subscribers take no step of the runtime
(`ViewsLeaveRuntimeAlone`: `SafetyViews => Safety`), so that all of the above holds with
them. `WaitingShowsTheTruth` (`WaitingViewIsCurrent`) speaks of one moment of a loop; the
invariant `UpToDate` says for each moment that a subscriber has the reported state of a
listener in hand (read already, or among those it has still to read), or is bound to look
again: the channel is marked unseen for it, or the task that published has not sent its
number yet.

`ListenerConnectionsProofs`: any clients, also infinitely many, from
`MaxConnectionsAssumption`. Permits, counter and tasks (`Counted`) need `CancelledLive`:
an aborted task is one that is still alive, and none is aborted before the shutdown
reaches the connections; otherwise its end would be counted twice or too early. That
only the allowed pass needs `Judged`, what a task holds at each stage: no verdict before
the request, and while a snapshot is loaded the present policy among those the request
has met.

`ListenerConfigProofs`: any listeners, ports and profiles, any number of commands that
race, fail and are cut off, from `NoneAssumption` and `MaxFailuresAssumption`.
`RowsStayConsistent` needs what arguments a command has at each of its steps (`ArgFits`).
The other three are not inductive. `HoldsTheRow`: the row a command is about to start a
listener with is the row in the table, unless the listener is `crossed`; for whoever
changes that row is `Changing` it from its check to its write, and the holder is `Holding`
it all that time. `ChangesDown`: unless crossed, the listener is down from the check of an
edit to its write, and down or being stopped from the stop of a deletion to its removal.
`CreatesAlone` and `UsedOnly` keep a listener under creation out of everybody else's hands.
What is up was started with a row that was right, and no write finds it up. A disabled row
has its disable on the way to the stop, or broken off (`halfway`).
The runtime is `ListenerStatus`, of which only the steps are used.

`PolicyStoreProofs`: any profiles, rules, names and commands, from `NoneAssumption` and
`LimitAssumption` (the shift is at least the limit; with a smaller one the reordering
collides). Outside a transaction positions are distinct numbers below the limit; inside,
`Underway` says how far it has got: each row is at its old position or shifted, then the
first n rules of the list are at 0 to n-1 and the others are out of the way.
`ReorderingIsLegal` and `CommitsTheList` follow, the latter although rules may be added
and deleted between the comparison of the list and the transaction. For the refinement
`StoreIsABook` the list of a profile is the ranking of its rules by position; the lemmas
about rankings (adding at the end, removing one, renumbering by a list) are stated for
any finite set with distinct numbers. Every access is then a step of `PolicyBook` or
invisible. `PolicyBook` has no fairness, so this is all of `ImplementsPolicyBook`.

`PolicyDecisionProofs` is about texts of any length over the alphabet, any rules, any
limits (`LimitAssumption`; `TextAssumption` and `InputAssumption` say that inputs are texts
and have the types of the code). There is no induction over texts: where one would be
used, the proof takes the least counterexample (`LeastUpTo`, from finite sets), and the
labels of a host are numbered by counting the dots after them. The central lemmas: a
normal form is its own normal form, whichever of the three forms it is
(`SpellingIsOne`), and the comparison of bytes in `HostMatcher::matches` is the relation
"the path of labels extends that of the domain" (`RulesCoverTheTree`). The
invariant of the state says that stored rules are accepted drafts with positions of
their own, and of a check under way that with what it has read it can still answer
something that was in force, unless the default changed before the rules or the profile
went with its rules (`ChecksAreAnswered`). `AddedIsLastToDecide`: the next position is
above all others, so that the first match among the old rules stays the first.

`ProxyConsoleProofs`: finitely many listeners, any number of commands, events and
decisions, any limits. Four parts that use each other in this order: states and stop
signals (`ListenerInv`); the tray (`TrayInv`: unless the channel is unseen for it, its
menu counts what runs, and its menu or what it is reading counts the enabled rows, or is
`Excused`: a change is `unread` and its command has still to tell the runtime, a state
change is to come, or one was `silent`); the stream (`StreamInv`: decisions received,
posted and queued rise in this order, and together with the dropped ones are no more than
were made); and the screen. For `ScreenEndsUpTrue` (`OnlyOvertakingMisleads`) `ViewInv`
says of every answer on its way, every event and the screen either that it is right or
why it is not the last word: a newer one has been given to the screen, or a call is on
its way that will bring a newer one (`Pending`), or an announcement is outstanding.

`ShellProofs`: any processes and migrations, from `LatestAssumption`, `ProcessAssumption`,
`NoProcessAssumption`. The store part is about any interleaving of starts and kills:
`tables = 1..version` throughout; `Migrates(p)`, what a starting process knows of the
version it read; `Alone(p)`, that a start nobody overlapped has the store to itself (for
`FailsForAReason`); and for `SomebodyWins` that some process is `Ahead`: what it read is
still true, so that only its storage can stop it. The shell part adds which parts a
process has by how far its setup got (`Shows`) and that, unless the screen may be behind,
what it shows or is about to show is what there is (`Current`).

Nothing but what the modules assume of their constants is taken for granted; TLC
evaluates these assumptions in the runs. Only model-checked: everything temporal beyond
safety (the fairness part of `AbsSpec`, `StopTakesEffect`, `ViewsCatchUp`,
`ShutdownEnds`), since liveness under fairness and `ENABLED` are out of the prover's
reach. The four refuted properties are of course not proved. Every other property of
the runs is a theorem.

## 5. What the models leave out

* Runtime: panics and poisoned mutexes; a `bind` that hangs. Requests and
  connections are in `ListenerConnections` only.
* Views: the texts shown.
* Connections: the bytes; the parsing of requests beyond "has a target"; the
  timeouts as durations (each may pass at any moment: `Hangup`, `Answer`); the
  finished tasks a JoinSet keeps until the listener stops; the decision event
  published with each decision (`ProxyConsole` has the stream); a peer that is not
  loopback, which a loopback socket never accepts.
* Policy store: what a rule says beyond being the same or another (see
  `PolicyDecision`); validation of names; lists that are read without being changed.
* Decision: the range of `Position` up to its real limit; `display_value`; characters
  beyond the classes of the alphabet; which address a text means to the system, and with
  it the loopback check, which compares texts (`decide`; a request for the listener itself
  that it recognises is in `ListenerConnections`).
* Console: active connections, the profiles of the form, `proxy_update_listener`, which
  no control of the screen calls; a subscription that fails, which is a subscription
  that never comes; the steps of a click in the tray (`ListenerConfig` has them), and the check
  of the profile in `proxy_create_listener`.
* Store and shell: a database of a newer version, the store in memory, an empty
  version or path; minimising and focus; what the tray does for a process without a
  store (it shows nothing to start or stop).
* The policy editor (`usePolicyEditor.ts`). Every mutation is followed by a load, which
  sets the selected profile before it awaits the rules. Loads can overlap, and then the
  rules on the screen may belong to another profile than the selected one, although its
  doc says that the UI cannot come apart from the backend. To be modelled next.
* The IPC contract and the navigation policy: formats and a constant list.
* Configuration: names of listeners; the order in which enabled listeners are
  started; a store that cannot be opened at all; the seeding of the default
  profile after all rows are gone.

## 6. Plan

Done, in this order, the most important first: `ListenerStatus`, `ProxyRuntime`,
`ProxyRuntimeProofs`, `StateViews`, `ListenerConnections`, `ListenerConfig`,
`PolicyBook`, `PolicyStore`, `HostName`, `PolicyDecision`, `ProxyConsole`,
`StoreOpening`, `Shell`; then the proofs of every safety property the runs check,
module by module.

Next:

1. `PolicyEditor`, see section 5.
2. `ListenerConfig` over `ProxyRuntime` itself, for the port of a deleted listener that
   a new one is given too early; with the theorem that what `ListenerConfigProofs` shows
   over `ListenerStatus` holds over the tasks as well.
