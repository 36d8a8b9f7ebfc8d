------------------------------- MODULE Shell -------------------------------
(***************************************************************************)
(* The desktop shell: the setup of a process after its store was opened,   *)
(* its window and tray (lib.rs, lifecycle.rs, tray.rs), the status screen  *)
(* (useRuntimeOverview.ts), and the settings of close behaviour and        *)
(* autostart with their screen (settings.rs, state.rs, settings_view.rs,   *)
(* useShellSettings.ts).                                                   *)
(*                                                                         *)
(* Commands run in threads of their own and their answers arrive in any    *)
(* order; several processes share the stored setting, and the operating    *)
(* system keeps the autostart.                                             *)
(***************************************************************************)
EXTENDS StoreOpening

CONSTANT Call              \* settings commands of a process under way

VARIABLES
  tray, window,            \* the tray icon is there; the main window
  overview,                \* useRuntimeOverview
  setting, autostart,      \* stored close_behavior; what the system has
  screen, call,            \* useShellSettings and its commands
  unsure                   \* history: the screen may be behind, see Behind

shell == <<tray, window, overview>>
settings == <<setting, autostart, screen, call, unsure>>
vars == <<storeVars, shell, settings>>

Behaviour == {"hide", "quit"}
NoOverview == [status |-> "none", heard |-> FALSE, asked |-> FALSE, events |-> 0]
Closed == [status |-> "closed", close |-> "hide", tray |-> FALSE,
           supported |-> FALSE, autostart |-> FALSE]
NoCall == [stage |-> "idle", op |-> "get", arg |-> "none", close |-> "hide", mine |-> TRUE]

Init ==
  /\ StoreInit
  /\ tray = [p \in Process |-> FALSE]
  /\ window = [p \in Process |-> "none"]
  /\ overview = [p \in Process |-> NoOverview]
  /\ setting \in {"unset", "unknown"}
  /\ autostart = FALSE
  /\ screen = [p \in Process |-> Closed]
  /\ call = [p \in Process |-> [c \in Call |-> NoCall]]
  /\ unsure = [p \in Process |-> FALSE]

-----------------------------------------------------------------------------
(* setup, once AppState is initialized *)

Setup(p, from, to) == phase[p] = from /\ GoTo(p, to)
setupLeaves == <<disk, found, info, store, doomed, past, left>>

(* The page starts to load. *)
CreateMainWindow(p) ==
  /\ Setup(p, "window", "autostart")
  /\ window' = [window EXCEPT ![p] = "shown"]
  /\ UNCHANGED <<setupLeaves, tray, overview, settings>>

AttachAutostart(p) ==
  /\ Setup(p, "autostart", "tray")
  /\ unsure' = [unsure EXCEPT ![p] = @ \/ screen[p].status # "closed"]
  /\ UNCHANGED <<setupLeaves, shell, setting, autostart, screen, call>>

(* A platform without a tray is no error.  The tray is kept up to date     *)
(* only if there is a runtime (ProxyConsole has its menu).                 *)
SpawnTray(p) ==
  /\ Setup(p, "tray", "emit")
  /\ tray' \in {[tray EXCEPT ![p] = b] : b \in BOOLEAN}
  /\ unsure' = [unsure EXCEPT ![p] = @ \/ screen[p].status # "closed"]
  /\ UNCHANGED <<setupLeaves, window, overview, setting, autostart, screen, call>>

EmitReady(p) ==
  /\ Setup(p, "emit", "up")
  /\ overview' = IF info[p] = "ok" /\ overview[p].heard
                   THEN [overview EXCEPT ![p].events = 1] ELSE overview
  /\ UNCHANGED <<setupLeaves, tray, window, settings>>

-----------------------------------------------------------------------------
(* The end of a process: killed, or by exit after the window is closed or  *)
(* from the tray.  Listeners are asked to stop and end with the process.   *)

Ends(p) ==
  /\ Running(p)
  /\ Gone(p)
  /\ tray' = [tray EXCEPT ![p] = FALSE]
  /\ window' = [window EXCEPT ![p] = "none"]
  /\ overview' = [overview EXCEPT ![p] = NoOverview]
  /\ screen' = [screen EXCEPT ![p] = Closed]
  /\ call' = [call EXCEPT ![p] = [c \in Call |-> NoCall]]
  /\ unsure' = [unsure EXCEPT ![p] = FALSE]
  /\ UNCHANGED <<setting, autostart>>

Killed(p) == Spend("faults") /\ Ends(p)

(* SettingsService::close_behavior: nothing, or a value of another         *)
(* version, means the default.                                             *)
CloseBehaviour == IF setting = "quit" THEN "quit" ELSE "hide"

(* Faulty: a value that is not known means to quit. *)
BehaviourOrQuit(p, readable) ==
  IF store[p] = "ok" /\ readable /\ setting = "hide" THEN "hide" ELSE "quit"

(* AppState::close_behavior: a setting that cannot be read means to quit,  *)
(* be it that the store was not opened or that this read of it fails.      *)
BehaviourOnClose(p, readable) ==
  IF store[p] = "ok" /\ readable THEN CloseBehaviour ELSE "quit"

(* Faulty: the tray is not asked for. *)
HidesAnyway(p, readable) == BehaviourOnClose(p, readable) = "hide"

(* close_action *)
Hides(p, readable) == BehaviourOnClose(p, readable) = "hide" /\ tray[p]

CloseHides(p) ==
  /\ phase[p] = "up" /\ window[p] = "shown"
  /\ \E readable \in BOOLEAN : Hides(p, readable)
  /\ window' = [window EXCEPT ![p] = "hidden"]
  /\ UNCHANGED <<storeVars, tray, overview, settings>>

CloseQuits(p) ==
  /\ phase[p] = "up" /\ window[p] = "shown"
  /\ \E readable \in BOOLEAN : ~Hides(p, readable)
  /\ Ends(p)
  /\ UNCHANGED left

TrayOpens(p) ==
  /\ phase[p] = "up" /\ tray[p] /\ window[p] = "hidden"
  /\ window' = [window EXCEPT ![p] = "shown"]
  /\ UNCHANGED <<storeVars, tray, overview, settings>>

TrayQuits(p) ==
  /\ phase[p] = "up" /\ tray[p]
  /\ Ends(p)
  /\ UNCHANGED left

-----------------------------------------------------------------------------
(* useRuntimeOverview: a subscription and a command, each in its own time. *)

overviewLeaves == <<storeVars, tray, window, settings>>

(* The page is loaded. *)
Mount(p) ==
  /\ window[p] # "none" /\ overview[p].status = "none"
  /\ Spend("inputs")
  /\ overview' = [overview EXCEPT ![p] = [NoOverview EXCEPT !.status = "starting", !.asked = TRUE]]
  /\ UNCHANGED <<disk, process, past, tray, window, settings>>

Subscribe(p) ==
  /\ overview[p].status # "none" /\ ~overview[p].heard
  /\ overview' = [overview EXCEPT ![p].heard = TRUE]
  /\ UNCHANGED overviewLeaves

HandleReady(p) ==
  /\ overview[p].events > 0
  /\ overview' = [overview EXCEPT ![p].events = 0, ![p].status = "ready"]
  /\ UNCHANGED overviewLeaves

(* get_runtime_overview *)
Answer(p) ==
  /\ overview[p].asked /\ info[p] = "ok"
  /\ overview' = [overview EXCEPT ![p].asked = FALSE, ![p].status = "ready"]
  /\ UNCHANGED overviewLeaves

(* Faulty: the error replaces what an event has brought. *)
AnswerErrorAlways(p) ==
  /\ overview[p].asked
  /\ overview' = [overview EXCEPT ![p].asked = FALSE, ![p].status = "failed"]
  /\ UNCHANGED overviewLeaves

(* The backend's error, or that of a call that did not get through.        *)
AnswerError(p) ==
  /\ overview[p].asked
  /\ overview' = [overview EXCEPT ![p].asked = FALSE,
                    ![p].status = IF @ = "ready" THEN @ ELSE "failed"]
  /\ UNCHANGED overviewLeaves

(* The button is shown with the failure; the former attempt is left.       *)
Retry(p) ==
  /\ overview[p].status = "failed"
  /\ Spend("inputs")
  /\ overview' = [overview EXCEPT ![p] = [NoOverview EXCEPT !.status = "starting", !.asked = TRUE]]
  /\ UNCHANGED <<disk, process, past, tray, window, settings>>

-----------------------------------------------------------------------------
(* The settings screen. *)

Asks(p, op, arg) ==
  \E c \in Call :
    /\ call[p][c].stage = "idle"
    /\ c = CHOOSE d \in Call : call[p][d].stage = "idle"
    /\ call' = [call EXCEPT ![p][c] = [NoCall EXCEPT !.stage = "called", !.op = op, !.arg = arg]]

OpenSettings(p) ==
  /\ overview[p].status # "none" /\ window[p] = "shown" /\ screen[p].status = "closed"
  /\ Spend("inputs")
  /\ screen' = [screen EXCEPT ![p].status = "loading"]
  /\ Asks(p, "get", "none")
  /\ UNCHANGED <<disk, process, past, shell, setting, autostart, unsure>>

LeaveSettings(p) ==
  /\ screen[p].status # "closed"
  /\ screen' = [screen EXCEPT ![p] = Closed]
  /\ call' = [call EXCEPT ![p] = [c \in Call |->
       IF @[c].stage = "idle" THEN NoCall ELSE [@[c] EXCEPT !.mine = FALSE]]]
  /\ unsure' = [unsure EXCEPT ![p] = FALSE]
  /\ UNCHANGED <<storeVars, shell, setting, autostart>>

(* A control shows what it does not yet have, and is dead where the        *)
(* platform lacks the feature.                                             *)
Change(p) ==
  /\ screen[p].status = "ready" /\ window[p] = "shown"
  /\ Spend("inputs")
  /\ \/ \E b \in Behaviour \ {screen[p].close} :
          /\ b = "hide" => screen[p].tray
          /\ Asks(p, "close", b)
     \/ /\ screen[p].supported
        /\ Asks(p, "autostart", IF screen[p].autostart THEN "off" ELSE "on")
  /\ UNCHANGED <<disk, process, past, shell, setting, autostart, screen, unsure>>

(* Every other screen is behind when a fact changes, and the process's own *)
(* until the command is answered.                                          *)
Behind == unsure' = [q \in Process |-> unsure[q] \/ screen[q].status # "closed"]

Attached(p) == phase[p] \in {"tray", "emit", "up"}

Fails(p, c) ==
  /\ call' = [call EXCEPT ![p][c] = NoCall]
  /\ screen' = IF call[p][c].mine /\ call[p][c].op = "get"
                 THEN [screen EXCEPT ![p].status = "failed"] ELSE screen

(* set_close_behavior, set_autostart; reading is next. *)
Write(p, c) ==
  LET op == call[p][c].op
      arg == call[p][c].arg
      done == op = "get" \/ (IF op = "close" THEN store[p] = "ok" ELSE Attached(p))
  IN
  /\ call[p][c].stage = "called"
  /\ IF done
       THEN /\ call' = [call EXCEPT ![p][c].stage = "reading"]
            /\ setting' = IF op = "close" THEN arg ELSE setting
            /\ autostart' = IF op = "autostart" THEN arg = "on" ELSE autostart
            /\ IF op = "get" THEN UNCHANGED unsure ELSE Behind
            /\ UNCHANGED screen
       ELSE Fails(p, c) /\ UNCHANGED <<setting, autostart, unsure>>
  /\ UNCHANGED <<storeVars, shell>>

(* The operating system refuses, the store does not take the value or does *)
(* not give it back; then what was written stays.                          *)
Refused(p, c) ==
  /\ \/ call[p][c].stage = "called" /\ call[p][c].op # "get"
     \/ call[p][c].stage = "reading"
  /\ Fails(p, c)
  /\ UNCHANGED <<storeVars, shell, setting, autostart, unsure>>

Overlapped(p, c) == \E d \in Call \ {c} : call[p][d].mine /\ call[p][d].stage = "building"

(* AppState::shell_settings reads the setting, then the platform.          *)
ReadSetting(p, c) ==
  /\ call[p][c].stage = "reading"
  /\ IF store[p] = "ok"
       THEN /\ call' = [call EXCEPT ![p][c].stage = "building", ![p][c].close = CloseBehaviour]
            /\ unsure' = [unsure EXCEPT ![p] = IF call[p][c].mine THEN Overlapped(p, c) ELSE @]
            /\ UNCHANGED screen
       ELSE Fails(p, c) /\ UNCHANGED unsure
  /\ UNCHANGED <<storeVars, shell, setting, autostart>>

(* ShellSettingsView::build, setSettings. *)
Show(p, c, supported) ==
  /\ call[p][c].stage = "building"
  /\ call' = [call EXCEPT ![p][c] = NoCall]
  /\ screen' = IF call[p][c].mine
       THEN [screen EXCEPT ![p] =
              [status |-> IF call[p][c].op = "get" THEN "ready" ELSE @.status,
               close |-> call[p][c].close, tray |-> tray[p],
               supported |-> supported, autostart |-> supported /\ autostart]]
       ELSE screen
  /\ UNCHANGED <<storeVars, shell, setting, autostart, unsure>>

ShowSettings(p, c) == \E supported \in {FALSE, Attached(p)} : Show(p, c, supported)

(* The user changes the autostart with the means of the system. *)
SystemChanges ==
  /\ Spend("inputs")
  /\ autostart' = ~autostart
  /\ Behind
  /\ UNCHANGED <<disk, process, past, shell, setting, screen, call>>

-----------------------------------------------------------------------------
Backend(p) ==
  \/ Open(p) /\ UNCHANGED <<shell, settings>>
  \/ CreateMainWindow(p) \/ AttachAutostart(p) \/ SpawnTray(p) \/ EmitReady(p)

Page(p) == Subscribe(p) \/ HandleReady(p) \/ Answer(p) \/ AnswerError(p)

Command(p) ==
  \E c \in Call : Write(p, c) \/ Refused(p, c) \/ ReadSetting(p, c) \/ ShowSettings(p, c)

User(p) ==
  \/ Start(p) /\ UNCHANGED <<shell, settings>>
  \/ Edit(p) /\ UNCHANGED <<shell, settings>>
  \/ Killed(p) \/ CloseHides(p) \/ CloseQuits(p) \/ TrayOpens(p) \/ TrayQuits(p)
  \/ Mount(p) \/ Retry(p)
  \/ OpenSettings(p) \/ LeaveSettings(p) \/ Change(p)

Next ==
  \/ \E p \in Process : Backend(p) \/ Page(p) \/ Command(p) \/ User(p)
  \/ SystemChanges

Spec == Init /\ [][Next]_vars

-----------------------------------------------------------------------------
TypeOK ==
  /\ StoreTypeOK
  /\ tray \in [Process -> BOOLEAN]
  /\ window \in [Process -> {"none", "shown", "hidden"}]
  /\ setting \in {"unset", "unknown"} \cup Behaviour
  /\ \A p \in Process :
       /\ overview[p].status \in {"none", "starting", "ready", "failed"}
       /\ screen[p].status \in {"closed", "loading", "ready", "failed"}
       /\ window[p] = "hidden" => tray[p] /\ store[p] = "ok"

(* The command's error never takes away an overview that is there          *)
(* (useRuntimeOverview), whichever of event, answer and retry is first.    *)
ReadyIsFinal ==
  [][\A p \in Process : overview[p].status = "ready" =>
       overview'[p].status = "ready" \/ ~Running(p)']_vars

(* Closing the window does what the settings screen says, as long as the  *)
(* handler of the window can read the setting: it reads it anew, after the *)
(* screen did.  Only a change the screen has not read since, of another    *)
(* process or by a command that failed or overlapped another, makes them   *)
(* differ.  A read that fails at the close quits whatever is shown         *)
(* (AppState::close_behavior).                                             *)
ClosingDoesWhatIsShown ==
  \A p \in Process :
    /\ phase[p] = "up" /\ screen[p].status = "ready"
    /\ ~unsure[p] /\ \A c \in Call : call[p][c].stage = "idle"
    => \A readable \in BOOLEAN :
         Hides(p, readable) <=> readable /\ screen[p].close = "hide" /\ screen[p].tray
=============================================================================
