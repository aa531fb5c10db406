------------------------------ MODULE AppModes ------------------------------
(***************************************************************************)
(* Who owns the keyboard in the TUI and what a key then does               *)
(* (crates/muxtop-tui/src/app.rs): the confirm dialog, the overlays, filter *)
(* editing and the key map, the command palette, remote mode, and the      *)
(* tasks that confirmed actions leave behind.                              *)
(*                                                                         *)
(* Handlers call one another, so each is a function from a UI state to the *)
(* next one, as in the code, and a key press applies it.  What the tables  *)
(* hold is AppTable's business: here a handler is only told whether there  *)
(* is a row for it.                                                        *)
(***************************************************************************)
EXTENDS Integers, FiniteSets, Keymap

CONSTANTS Tabs,       \* Tab::ALL, or some of them in that order
          MaxActive,  \* MAX_ACTIVE of the notifier
          MaxTasks    \* bound: tasks spawned in a behaviour

TabSet == {Tabs[i] : i \in DOMAIN Tabs}

ASSUME ModesAssumption ==
  /\ Tabs \in Seq(STRING) /\ Tabs # << >> /\ TabSet \subseteq {AllTabs[i] : i \in DOMAIN AllTabs}
  /\ {"Processes", "Kube", "Gpu"} \subseteq TabSet   \* commands go there from anywhere
  /\ MaxActive \in Nat \ {0}
  /\ MaxTasks \in Nat

VARIABLES mode,     \* connection_mode and which engines are attached
          ui,       \* the AppState fields the handlers below read and write
          results,  \* outcomes in action_rx
          reported  \* outcomes in the message log

vars == <<mode, ui, results, reported>>

Nobody == "none"

\* The local engines belong to a local monitor.
Modes == {m \in [remote : BOOLEAN, containers : BOOLEAN, cluster : BOOLEAN] :
            m.remote => ~m.containers /\ ~m.cluster}

\* General and Processes share one filter.
FilterOf(tab) == IF tab = "General" THEN "Processes" ELSE tab

Init ==
  /\ mode \in Modes
  /\ ui \in [tab : {Tabs[1]}, overlay : {Nobody}, confirm : {Nobody}, editing : {{}},
             filtered : SUBSET {"Processes"},
             toasts : {0}, running : {TRUE}, cancelled : {FALSE},
             tasks : {0}, started : {0}]
  /\ results = 0
  /\ reported = 0

-----------------------------------------------------------------------------
(* The handlers.  u is the UI state, row whether the table has a row (a    *)
(* process, a container, a match) for it.                                  *)

Notify(u) == [u EXCEPT !.toasts = IF @ < MaxActive THEN @ + 1 ELSE @]

Quit(u) == [u EXCEPT !.running = FALSE, !.cancelled = TRUE]

Spawn(u) == [u EXCEPT !.tasks = @ + 1, !.started = @ + 1]

\* go_to_tab; the GPU tab's editing flag is not among those it resets.
GoToTab(u, tab) ==
  IF u.tab = tab THEN u
  ELSE [u EXCEPT !.tab = tab, !.editing = @ \cap {"Gpu"}]

NeighbourTab(u, step) ==
  LET n == Len(Tabs)
      at == CHOOSE i \in 1..n : Tabs[i] = u.tab
  IN  Tabs[1 + ((at - 1 + step + n) % n)]

OpenOverlay(u, overlay) == [u EXCEPT !.overlay = overlay]

CloseOverlay(u) == [u EXCEPT !.overlay = Nobody]

SetFilterEditing(u, on) ==
  [u EXCEPT !.editing = IF on THEN @ \cup {FilterOf(u.tab)} ELSE @ \ {FilterOf(u.tab)}]

FilterEditing(u) == FilterOf(u.tab) \in u.editing

SetFilter(u, nonempty) ==
  [u EXCEPT !.filtered = IF nonempty THEN @ \cup {FilterOf(u.tab)} ELSE @ \ {FilterOf(u.tab)}]

\* switch_kube_subview, switch_gpu_subview: the new view starts unfiltered.
SwitchSubview(u, tab) == [u EXCEPT !.filtered = @ \ {tab}, !.editing = @ \ {tab}]

\* request_kill, request_renice
RequestProcess(u, action, row) == IF row THEN [u EXCEPT !.confirm = action] ELSE Notify(u)

\* request_container_action
RequestContainer(u, action, row) ==
  IF mode.remote THEN Notify(u) ELSE IF row THEN [u EXCEPT !.confirm = action] ELSE u

ToggleKubeScope(u) == IF mode.cluster THEN Spawn(u) ELSE Notify(u)

\* go_back
GoBack(u) ==
  IF u.overlay # Nobody THEN CloseOverlay(u)
  ELSE IF u.toasts > 0 THEN [u EXCEPT !.toasts = 0]
  ELSE IF FilterEditing(u) THEN SetFilterEditing(u, FALSE)
  ELSE SetFilter(u, FALSE)

\* tab_actions
TabActions(u) == MenuOf(u.tab) \ (IF mode.remote THEN LocalOnly ELSE {})

\* dispatch
Dispatch(u, action, row) ==
  IF action \in LocalOnly /\ mode.remote THEN Notify(u) ELSE
  CASE action = "Quit" -> Quit(u)
    [] action = "Help" -> OpenOverlay(u, "Help")
    [] action = "Palette" -> OpenOverlay(u, "Palette")
    [] action = "CommandMode" -> OpenOverlay(u, "Command")
    [] action = "ToggleLog" -> OpenOverlay(u, "Log")
    [] action \in {"TogglePause", "Refresh", "CopySelection"} -> Notify(u)
    [] action = "NextTab" -> GoToTab(u, NeighbourTab(u, 1))
    [] action = "PrevTab" -> GoToTab(u, NeighbourTab(u, -1))
    [] action \in TabSet -> GoToTab(u, action)
    [] action \in {"NextSubview", "PrevSubview"} ->
         IF u.tab \in {"Kube", "Gpu"} THEN SwitchSubview(u, u.tab) ELSE u
    [] action = "OpenInspector" -> IF row THEN OpenOverlay(u, "Inspector") ELSE Notify(u)
    [] action = "ActionsMenu" ->
         IF TabActions(u) = {} THEN Notify(u) ELSE OpenOverlay(u, "Actions")
    [] action = "OpenFilter" -> SetFilterEditing(u, TRUE)
    [] action = "Back" -> GoBack(u)
    [] action \in {"Kill", "ForceKill", "NiceDown", "NiceUp"} -> RequestProcess(u, action, row)
    [] action \in {"ContainerStop", "ContainerKill", "ContainerRestart"} ->
         RequestContainer(u, action, row)
    [] action = "KubeSubview" -> SwitchSubview(u, "Kube")
    [] action = "GpuSubview" -> SwitchSubview(u, "Gpu")
    [] action = "ToggleKubeScope" -> ToggleKubeScope(u)
    [] OTHER -> u

\* execute_confirm: process signals report at once, container actions are
\* spawned if there is an engine to carry them out.
ExecuteConfirm(u) ==
  LET v == [u EXCEPT !.confirm = Nobody] IN
  IF u.confirm \in {"ContainerStop", "ContainerKill", "ContainerRestart"} /\ mode.containers
    THEN Spawn(v) ELSE Notify(v)

-----------------------------------------------------------------------------
(* The palette and the command line.                                       *)

\* Palette commands that have an action do what its key does; "Sort" stands for
\* the commands that touch only a table.
ActionCommands ==
  {"Quit", "OpenFilter", "NextTab", "PrevTab", "Kill", "ForceKill", "NiceDown", "NiceUp",
   "ContainerStop", "ContainerKill", "ContainerRestart", "Help", "TogglePause", "Refresh",
   "ToggleLog", "OpenInspector", "CopySelection", "Sort"}
    \cup (TabSet \ {"Gpu"})

Verbs == {"KillNamed", "StopNamed", "RestartNamed", "SortBy", "FilterBy", "SetTheme", "GoToTab"}

Commands ==
  ActionCommands \cup Verbs
    \cup {"ClearFilter", "ToggleTreeView", "KubeSubview", "KubeToggleScope", "SwitchToGpu"}

\* Mutant: the verbs are missing from REMOTE_BLOCKED_COMMANDS.
RemoteBlockedByKey ==
  {"Kill", "ForceKill", "NiceDown", "NiceUp", "ContainerStop", "ContainerKill", "ContainerRestart",
   "KubeToggleScope"}

\* REMOTE_BLOCKED_COMMANDS
RemoteBlocked ==
  {"Kill", "ForceKill", "KillNamed", "NiceDown", "NiceUp", "ContainerStop", "ContainerKill",
   "ContainerRestart", "StopNamed", "RestartNamed", "KubeToggleScope"}

\* What refilter_ctx can leave in the list for some query.
Available == Commands \ (IF mode.remote THEN RemoteBlocked ELSE {})

\* execute_invocation and execute_command; only the second looks at remote mode.
\* Commands call the request methods directly, not through dispatch.  many: the
\* argument is not empty, or names several processes.
ExecuteCommand(u, cmd, row, many, tab) ==
  IF mode.remote /\ cmd \in RemoteBlocked \ Verbs THEN Notify(u) ELSE
  CASE cmd \in {"Kill", "ForceKill", "NiceDown", "NiceUp"} -> RequestProcess(u, cmd, row)
    [] cmd \in {"ContainerStop", "ContainerKill", "ContainerRestart"} -> RequestContainer(u, cmd, row)
    [] cmd = "KillNamed" -> RequestProcess(IF row /\ many THEN Notify(u) ELSE u, "Kill", row)
    [] cmd \in {"StopNamed", "RestartNamed"} ->
         IF mode.remote \/ ~row THEN Notify(u)
         ELSE [u EXCEPT !.confirm = IF cmd = "StopNamed" THEN "ContainerStop" ELSE "ContainerRestart"]
    [] cmd \in {"SortBy", "SetTheme"} -> Notify(u)
    [] cmd = "FilterBy" -> SetFilter(u, many)
    [] cmd = "GoToTab" -> IF row THEN GoToTab(u, tab) ELSE Notify(u)
    [] cmd = "ClearFilter" -> SetFilter(u, FALSE)
    [] cmd = "ToggleTreeView" -> GoToTab(u, "Processes")
    [] cmd = "KubeSubview" -> SwitchSubview(GoToTab(u, "Kube"), "Kube")
    [] cmd = "KubeToggleScope" -> ToggleKubeScope(GoToTab(u, "Kube"))
    [] cmd = "SwitchToGpu" -> [u EXCEPT !.tab = "Gpu"]
    [] OTHER -> Dispatch(u, cmd, row)

-----------------------------------------------------------------------------
(* Keys, by owner of the keyboard.                                         *)

AllKeys == BoundKeys \cup {"n", "N", "Y", "Backspace"}

\* Keys that an input takes as text: a character without Ctrl.
TextKeys ==
  AllKeys \ {"F1", "F3", "F4", "F5", "F6", "F7", "F8", "F9", "F10", "F11", "Tab", "BackTab",
             "Enter", "Esc", "Backspace", "Up", "Down", "Left", "Right", "PageUp", "PageDown",
             "Home", "End", "Ctrl+C", "Ctrl+P", "Ctrl+K", "Ctrl+L", "Ctrl+D", "Ctrl+U"}

\* handle_confirm_key
ConfirmKey(u, key) ==
  CASE key \in {"y", "Y", "Enter"} -> ExecuteConfirm(u)
    [] key \in {"n", "N", "Esc"} -> [u EXCEPT !.confirm = Nobody]
    [] OTHER -> u

\* handle_scrollable_overlay_key
ScrollableKey(u, key) ==
  IF \/ key \in {"Esc", "q", "Ctrl+L"}
     \/ key = "?" /\ u.overlay = "Help"
     \/ key = "Enter" /\ u.overlay = "Inspector"
    THEN CloseOverlay(u)
  ELSE IF key = "y" /\ u.overlay = "Inspector" THEN Notify(u) ELSE u

\* Mutant: the first Esc of a filter clears it as well.
FilterKeyEager(u, key, nonempty) ==
  CASE key = "Esc" -> SetFilter(SetFilterEditing(u, FALSE), FALSE)
    [] key = "Enter" -> SetFilterEditing(u, FALSE)
    [] key = "Backspace" -> IF FilterOf(u.tab) \in u.filtered THEN SetFilter(u, nonempty) ELSE u
    [] key \in TextKeys -> SetFilter(u, TRUE)
    [] OTHER -> u

\* handle_filter_key; at MAX_FILTER_LEN the text is not empty anyway.
FilterKey(u, key, nonempty) ==
  CASE key \in {"Esc", "Enter"} -> SetFilterEditing(u, FALSE)
    [] key = "Backspace" -> IF FilterOf(u.tab) \in u.filtered THEN SetFilter(u, nonempty) ELSE u
    [] key \in TextKeys -> SetFilter(u, TRUE)
    [] OTHER -> u

\* Who gets the key: handle_key_event, after Ctrl+C.
Owner(u) ==
  IF u.confirm # Nobody THEN "confirm"
  ELSE IF u.overlay # Nobody THEN u.overlay
  ELSE IF FilterEditing(u) THEN "filter" ELSE "keymap"

\* draw_root: what is painted last, over the tab.
TopLayer(u) == IF u.confirm # Nobody THEN "confirm" ELSE u.overlay

\* handle_key_event; Enter in the palette and in the menu are actions below.
Press(u, key, row) ==
  IF key = "Ctrl+C" THEN Quit(u) ELSE
  CASE Owner(u) = "confirm" -> ConfirmKey(u, key)
    [] Owner(u) \in {"Palette", "Command"} ->
         IF key \in {"Esc", "Ctrl+P", "Ctrl+K"} THEN CloseOverlay(u) ELSE u
    [] Owner(u) \in {"Help", "Log", "Inspector"} -> ScrollableKey(u, key)
    [] Owner(u) = "Actions" -> IF key \in {"Esc", "x"} THEN CloseOverlay(u) ELSE u
    [] Owner(u) = "filter" -> FilterKey(u, key, row)
    [] Owner(u) = "keymap" ->
         IF key \in BoundKeys THEN Dispatch(u, Resolve[key][u.tab], row) ELSE u

-----------------------------------------------------------------------------

Bounded == ui'.started <= MaxTasks

Key ==
  /\ ui.running
  /\ \E key \in AllKeys, row \in BOOLEAN : ui' = Press(ui, key, row)
  /\ Bounded
  /\ UNCHANGED <<mode, results, reported>>

\* Mutant: the palette runs the command before it closes.
PaletteEnterOpen ==
  /\ ui.running
  /\ Owner(ui) \in {"Palette", "Command"}
  /\ \E cmd \in Available, row, many \in BOOLEAN, tab \in TabSet :
       ui' = ExecuteCommand(ui, cmd, row, many, tab)
  /\ Bounded
  /\ UNCHANGED <<mode, results, reported>>

\* Enter in the palette: the overlay closes, then the command runs.
PaletteEnter ==
  /\ ui.running
  /\ Owner(ui) \in {"Palette", "Command"}
  /\ \E cmd \in Available, row, many \in BOOLEAN, tab \in TabSet :
       ui' = ExecuteCommand(CloseOverlay(ui), cmd, row, many, tab)
  /\ Bounded
  /\ UNCHANGED <<mode, results, reported>>

\* Enter in the actions menu.
MenuEnter ==
  /\ ui.running
  /\ Owner(ui) = "Actions"
  /\ \E action \in TabActions(ui), row \in BOOLEAN :
       ui' = Dispatch(CloseOverlay(ui), action, row)
  /\ Bounded
  /\ UNCHANGED <<mode, results, reported>>

\* A toast reaches the end of its time; expire runs before any key is looked at.
ToastExpires ==
  /\ ui.running
  /\ ui.toasts > 0
  /\ ui' = [ui EXCEPT !.toasts = @ - 1]
  /\ UNCHANGED <<mode, results, reported>>

\* The engine answers, well or badly, and the task sends the outcome.  A task that
\* has its answer when the token is cancelled still sends it.
TaskAnswers ==
  /\ ui.tasks > 0
  /\ ui' = [ui EXCEPT !.tasks = @ - 1]
  /\ results' = results + 1
  /\ UNCHANGED <<mode, reported>>

\* The biased select! of every task prefers the token.
TaskAborts ==
  /\ ui.tasks > 0 /\ ui.cancelled
  /\ ui' = [ui EXCEPT !.tasks = @ - 1]
  /\ UNCHANGED <<mode, results, reported>>

\* Mutant: one toast for the lot.
PumpOnce ==
  /\ ui.running
  /\ results > 0
  /\ ui' = Notify(ui)
  /\ reported' = reported + 1
  /\ results' = 0
  /\ UNCHANGED mode

\* pump_action_results, at the top of the event loop.
Pump ==
  /\ ui.running
  /\ results > 0
  /\ ui' = [ui EXCEPT !.toasts = IF @ + results < MaxActive THEN @ + results ELSE MaxActive]
  /\ reported' = reported + results
  /\ results' = 0
  /\ UNCHANGED mode

\* The event loop has ended and nothing is left running.
Exited == ~ui.running /\ ui.tasks = 0 /\ UNCHANGED vars

Next ==
  \/ Key
  \/ PaletteEnter
  \/ MenuEnter
  \/ ToastExpires
  \/ TaskAnswers
  \/ TaskAborts
  \/ Pump
  \/ Exited

Spec == Init /\ [][Next]_vars

-----------------------------------------------------------------------------

\* "One enum means one answer": at most one of the confirm dialog, an overlay
\* and a filter input is open, by whatever sequence of keys, menus and palette
\* commands, no tab that is not in front holds an open input, and the layer on
\* top of the screen is the one that gets the keys.
OneOwner ==
  /\ ui.confirm # Nobody => ui.overlay = Nobody /\ ui.editing = {}
  /\ ui.overlay # Nobody => ui.editing = {}
  /\ ui.editing \subseteq {FilterOf(ui.tab)}
  /\ TopLayer(ui) = IF Owner(ui) \in {"filter", "keymap"} THEN Nobody ELSE Owner(ui)

\* "muxtop is a viewer there": in remote mode no route (key, menu, palette
\* command, verb with an argument) opens a dialog for an action or spawns one.
RemoteReadOnly == mode.remote => ui.confirm = Nobody /\ ui.started = 0

\* Layers Esc has to peel off.
LayersOf(u) ==
  {l \in {"confirm", "overlay", "input", "toasts", "filter"} :
    \/ l = "confirm" /\ u.confirm # Nobody
    \/ l = "overlay" /\ u.overlay # Nobody
    \/ l = "input" /\ FilterEditing(u)
    \/ l = "toasts" /\ u.toasts > 0
    \/ l = "filter" /\ FilterOf(u.tab) \in u.filtered}

Depth(u) == Cardinality(LayersOf(u))

\* "one step back, every time.  It never quits" (go_back): from every reachable
\* state one press of Esc removes exactly one layer, until none is left, although
\* four handlers have an Esc of their own.
EscStepsBack ==
  LET after == Press(ui, "Esc", FALSE) IN
  /\ after.running = ui.running
  /\ Depth(after) = IF Depth(ui) = 0 THEN 0 ELSE Depth(ui) - 1

\* Every action the user confirmed is in flight, has its outcome on the way, or
\* has been reported: outcomes may come in any order and in bursts, none is lost.
OutcomesAccounted == ui.running => ui.started = ui.tasks + results + reported

=============================================================================
