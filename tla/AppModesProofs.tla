--------------------------- MODULE AppModesProofs ---------------------------
(***************************************************************************)
(* Who owns the keyboard, for any selection and order of the tabs, any     *)
(* number of toasts and any number of tasks.                               *)
(***************************************************************************)
EXTENDS AppModes, FiniteSetTheorems, TLAPS

Filters == {FilterOf(t) : t \in TabSet}

Overlays == {"Help", "Palette", "Command", "Log", "Inspector", "Actions"}

Dialogs == {"Kill", "ForceKill", "NiceDown", "NiceUp",
            "ContainerStop", "ContainerKill", "ContainerRestart"}

UI == [tab : TabSet, overlay : Overlays \cup {Nobody}, confirm : Dialogs \cup {Nobody},
       editing : SUBSET Filters, filtered : SUBSET Filters, toasts : Nat,
       running : BOOLEAN, cancelled : BOOLEAN, tasks : Nat, started : Nat]

\* At most one of the dialog, an overlay and an input is open, and an input only
\* on the tab in front.
Exclusive(u) ==
  /\ u.confirm # Nobody => u.overlay = Nobody /\ u.editing = {}
  /\ u.overlay # Nobody => u.editing = {}
  /\ u.editing \subseteq {FilterOf(u.tab)}

\* Nothing is open: the only states from which dispatch and the commands run.
Idle(u) == u.confirm = Nobody /\ u.overlay = Nobody /\ u.editing = {}

\* The token is cancelled by Quit and by nothing else.
Sane(u) == u \in UI /\ (u.cancelled => ~u.running)

\* What every handler may do to the UI state, on this host and on another.
Follows(u, v) ==
  /\ Sane(v)
  /\ Exclusive(v)
  /\ v.running => u.running
  /\ v.started - v.tasks = u.started - u.tasks
  /\ mode.remote => v.started = u.started /\ v.confirm \in {u.confirm, Nobody}

IInv ==
  /\ mode \in Modes
  /\ Sane(ui) /\ Exclusive(ui)
  /\ results \in Nat /\ reported \in Nat
  /\ RemoteReadOnly
  /\ OutcomesAccounted

-----------------------------------------------------------------------------
(* Tabs.                                                                   *)

TabNames == {"General", "Processes", "Network", "Containers", "Kube", "Gpu"}

LEMMA AllTabNames == {AllTabs[i] : i \in DOMAIN AllTabs} = TabNames
<1>1. DOMAIN AllTabs = 1..6
  BY DEF AllTabs
<1>2. /\ AllTabs[1] = "General" /\ AllTabs[2] = "Processes" /\ AllTabs[3] = "Network"
      /\ AllTabs[4] = "Containers" /\ AllTabs[5] = "Kube" /\ AllTabs[6] = "Gpu"
  BY DEF AllTabs
<1>3. \A i \in 1..6 : i \in {1, 2, 3, 4, 5, 6}
  OBVIOUS
<1> QED
  BY <1>1, <1>2, <1>3 DEF TabNames

LEMMA TabFacts ==
  /\ TabSet \subseteq TabNames
  /\ {"Processes", "Kube", "Gpu"} \subseteq TabSet
  /\ {"Processes", "Kube", "Gpu"} \subseteq Filters
  /\ \A t \in TabSet : FilterOf(t) \in Filters
  /\ Filters \subseteq TabNames \ {"General"}
  BY AllTabNames, ModesAssumption DEF TabNames, Filters, FilterOf

\* The neighbour of a tab is a tab, in either direction and round the ends.
LEMMA NeighbourIsTab ==
  ASSUME NEW u \in UI, NEW step \in {1, -1}
  PROVE  NeighbourTab(u, step) \in TabSet
<1> DEFINE n == Len(Tabs)
           at == CHOOSE i \in 1..n : Tabs[i] = u.tab
           next == 1 + ((at - 1 + step + n) % n)
<1>1. n \in Nat \ {0} /\ DOMAIN Tabs = 1..n
  BY ModesAssumption
<1>2. \E i \in 1..n : Tabs[i] = u.tab
  BY <1>1 DEF UI, TabSet
<1>3. at \in 1..n
  BY <1>2
<1>4. next \in 1..n
  <2> HIDE DEF n, at
  <2>1. at - 1 + step + n \in Int
    BY <1>1, <1>3
  <2>2. (at - 1 + step + n) % n \in 0..(n - 1)
    BY <1>1, <2>1
  <2> QED
    BY <1>1, <2>2
<1> QED
  BY <1>1, <1>4 DEF NeighbourTab, TabSet

-----------------------------------------------------------------------------
(* The handlers, each from the states it is called in.                     *)

LEMMA NotifyFollows ==
  ASSUME NEW u, Sane(u), Exclusive(u)
  PROVE  Follows(u, Notify(u)) /\ Notify(u).confirm = u.confirm
  BY ModesAssumption DEF Sane, UI, Exclusive, Follows, Notify

LEMMA QuitFollows ==
  ASSUME NEW u, Sane(u), Exclusive(u)
  PROVE  Follows(u, Quit(u))
  BY DEF Sane, UI, Exclusive, Follows, Quit

\* A task is counted where it is spawned; none is spawned for a remote host.
LEMMA SpawnFollows ==
  ASSUME NEW u, Sane(u), Exclusive(u), ~mode.remote
  PROVE  Follows(u, Spawn(u))
<1> DEFINE v == Spawn(u)
<1>1. u.tasks \in Nat /\ u.started \in Nat
  BY DEF Sane, UI
<1>2. v.tasks = u.tasks + 1 /\ v.started = u.started + 1
  BY DEF Spawn, Sane, UI
<1>3. v \in UI
  <2>1. u.tasks + 1 \in Nat /\ u.started + 1 \in Nat
    BY <1>1
  <2> QED
    BY <2>1 DEF Spawn, Sane, UI
<1>4. /\ v.running = u.running /\ v.cancelled = u.cancelled /\ v.tab = u.tab
      /\ v.confirm = u.confirm /\ v.overlay = u.overlay /\ v.editing = u.editing
  BY DEF Spawn, Sane, UI
<1>5. v.started - v.tasks = u.started - u.tasks
  BY <1>1, <1>2
<1> QED
  BY <1>3, <1>4, <1>5 DEF Follows, Sane, Exclusive

LEMMA SameFollows ==
  ASSUME NEW u, Sane(u), Exclusive(u)
  PROVE  Follows(u, u)
  BY DEF Sane, UI, Exclusive, Follows

\* The GPU tab's input, which go_to_tab forgets to close, is closed already.
LEMMA GoToTabFollows ==
  ASSUME NEW u, Sane(u), Idle(u), NEW tab \in TabSet
  PROVE  Follows(u, GoToTab(u, tab)) /\ Idle(GoToTab(u, tab))
  BY TabFacts DEF Sane, UI, Exclusive, Follows, Idle, GoToTab

LEMMA OpenFollows ==
  ASSUME NEW u, Sane(u), Idle(u), NEW overlay \in Overlays
  PROVE  Follows(u, OpenOverlay(u, overlay))
  BY DEF Sane, UI, Exclusive, Follows, Idle, OpenOverlay, Nobody, Overlays

LEMMA CloseFollows ==
  ASSUME NEW u, Sane(u), Exclusive(u)
  PROVE  /\ Follows(u, CloseOverlay(u))
         /\ u.overlay # Nobody => u.confirm = Nobody /\ Idle(CloseOverlay(u))
  BY DEF Sane, UI, Exclusive, Follows, Idle, CloseOverlay

LEMMA EditingFollows ==
  ASSUME NEW u, Sane(u), Exclusive(u), u.confirm = Nobody, u.overlay = Nobody, NEW on \in BOOLEAN
  PROVE  Follows(u, SetFilterEditing(u, on))
  BY TabFacts DEF Sane, UI, Exclusive, Follows, SetFilterEditing

LEMMA SetFilterFollows ==
  ASSUME NEW u, Sane(u), Exclusive(u), NEW nonempty \in BOOLEAN
  PROVE  Follows(u, SetFilter(u, nonempty))
  BY TabFacts DEF Sane, UI, Exclusive, Follows, SetFilter

LEMMA SubviewFollows ==
  ASSUME NEW u, Sane(u), Idle(u), NEW tab
  PROVE  Follows(u, SwitchSubview(u, tab)) /\ Idle(SwitchSubview(u, tab))
  BY DEF Sane, UI, Exclusive, Follows, Idle, SwitchSubview

LEMMA IdleExclusive ==
  ASSUME NEW u, Idle(u)
  PROVE  Exclusive(u)
  BY DEF Idle, Exclusive

\* A dialog opens over nothing else, and never for a remote host.
LEMMA DialogFollows ==
  ASSUME NEW u, Sane(u), Idle(u), ~mode.remote, NEW action \in Dialogs
  PROVE  Follows(u, [u EXCEPT !.confirm = action])
  BY DEF Sane, UI, Exclusive, Follows, Idle, Nobody, Dialogs

LEMMA RequestFollows ==
  ASSUME NEW u, Sane(u), Idle(u), NEW action \in Dialogs, NEW row \in BOOLEAN
  PROVE  /\ ~mode.remote => Follows(u, RequestProcess(u, action, row))
         /\ Follows(u, RequestContainer(u, action, row))
  BY IdleExclusive, DialogFollows, NotifyFollows, SameFollows DEF RequestProcess, RequestContainer

LEMMA ToggleScopeFollows ==
  ASSUME mode \in Modes, NEW u, Sane(u), Idle(u)
  PROVE  Follows(u, ToggleKubeScope(u))
  BY IdleExclusive, SpawnFollows, NotifyFollows DEF ToggleKubeScope, Modes

LEMMA GoBackFollows ==
  ASSUME NEW u, Sane(u), Exclusive(u), u.confirm = Nobody
  PROVE  Follows(u, GoBack(u))
<1>1. CASE u.overlay = Nobody /\ u.toasts > 0
  BY <1>1 DEF GoBack, Sane, UI, Exclusive, Follows
<1> QED
  BY <1>1, CloseFollows, EditingFollows, SetFilterFollows DEF GoBack

LEMMA DispatchFollows ==
  ASSUME mode \in Modes, NEW u, Sane(u), Idle(u), NEW action, NEW row \in BOOLEAN
  PROVE  Follows(u, Dispatch(u, action, row))
<1> DEFINE v == Dispatch(u, action, row)
<1>0. Exclusive(u)
  BY IdleExclusive
<1>1. CASE action \in LocalOnly /\ mode.remote
  BY <1>0, <1>1, NotifyFollows DEF Dispatch
<1>2. CASE action \in LocalOnly /\ ~mode.remote
  <2>1. CASE action \in {"Kill", "ForceKill", "NiceDown", "NiceUp"}
    <3>1. v = RequestProcess(u, action, row)
      BY <1>2, <2>1, TabFacts DEF Dispatch, TabNames
    <3> QED
      BY <1>2, <2>1, <3>1, RequestFollows DEF Dialogs
  <2>2. CASE action \in {"ContainerStop", "ContainerKill", "ContainerRestart"}
    <3>1. v = RequestContainer(u, action, row)
      BY <1>2, <2>2, TabFacts DEF Dispatch, TabNames
    <3> QED
      BY <2>2, <3>1, RequestFollows DEF Dialogs
  <2>3. CASE action = "ToggleKubeScope"
    <3>1. v = ToggleKubeScope(u)
      BY <1>2, <2>3, TabFacts DEF Dispatch, TabNames
    <3> QED
      BY <3>1, ToggleScopeFollows
  <2> QED
    BY <1>2, <2>1, <2>2, <2>3 DEF LocalOnly
<1>3. CASE action \notin LocalOnly
  <2>1. \/ v \in {u, Quit(u), Notify(u), GoBack(u), SetFilterEditing(u, TRUE)}
        \/ \E o \in Overlays : v = OpenOverlay(u, o)
        \/ \E t \in TabSet : v = GoToTab(u, t)
        \/ \E t \in TabSet : v = SwitchSubview(u, t)
    <3>1. NeighbourTab(u, 1) \in TabSet /\ NeighbourTab(u, -1) \in TabSet
      BY NeighbourIsTab DEF Sane
    <3>2. {"Help", "Palette", "Command", "Log", "Inspector", "Actions"} = Overlays
      BY DEF Overlays
    <3>3. u.tab \in TabSet /\ "Kube" \in TabSet /\ "Gpu" \in TabSet
      BY TabFacts DEF Sane, UI
    <3>4. CASE action \in {"NextTab", "PrevTab"} \cup TabSet
      BY <1>3, <3>1, <3>4, TabFacts DEF Dispatch, TabNames
    <3>5. CASE action \in {"NextSubview", "PrevSubview", "KubeSubview", "GpuSubview"}
      BY <1>3, <3>3, <3>5, TabFacts DEF Dispatch, TabNames
    <3>6. CASE action \in {"Help", "Palette", "CommandMode", "ToggleLog", "OpenInspector", "ActionsMenu"}
      BY <1>3, <3>2, <3>6, TabFacts DEF Dispatch, TabNames
    <3>7. CASE action \notin {"NextTab", "PrevTab", "NextSubview", "PrevSubview", "KubeSubview",
                              "GpuSubview", "Help", "Palette", "CommandMode", "ToggleLog",
                              "OpenInspector", "ActionsMenu"} \cup TabSet
      BY <1>3, <3>7 DEF Dispatch, LocalOnly
    <3> QED
      BY <3>4, <3>5, <3>6, <3>7
  <2>2. ASSUME v \in {u, Quit(u), Notify(u), GoBack(u), SetFilterEditing(u, TRUE)}
        PROVE  Follows(u, v)
    BY <1>0, <2>2, SameFollows, QuitFollows, NotifyFollows, GoBackFollows, EditingFollows DEF Idle
  <2>3. ASSUME NEW o \in Overlays, v = OpenOverlay(u, o) PROVE Follows(u, v)
    BY <2>3, OpenFollows
  <2>4. ASSUME NEW t \in TabSet, v = GoToTab(u, t) \/ v = SwitchSubview(u, t) PROVE Follows(u, v)
    BY <2>4, GoToTabFollows, SubviewFollows
  <2>5. Follows(u, v)
    <3> HIDE DEF v
    <3> QED
      BY <2>1, <2>2, <2>3, <2>4
  <2> QED
    BY <2>5
<1> QED
  BY <1>1, <1>2, <1>3

LEMMA FollowsTwice ==
  ASSUME NEW u, NEW w, NEW v, Sane(u), Follows(u, w), Follows(w, v)
  PROVE  Follows(u, v)
<1>1. /\ u.started \in Nat /\ w.started \in Nat /\ v.started \in Nat
      /\ u.tasks \in Nat /\ w.tasks \in Nat /\ v.tasks \in Nat
  BY DEF Follows, Sane, UI
<1>2. v.started - v.tasks = u.started - u.tasks
  BY <1>1 DEF Follows
<1> QED
  BY <1>2 DEF Follows

-----------------------------------------------------------------------------
(* The palette.  What a remote host's palette lists opens no dialog and    *)
(* spawns nothing, although execute_invocation does not look at the mode.  *)

LEMMA CommandFollows ==
  ASSUME mode \in Modes, NEW u, Sane(u), Idle(u), NEW cmd \in Available,
         NEW row \in BOOLEAN, NEW many \in BOOLEAN, NEW tab \in TabSet
  PROVE  Follows(u, ExecuteCommand(u, cmd, row, many, tab))
<1> DEFINE v == ExecuteCommand(u, cmd, row, many, tab)
<1>0. Exclusive(u)
  BY IdleExclusive
<1>1. cmd \in RemoteBlocked => ~mode.remote
  BY DEF Available
<1>2. CASE cmd \in {"Kill", "ForceKill", "NiceDown", "NiceUp"}
  <2>1. v = RequestProcess(u, cmd, row)
    BY <1>1, <1>2 DEF ExecuteCommand, RemoteBlocked
  <2> QED
    BY <1>1, <1>2, <2>1, RequestFollows DEF RemoteBlocked, Dialogs
<1>3. CASE cmd \in {"ContainerStop", "ContainerKill", "ContainerRestart"}
  <2>1. v = RequestContainer(u, cmd, row)
    BY <1>1, <1>3 DEF ExecuteCommand, RemoteBlocked
  <2> QED
    BY <1>3, <2>1, RequestFollows DEF Dialogs
<1>4. CASE cmd = "KillNamed"
  <2> DEFINE w == IF row /\ many THEN Notify(u) ELSE u
  <2>1. v = RequestProcess(w, "Kill", row)
    BY <1>1, <1>4 DEF ExecuteCommand, RemoteBlocked
  <2>2. Follows(u, w)
    BY <1>0, NotifyFollows, SameFollows
  <2>3. Idle(w)
    BY DEF Idle, Notify, Sane, UI
  <2>4. Follows(w, RequestProcess(w, "Kill", row))
    <3> HIDE DEF w
    <3>1. Sane(w)
      BY <2>2 DEF Follows
    <3> QED
      BY <1>1, <1>4, <2>3, <3>1, RequestFollows DEF RemoteBlocked, Dialogs
  <2> QED
    BY <2>1, <2>2, <2>4, FollowsTwice
<1>5. CASE cmd \in {"StopNamed", "RestartNamed"}
  <2>1. v \in {Notify(u), [u EXCEPT !.confirm = "ContainerStop"],
               [u EXCEPT !.confirm = "ContainerRestart"]}
    BY <1>1, <1>5 DEF ExecuteCommand, RemoteBlocked
  <2> QED
    BY <1>0, <1>1, <1>5, <2>1, NotifyFollows, DialogFollows DEF RemoteBlocked, Dialogs
<1>6. CASE cmd \in {"SortBy", "SetTheme", "FilterBy", "GoToTab", "ClearFilter", "ToggleTreeView"}
  <2>1. \/ v \in {Notify(u), SetFilter(u, many), SetFilter(u, FALSE)}
        \/ v \in {GoToTab(u, tab), GoToTab(u, "Processes")}
    BY <1>6 DEF ExecuteCommand, RemoteBlocked
  <2> QED
    BY <1>0, <2>1, NotifyFollows, SetFilterFollows, GoToTabFollows, TabFacts
<1>7. CASE cmd \in {"KubeSubview", "KubeToggleScope"}
  <2> DEFINE w == GoToTab(u, "Kube")
  <2>1. v \in {SwitchSubview(w, "Kube"), ToggleKubeScope(w)}
    BY <1>1, <1>7 DEF ExecuteCommand, RemoteBlocked
  <2>2. Follows(u, w) /\ Idle(w)
    BY GoToTabFollows, TabFacts
  <2>3. Follows(w, SwitchSubview(w, "Kube")) /\ Follows(w, ToggleKubeScope(w))
    <3> HIDE DEF w
    <3>1. Sane(w)
      BY <2>2 DEF Follows
    <3> QED
      BY <2>2, <3>1, SubviewFollows, ToggleScopeFollows
  <2> QED
    BY <2>1, <2>2, <2>3, FollowsTwice
<1>8. CASE cmd = "SwitchToGpu"
  <2>1. v = [u EXCEPT !.tab = "Gpu"]
    BY <1>8 DEF ExecuteCommand, RemoteBlocked
  <2> QED
    BY <2>1, TabFacts DEF Sane, UI, Exclusive, Follows, Idle
<1>9. CASE cmd \notin {"Kill", "ForceKill", "NiceDown", "NiceUp", "ContainerStop", "ContainerKill",
                       "ContainerRestart", "KillNamed", "StopNamed", "RestartNamed", "SortBy",
                       "SetTheme", "FilterBy", "GoToTab", "ClearFilter", "ToggleTreeView",
                       "KubeSubview", "KubeToggleScope", "SwitchToGpu"}
  <2>1. v = Dispatch(u, cmd, row)
    BY <1>9 DEF ExecuteCommand, RemoteBlocked
  <2> QED
    BY <2>1, DispatchFollows
<1> QED
  BY <1>2, <1>3, <1>4, <1>5, <1>6, <1>7, <1>8, <1>9

-----------------------------------------------------------------------------
(* Keys.                                                                   *)

\* A dialog is answered by closing it; a container action then needs an engine.
LEMMA ConfirmFollows ==
  ASSUME mode \in Modes, NEW u, Sane(u), Exclusive(u), NEW key
  PROVE  Follows(u, ConfirmKey(u, key))
<1> DEFINE w == [u EXCEPT !.confirm = Nobody]
<1>1. Follows(u, w) /\ Exclusive(w)
  BY DEF Sane, UI, Exclusive, Follows
<1>2. Follows(w, Notify(w)) /\ (mode.containers => Follows(w, Spawn(w)))
  <2> HIDE DEF w
  <2>1. Sane(w)
    BY <1>1 DEF Follows
  <2>2. mode.containers => ~mode.remote
    BY DEF Modes
  <2> QED
    BY <1>1, <2>1, <2>2, NotifyFollows, SpawnFollows
<1>3. Follows(u, ExecuteConfirm(u))
  <2>1. ExecuteConfirm(u) = Notify(w) \/ (mode.containers /\ ExecuteConfirm(u) = Spawn(w))
    BY DEF ExecuteConfirm
  <2> HIDE DEF w
  <2> QED
    BY <1>1, <1>2, <2>1, FollowsTwice
<1>4. ConfirmKey(u, key) \in {ExecuteConfirm(u), w, u}
  BY DEF ConfirmKey
<1> QED
  BY <1>1, <1>3, <1>4, SameFollows

LEMMA FilterKeyFollows ==
  ASSUME NEW u, Sane(u), Exclusive(u), u.confirm = Nobody, u.overlay = Nobody,
         NEW key, NEW nonempty \in BOOLEAN
  PROVE  Follows(u, FilterKey(u, key, nonempty))
<1>1. FilterKey(u, key, nonempty)
        \in {u, SetFilterEditing(u, FALSE), SetFilter(u, nonempty), SetFilter(u, TRUE)}
  BY DEF FilterKey
<1> QED
  BY <1>1, SameFollows, EditingFollows, SetFilterFollows

LEMMA PressFollows ==
  ASSUME mode \in Modes, NEW u, Sane(u), Exclusive(u), NEW key, NEW row \in BOOLEAN
  PROVE  Follows(u, Press(u, key, row))
<1> DEFINE v == Press(u, key, row)
<1>1. CASE key = "Ctrl+C"
  BY <1>1, QuitFollows DEF Press
<1>2. CASE key # "Ctrl+C" /\ u.confirm # Nobody
  <2>1. v = ConfirmKey(u, key)
    BY <1>2 DEF Press, Owner
  <2> QED
    BY <2>1, ConfirmFollows
<1>3. CASE key # "Ctrl+C" /\ u.confirm = Nobody /\ u.overlay # Nobody
  <2>1. u.overlay \in Overlays /\ Owner(u) = u.overlay
    BY <1>3 DEF Owner, Sane, UI
  <2>2. v \in {u, CloseOverlay(u), Notify(u)}
    BY <1>3, <2>1 DEF Press, ScrollableKey, Overlays
  <2> QED
    BY <2>2, SameFollows, CloseFollows, NotifyFollows
<1>4. CASE key # "Ctrl+C" /\ u.confirm = Nobody /\ u.overlay = Nobody /\ FilterEditing(u)
  <2>1. v = FilterKey(u, key, row)
    BY <1>4 DEF Press, Owner
  <2> QED
    BY <1>4, <2>1, FilterKeyFollows
<1>5. CASE key # "Ctrl+C" /\ u.confirm = Nobody /\ u.overlay = Nobody /\ ~FilterEditing(u)
  <2>1. v = u \/ v = Dispatch(u, Resolve[key][u.tab], row)
    BY <1>5 DEF Press, Owner
  <2>2. Idle(u)
    BY <1>5 DEF FilterEditing, Exclusive, Idle
  <2> QED
    BY <2>1, <2>2, SameFollows, DispatchFollows
<1> QED
  BY <1>1, <1>2, <1>3, <1>4, <1>5

-----------------------------------------------------------------------------
(* The inductive invariant.                                                *)

LEMMA InvInit == Init => IInv
<1> SUFFICES ASSUME Init PROVE IInv
  OBVIOUS
<1>1. Tabs[1] \in TabSet
  BY ModesAssumption DEF TabSet
<1>2. /\ ui.tab = Tabs[1] /\ ui.overlay = Nobody /\ ui.confirm = Nobody /\ ui.editing = {}
      /\ ui.filtered \in SUBSET {"Processes"} /\ ui.toasts = 0
      /\ ui.running = TRUE /\ ui.cancelled = FALSE /\ ui.tasks = 0 /\ ui.started = 0
  BY DEF Init
<1>3. ui \in UI
  <2>a. ui.filtered \in SUBSET Filters
    BY <1>2, TabFacts
  <2>b. ui.toasts \in Nat /\ ui.tasks \in Nat /\ ui.started \in Nat
    BY <1>2
  <2>c. ui.running \in BOOLEAN /\ ui.cancelled \in BOOLEAN
    BY <1>2
  <2>d. /\ ui.tab \in TabSet /\ ui.overlay \in Overlays \cup {Nobody}
        /\ ui.confirm \in Dialogs \cup {Nobody} /\ ui.editing \in SUBSET Filters
    BY <1>1, <1>2
  <2>2. ui = [tab |-> ui.tab, overlay |-> ui.overlay, confirm |-> ui.confirm,
              editing |-> ui.editing, filtered |-> ui.filtered, toasts |-> ui.toasts,
              running |-> ui.running, cancelled |-> ui.cancelled,
              tasks |-> ui.tasks, started |-> ui.started]
    BY DEF Init
  <2> QED
    BY <2>a, <2>b, <2>c, <2>d, <2>2 DEF UI
<1> QED
  BY <1>2, <1>3 DEF Init, IInv, Sane, Exclusive, RemoteReadOnly, OutcomesAccounted

\* A handler ran: the invariant holds of what it left, and no outcome moved.
LEMMA HandlerStep ==
  ASSUME IInv, Follows(ui, ui'), UNCHANGED <<mode, results, reported>>
  PROVE  IInv'
<1>1. mode' = mode /\ results' = results /\ reported' = reported
  OBVIOUS
<1>2. Sane(ui') /\ Exclusive(ui')
  BY DEF Follows
<1>3. RemoteReadOnly'
  BY <1>1 DEF IInv, RemoteReadOnly, Follows
<1>4. OutcomesAccounted'
  <2>1. /\ ui.started \in Nat /\ ui.tasks \in Nat /\ ui'.started \in Nat /\ ui'.tasks \in Nat
        /\ results \in Nat /\ reported \in Nat
    BY <1>2 DEF IInv, Sane, UI
  <2>2. ui'.started - ui'.tasks = ui.started - ui.tasks /\ (ui'.running => ui.running)
    BY DEF Follows
  <2> QED
    BY <1>1, <2>1, <2>2 DEF IInv, OutcomesAccounted
<1> QED
  BY <1>1, <1>2, <1>3, <1>4 DEF IInv, Sane, Exclusive

LEMMA InvStep == IInv /\ [Next]_vars => IInv'
<1> SUFFICES ASSUME IInv, [Next]_vars PROVE IInv'
  OBVIOUS
<1>0. mode \in Modes /\ Sane(ui) /\ Exclusive(ui)
  BY DEF IInv
<1>1. CASE Key
  <2>1. PICK key \in AllKeys, row \in BOOLEAN : ui' = Press(ui, key, row)
    BY <1>1 DEF Key
  <2> QED
    BY <1>0, <1>1, <2>1, PressFollows, HandlerStep DEF Key
<1>2. CASE PaletteEnter
  <2>1. PICK cmd \in Available, row \in BOOLEAN, many \in BOOLEAN, tab \in TabSet :
          ui' = ExecuteCommand(CloseOverlay(ui), cmd, row, many, tab)
    BY <1>2 DEF PaletteEnter
  <2>2. Follows(ui, CloseOverlay(ui)) /\ Idle(CloseOverlay(ui))
    BY <1>0, <1>2, CloseFollows DEF PaletteEnter, Owner, Nobody
  <2>3. Follows(CloseOverlay(ui), ui')
    BY <1>0, <2>1, <2>2, CommandFollows DEF Follows
  <2> QED
    BY <1>0, <1>2, <2>2, <2>3, FollowsTwice, HandlerStep DEF PaletteEnter
<1>3. CASE MenuEnter
  <2>1. PICK action \in TabActions(ui), row \in BOOLEAN :
          ui' = Dispatch(CloseOverlay(ui), action, row)
    BY <1>3 DEF MenuEnter
  <2>2. Follows(ui, CloseOverlay(ui)) /\ Idle(CloseOverlay(ui))
    BY <1>0, <1>3, CloseFollows DEF MenuEnter, Owner, Nobody
  <2>3. Follows(CloseOverlay(ui), ui')
    BY <1>0, <2>1, <2>2, DispatchFollows DEF Follows
  <2> QED
    BY <1>0, <1>3, <2>2, <2>3, FollowsTwice, HandlerStep DEF MenuEnter
<1>4. CASE ToastExpires
  <2>1. Follows(ui, ui')
    BY <1>0, <1>4 DEF ToastExpires, Sane, UI, Exclusive, Follows
  <2> QED
    BY <1>4, <2>1, HandlerStep DEF ToastExpires
<1>5. CASE TaskAnswers \/ TaskAborts
  <2>1. /\ mode' = mode /\ reported' = reported /\ ui.tasks > 0
        /\ ui' = [ui EXCEPT !.tasks = @ - 1]
        /\ results' = results + 1 \/ (results' = results /\ ui.cancelled)
    BY <1>5 DEF TaskAnswers, TaskAborts
  <2>2. /\ ui.tasks \in Nat /\ ui.tasks - 1 \in Nat /\ ui.started \in Nat
        /\ results \in Nat /\ reported \in Nat
    BY <1>0, <2>1 DEF IInv, Sane, UI
  <2>3. ui' \in UI /\ ui'.tasks = ui.tasks - 1
    BY <1>0, <2>1, <2>2 DEF Sane, UI
  <2>4. /\ ui'.running = ui.running /\ ui'.cancelled = ui.cancelled /\ ui'.tab = ui.tab
        /\ ui'.confirm = ui.confirm /\ ui'.overlay = ui.overlay /\ ui'.editing = ui.editing
        /\ ui'.started = ui.started
    BY <1>0, <2>1 DEF Sane, UI
  <2>5. OutcomesAccounted'
    BY <1>0, <2>1, <2>2, <2>3, <2>4 DEF IInv, OutcomesAccounted, Sane
  <2>6. results' \in Nat /\ reported' \in Nat
    BY <2>1, <2>2
  <2> QED
    BY <2>1, <2>3, <2>4, <2>5, <2>6 DEF IInv, Sane, Exclusive, RemoteReadOnly
<1>6. CASE Pump
  <2>1. /\ mode' = mode /\ reported' = reported + results /\ results' = 0
        /\ ui' = [ui EXCEPT !.toasts = IF @ + results < MaxActive THEN @ + results ELSE MaxActive]
    BY <1>6 DEF Pump
  <2>2. /\ ui.tasks \in Nat /\ ui.started \in Nat /\ ui.toasts \in Nat
        /\ results \in Nat /\ reported \in Nat /\ MaxActive \in Nat
    BY <1>0, ModesAssumption DEF IInv, Sane, UI
  <2>3. ui' \in UI
    BY <1>0, <2>1, <2>2 DEF Sane, UI
  <2>4. /\ ui'.running = ui.running /\ ui'.cancelled = ui.cancelled /\ ui'.tab = ui.tab
        /\ ui'.confirm = ui.confirm /\ ui'.overlay = ui.overlay /\ ui'.editing = ui.editing
        /\ ui'.started = ui.started /\ ui'.tasks = ui.tasks
    BY <1>0, <2>1 DEF Sane, UI
  <2>5. OutcomesAccounted' /\ results' \in Nat /\ reported' \in Nat
    BY <2>1, <2>2, <2>4 DEF IInv, OutcomesAccounted
  <2> QED
    BY <2>1, <2>3, <2>4, <2>5 DEF IInv, Sane, Exclusive, RemoteReadOnly
<1>7. CASE UNCHANGED vars
  BY <1>7 DEF vars, IInv, Sane, Exclusive, RemoteReadOnly, OutcomesAccounted
<1> QED
  BY <1>1, <1>2, <1>3, <1>4, <1>5, <1>6, <1>7 DEF Next, Exited

LEMMA Invariance == Spec => []IInv
  BY InvInit, InvStep, PTL DEF Spec

\* "One enum means one answer" (app.rs): whatever keys, menus and palette
\* commands came before, in any order and on any tabs, at most one of the dialog,
\* an overlay and an input is open, and the layer on top gets the keys.
THEOREM OneOwnerOfKeys == Spec => []OneOwner
<1>1. IInv => OneOwner
  BY DEF IInv, Sane, UI, Exclusive, OneOwner, TopLayer, Owner, Nobody, Overlays
<1> QED
  BY <1>1, Invariance, PTL

\* "muxtop is a viewer there": no route opens a dialog or spawns an action for a
\* remote host (dispatch, execute_command, execute_invocation, the menu).
THEOREM RemoteIsReadOnly == Spec => []RemoteReadOnly
<1>1. IInv => RemoteReadOnly
  BY DEF IInv
<1> QED
  BY <1>1, Invariance, PTL

\* No outcome of a confirmed action is lost between the task that sends it and
\* pump_action_results, for any number of tasks answering in any order.
THEOREM NoOutcomeLost == Spec => []OutcomesAccounted
<1>1. IInv => OutcomesAccounted
  BY DEF IInv
<1> QED
  BY <1>1, Invariance, PTL

-----------------------------------------------------------------------------
(* The key map: the first binding that matches wins, so Esc means Back only *)
(* if no binding before it takes Esc.                                      *)

\* Some bindings, none of them of Esc.
WithoutEsc(s) ==
  /\ s \in Seq({s[i] : i \in DOMAIN s})
  /\ \A i \in 1..Len(s) : s[i].key # "Esc"

LEMMA FunctionIsSeq ==
  ASSUME NEW n \in Nat, NEW T, NEW f \in [1..n -> T]
  PROVE  f \in Seq(T) /\ Len(f) = n
  OBVIOUS

LEMMA ConcatFacts ==
  ASSUME NEW S, NEW s \in Seq(S), NEW t \in Seq(S)
  PROVE  /\ DOMAIN (s \o t) = 1..(Len(s) + Len(t))
         /\ \A i \in 1..Len(s) : (s \o t)[i] = s[i]
         /\ \A i \in 1..Len(t) : (s \o t)[Len(s) + i] = t[i]
  OBVIOUS

LEMMA SeqOfOwn ==
  ASSUME NEW S, NEW s \in Seq(S)
  PROVE  s \in Seq({s[i] : i \in DOMAIN s})
<1>1. s \in [1..Len(s) -> {s[i] : i \in DOMAIN s}] /\ Len(s) \in Nat
  OBVIOUS
<1> DEFINE T == {s[i] : i \in DOMAIN s}
<1> HIDE DEF T
<1>2. \A n \in Nat : \A f \in [1..n -> T] : f \in Seq(T)
  OBVIOUS
<1> QED
  BY <1>1, <1>2 DEF T

LEMMA ConcatWithoutEsc ==
  ASSUME NEW s, NEW t, WithoutEsc(s), WithoutEsc(t)
  PROVE  WithoutEsc(s \o t)
<1> DEFINE S == {s[i] : i \in DOMAIN s}
           T == {t[i] : i \in DOMAIN t}
           ST == S \cup T
<1>1. s \in Seq(S) /\ t \in Seq(T)
  BY DEF WithoutEsc
<1> HIDE DEF S, T
<1>2. s \in Seq(ST) /\ t \in Seq(ST)
  BY <1>1
<1> HIDE DEF ST
<1>3. s \o t \in Seq(ST)
  BY <1>2
<1>4. \A i \in 1..Len(s \o t) : (s \o t)[i].key # "Esc"
  BY <1>2 DEF WithoutEsc
<1> QED
  BY <1>3, <1>4, SeqOfOwn, ZenonT(60) DEF WithoutEsc

LEMMA KeysWithoutEsc ==
  ASSUME NEW scope, NEW pairs, NEW n \in Nat, DOMAIN pairs = 1..n,
         \A i \in 1..n : pairs[i][1] # "Esc"
  PROVE  WithoutEsc(Keys(scope, pairs)) /\ WithoutEsc(MenuKeys(scope, pairs))
<1> DEFINE B == {Bind(pairs[i][1], pairs[i][2], scope, FALSE) : i \in 1..n}
           M == {Bind(pairs[i][1], pairs[i][2], scope, TRUE) : i \in 1..n}
<1>1. Keys(scope, pairs) \in [1..n -> B] /\ MenuKeys(scope, pairs) \in [1..n -> M]
  BY DEF Keys, MenuKeys
<1>2. \A i \in 1..n : /\ Keys(scope, pairs)[i].key # "Esc"
                      /\ MenuKeys(scope, pairs)[i].key # "Esc"
  BY DEF Keys, MenuKeys, Bind
<1> HIDE DEF B, M
<1>3. /\ \A s \in [1..n -> B] : s \in Seq(B) /\ Len(s) = n
      /\ \A s \in [1..n -> M] : s \in Seq(M) /\ Len(s) = n
  OBVIOUS
<1> QED
  BY <1>1, <1>2, <1>3, SeqOfOwn, SMTT(40) DEF WithoutEsc

LEMMA ProcessKeysWithoutEsc == WithoutEsc(ProcessKeys)
<1> DEFINE toggles == << <<"t", "ToggleTree">>, <<"F5", "ToggleTree">> >>
           f7 == << <<"F7", "NiceDown">> >>
           minus == << <<"-", "NiceDown">> >>
           f8 == << <<"F8", "NiceUp">> >>
           plus == << <<"+", "NiceUp">> >>
           kills == << <<"F9", "Kill">>, <<"F10", "ForceKill">> >>
<1>1. /\ DOMAIN toggles = 1..2 /\ DOMAIN kills = 1..2
      /\ DOMAIN f7 = 1..1 /\ DOMAIN minus = 1..1 /\ DOMAIN f8 = 1..1 /\ DOMAIN plus = 1..1
  OBVIOUS
<1>2. \A i \in 1..2 : toggles[i][1] # "Esc" /\ kills[i][1] # "Esc"
  OBVIOUS
<1>3. \A i \in 1..1 : /\ f7[i][1] # "Esc" /\ minus[i][1] # "Esc"
                      /\ f8[i][1] # "Esc" /\ plus[i][1] # "Esc"
  OBVIOUS
<1>4. ProcessKeys = Keys("Processes", toggles) \o MenuKeys("Processes", f7)
                      \o Keys("Processes", minus) \o MenuKeys("Processes", f8)
                      \o Keys("Processes", plus) \o MenuKeys("Processes", kills)
  BY DEF ProcessKeys
<1> HIDE DEF toggles, f7, minus, f8, plus, kills
<1>5. /\ WithoutEsc(Keys("Processes", toggles)) /\ WithoutEsc(MenuKeys("Processes", f7))
      /\ WithoutEsc(Keys("Processes", minus)) /\ WithoutEsc(MenuKeys("Processes", f8))
      /\ WithoutEsc(Keys("Processes", plus)) /\ WithoutEsc(MenuKeys("Processes", kills))
  BY <1>1, <1>2, <1>3, KeysWithoutEsc
<1> QED
  BY <1>4, <1>5, ConcatWithoutEsc

LEMMA ContainerKeysWithoutEsc == WithoutEsc(ContainerKeys)
<1> DEFINE pairs == << <<"F9", "ContainerStop">>, <<"F10", "ContainerKill">>,
                   <<"F11", "ContainerRestart">> >>
<1>1. DOMAIN pairs = 1..3 /\ ContainerKeys = MenuKeys("Containers", pairs)
  BY DEF ContainerKeys
<1>2. \A i \in 1..3 : i \in {1, 2, 3}
  OBVIOUS
<1>3. \A i \in {1, 2, 3} : pairs[i][1] # "Esc"
  OBVIOUS
<1> HIDE DEF pairs
<1> QED
  BY <1>1, <1>2, <1>3, KeysWithoutEsc

LEMMA KubeKeysWithoutEsc == WithoutEsc(KubeKeys)
<1> DEFINE views == << <<"P", "KubeSubview">>, <<"N", "KubeSubview">>, <<"D", "KubeSubview">> >>
           scope == << <<"A", "ToggleKubeScope">> >>
<1>1. /\ DOMAIN views = 1..3 /\ DOMAIN scope = 1..1
      /\ KubeKeys = Keys("Kube", views) \o MenuKeys("Kube", scope)
  BY DEF KubeKeys
<1>2. (\A i \in 1..3 : views[i][1] # "Esc") /\ (\A i \in 1..1 : scope[i][1] # "Esc")
  OBVIOUS
<1> HIDE DEF views, scope
<1> QED
  BY <1>1, <1>2, KeysWithoutEsc, ConcatWithoutEsc

LEMMA GpuKeysWithoutEsc == WithoutEsc(GpuKeys)
<1> DEFINE pairs == << <<"D", "GpuSubview">>, <<"P", "GpuSubview">> >>
<1>1. DOMAIN pairs = 1..2 /\ GpuKeys = Keys("Gpu", pairs)
  BY DEF GpuKeys
<1>2. \A i \in 1..2 : i \in {1, 2}
  OBVIOUS
<1>3. \A i \in {1, 2} : pairs[i][1] # "Esc"
  OBVIOUS
<1> HIDE DEF pairs
<1> QED
  BY <1>1, <1>2, <1>3, KeysWithoutEsc

LEMMA AppKeysWithoutEsc == WithoutEsc(AppKeys)
<1> DEFINE pairs == << <<"q", "Quit">>, <<"Ctrl+C", "Quit">>, <<"?", "Help">>, <<"F1", "Help">>,
                     <<"Ctrl+P", "Palette">>, <<"Ctrl+K", "Palette">>, <<":", "CommandMode">>,
                     <<"Space", "TogglePause">>, <<"r", "Refresh">>, <<"Ctrl+L", "ToggleLog">> >>
<1>1. DOMAIN pairs = 1..10 /\ AppKeys = Keys("Global", pairs)
  BY DEF AppKeys
<1>2. \A i \in 1..10 : i \in {1, 2, 3, 4, 5, 6, 7, 8, 9, 10}
  OBVIOUS
<1>3. \A i \in {1, 2, 3, 4, 5, 6, 7, 8, 9, 10} : pairs[i][1] # "Esc"
  OBVIOUS
<1> HIDE DEF pairs
<1> QED
  BY <1>1, <1>2, <1>3, KeysWithoutEsc

LEMMA TabKeysWithoutEsc == WithoutEsc(TabKeys)
<1> DEFINE pairs == << <<"Tab", "NextTab">>, <<"BackTab", "PrevTab">>,
                     <<"Alt+1", "General">>, <<"Alt+2", "Processes">>, <<"Alt+3", "Network">>,
                     <<"Alt+4", "Containers">>, <<"Alt+5", "Kube">>, <<"Alt+6", "Gpu">>,
                     <<"]", "NextSubview">>, <<"[", "PrevSubview">> >>
<1>1. DOMAIN pairs = 1..10 /\ TabKeys = Keys("Global", pairs)
  BY DEF TabKeys
<1>2. \A i \in 1..10 : i \in {1, 2, 3, 4, 5, 6, 7, 8, 9, 10}
  OBVIOUS
<1>3. \A i \in {1, 2, 3, 4, 5, 6, 7, 8, 9, 10} : pairs[i][1] # "Esc"
  OBVIOUS
<1> HIDE DEF pairs
<1> QED
  BY <1>1, <1>2, <1>3, KeysWithoutEsc

LEMMA RowKeysWithoutEsc == WithoutEsc(RowKeys)
<1> DEFINE cursor == <<"j", "Down", "k", "Up", "PageDown", "PageUp", "Ctrl+D", "Ctrl+U",
                       "g", "Home", "G", "End", "h", "Left", "l", "Right">>
           pairs == [i \in DOMAIN cursor |-> <<cursor[i], "MoveCursor">>]
<1>1. DOMAIN cursor = 1..16 /\ RowKeys = Keys("Global", pairs)
  BY DEF RowKeys
<1>2. \A i \in 1..16 : i \in {1, 2, 3, 4, 5, 6, 7, 8, 9, 10, 11, 12, 13, 14, 15, 16}
  OBVIOUS
<1>3. \A i \in {1, 2, 3, 4, 5, 6, 7, 8, 9, 10, 11, 12, 13, 14, 15, 16} : cursor[i] # "Esc"
  OBVIOUS
<1> HIDE DEF cursor
<1>4. DOMAIN pairs = 1..16 /\ \A i \in 1..16 : pairs[i][1] # "Esc"
  BY <1>1, <1>2, <1>3
<1> HIDE DEF pairs
<1> QED
  BY <1>1, <1>4, KeysWithoutEsc

LEMMA SelectionKeysWithoutEsc == WithoutEsc(SelectionKeys)
<1> DEFINE pairs == << <<"Enter", "OpenInspector">>, <<"i", "OpenInspector">>,
                     <<"x", "ActionsMenu">>, <<"y", "CopySelection">> >>
<1>1. DOMAIN pairs = 1..4 /\ SelectionKeys = Keys("Global", pairs)
  BY DEF SelectionKeys
<1>2. \A i \in 1..4 : i \in {1, 2, 3, 4}
  OBVIOUS
<1>3. \A i \in {1, 2, 3, 4} : pairs[i][1] # "Esc"
  OBVIOUS
<1> HIDE DEF pairs
<1> QED
  BY <1>1, <1>2, <1>3, KeysWithoutEsc

\* Whatever the tab, Esc has one binding, the last of the table.
LEMMA EscIsBack ==
  /\ "Esc" \in BoundKeys
  /\ \A t \in TabNames : Resolve["Esc"][t] = "Back"
<1> DEFINE first == ProcessKeys \o ContainerKeys \o KubeKeys \o GpuKeys
                      \o AppKeys \o TabKeys \o RowKeys \o SelectionKeys
<1>1. WithoutEsc(first) /\ Bindings = first \o FilterKeys
  <2>1. WithoutEsc(first)
    BY ProcessKeysWithoutEsc, ContainerKeysWithoutEsc, KubeKeysWithoutEsc, GpuKeysWithoutEsc,
       AppKeysWithoutEsc, TabKeysWithoutEsc, RowKeysWithoutEsc, SelectionKeysWithoutEsc,
       ConcatWithoutEsc
  <2> QED
    BY <2>1 DEF Bindings
<1> HIDE DEF first
<1> DEFINE pairs == << <<"/", "OpenFilter">>, <<"F4", "OpenFilter">>, <<"F3", "OpenFilter">>,
                       <<"s", "Sort">>, <<"F6", "Sort">>, <<"S", "Sort">>, <<"I", "Sort">>,
                       <<"Esc", "Back">> >>
<1>2. DOMAIN pairs = 1..8 /\ FilterKeys = Keys("Global", pairs) /\ pairs[8] = <<"Esc", "Back">>
  BY DEF FilterKeys
<1>3. \A i \in 1..7 : i \in {1, 2, 3, 4, 5, 6, 7}
  OBVIOUS
<1>4. \A i \in {1, 2, 3, 4, 5, 6, 7} : pairs[i][1] # "Esc"
  OBVIOUS
<1> HIDE DEF pairs
<1>5. /\ \A i \in 1..7 : FilterKeys[i].key # "Esc"
      /\ FilterKeys[8] = [key |-> "Esc", action |-> "Back", scope |-> "Global", menu |-> FALSE]
  <2>1. \A i \in 1..8 : FilterKeys[i] = Bind(pairs[i][1], pairs[i][2], "Global", FALSE)
    BY <1>2 DEF Keys
  <2>2. \A i \in 1..7 : FilterKeys[i].key # "Esc"
    BY <1>3, <1>4, <2>1 DEF Bind
  <2>3. FilterKeys[8] = Bind("Esc", "Back", "Global", FALSE)
    <3>1. pairs[8][1] = "Esc" /\ pairs[8][2] = "Back"
      BY <1>2
    <3>2. FilterKeys[8] = Bind(pairs[8][1], pairs[8][2], "Global", FALSE)
      <4>1. 8 \in 1..8
        OBVIOUS
      <4> QED
        BY <2>1, <4>1, Zenon
    <3> QED
      BY <3>1, <3>2 DEF Bind
  <2> QED
    BY <2>2, <2>3 DEF Bind
<1> DEFINE T == {FilterKeys[i] : i \in 1..8}
<1>6. FilterKeys \in Seq(T) /\ Len(FilterKeys) = 8
  <2>1. FilterKeys \in [1..8 -> T]
    BY <1>2 DEF Keys
  <2> HIDE DEF T
  <2> QED
    BY <2>1, FunctionIsSeq
<1> DEFINE n == Len(first)
           S == {first[i] : i \in DOMAIN first}
           ST == S \cup T
<1>7. first \in Seq(S) /\ n \in Nat
  BY <1>1 DEF WithoutEsc
<1> HIDE DEF S, T
<1>8. first \in Seq(ST) /\ FilterKeys \in Seq(ST)
  BY <1>6, <1>7
<1> HIDE DEF ST
<1>9. /\ DOMAIN Bindings = 1..(n + 8)
      /\ \A i \in 1..n : Bindings[i] = first[i]
      /\ \A i \in 1..8 : Bindings[n + i] = FilterKeys[i]
  <2>1. /\ DOMAIN (first \o FilterKeys) = 1..(Len(first) + Len(FilterKeys))
        /\ \A i \in 1..Len(first) : (first \o FilterKeys)[i] = first[i]
        /\ \A i \in 1..Len(FilterKeys) : (first \o FilterKeys)[Len(first) + i] = FilterKeys[i]
    BY <1>8, ConcatFacts
  <2> QED
    BY <1>1, <1>6, <2>1
<1>10. /\ \A i \in 1..(n + 7) : Bindings[i].key # "Esc"
       /\ Bindings[n + 8] = [key |-> "Esc", action |-> "Back", scope |-> "Global", menu |-> FALSE]
  <2>1. \A i \in 1..n : Bindings[i].key # "Esc"
    BY <1>1, <1>7, <1>9 DEF WithoutEsc
  <2>2. \A i \in 1..7 : Bindings[n + i].key # "Esc"
    BY <1>5, <1>9
  <2>3. Bindings[n + 8] = FilterKeys[8]
    BY <1>9
  <2>4. \A i \in 1..(n + 7) : i \in 1..n \/ \E k \in 1..7 : i = n + k
    <3> TAKE i \in 1..(n + 7)
    <3> SUFFICES ASSUME i \notin 1..n PROVE \E k \in 1..7 : i = n + k
      OBVIOUS
    <3>1. i - n \in 1..7 /\ i = n + (i - n)
      BY <1>7
    <3> QED
      BY <3>1
  <2> QED
    BY <1>5, <2>1, <2>2, <2>3, <2>4
<1> HIDE DEF n
<1>11. "Esc" \in BoundKeys
  <2>1. n + 8 \in DOMAIN Bindings /\ Bindings[n + 8].key = "Esc"
    BY <1>7, <1>9, <1>10
  <2> QED
    BY <2>1 DEF BoundKeys
<1>12. ASSUME NEW t \in TabNames PROVE Resolve["Esc"][t] = "Back"
  <2> DEFINE hits == {i \in DOMAIN Bindings : Bindings[i].key = "Esc" /\ InScope(Bindings[i], t)}
             least == CHOOSE i \in hits : \A j \in hits : i <= j
  <2>1. hits = {n + 8}
    BY <1>7, <1>9, <1>10 DEF InScope
  <2>2. Resolve["Esc"][t] = IF hits = {} THEN NoAction ELSE Bindings[least].action
    BY <1>11, <1>12, AllTabNames DEF Resolve
  <2> HIDE DEF hits
  <2>3. least = n + 8
    BY <1>7, <2>1
  <2> HIDE DEF least
  <2>4. Bindings[least].action = "Back"
    BY <1>10, <2>3
  <2> QED
    BY <2>1, <2>2, <2>4
<1> QED
  BY <1>11, <1>12

-----------------------------------------------------------------------------
(* Esc.                                                                    *)

Layers == {"confirm", "overlay", "input", "toasts", "filter"}

LEMMA LayerFacts ==
  ASSUME NEW u
  PROVE  /\ LayersOf(u) \subseteq Layers
         /\ "confirm" \in LayersOf(u) <=> u.confirm # Nobody
         /\ "overlay" \in LayersOf(u) <=> u.overlay # Nobody
         /\ "input" \in LayersOf(u) <=> FilterEditing(u)
         /\ "toasts" \in LayersOf(u) <=> u.toasts > 0
         /\ "filter" \in LayersOf(u) <=> FilterOf(u.tab) \in u.filtered
  BY DEF LayersOf, Layers

\* Two sets of layers that agree on all layers but one.
LEMMA LayerRemoved ==
  ASSUME NEW A \in SUBSET Layers, NEW B \in SUBSET Layers, NEW l \in A, l \notin B,
         \A k \in Layers \ {l} : k \in A <=> k \in B
  PROVE  Cardinality(A) # 0 /\ Cardinality(B) = Cardinality(A) - 1
<1>1. B = A \ {l} /\ A # {}
  OBVIOUS
<1>2. IsFiniteSet(Layers)
  <2> DEFINE two == {"confirm"} \cup {"overlay"}
             three == two \cup {"input"}
             four == three \cup {"toasts"}
  <2>1. Layers = four \cup {"filter"}
    BY DEF Layers
  <2>2. IsFiniteSet({"confirm"})
    BY FS_Singleton
  <2>3. IsFiniteSet(two)
    BY <2>2, FS_AddElement
  <2>4. IsFiniteSet(three)
    BY <2>3, FS_AddElement
  <2>5. IsFiniteSet(four)
    BY <2>4, FS_AddElement
  <2> HIDE DEF four
  <2> QED
    BY <2>1, <2>5, FS_AddElement
<1>3. IsFiniteSet(A)
  BY <1>2, FS_Subset
<1> QED
  BY <1>1, <1>3, FS_EmptySet, FS_RemoveElement

\* What Esc does to an open dialog, overlay, input, toast or filter, in that order.
LEMMA EscPeels ==
  ASSUME NEW u \in UI, Exclusive(u)
  PROVE  LET v == Press(u, "Esc", FALSE) IN
         /\ v.running = u.running
         /\ \/ LayersOf(u) = {} /\ LayersOf(v) = {}
            \/ \E l \in LayersOf(u) :
                 /\ l \notin LayersOf(v)
                 /\ \A k \in Layers \ {l} : k \in LayersOf(u) <=> k \in LayersOf(v)
<1> DEFINE v == Press(u, "Esc", FALSE)
<1>1. CASE u.confirm # Nobody
  <2>1. v = [u EXCEPT !.confirm = Nobody]
    BY <1>1 DEF Press, Owner, ConfirmKey
  <2> HIDE DEF v
  <2>2. /\ v.running = u.running /\ v.confirm = Nobody /\ v.overlay = u.overlay
        /\ v.toasts = u.toasts /\ v.filtered = u.filtered
        /\ FilterEditing(v) <=> FilterEditing(u)
        /\ v.tab = u.tab
    BY <2>1 DEF UI, FilterEditing
  <2>3. "confirm" \in LayersOf(u) /\ "confirm" \notin LayersOf(v)
    BY <1>1, <2>2, LayerFacts
  <2>4. \A k \in Layers \ {"confirm"} : k \in LayersOf(u) <=> k \in LayersOf(v)
    BY <2>2, LayerFacts DEF Layers
  <2> QED
    BY <2>2, <2>3, <2>4 DEF v
<1>2. CASE u.confirm = Nobody /\ u.overlay # Nobody
  <2>1. v = CloseOverlay(u)
    <3>1. Owner(u) = u.overlay /\ u.overlay \in Overlays
      BY <1>2 DEF Owner, UI
    <3> QED
      BY <3>1 DEF Press, ScrollableKey, Overlays
  <2> HIDE DEF v
  <2>2. /\ v.running = u.running /\ v.confirm = u.confirm /\ v.overlay = Nobody
        /\ v.toasts = u.toasts /\ v.filtered = u.filtered
        /\ FilterEditing(v) <=> FilterEditing(u)
        /\ v.tab = u.tab
    BY <2>1 DEF UI, FilterEditing, CloseOverlay
  <2>3. "overlay" \in LayersOf(u) /\ "overlay" \notin LayersOf(v)
    BY <1>2, <2>2, LayerFacts
  <2>4. \A k \in Layers \ {"overlay"} : k \in LayersOf(u) <=> k \in LayersOf(v)
    BY <2>2, LayerFacts DEF Layers
  <2> QED
    BY <2>2, <2>3, <2>4 DEF v
<1>3. CASE u.confirm = Nobody /\ u.overlay = Nobody /\ FilterEditing(u)
  <2>1. v = SetFilterEditing(u, FALSE)
    <3>1. v = FilterKey(u, "Esc", FALSE)
      BY <1>3 DEF Press, Owner
    <3> HIDE DEF v
    <3>2. FilterKey(u, "Esc", FALSE) = SetFilterEditing(u, FALSE)
      BY DEF FilterKey, TextKeys
    <3> QED
      BY <3>1, <3>2, Zenon
  <2> HIDE DEF v
  <2>2. /\ v.running = u.running /\ v.confirm = u.confirm /\ v.overlay = u.overlay
        /\ v.toasts = u.toasts /\ v.filtered = u.filtered
        /\ ~FilterEditing(v)
        /\ v.tab = u.tab
    BY <2>1 DEF UI, FilterEditing, SetFilterEditing
  <2>3. "input" \in LayersOf(u) /\ "input" \notin LayersOf(v)
    BY <1>3, <2>2, LayerFacts
  <2>4. \A k \in Layers \ {"input"} : k \in LayersOf(u) <=> k \in LayersOf(v)
    BY <2>2, LayerFacts DEF Layers
  <2> QED
    BY <2>2, <2>3, <2>4 DEF v
<1>4. CASE u.confirm = Nobody /\ u.overlay = Nobody /\ ~FilterEditing(u)
  <2>1. v = GoBack(u)
    <3>1. u.tab \in TabNames
      BY TabFacts DEF UI
    <3>2. v = Dispatch(u, "Back", FALSE)
      BY <1>4, <3>1, EscIsBack DEF Press, Owner
    <3> HIDE DEF v
    <3>3. "Back" \notin LocalOnly /\ "Back" \notin TabSet
      BY TabFacts DEF LocalOnly, TabNames
    <3> QED
      BY <3>2, <3>3 DEF Dispatch
  <2> HIDE DEF v
  <2>2. CASE u.toasts > 0
    <3>1. v = [u EXCEPT !.toasts = 0]
      BY <1>4, <2>1, <2>2 DEF GoBack
    <3>2. /\ v.running = u.running /\ v.confirm = u.confirm /\ v.overlay = u.overlay
          /\ v.toasts = 0 /\ v.filtered = u.filtered
          /\ FilterEditing(v) <=> FilterEditing(u)
          /\ v.tab = u.tab
      BY <3>1 DEF UI, FilterEditing
    <3>3. "toasts" \in LayersOf(u) /\ "toasts" \notin LayersOf(v)
      BY <2>2, <3>2, LayerFacts
    <3>4. \A k \in Layers \ {"toasts"} : k \in LayersOf(u) <=> k \in LayersOf(v)
      BY <3>2, LayerFacts DEF Layers
    <3> QED
      BY <3>2, <3>3, <3>4 DEF v
  <2>3. CASE ~(u.toasts > 0)
    <3>1. v = SetFilter(u, FALSE)
      BY <1>4, <2>1, <2>3 DEF GoBack
    <3>2. /\ v.running = u.running /\ v.confirm = u.confirm /\ v.overlay = u.overlay
          /\ v.toasts = u.toasts
          /\ FilterEditing(v) <=> FilterEditing(u)
          /\ v.tab = u.tab
      BY <3>1 DEF UI, FilterEditing, SetFilter
    <3>3. FilterOf(v.tab) \notin v.filtered
      BY <3>1 DEF UI, SetFilter
    <3>4. CASE FilterOf(u.tab) \in u.filtered
      <4>1. "filter" \in LayersOf(u) /\ "filter" \notin LayersOf(v)
        BY <3>3, <3>4, LayerFacts
      <4>2. \A k \in Layers \ {"filter"} : k \in LayersOf(u) <=> k \in LayersOf(v)
        BY <3>2, LayerFacts DEF Layers
      <4> QED
        BY <3>2, <4>1, <4>2 DEF v
    <3>5. CASE FilterOf(u.tab) \notin u.filtered
      <4>1. LayersOf(u) = {}
        BY <1>4, <2>3, <3>5, LayerFacts DEF Layers
      <4>2. LayersOf(v) = {}
        BY <1>4, <2>3, <3>2, <3>3, LayerFacts DEF Layers
      <4> QED
        BY <3>2, <4>1, <4>2 DEF v
    <3> QED
      BY <3>4, <3>5
  <2> QED
    BY <2>2, <2>3
<1> QED
  BY <1>1, <1>2, <1>3, <1>4

\* "one step back, every time.  It never quits" (go_back): whatever the tab, the
\* order of the tabs and the keys before, one press of Esc removes exactly one
\* layer until none is left, and the loop goes on.
THEOREM EscAlwaysStepsBack == Spec => []EscStepsBack
<1>1. IInv => EscStepsBack
  <2> SUFFICES ASSUME IInv PROVE EscStepsBack
    OBVIOUS
  <2> DEFINE after == Press(ui, "Esc", FALSE)
  <2>1. ui \in UI /\ Exclusive(ui)
    BY DEF IInv, Sane
  <2>2. /\ after.running = ui.running
        /\ \/ LayersOf(ui) = {} /\ LayersOf(after) = {}
           \/ \E l \in LayersOf(ui) :
                /\ l \notin LayersOf(after)
                /\ \A k \in Layers \ {l} : k \in LayersOf(ui) <=> k \in LayersOf(after)
    BY <2>1, EscPeels
  <2>3. LayersOf(ui) \in SUBSET Layers /\ LayersOf(after) \in SUBSET Layers
    BY LayerFacts
  <2> HIDE DEF after
  <2>4. CASE LayersOf(ui) = {} /\ LayersOf(after) = {}
    <3>1. Depth(ui) = 0 /\ Depth(after) = 0
      BY <2>4, FS_EmptySet DEF Depth
    <3> QED
      BY <2>2, <3>1 DEF EscStepsBack, after
  <2>5. CASE ~(LayersOf(ui) = {} /\ LayersOf(after) = {})
    <3>1. PICK l \in LayersOf(ui) :
            /\ l \notin LayersOf(after)
            /\ \A k \in Layers \ {l} : k \in LayersOf(ui) <=> k \in LayersOf(after)
      BY <2>2, <2>5
    <3>2. Depth(ui) # 0 /\ Depth(after) = Depth(ui) - 1
      BY <2>3, <3>1, LayerRemoved DEF Depth
    <3> QED
      BY <2>2, <3>2 DEF EscStepsBack, after
  <2> QED
    BY <2>4, <2>5
<1> QED
  BY <1>1, Invariance, PTL
=============================================================================
