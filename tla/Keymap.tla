------------------------------- MODULE Keymap -------------------------------
(***************************************************************************)
(* The key map (crates/muxtop-tui/src/keymap.rs): one ordered table, the   *)
(* first binding that matches key and tab wins.  A key is named by what    *)
(* normalise leaves of it: Ctrl and Alt count, Shift on a character does   *)
(* not.                                                                    *)
(***************************************************************************)
EXTENDS Naturals, Sequences

AllTabs == <<"General", "Processes", "Network", "Containers", "Kube", "Gpu">>

\* A binding; menu says that it is in Group::Actions and primary.
Bind(key, action, scope, menu) == [key |-> key, action |-> action, scope |-> scope, menu |-> menu]

Keys(scope, pairs) ==
  [i \in DOMAIN pairs |-> Bind(pairs[i][1], pairs[i][2], scope, FALSE)]

MenuKeys(scope, pairs) ==
  [i \in DOMAIN pairs |-> Bind(pairs[i][1], pairs[i][2], scope, TRUE)]

ProcessKeys ==
  Keys("Processes", << <<"t", "ToggleTree">>, <<"F5", "ToggleTree">> >>)
    \o MenuKeys("Processes", << <<"F7", "NiceDown">> >>)
    \o Keys("Processes", << <<"-", "NiceDown">> >>)
    \o MenuKeys("Processes", << <<"F8", "NiceUp">> >>)
    \o Keys("Processes", << <<"+", "NiceUp">> >>)
    \o MenuKeys("Processes", << <<"F9", "Kill">>, <<"F10", "ForceKill">> >>)

ContainerKeys ==
  MenuKeys("Containers",
           << <<"F9", "ContainerStop">>, <<"F10", "ContainerKill">>, <<"F11", "ContainerRestart">> >>)

KubeKeys ==
  Keys("Kube", << <<"P", "KubeSubview">>, <<"N", "KubeSubview">>, <<"D", "KubeSubview">> >>)
    \o MenuKeys("Kube", << <<"A", "ToggleKubeScope">> >>)

GpuKeys == Keys("Gpu", << <<"D", "GpuSubview">>, <<"P", "GpuSubview">> >>)

AppKeys ==
  Keys("Global",
       << <<"q", "Quit">>, <<"Ctrl+C", "Quit">>, <<"?", "Help">>, <<"F1", "Help">>,
          <<"Ctrl+P", "Palette">>, <<"Ctrl+K", "Palette">>, <<":", "CommandMode">>,
          <<"Space", "TogglePause">>, <<"r", "Refresh">>, <<"Ctrl+L", "ToggleLog">> >>)

TabKeys ==
  Keys("Global",
       << <<"Tab", "NextTab">>, <<"BackTab", "PrevTab">>,
          <<"Alt+1", "General">>, <<"Alt+2", "Processes">>, <<"Alt+3", "Network">>,
          <<"Alt+4", "Containers">>, <<"Alt+5", "Kube">>, <<"Alt+6", "Gpu">>,
          <<"]", "NextSubview">>, <<"[", "PrevSubview">> >>)

\* Cursor and column keys: AppTable models what they do.
RowKeys ==
  LET cursor == <<"j", "Down", "k", "Up", "PageDown", "PageUp", "Ctrl+D", "Ctrl+U",
                  "g", "Home", "G", "End", "h", "Left", "l", "Right">>
  IN  Keys("Global", [i \in DOMAIN cursor |-> <<cursor[i], "MoveCursor">>])

SelectionKeys ==
  Keys("Global",
       << <<"Enter", "OpenInspector">>, <<"i", "OpenInspector">>, <<"x", "ActionsMenu">>,
          <<"y", "CopySelection">> >>)

FilterKeys ==
  Keys("Global",
       << <<"/", "OpenFilter">>, <<"F4", "OpenFilter">>, <<"F3", "OpenFilter">>,
          <<"s", "Sort">>, <<"F6", "Sort">>, <<"S", "Sort">>, <<"I", "Sort">>,
          <<"Esc", "Back">> >>)

Bindings ==
  ProcessKeys \o ContainerKeys \o KubeKeys \o GpuKeys
    \o AppKeys \o TabKeys \o RowKeys \o SelectionKeys \o FilterKeys

BoundKeys == {Bindings[i].key : i \in DOMAIN Bindings}

NoAction == "none"

InScope(b, tab) == b.scope \in {"Global", tab}

\* resolve, as the table it amounts to.
Resolve ==
  [key \in BoundKeys |-> [tab \in {AllTabs[i] : i \in DOMAIN AllTabs} |->
     LET hits == {i \in DOMAIN Bindings : Bindings[i].key = key /\ InScope(Bindings[i], tab)} IN
     IF hits = {} THEN NoAction
     ELSE Bindings[CHOOSE i \in hits : \A j \in hits : i <= j].action]]

\* Action::is_local_only
LocalOnly ==
  {"NiceDown", "NiceUp", "Kill", "ForceKill", "ContainerStop", "ContainerKill", "ContainerRestart",
   "ToggleKubeScope"}

\* The entries of tab_actions on a tab, before remote mode hides the local ones.
MenuOf(tab) ==
  {Bindings[i].action : i \in {j \in DOMAIN Bindings : Bindings[j].scope = tab /\ Bindings[j].menu}}
=============================================================================
