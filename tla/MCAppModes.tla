----------------------------- MODULE MCAppModes -----------------------------
(* Constants for model checking AppModes: the tabs with bindings of their  *)
(* own, and General, which shares its filter with Processes.               *)
EXTENDS AppModes

MCTabs == <<"General", "Processes", "Containers", "Kube", "Gpu">>
=============================================================================
