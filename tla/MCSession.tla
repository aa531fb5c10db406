----------------------------- MODULE MCSession -----------------------------
(* A run of the client, and beside it the collector it stands for when it   *)
(* is local: the two specifications share no variable, so one behaviour     *)
(* follows one of them and leaves the other where it begins.                *)
EXTENDS Session, Collector

VARIABLE part

\* The cluster engine's slot is seeded and cached, the GPU's seeded and untimed; the
\* container loop is the GPU's without the wait, and its slot is not seeded.
MCOrder == <<"kube", "gpu">>

runVars == <<part, allVars, collectorVars>>

\* Where the idle half stays.
SessionIdle ==
  SessionInit /\ plan = "local"

CollectorIdle ==
  CollectorInit /\ attached = {} /\ \A e \in Engines : ~up[e]

RunInit ==
  \/ part = "session"   /\ SessionInit /\ CollectorIdle
  \/ part = "collector" /\ SessionIdle /\ CollectorInit

RunNext ==
  \/ part = "session"   /\ SessionNext   /\ UNCHANGED <<part, collectorVars>>
  \/ part = "collector" /\ CollectorNext /\ UNCHANGED <<part, allVars>>

RunSpec ==
  /\ RunInit /\ [][RunNext]_runVars
  /\ \/ part = "session"   /\ SessionFairness
     \/ part = "collector" /\ CollectorFairness
=============================================================================
