----------------------------- MODULE Processes -----------------------------
(***************************************************************************)
(* The host's processes as muxtop shows them: the rows of                  *)
(* crates/muxtop-core/src/system.rs and the tree of process.rs.  The       *)
(* collector may look at any moment, and sysinfo hands it the processes in *)
(* any order.                                                              *)
(***************************************************************************)
EXTENDS ProcessActions, Sequences, SequencesExt, FiniteSets

CONSTANTS MaxDepth,   \* MAX_DEPTH of build_process_tree
          TotalMem    \* the machine's memory; a process p maps p units of it

ASSUME ProcessesAssumption == MaxDepth \in Nat /\ TotalMem \in Nat

-----------------------------------------------------------------------------
(* system.rs and process.rs                                                *)

\* collect: one row per process, in the order sysinfo has them.
MemPct(pid) ==
  LET pct == (pid * 100) \div TotalMem
  IN  CASE TotalMem = 0 -> 0
        [] pct > 100    -> 100
        [] OTHER        -> pct

Rows(order) ==
  [i \in DOMAIN order |-> [pid |-> order[i], parent_pid |-> host[order[i]].ppid,
                           memory_percent |-> MemPct(order[i])]]

Orders(S) == {s \in [1..Cardinality(S) -> S] : \A p \in S : \E i \in DOMAIN s : s[i] = p}

PidSet(procs) == {procs[i].pid : i \in DOMAIN procs}

\* children_map, in input order
ChildrenOf(procs, pid) ==
  SelectSeq([i \in DOMAIN procs |-> i], LAMBDA i : procs[i].parent_pid = pid)

\* roots, in input order
Roots(procs) ==
  SelectSeq([i \in DOMAIN procs |-> i],
            LAMBDA i : procs[i].parent_pid = 0 \/ procs[i].parent_pid \notin PidSet(procs))

\* build_subtree flattened: the rows it lays out and the processes it has
\* placed.  A child that is placed already is skipped; so are all children at
\* the depth limit.
RECURSIVE Subtree(_, _, _, _)
Subtree(procs, idx, depth, placed) ==
  LET children == IF depth < MaxDepth THEN ChildrenOf(procs, procs[idx].pid) ELSE <<>>
      Place(acc, ci) ==
        IF ci \in acc.placed THEN acc
        ELSE LET sub == Subtree(procs, ci, depth + 1, acc.placed)
             IN  [rows |-> acc.rows \o sub.rows, placed |-> sub.placed]
  IN  FoldLeft(Place, [rows |-> <<[idx |-> idx, depth |-> depth]>>, placed |-> placed \cup {idx}],
               children)

PlaceRoot(procs, acc, idx) ==
  LET sub == Subtree(procs, idx, 0, acc.placed)
  IN  [rows |-> acc.rows \o sub.rows, placed |-> sub.placed]

\* Mutant: what the roots do not reach is dropped.
FlattenTreeOfRoots(procs) ==
  FoldLeft(LAMBDA acc, idx : PlaceRoot(procs, acc, idx),
           [rows |-> <<>>, placed |-> {}], Roots(procs)).rows

\* flatten_tree of build_process_tree: the roots, then whatever they did not
\* reach, re-rooted in input order.
FlattenTree(procs) ==
  LET rooted == FoldLeft(LAMBDA acc, idx : PlaceRoot(procs, acc, idx),
                         [rows |-> <<>>, placed |-> {}], Roots(procs))
      Reroot(acc, idx) == IF idx \in acc.placed THEN acc ELSE PlaceRoot(procs, acc, idx)
  IN  FoldLeft(Reroot, rooted, [i \in DOMAIN procs |-> i]).rows

-----------------------------------------------------------------------------
(* ui/processes.rs: the connectors drawn before a name.                    *)

\* The rows after j that come before the subtree of j's ancestor at level ends.
After(rows, j, level) ==
  {k \in (j + 1)..Len(rows) : \A i \in (j + 1)..k : rows[i].depth >= level}

\* is_last_at_depth, ancestor_has_more_siblings: one more row at the level.
MoreAt(rows, j, level) == \E k \in After(rows, j, level) : rows[k].depth = level

\* tree_prefix, one connector per level.
TreePrefix(rows, j) ==
  [level \in 1..rows[j].depth |->
     IF level < rows[j].depth THEN IF MoreAt(rows, j, level) THEN "pipe" ELSE "gap"
     ELSE IF MoreAt(rows, j, level) THEN "branch" ELSE "last"]

-----------------------------------------------------------------------------

\* A line that leaves a row downwards arrives in the next one, and a line that
\* arrives from above started at a connector or at the parent.
LinesJoin(rows) ==
  \A j \in 1..(Len(rows) - 1) :
    LET above == TreePrefix(rows, j)
        below == TreePrefix(rows, j + 1)
        leaves  == {l \in DOMAIN above : above[l] \in {"pipe", "branch"}}
        arrives == {l \in DOMAIN below : below[l] # "gap"}
    IN  arrives = leaves \cup (IF rows[j + 1].depth > rows[j].depth THEN {rows[j + 1].depth} ELSE {})

\* The row a row hangs off: the last one before it that is one level up.
Above(rows, j) ==
  LET up == {i \in 1..(j - 1) : rows[i].depth = rows[j].depth - 1}
  IN  CHOOSE i \in up : \A k \in up : k <= i

\* Whatever the processes did, in whatever order they are listed, and whoever
\* has inherited whose pid: the tree view shows every process exactly once, no
\* deeper than MAX_DEPTH, and a row that is indented hangs off its parent, by
\* lines that join up.  A process is cut off from a listed parent only by a
\* cycle or at the limit.  (The tree does not depend on what the user did last.)
TreeComplete ==
  last = NoAction => \A order \in Orders(Live) :
    LET procs == Rows(order)
        rows  == FlattenTree(procs)
    IN  /\ Len(rows) = Len(procs)
        /\ {rows[j].idx : j \in DOMAIN rows} = DOMAIN procs
        /\ LinesJoin(rows)
        /\ \A j \in DOMAIN rows :
             /\ rows[j].depth \in 0..MaxDepth
             /\ procs[rows[j].idx].memory_percent \in 0..100
             /\ rows[j].depth > 0 =>
                  procs[rows[j].idx].parent_pid = procs[rows[Above(rows, j)].idx].pid
             /\ rows[j].depth = 0 /\ procs[rows[j].idx].parent_pid \in Live =>
                  \E i \in DOMAIN rows : /\ procs[rows[i].idx].pid = procs[rows[j].idx].parent_pid
                                         /\ rows[i].depth = MaxDepth \/ i > j
=============================================================================
