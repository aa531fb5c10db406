------------------------------ MODULE Palette ------------------------------
(***************************************************************************)
(* The command palette of crates/muxtop-tui/src/app.rs: what it lists for  *)
(* an input, in which order, and what Enter runs.                          *)
(*                                                                         *)
(* An input is empty, a query, or the verb of a command followed by an     *)
(* argument.  nucleo is external: Score says how well a query matches a    *)
(* command, 0 for not at all.  Whether the monitored host is remote does   *)
(* not change while the program runs.                                      *)
(***************************************************************************)
EXTENDS Integers, Sequences, FiniteSets, StableSort

CONSTANTS Commands,    \* Command::ALL in order: [name, home, verb, blocked]
          Queries,     \* fuzzy queries
          Score,       \* text -> command name -> score
          Tabs,        \* tabs
          HistoryMax   \* PaletteState::HISTORY_LEN

NoVerb     == "none"
Everywhere == "everywhere"
NoArg      == "none"
NoScore    == -1

Verbs == {Commands[i].verb : i \in DOMAIN Commands} \ {NoVerb}

\* No command is listed twice in Command::ALL.
ASSUME PaletteAssumption ==
  /\ Len(Commands) \in Nat /\ DOMAIN Commands = 1..Len(Commands)
  /\ \A i, j \in DOMAIN Commands : Commands[i].name = Commands[j].name => i = j
  /\ \A t \in Queries \cup Verbs, i \in DOMAIN Commands :
       Commands[i].verb = NoVerb => Score[t][Commands[i].name] \in Nat
  /\ HistoryMax \in Nat

VARIABLES palette,   \* [open, input, selected, filtered, arg]
          used,      \* PaletteState.history: command names, latest first
          tabNow,    \* the tab in front
          isRemote,  \* AppState::is_remote
          ran        \* the last invocation: <<command name, argument>>

paletteVars == <<palette, used, tabNow, isRemote, ran>>

EmptyInput == [kind |-> "empty", text |-> ""]
Inputs ==
  {EmptyInput} \cup {[kind |-> "query", text |-> q] : q \in Queries}
    \cup {[kind |-> "verb", text |-> v] : v \in Verbs}

\* The commands at some positions of Command::ALL.
Listing(at, scored) == [k \in DOMAIN at |-> [command |-> Commands[at[k]], score |-> scored]]

\* PaletteState::new
PaletteInit ==
  /\ palette = [open |-> FALSE, input |-> EmptyInput, selected |-> 0, arg |-> NoArg,
                filtered |-> Listing(Ranked([i \in {i \in DOMAIN Commands : Commands[i].verb = NoVerb} |-> i]),
                                     NoScore)]
  /\ used = <<>> /\ tabNow \in Tabs
  /\ isRemote \in BOOLEAN
  /\ ran = <<>>

-----------------------------------------------------------------------------

\* excluded_commands
IsAvailable(c) == ~(isRemote /\ c.blocked)

Listable == {i \in DOMAIN Commands : Commands[i].verb = NoVerb /\ IsAvailable(Commands[i])}

Recency(c) == IF \E k \in DOMAIN used : used[k] = c.name
              THEN (CHOOSE k \in DOMAIN used : used[k] = c.name) - 1 ELSE HistoryMax

Context(c) == IF c.home = tabNow THEN 0 ELSE IF c.home = Everywhere THEN 1 ELSE 2

Bonus(c) == IF c.home = tabNow THEN 24 ELSE IF c.home = Everywhere THEN 8 ELSE 0

\* The first command whose verb the input starts with.
ParseVerb(input) ==
  {i \in DOMAIN Commands :
     /\ input.kind = "verb" /\ Commands[i].verb = input.text
     /\ \A j \in 1..(i - 1) : Commands[j].verb # input.text}

\* A verb that is not available is matched like any other text.
ScoreOf(input, c) == Score[input.text][c.name]

Total(input, c) == ScoreOf(input, c) + Bonus(c)

\* By recency, then by the tab; and by score, the best first.
Recent == Ranked([i \in Listable |-> 3 * Recency(Commands[i]) + Context(Commands[i])])

Matched(input) ==
  Ranked([i \in {i \in Listable : ScoreOf(input, Commands[i]) > 0} |-> -Total(input, Commands[i])])

\* widgets::clamp_selection
ClampSelection(i, n) == IF n = 0 THEN 0 ELSE IF i < n THEN i ELSE n - 1

\* Mutant: a verb is a verb, on this host or another.
RefilterVerbFirst(p, input) ==
  IF ParseVerb(input) # {}
  THEN [p EXCEPT !.input = input, !.arg = "argument", !.selected = 0,
                 !.filtered = Listing(Ranked([i \in ParseVerb(input) |-> i]), 65535)]
  ELSE [p EXCEPT !.input = input, !.arg = NoArg, !.filtered = Listing(Recent, NoScore)]

\* refilter_ctx
Refilter(p, input) ==
  LET verb == {i \in ParseVerb(input) : IsAvailable(Commands[i])}
      at   == Matched(input)
      list == IF input.kind = "empty" THEN Listing(Recent, NoScore)
              ELSE [k \in DOMAIN at |-> [command |-> Commands[at[k]], score |-> Total(input, Commands[at[k]])]]
  IN  IF verb # {}
      THEN [p EXCEPT !.input = input, !.arg = "argument", !.selected = 0,
                     !.filtered = Listing(Ranked([i \in verb |-> i]), 65535)]
      ELSE [p EXCEPT !.input = input, !.arg = NoArg, !.filtered = list,
                     !.selected = ClampSelection(@, Len(list))]

\* open_palette, open_command_line
OpenPalette ==
  /\ ~palette.open
  /\ palette' = Refilter([palette EXCEPT !.open = TRUE, !.selected = 0], EmptyInput)
  /\ UNCHANGED <<used, tabNow, isRemote, ran>>

\* close_overlay
Closed == [palette EXCEPT !.open = FALSE, !.input = EmptyInput, !.selected = 0, !.arg = NoArg]

ClosePalette ==
  /\ palette.open
  /\ palette' = Closed
  /\ UNCHANGED <<used, tabNow, isRemote, ran>>

\* A character more or less, here as any other input.
EditInput(input) ==
  /\ palette.open
  /\ palette' = Refilter(palette, input)
  /\ UNCHANGED <<used, tabNow, isRemote, ran>>

\* Down and Up.  The cursor stays where it is when the input changes.
MoveTo(k) ==
  /\ palette.open
  /\ palette' = [palette EXCEPT !.selected = k]
  /\ UNCHANGED <<used, tabNow, isRemote, ran>>

PaletteDown ==
  MoveTo(ClampSelection(palette.selected + 1, Len(palette.filtered)))

PaletteUp == MoveTo(IF palette.selected > 0 THEN palette.selected - 1 ELSE 0)

\* remember: the others keep their order, and the oldest drops out.
Remember(name) ==
  LET kept == Ranked([k \in {k \in DOMAIN used : used[k] # name} |-> k])
      len  == IF Len(kept) < HistoryMax THEN Len(kept) + 1 ELSE HistoryMax
  IN  [k \in 1..len |-> IF k = 1 THEN name ELSE used[kept[k - 1]]]

\* Enter: the highlighted command, with the argument of a verb.
PaletteRun ==
  /\ palette.open /\ palette.selected < Len(palette.filtered)
  /\ LET c == palette.filtered[palette.selected + 1].command
     IN  /\ used' = Remember(c.name)
         /\ ran' = <<c.name, palette.arg>>
  /\ palette' = Closed
  /\ UNCHANGED <<tabNow, isRemote>>

\* draw_results: the first row drawn, with height rows to draw in.
PaletteScroll(height) ==
  LET visible == IF height < Len(palette.filtered) THEN height ELSE Len(palette.filtered)
      below   == IF visible > 0 THEN visible - 1 ELSE 0
  IN  IF palette.selected > below THEN palette.selected - below ELSE 0

\* The palette takes every key while it is open, so the tab changes before it.
ChangeTab(t) ==
  /\ ~palette.open
  /\ tabNow' = t
  /\ UNCHANGED <<palette, used, isRemote, ran>>

PaletteNext ==
  \/ OpenPalette \/ ClosePalette \/ PaletteDown \/ PaletteUp \/ PaletteRun
  \/ \E input \in Inputs : EditInput(input)
  \/ \E t \in Tabs : ChangeTab(t)

-----------------------------------------------------------------------------

CommandOf(name) == Commands[CHOOSE i \in DOMAIN Commands : Commands[i].name = name]

\* What the open palette lists is what can be run here: no command twice, none
\* that is blocked on a remote host, by name, by score or by verb; on an empty
\* input every other command that needs no argument, the recent ones first and
\* in the order of their use; and a command of another tab never outranks a
\* better match by the bonus alone.  The cursor is on the list and on screen, and
\* a verb runs with its argument and nothing else does.
PaletteHonest ==
  LET list == palette.filtered
      At(k) == list[k].command
  IN  /\ palette.open =>
           /\ palette.selected < Len(list) \/ (list = <<>> /\ palette.selected = 0)
           /\ \A height \in 1..2 : palette.selected \in PaletteScroll(height)..(PaletteScroll(height) + height - 1)
           /\ \A j, k \in DOMAIN list : j # k => At(j) # At(k)
           /\ \A k \in DOMAIN list : IsAvailable(At(k))
           /\ palette.input = EmptyInput =>
                /\ {At(k) : k \in DOMAIN list} = {Commands[i] : i \in Listable}
                /\ \A j, k \in DOMAIN list : j < k => Recency(At(j)) <= Recency(At(k))
           /\ palette.input # EmptyInput /\ palette.arg = NoArg =>
                \A j, k \in DOMAIN list :
                  j < k => ScoreOf(palette.input, At(k)) - ScoreOf(palette.input, At(j)) <= 24
           /\ palette.arg # NoArg => Len(list) = 1 /\ At(1).verb # NoVerb
      /\ Len(used) <= HistoryMax /\ \A j, k \in DOMAIN used : used[j] = used[k] => j = k
      /\ ran # <<>> => /\ IsAvailable(CommandOf(ran[1]))
                       /\ (ran[2] # NoArg) <=> (CommandOf(ran[1]).verb # NoVerb)
=============================================================================
