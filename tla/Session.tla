------------------------------ MODULE Session ------------------------------
(***************************************************************************)
(* One run of the muxtop binary: src/main.rs, the TUI's event loop         *)
(* (tui/src/lib.rs, tui/src/event.rs) and the terminal it borrows          *)
(* (tui/src/terminal.rs), composed with the task that feeds it.            *)
(*                                                                         *)
(* The remote collector is the module RemoteCollector, whose steps are     *)
(* taken as they are; the receiver and the token, left free there, are in  *)
(* the hands of main and of the TUI thread here.  The local collector is   *)
(* represented by what Collector promises: snapshots in a bounded channel, *)
(* and a handle that completes once cancelled.                             *)
(***************************************************************************)
EXTENDS RemoteCollector

VARIABLES plan,     \* what startup decided (Startup!RunApp)
          main,     \* where main is
          ui,       \* where the TUI thread is
          app,      \* AppState.running and needs_redraw, and should_draw
          stale,    \* the frame on screen is older than the state
          term,     \* the modes the terminal has been put into
          failed,   \* a call to take a mode back failed, the last time it was tried
          local,    \* the local collector's handle
          gone,     \* the terminal has been closed: every call on it fails
          panicked  \* a background task has panicked

termVars == <<term, failed>>
tuiVars == <<ui, app, stale, termVars>>
sessionVars == <<plan, main, tuiVars, local, gone, panicked>>
allVars == <<vars, sessionVars>>

\* In the order restore_terminal takes them back.
Modes == {"raw", "mouse", "alt", "hidden"}

Refused == {"usage", "about", "bad_target", "bad_token", "bad_tls"}

SessionInit ==
  /\ Init
  /\ plan \in Refused \cup {"local", "remote", "local_bench", "remote_bench"}
  /\ main = "start" /\ ui = "off"
  /\ app = [running |-> TRUE, dirty |-> TRUE, draw |-> FALSE]
  /\ stale = TRUE
  /\ term = {} /\ failed = FALSE
  /\ local = "none"
  /\ gone = FALSE /\ panicked = FALSE

IsLocal  == plan \in {"local", "local_bench"}
IsRemote == plan \in {"remote", "remote_bench"}
IsBench  == plan \in {"local_bench", "remote_bench"}

-----------------------------------------------------------------------------
(* main                                                                    *)

\* run_app up to the collector.  Whatever is refused ends the program; otherwise
\* the collector is spawned before the terminal is touched.
StartUp ==
  /\ main = "start"
  /\ main' = CASE plan \in Refused -> "exit" [] IsBench -> "bench" [] OTHER -> "tui"
  /\ ui' = IF main' = "tui" THEN "init" ELSE ui
  /\ local' = IF IsLocal THEN "running" ELSE local
  /\ UNCHANGED <<vars, plan, app, stale, termVars, gone, panicked>>

\* bench_run_loop takes snapshots until its deadline, or until nobody is left
\* to send one; then the receiver is dropped.
BenchTakes ==
  /\ main = "bench"
  /\ Consume
  /\ UNCHANGED sessionVars

BenchEnds ==
  /\ main = "bench"
  /\ DropReceiver
  /\ main' = "cancel"
  /\ UNCHANGED <<plan, tuiVars, local, gone, panicked>>

\* spawn_blocking returned: the thread's result, or its panic.
TuiReturned ==
  /\ main = "tui" /\ ui \in {"returned", "panicked"}
  /\ main' = IF ui = "panicked" THEN "exit" ELSE "cancel"
  /\ UNCHANGED <<vars, plan, tuiVars, local, gone, panicked>>

\* Mutant: the handle is awaited without a cancel.
MainJoinsOnly ==
  /\ main = "cancel"
  /\ main' = "join"
  /\ UNCHANGED <<vars, plan, tuiVars, local, gone, panicked>>

MainCancels ==
  /\ main = "cancel"
  /\ Cancel
  /\ main' = "join"
  /\ UNCHANGED <<plan, tuiVars, local, gone, panicked>>

CollectorDone == IF IsLocal THEN local = "done" ELSE pc = "done"

\* collector_handle.await: a panicked task completes its handle too.
MainJoins ==
  /\ main = "join"
  /\ CollectorDone
  /\ main' = "exit"
  /\ UNCHANGED <<vars, plan, tuiVars, local, gone, panicked>>

-----------------------------------------------------------------------------
(* terminal.rs                                                             *)

\* restore_terminal returns at the first call that fails, having taken back the
\* modes before it.  The mouse is skipped where it was not captured.
RestoringRuns ==
  IF gone THEN {{}} ELSE {{}, {"raw"}, {"raw", "mouse"}, Modes \ {"hidden"}, Modes}

\* The panic hook passes over a raw mode that stays, and writes the other three.
HookRuns ==
  IF gone THEN {{}}
  ELSE {r \cup w : r \in {{}, {"raw"}},
                   w \in {{}, {"mouse"}, {"mouse", "alt"}, {"mouse", "alt", "hidden"}}}

\* What is undone of the modes of which, each call failing or not.
UndoneOf(which) == IF gone THEN {{}} ELSE SUBSET which

\* run has no use for the receiver any more and returns, or unwinds.  Of the modes
\* it was to take back it took those of undone.
LeaveTui(how, undone, of) ==
  /\ ui' = how
  /\ term' = term \ undone
  /\ failed' = (undone # of)
  /\ rxOpen' = FALSE /\ queued' = 0
  /\ UNCHANGED <<pc, backoff, error, cancelled, welcomed>>
  /\ UNCHANGED <<plan, main, app, stale, local, gone, panicked>>

\* A call of init_terminal puts the terminal into a mode.
Enter(mode, next) ==
  /\ ~gone
  /\ term' = term \cup {mode}
  /\ ui' = next
  /\ UNCHANGED <<vars, plan, main, app, stale, failed, local, gone, panicked>>

EnableRawMode ==
  /\ ui = "init"
  /\ Enter("raw", "alt") \/ LeaveTui("returned", {}, {})

EnterAlternateScreen ==
  /\ ui = "alt"
  /\ \/ Enter("alt", "mouse")
     \/ \E u \in UndoneOf({"raw"}) : LeaveTui("returned", u, {"raw"})

\* Best effort: not wanted, or refused, is as good as captured.
EnableMouseCapture ==
  /\ ui = "mouse"
  /\ \/ Enter("mouse", "backend")
     \/ ui' = "backend" /\ UNCHANGED <<vars, plan, main, app, stale, termVars, local, gone, panicked>>

\* Mutant: a failed Terminal::new returns without cleaning up.
NewTerminalLeaking ==
  /\ ui = "backend"
  /\ \/ ~gone /\ ui' = "top"
        /\ UNCHANGED <<vars, plan, main, app, stale, termVars, local, gone, panicked>>
     \/ LeaveTui("returned", {}, {})

\* Terminal::new: its failure leads through restore_stdout and disable_raw_mode,
\* whose own failures are passed over.
NewTerminal ==
  /\ ui = "backend"
  /\ \/ ~gone /\ ui' = "top"
        /\ UNCHANGED <<vars, plan, main, app, stale, termVars, local, gone, panicked>>
     \/ \E u \in UndoneOf(Modes \ {"hidden"}) : LeaveTui("returned", u, Modes \ {"hidden"})

InitTerminal == EnableRawMode \/ EnterAlternateScreen \/ EnableMouseCapture \/ NewTerminal

-----------------------------------------------------------------------------
(* The event loop: lib.rs run, event.rs poll_event.                        *)

\* The top of an iteration: action outcomes are pumped, which arms a redraw when
\* there was one, and the flag is taken.
LoopHead ==
  /\ ui = "top" /\ app.running
  /\ \E outcome \in BOOLEAN :
       /\ stale' = (stale \/ outcome)
       /\ app' = [app EXCEPT !.draw = app.dirty \/ outcome, !.dirty = FALSE]
  /\ ui' = "poll"
  /\ UNCHANGED <<vars, plan, main, termVars, local, gone, panicked>>

\* The user has quit: restored explicitly, and once more by the guard.
LoopEnds ==
  /\ ui = "top" /\ ~app.running
  /\ \E explicit, guard \in RestoringRuns : LeaveTui("returned", explicit \cup guard, Modes)

\* Every pending snapshot is taken and the latest applied, before any key.
PollSnapshot ==
  /\ ui = "poll" /\ queued > 0
  /\ queued' = 0
  /\ app' = [app EXCEPT !.draw = TRUE]
  /\ stale' = TRUE /\ ui' = "draw"
  /\ UNCHANGED <<pc, backoff, error, rxOpen, cancelled, welcomed>>
  /\ UNCHANGED <<plan, main, termVars, local, gone, panicked>>

\* Mutant: a key only repaints when its handler asks for it.
PollInputLazily ==
  /\ ui = "poll" /\ queued = 0
  /\ \E quits, notifies \in BOOLEAN :
       app' = [app EXCEPT !.running = ~quits, !.dirty = notifies]
  /\ stale' = TRUE /\ ui' = "draw"
  /\ UNCHANGED <<vars, plan, main, termVars, local, gone, panicked>>

\* A key, a mouse event or a resize.  Its handler may quit, and may post a
\* message, which arms another redraw.
PollInput ==
  /\ ui = "poll" /\ queued = 0
  /\ \E quits, notifies \in BOOLEAN :
       app' = [app EXCEPT !.running = ~quits, !.dirty = notifies, !.draw = TRUE]
  /\ stale' = TRUE /\ ui' = "draw"
  /\ UNCHANGED <<vars, plan, main, termVars, local, gone, panicked>>

\* Nothing within TICK_RATE.  Toasts expire here, as they do before a key.
PollTick ==
  /\ ui = "poll" /\ queued = 0
  /\ \E expired \in BOOLEAN :
       /\ app' = [app EXCEPT !.draw = @ \/ expired]
       /\ stale' = (stale \/ expired)
  /\ ui' = "draw"
  /\ UNCHANGED <<vars, plan, main, termVars, local, gone, panicked>>

\* Drawing hides the cursor.
Draw ==
  /\ ui = "draw" /\ (app.draw => ~gone)
  /\ stale' = IF app.draw THEN FALSE ELSE stale
  /\ term' = IF app.draw THEN term \cup {"hidden"} ELSE term
  /\ app' = [app EXCEPT !.draw = FALSE]
  /\ ui' = "top"
  /\ UNCHANGED <<vars, plan, main, failed, local, gone, panicked>>

\* poll_event or draw fails, which it does for good once the terminal is gone:
\* the guard restores.
LoopFails ==
  /\ ui = "poll" \/ (ui = "draw" /\ app.draw)
  /\ \E guard \in RestoringRuns : LeaveTui("returned", guard, Modes)

\* A handler or a widget panics: the hook restores, the unwinding guard again.
TuiPanics ==
  /\ ui \in {"poll", "draw"}
  /\ \E hook \in HookRuns, guard \in RestoringRuns : LeaveTui("panicked", hook \cup guard, Modes)

-----------------------------------------------------------------------------
(* The feed and the outside.                                               *)

LocalSnapshot ==
  /\ local \in {"running", "hung"} /\ rxOpen /\ queued < ChannelCap
  /\ queued' = queued + 1
  /\ UNCHANGED <<pc, backoff, error, rxOpen, cancelled, welcomed, sessionVars>>

\* A GPU driver's call does not return, for a while or for good, and with it the
\* loop the handle waits for (Collector, CallHangs); snapshots go on.
LocalHangs ==
  /\ local \in {"running", "hung"}
  /\ local' = IF local = "running" THEN "hung" ELSE "running"
  /\ UNCHANGED <<vars, plan, main, tuiVars, gone, panicked>>

LocalEnds ==
  /\ local = "running" /\ cancelled
  /\ local' = "done"
  /\ UNCHANGED <<vars, plan, main, tuiVars, gone, panicked>>

\* The collector's task panics.  The hook is global: it restores the terminal
\* under a TUI that is starting or goes on running.
TaskPanics ==
  /\ local \in {"running", "hung"}
  /\ local' = "done" /\ panicked' = TRUE
  /\ IF ui = "off" THEN UNCHANGED term ELSE \E hook \in HookRuns : term' = term \ hook
  /\ UNCHANGED <<vars, plan, main, ui, app, stale, failed, gone>>

TerminalGone ==
  /\ ~gone /\ ui \notin {"off", "returned", "panicked"}
  /\ gone' = TRUE
  /\ UNCHANGED <<vars, plan, main, tuiVars, local, panicked>>

RemoteTask ==
  /\ IsRemote /\ main \notin {"start", "exit"}
  /\ \/ LoopTop \/ Attempt \/ Stream \/ WakeUp \/ CancelSleep
     \/ ServerStalls \/ ServerReads
  /\ UNCHANGED sessionVars

MainThread == StartUp \/ BenchTakes \/ BenchEnds \/ TuiReturned \/ MainCancels \/ MainJoins

TuiThread ==
  \/ InitTerminal \/ LoopHead \/ LoopEnds \/ PollSnapshot \/ PollInput \/ PollTick \/ Draw
  \/ LoopFails \/ TuiPanics

SessionNext ==
  \/ MainThread \/ TuiThread \/ RemoteTask
  \/ LocalSnapshot \/ LocalHangs \/ LocalEnds \/ TaskPanics \/ TerminalGone

\* Both threads run, the timer of the bench loop fires, the local collector ends
\* when cancelled and no GPU call hangs (Collector!CancelEnds), and the remote
\* task is scheduled as in RemoteCollector.
SessionFairness ==
  /\ WF_allVars(StartUp \/ BenchEnds \/ TuiReturned \/ MainCancels \/ MainJoins)
  /\ WF_allVars(TuiThread) /\ SF_allVars(LocalEnds)
  /\ LET step(A) == IsRemote /\ main \notin {"start", "exit"} /\ A /\ UNCHANGED sessionVars
     IN  /\ WF_allVars(step(LoopTop)) /\ WF_allVars(step(Connect)) /\ WF_allVars(step(TlsHandshake))
         /\ SF_allVars(step(SendHello)) /\ WF_allVars(step(ReadWelcome))
         /\ WF_allVars(step(StreamCancelled)) /\ WF_allVars(step(WakeUp \/ CancelSleep))

SessionSpec == SessionInit /\ [][SessionNext]_allVars /\ SessionFairness

-----------------------------------------------------------------------------

\* Whatever way the program ends (refused, a call of init_terminal that failed,
\* quit, error, panic in the TUI or in a task), the terminal is left in one of
\* muxtop's modes only if a call to take it back failed: on a clean exit, twice,
\* since the guard makes good what the explicit restore left behind its first
\* failure (restore_terminal's `?`).
ExitRestores == main = "exit" /\ ~failed => term = {}

\* "We only repaint when something the UI actually shows has changed": skipping
\* idle frames never leaves an old one on screen.  Between two iterations the
\* frame is current, or a redraw is armed for the next.
ScreenCurrent == ui = "top" => (stale => app.dirty)

\* Once the user has quit, or the TUI is done, the program exits, wherever the
\* connection, the handshake or the backoff of the remote task stood.  Two waits
\* without a timeout are the exceptions: a server that never reads Hello
\* (remote.rs, write_frame) and a GPU driver whose call never returns.
SessionEnds ==
  \/ <>[](pc = "blocked") \/ <>[](local = "hung")
  \/ (~app.running \/ main = "cancel") ~> main = "exit"
=============================================================================
