# A verification project for muxtop

muxtop is a terminal system monitor in Rust: a TUI fed by a local collector or,
over TLS, by a `muxtop-server` on another machine. This directory holds TLA+
modules for its parts, the TLC configurations that model-check them, and TLAPS
proofs of what the models guarantee for every value of their parameters.
`PROJECT.json` lists components, runs, mutants, findings, hazards and theorems, and
maps each definition to the lines it models.

## The system

| component | state | operations | interacts with | modules |
|---|---|---|---|---|
| Rate limiter (`muxtop-server/src/rate_limit.rs`) | map IP -> bucket, last sweep, warning latch | `try_admit` | called by the accept loop | `TokenBucket`, `RateLimiter` |
| Server (`server.rs`, `client.rs`) | semaphore permits, broadcast ring, one detached task per client | accept, relay, handshake, stream, heartbeat, shutdown | mpsc from the collector, broadcast to clients, cancellation token | `Server` |
| Remote collector (`muxtop-proto/src/remote.rs`) | backoff delay, connection phase | connect, handshake, stream, sleep, retry | server over TLS; bounded channel to the TUI | `RemoteCollector` |
| Frame codec, wire messages (`frame.rs`, `wire.rs`) | bytes read so far | encode, write, read, decode | server and remote collector | `Wire`, `MessageChannel` |
| Collector (`muxtop-core/src/collector.rs`) | a slot per engine, bounded channel | system tick, engine polls, join at the end | engines; TUI or server relay | `Collector` |
| Kubernetes engine (`kube_engine.rs`, `cluster_engine.rs`) | scope, resource cache, metrics cache, each behind its own `RwLock` | connect, two poll loops, `toggle_scope`, `set_scope`, `snapshot`, conversions, drop | toggle tasks of the TUI, cluster loop of the collector | `KubeEngine`, `KubeData`, `Startup` |
| Container engine (`docker_engine.rs`) | CPU baseline per container | connect, list and stats, stop, kill, restart | collector, TUI action tasks and histories | `ContainerEngine` |
| GPU engines (`gpu_engine.rs`, `nvml_engine.rs`, `amd_engine.rs`, `apple/`) | backend list; a counter sample | detect, snapshot, merge | collector | `Gpu`, `AppleGpu`, `AppleRegistry` |
| Processes (`process.rs`, `system.rs`, `actions.rs`) | none of their own | tree, filter, sort; kill, renice | TUI state | `Processes`, `ProcessActions`, `TableOrder` |
| Network history (`network.rs`) | a ring of samples | push, rate, sparkline | TUI state | `NetworkHistory` |
| TUI state (`muxtop-tui/src/app.rs`) | tab, overlay, confirm dialog, filters, sorts, selections, caches, palette | key and mouse handlers, `apply_snapshot`, detached action tasks | event loop, engines | `AppTable`, `AppModes`, `Palette`, `SortFields`, `TableOrder` |
| Key map (`keymap.rs`) | static table | resolve | TUI state | `Keymap` |
| Notifications (`notify.rs`) | toast stack, log | push, expire, dismiss | TUI state | `Notifier` |
| Rendering (`ui/`) | none | a frame from the state | event loop | `Widgets`, `TabViews`, `Screen` |
| Event loop, terminal, `main` (`lib.rs`, `event.rs`, `terminal.rs`, `src/main.rs`) | receiver, redraw flag, terminal modes | startup, drain snapshots, poll keys, draw, teardown | everything on the client | `Session`, `Startup` |
| Server's `main`, TLS files (`muxtop-server/src/main.rs`, `tls.rs`) | three files in a shared directory | generate, write, check, load | server | `ServerStartup` |

What is hard here: everything asynchronous interleaves at each `.await` of a
multi-threaded tokio runtime; locks are held for single accesses, so
read-then-write sequences are not atomic; `select!` picks among ready arms at
random; channels are bounded and drop; engine calls fail one by one; a peer can
vanish, stall or send garbage at any point; a process can be killed between two
writes; pids, interfaces, containers and devices vanish and come back under their
old names; shutdown reaches each task separately. `hazards` in `PROJECT.json` lists
the places, at their lines.

What makes each part correct:

- **limiter**: bounded memory, bounded admissions in any window, and that
  evicting a bucket cannot be noticed;
- **server**: permits balance on every path; only peers with the whole token are
  streamed to; a client sees nothing the relay was done with before it connected;
  handshakes and shutdown end, but for a peer that does not read;
- **client session**: it yields to a quit wherever it is, but for two waits without a
  timeout; the terminal is given back on every way out on which the terminal lets it; the
  picture is never old;
- **codec**: messages arrive whole, in order, or not at all;
- **collector**: a completed handle means nothing runs any more; a failing engine
  is shown to have failed;
- **engines**: rows agree with the scope and with each other, one failure hides
  nothing else, a figure nobody measured is not shown, everything borrowed from a C
  library is given back;
- **TUI**: what is shown, counted and acted on agrees with the rows, filter and
  sort in force and fits the terminal; one thing owns the keyboard, and Esc takes
  one step back from anywhere; a remote viewer acts on nothing; every confirmed
  action is accounted for.

## Modules

**`TokenBucket`** is the limiter's promise: every source owns a bucket for ever.
**`RateLimiter`** is `rate_limit.rs`. `buckets` is the `HashMap`; `TryAdmit(ip)`
has one disjunct per way out of `try_admit`: limiting off, refused at the
ceiling (with a sweep, if due, already done), admitted, refused for want of a
token. Tokens are integers (`Unit` units make one token, rates are units per
tick), so fractional rates are exact; f32 rounding is not modelled. `Tick` is
the monotonic clock. `OpenWindow` and the variables `opened`, `spent` are an
observer, not code: the window may be opened at any moment, so `WindowBound`
speaks of every window. **`RateLimiterProofs`** holds its theorems.

**`Server`** is `server.rs` and `client.rs`. A connection is one TCP stream and
goes `new -> tls -> hello -> welcoming -> streaming <-> writing -> closed`, or from `hello`
by way of `refusing`. A snapshot is a number. It waits in the collector's channel
(`queue`), is received by the relay, which counts receivers and encodes (`hand`), and is sent
in a step of its own, so that a client can subscribe at any point between; `done` is the
last one the relay was done with. The broadcast channel is the log of those sent; a receiver
has a position in it and can read the last `BroadcastCap`. The limiter's answer is a free
choice. Tokens are byte sequences, compared as `constant_time_eq` does: padded with zeros,
and then by length. Until it streams, a client's task does not look at the token of
cancellation; while it writes (`Writing`: Welcome, Error 401 or a frame) it looks at nothing
and has no timeout. `MCServer` gives the tokens.
**`ServerProofs`** holds its theorems.

**`RemoteCollector`** is `remote.rs`: one task, a step per await, and at each the
answers the server and the network can give. While the server does not read Hello the task
is `blocked`, since that write is neither timed nor raced against cancel. `welcomed` is a
history: the attempt got as far as streaming. Connection events use `try_send` and ignore the result, so they are left out.

**`Session`** composes it with the rest of the client process: `main` (start, bench
mode, cancel, join), the TUI thread (the calls of `init_terminal` with the undo path of
each, the event loop's head, poll and draw, and on the way out `restore_terminal`, which stops at
its first failing `?`, and the guard's second attempt), the panic hook, and the local collector
as `Collector` promises it, which a GPU driver may hang. `term` is the set of modes the
terminal is in, `failed` that a call to take one back failed when last tried. It EXTENDS `RemoteCollector` and takes its steps as they are; the receiver and the
token, left to the environment there, are in the hands of `main` and the TUI here.
`stale` is a history: the state differs from the frame on screen. A task may panic,
the terminal may go away. **`SessionProofs`** holds the theorems of both.

**`Collector`** is `collector.rs`. The three engine loops have one shape; the
engines, their order, which slots are seeded, which engines answer from a cache and which
have calls without a timeout are parameters. `up` is the environment: what an engine has
to answer. The cluster engine is `Cached`: `snapshot` answers from what was last listed, so once
up it stays up, whatever becomes of the cluster. The GPU's is `Untimed`: its call may hang in a
driver, for a while or for good. Reading the slots takes one step per lock. `MCSession` puts it
beside `Session` for TLC; the two share no variable there, and a behaviour is one of either.
**`CollectorProofs`** holds its theorems.

**`KubeEngine`** is the part of `kube_engine.rs` that runs after `connect`, with
the toggle tasks of `AppState::toggle_kube_scope`. A list of rows is the scope it
was listed under. `raced` is a history: a poll was in flight when the scope last
changed. **`KubeEngineProofs`** holds its theorems.

**`AppTable`** is the part of `app.rs` behind every table: `apply_snapshot`, the
filter handlers with their debounce, sorts, sub-views, cursor and wheel, and
the projections in `ui/*.rs` that draw and inspect rows. The tables share no
state but the snapshot, so `Init` chooses one of the five and the variables are
that one's fields; the process table also serves the General tab. A row is a
number, a filter its length, and the columns are two that order every pair of
rows oppositely: enough to tell filtered from unfiltered, sorted from unsorted.
`cache` holds rows where `kube_view_cache` holds indices of them. Ties and the
fields a filter looks at are left out, except that the GPU renderer, counter and
inspector look at different ones. The clock is three-valued: a filter key came
within `FILTER_DEBOUNCE`, earlier, or never since the last full recompute.
**`AppTableProofs`** holds its theorems.

**`Widgets`**, **`TabViews`** and **`Screen`** are what `ui/` draws of such a table.
`Widgets` has the arithmetic of cells: viewport, columns and the order in which they
are dropped, scrollbar, meters, sparklines, overlays, the panels' heights; the column
tables are the code's. `TabViews` has the text shown instead of rows, the tab bar's
counts and the dashboard's cards. `Screen` EXTENDS `AppTable`: a frame is a function of
its state and of the terminal's size, which a property quantifies over. `MCScreen`
gives the rows and the widths. The theorems about both stand in `AppTableProofs`.

**`TableOrder`** says what `Project` computes: `sort_processes`, `filter_processes` and
their siblings for the other tabs, over rows with a name (a text with case) and a
figure that may be missing or tie, and a second text beside the name: pods and deployments
are put in order of namespace and then of name. A view is a list of positions in the snapshot, so that a row
drawn twice is not taken for two equal ones. **`SortFields`** is the sort field itself, which
the sub-views of a tab share: the cycle, the switches between sub-views, `sort <field>`, the
palette's sort commands, and the cells, arrows and labels that have to agree with it; its tables
are functions of the code's `const` tables and `match` arms. **`StableSort`** is what
`slice::sort_by` promises, which is external: the positions of a list ranked by their keys, ties
in the order they came. `Palette`, `TableOrder` and `Gpu` sort with it.

**`Keymap`** is the binding table of `keymap.rs` and the operators on it. Order
matters in it (a tab's own bindings come before the global ones), so it stays a
sequence, and `Resolve` takes the first match.

**`AppModes`** is the rest of `app.rs` that keys reach. `ui` is one record, because
handlers call one another on the whole `AppState`: each is an operator from a record
to a record, with the method's name. `mode` is fixed at start. Whether a handler
finds a row, a match or an argument is an input, since `AppTable` models the tables.
A filter is present or not, a toast counts while unexpired, and the confirm dialog
keeps the kind of action. The palette offers any command that `refilter_ctx` can
leave in the list for some query; which it lists for one, and in what order, is `Palette`. A task is a container action or a change of scope:
both race the same token and report through the same channel. `started` and `reported`
are histories. `MCAppModes` gives the tabs. **`AppModesProofs`** holds its theorems.

**`Palette`** is the palette's own state: input, ranked list, cursor and history. The
fuzzy matcher is external, a score per command and text: the queries, and the verbs, since a
verb that may not be run here is matched like any query. **`Notifier`** is `notify.rs`,
with time. It assumes that the log outlasts the screen, as the code's constants make it do: in
the lifetime of an error (12 s) at most three rounds of the shorter-lived toasts pass the screen
of three, which is six messages in a log of fifty.

**`ProcessActions`** has a host on which processes fork, end, are re-parented and inherit
pids; and kill, renice and get-priority, with pids narrowed to `PidBits` bits and `errno` kept
apart from the value. **`Processes`** EXTENDS it with the tree of `process.rs` for every order of
the rows; it uses RECURSIVE operators, as the code recurses, and no proof module reaches it.
**`NetworkHistory`** is the ring of `network.rs`; `truth` is a history of what each
interface really moved. **`ContainerEngine`** runs from the daemon's socket to the
sparklines: a poll lists, then asks for each container's stats, while containers work,
restart and vanish in between, and a stopped one, having no interfaces, reads 0 bytes; the rings `hist.from` and `hist.upto` are histories: what the
container had received in all when each bar's interval began and ended.

**`KubeData`** is the conversion of the cached objects to rows: a pod's phase, the pods of
a node, quantities in all their notations, with fractions of a milli rounded half up and
saturation at a small width. `nodeList` is what the last list of nodes brought, any part
of the cluster's: it may have been refused, or be old.
**`Gpu`** is the composite of vendor backends over a machine whose drivers break, whose
cards fault and whose processes open and close contexts. The driver numbers its cards, a
directory its entries, none twice; a process list that cannot be read counts as an empty one.
**`AppleGpu`** is the IOReport
sampler, which owns CoreFoundation objects by hand (the `subscribed` dictionary is one of them,
which `open` never releases); **`AppleRegistry`** EXTENDS it with
the walk over the IORegistry, one step per call, with every early return.

**`Wire`** is `frame.rs` and `wire.rs`: a writer, a connection that delivers bytes one
portion at a time and may be cut anywhere, a reader with the cap of its call, and the
slice decoder. A byte is a digit of a small base, so that lengths reach every cap; `starts` is a
history, the place in all the bytes written at which each message begins. **`MessageChannel`** is
what the codec promises: a queue of whole messages, from which the reader has taken the first few.

**`Startup`** is what a client decides before it runs, in one step for each combination
of arguments, files and environment: refusals, target, token, verifier, engines, terminal
capabilities. The namespace of the command line is checked to its last character, that of the
kubeconfig's context not at all. **`ServerStartup`** has several servers of one user in one data directory,
each a step per file written or read, each liable to be killed and started again.

**`MCParts`** puts the parts that share no state while they work under one Next: a
behaviour is one of a single part, and the others keep their initial state; pods are
interchangeable, which TLC is told (`MCSymmetry`). Nothing is composed there; the interplay is in `Session`, `Screen`, `AppModes`, `ContainerEngine`.

Actions of the environment (peers, users, daemons, the receiver's owner) are in
each module's Next and carry no fairness unless said below. Definitions whose
comment begins with "Mutant" are not part of the model: each is a plausible slip
in a definition, and replacing the definition by it must break the property that
`mutants` names.

## Runs

| run | instance | shows |
|---|---|---|
| `limiter` | 3 sources, map of 2, rates 0, 1/4 and 1 token per tick, 6 ticks | `WindowBound`, `CeilingRefusalIsFresh`, and `RefinesIdeal`: the limiter implements `TokenBucket` |
| `server` | 2 connections, 1 permit, ring and queue of 1, 2 snapshots; Hellos with no token, the right one, and the right one with a zero byte behind it | `PermitsAccounted`, `OnlyAuthorised`, `NothingStale`, `HandshakeEnds`, `ShutdownEnds`, `CatchesUp` |
| `session` | local, bench and remote, delays of 1 to 4 s, channel of 2; beside it a collector with a cluster engine and a GPU engine whose calls may hang, channel of 1 | `ExitRestores`, `ScreenCurrent`, `SessionEnds`; `HandleMeansStopped`, `CancelEnds`, `DownIsShown` |
| `kube` | 2 toggle tasks | `OutOfScopeOnlyIfRaced`, `NoStaleNumbers`, `ViewSettles` |
| `app_table` | each of the 5 tables, lists of 0, 1 and 3 rows, filters up to 2, heights to 4, widths 0 to 130 | `TablesCurrent`, `TableDrawn`, `WidgetsFit`, `FilterSettles` |
| `app_modes` | 5 tabs, every bound key, local and remote, 2 tasks, 2 toasts | `OneOwner`, `RemoteReadOnly`, `EscStepsBack`, `OutcomesAccounted` |
| `parts` | 14 parts, each on its own | one property per part, below |

What `parts` checks:

- `TreeComplete`: the tree view shows every process once, hanging off its parent by
  lines that join up, whatever cycles reused pids make and wherever the depth limit cuts;
- `ActionsExact`: a signal or a priority hits the process asked for or nobody, and errors
  are neither swallowed nor invented;
- `SparklineHonest`, `NoPhantomTraffic`: no history shows bytes that were not moved,
  across counter resets, replugged interfaces, restarted and re-listed containers;
- `MessagesArriveWhole`: as for the codec above; the two decoders agree;
- `RowsAttributed`: every readable card and GPU process has one row, pointing at the
  right card, in either order of the backends;
- `AppleSound`: references and kernel objects balance on every path, except for the one
  dictionary that opening the sampler may leave behind; a figure comes from
  a window that supports it; rows are distinct Apple GPUs;
- `ClusterAddsUp`: the join of pods and nodes counts nothing twice and loses only the pods of
  nodes that the list of nodes does not have; no amount of memory is read larger than it was
  written, and no amount of CPU by more than half a milli;
- `ClientSafe`, `ServesOwnPair`: no session without a full token and a checked certificate, no
  engine with a namespace from the command line that is not a DNS-1123 label;
  whatever was killed while writing, certificate and key belong together;
- `RowsInOrder`: rows are exactly the matching ones; a column runs in one direction per
  order, and turns over with it; the arrow is on the column they are ordered by. That direction
  is against the arrow for the names, namespaces, phases and ratios of cluster objects and
  for containers' uptimes: the property states each as the code has it;
- `ToastsInLog`: a toast on screen is still in the log, which drops its oldest;
- `PaletteHonest`: what is listed can be run here, recent first, no bonus outranking a
  clearly better match.

Five runs exhibit a disagreement between what the repository says of the code and
what the code does; each checks one property and TLC finds it violated:

- `kube_scope_down`: `set_scope` promises that a scope-down leaves no out-of-scope
  row. A poll that read the old scope is still in flight, and writes its rows after
  the clear. They stay until the next poll. `OutOfScopeOnlyIfRaced` shows that this
  is the only way, and `ViewSettles` that it heals.
- `table_inspect`: the inspector says it details whatever is selected. On the Kube
  tab it indexes the filtered rows in snapshot order with a cursor that counts
  them in sort order. The network and GPU inspectors do the same.
- `table_cursor`: the viewport is said to keep the selection on screen. When a snapshot
  shrinks a table other than the process table, its cursor stays beyond the end, the
  range of rows to draw is empty, and a table that has rows is drawn blank until a
  cursor key is pressed.
- `container_cpu`: only the first tick is said to show 0 % for every container. The
  baseline is stored under the short id and looked up by the full one, so it is never
  found and every tick is a first one.
- `backoff_reset`: only consecutive failures are said to grow the delay, and a successful
  connection to reset it (`remote.rs:104`, `195`). The reset asks for `ConnectionClosed`
  (`remote.rs:107`), so a session that streamed and ended with any other error, a decode error or
  the server's Error, keeps doubling the delay of the attempts before it.

### Noticed and not run

Statements of the repository, or plain expectations, that the code does not meet. They
are in the models as the code has them.

Engines and snapshots:

- `snapshot()` says `reachable` holds iff some list was populated; `tick_resources` stamps
  `last_update_ms` even when all three lists failed.
- The doc of `with_all_engines` says the field of a disabled engine stays `None`; for kube
  and GPU it is `Some(unavailable)`. The containers slot is not seeded, so its tab says
  that no engine is configured until the first poll. The dashboard's Workloads card shows a
  first kube poll still pending as "not configured" (`general.rs:368`) and an absent cluster as
  "unreachable".
- The Kube tab says "No cluster reachable" under `--no-kube` too, where the help speaks of a
  "no kubeconfig" state, since the seed of `collector.rs:203-228` makes no difference between the
  two; and an attached engine's polls before any list say so as well. Before the first poll it
  says "Connecting to the cluster" where `collector.rs:193-196` says "Waiting for cluster data".
- A cluster that is lost stays on screen as it was last listed: `collector.rs:198` and `325-327`
  speak of `unavailable` on failure, but `KubeEngine::snapshot` answers from its cache and never
  fails (`kube_engine.rs:287-329`).
- `IOReportCreateSubscription`'s dictionary is never released (`ioreport.rs:275-287` says so
  itself: a possible one-off leak).
- `spawn`'s handle is said to complete when the system loop exits; when the receiver is
  dropped and nobody cancels, it waits for engine loops that never end. `main` cancels
  first.
- A container snapshot is repeated on each system tick, so its rx sparkline alternates
  between a delta and 0; one failed containers poll wipes all histories; failing stats
  drop the row and its baseline, which `container_engine.rs:84-86` denies. A stop's grace
  equals the deadline of the call.
- Interfaces missing from a sample count as 0 bytes (`network.rs:160`, `186`), so one that
  comes back shows its whole counter as traffic.
- `pods_per_node` counts a finished pod that is being deleted and, under a namespace,
  only that namespace's pods. `parse_metrics_cpu` speaks of saturation and casts. Suffixes
  `k`, `m` for memory, `Pi`, `Ei` and exponents read as 0. The namespace of a kubeconfig
  context is not validated (`kube_engine.rs:738-742`), although the comment at line 932 says so.
- `KubeconfigSource::Env` is documented as a list separated by colons and read as one path.
- On unix systems other than Linux and macOS `set_errno_raw` does nothing. A NaN CPU share
  makes the process comparator not an order.

Connection and startup:

- `ConnectionClosed` is said to mean that a connection had succeeded (`remote.rs:105`); an EOF
  in place of Welcome gives it too, and resets the delay.
- Writing Hello, Welcome and Error 401 has no timeout on either side, and no `select!` races it
  against cancel. Nor do the calls into GPU drivers (`nvml_engine.rs:101`, `amd_engine.rs:107`,
  `apple/engine.rs:247`): one that never returns keeps a quit client waiting for its collector.
- An EOF inside a header is reported as a clean end; a decoder ignores bytes after a body.
- `--token` is not trimmed and `--token-file` is; `refresh_hz` carries seconds;
  `--bind 0.0.0.0 --tls-generate` makes a certificate for 0.0.0.0 alone; a bare IPv6 address
  without a port has its last group read as one (`tls.rs:56-57`); two servers of one user
  share the data directory, so one may serve another certificate than the one it announced.
- The panic hook is global: a background task that panics restores the terminal under a
  running TUI. The TUI's own panic leaves without cancel and join. A closed channel looks
  like an empty one to `poll_event`.

Tables and keys:

- `kill <name>` says it targets the busiest match and takes the first in the table's sort.
  `sort <field>` is said to use the active tab's columns and on the GPU tab re-sorts the
  processes; the palette's "Sort by" commands do so from any tab.
- `y` on the Network and GPU tabs copies from the snapshot's order, not the sorted one.
- Cluster names, phases and ready ratios run upwards under a downward arrow; uptimes are
  compared by start time; a node's columns show a share of what is allocatable and are
  sorted by absolute use; the containers' RX/s and TX/s columns show totals; COMMAND is
  marked when the sort is by process name.
- `gpu_count` counts PID matches that `draw_procs` does not draw.
- The wheel moves the offset that the next frame snaps back (the offset `table::draw`
  returns is stored nowhere). Overlay scrolling in the log is not clamped.
- `go_back` lists toasts before filter editing, while an open filter input gets Esc first.
- `/` opens an input without a bar on the General tab and on a tab showing a placeholder.
  An inspector with nothing selected draws nothing and owns the keyboard.
- A process filter emptied within the debounce can say "No processes" until the next
  snapshot.
- Esc and `n` are said to leave the confirm dialog standing (`app.rs:2296-2297`); they close it.
- The palette's cursor is kept when the query changes; a blocked verb on a remote host is
  taken for a query; verb commands use up history slots that an empty input never shows.
- `notify.rs:6` says nothing is ever lost; the log keeps 50 and drops its oldest
  (`notify.rs:75-77`). `next_status_deadline` has no
  caller in the event loop.

Cells:

- USER is never shown at width 29 (`columns.rs:155`); a meter's remainder of 15/16 or more
  draws nothing; `human_bytes` can need six cells where `meter.rs:307` says five; an empty
  wrapped value in the inspector yields no line; a status segment that does not fit is
  skipped while later ones still appear.

### Bounds

- Limiter: a map of 2 with 3 sources reaches the ceiling with one source outside
  it; 6 ticks exceed `SweepInterval` (5) and allow several gaps (2). Rate 1 with
  unit 4 is below one token per second, where the burst is rounded up; rate 4 is
  above; rate 0 disables. The theorems remove the bounds, that of the clock
  included.
- Server: with 2 connections and 1 permit one is refused or gets the permit that came
  back; 2 snapshots overrun a ring of 1, so lag happens, and fill a queue of 1 while the
  relay holds another. Tokens of up to two bytes tell a wrong length from a wrong byte. The safety
  properties are theorems for any sizes and tokens.
- Session: delays of 1 to 4 pass the doubling and the cap, on which none of its properties
  depends; `backoff_reset` has the real ones, 1 to 30. A channel of 2 is both full and
  empty.
- Collector: two engine loops are enough for a tick to read one slot before and one after a
  change. One is cached, one may hang; the container loop is the GPU's without the wait, and its
  slot, which is not seeded, is left out of the instance. A channel of 1 reaches both "full"
  and "empty".
- Kube: two toggles can both read the scope before either writes it. Pods and
  deployments are told apart because either list may fail alone.
- Tables: three rows, of which filters of length 1 and 2 leave two and one, make
  every projection distinct; lists shrink to one row and to none under a cursor on
  the third. All sub-views change at once with a snapshot, as in the code. Heights up to
  4 put a table of three above, at and below the viewport; widths up to 130 pass every
  breakpoint and drop every column that can be dropped.
- Modes: the Network tab is left out: it has no binding of its own, and its filter
  behaves as that of Containers. Two tasks answer in either order and
  in one burst; two toasts reach the limit, which is 3 in the code and matters to
  nothing but how many Esc dismisses at once.
- Processes: four pids make a cycle of two with a tail and a process beside it; a depth
  limit of 2 cuts; with 4-bit pids 8 to 15 are those that turn negative.
- Wire: base 6 with the four-digit header, frames up to 6 bytes and a handshake cap of 1: each length is
  reached from below and above, with two messages in the stream.
- GPU: a card of each vendor and two of one, two processes with up to two contexts.
- Apple: intervals of 0 to 3 ticks around a minimum of 1; a table of clocks with an
  implausible one and a ragged one; five registry services, of which two are GPUs of the
  SoC.
- Cluster data: two pods and a node, which the list of nodes has or has not, quantities at,
  below and above integer limits that are cut to 6 and 9, and fractions that round both ways.
- Containers: one container, histories of two samples and three units of work; the run
  `container_cpu` has two containers.
- Startup: every class of each argument; combinations are taken for the arguments that one
  decision reads together. Two servers, two generations of certificate.
- Order: rows from four, which tie, miss a figure or differ by case, in lists up to 3.
- Notifier: five posts over a log of 4 and a screen of 2. Palette: six commands of all
  kinds, two queries and two verbs, a history of 2.

Deadlock checking is on for the tables and the modes, which always accept a key; the
other systems may stop, by cancellation, by running out of snapshots or clock ticks,
or because nobody connects.

### Fairness

Tokio polls every task that can make progress, so steps of tasks are weakly fair.
`select!` picks at random among the ready arms: an arm that is ready again and
again is eventually taken, which is strong fairness (the cancel arm against the
tick, a receive against a heartbeat). A handshake phase is fair in its *failure*,
because the code puts a timeout on it and nobody obliges the peer to answer. A
write, of Welcome and Error 401 as of a frame, is fair only while the peer reads:
`write_frame` has no timeout. `HandshakeEnds`, `ShutdownEnds` and `CatchesUp` except a peer that
has stopped. On the client Hello is written, in the end, by a server that reads again
and again; one that does not leaves the task `blocked`, which `SessionEnds` excepts. A stream
on the client need never end: there is no read timeout. Users never have to press
a key, peers never have to connect or read, nobody has to cancel. Requests to the
container daemon and to the cluster end, because those engines put a timeout on
them. Calls into GPU drivers have none: such a call is fair only while the driver answers, and
`CancelEnds`, `DownIsShown` and `SessionEnds` except one that hangs. Snapshots keep reaching the
TUI, since the collector ticks and the event loop drains them before it waits for
keys; a paused view ignores them, which `FilterSettles` allows for. In
`Session` both threads and the remote task run, and a cancelled local collector ends unless it
hangs, as `CancelEnds` shows; nobody has to quit.

## Proofs

Assumptions are those named in the modules: the finite set of sources, naturals
for rates and times, and the relations between the crate's constants
(`SWEEP_SIZE_TRIGGER <= MAX_TRACKED_IPS`, `0 < MIN_SWEEP_GAP <= SWEEP_INTERVAL`);
for the server a finite set of connections and a ring of positive size; for the other
modules capacities and bounds that are naturals (positive where the code's are), and for
`AppModes` that the tabs are among the code's and include those commands switch to. Of data they
say what the types and tables of the code do: commands have names of their own and scores that
are naturals (`PaletteAssumption`), names are texts and figures naturals or missing
(`TableOrderAssumption`), cards and directory entries are numbered without repetition
(`GpuAssumption`), host pids are positive in the width of a pid (`ActionsAssumption`), a body is
shorter than the base of the lengths (`WireAssumption`). `NotifierAssumption` is explained above.

Loops over data are recursive functions or folds where a theorem speaks of them. What they
compute is proved by induction on naturals with a set in place of a predicate (`SetInduction`,
from the well-foundedness of <), and a lemma that the recursion has a solution
(`PassingFacts`, `AddUpExists`).

**Rate limiter** (`RateLimiterProofs`).

- `TypeCorrect`: `TypeOK` is inductive by itself: it bounds every bucket by the
  burst and every timestamp by now.
- `MapStaysBounded`: `MapBounded /\ LatchMeansFull` is inductive given `TypeOK`.
  A sweep only shrinks the map; past the ceiling check there is room for one more;
  the latch is set only at the ceiling, and released by the only step that can
  follow a sweep.
- `AdmissionsBounded`: the obvious statement (spent <= burst + refill) is not
  inductive, since it forgets what is still in the bucket. `WindowBound` adds the
  bucket's level: spent plus level never exceeds burst plus refill. The step uses
  `StoreLevel` (a store changes no other source's level, even if a sweep evicts
  its bucket) and `TickLevel`.
- `EvictionInvisible`: the refinement of `TokenBucket` under
  `level = LevelOf`, where an absent entry counts as full. Every action maps to
  the action of the same name, a refusal at the ceiling to `RefuseOverload`,
  `OpenWindow` to a stutter.
- `CeilingRefusalsFresh`: an action property, from `TypeOK`, `MapBounded` and
  `SweepSizeTrigger <= MaxTracked`.
- `SurvivorsActive`: `SurvivorsWereActive` is inductive given `TypeOK`. A sweep
  keeps only buckets below their burst; a call writes a bucket that is below it too,
  because a token costs something and an empty bucket holds less than one.

**Server** (`ServerProofs`): `TypeCorrect`, `PermitsBalance`, `StreamsAuthorised`,
`StreamsFresh`, `StreamsInOrder`, for any number of connections, any ring and queue size and
any tokens. The inductive invariant is `TypeOK /\ PermitsAccounted /\ FeedOrdered` and `Sound`
of every session. That permits stay in range follows from the accounting alone:
the count of live sessions moves with the permits in every action (`FS_AddElement`,
`FS_RemoveElement`). Order and freshness are about what a session has already
written, and say nothing of what it will receive, so they are not inductive.
`FeedOrdered` says that log, relay and queue hold snapshots in the order they were taken, and
`Sound` that every entry a live session has yet to read is newer than what the relay was done
with at its accept, than what it last wrote and than the frame it is writing. A lag only moves the
cursor forward, which keeps both. `Sound` also says that a session past Hello offered the token;
the step needs `ComparisonExact`: the comparison, which pads the shorter token with zeros, is
true of equal tokens only.

**Kubernetes engine** (`KubeEngineProofs`): `TypeCorrect`, `OneCauseOfStrayRows`,
`NumbersGoTogether`, `ReachedForGood`, `NodesKept`, for any number of overlapping
toggles. Two strengthenings are needed. `PollScope`: a poll in flight whose requests
use another scope than the one in force was overtaken by a change of scope (without
it, the step that stores the rows has no cause to point at). `ReachableOrder`: what
is shown is no more reachable than the snapshot being taken, and that no more than
the cache (a snapshot reads the cache and the scope under two locks).

- `ClusterAddsUpForAll`: the rows of `KubeData`, for any pods, nodes, capacities and integer
  limits. The state needs no more than `KubeDataType`; the argument is about the conversions.
  `MillisBelow` says that no notation is read larger than it was written by more than the half
  milli it is rounded by, `BytesBelow` that none is at all, saturation included; the join of pods
  and nodes is a count over a finite set, split by node, with the pods of unlisted nodes apart.

**Tables** (`AppTableProofs`).

- `ViewsCurrent`, for any rows, filter lengths and cursor movements. `IInv` adds to
  `TablesCurrent` that the filter's length is in range, which makes the filter in force a witness
  for "some filter" whenever the view is recomputed. `Project` is never opened except on an
  absent snapshot: the argument is that every handler which changes one of its arguments
  recomputes, so it holds for any projection.
- `TableDrawnForAll`: what a frame shows of it, at every size of the terminal, and that a tab
  waits past the first snapshot only for an attached engine; of the texts shown instead of rows it
  leaves out those listed above as false. `TableInv` says
  that what the cache holds is a view of the rows under *some* filter (the one in force, or an
  earlier one within the debounce) and that the cursor of the process table lies in it; the
  other cursors may lie beyond the end, as `table_cursor` shows. The rest is arithmetic of the
  viewport and of the thumb.
- `PaletteHonestForAll`: `PaletteInv` says that an open palette's list is one of the two that
  `refilter` can make, for the input it has, and what was run last could be run. `RankedFacts`
  (a ranking is a permutation, in order of the keys, ties by position) carries "each command
  once" and the promised order from positions to commands.
- `RowsInOrderForAll`: two arguments that share nothing. `OrderInv` gives the sorts a list of
  rows; filters keep a subset of its positions, sorts rank them, reversals and missing figures
  keep every position once. `FieldInv` says that the field in force is one of the table in
  front, and that the process table's own is kept apart; `FieldsRight`, table by table, that
  every field has its arrow on a column that shows it; `CycleReaches`, that the key which cycles
  fields comes to all of them.
- `RowsAttributedForAll`: `Attributed(ds, ps, C)` says that devices and rows stand for the cards
  of `C`. NVML's snapshot is attributed to the readable cards (card by card, `RowsOfOneMore`),
  the AMD one to the cards found at connection, and `AttributedBoth` puts two such pairs
  together: the only place where the index shift matters. `GpuInv` adds that the AMD cards are
  entries of the directory, each once, hence none of NVIDIA's.

**Client session** (`SessionProofs`), for either kind of collector and any interleaving
of `main`, the TUI thread and the tasks.

- `TerminalRestored`: `ExitRestores` speaks of the end only. `Handover` says that `main` is
  past the TUI only when the TUI thread has returned or panicked, and `TermInv` which modes may
  be on at each call of `init_terminal`, so that its undo path leaves none, and that none is on
  after the TUI has left unless a call to take it back failed. In the loop nothing can
  be claimed: a panicking task switches the modes off under a TUI that still draws.
- `FrameCurrent`: a change not yet on screen is remembered in `needs_redraw` up to the top
  of the loop and in `should_draw` from there on; `RedrawInv` says which, at each place.

**Codec** (also in `SessionProofs`), for any base, caps and bodies, and a stream cut at any byte.

- `WireMessagesArriveWhole`: the bytes in flight are a concatenation of encodings cut at both
  ends, which is awkward to carry through a step. `WireInv` says it by places instead.
  `Layout`: message k occupies the bytes from `starts[k]` on, as many as its frame has.
  `Position`: the reader is at its message's start plus what it has read of it, and each byte in
  flight is the byte of the frame it is in. `Current`: a length or type already read is that of
  the message. `Refusals`: the reader gives up only at a frame over its cap, or at foreign bytes.
  `Progress`, the property, follows when the last byte of a body is taken.
- `WireIsAChannel`: from the same invariant, `Wire` implements `MessageChannel`: a write of a
  frame is `Send`, the completion of one `Receive`, and everything else a stutter.

**Collector** (`CollectorProofs`), for any finite list of engines.

- `HandleIsTotal`: the handle joins the loops one after the other. `ShutdownInv` says that
  while it joins, every engine before its position has stopped; a stopped loop never starts again.
- `AbsentEnginesStayAbsent`: `AbsentInv` says of an engine that is not attached that its
  loop is stopped and its answer is in no slot, no draft and no queued snapshot.
- `KnowledgeGrows`, an action property: a snapshot is read slot by slot, queued, and may
  be dropped. `KnownInv` orders what is known along that way: known to the consumer, then
  in each queued snapshot from the oldest to the newest, then in the draft as far as it
  has been read, then in the slots.

**Keyboard and modes** (`AppModesProofs`), for every table of tabs the assumption allows.
`IInv` has the shape of the UI record (`Sane`), `Exclusive`, and the two invariants about
tasks. Handlers call one another, so the lemmas follow the calls: `Follows(u, v)` is what
any handler may do to the UI state, each handler's lemma cites those it calls, and the
actions are left with nothing but their guards.

- `OneOwnerOfKeys`: `Exclusive` needs the fact that `dispatch` and the commands run only
  when nothing is open (`Idle`); a handler that opens something starts from there.
- `RemoteIsReadOnly`: in remote mode `Follows` lets a handler close a dialog but not open
  one, nor start anything.
- `NoOutcomeLost`: `Follows` keeps `started - tasks`; only the end of a task and the drain of
  results change the rest of the sum.
- `EscAlwaysStepsBack`: four handlers have an Esc of their own. `EscIsBack` reduces the
  key map's answer to `go_back`; `LayerRemoved` turns "one layer is gone from the set" into
  the count; `EscPeels` shows case by case that the set of layers loses one element.

**Parts** (`PartsProofs`).

- `SparklinesAreHonest`, for any ring size, any interfaces and any restarts. `RingInv` says
  the property of each pair of neighbours in the ring, and of the ring beside its history;
  `CounterInv` says of the sample to come that the counter has not outgrown the newest
  sample by more than the interface moved since.
- `BarsAreTraffic`: a bar is the difference of two looks at a counter that restarts.
  Looks are ordered by `Before`: the total received grows, and so does the part of it
  that restarts took away, which is the total less the counter. `RowsInv` orders the rows
  of a poll after those it replaces, although a poll is a step per container; `HistInv`
  ties the last bar's end to the cached counter. `CountersRead` covers a container that has
  stopped, whose bytes read as 0 (`SumNetworks`).
- `SamplerReleasesAll` and `WalkReleasesAll`: the reference counts equal what the phase, or the
  walk's stage, calls for. The invariants add that a baseline exists only while the
  sampler is open, and the shape of the walk. The dictionary `open` may leave behind is counted
  apart: at most one.
- `ClientStartsSafe`: for any set of `--remote` arguments. A run of the client is one step, so
  the property is inductive at once, and the proof is about the chain of checks in `main`
  and `run_app`, one case per kind of command line.
- `ServersServeOwnPair`, for any number of servers and kills. `Fine` adds to the
  property what a server has already checked or read; `Written` says of a server that has
  the directory to itself which of its files are on disk at each of its steps.
- `LogKeepsLatest` and `ToastsInLogForAll`: `LogLatest`, the log's half of `ToastsInLog`, is
  inductive. The half about the screen needs a reason why a toast on screen is still in the log.
  `Gone` and `Stays` say that what was posted after a toast on screen is there too or has
  expired; `Pace`, that to get past a toast messages have to wait for room, the stack less one
  in every `TtlInfo`. With the assumption that the log outlasts the screen, a toast expires
  before it is forgotten.
- `FiguresSupported`, `RowsAreDevices`: the values in `AppleSound`. `RowInv` adds to the row that
  clocks, counters and the baseline are numbers; the window is then long enough to divide by,
  and an average lies among what it averages. `WalkOrder` says that the rows found so far come
  before the entry in hand, and that before those to come. With `SamplerReleasesAll` and
  `WalkReleasesAll` they give `AppleSoundForAll`.
- `ActionsExactForAll`: `ActionsInv` adds what the kernel holds (`HostType`). `PidHeld` says that
  a pid that passes `validate_pid` is the one given and positive, for any width.

`Startup.RunApp` is a chain of IF because the code's is: with the overlapping guards of a
CASE, TLC takes the first, but the formula leaves the choice open and a proof would have
to hold for each.

Theorems without a run of their own (`TypeOK`, `MapBounded` and `LatchMeansFull`,
`SurvivorsWereActive`, `InOrder`, `ReachableSticks`, `NodesNeverBlank`, `AbsentNeverLive`,
`NeverUnknownAgain`, the refinement of `MessageChannel`) hold for every instance; the runs spend
their time elsewhere. `RefsBalanced`, `HandlesBalanced`, `RowSupported` and `DevicesTrue` are
conjuncts of `AppleSound`, and `LogLatest` is one of `ToastsInLog`; the runs check the wholes.

Out of the prover's reach and left to TLC:

- all liveness and everything with ENABLED;
- `TreeComplete`: the tree is recursive, as the code's is;
- `WidgetsFit`: that columns, meters and panels fit is a statement about the widths in the code's
  own tables, summed over whatever columns are shown. The width is its only parameter, and TLC
  does the arithmetic at each one up to 130, beyond the last at which the layout changes.

## Not modelled

- f32 rounding in the limiter; poisoned mutexes (nothing panics under the lock); TLS,
  bincode, clap and the fuzzy matcher themselves, which are external.
- What sysinfo, NVML and the daemons measure, beyond present or absent.
- Kubernetes deployments' rows (five counters copied) and the size cap of a metrics answer.
- The target of a dialog: the code means the pid captured when it opened, and the kernel
  may reuse it. What is copied to the clipboard.
- Themes, glyphs, help, wording, control-character scrubbing, and how the dashboard is
  divided into panels: output without state. Tests, scripts and packaging.

## Plan

Left for the models: `Server` and `RemoteCollector` composed over one connection with
`RateLimiter` deciding admission, the client's retries against the server's budget.

Left for the proofs: `TreeComplete`, if the tree is given as the set of paths of its lines in
place of the recursion; `WidgetsFit` for columns in general, from what the tables have in common.
