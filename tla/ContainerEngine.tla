-------------------------- MODULE ContainerEngine --------------------------
(***************************************************************************)
(* The Containers tab from the daemon's socket to the sparklines:          *)
(* core/src/container_engine.rs (which socket), core/src/docker_engine.rs  *)
(* (connecting, listing with one stats request per container, the CPU      *)
(* baseline of the previous poll, stop/kill/restart) and the per-container *)
(* histories of tui/src/app.rs.                                            *)
(*                                                                         *)
(* The daemon is the environment: its containers work, restart and vanish  *)
(* between any two steps of a poll.  A container is its full id; Short     *)
(* cuts it to the twelve characters shown.                                 *)
(***************************************************************************)
EXTENDS Integers, Sequences, FiniteSets, Functions, SequencesExt

CONSTANTS Containers,  \* the daemon's full container ids
          Short,       \* the id shown: the first twelve characters
          HistoryLen,  \* CONTAINER_HISTORY_LEN
          MaxWork      \* bound: steps of the host's clock

ASSUME ContainerAssumption ==
  /\ DOMAIN Short = Containers
  /\ IsInjective(Short)     \* no two ids share their first twelve characters
  /\ HistoryLen \in Nat \ {0}
  /\ MaxWork \in Nat

VARIABLES engine,   \* maybe_connect_default_engine returned an engine
          daemon,   \* per container: there, running, CPU time and bytes received
          sys,      \* the host's system_cpu_usage
          lastCpu,  \* DockerEngine.last_cpu
          poll,     \* a list_and_stats call
          slot,     \* Collector's last_containers
          hist,     \* AppState's container_cpu_hist, container_rx_hist, container_rx_last
          traffic   \* history: bytes each container received, restarts included

containerVars == <<engine, daemon, sys, lastCpu, poll, slot, hist, traffic>>

-----------------------------------------------------------------------------
(* container_engine.rs: which daemon.                                      *)

\* parse_docker_host, by scheme and by whether something follows it.
ParseDockerHost(raw) ==
  CASE raw.scheme = "unix" /\ raw.rest # "" -> "unix"
    [] raw.scheme = "tcp" /\ raw.rest # ""  -> "http"
    [] raw.scheme \in {"http", "https"}     -> "http"
    [] OTHER                                -> "none"

\* http_host_is_loopback: only a loopback literal or localhost is trusted to stay
\* on this host.
HttpHostIsLoopback(raw) == raw.rest \in {"localhost", "127.0.0.1", "[::1]"}

\* detect_with and detect_socket: DOCKER_HOST if it parses, else the first
\* candidate path that exists; the warning is for a daemon elsewhere.
DetectSocket(raw, exists) ==
  LET fromEnv == ParseDockerHost(raw)
      paths   == SelectSeq(<<"docker", "podman_user", "podman_system">>, LAMBDA p : p \in exists)
  IN  CASE fromEnv # "none" -> [target |-> fromEnv,
                                warned |-> fromEnv = "http" /\ ~HttpHostIsLoopback(raw)]
        [] paths # <<>>     -> [target |-> "unix", warned |-> FALSE]
        [] OTHER            -> [target |-> "none", warned |-> FALSE]

\* check_socket_symlink
SymlinkAccepted(symlink, explicit) == ~symlink \/ explicit

\* detect_engine_kind, from the version and system strings of /info.
EngineKind(info) ==
  CASE info.podman  -> "Podman"
    [] info.version -> "Docker"
    [] OTHER        -> "Unknown"

\* maybe_connect_default_engine with connect_with: whatever goes wrong leaves
\* None, and the program starts all the same.
MaybeConnect(explicit, found, symlink, answers, info) ==
  LET target == IF explicit THEN "unix" ELSE found.target
  IN  CASE target = "none" -> "None"
        [] target = "unix" /\ ~SymlinkAccepted(symlink, explicit) -> "None"
        [] ~answers -> "None"
        [] OTHER    -> EngineKind(info)

Hosts == [scheme : {"", "unix", "tcp", "http", "other"}, rest : {"", "localhost", "far"}]
Infos == [podman : BOOLEAN, version : BOOLEAN]

NoRows == [status |-> "None", rows |-> {}]
NoPoll == [stage |-> "idle", todo |-> {}, rows |-> {}]
NoHist == [cpu |-> << >>, rx |-> << >>, last |-> << >>, from |-> << >>, upto |-> << >>]

ContainersInit ==
  /\ \E explicit, symlink, answers \in BOOLEAN, raw \in Hosts, exists \in SUBSET {"docker", "podman_user"},
        info \in Infos :
       engine = (MaybeConnect(explicit, DetectSocket(raw, exists), symlink, answers, info) # "None")
  /\ daemon = [c \in Containers |-> [there |-> TRUE, running |-> TRUE, cpu |-> 0, rx |-> 0]]
  /\ sys = 0
  /\ lastCpu = << >>
  /\ poll = NoPoll
  /\ slot = NoRows
  /\ hist = NoHist
  /\ traffic = [c \in Containers |-> 0]

-----------------------------------------------------------------------------
(* docker_engine.rs: one poll.                                             *)

Cores == 2

Clamp(x, lo, hi) == IF x < lo THEN lo ELSE IF x > hi THEN hi ELSE x
SaturatingSub(a, b) == IF a >= b THEN a - b ELSE 0

\* compute_cpu_pct.  Without a previous sample, or without progress of the
\* system clock, there is nothing to divide by.
ComputeCpuPct(cpu, system, prev) ==
  IF prev = {} THEN 0
  ELSE LET p == CHOOSE p \in prev : TRUE
           systemDelta == SaturatingSub(system, p.system)
       IN  IF systemDelta = 0 THEN 0
           ELSE Clamp((SaturatingSub(cpu, p.cpu) * Cores * 100) \div systemDelta, 0, Cores * 100)

\* The baseline list_and_stats looks up, by the container's full id.  It reads a
\* copy taken before the requests; nobody else polls, so that is the cache itself.
Baseline(c) == {lastCpu[k] : k \in DOMAIN lastCpu \cap {c}}

\* sum_networks: a stopped container has no interfaces, which reads as 0 bytes.
SumNetworks(c) == IF daemon[c].running THEN daemon[c].rx ELSE 0

\* build_snapshot: the row, and the baseline it leaves.
BuildSnapshot(c) ==
  [id |-> Short[c], id_full |-> c,
   cpu_pct |-> ComputeCpuPct(daemon[c].cpu, sys, Baseline(c)),
   rx |-> SumNetworks(c),
   cached |-> [cpu |-> daemon[c].cpu, system |-> sys],
   total |-> traffic[c]]

\* The list of all containers, stopped ones included.  A failure ends the poll,
\* and the collector publishes unavailable.
ListContainers ==
  /\ engine /\ poll.stage = "idle"
  /\ \/ /\ poll' = [stage |-> "stats", todo |-> {c \in Containers : daemon[c].there},
                    rows |-> {}]
        /\ UNCHANGED slot
     \/ /\ slot' = [status |-> "unavailable", rows |-> {}]
        /\ UNCHANGED poll
  /\ UNCHANGED <<engine, daemon, sys, lastCpu, hist, traffic>>

\* fetch_stats, answered within STATS_TIMEOUT.
StatsAnswered(c) ==
  /\ c \in poll.todo /\ daemon[c].there
  /\ poll' = [poll EXCEPT !.todo = @ \ {c}, !.rows = @ \cup {BuildSnapshot(c)}]
  /\ UNCHANGED <<engine, daemon, sys, lastCpu, slot, hist, traffic>>

\* Removed meanwhile (404), refused, or too late: this row is dropped, and
\* nothing else.
StatsFailed(c) ==
  /\ c \in poll.todo
  /\ poll' = [poll EXCEPT !.todo = @ \ {c}]
  /\ UNCHANGED <<engine, daemon, sys, lastCpu, slot, hist, traffic>>

\* The cache is replaced by this poll's samples, under the id of the row; the
\* collector stores the rows in its slot.
FinishPoll ==
  /\ poll.stage = "stats" /\ poll.todo = {}
  /\ lastCpu' = [k \in {r.id : r \in poll.rows} |-> (CHOOSE r \in poll.rows : r.id = k).cached]
  /\ slot' = [status |-> "live", rows |-> poll.rows]
  /\ poll' = NoPoll
  /\ UNCHANGED <<engine, daemon, sys, hist, traffic>>

-----------------------------------------------------------------------------
(* app.rs: push_container_history, on every snapshot the TUI applies.  The *)
(* collector repeats its slot in each of them until the next poll.         *)

At(f, k, default) == IF k \in DOMAIN f THEN f[k] ELSE default

PushRing(ring, x) ==
  IF Len(ring) >= HistoryLen THEN Append(Tail(ring), x) ELSE Append(ring, x)

\* Mutant: the first sample counts from zero.
RxDeltaFromZero(row) == SaturatingSub(row.rx, At(hist.last, row.id, 0))

\* Received since the row was last seen; nothing the first time.
RxDelta(row) ==
  IF row.id \in DOMAIN hist.last THEN SaturatingSub(row.rx, hist.last[row.id]) ELSE 0

\* Both rings grow by one for every row, and whoever is not among the rows is
\* forgotten.  from and upto are history rings: what the container had received
\* in all when the interval of a bar began and when it ended.
PushContainerHistory(rows) ==
  LET row(k) == CHOOSE r \in rows : r.id = k
      ids    == {r.id : r \in rows}
  IN  [cpu  |-> [k \in ids |-> PushRing(At(hist.cpu, k, <<>>), row(k).cpu_pct)],
       rx   |-> [k \in ids |-> PushRing(At(hist.rx, k, <<>>), RxDelta(row(k)))],
       last |-> [k \in ids |-> row(k).rx],
       from |-> [k \in ids |-> PushRing(At(hist.from, k, <<>>),
                                       IF k \in DOMAIN hist.upto THEN Last(hist.upto[k]) ELSE row(k).total)],
       upto |-> [k \in ids |-> PushRing(At(hist.upto, k, <<>>), row(k).total)]]

ApplySnapshot ==
  /\ slot.status # "None"
  /\ hist' = PushContainerHistory(slot.rows)
  /\ UNCHANGED <<engine, daemon, sys, lastCpu, poll, slot, traffic>>

-----------------------------------------------------------------------------
(* stop, kill, restart: spawned by the TUI, each under ACTION_TIMEOUT.     *)

\* A request the daemon carries out, at any time: it does not matter whether the
\* answer still finds somebody waiting (stop has the same ten seconds of grace
\* as the client waits).  A request that fails changes nothing.
StopOrKill(c) ==
  /\ engine /\ daemon[c].there /\ daemon[c].running
  /\ daemon' = [daemon EXCEPT ![c].running = FALSE]
  /\ UNCHANGED <<engine, sys, lastCpu, poll, slot, hist, traffic>>

\* The counters of a restarted container start over.
Restart(c) ==
  /\ engine /\ daemon[c].there
  /\ daemon' = [daemon EXCEPT ![c] = [@ EXCEPT !.running = TRUE, !.cpu = 0, !.rx = 0]]
  /\ UNCHANGED <<engine, sys, lastCpu, poll, slot, hist, traffic>>

-----------------------------------------------------------------------------
(* The daemon's containers.                                                *)

\* Time passes; a busy container uses a unit of CPU and receives a byte.
Work ==
  /\ sys < MaxWork
  /\ sys' = sys + 1
  /\ \E c \in Containers :
       /\ daemon[c].there /\ daemon[c].running
       /\ daemon' = [daemon EXCEPT ![c].cpu = @ + 1, ![c].rx = @ + 1]
       /\ traffic' = [traffic EXCEPT ![c] = @ + 1]
  /\ UNCHANGED <<engine, lastCpu, poll, slot, hist>>

RemoveContainer(c) ==
  /\ daemon[c].there
  /\ daemon' = [daemon EXCEPT ![c].there = FALSE]
  /\ UNCHANGED <<engine, sys, lastCpu, poll, slot, hist, traffic>>

Poll == ListContainers \/ FinishPoll \/ \E c \in Containers : StatsAnswered(c) \/ StatsFailed(c)

ContainersNext ==
  \/ Poll \/ ApplySnapshot
  \/ Work \/ \E c \in Containers : StopOrKill(c) \/ Restart(c) \/ RemoveContainer(c)

ContainersSpec == ContainersInit /\ [][ContainersNext]_containerVars

-----------------------------------------------------------------------------

\* "Containers that have disappeared since the last snapshot get their histories
\* dropped": the three maps hold the same containers, with rings of equal length
\* within the cap.
HistoriesAgree ==
  /\ DOMAIN hist.cpu = DOMAIN hist.rx /\ DOMAIN hist.cpu = DOMAIN hist.last
  /\ \A k \in DOMAIN hist.cpu : Len(hist.cpu[k]) = Len(hist.rx[k]) /\ Len(hist.rx[k]) <= HistoryLen

\* The network sparkline never shows bytes nobody received: a bar is at most what
\* the container received since the bar before it, whatever was restarted, dropped
\* from a poll and listed again in between, and the histories of a container come
\* and go together.
NoPhantomTraffic ==
  /\ HistoriesAgree
  /\ \A k \in DOMAIN hist.rx : \A i \in DOMAIN hist.rx[k] :
       /\ hist.rx[k][i] <= hist.upto[k][i] - hist.from[k][i]
       /\ i > 1 => hist.from[k][i] = hist.upto[k][i - 1]

\* The module's doc: only "the first tick after startup yields 0 % for every
\* container".  A container in two polls in a row, which used CPU in between,
\* shows it.
WarmUpIsOneTick ==
  [][\A old \in slot.rows, new \in slot'.rows :
       (FinishPoll /\ old.id = new.id /\ new.cached.cpu > old.cached.cpu) => new.cpu_pct > 0]_containerVars
=============================================================================
