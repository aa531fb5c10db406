-------------------------------- MODULE Gpu --------------------------------
(***************************************************************************)
(* crates/muxtop-core/src/gpu_engine.rs, gpu.rs, nvml_engine.rs and        *)
(* amd_engine.rs: several vendors' cards as one list of devices and one    *)
(* list of GPU processes.                                                  *)
(*                                                                         *)
(* The machine changes under the engine: drivers break, cards fault and    *)
(* recover, processes open and close contexts, and the host's process      *)
(* table is read at another moment than the cards.  A snapshot can be      *)
(* taken in any state; it is a function of the state.                      *)
(***************************************************************************)
EXTENDS Integers, Sequences, SequencesExt, FiniteSets, StableSort

CONSTANTS Nvidia,       \* the NVIDIA cards, in the driver's order
          DrmDirs,      \* the possible contents of /sys/class/drm
          AmdFiles,     \* the possible sets of readable attributes of a card
          Pid,          \* processes that use a GPU
          MaxContexts   \* bound: contexts open at a time

\* The driver numbers its cards and a directory its entries, none twice; no card is
\* both vendors'.
ASSUME GpuAssumption ==
  /\ Nvidia \in Seq(Range(Nvidia)) /\ IsInjective(Nvidia)
  /\ \A d \in DrmDirs :
       /\ d \in Seq(Range(d)) /\ IsInjective(d)
       /\ \A e \in Range(d) : e.number \in Nat /\ e \notin Range(Nvidia)
  /\ IsFiniteSet(Pid) /\ MaxContexts \in Nat

VARIABLES platform,   \* the operating system
          drm,        \* entries of /sys/class/drm, in directory order
          files,      \* the attributes an AMD card has
          figures,    \* the process lists that carry memory figures
          nvmlUp,     \* NVML answers
          readable,   \* NVIDIA cards that can be read
          contexts,   \* <<pid, card, kind>>: a process has a context on a card
          named,      \* pids the host's process table knows
          backends,   \* the engine: the backends found, or "undetected"
          cards       \* AmdEngine.cards, fixed when it connected

gpuVars == <<platform, drm, files, figures, nvmlUp, readable, contexts, named, backends, cards>>
machine == <<platform, drm, files, figures>>

ContextKinds == {"Compute", "Graphics"}
NoFigure     == "none"
NvCards      == Range(Nvidia)

GpuInit ==
  /\ platform \in {"linux", "windows", "other"}
  /\ drm \in DrmDirs /\ files \in AmdFiles
  /\ figures \in SUBSET ContextKinds
  /\ nvmlUp \in BOOLEAN /\ readable = NvCards
  /\ contexts = {} /\ named = Pid
  /\ backends = <<"undetected">> /\ cards = <<>>

-----------------------------------------------------------------------------
(* The machine.                                                            *)

Toggle(S, x) == IF x \in S THEN S \ {x} ELSE S \cup {x}

DriverToggles ==
  /\ nvmlUp' = ~nvmlUp
  /\ UNCHANGED <<machine, readable, contexts, named, backends, cards>>

CardToggles(c) ==
  /\ readable' = Toggle(readable, c)
  /\ UNCHANGED <<machine, nvmlUp, contexts, named, backends, cards>>

ContextToggles(x) ==
  /\ contexts' = Toggle(contexts, x)
  /\ Cardinality(contexts') <= MaxContexts
  /\ UNCHANGED <<machine, nvmlUp, readable, named, backends, cards>>

HostTableToggles(p) ==
  /\ named' = Toggle(named, p)
  /\ UNCHANGED <<machine, nvmlUp, readable, contexts, backends, cards>>

-----------------------------------------------------------------------------
(* connect                                                                 *)

\* NvmlEngine::connect: a driver without devices is no backend.
NvmlConnects == platform \in {"linux", "windows"} /\ nvmlUp /\ Nvidia # <<>>

\* discover_cards, parse_card_number, is_amd_card: whole cardN entries of the
\* right vendor, in card order whatever the directory's.
DiscoverCards ==
  LET at == Ranked([i \in {i \in DOMAIN drm : drm[i].whole /\ drm[i].vendor = "amd"} |-> drm[i].number])
  IN  [k \in DOMAIN at |-> drm[at[k]]]

AmdConnects == platform = "linux" /\ DiscoverCards # <<>>

\* detect_gpu_engines and probe_platform_backends: NVML first, then AMD.  No
\* backend at all leaves a NullGpuEngine, <<>>, that knows the reasons.
DetectGpuEngines ==
  /\ backends = <<"undetected">>
  /\ backends' = (IF NvmlConnects THEN <<"Nvml">> ELSE <<>>)
                   \o (IF AmdConnects THEN <<"AmdSysfs">> ELSE <<>>)
  /\ cards' = IF AmdConnects THEN DiscoverCards ELSE <<>>
  /\ UNCHANGED <<machine, nvmlUp, readable, contexts, named>>

GpuNext ==
  \/ DetectGpuEngines
  \/ DriverToggles
  \/ \E c \in NvCards : CardToggles(c)
  \/ \E p \in Pid, c \in NvCards, k \in ContextKinds : ContextToggles(<<p, c, k>>)
  \/ \E p \in Pid : HostTableToggles(p)

-----------------------------------------------------------------------------
(* nvml_engine.rs                                                          *)

Unavailable(why) == [available |-> FALSE, devices |-> <<>>, processes |-> <<>>, detail |-> why]

\* The Result of a backend's snapshot.
Gave(s)   == [failures |-> {}, snapshot |-> s]
Failed(e) == [failures |-> {e}, snapshot |-> Unavailable({})]

\* GpuProcessKind::merge
MergeKind(a, b) == IF a = b \/ b = "Unknown" THEN a ELSE IF a = "Unknown" THEN b ELSE "Both"

\* The contexts of a process on a card.
KindsOf(p, card) == {k \in ContextKinds : <<p, card, k>> \in contexts}

\* collect_processes: one row per pid, those with a compute context first, each list in
\* whatever order the driver has; the kinds merge, and the first list that has a
\* memory figure gives it.
ProcessRowOf(p, card, index) ==
  LET kinds == KindsOf(p, card)
      told  == kinds \cap figures
  IN  [pid |-> p, device_index |-> index, name |-> "", card |-> card,
       kind |-> IF kinds = ContextKinds THEN MergeKind("Compute", "Graphics")
                ELSE CHOOSE k \in kinds : TRUE,
       mem |-> IF "Compute" \in told THEN "Compute" ELSE IF "Graphics" \in told THEN "Graphics" ELSE NoFigure]

CollectProcesses(card, index) ==
  LET compute  == {p \in Pid : "Compute" \in KindsOf(p, card)}
      graphics == {p \in Pid : "Graphics" \in KindsOf(p, card)}
      pids     == SetToSeq(compute) \o SetToSeq(graphics \ compute)
  IN  [k \in DOMAIN pids |-> ProcessRowOf(pids[k], card, index)]

\* collect: a card that cannot be read is skipped, and the indices stay dense.
NvmlCards ==
  LET at == Ranked([i \in {i \in DOMAIN Nvidia : Nvidia[i] \in readable} |-> i])
  IN  [k \in DOMAIN at |-> Nvidia[at[k]]]

NvmlDevices(seen) ==
  [k \in DOMAIN seen |-> [index |-> k - 1, card |-> seen[k], supports |-> TRUE, clock |-> "nvml", power |-> "nvml"]]

NvmlProcesses(seen) ==
  LET rows[n \in 0..Len(seen)] == IF n = 0 THEN <<>> ELSE rows[n - 1] \o CollectProcesses(seen[n], n - 1)
  IN  rows[Len(seen)]

NvmlSnapshot ==
  IF ~nvmlUp THEN Failed("query")
  ELSE IF NvmlCards = <<>> THEN Gave(Unavailable({"NoneReadable"}))
  ELSE Gave([available |-> TRUE, devices |-> NvmlDevices(NvmlCards), processes |-> NvmlProcesses(NvmlCards),
           detail |-> {}])

-----------------------------------------------------------------------------
(* amd_engine.rs                                                           *)

\* find_hwmon: without the directory none of its files can be read.
Hwmon(f) == "hwmon" \in files /\ f \in files

\* read_device, read_active_dpm_mhz: every figure from the first of its sources
\* that can be read.
AmdClock == IF Hwmon("freq1_input") THEN "freq1_input"
            ELSE IF "pp_dpm_sclk" \in files THEN "pp_dpm_sclk" ELSE NoFigure

AmdPower == IF Hwmon("power1_average") THEN "power1_average"
            ELSE IF Hwmon("power1_input") THEN "power1_input" ELSE NoFigure

\* read_device: whatever attribute is missing, the card has its row.
AmdDevices ==
  [k \in DOMAIN cards |->
     [index |-> k - 1, card |-> cards[k], supports |-> FALSE,
      clock |-> AmdClock, power |-> AmdPower]]

\* collect: sysfs knows of no process.
AmdSnapshot ==
  IF cards = <<>> THEN Gave(Unavailable({"NoCardReadable"}))
  ELSE Gave([available |-> TRUE, devices |-> AmdDevices, processes |-> <<>>, detail |-> {}])

-----------------------------------------------------------------------------
(* gpu_engine.rs: the composite.                                           *)

SnapshotOf(b) == IF b = "Nvml" THEN NvmlSnapshot ELSE AmdSnapshot

\* What a snapshot has gathered from the backends asked so far.
Merged(devices, processes, failures) == [devices |-> devices, processes |-> processes, failures |-> failures]

\* Mutant: the processes keep the index their own backend gave the device.
MergeUnshifted(merged, b) ==
  LET r == SnapshotOf(b)
      s == r.snapshot
  IN  IF ~s.available THEN [merged EXCEPT !.failures = @ \cup r.failures \cup s.detail]
      ELSE [merged EXCEPT
             !.devices = @ \o [k \in DOMAIN s.devices |->
                                [s.devices[k] EXCEPT !.index = @ + Len(merged.devices)]],
             !.processes = @ \o s.processes]

\* One backend's snapshot joins what the ones before it gave.
Merge(merged, b) ==
  LET r == SnapshotOf(b)
      s == r.snapshot
      offset == Len(merged.devices)
  IN  IF r.failures # {} THEN Merged(merged.devices, merged.processes, merged.failures \cup r.failures)
      ELSE IF ~s.available THEN Merged(merged.devices, merged.processes, merged.failures \cup s.detail)
      ELSE Merged(
             merged.devices \o [k \in DOMAIN s.devices |-> [s.devices[k] EXCEPT !.index = @ + offset]],
             merged.processes \o [k \in DOMAIN s.processes |-> [s.processes[k] EXCEPT !.device_index = @ + offset]],
             merged.failures)

\* CompositeGpuEngine::snapshot, once every backend was asked; the null engine for none.
Composite(merged) ==
  [available |-> merged.devices # <<>>, devices |-> merged.devices, processes |-> merged.processes,
   detail |-> IF merged.devices # <<>> THEN {}
              ELSE IF merged.failures = {} THEN {"NoGpuDetected"} ELSE merged.failures]

CompositeSnapshot(order) ==
  LET upto[n \in 0..Len(order)] == IF n = 0 THEN Merged(<<>>, <<>>, {}) ELSE Merge(upto[n - 1], order[n])
  IN  Composite(upto[Len(order)])

\* resolve_process_names: a pid the host does not know keeps its empty name.
ResolveNames(s) ==
  [s EXCEPT !.processes = [k \in DOMAIN s.processes |->
     IF s.processes[k].name = "" /\ s.processes[k].pid \in named
     THEN [s.processes[k] EXCEPT !.name = "known"] ELSE s.processes[k]]]

-----------------------------------------------------------------------------

Expected(order) ==
  (IF "Nvml" \in Range(order) /\ nvmlUp THEN readable ELSE {})
    \cup (IF "AmdSysfs" \in Range(order) THEN Range(cards) ELSE {})

\* A snapshot that asked the backends in this order lists every readable card
\* once, at the place its index says, and every process once on its own card.
SnapshotTrue(s, order) ==
  LET rows == s.processes
      mine(p, c) == {k \in DOMAIN rows : rows[k].pid = p /\ rows[k].card = c}
  IN  /\ {s.devices[k].card : k \in DOMAIN s.devices} = Expected(order)
      /\ Len(s.devices) = Cardinality(Expected(order))
      /\ \A k \in DOMAIN s.devices :
           /\ s.devices[k].index = k - 1
           /\ s.devices[k].clock = NoFigure => "pp_dpm_sclk" \notin files
      /\ \A k \in DOMAIN rows :
           /\ rows[k].device_index + 1 \in DOMAIN s.devices
           /\ s.devices[rows[k].device_index + 1].card = rows[k].card
           /\ (rows[k].name = "") <=> (rows[k].pid \notin named)
      /\ \A p \in Pid, c \in NvCards \cap Expected(order) :
           /\ Cardinality(mine(p, c)) = IF KindsOf(p, c) = {} THEN 0 ELSE 1
           /\ \A k \in mine(p, c) :
                /\ (rows[k].kind = "Both") <=> (KindsOf(p, c) = ContextKinds)
                /\ (rows[k].mem = NoFigure) <=> (KindsOf(p, c) \cap figures = {})
      /\ s.available <=> (s.devices # <<>>)
      /\ ~s.available => s.detail # {}

\* Whatever breaks, every card that can be read is a device, at the place its
\* index says, and one vendor's failure hides no card of another; every process
\* with a context on such a card has exactly one row there, pointing at that
\* card and no other, with both kinds of context told and a memory figure when
\* any list had one; an empty list always says why.  Either order of the
\* backends would do.
RowsAttributed ==
  backends # <<"undetected">> =>
    \A order \in {backends, Reverse(backends)} :
      SnapshotTrue(ResolveNames(CompositeSnapshot(order)), order)
=============================================================================
