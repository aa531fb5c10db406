--------------------------- MODULE AppleRegistry ---------------------------
(***************************************************************************)
(* apple/ioregistry.rs and the engine that reads it (apple/engine.rs):     *)
(* which GPUs an Apple machine has, looked up again for every snapshot by  *)
(* a walk over the IORegistry that owns kernel objects by hand.            *)
(*                                                                         *)
(* Drivers come and go between any two calls of a walk, and each call may  *)
(* be refused.                                                             *)
(***************************************************************************)
EXTENDS AppleGpu

CONSTANTS Services   \* the nodes the registry may hold, in its order:
                     \* [node, class, stats, util, mem, model, cores, blob]

ASSUME RegistryAssumption == Services \in Seq(Range(Services)) /\ \A k \in DOMAIN Services : Services[k].util \in Int

VARIABLES registered, \* positions in Services that are there now
          walk,       \* matching_properties: [for, stage, left, entry, out]; left is what
                      \* the iterator has still to come to
          held,       \* kernel or CF object kind -> references owned
          apple,      \* AppleEngine: "new", "absent", "unsupported" or "connected"
          dvfs,       \* Inner.dvfs
          devices     \* the last snapshot: [available, rows]

registryVars == <<registered, walk, held, apple, dvfs, devices>>

Handles == {"matching", "iterator", "entry", "properties"}

NoWalk == [for |-> "nobody", stage |-> "idle", left |-> {}, entry |-> 0, out |-> <<>>]

RegistryInit ==
  /\ registered \in SUBSET DOMAIN Services
  /\ walk = NoWalk
  /\ held = [h \in Handles |-> 0]
  /\ apple = "new" /\ dvfs = <<>> /\ devices = [available |-> FALSE, rows |-> <<>>]

-----------------------------------------------------------------------------
(* matching_properties, call by call.                                      *)

Holds(h, n) == held' = [held EXCEPT ![h] = @ + n]

\* accelerators looks up a driver class, gpu_dvfs_blob a node's own name.
Sought(who) == IF who = "dvfs" THEN "pmgr" ELSE "IOAccelerator"

\* Who calls it: connect twice, then collect on every tick.
Wanted(who) ==
  CASE who = "connect" -> apple = "new"
    [] who = "dvfs"    -> apple = "probing"
    [] who = "collect" -> apple = "connected"

\* IOServiceMatching or IOServiceNameMatching; null ends the walk.
Match(who) ==
  /\ walk.stage = "idle" /\ Wanted(who)
  /\ \/ /\ walk' = [NoWalk EXCEPT !.for = who, !.stage = "matching"]
        /\ Holds("matching", 1)
     \/ /\ walk' = [NoWalk EXCEPT !.for = who, !.stage = "done"]
        /\ UNCHANGED held
  /\ UNCHANGED <<registered, apple, dvfs, devices>>

\* IOServiceGetMatchingServices consumes the dictionary, answered or refused.
GetMatchingServices ==
  /\ walk.stage = "matching"
  /\ \/ /\ walk' = [walk EXCEPT !.stage = "iterating",
                                !.left = {k \in registered : Services[k].node = Sought(walk.for)}]
        /\ held' = [held EXCEPT !["matching"] = @ - 1, !["iterator"] = @ + 1]
     \/ /\ walk' = [walk EXCEPT !.stage = "done"]
        /\ Holds("matching", -1)
  /\ UNCHANGED <<registered, apple, dvfs, devices>>

\* IOIteratorNext, with an entry: the next one in the registry's order.
IteratorNext ==
  /\ walk.stage = "iterating" /\ walk.left # {}
  /\ walk' = [walk EXCEPT !.stage = "entry", !.entry = Min(walk.left), !.left = @ \ {Min(walk.left)}]
  /\ Holds("entry", 1)
  /\ UNCHANGED <<registered, apple, dvfs, devices>>

\* IORegistryEntryCreateCFProperties: a node that left since, or a refusal,
\* costs this node.  The entry is released either way.
CreateProperties ==
  /\ walk.stage = "entry"
  /\ \/ /\ walk.entry \in registered
        /\ walk' = [walk EXCEPT !.stage = "iterating", !.entry = 0, !.out = Append(@, walk.entry)]
        /\ held' = [held EXCEPT !["entry"] = @ - 1, !["properties"] = @ + 1]
     \/ /\ walk' = [walk EXCEPT !.stage = "iterating", !.entry = 0]
        /\ Holds("entry", -1)
  /\ UNCHANGED <<registered, apple, dvfs, devices>>

\* IOIteratorNext at the end.
IteratorEnds ==
  /\ walk.stage = "iterating" /\ walk.left = {}
  /\ walk' = [walk EXCEPT !.stage = "done"]
  /\ Holds("iterator", -1)
  /\ UNCHANGED <<registered, apple, dvfs, devices>>

-----------------------------------------------------------------------------
(* What the walks are for.  The dictionaries are dropped as they are       *)
(* decoded.                                                                *)

\* is_apple_gpu
IsAppleGpu(k) == Services[k].class = "AGX"

\* decode_accelerator: figures of a dictionary that may be missing; a negative
\* number of bytes is no figure (try_from).
DecodeAccelerator(k) ==
  LET s == Services[k]
  IN  [model |-> s.model, cores |-> s.cores,
       util  |-> IF s.stats THEN s.util ELSE None,
       mem   |-> IF s.stats /\ s.mem >= 0 THEN s.mem ELSE None]

\* device_name: by the model, else by the driver class, which is AGX.
DeviceName(info) == <<IF info.model # "" THEN info.model ELSE "AGX", IF info.cores > 0 THEN info.cores ELSE 0>>

\* collect and build_device, as far as the registry goes.
DeviceOf(k) ==
  LET info == DecodeAccelerator(k)
  IN  [name |-> DeviceName(info), mem |-> info.mem,
       util |-> IF info.util # None THEN ClampPct(info.util) ELSE None, service |-> k]

Dropped == held' = [held EXCEPT !["properties"] = 0]

\* connect, after accelerators()
ConnectDone ==
  /\ walk.stage = "done" /\ walk.for = "connect"
  /\ apple' = CASE walk.out = <<>> -> "absent"
                [] \E i \in DOMAIN walk.out : IsAppleGpu(walk.out[i]) -> "probing"
                [] OTHER -> "unsupported"
  /\ walk' = NoWalk
  /\ Dropped
  /\ UNCHANGED <<registered, dvfs, devices>>

\* gpu_dvfs_blob: the first node that has the property; without it, or with one
\* that cannot be trusted, the engine connects all the same.
DvfsDone ==
  /\ walk.stage = "done" /\ walk.for = "dvfs"
  /\ apple' = "connected"
  /\ LET blobs == SelectSeq([i \in DOMAIN walk.out |-> Services[walk.out[i]].blob], LAMBDA b : b # <<>>)
     IN  dvfs' = IF blobs = <<>> THEN <<>> ELSE ParseDvfsTable(blobs[1][1])
  /\ walk' = NoWalk
  /\ Dropped
  /\ UNCHANGED <<registered, devices>>

\* The Apple ones among what a walk found, in its order.
AppleGpus(out) ==
  LET agx[n \in 0..Len(out)] ==
        IF n = 0 THEN <<>>
        ELSE IF IsAppleGpu(out[n]) THEN Append(agx[n - 1], out[n]) ELSE agx[n - 1]
  IN  agx[Len(out)]

\* collect
CollectDone ==
  /\ walk.stage = "done" /\ walk.for = "collect"
  /\ LET agx == AppleGpus(walk.out)
     IN  devices' = [available |-> agx # <<>>, rows |-> [i \in DOMAIN agx |-> DeviceOf(agx[i])]]
  /\ walk' = NoWalk
  /\ Dropped
  /\ UNCHANGED <<registered, apple, dvfs>>

\* A driver is loaded or unloaded.
ServiceToggles(k) ==
  /\ registered' = IF k \in registered THEN registered \ {k} ELSE registered \cup {k}
  /\ UNCHANGED <<walk, held, apple, dvfs, devices>>

RegistryNext ==
  \/ \E who \in {"connect", "dvfs", "collect"} : Match(who)
  \/ GetMatchingServices \/ IteratorNext \/ CreateProperties \/ IteratorEnds
  \/ ConnectDone \/ DvfsDone \/ CollectDone
  \/ \E k \in DOMAIN Services : ServiceToggles(k)

-----------------------------------------------------------------------------

\* "every io_object_t is released on every path including the early returns":
\* a walk holds what its stage needs, and nothing once its caller has the rows.
HandlesBalanced ==
  held = [h \in Handles |->
            CASE h = "matching" -> IF walk.stage = "matching" THEN 1 ELSE 0
              [] h = "iterator" -> IF walk.stage \in {"iterating", "entry"} THEN 1 ELSE 0
              [] h = "entry"    -> IF walk.stage = "entry" THEN 1 ELSE 0
              [] OTHER          -> Len(walk.out)]

\* The rows are distinct Apple GPUs in the registry's order, with no figure the
\* driver did not give, and none are shown as available when there are none.
DevicesTrue ==
  /\ devices.available <=> devices.rows # <<>>
  /\ \A i \in DOMAIN devices.rows :
       LET d == devices.rows[i]
           s == Services[d.service]
       IN  /\ s.node = "IOAccelerator" /\ s.class = "AGX"
           /\ i > 1 => d.service > devices.rows[i - 1].service
           /\ d.util # None => d.util \in 0..100 /\ s.stats /\ s.util # None
           /\ d.mem # None => d.mem = s.mem /\ s.stats

\* The Apple backend as a whole: the sampler and the registry walk give back every
\* object exactly once on every path, whatever is refused or vanishes meanwhile, but
\* for the one dictionary that opening the sampler may leave behind; and neither
\* shows a figure that nobody measured.
AppleSound == SamplerSound /\ HandlesBalanced /\ DevicesTrue
=============================================================================
