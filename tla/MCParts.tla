------------------------------ MODULE MCParts ------------------------------
(***************************************************************************)
(* The parts of muxtop that share no state while they work: a behaviour is *)
(* a behaviour of one of them, and the others stay as they started.        *)
(***************************************************************************)
EXTENDS Processes, NetworkHistory, Wire, Gpu, AppleRegistry, KubeData, ContainerEngine, ServerStartup,
        TableOrder, Notifier, Palette

VARIABLES part   \* the part whose behaviour this is

vars == <<part, processVars, networkVars, wireVars, gpuVars, appleVars, registryVars, kubeDataVars,
          containerVars, client, serverStartupVars, orderVars, sortVars, notifierVars, paletteVars>>

Only(p) == part = p

Init ==
  /\ part \in {"processes", "network", "wire", "gpu", "apple", "registry", "kube data", "containers",
               "client", "server", "order", "sorting", "notifier", "palette"}
  /\ ProcessesInit /\ NetworkInit /\ KubeDataInit /\ StartupInit /\ ServerStartupInit
  /\ TableOrderInit /\ NotifierInit
  /\ WireInit /\ (Only("wire") \/ cap = MaxHello)
  /\ GpuInit /\ (Only("gpu") \/ /\ platform = "other" /\ drm \in DrmDirs /\ nvmlUp /\ figures = {}
                                /\ files = CHOOSE f \in AmdFiles : TRUE)
  /\ AppleInit /\ (Only("apple") \/ blob = CHOOSE b \in Blobs : TRUE)
  /\ RegistryInit /\ (Only("registry") \/ registered = {})
  /\ PaletteInit /\ (Only("palette") \/ (isRemote /\ tabNow = CHOOSE t \in Tabs : TRUE))
  /\ SortInit /\ (Only("sorting") \/ inFront = "processes")
  /\ ContainersInit /\ (Only("containers") \/ engine)

Next ==
  \/ /\ Only("processes") /\ ProcessesNext
     /\ UNCHANGED <<part, networkVars, wireVars, gpuVars, appleVars, registryVars, kubeDataVars, containerVars,
                    client, serverStartupVars, orderVars, sortVars, notifierVars, paletteVars>>
  \/ /\ Only("network") /\ NetworkNext
     /\ UNCHANGED <<part, processVars, wireVars, gpuVars, appleVars, registryVars, kubeDataVars, containerVars,
                    client, serverStartupVars, orderVars, sortVars, notifierVars, paletteVars>>
  \/ /\ Only("wire") /\ WireNext
     /\ UNCHANGED <<part, processVars, networkVars, gpuVars, appleVars, registryVars, kubeDataVars, containerVars,
                    client, serverStartupVars, orderVars, sortVars, notifierVars, paletteVars>>
  \/ /\ Only("gpu") /\ GpuNext
     /\ UNCHANGED <<part, processVars, networkVars, wireVars, appleVars, registryVars, kubeDataVars, containerVars,
                    client, serverStartupVars, orderVars, sortVars, notifierVars, paletteVars>>
  \/ /\ Only("apple") /\ AppleNext
     /\ UNCHANGED <<part, processVars, networkVars, wireVars, gpuVars, registryVars, kubeDataVars, containerVars,
                    client, serverStartupVars, orderVars, sortVars, notifierVars, paletteVars>>
  \/ /\ Only("registry") /\ RegistryNext
     /\ UNCHANGED <<part, processVars, networkVars, wireVars, gpuVars, appleVars, kubeDataVars, containerVars,
                    client, serverStartupVars, orderVars, sortVars, notifierVars, paletteVars>>
  \/ /\ Only("kube data") /\ KubeDataNext
     /\ UNCHANGED <<part, processVars, networkVars, wireVars, gpuVars, appleVars, registryVars, containerVars,
                    client, serverStartupVars, orderVars, sortVars, notifierVars, paletteVars>>
  \/ /\ Only("containers") /\ ContainersNext
     /\ UNCHANGED <<part, processVars, networkVars, wireVars, gpuVars, appleVars, registryVars, kubeDataVars,
                    client, serverStartupVars, orderVars, sortVars, notifierVars, paletteVars>>
  \/ /\ Only("client") /\ StartupNext
     /\ UNCHANGED <<part, processVars, networkVars, wireVars, gpuVars, appleVars, registryVars, kubeDataVars,
                    containerVars, serverStartupVars, orderVars, sortVars, notifierVars, paletteVars>>
  \/ /\ Only("server") /\ ServerStartupNext
     /\ UNCHANGED <<part, processVars, networkVars, wireVars, gpuVars, appleVars, registryVars, kubeDataVars,
                    containerVars, client, orderVars, sortVars, notifierVars, paletteVars>>
  \/ /\ Only("order") /\ TableOrderNext
     /\ UNCHANGED <<part, processVars, networkVars, wireVars, gpuVars, appleVars, registryVars, kubeDataVars,
                    containerVars, client, serverStartupVars, sortVars, notifierVars, paletteVars>>
  \/ /\ Only("sorting") /\ SortNext
     /\ UNCHANGED <<part, processVars, networkVars, wireVars, gpuVars, appleVars, registryVars, kubeDataVars,
                    containerVars, client, serverStartupVars, orderVars, notifierVars, paletteVars>>
  \/ /\ Only("notifier") /\ NotifierNext
     /\ UNCHANGED <<part, processVars, networkVars, wireVars, gpuVars, appleVars, registryVars, kubeDataVars,
                    containerVars, client, serverStartupVars, orderVars, sortVars, paletteVars>>
  \/ /\ Only("palette") /\ PaletteNext
     /\ UNCHANGED <<part, processVars, networkVars, wireVars, gpuVars, appleVars, registryVars, kubeDataVars,
                    containerVars, client, serverStartupVars, orderVars, sortVars, notifierVars>>

Spec == Init /\ [][Next]_vars

-----------------------------------------------------------------------------
(* The instances.                                                          *)

\* The frames: nothing, a byte, one whose bytes read like a header, the largest.
MCBodies == {<<>>, <<1>>, <<0, 2, 4, 1>>, <<1, 1, 1, 1, 1>>}

Entry(v, n, w) == [vendor |-> v, number |-> n, whole |-> w]
MCNvidia == <<Entry("nvidia", 0, TRUE), Entry("nvidia", 1, TRUE)>>
MCDrmDirs == {<<Entry("amd", 2, TRUE), Entry("intel", 1, TRUE), Entry("amd", 0, FALSE), Entry("amd", 0, TRUE)>>}
MCAmdFiles == {{"hwmon", "freq1_input", "power1_input"}, {"freq1_input", "pp_dpm_sclk"}}

\* One clock goes beyond any plausible one, one blob is not a whole number of entries.
Blob(hz, ragged) == [hz |-> hz, ragged |-> ragged]
MCBlobs == {Blob(<<0, 3, 5>>, FALSE), Blob(<<0, 90>>, FALSE), Blob(<<0, 4>>, TRUE)}

\* The SoC's GPU, another vendor's, one whose driver says less, and the power manager.
Service(n, c, util, mem, model, b) ==
  [node |-> n, class |-> c, stats |-> util # None, util |-> util, mem |-> mem, model |-> model,
   cores |-> IF model = "" THEN 0 ELSE 8, blob |-> b]
MCServices ==
  <<Service("IOAccelerator", "AGX", 101, 3, "Apple M3", <<>>), Service("IOAccelerator", "AMD", 5, 3, "Pro", <<>>),
    Service("IOAccelerator", "AGX", 7, -5, "", <<>>),
    Service("pmgr", "AppleARMIODevice", None, -1, "", <<>>),
    Service("pmgr", "AppleARMIODevice", None, -1, "", <<Blob(<<0, 3>>, FALSE)>>)>>

ContainerStatus(r, w, n) == [ready |-> r, waiting |-> w, restarts |-> n]
MCPodContainers ==
  {<<ContainerStatus(TRUE, "no", -1), ContainerStatus(FALSE, "CrashLoopBackOff", 2)>>,
   <<ContainerStatus(TRUE, "no", 1), ContainerStatus(TRUE, "no", 1)>>}

Quantity(t, s) == [tenths |-> t, suffix |-> s]
Reported(cpu, mem) == [cpu |-> cpu, mem |-> mem]
MCCapacities ==
  {Reported(Quantity(5, ""), Quantity(30, "Ki")), Reported(Quantity(25, "m"), Quantity(15, "K")),
   Reported(Quantity(85, ""), Quantity(20, "m"))}
MCUsages == {Quantity(0, "none"), Quantity(30, "u"), Quantity(390, "n"), Quantity(20, "m")}

MCContainers == {"c1-full"}
MCShort == [c \in MCContainers |-> "c1"]

Target(h, b, p, l, c) ==
  [given |-> TRUE, host |-> h, bracket |-> b, port |-> p, lastGroup |-> l, cutHost |-> c]
MCTargets ==
  {[Target("name", "none", "none", "hex", "junk") EXCEPT !.given = FALSE]}
    \cup {Target(h, "none", p, "hex", "junk") : h \in {"name", "v4"}, p \in {"ok", "none", "bad"}}
    \cup {Target("v6", b, p, l, c) : b \in {"none", "open", "closed"}, p \in {"ok", "none"},
                                     l \in {"decimal", "hex"}, c \in {"v6", "junk"}}

OrderRow(name, also, figure) == [name |-> name, also |-> also, figure |-> figure]
MCRowSet ==
  {OrderRow(<<Char(1, "lower")>>, <<Char(2, "upper")>>, 2),
   OrderRow(<<Char(1, "upper"), Char(2, "lower")>>, <<>>, 0),
   OrderRow(<<Char(2, "wide"), Char(1, "lower")>>, <<Char(1, "lower")>>, Missing),
   OrderRow(<<Char(2, "lower")>>, <<Char(1, "lower"), Char(1, "wide")>>, 2)}

Cmd(n, h, v, b) == [name |-> n, home |-> h, verb |-> v, blocked |-> b]
MCCommands ==
  <<Cmd("kill", "procs", NoVerb, TRUE), Cmd("tree", "procs", NoVerb, FALSE),
    Cmd("rx", "net", NoVerb, FALSE), Cmd("theme", Everywhere, NoVerb, FALSE),
    Cmd("killnamed", "procs", "kill", TRUE), Cmd("sortby", Everywhere, "sort", FALSE)>>

\* The fuzzy matcher: what the queries s and k, and a verb no command here takes,
\* score for each name.
MCScore ==
  [q \in {"s", "k", "kill", "sort"} |->
    [n \in {"kill", "tree", "rx", "theme"} |->
      CASE q \in {"k", "kill"} /\ n \in {"kill", "rx"} -> 30
        [] q = "s" /\ n = "tree"  -> 30
        [] q = "s" /\ n = "rx"    -> 60
        [] q = "s" /\ n = "theme" -> 40
        [] OTHER -> 0]]

\* Only the cluster's part speaks of pods, and of none by name.
MCSymmetry == Permutations(Pod)
=============================================================================
