------------------------------ MODULE MCModules ------------------------------
(***************************************************************************)
(* The collecting modules side by side: the host module, the process       *)
(* module's table, the topology of the discovery module and the container  *)
(* module; and the graph that orders modules.  They share nothing but the  *)
(* shape of their cycle (Collectors), so a behaviour is about one of them: *)
(* `part'.                                                                 *)
(***************************************************************************)
EXTENDS HostMetrics, Topology, ProcessTable, Containers, DependencyGraph

HostSettingsOf(interval, max, exclude, off, muted) ==
  [interval |-> [s \in {"disk", "network", "cpu", "memory", "filesystem", "os"} |->
                   IF s = "os" THEN 2 ELSE interval],
   max |-> max, exclude |-> exclude, off |-> off, muted |-> muted]

\* The last is one that ParseSettings refuses.
MCHostSettings ==
  {HostSettingsOf(1, 2, {}, {}, FALSE), HostSettingsOf(2, 1, {}, {"os"}, FALSE),
   HostSettingsOf(1, 1, {1}, {}, TRUE), HostSettingsOf(1, 0, {}, {}, FALSE)}

Component(kind, n) == [kind |-> kind, name |-> n]

TopologyOf(os, denied, mode, total, perKind, paths) ==
  [os |-> os, denied |-> denied, mode |-> mode, total |-> total, perKind |-> perKind, paths |-> paths,
   maxScans |-> IF mode = "all" THEN 2 ELSE 1, correlate |-> TRUE, self |-> 1, include |-> {}, excluded |-> {},
   includeVirtual |-> TRUE, docker |-> os = "linux" /\ mode = "all", flaky |-> mode = "structural",
   mounts |-> {[n |-> n, point |-> 1, device |-> n, pseudo |-> FALSE] : n \in {1, 2}}]

MCTopologySettings ==
  {TopologyOf("linux", {}, "structural", 9, 1,
     {<<>>, <<Component("unit", 1)>>, <<Component("unit", 2), Component("container", 1)>>}),
   TopologyOf("linux", {2}, "all", 8, 2,
     {<<Component("pod_", 1), Component("container", 1)>>, <<Component("unit", 1), Component("unit", 2)>>}),
   TopologyOf("windows", {}, "all", 20, 2, {<<>>, <<Component("unit", 1), Component("unit", 2)>>}),
   TopologyOf("darwin", {}, "all", 20, 2, {<<>>})}

\* Two sockets share an address and a port.
MCSocket == {[n |-> n, addr |-> 1, port |-> 1, listening |-> TRUE] : n \in {1, 2}}
MCIface == {[n |-> 1, virtual |-> FALSE, up |-> TRUE], [n |-> 2, virtual |-> TRUE, up |-> TRUE]}

MCRuntime == [c \in Container |-> IF c = "c1" THEN "docker" ELSE "podman"]

\* Every set of at most two dependencies; one list that repeats itself, one that is not sorted.
MCLists ==
  {<<>>, <<1, 1>>, <<4, 1>>} \cup {<<d>> : d \in Id} \cup {l \in Id \X Id : l[1] < l[2]}

VARIABLE part

ModulesInit ==
  /\ part \in {"host", "topology", "process", "container", "graph"}
  /\ HostInit
  /\ part # "host" => hostMod.settings = HostSettingsOf(1, 2, {}, {}, FALSE) /\ has = {"disk"}
  /\ TopologyInit
  /\ part # "topology" => conf.os = "darwin" /\ \A s \in Socket : world.holders[s] = {}
  /\ Init
  /\ ContainersInit /\ (part # "container" => settings.perContainer)
  /\ manifests = [m \in {} |-> <<>>] \/ part = "graph"
  /\ GraphInit

ModulesNext ==
  \/ part = "host" /\ HostNext /\ UNCHANGED <<topologyVars, vars, boxVars, graphVars>>
  \/ part = "topology" /\ TopologyNext /\ UNCHANGED <<hostVars, vars, boxVars, graphVars>>
  \/ part = "process" /\ Next /\ UNCHANGED <<hostVars, topologyVars, boxVars, graphVars>>
  \/ part = "container" /\ ContainersNext /\ UNCHANGED <<hostVars, topologyVars, vars, graphVars>>
  \/ part = "graph" /\ GraphNext /\ UNCHANGED <<hostVars, topologyVars, vars, boxVars>>

ModulesSpec ==
  /\ ModulesInit
  /\ [][ModulesNext /\ UNCHANGED part]_<<part, hostVars, topologyVars, vars, boxVars, graphVars>>

=============================================================================
