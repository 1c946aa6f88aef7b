------------------------------ MODULE Topology ------------------------------
(***************************************************************************)
(* The discovery module's picture of a host (internal/modules/discovery):  *)
(* the platform sources read one after the other while the host goes on,   *)
(* the builder turns the facts into candidates, the caps admit some of     *)
(* them, and the relationship engine joins what was admitted.  What is     *)
(* emitted from the table, and what becomes of it downstream, is Inventory.*)
(*                                                                         *)
(* Names, addresses and identifiers are small numbers; a cgroup path is a  *)
(* sequence of components, each naming a unit, a container, a pod or       *)
(* nothing.  A fingerprint is the attributes it is computed from.          *)
(***************************************************************************)
EXTENDS Naturals, Sequences, FiniteSets, FiniteSetsExt

CONSTANTS
  Pid,              \* process ids, numbers above 0
  Socket,           \* sockets: [n, addr, port, listening]
  Iface,            \* interfaces: [n, virtual, up]
  Address,          \* the addresses an interface may carry (0 is the wildcard)
  TopologySettings, \* the platforms and settings to consider
  MaxMoves,         \* bound on what the host does
  Radix             \* above every rank, number and pid

Number == 0 .. (Radix - 1)

\* One component of a cgroup path.
PathComponent == [kind : {"unit", "container", "pod", "pod_", "other"}, name : Number]

SettingsAreValid(c) ==
  /\ IsFiniteSet(c.paths) /\ c.paths \subseteq Seq(PathComponent)
  /\ IsFiniteSet(c.mounts) /\ \A m \in c.mounts : {m.n, m.point} \subseteq Number
  /\ c.self \in Number /\ {c.perKind, c.total} \subseteq Nat

ASSUME TopologyAssumption ==
  /\ Radix \in Nat /\ Radix > 3
  /\ IsFiniteSet(Pid) /\ Pid \subseteq Number \ {0} /\ 1 \in Pid
  /\ IsFiniteSet(Iface) /\ \A i, j \in Iface : i.n \in Number /\ (i.n = j.n => i = j)
  /\ IsFiniteSet(Socket) /\ \A s, t \in Socket : {s.n, s.addr, s.port} \subseteq Number /\ (s.n = t.n => s = t)
  /\ 0 \notin Address /\ MaxMoves \in Nat
  /\ \A c \in TopologySettings : SettingsAreValid(c)

VARIABLES
  conf,     \* platform and settings of this run
  world,    \* the host: start, parent, path of every pid; holders; addresses
  moves,    \* what the host has done so far, also the clock of start stamps
  reading,  \* the source the cycle reads next, "rest" between cycles
  found,    \* the facts gathered in this cycle
  table,    \* topology.entities: key -> attributes
  edges,    \* the relationships of the last cycle
  news,     \* the keys of the last cycle's changes
  calm      \* complete cycles since the host last moved, up to 3

topologyVars == <<conf, world, moves, reading, found, table, edges, news, calm>>

NoKey == <<"none", 0, 0>>
Key(kind, n) == <<kind, n, 0>>
ProcessKey(p, start) == <<"process", p, start>>

(***************************************************************************)
(* The host, which moves while it is being read.                           *)
(***************************************************************************)
Orphan == [pid |-> 0, start |-> 0]

Live == {p \in Pid : world.start[p] > 0}

\* Unix gives the children of a dead process to init; Windows leaves the number.
Orphaned(p) ==
  [q \in Pid |-> IF world.parent[q].pid = p /\ conf.os # "windows" THEN Orphan ELSE world.parent[q]]

Exit(p) ==
  /\ p \in Live
  /\ world' = [world EXCEPT !.start[p] = 0, !.path[p] = <<>>, !.parent = [Orphaned(p) EXCEPT ![p] = Orphan],
       !.holders = [s \in Socket |-> @[s] \ {p}]]

\* A process is started on a pid, the one that had it gone, and holds some sockets.
Fork(p, q, c, S) ==
  /\ q \in (Live \ {p}) \cup {0}
  /\ world' = [world EXCEPT !.start[p] = moves + 1, !.path[p] = c,
       !.parent = [Orphaned(p) EXCEPT ![p] = [pid |-> q, start |-> IF q = 0 THEN 0 ELSE world.start[q]]],
       !.holders = [s \in Socket |-> IF s \in S THEN @[s] \cup {p} ELSE @[s] \ {p}],
       !.reused = IF reading = "rest" THEN @ ELSE @ \cup {p}]

Readdress(i, a) ==
  world' = [world EXCEPT !.carries[i] = IF a \in @ THEN @ \ {a} ELSE @ \cup {a}]

Opened == {S \in SUBSET Socket : Cardinality(S) <= 1}

WorldMoves ==
  /\ moves < Max(Pid) + MaxMoves /\ calm < 2
  /\ \/ \E p \in Pid, q \in Pid \cup {0}, c \in conf.paths, S \in Opened : Fork(p, q, c, S)
     \/ \E p \in Pid : Exit(p)
     \/ \E i \in Iface, a \in Address : Readdress(i, a)
  /\ moves' = moves + 1 /\ calm' = 0
  /\ UNCHANGED <<conf, reading, found, table, edges, news>>

(***************************************************************************)
(* What a cgroup path proves.                                              *)
(***************************************************************************)
ContainerIDFrom(c) == IF c.kind = "container" THEN c.name ELSE 0

\* The systemd driver writes the uid with underscores, the cgroupfs driver with
\* dashes: both are the same pod.
PodUIDFrom(c) == IF c.kind \in {"pod", "pod_"} THEN c.name ELSE 0

\* The last component of a kind wins.
LastNamed(path, Name(_)) ==
  LET I == {i \in DOMAIN path : Name(path[i]) # 0}
  IN IF I = {} THEN 0 ELSE Name(path[Max(I)])

Unit(c) == IF c.kind = "unit" THEN c.name ELSE 0

ParseCgroupPath(path) ==
  [unit |-> LastNamed(path, Unit), container |-> LastNamed(path, ContainerIDFrom),
   pod |-> LastNamed(path, PodUIDFrom)]

(***************************************************************************)
(* The sources.                                                            *)
(***************************************************************************)
ProcessFacts(p, ppid, path, known) ==
  [pid |-> p, start |-> world.start[p], known |-> known, ppid |-> ppid, path |-> path,
   ev |-> ParseCgroupPath(path), parent |-> world.parent[p]]

\* One /proc entry: what may not be read is left out.
LinuxProcess(p) ==
  IF p \in conf.denied THEN {} ELSE {ProcessFacts(p, world.parent[p].pid, world.path[p], TRUE)}

\* A snapshot lists every process; the start stamp of a protected one is unknown.
WindowsProcess(p) == {ProcessFacts(p, world.parent[p].pid, <<>>, p \notin conf.denied)}

\* No parent is decoded and there are no control groups.
DarwinProcess(p) == {ProcessFacts(p, 0, <<>>, TRUE)}

DiscoverProcess(p) ==
  IF p \notin Live THEN {}
  ELSE CASE conf.os = "linux"   -> LinuxProcess(p)
         [] conf.os = "windows" -> WindowsProcess(p)
         [] OTHER               -> DarwinProcess(p)

\* How deep below the directory of unit u the process sits, 0 when it is in it.
Depth(p, u) ==
  Len(world.path[p]) - Min({i \in DOMAIN world.path[p] : Unit(world.path[p][i]) = u})

Members(u) == {p \in Live : \E i \in DOMAIN world.path[p] : Unit(world.path[p][i]) = u}

LowestIn(P) == IF P = {} THEN 0 ELSE Min(P)

\* The lowest pid in the unit's directory or, when it delegates, in the nearest
\* directory below that holds a process, at most three levels down.
MainPIDOf(u) ==
  LET near == {p \in Members(u) : Depth(p, u) <= 3}
  IN LowestIn({p \in near : \A q \in near : Depth(p, u) <= Depth(q, u)})

Service(u, main) ==
  [name |-> u, main |-> main, state |-> IF main = 0 THEN "unknown" ELSE "running",
   mainStart |-> IF main = 0 THEN 0 ELSE world.start[main]]

Units == (UNION {{Unit(c[i]) : i \in DOMAIN c} : c \in conf.paths}) \ {0}

\* The unit directories under system.slice that exist.
LinuxServices == {Service(u, MainPIDOf(u)) : u \in {v \in Units : Members(v) # {}}}

\* The service control manager names the process of every service; one process
\* may host several.
WindowsServices == {Service(u, LowestIn(Members(u))) : u \in {v \in Units : Members(v) # {}}}

DiscoverServices ==
  IF conf.os = "linux" THEN LinuxServices ELSE IF conf.os = "windows" THEN WindowsServices ELSE {}

\* Listening sockets, and UDP sockets without a peer.
ParseProcNet == {s \in Socket : s.listening /\ world.holders[s] # {}}

Endpoint(s, owner) ==
  [at |-> s.n, addr |-> s.addr, port |-> s.port, owner |-> owner,
   ownerStart |-> IF owner = 0 THEN 0 ELSE world.start[owner]]

\* The descriptor tables of the first MaxFDScans processes are searched; a
\* process that may not be inspected counts and shows nothing.
CorrelateOwners(s) ==
  LowestIn({p \in world.holders[s] \ conf.denied :
              Cardinality({q \in Live : q < p}) < conf.maxScans})

LinuxEndpoints == {Endpoint(s, IF conf.correlate THEN CorrelateOwners(s) ELSE 0) : s \in ParseProcNet}

\* The table itself names the owner.
WindowsEndpoints ==
  {Endpoint(s, IF conf.correlate THEN Min(world.holders[s]) ELSE 0) : s \in ParseProcNet}

DiscoverEndpoints ==
  IF conf.os = "linux" THEN LinuxEndpoints ELSE IF conf.os = "windows" THEN WindowsEndpoints ELSE {}

\* Interfaces are listed on every platform, virtual ones flagged.
DiscoverInterfaces == {[n |-> i.n, virtual |-> i.virtual, up |-> i.up, addrs |-> world.carries[i]] : i \in Iface}

(***************************************************************************)
(* Entities derived from the evidence.                                     *)
(***************************************************************************)
\* One container per identifier; the first process to prove a pod wins.
DiscoverContainers(P) ==
  LET in(id) == {f \in P : f.ev.container = id}
      podded(id) == {f \in in(id) : f.ev.pod # 0}
      pod(id) == IF podded(id) = {} THEN 0
                 ELSE (CHOOSE f \in podded(id) : \A g \in podded(id) : f.pid <= g.pid).ev.pod
  IN {[id |-> id, pod |-> pod(id)] : id \in {f.ev.container : f \in P} \ {0}}

\* The pods the containers prove, with the agent's own pod merged in by uid.
PodsFrom(containers) ==
  LET proved == {c.pod : c \in containers} \ {0}
  IN {[uid |-> u, self |-> u = conf.self] : u \in proved \cup ({conf.self} \ {0})}

\* A process is promoted when evidence connects it to something.
StructuralPIDs(f) ==
  {s.main : s \in f.services} \cup {e.owner : e \in f.endpoints}
    \cup {p.pid : p \in {q \in f.procs : q.ev.unit # 0 \/ q.ev.container # 0}}
    \cup conf.include

(***************************************************************************)
(* The builder.                                                            *)
(***************************************************************************)
KindPriority(kind) ==
  CASE kind \in {"runtime", "cloud", "pod"} -> 0
    [] kind = "service" -> 1   [] kind = "container" -> 2  [] kind = "endpoint" -> 3
    [] kind = "interface" -> 4 [] kind = "filesystem" -> 5 [] kind = "process" -> 6
    [] OTHER -> 7

\* place is the candidate's place in capacity.apply's order: kind, rank, key and,
\* between candidates of one key, the order they were built in.
Candidate(kind, key, rank, at, attrs) ==
  [kind |-> kind, key |-> key, attrs |-> attrs,
   place |-> ((KindPriority(kind) * Radix + rank) * Radix + key[2]) * Radix + at]

AddHost == {Candidate("host", Key("host", 0), 0, 0, 0)}
AddRuntime == {Candidate("runtime", Key("runtime", 0), 0, 0, conf.self # 0)}
AddCloud == {Candidate("cloud", Key("cloud", 0), 0, 0, 0)}

ServiceRank(state) == IF state = "running" THEN 1 ELSE 3

AddServices(f) ==
  {Candidate("service", Key("service", s.name), ServiceRank(s.state), 0, <<s.state, s.main>>) :
     s \in {t \in f.services : t.name \notin conf.excluded}}

\* With a Docker socket the daemon's description, its status text among it, is
\* part of the attributes.
EnrichContainers(answer) == IF conf.docker THEN answer ELSE 0

AddContainers(containers, answer) ==
  {Candidate("container", Key("container", c.id), 0, 0, <<c.pod, EnrichContainers(answer)>>) :
     c \in containers}

AddPods(pods) ==
  {Candidate("pod", Key("pod", p.uid), IF p.self THEN 0 ELSE 1, 0, p.self) : p \in pods}

InterfaceRank(i) == IF i.up /\ ~i.virtual THEN 0 ELSE IF i.up THEN 1 ELSE 2

AddInterfaces(f) ==
  {Candidate("interface", Key("interface", i.n), InterfaceRank(i), 0, <<i.up, i.addrs>>) :
     i \in {j \in f.ifaces : j.virtual => conf.includeVirtual}}

EndpointKey(e) == <<"endpoint", e.addr, e.port>>

AddEndpoints(f) ==
  {Candidate("endpoint", EndpointKey(e), e.port, e.at, e.owner) : e \in f.endpoints}

\* Two filesystems mounted on one point are two lines of mountinfo.
AddFilesystems ==
  {Candidate("filesystem", Key("filesystem", m.point), m.point, m.n, m.device) :
     m \in {x \in conf.mounts : ~x.pseudo}}

AddProcesses(f) ==
  LET chosen == IF conf.mode = "all" THEN {p.pid : p \in f.procs} ELSE StructuralPIDs(f)
  IN {Candidate("process", ProcessKey(p.pid, p.start), p.pid, 0, p.ppid) :
        p \in {q \in f.procs : conf.mode # "none" /\ q.pid \in chosen /\ q.known}}

\* Bug: the caps shed what everything else hangs on.
EarlierReversed(c, d) == d.place < c.place

Earlier(c, d) == c.place < d.place

AdmittedEntities(C) ==
  LET before(c, D) == Cardinality({d \in D : Earlier(d, c)})
      fits == {c \in C : before(c, {d \in C : d.kind = c.kind}) < conf.perKind}
  IN {c \in fits : before(c, fits) < conf.total}

(***************************************************************************)
(* topology.reconcile: a candidate of a key already seen in this cycle is  *)
(* one more update of the same entity.                                     *)
(***************************************************************************)
ReconciledTable(kept) ==
  [k \in {c.key : c \in kept} |->
     (CHOOSE c \in kept : c.key = k /\ \A d \in kept : d.key = k => ~Earlier(c, d)).attrs]

ChangedKeys(kept) ==
  LET previous(c) == {d \in kept : d.key = c.key /\ Earlier(d, c)}
      last(D) == CHOOSE d \in D : \A e \in D : ~Earlier(d, e)
      differs(c) == IF previous(c) # {} THEN last(previous(c)).attrs # c.attrs
                    ELSE c.key \notin DOMAIN table \/ table[c.key] # c.attrs
  IN {c.key : c \in {d \in kept : differs(d)}} \cup (DOMAIN table \ {c.key : c \in kept})

(***************************************************************************)
(* The relationship engine.  keys are those of the tracked entities.       *)
(***************************************************************************)
AdmittedKeysAll(keys, K) == keys

AdmittedKeys(keys, K) == keys \cap K

Edge(type, from, to, evidence, at) ==
  [type |-> type, from |-> from, to |-> to, evidence |-> evidence, at |-> at]

\* The key of the process entity of a pid, as procKeys has it.
ProcessOf(f, keys, p) ==
  LET K == AdmittedKeys({ProcessKey(q.pid, q.start) : q \in {r \in f.procs : r.pid = p}}, keys)
  IN IF K = {} THEN NoKey ELSE CHOOSE k \in K : TRUE

\* mainPIDs keeps the last service that names a pid.
MainOf(f, keys, p) ==
  LET names == {s.name : s \in {t \in f.services : t.main = p /\ t.name \notin conf.excluded}}
  IN IF names = {} THEN {} ELSE AdmittedKeys({Key("service", Max(names))}, keys)

RelateParent(f, keys) ==
  {Edge("parent", ProcessOf(f, keys, p.pid), ProcessOf(f, keys, p.ppid), "ppid", 0) : p \in f.procs}

\* The service manager's word before the cgroup's.
RelateService(f, keys) ==
  LET managed(p) == MainOf(f, keys, p.pid)
      grouped(p) == AdmittedKeys({Key("service", p.ev.unit)}, keys)
  IN UNION {{Edge("service", ProcessOf(f, keys, p.pid), k,
                  IF managed(p) # {} THEN "manager" ELSE "cgroup", 0) :
               k \in IF managed(p) # {} THEN managed(p) ELSE grouped(p)} : p \in f.procs}

RelateContainer(f, keys) ==
  UNION {{Edge("container", ProcessOf(f, keys, p.pid), k, "cgroup", 0) :
            k \in AdmittedKeys({Key("container", p.ev.container)}, keys)} : p \in f.procs}

RelateContainersToPods(containers, keys) ==
  UNION {{Edge("pod", j, k, "cgroup", 0) :
            j \in AdmittedKeys({Key("container", c.id)}, keys),
            k \in AdmittedKeys({Key("pod", c.pod)}, keys)} : c \in containers}

\* The interfaces, among those tracked, that carry an address.
Carriers(f, keys, a) ==
  AdmittedKeys({Key("interface", i.n) : i \in {j \in f.ifaces : a \in j.addrs}}, keys)

\* An address is owned only when exactly one interface carries it.
BuildAddressOwners(f, keys, a) ==
  LET K == Carriers(f, keys, a) IN IF Cardinality(K) = 1 THEN K ELSE {}

RelateEndpoints(f, keys) ==
  UNION {{Edge("owner", k, ProcessOf(f, keys, e.owner),
               IF conf.os = "linux" THEN "inode" ELSE "table", e.at) :
            k \in AdmittedKeys({EndpointKey(e)}, keys)}
         \cup {Edge("bound", k, i, "address", e.at) :
                 k \in AdmittedKeys({EndpointKey(e)}, keys), i \in BuildAddressOwners(f, keys, e.addr)}
         : e \in f.endpoints}

\* relationSet.add: no end may be missing, no edge leads to itself, and the first
\* target of a source and type stays.
Functional(E) ==
  LET real == {e \in E : NoKey \notin {e.from, e.to} /\ e.from # e.to}
  IN {e \in real : \A d \in real : d.from = e.from /\ d.type = e.type => e.at <= d.at}

Relate(f, containers, keys) ==
  Functional(RelateParent(f, keys) \cup RelateService(f, keys) \cup RelateContainer(f, keys)
             \cup RelateContainersToPods(containers, keys) \cup RelateEndpoints(f, keys))

(***************************************************************************)
(* One cycle: the processes one by one, the services, then the rest and    *)
(* everything that is computed from the facts.                             *)
(***************************************************************************)
NoFacts == [procs |-> {}, services |-> {}, endpoints |-> {}, ifaces |-> {}]

BeginCycle ==
  /\ reading = "rest"
  /\ reading' = "processes" /\ found' = NoFacts
  /\ world' = [world EXCEPT !.reused = {}, !.left = Pid]
  /\ UNCHANGED <<conf, moves, table, edges, news, calm>>

ReadProcess ==
  /\ reading = "processes" /\ world.left # {}
  /\ LET p == Min(world.left)
     IN /\ found' = [found EXCEPT !.procs = @ \cup DiscoverProcess(p)]
        /\ world' = [world EXCEPT !.left = @ \ {p}]
  /\ UNCHANGED <<conf, moves, reading, table, edges, news, calm>>

\* A source that fails costs its domain for the cycle.
ReadServices ==
  /\ reading = "processes" /\ world.left = {}
  /\ reading' = "services"
  /\ \/ found' = [found EXCEPT !.services = DiscoverServices] /\ UNCHANGED calm
     \/ conf.flaky /\ calm' = 0 /\ UNCHANGED found
  /\ UNCHANGED <<conf, world, moves, table, edges, news>>

ReadEndpoints ==
  /\ reading = "services"
  /\ reading' = "build"
  /\ found' = [found EXCEPT !.ifaces = DiscoverInterfaces, !.endpoints = DiscoverEndpoints]
  /\ UNCHANGED <<conf, world, moves, table, edges, news, calm>>

Build ==
  /\ reading = "build"
  /\ \E answer \in IF conf.docker THEN 1..2 ELSE {0} :
       LET containers == DiscoverContainers(found.procs)
           kept == AdmittedEntities(AddHost \cup AddRuntime \cup AddCloud \cup AddServices(found)
                     \cup AddContainers(containers, answer) \cup AddPods(PodsFrom(containers))
                     \cup AddInterfaces(found) \cup AddEndpoints(found) \cup AddFilesystems
                     \cup AddProcesses(found))
       IN /\ table' = ReconciledTable(kept)
          /\ news' = ChangedKeys(kept)
          /\ edges' = Relate(found, containers, DOMAIN table')
  /\ reading' = "rest"
  /\ calm' = IF calm < 3 THEN calm + 1 ELSE 3
  /\ UNCHANGED <<conf, world, moves, found>>

TopologyInit ==
  /\ conf \in TopologySettings
  /\ \E path \in [Pid -> conf.paths], holders \in [Socket -> {{}} \cup {{p} : p \in Pid}]:
       world = [start |-> [p \in Pid |-> p], path |-> path, holders |-> holders,
                parent |-> [p \in Pid |-> IF p = 1 THEN Orphan ELSE [pid |-> 1, start |-> 1]],
                carries |-> [i \in Iface |-> Address], reused |-> {}, left |-> {}]
  /\ moves = Max(Pid) /\ reading = "rest" /\ found = NoFacts
  /\ table = <<>> /\ edges = {} /\ news = {} /\ calm = 0

TopologyNext == WorldMoves \/ BeginCycle \/ ReadProcess \/ ReadServices \/ ReadEndpoints \/ Build

TopologySpec == TopologyInit /\ [][TopologyNext]_topologyVars

(***************************************************************************)
(* Properties.                                                             *)
(***************************************************************************)
Facts(k) == CHOOSE p \in found.procs : ProcessKey(p.pid, p.start) = k

\* The pid an edge names may have changed hands between two sources of a cycle
\* and, on Windows, since the child was started.
Recycled(e) ==
  \/ \E k \in {e.from, e.to} : k[1] = "process" /\ k[2] \in world.reused
  \/ conf.os = "windows" /\ e.type = "parent" /\ e.to[3] > e.from[3]

Proved(e) ==
  CASE e.type = "parent"    -> LET q == Facts(e.from).parent IN e.to = ProcessKey(q.pid, q.start)
    [] e.type = "container" -> e.to[2] = Facts(e.from).ev.container
    [] e.type = "pod"       -> \E p \in found.procs : p.ev.container = e.from[2] /\ p.ev.pod = e.to[2]
    [] e.type = "owner"     -> \E x \in found.endpoints :
                                 EndpointKey(x) = e.from /\ e.to = ProcessKey(x.owner, x.ownerStart)
    [] e.type = "bound"     -> \A i \in found.ifaces :
                                 e.from[2] \in i.addrs /\ Key("interface", i.n) \in DOMAIN table
                                   => e.to = Key("interface", i.n)
    [] e.type = "service"   -> IF e.evidence = "manager"
                               THEN \E s \in found.services : e.to = Key("service", s.name)
                                      /\ e.from = ProcessKey(s.main, s.mainStart)
                               ELSE e.to[2] = Facts(e.from).ev.unit

\* relate.go: every relationship joins two entities the table holds, is the only
\* one of its type from its source, and is what the host's own structures said
\* when they were read: the parent, owner or main process is the very instance
\* that was there, unless its pid changed hands while the host was being read.
EdgesAreProved ==
  reading = "rest" =>
    \A e \in edges :
      /\ {e.from, e.to} \subseteq DOMAIN table
      /\ \A d \in edges : d.from = e.from /\ d.type = e.type => d = e
      /\ Recycled(e) \/ Proved(e)

Twins(k) ==
  \/ Cardinality({x \in found.endpoints : EndpointKey(x) = k}) > 1
  \/ Cardinality({m \in conf.mounts : Key("filesystem", m.point) = k}) > 1

\* topology.go: a stable host converges to emitting nothing, and a host over its
\* caps tracks the same entities every cycle.  Three cycles after its last move
\* the table has no news, but for two sockets on one port or two mounts on one
\* point, which overwrite each other, and for the text of the Docker daemon.
StableHostIsSilent ==
  reading = "rest" /\ calm = 3 =>
    \A k \in news : Twins(k) \/ (conf.docker /\ k[1] = "container")

\* topology.go: the caps shed in the order of dependency: no process is tracked
\* while a service that was found is not, unless there are as many services as
\* their own cap allows.
ShedInOrder ==
  reading = "rest" /\ (\E k \in DOMAIN table : k[1] = "process") =>
    \A s \in {t \in found.services : t.name \notin conf.excluded} :
      Key("service", s.name) \in DOMAIN table
        \/ Cardinality({k \in DOMAIN table : k[1] = "service"}) = conf.perKind

\* What is tracked depends on the host alone.
TableIsStable == StableHostIsSilent /\ ShedInOrder

=============================================================================
