------------------------------ MODULE FleetView ------------------------------
(***************************************************************************)
(* What the intake shows of one host (internal/fleet: inventory.go,        *)
(* view.go, cost.go): series and entities arrive on separate paths, and    *)
(* every view is computed from both under the store's mutex, so a view is  *)
(* an operator of the state.  The tables' caps and pruning are FleetStore, *)
(* the agent's side of the inventory is Inventory, the rates Prices.       *)
(*                                                                         *)
(* A text is a sequence of tokens, so that it has prefixes; the empty one  *)
(* is an absent attribute.  The order of map iteration is free: where it   *)
(* matters, an operator gives the set of the possible answers.             *)
(***************************************************************************)
EXTENDS Integers, Sequences, FiniteSets, FiniteSetsExt, SequencesExt

CONSTANTS
  Scenes,      \* [catalog, things, edges]: what this host's agent may send
  CommLen,     \* commLen (15)
  StaleWindow, \* Limits.SeriesStaleAfter
  EntitiesCap, \* Limits.EntitiesPerHost
  LogLines, SpanCount,  \* Limits.LogsPerHost, Limits.SpansPerHost
  UnitPoints,  \* Limits.HistoryPoints
  MaxCosted,   \* maxWorkloadsCosted (200)
  MaxValue, LastTime, MaxLines  \* bounds: values, the time, lines pushed

CpuCostWeight == 6
MemoryCostWeight == 4

\* A text, whatever its tokens.
IsText(t) == t \in Seq({t[i] : i \in DOMAIN t})

\* The series of an agent are finitely many; labels are texts.
ASSUME SceneAssumption ==
  \A sc \in Scenes :
    /\ IsFiniteSet(sc.catalog) /\ sc.rings \subseteq {"logs", "spans"}
    /\ \A s \in sc.catalog : IsText(s.label)
ASSUME LimitsAssumption ==
  /\ CommLen \in Nat /\ StaleWindow \in Nat /\ LogLines \in Nat /\ SpanCount \in Nat /\ UnitPoints \in Nat \ {0}
  /\ MaxValue \in Nat /\ MaxLines \in Nat

VARIABLES
  scene,    \* the host
  clock,    \* the time
  heardAt,  \* host.lastSeen
  values,   \* host.series: series -> [value, updated]
  rows,     \* host.entities: key -> entity
  arrows,   \* host.relations
  rings,    \* host.logs and host.spans
  pushed,   \* how many entries each ring has been given; an entry is its number
  rate,     \* what the rate source answers: the price of an hour, 0 for "not known"
  units,    \* the program that counts units: [count, made]; made survives its restarts
  points,   \* samples of that counter on their way
  history   \* the ring of the unit series

viewVars == <<scene, clock, heardAt, values, rows, arrows, rings, pushed, rate, units, points, history>>

Unreported == [value |-> 0, updated |-> -1]

-----------------------------------------------------------------------------
(* entityFromAttrs: every kind names itself differently. *)

Text(a, f) == IF f \in DOMAIN a THEN a[f] ELSE <<>>

First(a, fields) ==
  LET given == SelectSeq(fields, LAMBDA f : Text(a, f) # <<>>)
  IN IF given = <<>> THEN <<>> ELSE Text(a, given[1])

NameFields ==
  [container |-> <<"name", "display_name", "container_id">>,
   service |-> <<"name", "display_name">>, process |-> <<"name", "display_name">>,
   filesystem |-> <<"mountpoint">>, network_interface |-> <<"interface">>,
   host |-> <<"hostname", "name">>, cloud_instance |-> <<"instance_id", "provider">>,
   runtime |-> <<"runtime", "name">>,
   other |-> <<"name", "display_name", "hostname", "mountpoint", "interface">>]

NameOf(a) ==
  CASE a.kind = "network_endpoint" -> Text(a, "address") \o Text(a, "port")
    [] a.kind = "kubernetes_pod" -> Text(a, "namespace") \o Text(a, "pod")
    [] a.kind = "runtime" /\ Text(a, "in_container") = <<>> -> <<"bare metal or VM">>
    [] OTHER -> First(a, NameFields[IF a.kind \in DOMAIN NameFields THEN a.kind ELSE "other"])

\* What makes the entity distinct from others of its kind.
Ident(a) ==
  LET own == CASE a.kind = "container" -> Text(a, "container_id")
               [] a.kind = "network_endpoint" -> Text(a, "protocol") \o NameOf(a)
               [] a.kind \in {"host", "cloud_instance", "runtime"} -> <<a.kind>>
               [] a.kind = "kubernetes_pod" -> Text(a, "pod_uid")
               [] a.kind = "process" -> NameOf(a) \o Text(a, "pid")
               [] OTHER -> NameOf(a)
  IN IF own = <<>> THEN NameOf(a) ELSE own

RowKey(a) == <<a.kind, Ident(a)>>

RowOf(a) == [kind |-> a.kind, name |-> NameOf(a), id |-> Text(a, "container_id"), gone |-> FALSE,
             entityID |-> Text(a, "entity.target.id")]

-----------------------------------------------------------------------------
(* What arrives. *)

\* An entity is discovered, or changed: past the cap a new one is dropped.
Announce ==
  \E a \in scene.things :
    /\ NameOf(a) # <<>>
    /\ RowKey(a) \in DOMAIN rows \/ Cardinality(DOMAIN rows) < EntitiesCap
    /\ rows' = [k \in DOMAIN rows \cup {RowKey(a)} |-> IF k = RowKey(a) THEN RowOf(a) ELSE rows[k]]
    /\ heardAt' = clock
    /\ UNCHANGED <<scene, clock, values, arrows, rings, pushed, rate, units, points, history>>

Withdraw ==
  \E a \in scene.things :
    /\ RowKey(a) \in DOMAIN rows
    /\ rows' = [rows EXCEPT ![RowKey(a)].gone = TRUE]
    /\ heardAt' = clock
    /\ UNCHANGED <<scene, clock, values, arrows, rings, pushed, rate, units, points, history>>

\* A relationship is announced or removed, before or after its ends.
Relate ==
  /\ \E e \in scene.edges : arrows' \in {arrows \cup {e}, arrows \ {e}}
  /\ heardAt' = clock
  /\ UNCHANGED <<scene, clock, values, rows, rings, pushed, rate, units, points, history>>

\* A point of a metric batch; the batch may be late, its time is the agent's.
Measure ==
  \E s \in scene.catalog, v \in 0 .. MaxValue, t \in {clock, clock - 1} \cap Nat :
    /\ values' = [values EXCEPT ![s] = [value |-> v, updated |-> t]]
    /\ heardAt' = clock
    /\ UNCHANGED <<scene, clock, rows, arrows, rings, pushed, rate, units, points, history>>

EmptyRing == [buf |-> <<>>, next |-> 0, full |-> FALSE]

\* logRing.push, spanRing.push; a ring of no entries keeps nothing.
Pushed(r, n, v) ==
  IF n = 0 THEN r
  ELSE [buf |-> [i \in 0 .. n - 1 |-> IF i = r.next THEN v ELSE IF i \in DOMAIN r.buf THEN r.buf[i] ELSE 0],
        next |-> (r.next + 1) % n,
        full |-> r.full \/ r.next + 1 = n]

Capacity == [logs |-> LogLines, spans |-> SpanCount]

Log ==
  \E w \in scene.rings :
    /\ pushed[w] < MaxLines
    /\ pushed' = [pushed EXCEPT ![w] = @ + 1]
    /\ rings' = [rings EXCEPT ![w] = Pushed(@, Capacity[w], pushed[w] + 1)]
    /\ heardAt' = clock
    /\ UNCHANGED <<scene, clock, values, rows, arrows, rate, units, points, history>>

ViewTick ==
  /\ clock < LastTime
  /\ clock' = clock + 1
  /\ UNCHANGED <<scene, heardAt, values, rows, arrows, rings, pushed, rate, units, points, history>>

RateChanges ==
  /\ scene.priced
  /\ rate' \in 0 .. MaxValue
  /\ UNCHANGED <<scene, clock, heardAt, values, rows, arrows, rings, pushed, units, points, history>>

\* The business counter goes on, is sampled, and starts from 0 with its program.
Produce ==
  /\ scene.counted /\ units.made < MaxValue
  /\ units' = [count |-> units.count + 1, made |-> units.made + 1]
  /\ UNCHANGED <<scene, clock, heardAt, values, rows, arrows, rings, pushed, rate, points, history>>

RestartCounter ==
  /\ units.count > 0
  /\ units' = [units EXCEPT !.count = 0]
  /\ UNCHANGED <<scene, clock, heardAt, values, rows, arrows, rings, pushed, rate, points, history>>

SampleUnits ==
  /\ scene.counted
  /\ points' = points \cup {[at |-> clock, value |-> units.count, made |-> units.made]}
  /\ UNCHANGED <<scene, clock, heardAt, values, rows, arrows, rings, pushed, rate, units, history>>

\* A sample arrives, perhaps late, perhaps again.
ObserveUnits ==
  \E p \in points :
    /\ history' = IF Len(history) = UnitPoints THEN Append(Tail(history), p) ELSE Append(history, p)
    /\ heardAt' = clock
    /\ UNCHANGED <<scene, clock, values, rows, arrows, rings, pushed, rate, units, points>>

ViewInit ==
  /\ scene \in Scenes
  /\ clock = 0 /\ heardAt = 0
  /\ values = [s \in scene.catalog |-> Unreported]
  /\ rows = [k \in {} |-> {}]
  /\ arrows = {}
  /\ rings = [logs |-> EmptyRing, spans |-> EmptyRing]
  /\ pushed = [logs |-> 0, spans |-> 0]
  /\ rate = 0 /\ units = [count |-> 0, made |-> 0] /\ points = {} /\ history = <<>>

ViewNext ==
  \/ Announce \/ Withdraw \/ Relate \/ Measure \/ Log \/ ViewTick
  \/ RateChanges \/ Produce \/ RestartCounter \/ SampleUnits \/ ObserveUnits

ViewSpec == ViewInit /\ [][ViewNext]_viewVars

-----------------------------------------------------------------------------
(* The drill-down and the chips above it. *)

\* liveSeriesLocked: reported within the window before the host was last heard of.
LiveSeries(s) == values[s].updated >= heardAt - StaleWindow

Reporting(metrics) == {s \in scene.catalog : s.metric \in metrics /\ values[s].updated >= 0 /\ LiveSeries(s)}

ProcessMetrics == {"process.instances", "process.memory.rss", "process.cpu.utilization"}

\* applicationsLocked: a row for every executable with something to show.
Applications ==
  {x \in {s.label : s \in Reporting(ProcessMetrics)} :
     \E s \in Reporting(ProcessMetrics) : s.label = x /\ values[s].value > 0}

\* appIndex.covers: the same program, in full or cut off at the length of comm.
Covers(name) ==
  \/ name \in Applications
  \/ Len(name) = CommLen /\ \E x \in Applications : Len(x) > CommLen /\ SubSeq(x, 1, CommLen) = name

Standing == {k \in DOMAIN rows : ~rows[k].gone}

Groups == [container |-> "containers", service |-> "services", network_endpoint |-> "endpoints",
           filesystem |-> "filesystems", process |-> "processes"]

GroupOf(k) == IF rows[k].kind \in DOMAIN Groups THEN Groups[rows[k].kind] ELSE "other"

GroupNames == {"containers", "services", "endpoints", "filesystems", "processes", "other"}

\* topologyLocked: the edges with both ends named, by whichever row has the identifier; a
\* process that has executed another program has a row under each of its names.
NamedBy(id) == {rows[k].name : k \in {r \in Standing : rows[r].entityID = id}}

TopologyView == {e \in arrows : e.from # <<>> /\ e.to # <<>> /\ NamedBy(e.from) # {} /\ NamedBy(e.to) # {}}

\* inventoryLocked: the rows of each group; an application is a row of its own.
InventoryView ==
  [g \in GroupNames \cup {"topology"} |->
     CASE g = "topology" -> TopologyView
       [] g = "processes" -> {k \in Standing : GroupOf(k) = g /\ ~Covers(rows[k].name)}
                             \cup {<<"application", x>> : x \in Applications}
       [] OTHER -> {k \in Standing : GroupOf(k) = g}]

\* Bug: the chip counts every process entity besides the applications.
CountsWithoutCover ==
  [g \in GroupNames \cup {"topology"} |->
     CASE g = "topology" -> Cardinality(TopologyView)
       [] g = "processes" -> Cardinality(Applications) + Cardinality({k \in Standing : GroupOf(k) = g})
       [] OTHER -> Cardinality({k \in Standing : GroupOf(k) = g})]

\* inventoryCountsLocked: the same grouping, counted row by row without the items.
InventoryCounts ==
  LET counted == FoldSet(LAMBDA k, c : IF GroupOf(k) = "processes" /\ Covers(rows[k].name) THEN c
                                       ELSE [c EXCEPT ![GroupOf(k)] = @ + 1],
                         [g \in GroupNames |-> IF g = "processes" THEN Cardinality(Applications) ELSE 0],
                         Standing)
  IN [g \in GroupNames \cup {"topology"} |-> IF g = "topology" THEN Cardinality(TopologyView) ELSE counted[g]]

\* logRing.snapshot: newest first.
Snapshot(r) ==
  LET size == Cardinality(DOMAIN r.buf)
      n == IF r.full THEN size ELSE r.next
  IN [i \in 1 .. n |-> r.buf[(r.next - i + size * 2) % size]]

-----------------------------------------------------------------------------
(* The estimate of what the host costs.  A share is in parts of Whole. *)

\* findSeries: the value of the series without attributes, if there is one.
FindSeries(metric) ==
  LET named == {s \in scene.catalog : s.metric = metric /\ values[s].updated >= 0}
      bare == {s \in named : s.label = <<>>}
  IN {values[s].value : s \in IF bare # {} THEN bare ELSE named}

Of(metric, id) ==
  LET found == {s \in scene.catalog : s.metric = metric /\ s.label = id /\ values[s].updated >= 0}
  IN SumSet({values[s].value : s \in found})

ContainerMetrics == {"container.instance.cpu_utilization", "container.instance.memory_bytes"}

\* The containers that have a series: no more than MaxCosted of them, in any order.
Costed ==
  LET ids == {s.label : s \in {c \in scene.catalog : c.metric \in ContainerMetrics /\ values[c].updated >= 0}}
  IN {C \in SUBSET ids : Cardinality(C) = Min({MaxCosted, Cardinality(ids)})}

WholeOf(cores, mem) == (CpuCostWeight + MemoryCostWeight) * cores * mem

\* splitLocked: of the host's capacity, not of what the containers use together.
Share(id, cores, mem) ==
  Min({WholeOf(cores, mem),
       CpuCostWeight * Of("container.instance.cpu_utilization", id) * mem
         + MemoryCostWeight * Of("container.instance.memory_bytes", id) * cores})

Allocated(C, cores, mem) ==
  Min({WholeOf(cores, mem), MapThenSumSet(LAMBDA id : Share(id, cores, mem), C)})

\* costFor: nothing for a host of no known shape or price; times Whole, in whole numbers.
Cost(C, cores, mem) ==
  LET priced == cores > 0 /\ mem > 0
      allocated == IF priced THEN rate * Allocated(C, cores, mem) ELSE 0
      total == IF priced THEN rate * WholeOf(cores, mem) ELSE rate
  IN [total |-> total, allocated |-> allocated, idle |-> Max({0, total - allocated}),
      shares |-> [id \in IF priced THEN C ELSE {} |-> Share(id, cores, mem)]]

\* Bug: a counter that restarted is taken for one that ran on.
RateAcrossReset(h) ==
  IF Len(h) < 2 THEN [ok |-> FALSE, delta |-> 0]
  ELSE [ok |-> TRUE, delta |-> Max({h[1].value - h[Len(h)].value, h[Len(h)].value - h[1].value})]

\* counterRatePerHour: units over the window of the ring.
CounterRate(h) ==
  IF Len(h) < 2 THEN [ok |-> FALSE, delta |-> 0]
  ELSE LET delta == h[Len(h)].value - h[1].value
       IN [ok |-> h[Len(h)].at > h[1].at /\ delta >= 0, delta |-> delta]

\* unitCostLocked: a price per unit only where units are known to have been made.
UnitPriced(h) == rate > 0 /\ CounterRate(h).ok /\ CounterRate(h).delta > 0

-----------------------------------------------------------------------------
(* Properties. *)

\* What the kernel calls a program: its name, cut off at the length of comm.
Comm(x) == SubSeq(x, 1, Min({Len(x), CommLen}))

\* "It must group exactly as inventoryLocked does": a chip never shows a number that the
\* table under it does not have, whichever series have died and whatever comm cut off; and
\* a program that is listed as an application is not listed again as a process, under its
\* name or what comm leaves of it.  Enrichment renames a container, and that is an update:
\* none has two rows.  (A process has: one for each program it was seen to execute.)  A
\* ring's snapshot is its most recent entries, newest first, and all of them.
RowsAreThings ==
  /\ \A g \in GroupNames \cup {"topology"} : InventoryCounts[g] = Cardinality(InventoryView[g])
  /\ \A x \in Applications, k \in Standing :
       GroupOf(k) = "processes" /\ k \in InventoryView["processes"] => rows[k].name # Comm(x)
  /\ \A k, l \in Standing :
       rows[k].kind = "container" /\ rows[l].kind = "container" /\ rows[k].id = rows[l].id => k = l
  /\ \A w \in {"logs", "spans"} :
       Snapshot(rings[w]) = [i \in 1 .. Min({pushed[w], Capacity[w]}) |-> pushed[w] + 1 - i]

\* What is allocated and what is idle are the host's price, no container has more than
\* the whole of it; and a unit's price is never made low by units that were not made:
\* samples that come late, again or from both sides of a restart do not overstate the rate.
CostAddsUp ==
  /\ \A cores \in FindSeries("host.cpu.count"), mem \in FindSeries("host.memory.total_bytes"), C \in Costed :
       LET cost == Cost(C, cores, mem) IN
       /\ cost.allocated + cost.idle = cost.total
       /\ \A id \in DOMAIN cost.shares : cost.shares[id] <= WholeOf(cores, mem)
  /\ CounterRate(history).ok => CounterRate(history).delta <= history[Len(history)].made - history[1].made

=============================================================================
