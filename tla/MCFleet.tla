------------------------------- MODULE MCFleet -------------------------------
(***************************************************************************)
(* The fleet store's table, the view of one of its hosts, and the prices   *)
(* the view is costed with.  A view is computed under the mutex that       *)
(* ingestion holds and changes nothing, and the resolver answers a lookup  *)
(* from what it has, so a behaviour is about one of the three: `part'.     *)
(***************************************************************************)
EXTENDS FleetStore, FleetView, Prices

\* The series of the store are named after their kinds.
KindByName ==
  [k \in Key |-> CASE k = "cpu" -> "host"
                   [] k = "container" -> "gauge"
                   [] k = "app" -> "extra"
                   [] OTHER -> "unchartable"]

\* What an agent exports before and after a container and a program have gone.
TwoBatches == {{"cpu", "container", "app"}, {"app", "proc"}}

Series(metric, label) == [metric |-> metric, label |-> label]

Scene(catalog, things, edges) ==
  [catalog |-> catalog, things |-> things, edges |-> edges, rings |-> {}, priced |-> FALSE, counted |-> FALSE]

Entity(kind, field, text, id) ==
  [f \in {"kind", field, "entity.target.id"} |->
     CASE f = "kind" -> kind [] f = field -> text [] OTHER -> id]

\* A container as the cgroups show it, and as the enrichment does.
Box(name) == Entity("container", "container_id", <<"c", "1", "full">>, <<"e1">>)
               @@ ("name" :> name)

Process(name, pid, id) == Entity("process", "name", name, id) @@ ("pid" :> pid)

Edge(kind, from, to) == [kind |-> kind, from |-> from, to |-> to]

\* Programs and comm, and a process that executes another; a container that is renamed; a
\* price and what it is divided by; rings; a counter of units.
MCScenes ==
  {Scene({Series("process.instances", <<"n", "a", "me">>), Series("process.memory.rss", <<"o">>)},
         {Process(<<"n", "a">>, <<"1">>, <<"e2">>), Process(<<"o">>, <<"1">>, <<"e2">>),
          Process(<<"o">>, <<"2">>, <<"e3">>), Entity("cloud_instance", "provider", <<"p">>, <<"e4">>)},
         {Edge("runs", <<"e4">>, <<"e2">>)}),
   Scene({},
         {Box(<<>>), Box(<<"web">>), Entity("service", "display_name", <<"svc">>, <<"e5">>)},
         {Edge("hosts", <<"e5">>, <<"e1">>)}),
   [Scene({Series("host.cpu.count", <<>>), Series("host.memory.total_bytes", <<>>),
           Series("container.instance.cpu_utilization", <<"c">>),
           Series("container.instance.memory_bytes", <<"d">>)}, {}, {}) EXCEPT !.priced = TRUE],
   [Scene({}, {}, {}) EXCEPT !.rings = {"logs", "spans"}],
   [Scene({}, {}, {}) EXCEPT !.counted = TRUE, !.priced = TRUE]}

-----------------------------------------------------------------------------

Row(type, match, cents) == [kind |-> "row", type |-> type, match |-> match, cents |-> cents]
Header == [kind |-> "header", type |-> "none", match |-> {}, cents |-> 0]

\* Rows of another operating system; a row before the header, and a second price for a type.
MCListings ==
  [r \in Region |->
     IF r = "r1"
     THEN {<<Header, Row("t1", {1}, 9), Row("t1", {1, 2}, 3), Row("t2", {1, 2}, 5)>>,
           <<Row("t1", {1, 2}, 8), Header, Row("t1", {1, 2}, 4), Row("t1", {1, 2}, 6)>>}
     ELSE {<<Header, Row("t2", {1, 2}, 1)>>}]

Leftover(r, fetched) == [region |-> r, fetched |-> fetched, rates |-> [t \in {"t1"} |-> 7]]

\* Nothing, a file of another region, a stale one, a fresh one.
MCLeftovers ==
  {[q \in Region |-> IF q = "r1" THEN cat ELSE NoCatalog] :
     cat \in {NoCatalog, Leftover("r2", 1), Leftover("r1", 0), Leftover("r1", 1)}}

-----------------------------------------------------------------------------

VARIABLE part

FleetInit ==
  /\ part \in {"store", "view", "prices"}
  /\ Init /\ ViewInit /\ PricesInit
  /\ part # "view" => scene.rings # {}
  /\ part # "prices" => \A r \in Region : onDisk[r] = NoCatalog

FleetNext ==
  \/ part = "store" /\ Next /\ UNCHANGED <<viewVars, priceVars>>
  \/ part = "view" /\ ViewNext /\ UNCHANGED <<vars, priceVars>>
  \/ part = "prices" /\ PricesNext /\ UNCHANGED <<vars, viewVars>>

FleetSpec == FleetInit /\ [][FleetNext /\ UNCHANGED part]_<<part, vars, viewVars, priceVars>>

=============================================================================
