----------------------------- MODULE Inventory ------------------------------
(***************************************************************************)
(* The inventory's way from a host to the fleet view:                      *)
(*                                                                         *)
(*   discovery module   reconciles what its sources observe with a bounded *)
(*                      topology and emits events for what changed, or,    *)
(*                      when a resync is due, for everything;              *)
(*   event ring         the in-process telemetry's FIFO, oldest discarded; *)
(*   native exporter    folds the ring into a retained table at each flush *)
(*                      and posts the whole table if the fold changed it;  *)
(*   fleet store        merges each payload into its view of the host.     *)
(*                                                                         *)
(* A discovery cycle, a flush and an ingest are single steps: each part is *)
(* owned by one goroutine, and they share nothing but the ring, which is   *)
(* written and copied under a lock.                                        *)
(*                                                                         *)
(* Abstractions.  An entity's attributes are a version number; the order   *)
(* of local keys is the order of the naturals.  The platform resolves      *)
(* every entity it is asked for; an entity it was not asked for yet is     *)
(* announced, and retained, under a fallback key, the negative of its own. *)
(* Nothing calls Throttle, so that the pressure is normal.                 *)
(* MaxRelationships is never reached.  A post is delivered or lost; module *)
(* NativeExporter says what a lost one goes through.                       *)
(***************************************************************************)
EXTENDS Integers, Sequences, FiniteSets, SequencesExt

CONSTANTS
  Entity,                \* entities, by their local keys (naturals)
  Rank,                  \* Rank[e]: the order in which capacity keeps entities
  Relation,              \* relationships (naturals), disjoint from Entity
  Ends,                  \* Ends[r]: the two entities of a relationship
  MaxVersion,            \* bound: versions of an entity's attributes
  MaxEntities,           \* discovery: capacity of the topology
  MaxEventsPerCycle,     \* discovery: budget of a cycle, of events and of resolutions (500)
  MaxEvents,             \* capacity of the event ring (1024)
  MaxInventoryEntities,  \* exporter: entities retained (4096)
  MaxInventoryRelations, \* exporter: relationships retained (8192)
  EntitiesPerHost,       \* store: entities kept per host (4096)
  RelationsPerHost,      \* store: relationships kept per host (8192)
  ExporterKeepsUp,       \* is there a flush (5 s) between any two cycles (5 min)?
  MaxChanges,            \* bound: changes of the host
  MaxMishaps             \* bound: failed sources, lost posts and restarts

ASSUME InventoryAssumption ==
  /\ Entity \subseteq Nat \ {0} /\ Relation \subseteq Nat \ {0} /\ Entity \cap Relation = {}
  /\ IsFiniteSet(Entity) /\ IsFiniteSet(Relation)
  /\ Rank \in [Entity -> Nat] /\ \A d, e \in Entity : Rank[d] = Rank[e] => d = e
  /\ Ends \in [Relation -> SUBSET Entity]
  /\ {MaxVersion, MaxEntities, MaxEventsPerCycle, MaxEvents, MaxInventoryEntities,
      MaxInventoryRelations, EntitiesPerHost, RelationsPerHost} \subseteq Nat \ {0}
  /\ ExporterKeepsUp \in BOOLEAN /\ MaxChanges \in Nat /\ MaxMishaps \in Nat

VARIABLES
  host,       \* what exists: the version of each entity (0: absent), and the relationships
  topo,       \* discovery.topology: the version of each tracked entity
  resolved,   \* the tracked entities that have an entityID
  prevRel,    \* Module.prevRelations
  resync,     \* is a resync due?
  cursor,     \* Module.resyncCursor: the last key the running resync has sent
  ring,       \* Telemetry.events
  table,      \* Exporter.inventory, in seq order
  size,       \* Exporter.invNodes and invEdges
  resend,     \* has inventoryResendInterval passed since the last post?
  flushed,    \* has the exporter flushed since the last cycle?
  store,      \* the fleet store's host: entities, those marked gone, relations
  changes,    \* changes of the host so far
  mishaps     \* mishaps so far

inventoryVars == <<host, topo, resolved, prevRel, resync, cursor, ring, table, size, resend, flushed, store,
          changes, mishaps>>

discovery == <<topo, resolved, prevRel, resync, cursor>>
retained == <<table, size, resend>>

Version == 1 .. MaxVersion
Present == {e \in Entity : host.ent[e] # 0}
Tracked == {e \in Entity : topo[e] # 0}
Ascending(S) == MapThenFoldSet(LAMBDA e, s : Append(s, e), <<>>, LAMBDA e : e, Max, S)
FirstN(s, n) == SubSeq(s, 1, IF n < Len(s) THEN n ELSE Len(s))
LastN(s, n) == IF Len(s) <= n THEN s ELSE SubSeq(s, Len(s) - n + 1, Len(s))

\* The keys of entities, their own and the fallback ones, and the entity of a key.
Fallback(e) == -e
Node == Entity \cup {Fallback(e) : e \in Entity}
EntityOf(node) == IF node < 0 THEN -node ELSE node

Nothing == [e \in Entity |-> 0]
EmptyStore == [ent |-> Nothing, gone |-> {}, rel |-> {}]

InventoryInit ==
  /\ host \in [ent : [Entity -> {0, 1}], links : SUBSET Relation]
  /\ topo = Nothing
  /\ resolved = {}
  /\ prevRel = {}
  /\ resync = TRUE
  /\ cursor = 0
  /\ ring = <<>>
  /\ table = <<>>
  /\ size = [nodes |-> 0, edges |-> 0]
  /\ resend = TRUE
  /\ flushed = TRUE
  /\ store = EmptyStore
  /\ changes = 0
  /\ mishaps = 0

-----------------------------------------------------------------------------
(* The host. *)

HostChanges ==
  /\ changes < MaxChanges
  /\ \/ \E e \in Entity, v \in Version \cup {0} :
          v # host.ent[e] /\ host' = [host EXCEPT !.ent[e] = v]
     \/ \E r \in Relation :
          host' = [host EXCEPT !.links = (@ \ {r}) \cup ({r} \ @)]
  /\ changes' = changes + 1
  /\ UNCHANGED <<discovery, ring, retained, flushed, store, mishaps>>

-----------------------------------------------------------------------------
(* A discovery cycle (Module.runCycle). *)

\* capacity.apply: of the observed entities the best-ranked fit.
Kept(S) == {e \in S : Cardinality({d \in S : Rank[d] < Rank[e]}) < MaxEntities}

\* resolveEntities: what is tracked keeps its ID; of the others the best-ranked are asked for.
ResolveEntities(new) ==
  LET waiting == {e \in Entity \ resolved : new[e] # 0}
  IN {e \in resolved : new[e] # 0}
     \cup {e \in waiting : Cardinality({d \in waiting : Rank[d] < Rank[e]}) < MaxEventsPerCycle}

\* Events of a set of entities or relationships; an entity of no ID goes without one.
Event(item, name, ver) == [item |-> item, name |-> name, ver |-> ver]
EventsFor(S, name, ver, ids) ==
  LET s == Ascending(S)
      key(x) == IF x \in ids THEN x ELSE Fallback(x)
  IN [i \in 1 .. Len(s) |-> Event(key(s[i]), name, ver[s[i]])]

\* topology.reconcile's changes: additions, updates and removals, each by key.
Changes(new, ids) ==
  EventsFor({e \in Entity : topo[e] = 0 /\ new[e] # 0}, "discovered", new, ids)
  \o EventsFor({e \in Entity : topo[e] # 0 /\ new[e] \notin {0, topo[e]}}, "changed", new, ids)
  \o EventsFor({e \in Entity : topo[e] # 0 /\ new[e] = 0}, "removed", topo, resolved)

\* emitEntitySnapshotFrom: what the resync has still to send.
Snapshot(new, ids) ==
  EventsFor({e \in Entity : new[e] # 0 /\ e > cursor}, "discovered", new, ids)

\* Bug: a truncated snapshot starts from the beginning the next time.
CursorForgotten(snapshot) == 0

\* The last key that fits in the budget, or none once the snapshot is complete.
NextCursor(snapshot) ==
  IF Len(snapshot) <= MaxEventsPerCycle THEN 0
  ELSE EntityOf(snapshot[MaxEventsPerCycle].item)

\* emitRelationChanges: new edges, or all of them in a resync, and then removed ones; none
\* but those whose ends both have an ID.
RelationChanges(rel, ids) ==
  LET named == {r \in Relation : Ends[r] \subseteq ids}
      one == [r \in Relation |-> 1]
  IN EventsFor(named \cap (IF resync THEN rel ELSE rel \ prevRel), "discovered", one, Relation)
     \o EventsFor({r \in named \cap (prevRel \ rel) : ~resync}, "removed", one, Relation)

Summary == Event(0, "snapshot", 0)

\* Telemetry.Emit, for each event: the ring discards its oldest.
Emit(r, events) == LastN(r \o events, MaxEvents)

\* Relationships wait until the entity snapshot is complete; the budget cuts what the
\* cycle emits, except for the summary that ends a resync.
Emitted(new, ids, rel) ==
  LET snapshot == Snapshot(new, ids)
      done == Len(snapshot) <= MaxEventsPerCycle
      entities == IF resync THEN snapshot ELSE Changes(new, ids)
      relations == IF resync /\ ~done THEN <<>> ELSE RelationChanges(rel, ids)
  IN FirstN(entities \o relations, MaxEventsPerCycle)
     \o (IF resync /\ done THEN <<Summary>> ELSE <<>>)

\* A source that fails costs the cycle the entities it would have observed.
Observed(seen) ==
  /\ seen \subseteq Present
  /\ \/ seen = Present /\ UNCHANGED mishaps
     \/ seen # Present /\ mishaps < MaxMishaps /\ mishaps' = mishaps + 1

Cycle ==
  /\ flushed \/ ~ExporterKeepsUp
  /\ \E seen \in SUBSET Entity :
       LET new == [e \in Entity |-> IF e \in Kept(seen) THEN host.ent[e] ELSE 0]
           ids == ResolveEntities(new)
           rel == {r \in host.links : Ends[r] \subseteq Kept(seen)}
       IN /\ Observed(seen)
          /\ topo' = new
          /\ resolved' = ids
          /\ prevRel' = rel
          /\ ring' = Emit(ring, Emitted(new, ids, rel))
          /\ cursor' = IF resync THEN NextCursor(Snapshot(new, ids)) ELSE cursor
          /\ resync' = (resync /\ Len(Snapshot(new, ids)) > MaxEventsPerCycle)
  /\ flushed' = FALSE
  /\ UNCHANGED <<host, retained, store, changes>>

\* ResyncInterval has passed.
ResyncDue ==
  /\ ~resync
  /\ resync' = TRUE
  /\ UNCHANGED <<host, topo, resolved, prevRel, cursor, ring, retained, flushed, store, changes,
                 mishaps>>

-----------------------------------------------------------------------------
(* The exporter: foldInventory and exportInventory. *)

PositionOf(s, item) == CHOOSE i \in 1 .. Len(s) : s[i].item = item
Holds(s, item) == \E i \in 1 .. Len(s) : s[i].item = item

\* Bug: a removed relationship is subtracted from the entities.
CountAsNode(n, item, delta) == [n EXCEPT !.nodes = @ + delta]

\* countInventory.
CountInventory(n, item, delta) ==
  IF item \in Relation THEN [n EXCEPT !.edges = @ + delta] ELSE [n EXCEPT !.nodes = @ + delta]

\* atInventoryCap.
AtInventoryCap(n, item) ==
  IF item \in Relation THEN n.edges >= MaxInventoryRelations ELSE n.nodes >= MaxInventoryEntities

\* A retained item keeps its place; an identical announcement is not a change.
Updated(st, ev) ==
  LET i == PositionOf(st.table, ev.item) IN
  IF st.table[i] = ev THEN st
  ELSE [st EXCEPT !.table = [@ EXCEPT ![i] = ev], !.changed = TRUE]

Removed(st, ev) ==
  [table |-> RemoveAt(st.table, PositionOf(st.table, ev.item)),
   size |-> CountInventory(st.size, ev.item, -1), changed |-> TRUE]

Added(st, ev) ==
  IF AtInventoryCap(st.size, ev.item) THEN st
  ELSE [table |-> Append(st.table, ev),
        size |-> CountInventory(st.size, ev.item, 1), changed |-> TRUE]

FoldEvent(st, ev) ==
  CASE ev.name \notin {"discovered", "changed", "removed"} -> st
    [] ev.name = "removed" -> IF Holds(st.table, ev.item) THEN Removed(st, ev) ELSE st
    [] OTHER -> IF Holds(st.table, ev.item) THEN Updated(st, ev) ELSE Added(st, ev)

\* The ring is not drained: every flush folds all of it again.
FoldInventory == FoldLeft(FoldEvent, [table |-> table, size |-> size, changed |-> FALSE], ring)

-----------------------------------------------------------------------------
(* The intake: ingestEventsLocked merges a payload into the host. *)

\* It knows an entity by what it is, under whichever key the exporter retains it.
IngestEntity(h, ev) ==
  LET e == EntityOf(ev.item) IN
  IF ev.name = "removed" THEN [h EXCEPT !.gone = IF h.ent[e] # 0 THEN @ \cup {e} ELSE @]
  ELSE IF h.ent[e] = 0 /\ Cardinality({d \in Entity : h.ent[d] # 0}) >= EntitiesPerHost THEN h
  ELSE [h EXCEPT !.ent[e] = ev.ver, !.gone = @ \ {e}]

IngestRelation(h, ev) ==
  IF ev.name = "removed" THEN [h EXCEPT !.rel = @ \ {ev.item}]
  ELSE IF ev.item \notin h.rel /\ Cardinality(h.rel) >= RelationsPerHost THEN h
  ELSE [h EXCEPT !.rel = @ \cup {ev.item}]

IngestEvent(h, ev) ==
  IF ev.item \in Relation THEN IngestRelation(h, ev) ELSE IngestEntity(h, ev)

Ingest(payload) == FoldLeft(IngestEvent, store, payload)

\* What the view shows.
Shown == {e \in Entity : store.ent[e] # 0 /\ e \notin store.gone}

\* An unchanged table is posted only when a resend is due, an empty one never; the
\* post's outcome does not matter to the exporter.
Posts(fold) == (fold.changed \/ resend) /\ fold.table # <<>>

Flush ==
  LET fold == FoldInventory IN
  /\ table' = fold.table
  /\ size' = fold.size
  /\ flushed' = TRUE
  /\ \/ /\ Posts(fold)
        /\ resend' = FALSE
        /\ \/ store' = Ingest(fold.table) /\ UNCHANGED mishaps
           \/ mishaps < MaxMishaps /\ mishaps' = mishaps + 1 /\ UNCHANGED store
     \/ ~Posts(fold) /\ UNCHANGED <<resend, store, mishaps>>
  /\ UNCHANGED <<host, discovery, ring, changes>>

\* inventoryResendInterval has passed.
ResendDue ==
  /\ ~resend
  /\ resend' = TRUE
  /\ UNCHANGED <<host, discovery, ring, table, size, flushed, store, changes, mishaps>>

-----------------------------------------------------------------------------
(* Restarts: neither side keeps anything of this on disk. *)

AgentRestarts ==
  /\ mishaps < MaxMishaps /\ mishaps' = mishaps + 1
  /\ topo' = Nothing /\ resolved' = {} /\ prevRel' = {} /\ resync' = TRUE /\ cursor' = 0
  /\ ring' = <<>> /\ table' = <<>> /\ size' = [nodes |-> 0, edges |-> 0]
  /\ resend' = TRUE /\ flushed' = TRUE
  /\ UNCHANGED <<host, store, changes>>

IntakeRestarts ==
  /\ mishaps < MaxMishaps /\ mishaps' = mishaps + 1
  /\ store' = EmptyStore
  /\ UNCHANGED <<host, discovery, ring, retained, flushed, changes>>

InventoryNext ==
  \/ HostChanges \/ Cycle \/ ResyncDue \/ Flush \/ ResendDue
  \/ AgentRestarts \/ IntakeRestarts

\* The two loops never stop, so that cycles (which alone make flushed false) and flushes
\* both go on for ever; and both intervals pass again and again.
InventoryFairness ==
  []<>flushed /\ []<>~flushed /\ WF_inventoryVars(ResyncDue) /\ WF_inventoryVars(ResendDue)

InventorySpec == InventoryInit /\ [][InventoryNext]_inventoryVars /\ InventoryFairness

-----------------------------------------------------------------------------
(* Properties. *)

\* The counters that bound the exporter's table are the numbers of entities and of
\* relationships in it, each item once, whatever is folded again and again.
TableIsCounted ==
  LET Rows(S) == {i \in 1 .. Len(table) : table[i].item \in S} IN
  /\ \A i, j \in 1 .. Len(table) : table[i].item = table[j].item => i = j
  /\ size.nodes = Cardinality(Rows(Node)) /\ size.nodes <= MaxInventoryEntities
  /\ size.edges = Cardinality(Rows(Relation)) /\ size.edges <= MaxInventoryRelations

\* After a flush, the table agrees with the last event the ring holds of each item,
\* however often older events of the item are folded again.
LatestWins ==
  flushed =>
    \A i \in 1 .. Len(ring) :
      LET ev == ring[i] IN
      ev.item # 0 /\ (\A j \in i + 1 .. Len(ring) : ring[j].item # ev.item) =>
        IF ev.name = "removed" THEN ~Holds(table, ev.item)
        ELSE \E k \in 1 .. Len(table) : table[k] = ev

\* The exporter's table is what the ring says, and its counters are what the table says.
TableIsTrue == TableIsCounted /\ LatestWins

\* What an entity was announced as before it had an ID stays beside what it is announced as
\* afterwards, until the agent restarts.
Twinless == \A i \in 1 .. Len(table) : table[i].item > 0
RoomForTwins == MaxInventoryEntities >= 2 * Cardinality(Entity)

\* Once the host stops changing, budgets, failed sources, lost posts and restarts of either side
\* are made good by resyncs and resends: if the exporter has room for every entity under both of
\* its keys, the fleet shows every entity that capacity keeps; and if it retains none under a
\* fallback key, it shows them in their present version, whatever the room.
Converges ==
  <>[](RoomForTwins \/ Twinless =>
         \A e \in Kept(Present) : e \in Shown /\ (Twinless => store.ent[e] = host.ent[e]))

\* Sending the retained set "makes the view self-healing": once the host stops
\* changing, the fleet shows nothing that is not there.
ViewHeals == <>[](Shown \subseteq Present)

=============================================================================
