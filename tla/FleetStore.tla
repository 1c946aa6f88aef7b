----------------------------- MODULE FleetStore -----------------------------
(***************************************************************************)
(* The intake and its fleet store (cmd/obsagent-intake, internal/fleet):   *)
(* agents post metric batches, each stamped with the agent's time; HTTP    *)
(* handlers, one per request, fold them under one mutex into a bounded     *)
(* table of hosts, each with a bounded table of series and two bounded     *)
(* budgets of sample rings.                                                *)
(*                                                                         *)
(* A batch that was not answered, or spooled, is sent again: batches       *)
(* arrive late, more than once, and after newer ones.  A handler reads the *)
(* intake's clock before it takes the mutex.                               *)
(*                                                                         *)
(* Abstractions.  A sample is the time it was taken, for the time stands   *)
(* for the value; the points of a batch are folded in any order; of the    *)
(* number of reports of a series the code asks whether it is 0, 1 or more. *)
(* Inventory batches are in module Inventory, rings of logs and spans and  *)
(* the rendered view in FleetView.  The clocks agree.                      *)
(***************************************************************************)
EXTENDS Integers, Sequences, FiniteSets

CONSTANTS
  Host,                \* agents
  Key,                 \* series of a host
  Kind,                \* Kind[k]: "host", "gauge", "extra" or "unchartable"
  Hosts,               \* Limits.Hosts (512)
  SeriesPerHost,       \* Limits.SeriesPerHost (4096)
  HistorySeries,       \* Limits.HistorySeries (256)
  HistorySeriesExtra,  \* Limits.HistorySeriesExtra (256)
  HistoryPoints,       \* Limits.HistoryPoints (120)
  SeriesStaleAfter,    \* Limits.SeriesStaleAfter (5 min)
  Reports,             \* bound: the sets of series a batch may carry
  MaxTime,             \* bound: the last moment
  MaxBatches           \* bound: batches that are sent and not settled

\* Limits.withDefaults: no limit is zero.
Limits == {Hosts, SeriesPerHost, HistorySeries, HistorySeriesExtra, HistoryPoints, SeriesStaleAfter}

ASSUME StoreAssumption ==
  /\ IsFiniteSet(Key)
  /\ Limits \subseteq Nat \ {0}
  /\ Kind \in [Key -> {"host", "gauge", "extra", "unchartable"}]
  /\ {MaxTime, MaxBatches} \subseteq Nat
  /\ Reports \subseteq SUBSET Key

VARIABLES
  now,        \* the time
  sent,       \* batches sent (or spooled, to be sent) and not known to have arrived
  handlers,   \* requests that wait for the mutex, each with the time its handler read
  folding,    \* the batch whose handler holds the mutex, with the points still to fold
  hosts       \* Store.hosts

vars == <<now, sent, handlers, folding, hosts>>

Idle == [batch |-> [ts |-> -1], todo |-> {}]
Free == folding = Idle

\* A series that is not in the table, a host that is not, and a host just created.
NoSeries == [seen |-> 0, updated |-> 0, history |-> <<>>]
NoHost == [known |-> FALSE, lastSeen |-> 0, core |-> 0, extra |-> 0,
           series |-> [k \in Key |-> NoSeries]]
NewHost == [NoHost EXCEPT !.known = TRUE]

Known == {h \in Host : hosts[h].known}
Held(h) == {k \in Key : h.series[k].seen # 0}
Charted(h) == {k \in Key : h.series[k].history # <<>>}

ChartClassOf(k) ==
  CASE Kind[k] \in {"host", "gauge"} -> "core"
    [] Kind[k] = "extra" -> "extra"
    [] OTHER -> "none"

OfClass(S, c) == {k \in S : ChartClassOf(k) = c}

Init ==
  /\ now = 0
  /\ sent = {}
  /\ handlers = {}
  /\ folding = Idle
  /\ hosts = [h \in Host |-> NoHost]

-----------------------------------------------------------------------------
(* The agents and the network. *)

Tick ==
  /\ now < MaxTime
  /\ now' = now + 1
  /\ UNCHANGED <<sent, handlers, folding, hosts>>

Send ==
  /\ Cardinality(sent) < MaxBatches
  /\ \E h \in Host, ks \in Reports :
       sent' = sent \cup {[host |-> h, ts |-> now, keys |-> ks]}
  /\ UNCHANGED <<now, handlers, folding, hosts>>

\* The handler of a request reads the time, and then waits for the mutex.
Receive ==
  /\ \E b \in sent :
       /\ \A r \in handlers : r.batch # b
       /\ folding.batch # b
       /\ handlers' = handlers \cup {[batch |-> b, at |-> now]}
  /\ UNCHANGED <<now, sent, folding, hosts>>

-----------------------------------------------------------------------------
(* Store.Ingest, under the mutex. *)

\* evictLocked: at the cap, one of the least recently seen hosts goes.
Evicted(victim) ==
  IF Cardinality(Known) < Hosts THEN victim = {}
  ELSE \E v \in Known :
         /\ victim = {v}
         /\ \A w \in Known : hosts[v].lastSeen <= hosts[w].lastSeen

\* The host's row, created if it is not there.
TakesLock ==
  /\ Free
  /\ \E r \in handlers, victim \in SUBSET Host :
       LET h == r.batch.host
           row == IF hosts[h].known THEN hosts[h] ELSE NewHost
       IN /\ IF hosts[h].known THEN victim = {} ELSE Evicted(victim)
          /\ hosts' = [g \in Host |-> CASE g = h -> [row EXCEPT !.lastSeen = r.at]
                                        [] g \in victim -> NoHost
                                        [] OTHER -> hosts[g]]
          /\ handlers' = handlers \ {r}
          /\ folding' = [batch |-> r.batch, todo |-> r.batch.keys]
  /\ UNCHANGED <<now, sent>>

\* Bug: rings of reclaimed series stay charged to their budgets.
PruneKeepsBudget(h, ts) ==
  [h EXCEPT !.series =
     [k \in Key |-> IF /\ h.series[k].seen # 0
                       /\ h.series[k].updated < ts - SeriesStaleAfter
                       /\ ~(Kind[k] = "host" /\ h.series[k].history # <<>>)
                    THEN NoSeries ELSE h.series[k]]]

\* Bug: the window is forgotten, and a full table gives up what is alive.
PrunableAtOnce(h, ts) ==
  {k \in Held(h) : /\ h.series[k].updated < ts
                   /\ ~(Kind[k] = "host" /\ k \in Charted(h))}

\* The series silent for longer than the window, but for the charted host.* ones.
Prunable(h, ts) ==
  {k \in Held(h) : /\ h.series[k].updated < ts - SeriesStaleAfter
                   /\ ~(Kind[k] = "host" /\ k \in Charted(h))}

\* pruneSeriesLocked: each ring goes back to the budget it came from.
Prune(h, ts) ==
  LET gone == Prunable(h, ts)
      rings == gone \cap Charted(h)
  IN [h EXCEPT !.series = [k \in Key |-> IF k \in gone THEN NoSeries ELSE h.series[k]],
               !.core = @ - Cardinality(rings \ OfClass(rings, "extra")),
               !.extra = @ - Cardinality(OfClass(rings, "extra"))]

\* A new series at the cap first has the dead ones reclaimed.
MadeRoom(h, k, ts) ==
  IF k \notin Held(h) /\ Cardinality(Held(h)) >= SeriesPerHost THEN Prune(h, ts) ELSE h

\* The new series is still past the cap: it is dropped, never a live one.
Refused(h, k) == k \notin Held(h) /\ Cardinality(Held(h)) >= SeriesPerHost

\* Does this report give the series a sample?  A ring it has goes on; a new one is
\* charged to the budget of the series' class, and an extra series must be recurring.
EarnsSample(h, k) ==
  LET c == ChartClassOf(k) IN
  \/ c # "none" /\ k \in Charted(h)
  \/ c = "core" /\ h.core < HistorySeries
  \/ c = "extra" /\ h.series[k].seen >= 1 /\ h.extra < HistorySeriesExtra

Trimmed(s) == IF Len(s) > HistoryPoints THEN Tail(s) ELSE s

Reported(h, k, ts) ==
  LET sample == EarnsSample(h, k)
      fresh == IF sample /\ k \notin Charted(h) THEN 1 ELSE 0
      old == h.series[k]
  IN [h EXCEPT
        !.series[k] = [seen |-> IF old.seen = 0 THEN 1 ELSE 2,
                       updated |-> ts,
                       history |-> IF sample THEN Trimmed(Append(old.history, ts))
                                   ELSE old.history],
        !.core = IF ChartClassOf(k) = "core" THEN @ + fresh ELSE @,
        !.extra = IF ChartClassOf(k) = "extra" THEN @ + fresh ELSE @]

\* observeLocked.
ObserveLocked(h, k, ts) ==
  LET room == MadeRoom(h, k, ts) IN
  IF Refused(room, k) THEN room ELSE Reported(room, k, ts)

Observe ==
  /\ ~Free
  /\ \E k \in folding.todo :
       LET b == folding.batch IN
       /\ hosts' = [hosts EXCEPT ![b.host] = ObserveLocked(@, k, b.ts)]
       /\ folding' = [folding EXCEPT !.todo = @ \ {k}]
  /\ UNCHANGED <<now, sent, handlers>>

-----------------------------------------------------------------------------
(* The answer: if it is lost, the agent sends the batch again. *)

Answers ==
  /\ ~Free
  /\ folding.todo = {}
  /\ folding' = Idle
  /\ sent' \in {sent, sent \ {folding.batch}}
  /\ UNCHANGED <<now, handlers, hosts>>

Next == Tick \/ Send \/ Receive \/ TakesLock \/ Observe \/ Answers

Spec == Init /\ [][Next]_vars

-----------------------------------------------------------------------------
(* Properties. *)

Batches == [host : Host, ts : Nat, keys : SUBSET Key]
SeriesRecord == [seen : 0 .. 2, updated : Nat, history : Seq(Nat)]
HostRecord == [known : BOOLEAN, lastSeen : Nat, core : Int, extra : Int,
               series : [Key -> SeriesRecord]]

\* Types of all variables; every table is within its cap, and every ring within its points.
TypeOK ==
  /\ now \in Nat
  /\ sent \subseteq Batches
  /\ handlers \subseteq [batch : Batches, at : Nat]
  /\ Free \/ folding \in [batch : Batches, todo : SUBSET Key]
  /\ hosts \in [Host -> HostRecord]
  /\ Cardinality(Known) <= Hosts
  /\ \A h \in Host : /\ Cardinality(Held(hosts[h])) <= SeriesPerHost
                     /\ \A k \in Key : Len(hosts[h].series[k].history) <= HistoryPoints

\* "Maintained rather than counted on demand": each counter is the number of rings of
\* its class, and neither budget is ever exceeded, whatever is pruned and re-admitted.
RingsCounted ==
  \A h \in Host :
    /\ hosts[h].core = Cardinality(OfClass(Charted(hosts[h]), "core"))
    /\ hosts[h].extra = Cardinality(OfClass(Charted(hosts[h]), "extra"))
    /\ hosts[h].core <= HistorySeries /\ hosts[h].extra <= HistorySeriesExtra

\* A live series is never kept out by dead ones: when a point is refused, every series
\* that holds a place is a chart of the overview or was reported within the window.
RefusedOnlyByLive ==
  \A k \in folding.todo \ folding'.todo :
    LET b == folding.batch
        after == hosts'[b.host]
    IN k \notin Held(after) =>
         \A l \in Held(after) :
           \/ Kind[l] = "host" /\ l \in Charted(after)
           \/ after.series[l].updated >= b.ts - SeriesStaleAfter

\* A charted host.* series keeps its ring for as long as its host is known, "a gap in
\* them reads as an outage": neither churn nor a late batch takes it away.
ChartsStay ==
  \A h \in Host, k \in Key :
    Kind[k] = "host" /\ k \in Charted(hosts[h]) /\ hosts'[h].known
      => k \in Charted(hosts'[h])

\* While its host is known, a series is given up only for a new one, by a batch of its host
\* that finds the table full and takes a place, and only if it was silent for longer than
\* the window before that batch.  Silent by its own stamp: a batch that comes late moves the
\* stamp back (store.go:372), and a series that was heard of since then goes with the dead.
GivenUpIsSilent ==
  \A h \in Host, k \in Key :
    LET before == hosts[h]
        after == hosts'[h]
    IN before.known /\ after.known /\ k \in Held(before) \ Held(after) =>
         /\ folding.batch.host = h
         /\ before.series[k].updated + SeriesStaleAfter < folding.batch.ts
         /\ Cardinality(Held(before)) >= SeriesPerHost
         /\ \E l \in folding.todo : l \in Held(after) \ Held(before)

\* observeLocked and pruneSeriesLocked: what a host's bounded table gives up to make room is
\* neither live nor an overview's chart, goes to a series that has just been reported, and
\* only live series and the overview's charts keep a new one out.
PlacesGoToTheLive == [][RefusedOnlyByLive /\ ChartsStay /\ GivenUpIsSilent]_vars

=============================================================================
