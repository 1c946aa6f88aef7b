---------------------------- MODULE ProcessTable ----------------------------
(***************************************************************************)
(* The cycle of the process module (internal/modules/process): what the    *)
(* host runs is listed and reconciled with a bounded table keyed by PID;   *)
(* of what is selected the I/O counters are read, one PID after the other, *)
(* while the host goes on; and lifecycle events and one set of gauges per  *)
(* executable are emitted, as much of it as the back-pressure allows.      *)
(*                                                                         *)
(* A process instance is the number of its birth, and that is its start    *)
(* stamp too where the listing has one (0 where it has none).  Names are   *)
(* numbers for their order.  A counter baseline is the instance it was     *)
(* read from.  Selection looks at neither the amount of CPU nor at memory. *)
(***************************************************************************)
EXTENDS Naturals, Ascending

CONSTANTS
  Pids, Names,     \* sets of numbers
  MaxTracked, MaxProcesses, MaxExecutables, MaxEvents,  \* the limits of the settings
  MaxSeries,       \* series an instrument may have
  Retention,       \* cycles an exit is remembered
  Include, Exclude,  \* names the settings include and exclude
  Guarded,         \* names of programs the agent may be denied to open, so that there is no stamp
  MaxBirths, MaxCycles  \* bounds: instances, cycles

ASSUME TableAssumption ==
  /\ Pids \cup Names \subseteq Nat /\ IsFiniteSet(Pids)
  /\ {MaxTracked, MaxProcesses, MaxExecutables, MaxEvents, MaxSeries} \subseteq Nat \ {0}
  /\ {Retention, MaxBirths, MaxCycles} \subseteq Nat
  /\ Include \cup Exclude \cup Guarded \subseteq Names

VARIABLES
  host,     \* host[p]: the instance that holds PID p
  births,   \* instances so far
  cycle,    \* cycles so far
  live,     \* the table: a record for each PID in its domain
  exits,    \* exits[n]: the cycle in which an instance named n last exited
  started, exited,  \* the lifetime counters
  emitted,  \* the executables of the last rollup
  gauges,   \* the executables that have gauges in the telemetry
  sweep,    \* the cycle that runs: what it found, and the PIDs it has yet to read
  deltas,   \* this cycle's counter deltas: the instance they are told of, and the two they are between
  open,     \* the instances reported as started and not as exited
  lost      \* the instances whose exit was shed, or unseen for want of a stamp

vars == <<host, births, cycle, live, exits, started, exited, emitted, gauges, sweep, deltas, open, lost>>

NoProcess == [name |-> 0, born |-> 0, start |-> 0]
Running == {p \in Pids : host[p] # NoProcess}
Alive == {host[p].born : p \in Running}

NoSweep == [on |-> FALSE, changes |-> <<>>, selected |-> {}, current |-> {}, allow |-> 0, unread |-> {}]

Init ==
  /\ host = [p \in Pids |-> NoProcess] /\ births = 0
  /\ cycle = 0
  /\ live = [p \in {} |-> NoProcess] /\ exits = [n \in {} |-> 0]
  /\ started = 0 /\ exited = 0
  /\ emitted = {} /\ gauges = {} /\ sweep = NoSweep /\ deltas = {}
  /\ open = {} /\ lost = {}

tableVars == <<live, exits, started, exited>>
toldVars == <<emitted, gauges, open, lost>>

\* The host, between two cycles and within one.
Born(p, n) ==
  /\ p \notin Running /\ births < MaxBirths
  /\ births' = births + 1
  /\ host' = [host EXCEPT ![p] = [name |-> n, born |-> births + 1, start |-> births + 1]]
  /\ UNCHANGED <<cycle, sweep, deltas, tableVars, toldVars>>

Dies(p) ==
  /\ p \in Running
  /\ host' = [host EXCEPT ![p] = NoProcess]
  /\ UNCHANGED <<births, cycle, sweep, deltas, tableVars, toldVars>>

\* A process is opened to the agent or closed to it (reader_windows.go:192-242).
Turns(p) ==
  /\ p \in Running /\ host[p].name \in Guarded
  /\ host' = [host EXCEPT ![p].start = IF @ = 0 THEN host[p].born ELSE 0]
  /\ UNCHANGED <<births, cycle, sweep, deltas, tableVars, toldVars>>

(***************************************************************************)
(* reconcile, of the PIDs that were listed.                                *)
(***************************************************************************)
\* Bug: a PID is taken for the process that holds it.
SamePid(p) == p \in DOMAIN live

\* Two that have no stamp are one.
SameInstance(p) == live[p].start = host[p].start

Kept(seen) == {p \in seen \cap DOMAIN live : SameInstance(p)}
Reused(seen) == (seen \cap DOMAIN live) \ Kept(seen)
Pending(seen) == seen \ DOMAIN live
Gone(seen) == DOMAIN live \ seen

\* Bug: there is always room.
AdmittedAll(seen) == Pending(seen)

\* New instances come in by PID as long as there is room, and those that are gone still take theirs.
Admitted(seen) ==
  {p \in Pending(seen) : Cardinality(DOMAIN live) + Cardinality({q \in Pending(seen) : q < p}) < MaxTracked}

\* A new record takes the CPU time just read as its baseline; I/O is not read yet.
Tracked(p) ==
  [name |-> host[p].name, born |-> host[p].born, start |-> host[p].start, cpu |-> host[p].born, io |-> 0]

Reconciled(seen) ==
  [p \in Kept(seen) \cup Reused(seen) \cup Admitted(seen) |->
     IF p \in Kept(seen) THEN [live[p] EXCEPT !.born = host[p].born, !.cpu = host[p].born] ELSE Tracked(p)]

DeltaOf(row, of, from, to) == [of |-> of, stamped |-> row.start # 0, from |-> from, to |-> to]

CPUDeltas(seen) == {DeltaOf(live[p], host[p].born, live[p].cpu, host[p].born) : p \in Kept(seen)}

\* Of the I/O counters of whoever holds the PID when it is read.  A counter that is lower than
\* the baseline starts a new one and tells nothing: what is here is what may be told.
IODeltas(p) ==
  IF live[p].io = 0 THEN {} ELSE {DeltaOf(live[p], live[p].born, live[p].io, host[p].born)}

\* What has no stamp may pass from one process to another with nothing noticed.
Mistaken(seen) == {live[p].born : p \in {q \in Kept(seen) : live[q].start = 0}} \ Alive

NamesOf(ps) == {live[p].name : p \in ps}

\* What has been noted as exited when p is looked at: with p itself if its PID was reused.
ExitNoted(n, p, seen) ==
  \/ n \in NamesOf({q \in Reused(seen) : p \in Pending(seen) \/ q <= p})
  \/ n \in DOMAIN exits

IsRestart(p, seen) == Retention > 0 /\ ExitNoted(host[p].name, p, seen)

Exited(p) == [kind |-> "exited", pid |-> p, born |-> live[p].born, restart |-> FALSE]
StartedChange(p, seen) == [kind |-> "started", pid |-> p, born |-> host[p].born, restart |-> IsRestart(p, seen)]
Replaced(p) == [kind |-> "replaced", pid |-> p, born |-> host[p].born, restart |-> FALSE]

Changes(seen, gone) ==
  FlattenSeq([i \in 1..Cardinality(Reused(seen)) |->
    LET p == InOrder(Reused(seen))[i] IN <<Exited(p), StartedChange(p, seen), Replaced(p)>>])
  \o [i \in 1..Cardinality(Admitted(seen)) |-> StartedChange(InOrder(Admitted(seen))[i], seen)]
  \o [i \in 1..Len(gone) |-> Exited(gone[i])]

PruneExits(at) == [n \in {k \in DOMAIN at : cycle' <= at[k] + Retention} |-> at[n]]
NoteExits(ps) ==
  IF Retention = 0 THEN exits
  ELSE [n \in DOMAIN exits \cup NamesOf(ps) |-> IF n \in NamesOf(ps) THEN cycle' ELSE exits[n]]

(***************************************************************************)
(* The settings' choice, in a fixed order.                                 *)
(***************************************************************************)
AdmitBySettings(p) == host[p].name \notin Exclude /\ (Include # {} => host[p].name \in Include)

CriticalPid(p) == p <= 4
SelectionRank(p) ==
  CASE host[p].name \in Include -> 0
    [] host[p].name \notin Include /\ CriticalPid(p) -> 1
    [] OTHER -> 2

\* Configured processes, then the system's, then those whose CPU is known.
Place(p, seen) ==
  <<SelectionRank(p), IF p \in Kept(seen) THEN 0 ELSE 1, host[p].name, p>>
Before(a, b) == \E i \in 1..4 : a[i] < b[i] /\ \A j \in 1..(i - 1) : a[j] = b[j]

SelectProcesses(seen) ==
  LET kept == {p \in seen : AdmitBySettings(p)}
  IN {p \in kept : Cardinality({q \in kept : Before(Place(q, seen), Place(p, seen))}) < MaxProcesses}

Instances(n, ps) == Cardinality({p \in ps : host[p].name = n})
MoreInstances(m, n, ps) ==
  \/ Instances(m, ps) > Instances(n, ps)
  \/ Instances(m, ps) = Instances(n, ps) /\ m < n

RollupBy(ps) == {host[p].name : p \in ps}
SelectExecutables(ps) ==
  {n \in RollupBy(ps) : Cardinality({m \in RollupBy(ps) : MoreInstances(m, n, ps)}) < MaxExecutables}

(***************************************************************************)
(* Emission.                                                               *)
(***************************************************************************)
Aggregate == 0
Lifecycle == 1
Rollup == 2
Detail == 3

\* The event of an exit is always wanted, any other for a selected process only.
Interesting(c, selected) == c.kind = "exited" \/ c.pid \in selected

Wanted(changes, selected) ==
  FlattenSeq([i \in DOMAIN changes |-> IF Interesting(changes[i], selected) THEN <<changes[i]>> ELSE <<>>])

EmitLifecycle(changes, selected) ==
  LET wanted == Wanted(changes, selected) IN SubSeq(wanted, 1, Min({Len(wanted), MaxEvents}))

BornOf(events, kind) == {events[i].born : i \in {j \in 1..Len(events) : events[j].kind = kind}}

\* An existing series is always admitted, a new one while there is room.
AdmitSeries(names) ==
  LET new == names \ gauges
  IN gauges \cup {n \in new : Cardinality(gauges) + Cardinality({m \in new : m < n}) < MaxSeries}

RetireVanished(series, current) == series \ (emitted \ current)

\* What a cycle emits of the selected processes, at its back-pressure.
Emit(changes, selected, current, allow) ==
  LET told == IF allow >= Lifecycle THEN EmitLifecycle(changes, selected) ELSE <<>>
      owed == IF allow >= Lifecycle THEN Wanted(changes, selected) ELSE changes
  IN
    /\ open' = (open \ BornOf(told, "exited")) \cup BornOf(told, "started")
    /\ lost' = (lost \cup (BornOf(owed, "exited") \ BornOf(told, "exited"))) \ BornOf(told, "started")
    /\ IF allow >= Rollup
         THEN /\ gauges' = RetireVanished(AdmitSeries(current), current)
              /\ emitted' = current
         ELSE UNCHANGED <<gauges, emitted>>

(***************************************************************************)
(* The cycle.  A process that cannot be read is not in the listing.  The   *)
(* exits are found in the order of a Go map, which is any.                 *)
(***************************************************************************)
ListProcesses(seen, allow) ==
  LET selected == SelectProcesses(seen)
      ended == Reused(seen) \cup Gone(seen)
  IN
    /\ ~sweep.on /\ cycle < MaxCycles /\ cycle' = cycle + 1
    /\ live' = Reconciled(seen)
    /\ deltas' = CPUDeltas(seen)
    /\ exits' = PruneExits(NoteExits(ended))
    /\ started' = started + Cardinality(Reused(seen) \cup Admitted(seen))
    /\ exited' = exited + Cardinality(ended)
    /\ \E gone \in SetToSeqs(Gone(seen)) :
         sweep' = [on |-> TRUE, changes |-> Changes(seen, gone), selected |-> selected,
                   current |-> SelectExecutables(selected), allow |-> allow,
                   unread |-> IF allow >= Detail THEN selected \cap DOMAIN live' ELSE {}]
    /\ lost' = lost \cup Mistaken(seen)
    /\ UNCHANGED <<host, births, emitted, gauges, open>>

\* One PID is read, without another look at who holds it.
ReadDetail(p) ==
  /\ p \in sweep.unread \cap Running
  /\ deltas' = deltas \cup IODeltas(p)
  /\ live' = [live EXCEPT ![p].io = host[p].born]
  /\ sweep' = [sweep EXCEPT !.unread = @ \ {p}]
  /\ UNCHANGED <<host, births, cycle, exits, started, exited, toldVars>>

\* What has not been read by then could not be, or the deadline came first.
EmitCycle ==
  /\ sweep.on
  /\ Emit(sweep.changes, sweep.selected, sweep.current, sweep.allow)
  /\ sweep' = NoSweep
  /\ UNCHANGED <<host, births, cycle, deltas, tableVars>>

\* A listing that fails ends the cycle.
ListingFails ==
  /\ ~sweep.on /\ cycle < MaxCycles /\ cycle' = cycle + 1
  /\ deltas' = {}
  /\ UNCHANGED <<host, births, sweep, tableVars, toldVars>>

Next ==
  \/ \E p \in Pids, n \in Names : Born(p, n)
  \/ \E p \in Pids : Dies(p) \/ Turns(p) \/ ReadDetail(p)
  \/ \E seen \in SUBSET Running, allow \in Aggregate..Detail : ListProcesses(seen, allow)
  \/ EmitCycle
  \/ ListingFails

Spec == Init /\ [][Next]_vars

(***************************************************************************)
(* Properties.                                                             *)
(***************************************************************************)
\* A delta that is told of a process with a start stamp begins with that process: "a recycled
\* PID produces an exit, a start and a replacement - never a silent inheritance of the previous
\* process's counter baselines" (lifecycle.go:153-155), not even of a baseline that was read from
\* the next holder of the PID.  And it ends with another process only if its own is over, so
\* that such a delta is its last.
DeltasAreOwn ==
  \A d \in deltas : (d.stamped => d.from = d.of) /\ (d.to = d.of \/ d.of \notin Alive)

\* A process that was reported as started is reported as finished by the end of the cycle in
\* which it leaves the table (collect.go:266-272), but for the exits that back-pressure or the
\* budget of events shed, and for one with no stamp that another with none replaced.
StartsAreEnded == ~sweep.on => open \subseteq lost \cup {live[p].born : p \in DOMAIN live}

\* The executables that have gauges are among those of the last rollup, so that none is
\* exported for a program that is gone (emit.go:160-165), however the series cap refused some;
\* and the lifetime counters of starts and exits differ by what is in the table.
GaugesAreCurrent ==
  /\ gauges \subseteq emitted /\ Cardinality(gauges) <= MaxSeries
  /\ started - exited = Cardinality(DOMAIN live)

\* What is reported of the processes is of those there were.
ReportsAreTrue == DeltasAreOwn /\ StartsAreEnded /\ GaugesAreCurrent

\* The table is a bounded watch of the host's instances.
Watch == INSTANCE ProcessWatch WITH
  Limit <- MaxTracked,
  alive <- Alive,
  watched <- {live[p].born : p \in DOMAIN live}
TableIsBoundedWatch == Watch!Spec

=============================================================================
