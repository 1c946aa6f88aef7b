-------------------------------- MODULE Statsd --------------------------------
(***************************************************************************)
(* The StatsD module (internal/modules/statsd), whose goroutine reads      *)
(* datagrams from a UDP socket, and the bounded tables of the in-process   *)
(* telemetry (internal/platform/inproc) its measures go to.                *)
(*                                                                         *)
(* A line is a record: its instrument, its name, its value in halves (a    *)
(* counter takes whole numbers) and its tags, or it is malformed.  A tag   *)
(* is a number; Rendered is how seriesKey writes it, and two tags may be   *)
(* written alike ("a=b:c" and "a:b=c").  A tag without a key is EmptyTag.  *)
(* The sampling rate of a line is not read by the code, nor is it here.    *)
(***************************************************************************)
EXTENDS Integers, FiniteSets, FiniteSetsExt, Ascending

CONSTANTS
  MetricName,  \* names senders use
  Tag, EmptyTag,
  Rendered,    \* tag -> text
  MaxTags,     \* the tags of a line that are looked at (8)
  BufferLines,    \* max.packet_bytes, in lines
  SeriesBound, \* Telemetry.maxSeries
  Datagrams,   \* what senders send: sequences of lines
  MaxListens, MaxDatagrams   \* bounds: starts with a socket, datagrams and read errors

Instrument == {"counter", "gauge", "histogram"}
Measure == [instrument : Instrument, name : MetricName, value : Int, tags : Seq(Tag)]
Malformed == [instrument |-> "none"]

ASSUME StatsdAssumption ==
  /\ EmptyTag \in Tag /\ Tag \subseteq Nat
  /\ {MaxTags, BufferLines, SeriesBound} \subseteq Nat \ {0} /\ {MaxListens, MaxDatagrams} \subseteq Nat
  /\ Datagrams \subseteq Seq(Measure \cup {Malformed})

VARIABLES
  statsd,     \* Module: started, the gen of conn and of cancel, done (0: closed from the start), stop
  cancelledGens, openConns, closedDones,
  reader,     \* reader[g]: the goroutine of the g-th Start: [at, conn, done, datagram]
  panicked,   \* a channel was closed twice: the agent is gone
  overdue,    \* a Stop returned at its deadline
  counted,    \* [accepted, dropped]
  tables,     \* Telemetry: instrument -> name -> key -> value
  shedSeries, \* Telemetry.dropped
  taken, readErrors   \* the datagrams applied, as they were read, and reads that failed

statsdVars == <<statsd, cancelledGens, openConns, closedDones, reader, panicked, overdue,
                counted, tables, shedSeries, taken, readErrors>>

Listens == 1 .. MaxListens
NotBorn == [at |-> "unborn", conn |-> 0, done |-> 0, datagram |-> <<>>]

StatsdInit ==
  /\ statsd = [started |-> FALSE, conn |-> 0, done |-> 0, stop |-> "no"]
  /\ cancelledGens = {} /\ openConns = {} /\ closedDones = {0}
  /\ reader = [g \in Listens |-> NotBorn]
  /\ panicked = FALSE /\ overdue = FALSE
  /\ counted = [accepted |-> 0, dropped |-> 0]
  /\ tables = [i \in Instrument |-> [n \in MetricName |-> [k \in {} |-> 0]]]
  /\ shedSeries = [n \in MetricName |-> 0]
  /\ taken = <<>> /\ readErrors = 0

-----------------------------------------------------------------------------
(* Telemetry. *)

\* seriesKey: the attributes in order, as they are written.
SeriesKey(tags) ==
  LET s == Sorted(tags) IN [i \in DOMAIN s |-> Rendered[s[i]]]

\* Bug: a table that is full admits nothing, what it holds included.
AdmitBelowBound(series, key) == Cardinality(DOMAIN series) < SeriesBound

AdmitLocked(series, key) == key \in DOMAIN series \/ Cardinality(DOMAIN series) < SeriesBound

Truncated(v) == IF v < 0 THEN -((-v) \div 2) ELSE v \div 2

\* counter.Add, gauge.Set and histogram.Observe on a series that is there.
Measured(instrument, old, v) ==
  CASE instrument = "counter" -> old + Truncated(v)
    [] instrument = "gauge" -> v
    [] instrument = "histogram" ->
         [count |-> old.count + 1, sum |-> old.sum + v, min |-> Min({old.min, v}), max |-> Max({old.max, v})]

NewSeries(instrument, v) ==
  IF instrument = "histogram" THEN [count |-> 0, sum |-> 0, min |-> v, max |-> v] ELSE 0

\* The state of the telemetry [tables, shed] after one line.
Put(tel, line) ==
  LET series == tel.tables[line.instrument][line.name]
      key == SeriesKey(line.tags)
      old == IF key \in DOMAIN series THEN series[key] ELSE NewSeries(line.instrument, line.value)
      new == Measured(line.instrument, old, line.value)
  IN IF AdmitLocked(series, key)
     THEN [tel EXCEPT !.tables[line.instrument][line.name] =
             [k \in DOMAIN series \cup {key} |-> IF k = key THEN new ELSE series[k]]]
     ELSE [tel EXCEPT !.shed[line.name] = @ + 1]

-----------------------------------------------------------------------------
(* The module's goroutine. *)

\* parseTags looks at the first tags of a line, and leaves out those without a key.
ParseTags(tags) ==
  LET looked == SubSeq(tags, 1, Min({Len(tags), MaxTags}))
  IN AtPlaces(looked, {i \in DOMAIN looked : looked[i] # EmptyTag})

\* applyLine, without what is done to the telemetry.
Parsed(datagram) ==
  LET good == AtPlaces(datagram, {i \in DOMAIN datagram : datagram[i] # Malformed})
  IN [i \in DOMAIN good |-> [good[i] EXCEPT !.tags = ParseTags(@)]]

\* What the buffer holds of a datagram: the rest is lost, and the last line may be cut, inside
\* its measure or among its tags.
Buffered(datagram) ==
  IF Len(datagram) <= BufferLines THEN {datagram}
  ELSE LET last == datagram[BufferLines] IN
       {[i \in 1 .. BufferLines |-> IF i < BufferLines THEN datagram[i] ELSE cut] :
          cut \in {last, Malformed} \cup IF last = Malformed THEN {} ELSE {[last EXCEPT !.tags = <<>>]}}

ReaderAt(g, place) == reader[g].at = place /\ ~panicked
ReaderGoes(g, place) == reader' = [reader EXCEPT ![g].at = place]

\* The goroutine takes the module's channel and socket when it first runs.
ReaderStarts(g) ==
  /\ ReaderAt(g, "born")
  /\ reader' = [reader EXCEPT ![g] = [@ EXCEPT !.at = "top", !.conn = statsd.conn, !.done = statsd.done]]
  /\ UNCHANGED <<statsd, cancelledGens, openConns, closedDones, panicked, overdue, counted, tables, shedSeries, taken, readErrors>>

\* Leaving closes the channel; closing one twice is a panic nobody recovers.
Left(g) ==
  /\ closedDones' = closedDones \cup {reader[g].done}
  /\ panicked' = (reader[g].done \in closedDones)
  /\ ReaderGoes(g, "gone")
  /\ UNCHANGED <<statsd, cancelledGens, openConns, overdue, counted, tables, shedSeries, taken, readErrors>>

ReaderLeaves(g) == ReaderAt(g, "top") /\ g \in cancelledGens /\ Left(g)

ReaderReads(g) ==
  /\ ReaderAt(g, "top") /\ g \notin cancelledGens
  /\ ReaderGoes(g, "reading")
  /\ UNCHANGED <<statsd, cancelledGens, openConns, closedDones, panicked, overdue, counted, tables, shedSeries, taken, readErrors>>

ReadTimesOut(g) ==
  /\ ReaderAt(g, "reading") /\ reader[g].conn \in openConns
  /\ ReaderGoes(g, "top")
  /\ UNCHANGED <<statsd, cancelledGens, openConns, closedDones, panicked, overdue, counted, tables, shedSeries, taken, readErrors>>

ReadReturns(g) ==
  /\ ReaderAt(g, "reading") /\ reader[g].conn \in openConns /\ Len(taken) + readErrors < MaxDatagrams
  /\ \E sent \in Datagrams : \E d \in Buffered(sent) :
       reader' = [reader EXCEPT ![g] = [@ EXCEPT !.at = "holding", !.datagram = d]]
  /\ UNCHANGED <<statsd, cancelledGens, openConns, closedDones, panicked, overdue, counted, tables, shedSeries, taken, readErrors>>

\* A read that fails ends the goroutine if it was told to end, and else counts as a drop.
ReadFails(g) ==
  /\ ReaderAt(g, "reading")
  /\ \/ g \in cancelledGens /\ Left(g)
     \/ /\ g \notin cancelledGens /\ Len(taken) + readErrors < MaxDatagrams
        /\ readErrors' = readErrors + 1
        /\ counted' = [counted EXCEPT !.dropped = @ + 1]
        /\ ReaderGoes(g, "top")
        /\ UNCHANGED <<statsd, cancelledGens, openConns, closedDones, panicked, overdue, tables, shedSeries, taken>>

\* applyPacket: one line that is right makes the datagram an accepted one.
ApplyPacket(g) ==
  /\ ReaderAt(g, "holding")
  /\ LET lines == Parsed(reader[g].datagram)
         after == FoldLeft(Put, [tables |-> tables, shed |-> shedSeries], lines)
     IN /\ tables' = after.tables /\ shedSeries' = after.shed
        /\ counted' = IF lines # <<>> THEN [counted EXCEPT !.accepted = @ + 1]
                      ELSE [counted EXCEPT !.dropped = @ + 1]
  /\ taken' = Append(taken, reader[g].datagram)
  /\ reader' = [reader EXCEPT ![g] = [@ EXCEPT !.at = "top", !.datagram = <<>>]]
  /\ UNCHANGED <<statsd, cancelledGens, openConns, closedDones, panicked, overdue, readErrors>>

-----------------------------------------------------------------------------
(* The supervisor's calls, one after the other. *)

Calm == ~panicked /\ statsd.stop = "no"

\* Start without an address: there is nothing to wait for at Stop.
StartDisabled ==
  /\ Calm /\ ~statsd.started
  /\ statsd' = [statsd EXCEPT !.started = TRUE, !.done = 0]
  /\ UNCHANGED <<cancelledGens, openConns, closedDones, reader, panicked, overdue, counted, tables, shedSeries, taken, readErrors>>

StartListening(g) ==
  /\ Calm /\ ~statsd.started
  /\ reader[g].at = "unborn" /\ \A f \in Listens : f < g => reader[f].at # "unborn"
  /\ statsd' = [statsd EXCEPT !.started = TRUE, !.conn = g, !.done = g]
  /\ openConns' = openConns \cup {g}
  /\ ReaderGoes(g, "born")
  /\ UNCHANGED <<cancelledGens, closedDones, panicked, overdue, counted, tables, shedSeries, taken, readErrors>>

\* Stop cancels the goroutine it last launched, if any, ...
StopCancels ==
  /\ Calm /\ statsd.started
  /\ cancelledGens' = cancelledGens \cup ({statsd.conn} \ {0})
  /\ statsd' = [statsd EXCEPT !.started = FALSE, !.stop = "cancelled"]
  /\ UNCHANGED <<openConns, closedDones, reader, panicked, overdue, counted, tables, shedSeries, taken, readErrors>>

\* ... closes its socket, which ends a read that waits, ...
CloseConn == openConns' = openConns \ {statsd.conn}

StopCloses ==
  /\ ~panicked /\ statsd.stop = "cancelled"
  /\ CloseConn
  /\ statsd' = [statsd EXCEPT !.stop = "waiting"]
  /\ UNCHANGED <<cancelledGens, closedDones, reader, panicked, overdue, counted, tables, shedSeries, taken, readErrors>>

\* ... and waits for the channel, or until its deadline.
StopEnds ==
  /\ ~panicked /\ statsd.stop = "waiting"
  /\ overdue' = (overdue \/ statsd.done \notin closedDones)
  /\ statsd' = [statsd EXCEPT !.stop = "no"]
  /\ UNCHANGED <<cancelledGens, openConns, closedDones, reader, panicked, counted, tables, shedSeries, taken, readErrors>>

StatsdNext ==
  \/ StartDisabled \/ StopCancels \/ StopCloses \/ StopEnds
  \/ \E g \in Listens :
       \/ StartListening(g) \/ ReaderStarts(g) \/ ReaderLeaves(g) \/ ReaderReads(g)
       \/ ReadTimesOut(g) \/ ReadReturns(g) \/ ReadFails(g) \/ ApplyPacket(g)

-----------------------------------------------------------------------------
(* Properties. *)

LinesTaken == FlattenSeq([i \in DOMAIN taken |-> Parsed(taken[i])])

SameTags(s, t) ==
  \A x \in Tag : Cardinality({i \in DOMAIN s : s[i] = x}) = Cardinality({i \in DOMAIN t : t[i] = x})

\* Which of these lines are of a series.
LinesOf(lines, instrument, name, key) ==
  {j \in DOMAIN lines : lines[j].instrument = instrument /\ lines[j].name = name /\ SeriesKey(lines[j].tags) = key}

\* What a series should be worth after these of the lines.
Worth(lines, instrument, js) ==
  LET values == {lines[j].value : j \in js} IN
  CASE instrument = "counter" -> SumFunction([j \in js |-> Truncated(lines[j].value)])
    [] instrument = "gauge" -> lines[Max(js)].value
    [] instrument = "histogram" ->
         [count |-> Cardinality(js), sum |-> SumFunction([j \in js |-> lines[j].value]),
          min |-> Min(values), max |-> Max(values)]

\* Which of these lines the telemetry has no series for.
Turned(lines, tel, name) ==
  {j \in DOMAIN lines : lines[j].name = name /\ SeriesKey(lines[j].tags) \notin DOMAIN tel.tables[lines[j].instrument][name]}

\* The telemetry after these lines.
Kept(lines, tel) ==
  /\ \A i \in Instrument, n \in MetricName :
       /\ Cardinality(DOMAIN tel.tables[i][n]) <= SeriesBound
       /\ \A k \in DOMAIN tel.tables[i][n] : tel.tables[i][n][k] = Worth(lines, i, LinesOf(lines, i, n, k))
  /\ \A n \in MetricName :
       /\ tel.shed[n] = Cardinality(Turned(lines, tel, n))
       /\ \A j \in Turned(lines, tel, n) : Cardinality(DOMAIN tel.tables[lines[j].instrument][n]) = SeriesBound

\* telemetry.go's bound: the same tags are the same series, in whatever order they come; a
\* series that has its place keeps every measure made of it, whatever else is turned away;
\* what is turned away is counted under its name, and only when there is no place left.
MeasuresAreKept ==
  LET lines == LinesTaken
      written == {lines[i].tags : i \in DOMAIN lines}
  IN /\ \A s, t \in written : SameTags(s, t) => SeriesKey(s) = SeriesKey(t)
     /\ Kept(lines, [tables |-> tables, shed |-> shedSeries])

\* Every datagram counts once, as accepted if anything in it was, whoever reads it.
DatagramsAreCounted ==
  LET good == {i \in DOMAIN taken : Parsed(taken[i]) # <<>>} IN
  /\ counted.accepted = Cardinality(good)
  /\ counted.dropped = Len(taken) - Cardinality(good) + readErrors

\* A Stop that did not give up leaves neither a goroutine nor a socket, and no channel is
\* closed twice, whatever was enabled and disabled before.
StopIsComplete ==
  ~overdue => /\ ~panicked
              /\ ~statsd.started /\ statsd.stop = "no" =>
                   openConns = {} /\ \A g \in Listens : reader[g].at \in {"unborn", "gone"}

DatagramsBecomeSeries == MeasuresAreKept /\ DatagramsAreCounted /\ StopIsComplete

=============================================================================
