------------------------------ MODULE Containers ------------------------------
(***************************************************************************)
(* The container module (internal/modules/container): every interval its   *)
(* loop walks the cgroups for containers, reads the meters of each, sets   *)
(* one gauge per runtime and, if asked to, series per container, and       *)
(* retires the series of those that are gone.  Containers start, stop and  *)
(* restart under their id at any moment, also between the walk and a read. *)
(*                                                                         *)
(* The meters are cumulative: CPU time and the bytes received, which stand *)
(* for those sent as well.  CPU time is shown as what was burned since the *)
(* last reading, time being the same for all: for a meter that cannot be   *)
(* read, the code divides the -1 of the failure by a thousand and reads 0. *)
(***************************************************************************)
EXTENDS Integers, FiniteSets, FiniteSetsExt

CONSTANTS
  Container,     \* short ids
  RuntimeOf,     \* the runtime a container's cgroup is named after
  HostNetwork,   \* containers in the host's network namespace
  MaxContainers, \* Settings.Max
  MaxWork, MaxRounds  \* bounds: what all meters together count up to; cycles

\* Short ids have a fixed length, so that there are finitely many.
ASSUME ContainersAssumption ==
  /\ IsFiniteSet(Container) /\ "emit" \notin Container /\ HostNetwork \subseteq Container
  /\ MaxContainers \in Nat \ {0}

VARIABLES
  settings,  \* perContainer
  box,       \* the containers: [up, cpu, net], and made: all that was ever burned and received
  round,     \* cycles so far
  toRead,    \* the containers of this cycle's walk still to be read; "emit" ends the cycle
  samples,   \* what this cycle has read: container -> [cpu: what was burned, -1 if unknown,
             \* known: whether its meter was read, net: a reading]
  lastCPU,   \* the package's lastCPU: what the meter showed, -1 if there is none
  lastNet,   \* Module.lastNet, the last reading: what the meter showed, and made at that time
  emittedIDs,
  running,   \* the gauge container.running: runtime -> number, for those that were set
  series,    \* the containers whose memory series stands
  shown      \* the traffic last told of a container, and what it really was

boxVars == <<settings, box, round, toRead, samples, lastCPU, lastNet, emittedIDs, running, series, shown>>

Meters == {"cpu", "net"}
NoReading == [count |-> -1, made |-> 0]
NoSamples == [c \in {} |-> {}]

ContainersInit ==
  /\ settings \in [perContainer : BOOLEAN]
  /\ box = [c \in Container |-> [up |-> FALSE, count |-> [m \in Meters |-> 0], made |-> [m \in Meters |-> 0]]]
  /\ round = 0 /\ toRead = {} /\ samples = NoSamples
  /\ lastCPU = [c \in Container |-> -1] /\ lastNet = [c \in Container |-> NoReading]
  /\ emittedIDs = {} /\ running = [r \in {} |-> 0] /\ series = {}
  /\ shown = [c \in Container |-> [told |-> 0, real |-> 0]]

-----------------------------------------------------------------------------
(* The host. *)

\* A container starts, or starts again under its id: its meters start from zero.
StartContainer ==
  /\ \E c \in Container :
       /\ ~box[c].up
       /\ box' = [box EXCEPT ![c].up = TRUE, ![c].count = [m \in Meters |-> 0]]
  /\ UNCHANGED <<settings, round, toRead, samples, lastCPU, lastNet, emittedIDs, running, series, shown>>

StopContainer ==
  /\ \E c \in Container : box[c].up /\ box' = [box EXCEPT ![c].up = FALSE]
  /\ UNCHANGED <<settings, round, toRead, samples, lastCPU, lastNet, emittedIDs, running, series, shown>>

Worked == MapThenSumSet(LAMBDA cm : box[cm[1]].made[cm[2]], Container \X Meters)

\* (What the machine's own interfaces count is no container's.)
Work ==
  /\ \E c \in Container, m \in Meters :
       /\ box[c].up /\ Worked < MaxWork
       /\ m = "net" => c \notin HostNetwork
       /\ box' = [box EXCEPT ![c].count[m] = @ + 1, ![c].made[m] = @ + 1]
  /\ UNCHANGED <<settings, round, toRead, samples, lastCPU, lastNet, emittedIDs, running, series, shown>>

-----------------------------------------------------------------------------
(* readSamples. *)

Up == {c \in Container : box[c].up}
Resting == toRead = {} /\ samples = NoSamples

\* The walk stops at the limit; in a walk that finds nothing there is nothing to read.
Walk ==
  /\ Resting /\ round < MaxRounds
  /\ round' = round + 1
  /\ \E W \in SUBSET Up :
       /\ Cardinality(W) = IF Cardinality(Up) < MaxContainers THEN Cardinality(Up) ELSE MaxContainers
       /\ toRead' = W \cup {"emit"}
  /\ UNCHANGED <<settings, box, samples, lastCPU, lastNet, emittedIDs, running, series, shown>>

\* What a meter has counted since its last reading; nothing at the first one, nor after a restart.
Elapsed(last, now) == IF last < 0 \/ now < last THEN -1 ELSE now - last

Reading(c) == [count |-> box[c].count["net"], made |-> box[c].made["net"]]

\* readCPUUsage: the failure of both files comes out as nothing burned, not as unknown.
CpuUsage(c, known) == IF known THEN box[c].count["cpu"] ELSE 0

\* One of the first processes of the cgroup shows the interfaces, or none can be read; those
\* of the host's namespace are the machine's.
NetReadings(c) == IF c \in HostNetwork THEN {NoReading} ELSE {NoReading, Reading(c)}

\* The cgroup of a container that has gone is not found again.
ReadContainer ==
  /\ \E c \in toRead \ {"emit"} :
       /\ toRead' = toRead \ {c}
       /\ IF box[c].up
          THEN \E known \in BOOLEAN, net \in NetReadings(c) :
                 /\ samples' = [d \in DOMAIN samples \cup {c} |->
                      IF d # c THEN samples[d]
                      ELSE [cpu |-> Elapsed(lastCPU[c], CpuUsage(c, known)), known |-> known, net |-> net]]
                 /\ lastCPU' = [lastCPU EXCEPT ![c] = CpuUsage(c, known)]
          ELSE UNCHANGED <<samples, lastCPU>>
  /\ UNCHANGED <<settings, box, round, lastNet, emittedIDs, running, series, shown>>

-----------------------------------------------------------------------------
(* collect: what is told of the samples. *)

Sampled == DOMAIN samples
CountOf(r) == Cardinality({c \in Sampled : RuntimeOf[c] = r})

\* The runtimes that were seen; with none of them, the runtime "none" has no containers.
RunningAfter ==
  LET seen == {RuntimeOf[c] : c \in Sampled} IN
  [r \in DOMAIN running \cup IF seen = {} THEN {"none"} ELSE seen |->
     IF r \in seen THEN CountOf(r) ELSE IF r = "none" /\ seen = {} THEN 0 ELSE running[r]]

\* Bug: nothing is retired.
RetiredNone == {}

\* The containers of the last cycle that this one has not sampled.
Retired == emittedIDs \ Sampled

\* emitNetDelta: a baseline at the first sight, a delta afterwards, neither for no reading.
NetDelta(c) ==
  IF samples[c].net = NoReading THEN -1 ELSE Elapsed(lastNet[c].count, samples[c].net.count)

EmitSamples ==
  /\ toRead = {"emit"}
  /\ toRead' = {} /\ samples' = NoSamples
  /\ running' = RunningAfter
  /\ IF settings.perContainer
     THEN /\ emittedIDs' = Sampled
          /\ series' = (series \cup Sampled) \ Retired
          /\ lastNet' = [c \in Container |->
               CASE c \in Retired -> NoReading
                 [] c \in Sampled -> IF samples[c].net = NoReading THEN lastNet[c] ELSE samples[c].net
                 [] OTHER -> lastNet[c]]
          /\ shown' = [c \in Container |->
               IF c \notin Sampled \/ NetDelta(c) < 0 THEN shown[c]
               ELSE [told |-> NetDelta(c), real |-> samples[c].net.made - lastNet[c].made]]
     ELSE UNCHANGED <<emittedIDs, series, lastNet, shown>>
  /\ UNCHANGED <<settings, box, round, lastCPU>>

ContainersNext ==
  \/ StartContainer \/ StopContainer \/ Work
  \/ Walk \/ ReadContainer \/ EmitSamples

-----------------------------------------------------------------------------
(* Properties. *)

\* The series that stand are those of the last cycle's containers: however many ids the host
\* goes through, no more than a cycle's worth; and no container in the host's namespace is
\* shown the machine's traffic.
SeriesAreThisCycles ==
  /\ series = emittedIDs
  /\ Cardinality(series) <= MaxContainers
  /\ \A c \in HostNetwork : lastNet[c] = NoReading

\* The traffic told of a container is what it has had since the reading before, never more:
\* a restart "must not read as negative traffic", nor a lifetime as one cycle's.
TrafficIsReal ==
  \A c \in Container : shown[c].told >= 0 /\ shown[c].told <= shown[c].real

\* What is told of containers is of those there are.
ContainersAreReal == SeriesAreThisCycles /\ TrafficIsReal

=============================================================================
