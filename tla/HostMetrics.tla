---------------------------- MODULE HostMetrics ----------------------------
(***************************************************************************)
(* What the host module (internal/modules/host) makes of its readers: the  *)
(* schedule of its one goroutine, the deltas it takes of the cumulative    *)
(* counters of disks and interfaces, the shares it computes of processor,  *)
(* memory and filesystem times, the entity it binds them to, its health.   *)
(* How a read overruns its deadline is the matter of module Collectors.    *)
(*                                                                         *)
(* Abstractions.  A device is a number and stands for its name, in the     *)
(* order names are sorted.  Of the counters of a device one is kept, for   *)
(* each has a key of its own.  Times are what is left of them.  Of what    *)
(* the processor is busy with two states are kept: iowait, which may fall, *)
(* and user, for user, system, steal and irq, which do not.                *)
(***************************************************************************)
EXTENDS Integers, FiniteSets, FiniteSetsExt

CONSTANTS
  Device,        \* the disks or interfaces of the host, numbers
  Readers,       \* the sets of sources a platform may have readers for
  HostSettings,  \* the settings an operator may write
  Pressure,      \* the factors throttling puts on an interval
  MaxInterval,   \* maxEffectiveInterval
  MaxCount,      \* bound: what a counter reaches, and gains between two reads
  MaxJiffies,    \* bound: what a time of the processor gains between two reads
  MaxReloads     \* bound: changes of settings, of pressure and starts

\* Settings have an interval for every source.
ASSUME HostAssumption ==
  /\ Device \subseteq Nat /\ Pressure \subseteq Nat \ {0}
  /\ \A h \in HostSettings : UNION Readers \subseteq DOMAIN h.interval
  /\ {MaxInterval, MaxCount, MaxJiffies, MaxReloads} \subseteq Nat \ {0}

Counted == {"disk", "network"}

VARIABLES
  has,        \* the sources of the platform
  device,     \* the devices of the host
  jiffies,    \* what the processor counted since the module's last read of it
  known,      \* the platform can resolve the host entity
  hostMod,    \* the fields of Module
  hostEm,     \* the settings and the entity of emitter
  prev,       \* counterState.prev: the baselines of the devices
  hasPrev,    \* cpuState.hasPrev
  due,        \* when each source is due
  wait,       \* what is left of the timer the goroutine sleeps on
  status,     \* status[s]: the last outcome of source s
  reloads,    \* bound: calls of the supervisor so far
  earned,     \* what each device counted since the last read it was kept in, -1 if in none
  sent,       \* the deltas the pass of the loop that just ended sent, and what was earned
  share       \* the shares it sent, and what iowait fell by meanwhile

hostVars == <<has, device, jiffies, known, hostMod, hostEm, prev, hasPrev, due, wait,
              status, reloads, earned, sent, share>>

Unearned == -1
\* What is used of a whole; a processor tells what user and iowait have of it too.
ShareOf(used, whole) == [part |-> used, user |-> 0, iowait |-> 0, fell |-> 0, whole |-> whole]
NoShare == ShareOf(0, 1)
NoJiffies == [user |-> 0, idle |-> 0, iowait |-> 0]

NothingSent == [d \in Device |-> [delta |-> 0, earned |-> Unearned, whole |-> FALSE]]
\* sent and share tell of a pass of the loop until the next step.
Silent == sent' = NothingSent /\ share' = NoShare

NewEmitter(s) ==
  [settings |-> s, bound |-> FALSE]

----------------------------------------------------------------------------
(* The host: devices count, are replaced, and the processor runs. *)

Count(d) ==
  /\ device[d].up /\ device[d].n < MaxCount /\ earned[d] < MaxCount
  /\ device' = [device EXCEPT ![d].n = @ + 1]
  /\ earned' = [earned EXCEPT ![d] = IF @ = Unearned THEN @ ELSE @ + 1]

Unplug(d) == device[d].up /\ device' = [device EXCEPT ![d] = [up |-> FALSE, n |-> 0, reset |-> TRUE]]
             /\ UNCHANGED earned
Appear(d) == ~device[d].up /\ device' = [device EXCEPT ![d].up = TRUE] /\ UNCHANGED earned

\* iowait is an estimate of the kernel and may fall.
Jiffy ==
  /\ "cpu" \in has
  /\ \E f \in {"user", "idle", "iowait"}, by \in {-1, 1} :
       /\ by = -1 => f = "iowait"
       /\ jiffies[f] + by \in -1..MaxJiffies
       /\ jiffies' = [jiffies EXCEPT ![f] = @ + by]

Resolvable == ~known /\ known' = TRUE

----------------------------------------------------------------------------
(* Schedule. *)

Collectable == {s \in has : s \notin hostMod.settings.off}

Shortest(a, b) == IF a < b THEN a ELSE b
Longest(a, b) == IF a > b THEN a ELSE b

EffectiveInterval(s) ==
  Longest(1, Shortest(MaxInterval, hostMod.settings.interval[s] * hostMod.pressure))

\* time.Minute, longer than any interval here
Minute == MaxInterval + 1

TimeUntilNext(left) ==
  IF Collectable = {} THEN Minute
  ELSE IF \E s \in Collectable : s \notin DOMAIN left THEN 0
  ELSE Min({left[s] : s \in Collectable})

DueNow == {s \in Collectable : s \notin DOMAIN due \/ due[s] = 0}

----------------------------------------------------------------------------
(* Readings, and what the emitter makes of them. *)

SelectBounded(ds, settings) ==
  LET filtered == {d \in ds : d \notin settings.exclude}
  IN {d \in filtered : Cardinality({e \in filtered : e <= d}) <= settings.max}

\* The change of an unsigned counter: it would wrap were it to go back.
Wrap == 16
\* (Of 64 bits; none goes all the way round between two reads.)
ASSUME WrapAssumption == MaxCount < Wrap

Increase(now, before) == (now - before) % Wrap

\* counterState.delta: 0 when none may be sent
Delta(d) ==
  IF d \notin DOMAIN prev \/ device[d].n < prev[d] THEN 0
  ELSE Increase(device[d].n, prev[d])

\* Mutant of Baselines: endCycle forgets no device.
BaselinesForever(observed) ==
  [d \in observed \cup DOMAIN prev |-> IF d \in observed THEN device[d].n ELSE prev[d]]

\* counterState.endCycle: a baseline is kept for what this cycle saw.
Baselines(observed) == [d \in observed |-> device[d].n]

\* A line that does not parse is left out: other devices may take its place under the limit.
ReadDisks == SUBSET {d \in Device : device[d].up}
\* The same of interfaces, whose values may also be unknown: some of those listed have one.
ReadInterfaces == SUBSET {d \in Device : device[d].up}

EmitDevices(listed, valued) ==
  LET kept == SelectBounded(listed, hostEm.settings) \cap valued
  IN /\ prev' = Baselines(kept)
     /\ sent' = [d \in Device |->
          [delta |-> IF d \in kept /\ ~hostEm.settings.muted THEN Delta(d) ELSE 0,
           earned |-> earned[d],
           whole |-> d \in kept /\ ~hostEm.settings.muted /\ ~device[d].reset]]
     /\ earned' = [d \in Device |-> IF d \in kept THEN 0 ELSE Unearned]
     /\ device' = [d \in Device |-> [device[d] EXCEPT !.reset = FALSE]]

EmitDisk == "disk" \in has /\ \E listed \in ReadDisks : EmitDevices(listed, listed)

EmitNetwork ==
  /\ "network" \in has
  /\ \E listed \in ReadInterfaces : \E valued \in SUBSET listed : EmitDevices(listed, valued)

\* cpuState.utilisation: a state that fell has no share, and the others are not cut to make up.
Utilisation ==
  LET sub(n) == IF n < 0 THEN 0 ELSE n
      span == jiffies.user + jiffies.idle + jiffies.iowait
  IN IF ~hasPrev \/ span <= 0 THEN NoShare
     ELSE [part |-> sub(span - sub(jiffies.idle)), user |-> sub(jiffies.user),
           iowait |-> sub(jiffies.iowait), fell |-> sub(-jiffies.iowait), whole |-> span]

EmitCPU ==
  /\ share' = Utilisation
  /\ hasPrev' = TRUE
  /\ jiffies' = NoJiffies

\* deriveMemory; -1 where the platform gives no value
DeriveMemory(m) ==
  IF m.available >= 0 /\ m.total >= m.available THEN m.total - m.available
  ELSE IF m.free >= 0
       THEN LET less(used, part) == IF part >= 0 /\ used >= part THEN used - part ELSE used
            IN less(less(m.total, m.free), m.cached)
  ELSE -1

\* A total there must be; the other lines a kernel may not have.
ReadMemory == [total : 1..2, available : -1..3, free : -1..3, cached : -1..2]

EmitMemory ==
  \E m \in ReadMemory :
    share' = IF DeriveMemory(m) < 0 THEN NoShare
             ELSE ShareOf(DeriveMemory(m), m.total)

\* filterFilesystems: a mount of no known size is left out
\* Used is known where free is no more than the whole; a mount that cannot be asked has no size.
ReadFilesystems ==
  {[total |-> blocks, used |-> IF blocks >= bfree THEN blocks - bfree ELSE -1] :
     blocks \in 0..2, bfree \in 0..3}

EmitFilesystems ==
  \E fs \in ReadFilesystems :
    share' = IF fs.total > 0 /\ fs.used >= 0 THEN ShareOf(fs.used, fs.total)
             ELSE NoShare

EmitSample(ok) ==
  /\ IF ok \cap Counted = {} THEN UNCHANGED <<device, earned, prev>> /\ sent' = NothingSent
     ELSE EmitDisk \/ EmitNetwork
  /\ IF "cpu" \in ok THEN EmitCPU ELSE UNCHANGED <<jiffies, hasPrev>>
  /\ \/ "memory" \in ok /\ EmitMemory
     \/ "filesystem" \in ok /\ EmitFilesystems
     \/ "cpu" \in ok
     \/ ok \cap {"memory", "filesystem", "cpu"} = {} /\ share' = NoShare

\* retryEntity, after the metadata of the host was read
RetryEntity(ok) == "os" \in ok /\ ~hostMod.entity /\ known

Finish(read, ok) ==
  status' = [s \in DOMAIN status |->
               IF s \in ok THEN "ok" ELSE IF s \in read THEN "failing" ELSE status[s]]

\* One pass of the loop: every source that is due is read, and the timer is set.
Wake ==
  /\ wait = 0
  /\ \E ok \in SUBSET DueNow :
       /\ Finish(DueNow, ok)
       /\ EmitSample(ok)
       /\ hostEm' = [hostEm EXCEPT !.bound = @ \/ RetryEntity(ok)]
       /\ hostMod' = [hostMod EXCEPT !.entity = @ \/ RetryEntity(ok)]
       /\ due' = [s \in DOMAIN due \cup Collectable |->
                    IF s \in DueNow THEN EffectiveInterval(s) ELSE due[s]]
       /\ wait' = TimeUntilNext(due')
  /\ UNCHANGED <<has, known, reloads>>

Tick ==
  /\ wait > 0
  /\ wait' = wait - 1
  /\ due' = [s \in DOMAIN due |-> IF due[s] = 0 THEN 0 ELSE due[s] - 1]
  /\ UNCHANGED <<has, device, jiffies, known, hostMod, hostEm, prev, hasPrev, status, reloads, earned>>
  /\ Silent

ApplyStagedToEmitter ==
  hostEm' = [hostEm EXCEPT !.settings = hostMod.settings, !.bound = hostMod.entity]

Reconfigured ==
  /\ hostMod.signal
  /\ hostMod' = [hostMod EXCEPT !.signal = FALSE]
  /\ ApplyStagedToEmitter
  /\ due' = [s \in DOMAIN due |-> 0]
  /\ wait' = 0
  /\ UNCHANGED <<has, device, jiffies, known, prev, hasPrev, status, reloads, earned>>
  /\ Silent

----------------------------------------------------------------------------
(* The supervisor's calls. *)

Calls == reloads < MaxReloads /\ reloads' = reloads + 1
Elsewhere == UNCHANGED <<has, device, jiffies, known, prev, hasPrev, due, wait, status, earned>> /\ Silent

\* 24h and the 4096 series, in the scale of an instance
LongestInterval == MaxInterval + 1
MostSeries == Cardinality(Device)

\* ParseSettings: what is out of its range is refused, with everything beside it.
Parses(s) ==
  /\ \A src \in DOMAIN s.interval : s.interval[src] \in 1..LongestInterval
  /\ s.max \in 1..MostSeries

HostPrepare ==
  /\ Calls
  /\ \E s \in HostSettings : Parses(s) /\ hostMod' = [hostMod EXCEPT !.staged = {s}]
  /\ UNCHANGED hostEm /\ Elsewhere

\* Mutant of HostCommit: the goroutine is not told.
HostCommitUntold ==
  /\ hostMod.staged # {}
  /\ hostMod' = [hostMod EXCEPT !.settings = CHOOSE s \in hostMod.staged : TRUE, !.staged = {}]
  /\ UNCHANGED <<hostEm, reloads>> /\ Elsewhere

HostCommit ==
  /\ hostMod.staged # {}
  /\ hostMod' = [hostMod EXCEPT !.settings = CHOOSE s \in hostMod.staged : TRUE,
                                !.staged = {}, !.signal = TRUE]
  /\ UNCHANGED <<hostEm, reloads>> /\ Elsewhere

HostRollback ==
  /\ hostMod.staged # {}
  /\ hostMod' = [hostMod EXCEPT !.staged = {}]
  /\ UNCHANGED <<hostEm, reloads>> /\ Elsewhere

HostThrottle ==
  /\ Calls
  /\ \E p \in Pressure :
       hostMod' = [hostMod EXCEPT !.pressure = p, !.signal = @ \/ p # hostMod.pressure]
  /\ UNCHANGED hostEm /\ Elsewhere

ResolveEntity(new) ==
  /\ hostMod' = [new EXCEPT !.entity = @ \/ known]
  /\ hostEm' = [NewEmitter(new.settings) EXCEPT !.bound = known]

\* Stop, which ended the goroutine, and a new Start.
HostRestart ==
  /\ Calls
  /\ \E s \in HostSettings : Parses(s) /\ ResolveEntity([hostMod EXCEPT !.settings = s, !.signal = FALSE])
  /\ prev' = <<>> /\ hasPrev' = FALSE
  /\ due' = [s \in {} |-> 0] /\ wait' = 0
  /\ earned' = [d \in Device |-> Unearned]
  /\ UNCHANGED <<has, device, jiffies, known, status>> /\ Silent

\* Health of the module
HostHealth ==
  LET failing == {s \in has : status[s] = "failing"}
      succeeding == {s \in has : status[s] = "ok"}
  IN IF has = {} \/ (failing # {} /\ succeeding = {}) THEN "unhealthy"
     ELSE IF failing # {} \/ ~hostMod.entity THEN "degraded" ELSE "healthy"

----------------------------------------------------------------------------
HostInit ==
  /\ has \in Readers
  /\ device = [d \in Device |-> [up |-> TRUE, n |-> 0, reset |-> FALSE]]
  /\ jiffies = NoJiffies
  /\ known \in IF "os" \in has THEN BOOLEAN ELSE {TRUE}
  /\ \E s \in HostSettings :
       /\ Parses(s)
       /\ hostMod = [settings |-> s, staged |-> {}, pressure |-> 1, signal |-> FALSE, entity |-> known]
       /\ hostEm = [NewEmitter(s) EXCEPT !.bound = known]
  /\ prev = <<>> /\ hasPrev = FALSE
  /\ due = [s \in {} |-> 0] /\ wait = 0
  /\ status = [s \in has |-> "none"]
  /\ reloads = 0
  /\ earned = [d \in Device |-> Unearned]
  /\ sent = NothingSent
  /\ share = NoShare

HostWorld ==
  \/ /\ has \cap Counted # {} /\ \E d \in Device : Count(d) \/ Unplug(d) \/ Appear(d)
     /\ UNCHANGED <<jiffies, known>>
  \/ Jiffy /\ UNCHANGED <<device, earned, known>>
  \/ Resolvable /\ UNCHANGED <<device, earned, jiffies>>

HostNext ==
  \/ HostWorld /\ UNCHANGED <<has, hostMod, hostEm, prev, hasPrev, due, wait, status, reloads>> /\ Silent
  \/ Wake \/ Tick \/ Reconfigured
  \/ HostPrepare \/ HostCommit \/ HostRollback \/ HostThrottle \/ HostRestart

HostSpec == HostInit /\ [][HostNext]_hostVars

----------------------------------------------------------------------------
\* counterState, selectBounded and the emitter's restart: a delta covers what the device counted
\* between two reads in a row that both kept it, all of it unless the device was replaced
\* meanwhile; never what it counted while it was excluded, over the limit, unknown or gone.
DeltasAreEarned ==
  \A d \in Device :
    /\ sent[d].delta <= Longest(0, sent[d].earned)
    /\ sent[d].whole => sent[d].delta = Longest(0, sent[d].earned)

\* Module.run, CommitConfig and Throttle: while it sleeps with no signal waiting, the goroutine has
\* every source it may collect on its schedule, none further away than the interval in force, and
\* wakes no later than the first of them.
SourcesAreOnTime ==
  wait > 0 /\ ~hostMod.signal =>
    \A s \in Collectable :
      s \in DOMAIN due /\ due[s] <= EffectiveInterval(s) /\ wait <= due[s]

\* utilisation, deriveMemory and filterFilesystems: what is used of a whole is a share of it,
\* whatever the readers return.  What the states of a processor have may be more than all of it,
\* but only where iowait fell, and then by no more than it fell.
SharesAreShares ==
  /\ share.part \in 0..share.whole
  /\ share.user >= 0 /\ share.iowait >= 0
  /\ share.user + share.iowait <= share.part + share.fell

\* What the module derives is what the host did.
FiguresAreTrue == DeltasAreEarned /\ SharesAreShares

\* Health, resolveEntity and retryEntity: a module that calls itself healthy binds what it sends
\* to the entity, and no source it has failed when last read.
HealthIsHonest ==
  HostHealth = "healthy" => hostEm.bound /\ \A s \in has : status[s] # "failing"

\* Settings and pressure change what is collected when, and no source is left behind unseen.
SourcesAreKept == SourcesAreOnTime /\ HealthIsHonest

=============================================================================
