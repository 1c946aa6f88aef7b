----------------------------- MODULE Collectors -----------------------------
(***************************************************************************)
(* The goroutine each collector module owns (under internal/modules), the  *)
(* guarded call in which it sweeps the host (internal/guard), and the      *)
(* calls the supervisor makes into the module meanwhile.                   *)
(*                                                                         *)
(* A sweep runs on a goroutine of its own, for Go cannot cancel it: the    *)
(* loop waits for its result or its deadline, and a sweep that outlives    *)
(* the deadline goes on over the state the next sweep would use.  The      *)
(* modules answer that differently, so `kind' says which of them a         *)
(* behaviour is about; it never changes.                                   *)
(*                                                                         *)
(* Abstractions.  Timers fire at any moment.  Settings are versions.  The  *)
(* host and httpcheck modules have one source, for each source is swept    *)
(* alike.  Of a sweep the model keeps how it ends.                         *)
(***************************************************************************)
EXTENDS Naturals, FiniteSets

CONSTANTS
  Kinds,       \* the collectors a run is about
  MaxStarts,   \* bound: how often the supervisor starts the module
  MaxSweeps,   \* bound: sweeps that exist at once
  MaxVersion   \* bound: the last version of the settings

Collector == {"process", "discovery", "host", "logs", "httpcheck", "container"}

ASSUME CollectorAssumption ==
  /\ Kinds \subseteq Collector
  /\ {MaxStarts, MaxSweeps, MaxVersion} \subseteq Nat

Gen == 1..MaxStarts
Sweep == 1..MaxSweeps
Version == 0..MaxVersion

VARIABLES
  kind,       \* the collector
  mod,        \* the fields of its Module
  health,     \* what Health would report of the last recorded sweep
  loop,       \* loop[g]: the goroutine the g-th Start launched
  cancelled,  \* the goroutines whose context is cancelled
  sweep,      \* sweep[w]: a worker of guard.Call
  stop,       \* the goroutine the supervisor's Stop waits for, 0 if none
  timedOut    \* a Stop returned at its deadline, its goroutine still alive

vars == <<kind, mod, health, loop, cancelled, sweep, stop, timedOut>>

NoSweep == 0
NoGen == 0
Idle == [state |-> "idle", gen |-> NoGen]
Unborn == [pc |-> "unborn", sweep |-> NoSweep]

Init ==
  /\ kind \in Kinds
  /\ mod = [started |-> FALSE, cancel |-> NoGen, stalled |-> FALSE, settled |-> NoSweep,
            settings |-> 0, staged |-> NoGen, emitter |-> 0, signal |-> FALSE]
  /\ health = "none"
  /\ loop = [g \in Gen |-> Unborn]
  /\ cancelled = {}
  /\ sweep = [w \in Sweep |-> Idle]
  /\ stop = NoGen
  /\ timedOut = FALSE

Launched == {g \in Gen : loop[g].pc # "unborn"}
Sweeping == {w \in Sweep : sweep[w].state = "sweeping"}
Overdue(w) == w # NoSweep /\ sweep[w].state = "sweeping"
Awaited(w) == w = mod.settled \/ \E g \in Gen : loop[g].sweep = w

At(g, pc) == loop[g].pc = pc
GoTo(g, pc) == loop' = [loop EXCEPT ![g] = [pc |-> pc, sweep |-> NoSweep]]

\* The sweeps once nobody but g looks at sweep w: it is gone if it has finished.
Released(w, g) ==
  IF w = NoSweep \/ Overdue(w) \/ \E f \in Gen \ {g} : loop[f].sweep = w
    THEN sweep
    ELSE [sweep EXCEPT ![w] = Idle]

(***************************************************************************)
(* guard.Call.                                                             *)
(***************************************************************************)
\* Call starts fn on a goroutine of its own, and waits.
Call(g) ==
  LET free == {w \in Sweep : sweep[w].state # "sweeping" /\ \A f \in Gen : loop[f].sweep # w}
      w == CHOOSE w \in free : \A u \in free : w <= u
  IN
    /\ free # {}
    /\ sweep' = [sweep EXCEPT ![w] = [state |-> "sweeping", gen |-> g]]
    /\ loop' = [loop EXCEPT ![g] = [pc |-> "calling", sweep |-> w]]

\* fn returns, with an error or without, or panics; it may be long after the deadline.
SweepReturns(w) ==
  /\ w \in Sweeping
  /\ \E s \in {"ok", "failed"} \cup IF kind = "process" THEN {"panicked"} ELSE {} :
       sweep' = [sweep EXCEPT ![w] = IF Awaited(w) THEN [@ EXCEPT !.state = s] ELSE Idle]
  /\ UNCHANGED <<kind, mod, health, loop, cancelled, stop, timedOut>>

\* A result is at hand: it is taken, though the deadline may have passed too.
Result(g, s) == At(g, "calling") /\ sweep[loop[g].sweep].state = s
Returned(g) == At(g, "calling") /\ ~Overdue(loop[g].sweep)

\* The context is done, at its deadline or by Stop, and there is no result.
Expired(g) == At(g, "calling") /\ Overdue(loop[g].sweep)
DeadlineExceeded(g) == Expired(g)
Canceled(g) == Expired(g) /\ g \in cancelled

(***************************************************************************)
(* The process module keeps the settled channel of every call, whatever    *)
(* ended the wait, and starts no sweep before it is closed.                *)
(***************************************************************************)
CollectProcess(g) ==
  /\ kind = "process" /\ At(g, "due")
  /\ IF Overdue(mod.settled)
       THEN GoTo(g, "waiting") /\ UNCHANGED <<mod, sweep>>
       ELSE /\ mod' = [mod EXCEPT !.settled = NoSweep, !.stalled = FALSE]
            /\ Call(g)
  /\ UNCHANGED <<kind, health, cancelled, stop, timedOut>>

\* The wait is over before the sweep: the deadline is decided, the outcome not yet looked at.
ExpireProcess(g) ==
  /\ kind = "process" /\ Expired(g)
  /\ mod' = [mod EXCEPT !.settled = loop[g].sweep]
  /\ loop' = [loop EXCEPT ![g].pc = "expired"]
  /\ UNCHANGED <<kind, health, cancelled, sweep, stop, timedOut>>

Outcome(g) == sweep[loop[g].sweep].state
OutcomeAtHand(g) == Outcome(g) \in {"ok", "failed"}

\* A sweep that panicked leaves no outcome and counts as one that has not returned.
RecordProcess(g) ==
  /\ kind = "process"
  /\ Returned(g) \/ At(g, "expired")
  /\ IF OutcomeAtHand(g)
       THEN /\ mod' = [mod EXCEPT !.settled = NoSweep, !.stalled = FALSE]
            /\ sweep' = Released(loop[g].sweep, g)
       ELSE /\ mod' = [mod EXCEPT !.settled = loop[g].sweep, !.stalled = TRUE]
            /\ UNCHANGED sweep
  /\ health' = IF Outcome(g) = "ok" THEN "ok" ELSE "failing"
  /\ GoTo(g, "waiting")
  /\ UNCHANGED <<kind, cancelled, stop, timedOut>>

\* Bug: a reconfiguration that finds a sweep overdue is taken for handled.
ReconfigureBeforeSignal(g) ==
  /\ kind = "process" /\ At(g, "waiting") /\ mod.signal
  /\ mod' = [mod EXCEPT !.signal = FALSE]
  /\ GoTo(g, IF Overdue(mod.settled) THEN "waiting" ELSE "settling")
  /\ UNCHANGED <<kind, health, cancelled, sweep, stop, timedOut>>

\* A new configuration waits for the sweep that is still out, and not for the context.
ReconfigureProcess(g) ==
  /\ kind = "process" /\ At(g, "waiting") /\ mod.signal
  /\ mod' = [mod EXCEPT !.signal = FALSE]
  /\ GoTo(g, "settling")
  /\ UNCHANGED <<kind, health, cancelled, sweep, stop, timedOut>>

AwaitSettled == ~Overdue(mod.settled)

ApplyProcess(g) ==
  /\ kind = "process" /\ At(g, "settling")
  /\ AwaitSettled
  /\ mod' = [mod EXCEPT !.settled = NoSweep, !.stalled = IF mod.settled = NoSweep THEN @ ELSE FALSE,
                        !.emitter = mod.settings]
  /\ sweep' = Released(mod.settled, g)
  /\ GoTo(g, "due")
  /\ UNCHANGED <<kind, health, cancelled, stop, timedOut>>

(***************************************************************************)
(* The discovery module, and the host module per source, keep the settled  *)
(* channel of a call that met its deadline, and of no other.               *)
(***************************************************************************)
\* Bug: the slot of an overdue sweep is not held.
CollectAnyway(g) ==
  /\ At(g, "due")
  /\ mod' = [mod EXCEPT !.stalled = FALSE, !.settled = NoSweep]
  /\ Call(g)
  /\ UNCHANGED <<kind, health, cancelled, stop, timedOut>>

CollectUnlessStalled(g) ==
  /\ At(g, "due")
  /\ IF mod.stalled /\ Overdue(mod.settled)
       THEN GoTo(g, "waiting") /\ UNCHANGED <<mod, sweep>>
       ELSE /\ mod' = [mod EXCEPT !.stalled = FALSE, !.settled = NoSweep]
            /\ Call(g)
  /\ UNCHANGED <<kind, health, cancelled, stop, timedOut>>

CollectDiscovery(g) == kind = "discovery" /\ CollectUnlessStalled(g)
CollectHost(g) == kind = "host" /\ CollectUnlessStalled(g)

Recorded(g) ==
  /\ Returned(g)
  /\ health' = IF Result(g, "ok") THEN "ok" ELSE "failing"
  /\ sweep' = Released(loop[g].sweep, g)
  /\ GoTo(g, "waiting")
  /\ UNCHANGED <<kind, mod, cancelled, stop, timedOut>>

Stalled(w) ==
  /\ mod' = [mod EXCEPT !.stalled = TRUE, !.settled = w]
  /\ UNCHANGED sweep

ExpireDiscovery(g) ==
  /\ kind = "discovery"
  /\ \/ DeadlineExceeded(g) /\ Stalled(loop[g].sweep)
     \/ Canceled(g) /\ UNCHANGED <<mod, sweep>>
  /\ health' = "failing"
  /\ GoTo(g, "waiting")
  /\ UNCHANGED <<kind, cancelled, stop, timedOut>>

\* Bug: the source is suspended before its outcome is recorded.
MarkStalledUnrecorded(g) ==
  /\ kind = "host" /\ DeadlineExceeded(g)
  /\ Stalled(loop[g].sweep)
  /\ GoTo(g, "waiting")
  /\ UNCHANGED <<kind, health, cancelled, stop, timedOut>>

MarkStalled(g) ==
  /\ kind = "host"
  /\ \/ DeadlineExceeded(g) /\ Stalled(loop[g].sweep)
     \/ Canceled(g) /\ UNCHANGED <<mod, sweep>>
  /\ health' = "failing"
  /\ GoTo(g, "waiting")
  /\ UNCHANGED <<kind, cancelled, stop, timedOut>>

RecordDiscovery(g) == kind = "discovery" /\ Recorded(g)
FinishHost(g) == kind = "host" /\ Recorded(g)

\* The new settings go to the emitter at once, whatever sweep is still out.
Reconfigured(g) ==
  /\ At(g, "waiting") /\ mod.signal
  /\ mod' = [mod EXCEPT !.signal = FALSE, !.emitter = mod.settings]
  /\ GoTo(g, "due")
  /\ UNCHANGED <<kind, health, cancelled, sweep, stop, timedOut>>

ReconfigureDiscovery(g) == kind = "discovery" /\ Reconfigured(g)
ReconfigureHost(g) == kind = "host" /\ Reconfigured(g)

(***************************************************************************)
(* The logs and httpcheck modules drop the settled channel: after a        *)
(* deadline the next sweep starts beside the one that is still out, and    *)
(* its result is nobody's.  They read their settings at every sweep.       *)
(***************************************************************************)
CollectLogs(g) ==
  /\ kind = "logs" /\ At(g, "due")
  /\ Call(g)
  /\ mod' = [mod EXCEPT !.emitter = mod.settings]
  /\ UNCHANGED <<kind, health, cancelled, stop, timedOut>>

ProbeAll(g) ==
  /\ kind = "httpcheck" /\ At(g, "due")
  /\ Call(g)
  /\ mod' = [mod EXCEPT !.emitter = mod.settings]
  /\ UNCHANGED <<kind, health, cancelled, stop, timedOut>>

ProbeOne(g) ==
  /\ kind \in {"logs", "httpcheck"}
  /\ \/ Recorded(g)
     \/ /\ Expired(g)
        /\ health' = "failing"
        /\ GoTo(g, "waiting")
        /\ UNCHANGED <<kind, mod, cancelled, sweep, stop, timedOut>>

ReconfigureLogs(g) ==
  /\ kind \in {"logs", "httpcheck"} /\ At(g, "waiting") /\ mod.signal
  /\ mod' = [mod EXCEPT !.signal = FALSE]
  /\ GoTo(g, "due")
  /\ UNCHANGED <<kind, health, cancelled, sweep, stop, timedOut>>

(***************************************************************************)
(* The container module sweeps on its own goroutine, with no deadline.     *)
(***************************************************************************)
CollectContainer(g) ==
  /\ kind = "container" /\ At(g, "due")
  /\ Call(g)
  /\ UNCHANGED <<kind, mod, health, cancelled, stop, timedOut>>

CollectedContainer(g) == kind = "container" /\ Recorded(g)

(***************************************************************************)
(* The rest of the loop: of the ready arms of its select Go takes any.     *)
(***************************************************************************)
\* The timer was set when the loop began to wait, and is never due at once.
Due(g) ==
  /\ At(g, "waiting") /\ g \notin cancelled
  /\ GoTo(g, "due")
  /\ UNCHANGED <<kind, mod, health, cancelled, sweep, stop, timedOut>>

Leave(g) ==
  /\ At(g, "waiting") /\ g \in cancelled
  /\ GoTo(g, "gone")
  /\ UNCHANGED <<kind, mod, health, cancelled, sweep, stop, timedOut>>

(***************************************************************************)
(* The supervisor's calls.  It waits for a Stop to return before it calls  *)
(* Start again; a Stop returns at its deadline though the goroutine does   *)
(* not.  A reload stages settings, then commits them or takes them back.   *)
(***************************************************************************)
\* Start takes the settings of the supervisor's configuration and makes a new emitter,
\* channel and goroutine; what is left of an overdue sweep stays in the module.
Start(g, v) ==
  /\ stop = NoGen /\ ~mod.started /\ v >= mod.settings
  /\ At(g, "unborn") /\ \A f \in Gen : f < g => f \in Launched
  /\ mod' = [mod EXCEPT !.started = TRUE, !.cancel = g, !.settings = v, !.emitter = v, !.signal = FALSE]
  /\ GoTo(g, "due")
  /\ UNCHANGED <<kind, health, cancelled, sweep, stop, timedOut>>

StartProcess(g, v) == kind = "process" /\ Start(g, v)
StartDiscovery(g, v) == kind = "discovery" /\ Start(g, v)
StartHost(g, v) == kind = "host" /\ Start(g, v)
StartLogs(g, v) == kind = "logs" /\ Start(g, v)
StartHttpcheck(g, v) == kind = "httpcheck" /\ Start(g, v)
StartContainer(g, v) == kind = "container" /\ Start(g, v)

Stop ==
  /\ stop = NoGen /\ mod.cancel # NoGen
  /\ cancelled' = cancelled \cup {mod.cancel}
  /\ stop' = mod.cancel
  /\ mod' = [mod EXCEPT !.cancel = NoGen, !.started = FALSE]
  /\ UNCHANGED <<kind, health, loop, sweep, timedOut>>

StopProcess == kind = "process" /\ Stop
StopDiscovery == kind = "discovery" /\ Stop
StopHost == kind = "host" /\ Stop
StopLogs == kind = "logs" /\ Stop
StopHttpcheck == kind = "httpcheck" /\ Stop
StopContainer == kind = "container" /\ Stop

StopReturns ==
  /\ stop # NoGen
  /\ timedOut' = (timedOut \/ ~At(stop, "gone"))
  /\ stop' = NoGen
  /\ UNCHANGED <<kind, mod, health, loop, cancelled, sweep>>

PrepareConfig(v) ==
  /\ kind # "container" /\ v > mod.settings
  /\ mod' = [mod EXCEPT !.staged = v]
  /\ UNCHANGED <<kind, health, loop, cancelled, sweep, stop, timedOut>>

\* The channel holds one signal, and there is none before the first Start.
Signal == mod.signal \/ Launched # {}

CommitConfig ==
  /\ mod.staged # NoGen
  /\ mod' = [mod EXCEPT !.settings = mod.staged, !.staged = NoGen, !.signal = Signal]
  /\ UNCHANGED <<kind, health, loop, cancelled, sweep, stop, timedOut>>

CommitProcess == kind = "process" /\ CommitConfig
CommitDiscovery == kind = "discovery" /\ CommitConfig
CommitHost == kind = "host" /\ CommitConfig
CommitLogs == kind = "logs" /\ CommitConfig
CommitHttpcheck == kind = "httpcheck" /\ CommitConfig

RollbackConfig ==
  /\ mod.staged # NoGen
  /\ mod' = [mod EXCEPT !.staged = NoGen]
  /\ UNCHANGED <<kind, health, loop, cancelled, sweep, stop, timedOut>>

\* Only the process, discovery and host modules wake their loop for a new pressure.
Throttle ==
  /\ kind \in {"process", "discovery", "host"}
  /\ mod' = [mod EXCEPT !.signal = Signal]
  /\ UNCHANGED <<kind, health, loop, cancelled, sweep, stop, timedOut>>

(***************************************************************************)
LoopStep(g) ==
  \/ CollectProcess(g) \/ ExpireProcess(g) \/ RecordProcess(g) \/ ApplyProcess(g)
  \/ CollectDiscovery(g) \/ ExpireDiscovery(g) \/ RecordDiscovery(g)
  \/ CollectHost(g) \/ MarkStalled(g) \/ FinishHost(g)
  \/ CollectLogs(g) \/ ProbeAll(g) \/ ProbeOne(g)
  \/ CollectContainer(g) \/ CollectedContainer(g)
  \/ Due(g)

Reconfigure(g) ==
  ReconfigureProcess(g) \/ ReconfigureDiscovery(g) \/ ReconfigureHost(g) \/ ReconfigureLogs(g)

SupervisorStep ==
  \/ \E g \in Gen, v \in Version :
       \/ StartProcess(g, v) \/ StartDiscovery(g, v) \/ StartHost(g, v)
       \/ StartLogs(g, v) \/ StartHttpcheck(g, v) \/ StartContainer(g, v)
  \/ StopProcess \/ StopDiscovery \/ StopHost \/ StopLogs \/ StopHttpcheck \/ StopContainer
  \/ StopReturns
  \/ \E v \in Version : PrepareConfig(v)
  \/ CommitProcess \/ CommitDiscovery \/ CommitHost \/ CommitLogs \/ CommitHttpcheck
  \/ RollbackConfig
  \/ Throttle

Next ==
  \/ \E g \in Gen : LoopStep(g) \/ Reconfigure(g) \/ Leave(g)
  \/ \E w \in Sweep : SweepReturns(w)
  \/ SupervisorStep

Spec == Init /\ [][Next]_vars

\* A goroutine that can run does, a sweep returns in the end, and of the ready arms of a
\* select none is passed over for ever: Go takes one of them at random.
Fairness ==
  /\ \A g \in Gen : SF_vars(LoopStep(g))
  /\ SF_vars(\E g \in Gen : Reconfigure(g))
  /\ \A w \in Sweep : WF_vars(SweepReturns(w))

(***************************************************************************)
(* Properties.                                                             *)
(***************************************************************************)
\* A sweep owns the module's tables and emitter while it runs (process.go:36-41, 325-326,
\* discovery.go:36-41, host.go:376-379).  As long as every Stop returned because its goroutine
\* had, a goroutine that is not told to end never starts a sweep beside one of its own, and in
\* the process module no sweep runs beside another at all.
OneSweep ==
  ~timedOut =>
    /\ kind \in {"process", "discovery", "host", "container"} =>
         \A v, w \in Sweeping : sweep[v].gen = sweep[w].gen => v = w \/ sweep[v].gen \in cancelled
    /\ kind = "process" => Cardinality(Sweeping) <= 1

\* A module whose sweep is overdue is not reported healthy: whatever happened since, the last
\* report is of a failure, until the sweep has returned and another has succeeded
\* (process.go:382-388, host.go:598-641).
OverdueIsTold ==
  ~timedOut /\ mod.stalled => health = "failing"

\* The emitter of the process module gets new settings from its goroutine only while no sweep
\* is running, also one that outlived its deadline (process.go:281-286).
EmitterIsQuiet ==
  kind = "process" /\ ~timedOut /\ mod'.emitter # mod.emitter /\ mod.started /\ mod'.started
    => Sweeping = {}

\* What a sweep uses while it runs is its own: the tables, and the emitter's settings.
SweepOwnsModule == [][OneSweep' /\ EmitterIsQuiet]_vars

\* Settings that were committed reach the emitter, however many signals were folded into the
\* one the channel holds, and however long a sweep overran (process.go:676-700).
CommitTakesEffect ==
  (mod.started /\ mod.settings # mod.emitter) ~> (~mod.started \/ mod.settings = mod.emitter)

=============================================================================
