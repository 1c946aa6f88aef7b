----------------------------- MODULE Supervisor -----------------------------
(***************************************************************************)
(* internal/supervisor: the agent's root lifecycle controller.             *)
(*                                                                         *)
(* Actors.  The agent's main goroutine runs Start, then any number of      *)
(* Reload calls, then Shutdown (agent.Run).  One control loop restarts     *)
(* failed modules and handles reported failures.  Every Start and Stop of  *)
(* a module runs on a goroutine of its own (an "op"), whose steps are      *)
(* interleaved with everything else; one action here is one critical       *)
(* section of Supervisor.mu or one call into a module or the capability    *)
(* runtime.                                                                *)
(*                                                                         *)
(* Abstractions.                                                           *)
(*  - Time: a pending retry is "waiting" until RetryDue makes it "due" at  *)
(*    an arbitrary moment; events leave the crash-loop window at arbitrary *)
(*    moments.  Deadlines expire only where Overrun allows it.             *)
(*  - A Start that overran its deadline is a Start that failed: the code   *)
(*    waits for it to return and then calls Stop, whatever it returned.    *)
(*  - The loop's ticker wakes it again and again, so that the wake channel *)
(*    and the retry timer only change latency; they are not state here.    *)
(*  - A module's configuration fragment is the number of the reload that   *)
(*    last changed it.  Health probing is HealthProbes'.                   *)
(*  - The process ends when main reaches "exited".                         *)
(***************************************************************************)
EXTENDS Integers, Sequences, FiniteSets, Functions

CONSTANTS
  Module,        \* the registered modules
  NoModule,      \* not a module
  Deps,          \* manifest dependencies of each module
  StartRank,     \* StartRank[E][m]: position of m in Resolve's order of the modules E
  RegRank,       \* position of m in registration order
  Configurable,  \* the modules that implement module.Configurable
  MaxRestarts,   \* agent.restart.max_restarts
  RestartEnabled,\* agent.restart.enabled
  QueueCap,      \* capacity of the failures channel (64 in the code)
  EarlyReports,  \* may a module report a failure before its start is recorded?
  Overrun,       \* may module calls outlive the deadlines of Shutdown and stopModule?
  BootSignal,    \* may a termination signal arrive while Start is running?
  CommitFails,   \* may CommitConfig fail?
  MaxFaults,     \* bound: failed, refused and unsupported starts, failed commits, reports
  MaxReloads     \* bound: configuration reloads

State == {"Registered", "Starting", "Running", "Stopping", "Stopped",
          "Failed", "CrashLooping", "Unsupported", "Disabled"}

Closed(E) == \A m \in E : Deps[m] \subseteq E

ASSUME ModuleAssumption == NoModule \notin Module
ASSUME DepsAssumption == Deps \in [Module -> SUBSET Module]
ASSUME RegRankAssumption ==
  /\ RegRank \in [Module -> Nat]
  /\ \A m, n \in Module : RegRank[m] = RegRank[n] => m = n
ASSUME StartRankAssumption ==
  /\ StartRank \in [SUBSET Module -> [Module -> Nat]]
  /\ \A E \in SUBSET Module : Closed(E) =>
       /\ \A m, n \in E : StartRank[E][m] = StartRank[E][n] => m = n
       /\ \A m \in E : \A d \in Deps[m] : StartRank[E][d] < StartRank[E][m]
ASSUME ParameterAssumption ==
  /\ Configurable \subseteq Module
  /\ MaxRestarts \in Nat /\ QueueCap \in Nat
  /\ MaxFaults \in Nat /\ MaxReloads \in Nat
  /\ {RestartEnabled, EarlyReports, Overrun, BootSignal, CommitFails} \subseteq BOOLEAN

VARIABLES
  runner,     \* supervisor.runner: the bookkeeping of each module, under Supervisor.mu
  op,         \* the goroutine holding a module's in-flight slot; "idle" is opInFlight = false
  mod,        \* the module itself: what it really runs, and which start created it
  mainStops,  \* Stop calls made by stopModule that have not returned yet
  admitted,   \* the capability runtime's active registrations
  releasing,  \* leases handed to a background release by finishStart
  graph,      \* the modules of the resolved dependency graph
  main,       \* the main goroutine
  cand,       \* the candidate configuration of the reload in progress
  loop,       \* the control loop: off, on or exited
  due,        \* the modules processDueRetries has still to claim
  failures,   \* the failures channel
  stopped,    \* Supervisor.stopped
  faults,     \* faults injected so far
  reloads     \* reloads begun so far

\* Groups of variables that most actions leave alone.
modules == <<mod, mainStops, admitted, releasing>>
control == <<graph, main, cand, loop, due>>
env == <<failures, stopped, faults, reloads>>

vars == <<runner, op, mod, mainStops, admitted, releasing, graph, main, cand, loop, due,
          failures, stopped, faults, reloads>>

-----------------------------------------------------------------------------
(* The lifecycle state machine and the graph. *)

Active(s) == s \in {"Starting", "Running", "Stopping"}

Allowed ==
  [ Registered   |-> {"Starting", "Disabled", "Stopped"},
    Starting     |-> {"Running", "Failed", "Unsupported", "Stopping"},
    Running      |-> {"Stopping", "Failed"},
    Stopping     |-> {"Stopped", "Failed"},
    Stopped      |-> {"Starting", "Disabled", "Failed"},
    Failed       |-> {"Starting", "CrashLooping", "Stopping", "Stopped", "Disabled"},
    CrashLooping |-> {"Starting", "Stopped", "Disabled", "Failed"},
    Unsupported  |-> {"Stopped", "Disabled"},
    Disabled     |-> {"Starting", "Stopped"} ]

CanTransition(from, to) == from = to \/ to \in Allowed[from]

Dependencies(m) == IF m \in graph THEN Deps[m] ELSE {}

\* The modules of every set that holds f and the direct dependents of its members.
TransitiveDependents(f) ==
  {m \in graph \ {f} :
     \A S \in SUBSET graph :
       (f \in S /\ \A n \in graph : Deps[n] \cap S # {} => n \in S) => m \in S}

FirstOf(m, S, rank) == m \in S /\ \A n \in S : rank[m] <= rank[n]

\* Bug: modules are stopped in start order.
LastOfForwards(m, S, rank) == m \in S /\ \A n \in S : rank[m] <= rank[n]

LastOf(m, S, rank) == m \in S /\ \A n \in S : rank[n] <= rank[m]

EnabledSet == {m \in Module : runner[m].enabled}

IdleOp == [pc |-> "idle", owner |-> "loop", gen |-> 0, frag |-> 0, lease |-> FALSE,
           result |-> "ok", rest |-> {}, within |-> {}, cause |-> NoModule]

InFlight(m) == op[m].pc # "idle"
MainWaits == \E m \in Module : InFlight(m) /\ op[m].owner = "main"
FaultLeft == faults < MaxFaults

-----------------------------------------------------------------------------
(* Register: every module is known before Start; a disabled one is Disabled. *)

NewRunner(on) ==
  [enabled |-> on, frag |-> 0, state |-> IF on THEN "Registered" ELSE "Disabled",
   lease |-> FALSE, window |-> 0, retry |-> "none", blocked |-> FALSE, gen |-> 0]

Init ==
  /\ \E E \in SUBSET Module : runner = [m \in Module |-> NewRunner(m \in E)]
  /\ op = [m \in Module |-> IdleOp]
  /\ mod = [m \in Module |-> [run |-> "down", gen |-> 0, frag |-> 0]]
  /\ mainStops = [m \in Module |-> 0]
  /\ admitted = {}
  /\ releasing = {}
  /\ graph = {}
  /\ main = [pc |-> "boot", todo |-> {}, enabling |-> {}, cur |-> NoModule, lease |-> FALSE]
  /\ cand = [enabled |-> {}, frag |-> [m \in Module |-> 0]]
  /\ loop = "off"
  /\ due = {}
  /\ failures = <<>>
  /\ stopped = FALSE
  /\ faults = 0
  /\ reloads = 0

-----------------------------------------------------------------------------
(* claimStart: the guards, the dependency check, and the claim itself. *)

Startable(m) ==
  /\ ~stopped
  /\ ~InFlight(m)
  /\ runner[m].enabled
  /\ CanTransition(runner[m].state, "Starting")

DependencyDown(m) == \E d \in Dependencies(m) : runner[d].state # "Running"

\* Bug: a module that waits for its dependency is not scheduled again.
BlockedForever(r) == [r EXCEPT !.state = "Failed", !.blocked = TRUE, !.retry = "none"]

\* The record of a module that waits for a dependency: uncharged, and retried.
Blocked(r) == [r EXCEPT !.state = "Failed", !.blocked = TRUE, !.retry = "waiting"]

Claimed(r) ==
  [r EXCEPT !.gen = @ + 1, !.blocked = FALSE, !.retry = "none", !.state = "Starting"]

StartOp(r, owner) ==
  [IdleOp EXCEPT !.pc = "admit", !.owner = owner, !.gen = r.gen + 1, !.frag = r.frag]

ClaimStart(m, owner) ==
  /\ Startable(m) /\ ~DependencyDown(m)
  /\ runner' = [runner EXCEPT ![m] = Claimed(@)]
  /\ op' = [op EXCEPT ![m] = StartOp(runner[m], owner)]

ClaimRefused(m) ==
  /\ \/ ~Startable(m) /\ UNCHANGED runner
     \/ Startable(m) /\ DependencyDown(m) /\ runner' = [runner EXCEPT ![m] = Blocked(@)]
  /\ UNCHANGED op

-----------------------------------------------------------------------------
(* Start, on the main goroutine. *)

Start ==
  /\ main.pc = "boot"
  /\ IF Closed(EnabledSet)
       THEN /\ graph' = EnabledSet
            /\ main' = [main EXCEPT !.pc = "bootStart", !.todo = EnabledSet]
       ELSE /\ main' = [main EXCEPT !.pc = "exited"]
            /\ UNCHANGED graph
  /\ UNCHANGED <<runner, op, modules, cand, loop, due, env>>

\* ctx is cancelled between two starts: Start returns, and agent.Run with it.
StartCancelled ==
  /\ BootSignal /\ main.pc = "bootStart" /\ main.todo # {} /\ ~MainWaits
  /\ main' = [main EXCEPT !.pc = "exited"]
  /\ UNCHANGED <<runner, op, modules, graph, cand, loop, due, env>>

\* startOnce of the next module in start order: it runs to finishStart, or is refused.
StartOnce(m) ==
  /\ main.pc \in {"bootStart", "reloadStart"} /\ ~MainWaits
  /\ FirstOf(m, main.todo, StartRank[graph])
  /\ \/ ClaimStart(m, "main") /\ UNCHANGED main
     \/ ClaimRefused(m) /\ main' = [main EXCEPT !.todo = @ \ {m}]
  /\ UNCHANGED <<modules, graph, cand, loop, due, env>>

LaunchLoop ==
  /\ main.pc = "bootStart" /\ main.todo = {}
  /\ loop' = "on"
  /\ main' = [main EXCEPT !.pc = "idle"]
  /\ UNCHANGED <<runner, op, modules, graph, cand, due, env>>

-----------------------------------------------------------------------------
(* runStart and finishStart, on the goroutine that claimed the start. *)

\* Admission: refused while the capability is still registered, or for a missing permission.
Admit(m) ==
  /\ op[m].pc = "admit"
  /\ \/ /\ m \notin admitted
        /\ admitted' = admitted \cup {m}
        /\ op' = [op EXCEPT ![m] = [@ EXCEPT !.pc = "start", !.lease = TRUE]]
        /\ UNCHANGED faults
     \/ /\ m \in admitted \/ FaultLeft
        /\ op' = [op EXCEPT ![m] = [@ EXCEPT !.pc = "finish", !.result = "error"]]
        /\ faults' = IF m \in admitted THEN faults ELSE faults + 1
        /\ UNCHANGED admitted
  /\ UNCHANGED <<runner, mod, mainStops, releasing, graph, main, cand, loop, due, failures, stopped, reloads>>

\* The module's Start returns.  A failed one may have acquired resources already.
StartReturns(m) ==
  /\ op[m].pc = "start"
  /\ \/ /\ op' = [op EXCEPT ![m].pc = "finish"]
        /\ mod' = [mod EXCEPT ![m] = [run |-> "up", gen |-> op[m].gen, frag |-> op[m].frag]]
        /\ UNCHANGED faults
     \/ /\ FaultLeft
        /\ faults' = faults + 1
        /\ \E res \in {"error", "unsupported"} :
             op' = [op EXCEPT ![m] = [@ EXCEPT !.pc = "clean", !.result = res]]
        /\ \E partial \in {"down", "up"} :
             mod' = [mod EXCEPT ![m] = [run |-> partial, gen |-> op[m].gen, frag |-> op[m].frag]]
  /\ UNCHANGED <<runner, mainStops, admitted, releasing, graph, main, cand, loop, due, failures, stopped, reloads>>

\* Bug: the lease of a failed start is kept.
CleanupKeepsLease(m) ==
  /\ op[m].pc = "clean"
  /\ mod' = [mod EXCEPT ![m].run = "down"]
  /\ op' = [op EXCEPT ![m] = [@ EXCEPT !.pc = "finish", !.lease = FALSE]]
  /\ UNCHANGED <<runner, mainStops, admitted, releasing, control, env>>

\* The cleanup Stop after a failed start has settled, and the lease is released.
CleanupReturns(m) ==
  /\ op[m].pc = "clean"
  /\ mod' = [mod EXCEPT ![m].run = "down"]
  /\ admitted' = admitted \ {m}
  /\ op' = [op EXCEPT ![m] = [@ EXCEPT !.pc = "finish", !.lease = FALSE]]
  /\ UNCHANGED <<runner, mainStops, releasing, control, env>>

\* failLocked: the outcomes for a record, over how many events left the window.
FailLocked(r) ==
  IF ~RestartEnabled
    THEN {[r EXCEPT !.state = "Failed"]}
    ELSE {IF k + 1 > MaxRestarts
            THEN [r EXCEPT !.window = k + 1, !.state = "CrashLooping"]
            ELSE [r EXCEPT !.window = k + 1, !.state = "Failed", !.retry = "waiting"]
            : k \in 0 .. r.window}

Recorded(m) ==
  CASE op[m].result = "ok" -> {[runner[m] EXCEPT !.state = "Running", !.lease = op[m].lease]}
    [] op[m].result = "unsupported" -> {[runner[m] EXCEPT !.state = "Unsupported"]}
    [] op[m].result = "error" -> FailLocked(runner[m])

\* Bug: the result of a superseded start is accepted.
NeverSuperseded(m) == FALSE

\* The module was stopped or restarted while this start was in flight.
Superseded(m) == op[m].gen # runner[m].gen

\* Bug: the lease of a discarded start is forgotten.
DiscardForgetsLease(m) == UNCHANGED releasing

DiscardLease(m) ==
  releasing' = IF op[m].lease THEN releasing \cup {m} ELSE releasing

FinishStart(m) ==
  /\ op[m].pc = "finish"
  /\ \/ /\ ~Superseded(m)
        /\ \E r \in Recorded(m) : runner' = [runner EXCEPT ![m] = r]
        /\ UNCHANGED releasing
     \/ /\ Superseded(m)
        /\ DiscardLease(m)
        /\ UNCHANGED runner
  /\ op' = [op EXCEPT ![m] = IdleOp]
  /\ main' = IF op[m].owner = "main" THEN [main EXCEPT !.todo = @ \ {m}] ELSE main
  /\ UNCHANGED <<mod, mainStops, admitted, graph, cand, loop, due, env>>

\* The background goroutine that releases the lease of a discarded start.
AsyncRelease(m) ==
  /\ m \in releasing
  /\ releasing' = releasing \ {m}
  /\ admitted' = admitted \ {m}
  /\ UNCHANGED <<runner, op, mod, mainStops, control, env>>

-----------------------------------------------------------------------------
(* The control loop. *)

\* The clock reaches a pending retry deadline.
RetryDue(m) ==
  /\ runner[m].retry = "waiting"
  /\ runner' = [runner EXCEPT ![m].retry = "due"]
  /\ UNCHANGED <<op, modules, control, env>>

\* processDueRetries takes the due modules under one lock and claims them under others.
LoopScan ==
  /\ loop = "on" /\ due = {} /\ ~stopped
  /\ due' = {m \in Module : /\ runner[m].state = "Failed" /\ ~InFlight(m)
                            /\ runner[m].retry = "due"}
  /\ due' # {}
  /\ UNCHANGED <<runner, op, modules, graph, main, cand, loop, env>>

LoopClaim(m) ==
  /\ loop = "on" /\ FirstOf(m, due, RegRank)
  /\ ClaimStart(m, "loop") \/ ClaimRefused(m)
  /\ due' = due \ {m}
  /\ UNCHANGED <<modules, graph, main, cand, loop, env>>

\* handleRuntimeFailure: a stale or unexpected report is dropped.
Current(f) ==
  /\ ~stopped /\ f.gen = runner[f.id].gen
  /\ runner[f.id].state = "Running" /\ ~InFlight(f.id)

HandleRuntimeFailure ==
  /\ loop = "on" /\ due = {} /\ failures # <<>>
  /\ failures' = Tail(failures)
  /\ LET f == Head(failures) IN
     \/ ~Current(f) /\ UNCHANGED <<runner, op>>
     \/ /\ Current(f)
        /\ runner' = [runner EXCEPT ![f.id] = [@ EXCEPT !.state = "Stopping", !.lease = FALSE]]
        /\ op' = [op EXCEPT ![f.id] =
                    [IdleOp EXCEPT !.pc = "deps", !.lease = runner[f.id].lease,
                                   !.rest = TransitiveDependents(f.id),
                                   !.within = graph]]
  /\ UNCHANGED <<modules, graph, main, cand, loop, due, stopped, faults, reloads>>

LoopExit ==
  /\ loop = "on" /\ due = {} /\ stopped
  /\ loop' = "exited"
  /\ UNCHANGED <<runner, op, modules, graph, main, cand, due, env>>

-----------------------------------------------------------------------------
(* The goroutine of a failed module f: it stops f's dependents one by one,  *)
(* then f, then schedules f's restart.                                      *)

\* The record of a module that is stopped: a start in flight is superseded, and the
\* lease goes to whoever stops it.
TakenDown(r) == [r EXCEPT !.gen = @ + 1, !.lease = FALSE, !.state = "Stopping"]

\* The dependents in stop order: the last started first.
NextDependent(f, m) ==
  /\ op[f].pc = "deps"
  /\ LastOf(m, op[f].rest, StartRank[op[f].within])

StopForDependency(f, m) ==
  /\ NextDependent(f, m)
  /\ ~(InFlight(m) /\ op[m].cause = f)
  /\ \/ /\ InFlight(m) \/ ~Active(runner[m].state)
        /\ op' = [op EXCEPT ![f].rest = @ \ {m}]
        /\ UNCHANGED runner
     \/ /\ ~InFlight(m) /\ Active(runner[m].state)
        /\ runner' = [runner EXCEPT ![m] = TakenDown(@)]
        /\ op' = [op EXCEPT ![m] = [IdleOp EXCEPT !.pc = "depStop", !.cause = f,
                                                  !.lease = runner[m].lease]]
  /\ UNCHANGED <<modules, control, env>>

\* The op of m ends, and the goroutine that asked for it goes on.
DependentOver(m) ==
  op' = [n \in Module |-> IF n = m THEN IdleOp
                          ELSE IF n = op[m].cause THEN [op[n] EXCEPT !.rest = @ \ {m}]
                          ELSE op[n]]

\* Bug: stopping a dependent is charged to its crash-loop budget.
DependentCharged(m) ==
  /\ op[m].pc = "depEnd"
  /\ \E r \in FailLocked(runner[m]) : runner' = [runner EXCEPT ![m] = r]
  /\ DependentOver(m)
  /\ UNCHANGED <<modules, control, env>>

\* The last lock section of stopForDependency.
DependentStopped(m) ==
  /\ op[m].pc = "depEnd"
  /\ runner' = [runner EXCEPT ![m] = Blocked(@)]
  /\ DependentOver(m)
  /\ UNCHANGED <<modules, control, env>>

FailedStop(f) ==
  /\ op[f].pc = "deps" /\ op[f].rest = {}
  /\ op' = [op EXCEPT ![f].pc = "failStop"]
  /\ UNCHANGED <<runner, modules, control, env>>

\* callStop on behalf of an op: Stop settles and the lease is released.
OpStopReturns(m) ==
  /\ op[m].pc \in {"depStop", "failStop"}
  /\ mod' = [mod EXCEPT ![m].run = "down"]
  /\ admitted' = IF op[m].lease THEN admitted \ {m} ELSE admitted
  /\ op' = [op EXCEPT ![m] = [@ EXCEPT !.lease = FALSE,
                                       !.pc = IF op[m].pc = "depStop" THEN "depEnd"
                                             ELSE "failEnd"]]
  /\ UNCHANGED <<runner, mainStops, releasing, control, env>>

FailedStopped(f) ==
  /\ op[f].pc = "failEnd"
  /\ \E r \in FailLocked(runner[f]) : runner' = [runner EXCEPT ![f] = r]
  /\ op' = [op EXCEPT ![f] = IdleOp]
  /\ UNCHANGED <<modules, control, env>>

\* A running module reports that it has failed; the send never blocks.
ReportFailure(m) ==
  /\ mod[m].run # "down" /\ FaultLeft
  /\ EarlyReports \/ (runner[m].state = "Running" /\ ~InFlight(m))
  /\ mod' = [mod EXCEPT ![m].run = "broken"]
  /\ failures' = IF Len(failures) < QueueCap
                   THEN Append(failures, [id |-> m, gen |-> mod[m].gen])
                   ELSE failures
  /\ faults' = faults + 1
  /\ UNCHANGED <<runner, op, mainStops, admitted, releasing, graph, main, cand, loop, due, stopped, reloads>>

-----------------------------------------------------------------------------
(* stopModule, on the main goroutine: Reload's stops and Shutdown's. *)

\* The record of a module at rest: stopped or disabled, with no restart pending.
AtRest(r, s) == [r EXCEPT !.retry = "none", !.state = s]

\* The first lock section.  An inactive module is only marked.
StopInactive(m) ==
  /\ ~Active(runner[m].state)
  /\ runner' = IF runner[m].state \in {"Disabled", "Unsupported"}
                 THEN runner
                 ELSE [runner EXCEPT ![m] = AtRest(@, "Stopped")]
  /\ UNCHANGED mainStops

StopActive(m) ==
  /\ Active(runner[m].state)
  /\ runner' = [runner EXCEPT ![m] = TakenDown(@)]
  /\ mainStops' = [mainStops EXCEPT ![m] = @ + 1]

MainStops(m) ==
  \/ main.pc = "reloadStop" /\ FirstOf(m, main.todo, RegRank)
  \/ main.pc = "stopAll" /\ LastOf(m, main.todo, StartRank[graph])

StopModule(m) ==
  /\ MainStops(m) /\ main.cur = NoModule
  /\ \/ /\ StopActive(m)
        /\ main' = [main EXCEPT !.cur = m, !.lease = runner[m].lease]
     \/ /\ StopInactive(m)
        /\ main' = IF main.pc = "stopAll"
                     THEN [main EXCEPT !.todo = @ \ {m}]
                     ELSE [main EXCEPT !.pc = "disable"]
  /\ UNCHANGED <<op, mod, admitted, releasing, graph, cand, loop, due, env>>

\* Bug: the return of a Stop is counted whether or not one was dispatched.
MainStopReturnsTwice(m) ==
  /\ main.cur = m
  /\ mainStops' = [mainStops EXCEPT ![m] = @ - 1]
  /\ mod' = [mod EXCEPT ![m].run = "down"]
  /\ UNCHANGED <<runner, op, admitted, releasing, control, env>>

\* A Stop dispatched by stopModule returns, possibly long after its deadline.
MainStopReturns(m) ==
  /\ mainStops[m] > 0
  /\ mainStops' = [mainStops EXCEPT ![m] = @ - 1]
  /\ mod' = [mod EXCEPT ![m].run = "down"]
  /\ UNCHANGED <<runner, op, admitted, releasing, control, env>>

\* Bug: stopModule waits until Stop has really returned.
StopSettled(m) == mainStops[m] = 0

StopWaitOver(m) == mainStops[m] = 0 \/ Overrun

\* callStop has returned, because Stop did or because its deadline passed.
StopModuleDone(m) ==
  /\ main.cur = m /\ m # NoModule
  /\ StopWaitOver(m)
  /\ admitted' = IF main.lease THEN admitted \ {m} ELSE admitted
  /\ runner' = [runner EXCEPT ![m] = AtRest(@, "Stopped")]
  /\ main' = IF main.pc = "stopAll"
               THEN [main EXCEPT !.cur = NoModule, !.lease = FALSE, !.todo = @ \ {m}]
               ELSE [main EXCEPT !.cur = NoModule, !.lease = FALSE, !.pc = "disable"]
  /\ UNCHANGED <<op, mod, mainStops, releasing, graph, cand, loop, due, env>>

-----------------------------------------------------------------------------
(* Reload, on the main goroutine. *)

\* Bug: only enabling and disabling counts as a change.
ChangedEnabled(m) == (m \in cand.enabled) # runner[m].enabled

Changed(m) ==
  \/ cand.frag[m] # runner[m].frag
  \/ (m \in cand.enabled) # runner[m].enabled

\* A candidate with an unresolvable graph is rejected before anything is touched.
ReloadRejected ==
  /\ main.pc = "idle" /\ reloads < MaxReloads
  /\ \E E \in SUBSET Module : ~Closed(E)
  /\ reloads' = reloads + 1
  /\ UNCHANGED <<runner, op, modules, graph, main, cand, loop, due, failures, stopped, faults>>

Reload ==
  /\ main.pc = "idle" /\ reloads < MaxReloads
  /\ \E E, C \in SUBSET Module :
       /\ Closed(E)
       /\ cand' = [enabled |-> E,
                   frag |-> [m \in Module |-> IF m \in C THEN reloads + 1 ELSE runner[m].frag]]
  /\ reloads' = reloads + 1
  /\ main' = [main EXCEPT !.pc = "select"]
  /\ UNCHANGED <<runner, op, modules, graph, loop, due, failures, stopped, faults>>

\* Only a running Configurable module with a changed fragment is prepared.
SelectPrepared ==
  /\ main.pc = "select"
  /\ LET P == {m \in Configurable : Changed(m) /\ runner[m].state = "Running"} IN
       main' = [main EXCEPT !.pc = "prepare", !.todo = P, !.enabling = P]
  /\ UNCHANGED <<runner, op, modules, graph, cand, loop, due, env>>

\* PrepareConfig of the next module: an error rolls every prepared module back.
Prepare(m) ==
  /\ main.pc = "prepare" /\ FirstOf(m, main.todo, RegRank)
  /\ \/ main' = [main EXCEPT !.todo = @ \ {m}]
     \/ main' = [main EXCEPT !.pc = "idle", !.todo = {}, !.enabling = {}]
  /\ UNCHANGED <<runner, op, modules, graph, cand, loop, due, env>>

AllPrepared ==
  /\ main.pc = "prepare" /\ main.todo = {}
  /\ main' = [main EXCEPT !.pc = "commit", !.todo = main.enabling, !.enabling = {}]
  /\ UNCHANGED <<runner, op, modules, graph, cand, loop, due, env>>

\* CommitConfig: a failed commit is only recorded.
Commit(m) ==
  /\ main.pc = "commit" /\ FirstOf(m, main.todo, RegRank)
  /\ main' = [main EXCEPT !.todo = @ \ {m}]
  /\ \/ mod' = [mod EXCEPT ![m].frag = cand.frag[m]] /\ UNCHANGED faults
     \/ CommitFails /\ FaultLeft /\ faults' = faults + 1 /\ UNCHANGED mod
  /\ UNCHANGED <<runner, op, mainStops, admitted, releasing, graph, cand, loop, due, failures, stopped, reloads>>

\* The swap: configuration, graph and quarantine releases under one lock.
Swapped(m) ==
  LET on == m \in cand.enabled
      r == [runner[m] EXCEPT !.enabled = on, !.frag = cand.frag[m]]
  IN IF r.state = "CrashLooping" /\ on
       THEN [r EXCEPT !.window = 0, !.retry = "due", !.state = "Failed"]
       ELSE r

Swap ==
  /\ main.pc = "commit" /\ main.todo = {}
  /\ graph' = cand.enabled
  /\ runner' = [m \in Module |-> Swapped(m)]
  /\ main' = [main EXCEPT !.pc = "reloadStop",
                          !.todo = EnabledSet \ cand.enabled,
                          !.enabling = cand.enabled \ EnabledSet]
  /\ UNCHANGED <<op, modules, cand, loop, due, env>>

\* After stopModule, a second lock section marks the module Disabled.
Disable(m) ==
  /\ main.pc = "disable" /\ FirstOf(m, main.todo, RegRank)
  /\ runner' = [runner EXCEPT ![m] = AtRest(@, "Disabled")]
  /\ main' = [main EXCEPT !.pc = "reloadStop", !.todo = @ \ {m}]
  /\ UNCHANGED <<op, modules, graph, cand, loop, due, env>>

\* The enabled modules leave Disabled together and are then started in order.
Enable ==
  /\ main.pc = "reloadStop" /\ main.todo = {}
  /\ runner' = [m \in Module |->
                  IF m \in main.enabling /\ runner[m].state = "Disabled"
                    THEN [runner[m] EXCEPT !.state = "Stopped"] ELSE runner[m]]
  /\ main' = [main EXCEPT !.pc = "reloadStart", !.todo = main.enabling, !.enabling = {}]
  /\ UNCHANGED <<op, modules, graph, cand, loop, due, env>>

ReloadDone ==
  /\ main.pc = "reloadStart" /\ main.todo = {}
  /\ main' = [main EXCEPT !.pc = "idle"]
  /\ UNCHANGED <<runner, op, modules, graph, cand, loop, due, env>>

-----------------------------------------------------------------------------
(* Shutdown, on the main goroutine. *)

Shutdown ==
  /\ main.pc = "idle"
  /\ stopped' = TRUE
  /\ main' = [main EXCEPT !.pc = "waitLoop"]
  /\ UNCHANGED <<runner, op, modules, graph, cand, loop, due, failures, faults, reloads>>

WaitLoop ==
  /\ main.pc = "waitLoop" /\ (loop = "exited" \/ Overrun)
  /\ main' = [main EXCEPT !.pc = "waitOps"]
  /\ UNCHANGED <<runner, op, modules, graph, cand, loop, due, env>>

\* Bug: Shutdown does not wait for operations in flight.
WaitOpsSkipped ==
  /\ main.pc = "waitOps"
  /\ main' = [main EXCEPT !.pc = "stopAll", !.todo = graph]
  /\ UNCHANGED <<runner, op, modules, graph, cand, loop, due, env>>

WaitOps ==
  /\ main.pc = "waitOps" /\ ((\A m \in Module : ~InFlight(m)) \/ Overrun)
  /\ main' = [main EXCEPT !.pc = "stopAll", !.todo = graph]
  /\ UNCHANGED <<runner, op, modules, graph, cand, loop, due, env>>

\* The overall deadline has passed: the remaining modules are not stopped.
DeadlineExceeded ==
  /\ Overrun /\ main.pc = "stopAll" /\ main.cur = NoModule /\ main.todo # {}
  /\ main' = [main EXCEPT !.todo = {}]
  /\ UNCHANGED <<runner, op, modules, graph, cand, loop, due, env>>

Exit ==
  /\ main.pc = "stopAll" /\ main.cur = NoModule /\ main.todo = {}
  /\ main' = [main EXCEPT !.pc = "exited"]
  /\ UNCHANGED <<runner, op, modules, graph, cand, loop, due, env>>

Terminated == main.pc = "exited" /\ UNCHANGED vars

-----------------------------------------------------------------------------
(* The specification. *)

MainStep ==
  \/ Start \/ StartCancelled \/ LaunchLoop
  \/ ReloadRejected \/ Reload \/ SelectPrepared \/ AllPrepared \/ Swap \/ Enable \/ ReloadDone
  \/ Shutdown \/ WaitLoop \/ WaitOps \/ DeadlineExceeded \/ Exit
  \/ \E m \in Module : \/ StartOnce(m) \/ StopModule(m) \/ StopModuleDone(m)
                       \/ Prepare(m) \/ Commit(m) \/ Disable(m)

\* What main does without being asked: everything but receiving a signal.
MainProgress ==
  /\ main.pc # "exited"
  /\ \/ Start \/ LaunchLoop \/ SelectPrepared \/ AllPrepared \/ Swap \/ Enable \/ ReloadDone
     \/ WaitLoop \/ WaitOps \/ Exit
     \/ \E m \in Module : \/ StartOnce(m) \/ StopModule(m) \/ StopModuleDone(m)
                          \/ Prepare(m) \/ Commit(m) \/ Disable(m)

LoopStep == LoopScan \/ HandleRuntimeFailure \/ LoopExit \/ \E m \in Module : LoopClaim(m)

\* Steps of op goroutines that are not returns of a module's own code.
OpStep(m) ==
  \/ Admit(m) \/ FinishStart(m) \/ AsyncRelease(m)
  \/ DependentStopped(m) \/ FailedStop(m) \/ FailedStopped(m)
  \/ \E d \in Module : StopForDependency(m, d)

\* Returns of a module's own code.
ModuleReturns(m) ==
  StartReturns(m) \/ CleanupReturns(m) \/ OpStopReturns(m) \/ MainStopReturns(m)

Next ==
  \/ /\ main.pc # "exited"
     /\ \/ MainStep \/ LoopStep
        \/ \E m \in Module : OpStep(m) \/ ModuleReturns(m) \/ RetryDue(m) \/ ReportFailure(m)
  \/ Terminated

Spec == Init /\ [][Next]_vars

\* Goroutines and the clock make progress; nothing is assumed of the modules' own code.
Progress ==
  /\ WF_vars(MainProgress)
  /\ WF_vars(main.pc # "exited" /\ LoopStep)
  /\ \A m \in Module : /\ WF_vars(main.pc # "exited" /\ OpStep(m))
                       /\ WF_vars(main.pc # "exited" /\ RetryDue(m))

\* Every call into a module returns sooner or later.
ModulesReturn ==
  \A m \in Module :
    /\ WF_vars(main.pc # "exited" /\ (StartReturns(m) \/ CleanupReturns(m) \/ OpStopReturns(m)))
    /\ WF_vars(main.pc # "exited" /\ MainStopReturns(m))

FairSpec == Spec /\ Progress /\ ModulesReturn
HangingSpec == Spec /\ Progress

-----------------------------------------------------------------------------
(* Properties. *)

RunnerRecord ==
  [enabled : BOOLEAN, frag : Nat, state : State, lease : BOOLEAN, window : Nat,
   retry : {"none", "waiting", "due"}, blocked : BOOLEAN, gen : Nat]
OpRecord ==
  [pc : {"idle", "admit", "start", "clean", "finish", "deps", "failStop", "failEnd",
         "depStop", "depEnd"},
   owner : {"main", "loop"}, gen : Nat, frag : Nat, lease : BOOLEAN,
   result : {"ok", "error", "unsupported"}, rest : SUBSET Module, within : SUBSET Module,
   cause : Module \cup {NoModule}]
ModRecord == [run : {"down", "up", "broken"}, gen : Nat, frag : Nat]
MainRecord ==
  [pc : {"boot", "bootStart", "idle", "select", "prepare", "commit", "reloadStop", "disable",
         "reloadStart", "waitLoop", "waitOps", "stopAll", "exited"},
   todo : SUBSET Module, enabling : SUBSET Module,
   cur : Module \cup {NoModule}, lease : BOOLEAN]
Report == [id : Module, gen : Nat]

\* Types of all variables.
TypeOK ==
  /\ runner \in [Module -> RunnerRecord]
  /\ op \in [Module -> OpRecord]
  /\ mod \in [Module -> ModRecord]
  /\ mainStops \in [Module -> Nat]
  /\ admitted \subseteq Module /\ releasing \subseteq Module /\ graph \subseteq Module
  /\ main \in MainRecord
  /\ cand \in [enabled : SUBSET Module, frag : [Module -> Nat]]
  /\ loop \in {"off", "on", "exited"} /\ due \subseteq Module
  /\ failures \in Seq(Report)
  /\ stopped \in BOOLEAN /\ faults \in Nat /\ reloads \in Nat

\* The parties that hold a lease of m.
Holders(m) ==
  {h \in {"runner", "op", "release", "main"} :
     \/ h = "runner" /\ runner[m].lease
     \/ h = "op" /\ op[m].lease
     \/ h = "release" /\ m \in releasing
     \/ h = "main" /\ main.cur = m /\ main.lease}

\* Every admission slot of the capability runtime has exactly one owner: while a
\* module is registered one party will release its lease, and no two ever hold one.
\* finishStart, callStop and the discard path pass the lease from hand to hand.
LeaseOwned ==
  \A m \in Module : /\ m \in admitted <=> Holders(m) # {}
                    /\ \A g, h \in Holders(m) : g = h

\* Where the lease of a start may be: the op has it from Admit until the cleanup or
\* finishStart takes it away, and until callStop has released it.
OpLease(m) ==
  /\ op[m].pc \in {"idle", "admit", "depEnd", "failEnd"} => ~op[m].lease
  /\ op[m].pc \in {"start", "clean"} => op[m].lease
  /\ op[m].pc \in {"admit", "start"} => op[m].result = "ok"
  /\ op[m].pc = "clean" => op[m].result # "ok"
  /\ op[m].pc = "finish" => (op[m].lease <=> op[m].result = "ok")

\* LeaseOwned as an inductive invariant (with TypeOK): every step knows from its
\* goroutine's position whether it holds the lease, and hands it on or releases it.
LeaseInv == LeaseOwned /\ \A m \in Module : OpLease(m)

\* Start and Stop calls executing in m's code.
Calls(m) ==
  (IF op[m].pc \in {"start", "clean", "depStop", "failStop"} THEN 1 ELSE 0) + mainStops[m]

\* No two Start or Stop calls execute in one module at a time, whatever failures,
\* cascades and a shutdown do: the in-flight slot (opInFlight) serialises them.
OneLifecycleCall == \A m \in Module : Calls(m) <= 1

\* A module recorded as Running is the live instance of the recorded generation,
\* with its lease held: no stale start result resurrected it, and no late Stop of
\* a dependency cascade, failure or reload took it down behind the supervisor.
RunningIsUp ==
  \A m \in Module : runner[m].state = "Running" =>
    /\ runner[m].lease /\ m \in admitted
    /\ mod[m].run # "down" /\ mod[m].gen = runner[m].gen
    /\ ~InFlight(m)

\* No operation on m is under way.
Settled(m) ==
  ~InFlight(m) /\ mainStops[m] = 0 /\ m \notin releasing /\ main.cur # m

\* A module that is neither Running nor being worked on holds nothing: neither its
\* own resources (a partial start was cleaned up) nor its admission.  After a shutdown
\* within its deadlines no module runs at all.
NothingLeaks ==
  /\ \A m \in Module : Settled(m) /\ runner[m].state # "Running" =>
       mod[m].run = "down" /\ m \notin admitted
  /\ main.pc = "exited" =>
       \A m \in Module : mod[m].run = "down" /\ m \notin admitted \ releasing

\* While Shutdown stops the modules, none is left running with a dependency that is
\* being stopped or already is (Graph.StopOrder).
ShutdownOrder ==
  main.pc = "stopAll" =>
    \A m \in Module : \A d \in Dependencies(m) :
      runner[d].state \in {"Stopping", "Stopped"} => runner[m].state # "Running"

\* The events in the modules' crash-loop windows.
Events == UNION {{<<m, i>> : i \in 1 .. runner[m].window} : m \in Module}

\* Every event of every window is a fault of its own: waiting for a dependency, or being
\* stopped because of one, is never charged as a crash, and no fault is charged twice.  A
\* module is quarantined exactly when its own window exceeds the budget, and with no
\* restart pending.
FaultsAreCharged ==
  /\ ExistsInjection(Events, 1 .. faults)
  /\ \A m \in Module :
       /\ runner[m].state = "CrashLooping" =>
            runner[m].retry = "none" /\ ~runner[m].blocked /\ runner[m].window > MaxRestarts
       /\ runner[m].state = "Failed" /\ ~runner[m].blocked => runner[m].window <= MaxRestarts

\* With no fault, a finished reload leaves every module as the applied configuration says:
\* enabled ones up, with its fragment if they can take one, disabled ones down.
ReloadReconciles ==
  main.pc = "idle" /\ faults = 0 =>
    \A m \in Module :
      IF runner[m].enabled
        THEN /\ runner[m].state = "Running" /\ mod[m].run = "up"
             /\ m \in Configurable => mod[m].frag = runner[m].frag
        ELSE runner[m].state = "Disabled" /\ mod[m].run = "down"

\* If module calls return, a failed module restarts by itself: it comes to run again, or
\* to a terminal state, or waits for a dependency that is down, or the agent shuts down.
\* And one whose work died after it was recorded as Running is taken down: its report is
\* neither lost nor mistaken for one of another start.
Recovers ==
  ModulesReturn => \A m \in Module :
    /\ runner[m].state = "Failed" ~>
         \/ runner[m].state \in {"Running", "CrashLooping", "Unsupported"}
         \/ stopped
         \/ \E d \in Deps[m] : runner[d].state \in {"CrashLooping", "Unsupported", "Failed"}
    /\ mod[m].run = "broken" ~> (mod[m].run # "broken" \/ stopped)

\* Shutdown ends even if no module call ever returns (both bounds of Shutdown).
ShutdownTerminates == stopped ~> main.pc = "exited"

=============================================================================
