----------------------------- MODULE HealthProbes -----------------------------
(***************************************************************************)
(* The supervisor's health probes (internal/supervisor/loop.go) and what   *)
(* the agent says of itself (internal/health): at each tick of the control *)
(* loop every running module is asked under a deadline, on a goroutine of  *)
(* its own, while modules fail, stop and start again beside it.            *)
(*                                                                         *)
(* What moves a module from one lifecycle state to another is Supervisor's *)
(* subject: here it does so at any moment, along Supervisor's paths.       *)
(* "Blocked" is Failed with blockedOnDeps.  A report is its status; that   *)
(* a module says "degraded" of itself is left out.                         *)
(***************************************************************************)
EXTENDS Naturals, FiniteSets, FiniteSetsExt

CONSTANTS
  Monitored,  \* the registered modules
  Required,   \* those the agent needs
  MaxProbes,  \* bound: probes asked of one module at a time
  MaxMoves    \* bound: lifecycle steps and reloads

ASSUME ProbeAssumption ==
  IsFiniteSet(Monitored) /\ Required \subseteq Monitored /\ MaxProbes \in Nat \ {0} /\ MaxMoves \in Nat

VARIABLES
  life,         \* runner.state of each module
  starts,       \* how many of its starts were recorded
  enabled,      \* the modules whose runner.cfg.Enabled holds
  report,       \* runner.report: its status
  slot,         \* the modules whose probeInFlight holds
  probe,        \* the goroutines of probe: [at, start, said], by module and number
  publish,      \* the loop has still to publish the agent's health
  agentHealth,  \* the gauge
  moves         \* bounded by MaxMoves

probeVars == <<life, starts, enabled, report, slot, probe, publish, agentHealth, moves>>

Verdicts == {"healthy", "unhealthy"}
Number == 1 .. MaxProbes
NoProbe == [at |-> "idle", start |-> 0, said |-> "unknown"]

ProbeInit ==
  /\ enabled \in SUBSET Monitored
  /\ life = [m \in Monitored |-> IF m \in enabled THEN "Registered" ELSE "Disabled"]
  /\ starts = [m \in Monitored |-> 0]
  /\ report = [m \in Monitored |-> "unknown"]
  /\ slot = {}
  /\ probe = [m \in Monitored |-> [i \in Number |-> NoProbe]]
  /\ publish = FALSE /\ agentHealth = "unknown" /\ moves = 0

-----------------------------------------------------------------------------
(* What the agent says of itself. *)

Severity == [healthy |-> 0, unknown |-> 1, degraded |-> 2, unhealthy |-> 3]

WorseOf(a, b) == IF Severity[b] > Severity[a] THEN b ELSE a

\* componentHealth: the state has the last word over what the module said.
ComponentHealth(m) ==
  CASE life[m] = "Running" -> report[m]
    [] life[m] \in {"Unsupported", "Blocked"} -> "degraded"
    [] life[m] \in {"Failed", "CrashLooping"} -> "unhealthy"
    [] OTHER -> "unknown"

\* An optional module degrades the agent, and no more.
Counted(m) == IF m \notin Required /\ ComponentHealth(m) = "unhealthy" THEN "degraded" ELSE ComponentHealth(m)

Components == {m \in Monitored : life[m] # "Disabled" /\ m \in enabled}

\* AggregateOf: the worst of the components; of none nothing is known.
AgentHealth ==
  IF Components = {} THEN "unknown"
  ELSE FoldSet(LAMBDA m, s : WorseOf(s, Counted(m)), "healthy", Components)

-----------------------------------------------------------------------------
(* The lifecycle, as Supervisor moves it. *)

\* Where a stop for a reload meets the handling of a failure, the handling has the last word.
Successors ==
  [ Registered   |-> {"Starting", "Blocked", "Stopped", "Disabled"},
    Starting     |-> {"Running", "Failed", "CrashLooping", "Unsupported", "Stopping"},
    Running      |-> {"Stopping", "Failed"},
    Stopping     |-> {"Stopped", "Failed", "Blocked", "CrashLooping"},
    Stopped      |-> {"Starting", "Failed", "Blocked", "CrashLooping", "Disabled"},
    Failed       |-> {"Starting", "Blocked", "CrashLooping", "Stopped", "Disabled"},
    Blocked      |-> {"Starting", "Stopped", "Disabled"},
    CrashLooping |-> {"Failed", "Stopped", "Disabled"},
    Unsupported  |-> {"Disabled"},
    Disabled     |-> {"Stopped", "Failed", "Blocked", "CrashLooping"} ]

\* setStateLocked; finishStart, which records a start, forgets what was last said.
Move(m) ==
  /\ moves < MaxMoves /\ moves' = moves + 1
  /\ \E s \in Successors[life[m]] :
       /\ life' = [life EXCEPT ![m] = s]
       /\ starts' = IF s = "Running" THEN [starts EXCEPT ![m] = @ + 1] ELSE starts
       /\ report' = IF s = "Running" THEN [report EXCEPT ![m] = "unknown"] ELSE report
  /\ UNCHANGED <<enabled, slot, probe, publish, agentHealth>>

\* A reload turns a module on or off before it starts or stops it.
Toggle(m) ==
  /\ moves < MaxMoves /\ moves' = moves + 1
  /\ enabled' = (enabled \ {m}) \cup ({m} \ enabled)
  /\ UNCHANGED <<life, starts, report, slot, probe, publish, agentHealth>>

-----------------------------------------------------------------------------
(* Probes. *)

Targets == {m \in Monitored : life[m] = "Running" /\ m \notin slot}
Free(m) == {i \in Number : probe[m][i].at = "idle"}
FirstFree(m) == CHOOSE i \in Free(m) : \A j \in Free(m) : i <= j

\* probeAll: each running module that has no probe out is asked (as long as the agent is not
\* shutting down, which ends the ticks).
AskAll ==
  /\ ~publish /\ \A m \in Targets : Free(m) # {}
  /\ slot' = slot \cup Targets
  /\ probe' = [m \in Monitored |->
                 IF m \in Targets
                   THEN [probe[m] EXCEPT ![FirstFree(m)] = [at |-> "asking", start |-> starts[m], said |-> "unknown"]]
                   ELSE probe[m]]
  /\ publish' = TRUE
  /\ UNCHANGED <<life, starts, enabled, report, agentHealth, moves>>

\* publishAggregateHealth, under the lock again.
PublishHealth ==
  /\ publish /\ publish' = FALSE
  /\ agentHealth' = AgentHealth
  /\ UNCHANGED <<life, starts, enabled, report, slot, probe, moves>>

ProbeGoes(m, i, place) == probe' = [probe EXCEPT ![m][i].at = place]

\* The module's Health returns, or panics: what a panic says is "unhealthy".
HealthReturns(m, i) ==
  /\ probe[m][i].at = "asking"
  /\ \E v \in Verdicts : probe' = [probe EXCEPT ![m][i] = [@ EXCEPT !.at = "answered", !.said = v]]
  /\ UNCHANGED <<life, starts, enabled, report, slot, publish, agentHealth, moves>>

\* The answer is recorded, whatever has become of the module meanwhile.
RecordAnswer(m, i) ==
  /\ probe[m][i].at = "answered"
  /\ report' = [report EXCEPT ![m] = probe[m][i].said]
  /\ ProbeGoes(m, i, "settled")
  /\ UNCHANGED <<life, starts, enabled, slot, publish, agentHealth, moves>>

\* Bug: the slot is free at the deadline.
ProbeExpiresFreely(m, i) ==
  /\ probe[m][i].at = "asking"
  /\ report' = [report EXCEPT ![m] = "unknown"]
  /\ slot' = slot \ {m}
  /\ ProbeGoes(m, i, "late")
  /\ UNCHANGED <<life, starts, enabled, publish, agentHealth, moves>>

\* The deadline: the module is not answering, and nothing more is known of it.
ProbeExpires(m, i) ==
  /\ probe[m][i].at = "asking"
  /\ report' = [report EXCEPT ![m] = "unknown"]
  /\ ProbeGoes(m, i, "late")
  /\ UNCHANGED <<life, starts, enabled, slot, publish, agentHealth, moves>>

\* A late result is discarded.
ReturnsLate(m, i) ==
  /\ probe[m][i].at = "late"
  /\ ProbeGoes(m, i, "settled")
  /\ UNCHANGED <<life, starts, enabled, report, slot, publish, agentHealth, moves>>

\* The deferred end of probe: the call has returned.
FreeSlot(m, i) ==
  /\ probe[m][i].at = "settled"
  /\ slot' = slot \ {m}
  /\ probe' = [probe EXCEPT ![m][i] = NoProbe]
  /\ UNCHANGED <<life, starts, enabled, report, publish, agentHealth, moves>>

ProbeSteps(m, i) == HealthReturns(m, i) \/ RecordAnswer(m, i) \/ ReturnsLate(m, i) \/ FreeSlot(m, i)

ProbeNext ==
  \/ AskAll \/ PublishHealth
  \/ \E m \in Monitored :
       \/ Move(m) \/ Toggle(m)
       \/ \E i \in Number : ProbeSteps(m, i) \/ ProbeExpires(m, i)

\* Goroutines run, and a module's Health returns sooner or later; who has the loop run adds
\* that its ticker ticks (WF of AskAll).
ProbeFairness ==
  /\ WF_probeVars(PublishHealth)
  /\ \A m \in Monitored, i \in Number : WF_probeVars(ProbeSteps(m, i))

-----------------------------------------------------------------------------
(* Properties. *)

\* "At most one lifecycle operation and one health probe per module in flight": however
\* late a Health call is, and however often its module restarts meanwhile, it is the only one.
OneHealthCall ==
  \A m \in Monitored : Cardinality({i \in Number : probe[m][i].at \in {"asking", "late"}}) <= 1

\* "An optional component can never make the agent Unhealthy", nor can one that was turned
\* off degrade it; and one that "last reported Healthy and has since failed" is not healthy.
AgentIsNoBetterThanItsModules ==
  /\ AgentHealth = "unhealthy" <=>
       \E m \in Required \cap enabled :
         life[m] \in {"Failed", "CrashLooping"} \/ (life[m] = "Running" /\ report[m] = "unhealthy")
  /\ AgentHealth = "healthy" =>
       \A m \in enabled : life[m] = "Disabled" \/ (life[m] = "Running" /\ report[m] = "healthy")

\* A module that runs on is heard of again and again, whatever became of earlier probes: its
\* slot is never lost to one that expired or that a restart overtook.
HeardAgain ==
  \A m \in Monitored :
    []<>(life[m] # "Running" \/ \E i \in Number : probe[m][i].at = "settled" /\ probe[m][i].start = starts[m])

HealthIsTold == [](OneHealthCall /\ AgentIsNoBetterThanItsModules) /\ HeardAgain

=============================================================================
