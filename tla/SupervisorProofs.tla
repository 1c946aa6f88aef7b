-------------------------- MODULE SupervisorProofs ---------------------------
(***************************************************************************)
(* What holds of module Supervisor for every set of modules, every         *)
(* dependency graph and every number of faults.  First types (TypeCorrect),*)
(* the ownership of admission leases (LeaseSafe), and that the supervisor's*)
(* record of a module speaks of the module itself (RunningModulesAreUp),   *)
(* one lemma per actor; the lemmas about updates of a record are what every*)
(* later proof rests on.                                                   *)
(*                                                                         *)
(* Then shutdown, where no module call outlives its deadline: dependents go*)
(* down before what they depend on (ShutdownOrder), no two lifecycle calls *)
(* execute in one module at a time (OneLifecycleCall), and what is not     *)
(* running holds nothing (NothingLeaks).  Then the crash-loop budget: a    *)
(* module is quarantined when, and only when, its window exceeds the budget*)
(* (QuarantineIsEarned), and what is charged to it were so many faults,    *)
(* none of them twice (FaultsAreCharged).  Last, where nothing fails, a    *)
(* reload ends with every module as the configuration says                 *)
(* (ReloadReconciles).                                                     *)
(***************************************************************************)
EXTENDS Supervisor, TLAPS

(* Types. *)

\* Every update of a module's record is a record again; of them only TakenDown touches
\* the lease, and takes it away.
LEMMA RunnerUpdates ==
  ASSUME NEW r \in RunnerRecord
  PROVE  /\ Blocked(r) \in RunnerRecord /\ Blocked(r).lease = r.lease
         /\ Claimed(r) \in RunnerRecord /\ Claimed(r).lease = r.lease
         /\ TakenDown(r) \in RunnerRecord /\ TakenDown(r).lease = FALSE
         /\ \A s \in State : AtRest(r, s) \in RunnerRecord /\ AtRest(r, s).lease = r.lease
         /\ FailLocked(r) \subseteq RunnerRecord
         /\ \A q \in FailLocked(r) : q.lease = r.lease
<1>1. r.gen + 1 \in Nat /\ r.window \in Nat
  BY DEF RunnerRecord
<1>2. Blocked(r) \in RunnerRecord /\ Blocked(r).lease = r.lease
  BY DEF Blocked, RunnerRecord, State
<1>3. Claimed(r) \in RunnerRecord /\ Claimed(r).lease = r.lease
  <2> DEFINE g == r.gen + 1
  <2>1. g \in Nat
    BY <1>1
  <2>2. Claimed(r) = [r EXCEPT !.gen = g, !.blocked = FALSE, !.retry = "none", !.state = "Starting"]
    BY Zenon DEF Claimed
  <2> HIDE DEF g
  <2> QED
    BY <2>1, <2>2 DEF RunnerRecord, State
<1>4. TakenDown(r) \in RunnerRecord /\ TakenDown(r).lease = FALSE
  <2> DEFINE g == r.gen + 1
  <2>1. g \in Nat
    BY <1>1
  <2>2. TakenDown(r) = [r EXCEPT !.gen = g, !.lease = FALSE, !.state = "Stopping"]
    BY Zenon DEF TakenDown
  <2> HIDE DEF g
  <2> QED
    BY <2>1, <2>2 DEF RunnerRecord, State
<1>5. ASSUME NEW s \in State
      PROVE  AtRest(r, s) \in RunnerRecord /\ AtRest(r, s).lease = r.lease
  BY DEF AtRest, RunnerRecord, State
<1>6. ASSUME NEW q \in FailLocked(r)
      PROVE  q \in RunnerRecord /\ q.lease = r.lease
  <2>1. CASE ~RestartEnabled
    BY <2>1, <1>6 DEF FailLocked, RunnerRecord, State
  <2>2. CASE RestartEnabled
    <3>1. PICK k \in 0 .. r.window :
            q = IF k + 1 > MaxRestarts
                  THEN [r EXCEPT !.window = k + 1, !.state = "CrashLooping"]
                  ELSE [r EXCEPT !.window = k + 1, !.state = "Failed", !.retry = "waiting"]
      BY <2>2, <1>6 DEF FailLocked
    <3> DEFINE w == k + 1
    <3>2. w \in Nat
      BY <1>1
    <3>3. \/ q = [r EXCEPT !.window = w, !.state = "CrashLooping"]
          \/ q = [r EXCEPT !.window = w, !.state = "Failed", !.retry = "waiting"]
      BY <3>1, Zenon
    <3> HIDE DEF w
    <3> QED
      BY <3>2, <3>3 DEF RunnerRecord, State
  <2> QED
    BY <2>1, <2>2
<1> QED
  BY <1>2, <1>3, <1>4, <1>5, <1>6

\* A finished goroutine's record holds no lease.
LEMMA IdleOpType == IdleOp \in OpRecord /\ IdleOp.lease = FALSE
  BY DEF IdleOp, OpRecord

\* The record of a claimed start: it is to be admitted, and holds no lease yet.
LEMMA StartOpType ==
  ASSUME NEW r \in RunnerRecord, NEW owner \in {"main", "loop"}
  PROVE  /\ StartOp(r, owner) \in OpRecord
         /\ StartOp(r, owner).lease = FALSE
         /\ StartOp(r, owner).pc = "admit"
         /\ StartOp(r, owner).result = "ok"
<1> DEFINE g == r.gen + 1
<1>1. g \in Nat /\ r.frag \in Nat
  BY DEF RunnerRecord
<1>2. StartOp(r, owner) = [IdleOp EXCEPT !.pc = "admit", !.owner = owner, !.gen = g, !.frag = r.frag]
  BY Zenon DEF StartOp
<1> HIDE DEF g
<1> QED
  BY <1>1, <1>2 DEF OpRecord, IdleOp

\* claimStart keeps the types, whether it claims the module, defers it or refuses.
LEMMA ClaimType ==
  ASSUME TypeOK, NEW m \in Module, NEW owner \in {"main", "loop"},
         ClaimStart(m, owner) \/ ClaimRefused(m)
  PROVE  runner' \in [Module -> RunnerRecord] /\ op' \in [Module -> OpRecord]
<1>1. /\ runner \in [Module -> RunnerRecord] /\ op \in [Module -> OpRecord]
      /\ runner[m] \in RunnerRecord
  BY DEF TypeOK
<1>2. CASE ClaimStart(m, owner)
  <2>1. Claimed(runner[m]) \in RunnerRecord /\ StartOp(runner[m], owner) \in OpRecord
    BY <1>1, RunnerUpdates, StartOpType
  <2> QED
    BY <1>1, <1>2, <2>1 DEF ClaimStart
<1>3. CASE ClaimRefused(m)
  <2>1. Blocked(runner[m]) \in RunnerRecord
    BY <1>1, RunnerUpdates
  <2> QED
    BY <1>1, <1>3, <2>1 DEF ClaimRefused
<1> QED
  BY <1>2, <1>3

\* Every update of a goroutine's record is a record again.
LEMMA OpUpdates ==
  ASSUME NEW o \in OpRecord
  PROVE  /\ [o EXCEPT !.pc = "start", !.lease = TRUE] \in OpRecord
         /\ [o EXCEPT !.pc = "finish", !.result = "error"] \in OpRecord
         /\ [o EXCEPT !.pc = "finish"] \in OpRecord
         /\ \A res \in {"error", "unsupported"} :
              [o EXCEPT !.pc = "clean", !.result = res] \in OpRecord
         /\ [o EXCEPT !.pc = "finish", !.lease = FALSE] \in OpRecord
         /\ \A S \in SUBSET Module : [o EXCEPT !.rest = S] \in OpRecord
         /\ [o EXCEPT !.pc = "failStop"] \in OpRecord
         /\ \A p \in {"depEnd", "failEnd"} : [o EXCEPT !.lease = FALSE, !.pc = p] \in OpRecord
<1>1. [o EXCEPT !.pc = "start", !.lease = TRUE] \in OpRecord
  BY DEF OpRecord
<1>2. [o EXCEPT !.pc = "finish", !.result = "error"] \in OpRecord
  BY DEF OpRecord
<1>3. [o EXCEPT !.pc = "finish"] \in OpRecord
  BY DEF OpRecord
<1>4. ASSUME NEW res \in {"error", "unsupported"}
      PROVE  [o EXCEPT !.pc = "clean", !.result = res] \in OpRecord
  BY DEF OpRecord
<1>5. [o EXCEPT !.pc = "finish", !.lease = FALSE] \in OpRecord
  BY DEF OpRecord
<1>6. ASSUME NEW S \in SUBSET Module
      PROVE  [o EXCEPT !.rest = S] \in OpRecord
  BY DEF OpRecord
<1>7. [o EXCEPT !.pc = "failStop"] \in OpRecord
  BY DEF OpRecord
<1>8. ASSUME NEW p \in {"depEnd", "failEnd"}
      PROVE  [o EXCEPT !.lease = FALSE, !.pc = p] \in OpRecord
  BY DEF OpRecord
<1> QED
  BY <1>1, <1>2, <1>3, <1>4, <1>5, <1>6, <1>7, <1>8

\* A module that goes down or breaks keeps the types.
LEMMA ModUpdates ==
  ASSUME mod \in [Module -> ModRecord], NEW m \in Module, NEW s \in {"down", "broken"}
  PROVE  [mod EXCEPT ![m].run = s] \in [Module -> ModRecord]
<1>1. [mod[m] EXCEPT !.run = s] \in ModRecord
  BY DEF ModRecord
<1> QED
  BY <1>1

\* Reload's swap keeps the types.
LEMMA TypeSwap ==
  ASSUME TypeOK, Swap PROVE TypeOK'
<1>1. ASSUME NEW m \in Module
      PROVE Swapped(m) \in RunnerRecord
  <2>1. runner[m] \in RunnerRecord /\ cand.frag[m] \in Nat /\ (m \in cand.enabled) \in BOOLEAN
    BY DEF TypeOK
  <2> DEFINE on == m \in cand.enabled
             r == [runner[m] EXCEPT !.enabled = on, !.frag = cand.frag[m]]
  <2>2. on \in BOOLEAN
    OBVIOUS
  <2> HIDE DEF on
  <2>3. r \in RunnerRecord
    BY <2>1, <2>2 DEF RunnerRecord
  <2>4. Swapped(m) = IF r.state = "CrashLooping" /\ on
       THEN [r EXCEPT !.window = 0, !.retry = "due", !.state = "Failed"]
       ELSE r
     BY Zenon DEF Swapped, on
  <2> HIDE DEF r
  <2>5. [r EXCEPT !.window = 0, !.retry = "due", !.state = "Failed"] \in RunnerRecord
    BY <2>3 DEF RunnerRecord, State
  <2> QED
    BY <2>3, <2>4, <2>5
<1>2. runner' \in [Module -> RunnerRecord]
  BY <1>1 DEF Swap
<1>3. main' \in MainRecord
  BY DEF Swap, TypeOK, MainRecord, EnabledSet
<1> QED
  BY <1>2, <1>3 DEF TypeOK, Swap, modules, env
\* The steps of main that name no module keep the types.
LEMMA TypeSignals ==
  ASSUME TypeOK, \/ Start \/ StartCancelled \/ LaunchLoop \/ ReloadRejected \/ SelectPrepared
                 \/ AllPrepared \/ ReloadDone \/ Shutdown \/ WaitLoop \/ WaitOps
                 \/ DeadlineExceeded \/ Exit
  PROVE  TypeOK'
<1>1. CASE StartCancelled
  BY <1>1 DEF TypeOK, MainRecord, StartCancelled, modules, env
<1>2. CASE ReloadRejected
  BY <1>2 DEF TypeOK, MainRecord, ReloadRejected, modules, env
<1>3. CASE SelectPrepared
  <2> DEFINE P == {m \in Configurable : Changed(m) /\ runner[m].state = "Running"}
  <2>1. P \in SUBSET Module
    BY ParameterAssumption
  <2>2. main' = [main EXCEPT !.pc = "prepare", !.todo = P, !.enabling = P]
    BY <1>3 DEF SelectPrepared
  <2> HIDE DEF P
  <2>3. main' \in MainRecord
    BY <2>1, <2>2 DEF TypeOK, MainRecord
  <2> QED
    BY <1>3, <2>3 DEF TypeOK, SelectPrepared, modules, env
<1>4. CASE AllPrepared
  BY <1>4 DEF TypeOK, MainRecord, AllPrepared, modules, env
<1>5. CASE ReloadDone
  BY <1>5 DEF TypeOK, MainRecord, ReloadDone, modules, env
<1>6. CASE WaitLoop
  BY <1>6 DEF TypeOK, MainRecord, WaitLoop, modules, env
<1>7. CASE WaitOps
  BY <1>7 DEF TypeOK, MainRecord, WaitOps, modules, env
<1>8. CASE DeadlineExceeded
  BY <1>8 DEF TypeOK, MainRecord, DeadlineExceeded, modules, env
<1>9. CASE Exit
  BY <1>9 DEF TypeOK, MainRecord, Exit, modules, env
<1>10. CASE Start
  <2>1. EnabledSet \in SUBSET Module
    BY DEF EnabledSet
  <2>2. main' \in MainRecord
    BY <1>10, <2>1 DEF TypeOK, MainRecord, Start
  <2>3. graph' \subseteq Module
    BY <1>10, <2>1 DEF TypeOK, Start
  <2> QED
    BY <1>10, <2>2, <2>3 DEF TypeOK, Start, modules, env
<1>11. CASE LaunchLoop
  BY <1>11 DEF TypeOK, MainRecord, LaunchLoop, modules, env
<1>12. CASE Shutdown
  BY <1>12 DEF TypeOK, MainRecord, Shutdown, modules, env
<1> QED
  BY <1>1, <1>2, <1>3, <1>4, <1>5, <1>6, <1>7, <1>8, <1>9, <1>10, <1>11, <1>12

\* Accepting a candidate configuration keeps the types.
LEMMA TypeReload ==
  ASSUME TypeOK, Reload PROVE TypeOK'
<1>1. PICK E, C \in SUBSET Module :
        cand' = [enabled |-> E,
                 frag |-> [m \in Module |-> IF m \in C THEN reloads + 1 ELSE runner[m].frag]]
  BY DEF Reload
<1>2. ASSUME NEW m \in Module
      PROVE  (IF m \in C THEN reloads + 1 ELSE runner[m].frag) \in Nat
  BY DEF TypeOK, RunnerRecord
<1>3. cand' \in [enabled : SUBSET Module, frag : [Module -> Nat]]
  BY <1>1, <1>2
<1>4. main' \in MainRecord
  BY DEF TypeOK, Reload, MainRecord
<1> QED
  BY <1>3, <1>4 DEF TypeOK, Reload, modules, env

\* Taking the enabled modules out of Disabled keeps the types.
LEMMA TypeEnable ==
  ASSUME TypeOK, Enable PROVE TypeOK'
<1>1. ASSUME NEW m \in Module
      PROVE  [runner[m] EXCEPT !.state = "Stopped"] \in RunnerRecord /\ runner[m] \in RunnerRecord
  <2>1. runner[m] \in RunnerRecord
    BY DEF TypeOK
  <2> QED
    BY <2>1 DEF RunnerRecord, State
<1>2. runner' \in [Module -> RunnerRecord]
  BY <1>1 DEF Enable
<1>3. main' \in MainRecord
  BY DEF TypeOK, Enable, MainRecord
<1> QED
  BY <1>2, <1>3 DEF TypeOK, Enable, modules, env

\* The steps of main that name a module keep the types.
LEMMA TypePerModule ==
  ASSUME TypeOK, NEW m \in Module,
         StartOnce(m) \/ StopModule(m) \/ StopModuleDone(m) \/ Prepare(m) \/ Commit(m) \/ Disable(m)
  PROVE  TypeOK'
<1>1. /\ runner \in [Module -> RunnerRecord] /\ runner[m] \in RunnerRecord
      /\ {"Stopped", "Disabled"} \subseteq State
  BY DEF TypeOK, State
<1>2. CASE StartOnce(m)
  <2>1. runner' \in [Module -> RunnerRecord] /\ op' \in [Module -> OpRecord]
    BY <1>2, ClaimType DEF StartOnce
  <2>2. main' \in MainRecord
    BY <1>2 DEF TypeOK, StartOnce, MainRecord
  <2> QED
    BY <1>2, <2>1, <2>2 DEF TypeOK, StartOnce, modules, env
<1>3. CASE StopModule(m)
  <2>1. runner' \in [Module -> RunnerRecord]
    <3>1. CASE StopActive(m)
      <4>1. TakenDown(runner[m]) \in RunnerRecord
        BY <1>1, RunnerUpdates
      <4> QED
        BY <1>1, <3>1, <4>1 DEF StopActive
    <3>2. CASE StopInactive(m)
      <4>1. AtRest(runner[m], "Stopped") \in RunnerRecord
        BY <1>1, RunnerUpdates
      <4> QED
        BY <1>1, <3>2, <4>1 DEF StopInactive
    <3> QED
      BY <1>3, <3>1, <3>2 DEF StopModule
  <2>2. mainStops' \in [Module -> Nat]
    <3>1. mainStops \in [Module -> Nat] /\ mainStops[m] + 1 \in Nat
      BY DEF TypeOK
    <3>2. mainStops' = mainStops \/ mainStops' = [mainStops EXCEPT ![m] = mainStops[m] + 1]
      BY <1>3 DEF StopModule, StopActive, StopInactive
    <3> QED
      BY <3>1, <3>2
  <2>3. runner[m].lease \in BOOLEAN
    BY <1>1 DEF RunnerRecord
  <2>4. main' \in MainRecord
    <3>1. main \in MainRecord
      BY DEF TypeOK
    <3>2. \/ main' = [main EXCEPT !.cur = m, !.lease = runner[m].lease]
          \/ main' = [main EXCEPT !.todo = @ \ {m}]
          \/ main' = [main EXCEPT !.pc = "disable"]
      BY <1>3 DEF StopModule
    <3> QED
      BY <2>3, <3>1, <3>2 DEF MainRecord
  <2> QED
    BY <1>3, <2>1, <2>2, <2>4 DEF TypeOK, StopModule, env
<1>4. CASE StopModuleDone(m)
  <2>1. runner' \in [Module -> RunnerRecord]
    BY <1>1, <1>4, RunnerUpdates DEF StopModuleDone
  <2>2. main' \in MainRecord
    BY <1>4 DEF TypeOK, StopModuleDone, MainRecord
  <2> QED
    BY <1>4, <2>1, <2>2 DEF TypeOK, StopModuleDone, env
<1>5. CASE Prepare(m)
  BY <1>5 DEF TypeOK, Prepare, MainRecord, modules, env
<1>6. CASE Commit(m)
  <2>1. main' \in MainRecord
    BY <1>6 DEF TypeOK, Commit, MainRecord
  <2>2. mod' \in [Module -> ModRecord]
    <3>1. mod \in [Module -> ModRecord] /\ cand.frag[m] \in Nat
      BY DEF TypeOK
    <3>2. [mod[m] EXCEPT !.frag = cand.frag[m]] \in ModRecord
      BY <3>1 DEF ModRecord
    <3>3. mod' = mod \/ mod' = [mod EXCEPT ![m] = [mod[m] EXCEPT !.frag = cand.frag[m]]]
      BY <1>6 DEF Commit
    <3> QED
      BY <3>1, <3>2, <3>3
  <2> QED
    BY <1>6, <2>1, <2>2 DEF TypeOK, Commit
<1>7. CASE Disable(m)
  <2>1. runner' \in [Module -> RunnerRecord]
    BY <1>1, <1>7, RunnerUpdates DEF Disable
  <2>2. main' \in MainRecord
    BY <1>7 DEF TypeOK, Disable, MainRecord
  <2> QED
    BY <1>7, <2>1, <2>2 DEF TypeOK, Disable, modules, env
<1> QED
  BY <1>2, <1>3, <1>4, <1>5, <1>6, <1>7

\* The control loop keeps the types.
LEMMA TypeLoop ==
  ASSUME TypeOK, LoopStep PROVE TypeOK'
<1>1. CASE LoopScan
  BY <1>1 DEF TypeOK, LoopScan, modules, env
<1>2. CASE HandleRuntimeFailure
  <2> DEFINE f == Head(failures)
  <2>1. f \in Report /\ failures' \in Seq(Report)
    BY <1>2 DEF TypeOK, HandleRuntimeFailure
  <2>2. f.id \in Module
    BY <2>1 DEF Report
  <2> HIDE DEF f
  <2>3. runner' \in [Module -> RunnerRecord]
    <3>1. [runner[f.id] EXCEPT !.state = "Stopping", !.lease = FALSE] \in RunnerRecord
      <4>1. runner[f.id] \in RunnerRecord
        BY <2>2 DEF TypeOK
      <4> QED
        BY <4>1 DEF RunnerRecord, State
    <3>2. \/ runner' = runner
          \/ runner' = [runner EXCEPT ![f.id] = [@ EXCEPT !.state = "Stopping", !.lease = FALSE]]
      BY <1>2 DEF HandleRuntimeFailure, f
    <3> QED
      BY <3>1, <3>2 DEF TypeOK
  <2>4. op' \in [Module -> OpRecord]
    <3> DEFINE o == [IdleOp EXCEPT !.pc = "deps", !.lease = runner[f.id].lease,
                                   !.rest = TransitiveDependents(f.id), !.within = graph]
    <3>1. o \in OpRecord
      <4>1. runner[f.id].lease \in BOOLEAN
        BY <2>2 DEF TypeOK, RunnerRecord
      <4>2. TransitiveDependents(f.id) \in SUBSET Module /\ graph \in SUBSET Module
        BY DEF TypeOK, TransitiveDependents
      <4> QED
        BY <4>1, <4>2, IdleOpType DEF OpRecord
    <3>2. op' = op \/ op' = [op EXCEPT ![f.id] = o]
      BY <1>2 DEF HandleRuntimeFailure, f
    <3> HIDE DEF o
    <3> QED
      BY <3>1, <3>2 DEF TypeOK
  <2> QED
    BY <1>2, <2>1, <2>3, <2>4 DEF TypeOK, HandleRuntimeFailure, modules
<1>3. CASE LoopExit
  BY <1>3 DEF TypeOK, LoopExit, modules, env
<1>4. ASSUME NEW m \in Module, LoopClaim(m)
      PROVE  TypeOK'
  <2>1. runner' \in [Module -> RunnerRecord] /\ op' \in [Module -> OpRecord]
    BY <1>4, ClaimType DEF LoopClaim
  <2> QED
    BY <1>4, <2>1 DEF TypeOK, LoopClaim, modules, env
<1> QED
  BY <1>1, <1>2, <1>3, <1>4 DEF LoopStep

\* The goroutine of a start keeps the types.
LEMMA TypeStarts ==
  ASSUME TypeOK, NEW m \in Module, Admit(m) \/ StartReturns(m) \/ CleanupReturns(m) \/ FinishStart(m)
  PROVE  TypeOK'
<1>1. /\ op \in [Module -> OpRecord] /\ op[m] \in OpRecord
      /\ op[m].gen \in Nat /\ op[m].frag \in Nat /\ op[m].lease \in BOOLEAN
  BY DEF TypeOK, OpRecord
<1>2. CASE Admit(m)
  <2>1. op' \in [Module -> OpRecord]
    BY <1>1, <1>2, OpUpdates DEF Admit
  <2> QED
    BY <1>2, <2>1 DEF TypeOK, Admit
<1>3. CASE StartReturns(m)
  <2>1. op' \in [Module -> OpRecord]
    BY <1>1, <1>3, OpUpdates DEF StartReturns
  <2>2. mod' \in [Module -> ModRecord]
    <3>1. \A s \in {"down", "up"} : [run |-> s, gen |-> op[m].gen, frag |-> op[m].frag] \in ModRecord
      BY <1>1 DEF ModRecord
    <3>2. \E s \in {"down", "up"} :
            mod' = [mod EXCEPT ![m] = [run |-> s, gen |-> op[m].gen, frag |-> op[m].frag]]
      BY <1>3 DEF StartReturns
    <3> QED
      BY <3>1, <3>2 DEF TypeOK
  <2> QED
    BY <1>3, <2>1, <2>2 DEF TypeOK, StartReturns
<1>4. CASE CleanupReturns(m)
  <2>1. op' \in [Module -> OpRecord]
    BY <1>1, <1>4, OpUpdates DEF CleanupReturns
  <2>2. mod' \in [Module -> ModRecord]
    BY <1>4, ModUpdates DEF TypeOK, CleanupReturns
  <2> QED
    BY <1>4, <2>1, <2>2 DEF TypeOK, CleanupReturns, control, env
<1>5. CASE FinishStart(m)
  <2>1. runner \in [Module -> RunnerRecord] /\ runner[m] \in RunnerRecord
    BY DEF TypeOK
  <2>2. Recorded(m) \subseteq RunnerRecord
    <3>1. /\ [runner[m] EXCEPT !.state = "Running", !.lease = op[m].lease] \in RunnerRecord
          /\ [runner[m] EXCEPT !.state = "Unsupported"] \in RunnerRecord
      BY <1>1, <2>1 DEF RunnerRecord, State
    <3>2. FailLocked(runner[m]) \subseteq RunnerRecord
      BY <2>1, RunnerUpdates
    <3>3. op[m].result \in {"ok", "error", "unsupported"}
      BY <1>1 DEF OpRecord
    <3> QED
      BY <3>1, <3>2, <3>3 DEF Recorded
  <2>3. runner' \in [Module -> RunnerRecord]
    BY <1>5, <2>1, <2>2 DEF FinishStart
  <2>4. op' \in [Module -> OpRecord]
    BY <1>1, <1>5, IdleOpType DEF FinishStart
  <2>5. main' \in MainRecord
    BY <1>5 DEF TypeOK, FinishStart, MainRecord
  <2>6. releasing' \subseteq Module
    BY <1>5 DEF TypeOK, FinishStart, DiscardLease
  <2> QED
    BY <1>5, <2>3, <2>4, <2>5, <2>6 DEF TypeOK, FinishStart, env
<1> QED
  BY <1>2, <1>3, <1>4, <1>5

\* The goroutine of a failed module, and of its dependents, keeps the types.
LEMMA TypeStops ==
  ASSUME TypeOK, NEW m \in Module,
         \/ DependentStopped(m) \/ FailedStop(m) \/ FailedStopped(m) \/ OpStopReturns(m)
         \/ \E d \in Module : StopForDependency(m, d)
  PROVE  TypeOK'
<1>1. /\ op \in [Module -> OpRecord] /\ op[m] \in OpRecord
      /\ runner \in [Module -> RunnerRecord] /\ runner[m] \in RunnerRecord
  BY DEF TypeOK
<1>2. CASE DependentStopped(m)
  <2>1. runner' \in [Module -> RunnerRecord]
    BY <1>1, <1>2, RunnerUpdates DEF DependentStopped
  <2>2. ASSUME NEW n \in Module
        PROVE  op[n] \in OpRecord /\ [op[n] EXCEPT !.rest = @ \ {m}] \in OpRecord
    <3>1. op[n] \in OpRecord
      BY <1>1
    <3> QED
      BY <3>1 DEF OpRecord
  <2>3. op' \in [Module -> OpRecord]
    BY <1>2, <2>2, IdleOpType DEF DependentStopped, DependentOver
  <2> QED
    BY <1>2, <2>1, <2>3 DEF TypeOK, DependentStopped, modules, control, env
<1>3. CASE FailedStop(m)
  <2>1. op' \in [Module -> OpRecord]
    <3>1. [op[m] EXCEPT !.pc = "failStop"] \in OpRecord
      BY <1>1, OpUpdates
    <3> QED
      BY <1>1, <1>3, <3>1 DEF FailedStop
  <2> QED
    BY <1>3, <2>1 DEF TypeOK, FailedStop, modules, control, env
<1>4. CASE FailedStopped(m)
  <2>1. runner' \in [Module -> RunnerRecord]
    BY <1>1, <1>4, RunnerUpdates DEF FailedStopped
  <2>2. op' \in [Module -> OpRecord]
    BY <1>1, <1>4, IdleOpType DEF FailedStopped
  <2> QED
    BY <1>4, <2>1, <2>2 DEF TypeOK, FailedStopped, modules, control, env
<1>5. CASE OpStopReturns(m)
  <2>1. op' \in [Module -> OpRecord]
    <3>1. PICK p \in {"depEnd", "failEnd"} :
            op' = [op EXCEPT ![m] = [@ EXCEPT !.lease = FALSE, !.pc = p]]
      BY <1>5 DEF OpStopReturns
    <3>2. [op[m] EXCEPT !.lease = FALSE, !.pc = p] \in OpRecord
      BY <1>1, OpUpdates
    <3> QED
      BY <1>1, <3>1, <3>2
  <2>2. mod' \in [Module -> ModRecord]
    BY <1>5, ModUpdates DEF TypeOK, OpStopReturns
  <2>3. admitted' \subseteq Module
    BY <1>5 DEF TypeOK, OpStopReturns
  <2> QED
    BY <1>5, <2>1, <2>2, <2>3 DEF TypeOK, OpStopReturns, control, env
<1>6. ASSUME NEW d \in Module, StopForDependency(m, d)
      PROVE  TypeOK'
  <2>1. runner[d] \in RunnerRecord /\ runner[d].lease \in BOOLEAN
    BY <1>1 DEF RunnerRecord
  <2>2. runner' \in [Module -> RunnerRecord]
    <3>1. TakenDown(runner[d]) \in RunnerRecord
      BY <2>1, RunnerUpdates
    <3> QED
      BY <1>1, <1>6, <3>1 DEF StopForDependency
  <2>3. op' \in [Module -> OpRecord]
    <3>1. [IdleOp EXCEPT !.pc = "depStop", !.cause = m, !.lease = runner[d].lease] \in OpRecord
      BY <2>1, IdleOpType DEF OpRecord
    <3>2. [op[m] EXCEPT !.rest = @ \ {d}] \in OpRecord
      BY <1>1 DEF OpRecord
    <3>3. \/ op' = [op EXCEPT ![m] = [op[m] EXCEPT !.rest = @ \ {d}]]
          \/ op' = [op EXCEPT ![d] = [IdleOp EXCEPT !.pc = "depStop", !.cause = m,
                                                    !.lease = runner[d].lease]]
      BY <1>6 DEF StopForDependency
    <3> QED
      BY <1>1, <3>1, <3>2, <3>3
  <2> QED
    BY <1>6, <2>2, <2>3 DEF TypeOK, StopForDependency, modules, control, env
<1> QED
  BY <1>2, <1>3, <1>4, <1>5, <1>6

\* Late returns, the clock and failure reports keep the types.
LEMMA TypeEnvironment ==
  ASSUME TypeOK, NEW m \in Module,
         AsyncRelease(m) \/ RetryDue(m) \/ ReportFailure(m) \/ MainStopReturns(m)
  PROVE  TypeOK'
<1>1. CASE AsyncRelease(m)
  BY <1>1 DEF TypeOK, AsyncRelease, control, env
<1>2. CASE RetryDue(m)
  <2>1. runner' \in [Module -> RunnerRecord]
    <3>1. runner[m] \in RunnerRecord
      BY DEF TypeOK
    <3>2. [runner[m] EXCEPT !.retry = "due"] \in RunnerRecord
      BY <3>1 DEF RunnerRecord
    <3> QED
      BY <1>2, <3>2 DEF TypeOK, RetryDue
  <2> QED
    BY <1>2, <2>1 DEF TypeOK, RetryDue, modules, control, env
<1>3. CASE ReportFailure(m)
  <2>1. mod' \in [Module -> ModRecord]
    BY <1>3, ModUpdates DEF TypeOK, ReportFailure
  <2>2. [id |-> m, gen |-> mod[m].gen] \in Report
    BY DEF TypeOK, ModRecord, Report
  <2>3. failures' \in Seq(Report)
    BY <1>3, <2>2 DEF TypeOK, ReportFailure
  <2> QED
    BY <1>3, <2>1, <2>3 DEF TypeOK, ReportFailure
<1>4. CASE MainStopReturns(m)
  <2>1. mod' \in [Module -> ModRecord]
    BY <1>4, ModUpdates DEF TypeOK, MainStopReturns
  <2>2. mainStops' \in [Module -> Nat]
    BY <1>4 DEF TypeOK, MainStopReturns
  <2> QED
    BY <1>4, <2>1, <2>2 DEF TypeOK, MainStopReturns, control, env
<1> QED
  BY <1>1, <1>2, <1>3, <1>4

\* The registered modules have the types.
LEMMA TypeInit ==
  ASSUME Init PROVE TypeOK
<1>1. \A on \in BOOLEAN : NewRunner(on) \in RunnerRecord
  BY DEF NewRunner, RunnerRecord, State
<1>2. runner \in [Module -> RunnerRecord]
  <2>1. PICK E \in SUBSET Module : runner = [m \in Module |-> NewRunner(m \in E)]
    BY DEF Init
  <2>2. \A m \in Module : (m \in E) \in BOOLEAN
    OBVIOUS
  <2>3. \A m \in Module : NewRunner(m \in E) \in RunnerRecord
    BY Zenon, <1>1, <2>2
  <2> QED
    BY <2>1, <2>3
<1>3. op \in [Module -> OpRecord]
  BY IdleOpType DEF Init
<1>4. mod \in [Module -> ModRecord] /\ mainStops \in [Module -> Nat]
  BY DEF Init, ModRecord
<1>5. main \in MainRecord /\ cand \in [enabled : SUBSET Module, frag : [Module -> Nat]]
  BY DEF Init, MainRecord
<1>6. failures \in Seq(Report) /\ faults \in Nat /\ reloads \in Nat
  BY DEF Init
<1> QED
  BY <1>2, <1>3, <1>4, <1>5, <1>6 DEF Init, TypeOK

\* Type correctness of the supervisor, for every set of modules, every dependency graph and
\* every setting: in particular no Stop of stopModule is counted back that was not counted
\* out, and no index leaves the module set.
THEOREM TypeCorrect == Spec => []TypeOK
<1>1. Init => TypeOK
  BY TypeInit
<1>2. TypeOK /\ [Next]_vars => TypeOK'
  <2> SUFFICES ASSUME TypeOK, [Next]_vars PROVE TypeOK'
    OBVIOUS
  <2>1. CASE MainStep
    BY <2>1, TypeSignals, TypeReload, TypeSwap, TypeEnable, TypePerModule DEF MainStep
  <2>2. CASE LoopStep
    BY <2>2, TypeLoop
  <2>3. ASSUME NEW m \in Module, OpStep(m) \/ ModuleReturns(m) \/ RetryDue(m) \/ ReportFailure(m)
        PROVE  TypeOK'
    BY <2>3, TypeStarts, TypeStops, TypeEnvironment DEF OpStep, ModuleReturns
  <2>4. CASE UNCHANGED vars
    BY <2>4 DEF vars, TypeOK
  <2> QED
    BY <2>1, <2>2, <2>3, <2>4 DEF Next, Terminated
<1> QED
  BY <1>1, <1>2, PTL DEF Spec

-----------------------------------------------------------------------------
(* Leases: TypeOK, one holder per admitted module, and what each goroutine knows of its
   lease from its position. *)

\* LeaseOwned for one module, without the set of holders.
OneHolder(m) ==
  LET r == runner[m].lease
      o == op[m].lease
      b == m \in releasing
      s == main.cur = m /\ main.lease
  IN /\ m \in admitted <=> (r \/ o \/ b \/ s)
     /\ ~(r /\ o) /\ ~(r /\ b) /\ ~(r /\ s) /\ ~(o /\ b) /\ ~(o /\ s) /\ ~(b /\ s)

\* A step that moves no lease of m.
SameLease(m) ==
  /\ runner'[m].lease = runner[m].lease
  /\ op'[m] = op[m]
  /\ m \in admitted' <=> m \in admitted
  /\ m \in releasing' <=> m \in releasing
  /\ (main'.cur = m /\ main'.lease) <=> (main.cur = m /\ main.lease)

\* OneHolder is LeaseOwned for one module.
LEMMA HoldersForm ==
  ASSUME NEW m \in Module
  PROVE  OneHolder(m) <=>
           /\ m \in admitted <=> Holders(m) # {}
           /\ \A g, h \in Holders(m) : g = h
<1>1. /\ "runner" \in Holders(m) <=> runner[m].lease
      /\ "op" \in Holders(m) <=> op[m].lease
      /\ "release" \in Holders(m) <=> m \in releasing
      /\ "main" \in Holders(m) <=> (main.cur = m /\ main.lease)
  BY DEF Holders
<1>2. Holders(m) \subseteq {"runner", "op", "release", "main"}
  BY DEF Holders
<1>3. Holders(m) # {} <=> \/ "runner" \in Holders(m) \/ "op" \in Holders(m)
                          \/ "release" \in Holders(m) \/ "main" \in Holders(m)
  BY <1>2
<1>4. (\A g, h \in Holders(m) : g = h) <=>
        /\ ~("runner" \in Holders(m) /\ "op" \in Holders(m))
        /\ ~("runner" \in Holders(m) /\ "release" \in Holders(m))
        /\ ~("runner" \in Holders(m) /\ "main" \in Holders(m))
        /\ ~("op" \in Holders(m) /\ "release" \in Holders(m))
        /\ ~("op" \in Holders(m) /\ "main" \in Holders(m))
        /\ ~("release" \in Holders(m) /\ "main" \in Holders(m))
  BY <1>2
<1> QED
  BY <1>1, <1>3, <1>4 DEF OneHolder

\* A step that moves no lease of m and leaves m's goroutine alone keeps its invariant.
LEMMA Frame ==
  ASSUME NEW m \in Module, OneHolder(m), OpLease(m), SameLease(m)
  PROVE  OneHolder(m)' /\ OpLease(m)'
  BY DEF OneHolder, OpLease, SameLease

\* Claiming a start moves no lease: the claimed goroutine begins without one.
LEMMA ClaimLease ==
  ASSUME TypeOK, NEW m \in Module, NEW owner \in {"main", "loop"},
         ClaimStart(m, owner) \/ ClaimRefused(m),
         UNCHANGED modules, main'.cur = main.cur, main'.lease = main.lease,
         NEW n \in Module, OneHolder(n), OpLease(n)
  PROVE  OneHolder(n)' /\ OpLease(n)'
<1>1. /\ runner \in [Module -> RunnerRecord] /\ op \in [Module -> OpRecord]
      /\ runner[m] \in RunnerRecord
  BY DEF TypeOK
<1>2. admitted' = admitted /\ releasing' = releasing
  BY DEF modules
<1>3. runner'[n].lease = runner[n].lease
  <2>1. Claimed(runner[m]).lease = runner[m].lease /\ Blocked(runner[m]).lease = runner[m].lease
    BY <1>1, RunnerUpdates
  <2> QED
    BY <1>1, <2>1 DEF ClaimStart, ClaimRefused
<1>4. CASE op'[n] = op[n]
  <2>1. SameLease(n)
    BY <1>2, <1>3, <1>4 DEF SameLease
  <2> QED
    BY <2>1, Frame
<1>5. CASE n = m /\ ClaimStart(m, owner)
  <2>1. op[n].pc = "idle" /\ op'[n] = StartOp(runner[m], owner)
    BY <1>1, <1>5 DEF ClaimStart, Startable, InFlight
  <2>2. op'[n].pc = "admit" /\ op'[n].lease = FALSE /\ op'[n].result = "ok"
    <3>1. /\ StartOp(runner[m], owner).pc = "admit" /\ StartOp(runner[m], owner).lease = FALSE
          /\ StartOp(runner[m], owner).result = "ok"
      BY <1>1, StartOpType
    <3> QED
      BY <2>1, <3>1
  <2>3. ~op[n].lease
    BY <2>1 DEF OpLease
  <2> QED
    BY <1>2, <1>3, <2>2, <2>3 DEF OneHolder, OpLease
<1> QED
  BY <1>1, <1>4, <1>5 DEF ClaimStart, ClaimRefused

\* The steps of main that name no module, the swap and Enable aside, move no lease.
LEMMA QuietMainSteps ==
  ASSUME TypeOK, NEW n \in Module,
         \/ Start \/ StartCancelled \/ LaunchLoop \/ ReloadRejected \/ Reload \/ SelectPrepared
         \/ AllPrepared \/ ReloadDone \/ Shutdown \/ WaitLoop \/ WaitOps
         \/ DeadlineExceeded \/ Exit
  PROVE  SameLease(n)
<1>1. main \in MainRecord
  BY DEF TypeOK
<1>2. CASE Start
  BY <1>1, <1>2 DEF SameLease, Start, MainRecord, modules
<1>3. CASE StartCancelled
  BY <1>1, <1>3 DEF SameLease, StartCancelled, MainRecord, modules
<1>4. CASE LaunchLoop
  BY <1>1, <1>4 DEF SameLease, LaunchLoop, MainRecord, modules
<1>5. CASE ReloadRejected
  BY <1>1, <1>5 DEF SameLease, ReloadRejected, MainRecord, modules
<1>6. CASE Reload
  BY <1>1, <1>6 DEF SameLease, Reload, MainRecord, modules
<1>7. CASE SelectPrepared
  BY <1>1, <1>7 DEF SameLease, SelectPrepared, MainRecord, modules
<1>8. CASE AllPrepared
  BY <1>1, <1>8 DEF SameLease, AllPrepared, MainRecord, modules
<1>9. CASE ReloadDone
  BY <1>1, <1>9 DEF SameLease, ReloadDone, MainRecord, modules
<1>10. CASE Shutdown
  BY <1>1, <1>10 DEF SameLease, Shutdown, MainRecord, modules
<1>11. CASE WaitLoop
  BY <1>1, <1>11 DEF SameLease, WaitLoop, MainRecord, modules
<1>12. CASE WaitOps
  BY <1>1, <1>12 DEF SameLease, WaitOps, MainRecord, modules
<1>13. CASE DeadlineExceeded
  BY <1>1, <1>13 DEF SameLease, DeadlineExceeded, MainRecord, modules
<1>14. CASE Exit
  BY <1>1, <1>14 DEF SameLease, Exit, MainRecord, modules
<1> QED
  BY <1>2, <1>3, <1>4, <1>5, <1>6, <1>7, <1>8, <1>9, <1>10, <1>11, <1>12, <1>13, <1>14

\* Record updates that change neither a lease nor a goroutine move no lease.
LEMMA QuietUpdates ==
  ASSUME TypeOK, NEW n \in Module, NEW m \in Module,
         Swap \/ Enable \/ Prepare(m) \/ Commit(m) \/ Disable(m) \/ RetryDue(m) \/ ReportFailure(m)
           \/ MainStopReturns(m) \/ LoopScan \/ LoopExit
  PROVE  SameLease(n)
<1>1. /\ main \in MainRecord /\ runner \in [Module -> RunnerRecord]
      /\ runner[n] \in RunnerRecord /\ runner[m] \in RunnerRecord
  BY DEF TypeOK
<1>2. CASE Swap
  <2>1. Swapped(n).lease = runner[n].lease
    BY <1>1 DEF Swapped, RunnerRecord
  <2> QED
    BY <1>1, <1>2, <2>1 DEF SameLease, Swap, MainRecord, modules
<1>3. CASE Enable
  <2>1. [runner[n] EXCEPT !.state = "Stopped"].lease = runner[n].lease
    BY <1>1 DEF RunnerRecord
  <2>2. runner'[n].lease = runner[n].lease
    BY <1>3, <2>1 DEF Enable
  <2> QED
    BY <1>1, <1>3, <2>2 DEF SameLease, Enable, MainRecord, modules
<1>4. CASE Prepare(m)
  BY <1>1, <1>4 DEF SameLease, Prepare, MainRecord, modules
<1>5. CASE Commit(m)
  BY <1>1, <1>5 DEF SameLease, Commit, MainRecord
<1>6. CASE Disable(m)
  <2>1. AtRest(runner[m], "Disabled").lease = runner[m].lease
    BY <1>1, RunnerUpdates DEF State
  <2>2. runner'[n].lease = runner[n].lease
    BY <1>1, <1>6, <2>1 DEF Disable
  <2> QED
    BY <1>1, <1>6, <2>2 DEF SameLease, Disable, MainRecord, modules
<1>7. CASE RetryDue(m)
  <2>1. [runner[m] EXCEPT !.retry = "due"].lease = runner[m].lease
    BY <1>1 DEF RunnerRecord
  <2>2. runner'[n].lease = runner[n].lease
    BY <1>1, <1>7, <2>1 DEF RetryDue
  <2> QED
    BY <1>7, <2>2 DEF SameLease, RetryDue, modules, control
<1>8. CASE ReportFailure(m)
  BY <1>8 DEF SameLease, ReportFailure
<1>9. CASE MainStopReturns(m)
  BY <1>9 DEF SameLease, MainStopReturns, control
<1>10. CASE LoopScan
  BY <1>10 DEF SameLease, LoopScan, modules
<1>11. CASE LoopExit
  BY <1>11 DEF SameLease, LoopExit, modules
<1> QED
  BY <1>2, <1>3, <1>4, <1>5, <1>6, <1>7, <1>8, <1>9, <1>10, <1>11

\* stopModule takes the lease from the record in its first lock section, and only the call
\* that took it releases it.
LEMMA StopLease ==
  ASSUME TypeOK, NEW m \in Module, StopModule(m) \/ StopModuleDone(m),
         NEW n \in Module, OneHolder(n), OpLease(n)
  PROVE  OneHolder(n)' /\ OpLease(n)'
<1>1. /\ main \in MainRecord /\ runner \in [Module -> RunnerRecord]
      /\ runner[m] \in RunnerRecord
  BY DEF TypeOK
<1>2. /\ TakenDown(runner[m]).lease = FALSE
      /\ AtRest(runner[m], "Stopped").lease = runner[m].lease
  BY <1>1, RunnerUpdates DEF State
<1>3. NoModule # m /\ NoModule # n
  BY ModuleAssumption
<1>4. CASE StopModule(m) /\ StopActive(m)
  <2>1. main.cur = NoModule /\ main'.cur = m /\ main'.lease = runner[m].lease
    <3>1. Active(runner[m].state)
      BY <1>4 DEF StopActive
    <3>2. main.cur = NoModule /\ main' = [main EXCEPT !.cur = m, !.lease = runner[m].lease]
      BY <1>4, <3>1 DEF StopModule, StopInactive
    <3> QED
      BY <1>1, <3>2 DEF MainRecord
  <2>2. runner'[m].lease = FALSE /\ (n # m => runner'[n] = runner[n])
    BY <1>1, <1>2, <1>4 DEF StopActive
  <2>3. op' = op /\ admitted' = admitted /\ releasing' = releasing
    BY <1>4 DEF StopModule
  <2>4. CASE n = m
    BY <1>3, <2>1, <2>2, <2>3, <2>4 DEF OneHolder, OpLease
  <2>5. CASE n # m
    <3>1. SameLease(n)
      BY <1>3, <2>1, <2>2, <2>3, <2>5 DEF SameLease
    <3> QED
      BY <3>1, Frame
  <2> QED
    BY <2>4, <2>5
<1>5. CASE StopModule(m) /\ StopInactive(m)
  <2>1. main'.cur = main.cur /\ main'.lease = main.lease
    <3>1. ~Active(runner[m].state)
      BY <1>5 DEF StopInactive
    <3>2. main' = [main EXCEPT !.todo = @ \ {m}] \/ main' = [main EXCEPT !.pc = "disable"]
      BY <1>5, <3>1 DEF StopModule, StopActive
    <3> QED
      BY <1>1, <3>2 DEF MainRecord
  <2>2. runner'[n].lease = runner[n].lease
    BY <1>1, <1>2, <1>5 DEF StopInactive
  <2>3. SameLease(n)
    BY <1>5, <2>1, <2>2 DEF SameLease, StopModule
  <2> QED
    BY <2>3, Frame
<1>6. CASE StopModuleDone(m)
  <2>1. main.cur = m /\ main'.cur = NoModule
    BY <1>1, <1>6 DEF StopModuleDone, MainRecord
  <2>2. runner'[n].lease = runner[n].lease
    BY <1>1, <1>2, <1>6 DEF StopModuleDone
  <2>3. /\ op' = op /\ releasing' = releasing
        /\ admitted' = IF main.lease THEN admitted \ {m} ELSE admitted
    BY <1>6 DEF StopModuleDone
  <2> QED
    BY <1>3, <2>1, <2>2, <2>3 DEF OneHolder, OpLease
<1> QED
  BY <1>4, <1>5, <1>6 DEF StopModule

\* A start acquires the lease, and hands it to the record, to the cleanup or to the
\* background release, never to two of them.
LEMMA StartLease ==
  ASSUME TypeOK, NEW m \in Module,
         Admit(m) \/ StartReturns(m) \/ CleanupReturns(m) \/ FinishStart(m) \/ AsyncRelease(m),
         NEW n \in Module, OneHolder(n), OpLease(n)
  PROVE  OneHolder(n)' /\ OpLease(n)'
<1>1. /\ op \in [Module -> OpRecord] /\ op[m] \in OpRecord
      /\ runner \in [Module -> RunnerRecord] /\ runner[m] \in RunnerRecord
  BY DEF TypeOK
<1>2. CASE Admit(m)
  <2>1. CASE /\ m \notin admitted /\ admitted' = admitted \cup {m}
             /\ op' = [op EXCEPT ![m] = [@ EXCEPT !.pc = "start", !.lease = TRUE]]
    <3>1. n = m => /\ op'[n].pc = "start" /\ op'[n].lease = TRUE /\ op'[n].result = op[n].result
      BY <1>1, <2>1 DEF OpRecord
    <3>2. n # m => op'[n] = op[n]
      BY <1>1, <2>1
    <3> QED
      BY <1>2, <2>1, <3>1, <3>2 DEF Admit, OneHolder, OpLease
  <2>2. CASE /\ admitted' = admitted
             /\ op' = [op EXCEPT ![m] = [@ EXCEPT !.pc = "finish", !.result = "error"]]
    <3>1. n = m => /\ op'[n].pc = "finish" /\ op'[n].lease = op[n].lease /\ op'[n].result = "error"
      BY <1>1, <2>2 DEF OpRecord
    <3>2. n # m => op'[n] = op[n]
      BY <1>1, <2>2
    <3> QED
      BY <1>2, <2>2, <3>1, <3>2 DEF Admit, OneHolder, OpLease
  <2> QED
    BY <1>2, <2>1, <2>2 DEF Admit
<1>3. CASE StartReturns(m)
  <2>1. n = m => /\ op'[n].lease = op[n].lease
                 /\ \/ op'[n].pc = "finish" /\ op'[n].result = op[n].result
                    \/ op'[n].pc = "clean" /\ op'[n].result # "ok"
    <3>1. \/ op' = [op EXCEPT ![m].pc = "finish"]
          \/ \E res \in {"error", "unsupported"} :
               op' = [op EXCEPT ![m] = [@ EXCEPT !.pc = "clean", !.result = res]]
      BY <1>3 DEF StartReturns
    <3>2. CASE op' = [op EXCEPT ![m].pc = "finish"]
      BY <1>1, <3>2 DEF OpRecord
    <3>3. ASSUME NEW res \in {"error", "unsupported"},
                 op' = [op EXCEPT ![m] = [@ EXCEPT !.pc = "clean", !.result = res]]
          PROVE  n = m => op'[n].lease = op[n].lease /\ op'[n].pc = "clean" /\ op'[n].result # "ok"
      BY <1>1, <3>3 DEF OpRecord
    <3> QED
      BY <3>1, <3>2, <3>3
  <2>2. n # m => op'[n] = op[n]
    BY <1>1, <1>3 DEF StartReturns
  <2>3. op[m].pc = "start"
    BY <1>3 DEF StartReturns
  <2> QED
    BY <1>3, <2>1, <2>2, <2>3 DEF StartReturns, OneHolder, OpLease
<1>4. CASE CleanupReturns(m)
  <2>1. n = m => /\ op'[n].pc = "finish" /\ op'[n].lease = FALSE /\ op'[n].result = op[n].result
    BY <1>1, <1>4 DEF CleanupReturns, OpRecord
  <2>2. n # m => op'[n] = op[n]
    BY <1>1, <1>4 DEF CleanupReturns
  <2>3. op[m].pc = "clean"
    BY <1>4 DEF CleanupReturns
  <2> QED
    BY <1>4, <2>1, <2>2, <2>3 DEF CleanupReturns, OneHolder, OpLease, control
<1>5. CASE FinishStart(m)
  <2>1. /\ main'.cur = main.cur /\ main'.lease = main.lease
        /\ admitted' = admitted /\ op[m].pc = "finish"
    BY <1>5 DEF TypeOK, FinishStart, MainRecord
  <2>2. n = m => op'[n] = IdleOp
    BY <1>1, <1>5 DEF FinishStart
  <2>3. n # m => op'[n] = op[n]
    BY <1>1, <1>5 DEF FinishStart
  <2>4. IdleOp.pc = "idle" /\ IdleOp.lease = FALSE
    BY DEF IdleOp
  <2>5. CASE n # m
    <3>1. SameLease(n)
      BY <1>1, <1>5, <2>1, <2>3, <2>5 DEF FinishStart, SameLease, DiscardLease
    <3> QED
      BY <3>1, Frame
  <2>6. CASE n = m /\ Superseded(m) /\ DiscardLease(m) /\ UNCHANGED runner
    BY <2>1, <2>2, <2>4, <2>6 DEF OneHolder, OpLease, DiscardLease
  <2>7. ASSUME n = m, UNCHANGED releasing,
               NEW r \in Recorded(m), runner' = [runner EXCEPT ![m] = r]
        PROVE  OneHolder(n)' /\ OpLease(n)'
    <3>1. IF op[m].result = "ok" THEN r.lease = op[m].lease ELSE r.lease = runner[m].lease
      <4>1. [runner[m] EXCEPT !.state = "Running", !.lease = op[m].lease].lease = op[m].lease
        BY <1>1 DEF RunnerRecord
      <4>2. [runner[m] EXCEPT !.state = "Unsupported"].lease = runner[m].lease
        BY <1>1 DEF RunnerRecord
      <4>3. \A q \in FailLocked(runner[m]) : q.lease = runner[m].lease
        BY <1>1, RunnerUpdates
      <4>4. op[m].result \in {"ok", "error", "unsupported"}
        BY <1>1 DEF OpRecord
      <4> QED
        BY <2>7, <4>1, <4>2, <4>3, <4>4 DEF Recorded
    <3>2. runner'[n].lease = r.lease
      BY <1>1, <2>7
    <3> QED
      BY <2>1, <2>2, <2>4, <2>7, <3>1, <3>2 DEF OneHolder, OpLease
  <2> QED
    BY <1>5, <2>5, <2>6, <2>7 DEF FinishStart
<1>6. CASE AsyncRelease(m)
  BY <1>6 DEF AsyncRelease, OneHolder, OpLease, control
<1> QED
  BY <1>2, <1>3, <1>4, <1>5, <1>6

\* handleRuntimeFailure passes the lease of the failed module to its goroutine.
LEMMA FailureLease ==
  ASSUME TypeOK, HandleRuntimeFailure,
         NEW n \in Module, OneHolder(n), OpLease(n)
  PROVE  OneHolder(n)' /\ OpLease(n)'
<1>1. /\ op \in [Module -> OpRecord] /\ runner \in [Module -> RunnerRecord]
  BY DEF TypeOK
<1>2. /\ main' = main /\ admitted' = admitted /\ releasing' = releasing
  BY DEF HandleRuntimeFailure, modules
<1>3. CASE runner' = runner /\ op' = op
  BY <1>2, <1>3, Frame DEF SameLease
<1>4. CASE ~(runner' = runner /\ op' = op)
  <2> DEFINE f == Head(failures)
             o == [IdleOp EXCEPT !.pc = "deps", !.lease = runner[f.id].lease,
                                 !.rest = TransitiveDependents(f.id), !.within = graph]
             r == [runner[f.id] EXCEPT !.state = "Stopping", !.lease = FALSE]
  <2>1. f \in Report
    BY DEF TypeOK, HandleRuntimeFailure
  <2>2. f.id \in Module /\ runner[f.id] \in RunnerRecord
    BY <1>1, <2>1 DEF Report
  <2>3. runner' = [runner EXCEPT ![f.id] = r] /\ op' = [op EXCEPT ![f.id] = o] /\ op[f.id].pc = "idle"
    BY <1>4 DEF HandleRuntimeFailure, Current, InFlight
  <2>4. o.pc = "deps" /\ o.lease = runner[f.id].lease
    BY DEF IdleOp
  <2>5. r.lease = FALSE
    BY <2>2 DEF RunnerRecord
  <2> HIDE DEF f, o, r
  <2>6. CASE n = f.id
    <3>1. op'[n] = o /\ runner'[n] = r
      BY <1>1, <2>2, <2>3, <2>6
    <3> QED
      BY <1>2, <2>3, <2>4, <2>5, <2>6, <3>1 DEF OneHolder, OpLease
  <2>7. CASE n # f.id
    <3>1. SameLease(n)
      BY <1>1, <1>2, <2>3, <2>7 DEF SameLease
    <3> QED
      BY <3>1, Frame
  <2> QED
    BY <2>6, <2>7
<1> QED
  BY <1>3, <1>4

\* A dependency cascade passes the lease of every dependent to the goroutine that stops it.
LEMMA CascadeLease ==
  ASSUME TypeOK, NEW f \in Module, NEW m \in Module,
         \/ StopForDependency(f, m) \/ DependentStopped(m) \/ FailedStop(m) \/ FailedStopped(m)
         \/ OpStopReturns(m),
         NEW n \in Module, OneHolder(n), OpLease(n)
  PROVE  OneHolder(n)' /\ OpLease(n)'
<1>1. /\ op \in [Module -> OpRecord] /\ op[m] \in OpRecord /\ op[f] \in OpRecord /\ op[n] \in OpRecord
      /\ runner \in [Module -> RunnerRecord] /\ runner[m] \in RunnerRecord
  BY DEF TypeOK
<1>2. IdleOp.pc = "idle" /\ IdleOp.lease = FALSE
  BY DEF IdleOp
<1>3. CASE StopForDependency(f, m)
  <2>1. main' = main /\ admitted' = admitted /\ releasing' = releasing /\ op[f].pc = "deps"
    BY <1>3 DEF StopForDependency, NextDependent, modules, control
  <2>2. CASE op' = [op EXCEPT ![f].rest = @ \ {m}] /\ UNCHANGED runner
    <3>1. op'[n].pc = op[n].pc /\ op'[n].lease = op[n].lease /\ op'[n].result = op[n].result
      BY <1>1, <2>2 DEF OpRecord
    <3> QED
      BY <2>1, <2>2, <3>1 DEF OneHolder, OpLease
  <2>3. CASE /\ ~InFlight(m)
             /\ runner' = [runner EXCEPT ![m] = TakenDown(@)]
             /\ op' = [op EXCEPT ![m] = [IdleOp EXCEPT !.pc = "depStop", !.cause = f,
                                                       !.lease = runner[m].lease]]
    <3> DEFINE o == [IdleOp EXCEPT !.pc = "depStop", !.cause = f, !.lease = runner[m].lease]
    <3>1. o.pc = "depStop" /\ o.lease = runner[m].lease
      BY DEF IdleOp
    <3>2. TakenDown(runner[m]).lease = FALSE
      BY <1>1, RunnerUpdates
    <3>3. op' = [op EXCEPT ![m] = o] /\ op[m].pc = "idle"
      BY <2>3 DEF InFlight
    <3> HIDE DEF o
    <3>4. CASE n = m
      <4>1. op'[n] = o /\ runner'[n].lease = FALSE
        BY <1>1, <2>3, <3>2, <3>3, <3>4
      <4> QED
        BY <2>1, <3>1, <3>3, <3>4, <4>1 DEF OneHolder, OpLease
    <3>5. CASE n # m
      <4>1. SameLease(n)
        BY <1>1, <2>1, <2>3, <3>3, <3>5 DEF SameLease
      <4> QED
        BY <4>1, Frame
    <3> QED
      BY <3>4, <3>5
  <2> QED
    BY <1>3, <2>2, <2>3 DEF StopForDependency
<1>4. CASE DependentStopped(m)
  <2>1. main' = main /\ admitted' = admitted /\ releasing' = releasing /\ op[m].pc = "depEnd"
    BY <1>4 DEF DependentStopped, modules, control
  <2>2. runner'[n].lease = runner[n].lease
    <3>1. Blocked(runner[m]).lease = runner[m].lease
      BY <1>1, RunnerUpdates
    <3> QED
      BY <1>1, <1>4, <3>1 DEF DependentStopped
  <2>3. n = m => op'[n] = IdleOp
    BY <1>4 DEF DependentStopped, DependentOver
  <2>4. n # m => /\ op'[n].pc = op[n].pc /\ op'[n].lease = op[n].lease
                 /\ op'[n].result = op[n].result
    <3>1. n # m => op'[n] = op[n] \/ op'[n] = [op[n] EXCEPT !.rest = @ \ {m}]
      BY <1>4 DEF DependentStopped, DependentOver
    <3> QED
      BY <1>1, <3>1 DEF OpRecord
  <2> QED
    BY <1>2, <2>1, <2>2, <2>3, <2>4 DEF OneHolder, OpLease
<1>5. CASE FailedStop(m)
  <2>1. op'[n].lease = op[n].lease /\ op'[n].result = op[n].result
    BY <1>1, <1>5 DEF FailedStop, OpRecord
  <2>2. IF n = m THEN op'[n].pc = "failStop" ELSE op'[n].pc = op[n].pc
    BY <1>1, <1>5 DEF FailedStop, OpRecord
  <2> QED
    BY <1>5, <2>1, <2>2 DEF FailedStop, OneHolder, OpLease, modules, control
<1>6. CASE FailedStopped(m)
  <2>1. main' = main /\ admitted' = admitted /\ releasing' = releasing /\ op[m].pc = "failEnd"
    BY <1>6 DEF FailedStopped, modules, control
  <2>2. runner'[n].lease = runner[n].lease
    <3>1. PICK r \in FailLocked(runner[m]) : runner' = [runner EXCEPT ![m] = r]
      BY <1>6 DEF FailedStopped
    <3>2. r.lease = runner[m].lease
      BY <1>1, RunnerUpdates
    <3> QED
      BY <1>1, <3>1, <3>2
  <2>3. IF n = m THEN op'[n] = IdleOp ELSE op'[n] = op[n]
    BY <1>1, <1>6 DEF FailedStopped
  <2> QED
    BY <1>2, <2>1, <2>2, <2>3 DEF OneHolder, OpLease
<1>7. CASE OpStopReturns(m)
  <2>1. /\ main' = main /\ runner' = runner /\ releasing' = releasing
        /\ op[m].pc \in {"depStop", "failStop"}
        /\ admitted' = IF op[m].lease THEN admitted \ {m} ELSE admitted
    BY <1>7 DEF OpStopReturns, control
  <2>2. n = m => op'[n].lease = FALSE /\ op'[n].pc \in {"depEnd", "failEnd"}
    BY <1>1, <1>7 DEF OpStopReturns, OpRecord
  <2>3. n # m => op'[n] = op[n]
    BY <1>1, <1>7 DEF OpStopReturns
  <2> QED
    BY <2>1, <2>2, <2>3 DEF OneHolder, OpLease
<1> QED
  BY <1>3, <1>4, <1>5, <1>6, <1>7

\* Every admission slot of the capability runtime has exactly one owner, for every set of
\* modules and graph and under every interleaving: restarts, cascades, overrun deadlines,
\* reloads and a shutdown neither lose a lease nor release one twice. The induction needs
\* OpLease: what each goroutine's position says of the lease it holds.
THEOREM LeaseSafe == Spec => [](LeaseInv /\ LeaseOwned)
<1> DEFINE Inv == \A n \in Module : OneHolder(n) /\ OpLease(n)
<1>1. Init => Inv
  <2> SUFFICES ASSUME Init, NEW n \in Module PROVE OneHolder(n) /\ OpLease(n)
    OBVIOUS
  <2>1. op[n].pc = "idle" /\ op[n].lease = FALSE /\ admitted = {} /\ releasing = {}
    BY DEF Init, IdleOp
  <2>2. runner[n].lease = FALSE /\ main.lease = FALSE
    BY DEF Init, NewRunner
  <2> QED
    BY <2>1, <2>2 DEF OneHolder, OpLease
<1>2. TypeOK /\ Inv /\ [Next]_vars => Inv'
  <2> SUFFICES ASSUME TypeOK, Inv, [Next]_vars, NEW n \in Module
               PROVE  OneHolder(n)' /\ OpLease(n)'
    BY DEF Inv
  <2>1. OneHolder(n) /\ OpLease(n)
    BY DEF Inv
  <2> HIDE DEF Inv
  <2>2. CASE SameLease(n)
    BY <2>1, <2>2, Frame
  <2>3. CASE MainStep
    <3>1. ASSUME NEW m \in Module, StartOnce(m)
          PROVE  OneHolder(n)' /\ OpLease(n)'
      <4>1. main'.cur = main.cur /\ main'.lease = main.lease
        BY <3>1 DEF TypeOK, MainRecord, StartOnce
      <4> QED
        BY <2>1, <3>1, <4>1, ClaimLease DEF StartOnce
    <3>2. ASSUME NEW m \in Module, StopModule(m) \/ StopModuleDone(m)
          PROVE  OneHolder(n)' /\ OpLease(n)'
      BY <2>1, <3>2, StopLease
    <3>3. ASSUME NEW m \in Module, Prepare(m) \/ Commit(m) \/ Disable(m)
          PROVE  OneHolder(n)' /\ OpLease(n)'
      BY <2>2, <3>3, QuietUpdates
    <3>4. CASE Swap \/ Enable
      BY <2>2, <3>4, QuietUpdates
    <3> QED
      BY <2>2, <2>3, <3>1, <3>2, <3>3, <3>4, QuietMainSteps DEF MainStep
  <2>4. CASE LoopStep
    <3>1. ASSUME NEW m \in Module, LoopClaim(m)
          PROVE  OneHolder(n)' /\ OpLease(n)'
      BY <2>1, <3>1, ClaimLease DEF LoopClaim
    <3> QED
      BY <2>1, <2>2, <2>4, <3>1, QuietUpdates, FailureLease DEF LoopStep
  <2>5. ASSUME NEW m \in Module, OpStep(m)
        PROVE  OneHolder(n)' /\ OpLease(n)'
    BY <2>1, <2>5, StartLease, CascadeLease DEF OpStep
  <2>6. ASSUME NEW m \in Module, ModuleReturns(m)
        PROVE  OneHolder(n)' /\ OpLease(n)'
    BY <2>1, <2>2, <2>6, StartLease, CascadeLease, QuietUpdates DEF ModuleReturns
  <2>7. ASSUME NEW m \in Module, RetryDue(m) \/ ReportFailure(m)
        PROVE  OneHolder(n)' /\ OpLease(n)'
    BY <2>2, <2>7, QuietUpdates
  <2>8. CASE UNCHANGED vars
    BY <2>2, <2>8 DEF vars, SameLease
  <2> QED
    BY <2>3, <2>4, <2>5, <2>6, <2>7, <2>8 DEF Next, Terminated
<1>3. Inv => LeaseInv /\ LeaseOwned
  BY HoldersForm DEF LeaseInv, LeaseOwned, Inv
<1> HIDE DEF Inv
<1> QED
  BY <1>1, <1>2, <1>3, TypeCorrect, PTL DEF Spec

-----------------------------------------------------------------------------
(* The record of a module and the module: the goroutine that starts the instance of the
   record is the only one, and what Start has brought up is what the record says runs. *)

\* The positions of a goroutine that starts a module.
StartPcs == {"admit", "start", "clean", "finish"}

\* The goroutine of m is starting the instance the record is about.
Launching(m) == op[m].pc \in StartPcs /\ ~Superseded(m)

\* The positions of main within a reload.
ReloadPcs == {"select", "prepare", "commit", "reloadStop", "disable", "reloadStart"}

\* What main works on, from its position: only modules that nobody may start are stopped.
MainPlace ==
  /\ main.cur # NoModule =>
       \/ main.pc = "reloadStop" /\ FirstOf(main.cur, main.todo, RegRank)
       \/ main.pc = "stopAll" /\ LastOf(main.cur, main.todo, StartRank[graph])
  /\ main.pc \in {"waitLoop", "waitOps", "stopAll"} => stopped
  /\ main.pc \in ReloadPcs => MaxReloads # 0
  /\ main.pc \in {"reloadStop", "disable"} => \A m \in main.todo : ~runner[m].enabled
  /\ \A m \in Module : InFlight(m) /\ op[m].owner = "main" =>
       main.pc \in {"bootStart", "reloadStart"} /\ m \in main.todo

\* The record of m, its goroutine, its calls and the module itself fit together.
Fits(m) ==
  /\ mainStops[m] > 0 => main.cur = m \/ (stopped /\ Overrun)
  /\ op[m].pc \in StartPcs => op[m].gen <= runner[m].gen
  /\ Launching(m) => runner[m].state = "Starting" /\ main.cur # m /\ mainStops[m] = 0
  /\ Launching(m) /\ op[m].pc = "finish" /\ op[m].result = "ok" =>
       mod[m].run # "down" /\ mod[m].gen = op[m].gen
  /\ runner[m].state = "Starting" => Launching(m)
  /\ runner[m].state = "Running" =>
       /\ runner[m].lease /\ mod[m].run # "down" /\ mod[m].gen = runner[m].gen
       /\ ~InFlight(m) /\ main.cur # m /\ mainStops[m] = 0
  /\ runner[m].lease => runner[m].state = "Running"
  /\ runner[m].state = "Stopping" =>
       \/ InFlight(m) /\ op[m].pc \notin StartPcs
       \/ main.cur = m

\* A module about to be marked Disabled is at rest.
DisablePlace ==
  main.pc = "disable" =>
    \A m \in Module : FirstOf(m, main.todo, RegRank) => ~Active(runner[m].state)

\* RunningIsUp as an inductive invariant (with TypeOK).
CallInv == MainPlace /\ DisablePlace /\ \A m \in Module : Fits(m)

-----------------------------------------------------------------------------
(* What the record updates and the claim do to the fields the invariants read. *)

\* Who may be started.
LEMMA StartableStates ==
  ASSUME NEW s \in State, CanTransition(s, "Starting")
  PROVE  s \in {"Registered", "Starting", "Stopped", "Failed", "CrashLooping", "Disabled"}
  BY DEF CanTransition, Allowed, State

\* The state, generation and switch of every updated record.
LEMMA RunnerFields ==
  ASSUME NEW r \in RunnerRecord
  PROVE  /\ Blocked(r).state = "Failed" /\ Blocked(r).gen = r.gen /\ Blocked(r).enabled = r.enabled
         /\ Claimed(r).state = "Starting" /\ Claimed(r).gen = r.gen + 1
         /\ Claimed(r).enabled = r.enabled
         /\ TakenDown(r).state = "Stopping" /\ TakenDown(r).gen = r.gen + 1
         /\ TakenDown(r).enabled = r.enabled
         /\ \A s \in State : /\ AtRest(r, s).state = s /\ AtRest(r, s).gen = r.gen
                             /\ AtRest(r, s).enabled = r.enabled
         /\ \A q \in FailLocked(r) : /\ q.state \in {"Failed", "CrashLooping"} /\ q.gen = r.gen
                                     /\ q.enabled = r.enabled
<1>1. Blocked(r).state = "Failed" /\ Blocked(r).gen = r.gen /\ Blocked(r).enabled = r.enabled
  BY DEF Blocked, RunnerRecord
<1>2. /\ Claimed(r).state = "Starting" /\ Claimed(r).gen = r.gen + 1
      /\ Claimed(r).enabled = r.enabled
  BY DEF Claimed, RunnerRecord
<1>3. /\ TakenDown(r).state = "Stopping" /\ TakenDown(r).gen = r.gen + 1
      /\ TakenDown(r).enabled = r.enabled
  BY DEF TakenDown, RunnerRecord
<1>4. \A s \in State : /\ AtRest(r, s).state = s /\ AtRest(r, s).gen = r.gen
                       /\ AtRest(r, s).enabled = r.enabled
  BY DEF AtRest, RunnerRecord
<1>5. ASSUME NEW q \in FailLocked(r)
      PROVE  q.state \in {"Failed", "CrashLooping"} /\ q.gen = r.gen /\ q.enabled = r.enabled
  BY <1>5 DEF FailLocked, RunnerRecord
<1> QED
  BY <1>1, <1>2, <1>3, <1>4, <1>5

\* claimStart claims an idle module that may start, defers it, or leaves all as it is.
LEMMA ClaimEffect ==
  ASSUME TypeOK, NEW m \in Module, NEW owner \in {"main", "loop"},
         ClaimStart(m, owner) \/ ClaimRefused(m), NEW n \in Module
  PROVE  \/ /\ n = m /\ Startable(n) /\ ~DependencyDown(n)
            /\ runner'[n].state = "Starting" /\ runner'[n].gen = runner[n].gen + 1
            /\ runner'[n].lease = runner[n].lease /\ runner'[n].enabled = runner[n].enabled
            /\ op'[n].pc = "admit" /\ op'[n].gen = runner'[n].gen /\ op'[n].result = "ok"
            /\ op'[n].owner = owner
         \/ /\ n = m /\ Startable(n) /\ op'[n] = op[n]
            /\ runner'[n].state = "Failed" /\ runner'[n].gen = runner[n].gen
            /\ runner'[n].lease = runner[n].lease /\ runner'[n].enabled = runner[n].enabled
         \/ runner'[n] = runner[n] /\ op'[n] = op[n]
<1>1. /\ runner \in [Module -> RunnerRecord] /\ op \in [Module -> OpRecord]
      /\ runner[n] \in RunnerRecord
  BY DEF TypeOK
<1>2. CASE n # m
  BY <1>1, <1>2 DEF ClaimStart, ClaimRefused
<1>3. CASE n = m /\ ClaimStart(m, owner)
  <2>1. runner'[n] = Claimed(runner[n]) /\ op'[n] = StartOp(runner[n], owner)
    BY <1>1, <1>3 DEF ClaimStart
  <2>2. Startable(n) /\ ~DependencyDown(n)
    BY <1>3 DEF ClaimStart
  <2>3. StartOp(runner[n], owner).gen = runner[n].gen + 1
    <3> DEFINE g == runner[n].gen + 1
    <3>1. StartOp(runner[n], owner)
            = [IdleOp EXCEPT !.pc = "admit", !.owner = owner, !.gen = g, !.frag = runner[n].frag]
      BY Zenon DEF StartOp
    <3> HIDE DEF g
    <3>2. StartOp(runner[n], owner).gen = g
      BY <3>1 DEF IdleOp
    <3> QED
      BY <3>2 DEF g
  <2>4. /\ runner'[n].state = "Starting" /\ runner'[n].gen = runner[n].gen + 1
        /\ runner'[n].lease = runner[n].lease /\ runner'[n].enabled = runner[n].enabled
    <3>1. /\ Claimed(runner[n]).state = "Starting"
          /\ Claimed(runner[n]).gen = runner[n].gen + 1
          /\ Claimed(runner[n]).lease = runner[n].lease
          /\ Claimed(runner[n]).enabled = runner[n].enabled
      BY <1>1, RunnerFields, RunnerUpdates
    <3> QED
      BY <2>1, <3>1
  <2>5. op'[n].pc = "admit" /\ op'[n].result = "ok" /\ op'[n].owner = owner
    <3>1. StartOp(runner[n], owner).pc = "admit" /\ StartOp(runner[n], owner).result = "ok"
      BY <1>1, StartOpType
    <3>2. StartOp(runner[n], owner).owner = owner
      <4> DEFINE g == runner[n].gen + 1
      <4>1. StartOp(runner[n], owner)
              = [IdleOp EXCEPT !.pc = "admit", !.owner = owner, !.gen = g, !.frag = runner[n].frag]
        BY Zenon DEF StartOp
      <4> HIDE DEF g
      <4> QED
        BY <4>1 DEF IdleOp
    <3> QED
      BY <2>1, <3>1, <3>2
  <2> QED
    BY <1>3, <2>1, <2>2, <2>3, <2>4, <2>5
<1>4. CASE n = m /\ ClaimRefused(m)
  <2>1. CASE UNCHANGED runner
    BY <1>4, <2>1 DEF ClaimRefused
  <2>2. CASE Startable(m) /\ runner' = [runner EXCEPT ![m] = Blocked(@)]
    <3>1. runner'[n] = Blocked(runner[n]) /\ op'[n] = op[n] /\ Startable(n)
      BY <1>1, <1>4, <2>2 DEF ClaimRefused
    <3>2. /\ runner'[n].state = "Failed" /\ runner'[n].gen = runner[n].gen
          /\ runner'[n].lease = runner[n].lease /\ runner'[n].enabled = runner[n].enabled
      <4>1. /\ Blocked(runner[n]).state = "Failed" /\ Blocked(runner[n]).gen = runner[n].gen
            /\ Blocked(runner[n]).lease = runner[n].lease
            /\ Blocked(runner[n]).enabled = runner[n].enabled
        BY <1>1, RunnerFields, RunnerUpdates
      <4> QED
        BY <3>1, <4>1
    <3> QED
      BY <1>4, <3>1, <3>2
  <2> QED
    BY <1>4, <2>1, <2>2 DEF ClaimRefused
<1> QED
  BY <1>2, <1>3, <1>4

-----------------------------------------------------------------------------
(* Fits is kept by every step, one lemma per actor. *)

\* A step that does nothing to m that Fits can see: its record may change between states at
\* rest, and its goroutine between positions of a stop.
SameFit(m) ==
  /\ runner'[m].gen = runner[m].gen /\ runner'[m].lease = runner[m].lease
  /\ \/ runner'[m].state = runner[m].state
     \/ ~Active(runner[m].state) /\ ~Active(runner'[m].state)
  /\ op'[m].gen = op[m].gen /\ op'[m].result = op[m].result
  /\ \/ op'[m].pc = op[m].pc
     \/ {op[m].pc, op'[m].pc} \subseteq {"deps", "failStop", "failEnd", "depStop", "depEnd"}
  /\ mod'[m].gen = mod[m].gen /\ (mod'[m].run = "down" <=> mod[m].run = "down")
  /\ mainStops'[m] = mainStops[m]
  /\ main'.cur = m <=> main.cur = m
  /\ stopped => stopped'

LEMMA FrameFits ==
  ASSUME NEW m \in Module, Fits(m), SameFit(m)
  PROVE  Fits(m)'
<1>1. CASE runner'[m].state = runner[m].state
  BY <1>1 DEF Fits, SameFit, Launching, Superseded, InFlight, StartPcs
<1>2. CASE ~Active(runner[m].state) /\ ~Active(runner'[m].state)
  BY <1>2 DEF Fits, SameFit, Launching, Superseded, InFlight, StartPcs, Active
<1> QED
  BY <1>1, <1>2 DEF SameFit

\* A module main is stopping, or has a Stop of main's in it, may not be started.
LEMMA NotStartable ==
  ASSUME TypeOK, MainPlace, NEW m \in Module, Fits(m), Startable(m)
  PROVE  /\ main.cur # m /\ mainStops[m] = 0
         /\ runner[m].state \in {"Registered", "Stopped", "Failed", "CrashLooping", "Disabled"}
<1>1. runner[m] \in RunnerRecord /\ mainStops[m] \in Nat
  BY DEF TypeOK
<1>2. main.cur # m
  BY ModuleAssumption DEF Startable, MainPlace, FirstOf
<1>3. mainStops[m] = 0
  BY <1>1, <1>2 DEF Startable, Fits
<1>4. runner[m].state # "Starting"
  BY DEF Startable, Fits, Launching, InFlight, StartPcs
<1>5. runner[m].state \in State
  BY <1>1 DEF RunnerRecord
<1> QED
  BY <1>2, <1>3, <1>4, <1>5, StartableStates DEF Startable

\* A claim begins a start of the record's own generation.
LEMMA FitsClaim ==
  ASSUME TypeOK, MainPlace, NEW m \in Module, NEW owner \in {"main", "loop"},
         ClaimStart(m, owner) \/ ClaimRefused(m),
         UNCHANGED modules, stopped' = stopped, main'.cur = main.cur,
         NEW n \in Module, Fits(n)
  PROVE  Fits(n)'
<1>1. mod' = mod /\ mainStops' = mainStops /\ runner[n].gen \in Nat
  BY DEF modules, TypeOK, RunnerRecord
<1>2. CASE runner'[n] = runner[n] /\ op'[n] = op[n]
  BY <1>1, <1>2, FrameFits DEF SameFit
<1>3. CASE /\ Startable(n) /\ op'[n] = op[n]
           /\ runner'[n].state = "Failed" /\ runner'[n].gen = runner[n].gen
           /\ runner'[n].lease = runner[n].lease
  <2>1. SameFit(n)
    BY <1>1, <1>3, NotStartable DEF SameFit, Active
  <2> QED
    BY <2>1, FrameFits
<1>4. CASE /\ Startable(n)
           /\ runner'[n].state = "Starting" /\ runner'[n].gen = runner[n].gen + 1
           /\ runner'[n].lease = runner[n].lease
           /\ op'[n].pc = "admit" /\ op'[n].gen = runner'[n].gen /\ op'[n].result = "ok"
  <2>1. main'.cur # n /\ mainStops'[n] = 0 /\ ~runner[n].lease
    BY <1>1, <1>4, NotStartable DEF Fits
  <2> QED
    BY <1>1, <1>4, <2>1 DEF Fits, Launching, Superseded, InFlight, StartPcs
<1> QED
  BY <1>2, <1>3, <1>4, ClaimEffect

\* The steps of main that name no module do nothing to a module that Fits can see.
LEMMA FitsMain ==
  ASSUME TypeOK, NEW n \in Module,
         \/ Start \/ StartCancelled \/ LaunchLoop \/ ReloadRejected \/ Reload \/ SelectPrepared
         \/ AllPrepared \/ ReloadDone \/ Shutdown \/ WaitLoop \/ WaitOps
         \/ DeadlineExceeded \/ Exit
  PROVE  SameFit(n)
<1>1. runner' = runner /\ op' = op /\ mod' = mod /\ mainStops' = mainStops
  BY DEF Start, StartCancelled, LaunchLoop, ReloadRejected, Reload, SelectPrepared, AllPrepared,
         ReloadDone, Shutdown, WaitLoop, WaitOps, DeadlineExceeded, Exit, modules
<1>2. stopped => stopped'
  BY DEF Start, StartCancelled, LaunchLoop, ReloadRejected, Reload, SelectPrepared, AllPrepared,
         ReloadDone, Shutdown, WaitLoop, WaitOps, DeadlineExceeded, Exit, env
<1>3. main'.cur = main.cur
  <2>1. main \in MainRecord
    BY DEF TypeOK
  <2>2. CASE Start
    BY <2>1, <2>2 DEF Start, MainRecord
  <2>3. CASE StartCancelled
    BY <2>1, <2>3 DEF StartCancelled, MainRecord
  <2>4. CASE LaunchLoop
    BY <2>1, <2>4 DEF LaunchLoop, MainRecord
  <2>5. CASE ReloadRejected
    BY <2>1, <2>5 DEF ReloadRejected, MainRecord
  <2>6. CASE Reload
    BY <2>1, <2>6 DEF Reload, MainRecord
  <2>7. CASE SelectPrepared
    BY <2>1, <2>7 DEF SelectPrepared, MainRecord
  <2>8. CASE AllPrepared
    BY <2>1, <2>8 DEF AllPrepared, MainRecord
  <2>9. CASE ReloadDone
    BY <2>1, <2>9 DEF ReloadDone, MainRecord
  <2>10. CASE Shutdown
    BY <2>1, <2>10 DEF Shutdown, MainRecord
  <2>11. CASE WaitLoop
    BY <2>1, <2>11 DEF WaitLoop, MainRecord
  <2>12. CASE WaitOps
    BY <2>1, <2>12 DEF WaitOps, MainRecord
  <2>13. CASE DeadlineExceeded
    BY <2>1, <2>13 DEF DeadlineExceeded, MainRecord
  <2>14. CASE Exit
    BY <2>1, <2>14 DEF Exit, MainRecord
  <2> QED
    BY <2>2, <2>3, <2>4, <2>5, <2>6, <2>7, <2>8, <2>9, <2>10, <2>11, <2>12, <2>13, <2>14
<1> QED
  BY <1>1, <1>2, <1>3 DEF SameFit

\* Nor does the swap, the scan of the loop, a commit, a background release or a report.
LEMMA FitsQuiet ==
  ASSUME TypeOK, NEW m \in Module, NEW n \in Module,
         \/ Swap \/ Enable \/ Prepare(m) \/ Commit(m) \/ RetryDue(m) \/ ReportFailure(m)
         \/ LoopScan \/ LoopExit \/ AsyncRelease(m) \/ FailedStop(m)
  PROVE  SameFit(n)
<1>1. /\ main \in MainRecord /\ runner \in [Module -> RunnerRecord] /\ runner[n] \in RunnerRecord
      /\ mod \in [Module -> ModRecord] /\ mod[n] \in ModRecord
      /\ op \in [Module -> OpRecord] /\ op[n] \in OpRecord
  BY DEF TypeOK
<1>2. CASE Swap
  <2>1. /\ Swapped(n).gen = runner[n].gen /\ Swapped(n).lease = runner[n].lease
        /\ \/ Swapped(n).state = runner[n].state
           \/ runner[n].state = "CrashLooping" /\ Swapped(n).state = "Failed"
    BY <1>1 DEF Swapped, RunnerRecord
  <2>2. runner'[n] = Swapped(n) /\ main'.cur = main.cur
    BY <1>1, <1>2 DEF Swap, MainRecord
  <2>3. op' = op /\ mod' = mod /\ mainStops' = mainStops /\ stopped' = stopped
    BY <1>2 DEF Swap, modules, env
  <2> QED
    BY <2>1, <2>2, <2>3 DEF SameFit, Active
<1>3. CASE Enable
  <2>1. \/ runner'[n] = runner[n]
        \/ runner[n].state = "Disabled" /\ runner'[n] = [runner[n] EXCEPT !.state = "Stopped"]
    BY <1>3 DEF Enable
  <2>2. main'.cur = main.cur
    BY <1>1, <1>3 DEF Enable, MainRecord
  <2>3. op' = op /\ mod' = mod /\ mainStops' = mainStops /\ stopped' = stopped
    BY <1>3 DEF Enable, modules, env
  <2> QED
    BY <1>1, <2>1, <2>2, <2>3 DEF SameFit, Active, RunnerRecord
<1>4. CASE Prepare(m)
  BY <1>1, <1>4 DEF SameFit, Prepare, MainRecord, modules, env
<1>5. CASE Commit(m)
  <2>1. main'.cur = main.cur
    BY <1>1, <1>5 DEF Commit, MainRecord
  <2>2. mod'[n].gen = mod[n].gen /\ mod'[n].run = mod[n].run
    BY <1>1, <1>5 DEF Commit, ModRecord
  <2> QED
    BY <1>5, <2>1, <2>2 DEF SameFit, Commit
<1>6. CASE RetryDue(m)
  <2>1. /\ runner'[n].gen = runner[n].gen /\ runner'[n].lease = runner[n].lease
        /\ runner'[n].state = runner[n].state
    BY <1>1, <1>6 DEF RetryDue, RunnerRecord
  <2> QED
    BY <1>6, <2>1 DEF SameFit, RetryDue, modules, control, env
<1>7. CASE ReportFailure(m)
  <2>1. mod'[n].gen = mod[n].gen /\ (mod'[n].run = "down" <=> mod[n].run = "down")
    BY <1>1, <1>7 DEF ReportFailure, ModRecord
  <2> QED
    BY <1>7, <2>1 DEF SameFit, ReportFailure
<1>8. CASE LoopScan \/ LoopExit \/ AsyncRelease(m)
  BY <1>8 DEF SameFit, LoopScan, LoopExit, AsyncRelease, modules, control, env
<1>9. CASE FailedStop(m)
  <2>1. /\ op'[n].gen = op[n].gen /\ op'[n].result = op[n].result
        /\ op'[n].pc = op[n].pc \/ (op[n].pc = "deps" /\ op'[n].pc = "failStop")
    BY <1>1, <1>9 DEF FailedStop, OpRecord
  <2> QED
    BY <1>9, <2>1 DEF SameFit, FailedStop, modules, control, env
<1> QED
  BY <1>2, <1>3, <1>4, <1>5, <1>6, <1>7, <1>8, <1>9

\* A start runs to its end under the record's generation, or is superseded for good.
LEMMA FitsStart ==
  ASSUME TypeOK, LeaseInv, NEW m \in Module,
         Admit(m) \/ StartReturns(m) \/ CleanupReturns(m) \/ FinishStart(m),
         NEW n \in Module, Fits(n)
  PROVE  Fits(n)'
<1>1. /\ main \in MainRecord /\ runner \in [Module -> RunnerRecord] /\ runner[n] \in RunnerRecord
      /\ mod \in [Module -> ModRecord] /\ mod[n] \in ModRecord
      /\ op \in [Module -> OpRecord] /\ op[n] \in OpRecord
  BY DEF TypeOK
<1>2. CASE n # m
  <2>1. /\ runner'[n] = runner[n] /\ op'[n] = op[n] /\ mod'[n] = mod[n]
        /\ mainStops' = mainStops /\ stopped' = stopped
    BY <1>1, <1>2 DEF Admit, StartReturns, CleanupReturns, FinishStart, control, env
  <2>2. main'.cur = main.cur
    BY <1>1 DEF Admit, StartReturns, CleanupReturns, FinishStart, control, MainRecord
  <2> QED
    BY <2>1, <2>2, FrameFits DEF SameFit
<1>3. CASE n = m /\ Admit(m)
  <2>1. /\ runner' = runner /\ mod' = mod /\ mainStops' = mainStops /\ main' = main
        /\ stopped' = stopped /\ op[n].pc = "admit"
    BY <1>3 DEF Admit
  <2>2. /\ op'[n].gen = op[n].gen
        /\ op'[n].pc = "start" \/ (op'[n].pc = "finish" /\ op'[n].result = "error")
    <3>1. \/ op' = [op EXCEPT ![m] = [@ EXCEPT !.pc = "start", !.lease = TRUE]]
          \/ op' = [op EXCEPT ![m] = [@ EXCEPT !.pc = "finish", !.result = "error"]]
      BY <1>3 DEF Admit
    <3>2. CASE op' = [op EXCEPT ![m] = [@ EXCEPT !.pc = "start", !.lease = TRUE]]
      BY <1>1, <1>3, <3>2 DEF OpRecord
    <3>3. CASE op' = [op EXCEPT ![m] = [@ EXCEPT !.pc = "finish", !.result = "error"]]
      BY <1>1, <1>3, <3>3 DEF OpRecord
    <3> QED
      BY <3>1, <3>2, <3>3
  <2> QED
    BY <2>1, <2>2 DEF Fits, Launching, Superseded, InFlight, StartPcs
<1>4. CASE n = m /\ StartReturns(m)
  <2>1. /\ runner' = runner /\ mainStops' = mainStops /\ main' = main
        /\ stopped' = stopped /\ op[n].pc = "start"
    BY <1>4 DEF StartReturns
  <2>2. /\ op'[n].gen = op[n].gen
        /\ \/ op'[n].pc = "finish" /\ mod'[n].run = "up" /\ mod'[n].gen = op[n].gen
           \/ op'[n].pc = "clean"
    <3>1. CASE /\ op' = [op EXCEPT ![m].pc = "finish"]
               /\ mod' = [mod EXCEPT ![m] = [run |-> "up", gen |-> op[m].gen, frag |-> op[m].frag]]
      BY <1>1, <1>4, <3>1 DEF OpRecord
    <3>2. ASSUME NEW res \in {"error", "unsupported"},
                 op' = [op EXCEPT ![m] = [@ EXCEPT !.pc = "clean", !.result = res]]
          PROVE  op'[n].gen = op[n].gen /\ op'[n].pc = "clean"
      BY <1>1, <1>4, <3>2 DEF OpRecord
    <3> QED
      BY <1>4, <3>1, <3>2 DEF StartReturns
  <2> QED
    BY <2>1, <2>2 DEF Fits, Launching, Superseded, InFlight, StartPcs
<1>5. CASE n = m /\ CleanupReturns(m)
  <2>1. /\ runner' = runner /\ mainStops' = mainStops /\ main' = main
        /\ stopped' = stopped /\ op[n].pc = "clean"
    BY <1>5 DEF CleanupReturns, control, env
  <2>2. op'[n].gen = op[n].gen /\ op'[n].pc = "finish" /\ op'[n].result = op[n].result
    BY <1>1, <1>5 DEF CleanupReturns, OpRecord
  <2>3. op[n].result # "ok"
    BY <2>1 DEF LeaseInv, OpLease
  <2> QED
    BY <2>1, <2>2, <2>3 DEF Fits, Launching, Superseded, InFlight, StartPcs
<1>6. CASE n = m /\ FinishStart(m)
  <2>1. /\ mod' = mod /\ mainStops' = mainStops /\ stopped' = stopped /\ op[n].pc = "finish"
        /\ op'[n].pc = "idle"
    BY <1>1, <1>6 DEF FinishStart, env, IdleOp
  <2>2. main'.cur = main.cur
    BY <1>1, <1>6 DEF FinishStart, MainRecord
  <2>3. CASE Superseded(n) /\ runner' = runner
    <3>1. ~Launching(n) /\ runner[n].state \notin {"Starting", "Running"}
      BY <2>1, <2>3 DEF Launching, Fits, InFlight
    <3>2. runner[n].state = "Stopping" => main.cur = n
      BY <2>1 DEF Fits, StartPcs
    <3> QED
      BY <2>1, <2>2, <2>3, <3>1 DEF Fits, Launching, Superseded, InFlight, StartPcs
  <2>4. ASSUME ~Superseded(n), NEW r \in Recorded(n), runner' = [runner EXCEPT ![n] = r]
        PROVE  Fits(n)'
    <3>1. /\ Launching(n) /\ runner[n].state = "Starting" /\ main.cur # n /\ mainStops[n] = 0
          /\ ~runner[n].lease
      BY <2>1, <2>4 DEF Launching, StartPcs, Fits
    <3>2. r.gen = runner[n].gen
      <4>1. CASE op[n].result = "ok"
        BY <1>1, <2>4, <4>1 DEF Recorded, RunnerRecord
      <4>2. CASE op[n].result = "unsupported"
        BY <1>1, <2>4, <4>2 DEF Recorded, RunnerRecord
      <4>3. CASE op[n].result = "error"
        <5>1. \A q \in FailLocked(runner[n]) : q.gen = runner[n].gen
          BY <1>1, RunnerFields
        <5> QED
          BY <2>4, <4>3, <5>1 DEF Recorded
      <4> QED
        BY <1>1, <4>1, <4>2, <4>3 DEF OpRecord
    <3>3. \/ /\ op[n].result = "ok" /\ r.state = "Running" /\ r.lease = op[n].lease
          \/ /\ r.state \in {"Unsupported", "Failed", "CrashLooping"} /\ ~r.lease
      <4>1. CASE op[n].result = "ok"
        BY <1>1, <2>4, <4>1 DEF Recorded, RunnerRecord
      <4>2. CASE op[n].result = "unsupported"
        BY <1>1, <2>4, <3>1, <4>2 DEF Recorded, RunnerRecord
      <4>3. CASE op[n].result = "error"
        <5>1. \A q \in FailLocked(runner[n]) :
                q.state \in {"Failed", "CrashLooping"} /\ q.lease = runner[n].lease
          BY <1>1, RunnerFields, RunnerUpdates
        <5> QED
          BY <2>4, <3>1, <4>3, <5>1 DEF Recorded
      <4> QED
        BY <1>1, <4>1, <4>2, <4>3 DEF OpRecord
    <3>4. op[n].result = "ok" => op[n].lease /\ mod[n].run # "down" /\ mod[n].gen = runner[n].gen
      BY <2>1, <2>4, <3>1 DEF LeaseInv, OpLease, Fits, Superseded
    <3>5. runner'[n] = r
      BY <1>1, <2>4
    <3> QED
      BY <2>1, <2>2, <3>1, <3>2, <3>3, <3>4, <3>5
         DEF Fits, Launching, Superseded, InFlight, StartPcs
  <2> QED
    BY <1>6, <2>3, <2>4 DEF FinishStart
<1> QED
  BY <1>2, <1>3, <1>4, <1>5, <1>6

\* A failed module and its dependents are held by the goroutines that stop them.
LEMMA FitsCascade ==
  ASSUME TypeOK, LeaseInv, NEW m \in Module, NEW f \in Module,
         \/ HandleRuntimeFailure \/ StopForDependency(f, m) \/ DependentStopped(m)
         \/ FailedStopped(m) \/ OpStopReturns(m),
         NEW n \in Module, Fits(n)
  PROVE  Fits(n)'
<1>1. /\ runner \in [Module -> RunnerRecord] /\ runner[n] \in RunnerRecord
      /\ mod \in [Module -> ModRecord] /\ mod[n] \in ModRecord
      /\ op \in [Module -> OpRecord] /\ op[n] \in OpRecord /\ runner[n].gen \in Nat
      /\ mainStops[n] \in Nat
  BY DEF TypeOK, RunnerRecord
<1>2. main' = main /\ mainStops' = mainStops /\ stopped' = stopped
  BY DEF HandleRuntimeFailure, StopForDependency, DependentStopped, FailedStopped, OpStopReturns,
         modules, control, env
<1>3. CASE HandleRuntimeFailure
  <2> DEFINE g == Head(failures).id
  <2>1. g \in Module
    <3>1. Head(failures) \in Report
      BY <1>3 DEF TypeOK, HandleRuntimeFailure
    <3> QED
      BY <3>1 DEF Report
  <2>2. mod' = mod
    BY <1>3 DEF HandleRuntimeFailure, modules
  <2>3. CASE runner' = runner /\ op' = op
    BY <1>2, <2>2, <2>3, FrameFits DEF SameFit
  <2>4. CASE /\ Current(Head(failures))
             /\ runner' = [runner EXCEPT ![g] = [@ EXCEPT !.state = "Stopping", !.lease = FALSE]]
             /\ op' = [op EXCEPT ![g] = [IdleOp EXCEPT !.pc = "deps", !.lease = runner[g].lease,
                                                       !.rest = TransitiveDependents(g),
                                                       !.within = graph]]
    <3>1. CASE n # g
      <4>1. runner'[n] = runner[n] /\ op'[n] = op[n]
        BY <1>1, <2>4, <3>1
      <4> QED
        BY <1>2, <2>2, <4>1, FrameFits DEF SameFit
    <3>2. CASE n = g
      <4>1. runner'[n] = [runner[n] EXCEPT !.state = "Stopping", !.lease = FALSE]
        BY <1>1, <2>4, <3>2
      <4>2. runner'[n].state = "Stopping" /\ ~runner'[n].lease /\ runner'[n].gen = runner[n].gen
        BY <1>1, <4>1 DEF RunnerRecord
      <4>3. op'[n].pc = "deps"
        BY <1>1, <2>4, <3>2 DEF IdleOp
      <4> QED
        BY <1>2, <4>2, <4>3 DEF Fits, Launching, InFlight, StartPcs
    <3> QED
      BY <3>1, <3>2
  <2> QED
    BY <1>3, <2>3, <2>4 DEF HandleRuntimeFailure
<1>4. CASE StopForDependency(f, m)
  <2>1. mod' = mod /\ op[f].pc = "deps"
    BY <1>4 DEF StopForDependency, NextDependent, modules
  <2>2. CASE op' = [op EXCEPT ![f].rest = @ \ {m}] /\ UNCHANGED runner
    <3>1. op'[n].pc = op[n].pc /\ op'[n].gen = op[n].gen /\ op'[n].result = op[n].result
      BY <1>1, <2>2 DEF OpRecord
    <3> QED
      BY <1>2, <2>1, <2>2, <3>1, FrameFits DEF SameFit
  <2>3. CASE /\ ~InFlight(m)
             /\ runner' = [runner EXCEPT ![m] = TakenDown(@)]
             /\ op' = [op EXCEPT ![m] = [IdleOp EXCEPT !.pc = "depStop", !.cause = f,
                                                       !.lease = runner[m].lease]]
    <3>1. CASE n # m
      <4>1. runner'[n] = runner[n] /\ op'[n] = op[n]
        BY <1>1, <2>3, <3>1
      <4> QED
        BY <1>2, <2>1, <4>1, FrameFits DEF SameFit
    <3>2. CASE n = m
      <4>1. TakenDown(runner[n]).state = "Stopping" /\ ~TakenDown(runner[n]).lease
        BY <1>1, RunnerFields, RunnerUpdates
      <4>2. runner'[n] = TakenDown(runner[n]) /\ op'[n].pc = "depStop"
        BY <1>1, <2>3, <3>2 DEF IdleOp
      <4> QED
        BY <1>2, <4>1, <4>2 DEF Fits, Launching, InFlight, StartPcs
    <3> QED
      BY <3>1, <3>2
  <2> QED
    BY <1>4, <2>2, <2>3 DEF StopForDependency
<1>5. CASE DependentStopped(m)
  <2>1. mod' = mod /\ op[m].pc = "depEnd" /\ DependentOver(m)
        /\ runner' = [runner EXCEPT ![m] = Blocked(@)]
    BY <1>5 DEF DependentStopped, modules
  <2>2. CASE n # m
    <3>1. op'[n] = op[n] \/ op'[n] = [op[n] EXCEPT !.rest = @ \ {m}]
      BY <2>1, <2>2 DEF DependentOver
    <3>2. op'[n].pc = op[n].pc /\ op'[n].gen = op[n].gen /\ op'[n].result = op[n].result
      BY <1>1, <3>1 DEF OpRecord
    <3>3. runner'[n] = runner[n]
      BY <1>1, <2>1, <2>2
    <3> QED
      BY <1>2, <2>1, <3>2, <3>3, FrameFits DEF SameFit
  <2>3. CASE n = m
    <3>1. Blocked(runner[n]).state = "Failed" /\ Blocked(runner[n]).lease = runner[n].lease
      BY <1>1, RunnerFields, RunnerUpdates
    <3>2. runner'[n] = Blocked(runner[n]) /\ op'[n].pc = "idle"
      BY <1>1, <2>1, <2>3 DEF DependentOver, IdleOp
    <3>3. ~runner[n].lease
      BY <2>1, <2>3 DEF Fits, InFlight
    <3> QED
      BY <1>2, <2>1, <3>1, <3>2, <3>3 DEF Fits, Launching, StartPcs
  <2> QED
    BY <2>2, <2>3
<1>6. CASE FailedStopped(m)
  <2>1. mod' = mod /\ op[m].pc = "failEnd" /\ op' = [op EXCEPT ![m] = IdleOp]
    BY <1>6 DEF FailedStopped, modules
  <2>2. PICK q \in FailLocked(runner[m]) : runner' = [runner EXCEPT ![m] = q]
    BY <1>6 DEF FailedStopped
  <2>3. CASE n # m
    <3>1. runner'[n] = runner[n] /\ op'[n] = op[n]
      BY <1>1, <2>1, <2>2, <2>3
    <3> QED
      BY <1>2, <2>1, <3>1, FrameFits DEF SameFit
  <2>4. CASE n = m
    <3>1. \A p \in FailLocked(runner[n]) :
            p.state \in {"Failed", "CrashLooping"} /\ p.lease = runner[n].lease
      BY <1>1, RunnerFields, RunnerUpdates
    <3>2. runner'[n] = q /\ op'[n].pc = "idle"
      BY <1>1, <2>1, <2>2, <2>4 DEF IdleOp
    <3>3. ~runner[n].lease
      BY <2>1, <2>4 DEF Fits, InFlight
    <3> QED
      BY <1>2, <2>1, <2>2, <2>4, <3>1, <3>2, <3>3 DEF Fits, Launching, StartPcs
  <2> QED
    BY <2>3, <2>4
<1>7. CASE OpStopReturns(m)
  <2>1. runner' = runner /\ op[m].pc \in {"depStop", "failStop"}
    BY <1>7 DEF OpStopReturns
  <2>2. CASE n # m
    <3>1. op'[n] = op[n] /\ mod'[n] = mod[n]
      BY <1>1, <1>7, <2>2 DEF OpStopReturns
    <3> QED
      BY <1>2, <2>1, <3>1, FrameFits DEF SameFit
  <2>3. CASE n = m
    <3>1. op'[n].pc \in {"depEnd", "failEnd"}
      BY <1>1, <1>7, <2>3 DEF OpStopReturns, OpRecord
    <3> QED
      BY <1>2, <2>1, <2>3, <3>1 DEF Fits, Launching, InFlight, StartPcs
  <2> QED
    BY <2>2, <2>3
<1> QED
  BY <1>3, <1>4, <1>5, <1>6, <1>7

\* stopModule supersedes a start in flight, and leaves the module at rest unless it overran
\* the deadline of a shutdown, after which nothing starts any more.
LEMMA FitsStop ==
  ASSUME Overrun => MaxReloads = 0,
         TypeOK, MainPlace, DisablePlace, NEW m \in Module,
         StopModule(m) \/ StopModuleDone(m) \/ MainStopReturns(m) \/ Disable(m),
         NEW n \in Module, Fits(n)
  PROVE  Fits(n)'
<1>1. /\ runner \in [Module -> RunnerRecord] /\ runner[n] \in RunnerRecord
      /\ mod \in [Module -> ModRecord] /\ mod[n] \in ModRecord
      /\ op \in [Module -> OpRecord] /\ op[n] \in OpRecord
      /\ runner[n].gen \in Nat /\ op[n].gen \in Nat
      /\ mainStops \in [Module -> Nat] /\ mainStops[n] \in Nat /\ main \in MainRecord
  BY DEF TypeOK, RunnerRecord, OpRecord
<1>2. stopped' = stopped /\ op' = op
  BY DEF StopModule, StopModuleDone, MainStopReturns, Disable, control, env
<1>3. NoModule # m /\ NoModule # n
  BY ModuleAssumption
<1>4. /\ AtRest(runner[n], "Stopped").state = "Stopped"
      /\ AtRest(runner[n], "Stopped").gen = runner[n].gen
      /\ AtRest(runner[n], "Stopped").lease = runner[n].lease
      /\ AtRest(runner[n], "Disabled").state = "Disabled"
      /\ AtRest(runner[n], "Disabled").gen = runner[n].gen
      /\ AtRest(runner[n], "Disabled").lease = runner[n].lease
  BY <1>1, RunnerFields, RunnerUpdates DEF State
<1>5. CASE StopModule(m) /\ StopActive(m)
  <2>1. main.cur = NoModule /\ main'.cur = m /\ mod' = mod
    <3>1. Active(runner[m].state)
      BY <1>5 DEF StopActive
    <3>2. main.cur = NoModule /\ main' = [main EXCEPT !.cur = m, !.lease = runner[m].lease]
      BY <1>5, <3>1 DEF StopModule, StopInactive
    <3> QED
      BY <1>1, <1>5, <3>2 DEF MainRecord, StopModule
  <2>2. CASE n # m
    <3>1. runner'[n] = runner[n] /\ mainStops'[n] = mainStops[n]
      BY <1>1, <1>5, <2>2 DEF StopActive
    <3> QED
      BY <1>2, <1>3, <2>1, <2>2, <3>1, FrameFits DEF SameFit
  <2>3. CASE n = m
    <3>1. runner'[n] = TakenDown(runner[n])
      BY <1>1, <1>5, <2>3 DEF StopActive
    <3>2. /\ TakenDown(runner[n]).state = "Stopping" /\ ~TakenDown(runner[n]).lease
          /\ TakenDown(runner[n]).gen = runner[n].gen + 1
      BY <1>1, RunnerFields, RunnerUpdates
    <3> QED
      BY <1>1, <1>2, <2>1, <2>3, <3>1, <3>2 DEF Fits, Launching, Superseded, StartPcs
  <2> QED
    BY <2>2, <2>3
<1>6. CASE StopModule(m) /\ StopInactive(m)
  <2>1. main'.cur = main.cur
    <3>1. ~Active(runner[m].state)
      BY <1>6 DEF StopInactive
    <3>2. main' = [main EXCEPT !.todo = @ \ {m}] \/ main' = [main EXCEPT !.pc = "disable"]
      BY <1>6, <3>1 DEF StopModule, StopActive
    <3> QED
      BY <1>1, <3>2 DEF MainRecord
  <2>2. mod' = mod /\ mainStops' = mainStops
    BY <1>6 DEF StopModule, StopInactive
  <2>3. \/ runner'[n] = runner[n]
        \/ ~Active(runner[n].state) /\ runner'[n] = AtRest(runner[n], "Stopped")
    BY <1>1, <1>6 DEF StopInactive
  <2>4. SameFit(n)
    BY <1>2, <1>4, <2>1, <2>2, <2>3 DEF SameFit, Active
  <2> QED
    BY <2>4, FrameFits
<1>7. CASE StopModuleDone(m)
  <2>1. /\ main.cur = m /\ main'.cur = NoModule /\ mod' = mod /\ mainStops' = mainStops
        /\ runner' = [runner EXCEPT ![m] = AtRest(@, "Stopped")]
    BY <1>1, <1>7 DEF StopModuleDone, MainRecord
  <2>2. CASE n # m
    <3>1. runner'[n] = runner[n]
      BY <1>1, <2>1, <2>2
    <3> QED
      BY <1>2, <1>3, <2>1, <2>2, <3>1, FrameFits DEF SameFit
  <2>3. CASE n = m
    <3>1. runner'[n] = AtRest(runner[n], "Stopped")
      BY <1>1, <2>1, <2>3
    <3>2. mainStops[n] > 0 => stopped /\ Overrun
      <4>1. Overrun => stopped
        BY <1>3, <2>1 DEF MainPlace, ReloadPcs
      <4> QED
        BY <1>7, <2>3, <4>1 DEF StopModuleDone, StopWaitOver
    <3>3. ~Launching(n) /\ ~runner[n].lease
      BY <2>1, <2>3 DEF Fits
    <3> QED
      BY <1>2, <1>3, <1>4, <2>1, <3>1, <3>2, <3>3 DEF Fits, Launching, Superseded
  <2> QED
    BY <2>2, <2>3
<1>8. CASE MainStopReturns(m)
  <2>1. main' = main /\ runner' = runner /\ mainStops[m] > 0
    BY <1>8 DEF MainStopReturns, control
  <2>2. CASE n # m
    <3>1. mod'[n] = mod[n] /\ mainStops'[n] = mainStops[n]
      BY <1>1, <1>8, <2>2 DEF MainStopReturns
    <3> QED
      BY <1>2, <2>1, <3>1, FrameFits DEF SameFit
  <2>3. CASE n = m
    <3>1. ~Launching(n) /\ runner[n].state # "Running"
      BY <2>1, <2>3 DEF Fits
    <3> QED
      BY <1>2, <2>1, <2>3, <3>1 DEF Fits, Launching, Superseded, InFlight
  <2> QED
    BY <2>2, <2>3
<1>9. CASE Disable(m)
  <2>1. main'.cur = main.cur
    BY <1>1, <1>9 DEF Disable, MainRecord
  <2>2. mod' = mod /\ mainStops' = mainStops /\ ~Active(runner[m].state)
    BY <1>9 DEF Disable, DisablePlace, modules
  <2>3. \/ runner'[n] = runner[n]
        \/ n = m /\ runner'[n] = AtRest(runner[n], "Disabled")
    BY <1>1, <1>9 DEF Disable
  <2>4. SameFit(n)
    BY <1>2, <1>4, <2>1, <2>2, <2>3 DEF SameFit, Active
  <2> QED
    BY <2>4, FrameFits
<1> QED
  BY <1>5, <1>6, <1>7, <1>8, <1>9 DEF StopModule

-----------------------------------------------------------------------------
(* What main works on. *)

\* No step but the swap switches a module on or off.
LEMMA SwitchesStay ==
  ASSUME TypeOK, NEW o \in Module,
         \/ MainStep /\ ~Swap
         \/ LoopStep \/ OpStep(o) \/ ModuleReturns(o) \/ RetryDue(o) \/ ReportFailure(o),
         NEW n \in Module
  PROVE  runner'[n].enabled = runner[n].enabled
<1>1. /\ runner \in [Module -> RunnerRecord] /\ runner[n] \in RunnerRecord
  BY DEF TypeOK
<1>2. /\ Blocked(runner[n]).enabled = runner[n].enabled
      /\ TakenDown(runner[n]).enabled = runner[n].enabled
      /\ AtRest(runner[n], "Stopped").enabled = runner[n].enabled
      /\ AtRest(runner[n], "Disabled").enabled = runner[n].enabled
      /\ \A q \in FailLocked(runner[n]) : q.enabled = runner[n].enabled
  BY <1>1, RunnerFields DEF State
<1>3. CASE MainStep /\ ~Swap
  <2>1. CASE Enable
    BY <1>1, <2>1 DEF Enable, RunnerRecord
  <2>2. ASSUME NEW m \in Module, StartOnce(m)
        PROVE  runner'[n].enabled = runner[n].enabled
    BY <2>2, ClaimEffect DEF StartOnce
  <2>3. ASSUME NEW m \in Module, StopModule(m)
        PROVE  runner'[n].enabled = runner[n].enabled
    <3>1. \/ runner'[n] = runner[n]
          \/ runner'[n] = TakenDown(runner[n])
          \/ runner'[n] = AtRest(runner[n], "Stopped")
      BY <1>1, <2>3 DEF StopModule, StopActive, StopInactive
    <3> QED
      BY <1>2, <3>1
  <2>4. ASSUME NEW m \in Module, StopModuleDone(m)
        PROVE  runner'[n].enabled = runner[n].enabled
    <3>1. runner'[n] = runner[n] \/ runner'[n] = AtRest(runner[n], "Stopped")
      BY <1>1, <2>4 DEF StopModuleDone
    <3> QED
      BY <1>2, <3>1
  <2>5. ASSUME NEW m \in Module, Disable(m)
        PROVE  runner'[n].enabled = runner[n].enabled
    <3>1. runner'[n] = runner[n] \/ runner'[n] = AtRest(runner[n], "Disabled")
      BY <1>1, <2>5 DEF Disable
    <3> QED
      BY <1>2, <3>1
  <2> QED
    BY <1>3, <2>1, <2>2, <2>3, <2>4, <2>5
       DEF MainStep, Start, StartCancelled, LaunchLoop, ReloadRejected, Reload, SelectPrepared,
           AllPrepared, ReloadDone, Shutdown, WaitLoop, WaitOps, DeadlineExceeded, Exit, Prepare,
           Commit
<1>4. CASE LoopStep
  <2>1. ASSUME NEW m \in Module, LoopClaim(m)
        PROVE  runner'[n].enabled = runner[n].enabled
    BY <2>1, ClaimEffect DEF LoopClaim
  <2>2. CASE HandleRuntimeFailure
    <3>1. \/ runner'[n] = runner[n]
          \/ runner'[n] = [runner[n] EXCEPT !.state = "Stopping", !.lease = FALSE]
      BY <1>1, <2>2 DEF HandleRuntimeFailure
    <3> QED
      BY <1>1, <3>1 DEF RunnerRecord
  <2> QED
    BY <1>4, <2>1, <2>2 DEF LoopStep, LoopScan, LoopExit
<1>5. CASE OpStep(o)
  <2>1. CASE FinishStart(o)
    <3>1. \/ runner'[n] = runner[n]
          \/ n = o /\ runner'[n] \in Recorded(n)
      BY <1>1, <2>1 DEF FinishStart
    <3>2. ASSUME NEW r \in Recorded(n)
          PROVE  r.enabled = runner[n].enabled
      <4>1. CASE op[n].result = "ok"
        BY <1>1, <3>2, <4>1 DEF Recorded, RunnerRecord
      <4>2. CASE op[n].result = "unsupported"
        BY <1>1, <3>2, <4>2 DEF Recorded, RunnerRecord
      <4>3. CASE op[n].result = "error"
        BY <1>2, <3>2, <4>3 DEF Recorded
      <4> QED
        BY <4>1, <4>2, <4>3 DEF TypeOK, OpRecord
    <3> QED
      BY <3>1, <3>2
  <2>2. CASE DependentStopped(o)
    <3>1. runner'[n] = runner[n] \/ runner'[n] = Blocked(runner[n])
      BY <1>1, <2>2 DEF DependentStopped
    <3> QED
      BY <1>2, <3>1
  <2>3. CASE FailedStopped(o)
    <3>1. runner'[n] = runner[n] \/ runner'[n] \in FailLocked(runner[n])
      BY <1>1, <2>3 DEF FailedStopped
    <3> QED
      BY <1>2, <3>1
  <2>4. ASSUME NEW d \in Module, StopForDependency(o, d)
        PROVE  runner'[n].enabled = runner[n].enabled
    <3>1. runner'[n] = runner[n] \/ runner'[n] = TakenDown(runner[n])
      BY <1>1, <2>4 DEF StopForDependency
    <3> QED
      BY <1>2, <3>1
  <2> QED
    BY <1>5, <2>1, <2>2, <2>3, <2>4 DEF OpStep, Admit, AsyncRelease, FailedStop
<1>6. CASE RetryDue(o)
  BY <1>1, <1>6 DEF RetryDue, RunnerRecord
<1> QED
  BY <1>3, <1>4, <1>5, <1>6
     DEF ModuleReturns, StartReturns, CleanupReturns, OpStopReturns, MainStopReturns,
         ReportFailure

\* Nobody but main moves main, except that the end of a start main waits for takes it on.
LEMMA OthersAndMain ==
  ASSUME TypeOK, MainPlace, NEW m \in Module,
         LoopStep \/ OpStep(m) \/ ModuleReturns(m) \/ RetryDue(m) \/ ReportFailure(m)
  PROVE  /\ graph' = graph /\ stopped' = stopped
         /\ main'.pc = main.pc /\ main'.cur = main.cur
         /\ \/ main' = main
            \/ main.pc \in {"bootStart", "reloadStart"} /\ main'.todo = main.todo \ {m}
               /\ FinishStart(m)
<1>1. main \in MainRecord
  BY DEF TypeOK
<1>2. CASE FinishStart(m)
  <2>1. main' = main \/ (op[m].owner = "main" /\ main' = [main EXCEPT !.todo = @ \ {m}])
    BY <1>2 DEF FinishStart
  <2>2. op[m].owner = "main" => main.pc \in {"bootStart", "reloadStart"}
    BY <1>2 DEF FinishStart, MainPlace, InFlight
  <2> QED
    BY <1>1, <1>2, <2>1, <2>2 DEF FinishStart, MainRecord, env
<1>3. CASE ~FinishStart(m)
  BY <1>3 DEF LoopStep, LoopScan, HandleRuntimeFailure, LoopExit, LoopClaim, OpStep, Admit,
              AsyncRelease, DependentStopped, FailedStop, FailedStopped, StopForDependency,
              ModuleReturns, StartReturns, CleanupReturns, OpStopReturns, MainStopReturns,
              RetryDue, ReportFailure, control, env
<1> QED
  BY <1>2, <1>3

\* A goroutine of main's is one that main has claimed, and it stays so until it ends.
LEMMA OwnersStay ==
  ASSUME TypeOK, NEW m \in Module,
         LoopStep \/ OpStep(m) \/ ModuleReturns(m) \/ RetryDue(m) \/ ReportFailure(m),
         NEW n \in Module
  PROVE  \/ op'[n].pc = "idle" \/ op'[n].owner = "loop"
         \/ op[n].pc # "idle" /\ op'[n].owner = op[n].owner
<1> DEFINE Kept == \/ op'[n].pc = "idle" \/ op'[n].owner = "loop"
                   \/ op[n].pc # "idle" /\ op'[n].owner = op[n].owner
<1>1. op \in [Module -> OpRecord] /\ op[n] \in OpRecord
  BY DEF TypeOK
<1>2. IdleOp.pc = "idle" /\ IdleOp.owner = "loop"
  BY DEF IdleOp
<1>3. op'[n] = op[n] => Kept
  OBVIOUS
<1>4. CASE LoopStep
  <2>1. ASSUME NEW d \in Module, LoopClaim(d) PROVE Kept
    BY <2>1, <1>3, ClaimEffect DEF LoopClaim
  <2>2. CASE HandleRuntimeFailure
    <3>1. \/ op'[n] = op[n]
          \/ op'[n] = [IdleOp EXCEPT !.pc = "deps", !.lease = runner[Head(failures).id].lease,
                                     !.rest = TransitiveDependents(Head(failures).id),
                                     !.within = graph]
      BY <1>1, <2>2 DEF HandleRuntimeFailure
    <3> QED
      BY <1>3, <3>1 DEF IdleOp
  <2> QED
    BY <1>3, <1>4, <2>1, <2>2 DEF LoopStep, LoopScan, LoopExit
<1>5. CASE OpStep(m)
  <2>1. CASE Admit(m)
    <3>1. \/ op' = [op EXCEPT ![m] = [@ EXCEPT !.pc = "start", !.lease = TRUE]]
          \/ op' = [op EXCEPT ![m] = [@ EXCEPT !.pc = "finish", !.result = "error"]]
      BY <2>1 DEF Admit
    <3>2. op'[n] = op[n] \/ (op[n].pc = "admit" /\ op'[n].owner = op[n].owner)
      <4>1. CASE op' = [op EXCEPT ![m] = [@ EXCEPT !.pc = "start", !.lease = TRUE]]
        BY <1>1, <2>1, <4>1 DEF Admit, OpRecord
      <4>2. CASE op' = [op EXCEPT ![m] = [@ EXCEPT !.pc = "finish", !.result = "error"]]
        BY <1>1, <2>1, <4>2 DEF Admit, OpRecord
      <4> QED
        BY <3>1, <4>1, <4>2
    <3> QED
      BY <3>2
  <2>2. CASE FinishStart(m) \/ FailedStopped(m)
    BY <1>1, <1>2, <2>2 DEF FinishStart, FailedStopped
  <2>3. CASE DependentStopped(m)
    <3>1. \/ op'[n] = op[n] \/ op'[n] = IdleOp \/ op'[n] = [op[n] EXCEPT !.rest = @ \ {m}]
      BY <1>1, <2>3 DEF DependentStopped, DependentOver
    <3> QED
      BY <1>1, <1>2, <3>1 DEF OpRecord
  <2>4. CASE FailedStop(m)
    BY <1>1, <2>4 DEF FailedStop, OpRecord
  <2>5. ASSUME NEW d \in Module, StopForDependency(m, d) PROVE Kept
    <3>1. \/ op' = [op EXCEPT ![m].rest = @ \ {d}]
          \/ op' = [op EXCEPT ![d] = [IdleOp EXCEPT !.pc = "depStop", !.cause = m,
                                                    !.lease = runner[d].lease]]
      BY <2>5 DEF StopForDependency
    <3>2. CASE op' = [op EXCEPT ![m].rest = @ \ {d}]
      BY <1>1, <3>2 DEF OpRecord
    <3>3. CASE op' = [op EXCEPT ![d] = [IdleOp EXCEPT !.pc = "depStop", !.cause = m,
                                                     !.lease = runner[d].lease]]
      BY <1>1, <3>3 DEF IdleOp
    <3> QED
      BY <3>1, <3>2, <3>3
  <2> QED
    BY <1>3, <1>5, <2>1, <2>2, <2>3, <2>4, <2>5 DEF OpStep, AsyncRelease
<1>6. CASE ModuleReturns(m)
  <2>1. CASE StartReturns(m)
    <3>1. \/ op' = [op EXCEPT ![m].pc = "finish"]
          \/ \E res \in {"error", "unsupported"} :
               op' = [op EXCEPT ![m] = [@ EXCEPT !.pc = "clean", !.result = res]]
      BY <2>1 DEF StartReturns
    <3>2. CASE op' = [op EXCEPT ![m].pc = "finish"]
      BY <1>1, <2>1, <3>2 DEF StartReturns, OpRecord
    <3>3. ASSUME NEW res \in {"error", "unsupported"},
                 op' = [op EXCEPT ![m] = [@ EXCEPT !.pc = "clean", !.result = res]]
          PROVE  Kept
      BY <1>1, <2>1, <3>3 DEF StartReturns, OpRecord
    <3> QED
      BY <3>1, <3>2, <3>3
  <2>2. CASE CleanupReturns(m)
    BY <1>1, <2>2 DEF CleanupReturns, OpRecord
  <2>3. CASE OpStopReturns(m)
    BY <1>1, <2>3 DEF OpStopReturns, OpRecord
  <2> QED
    BY <1>3, <1>6, <2>1, <2>2, <2>3 DEF ModuleReturns, MainStopReturns
<1>7. CASE RetryDue(m) \/ ReportFailure(m)
  BY <1>3, <1>7 DEF RetryDue, ReportFailure
<1> QED
  BY <1>4, <1>5, <1>6, <1>7

\* A module at rest that is not enabled stays at rest whatever the others do.
LEMMA RestStays ==
  ASSUME TypeOK, NEW m \in Module,
         LoopStep \/ OpStep(m) \/ ModuleReturns(m) \/ RetryDue(m) \/ ReportFailure(m),
         NEW n \in Module, Fits(n), ~runner[n].enabled, ~Active(runner[n].state)
  PROVE  ~Active(runner'[n].state)
<1>1. /\ runner \in [Module -> RunnerRecord] /\ runner[n] \in RunnerRecord
      /\ runner[m] \in RunnerRecord
  BY DEF TypeOK
<1>2. runner'[n] = runner[n] => ~Active(runner'[n].state)
  OBVIOUS
<1>3. CASE LoopStep
  <2>1. ASSUME NEW d \in Module, LoopClaim(d) PROVE runner'[n] = runner[n]
    BY <2>1, ClaimEffect DEF LoopClaim, Startable
  <2>2. CASE HandleRuntimeFailure
    BY <1>1, <2>2 DEF HandleRuntimeFailure, Current, Active
  <2> QED
    BY <1>2, <1>3, <2>1, <2>2 DEF LoopStep, LoopScan, LoopExit
<1>4. CASE OpStep(m)
  <2>1. CASE FinishStart(m)
    <3>1. runner'[n] = runner[n] \/ (n = m /\ ~Superseded(m))
      BY <1>1, <2>1 DEF FinishStart
    <3>2. ~(n = m /\ ~Superseded(m))
      BY <2>1 DEF FinishStart, Fits, Launching, StartPcs, Active
    <3> QED
      BY <3>1, <3>2
  <2>2. CASE DependentStopped(m)
    <3>1. Blocked(runner[n]).state = "Failed"
      BY <1>1, RunnerFields
    <3>2. runner'[n] = runner[n] \/ runner'[n] = Blocked(runner[n])
      BY <1>1, <2>2 DEF DependentStopped
    <3> QED
      BY <3>1, <3>2 DEF Active
  <2>3. CASE FailedStopped(m)
    <3>1. \A q \in FailLocked(runner[n]) : q.state \in {"Failed", "CrashLooping"}
      BY <1>1, RunnerFields
    <3>2. runner'[n] = runner[n] \/ runner'[n] \in FailLocked(runner[n])
      BY <1>1, <2>3 DEF FailedStopped
    <3> QED
      BY <3>1, <3>2 DEF Active
  <2>4. ASSUME NEW d \in Module, StopForDependency(m, d) PROVE runner'[n] = runner[n]
    BY <1>1, <2>4 DEF StopForDependency
  <2> QED
    BY <1>2, <1>4, <2>1, <2>2, <2>3, <2>4 DEF OpStep, Admit, AsyncRelease, FailedStop
<1>5. CASE RetryDue(m)
  <2>1. runner'[n].state = runner[n].state
    BY <1>1, <1>5 DEF RetryDue, RunnerRecord
  <2> QED
    BY <2>1
<1> QED
  BY <1>2, <1>3, <1>4, <1>5
     DEF ModuleReturns, StartReturns, CleanupReturns, OpStopReturns, MainStopReturns, ReportFailure

\* main's plan stays sound while the others work.
LEMMA PlaceOthers ==
  ASSUME TypeOK, CallInv, NEW m \in Module,
         LoopStep \/ OpStep(m) \/ ModuleReturns(m) \/ RetryDue(m) \/ ReportFailure(m)
  PROVE  MainPlace' /\ DisablePlace'
<1>1. /\ graph' = graph /\ stopped' = stopped
      /\ main'.pc = main.pc /\ main'.cur = main.cur
      /\ \/ main' = main
         \/ main.pc \in {"bootStart", "reloadStart"} /\ main'.todo = main.todo \ {m}
            /\ FinishStart(m)
  BY OthersAndMain DEF CallInv
<1>2. \A n \in Module : runner'[n].enabled = runner[n].enabled
  BY SwitchesStay
<1>3. main.pc \notin {"bootStart", "reloadStart"} => main' = main
  BY <1>1
<1>4. ASSUME NEW n \in Module, op'[n].pc # "idle", op'[n].owner = "main"
      PROVE  main'.pc \in {"bootStart", "reloadStart"} /\ n \in main'.todo
  <2>1. op[n].pc # "idle" /\ op[n].owner = "main"
    BY <1>4, OwnersStay
  <2>2. FinishStart(m) => n # m
    BY <1>4 DEF FinishStart, TypeOK, IdleOp
  <2>3. main.pc \in {"bootStart", "reloadStart"} /\ n \in main.todo
    BY <2>1 DEF CallInv, MainPlace, InFlight
  <2> QED
    BY <1>1, <2>2, <2>3
<1>5. MainPlace'
  BY <1>1, <1>2, <1>3, <1>4 DEF CallInv, MainPlace, FirstOf, LastOf, ReloadPcs, InFlight, TypeOK, MainRecord
<1>6. DisablePlace'
  <2> SUFFICES ASSUME main'.pc = "disable", NEW n \in Module, FirstOf(n, main'.todo, RegRank)
               PROVE  ~Active(runner'[n].state)
    BY DEF DisablePlace, FirstOf
  <2>1. main.pc = "disable" /\ FirstOf(n, main.todo, RegRank)
    BY <1>1, <1>3
  <2>2. ~Active(runner[n].state) /\ ~runner[n].enabled /\ Fits(n)
    BY <2>1 DEF CallInv, DisablePlace, MainPlace, FirstOf
  <2> QED
    BY <2>2, RestStays
<1> QED
  BY <1>5, <1>6

\* No two modules are first of a set in registration order.
LEMMA OneFirst ==
  ASSUME NEW S \in SUBSET Module, NEW m \in Module, NEW n \in Module,
         FirstOf(m, S, RegRank), FirstOf(n, S, RegRank)
  PROVE  m = n
<1>1. RegRank[m] \in Nat /\ RegRank[n] \in Nat
  BY RegRankAssumption
<1>2. RegRank[m] = RegRank[n]
  BY <1>1 DEF FirstOf
<1> QED
  BY <1>2, RegRankAssumption

\* main's plan stays sound when main starts, waits, plans a reload or shuts down.
LEMMA PlaceMain ==
  ASSUME TypeOK, MainPlace,
         \/ Start \/ StartCancelled \/ LaunchLoop \/ ReloadRejected \/ Reload \/ SelectPrepared
         \/ AllPrepared \/ Enable \/ ReloadDone \/ Shutdown \/ WaitLoop \/ WaitOps
         \/ DeadlineExceeded \/ Exit
  PROVE  MainPlace' /\ DisablePlace'
<1>1. main \in MainRecord /\ reloads \in Nat /\ MaxReloads \in Nat
  BY ParameterAssumption DEF TypeOK
<1> USE DEF MainPlace, ReloadPcs, InFlight, DisablePlace
<1>2. CASE Start
  BY <1>1, <1>2 DEF Start, MainRecord, env, modules
<1>3. CASE StartCancelled
  BY <1>1, <1>3 DEF StartCancelled, MainWaits, MainRecord, env
<1>4. CASE LaunchLoop
  BY <1>1, <1>4 DEF LaunchLoop, MainRecord, env
<1>5. CASE ReloadRejected
  <2>1. main.pc = "idle" /\ UNCHANGED <<main, op, graph, runner, stopped>>
    BY <1>5 DEF ReloadRejected
  <2> QED
    BY <2>1, <1>1
<1>6. CASE Reload
  BY <1>1, <1>6 DEF Reload, MainRecord
<1>7. CASE SelectPrepared
  <2>1. main'.pc = "prepare" /\ main'.cur = main.cur /\ main.pc = "select" /\ op' = op
    BY <1>1, <1>7 DEF SelectPrepared, MainRecord
  <2> QED
    BY <1>1, <2>1
<1>8. CASE AllPrepared
  BY <1>1, <1>8 DEF AllPrepared, MainRecord, env
<1>9. CASE Enable
  <2>1. /\ main.pc = "reloadStop" /\ main.todo = {} /\ main'.pc = "reloadStart"
        /\ main'.cur = main.cur /\ op' = op
    BY <1>1, <1>9 DEF Enable, MainRecord
  <2> QED
    BY ModuleAssumption, <2>1 DEF FirstOf
<1>10. CASE ReloadDone
  BY <1>1, <1>10 DEF ReloadDone, MainRecord, env
<1>11. CASE Shutdown
  BY <1>1, <1>11 DEF Shutdown, MainRecord
<1>12. CASE WaitLoop
  BY <1>1, <1>12 DEF WaitLoop, MainRecord, env
<1>13. CASE WaitOps
  BY <1>1, <1>13 DEF WaitOps, MainRecord, env
<1>14. CASE DeadlineExceeded
  BY <1>1, <1>14 DEF DeadlineExceeded, MainRecord, env
<1>15. CASE Exit
  BY <1>1, <1>15 DEF Exit, MainRecord, env
<1> QED
  BY <1>2, <1>3, <1>4, <1>5, <1>6, <1>7, <1>8, <1>9, <1>10, <1>11, <1>12, <1>13, <1>14, <1>15

\* The swap plans to stop exactly the modules it switches off.
LEMMA PlaceSwap ==
  ASSUME TypeOK, MainPlace, Swap
  PROVE  MainPlace' /\ DisablePlace'
<1>1. /\ main.pc = "commit" /\ main'.pc = "reloadStop" /\ main'.cur = main.cur
      /\ main'.todo = EnabledSet \ cand.enabled /\ op' = op
  BY DEF TypeOK, MainRecord, Swap
<1>2. ASSUME NEW n \in main'.todo
      PROVE  ~runner'[n].enabled
  <2>1. n \in Module /\ n \notin cand.enabled /\ runner'[n] = Swapped(n)
    BY <1>1, <1>2 DEF EnabledSet, Swap
  <2>2. Swapped(n).enabled = (n \in cand.enabled)
    BY <2>1 DEF TypeOK, RunnerRecord, Swapped
  <2> QED
    BY <2>1, <2>2
<1> QED
  BY <1>1, <1>2 DEF MainPlace, DisablePlace, ReloadPcs, InFlight

\* main's plan stays sound when main starts, prepares or stops a module.
LEMMA PlaceModule ==
  ASSUME TypeOK, MainPlace, NEW m \in Module,
         \/ StartOnce(m) \/ StopModule(m) \/ StopModuleDone(m)
         \/ Prepare(m) \/ Commit(m) \/ Disable(m)
  PROVE  MainPlace' /\ DisablePlace'
<1>1. /\ main \in MainRecord /\ runner \in [Module -> RunnerRecord] /\ op \in [Module -> OpRecord]
      /\ runner[m] \in RunnerRecord
  BY DEF TypeOK
<1>2. \A n \in Module : runner'[n].enabled = runner[n].enabled
  <2>1. MainStep /\ ~Swap
    <3>1. MainStep
      BY DEF MainStep
    <3>2. Swap => main.pc = "commit" /\ main.todo = {} /\ main'.pc = "reloadStop"
      BY <1>1 DEF Swap, MainRecord
    <3>3. ~(main.pc = "commit" /\ main.todo = {} /\ main'.pc = "reloadStop")
      BY ModuleAssumption DEF StartOnce, StopModule, MainStops, StopModuleDone, MainPlace, Prepare, Commit,
             Disable, FirstOf
    <3> QED
      BY <3>1, <3>2, <3>3
  <2> QED
    BY <2>1, SwitchesStay
<1>3. NoModule # m
  BY ModuleAssumption
<1>4. CASE StartOnce(m)
  <2>1. /\ main.pc \in {"bootStart", "reloadStart"} /\ m \in main.todo /\ ~MainWaits
        /\ main'.pc = main.pc /\ main'.cur = main.cur /\ graph' = graph /\ stopped' = stopped
    BY <1>1, <1>4 DEF StartOnce, FirstOf, MainRecord, env
  <2>2. ASSUME NEW n \in Module, op'[n].pc # "idle", op'[n].owner = "main"
        PROVE  n \in main'.todo
    <3>1. op'[n] # op[n]
      BY <2>1, <2>2 DEF MainWaits, InFlight
    <3>2. ClaimStart(m, "main") \/ ClaimRefused(m)
      BY <1>4 DEF StartOnce
    <3>3. n = m /\ ~ClaimRefused(m)
      BY <3>1, <3>2, ClaimEffect DEF ClaimRefused
    <3>4. main' = main
      BY <1>4, <3>3 DEF StartOnce
    <3> QED
      BY <2>1, <3>3, <3>4
  <2> QED
    BY <2>1, <2>2 DEF MainPlace, DisablePlace, ReloadPcs, InFlight
<1>5. CASE StopModule(m) /\ StopActive(m)
  <2>1. main'.pc = main.pc /\ main'.cur = m /\ main'.todo = main.todo
    <3>1. Active(runner[m].state)
      BY <1>5 DEF StopActive
    <3>2. main' = [main EXCEPT !.cur = m, !.lease = runner[m].lease]
      BY <1>5, <3>1 DEF StopModule, StopInactive
    <3> QED
      BY <1>1, <3>2 DEF MainRecord
  <2>2. MainStops(m) /\ op' = op /\ graph' = graph /\ stopped' = stopped
    BY <1>5 DEF StopModule, env
  <2> QED
    BY <1>1, <1>2, <2>1, <2>2 DEF MainPlace, DisablePlace, ReloadPcs, InFlight, MainStops, MainRecord
<1>6. CASE StopModule(m) /\ StopInactive(m)
  <2>1. /\ ~Active(runner[m].state) /\ ~Active(runner'[m].state)
        /\ MainStops(m) /\ main.cur = NoModule
    <3>1. AtRest(runner[m], "Stopped").state = "Stopped"
      BY <1>1, RunnerFields DEF State
    <3> QED
      BY <1>1, <1>6, <3>1 DEF StopModule, StopInactive, Active
  <2>2. main' = IF main.pc = "stopAll" THEN [main EXCEPT !.todo = @ \ {m}]
                ELSE [main EXCEPT !.pc = "disable"]
    BY <1>6, <2>1 DEF StopModule, StopActive
  <2>3. op' = op /\ graph' = graph /\ stopped' = stopped
    BY <1>6 DEF StopModule, env
  <2>4. CASE main.pc = "stopAll"
    BY <1>1, <2>1, <2>2, <2>3, <2>4 DEF MainPlace, DisablePlace, ReloadPcs, InFlight, MainRecord
  <2>5. CASE main.pc = "reloadStop"
    <3>1. main'.pc = "disable" /\ main'.todo = main.todo /\ main'.cur = NoModule
      BY <1>1, <2>1, <2>2, <2>5 DEF MainRecord
    <3>2. FirstOf(m, main.todo, RegRank) /\ main.todo \in SUBSET Module
      BY <1>1, <2>1, <2>5 DEF MainStops, MainRecord
    <3>3. DisablePlace'
      BY <2>1, <3>1, <3>2, OneFirst DEF DisablePlace, FirstOf
    <3>4. MainPlace'
      BY <1>2, <1>1, <2>3, <2>5, <3>1 DEF MainPlace, ReloadPcs, InFlight, MainRecord
    <3> QED
      BY <3>3, <3>4
  <2> QED
    BY <2>1, <2>4, <2>5 DEF MainStops
<1>7. CASE StopModuleDone(m)
  <2>1. main.cur = m /\ main.pc \in {"reloadStop", "stopAll"} /\ runner'[m].state = "Stopped"
    <3>1. AtRest(runner[m], "Stopped").state = "Stopped"
      BY <1>1, RunnerFields DEF State
    <3> QED
      BY <1>1, <1>3, <1>7, <3>1 DEF StopModuleDone, MainPlace
  <2>2. main' = IF main.pc = "stopAll"
                  THEN [main EXCEPT !.cur = NoModule, !.lease = FALSE, !.todo = @ \ {m}]
                  ELSE [main EXCEPT !.cur = NoModule, !.lease = FALSE, !.pc = "disable"]
    BY <1>7 DEF StopModuleDone
  <2>3. op' = op /\ graph' = graph /\ stopped' = stopped
    BY <1>7 DEF StopModuleDone, env
  <2>4. CASE main.pc = "stopAll"
    BY <1>1, <2>2, <2>3, <2>4 DEF MainPlace, DisablePlace, ReloadPcs, InFlight, MainRecord
  <2>5. CASE main.pc = "reloadStop"
    <3>1. main'.pc = "disable" /\ main'.todo = main.todo /\ main'.cur = NoModule
      BY <1>1, <2>2, <2>5 DEF MainRecord
    <3>2. FirstOf(m, main.todo, RegRank) /\ main.todo \in SUBSET Module
      BY <1>1, <1>3, <2>1, <2>5 DEF MainPlace, MainRecord
    <3>3. DisablePlace'
      BY <2>1, <3>1, <3>2, OneFirst DEF DisablePlace, FirstOf, Active
    <3>4. MainPlace'
      BY <1>2, <1>1, <2>3, <2>5, <3>1 DEF MainPlace, ReloadPcs, InFlight, MainRecord
    <3> QED
      BY <3>3, <3>4
  <2> QED
    BY <2>1, <2>4, <2>5
<1>8. CASE Prepare(m)
  <2>1. main.pc = "prepare" /\ main'.pc \in {"prepare", "idle"} /\ main'.cur = main.cur /\ op' = op
    BY <1>1, <1>8 DEF Prepare, MainRecord
  <2> QED
    BY <2>1 DEF MainPlace, DisablePlace, ReloadPcs, InFlight
<1>9. CASE Commit(m)
  <2>1. main.pc = "commit" /\ main'.pc = "commit" /\ main'.cur = main.cur /\ op' = op
    BY <1>1, <1>9 DEF Commit, MainRecord
  <2> QED
    BY <2>1 DEF MainPlace, DisablePlace, ReloadPcs, InFlight
<1>10. CASE Disable(m)
  <2>1. /\ main.pc = "disable" /\ main'.pc = "reloadStop" /\ main'.cur = main.cur /\ op' = op
        /\ main'.todo = main.todo \ {m}
    BY <1>1, <1>10 DEF Disable, MainRecord
  <2> QED
    BY <1>2, <1>1, <2>1 DEF MainPlace, DisablePlace, ReloadPcs, InFlight, MainRecord
<1> QED
  BY <1>4, <1>5, <1>6, <1>7, <1>8, <1>9, <1>10 DEF StopModule

-----------------------------------------------------------------------------
(* The theorem. *)

LEMMA CallInit == Init => CallInv
<1> SUFFICES ASSUME Init PROVE CallInv
  OBVIOUS
<1>1. main.pc = "boot" /\ main.cur = NoModule
  BY DEF Init
<1>2. ASSUME NEW n \in Module
      PROVE  Fits(n) /\ ~InFlight(n)
  <2>1. op[n].pc = "idle" /\ mainStops[n] = 0
    BY DEF Init, IdleOp
  <2>2. runner[n].state \in {"Registered", "Disabled"} /\ ~runner[n].lease
    BY DEF Init, NewRunner
  <2> QED
    BY <2>1, <2>2 DEF Fits, Launching, InFlight, StartPcs
<1> QED
  BY <1>1, <1>2 DEF CallInv, MainPlace, DisablePlace, ReloadPcs

\* Every step keeps CallInv, unless a configuration is reloaded while calls overrun their
\* deadlines: then a Stop of a past reload may still end in the module's next life.
LEMMA CallNext ==
  ASSUME Overrun => MaxReloads = 0, TypeOK, LeaseInv, CallInv, [Next]_vars
  PROVE  CallInv'
<1>1. CASE UNCHANGED vars
  BY <1>1 DEF vars, CallInv, MainPlace, DisablePlace, Fits, FirstOf, LastOf, InFlight, Launching,
              Superseded
<1>2. ASSUME NEW m \in Module,
             OpStep(m) \/ ModuleReturns(m) \/ RetryDue(m) \/ ReportFailure(m)
      PROVE  CallInv'
  <2>1. MainPlace' /\ DisablePlace'
    BY <1>2, PlaceOthers
  <2>2. ASSUME NEW n \in Module PROVE Fits(n)'
    <3>1. Fits(n) /\ MainPlace /\ DisablePlace
      BY DEF CallInv
    <3>2. CASE Admit(m) \/ FinishStart(m) \/ StartReturns(m) \/ CleanupReturns(m)
      BY <3>1, <3>2, FitsStart
    <3>3. CASE AsyncRelease(m) \/ FailedStop(m) \/ RetryDue(m) \/ ReportFailure(m)
      BY <3>1, <3>3, FitsQuiet, FrameFits
    <3>4. CASE \/ DependentStopped(m) \/ FailedStopped(m) \/ OpStopReturns(m)
               \/ \E d \in Module : StopForDependency(m, d)
      BY <3>1, <3>4, FitsCascade
    <3>5. CASE MainStopReturns(m)
      BY <3>1, <3>5, FitsStop
    <3> QED
      BY <1>2, <3>2, <3>3, <3>4, <3>5 DEF OpStep, ModuleReturns
  <2> QED
    BY <2>1, <2>2 DEF CallInv
<1>3. CASE LoopStep
  <2>1. CASE Module = {}
    <3>1. MainPlace' /\ DisablePlace'
      <4>1. main' = main /\ stopped' = stopped /\ graph' = graph
        BY <1>3 DEF LoopStep, LoopScan, HandleRuntimeFailure, LoopExit, LoopClaim, env
      <4>2. main.todo \subseteq Module
        BY DEF TypeOK, MainRecord
      <4> QED
        BY <2>1, <4>1, <4>2 DEF CallInv, MainPlace, DisablePlace, FirstOf, LastOf
    <3> QED
      BY <2>1, <3>1 DEF CallInv
  <2>2. ASSUME NEW m \in Module PROVE MainPlace' /\ DisablePlace'
    BY <1>3, PlaceOthers
  <2>3. ASSUME NEW n \in Module PROVE Fits(n)'
    <3>1. Fits(n) /\ MainPlace /\ DisablePlace
      BY DEF CallInv
    <3>2. ASSUME NEW m \in Module, LoopClaim(m) PROVE Fits(n)'
      <4>1. main' = main /\ stopped' = stopped /\ UNCHANGED modules
        BY <3>2 DEF LoopClaim, env
      <4>2. ClaimStart(m, "loop") \/ ClaimRefused(m)
        BY <3>2 DEF LoopClaim
      <4> QED
        BY <3>1, <4>1, <4>2, FitsClaim
    <3>3. CASE HandleRuntimeFailure
      BY <3>1, <3>3, FitsCascade
    <3>4. CASE LoopScan \/ LoopExit
      BY <3>1, <3>4, FitsQuiet, FrameFits
    <3> QED
      BY <1>3, <3>2, <3>3, <3>4 DEF LoopStep
  <2> QED
    BY <2>1, <2>2, <2>3 DEF CallInv
<1>4. CASE MainStep
  <2>1. MainPlace' /\ DisablePlace'
    BY <1>4, PlaceMain, PlaceSwap, PlaceModule DEF MainStep, CallInv
  <2>2. ASSUME NEW n \in Module PROVE Fits(n)'
    <3>1. Fits(n) /\ MainPlace /\ DisablePlace
      BY DEF CallInv
    <3>2. ASSUME NEW m \in Module, StartOnce(m) PROVE Fits(n)'
      <4>1. main'.cur = main.cur /\ stopped' = stopped /\ UNCHANGED modules
        BY <3>2 DEF StartOnce, TypeOK, MainRecord, env
      <4>2. ClaimStart(m, "main") \/ ClaimRefused(m)
        BY <3>2 DEF StartOnce
      <4> QED
        BY <3>1, <4>1, <4>2, FitsClaim
    <3>3. ASSUME NEW m \in Module, StopModule(m) \/ StopModuleDone(m) \/ Disable(m) PROVE Fits(n)'
      BY <3>1, <3>3, FitsStop
    <3>4. ASSUME NEW m \in Module, Prepare(m) \/ Commit(m) PROVE Fits(n)'
      BY <3>1, <3>4, FitsQuiet, FrameFits
    <3>5. CASE Swap \/ Enable
      BY <3>1, <3>5, FitsQuiet, FrameFits
    <3> QED
      BY <1>4, <3>1, <3>2, <3>3, <3>4, <3>5, FitsMain, FrameFits DEF MainStep
  <2> QED
    BY <2>1, <2>2 DEF CallInv
<1> QED
  BY <1>1, <1>2, <1>3, <1>4 DEF Next, Terminated

\* CallInv with what it rests on.
LEMMA CallInvariant ==
  ASSUME Overrun => MaxReloads = 0
  PROVE  Spec => [](TypeOK /\ LeaseInv /\ CallInv)
<1>1. TypeOK /\ LeaseInv /\ CallInv /\ [Next]_vars => CallInv'
  BY CallNext
<1> QED
  BY <1>1, CallInit, TypeCorrect, LeaseSafe, PTL DEF Spec

\* RunningIsUp: a module recorded as Running is the live instance of the recorded start, with
\* its admission held and nobody working on it, whatever fails, restarts, cascades, is
\* reloaded or shut down; calls may overrun their deadlines where nothing is ever reloaded.
THEOREM RunningModulesAreUp ==
  ASSUME Overrun => MaxReloads = 0
  PROVE  Spec => []RunningIsUp
<1>1. TypeOK /\ LeaseInv /\ CallInv => RunningIsUp
  <2> SUFFICES ASSUME LeaseInv, CallInv, NEW m \in Module, runner[m].state = "Running"
               PROVE  /\ runner[m].lease /\ m \in admitted
                      /\ mod[m].run # "down" /\ mod[m].gen = runner[m].gen
                      /\ ~InFlight(m)
    BY DEF RunningIsUp
  <2>1. /\ runner[m].lease /\ mod[m].run # "down" /\ mod[m].gen = runner[m].gen
        /\ ~InFlight(m)
    BY DEF CallInv, Fits
  <2>2. m \in admitted
    BY <2>1 DEF LeaseInv, LeaseOwned, Holders
  <2> QED
    BY <2>1, <2>2
<1> QED
  BY <1>1, CallInvariant, PTL


-----------------------------------------------------------------------------
(* Shutdown. *)

Up(m) == runner[m].state \in {"Starting", "Running"}

\* The resolved graph is that of the configuration in force, and closed; before Start and
\* while the modules are stopped no goroutine works.
GraphPlace ==
  /\ main.pc \notin {"boot", "exited"} => graph = EnabledSet
  /\ Closed(graph)
  /\ main.pc \in {"select", "prepare", "commit"} => Closed(cand.enabled)
  /\ main.pc = "boot" => loop = "off"
  /\ main.pc \in {"boot", "stopAll"} => \A m \in Module : ~InFlight(m)

\* Who may be up: an enabled module, or one that the reload is about to stop; and until
\* Shutdown stops the modules, none whose dependency is at rest.
UpPlace ==
  /\ main.pc = "boot" => \A m \in Module : ~Up(m)
  /\ \A m \in Module : Up(m) /\ ~runner[m].enabled =>
       main.pc \in {"reloadStop", "disable"} /\ m \in main.todo
  /\ main.pc # "stopAll" =>
       \A m \in graph : \A d \in Deps[m] :
         runner[d].enabled /\ runner[d].state \in {"Stopped", "Disabled"} => ~Up(m)

\* What Shutdown has still to stop: everything that runs, with all it depends on.
StopPlace ==
  main.pc = "stopAll" =>
    /\ main.todo \subseteq graph
    /\ \A m \in main.todo : Deps[m] \subseteq main.todo
    /\ \A m \in Module : runner[m].state = "Running" => m \in main.todo

\* ShutdownOrder as an inductive invariant (with TypeOK and CallInv).
ShutdownInv == GraphPlace /\ UpPlace /\ StopPlace /\ ShutdownOrder

-----------------------------------------------------------------------------
(* What the goroutines other than main do to the states. *)

\* None of them brings a module to rest as Stopped or Disabled, starts one that is switched
\* off or whose dependency is down, or begins anything once the supervisor is stopped.
LEMMA OthersStates ==
  ASSUME TypeOK, CallInv, NEW m \in Module,
         LoopStep \/ OpStep(m) \/ ModuleReturns(m) \/ RetryDue(m) \/ ReportFailure(m),
         NEW n \in Module
  PROVE  /\ runner'[n].state \in {"Stopped", "Disabled"} => runner'[n].state = runner[n].state
         /\ Up(n)' => Up(n) \/ (runner[n].enabled /\ ~DependencyDown(n))
         /\ (\A k \in Module : ~InFlight(k)) /\ (stopped \/ loop # "on") =>
              runner'[n].state = runner[n].state /\ op'[n].pc = "idle"
<1> DEFINE Quiet == (\A k \in Module : ~InFlight(k)) /\ (stopped \/ loop # "on")
           Good == /\ runner'[n].state \in {"Stopped", "Disabled"} =>
                        runner'[n].state = runner[n].state
                   /\ Up(n)' => Up(n) \/ (runner[n].enabled /\ ~DependencyDown(n))
                   /\ Quiet => runner'[n].state = runner[n].state /\ op'[n].pc = "idle"
<1>1. /\ runner \in [Module -> RunnerRecord] /\ runner[n] \in RunnerRecord
      /\ runner[m] \in RunnerRecord /\ op \in [Module -> OpRecord] /\ op[n] \in OpRecord
  BY DEF TypeOK
<1>2. runner'[n].state = runner[n].state /\ op'[n] = op[n] => Good
  BY DEF Up, InFlight
<1>3. runner'[n].state = runner[n].state /\ InFlight(m) => Good
  BY DEF Up
<1>4. runner'[n].state \in {"Stopping", "Failed", "CrashLooping", "Unsupported"} /\ ~Quiet => Good
  BY DEF Up
<1>5. CASE LoopStep
  <2>1. ASSUME NEW d \in Module, LoopClaim(d) PROVE Good
    <3>1. ~stopped /\ loop = "on" => ~Quiet
      OBVIOUS
    <3>2. loop = "on"
      BY <2>1 DEF LoopClaim
    <3> QED
      BY <1>2, <2>1, <3>1, <3>2, ClaimEffect DEF LoopClaim, Startable, Up
  <2>2. CASE HandleRuntimeFailure
    <3>1. \/ runner' = runner /\ op' = op
          \/ /\ ~stopped /\ loop = "on"
             /\ runner' = [runner EXCEPT ![Head(failures).id] =
                             [@ EXCEPT !.state = "Stopping", !.lease = FALSE]]
      BY <2>2 DEF HandleRuntimeFailure, Current
    <3>2. CASE /\ ~stopped /\ loop = "on"
               /\ runner' = [runner EXCEPT ![Head(failures).id] =
                               [@ EXCEPT !.state = "Stopping", !.lease = FALSE]]
      <4>1. runner'[n].state = runner[n].state \/ runner'[n].state = "Stopping"
        BY <1>1, <3>2 DEF RunnerRecord
      <4> QED
        BY <3>2, <4>1, <1>4 DEF Up
    <3> QED
      BY <1>2, <3>1, <3>2
  <2> QED
    BY <1>2, <1>5, <2>1, <2>2 DEF LoopStep, LoopScan, LoopExit
<1>6. CASE OpStep(m)
  <2>1. CASE FinishStart(m)
    <3>1. InFlight(m) /\ op[m].pc = "finish"
      BY <2>1 DEF FinishStart, InFlight
    <3>2. CASE n = m /\ ~Superseded(m) /\ runner'[n] \in Recorded(n)
      <4>1. Up(n)
        BY <3>1, <3>2 DEF CallInv, Fits, Launching, StartPcs, Up
      <4>2. ASSUME NEW r \in Recorded(n)
            PROVE  r.state \in {"Running", "Failed", "CrashLooping", "Unsupported"}
        <5>1. CASE op[n].result = "ok"
          BY <1>1, <4>2, <5>1 DEF Recorded, RunnerRecord
        <5>2. CASE op[n].result = "unsupported"
          BY <1>1, <4>2, <5>2 DEF Recorded, RunnerRecord
        <5>3. CASE op[n].result = "error"
          <6>1. \A q \in FailLocked(runner[n]) : q.state \in {"Failed", "CrashLooping"}
            BY <1>1, RunnerFields
          <6> QED
            BY <4>2, <5>3, <6>1 DEF Recorded
        <5> QED
          BY <1>1, <5>1, <5>2, <5>3 DEF OpRecord
      <4> QED
        BY <3>1, <3>2, <4>1, <4>2
    <3> QED
      BY <1>1, <1>3, <2>1, <3>1, <3>2 DEF FinishStart
  <2>2. CASE DependentStopped(m)
    <3>1. Blocked(runner[n]).state = "Failed"
      BY <1>1, RunnerFields
    <3>2. runner'[n] = runner[n] \/ runner'[n] = Blocked(runner[n])
      BY <1>1, <2>2 DEF DependentStopped
    <3>3. InFlight(m)
      BY <2>2 DEF DependentStopped, InFlight
    <3> QED
      BY <1>3, <1>4, <3>1, <3>2, <3>3
  <2>3. CASE FailedStopped(m)
    <3>1. \A q \in FailLocked(runner[n]) : q.state \in {"Failed", "CrashLooping"}
      BY <1>1, RunnerFields
    <3>2. runner'[n] = runner[n] \/ runner'[n] \in FailLocked(runner[n])
      BY <1>1, <2>3 DEF FailedStopped
    <3>3. InFlight(m)
      BY <2>3 DEF FailedStopped, InFlight
    <3> QED
      BY <1>3, <1>4, <3>1, <3>2, <3>3
  <2>4. ASSUME NEW d \in Module, StopForDependency(m, d) PROVE Good
    <3>1. TakenDown(runner[n]).state = "Stopping"
      BY <1>1, RunnerFields
    <3>2. runner'[n] = runner[n] \/ runner'[n] = TakenDown(runner[n])
      BY <1>1, <2>4 DEF StopForDependency
    <3>3. InFlight(m)
      BY <2>4 DEF StopForDependency, NextDependent, InFlight
    <3> QED
      BY <1>3, <1>4, <3>1, <3>2, <3>3
  <2>5. CASE Admit(m) \/ FailedStop(m)
    BY <1>3, <2>5 DEF Admit, FailedStop, InFlight
  <2>6. CASE AsyncRelease(m)
    BY <1>2, <2>6 DEF AsyncRelease
  <2> QED
    BY <1>6, <2>1, <2>2, <2>3, <2>4, <2>5, <2>6 DEF OpStep
<1>7. CASE ModuleReturns(m)
  <2>1. CASE MainStopReturns(m)
    BY <1>2, <2>1 DEF MainStopReturns
  <2>2. CASE StartReturns(m) \/ CleanupReturns(m) \/ OpStopReturns(m)
    BY <1>3, <2>2 DEF StartReturns, CleanupReturns, OpStopReturns, InFlight
  <2> QED
    BY <1>7, <2>1, <2>2 DEF ModuleReturns
<1>8. CASE RetryDue(m)
  <2>1. runner'[n].state = runner[n].state /\ op' = op
    BY <1>1, <1>8 DEF RetryDue, RunnerRecord
  <2> QED
    BY <1>2, <2>1
<1>9. CASE ReportFailure(m)
  BY <1>2, <1>9 DEF ReportFailure
<1> QED
  BY <1>5, <1>6, <1>7, <1>8, <1>9

\* The goroutines other than main keep the invariant.
LEMMA ShutdownOthers ==
  ASSUME TypeOK, CallInv, ShutdownInv, NEW m \in Module,
         LoopStep \/ OpStep(m) \/ ModuleReturns(m) \/ RetryDue(m) \/ ReportFailure(m)
  PROVE  ShutdownInv'
<1>1. /\ graph' = graph /\ stopped' = stopped
      /\ main'.pc = main.pc /\ main'.cur = main.cur
      /\ \/ main' = main
         \/ main.pc \in {"bootStart", "reloadStart"} /\ main'.todo = main.todo \ {m}
            /\ FinishStart(m)
  BY OthersAndMain DEF CallInv
<1>2. main.pc \notin {"bootStart", "reloadStart"} => main' = main
  BY <1>1
<1>3. \A n \in Module : runner'[n].enabled = runner[n].enabled
  BY SwitchesStay
<1>4. cand' = cand /\ (loop = "off" => loop' = "off")
  BY DEF LoopStep, LoopScan, HandleRuntimeFailure, LoopExit, LoopClaim, OpStep, Admit, FinishStart,
         AsyncRelease, DependentStopped, FailedStop, FailedStopped, StopForDependency,
         ModuleReturns, StartReturns, CleanupReturns, OpStopReturns, MainStopReturns,
         RetryDue, ReportFailure, control, env
<1>5. main.pc \in {"boot", "stopAll"} =>
        \A n \in Module : runner'[n].state = runner[n].state /\ op'[n].pc = "idle"
  <2>1. main.pc \in {"boot", "stopAll"} =>
          (\A k \in Module : ~InFlight(k)) /\ (stopped \/ loop # "on")
    BY DEF ShutdownInv, GraphPlace, CallInv, MainPlace
  <2> QED
    BY <2>1, OthersStates
<1>6. GraphPlace'
  <2>1. EnabledSet' = EnabledSet
    BY <1>3 DEF EnabledSet
  <2> QED
    BY <1>1, <1>4, <1>5, <2>1 DEF ShutdownInv, GraphPlace, InFlight, Closed
<1>7. UpPlace'
  <2>1. (main'.pc = "boot" => \A n \in Module : ~Up(n)')
    BY <1>1, <1>5 DEF ShutdownInv, UpPlace, Up
  <2>2. ASSUME NEW n \in Module, Up(n)', ~runner'[n].enabled
        PROVE  main'.pc \in {"reloadStop", "disable"} /\ n \in main'.todo
    <3>1. Up(n) /\ ~runner[n].enabled
      BY <1>3, <2>2, OthersStates
    <3>2. main.pc \in {"reloadStop", "disable"} /\ n \in main.todo
      BY <3>1 DEF ShutdownInv, UpPlace
    <3> QED
      BY <1>2, <3>2
  <2>3. ASSUME main'.pc # "stopAll", NEW n \in graph', NEW d \in Deps[n],
               runner'[d].enabled, runner'[d].state \in {"Stopped", "Disabled"}
        PROVE  ~Up(n)'
    <3>1. n \in Module /\ d \in Module /\ n \in graph
      BY <1>1, DepsAssumption DEF TypeOK
    <3>2. runner[d].enabled /\ runner[d].state \in {"Stopped", "Disabled"}
      BY <1>3, <2>3, <3>1, OthersStates
    <3>3. ~Up(n) /\ DependencyDown(n)
      BY <1>1, <2>3, <3>1, <3>2 DEF ShutdownInv, UpPlace, DependencyDown, Dependencies
    <3> QED
      BY <3>1, <3>3, OthersStates
  <2> QED
    BY <2>1, <2>2, <2>3 DEF UpPlace
<1>8. StopPlace' /\ ShutdownOrder'
  <2>1. main.pc = "stopAll" => StopPlace' /\ ShutdownOrder'
    <3> SUFFICES ASSUME main.pc = "stopAll" PROVE StopPlace' /\ ShutdownOrder'
      OBVIOUS
    <3>1. main' = main /\ \A n \in Module : runner'[n].state = runner[n].state
      BY <1>2, <1>5
    <3>2. StopPlace'
      BY <1>1, <3>1 DEF ShutdownInv, StopPlace
    <3>3. ASSUME NEW n \in Module, NEW d \in Dependencies(n)',
                 runner'[d].state \in {"Stopping", "Stopped"}
          PROVE  runner'[n].state # "Running"
      <4>1. d \in Dependencies(n)
        BY <1>1, <3>3 DEF Dependencies
      <4>2. d \in Module
        BY <4>1, DepsAssumption DEF Dependencies
      <4> QED
        BY <3>1, <3>3, <4>1, <4>2 DEF ShutdownInv, ShutdownOrder
    <3> QED
      BY <3>2, <3>3 DEF ShutdownOrder
  <2> QED
    BY <1>1, <2>1 DEF StopPlace, ShutdownOrder
<1> QED
  BY <1>6, <1>7, <1>8 DEF ShutdownInv

-----------------------------------------------------------------------------
(* main. *)

\* A step of main that moves no module and neither begins nor ends the stops of Shutdown.
LEMMA ShutdownFrame ==
  ASSUME ShutdownInv, runner' = runner, op' = op, graph' = graph,
         main.pc \notin {"boot", "stopAll"}, main'.pc \notin {"boot", "stopAll"},
         main.pc = "exited" => main'.pc = "exited",
         main.pc \in {"reloadStop", "disable"} => main'.todo = main.todo /\ main'.pc = main.pc,
         main'.pc \in {"select", "prepare", "commit"} => Closed(cand'.enabled)
  PROVE  ShutdownInv'
<1>1. EnabledSet' = EnabledSet /\ \A m \in Module : Up(m)' = Up(m)
  BY DEF EnabledSet, Up
<1>2. GraphPlace'
  BY <1>1 DEF ShutdownInv, GraphPlace, InFlight, Closed
<1>3. UpPlace'
  BY <1>1 DEF ShutdownInv, UpPlace, Up
<1> QED
  BY <1>2, <1>3 DEF ShutdownInv, StopPlace, ShutdownOrder

\* The steps of main that leave the modules alone.
LEMMA ShutdownQuiet ==
  ASSUME ~Overrun, TypeOK, CallInv, ShutdownInv,
         \/ Start \/ StartCancelled \/ LaunchLoop \/ ReloadRejected \/ Reload \/ SelectPrepared
         \/ AllPrepared \/ ReloadDone \/ Shutdown \/ WaitLoop \/ WaitOps
         \/ DeadlineExceeded \/ Exit \/ \E m \in Module : Prepare(m) \/ Commit(m)
  PROVE  ShutdownInv'
<1>1. main \in MainRecord /\ graph \in SUBSET Module /\ EnabledSet \in SUBSET Module
  BY DEF TypeOK, EnabledSet
<1>2. ASSUME main.pc = "boot", runner' = runner, op' = op, main'.pc \in {"bootStart", "exited"},
             \/ graph' = EnabledSet /\ Closed(EnabledSet)
             \/ graph' = graph /\ main'.pc = "exited"
      PROVE  ShutdownInv'
    <2>1. \A n \in Module : ~Up(n)' /\ ~Up(n)
      BY <1>2 DEF ShutdownInv, UpPlace, Up
    <2>2. graph' \subseteq Module
      BY <1>1, <1>2
    <2>3. UpPlace'
      BY <1>2, <2>1, <2>2 DEF UpPlace
    <2>4. GraphPlace'
      <3>1. EnabledSet' = EnabledSet
        BY <1>2 DEF EnabledSet
      <3> QED
        BY <1>2, <3>1 DEF ShutdownInv, GraphPlace, Closed
    <2> QED
      BY <1>2, <2>3, <2>4 DEF ShutdownInv, StopPlace, ShutdownOrder
<1>3. CASE Start
  <2>1. CASE Closed(EnabledSet)
    <3>1. graph' = EnabledSet /\ main' = [main EXCEPT !.pc = "bootStart", !.todo = EnabledSet]
      BY <1>3, <2>1 DEF Start
    <3>2. main'.pc = "bootStart" /\ main.pc = "boot" /\ runner' = runner /\ op' = op
      BY <1>1, <1>3, <3>1 DEF Start, MainRecord
    <3> QED
      BY <1>2, <2>1, <3>1, <3>2
  <2>2. CASE ~Closed(EnabledSet)
    <3>1. graph' = graph /\ main' = [main EXCEPT !.pc = "exited"]
      BY <1>3, <2>2 DEF Start
    <3>2. main'.pc = "exited" /\ main.pc = "boot" /\ runner' = runner /\ op' = op
      BY <1>1, <1>3, <3>1 DEF Start, MainRecord
    <3> QED
      BY <1>2, <3>1, <3>2
  <2> QED
    BY <2>1, <2>2
<1>4. CASE StartCancelled
  <2>1. main.pc = "bootStart" /\ main'.pc = "exited" /\ runner' = runner /\ op' = op /\ graph' = graph
    BY <1>1, <1>4 DEF StartCancelled, MainRecord
  <2> QED
    BY <2>1, ShutdownFrame
<1>5. CASE LaunchLoop
  <2>1. main.pc = "bootStart" /\ main'.pc = "idle" /\ runner' = runner /\ op' = op /\ graph' = graph
    BY <1>1, <1>5 DEF LaunchLoop, MainRecord
  <2> QED
    BY <2>1, ShutdownFrame
<1>6. CASE ReloadRejected
  <2>1. main.pc = "idle" /\ main' = main /\ runner' = runner /\ op' = op /\ graph' = graph
    BY <1>6 DEF ReloadRejected
  <2> QED
    BY <2>1, ShutdownFrame
<1>7. CASE Reload
  <2>1. main.pc = "idle" /\ main'.pc = "select" /\ runner' = runner /\ op' = op /\ graph' = graph
    BY <1>1, <1>7 DEF Reload, MainRecord
  <2>2. Closed(cand'.enabled)
    BY <1>7 DEF Reload
  <2> QED
    BY <2>1, <2>2, ShutdownFrame
<1>8. CASE SelectPrepared
  <2>1. main.pc = "select" /\ main'.pc = "prepare" /\ runner' = runner /\ op' = op /\ graph' = graph
        /\ cand' = cand
    BY <1>1, <1>8 DEF SelectPrepared, MainRecord
  <2>2. Closed(cand'.enabled)
    BY <2>1 DEF ShutdownInv, GraphPlace
  <2> QED
    BY <2>1, <2>2, ShutdownFrame
<1>9. CASE AllPrepared
  <2>1. main.pc = "prepare" /\ main'.pc = "commit" /\ runner' = runner /\ op' = op /\ graph' = graph
        /\ cand' = cand
    BY <1>1, <1>9 DEF AllPrepared, MainRecord
  <2>2. Closed(cand'.enabled)
    BY <2>1 DEF ShutdownInv, GraphPlace
  <2> QED
    BY <2>1, <2>2, ShutdownFrame
<1>10. CASE ReloadDone
  <2>1. main.pc = "reloadStart" /\ main'.pc = "idle" /\ runner' = runner /\ op' = op /\ graph' = graph
    BY <1>1, <1>10 DEF ReloadDone, MainRecord
  <2> QED
    BY <2>1, ShutdownFrame
<1>11. CASE Shutdown
  <2>1. main.pc = "idle" /\ main'.pc = "waitLoop" /\ runner' = runner /\ op' = op /\ graph' = graph
    BY <1>1, <1>11 DEF Shutdown, MainRecord
  <2> QED
    BY <2>1, ShutdownFrame
<1>12. CASE WaitLoop
  <2>1. main.pc = "waitLoop" /\ main'.pc = "waitOps" /\ runner' = runner /\ op' = op /\ graph' = graph
    BY <1>1, <1>12 DEF WaitLoop, MainRecord
  <2> QED
    BY <2>1, ShutdownFrame
<1>13. CASE WaitOps
  <2>1. /\ main.pc = "waitOps" /\ main'.pc = "stopAll" /\ main'.todo = graph
        /\ runner' = runner /\ op' = op /\ graph' = graph /\ \A n \in Module : ~InFlight(n)
    BY <1>1, <1>13 DEF WaitOps, MainRecord
  <2>2. main.cur = NoModule
    BY <2>1 DEF CallInv, MainPlace
  <2>3. graph = EnabledSet /\ Closed(graph)
    BY <2>1 DEF ShutdownInv, GraphPlace
  <2>4. \A n \in Module : Up(n) => n \in graph
    BY <2>1, <2>3 DEF ShutdownInv, UpPlace, EnabledSet
  <2>5. GraphPlace'
    <3>1. EnabledSet' = EnabledSet
      BY <2>1 DEF EnabledSet
    <3> QED
      BY <2>1, <2>3, <3>1 DEF GraphPlace, InFlight, Closed
  <2>6. UpPlace'
    BY <2>1 DEF ShutdownInv, UpPlace, Up
  <2>7. StopPlace'
    BY <2>1, <2>3, <2>4 DEF StopPlace, Up, Closed
  <2>8. ASSUME NEW n \in Module, NEW d \in Dependencies(n)',
               runner'[d].state \in {"Stopping", "Stopped"}
        PROVE  runner'[n].state # "Running"
    <3>1. n \in graph /\ d \in Deps[n] /\ d \in Module
      BY <2>1, <2>8, DepsAssumption DEF Dependencies
    <3>2. runner[d].enabled
      BY <2>3, <3>1 DEF Closed, EnabledSet
    <3>3. runner[d].state # "Stopping"
      <4>1. NoModule # d
        BY <3>1, ModuleAssumption
      <4> QED
        BY <2>1, <2>2, <3>1, <4>1 DEF CallInv, Fits
    <3> QED
      BY <2>1, <2>8, <3>1, <3>2, <3>3 DEF ShutdownInv, UpPlace, Up
  <2> QED
    BY <2>5, <2>6, <2>7, <2>8 DEF ShutdownInv, ShutdownOrder
<1>14. CASE DeadlineExceeded
  BY <1>14 DEF DeadlineExceeded
<1>15. CASE Exit
  <2>1. /\ main.pc = "stopAll" /\ main.todo = {} /\ main'.pc = "exited"
        /\ runner' = runner /\ op' = op /\ graph' = graph
    BY <1>1, <1>15 DEF Exit, MainRecord
  <2>2. ASSUME NEW n \in Module PROVE ~Up(n)
    <3>1. runner[n].state # "Running"
      BY <2>1 DEF ShutdownInv, StopPlace
    <3>2. runner[n].state # "Starting"
      BY <2>1 DEF CallInv, Fits, Launching, StartPcs, InFlight, ShutdownInv, GraphPlace
    <3> QED
      BY <3>1, <3>2 DEF Up
  <2>3. UpPlace'
    BY <1>1, <2>1, <2>2 DEF UpPlace, Up
  <2>4. GraphPlace'
    BY <2>1 DEF ShutdownInv, GraphPlace, Closed
  <2> QED
    BY <2>1, <2>3, <2>4 DEF ShutdownInv, StopPlace, ShutdownOrder
<1>16. ASSUME NEW m \in Module, Prepare(m) PROVE ShutdownInv'
  <2>1. main.pc = "prepare" /\ main'.pc \in {"prepare", "idle"} /\ runner' = runner /\ op' = op
        /\ graph' = graph /\ cand' = cand
    BY <1>1, <1>16 DEF Prepare, MainRecord
  <2>2. Closed(cand'.enabled)
    BY <2>1 DEF ShutdownInv, GraphPlace
  <2> QED
    BY <2>1, <2>2, ShutdownFrame
<1>17. ASSUME NEW m \in Module, Commit(m) PROVE ShutdownInv'
  <2>1. main.pc = "commit" /\ main'.pc = "commit" /\ runner' = runner /\ op' = op
        /\ graph' = graph /\ cand' = cand
    BY <1>1, <1>17 DEF Commit, MainRecord
  <2>2. Closed(cand'.enabled)
    BY <2>1 DEF ShutdownInv, GraphPlace
  <2> QED
    BY <2>1, <2>2, ShutdownFrame
<1> QED
  BY <1>3, <1>4, <1>5, <1>6, <1>7, <1>8, <1>9, <1>10, <1>11, <1>12, <1>13, <1>14, <1>15, <1>16, <1>17

\* The swap: a module it switches on has no dependent that is up.
LEMMA ShutdownSwap ==
  ASSUME TypeOK, CallInv, ShutdownInv, Swap
  PROVE  ShutdownInv'
<1>1. /\ main.pc = "commit" /\ main'.pc = "reloadStop" /\ main'.todo = EnabledSet \ cand.enabled
      /\ graph' = cand.enabled /\ op' = op /\ graph = EnabledSet /\ Closed(graph')
      /\ cand.enabled \subseteq Module
  BY DEF TypeOK, MainRecord, Swap, ShutdownInv, GraphPlace
<1>2. ASSUME NEW n \in Module
      PROVE  /\ runner'[n].enabled = (n \in cand.enabled)
             /\ \/ runner'[n].state = runner[n].state
                \/ runner[n].state = "CrashLooping" /\ runner'[n].state = "Failed"
  <2>1. runner'[n] = Swapped(n) /\ runner[n] \in RunnerRecord
    BY DEF Swap, TypeOK
  <2>2. /\ Swapped(n).enabled = (n \in cand.enabled)
        /\ \/ Swapped(n).state = runner[n].state
           \/ runner[n].state = "CrashLooping" /\ Swapped(n).state = "Failed"
    BY <2>1 DEF RunnerRecord, Swapped
  <2> QED
    BY <2>1, <2>2
<1>3. \A n \in Module : Up(n)' <=> Up(n)
  BY <1>2 DEF Up
<1>4. EnabledSet' = cand.enabled
  BY <1>1, <1>2 DEF EnabledSet
<1>5. GraphPlace'
  BY <1>1, <1>4 DEF GraphPlace
<1>6. \A n \in Module : Up(n) => n \in EnabledSet
  BY <1>1 DEF ShutdownInv, UpPlace, EnabledSet
<1>7. ASSUME NEW n \in graph', NEW d \in Deps[n],
             runner'[d].enabled, runner'[d].state \in {"Stopped", "Disabled"}
      PROVE  ~Up(n)'
  <2>1. n \in Module /\ d \in Module
    BY <1>1, DepsAssumption
  <2>2. runner[d].state \in {"Stopped", "Disabled"}
    BY <1>2, <1>7, <2>1
  <2>3. CASE n \in graph
    <3>1. d \in EnabledSet
      BY <1>1, <2>3 DEF ShutdownInv, GraphPlace, Closed
    <3> QED
      BY <1>1, <1>3, <2>1, <2>2, <2>3, <3>1 DEF ShutdownInv, UpPlace, EnabledSet
  <2>4. CASE n \notin graph
    BY <1>1, <1>3, <1>6, <2>1, <2>4
  <2> QED
    BY <2>3, <2>4
<1>8. UpPlace'
  BY <1>1, <1>2, <1>3, <1>6, <1>7 DEF UpPlace, EnabledSet
<1> QED
  BY <1>1, <1>5, <1>8 DEF ShutdownInv, StopPlace, ShutdownOrder

\* The enabled modules leave Disabled for Stopped, which is at rest as well.
LEMMA ShutdownEnable ==
  ASSUME TypeOK, ShutdownInv, Enable
  PROVE  ShutdownInv'
<1>1. /\ main.pc = "reloadStop" /\ main'.pc = "reloadStart" /\ main.todo = {}
      /\ graph' = graph /\ op' = op /\ graph \subseteq Module
  BY DEF TypeOK, MainRecord, Enable
<1>2. ASSUME NEW n \in Module
      PROVE  /\ runner'[n].enabled = runner[n].enabled
             /\ \/ runner'[n].state = runner[n].state
                \/ runner[n].state = "Disabled" /\ runner'[n].state = "Stopped"
  <2>1. \/ runner'[n] = runner[n]
        \/ runner[n].state = "Disabled" /\ runner'[n] = [runner[n] EXCEPT !.state = "Stopped"]
    BY DEF Enable
  <2> QED
    BY <2>1 DEF TypeOK, RunnerRecord
<1>3. \A n \in Module : Up(n)' <=> Up(n)
  BY <1>2 DEF Up
<1>4. EnabledSet' = EnabledSet
  BY <1>2 DEF EnabledSet
<1>5. GraphPlace'
  BY <1>1, <1>4 DEF ShutdownInv, GraphPlace, Closed
<1>6. ASSUME NEW n \in graph', NEW d \in Deps[n],
             runner'[d].enabled, runner'[d].state \in {"Stopped", "Disabled"}
      PROVE  ~Up(n)'
  <2>1. n \in Module /\ d \in Module
    BY <1>1, DepsAssumption
  <2> QED
    BY <1>1, <1>2, <1>3, <1>6, <2>1 DEF ShutdownInv, UpPlace
<1>7. UpPlace'
  BY <1>1, <1>2, <1>3, <1>6 DEF ShutdownInv, UpPlace
<1> QED
  BY <1>1, <1>5, <1>7 DEF ShutdownInv, StopPlace, ShutdownOrder

\* A start is claimed only for an enabled module whose dependencies run.
LEMMA ShutdownClaim ==
  ASSUME TypeOK, ShutdownInv, NEW m \in Module, StartOnce(m)
  PROVE  ShutdownInv'
<1>1. /\ main.pc \in {"bootStart", "reloadStart"} /\ main'.pc = main.pc
      /\ graph' = graph /\ graph \subseteq Module
  BY DEF TypeOK, MainRecord, StartOnce
<1>2. ASSUME NEW n \in Module
      PROVE  /\ runner'[n].enabled = runner[n].enabled
             /\ runner'[n].state \in {"Stopped", "Disabled"} =>
                  runner'[n].state = runner[n].state
             /\ Up(n)' => Up(n) \/ (runner[n].enabled /\ ~DependencyDown(n))
  BY ClaimEffect DEF StartOnce, Startable, Up
<1>3. GraphPlace'
  <2>1. EnabledSet' = EnabledSet
    BY <1>2 DEF EnabledSet
  <2> QED
    BY <1>1, <2>1 DEF ShutdownInv, GraphPlace, Closed
<1>4. ASSUME NEW n \in graph', NEW d \in Deps[n],
             runner'[d].enabled, runner'[d].state \in {"Stopped", "Disabled"}
      PROVE  ~Up(n)'
  <2>1. n \in Module /\ d \in Module /\ n \in graph
    BY <1>1, DepsAssumption
  <2>2. runner[d].enabled /\ runner[d].state \in {"Stopped", "Disabled"}
    BY <1>2, <1>4, <2>1
  <2>3. ~Up(n) /\ DependencyDown(n)
    BY <1>1, <2>1, <2>2 DEF ShutdownInv, UpPlace, DependencyDown, Dependencies
  <2> QED
    BY <1>2, <2>1, <2>3
<1>5. UpPlace'
  BY <1>1, <1>2, <1>4 DEF ShutdownInv, UpPlace
<1> QED
  BY <1>1, <1>3, <1>5 DEF ShutdownInv, StopPlace, ShutdownOrder

\* No module of a closed set that depends on its last one is in it.
LEMMA LastHasNoDependent ==
  ASSUME NEW S \in SUBSET Module, S \subseteq graph, graph \subseteq Module, Closed(graph),
         NEW m \in Module, LastOf(m, S, StartRank[graph]), NEW n \in S, m \in Deps[n]
  PROVE  FALSE
<1>1. StartRank[graph][m] < StartRank[graph][n]
  BY StartRankAssumption
<1>2. StartRank[graph][n] <= StartRank[graph][m]
  BY DEF LastOf
<1>3. StartRank[graph][m] \in Nat /\ StartRank[graph][n] \in Nat
  <2>1. StartRank[graph] \in [Module -> Nat]
    BY StartRankAssumption
  <2> QED
    BY <2>1
<1> QED
  BY <1>1, <1>2, <1>3

\* Taking a module down disturbs only those that depend on it, of which none runs any more.
LEMMA ShutdownTakesDown ==
  ASSUME TypeOK, ShutdownInv, NEW m \in Module, MainStops(m), MainPlace,
         graph' = graph, op' = op, cand' = cand, runner' = [runner EXCEPT ![m] = runner'[m]],
         runner'[m].enabled = runner[m].enabled,
         \/ runner'[m].state \in {"Stopping", "Stopped"}
         \/ runner'[m].state = runner[m].state /\ ~Active(runner[m].state),
         main.pc = "reloadStop" => main'.pc \in {"reloadStop", "disable"} /\ main'.todo = main.todo,
         main.pc = "stopAll" => /\ main'.pc = "stopAll"
                                /\ main'.todo \in {main.todo, main.todo \ {m}}
  PROVE  ShutdownInv'
<1>1. main \in MainRecord /\ graph \subseteq Module /\ runner \in [Module -> RunnerRecord]
  BY DEF TypeOK
<1>2. m \in main.todo /\ main.pc \in {"reloadStop", "stopAll"} /\ main.todo \subseteq Module
  BY <1>1 DEF MainStops, FirstOf, LastOf, MainRecord
<1>3. \A n \in Module : n # m => runner'[n] = runner[n]
  BY <1>1
<1>4. \A n \in Module : /\ runner'[n].enabled = runner[n].enabled /\ (Up(n)' => Up(n))
                        /\ runner'[n].state = "Running" => runner[n].state = "Running" /\ n # m
  BY <1>3 DEF Up, Active
<1>5. EnabledSet' = EnabledSet
  BY <1>4 DEF EnabledSet
<1>6. GraphPlace'
  BY <1>2, <1>5 DEF ShutdownInv, GraphPlace, InFlight, Closed
<1>7. UpPlace'
  <2>1. ASSUME NEW n \in Module, Up(n)', ~runner'[n].enabled
        PROVE  main'.pc \in {"reloadStop", "disable"} /\ n \in main'.todo
    BY <1>2, <1>4, <2>1 DEF ShutdownInv, UpPlace
  <2>2. ASSUME main.pc = "reloadStop", NEW n \in graph', NEW d \in Deps[n],
               runner'[d].enabled, runner'[d].state \in {"Stopped", "Disabled"}
        PROVE  ~Up(n)'
    <3>1. n \in Module /\ d \in Module /\ n \in graph
      BY <1>1, DepsAssumption
    <3>2. d # m
      BY <1>2, <2>2 DEF MainPlace
    <3> QED
      BY <1>3, <1>4, <2>2, <3>1, <3>2 DEF ShutdownInv, UpPlace
  <2> QED
    BY <1>2, <2>1, <2>2 DEF UpPlace
<1>8. CASE main.pc = "stopAll"
  <2>1. LastOf(m, main.todo, StartRank[graph]) /\ main.todo \subseteq graph /\ Closed(graph)
    BY <1>8 DEF MainStops, ShutdownInv, StopPlace, GraphPlace
  <2>2. \A n \in main.todo : m \notin Deps[n]
    BY <1>1, <1>2, <2>1, LastHasNoDependent
  <2>3. StopPlace'
    BY <1>4, <1>8, <2>1, <2>2 DEF ShutdownInv, StopPlace
  <2>4. ASSUME NEW n \in Module, NEW d \in Dependencies(n)',
               runner'[d].state \in {"Stopping", "Stopped"}
        PROVE  runner'[n].state # "Running"
    <3>1. n \in graph /\ d \in Deps[n] /\ d \in Module
      BY <2>4, DepsAssumption DEF Dependencies
    <3>2. CASE d = m
      BY <1>4, <1>8, <2>2, <3>1, <3>2 DEF ShutdownInv, StopPlace
    <3>3. CASE d # m
      BY <1>3, <1>4, <1>8, <2>4, <3>1, <3>3 DEF ShutdownInv, ShutdownOrder, Dependencies
    <3> QED
      BY <3>2, <3>3
  <2> QED
    BY <1>6, <1>7, <2>3, <2>4 DEF ShutdownInv, ShutdownOrder
<1> QED
  BY <1>2, <1>6, <1>7, <1>8 DEF ShutdownInv, StopPlace, ShutdownOrder

\* stopModule keeps the invariant, and so does the reload's Disable after it.
LEMMA ShutdownStops ==
  ASSUME TypeOK, CallInv, ShutdownInv, NEW m \in Module,
         StopModule(m) \/ StopModuleDone(m) \/ Disable(m)
  PROVE  ShutdownInv'
<1>1. /\ main \in MainRecord /\ runner \in [Module -> RunnerRecord] /\ runner[m] \in RunnerRecord
      /\ MainPlace /\ graph' = graph /\ op' = op /\ cand' = cand /\ NoModule # m
      /\ graph \subseteq Module
  BY ModuleAssumption DEF TypeOK, CallInv, StopModule, StopModuleDone, Disable
<1>2. /\ AtRest(runner[m], "Stopped").state = "Stopped"
      /\ AtRest(runner[m], "Stopped").enabled = runner[m].enabled
      /\ AtRest(runner[m], "Disabled").state = "Disabled"
      /\ AtRest(runner[m], "Disabled").enabled = runner[m].enabled
      /\ TakenDown(runner[m]).state = "Stopping"
      /\ TakenDown(runner[m]).enabled = runner[m].enabled
  BY <1>1, RunnerFields DEF State
<1>3. CASE StopModule(m) /\ StopActive(m)
  <2>1. runner' = [runner EXCEPT ![m] = TakenDown(@)]
    BY <1>3 DEF StopActive
  <2>2. runner'[m] = TakenDown(runner[m]) /\ runner' = [runner EXCEPT ![m] = runner'[m]]
    BY <1>1, <2>1
  <2>3. main'.pc = main.pc /\ main'.todo = main.todo
    <3>1. main' = [main EXCEPT !.cur = m, !.lease = runner[m].lease]
      BY <1>3 DEF StopModule, StopActive, StopInactive
    <3> QED
      BY <1>1, <3>1 DEF MainRecord
  <2>4. MainStops(m) /\ runner'[m].enabled = runner[m].enabled /\ runner'[m].state = "Stopping"
    BY <1>2, <1>3, <2>2 DEF StopModule
  <2>5. /\ main.pc = "reloadStop" => main'.pc \in {"reloadStop", "disable"} /\ main'.todo = main.todo
        /\ main.pc = "stopAll" => main'.pc = "stopAll" /\ main'.todo \in {main.todo, main.todo \ {m}}
    BY <2>3
  <2> QED
    BY <1>1, <2>2, <2>4, <2>5, ShutdownTakesDown
<1>4. CASE StopModule(m) /\ StopInactive(m)
  <2>1. \/ runner' = runner
        \/ runner' = [runner EXCEPT ![m] = AtRest(@, "Stopped")]
    BY <1>4 DEF StopInactive
  <2>2. /\ runner' = [runner EXCEPT ![m] = runner'[m]]
        /\ runner'[m] = runner[m] \/ runner'[m] = AtRest(runner[m], "Stopped")
    BY <1>1, <2>1
  <2>3. main' = IF main.pc = "stopAll" THEN [main EXCEPT !.todo = @ \ {m}]
                ELSE [main EXCEPT !.pc = "disable"]
    BY <1>4 DEF StopModule, StopActive, StopInactive
  <2>4. /\ main.pc = "stopAll" => main'.pc = "stopAll" /\ main'.todo = main.todo \ {m}
        /\ main.pc = "reloadStop" => main'.pc = "disable" /\ main'.todo = main.todo
    BY <1>1, <2>3 DEF MainRecord
  <2>5. ~Active(runner[m].state) /\ MainStops(m)
    BY <1>4 DEF StopInactive, StopModule
  <2>6. /\ runner'[m].enabled = runner[m].enabled
        /\ runner'[m].state = "Stopped" \/ runner'[m].state = runner[m].state
    BY <1>2, <2>2
  <2> QED
    BY <1>1, <2>2, <2>4, <2>5, <2>6, ShutdownTakesDown
<1>5. CASE StopModuleDone(m)
  <2>1. main.cur = m /\ runner' = [runner EXCEPT ![m] = AtRest(@, "Stopped")]
    BY <1>5 DEF StopModuleDone
  <2>2. runner'[m] = AtRest(runner[m], "Stopped") /\ runner' = [runner EXCEPT ![m] = runner'[m]]
    BY <1>1, <2>1
  <2>3. MainStops(m)
    BY <1>1, <2>1 DEF MainPlace, MainStops
  <2>4. main' = IF main.pc = "stopAll"
                  THEN [main EXCEPT !.cur = NoModule, !.lease = FALSE, !.todo = @ \ {m}]
                  ELSE [main EXCEPT !.cur = NoModule, !.lease = FALSE, !.pc = "disable"]
    BY <1>5 DEF StopModuleDone
  <2>5. /\ main.pc = "stopAll" => main'.pc = "stopAll" /\ main'.todo = main.todo \ {m}
        /\ main.pc = "reloadStop" => main'.pc = "disable" /\ main'.todo = main.todo
    BY <1>1, <2>4 DEF MainRecord
  <2>6. runner'[m].enabled = runner[m].enabled /\ runner'[m].state = "Stopped"
    BY <1>2, <2>2
  <2> QED
    BY <1>1, <2>2, <2>3, <2>5, <2>6, ShutdownTakesDown
<1>6. CASE Disable(m)
  <2>1. /\ main.pc = "disable" /\ FirstOf(m, main.todo, RegRank)
        /\ main'.pc = "reloadStop" /\ main'.todo = main.todo \ {m}
    BY <1>1, <1>6 DEF Disable, MainRecord
  <2>2. runner'[m] = AtRest(runner[m], "Disabled") /\ \A n \in Module : n # m => runner'[n] = runner[n]
    BY <1>1, <1>6 DEF Disable
  <2>3. ~runner[m].enabled /\ ~Up(m)'
    BY <1>1, <1>2, <2>1, <2>2 DEF MainPlace, FirstOf, Up
  <2>4. \A n \in Module : runner'[n].enabled = runner[n].enabled /\ (Up(n)' => Up(n))
    BY <1>2, <2>2 DEF Up
  <2>5. EnabledSet' = EnabledSet
    BY <2>4 DEF EnabledSet
  <2>6. GraphPlace'
    BY <1>1, <2>1, <2>5 DEF ShutdownInv, GraphPlace, Closed
  <2>7. ASSUME NEW n \in graph', NEW d \in Deps[n],
               runner'[d].enabled, runner'[d].state \in {"Stopped", "Disabled"}
        PROVE  ~Up(n)'
    <3>1. n \in Module /\ d \in Module /\ n \in graph
      BY <1>1, DepsAssumption
    <3>2. d # m
      BY <2>3, <2>4, <2>7
    <3> QED
      BY <2>1, <2>2, <2>4, <2>7, <3>1, <3>2 DEF ShutdownInv, UpPlace
  <2>8. UpPlace'
    BY <2>1, <2>3, <2>4, <2>7 DEF ShutdownInv, UpPlace
  <2> QED
    BY <2>1, <2>6, <2>8 DEF ShutdownInv, StopPlace, ShutdownOrder
<1> QED
  BY <1>3, <1>4, <1>5, <1>6 DEF StopModule

-----------------------------------------------------------------------------
(* Dependents first. *)

LEMMA ShutdownInit == TypeOK /\ Init => ShutdownInv
<1> SUFFICES ASSUME TypeOK, Init PROVE ShutdownInv
  OBVIOUS
<1>1. main.pc = "boot" /\ graph = {} /\ loop = "off"
  BY DEF Init
<1>2. ASSUME NEW m \in Module PROVE ~InFlight(m) /\ ~Up(m)
  <2>1. op[m].pc = "idle" /\ runner[m].state \in {"Registered", "Disabled"}
    BY DEF Init, IdleOp, NewRunner
  <2> QED
    BY <2>1 DEF InFlight, Up
<1> QED
  BY <1>1, <1>2 DEF ShutdownInv, GraphPlace, UpPlace, StopPlace, ShutdownOrder, Closed

LEMMA ShutdownNext ==
  ASSUME ~Overrun, TypeOK, CallInv, ShutdownInv, [Next]_vars
  PROVE  ShutdownInv'
<1>1. CASE UNCHANGED vars
  <2>1. ShutdownInv' <=> ShutdownInv
    BY <1>1 DEF vars, ShutdownInv, GraphPlace, UpPlace, StopPlace, ShutdownOrder, Up, InFlight,
                EnabledSet, Closed, Dependencies
  <2> QED
    BY <2>1
<1>2. ASSUME NEW m \in Module,
             OpStep(m) \/ ModuleReturns(m) \/ RetryDue(m) \/ ReportFailure(m)
      PROVE  ShutdownInv'
  BY <1>2, ShutdownOthers
<1>3. CASE LoopStep
  <2>1. ASSUME NEW m \in Module PROVE ShutdownInv'
    BY <1>3, ShutdownOthers
  <2>2. CASE Module = {}
    <3>1. main' = main /\ graph' = graph /\ cand' = cand /\ loop = "on"
      BY <1>3, <2>2 DEF LoopStep, LoopScan, HandleRuntimeFailure, LoopExit
    <3>2. graph = {} /\ main.todo = {}
      BY <2>2 DEF TypeOK, MainRecord
    <3> QED
      BY <2>2, <3>1, <3>2 DEF ShutdownInv, GraphPlace, UpPlace, StopPlace, ShutdownOrder,
                              EnabledSet, Closed
  <2> QED
    BY <2>1, <2>2
<1>4. CASE MainStep
  <2>1. ASSUME NEW m \in Module,
               \/ StartOnce(m) \/ StopModule(m) \/ StopModuleDone(m)
               \/ Prepare(m) \/ Commit(m) \/ Disable(m)
        PROVE  ShutdownInv'
    BY <2>1, ShutdownClaim, ShutdownStops, ShutdownQuiet
  <2> QED
    BY <1>4, <2>1, ShutdownQuiet, ShutdownSwap, ShutdownEnable DEF MainStep
<1> QED
  BY <1>1, <1>2, <1>3, <1>4 DEF Next, Terminated

\* ShutdownOrder: while Shutdown stops the modules, none runs whose dependency is being
\* stopped or is stopped, whatever the graph, the reloads before it and the faults.
THEOREM DependentsStopFirst ==
  ASSUME ~Overrun
  PROVE  Spec => []ShutdownOrder
<1>1. Spec => [](TypeOK /\ LeaseInv /\ CallInv)
  BY CallInvariant
<1>2. TypeOK /\ CallInv /\ ShutdownInv /\ [Next]_vars => ShutdownInv'
  BY ShutdownNext
<1>3. ShutdownInv => ShutdownOrder
  BY DEF ShutdownInv
<1> QED
  BY <1>1, <1>2, <1>3, ShutdownInit, PTL DEF Spec

-----------------------------------------------------------------------------
(* One lifecycle call at a time, and nothing left behind. *)

\* Where the module itself may be up: it is recorded as Running, or somebody is there who
\* will record it or stop it; and of the Stops of main at most one is under way.
WorkFits(m) ==
  /\ op[m].pc \in StartPcs => Launching(m)
  /\ mod[m].run # "down" =>
       \/ runner[m].state = "Running"
       \/ op[m].pc \in {"clean", "deps", "failStop", "depStop"}
       \/ op[m].pc = "finish" /\ op[m].result = "ok"
       \/ mainStops[m] > 0
  /\ mainStops[m] <= 1

\* When Shutdown is over nobody works and no module is recorded as Running.
ExitPlace ==
  main.pc = "exited" /\ ~BootSignal =>
    \A m \in Module : ~InFlight(m) /\ runner[m].state # "Running"

\* OneLifecycleCall and NothingLeaks as an inductive invariant, with TypeOK, LeaseInv, CallInv
\* and ShutdownInv.
WorkInv == ExitPlace /\ \A m \in Module : WorkFits(m)

\* A step that does nothing to m that WorkFits can see.
SameWork(m) ==
  /\ runner'[m].gen = runner[m].gen
  /\ runner[m].state = "Running" => runner'[m].state = "Running"
  /\ op'[m].gen = op[m].gen /\ op'[m].result = op[m].result
  /\ op'[m].pc = op[m].pc \/ (op[m].pc = "deps" /\ op'[m].pc = "failStop")
  /\ mod[m].run = "down" => mod'[m].run = "down"
  /\ mainStops'[m] = mainStops[m]

LEMMA WorkFrame ==
  ASSUME NEW m \in Module, WorkFits(m), SameWork(m)
  PROVE  WorkFits(m)'
  BY DEF WorkFits, SameWork, Launching, Superseded, StartPcs

\* Without reloads and overrun deadlines, main's Stops run only while Shutdown stops the
\* modules, and then nobody else works.
LEMMA StopsAlone ==
  ASSUME ~Overrun, MaxReloads = 0, TypeOK, CallInv, ShutdownInv,
         NEW m \in Module, mainStops[m] > 0 \/ main.cur = m
  PROVE  main.cur = m /\ main.pc = "stopAll" /\ \A k \in Module : ~InFlight(k)
<1>1. main.cur = m /\ NoModule # m
  BY ModuleAssumption DEF CallInv, Fits
<1>2. main.pc = "stopAll"
  BY <1>1 DEF CallInv, MainPlace, ReloadPcs
<1> QED
  BY <1>1, <1>2 DEF ShutdownInv, GraphPlace

\* A module in flight that is not up yet, or is down already.
LEMMA DownInFlight ==
  ASSUME ~Overrun, MaxReloads = 0, TypeOK, CallInv, ShutdownInv,
         NEW m \in Module, InFlight(m), WorkFits(m)
  PROVE  /\ runner[m].state # "Running" /\ mainStops[m] = 0
         /\ \/ mod[m].run = "down"
            \/ op[m].pc \in {"clean", "deps", "failStop", "depStop"}
            \/ op[m].pc = "finish" /\ op[m].result = "ok"
<1>1. mainStops[m] = 0
  <2>1. mainStops[m] \in Nat
    BY DEF TypeOK
  <2> QED
    BY <2>1, StopsAlone
<1> QED
  BY <1>1 DEF CallInv, Fits, WorkFits

\* A claim starts a module that is down.
LEMMA WorkClaim ==
  ASSUME TypeOK, CallInv, NEW m \in Module, NEW owner \in {"main", "loop"},
         ClaimStart(m, owner) \/ ClaimRefused(m), UNCHANGED modules,
         NEW n \in Module, WorkFits(n)
  PROVE  WorkFits(n)'
<1>1. mod' = mod /\ mainStops' = mainStops /\ MainPlace /\ Fits(n)
  BY DEF modules, CallInv
<1>2. CASE runner'[n] = runner[n] /\ op'[n] = op[n]
  BY <1>1, <1>2, WorkFrame DEF SameWork
<1>3. CASE Startable(n) /\ op'[n] = op[n] /\ runner'[n].gen = runner[n].gen
  <2>1. runner[n].state # "Running"
    BY <1>1, <1>3, NotStartable
  <2> QED
    BY <1>1, <1>3, <2>1, WorkFrame DEF SameWork
<1>4. CASE /\ Startable(n) /\ op'[n].pc = "admit" /\ op'[n].gen = runner'[n].gen
  <2>1. runner[n].state # "Running" /\ mainStops[n] = 0 /\ op[n].pc = "idle"
    BY <1>1, <1>4, NotStartable DEF Startable, InFlight
  <2>2. mod[n].run = "down"
    BY <2>1 DEF WorkFits
  <2> QED
    BY <1>1, <1>4, <2>1, <2>2 DEF WorkFits, Launching, Superseded, StartPcs
<1> QED
  BY <1>2, <1>3, <1>4, ClaimEffect

\* A start ends with the module up and recorded, or down.
LEMMA WorkStart ==
  ASSUME ~Overrun, MaxReloads = 0, TypeOK, LeaseInv, CallInv, ShutdownInv, NEW m \in Module,
         Admit(m) \/ StartReturns(m) \/ CleanupReturns(m) \/ FinishStart(m),
         NEW n \in Module, WorkFits(n)
  PROVE  WorkFits(n)'
<1>1. /\ runner \in [Module -> RunnerRecord] /\ runner[n] \in RunnerRecord
      /\ mod \in [Module -> ModRecord] /\ op \in [Module -> OpRecord] /\ op[n] \in OpRecord
  BY DEF TypeOK
<1>2. CASE n # m
  <2>1. runner'[n] = runner[n] /\ op'[n] = op[n] /\ mod'[n] = mod[n] /\ mainStops' = mainStops
    BY <1>1, <1>2 DEF Admit, StartReturns, CleanupReturns, FinishStart
  <2> QED
    BY <2>1, WorkFrame DEF SameWork
<1>3. InFlight(m) /\ op[m].pc \in StartPcs
  BY DEF Admit, StartReturns, CleanupReturns, FinishStart, InFlight, StartPcs
<1>4. n = m => /\ Launching(n) /\ mainStops[n] = 0 /\ runner[n].state # "Running"
               /\ \/ mod[n].run = "down" \/ op[n].pc = "clean"
                  \/ op[n].pc = "finish" /\ op[n].result = "ok"
  BY <1>3, DownInFlight DEF StartPcs, WorkFits
<1>5. CASE n = m /\ Admit(m)
  <2>1. runner' = runner /\ mod' = mod /\ mainStops' = mainStops /\ op[n].pc = "admit"
    BY <1>5 DEF Admit
  <2>2. op'[n].gen = op[n].gen /\ op'[n].pc \in {"start", "finish"}
    <3>1. CASE op' = [op EXCEPT ![m] = [@ EXCEPT !.pc = "start", !.lease = TRUE]]
      BY <1>1, <1>5, <3>1 DEF OpRecord
    <3>2. CASE op' = [op EXCEPT ![m] = [@ EXCEPT !.pc = "finish", !.result = "error"]]
      BY <1>1, <1>5, <3>2 DEF OpRecord
    <3> QED
      BY <1>5, <3>1, <3>2 DEF Admit
  <2> QED
    BY <1>4, <1>5, <2>1, <2>2 DEF WorkFits, Launching, Superseded, StartPcs
<1>6. CASE n = m /\ StartReturns(m)
  <2>1. runner' = runner /\ mainStops' = mainStops /\ op[n].pc = "start" /\ op[n].result = "ok"
    BY <1>6 DEF StartReturns, LeaseInv, OpLease
  <2>2. /\ op'[n].gen = op[n].gen
        /\ op'[n].pc = "clean" \/ (op'[n].pc = "finish" /\ op'[n].result = "ok")
    <3>1. CASE op' = [op EXCEPT ![m].pc = "finish"]
      BY <1>1, <1>6, <2>1, <3>1 DEF OpRecord
    <3>2. ASSUME NEW res \in {"error", "unsupported"},
                 op' = [op EXCEPT ![m] = [@ EXCEPT !.pc = "clean", !.result = res]]
          PROVE  op'[n].gen = op[n].gen /\ op'[n].pc = "clean"
      BY <1>1, <1>6, <3>2 DEF OpRecord
    <3> QED
      BY <1>6, <3>1, <3>2 DEF StartReturns
  <2> QED
    BY <1>4, <1>6, <2>1, <2>2 DEF WorkFits, Launching, Superseded, StartPcs
<1>7. CASE n = m /\ CleanupReturns(m)
  <2>1. runner' = runner /\ mainStops' = mainStops
    BY <1>7 DEF CleanupReturns
  <2>2. op'[n].gen = op[n].gen /\ op'[n].pc = "finish"
    BY <1>1, <1>7 DEF CleanupReturns, OpRecord
  <2>3. mod'[n].run = "down"
    BY <1>1, <1>7 DEF CleanupReturns, ModRecord
  <2> QED
    BY <1>4, <1>7, <2>1, <2>2, <2>3 DEF WorkFits, Launching, Superseded, StartPcs
<1>8. CASE n = m /\ FinishStart(m)
  <2>1. mod' = mod /\ mainStops' = mainStops /\ op[n].pc = "finish" /\ op'[n].pc = "idle"
    BY <1>1, <1>8 DEF FinishStart, IdleOp
  <2>2. PICK r \in Recorded(m) : runner' = [runner EXCEPT ![m] = r]
    BY <1>4, <1>8 DEF FinishStart, Launching
  <2>3. op[n].result = "ok" => runner'[n].state = "Running"
    BY <1>1, <1>8, <2>2 DEF Recorded, RunnerRecord
  <2> QED
    BY <1>4, <1>8, <2>1, <2>3 DEF WorkFits, StartPcs
<1> QED
  BY <1>2, <1>5, <1>6, <1>7, <1>8

\* A failed module and its dependents are down when their goroutines end.
LEMMA WorkCascade ==
  ASSUME ~Overrun, MaxReloads = 0, TypeOK, CallInv, ShutdownInv, NEW m \in Module, NEW f \in Module,
         \/ HandleRuntimeFailure \/ StopForDependency(f, m) \/ DependentStopped(m)
         \/ FailedStopped(m) \/ OpStopReturns(m) \/ FailedStop(m),
         NEW n \in Module, WorkFits(n)
  PROVE  WorkFits(n)'
<1>1. /\ runner \in [Module -> RunnerRecord] /\ runner[n] \in RunnerRecord
      /\ mod \in [Module -> ModRecord] /\ mod[n] \in ModRecord
      /\ op \in [Module -> OpRecord] /\ op[n] \in OpRecord
  BY DEF TypeOK
<1>2. mainStops' = mainStops
  BY DEF HandleRuntimeFailure, StopForDependency, DependentStopped, FailedStopped, OpStopReturns,
         FailedStop, modules
<1>3. runner'[n] = runner[n] /\ op'[n] = op[n] /\ mod'[n] = mod[n] => WorkFits(n)'
  BY <1>2, WorkFrame DEF SameWork
<1>4. op'[n].pc \in {"deps", "depStop"} => WorkFits(n)'
  BY <1>2 DEF WorkFits, StartPcs
<1>5. op'[n].pc \in {"idle", "depEnd", "failEnd"} /\ mod'[n].run = "down" => WorkFits(n)'
  BY <1>2 DEF WorkFits, StartPcs
<1>6. CASE HandleRuntimeFailure
  <2>1. \/ runner' = runner /\ op' = op
        \/ /\ runner' = [runner EXCEPT ![Head(failures).id] =
                           [@ EXCEPT !.state = "Stopping", !.lease = FALSE]]
           /\ op' = [op EXCEPT ![Head(failures).id] =
                       [IdleOp EXCEPT !.pc = "deps", !.lease = runner[Head(failures).id].lease,
                                      !.rest = TransitiveDependents(Head(failures).id),
                                      !.within = graph]]
    BY <1>6 DEF HandleRuntimeFailure
  <2>2. mod' = mod
    BY <1>6 DEF HandleRuntimeFailure, modules
  <2>3. op'[n].pc = "deps" \/ (runner'[n] = runner[n] /\ op'[n] = op[n])
    BY <1>1, <2>1 DEF IdleOp
  <2> QED
    BY <1>3, <1>4, <2>2, <2>3
<1>7. CASE StopForDependency(f, m)
  <2>1. mod' = mod
    BY <1>7 DEF StopForDependency, modules
  <2>2. CASE op' = [op EXCEPT ![f].rest = @ \ {m}] /\ UNCHANGED runner
    <3>1. op'[n].pc = op[n].pc /\ op'[n].gen = op[n].gen /\ op'[n].result = op[n].result
      BY <1>1, <2>2 DEF OpRecord
    <3> QED
      BY <1>2, <2>1, <2>2, <3>1, WorkFrame DEF SameWork
  <2>3. CASE /\ runner' = [runner EXCEPT ![m] = TakenDown(@)]
             /\ op' = [op EXCEPT ![m] = [IdleOp EXCEPT !.pc = "depStop", !.cause = f,
                                                       !.lease = runner[m].lease]]
    <3>1. op'[n].pc = "depStop" \/ (runner'[n] = runner[n] /\ op'[n] = op[n])
      BY <1>1, <2>3 DEF IdleOp
    <3> QED
      BY <1>3, <1>4, <2>1, <3>1
  <2> QED
    BY <1>7, <2>2, <2>3 DEF StopForDependency
<1>8. CASE DependentStopped(m)
  <2>1. mod' = mod /\ op[m].pc = "depEnd" /\ DependentOver(m) /\ InFlight(m)
        /\ runner' = [runner EXCEPT ![m] = Blocked(@)]
    BY <1>8 DEF DependentStopped, modules, InFlight
  <2>2. CASE n # m
    <3>1. op'[n] = op[n] \/ op'[n] = [op[n] EXCEPT !.rest = @ \ {m}]
      BY <2>1, <2>2 DEF DependentOver
    <3>2. op'[n].pc = op[n].pc /\ op'[n].gen = op[n].gen /\ op'[n].result = op[n].result
      BY <1>1, <3>1 DEF OpRecord
    <3>3. runner'[n] = runner[n]
      BY <1>1, <2>1, <2>2
    <3> QED
      BY <1>2, <2>1, <3>2, <3>3, WorkFrame DEF SameWork
  <2>3. CASE n = m
    <3>1. op'[n].pc = "idle"
      BY <2>1, <2>3 DEF DependentOver, IdleOp
    <3>2. mod'[n].run = "down"
      BY <2>1, <2>3, DownInFlight
    <3> QED
      BY <1>5, <3>1, <3>2
  <2> QED
    BY <2>2, <2>3
<1>9. CASE FailedStopped(m)
  <2>1. mod' = mod /\ op[m].pc = "failEnd" /\ InFlight(m) /\ op' = [op EXCEPT ![m] = IdleOp]
    BY <1>9 DEF FailedStopped, modules, InFlight
  <2>2. CASE n # m
    BY <1>1, <1>3, <1>9, <2>1, <2>2 DEF FailedStopped
  <2>3. CASE n = m
    <3>1. op'[n].pc = "idle"
      BY <1>1, <2>1, <2>3 DEF IdleOp
    <3>2. mod'[n].run = "down"
      BY <2>1, <2>3, DownInFlight
    <3> QED
      BY <1>5, <3>1, <3>2
  <2> QED
    BY <2>2, <2>3
<1>10. CASE OpStopReturns(m)
  <2>1. CASE n # m
    BY <1>1, <1>3, <1>10, <2>1 DEF OpStopReturns
  <2>2. CASE n = m
    <3>1. op'[n].pc \in {"depEnd", "failEnd"}
      BY <1>1, <1>10, <2>2 DEF OpStopReturns, OpRecord
    <3>2. mod'[n].run = "down"
      BY <1>1, <1>10, <2>2 DEF OpStopReturns, ModRecord
    <3> QED
      BY <1>5, <3>1, <3>2
  <2> QED
    BY <2>1, <2>2
<1>11. CASE FailedStop(m)
  <2>1. /\ op'[n].gen = op[n].gen /\ op'[n].result = op[n].result
        /\ op'[n].pc = op[n].pc \/ (op[n].pc = "deps" /\ op'[n].pc = "failStop")
    BY <1>1, <1>11 DEF FailedStop, OpRecord
  <2> QED
    BY <1>11, <2>1, WorkFrame DEF SameWork, FailedStop, modules
<1> QED
  BY <1>6, <1>7, <1>8, <1>9, <1>10, <1>11

\* The clock, a report, a background release and the return of a Stop of main's.
LEMMA WorkEnvironment ==
  ASSUME TypeOK, NEW m \in Module,
         \/ AsyncRelease(m) \/ MainStopReturns(m) \/ RetryDue(m) \/ ReportFailure(m)
         \/ LoopScan \/ LoopExit,
         NEW n \in Module, WorkFits(n)
  PROVE  WorkFits(n)'
<1>1. /\ runner \in [Module -> RunnerRecord] /\ runner[n] \in RunnerRecord
      /\ mod \in [Module -> ModRecord] /\ mod[n] \in ModRecord
      /\ mainStops \in [Module -> Nat] /\ mainStops[n] \in Nat
  BY DEF TypeOK
<1>2. CASE MainStopReturns(m)
  <2>1. runner' = runner /\ op' = op
    BY <1>2 DEF MainStopReturns
  <2>2. CASE n # m
    BY <1>1, <1>2, <2>1, <2>2, WorkFrame DEF SameWork, MainStopReturns
  <2>3. CASE n = m
    <3>1. mod'[n].run = "down"
      BY <1>1, <1>2, <2>3 DEF MainStopReturns, ModRecord
    <3>2. mainStops'[n] <= 1
      BY <1>1, <1>2, <2>3 DEF MainStopReturns, WorkFits
    <3> QED
      BY <2>1, <3>1, <3>2 DEF WorkFits, Launching, Superseded
  <2> QED
    BY <2>2, <2>3
<1>3. CASE RetryDue(m)
  <2>1. runner'[n].state = runner[n].state /\ runner'[n].gen = runner[n].gen
    BY <1>1, <1>3 DEF RetryDue, RunnerRecord
  <2> QED
    BY <1>3, <2>1, WorkFrame DEF SameWork, RetryDue, modules
<1>4. CASE ReportFailure(m)
  <2>1. mod[n].run = "down" => mod'[n].run = "down"
    BY <1>1, <1>4 DEF ReportFailure, ModRecord
  <2> QED
    BY <1>4, <2>1, WorkFrame DEF SameWork, ReportFailure
<1>5. CASE AsyncRelease(m) \/ LoopScan \/ LoopExit
  BY <1>5, WorkFrame DEF SameWork, AsyncRelease, LoopScan, LoopExit, modules
<1> QED
  BY <1>2, <1>3, <1>4, <1>5

\* Where nothing is reloaded, main only starts the modules and shuts them down.
LEMMA WorkMain ==
  ASSUME ~Overrun, MaxReloads = 0, TypeOK, CallInv, ShutdownInv, MainStep,
         NEW n \in Module, WorkFits(n)
  PROVE  WorkFits(n)'
<1>1. /\ runner \in [Module -> RunnerRecord] /\ runner[n] \in RunnerRecord
      /\ mainStops \in [Module -> Nat] /\ mainStops[n] \in Nat /\ main \in MainRecord
      /\ MainPlace /\ NoModule \notin Module /\ reloads \in Nat /\ main.pc \notin ReloadPcs
  BY ModuleAssumption DEF TypeOK, CallInv, MainPlace
<1>2. runner' = runner /\ op' = op /\ mod' = mod /\ mainStops' = mainStops => WorkFits(n)'
  BY WorkFrame DEF SameWork
<1>3. CASE \/ Start \/ StartCancelled \/ LaunchLoop \/ ReloadRejected \/ Reload \/ SelectPrepared
           \/ AllPrepared \/ ReloadDone \/ Shutdown \/ WaitLoop \/ WaitOps
           \/ DeadlineExceeded \/ Exit
  BY <1>2, <1>3
     DEF Start, StartCancelled, LaunchLoop, ReloadRejected, Reload, SelectPrepared, AllPrepared,
         ReloadDone, Shutdown, WaitLoop, WaitOps, DeadlineExceeded, Exit, modules
<1>4. ~Swap /\ ~Enable /\ \A m \in Module : ~Prepare(m) /\ ~Commit(m) /\ ~Disable(m)
  BY <1>1 DEF Swap, Enable, Prepare, Commit, Disable, ReloadPcs
<1>5. ASSUME NEW m \in Module, StartOnce(m) PROVE WorkFits(n)'
  <2>1. UNCHANGED modules /\ (ClaimStart(m, "main") \/ ClaimRefused(m))
    BY <1>5 DEF StartOnce
  <2> QED
    BY <2>1, WorkClaim
<1>6. ASSUME NEW m \in Module, StopModule(m) PROVE WorkFits(n)'
  <2>1. main.pc = "stopAll" /\ main.cur = NoModule /\ op' = op /\ mod' = mod
    BY <1>1, <1>6 DEF StopModule, MainStops, ReloadPcs
  <2>2. ~InFlight(n) /\ mainStops[n] = 0
    <3>1. ~InFlight(n)
      BY <2>1 DEF ShutdownInv, GraphPlace
    <3> QED
      BY <1>1, <2>1, <3>1, StopsAlone
  <2>3. op'[n].pc \notin StartPcs
    BY <2>1, <2>2 DEF InFlight, StartPcs
  <2>4. CASE StopActive(m)
    <3>1. mainStops'[n] = IF n = m THEN mainStops[n] + 1 ELSE mainStops[n]
      BY <1>1, <2>4 DEF StopActive
    <3>2. n # m => runner'[n] = runner[n]
      BY <1>1, <2>4 DEF StopActive
    <3> QED
      BY <1>1, <2>1, <2>2, <2>3, <3>1, <3>2 DEF WorkFits
  <2>5. CASE StopInactive(m)
    <3>1. mainStops' = mainStops /\ (runner'[n] = runner[n] \/ ~Active(runner[n].state))
      BY <1>1, <2>5 DEF StopInactive
    <3> QED
      BY <2>1, <2>2, <2>3, <3>1 DEF WorkFits, Active, InFlight
  <2> QED
    BY <1>6, <2>4, <2>5 DEF StopModule
<1>7. ASSUME NEW m \in Module, StopModuleDone(m) PROVE WorkFits(n)'
  <2>1. /\ main.cur = m /\ op' = op /\ mod' = mod /\ mainStops' = mainStops
        /\ runner' = [runner EXCEPT ![m] = AtRest(@, "Stopped")]
    BY <1>7 DEF StopModuleDone
  <2>2. ~InFlight(n)
    BY <2>1, StopsAlone
  <2>3. runner'[n] = runner[n] \/ runner[n].state # "Running"
    BY <1>1, <2>1 DEF CallInv, Fits
  <2> QED
    BY <2>1, <2>2, <2>3 DEF WorkFits, StartPcs, InFlight
<1> QED
  BY <1>3, <1>4, <1>5, <1>6, <1>7 DEF MainStep

-----------------------------------------------------------------------------
(* The theorems. *)

LEMMA WorkInit == Init => WorkInv
<1> SUFFICES ASSUME Init PROVE WorkInv
  OBVIOUS
<1>1. main.pc = "boot"
  BY DEF Init
<1>2. ASSUME NEW m \in Module PROVE WorkFits(m)
  <2>1. op[m].pc = "idle" /\ mod[m].run = "down" /\ mainStops[m] = 0
    BY DEF Init, IdleOp
  <2> QED
    BY <2>1 DEF WorkFits, StartPcs
<1> QED
  BY <1>1, <1>2 DEF WorkInv, ExitPlace

\* main exits before anything was started, or when it has stopped everything that runs.
LEMMA ExitStep ==
  ASSUME TypeOK, CallInv, ShutdownInv, ExitPlace, [Next]_vars
  PROVE  ExitPlace'
<1> SUFFICES ASSUME main'.pc = "exited", ~BootSignal, NEW n \in Module
             PROVE  ~InFlight(n)' /\ runner'[n].state # "Running"
  BY DEF ExitPlace
<1>1. main \in MainRecord
  BY DEF TypeOK
<1>2. CASE UNCHANGED vars
  BY <1>2 DEF vars, ExitPlace, InFlight
<1>3. CASE main.pc # "exited" /\ MainStep
  <2>1. CASE Start
    <3>1. runner' = runner /\ op' = op
      BY <2>1 DEF Start
    <3> QED
      BY <2>1, <3>1 DEF Start, ShutdownInv, GraphPlace, UpPlace, Up, InFlight
  <2>2. CASE Exit
    <3>1. runner' = runner /\ op' = op /\ main.pc = "stopAll" /\ main.todo = {}
      BY <2>2 DEF Exit
    <3> QED
      BY <3>1 DEF ShutdownInv, GraphPlace, StopPlace, InFlight
  <2>3. ~StartCancelled
    BY DEF StartCancelled
  <2>4. ASSUME \/ LaunchLoop \/ ReloadRejected \/ Reload \/ SelectPrepared \/ AllPrepared \/ Swap
               \/ Enable \/ ReloadDone \/ Shutdown \/ WaitLoop \/ WaitOps \/ DeadlineExceeded
        PROVE  main'.pc # "exited"
    BY <1>1, <1>3, <2>4 DEF LaunchLoop, ReloadRejected, Reload, SelectPrepared, AllPrepared, Swap,
         Enable, ReloadDone, Shutdown, WaitLoop, WaitOps, DeadlineExceeded, MainRecord
  <2>5. ASSUME NEW m \in Module,
               \/ StartOnce(m) \/ StopModule(m) \/ StopModuleDone(m)
               \/ Prepare(m) \/ Commit(m) \/ Disable(m)
        PROVE  main'.pc # "exited"
    <3>1. CASE StartOnce(m)
      BY <1>1, <1>3, <3>1 DEF StartOnce, MainRecord
    <3>2. CASE StopModule(m)
      BY <1>1, <1>3, <3>2 DEF StopModule, MainRecord
    <3>3. CASE StopModuleDone(m)
      BY <1>1, <1>3, <3>3 DEF StopModuleDone, MainRecord
    <3>4. CASE Prepare(m) \/ Commit(m) \/ Disable(m)
      BY <1>1, <1>3, <3>4 DEF Prepare, Commit, Disable, MainRecord
    <3> QED
      BY <2>5, <3>1, <3>2, <3>3, <3>4
  <2> QED
    BY <1>3, <2>1, <2>2, <2>3, <2>4, <2>5 DEF MainStep
<1>4. main.pc # "exited" =>
        ~(LoopStep \/ \E m \in Module : OpStep(m) \/ ModuleReturns(m) \/ RetryDue(m) \/ ReportFailure(m))
  BY OthersAndMain DEF CallInv
<1> QED
  BY <1>2, <1>3, <1>4 DEF Next, Terminated

LEMMA WorkNext ==
  ASSUME ~Overrun, MaxReloads = 0, TypeOK, LeaseInv, CallInv, ShutdownInv, WorkInv, [Next]_vars
  PROVE  WorkInv'
<1>1. ExitPlace'
  BY ExitStep DEF WorkInv
<1>2. ASSUME NEW n \in Module PROVE WorkFits(n)'
  <2>1. WorkFits(n)
    BY DEF WorkInv
  <2>2. CASE UNCHANGED vars
    BY <2>1, <2>2, WorkFrame DEF vars, SameWork
  <2>3. ASSUME NEW m \in Module,
               OpStep(m) \/ ModuleReturns(m) \/ RetryDue(m) \/ ReportFailure(m)
        PROVE  WorkFits(n)'
    <3>1. CASE Admit(m) \/ FinishStart(m) \/ StartReturns(m) \/ CleanupReturns(m)
      BY <2>1, <3>1, WorkStart
    <3>2. CASE \/ DependentStopped(m) \/ FailedStopped(m) \/ OpStopReturns(m) \/ FailedStop(m)
               \/ \E d \in Module : StopForDependency(m, d)
      BY <2>1, <3>2, WorkCascade
    <3>3. CASE AsyncRelease(m) \/ MainStopReturns(m) \/ RetryDue(m) \/ ReportFailure(m)
      BY <2>1, <3>3, WorkEnvironment
    <3> QED
      BY <2>3, <3>1, <3>2, <3>3 DEF OpStep, ModuleReturns
  <2>4. CASE LoopStep
    <3>1. ASSUME NEW m \in Module, LoopClaim(m) PROVE WorkFits(n)'
      <4>1. UNCHANGED modules /\ (ClaimStart(m, "loop") \/ ClaimRefused(m))
        BY <3>1 DEF LoopClaim
      <4> QED
        BY <2>1, <4>1, WorkClaim
    <3> QED
      BY <2>1, <2>4, <3>1, WorkCascade, WorkEnvironment DEF LoopStep
  <2>5. CASE MainStep
    BY <2>1, <2>5, WorkMain
  <2> QED
    BY <2>2, <2>3, <2>4, <2>5 DEF Next, Terminated
<1> QED
  BY <1>1, <1>2 DEF WorkInv

LEMMA WorkInvariant ==
  ASSUME ~Overrun, MaxReloads = 0
  PROVE  Spec => [](TypeOK /\ LeaseInv /\ CallInv /\ ShutdownInv /\ WorkInv)
<1>1. Spec => [](TypeOK /\ LeaseInv /\ CallInv)
  BY CallInvariant
<1>2. TypeOK /\ CallInv /\ ShutdownInv /\ [Next]_vars => ShutdownInv'
  BY ShutdownNext
<1>3. TypeOK /\ LeaseInv /\ CallInv /\ ShutdownInv /\ WorkInv /\ [Next]_vars => WorkInv'
  BY WorkNext
<1> QED
  BY <1>1, <1>2, <1>3, ShutdownInit, WorkInit, PTL DEF Spec

\* OneLifecycleCall: where nothing is reloaded and no call outlives its deadline, at most one
\* Start or Stop executes in a module at a time, whatever fails, restarts or is shut down.
THEOREM OneCallAtATime ==
  ASSUME ~Overrun, MaxReloads = 0
  PROVE  Spec => []OneLifecycleCall
<1>1. TypeOK /\ CallInv /\ ShutdownInv /\ WorkInv => OneLifecycleCall
  <2> SUFFICES ASSUME TypeOK, CallInv, ShutdownInv, WorkInv, NEW m \in Module PROVE Calls(m) <= 1
    BY DEF OneLifecycleCall
  <2>1. mainStops[m] \in Nat /\ mainStops[m] <= 1
    BY DEF TypeOK, WorkInv, WorkFits
  <2>2. mainStops[m] > 0 => op[m].pc = "idle"
    BY StopsAlone DEF InFlight
  <2> QED
    BY <2>1, <2>2 DEF Calls
<1> QED
  BY <1>1, WorkInvariant, PTL

\* NothingLeaks: there, and where no signal interrupts Start, a module that is neither Running
\* nor worked on is down and holds no admission, and after a shutdown none does.
THEOREM NothingIsLeftBehind ==
  ASSUME ~Overrun, MaxReloads = 0, ~BootSignal
  PROVE  Spec => []NothingLeaks
<1>1. TypeOK /\ LeaseInv /\ CallInv /\ ShutdownInv /\ WorkInv => NothingLeaks
  <2> SUFFICES ASSUME TypeOK, LeaseInv, CallInv, ShutdownInv, WorkInv PROVE NothingLeaks
    OBVIOUS
  <2>1. ASSUME NEW m \in Module, ~InFlight(m), mainStops[m] = 0, runner[m].state # "Running"
        PROVE  mod[m].run = "down"
    BY <2>1 DEF WorkInv, WorkFits, InFlight
  <2>2. ASSUME NEW m \in Module, ~InFlight(m), main.cur # m, m \notin releasing,
               runner[m].state # "Running"
        PROVE  m \notin admitted
    <3>1. ~runner[m].lease /\ ~op[m].lease
      BY <2>2 DEF CallInv, Fits, LeaseInv, OpLease, InFlight
    <3>2. Holders(m) = {}
      BY <2>2, <3>1 DEF Holders
    <3> QED
      BY <3>2 DEF LeaseInv, LeaseOwned
  <2>3. ASSUME main.pc = "exited", NEW m \in Module
        PROVE  mod[m].run = "down" /\ m \notin admitted \ releasing
    <3>1. ~InFlight(m) /\ runner[m].state # "Running"
      BY <2>3 DEF WorkInv, ExitPlace
    <3>2. main.cur # m /\ mainStops[m] = 0
      <4>1. main.cur # m /\ ~(mainStops[m] > 0)
        BY <2>3, StopsAlone
      <4> QED
        BY <4>1 DEF TypeOK
    <3> QED
      BY <2>1, <2>2, <3>1, <3>2
  <2> QED
    BY <2>1, <2>2, <2>3 DEF NothingLeaks, Settled
<1> QED
  BY <1>1, WorkInvariant, PTL

-----------------------------------------------------------------------------
(* The crash-loop budget. *)

\* The budget of one module: a module that is up or worked on has neither a restart pending
\* nor a dependency to wait for, so that whoever fails it next decides by its window alone.
Budget(m) ==
  /\ Active(runner[m].state) \/ InFlight(m) => runner[m].retry = "none" /\ ~runner[m].blocked
  /\ InFlight(m) => runner[m].state \notin {"CrashLooping", "Failed"}
  /\ runner[m].state = "CrashLooping" =>
       runner[m].retry = "none" /\ ~runner[m].blocked /\ runner[m].window > MaxRestarts
  /\ runner[m].state = "Failed" /\ ~runner[m].blocked => runner[m].window <= MaxRestarts
  /\ ~RestartEnabled => runner[m].window = 0

-----------------------------------------------------------------------------
(* Quarantine. *)

\* What the record updates do to the fields the budget reads.
LEMMA BudgetFields ==
  ASSUME NEW r \in RunnerRecord
  PROVE  /\ Blocked(r).window = r.window /\ Blocked(r).blocked
         /\ Claimed(r).window = r.window /\ ~Claimed(r).blocked /\ Claimed(r).retry = "none"
         /\ TakenDown(r).window = r.window /\ TakenDown(r).blocked = r.blocked
         /\ TakenDown(r).retry = r.retry
         /\ \A s \in State : /\ AtRest(r, s).window = r.window /\ AtRest(r, s).blocked = r.blocked
                             /\ AtRest(r, s).retry = "none"
<1>1. Blocked(r).window = r.window /\ Blocked(r).blocked
  BY DEF Blocked, RunnerRecord
<1>2. Claimed(r).window = r.window /\ ~Claimed(r).blocked /\ Claimed(r).retry = "none"
  BY DEF Claimed, RunnerRecord
<1>3. /\ TakenDown(r).window = r.window /\ TakenDown(r).blocked = r.blocked
      /\ TakenDown(r).retry = r.retry
  BY DEF TakenDown, RunnerRecord
<1>4. \A s \in State : /\ AtRest(r, s).window = r.window /\ AtRest(r, s).blocked = r.blocked
                       /\ AtRest(r, s).retry = "none"
  BY DEF AtRest, RunnerRecord
<1> QED
  BY <1>1, <1>2, <1>3, <1>4

\* failLocked charges at most one event more than the window holds, and quarantines by it.
LEMMA FailLockedBudget ==
  ASSUME NEW r \in RunnerRecord, r.retry = "none", ~r.blocked,
         ~RestartEnabled => r.window = 0, NEW q \in FailLocked(r)
  PROVE  /\ q.window <= r.window + 1 /\ ~q.blocked
         /\ ~RestartEnabled => q.window = 0
         /\ q.state = "CrashLooping" => q.retry = "none" /\ q.window > MaxRestarts
         /\ q.state = "Failed" => q.window <= MaxRestarts
<1>1. MaxRestarts \in Nat /\ r.window \in Nat
  BY ParameterAssumption DEF RunnerRecord
<1>2. CASE ~RestartEnabled
  <2>1. q = [r EXCEPT !.state = "Failed"]
    BY <1>2 DEF FailLocked
  <2> QED
    BY <1>1, <1>2, <2>1 DEF RunnerRecord
<1>3. CASE RestartEnabled
  <2>1. PICK k \in 0 .. r.window :
          q = IF k + 1 > MaxRestarts
                THEN [r EXCEPT !.window = k + 1, !.state = "CrashLooping"]
                ELSE [r EXCEPT !.window = k + 1, !.state = "Failed", !.retry = "waiting"]
    BY <1>3 DEF FailLocked
  <2>2. k \in Nat /\ k <= r.window
    BY <1>1
  <2> DEFINE w == k + 1
  <2>3. w \in Nat /\ w <= r.window + 1
    BY <1>1, <2>2
  <2>4. q = IF w > MaxRestarts
              THEN [r EXCEPT !.window = w, !.state = "CrashLooping"]
              ELSE [r EXCEPT !.window = w, !.state = "Failed", !.retry = "waiting"]
    BY <2>1
  <2> HIDE DEF w
  <2> QED
    BY <1>1, <1>3, <2>3, <2>4 DEF RunnerRecord
<1> QED
  BY <1>2, <1>3

\* A step that does nothing to m that its budget can see.
SameBudget(m) ==
  /\ runner'[m].state = runner[m].state /\ runner'[m].window = runner[m].window
  /\ runner'[m].retry = runner[m].retry /\ runner'[m].blocked = runner[m].blocked
  /\ InFlight(m)' => InFlight(m)

LEMMA BudgetFrame ==
  ASSUME NEW m \in Module, Budget(m), SameBudget(m)
  PROVE  Budget(m)'
  BY DEF Budget, SameBudget, InFlight

\* A module that comes to rest, or is taken down, keeps its window and waits for nothing.
LEMMA BudgetRest ==
  ASSUME NEW m \in Module, Budget(m), op'[m] = op[m],
         runner'[m].window = runner[m].window, runner'[m].blocked = runner[m].blocked,
         runner'[m].retry = "none",
         \/ runner'[m].state \in {"Stopped", "Disabled"}
         \/ runner'[m].state = "Stopping" /\ Active(runner[m].state)
  PROVE  Budget(m)'
  BY DEF Budget, InFlight, Active

\* A claim takes an idle module, or defers it as blocked.
LEMMA BudgetClaim ==
  ASSUME TypeOK, NEW m \in Module, NEW owner \in {"main", "loop"},
         ClaimStart(m, owner) \/ ClaimRefused(m), NEW n \in Module, Budget(n)
  PROVE  Budget(n)'
<1>1. /\ runner \in [Module -> RunnerRecord] /\ runner[n] \in RunnerRecord
      /\ op \in [Module -> OpRecord]
  BY DEF TypeOK
<1>2. CASE runner'[n] = runner[n] /\ op'[n] = op[n]
  BY <1>2, BudgetFrame DEF SameBudget, InFlight
<1>3. CASE n = m /\ ClaimStart(m, owner)
  <2>1. runner'[n] = Claimed(runner[n])
    BY <1>1, <1>3 DEF ClaimStart
  <2>2. /\ Claimed(runner[n]).window = runner[n].window /\ ~Claimed(runner[n]).blocked
        /\ Claimed(runner[n]).retry = "none" /\ Claimed(runner[n]).state = "Starting"
    BY <1>1, BudgetFields, RunnerFields
  <2> QED
    BY <2>1, <2>2 DEF Budget
<1>4. CASE n = m /\ Startable(m) /\ runner' = [runner EXCEPT ![m] = Blocked(@)] /\ UNCHANGED op
  <2>1. runner'[n] = Blocked(runner[n]) /\ ~InFlight(n)
    BY <1>1, <1>4 DEF Startable
  <2>2. /\ Blocked(runner[n]).window = runner[n].window /\ Blocked(runner[n]).blocked
        /\ Blocked(runner[n]).state = "Failed"
    BY <1>1, BudgetFields, RunnerFields
  <2> QED
    BY <1>4, <2>1, <2>2 DEF Budget, Active, InFlight
<1> QED
  BY <1>1, <1>2, <1>3, <1>4 DEF ClaimStart, ClaimRefused

\* The goroutines of the modules.
LEMMA BudgetOps ==
  ASSUME TypeOK, NEW m \in Module, OpStep(m) \/ ModuleReturns(m), NEW n \in Module, Budget(n)
  PROVE  Budget(n)'
<1>1. /\ runner \in [Module -> RunnerRecord] /\ runner[n] \in RunnerRecord
      /\ op \in [Module -> OpRecord] /\ op[n] \in OpRecord
  BY DEF TypeOK
<1>2. runner'[n] = runner[n] /\ (InFlight(n)' => InFlight(n)) => Budget(n)'
  BY BudgetFrame DEF SameBudget
<1>3. InFlight(n) => \A q \in FailLocked(runner[n]) :
        /\ q.state \in {"Failed", "CrashLooping"} /\ ~q.blocked
        /\ ~RestartEnabled => q.window = 0
        /\ q.state = "CrashLooping" => q.retry = "none" /\ q.window > MaxRestarts
        /\ q.state = "Failed" => q.window <= MaxRestarts
  BY <1>1, RunnerFields, FailLockedBudget DEF Budget
<1>4. ASSUME NEW q \in FailLocked(runner[n]), InFlight(n), runner'[n] = q, op'[n] = IdleOp
      PROVE  Budget(n)'
  BY <1>3, <1>4 DEF Budget, IdleOp, InFlight, Active
<1>5. CASE Admit(m) \/ FailedStop(m) \/ AsyncRelease(m) \/ ModuleReturns(m)
  <2>1. runner' = runner
    BY <1>5 DEF Admit, FailedStop, AsyncRelease, ModuleReturns, StartReturns, CleanupReturns,
                OpStopReturns, MainStopReturns
  <2>2. op'[n] = op[n] \/ InFlight(n)
    BY <1>1, <1>5 DEF Admit, FailedStop, AsyncRelease, ModuleReturns, StartReturns, CleanupReturns,
                      OpStopReturns, MainStopReturns, InFlight
  <2> QED
    BY <1>2, <2>1, <2>2 DEF InFlight
<1>6. CASE FinishStart(m)
  <2>1. CASE runner'[n] = runner[n]
    <3>1. InFlight(n)' => InFlight(n)
      BY <1>1, <1>6 DEF FinishStart, InFlight, IdleOp
    <3> QED
      BY <1>2, <2>1, <3>1
  <2>2. ASSUME n = m, NEW r \in Recorded(n), runner'[n] = r PROVE Budget(n)'
    <3>1. InFlight(n) /\ op'[n] = IdleOp
      BY <1>1, <1>6, <2>2 DEF FinishStart, InFlight
    <3>2. CASE op[n].result = "error"
      BY <1>4, <2>2, <3>1, <3>2 DEF Recorded
    <3>3. CASE op[n].result # "error"
      <4>1. /\ r.state \in {"Running", "Unsupported"} /\ r.window = runner[n].window
            /\ r.retry = runner[n].retry /\ r.blocked = runner[n].blocked
        <5>1. CASE op[n].result = "ok"
          BY <1>1, <2>2, <5>1 DEF Recorded, RunnerRecord
        <5>2. CASE op[n].result = "unsupported"
          BY <1>1, <2>2, <5>2 DEF Recorded, RunnerRecord
        <5> QED
          BY <1>1, <3>3, <5>1, <5>2 DEF OpRecord
      <4> QED
        BY <2>2, <3>1, <4>1 DEF Budget, Active, InFlight
    <3> QED
      BY <3>2, <3>3
  <2> QED
    BY <1>1, <1>6, <2>1, <2>2 DEF FinishStart
<1>7. CASE DependentStopped(m)
  <2>1. runner'[n] = IF n = m THEN Blocked(runner[n]) ELSE runner[n]
    BY <1>1, <1>7 DEF DependentStopped
  <2>2. /\ n = m => op'[n].pc = "idle"
        /\ n # m => op'[n].pc = op[n].pc
    <3>1. op'[n] = IF n = m THEN IdleOp
                   ELSE IF n = op[m].cause THEN [op[n] EXCEPT !.rest = @ \ {m}] ELSE op[n]
      BY <1>7 DEF DependentStopped, DependentOver
    <3> QED
      BY <1>1, <3>1 DEF IdleOp, OpRecord
  <2>3. /\ Blocked(runner[n]).window = runner[n].window /\ Blocked(runner[n]).blocked
        /\ Blocked(runner[n]).state = "Failed"
    BY <1>1, BudgetFields, RunnerFields
  <2>4. CASE n = m
    BY <2>1, <2>2, <2>3, <2>4 DEF Budget, Active, InFlight
  <2>5. CASE n # m
    BY <1>2, <2>1, <2>2, <2>5 DEF InFlight
  <2> QED
    BY <2>4, <2>5
<1>8. CASE FailedStopped(m)
  <2>1. CASE n = m
    <3>1. InFlight(n) /\ op'[n] = IdleOp /\ runner'[n] \in FailLocked(runner[n])
      BY <1>1, <1>8, <2>1 DEF FailedStopped, InFlight
    <3> QED
      BY <1>4, <3>1
  <2>2. CASE n # m
    BY <1>1, <1>2, <1>8, <2>2 DEF FailedStopped, InFlight
  <2> QED
    BY <2>1, <2>2
<1>9. ASSUME NEW d \in Module, StopForDependency(m, d) PROVE Budget(n)'
  <2>1. CASE UNCHANGED runner /\ op' = [op EXCEPT ![m].rest = @ \ {d}]
    <3>1. op'[n].pc = op[n].pc
      BY <1>1, <2>1 DEF OpRecord
    <3> QED
      BY <1>2, <2>1, <3>1 DEF InFlight
  <2>2. CASE /\ Active(runner[d].state)
             /\ runner' = [runner EXCEPT ![d] = TakenDown(@)]
             /\ op' = [op EXCEPT ![d] = [IdleOp EXCEPT !.pc = "depStop", !.cause = m,
                                                       !.lease = runner[d].lease]]
    <3>1. CASE n = d
      <4>1. runner'[n] = TakenDown(runner[n]) /\ Active(runner[n].state)
        BY <1>1, <2>2, <3>1
      <4>2. /\ TakenDown(runner[n]).state = "Stopping"
            /\ TakenDown(runner[n]).window = runner[n].window
            /\ TakenDown(runner[n]).blocked = runner[n].blocked
            /\ TakenDown(runner[n]).retry = runner[n].retry
        BY <1>1, BudgetFields, RunnerFields
      <4> QED
        BY <4>1, <4>2 DEF Budget, Active
    <3>2. CASE n # d
      BY <1>1, <1>2, <2>2, <3>2 DEF InFlight
    <3> QED
      BY <3>1, <3>2
  <2> QED
    BY <1>9, <2>1, <2>2 DEF StopForDependency
<1> QED
  BY <1>5, <1>6, <1>7, <1>8, <1>9 DEF OpStep

\* The control loop, the clock and the reports.
LEMMA BudgetLoop ==
  ASSUME TypeOK, NEW n \in Module, Budget(n),
         LoopStep \/ \E m \in Module : RetryDue(m) \/ ReportFailure(m)
  PROVE  Budget(n)'
<1>1. /\ runner \in [Module -> RunnerRecord] /\ runner[n] \in RunnerRecord
      /\ op \in [Module -> OpRecord]
  BY DEF TypeOK
<1>2. runner'[n] = runner[n] /\ op'[n] = op[n] => Budget(n)'
  BY BudgetFrame DEF SameBudget, InFlight
<1>3. ASSUME NEW m \in Module, LoopClaim(m) PROVE Budget(n)'
  BY <1>3, BudgetClaim DEF LoopClaim
<1>4. CASE HandleRuntimeFailure
  <2>1. CASE /\ Current(Head(failures))
             /\ runner' = [runner EXCEPT ![Head(failures).id] =
                             [@ EXCEPT !.state = "Stopping", !.lease = FALSE]]
             /\ op' = [op EXCEPT ![Head(failures).id] =
                         [IdleOp EXCEPT !.pc = "deps", !.lease = runner[Head(failures).id].lease,
                                        !.rest = TransitiveDependents(Head(failures).id),
                                        !.within = graph]]
    <3>1. CASE n = Head(failures).id
      <4>1. runner[n].state = "Running"
        BY <2>1, <3>1 DEF Current
      <4>2. /\ runner'[n].state = "Stopping" /\ runner'[n].window = runner[n].window
            /\ runner'[n].retry = runner[n].retry /\ runner'[n].blocked = runner[n].blocked
        BY <1>1, <2>1, <3>1 DEF RunnerRecord
      <4> QED
        BY <4>1, <4>2 DEF Budget, Active
    <3>2. CASE n # Head(failures).id
      BY <1>1, <1>2, <2>1, <3>2
    <3> QED
      BY <3>1, <3>2
  <2> QED
    BY <1>2, <1>4, <2>1 DEF HandleRuntimeFailure
<1>5. ASSUME NEW m \in Module, RetryDue(m) PROVE Budget(n)'
  <2>1. CASE n = m
    <3>1. runner[n].retry = "waiting" /\ op' = op
      BY <1>5, <2>1 DEF RetryDue
    <3>2. /\ runner'[n].state = runner[n].state /\ runner'[n].window = runner[n].window
          /\ runner'[n].blocked = runner[n].blocked
      BY <1>1, <1>5, <2>1 DEF RetryDue, RunnerRecord
    <3> QED
      BY <3>1, <3>2 DEF Budget, InFlight
  <2>2. CASE n # m
    BY <1>1, <1>2, <1>5, <2>2 DEF RetryDue
  <2> QED
    BY <2>1, <2>2
<1>6. CASE LoopScan \/ LoopExit \/ \E m \in Module : ReportFailure(m)
  BY <1>2, <1>6 DEF LoopScan, LoopExit, ReportFailure
<1> QED
  BY <1>3, <1>4, <1>5, <1>6 DEF LoopStep

\* main: the swap alone changes a window, and takes the module out of quarantine with it.
LEMMA BudgetMain ==
  ASSUME TypeOK, NEW n \in Module, Budget(n), MainStep
  PROVE  Budget(n)'
<1>1. /\ runner \in [Module -> RunnerRecord] /\ runner[n] \in RunnerRecord
      /\ MaxRestarts \in Nat
  BY ParameterAssumption DEF TypeOK
<1>2. runner'[n] = runner[n] /\ op'[n] = op[n] => Budget(n)'
  BY BudgetFrame DEF SameBudget, InFlight
<1>3. CASE Swap
  <2>1. op' = op /\ runner'[n] = Swapped(n)
    BY <1>3 DEF Swap
  <2>2. \/ /\ Swapped(n).state = runner[n].state /\ Swapped(n).window = runner[n].window
           /\ Swapped(n).retry = runner[n].retry /\ Swapped(n).blocked = runner[n].blocked
        \/ /\ runner[n].state = "CrashLooping" /\ Swapped(n).state = "Failed"
           /\ Swapped(n).window = 0
    BY <1>1 DEF Swapped, RunnerRecord
  <2>3. CASE /\ Swapped(n).state = runner[n].state /\ Swapped(n).window = runner[n].window
             /\ Swapped(n).retry = runner[n].retry /\ Swapped(n).blocked = runner[n].blocked
    BY <2>1, <2>3, BudgetFrame DEF SameBudget, InFlight
  <2>4. CASE /\ runner[n].state = "CrashLooping" /\ Swapped(n).state = "Failed"
             /\ Swapped(n).window = 0
    BY <1>1, <2>1, <2>4 DEF Budget, InFlight, Active
  <2> QED
    BY <2>2, <2>3, <2>4
<1>4. CASE Enable
  <2>1. op' = op /\ \/ runner'[n] = runner[n]
                    \/ /\ runner[n].state = "Disabled"
                       /\ runner'[n] = [runner[n] EXCEPT !.state = "Stopped"]
    BY <1>4 DEF Enable
  <2>2. CASE /\ runner[n].state = "Disabled"
             /\ runner'[n] = [runner[n] EXCEPT !.state = "Stopped"]
    <3>1. /\ runner'[n].state = "Stopped" /\ runner'[n].window = runner[n].window
          /\ runner'[n].retry = runner[n].retry /\ runner'[n].blocked = runner[n].blocked
      BY <1>1, <2>2 DEF RunnerRecord
    <3> QED
      BY <2>1, <2>2, <3>1 DEF Budget, InFlight, Active
  <2> QED
    BY <1>2, <2>1, <2>2
<1>5. /\ TakenDown(runner[n]).state = "Stopping"
      /\ TakenDown(runner[n]).window = runner[n].window
      /\ TakenDown(runner[n]).blocked = runner[n].blocked
      /\ TakenDown(runner[n]).retry = runner[n].retry
      /\ \A s \in State : /\ AtRest(runner[n], s).state = s
                          /\ AtRest(runner[n], s).window = runner[n].window
                          /\ AtRest(runner[n], s).blocked = runner[n].blocked
                          /\ AtRest(runner[n], s).retry = "none"
  BY <1>1, BudgetFields, RunnerFields
<1>6. ASSUME NEW m \in Module, StopModule(m) PROVE Budget(n)'
  <2>1. op' = op
    BY <1>6 DEF StopModule
  <2>2. \/ runner'[n] = runner[n]
        \/ Active(runner[n].state) /\ runner'[n] = TakenDown(runner[n])
        \/ runner'[n] = AtRest(runner[n], "Stopped")
    BY <1>1, <1>6 DEF StopModule, StopActive, StopInactive
  <2>3. CASE Active(runner[n].state) /\ runner'[n] = TakenDown(runner[n])
    BY <1>5, <2>1, <2>3, BudgetRest DEF Budget
  <2>4. CASE runner'[n] = AtRest(runner[n], "Stopped")
    BY <1>5, <2>1, <2>4, BudgetRest DEF State
  <2> QED
    BY <1>2, <2>1, <2>2, <2>3, <2>4
<1>7. ASSUME NEW m \in Module, StopModuleDone(m) \/ Disable(m) PROVE Budget(n)'
  <2>1. op' = op
    BY <1>7 DEF StopModuleDone, Disable
  <2>2. \/ runner'[n] = runner[n]
        \/ runner'[n] = AtRest(runner[n], "Stopped")
        \/ runner'[n] = AtRest(runner[n], "Disabled")
    BY <1>1, <1>7 DEF StopModuleDone, Disable
  <2>3. ASSUME NEW s \in {"Stopped", "Disabled"}, runner'[n] = AtRest(runner[n], s) PROVE Budget(n)'
    BY <1>5, <2>1, <2>3, BudgetRest DEF State
  <2> QED
    BY <1>2, <2>1, <2>2, <2>3
<1>8. ASSUME NEW m \in Module, StartOnce(m) PROVE Budget(n)'
  BY <1>8, BudgetClaim DEF StartOnce
<1>9. ASSUME NEW m \in Module, Prepare(m) \/ Commit(m) PROVE Budget(n)'
  BY <1>2, <1>9 DEF Prepare, Commit
<1>10. CASE \/ Start \/ StartCancelled \/ LaunchLoop \/ ReloadRejected \/ Reload \/ SelectPrepared
            \/ AllPrepared \/ ReloadDone \/ Shutdown \/ WaitLoop \/ WaitOps
            \/ DeadlineExceeded \/ Exit
  BY <1>2, <1>10
     DEF Start, StartCancelled, LaunchLoop, ReloadRejected, Reload, SelectPrepared, AllPrepared,
         ReloadDone, Shutdown, WaitLoop, WaitOps, DeadlineExceeded, Exit
<1> QED
  BY <1>3, <1>4, <1>6, <1>7, <1>8, <1>9, <1>10 DEF MainStep

LEMMA BudgetInvariant == Spec => []\A m \in Module : Budget(m)
<1> DEFINE Inv == \A m \in Module : Budget(m)
<1>1. Init => Inv
  <2> SUFFICES ASSUME Init, NEW m \in Module PROVE Budget(m)
    OBVIOUS
  <2>1. op[m].pc = "idle"
    BY DEF Init, IdleOp
  <2>2. /\ runner[m].state \in {"Registered", "Disabled"} /\ runner[m].window = 0
        /\ runner[m].retry = "none" /\ ~runner[m].blocked
    BY DEF Init, NewRunner
  <2> QED
    BY <2>1, <2>2 DEF Budget, InFlight, Active
<1>2. TypeOK /\ Inv /\ [Next]_vars => Inv'
  <2> SUFFICES ASSUME TypeOK, Inv, [Next]_vars, NEW n \in Module PROVE Budget(n)'
    OBVIOUS
  <2>1. Budget(n)
    OBVIOUS
  <2>2. CASE UNCHANGED vars
    BY <2>1, <2>2, BudgetFrame DEF vars, SameBudget, InFlight
  <2> QED
    BY <2>1, <2>2, BudgetOps, BudgetLoop, BudgetMain DEF Next, Terminated
<1> HIDE DEF Inv
<1>3. Spec => []Inv
  BY <1>1, <1>2, TypeCorrect, PTL DEF Spec
<1> QED
  BY <1>3 DEF Inv

\* A module is quarantined exactly when its own window exceeds the budget, and then no restart
\* of it is pending; one that failed within its budget is not.  Reloads, overrun deadlines and
\* interrupted starts included.
THEOREM QuarantineIsEarned ==
  Spec => []\A m \in Module :
       /\ runner[m].state = "CrashLooping" =>
            runner[m].retry = "none" /\ ~runner[m].blocked /\ runner[m].window > MaxRestarts
       /\ runner[m].state = "Failed" /\ ~runner[m].blocked => runner[m].window <= MaxRestarts
<1> DEFINE Inv == \A m \in Module : Budget(m)
           Earned == \A m \in Module :
             /\ runner[m].state = "CrashLooping" =>
                  runner[m].retry = "none" /\ ~runner[m].blocked /\ runner[m].window > MaxRestarts
             /\ runner[m].state = "Failed" /\ ~runner[m].blocked => runner[m].window <= MaxRestarts
<1>1. Inv => Earned
  BY DEF Budget
<1>2. Spec => []Inv
  BY BudgetInvariant
<1> HIDE DEF Inv, Earned
<1>3. Spec => []Earned
  BY <1>1, <1>2, PTL
<1> QED
  BY <1>3 DEF Earned

-----------------------------------------------------------------------------
(* Injections into an initial segment of the naturals. *)

\* What is renamed one by one needs no more.
LEMMA InjectionRenamed ==
  ASSUME NEW S, NEW T, NEW n \in Nat, NEW k \in Nat, n <= k, ExistsInjection(S, 1 .. n),
         NEW g \in [T -> S], IsInjective(g)
  PROVE  ExistsInjection(T, 1 .. k)
<1>1. PICK f \in [S -> 1 .. n] : IsInjective(f)
  BY DEF ExistsInjection, Injection
<1> DEFINE h == [t \in T |-> f[g[t]]]
<1>2. h \in [T -> 1 .. k]
  OBVIOUS
<1>3. IsInjective(h)
  <2> SUFFICES ASSUME NEW a \in T, NEW b \in T, h[a] = h[b] PROVE a = b
    BY DEF IsInjective
  <2>1. f[g[a]] = f[g[b]] /\ g[a] \in S /\ g[b] \in S
    OBVIOUS
  <2>2. g[a] = g[b]
    BY <2>1, <1>1 DEF IsInjective
  <2> QED
    BY <2>2 DEF IsInjective
<1> QED
  BY <1>2, <1>3 DEF ExistsInjection, Injection

\* Nor does a part.
LEMMA InjectionPart ==
  ASSUME NEW S, NEW T, NEW n \in Nat, NEW k \in Nat, n <= k, ExistsInjection(S, 1 .. n),
         T \subseteq S
  PROVE  ExistsInjection(T, 1 .. k)
<1> DEFINE g == [t \in T |-> t]
<1>1. g \in [T -> S] /\ IsInjective(g)
  BY DEF IsInjective
<1> HIDE DEF g
<1> QED
  BY <1>1, InjectionRenamed

\* One more element takes one more number.
LEMMA InjectionOneMore ==
  ASSUME NEW S, NEW T, NEW n \in Nat, ExistsInjection(S, 1 .. n), NEW b, T \subseteq S \cup {b}
  PROVE  ExistsInjection(T, 1 .. (n + 1))
<1>1. PICK f \in [S -> 1 .. n] : IsInjective(f)
  BY DEF ExistsInjection, Injection
<1> DEFINE h == [t \in T |-> IF t \in S THEN f[t] ELSE n + 1]
<1>2. h \in [T -> 1 .. (n + 1)]
  <2> SUFFICES ASSUME NEW t \in T PROVE h[t] \in 1 .. (n + 1)
    OBVIOUS
  <2>1. t \in S => f[t] \in 1 .. n
    OBVIOUS
  <2> QED
    BY <2>1
<1>3. IsInjective(h)
  <2> SUFFICES ASSUME NEW c \in T, NEW d \in T, h[c] = h[d] PROVE c = d
    BY DEF IsInjective
  <2>1. /\ c \in S => f[c] \in 1 .. n
        /\ d \in S => f[d] \in 1 .. n
    OBVIOUS
  <2>2. c \in S <=> d \in S
    BY <2>1
  <2>3. CASE c \in S
    BY <1>1, <2>2, <2>3 DEF IsInjective
  <2>4. CASE c \notin S
    BY <2>2, <2>4
  <2> QED
    BY <2>3, <2>4
<1> QED
  BY <1>2, <1>3 DEF ExistsInjection, Injection

\* One element takes the number of another.
LEMMA InjectionReplaced ==
  ASSUME NEW S, NEW T, NEW n \in Nat, ExistsInjection(S, 1 .. n),
         NEW a \in S, NEW b, T \subseteq (S \ {a}) \cup {b}
  PROVE  ExistsInjection(T, 1 .. n)
<1>1. CASE b \in S
  BY <1>1, InjectionPart
<1>2. CASE b \notin S
  <2> DEFINE g == [t \in T |-> IF t = b THEN a ELSE t]
  <2>1. g \in [T -> S] /\ IsInjective(g)
    BY <1>2 DEF IsInjective
  <2> HIDE DEF g
  <2> QED
    BY <2>1, InjectionRenamed
<1> QED
  BY <1>1, <1>2

-----------------------------------------------------------------------------
(* Who pays for a fault. *)

\* The goroutine of m has met a fault that it has not charged yet.
Owes(m) ==
  \/ op[m].pc \in {"deps", "failStop", "failEnd"}
  \/ op[m].pc \in {"clean", "finish"} /\ op[m].result = "error"

Charge(m, i) == <<"window", m, i>>
Debt(m) == <<"op", m, 0>>
Pending(j) == <<"report", NoModule, j>>

\* What a fault may have been spent on: an event in a window, the goroutine about to charge
\* it, or a report still in the failures channel.
Spent ==
  {x \in {"window", "op", "report"} \X (Module \cup {NoModule}) \X Nat :
     \/ x[1] = "window" /\ x[2] \in Module /\ x[3] \in 1 .. runner[x[2]].window
     \/ x[1] = "op" /\ x[2] \in Module /\ x[3] = 0 /\ Owes(x[2])
     \/ x[1] = "report" /\ x[2] = NoModule /\ x[3] \in 1 .. Len(failures)}

\* FaultsAreCharged as an inductive invariant, with WorkInv and what that rests on: every fault
\* is spent once, and no admission is refused because an earlier lease is still held.
FaultInv == releasing = {} /\ ExistsInjection(Spent, 1 .. faults)

\* A step that charges and owes nothing new, or only what b stands for.
LEMMA SpentStep ==
  ASSUME TypeOK, TypeOK', NEW b,
         \A m \in Module : runner'[m].window <= runner[m].window
                             \/ (runner'[m].window = runner[m].window + 1
                                   /\ b = Charge(m, runner'[m].window)),
         \A m \in Module : Owes(m)' => Owes(m) \/ b = Debt(m),
         \/ Len(failures') <= Len(failures)
         \/ Len(failures') = Len(failures) + 1 /\ b = Pending(Len(failures'))
  PROVE  Spent' \subseteq Spent \cup {b}
<1> SUFFICES ASSUME NEW x \in Spent' PROVE x \in Spent \cup {b}
  OBVIOUS
<1>1. /\ x \in {"window", "op", "report"} \X (Module \cup {NoModule}) \X Nat
      /\ x = <<x[1], x[2], x[3]>>
  BY DEF Spent
<1>2. CASE x[1] = "window"
  <2>1. x[2] \in Module /\ x[3] \in 1 .. runner'[x[2]].window
    BY <1>2 DEF Spent
  <2>2. runner[x[2]].window \in Nat /\ runner'[x[2]].window \in Nat
    <3>1. runner[x[2]] \in RunnerRecord /\ runner'[x[2]] \in RunnerRecord
      BY <2>1 DEF TypeOK
    <3> QED
      BY <3>1 DEF RunnerRecord
  <2>3. CASE x[3] \in 1 .. runner[x[2]].window
    BY <1>1, <1>2, <2>1, <2>3 DEF Spent
  <2>4. CASE x[3] \notin 1 .. runner[x[2]].window
    <3>1. x[3] = runner'[x[2]].window /\ runner'[x[2]].window = runner[x[2]].window + 1
      BY <2>1, <2>2, <2>4
    <3>2. b = Charge(x[2], x[3])
      BY <2>1, <2>2, <3>1
    <3> QED
      BY <1>1, <1>2, <3>2 DEF Charge
  <2> QED
    BY <2>3, <2>4
<1>3. CASE x[1] = "op"
  <2>1. x[2] \in Module /\ x[3] = 0 /\ Owes(x[2])'
    BY <1>3 DEF Spent
  <2>2. CASE Owes(x[2])
    BY <1>1, <1>3, <2>1, <2>2 DEF Spent
  <2>3. CASE b = Debt(x[2])
    BY <1>1, <1>3, <2>1, <2>3 DEF Debt
  <2> QED
    BY <2>1, <2>2, <2>3
<1>4. CASE x[1] = "report"
  <2>1. x[2] = NoModule /\ x[3] \in 1 .. Len(failures')
    BY <1>4 DEF Spent
  <2>2. Len(failures) \in Nat /\ Len(failures') \in Nat
    BY DEF TypeOK
  <2>3. CASE x[3] \in 1 .. Len(failures)
    BY <1>1, <1>4, <2>1, <2>3 DEF Spent
  <2>4. CASE x[3] \notin 1 .. Len(failures)
    <3>1. x[3] = Len(failures') /\ b = Pending(x[3])
      BY <2>1, <2>2, <2>4
    <3> QED
      BY <1>1, <1>4, <2>1, <3>1 DEF Pending
  <2> QED
    BY <2>3, <2>4
<1> QED
  BY <1>1, <1>2, <1>3, <1>4

\* A step that charges nothing and owes nothing new.
LEMMA SpentLess ==
  ASSUME TypeOK, TypeOK', FaultInv, faults <= faults', Len(failures') <= Len(failures),
         \A m \in Module : /\ runner'[m].window <= runner[m].window
                           /\ Owes(m)' => Owes(m)
  PROVE  ExistsInjection(Spent, 1 .. faults)'
<1>1. Spent' \subseteq Spent
  <2> DEFINE b == <<"none", NoModule, 0>>
  <2>1. Spent' \subseteq Spent \cup {b}
    BY SpentStep
  <2>2. b \notin Spent'
    BY DEF Spent
  <2> QED
    BY <2>1, <2>2
<1>2. faults \in Nat /\ faults' \in Nat
  BY DEF TypeOK
<1> HIDE DEF Spent
<1> QED
  BY <1>1, <1>2, InjectionPart DEF FaultInv

\* A charge is paid by the goroutine that owes it.
LEMMA SpentCharged ==
  ASSUME TypeOK, TypeOK', FaultInv, NEW m \in Module, Owes(m), ~Owes(m)',
         faults' = faults, failures' = failures, releasing' = releasing,
         runner'[m].window <= runner[m].window + 1,
         \A n \in Module : n # m => /\ runner'[n].window = runner[n].window
                                    /\ Owes(n)' => Owes(n)
  PROVE  FaultInv'
<1> DEFINE a == Debt(m)
           b == Charge(m, runner'[m].window)
<1>1. /\ runner[m].window \in Nat /\ runner'[m].window \in Nat /\ faults \in Nat
      /\ \A n \in Module : runner[n].window \in Nat /\ runner'[n].window \in Nat
  BY DEF TypeOK, RunnerRecord
<1>2. \A n \in Module : runner'[n].window <= runner[n].window
                          \/ (runner'[n].window = runner[n].window + 1
                                /\ b = Charge(n, runner'[n].window))
  BY <1>1
<1>3. \A n \in Module : Owes(n)' => Owes(n) \/ b = Debt(n)
  OBVIOUS
<1>4. Len(failures') <= Len(failures)
  <2>1. Len(failures) \in Nat
    BY DEF TypeOK
  <2> QED
    BY <2>1
<1>5. Spent' \subseteq Spent \cup {b}
  <2> HIDE DEF b
  <2> QED
    BY <1>2, <1>3, <1>4, SpentStep
<1>6. a \in Spent /\ a \notin Spent'
  BY DEF Spent, Debt
<1>7. Spent' \subseteq (Spent \ {a}) \cup {b}
  BY <1>5, <1>6
<1> HIDE DEF a, b
<1>8. ExistsInjection(Spent', 1 .. faults)
  BY <1>1, <1>6, <1>7, InjectionReplaced DEF FaultInv
<1> QED
  BY <1>8 DEF FaultInv

\* A fault that is no charge yet.
LEMMA SpentNew ==
  ASSUME TypeOK, TypeOK', FaultInv, faults' = faults + 1, releasing' = releasing, NEW b,
         \A n \in Module : runner'[n].window = runner[n].window,
         \A n \in Module : Owes(n)' => Owes(n) \/ b = Debt(n),
         \/ Len(failures') <= Len(failures)
         \/ Len(failures') = Len(failures) + 1 /\ b = Pending(Len(failures'))
  PROVE  FaultInv'
<1>1. /\ faults \in Nat
      /\ \A n \in Module : runner[n].window \in Nat /\ runner'[n].window \in Nat
  BY DEF TypeOK, RunnerRecord
<1>2. Spent' \subseteq Spent \cup {b}
  BY <1>1, SpentStep
<1>3. ExistsInjection(Spent', 1 .. (faults + 1))
  BY <1>1, <1>2, InjectionOneMore DEF FaultInv
<1> QED
  BY <1>3 DEF FaultInv

\* Without reloads a start is never refused for a lease still held.
LEMMA AdmitFree ==
  ASSUME TypeOK, LeaseInv, CallInv, WorkInv, releasing = {}, NEW m \in Module, op[m].pc = "admit"
  PROVE  m \notin admitted
<1>1. Launching(m)
  BY DEF WorkInv, WorkFits, StartPcs
<1>2. runner[m].state = "Starting" /\ main.cur # m
  BY <1>1 DEF CallInv, Fits
<1>3. ~runner[m].lease /\ ~op[m].lease
  BY <1>2 DEF CallInv, Fits, LeaseInv, OpLease
<1>4. Holders(m) = {}
  BY <1>2, <1>3 DEF Holders
<1> QED
  BY <1>4 DEF LeaseInv, LeaseOwned

\* A start: a refusal or an error is a fault, which its end charges.
LEMMA FaultStart ==
  ASSUME TypeOK, TypeOK', LeaseInv, CallInv, WorkInv, FaultInv, \A n \in Module : Budget(n),
         NEW m \in Module, Admit(m) \/ StartReturns(m) \/ CleanupReturns(m) \/ FinishStart(m)
  PROVE  FaultInv'
<1>1. /\ runner \in [Module -> RunnerRecord] /\ op \in [Module -> OpRecord] /\ op[m] \in OpRecord
      /\ runner[m] \in RunnerRecord /\ Len(failures) \in Nat /\ faults \in Nat
      /\ \A n \in Module : runner[n].window \in Nat
  BY DEF TypeOK, RunnerRecord
<1>2. CASE Admit(m)
  <2>1. m \notin admitted
    BY <1>2, AdmitFree DEF Admit, FaultInv
  <2>2. runner' = runner /\ failures' = failures /\ releasing' = releasing
    BY <1>2 DEF Admit
  <2>3. CASE op' = [op EXCEPT ![m] = [@ EXCEPT !.pc = "start", !.lease = TRUE]] /\ faults' = faults
    <3>1. \A n \in Module : Owes(n)' => Owes(n)
      BY <1>1, <2>3 DEF Owes, OpRecord
    <3> QED
      BY <1>1, <2>2, <2>3, <3>1, SpentLess DEF FaultInv
  <2>4. CASE op' = [op EXCEPT ![m] = [@ EXCEPT !.pc = "finish", !.result = "error"]]
             /\ faults' = faults + 1
    <3> DEFINE b == Debt(m)
    <3>1. \A n \in Module : n # m => op'[n] = op[n]
      BY <1>1, <2>4
    <3>2. \A n \in Module : Owes(n)' => Owes(n) \/ b = Debt(n)
      BY <3>1 DEF Owes
    <3>3. Len(failures') <= Len(failures) /\ \A n \in Module : runner'[n].window = runner[n].window
      BY <1>1, <2>2
    <3> HIDE DEF b
    <3> QED
      BY <2>2, <2>4, <3>2, <3>3, SpentNew
  <2> QED
    BY <1>2, <2>1, <2>3, <2>4 DEF Admit
<1>3. CASE StartReturns(m)
  <2>1. runner' = runner /\ failures' = failures /\ releasing' = releasing /\ op[m].result = "ok"
    BY <1>3 DEF StartReturns, LeaseInv, OpLease
  <2>2. CASE op' = [op EXCEPT ![m].pc = "finish"] /\ faults' = faults
    <3>1. op'[m].pc = "finish" /\ op'[m].result = "ok"
      BY <1>1, <2>1, <2>2 DEF OpRecord
    <3>2. \A n \in Module : n # m => op'[n] = op[n]
      BY <1>1, <2>2
    <3>3. \A n \in Module : Owes(n)' => Owes(n)
      BY <3>1, <3>2 DEF Owes
    <3> QED
      BY <1>1, <2>1, <2>2, <3>3, SpentLess DEF FaultInv
  <2>3. ASSUME NEW res \in {"error", "unsupported"},
               op' = [op EXCEPT ![m] = [@ EXCEPT !.pc = "clean", !.result = res]],
               faults' = faults + 1
        PROVE  FaultInv'
    <3> DEFINE b == Debt(m)
    <3>1. \A n \in Module : n # m => op'[n] = op[n]
      BY <1>1, <2>3
    <3>2. \A n \in Module : Owes(n)' => Owes(n) \/ b = Debt(n)
      BY <3>1 DEF Owes
    <3>3. Len(failures') <= Len(failures) /\ \A n \in Module : runner'[n].window = runner[n].window
      BY <1>1, <2>1
    <3> HIDE DEF b
    <3> QED
      BY <2>1, <2>3, <3>2, <3>3, SpentNew
  <2> QED
    BY <1>3, <2>2, <2>3 DEF StartReturns
<1>4. CASE CleanupReturns(m)
  <2>1. runner' = runner /\ failures' = failures /\ releasing' = releasing /\ faults' = faults
    BY <1>4 DEF CleanupReturns, env
  <2>2. op'[m].pc = "finish" /\ op'[m].result = op[m].result /\ op[m].pc = "clean"
    BY <1>1, <1>4 DEF CleanupReturns, OpRecord
  <2>3. \A n \in Module : n # m => op'[n] = op[n]
    BY <1>1, <1>4 DEF CleanupReturns
  <2>4. \A n \in Module : Owes(n)' => Owes(n)
    BY <2>2, <2>3 DEF Owes
  <2> QED
    BY <1>1, <2>1, <2>4, SpentLess DEF FaultInv
<1>5. CASE FinishStart(m)
  <2>1. Launching(m)
    BY <1>5 DEF FinishStart, WorkInv, WorkFits, StartPcs
  <2>2. failures' = failures /\ faults' = faults /\ releasing' = releasing
    BY <1>5, <2>1 DEF FinishStart, Launching, env
  <2>3. PICK r \in Recorded(m) : runner' = [runner EXCEPT ![m] = r]
    BY <1>5, <2>1 DEF FinishStart, Launching
  <2>4. op'[m].pc = "idle" /\ \A n \in Module : n # m => op'[n] = op[n] /\ runner'[n] = runner[n]
    BY <1>1, <1>5, <2>3 DEF FinishStart, IdleOp
  <2>5. ~Owes(m)' /\ \A n \in Module : Owes(n)' => Owes(n)
    BY <2>4 DEF Owes
  <2>6. CASE op[m].result = "error"
    <3>1. Owes(m) /\ runner'[m] = r /\ r \in FailLocked(runner[m])
      BY <1>1, <1>5, <2>3, <2>6 DEF Owes, FinishStart, Recorded
    <3>2. /\ runner[m].retry = "none" /\ ~runner[m].blocked
          /\ ~RestartEnabled => runner[m].window = 0
      BY <1>5 DEF Budget, FinishStart, InFlight
    <3>3. r.window <= runner[m].window + 1
      BY <1>1, <3>1, <3>2, FailLockedBudget
    <3> QED
      BY <2>2, <2>4, <2>5, <3>1, <3>3, SpentCharged
  <2>7. CASE op[m].result # "error"
    <3>1. r.window = runner[m].window
      <4>1. CASE op[m].result = "ok"
        BY <1>1, <2>3, <4>1 DEF Recorded, RunnerRecord
      <4>2. CASE op[m].result = "unsupported"
        BY <1>1, <2>3, <4>2 DEF Recorded, RunnerRecord
      <4> QED
        BY <1>1, <2>7, <4>1, <4>2 DEF OpRecord
    <3>2. \A n \in Module : runner'[n].window <= runner[n].window
      BY <1>1, <2>3, <2>4, <3>1
    <3> QED
      BY <1>1, <2>2, <2>5, <3>2, SpentLess DEF FaultInv
  <2> QED
    BY <2>6, <2>7
<1> QED
  BY <1>2, <1>3, <1>4, <1>5

\* A claim charges nothing: neither the start nor the wait for a dependency.
LEMMA ClaimCharges ==
  ASSUME TypeOK, NEW m \in Module, NEW owner \in {"main", "loop"},
         ClaimStart(m, owner) \/ ClaimRefused(m), NEW n \in Module
  PROVE  runner'[n].window = runner[n].window /\ (Owes(n)' => Owes(n))
<1>1. /\ runner \in [Module -> RunnerRecord] /\ runner[n] \in RunnerRecord
      /\ op \in [Module -> OpRecord]
  BY DEF TypeOK
<1>2. Blocked(runner[n]).window = runner[n].window /\ Claimed(runner[n]).window = runner[n].window
  BY <1>1, BudgetFields
<1>3. CASE ClaimStart(m, owner)
  <2>1. runner'[n] = IF n = m THEN Claimed(runner[n]) ELSE runner[n]
    BY <1>1, <1>3 DEF ClaimStart
  <2>2. op'[n].pc = "admit" \/ op'[n] = op[n]
    BY <1>1, <1>3 DEF ClaimStart, StartOp, IdleOp
  <2> QED
    BY <1>2, <2>1, <2>2 DEF Owes
<1>4. CASE ClaimRefused(m)
  <2>1. op' = op /\ (runner'[n] = runner[n] \/ runner'[n] = Blocked(runner[n]))
    BY <1>1, <1>4 DEF ClaimRefused
  <2> QED
    BY <1>2, <2>1 DEF Owes
<1> QED
  BY <1>3, <1>4

\* A step that charges nothing.
LEMMA FaultFrame ==
  ASSUME TypeOK, TypeOK', FaultInv, faults' = faults, releasing' = releasing,
         Len(failures') <= Len(failures),
         \A n \in Module : runner'[n].window = runner[n].window /\ (Owes(n)' => Owes(n))
  PROVE  FaultInv'
<1>1. faults \in Nat /\ \A n \in Module : runner[n].window \in Nat
  BY DEF TypeOK, RunnerRecord
<1> QED
  BY <1>1, SpentLess DEF FaultInv

\* The goroutines that stop: the failed module pays for its failure at the end, its
\* dependents for nothing.
LEMMA FaultCascade ==
  ASSUME TypeOK, TypeOK', FaultInv, \A n \in Module : Budget(n), NEW m \in Module, NEW f \in Module,
         \/ StopForDependency(f, m) \/ DependentStopped(m) \/ FailedStopped(m)
         \/ OpStopReturns(m) \/ FailedStop(m)
  PROVE  FaultInv'
<1>1. /\ runner \in [Module -> RunnerRecord] /\ op \in [Module -> OpRecord] /\ op[m] \in OpRecord
      /\ runner[m] \in RunnerRecord /\ Len(failures) \in Nat /\ op[f] \in OpRecord
  BY DEF TypeOK
<1>2. failures' = failures /\ faults' = faults /\ releasing' = releasing
  BY DEF StopForDependency, DependentStopped, FailedStopped, OpStopReturns, FailedStop,
         modules, env
<1>3. CASE StopForDependency(f, m)
  <2>1. CASE UNCHANGED runner /\ op' = [op EXCEPT ![f].rest = @ \ {m}]
    <3>1. op'[f].pc = op[f].pc /\ op'[f].result = op[f].result
      BY <1>1, <2>1 DEF OpRecord
    <3>2. \A n \in Module : n # f => op'[n] = op[n]
      BY <1>1, <2>1
    <3>3. \A n \in Module : Owes(n)' => Owes(n)
      BY <3>1, <3>2 DEF Owes
    <3> QED
      BY <1>1, <1>2, <2>1, <3>3, FaultFrame
  <2>2. CASE /\ runner' = [runner EXCEPT ![m] = TakenDown(@)]
             /\ op' = [op EXCEPT ![m] = [IdleOp EXCEPT !.pc = "depStop", !.cause = f,
                                                       !.lease = runner[m].lease]]
    <3>1. op'[m].pc = "depStop"
      BY <1>1, <2>2 DEF IdleOp
    <3>2. \A n \in Module : n # m => op'[n] = op[n] /\ runner'[n] = runner[n]
      BY <1>1, <2>2
    <3>3. runner'[m].window = runner[m].window
      BY <1>1, <2>2, BudgetFields
    <3>4. \A n \in Module : runner'[n].window = runner[n].window /\ (Owes(n)' => Owes(n))
      BY <3>1, <3>2, <3>3 DEF Owes
    <3> QED
      BY <1>1, <1>2, <3>4, FaultFrame
  <2> QED
    BY <1>3, <2>1, <2>2 DEF StopForDependency
<1>4. CASE DependentStopped(m)
  <2>1. runner'[m].window = runner[m].window /\ \A n \in Module : n # m => runner'[n] = runner[n]
    <3>1. runner' = [runner EXCEPT ![m] = Blocked(@)]
      BY <1>4 DEF DependentStopped
    <3> QED
      BY <1>1, <3>1, BudgetFields
  <2>2. ASSUME NEW n \in Module PROVE Owes(n)' => Owes(n)
    <3>1. CASE n = m
      BY <1>4, <3>1 DEF DependentStopped, DependentOver, IdleOp, Owes
    <3>2. CASE n # m
      <4>1. op'[n] = op[n] \/ op'[n] = [op[n] EXCEPT !.rest = @ \ {m}]
        BY <1>4, <3>2 DEF DependentStopped, DependentOver
      <4>2. op'[n].pc = op[n].pc /\ op'[n].result = op[n].result
        BY <1>1, <4>1 DEF OpRecord
      <4> QED
        BY <4>2 DEF Owes
    <3> QED
      BY <3>1, <3>2
  <2>3. \A n \in Module : runner'[n].window = runner[n].window
    BY <2>1
  <2> QED
    BY <1>1, <1>2, <2>2, <2>3, FaultFrame
<1>5. CASE FailedStopped(m)
  <2>1. op[m].pc = "failEnd" /\ op' = [op EXCEPT ![m] = IdleOp]
    BY <1>5 DEF FailedStopped
  <2>2. PICK q \in FailLocked(runner[m]) : runner' = [runner EXCEPT ![m] = q]
    BY <1>5 DEF FailedStopped
  <2>3. /\ runner[m].retry = "none" /\ ~runner[m].blocked
        /\ ~RestartEnabled => runner[m].window = 0
    BY <2>1 DEF Budget, InFlight
  <2>4. runner'[m] = q /\ op'[m] = IdleOp
        /\ \A n \in Module : n # m => runner'[n] = runner[n] /\ op'[n] = op[n]
    BY <1>1, <2>1, <2>2
  <2>5. q.window <= runner[m].window + 1
    BY <1>1, <2>3, FailLockedBudget
  <2>6. Owes(m) /\ ~Owes(m)' /\ \A n \in Module : n # m => (Owes(n)' => Owes(n))
    BY <2>1, <2>4 DEF Owes, IdleOp
  <2>7. runner'[m].window <= runner[m].window + 1
    BY <2>4, <2>5
  <2> QED
    BY <1>2, <2>4, <2>6, <2>7, SpentCharged
<1>6. CASE OpStopReturns(m)
  <2>1. op'[m].pc = "failEnd" \/ op'[m].pc = "depEnd"
    BY <1>1, <1>6 DEF OpStopReturns, OpRecord
  <2>2. op[m].pc = "depStop" => op'[m].pc = "depEnd"
    BY <1>1, <1>6 DEF OpStopReturns, OpRecord
  <2>3. op[m].pc \in {"depStop", "failStop"} /\ runner' = runner
        /\ \A n \in Module : n # m => op'[n] = op[n]
    BY <1>1, <1>6 DEF OpStopReturns
  <2>4. \A n \in Module : Owes(n)' => Owes(n)
    BY <2>1, <2>2, <2>3 DEF Owes
  <2> QED
    BY <1>1, <1>2, <2>3, <2>4, FaultFrame
<1>7. CASE FailedStop(m)
  <2>1. op[m].pc = "deps" /\ runner' = runner /\ \A n \in Module : n # m => op'[n] = op[n]
    BY <1>1, <1>7 DEF FailedStop
  <2>2. \A n \in Module : Owes(n)' => Owes(n)
    BY <2>1 DEF Owes
  <2> QED
    BY <1>1, <1>2, <2>1, <2>2, FaultFrame
<1> QED
  BY <1>3, <1>4, <1>5, <1>6, <1>7

\* A report that is acted on becomes the debt of the module's goroutine.
LEMMA FaultReport ==
  ASSUME TypeOK, TypeOK', FaultInv, HandleRuntimeFailure
  PROVE  FaultInv'
<1>1. /\ runner \in [Module -> RunnerRecord] /\ op \in [Module -> OpRecord]
      /\ failures \in Seq(Report) /\ failures # <<>> /\ faults \in Nat
      /\ faults' = faults /\ releasing' = releasing /\ failures' = Tail(failures)
      /\ \A n \in Module : runner[n].window \in Nat
  BY DEF TypeOK, HandleRuntimeFailure, modules, RunnerRecord
<1>2. Len(failures) \in Nat \ {0} /\ Len(failures') = Len(failures) - 1
  BY <1>1
<1>3. CASE UNCHANGED <<runner, op>>
  BY <1>1, <1>2, <1>3, FaultFrame DEF Owes
<1>4. CASE /\ Current(Head(failures))
           /\ runner' = [runner EXCEPT ![Head(failures).id] =
                           [@ EXCEPT !.state = "Stopping", !.lease = FALSE]]
           /\ op' = [op EXCEPT ![Head(failures).id] =
                       [IdleOp EXCEPT !.pc = "deps", !.lease = runner[Head(failures).id].lease,
                                      !.rest = TransitiveDependents(Head(failures).id),
                                      !.within = graph]]
  <2> DEFINE id == Head(failures).id
             a == Pending(Len(failures))
             b == Debt(id)
  <2>1. id \in Module
    <3>1. Head(failures) \in Report
      BY <1>1
    <3> QED
      BY <3>1 DEF Report
  <2>2. runner'[id].window = runner[id].window /\ \A n \in Module : n # id => runner'[n] = runner[n]
    BY <1>1, <1>4, <2>1 DEF RunnerRecord
  <2>3. \A n \in Module : n # id => op'[n] = op[n]
    BY <1>1, <1>4, <2>1
  <2>4. \A n \in Module : runner'[n].window <= runner[n].window
    BY <1>1, <2>2
  <2>5. \A n \in Module : Owes(n)' => Owes(n) \/ b = Debt(n)
    BY <2>3 DEF Owes
  <2> HIDE DEF b, id
  <2>6. Spent' \subseteq Spent \cup {b}
    BY <1>2, <2>4, <2>5, SpentStep
  <2>7. a \in Spent
    BY <1>2 DEF Spent, Pending
  <2>8. a \notin Spent'
    BY <1>2 DEF Spent, Pending
  <2>9. Spent' \subseteq (Spent \ {a}) \cup {b}
    BY <2>6, <2>8
  <2> HIDE DEF a
  <2>10. ExistsInjection(Spent', 1 .. faults)
    BY <1>1, <2>7, <2>9, InjectionReplaced DEF FaultInv
  <2> QED
    BY <1>1, <2>10 DEF FaultInv
<1> QED
  BY <1>3, <1>4 DEF HandleRuntimeFailure

\* The loop, the clock, the modules' reports and the returns of main's Stops.
LEMMA FaultEnvironment ==
  ASSUME TypeOK, TypeOK', FaultInv, NEW m \in Module,
         \/ LoopScan \/ LoopExit \/ LoopClaim(m) \/ AsyncRelease(m) \/ RetryDue(m)
         \/ ReportFailure(m) \/ MainStopReturns(m)
  PROVE  FaultInv'
<1>1. /\ runner \in [Module -> RunnerRecord] /\ op \in [Module -> OpRecord]
      /\ failures \in Seq(Report) /\ Len(failures) \in Nat /\ runner[m] \in RunnerRecord
      /\ faults \in Nat
  BY DEF TypeOK
<1>2. CASE LoopScan \/ LoopExit \/ MainStopReturns(m)
  <2>1. runner' = runner /\ op' = op /\ failures' = failures /\ faults' = faults
        /\ releasing' = releasing
    BY <1>2 DEF LoopScan, LoopExit, MainStopReturns, modules, env
  <2> QED
    BY <1>1, <2>1, FaultFrame DEF Owes
<1>3. ~AsyncRelease(m)
  BY DEF AsyncRelease, FaultInv
<1>4. CASE LoopClaim(m)
  <2>1. failures' = failures /\ faults' = faults /\ releasing' = releasing
        /\ (ClaimStart(m, "loop") \/ ClaimRefused(m))
    BY <1>4 DEF LoopClaim, modules, env
  <2> QED
    BY <1>1, <2>1, FaultFrame, ClaimCharges
<1>5. CASE RetryDue(m)
  <2>1. op' = op /\ failures' = failures /\ faults' = faults /\ releasing' = releasing
    BY <1>5 DEF RetryDue, modules, control, env
  <2>2. \A n \in Module : runner'[n].window = runner[n].window
    BY <1>1, <1>5 DEF RetryDue, RunnerRecord
  <2> QED
    BY <1>1, <2>1, <2>2, FaultFrame DEF Owes
<1>6. CASE ReportFailure(m)
  <2> DEFINE b == Pending(Len(failures'))
  <2>1. /\ runner' = runner /\ op' = op /\ faults' = faults + 1 /\ releasing' = releasing
    BY <1>6 DEF ReportFailure
  <2>2. Len(failures') <= Len(failures) \/ (Len(failures') = Len(failures) + 1)
    BY <1>1, <1>6 DEF ReportFailure
  <2>3. \/ Len(failures') <= Len(failures)
        \/ Len(failures') = Len(failures) + 1 /\ b = Pending(Len(failures'))
    BY <2>2
  <2>4. \A n \in Module : runner'[n].window = runner[n].window
    BY <2>1
  <2>5. \A n \in Module : Owes(n)' => Owes(n) \/ b = Debt(n)
    BY <2>1 DEF Owes
  <2> HIDE DEF b
  <2> QED
    BY <2>1, <2>3, <2>4, <2>5, SpentNew
<1> QED
  BY <1>2, <1>3, <1>4, <1>5, <1>6

\* Where nothing is reloaded, main charges nothing.
LEMMA FaultMain ==
  ASSUME MaxReloads = 0, TypeOK, TypeOK', CallInv, FaultInv, MainStep
  PROVE  FaultInv'
<1>1. /\ runner \in [Module -> RunnerRecord] /\ op \in [Module -> OpRecord]
      /\ Len(failures) \in Nat /\ reloads \in Nat /\ main.pc \notin ReloadPcs
  BY DEF TypeOK, CallInv, MainPlace
<1>2. CASE \/ Start \/ StartCancelled \/ LaunchLoop \/ ReloadRejected \/ Reload \/ SelectPrepared
           \/ AllPrepared \/ ReloadDone \/ Shutdown \/ WaitLoop \/ WaitOps
           \/ DeadlineExceeded \/ Exit
  <2>1. runner' = runner /\ op' = op /\ failures' = failures /\ faults' = faults
        /\ releasing' = releasing
    BY <1>2
       DEF Start, StartCancelled, LaunchLoop, ReloadRejected, Reload, SelectPrepared, AllPrepared,
           ReloadDone, Shutdown, WaitLoop, WaitOps, DeadlineExceeded, Exit, modules, env
  <2> QED
    BY <1>1, <2>1, FaultFrame DEF Owes
<1>3. ~Swap /\ ~Enable /\ \A m \in Module : ~Prepare(m) /\ ~Commit(m) /\ ~Disable(m)
  BY <1>1 DEF Swap, Enable, Prepare, Commit, Disable, ReloadPcs
<1>4. ASSUME NEW m \in Module, StartOnce(m) PROVE FaultInv'
  <2>1. failures' = failures /\ faults' = faults /\ releasing' = releasing
        /\ (ClaimStart(m, "main") \/ ClaimRefused(m))
    BY <1>4 DEF StartOnce, modules, env
  <2> QED
    BY <1>1, <2>1, FaultFrame, ClaimCharges
<1>5. ASSUME NEW m \in Module, StopModule(m) \/ StopModuleDone(m) PROVE FaultInv'
  <2>1. op' = op /\ failures' = failures /\ faults' = faults /\ releasing' = releasing
    BY <1>5 DEF StopModule, StopModuleDone, env
  <2>2. ASSUME NEW n \in Module PROVE runner'[n].window = runner[n].window
    <3>1. \/ runner'[n] = runner[n]
          \/ runner'[n] = TakenDown(runner[n])
          \/ runner'[n] = AtRest(runner[n], "Stopped")
      BY <1>1, <1>5 DEF StopModule, StopActive, StopInactive, StopModuleDone
    <3>2. "Stopped" \in State /\ runner[n] \in RunnerRecord
      BY <1>1 DEF State
    <3> QED
      BY <3>1, <3>2, BudgetFields
  <2> QED
    BY <1>1, <2>1, <2>2, FaultFrame DEF Owes
<1> QED
  BY <1>2, <1>3, <1>4, <1>5 DEF MainStep

LEMMA FaultInit == Init => FaultInv
<1> SUFFICES ASSUME Init PROVE FaultInv
  OBVIOUS
<1>1. Spent = {}
  <2>1. /\ \A m \in Module : runner[m].window = 0 /\ op[m].pc = "idle"
        /\ Len(failures) = 0
    BY DEF Init, NewRunner, IdleOp
  <2> QED
    BY <2>1 DEF Spent, Owes
<1>2. [x \in {} |-> x] \in [Spent -> 1 .. faults] /\ IsInjective([x \in {} |-> x])
  BY <1>1 DEF IsInjective
<1> QED
  BY <1>2 DEF FaultInv, Init, ExistsInjection, Injection

LEMMA FaultNext ==
  ASSUME MaxReloads = 0, TypeOK, TypeOK', LeaseInv, CallInv, WorkInv,
         \A n \in Module : Budget(n), FaultInv, [Next]_vars
  PROVE  FaultInv'
<1>1. CASE UNCHANGED vars
  BY <1>1 DEF vars, FaultInv, Spent, Owes
<1>2. ASSUME NEW m \in Module,
             OpStep(m) \/ ModuleReturns(m) \/ RetryDue(m) \/ ReportFailure(m)
      PROVE  FaultInv'
  <2>1. CASE Admit(m) \/ FinishStart(m) \/ StartReturns(m) \/ CleanupReturns(m)
    BY <2>1, FaultStart
  <2>2. CASE \/ DependentStopped(m) \/ FailedStopped(m) \/ OpStopReturns(m) \/ FailedStop(m)
             \/ \E d \in Module : StopForDependency(m, d)
    BY <2>2, FaultCascade
  <2>3. CASE AsyncRelease(m) \/ MainStopReturns(m) \/ RetryDue(m) \/ ReportFailure(m)
    BY <2>3, FaultEnvironment
  <2> QED
    BY <1>2, <2>1, <2>2, <2>3 DEF OpStep, ModuleReturns
<1>3. CASE LoopStep
  <2>1. CASE HandleRuntimeFailure
    BY <2>1, FaultReport
  <2>2. CASE LoopScan \/ LoopExit
    <3>1. runner' = runner /\ op' = op /\ failures' = failures /\ faults' = faults
          /\ releasing' = releasing /\ Len(failures) \in Nat
      BY <2>2 DEF LoopScan, LoopExit, modules, env, TypeOK
    <3> QED
      BY <3>1, FaultFrame DEF Owes
  <2> QED
    BY <1>3, <2>1, <2>2, FaultEnvironment DEF LoopStep
<1>4. CASE MainStep
  BY <1>4, FaultMain
<1> QED
  BY <1>1, <1>2, <1>3, <1>4 DEF Next, Terminated

\* FaultsAreCharged: where nothing is reloaded and no call outlives its deadline, the windows
\* hold no more events than there were faults, each fault in one window at most.
THEOREM FaultsAreChargedOnce ==
  ASSUME ~Overrun, MaxReloads = 0
  PROVE  Spec => []FaultsAreCharged
<1> DEFINE Budgets == \A m \in Module : Budget(m)
<1>1. Spec => []Budgets
  BY BudgetInvariant DEF Budgets
<1>2. TypeOK /\ TypeOK' /\ LeaseInv /\ CallInv /\ WorkInv /\ Budgets /\ FaultInv /\ [Next]_vars
        => FaultInv'
  BY FaultNext
<1>3. TypeOK /\ Budgets /\ FaultInv => FaultsAreCharged
  <2> SUFFICES ASSUME TypeOK, Budgets, FaultInv PROVE FaultsAreCharged
    OBVIOUS
  <2> DEFINE g == [e \in Events |-> <<"window", e[1], e[2]>>]
  <2>1. \A e \in Events : /\ e[1] \in Module /\ e[2] \in 1 .. runner[e[1]].window
                          /\ e = <<e[1], e[2]>> /\ e[2] \in Nat
    BY DEF Events
  <2>2. \A e \in Events : g[e] \in Spent
    BY <2>1 DEF Spent
  <2>3. IsInjective(g)
    BY <2>1 DEF IsInjective
  <2>4. g \in [Events -> Spent]
    BY <2>2
  <2>5. faults \in Nat
    BY DEF TypeOK
  <2> HIDE DEF g
  <2>6. ExistsInjection(Events, 1 .. faults)
    BY <2>3, <2>4, <2>5, InjectionRenamed DEF FaultInv
  <2> QED
    BY <2>6 DEF FaultsAreCharged, Budget
<1> HIDE DEF Budgets
<1> QED
  BY <1>1, <1>2, <1>3, WorkInvariant, FaultInit, PTL DEF Spec

-----------------------------------------------------------------------------
(* Reloads without a fault. *)

\* Main has not begun to shut down, and not given up at start-up.
Serving == main.pc \notin {"waitLoop", "waitOps", "stopAll", "exited"}

\* With no fault, where each module is, from main's position.
InPlace(m) ==
  /\ runner[m].enabled =>
       /\ main.pc = "boot" => runner[m].state = "Registered"
       /\ main.pc = "bootStart" /\ m \in main.todo => runner[m].state \in {"Registered", "Starting"}
       /\ main.pc = "reloadStart" /\ m \in main.todo => runner[m].state \in {"Stopped", "Starting"}
       /\ main.pc \in {"reloadStop", "disable"} /\ m \in main.enabling => runner[m].state = "Disabled"
       /\ \/ main.pc = "boot"
          \/ main.pc \in {"bootStart", "reloadStart"} /\ m \in main.todo
          \/ main.pc \in {"reloadStop", "disable"} /\ m \in main.enabling
          \/ runner[m].state = "Running"
  /\ ~runner[m].enabled =>
       \/ runner[m].state = "Disabled"
       \/ /\ main.pc \in {"reloadStop", "disable"} /\ m \in main.todo
          /\ runner[m].state \in {"Running", "Stopping", "Stopped"}

\* What m runs with: what its record says, or the candidate once it is committed.
FragmentFits(m) ==
  runner[m].enabled /\ runner[m].state = "Running" /\ m \in Configurable =>
    mod[m].frag = IF main.pc = "commit" /\ m \notin main.todo THEN cand.frag[m] ELSE runner[m].frag

\* With no fault, only main's own starts are under way, and they succeed.
CalmFits(m) ==
  /\ mod[m].run # "broken"
  /\ mod[m].run # "down" =>
       runner[m].state = "Running" \/ op[m].pc = "finish" \/ mainStops[m] > 0
  /\ InFlight(m) =>
       /\ op[m].pc \in {"admit", "start", "finish"} /\ op[m].owner = "main"
       /\ op[m].result = "ok" /\ ~Superseded(m) /\ op[m].frag = runner[m].frag
  /\ op[m].pc = "finish" => mod[m].frag = runner[m].frag

\* What main still has to do.
CalmPlan ==
  /\ main.pc \in {"bootStart", "reloadStart"} => main.todo \subseteq EnabledSet
  /\ main.pc \in {"reloadStop", "disable"} => main.enabling \subseteq EnabledSet
  /\ main.pc = "prepare" =>
       main.enabling = {m \in Configurable : Changed(m) /\ runner[m].state = "Running"}

Calm ==
  /\ failures = <<>> /\ releasing = {} /\ due = {} /\ ~stopped
  /\ CalmPlan
  /\ \A m \in Module : InPlace(m) /\ FragmentFits(m) /\ CalmFits(m)

\* ReloadReconciles as an inductive invariant.
CalmInv == faults = 0 /\ Serving => Calm

\* What the invariants before it say of a calm supervisor.
LEMMA CalmFacts ==
  ASSUME ~Overrun, TypeOK, LeaseInv, CallInv, Calm, Serving, NEW m \in Module
  PROVE  /\ InFlight(m) => /\ main.pc \in {"bootStart", "reloadStart"} /\ m \in main.todo
                           /\ runner[m].state = "Starting" /\ runner[m].enabled
                           /\ mainStops[m] = 0 /\ op[m].pc \in {"admit", "start", "finish"}
                           /\ \A n \in Module : ~(main.cur = n)
         /\ runner[m].state = "Starting" => InFlight(m)
         /\ op[m].pc = "admit" => m \notin admitted
         /\ mainStops[m] > 0 => main.cur = m
         /\ main.cur # NoModule => main.pc = "reloadStop" /\ FirstOf(main.cur, main.todo, RegRank)
         /\ runner[m].state # "Running" /\ op[m].pc # "finish" /\ main.cur # m => mod[m].run = "down"
         /\ runner[m].state = "Running" => mod[m].run = "up" /\ ~InFlight(m) /\ mainStops[m] = 0
<1>1. /\ runner[m] \in RunnerRecord /\ op[m] \in OpRecord /\ mod[m] \in ModRecord
      /\ mainStops[m] \in Nat /\ main \in MainRecord
  BY DEF TypeOK
<1>2. Fits(m) /\ MainPlace /\ CalmFits(m) /\ CalmPlan /\ ~stopped
  BY DEF CallInv, Calm
<1>3. main.cur # NoModule => main.pc = "reloadStop" /\ FirstOf(main.cur, main.todo, RegRank)
  BY <1>2 DEF MainPlace, Serving
<1>4. mainStops[m] > 0 => main.cur = m
  BY <1>2 DEF Fits
<1>5. InFlight(m) => /\ main.pc \in {"bootStart", "reloadStart"} /\ m \in main.todo
                     /\ op[m].pc \in {"admit", "start", "finish"} /\ Launching(m)
  BY <1>2 DEF CalmFits, MainPlace, Launching, StartPcs
<1>6. InFlight(m) => runner[m].state = "Starting" /\ mainStops[m] = 0
  BY <1>2, <1>5 DEF Fits
<1>7. InFlight(m) => runner[m].enabled
  BY <1>2, <1>5 DEF CalmPlan, EnabledSet
<1>8. InFlight(m) => \A n \in Module : ~(main.cur = n)
  BY <1>3, <1>5, ModuleAssumption
<1>9. runner[m].state = "Starting" => InFlight(m)
  BY <1>2 DEF Fits, Launching, InFlight, StartPcs
<1>10. op[m].pc = "admit" => m \notin admitted
  <2> SUFFICES ASSUME op[m].pc = "admit" PROVE m \notin admitted
    OBVIOUS
  <2>1. InFlight(m)
    BY DEF InFlight
  <2>2. ~op[m].lease /\ ~runner[m].lease /\ m \notin releasing /\ main.cur # m
    BY <1>2, <1>6, <1>8, <2>1 DEF LeaseInv, OpLease, Fits, Calm
  <2>3. Holders(m) = {}
    BY <2>2 DEF Holders
  <2> QED
    BY <2>3 DEF LeaseInv, LeaseOwned
<1>11. runner[m].state # "Running" /\ op[m].pc # "finish" /\ main.cur # m => mod[m].run = "down"
  BY <1>2, <1>4 DEF CalmFits
<1>12. runner[m].state = "Running" => mod[m].run = "up" /\ ~InFlight(m) /\ mainStops[m] = 0
  BY <1>1, <1>2 DEF Fits, CalmFits, ModRecord
<1> QED
  BY <1>3, <1>4, <1>5, <1>6, <1>7, <1>8, <1>9, <1>10, <1>11, <1>12

\* A step that does nothing to n that a calm supervisor's invariant can see.
SameCalm(n) ==
  /\ runner'[n].enabled = runner[n].enabled /\ runner'[n].state = runner[n].state
  /\ runner'[n].frag = runner[n].frag /\ runner'[n].gen = runner[n].gen
  /\ op'[n] = op[n] /\ mod'[n] = mod[n] /\ mainStops'[n] = mainStops[n]

LEMMA CalmFrame ==
  ASSUME NEW n \in Module, SameCalm(n), CalmFits(n)
  PROVE  CalmFits(n)'
  BY DEF SameCalm, CalmFits, InFlight, Superseded

\* The place and the fragment of a module that is left alone, by a step of an op.
LEMMA CalmStays ==
  ASSUME NEW n \in Module, SameCalm(n), InPlace(n), FragmentFits(n), cand' = cand,
         main'.pc = main.pc, main'.enabling = main.enabling,
         n \in main'.todo <=> n \in main.todo
  PROVE  InPlace(n)' /\ FragmentFits(n)'
  BY DEF SameCalm, InPlace, FragmentFits

LEMMA PlanStays ==
  ASSUME CalmPlan, cand' = cand, main'.pc = main.pc, main'.enabling = main.enabling,
         main'.todo \subseteq main.todo, EnabledSet \subseteq EnabledSet',
         main.pc = "prepare" => \A n \in Module : SameCalm(n)
  PROVE  CalmPlan'
<1>1. main.pc = "prepare" =>
        {n \in Configurable : Changed(n) /\ runner[n].state = "Running"}'
          = {n \in Configurable : Changed(n) /\ runner[n].state = "Running"}
  <2> SUFFICES ASSUME main.pc = "prepare", NEW n \in Configurable
               PROVE  /\ Changed(n)' <=> Changed(n)
                      /\ runner'[n].state = runner[n].state
    OBVIOUS
  <2> QED
    BY ParameterAssumption DEF SameCalm, Changed
<1> QED
  BY <1>1 DEF CalmPlan

LEMMA CalmOps ==
  ASSUME ~Overrun, TypeOK, LeaseInv, CallInv, Calm, Serving, NEW m \in Module,
         OpStep(m) \/ ModuleReturns(m) \/ RetryDue(m) \/ ReportFailure(m),
         faults = 0, faults' = 0
  PROVE  Calm'
<1>1. /\ runner \in [Module -> RunnerRecord] /\ op \in [Module -> OpRecord]
      /\ mod \in [Module -> ModRecord] /\ mainStops \in [Module -> Nat] /\ main \in MainRecord
  BY DEF TypeOK
<1>2. op[m].pc \in {"idle", "admit", "start", "finish"}
  BY CalmFacts DEF InFlight
<1>3. CASE RetryDue(m)
  <2>1. UNCHANGED <<op, modules, control, env>> /\ runner' = [runner EXCEPT ![m].retry = "due"]
    BY <1>3 DEF RetryDue
  <2>2. \A n \in Module : SameCalm(n)
    BY <1>1, <2>1 DEF SameCalm, modules, RunnerRecord
  <2>3. EnabledSet' = EnabledSet
    BY <2>2 DEF EnabledSet, SameCalm
  <2>4. CalmPlan'
    BY <2>1, <2>2, <2>3, PlanStays DEF Calm, control
  <2>5. ASSUME NEW n \in Module PROVE InPlace(n)' /\ FragmentFits(n)' /\ CalmFits(n)'
    BY <2>1, <2>2, CalmFrame, CalmStays DEF Calm, control
  <2> QED
    BY <2>1, <2>4, <2>5 DEF Calm, modules, control, env
<1>4. CASE ReportFailure(m)
  BY <1>4 DEF ReportFailure
<1>5. CASE MainStopReturns(m)
  <2>1. /\ UNCHANGED <<runner, op, admitted, releasing, control, env>>
        /\ mainStops[m] > 0 /\ mainStops' = [mainStops EXCEPT ![m] = @ - 1]
        /\ mod' = [mod EXCEPT ![m].run = "down"]
    BY <1>5 DEF MainStopReturns
  <2>2. /\ mod'[m].run = "down" /\ mod'[m].frag = mod[m].frag
        /\ ~InFlight(m) /\ runner[m].state # "Running"
    BY <1>1, <2>1, CalmFacts DEF ModRecord
  <2>3. \A n \in Module \ {m} : SameCalm(n)
    BY <1>1, <2>1 DEF SameCalm
  <2>4. EnabledSet' = EnabledSet
    BY <2>1 DEF EnabledSet
  <2>5. CalmPlan'
    BY <2>1, <2>4 DEF Calm, CalmPlan, Changed, control
  <2>6. ASSUME NEW n \in Module PROVE InPlace(n)' /\ FragmentFits(n)' /\ CalmFits(n)'
    <3>1. CASE n = m
      <4>1. InPlace(n)' /\ FragmentFits(n)'
        BY <2>1, <2>2, <3>1 DEF Calm, control, InPlace, FragmentFits
      <4>2. CalmFits(n)'
        BY <2>1, <2>2, <3>1 DEF Calm, CalmFits, InFlight, Superseded
      <4> QED
        BY <4>1, <4>2
    <3>2. CASE n # m
      BY <2>1, <2>3, <3>2, CalmFrame, CalmStays DEF Calm, control
    <3> QED
      BY <3>1, <3>2
  <2> QED
    BY <2>1, <2>5, <2>6 DEF Calm, control, env
<1>6. CASE Admit(m)
  <2>1. m \notin admitted
    BY <1>6, CalmFacts DEF Admit
  <2>2. /\ op[m].pc = "admit" /\ op' = [op EXCEPT ![m] = [@ EXCEPT !.pc = "start", !.lease = TRUE]]
        /\ UNCHANGED <<runner, mod, mainStops, releasing, graph, main, cand, loop, due, failures, stopped, reloads>>
    BY <1>6, <2>1 DEF Admit
  <2>3. /\ op'[m].pc = "start" /\ op'[m].owner = op[m].owner /\ op'[m].result = op[m].result
        /\ op'[m].gen = op[m].gen /\ op'[m].frag = op[m].frag
    BY <1>1, <2>2 DEF OpRecord
  <2>4. \A n \in Module \ {m} : SameCalm(n)
    BY <1>1, <2>2 DEF SameCalm
  <2>5. EnabledSet' = EnabledSet /\ CalmPlan'
    BY <2>2 DEF EnabledSet, Calm, CalmPlan, Changed
  <2>6. ASSUME NEW n \in Module PROVE InPlace(n)' /\ FragmentFits(n)' /\ CalmFits(n)'
    <3>1. CASE n = m
      <4>1. InPlace(n)' /\ FragmentFits(n)'
        BY <2>2, <3>1 DEF Calm, InPlace, FragmentFits
      <4>2. CalmFits(n)'
        BY <2>2, <2>3, <3>1 DEF Calm, CalmFits, InFlight, Superseded
      <4> QED
        BY <4>1, <4>2
    <3>2. CASE n # m
      BY <2>2, <2>4, <3>2, CalmFrame, CalmStays DEF Calm
    <3> QED
      BY <3>1, <3>2
  <2> QED
    BY <2>2, <2>5, <2>6 DEF Calm
<1>7. CASE StartReturns(m)
  <2>1. /\ op[m].pc = "start" /\ op' = [op EXCEPT ![m].pc = "finish"]
        /\ mod' = [mod EXCEPT ![m] = [run |-> "up", gen |-> op[m].gen, frag |-> op[m].frag]]
        /\ UNCHANGED <<runner, mainStops, admitted, releasing, graph, main, cand, loop, due, failures, stopped, reloads>>
    BY <1>7 DEF StartReturns
  <2>2. /\ op'[m].pc = "finish" /\ op'[m].owner = op[m].owner /\ op'[m].result = op[m].result
        /\ op'[m].gen = op[m].gen /\ op'[m].frag = op[m].frag
        /\ mod'[m].run = "up" /\ mod'[m].frag = op[m].frag /\ runner[m].state # "Running"
    <3>1. InFlight(m)
      BY <2>1 DEF InFlight
    <3> QED
      BY <1>1, <2>1, <3>1, CalmFacts DEF OpRecord
  <2>3. \A n \in Module \ {m} : SameCalm(n)
    BY <1>1, <2>1 DEF SameCalm
  <2>4. EnabledSet' = EnabledSet /\ CalmPlan'
    BY <2>1 DEF EnabledSet, Calm, CalmPlan, Changed
  <2>5. ASSUME NEW n \in Module PROVE InPlace(n)' /\ FragmentFits(n)' /\ CalmFits(n)'
    <3>1. CASE n = m
      <4>1. InPlace(n)' /\ FragmentFits(n)'
        BY <2>1, <2>2, <3>1 DEF Calm, InPlace, FragmentFits
      <4>2. CalmFits(n)'
        BY <2>1, <2>2, <3>1 DEF Calm, CalmFits, InFlight, Superseded
      <4> QED
        BY <4>1, <4>2
    <3>2. CASE n # m
      BY <2>1, <2>3, <3>2, CalmFrame, CalmStays DEF Calm
    <3> QED
      BY <3>1, <3>2
  <2> QED
    BY <2>1, <2>4, <2>5 DEF Calm
<1>8. CASE FinishStart(m)
  <2>1. /\ op[m].pc = "finish" /\ op[m].result = "ok" /\ op[m].owner = "main" /\ ~Superseded(m)
        /\ mod[m].frag = runner[m].frag /\ InFlight(m)
    BY <1>8 DEF FinishStart, Calm, CalmFits, InFlight
  <2>2. /\ runner' = [runner EXCEPT ![m] = [runner[m] EXCEPT !.state = "Running", !.lease = op[m].lease]]
        /\ main' = [main EXCEPT !.todo = @ \ {m}]
        /\ op' = [op EXCEPT ![m] = IdleOp]
        /\ UNCHANGED <<mod, mainStops, admitted, releasing, graph, cand, loop, due, env>>
    BY <1>8, <2>1 DEF FinishStart, Recorded
  <2>3. /\ runner'[m].state = "Running" /\ runner'[m].enabled = runner[m].enabled
        /\ runner'[m].frag = runner[m].frag /\ op'[m].pc = "idle"
        /\ main'.pc = main.pc /\ main'.enabling = main.enabling /\ main'.todo = main.todo \ {m}
    BY <1>1, <2>2 DEF RunnerRecord, MainRecord, IdleOp
  <2>4. /\ main.pc \in {"bootStart", "reloadStart"} /\ runner[m].enabled /\ mod[m].run # "broken"
    BY <2>1, CalmFacts DEF Calm, CalmFits
  <2>5. \A n \in Module \ {m} : SameCalm(n)
    BY <1>1, <2>2 DEF SameCalm
  <2>6. EnabledSet' = EnabledSet
    BY <2>3, <2>5 DEF EnabledSet, SameCalm
  <2>7. CalmPlan'
    BY <2>2, <2>3, <2>4, <2>6, PlanStays DEF Calm
  <2>8. ASSUME NEW n \in Module PROVE InPlace(n)' /\ FragmentFits(n)' /\ CalmFits(n)'
    <3>1. CASE n = m
      <4>1. InPlace(n)'
        BY <2>3, <2>4, <3>1 DEF InPlace
      <4>2. FragmentFits(n)'
        BY <2>1, <2>2, <2>3, <2>4, <3>1 DEF FragmentFits
      <4>3. CalmFits(n)'
        BY <2>2, <2>3, <2>4, <3>1 DEF CalmFits, InFlight
      <4> QED
        BY <4>1, <4>2, <4>3
    <3>2. CASE n # m
      BY <2>2, <2>3, <2>5, <3>2, CalmFrame, CalmStays DEF Calm
    <3> QED
      BY <3>1, <3>2
  <2> QED
    BY <2>2, <2>7, <2>8 DEF Calm, env
<1>9. CASE AsyncRelease(m)
  BY <1>9 DEF AsyncRelease, Calm
<1>10. ASSUME \/ CleanupReturns(m) \/ OpStopReturns(m) \/ DependentStopped(m) \/ FailedStop(m)
              \/ FailedStopped(m) \/ \E d \in Module : StopForDependency(m, d)
       PROVE  FALSE
  BY <1>2, <1>10 DEF CleanupReturns, OpStopReturns, DependentStopped, FailedStop, FailedStopped,
                     StopForDependency, NextDependent
<1> QED
  BY <1>3, <1>4, <1>5, <1>6, <1>7, <1>8, <1>9, <1>10 DEF OpStep, ModuleReturns

\* The control loop has nothing to do.
LEMMA CalmLoop ==
  ASSUME ~Overrun, TypeOK, Calm, Serving, LoopStep
  PROVE  FALSE
<1>1. CASE LoopScan
  <2>1. PICK m \in Module : runner[m].state = "Failed"
    BY <1>1 DEF LoopScan
  <2>2. InPlace(m)
    BY DEF Calm
  <2> QED
    BY <2>1, <2>2 DEF InPlace
<1>2. CASE HandleRuntimeFailure
  BY <1>2 DEF HandleRuntimeFailure, Calm
<1>3. CASE LoopExit
  BY <1>3 DEF LoopExit, Calm
<1>4. ASSUME NEW m \in Module, LoopClaim(m) PROVE FALSE
  BY <1>4 DEF LoopClaim, FirstOf, Calm
<1> QED
  BY <1>1, <1>2, <1>3, <1>4 DEF LoopStep

\* Main moves on, and touches no module.
LEMMA CalmMoves ==
  ASSUME TypeOK, TypeOK', Calm, Serving, Serving', faults = 0, faults' = 0,
         \/ Start \/ StartCancelled \/ LaunchLoop \/ ReloadRejected \/ Reload \/ SelectPrepared
         \/ AllPrepared \/ ReloadDone \/ Shutdown \/ WaitLoop \/ WaitOps \/ DeadlineExceeded \/ Exit
         \/ \E m \in Module : Prepare(m)
  PROVE  Calm'
<1>1. main \in MainRecord /\ Configurable \subseteq Module
  BY ParameterAssumption DEF TypeOK
<1>2. UNCHANGED <<runner, op, mod, mainStops, due, failures, stopped, releasing>>
  <2>1. ~Shutdown
    BY <1>1 DEF Shutdown, Serving, MainRecord
  <2> QED
    BY <2>1 DEF Start, StartCancelled, LaunchLoop, ReloadRejected, Reload, SelectPrepared,
           AllPrepared, ReloadDone, WaitLoop, WaitOps, DeadlineExceeded, Exit, Prepare,
           modules, control, env
<1>3. \A n \in Module : CalmFits(n)'
  BY <1>2, CalmFrame DEF Calm, SameCalm
<1>4. ASSUME NEW n \in Module PROVE InPlace(n)' /\ FragmentFits(n)' /\ CalmPlan'
  <2>1. InPlace(n) /\ FragmentFits(n) /\ CalmPlan
    BY DEF Calm
  <2>2. CASE Start
    <3>1. main.pc = "boot" /\ main'.pc = "bootStart" /\ main'.todo = EnabledSet
      BY <1>1, <2>2 DEF Start, Serving, MainRecord
    <3>2. CalmPlan'
      BY <1>2, <3>1 DEF CalmPlan, EnabledSet
    <3>3. InPlace(n)'
      BY <1>2, <2>1, <3>1 DEF InPlace, EnabledSet
    <3> QED
      BY <1>2, <2>1, <3>1, <3>2, <3>3 DEF FragmentFits
  <2>3. CASE StartCancelled \/ Shutdown \/ WaitLoop \/ WaitOps \/ DeadlineExceeded \/ Exit
    BY <1>1, <2>3
       DEF StartCancelled, Shutdown, WaitLoop, WaitOps, DeadlineExceeded, Exit, Serving, MainRecord
  <2>4. CASE LaunchLoop \/ ReloadDone
    BY <1>1, <1>2, <2>1, <2>4
       DEF LaunchLoop, ReloadDone, InPlace, FragmentFits, CalmPlan, EnabledSet, MainRecord
  <2>5. CASE ReloadRejected
    BY <1>1, <1>2, <2>1, <2>5
       DEF ReloadRejected, InPlace, FragmentFits, CalmPlan, EnabledSet, MainRecord
  <2>6. CASE Reload
    BY <1>1, <1>2, <2>1, <2>6
       DEF Reload, InPlace, FragmentFits, CalmPlan, EnabledSet, MainRecord
  <2>7. CASE SelectPrepared
    <3> DEFINE P == {m \in Configurable : Changed(m) /\ runner[m].state = "Running"}
    <3>1. main'.pc = "prepare" /\ main'.todo = P /\ main'.enabling = P /\ main.pc = "select"
      BY <1>1, <2>7 DEF SelectPrepared, MainRecord
    <3>2. P' = P
      BY <1>2, <2>7 DEF SelectPrepared, Changed
    <3> HIDE DEF P
    <3>3. CalmPlan'
      BY <3>1, <3>2 DEF CalmPlan, P
    <3> QED
      BY <1>2, <2>1, <3>1, <3>3 DEF InPlace, FragmentFits
  <2>8. CASE AllPrepared
    <3>1. /\ main'.pc = "commit" /\ main'.todo = main.enabling /\ main.pc = "prepare"
          /\ cand' = cand
      BY <1>1, <2>8 DEF AllPrepared, MainRecord
    <3>2. FragmentFits(n)'
      BY <1>2, <2>1, <3>1 DEF FragmentFits, CalmPlan, Changed
    <3> QED
      BY <1>2, <2>1, <3>1, <3>2 DEF InPlace, CalmPlan
  <2>9. ASSUME NEW m \in Module, Prepare(m) PROVE InPlace(n)' /\ FragmentFits(n)' /\ CalmPlan'
    <3>1. /\ main.pc = "prepare" /\ cand' = cand
          /\ \/ main'.pc = "prepare" /\ main'.enabling = main.enabling
             \/ main'.pc = "idle"
      BY <1>1, <2>9 DEF Prepare, MainRecord
    <3>2. CalmPlan'
      BY <1>1, <1>2, <2>1, <3>1 DEF CalmPlan, Changed
    <3> QED
      BY <1>2, <2>1, <3>1, <3>2 DEF InPlace, FragmentFits
  <2> QED
    BY <2>2, <2>3, <2>4, <2>5, <2>6, <2>7, <2>8, <2>9
<1>5. CalmPlan'
  <2>1. CASE Module = {}
    <3>1. Configurable = {} /\ main'.enabling = {} /\ main'.todo = {}
      BY <1>1, <2>1 DEF TypeOK, MainRecord
    <3> QED
      BY <3>1 DEF CalmPlan
  <2> QED
    BY <1>4, <2>1
<1> QED
  BY <1>2, <1>3, <1>4, <1>5 DEF Calm

\* A module that a step of the reload leaves alone.
LEMMA CalmAside ==
  ASSUME NEW n \in Module, SameCalm(n), InPlace(n), FragmentFits(n),
         main.pc \in {"reloadStop", "disable"}, main'.pc \in {"reloadStop", "disable"},
         main'.enabling = main.enabling, n \in main'.todo <=> n \in main.todo
  PROVE  InPlace(n)' /\ FragmentFits(n)'
  BY DEF SameCalm, InPlace, FragmentFits

\* The modules that the new configuration drops are stopped and marked one by one.
LEMMA CalmStop ==
  ASSUME ~Overrun, TypeOK, LeaseInv, CallInv, Calm, Serving, NEW m \in Module,
         StopModule(m) \/ StopModuleDone(m) \/ Disable(m)
  PROVE  Calm'
<1>1. /\ runner \in [Module -> RunnerRecord] /\ runner[m] \in RunnerRecord
      /\ mainStops \in [Module -> Nat] /\ mainStops[m] \in Nat /\ main \in MainRecord
      /\ "Stopped" \in State /\ "Disabled" \in State /\ NoModule # m
  BY ModuleAssumption DEF TypeOK, State
<1>2. InPlace(m) /\ CalmFits(m) /\ Fits(m) /\ MainPlace /\ CalmPlan
  BY DEF Calm, CallInv
<1>3. /\ main.pc \in {"reloadStop", "disable"} /\ FirstOf(m, main.todo, RegRank)
      /\ main.cur \in {m, NoModule} /\ (main.pc = "disable" => main.cur = NoModule)
  <2>1. CASE StopModule(m)
    BY <2>1 DEF StopModule, MainStops, Serving
  <2>2. CASE StopModuleDone(m)
    BY <1>1, <2>2, CalmFacts DEF StopModuleDone
  <2>3. CASE Disable(m)
    BY <2>3, <1>2 DEF Disable, MainPlace
  <2> QED
    BY <2>1, <2>2, <2>3
<1>4. m \in main.todo /\ ~runner[m].enabled /\ ~InFlight(m) /\ op[m].pc # "finish"
  BY <1>2, <1>3, CalmFacts DEF MainPlace, FirstOf, InFlight
<1>5. UNCHANGED <<op, mod, releasing, due, failures, stopped, cand>>
  BY DEF StopModule, StopModuleDone, Disable, modules, control, env
<1>6. \/ /\ Active(runner[m].state) /\ runner' = [runner EXCEPT ![m] = TakenDown(@)]
         /\ mainStops' = [mainStops EXCEPT ![m] = @ + 1]
         /\ main'.pc = main.pc /\ main'.todo = main.todo /\ main'.enabling = main.enabling
      \/ /\ UNCHANGED mainStops /\ mainStops[m] = 0 /\ runner[m].state # "Running"
         /\ \/ /\ \/ runner' = [runner EXCEPT ![m] = AtRest(@, "Stopped")]
                  \/ runner[m].state = "Disabled" /\ runner' = runner
               /\ main'.pc = "disable" /\ main'.todo = main.todo
            \/ /\ runner' = [runner EXCEPT ![m] = AtRest(@, "Disabled")]
               /\ main'.pc = "reloadStop" /\ main'.todo = main.todo \ {m}
         /\ main'.enabling = main.enabling
  <2>1. CASE StopModule(m)
    <3>1. main.cur = NoModule /\ main.pc = "reloadStop"
      BY <2>1 DEF StopModule, MainStops, Serving
    <3>2. mainStops[m] = 0
      BY <1>1, <1>2, <3>1 DEF Fits, Calm
    <3>3. CASE StopActive(m)
      <4>1. main' = [main EXCEPT !.cur = m, !.lease = runner[m].lease]
        BY <2>1, <3>3 DEF StopModule, StopActive, StopInactive
      <4> QED
        BY <1>1, <3>3, <4>1 DEF StopActive, MainRecord
    <3>4. CASE StopInactive(m)
      <4>1. main' = [main EXCEPT !.pc = "disable"]
        BY <2>1, <3>1, <3>4 DEF StopModule, StopActive, StopInactive
      <4>2. main'.pc = "disable" /\ main'.todo = main.todo /\ main'.enabling = main.enabling
        BY <1>1, <4>1 DEF MainRecord
      <4>3. runner[m].state \in {"Disabled", "Stopped"}
        BY <1>2, <1>4, <3>4 DEF InPlace, StopInactive, Active
      <4> QED
        BY <3>2, <3>4, <4>2, <4>3 DEF StopInactive
    <3> QED
      BY <2>1, <3>3, <3>4 DEF StopModule
  <2>2. CASE StopModuleDone(m)
    <3>1. mainStops[m] = 0 /\ main.cur = m
      BY <2>2 DEF StopModuleDone, StopWaitOver
    <3>2. runner[m].state # "Running" /\ main.pc = "reloadStop"
      BY <1>1, <1>2, <3>1, CalmFacts DEF Fits
    <3>3. main' = [main EXCEPT !.cur = NoModule, !.lease = FALSE, !.pc = "disable"]
      BY <2>2, <3>2 DEF StopModuleDone
    <3>4. main'.pc = "disable" /\ main'.todo = main.todo /\ main'.enabling = main.enabling
      BY <1>1, <3>3 DEF MainRecord
    <3> QED
      BY <2>2, <3>1, <3>2, <3>4 DEF StopModuleDone
  <2>3. CASE Disable(m)
    <3>1. main.pc = "disable" /\ mainStops[m] = 0
      BY <1>1, <1>2, <1>3, <2>3 DEF Disable, Fits, Calm
    <3>2. runner[m].state # "Running"
      BY <1>3, <3>1 DEF CallInv, DisablePlace, Active
    <3>3. /\ main'.pc = "reloadStop" /\ main'.todo = main.todo \ {m}
          /\ main'.enabling = main.enabling
      BY <1>1, <2>3 DEF Disable, MainRecord
    <3> QED
      BY <2>3, <3>1, <3>2, <3>3 DEF Disable, modules
  <2> QED
    BY <2>1, <2>2, <2>3
<1>7. \A n \in Module \ {m} : SameCalm(n)
  BY <1>1, <1>5, <1>6 DEF SameCalm
<1>8. runner'[m].enabled = runner[m].enabled
  BY <1>1, <1>6, RunnerFields
<1>9. EnabledSet' = EnabledSet
  BY <1>7, <1>8 DEF EnabledSet, SameCalm
<1>10. main'.pc \in {"reloadStop", "disable"} /\ main'.enabling = main.enabling
  BY <1>3, <1>6
<1>11. CalmPlan'
  BY <1>2, <1>3, <1>9, <1>10 DEF CalmPlan
<1>12. InPlace(m)' /\ FragmentFits(m)' /\ CalmFits(m)'
  <2>1. CASE Active(runner[m].state) /\ runner' = [runner EXCEPT ![m] = TakenDown(@)]
             /\ mainStops' = [mainStops EXCEPT ![m] = @ + 1] /\ main'.todo = main.todo
    <3>1. runner'[m].state = "Stopping" /\ mainStops'[m] > 0
      BY <1>1, <2>1, RunnerFields
    <3> QED
      BY <1>2, <1>4, <1>5, <1>8, <1>10, <2>1, <3>1 DEF InPlace, FragmentFits, CalmFits, InFlight
  <2>2. CASE UNCHANGED mainStops /\ mainStops[m] = 0 /\ runner[m].state # "Running"
    <3>1. \/ runner'[m].state \in {"Stopped", "Disabled"} /\ main'.todo = main.todo
          \/ runner'[m].state = "Disabled"
      BY <1>1, <1>6, <2>2, RunnerFields DEF Active
    <3>2. mod[m].run = "down"
      BY <1>1, <1>2, <1>4, <2>2 DEF CalmFits
    <3> QED
      BY <1>2, <1>4, <1>5, <1>8, <1>10, <2>2, <3>1, <3>2 DEF InPlace, FragmentFits, CalmFits, InFlight
  <2> QED
    BY <1>6, <2>1, <2>2
<1>13. ASSUME NEW n \in Module PROVE InPlace(n)' /\ FragmentFits(n)' /\ CalmFits(n)'
  <2>1. CASE n = m
    BY <1>12, <2>1
  <2>2. CASE n # m
    <3>1. SameCalm(n) /\ InPlace(n) /\ FragmentFits(n) /\ CalmFits(n)
      BY <1>7, <2>2 DEF Calm
    <3>2. n \in main'.todo <=> n \in main.todo
      BY <1>6, <2>2
    <3> QED
      BY <1>3, <1>10, <3>1, <3>2, CalmFrame, CalmAside
  <2> QED
    BY <2>1, <2>2
<1> QED
  BY <1>5, <1>11, <1>13 DEF Calm

\* The commit of a prepared module, the swap, and what it enables.
LEMMA CalmApply ==
  ASSUME ~Overrun, TypeOK, LeaseInv, CallInv, Calm, Serving, faults = 0, faults' = 0,
         Swap \/ Enable \/ \E m \in Module : Commit(m)
  PROVE  Calm'
<1>1. /\ runner \in [Module -> RunnerRecord] /\ mod \in [Module -> ModRecord]
      /\ main \in MainRecord
  BY DEF TypeOK
<1>2. main.pc \in {"commit", "reloadStop"}
  BY DEF Swap, Enable, Commit
<1>3. \A n \in Module : ~InFlight(n) /\ op[n].pc # "finish"
  BY <1>2, CalmFacts DEF InFlight
<1>4. CASE Swap
  <2>1. /\ main.pc = "commit" /\ main.todo = {} /\ main'.pc = "reloadStop"
        /\ main'.todo = EnabledSet \ cand.enabled /\ main'.enabling = cand.enabled \ EnabledSet
    BY <1>1, <1>4 DEF Swap, MainRecord
  <2>2. UNCHANGED <<op, mod, mainStops, releasing, due, failures, stopped, cand>>
    BY <1>4 DEF Swap, modules, env
  <2>3. ASSUME NEW n \in Module
        PROVE  /\ runner'[n].enabled = (n \in cand.enabled) /\ runner'[n].frag = cand.frag[n]
               /\ runner'[n].state = runner[n].state
    <3>1. runner'[n] = Swapped(n) /\ runner[n] \in RunnerRecord
      BY <1>1, <1>4 DEF Swap
    <3>2. runner[n].state \in {"Running", "Disabled"}
      BY <2>1 DEF Calm, InPlace
    <3>3. [runner[n] EXCEPT !.enabled = (n \in cand.enabled), !.frag = cand.frag[n]].state
            = runner[n].state
      BY <3>1 DEF RunnerRecord
    <3>4. runner'[n] = [runner[n] EXCEPT !.enabled = (n \in cand.enabled), !.frag = cand.frag[n]]
      BY <3>1, <3>2, <3>3 DEF Swapped
    <3> QED
      BY <3>1, <3>4 DEF RunnerRecord
  <2>4. CalmPlan'
    <3>1. \A n \in main'.enabling : n \in Module /\ runner'[n].enabled
      BY <2>1, <2>3 DEF TypeOK
    <3> QED
      BY <2>1, <3>1 DEF CalmPlan, EnabledSet
  <2>5. ASSUME NEW n \in Module PROVE InPlace(n)' /\ FragmentFits(n)' /\ CalmFits(n)'
    <3>1. InPlace(n) /\ FragmentFits(n) /\ CalmFits(n)
      BY DEF Calm
    <3>2. CASE runner[n].enabled
      <4>1. runner[n].state = "Running" /\ n \in EnabledSet
        BY <2>1, <3>1, <3>2 DEF InPlace, EnabledSet
      <4>2. InPlace(n)' /\ CalmFits(n)'
        BY <1>3, <2>1, <2>2, <2>3, <3>1, <4>1 DEF InPlace, CalmFits, InFlight
      <4>3. FragmentFits(n)'
        BY <2>1, <2>2, <2>3, <3>1, <3>2, <4>1 DEF FragmentFits
      <4> QED
        BY <4>2, <4>3
    <3>3. CASE ~runner[n].enabled
      <4>1. runner[n].state = "Disabled" /\ n \notin EnabledSet
        BY <2>1, <3>1, <3>3 DEF InPlace, EnabledSet
      <4> QED
        BY <1>3, <2>1, <2>2, <2>3, <3>1, <4>1 DEF InPlace, FragmentFits, CalmFits, InFlight
    <3> QED
      BY <3>2, <3>3
  <2> QED
    BY <2>2, <2>4, <2>5 DEF Calm
<1>5. CASE Enable
  <2>1. /\ main.pc = "reloadStop" /\ main.todo = {} /\ main'.pc = "reloadStart"
        /\ main'.todo = main.enabling
    BY <1>1, <1>5 DEF Enable, MainRecord
  <2>2. UNCHANGED <<op, mod, mainStops, releasing, due, failures, stopped, cand>>
    BY <1>5 DEF Enable, modules, env
  <2>3. ASSUME NEW n \in Module
        PROVE  /\ runner'[n].enabled = runner[n].enabled /\ runner'[n].frag = runner[n].frag
               /\ runner'[n].state = IF n \in main.enabling THEN "Stopped" ELSE runner[n].state
    <3>1. InPlace(n) /\ CalmPlan
      BY DEF Calm
    <3>2. n \in main.enabling => runner[n].state = "Disabled"
      BY <2>1, <3>1 DEF InPlace, CalmPlan, EnabledSet
    <3>3. /\ runner[n] \in RunnerRecord
          /\ runner'[n] = IF n \in main.enabling THEN [runner[n] EXCEPT !.state = "Stopped"]
                          ELSE runner[n]
      BY <1>1, <1>5, <3>2 DEF Enable
    <3> QED
      BY <3>3 DEF RunnerRecord
  <2>4. CalmPlan'
    <3>1. EnabledSet' = EnabledSet
      BY <2>3 DEF EnabledSet
    <3> QED
      BY <2>1, <3>1 DEF Calm, CalmPlan
  <2>5. ASSUME NEW n \in Module PROVE InPlace(n)' /\ FragmentFits(n)' /\ CalmFits(n)'
    <3>1. InPlace(n) /\ FragmentFits(n) /\ CalmFits(n) /\ CalmPlan
      BY DEF Calm
    <3>2. CASE n \in main.enabling
      <4>1. runner[n].enabled /\ runner[n].state = "Disabled"
        BY <2>1, <3>1, <3>2 DEF InPlace, CalmPlan, EnabledSet
      <4> QED
        BY <1>3, <2>1, <2>2, <2>3, <3>1, <3>2, <4>1 DEF InPlace, FragmentFits, CalmFits, InFlight
    <3>3. CASE n \notin main.enabling
      BY <1>3, <2>1, <2>2, <2>3, <3>1, <3>3 DEF InPlace, FragmentFits, CalmFits, InFlight
    <3> QED
      BY <3>2, <3>3
  <2> QED
    BY <2>2, <2>4, <2>5 DEF Calm
<1>6. ASSUME NEW m \in Module, Commit(m) PROVE Calm'
  <2>1. /\ main.pc = "commit" /\ main'.pc = "commit" /\ main'.todo = main.todo \ {m}
        /\ main'.enabling = main.enabling
    BY <1>1, <1>6 DEF Commit, MainRecord
  <2>2. /\ mod' = [mod EXCEPT ![m].frag = cand.frag[m]]
        /\ UNCHANGED <<runner, op, mainStops, releasing, due, failures, stopped, cand>>
    BY <1>6 DEF Commit
  <2>3. mod'[m].frag = cand.frag[m] /\ mod'[m].run = mod[m].run
    BY <1>1, <2>2 DEF ModRecord
  <2>4. \A n \in Module \ {m} : SameCalm(n)
    BY <1>1, <2>2 DEF SameCalm
  <2>5. CalmPlan'
    BY <2>1 DEF CalmPlan
  <2>6. ASSUME NEW n \in Module PROVE InPlace(n)' /\ FragmentFits(n)' /\ CalmFits(n)'
    <3>1. InPlace(n) /\ FragmentFits(n) /\ CalmFits(n)
      BY DEF Calm
    <3>2. CASE n = m
      BY <1>3, <2>1, <2>2, <2>3, <3>1, <3>2 DEF InPlace, FragmentFits, CalmFits, InFlight
    <3>3. CASE n # m
      <4>1. n \in main'.todo <=> n \in main.todo
        BY <2>1, <3>3
      <4> QED
        BY <2>1, <2>2, <2>4, <3>1, <3>3, <4>1, CalmFrame, CalmStays
    <3> QED
      BY <3>2, <3>3
  <2> QED
    BY <2>2, <2>5, <2>6 DEF Calm
<1> QED
  BY <1>4, <1>5, <1>6

\* startOnce of the next module is never refused: what it depends on is up.
LEMMA CalmStarts ==
  ASSUME ~Overrun, TypeOK, LeaseInv, CallInv, ShutdownInv, Calm, Serving,
         NEW m \in Module, StartOnce(m)
  PROVE  Calm'
<1>1. /\ runner \in [Module -> RunnerRecord] /\ runner[m] \in RunnerRecord
      /\ op \in [Module -> OpRecord] /\ main \in MainRecord /\ graph \in SUBSET Module
  BY DEF TypeOK
<1>2. /\ main.pc \in {"bootStart", "reloadStart"} /\ ~MainWaits
      /\ FirstOf(m, main.todo, StartRank[graph]) /\ m \in main.todo
  BY DEF StartOnce, FirstOf
<1>3. InPlace(m) /\ CalmFits(m) /\ CalmPlan /\ ~stopped
  BY DEF Calm
<1>4. ~InFlight(m)
  BY <1>2, <1>3 DEF MainWaits, CalmFits
<1>5. runner[m].enabled /\ runner[m].state \in {"Registered", "Stopped"}
  <2>1. runner[m].enabled
    BY <1>2, <1>3 DEF CalmPlan, EnabledSet
  <2> QED
    BY <1>2, <1>3, <1>4, <2>1, CalmFacts DEF InPlace
<1>6. Startable(m)
  BY <1>3, <1>4, <1>5 DEF Startable, CanTransition, Allowed
<1>7. ~DependencyDown(m)
  <2> SUFFICES ASSUME NEW d \in Dependencies(m) PROVE runner[d].state = "Running"
    BY DEF DependencyDown
  <2>1. graph = EnabledSet /\ Closed(graph)
    BY <1>2 DEF ShutdownInv, GraphPlace
  <2>2. m \in graph /\ d \in Deps[m] /\ d \in graph /\ d \in Module /\ runner[d].enabled
    BY <1>1, <2>1 DEF Dependencies, Closed, EnabledSet
  <2>3. StartRank[graph][d] < StartRank[graph][m]
    BY <1>1, <2>1, <2>2, StartRankAssumption
  <2>4. d \notin main.todo
    <3>1. StartRank[graph][d] \in Nat /\ StartRank[graph][m] \in Nat
      BY <1>1, <2>2, StartRankAssumption
    <3> QED
      BY <1>2, <2>3, <3>1 DEF FirstOf
  <2> QED
    BY <1>2, <2>2, <2>4 DEF Calm, InPlace
<1>8. /\ runner' = [runner EXCEPT ![m] = Claimed(@)]
      /\ op' = [op EXCEPT ![m] = StartOp(runner[m], "main")]
      /\ UNCHANGED <<main, mod, mainStops, releasing, due, failures, stopped, cand>>
  BY <1>6, <1>7 DEF StartOnce, ClaimStart, ClaimRefused, modules, env
<1>9. /\ runner'[m].enabled = runner[m].enabled /\ runner'[m].state = "Starting"
      /\ runner'[m].frag = runner[m].frag /\ runner'[m].gen = runner[m].gen + 1
  BY <1>1, <1>8 DEF Claimed, RunnerRecord
<1>10. /\ op'[m].pc = "admit" /\ op'[m].owner = "main" /\ op'[m].result = "ok"
       /\ op'[m].gen = runner[m].gen + 1 /\ op'[m].frag = runner[m].frag
  BY <1>1, <1>8 DEF StartOp, IdleOp
<1>11. mod[m].run = "down"
  <2>1. ~(main.cur = m)
    BY <1>2, CalmFacts, ModuleAssumption
  <2> QED
    BY <1>4, <1>5, <2>1, CalmFacts DEF InFlight
<1>12. \A n \in Module \ {m} : SameCalm(n)
  BY <1>1, <1>8 DEF SameCalm
<1>13. EnabledSet' = EnabledSet
  BY <1>9, <1>12 DEF EnabledSet, SameCalm
<1>14. CalmPlan'
  BY <1>2, <1>3, <1>8, <1>13 DEF CalmPlan
<1>15. ASSUME NEW n \in Module PROVE InPlace(n)' /\ FragmentFits(n)' /\ CalmFits(n)'
  <2>1. InPlace(n) /\ FragmentFits(n) /\ CalmFits(n)
    BY DEF Calm
  <2>2. CASE n = m
    <3>1. InPlace(n)' /\ FragmentFits(n)'
      BY <1>2, <1>5, <1>8, <1>9, <2>2 DEF InPlace, FragmentFits
    <3>2. CalmFits(n)'
      BY <1>8, <1>9, <1>10, <1>11, <2>2 DEF CalmFits, InFlight, Superseded
    <3> QED
      BY <3>1, <3>2
  <2>3. CASE n # m
    BY <1>8, <1>12, <2>1, <2>3, CalmFrame, CalmStays
  <2> QED
    BY <2>2, <2>3
<1> QED
  BY <1>8, <1>14, <1>15 DEF Calm

LEMMA CalmInit == Init => CalmInv
<1> SUFFICES ASSUME Init PROVE CalmInv
  OBVIOUS
<1>1. CalmPlan
  BY DEF CalmPlan, Init
<1>2. ASSUME NEW m \in Module PROVE InPlace(m) /\ FragmentFits(m) /\ CalmFits(m)
  <2>1. /\ runner[m].state = IF runner[m].enabled THEN "Registered" ELSE "Disabled"
        /\ op[m].pc = "idle" /\ mod[m].run = "down" /\ main.pc = "boot"
    <3>1. PICK E \in SUBSET Module : runner = [n \in Module |-> NewRunner(n \in E)]
      BY DEF Init
    <3>2. /\ runner[m].enabled = (m \in E)
          /\ runner[m].state = IF m \in E THEN "Registered" ELSE "Disabled"
      BY <3>1 DEF NewRunner
    <3> QED
      BY <3>2 DEF Init, IdleOp
  <2> QED
    BY <2>1 DEF InPlace, FragmentFits, CalmFits, InFlight
<1> QED
  BY <1>1, <1>2 DEF CalmInv, Calm, Init

\* A fault is never taken back, and main does not return from Shutdown.
LEMMA CalmBefore ==
  ASSUME TypeOK, CallInv, [Next]_vars
  PROVE  (faults' = 0 => faults = 0) /\ (Serving' => Serving)
<1>1. faults \in Nat /\ main \in MainRecord
  BY DEF TypeOK
<1>2. faults' \in {faults, faults + 1}
  <2>1. CASE UNCHANGED vars
    BY <2>1 DEF vars
  <2>2. CASE MainStep
    BY <2>2 DEF MainStep, Start, StartCancelled, LaunchLoop, ReloadRejected, Reload, SelectPrepared,
           AllPrepared, Swap, Enable, ReloadDone, Shutdown, WaitLoop, WaitOps, DeadlineExceeded, Exit,
           StartOnce, StopModule, StopModuleDone, Prepare, Commit, Disable, env
  <2>3. CASE LoopStep
    BY <2>3 DEF LoopStep, LoopScan, LoopClaim, HandleRuntimeFailure, LoopExit, env
  <2>4. ASSUME NEW m \in Module, OpStep(m) \/ ModuleReturns(m) \/ RetryDue(m) \/ ReportFailure(m)
        PROVE  faults' \in {faults, faults + 1}
    BY <2>4 DEF OpStep, ModuleReturns, Admit, FinishStart, AsyncRelease, DependentStopped, FailedStop,
           FailedStopped, StopForDependency, StartReturns, CleanupReturns, OpStopReturns,
           MainStopReturns, RetryDue, ReportFailure, env
  <2> QED
    BY <2>1, <2>2, <2>3, <2>4 DEF Next, Terminated
<1>3. Serving' => Serving
  <2> SUFFICES ASSUME ~Serving PROVE ~Serving'
    OBVIOUS
  <2>1. CASE main' = main
    BY <2>1 DEF Serving
  <2>2. CASE MainStep
    <3>1. CASE WaitLoop \/ WaitOps \/ DeadlineExceeded \/ Exit
      BY <1>1, <3>1 DEF WaitLoop, WaitOps, DeadlineExceeded, Exit, Serving, MainRecord
    <3>2. ASSUME NEW m \in Module, StopModule(m) PROVE ~Serving'
      BY <1>1, <3>2 DEF StopModule, MainStops, Serving, MainRecord
    <3>3. ASSUME NEW m \in Module, StopModuleDone(m) PROVE ~Serving'
      <4>1. main.pc = "stopAll"
        BY <3>3 DEF StopModuleDone, CallInv, MainPlace, Serving
      <4> QED
        BY <1>1, <3>3, <4>1 DEF StopModuleDone, Serving, MainRecord
    <3>4. /\ ~Start /\ ~StartCancelled /\ ~LaunchLoop /\ ~ReloadRejected /\ ~Reload
          /\ ~SelectPrepared /\ ~AllPrepared /\ ~Swap /\ ~Enable /\ ~ReloadDone /\ ~Shutdown
          /\ \A m \in Module : ~StartOnce(m) /\ ~Prepare(m) /\ ~Commit(m) /\ ~Disable(m)
      BY DEF Start, StartCancelled, LaunchLoop, ReloadRejected, Reload, SelectPrepared, AllPrepared,
             Swap, Enable, ReloadDone, Shutdown, StartOnce, Prepare, Commit, Disable, Serving
    <3> QED
      BY <2>2, <3>1, <3>2, <3>3, <3>4 DEF MainStep
  <2>3. ASSUME NEW m \in Module, FinishStart(m) PROVE ~Serving'
    BY <1>1, <2>3 DEF FinishStart, Serving, MainRecord
  <2>4. CASE LoopStep
    BY <2>1, <2>4 DEF LoopStep, LoopScan, LoopClaim, HandleRuntimeFailure, LoopExit
  <2>5. ASSUME NEW m \in Module, OpStep(m) \/ ModuleReturns(m) \/ RetryDue(m) \/ ReportFailure(m)
        PROVE  ~Serving'
    BY <2>1, <2>3, <2>5 DEF OpStep, ModuleReturns, Admit, AsyncRelease, DependentStopped, FailedStop,
           FailedStopped, StopForDependency, StartReturns, CleanupReturns, OpStopReturns,
           MainStopReturns, RetryDue, ReportFailure, control
  <2> QED
    BY <2>1, <2>2, <2>4, <2>5 DEF Next, Terminated, vars
<1> QED
  BY <1>1, <1>2, <1>3

LEMMA CalmNext ==
  ASSUME ~Overrun, TypeOK, TypeOK', LeaseInv, CallInv, ShutdownInv, CalmInv, [Next]_vars
  PROVE  CalmInv'
<1> SUFFICES ASSUME faults' = 0, Serving' PROVE Calm'
  BY DEF CalmInv
<1>1. faults = 0 /\ Serving /\ Calm
  BY CalmBefore DEF CalmInv
<1>2. CASE UNCHANGED vars
  BY <1>1, <1>2 DEF vars, Calm, CalmPlan, InPlace, FragmentFits, CalmFits, EnabledSet, Changed,
                    InFlight, Superseded
<1>3. CASE MainStep
  BY <1>1, <1>3, CalmMoves, CalmStop, CalmApply, CalmStarts DEF MainStep
<1>4. CASE LoopStep
  BY <1>1, <1>4, CalmLoop
<1>5. ASSUME NEW m \in Module, OpStep(m) \/ ModuleReturns(m) \/ RetryDue(m) \/ ReportFailure(m)
      PROVE  Calm'
  BY <1>1, <1>5, CalmOps
<1> QED
  BY <1>2, <1>3, <1>4, <1>5 DEF Next, Terminated

\* ReloadReconciles: where no call outlives its deadline, as long as nothing fails, every
\* reload ends with each module as the applied configuration says, whatever the graph, the
\* modules that can take a fragment and the reloads before it.
THEOREM ReloadsReconcile ==
  ASSUME ~Overrun
  PROVE  Spec => []ReloadReconciles
<1>1. Spec => [](TypeOK /\ LeaseInv /\ CallInv)
  BY CallInvariant
<1>2. TypeOK /\ CallInv /\ ShutdownInv /\ [Next]_vars => ShutdownInv'
  BY ShutdownNext
<1>3. /\ TypeOK /\ TypeOK' /\ LeaseInv /\ CallInv /\ ShutdownInv /\ CalmInv /\ [Next]_vars
        => CalmInv'
  BY CalmNext
<1>4. TypeOK /\ LeaseInv /\ CallInv /\ CalmInv => ReloadReconciles
  <2> SUFFICES ASSUME TypeOK, LeaseInv, CallInv, CalmInv, main.pc = "idle", faults = 0,
                      NEW m \in Module
               PROVE  IF runner[m].enabled
                        THEN /\ runner[m].state = "Running" /\ mod[m].run = "up"
                             /\ m \in Configurable => mod[m].frag = runner[m].frag
                        ELSE runner[m].state = "Disabled" /\ mod[m].run = "down"
    BY DEF ReloadReconciles
  <2>1. Serving /\ Calm
    BY DEF Serving, CalmInv
  <2>2. InPlace(m) /\ FragmentFits(m)
    BY <2>1 DEF Calm
  <2>3. ~InFlight(m) /\ main.cur = NoModule
    BY <2>1, CalmFacts
  <2> QED
    BY <2>1, <2>2, <2>3, CalmFacts, ModuleAssumption DEF InPlace, FragmentFits, InFlight
<1> QED
  BY <1>1, <1>2, <1>3, <1>4, ShutdownInit, CalmInit, PTL DEF Spec

=============================================================================
