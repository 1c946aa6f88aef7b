-------------------------- MODULE CollectorsProofs --------------------------
(***************************************************************************)
(* The collectors, for any number of starts, sweeps and versions of the    *)
(* settings: as long as every Stop outwaited its goroutine, a sweep owns   *)
(* its module, and one that is overdue is told.                            *)
(*                                                                         *)
(* The argument.  Every Stop outwaited its goroutine, so there is one that *)
(* is alive at most.  It alone starts sweeps and forgets them, and each    *)
(* module forgets a sweep that runs only when its goroutine is told to     *)
(* end.  So a sweep that runs is the one the goroutine waits for, or the   *)
(* one whose settled channel is kept, or of a goroutine told to end.       *)
(*                                                                         *)
(* And the supervisor's probes: a module's slot is taken exactly while one *)
(* goroutine asks it, and the agent is as well as its worst module.        *)
(***************************************************************************)
EXTENDS Collectors, HealthProbes, FiniteSetTheorems, NumberSets, TLAPS

Pc == {"unborn", "due", "calling", "expired", "waiting", "settling", "gone"}
SweepState == {"idle", "sweeping", "ok", "failed", "panicked"}

TypeInv ==
  /\ kind \in Kinds
  /\ mod \in [started : BOOLEAN, cancel : 0..MaxStarts, stalled : BOOLEAN, settled : 0..MaxSweeps,
              settings : Version, staged : Version, emitter : Version, signal : BOOLEAN]
  /\ health \in {"none", "ok", "failing"}
  /\ loop \in [Gen -> [pc : Pc, sweep : 0..MaxSweeps]]
  /\ cancelled \in SUBSET Gen
  /\ sweep \in [Sweep -> [state : SweepState, gen : 0..MaxStarts]]
  /\ stop \in 0..MaxStarts
  /\ timedOut \in BOOLEAN

Alive(g) == ~At(g, "unborn") /\ ~At(g, "gone")

\* The goroutine that is alive is the module's, or the one Stop waits for.
OneLoop ==
  /\ mod.started <=> mod.cancel # NoGen
  /\ mod.cancel \notin cancelled
  /\ stop # NoGen => stop \in cancelled /\ mod.cancel = NoGen
  /\ \A g \in Gen : At(g, "unborn") => g \notin cancelled /\ g # mod.cancel
  /\ ~timedOut => \A g \in Gen : Alive(g) => g \in {mod.cancel, stop}

Waits(g) == At(g, "calling") \/ At(g, "expired")

\* A goroutine that waits has a sweep of its own.
OwnSweep ==
  \A g \in Gen :
    /\ Waits(g) => /\ loop[g].sweep \in Sweep
                   /\ sweep[loop[g].sweep].gen = g /\ sweep[loop[g].sweep].state # "idle"
    /\ ~Waits(g) => loop[g].sweep = NoSweep
    /\ At(g, "expired") => kind = "process"

Keeps == {"process", "discovery", "host"}   \* the kinds that keep the settled channel
Lets == {"discovery", "host"}               \* those of them that let a cancelled sweep go

\* What is known of a sweep that runs, and of the one whose settled channel is kept.
SweepKnown ==
  /\ kind \notin Keeps => ~mod.stalled /\ mod.settled = NoSweep
  /\ kind \in Lets /\ mod.settled # NoSweep => mod.stalled
  /\ ~timedOut =>
       /\ \A g \in Gen : At(g, "calling") => ~mod.stalled /\ mod.settled = NoSweep
       /\ \A g \in Gen : At(g, "expired") => mod.settled = loop[g].sweep
       /\ kind \in Keeps \cup {"container"} =>
            \A w \in Sweeping : \/ w = mod.settled
                                \/ \E g \in Gen : Waits(g) /\ loop[g].sweep = w
                                \/ kind \in Lets /\ sweep[w].gen \in cancelled
       /\ mod.stalled => health = "failing"

Inv == TypeInv /\ OneLoop /\ OwnSweep /\ SweepKnown

\* As long as every Stop outwaited its goroutine, two goroutines that run are the same one.
LEMMA OneAlive ==
  ASSUME Inv, ~timedOut, NEW f \in Gen, NEW g \in Gen, Alive(f), Alive(g)
  PROVE  f = g
BY DEF Inv, TypeInv, OneLoop, Gen, NoGen

\* guard.Call takes a slot that nobody looks at.
LEMMA CallTakes ==
  ASSUME TypeInv, NEW g \in Gen, Call(g)
  PROVE  \E w \in Sweep :
           /\ sweep[w].state # "sweeping" /\ \A f \in Gen : loop[f].sweep # w
           /\ sweep' = [sweep EXCEPT ![w] = [state |-> "sweeping", gen |-> g]]
           /\ loop' = [loop EXCEPT ![g] = [pc |-> "calling", sweep |-> w]]
<1> DEFINE free == {w \in Sweep : sweep[w].state # "sweeping" /\ \A f \in Gen : loop[f].sweep # w}
           first == CHOOSE w \in free : \A u \in free : w <= u
<1>1. /\ free # {}
      /\ sweep' = [sweep EXCEPT ![first] = [state |-> "sweeping", gen |-> g]]
      /\ loop' = [loop EXCEPT ![g] = [pc |-> "calling", sweep |-> first]]
  BY DEF Call
<1>2. free \subseteq Nat
  BY CollectorAssumption DEF Sweep
<1>3. \E w \in free : \A u \in free : w <= u
  <2> HIDE DEF free
  <2> QED
    BY <1>1, <1>2, SmallestIn
<1>4. first \in free
  BY <1>3
<1> HIDE DEF first
<1> QED
  BY <1>1, <1>4

\* What is released runs no more, and nobody but g looked at it.
LEMMA ReleasedKeeps ==
  ASSUME TypeInv, NEW g \in Gen, NEW w \in 0..MaxSweeps
  PROVE  LET r == Released(w, g)
         IN /\ r \in [Sweep -> [state : SweepState, gen : 0..MaxStarts]]
            /\ \A u \in Sweep : r[u] = sweep[u] \/ (sweep[u].state # "sweeping" /\ r[u].state = "idle" /\ u = w)
            /\ \A f \in Gen \ {g} : loop[f].sweep \in Sweep => r[loop[f].sweep] = sweep[loop[f].sweep]
<1>1. CASE w = NoSweep \/ Overdue(w) \/ \E f \in Gen \ {g} : loop[f].sweep = w
  <2>1. Released(w, g) = sweep
    BY <1>1 DEF Released
  <2> QED
    BY <2>1 DEF TypeInv
<1>2. CASE ~(w = NoSweep \/ Overdue(w) \/ \E f \in Gen \ {g} : loop[f].sweep = w)
  <2>1. /\ Released(w, g) = [sweep EXCEPT ![w] = Idle]
        /\ w \in Sweep /\ sweep[w].state # "sweeping"
    BY <1>2, CollectorAssumption DEF Released, Overdue, NoSweep, Sweep
  <2>2. Idle \in [state : SweepState, gen : 0..MaxStarts] /\ Idle.state = "idle"
    BY CollectorAssumption DEF Idle, SweepState, NoGen
  <2>3. /\ Released(w, g) \in [Sweep -> [state : SweepState, gen : 0..MaxStarts]]
        /\ Released(w, g)[w] = Idle
        /\ \A u \in Sweep \ {w} : Released(w, g)[u] = sweep[u]
    BY <2>1, <2>2 DEF TypeInv
  <2> QED
    BY <1>2, <2>1, <2>2, <2>3
<1> QED
  BY <1>1, <1>2

\* A goroutine that has been born and has not ended goes on at another place.
LEMMA LoopMoves ==
  ASSUME TypeInv, OneLoop, NEW g \in Gen, NEW pc \in Pc \ {"unborn"}, Alive(g), NEW w \in 0..MaxSweeps,
         loop' = [loop EXCEPT ![g] = [pc |-> pc, sweep |-> w]],
         UNCHANGED <<mod.started, mod.cancel, cancelled, stop, timedOut>>
  PROVE  OneLoop' /\ loop' \in [Gen -> [pc : Pc, sweep : 0..MaxSweeps]]
<1>1. /\ loop' \in [Gen -> [pc : Pc, sweep : 0..MaxSweeps]]
      /\ \A f \in Gen : loop'[f].pc = (IF f = g THEN pc ELSE loop[f].pc)
  BY DEF TypeInv
<1>2. OneLoop'
  BY <1>1 DEF OneLoop, Alive, At
<1> QED
  BY <1>1, <1>2

\* Before the first Start there is neither a goroutine nor a sweep.
LEMMA InvInit == Init => Inv
<1> SUFFICES ASSUME Init PROVE Inv
  OBVIOUS
<1>1. TypeInv
  <2>1. /\ 0 \in 0..MaxStarts /\ 0 \in 0..MaxSweeps /\ 0 \in Version
        /\ Unborn \in [pc : Pc, sweep : 0..MaxSweeps]
        /\ Idle \in [state : SweepState, gen : 0..MaxStarts]
    BY CollectorAssumption DEF Unborn, Idle, Pc, SweepState, Version, NoSweep, NoGen
  <2>2. mod \in [started : BOOLEAN, cancel : 0..MaxStarts, stalled : BOOLEAN, settled : 0..MaxSweeps,
                settings : Version, staged : Version, emitter : Version, signal : BOOLEAN]
    BY <2>1 DEF Init, NoSweep, NoGen
  <2> HIDE DEF Unborn, Idle
  <2> QED
    BY <2>1, <2>2 DEF Init, TypeInv, NoGen
<1>2. \A g \in Gen : At(g, "unborn") /\ loop[g].sweep = NoSweep
  BY DEF Init, At, Unborn
<1>3. Sweeping = {}
  BY DEF Init, Sweeping, Idle
<1>4. \A g \in Gen : g # NoGen
  BY DEF Gen, NoGen
<1>5. OneLoop
  BY <1>2, <1>4 DEF Init, OneLoop, Alive, At, NoGen
<1> QED
  BY <1>1, <1>2, <1>3, <1>5 DEF Inv, Init, OwnSweep, SweepKnown, Waits, At, NoSweep

\* A sweep begins: the settled channel of none that runs is forgotten.
LEMMA CallKeeps ==
  ASSUME Inv, NEW g \in Gen, At(g, "due"), Call(g),
         UNCHANGED <<kind, health, cancelled, stop, timedOut>>,
         \/ /\ kind \in Keeps /\ ~Overdue(mod.settled)
            /\ mod' = [mod EXCEPT !.stalled = FALSE, !.settled = NoSweep]
         \/ kind \notin Keeps /\ mod' = [mod EXCEPT !.emitter = mod.settings]
         \/ kind \notin Keeps /\ mod' = mod
  PROVE  Inv'
<1>1. PICK w \in Sweep :
        /\ sweep[w].state # "sweeping" /\ \A f \in Gen : loop[f].sweep # w
        /\ sweep' = [sweep EXCEPT ![w] = [state |-> "sweeping", gen |-> g]]
        /\ loop' = [loop EXCEPT ![g] = [pc |-> "calling", sweep |-> w]]
  BY CallTakes DEF Inv
<1>2. /\ w \in 0..MaxSweeps /\ w # NoSweep /\ NoSweep \in 0..MaxSweeps
      /\ g \in 0..MaxStarts
  BY CollectorAssumption DEF Sweep, Gen, NoSweep
<1>3. /\ mod' \in [started : BOOLEAN, cancel : 0..MaxStarts, stalled : BOOLEAN, settled : 0..MaxSweeps,
                   settings : Version, staged : Version, emitter : Version, signal : BOOLEAN]
      /\ mod'.started = mod.started /\ mod'.cancel = mod.cancel
      /\ kind \in Keeps => mod'.stalled = FALSE /\ mod'.settled = NoSweep
      /\ kind \notin Keeps => mod'.stalled = mod.stalled /\ mod'.settled = mod.settled
  BY <1>2 DEF Inv, TypeInv
<1>4. OneLoop' /\ loop' \in [Gen -> [pc : Pc, sweep : 0..MaxSweeps]]
  BY <1>1, <1>2, <1>3, LoopMoves DEF Inv, Alive, At, Pc
<1>5. sweep' \in [Sweep -> [state : SweepState, gen : 0..MaxStarts]]
  BY <1>1, <1>2 DEF Inv, TypeInv, SweepState
<1>6. TypeInv'
  BY <1>3, <1>4, <1>5 DEF Inv, TypeInv
<1>7. /\ loop'[g] = [pc |-> "calling", sweep |-> w]
      /\ \A f \in Gen \ {g} : loop'[f] = loop[f]
      /\ sweep'[w] = [state |-> "sweeping", gen |-> g]
      /\ \A u \in Sweep \ {w} : sweep'[u] = sweep[u]
  BY <1>1 DEF Inv, TypeInv
<1>8. OwnSweep'
  BY <1>1, <1>7 DEF Inv, OwnSweep, Waits, At
<1>9. ASSUME ~timedOut, NEW f \in Gen, f # g
      PROVE  ~Waits(f) /\ ~At(f, "calling")' /\ ~At(f, "expired")'
  BY <1>7, <1>9, OneAlive DEF Alive, Waits, At
<1>10. /\ kind \notin Keeps => ~mod'.stalled /\ mod'.settled = NoSweep
       /\ kind \in Lets /\ mod'.settled # NoSweep => mod'.stalled
       /\ ~mod'.stalled /\ mod'.settled = NoSweep
  BY <1>3 DEF Inv, SweepKnown, Keeps, Lets
<1>11. ASSUME ~timedOut, kind \in Keeps \cup {"container"}, NEW u \in Sweeping'
       PROVE  (Waits(g) /\ loop[g].sweep = u)' \/ (kind \in Lets /\ sweep'[u].gen \in cancelled)
  <2>1. CASE u = w
    BY <2>1, <1>7 DEF Waits, At
  <2>2. CASE u # w
    <3>1. u \in Sweeping /\ sweep'[u] = sweep[u]
      BY <2>2, <1>7, <1>11 DEF Sweeping
    <3>2. ~Waits(g)
      BY DEF Waits, At
    <3>3. u # mod.settled
      <4>1. u # NoSweep /\ sweep[u].state = "sweeping"
        BY <3>1 DEF Sweeping, Sweep, NoSweep
      <4> QED
        BY <4>1, <1>11 DEF Overdue, Inv, SweepKnown, Keeps
    <3> QED
      BY <3>1, <3>2, <3>3, <1>9, <1>11 DEF Inv, SweepKnown
  <2> QED
    BY <2>1, <2>2
<1>12. SweepKnown'
  BY <1>7, <1>9, <1>10, <1>11 DEF SweepKnown, At
<1> QED
  BY <1>4, <1>6, <1>8, <1>12 DEF Inv

ModType == [started : BOOLEAN, cancel : 0..MaxStarts, stalled : BOOLEAN, settled : 0..MaxSweeps,
            settings : Version, staged : Version, emitter : Version, signal : BOOLEAN]

\* The goroutine goes on without a sweep.
LEMMA QuietMove ==
  ASSUME Inv, NEW g \in Gen, Alive(g), ~Waits(g),
         NEW pc \in {"due", "waiting", "settling", "gone"}, GoTo(g, pc),
         UNCHANGED <<kind, health, cancelled, sweep, stop, timedOut>>,
         mod' \in ModType,
         UNCHANGED <<mod.started, mod.cancel, mod.stalled, mod.settled>>
  PROVE  Inv'
<1>1. OneLoop' /\ loop' \in [Gen -> [pc : Pc, sweep : 0..MaxSweeps]]
  <2>1. NoSweep \in 0..MaxSweeps /\ pc \in Pc \ {"unborn"}
    BY CollectorAssumption DEF NoSweep, Pc
  <2> QED
    BY <2>1, LoopMoves DEF Inv, GoTo
<1>2. /\ loop'[g] = [pc |-> pc, sweep |-> NoSweep]
      /\ \A f \in Gen \ {g} : loop'[f] = loop[f]
  BY DEF Inv, TypeInv, GoTo
<1>3. TypeInv'
  BY <1>1 DEF Inv, TypeInv, ModType
<1>4. /\ \A f \in Gen : Waits(f)' <=> Waits(f)
      /\ \A f \in Gen : At(f, "calling")' <=> At(f, "calling")
      /\ \A f \in Gen : At(f, "expired")' <=> At(f, "expired")
      /\ \A f \in Gen : loop'[f].sweep = loop[f].sweep
  BY <1>2 DEF Inv, OwnSweep, Waits, At
<1>5. OwnSweep'
  BY <1>4 DEF Inv, OwnSweep
<1>6. SweepKnown'
  BY <1>4 DEF Inv, SweepKnown, Sweeping
<1> QED
  BY <1>1, <1>3, <1>5, <1>6 DEF Inv

\* What the waiting goroutine's end of its wait has in common.
LEMMA WaitEnds ==
  ASSUME Inv, NEW g \in Gen, Waits(g), GoTo(g, "waiting"),
         UNCHANGED <<kind, cancelled, stop, timedOut>>,
         mod' \in ModType, UNCHANGED <<mod.started, mod.cancel>>, health' \in {"ok", "failing"},
         sweep' \in {sweep, Released(loop[g].sweep, g)}
  PROVE  /\ TypeInv' /\ OneLoop' /\ OwnSweep'
         /\ ~timedOut => \A f \in Gen : ~Waits(f)'
         /\ \A u \in Sweeping' : u \in Sweeping /\ sweep'[u] = sweep[u]
         /\ ~timedOut => \A f \in Gen : Waits(f) => f = g
<1> DEFINE w == loop[g].sweep
<1>1. OneLoop' /\ loop' \in [Gen -> [pc : Pc, sweep : 0..MaxSweeps]]
  <2>1. NoSweep \in 0..MaxSweeps /\ "waiting" \in Pc \ {"unborn"} /\ Alive(g)
    BY CollectorAssumption DEF NoSweep, Pc, Alive, Waits, At
  <2> QED
    BY <2>1, LoopMoves DEF Inv, GoTo
<1>2. /\ loop'[g] = [pc |-> "waiting", sweep |-> NoSweep]
      /\ \A f \in Gen \ {g} : loop'[f] = loop[f]
  BY DEF Inv, TypeInv, GoTo
<1>3. w \in Sweep /\ w \in 0..MaxSweeps
  BY CollectorAssumption DEF Inv, OwnSweep, TypeInv
<1>4. /\ sweep' \in [Sweep -> [state : SweepState, gen : 0..MaxStarts]]
      /\ \A u \in Sweep : sweep'[u] = sweep[u] \/ (sweep[u].state # "sweeping" /\ sweep'[u].state = "idle")
      /\ \A f \in Gen \ {g} : loop[f].sweep \in Sweep => sweep'[loop[f].sweep] = sweep[loop[f].sweep]
  <2>1. CASE sweep' = sweep
    BY <2>1 DEF Inv, TypeInv
  <2>2. CASE sweep' = Released(w, g)
    BY <2>2, <1>3, ReleasedKeeps DEF Inv
  <2> QED
    BY <2>1, <2>2
<1>5. TypeInv'
  BY <1>1, <1>4 DEF Inv, TypeInv, ModType
<1>6. OwnSweep'
  BY <1>2, <1>4 DEF Inv, OwnSweep, Waits, At, NoSweep
<1>7. ~timedOut => \A f \in Gen : Waits(f) => f = g
  BY OneAlive DEF Alive, Waits, At
<1>8. ~timedOut => \A f \in Gen : ~Waits(f)'
  BY <1>2, <1>7 DEF Waits, At
<1>9. \A u \in Sweeping' : u \in Sweeping /\ sweep'[u] = sweep[u]
  BY <1>4 DEF Sweeping
<1> QED
  BY <1>1, <1>5, <1>6, <1>7, <1>8, <1>9

\* recordResult of the process module: the wait is over and the slot is free, or the sweep
\* was abandoned and is the settled one.
LEMMA RecordProcessKeeps ==
  ASSUME Inv, NEW g \in Gen, RecordProcess(g)
  PROVE  Inv'
<1> DEFINE w == loop[g].sweep
<1>1. /\ Waits(g) /\ kind = "process" /\ GoTo(g, "waiting")
      /\ UNCHANGED <<kind, cancelled, stop, timedOut>>
  BY DEF RecordProcess, Returned, Waits
<1>2. /\ w \in Sweep /\ w \in 0..MaxSweeps /\ w # NoSweep /\ NoSweep \in 0..MaxSweeps
  BY <1>1, CollectorAssumption DEF Inv, OwnSweep, TypeInv, Sweep, NoSweep
<1>3. /\ mod' \in ModType /\ mod'.started = mod.started /\ mod'.cancel = mod.cancel
      /\ health' \in {"ok", "failing"} /\ sweep' \in {sweep, Released(w, g)}
      /\ OutcomeAtHand(g) => mod'.settled = NoSweep /\ ~mod'.stalled
      /\ ~OutcomeAtHand(g) => mod'.settled = w /\ mod'.stalled /\ health' = "failing"
  BY <1>2 DEF RecordProcess, Inv, TypeInv, ModType, OutcomeAtHand
<1>4. /\ TypeInv' /\ OneLoop' /\ OwnSweep'
      /\ ~timedOut => \A f \in Gen : ~Waits(f)'
      /\ \A u \in Sweeping' : u \in Sweeping /\ sweep'[u] = sweep[u]
      /\ ~timedOut => \A f \in Gen : Waits(f) => f = g
  BY <1>1, <1>3, WaitEnds
<1>5. ASSUME ~timedOut, NEW u \in Sweeping'
      PROVE  u = mod'.settled
  <2>1. u \in Sweeping /\ w = u
    <3>1. \A f \in Gen : Waits(f) => f = g
      BY <1>4, <1>5
    <3>2. u = mod.settled \/ w = u
      BY <1>1, <1>4, <1>5, <3>1 DEF Inv, SweepKnown, Keeps, Lets
    <3>3. At(g, "calling") => mod.settled = NoSweep
      BY <1>5 DEF Inv, SweepKnown
    <3>4. At(g, "expired") => mod.settled = w
      BY <1>5 DEF Inv, SweepKnown
    <3>5. u \in Sweeping /\ u # NoSweep
      BY <1>4, <1>5 DEF Sweeping, Sweep, NoSweep
    <3> QED
      BY <1>1, <3>2, <3>3, <3>4, <3>5 DEF Waits
  <2>2. ~OutcomeAtHand(g)
    BY <2>1 DEF OutcomeAtHand, Outcome, Sweeping
  <2> QED
    BY <2>1, <2>2, <1>3
<1>6. SweepKnown'
  <2>1. ~timedOut => \A f \in Gen : ~At(f, "calling")' /\ ~At(f, "expired")'
    BY <1>4 DEF Waits, At
  <2> QED
    BY <1>1, <1>3, <1>5, <2>1 DEF SweepKnown, Keeps, Lets
<1> QED
  BY <1>4, <1>6 DEF Inv

\* The wait for a sweep ends in a module of another kind.
LEMMA WaitEndsElsewhere ==
  ASSUME Inv, NEW g \in Gen,
         ExpireDiscovery(g) \/ MarkStalled(g) \/ RecordDiscovery(g) \/ FinishHost(g)
           \/ CollectedContainer(g) \/ ProbeOne(g)
  PROVE  Inv'
<1> DEFINE w == loop[g].sweep
<1>1. /\ At(g, "calling") /\ Waits(g) /\ kind # "process" /\ GoTo(g, "waiting")
      /\ UNCHANGED <<kind, cancelled, stop, timedOut>> /\ health' \in {"ok", "failing"}
  BY DEF ExpireDiscovery, MarkStalled, RecordDiscovery, FinishHost, CollectedContainer, ProbeOne, Recorded,
         Returned, Expired, DeadlineExceeded, Canceled, Waits
<1>2. /\ w \in Sweep /\ w \in 0..MaxSweeps /\ w # NoSweep
  BY <1>1, CollectorAssumption DEF Inv, OwnSweep, TypeInv, Sweep, NoSweep
\* It is over, or it is kept, or it is let go, or nobody ever knew.
<1>3. \/ sweep[w].state # "sweeping" /\ mod' = mod /\ sweep' = Released(w, g)
      \/ /\ kind \in Lets /\ sweep' = sweep /\ health' = "failing"
         /\ mod' = [mod EXCEPT !.stalled = TRUE, !.settled = w]
      \/ kind \in Lets /\ sweep' = sweep /\ mod' = mod /\ g \in cancelled /\ health' = "failing"
      \/ kind \notin Keeps \cup {"container"} /\ sweep' = sweep /\ mod' = mod
  BY <1>2 DEF ExpireDiscovery, MarkStalled, RecordDiscovery, FinishHost, CollectedContainer, ProbeOne,
         Recorded, Returned, Stalled, Canceled, Overdue, Lets, Keeps
<1>4. /\ mod' \in ModType /\ mod'.started = mod.started /\ mod'.cancel = mod.cancel
      /\ sweep' \in {sweep, Released(w, g)}
  BY <1>2, <1>3 DEF Inv, TypeInv, ModType
<1>5. /\ TypeInv' /\ OneLoop' /\ OwnSweep'
      /\ ~timedOut => \A f \in Gen : ~Waits(f)'
      /\ \A u \in Sweeping' : u \in Sweeping /\ sweep'[u] = sweep[u]
      /\ ~timedOut => \A f \in Gen : Waits(f) => f = g
  BY <1>1, <1>4, WaitEnds
<1>6. ~timedOut => ~mod.stalled /\ mod.settled = NoSweep
  BY <1>1 DEF Inv, SweepKnown
<1>7. sweep[w].gen = g
  BY <1>1 DEF Inv, OwnSweep
<1>8. ASSUME ~timedOut, kind \in Keeps \cup {"container"}, NEW u \in Sweeping'
      PROVE  u = mod'.settled \/ (kind \in Lets /\ sweep'[u].gen \in cancelled)
  <2>1. u \in Sweeping /\ sweep'[u] = sweep[u] /\ u # NoSweep
    BY <1>5 DEF Sweeping, Sweep, NoSweep
  <2>2. w = u \/ (kind \in Lets /\ sweep[u].gen \in cancelled)
    BY <2>1, <1>5, <1>6, <1>8 DEF Inv, SweepKnown
  <2>3. CASE w = u
    BY <2>1, <2>3, <1>2, <1>3, <1>7, <1>8 DEF Sweeping, Inv, TypeInv, Keeps, Lets
  <2> QED
    BY <2>1, <2>2, <2>3
<1>9. /\ kind \notin Keeps => ~mod'.stalled /\ mod'.settled = NoSweep
      /\ kind \in Lets /\ mod'.settled # NoSweep => mod'.stalled
      /\ ~timedOut /\ mod'.stalled => health' = "failing"
  BY <1>3, <1>6 DEF Inv, TypeInv, SweepKnown, Keeps, Lets
<1>10. SweepKnown'
  <2>1. ~timedOut => \A f \in Gen : ~At(f, "calling")' /\ ~At(f, "expired")'
    BY <1>5 DEF Waits, At
  <2> QED
    BY <1>1, <1>8, <1>9, <2>1 DEF SweepKnown
<1> QED
  BY <1>5, <1>10 DEF Inv

\* The process module's deadline: the sweep stays out, and the module says that it fails.
LEMMA ExpireProcessKeeps ==
  ASSUME Inv, NEW g \in Gen, ExpireProcess(g)
  PROVE  Inv'
<1> DEFINE w == loop[g].sweep
<1>1. /\ At(g, "calling") /\ kind = "process"
      /\ mod' = [mod EXCEPT !.settled = w] /\ loop' = [loop EXCEPT ![g].pc = "expired"]
      /\ UNCHANGED <<kind, health, cancelled, sweep, stop, timedOut>>
  BY DEF ExpireProcess, Expired
<1>2. w \in Sweep /\ w \in 0..MaxSweeps
  BY <1>1 DEF Inv, OwnSweep, TypeInv, Waits
<1>3. /\ loop' = [loop EXCEPT ![g] = [pc |-> "expired", sweep |-> w]]
      /\ loop'[g] = [pc |-> "expired", sweep |-> w]
      /\ \A f \in Gen \ {g} : loop'[f] = loop[f]
  <2>1. [loop[g] EXCEPT !.pc = "expired"] = [pc |-> "expired", sweep |-> w]
    BY DEF Inv, TypeInv
  <2>2. loop' = [loop EXCEPT ![g] = [loop[g] EXCEPT !.pc = "expired"]]
    BY <1>1
  <2> QED
    BY <2>1, <2>2 DEF Inv, TypeInv
<1>4. /\ mod' \in ModType /\ mod'.started = mod.started /\ mod'.cancel = mod.cancel
      /\ mod'.stalled = mod.stalled /\ mod'.settled = w
  BY <1>1, <1>2 DEF Inv, TypeInv, ModType
<1>5. OneLoop' /\ loop' \in [Gen -> [pc : Pc, sweep : 0..MaxSweeps]]
  <2>1. TypeInv /\ OneLoop /\ Alive(g) /\ "expired" \in Pc \ {"unborn"}
    BY <1>1 DEF Inv, Alive, At, Pc
  <2> HIDE DEF w
  <2> QED
    BY <1>1, <1>2, <1>3, <1>4, <2>1, LoopMoves
<1>6. TypeInv'
  BY <1>1, <1>4, <1>5 DEF Inv, TypeInv, ModType
<1>7. \A f \in Gen : Waits(f)' <=> Waits(f)
  BY <1>1, <1>3 DEF Waits, At
<1>8. OwnSweep'
  BY <1>1, <1>3, <1>7 DEF Inv, OwnSweep, At
<1>9. ASSUME ~timedOut, NEW f \in Gen, Waits(f)
      PROVE  f = g
  BY <1>1, <1>9, OneAlive DEF Alive, Waits, At
<1>10. ASSUME ~timedOut, NEW u \in Sweeping'
       PROVE  u = mod'.settled
  <2>1. u \in Sweeping /\ u # NoSweep
    BY <1>1, <1>10 DEF Sweeping, Sweep, NoSweep
  <2>2. mod.settled = NoSweep
    BY <1>1, <1>10 DEF Inv, SweepKnown
  <2> QED
    BY <1>1, <1>4, <1>9, <1>10, <2>1, <2>2 DEF Inv, SweepKnown, Keeps, Lets
<1>11. SweepKnown'
  <2>1. ~timedOut => ~mod.stalled
    BY <1>1 DEF Inv, SweepKnown
  <2>2. ~timedOut => \A f \in Gen : ~At(f, "calling")'
    BY <1>3, <1>9 DEF Waits, At
  <2>3. ~timedOut => \A f \in Gen : At(f, "expired")' => f = g
    BY <1>3, <1>9 DEF Waits, At
  <2> QED
    BY <1>1, <1>3, <1>4, <1>10, <2>1, <2>2, <2>3 DEF SweepKnown, Keeps, Lets
<1> QED
  BY <1>5, <1>6, <1>8, <1>11 DEF Inv

\* A sweep of the process module that runs is the one that is settled, if no goroutine waits.
LEMMA ProcessSweeps ==
  ASSUME Inv, ~timedOut, kind = "process", \A f \in Gen : ~Waits(f), NEW u \in Sweeping
  PROVE  u = mod.settled
BY DEF Inv, SweepKnown, Keeps, Lets

\* The process module takes new settings only when no sweep is out.
LEMMA ApplyProcessKeeps ==
  ASSUME Inv, NEW g \in Gen, ApplyProcess(g)
  PROVE  Inv' /\ (~timedOut => Sweeping = {})
<1> DEFINE w == mod.settled
<1>1. /\ kind = "process" /\ At(g, "settling") /\ ~Overdue(w) /\ GoTo(g, "due")
      /\ sweep' = Released(w, g)
      /\ mod' = [mod EXCEPT !.settled = NoSweep, !.stalled = IF mod.settled = NoSweep THEN @ ELSE FALSE,
                            !.emitter = mod.settings]
      /\ UNCHANGED <<kind, health, cancelled, stop, timedOut>>
  BY DEF ApplyProcess, AwaitSettled
<1>2. /\ w \in 0..MaxSweeps /\ NoSweep \in 0..MaxSweeps
      /\ sweep' \in [Sweep -> [state : SweepState, gen : 0..MaxStarts]]
      /\ \A u \in Sweep : sweep'[u] = sweep[u] \/ (sweep[u].state # "sweeping" /\ sweep'[u].state = "idle")
      /\ \A f \in Gen \ {g} : loop[f].sweep \in Sweep => sweep'[loop[f].sweep] = sweep[loop[f].sweep]
  <2>1. w \in 0..MaxSweeps /\ NoSweep \in 0..MaxSweeps
    BY CollectorAssumption DEF Inv, TypeInv, NoSweep
  <2> QED
    BY <1>1, <2>1, ReleasedKeeps DEF Inv
<1>3. /\ mod' \in ModType /\ mod'.started = mod.started /\ mod'.cancel = mod.cancel
      /\ mod'.settled = NoSweep /\ (mod'.stalled => mod.stalled)
  BY <1>1, <1>2 DEF Inv, TypeInv, ModType
<1>4. /\ loop'[g] = [pc |-> "due", sweep |-> NoSweep]
      /\ \A f \in Gen \ {g} : loop'[f] = loop[f]
  BY <1>1 DEF Inv, TypeInv, GoTo
<1>5. OneLoop' /\ loop' \in [Gen -> [pc : Pc, sweep : 0..MaxSweeps]]
  BY <1>1, <1>2, <1>3, LoopMoves DEF Inv, GoTo, Alive, At, Pc
<1>6. TypeInv'
  BY <1>1, <1>2, <1>3, <1>5 DEF Inv, TypeInv, ModType
<1>7. OwnSweep'
  BY <1>1, <1>2, <1>4 DEF Inv, OwnSweep, Waits, At, NoSweep
<1>8. ASSUME ~timedOut, NEW f \in Gen
      PROVE  ~Waits(f) /\ ~At(f, "calling")' /\ ~At(f, "expired")'
  BY <1>1, <1>4, <1>8, OneAlive DEF Alive, Waits, At
<1>9. ~timedOut => Sweeping = {}
  <2> SUFFICES ASSUME ~timedOut, NEW u \in Sweeping PROVE FALSE
    OBVIOUS
  <2>1. u = w
    BY <1>1, <1>8, ProcessSweeps
  <2> QED
    BY <1>1, <2>1 DEF Overdue, Sweeping, Sweep, NoSweep
<1>10. ~timedOut => Sweeping' = {}
  BY <1>2, <1>9 DEF Sweeping
<1>11. SweepKnown'
  BY <1>1, <1>3, <1>8, <1>10 DEF Inv, SweepKnown, Keeps, Lets
<1> QED
  BY <1>5, <1>6, <1>7, <1>9, <1>11 DEF Inv

\* A sweep returns, and is no longer one that somebody must know of.
LEMMA SweepReturnsKeeps ==
  ASSUME Inv, NEW w \in Sweep, SweepReturns(w)
  PROVE  Inv'
<1>1. PICK s \in {"ok", "failed", "panicked"} :
        sweep' = [sweep EXCEPT ![w] = IF Awaited(w) THEN [sweep[w] EXCEPT !.state = s] ELSE Idle]
  BY DEF SweepReturns
<1>2. UNCHANGED <<kind, mod, health, loop, cancelled, stop, timedOut>>
  BY DEF SweepReturns
<1>3. Idle \in [state : SweepState, gen : 0..MaxStarts] /\ Idle.state = "idle"
  BY CollectorAssumption DEF Idle, SweepState, NoGen
<1>4. /\ sweep' \in [Sweep -> [state : SweepState, gen : 0..MaxStarts]]
      /\ sweep'[w].state # "sweeping"
      /\ Awaited(w) => sweep'[w].gen = sweep[w].gen /\ sweep'[w].state # "idle"
      /\ \A u \in Sweep \ {w} : sweep'[u] = sweep[u]
  <2> HIDE DEF Idle
  <2> QED
    BY <1>1, <1>3 DEF Inv, TypeInv, SweepState
<1>5. TypeInv'
  BY <1>2, <1>4 DEF Inv, TypeInv
<1>6. OneLoop'
  BY <1>2 DEF Inv, OneLoop, Alive, At
<1>7. OwnSweep'
  BY <1>2, <1>4 DEF Inv, OwnSweep, Awaited, Waits, At
<1>8. \A u \in Sweeping' : u \in Sweeping /\ sweep'[u] = sweep[u]
  BY <1>4 DEF Sweeping
<1>9. SweepKnown'
  BY <1>2, <1>8 DEF Inv, SweepKnown, Waits, At
<1> QED
  BY <1>5, <1>6, <1>7, <1>9 DEF Inv

\* A sweep is begun, or the place of one that is still out is kept.
LEMMA CollectKeeps ==
  ASSUME Inv, NEW g \in Gen,
         CollectProcess(g) \/ CollectDiscovery(g) \/ CollectHost(g) \/ CollectLogs(g)
           \/ ProbeAll(g) \/ CollectContainer(g)
  PROVE  Inv'
<1>1. At(g, "due") /\ Alive(g) /\ ~Waits(g) /\ UNCHANGED <<kind, health, cancelled, stop, timedOut>>
  BY DEF CollectProcess, CollectDiscovery, CollectHost, CollectUnlessStalled, CollectLogs, ProbeAll,
         CollectContainer, Alive, Waits, At
<1>2. \/ GoTo(g, "waiting") /\ UNCHANGED <<mod, sweep>>
      \/ /\ Call(g)
         /\ \/ /\ kind \in Keeps /\ ~Overdue(mod.settled)
               /\ mod' = [mod EXCEPT !.stalled = FALSE, !.settled = NoSweep]
            \/ kind \notin Keeps /\ mod' = [mod EXCEPT !.emitter = mod.settings]
            \/ kind \notin Keeps /\ mod' = mod
  <2>1. CASE CollectProcess(g)
    <3>1. mod' = [mod EXCEPT !.settled = NoSweep, !.stalled = FALSE]
             => mod' = [mod EXCEPT !.stalled = FALSE, !.settled = NoSweep]
      BY DEF Inv, TypeInv
    <3> QED
      BY <2>1, <3>1 DEF CollectProcess, Keeps
  <2>2. CASE CollectDiscovery(g) \/ CollectHost(g)
    <3>1. ~(mod.stalled /\ Overdue(mod.settled)) => ~Overdue(mod.settled)
      BY <2>2 DEF CollectDiscovery, CollectHost, Inv, SweepKnown, Lets, Overdue
    <3> QED
      BY <2>2, <3>1 DEF CollectDiscovery, CollectHost, CollectUnlessStalled, Keeps
  <2>3. CASE CollectLogs(g) \/ ProbeAll(g) \/ CollectContainer(g)
    BY <2>3 DEF CollectLogs, ProbeAll, CollectContainer, Keeps
  <2> QED
    BY <2>1, <2>2, <2>3
<1>3. CASE Call(g)
  BY <1>1, <1>2, <1>3, CallKeeps, QuietMove DEF Inv, TypeInv, ModType
<1>4. CASE GoTo(g, "waiting") /\ UNCHANGED <<mod, sweep>>
  <2>1. mod' \in ModType /\ UNCHANGED <<mod.started, mod.cancel, mod.stalled, mod.settled>>
    BY <1>4 DEF Inv, TypeInv, ModType
  <2> QED
    BY <1>1, <1>4, <2>1, QuietMove
<1> QED
  BY <1>2, <1>3, <1>4

\* The steps of the loop that only move it, and tell the emitter.
LEMMA LoopKeeps ==
  ASSUME Inv, NEW g \in Gen,
         ReconfigureProcess(g) \/ ReconfigureDiscovery(g) \/ ReconfigureHost(g) \/ ReconfigureLogs(g)
           \/ Due(g) \/ Leave(g)
  PROVE  Inv'
<1>1. /\ At(g, "waiting") /\ Alive(g) /\ ~Waits(g)
      /\ UNCHANGED <<kind, health, cancelled, sweep, stop, timedOut>>
      /\ \E pc \in {"due", "waiting", "settling", "gone"} : GoTo(g, pc)
  BY DEF ReconfigureProcess, ReconfigureDiscovery, ReconfigureHost, Reconfigured, ReconfigureLogs, Due, Leave,
         Alive, Waits, At
<1>2. \/ mod' = mod
      \/ mod' = [mod EXCEPT !.signal = FALSE]
      \/ mod' = [mod EXCEPT !.signal = FALSE, !.emitter = mod.settings]
  BY DEF ReconfigureProcess, ReconfigureDiscovery, ReconfigureHost, Reconfigured, ReconfigureLogs, Due, Leave
<1>3. mod' \in ModType /\ UNCHANGED <<mod.started, mod.cancel, mod.stalled, mod.settled>>
  BY <1>2 DEF Inv, TypeInv, ModType
<1> QED
  BY <1>1, <1>3, QuietMove

\* Start: a new goroutine, and if every Stop outwaited its own, the only one.
LEMMA StartKeeps ==
  ASSUME Inv, NEW g \in Gen, NEW v \in Version, Start(g, v)
  PROVE  Inv'
<1>1. /\ stop = NoGen /\ ~mod.started /\ At(g, "unborn")
      /\ mod' = [mod EXCEPT !.started = TRUE, !.cancel = g, !.settings = v, !.emitter = v, !.signal = FALSE]
      /\ GoTo(g, "due")
      /\ UNCHANGED <<kind, health, cancelled, sweep, stop, timedOut>>
  BY DEF Start
<1>2. g \in 0..MaxStarts /\ g # NoGen /\ NoSweep \in 0..MaxSweeps
  BY CollectorAssumption DEF Gen, NoGen, NoSweep
<1>3. /\ mod' \in ModType /\ mod'.started /\ mod'.cancel = g
      /\ mod'.stalled = mod.stalled /\ mod'.settled = mod.settled
  BY <1>1, <1>2 DEF Inv, TypeInv, ModType
<1>4. /\ loop' \in [Gen -> [pc : Pc, sweep : 0..MaxSweeps]]
      /\ loop'[g] = [pc |-> "due", sweep |-> NoSweep]
      /\ \A f \in Gen \ {g} : loop'[f] = loop[f]
  BY <1>1, <1>2 DEF Inv, TypeInv, GoTo, Pc
<1>5. TypeInv'
  BY <1>1, <1>3, <1>4 DEF Inv, TypeInv, ModType
<1>6. ~timedOut => \A f \in Gen : ~Alive(f)
  BY <1>1 DEF Inv, OneLoop, Gen, NoGen
<1>7. OneLoop'
  <2>1. mod'.cancel \notin cancelled' /\ stop' = NoGen
    BY <1>1, <1>3 DEF Inv, OneLoop
  <2>2. \A f \in Gen : At(f, "unborn")' => f \notin cancelled' /\ f # mod'.cancel
    BY <1>1, <1>3, <1>4 DEF Inv, OneLoop, At
  <2>3. ~timedOut' => \A f \in Gen : Alive(f)' => f \in {mod'.cancel, stop'}
    BY <1>1, <1>3, <1>4, <1>6 DEF Alive, At
  <2> QED
    BY <1>2, <1>3, <2>1, <2>2, <2>3 DEF OneLoop
<1>8. /\ \A f \in Gen : Waits(f)' <=> Waits(f)
      /\ \A f \in Gen : At(f, "calling")' <=> At(f, "calling")
      /\ \A f \in Gen : At(f, "expired")' <=> At(f, "expired")
      /\ \A f \in Gen : loop'[f].sweep = loop[f].sweep
  BY <1>1, <1>4 DEF Inv, OwnSweep, Waits, At
<1>9. OwnSweep'
  BY <1>1, <1>8 DEF Inv, OwnSweep
<1>10. SweepKnown'
  BY <1>1, <1>3, <1>8 DEF Inv, SweepKnown, Sweeping
<1> QED
  BY <1>5, <1>7, <1>9, <1>10 DEF Inv

\* The supervisor's other calls move no goroutine.
LEMMA CallsKeep ==
  ASSUME Inv,
         Stop \/ StopReturns \/ (\E v \in Version : PrepareConfig(v)) \/ CommitConfig \/ RollbackConfig
           \/ Throttle \/ UNCHANGED vars
  PROVE  Inv'
<1>1. UNCHANGED <<kind, health, loop, sweep>>
  BY DEF Stop, StopReturns, PrepareConfig, CommitConfig, RollbackConfig, Throttle, vars
<1>2. mod' \in ModType /\ mod'.stalled = mod.stalled /\ mod'.settled = mod.settled
  <2>1. Signal \in BOOLEAN /\ NoGen \in 0..MaxStarts /\ NoGen \in Version
    BY CollectorAssumption DEF Inv, TypeInv, Signal, NoGen, Version
  <2> QED
    BY <2>1 DEF Stop, StopReturns, PrepareConfig, CommitConfig, RollbackConfig, Throttle, vars, Inv, TypeInv, ModType
<1>3. /\ stop' \in 0..MaxStarts /\ timedOut' \in BOOLEAN /\ cancelled' \in SUBSET Gen
      /\ cancelled \subseteq cancelled' /\ (timedOut => timedOut')
      /\ OneLoop'
  <2>1. CASE Stop
    <3>1. mod.cancel \in Gen /\ mod.cancel # NoGen
      BY <2>1, CollectorAssumption DEF Stop, Inv, TypeInv, Gen, NoGen
    <3>2. /\ mod'.cancel = NoGen /\ mod'.started = FALSE /\ stop' = mod.cancel /\ stop = NoGen
          /\ cancelled' = cancelled \cup {mod.cancel} /\ timedOut' = timedOut
      BY <2>1, CollectorAssumption DEF Stop, Inv, TypeInv, NoGen
    <3>3. NoGen \notin cancelled'
      BY <3>1, <3>2 DEF Inv, TypeInv, Gen, NoGen
    <3>4. \A f \in Gen : At(f, "unborn")' => f \notin cancelled' /\ f # mod'.cancel
      BY <1>1, <3>1, <3>2 DEF Inv, OneLoop, At, Gen, NoGen
    <3>5. ~timedOut' => \A f \in Gen : Alive(f)' => f \in {mod'.cancel, stop'}
      BY <1>1, <3>2 DEF Inv, OneLoop, Alive, At, Gen, NoGen
    <3>6. OneLoop'
      BY <3>1, <3>2, <3>3, <3>4, <3>5 DEF OneLoop
    <3> QED
      BY <3>1, <3>2, <3>6 DEF Inv, TypeInv
  <2>2. CASE StopReturns
    <3>1. /\ stop' = NoGen /\ mod' = mod /\ cancelled' = cancelled /\ stop # NoGen
          /\ timedOut' = (timedOut \/ ~At(stop, "gone"))
      BY <2>2 DEF StopReturns
    <3>2. ~timedOut' => \A g \in Gen : Alive(g) => g \in {mod.cancel}
      BY <3>1 DEF Inv, OneLoop, Alive
    <3> QED
      BY <1>1, <3>1, <3>2, CollectorAssumption DEF Inv, TypeInv, OneLoop, Alive, At, NoGen
  <2>3. CASE UNCHANGED <<mod.started, mod.cancel, stop, cancelled, timedOut>>
    BY <1>1, <2>3 DEF Inv, TypeInv, OneLoop, Alive, At
  <2>4. (\E v \in Version : PrepareConfig(v)) \/ CommitConfig \/ RollbackConfig \/ Throttle \/ UNCHANGED vars
          => UNCHANGED <<mod.started, mod.cancel, stop, cancelled, timedOut>>
    BY DEF PrepareConfig, CommitConfig, RollbackConfig, Throttle, vars, Inv, TypeInv
  <2> QED
    BY <2>1, <2>2, <2>3, <2>4
<1>4. TypeInv'
  BY <1>1, <1>2, <1>3 DEF Inv, TypeInv, ModType
<1>5. OwnSweep'
  BY <1>1 DEF Inv, OwnSweep, Waits, At
<1>6. SweepKnown'
  BY <1>1, <1>2, <1>3 DEF Inv, TypeInv, SweepKnown, Sweeping, Waits, At
<1> QED
  BY <1>3, <1>4, <1>5, <1>6 DEF Inv

\* Every step of goroutines, sweeps and supervisor keeps the invariant.
LEMMA InvNext == Inv /\ [Next]_vars => Inv'
<1> SUFFICES ASSUME Inv, [Next]_vars PROVE Inv'
  OBVIOUS
<1>1. CASE UNCHANGED vars
  BY <1>1, CallsKeep
<1>2. ASSUME NEW g \in Gen, LoopStep(g) \/ Reconfigure(g) \/ Leave(g)
      PROVE  Inv'
  BY <1>2, CollectKeeps, ExpireProcessKeeps, RecordProcessKeeps, ApplyProcessKeeps, WaitEndsElsewhere, LoopKeeps
     DEF LoopStep, Reconfigure
<1>3. ASSUME NEW w \in Sweep, SweepReturns(w)
      PROVE  Inv'
  BY <1>3, SweepReturnsKeeps
<1>4. ASSUME SupervisorStep
      PROVE  Inv'
  <2>1. ASSUME NEW g \in Gen, NEW v \in Version,
               \/ StartProcess(g, v) \/ StartDiscovery(g, v) \/ StartHost(g, v)
               \/ StartLogs(g, v) \/ StartHttpcheck(g, v) \/ StartContainer(g, v)
        PROVE  Inv'
    BY <2>1, StartKeeps
       DEF StartProcess, StartDiscovery, StartHost, StartLogs, StartHttpcheck, StartContainer
  <2>2. CASE StopProcess \/ StopDiscovery \/ StopHost \/ StopLogs \/ StopHttpcheck \/ StopContainer \/ StopReturns
    BY <2>2, CallsKeep DEF StopProcess, StopDiscovery, StopHost, StopLogs, StopHttpcheck, StopContainer
  <2>3. CASE \/ \E v \in Version : PrepareConfig(v)
             \/ CommitProcess \/ CommitDiscovery \/ CommitHost \/ CommitLogs \/ CommitHttpcheck
             \/ RollbackConfig \/ Throttle
    BY <2>3, CallsKeep DEF CommitProcess, CommitDiscovery, CommitHost, CommitLogs, CommitHttpcheck
  <2> QED
    BY <1>4, <2>1, <2>2, <2>3 DEF SupervisorStep
<1> QED
  BY <1>1, <1>2, <1>3, <1>4 DEF Next

\* What is known of goroutines and sweeps, for any number of starts, sweeps and settings: one
\* goroutine, its own sweep, and no sweep that nobody can account for.
THEOREM CollectorsInvariant == Spec => []Inv
<1> QED
  BY InvInit, InvNext, PTL DEF Spec

\* OverdueIsTold: as long as every Stop outwaited its goroutine, a module whose sweep is overdue
\* was last reported failing.
THEOREM CollectorsOverdueIsTold == Spec => []OverdueIsTold
<1>1. Inv => OverdueIsTold
  BY DEF Inv, SweepKnown, OverdueIsTold
<1> QED
  BY <1>1, CollectorsInvariant, PTL

\* What the invariant says of the sweeps that run.
LEMMA SweepsApart == Inv => OneSweep
<1> SUFFICES ASSUME Inv, ~timedOut
             PROVE  /\ kind \in {"process", "discovery", "host", "container"} =>
                         \A v, w \in Sweeping : sweep[v].gen = sweep[w].gen => v = w \/ sweep[v].gen \in cancelled
                    /\ kind = "process" => Cardinality(Sweeping) <= 1
  BY DEF OneSweep
\* Two sweeps of goroutines that are not told to end are one.
<1>1. ASSUME kind \in Keeps \cup {"container"}, NEW v \in Sweeping, NEW w \in Sweeping,
             sweep[v].gen = sweep[w].gen, sweep[v].gen \notin cancelled
      PROVE  v = w
  <2> DEFINE HeldBy(f, u) == f \in Gen /\ Waits(f) /\ loop[f].sweep = u
  <2>1. ASSUME NEW u \in {v, w}
        PROVE  u = mod.settled \/ \E f \in Gen : HeldBy(f, u)
    BY <1>1, <2>1 DEF Inv, SweepKnown
  <2>2. ASSUME NEW f, NEW u \in {v, w}, HeldBy(f, u), NEW z \in {v, w}, z = mod.settled
        PROVE  u = z
    <3>1. z # NoSweep
      BY <2>2 DEF Sweeping, Sweep, NoSweep
    <3> QED
      BY <2>2, <3>1 DEF Inv, SweepKnown, Waits
  <2>3. ASSUME NEW f, NEW e, HeldBy(f, v), HeldBy(e, w)
        PROVE  v = w
    BY <2>3, OneAlive DEF Alive, Waits, At
  <2> HIDE DEF HeldBy
  <2> QED
    BY <2>1, <2>2, <2>3
<1>2. ASSUME kind = "process"
      PROVE  Cardinality(Sweeping) <= 1
  <2>1. ASSUME NEW v \in Sweeping, NEW w \in Sweeping
        PROVE  v = w
    <3> DEFINE HeldBy(f, u) == f \in Gen /\ Waits(f) /\ loop[f].sweep = u
    <3>1. ASSUME NEW u \in {v, w}
          PROVE  u = mod.settled \/ \E f \in Gen : HeldBy(f, u)
      BY <1>2, <3>1 DEF Inv, SweepKnown, Keeps, Lets
    <3>2. ASSUME NEW f, NEW u \in {v, w}, HeldBy(f, u), NEW z \in {v, w}, z = mod.settled
          PROVE  u = z
      <4>1. z # NoSweep
        BY <3>2 DEF Sweeping, Sweep, NoSweep
      <4> QED
        BY <3>2, <4>1 DEF Inv, SweepKnown, Waits
    <3>3. ASSUME NEW f, NEW e, HeldBy(f, v), HeldBy(e, w)
          PROVE  v = w
      BY <3>3, OneAlive DEF Alive, Waits, At
    <3> HIDE DEF HeldBy
    <3> QED
      BY <3>1, <3>2, <3>3
  <2>2. CASE Sweeping = {}
    BY <2>2, FS_EmptySet
  <2>3. CASE Sweeping # {}
    <3>1. PICK v \in Sweeping : TRUE
      BY <2>3
    <3>2. Sweeping = {v}
      BY <2>1, <3>1
    <3> QED
      BY <3>2, FS_Singleton
  <2> QED
    BY <2>2, <2>3
<1> QED
  BY <1>1, <1>2 DEF Keeps

\* The emitter of the process module is told by ApplyProcess, or by a Start.
LEMMA EmitterSteps ==
  ASSUME Inv, Next, kind = "process", mod'.emitter # mod.emitter, mod.started, mod'.started
  PROVE  \E g \in Gen : ApplyProcess(g)
<1>1. ASSUME NEW g \in Gen, LoopStep(g) \/ Reconfigure(g) \/ Leave(g), ~ApplyProcess(g)
      PROVE  mod'.emitter = mod.emitter
  BY <1>1 DEF LoopStep, Reconfigure, Leave, CollectProcess, ExpireProcess, RecordProcess,
       CollectDiscovery, ExpireDiscovery, RecordDiscovery, CollectHost, MarkStalled, FinishHost,
       CollectLogs, ProbeAll, ProbeOne, CollectContainer, CollectedContainer, Due,
       ReconfigureProcess, ReconfigureDiscovery, ReconfigureHost, ReconfigureLogs, Inv, TypeInv
<1>2. ASSUME NEW w \in Sweep, SweepReturns(w)
      PROVE  mod'.emitter = mod.emitter
  BY <1>2 DEF SweepReturns
<1>3. ASSUME SupervisorStep
      PROVE  mod'.emitter = mod.emitter
  BY <1>3 DEF SupervisorStep, StartProcess, StartDiscovery, StartHost, StartLogs, StartHttpcheck,
       StartContainer, Start, StopProcess, StopDiscovery, StopHost, StopLogs, StopHttpcheck, StopContainer,
       Stop, StopReturns, PrepareConfig, CommitProcess, CommitDiscovery, CommitHost, CommitLogs,
       CommitHttpcheck, CommitConfig, RollbackConfig, Throttle, Inv, TypeInv
<1> QED
  BY <1>1, <1>2, <1>3 DEF Next

\* SweepOwnsModule: as long as every Stop outwaited its goroutine, a goroutine that is not told
\* to end runs no two sweeps at once, and the process module's emitter changes between sweeps.
THEOREM CollectorsSweepOwnsModule == Spec => SweepOwnsModule
<1>1. Inv /\ [Next]_vars => [OneSweep' /\ EmitterIsQuiet]_vars
  <2> SUFFICES ASSUME Inv, Next
               PROVE  OneSweep' /\ EmitterIsQuiet
    OBVIOUS
  <2>1. Inv'
    BY InvNext
  <2>2. OneSweep'
    BY <2>1, SweepsApart, PTL
  <2>3. EmitterIsQuiet
    BY EmitterSteps, ApplyProcessKeeps DEF EmitterIsQuiet
  <2> QED
    BY <2>2, <2>3
<1> QED
  BY <1>1, CollectorsInvariant, PTL DEF Spec, SweepOwnsModule

-----------------------------------------------------------------------------
(* The probes. *)

Stages == {"idle", "asking", "answered", "late", "settled"}
Said == {"unknown", "healthy", "unhealthy"}
Probe == [at : Stages, start : Nat, said : Said]
Out(m, i) == probe[m][i].at # "idle"

ProbeType ==
  /\ life \in [Monitored -> DOMAIN Successors] /\ starts \in [Monitored -> Nat]
  /\ enabled \subseteq Monitored /\ report \in [Monitored -> Said] /\ slot \subseteq Monitored
  /\ probe \in [Monitored -> [Number -> Probe]]

\* A module's slot is taken exactly while a goroutine of probe lives, and there is one then.
ProbeInv ==
  /\ ProbeType
  /\ \A m \in Monitored :
       /\ \A i, j \in Number : Out(m, i) /\ Out(m, j) => i = j
       /\ m \in slot <=> \E i \in Number : Out(m, i)

LEMMA MovesStay == \A s \in DOMAIN Successors : Successors[s] \subseteq DOMAIN Successors
BY DEF Successors

LEMMA FirstIsFree ==
  ASSUME NEW m \in Monitored, Free(m) # {}
  PROVE  FirstFree(m) \in Number /\ probe[m][FirstFree(m)].at = "idle"
<1>1. Free(m) \subseteq Nat /\ Free(m) \subseteq Number
  BY DEF Free, Number
<1>2. \E i \in Free(m) : \A j \in Free(m) : i <= j
  <2> DEFINE F == Free(m)
  <2>1. F \subseteq Nat /\ F # {}
    BY <1>1
  <2> HIDE DEF F
  <2>2. \E i \in F : \A j \in F : i <= j
    BY <2>1, SmallestIn
  <2> QED
    BY <2>2 DEF F
<1>3. FirstFree(m) \in Free(m)
  BY <1>2 DEF FirstFree
<1> QED
  BY <1>1, <1>3 DEF Free

\* A step that changes one goroutine of one module, which stays out.
LEMMA ProbeOn ==
  ASSUME ProbeInv, NEW m \in Monitored, NEW i \in Number, Out(m, i), NEW p \in Probe, p.at # "idle",
         probe' = [probe EXCEPT ![m][i] = p], report' \in [Monitored -> Said],
         UNCHANGED <<life, starts, enabled, slot>>
  PROVE  ProbeInv'
<1>1. probe \in [Monitored -> [Number -> Probe]]
  BY DEF ProbeInv, ProbeType
<1>2. /\ probe' \in [Monitored -> [Number -> Probe]]
      /\ \A k \in Monitored, j \in Number : probe'[k][j] = IF k = m /\ j = i THEN p ELSE probe[k][j]
  BY <1>1
<1>3. ProbeType'
  BY <1>2 DEF ProbeInv, ProbeType
<1>4. \A k \in Monitored, j \in Number : Out(k, j)' <=> Out(k, j)
  BY <1>2 DEF Out
<1> QED
  BY <1>3, <1>4 DEF ProbeInv

LEMMA ProbesBegin == ProbeInit => ProbeInv
<1> SUFFICES ASSUME ProbeInit PROVE ProbeInv
  OBVIOUS
<1>1. NoProbe \in Probe
  BY DEF NoProbe, Probe, Stages, Said
<1>2. ProbeType
  <2>1. "Registered" \in DOMAIN Successors /\ "Disabled" \in DOMAIN Successors
    BY DEF Successors
  <2>2. probe \in [Monitored -> [Number -> Probe]]
    BY <1>1 DEF ProbeInit
  <2>3. report \in [Monitored -> Said] /\ starts \in [Monitored -> Nat] /\ slot \subseteq Monitored
        /\ enabled \subseteq Monitored
    BY DEF ProbeInit, Said
  <2>4. life \in [Monitored -> DOMAIN Successors]
    BY <2>1 DEF ProbeInit
  <2> QED
    BY <2>2, <2>3, <2>4 DEF ProbeType
<1>3. \A m \in Monitored, i \in Number : ~Out(m, i)
  BY DEF ProbeInit, NoProbe, Out
<1>4. slot = {}
  BY DEF ProbeInit
<1> QED
  BY <1>2, <1>3, <1>4 DEF ProbeInv

LEMMA ProbesStep == ProbeInv /\ [ProbeNext]_probeVars => ProbeInv'
<1> SUFFICES ASSUME ProbeInv, [ProbeNext]_probeVars PROVE ProbeInv'
  OBVIOUS
<1>1. /\ ProbeType /\ life \in [Monitored -> DOMAIN Successors] /\ starts \in [Monitored -> Nat]
      /\ enabled \subseteq Monitored /\ report \in [Monitored -> Said] /\ slot \subseteq Monitored
      /\ probe \in [Monitored -> [Number -> Probe]]
  BY DEF ProbeInv, ProbeType
<1>2. CASE UNCHANGED <<probe, slot>> /\ ProbeType'
  BY <1>2 DEF ProbeInv, Out
<1>3. CASE AskAll
  <2>1. ASSUME NEW m \in Targets
        PROVE  /\ m \in Monitored /\ m \notin slot /\ FirstFree(m) \in Number
               /\ probe'[m] = [probe[m] EXCEPT ![FirstFree(m)] = [at |-> "asking", start |-> starts[m], said |-> "unknown"]]
    <3>1. m \in Monitored /\ m \notin slot /\ Free(m) # {}
      BY <1>3, <2>1 DEF AskAll, Targets
    <3>2. FirstFree(m) \in Number
      BY <3>1, FirstIsFree
    <3>3. probe'[m] = [probe[m] EXCEPT ![FirstFree(m)] = [at |-> "asking", start |-> starts[m], said |-> "unknown"]]
      BY <1>3, <2>1, <3>1 DEF AskAll
    <3> QED
      BY <3>1, <3>2, <3>3
  <2>2. ASSUME NEW m \in Monitored, m \notin Targets PROVE probe'[m] = probe[m]
    BY <1>3, <2>2 DEF AskAll
  <2>3. slot' = slot \cup Targets /\ Targets \subseteq Monitored
        /\ UNCHANGED <<life, starts, enabled, report>>
    BY <1>3 DEF AskAll, Targets
  <2>4. ASSUME NEW m \in Targets
        PROVE  /\ probe'[m] \in [Number -> Probe]
               /\ \A i \in Number : probe'[m][i].at # "idle" <=> i = FirstFree(m)
    <3> DEFINE p == [at |-> "asking", start |-> starts[m], said |-> "unknown"]
    <3>1. p \in Probe /\ p.at # "idle"
      <4>1. starts[m] \in Nat
        BY <1>1, <2>1, <2>4
      <4> QED
        BY <4>1 DEF Probe, Stages, Said
    <3> HIDE DEF p
    <3>2. probe[m] \in [Number -> Probe] /\ probe'[m] = [probe[m] EXCEPT ![FirstFree(m)] = p]
      BY <1>1, <2>1, <2>4 DEF p
    <3>3. FirstFree(m) \in Number
      BY <2>1, <2>4
    <3>4. \A i \in Number : ~Out(m, i)
      BY <2>1, <2>4 DEF ProbeInv
    <3>5. \A i \in Number : probe'[m][i] = IF i = FirstFree(m) THEN p ELSE probe[m][i]
      BY <3>2, <3>3
    <3>6. probe'[m] \in [Number -> Probe]
      BY <3>1, <3>2, <3>3
    <3> QED
      BY <3>1, <3>4, <3>5, <3>6 DEF Out
  <2>5. probe' \in [Monitored -> [Number -> Probe]]
    <3>1. DOMAIN probe' = Monitored /\ probe' = [m \in Monitored |-> probe'[m]]
      BY <1>3 DEF AskAll
    <3>2. \A m \in Monitored : probe'[m] \in [Number -> Probe]
      BY <1>1, <2>2, <2>4
    <3> QED
      BY <3>1, <3>2
  <2>6. ProbeType'
    BY <1>1, <2>3, <2>5 DEF ProbeType
  <2>7. ASSUME NEW m \in Monitored
        PROVE  /\ \A i, j \in Number : Out(m, i)' /\ Out(m, j)' => i = j
               /\ m \in slot' <=> \E i \in Number : Out(m, i)'
    <3>1. CASE m \in Targets
      <4>1. \A i \in Number : Out(m, i)' <=> i = FirstFree(m)
        BY <2>4, <3>1 DEF Out
      <4> QED
        BY <2>1, <2>3, <3>1, <4>1
    <3>2. CASE m \notin Targets
      <4>1. \A i \in Number : Out(m, i)' <=> Out(m, i)
        BY <2>2, <3>2 DEF Out
      <4> QED
        BY <2>3, <3>2, <4>1 DEF ProbeInv
    <3> QED
      BY <3>1, <3>2
  <2> QED
    BY <2>6, <2>7 DEF ProbeInv
<1>4. CASE PublishHealth
  BY <1>1, <1>2, <1>4 DEF PublishHealth, ProbeType
<1>5. ASSUME NEW m \in Monitored, Move(m) PROVE ProbeInv'
  <2>1. PICK s \in Successors[life[m]] :
          /\ life' = [life EXCEPT ![m] = s]
          /\ starts' = IF s = "Running" THEN [starts EXCEPT ![m] = @ + 1] ELSE starts
          /\ report' = IF s = "Running" THEN [report EXCEPT ![m] = "unknown"] ELSE report
    BY <1>5 DEF Move
  <2>2. s \in DOMAIN Successors
    BY <1>1, <1>5, <2>1, MovesStay
  <2>3. starts' \in [Monitored -> Nat] /\ report' \in [Monitored -> Said]
    BY <1>1, <2>1 DEF Said
  <2>4. UNCHANGED <<enabled, slot, probe>>
    BY <1>5 DEF Move
  <2>5. life' \in [Monitored -> DOMAIN Successors]
    BY <1>1, <2>1, <2>2
  <2> QED
    BY <1>1, <1>2, <2>3, <2>4, <2>5 DEF ProbeType
<1>6. ASSUME NEW m \in Monitored, Toggle(m) PROVE ProbeInv'
  BY <1>1, <1>2, <1>6 DEF Toggle, ProbeType
<1>7. ASSUME NEW m \in Monitored, NEW i \in Number, ProbeSteps(m, i) \/ ProbeExpires(m, i) PROVE ProbeInv'
  <2> DEFINE q == probe[m][i]
  <2>1. q \in Probe /\ q.start \in Nat /\ q.said \in Said /\ q = [at |-> q.at, start |-> q.start, said |-> q.said]
    <3>1. q \in Probe
      BY <1>1
    <3> HIDE DEF q
    <3> QED
      BY <3>1 DEF Probe
  <2>2. \A place \in Stages : [q EXCEPT !.at = place] \in Probe /\ [q EXCEPT !.at = place].at = place
    <3> HIDE DEF q
    <3> QED
      BY <2>1 DEF Probe
  <2>3. \A place \in Stages, word \in Said :
          /\ [q EXCEPT !.at = place, !.said = word] \in Probe
          /\ [q EXCEPT !.at = place, !.said = word].at = place
    <3> HIDE DEF q
    <3> QED
      BY <2>1 DEF Probe
  <2>4. CASE HealthReturns(m, i)
    <3>1. PICK v \in Verdicts : probe' = [probe EXCEPT ![m][i] = [@ EXCEPT !.at = "answered", !.said = v]]
      BY <2>4 DEF HealthReturns
    <3> DEFINE p == [q EXCEPT !.at = "answered", !.said = v]
    <3>2. p \in Probe /\ p.at # "idle"
      BY <2>3 DEF Stages, Said, Verdicts
    <3>3. probe' = [probe EXCEPT ![m][i] = p]
      BY <3>1
    <3>4. Out(m, i)
      BY <2>4 DEF HealthReturns, Out
    <3> HIDE DEF p, q
    <3> QED
      BY <1>1, <2>4, <3>2, <3>3, <3>4, ProbeOn DEF HealthReturns
  <2>5. CASE RecordAnswer(m, i)
    <3> DEFINE p == [q EXCEPT !.at = "settled"]
    <3>2. p \in Probe /\ p.at # "idle"
      BY <2>2 DEF Stages
    <3>3. probe' = [probe EXCEPT ![m][i] = p]
      BY <2>5 DEF RecordAnswer, ProbeGoes
    <3>4. Out(m, i)
      BY <2>5 DEF RecordAnswer, Out
    <3>5. report' \in [Monitored -> Said]
      BY <1>1, <2>1, <2>5 DEF RecordAnswer
    <3> HIDE DEF p, q
    <3> QED
      BY <2>5, <3>2, <3>3, <3>4, <3>5, ProbeOn DEF RecordAnswer
  <2>6. CASE ProbeExpires(m, i)
    <3> DEFINE p == [q EXCEPT !.at = "late"]
    <3>2. p \in Probe /\ p.at # "idle"
      BY <2>2 DEF Stages
    <3>3. probe' = [probe EXCEPT ![m][i] = p]
      BY <2>6 DEF ProbeExpires, ProbeGoes
    <3>4. Out(m, i)
      BY <2>6 DEF ProbeExpires, Out
    <3>5. report' \in [Monitored -> Said]
      BY <1>1, <2>6 DEF ProbeExpires, Said
    <3> HIDE DEF p, q
    <3> QED
      BY <2>6, <3>2, <3>3, <3>4, <3>5, ProbeOn DEF ProbeExpires
  <2>7. CASE ReturnsLate(m, i)
    <3> DEFINE p == [q EXCEPT !.at = "settled"]
    <3>2. p \in Probe /\ p.at # "idle"
      BY <2>2 DEF Stages
    <3>3. probe' = [probe EXCEPT ![m][i] = p]
      BY <2>7 DEF ReturnsLate, ProbeGoes
    <3>4. Out(m, i)
      BY <2>7 DEF ReturnsLate, Out
    <3> HIDE DEF p, q
    <3> QED
      BY <1>1, <2>7, <3>2, <3>3, <3>4, ProbeOn DEF ReturnsLate
  <2>8. CASE FreeSlot(m, i)
    <3>1. probe' = [probe EXCEPT ![m][i] = NoProbe] /\ slot' = slot \ {m} /\ Out(m, i)
          /\ UNCHANGED <<life, starts, enabled, report>>
      BY <2>8 DEF FreeSlot, Out
    <3>2. NoProbe \in Probe /\ NoProbe.at = "idle"
      BY DEF NoProbe, Probe, Stages, Said
    <3> HIDE DEF q
    <3>3. /\ probe' \in [Monitored -> [Number -> Probe]]
          /\ \A k \in Monitored, j \in Number : probe'[k][j] = IF k = m /\ j = i THEN NoProbe ELSE probe[k][j]
      BY <1>1, <3>1, <3>2
    <3>4. ProbeType'
      BY <1>1, <3>1, <3>3 DEF ProbeType
    <3>5. \A k \in Monitored, j \in Number : Out(k, j)' <=> Out(k, j) /\ ~(k = m /\ j = i)
      BY <3>2, <3>3 DEF Out
    <3>6. \A j \in Number : ~Out(m, j)'
      BY <3>1, <3>5 DEF ProbeInv
    <3> QED
      BY <3>1, <3>4, <3>5, <3>6 DEF ProbeInv
  <2> QED
    BY <1>7, <2>4, <2>5, <2>6, <2>7, <2>8 DEF ProbeSteps
<1>8. CASE UNCHANGED probeVars
  BY <1>1, <1>2, <1>8 DEF probeVars, ProbeType
<1> QED
  BY <1>3, <1>4, <1>5, <1>6, <1>7, <1>8 DEF ProbeNext

LEMMA SlotIsOne == ProbeInv => OneHealthCall
<1> SUFFICES ASSUME ProbeInv, NEW m \in Monitored
             PROVE  Cardinality({i \in Number : probe[m][i].at \in {"asking", "late"}}) <= 1
  BY DEF OneHealthCall
<1> DEFINE C == {i \in Number : probe[m][i].at \in {"asking", "late"}}
<1>1. \A i, j \in C : i = j
  BY DEF ProbeInv, Out
<1> HIDE DEF C
<1>2. CASE C = {}
  BY <1>2, FS_EmptySet DEF C
<1>3. CASE C # {}
  <2>1. PICK i \in C : TRUE
    BY <1>3
  <2>2. C = {i}
    BY <1>1, <2>1
  <2>3. Cardinality({i}) = 1
    BY FS_Singleton
  <2>4. Cardinality(C) = 1
    BY <2>2, <2>3
  <2> QED
    BY <2>4 DEF C
<1> QED
  BY <1>2, <1>3

-----------------------------------------------------------------------------
(* What the agent says of itself. *)

Status == {"healthy", "unknown", "degraded", "unhealthy"}

\* The status v of a set of components: the worst of theirs.
WorstIs(s, v) ==
  /\ v \in Status
  /\ v = "healthy" \/ \E m \in s : v = Counted(m)
  /\ \A m \in s : Severity[v] >= Severity[Counted(m)]

LEMMA SeverityIs ==
  /\ Severity["healthy"] = 0 /\ Severity["unknown"] = 1
  /\ Severity["degraded"] = 2 /\ Severity["unhealthy"] = 3
  /\ \A v \in Status : Severity[v] \in Nat
BY DEF Severity, Status

LEMMA CountedIs ==
  ASSUME ProbeType, NEW m \in Components
  PROVE  /\ Counted(m) \in Status
         /\ Counted(m) = "unhealthy" <=>
              m \in Required /\ (life[m] \in {"Failed", "CrashLooping"} \/ (life[m] = "Running" /\ report[m] = "unhealthy"))
         /\ Counted(m) = "healthy" => life[m] = "Running" /\ report[m] = "healthy"
<1>1. report[m] \in Said /\ m \in Monitored
  BY DEF ProbeType, Components
<1>2. CASE life[m] = "Running"
  BY <1>1, <1>2 DEF Counted, ComponentHealth, Status, Said
<1>3. CASE life[m] # "Running"
  BY <1>3 DEF Counted, ComponentHealth, Status
<1> QED
  BY <1>2, <1>3

LEMMA WorseIsWorst ==
  ASSUME ProbeType, NEW s \in SUBSET Components, NEW m \in s, NEW v, WorstIs(s \ {m}, v)
  PROVE  WorstIs(s, WorseOf(v, Counted(m)))
<1>1. v \in Status /\ Counted(m) \in Status
  BY CountedIs DEF WorstIs
<1>2. Severity[v] \in Nat /\ \A k \in s : Severity[Counted(k)] \in Nat
  BY <1>1, CountedIs, SeverityIs
<1>3. CASE Severity[Counted(m)] > Severity[v]
  <2>1. WorseOf(v, Counted(m)) = Counted(m)
    BY <1>3 DEF WorseOf
  <2>2. \A k \in s : Severity[Counted(m)] >= Severity[Counted(k)]
    <3> SUFFICES ASSUME NEW k \in s, k # m PROVE Severity[Counted(m)] >= Severity[Counted(k)]
      BY <1>2
    <3>1. Severity[v] >= Severity[Counted(k)]
      BY DEF WorstIs
    <3> QED
      BY <1>2, <1>3, <3>1
  <2> QED
    BY <1>1, <2>1, <2>2 DEF WorstIs
<1>4. CASE ~(Severity[Counted(m)] > Severity[v])
  <2>1. WorseOf(v, Counted(m)) = v
    BY <1>4 DEF WorseOf
  <2>2. \A k \in s : Severity[v] >= Severity[Counted(k)]
    BY <1>2, <1>4 DEF WorstIs
  <2> QED
    BY <1>1, <2>1, <2>2 DEF WorstIs
<1> QED
  BY <1>3, <1>4

LEMMA HealthIsTheWorst ==
  ASSUME ProbeType, Components # {}
  PROVE  WorstIs(Components, AgentHealth)
<1> DEFINE S == Components
           P(it) == it = [s \in SUBSET S |-> IF s = {} THEN "healthy" ELSE
                            WorseOf(it[s \ {CHOOSE x \in s : TRUE}], Counted(CHOOSE x \in s : TRUE))]
           it0 == CHOOSE it : P(it)
           pick == [s \in SUBSET S |-> CHOOSE x \in s : TRUE]
           h == [p \in (SUBSET S) \X Status |->
                   IF p[1] = {} THEN "healthy" ELSE WorseOf(p[2], Counted(CHOOSE x \in p[1] : TRUE))]
<1>1. AgentHealth = it0[S]
  BY DEF AgentHealth, FoldSet, MapThenFoldSet
<1>2. IsFiniteSet(S)
  <2>1. S \subseteq Monitored /\ IsFiniteSet(Monitored)
    BY ProbeAssumption DEF Components
  <2> HIDE DEF S
  <2> QED
    BY <2>1, FS_Subset
<1>3. \A m \in S : Counted(m) \in Status
  BY CountedIs
<1>4. \A s \in SUBSET S : s # {} => (CHOOSE x \in s : TRUE) \in s
  OBVIOUS
<1>5. h \in [(SUBSET S) \X Status -> Status]
  <2>1. ASSUME NEW s \in SUBSET S, NEW v \in Status
        PROVE  (IF s = {} THEN "healthy" ELSE WorseOf(v, Counted(CHOOSE x \in s : TRUE))) \in Status
    <3>1. CASE s = {}
      BY <3>1 DEF Status
    <3>2. CASE s # {}
      BY <1>3, <1>4, <3>2 DEF WorseOf
    <3> QED
      BY <3>1, <3>2
  <2> QED
    BY <2>1
<1>6. \A s \in SUBSET S : s # {} => pick[s] \in s
  BY <1>4
<1>7. pick = [s \in SUBSET S |-> CHOOSE x \in s : TRUE]
  OBVIOUS
<1>8. "healthy" \in Status
  BY DEF Status
<1> HIDE DEF h, pick, S
<1>9. PICK it \in [SUBSET S -> Status] : FoldOf(S, pick, "healthy", h, it)
  BY <1>2, <1>5, <1>6, <1>8, FoldExists
<1>10. P(it)
  <2>1. ASSUME NEW s \in SUBSET S, s # {}
        PROVE  h[<<s, it[s \ {pick[s]}]>>]
                 = WorseOf(it[s \ {CHOOSE x \in s : TRUE}], Counted(CHOOSE x \in s : TRUE))
    <3> DEFINE c == CHOOSE x \in s : TRUE
               y == s \ {c}
    <3>1. y \in SUBSET S /\ pick[s] = c
      BY <1>7
    <3> HIDE DEF y
    <3>2. it[y] \in Status
      BY <1>9, <3>1
    <3>3. h[<<s, it[y]>>] = WorseOf(it[y], Counted(c))
      BY <2>1, <3>2 DEF h
    <3> QED
      BY <3>1, <3>3 DEF y
  <2> QED
    BY <1>9, <2>1 DEF FoldOf
<1>11. P(it0)
  <2> HIDE DEF P
  <2> QED
    BY <1>10
<1> HIDE DEF it0
<1> DEFINE G == {s \in SUBSET S : WorstIs(s, it0[s])}
<1>12. ASSUME NEW s \in SUBSET S, \A x \in s : s \ {x} \in G
       PROVE  s \in G
  <2>1. CASE s = {}
    BY <1>8, <1>11, <2>1 DEF WorstIs
  <2>2. CASE s # {}
    <3> DEFINE c == CHOOSE x \in s : TRUE
    <3>1. c \in s
      BY <1>4, <2>2
    <3>2. it0[s] = WorseOf(it0[s \ {c}], Counted(c))
      BY <1>11, <2>2
    <3> HIDE DEF c
    <3>3. WorstIs(s \ {c}, it0[s \ {c}])
      BY <1>12, <3>1
    <3>4. WorstIs(s, it0[s])
      BY <3>1, <3>2, <3>3, WorseIsWorst DEF S
    <3> QED
      BY <3>4
  <2> QED
    BY <2>1, <2>2
<1>13. S \in G
  <2> DEFINE D == S
  <2>1. \A s \in SUBSET D : (\A x \in s : s \ {x} \in G) => s \in G
    BY <1>12
  <2>2. IsFiniteSet(D)
    BY <1>2
  <2> HIDE DEF D, G
  <2>3. SUBSET D \subseteq G
    BY <2>1, <2>2, SetInduction
  <2>4. S \in SUBSET D
    BY DEF D
  <2> QED
    BY <2>3, <2>4
<1> QED
  BY <1>1, <1>13 DEF S

LEMMA AgentIsAsItsModules == ProbeInv => AgentIsNoBetterThanItsModules
<1> SUFFICES ASSUME ProbeInv PROVE AgentIsNoBetterThanItsModules
  OBVIOUS
<1>1. ProbeType /\ enabled \subseteq Monitored /\ Required \subseteq Monitored
  BY ProbeAssumption DEF ProbeInv, ProbeType
<1>2. \A m \in Components : m \in Monitored /\ m \in enabled /\ life[m] # "Disabled"
  BY DEF Components
<1>3. \A m \in enabled : life[m] # "Disabled" => m \in Components
  BY <1>1 DEF Components
<1>4. CASE Components = {}
  <2>1. AgentHealth = "unknown"
    BY <1>4 DEF AgentHealth
  <2>2. \A m \in enabled : life[m] = "Disabled"
    BY <1>3, <1>4
  <2> QED
    BY <2>1, <2>2 DEF AgentIsNoBetterThanItsModules
<1>5. CASE Components # {}
  <2> DEFINE v == AgentHealth
  <2>1. WorstIs(Components, v)
    BY <1>1, <1>5, HealthIsTheWorst
  <2>2. \A m \in Components : Severity[Counted(m)] \in Nat /\ Counted(m) \in Status
    BY <1>1, CountedIs, SeverityIs
  <2> HIDE DEF v
  <2>3. v = "unhealthy" <=> \E m \in Components : Counted(m) = "unhealthy"
    <3>1. ASSUME NEW m \in Components, Counted(m) = "unhealthy" PROVE v = "unhealthy"
      <4>1. Severity[v] >= 3 /\ v \in Status
        BY <2>1, <3>1, SeverityIs DEF WorstIs
      <4> QED
        BY <4>1, SeverityIs DEF Status
    <3> QED
      BY <2>1, <3>1 DEF WorstIs
  <2>4. v = "healthy" => \A m \in Components : Counted(m) = "healthy"
    <3> SUFFICES ASSUME v = "healthy", NEW m \in Components PROVE Counted(m) = "healthy"
      OBVIOUS
    <3>1. 0 >= Severity[Counted(m)]
      BY <2>1, SeverityIs DEF WorstIs
    <3> QED
      BY <2>2, <3>1, SeverityIs DEF Status
  <2>5. v = "unhealthy" <=>
          \E m \in Required \cap enabled :
            life[m] \in {"Failed", "CrashLooping"} \/ (life[m] = "Running" /\ report[m] = "unhealthy")
    BY <1>1, <1>2, <1>3, <2>3, CountedIs
  <2>6. v = "healthy" => \A m \in enabled : life[m] = "Disabled" \/ (life[m] = "Running" /\ report[m] = "healthy")
    BY <1>1, <1>3, <2>4, CountedIs
  <2> QED
    BY <2>5, <2>6 DEF AgentIsNoBetterThanItsModules, v
<1> QED
  BY <1>4, <1>5

\* (The invariants of HealthProbes.HealthIsTold.) However late a Health call is and however
\* often its module restarts meanwhile, it is the only one; and the agent is unhealthy exactly
\* if a required module that is enabled is, and healthy only if all of them are.
THEOREM HealthIsAsItsModules ==
  ProbeInit /\ [][ProbeNext]_probeVars => [](OneHealthCall /\ AgentIsNoBetterThanItsModules)
<1>1. ProbeInv => OneHealthCall /\ AgentIsNoBetterThanItsModules
  BY SlotIsOne, AgentIsAsItsModules
<1> QED
  BY <1>1, ProbesBegin, ProbesStep, PTL

=============================================================================
