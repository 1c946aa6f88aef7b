---------------------------- MODULE ModulesProofs ----------------------------
(***************************************************************************)
(* The modules, for every setting and limit.  The process table is a       *)
(* bounded watch of the host's instances (ProcessWatch), its counters are  *)
(* what is in it, and no delta is between two processes.  The host module  *)
(* reports a device by what it did since the last reading, from the        *)
(* sources it has.  The container module's rates are one container's.      *)
(* The graph that orders the modules resolves to the one order, or the one *)
(* error, that the manifests call for.  And what the discovery module says *)
(* joins two things on the host was so, and settles when the host does.    *)
(***************************************************************************)
EXTENDS ProcessTable, HostMetrics, Containers, DependencyGraph, Topology, FiniteSetTheorems, SequenceTheorems,
        NumberSets, TLAPS

(***************************************************************************)
(* The process table.                                                      *)
(***************************************************************************)

\* What Admitted and AdmitSeries both do: of P, in the order of numbers, the first that fit
\* under the limit beside n others.
FirstFits(P, n, limit) == {p \in P : n + Cardinality({q \in P : q < p}) < limit}

\* They stay under it, and leave none out below it.
LEMMA AdmissionFills ==
  ASSUME NEW P, IsFiniteSet(P), P \subseteq Nat, NEW n \in Nat, NEW limit \in Nat,
         NEW A, A = FirstFits(P, n, limit)
  PROVE  /\ IsFiniteSet(A) /\ Cardinality(A) \in Nat
         /\ A = {} \/ n + Cardinality(A) <= limit
         /\ A = P \/ n + Cardinality(A) >= limit
<1>0. A = {p \in P : n + Cardinality({q \in P : q < p}) < limit}
  BY DEF FirstFits
<1> USE <1>0
<1> DEFINE below(p) == {q \in P : q < p}
<1>1. /\ IsFiniteSet(A) /\ Cardinality(A) \in Nat
      /\ \A p \in P : IsFiniteSet(below(p)) /\ Cardinality(below(p)) \in Nat
  <2>1. A \in SUBSET P /\ \A p \in P : below(p) \in SUBSET P
    OBVIOUS
  <2> HIDE DEF below
  <2> QED
    BY <2>1, FS_Subset, FS_CardinalityType, Zenon
\* The last that is admitted has all the others below it.
<1>2. ASSUME A # {}
      PROVE  n + Cardinality(A) <= limit
  <2> DEFINE room(p) == limit - (n + Cardinality(below(p)))
             rooms == {room(p) : p \in A}
  <2>1. rooms \subseteq Nat /\ rooms # {}
    <3>1. \A p \in A : p \in P /\ n + Cardinality(below(p)) < limit
      OBVIOUS
    <3>2. \A p \in A : Cardinality(below(p)) \in Nat
      BY <1>1, <3>1, Zenon
    <3> HIDE DEF below
    <3>3. \A p \in A : room(p) \in Nat
      BY <3>1, <3>2
    <3> QED
      BY <3>3, <1>2
  <2>2. PICK r \in rooms : \A s \in rooms : r <= s
    BY <2>1, SmallestIn
  <2>3. PICK p \in A : r = room(p)
    BY <2>2
  <2>4. ASSUME NEW q \in A, q # p
        PROVE  q \in below(p)
    <3>1. SUFFICES ASSUME q > p
                   PROVE  FALSE
      BY <2>4
    <3>2. below(p) \cup {p} \in SUBSET below(q)
      <4>1. p \in P /\ q \in P /\ p \in Nat /\ q \in Nat
        OBVIOUS
      <4>2. \A x \in P : x < p => x < q
        BY <3>1, <4>1
      <4> QED
        BY <3>1, <4>1, <4>2
    <3>3. p \notin below(p)
      OBVIOUS
    <3>4. Cardinality(below(p) \cup {p}) = Cardinality(below(p)) + 1
      <4> HIDE DEF below
      <4> QED
        BY <1>1, <3>3, FS_AddElement
    <3>5. Cardinality(below(p) \cup {p}) <= Cardinality(below(q))
      <4> HIDE DEF below
      <4> QED
        BY <1>1, <3>2, FS_Subset
    <3>6. room(p) <= room(q)
      BY <2>2, <2>3
    <3> HIDE DEF below
    <3> QED
      BY <1>1, <3>4, <3>5, <3>6
  <2>5. A \in SUBSET (below(p) \cup {p})
    BY <2>4
  <2>6. Cardinality(A) <= Cardinality(below(p)) + 1
    <3>1. p \in P
      OBVIOUS
    <3> HIDE DEF below
    <3>2. /\ IsFiniteSet(below(p) \cup {p})
          /\ Cardinality(below(p) \cup {p}) <= Cardinality(below(p)) + 1
      <4>1. IsFiniteSet(below(p)) /\ Cardinality(below(p)) \in Nat
        BY <1>1, <3>1
      <4>2. /\ IsFiniteSet(below(p) \cup {p})
            /\ Cardinality(below(p) \cup {p})
                 = IF p \in below(p) THEN Cardinality(below(p)) ELSE Cardinality(below(p)) + 1
        BY <4>1, FS_AddElement, Zenon
      <4> QED
        BY <4>1, <4>2
    <3>3. Cardinality(A) <= Cardinality(below(p) \cup {p})
      BY <3>2, <2>5, FS_Subset
    <3> QED
      BY <1>1, <3>1, <3>2, <3>3, FS_CardinalityType
  <2>7. n + Cardinality(below(p)) < limit
    OBVIOUS
  <2> HIDE DEF below
  <2> QED
    BY <1>1, <2>6, <2>7
\* The first that is not has all below it admitted.
<1>3. ASSUME A # P
      PROVE  n + Cardinality(A) >= limit
  <2>1. P \ A # {} /\ P \ A \subseteq Nat
    BY <1>3
  <2>2. PICK p \in P \ A : \A q \in P \ A : p <= q
    BY <2>1, SmallestIn
  <2>3. below(p) \in SUBSET A
    <3>1. ASSUME NEW q \in P, q < p
          PROVE  q \in A
      <4>1. p \in Nat /\ q \in Nat
        OBVIOUS
      <4>2. ~(p <= q)
        BY <3>1, <4>1
      <4>3. q \notin P \ A
        BY <4>2, <2>2, Zenon
      <4> QED
        BY <4>3
    <3> QED
      BY <3>1
  <2>4. ~(n + Cardinality(below(p)) < limit)
    OBVIOUS
  <2>5. Cardinality(below(p)) <= Cardinality(A)
    <3> HIDE DEF below
    <3> QED
      BY <1>1, <2>3, FS_Subset
  <2> HIDE DEF below
  <2> QED
    BY <1>1, <2>4, <2>5
<1> QED
  BY <1>1, <1>2, <1>3

\* Sets that share nothing add up.
LEMMA ApartAddUp ==
  ASSUME NEW S, NEW T, IsFiniteSet(S), IsFiniteSet(T), S \cap T = {}
  PROVE  /\ IsFiniteSet(S \cup T) /\ Cardinality(S) \in Nat /\ Cardinality(T) \in Nat
         /\ Cardinality(S \cup T) = Cardinality(S) + Cardinality(T)
<1>1. Cardinality(S) \in Nat /\ Cardinality(T) \in Nat
  BY FS_CardinalityType
<1>2. Cardinality(S \cap T) = 0
  BY FS_EmptySet
<1>3. /\ IsFiniteSet(S \cup T)
      /\ Cardinality(S \cup T) = Cardinality(S) + Cardinality(T) - Cardinality(S \cap T)
  BY FS_Union, Zenon
<1> QED
  BY <1>1, <1>2, <1>3

\* As many images as elements, when no two share one.
LEMMA ImageCardinality ==
  ASSUME NEW S, IsFiniteSet(S), NEW T, NEW f \in [S -> T],
         \A t \in T : \E p \in S : f[p] = t
  PROVE  /\ IsFiniteSet(T) /\ Cardinality(T) <= Cardinality(S)
         /\ (\A p, q \in S : f[p] = f[q] => p = q) => Cardinality(T) = Cardinality(S)
<1>1. f \in Surjection(S, T)
  BY DEF Surjection
<1>2. (\A p, q \in S : f[p] = f[q] => p = q) => f \in Injection(S, T)
  BY DEF Injection, IsInjective
<1> QED
  BY <1>1, <1>2, FS_Surjection

LimitsOk ==
  /\ MaxTracked \in Nat /\ MaxSeries \in Nat
  /\ Pids \subseteq Nat /\ Names \subseteq Nat /\ IsFiniteSet(Pids)

\* The constants as the provers need them, taken from TableAssumption.
LEMMA LimitsAssumed == LimitsOk
BY TableAssumption DEF LimitsOk

Process == [name : Nat, born : Nat, start : Nat]
Record == [name : Nat, born : Nat, start : Nat, cpu : Nat, io : Nat]

\* Births are counted, each process that runs has its own, and a stamp says which.
HostInv ==
  /\ births \in Nat
  /\ host \in [Pids -> Process]
  /\ \A p \in Running : host[p].born \in 1..births /\ host[p].start \in {0, host[p].born}
  /\ \A p, q \in Running : host[p].born = host[q].born => p = q

\* A record is of an instance that ran under its PID, and so is its CPU baseline.
LiveInv ==
  /\ DOMAIN live \subseteq Pids /\ live \in [DOMAIN live -> Record]
  /\ \A p \in DOMAIN live : /\ live[p].born \in 1..births /\ live[p].cpu = live[p].born
                            /\ live[p].start \in {0, live[p].born}
  /\ \A p, q \in DOMAIN live : live[p].born = live[q].born => p = q
  /\ \A p \in DOMAIN live, q \in Running : live[p].born = host[q].born => p = q
  /\ Cardinality(DOMAIN live) <= MaxTracked

GaugesInv ==
  /\ gauges \subseteq emitted /\ emitted \subseteq Nat /\ IsFiniteSet(emitted)
  /\ Cardinality(gauges) <= MaxSeries
  /\ started \in Nat /\ exited \in Nat
  /\ started - exited = Cardinality(DOMAIN live)

\* The I/O baseline of a stamped record may be of another instance only once its own is over;
\* and what this cycle has yet to read has none of another.
OwnIO(p) == live[p].start # 0 => live[p].io \in {0, live[p].born}
BaselinesInv == \A p \in DOMAIN live : OwnIO(p) \/ live[p].born \notin Alive

\* The deltas are of instances there were.
DeltasInv == DeltasAreOwn /\ \A d \in deltas : d.of \in 1..births

\* The kinds of change a cycle finds.
Change == [kind : {"started", "exited", "replaced"}, pid : Nat, born : Nat, restart : BOOLEAN]

\* What a cycle holds between its listing and its end.
SweepInv ==
  /\ sweep \in [on : BOOLEAN, changes : Seq(Change), selected : SUBSET Pids,
                current : SUBSET Nat, allow : Nat, unread : SUBSET Pids]
  /\ IsFiniteSet(sweep.current)
  /\ sweep.unread \subseteq DOMAIN live /\ \A p \in sweep.unread : OwnIO(p)

Inv == HostInv /\ LiveInv /\ BaselinesInv /\ DeltasInv /\ SweepInv /\ GaugesInv

\* The parts of a listing.
LEMMA ListedParts ==
  ASSUME LiveInv, NEW seen \in SUBSET Running
  PROVE  /\ IsFiniteSet(DOMAIN live) /\ Cardinality(DOMAIN live) \in Nat
         /\ IsFiniteSet(Pending(seen)) /\ Pending(seen) \subseteq Nat
         /\ Admitted(seen) \subseteq Pending(seen)
         /\ IsFiniteSet(Admitted(seen)) /\ Cardinality(Admitted(seen)) \in Nat
         /\ Admitted(seen) = {} \/ Cardinality(DOMAIN live) + Cardinality(Admitted(seen)) <= MaxTracked
         /\ Admitted(seen) = Pending(seen)
              \/ Cardinality(DOMAIN live) + Cardinality(Admitted(seen)) >= MaxTracked
<1>1. seen \in SUBSET Pids /\ DOMAIN live \in SUBSET Pids /\ Pending(seen) \in SUBSET Pids
  BY DEF Running, Pending, LiveInv
<1>2. /\ IsFiniteSet(DOMAIN live) /\ Cardinality(DOMAIN live) \in Nat
      /\ IsFiniteSet(Pending(seen)) /\ Pending(seen) \subseteq Nat
  <2>1. IsFiniteSet(Pids) /\ Pids \subseteq Nat
    BY LimitsAssumed DEF LimitsOk
  <2>2. IsFiniteSet(DOMAIN live) /\ IsFiniteSet(Pending(seen))
    BY <1>1, <2>1, FS_Subset
  <2> QED
    BY <1>1, <2>1, <2>2, FS_CardinalityType
<1>3. Admitted(seen) = FirstFits(Pending(seen), Cardinality(DOMAIN live), MaxTracked)
  BY DEF Admitted, FirstFits
<1>4. MaxTracked \in Nat
  BY LimitsAssumed DEF LimitsOk
<1> DEFINE P == Pending(seen)
           A == Admitted(seen)
           n == Cardinality(DOMAIN live)
<1>5. /\ IsFiniteSet(P) /\ P \subseteq Nat /\ n \in Nat
      /\ A = FirstFits(P, n, MaxTracked)
  BY <1>2, <1>3
<1> HIDE DEF P, A, n
<1>6. /\ IsFiniteSet(A) /\ Cardinality(A) \in Nat
      /\ A = {} \/ n + Cardinality(A) <= MaxTracked
      /\ A = P \/ n + Cardinality(A) >= MaxTracked
  BY <1>4, <1>5, AdmissionFills
<1>7. A \subseteq P
  BY <1>5 DEF FirstFits
<1> QED
  BY <1>2, <1>6, <1>7 DEF P, A, n

\* The PIDs the reconciled table holds: those it had and saw, and the admitted.
Rows(seen) == Kept(seen) \cup Reused(seen) \cup Admitted(seen)

\* A reconciled table holds at most MaxTracked processes, and leaves a listed one out only when
\* it is full.
LEMMA RowsCounted ==
  ASSUME LiveInv, NEW seen \in SUBSET Running
  PROVE  /\ Rows(seen) \subseteq seen /\ IsFiniteSet(Rows(seen))
         /\ Cardinality(Rows(seen)) <= MaxTracked
         /\ Cardinality(Reused(seen) \cup Admitted(seen)) \in Nat
         /\ Cardinality(Reused(seen) \cup Gone(seen)) \in Nat
         /\ Cardinality(Rows(seen)) = Cardinality(DOMAIN live) + Cardinality(Reused(seen) \cup Admitted(seen))
                                        - Cardinality(Reused(seen) \cup Gone(seen))
<1> DEFINE tracked == DOMAIN live
           gone == Gone(seen)
           reused == Reused(seen)
           admitted == Admitted(seen)
<1>1. /\ Rows(seen) = (tracked \ gone) \cup admitted
      /\ (tracked \ gone) \cap admitted = {} /\ reused \cap admitted = {} /\ reused \cap gone = {}
      /\ tracked \cap gone = gone /\ reused \subseteq tracked /\ Rows(seen) \subseteq seen
  BY ListedParts DEF Rows, Kept, Reused, Pending, Gone
<1>2. /\ IsFiniteSet(tracked) /\ IsFiniteSet(admitted) /\ IsFiniteSet(gone) /\ IsFiniteSet(reused)
      /\ IsFiniteSet(tracked \ gone)
  <2>1. gone \in SUBSET tracked /\ reused \in SUBSET tracked /\ tracked \ gone \in SUBSET tracked
    BY DEF Gone, Reused
  <2>2. IsFiniteSet(tracked) /\ IsFiniteSet(admitted)
    BY ListedParts
  <2> HIDE DEF tracked, gone, reused
  <2> QED
    BY <2>1, <2>2, FS_Subset
<1> HIDE DEF tracked, gone, reused, admitted
<1>3. /\ Cardinality(tracked) \in Nat /\ Cardinality(admitted) \in Nat /\ Cardinality(gone) \in Nat
      /\ Cardinality(reused) \in Nat /\ Cardinality(tracked \ gone) \in Nat
  BY <1>2, FS_CardinalityType
<1>4. Cardinality(tracked \ gone) = Cardinality(tracked) - Cardinality(gone)
  BY <1>1, <1>2, FS_Difference
<1>5. /\ IsFiniteSet(Rows(seen))
      /\ Cardinality(Rows(seen)) = Cardinality(tracked \ gone) + Cardinality(admitted)
  <2> DEFINE kept == tracked \ gone
  <2>1. Rows(seen) = kept \cup admitted /\ kept \cap admitted = {} /\ IsFiniteSet(kept)
    BY <1>1, <1>2
  <2> HIDE DEF kept
  <2>2. IsFiniteSet(Rows(seen)) /\ Cardinality(Rows(seen)) = Cardinality(kept) + Cardinality(admitted)
    BY <1>2, <2>1, ApartAddUp
  <2> QED
    BY <2>2 DEF kept
<1>6. Cardinality(reused \cup admitted) = Cardinality(reused) + Cardinality(admitted)
  BY <1>1, <1>2, ApartAddUp
<1>7. Cardinality(reused \cup gone) = Cardinality(reused) + Cardinality(gone)
  BY <1>1, <1>2, ApartAddUp
<1>8. admitted = {} \/ Cardinality(tracked) + Cardinality(admitted) <= MaxTracked
  BY ListedParts DEF tracked, admitted
<1>9. Cardinality(tracked) <= MaxTracked /\ MaxTracked \in Nat
  BY LimitsAssumed DEF LiveInv, tracked, LimitsOk
<1>10. Cardinality(Rows(seen)) <= MaxTracked
  BY <1>3, <1>4, <1>5, <1>8, <1>9, FS_EmptySet
<1> QED
  BY <1>1, <1>3, <1>4, <1>5, <1>6, <1>7, <1>10 DEF tracked, gone, reused, admitted

\* An empty table of a host on which nothing has run.
LEMMA InvInit == Init => Inv
<1> SUFFICES ASSUME Init PROVE Inv
  OBVIOUS
<1>1. Running = {}
  BY DEF Init, Running
<1>2. HostInv
  BY <1>1 DEF Init, HostInv, Process, NoProcess
<1>3. DOMAIN live = {}
  BY DEF Init
<1>4. Cardinality(DOMAIN live) = 0 /\ Cardinality(gauges) = 0 /\ IsFiniteSet(emitted)
  BY <1>3, FS_EmptySet DEF Init
<1>5. LiveInv
  <2>1. live = [p \in DOMAIN live |-> live[p]]
    BY DEF Init
  <2> QED
    BY <1>3, <1>4, <2>1, LimitsAssumed DEF LiveInv, LimitsOk
<1>6. BaselinesInv /\ DeltasInv /\ GaugesInv
  BY <1>3, <1>4, LimitsAssumed DEF Init, BaselinesInv, DeltasInv, DeltasAreOwn, GaugesInv, LimitsOk
<1>7. SweepInv
  <2>1. <<>> \in Seq(Change) /\ IsFiniteSet({})
    BY FS_EmptySet
  <2> QED
    BY <2>1 DEF Init, NoSweep, SweepInv
<1> QED
  BY <1>2, <1>5, <1>6, <1>7 DEF Inv

\* A process comes, goes or is closed to the agent, between two cycles or within one.
LEMMA HostMoves ==
  ASSUME Inv, \/ \E p \in Pids, n \in Names : Born(p, n)
              \/ \E p \in Pids : Dies(p) \/ Turns(p)
  PROVE  Inv'
<1>1. UNCHANGED <<live, started, exited, emitted, gauges, sweep, deltas>>
  BY DEF Born, Dies, Turns, tableVars, toldVars
<1>2. /\ HostInv' /\ births <= births' /\ births' \in Nat
      /\ \A q \in Running' : \/ q \in Running /\ host'[q].born = host[q].born
                             \/ host'[q].born = births + 1
  <2>1. ASSUME NEW p \in Pids, NEW n \in Names, Born(p, n)
        PROVE  /\ births' \in Nat /\ births' = births + 1
               /\ host' \in [Pids -> Process]
               /\ host'[p].born = births + 1 /\ host'[p].start = births + 1
               /\ \A q \in Pids \ {p} : host'[q] = host[q]
    <3>1. [name |-> n, born |-> births + 1, start |-> births + 1] \in Process
      BY LimitsAssumed DEF Inv, HostInv, Process, LimitsOk
    <3> QED
      BY <2>1, <3>1 DEF Born, Inv, HostInv
  <2>2. CASE \E p \in Pids, n \in Names : Born(p, n)
    <3>1. PICK p \in Pids, n \in Names : Born(p, n)
      BY <2>2
    <3>2. \A q \in Running' : \/ q = p /\ host'[q].born = births + 1 /\ host'[q].start = births + 1
                              \/ q \in Running /\ host'[q] = host[q]
      BY <2>1, <3>1 DEF Running
    <3> QED
      BY <2>1, <3>1, <3>2 DEF Inv, HostInv
  <2>3. CASE \E p \in Pids : Dies(p)
    <3>1. PICK p \in Pids : Dies(p)
      BY <2>3
    <3>2. NoProcess \in Process
      BY DEF NoProcess, Process
    <3>3. /\ host' \in [Pids -> Process] /\ births' = births
          /\ \A q \in Running' : q \in Running /\ host'[q] = host[q]
      BY <3>1, <3>2 DEF Dies, Running, Inv, HostInv
    <3> QED
      BY <3>3 DEF Inv, HostInv
  <2>4. CASE \E p \in Pids : Turns(p)
    <3>1. PICK p \in Pids : Turns(p)
      BY <2>4
    <3>2. host[p].born \in Nat /\ p \in Running /\ births' = births
      BY <3>1 DEF Turns, Inv, HostInv, Process
    <3>3. /\ host' \in [Pids -> Process]
          /\ host'[p].born = host[p].born /\ host'[p].start \in {0, host[p].born}
          /\ \A q \in Pids \ {p} : host'[q] = host[q]
      BY <3>1, <3>2 DEF Turns, Inv, HostInv, Process
    <3>4. \A q \in Running' : /\ q \in Running /\ host'[q].born = host[q].born
                              /\ host'[q].start \in {0, host[q].born}
      BY <3>2, <3>3 DEF Running, Inv, HostInv
    <3> QED
      BY <3>2, <3>3, <3>4 DEF Inv, HostInv
  <2> QED
    BY <2>2, <2>3, <2>4
\* None that is over runs again.
<1>5. \A n \in 1..births : n \notin Alive => n \notin Alive'
  BY <1>2 DEF Alive, Inv, HostInv
<1>3. LiveInv'
  <2>1. \A p \in DOMAIN live : live[p].born \in 1..births'
    BY <1>2 DEF Inv, LiveInv, HostInv
  <2>2. \A p \in DOMAIN live, q \in Running' : live[p].born = host'[q].born => p = q
    BY <1>2 DEF Inv, LiveInv, HostInv
  <2> QED
    BY <1>1, <2>1, <2>2 DEF Inv, LiveInv
<1>4. SweepInv' /\ GaugesInv'
  BY <1>1 DEF Inv, SweepInv, OwnIO, GaugesInv
<1>6. BaselinesInv'
  <2>1. \A p \in DOMAIN live : live[p].born \in 1..births
    BY DEF Inv, LiveInv
  <2> QED
    BY <1>1, <1>5, <2>1 DEF Inv, BaselinesInv, OwnIO
<1>7. DeltasInv'
  <2>1. births \in Nat
    BY DEF Inv, HostInv
  <2>2. \A d \in deltas : d.of \in 1..births /\ d.of \in 1..births'
    BY <1>2, <2>1 DEF Inv, DeltasInv
  <2> QED
    BY <1>1, <1>5, <2>2 DEF Inv, DeltasInv, DeltasAreOwn
<1> QED
  BY <1>2, <1>3, <1>4, <1>6, <1>7 DEF Inv

\* The executables of a listing.
LEMMA ExecutablesCounted ==
  ASSUME HostInv, NEW seen \in SUBSET Running
  PROVE  /\ SelectExecutables(SelectProcesses(seen)) \subseteq Nat
         /\ IsFiniteSet(SelectExecutables(SelectProcesses(seen)))
<1> DEFINE chosen == SelectProcesses(seen)
           names == RollupBy(chosen)
           current == SelectExecutables(chosen)
<1>1. chosen \in SUBSET Pids /\ IsFiniteSet(chosen)
  <2>1. chosen \in SUBSET Pids
    BY DEF SelectProcesses, Running
  <2> HIDE DEF chosen
  <2> QED
    BY <2>1, LimitsAssumed, FS_Subset DEF LimitsOk
<1>2. names \subseteq Nat /\ IsFiniteSet(names)
  <2>1. names = {host[p].name : p \in chosen} /\ \A p \in chosen : host[p].name \in Nat
    BY <1>1 DEF RollupBy, HostInv, Process
  <2> DEFINE f == [p \in chosen |-> host[p].name]
  <2> HIDE DEF chosen, names
  <2>2. f \in [chosen -> names] /\ \A t \in names : \E p \in chosen : f[p] = t
    BY <2>1
  <2> HIDE DEF f
  <2> QED
    BY <1>1, <2>1, <2>2, ImageCardinality
<1>3. current \subseteq names
  BY DEF SelectExecutables
<1> HIDE DEF names, current
<1>4. current \subseteq Nat /\ IsFiniteSet(current)
  BY <1>2, <1>3, FS_Subset
<1> QED
  BY <1>4 DEF current

\* The rollup: gauges are of the executables it has, and no more than fit.
LEMMA RollupCounted ==
  ASSUME GaugesInv, NEW current, current \subseteq Nat, IsFiniteSet(current)
  PROVE  /\ RetireVanished(AdmitSeries(current), current) \subseteq current
         /\ Cardinality(RetireVanished(AdmitSeries(current), current)) <= MaxSeries
<1> DEFINE new == current \ gauges
           fits == FirstFits(new, Cardinality(gauges), MaxSeries)
           left == RetireVanished(AdmitSeries(current), current)
<1>4. current \subseteq Nat /\ IsFiniteSet(current)
  OBVIOUS
<1>5. AdmitSeries(current) = gauges \cup fits
  BY DEF AdmitSeries, FirstFits
<1>6. left \subseteq current
  BY <1>5 DEF RetireVanished, GaugesInv, FirstFits
<1>7. IsFiniteSet(gauges) /\ Cardinality(gauges) \in Nat /\ Cardinality(gauges) <= MaxSeries /\ MaxSeries \in Nat
  BY FS_Subset, FS_CardinalityType, LimitsAssumed DEF GaugesInv, LimitsOk
<1>8. IsFiniteSet(new) /\ new \subseteq Nat
  BY <1>4, FS_Difference
<1> HIDE DEF new
<1>9. /\ IsFiniteSet(fits) /\ Cardinality(fits) \in Nat
      /\ fits = {} \/ Cardinality(gauges) + Cardinality(fits) <= MaxSeries
  <2> DEFINE n == Cardinality(gauges)
  <2>1. n \in Nat
    BY <1>7
  <2>2. fits = FirstFits(new, n, MaxSeries)
    OBVIOUS
  <2> HIDE DEF n, fits
  <2> QED
    BY <1>7, <1>8, <2>1, <2>2, AdmissionFills DEF n
<1>10. gauges \cap fits = {}
  BY DEF FirstFits, new
<1> HIDE DEF fits
<1>11. IsFiniteSet(gauges \cup fits) /\ Cardinality(gauges \cup fits) <= MaxSeries
  BY <1>7, <1>9, <1>10, ApartAddUp, FS_EmptySet
<1>12. left \in SUBSET (gauges \cup fits)
  BY <1>5 DEF RetireVanished
<1>13. Cardinality(left) <= MaxSeries
  <2>1. Cardinality(left) <= Cardinality(gauges \cup fits) /\ IsFiniteSet(left)
    BY <1>11, <1>12, FS_Subset
  <2>2. Cardinality(left) \in Nat /\ Cardinality(gauges \cup fits) \in Nat
    BY <1>11, <2>1, FS_CardinalityType
  <2> QED
    BY <1>7, <1>11, <2>1, <2>2
<1> QED
  BY <1>4, <1>6, <1>13

\* A number of which there is a least.
LEMMA MinIs ==
  ASSUME NEW T, T \subseteq Nat, T # {}
  PROVE  Min(T) \in T /\ \A y \in T : Min(T) <= y
<1>1. \E x \in T : \A y \in T : x <= y
  BY SmallestIn
<1> QED
  BY <1>1 DEF Min

\* What a cycle finds, as a set.
ReuseChanges(p, seen) == {Exited(p), StartedChange(p, seen), Replaced(p)}
Found(seen) ==
  (UNION {ReuseChanges(p, seen) : p \in Reused(seen)})
    \cup {StartedChange(p, seen) : p \in Admitted(seen)} \cup {Exited(p) : p \in Gone(seen)}

\* Each of the set once, from the lowest up.
LEMMA InOrderIs ==
  ASSUME NEW S, IsFiniteSet(S), S \subseteq Nat
  PROVE  /\ InOrder(S) \in [1 .. Cardinality(S) -> S] /\ Cardinality(S) \in Nat
         /\ ToSet(InOrder(S)) = S
<1>1. InOrder(S) \in SetToSeqs(S)
  BY AscendExists DEF InOrder
<1>2. ToSet(InOrder(S)) = S
  BY <1>1, SeqsHold
<1> QED
  BY <1>1, <1>2, FS_CardinalityType DEF SetToSeqs

\* Each is of a process that was in the table or was listed.
LEMMA ChangesMade ==
  ASSUME HostInv, LiveInv, NEW seen \in SUBSET Running
  PROVE  /\ \A p \in Reused(seen) : ReuseChanges(p, seen) \subseteq Change
         /\ \A p \in Admitted(seen) : StartedChange(p, seen) \in Change
         /\ \A p \in Gone(seen) : Exited(p) \in Change
<1>1. \A p \in Running : p \in Nat /\ host[p].born \in Nat
  BY LimitsAssumed DEF Running, HostInv, LimitsOk, Process
<1>2. \A p \in DOMAIN live : p \in Nat /\ live[p].born \in Nat
  BY LimitsAssumed DEF LiveInv, LimitsOk, Record
<1>3. ASSUME NEW p \in Running PROVE StartedChange(p, seen) \in Change /\ Replaced(p) \in Change
  <2>1. IsRestart(p, seen) \in BOOLEAN
    BY DEF IsRestart
  <2> QED
    BY <1>1, <2>1 DEF StartedChange, Replaced, Change
<1>4. ASSUME NEW p \in DOMAIN live PROVE Exited(p) \in Change
  BY <1>2 DEF Exited, Change
<1>5. /\ Reused(seen) \subseteq seen \cap DOMAIN live /\ Admitted(seen) \subseteq seen
      /\ Gone(seen) \subseteq DOMAIN live
  BY DEF Reused, Admitted, Pending, Gone
<1> QED
  BY <1>3, <1>4, <1>5 DEF ReuseChanges

\* Every process that left the table and every one that came into it is a change of the cycle.
LEMMA ChangesHold ==
  ASSUME HostInv, LiveInv, NEW seen \in SUBSET Running, NEW gone \in SetToSeqs(Gone(seen))
  PROVE  Changes(seen, gone) \in Seq(Change) /\ ToSet(Changes(seen, gone)) = Found(seen)
<1> DEFINE reused == InOrder(Reused(seen))
           admitted == InOrder(Admitted(seen))
           triples == [i \in 1 .. Cardinality(Reused(seen)) |->
                         LET p == reused[i] IN <<Exited(p), StartedChange(p, seen), Replaced(p)>>]
           starts == [i \in 1 .. Cardinality(Admitted(seen)) |-> StartedChange(admitted[i], seen)]
           ends == [i \in 1 .. Len(gone) |-> Exited(gone[i])]
<1>1. IsFiniteSet(Reused(seen)) /\ IsFiniteSet(Gone(seen)) /\ Reused(seen) \subseteq Nat
  <2>1. /\ Reused(seen) \in SUBSET DOMAIN live /\ Gone(seen) \in SUBSET DOMAIN live
        /\ DOMAIN live \subseteq Nat
    BY LimitsAssumed DEF Reused, Gone, LiveInv, LimitsOk
  <2>2. IsFiniteSet(DOMAIN live)
    BY ListedParts
  <2> QED
    BY <2>1, <2>2, FS_Subset
<1>2. IsFiniteSet(Admitted(seen)) /\ Admitted(seen) \subseteq Nat
  BY ListedParts
<1>3. /\ reused \in [1 .. Cardinality(Reused(seen)) -> Reused(seen)] /\ ToSet(reused) = Reused(seen)
      /\ Cardinality(Reused(seen)) \in Nat
  BY <1>1, InOrderIs
<1>4. /\ admitted \in [1 .. Cardinality(Admitted(seen)) -> Admitted(seen)] /\ ToSet(admitted) = Admitted(seen)
      /\ Cardinality(Admitted(seen)) \in Nat
  BY <1>2, InOrderIs
<1>5. gone \in Seq(Gone(seen)) /\ ToSet(gone) = Gone(seen) /\ Len(gone) \in Nat /\ DOMAIN gone = 1 .. Len(gone)
  <2>1. gone \in Seq(Gone(seen)) /\ ToSet(gone) = Gone(seen)
    BY <1>1, SeqsHold
  <2> QED
    BY <2>1
<1> HIDE DEF reused, admitted
<1>6. /\ FlattenSeq(triples) \in Seq(Change)
      /\ ToSet(FlattenSeq(triples)) = UNION {ReuseChanges(p, seen) : p \in Reused(seen)}
  <2>1. \A i \in 1 .. Cardinality(Reused(seen)) :
          /\ triples[i] \in Seq(Change) /\ ToSet(triples[i]) = ReuseChanges(reused[i], seen)
          /\ reused[i] \in Reused(seen)
    <3>1. ASSUME NEW i \in 1 .. Cardinality(Reused(seen))
          PROVE  /\ triples[i] \in Seq(Change) /\ ToSet(triples[i]) = ReuseChanges(reused[i], seen)
                 /\ reused[i] \in Reused(seen)
      <4>1. reused[i] \in Reused(seen)
        BY <1>3
      <4>2. triples[i] = <<Exited(reused[i]), StartedChange(reused[i], seen), Replaced(reused[i])>>
        OBVIOUS
      <4>3. /\ Exited(reused[i]) \in Change /\ StartedChange(reused[i], seen) \in Change
            /\ Replaced(reused[i]) \in Change
        BY <4>1, ChangesMade DEF ReuseChanges
      <4> DEFINE a == Exited(reused[i])
                 b == StartedChange(reused[i], seen)
                 c == Replaced(reused[i])
      <4>4. ReuseChanges(reused[i], seen) = {a, b, c}
        BY DEF ReuseChanges
      <4> HIDE DEF a, b, c, triples
      <4>5. triples[i] = <<a, b, c>>
        BY <4>2 DEF a, b, c
      <4>6. <<a, b, c>> \in Seq(Change)
        BY <4>3 DEF a, b, c
      <4>7. ToSet(<<a, b, c>>) = {a, b, c}
        <5>1. DOMAIN <<a, b, c>> = 1 .. 3
          OBVIOUS
        <5>2. 1 .. 3 = {1, 2, 3}
          OBVIOUS
        <5> QED
          BY <5>1, <5>2 DEF ToSet
      <4> QED
        BY <4>1, <4>4, <4>5, <4>6, <4>7
    <3> QED
      BY <3>1
  <2>2. DOMAIN triples = 1 .. Cardinality(Reused(seen))
    OBVIOUS
  <2>3. triples \in Seq(Seq(Change))
    <3>1. triples \in [1 .. Cardinality(Reused(seen)) -> Seq(Change)]
      BY <2>1
    <3> HIDE DEF triples
    <3> QED
      BY <1>3, <3>1
  <2> HIDE DEF triples
  <2>4. /\ FlattenSeq(triples) \in Seq(Change)
        /\ ToSet(FlattenSeq(triples)) = UNION {ToSet(triples[i]) : i \in DOMAIN triples}
    BY <2>3, FlattenHolds
  <2>5. \A p \in Reused(seen) : \E i \in DOMAIN triples : p = reused[i]
    <3>1. DOMAIN reused = DOMAIN triples
      BY <1>3, <2>2
    <3> QED
      BY <1>3, <3>1 DEF ToSet
  <2>6. UNION {ToSet(triples[i]) : i \in DOMAIN triples} = UNION {ReuseChanges(p, seen) : p \in Reused(seen)}
    <3>1. ASSUME NEW i \in DOMAIN triples
          PROVE  reused[i] \in Reused(seen) /\ ToSet(triples[i]) = ReuseChanges(reused[i], seen)
      BY <2>1, <2>2
    <3> QED
      BY <2>5, <3>1
  <2> QED
    BY <2>4, <2>6
<1>7. starts \in Seq(Change) /\ ToSet(starts) = {StartedChange(p, seen) : p \in Admitted(seen)}
  <2>1. \A i \in 1 .. Cardinality(Admitted(seen)) : admitted[i] \in Admitted(seen)
    BY <1>4
  <2>2. \A p \in Admitted(seen) : \E i \in 1 .. Cardinality(Admitted(seen)) : admitted[i] = p
    BY <1>4 DEF ToSet
  <2>3. starts \in [1 .. Cardinality(Admitted(seen)) -> Change]
    BY <2>1, ChangesMade
  <2>4. starts \in Seq(Change)
    <3> HIDE DEF starts
    <3> QED
      BY <1>4, <2>3
  <2> QED
    BY <2>1, <2>2, <2>4 DEF ToSet
<1>8. ends \in Seq(Change) /\ ToSet(ends) = {Exited(p) : p \in Gone(seen)}
  <2>1. \A i \in 1 .. Len(gone) : gone[i] \in Gone(seen)
    BY <1>5
  <2>2. \A p \in Gone(seen) : \E i \in 1 .. Len(gone) : gone[i] = p
    BY <1>5 DEF ToSet
  <2>3. ends \in [1 .. Len(gone) -> Change]
    BY <2>1, ChangesMade
  <2>4. ends \in Seq(Change)
    <3> HIDE DEF ends
    <3> QED
      BY <1>5, <2>3
  <2> QED
    BY <2>1, <2>2, <2>4 DEF ToSet
<1>9. Changes(seen, gone) = FlattenSeq(triples) \o starts \o ends
  BY Zenon DEF Changes, reused, admitted
<1> DEFINE first == FlattenSeq(triples)
<1> HIDE DEF first, starts, ends
<1>10. first \o starts \in Seq(Change) /\ ToSet(first \o starts) = ToSet(first) \cup ToSet(starts)
  BY <1>6, <1>7, JoinHolds DEF first
<1>14. ToSet(first) = UNION {ReuseChanges(p, seen) : p \in Reused(seen)}
  BY <1>6 DEF first
<1> DEFINE begun == first \o starts
<1>11. Changes(seen, gone) = begun \o ends /\ begun \in Seq(Change)
  BY <1>9, <1>10 DEF first
<1>12. ToSet(begun) = (UNION {ReuseChanges(p, seen) : p \in Reused(seen)})
                          \cup {StartedChange(p, seen) : p \in Admitted(seen)}
  BY <1>7, <1>10, <1>14
<1> HIDE DEF begun
<1>13. begun \o ends \in Seq(Change) /\ ToSet(begun \o ends) = ToSet(begun) \cup ToSet(ends)
  BY <1>8, <1>11, JoinHolds
<1> QED
  BY <1>8, <1>11, <1>12, <1>13 DEF Found

\* Of them those that interest are wanted.
LEMMA WantedHolds ==
  ASSUME NEW changes \in Seq(Change), NEW selected
  PROVE  /\ Wanted(changes, selected) \in Seq(Change)
         /\ ToSet(Wanted(changes, selected)) = {c \in ToSet(changes) : Interesting(c, selected)}
<1> DEFINE kept == [i \in DOMAIN changes |-> IF Interesting(changes[i], selected) THEN <<changes[i]>> ELSE <<>>]
<1>1. DOMAIN changes = 1 .. Len(changes) /\ Len(changes) \in Nat /\ \A i \in DOMAIN changes : changes[i] \in Change
  OBVIOUS
<1>2. ASSUME NEW i \in DOMAIN changes
      PROVE  /\ kept[i] \in Seq(Change)
             /\ ToSet(kept[i]) = IF Interesting(changes[i], selected) THEN {changes[i]} ELSE {}
  <2>1. changes[i] \in Change
    BY <1>1
  <2> DEFINE c == changes[i]
  <2> HIDE DEF c
  <2>2. ToSet(<<c>>) = {c} /\ ToSet(<<>>) = {}
    BY DEF ToSet
  <2>3. c \in Change => <<c>> \in Seq(Change) /\ <<>> \in Seq(Change)
    OBVIOUS
  <2> QED
    BY <2>1, <2>2, <2>3 DEF c
<1>3. kept \in [1 .. Len(changes) -> Seq(Change)] /\ DOMAIN kept = DOMAIN changes
  BY <1>1, <1>2
<1>4. Wanted(changes, selected) = FlattenSeq(kept)
  BY Zenon DEF Wanted
<1> HIDE DEF kept
<1>5. kept \in Seq(Seq(Change))
  BY <1>1, <1>3
<1>6. /\ FlattenSeq(kept) \in Seq(Change)
      /\ ToSet(FlattenSeq(kept)) = UNION {ToSet(kept[i]) : i \in DOMAIN kept}
  BY <1>5, FlattenHolds
<1>7. UNION {ToSet(kept[i]) : i \in DOMAIN kept} = {c \in ToSet(changes) : Interesting(c, selected)}
  <2>1. ASSUME NEW i \in DOMAIN changes, NEW c \in ToSet(kept[i])
        PROVE  c = changes[i] /\ c \in ToSet(changes) /\ Interesting(c, selected)
    BY <1>2, <2>1 DEF ToSet
  <2>2. ASSUME NEW c \in ToSet(changes), Interesting(c, selected)
        PROVE  \E i \in DOMAIN kept : c \in ToSet(kept[i])
    <3>1. PICK i \in DOMAIN changes : c = changes[i]
      BY DEF ToSet
    <3> QED
      BY <1>2, <1>3, <2>2, <3>1
  <2> QED
    BY <1>3, <2>1, <2>2
<1> QED
  BY <1>4, <1>6, <1>7

\* As many of them are told as the budget has room for.
LEMMA ToldHolds ==
  ASSUME NEW changes \in Seq(Change), NEW selected
  PROVE  /\ EmitLifecycle(changes, selected) \in Seq(Change)
         /\ ToSet(EmitLifecycle(changes, selected)) \subseteq ToSet(Wanted(changes, selected))
<1> DEFINE wanted == Wanted(changes, selected)
           m == Min({Len(wanted), MaxEvents})
<1>1. wanted \in Seq(Change) /\ MaxEvents \in Nat
  BY WantedHolds, TableAssumption
<1> HIDE DEF wanted
<1>2. m \in Nat /\ m <= Len(wanted)
  <2>1. Len(wanted) \in Nat
    BY <1>1
  <2>2. {Len(wanted), MaxEvents} \subseteq Nat /\ {Len(wanted), MaxEvents} # {}
    BY <1>1, <2>1
  <2>3. m \in {Len(wanted), MaxEvents} /\ \A y \in {Len(wanted), MaxEvents} : m <= y
    BY <2>2, MinIs
  <2> QED
    BY <1>1, <2>1, <2>3
<1>3. EmitLifecycle(changes, selected) = SubSeq(wanted, 1, m)
  BY Zenon DEF EmitLifecycle, wanted
<1> HIDE DEF m
<1>4. /\ SubSeq(wanted, 1, m) \in Seq(Change)
      /\ DOMAIN SubSeq(wanted, 1, m) = 1 .. m
      /\ \A i \in 1 .. m : SubSeq(wanted, 1, m)[i] = wanted[i]
  BY <1>1, <1>2
<1>5. 1 .. m \subseteq DOMAIN wanted
  BY <1>1, <1>2
<1> QED
  BY <1>3, <1>4, <1>5 DEF ToSet, wanted

\* The instances of events of a kind.
LEMMA BornIs ==
  ASSUME NEW events \in Seq(Change), NEW kind
  PROVE  BornOf(events, kind) = {e.born : e \in {c \in ToSet(events) : c.kind = kind}}
<1>1. DOMAIN events = 1 .. Len(events)
  OBVIOUS
<1> QED
  BY <1>1 DEF BornOf, ToSet

\* What a listing leaves in the table, and takes its deltas from.
LEMMA ListTable ==
  ASSUME Inv, NEW seen \in SUBSET Running, NEW allow \in Aggregate..Detail, ListProcesses(seen, allow)
  PROVE  /\ DOMAIN live' = Rows(seen)
         /\ \A p \in Rows(seen) : /\ live'[p] \in Record
                                  /\ live'[p].born = host[p].born /\ live'[p].cpu = host[p].born
                                  /\ live'[p].start \in {0, host[p].born} /\ OwnIO(p)'
         /\ live' = [p \in DOMAIN live' |-> live'[p]]
         /\ DeltasInv'
<1>1. live' = Reconciled(seen) /\ deltas' = CPUDeltas(seen) /\ UNCHANGED <<host, births>>
  BY DEF ListProcesses
<1>2. /\ Rows(seen) \subseteq Pids /\ Rows(seen) \subseteq Running /\ Kept(seen) \subseteq DOMAIN live
      /\ Kept(seen) \subseteq Rows(seen)
      /\ \A p \in Rows(seen) : host[p] \in Process
  BY RowsCounted DEF Inv, HostInv, Kept, Rows, Running
<1>3. /\ DOMAIN live' = Rows(seen)
      /\ live' = [p \in Rows(seen) |->
                    IF p \in Kept(seen) THEN [live[p] EXCEPT !.born = host[p].born, !.cpu = host[p].born]
                    ELSE Tracked(p)]
  BY <1>1 DEF Reconciled, Rows
\* A stamped record that is kept is of the process that is listed.
<1>4. ASSUME NEW p \in Kept(seen)
      PROVE  /\ live[p] \in Record /\ live[p].start = host[p].start
             /\ live[p].start # 0 => live[p].born = host[p].born /\ live[p].io \in {0, host[p].born}
  <2>1. /\ live[p] \in Record /\ live[p].start \in {0, live[p].born}
        /\ live[p].start = host[p].start /\ host[p].start \in {0, host[p].born}
    BY <1>2 DEF Kept, SameInstance, Inv, LiveInv, HostInv
  <2>2. host[p].born \in Alive
    BY <1>2 DEF Alive
  <2>3. OwnIO(p) \/ live[p].born \notin Alive
    BY <1>2 DEF Inv, BaselinesInv
  <2> QED
    BY <2>1, <2>2, <2>3 DEF OwnIO
<1>5. ASSUME NEW p \in Rows(seen)
      PROVE  /\ live'[p] \in Record /\ live'[p].born = host[p].born /\ live'[p].cpu = host[p].born
             /\ live'[p].start \in {0, host[p].born} /\ OwnIO(p)'
  <2>1. /\ host[p].name \in Nat /\ host[p].born \in Nat /\ host[p].start \in Nat
        /\ host[p].start \in {0, host[p].born}
    BY <1>2 DEF Process, Inv, HostInv
  <2>2. CASE p \in Kept(seen)
    <3>1. /\ live[p] \in Record /\ live[p].start = host[p].start
          /\ live[p].start # 0 => live[p].born = host[p].born /\ live[p].io \in {0, host[p].born}
      BY <1>4, <2>2
    <3> QED
      BY <1>3, <2>1, <2>2, <3>1 DEF Record, OwnIO
  <2>3. CASE p \notin Kept(seen)
    BY <1>3, <2>1, <2>3 DEF Tracked, Record, OwnIO
  <2> QED
    BY <2>2, <2>3
<1>6. DeltasInv'
  <2>1. \A p \in Kept(seen) : /\ live[p].cpu = live[p].born /\ host[p].born \in 1..births
                              /\ live[p].start # 0 => live[p].born = host[p].born
    BY <1>2, <1>4 DEF Inv, LiveInv, HostInv
  <2>2. \A d \in CPUDeltas(seen) : /\ d.stamped => d.from = d.of
                                   /\ d.to = d.of /\ d.of \in 1..births
    <3>1. \A p \in Kept(seen) :
            LET d == DeltaOf(live[p], host[p].born, live[p].cpu, host[p].born)
            IN /\ d.stamped = (live[p].start # 0) /\ d.from = live[p].cpu
               /\ d.of = host[p].born /\ d.to = host[p].born
      BY DEF DeltaOf
    <3>2. \A d \in CPUDeltas(seen) :
            \E p \in Kept(seen) : d = DeltaOf(live[p], host[p].born, live[p].cpu, host[p].born)
      BY Zenon DEF CPUDeltas
    <3> QED
      BY <2>1, <3>1, <3>2
  <2> QED
    BY <1>1, <2>2 DEF DeltasInv, DeltasAreOwn
<1> QED
  BY <1>3, <1>5, <1>6

\* A listing keeps the invariant.
LEMMA ListKeeps ==
  ASSUME Inv, NEW seen \in SUBSET Running, NEW allow \in Aggregate..Detail, ListProcesses(seen, allow)
  PROVE  Inv'
<1>1. UNCHANGED <<host, births, emitted, gauges>>
  BY DEF ListProcesses
<1>2. HostInv'
  BY <1>1 DEF Inv, HostInv, Running
<1>3. /\ DOMAIN live' = Rows(seen)
      /\ \A p \in Rows(seen) : /\ live'[p] \in Record
                               /\ live'[p].born = host[p].born /\ live'[p].cpu = host[p].born
                               /\ live'[p].start \in {0, host[p].born} /\ OwnIO(p)'
      /\ live' = [p \in DOMAIN live' |-> live'[p]]
      /\ DeltasInv'
  BY ListTable
<1>4. /\ Rows(seen) \subseteq seen /\ Cardinality(Rows(seen)) <= MaxTracked
      /\ Cardinality(Reused(seen) \cup Admitted(seen)) \in Nat
      /\ Cardinality(Reused(seen) \cup Gone(seen)) \in Nat
      /\ Cardinality(Rows(seen)) = Cardinality(DOMAIN live) + Cardinality(Reused(seen) \cup Admitted(seen))
                                     - Cardinality(Reused(seen) \cup Gone(seen))
  BY RowsCounted DEF Inv
<1>5. LiveInv'
  <2>1. Rows(seen) \subseteq Running /\ Rows(seen) \subseteq Pids
    BY <1>4 DEF Running
  <2> QED
    BY <1>1, <1>3, <1>4, <2>1 DEF Inv, HostInv, LiveInv, Running
<1>6. BaselinesInv'
  BY <1>3 DEF BaselinesInv
<1>7. SweepInv'
  <2>1. PICK gone \in SetToSeqs(Gone(seen)) :
          sweep' = [on |-> TRUE, changes |-> Changes(seen, gone), selected |-> SelectProcesses(seen),
                    current |-> SelectExecutables(SelectProcesses(seen)), allow |-> allow,
                    unread |-> IF allow >= Detail THEN SelectProcesses(seen) \cap DOMAIN live' ELSE {}]
    BY Zenon DEF ListProcesses
  <2> DEFINE changes == Changes(seen, gone)
             selected == SelectProcesses(seen)
             current == SelectExecutables(selected)
             awaited == IF allow >= Detail THEN selected \cap DOMAIN live' ELSE {}
  <2>2. changes \in Seq(Change)
    BY ChangesHold DEF Inv
  <2>3. selected \in SUBSET Pids /\ allow \in Nat
    BY DEF SelectProcesses, Running, Aggregate, Detail
  <2>4. current \in SUBSET Nat /\ IsFiniteSet(current)
    BY ExecutablesCounted DEF Inv
  <2>5. awaited \subseteq DOMAIN live' /\ awaited \in SUBSET Pids
    BY <2>3
  <2>6. sweep' = [on |-> TRUE, changes |-> changes, selected |-> selected, current |-> current,
                  allow |-> allow, unread |-> awaited]
    BY <2>1
  <2> HIDE DEF changes, selected, current, awaited
  <2>7. \A p \in awaited : OwnIO(p)'
    BY <1>3, <2>5
  <2> QED
    BY <2>2, <2>3, <2>4, <2>5, <2>6, <2>7 DEF SweepInv
<1>8. GaugesInv'
  <2>1. /\ started' = started + Cardinality(Reused(seen) \cup Admitted(seen))
        /\ exited' = exited + Cardinality(Reused(seen) \cup Gone(seen))
    BY DEF ListProcesses
  <2>2. Cardinality(DOMAIN live) \in Nat
    BY ListedParts DEF Inv
  <2>3. started' \in Nat /\ exited' \in Nat /\ started' - exited' = Cardinality(DOMAIN live')
    BY <1>3, <1>4, <2>1, <2>2 DEF Inv, GaugesInv
  <2> QED
    BY <1>1, <2>3 DEF Inv, GaugesInv
<1> QED
  BY <1>2, <1>3, <1>5, <1>6, <1>7, <1>8 DEF Inv

\* A read of the I/O counters of whoever has the PID by then keeps it.
LEMMA ReadKeeps ==
  ASSUME Inv, NEW p \in Pids, ReadDetail(p)
  PROVE  Inv'
<1>1. /\ p \in sweep.unread /\ p \in Running /\ p \in DOMAIN live
      /\ deltas' = deltas \cup IODeltas(p) /\ live' = [live EXCEPT ![p].io = host[p].born]
      /\ sweep' = [sweep EXCEPT !.unread = @ \ {p}]
      /\ UNCHANGED <<host, births, started, exited, emitted, gauges>>
  BY DEF ReadDetail, Inv, SweepInv, toldVars
<1>2. HostInv'
  BY <1>1 DEF Inv, HostInv, Running
<1>3. /\ live[p] \in Record /\ host[p].born \in Nat
      /\ live \in [DOMAIN live -> Record]
  BY <1>1 DEF Inv, LiveInv, HostInv, Process
<1>4. /\ DOMAIN live' = DOMAIN live /\ live' \in [DOMAIN live -> Record]
      /\ \A q \in DOMAIN live : /\ live'[q].born = live[q].born /\ live'[q].cpu = live[q].cpu
                                /\ live'[q].start = live[q].start
                                /\ q # p => live'[q] = live[q]
      /\ live'[p].io = host[p].born
  <2>1. [live[p] EXCEPT !.io = host[p].born] \in Record
    BY <1>3 DEF Record
  <2> QED
    BY <1>1, <1>3, <2>1 DEF Record
<1>5. LiveInv'
  BY <1>1, <1>4 DEF Inv, LiveInv, Running
\* If the PID has changed hands, the record's process is over.
<1>6. host[p].born = live[p].born \/ live[p].born \notin Alive
  BY <1>1 DEF Alive, Inv, LiveInv
<1>7. Alive' = Alive
  BY <1>1 DEF Alive, Running
<1>8. BaselinesInv'
  BY <1>4, <1>6, <1>7 DEF Inv, BaselinesInv, OwnIO
<1>9. DeltasInv'
  <2>1. OwnIO(p) /\ live[p].born \in 1..births
    BY <1>1 DEF Inv, SweepInv, LiveInv
  <2>2. \A d \in IODeltas(p) : /\ d.of = live[p].born /\ d.to = host[p].born
                               /\ d.stamped => d.from = d.of
    <3> DEFINE d == DeltaOf(live[p], live[p].born, live[p].io, host[p].born)
    <3>1. /\ d.stamped = (live[p].start # 0) /\ d.from = live[p].io
          /\ d.of = live[p].born /\ d.to = host[p].born
      BY DEF DeltaOf
    <3>2. \A e \in IODeltas(p) : e = d /\ live[p].io # 0
      BY Zenon DEF IODeltas
    <3> HIDE DEF d
    <3>3. d.stamped /\ live[p].io # 0 => d.from = d.of
      BY <2>1, <3>1 DEF OwnIO
    <3> QED
      BY <3>1, <3>2, <3>3
  <2> QED
    BY <1>1, <1>6, <1>7, <2>1, <2>2 DEF Inv, DeltasInv, DeltasAreOwn
<1>10. SweepInv'
  <2> DEFINE Sweeps == [on : BOOLEAN, changes : Seq(Change), selected : SUBSET Pids,
                        current : SUBSET Nat, allow : Nat, unread : SUBSET Pids]
  <2>1. sweep \in Sweeps
    BY DEF Inv, SweepInv
  <2>2. /\ sweep' \in Sweeps
        /\ sweep'.current = sweep.current /\ sweep'.unread = sweep.unread \ {p}
    BY <1>1, <2>1
  <2> QED
    BY <1>4, <2>2 DEF Inv, SweepInv, OwnIO
<1>11. GaugesInv'
  BY <1>1, <1>4 DEF Inv, GaugesInv
<1> QED
  BY <1>2, <1>5, <1>8, <1>9, <1>10, <1>11 DEF Inv

\* The end of a cycle keeps it.
LEMMA EmitKeeps ==
  ASSUME Inv, EmitCycle
  PROVE  Inv'
<1>1. UNCHANGED <<host, births, deltas, live, started, exited>> /\ sweep' = NoSweep
  BY DEF EmitCycle, tableVars
<1>2. HostInv' /\ LiveInv' /\ BaselinesInv' /\ DeltasInv'
  BY <1>1 DEF Inv, HostInv, LiveInv, BaselinesInv, OwnIO, DeltasInv, DeltasAreOwn, Alive, Running
<1>3. SweepInv'
  <2>1. <<>> \in Seq(Change) /\ IsFiniteSet({})
    BY FS_EmptySet
  <2> QED
    BY <1>1, <2>1 DEF NoSweep, SweepInv
<1>4. GaugesInv'
  <2> DEFINE current == sweep.current
  <2>1. \/ gauges' = RetireVanished(AdmitSeries(current), current) /\ emitted' = current
        \/ gauges' = gauges /\ emitted' = emitted
    BY DEF EmitCycle, Emit
  <2>2. current \subseteq Nat /\ IsFiniteSet(current)
    BY DEF Inv, SweepInv
  <2> HIDE DEF current
  <2>3. /\ RetireVanished(AdmitSeries(current), current) \subseteq current
        /\ Cardinality(RetireVanished(AdmitSeries(current), current)) <= MaxSeries
    BY <2>2, RollupCounted DEF Inv
  <2>4. /\ gauges' \subseteq emitted' /\ emitted' \subseteq Nat /\ IsFiniteSet(emitted')
        /\ Cardinality(gauges') <= MaxSeries
    BY <2>1, <2>2, <2>3 DEF Inv, GaugesInv
  <2> QED
    BY <1>1, <2>4 DEF Inv, GaugesInv
<1> QED
  BY <1>2, <1>3, <1>4 DEF Inv

\* A host that moves and a cycle that looks at it keep the invariant.
LEMMA InvNext == Inv /\ [Next]_vars => Inv'
<1> SUFFICES ASSUME Inv, [Next]_vars PROVE Inv'
  OBVIOUS
<1>1. CASE (\E p \in Pids, n \in Names : Born(p, n)) \/ (\E p \in Pids : Dies(p) \/ Turns(p))
  BY <1>1, HostMoves
<1>2. ASSUME NEW seen \in SUBSET Running, NEW allow \in Aggregate..Detail, ListProcesses(seen, allow)
      PROVE  Inv'
  BY <1>2, ListKeeps
<1>3. ASSUME NEW p \in Pids, ReadDetail(p)
      PROVE  Inv'
  BY <1>3, ReadKeeps
<1>4. CASE EmitCycle
  BY <1>4, EmitKeeps
<1>5. CASE ListingFails
  <2>1. UNCHANGED <<host, births, live, sweep, started, exited, emitted, gauges>> /\ deltas' = {}
    BY <1>5 DEF ListingFails, tableVars, toldVars
  <2> QED
    BY <2>1 DEF Inv, HostInv, LiveInv, BaselinesInv, OwnIO, DeltasInv, DeltasAreOwn, SweepInv, GaugesInv,
                Alive, Running
<1>6. CASE UNCHANGED vars
  BY <1>6 DEF vars, Inv, HostInv, LiveInv, BaselinesInv, OwnIO, DeltasInv, DeltasAreOwn, SweepInv, GaugesInv,
              Alive, Running
<1> QED
  BY <1>1, <1>2, <1>3, <1>4, <1>5, <1>6 DEF Next

\* The table, its deltas and its gauges, for any limits, any number of cycles and any host.
THEOREM TableInvariant == Spec => []Inv
<1> QED
  BY InvInit, InvNext, PTL DEF Spec

\* The instances the table holds.
Watched == {live[p].born : p \in DOMAIN live}

\* While a cycle runs, what left the table in it is among the ends it has to tell, and what it
\* has to tell as started is in the table.
Ends == {c.born : c \in {e \in ToSet(sweep.changes) : e.kind = "exited"}}
Starts == {c.born : c \in {e \in ToSet(sweep.changes) : e.kind = "started"}}
Owed ==
  /\ ~sweep.on => open \subseteq lost \cup Watched
  /\ sweep.on => open \subseteq lost \cup Watched \cup Ends
  /\ sweep.on => Starts \subseteq Watched

\* A listing finds the end of all that leaves the table with it.
LEMMA EndsAreFound ==
  ASSUME Inv, Owed, NEW seen \in SUBSET Running, NEW allow \in Aggregate..Detail, ListProcesses(seen, allow)
  PROVE  Owed'
<1>1. PICK gone \in SetToSeqs(Gone(seen)) : sweep'.changes = Changes(seen, gone) /\ sweep'.on
  BY DEF ListProcesses
<1>2. ToSet(sweep'.changes) = Found(seen)
  BY <1>1, ChangesHold DEF Inv
<1>3. ~sweep.on /\ open' = open /\ lost' = lost \cup Mistaken(seen)
  BY DEF ListProcesses
<1>4. \A p \in Reused(seen) \cup Gone(seen) : live[p].born \in Ends'
  <2>1. ASSUME NEW p \in Reused(seen) \cup Gone(seen) PROVE Exited(p) \in Found(seen)
    <3>1. CASE p \in Reused(seen)
      <4>1. Exited(p) \in ReuseChanges(p, seen)
        BY Zenon DEF ReuseChanges
      <4> QED
        BY <3>1, <4>1, Zenon DEF Found
    <3>2. CASE p \in Gone(seen)
      BY <3>2 DEF Found
    <3> QED
      BY <3>1, <3>2
  <2>2. \A p : Exited(p).kind = "exited" /\ Exited(p).born = live[p].born
    BY DEF Exited
  <2> QED
    BY <1>2, <2>1, <2>2 DEF Ends
<1>5. Starts' \subseteq {host[p].born : p \in Reused(seen) \cup Admitted(seen)}
  <2>1. ASSUME NEW c \in Found(seen), c.kind = "started"
        PROVE  \E p \in Reused(seen) \cup Admitted(seen) : c = StartedChange(p, seen)
    <3>1. \A p : Exited(p).kind = "exited" /\ Replaced(p).kind = "replaced"
      BY DEF Exited, Replaced
    <3>2. \A p : c # Exited(p) /\ c # Replaced(p)
      BY <2>1, <3>1
    <3>3. \A p : c \in ReuseChanges(p, seen) => c = StartedChange(p, seen)
      BY <3>2, Zenon DEF ReuseChanges
    <3> QED
      BY <2>1, <3>2, <3>3 DEF Found
  <2>2. \A p : StartedChange(p, seen).born = host[p].born
    BY DEF StartedChange
  <2> QED
    BY <1>2, <2>1, <2>2 DEF Starts
<1>6. /\ DOMAIN live' = Rows(seen) /\ Rows(seen) = Kept(seen) \cup Reused(seen) \cup Admitted(seen)
      /\ \A p \in Rows(seen) : live'[p].born = host[p].born
  BY ListTable DEF Rows
<1>7. DOMAIN live = Kept(seen) \cup Reused(seen) \cup Gone(seen)
  BY DEF Kept, Reused, Gone
\* One that is kept is the one listed, or has no stamp and is over.
<1>8. ASSUME NEW p \in Kept(seen)
      PROVE  live[p].born = host[p].born \/ live[p].born \in Mistaken(seen)
  <2>1. /\ p \in DOMAIN live /\ p \in Running /\ live[p].start = host[p].start
        /\ live[p].start \in {0, live[p].born} /\ host[p].start \in {0, host[p].born}
    BY DEF Kept, SameInstance, Inv, LiveInv, HostInv
  <2>2. live[p].start # 0 => live[p].born = host[p].born
    BY <2>1
  <2>3. live[p].born \in Alive => live[p].born = host[p].born
    BY <2>1 DEF Alive, Inv, LiveInv
  <2> QED
    BY <2>2, <2>3 DEF Mistaken
<1>9. ASSUME NEW x \in open'
      PROVE  x \in lost' \cup Watched' \cup Ends'
  <2>1. CASE x \in lost
    BY <1>3, <2>1
  <2>2. CASE \E p \in Kept(seen) : x = live[p].born
    <3>1. PICK p \in Kept(seen) : x = live[p].born
      BY <2>2
    <3>2. CASE x \in Mistaken(seen)
      BY <1>3, <3>2
    <3>3. CASE x = host[p].born
      BY <1>6, <3>3 DEF Watched
    <3> QED
      BY <1>8, <3>1, <3>2, <3>3
  <2>3. CASE \E p \in Reused(seen) \cup Gone(seen) : x = live[p].born
    BY <1>4, <2>3
  <2> QED
    BY <1>3, <1>7, <1>9, <2>1, <2>2, <2>3 DEF Owed, Watched
<1>10. Starts' \subseteq Watched'
  BY <1>5, <1>6 DEF Watched
<1> QED
  BY <1>1, <1>9, <1>10 DEF Owed

\* A cycle tells the end of what has left the table, or counts it as shed.
LEMMA EndsAreTold ==
  ASSUME Inv, Owed, EmitCycle
  PROVE  Owed'
<1> DEFINE changes == sweep.changes
           selected == sweep.selected
           allow == sweep.allow
           told == IF allow >= Lifecycle THEN EmitLifecycle(changes, selected) ELSE <<>>
           owed == IF allow >= Lifecycle THEN Wanted(changes, selected) ELSE changes
<1>1. Emit(changes, selected, sweep.current, allow) /\ sweep.on /\ live' = live /\ ~sweep'.on
  BY DEF EmitCycle, tableVars, NoSweep
<1>2. /\ open' = (open \ BornOf(told, "exited")) \cup BornOf(told, "started")
      /\ lost' = (lost \cup (BornOf(owed, "exited") \ BornOf(told, "exited"))) \ BornOf(told, "started")
  BY <1>1, Zenon DEF Emit
<1>3. changes \in Seq(Change)
  BY DEF Inv, SweepInv
<1>4. Ends = BornOf(changes, "exited") /\ Starts = BornOf(changes, "started")
  BY <1>3, BornIs DEF Ends, Starts
<1> HIDE DEF changes, selected, allow
<1>5. told \in Seq(Change) /\ ToSet(told) \subseteq ToSet(changes)
  <2>1. <<>> \in Seq(Change) /\ ToSet(<<>>) = {}
    BY DEF ToSet
  <2> QED
    BY <1>3, <2>1, ToldHolds, WantedHolds
<1>6. owed \in Seq(Change) /\ \A c \in ToSet(changes) : c.kind = "exited" => c \in ToSet(owed)
  BY <1>3, WantedHolds DEF Interesting
<1> HIDE DEF told, owed
<1>7. BornOf(told, "started") \subseteq Watched
  <2>1. BornOf(told, "started") \subseteq BornOf(changes, "started")
    BY <1>3, <1>5, BornIs
  <2> QED
    BY <1>1, <1>4, <2>1 DEF Owed
<1>8. Ends \subseteq BornOf(owed, "exited")
  BY <1>3, <1>4, <1>6, BornIs
<1>9. open' \subseteq lost' \cup Watched
  BY <1>1, <1>2, <1>7, <1>8 DEF Owed
<1> QED
  BY <1>1, <1>9 DEF Owed, Watched

\* ReportsAreTrue: whatever the host does while a cycle reads it, a delta of a process with a
\* start stamp begins with that process, and ends with another only when its own is over; what
\* was reported as started is in the table at the end of each cycle, was reported as ended, or is
\* counted among the exits shed or unseen for want of a stamp; and the gauges are of the last
\* rollup's executables and under their cap, with lifetime counters that differ by what is in
\* the table.
THEOREM TableReportsAreTrue == Spec => []ReportsAreTrue
<1>1. Init => Inv /\ Owed
  BY InvInit DEF Init, NoSweep, Owed
<1>2. Inv /\ Owed /\ [Next]_vars => (Inv /\ Owed)'
  <2> SUFFICES ASSUME Inv, Owed, [Next]_vars PROVE Owed'
    BY InvNext
  <2>1. ASSUME NEW seen \in SUBSET Running, NEW allow \in Aggregate..Detail, ListProcesses(seen, allow)
        PROVE  Owed'
    BY <2>1, EndsAreFound
  <2>2. CASE EmitCycle
    BY <2>2, EndsAreTold
  <2>3. CASE UNCHANGED <<live, open, lost, sweep>>
    BY <2>3 DEF Owed, Watched, Ends, Starts
  <2>4. ASSUME NEW p \in Pids, ReadDetail(p)
        PROVE  Owed'
    <3>1. /\ sweep \in [on : BOOLEAN, changes : Seq(Change), selected : SUBSET Pids,
                        current : SUBSET Nat, allow : Nat, unread : SUBSET Pids]
          /\ live \in [DOMAIN live -> Record]
      BY DEF Inv, SweepInv, LiveInv
    <3>2. sweep' = [sweep EXCEPT !.unread = @ \ {p}] /\ UNCHANGED <<open, lost>>
      BY <2>4 DEF ReadDetail, toldVars
    <3>3. sweep'.on = sweep.on /\ sweep'.changes = sweep.changes
      BY <3>1, <3>2
    <3>4. DOMAIN live' = DOMAIN live /\ \A q \in DOMAIN live : live'[q].born = live[q].born
      BY <2>4, <3>1 DEF ReadDetail, Record
    <3>5. Watched' = Watched
      BY <3>4 DEF Watched
    <3> QED
      BY <3>2, <3>3, <3>5 DEF Owed, Ends, Starts
  <2>5. CASE (\E p \in Pids, n \in Names : Born(p, n)) \/ (\E p \in Pids : Dies(p) \/ Turns(p)) \/ ListingFails
    BY <2>3, <2>5 DEF Born, Dies, Turns, ListingFails, tableVars, toldVars
  <2>6. CASE UNCHANGED vars
    BY <2>3, <2>6 DEF vars
  <2> QED
    BY <2>1, <2>2, <2>4, <2>5, <2>6 DEF Next
<1>3. Inv /\ Owed => ReportsAreTrue
  BY DEF Inv, DeltasInv, GaugesInv, GaugesAreCurrent, ReportsAreTrue, Owed, Watched, StartsAreEnded
<1> QED
  BY <1>1, <1>2, <1>3, PTL DEF Spec

\* The instances of a set of PIDs are as many as the PIDs.
LEMMA InstancesCounted ==
  ASSUME HostInv, NEW S \in SUBSET Running
  PROVE  /\ IsFiniteSet({host[p].born : p \in S})
         /\ Cardinality({host[p].born : p \in S}) = Cardinality(S)
<1> DEFINE T == {host[p].born : p \in S}
           f == [p \in S |-> host[p].born]
<1>1. IsFiniteSet(S)
  BY LimitsAssumed, FS_Subset DEF LimitsOk, Running
<1>2. /\ f \in [S -> T] /\ \A t \in T : \E p \in S : f[p] = t
      /\ \A p, q \in S : f[p] = f[q] => p = q
  BY DEF HostInv
<1> HIDE DEF T, f
<1>3. IsFiniteSet(T) /\ Cardinality(T) = Cardinality(S)
  BY <1>1, <1>2, ImageCardinality
<1> QED
  BY <1>3 DEF T

\* The watched instances are as many as the rows.
LEMMA WatchedCounted ==
  ASSUME LiveInv
  PROVE  IsFiniteSet(Watched) /\ Cardinality(Watched) = Cardinality(DOMAIN live)
<1> DEFINE f == [p \in DOMAIN live |-> live[p].born]
<1>1. IsFiniteSet(DOMAIN live)
  BY LimitsAssumed, FS_Subset DEF LimitsOk, LiveInv
<1>2. /\ f \in [DOMAIN live -> Watched] /\ \A t \in Watched : \E p \in DOMAIN live : f[p] = t
      /\ \A p, q \in DOMAIN live : f[p] = f[q] => p = q
  BY DEF LiveInv, Watched
<1> HIDE DEF f
<1> QED
  BY <1>1, <1>2, ImageCardinality

\* The watch counts as the table does.
LEMMA WatchCounts == \A S : Watch!Cardinality(S) = Cardinality(S)
BY Zenon DEF Watch!Cardinality, Cardinality, Watch!IsFiniteSet, IsFiniteSet

\* A listing is a sample of the watch.
LEMMA ListingIsSample ==
  ASSUME Inv, NEW seen \in SUBSET Running, NEW allow \in Aggregate..Detail, ListProcesses(seen, allow)
  PROVE  Watch!Sample
<1> DEFINE was == {host[p].born : p \in seen}
           fresh == {host[p].born : p \in Admitted(seen)}
<1>1. host' = host
  BY DEF ListProcesses
<1>2. /\ DOMAIN live' = Rows(seen) /\ Rows(seen) \subseteq seen
      /\ \A p \in Rows(seen) : live'[p].born = host[p].born
      /\ Cardinality(Rows(seen)) <= MaxTracked
  BY ListTable, RowsCounted DEF Inv
<1>3. Watched' = {host[p].born : p \in Rows(seen)}
  BY <1>2 DEF Watched
<1>4. Watched \cap was \subseteq Watched'
  <2> SUFFICES ASSUME NEW p \in DOMAIN live, NEW q \in seen, live[p].born = host[q].born
               PROVE  host[q].born \in Watched'
    BY DEF Watched
  <2>1. p = q
    BY DEF Inv, LiveInv
  <2>2. q \in Rows(seen)
    BY <2>1 DEF Rows, Kept, Reused
  <2> QED
    BY <1>3, <2>2
<1>5. Watched' \subseteq was /\ was \subseteq Alive
  BY <1>2, <1>3 DEF Alive
<1>6. IsFiniteSet(Watched') /\ Cardinality(Watched') <= MaxTracked
  <2>1. Rows(seen) \in SUBSET Running
    BY <1>2
  <2> QED
    BY <1>2, <1>3, <2>1, InstancesCounted DEF Inv
<1>7. ASSUME Watched' # was
      PROVE  Cardinality(Watched \cup Watched') >= MaxTracked
  <2>1. Admitted(seen) # Pending(seen)
    <3>1. Admitted(seen) = Pending(seen) => Rows(seen) = seen
      BY DEF Rows, Kept, Reused, Pending
    <3> QED
      BY <1>3, <1>7, <3>1
  <2>2. /\ Cardinality(DOMAIN live) + Cardinality(Admitted(seen)) >= MaxTracked
        /\ Admitted(seen) \in SUBSET Running /\ Admitted(seen) \subseteq Pending(seen)
    BY <2>1, ListedParts DEF Inv, Pending
  <2>3. IsFiniteSet(fresh) /\ Cardinality(fresh) = Cardinality(Admitted(seen))
    BY <2>2, InstancesCounted DEF Inv
  <2>4. IsFiniteSet(Watched) /\ Cardinality(Watched) = Cardinality(DOMAIN live)
    BY WatchedCounted DEF Inv
  <2>5. Watched \cap fresh = {}
    <3> SUFFICES ASSUME NEW p \in DOMAIN live, NEW q \in Admitted(seen), live[p].born = host[q].born
                 PROVE  FALSE
      BY DEF Watched
    <3>1. p = q
      BY <2>2 DEF Inv, LiveInv
    <3> QED
      BY <2>2, <3>1 DEF Pending
  <2>6. fresh \subseteq Watched'
    BY <1>3 DEF Rows
  <2> HIDE DEF fresh
  <2>7. /\ IsFiniteSet(Watched \cup fresh)
        /\ Cardinality(Watched \cup fresh) = Cardinality(Watched) + Cardinality(fresh)
    BY <2>3, <2>4, <2>5, ApartAddUp
  <2>8. IsFiniteSet(Watched \cup Watched') /\ Watched \cup fresh \in SUBSET (Watched \cup Watched')
    BY <1>6, <2>4, <2>6, FS_Union
  <2>9. /\ Cardinality(Watched \cup fresh) <= Cardinality(Watched \cup Watched')
        /\ Cardinality(Watched \cup fresh) \in Nat /\ Cardinality(Watched \cup Watched') \in Nat
    BY <2>7, <2>8, FS_Subset, FS_CardinalityType
  <2>10. MaxTracked \in Nat
    BY LimitsAssumed DEF LimitsOk
  <2> QED
    BY <2>2, <2>3, <2>4, <2>7, <2>9, <2>10
<1>8. Alive' = Alive
  BY <1>1 DEF Alive, Running
<1> HIDE DEF was
<1> QED
  BY <1>4, <1>5, <1>6, <1>7, <1>8, WatchCounts DEF Watch!Sample, Alive, Watched

\* TableIsBoundedWatch: the table implements the bounded watch of the host's instances.
THEOREM TableImplementsWatch == Spec => TableIsBoundedWatch
<1>1. Init => Watch!Init
  BY DEF Init, Watch!Init
<1>2. Inv /\ [Next]_vars => [Watch!HostChanges \/ Watch!Sample]_<<Alive, Watched>>
  <2> SUFFICES ASSUME Inv, [Next]_vars, ~Watch!Sample
               PROVE  Watched' = Watched
    BY DEF Watch!HostChanges, Watched
  <2>1. CASE live' = live
    BY <2>1 DEF Watched
  <2>2. ASSUME NEW p \in Pids, ReadDetail(p)
        PROVE  Watched' = Watched
    <3>1. live \in [DOMAIN live -> Record]
      BY DEF Inv, LiveInv
    <3>2. DOMAIN live' = DOMAIN live /\ \A q \in DOMAIN live : live'[q].born = live[q].born
      BY <2>2, <3>1 DEF ReadDetail, Record
    <3> QED
      BY <3>2 DEF Watched
  <2> QED
    BY <2>1, <2>2, ListingIsSample DEF Next, Born, Dies, Turns, EmitCycle, ListingFails, tableVars, vars
<1>3. Inv /\ [Next]_vars
        => [Watch!HostChanges \/ Watch!Sample]_<<Alive, {live[p].born : p \in DOMAIN live}>>
  BY <1>2 DEF Watched
<1> QED
  BY <1>1, <1>3, TableInvariant, PTL DEF Spec, TableIsBoundedWatch, Watch!Spec

(***************************************************************************)
(* The host module.                                                        *)
(***************************************************************************)
\* What the goroutine and the supervisor's calls keep of settings, entity and pressure.
HostPlace ==
  /\ hostMod \in [settings : HostSettings, staged : SUBSET HostSettings,
                  pressure : Pressure \cup {1}, signal : BOOLEAN, entity : BOOLEAN]
  /\ hostEm \in [settings : HostSettings, bound : BOOLEAN]
  /\ has \in Readers /\ known \in BOOLEAN
  /\ \A h \in hostMod.staged \cup {hostMod.settings} : Parses(h)
  /\ hostMod.entity => known /\ hostEm.bound

\* The schedule: no source is further away than its interval in force, and the timer rings
\* when the first of them is due.
Scheduled ==
  /\ wait \in Nat /\ DOMAIN due \subseteq has /\ \A s \in DOMAIN due : due[s] \in Nat
  /\ ~hostMod.signal => \A s \in Collectable \cap DOMAIN due : due[s] <= EffectiveInterval(s)
  /\ wait > 0 /\ ~hostMod.signal => \A s \in Collectable : s \in DOMAIN due /\ wait <= due[s]

\* The baselines are of the devices the last reading kept, and differ from what the devices show
\* by what was earned since, unless the device was replaced.
Earning ==
  /\ device \in [Device -> [up : BOOLEAN, n : Nat, reset : BOOLEAN]]
  /\ earned \in [Device -> -1 .. MaxCount]
  /\ DOMAIN prev = {d \in Device : earned[d] # Unearned}
  /\ \A d \in DOMAIN prev :
       /\ prev[d] \in Nat /\ device[d].n - prev[d] <= earned[d]
       /\ ~device[d].reset => device[d].n = prev[d] + earned[d]

Processor ==
  jiffies \in [user : Nat, idle : Nat, iowait : Int]

HostModuleInv == HostPlace /\ Scheduled /\ Earning /\ Processor /\ FiguresAreTrue

-----------------------------------------------------------------------------
LEMMA IntervalIs ==
  ASSUME HostPlace, NEW s \in has
  PROVE  EffectiveInterval(s) \in Nat \ {0}
<1> DEFINE i == hostMod.settings.interval[s]
           p == hostMod.pressure
<1>1. s \in DOMAIN hostMod.settings.interval
  BY HostAssumption DEF HostPlace
<1>2. Parses(hostMod.settings) /\ MaxInterval \in Nat \ {0}
  BY HostAssumption DEF HostPlace
<1>3. i \in Nat /\ p \in Nat
  <2>1. i \in 1 .. MaxInterval + 1
    BY <1>1, <1>2 DEF Parses, LongestInterval
  <2>2. p \in Nat
    <3>1. p \in Pressure \cup {1}
      BY DEF HostPlace
    <3>2. \A x \in Pressure \cup {1} : x \in Nat
      BY HostAssumption
    <3> QED
      BY <3>1, <3>2, Zenon
  <2> QED
    BY <1>2, <2>1, <2>2
<1> DEFINE q == i * p
<1>4. q \in Nat
  BY <1>3
<1>5. EffectiveInterval(s) = Longest(1, Shortest(MaxInterval, q))
  BY DEF EffectiveInterval
<1> HIDE DEF i, p, q
<1>6. Longest(1, Shortest(MaxInterval, q)) \in Nat \ {0}
  BY <1>2, <1>4 DEF Longest, Shortest
<1> QED
  BY <1>5, <1>6

\* Nothing sent is nothing to explain.
LEMMA SilenceIsTrue == ASSUME Earning, Earning', Silent PROVE FiguresAreTrue'
<1>1. \A d \in Device : sent'[d] = [delta |-> 0, earned |-> Unearned, whole |-> FALSE]
  BY DEF Silent, NothingSent
<1>2. share' = [part |-> 0, user |-> 0, iowait |-> 0, fell |-> 0, whole |-> 1]
  BY DEF Silent, NoShare, ShareOf
<1>3. DeltasAreEarned'
  BY <1>1 DEF DeltasAreEarned, Longest, Unearned
<1>4. SharesAreShares'
  BY <1>2 DEF SharesAreShares
<1> QED
  BY <1>3, <1>4 DEF FiguresAreTrue

-----------------------------------------------------------------------------
\* Devices count, are replaced and appear.
LEMMA WorldEarns ==
  ASSUME HostModuleInv, NEW d \in Device, Count(d) \/ Unplug(d) \/ Appear(d), prev' = prev
  PROVE  Earning'
<1>1. device[d] \in [up : BOOLEAN, n : Nat, reset : BOOLEAN] /\ earned[d] \in -1 .. MaxCount
  BY DEF HostModuleInv, Earning
<1>2. MaxCount \in Nat
  BY HostAssumption
<1>3. CASE Count(d)
  <2> DEFINE n == device[d].n + 1
             e == IF earned[d] = Unearned THEN Unearned ELSE earned[d] + 1
  <2>1. /\ n \in Nat /\ e \in -1 .. MaxCount /\ (e = Unearned <=> earned[d] = Unearned)
        /\ e # Unearned => e = earned[d] + 1
    BY <1>1, <1>2, <1>3 DEF Count, Unearned
  <2>2. device' = [device EXCEPT ![d].n = n] /\ earned' = [earned EXCEPT ![d] = e]
    BY <1>3 DEF Count
  <2>3. n = device[d].n + 1
    OBVIOUS
  <2> HIDE DEF n, e
  <2>4. /\ device' \in [Device -> [up : BOOLEAN, n : Nat, reset : BOOLEAN]]
        /\ device'[d].n = n /\ device'[d].reset = device[d].reset
        /\ earned' \in [Device -> -1 .. MaxCount] /\ earned'[d] = e
        /\ \A c \in Device : c # d => device'[c] = device[c] /\ earned'[c] = earned[c]
    BY <1>1, <2>1, <2>2 DEF HostModuleInv, Earning
  <2>5. DOMAIN prev' = {c \in Device : earned'[c] # Unearned}
    BY <2>1, <2>4 DEF HostModuleInv, Earning
  <2>6. ASSUME NEW c \in DOMAIN prev'
        PROVE  /\ prev'[c] \in Nat /\ device'[c].n - prev'[c] <= earned'[c]
               /\ ~device'[c].reset => device'[c].n = prev'[c] + earned'[c]
    <3>1. c \in DOMAIN prev /\ c \in Device /\ prev'[c] = prev[c]
      BY DEF HostModuleInv, Earning
    <3>2. /\ prev[c] \in Nat /\ device[c].n - prev[c] <= earned[c]
          /\ ~device[c].reset => device[c].n = prev[c] + earned[c]
      BY <3>1 DEF HostModuleInv, Earning
    <3>3. CASE c # d
      BY <2>4, <3>1, <3>2, <3>3
    <3>4. CASE c = d
      <4>1. earned'[d] = earned[d] + 1
        BY <2>1, <2>4, <3>1, <3>4 DEF HostModuleInv, Earning
      <4> QED
        BY <1>1, <2>3, <2>4, <3>1, <3>2, <3>4, <4>1
    <3> QED
      BY <3>3, <3>4
  <2> QED
    BY <2>4, <2>5, <2>6 DEF Earning
<1>4. CASE Unplug(d) \/ Appear(d)
  <2>1. /\ earned' = earned
        /\ device' \in [Device -> [up : BOOLEAN, n : Nat, reset : BOOLEAN]]
        /\ \A c \in Device : c # d => device'[c] = device[c]
        /\ \/ device'[d].n = device[d].n /\ device'[d].reset = device[d].reset
           \/ device'[d].n = 0 /\ device'[d].reset
    <3>1. CASE Unplug(d)
      <4> DEFINE r == [up |-> FALSE, n |-> 0, reset |-> TRUE]
      <4>1. device' = [device EXCEPT ![d] = r] /\ earned' = earned
        BY <3>1 DEF Unplug
      <4>2. r \in [up : BOOLEAN, n : Nat, reset : BOOLEAN] /\ r.n = 0 /\ r.reset
        OBVIOUS
      <4> HIDE DEF r
      <4> QED
        BY <4>1, <4>2 DEF HostModuleInv, Earning
    <3>2. CASE Appear(d)
      <4>1. device' = [device EXCEPT ![d].up = TRUE] /\ earned' = earned
        BY <3>2 DEF Appear
      <4> QED
        BY <1>1, <4>1 DEF HostModuleInv, Earning
    <3> QED
      BY <1>4, <3>1, <3>2
  <2>2. ASSUME NEW c \in DOMAIN prev
        PROVE  /\ prev[c] \in Nat /\ device'[c].n - prev[c] <= earned[c]
               /\ ~device'[c].reset => device'[c].n = prev[c] + earned[c]
    <3>1. c \in Device /\ earned[c] \in 0 .. MaxCount
      BY DEF HostModuleInv, Earning, Unearned
    <3>2. /\ prev[c] \in Nat /\ device[c].n - prev[c] <= earned[c]
          /\ ~device[c].reset => device[c].n = prev[c] + earned[c]
      BY DEF HostModuleInv, Earning
    <3> QED
      BY <2>1, <3>1, <3>2
  <2> QED
    BY <2>1, <2>2 DEF HostModuleInv, Earning
<1> QED
  BY <1>3, <1>4

\* What a reading of the devices makes of the baselines and sends.
LEMMA DevicesEmitted ==
  ASSUME HostModuleInv, NEW listed, listed \subseteq Device, NEW valued, EmitDevices(listed, valued)
  PROVE  Earning' /\ DeltasAreEarned'
<1> DEFINE kept == SelectBounded(listed, hostEm.settings) \cap valued
<1>1. kept \subseteq Device
  BY DEF SelectBounded
<1> HIDE DEF kept
<1>2. /\ prev' = [d \in kept |-> device[d].n]
      /\ sent' = [d \in Device |->
           [delta |-> IF d \in kept /\ ~hostEm.settings.muted THEN Delta(d) ELSE 0,
            earned |-> earned[d],
            whole |-> d \in kept /\ ~hostEm.settings.muted /\ ~device[d].reset]]
      /\ earned' = [d \in Device |-> IF d \in kept THEN 0 ELSE Unearned]
      /\ device' = [d \in Device |-> [device[d] EXCEPT !.reset = FALSE]]
  BY DEF EmitDevices, Baselines, kept
<1>3. Earning'
  <2>1. MaxCount \in Nat
    BY HostAssumption
  <2>2. \A d \in Device :
          /\ device'[d] \in [up : BOOLEAN, n : Nat, reset : BOOLEAN]
          /\ device'[d].n = device[d].n /\ device[d].n \in Nat
    BY <1>2 DEF HostModuleInv, Earning
  <2>3. device' \in [Device -> [up : BOOLEAN, n : Nat, reset : BOOLEAN]]
    BY <1>2, <2>2
  <2>4. earned' \in [Device -> -1 .. MaxCount]
    BY <1>2, <2>1 DEF Unearned
  <2>5. DOMAIN prev' = {d \in Device : earned'[d] # Unearned}
    BY <1>1, <1>2 DEF Unearned
  <2>6. \A d \in DOMAIN prev' : prev'[d] = device[d].n /\ earned'[d] = 0 /\ d \in Device
    BY <1>1, <1>2
  <2> QED
    BY <2>2, <2>3, <2>4, <2>5, <2>6 DEF Earning
<1>4. ASSUME NEW d \in Device
      PROVE  /\ sent'[d].delta <= Longest(0, sent'[d].earned)
             /\ sent'[d].whole => sent'[d].delta = Longest(0, sent'[d].earned)
  <2> DEFINE e == earned[d]
  <2>1. e \in -1 .. MaxCount /\ MaxCount \in Nat /\ MaxCount < 16
    BY HostAssumption, WrapAssumption DEF HostModuleInv, Earning, Wrap
  <2>2. sent'[d].earned = e /\ Longest(0, e) = IF e < 0 THEN 0 ELSE e
    BY <1>2, <2>1 DEF Longest
  <2>3. CASE d \in kept /\ ~hostEm.settings.muted
    <3>1. sent'[d].delta = Delta(d) /\ (sent'[d].whole <=> ~device[d].reset)
      BY <1>2, <2>3
    <3>2. CASE d \notin DOMAIN prev
      <4>1. Delta(d) = 0 /\ e = -1
        BY <3>2 DEF Delta, HostModuleInv, Earning, Unearned
      <4> QED
        BY <2>2, <3>1, <4>1
    <3>3. CASE d \in DOMAIN prev
      <4> DEFINE n == device[d].n
                 p == prev[d]
      <4>1. /\ n \in Nat /\ p \in Nat /\ n - p <= e /\ e >= 0
            /\ ~device[d].reset => n = p + e
        BY <2>1, <3>3 DEF HostModuleInv, Earning, Unearned
      <4>2. Delta(d) = IF n < p THEN 0 ELSE (n - p) % 16
        BY <3>3 DEF Delta, Increase, Wrap
      <4> HIDE DEF n, p, e
      <4>3. n >= p => (n - p) % 16 = n - p
        BY <2>1, <4>1
      <4> QED
        BY <2>1, <2>2, <3>1, <4>1, <4>2, <4>3
    <3> QED
      BY <3>2, <3>3
  <2>4. CASE ~(d \in kept /\ ~hostEm.settings.muted)
    <3>1. sent'[d].delta = 0 /\ ~sent'[d].whole
      BY <1>2, <2>4
    <3> QED
      BY <2>1, <2>2, <3>1
  <2> QED
    BY <2>3, <2>4
<1> QED
  BY <1>3, <1>4 DEF DeltasAreEarned

\* utilisation, deriveMemory and filterFilesystems give shares.
LEMMA SharesEmitted ==
  ASSUME Processor, NEW ok, EmitSample(ok)
  PROVE  SharesAreShares'
<1>1. ASSUME NEW n \in Nat, NEW m \in 0 .. n, share' = ShareOf(m, n)
      PROVE  SharesAreShares'
  BY <1>1 DEF SharesAreShares, ShareOf
<1>2. CASE share' = NoShare
  BY <1>1, <1>2 DEF NoShare
<1>3. CASE share' = Utilisation
  <2> DEFINE sub(n) == IF n < 0 THEN 0 ELSE n
             span == jiffies.user + jiffies.idle + jiffies.iowait
             idle == jiffies.idle
             user == jiffies.user
             iowait == jiffies.iowait
  <2>1. idle \in Nat /\ user \in Nat /\ iowait \in Int /\ span = user + idle + iowait
    BY DEF Processor
  <2>2. Utilisation = IF ~hasPrev \/ span <= 0 THEN NoShare
                      ELSE [part |-> sub(span - sub(idle)), user |-> sub(user),
                            iowait |-> sub(iowait), fell |-> sub(-iowait), whole |-> span]
    BY DEF Utilisation
  <2> HIDE DEF span, idle, user, iowait
  <2>3. /\ span \in Int
        /\ span > 0 => sub(span - sub(idle)) \in 0 .. span
        /\ sub(user) >= 0 /\ sub(iowait) >= 0
        /\ span > 0 => sub(user) + sub(iowait) <= sub(span - sub(idle)) + sub(-iowait)
    BY <2>1
  <2> HIDE DEF sub
  <2> QED
    BY <1>2, <1>3, <2>2, <2>3 DEF SharesAreShares
<1>4. CASE EmitMemory
  <2>1. PICK m \in ReadMemory :
          share' = IF DeriveMemory(m) < 0 THEN NoShare ELSE ShareOf(DeriveMemory(m), m.total)
    BY <1>4 DEF EmitMemory
  <2>2. m.total \in Nat /\ m.available \in Int /\ m.free \in Int /\ m.cached \in Int
    BY DEF ReadMemory
  <2>3. DeriveMemory(m) \in -1 .. m.total
    BY <2>2 DEF DeriveMemory
  <2> QED
    BY <1>1, <1>2, <2>1, <2>2, <2>3
<1>5. CASE EmitFilesystems
  <2>1. PICK fs \in ReadFilesystems :
          share' = IF fs.total > 0 /\ fs.used >= 0 THEN ShareOf(fs.used, fs.total) ELSE NoShare
    BY <1>5 DEF EmitFilesystems
  <2>2. fs.total \in Nat /\ fs.used \in Int /\ fs.used <= fs.total
    BY DEF ReadFilesystems
  <2> QED
    BY <1>1, <1>2, <2>1, <2>2
<1> QED
  BY <1>2, <1>3, <1>4, <1>5 DEF EmitSample, EmitCPU

\* A pass of the loop.
LEMMA WakeKeepsHost == ASSUME HostModuleInv, Wake PROVE HostModuleInv'
<1>1. PICK ok \in SUBSET DueNow :
        /\ EmitSample(ok)
        /\ hostEm' = [hostEm EXCEPT !.bound = @ \/ RetryEntity(ok)]
        /\ hostMod' = [hostMod EXCEPT !.entity = @ \/ RetryEntity(ok)]
        /\ due' = [s \in DOMAIN due \cup Collectable |->
                     IF s \in DueNow THEN EffectiveInterval(s) ELSE due[s]]
        /\ wait' = TimeUntilNext(due')
  BY DEF Wake
<1>2. wait = 0 /\ UNCHANGED <<has, known>>
  BY DEF Wake
<1> DEFINE retry == RetryEntity(ok)
<1>3. retry \in BOOLEAN /\ (retry => known)
  BY <1>2 DEF RetryEntity, HostModuleInv, HostPlace
<1>4. /\ hostEm' = [hostEm EXCEPT !.bound = @ \/ retry]
      /\ hostMod' = [hostMod EXCEPT !.entity = @ \/ retry]
  BY <1>1
<1> HIDE DEF retry
<1>5. /\ hostMod' \in [settings : HostSettings, staged : SUBSET HostSettings,
                       pressure : Pressure \cup {1}, signal : BOOLEAN, entity : BOOLEAN]
      /\ hostMod'.settings = hostMod.settings /\ hostMod'.pressure = hostMod.pressure
      /\ hostMod'.staged = hostMod.staged /\ hostMod'.signal = hostMod.signal
      /\ hostMod'.entity <=> hostMod.entity \/ retry
      /\ hostEm' \in [settings : HostSettings, bound : BOOLEAN]
      /\ hostEm'.bound <=> hostEm.bound \/ retry
  BY <1>3, <1>4 DEF HostModuleInv, HostPlace
<1>6. HostPlace'
  BY <1>2, <1>3, <1>5 DEF HostModuleInv, HostPlace, Parses
<1>7. Collectable' = Collectable /\ \A s : EffectiveInterval(s)' = EffectiveInterval(s)
  BY <1>2, <1>5 DEF Collectable, EffectiveInterval
<1>8. Collectable \subseteq has /\ DOMAIN due' = DOMAIN due \cup Collectable
  BY <1>1 DEF Collectable
<1>9. \A s \in DOMAIN due' :
        /\ due'[s] \in Nat
        /\ s \in DueNow => due'[s] = EffectiveInterval(s)
        /\ s \notin DueNow => s \in DOMAIN due /\ due'[s] = due[s]
  <2> TAKE s \in DOMAIN due'
  <2>1. due'[s] = IF s \in DueNow THEN EffectiveInterval(s) ELSE due[s]
    BY <1>1, <1>8
  <2>2. s \in DueNow => EffectiveInterval(s) \in Nat
    BY <1>8, IntervalIs DEF HostModuleInv, DueNow
  <2>3. s \notin DueNow => s \in DOMAIN due
    BY <1>8 DEF DueNow
  <2> QED
    BY <2>1, <2>2, <2>3 DEF HostModuleInv, Scheduled
<1>10. \A s \in Collectable : ~hostMod.signal => due'[s] <= EffectiveInterval(s)
  <2> SUFFICES ASSUME NEW s \in Collectable, ~hostMod.signal PROVE due'[s] <= EffectiveInterval(s)
    OBVIOUS
  <2>1. EffectiveInterval(s) \in Nat /\ s \in DOMAIN due'
    BY <1>8, IntervalIs DEF HostModuleInv
  <2>2. s \in DOMAIN due => due[s] <= EffectiveInterval(s)
    BY DEF HostModuleInv, Scheduled
  <2> QED
    BY <1>9, <2>1, <2>2
<1>11. wait' \in Nat /\ \A s \in Collectable : wait' <= due'[s]
  <2>1. CASE Collectable = {}
    BY <1>1, <2>1, HostAssumption DEF TimeUntilNext, Minute
  <2>2. CASE Collectable # {}
    <3> DEFINE T == {due'[s] : s \in Collectable}
    <3>1. wait' = Min(T)
      BY <1>1, <1>8, <2>2 DEF TimeUntilNext
    <3>2. T \subseteq Nat /\ T # {}
      BY <1>8, <1>9, <2>2
    <3>3. Min(T) \in T /\ \A y \in T : Min(T) <= y
      <4> HIDE DEF T
      <4> QED
        BY <3>2, MinIs
    <3> QED
      BY <3>1, <3>2, <3>3
  <2> QED
    BY <2>1, <2>2
<1>12. Scheduled'
  BY <1>2, <1>5, <1>7, <1>8, <1>9, <1>10, <1>11 DEF HostModuleInv, Scheduled
<1>13. Processor'
  BY <1>1 DEF EmitSample, EmitCPU, NoJiffies, HostModuleInv, Processor
<1>14. SharesAreShares'
  BY <1>1, SharesEmitted DEF HostModuleInv
<1>15. Earning' /\ DeltasAreEarned'
  <2>1. CASE UNCHANGED <<device, earned, prev>> /\ sent' = NothingSent
    <3>1. Earning'
      BY <2>1 DEF HostModuleInv, Earning
    <3>2. \A d \in Device : sent'[d] = [delta |-> 0, earned |-> Unearned, whole |-> FALSE]
      BY <2>1 DEF NothingSent
    <3> QED
      BY <3>1, <3>2 DEF DeltasAreEarned, Longest, Unearned
  <2>2. CASE EmitDisk \/ EmitNetwork
    <3>1. PICK listed \in SUBSET Device, valued \in SUBSET Device : EmitDevices(listed, valued)
      BY <2>2 DEF EmitDisk, EmitNetwork, ReadDisks, ReadInterfaces
    <3> QED
      BY <3>1, DevicesEmitted
  <2> QED
    BY <1>1, <2>1, <2>2 DEF EmitSample
<1> QED
  BY <1>6, <1>12, <1>13, <1>14, <1>15 DEF HostModuleInv, FiguresAreTrue

-----------------------------------------------------------------------------
\* The steps that send nothing and leave the devices alone.
LEMMA TickKeepsHost == ASSUME HostModuleInv, Tick PROVE HostModuleInv'
<1>1. /\ wait > 0 /\ wait' = wait - 1 /\ wait \in Nat
      /\ due' = [s \in DOMAIN due |-> IF due[s] = 0 THEN 0 ELSE due[s] - 1]
      /\ UNCHANGED <<has, device, jiffies, known, hostMod, hostEm, prev, earned>> /\ Silent
  BY DEF Tick, HostModuleInv, Scheduled
<1>2. HostPlace' /\ Earning' /\ Processor'
  BY <1>1 DEF HostModuleInv, HostPlace, Earning, Processor, Parses
<1>3. Collectable' = Collectable /\ \A s : EffectiveInterval(s)' = EffectiveInterval(s)
  BY <1>1 DEF Collectable, EffectiveInterval
<1>4. DOMAIN due' = DOMAIN due /\ DOMAIN due \subseteq has
  BY <1>1 DEF HostModuleInv, Scheduled
<1>5. \A s \in DOMAIN due :
        due[s] \in Nat /\ due'[s] \in Nat /\ due'[s] <= due[s] /\ (due[s] > 0 => due'[s] = due[s] - 1)
  BY <1>1 DEF HostModuleInv, Scheduled
<1>6. ~hostMod.signal => \A s \in Collectable : s \in DOMAIN due /\ wait <= due[s]
  BY <1>1 DEF HostModuleInv, Scheduled
<1>7. ~hostMod.signal => \A s \in Collectable \cap DOMAIN due : due'[s] <= EffectiveInterval(s)
  <2> SUFFICES ASSUME ~hostMod.signal, NEW s \in Collectable \cap DOMAIN due
               PROVE  due'[s] <= EffectiveInterval(s)
    OBVIOUS
  <2>1. due[s] <= EffectiveInterval(s) /\ EffectiveInterval(s) \in Nat
    BY <1>4, IntervalIs DEF HostModuleInv, Scheduled
  <2> QED
    BY <1>5, <2>1
<1>8. ~hostMod.signal => \A s \in Collectable : s \in DOMAIN due' /\ wait' <= due'[s]
  BY <1>1, <1>4, <1>5, <1>6
<1>9. Scheduled'
  BY <1>1, <1>3, <1>4, <1>5, <1>7, <1>8 DEF Scheduled
<1> QED
  BY <1>1, <1>2, <1>9, SilenceIsTrue DEF HostModuleInv

LEMMA ReconfiguredKeepsHost == ASSUME HostModuleInv, Reconfigured PROVE HostModuleInv'
<1>1. /\ hostMod' = [hostMod EXCEPT !.signal = FALSE]
      /\ hostEm' = [hostEm EXCEPT !.settings = hostMod.settings, !.bound = hostMod.entity]
      /\ due' = [s \in DOMAIN due |-> 0] /\ wait' = 0
      /\ UNCHANGED <<has, device, jiffies, known, prev, earned>> /\ Silent
  BY DEF Reconfigured, ApplyStagedToEmitter
<1>2. HostPlace' /\ hostMod'.settings = hostMod.settings /\ hostMod'.pressure = hostMod.pressure
  BY <1>1 DEF HostModuleInv, HostPlace, Parses
<1>3. Earning' /\ Processor'
  BY <1>1 DEF HostModuleInv, Earning, Processor
<1>4. \A s \in has' : EffectiveInterval(s)' \in Nat \ {0}
  <2>1. \A s : EffectiveInterval(s)' = EffectiveInterval(s)
    BY <1>2 DEF EffectiveInterval
  <2> QED
    BY <1>1, <2>1, IntervalIs DEF HostModuleInv
<1>5. Scheduled'
  BY <1>1, <1>4 DEF HostModuleInv, Scheduled
<1> QED
  BY <1>1, <1>2, <1>3, <1>5, SilenceIsTrue DEF HostModuleInv

\* A call that leaves the emitter and the schedule alone.
LEMMA CallKeepsHost ==
  ASSUME HostModuleInv, Elsewhere, UNCHANGED hostEm, HostPlace',
         hostMod'.signal \/ ( /\ hostMod'.signal = hostMod.signal
                              /\ hostMod'.settings = hostMod.settings
                              /\ hostMod'.pressure = hostMod.pressure )
  PROVE  HostModuleInv'
<1>1. /\ UNCHANGED <<has, device, jiffies, known, prev, due, wait, earned>> /\ Silent
  BY DEF Elsewhere
<1>2. Earning' /\ Processor'
  BY <1>1 DEF HostModuleInv, Earning, Processor
<1>6. /\ wait' = wait /\ due' = due /\ has' = has /\ wait \in Nat /\ DOMAIN due \subseteq has
      /\ \A s \in DOMAIN due : due[s] \in Nat
  BY <1>1 DEF HostModuleInv, Scheduled
<1>5. Scheduled'
  <2>1. CASE hostMod'.signal
    BY <1>6, <2>1 DEF Scheduled
  <2>2. CASE /\ hostMod'.signal = hostMod.signal /\ hostMod'.settings = hostMod.settings
             /\ hostMod'.pressure = hostMod.pressure
    <3>1. Collectable' = Collectable /\ \A s : EffectiveInterval(s)' = EffectiveInterval(s)
      BY <1>1, <2>2 DEF Collectable, EffectiveInterval
    <3> QED
      BY <1>6, <2>2, <3>1 DEF HostModuleInv, Scheduled
  <2> QED
    BY <2>1, <2>2
<1> QED
  BY <1>1, <1>2, <1>5, SilenceIsTrue DEF HostModuleInv

LEMMA CallsKeepHost ==
  ASSUME HostModuleInv, HostPrepare \/ HostCommit \/ HostRollback \/ HostThrottle
  PROVE  HostModuleInv'
<1>1. hostMod \in [settings : HostSettings, staged : SUBSET HostSettings,
                   pressure : Pressure \cup {1}, signal : BOOLEAN, entity : BOOLEAN]
  BY DEF HostModuleInv, HostPlace
<1>2. CASE HostPrepare
  <2>1. PICK h \in HostSettings : Parses(h) /\ hostMod' = [hostMod EXCEPT !.staged = {h}]
    BY <1>2 DEF HostPrepare
  <2>2. UNCHANGED hostEm /\ Elsewhere
    BY <1>2 DEF HostPrepare
  <2>3. HostPlace'
    BY <1>1, <2>1, <2>2 DEF HostModuleInv, HostPlace, Elsewhere, Parses
  <2> QED
    BY <1>1, <2>1, <2>2, <2>3, CallKeepsHost
<1>3. CASE HostCommit
  <2> DEFINE h == CHOOSE h \in hostMod.staged : TRUE
  <2>1. /\ h \in hostMod.staged /\ UNCHANGED hostEm /\ Elsewhere
        /\ hostMod' = [hostMod EXCEPT !.settings = h, !.staged = {}, !.signal = TRUE]
    BY <1>3 DEF HostCommit
  <2> HIDE DEF h
  <2>2. HostPlace' /\ hostMod'.signal
    BY <1>1, <2>1 DEF HostModuleInv, HostPlace, Elsewhere, Parses
  <2> QED
    BY <2>1, <2>2, CallKeepsHost
<1>4. CASE HostRollback
  <2>1. hostMod' = [hostMod EXCEPT !.staged = {}] /\ UNCHANGED hostEm /\ Elsewhere
    BY <1>4 DEF HostRollback
  <2>2. HostPlace'
    BY <1>1, <2>1 DEF HostModuleInv, HostPlace, Elsewhere, Parses
  <2> QED
    BY <1>1, <2>1, <2>2, CallKeepsHost
<1>5. CASE HostThrottle
  <2>1. PICK p \in Pressure :
          hostMod' = [hostMod EXCEPT !.pressure = p, !.signal = @ \/ p # hostMod.pressure]
    BY <1>5 DEF HostThrottle
  <2>2. UNCHANGED hostEm /\ Elsewhere
    BY <1>5 DEF HostThrottle
  <2>3. HostPlace' /\ hostMod'.settings = hostMod.settings
    BY <1>1, <2>1, <2>2 DEF HostModuleInv, HostPlace, Elsewhere, Parses
  <2>4. hostMod'.pressure = p /\ (hostMod'.signal <=> hostMod.signal \/ p # hostMod.pressure)
    BY <1>1, <2>1
  <2>5. hostMod'.signal \/ (hostMod'.signal = hostMod.signal /\ p = hostMod.pressure)
    BY <1>1, <2>3, <2>4 DEF HostPlace
  <2> QED
    BY <2>2, <2>3, <2>4, <2>5, CallKeepsHost
<1> QED
  BY <1>2, <1>3, <1>4, <1>5

LEMMA RestartKeepsHost == ASSUME HostModuleInv, HostRestart PROVE HostModuleInv'
<1>1. PICK h \in HostSettings : Parses(h) /\ ResolveEntity([hostMod EXCEPT !.settings = h, !.signal = FALSE])
  BY DEF HostRestart
<1>2. /\ prev' = <<>> /\ due' = [s \in {} |-> 0] /\ wait' = 0
      /\ earned' = [d \in Device |-> Unearned]
      /\ UNCHANGED <<has, device, jiffies, known>> /\ Silent
  BY DEF HostRestart
<1>3. /\ hostMod' \in [settings : HostSettings, staged : SUBSET HostSettings,
                       pressure : Pressure \cup {1}, signal : BOOLEAN, entity : BOOLEAN]
      /\ hostMod'.settings = h /\ hostMod'.staged = hostMod.staged
      /\ hostMod'.entity <=> hostMod.entity \/ known
      /\ hostEm' = [settings |-> h, bound |-> known]
  BY <1>1 DEF ResolveEntity, NewEmitter, HostModuleInv, HostPlace
<1>4. HostPlace'
  BY <1>1, <1>2, <1>3 DEF HostModuleInv, HostPlace, Parses
<1>5. DOMAIN due' = {} /\ DOMAIN prev' = {}
  BY <1>2
<1>6. Scheduled'
  BY <1>2, <1>5 DEF Scheduled
<1>7. Earning' /\ Processor'
  <2>1. earned' \in [Device -> -1 .. MaxCount] /\ {d \in Device : earned'[d] # Unearned} = {}
    BY <1>2, HostAssumption DEF Unearned
  <2> QED
    BY <1>2, <1>5, <2>1 DEF HostModuleInv, Earning, Processor
<1> QED
  BY <1>2, <1>4, <1>6, <1>7, SilenceIsTrue DEF HostModuleInv

LEMMA WorldKeepsHost ==
  ASSUME HostModuleInv, HostWorld, UNCHANGED <<has, hostMod, hostEm, prev, hasPrev, due, wait, status, reloads>>,
         Silent
  PROVE  HostModuleInv'
<1>1. known' \in BOOLEAN /\ (known => known')
  BY DEF HostWorld, Resolvable, HostModuleInv, HostPlace
<1>2. HostPlace'
  BY <1>1 DEF HostModuleInv, HostPlace, Parses
<1>3. Collectable' = Collectable /\ \A s : EffectiveInterval(s)' = EffectiveInterval(s)
  BY DEF Collectable, EffectiveInterval
<1>4. Scheduled'
  BY <1>3 DEF HostModuleInv, Scheduled
<1>5. Earning'
  <2>1. CASE \E d \in Device : Count(d) \/ Unplug(d) \/ Appear(d)
    BY <2>1, WorldEarns
  <2>2. CASE UNCHANGED <<device, earned>>
    BY <2>2 DEF HostModuleInv, Earning
  <2> QED
    BY <2>1, <2>2 DEF HostWorld
<1>6. Processor'
  <2>1. CASE Jiffy
    <3>1. PICK f \in {"user", "idle", "iowait"}, by \in {-1, 1} :
            /\ by = -1 => f = "iowait"
            /\ jiffies' = [jiffies EXCEPT ![f] = @ + by]
      BY <2>1 DEF Jiffy
    <3> DEFINE v == jiffies[f] + by
    <3>2. v \in Int /\ (f # "iowait" => v \in Nat)
      BY <3>1 DEF HostModuleInv, Processor
    <3>3. jiffies' = [jiffies EXCEPT ![f] = v]
      BY <3>1
    <3> HIDE DEF v
    <3> QED
      BY <3>2, <3>3 DEF HostModuleInv, Processor
  <2>2. CASE jiffies' = jiffies
    BY <2>2 DEF HostModuleInv, Processor
  <2> QED
    BY <2>1, <2>2 DEF HostWorld
<1> QED
  BY <1>2, <1>4, <1>5, <1>6, SilenceIsTrue DEF HostModuleInv

LEMMA HostStarts == HostInit => HostModuleInv
<1> SUFFICES ASSUME HostInit PROVE HostModuleInv
  OBVIOUS
<1>1. PICK h \in HostSettings :
        /\ Parses(h)
        /\ hostMod = [settings |-> h, staged |-> {}, pressure |-> 1, signal |-> FALSE, entity |-> known]
        /\ hostEm = [NewEmitter(h) EXCEPT !.bound = known]
  BY DEF HostInit
<1>2. known \in BOOLEAN /\ has \in Readers
  BY DEF HostInit
<1>3. HostPlace
  BY <1>1, <1>2 DEF HostPlace, NewEmitter, Parses
<1>4. DOMAIN due = {} /\ DOMAIN prev = {} /\ wait = 0
  BY DEF HostInit
<1>5. Scheduled
  BY <1>4 DEF Scheduled
<1>6. Earning
  <2>1. earned \in [Device -> -1 .. MaxCount] /\ {d \in Device : earned[d] # Unearned} = {}
    BY HostAssumption DEF HostInit, Unearned
  <2>2. device \in [Device -> [up : BOOLEAN, n : Nat, reset : BOOLEAN]]
    BY DEF HostInit
  <2> QED
    BY <1>4, <2>1, <2>2 DEF Earning
<1>7. Processor
  BY DEF HostInit, NoJiffies, Processor
<1>8. FiguresAreTrue
  <2>1. \A d \in Device : sent[d] = [delta |-> 0, earned |-> Unearned, whole |-> FALSE]
    BY DEF HostInit, NothingSent
  <2>2. share = [part |-> 0, user |-> 0, iowait |-> 0, fell |-> 0, whole |-> 1]
    BY DEF HostInit, NoShare, ShareOf
  <2> QED
    BY <2>1, <2>2 DEF FiguresAreTrue, DeltasAreEarned, SharesAreShares, Longest, Unearned
<1> QED
  BY <1>3, <1>5, <1>6, <1>7, <1>8 DEF HostModuleInv

LEMMA HostInvariant == HostSpec => []HostModuleInv
<1>1. HostModuleInv /\ [HostNext]_hostVars => HostModuleInv'
  <2> SUFFICES ASSUME HostModuleInv, [HostNext]_hostVars PROVE HostModuleInv'
    OBVIOUS
  <2>1. CASE UNCHANGED hostVars
    <3>1. Collectable' = Collectable /\ \A s : EffectiveInterval(s)' = EffectiveInterval(s)
      BY <2>1 DEF hostVars, Collectable, EffectiveInterval
    <3>2. HostPlace' /\ Earning' /\ Processor' /\ FiguresAreTrue'
      BY <2>1 DEF hostVars, HostModuleInv, HostPlace, Earning, Processor, Parses, FiguresAreTrue,
                  DeltasAreEarned, SharesAreShares
    <3>3. Scheduled'
      BY <2>1, <3>1 DEF hostVars, HostModuleInv, Scheduled
    <3> QED
      BY <3>2, <3>3 DEF HostModuleInv
  <2> QED
    BY <2>1, WorldKeepsHost, WakeKeepsHost, TickKeepsHost, ReconfiguredKeepsHost, CallsKeepHost,
       RestartKeepsHost DEF HostNext
<1> QED
  BY <1>1, HostStarts, PTL DEF HostSpec

\* FiguresAreTrue: for every set of devices, settings and interval, a delta is what the device
\* counted between two readings that kept it; what is used of a whole is a share of it, and the
\* states of the processor add up to no more than it was busy and what iowait fell by.
THEOREM HostFiguresAreTrue == HostSpec => []FiguresAreTrue
  BY HostInvariant, PTL DEF HostModuleInv

\* SourcesAreKept: for every platform, settings and pressure, the goroutine that sleeps wakes for
\* the first source that is due and for none later than its interval; and a module that calls
\* itself healthy has bound its entity and had no source fail.
THEOREM HostSourcesAreKept == HostSpec => []SourcesAreKept
<1>1. HostModuleInv => SourcesAreKept
  <2> SUFFICES ASSUME HostModuleInv PROVE SourcesAreKept
    OBVIOUS
  <2>1. SourcesAreOnTime
    BY DEF HostModuleInv, Scheduled, SourcesAreOnTime
  <2>2. HealthIsHonest
    BY DEF HostModuleInv, HostPlace, HealthIsHonest, HostHealth
  <2> QED
    BY <2>1, <2>2 DEF SourcesAreKept
<1> QED
  BY <1>1, HostInvariant, PTL

(***************************************************************************)
(* The container module.                                                   *)
(***************************************************************************)
\* A reading of a meter, or none.
MeterReading == {NoReading} \cup [count : Nat, made : Nat]

\* Of two readings the later one has not gained more than was made in between.
NoMoreThanMade(old, new) ==
  old # NoReading /\ new # NoReading => new.count - old.count <= new.made - old.made

\* The readings of a container, from the last one emitted to what its meter shows, and the
\* containers of this cycle.
BoxInv ==
  /\ box \in [Container -> [up : BOOLEAN, count : [Meters -> Nat], made : [Meters -> Nat]]]
  /\ lastNet \in [Container -> MeterReading]
  /\ \A c \in Container : NoMoreThanMade(lastNet[c], Reading(c))
  /\ \A c \in HostNetwork : lastNet[c] = NoReading
  /\ \A c \in DOMAIN samples :
       /\ samples[c].net \in MeterReading /\ (c \in HostNetwork => samples[c].net = NoReading)
       /\ NoMoreThanMade(lastNet[c], samples[c].net) /\ NoMoreThanMade(samples[c].net, Reading(c))
  /\ DOMAIN samples \subseteq Container /\ toRead \subseteq Container \cup {"emit"}
  /\ Cardinality(DOMAIN samples \cup (toRead \ {"emit"})) <= MaxContainers
  /\ series = emittedIDs /\ emittedIDs \subseteq Container /\ Cardinality(series) <= MaxContainers
  /\ shown \in [Container -> [told : Nat, real : Int]] /\ TrafficIsReal

\* A smaller cycle keeps within the limit.
LEMMA FewerContainers ==
  ASSUME NEW S, NEW T, S \subseteq T, T \subseteq Container, Cardinality(T) <= MaxContainers
  PROVE  Cardinality(S) <= MaxContainers
<1>1. IsFiniteSet(T) /\ IsFiniteSet(S)
  BY ContainersAssumption, FS_Subset
<1>2. Cardinality(S) <= Cardinality(T) /\ Cardinality(S) \in Nat /\ Cardinality(T) \in Nat
  BY <1>1, FS_Subset, FS_CardinalityType
<1> QED
  BY <1>2, ContainersAssumption

LEMMA ReadingIs ==
  ASSUME BoxInv, NEW c \in Container
  PROVE  Reading(c) \in [count : Nat, made : Nat] /\ Reading(c) # NoReading
<1>1. box[c].count["net"] \in Nat /\ box[c].made["net"] \in Nat
  BY DEF BoxInv, Meters
<1> QED
  BY <1>1 DEF Reading, NoReading

\* The host moves: a container starts, stops, or receives.
LEMMA HostKeepsBoxInv ==
  ASSUME BoxInv, StartContainer \/ StopContainer \/ Work
  PROVE  BoxInv'
<1> DEFINE Box == [up : BOOLEAN, count : [Meters -> Nat], made : [Meters -> Nat]]
<1>1. PICK c \in Container, r \in Box :
        /\ box' = [box EXCEPT ![c] = r]
        /\ r.count["net"] - box[c].count["net"] <= r.made["net"] - box[c].made["net"]
  <2>1. CASE StartContainer
    <3>1. PICK c \in Container :
            box' = [box EXCEPT ![c].up = TRUE, ![c].count = [m \in Meters |-> 0]]
      BY <2>1 DEF StartContainer
    <3> DEFINE r == [up |-> TRUE, count |-> [m \in Meters |-> 0], made |-> box[c].made]
    <3>2. box[c] \in Box
      BY DEF BoxInv
    <3>3. r \in Box
      BY <3>2
    <3>4. box' = [box EXCEPT ![c] = r]
      <4>1. box'[c] = r
        BY <3>1, <3>2 DEF BoxInv
      <4>2. DOMAIN box' = Container /\ \A d \in Container : d # c => box'[d] = box[d]
        BY <3>1 DEF BoxInv
      <4>3. box' = [d \in Container |-> box'[d]]
        BY <3>1 DEF BoxInv
      <4> QED
        BY <4>1, <4>2, <4>3 DEF BoxInv
    <3>5. r.count["net"] - box[c].count["net"] <= r.made["net"] - box[c].made["net"]
      BY <3>2 DEF Meters
    <3> QED
      BY <3>3, <3>4, <3>5
  <2>2. CASE StopContainer
    <3>1. PICK c \in Container : box' = [box EXCEPT ![c].up = FALSE]
      BY <2>2 DEF StopContainer
    <3> DEFINE r == [box[c] EXCEPT !.up = FALSE]
    <3>2. box[c] \in Box
      BY DEF BoxInv
    <3>3. r \in Box /\ r.count = box[c].count /\ r.made = box[c].made
      BY <3>2
    <3>4. box' = [box EXCEPT ![c] = r]
      BY <3>1, <3>2 DEF BoxInv
    <3>5. r.count["net"] - box[c].count["net"] <= r.made["net"] - box[c].made["net"]
      BY <3>2, <3>3 DEF Meters
    <3> QED
      BY <3>3, <3>4, <3>5
  <2>3. CASE Work
    <3>1. PICK c \in Container, m \in Meters :
            box' = [box EXCEPT ![c].count[m] = @ + 1, ![c].made[m] = @ + 1]
      BY <2>3 DEF Work
    <3>2. box[c] \in Box /\ box[c].count[m] \in Nat /\ box[c].made[m] \in Nat
      BY DEF BoxInv
    <3> DEFINE a == box[c].count[m] + 1
               b == box[c].made[m] + 1
               r == [box[c] EXCEPT !.count[m] = a, !.made[m] = b]
    <3>3. a \in Nat /\ b \in Nat /\ a - box[c].count[m] = 1 /\ b - box[c].made[m] = 1
      BY <3>2
    <3>4. box' = [box EXCEPT ![c] = r]
      BY <3>1, <3>2 DEF BoxInv
    <3> HIDE DEF a, b
    <3>5. r \in Box
      BY <3>2, <3>3
    <3>6. /\ r.count["net"] = IF m = "net" THEN a ELSE box[c].count["net"]
          /\ r.made["net"] = IF m = "net" THEN b ELSE box[c].made["net"]
      BY <3>2, <3>3 DEF Meters
    <3>7. r.count["net"] - box[c].count["net"] <= r.made["net"] - box[c].made["net"]
      BY <3>2, <3>3, <3>6 DEF Meters
    <3> QED
      BY <3>4, <3>5, <3>7
  <2> QED
    BY <2>1, <2>2, <2>3
<1>2. UNCHANGED <<settings, round, toRead, samples, lastCPU, lastNet, emittedIDs, running, series, shown>>
  BY DEF StartContainer, StopContainer, Work
<1>3. box' \in [Container -> Box]
  BY <1>1 DEF BoxInv
<1>4. \A d \in Container :
        /\ Reading(d) \in [count : Nat, made : Nat] /\ Reading(d)' \in [count : Nat, made : Nat]
        /\ Reading(d)'.count - Reading(d).count <= Reading(d)'.made - Reading(d).made
  <2> TAKE d \in Container
  <2>1. /\ box[d].count["net"] \in Nat /\ box[d].made["net"] \in Nat
        /\ box'[d].count["net"] \in Nat /\ box'[d].made["net"] \in Nat
    BY <1>3 DEF BoxInv, Meters
  <2>2. box'[d].count["net"] - box[d].count["net"] <= box'[d].made["net"] - box[d].made["net"]
    BY <1>1, <2>1 DEF BoxInv
  <2> QED
    BY <2>1, <2>2 DEF Reading
<1>5. ASSUME NEW d \in Container, NEW old \in MeterReading, NoMoreThanMade(old, Reading(d))
      PROVE  NoMoreThanMade(old, Reading(d)')
  <2>1. /\ Reading(d) \in [count : Nat, made : Nat] /\ Reading(d)' \in [count : Nat, made : Nat]
        /\ Reading(d)'.count - Reading(d).count <= Reading(d)'.made - Reading(d).made
        /\ Reading(d) # NoReading
    BY <1>4, ReadingIs
  <2>2. old # NoReading => old.count \in Nat /\ old.made \in Nat
    BY DEF MeterReading
  <2> QED
    BY <1>5, <2>1, <2>2 DEF NoMoreThanMade
<1> QED
  BY <1>2, <1>3, <1>5 DEF BoxInv, TrafficIsReal

LEMMA WalkKeepsBoxInv == ASSUME BoxInv, Walk PROVE BoxInv'
<1>1. PICK W \in SUBSET Up :
        /\ Cardinality(W) = IF Cardinality(Up) < MaxContainers THEN Cardinality(Up) ELSE MaxContainers
        /\ toRead' = W \cup {"emit"}
  BY DEF Walk
<1>2. samples = NoSamples
  BY DEF Walk, Resting
<1>3. UNCHANGED <<settings, box, samples, lastCPU, lastNet, emittedIDs, running, series, shown>>
  BY DEF Walk
<1>4. Up \subseteq Container /\ IsFiniteSet(Up)
  BY ContainersAssumption, FS_Subset DEF Up
<1>5. Cardinality(W) <= MaxContainers
  BY <1>1, <1>4, FS_CardinalityType, ContainersAssumption
<1>6. DOMAIN samples' \cup (toRead' \ {"emit"}) = W
  BY <1>1, <1>2, <1>3, <1>4, ContainersAssumption DEF NoSamples
<1>7. \A c : Reading(c)' = Reading(c)
  BY <1>3 DEF Reading
<1> QED
  BY <1>1, <1>3, <1>4, <1>5, <1>6, <1>7 DEF BoxInv, TrafficIsReal

\* A reading has nothing to tell but what the meter shows.
LEMMA ReadKeepsBoxInv == ASSUME BoxInv, ReadContainer PROVE BoxInv'
<1>1. PICK c \in toRead \ {"emit"} :
        /\ toRead' = toRead \ {c}
        /\ \/ \E net \in NetReadings(c) :
                /\ DOMAIN samples' = DOMAIN samples \cup {c} /\ samples'[c].net = net
                /\ \A d \in DOMAIN samples : d # c => samples'[d] = samples[d]
           \/ samples' = samples
  <2>1. PICK c \in toRead \ {"emit"} :
          /\ toRead' = toRead \ {c}
          /\ IF box[c].up
             THEN \E cpuKnown \in BOOLEAN, net \in NetReadings(c) :
                    samples' = [d \in DOMAIN samples \cup {c} |->
                      IF d # c THEN samples[d]
                      ELSE [cpu |-> Elapsed(lastCPU[c], CpuUsage(c, cpuKnown)), known |-> cpuKnown, net |-> net]]
             ELSE samples' = samples
    BY DEF ReadContainer
  <2>2. CASE box[c].up
    <3>1. PICK cpuKnown \in BOOLEAN, net \in NetReadings(c) :
             samples' = [d \in DOMAIN samples \cup {c} |->
               IF d # c THEN samples[d]
               ELSE [cpu |-> Elapsed(lastCPU[c], CpuUsage(c, cpuKnown)), known |-> cpuKnown, net |-> net]]
      BY <2>1, <2>2
    <3>2. /\ DOMAIN samples' = DOMAIN samples \cup {c} /\ samples'[c].net = net
          /\ \A d \in DOMAIN samples : d # c => samples'[d] = samples[d]
      BY <3>1
    <3> QED
      BY <2>1, <3>2
  <2> QED
    BY <2>1, <2>2
<1>2. UNCHANGED <<settings, box, round, lastNet, emittedIDs, running, series, shown>>
  BY DEF ReadContainer
<1>3. c \in Container /\ Reading(c) \in [count : Nat, made : Nat] /\ \A d : Reading(d)' = Reading(d)
  BY <1>1, <1>2, ReadingIs DEF BoxInv, Reading
<1>4. DOMAIN samples' \cup (toRead' \ {"emit"}) \subseteq DOMAIN samples \cup (toRead \ {"emit"})
  BY <1>1
<1>5. Cardinality(DOMAIN samples' \cup (toRead' \ {"emit"})) <= MaxContainers
  BY <1>4, FewerContainers DEF BoxInv
<1>6. ASSUME NEW d \in DOMAIN samples'
      PROVE  /\ samples'[d].net \in MeterReading /\ (d \in HostNetwork => samples'[d].net = NoReading)
             /\ NoMoreThanMade(lastNet[d], samples'[d].net)
             /\ NoMoreThanMade(samples'[d].net, Reading(d))
  <2>1. CASE d \in DOMAIN samples /\ samples'[d] = samples[d]
    BY <2>1 DEF BoxInv
  <2>2. CASE d = c /\ samples'[c].net = Reading(c) /\ c \notin HostNetwork
    BY <1>3, <2>2 DEF BoxInv, MeterReading, NoMoreThanMade
  <2>3. CASE d = c /\ samples'[c].net = NoReading
    BY <2>3 DEF BoxInv, MeterReading, NoMoreThanMade
  <2> QED
    BY <1>1, <2>1, <2>2, <2>3 DEF NetReadings
<1> QED
  BY <1>1, <1>2, <1>3, <1>4, <1>5, <1>6 DEF BoxInv, TrafficIsReal

\* What a cycle tells: the series are its containers', the traffic what was made.
LEMMA EmitKeepsBoxInv == ASSUME BoxInv, EmitSamples PROVE BoxInv'
<1>1. /\ toRead = {"emit"} /\ toRead' = {} /\ samples' = NoSamples
      /\ UNCHANGED <<settings, box, round, lastCPU>>
  BY DEF EmitSamples
<1>2. DOMAIN samples' = {} /\ DOMAIN samples' \cup (toRead' \ {"emit"}) = {}
  BY <1>1 DEF NoSamples
<1>3. Cardinality(DOMAIN samples' \cup (toRead' \ {"emit"})) <= MaxContainers
  <2> DEFINE X == DOMAIN samples' \cup (toRead' \ {"emit"})
  <2>1. X = {} /\ Cardinality({}) = 0
    BY <1>2, FS_EmptySet
  <2> HIDE DEF X
  <2>2. Cardinality(X) <= MaxContainers
    BY <2>1, ContainersAssumption
  <2> QED
    BY <2>2 DEF X
<1>4. Cardinality(Sampled) <= MaxContainers /\ Sampled \subseteq Container
  <2>1. DOMAIN samples \subseteq DOMAIN samples \cup (toRead \ {"emit"})
    OBVIOUS
  <2>2. DOMAIN samples \cup (toRead \ {"emit"}) \subseteq Container
    BY DEF BoxInv
  <2> QED
    BY <2>1, <2>2, FewerContainers DEF BoxInv, Sampled
<1>5. \A c : Reading(c)' = Reading(c)
  BY <1>1 DEF Reading
<1>6. CASE UNCHANGED <<emittedIDs, series, lastNet, shown>>
  BY <1>1, <1>2, <1>3, <1>5, <1>6 DEF BoxInv, TrafficIsReal
<1>7. CASE ~UNCHANGED <<emittedIDs, series, lastNet, shown>>
  <2> DEFINE KeptReading(c) == CASE c \in Retired -> NoReading
                          [] c \in Sampled -> IF samples[c].net = NoReading THEN lastNet[c] ELSE samples[c].net
                          [] OTHER -> lastNet[c]
  <2>1. /\ emittedIDs' = Sampled
        /\ series' = (series \cup Sampled) \ Retired
        /\ lastNet' = [c \in Container |-> KeptReading(c)]
        /\ shown' = [c \in Container |->
               IF c \notin Sampled \/ NetDelta(c) < 0 THEN shown[c]
               ELSE [told |-> NetDelta(c), real |-> samples[c].net.made - lastNet[c].made]]
    BY <1>7 DEF EmitSamples
  <2>2. series' = Sampled
    BY <2>1 DEF Retired, BoxInv
  <2>3. \A c \in Container :
          \/ lastNet'[c] = NoReading
          \/ lastNet'[c] = lastNet[c]
          \/ c \in Sampled /\ lastNet'[c] = samples[c].net
    <3> TAKE c \in Container
    <3>1. lastNet'[c] = KeptReading(c)
      BY <2>1, Zenon
    <3>2. CASE c \in Retired
      BY <3>1, <3>2, Zenon DEF Retired
    <3>3. CASE c \in Sampled
      BY <3>1, <3>3, Zenon DEF Retired
    <3>4. CASE c \notin Retired /\ c \notin Sampled
      BY <3>1, <3>4, Zenon
    <3> QED
      BY <3>2, <3>3, <3>4
  <2>4. lastNet' \in [Container -> MeterReading]
    <3>1. \A c \in Container : lastNet'[c] \in MeterReading
      BY <2>3 DEF BoxInv, Sampled, MeterReading
    <3> HIDE DEF KeptReading
    <3>2. lastNet' = [c \in Container |-> lastNet'[c]]
      BY <2>1
    <3> QED
      BY <3>1, <3>2
  <2>5. \A c \in Container : NoMoreThanMade(lastNet'[c], Reading(c))
    BY <2>3 DEF BoxInv, Sampled, NoMoreThanMade
  <2>6. \A c \in HostNetwork : lastNet'[c] = NoReading
    BY <2>3, ContainersAssumption DEF BoxInv, Sampled
  <2>7. ASSUME NEW c \in Container
        PROVE  /\ shown'[c] \in [told : Nat, real : Int]
               /\ shown'[c].told >= 0 /\ shown'[c].told <= shown'[c].real
    <3>1. CASE c \notin Sampled \/ NetDelta(c) < 0
      <4>1. shown'[c] = shown[c]
        BY <2>1, <3>1
      <4> QED
        BY <4>1 DEF BoxInv, TrafficIsReal
    <3>2. CASE c \in Sampled /\ ~(NetDelta(c) < 0)
      <4>1. shown'[c] = [told |-> NetDelta(c), real |-> samples[c].net.made - lastNet[c].made]
        BY <2>1, <3>2
      <4>2. samples[c].net # NoReading
        BY <3>2 DEF NetDelta
      <4>3. samples[c].net \in [count : Nat, made : Nat]
        BY <3>2, <4>2 DEF BoxInv, Sampled, MeterReading
      <4>4. NetDelta(c) = Elapsed(lastNet[c].count, samples[c].net.count)
        BY <4>2 DEF NetDelta
      <4>5. lastNet[c] # NoReading /\ NetDelta(c) = samples[c].net.count - lastNet[c].count
        BY <3>2, <4>3, <4>4 DEF Elapsed, NoReading
      <4>6. lastNet[c] \in [count : Nat, made : Nat]
        BY <4>5 DEF BoxInv, MeterReading
      <4>7. NoMoreThanMade(lastNet[c], samples[c].net)
        BY <3>2 DEF BoxInv, Sampled
      <4>8. NetDelta(c) \in Nat /\ NetDelta(c) <= samples[c].net.made - lastNet[c].made
        BY <3>2, <4>2, <4>3, <4>5, <4>6, <4>7 DEF NoMoreThanMade
      <4> QED
        BY <4>1, <4>3, <4>6, <4>8
    <3> QED
      BY <3>1, <3>2
  <2>8. shown' \in [Container -> [told : Nat, real : Int]] /\ TrafficIsReal'
    <3>1. shown' = [c \in Container |-> shown'[c]]
      BY <2>1
    <3> QED
      BY <2>7, <3>1 DEF TrafficIsReal
  <2> QED
    BY <1>1, <1>2, <1>3, <1>4, <1>5, <2>1, <2>2, <2>4, <2>5, <2>6, <2>8 DEF BoxInv
<1> QED
  BY <1>6, <1>7

\* ContainersAreReal: for every set of containers, every limit and any work between two
\* readings, the series are those of the last cycle and the traffic told was had.
THEOREM ContainersTold == ContainersInit /\ [][ContainersNext]_boxVars => []ContainersAreReal
<1>1. ContainersInit => BoxInv
  <2> SUFFICES ASSUME ContainersInit PROVE BoxInv
    OBVIOUS
  <2>1. DOMAIN samples = {} /\ DOMAIN samples \cup (toRead \ {"emit"}) = {}
    BY DEF ContainersInit, NoSamples
  <2>2. Cardinality({}) <= MaxContainers
    BY FS_EmptySet, ContainersAssumption
  <2>3. box \in [Container -> [up : BOOLEAN, count : [Meters -> Nat], made : [Meters -> Nat]]]
    BY DEF ContainersInit
  <2>4. lastNet = [c \in Container |-> NoReading] /\ shown = [c \in Container |-> [told |-> 0, real |-> 0]]
    BY DEF ContainersInit
  <2>5. /\ lastNet \in [Container -> MeterReading] /\ \A c \in HostNetwork : lastNet[c] = NoReading
        /\ \A c \in Container : NoMoreThanMade(lastNet[c], Reading(c))
    BY <2>4, ContainersAssumption DEF MeterReading, NoMoreThanMade
  <2>6. shown \in [Container -> [told : Nat, real : Int]] /\ TrafficIsReal
    BY <2>4 DEF TrafficIsReal
  <2> QED
    BY <2>1, <2>2, <2>3, <2>5, <2>6 DEF ContainersInit, BoxInv
<1>2. BoxInv /\ [ContainersNext]_boxVars => BoxInv'
  <2> SUFFICES ASSUME BoxInv, [ContainersNext]_boxVars PROVE BoxInv'
    OBVIOUS
  <2>1. CASE UNCHANGED boxVars
    BY <2>1 DEF boxVars, BoxInv, Reading, TrafficIsReal
  <2> QED
    BY <2>1, HostKeepsBoxInv, WalkKeepsBoxInv, ReadKeepsBoxInv, EmitKeepsBoxInv DEF ContainersNext
<1>3. BoxInv => ContainersAreReal
  BY DEF BoxInv, ContainersAreReal, SeriesAreThisCycles
<1> QED
  BY <1>1, <1>2, <1>3, PTL

(***************************************************************************)
(* The dependency graph.  Kahn's algorithm keeps a module's indegree equal *)
(* to the number of its dependencies that are not placed, and every prefix *)
(* of its order takes the lowest ID that may come next; the search is over *)
(* modules that wait for one another.                                      *)
(***************************************************************************)

LEMMA LowestIs ==
  ASSUME NEW S, S \subseteq Nat, S # {}
  PROVE  /\ Lowest(S) \in S /\ \A y \in S : Lowest(S) <= y
         /\ \A x \in S : (\A y \in S : x <= y) => x = Lowest(S)
<1>1. \E x \in S : \A y \in S : x <= y
  BY SmallestIn
<1>2. Lowest(S) \in S /\ \A y \in S : Lowest(S) <= y
  BY <1>1 DEF Lowest
<1>3. ASSUME NEW x \in S, \A y \in S : x <= y PROVE x = Lowest(S)
  <2>1. x <= Lowest(S) /\ Lowest(S) <= x
    BY <1>2, <1>3
  <2>2. x \in Nat /\ Lowest(S) \in Nat
    BY <1>2
  <2> QED
    BY <2>1, <2>2
<1> QED
  BY <1>2, <1>3

\* What is placed before the k-th module of s, and that s takes the lowest that may be placed.
PlacedBefore(s, k) == {s[i] : i \in 1 .. k - 1}
Greedy(E, D, s) ==
  \A k \in 1 .. Len(s) :
    /\ s[k] \in Placeable(E, D, PlacedBefore(s, k))
    /\ \A x \in Placeable(E, D, PlacedBefore(s, k)) : s[k] <= x

LEMMA GreedyIsInjective ==
  ASSUME NEW E, NEW D, NEW s \in Seq(E), Greedy(E, D, s)
  PROVE  \A i, j \in 1 .. Len(s) : s[i] = s[j] => i = j
<1>1. ASSUME NEW i \in 1 .. Len(s), NEW j \in 1 .. Len(s), i < j PROVE s[i] # s[j]
  <2>1. s[i] \in PlacedBefore(s, j)
    <3>1. i \in 1 .. j - 1
      BY <1>1
    <3> QED
      BY <3>1 DEF PlacedBefore
  <2>2. s[j] \notin PlacedBefore(s, j)
    BY DEF Greedy, Placeable
  <2> QED
    BY <2>1, <2>2
<1> QED
  <2> SUFFICES ASSUME NEW i \in 1 .. Len(s), NEW j \in 1 .. Len(s), s[i] = s[j] PROVE i = j
    OBVIOUS
  <2>1. i \in Nat /\ j \in Nat
    OBVIOUS
  <2>2. ~(i < j) /\ ~(j < i)
    BY <1>1
  <2> QED
    BY <2>1, <2>2

LEMMA GreedyGoesOn ==
  ASSUME NEW E, E \subseteq Nat, NEW D, NEW s \in Seq(E), Greedy(E, D, s),
         NEW x \in Placeable(E, D, Elements(s)),
         \A y \in Placeable(E, D, Elements(s)) : x <= y
  PROVE  /\ Append(s, x) \in Seq(E) /\ Len(Append(s, x)) = Len(s) + 1
         /\ Elements(Append(s, x)) = Elements(s) \cup {x}
         /\ Greedy(E, D, Append(s, x))
<1> DEFINE t == Append(s, x)
<1>1. x \in E
  BY DEF Placeable
<1>2. t \in Seq(E) /\ Len(t) = Len(s) + 1 /\ Len(s) \in Nat
  BY <1>1
<1>3. (\A i \in 1 .. Len(s) : t[i] = s[i]) /\ t[Len(s) + 1] = x
  BY <1>1
<1> HIDE DEF t
<1>4. Elements(t) = Elements(s) \cup {x}
  <2>1. 1 .. Len(t) = (1 .. Len(s)) \cup {Len(s) + 1}
    BY <1>2
  <2> QED
    BY <1>3, <2>1 DEF Elements
<1>5. \A k \in 1 .. Len(s) : PlacedBefore(t, k) = PlacedBefore(s, k)
  BY <1>2, <1>3 DEF PlacedBefore
<1>6. PlacedBefore(t, Len(s) + 1) = Elements(s)
  <2>1. 1 .. (Len(s) + 1) - 1 = 1 .. Len(s)
    BY <1>2
  <2> QED
    BY <1>3, <2>1 DEF PlacedBefore, Elements
<1>7. ASSUME NEW k \in 1 .. Len(t)
      PROVE  /\ t[k] \in Placeable(E, D, PlacedBefore(t, k))
             /\ \A y \in Placeable(E, D, PlacedBefore(t, k)) : t[k] <= y
  <2>1. CASE k \in 1 .. Len(s)
    BY <1>3, <1>5, <2>1 DEF Greedy
  <2>2. CASE k \notin 1 .. Len(s)
    <3>1. k = Len(s) + 1
      BY <1>2, <2>2
    <3> QED
      BY <1>3, <1>6, <3>1
  <2> QED
    BY <2>1, <2>2
<1> QED
  BY <1>2, <1>4, <1>7 DEF Greedy, t

OneMore(E, D, s) ==
  IF Placeable(E, D, Elements(s)) = {} THEN s ELSE Append(s, Lowest(Placeable(E, D, Elements(s))))

LEMMA LowestFirstSteps ==
  ASSUME NEW E, E \subseteq Nat, Cardinality(E) \in Nat, NEW D
  PROVE  \E f : /\ f[0] = <<>>
                /\ \A k \in 1 .. Cardinality(E) : f[k] = OneMore(E, D, f[k - 1])
                /\ LowestFirst(E, D) = f[Cardinality(E)]
<1> DEFINE N == Cardinality(E)
           P(f) == f = [n \in 0 .. N |-> IF n = 0 THEN <<>> ELSE OneMore(E, D, f[n - 1])]
           f0 == CHOOSE f : P(f)
           h == [p \in (1 .. N) \X Seq(E) |-> OneMore(E, D, p[2])]
<1>1. LowestFirst(E, D) = f0[N]
  BY DEF LowestFirst, OneMore
<1>2. h \in [(1 .. N) \X Seq(E) -> Seq(E)]
  <2>1. ASSUME NEW s \in Seq(E) PROVE OneMore(E, D, s) \in Seq(E)
    <3> DEFINE Q == Placeable(E, D, Elements(s))
    <3>1. Q \subseteq E
      BY DEF Placeable
    <3> HIDE DEF Q
    <3>2. Q # {} => Lowest(Q) \in E
      BY <3>1, LowestIs
    <3>3. Q # {} => Append(s, Lowest(Q)) \in Seq(E)
      BY <3>2
    <3> QED
      BY <3>3 DEF OneMore, Q
  <2> QED
    BY <2>1
<1>3. <<>> \in Seq(E) /\ N \in Nat
  OBVIOUS
<1> HIDE DEF h, N
<1>4. PICK f \in [0 .. N -> Seq(E)] : StepsOf(N, <<>>, h, f)
  BY <1>2, <1>3, StepsExist
<1>5. P(f)
  <2>1. ASSUME NEW n \in 0 .. N, n # 0 PROVE h[<<n, f[n - 1]>>] = OneMore(E, D, f[n - 1])
    <3>1. n - 1 \in 0 .. N /\ n \in 1 .. N
      BY <1>3, <2>1
    <3>2. f[n - 1] \in Seq(E)
      BY <3>1
    <3> QED
      BY <3>1, <3>2 DEF h
  <2> QED
    BY <1>4, <2>1 DEF StepsOf
<1>6. P(f0)
  <2> HIDE DEF P
  <2> QED
    BY <1>5
<1> HIDE DEF f0
<1>7. f0[0] = <<>>
  BY <1>3, <1>6
<1>8. \A k \in 1 .. N : f0[k] = OneMore(E, D, f0[k - 1])
  BY <1>3, <1>6
<1> QED
  BY <1>1, <1>7, <1>8 DEF N

\* A complete order that takes the lowest first is the one that LowestFirst defines.
LEMMA GreedyIsLowestFirst ==
  ASSUME NEW E, E \subseteq Nat, NEW D, NEW s \in Seq(E), Greedy(E, D, s), Len(s) = Cardinality(E)
  PROVE  s = LowestFirst(E, D)
<1> DEFINE N == Cardinality(E)
<1>1. N \in Nat
  OBVIOUS
<1>2. PICK f : /\ f[0] = <<>>
               /\ \A k \in 1 .. N : f[k] = OneMore(E, D, f[k - 1])
               /\ LowestFirst(E, D) = f[N]
  BY <1>1, LowestFirstSteps
<1> DEFINE G == {k \in 0 .. N : f[k] = SubSeq(s, 1, k)}
<1> HIDE DEF N
<1>3. 0 \in G
  <2>1. SubSeq(s, 1, 0) = <<>>
    OBVIOUS
  <2>2. 0 \in 0 .. N
    BY <1>1
  <2>3. f[0] = SubSeq(s, 1, 0)
    BY <1>2, <2>1, Zenon
  <2> QED
    BY <2>2, <2>3
<1>4. ASSUME NEW k \in 1 .. N, k - 1 \in G PROVE k \in G
  <2> DEFINE t == SubSeq(s, 1, k - 1)
             Q == Placeable(E, D, Elements(t))
  <2>1. f[k - 1] = t
    BY <1>4
  <2>2. k \in 1 .. Len(s) /\ Len(s) \in Nat
    BY DEF N
  <2>3. Elements(t) = PlacedBefore(s, k)
    <3>1. k - 1 \in 0 .. Len(s)
      BY <2>2
    <3>2. Len(t) = k - 1 /\ \A i \in 1 .. k - 1 : t[i] = s[i]
      BY <3>1, SubSeqProperties
    <3> QED
      BY <3>2 DEF Elements, PlacedBefore
  <2>4. s[k] \in Q /\ \A y \in Q : s[k] <= y
    BY <2>2, <2>3 DEF Greedy
  <2>5. Q \subseteq Nat
    BY DEF Placeable
  <2>6. Append(t, s[k]) = SubSeq(s, 1, k)
    BY <2>2
  <2>7. f[k] = OneMore(E, D, t)
    BY <1>2, <2>1
  <2> HIDE DEF t
  <2>8. f[k] = IF Q = {} THEN t ELSE Append(t, Lowest(Q))
    BY <2>7 DEF OneMore
  <2> HIDE DEF Q
  <2>9. s[k] = Lowest(Q)
    BY <2>4, <2>5, LowestIs
  <2> QED
    <3>1. f[k] = SubSeq(s, 1, k)
      BY <2>4, <2>6, <2>8, <2>9
    <3> QED
      BY <3>1
<1>5. N \in G
  <2> HIDE DEF G
  <2>1. 0 .. N \subseteq G
    BY <1>1, <1>3, <1>4, UpInduction
  <2> QED
    BY <1>1, <2>1
<1>6. SubSeq(s, 1, N) = s
  BY DEF N
<1> QED
  BY <1>2, <1>5, <1>6

\* The modules whose manifest cannot be honoured.
Bad == {m \in Ids : m \in Asked(m) \/ ~(Asked(m) \subseteq Ids)}

GraphType ==
  /\ Ids \subseteq Id /\ manifests \in [Ids -> Lists]
  /\ pc \in {"read", "search", "done"} /\ unread \subseteq Ids
  /\ deps \in [Ids -> SUBSET Ids] /\ indegree \in [Ids -> Nat]
  /\ order \in Seq(Ids) /\ stack \in Seq(Ids)

\* What has been read is in order, and nothing is placed before all is read.
ReadInv ==
  /\ \A m \in Ids \ unread : deps[m] = Asked(m) /\ m \notin Asked(m)
  /\ \A m \in unread : deps[m] = {}
  /\ unread # {} => order = <<>>

\* A module's indegree is what it still waits for, and the lowest that waits for nothing is placed.
PlaceInv ==
  /\ Greedy(Ids, deps, order)
  /\ \A m \in Ids : indegree[m] = Cardinality(deps[m] \ Elements(order))

\* What is searched is what could not be placed, along its dependencies.
SearchInv ==
  pc = "search" =>
    /\ unread = {} /\ Ready = {} /\ Len(order) # Cardinality(Ids)
    /\ \A i \in 1 .. Len(stack) : stack[i] \in Remaining
    /\ \A i \in 1 .. Len(stack) - 1 : stack[i + 1] \in deps[stack[i]]

VerdictInv ==
  /\ pc # "done" => verdict = [kind |-> "none"]
  /\ verdict.kind = "order" => pc = "done" /\ unread = {} /\ Len(order) = Cardinality(Ids)
  /\ VerdictIsRight

\* The search has not begun while manifests are read and modules placed.
StackInv == pc = "read" => stack = <<>>

GraphInv == GraphType /\ ReadInv /\ PlaceInv /\ SearchInv /\ StackInv /\ VerdictInv

LEMMA GraphFacts ==
  ASSUME GraphType
  PROVE  /\ Ids \subseteq Nat /\ IsFiniteSet(Ids) /\ Cardinality(Ids) \in Nat
         /\ \A m \in Ids : manifests[m] \in Seq(Id)
         /\ \A S : IsFiniteSet(deps[S] \cap Ids)
<1>1. IsFiniteSet(Ids)
  BY IdAssumption, FS_Subset DEF GraphType
<1>2. Cardinality(Ids) \in Nat
  BY <1>1, FS_CardinalityType
<1>3. \A S : IsFiniteSet(deps[S] \cap Ids)
  <2> SUFFICES ASSUME NEW S PROVE IsFiniteSet(deps[S] \cap Ids)
    OBVIOUS
  <2>1. deps[S] \cap Ids \subseteq Ids
    OBVIOUS
  <2> QED
    BY <1>1, <2>1, FS_Subset
<1> QED
  BY <1>1, <1>2, <1>3, IdAssumption DEF GraphType

\* A module waits for nothing as soon as all it depends on is placed.
LEMMA WaitsForNothing ==
  ASSUME GraphType, PlaceInv, NEW m \in Ids
  PROVE  /\ IsFiniteSet(deps[m] \ Elements(order))
         /\ indegree[m] = 0 <=> deps[m] \subseteq Elements(order)
<1>1. IsFiniteSet(deps[m] \ Elements(order))
  <2>1. deps[m] \ Elements(order) \subseteq Ids
    BY DEF GraphType
  <2>2. IsFiniteSet(Ids)
    BY GraphFacts
  <2> QED
    BY <2>1, <2>2, FS_Subset
<1>2. Cardinality(deps[m] \ Elements(order)) = 0 <=> deps[m] \ Elements(order) = {}
  BY <1>1, FS_EmptySet
<1>3. indegree[m] = Cardinality(deps[m] \ Elements(order))
  BY DEF PlaceInv
<1> QED
  BY <1>1, <1>2, <1>3

LEMMA ReadyIsPlaceable ==
  ASSUME GraphType, PlaceInv
  PROVE  Ready = Placeable(Ids, deps, Elements(order))
BY WaitsForNothing DEF Ready, Placeable

LEMMA PlacedIsCounted ==
  ASSUME GraphType, PlaceInv
  PROVE  /\ Len(order) \in Nat /\ Elements(order) \subseteq Ids
         /\ Len(order) = Cardinality(Ids) <=> Elements(order) = Ids
<1> DEFINE D == 1 .. Len(order)
           T == Elements(order)
<1>1. Len(order) \in Nat /\ order \in Seq(Ids)
  BY DEF GraphType
<1>2. IsFiniteSet(D) /\ Cardinality(D) = Len(order)
  <2>1. 1 \in Int /\ Len(order) \in Int
    BY <1>1
  <2>2. IsFiniteSet(1 .. Len(order))
        /\ Cardinality(1 .. Len(order)) = IF 1 > Len(order) THEN 0 ELSE Len(order) - 1 + 1
    BY <2>1, FS_Interval
  <2> QED
    BY <1>1, <2>2
<1>3. T \subseteq Ids
  BY <1>1 DEF Elements
<1>4. order \in [D -> T] /\ \A t \in T : \E p \in D : order[p] = t
  BY <1>1 DEF Elements
<1>5. \A p, q \in D : order[p] = order[q] => p = q
  BY <1>1, GreedyIsInjective DEF PlaceInv
<1> HIDE DEF D, T
<1>6. Cardinality(T) = Cardinality(D) /\ IsFiniteSet(T)
  BY <1>2, <1>4, <1>5, ImageCardinality
<1>7. IsFiniteSet(Ids)
  BY GraphFacts
<1>8. Cardinality(T) = Cardinality(Ids) => T = Ids
  BY <1>3, <1>6, <1>7, FS_Subset
<1> QED
  BY <1>1, <1>2, <1>3, <1>6, <1>8 DEF T

LEMMA GraphInitHolds == GraphInit => GraphInv
<1> SUFFICES ASSUME GraphInit PROVE GraphInv
  OBVIOUS
<1> USE DEF Ids
<1>1. PICK E \in SUBSET Id : manifests \in [E -> Lists]
  BY DEF GraphInit
<1>2. GraphType
  BY <1>1 DEF GraphInit, GraphType
<1>3. ReadInv
  BY DEF GraphInit, ReadInv
<1>4. PlaceInv
  <2>1. \A m \in Ids : indegree[m] = 0 /\ deps[m] = {} /\ order = <<>>
    BY DEF GraphInit
  <2>2. Cardinality({}) = 0
    BY FS_EmptySet
  <2>3. Greedy(Ids, deps, order)
    BY DEF GraphInit, Greedy
  <2>4. ASSUME NEW m \in Ids PROVE indegree[m] = Cardinality(deps[m] \ Elements(order))
    <3>1. deps[m] \ Elements(order) = {}
      BY <2>1
    <3> QED
      BY <2>1, <2>2, <3>1
  <2> QED
    BY <2>3, <2>4 DEF PlaceInv
<1>5. SearchInv /\ VerdictInv /\ StackInv
  BY DEF GraphInit, SearchInv, StackInv, VerdictInv, VerdictIsRight
<1> QED
  BY <1>2, <1>3, <1>4, <1>5 DEF GraphInv

LEMMA ReadManifestKeeps == ASSUME GraphInv, ReadManifest PROVE GraphInv'
<1> DEFINE m == Lowest(unread)
<1>1. m \in unread /\ m \in Ids /\ \A y \in unread : m <= y
  <2>1. unread \subseteq Nat /\ unread # {} /\ unread \subseteq Ids
    BY GraphFacts DEF GraphInv, GraphType, ReadManifest
  <2> QED
    BY <2>1, LowestIs
<1>2. /\ pc = "read" /\ manifests' = manifests /\ order' = order /\ stack' = stack
      /\ verdict = [kind |-> "none"]
  BY DEF ReadManifest, GraphInv, VerdictInv
<1>3. order = <<>> /\ Ids' = Ids
  BY <1>1, <1>2 DEF GraphInv, ReadInv, Ids
<1>4. manifests[m] \in Seq(Id) /\ Len(manifests[m]) \in Nat
  BY <1>1, GraphFacts DEF GraphInv
<1> HIDE DEF m
<1>5. CASE \E i \in 1 .. Len(manifests[m]) : Refused(m, i)
  <2>1. PICK i \in 1 .. Len(manifests[m]) : Refused(m, i)
    BY <1>5
  <2> DEFINE d == manifests[m][i]
  <2>2. /\ d = m \/ d \notin Ids
        /\ verdict' = [kind |-> IF d = m THEN "self" ELSE "missing", id |-> m, dependency |-> d]
        /\ pc' = "done" /\ UNCHANGED <<deps, indegree, unread>>
    BY <2>1 DEF Refused, Offends
  <2>3. d \in Asked(m)
    BY DEF Asked, Elements
  <2>4. m \in Bad /\ Bad \subseteq unread
    <3>1. \A x \in Ids \ unread : x \notin Bad
      BY DEF GraphInv, GraphType, ReadInv, Bad
    <3> QED
      BY <1>1, <2>2, <2>3, <3>1 DEF Bad
  <2>5. Bad \subseteq Nat
    BY GraphFacts DEF GraphInv, Bad
  <2> HIDE DEF d
  <2>6. m = Lowest(Bad)
    <3>1. \A y \in Bad : m <= y
      BY <1>1, <2>4
    <3> QED
      BY <2>4, <2>5, <3>1, LowestIs
  <2>7. Bad' = Bad /\ Elements(manifests'[m]) = Asked(m)
    BY <1>2, <1>3 DEF Bad, Asked
  <2>8. VerdictIsRight'
    <3>1. CASE d = m
      <4>1. verdict'.kind = "self" /\ verdict'.id = m
        BY <2>2, <3>1
      <4>2. verdict'.id = Lowest(Bad') /\ verdict'.id \in Elements(manifests'[verdict'.id])
        BY <2>3, <2>6, <2>7, <3>1, <4>1
      <4> QED
        BY <4>1, <4>2 DEF VerdictIsRight, Bad, Asked
    <3>2. CASE d # m
      <4>1. verdict'.kind = "missing" /\ verdict'.id = m /\ verdict'.dependency = d
        BY <2>2, <3>2
      <4>2. verdict'.id = Lowest(Bad') /\ verdict'.dependency \in Elements(manifests'[verdict'.id]) \ Ids'
        BY <1>3, <2>2, <2>3, <2>6, <2>7, <3>2, <4>1
      <4> QED
        BY <4>1, <4>2 DEF VerdictIsRight, Bad, Asked
    <3> QED
      BY <3>1, <3>2
  <2>9. VerdictInv'
    BY <2>2, <2>8 DEF VerdictInv
  <2>10. GraphType' /\ ReadInv' /\ PlaceInv' /\ SearchInv' /\ StackInv'
    BY <1>2, <1>3, <2>2 DEF StackInv, GraphInv, GraphType, ReadInv, PlaceInv, SearchInv, Asked
  <2> QED
    BY <2>9, <2>10 DEF GraphInv
<1>6. CASE ~\E i \in 1 .. Len(manifests[m]) : Refused(m, i)
  <2>1. /\ \A i \in 1 .. Len(manifests[m]) : ~Offends(m, i)
        /\ deps' = [deps EXCEPT ![m] = Elements(manifests[m])]
        /\ indegree' = [indegree EXCEPT ![m] = Distinct(m)]
        /\ unread' = unread \ {m}
        /\ UNCHANGED <<pc, verdict>>
    BY <1>6 DEF ReadManifest, m
  <2>2. Asked(m) \subseteq Ids /\ m \notin Asked(m)
    BY <1>4, <2>1 DEF Offends, Asked, Elements
  <2>3. deps' = [deps EXCEPT ![m] = Asked(m)] /\ deps' \in [Ids -> SUBSET Ids]
    BY <1>1, <2>1, <2>2 DEF Asked, GraphInv, GraphType
  <2>4. indegree' = [indegree EXCEPT ![m] = Cardinality(Asked(m))] /\ Cardinality(Asked(m)) \in Nat
    <3>1. IsFiniteSet(Ids)
      BY GraphFacts DEF GraphInv
    <3>2. Cardinality(Asked(m)) \in Nat
      BY <2>2, <3>1, FS_Subset, FS_CardinalityType
    <3> QED
      BY <2>1, <3>2 DEF Distinct, Asked
  <2>5. GraphType'
    BY <1>1, <1>2, <1>3, <2>1, <2>3, <2>4 DEF GraphInv, GraphType
  <2>6. ReadInv'
    <3>1. \A x \in Ids : Asked(x)' = Asked(x)
      BY <1>2 DEF Asked
    <3>2. \A x \in Ids : deps'[x] = IF x = m THEN Asked(m) ELSE deps[x]
      BY <2>3 DEF GraphInv, GraphType
    <3>3. \A x \in Ids' \ unread' : deps'[x] = Asked(x)' /\ x \notin Asked(x)'
      BY <1>3, <2>1, <2>2, <3>1, <3>2 DEF GraphInv, ReadInv
    <3>4. \A x \in unread' : deps'[x] = {}
      BY <1>1, <2>1, <3>2 DEF GraphInv, GraphType, ReadInv
    <3> QED
      BY <1>2, <1>3, <3>3, <3>4 DEF ReadInv
  <2>7. PlaceInv'
    <3>1. Greedy(Ids', deps', order')
      BY <1>2, <1>3 DEF Greedy
    <3>2. Elements(order) = {}
      BY <1>3 DEF Elements
    <3>3. ASSUME NEW x \in Ids PROVE indegree'[x] = Cardinality(deps'[x] \ {})
      <4>1. indegree[x] = Cardinality(deps[x] \ {})
        BY <3>2 DEF GraphInv, PlaceInv
      <4>2. deps'[x] \ {} = deps'[x] /\ deps[x] \ {} = deps[x]
        OBVIOUS
      <4>3. CASE x = m
        <5>1. deps'[x] = Asked(m) /\ indegree'[x] = Cardinality(Asked(m))
          BY <1>1, <2>3, <2>4, <4>3 DEF GraphInv, GraphType
        <5> QED
          BY <4>2, <5>1
      <4>4. CASE x # m
        <5>1. deps'[x] = deps[x] /\ indegree'[x] = indegree[x]
          BY <2>3, <2>4, <4>4 DEF GraphInv, GraphType
        <5> QED
          BY <4>1, <5>1
      <4> QED
        BY <4>3, <4>4
    <3> QED
      BY <1>2, <1>3, <3>1, <3>2, <3>3 DEF PlaceInv
  <2>8. SearchInv' /\ VerdictInv' /\ StackInv'
    BY <1>2, <2>1 DEF GraphInv, StackInv, SearchInv, VerdictInv, VerdictIsRight
  <2> QED
    BY <2>5, <2>6, <2>7, <2>8 DEF GraphInv
<1> QED
  BY <1>5, <1>6

LEMMA PlaceLowestKeeps == ASSUME GraphInv, PlaceLowest PROVE GraphInv'
<1> DEFINE m == Lowest(Ready)
<1>1. /\ pc = "read" /\ unread = {} /\ Ready # {}
      /\ order' = Append(order, m) /\ indegree' = [d \in Ids |-> Decrement(d, m)]
      /\ UNCHANGED <<manifests, pc, unread, deps, stack, verdict>>
  BY DEF PlaceLowest, Pop
<1>2. GraphType /\ PlaceInv /\ Ids \subseteq Nat /\ Ids' = Ids /\ IsFiniteSet(Ids)
  BY <1>1, GraphFacts DEF GraphInv, Ids
<1>3. Ready = Placeable(Ids, deps, Elements(order))
  BY <1>2, ReadyIsPlaceable
<1>4. m \in Ready /\ \A y \in Ready : m <= y
  <2>1. Ready \subseteq Nat
    BY <1>2 DEF Ready
  <2> QED
    BY <1>1, <2>1, LowestIs
<1> HIDE DEF m
<1>5. /\ order' \in Seq(Ids) /\ Len(order') = Len(order) + 1
      /\ Elements(order') = Elements(order) \cup {m} /\ Greedy(Ids, deps, order')
  <2>1. order \in Seq(Ids) /\ Greedy(Ids, deps, order)
    BY <1>2 DEF GraphType, PlaceInv
  <2> QED
    <3> DEFINE t == Append(order, m)
    <3>1. m \in Placeable(Ids, deps, Elements(order))
          /\ \A y \in Placeable(Ids, deps, Elements(order)) : m <= y
      BY <1>3, <1>4
    <3>2. /\ t \in Seq(Ids) /\ Len(t) = Len(order) + 1
          /\ Elements(t) = Elements(order) \cup {m} /\ Greedy(Ids, deps, t)
      BY <1>2, <2>1, <3>1, GreedyGoesOn
    <3>3. order' = t
      BY <1>1
    <3> HIDE DEF t
    <3> QED
      BY <3>2, <3>3
<1>6. m \in Ids /\ m \notin Elements(order)
  BY <1>4 DEF Ready
<1>7. ASSUME NEW d \in Ids
      PROVE  indegree'[d] \in Nat /\ indegree'[d] = Cardinality(deps[d] \ Elements(order'))
  <2> DEFINE left == deps[d] \ Elements(order)
             rest == deps[d] \ Elements(order')
  <2>1. indegree[d] = Cardinality(left) /\ indegree[d] \in Nat /\ IsFiniteSet(left)
    BY <1>2, WaitsForNothing DEF PlaceInv, GraphType
  <2>2. rest = left \ {m}
    BY <1>5
  <2>3. indegree'[d] = IF m \in deps[d] THEN indegree[d] - 1 ELSE indegree[d]
    BY <1>1 DEF Decrement, Dependents
  <2>4. m \in deps[d] => m \in left
    BY <1>6
  <2>5. m \notin deps[d] => left \ {m} = left
    OBVIOUS
  <2> HIDE DEF left, rest
  <2>6. m \in left => Cardinality(left \ {m}) = Cardinality(left) - 1 /\ Cardinality(left) # 0
    BY <2>1, FS_RemoveElement, FS_EmptySet
  <2>7. CASE m \in deps[d]
    <3>1. Cardinality(rest) = Cardinality(left) - 1 /\ Cardinality(left) # 0
      BY <2>2, <2>4, <2>6, <2>7
    <3>2. indegree'[d] = indegree[d] - 1
      BY <2>3, <2>7
    <3>3. indegree'[d] \in Nat /\ indegree'[d] = Cardinality(rest)
      BY <2>1, <3>1, <3>2
    <3> QED
      BY <3>3 DEF rest
  <2>8. CASE m \notin deps[d]
    BY <2>1, <2>2, <2>3, <2>5, <2>8 DEF rest
  <2> QED
    BY <2>7, <2>8
<1>8. GraphType'
  <2>1. indegree' \in [Ids -> Nat]
    BY <1>1, <1>7
  <2> QED
    BY <1>1, <1>2, <1>5, <2>1 DEF GraphType
<1>9. PlaceInv'
  BY <1>1, <1>2, <1>5, <1>7 DEF PlaceInv
<1>10. ReadInv'
  BY <1>1, <1>2 DEF GraphInv, ReadInv, Asked
<1>11. SearchInv' /\ VerdictInv' /\ StackInv'
  BY <1>1 DEF GraphInv, StackInv, SearchInv, VerdictInv, VerdictIsRight
<1> QED
  BY <1>8, <1>9, <1>10, <1>11 DEF GraphInv

LEMMA FinishPlacingKeeps == ASSUME GraphInv, FinishPlacing PROVE GraphInv'
<1>1. /\ pc = "read" /\ unread = {} /\ Ready = {}
      /\ UNCHANGED <<manifests, unread, deps, indegree, order, stack>>
      /\ verdict = [kind |-> "none"]
  BY DEF FinishPlacing, GraphInv, VerdictInv
<1>2. Ids' = Ids /\ \A x : Asked(x)' = Asked(x)
  BY <1>1 DEF Ids, Asked
<1>3. ReadInv' /\ PlaceInv'
  BY <1>1, <1>2 DEF GraphInv, ReadInv, PlaceInv
<1>4. CASE Len(order) = Cardinality(Ids)
  <2>1. pc' = "done" /\ verdict' = [kind |-> "order"]
    BY <1>4 DEF FinishPlacing
  <2>2. GraphType'
    BY <1>1, <1>2, <2>1 DEF GraphInv, GraphType
  <2>3. Bad = {} /\ deps = [x \in Ids |-> Asked(x)]
    BY <1>1 DEF GraphInv, GraphType, ReadInv, Bad
  <2>4. Bad' = {} /\ deps' = [x \in Ids' |-> Asked(x)']
    BY <1>1, <1>2, <2>3 DEF Bad
  <2>5. verdict'.kind = "order"
    BY <2>1
  <2>6. VerdictIsRight'
    BY <2>4, <2>5 DEF VerdictIsRight, Bad
  <2>7. SearchInv' /\ VerdictInv' /\ StackInv'
    BY <1>1, <1>2, <1>4, <2>1, <2>6 DEF StackInv, SearchInv, VerdictInv
  <2> QED
    BY <1>3, <2>2, <2>7 DEF GraphInv
<1>5. CASE ~(Len(order) = Cardinality(Ids))
  <2>1. pc' = "search" /\ verdict' = verdict
    BY <1>5 DEF FinishPlacing
  <2>2. GraphType'
    BY <1>1, <1>2, <2>1 DEF GraphInv, GraphType
  <2>3. SearchInv'
    <3>1. Ready' = Ready /\ Remaining' = Remaining
      BY <1>1, <1>2 DEF Ready, Remaining
    <3>2. stack = <<>>
      BY <1>1 DEF GraphInv, StackInv
    <3> QED
      BY <1>1, <1>2, <1>5, <3>1, <3>2 DEF SearchInv
  <2>4. VerdictInv' /\ StackInv'
    BY <1>1, <2>1 DEF StackInv, VerdictInv, VerdictIsRight
  <2> QED
    BY <1>3, <2>2, <2>3, <2>4 DEF GraphInv
<1> QED
  BY <1>4, <1>5

\* What is searched waits for something that is searched, too.
LEMMA SearchedWait ==
  ASSUME GraphInv, pc = "search"
  PROVE  /\ Remaining # {} /\ Remaining \subseteq Nat
         /\ \A m \in Remaining : deps[m] \cap Remaining # {}
<1>1. /\ GraphType /\ PlaceInv /\ Ids \subseteq Nat
      /\ Ready = {} /\ Len(order) # Cardinality(Ids)
  BY GraphFacts DEF GraphInv, SearchInv
<1>2. \A m \in Ids \ Elements(order) : m \in Remaining
  BY <1>1 DEF Ready, Remaining, GraphType
<1>3. Elements(order) \subseteq Ids /\ Elements(order) # Ids
  BY <1>1, PlacedIsCounted
<1>4. ASSUME NEW m \in Remaining PROVE deps[m] \cap Remaining # {}
  <2>1. m \in Ids /\ indegree[m] # 0
    BY DEF Remaining
  <2>2. ~(deps[m] \subseteq Elements(order))
    BY <1>1, <2>1, WaitsForNothing
  <2>3. deps[m] \subseteq Ids
    BY <1>1, <2>1 DEF GraphType
  <2> QED
    BY <1>2, <2>2, <2>3
<1>5. Remaining \subseteq Nat
  BY <1>1 DEF Remaining
<1> QED
  BY <1>2, <1>3, <1>4, <1>5

LEMMA SearchFromKeeps == ASSUME GraphInv, SearchFrom PROVE GraphInv'
<1> DEFINE m == Lowest(Remaining)
<1>1. /\ pc = "search" /\ stack' = <<m>>
      /\ UNCHANGED <<manifests, pc, unread, deps, indegree, order, verdict>>
  BY DEF SearchFrom
<1>2. m \in Remaining
  BY <1>1, SearchedWait, LowestIs
<1> HIDE DEF m
<1>3. m \in Ids /\ stack' \in Seq(Ids) /\ Len(stack') = 1 /\ stack'[1] = m
  BY <1>1, <1>2 DEF Remaining
<1>4. Ids' = Ids /\ (\A x : Asked(x)' = Asked(x)) /\ Ready' = Ready /\ Remaining' = Remaining
  BY <1>1 DEF Ids, Asked, Ready, Remaining
<1>5. GraphType' /\ ReadInv' /\ PlaceInv'
  BY <1>1, <1>3, <1>4 DEF GraphInv, GraphType, ReadInv, PlaceInv
<1>6. SearchInv'
  BY <1>1, <1>2, <1>3, <1>4 DEF GraphInv, SearchInv
<1>7. VerdictInv' /\ StackInv'
  BY <1>1 DEF GraphInv, VerdictInv, VerdictIsRight, StackInv
<1> QED
  BY <1>5, <1>6, <1>7 DEF GraphInv

LEMMA VisitKeeps == ASSUME GraphInv, Visit PROVE GraphInv'
<1> DEFINE n == Lowest(Neighbours)
           L == Len(stack)
<1>1. /\ pc = "search" /\ stack # <<>>
      /\ UNCHANGED <<manifests, unread, deps, indegree, order>>
      /\ \/ /\ n \in Elements(stack)
            /\ verdict' = [kind |-> "cycle", path |-> PathFrom(n)]
            /\ pc' = "done" /\ stack' = stack
         \/ /\ n \notin Elements(stack)
            /\ stack' = Append(stack, n) /\ UNCHANGED <<pc, verdict>>
  BY DEF Visit
<1>2. /\ L \in Nat /\ L >= 1 /\ stack \in Seq(Ids) /\ stack[L] \in Remaining
      /\ \A i \in 1 .. L : stack[i] \in Remaining
      /\ \A i \in 1 .. L - 1 : stack[i + 1] \in deps[stack[i]]
  BY <1>1 DEF GraphInv, GraphType, SearchInv
<1>3. n \in Neighbours /\ Neighbours = deps[stack[L]] \cap Remaining
  <2>1. Neighbours # {} /\ Neighbours \subseteq Nat
    BY <1>1, <1>2, SearchedWait DEF Neighbours
  <2> QED
    BY <2>1, LowestIs DEF Neighbours
<1> HIDE DEF n
<1>4. Ids' = Ids /\ (\A x : Asked(x)' = Asked(x)) /\ Ready' = Ready /\ Remaining' = Remaining
  BY <1>1 DEF Ids, Asked, Ready, Remaining
<1>5. n \in Ids /\ n \in Remaining /\ n \in deps[stack[L]]
  BY <1>3 DEF Remaining
<1>6. ReadInv' /\ PlaceInv'
  BY <1>1, <1>4 DEF GraphInv, ReadInv, PlaceInv
<1>7. CASE n \in Elements(stack)
  <2>1. verdict' = [kind |-> "cycle", path |-> PathFrom(n)] /\ pc' = "done" /\ stack' = stack
    BY <1>1, <1>7
  <2> DEFINE p == PositionIn(stack, n)
             path == PathFrom(n)
  <2>2. p \in 1 .. L /\ stack[p] = n
    <3>1. \E i \in 1 .. L : stack[i] = n
      BY <1>7 DEF Elements
    <3>2. p = CHOOSE i \in 1 .. L : stack[i] = n
      BY <1>7 DEF PositionIn
    <3> QED
      BY <3>1, <3>2
  <2> HIDE DEF p
  <2>3. /\ Len(path) = L - p + 1 /\ \A i \in 1 .. L - p + 1 : path[i] = stack[p + i - 1]
    <3>1. p \in Int /\ L \in Int /\ \A i \in p .. L : stack[i] \in Ids
      BY <1>2, <2>2
    <3>2. path = SubSeq(stack, p, L)
      BY DEF PathFrom, p
    <3> QED
      BY <1>2, <2>2, <3>1, <3>2, SubSeqProperties
  <2>4. path \in Seq(Ids)
    <3>1. p \in Int /\ L \in Int /\ \A i \in p .. L : stack[i] \in Ids
      BY <1>2, <2>2
    <3>2. path = SubSeq(stack, p, L)
      BY DEF PathFrom, p
    <3> QED
      BY <3>1, <3>2, SubSeqProperties
  <2>5. \A m \in Ids : deps[m] = Asked(m)
    BY <1>1 DEF GraphInv, ReadInv, SearchInv
  <2> DEFINE M == L - p + 1
  <2>6. M \in Nat \ {0}
    BY <1>2, <2>2
  <2> HIDE DEF L
  <2>7. ASSUME NEW i \in 1 .. M PROVE path[(i % M) + 1] \in Asked(path[i])
    <3>1. path[i] = stack[p + i - 1] /\ p + i - 1 \in 1 .. L
      BY <1>2, <2>2, <2>3
    <3>2. stack[p + i - 1] \in Ids
      BY <1>2, <3>1 DEF L
    <3>3. CASE i = M
      <4>1. i % M = 0
        BY <2>6, <3>3
      <4>2. path[1] = n
        BY <1>2, <2>2, <2>3
      <4>3. p + i - 1 = L
        BY <1>2, <2>2, <3>3
      <4> QED
        BY <1>5, <2>5, <3>1, <3>2, <4>1, <4>2, <4>3
    <3>4. CASE i # M
      <4>1. i % M = i
        BY <2>6, <3>4
      <4>2. i + 1 \in 1 .. M /\ p + i - 1 \in 1 .. L - 1 /\ p + (i + 1) - 1 = (p + i - 1) + 1
        BY <1>2, <2>2, <3>4
      <4>3. path[i + 1] = stack[(p + i - 1) + 1]
        BY <2>3, <4>2
      <4>4. stack[(p + i - 1) + 1] \in deps[stack[p + i - 1]]
        BY <1>2, <4>2
      <4> QED
        BY <2>5, <3>1, <3>2, <4>1, <4>3, <4>4
    <3> QED
      BY <3>3, <3>4
  <2>8. path # <<>>
    <3>1. Len(path) # 0
      BY <2>3, <2>6
    <3> QED
      BY <3>1
  <2>9. Bad = {}
    BY <1>1 DEF GraphInv, GraphType, ReadInv, SearchInv, Bad
  <2>10. VerdictIsRight'
    <3>1. verdict'.kind = "cycle" /\ verdict'.path = path
      BY <2>1
    <3>2. CycleIsReal(path)
      BY <2>3, <2>7, <2>8 DEF CycleIsReal
    <3>3. Bad' = {}
      BY <1>4, <2>9 DEF Bad
    <3> QED
      BY <1>4, <3>1, <3>2, <3>3 DEF VerdictIsRight, Bad, CycleIsReal
  <2>11. SearchInv' /\ VerdictInv' /\ StackInv'
    BY <2>1, <2>10 DEF SearchInv, VerdictInv, StackInv
  <2>12. GraphType'
    BY <1>1, <1>4, <2>1 DEF GraphInv, GraphType
  <2> QED
    BY <1>6, <2>11, <2>12 DEF GraphInv
<1>8. CASE n \notin Elements(stack)
  <2>1. stack' = Append(stack, n) /\ pc' = pc /\ verdict' = verdict
    BY <1>1, <1>8
  <2>2. stack' \in Seq(Ids) /\ Len(stack') = L + 1
    BY <1>2, <1>5, <2>1
  <2>3. (\A i \in 1 .. L : stack'[i] = stack[i]) /\ stack'[L + 1] = n
    BY <1>2, <1>5, <2>1
  <2>4. GraphType'
    BY <1>1, <1>4, <2>1, <2>2 DEF GraphInv, GraphType
  <2> HIDE DEF L
  <2>5. \A i \in 1 .. Len(stack') : stack'[i] \in Remaining
    <3>1. ASSUME NEW i \in 1 .. L + 1 PROVE stack'[i] \in Remaining
      <4>1. i \in 1 .. L \/ i = L + 1
        BY <1>2
      <4> QED
        BY <1>2, <1>5, <2>3, <4>1
    <3> QED
      BY <2>2, <3>1
  <2>6. \A i \in 1 .. Len(stack') - 1 : stack'[i + 1] \in deps[stack'[i]]
    <3>1. ASSUME NEW i \in 1 .. L PROVE stack'[i + 1] \in deps[stack'[i]]
      <4>1. CASE i = L
        BY <1>2, <1>5, <2>3, <4>1
      <4>2. CASE i # L
        <5>1. i \in 1 .. L - 1 /\ i + 1 \in 1 .. L
          BY <1>2, <4>2
        <5> QED
          BY <1>2, <2>3, <5>1
      <4> QED
        BY <4>1, <4>2
    <3>2. Len(stack') - 1 = L
      BY <1>2, <2>2
    <3> QED
      BY <3>1, <3>2
  <2>7. SearchInv'
    BY <1>1, <1>4, <2>5, <2>6 DEF GraphInv, SearchInv
  <2>8. VerdictInv' /\ StackInv'
    BY <1>1, <2>1 DEF GraphInv, VerdictInv, VerdictIsRight, StackInv
  <2> QED
    BY <1>6, <2>4, <2>7, <2>8 DEF GraphInv
<1> QED
  BY <1>7, <1>8

\* A set of modules that has every module that depends on one of it, or on f.
ClosedFrom(f, S) == \A m \in Ids : deps[m] \cap (S \cup {f}) # {} => m \in S

Wider(S) == S \cup UNION {Dependents(d) : d \in S}

LEMMA WalkSteps ==
  ASSUME GraphType, NEW f \in Ids
  PROVE  \E w \in [0 .. Cardinality(Ids) -> SUBSET Ids] :
           /\ w[0] = Dependents(f)
           /\ \A k \in 1 .. Cardinality(Ids) : w[k] = Wider(w[k - 1])
           /\ Affected(f) = w[Cardinality(Ids)]
<1> DEFINE N == Cardinality(Ids)
           P(w) == w = [n \in 0 .. N |-> IF n = 0 THEN Dependents(f) ELSE Wider(w[n - 1])]
           w0 == CHOOSE w : P(w)
           h == [p \in (1 .. N) \X SUBSET Ids |-> Wider(p[2])]
<1>1. Affected(f) = w0[N]
  BY DEF Affected, Wider
<1>2. N \in Nat
  BY GraphFacts
<1>3. Dependents(f) \in SUBSET Ids /\ \A S \in SUBSET Ids : Wider(S) \in SUBSET Ids
  BY DEF Dependents, Wider
<1>4. h \in [(1 .. N) \X SUBSET Ids -> SUBSET Ids]
  BY <1>3
<1> HIDE DEF h, N
<1>5. PICK w \in [0 .. N -> SUBSET Ids] : StepsOf(N, Dependents(f), h, w)
  BY <1>2, <1>3, <1>4, StepsExist
<1>6. P(w)
  <2>1. ASSUME NEW n \in 0 .. N, n # 0 PROVE h[<<n, w[n - 1]>>] = Wider(w[n - 1])
    <3>1. n - 1 \in 0 .. N /\ n \in 1 .. N
      BY <1>2, <2>1
    <3>2. w[n - 1] \in SUBSET Ids
      BY <3>1
    <3> QED
      BY <3>1, <3>2 DEF h
  <2> QED
    BY <1>5, <2>1 DEF StepsOf
<1>7. P(w0)
  <2> HIDE DEF P
  <2> QED
    BY <1>6
<1> HIDE DEF w0
<1>8. w0[0] = Dependents(f) /\ \A k \in 1 .. N : w0[k] = Wider(w0[k - 1])
  BY <1>2, <1>7
<1> DEFINE G == {k \in 0 .. N : w0[k] \in SUBSET Ids}
<1>9. 0 .. N \subseteq G
  <2>1. 0 \in G
    BY <1>2, <1>3, <1>8
  <2>2. ASSUME NEW k \in 1 .. N, k - 1 \in G PROVE k \in G
    <3>1. w0[k] = Wider(w0[k - 1]) /\ w0[k - 1] \in SUBSET Ids
      BY <1>8, <2>2
    <3> QED
      BY <1>3, <3>1
  <2> HIDE DEF G
  <2> QED
    BY <1>2, <2>1, <2>2, UpInduction
<1>10. w0 \in [0 .. N -> SUBSET Ids]
  BY <1>7, <1>9
<1> QED
  BY <1>1, <1>8, <1>10 DEF N

\* The walk over dependents reaches all there are, and nothing else.
LEMMA AffectedIsLeast ==
  ASSUME GraphType, NEW f \in Ids
  PROVE  /\ Affected(f) \subseteq Ids /\ ClosedFrom(f, Affected(f))
         /\ \A S \in SUBSET Ids : ClosedFrom(f, S) => Affected(f) \subseteq S
<1> DEFINE N == Cardinality(Ids)
<1>1. IsFiniteSet(Ids) /\ N \in Nat
  BY GraphFacts
<1>2. PICK w \in [0 .. N -> SUBSET Ids] :
        /\ w[0] = Dependents(f)
        /\ \A k \in 1 .. N : w[k] = Wider(w[k - 1])
        /\ Affected(f) = w[N]
  BY WalkSteps
<1> HIDE DEF N
<1>3. ASSUME NEW S \in SUBSET Ids, ClosedFrom(f, S) PROVE Affected(f) \subseteq S
  <2> DEFINE G == {k \in 0 .. N : w[k] \subseteq S}
  <2>1. 0 \in G
    BY <1>1, <1>2, <1>3 DEF ClosedFrom, Dependents
  <2>2. ASSUME NEW k \in 1 .. N, k - 1 \in G PROVE k \in G
    BY <1>2, <1>3, <2>2 DEF ClosedFrom, Dependents, Wider
  <2>3. 0 .. N \subseteq G
    <3> HIDE DEF G
    <3> QED
      BY <1>1, <2>1, <2>2, UpInduction
  <2> QED
    BY <1>1, <1>2, <2>3
<1>4. \A k \in 0 .. N : IsFiniteSet(w[k]) /\ Cardinality(w[k]) \in Nat
  BY <1>1, FS_Subset, FS_CardinalityType
<1> DEFINE H == {k \in 0 .. N : Dependents(f) \subseteq w[k] /\ (Cardinality(w[k]) >= k \/ ClosedFrom(f, w[k]))}
<1>5. 0 \in H
  BY <1>1, <1>2, <1>4
<1>6. ASSUME NEW k \in 1 .. N, k - 1 \in H PROVE k \in H
  <2> DEFINE S == w[k - 1]
  <2>1. /\ S \subseteq Ids /\ w[k] = Wider(S) /\ w[k] \subseteq Ids /\ S \subseteq w[k]
        /\ Dependents(f) \subseteq S /\ k - 1 \in 0 .. N
    BY <1>2, <1>6 DEF Wider
  <2>2. Cardinality(S) >= k - 1 \/ ClosedFrom(f, S)
    BY <1>6
  <2> HIDE DEF S
  <2>3. CASE ClosedFrom(f, S)
    <3>1. Wider(S) = S
      BY <2>1, <2>3 DEF ClosedFrom, Wider, Dependents
    <3> QED
      BY <2>1, <2>3, <3>1
  <2>4. CASE ~ClosedFrom(f, S)
    <3>1. PICK m \in Ids : deps[m] \cap (S \cup {f}) # {} /\ m \notin S
      BY <2>4 DEF ClosedFrom
    <3>2. m \in w[k]
      BY <2>1, <3>1 DEF Wider, Dependents
    <3>3. S \cup {m} \subseteq w[k]
      BY <2>1, <3>2
    <3>4. IsFiniteSet(S) /\ IsFiniteSet(w[k]) /\ Cardinality(S) \in Nat /\ Cardinality(w[k]) \in Nat
      BY <1>4, <2>1 DEF S
    <3>5. Cardinality(S \cup {m}) = Cardinality(S) + 1
      BY <3>1, <3>4, FS_AddElement
    <3>6. Cardinality(S \cup {m}) <= Cardinality(w[k])
      BY <3>3, <3>4, FS_Subset
    <3>7. Cardinality(w[k]) >= k
      BY <2>2, <2>4, <3>4, <3>5, <3>6
    <3> QED
      BY <2>1, <3>7
  <2> QED
    BY <2>3, <2>4
<1>7. N \in H
  <2> HIDE DEF H
  <2>1. 0 .. N \subseteq H
    BY <1>1, <1>5, <1>6, UpInduction
  <2> QED
    BY <1>1, <2>1
<1>8. ClosedFrom(f, w[N])
  <2>1. w[N] \subseteq Ids /\ Cardinality(w[N]) \in Nat
    BY <1>1, <1>4
  <2>2. CASE Cardinality(w[N]) >= N
    <3>1. Cardinality(w[N]) <= N
      BY <1>1, <2>1, FS_Subset DEF N
    <3>2. Cardinality(w[N]) = Cardinality(Ids)
      BY <1>1, <2>1, <2>2, <3>1 DEF N
    <3>3. w[N] = Ids
      BY <1>1, <2>1, <3>2, FS_Subset
    <3> QED
      BY <3>3 DEF ClosedFrom
  <2> QED
    BY <1>7, <2>2
<1> QED
  BY <1>1, <1>2, <1>3, <1>8

\* What a sequence is cut down to: its elements that are in A, in its order.
Picks(s, A, F) ==
  /\ F[0] = <<>>
  /\ \A k \in 1 .. Len(s) : F[k] = IF s[k] \in A THEN Append(F[k - 1], s[k]) ELSE F[k - 1]

PickedSoFar(s, A, k, t) ==
  /\ Elements(t) = {s[i] : i \in 1 .. k} \cap A
  /\ \A i, j \in 1 .. Len(t) : i < j => \E a, b \in 1 .. k : a < b /\ t[i] = s[a] /\ t[j] = s[b]

LEMMA PicksInOrder ==
  ASSUME NEW T, NEW s \in Seq(T), NEW A, NEW F, Picks(s, A, F)
  PROVE  F[Len(s)] \in Seq(T) /\ PickedSoFar(s, A, Len(s), F[Len(s)])
<1> DEFINE G == {k \in 0 .. Len(s) : F[k] \in Seq(T) /\ PickedSoFar(s, A, k, F[k])}
<1>1. Len(s) \in Nat
  OBVIOUS
<1>2. 0 \in G
  <2>1. F[0] = <<>>
    BY DEF Picks
  <2>2. Elements(<<>>) = {} /\ 1 .. 0 = {}
    BY DEF Elements
  <2>3. PickedSoFar(s, A, 0, <<>>)
    BY <2>2 DEF PickedSoFar
  <2>4. <<>> \in Seq(T)
    OBVIOUS
  <2> QED
    <3>1. 0 \in 0 .. Len(s)
      BY <1>1
    <3>2. F[0] \in Seq(T) /\ PickedSoFar(s, A, 0, F[0])
      BY <2>1, <2>3, <2>4
    <3> QED
      BY <3>1, <3>2
<1>3. ASSUME NEW k \in 1 .. Len(s), k - 1 \in G PROVE k \in G
  <2> DEFINE t == F[k - 1]
  <2>1. t \in Seq(T) /\ PickedSoFar(s, A, k - 1, t) /\ s[k] \in T /\ k \in 0 .. Len(s)
    BY <1>3
  <2>2. F[k] = IF s[k] \in A THEN Append(t, s[k]) ELSE t
    BY DEF Picks
  <2> HIDE DEF t
  <2>3. 1 .. k = (1 .. k - 1) \cup {k} /\ (1 .. k - 1) \subseteq 1 .. k
    OBVIOUS
  <2>4. CASE s[k] \notin A
    <3>1. Elements(t) = {s[i] : i \in 1 .. k} \cap A
      BY <2>1, <2>3, <2>4 DEF PickedSoFar
    <3>2. \A i, j \in 1 .. Len(t) : i < j => \E a, b \in 1 .. k : a < b /\ t[i] = s[a] /\ t[j] = s[b]
      BY <2>1, <2>3 DEF PickedSoFar
    <3> QED
      <4>1. PickedSoFar(s, A, k, t)
        BY <3>1, <3>2 DEF PickedSoFar
      <4>2. F[k] = t
        BY <2>2, <2>4
      <4> QED
        BY <2>1, <4>1, <4>2
  <2>5. CASE s[k] \in A
    <3> DEFINE u == Append(t, s[k])
    <3>1. u \in Seq(T) /\ Len(u) = Len(t) + 1 /\ Len(t) \in Nat
      BY <2>1
    <3>2. (\A i \in 1 .. Len(t) : u[i] = t[i]) /\ u[Len(t) + 1] = s[k]
      BY <2>1
    <3>3. F[k] = u
      BY <2>2, <2>5
    <3> HIDE DEF u
    <3>4. Elements(u) = {s[i] : i \in 1 .. k} \cap A
      <4>1. 1 .. Len(u) = (1 .. Len(t)) \cup {Len(t) + 1}
        BY <3>1
      <4>2. Elements(u) = Elements(t) \cup {s[k]}
        BY <3>2, <4>1 DEF Elements
      <4> QED
        BY <2>1, <2>3, <2>5, <4>2 DEF PickedSoFar
    <3>5. ASSUME NEW i \in 1 .. Len(u), NEW j \in 1 .. Len(u), i < j
          PROVE  \E a, b \in 1 .. k : a < b /\ u[i] = s[a] /\ u[j] = s[b]
      <4>1. i \in 1 .. Len(t)
        BY <3>1, <3>5
      <4>2. CASE j \in 1 .. Len(t)
        <5>1. PICK a \in 1 .. k - 1, b \in 1 .. k - 1 : a < b /\ t[i] = s[a] /\ t[j] = s[b]
          BY <2>1, <3>5, <4>1, <4>2 DEF PickedSoFar
        <5> QED
          BY <2>3, <3>2, <4>1, <4>2, <5>1
      <4>3. CASE j \notin 1 .. Len(t)
        <5>1. j = Len(t) + 1
          BY <3>1, <4>3
        <5>2. t[i] \in {s[a] : a \in 1 .. k - 1}
          BY <2>1, <4>1 DEF PickedSoFar, Elements
        <5>3. PICK a \in 1 .. k - 1 : t[i] = s[a]
          BY <5>2
        <5>4. a \in 1 .. k /\ k \in 1 .. k /\ a < k
          OBVIOUS
        <5> QED
          BY <3>2, <4>1, <5>1, <5>3, <5>4
      <4> QED
        BY <4>2, <4>3
    <3> QED
      <4>1. PickedSoFar(s, A, k, u)
        BY <3>4, <3>5 DEF PickedSoFar
      <4> QED
        BY <2>1, <3>1, <3>3, <4>1
  <2> QED
    BY <2>4, <2>5
<1>4. 0 .. Len(s) \subseteq G
  <2> HIDE DEF G
  <2> QED
    BY <1>1, <1>2, <1>3, UpInduction
<1> QED
  BY <1>1, <1>4

LEMMA DependentsArePicked ==
  ASSUME GraphType, NEW f \in Ids
  PROVE  \E F : Picks(StopOrder, Affected(f), F) /\ TransitiveDependents(f) = F[Len(StopOrder)]
<1> DEFINE s == StopOrder
           n == Len(order)
           A == Affected(f)
           P(it) == it = [x \in SUBSET DOMAIN s |-> IF x = {} THEN <<>> ELSE
                       IF s[Max(x)] \in A THEN Append(it[x \ {Max(x)}], s[Max(x)]) ELSE it[x \ {Max(x)}]]
           it0 == CHOOSE it : P(it)
           h == [p \in (1 .. n) \X Seq(Ids) |-> IF s[p[1]] \in A THEN Append(p[2], s[p[1]]) ELSE p[2]]
           top == [x \in SUBSET (1 .. n) |-> Max(x)]
<1>1. TransitiveDependents(f) = it0[DOMAIN s]
  BY DEF TransitiveDependents, FoldLeft, MapThenFoldSet
<1>2. n \in Nat /\ s \in Seq(Ids) /\ Len(s) = n /\ DOMAIN s = 1 .. n
  <2>1. n \in Nat /\ order \in Seq(Ids)
    BY DEF GraphType
  <2>2. \A i \in 1 .. n : order[n + 1 - i] \in Ids
    BY <2>1
  <2> QED
    BY <2>1, <2>2 DEF StopOrder
<1> HIDE DEF s, n, A
<1>3. \A x \in SUBSET (1 .. n) : x # {} => TopOf(x, Max(x))
  <2> SUFFICES ASSUME NEW x \in SUBSET (1 .. n), x # {} PROVE TopOf(x, Max(x))
    OBVIOUS
  <2>1. x \subseteq Nat /\ \A k \in x : k <= n
    BY <1>2
  <2>2. \E k \in x : \A j \in x : j <= k
    <3>1. x \subseteq Nat /\ x # {}
      BY <2>1
    <3>2. IsFiniteSet(x)
      <4>1. IsFiniteSet(1 .. n) /\ x \subseteq 1 .. n
        BY <1>2, FS_Interval
      <4> HIDE DEF n
      <4> QED
        BY <4>1, FS_Subset
    <3> QED
      BY <3>1, <3>2, GreatestIn
  <2>3. \E k \in x : \A j \in x : k >= j
    BY <2>1, <2>2
  <2>4. Max(x) \in x /\ \A j \in x : Max(x) >= j
    BY <2>3 DEF Max
  <2> QED
    BY <2>1, <2>4 DEF TopOf
<1>4. \A x \in SUBSET (1 .. n) : x # {} => TopOf(x, top[x])
  BY <1>3
<1>5. h \in [(1 .. n) \X Seq(Ids) -> Seq(Ids)]
  <2>1. ASSUME NEW k \in 1 .. n, NEW t \in Seq(Ids)
        PROVE  (IF s[k] \in A THEN Append(t, s[k]) ELSE t) \in Seq(Ids)
    <3>1. s[k] \in Ids
      BY <1>2
    <3> QED
      BY <3>1
  <2> QED
    BY <2>1
<1>6. <<>> \in Seq(Ids)
  OBVIOUS
<1>7. top = [x \in SUBSET (1 .. n) |-> Max(x)]
  OBVIOUS
<1> HIDE DEF h, top
<1>8. PICK it \in [SUBSET (1 .. n) -> Seq(Ids)] : RunOf(n, top, <<>>, h, it)
  BY <1>2, <1>4, <1>5, <1>6, RunExists
<1>9. P(it)
  <2>1. ASSUME NEW x \in SUBSET (1 .. n), x # {}
        PROVE  h[<<top[x], it[x \ {top[x]}]>>]
                = IF s[Max(x)] \in A THEN Append(it[x \ {Max(x)}], s[Max(x)]) ELSE it[x \ {Max(x)}]
    <3>1. top[x] = Max(x) /\ Max(x) \in 1 .. n
      BY <1>3, <1>7, <2>1 DEF TopOf
    <3>2. it[x \ {Max(x)}] \in Seq(Ids)
      <4> DEFINE y == x \ {Max(x)}
      <4>1. y \in SUBSET (1 .. n)
        BY <2>1
      <4>2. it \in [SUBSET (1 .. n) -> Seq(Ids)]
        BY <1>8
      <4> HIDE DEF y
      <4>3. it[y] \in Seq(Ids)
        BY <4>1, <4>2
      <4> QED
        BY <4>3 DEF y
    <3> QED
      BY <3>1, <3>2 DEF h
  <2> QED
    BY <1>2, <1>8, <2>1 DEF RunOf
<1>10. P(it0)
  <2> HIDE DEF P
  <2> QED
    BY <1>9
<1> HIDE DEF it0
<1> DEFINE F == [k \in 0 .. n |-> it0[1 .. k]]
<1>11. it0[{}] = <<>>
  BY <1>10
<1>12. ASSUME NEW k \in 1 .. n
       PROVE  it0[1 .. k] = IF s[k] \in A THEN Append(it0[1 .. k - 1], s[k]) ELSE it0[1 .. k - 1]
  <2>1. 1 .. k \in SUBSET (1 .. n) /\ 1 .. k # {} /\ (1 .. k) \ {k} = 1 .. k - 1
    <3>1. k \in Nat /\ k <= n /\ k >= 1 /\ n \in Nat
      BY <1>2
    <3> HIDE DEF n
    <3>2. \A j \in 1 .. k : j \in 1 .. n
      BY <3>1
    <3>3. k \in 1 .. k
      BY <3>1
    <3>4. (1 .. k) \ {k} = 1 .. k - 1
      BY <3>1
    <3> QED
      BY <3>2, <3>3, <3>4
  <2>2. Max(1 .. k) = k
    <3> DEFINE x == 1 .. k
    <3>1. x \in SUBSET (1 .. n) /\ x # {}
      BY <2>1
    <3> HIDE DEF x
    <3>2. TopOf(x, Max(x))
      BY <1>3, <3>1
    <3>3. Max(x) \in x /\ \A j \in x : j <= Max(x)
      BY <3>2 DEF TopOf
    <3> QED
      BY <1>2, <3>3 DEF x
  <2>4. 1 .. k \in SUBSET DOMAIN s /\ 1 .. k # {}
    BY <1>2, <2>1
  <2>3. it0[1 .. k] = IF s[Max(1 .. k)] \in A
                      THEN Append(it0[(1 .. k) \ {Max(1 .. k)}], s[Max(1 .. k)])
                      ELSE it0[(1 .. k) \ {Max(1 .. k)}]
    BY <1>10, <2>4
  <2> QED
    BY <2>1, <2>2, <2>3
<1>13. Picks(s, A, F)
  <2>1. F[0] = <<>>
    <3>1. 1 .. 0 = {} /\ 0 \in 0 .. n
      BY <1>2
    <3> QED
      BY <1>11, <3>1
  <2>2. ASSUME NEW k \in 1 .. n PROVE F[k] = it0[1 .. k] /\ F[k - 1] = it0[1 .. k - 1]
    <3>1. k \in 0 .. n /\ k - 1 \in 0 .. n
      BY <1>2
    <3> QED
      BY <3>1
  <2> HIDE DEF F
  <2>3. \A k \in 1 .. n : F[k] = IF s[k] \in A THEN Append(F[k - 1], s[k]) ELSE F[k - 1]
    BY <1>12, <2>2
  <2> QED
    BY <1>2, <2>1, <2>3 DEF Picks
<1>14. TransitiveDependents(f) = F[n]
  BY <1>1, <1>2
<1> QED
  BY <1>2, <1>13, <1>14 DEF s, A

LEMMA CascadesAreRight == ASSUME GraphInv PROVE CascadeIsRight
<1> SUFFICES ASSUME verdict.kind = "order", NEW f \in Ids
             PROVE  /\ Elements(TransitiveDependents(f))
                        = {m \in Ids : \A S \in SUBSET Ids : ClosedFrom(f, S) => m \in S}
                    /\ \A i, j \in 1 .. Len(TransitiveDependents(f)) :
                         TransitiveDependents(f)[j] \in deps[TransitiveDependents(f)[i]] => i < j
  BY DEF CascadeIsRight, ClosedFrom
<1> DEFINE c == TransitiveDependents(f)
           s == StopOrder
           n == Len(order)
           A == Affected(f)
<1>1. GraphType /\ PlaceInv /\ n \in Nat /\ Elements(order) = Ids /\ order \in Seq(Ids)
  <2>1. GraphType /\ PlaceInv /\ Len(order) = Cardinality(Ids) /\ order \in Seq(Ids)
    BY DEF GraphInv, VerdictInv, GraphType
  <2> QED
    BY <2>1, PlacedIsCounted
<1>2. s \in Seq(Ids) /\ Len(s) = n /\ \A a \in 1 .. n : s[a] = order[n + 1 - a]
  <2>1. \A i \in 1 .. n : order[n + 1 - i] \in Ids
    BY <1>1
  <2> QED
    BY <1>1, <2>1 DEF StopOrder
<1>3. A \subseteq Ids /\ A = {m \in Ids : \A S \in SUBSET Ids : ClosedFrom(f, S) => m \in S}
  BY <1>1, AffectedIsLeast
<1>4. \A i, j \in 1 .. n : order[i] = order[j] => i = j
  BY <1>1, GreedyIsInjective DEF PlaceInv
<1>5. \A i \in 1 .. n : \A d \in deps[order[i]] : \E j \in 1 .. i - 1 : d = order[j]
  BY <1>1 DEF PlaceInv, Greedy, Placeable, PlacedBefore
<1>6. PICK F : Picks(s, A, F) /\ c = F[n]
  <2>1. \E F : Picks(StopOrder, Affected(f), F) /\ TransitiveDependents(f) = F[Len(StopOrder)]
    BY <1>1, DependentsArePicked
  <2> QED
    BY <1>2, <2>1
<1> HIDE DEF c, s, n, A
<1>7. c \in Seq(Ids) /\ PickedSoFar(s, A, n, c)
  BY <1>2, <1>6, PicksInOrder
<1>8. {s[i] : i \in 1 .. n} = Ids
  <2>1. \A i \in 1 .. n : n + 1 - i \in 1 .. n /\ s[n + 1 - i] = order[i]
    BY <1>1, <1>2
  <2>2. \A m \in Ids : \E i \in 1 .. n : s[i] = m
    <3> SUFFICES ASSUME NEW m \in Ids PROVE \E i \in 1 .. n : s[i] = m
      OBVIOUS
    <3>1. PICK i \in 1 .. n : order[i] = m
      BY <1>1 DEF Elements, n
    <3> QED
      BY <2>1, <3>1
  <2> QED
    BY <1>2, <2>2
<1>9. Elements(c) = A
  BY <1>3, <1>7, <1>8 DEF PickedSoFar
<1>10. ASSUME NEW i \in 1 .. Len(c), NEW j \in 1 .. Len(c), c[j] \in deps[c[i]]
       PROVE  i < j
  <2>1. c[i] \in Ids /\ i \in Nat /\ j \in Nat
    BY <1>7
  <2>2. ASSUME NEW a \in 1 .. n, NEW b \in 1 .. n, s[a] = c[i], s[b] = c[j]
        PROVE  a < b
    <3>1. n + 1 - a \in 1 .. n /\ n + 1 - b \in 1 .. n /\ a \in Nat /\ b \in Nat
      BY <1>1
    <3>2. c[i] = order[n + 1 - a] /\ c[j] = order[n + 1 - b]
      BY <1>2, <2>2
    <3>3. PICK k \in 1 .. (n + 1 - a) - 1 : c[j] = order[k]
      BY <1>5, <1>10, <3>1, <3>2
    <3>4. k \in 1 .. n /\ k < n + 1 - a
      BY <1>1, <3>1
    <3>5. k = n + 1 - b
      BY <1>4, <3>1, <3>2, <3>3, <3>4
    <3> QED
      BY <1>1, <3>1, <3>4, <3>5
  <2>3. CASE i < j
    BY <2>3
  <2>4. CASE i = j
    <3>1. c[i] \in {s[a] : a \in 1 .. n}
      BY <1>8, <2>1
    <3>2. PICK a \in 1 .. n : s[a] = c[i]
      BY <3>1
    <3>3. a < a
      BY <2>2, <2>4, <3>2
    <3> QED
      BY <1>1, <3>3
  <2>5. CASE j < i
    <3>1. PICK a \in 1 .. n, b \in 1 .. n : a < b /\ c[j] = s[a] /\ c[i] = s[b]
      BY <1>7, <2>5 DEF PickedSoFar
    <3>2. b < a
      BY <2>2, <3>1
    <3> QED
      BY <1>1, <3>1, <3>2
  <2> QED
    BY <2>1, <2>3, <2>4, <2>5
<1> QED
  BY <1>3, <1>9, <1>10 DEF c

LEMMA GraphNextKeeps == ASSUME GraphInv, [GraphNext]_graphVars PROVE GraphInv'
<1>1. CASE ReadManifest
  BY <1>1, ReadManifestKeeps
<1>2. CASE PlaceLowest
  BY <1>2, PlaceLowestKeeps
<1>3. CASE FinishPlacing
  BY <1>3, FinishPlacingKeeps
<1>4. CASE SearchFrom
  BY <1>4, SearchFromKeeps
<1>5. CASE Visit
  BY <1>5, VisitKeeps
<1>6. CASE UNCHANGED graphVars
  <2>1. UNCHANGED <<manifests, pc, unread, deps, indegree, order, stack, verdict>>
    BY <1>6 DEF graphVars
  <2>2. Ids' = Ids /\ (\A x : Asked(x)' = Asked(x)) /\ Ready' = Ready /\ Remaining' = Remaining
    BY <2>1 DEF Ids, Asked, Ready, Remaining
  <2>3. GraphType' /\ ReadInv' /\ PlaceInv' /\ SearchInv' /\ StackInv'
    BY <2>1, <2>2 DEF GraphInv, GraphType, ReadInv, PlaceInv, SearchInv, StackInv
  <2>4. VerdictIsRight' = VerdictIsRight
    BY <2>1 DEF VerdictIsRight, CycleIsReal, Ids, Asked
  <2>5. VerdictInv'
    BY <2>1, <2>2, <2>4 DEF GraphInv, VerdictInv
  <2> QED
    BY <2>3, <2>5 DEF GraphInv
<1> QED
  BY <1>1, <1>2, <1>3, <1>4, <1>5, <1>6 DEF GraphNext, Resolved

LEMMA GraphInvIsRight == GraphInv => ResolveIsRight
<1> SUFFICES ASSUME GraphInv PROVE ResolveIsRight
  OBVIOUS
<1>1. OrderIsLowestFirst
  <2> SUFFICES ASSUME verdict.kind = "order" PROVE order = LowestFirst(Ids, deps)
    BY DEF OrderIsLowestFirst
  <2>1. Ids \subseteq Nat
    BY GraphFacts DEF GraphInv
  <2>2. order \in Seq(Ids) /\ Greedy(Ids, deps, order) /\ Len(order) = Cardinality(Ids)
    BY DEF GraphInv, GraphType, PlaceInv, VerdictInv
  <2> QED
    BY <2>1, <2>2, GreedyIsLowestFirst
<1>2. VerdictIsRight
  BY DEF GraphInv, VerdictInv
<1>3. SearchAdvances
  <2> SUFFICES ASSUME pc = "search" PROVE Remaining # {} /\ (stack # <<>> => Neighbours # {})
    BY DEF SearchAdvances
  <2>1. Remaining # {} /\ \A m \in Remaining : deps[m] \cap Remaining # {}
    BY SearchedWait
  <2>2. stack # <<>> => stack[Len(stack)] \in Remaining
    <3>1. stack \in Seq(Ids) /\ \A i \in 1 .. Len(stack) : stack[i] \in Remaining
      BY DEF GraphInv, GraphType, SearchInv
    <3>2. stack # <<>> => Len(stack) \in 1 .. Len(stack)
      BY <3>1
    <3> QED
      BY <3>1, <3>2
  <2> QED
    BY <2>1, <2>2 DEF Neighbours
<1> QED
  BY <1>1, <1>2, <1>3, CascadesAreRight DEF ResolveIsRight

\* Resolve and its queries (internal/supervisor/graph.go:64-255): for every set of
\* manifests, the order is the lowest-ID-first one of their graph, an error names the lowest
\* manifest at fault or a real cycle, findCycle always finds one, and a cascade stops all
\* that depend on a module and nothing else, each before what it depends on.
THEOREM ResolvesRight ==
  GraphInit /\ [][GraphNext]_graphVars => []ResolveIsRight
<1>1. GraphInit => GraphInv
  BY GraphInitHolds
<1>2. GraphInv /\ [GraphNext]_graphVars => GraphInv'
  BY GraphNextKeeps
<1> QED
  BY <1>1, <1>2, GraphInvIsRight, PTL

(***************************************************************************)
(* The topology.                                                           *)
(***************************************************************************)

Relative == [pid : Nat, start : Nat]

WorldType ==
  world \in [start : [Pid -> Nat], path : [Pid -> Seq(PathComponent)], holders : [Socket -> SUBSET Pid],
             parent : [Pid -> Relative], carries : [Iface -> SUBSET Address],
             reused : SUBSET Pid, left : SUBSET Pid]

\* On Windows the number of a parent that is gone is kept, and may be another's.
Kin(p, q) ==
  \/ q = Orphan
  \/ /\ q.pid \in Pid /\ q.start > 0
     /\ \/ world.start[q.pid] = q.start
        \/ conf.os = "windows" /\ (world.start[q.pid] = 0 \/ world.start[q.pid] > world.start[p])

SceneInv ==
  /\ conf \in TopologySettings /\ WorldType /\ moves \in Nat
  /\ \A p \in Pid : world.start[p] <= moves
  /\ \A s \in Socket : world.holders[s] \subseteq Live
  /\ \A p \in Pid : Kin(p, world.parent[p])

LEMMA NumbersAreNat == Radix \in Nat /\ Radix > 3 /\ Number \subseteq Nat
BY TopologyAssumption DEF Number

LEMMA TopologyFacts ==
  /\ IsFiniteSet(Pid) /\ Pid \subseteq Nat \ {0} /\ 1 \in Pid
  /\ IsFiniteSet(Iface) /\ IsFiniteSet(Socket)
  /\ \A s, t \in Socket : s.n \in Nat /\ (s.n = t.n => s = t)
  /\ \A c \in TopologySettings : IsFiniteSet(c.paths) /\ c.paths \subseteq Seq(PathComponent)
<1>1. Number \subseteq Nat
  BY NumbersAreNat
<1> QED
  BY <1>1, TopologyAssumption DEF SettingsAreValid

LEMMA LeastOf ==
  ASSUME NEW T, T \subseteq Nat, T # {}
  PROVE  Min(T) \in T /\ \A y \in T : Min(T) <= y
<1>1. PICK x \in T : \A y \in T : x <= y
  BY SmallestIn
<1> QED
  BY <1>1 DEF Min

LEMMA MostOf ==
  ASSUME NEW T, IsFiniteSet(T), T \subseteq Nat, T # {}
  PROVE  Max(T) \in T /\ \A y \in T : Max(T) >= y
<1>1. PICK x \in T : \A y \in T : y <= x
  BY GreatestIn
<1>2. \A y \in T : x >= y
  BY <1>1
<1> QED
  BY <1>1, <1>2 DEF Max

\* What the moves of the host leave.
LEMMA ExitLeaves ==
  ASSUME SceneInv, NEW p \in Pid, Exit(p)
  PROVE  /\ p \in Live /\ WorldType'
         /\ world'.start = [world.start EXCEPT ![p] = 0]
         /\ world'.parent = [Orphaned(p) EXCEPT ![p] = Orphan]
         /\ world'.holders = [s \in Socket |-> world.holders[s] \ {p}]
         /\ world'.carries = world.carries /\ world'.reused = world.reused /\ world'.left = world.left
         /\ world'.path = [world.path EXCEPT ![p] = <<>>]
<1>1. Orphaned(p) \in [Pid -> Relative] /\ Orphan \in Relative
  BY DEF SceneInv, WorldType, Orphaned, Relative, Orphan
<1>2. <<>> \in Seq(PathComponent)
  OBVIOUS
<1> QED
  BY <1>1, <1>2 DEF SceneInv, WorldType, Exit

LEMMA ForkLeaves ==
  ASSUME SceneInv, NEW p \in Pid, NEW q, NEW c \in conf.paths, NEW S \in Opened, Fork(p, q, c, S)
  PROVE  /\ q \in (Live \ {p}) \cup {0} /\ WorldType'
         /\ world'.start = [world.start EXCEPT ![p] = moves + 1]
         /\ world'.parent = [Orphaned(p) EXCEPT ![p] = IF q = 0 THEN Orphan ELSE [pid |-> q, start |-> world.start[q]]]
         /\ \A s \in Socket : world'.holders[s] \subseteq world.holders[s] \cup {p}
         /\ world'.carries = world.carries /\ world'.left = world.left
         /\ world'.reused = IF reading = "rest" THEN world.reused ELSE world.reused \cup {p}
<1> DEFINE par == [pid |-> q, start |-> IF q = 0 THEN 0 ELSE world.start[q]]
<1> DEFINE hold == [s \in Socket |-> IF s \in S THEN world.holders[s] \cup {p} ELSE world.holders[s] \ {p}]
<1>0. world.start \in [Pid -> Nat] /\ Pid \subseteq Nat
  BY TopologyFacts DEF SceneInv, WorldType
<1>1. Orphaned(p) \in [Pid -> Relative] /\ par \in Relative
  BY <1>0 DEF SceneInv, WorldType, Orphaned, Relative, Orphan, Fork, Live
<1>2. c \in Seq(PathComponent) /\ moves + 1 \in Nat
  BY TopologyFacts DEF SceneInv
<1>3. hold \in [Socket -> SUBSET Pid]
  BY DEF SceneInv, WorldType
<1>4. par = IF q = 0 THEN Orphan ELSE [pid |-> q, start |-> world.start[q]]
  BY DEF Orphan
<1>5. world' = [world EXCEPT !.start[p] = moves + 1, !.path[p] = c, !.parent = [Orphaned(p) EXCEPT ![p] = par],
       !.holders = hold, !.reused = IF reading = "rest" THEN world.reused ELSE world.reused \cup {p}]
  BY DEF Fork
<1>6. \A s \in Socket : hold[s] \subseteq world.holders[s] \cup {p}
  OBVIOUS
<1> HIDE DEF par, hold
<1> DEFINE kin == [Orphaned(p) EXCEPT ![p] = par]
           seen == IF reading = "rest" THEN world.reused ELSE world.reused \cup {p}
<1>7. kin \in [Pid -> Relative] /\ seen \in SUBSET Pid
  BY <1>1 DEF SceneInv, WorldType
<1>8. world' = [world EXCEPT !.start[p] = moves + 1, !.path[p] = c, !.parent = kin, !.holders = hold, !.reused = seen]
  BY <1>5
<1> HIDE DEF kin, seen
<1>9. /\ WorldType'
      /\ world'.start = [world.start EXCEPT ![p] = moves + 1]
      /\ world'.parent = kin /\ world'.holders = hold /\ world'.reused = seen
      /\ world'.carries = world.carries /\ world'.left = world.left
  BY <1>2, <1>3, <1>7, <1>8 DEF SceneInv, WorldType
<1>10. q \in (Live \ {p}) \cup {0}
  BY DEF Fork
<1>11. \A s \in Socket : world'.holders[s] \subseteq world.holders[s] \cup {p}
  BY <1>6, <1>9
<1> QED
  BY <1>4, <1>9, <1>10, <1>11 DEF kin, seen

LEMMA ReaddressLeaves ==
  ASSUME SceneInv, NEW i \in Iface, NEW a \in Address, Readdress(i, a)
  PROVE  /\ WorldType'
         /\ world'.start = world.start /\ world'.parent = world.parent /\ world'.holders = world.holders
         /\ world'.reused = world.reused /\ world'.left = world.left /\ world'.path = world.path
BY DEF SceneInv, WorldType, Readdress

\* The cycle marks what it has read and nothing else.
LEMMA CycleLeaves ==
  ASSUME SceneInv, BeginCycle \/ ReadProcess \/ ReadServices \/ ReadEndpoints \/ Build
  PROVE  /\ WorldType'
         /\ world'.start = world.start /\ world'.parent = world.parent /\ world'.holders = world.holders
         /\ world'.path = world.path /\ world'.carries = world.carries
         /\ conf' = conf /\ moves' = moves
<1>1. CASE BeginCycle
  BY <1>1 DEF SceneInv, WorldType, BeginCycle
<1>2. CASE ReadProcess
  BY <1>2 DEF SceneInv, WorldType, ReadProcess
<1>3. CASE ReadServices \/ ReadEndpoints \/ Build
  BY <1>3 DEF SceneInv, WorldType, ReadServices, ReadEndpoints, Build
<1> QED
  BY <1>1, <1>2, <1>3

LEMMA SceneBegins == TopologyInit => SceneInv
<1> SUFFICES ASSUME TopologyInit PROVE SceneInv
  OBVIOUS
<1>1. /\ 1 \in Pid /\ Pid \subseteq Nat /\ IsFiniteSet(Pid)
      /\ \A p \in Pid : p > 0
  BY TopologyFacts
<1>2. moves \in Nat /\ \A p \in Pid : p <= moves
  <2>1. Max(Pid) \in Pid /\ \A p \in Pid : Max(Pid) >= p
    BY <1>1, MostOf
  <2> QED
    BY <1>1, <2>1 DEF TopologyInit
<1>3. conf \in TopologySettings /\ conf.paths \subseteq Seq(PathComponent)
  BY TopologyFacts DEF TopologyInit
<1>4. PICK path \in [Pid -> conf.paths], holders \in [Socket -> {{}} \cup {{p} : p \in Pid}] :
       world = [start |-> [p \in Pid |-> p], path |-> path, holders |-> holders,
                parent |-> [p \in Pid |-> IF p = 1 THEN Orphan ELSE [pid |-> 1, start |-> 1]],
                carries |-> [i \in Iface |-> Address], reused |-> {}, left |-> {}]
  BY DEF TopologyInit
<1>5. WorldType
  <2>1. path \in [Pid -> Seq(PathComponent)]
    BY <1>3
  <2>2. holders \in [Socket -> SUBSET Pid]
    OBVIOUS
  <2>3. [p \in Pid |-> IF p = 1 THEN Orphan ELSE [pid |-> 1, start |-> 1]] \in [Pid -> Relative]
    BY DEF Orphan, Relative
  <2>4. [p \in Pid |-> p] \in [Pid -> Nat]
    BY <1>1
  <2> QED
    BY <1>4, <2>1, <2>2, <2>3, <2>4 DEF WorldType
<1>6. \A p \in Pid : world.start[p] = p
  BY <1>4
<1>7. Live = Pid
  BY <1>1, <1>6 DEF Live
<1>8. \A s \in Socket : world.holders[s] \subseteq Live
  BY <1>4, <1>7
<1>9. ASSUME NEW p \in Pid PROVE Kin(p, world.parent[p])
  <2>1. world.parent[p] = Orphan \/ world.parent[p] = [pid |-> 1, start |-> 1]
    BY <1>4
  <2> QED
    BY <1>1, <1>6, <2>1 DEF Kin
<1> QED
  BY <1>2, <1>3, <1>5, <1>6, <1>8, <1>9 DEF SceneInv

LEMMA SceneSteps == SceneInv /\ [TopologyNext]_topologyVars => SceneInv'
<1> SUFFICES ASSUME SceneInv, [TopologyNext]_topologyVars PROVE SceneInv'
  OBVIOUS
<1>0. world.start \in [Pid -> Nat] /\ moves \in Nat /\ world.parent \in [Pid -> Relative]
      /\ Pid \subseteq Nat \ {0} /\ world.holders \in [Socket -> SUBSET Pid]
  BY TopologyFacts DEF SceneInv, WorldType
<1>a. \A p \in Pid : world.start[p] <= moves
  BY DEF SceneInv
<1>b. \A s \in Socket : world.holders[s] \subseteq Live
  BY DEF SceneInv
<1>c. \A p \in Pid : Kin(p, world.parent[p])
  BY DEF SceneInv
<1>o. ASSUME NEW p \in Pid, NEW q \in Pid
      PROVE  Orphaned(p)[q] = IF world.parent[q].pid = p /\ conf.os # "windows" THEN Orphan ELSE world.parent[q]
  BY DEF Orphaned
<1>1. CASE WorldMoves
  <2>0. moves' = moves + 1 /\ conf' = conf
    BY <1>1 DEF WorldMoves
  <2>1. ASSUME NEW p \in Pid, Exit(p) PROVE SceneInv'
    <3>1. /\ WorldType' /\ p \in Live
          /\ world'.start = [world.start EXCEPT ![p] = 0]
          /\ world'.parent = [Orphaned(p) EXCEPT ![p] = Orphan]
          /\ world'.holders = [s \in Socket |-> world.holders[s] \ {p}]
      BY <2>1, ExitLeaves
    <3>2. \A r \in Pid : world'.start[r] = IF r = p THEN 0 ELSE world.start[r]
      BY <1>0, <3>1
    <3>3. \A r \in Pid : world'.start[r] <= moves'
      BY <1>0, <1>a, <2>0, <3>2
    <3>4. \A s \in Socket : world'.holders[s] \subseteq Live'
      <4> SUFFICES ASSUME NEW s \in Socket, NEW r \in world'.holders[s] PROVE r \in Live'
        OBVIOUS
      <4>1. r \in world.holders[s] /\ r # p
        BY <3>1
      <4>2. r \in Live
        BY <1>b, <4>1
      <4> QED
        BY <3>2, <4>1, <4>2 DEF Live
    <3>5. ASSUME NEW r \in Pid PROVE Kin(r, world.parent[r])'
      <4>1. world'.parent[r] = IF r = p THEN Orphan ELSE Orphaned(p)[r]
        <5>1. Orphaned(p) \in [Pid -> Relative]
          BY <1>0 DEF Orphaned, Relative, Orphan
        <5> QED
          BY <3>1, <5>1
      <4>2. CASE world'.parent[r] = Orphan
        BY <4>2 DEF Kin
      <4>3. CASE world'.parent[r] # Orphan
        <5>1. r # p /\ world'.parent[r] = world.parent[r] /\ (world.parent[r].pid # p \/ conf.os = "windows")
          BY <1>o, <4>1, <4>3
        <5>2. Kin(r, world.parent[r]) /\ world.parent[r] \in Relative
          BY <1>0, <1>c
        <5> QED
          BY <1>0, <2>0, <3>2, <4>3, <5>1, <5>2 DEF Kin
      <4> QED
        BY <4>2, <4>3
    <3> QED
      BY <1>0, <2>0, <3>1, <3>3, <3>4, <3>5 DEF SceneInv
  <2>2. ASSUME NEW p \in Pid, NEW q, NEW c \in conf.paths, NEW S \in Opened, Fork(p, q, c, S)
        PROVE  SceneInv'
    <3>1. /\ WorldType' /\ q \in (Live \ {p}) \cup {0}
          /\ world'.start = [world.start EXCEPT ![p] = moves + 1]
          /\ world'.parent = [Orphaned(p) EXCEPT ![p] = IF q = 0 THEN Orphan ELSE [pid |-> q, start |-> world.start[q]]]
          /\ \A s \in Socket : world'.holders[s] \subseteq world.holders[s] \cup {p}
      BY <2>2, ForkLeaves
    <3>2. \A r \in Pid : world'.start[r] = IF r = p THEN moves + 1 ELSE world.start[r]
      BY <1>0, <3>1
    <3>3. \A r \in Pid : world'.start[r] <= moves'
      BY <1>0, <1>a, <2>0, <3>2
    <3>4. \A s \in Socket : world'.holders[s] \subseteq Live'
      <4> SUFFICES ASSUME NEW s \in Socket, NEW r \in world'.holders[s] PROVE r \in Live'
        OBVIOUS
      <4>1. r \in world.holders[s] \/ r = p
        BY <3>1
      <4>2. r \in Live \/ r = p
        BY <1>b, <4>1
      <4>3. r \in Pid /\ (r # p => world.start[r] > 0)
        BY <2>2, <4>2 DEF Live
      <4>4. world'.start[r] > 0
        BY <1>0, <3>2, <4>3
      <4> QED
        BY <4>3, <4>4 DEF Live
    <3>5. ASSUME NEW r \in Pid PROVE Kin(r, world.parent[r])'
      <4>0. world'.parent[r] = IF r = p THEN (IF q = 0 THEN Orphan ELSE [pid |-> q, start |-> world.start[q]])
                               ELSE Orphaned(p)[r]
        <5>1. Orphaned(p) \in [Pid -> Relative]
          BY <1>0 DEF Orphaned, Relative, Orphan
        <5> QED
          BY <3>1, <5>1
      <4>2. CASE world'.parent[r] = Orphan
        BY <4>2 DEF Kin
      <4>3. CASE r = p /\ q # 0
        <5>1. q \in Pid /\ q # p /\ world.start[q] > 0
          BY <3>1, <4>3 DEF Live
        <5>2. world'.parent[r].pid = q /\ world'.parent[r].start = world.start[q]
          BY <4>0, <4>3
        <5>3. world'.start[q] = world.start[q]
          BY <3>2, <5>1
        <5> QED
          BY <5>1, <5>2, <5>3 DEF Kin
      <4>4. CASE r # p /\ world'.parent[r] # Orphan
        <5>1. r # p /\ world'.parent[r] = world.parent[r] /\ (world.parent[r].pid # p \/ conf.os = "windows")
          BY <1>o, <4>0, <4>4
        <5>2. Kin(r, world.parent[r]) /\ world.parent[r] \in Relative /\ world.start[r] <= moves
          BY <1>0, <1>a, <1>c
        <5> DEFINE g == world.parent[r]
        <5>3. /\ g.pid \in Pid /\ g.start > 0
              /\ \/ world.start[g.pid] = g.start
                 \/ conf.os = "windows" /\ (world.start[g.pid] = 0 \/ world.start[g.pid] > world.start[r])
          BY <4>4, <5>1, <5>2 DEF Kin
        <5>4. world'.start[r] = world.start[r]
          BY <3>2, <5>1
        <5>5. CASE g.pid = p
          <6>1. world'.start[g.pid] = moves + 1 /\ moves + 1 > world.start[r] /\ conf.os = "windows"
            BY <1>0, <3>2, <5>1, <5>2, <5>3, <5>5
          <6> QED
            BY <2>0, <5>1, <5>3, <5>4, <6>1 DEF Kin
        <5>6. CASE g.pid # p
          <6>1. world'.start[g.pid] = world.start[g.pid]
            BY <3>2, <5>3, <5>6
          <6> QED
            BY <2>0, <5>1, <5>3, <5>4, <6>1 DEF Kin
        <5> QED
          BY <5>5, <5>6
      <4> QED
        BY <4>0, <4>2, <4>3, <4>4
    <3> QED
      BY <1>0, <2>0, <3>1, <3>3, <3>4, <3>5 DEF SceneInv
  <2>3. ASSUME NEW i \in Iface, NEW a \in Address, Readdress(i, a) PROVE SceneInv'
    <3>1. WorldType' /\ world'.start = world.start /\ world'.parent = world.parent /\ world'.holders = world.holders
      BY <2>3, ReaddressLeaves
    <3> QED
      BY <1>0, <1>a, <1>b, <1>c, <2>0, <3>1 DEF SceneInv, Kin, Live
  <2> QED
    BY <1>1, <2>1, <2>2, <2>3 DEF WorldMoves
<1>2. CASE BeginCycle \/ ReadProcess \/ ReadServices \/ ReadEndpoints \/ Build
  <2>1. /\ WorldType'
        /\ world'.start = world.start /\ world'.parent = world.parent /\ world'.holders = world.holders
        /\ conf' = conf /\ moves' = moves
    BY <1>2, CycleLeaves
  <2> QED
    BY <1>0, <1>a, <1>b, <1>c, <2>1 DEF SceneInv, Kin, Live
<1>3. CASE UNCHANGED topologyVars
  BY <1>3 DEF SceneInv, Kin, Live, WorldType, topologyVars
<1> QED
  BY <1>1, <1>2, <1>3 DEF TopologyNext

\* What a source said of a process.
GoodFact(f) ==
  /\ f.pid \in Pid /\ f.start \in Nat \ {0} /\ f.known \in BOOLEAN
  /\ f.parent \in Relative /\ f.ppid \in {0, f.parent.pid}

LEMMA DiscoverIs ==
  ASSUME SceneInv, NEW p \in Pid, NEW f \in DiscoverProcess(p)
  PROVE  /\ p \in Live /\ f.pid = p /\ f.start = world.start[p] /\ f.parent = world.parent[p]
         /\ GoodFact(f) /\ \A g \in DiscoverProcess(p) : g = f
<1>1. p \in Live /\ world.start[p] \in Nat \ {0} /\ world.parent[p] \in Relative
  <2>1. p \in Live
    BY DEF DiscoverProcess
  <2>2. world.start \in [Pid -> Nat] /\ world.parent \in [Pid -> Relative]
    BY DEF SceneInv, WorldType
  <2> QED
    BY <2>1, <2>2 DEF Live
<1>2. \E ppid \in {0, world.parent[p].pid}, stamped \in BOOLEAN : \E path :
         f = ProcessFacts(p, ppid, path, stamped) /\ DiscoverProcess(p) = {f}
  <2>1. CASE conf.os = "linux"
    <3>1. DiscoverProcess(p) = LinuxProcess(p)
      BY <1>1, <2>1 DEF DiscoverProcess
    <3> QED
      BY <3>1 DEF LinuxProcess
  <2>2. CASE conf.os = "windows"
    <3>1. DiscoverProcess(p) = WindowsProcess(p) /\ (p \notin conf.denied) \in BOOLEAN
      BY <1>1, <2>2 DEF DiscoverProcess
    <3> QED
      BY <3>1 DEF WindowsProcess
  <2>3. CASE conf.os \notin {"linux", "windows"}
    <3>1. DiscoverProcess(p) = DarwinProcess(p)
      BY <1>1, <2>3 DEF DiscoverProcess
    <3> QED
      BY <3>1 DEF DarwinProcess
  <2> QED
    BY <2>1, <2>2, <2>3
<1>2a. PICK ppid \in {0, world.parent[p].pid}, stamped \in BOOLEAN : \E path :
         f = ProcessFacts(p, ppid, path, stamped) /\ DiscoverProcess(p) = {f}
  BY <1>2
<1>3. f.pid = p /\ f.start = world.start[p] /\ f.parent = world.parent[p] /\ f.known = stamped /\ f.ppid = ppid
  BY <1>2a DEF ProcessFacts
<1> QED
  BY <1>1, <1>2a, <1>3 DEF GoodFact

LEMMA LowestIsIn ==
  ASSUME NEW P, P \subseteq Nat
  PROVE  LowestIn(P) = 0 \/ LowestIn(P) \in P
BY LeastOf DEF LowestIn

LEMMA UnitsAreNumbers ==
  ASSUME SceneInv
  PROVE  IsFiniteSet(Units) /\ Units \subseteq Nat
<1>1. IsFiniteSet(conf.paths) /\ conf.paths \subseteq Seq(PathComponent)
  BY TopologyFacts DEF SceneInv
<1> DEFINE named(c) == {Unit(c[i]) : i \in DOMAIN c}
<1>2. ASSUME NEW c \in conf.paths PROVE IsFiniteSet(named(c)) /\ named(c) \subseteq Nat
  <2>1. c \in Seq(PathComponent) /\ DOMAIN c = 1 .. Len(c) /\ Len(c) \in Nat
    BY <1>1
  <2>2. IsFiniteSet(DOMAIN c)
    <3>1. 1 \in Int /\ Len(c) \in Int
      BY <2>1
    <3>2. IsFiniteSet(1 .. Len(c))
      BY <3>1, FS_Interval
    <3> QED
      BY <2>1, <3>2
  <2> DEFINE f == [i \in DOMAIN c |-> Unit(c[i])]
  <2>3. named(c) = {f[i] : i \in DOMAIN c}
    OBVIOUS
  <2>4. IsFiniteSet(named(c))
    <3> DEFINE D == DOMAIN c
    <3>1. IsFiniteSet(D) /\ named(c) = {f[i] : i \in D}
      BY <2>2, <2>3
    <3> HIDE DEF D, f, named
    <3>2. IsFiniteSet({f[i] : i \in D})
      BY <3>1, ImageIsFinite
    <3> QED
      BY <3>1, <3>2
  <2>5. \A i \in DOMAIN c : Unit(c[i]) \in Nat
    <3> SUFFICES ASSUME NEW i \in DOMAIN c PROVE Unit(c[i]) \in Nat
      OBVIOUS
    <3>1. c[i] \in PathComponent
      BY <2>1
    <3> QED
      BY <3>1, NumbersAreNat DEF Unit, PathComponent
  <2> QED
    BY <2>4, <2>5
<1> DEFINE f == [c \in conf.paths |-> named(c)]
<1>3. Units = (UNION {f[c] : c \in conf.paths}) \ {0}
  <2>1. \A c \in conf.paths : f[c] = {Unit(c[i]) : i \in DOMAIN c}
    OBVIOUS
  <2> HIDE DEF f
  <2>2. {f[c] : c \in conf.paths} = {{Unit(c[i]) : i \in DOMAIN c} : c \in conf.paths}
    BY <2>1
  <2> QED
    BY <2>2 DEF Units
<1>4. IsFiniteSet({f[c] : c \in conf.paths})
  BY <1>1, ImageIsFinite
<1>5. \A X \in {f[c] : c \in conf.paths} : IsFiniteSet(X) /\ X \subseteq Nat
  BY <1>2
<1> HIDE DEF f
<1> DEFINE All == {f[c] : c \in conf.paths}
<1>6. IsFiniteSet(UNION All)
  <2>1. IsFiniteSet(All) /\ \A X \in All : IsFiniteSet(X)
    BY <1>4, <1>5
  <2> HIDE DEF All
  <2> QED
    BY <2>1, FS_UNION
<1>7. Units \subseteq UNION All
  BY <1>3
<1> QED
  BY <1>5, <1>6, <1>7, FS_Subset

LEMMA ServicesAre ==
  ASSUME SceneInv
  PROVE  /\ IsFiniteSet(DiscoverServices)
         /\ \A s \in DiscoverServices :
              /\ s.name \in Nat
              /\ s.main = 0 \/ (s.main \in Live /\ s.mainStart = world.start[s.main])
<1>0. Pid \subseteq Nat \ {0} /\ \A u : Members(u) \subseteq Live
  BY TopologyFacts DEF Members
<1>1. Live \subseteq Nat /\ 0 \notin Live
  BY <1>0 DEF Live
<1> DEFINE us == {v \in Units : Members(v) # {}}
           lin == [u \in us |-> Service(u, MainPIDOf(u))]
           win == [u \in us |-> Service(u, LowestIn(Members(u)))]
<1>2. IsFiniteSet(us) /\ us \subseteq Nat
  BY UnitsAreNumbers, FS_Subset
<1>3. IsFiniteSet({lin[u] : u \in us}) /\ IsFiniteSet({win[u] : u \in us})
  BY <1>2, ImageIsFinite
<1>4. /\ LinuxServices = {lin[u] : u \in us}
      /\ WindowsServices = {win[u] : u \in us}
  BY DEF LinuxServices, WindowsServices
<1>5. ASSUME NEW u \in us
      PROVE  /\ MainPIDOf(u) = 0 \/ MainPIDOf(u) \in Live
             /\ LowestIn(Members(u)) = 0 \/ LowestIn(Members(u)) \in Live
  <2>1. ASSUME NEW P, P \subseteq Members(u) PROVE LowestIn(P) = 0 \/ LowestIn(P) \in Live
    BY <1>0, <1>1, <2>1, LowestIsIn
  <2> QED
    BY <2>1 DEF MainPIDOf
<1>6. ASSUME NEW u \in us, NEW m, m = 0 \/ m \in Live
      PROVE  LET s == Service(u, m)
             IN s.name \in Nat /\ (s.main = 0 \/ (s.main \in Live /\ s.mainStart = world.start[s.main]))
  BY <1>1, <1>2, <1>6 DEF Service
<1>7. ASSUME NEW s \in LinuxServices \cup WindowsServices
      PROVE  s.name \in Nat /\ (s.main = 0 \/ (s.main \in Live /\ s.mainStart = world.start[s.main]))
  <2>1. PICK u \in us : s = Service(u, MainPIDOf(u)) \/ s = Service(u, LowestIn(Members(u)))
    BY <1>4
  <2> QED
    BY <1>5, <1>6, <2>1
<1>8. DiscoverServices \in {LinuxServices, WindowsServices, {}}
  BY DEF DiscoverServices
<1>9. IsFiniteSet(LinuxServices) /\ IsFiniteSet(WindowsServices) /\ IsFiniteSet({})
  BY <1>3, <1>4, FS_EmptySet
<1> QED
  BY <1>7, <1>8, <1>9

LEMMA EndpointsAre ==
  ASSUME SceneInv
  PROVE  \A x, y \in DiscoverEndpoints :
           /\ x.at \in Nat /\ (x.at = y.at => x = y)
           /\ x.owner = 0 \/ (x.owner \in Live /\ x.ownerStart = world.start[x.owner])
<1>0. Pid \subseteq Nat \ {0} /\ \A s, t \in Socket : s.n \in Nat /\ (s.n = t.n => s = t)
  BY TopologyFacts
<1>1. Live \subseteq Nat /\ 0 \notin Live /\ \A s \in Socket : world.holders[s] \subseteq Live
  BY <1>0 DEF Live, SceneInv
<1>2. \E own : DiscoverEndpoints \subseteq {Endpoint(s, own[s]) : s \in ParseProcNet}
                 /\ \A s \in ParseProcNet : own[s] = 0 \/ own[s] \in Live
  <2>1. CASE conf.os = "linux"
    <3> DEFINE own == [s \in ParseProcNet |-> IF conf.correlate THEN CorrelateOwners(s) ELSE 0]
    <3>1. \A s \in ParseProcNet : CorrelateOwners(s) = 0 \/ CorrelateOwners(s) \in Live
      <4> SUFFICES ASSUME NEW s \in ParseProcNet PROVE CorrelateOwners(s) = 0 \/ CorrelateOwners(s) \in Live
        OBVIOUS
      <4> DEFINE P == {p \in world.holders[s] \ conf.denied : Cardinality({q \in Live : q < p}) < conf.maxScans}
      <4>1. P \subseteq Live
        BY <1>1 DEF ParseProcNet
      <4>2. LowestIn(P) = 0 \/ LowestIn(P) \in P
        BY <1>1, <4>1, LowestIsIn
      <4> QED
        BY <4>1, <4>2 DEF CorrelateOwners
    <3>2. DiscoverEndpoints \subseteq {Endpoint(s, own[s]) : s \in ParseProcNet}
      BY <2>1 DEF DiscoverEndpoints, LinuxEndpoints
    <3>3. \A s \in ParseProcNet : own[s] = 0 \/ own[s] \in Live
      BY <3>1
    <3> HIDE DEF own
    <3> QED
      BY <3>2, <3>3
  <2>2. CASE conf.os = "windows"
    <3> DEFINE own == [s \in ParseProcNet |-> IF conf.correlate THEN Min(world.holders[s]) ELSE 0]
    <3>1. \A s \in ParseProcNet : Min(world.holders[s]) \in Live
      <4> SUFFICES ASSUME NEW s \in ParseProcNet PROVE Min(world.holders[s]) \in Live
        OBVIOUS
      <4>1. world.holders[s] # {} /\ world.holders[s] \subseteq Live /\ world.holders[s] \subseteq Nat
        BY <1>1 DEF ParseProcNet
      <4> QED
        BY <4>1, LeastOf
    <3>2. DiscoverEndpoints \subseteq {Endpoint(s, own[s]) : s \in ParseProcNet}
      BY <2>2 DEF DiscoverEndpoints, WindowsEndpoints
    <3>3. \A s \in ParseProcNet : own[s] = 0 \/ own[s] \in Live
      BY <3>1
    <3> HIDE DEF own
    <3> QED
      BY <3>2, <3>3
  <2>3. CASE conf.os \notin {"linux", "windows"}
    <3>1. DiscoverEndpoints = {}
      BY <2>3 DEF DiscoverEndpoints
    <3>2. \A s \in ParseProcNet : [t \in ParseProcNet |-> 0][s] = 0
      OBVIOUS
    <3> QED
      BY <3>1, <3>2
  <2> QED
    BY <2>1, <2>2, <2>3
<1>3. PICK own : /\ DiscoverEndpoints \subseteq {Endpoint(s, own[s]) : s \in ParseProcNet}
                 /\ \A s \in ParseProcNet : own[s] = 0 \/ own[s] \in Live
  BY <1>2
<1>4. ASSUME NEW x \in DiscoverEndpoints, NEW y \in DiscoverEndpoints
      PROVE  /\ x.at \in Nat /\ (x.at = y.at => x = y)
             /\ x.owner = 0 \/ (x.owner \in Live /\ x.ownerStart = world.start[x.owner])
  <2>1. PICK s \in ParseProcNet : x = Endpoint(s, own[s])
    BY <1>3
  <2>2. PICK t \in ParseProcNet : y = Endpoint(t, own[t])
    BY <1>3
  <2>3. s \in Socket /\ t \in Socket /\ x.at = s.n /\ y.at = t.n
    BY <2>1, <2>2 DEF ParseProcNet, Endpoint
  <2>4. x.owner = own[s] /\ (own[s] # 0 => x.ownerStart = world.start[own[s]])
    BY <2>1 DEF Endpoint
  <2> QED
    BY <1>0, <1>3, <2>1, <2>2, <2>3, <2>4
<1> QED
  BY <1>4

\* What was found, on which the rest of the cycle is built.
SightType ==
  /\ found = [procs |-> found.procs, services |-> found.services, endpoints |-> found.endpoints, ifaces |-> found.ifaces]
  /\ reading \in {"rest", "processes", "services", "build"}
  /\ reading = "processes" => found.services = {} /\ found.endpoints = {} /\ found.ifaces = {}
  /\ reading = "services" => found.endpoints = {} /\ found.ifaces = {}
  /\ \A f, g \in found.procs : GoodFact(f) /\ (f.pid = g.pid => f = g)
  /\ reading = "processes" => \A f \in found.procs : f.pid \notin world.left
  /\ IsFiniteSet(found.services) /\ IsFiniteSet(found.ifaces) /\ \A s \in found.services : s.name \in Nat
  /\ \A x, y \in found.endpoints : x.at \in Nat /\ (x.at = y.at => x = y)

\* What the sources said agrees, but for what has changed hands.
Agrees(f, q) ==
  q.start = f.parent.start \/ (conf.os = "windows" /\ q.start > f.start)

SightAgrees ==
  /\ \A f, g \in found.procs : g.pid = f.parent.pid => g.pid \in world.reused \/ Agrees(f, g)
  /\ \A f \in found.procs, s \in found.services :
       s.main = f.pid => f.pid \in world.reused \/ s.mainStart = f.start
  /\ \A f \in found.procs, x \in found.endpoints :
       x.owner = f.pid => f.pid \in world.reused \/ x.ownerStart = f.start

\* What was read before agrees with what is there now, on which what is read next depends.
StillThere(f) ==
  f.pid \in world.reused \/ world.start[f.pid] \in {0, f.start}
ParentStill(f, q) ==
  \/ q.pid = 0 \/ q.pid \in world.reused \/ world.start[q.pid] \in {0, q.start}
  \/ conf.os = "windows" /\ world.start[q.pid] > f.start
WillAgree(g, p) ==
  world.parent[p].pid = g.pid =>
    \/ g.pid \in world.reused \/ g.start = world.parent[p].start
    \/ conf.os = "windows" /\ g.start > world.start[p]

SightLasts ==
  reading # "rest" =>
    \A f \in found.procs :
      StillThere(f) /\ ParentStill(f, f.parent) /\ \A p \in Pid : WillAgree(f, p)

SightInv == SightType /\ SightAgrees /\ SightLasts

LEMMA SightBegins == TopologyInit => SightInv
<1> SUFFICES ASSUME TopologyInit PROVE SightInv
  OBVIOUS
<1>1. found = NoFacts /\ reading = "rest"
  BY DEF TopologyInit
<1> QED
  BY <1>1, FS_EmptySet DEF SightInv, SightType, SightAgrees, SightLasts, NoFacts

\* However the host moves, what was seen of it before agrees with what may be seen of it next.
LEMMA SightOutlivesMoves ==
  ASSUME SceneInv, SightInv, WorldMoves
  PROVE  SightInv'
<1>0. /\ found' = found /\ conf' = conf /\ reading' = reading
      /\ world.start \in [Pid -> Nat] /\ moves \in Nat /\ world.parent \in [Pid -> Relative]
      /\ Pid \subseteq Nat \ {0} /\ world.reused \subseteq Pid
  BY TopologyFacts DEF SceneInv, WorldType, WorldMoves
<1>1. /\ \A p \in Pid : world.start[p] <= moves
      /\ \A f, g \in found.procs : GoodFact(f) /\ (f.pid = g.pid => f = g)
  BY DEF SceneInv, SightInv, SightType
<1>g. \A f \in found.procs : f.pid \in Pid /\ f.start \in Nat \ {0} /\ f.parent \in Relative
  BY <1>1 DEF GoodFact
<1>2. ASSUME world'.left = world.left, world.reused \subseteq world'.reused, SightLasts'
      PROVE  SightInv'
  <2>1. SightType'
    BY <1>0, <1>2 DEF SightInv, SightType, GoodFact
  <2>2. SightAgrees'
    BY <1>0, <1>2 DEF SightInv, SightAgrees, Agrees
  <2> QED
    BY <1>2, <2>1, <2>2 DEF SightInv
<1>s. ASSUME reading # "rest", NEW f \in found.procs
      PROVE  StillThere(f) /\ ParentStill(f, f.parent) /\ \A p \in Pid : WillAgree(f, p)
  BY <1>s DEF SightInv, SightLasts
<1>3. ASSUME NEW p \in Pid, Exit(p) PROVE SightInv'
  <2>1. /\ world'.start = [world.start EXCEPT ![p] = 0]
        /\ world'.parent = [Orphaned(p) EXCEPT ![p] = Orphan]
        /\ world'.reused = world.reused /\ world'.left = world.left
    BY <1>3, ExitLeaves
  <2>2. \A r \in Pid : world'.start[r] = IF r = p THEN 0 ELSE world.start[r]
    BY <1>0, <2>1
  <2>3. \A r \in Pid : world'.parent[r] \in {Orphan, world.parent[r]} /\ (r = p => world'.parent[r] = Orphan)
    <3>1. Orphaned(p) \in [Pid -> Relative] /\ \A r \in Pid : Orphaned(p)[r] \in {Orphan, world.parent[r]}
      BY <1>0 DEF Orphaned, Relative, Orphan
    <3> QED
      BY <2>1, <3>1
  <2>4. ASSUME reading # "rest", NEW f \in found.procs
        PROVE  (StillThere(f) /\ ParentStill(f, f.parent))'
    <3>1. StillThere(f) /\ ParentStill(f, f.parent) /\ f.pid \in Pid /\ f.parent \in Relative
      BY <1>g, <1>s, <2>4
    <3>2. StillThere(f)'
      BY <2>1, <2>2, <3>1 DEF StillThere
    <3>3. f.parent.pid \in Pid \/ f.parent.pid \notin Pid
      OBVIOUS
    <3>4. ParentStill(f, f.parent)'
      <4>1. CASE f.parent.pid \in Pid
        BY <1>0, <2>1, <2>2, <3>1, <4>1 DEF ParentStill
      <4>2. CASE f.parent.pid \notin Pid
        BY <1>0, <2>1, <3>1, <4>2 DEF ParentStill
      <4> QED
        BY <4>1, <4>2
    <3> QED
      BY <3>2, <3>4
  <2>5. ASSUME reading # "rest", NEW f \in found.procs, NEW r \in Pid PROVE WillAgree(f, r)'
    <3>1. WillAgree(f, r) /\ f.pid # 0
      BY <1>0, <1>g, <1>s, <2>5
    <3>2. CASE world'.parent[r] = Orphan
      BY <3>1, <3>2 DEF WillAgree, Orphan
    <3>3. CASE world'.parent[r] # Orphan
      <4>1. r # p /\ world'.parent[r] = world.parent[r] /\ world'.start[r] = world.start[r]
        BY <2>2, <2>3, <3>3
      <4> QED
        BY <1>0, <2>1, <3>1, <4>1 DEF WillAgree
    <3> QED
      BY <3>2, <3>3
  <2>6. SightLasts'
    BY <1>0, <2>4, <2>5 DEF SightLasts
  <2> QED
    BY <1>2, <2>1, <2>6
<1>4. ASSUME NEW p \in Pid, NEW q, NEW c \in conf.paths, NEW S \in Opened, Fork(p, q, c, S)
      PROVE  SightInv'
  <2>1. /\ q \in (Live \ {p}) \cup {0}
        /\ world'.start = [world.start EXCEPT ![p] = moves + 1]
        /\ world'.parent = [Orphaned(p) EXCEPT ![p] = IF q = 0 THEN Orphan ELSE [pid |-> q, start |-> world.start[q]]]
        /\ world'.left = world.left
        /\ world'.reused = IF reading = "rest" THEN world.reused ELSE world.reused \cup {p}
    BY <1>4, ForkLeaves
  <2>2. \A r \in Pid : world'.start[r] = IF r = p THEN moves + 1 ELSE world.start[r]
    BY <1>0, <2>1
  <2>3. /\ world'.parent[p] = IF q = 0 THEN Orphan ELSE [pid |-> q, start |-> world.start[q]]
        /\ \A r \in Pid \ {p} : world'.parent[r] \in {Orphan, world.parent[r]}
    <3>1. Orphaned(p) \in [Pid -> Relative] /\ \A r \in Pid : Orphaned(p)[r] \in {Orphan, world.parent[r]}
      BY <1>0 DEF Orphaned, Relative, Orphan
    <3> QED
      BY <2>1, <3>1
  <2>4. ASSUME reading # "rest", NEW f \in found.procs
        PROVE  (StillThere(f) /\ ParentStill(f, f.parent))'
    <3>0. world'.reused = world.reused \cup {p}
      BY <2>1, <2>4
    <3>1. StillThere(f) /\ ParentStill(f, f.parent) /\ f.pid \in Pid /\ f.parent \in Relative
      BY <1>g, <1>s, <2>4
    <3>2. StillThere(f)'
      BY <2>2, <3>0, <3>1 DEF StillThere
    <3>4. ParentStill(f, f.parent)'
      <4>1. CASE f.parent.pid \in Pid
        BY <1>0, <2>2, <3>0, <3>1, <4>1 DEF ParentStill
      <4>2. CASE f.parent.pid \notin Pid
        <5>1. world'.start[f.parent.pid] = world.start[f.parent.pid]
          BY <1>0, <2>1, <4>2
        <5> QED
          BY <1>0, <3>0, <3>1, <5>1 DEF ParentStill
      <4> QED
        BY <4>1, <4>2
    <3> QED
      BY <3>2, <3>4
  <2>5. ASSUME reading # "rest", NEW f \in found.procs, NEW r \in Pid PROVE WillAgree(f, r)'
    <3>0. world'.reused = world.reused \cup {p}
      BY <2>1, <2>5
    <3>1. WillAgree(f, r) /\ StillThere(f) /\ f.pid # 0 /\ f.pid \in Pid
      BY <1>0, <1>g, <1>s, <2>5
    <3>2. CASE world'.parent[r] = Orphan
      BY <3>1, <3>2 DEF WillAgree, Orphan
    <3>3. CASE world'.parent[r] # Orphan /\ r # p
      <4>1. world'.parent[r] = world.parent[r] /\ world'.start[r] = world.start[r]
        BY <2>2, <2>3, <3>3
      <4> QED
        BY <1>0, <3>0, <3>1, <4>1 DEF WillAgree
    <3>4. CASE world'.parent[r] # Orphan /\ r = p
      <4>1. world'.parent[r].pid = q /\ world'.parent[r].start = world.start[q] /\ q \in Live
        BY <2>1, <2>3, <3>4
      <4>2. world.start[q] > 0
        BY <4>1 DEF Live
      <4>3. f.pid = q => f.pid \in world.reused \/ world.start[q] = f.start
        BY <1>0, <3>1, <4>2 DEF StillThere
      <4> QED
        BY <3>0, <4>1, <4>3 DEF WillAgree
    <3> QED
      BY <3>2, <3>3, <3>4
  <2>6. SightLasts'
    BY <1>0, <2>4, <2>5 DEF SightLasts
  <2> QED
    BY <1>2, <2>1, <2>6
<1>5. ASSUME NEW i \in Iface, NEW a \in Address, Readdress(i, a) PROVE SightInv'
  <2>1. /\ world'.start = world.start /\ world'.parent = world.parent
        /\ world'.reused = world.reused /\ world'.left = world.left
    BY <1>5, ReaddressLeaves
  <2>2. SightLasts'
    BY <1>0, <2>1 DEF SightInv, SightLasts, StillThere, ParentStill, WillAgree
  <2> QED
    BY <1>2, <2>1, <2>2
<1> QED
  BY <1>3, <1>4, <1>5 DEF WorldMoves

\* One more process is read.
LEMMA SightReadsProcess ==
  ASSUME SceneInv, SightInv, ReadProcess
  PROVE  SightInv'
<1> DEFINE p == Min(world.left)
<1>0. /\ conf' = conf /\ reading' = reading /\ reading = "processes" /\ world.left # {}
      /\ found' = [found EXCEPT !.procs = @ \cup DiscoverProcess(p)]
      /\ world' = [world EXCEPT !.left = @ \ {p}]
  BY DEF ReadProcess
<1>1. /\ world.start \in [Pid -> Nat] /\ moves \in Nat /\ world.parent \in [Pid -> Relative]
      /\ Pid \subseteq Nat \ {0} /\ world.left \subseteq Pid
      /\ \A r \in Pid : Kin(r, world.parent[r])
  BY TopologyFacts DEF SceneInv, WorldType
<1>2. p \in world.left /\ p \in Pid
  BY <1>0, <1>1, LeastOf
<1> HIDE DEF p
<1>3. /\ world'.start = world.start /\ world'.parent = world.parent /\ world'.reused = world.reused
      /\ world'.left = world.left \ {p}
  BY <1>0 DEF SceneInv, WorldType
<1>4. /\ found' = [procs |-> found.procs \cup DiscoverProcess(p), services |-> found.services,
                   endpoints |-> found.endpoints, ifaces |-> found.ifaces]
      /\ found.services = {} /\ found.endpoints = {} /\ found.ifaces = {}
      /\ \A f \in found.procs : f.pid \in Pid /\ f.pid \notin world.left
      /\ \A f, g \in found.procs : GoodFact(f) /\ (f.pid = g.pid => f = g)
  BY <1>0 DEF SightInv, SightType, GoodFact
<1>5. ASSUME NEW f \in DiscoverProcess(p)
      PROVE  /\ p \in Live /\ f.pid = p /\ f.start = world.start[p] /\ f.parent = world.parent[p]
             /\ GoodFact(f) /\ \A g \in DiscoverProcess(p) : g = f
  BY <1>2, <1>5, DiscoverIs
<1>6. found'.procs = found.procs \cup DiscoverProcess(p)
  BY <1>4
<1>7. SightType'
  <2>1. \A f, g \in found'.procs : GoodFact(f) /\ (f.pid = g.pid => f = g)
    BY <1>2, <1>4, <1>5, <1>6
  <2>2. \A f \in found'.procs : f.pid \notin world'.left
    BY <1>3, <1>4, <1>5, <1>6
  <2>3. \A f \in found'.procs : GoodFact(f)'
    BY <2>1 DEF GoodFact
  <2> QED
    BY <1>0, <1>4, <2>1, <2>2, <2>3, FS_EmptySet DEF SightType
<1>s. ASSUME NEW f \in found.procs
      PROVE  StillThere(f) /\ ParentStill(f, f.parent) /\ \A r \in Pid : WillAgree(f, r)
  BY <1>0, <1>s DEF SightInv, SightLasts
<1>8. SightAgrees'
  <2>1. ASSUME NEW f \in found'.procs, NEW g \in found'.procs, g.pid = f.parent.pid
        PROVE  (g.pid \in world.reused \/ Agrees(f, g))'
    <3>1. CASE f \in found.procs /\ g \in found.procs
      BY <1>0, <1>3, <2>1, <3>1 DEF SightInv, SightAgrees, Agrees
    <3>2. CASE f \in DiscoverProcess(p) /\ g \in found.procs
      <4>1. f.start = world.start[p] /\ f.parent = world.parent[p]
        BY <1>5, <3>2
      <4>2. WillAgree(g, p)
        BY <1>2, <1>s, <3>2
      <4> QED
        BY <1>0, <1>3, <2>1, <4>1, <4>2 DEF WillAgree, Agrees
    <3>3. CASE f \in found.procs /\ g \in DiscoverProcess(p)
      <4>1. g.pid = p /\ g.start = world.start[p] /\ p \in Live
        BY <1>5, <3>3
      <4>2. ParentStill(f, f.parent) /\ world.start[p] > 0 /\ p # 0
        BY <1>1, <1>2, <1>s, <3>3, <4>1 DEF Live
      <4>3. world.start[p] \in Nat
        BY <1>1, <1>2
      <4> QED
        BY <1>0, <1>3, <2>1, <4>1, <4>2, <4>3 DEF ParentStill, Agrees
    <3>4. CASE f \in DiscoverProcess(p) /\ g \in DiscoverProcess(p)
      <4>1. f = g /\ g.pid = p /\ g.start = world.start[p] /\ p \in Live /\ f.parent = world.parent[p]
        BY <1>5, <3>4
      <4>2. Kin(p, world.parent[p]) /\ world.start[p] > 0 /\ p # 0 /\ world.start[p] \in Nat
        BY <1>1, <1>2, <4>1 DEF Live
      <4> QED
        BY <1>0, <1>3, <2>1, <4>1, <4>2 DEF Kin, Agrees, Orphan
    <3> QED
      BY <1>6, <3>1, <3>2, <3>3, <3>4
  <2>2. found'.services = {} /\ found'.endpoints = {}
    BY <1>4
  <2> QED
    BY <2>1, <2>2 DEF SightAgrees
<1>9. SightLasts'
  <2> SUFFICES ASSUME NEW f \in found'.procs
               PROVE  (StillThere(f) /\ ParentStill(f, f.parent) /\ \A r \in Pid : WillAgree(f, r))'
    BY DEF SightLasts
  <2>1. CASE f \in found.procs
    BY <1>0, <1>3, <1>s, <2>1 DEF StillThere, ParentStill, WillAgree
  <2>2. CASE f \in DiscoverProcess(p)
    <3>1. f.pid = p /\ f.start = world.start[p] /\ p \in Live /\ f.parent = world.parent[p]
      BY <1>5, <2>2
    <3>2. world.start[p] > 0 /\ p # 0 /\ world.start[p] \in Nat
      BY <1>1, <1>2, <3>1 DEF Live
    <3>3. StillThere(f)'
      BY <1>3, <3>1 DEF StillThere
    <3>4. ParentStill(f, f.parent)'
      <4>1. Kin(p, world.parent[p])
        BY <1>1, <1>2
      <4> QED
        BY <1>0, <1>3, <3>1, <4>1 DEF ParentStill, Kin, Orphan
    <3>5. ASSUME NEW r \in Pid PROVE WillAgree(f, r)'
      <4>1. Kin(r, world.parent[r]) /\ world.start[r] \in Nat
        BY <1>1
      <4> QED
        BY <1>0, <1>3, <3>1, <3>2, <4>1 DEF WillAgree, Kin, Orphan
    <3> QED
      BY <3>3, <3>4, <3>5
  <2> QED
    BY <1>6, <2>1, <2>2
<1> QED
  BY <1>7, <1>8, <1>9 DEF SightInv

LEMMA SightReadsRest ==
  ASSUME SceneInv, SightInv, BeginCycle \/ ReadServices \/ ReadEndpoints \/ Build
  PROVE  SightInv'
<1>1. /\ world'.start = world.start /\ world'.parent = world.parent /\ conf' = conf
  BY CycleLeaves
<1>2. CASE BeginCycle
  <2>1. reading' = "processes" /\ found' = NoFacts
    BY <1>2 DEF BeginCycle
  <2> QED
    BY <2>1, FS_EmptySet DEF SightInv, SightType, SightAgrees, SightLasts, NoFacts
<1>3. CASE ReadServices
  <2>1. /\ reading = "processes" /\ reading' = "services" /\ world' = world
        /\ \/ found' = [found EXCEPT !.services = DiscoverServices]
           \/ found' = found
    BY <1>3 DEF ReadServices
  <2>2. /\ found' = [procs |-> found.procs, services |-> found'.services, endpoints |-> {}, ifaces |-> {}]
        /\ found'.services \in {{}, DiscoverServices}
        /\ found.endpoints = {} /\ found.ifaces = {} /\ found.services = {}
    BY <2>1 DEF SightInv, SightType
  <2>3. /\ IsFiniteSet(found'.services)
        /\ \A s \in found'.services :
             /\ s.name \in Nat
             /\ s.main = 0 \/ (s.main \in Live /\ s.mainStart = world.start[s.main])
    BY <2>2, ServicesAre, FS_EmptySet
  <2>4. /\ found'.procs = found.procs /\ found'.endpoints = {} /\ found'.ifaces = {}
        /\ found' = [procs |-> found'.procs, services |-> found'.services, endpoints |-> found'.endpoints, ifaces |-> found'.ifaces]
    BY <2>2
  <2>5. SightType'
    BY <2>1, <2>3, <2>4, FS_EmptySet DEF SightInv, SightType, GoodFact
  <2>6. SightLasts'
    BY <1>1, <2>1, <2>4 DEF SightInv, SightLasts, StillThere, ParentStill, WillAgree
  <2>7. ASSUME NEW f \in found.procs, NEW s \in found'.services, s.main = f.pid
        PROVE  f.pid \in world.reused \/ s.mainStart = f.start
    <3>1. StillThere(f) /\ f.pid # 0 /\ f.pid \in Pid
      BY <2>1, TopologyFacts DEF SightInv, SightType, SightLasts, GoodFact
    <3>2. s.main \in Live /\ s.mainStart = world.start[s.main]
      BY <2>3, <2>7, <3>1
    <3> QED
      BY <2>7, <3>1, <3>2 DEF StillThere, Live
  <2>8. SightAgrees'
    BY <1>1, <2>1, <2>4, <2>7 DEF SightInv, SightAgrees, Agrees
  <2> QED
    BY <2>5, <2>6, <2>8 DEF SightInv
<1>4. CASE ReadEndpoints
  <2>1. /\ reading = "services" /\ reading' = "build" /\ world' = world
        /\ found' = [found EXCEPT !.ifaces = DiscoverInterfaces, !.endpoints = DiscoverEndpoints]
    BY <1>4 DEF ReadEndpoints
  <2>2. found' = [procs |-> found.procs, services |-> found.services, endpoints |-> DiscoverEndpoints,
                  ifaces |-> DiscoverInterfaces]
    BY <2>1 DEF SightInv, SightType
  <2>3. \A x, y \in found'.endpoints :
           /\ x.at \in Nat /\ (x.at = y.at => x = y)
           /\ x.owner = 0 \/ (x.owner \in Live /\ x.ownerStart = world.start[x.owner])
    BY <2>2, EndpointsAre
  <2>4. IsFiniteSet(found'.ifaces)
    <3> DEFINE f == [i \in Iface |-> [n |-> i.n, virtual |-> i.virtual, up |-> i.up, addrs |-> world.carries[i]]]
    <3>1. found'.ifaces = {f[i] : i \in Iface}
      BY <2>2 DEF DiscoverInterfaces
    <3> HIDE DEF f
    <3> QED
      BY <3>1, ImageIsFinite, TopologyFacts
  <2>5. /\ found'.procs = found.procs /\ found'.services = found.services
        /\ found' = [procs |-> found'.procs, services |-> found'.services, endpoints |-> found'.endpoints, ifaces |-> found'.ifaces]
    BY <2>2
  <2>6. SightType'
    BY <2>1, <2>3, <2>4, <2>5 DEF SightInv, SightType, GoodFact
  <2>7. SightLasts'
    BY <1>1, <2>1, <2>5 DEF SightInv, SightLasts, StillThere, ParentStill, WillAgree
  <2>8. ASSUME NEW f \in found.procs, NEW x \in found'.endpoints, x.owner = f.pid
        PROVE  f.pid \in world.reused \/ x.ownerStart = f.start
    <3>1. StillThere(f) /\ f.pid # 0 /\ f.pid \in Pid
      BY <2>1, TopologyFacts DEF SightInv, SightType, SightLasts, GoodFact
    <3>2. x.owner \in Live /\ x.ownerStart = world.start[x.owner]
      BY <2>3, <2>8, <3>1
    <3> QED
      BY <2>8, <3>1, <3>2 DEF StillThere, Live
  <2>9. SightAgrees'
    BY <1>1, <2>1, <2>5, <2>8 DEF SightInv, SightAgrees, Agrees
  <2> QED
    BY <2>6, <2>7, <2>9 DEF SightInv
<1>5. CASE Build
  <2>1. reading' = "rest" /\ world' = world /\ found' = found /\ reading = "build"
    BY <1>5 DEF Build
  <2> QED
    BY <1>1, <2>1 DEF SightInv, SightType, SightAgrees, SightLasts, GoodFact, Agrees
<1> QED
  BY <1>2, <1>3, <1>4, <1>5

LEMMA SightSteps == SceneInv /\ SightInv /\ [TopologyNext]_topologyVars => SightInv'
<1> SUFFICES ASSUME SceneInv, SightInv, [TopologyNext]_topologyVars PROVE SightInv'
  OBVIOUS
<1>1. CASE WorldMoves
  BY <1>1, SightOutlivesMoves
<1>2. CASE ReadProcess
  BY <1>2, SightReadsProcess
<1>3. CASE BeginCycle \/ ReadServices \/ ReadEndpoints \/ Build
  BY <1>3, SightReadsRest
<1>4. CASE UNCHANGED topologyVars
  BY <1>4 DEF topologyVars, SightInv, SightType, SightAgrees, SightLasts, GoodFact, Agrees, StillThere, ParentStill, WillAgree
<1> QED
  BY <1>1, <1>2, <1>3, <1>4 DEF TopologyNext

PK(f) == ProcessKey(f.pid, f.start)

LEMMA FactsIs ==
  ASSUME SightInv, NEW f \in found.procs
  PROVE  Facts(PK(f)) = f
<1>1. \A g \in found.procs : PK(g) = PK(f) => g = f
  BY DEF PK, ProcessKey, SightInv, SightType
<1>2. Facts(PK(f)) \in found.procs /\ PK(Facts(PK(f))) = PK(f)
  BY DEF Facts, PK
<1> QED
  BY <1>1, <1>2

LEMMA ProcessOfIs ==
  ASSUME SightInv, NEW keys, NEW p, ProcessOf(found, keys, p) # NoKey
  PROVE  \E f \in found.procs : f.pid = p /\ ProcessOf(found, keys, p) = PK(f) /\ PK(f) \in keys
BY DEF ProcessOf, AdmittedKeys, PK

\* Who manages a process, and which of the services that name it.
Managed(keys, f) == MainOf(found, keys, f.pid) # {}
UnitsNamedIn(f) == {s.name : s \in {t \in found.services : t.main = f.pid /\ t.name \notin conf.excluded}}

\* The edges of each type, each a function of its source and of the fact it comes from.
IsParent(e, keys) ==
  \E f \in found.procs :
    PK(f) \in keys /\ e = Edge("parent", PK(f), ProcessOf(found, keys, f.ppid), "ppid", 0)
IsService(e, keys) ==
  \E f \in found.procs :
    /\ PK(f) \in keys /\ e.to \in keys
    /\ Managed(keys, f) => UnitsNamedIn(f) # {}
    /\ e = Edge("service", PK(f), Key("service", IF Managed(keys, f) THEN Max(UnitsNamedIn(f)) ELSE f.ev.unit),
                IF Managed(keys, f) THEN "manager" ELSE "cgroup", 0)
IsContainer(e, keys) ==
  \E f \in found.procs :
    PK(f) \in keys /\ e.to \in keys /\ e = Edge("container", PK(f), Key("container", f.ev.container), "cgroup", 0)
IsPod(e, keys) ==
  \E c \in DiscoverContainers(found.procs) :
    /\ e = Edge("pod", Key("container", c.id), Key("pod", c.pod), "cgroup", 0)
    /\ e.from \in keys /\ e.to \in keys
IsOwner(e, keys) ==
  \E x \in found.endpoints :
    /\ e = Edge("owner", EndpointKey(x), ProcessOf(found, keys, x.owner),
                IF conf.os = "linux" THEN "inode" ELSE "table", x.at)
    /\ e.from \in keys
IsBound(e, keys) ==
  \E x \in found.endpoints :
    \E i \in BuildAddressOwners(found, keys, x.addr) :
      e = Edge("bound", EndpointKey(x), i, "address", x.at) /\ e.from \in keys

IsEdge(e, keys) ==
  /\ e.from # NoKey /\ e.to # NoKey
  /\ \/ IsParent(e, keys) \/ IsService(e, keys) \/ IsContainer(e, keys)
     \/ IsPod(e, keys) \/ IsOwner(e, keys) \/ IsBound(e, keys)

EdgeFields(type, from, to, evidence, at) ==
  LET e == Edge(type, from, to, evidence, at)
  IN e.type = type /\ e.from = from /\ e.to = to /\ e.evidence = evidence /\ e.at = at

LEMMA EdgeHas == \A type, from, to, evidence, at : EdgeFields(type, from, to, evidence, at)
BY DEF EdgeFields, Edge

LEMMA RelateMakesEdges ==
  ASSUME SightInv, NEW keys, NEW e \in Relate(found, DiscoverContainers(found.procs), keys)
  PROVE  /\ IsEdge(e, keys)
         /\ \A d \in Relate(found, DiscoverContainers(found.procs), keys) :
              d.from = e.from /\ d.type = e.type => e.at <= d.at
<1> DEFINE all == RelateParent(found, keys) \cup RelateService(found, keys) \cup RelateContainer(found, keys)
                  \cup RelateContainersToPods(DiscoverContainers(found.procs), keys) \cup RelateEndpoints(found, keys)
<1>1. /\ e \in all /\ e.from # NoKey /\ e.to # NoKey
      /\ \A d \in Relate(found, DiscoverContainers(found.procs), keys) :
              d.from = e.from /\ d.type = e.type => e.at <= d.at
  BY DEF Relate, Functional
<1>2. CASE e \in RelateParent(found, keys)
  <2>1. PICK f \in found.procs :
          e = Edge("parent", ProcessOf(found, keys, f.pid), ProcessOf(found, keys, f.ppid), "ppid", 0)
    BY <1>2 DEF RelateParent
  <2>2. e.from = ProcessOf(found, keys, f.pid)
    BY <2>1, EdgeHas DEF EdgeFields
  <2>3. PICK g \in found.procs : g.pid = f.pid /\ ProcessOf(found, keys, f.pid) = PK(g) /\ PK(g) \in keys
    BY <1>1, <2>2, ProcessOfIs
  <2>4. g = f
    BY <2>3 DEF SightInv, SightType
  <2> QED
    BY <1>1, <2>1, <2>3, <2>4 DEF IsEdge, IsParent
<1>3. CASE e \in RelateService(found, keys)
  <2>1. PICK f \in found.procs : \E k \in IF MainOf(found, keys, f.pid) # {} THEN MainOf(found, keys, f.pid)
                                          ELSE AdmittedKeys({Key("service", f.ev.unit)}, keys) :
          e = Edge("service", ProcessOf(found, keys, f.pid), k,
                   IF MainOf(found, keys, f.pid) # {} THEN "manager" ELSE "cgroup", 0)
    BY <1>3 DEF RelateService
  <2>2. e.from = ProcessOf(found, keys, f.pid)
    BY <2>1, EdgeHas DEF EdgeFields
  <2>3. PICK g \in found.procs : g.pid = f.pid /\ ProcessOf(found, keys, f.pid) = PK(g) /\ PK(g) \in keys
    BY <1>1, <2>2, ProcessOfIs
  <2>4. g = f
    BY <2>3 DEF SightInv, SightType
  <2>5. PICK k : /\ k \in IF MainOf(found, keys, f.pid) # {} THEN MainOf(found, keys, f.pid)
                          ELSE AdmittedKeys({Key("service", f.ev.unit)}, keys)
                 /\ e = Edge("service", PK(f), k, IF Managed(keys, f) THEN "manager" ELSE "cgroup", 0)
    BY <2>1, <2>3, <2>4 DEF Managed
  <2>6. /\ k \in keys /\ (Managed(keys, f) => UnitsNamedIn(f) # {})
        /\ k = Key("service", IF Managed(keys, f) THEN Max(UnitsNamedIn(f)) ELSE f.ev.unit)
    <3>1. CASE Managed(keys, f)
      <4>1. k \in MainOf(found, keys, f.pid)
        BY <2>5, <3>1 DEF Managed
      <4> QED
        BY <3>1, <4>1 DEF MainOf, UnitsNamedIn, AdmittedKeys
    <3>2. CASE ~Managed(keys, f)
      BY <2>5, <3>2 DEF Managed, AdmittedKeys
    <3> QED
      BY <3>1, <3>2
  <2>7. e.to = k
    BY <2>5, EdgeHas DEF EdgeFields
  <2>8. IsService(e, keys)
    BY <2>3, <2>4, <2>5, <2>6, <2>7 DEF IsService
  <2> QED
    BY <1>1, <2>8 DEF IsEdge
<1>4. CASE e \in RelateContainer(found, keys)
  <2>1. PICK f \in found.procs : \E k \in AdmittedKeys({Key("container", f.ev.container)}, keys) :
          e = Edge("container", ProcessOf(found, keys, f.pid), k, "cgroup", 0)
    BY <1>4 DEF RelateContainer
  <2>2. /\ e = Edge("container", ProcessOf(found, keys, f.pid), Key("container", f.ev.container), "cgroup", 0)
        /\ Key("container", f.ev.container) \in keys
    BY <2>1 DEF AdmittedKeys
  <2>3. e.from = ProcessOf(found, keys, f.pid) /\ e.to \in keys
    BY <2>2, EdgeHas DEF EdgeFields
  <2>4. PICK g \in found.procs : g.pid = f.pid /\ ProcessOf(found, keys, f.pid) = PK(g) /\ PK(g) \in keys
    BY <1>1, <2>3, ProcessOfIs
  <2>5. g = f
    BY <2>4 DEF SightInv, SightType
  <2> QED
    BY <1>1, <2>2, <2>3, <2>4, <2>5 DEF IsEdge, IsContainer
<1>5. CASE e \in RelateContainersToPods(DiscoverContainers(found.procs), keys)
  <2>1. PICK c \in DiscoverContainers(found.procs) :
          /\ Key("container", c.id) \in keys /\ Key("pod", c.pod) \in keys
          /\ e = Edge("pod", Key("container", c.id), Key("pod", c.pod), "cgroup", 0)
    BY <1>5 DEF RelateContainersToPods, AdmittedKeys
  <2>2. e.from \in keys /\ e.to \in keys
    BY <2>1, EdgeHas DEF EdgeFields
  <2> QED
    BY <1>1, <2>1, <2>2 DEF IsEdge, IsPod
<1>6. CASE e \in RelateEndpoints(found, keys)
  <2>1. PICK x \in found.endpoints :
          /\ EndpointKey(x) \in keys
          /\ \/ e = Edge("owner", EndpointKey(x), ProcessOf(found, keys, x.owner),
                         IF conf.os = "linux" THEN "inode" ELSE "table", x.at)
             \/ \E i \in BuildAddressOwners(found, keys, x.addr) : e = Edge("bound", EndpointKey(x), i, "address", x.at)
    BY <1>6 DEF RelateEndpoints, AdmittedKeys
  <2>2. e.from \in keys
    BY <2>1, EdgeHas DEF EdgeFields
  <2> QED
    BY <1>1, <2>1, <2>2 DEF IsEdge, IsOwner, IsBound
<1> QED
  BY <1>1, <1>2, <1>3, <1>4, <1>5, <1>6

\* A container is one identifier, and its pod one that a process in it proves.
LEMMA ContainersAre ==
  ASSUME SightInv, NEW c \in DiscoverContainers(found.procs)
  PROVE  /\ c.pod = 0 \/ \E f \in found.procs : f.ev.container = c.id /\ f.ev.pod = c.pod
         /\ \A b \in DiscoverContainers(found.procs) : b.id = c.id => b = c
<1> DEFINE in(id) == {f \in found.procs : f.ev.container = id}
           podded(id) == {f \in in(id) : f.ev.pod # 0}
           pod(id) == IF podded(id) = {} THEN 0
                      ELSE (CHOOSE f \in podded(id) : \A g \in podded(id) : f.pid <= g.pid).ev.pod
<1>1. DiscoverContainers(found.procs) = {[id |-> id, pod |-> pod(id)] : id \in {f.ev.container : f \in found.procs} \ {0}}
  BY DEF DiscoverContainers
<1>2. \A b \in DiscoverContainers(found.procs) : b = [id |-> b.id, pod |-> pod(b.id)]
  <2> HIDE DEF pod
  <2> QED
    BY <1>1
<1>3. c.pod = pod(c.id)
  <2> HIDE DEF pod
  <2> QED
    BY <1>2
<1>a. \A b \in DiscoverContainers(found.procs) : b.id = c.id => b = c
  <2> HIDE DEF pod
  <2> QED
    BY <1>2
<1>4. CASE podded(c.id) = {}
  BY <1>3, <1>4, <1>a
<1>5. CASE podded(c.id) # {}
  <2> DEFINE pids == {f.pid : f \in podded(c.id)}
  <2>1. pids \subseteq Nat /\ pids # {}
    BY <1>5, TopologyFacts DEF SightInv, SightType, GoodFact
  <2>2. PICK n \in pids : \A m \in pids : n <= m
    BY <2>1, SmallestIn
  <2>3. \E f \in podded(c.id) : \A g \in podded(c.id) : f.pid <= g.pid
    BY <2>2
  <2> DEFINE h == CHOOSE f \in podded(c.id) : \A g \in podded(c.id) : f.pid <= g.pid
  <2>4. h \in podded(c.id)
    BY <2>3
  <2>5. c.pod = h.ev.pod
    BY <1>3, <1>5
  <2> HIDE DEF h
  <2> QED
    BY <1>a, <2>4, <2>5
<1> QED
  BY <1>4, <1>5

\* The key an address has when one interface alone carries it.
LEMMA BoundIs ==
  ASSUME SightInv, NEW keys, NEW a, NEW k \in BuildAddressOwners(found, keys, a)
  PROVE  /\ Carriers(found, keys, a) = {k} /\ k \in keys
         /\ \A i \in found.ifaces : a \in i.addrs /\ Key("interface", i.n) \in keys => k = Key("interface", i.n)
<1> DEFINE J == {j \in found.ifaces : a \in j.addrs}
           f == [i \in J |-> Key("interface", i.n)]
           K == Carriers(found, keys, a)
<1>1. Cardinality(K) = 1 /\ k \in K
  BY DEF BuildAddressOwners
<1>2. IsFiniteSet(J)
  BY FS_Subset DEF SightInv, SightType
<1>3. IsFiniteSet({f[i] : i \in J}) /\ K = {f[i] : i \in J} \cap keys
  <2>1. K = {f[i] : i \in J} \cap keys
    BY DEF Carriers, AdmittedKeys
  <2> HIDE DEF J, f, K
  <2> QED
    BY <1>2, <2>1, ImageIsFinite
<1>4. IsFiniteSet(K)
  BY <1>3, FS_Subset
<1>5. PICK y : K = {y}
  <2> HIDE DEF K
  <2> QED
    BY <1>1, <1>4, FS_Singleton
<1>6. K = {k}
  BY <1>1, <1>5
<1>7. \A i \in J : Key("interface", i.n) \in keys => Key("interface", i.n) \in K
  BY <1>3
<1> QED
  BY <1>3, <1>6, <1>7

\* What an edge of each type stands for.
LEMMA EdgeIsTrue ==
  ASSUME SceneInv, SightInv, NEW keys, \A k \in keys : k[1] = "pod" => k[2] # 0,
         NEW e, IsEdge(e, keys)
  PROVE  /\ e.from \in keys /\ e.to \in keys
         /\ e.type # "bound" => Recycled(e) \/ Proved(e)
         /\ e.type = "bound" =>
              \A i \in found.ifaces : e.from[2] \in i.addrs /\ Key("interface", i.n) \in keys
                                        => e.to = Key("interface", i.n)
<1>0. /\ \A f, g \in found.procs : GoodFact(f) /\ (f.pid = g.pid => f = g)
      /\ e.from # NoKey /\ e.to # NoKey
      /\ Pid \subseteq Nat \ {0}
  BY TopologyFacts DEF SightInv, SightType, IsEdge
<1>1. CASE IsParent(e, keys)
  <2>1. PICK f \in found.procs :
          PK(f) \in keys /\ e = Edge("parent", PK(f), ProcessOf(found, keys, f.ppid), "ppid", 0)
    BY <1>1 DEF IsParent
  <2>2. e.type = "parent" /\ e.from = PK(f) /\ e.to = ProcessOf(found, keys, f.ppid)
    BY <2>1, EdgeHas DEF EdgeFields
  <2>3. PICK g \in found.procs : g.pid = f.ppid /\ e.to = PK(g) /\ PK(g) \in keys
    BY <1>0, <2>2, ProcessOfIs
  <2>4. g.pid = f.parent.pid
    BY <1>0, <2>3 DEF GoodFact
  <2>5. g.pid \in world.reused \/ Agrees(f, g)
    BY <2>4 DEF SightInv, SightAgrees
  <2>6. CASE g.pid \in world.reused
    <3>1. e.to[1] = "process" /\ e.to[2] = g.pid
      BY <2>3 DEF PK, ProcessKey
    <3>2. Recycled(e)
      BY <2>6, <3>1 DEF Recycled
    <3> QED
      BY <2>1, <2>2, <2>3, <3>2
  <2>7. CASE g.start = f.parent.start
    <3>1. Facts(e.from) = f
      BY <2>2, FactsIs
    <3>2. e.to = ProcessKey(f.parent.pid, f.parent.start)
      BY <2>3, <2>4, <2>7 DEF PK
    <3>3. Proved(e)
      BY <2>2, <3>1, <3>2 DEF Proved
    <3> QED
      BY <2>1, <2>2, <2>3, <3>3
  <2>8. CASE conf.os = "windows" /\ g.start > f.start
    <3>1. e.to[3] = g.start /\ e.from[3] = f.start
      BY <2>2, <2>3 DEF PK, ProcessKey
    <3>2. Recycled(e)
      BY <2>2, <2>8, <3>1 DEF Recycled
    <3> QED
      BY <2>1, <2>2, <2>3, <3>2
  <2> QED
    BY <2>1, <2>2, <2>3, <2>5, <2>6, <2>7, <2>8 DEF Agrees
<1>2. CASE IsService(e, keys)
  <2>1. PICK f \in found.procs :
          /\ PK(f) \in keys /\ e.to \in keys
          /\ Managed(keys, f) => UnitsNamedIn(f) # {}
          /\ e = Edge("service", PK(f), Key("service", IF Managed(keys, f) THEN Max(UnitsNamedIn(f)) ELSE f.ev.unit),
                      IF Managed(keys, f) THEN "manager" ELSE "cgroup", 0)
    BY <1>2 DEF IsService
  <2>2. /\ e.type = "service" /\ e.from = PK(f)
        /\ e.to = Key("service", IF Managed(keys, f) THEN Max(UnitsNamedIn(f)) ELSE f.ev.unit)
        /\ e.evidence = IF Managed(keys, f) THEN "manager" ELSE "cgroup"
    BY <2>1, EdgeHas DEF EdgeFields
  <2>3. CASE Managed(keys, f)
    <3> DEFINE S == {t \in found.services : t.main = f.pid /\ t.name \notin conf.excluded}
               name == [t \in S |-> t.name]
    <3>1. IsFiniteSet(S) /\ \A t \in S : t.name \in Nat
      BY FS_Subset DEF SightInv, SightType
    <3>2. UnitsNamedIn(f) = {name[t] : t \in S}
      BY DEF UnitsNamedIn
    <3>3. IsFiniteSet(UnitsNamedIn(f)) /\ UnitsNamedIn(f) \subseteq Nat
      <4>1. {name[t] : t \in S} \subseteq Nat
        BY <3>1
      <4> HIDE DEF S, name
      <4> QED
        BY <3>1, <3>2, <4>1, ImageIsFinite
    <3>4. Max(UnitsNamedIn(f)) \in UnitsNamedIn(f)
      BY <2>1, <2>3, <3>3, MostOf
    <3>5. PICK s \in found.services : s.main = f.pid /\ s.name = Max(UnitsNamedIn(f))
      BY <3>4 DEF UnitsNamedIn
    <3>6. f.pid \in world.reused \/ s.mainStart = f.start
      BY <3>5 DEF SightInv, SightAgrees
    <3>7. CASE f.pid \in world.reused
      <4>1. e.from[1] = "process" /\ e.from[2] = f.pid
        BY <2>2 DEF PK, ProcessKey
      <4>2. Recycled(e)
        BY <3>7, <4>1 DEF Recycled
      <4> QED
        BY <2>1, <2>2, <4>2
    <3>8. CASE s.mainStart = f.start
      <4>1. e.to = Key("service", s.name) /\ e.from = ProcessKey(s.main, s.mainStart) /\ e.evidence = "manager"
        BY <2>2, <2>3, <3>5, <3>8 DEF PK
      <4>2. Proved(e)
        BY <2>2, <4>1 DEF Proved
      <4> QED
        BY <2>1, <2>2, <4>2
    <3> QED
      BY <3>6, <3>7, <3>8
  <2>4. CASE ~Managed(keys, f)
    <3>1. Facts(e.from) = f
      BY <2>2, FactsIs
    <3>2. e.to[2] = f.ev.unit /\ e.evidence = "cgroup"
      BY <2>2, <2>4 DEF Key
    <3>3. Proved(e)
      BY <2>2, <3>1, <3>2 DEF Proved
    <3> QED
      BY <2>1, <2>2, <3>3
  <2> QED
    BY <2>3, <2>4
<1>3. CASE IsContainer(e, keys)
  <2>1. PICK f \in found.procs :
          PK(f) \in keys /\ e.to \in keys /\ e = Edge("container", PK(f), Key("container", f.ev.container), "cgroup", 0)
    BY <1>3 DEF IsContainer
  <2>2. e.type = "container" /\ e.from = PK(f) /\ e.to = Key("container", f.ev.container)
    BY <2>1, EdgeHas DEF EdgeFields
  <2>3. Facts(e.from) = f /\ e.to[2] = f.ev.container
    BY <2>2, FactsIs DEF Key
  <2>4. Proved(e)
    BY <2>2, <2>3 DEF Proved
  <2> QED
    BY <2>1, <2>2, <2>4
<1>4. CASE IsPod(e, keys)
  <2>1. PICK c \in DiscoverContainers(found.procs) :
          /\ e = Edge("pod", Key("container", c.id), Key("pod", c.pod), "cgroup", 0)
          /\ e.from \in keys /\ e.to \in keys
    BY <1>4 DEF IsPod
  <2>2. e.type = "pod" /\ e.from = Key("container", c.id) /\ e.to = Key("pod", c.pod)
    BY <2>1, EdgeHas DEF EdgeFields
  <2>3. e.from[2] = c.id /\ e.to[2] = c.pod /\ e.to[1] = "pod"
    BY <2>2 DEF Key
  <2>4. \E f \in found.procs : f.ev.container = c.id /\ f.ev.pod = c.pod
    BY <2>1, <2>3, ContainersAre
  <2>5. Proved(e)
    BY <2>2, <2>3, <2>4 DEF Proved
  <2> QED
    BY <2>1, <2>2, <2>5
<1>5. CASE IsOwner(e, keys)
  <2>1. PICK x \in found.endpoints :
          /\ e = Edge("owner", EndpointKey(x), ProcessOf(found, keys, x.owner),
                      IF conf.os = "linux" THEN "inode" ELSE "table", x.at)
          /\ e.from \in keys
    BY <1>5 DEF IsOwner
  <2>2. e.type = "owner" /\ e.from = EndpointKey(x) /\ e.to = ProcessOf(found, keys, x.owner)
    BY <2>1, EdgeHas DEF EdgeFields
  <2>3. PICK g \in found.procs : g.pid = x.owner /\ e.to = PK(g) /\ PK(g) \in keys
    BY <1>0, <2>2, ProcessOfIs
  <2>4. g.pid \in world.reused \/ x.ownerStart = g.start
    BY <2>3 DEF SightInv, SightAgrees
  <2>5. CASE g.pid \in world.reused
    <3>1. e.to[1] = "process" /\ e.to[2] = g.pid
      BY <2>3 DEF PK, ProcessKey
    <3>2. Recycled(e)
      BY <2>5, <3>1 DEF Recycled
    <3> QED
      BY <2>1, <2>2, <2>3, <3>2
  <2>6. CASE x.ownerStart = g.start
    <3>1. e.to = ProcessKey(x.owner, x.ownerStart)
      BY <2>3, <2>6 DEF PK
    <3>2. Proved(e)
      BY <2>2, <3>1 DEF Proved
    <3> QED
      BY <2>1, <2>2, <2>3, <3>2
  <2> QED
    BY <2>4, <2>5, <2>6
<1>6. CASE IsBound(e, keys)
  <2>1. PICK x \in found.endpoints : \E i \in BuildAddressOwners(found, keys, x.addr) :
          e = Edge("bound", EndpointKey(x), i, "address", x.at) /\ e.from \in keys
    BY <1>6 DEF IsBound
  <2>2. PICK i \in BuildAddressOwners(found, keys, x.addr) :
          e = Edge("bound", EndpointKey(x), i, "address", x.at) /\ e.from \in keys
    BY <2>1
  <2>3. e.type = "bound" /\ e.from = EndpointKey(x) /\ e.to = i
    BY <2>2, EdgeHas DEF EdgeFields
  <2>4. /\ i \in keys
        /\ \A j \in found.ifaces : x.addr \in j.addrs /\ Key("interface", j.n) \in keys => i = Key("interface", j.n)
    BY BoundIs
  <2>5. e.from[2] = x.addr
    BY <2>3 DEF EndpointKey
  <2> QED
    BY <2>2, <2>3, <2>4, <2>5
<1> QED
  BY <1>1, <1>2, <1>3, <1>4, <1>5, <1>6 DEF IsEdge

\* The first target of a source and type is one.
LEMMA EdgeIsAlone ==
  ASSUME SightInv, NEW keys, NEW d, NEW e, IsEdge(d, keys), IsEdge(e, keys),
         d.from = e.from, d.type = e.type, d.at = e.at
  PROVE  d = e
<1>0. /\ \A f, g \in found.procs : PK(f) = PK(g) => f = g
      /\ \A x, y \in found.endpoints : x.at = y.at => x = y
      /\ \A c, b \in DiscoverContainers(found.procs) : Key("container", c.id) = Key("container", b.id) => c = b
  BY ContainersAre DEF SightInv, SightType, PK, ProcessKey, Key
<1>1. \A b : /\ IsParent(b, keys) => b.type = "parent"
             /\ IsService(b, keys) => b.type = "service"
             /\ IsContainer(b, keys) => b.type = "container"
             /\ IsPod(b, keys) => b.type = "pod"
             /\ IsOwner(b, keys) => b.type = "owner"
             /\ IsBound(b, keys) => b.type = "bound"
  BY EdgeHas DEF EdgeFields, IsParent, IsService, IsContainer, IsPod, IsOwner, IsBound
<1>2. CASE IsParent(e, keys)
  <2>1. IsParent(d, keys)
    BY <1>1, <1>2 DEF IsEdge
  <2>2. PICK f \in found.procs : e = Edge("parent", PK(f), ProcessOf(found, keys, f.ppid), "ppid", 0)
    BY <1>2 DEF IsParent
  <2>3. PICK g \in found.procs : d = Edge("parent", PK(g), ProcessOf(found, keys, g.ppid), "ppid", 0)
    BY <2>1 DEF IsParent
  <2>4. e.from = PK(f) /\ d.from = PK(g)
    BY <2>2, <2>3, EdgeHas DEF EdgeFields
  <2> QED
    BY <1>0, <2>2, <2>3, <2>4
<1>3. CASE IsService(e, keys)
  <2>1. IsService(d, keys)
    BY <1>1, <1>3 DEF IsEdge
  <2> DEFINE ed(f) == Edge("service", PK(f), Key("service", IF Managed(keys, f) THEN Max(UnitsNamedIn(f)) ELSE f.ev.unit),
                           IF Managed(keys, f) THEN "manager" ELSE "cgroup", 0)
  <2>a. \A f : ed(f).from = PK(f)
    BY EdgeHas DEF EdgeFields
  <2>2. PICK f \in found.procs : e = ed(f)
    BY <1>3 DEF IsService
  <2>3. PICK g \in found.procs : d = ed(g)
    BY <2>1 DEF IsService
  <2> HIDE DEF ed
  <2> QED
    BY <1>0, <2>a, <2>2, <2>3
<1>4. CASE IsContainer(e, keys)
  <2>1. IsContainer(d, keys)
    BY <1>1, <1>4 DEF IsEdge
  <2>2. PICK f \in found.procs : e = Edge("container", PK(f), Key("container", f.ev.container), "cgroup", 0)
    BY <1>4 DEF IsContainer
  <2>3. PICK g \in found.procs : d = Edge("container", PK(g), Key("container", g.ev.container), "cgroup", 0)
    BY <2>1 DEF IsContainer
  <2>4. e.from = PK(f) /\ d.from = PK(g)
    BY <2>2, <2>3, EdgeHas DEF EdgeFields
  <2> QED
    BY <1>0, <2>2, <2>3, <2>4
<1>5. CASE IsPod(e, keys)
  <2>1. IsPod(d, keys)
    BY <1>1, <1>5 DEF IsEdge
  <2>2. PICK c \in DiscoverContainers(found.procs) : e = Edge("pod", Key("container", c.id), Key("pod", c.pod), "cgroup", 0)
    BY <1>5 DEF IsPod
  <2>3. PICK b \in DiscoverContainers(found.procs) : d = Edge("pod", Key("container", b.id), Key("pod", b.pod), "cgroup", 0)
    BY <2>1 DEF IsPod
  <2>4. e.from = Key("container", c.id) /\ d.from = Key("container", b.id)
    BY <2>2, <2>3, EdgeHas DEF EdgeFields
  <2> QED
    BY <1>0, <2>2, <2>3, <2>4
<1>6. CASE IsOwner(e, keys)
  <2>1. IsOwner(d, keys)
    BY <1>1, <1>6 DEF IsEdge
  <2> DEFINE ed(x) == Edge("owner", EndpointKey(x), ProcessOf(found, keys, x.owner),
                           IF conf.os = "linux" THEN "inode" ELSE "table", x.at)
  <2>a. \A x : ed(x).at = x.at
    BY EdgeHas DEF EdgeFields
  <2>2. PICK x \in found.endpoints : e = ed(x)
    BY <1>6 DEF IsOwner
  <2>3. PICK y \in found.endpoints : d = ed(y)
    BY <2>1 DEF IsOwner
  <2> HIDE DEF ed
  <2> QED
    BY <1>0, <2>a, <2>2, <2>3
<1>7. CASE IsBound(e, keys)
  <2>1. IsBound(d, keys)
    BY <1>1, <1>7 DEF IsEdge
  <2>2. PICK x \in found.endpoints : \E i \in BuildAddressOwners(found, keys, x.addr) :
          e = Edge("bound", EndpointKey(x), i, "address", x.at)
    BY <1>7 DEF IsBound
  <2>3. PICK y \in found.endpoints : \E i \in BuildAddressOwners(found, keys, y.addr) :
          d = Edge("bound", EndpointKey(y), i, "address", y.at)
    BY <2>1 DEF IsBound
  <2>4. e.at = x.at /\ d.at = y.at
    BY <2>2, <2>3, EdgeHas DEF EdgeFields
  <2>5. x = y
    BY <1>0, <2>4
  <2>6. \A i, j \in BuildAddressOwners(found, keys, x.addr) : i = j
    BY BoundIs
  <2> QED
    BY <2>2, <2>3, <2>5, <2>6
<1> QED
  BY <1>2, <1>3, <1>4, <1>5, <1>6, <1>7 DEF IsEdge

\* What is in the table is what was built.
LEMMA BuiltKeys ==
  ASSUME NEW kept
  PROVE  DOMAIN ReconciledTable(kept) = {c.key : c \in kept}
BY DEF ReconciledTable

LEMMA PodsAreNamed ==
  ASSUME NEW containers, NEW answer,
         NEW c \in AddHost \cup AddRuntime \cup AddCloud \cup AddServices(found)
                     \cup AddContainers(containers, answer) \cup AddPods(PodsFrom(containers))
                     \cup AddInterfaces(found) \cup AddEndpoints(found) \cup AddFilesystems
                     \cup AddProcesses(found),
         c.key[1] = "pod"
  PROVE  c.key[2] # 0
<1>1. \A kind, key, rank, at, attrs : Candidate(kind, key, rank, at, attrs).key = key
  BY DEF Candidate
<1>2. CASE c \in AddHost \cup AddRuntime \cup AddCloud
  BY <1>1, <1>2 DEF AddHost, AddRuntime, AddCloud, Key
<1>3. CASE c \in AddServices(found) \cup AddContainers(containers, answer) \cup AddInterfaces(found) \cup AddFilesystems
  <2>1. CASE c \in AddServices(found)
    <3>1. \E s : c = Candidate("service", Key("service", s.name), ServiceRank(s.state), 0, <<s.state, s.main>>)
      BY <2>1 DEF AddServices
    <3>2. \E n : c.key = Key("service", n)
      BY <1>1, <3>1
    <3> QED
      BY <3>2 DEF Key
  <2>2. CASE c \in AddContainers(containers, answer)
    <3>1. \E b : c = Candidate("container", Key("container", b.id), 0, 0, <<b.pod, EnrichContainers(answer)>>)
      BY <2>2 DEF AddContainers
    <3>2. \E n : c.key = Key("container", n)
      BY <1>1, <3>1
    <3> QED
      BY <3>2 DEF Key
  <2>3. CASE c \in AddInterfaces(found)
    <3>1. \E i : c = Candidate("interface", Key("interface", i.n), InterfaceRank(i), 0, <<i.up, i.addrs>>)
      BY <2>3 DEF AddInterfaces
    <3>2. \E n : c.key = Key("interface", n)
      BY <1>1, <3>1
    <3> QED
      BY <3>2 DEF Key
  <2>4. CASE c \in AddFilesystems
    <3>1. \E n : c.key = Key("filesystem", n)
      BY <1>1, <2>4 DEF AddFilesystems
    <3> QED
      BY <3>1 DEF Key
  <2> QED
    BY <1>3, <2>1, <2>2, <2>3, <2>4
<1>4. CASE c \in AddEndpoints(found)
  <2>1. \E x : c.key = EndpointKey(x)
    BY <1>1, <1>4 DEF AddEndpoints
  <2>2. c.key[1] = "endpoint"
    BY <2>1 DEF EndpointKey
  <2> QED
    BY <2>2
<1>5. CASE c \in AddProcesses(found)
  <2>1. \E p, start : c.key = ProcessKey(p, start)
    <3>1. \E q \in found.procs : c = Candidate("process", ProcessKey(q.pid, q.start), q.pid, 0, q.ppid)
      BY <1>5 DEF AddProcesses
    <3> QED
      BY <1>1, <3>1
  <2>2. c.key[1] = "process"
    BY <2>1 DEF ProcessKey
  <2> QED
    BY <2>2
<1>6. CASE c \in AddPods(PodsFrom(containers))
  <2>1. PICK p \in PodsFrom(containers) : c.key = Key("pod", p.uid)
    BY <1>1, <1>6 DEF AddPods
  <2>2. p.uid # 0
    BY DEF PodsFrom
  <2> QED
    BY <2>1, <2>2 DEF Key
<1> QED
  BY <1>2, <1>3, <1>4, <1>5, <1>6

LEMMA EdgesAreMade ==
  ASSUME SceneInv, SightInv, Build
  PROVE  EdgesAreProved'
<1>1. reading' = "rest" /\ world' = world /\ found' = found /\ conf' = conf
  BY DEF Build
<1> DEFINE containers == DiscoverContainers(found.procs)
           built(answer) == AddHost \cup AddRuntime \cup AddCloud \cup AddServices(found)
                     \cup AddContainers(containers, answer) \cup AddPods(PodsFrom(containers))
                     \cup AddInterfaces(found) \cup AddEndpoints(found) \cup AddFilesystems
                     \cup AddProcesses(found)
<1>2. PICK answer : /\ table' = ReconciledTable(AdmittedEntities(built(answer)))
                    /\ edges' = Relate(found, containers, DOMAIN table')
  BY DEF Build
<1> DEFINE keys == DOMAIN table'
<1>3. \A k \in keys : k[1] = "pod" => k[2] # 0
  <2>1. AdmittedEntities(built(answer)) \subseteq built(answer)
    BY DEF AdmittedEntities
  <2>2. keys = {c.key : c \in AdmittedEntities(built(answer))}
    BY <1>2, BuiltKeys
  <2> QED
    BY <2>1, <2>2, PodsAreNamed
<1> HIDE DEF built
<1>4. ASSUME NEW e \in edges'
      PROVE  /\ IsEdge(e, keys)
             /\ \A d \in edges' : d.from = e.from /\ d.type = e.type => e.at <= d.at
  BY <1>2, RelateMakesEdges
<1>5. ASSUME NEW e \in edges'
      PROVE  ({e.from, e.to} \subseteq DOMAIN table)' /\ (Recycled(e) \/ Proved(e))'
  <2> HIDE DEF keys
  <2>1. /\ e.from \in keys /\ e.to \in keys
        /\ e.type # "bound" => Recycled(e) \/ Proved(e)
        /\ e.type = "bound" =>
              \A i \in found.ifaces : e.from[2] \in i.addrs /\ Key("interface", i.n) \in keys
                                        => e.to = Key("interface", i.n)
    BY <1>3, <1>4, EdgeIsTrue
  <2>2. Recycled(e)' = Recycled(e)
    BY <1>1 DEF Recycled
  <2>3. CASE e.type = "bound"
    BY <1>1, <2>1, <2>3 DEF Proved, keys
  <2>4. CASE e.type # "bound"
    <3>1. Proved(e) => Proved(e)'
      <4>1. \A k : Facts(k)' = Facts(k)
        BY <1>1 DEF Facts
      <4>2. IsEdge(e, keys)
        BY <1>4
      <4>3. e.type \in {"parent", "service", "container", "pod", "owner"}
        BY <2>4, <4>2, EdgeHas DEF IsEdge, EdgeFields, IsParent, IsService, IsContainer, IsPod, IsOwner, IsBound
      <4> QED
        BY <1>1, <4>1, <4>3 DEF Proved
    <3> QED
      BY <2>1, <2>2, <2>4, <3>1 DEF keys
  <2> QED
    BY <2>3, <2>4
<1>6. ASSUME NEW d \in edges', NEW e \in edges', d.from = e.from, d.type = e.type PROVE d = e
  <2>1. e.at <= d.at /\ d.at <= e.at /\ IsEdge(d, keys) /\ IsEdge(e, keys)
    BY <1>4, <1>6
  <2>2. \A b \in edges' : b.at \in Nat
    <3> SUFFICES ASSUME NEW b \in edges' PROVE b.at \in Nat
      OBVIOUS
    <3>1. IsEdge(b, keys)
      BY <1>4
    <3>2. b.at = 0 \/ \E x \in found.endpoints : b.at = x.at
      BY <3>1, EdgeHas DEF IsEdge, EdgeFields, IsParent, IsService, IsContainer, IsPod, IsOwner, IsBound
    <3> QED
      BY <3>2 DEF SightInv, SightType
  <2>3. d.at = e.at
    BY <2>1, <2>2
  <2> HIDE DEF keys
  <2> QED
    BY <1>6, <2>1, <2>3, EdgeIsAlone
<1> QED
  BY <1>5, <1>6 DEF EdgesAreProved

LEMMA EdgesStep == SceneInv /\ SightInv /\ EdgesAreProved /\ [TopologyNext]_topologyVars => EdgesAreProved'
<1> SUFFICES ASSUME SceneInv, SightInv, EdgesAreProved, [TopologyNext]_topologyVars PROVE EdgesAreProved'
  OBVIOUS
<1>1. CASE Build
  BY <1>1, EdgesAreMade
<1>2. CASE BeginCycle \/ ReadProcess \/ ReadServices \/ ReadEndpoints
  <2>1. reading' # "rest"
    BY <1>2 DEF BeginCycle, ReadProcess, ReadServices, ReadEndpoints
  <2> QED
    BY <2>1 DEF EdgesAreProved
<1>3. CASE WorldMoves \/ UNCHANGED topologyVars
  <2>1. conf' = conf /\ reading' = reading /\ found' = found /\ table' = table /\ edges' = edges
    BY <1>3 DEF WorldMoves, topologyVars
  <2>2. reading = "rest" => world'.reused = world.reused
    <3>1. ASSUME NEW p \in Pid, Exit(p) PROVE world'.reused = world.reused
      BY <3>1, ExitLeaves
    <3>2. ASSUME NEW p \in Pid, NEW q, NEW c \in conf.paths, NEW S \in Opened, Fork(p, q, c, S), reading = "rest"
          PROVE  world'.reused = world.reused
      BY <3>2, ForkLeaves
    <3>3. ASSUME NEW i \in Iface, NEW a \in Address, Readdress(i, a) PROVE world'.reused = world.reused
      BY <3>3, ReaddressLeaves
    <3> QED
      BY <1>3, <3>1, <3>2, <3>3 DEF WorldMoves, topologyVars
  <2>3. \A k : Facts(k)' = Facts(k)
    BY <2>1 DEF Facts
  <2> SUFFICES ASSUME reading = "rest" PROVE EdgesAreProved'
    BY <2>1 DEF EdgesAreProved
  <2>4. \A e : Recycled(e)' = Recycled(e)
    BY <2>1, <2>2 DEF Recycled
  <2>5. \A e : Proved(e)' = Proved(e)
    BY <2>1, <2>3 DEF Proved
  <2> QED
    BY <2>1, <2>4, <2>5 DEF EdgesAreProved
<1> QED
  BY <1>1, <1>2, <1>3 DEF TopologyNext

\* (Topology.EdgesAreProved.) On every platform, however processes come and go while the host
\* is being read, each relationship joins two entities of the table, is the only one of its type
\* from its source, and is what the host's own structures said of these very instances, unless
\* a pid changed hands meanwhile.
THEOREM EdgesHaveEvidence == TopologySpec => []EdgesAreProved
<1>1. TopologyInit => EdgesAreProved
  BY DEF TopologyInit, EdgesAreProved
<1>2. TopologyInit => SceneInv /\ SightInv
  BY SceneBegins, SightBegins
<1>3. SceneInv /\ SightInv /\ EdgesAreProved /\ [TopologyNext]_topologyVars => (SceneInv /\ SightInv /\ EdgesAreProved)'
  BY SceneSteps, SightSteps, EdgesStep
<1> QED
  BY <1>1, <1>2, <1>3, PTL DEF TopologySpec

LEMMA MoreTopologyFacts ==
  /\ Number \subseteq Nat
  /\ \A i, j \in Iface : i.n \in Nat /\ (i.n = j.n => i = j)
  /\ \A s \in Socket : s.addr \in Nat /\ s.port \in Nat
  /\ \A c \in TopologySettings :
       /\ IsFiniteSet(c.mounts) /\ \A m \in c.mounts : m.n \in Nat /\ m.point \in Nat
       /\ c.self \in Nat /\ c.perKind \in Nat /\ c.total \in Nat
<1>1. Number \subseteq Nat
  BY NumbersAreNat
<1> QED
  BY <1>1, TopologyAssumption DEF SettingsAreValid

Evidence == [unit : Nat, container : Nat, pod : Nat]

LEMMA EvidenceIsNumbers ==
  ASSUME NEW path \in Seq(PathComponent)
  PROVE  ParseCgroupPath(path) \in Evidence
<1>1. DOMAIN path = 1 .. Len(path) /\ Len(path) \in Nat /\ \A i \in DOMAIN path : path[i] \in PathComponent
  OBVIOUS
<1>2. ASSUME NEW I \in SUBSET (DOMAIN path), I # {} PROVE Max(I) \in DOMAIN path
  <2>1. IsFiniteSet(DOMAIN path) /\ DOMAIN path \subseteq Nat
    BY <1>1, FS_Interval
  <2>2. IsFiniteSet(I) /\ I \subseteq Nat
    BY <2>1, FS_Subset
  <2>3. Max(I) \in I
    BY <1>2, <2>2, MostOf
  <2> QED
    BY <2>3
<1>3. ASSUME NEW c \in PathComponent PROVE Unit(c) \in Nat /\ ContainerIDFrom(c) \in Nat /\ PodUIDFrom(c) \in Nat
  BY MoreTopologyFacts DEF Unit, ContainerIDFrom, PodUIDFrom, PathComponent
<1>4. LastNamed(path, Unit) \in Nat
  <2> DEFINE I == {i \in DOMAIN path : Unit(path[i]) # 0}
  <2>1. I \in SUBSET (DOMAIN path)
    OBVIOUS
  <2>2. LastNamed(path, Unit) = IF I = {} THEN 0 ELSE Unit(path[Max(I)])
    BY DEF LastNamed
  <2> HIDE DEF I
  <2> QED
    BY <1>1, <1>2, <1>3, <2>1, <2>2
<1>5. LastNamed(path, ContainerIDFrom) \in Nat
  <2> DEFINE I == {i \in DOMAIN path : ContainerIDFrom(path[i]) # 0}
  <2>1. I \in SUBSET (DOMAIN path)
    OBVIOUS
  <2>2. LastNamed(path, ContainerIDFrom) = IF I = {} THEN 0 ELSE ContainerIDFrom(path[Max(I)])
    BY DEF LastNamed
  <2> HIDE DEF I
  <2> QED
    BY <1>1, <1>2, <1>3, <2>1, <2>2
<1>6. LastNamed(path, PodUIDFrom) \in Nat
  <2> DEFINE I == {i \in DOMAIN path : PodUIDFrom(path[i]) # 0}
  <2>1. I \in SUBSET (DOMAIN path)
    OBVIOUS
  <2>2. LastNamed(path, PodUIDFrom) = IF I = {} THEN 0 ELSE PodUIDFrom(path[Max(I)])
    BY DEF LastNamed
  <2> HIDE DEF I
  <2> QED
    BY <1>1, <1>2, <1>3, <2>1, <2>2
<1> QED
  BY <1>4, <1>5, <1>6 DEF ParseCgroupPath, Evidence

LEMMA DiscoverFinds ==
  ASSUME SceneInv, NEW p \in Pid
  PROVE  IsFiniteSet(DiscoverProcess(p)) /\ \A f \in DiscoverProcess(p) : f.ev \in Evidence
<1>1. world.path \in [Pid -> Seq(PathComponent)] /\ <<>> \in Seq(PathComponent)
  BY DEF SceneInv, WorldType
<1>2. \A ppid, stamped : \A path \in Seq(PathComponent) : ProcessFacts(p, ppid, path, stamped).ev \in Evidence
  BY EvidenceIsNumbers DEF ProcessFacts
<1>3. DiscoverProcess(p) \in {{}, LinuxProcess(p), WindowsProcess(p), DarwinProcess(p)}
  BY DEF DiscoverProcess
<1>4. \A f : IsFiniteSet({f})
  BY FS_Singleton
<1>5. /\ \A f \in LinuxProcess(p) : f.ev \in Evidence
      /\ IsFiniteSet(LinuxProcess(p))
  BY <1>1, <1>2, <1>4, FS_EmptySet DEF LinuxProcess
<1>6. /\ \A f \in WindowsProcess(p) : f.ev \in Evidence
      /\ IsFiniteSet(WindowsProcess(p))
  BY <1>1, <1>2, <1>4 DEF WindowsProcess
<1>7. /\ \A f \in DarwinProcess(p) : f.ev \in Evidence
      /\ IsFiniteSet(DarwinProcess(p))
  BY <1>1, <1>2, <1>4 DEF DarwinProcess
<1> QED
  BY <1>3, <1>5, <1>6, <1>7, FS_EmptySet

LEMMA ServicesAreNamed ==
  ASSUME SceneInv
  PROVE  \A s, t \in DiscoverServices : s.name \in Number /\ (s.name = t.name => s = t)
<1> DEFINE us == {v \in Units : Members(v) # {}}
<1>1. us \subseteq Number
  <2>1. ASSUME NEW c \in conf.paths, NEW i \in DOMAIN c PROVE Unit(c[i]) \in Number
    <3>1. c \in Seq(PathComponent)
      BY TopologyFacts DEF SceneInv
    <3>2. c[i] \in PathComponent
      BY <3>1
    <3> QED
      BY <3>2, NumbersAreNat DEF Unit, PathComponent, Number
  <2> QED
    BY <2>1 DEF Units
<1>2. \A u, m : Service(u, m).name = u
  BY DEF Service
<1>3. \A s, t \in LinuxServices : s.name \in Number /\ (s.name = t.name => s = t)
  BY <1>1, <1>2 DEF LinuxServices
<1>4. \A s, t \in WindowsServices : s.name \in Number /\ (s.name = t.name => s = t)
  BY <1>1, <1>2 DEF WindowsServices
<1>5. DiscoverServices \in {LinuxServices, WindowsServices, {}}
  BY DEF DiscoverServices
<1> QED
  BY <1>3, <1>4, <1>5

LEMMA EndpointsAreFinite ==
  ASSUME SceneInv
  PROVE  IsFiniteSet(DiscoverEndpoints) /\ \A x \in DiscoverEndpoints : x.addr \in Nat /\ x.port \in Nat
<1>1. ParseProcNet \subseteq Socket /\ IsFiniteSet(ParseProcNet)
  BY TopologyFacts, FS_Subset DEF ParseProcNet
<1> DEFINE lin == [s \in ParseProcNet |-> Endpoint(s, IF conf.correlate THEN CorrelateOwners(s) ELSE 0)]
           win == [s \in ParseProcNet |-> Endpoint(s, IF conf.correlate THEN Min(world.holders[s]) ELSE 0)]
<1>2. LinuxEndpoints = {lin[s] : s \in ParseProcNet} /\ WindowsEndpoints = {win[s] : s \in ParseProcNet}
  BY DEF LinuxEndpoints, WindowsEndpoints
<1>3. \A s \in ParseProcNet : lin[s].addr = s.addr /\ lin[s].port = s.port /\ win[s].addr = s.addr /\ win[s].port = s.port
  BY DEF Endpoint
<1> HIDE DEF lin, win
<1>4. IsFiniteSet(LinuxEndpoints) /\ IsFiniteSet(WindowsEndpoints) /\ IsFiniteSet({})
  BY <1>1, <1>2, ImageIsFinite, FS_EmptySet
<1>5. DiscoverEndpoints \in {LinuxEndpoints, WindowsEndpoints, {}}
  BY DEF DiscoverEndpoints
<1>6. \A x \in LinuxEndpoints \cup WindowsEndpoints : x.addr \in Nat /\ x.port \in Nat
  BY <1>1, <1>2, <1>3, MoreTopologyFacts
<1> QED
  BY <1>4, <1>5, <1>6

\* What was found has a name of its own, and there is an end of it.
SightCounts ==
  /\ IsFiniteSet(found.procs) /\ \A f \in found.procs : f.ev \in Evidence
  /\ \A s, t \in found.services : s.name \in Number /\ (s.name = t.name => s = t)
  /\ IsFiniteSet(found.endpoints) /\ \A x \in found.endpoints : x.addr \in Nat /\ x.port \in Nat
  /\ \A i, j \in found.ifaces : i.n \in Nat /\ (i.n = j.n => i = j)

LEMMA CountsBegin == TopologyInit => SightCounts
BY FS_EmptySet DEF TopologyInit, SightCounts, NoFacts

LEMMA CountsStep == SceneInv /\ SightInv /\ SightCounts /\ [TopologyNext]_topologyVars => SightCounts'
<1> SUFFICES ASSUME SceneInv, SightInv, SightCounts, [TopologyNext]_topologyVars PROVE SightCounts'
  OBVIOUS
<1>0. found = [procs |-> found.procs, services |-> found.services, endpoints |-> found.endpoints, ifaces |-> found.ifaces]
  BY DEF SightInv, SightType
<1>1. CASE found' = found
  BY <1>1 DEF SightCounts
<1>2. CASE BeginCycle
  BY <1>2, FS_EmptySet DEF BeginCycle, SightCounts, NoFacts
<1>3. CASE ReadProcess
  <2> DEFINE p == Min(world.left)
  <2>1. found' = [found EXCEPT !.procs = @ \cup DiscoverProcess(p)] /\ world.left # {}
    BY <1>3 DEF ReadProcess
  <2>2. p \in Pid
    <3>1. world.left \subseteq Nat /\ world.left \subseteq Pid
      BY TopologyFacts DEF SceneInv, WorldType
    <3> QED
      BY <2>1, <3>1, LeastOf
  <2> HIDE DEF p
  <2>3. IsFiniteSet(found.procs \cup DiscoverProcess(p)) /\ \A f \in DiscoverProcess(p) : f.ev \in Evidence
    BY <2>2, DiscoverFinds, FS_Union DEF SightCounts
  <2>4. found' = [procs |-> found.procs \cup DiscoverProcess(p), services |-> found.services,
                  endpoints |-> found.endpoints, ifaces |-> found.ifaces]
    BY <1>0, <2>1
  <2> QED
    BY <2>3, <2>4 DEF SightCounts
<1>4. CASE ReadServices
  <2>1. CASE found' = [found EXCEPT !.services = DiscoverServices]
    <3>1. found' = [procs |-> found.procs, services |-> DiscoverServices, endpoints |-> found.endpoints, ifaces |-> found.ifaces]
      BY <1>0, <2>1
    <3> QED
      BY <3>1, ServicesAreNamed DEF SightCounts
  <2> QED
    BY <1>1, <1>4, <2>1 DEF ReadServices
<1>5. CASE ReadEndpoints
  <2>1. found' = [procs |-> found.procs, services |-> found.services, endpoints |-> DiscoverEndpoints, ifaces |-> DiscoverInterfaces]
    BY <1>0, <1>5 DEF ReadEndpoints
  <2>2. \A i, j \in DiscoverInterfaces : i.n \in Nat /\ (i.n = j.n => i = j)
    BY MoreTopologyFacts DEF DiscoverInterfaces
  <2> QED
    BY <2>1, <2>2, EndpointsAreFinite DEF SightCounts
<1>6. CASE WorldMoves \/ Build \/ UNCHANGED topologyVars
  BY <1>1, <1>6 DEF WorldMoves, Build, topologyVars
<1> QED
  BY <1>2, <1>3, <1>4, <1>5, <1>6 DEF TopologyNext

\* All that the builder makes of the facts.
Built(f, answer) ==
  LET containers == DiscoverContainers(f.procs)
  IN AddHost \cup AddRuntime \cup AddCloud \cup AddServices(f)
       \cup AddContainers(containers, answer) \cup AddPods(PodsFrom(containers))
       \cup AddInterfaces(f) \cup AddEndpoints(f) \cup AddFilesystems \cup AddProcesses(f)

CandidateFields(kind, key, rank, at, attrs) ==
  LET c == Candidate(kind, key, rank, at, attrs)
  IN /\ c.kind = kind /\ c.key = key /\ c.attrs = attrs
     /\ c.place = ((KindPriority(kind) * Radix + rank) * Radix + key[2]) * Radix + at
     /\ c = [kind |-> kind, key |-> key, attrs |-> attrs, place |-> c.place]
     /\ KindPriority(kind) \in Nat /\ rank \in Nat /\ key[2] \in Nat /\ at \in Nat => c.place \in Nat

LEMMA CandidateHas ==
  ASSUME NEW kind, NEW key, NEW rank, NEW at, NEW attrs
  PROVE  CandidateFields(kind, key, rank, at, attrs)
<1> DEFINE c == Candidate(kind, key, rank, at, attrs)
           p == ((KindPriority(kind) * Radix + rank) * Radix + key[2]) * Radix + at
<1>1. c = [kind |-> kind, key |-> key, attrs |-> attrs, place |-> p]
  BY DEF Candidate
<1>2. KindPriority(kind) \in Nat /\ rank \in Nat /\ key[2] \in Nat /\ at \in Nat => p \in Nat
  <2>1. ASSUME NEW a \in Nat, NEW b \in Nat, NEW d \in Nat, NEW e \in Nat
        PROVE  ((a * Radix + b) * Radix + d) * Radix + e \in Nat
    BY NumbersAreNat
  <2> QED
    BY <2>1
<1>3. c.kind = kind /\ c.key = key /\ c.attrs = attrs /\ c.place = p
  BY <1>1
<1> HIDE DEF c, p
<1> QED
  BY <1>1, <1>2, <1>3 DEF CandidateFields, c, p

LEMMA PriorityIsNumber == \A kind : KindPriority(kind) \in Nat
BY DEF KindPriority

\* What each kind of candidate is.
LEMMA HostIs ==
  ASSUME NEW c \in AddHost \cup AddRuntime \cup AddCloud
  PROVE  \E kind \in {"host", "runtime", "cloud"} : \E attrs : c = Candidate(kind, Key(kind, 0), 0, 0, attrs)
BY DEF AddHost, AddRuntime, AddCloud

\* A candidate of a kind whose key is a number or an address of that kind.
MadeAs(c, kind) ==
  /\ c.kind = kind /\ c.key[1] = kind /\ c.place \in Nat
  /\ c = [kind |-> c.kind, key |-> c.key, attrs |-> c.attrs, place |-> c.place]

LEMMA MadeIs ==
  ASSUME NEW kind, NEW key, NEW rank \in Nat, NEW at \in Nat, NEW attrs, key[1] = kind, key[2] \in Nat
  PROVE  MadeAs(Candidate(kind, key, rank, at, attrs), kind)
BY CandidateHas, PriorityIsNumber DEF CandidateFields, MadeAs

LEMMA KeysAre ==
  ASSUME NEW kind, NEW n, NEW m
  PROVE  /\ Key(kind, n)[1] = kind /\ Key(kind, n)[2] = n
         /\ ProcessKey(n, m)[1] = "process" /\ ProcessKey(n, m)[2] = n /\ ProcessKey(n, m)[3] = m
BY DEF Key, ProcessKey

\* The facts can be told apart by what the candidates are named after.
LEMMA FactsAre ==
  ASSUME SceneInv, SightInv, SightCounts
  PROVE  /\ \A f, g \in found.procs : f.pid \in Nat /\ f.start \in Nat /\ (f.pid = g.pid => f = g)
         /\ \A f \in found.procs : f.ev.container \in Nat /\ f.ev.pod \in Nat
         /\ \A s, t \in found.services : s.name \in Nat /\ (s.name = t.name => s = t)
         /\ \A x, y \in found.endpoints : x.addr \in Nat /\ x.port \in Nat /\ x.at \in Nat /\ (x.at = y.at => x = y)
         /\ \A i, j \in found.ifaces : i.n \in Nat /\ (i.n = j.n => i = j)
         /\ \A m \in conf.mounts : m.n \in Nat /\ m.point \in Nat
         /\ conf.self \in Nat
BY TopologyFacts, MoreTopologyFacts DEF SceneInv, SightInv, SightType, GoodFact, SightCounts, Evidence

LEMMA ContainersAreNumbers ==
  ASSUME SceneInv, SightInv, SightCounts, NEW c \in DiscoverContainers(found.procs)
  PROVE  c.id \in Nat /\ c.pod \in Nat
<1>1. \E f \in found.procs : c.id = f.ev.container
  BY DEF DiscoverContainers
<1> QED
  BY <1>1, FactsAre, ContainersAre

LEMMA ServicesMake ==
  ASSUME SceneInv, SightInv, SightCounts
  PROVE  /\ \A c \in AddServices(found) : MadeAs(c, "service")
         /\ \A c, d \in AddServices(found) : c.key = d.key => c = d
<1> DEFINE made(s) == Candidate("service", Key("service", s.name), ServiceRank(s.state), 0, <<s.state, s.main>>)
<1>1. \A c \in AddServices(found) : \E s \in found.services : c = made(s)
  BY DEF AddServices
<1>2. \A s \in found.services : MadeAs(made(s), "service") /\ made(s).key[2] = s.name
  BY FactsAre, MadeIs, KeysAre, CandidateHas DEF CandidateFields, ServiceRank
<1> HIDE DEF made
<1> QED
  BY <1>1, <1>2, FactsAre

LEMMA ContainersMake ==
  ASSUME SceneInv, SightInv, SightCounts, NEW answer
  PROVE  /\ \A c \in AddContainers(DiscoverContainers(found.procs), answer) :
              MadeAs(c, "container") /\ \E n : c.attrs = <<n, EnrichContainers(answer)>>
         /\ \A c, d \in AddContainers(DiscoverContainers(found.procs), answer) : c.key = d.key => c = d
<1> DEFINE made(b) == Candidate("container", Key("container", b.id), 0, 0, <<b.pod, EnrichContainers(answer)>>)
<1>1. \A c \in AddContainers(DiscoverContainers(found.procs), answer) :
         \E b \in DiscoverContainers(found.procs) : c = made(b)
  BY DEF AddContainers
<1>2. \A b \in DiscoverContainers(found.procs) :
         MadeAs(made(b), "container") /\ made(b).key[2] = b.id /\ made(b).attrs = <<b.pod, EnrichContainers(answer)>>
  BY ContainersAreNumbers, MadeIs, KeysAre, CandidateHas DEF CandidateFields
<1>3. \A a, b \in DiscoverContainers(found.procs) : a.id = b.id => a = b
  BY ContainersAre
<1> HIDE DEF made
<1> QED
  BY <1>1, <1>2, <1>3

LEMMA PodsMake ==
  ASSUME SceneInv, SightInv, SightCounts
  PROVE  /\ \A c \in AddPods(PodsFrom(DiscoverContainers(found.procs))) : MadeAs(c, "pod")
         /\ \A c, d \in AddPods(PodsFrom(DiscoverContainers(found.procs))) : c.key = d.key => c = d
<1> DEFINE P == PodsFrom(DiscoverContainers(found.procs))
           made(p) == Candidate("pod", Key("pod", p.uid), IF p.self THEN 0 ELSE 1, 0, p.self)
<1>1. \A c \in AddPods(P) : \E p \in P : c = made(p)
  BY DEF AddPods
<1>2. \A p, q \in P : p.uid \in Nat /\ (p.uid = q.uid => p = q)
  <2>1. \A u \in {c.pod : c \in DiscoverContainers(found.procs)} \cup {conf.self} : u \in Nat
    BY ContainersAreNumbers, FactsAre
  <2> QED
    BY <2>1 DEF PodsFrom
<1>3. \A p \in P : MadeAs(made(p), "pod") /\ made(p).key[2] = p.uid
  BY <1>2, MadeIs, KeysAre, CandidateHas DEF CandidateFields
<1> HIDE DEF made, P
<1> QED
  BY <1>1, <1>2, <1>3 DEF P

LEMMA InterfacesMake ==
  ASSUME SceneInv, SightInv, SightCounts
  PROVE  /\ \A c \in AddInterfaces(found) : MadeAs(c, "interface")
         /\ \A c, d \in AddInterfaces(found) : c.key = d.key => c = d
<1> DEFINE made(i) == Candidate("interface", Key("interface", i.n), InterfaceRank(i), 0, <<i.up, i.addrs>>)
<1>1. \A c \in AddInterfaces(found) : \E i \in found.ifaces : c = made(i)
  BY DEF AddInterfaces
<1>2. \A i : InterfaceRank(i) \in Nat
  BY DEF InterfaceRank
<1>3. \A i \in found.ifaces : MadeAs(made(i), "interface") /\ made(i).key[2] = i.n
  BY <1>2, FactsAre, MadeIs, KeysAre, CandidateHas DEF CandidateFields
<1> HIDE DEF made
<1> QED
  BY <1>1, <1>3, FactsAre

LEMMA TwoIsMore ==
  ASSUME NEW S, IsFiniteSet(S), NEW x \in S, NEW y \in S, x # y
  PROVE  Cardinality(S) > 1
<1>1. Cardinality(S) \in Nat
  BY FS_CardinalityType
<1>2. Cardinality(S) # 0
  BY FS_EmptySet
<1>3. Cardinality(S) # 1
  BY FS_Singleton
<1> QED
  BY <1>1, <1>2, <1>3

LEMMA EndpointsMake ==
  ASSUME SceneInv, SightInv, SightCounts
  PROVE  /\ \A c \in AddEndpoints(found) : MadeAs(c, "endpoint")
         /\ \A c, d \in AddEndpoints(found) : c.key = d.key => c = d \/ Twins(c.key)
<1> DEFINE made(x) == Candidate("endpoint", EndpointKey(x), x.port, x.at, x.owner)
<1>1. \A c \in AddEndpoints(found) : \E x \in found.endpoints : c = made(x)
  BY DEF AddEndpoints
<1>2. \A x : EndpointKey(x)[1] = "endpoint" /\ EndpointKey(x)[2] = x.addr
  BY DEF EndpointKey
<1>3. \A x \in found.endpoints : MadeAs(made(x), "endpoint") /\ made(x).key = EndpointKey(x)
  BY <1>2, FactsAre, MadeIs, CandidateHas DEF CandidateFields
<1> HIDE DEF made
<1>4. ASSUME NEW x \in found.endpoints, NEW y \in found.endpoints, x # y, EndpointKey(x) = EndpointKey(y)
      PROVE  Twins(EndpointKey(x))
  <2> DEFINE S == {z \in found.endpoints : EndpointKey(z) = EndpointKey(x)}
  <2>1. IsFiniteSet(S) /\ x \in S /\ y \in S
    BY <1>4, FS_Subset DEF SightCounts
  <2>2. Cardinality(S) > 1
    <3> HIDE DEF S
    <3> QED
      BY <1>4, <2>1, TwoIsMore
  <2> QED
    BY <2>2 DEF Twins
<1> QED
  BY <1>1, <1>3, <1>4

LEMMA FilesystemsMake ==
  ASSUME SceneInv, SightInv, SightCounts
  PROVE  /\ \A c \in AddFilesystems : MadeAs(c, "filesystem")
         /\ \A c, d \in AddFilesystems : c.key = d.key => c = d \/ Twins(c.key)
<1> DEFINE made(m) == Candidate("filesystem", Key("filesystem", m.point), m.point, m.n, m.device)
<1>1. \A c \in AddFilesystems : \E m \in conf.mounts : c = made(m)
  BY DEF AddFilesystems
<1>2. \A m \in conf.mounts : MadeAs(made(m), "filesystem") /\ made(m).key = Key("filesystem", m.point)
  BY FactsAre, MadeIs, KeysAre, CandidateHas DEF CandidateFields
<1> HIDE DEF made
<1>3. ASSUME NEW x \in conf.mounts, NEW y \in conf.mounts, x # y, Key("filesystem", x.point) = Key("filesystem", y.point)
      PROVE  Twins(Key("filesystem", x.point))
  <2> DEFINE S == {m \in conf.mounts : Key("filesystem", m.point) = Key("filesystem", x.point)}
  <2>1. IsFiniteSet(S) /\ x \in S /\ y \in S
    BY <1>3, FS_Subset, MoreTopologyFacts DEF SceneInv
  <2>2. Cardinality(S) > 1
    <3> HIDE DEF S
    <3> QED
      BY <1>3, <2>1, TwoIsMore
  <2> QED
    BY <2>2 DEF Twins
<1> QED
  BY <1>1, <1>2, <1>3

LEMMA ProcessesMake ==
  ASSUME SceneInv, SightInv, SightCounts
  PROVE  /\ \A c \in AddProcesses(found) : MadeAs(c, "process")
         /\ \A c, d \in AddProcesses(found) : c.key = d.key => c = d
<1> DEFINE made(q) == Candidate("process", ProcessKey(q.pid, q.start), q.pid, 0, q.ppid)
<1>1. \A c \in AddProcesses(found) : \E q \in found.procs : c = made(q)
  BY DEF AddProcesses
<1>2. \A q \in found.procs : MadeAs(made(q), "process") /\ made(q).key[2] = q.pid
  BY FactsAre, MadeIs, KeysAre, CandidateHas DEF CandidateFields
<1> HIDE DEF made
<1> QED
  BY <1>1, <1>2, FactsAre

LEMMA HostsMake ==
  /\ \A c \in AddHost \cup AddRuntime \cup AddCloud : c.kind \in {"host", "runtime", "cloud"} /\ MadeAs(c, c.kind)
  /\ \A c, d \in AddHost \cup AddRuntime \cup AddCloud : c.key = d.key => c = d
<1>1. ASSUME NEW kind, NEW attrs PROVE MadeAs(Candidate(kind, Key(kind, 0), 0, 0, attrs), kind)
  BY MadeIs, KeysAre
<1>2. \A c \in AddHost : c = Candidate("host", Key("host", 0), 0, 0, 0) /\ MadeAs(c, "host")
  BY <1>1 DEF AddHost
<1>3. \A c \in AddRuntime : c = Candidate("runtime", Key("runtime", 0), 0, 0, conf.self # 0) /\ MadeAs(c, "runtime")
  BY <1>1 DEF AddRuntime
<1>4. \A c \in AddCloud : c = Candidate("cloud", Key("cloud", 0), 0, 0, 0) /\ MadeAs(c, "cloud")
  BY <1>1 DEF AddCloud
<1> QED
  BY <1>2, <1>3, <1>4 DEF MadeAs

\* What the Docker daemon says changes only how containers are described.
Others ==
  AddHost \cup AddRuntime \cup AddCloud \cup AddServices(found) \cup AddPods(PodsFrom(DiscoverContainers(found.procs)))
    \cup AddInterfaces(found) \cup AddEndpoints(found) \cup AddFilesystems \cup AddProcesses(found)
Boxes(answer) == AddContainers(DiscoverContainers(found.procs), answer)

LEMMA BuiltIs == \A answer : Built(found, answer) = Others \cup Boxes(answer)
BY DEF Built, Others, Boxes

LEMMA OthersMake ==
  ASSUME SceneInv, SightInv, SightCounts
  PROVE  /\ \A c \in Others : MadeAs(c, c.kind) /\ c.kind # "container"
         /\ \A c, d \in Others : c.key = d.key => c = d \/ Twins(c.key)
<1> DEFINE H == AddHost \cup AddRuntime \cup AddCloud
           S == AddServices(found)
           P == AddPods(PodsFrom(DiscoverContainers(found.procs)))
           I == AddInterfaces(found)
           E == AddEndpoints(found)
           F == AddFilesystems
           R == AddProcesses(found)
<1>1. Others = H \cup S \cup P \cup I \cup E \cup F \cup R
  BY DEF Others
<1>2. /\ \A c \in H : c.kind \in {"host", "runtime", "cloud"} /\ MadeAs(c, c.kind)
      /\ \A c, d \in H : c.key = d.key => c = d
  BY HostsMake
<1>3. (\A c \in S : MadeAs(c, "service")) /\ \A c, d \in S : c.key = d.key => c = d
  BY ServicesMake
<1>4. (\A c \in P : MadeAs(c, "pod")) /\ \A c, d \in P : c.key = d.key => c = d
  BY PodsMake
<1>5. (\A c \in I : MadeAs(c, "interface")) /\ \A c, d \in I : c.key = d.key => c = d
  BY InterfacesMake
<1>6. (\A c \in E : MadeAs(c, "endpoint")) /\ \A c, d \in E : c.key = d.key => c = d \/ Twins(c.key)
  BY EndpointsMake
<1>7. (\A c \in F : MadeAs(c, "filesystem")) /\ \A c, d \in F : c.key = d.key => c = d \/ Twins(c.key)
  BY FilesystemsMake
<1>8. (\A c \in R : MadeAs(c, "process")) /\ \A c, d \in R : c.key = d.key => c = d
  BY ProcessesMake
<1> HIDE DEF H, S, P, I, E, F, R
<1> DEFINE kindOf(c) == c.key[1]
<1>9. /\ \A c \in H : kindOf(c) \in {"host", "runtime", "cloud"}
      /\ \A c \in S : kindOf(c) = "service"
      /\ \A c \in P : kindOf(c) = "pod"
      /\ \A c \in I : kindOf(c) = "interface"
      /\ \A c \in E : kindOf(c) = "endpoint"
      /\ \A c \in F : kindOf(c) = "filesystem"
      /\ \A c \in R : kindOf(c) = "process"
  BY <1>2, <1>3, <1>4, <1>5, <1>6, <1>7, <1>8 DEF MadeAs
<1>10. \A c \in Others : MadeAs(c, c.kind) /\ c.kind # "container"
  BY <1>1, <1>2, <1>3, <1>4, <1>5, <1>6, <1>7, <1>8 DEF MadeAs
<1>11. ASSUME NEW c \in Others, NEW d \in Others, c.key = d.key PROVE c = d \/ Twins(c.key)
  <2>1. kindOf(c) = kindOf(d)
    BY <1>11
  <2> HIDE DEF kindOf
  <2>2. CASE c \in H
    BY <1>1, <1>2, <1>9, <1>11, <2>1, <2>2
  <2>3. CASE c \in S
    BY <1>1, <1>3, <1>9, <1>11, <2>1, <2>3
  <2>4. CASE c \in P
    BY <1>1, <1>4, <1>9, <1>11, <2>1, <2>4
  <2>5. CASE c \in I
    BY <1>1, <1>5, <1>9, <1>11, <2>1, <2>5
  <2>6. CASE c \in E
    BY <1>1, <1>6, <1>9, <1>11, <2>1, <2>6
  <2>7. CASE c \in F
    BY <1>1, <1>7, <1>9, <1>11, <2>1, <2>7
  <2>8. CASE c \in R
    BY <1>1, <1>8, <1>9, <1>11, <2>1, <2>8
  <2> QED
    BY <1>1, <2>2, <2>3, <2>4, <2>5, <2>6, <2>7, <2>8
<1> QED
  BY <1>10, <1>11

\* Two candidates of one key are twins.
LEMMA BuiltMake ==
  ASSUME SceneInv, SightInv, SightCounts, NEW answer
  PROVE  /\ \A c \in Built(found, answer) : MadeAs(c, c.kind)
         /\ \A c, d \in Built(found, answer) : c.key = d.key => c = d \/ Twins(c.key)
<1>1. /\ \A c \in Others : MadeAs(c, c.kind) /\ c.kind # "container"
      /\ \A c, d \in Others : c.key = d.key => c = d \/ Twins(c.key)
  BY OthersMake
<1>2. /\ \A c \in Boxes(answer) : MadeAs(c, "container") /\ \E n : c.attrs = <<n, EnrichContainers(answer)>>
      /\ \A c, d \in Boxes(answer) : c.key = d.key => c = d
  BY ContainersMake DEF Boxes
<1>3. \A c \in Others, d \in Boxes(answer) : c.key[1] # d.key[1] /\ c.key # d.key
  BY <1>1, <1>2 DEF MadeAs
<1>4. \A d \in Boxes(answer) : MadeAs(d, d.kind)
  BY <1>2 DEF MadeAs
<1> QED
  BY <1>1, <1>2, <1>3, <1>4, BuiltIs

LEMMA ImageOf ==
  ASSUME NEW S, IsFiniteSet(S), NEW T, NEW f, T \subseteq {f[x] : x \in S}
  PROVE  IsFiniteSet(T)
<1> DEFINE U == {f[x] : x \in S}
<1>1. IsFiniteSet(U)
  BY ImageIsFinite
<1>2. T \in SUBSET U
  OBVIOUS
<1> HIDE DEF U
<1> QED
  BY <1>1, <1>2, FS_Subset

LEMMA OthersAreFinite ==
  ASSUME SceneInv, SightInv, SightCounts, NEW answer
  PROVE  IsFiniteSet(Built(found, answer))
<1>1. /\ IsFiniteSet(found.procs) /\ IsFiniteSet(found.services) /\ IsFiniteSet(found.endpoints)
      /\ IsFiniteSet(found.ifaces) /\ IsFiniteSet(conf.mounts)
  BY MoreTopologyFacts DEF SceneInv, SightInv, SightType, SightCounts
<1> DEFINE D == DiscoverContainers(found.procs)
           ids == {f.ev.container : f \in found.procs}
<1>2. IsFiniteSet(D)
  <2> DEFINE idOf == [f \in found.procs |-> f.ev.container]
  <2>1. ids \subseteq {idOf[f] : f \in found.procs}
    OBVIOUS
  <2>2. IsFiniteSet(ids)
    <3> HIDE DEF idOf, ids
    <3> QED
      BY <1>1, <2>1, ImageOf
  <2> DEFINE boxOf == [id \in ids |-> CHOOSE c \in D : c.id = id]
  <2>3. \A c \in D : c.id \in ids /\ \A b \in D : b.id = c.id => b = c
    <3>1. \A c \in D : c.id \in ids
      BY DEF DiscoverContainers
    <3> QED
      BY <3>1, ContainersAre
  <2>4. D \subseteq {boxOf[id] : id \in ids}
    <3> HIDE DEF D, ids
    <3> QED
      BY <2>3
  <2> HIDE DEF D, ids, boxOf
  <2> QED
    BY <2>2, <2>4, ImageOf
<1>3. IsFiniteSet(PodsFrom(D))
  <2> DEFINE podOf == [c \in D |-> c.pod]
             uids == ({c.pod : c \in D} \ {0}) \cup ({conf.self} \ {0})
             made == [u \in uids |-> [uid |-> u, self |-> u = conf.self]]
  <2>1. IsFiniteSet({podOf[c] : c \in D} \cup {conf.self})
    <3>1. IsFiniteSet({podOf[c] : c \in D})
      <4> HIDE DEF podOf, D
      <4> QED
        BY <1>2, ImageIsFinite
    <3> HIDE DEF podOf, D
    <3> QED
      BY <3>1, FS_AddElement
  <2>2. uids \subseteq {podOf[c] : c \in D} \cup {conf.self}
    OBVIOUS
  <2>3. IsFiniteSet(uids)
    <3> HIDE DEF podOf, D, uids
    <3> QED
      BY <2>1, <2>2, FS_Subset
  <2>4. PodsFrom(D) = {made[u] : u \in uids}
    BY DEF PodsFrom
  <2> HIDE DEF uids, made
  <2> QED
    BY <2>3, <2>4, ImageIsFinite
<1>4. IsFiniteSet(AddServices(found))
  <2> DEFINE made == [s \in found.services |->
                        Candidate("service", Key("service", s.name), ServiceRank(s.state), 0, <<s.state, s.main>>)]
  <2>1. AddServices(found) \subseteq {made[s] : s \in found.services}
    BY DEF AddServices
  <2> HIDE DEF made
  <2> QED
    BY <1>1, <2>1, ImageOf
<1>5. IsFiniteSet(AddContainers(D, answer))
  <2> DEFINE made == [b \in D |-> Candidate("container", Key("container", b.id), 0, 0, <<b.pod, EnrichContainers(answer)>>)]
  <2>1. AddContainers(D, answer) \subseteq {made[b] : b \in D}
    BY DEF AddContainers
  <2> HIDE DEF made, D
  <2> QED
    BY <1>2, <2>1, ImageOf
<1>6. IsFiniteSet(AddPods(PodsFrom(D)))
  <2> DEFINE Q == PodsFrom(D)
             made == [p \in Q |-> Candidate("pod", Key("pod", p.uid), IF p.self THEN 0 ELSE 1, 0, p.self)]
  <2>1. AddPods(Q) \subseteq {made[p] : p \in Q}
    BY DEF AddPods
  <2> HIDE DEF made, Q
  <2>2. IsFiniteSet(Q)
    BY <1>3 DEF Q
  <2>3. IsFiniteSet(AddPods(Q))
    BY <2>1, <2>2, ImageOf
  <2> QED
    BY <2>3 DEF Q
<1>7. IsFiniteSet(AddInterfaces(found))
  <2> DEFINE made == [i \in found.ifaces |-> Candidate("interface", Key("interface", i.n), InterfaceRank(i), 0, <<i.up, i.addrs>>)]
  <2>1. AddInterfaces(found) \subseteq {made[i] : i \in found.ifaces}
    BY DEF AddInterfaces
  <2> HIDE DEF made
  <2> QED
    BY <1>1, <2>1, ImageOf
<1>8. IsFiniteSet(AddEndpoints(found))
  <2> DEFINE made == [x \in found.endpoints |-> Candidate("endpoint", EndpointKey(x), x.port, x.at, x.owner)]
  <2>1. AddEndpoints(found) \subseteq {made[x] : x \in found.endpoints}
    BY DEF AddEndpoints
  <2> HIDE DEF made
  <2> QED
    BY <1>1, <2>1, ImageOf
<1>9. IsFiniteSet(AddFilesystems)
  <2> DEFINE made == [m \in conf.mounts |-> Candidate("filesystem", Key("filesystem", m.point), m.point, m.n, m.device)]
  <2>1. AddFilesystems \subseteq {made[m] : m \in conf.mounts}
    BY DEF AddFilesystems
  <2> HIDE DEF made
  <2> QED
    BY <1>1, <2>1, ImageOf
<1>10. IsFiniteSet(AddProcesses(found))
  <2> DEFINE made == [q \in found.procs |-> Candidate("process", ProcessKey(q.pid, q.start), q.pid, 0, q.ppid)]
  <2>1. AddProcesses(found) \subseteq {made[q] : q \in found.procs}
    BY DEF AddProcesses
  <2> HIDE DEF made
  <2> QED
    BY <1>1, <2>1, ImageOf
<1>11. IsFiniteSet(AddHost) /\ IsFiniteSet(AddRuntime) /\ IsFiniteSet(AddCloud)
  BY FS_Singleton DEF AddHost, AddRuntime, AddCloud
<1>12. Built(found, answer) = AddHost \cup AddRuntime \cup AddCloud \cup AddServices(found) \cup AddContainers(D, answer)
         \cup AddPods(PodsFrom(D)) \cup AddInterfaces(found) \cup AddEndpoints(found) \cup AddFilesystems \cup AddProcesses(found)
  BY DEF Built
<1> HIDE DEF D
<1>13. \A A, B : IsFiniteSet(A) /\ IsFiniteSet(B) => IsFiniteSet(A \cup B)
  BY FS_Union
<1> QED
  BY <1>4, <1>5, <1>6, <1>7, <1>8, <1>9, <1>10, <1>11, <1>12, <1>13

\* Admission looks at kinds and places alone.
LEMMA AdmissionRenames ==
  ASSUME NEW C, IsFiniteSet(C), NEW D, NEW h \in [C -> D],
         \A d \in D : \E c \in C : h[c] = d,
         \A b, c \in C : h[b] = h[c] => b = c,
         \A c \in C : h[c].kind = c.kind /\ h[c].place = c.place
  PROVE  AdmittedEntities(D) = {h[c] : c \in AdmittedEntities(C)}
<1>1. ASSUME NEW T \in SUBSET C
      PROVE  Cardinality({h[c] : c \in T}) = Cardinality(T)
  <2> DEFINE f == [c \in T |-> h[c]]
             U == {h[c] : c \in T}
  <2>1. f \in [T -> U] /\ \A u \in U : \E p \in T : f[p] = u
    OBVIOUS
  <2>2. \A p, q \in T : f[p] = f[q] => p = q
    OBVIOUS
  <2>3. IsFiniteSet(T)
    BY FS_Subset
  <2> HIDE DEF f, U
  <2>4. Cardinality(U) = Cardinality(T)
    BY <2>1, <2>2, <2>3, ImageCardinality
  <2> QED
    BY <2>4 DEF U
<1> DEFINE before(c, X) == {d \in X : d.place < c.place}
<1>2. ASSUME NEW c \in C, NEW T \in SUBSET C
      PROVE  Cardinality(before(h[c], {h[b] : b \in T})) = Cardinality(before(c, T))
  <2>1. before(h[c], {h[b] : b \in T}) = {h[b] : b \in before(c, T)}
    OBVIOUS
  <2>2. before(c, T) \in SUBSET C
    OBVIOUS
  <2> HIDE DEF before
  <2> QED
    BY <1>1, <2>1, <2>2
<1> DEFINE kin(c, X) == {d \in X : d.kind = c.kind}
           fits(X) == {c \in X : Cardinality(before(c, kin(c, X))) < conf.perKind}
<1>3. D = {h[c] : c \in C}
  OBVIOUS
<1>4. ASSUME NEW c \in C PROVE h[c] \in fits(D) <=> c \in fits(C)
  <2>1. kin(h[c], D) = {h[b] : b \in kin(c, C)}
    BY <1>3
  <2>2. kin(c, C) \in SUBSET C
    OBVIOUS
  <2> HIDE DEF before, kin
  <2>3. Cardinality(before(h[c], kin(h[c], D))) = Cardinality(before(c, kin(c, C)))
    BY <1>2, <2>1, <2>2
  <2> QED
    BY <2>3
<1>5. fits(D) = {h[c] : c \in fits(C)} /\ fits(C) \in SUBSET C
  <2>1. fits(D) \subseteq D /\ fits(C) \subseteq C
    OBVIOUS
  <2> HIDE DEF fits
  <2> QED
    BY <1>3, <1>4, <2>1
<1>6. /\ AdmittedEntities(C) = {c \in fits(C) : Cardinality(before(c, fits(C))) < conf.total}
      /\ AdmittedEntities(D) = {c \in fits(D) : Cardinality(before(c, fits(D))) < conf.total}
  BY DEF AdmittedEntities, Earlier
<1> HIDE DEF fits
<1>7. ASSUME NEW c \in fits(C) PROVE h[c] \in AdmittedEntities(D) <=> c \in AdmittedEntities(C)
  <2>1. Cardinality(before(h[c], fits(D))) = Cardinality(before(c, fits(C)))
    <3>1. c \in C
      BY <1>5
    <3> HIDE DEF before
    <3> QED
      BY <1>2, <1>5, <3>1
  <2> HIDE DEF before
  <2> QED
    BY <1>5, <1>6, <2>1
<1>8. AdmittedEntities(C) \subseteq fits(C) /\ AdmittedEntities(D) \subseteq fits(D)
  BY <1>6
<1> QED
  BY <1>5, <1>7, <1>8

LEMMA SilentButForTwins ==
  ASSUME SceneInv, SightInv, SightCounts, NEW a, NEW b,
         table = ReconciledTable(AdmittedEntities(Built(found, a))),
         NEW k \in ChangedKeys(AdmittedEntities(Built(found, b)))
  PROVE  Twins(k) \/ (conf.docker /\ k[1] = "container")
<1> DEFINE C == Built(found, a)
           D == Built(found, b)
           told(c) == [kind |-> c.kind, key |-> c.key, attrs |-> <<c.attrs[1], EnrichContainers(b)>>, place |-> c.place]
           h == [c \in C |-> IF c.kind = "container" THEN told(c) ELSE c]
           made(x, e) == Candidate("container", Key("container", x.id), 0, 0, <<x.pod, EnrichContainers(e)>>)
<1>1. /\ C = Others \cup Boxes(a) /\ D = Others \cup Boxes(b) /\ IsFiniteSet(C)
      /\ \A c \in C \cup D : MadeAs(c, c.kind)
      /\ \A c, d \in C : c.key = d.key => c = d \/ Twins(c.key)
      /\ \A c, d \in D : c.key = d.key => c = d \/ Twins(c.key)
      /\ \A c \in Others : c.kind # "container"
  BY BuiltIs, BuiltMake, OthersAreFinite, OthersMake
<1>2. /\ \A c \in Boxes(a) : c.kind = "container" /\ \E n : c.attrs = <<n, EnrichContainers(a)>>
      /\ \A c, d \in Boxes(a) : c.key = d.key => c = d
  BY ContainersMake DEF Boxes, MadeAs
<1>3. /\ \A c \in Boxes(a) : told(c) \in Boxes(b)
      /\ \A d \in Boxes(b) : \E c \in Boxes(a) : told(c) = d
  <2>1. \A x : told(made(x, a)) = made(x, b)
    BY DEF Candidate
  <2>2. \A c \in Boxes(a) : \E x \in DiscoverContainers(found.procs) : c = made(x, a)
    BY DEF Boxes, AddContainers
  <2>3. \A c \in Boxes(b) : \E x \in DiscoverContainers(found.procs) : c = made(x, b)
    BY DEF Boxes, AddContainers
  <2>4. \A x \in DiscoverContainers(found.procs) : made(x, a) \in Boxes(a) /\ made(x, b) \in Boxes(b)
    BY DEF Boxes, AddContainers
  <2> HIDE DEF told, made
  <2> QED
    BY <2>1, <2>2, <2>3, <2>4
<1>4. \A c \in C : (c.kind = "container" <=> c \in Boxes(a))
  BY <1>1, <1>2
<1>t. \A c : told(c).kind = c.kind /\ told(c).key = c.key /\ told(c).place = c.place
              /\ told(c).attrs = <<c.attrs[1], EnrichContainers(b)>>
  OBVIOUS
<1> HIDE DEF told, made, C, D
<1>5. /\ h \in [C -> D]
      /\ \A c \in C : h[c].kind = c.kind /\ h[c].place = c.place /\ h[c].key = c.key
  BY <1>1, <1>3, <1>4, <1>t
<1>6. \A d \in D : \E c \in C : h[c] = d
  <2> SUFFICES ASSUME NEW d \in D PROVE \E c \in C : h[c] = d
    OBVIOUS
  <2>1. CASE d \in Others
    <3>1. d \in C /\ d.kind # "container"
      BY <1>1, <2>1
    <3> QED
      BY <3>1
  <2>2. CASE d \in Boxes(b)
    <3>1. PICK c \in Boxes(a) : told(c) = d
      BY <1>3, <2>2
    <3>2. c \in C /\ c.kind = "container"
      BY <1>1, <1>2
    <3> QED
      BY <3>1, <3>2
  <2> QED
    BY <1>1, <2>1, <2>2
<1>7. \A c, d \in C : h[c] = h[d] => c = d
  <2> SUFFICES ASSUME NEW c \in C, NEW d \in C, h[c] = h[d] PROVE c = d
    OBVIOUS
  <2>1. c.kind = d.kind /\ c.key = d.key
    BY <1>5
  <2> QED
    BY <1>2, <1>4, <2>1
<1>8. /\ AdmittedEntities(D) = {h[c] : c \in AdmittedEntities(C)}
      /\ AdmittedEntities(C) \subseteq C /\ AdmittedEntities(D) \subseteq D
  <2>1. AdmittedEntities(C) \subseteq C /\ AdmittedEntities(D) \subseteq D
    BY DEF AdmittedEntities
  <2> HIDE DEF h
  <2>2. h \in [C -> D] /\ IsFiniteSet(C) /\ \A c \in C : h[c].kind = c.kind /\ h[c].place = c.place
    BY <1>1, <1>5
  <2>3. AdmittedEntities(D) = {h[c] : c \in AdmittedEntities(C)}
    BY <1>6, <1>7, <2>2, AdmissionRenames
  <2> QED
    BY <2>1, <2>3
<1> DEFINE K1 == AdmittedEntities(C)
           K2 == AdmittedEntities(D)
<1>9. table = ReconciledTable(K1) /\ k \in ChangedKeys(K2)
  BY DEF C, D
<1>k. K2 = {h[c] : c \in K1} /\ K1 \subseteq C /\ K2 \subseteq D
  BY <1>8
<1> HIDE DEF K1, K2
<1>10. DOMAIN table = {c.key : c \in K1} /\ {c.key : c \in K1} = {c.key : c \in K2}
  <2>1. \A c \in K1 : h[c].key = c.key
    BY <1>5, <1>k
  <2>2. DOMAIN table = {c.key : c \in K1}
    BY <1>9 DEF ReconciledTable
  <2> HIDE DEF h
  <2>3. \A c \in K1 : h[c] \in K2
    BY <1>k
  <2>4. \A d \in K2 : \E c \in K1 : h[c] = d
    BY <1>k
  <2>5. {c.key : c \in K1} = {c.key : c \in K2}
    BY <2>1, <2>3, <2>4
  <2> QED
    BY <2>2, <2>5
<1> SUFFICES ASSUME ~Twins(k), ~(conf.docker /\ k[1] = "container") PROVE FALSE
  OBVIOUS
<1> DEFINE previous(c) == {d \in K2 : d.key = c.key /\ Earlier(d, c)}
<1>11. PICK c \in K2 : c.key = k /\ (previous(c) # {} \/ c.key \notin DOMAIN table \/ table[c.key] # c.attrs)
  BY <1>9, <1>10 DEF ChangedKeys
<1>12. \A d \in K2 : d.key = k => d = c
  BY <1>1, <1>k, <1>11
<1>13. previous(c) = {}
  <2>1. c.place \in Nat
    BY <1>1, <1>k DEF MadeAs
  <2> QED
    BY <1>11, <1>12, <2>1 DEF Earlier
<1>14. k \in DOMAIN table /\ table[k] # c.attrs
  BY <1>10, <1>11, <1>13
<1>15. PICK c1 \in K1 : h[c1] = c
  BY <1>k
<1>16. c1 \in C /\ c1.key = k /\ c1.kind = c.kind /\ \A d \in K1 : d.key = k => d = c1
  BY <1>1, <1>5, <1>k, <1>11, <1>15
<1>17. table[k] = c1.attrs
  <2>1. c1.place \in Nat
    BY <1>1, <1>16 DEF MadeAs
  <2>2. ~Earlier(c1, c1)
    BY <2>1 DEF Earlier
  <2> DEFINE Top(x) == x \in K1 /\ x.key = k /\ \A d \in K1 : d.key = k => ~Earlier(x, d)
  <2>3. Top(c1) /\ \A x : Top(x) => x = c1
    BY <1>15, <1>16, <2>2
  <2>4. table[k] = (CHOOSE x \in K1 : x.key = k /\ \A d \in K1 : d.key = k => ~Earlier(x, d)).attrs
    BY <1>9, <1>10, <1>14 DEF ReconciledTable
  <2>5. (CHOOSE x \in K1 : x.key = k /\ \A d \in K1 : d.key = k => ~Earlier(x, d)) = c1
    BY <2>3
  <2> QED
    BY <2>4, <2>5
<1>18. c.attrs = c1.attrs
  <2>1. CASE c1.kind # "container"
    BY <1>15, <1>16, <2>1
  <2>2. CASE c1.kind = "container"
    <3>1. c = told(c1) /\ c1 \in Boxes(a)
      BY <1>4, <1>15, <1>16, <2>2
    <3>2. ~conf.docker
      BY <1>1, <1>16, <2>2 DEF MadeAs
    <3>3. EnrichContainers(a) = 0 /\ EnrichContainers(b) = 0
      BY <3>2 DEF EnrichContainers
    <3> QED
      BY <1>2, <1>t, <3>1, <3>3
  <2> QED
    BY <2>1, <2>2
<1> QED
  BY <1>14, <1>17, <1>18

\* Places are compared digit by digit.
LEMMA DigitsCompare ==
  ASSUME NEW a \in Nat, NEW b \in Nat, NEW n \in Number
  PROVE  /\ \A m \in Nat : a < b => a * Radix + n < b * Radix + m
         /\ \A m \in Number : a * Radix + n = b * Radix + m => a = b /\ n = m
<1>1. Radix \in Nat /\ \A m \in Number : m \in Nat /\ m < Radix
  BY TopologyAssumption DEF Number
<1>2. ASSUME NEW x \in Nat, NEW y \in Nat, x < y PROVE x * Radix + Radix <= y * Radix
  <2>1. PICK k \in Nat : y = x + 1 + k
    BY <1>2
  <2>2. k * Radix \in Nat /\ x * Radix \in Nat
    BY <1>1
  <2>3. y * Radix = x * Radix + Radix + k * Radix
    BY <1>1, <2>1
  <2> QED
    BY <1>1, <2>2, <2>3
<1>3. a * Radix \in Nat /\ b * Radix \in Nat
  BY <1>1
<1>4. a < b => a * Radix + Radix <= b * Radix
  BY <1>2
<1>5. b < a => b * Radix + Radix <= a * Radix
  BY <1>2
<1>6. \A m \in Nat : a < b => a * Radix + n < b * Radix + m
  BY <1>1, <1>3, <1>4
<1>7. ASSUME NEW m \in Number, a * Radix + n = b * Radix + m PROVE a = b /\ n = m
  <2>1. ~(a < b) /\ ~(b < a)
    BY <1>1, <1>3, <1>4, <1>5, <1>7
  <2>2. a = b
    BY <2>1
  <2> QED
    BY <1>1, <1>3, <1>7, <2>2
<1> QED
  BY <1>6, <1>7

\* Services come before processes, in an order of their own.
LEMMA ServicesComeFirst ==
  ASSUME SceneInv, SightInv, SightCounts
  PROVE  /\ \A c, d \in AddServices(found) : c.place = d.place => c = d
         /\ \A c \in AddServices(found), d \in AddProcesses(found) : c.place < d.place
<1> DEFINE made(s) == Candidate("service", Key("service", s.name), ServiceRank(s.state), 0, <<s.state, s.main>>)
           proc(q) == Candidate("process", ProcessKey(q.pid, q.start), q.pid, 0, q.ppid)
           top(kind, rank) == kind * Radix + rank
           placed(kind, rank, n) == (top(kind, rank) * Radix + n) * Radix + 0
<1>0. Radix \in Nat /\ 0 \in Number /\ 1 \in Number /\ 3 \in Number /\ Number \subseteq Nat
  BY NumbersAreNat DEF Number
<1>1. ASSUME NEW c \in AddServices(found)
      PROVE  \E r \in {1, 3}, n \in Number : c.key = Key("service", n) /\ c.place = placed(1, r, n)
  <2>1. PICK s \in found.services : c = made(s)
    BY DEF AddServices
  <2>2. CandidateFields("service", Key("service", s.name), ServiceRank(s.state), 0, <<s.state, s.main>>)
    BY CandidateHas
  <2>3. /\ c.key = Key("service", s.name)
        /\ c.place = ((KindPriority("service") * Radix + ServiceRank(s.state)) * Radix + Key("service", s.name)[2]) * Radix + 0
    <3> HIDE DEF Candidate
    <3> QED
      BY <2>1, <2>2 DEF CandidateFields
  <2>4. KindPriority("service") = 1 /\ Key("service", s.name)[2] = s.name /\ ServiceRank(s.state) \in {1, 3}
    BY KeysAre DEF KindPriority, ServiceRank
  <2>5. s.name \in Number
    BY DEF SightCounts
  <2> QED
    BY <2>3, <2>4, <2>5
<1>2. ASSUME NEW d \in AddProcesses(found)
      PROVE  \E p \in Nat : d.place = placed(6, p, p)
  <2>1. PICK q \in found.procs : d = proc(q)
    BY DEF AddProcesses
  <2>2. CandidateFields("process", ProcessKey(q.pid, q.start), q.pid, 0, q.ppid)
    BY CandidateHas
  <2>3. d.place = ((KindPriority("process") * Radix + q.pid) * Radix + ProcessKey(q.pid, q.start)[2]) * Radix + 0
    <3> HIDE DEF Candidate
    <3> QED
      BY <2>1, <2>2 DEF CandidateFields
  <2>4. KindPriority("process") = 6 /\ ProcessKey(q.pid, q.start)[2] = q.pid /\ q.pid \in Nat
    BY KeysAre, FactsAre DEF KindPriority
  <2> QED
    BY <2>3, <2>4
<1>3. \A kind \in Nat, rank \in Nat : top(kind, rank) \in Nat
  BY <1>0
<1>4. \A r \in Number, p \in Nat : top(1, r) < top(6, p)
  BY DigitsCompare
<1> HIDE DEF made, proc, top
<1>5. \A x \in Nat, n \in Nat : x * Radix + n \in Nat
  BY <1>0
<1>6. ASSUME NEW c \in AddServices(found), NEW d \in AddServices(found), c.place = d.place PROVE c = d
  <2>1. PICK r \in {1, 3}, n \in Number : c.key = Key("service", n) /\ c.place = placed(1, r, n)
    BY <1>1
  <2>2. PICK u \in {1, 3}, m \in Number : d.key = Key("service", m) /\ d.place = placed(1, u, m)
    BY <1>1
  <2> DEFINE x == top(1, r) * Radix + n
             y == top(1, u) * Radix + m
  <2>3. top(1, r) \in Nat /\ top(1, u) \in Nat /\ n \in Nat /\ m \in Nat
    BY <1>0, <1>3
  <2>4. x \in Nat /\ y \in Nat
    BY <1>5, <2>3
  <2>5. x * Radix + 0 = y * Radix + 0
    BY <1>6, <2>1, <2>2
  <2>6. x = y
    <3> HIDE DEF x, y
    <3> QED
      BY <1>0, <2>4, <2>5, DigitsCompare
  <2>7. n = m
    BY <2>3, <2>6, DigitsCompare
  <2> QED
    BY <2>1, <2>2, <2>7, ServicesMake
<1>7. ASSUME NEW c \in AddServices(found), NEW d \in AddProcesses(found) PROVE c.place < d.place
  <2>1. PICK r \in {1, 3}, n \in Number : c.place = placed(1, r, n)
    BY <1>1
  <2>2. PICK p \in Nat : d.place = placed(6, p, p)
    BY <1>2
  <2> DEFINE x == top(1, r) * Radix + n
             y == top(6, p) * Radix + p
  <2>3. top(1, r) \in Nat /\ top(6, p) \in Nat /\ n \in Nat /\ r \in Number
    BY <1>0, <1>3
  <2>4. x \in Nat /\ y \in Nat
    BY <1>5, <2>3
  <2>5. top(1, r) < top(6, p)
    BY <1>4, <2>3
  <2>6. x < y
    BY <2>3, <2>5, DigitsCompare
  <2>7. x * Radix + 0 < y * Radix + 0
    <3> HIDE DEF x, y
    <3> QED
      BY <1>0, <2>4, <2>6, DigitsCompare
  <2> QED
    BY <2>1, <2>2, <2>7
<1> QED
  BY <1>6, <1>7

\* The first by place are as many as may be, or all.
LEMMA FirstByPlace ==
  ASSUME NEW S, IsFiniteSet(S), NEW limit \in Nat,
         \A c, d \in S : c.place \in Nat /\ (c.place = d.place => c = d),
         NEW A, A = {c \in S : Cardinality({d \in S : d.place < c.place}) < limit}
  PROVE  A = S \/ Cardinality(A) = limit
<1> DEFINE W == {c.place : c \in S}
           pl == [c \in S |-> c.place]
           F == FirstFits(W, 0, limit)
<1>0. \A T \in SUBSET S : Cardinality({c.place : c \in T}) = Cardinality(T) /\ IsFiniteSet({c.place : c \in T})
  <2> SUFFICES ASSUME NEW T \in SUBSET S
               PROVE  Cardinality({c.place : c \in T}) = Cardinality(T) /\ IsFiniteSet({c.place : c \in T})
    OBVIOUS
  <2> DEFINE f == [c \in T |-> c.place]
             U == {c.place : c \in T}
  <2>1. f \in [T -> U] /\ \A u \in U : \E p \in T : f[p] = u
    OBVIOUS
  <2>2. \A p, q \in T : f[p] = f[q] => p = q
    OBVIOUS
  <2>3. IsFiniteSet(T)
    BY FS_Subset
  <2> HIDE DEF f, U
  <2>4. Cardinality(U) = Cardinality(T) /\ IsFiniteSet(U)
    BY <2>1, <2>2, <2>3, ImageCardinality
  <2> QED
    BY <2>4 DEF U
<1>1. IsFiniteSet(W) /\ W \subseteq Nat
  BY <1>0
<1>2. ASSUME NEW c \in S PROVE c \in A <=> c.place \in F
  <2> DEFINE T == {d \in S : d.place < c.place}
  <2>1. {q \in W : q < c.place} = {d.place : d \in T}
    OBVIOUS
  <2>2. T \in SUBSET S
    OBVIOUS
  <2>3. Cardinality({q \in W : q < c.place}) = Cardinality(T) /\ Cardinality(T) \in Nat
    <3> HIDE DEF T
    <3>1. Cardinality({d.place : d \in T}) = Cardinality(T) /\ Cardinality(T) \in Nat
      BY <1>0, <2>2, FS_Subset, FS_CardinalityType
    <3> QED
      BY <2>1, <3>1
  <2>4. c.place \in W /\ (c \in A <=> Cardinality(T) < limit)
    OBVIOUS
  <2>5. c.place \in F <=> 0 + Cardinality({q \in W : q < c.place}) < limit
    BY <2>4 DEF FirstFits
  <2> HIDE DEF T, W
  <2> QED
    BY <2>3, <2>4, <2>5
<1>3. F = {c.place : c \in A} /\ A \subseteq S
  <2>1. F \subseteq W /\ A \subseteq S
    BY DEF FirstFits
  <2>2. \A w \in W : \E c \in S : w = c.place
    OBVIOUS
  <2> HIDE DEF F, W
  <2>3. \A w \in F : \E c \in A : w = c.place
    BY <1>2, <2>1, <2>2
  <2>4. \A c \in A : c.place \in F
    BY <1>2, <2>1
  <2> QED
    BY <2>1, <2>3, <2>4
<1>4. Cardinality(F) = Cardinality(A)
  <2> HIDE DEF F
  <2> QED
    BY <1>0, <1>3
<1>5. /\ IsFiniteSet(F) /\ Cardinality(F) \in Nat
      /\ F = {} \/ 0 + Cardinality(F) <= limit
      /\ F = W \/ 0 + Cardinality(F) >= limit
  <2> HIDE DEF W
  <2> QED
    BY <1>1, AdmissionFills
<1>6. F = W => A = S
  BY <1>2
<1>7. F = {} => Cardinality(F) = 0
  BY FS_EmptySet
<1> HIDE DEF F, W
<1> QED
  BY <1>4, <1>5, <1>6, <1>7

LEMMA ServicesAreShedLast ==
  ASSUME SceneInv, SightInv, SightCounts, NEW answer,
         NEW K, K = AdmittedEntities(Built(found, answer)),
         NEW p \in K, p.key[1] = "process",
         NEW s \in found.services, s.name \notin conf.excluded
  PROVE  \/ Key("service", s.name) \in {c.key : c \in K}
         \/ Cardinality({k \in {c.key : c \in K} : k[1] = "service"}) = conf.perKind
<1> DEFINE C == Built(found, answer)
           S == AddServices(found)
           before(c, X) == {d \in X : d.place < c.place}
           kin(c) == {d \in C : d.kind = c.kind}
           fits == {c \in C : Cardinality(before(c, kin(c))) < conf.perKind}
           A == {c \in S : Cardinality(before(c, S)) < conf.perKind}
<1>1. /\ \A c \in C : MadeAs(c, c.kind)
      /\ IsFiniteSet(C) /\ conf.perKind \in Nat
  BY BuiltMake, OthersAreFinite, MoreTopologyFacts DEF SceneInv
<1>2. /\ K \subseteq fits /\ fits \subseteq C
      /\ K = {c \in fits : Cardinality(before(c, fits)) < conf.total}
  BY DEF AdmittedEntities, Earlier
<1>3. /\ S \subseteq C /\ \A c \in C : (c \in S <=> c.kind = "service")
  <2>1. S \subseteq C
    BY DEF Built
  <2>2. \A c \in S : c.kind = "service"
    BY ServicesMake DEF MadeAs
  <2>3. ASSUME NEW c \in C, c.kind = "service" PROVE c \in S
    <3>1. c \notin AddHost \cup AddRuntime \cup AddCloud
      BY <2>3, HostsMake
    <3>2. /\ c \notin AddContainers(DiscoverContainers(found.procs), answer)
          /\ c \notin AddPods(PodsFrom(DiscoverContainers(found.procs)))
          /\ c \notin AddInterfaces(found) /\ c \notin AddEndpoints(found)
          /\ c \notin AddFilesystems /\ c \notin AddProcesses(found)
      BY <2>3, ContainersMake, PodsMake, InterfacesMake, EndpointsMake, FilesystemsMake, ProcessesMake DEF MadeAs
    <3> QED
      BY <3>1, <3>2 DEF Built
  <2> QED
    BY <2>1, <2>2, <2>3
<1>4. p \in AddProcesses(found)
  <2>1. p \in C /\ p.kind = "process"
    BY <1>1, <1>2 DEF MadeAs
  <2>2. p \notin AddHost \cup AddRuntime \cup AddCloud
    BY <2>1, HostsMake
  <2>3. /\ p \notin AddContainers(DiscoverContainers(found.procs), answer)
        /\ p \notin AddPods(PodsFrom(DiscoverContainers(found.procs)))
        /\ p \notin AddInterfaces(found) /\ p \notin AddEndpoints(found)
        /\ p \notin AddFilesystems /\ p \notin AddServices(found)
    BY <2>1, ContainersMake, PodsMake, InterfacesMake, EndpointsMake, FilesystemsMake, ServicesMake DEF MadeAs
  <2> QED
    BY <2>1, <2>2, <2>3 DEF Built
<1>5. ASSUME NEW c \in S PROVE c \in fits <=> c \in A
  <2>1. kin(c) = S
    BY <1>3
  <2>2. c \in C
    BY <1>3
  <2> HIDE DEF S, C, kin, before
  <2> QED
    BY <2>1, <2>2
<1>6. ASSUME NEW c \in A PROVE c \in K
  <2>1. c \in S /\ c \in fits /\ c \in C
    BY <1>3, <1>5
  <2>2. c.place < p.place
    BY <1>4, <2>1, ServicesComeFirst
  <2>3. p \in C /\ p \in fits /\ Cardinality(before(p, fits)) < conf.total
    BY <1>2
  <2>4. \A d \in fits : d.place \in Nat
    BY <1>1, <1>2 DEF MadeAs
  <2>5. before(c, fits) \in SUBSET before(p, fits) /\ before(p, fits) \in SUBSET C
    <3> HIDE DEF fits, C
    <3>1. c.place \in Nat /\ p.place \in Nat
      BY <2>1, <2>3, <2>4
    <3> QED
      BY <1>2, <2>2, <2>4, <3>1
  <2> HIDE DEF before, fits, C
  <2>6. IsFiniteSet(before(p, fits))
    BY <1>1, <2>5, FS_Subset
  <2>7. Cardinality(before(c, fits)) <= Cardinality(before(p, fits))
    BY <2>5, <2>6, FS_Subset
  <2>8. IsFiniteSet(before(c, fits)) /\ Cardinality(before(c, fits)) \in Nat /\ Cardinality(before(p, fits)) \in Nat
    BY <2>5, <2>6, FS_Subset, FS_CardinalityType
  <2>9. conf.total \in Nat
    BY MoreTopologyFacts DEF SceneInv
  <2>10. Cardinality(before(c, fits)) < conf.total
    BY <2>3, <2>7, <2>8, <2>9
  <2> QED
    BY <1>2, <2>1, <2>10
<1>7. A = S \/ Cardinality(A) = conf.perKind
  <2>1. IsFiniteSet(S) /\ \A c, d \in S : c.place \in Nat /\ (c.place = d.place => c = d)
    BY <1>1, <1>3, FS_Subset, ServicesComeFirst DEF MadeAs
  <2>2. A = {c \in S : Cardinality({d \in S : d.place < c.place}) < conf.perKind}
    OBVIOUS
  <2> HIDE DEF S, A
  <2> QED
    BY <1>1, <2>1, <2>2, FirstByPlace
<1>8. CASE A = S
  <2>1. Candidate("service", Key("service", s.name), ServiceRank(s.state), 0, <<s.state, s.main>>) \in S
    BY DEF AddServices
  <2>2. Candidate("service", Key("service", s.name), ServiceRank(s.state), 0, <<s.state, s.main>>).key = Key("service", s.name)
    BY DEF Candidate
  <2> HIDE DEF A, S, Candidate
  <2> QED
    BY <1>6, <1>8, <2>1, <2>2
<1>9. CASE Cardinality(A) = conf.perKind
  <2> DEFINE Q == {k \in {c.key : c \in K} : k[1] = "service"}
             f == [c \in A |-> c.key]
  <2>1. A \subseteq S
    OBVIOUS
  <2>2. \A c \in A : c.key[1] = "service" /\ c \in K
    <3>1. \A c \in S : c.key[1] = "service"
      BY ServicesMake DEF MadeAs
    <3> QED
      BY <1>6, <2>1, <3>1
  <2>3. \A c \in K : c.key[1] = "service" => c \in A
    <3> SUFFICES ASSUME NEW c \in K, c.key[1] = "service" PROVE c \in A
      OBVIOUS
    <3>1. c \in C /\ c.kind = "service"
      BY <1>1, <1>2 DEF MadeAs
    <3>2. c \in S /\ c \in fits
      BY <1>2, <1>3, <3>1
    <3> HIDE DEF A, S, fits
    <3> QED
      BY <1>5, <3>2
  <2>4. IsFiniteSet(A)
    BY <1>1, <1>3, <2>1, FS_Subset
  <2>5. \A c, d \in A : c.key = d.key => c = d
    BY <2>1, ServicesMake
  <2> HIDE DEF A, S, C, fits
  <2>6. Q = {c.key : c \in A}
    BY <2>2, <2>3
  <2>7. f \in [A -> Q] /\ (\A q \in Q : \E c \in A : f[c] = q) /\ (\A c, d \in A : f[c] = f[d] => c = d)
    BY <2>5, <2>6
  <2> HIDE DEF Q, f
  <2>8. Cardinality(Q) = Cardinality(A)
    BY <2>4, <2>7, ImageCardinality
  <2> QED
    BY <1>9, <2>8 DEF Q
<1> QED
  BY <1>7, <1>8, <1>9

\* What a host that does not move shows to its sources.
ReadSince(L) == UNION {DiscoverProcess(p) : p \in Pid \ L}
Sees == [procs |-> ReadSince({}), services |-> DiscoverServices, endpoints |-> DiscoverEndpoints, ifaces |-> DiscoverInterfaces]

HostIsTheSame ==
  /\ conf' = conf
  /\ world'.start = world.start /\ world'.parent = world.parent /\ world'.holders = world.holders
  /\ world'.path = world.path /\ world'.carries = world.carries

LEMMA SameHostSameSight ==
  ASSUME HostIsTheSame
  PROVE  Sees' = Sees /\ \A L : ReadSince(L)' = ReadSince(L)
<1> USE DEF HostIsTheSame
<1>1. Live' = Live
  BY DEF Live
<1>2. \A p, ppid, path, stamped : ProcessFacts(p, ppid, path, stamped)' = ProcessFacts(p, ppid, path, stamped)
  BY DEF ProcessFacts
<1>3. \A p : /\ LinuxProcess(p)' = LinuxProcess(p) /\ WindowsProcess(p)' = WindowsProcess(p)
             /\ DarwinProcess(p)' = DarwinProcess(p)
  BY DEF LinuxProcess, WindowsProcess, DarwinProcess, ProcessFacts
<1>4. \A p : DiscoverProcess(p)' = DiscoverProcess(p)
  BY <1>1, <1>3 DEF DiscoverProcess
<1>5. \A L : ReadSince(L)' = ReadSince(L)
  BY <1>4 DEF ReadSince
<1>6. \A u : Members(u)' = Members(u)
  BY <1>1 DEF Members
<1>7. \A p, u : Depth(p, u)' = Depth(p, u)
  BY DEF Depth
<1>8. \A u : MainPIDOf(u)' = MainPIDOf(u)
  BY <1>6, <1>7 DEF MainPIDOf
<1>9. \A u, main : Service(u, main)' = Service(u, main)
  BY DEF Service
<1>10. Units' = Units
  BY DEF Units
<1>11. DiscoverServices' = DiscoverServices
  <2>1. LinuxServices' = LinuxServices
    BY <1>6, <1>8, <1>9, <1>10 DEF LinuxServices
  <2>2. WindowsServices' = WindowsServices
    BY <1>6, <1>9, <1>10 DEF WindowsServices
  <2> QED
    BY <2>1, <2>2 DEF DiscoverServices
<1>12. DiscoverEndpoints' = DiscoverEndpoints
  <2>1. ParseProcNet' = ParseProcNet
    BY DEF ParseProcNet
  <2>2. \A s : CorrelateOwners(s)' = CorrelateOwners(s)
    BY <1>1 DEF CorrelateOwners
  <2>3. \A s, owner : Endpoint(s, owner)' = Endpoint(s, owner)
    BY DEF Endpoint
  <2>4. LinuxEndpoints' = LinuxEndpoints
    BY <2>1, <2>2, <2>3 DEF LinuxEndpoints
  <2>5. WindowsEndpoints' = WindowsEndpoints
    BY <2>1, <2>3 DEF WindowsEndpoints
  <2> QED
    BY <2>4, <2>5 DEF DiscoverEndpoints
<1>13. DiscoverInterfaces' = DiscoverInterfaces
  BY DEF DiscoverInterfaces
<1> QED
  BY <1>5, <1>11, <1>12, <1>13 DEF Sees

\* Since the host last moved, the cycle has gathered what is there; and since the cycle before
\* that, the table is what is made of it, the Docker daemon's answer apart.
MadeOf(f) == \E answer : table = ReconciledTable(AdmittedEntities(Built(f, answer)))

CalmInv ==
  /\ calm \in 0 .. 3
  /\ calm >= 1 => /\ reading = "processes" => found.procs = ReadSince(world.left)
                  /\ reading = "services" => found.procs = Sees.procs /\ found.services = Sees.services
                  /\ reading = "build" => found = Sees
  /\ calm >= 2 => MadeOf(Sees)

TopologyInv == SceneInv /\ SightInv /\ SightCounts /\ CalmInv /\ TableIsStable

LEMMA SameTable ==
  ASSUME HostIsTheSame, table' = table, MadeOf(Sees)
  PROVE  MadeOf(Sees)'
<1>1. PICK answer : table = ReconciledTable(AdmittedEntities(Built(Sees, answer)))
  BY DEF MadeOf
<1>2. Sees' = Sees
  BY SameHostSameSight
<1>3. \A f : Built(f, answer)' = Built(f, answer)
  BY DEF HostIsTheSame, Built, AddServices, AddContainers, EnrichContainers, PodsFrom, AddRuntime, AddHost, AddCloud,
         AddPods, AddInterfaces, AddEndpoints, AddFilesystems, AddProcesses, StructuralPIDs
<1>4. \A C : AdmittedEntities(C)' = AdmittedEntities(C)
  BY DEF HostIsTheSame, AdmittedEntities
<1> QED
  BY <1>1, <1>2, <1>3, <1>4 DEF MadeOf

LEMMA CalmGrows ==
  ASSUME TopologyInv, BeginCycle \/ ReadProcess \/ ReadServices \/ ReadEndpoints
  PROVE  (CalmInv /\ TableIsStable)'
<1>0. found = [procs |-> found.procs, services |-> found.services, endpoints |-> found.endpoints, ifaces |-> found.ifaces]
  BY DEF TopologyInv, SightInv, SightType
<1>1. reading' # "rest" /\ table' = table /\ (calm' = calm \/ calm' = 0)
  BY DEF BeginCycle, ReadProcess, ReadServices, ReadEndpoints
<1>2. TableIsStable'
  BY <1>1 DEF TableIsStable, StableHostIsSilent, ShedInOrder
<1>3. HostIsTheSame
  BY CycleLeaves DEF HostIsTheSame, TopologyInv
<1>4. Sees' = Sees /\ \A L : ReadSince(L)' = ReadSince(L)
  BY <1>3, SameHostSameSight
<1>5. calm' >= 2 => MadeOf(Sees)'
  BY <1>1, <1>3, SameTable DEF TopologyInv, CalmInv
<1>6. CASE calm' = 0
  BY <1>2, <1>6 DEF CalmInv
<1>7. CASE calm' = calm /\ calm = 0
  BY <1>2, <1>6, <1>7
<1>8. CASE calm' = calm /\ calm >= 1
  <2>1. calm \in 0 .. 3
    BY DEF TopologyInv, CalmInv
  <2>2. CASE BeginCycle
    <3>1. reading' = "processes" /\ found' = NoFacts /\ world'.left = Pid
      BY <2>2 DEF BeginCycle, TopologyInv, SceneInv, WorldType
    <3>2. ReadSince(Pid) = {}
      BY DEF ReadSince
    <3>3. ReadSince(world.left)' = ReadSince(world'.left)
      BY <1>3, SameHostSameSight DEF ReadSince
    <3> QED
      BY <1>2, <1>4, <1>5, <1>8, <2>1, <3>1, <3>2, <3>3 DEF CalmInv, NoFacts
  <2>3. CASE ReadProcess
    <3> DEFINE p == Min(world.left)
    <3>1. /\ reading = "processes" /\ reading' = "processes"
          /\ found' = [found EXCEPT !.procs = found.procs \cup DiscoverProcess(p)]
          /\ world'.left = world.left \ {p} /\ world.left # {}
      BY <2>3 DEF ReadProcess, TopologyInv, SceneInv, WorldType
    <3>2. world.left \subseteq Pid /\ p \in world.left
      <4>1. world.left \subseteq Nat /\ world.left \subseteq Pid
        BY TopologyFacts DEF TopologyInv, SceneInv, WorldType
      <4> QED
        BY <3>1, <4>1, LeastOf
    <3> HIDE DEF p
    <3>3. found.procs = ReadSince(world.left)
      BY <1>8, <3>1 DEF TopologyInv, CalmInv
    <3>4. ReadSince(world.left \ {p}) = ReadSince(world.left) \cup DiscoverProcess(p)
      <4>1. Pid \ (world.left \ {p}) = (Pid \ world.left) \cup {p}
        BY <3>2
      <4> QED
        BY <4>1 DEF ReadSince
    <3>5. ReadSince(world.left)' = ReadSince(world'.left)
      BY <1>3, SameHostSameSight DEF ReadSince
    <3>6. found'.procs = found.procs \cup DiscoverProcess(p)
      BY <1>0, <3>1
    <3> QED
      BY <1>2, <1>5, <1>8, <2>1, <3>1, <3>3, <3>4, <3>5, <3>6 DEF CalmInv
  <2>4. CASE ReadServices
    <3>1. /\ reading = "processes" /\ world.left = {} /\ reading' = "services"
          /\ found' = [found EXCEPT !.services = DiscoverServices]
      BY <1>8, <2>4 DEF ReadServices
    <3>2. found.procs = ReadSince({})
      BY <1>8, <3>1 DEF TopologyInv, CalmInv
    <3>3. found'.procs = Sees.procs /\ found'.services = Sees.services
      BY <1>0, <3>1, <3>2 DEF Sees
    <3> QED
      BY <1>2, <1>4, <1>5, <1>8, <2>1, <3>1, <3>3 DEF CalmInv
  <2>5. CASE ReadEndpoints
    <3>1. /\ reading = "services" /\ reading' = "build"
          /\ found' = [found EXCEPT !.ifaces = DiscoverInterfaces, !.endpoints = DiscoverEndpoints]
      BY <2>5 DEF ReadEndpoints
    <3>2. found.procs = Sees.procs /\ found.services = Sees.services
      BY <1>8, <3>1 DEF TopologyInv, CalmInv
    <3>3. found' = Sees
      BY <1>0, <3>1, <3>2 DEF Sees
    <3> QED
      BY <1>2, <1>4, <1>5, <1>8, <2>1, <3>1, <3>3 DEF CalmInv
  <2> QED
    BY <2>2, <2>3, <2>4, <2>5
<1> QED
  BY <1>1, <1>6, <1>7, <1>8 DEF TopologyInv, CalmInv

LEMMA TableSettles ==
  ASSUME TopologyInv, Build
  PROVE  (CalmInv /\ TableIsStable)'
<1>1. PICK answer : /\ table' = ReconciledTable(AdmittedEntities(Built(found, answer)))
                    /\ news' = ChangedKeys(AdmittedEntities(Built(found, answer)))
  BY DEF Build, Built
<1>2. /\ reading = "build" /\ reading' = "rest" /\ found' = found /\ conf' = conf
      /\ calm' = IF calm < 3 THEN calm + 1 ELSE 3
  BY DEF Build
<1>3. calm \in 0 .. 3 /\ calm' \in 0 .. 3 /\ (calm' >= 2 => calm >= 1) /\ (calm' = 3 => calm >= 2)
  BY <1>2 DEF TopologyInv, CalmInv
<1>4. CalmInv'
  <2>1. HostIsTheSame
    BY CycleLeaves DEF HostIsTheSame, TopologyInv
  <2>2. Sees' = Sees
    BY <2>1, SameHostSameSight
  <2>3. ASSUME calm' >= 2 PROVE MadeOf(Sees)'
    <3>1. found = Sees
      BY <1>2, <1>3, <2>3 DEF TopologyInv, CalmInv
    <3>2. \A f : Built(f, answer)' = Built(f, answer)
      BY <1>2 DEF Built, AddServices, AddContainers, EnrichContainers, PodsFrom, AddRuntime, AddHost, AddCloud,
         AddPods, AddInterfaces, AddEndpoints, AddFilesystems, AddProcesses, StructuralPIDs
    <3>3. \A C : AdmittedEntities(C)' = AdmittedEntities(C)
      BY <1>2 DEF AdmittedEntities
    <3> QED
      BY <1>1, <2>2, <3>1, <3>2, <3>3 DEF MadeOf
  <2> QED
    BY <1>2, <1>3, <2>3 DEF CalmInv
<1>5. \A k : Twins(k)' = Twins(k)
  BY <1>2 DEF Twins
<1>6. StableHostIsSilent'
  <2> SUFFICES ASSUME calm' = 3, NEW k \in news' PROVE Twins(k)' \/ (conf'.docker /\ k[1] = "container")
    BY DEF StableHostIsSilent
  <2>1. found = Sees /\ MadeOf(Sees)
    BY <1>2, <1>3 DEF TopologyInv, CalmInv
  <2>2. PICK a : table = ReconciledTable(AdmittedEntities(Built(found, a)))
    BY <2>1 DEF MadeOf
  <2>3. k \in ChangedKeys(AdmittedEntities(Built(found, answer)))
    BY <1>1
  <2>4. Twins(k) \/ (conf.docker /\ k[1] = "container")
    BY <2>2, <2>3, SilentButForTwins DEF TopologyInv
  <2> QED
    BY <1>2, <1>5, <2>4
<1>7. ShedInOrder'
  <2> DEFINE K == AdmittedEntities(Built(found, answer))
  <2>1. DOMAIN table' = {c.key : c \in K}
    BY <1>1, BuiltKeys
  <2> SUFFICES ASSUME NEW k \in DOMAIN table', k[1] = "process",
                      NEW s \in found.services, s.name \notin conf.excluded
               PROVE  \/ Key("service", s.name) \in DOMAIN table'
                      \/ Cardinality({q \in DOMAIN table' : q[1] = "service"}) = conf.perKind
    BY <1>2 DEF ShedInOrder
  <2>2. PICK p \in K : p.key = k
    BY <2>1
  <2>3. K = AdmittedEntities(Built(found, answer)) /\ p.key[1] = "process"
    BY <2>2
  <2> HIDE DEF K
  <2>4. \/ Key("service", s.name) \in {c.key : c \in K}
        \/ Cardinality({q \in {c.key : c \in K} : q[1] = "service"}) = conf.perKind
    BY <2>3, ServicesAreShedLast DEF TopologyInv
  <2> QED
    BY <2>1, <2>4
<1> QED
  BY <1>4, <1>6, <1>7 DEF TableIsStable

LEMMA CalmSteps == TopologyInv /\ [TopologyNext]_topologyVars => (CalmInv /\ TableIsStable)'
<1> SUFFICES ASSUME TopologyInv, [TopologyNext]_topologyVars PROVE (CalmInv /\ TableIsStable)'
  OBVIOUS
<1>1. CASE WorldMoves
  <2>1. conf' = conf /\ reading' = reading /\ found' = found /\ table' = table /\ news' = news /\ calm' = 0
    BY <1>1 DEF WorldMoves
  <2>2. ShedInOrder'
    BY <2>1 DEF TopologyInv, TableIsStable, ShedInOrder
  <2> QED
    BY <2>1, <2>2 DEF CalmInv, TableIsStable, StableHostIsSilent
<1>2. CASE UNCHANGED topologyVars
  <2>1. UNCHANGED <<conf, world, reading, found, table, news, calm>>
    BY <1>2 DEF topologyVars
  <2>2. HostIsTheSame
    BY <2>1 DEF HostIsTheSame
  <2>3. Sees' = Sees /\ ReadSince(world.left)' = ReadSince(world.left)
    BY <2>1, <2>2, SameHostSameSight DEF ReadSince
  <2>4. calm >= 2 => MadeOf(Sees)'
    BY <2>1, <2>2, SameTable DEF TopologyInv, CalmInv
  <2>5. CalmInv'
    BY <2>1, <2>3, <2>4 DEF TopologyInv, CalmInv
  <2>6. \A k : Twins(k)' = Twins(k)
    BY <2>1 DEF Twins
  <2>7. TableIsStable'
    BY <2>1, <2>6 DEF TopologyInv, TableIsStable, StableHostIsSilent, ShedInOrder
  <2> QED
    BY <2>5, <2>7
<1>3. CASE BeginCycle \/ ReadProcess \/ ReadServices \/ ReadEndpoints
  BY <1>3, CalmGrows
<1>4. CASE Build
  BY <1>4, TableSettles
<1> QED
  BY <1>1, <1>2, <1>3, <1>4 DEF TopologyNext

LEMMA CalmBegins == TopologyInit => CalmInv /\ TableIsStable
<1> SUFFICES ASSUME TopologyInit PROVE CalmInv /\ TableIsStable
  OBVIOUS
<1>1. calm = 0 /\ table = <<>> /\ news = {}
  BY DEF TopologyInit
<1>2. DOMAIN table = {}
  BY <1>1
<1> QED
  BY <1>1, <1>2 DEF CalmInv, TableIsStable, StableHostIsSilent, ShedInOrder

\* (Topology.TableIsStable.)  Whatever a host holds, once it stands still the table has no more
\* news after three cycles, but for twins and the daemon's own words; and no process is tracked
\* in the place of a service.
THEOREM TablesSettle == TopologySpec => []TableIsStable
<1>1. TopologyInit => TopologyInv
  BY SceneBegins, SightBegins, CountsBegin, CalmBegins DEF TopologyInv
<1>2. TopologyInv /\ [TopologyNext]_topologyVars => TopologyInv'
  BY SceneSteps, SightSteps, CountsStep, CalmSteps DEF TopologyInv
<1>3. TopologyInv => TableIsStable
  BY DEF TopologyInv
<1> QED
  BY <1>1, <1>2, <1>3, PTL DEF TopologySpec

=============================================================================
