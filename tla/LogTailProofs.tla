------------------------------ MODULE LogTailProofs ---------------------------
(***************************************************************************)
(* What the reader of log files delivers, for every set of files, window,  *)
(* batch and number of lines and rotations: the records hold, file by      *)
(* file, the lines that were read, in order; no line that counts is read   *)
(* twice, and none that was passed is missing (LinesAreKept).              *)
(*                                                                         *)
(* The argument.  A file is lines laid out one after another, each with    *)
(* its number, and at most half a line at the end (Lies).  A read delivers *)
(* pieces of its window, each another, and all that lies between the place *)
(* it began at and the place it stopped at (Reads).  What is known of a    *)
(* file (Known) says of the lines that count: each came once; what came    *)
(* and is still there was passed; what was passed has come; and the place  *)
(* is never inside a line.  A read moves that place, the writer only adds  *)
(* behind it, and a rotation begins anew.  The file may change between its *)
(* stat and its read: the place is then further back than what was read    *)
(* (KnownBack), and what a truncated file gave counts for nothing          *)
(* (KnownMore).                                                            *)
(***************************************************************************)
EXTENDS LogTail, FiniteSetTheorems, SequenceTheorems, NumberSets, TLAPS

-----------------------------------------------------------------------------
(* The aggregation: what goes in as lines comes out as records. *)

Bytes == Seq(Int)

\* An aggregation: only one that was decided for has an open record.
MlFile == {st \in [decided : BOOLEAN, aggregate : BOOLEAN, sampled : Nat, matched : Nat, pending : Seq(Bytes)] :
             st.pending # <<>> => st.decided /\ st.aggregate}
Outcome == [st : MlFile, out : Seq(Seq(Bytes))]

\* The bytes of the records that went out and of the one that is open.
BytesOf(out, pending) == FlattenSeq(FlattenSeq(out)) \o FlattenSeq(pending)

\* One sequence alone, joined, is itself.
LEMMA FlattenOne == ASSUME NEW T, NEW x \in Seq(T) PROVE FlattenSeq(<<x>>) = x
<1>1. <<>> \in Seq(Seq(T)) /\ Append(<<>>, x) = <<x>> /\ <<>> \o x = x
  OBVIOUS
<1>2. FlattenSeq(Append(<<>>, x)) = FlattenSeq(<<>>) \o x
  BY <1>1, FlattenAppends
<1> QED
  BY <1>1, <1>2, FlattenNone

\* Closing the open record puts out all of it.
LEMMA FlushedIs ==
  ASSUME NEW st \in MlFile
  PROVE  Flushed(st) \in Seq(Seq(Bytes)) /\ FlattenSeq(Flushed(st)) = st.pending /\ st.pending \in Seq(Bytes)
<1>1. st.pending \in Seq(Bytes)
  BY DEF MlFile
<1>2. CASE st.pending = <<>>
  <2>1. Flushed(st) = <<>>
    BY <1>2 DEF Flushed
  <2> QED
    BY <1>2, <2>1, FlattenNone
<1>3. CASE st.pending # <<>>
  <2>1. Flushed(st) = <<st.pending>>
    BY <1>3 DEF Flushed
  <2>2. <<st.pending>> \in Seq(Seq(Bytes))
    BY <1>1
  <2> QED
    BY <1>1, <2>1, <2>2, FlattenOne
<1> QED
  BY <1>2, <1>3

\* What goes out after what went out.
LEMMA BytesGoOut ==
  ASSUME NEW out \in Seq(Seq(Bytes)), NEW more \in Seq(Seq(Bytes))
  PROVE  /\ out \o more \in Seq(Seq(Bytes))
         /\ FlattenSeq(FlattenSeq(out \o more)) = FlattenSeq(FlattenSeq(out)) \o FlattenSeq(FlattenSeq(more))
         /\ FlattenSeq(FlattenSeq(out)) \in Bytes /\ FlattenSeq(FlattenSeq(more)) \in Bytes
<1>1. FlattenSeq(out) \in Seq(Bytes) /\ FlattenSeq(more) \in Seq(Bytes)
  BY FlattenHolds
<1>2. FlattenSeq(out \o more) = FlattenSeq(out) \o FlattenSeq(more)
  BY FlattenJoins
<1>3. FlattenSeq(FlattenSeq(out) \o FlattenSeq(more)) = FlattenSeq(FlattenSeq(out)) \o FlattenSeq(FlattenSeq(more))
  BY <1>1, FlattenJoins DEF Bytes
<1>4. FlattenSeq(FlattenSeq(out)) \in Bytes /\ FlattenSeq(FlattenSeq(more)) \in Bytes
  BY <1>1, FlattenHolds DEF Bytes
<1>5. out \o more \in Seq(Seq(Bytes))
  OBVIOUS
<1> QED
  BY <1>2, <1>3, <1>4, <1>5

\* A line makes the bytes more by its own.
LEMMA AddKeeps ==
  ASSUME NEW acc \in Outcome, NEW t \in Bytes, NEW windowOver \in BOOLEAN
  PROVE  /\ Add(acc, t, windowOver) \in Outcome
         /\ BytesOf(Add(acc, t, windowOver).out, Add(acc, t, windowOver).st.pending)
              = BytesOf(acc.out, acc.st.pending) \o t
<1> DEFINE st == acc.st
           out == acc.out
           r == Add(acc, t, windowOver)
           ff == FlattenSeq(FlattenSeq(out))
           fp == FlattenSeq(st.pending)
<1>1. /\ st \in MlFile /\ out \in Seq(Seq(Bytes)) /\ st.pending \in Seq(Bytes)
      /\ st.decided \in BOOLEAN /\ st.aggregate \in BOOLEAN /\ st.sampled \in Nat /\ st.matched \in Nat
      /\ st.pending # <<>> => st.decided /\ st.aggregate
  BY DEF Outcome, MlFile
<1>2. /\ ff \in Bytes /\ fp \in Bytes /\ <<t>> \in Seq(Bytes) /\ FlattenSeq(<<t>>) = t
      /\ <<<<t>>>> \in Seq(Seq(Bytes)) /\ FlattenSeq(<<<<t>>>>) = <<t>>
  <2>1. ff \in Bytes
    BY <1>1, BytesGoOut
  <2>2. fp \in Bytes
    BY <1>1, FlattenHolds DEF Bytes
  <2>3. <<t>> \in Seq(Bytes) /\ <<<<t>>>> \in Seq(Seq(Bytes))
    OBVIOUS
  <2>4. FlattenSeq(<<t>>) = t
    BY FlattenOne DEF Bytes
  <2>5. FlattenSeq(<<<<t>>>>) = <<t>>
    BY <2>3, FlattenOne
  <2> QED
    BY <2>1, <2>2, <2>3, <2>4, <2>5
<1>3. Append(out, <<t>>) = out \o <<<<t>>>> /\ Append(out, <<t>>) \in Seq(Seq(Bytes))
  BY <1>1, <1>2
\* A line that is a record of its own.
<1>4. ASSUME st.pending = <<>>, r.out = Append(out, <<t>>), r.st.pending = <<>>
      PROVE  BytesOf(r.out, r.st.pending) = BytesOf(out, st.pending) \o t
  <2> HIDE DEF r, st, out, ff, fp
  <2>1. FlattenSeq(FlattenSeq(r.out)) = ff \o t
    <3>1. FlattenSeq(FlattenSeq(out \o <<<<t>>>>)) = ff \o FlattenSeq(FlattenSeq(<<<<t>>>>))
      BY <1>1, <1>2, BytesGoOut DEF ff
    <3>2. FlattenSeq(FlattenSeq(<<<<t>>>>)) = t
      BY <1>2
    <3>3. r.out = out \o <<<<t>>>>
      BY <1>3, <1>4
    <3> QED
      BY <3>1, <3>2, <3>3
  <2>2. FlattenSeq(r.st.pending) = <<>> /\ FlattenSeq(st.pending) = <<>>
    BY <1>4, FlattenNone
  <2>3. (ff \o t) \o <<>> = (ff \o <<>>) \o t
    BY <1>2 DEF Bytes
  <2> QED
    BY <2>1, <2>2, <2>3 DEF BytesOf, ff
<1>5. CASE ~st.decided
  <2> DEFINE d == Detected(st, t, windowOver)
  <2>1. st.pending = <<>>
    BY <1>1, <1>5
  <2>2. r = [st |-> d, out |-> Append(out, <<t>>)]
    BY <1>5 DEF Add
  <2>3. d \in MlFile /\ d.pending = <<>>
    <3> DEFINE sampled == st.sampled + 1
               matched == st.matched + IF RecordStarts(t) THEN 1 ELSE 0
               decided == sampled >= DetectSamples \/ windowOver
    <3>1. sampled \in Nat /\ matched \in Nat
      BY <1>1
    <3>2. d = [st EXCEPT !.sampled = IF decided THEN 0 ELSE sampled, !.matched = IF decided THEN 0 ELSE matched,
                         !.decided = decided, !.aggregate = decided /\ 2 * matched >= sampled]
      BY DEF Detected
    <3> HIDE DEF sampled, matched
    <3>3. decided \in BOOLEAN /\ (decided /\ 2 * matched >= sampled) \in BOOLEAN
      OBVIOUS
    <3> HIDE DEF decided, d
    <3> DEFINE aggregate == decided /\ 2 * matched >= sampled
    <3>4. aggregate \in BOOLEAN
      BY <3>3
    <3> HIDE DEF aggregate
    <3>5. d = [st EXCEPT !.sampled = IF decided THEN 0 ELSE sampled, !.matched = IF decided THEN 0 ELSE matched,
                         !.decided = decided, !.aggregate = aggregate]
      BY <3>2 DEF aggregate
    <3>6. /\ d \in [decided : BOOLEAN, aggregate : BOOLEAN, sampled : Nat, matched : Nat, pending : Seq(Bytes)]
          /\ d.pending = st.pending
      BY <1>1, <3>1, <3>3, <3>4, <3>5 DEF MlFile
    <3> QED
      BY <2>1, <3>6 DEF MlFile
  <2> HIDE DEF d, r, st, out
  <2>4. r \in Outcome /\ r.out = Append(out, <<t>>) /\ r.st = d
    BY <1>3, <2>2, <2>3 DEF Outcome
  <2> QED
    BY <1>4, <2>1, <2>3, <2>4 DEF r, st, out
<1>6. CASE st.decided /\ ~st.aggregate
  <2>1. st.pending = <<>>
    BY <1>1, <1>6
  <2>2. r = [acc EXCEPT !.out = Append(out, <<t>>)]
    BY <1>6 DEF Add
  <2>3. r \in Outcome /\ r.out = Append(out, <<t>>) /\ r.st = st
    <3> HIDE DEF r
    <3> QED
      BY <1>3, <2>2 DEF Outcome
  <2> HIDE DEF r, st, out
  <2> QED
    BY <1>4, <2>1, <2>3 DEF r, st, out
<1>7. CASE st.decided /\ st.aggregate /\ Opens(st, t)
  <2> DEFINE open == [st EXCEPT !.pending = <<t>>]
  <2>1. r = [st |-> open, out |-> out \o Flushed(st)]
    BY <1>7 DEF Add
  <2>2. open \in MlFile /\ open.pending = <<t>>
    BY <1>2, <1>7 DEF MlFile, Outcome
  <2>3. Flushed(st) \in Seq(Seq(Bytes)) /\ FlattenSeq(Flushed(st)) = st.pending
    BY <1>1, FlushedIs
  <2> HIDE DEF open, r, st, out, ff, fp
  <2>4. r \in Outcome /\ r.out = out \o Flushed(st) /\ r.st.pending = <<t>>
    <3>1. out \o Flushed(st) \in Seq(Seq(Bytes))
      BY <1>1, <2>3, BytesGoOut
    <3> QED
      BY <2>1, <2>2, <3>1 DEF Outcome
  <2>5. FlattenSeq(FlattenSeq(r.out)) = ff \o fp
    BY <1>1, <2>3, <2>4, BytesGoOut DEF ff, fp
  <2>6. BytesOf(r.out, r.st.pending) = (ff \o fp) \o t
    BY <1>2, <2>4, <2>5 DEF BytesOf
  <2> QED
    BY <2>4, <2>6 DEF BytesOf, ff, fp, r, st, out
<1>8. CASE st.decided /\ st.aggregate /\ ~Opens(st, t)
  <2> DEFINE more == Append(st.pending, t)
  <2>1. r = [acc EXCEPT !.st.pending = more]
    BY <1>8 DEF Add
  <2>2. more \in Seq(Bytes) /\ FlattenSeq(more) = fp \o t
    <3>1. more \in Seq(Bytes)
      BY <1>1
    <3>2. FlattenSeq(more) = FlattenSeq(st.pending) \o t
      <4> DEFINE p == st.pending
      <4>1. p \in Seq(Seq(Int)) /\ t \in Seq(Int)
        BY <1>1 DEF Bytes
      <4> HIDE DEF p
      <4>2. FlattenSeq(Append(p, t)) = FlattenSeq(p) \o t
        BY <4>1, FlattenAppends
      <4> QED
        BY <4>2 DEF p
    <3> QED
      BY <3>1, <3>2
  <2> HIDE DEF more
  <2>3. r \in Outcome /\ r.out = out /\ r.st.pending = more
    <3> DEFINE s2 == [st EXCEPT !.pending = more]
    <3>1. s2 \in MlFile /\ s2.pending = more
      BY <1>8, <2>2 DEF MlFile, Outcome
    <3>2. r = [acc EXCEPT !.st = s2]
      BY <2>1 DEF Outcome
    <3> HIDE DEF s2, r
    <3> QED
      BY <3>1, <3>2 DEF Outcome
  <2> HIDE DEF r, st, out
  <2>4. BytesOf(r.out, r.st.pending) = ff \o (fp \o t)
    BY <2>2, <2>3 DEF BytesOf, ff
  <2>5. ff \o (fp \o t) = (ff \o fp) \o t
    BY <1>2 DEF Bytes
  <2> QED
    BY <2>3, <2>4, <2>5 DEF BytesOf, r, st, out
<1> QED
  BY <1>1, <1>5, <1>6, <1>7, <1>8


\* The lines of a read make it more by theirs.
LEMMA ProcessKeeps ==
  ASSUME NEW st \in MlFile, NEW lns \in Seq(Bytes), NEW windowOver \in BOOLEAN
  PROVE  /\ Process(st, lns, windowOver) \in Outcome
         /\ BytesOf(Process(st, lns, windowOver).out, Process(st, lns, windowOver).st.pending)
              = FlattenSeq(st.pending) \o FlattenSeq(lns)
<1> DEFINE base == [st |-> st, out |-> <<>>]
           n == Len(lns)
           P(it) == it = [s \in SUBSET DOMAIN lns |-> IF s = {} THEN base
                                                      ELSE Add(it[s \ {Max(s)}], lns[Max(s)], windowOver)]
           it0 == CHOOSE it : P(it)
           h == [p \in (1 .. n) \X Outcome |-> Add(p[2], lns[p[1]], windowOver)]
<1>1. Process(st, lns, windowOver) = it0[DOMAIN lns]
  BY DEF Process, FoldLeft, MapThenFoldSet
<1>2. n \in Nat /\ DOMAIN lns = 1 .. n /\ \A k \in 1 .. n : lns[k] \in Bytes
  OBVIOUS
<1>3. base \in Outcome /\ base.st = st /\ base.out = <<>>
  BY DEF Outcome
<1>4. \A p \in (1 .. n) \X Outcome : h[p] = Add(p[2], lns[p[1]], windowOver) /\ h[p] \in Outcome
  BY <1>2, AddKeeps
<1>5. h \in [(1 .. n) \X Outcome -> Outcome]
  BY <1>4
<1> HIDE DEF base, h, n
<1>6. /\ \E it \in [SUBSET (1 .. n) -> Outcome] :
            it = [s \in SUBSET (1 .. n) |-> IF s = {} THEN base ELSE h[<<Max(s), it[s \ {Max(s)}]>>]]
      /\ \A s \in SUBSET (1 .. n) : s # {} => Max(s) \in s
      /\ \A k \in 1 .. n : Max(1 .. k) = k /\ (1 .. k) \ {k} = 1 .. (k - 1)
  BY <1>2, <1>3, <1>5, LeftFoldExists
<1>7. PICK it \in [SUBSET (1 .. n) -> Outcome] :
        it = [s \in SUBSET (1 .. n) |-> IF s = {} THEN base ELSE h[<<Max(s), it[s \ {Max(s)}]>>]]
  BY <1>6
<1>8. P(it)
  <2>1. ASSUME NEW s \in SUBSET (1 .. n), s # {}
        PROVE  h[<<Max(s), it[s \ {Max(s)}]>>] = Add(it[s \ {Max(s)}], lns[Max(s)], windowOver)
    <3> DEFINE y == s \ {Max(s)}
               m == Max(s)
    <3>1. m \in 1 .. n /\ y \in SUBSET (1 .. n)
      BY <1>6, <2>1
    <3> HIDE DEF m, y
    <3>2. <<m, it[y]>> \in (1 .. n) \X Outcome
      BY <1>7, <3>1
    <3>3. h[<<m, it[y]>>] = Add(it[y], lns[m], windowOver)
      BY <1>4, <3>2
    <3> QED
      BY <3>3 DEF m, y
  <2> QED
    BY <1>2, <1>7, <2>1
<1>9. P(it0)
  <2> HIDE DEF P
  <2> QED
    BY <1>8
<1> HIDE DEF it0
<1> DEFINE f(k) == it0[1 .. k]
           told(k) == FlattenSeq(st.pending) \o FlattenSeq(SubSeq(lns, 1, k))
           G == {k \in 0 .. n : f(k) \in Outcome /\ BytesOf(f(k).out, f(k).st.pending) = told(k)}
<1>10. FlattenSeq(st.pending) \in Bytes /\ st.pending \in Seq(Bytes)
  BY FlattenHolds DEF MlFile, Bytes
<1>11. 0 \in G
  <2>1. 1 .. 0 = {} /\ {} \in SUBSET DOMAIN lns
    OBVIOUS
  <2>2. f(0) = base
    BY <1>9, <2>1
  <2>3. BytesOf(f(0).out, f(0).st.pending) = <<>> \o FlattenSeq(st.pending)
    BY <1>3, <2>2, FlattenNone DEF BytesOf
  <2>4. SubSeq(lns, 1, 0) = <<>>
    OBVIOUS
  <2>5. told(0) = FlattenSeq(st.pending) \o <<>>
    BY <2>4, FlattenNone
  <2>6. <<>> \o FlattenSeq(st.pending) = FlattenSeq(st.pending) \o <<>>
    BY <1>10 DEF Bytes
  <2> QED
    BY <1>2, <1>3, <2>2, <2>3, <2>5, <2>6
<1>12. ASSUME NEW k \in 1 .. n, k - 1 \in G PROVE k \in G
  <2>1. 1 .. k \in SUBSET DOMAIN lns /\ 1 .. k # {} /\ k \in 0 .. n
    BY <1>2
  <2>2. f(k) = Add(f(k - 1), lns[k], windowOver)
    <3> DEFINE s == 1 .. k
    <3>1. s \in SUBSET DOMAIN lns /\ s # {} /\ Max(s) = k /\ s \ {k} = 1 .. (k - 1)
      BY <1>6, <2>1
    <3> HIDE DEF s
    <3>2. it0[s] = Add(it0[s \ {Max(s)}], lns[Max(s)], windowOver)
      BY <1>9, <3>1
    <3>3. it0[s] = Add(it0[1 .. (k - 1)], lns[k], windowOver)
      BY <3>1, <3>2
    <3> QED
      BY <3>3 DEF s
  <2>3. f(k - 1) \in Outcome /\ BytesOf(f(k - 1).out, f(k - 1).st.pending) = told(k - 1)
    BY <1>12
  <2>4. f(k) \in Outcome /\ BytesOf(f(k).out, f(k).st.pending) = told(k - 1) \o lns[k]
    <3> HIDE DEF f, told
    <3> QED
      BY <1>2, <2>2, <2>3, AddKeeps
  <2>5. told(k) = told(k - 1) \o lns[k]
    <3> DEFINE s == SubSeq(lns, 1, k - 1)
               x == lns[k]
               pend == FlattenSeq(st.pending)
    <3>1. SubSeq(lns, 1, k) = Append(s, x) /\ s \in Seq(Bytes) /\ x \in Bytes
      BY <1>2 DEF n
    <3> HIDE DEF s, x, pend
    <3>2. FlattenSeq(Append(s, x)) = FlattenSeq(s) \o x /\ FlattenSeq(s) \in Bytes
      BY <3>1, FlattenAppends, FlattenHolds DEF Bytes
    <3>3. pend \o (FlattenSeq(s) \o x) = (pend \o FlattenSeq(s)) \o x
      <4>1. pend \in Seq(Int) /\ FlattenSeq(s) \in Seq(Int) /\ x \in Seq(Int)
        BY <1>10, <3>1, <3>2 DEF Bytes, pend
      <4> QED
        BY <4>1
    <3> QED
      BY <3>1, <3>2, <3>3 DEF s, x, pend
  <2> HIDE DEF f, told
  <2> QED
    BY <2>1, <2>4, <2>5
<1>13. n \in G
  <2>1. 0 .. n \subseteq G
    <3> HIDE DEF G
    <3> QED
      BY <1>2, <1>11, <1>12, UpInduction
  <2> HIDE DEF G
  <2> QED
    BY <1>2, <2>1
<1>14. SubSeq(lns, 1, n) = lns
  BY DEF n
<1> QED
  BY <1>1, <1>2, <1>13, <1>14

\* Closing a record for idleness moves its lines and changes none.
LEMMA FlushIdleKeeps ==
  ASSUME NEW acc \in Outcome, NEW idle \in BOOLEAN
  PROVE  /\ FlushIdle(acc, idle) \in Outcome
         /\ BytesOf(FlushIdle(acc, idle).out, FlushIdle(acc, idle).st.pending) = BytesOf(acc.out, acc.st.pending)
<1> DEFINE st == acc.st
           r == FlushIdle(acc, idle)
<1>1. CASE idle
  <2> DEFINE shut == [st EXCEPT !.pending = <<>>]
  <2>1. r = [st |-> shut, out |-> acc.out \o Flushed(st)]
    BY <1>1 DEF FlushIdle
  <2>2. st \in MlFile /\ acc.out \in Seq(Seq(Bytes))
    BY DEF Outcome
  <2>3. shut \in MlFile /\ shut.pending = <<>>
    <3>1. /\ st \in [decided : BOOLEAN, aggregate : BOOLEAN, sampled : Nat, matched : Nat, pending : Seq(Bytes)]
          /\ <<>> \in Seq(Bytes)
      BY <2>2 DEF MlFile
    <3> HIDE DEF st
    <3>2. /\ shut \in [decided : BOOLEAN, aggregate : BOOLEAN, sampled : Nat, matched : Nat, pending : Seq(Bytes)]
          /\ shut.pending = <<>>
      BY <3>1
    <3> QED
      BY <3>2 DEF MlFile
  <2>4. Flushed(st) \in Seq(Seq(Bytes)) /\ FlattenSeq(Flushed(st)) = st.pending
    BY <2>2, FlushedIs
  <2> HIDE DEF shut, r, st
  <2>5. /\ acc.out \o Flushed(st) \in Seq(Seq(Bytes))
        /\ FlattenSeq(FlattenSeq(acc.out \o Flushed(st))) = FlattenSeq(FlattenSeq(acc.out)) \o FlattenSeq(st.pending)
        /\ FlattenSeq(FlattenSeq(acc.out)) \in Bytes /\ FlattenSeq(st.pending) \in Bytes
    BY <2>2, <2>4, BytesGoOut
  <2>6. r \in Outcome /\ r.out = acc.out \o Flushed(st) /\ r.st.pending = <<>>
    BY <2>1, <2>3, <2>5 DEF Outcome
  <2>7. BytesOf(r.out, r.st.pending) = (FlattenSeq(FlattenSeq(acc.out)) \o FlattenSeq(st.pending)) \o <<>>
    BY <2>5, <2>6, FlattenNone DEF BytesOf
  <2>8. (FlattenSeq(FlattenSeq(acc.out)) \o FlattenSeq(st.pending)) \o <<>> = FlattenSeq(FlattenSeq(acc.out)) \o FlattenSeq(st.pending)
    BY <2>5 DEF Bytes
  <2> QED
    BY <2>6, <2>7, <2>8 DEF BytesOf, r, st
<1>2. CASE ~idle
  BY <1>2 DEF FlushIdle
<1> QED
  BY <1>1, <1>2

-----------------------------------------------------------------------------
(* The lines of a buffer. *)

\* The bounds are numbers.
LEMMA TailLimits ==
  /\ MaxBytesPerS \in Nat \ {0} /\ MaxBatch \in Nat \ {0} /\ MaxLines \in Nat
  /\ IsFiniteSet(Files) /\ Files \subseteq Nat /\ StartAtEnd \in BOOLEAN
<1>1. Files = 1 .. Cardinality(Files)
  BY TailAssumption
<1>2. Files \subseteq Nat
  <2>1. Cardinality(Files) \in Nat
    BY FS_CardinalityType, TailAssumption
  <2> QED
    BY <1>1, <2>1
<1> QED
  BY <1>2, TailAssumption

\* A part of a sequence.
LEMMA PartHolds ==
  ASSUME NEW T, NEW s \in Seq(T), NEW a \in 1 .. Len(s) + 1, NEW b \in (a - 1) .. Len(s)
  PROVE  /\ SubSeq(s, a, b) \in Seq(T) /\ Len(SubSeq(s, a, b)) = b - a + 1
         /\ \A i \in 1 .. b - a + 1 : SubSeq(s, a, b)[i] = s[a + i - 1]
         /\ SubSeq(s, a, b) = <<>> <=> b = a - 1
<1>1. Len(s) \in Nat /\ a \in Nat /\ b \in Nat /\ a >= 1 /\ a - 1 <= b /\ b <= Len(s)
  OBVIOUS
<1>2. \A i \in a .. b : s[i] \in T
  BY <1>1
<1>3. SubSeq(s, a, b) \in Seq(T) /\ Len(SubSeq(s, a, b)) = IF a <= b THEN b - a + 1 ELSE 0
  BY <1>1, <1>2
<1>4. Len(SubSeq(s, a, b)) = b - a + 1
  BY <1>1, <1>3
<1>5. \A i \in 1 .. b - a + 1 : SubSeq(s, a, b)[i] = s[a + i - 1]
  BY <1>1
<1>6. SubSeq(s, a, b) = <<>> <=> Len(SubSeq(s, a, b)) = 0
  <2> DEFINE q == SubSeq(s, a, b)
  <2>1. q \in Seq(T)
    BY <1>3
  <2> HIDE DEF q
  <2>2. q = <<>> <=> Len(q) = 0
    BY <2>1
  <2> QED
    BY <2>2 DEF q
<1>7. b - a + 1 = 0 <=> b = a - 1
  BY <1>1
<1> QED
  BY <1>3, <1>4, <1>5, <1>6, <1>7

\* Where a line begins in a buffer, and where its text ends.
FromOf(w, i) == IF i = 1 THEN 1 ELSE LineEnds(w)[i - 1] + 1
UptoOf(w, i) == IF i <= Len(LineEnds(w)) THEN LineEnds(w)[i] - 1 ELSE Len(w)

PartOf(u, s, a, b) == Len(u) = b - a + 1 /\ \A i \in 1 .. b - a + 1 : u[i] = s[a + i - 1]

\* SubSeq gives a part of a sequence.
LEMMA PartIs ==
  ASSUME NEW T, NEW s \in Seq(T), NEW a \in 1 .. Len(s) + 1, NEW b \in (a - 1) .. Len(s)
  PROVE  SubSeq(s, a, b) \in Seq(T) /\ PartOf(SubSeq(s, a, b), s, a, b)
BY PartHolds DEF PartOf

\* LineEnds: every line end of the buffer, from the first on.
LEMMA EndsAre ==
  ASSUME NEW w \in Seq(Int)
  PROVE  /\ LineEnds(w) \in Seq(1 .. Len(w))
         /\ \A i \in 1 .. Len(LineEnds(w)) : w[LineEnds(w)[i]] = LF
         /\ \A i, j \in 1 .. Len(LineEnds(w)) : i < j => LineEnds(w)[i] < LineEnds(w)[j]
         /\ \A p \in 1 .. Len(w) : w[p] = LF => \E i \in 1 .. Len(LineEnds(w)) : LineEnds(w)[i] = p
<1> DEFINE S == {i \in 1 .. Len(w) : w[i] = LF}
           e == LineEnds(w)
<1>1. IsFiniteSet(S) /\ S \subseteq Nat /\ S \subseteq 1 .. Len(w) /\ \A p \in S : w[p] = LF
  <2>1. 1 \in Int /\ Len(w) \in Int
    OBVIOUS
  <2> DEFINE D == 1 .. Len(w)
  <2>2. IsFiniteSet(D) /\ D \subseteq Nat /\ S \in SUBSET D
    BY <2>1, FS_Interval
  <2>3. \A p \in S : w[p] = LF
    OBVIOUS
  <2> HIDE DEF D
  <2> QED
    BY <2>2, <2>3, FS_Subset DEF D
<1>2. \A p \in 1 .. Len(w) : w[p] = LF => p \in S
  OBVIOUS
<1>3. e = InOrder(S)
  BY DEF LineEnds
<1> HIDE DEF e, S
<1>4. e \in Seq(S) /\ ToSet(e) = S /\ \A j, k \in 1 .. Len(e) : j < k => e[j] < e[k]
  BY <1>1, <1>3, OrderHolds
<1>5. /\ Len(e) \in Nat /\ DOMAIN e = 1 .. Len(e) /\ \A i \in 1 .. Len(e) : e[i] \in S
      /\ \A p \in S : \E i \in 1 .. Len(e) : e[i] = p
  BY <1>4 DEF ToSet
<1>6. e \in Seq(1 .. Len(w))
  <2>1. \A i \in 1 .. Len(e) : e[i] \in 1 .. Len(w)
    BY <1>1, <1>5
  <2>2. e = [i \in 1 .. Len(e) |-> e[i]]
    BY <1>4
  <2> DEFINE D == 1 .. Len(w)
  <2> HIDE DEF D
  <2>3. e \in [1 .. Len(e) -> D]
    BY <2>1, <2>2 DEF D
  <2>4. e \in Seq(D)
    BY <1>5, <2>3
  <2> QED
    BY <2>4 DEF D
<1> QED
  BY <1>1, <1>2, <1>4, <1>5, <1>6 DEF e

\* The lines of a buffer: one after the other, without the ends, and all that is in between.
LEMMA LinesLie ==
  ASSUME NEW w \in Seq(Int)
  PROVE  LET k == Len(LineEnds(w)) IN
         /\ k \in Nat
         /\ \A i \in 1 .. k + 1 :
              /\ FromOf(w, i) \in 1 .. Len(w) + 1 /\ UptoOf(w, i) \in (FromOf(w, i) - 1) .. Len(w)
              /\ \A p \in FromOf(w, i) .. UptoOf(w, i) : w[p] # LF
              /\ FromOf(w, i) # 1 => w[FromOf(w, i) - 1] = LF
              /\ i <= k => /\ UptoOf(w, i) + 1 \in 1 .. Len(w) /\ w[UptoOf(w, i) + 1] = LF
                           /\ FromOf(w, i + 1) = UptoOf(w, i) + 2
              /\ i = k + 1 => UptoOf(w, i) = Len(w)
         /\ FromOf(w, 1) = 1
         /\ \A i, j \in 1 .. k + 1 : i < j => UptoOf(w, i) < FromOf(w, j)
         /\ \A p \in 1 .. Len(w) : w[p] # LF => \E i \in 1 .. k + 1 : p \in FromOf(w, i) .. UptoOf(w, i)
<1> DEFINE e == LineEnds(w)
           k == Len(e)
           m == Len(w)
<1>1. /\ e \in Seq(1 .. m) /\ k \in Nat /\ m \in Nat /\ \A i \in 1 .. k : e[i] \in 1 .. m /\ w[e[i]] = LF
      /\ \A i, j \in 1 .. k : i < j => e[i] < e[j]
      /\ \A p \in 1 .. m : w[p] = LF => \E i \in 1 .. k : e[i] = p
  <2>1. e \in Seq(1 .. m) /\ m \in Nat
    BY EndsAre
  <2>2. k \in Nat /\ \A i \in 1 .. k : e[i] \in 1 .. m
    BY <2>1
  <2> QED
    BY <2>1, <2>2, EndsAre
<1>2. \A i \in 1 .. k + 1 : /\ FromOf(w, i) = (IF i = 1 THEN 1 ELSE e[i - 1] + 1)
                            /\ UptoOf(w, i) = (IF i <= k THEN e[i] - 1 ELSE m)
  BY DEF FromOf, UptoOf
<1> HIDE DEF e, k, m
<1>3. \A i \in 1 .. k + 1 : i = 1 \/ i - 1 \in 1 .. k
  BY <1>1
<1>4. \A i \in 1 .. k + 1 : FromOf(w, i) \in 1 .. m + 1 /\ UptoOf(w, i) \in (FromOf(w, i) - 1) .. m
  <2> SUFFICES ASSUME NEW i \in 1 .. k + 1 PROVE FromOf(w, i) \in 1 .. m + 1 /\ UptoOf(w, i) \in (FromOf(w, i) - 1) .. m
    OBVIOUS
  <2>1. CASE i = 1
    BY <1>1, <1>2, <2>1
  <2>2. CASE i # 1
    <3>1. i - 1 \in 1 .. k /\ (i <= k => i \in 1 .. k /\ i - 1 < i)
      BY <1>1, <1>3, <2>2
    <3>2. i <= k => e[i - 1] < e[i]
      BY <1>1, <3>1
    <3> QED
      BY <1>1, <1>2, <2>2, <3>1, <3>2
  <2> QED
    BY <2>1, <2>2
<1>5. ASSUME NEW i \in 1 .. k + 1, NEW p \in FromOf(w, i) .. UptoOf(w, i) PROVE w[p] # LF
  <2> SUFFICES ASSUME w[p] = LF PROVE FALSE
    OBVIOUS
  <2>1. p \in 1 .. m
    BY <1>1, <1>4
  <2>2. PICK j \in 1 .. k : e[j] = p
    BY <1>1, <2>1
  <2>3. i # 1 => i - 1 \in 1 .. k /\ e[i - 1] < e[j] /\ i - 1 < j
    <3> SUFFICES ASSUME i # 1 PROVE i - 1 \in 1 .. k /\ e[i - 1] < e[j] /\ i - 1 < j
      OBVIOUS
    <3>1. i - 1 \in 1 .. k /\ e[i - 1] < e[j]
      BY <1>1, <1>2, <1>3, <2>1, <2>2
    <3>2. ~(j <= i - 1)
      <4> SUFFICES ASSUME j < i - 1 \/ j = i - 1 PROVE FALSE
        BY <1>1, <3>1
      <4>1. j < i - 1 => e[j] < e[i - 1]
        BY <1>1, <2>2, <3>1
      <4>2. e[j] \in Nat /\ e[i - 1] \in Nat
        BY <1>1, <2>2, <3>1
      <4> QED
        BY <3>1, <4>1, <4>2
    <3> QED
      BY <1>1, <3>1, <3>2
  <2>4. i <= k => e[j] < e[i] /\ j < i
    <3> SUFFICES ASSUME i <= k PROVE e[j] < e[i] /\ j < i
      OBVIOUS
    <3>1. i \in 1 .. k /\ e[j] < e[i]
      BY <1>1, <1>2, <2>1, <2>2
    <3>2. ~(i <= j)
      <4> SUFFICES ASSUME i < j \/ i = j PROVE FALSE
        BY <1>1, <3>1
      <4>1. i < j => e[i] < e[j]
        BY <1>1, <2>2, <3>1
      <4>2. e[j] \in Nat /\ e[i] \in Nat
        BY <1>1, <2>2, <3>1
      <4> QED
        BY <3>1, <4>1, <4>2
    <3> QED
      BY <1>1, <3>1, <3>2
  <2> QED
    BY <1>1, <2>3, <2>4
<1>6. \A i \in 1 .. k + 1 : FromOf(w, i) # 1 => w[FromOf(w, i) - 1] = LF
  BY <1>1, <1>2, <1>3
<1>7. \A i \in 1 .. k : /\ UptoOf(w, i) + 1 \in 1 .. m /\ w[UptoOf(w, i) + 1] = LF
                        /\ FromOf(w, i + 1) = UptoOf(w, i) + 2
  <2> SUFFICES ASSUME NEW i \in 1 .. k
               PROVE  /\ UptoOf(w, i) + 1 \in 1 .. m /\ w[UptoOf(w, i) + 1] = LF
                      /\ FromOf(w, i + 1) = UptoOf(w, i) + 2
    OBVIOUS
  <2>1. UptoOf(w, i) = e[i] - 1 /\ e[i] \in 1 .. m /\ w[e[i]] = LF
    BY <1>1, <1>2
  <2>2. UptoOf(w, i) + 1 = e[i] /\ UptoOf(w, i) + 2 = e[i] + 1
    BY <1>1, <2>1
  <2> DEFINE l == i + 1
  <2>3. l \in 1 .. k + 1 /\ l # 1 /\ l - 1 = i
    BY <1>1
  <2> HIDE DEF l
  <2>4. FromOf(w, l) = e[i] + 1
    BY <1>2, <2>3
  <2> QED
    BY <2>1, <2>2, <2>4 DEF l
<1>8. UptoOf(w, k + 1) = m /\ FromOf(w, 1) = 1
  BY <1>1, <1>2
<1>9. ASSUME NEW i \in 1 .. k + 1, NEW j \in 1 .. k + 1, i < j PROVE UptoOf(w, i) < FromOf(w, j)
  <2>1. i \in 1 .. k /\ j - 1 \in 1 .. k /\ j # 1 /\ (i = j - 1 \/ i < j - 1)
    BY <1>1, <1>3, <1>9
  <2>2. e[i] \in Nat /\ e[j - 1] \in Nat /\ e[i] <= e[j - 1]
    BY <1>1, <2>1
  <2>3. UptoOf(w, i) = e[i] - 1 /\ FromOf(w, j) = e[j - 1] + 1
    BY <1>1, <1>2, <2>1
  <2> QED
    BY <2>2, <2>3
<1>10. ASSUME NEW p \in 1 .. m, w[p] # LF PROVE \E i \in 1 .. k + 1 : p \in FromOf(w, i) .. UptoOf(w, i)
  <2> DEFINE T == {i \in 1 .. k : p <= e[i]}
  <2>1. CASE T = {}
    <3>1. \A i \in 1 .. k : e[i] < p
      <4> SUFFICES ASSUME NEW i \in 1 .. k PROVE e[i] < p
        OBVIOUS
      <4>1. e[i] \in Nat /\ p \in Nat /\ ~(p <= e[i])
        BY <1>1, <2>1
      <4> QED
        BY <4>1
    <3>2. p \in FromOf(w, k + 1) .. UptoOf(w, k + 1) /\ k + 1 \in 1 .. k + 1
      <4> DEFINE l == k + 1
      <4>1. l \in 1 .. k + 1 /\ (l # 1 => l - 1 \in 1 .. k)
        BY <1>1
      <4> HIDE DEF l
      <4>2. FromOf(w, l) = IF l = 1 THEN 1 ELSE e[l - 1] + 1
        BY <1>2, <4>1
      <4>3. FromOf(w, l) \in Nat /\ FromOf(w, l) <= p
        BY <1>1, <3>1, <4>1, <4>2
      <4>4. UptoOf(w, l) = m
        BY <1>8 DEF l
      <4> QED
        BY <1>1, <4>1, <4>3, <4>4 DEF l
    <3> QED
      BY <3>2
  <2>2. CASE T # {}
    <3>1. T \subseteq Nat
      OBVIOUS
    <3>2. PICK i \in T : \A j \in T : i <= j
      <4> HIDE DEF T
      <4> QED
        BY <2>2, <3>1, SmallestIn
    <3>3. i \in 1 .. k /\ p < e[i]
      BY <1>1, <1>10, <3>2
    <3>4. i # 1 => i - 1 \in 1 .. k /\ e[i - 1] < p
      BY <1>1, <3>2, <3>3
    <3>5. p \in FromOf(w, i) .. UptoOf(w, i) /\ i \in 1 .. k + 1
      BY <1>1, <1>2, <3>3, <3>4
    <3> QED
      BY <3>5
  <2> QED
    BY <2>1, <2>2
<1> QED
  BY <1>1, <1>4, <1>5, <1>6, <1>7, <1>8, <1>9, <1>10 DEF e, k, m

\* What is left of a line without its CR.
LEMMA StrippedIs ==
  ASSUME NEW t \in Seq(Int)
  PROVE  /\ Stripped(t) \in Bytes /\ Len(Stripped(t)) \in {Len(t), Len(t) - 1}
         /\ \A i \in 1 .. Len(Stripped(t)) : Stripped(t)[i] = t[i]
         /\ Len(Stripped(t)) # Len(t) => t # <<>> /\ t[Len(t)] = CR
         /\ t # <<>> /\ t[Len(t)] = CR => Len(Stripped(t)) = Len(t) - 1
<1>1. CASE t # <<>> /\ t[Len(t)] = CR
  <2>1. Stripped(t) = Front(t)
    BY <1>1 DEF Stripped
  <2>2. Front(t) = SubSeq(t, 1, Len(t) - 1)
    BY DEF Front
  <2>3. /\ Len(t) \in Nat /\ Len(t) # 0 /\ SubSeq(t, 1, Len(t) - 1) \in Seq(Int)
        /\ Len(SubSeq(t, 1, Len(t) - 1)) = Len(t) - 1
        /\ \A i \in 1 .. Len(t) - 1 : SubSeq(t, 1, Len(t) - 1)[i] = t[i]
    <3>1. Len(t) \in Nat /\ Len(t) # 0
      BY <1>1
    <3> DEFINE b == Len(t) - 1
    <3>2. 1 \in 1 .. Len(t) + 1 /\ b \in (1 - 1) .. Len(t) /\ b - 1 + 1 = b /\ \A i \in 1 .. b : 1 + i - 1 = i
      BY <3>1
    <3> HIDE DEF b
    <3>3. /\ SubSeq(t, 1, b) \in Seq(Int) /\ Len(SubSeq(t, 1, b)) = b
          /\ \A i \in 1 .. b : SubSeq(t, 1, b)[i] = t[1 + i - 1]
      BY <3>2, PartHolds
    <3> QED
      BY <3>1, <3>2, <3>3 DEF b
  <2> QED
    BY <1>1, <2>1, <2>2, <2>3 DEF Bytes
<1>2. CASE ~(t # <<>> /\ t[Len(t)] = CR)
  BY <1>2 DEF Stripped, Bytes
<1> QED
  BY <1>1, <1>2

\* bufio.ScanLines gives them, without a CR at the end.
LEMMA ScanIs ==
  ASSUME NEW w \in Seq(Int)
  PROVE  LET k == Len(LineEnds(w)) IN
         /\ Scan(w) \in Seq(Bytes)
         /\ Len(Scan(w)) = IF FromOf(w, k + 1) <= Len(w) THEN k + 1 ELSE k
         /\ \A i \in 1 .. Len(Scan(w)) : Scan(w)[i] = Stripped(SubSeq(w, FromOf(w, i), UptoOf(w, i)))
<1> DEFINE e == LineEnds(w)
           k == Len(e)
           m == Len(w)
           piece(i) == SubSeq(w, FromOf(w, i), UptoOf(w, i))
           whole == [i \in 1 .. k |-> Stripped(piece(i))]
           rest == piece(k + 1)
<1>1. /\ k \in Nat /\ m \in Nat
      /\ \A i \in 1 .. k + 1 : FromOf(w, i) \in 1 .. m + 1 /\ UptoOf(w, i) \in (FromOf(w, i) - 1) .. m
      /\ UptoOf(w, k + 1) = m
  <2>1. k \in Nat /\ m \in Nat
    BY LinesLie
  <2>2. k + 1 \in 1 .. k + 1
    BY <2>1
  <2> QED
    BY <2>1, <2>2, LinesLie
<1>2. \A i \in 1 .. k + 1 : piece(i) \in Seq(Int) /\ Stripped(piece(i)) \in Bytes
  <2>1. \A i \in 1 .. k + 1 : piece(i) \in Seq(Int)
    <3> HIDE DEF k
    <3> QED
      BY <1>1
  <2> HIDE DEF piece
  <2> QED
    BY <2>1, StrippedIs
<1>3. Scan(w) = IF rest = <<>> THEN whole ELSE Append(whole, Stripped(rest))
  <2>1. ASSUME NEW i \in 1 .. k
        PROVE  SubSeq(w, IF i = 1 THEN 1 ELSE e[i - 1] + 1, e[i] - 1) = piece(i)
    <3>1. i <= k /\ i \in Int
      BY <1>1
    <3>2. UptoOf(w, i) = e[i] - 1
      BY <3>1 DEF UptoOf
    <3>3. FromOf(w, i) = IF i = 1 THEN 1 ELSE e[i - 1] + 1
      BY DEF FromOf
    <3> QED
      BY <3>2, <3>3
  <2>2. SubSeq(w, IF k + 1 = 1 THEN 1 ELSE e[k + 1 - 1] + 1, Len(w)) = rest
    <3>1. UptoOf(w, k + 1) = Len(w)
      BY <1>1
    <3> DEFINE l == k + 1
    <3> HIDE DEF l
    <3>2. FromOf(w, l) = IF l = 1 THEN 1 ELSE e[l - 1] + 1
      BY DEF FromOf
    <3>4. FromOf(w, k + 1) = IF k + 1 = 1 THEN 1 ELSE e[k + 1 - 1] + 1
      BY <3>2 DEF l
    <3> QED
      BY <3>1, <3>4, Zenon
  <2>3. Scan(w) = LET whole2 == [i \in 1 .. Len(e) |-> Stripped(SubSeq(w, IF i = 1 THEN 1 ELSE e[i - 1] + 1, e[i] - 1))]
                      rest2 == SubSeq(w, IF Len(e) + 1 = 1 THEN 1 ELSE e[Len(e) + 1 - 1] + 1, Len(w))
                  IN IF rest2 = <<>> THEN whole2 ELSE Append(whole2, Stripped(rest2))
    BY DEF Scan
  <2>4. [i \in 1 .. Len(e) |-> Stripped(SubSeq(w, IF i = 1 THEN 1 ELSE e[i - 1] + 1, e[i] - 1))] = whole
    BY <2>1
  <2> HIDE DEF whole, rest, e
  <2> QED
    BY <2>2, <2>3, <2>4 DEF e
<1>4. whole \in Seq(Bytes) /\ Len(whole) = k /\ \A i \in 1 .. k : whole[i] = Stripped(piece(i))
  <2>1. \A i \in 1 .. k : Stripped(piece(i)) \in Bytes
    BY <1>1, <1>2
  <2> HIDE DEF k, piece
  <2>2. whole \in [1 .. k -> Bytes] /\ \A i \in 1 .. k : whole[i] = Stripped(piece(i))
    BY <2>1
  <2> HIDE DEF whole
  <2> QED
    BY <1>1, <2>2
<1>5. rest = <<>> <=> ~(FromOf(w, k + 1) <= m)
  <2> DEFINE a == FromOf(w, k + 1)
  <2>1. a \in 1 .. Len(w) + 1 /\ m \in (a - 1) .. Len(w) /\ rest = SubSeq(w, a, m)
    <3>1. k + 1 \in 1 .. k + 1
      BY <1>1
    <3>2. a \in 1 .. m + 1 /\ UptoOf(w, k + 1) \in (a - 1) .. m /\ UptoOf(w, k + 1) = m
      <4> HIDE DEF k, m
      <4> QED
        BY <1>1, <3>1
    <3> QED
      BY <3>2
  <2> HIDE DEF a, rest, m
  <2>2. rest = <<>> <=> m = a - 1
    BY <2>1, PartHolds
  <2>3. m = Len(w) /\ m \in Nat
    BY DEF m
  <2> QED
    BY <2>1, <2>2, <2>3 DEF a
<1>6. Stripped(rest) \in Bytes
  BY <1>1, <1>2
<1> HIDE DEF whole, piece, k, m
<1>7. CASE rest = <<>>
  BY <1>3, <1>4, <1>5, <1>7 DEF k, m, piece
<1>8. CASE rest # <<>>
  <2>1. Scan(w) = Append(whole, Stripped(rest))
    BY <1>3, <1>8
  <2>2. /\ Scan(w) \in Seq(Bytes) /\ Len(Scan(w)) = k + 1 /\ \A i \in 1 .. k : Scan(w)[i] = whole[i]
        /\ Scan(w)[k + 1] = Stripped(rest)
    BY <1>1, <1>4, <1>6, <2>1
  <2>3. \A i \in 1 .. k + 1 : Scan(w)[i] = Stripped(piece(i))
    BY <1>1, <1>4, <2>2
  <2> QED
    BY <1>5, <1>8, <2>2, <2>3 DEF k, m, piece
<1> QED
  BY <1>7, <1>8

-----------------------------------------------------------------------------
(* What is known of a file, and where a read of it begins. *)

\* The lesser of two numbers.
LEMMA LesserOf ==
  ASSUME NEW a \in Int, NEW b \in Int
  PROVE  Min({a, b}) = IF a <= b THEN a ELSE b
<1> DEFINE S == {a, b}
<1>1. \E x \in S : \A y \in S : x <= y
  OBVIOUS
<1>2. Min(S) \in S /\ \A y \in S : Min(S) <= y
  BY <1>1 DEF Min
<1> QED
  BY <1>2

\* The count of a read: each line counts for its text and one byte.
LEMMA CountIs ==
  ASSUME NEW base \in Nat, NEW lns \in Seq(Bytes)
  PROVE  \E g \in [0 .. Len(lns) -> Nat] :
           /\ g[0] = base /\ \A k \in 1 .. Len(lns) : g[k] = g[k - 1] + Len(lns[k]) + 1
           /\ FoldLeft(LAMBDA n, t : n + Len(t) + 1, base, lns) = g[Len(lns)]
<1> DEFINE n == Len(lns)
           P(it) == it = [x \in SUBSET DOMAIN lns |-> IF x = {} THEN base
                                                      ELSE it[x \ {Max(x)}] + Len(lns[Max(x)]) + 1]
           it0 == CHOOSE it : P(it)
           h == [p \in (1 .. n) \X Nat |-> p[2] + Len(lns[p[1]]) + 1]
<1>1. FoldLeft(LAMBDA c, t : c + Len(t) + 1, base, lns) = it0[DOMAIN lns]
  BY DEF FoldLeft, MapThenFoldSet
<1>2. n \in Nat /\ DOMAIN lns = 1 .. n /\ \A k \in 1 .. n : lns[k] \in Bytes /\ Len(lns[k]) \in Nat
  <2>1. n \in Nat /\ DOMAIN lns = 1 .. n /\ \A k \in 1 .. n : lns[k] \in Bytes
    OBVIOUS
  <2> HIDE DEF n
  <2> QED
    BY <2>1 DEF Bytes
<1>3. \A p \in (1 .. n) \X Nat : h[p] = p[2] + Len(lns[p[1]]) + 1 /\ h[p] \in Nat
  <2> HIDE DEF n
  <2> QED
    BY <1>2
<1>4. h \in [(1 .. n) \X Nat -> Nat]
  BY <1>3
<1> HIDE DEF h, n
<1>5. /\ \E it \in [SUBSET (1 .. n) -> Nat] :
            it = [x \in SUBSET (1 .. n) |-> IF x = {} THEN base ELSE h[<<Max(x), it[x \ {Max(x)}]>>]]
      /\ \A x \in SUBSET (1 .. n) : x # {} => Max(x) \in x
      /\ \A k \in 1 .. n : Max(1 .. k) = k /\ (1 .. k) \ {k} = 1 .. (k - 1)
  <2> DEFINE V == Nat
  <2>1. base \in V /\ h \in [(1 .. n) \X V -> V]
    BY <1>4
  <2> HIDE DEF V
  <2>2. /\ \E it \in [SUBSET (1 .. n) -> V] :
              it = [x \in SUBSET (1 .. n) |-> IF x = {} THEN base ELSE h[<<Max(x), it[x \ {Max(x)}]>>]]
        /\ \A x \in SUBSET (1 .. n) : x # {} => Max(x) \in x
        /\ \A k \in 1 .. n : Max(1 .. k) = k /\ (1 .. k) \ {k} = 1 .. (k - 1)
    BY <1>2, <2>1, LeftFoldExists
  <2> QED
    BY <2>2 DEF V
<1>6. PICK it \in [SUBSET (1 .. n) -> Nat] :
        it = [x \in SUBSET (1 .. n) |-> IF x = {} THEN base ELSE h[<<Max(x), it[x \ {Max(x)}]>>]]
  BY <1>5
<1>7. P(it)
  <2>1. ASSUME NEW x \in SUBSET (1 .. n), x # {}
        PROVE  h[<<Max(x), it[x \ {Max(x)}]>>] = it[x \ {Max(x)}] + Len(lns[Max(x)]) + 1
    <3> DEFINE y == x \ {Max(x)}
               m == Max(x)
    <3>1. m \in 1 .. n /\ y \in SUBSET (1 .. n)
      BY <1>5, <2>1
    <3> HIDE DEF m, y
    <3>2. <<m, it[y]>> \in (1 .. n) \X Nat
      BY <1>6, <3>1
    <3>3. h[<<m, it[y]>>] = it[y] + Len(lns[m]) + 1
      BY <1>3, <3>2
    <3> QED
      BY <3>3 DEF m, y
  <2> QED
    BY <1>2, <1>6, <2>1
<1>8. P(it0)
  <2> HIDE DEF P
  <2> QED
    BY <1>7
<1> HIDE DEF it0
<1> DEFINE g == [k \in 0 .. n |-> it0[1 .. k]]
           G == {k \in 0 .. n : g[k] \in Nat /\ (k # 0 => g[k] = g[k - 1] + Len(lns[k]) + 1)}
<1>9. 0 \in G /\ g[0] = base
  <2>1. 1 .. 0 = {} /\ {} \in SUBSET DOMAIN lns
    OBVIOUS
  <2>2. it0[1 .. 0] = base
    BY <1>8, <2>1
  <2> QED
    BY <1>2, <2>2
<1>10. ASSUME NEW k \in 1 .. n, k - 1 \in G PROVE k \in G
  <2>1. 1 .. k \in SUBSET DOMAIN lns /\ 1 .. k # {} /\ k \in 0 .. n /\ k - 1 \in 0 .. n /\ k # 0
    BY <1>2
  <2>2. g[k] = g[k - 1] + Len(lns[k]) + 1
    <3> DEFINE x == 1 .. k
    <3>1. x \in SUBSET DOMAIN lns /\ x # {} /\ Max(x) = k /\ x \ {k} = 1 .. (k - 1)
      BY <1>5, <2>1
    <3> HIDE DEF x
    <3>2. it0[x] = it0[x \ {Max(x)}] + Len(lns[Max(x)]) + 1
      BY <1>8, <3>1
    <3>3. it0[x] = it0[1 .. (k - 1)] + Len(lns[k]) + 1
      BY <3>1, <3>2
    <3>4. g[k] = it0[1 .. k] /\ g[k - 1] = it0[1 .. (k - 1)]
      BY <2>1
    <3> QED
      BY <3>3, <3>4 DEF x
  <2>3. g[k - 1] \in Nat
    BY <1>10
  <2> HIDE DEF g
  <2> QED
    BY <1>2, <2>1, <2>2, <2>3
<1>11. \A k \in 0 .. n : g[k] \in Nat /\ (k # 0 => g[k] = g[k - 1] + Len(lns[k]) + 1)
  <2>1. 0 .. n \subseteq G
    <3> HIDE DEF G
    <3> QED
      BY <1>2, <1>9, <1>10, UpInduction
  <2> HIDE DEF g
  <2> QED
    BY <2>1
<1>12. g \in [0 .. n -> Nat] /\ g[n] = it0[DOMAIN lns]
  <2>1. \A k \in 0 .. n : it0[1 .. k] \in Nat
    BY <1>11
  <2>2. n \in 0 .. n
    BY <1>2
  <2> QED
    BY <1>2, <2>1, <2>2
<1>13. \A k \in 1 .. n : g[k] = g[k - 1] + Len(lns[k]) + 1
  <2>1. \A k \in 1 .. n : k \in 0 .. n /\ k # 0
    BY <1>2
  <2> HIDE DEF g
  <2> QED
    BY <1>11, <2>1
<1> HIDE DEF g
<1> QED
  BY <1>1, <1>9, <1>12, <1>13 DEF n

\* What is known of a file, before a read and while it is open.
Seen == [offset : Nat, size : Nat]
FileInv(f) ==
  /\ content[f] \in Bytes /\ state[f] \in Seen \cup {Unseen} /\ found[f] \in Nat \cup {None}
  /\ state[f] # Unseen => /\ state[f].offset <= state[f].size
                          /\ f \notin replaced => state[f].size <= Size(f)
  /\ f \in swapped => f \in replaced
  /\ found[f] # None => /\ f \notin swapped => found[f] <= Size(f)
                        /\ f \notin replaced /\ state[f] # Unseen => state[f].size <= found[f]

\* A file that is open, and one that still has the place the read begins at.
Ready(f) == FileInv(f) /\ found[f] # None
Within(f) == Ready(f) /\ Seek(f) <= Size(f)

\* The bytes of the file that it has passed.
Base(f) == IF FirstSight(f) \/ f \in replaced THEN 0 ELSE state[f].offset

\* How far a read has read.
Reach(f) == Min({ReadPath(f).offset, Size(f)})

\* What was passed of a file is there.
LEMMA BaseIs ==
  ASSUME NEW f \in Files, FileInv(f)
  PROVE  Size(f) \in Nat /\ Size(f) = Len(content[f]) /\ Base(f) \in 0 .. Size(f)
<1>1. Size(f) \in Nat /\ Size(f) = Len(content[f])
  BY DEF FileInv, Size, Bytes
<1>2. CASE FirstSight(f) \/ f \in replaced
  BY <1>1, <1>2 DEF Base
<1>3. CASE ~FirstSight(f) /\ f \notin replaced
  <2>1. /\ state[f].offset \in Nat /\ state[f].size \in Nat /\ state[f].offset <= state[f].size
        /\ state[f].size <= Size(f)
    BY <1>3 DEF FileInv, Seen, FirstSight
  <2> QED
    BY <1>1, <1>3, <2>1 DEF Base
<1> QED
  BY <1>2, <1>3

\* A read begins within what was found of the file, at or past what was passed of it.
LEMMA SeekFound ==
  ASSUME NEW f \in Files, Ready(f)
  PROVE  /\ FileInv(f) /\ Size(f) \in Nat /\ found[f] \in Nat /\ Seek(f) \in 0 .. found[f] /\ Base(f) \in 0 .. Seek(f)
         /\ f \notin swapped => Within(f) /\ found[f] <= Size(f)
         /\ f \notin replaced /\ ~FirstSight(f) => Seek(f) = Base(f)
<1>1. Size(f) \in Nat /\ found[f] \in Nat /\ FileInv(f) /\ (f \notin swapped => found[f] <= Size(f))
  BY DEF Ready, FileInv, Size, Bytes
<1>2. /\ Seek(f) \in 0 .. found[f] /\ Base(f) \in 0 .. Seek(f)
      /\ f \notin replaced /\ ~FirstSight(f) => Seek(f) = Base(f)
  <2>1. CASE state[f] = Unseen
    BY <1>1, <2>1 DEF Seek, Base, FirstSight
  <2>2. CASE state[f] # Unseen
    <3>1. /\ state[f].offset \in Nat /\ state[f].size \in Nat /\ state[f].offset <= state[f].size
          /\ f \notin replaced => state[f].size <= found[f]
      BY <1>1, <2>2 DEF Ready, FileInv, Seen
    <3>2. /\ Seek(f) = IF found[f] < state[f].size THEN 0 ELSE state[f].offset
          /\ Base(f) = IF f \in replaced THEN 0 ELSE state[f].offset
      BY <2>2 DEF Seek, Base, FirstSight
    <3> QED
      BY <1>1, <2>2, <3>1, <3>2
  <2> QED
    BY <2>1, <2>2
<1>3. f \notin swapped => Seek(f) <= Size(f)
  BY <1>1, <1>2
<1> QED
  BY <1>1, <1>2, <1>3 DEF Within

\* A read that begins within the file.
LEMMA SeekIs ==
  ASSUME NEW f \in Files, Within(f)
  PROVE  /\ Ready(f) /\ Size(f) \in Nat /\ Seek(f) \in 0 .. Size(f) /\ Base(f) \in 0 .. Seek(f)
         /\ f \notin replaced /\ ~FirstSight(f) => Seek(f) = Base(f)
<1>1. Ready(f) /\ Seek(f) <= Size(f)
  BY DEF Within
<1> QED
  BY <1>1, SeekFound

\* The window of a read is that part of the file.
LEMMA WindowIs ==
  ASSUME NEW f \in Files, Ready(f)
  PROVE  /\ Window(f) \in Bytes /\ Len(Window(f)) \in Nat
         /\ Within(f) => Seek(f) + Len(Window(f)) <= Size(f)
         /\ ~Within(f) => Window(f) = <<>>
         /\ \A i \in 1 .. Len(Window(f)) : Window(f)[i] = content[f][Seek(f) + i]
<1> DEFINE s == Seek(f)
           u == Upto(f)
           b == Min({s + MaxBytesPerS, u})
<1>1. /\ s \in Nat /\ s <= found[f] /\ found[f] \in Nat /\ Size(f) \in Nat
      /\ content[f] \in Seq(Int) /\ Size(f) = Len(content[f])
  <2>1. s \in 0 .. found[f] /\ found[f] \in Nat /\ Size(f) \in Nat /\ FileInv(f)
    BY SeekFound
  <2> QED
    BY <2>1 DEF FileInv, Bytes, Size
<1>2. u \in Nat /\ u <= Size(f) /\ (s <= Size(f) => s <= u)
  <2>1. Min({found[f], Size(f)}) = IF found[f] <= Size(f) THEN found[f] ELSE Size(f)
    BY <1>1, LesserOf
  <2>2. u = IF f \in Wide THEN Min({found[f], Size(f)}) ELSE Size(f)
    BY DEF Upto
  <2> HIDE DEF u, s
  <2> QED
    BY <1>1, <2>1, <2>2
<1>3. s + MaxBytesPerS \in Int /\ u \in Int /\ s + MaxBytesPerS >= s
  BY <1>1, <1>2, TailLimits
<1>4. b = IF s + MaxBytesPerS <= u THEN s + MaxBytesPerS ELSE u
  <2> HIDE DEF s, u
  <2> QED
    BY <1>3, LesserOf
<1>5. Window(f) = SubSeq(content[f], s + 1, b)
  BY DEF Window
<1>6. Within(f) <=> s <= Size(f)
  BY DEF Within
<1> HIDE DEF b, s, u
<1>7. CASE s <= Size(f)
  <2>1. b \in s .. Size(f)
    BY <1>1, <1>2, <1>3, <1>4, <1>7
  <2> DEFINE a == s + 1
  <2>2. a \in 1 .. Len(content[f]) + 1 /\ b \in (a - 1) .. Len(content[f]) /\ b - a + 1 = b - s
    BY <1>1, <2>1
  <2>3. \A i \in 1 .. b - s : a + i - 1 = s + i
    BY <1>1, <2>1
  <2> HIDE DEF a
  <2>4. /\ SubSeq(content[f], a, b) \in Seq(Int) /\ Len(SubSeq(content[f], a, b)) = b - a + 1
        /\ \A i \in 1 .. b - a + 1 : SubSeq(content[f], a, b)[i] = content[f][a + i - 1]
    BY <1>1, <2>2, PartHolds
  <2>5. /\ Window(f) \in Seq(Int) /\ Len(Window(f)) = b - s
        /\ \A i \in 1 .. b - s : Window(f)[i] = content[f][s + i]
    BY <1>5, <2>2, <2>3, <2>4 DEF a
  <2>6. b - s \in Nat /\ s + (b - s) <= Size(f)
    BY <1>1, <2>1
  <2> QED
    BY <1>6, <1>7, <2>5, <2>6 DEF Bytes, s
<1>8. CASE ~(s <= Size(f))
  <2>1. b \in Int /\ b < s + 1
    BY <1>1, <1>2, <1>3, <1>4, <1>8
  <2>2. SubSeq(content[f], s + 1, b) = <<>>
    <3> DEFINE c == content[f]
               a == s + 1
    <3>1. c \in Seq(Int) /\ a \in Int /\ b < a
      BY <1>1, <2>1
    <3> HIDE DEF c, a
    <3>2. SubSeq(c, a, b) = <<>>
      BY <2>1, <3>1
    <3> QED
      BY <3>2 DEF c, a
  <2>3. Window(f) = <<>>
    BY <1>5, <2>2
  <2> DEFINE w == Window(f)
  <2>4. w \in Seq(Int) /\ Len(w) = 0 /\ 1 .. Len(w) = {}
    BY <2>3
  <2> QED
    BY <1>6, <1>8, <2>3, <2>4 DEF Bytes
<1> QED
  BY <1>7, <1>8

\* The first lines of a read.
LEMMA FirstOnes ==
  ASSUME NEW T, NEW lns \in Seq(T), NEW k \in Nat
  PROVE  \E r \in 0 .. Len(lns) :
           /\ r = Min({Len(lns), k}) /\ r <= k
           /\ SubSeq(lns, 1, r) \in Seq(T) /\ Len(SubSeq(lns, 1, r)) = r
           /\ \A i \in 1 .. r : SubSeq(lns, 1, r)[i] = lns[i]
<1> DEFINE r == Min({Len(lns), k})
<1>1. r \in 0 .. Len(lns) /\ r <= k
  <2>1. Len(lns) \in Nat /\ Len(lns) \in Int /\ k \in Int
    OBVIOUS
  <2>2. r = IF Len(lns) <= k THEN Len(lns) ELSE k
    BY <2>1, LesserOf
  <2> QED
    BY <2>1, <2>2
<1> HIDE DEF r
<1>2. 1 \in 1 .. Len(lns) + 1 /\ r \in (1 - 1) .. Len(lns) /\ r - 1 + 1 = r /\ \A i \in 1 .. r : 1 + i - 1 = i
  BY <1>1
<1>3. /\ SubSeq(lns, 1, r) \in Seq(T) /\ Len(SubSeq(lns, 1, r)) = r - 1 + 1
      /\ \A i \in 1 .. r - 1 + 1 : SubSeq(lns, 1, r)[i] = lns[1 + i - 1]
  BY <1>2, PartHolds
<1> QED
  BY <1>1, <1>2, <1>3 DEF r

-----------------------------------------------------------------------------
(* What a read yields. *)

\* Where the complete lines of a window end.
LastEnd(w) == IF LineEnds(w) = <<>> THEN 0 ELSE Last(LineEnds(w))

\* The whole lines of a window are its bytes up to the last line end.
LEMMA WholeLinesAre ==
  ASSUME NEW f \in Files, Ready(f)
  PROVE  /\ LastEnd(Window(f)) \in 0 .. Len(Window(f))
         /\ LastEnd(Window(f)) # 0 => Window(f)[LastEnd(Window(f))] = LF
         /\ \A i \in 1 .. Len(Window(f)) : Window(f)[i] = LF => i <= LastEnd(Window(f))
         /\ WholeLines(f) \in Bytes /\ Len(WholeLines(f)) = LastEnd(Window(f))
         /\ \A i \in 1 .. LastEnd(Window(f)) : WholeLines(f)[i] = Window(f)[i]
<1> DEFINE w == Window(f)
           e == LineEnds(w)
           k == Len(e)
           l == LastEnd(w)
<1>1. w \in Seq(Int) /\ Len(w) \in Nat
  BY WindowIs DEF Bytes
<1>2. /\ e \in Seq(1 .. Len(w)) /\ \A i \in 1 .. k : w[e[i]] = LF
      /\ \A i, j \in 1 .. k : i < j => e[i] < e[j]
      /\ \A p \in 1 .. Len(w) : w[p] = LF => \E i \in 1 .. k : e[i] = p
  <2> HIDE DEF w
  <2> QED
    BY <1>1, EndsAre
<1>3. WholeLines(f) = IF e = <<>> THEN <<>> ELSE SubSeq(w, 1, Last(e))
  BY DEF WholeLines
<1>4. l = IF e = <<>> THEN 0 ELSE Last(e)
  BY DEF LastEnd
<1> HIDE DEF e, w, l
<1>5. k \in Nat /\ (e = <<>> <=> k = 0) /\ \A i \in 1 .. k : e[i] \in 1 .. Len(w)
  <2> DEFINE D == 1 .. Len(w)
  <2>1. e \in Seq(D)
    BY <1>2
  <2> HIDE DEF D
  <2>2. k \in Nat /\ (e = <<>> <=> k = 0) /\ \A i \in 1 .. k : e[i] \in D
    BY <2>1
  <2> QED
    BY <2>2 DEF D
<1>6. CASE e = <<>>
  <2>1. l = 0 /\ WholeLines(f) = <<>> /\ k = 0
    BY <1>3, <1>4, <1>5, <1>6
  <2>2. \A i \in 1 .. Len(w) : w[i] # LF
    BY <1>2, <2>1
  <2> QED
    BY <1>1, <2>1, <2>2 DEF w, l, Bytes
<1>7. CASE e # <<>>
  <2>1. k \in 1 .. k /\ l = e[k] /\ WholeLines(f) = SubSeq(w, 1, l)
    BY <1>3, <1>4, <1>5, <1>7 DEF Last
  <2>2. l \in 1 .. Len(w) /\ w[l] = LF
    BY <1>2, <1>5, <2>1
  <2>3. ASSUME NEW i \in 1 .. Len(w), w[i] = LF PROVE i <= l
    <3>1. PICK j \in 1 .. k : e[j] = i
      BY <1>2, <2>3
    <3>2. j < k \/ j = k
      BY <1>5, <3>1
    <3>3. j < k => e[j] < e[k]
      BY <1>2, <2>1, <3>1
    <3> QED
      BY <1>1, <2>1, <2>2, <3>1, <3>2, <3>3
  <2>4. 1 \in 1 .. Len(w) + 1 /\ l \in (1 - 1) .. Len(w) /\ l - 1 + 1 = l /\ \A i \in 1 .. l : 1 + i - 1 = i
    BY <1>1, <2>2
  <2>5. /\ SubSeq(w, 1, l) \in Seq(Int) /\ Len(SubSeq(w, 1, l)) = l - 1 + 1
        /\ \A i \in 1 .. l - 1 + 1 : SubSeq(w, 1, l)[i] = w[1 + i - 1]
    BY <1>1, <2>4, PartHolds
  <2> QED
    BY <1>1, <2>1, <2>2, <2>3, <2>4, <2>5 DEF w, l, Bytes
<1> QED
  BY <1>6, <1>7

\* A read takes lines of the window, no more than a batch.
LEMMA TakenIs ==
  ASSUME NEW f \in Files, Ready(f)
  PROVE  /\ Taken(f) \in Seq(Bytes) /\ Len(Taken(f)) \in 0 .. Len(Scan(Window(f)))
         /\ Len(Taken(f)) = Min({Len(Scan(Window(f))), MaxBatch})
         /\ \A i \in 1 .. Len(Taken(f)) : Taken(f)[i] = Scan(Window(f))[i]
         /\ Consumed(f) \in Nat /\ Consumed(f) >= Seek(f)
<1> DEFINE w == Window(f)
           lns == Scan(w)
           s == Seek(f)
<1>1. lns \in Seq(Bytes)
  <2>1. w \in Seq(Int)
    BY WindowIs DEF Bytes
  <2> HIDE DEF w
  <2> QED
    BY <2>1, ScanIs
<1>2. Taken(f) = SubSeq(lns, 1, Min({Len(lns), MaxBatch}))
  BY DEF Taken
<1> HIDE DEF lns
<1>3. PICK r \in 0 .. Len(lns) :
        /\ r = Min({Len(lns), MaxBatch})
        /\ SubSeq(lns, 1, r) \in Seq(Bytes) /\ Len(SubSeq(lns, 1, r)) = r
        /\ \A i \in 1 .. r : SubSeq(lns, 1, r)[i] = lns[i]
  BY <1>1, FirstOnes, TailLimits
<1>4. /\ Taken(f) \in Seq(Bytes) /\ Len(Taken(f)) = r
      /\ \A i \in 1 .. r : Taken(f)[i] = lns[i]
  BY <1>2, <1>3
<1>5. s \in Nat
  <2>1. s \in 0 .. found[f] /\ found[f] \in Nat
    BY SeekFound
  <2> QED
    BY <2>1
<1> DEFINE t == Taken(f)
<1>6. Consumed(f) = FoldLeft(LAMBDA n, x : n + Len(x) + 1, s, t)
  BY DEF Consumed
<1> HIDE DEF t, s
<1>7. PICK g \in [0 .. Len(t) -> Nat] :
        /\ g[0] = s /\ \A k \in 1 .. Len(t) : g[k] = g[k - 1] + Len(t[k]) + 1
        /\ Consumed(f) = g[Len(t)]
  <2>1. t \in Seq(Bytes)
    BY <1>4 DEF t
  <2>2. \E g \in [0 .. Len(t) -> Nat] :
          /\ g[0] = s /\ \A k \in 1 .. Len(t) : g[k] = g[k - 1] + Len(t[k]) + 1
          /\ FoldLeft(LAMBDA n, x : n + Len(x) + 1, s, t) = g[Len(t)]
    BY <1>5, <2>1, CountIs
  <2> QED
    BY <1>6, <2>2
<1> DEFINE n == Len(t)
           G == {k \in 0 .. n : g[k] >= s}
<1>8. n \in Nat /\ \A k \in 1 .. n : Len(t[k]) \in Nat
  <2>1. t \in Seq(Bytes)
    BY <1>4 DEF t
  <2>2. n \in Nat /\ \A k \in 1 .. n : t[k] \in Bytes
    BY <2>1
  <2> QED
    BY <2>2 DEF Bytes
<1> HIDE DEF n
<1>9. 0 \in G
  BY <1>5, <1>7, <1>8
<1>10. ASSUME NEW k \in 1 .. n, k - 1 \in G PROVE k \in G
  <2>1. k \in 0 .. n /\ k - 1 \in 0 .. n
    BY <1>8
  <2>2. g[k] = g[k - 1] + Len(t[k]) + 1 /\ g[k - 1] \in Nat
    BY <1>7, <2>1 DEF n
  <2>3. g[k - 1] >= s
    BY <1>10
  <2> QED
    BY <1>5, <1>8, <2>1, <2>2, <2>3
<1>11. n \in G
  <2>1. 0 .. n \subseteq G
    <3> HIDE DEF G
    <3> QED
      BY <1>8, <1>9, <1>10, UpInduction
  <2> HIDE DEF G
  <2> QED
    BY <1>8, <2>1
<1>12. Consumed(f) \in Nat /\ Consumed(f) >= s
  <2>1. n \in 0 .. n
    BY <1>8
  <2> QED
    BY <1>7, <1>11, <2>1 DEF n
<1> QED
  BY <1>3, <1>4, <1>12 DEF lns, s

\* The reach of a read that began within the file.
LEMMA ReachFrom ==
  ASSUME NEW f \in Files, Ready(f), ReadPath(f).offset \in Nat, ReadPath(f).offset >= Seek(f)
  PROVE  /\ Within(f) => Reach(f) \in Seek(f) .. Size(f) /\ Reach(f) \in Nat
         /\ Reach(f) = IF ReadPath(f).offset <= Size(f) THEN ReadPath(f).offset ELSE Size(f)
<1> DEFINE o == ReadPath(f).offset
<1>1. /\ Size(f) \in Nat /\ Size(f) \in Int /\ o \in Int /\ Seek(f) \in Nat
  <2>1. Size(f) \in Nat /\ Seek(f) \in 0 .. found[f] /\ found[f] \in Nat
    BY SeekFound
  <2> QED
    BY <2>1
<1>2. Reach(f) = Min({o, Size(f)})
  BY DEF Reach
<1>3. o \in Nat /\ o >= Seek(f)
  OBVIOUS
<1> HIDE DEF o
<1>4. Min({o, Size(f)}) = IF o <= Size(f) THEN o ELSE Size(f)
  BY <1>1, LesserOf
<1>5. Within(f) => Seek(f) <= Size(f)
  BY DEF Within
<1>6. Within(f) => Reach(f) \in Seek(f) .. Size(f) /\ Reach(f) \in Nat
  BY <1>1, <1>2, <1>3, <1>4, <1>5
<1> QED
  BY <1>2, <1>4, <1>6 DEF o

\* What a read yields: lines, a position past the one it began at, and bytes up to its reach.
LEMMA ReadIs ==
  ASSUME NEW f \in Files, Ready(f)
  PROVE  /\ ReadPath(f).lines \in Seq(Bytes) /\ Got(f) \in Nat
         /\ ReadPath(f).offset \in Nat /\ ReadPath(f).offset >= Seek(f)
         /\ Within(f) => Reach(f) \in Seek(f) .. Size(f) /\ Reach(f) \in Nat
         /\ Reach(f) = IF ReadPath(f).offset <= Size(f) THEN ReadPath(f).offset ELSE Size(f)
<1>1. /\ Size(f) \in Nat /\ Seek(f) \in Nat /\ found[f] \in Nat /\ found[f] >= Seek(f)
  <2>1. Size(f) \in Nat /\ Seek(f) \in 0 .. found[f] /\ found[f] \in Nat
    BY SeekFound
  <2> QED
    BY <2>1
<1>2. CASE ReadsNothing(f)
  <2>1. ReadPath(f) = [lines |-> <<>>, offset |-> found[f]]
    BY <1>2 DEF ReadPath
  <2> QED
    BY <1>1, <2>1, ReachFrom DEF Got
<1>3. CASE ~ReadsNothing(f) /\ f \in Wide
  <2> DEFINE all == Scan(WholeLines(f))
             S == {i \in DOMAIN all : all[i] # <<>>}
             lns == AtPlaces(all, S)
             wl == WholeLines(f)
  <2>1. wl \in Bytes /\ Len(wl) \in Nat
    BY WholeLinesAre DEF Bytes
  <2>2. all \in Seq(Bytes)
    <3> HIDE DEF wl
    <3>1. Scan(wl) \in Seq(Bytes)
      BY <2>1, ScanIs DEF Bytes
    <3> QED
      BY <3>1 DEF wl
  <2>3. ReadPath(f) = [lines |-> SubSeq(lns, 1, Min({Len(lns), MaxBatch})), offset |-> Seek(f) + Len(wl)]
    BY <1>3 DEF ReadPath, ReadUTF16
  <2> HIDE DEF all, wl
  <2>4. S \in SUBSET (1 .. Len(all))
    BY <2>2
  <2> HIDE DEF S
  <2>5. lns \in Seq(Bytes)
    BY <2>2, <2>4, PlacesHold
  <2> HIDE DEF lns
  <2>6. SubSeq(lns, 1, Min({Len(lns), MaxBatch})) \in Seq(Bytes)
    BY <2>5, FirstOnes, TailLimits
  <2>7. Seek(f) + Len(wl) \in Nat /\ Seek(f) + Len(wl) >= Seek(f)
    BY <1>1, <2>1
  <2> DEFINE got == SubSeq(lns, 1, Min({Len(lns), MaxBatch}))
  <2>8. ReadPath(f) = [lines |-> got, offset |-> Seek(f) + Len(wl)] /\ got \in Seq(Bytes)
    BY <2>3, <2>6
  <2> HIDE DEF got
  <2>9. ReadPath(f).lines = got /\ ReadPath(f).offset = Seek(f) + Len(wl) /\ Len(got) \in Nat
    BY <2>8
  <2> QED
    BY <2>7, <2>8, <2>9, ReachFrom DEF Got
<1>4. CASE ~ReadsNothing(f) /\ f \notin Wide
  <2>1. ReadPath(f) = [lines |-> Taken(f), offset |-> Consumed(f)]
    BY <1>4 DEF ReadPath, ReadText
  <2>2. Consumed(f) \in Nat /\ Consumed(f) >= Seek(f) /\ Taken(f) \in Seq(Bytes)
    BY TakenIs
  <2> QED
    BY <2>1, <2>2, ReachFrom DEF Got
<1> QED
  BY <1>2, <1>3, <1>4

\* What the files before it got are lines of theirs.
LEMMA GotBeforeIs ==
  ASSUME NEW f \in Files, \A g \in Files : Ready(g)
  PROVE  GotBefore(f) \in Nat
<1> DEFINE S == {g \in Files : g < f}
           w == [g \in S |-> Got(g)]
           P(it) == it = [s \in SUBSET S |-> IF s = {} THEN 0 ELSE
                       [g \in Files |-> Got(g)][CHOOSE x \in s : TRUE] + it[s \ {CHOOSE x \in s : TRUE}]]
           it0 == CHOOSE it : P(it)
<1>1. GotBefore(f) = it0[S]
  BY DEF GotBefore, FoldFunctionOnSet, MapThenFoldSet
<1>2. S \in SUBSET Files /\ IsFiniteSet(S)
  <2>1. S \in SUBSET Files /\ IsFiniteSet(Files)
    BY TailLimits
  <2> HIDE DEF S
  <2> QED
    BY <2>1, FS_Subset
<1>3. \A g \in Files : Got(g) \in Nat
  BY ReadIs
<1>4. w \in [S -> Nat] /\ w \in [S -> Int]
  BY <1>2, <1>3
<1>5. \A x \in S : [g \in Files |-> Got(g)][x] = w[x]
  BY <1>2
<1> HIDE DEF w, S
<1>6. PICK it \in [SUBSET S -> Int] : SumsOf(S, w, it)
  BY <1>2, <1>4, SumsExist
<1>7. P(it)
  BY <1>5, <1>6 DEF SumsOf
<1>8. P(it0)
  <2> HIDE DEF P
  <2> QED
    BY <1>7
<1>9. SumsOf(S, w, it0)
  <2> HIDE DEF it0
  <2> QED
    BY <1>5, <1>8 DEF SumsOf
<1> HIDE DEF it0
<1>10. it0 \in [SUBSET S -> Nat]
  BY <1>2, <1>4, <1>9, SumsNat
<1> QED
  BY <1>1, <1>10

\* What goes on of it, when the file is opened.
LEMMA ReturnedIs ==
  ASSUME NEW f \in Files, \A g \in Files : Ready(g), Opened(f)
  PROVE  /\ Returned(f) \in Seq(Bytes) /\ Len(Returned(f)) \in 0 .. Got(f)
         /\ \A i \in 1 .. Len(Returned(f)) : Returned(f)[i] = ReadPath(f).lines[i]
<1> DEFINE lns == ReadPath(f).lines
           k == MaxBatch - GotBefore(f)
<1>1. lns \in Seq(Bytes) /\ Got(f) = Len(lns)
  BY ReadIs DEF Got
<1>2. k \in Nat
  BY GotBeforeIs, TailLimits DEF Opened
<1>3. Returned(f) = SubSeq(lns, 1, Min({Len(lns), k}))
  BY DEF Returned, Got
<1> HIDE DEF lns, k
<1>4. PICK r \in 0 .. Len(lns) :
        /\ r = Min({Len(lns), k})
        /\ SubSeq(lns, 1, r) \in Seq(Bytes) /\ Len(SubSeq(lns, 1, r)) = r
        /\ \A i \in 1 .. r : SubSeq(lns, 1, r)[i] = lns[i]
  BY <1>1, <1>2, FirstOnes
<1> QED
  BY <1>1, <1>3, <1>4 DEF lns

-----------------------------------------------------------------------------
(* How lines lie in a file, and what a buffer shows of them. *)

\* A line that is there whole, its end included.
LineAt(c, q) ==
  /\ q >= 1 /\ q + 2 <= Len(c) /\ c[q] \notin {LF, CR} /\ c[q + 1] = c[q]
  /\ q = 1 \/ c[q - 1] = LF
  /\ c[q + 2] = LF \/ (c[q + 2] = CR /\ q + 3 <= Len(c) /\ c[q + 3] = LF)

\* Lines, one after the other, each with a number of its own, and half a line at the end.
Lies(c, h, n, mayCR) ==
  /\ c \in Bytes /\ h \in 0 .. n /\ \A i \in 1 .. Len(c) : c[i] \in {LF, CR} \cup 1 .. n
  /\ \A i \in 1 .. Len(c) : c[i] \notin {LF, CR} =>
       (i = Len(c) /\ h # 0) \/ \E q \in 1 .. Len(c) : LineAt(c, q) /\ (i = q \/ i = q + 1)
  /\ h # 0 => Len(c) # 0 /\ c[Len(c)] = h /\ (Len(c) = 1 \/ c[Len(c) - 1] = LF)
  /\ h = 0 /\ Len(c) # 0 => c[Len(c)] = LF
  /\ \A i, j \in 1 .. Len(c) : c[i] = c[j] /\ c[i] \notin {LF, CR} => i <= j + 1
  /\ mayCR = FALSE => \A i \in 1 .. Len(c) : c[i] # CR

\* A buffer that shows a part of a sequence.
Shows(w, c, s) == s + Len(w) <= Len(c) /\ \A i \in 1 .. Len(w) : w[i] = c[s + i]

\* A line of two equal bytes.
LEMMA PairIs ==
  ASSUME NEW t \in Seq(Int), NEW x \in Int, Len(t) = 2, t[1] = x, t[2] = x
  PROVE  t = <<x, x>>
OBVIOUS

\* A line that lies in a buffer is read whole.
LEMMA PieceIsLine ==
  ASSUME NEW c \in Bytes, NEW s \in Nat, NEW w \in Bytes, Shows(w, c, s),
         NEW q \in 1 .. Len(c), LineAt(c, q), q > s, q + 1 <= s + Len(w),
         c[q + 2] = CR => q + 3 <= s + Len(w),
         NEW j \in 1 .. Len(LineEnds(w)) + 1, NEW p \in FromOf(w, j) .. UptoOf(w, j), s + p = q \/ s + p = q + 1
  PROVE  Stripped(SubSeq(w, FromOf(w, j), UptoOf(w, j))) = <<c[q], c[q]>>
<1> DEFINE a == FromOf(w, j)
           b == UptoOf(w, j)
           m == Len(w)
           k == Len(LineEnds(w))
           o == q - s
           x == c[q]
           t == SubSeq(w, a, b)
<1>1. m \in Nat /\ w \in Seq(Int) /\ c \in Seq(Int) /\ Len(c) \in Nat
  <2>1. w \in Seq(Int) /\ c \in Seq(Int)
    BY DEF Bytes
  <2> QED
    BY <2>1
<1>s. s + m <= Len(c) /\ \A i \in 1 .. m : w[i] = c[s + i]
  BY DEF Shows
<1>2. /\ k \in Nat /\ a \in 1 .. m + 1 /\ b \in (a - 1) .. m
      /\ \A i \in a .. b : w[i] # LF
      /\ a # 1 => w[a - 1] = LF
      /\ j <= k => b + 1 \in 1 .. m /\ w[b + 1] = LF
      /\ j = k + 1 => b = m
  BY <1>1, LinesLie
<1>3. j \in 1 .. k + 1 /\ (j <= k \/ j = k + 1)
  BY <1>2
<1>4. o \in Nat /\ o >= 1 /\ o + 1 <= m /\ q = s + o /\ p \in a .. b /\ (p = o \/ p = o + 1)
      /\ o + 1 \in 1 .. m /\ o \in 1 .. m /\ p \in Int
  BY <1>1, <1>2, <1>s
<1>5. /\ x \in Int /\ x \notin {LF, CR} /\ w[o] = x /\ w[o + 1] = x
      /\ o > 1 => w[o - 1] = LF
      /\ c[q + 2] = LF \/ (c[q + 2] = CR /\ o + 3 <= m)
      /\ o + 2 <= m => w[o + 2] = c[q + 2]
      /\ o + 3 <= m => w[o + 3] = c[q + 3]
      /\ c[q + 2] = CR => c[q + 3] = LF
  <2>1. /\ c[q] \notin {LF, CR} /\ c[q + 1] = c[q] /\ (q = 1 \/ c[q - 1] = LF)
        /\ c[q + 2] = LF \/ (c[q + 2] = CR /\ c[q + 3] = LF)
    BY DEF LineAt
  <2>2. w[o] = c[q] /\ w[o + 1] = c[q + 1]
    <3>1. s + (o + 1) = q + 1
      BY <1>1, <1>4
    <3> QED
      BY <1>s, <1>4, <3>1
  <2>3. o > 1 => w[o - 1] = c[q - 1] /\ q # 1
    <3> SUFFICES ASSUME o > 1 PROVE w[o - 1] = c[q - 1] /\ q # 1
      OBVIOUS
    <3>1. o - 1 \in 1 .. m /\ s + (o - 1) = q - 1 /\ q # 1
      BY <1>1, <1>4
    <3> QED
      BY <1>s, <3>1
  <2>4. (o + 2 <= m => w[o + 2] = c[q + 2]) /\ (o + 3 <= m => w[o + 3] = c[q + 3])
    <3>1. o + 2 <= m => o + 2 \in 1 .. m /\ s + (o + 2) = q + 2
      BY <1>1, <1>4
    <3>2. o + 3 <= m => o + 3 \in 1 .. m /\ s + (o + 3) = q + 3
      BY <1>1, <1>4
    <3> QED
      BY <1>s, <3>1, <3>2
  <2>5. c[q + 2] = CR => o + 3 <= m
    BY <1>1, <1>4
  <2>6. LF # CR
    BY DEF LF, CR
  <2>7. x \in Int
    BY <1>1
  <2> QED
    BY <2>1, <2>2, <2>3, <2>4, <2>5, <2>6, <2>7
<1> HIDE DEF a, b, m, k, o, x, t
<1>b. a \in Int /\ b \in Int /\ 1 <= a /\ a <= p /\ p <= b /\ b <= m
  BY <1>1, <1>2, <1>4
<1>6. a = o
  <2>1. ~(a < o)
    <3> SUFFICES ASSUME a < o PROVE FALSE
      OBVIOUS
    <3>1. o - 1 \in a .. b /\ o > 1
      BY <1>4, <1>b
    <3> QED
      BY <1>2, <1>5, <3>1
  <2>2. ~(a > o)
    <3> SUFFICES ASSUME a > o PROVE FALSE
      OBVIOUS
    <3>1. a - 1 = o /\ a # 1
      BY <1>4, <1>b
    <3> QED
      BY <1>2, <1>5, <3>1
  <2> QED
    BY <1>1, <1>2, <1>4, <2>1, <2>2
<1>7. b >= o + 1
  <2> SUFFICES ASSUME b < o + 1 PROVE FALSE
    BY <1>1, <1>2, <1>4
  <2>1. b = o /\ b # m
    BY <1>1, <1>2, <1>4
  <2> QED
    BY <1>2, <1>3, <1>5, <2>1
<1>8. a \in 1 .. Len(w) + 1 /\ b \in (a - 1) .. Len(w)
  BY <1>2 DEF m
<1>9. /\ t \in Seq(Int) /\ Len(t) = b - a + 1 /\ \A i \in 1 .. b - a + 1 : t[i] = w[a + i - 1]
  <2> DEFINE V == Int
  <2>1. w \in Seq(V)
    BY <1>1
  <2> HIDE DEF V
  <2>2. SubSeq(w, a, b) \in Seq(V) /\ PartOf(SubSeq(w, a, b), w, a, b)
    BY <1>8, <2>1, PartIs
  <2> QED
    BY <2>2 DEF t, V, PartOf
<1>10. t[1] = x /\ t[2] = x
  <2>1. 1 \in 1 .. b - a + 1 /\ 2 \in 1 .. b - a + 1 /\ a + 1 - 1 = o /\ a + 2 - 1 = o + 1
    BY <1>1, <1>2, <1>4, <1>6, <1>7
  <2>2. t[1] = w[a + 1 - 1] /\ t[2] = w[a + 2 - 1]
    BY <1>9, <2>1
  <2> QED
    BY <1>5, <2>1, <2>2
<1>11. LF # CR
  BY DEF LF, CR
<1>12. CASE c[q + 2] = LF
  <2>1. b = o + 1
    <3> SUFFICES ASSUME b >= o + 2 PROVE FALSE
      BY <1>1, <1>2, <1>4, <1>7
    <3>1. o + 2 \in a .. b /\ o + 2 <= m
      BY <1>1, <1>2, <1>4, <1>6
    <3> QED
      BY <1>2, <1>5, <1>12, <3>1
  <2>2. Len(t) = 2
    BY <1>4, <1>6, <1>9, <2>1
  <2>3. t = <<x, x>>
    BY <1>5, <1>9, <1>10, <2>2, PairIs
  <2>4. Stripped(t) = t
    BY <1>5, <1>10, <2>2 DEF Stripped
  <2> QED
    BY <2>3, <2>4 DEF t, a, b, x
<1>13. CASE c[q + 2] = CR
  <2>1. b = o + 2
    <3>1. ~(b >= o + 3)
      <4> SUFFICES ASSUME b >= o + 3 PROVE FALSE
        OBVIOUS
      <4>1. o + 3 \in a .. b /\ o + 3 <= m
        BY <1>1, <1>2, <1>4, <1>6
      <4> QED
        BY <1>2, <1>5, <1>13, <4>1
    <3>2. b # o + 1
      <4> SUFFICES ASSUME b = o + 1 PROVE FALSE
        OBVIOUS
      <4>1. b + 1 = o + 2 /\ o + 2 <= m /\ b # m
        BY <1>1, <1>2, <1>4, <1>5, <1>11, <1>13
      <4> QED
        BY <1>2, <1>3, <1>5, <1>11, <1>13, <4>1
    <3> QED
      BY <1>1, <1>2, <1>4, <1>7, <3>1, <3>2
  <2>2. Len(t) = 3 /\ t[3] = CR
    <3>1. 3 \in 1 .. b - a + 1 /\ a + 3 - 1 = o + 2 /\ b - a + 1 = 3 /\ o + 2 <= m
      BY <1>1, <1>2, <1>4, <1>6, <2>1
    <3>2. t[3] = w[a + 3 - 1]
      BY <1>9, <3>1
    <3> QED
      BY <1>5, <1>9, <1>13, <3>1, <3>2
  <2>3. /\ Stripped(t) \in Bytes /\ \A i \in 1 .. Len(Stripped(t)) : Stripped(t)[i] = t[i]
        /\ t # <<>> /\ t[Len(t)] = CR => Len(Stripped(t)) = Len(t) - 1
    BY <1>9, StrippedIs
  <2>4. t # <<>> /\ t[Len(t)] = CR
    <3>1. Len(t) # 0
      BY <2>2
    <3> QED
      BY <2>2, <3>1
  <2>5. Len(Stripped(t)) = 2
    BY <2>2, <2>3, <2>4
  <2>6. Stripped(t)[1] = x /\ Stripped(t)[2] = x
    BY <1>10, <2>3, <2>5
  <2>7. Stripped(t) = <<x, x>>
    BY <1>5, <2>3, <2>5, <2>6, PairIs DEF Bytes
  <2> QED
    BY <2>7 DEF t, a, b, x
<1> QED
  BY <1>5, <1>12, <1>13

-----------------------------------------------------------------------------
(* What the writer leaves. *)

\* A sequence with bytes added, and one that ends a line from a place on.
Extends(d, c) == Len(c) <= Len(d) /\ \A i \in 1 .. Len(c) : d[i] = c[i]
Ended(d, z, mayCR) ==
  \/ Len(d) = z + 1 /\ d[z + 1] = LF
  \/ mayCR = TRUE /\ Len(d) = z + 2 /\ d[z + 1] = CR /\ d[z + 2] = LF

\* A line that was whole stays so when the file grows.
LEMMA LineStays ==
  ASSUME NEW c \in Bytes, NEW d \in Bytes, Extends(d, c), NEW q \in 1 .. Len(c), LineAt(c, q)
  PROVE  LineAt(d, q)
<1>1. Len(c) \in Nat /\ Len(d) \in Nat
  BY DEF Bytes
<1>2. /\ q >= 1 /\ q + 2 <= Len(c) /\ c[q] \notin {LF, CR} /\ c[q + 1] = c[q]
      /\ q = 1 \/ c[q - 1] = LF
      /\ c[q + 2] = LF \/ (c[q + 2] = CR /\ q + 3 <= Len(c) /\ c[q + 3] = LF)
  BY DEF LineAt
<1>3. Len(c) <= Len(d) /\ \A i \in 1 .. Len(c) : d[i] = c[i]
  BY DEF Extends
<1>4. d[q] = c[q] /\ d[q + 1] = c[q + 1] /\ d[q + 2] = c[q + 2] /\ (q # 1 => d[q - 1] = c[q - 1])
  <2>1. q \in 1 .. Len(c) /\ q + 1 \in 1 .. Len(c) /\ q + 2 \in 1 .. Len(c) /\ (q # 1 => q - 1 \in 1 .. Len(c))
    BY <1>1, <1>2
  <2> QED
    BY <1>3, <2>1
<1>5. q + 3 <= Len(c) => d[q + 3] = c[q + 3]
  <2>1. q + 3 <= Len(c) => q + 3 \in 1 .. Len(c)
    BY <1>1, <1>2
  <2> QED
    BY <1>3, <2>1
<1>6. q + 2 <= Len(d) /\ (q + 3 <= Len(c) => q + 3 <= Len(d))
  BY <1>1, <1>2, <1>3
<1> QED
  BY <1>2, <1>4, <1>5, <1>6 DEF LineAt

\* What Lies says, part by part.
LEMMA LiesSays ==
  ASSUME NEW c, NEW h, NEW n \in Nat, NEW mayCR, Lies(c, h, n, mayCR)
  PROVE  /\ c \in Bytes /\ c \in Seq(Int) /\ Len(c) \in Nat /\ h \in Nat /\ h <= n
         /\ \A i \in 1 .. Len(c) : c[i] \in {LF, CR} \cup 1 .. n
         /\ \A i \in 1 .. Len(c) : c[i] \notin {LF, CR} =>
              (i = Len(c) /\ h # 0) \/ \E q \in 1 .. Len(c) : LineAt(c, q) /\ (i = q \/ i = q + 1)
         /\ h # 0 => Len(c) # 0 /\ c[Len(c)] = h /\ (Len(c) = 1 \/ c[Len(c) - 1] = LF)
         /\ h = 0 /\ Len(c) # 0 => c[Len(c)] = LF
         /\ \A i, j \in 1 .. Len(c) : c[i] = c[j] /\ c[i] \notin {LF, CR} => i <= j + 1
         /\ mayCR = FALSE => \A i \in 1 .. Len(c) : c[i] # CR
<1>1. c \in Bytes /\ h \in 0 .. n
  BY DEF Lies
<1>2. c \in Seq(Int) /\ Len(c) \in Nat
  <2>1. c \in Seq(Int)
    BY <1>1 DEF Bytes
  <2> QED
    BY <2>1
<1>3. h \in Nat /\ h <= n
  BY <1>1
<1> QED
  BY <1>1, <1>2, <1>3, Zenon DEF Lies

\* No line has the number of a line end.
LEMMA Differ == LF = 0 /\ CR = -1 /\ LF # CR /\ LF \in Int /\ CR \in Int /\ \A n \in Nat : n # 0 => n \notin {LF, CR}
BY DEF LF, CR

\* A higher count of lines leaves those of a file as they lie.
LEMMA LiesOn ==
  ASSUME NEW c, NEW h, NEW n \in Nat, NEW mayCR, Lies(c, h, n, mayCR)
  PROVE  Lies(c, h, n + 1, mayCR)
<1>1. \A i \in 1 .. Len(c) : c[i] \in {LF, CR} \cup 1 .. n + 1
  <2>1. \A i \in 1 .. Len(c) : c[i] \in {LF, CR} \cup 1 .. n
    BY LiesSays, Zenon
  <2> QED
    BY <2>1
<1>2. h \in 0 .. n + 1
  <2>1. h \in Nat /\ h <= n
    BY LiesSays, Zenon
  <2> QED
    BY <2>1
<1> QED
  BY <1>1, <1>2 DEF Lies

\* An empty file has no lines.
LEMMA LiesNone == ASSUME NEW n \in Nat, NEW mayCR PROVE Lies(<<>>, 0, n, mayCR)
BY DEF Lies, Bytes

\* A whole line is added.
LEMMA LiesWhole ==
  ASSUME NEW c, NEW n \in Nat, NEW mayCR, Lies(c, 0, n, mayCR), NEW d \in Bytes, Extends(d, c),
         d[Len(c) + 1] = n + 1, d[Len(c) + 2] = n + 1, Ended(d, Len(c) + 2, mayCR)
  PROVE  Lies(d, 0, n + 1, mayCR)
<1> DEFINE m == Len(c)
           l == n + 1
<1>1. /\ c \in Bytes /\ m \in Nat
      /\ \A i \in 1 .. m : c[i] \in {LF, CR} \cup 1 .. n
      /\ \A i \in 1 .. m : c[i] \notin {LF, CR} =>
           \E q \in 1 .. m : LineAt(c, q) /\ (i = q \/ i = q + 1)
      /\ m # 0 => c[m] = LF
      /\ \A i, j \in 1 .. m : c[i] = c[j] /\ c[i] \notin {LF, CR} => i <= j + 1
      /\ mayCR = FALSE => \A i \in 1 .. m : c[i] # CR
  <2>1. 0 = 0
    OBVIOUS
  <2> QED
    BY <2>1, LiesSays
<1>2. m <= Len(d) /\ \A i \in 1 .. m : d[i] = c[i]
  BY DEF Extends
<1>3. /\ d[m + 1] = l /\ d[m + 2] = l
      /\ \/ Len(d) = m + 3 /\ d[m + 3] = LF
         \/ mayCR = TRUE /\ Len(d) = m + 4 /\ d[m + 3] = CR /\ d[m + 4] = LF
  BY <1>1 DEF Ended
<1>4. l \in Nat /\ l # 0 /\ l > n /\ l \notin {LF, CR}
  BY Differ
<1>5. ASSUME NEW i \in 1 .. Len(d)
      PROVE  i \in 1 .. m \/ (i = m + 1 /\ d[i] = l) \/ (i = m + 2 /\ d[i] = l) \/ (i > m + 2 /\ d[i] \in {LF, CR})
  <2>1. i <= m + 4 /\ (i = m + 4 => Len(d) = m + 4)
    BY <1>1, <1>3
  <2> QED
    BY <1>1, <1>3, <2>1
<1> HIDE DEF m, l
<1>6. \A i \in 1 .. Len(d) : d[i] \in {LF, CR} \cup 1 .. l
  BY <1>1, <1>2, <1>4, <1>5
<1>7. LineAt(d, m + 1) /\ m + 1 \in 1 .. Len(d)
  <2> DEFINE q == m + 1
  <2>1. q >= 1 /\ q + 2 <= Len(d) /\ q \in 1 .. Len(d) /\ q + 1 = m + 2 /\ q + 2 = m + 3 /\ q + 3 = m + 4 /\ q - 1 = m
    BY <1>1, <1>3
  <2>2. q = 1 \/ d[q - 1] = LF
    <3>1. m # 0 => m \in 1 .. m
      BY <1>1
    <3>2. m # 0 => d[m] = LF
      BY <1>1, <1>2, <3>1
    <3> QED
      BY <2>1, <3>2
  <2>3. d[q] = l /\ d[q + 1] = l
    BY <1>3, <2>1
  <2>4. d[q + 2] = LF \/ (d[q + 2] = CR /\ q + 3 <= Len(d) /\ d[q + 3] = LF)
    BY <1>1, <1>3, <2>1
  <2> HIDE DEF q
  <2>5. LineAt(d, q)
    BY <1>4, <2>1, <2>2, <2>3, <2>4 DEF LineAt
  <2> QED
    BY <2>1, <2>5 DEF q
<1>8. ASSUME NEW i \in 1 .. Len(d), d[i] \notin {LF, CR}
      PROVE  \E q \in 1 .. Len(d) : LineAt(d, q) /\ (i = q \/ i = q + 1)
  <2>1. CASE i \in 1 .. m
    <3>1. PICK q \in 1 .. m : LineAt(c, q) /\ (i = q \/ i = q + 1)
      BY <1>1, <1>2, <1>8, <2>1
    <3>2. LineAt(d, q)
      BY <1>1, <3>1, LineStays DEF m
    <3>3. q \in 1 .. Len(d)
      BY <1>1, <1>2
    <3> QED
      BY <3>1, <3>2, <3>3
  <2>2. CASE i = m + 1 \/ i = m + 2
    BY <1>1, <1>7, <2>2
  <2> QED
    BY <1>5, <1>8, <2>1, <2>2
<1>9. Len(d) # 0 /\ d[Len(d)] = LF
  BY <1>1, <1>3
<1>10. ASSUME NEW i \in 1 .. Len(d), NEW j \in 1 .. Len(d), d[i] = d[j], d[i] \notin {LF, CR} PROVE i <= j + 1
  <2>1. CASE i \in 1 .. m /\ j \in 1 .. m
    BY <1>1, <1>2, <1>10, <2>1
  <2>2. CASE i \notin 1 .. m /\ j \notin 1 .. m
    BY <1>1, <1>5, <1>10, <2>2
  <2>3. CASE i \in 1 .. m /\ j \notin 1 .. m
    BY <1>1, <2>3
  <2>4. CASE i \notin 1 .. m /\ j \in 1 .. m
    <3>1. d[i] = l
      BY <1>5, <1>10, <2>4
    <3>2. d[j] \in {LF, CR} \cup 1 .. n
      BY <1>1, <1>2, <2>4
    <3> QED
      BY <1>4, <1>10, <3>1, <3>2
  <2> QED
    BY <2>1, <2>2, <2>3, <2>4
<1>11. ASSUME mayCR = FALSE, NEW i \in 1 .. Len(d) PROVE d[i] # CR
  <2>1. Len(d) = m + 3 /\ d[m + 3] = LF
    BY <1>3, <1>11
  <2>2. i \in 1 .. m \/ i = m + 1 \/ i = m + 2 \/ i = m + 3
    BY <1>1, <2>1
  <2> QED
    BY <1>1, <1>2, <1>3, <1>4, <1>11, <2>1, <2>2, Differ
<1>12. 0 \in 0 .. l
  BY <1>4
<1> QED
  BY <1>6, <1>8, <1>9, <1>10, <1>11, <1>12 DEF Lies, l

\* Half a line is added.
LEMMA LiesHalf ==
  ASSUME NEW c, NEW n \in Nat, NEW mayCR, Lies(c, 0, n, mayCR), NEW d \in Bytes, Extends(d, c),
         d[Len(c) + 1] = n + 1, Len(d) = Len(c) + 1
  PROVE  Lies(d, n + 1, n + 1, mayCR)
<1> DEFINE m == Len(c)
           l == n + 1
<1>1. /\ c \in Bytes /\ m \in Nat
      /\ \A i \in 1 .. m : c[i] \in {LF, CR} \cup 1 .. n
      /\ \A i \in 1 .. m : c[i] \notin {LF, CR} =>
           \E q \in 1 .. m : LineAt(c, q) /\ (i = q \/ i = q + 1)
      /\ m # 0 => c[m] = LF
      /\ \A i, j \in 1 .. m : c[i] = c[j] /\ c[i] \notin {LF, CR} => i <= j + 1
      /\ mayCR = FALSE => \A i \in 1 .. m : c[i] # CR
  <2>1. 0 = 0
    OBVIOUS
  <2> QED
    BY <2>1, LiesSays
<1>2. m <= Len(d) /\ \A i \in 1 .. m : d[i] = c[i]
  BY DEF Extends
<1>3. d[m + 1] = l /\ Len(d) = m + 1
  OBVIOUS
<1>4. l \in Nat /\ l # 0 /\ l > n /\ l \notin {LF, CR}
  BY Differ
<1> HIDE DEF m, l
<1>5. \A i \in 1 .. Len(d) : i \in 1 .. m \/ (i = Len(d) /\ i = m + 1 /\ d[i] = l)
  BY <1>1, <1>3
<1>6. \A i \in 1 .. Len(d) : d[i] \in {LF, CR} \cup 1 .. l
  BY <1>1, <1>2, <1>4, <1>5
<1>7. ASSUME NEW i \in 1 .. Len(d), d[i] \notin {LF, CR}
      PROVE  (i = Len(d) /\ l # 0) \/ \E q \in 1 .. Len(d) : LineAt(d, q) /\ (i = q \/ i = q + 1)
  <2>1. CASE i \in 1 .. m
    <3>1. PICK q \in 1 .. m : LineAt(c, q) /\ (i = q \/ i = q + 1)
      BY <1>1, <1>2, <1>7, <2>1
    <3>2. LineAt(d, q)
      BY <1>1, <3>1, LineStays DEF m
    <3>3. q \in 1 .. Len(d)
      BY <1>1, <1>2
    <3> QED
      BY <3>1, <3>2, <3>3
  <2> QED
    BY <1>4, <1>5, <2>1
<1>8. Len(d) # 0 /\ d[Len(d)] = l /\ (Len(d) = 1 \/ d[Len(d) - 1] = LF)
  <2>1. Len(d) - 1 = m /\ (m # 0 => m \in 1 .. m)
    BY <1>1, <1>3
  <2> QED
    BY <1>1, <1>2, <1>3, <2>1
<1>9. ASSUME NEW i \in 1 .. Len(d), NEW j \in 1 .. Len(d), d[i] = d[j], d[i] \notin {LF, CR} PROVE i <= j + 1
  <2>1. CASE i \in 1 .. m /\ j \in 1 .. m
    BY <1>1, <1>2, <1>9, <2>1
  <2>2. CASE i \notin 1 .. m /\ j \notin 1 .. m
    BY <1>1, <1>5, <2>2
  <2>3. CASE i \in 1 .. m /\ j \notin 1 .. m
    BY <1>1, <2>3
  <2>4. CASE i \notin 1 .. m /\ j \in 1 .. m
    <3>1. d[i] = l
      BY <1>5, <1>9, <2>4
    <3>2. d[j] \in {LF, CR} \cup 1 .. n
      BY <1>1, <1>2, <2>4
    <3> QED
      BY <1>4, <1>9, <3>1, <3>2
  <2> QED
    BY <2>1, <2>2, <2>3, <2>4
<1>10. mayCR = FALSE => \A i \in 1 .. Len(d) : d[i] # CR
  BY <1>1, <1>2, <1>4, <1>5
<1>11. l \in 0 .. l
  BY <1>4
<1> QED
  BY <1>4, <1>6, <1>7, <1>8, <1>9, <1>10, <1>11 DEF Lies, l

\* Its other half is added.
LEMMA LiesRest ==
  ASSUME NEW c, NEW h, NEW n \in Nat, NEW mayCR, Lies(c, h, n, mayCR), h # 0, NEW d \in Bytes, Extends(d, c),
         d[Len(c) + 1] = h, Ended(d, Len(c) + 1, mayCR)
  PROVE  Lies(d, 0, n, mayCR)
<1> DEFINE m == Len(c)
<1>1. /\ c \in Bytes /\ m \in Nat /\ h \in Nat /\ h <= n
      /\ \A i \in 1 .. m : c[i] \in {LF, CR} \cup 1 .. n
      /\ \A i \in 1 .. m : c[i] \notin {LF, CR} =>
           i = m \/ \E q \in 1 .. m : LineAt(c, q) /\ (i = q \/ i = q + 1)
      /\ m # 0 /\ c[m] = h /\ (m = 1 \/ c[m - 1] = LF)
      /\ \A i, j \in 1 .. m : c[i] = c[j] /\ c[i] \notin {LF, CR} => i <= j + 1
      /\ mayCR = FALSE => \A i \in 1 .. m : c[i] # CR
  BY LiesSays
<1>2. m <= Len(d) /\ \A i \in 1 .. m : d[i] = c[i]
  BY DEF Extends
<1>3. /\ d[m + 1] = h
      /\ \/ Len(d) = m + 2 /\ d[m + 2] = LF
         \/ mayCR = TRUE /\ Len(d) = m + 3 /\ d[m + 2] = CR /\ d[m + 3] = LF
  BY <1>1 DEF Ended
<1>4. h \notin {LF, CR}
  BY <1>1, Differ
<1>5. ASSUME NEW i \in 1 .. Len(d)
      PROVE  i \in 1 .. m \/ (i = m + 1 /\ d[i] = h) \/ (i > m + 1 /\ d[i] \in {LF, CR})
  <2>1. i <= m + 3 /\ (i = m + 3 => Len(d) = m + 3)
    BY <1>1, <1>3
  <2> QED
    BY <1>1, <1>3, <2>1
<1> HIDE DEF m
<1>6. \A i \in 1 .. Len(d) : d[i] \in {LF, CR} \cup 1 .. n
  BY <1>1, <1>2, <1>4, <1>5
<1>7. LineAt(d, m) /\ m \in 1 .. Len(d) /\ d[m] = h
  <2>1. m >= 1 /\ m + 2 <= Len(d) /\ m \in 1 .. m /\ m \in 1 .. Len(d) /\ (m # 1 => m - 1 \in 1 .. m)
    BY <1>1, <1>3
  <2>2. d[m] = h /\ (m = 1 \/ d[m - 1] = LF)
    BY <1>1, <1>2, <2>1
  <2>3. d[m + 2] = LF \/ (d[m + 2] = CR /\ m + 3 <= Len(d) /\ d[m + 3] = LF)
    BY <1>1, <1>3
  <2> QED
    BY <1>3, <1>4, <2>1, <2>2, <2>3 DEF LineAt
<1>8. ASSUME NEW i \in 1 .. Len(d), d[i] \notin {LF, CR}
      PROVE  \E q \in 1 .. Len(d) : LineAt(d, q) /\ (i = q \/ i = q + 1)
  <2>1. CASE i \in 1 .. m /\ i # m
    <3>1. PICK q \in 1 .. m : LineAt(c, q) /\ (i = q \/ i = q + 1)
      BY <1>1, <1>2, <1>8, <2>1
    <3>2. LineAt(d, q)
      BY <1>1, <3>1, LineStays DEF m
    <3>3. q \in 1 .. Len(d)
      BY <1>1, <1>2
    <3> QED
      BY <3>1, <3>2, <3>3
  <2>2. CASE i = m \/ i = m + 1
    BY <1>1, <1>7, <2>2
  <2> QED
    BY <1>5, <1>8, <2>1, <2>2
<1>9. Len(d) # 0 /\ d[Len(d)] = LF
  BY <1>1, <1>3
<1>10. ASSUME NEW i \in 1 .. Len(d), NEW j \in 1 .. Len(d), d[i] = d[j], d[i] \notin {LF, CR} PROVE i <= j + 1
  <2>1. CASE i \in 1 .. m /\ j \in 1 .. m
    BY <1>1, <1>2, <1>10, <2>1
  <2>2. CASE i \notin 1 .. m /\ j \notin 1 .. m
    BY <1>1, <1>5, <1>10, <2>2
  <2>3. CASE i \in 1 .. m /\ j \notin 1 .. m
    BY <1>1, <2>3
  <2>4. CASE i \notin 1 .. m /\ j \in 1 .. m
    <3>1. d[i] = h /\ i = m + 1
      BY <1>5, <1>10, <2>4
    <3>2. c[j] = h /\ m \in 1 .. m
      <4>1. d[j] = c[j]
        BY <1>2, <2>4
      <4>2. m \in 1 .. m
        BY <1>1
      <4> QED
        BY <1>10, <3>1, <4>1, <4>2
    <3>3. m <= j + 1
      BY <1>1, <1>4, <2>4, <3>2
    <3>4. j # m - 1
      BY <1>1, <1>4, <2>4, <3>2
    <3> QED
      BY <1>1, <2>4, <3>1, <3>3, <3>4
  <2> QED
    BY <2>1, <2>2, <2>3, <2>4
<1>11. ASSUME mayCR = FALSE, NEW i \in 1 .. Len(d) PROVE d[i] # CR
  <2>1. Len(d) = m + 2 /\ d[m + 2] = LF
    BY <1>3, <1>11
  <2>2. i \in 1 .. m \/ i = m + 1 \/ i = m + 2
    BY <1>1, <2>1
  <2> QED
    BY <1>1, <1>2, <1>3, <1>4, <1>11, <2>1, <2>2, Differ
<1>12. 0 \in 0 .. n
  OBVIOUS
<1> QED
  BY <1>6, <1>8, <1>9, <1>10, <1>11, <1>12 DEF Lies

-----------------------------------------------------------------------------
(* What a read of a buffer amounts to. *)

\* The lines of a read are pieces of a buffer, each another, none past a place.
FromPieces(lns, w, js, top) ==
  /\ \A k \in 1 .. Len(lns) :
       /\ js[k] \in 1 .. Len(LineEnds(w)) + 1 /\ UptoOf(w, js[k]) <= top
       /\ lns[k] = Stripped(SubSeq(w, FromOf(w, js[k]), UptoOf(w, js[k])))
  /\ \A k, l \in 1 .. Len(lns) : js[k] = js[l] => k = l

\* Where the bytes of a piece are.
LEMMA PieceHolds ==
  ASSUME NEW w \in Bytes, NEW j \in 1 .. Len(LineEnds(w)) + 1
  PROVE  LET t == Stripped(SubSeq(w, FromOf(w, j), UptoOf(w, j))) IN
         /\ t \in Bytes /\ Len(t) \in Nat
         /\ \A a \in 1 .. Len(t) : /\ FromOf(w, j) + a - 1 \in FromOf(w, j) .. UptoOf(w, j)
                                   /\ t[a] = w[FromOf(w, j) + a - 1]
<1> DEFINE from == FromOf(w, j)
           upto == UptoOf(w, j)
           part == SubSeq(w, from, upto)
           V == Int
<1>1. w \in Seq(V) /\ w \in Seq(Int) /\ Len(w) \in Nat
  <2>1. w \in Seq(Int)
    BY DEF Bytes
  <2> QED
    BY <2>1
<1>2. from \in 1 .. Len(w) + 1 /\ upto \in (from - 1) .. Len(w)
  BY <1>1, LinesLie
<1> HIDE DEF from, upto
<1>3. /\ part \in Seq(Int) /\ Len(part) = upto - from + 1
      /\ \A i \in 1 .. upto - from + 1 : part[i] = w[from + i - 1]
  <2> HIDE DEF V
  <2>1. /\ part \in Seq(V) /\ Len(part) = upto - from + 1
        /\ \A i \in 1 .. upto - from + 1 : part[i] = w[from + i - 1]
    BY <1>1, <1>2, PartHolds
  <2> QED
    BY <2>1 DEF V
<1> HIDE DEF part
<1> DEFINE t == Stripped(part)
<1>4. t \in Bytes /\ Len(t) \in {Len(part), Len(part) - 1} /\ \A i \in 1 .. Len(t) : t[i] = part[i]
  BY <1>3, StrippedIs
<1> HIDE DEF t
<1>5. Len(t) \in Nat
  BY <1>4 DEF Bytes
<1>6. ASSUME NEW a \in 1 .. Len(t) PROVE from + a - 1 \in from .. upto /\ t[a] = w[from + a - 1]
  <2>1. from \in Int /\ upto \in Int /\ Len(part) = upto - from + 1
    BY <1>1, <1>2, <1>3
  <2>2. a \in 1 .. upto - from + 1
    BY <1>4, <1>5, <2>1
  <2>3. t[a] = part[a]
    BY <1>4
  <2> QED
    BY <1>3, <2>1, <2>2, <2>3
<1> QED
  BY <1>4, <1>5, <1>6 DEF t, part, from, upto

\* What a read of a file amounts to: what it delivers was there, between the places it began and
\* ended at; no line comes twice; what was there and is not cut off has come, or had begun before.
Reads(c, s, o, lns, cut) ==
  /\ \A k \in 1 .. Len(lns) : \A x \in Range(lns[k]) : \E i \in 1 .. Len(c) : i > s /\ i <= o /\ c[i] = x
  /\ \A k, l \in 1 .. Len(lns) : \A x \in Int \ {LF, CR} : lns[k] = <<x, x>> /\ lns[l] = <<x, x>> => k = l
  /\ \A i \in 1 .. Len(c) : i > s /\ i <= o /\ c[i] \notin {LF, CR} /\ c[i] \notin cut =>
       (i = s + 1 /\ s >= 1 /\ c[s] = c[i]) \/ \E k \in 1 .. Len(lns) : lns[k] = <<c[i], c[i]>>
  /\ o > s /\ c[o] \notin {LF, CR} /\ (o = 1 \/ c[o - 1] # c[o]) => c[o] \in cut

\* What the lines of a buffer that are not past a place are.
Pieces(c, s, o, w, lns, js) ==
  /\ \A k \in 1 .. Len(lns) : \A x \in Range(lns[k]) : \E p \in 1 .. Len(w) :
       /\ p \in FromOf(w, js[k]) .. UptoOf(w, js[k]) /\ w[p] = x /\ c[s + p] = x
       /\ s + p \in 1 .. Len(c) /\ s + p > s /\ s + p <= o
  /\ \A k, l \in 1 .. Len(lns) : \A x \in Int \ {LF, CR} : lns[k] = <<x, x>> /\ lns[l] = <<x, x>> => k = l

\* The pieces of a buffer that shows a part of a file, up to a place, are pieces of the file.
LEMMA PiecesRead ==
  ASSUME NEW c, NEW h, NEW n \in Nat, NEW mayCR, Lies(c, h, n, mayCR),
         NEW s \in Nat, NEW o \in Nat, NEW w \in Bytes, Shows(w, c, s), o <= Len(c),
         NEW lns \in Seq(Bytes), NEW js, NEW top, top = o - s, FromPieces(lns, w, js, top)
  PROVE  Pieces(c, s, o, w, lns, js)
<1> DEFINE m == Len(w)
<1>1. m \in Nat /\ w \in Seq(Int) /\ Len(c) \in Nat /\ c \in Bytes
  <2>1. w \in Seq(Int)
    BY DEF Bytes
  <2>2. Len(c) \in Nat /\ c \in Bytes
    BY LiesSays
  <2> QED
    BY <2>1, <2>2
<1>2. s + m <= Len(c) /\ \A i \in 1 .. m : w[i] = c[s + i]
  BY DEF Shows
<1>3. \A k \in 1 .. Len(lns) :
        /\ js[k] \in 1 .. Len(LineEnds(w)) + 1 /\ UptoOf(w, js[k]) <= o - s
        /\ lns[k] = Stripped(SubSeq(w, FromOf(w, js[k]), UptoOf(w, js[k])))
  BY DEF FromPieces
<1>4. ASSUME NEW k \in 1 .. Len(lns)
      PROVE  /\ FromOf(w, js[k]) \in 1 .. m + 1 /\ UptoOf(w, js[k]) \in (FromOf(w, js[k]) - 1) .. m
             /\ lns[k] \in Bytes /\ Len(lns[k]) \in Nat
             /\ \A a \in 1 .. Len(lns[k]) : /\ FromOf(w, js[k]) + a - 1 \in FromOf(w, js[k]) .. UptoOf(w, js[k])
                                            /\ lns[k][a] = w[FromOf(w, js[k]) + a - 1]
  <2> DEFINE j == js[k]
  <2>1. j \in 1 .. Len(LineEnds(w)) + 1 /\ lns[k] = Stripped(SubSeq(w, FromOf(w, j), UptoOf(w, j)))
    BY <1>3
  <2> HIDE DEF j
  <2>2. FromOf(w, j) \in 1 .. m + 1 /\ UptoOf(w, j) \in (FromOf(w, j) - 1) .. m
    BY <1>1, <2>1, LinesLie
  <2>3. LET t == Stripped(SubSeq(w, FromOf(w, j), UptoOf(w, j))) IN
         /\ t \in Bytes /\ Len(t) \in Nat
         /\ \A a \in 1 .. Len(t) : /\ FromOf(w, j) + a - 1 \in FromOf(w, j) .. UptoOf(w, j)
                                   /\ t[a] = w[FromOf(w, j) + a - 1]
    BY <2>1, PieceHolds
  <2> QED
    BY <2>1, <2>2, <2>3 DEF j
<1>5. ASSUME NEW k \in 1 .. Len(lns), NEW x \in Range(lns[k])
      PROVE  \E p \in 1 .. m :
               /\ p \in FromOf(w, js[k]) .. UptoOf(w, js[k]) /\ w[p] = x /\ c[s + p] = x
               /\ s + p \in 1 .. Len(c) /\ s + p > s /\ s + p <= o
  <2>1. lns[k] \in Seq(Int)
    BY <1>4 DEF Bytes
  <2>2. PICK a \in 1 .. Len(lns[k]) : lns[k][a] = x
    BY <1>5, <2>1 DEF Range
  <2> DEFINE p == FromOf(w, js[k]) + a - 1
  <2>3. p \in FromOf(w, js[k]) .. UptoOf(w, js[k]) /\ w[p] = x
    BY <1>4, <2>2
  <2> HIDE DEF p
  <2>4. p \in 1 .. m /\ UptoOf(w, js[k]) <= o - s /\ p <= o - s
    BY <1>1, <1>3, <1>4, <2>3
  <2>5. c[s + p] = x
    BY <1>2, <2>3, <2>4
  <2>6. s + p \in 1 .. Len(c) /\ s + p > s /\ s + p <= o
    BY <1>1, <1>2, <2>4
  <2> QED
    BY <2>3, <2>4, <2>5, <2>6
<1>6. ASSUME NEW k \in 1 .. Len(lns), NEW l \in 1 .. Len(lns), NEW x \in Int \ {LF, CR},
             lns[k] = <<x, x>>, lns[l] = <<x, x>>, js[k] < js[l]
      PROVE  FALSE
  <2>1. UptoOf(w, js[k]) < FromOf(w, js[l])
    <3>1. js[k] \in 1 .. Len(LineEnds(w)) + 1 /\ js[l] \in 1 .. Len(LineEnds(w)) + 1
      BY <1>3
    <3> QED
      BY <1>1, <1>6, <3>1, LinesLie
  <2> DEFINE a == FromOf(w, js[k])
             b == FromOf(w, js[l])
  <2>2. /\ a + 1 - 1 \in a .. UptoOf(w, js[k]) /\ a + 2 - 1 \in a .. UptoOf(w, js[k]) /\ w[a + 1 - 1] = x
        /\ b + 1 - 1 \in b .. UptoOf(w, js[l]) /\ w[b + 1 - 1] = x
    <3>1. Len(lns[k]) = 2 /\ Len(lns[l]) = 2 /\ lns[k][1] = x /\ lns[l][1] = x
      BY <1>6
    <3>2. 1 \in 1 .. Len(lns[k]) /\ 2 \in 1 .. Len(lns[k]) /\ 1 \in 1 .. Len(lns[l])
      BY <3>1
    <3>3. /\ a + 1 - 1 \in a .. UptoOf(w, js[k]) /\ lns[k][1] = w[a + 1 - 1]
          /\ a + 2 - 1 \in a .. UptoOf(w, js[k])
      BY <1>4, <3>2
    <3>4. b + 1 - 1 \in b .. UptoOf(w, js[l]) /\ lns[l][1] = w[b + 1 - 1]
      BY <1>4, <3>2
    <3> QED
      BY <3>1, <3>3, <3>4
  <2>3. /\ a \in 1 .. m + 1 /\ b \in 1 .. m + 1 /\ UptoOf(w, js[k]) \in (a - 1) .. m /\ UptoOf(w, js[l]) \in (b - 1) .. m
    BY <1>4
  <2>4. UptoOf(w, js[k]) < b
    BY <2>1
  <2>n. UptoOf(w, js[k]) \in Int /\ UptoOf(w, js[l]) \in Int /\ UptoOf(w, js[k]) <= m /\ UptoOf(w, js[l]) <= m /\ m \in Nat
    BY <1>1, <2>3
  <2> HIDE DEF a, b, m
  <2>5. /\ a \in 1 .. m /\ b \in 1 .. m /\ b >= a + 2 /\ a + 1 - 1 = a /\ b + 1 - 1 = b
    BY <2>2, <2>3, <2>4, <2>n
  <2>6. w[a] = x /\ w[b] = x
    BY <2>2, <2>5
  <2>7. c[s + a] = x /\ c[s + b] = x
    BY <1>2, <2>5, <2>6
  <2>8. s + a \in 1 .. Len(c) /\ s + b \in 1 .. Len(c) /\ ~(s + b <= s + a + 1)
    BY <1>1, <1>2, <2>5
  <2>9. \A i, j \in 1 .. Len(c) : c[i] = c[j] /\ c[i] \notin {LF, CR} => i <= j + 1
    BY LiesSays, Zenon
  <2> HIDE DEF m
  <2> QED
    BY <2>7, <2>8, <2>9
<1>7. ASSUME NEW k \in 1 .. Len(lns), NEW l \in 1 .. Len(lns), NEW x \in Int \ {LF, CR},
             lns[k] = <<x, x>>, lns[l] = <<x, x>>
      PROVE  k = l
  <2>1. js[k] \in Int /\ js[l] \in Int
    <3>1. js[k] \in 1 .. Len(LineEnds(w)) + 1 /\ js[l] \in 1 .. Len(LineEnds(w)) + 1
      BY <1>3
    <3> QED
      BY <3>1
  <2>2. ~(js[k] < js[l]) /\ ~(js[l] < js[k])
    BY <1>6, <1>7
  <2>3. js[k] = js[l]
    BY <2>1, <2>2
  <2> QED
    BY <2>3 DEF FromPieces
<1> QED
  BY <1>5, <1>7 DEF Pieces

-----------------------------------------------------------------------------
(* Reads of text. *)

Sound == Files \ (Crlf \ Wide)
LinesLieIn(f) == lines \in Nat /\ Lies(content[f], half[f], lines, f \in Crlf)

\* In a text file without CR the count of a read is the place its last line ended at, and its end.
LEMMA ConsumedIs ==
  ASSUME NEW f \in Files, Within(f), \A i \in 1 .. Len(content[f]) : content[f][i] # CR
  PROVE  Consumed(f) = Seek(f) + IF Len(Taken(f)) = 0 THEN 0 ELSE UptoOf(Window(f), Len(Taken(f))) + 1
<1> DEFINE w == Window(f)
           s == Seek(f)
           t == Taken(f)
           n == Len(t)
           m == Len(w)
           q == Len(LineEnds(w))
<1>1. /\ w \in Bytes /\ m \in Nat /\ w \in Seq(Int) /\ \A i \in 1 .. m : w[i] # CR
  <2>1. /\ w \in Bytes /\ m \in Nat /\ s + m <= Size(f) /\ \A i \in 1 .. m : w[i] = content[f][s + i]
    BY SeekIs, WindowIs
  <2>2. s \in Nat /\ Size(f) = Len(content[f])
    <3>1. s \in 0 .. Size(f)
      BY SeekIs
    <3> QED
      BY <3>1 DEF Size
  <2>3. Size(f) \in Nat
    BY SeekIs
  <2> HIDE DEF w, s
  <2>4. \A i \in 1 .. m : s + i \in 1 .. Len(content[f])
    BY <2>1, <2>2, <2>3
  <2> QED
    BY <2>1, <2>4 DEF Bytes
<1>2. /\ t \in Seq(Bytes) /\ n \in 0 .. Len(Scan(w)) /\ \A i \in 1 .. n : t[i] = Scan(w)[i]
  BY SeekIs, TakenIs
<1>3. s \in Nat
  <2>1. s \in 0 .. Size(f) /\ Size(f) \in Nat
    BY SeekIs
  <2> QED
    BY <2>1
<1>4. Consumed(f) = FoldLeft(LAMBDA c, x : c + Len(x) + 1, s, t)
  BY DEF Consumed
<1> HIDE DEF w, s, t
<1>5. PICK g \in [0 .. n -> Nat] :
        /\ g[0] = s /\ \A k \in 1 .. n : g[k] = g[k - 1] + Len(t[k]) + 1
        /\ Consumed(f) = g[n]
  <2>1. \E g \in [0 .. n -> Nat] :
          /\ g[0] = s /\ \A k \in 1 .. n : g[k] = g[k - 1] + Len(t[k]) + 1
          /\ FoldLeft(LAMBDA c, x : c + Len(x) + 1, s, t) = g[n]
    BY <1>2, <1>3, CountIs
  <2> QED
    BY <1>4, <2>1
<1>6. /\ q \in Nat /\ n \in Nat /\ n <= q + 1
      /\ \A i \in 1 .. Len(Scan(w)) : Scan(w)[i] = Stripped(SubSeq(w, FromOf(w, i), UptoOf(w, i)))
  <2>1. /\ Len(Scan(w)) = IF FromOf(w, q + 1) <= Len(w) THEN q + 1 ELSE q
        /\ \A i \in 1 .. Len(Scan(w)) : Scan(w)[i] = Stripped(SubSeq(w, FromOf(w, i), UptoOf(w, i)))
    BY <1>1, ScanIs
  <2>2. q \in Nat
    BY <1>1, LinesLie
  <2> QED
    BY <1>2, <2>1, <2>2
<1>7. ASSUME NEW k \in 1 .. n
      PROVE  /\ FromOf(w, k) \in 1 .. m + 1 /\ UptoOf(w, k) \in (FromOf(w, k) - 1) .. m
             /\ Len(t[k]) = UptoOf(w, k) - FromOf(w, k) + 1
  <2>1. k \in 1 .. q + 1 /\ k \in 1 .. Len(Scan(w))
    BY <1>2, <1>6
  <2> DEFINE a == FromOf(w, k)
             b == UptoOf(w, k)
             part == SubSeq(w, a, b)
             V == Int
  <2>2. a \in 1 .. m + 1 /\ b \in (a - 1) .. m
    BY <1>1, <2>1, LinesLie
  <2>3. w \in Seq(V)
    BY <1>1
  <2>4. t[k] = Stripped(part)
    BY <1>2, <1>6, <2>1
  <2> HIDE DEF a, b, V
  <2>5. /\ part \in Seq(V) /\ Len(part) = b - a + 1
        /\ \A i \in 1 .. b - a + 1 : part[i] = w[a + i - 1]
    BY <2>2, <2>3, PartHolds
  <2> HIDE DEF part
  <2>6. part # <<>> => part[Len(part)] # CR
    <3> SUFFICES ASSUME part # <<>> PROVE part[Len(part)] # CR
      OBVIOUS
    <3>1. Len(part) # 0 /\ Len(part) \in Nat
      BY <2>5
    <3>2. Len(part) \in 1 .. b - a + 1 /\ a + Len(part) - 1 \in 1 .. m
      BY <1>1, <2>2, <2>5, <3>1
    <3> QED
      BY <1>1, <2>5, <3>2
  <2>7. Stripped(part) = part
    BY <2>6 DEF Stripped
  <2> QED
    BY <2>2, <2>4, <2>5, <2>7 DEF a, b
<1> DEFINE At(k) == s + IF k = 0 THEN 0 ELSE UptoOf(w, k) + 1
           G == {k \in 0 .. n : g[k] = At(k)}
<1> HIDE DEF n, q, m
<1>8. 0 \in G
  BY <1>3, <1>5, <1>6
<1>9. ASSUME NEW k \in 1 .. n, k - 1 \in G PROVE k \in G
  <2>1. k \in 0 .. n /\ k # 0 /\ g[k] = g[k - 1] + Len(t[k]) + 1
    BY <1>5, <1>6
  <2>2. g[k - 1] = At(k - 1)
    BY <1>9
  <2>3. At(k - 1) = s + FromOf(w, k) - 1
    <3>1. CASE k = 1
      <4>1. FromOf(w, k) = 1
        BY <3>1 DEF FromOf
      <4> QED
        BY <1>3, <3>1, <4>1
    <3>2. CASE k # 1
      <4> DEFINE l == k - 1
      <4>1. l \in 1 .. q /\ l # 0 /\ l + 1 = k /\ l \in 1 .. q + 1
        BY <1>6, <3>2
      <4>2. FromOf(w, l + 1) = UptoOf(w, l) + 2 /\ UptoOf(w, l) + 1 \in 1 .. m
        <5>1. l <= q
          BY <4>1, <1>6
        <5> HIDE DEF l
        <5> QED
          BY <1>1, <4>1, <5>1, LinesLie DEF q, m
      <4> HIDE DEF l
      <4>3. At(l) = s + (UptoOf(w, l) + 1)
        BY <4>1
      <4>4. UptoOf(w, l) + 1 \in Int /\ FromOf(w, k) = UptoOf(w, l) + 2 /\ FromOf(w, k) \in Int
        BY <1>1, <1>7, <4>1, <4>2
      <4>5. s + (UptoOf(w, l) + 1) = s + FromOf(w, k) - 1
        <5> DEFINE u == UptoOf(w, l) + 1
                   v == UptoOf(w, l)
        <5>1. v + 2 \in Int /\ v + 1 \in Int /\ FromOf(w, k) = v + 2
          BY <4>4
        <5>2. v \in Int
          <6>1. l \in 1 .. n
            BY <1>6, <4>1
          <6> QED
            BY <1>1, <1>7, <6>1
        <5> HIDE DEF v
        <5>3. s + (v + 1) = s + FromOf(w, k) - 1
          BY <1>3, <5>1, <5>2
        <5> QED
          BY <5>3 DEF v
      <4> QED
        BY <4>3, <4>5 DEF l
    <3> QED
      BY <3>1, <3>2
  <2>4. At(k) = s + (UptoOf(w, k) + 1)
    BY <2>1
  <2>5. s + FromOf(w, k) - 1 + Len(t[k]) + 1 = s + (UptoOf(w, k) + 1)
    <3>1. FromOf(w, k) \in Int /\ UptoOf(w, k) \in Int /\ Len(t[k]) = UptoOf(w, k) - FromOf(w, k) + 1
      BY <1>1, <1>7
    <3> QED
      BY <1>3, <3>1
  <2>6. g[k] = At(k)
    BY <2>1, <2>2, <2>3, <2>4, <2>5, Zenon
  <2> QED
    BY <2>1, <2>6
<1>10. n \in G
  <2>1. 0 .. n \subseteq G
    <3> HIDE DEF G
    <3> QED
      BY <1>6, <1>8, <1>9, UpInduction
  <2> HIDE DEF G
  <2> QED
    BY <1>6, <2>1
<1>11. Consumed(f) = At(n)
  BY <1>5, <1>10
<1> QED
  BY <1>11 DEF n, t, w, s

\* A byte of text that ends a line begun before a place, or belongs to a line that lies past it.
Belongs(c, s, i) ==
  \/ i = s + 1 /\ s >= 1 /\ c[s] = c[i]
  \/ \E y \in 1 .. Len(c) : LineAt(c, y) /\ (i = y \/ i = y + 1) /\ y > s /\ c[y] = c[i] /\ c[y + 1] = c[i]

\* Every byte of text belongs to a line, but the half line at the end.
LEMMA LineOfByte ==
  ASSUME NEW c, NEW h, NEW n \in Nat, NEW mayCR, Lies(c, h, n, mayCR), NEW s \in Nat,
         NEW i \in 1 .. Len(c), i > s, c[i] \notin {LF, CR}, ~(i = Len(c) /\ h # 0)
  PROVE  Belongs(c, s, i)
<1> USE DEF Belongs
<1>1. PICK q \in 1 .. Len(c) : LineAt(c, q) /\ (i = q \/ i = q + 1)
  BY LiesSays
<1>2. c[q + 1] = c[q] /\ q >= 1
  BY <1>1 DEF LineAt
<1>3. Len(c) \in Nat
  BY LiesSays
<1>4. CASE q > s
  BY <1>1, <1>2, <1>4
<1>5. CASE q <= s
  <2>1. q = s /\ i = s + 1
    BY <1>1, <1>3, <1>5
  <2> QED
    BY <1>2, <2>1
<1> QED
  BY <1>3, <1>4, <1>5

\* The files whose lines are text.
LEMMA TextReads ==
  ASSUME NEW f \in Sound, \A g \in Files : Ready(g), Within(f), LinesLieIn(f), Opened(f),
         ~ReadsNothing(f), f \notin Wide
  PROVE  Reads(content[f], Seek(f), Reach(f), Returned(f), Cut(f))
<1> DEFINE c == content[f]
           h == half[f]
           s == Seek(f)
           o == Reach(f)
           w == Window(f)
           m == Len(w)
           q == Len(LineEnds(w))
           t == Taken(f)
           n == Len(t)
           r == Returned(f)
           cut == Cut(f)
<1>1. f \in Files /\ f \notin Crlf /\ Ready(f) /\ Within(f)
  BY DEF Sound
<1>2. Lies(c, h, lines, f \in Crlf) /\ lines \in Nat
  BY DEF LinesLieIn
<1>3. c \in Bytes /\ Len(c) \in Nat /\ Size(f) = Len(c) /\ \A i \in 1 .. Len(c) : c[i] # CR
  <2>1. (f \in Crlf) = FALSE
    BY <1>1
  <2>2. Lies(c, h, lines, FALSE) /\ lines \in Nat
    BY <1>2, <2>1
  <2> HIDE DEF c, h
  <2>3. c \in Bytes /\ Len(c) \in Nat /\ \A i \in 1 .. Len(c) : c[i] # CR
    BY <2>2, LiesSays
  <2> QED
    BY <2>3 DEF Size, c
<1>4. s \in Nat /\ s <= Len(c)
  <2>1. s \in 0 .. Size(f)
    BY <1>1, SeekIs
  <2> QED
    BY <1>3, <2>1
<1>5. w \in Bytes /\ w \in Seq(Int) /\ m \in Nat /\ Shows(w, c, s) /\ s + m <= Len(c) /\ \A i \in 1 .. m : w[i] = c[s + i]
  <2>1. w \in Bytes /\ m \in Nat /\ s + m <= Size(f) /\ \A i \in 1 .. m : w[i] = c[s + i]
    BY <1>1, WindowIs
  <2> QED
    BY <1>3, <2>1 DEF Shows, Bytes
<1>6. /\ t \in Seq(Bytes) /\ n \in 0 .. Len(Scan(w)) /\ n \in Nat /\ \A i \in 1 .. n : t[i] = Scan(w)[i]
      /\ n = Min({Len(Scan(w)), MaxBatch})
  <2>1. /\ t \in Seq(Bytes) /\ n \in 0 .. Len(Scan(w)) /\ \A i \in 1 .. n : t[i] = Scan(w)[i]
        /\ n = Min({Len(Scan(w)), MaxBatch})
    BY <1>1, TakenIs
  <2>2. n \in Nat
    <3> HIDE DEF n
    <3> QED
      BY <2>1
  <2> HIDE DEF n, t, w
  <2> QED
    BY <2>1, <2>2
<1>7. ReadPath(f) = [lines |-> t, offset |-> Consumed(f)]
  BY DEF ReadPath, ReadText
<1>8. r \in Seq(Bytes) /\ Len(r) \in 0 .. n /\ Len(r) \in Nat /\ \A i \in 1 .. Len(r) : r[i] = t[i]
  <2>1. r \in Seq(Bytes) /\ Len(r) \in 0 .. Got(f) /\ \A i \in 1 .. Len(r) : r[i] = ReadPath(f).lines[i]
    BY <1>1, ReturnedIs
  <2>2. Got(f) = n /\ ReadPath(f).lines = t
    BY <1>7 DEF Got
  <2> HIDE DEF n, t, r
  <2> QED
    BY <1>6, <2>1, <2>2
<1>9. /\ q \in Nat /\ n <= q + 1 /\ n <= Len(Scan(w)) /\ Len(Scan(w)) \in Nat
      /\ Len(Scan(w)) = IF FromOf(w, q + 1) <= m THEN q + 1 ELSE q
      /\ \A i \in 1 .. n : t[i] = Stripped(SubSeq(w, FromOf(w, i), UptoOf(w, i)))
  <2>1. /\ Len(Scan(w)) = IF FromOf(w, q + 1) <= m THEN q + 1 ELSE q
        /\ \A i \in 1 .. Len(Scan(w)) : Scan(w)[i] = Stripped(SubSeq(w, FromOf(w, i), UptoOf(w, i)))
    BY <1>5, ScanIs
  <2>2. q \in Nat
    BY <1>5, LinesLie
  <2> HIDE DEF n, t, q, m, w
  <2>3. Len(Scan(w)) \in Nat /\ Len(Scan(w)) <= q + 1
    BY <2>1, <2>2
  <2>4. n <= Len(Scan(w)) /\ n <= q + 1
    BY <1>6, <2>2, <2>3
  <2>5. ASSUME NEW i \in 1 .. n PROVE t[i] = Stripped(SubSeq(w, FromOf(w, i), UptoOf(w, i)))
    <3>1. i \in 1 .. Len(Scan(w))
      BY <1>6, <2>3, <2>4
    <3> QED
      BY <1>6, <2>1, <3>1
  <2> QED
    BY <2>1, <2>2, <2>3, <2>4, <2>5
<1>10. /\ \A i \in 1 .. q + 1 :
             /\ FromOf(w, i) \in 1 .. m + 1 /\ UptoOf(w, i) \in (FromOf(w, i) - 1) .. m
             /\ i <= q => UptoOf(w, i) + 1 \in 1 .. m /\ w[UptoOf(w, i) + 1] = LF
             /\ i = q + 1 => UptoOf(w, i) = m
             /\ \A p \in FromOf(w, i) .. UptoOf(w, i) : w[p] # LF
       /\ \A i, j \in 1 .. q + 1 : i < j => UptoOf(w, i) < FromOf(w, j)
       /\ \A i \in 1 .. q : FromOf(w, i + 1) = UptoOf(w, i) + 2
       /\ \A p \in 1 .. m : w[p] # LF => \E i \in 1 .. q + 1 : p \in FromOf(w, i) .. UptoOf(w, i)
  <2>1. \A i \in 1 .. q : i \in 1 .. q + 1 /\ i <= q
    BY <1>9
  <2> HIDE DEF q, m
  <2> QED
    BY <1>5, <2>1, LinesLie DEF q, m
<1>11. Consumed(f) = s + IF n = 0 THEN 0 ELSE UptoOf(w, n) + 1
  BY <1>1, <1>3, ConsumedIs
<1>12. cut = (UNION {Range(t[i]) : i \in (Len(r) + 1) .. n}) \cup (IF w # <<>> /\ Last(w) # LF THEN {Last(w)} ELSE {})
  BY <1>7 DEF Cut, Got
<1> HIDE DEF c, h, s, w, m, q, t, n, r, cut
<1>13. Consumed(f) \in Nat /\ o = IF Consumed(f) <= Len(c) THEN Consumed(f) ELSE Len(c)
  <2>1. Consumed(f) \in Nat /\ Consumed(f) \in Int /\ Size(f) \in Int
    <3>1. Consumed(f) \in Nat
      BY <1>1, TakenIs
    <3> QED
      BY <1>3, <3>1
  <2>2. o = Min({Consumed(f), Size(f)})
    BY <1>7 DEF Reach
  <2> HIDE DEF o
  <2>3. o = IF Consumed(f) <= Size(f) THEN Consumed(f) ELSE Size(f)
    BY <2>1, <2>2, LesserOf
  <2> QED
    BY <1>3, <2>1, <2>3
<1> HIDE DEF o
<1>14. o \in Nat /\ o <= Len(c) /\ o >= s
  <2>1. n # 0 => UptoOf(w, n) \in Int /\ UptoOf(w, n) >= 0
    <3>1. n # 0 => n \in 1 .. q + 1
      BY <1>6, <1>9
    <3> QED
      BY <1>5, <1>10, <3>1
  <2> QED
    BY <1>3, <1>4, <1>11, <1>13, <2>1
<1>15. ASSUME NEW k \in 1 .. n PROVE UptoOf(w, k) <= UptoOf(w, n) /\ UptoOf(w, n) <= o - s /\ UptoOf(w, k) \in Int
  <2>1. k \in 1 .. q + 1 /\ n \in 1 .. q + 1 /\ n # 0
    BY <1>6, <1>9
  <2>2. /\ FromOf(w, n) \in Int /\ UptoOf(w, n) \in Int /\ UptoOf(w, k) \in Int /\ UptoOf(w, n) >= FromOf(w, n) - 1
        /\ UptoOf(w, n) <= m
    BY <1>5, <1>10, <2>1
  <2>3. UptoOf(w, k) <= UptoOf(w, n)
    <3>1. k < n \/ k = n
      BY <1>6
    <3>2. k < n => UptoOf(w, k) < FromOf(w, n)
      BY <1>10, <2>1
    <3> QED
      BY <2>2, <3>1, <3>2
  <2>4. UptoOf(w, n) <= o - s
    BY <1>3, <1>4, <1>5, <1>11, <1>13, <2>1, <2>2
  <2> QED
    BY <2>2, <2>3, <2>4
<1> DEFINE js == [k \in 1 .. Len(r) |-> k]
<1>16. FromPieces(r, w, js, o - s)
  <2>1. ASSUME NEW k \in 1 .. Len(r)
        PROVE  /\ js[k] = k /\ k \in 1 .. q + 1 /\ UptoOf(w, k) <= o - s
               /\ r[k] = Stripped(SubSeq(w, FromOf(w, k), UptoOf(w, k)))
    <3>1. k \in 1 .. n /\ k \in 1 .. q + 1
      BY <1>6, <1>8, <1>9
    <3>2. UptoOf(w, k) <= o - s
      <4>1. UptoOf(w, n) \in Int
        <5>1. n \in 1 .. n
          BY <1>6, <3>1
        <5> QED
          BY <1>15, <5>1
      <4> QED
        BY <1>4, <1>14, <1>15, <3>1, <4>1
    <3> QED
      BY <1>8, <1>9, <3>1, <3>2
  <2> HIDE DEF js
  <2> QED
    BY <2>1 DEF FromPieces, q
<1>b. PICK mayCR : Lies(c, h, lines, mayCR)
  BY <1>2
<1>17. /\ \A k \in 1 .. Len(r) : \A x \in Range(r[k]) : \E p \in 1 .. Len(w) :
            /\ p \in FromOf(w, js[k]) .. UptoOf(w, js[k]) /\ w[p] = x /\ c[s + p] = x
            /\ s + p \in 1 .. Len(c) /\ s + p > s /\ s + p <= o
       /\ \A k, l \in 1 .. Len(r) : \A x \in Int \ {LF, CR} : r[k] = <<x, x>> /\ r[l] = <<x, x>> => k = l
  <2> HIDE DEF js
  <2>1. lines \in Nat /\ s \in Nat /\ o \in Nat /\ w \in Bytes /\ Shows(w, c, s) /\ o <= Len(c)
    BY <1>2, <1>4, <1>5, <1>14
  <2>2. r \in Seq(Bytes) /\ FromPieces(r, w, js, o - s) /\ Lies(c, h, lines, mayCR)
    BY <1>8, <1>16, <1>b
  <2> DEFINE top == o - s
  <2>3. top = o - s /\ FromPieces(r, w, js, top)
    BY <2>2
  <2> HIDE DEF top
  <2>4. Pieces(c, s, o, w, r, js)
    BY <2>1, <2>2, <2>3, PiecesRead
  <2> QED
    BY <2>4 DEF Pieces
<1>18. \A k \in 1 .. Len(r) : \A x \in Range(r[k]) : \E i \in 1 .. Len(c) : i > s /\ i <= o /\ c[i] = x
  BY <1>17
\* The last byte of the window, when it is of text.
<1>19. m # 0 /\ w[m] # LF => c[s + m] \in cut /\ c[s + m] = w[m]
  <2>1. m # 0 => w # <<>> /\ Last(w) = w[m] /\ m \in 1 .. m
    BY <1>5 DEF m, Last
  <2>2. m # 0 /\ w[m] # LF => w[m] \in cut
    <3> DEFINE rest == UNION {Range(t[i]) : i \in (Len(r) + 1) .. n}
    <3>1. cut = rest \cup (IF w # <<>> /\ Last(w) # LF THEN {Last(w)} ELSE {})
      BY <1>12
    <3> HIDE DEF rest
    <3> QED
      BY <2>1, <3>1
  <2>3. m # 0 => c[s + m] = w[m]
    BY <1>5, <2>1
  <2> QED
    BY <2>2, <2>3
<1>20. ASSUME NEW i \in 1 .. Len(c), i > s, i <= o, c[i] \notin {LF, CR}, c[i] \notin cut
       PROVE  (i = s + 1 /\ s >= 1 /\ c[s] = c[i]) \/ \E k \in 1 .. Len(r) : r[k] = <<c[i], c[i]>>
  <2> DEFINE p == i - s
  <2>1. p \in Nat /\ p >= 1 /\ s + p = i /\ n # 0
    BY <1>3, <1>4, <1>11, <1>13, <1>14, <1>20
  <2>2. n \in 1 .. n /\ n \in 1 .. q + 1 /\ UptoOf(w, n) \in Int /\ FromOf(w, n) \in Int /\ UptoOf(w, n) <= m
    <3>1. n \in 1 .. n /\ n \in 1 .. q + 1
      BY <1>6, <1>9, <2>1
    <3> QED
      BY <1>5, <1>10, <3>1
  <2>3. p <= UptoOf(w, n) + 1
    BY <1>3, <1>4, <1>11, <1>13, <1>20, <2>1, <2>2
  <2> HIDE DEF p
  <2>4. CASE p > m
    <3>1. p = m + 1 /\ UptoOf(w, n) = m
      BY <1>5, <2>1, <2>2, <2>3, <2>4
    <3>2. n = q + 1
      <4>1. n <= q => UptoOf(w, n) + 1 <= m
        BY <1>5, <1>10, <2>2
      <4> QED
        BY <1>5, <1>6, <1>9, <2>2, <3>1, <4>1
    <3>3. FromOf(w, n) <= m
      BY <1>6, <1>9, <3>2
    <3>4. m # 0 /\ w[m] # LF /\ m \in FromOf(w, n) .. UptoOf(w, n)
      <4>1. FromOf(w, n) >= 1
        BY <1>5, <1>10, <2>2
      <4>2. m \in FromOf(w, n) .. UptoOf(w, n)
        BY <1>5, <2>2, <3>1, <3>3
      <4> QED
        BY <1>5, <1>10, <2>2, <3>3, <4>1, <4>2
    <3>5. c[s + m] \in cut /\ c[s + m] = w[m] /\ s + m = i - 1 /\ s + m \in 1 .. Len(c) /\ s + m > s
      BY <1>3, <1>4, <1>5, <1>19, <2>1, <3>1, <3>4
    <3>6. c[s + m] \notin {LF, CR}
      BY <1>3, <3>4, <3>5
    <3>7. c[s + m] = c[i]
      <4>1. ~(s + m = Len(c))
        BY <1>3, <1>4, <1>5, <3>5
      <4> DEFINE z == s + m
      <4>2. z \in 1 .. Len(c) /\ c[z] \notin {LF, CR} /\ z # Len(c) /\ z = i - 1 /\ z + 1 = i
        BY <1>3, <3>5, <3>6, <4>1
      <4> HIDE DEF z
      <4>3. PICK y \in 1 .. Len(c) : LineAt(c, y) /\ (z = y \/ z = y + 1)
        BY <1>2, <4>2, LiesSays
      <4>4. z = y
        <5> SUFFICES ASSUME z = y + 1 PROVE FALSE
          BY <4>3
        <5>1. c[y + 2] = LF \/ c[y + 2] = CR
          BY <4>3 DEF LineAt
        <5>2. i = y + 2
          BY <4>2, <4>3
        <5> QED
          BY <1>20, <5>1, <5>2
      <4> QED
        BY <4>2, <4>3, <4>4 DEF LineAt, z
    <3> QED
      BY <1>20, <3>5, <3>7
  <2>5. CASE p <= m
    <3>1. p \in 1 .. m /\ w[p] = c[i] /\ w[p] # LF
      BY <1>5, <1>20, <2>1, <2>5
    <3>2. PICK j \in 1 .. q + 1 : p \in FromOf(w, j) .. UptoOf(w, j)
      BY <1>10, <3>1
    <3>3. FromOf(w, j) \in Int /\ UptoOf(w, j) \in Int /\ FromOf(w, j) <= p /\ p <= UptoOf(w, j)
      BY <1>5, <1>10, <3>2
    <3>4. j <= n
      <4> SUFFICES ASSUME j > n PROVE FALSE
        BY <1>6, <1>9, <3>2
      <4>1. n < j /\ n <= q /\ n \in 1 .. q
        BY <1>6, <1>9, <2>2
      <4>2. UptoOf(w, n) < FromOf(w, j) /\ w[UptoOf(w, n) + 1] = LF
        BY <1>10, <2>2, <4>1
      <4>3. p = UptoOf(w, n) + 1
        BY <2>1, <2>2, <2>3, <3>3, <4>2
      <4> QED
        BY <3>1, <4>2, <4>3
    <3>5. j \in 1 .. n
      BY <1>6, <3>2, <3>4
    <3>6. CASE \E y \in 1 .. Len(c) : LineAt(c, y) /\ (i = y \/ i = y + 1) /\ y > s /\ c[y] = c[i] /\ c[y + 1] = c[i]
      <4>1. PICK y \in 1 .. Len(c) : LineAt(c, y) /\ (i = y \/ i = y + 1) /\ y > s /\ c[y] = c[i] /\ c[y + 1] = c[i]
        BY <3>6
      <4>2. y + 1 <= s + m
        <5> SUFFICES ASSUME y + 1 > s + m PROVE FALSE
          BY <1>4, <1>5
        <5>1. i = s + m /\ m # 0
          BY <1>3, <1>4, <1>5, <2>1, <2>5, <4>1
        <5>2. c[s + m] \in cut
          <6>1. m \in 1 .. m
            BY <1>5, <5>1
          <6>2. w[m] # LF
            BY <1>5, <1>20, <5>1, <6>1
          <6> QED
            BY <1>19, <5>1, <6>2
        <5> QED
          BY <1>20, <5>1, <5>2
      <4>3. c[y + 2] = CR => y + 3 <= s + m
        <5>1. y + 2 \in 1 .. Len(c)
          <6>1. y + 2 <= Len(c)
            BY <4>1 DEF LineAt
          <6> QED
            BY <1>3, <6>1
        <5> QED
          BY <1>3, <5>1
      <4>4. j \in 1 .. Len(LineEnds(w)) + 1 /\ (s + p = y \/ s + p = y + 1)
        BY <2>1, <3>2, <4>1 DEF q
      <4>5. Stripped(SubSeq(w, FromOf(w, j), UptoOf(w, j))) = <<c[y], c[y]>>
        BY <1>3, <1>4, <1>5, <3>2, <4>1, <4>2, <4>3, <4>4, PieceIsLine DEF m
      <4>6. t[j] = <<c[i], c[i]>>
        BY <1>9, <3>5, <4>1, <4>5
      <4>7. j <= Len(r)
        <5> SUFFICES ASSUME j > Len(r) PROVE FALSE
          BY <1>8, <3>5
        <5>1. j \in (Len(r) + 1) .. n
          BY <1>6, <1>8, <3>5
        <5>2. c[i] \in Range(t[j])
          <6>1. 1 \in DOMAIN <<c[i], c[i]>> /\ <<c[i], c[i]>>[1] = c[i]
            OBVIOUS
          <6> QED
            BY <4>6, <6>1 DEF Range
        <5> QED
          BY <1>12, <1>20, <5>1, <5>2
      <4>8. j \in 1 .. Len(r)
        BY <1>8, <3>5, <4>7
      <4> QED
        BY <1>8, <4>6, <4>8
    <3>7. CASE i = s + 1 /\ s >= 1 /\ c[s] = c[i]
      BY <3>7
    <3>8. ~(i = Len(c) /\ half[f] # 0)
      <4> SUFFICES ASSUME i = Len(c) PROVE FALSE
        OBVIOUS
      <4>1. p = m /\ m # 0 /\ i = s + m
        BY <1>3, <1>4, <1>5, <2>1, <2>5
      <4>2. w[m] # LF
        BY <3>1, <4>1
      <4> QED
        BY <1>19, <1>20, <4>1, <4>2
    <3>9. ~(i = Len(c) /\ h # 0)
      BY <3>8 DEF h
    <3>10. \/ i = s + 1 /\ s >= 1 /\ c[s] = c[i]
           \/ \E y \in 1 .. Len(c) : LineAt(c, y) /\ (i = y \/ i = y + 1) /\ y > s /\ c[y] = c[i] /\ c[y + 1] = c[i]
      <4>1. lines \in Nat /\ s \in Nat /\ Lies(c, h, lines, mayCR) /\ i \in 1 .. Len(c) /\ i > s /\ c[i] \notin {LF, CR}
        BY <1>2, <1>4, <1>b, <1>20
      <4>2. Belongs(c, s, i)
        BY <3>9, <4>1, LineOfByte
      <4> QED
        BY <4>2 DEF Belongs
    <3> QED
      BY <3>6, <3>7, <3>10
  <2> QED
    BY <1>5, <2>1, <2>4, <2>5
<1>21. ASSUME o > s, c[o] \notin {LF, CR}, o = 1 \/ c[o - 1] # c[o] PROVE c[o] \in cut
  <2>1. n # 0 /\ n \in 1 .. n /\ n \in 1 .. q + 1
    <3>1. n # 0
      BY <1>3, <1>4, <1>11, <1>13, <1>21
    <3> QED
      BY <1>6, <1>9, <3>1
  <2>2. UptoOf(w, n) \in Int /\ FromOf(w, n) \in Int /\ UptoOf(w, n) <= m /\ FromOf(w, n) >= 1 /\ FromOf(w, n) <= UptoOf(w, n) + 1
    BY <1>5, <1>10, <2>1
  <2>3. n = q + 1
    <3> SUFFICES ASSUME n <= q PROVE FALSE
      BY <1>6, <1>9, <2>1
    <3>1. UptoOf(w, n) + 1 \in 1 .. m /\ w[UptoOf(w, n) + 1] = LF
      BY <1>10, <2>1
    <3>2. o = s + (UptoOf(w, n) + 1)
      BY <1>3, <1>4, <1>5, <1>11, <1>13, <2>1, <2>2, <3>1
    <3> QED
      BY <1>5, <1>21, <3>1, <3>2
  <2>4. UptoOf(w, n) = m /\ FromOf(w, n) <= m
    <3>1. UptoOf(w, n) = m
      BY <1>10, <2>1, <2>3
    <3>2. FromOf(w, q + 1) <= m
      BY <1>6, <1>9, <2>3
    <3> QED
      BY <2>3, <3>1, <3>2
  <2>5. m # 0 /\ w[m] # LF
    <3>1. m \in FromOf(w, n) .. UptoOf(w, n)
      BY <1>5, <2>2, <2>4
    <3>2. m # 0
      BY <1>5, <2>2, <2>4
    <3> QED
      BY <1>10, <2>1, <3>1, <3>2
  <2>6. c[s + m] \in cut /\ c[s + m] = w[m]
    BY <1>19, <2>5
  <2>7. o = s + m \/ (o = s + m + 1 /\ o <= Len(c))
    BY <1>3, <1>4, <1>5, <1>11, <1>13, <2>1, <2>4
  <2>8. CASE o = s + m
    BY <2>6, <2>8
  <2>9. CASE o = s + m + 1 /\ o <= Len(c)
    <3> DEFINE z == s + m
    <3>1. z \in 1 .. Len(c) /\ z # Len(c) /\ z + 1 = o /\ o # 1 /\ o - 1 = z
      BY <1>3, <1>4, <1>5, <2>5, <2>9
    <3>2. c[z] \notin {LF, CR}
      BY <1>3, <2>5, <2>6, <3>1
    <3> HIDE DEF z
    <3>3. PICK y \in 1 .. Len(c) : LineAt(c, y) /\ (z = y \/ z = y + 1)
      BY <1>2, <3>1, <3>2, LiesSays
    <3>4. z # y + 1
      <4> SUFFICES ASSUME z = y + 1 PROVE FALSE
        OBVIOUS
      <4>1. c[y + 2] = LF \/ c[y + 2] = CR
        BY <3>3 DEF LineAt
      <4>2. o = y + 2
        BY <3>1, <3>3
      <4> QED
        BY <1>21, <4>1, <4>2
    <3>5. c[y + 1] = c[y] /\ z = y
      BY <3>3, <3>4 DEF LineAt
    <3> QED
      BY <1>21, <3>1, <3>5
  <2> QED
    BY <2>7, <2>8, <2>9
<1> QED
  BY <1>17, <1>18, <1>20, <1>21 DEF Reads, c, s, o, r, cut

-----------------------------------------------------------------------------
(* Reads of UTF-16. *)

\* What a read of a UTF-16 file delivers: lines of the whole ones of its window, each another.
LEMMA WidePieces ==
  ASSUME NEW f \in Files, \A g \in Files : Ready(g), Opened(f), ~ReadsNothing(f), f \in Wide
  PROVE  /\ ReadPath(f).offset = Seek(f) + Len(WholeLines(f))
         /\ Returned(f) \in Seq(Bytes)
         /\ \E js : FromPieces(Returned(f), WholeLines(f), js, Len(WholeLines(f)))
<1> DEFINE w == WholeLines(f)
           m == Len(w)
           all == Scan(w)
           S == {i \in DOMAIN all : all[i] # <<>>}
           lns == AtPlaces(all, S)
           k == Min({Len(lns), MaxBatch})
           got == SubSeq(lns, 1, k)
           r == Returned(f)
           q == Len(LineEnds(w))
<1>0. Ready(f)
  OBVIOUS
<1>1. w \in Bytes /\ m \in Nat /\ w \in Seq(Int)
  <2>1. WholeLines(f) \in Bytes /\ Len(WholeLines(f)) = LastEnd(Window(f)) /\ LastEnd(Window(f)) \in 0 .. Len(Window(f))
    BY <1>0, WholeLinesAre
  <2>2. w \in Bytes
    BY <2>1
  <2> HIDE DEF w
  <2> QED
    BY <2>2 DEF Bytes
<1>2. ReadPath(f) = [lines |-> got, offset |-> Seek(f) + m]
  BY DEF ReadPath, ReadUTF16
<1>3. /\ r \in Seq(Bytes) /\ Len(r) \in 0 .. Len(got) /\ \A i \in 1 .. Len(r) : r[i] = got[i]
  <2>1. /\ r \in Seq(Bytes) /\ Len(r) \in 0 .. Got(f)
        /\ \A i \in 1 .. Len(r) : r[i] = ReadPath(f).lines[i]
    BY ReturnedIs
  <2>2. ReadPath(f).lines = got /\ Got(f) = Len(got)
    <3> HIDE DEF got
    <3> QED
      BY <1>2 DEF Got
  <2> HIDE DEF got, r
  <2> QED
    BY <2>1, <2>2
<1> HIDE DEF w, r
<1>4. /\ all \in Seq(Bytes) /\ Len(all) \in Nat /\ q \in Nat /\ Len(all) <= q + 1
      /\ \A i \in 1 .. Len(all) : all[i] = Stripped(SubSeq(w, FromOf(w, i), UptoOf(w, i)))
      /\ \A i \in 1 .. q + 1 : UptoOf(w, i) <= m
  <2>1. /\ all \in Seq(Bytes)
        /\ Len(all) = IF FromOf(w, q + 1) <= Len(w) THEN q + 1 ELSE q
        /\ \A i \in 1 .. Len(all) : all[i] = Stripped(SubSeq(w, FromOf(w, i), UptoOf(w, i)))
    BY <1>1, ScanIs
  <2>2. q \in Nat
    BY <1>1, LinesLie
  <2>3. ASSUME NEW i \in 1 .. q + 1 PROVE UptoOf(w, i) <= m
    <3>1. FromOf(w, i) \in 1 .. m + 1 /\ UptoOf(w, i) \in (FromOf(w, i) - 1) .. m
      BY <1>1, LinesLie
    <3> HIDE DEF m
    <3> QED
      BY <1>1, <3>1
  <2>4. Len(all) \in Nat
    BY <2>1
  <2> HIDE DEF all, q, m
  <2>5. Len(all) <= q + 1
    BY <2>1, <2>2 DEF m
  <2> QED
    BY <2>1, <2>2, <2>3, <2>4, <2>5
<1> HIDE DEF all, q, m
<1>5. S \in SUBSET (1 .. Len(all))
  BY <1>4
<1> HIDE DEF S
<1>6. PICK o \in Seq(S) :
        /\ \A i, j \in 1 .. Len(o) : o[i] = o[j] => i = j
        /\ lns \in Seq(Bytes) /\ Len(lns) = Len(o)
        /\ \A i \in 1 .. Len(o) : lns[i] = all[o[i]]
  BY <1>4, <1>5, PlacesHold
<1> HIDE DEF lns
<1>7. PICK n \in 0 .. Len(lns) :
        /\ n = k /\ Len(SubSeq(lns, 1, n)) = n /\ \A i \in 1 .. n : SubSeq(lns, 1, n)[i] = lns[i]
  BY <1>6, FirstOnes, TailLimits
<1>8. Len(got) = n /\ \A i \in 1 .. n : got[i] = lns[i]
  BY <1>7
<1> HIDE DEF got, k
<1>9. ASSUME NEW i \in 1 .. Len(r)
      PROVE  /\ i \in 1 .. Len(o) /\ o[i] \in 1 .. q + 1 /\ UptoOf(w, o[i]) <= m
             /\ r[i] = Stripped(SubSeq(w, FromOf(w, o[i]), UptoOf(w, o[i])))
  <2>1. Len(lns) \in Nat /\ n \in Nat /\ n <= Len(lns) /\ Len(r) <= n /\ Len(r) \in Nat
    <3>1. Len(lns) \in Nat
      BY <1>6
    <3>2. n \in Nat /\ n <= Len(lns)
      BY <3>1
    <3> QED
      BY <1>3, <1>8, <3>1, <3>2
  <2>2. i \in 1 .. Len(o) /\ i \in 1 .. n
    BY <1>6, <2>1
  <2>3. o[i] \in S
    BY <2>2
  <2>4. o[i] \in 1 .. Len(all)
    BY <1>5, <2>3
  <2>5. o[i] \in 1 .. q + 1
    BY <1>4, <2>4
  <2>6. r[i] = all[o[i]]
    BY <1>3, <1>6, <1>8, <2>2
  <2> QED
    BY <1>4, <2>2, <2>4, <2>5, <2>6
<1>10. FromPieces(r, w, o, m)
  BY <1>6, <1>9 DEF FromPieces, q
<1>11. \E js : FromPieces(r, w, js, m)
  BY <1>10
<1>12. ReadPath(f).offset = Seek(f) + m
  BY <1>2
<1> QED
  BY <1>3, <1>11, <1>12 DEF r, m, w

\* The files whose lines are code units.
LEMMA WideReads ==
  ASSUME NEW f \in Sound, \A g \in Files : Ready(g), Within(f), LinesLieIn(f), Opened(f),
         ~ReadsNothing(f), f \in Wide
  PROVE  Reads(content[f], Seek(f), Reach(f), Returned(f), Cut(f))
<1> DEFINE c == content[f]
           h == half[f]
           s == Seek(f)
           o == Reach(f)
           w == WholeLines(f)
           m == Len(w)
           r == Returned(f)
           cut == Cut(f)
<1>1. f \in Files /\ Ready(f) /\ Within(f)
  BY DEF Sound
<1>2. Lies(c, h, lines, f \in Crlf) /\ lines \in Nat
  BY DEF LinesLieIn
<1>b. PICK mayCR : Lies(c, h, lines, mayCR)
  BY <1>2
<1>3. c \in Bytes /\ Len(c) \in Nat /\ Size(f) = Len(c)
  <2> HIDE DEF c, h
  <2>1. c \in Bytes /\ Len(c) \in Nat
    BY <1>2, <1>b, LiesSays
  <2> QED
    BY <2>1 DEF Size, c
<1>4. s \in Nat /\ s <= Len(c)
  <2>1. s \in 0 .. Size(f)
    BY <1>1, SeekIs
  <2> QED
    BY <1>3, <2>1
<1>5. /\ w \in Bytes /\ w \in Seq(Int) /\ m \in Nat /\ Shows(w, c, s) /\ s + m <= Len(c) /\ \A i \in 1 .. m : w[i] = c[s + i]
      /\ m # 0 => w[m] = LF
  <2>1. /\ w \in Bytes /\ Len(w) = LastEnd(Window(f)) /\ LastEnd(Window(f)) \in 0 .. Len(Window(f))
        /\ LastEnd(Window(f)) # 0 => Window(f)[LastEnd(Window(f))] = LF
        /\ \A i \in 1 .. LastEnd(Window(f)) : w[i] = Window(f)[i]
    BY <1>1, WholeLinesAre
  <2>2. /\ Len(Window(f)) \in Nat /\ s + Len(Window(f)) <= Len(c)
        /\ \A i \in 1 .. Len(Window(f)) : Window(f)[i] = c[s + i]
    BY <1>1, <1>3, WindowIs
  <2> HIDE DEF w, s, c
  <2>3. m \in Nat /\ m <= Len(Window(f)) /\ s + m <= Len(c)
    BY <1>3, <1>4, <2>1, <2>2
  <2>4. ASSUME NEW i \in 1 .. m PROVE w[i] = c[s + i]
    BY <2>1, <2>2, <2>3
  <2>5. m # 0 => m \in 1 .. m
    BY <2>3
  <2>6. m # 0 => w[m] = LF
    BY <2>1, <2>5
  <2> QED
    BY <2>1, <2>3, <2>4, <2>6 DEF Shows, Bytes
<1>6. o = s + m /\ r \in Seq(Bytes) /\ \E js : FromPieces(r, w, js, m)
  <2>1. ReadPath(f).offset = s + m /\ r \in Seq(Bytes) /\ \E js : FromPieces(r, w, js, m)
    BY <1>1, WidePieces
  <2>2. o = IF ReadPath(f).offset <= Size(f) THEN ReadPath(f).offset ELSE Size(f)
    BY <1>1, ReadIs
  <2> HIDE DEF o, s, m, r, w, c
  <2> QED
    BY <1>3, <1>5, <2>1, <2>2
<1>7. PICK js : FromPieces(r, w, js, m)
  BY <1>6
<1>8. cut = TextOf(f, s, o) \ UNION {Range(r[i]) : i \in 1 .. Len(r)}
  <2>1. cut = TextOf(f, s, ReadPath(f).offset) \ UNION {Range(r[i]) : i \in 1 .. Len(r)}
    BY DEF Cut
  <2>2. ReadPath(f).offset = s + m
    BY <1>1, WidePieces
  <2> HIDE DEF o, s, m, r, cut
  <2> QED
    BY <1>6, <2>1, <2>2
<1>9. \A i \in 1 .. Len(c) : i > s /\ i <= o /\ c[i] \notin {LF, CR} => c[i] \in TextOf(f, s, o)
  <2>1. o \in Int /\ Size(f) \in Int /\ o <= Len(c)
    <3> HIDE DEF s, m, o, c
    <3> QED
      BY <1>3, <1>4, <1>5, <1>6
  <2>2. Min({o, Size(f)}) = o
    <3> HIDE DEF o
    <3> QED
      BY <1>3, <2>1, LesserOf
  <2>3. TextOf(f, s, o) = {c[i] : i \in (s + 1) .. o} \ {LF, CR}
    BY <2>2 DEF TextOf
  <2> HIDE DEF c, s, o
  <2>4. ASSUME NEW i \in 1 .. Len(c), i > s, i <= o PROVE i \in (s + 1) .. o
    BY <1>3, <1>4, <2>1, <2>4
  <2> QED
    BY <2>3, <2>4
<1> HIDE DEF c, h, s, o, w, m, r, cut
<1>10. o \in Nat /\ o <= Len(c) /\ o >= s /\ m = o - s
  BY <1>3, <1>4, <1>5, <1>6
<1>11. Pieces(c, s, o, w, r, js)
  <2>1. lines \in Nat
    BY <1>2
  <2> QED
    BY <2>1, <1>b, <1>4, <1>5, <1>6, <1>7, <1>10, PiecesRead
<1>12. /\ \A k \in 1 .. Len(r) : \A x \in Range(r[k]) : \E p \in 1 .. m :
            /\ p \in FromOf(w, js[k]) .. UptoOf(w, js[k]) /\ w[p] = x /\ c[s + p] = x
            /\ s + p \in 1 .. Len(c) /\ s + p > s /\ s + p <= o
       /\ \A k, l \in 1 .. Len(r) : \A x \in Int \ {LF, CR} : r[k] = <<x, x>> /\ r[l] = <<x, x>> => k = l
  BY <1>11 DEF Pieces, m
<1>13. \A k \in 1 .. Len(r) : \A x \in Range(r[k]) : \E i \in 1 .. Len(c) : i > s /\ i <= o /\ c[i] = x
  BY <1>12
<1>14. o > s => c[o] = LF
  <2> SUFFICES ASSUME o > s PROVE c[o] = LF
    OBVIOUS
  <2>1. m # 0 /\ m \in 1 .. m /\ s + m = o
    BY <1>4, <1>5, <1>6, <1>10
  <2> QED
    BY <1>5, <2>1
<1>15. ASSUME NEW i \in 1 .. Len(c), i > s, i <= o, c[i] \notin {LF, CR}, c[i] \notin cut
       PROVE  (i = s + 1 /\ s >= 1 /\ c[s] = c[i]) \/ \E k \in 1 .. Len(r) : r[k] = <<c[i], c[i]>>
  <2>1. PICK k \in 1 .. Len(r) : c[i] \in Range(r[k])
    BY <1>8, <1>9, <1>15
  <2>2. PICK p \in 1 .. m :
          /\ p \in FromOf(w, js[k]) .. UptoOf(w, js[k]) /\ c[s + p] = c[i]
          /\ s + p \in 1 .. Len(c) /\ s + p > s /\ s + p <= o
    BY <1>12, <2>1
  <2> DEFINE z == s + p
  <2>3. z \in 1 .. Len(c) /\ z > s /\ z <= o /\ c[z] = c[i] /\ z # o /\ z # Len(c) /\ o > s
    <3>1. z \in 1 .. Len(c) /\ z > s /\ z <= o /\ c[z] = c[i]
      BY <2>2
    <3> HIDE DEF z
    <3>2. o > s
      BY <1>3, <1>4, <1>10, <3>1
    <3>3. z # o
      BY <1>14, <1>15, <3>1, <3>2
    <3> QED
      BY <1>3, <1>10, <3>1, <3>2, <3>3
  <2> HIDE DEF z
  <2>4. Belongs(c, s, z)
    <3>1. lines \in Nat /\ c[z] \notin {LF, CR} /\ ~(z = Len(c) /\ h # 0)
      BY <1>2, <1>15, <2>3
    <3> QED
      BY <1>b, <1>4, <2>3, <3>1, LineOfByte
  <2>5. CASE z = s + 1 /\ s >= 1 /\ c[s] = c[z]
    <3>1. i = s + 1
      <4>1. s \in 1 .. Len(c) /\ c[i] = c[s]
        BY <1>3, <1>4, <2>3, <2>5
      <4>2. \A a, b \in 1 .. Len(c) : c[a] = c[b] /\ c[a] \notin {LF, CR} => a <= b + 1
        <5>1. lines \in Nat
          BY <1>2
        <5> QED
          BY <1>b, <5>1, LiesSays, Zenon
      <4>3. i <= s + 1
        BY <1>15, <4>1, <4>2
      <4> QED
        BY <1>3, <1>4, <1>15, <4>3
    <3> QED
      BY <2>3, <2>5, <3>1
  <2>6. CASE \E y \in 1 .. Len(c) : LineAt(c, y) /\ (z = y \/ z = y + 1) /\ y > s /\ c[y] = c[z] /\ c[y + 1] = c[z]
    <3>1. PICK y \in 1 .. Len(c) : LineAt(c, y) /\ (z = y \/ z = y + 1) /\ y > s /\ c[y] = c[z] /\ c[y + 1] = c[z]
      BY <2>6
    <3>2. y + 1 <= o /\ y + 1 # o
      <4>1. y + 1 # o
        BY <1>14, <1>15, <2>3, <3>1
      <4> QED
        BY <1>3, <1>10, <2>3, <3>1, <4>1
    <3>3. c[y + 2] = CR => y + 3 <= o
      <4> SUFFICES ASSUME c[y + 2] = CR PROVE y + 3 <= o
        OBVIOUS
      <4>1. y + 2 # o
        BY <1>14, <2>3, Differ
      <4> QED
        BY <1>3, <1>10, <3>2, <4>1
    <3>4. js[k] \in 1 .. Len(LineEnds(w)) + 1 /\ r[k] = Stripped(SubSeq(w, FromOf(w, js[k]), UptoOf(w, js[k])))
      BY <1>7 DEF FromPieces
    <3> DEFINE j == js[k]
    <3>5. /\ y + 1 <= s + Len(w) /\ (c[y + 2] = CR => y + 3 <= s + Len(w)) /\ (s + p = y \/ s + p = y + 1)
          /\ j \in 1 .. Len(LineEnds(w)) + 1 /\ p \in FromOf(w, j) .. UptoOf(w, j)
      BY <1>6, <2>2, <3>1, <3>2, <3>3, <3>4 DEF m, z
    <3> HIDE DEF j
    <3>6. Stripped(SubSeq(w, FromOf(w, j), UptoOf(w, j))) = <<c[y], c[y]>>
      BY <1>3, <1>4, <1>5, <3>1, <3>5, PieceIsLine
    <3>7. r[k] = <<c[i], c[i]>>
      BY <2>3, <3>1, <3>4, <3>6 DEF j
    <3> QED
      BY <3>7
  <2> QED
    BY <2>4, <2>5, <2>6 DEF Belongs
<1>16. ~(o > s /\ c[o] \notin {LF, CR})
  BY <1>14
<1> QED
  BY <1>12, <1>13, <1>15, <1>16 DEF Reads, c, s, o, r, cut

\* A file that is read from its end.
LEMMA NoneRead ==
  ASSUME NEW f \in Files, ReadsNothing(f), Opened(f), \A g \in Files : Ready(g)
  PROVE  /\ Seek(f) = found[f] /\ ReadPath(f).offset = found[f] /\ Returned(f) = <<>>
         /\ Cut(f) = TextOf(f, 0, found[f]) /\ Base(f) = 0
<1>1. ReadPath(f) = [lines |-> <<>>, offset |-> found[f]] /\ Seek(f) = found[f] /\ Base(f) = 0
  BY DEF ReadPath, ReadsNothing, Seek, Base
<1>2. Returned(f) = <<>>
  <2>1. Returned(f) \in Seq(Bytes) /\ Len(Returned(f)) \in 0 .. Got(f) /\ Got(f) = 0
    BY <1>1, ReturnedIs DEF Got
  <2> DEFINE r == Returned(f)
  <2>2. Len(r) = 0
    BY <2>1
  <2> HIDE DEF r
  <2> QED
    BY <2>1, <2>2 DEF r
<1>3. Cut(f) = TextOf(f, 0, found[f])
  BY <1>1 DEF Cut
<1> QED
  BY <1>1, <1>2, <1>3

\* It reads no part of the file.
LEMMA NoneReads ==
  ASSUME NEW f \in Files, ReadsNothing(f), Opened(f), \A g \in Files : Ready(g), Within(f)
  PROVE  Reads(content[f], Seek(f), Reach(f), Returned(f), Cut(f))
<1>1. Seek(f) = found[f] /\ ReadPath(f).offset = found[f] /\ Returned(f) = <<>>
  BY NoneRead
<1>2. Seek(f) \in Nat /\ Size(f) \in Nat /\ Seek(f) <= Size(f)
  <2>1. Seek(f) \in 0 .. Size(f) /\ Size(f) \in Nat
    BY SeekIs
  <2> QED
    BY <2>1
<1>3. Reach(f) = Seek(f)
  BY <1>1, <1>2, ReadIs
<1> DEFINE s == Seek(f)
           c == content[f]
           cut == Cut(f)
<1>4. s \in Nat
  BY <1>2
<1> HIDE DEF s, c, cut
<1>5. Reads(c, s, s, <<>>, cut)
  <2>1. \A i \in 1 .. Len(c) : ~(i > s /\ i <= s)
    BY <1>4
  <2>2. ~(s > s) /\ 1 .. Len(<<>>) = {}
    BY <1>4
  <2> QED
    BY <2>1, <2>2 DEF Reads
<1> QED
  BY <1>1, <1>3, <1>5 DEF s, c, cut

\* What Reads says, part by part.
LEMMA ReadsHold ==
  ASSUME NEW f \in Sound, \A g \in Files : Ready(g), Within(f), LinesLieIn(f), Opened(f)
  PROVE  Reads(content[f], Seek(f), Reach(f), Returned(f), Cut(f))
<1>1. f \in Files
  BY DEF Sound
<1>2. CASE ReadsNothing(f)
  BY <1>1, <1>2, NoneReads
<1>3. CASE ~ReadsNothing(f) /\ f \in Wide
  BY <1>3, WideReads
<1>4. CASE ~ReadsNothing(f) /\ f \notin Wide
  BY <1>4, TextReads
<1> QED
  BY <1>2, <1>3, <1>4

-----------------------------------------------------------------------------
(* What has been read of a file. *)

\* What has been read of a file, as far as lines that count go: each came once; what came and is
\* still there has been passed; what was passed has come; and no place is inside a line.
Known(c, toks, b, w) ==
  /\ \A k, l \in 1 .. Len(toks) : \A n \in w : toks[k] = <<n, n>> /\ toks[l] = <<n, n>> => k = l
  /\ \A i \in 1 .. Len(c) : \A k \in 1 .. Len(toks) : c[i] \in w /\ c[i] \in Range(toks[k]) => i <= b
  /\ \A i \in 1 .. Len(c) : i <= b /\ c[i] \in w => \E k \in 1 .. Len(toks) : toks[k] = <<c[i], c[i]>>
  /\ b >= 1 /\ (b = 1 \/ c[b - 1] # c[b]) => c[b] \notin w

\* What Known says, part by part.
LEMMA KnownSays ==
  ASSUME NEW c, NEW toks, NEW b, NEW w, Known(c, toks, b, w)
  PROVE  /\ \A k, l \in 1 .. Len(toks) : \A n \in w : toks[k] = <<n, n>> /\ toks[l] = <<n, n>> => k = l
         /\ \A i \in 1 .. Len(c) : \A k \in 1 .. Len(toks) : c[i] \in w /\ c[i] \in Range(toks[k]) => i <= b
         /\ \A i \in 1 .. Len(c) : i <= b /\ c[i] \in w => \E k \in 1 .. Len(toks) : toks[k] = <<c[i], c[i]>>
         /\ b >= 1 /\ (b = 1 \/ c[b - 1] # c[b]) => c[b] \notin w
BY DEF Known

\* What is known of some lines is known of fewer.
LEMMA KnownLess ==
  ASSUME NEW c, NEW toks, NEW b, NEW w, Known(c, toks, b, w), NEW v \in SUBSET w
  PROVE  Known(c, toks, b, v)
<1>1. /\ \A k, l \in 1 .. Len(toks) : \A n \in v : toks[k] = <<n, n>> /\ toks[l] = <<n, n>> => k = l
      /\ \A i \in 1 .. Len(c) : \A k \in 1 .. Len(toks) : c[i] \in v /\ c[i] \in Range(toks[k]) => i <= b
      /\ b >= 1 /\ (b = 1 \/ c[b - 1] # c[b]) => c[b] \notin v
  BY KnownSays
<1>2. ASSUME NEW i \in 1 .. Len(c), i <= b, c[i] \in v PROVE \E k \in 1 .. Len(toks) : toks[k] = <<c[i], c[i]>>
  <2>1. c[i] \in w
    BY <1>2
  <2> QED
    BY <1>2, <2>1 DEF Known
<1> QED
  BY <1>1, <1>2 DEF Known

\* A read that was delivered.
LEMMA KnownRead ==
  ASSUME NEW c, NEW h, NEW n \in Nat, NEW mayCR, Lies(c, h, n, mayCR),
         NEW toks \in Seq(Bytes), NEW b \in Nat, NEW w, Known(c, toks, b, w),
         NEW s \in Nat, NEW o \in Nat, b <= s, s <= o, o <= Len(c),
         NEW r \in Seq(Bytes), NEW cut, Reads(c, s, o, r, cut),
         NEW v \in SUBSET w, v \subseteq 1 .. n, \A x \in v : x \notin cut,
         \A i \in 1 .. Len(c) : b < i /\ i <= s => c[i] \notin v
  PROVE  Known(c, toks \o r, o, v)
<1> DEFINE t == toks \o r
           m == Len(toks)
<1>1. /\ Len(c) \in Nat /\ m \in Nat /\ Len(r) \in Nat /\ Len(t) = m + Len(r)
      /\ \A k \in 1 .. m : t[k] = toks[k] /\ k \in 1 .. Len(t)
      /\ \A k \in 1 .. Len(r) : t[m + k] = r[k] /\ m + k \in 1 .. Len(t)
      /\ \A k \in 1 .. Len(t) : k \in 1 .. m \/ (k > m /\ k - m \in 1 .. Len(r) /\ t[k] = r[k - m])
  <2>1. Len(c) \in Nat
    BY LiesSays
  <2> QED
    BY <2>1
<1>2. \A x \in v : x \in w /\ x \in Int /\ x \notin {LF, CR} /\ x \in Int \ {LF, CR}
  BY DEF LF, CR
<1>3. /\ \A k \in 1 .. Len(r) : \A x \in Range(r[k]) : \E i \in 1 .. Len(c) : i > s /\ i <= o /\ c[i] = x
      /\ \A k, l \in 1 .. Len(r) : \A x \in Int \ {LF, CR} : r[k] = <<x, x>> /\ r[l] = <<x, x>> => k = l
      /\ \A i \in 1 .. Len(c) : i > s /\ i <= o /\ c[i] \notin {LF, CR} /\ c[i] \notin cut =>
           (i = s + 1 /\ s >= 1 /\ c[s] = c[i]) \/ \E k \in 1 .. Len(r) : r[k] = <<c[i], c[i]>>
      /\ o > s /\ c[o] \notin {LF, CR} /\ (o = 1 \/ c[o - 1] # c[o]) => c[o] \in cut
  BY DEF Reads
<1>4. \A i, j \in 1 .. Len(c) : c[i] = c[j] /\ c[i] \notin {LF, CR} => i <= j + 1
  BY LiesSays, Zenon
<1>5. /\ \A k, l \in 1 .. m : \A x \in w : toks[k] = <<x, x>> /\ toks[l] = <<x, x>> => k = l
      /\ \A i \in 1 .. Len(c) : \A k \in 1 .. m : c[i] \in w /\ c[i] \in Range(toks[k]) => i <= b
      /\ \A i \in 1 .. Len(c) : i <= b /\ c[i] \in w => \E k \in 1 .. m : toks[k] = <<c[i], c[i]>>
      /\ b >= 1 /\ (b = 1 \/ c[b - 1] # c[b]) => c[b] \notin w
  BY KnownSays
<1> HIDE DEF t, m
\* A line that came before and is read again: it would lie ahead of what was passed.
<1>6. ASSUME NEW k \in 1 .. m, NEW l \in 1 .. Len(r), NEW x \in v, toks[k] = <<x, x>>, r[l] = <<x, x>> PROVE FALSE
  <2>1. x \in Range(<<x, x>>)
    <3>1. 1 \in DOMAIN <<x, x>> /\ <<x, x>>[1] = x
      OBVIOUS
    <3> QED
      BY <3>1 DEF Range
  <2>2. PICK i \in 1 .. Len(c) : i > s /\ i <= o /\ c[i] = x
    BY <1>3, <1>6, <2>1
  <2>3. i <= b
    BY <1>2, <1>5, <1>6, <2>1, <2>2
  <2> QED
    BY <1>1, <2>2, <2>3
<1>7. ASSUME NEW k \in 1 .. Len(t), NEW l \in 1 .. Len(t), NEW x \in v, t[k] = <<x, x>>, t[l] = <<x, x>> PROVE k = l
  <2>1. CASE k \in 1 .. m /\ l \in 1 .. m
    <3>1. toks[k] = <<x, x>> /\ toks[l] = <<x, x>> /\ x \in w
      BY <1>1, <1>7, <2>1
    <3> QED
      BY <1>5, <2>1, <3>1
  <2>2. CASE k \notin 1 .. m /\ l \notin 1 .. m
    <3>1. /\ k - m \in 1 .. Len(r) /\ t[k] = r[k - m] /\ l - m \in 1 .. Len(r) /\ t[l] = r[l - m]
      BY <1>1, <2>2
    <3> DEFINE a == k - m
               d == l - m
    <3>2. a \in 1 .. Len(r) /\ d \in 1 .. Len(r) /\ r[a] = <<x, x>> /\ r[d] = <<x, x>>
      BY <1>7, <3>1
    <3> HIDE DEF a, d
    <3>3. a = d
      BY <1>2, <1>3, <3>2
    <3> QED
      BY <1>1, <3>3 DEF a, d
  <2>3. CASE k \in 1 .. m /\ l \notin 1 .. m
    <3>1. l - m \in 1 .. Len(r) /\ t[l] = r[l - m] /\ t[k] = toks[k]
      BY <1>1, <2>3
    <3> QED
      BY <1>6, <1>7, <2>3, <3>1
  <2>4. CASE k \notin 1 .. m /\ l \in 1 .. m
    <3>1. k - m \in 1 .. Len(r) /\ t[k] = r[k - m] /\ t[l] = toks[l]
      BY <1>1, <2>4
    <3> QED
      BY <1>6, <1>7, <2>4, <3>1
  <2> QED
    BY <2>1, <2>2, <2>3, <2>4
<1>8. ASSUME NEW i \in 1 .. Len(c), NEW k \in 1 .. Len(t), c[i] \in v, c[i] \in Range(t[k]) PROVE i <= o
  <2>1. CASE k \in 1 .. m
    <3>1. i <= b
      BY <1>1, <1>2, <1>5, <1>8, <2>1
    <3> QED
      BY <1>1, <3>1
  <2>2. CASE k \notin 1 .. m
    <3>1. k - m \in 1 .. Len(r) /\ t[k] = r[k - m]
      BY <1>1, <2>2
    <3>2. PICK j \in 1 .. Len(c) : j > s /\ j <= o /\ c[j] = c[i]
      BY <1>3, <1>8, <3>1
    <3>3. i <= j + 1
      BY <1>2, <1>4, <1>8, <3>2
    <3> SUFFICES ASSUME i > o PROVE FALSE
      BY <1>1
    <3>4. j = o /\ i = o + 1 /\ o > s /\ o \in 1 .. Len(c) /\ c[o] = c[i]
      BY <1>1, <3>2, <3>3
    <3>5. o = 1 \/ c[o - 1] # c[o]
      <4> SUFFICES ASSUME o # 1, c[o - 1] = c[o] PROVE FALSE
        OBVIOUS
      <4> DEFINE z == o - 1
      <4>1. z \in 1 .. Len(c) /\ z + 1 = o /\ c[i] = c[z]
        BY <1>1, <3>4
      <4> HIDE DEF z
      <4>2. i <= z + 1
        BY <1>2, <1>4, <1>8, <4>1
      <4> QED
        BY <1>1, <3>4, <4>1, <4>2
    <3>6. c[o] \in cut
      BY <1>2, <1>3, <1>8, <3>4, <3>5
    <3> QED
      BY <1>8, <3>4, <3>6
  <2> QED
    BY <2>1, <2>2
<1>9. ASSUME NEW i \in 1 .. Len(c), i <= b, c[i] \in v PROVE \E k \in 1 .. Len(t) : t[k] = <<c[i], c[i]>>
  <2>1. PICK k \in 1 .. m : toks[k] = <<c[i], c[i]>>
    BY <1>2, <1>5, <1>9
  <2> QED
    BY <1>1, <2>1
<1>10. ASSUME NEW i \in 1 .. Len(c), i <= o, c[i] \in v PROVE \E k \in 1 .. Len(t) : t[k] = <<c[i], c[i]>>
  <2>1. CASE i <= b
    BY <1>9, <1>10, <2>1
  <2>2. CASE b < i /\ i <= s
    BY <1>10, <2>2
  <2>3. CASE i > s
    <3>1. c[i] \notin {LF, CR} /\ c[i] \notin cut
      BY <1>2, <1>10
    <3>2. CASE \E k \in 1 .. Len(r) : r[k] = <<c[i], c[i]>>
      <4>1. PICK k \in 1 .. Len(r) : r[k] = <<c[i], c[i]>>
        BY <3>2
      <4> QED
        BY <1>1, <4>1
    <3>3. CASE i = s + 1 /\ s >= 1 /\ c[s] = c[i]
      <4>1. s \in 1 .. Len(c) /\ c[s] \in v
        BY <1>1, <1>10, <3>3
      <4>2. s <= b
        BY <1>1, <4>1
      <4> QED
        BY <1>9, <3>3, <4>1, <4>2
    <3> QED
      BY <1>3, <1>10, <2>3, <3>1, <3>2, <3>3
  <2> QED
    BY <1>1, <2>1, <2>2, <2>3
<1>11. ASSUME o >= 1, o = 1 \/ c[o - 1] # c[o] PROVE c[o] \notin v
  <2> SUFFICES ASSUME c[o] \in v PROVE FALSE
    OBVIOUS
  <2>1. CASE o > s
    <3>1. c[o] \in cut
      BY <1>2, <1>3, <1>11, <2>1
    <3> QED
      BY <3>1
  <2>2. CASE o = s /\ s > b
    <3>1. o \in 1 .. Len(c)
      BY <1>1, <1>11
    <3> QED
      BY <2>2, <3>1
  <2>3. CASE o = s /\ s = b
    BY <1>2, <1>5, <1>11, <2>3
  <2> QED
    BY <2>1, <2>2, <2>3
<1> QED
  BY <1>7, <1>8, <1>10, <1>11 DEF Known, t

\* A read that was dropped: none of what it passed counts.
LEMMA KnownPassed ==
  ASSUME NEW c, NEW toks, NEW b \in Nat, NEW w, Known(c, toks, b, w),
         NEW o \in Nat, b <= o, o <= Len(c), Len(c) \in Nat,
         NEW v \in SUBSET w, \A i \in 1 .. Len(c) : i <= o => c[i] \notin v
  PROVE  Known(c, toks, o, v)
<1>1. /\ \A k, l \in 1 .. Len(toks) : \A n \in v : toks[k] = <<n, n>> /\ toks[l] = <<n, n>> => k = l
      /\ \A i \in 1 .. Len(c) : \A k \in 1 .. Len(toks) : c[i] \in v /\ c[i] \in Range(toks[k]) => i <= b
  BY KnownSays
<1>2. \A i \in 1 .. Len(c) : i <= b => i <= o
  OBVIOUS
<1>3. o >= 1 => c[o] \notin v
  BY DEF Known
<1> QED
  BY <1>1, <1>2, <1>3 DEF Known

\* A file that was written to, or another one was.
LEMMA KnownWritten ==
  ASSUME NEW c, NEW toks, NEW b \in Nat, NEW w, Known(c, toks, b, w), Len(c) \in Nat, b <= Len(c),
         NEW d, Len(d) \in Nat, Extends(d, c), NEW v,
         \A k \in 1 .. Len(toks) : \A x \in Range(toks[k]) : x \in v => x \in w,
         \A i \in 1 .. Len(c) : c[i] \in v => c[i] \in w,
         \A i \in 1 .. Len(d) : i > Len(c) /\ d[i] \in v => \A k \in 1 .. Len(toks) : d[i] \notin Range(toks[k])
  PROVE  Known(d, toks, b, v)
<1>1. Len(c) <= Len(d) /\ \A i \in 1 .. Len(c) : d[i] = c[i]
  BY DEF Extends
<1>2. /\ \A k, l \in 1 .. Len(toks) : \A n \in w : toks[k] = <<n, n>> /\ toks[l] = <<n, n>> => k = l
      /\ \A i \in 1 .. Len(c) : \A k \in 1 .. Len(toks) : c[i] \in w /\ c[i] \in Range(toks[k]) => i <= b
      /\ \A i \in 1 .. Len(c) : i <= b /\ c[i] \in w => \E k \in 1 .. Len(toks) : toks[k] = <<c[i], c[i]>>
      /\ b >= 1 /\ (b = 1 \/ c[b - 1] # c[b]) => c[b] \notin w
  BY KnownSays
<1>3. ASSUME NEW k \in 1 .. Len(toks), NEW l \in 1 .. Len(toks), NEW n \in v, toks[k] = <<n, n>>, toks[l] = <<n, n>> PROVE k = l
  <2>1. n \in Range(toks[k])
    <3>1. 1 \in DOMAIN <<n, n>> /\ <<n, n>>[1] = n
      OBVIOUS
    <3> QED
      BY <1>3, <3>1 DEF Range
  <2>2. n \in w
    BY <2>1
  <2> QED
    BY <1>2, <1>3, <2>2
<1>4. ASSUME NEW i \in 1 .. Len(d), NEW k \in 1 .. Len(toks), d[i] \in v, d[i] \in Range(toks[k]) PROVE i <= b
  <2>1. i \in 1 .. Len(c)
    BY <1>4
  <2> QED
    BY <1>1, <1>2, <1>4, <2>1
<1>5. ASSUME NEW i \in 1 .. Len(d), i <= b, d[i] \in v PROVE \E k \in 1 .. Len(toks) : toks[k] = <<d[i], d[i]>>
  <2>1. i \in 1 .. Len(c)
    BY <1>5
  <2> QED
    BY <1>1, <1>2, <1>5, <2>1
<1>6. ASSUME b >= 1, b = 1 \/ d[b - 1] # d[b] PROVE d[b] \notin v
  <2>1. b \in 1 .. Len(c) /\ (b # 1 => b - 1 \in 1 .. Len(c))
    BY <1>6
  <2>2. d[b] = c[b] /\ (b # 1 => d[b - 1] = c[b - 1])
    BY <1>1, <2>1
  <2> QED
    BY <1>2, <1>6, <2>1, <2>2
<1> QED
  BY <1>3, <1>4, <1>5, <1>6 DEF Known

\* A file that is new again.
LEMMA KnownNone ==
  ASSUME NEW c, NEW toks, NEW b, NEW w, Known(c, toks, b, w)
  PROVE  Known(<<>>, toks, 0, w)
BY DEF Known

\* A place further back, when no line between the two counts.
LEMMA KnownBack ==
  ASSUME NEW c, NEW h, NEW n \in Nat, NEW mayCR, Lies(c, h, n, mayCR),
         NEW toks, NEW o \in Nat, NEW w, Known(c, toks, o, w), o <= Len(c),
         NEW p \in Nat, p <= o, NEW v \in SUBSET w, \A x \in v : x \notin {LF, CR},
         \A i \in 1 .. Len(c) : p < i /\ i <= o => c[i] \notin v
  PROVE  Known(c, toks, p, v)
<1>1. Len(c) \in Nat
  BY LiesSays
<1>2. /\ \A k, l \in 1 .. Len(toks) : \A x \in w : toks[k] = <<x, x>> /\ toks[l] = <<x, x>> => k = l
      /\ \A i \in 1 .. Len(c) : \A k \in 1 .. Len(toks) : c[i] \in w /\ c[i] \in Range(toks[k]) => i <= o
      /\ \A i \in 1 .. Len(c) : i <= o /\ c[i] \in w => \E k \in 1 .. Len(toks) : toks[k] = <<c[i], c[i]>>
      /\ o >= 1 /\ (o = 1 \/ c[o - 1] # c[o]) => c[o] \notin w
  BY KnownSays
<1>3. ASSUME NEW i \in 1 .. Len(c), NEW k \in 1 .. Len(toks), c[i] \in v, c[i] \in Range(toks[k]) PROVE i <= p
  <2>1. i <= o
    BY <1>2, <1>3
  <2> QED
    BY <1>3, <2>1
<1>4. ASSUME NEW i \in 1 .. Len(c), i <= p, c[i] \in v PROVE \E k \in 1 .. Len(toks) : toks[k] = <<c[i], c[i]>>
  <2>1. i <= o /\ c[i] \in w
    BY <1>4
  <2> QED
    BY <1>2, <2>1
<1>5. ASSUME p >= 1, p = 1 \/ c[p - 1] # c[p] PROVE c[p] \notin v
  <2> SUFFICES ASSUME c[p] \in v PROVE FALSE
    OBVIOUS
  <2>1. CASE p = o
    BY <1>2, <1>5, <2>1
  <2>2. CASE p < o
    <3>1. p \in 1 .. Len(c) /\ p + 1 \in 1 .. Len(c) /\ p < p + 1 /\ p + 1 <= o /\ p # Len(c)
      BY <1>1, <1>5, <2>2
    <3>2. \A i \in 1 .. Len(c) : c[i] \notin {LF, CR} =>
            (i = Len(c) /\ h # 0) \/ \E q \in 1 .. Len(c) : LineAt(c, q) /\ (i = q \/ i = q + 1)
      BY LiesSays, Zenon
    <3>3. c[p] \notin {LF, CR}
      OBVIOUS
    <3>4. PICK q \in 1 .. Len(c) : LineAt(c, q) /\ (p = q \/ p = q + 1)
      BY <3>1, <3>2, <3>3
    <3>5. c[q + 1] = c[q]
      BY <3>4 DEF LineAt
    <3>6. CASE p = q
      <4>1. c[p + 1] \notin v
        BY <3>1
      <4> QED
        BY <3>5, <3>6, <4>1
    <3>7. CASE p = q + 1
      <4>1. p # 1 /\ p - 1 = q
        BY <3>7
      <4> QED
        BY <1>5, <3>5, <3>7, <4>1
    <3> QED
      BY <3>4, <3>6, <3>7
  <2> QED
    BY <2>1, <2>2
<1> QED
  BY <1>2, <1>3, <1>4, <1>5 DEF Known

\* More lines of a file that is at its beginning, none of which counts.
LEMMA KnownMore ==
  ASSUME NEW c, NEW toks \in Seq(Bytes), NEW w, Known(c, toks, 0, w), NEW r \in Seq(Bytes), NEW v \in SUBSET w,
         \A k \in 1 .. Len(r) : \A x \in Range(r[k]) : x \notin v
  PROVE  Known(c, toks \o r, 0, v)
<1> DEFINE t == toks \o r
           m == Len(toks)
<1>1. \A k \in 1 .. Len(t) : (k \in 1 .. m /\ t[k] = toks[k]) \/ (k - m \in 1 .. Len(r) /\ t[k] = r[k - m])
  OBVIOUS
<1>2. /\ \A k, l \in 1 .. m : \A x \in w : toks[k] = <<x, x>> /\ toks[l] = <<x, x>> => k = l
      /\ \A i \in 1 .. Len(c) : \A k \in 1 .. m : c[i] \in w /\ c[i] \in Range(toks[k]) => i <= 0
  BY KnownSays
<1> HIDE DEF t, m
<1>3. ASSUME NEW k \in 1 .. Len(t), NEW x \in v, x \in Range(t[k]) PROVE k \in 1 .. m /\ t[k] = toks[k]
  BY <1>1, <1>3
<1>4. ASSUME NEW k \in 1 .. Len(t), NEW l \in 1 .. Len(t), NEW x \in v, t[k] = <<x, x>>, t[l] = <<x, x>> PROVE k = l
  <2>1. x \in Range(<<x, x>>)
    <3>1. 1 \in DOMAIN <<x, x>> /\ <<x, x>>[1] = x
      OBVIOUS
    <3> QED
      BY <3>1 DEF Range
  <2>2. /\ k \in 1 .. m /\ t[k] = toks[k] /\ l \in 1 .. m /\ t[l] = toks[l]
    BY <1>3, <1>4, <2>1
  <2> QED
    BY <1>2, <1>4, <2>2
<1>5. ASSUME NEW i \in 1 .. Len(c), NEW k \in 1 .. Len(t), c[i] \in v, c[i] \in Range(t[k]) PROVE i <= 0
  <2>1. k \in 1 .. m /\ t[k] = toks[k]
    BY <1>3, <1>5
  <2> QED
    BY <1>2, <1>5, <2>1
<1>6. \A i \in 1 .. Len(c) : ~(i <= 0)
  OBVIOUS
<1> QED
  BY <1>4, <1>5, <1>6 DEF Known, t

-----------------------------------------------------------------------------
(* The invariant. *)

\* The lines that count: nothing excuses them.
Counted == (1 .. lines) \ excused

TailTypes ==
  /\ lines \in Nat /\ content \in [Files -> Bytes] /\ half \in [Files -> Nat]
  /\ state \in [Files -> Seen \cup {Unseen}] /\ ml \in [Files -> MlFile]
  /\ tokens \in [Files -> Seq(Bytes)] /\ records \in [Files -> Seq(Seq(Bytes))] /\ spilt \in BOOLEAN
  /\ found \in [Files -> Nat \cup {None}] /\ (Reading \/ \A f \in Files : found[f] = None)

\* No line is read that was not begun.
TokensBegun(f) == f \in Sound => \A k \in 1 .. Len(tokens[f]) : \A x \in Range(tokens[f][k]) : x <= lines

FileKnown(f) ==
  /\ FileInv(f) /\ LinesLieIn(f) /\ TokensBegun(f)
  /\ f \in Sound => Known(content[f], tokens[f], Base(f), Counted)

RecordsKept(f) == ~spilt => BytesOf(records[f], ml[f].pending) = FlattenSeq(tokens[f])

TailInv == TailTypes /\ \A f \in Files : FileKnown(f) /\ RecordsKept(f)

\* A writer adds to a file what begins a line or ends one.
LEMMA WriterKeeps ==
  ASSUME TailInv, NEW f \in Files, lines' \in {lines, lines + 1},
         content' \in [Files -> Bytes], half' \in [Files -> Nat],
         \A g \in Files \ {f} : content'[g] = content[g] /\ half'[g] = half[g],
         Extends(content'[f], content[f]), Lies(content'[f], half'[f], lines', f \in Crlf),
         \A i \in 1 .. Len(content'[f]) : i > Len(content[f]) /\ content'[f][i] \in (1 .. lines') \ excused =>
           \/ content'[f][i] > lines
           \/ f \in Sound => \A k \in 1 .. Len(tokens[f]) : content'[f][i] \notin Range(tokens[f][k]),
         UNCHANGED <<replaced, found, swapped, state, ml, tokens, records, excused, spilt>>
  PROVE  TailInv'
<1>1. TailTypes /\ \A g \in Files : FileKnown(g) /\ RecordsKept(g)
  BY DEF TailInv
<1>2. lines \in Nat /\ lines' \in Nat /\ lines <= lines'
  BY <1>1 DEF TailTypes
<1>3. TailTypes'
  BY <1>1, <1>2 DEF TailTypes, Reading
<1>4. \A g \in Files : RecordsKept(g)'
  BY <1>1 DEF RecordsKept
<1>5. ASSUME NEW g \in Files PROVE FileKnown(g)'
  <2>1. FileInv(g) /\ LinesLieIn(g) /\ TokensBegun(g) /\ (g \in Sound => Known(content[g], tokens[g], Base(g), Counted))
    BY <1>1 DEF FileKnown
  <2>2. /\ content[g] \in Bytes /\ content'[g] \in Bytes /\ Len(content[g]) \in Nat /\ Len(content'[g]) \in Nat
        /\ state'[g] = state[g] /\ state[g] \in Seen \cup {Unseen} /\ tokens'[g] = tokens[g] /\ tokens[g] \in Seq(Bytes)
    BY <1>1 DEF TailTypes, Bytes
  <2>3. Extends(content'[g], content[g])
    <3>1. CASE g = f
      BY <3>1
    <3>2. CASE g # f
      <4>1. content'[g] = content[g]
        BY <3>2
      <4> QED
        BY <2>2, <4>1 DEF Extends
    <3> QED
      BY <3>1, <3>2
  <2>4. Len(content[g]) <= Len(content'[g])
    BY <2>3 DEF Extends
  <2>5. FileInv(g)'
    <3>1. /\ state[g] # Unseen => state[g].size \in Nat /\ state[g].offset \in Nat
          /\ found[g] \in Nat \cup {None} /\ found'[g] = found[g]
      BY <1>1, <2>2 DEF Seen, TailTypes
    <3>2. (found[g] # None /\ g \notin swapped => found[g] <= Len(content'[g]))
      BY <2>1, <2>2, <2>4, <3>1 DEF FileInv, Size
    <3> QED
      BY <2>1, <2>2, <2>4, <3>1, <3>2 DEF FileInv, Size
  <2>6. Lies(content'[g], half'[g], lines', g \in Crlf)
    <3>1. CASE g = f
      BY <3>1
    <3>2. CASE g # f
      <4>1. content'[g] = content[g] /\ half'[g] = half[g]
        BY <3>2
      <4>2. Lies(content[g], half[g], lines, g \in Crlf)
        BY <2>1 DEF LinesLieIn
      <4>3. PICK c, h, mayCR : c = content[g] /\ h = half[g] /\ mayCR = (g \in Crlf)
        OBVIOUS
      <4>4. Lies(c, h, lines, mayCR)
        BY <4>2, <4>3
      <4>5. Lies(c, h, lines + 1, mayCR)
        BY <1>2, <4>4, LiesOn
      <4> QED
        BY <4>1, <4>3, <4>4, <4>5
    <3> QED
      BY <3>1, <3>2
  <2>7. LinesLieIn(g)'
    BY <1>2, <2>6 DEF LinesLieIn
  <2>8. g \in Sound => \A k \in 1 .. Len(tokens[g]) : \A x \in Range(tokens[g][k]) : x \in Int /\ x <= lines
    <3>1. ASSUME NEW k \in 1 .. Len(tokens[g]), NEW x \in Range(tokens[g][k]) PROVE x \in Int
      <4>1. tokens[g][k] \in Seq(Int)
        BY <2>2 DEF Bytes
      <4> QED
        BY <4>1 DEF Range
    <3> QED
      BY <2>1, <3>1 DEF TokensBegun
  <2>9. TokensBegun(g)'
    <3>1. g \in Sound => \A k \in 1 .. Len(tokens'[g]) : \A x \in Range(tokens'[g][k]) : x <= lines'
      <4> SUFFICES ASSUME g \in Sound, NEW k \in 1 .. Len(tokens[g]), NEW x \in Range(tokens[g][k]) PROVE x <= lines'
        BY <2>2
      <4>1. x \in Int /\ x <= lines
        BY <2>8
      <4> QED
        BY <1>2, <4>1
    <3> QED
      BY <3>1 DEF TokensBegun, Sound
  <2>10. ASSUME g \in Sound PROVE Known(content'[g], tokens'[g], Base(g)', Counted')
    <3> DEFINE c == content[g]
               d == content'[g]
               toks == tokens[g]
               b == Base(g)
               w == Counted
               v == Counted'
    <3>1. Known(c, toks, b, w)
      BY <2>1, <2>10
    <3>2. b \in Nat /\ b <= Len(c)
      <4>1. Size(g) \in Nat /\ b \in 0 .. Size(g) /\ Size(g) = Len(c)
        BY <2>1, BaseIs
      <4> HIDE DEF b, c
      <4> QED
        BY <4>1
    <3>3. Base(g)' = b /\ tokens'[g] = toks
      BY DEF Base, FirstSight
    <3>4. w = (1 .. lines) \ excused /\ v = (1 .. lines') \ excused
      BY DEF Counted
    <3>5. \A k \in 1 .. Len(toks) : \A x \in Range(toks[k]) : x \in v => x \in w
      BY <1>2, <2>8, <2>10, <3>4
    <3>6. \A i \in 1 .. Len(c) : c[i] \in v => c[i] \in w
      <4>1. \A i \in 1 .. Len(c) : c[i] \in {LF, CR} \cup 1 .. lines
        <5>1. Lies(content[g], half[g], lines, g \in Crlf)
          BY <2>1 DEF LinesLieIn
        <5> QED
          BY <5>1 DEF Lies
      <4>2. \A x \in v : x \in Int /\ x >= 1 /\ x \notin {LF, CR} /\ x \notin excused
        BY <1>2, <3>4 DEF LF, CR
      <4> HIDE DEF c, v, w
      <4> QED
        BY <3>4, <4>1, <4>2
    <3>7. \A i \in 1 .. Len(d) : i > Len(c) /\ d[i] \in v => \A k \in 1 .. Len(toks) : d[i] \notin Range(toks[k])
      <4>1. CASE g = f
        <5> SUFFICES ASSUME NEW i \in 1 .. Len(d), i > Len(c), d[i] \in v, NEW k \in 1 .. Len(toks), d[i] \in Range(toks[k])
                     PROVE  FALSE
          OBVIOUS
        <5>1. d[i] \in Int /\ d[i] <= lines
          BY <2>8, <2>10
        <5>2. d[i] \in (1 .. lines') \ excused
          BY <3>4
        <5> QED
          BY <1>2, <2>10, <4>1, <5>1, <5>2
      <4>2. CASE g # f
        <5>1. d = c
          BY <4>2
        <5> QED
          BY <2>2, <5>1
      <4> QED
        BY <4>1, <4>2
    <3>8. Extends(d, c) /\ Len(d) \in Nat /\ Len(c) \in Nat
      BY <2>2, <2>3
    <3> HIDE DEF c, d, toks, b, w, v
    <3>9. Known(d, toks, b, v)
      BY <3>1, <3>2, <3>5, <3>6, <3>7, <3>8, KnownWritten
    <3> QED
      BY <3>3, <3>9 DEF d, v
  <2> QED
    BY <2>5, <2>7, <2>9, <2>10 DEF FileKnown, Sound
<1> QED
  BY <1>3, <1>4, <1>5 DEF TailInv

-----------------------------------------------------------------------------
(* The writer keeps it. *)

\* What is added to a file follows what it had.
LEMMA Added ==
  ASSUME NEW c \in Bytes, NEW e \in Bytes
  PROVE  /\ c \o e \in Bytes /\ Len(c \o e) = Len(c) + Len(e) /\ Len(c) \in Nat /\ Len(e) \in Nat
         /\ Extends(c \o e, c) /\ \A j \in 1 .. Len(e) : (c \o e)[Len(c) + j] = e[j]
<1> DEFINE V == Int
           d == c \o e
<1>1. c \in Seq(V) /\ e \in Seq(V)
  BY DEF Bytes
<1> HIDE DEF V
<1>2. /\ d \in Seq(V) /\ Len(d) = Len(c) + Len(e) /\ Len(c) \in Nat /\ Len(e) \in Nat
      /\ \A i \in 1 .. Len(c) : d[i] = c[i]
      /\ \A j \in 1 .. Len(e) : d[Len(c) + j] = e[j]
  BY <1>1
<1> HIDE DEF d
<1>3. Len(c) <= Len(d)
  BY <1>2
<1> QED
  BY <1>2, <1>3 DEF d, V, Bytes, Extends

\* What a writer adds ends a line.
Adds(d, c, p, mayCR) ==
  /\ d \in Bytes /\ Extends(d, c) /\ Ended(d, Len(c) + Len(p), mayCR)
  /\ \A j \in 1 .. Len(p) : d[Len(c) + j] = p[j]
  /\ \A i \in 1 .. Len(d) : i > Len(c) => d[i] \in {LF, CR} \cup {p[j] : j \in 1 .. Len(p)}

\* A whole line and its end are such an addition.
LEMMA LineAdded ==
  ASSUME NEW c \in Bytes, NEW p \in Bytes, NEW f, NEW mayCR, mayCR \in BOOLEAN, mayCR <=> f \in Crlf
  PROVE  Adds(c \o (p \o End(f)), c, p, mayCR)
<1> DEFINE x == End(f)
           e == p \o x
           d == c \o e
<1>1. x \in Bytes /\ ((Len(x) = 1 /\ x[1] = LF) \/ (mayCR = TRUE /\ Len(x) = 2 /\ x[1] = CR /\ x[2] = LF))
  <2>1. CASE f \in Crlf
    <3>1. x = <<CR, LF>> /\ mayCR = TRUE
      BY <2>1 DEF End
    <3> QED
      BY <3>1 DEF Bytes, CR, LF
  <2>2. CASE f \notin Crlf
    <3>1. x = <<LF>>
      BY <2>2 DEF End
    <3> QED
      BY <3>1 DEF Bytes, CR, LF
  <2> QED
    BY <2>1, <2>2
<1> HIDE DEF x
<1>2. /\ e \in Bytes /\ Len(e) = Len(p) + Len(x) /\ Len(p) \in Nat /\ Len(x) \in Nat
      /\ Extends(e, p) /\ \A j \in 1 .. Len(x) : e[Len(p) + j] = x[j]
  BY <1>1, Added
<1> HIDE DEF e
<1>3. /\ d \in Bytes /\ Len(d) = Len(c) + Len(e) /\ Len(c) \in Nat
      /\ Extends(d, c) /\ \A j \in 1 .. Len(e) : d[Len(c) + j] = e[j]
  BY <1>2, Added
<1> HIDE DEF d
<1>4. \A j \in 1 .. Len(p) : e[j] = p[j] /\ j \in 1 .. Len(e)
  BY <1>1, <1>2 DEF Extends
<1>5. \A j \in 1 .. Len(p) : d[Len(c) + j] = p[j]
  BY <1>3, <1>4
<1>6. \A j \in 1 .. Len(x) : d[Len(c) + Len(p) + j] = x[j]
  <2> SUFFICES ASSUME NEW j \in 1 .. Len(x) PROVE d[Len(c) + Len(p) + j] = x[j]
    OBVIOUS
  <2>1. Len(p) + j \in 1 .. Len(e) /\ Len(c) + Len(p) + j = Len(c) + (Len(p) + j)
    BY <1>2, <1>3
  <2>2. d[Len(c) + (Len(p) + j)] = e[Len(p) + j]
    BY <1>3, <2>1
  <2> QED
    BY <1>2, <2>1, <2>2
<1> DEFINE z == Len(c) + Len(p)
<1>7. z \in Nat /\ Len(d) = z + Len(x) /\ \A j \in 1 .. Len(x) : d[z + j] = x[j]
  BY <1>2, <1>3, <1>6
<1> HIDE DEF z
<1>8. Ended(d, z, mayCR)
  <2>1. CASE Len(x) = 1 /\ x[1] = LF
    <3>1. 1 \in 1 .. Len(x)
      BY <2>1
    <3> QED
      BY <1>7, <2>1, <3>1 DEF Ended
  <2>2. CASE mayCR = TRUE /\ Len(x) = 2 /\ x[1] = CR /\ x[2] = LF
    <3>1. 1 \in 1 .. Len(x) /\ 2 \in 1 .. Len(x)
      BY <2>2
    <3> QED
      BY <1>7, <2>2, <3>1 DEF Ended
  <2> QED
    BY <1>1, <2>1, <2>2
<1>9. ASSUME NEW i \in 1 .. Len(d), i > Len(c) PROVE d[i] \in {LF, CR} \cup {p[j] : j \in 1 .. Len(p)}
  <2>1. CASE i <= z
    <3> DEFINE j == i - Len(c)
    <3>1. j \in 1 .. Len(p) /\ i = Len(c) + j
      BY <1>2, <1>3, <1>9, <2>1 DEF z
    <3> HIDE DEF j
    <3> QED
      BY <1>5, <3>1
  <2>2. CASE i > z
    <3> DEFINE j == i - z
    <3>1. j \in 1 .. Len(x) /\ i = z + j
      BY <1>2, <1>7, <2>2
    <3> HIDE DEF j
    <3>2. d[i] = x[j]
      BY <1>7, <3>1
    <3>3. x[j] \in {LF, CR}
      <4>1. Len(x) = 1 => j = 1
        BY <3>1
      <4>2. Len(x) = 2 => j = 1 \/ j = 2
        BY <3>1
      <4> QED
        BY <1>1, <4>1, <4>2
    <3> QED
      BY <3>2, <3>3
  <2> QED
    BY <1>7, <2>1, <2>2
<1> QED
  BY <1>3, <1>5, <1>8, <1>9 DEF d, e, x, z, Adds

\* The writer's whole line.
LEMMA WriteLineKeeps == ASSUME TailInv, NEW f \in Files, WriteLine(f) PROVE TailInv'
<1> DEFINE c == content[f]
           l == lines + 1
           p == <<l, l>>
           d == c \o (p \o End(f))
<1>1. TailTypes /\ FileKnown(f)
  BY DEF TailInv
<1>2. /\ half[f] = 0 /\ lines' = l /\ content' = [content EXCEPT ![f] = d] /\ half' = half
      /\ UNCHANGED <<replaced, found, swapped, state, ml, tokens, records, excused, spilt>>
  BY DEF WriteLine, Append2
<1>3. lines \in Nat /\ l \in Nat /\ c \in Bytes /\ p \in Bytes /\ Len(p) = 2 /\ p[1] = l /\ p[2] = l
  BY <1>1 DEF TailTypes, Bytes
<1>4. PICK mayCR \in BOOLEAN : mayCR <=> f \in Crlf
  <2>1. (f \in Crlf) \in BOOLEAN
    OBVIOUS
  <2> QED
    BY <2>1
<1>5. Lies(c, 0, lines, mayCR)
  <2>1. Lies(c, 0, lines, f \in Crlf)
    BY <1>1, <1>2 DEF FileKnown, LinesLieIn
  <2>2. mayCR = (f \in Crlf)
    BY <1>4
  <2> QED
    BY <2>1, <2>2
<1> HIDE DEF c, p
<1>6. /\ d \in Bytes /\ Extends(d, c) /\ Ended(d, Len(c) + Len(p), mayCR)
      /\ \A j \in 1 .. Len(p) : d[Len(c) + j] = p[j]
      /\ \A i \in 1 .. Len(d) : i > Len(c) => d[i] \in {LF, CR} \cup {p[j] : j \in 1 .. Len(p)}
  <2>1. Adds(d, c, p, mayCR)
    BY <1>3, <1>4, LineAdded
  <2> HIDE DEF d
  <2> QED
    BY <2>1 DEF Adds
<1> HIDE DEF d
<1>7. d[Len(c) + 1] = lines + 1 /\ d[Len(c) + 2] = lines + 1 /\ Ended(d, Len(c) + 2, mayCR)
  <2>1. 1 \in 1 .. Len(p) /\ 2 \in 1 .. Len(p)
    BY <1>3
  <2> QED
    BY <1>3, <1>6, <2>1
<1>8. Lies(d, 0, lines + 1, mayCR)
  BY <1>3, <1>5, <1>6, <1>7, LiesWhole
<1>9. /\ lines' \in {lines, lines + 1} /\ content' \in [Files -> Bytes] /\ half' \in [Files -> Nat]
      /\ \A g \in Files \ {f} : content'[g] = content[g] /\ half'[g] = half[g]
      /\ content'[f] = d /\ half'[f] = 0
  BY <1>1, <1>2, <1>6 DEF TailTypes
<1>10. Extends(content'[f], content[f]) /\ Lies(content'[f], half'[f], lines', f \in Crlf)
  <2>1. mayCR = (f \in Crlf)
    BY <1>4
  <2> QED
    BY <1>2, <1>6, <1>8, <1>9, <2>1 DEF c
<1>11. ASSUME NEW i \in 1 .. Len(content'[f]), i > Len(content[f]), content'[f][i] \in (1 .. lines') \ excused
       PROVE  content'[f][i] > lines
  <2>1. d[i] \in {LF, CR} \cup {p[j] : j \in 1 .. Len(p)} /\ d[i] \notin {LF, CR}
    BY <1>2, <1>3, <1>6, <1>9, <1>11 DEF c, LF, CR
  <2>2. \A j \in 1 .. Len(p) : p[j] = l
    <3>1. \A j \in 1 .. Len(p) : j = 1 \/ j = 2
      BY <1>3
    <3> QED
      BY <1>3, <3>1
  <2>3. d[i] = l
    BY <2>1, <2>2
  <2> QED
    BY <1>3, <1>9, <2>3
<1> QED
  BY <1>2, <1>9, <1>10, <1>11, WriterKeeps

\* The writer's half line.
LEMMA WriteHalfKeeps == ASSUME TailInv, NEW f \in Files, WriteHalf(f) PROVE TailInv'
<1> DEFINE c == content[f]
           l == lines + 1
           p == <<l>>
           d == c \o p
<1>1. TailTypes /\ FileKnown(f)
  BY DEF TailInv
<1>2. /\ half[f] = 0 /\ lines' = l /\ content' = [content EXCEPT ![f] = d] /\ half' = [half EXCEPT ![f] = l]
      /\ UNCHANGED <<replaced, found, swapped, state, ml, tokens, records, excused, spilt>>
  BY DEF WriteHalf, Append2
<1>3. lines \in Nat /\ l \in Nat /\ c \in Bytes /\ p \in Bytes /\ Len(p) = 1 /\ p[1] = l
  BY <1>1 DEF TailTypes, Bytes
<1>4. PICK mayCR \in BOOLEAN : mayCR = (f \in Crlf)
  <2>1. (f \in Crlf) \in BOOLEAN
    OBVIOUS
  <2> QED
    BY <2>1
<1>5. Lies(c, 0, lines, mayCR)
  BY <1>1, <1>2, <1>4 DEF FileKnown, LinesLieIn
<1> HIDE DEF c, p
<1>6. /\ d \in Bytes /\ Len(d) = Len(c) + 1 /\ Len(c) \in Nat /\ Extends(d, c) /\ d[Len(c) + 1] = lines + 1
  <2>1. /\ d \in Bytes /\ Len(d) = Len(c) + Len(p) /\ Len(c) \in Nat /\ Extends(d, c)
        /\ \A j \in 1 .. Len(p) : d[Len(c) + j] = p[j]
    BY <1>3, Added
  <2>2. 1 \in 1 .. Len(p)
    BY <1>3
  <2> QED
    BY <1>3, <2>1, <2>2
<1> HIDE DEF d
<1>7. Lies(d, lines + 1, lines + 1, mayCR)
  BY <1>3, <1>5, <1>6, LiesHalf
<1>8. /\ lines' \in {lines, lines + 1} /\ content' \in [Files -> Bytes] /\ half' \in [Files -> Nat]
      /\ \A g \in Files \ {f} : content'[g] = content[g] /\ half'[g] = half[g]
      /\ content'[f] = d /\ half'[f] = l
  BY <1>1, <1>2, <1>3, <1>6 DEF TailTypes
<1>9. Extends(content'[f], content[f]) /\ Lies(content'[f], half'[f], lines', f \in Crlf)
  BY <1>2, <1>4, <1>6, <1>7, <1>8 DEF c
<1>10. ASSUME NEW i \in 1 .. Len(content'[f]), i > Len(content[f]), content'[f][i] \in (1 .. lines') \ excused
       PROVE  content'[f][i] > lines
  <2>1. i = Len(c) + 1
    BY <1>6, <1>8, <1>10 DEF c
  <2> QED
    BY <1>3, <1>6, <1>8, <2>1
<1> QED
  BY <1>2, <1>8, <1>9, <1>10, WriterKeeps

\* The end of a half line may have been read before it was there: then it does not count.
LEMMA WriteRestKeeps == ASSUME TailInv, NEW f \in Files, WriteRest(f) PROVE TailInv'
<1> DEFINE c == content[f]
           h == half[f]
           p == <<h>>
           d == c \o (p \o End(f))
           b == Base(f)
<1>1. TailTypes /\ FileKnown(f)
  BY DEF TailInv
<1>2. /\ h # 0 /\ lines' = lines /\ content' = [content EXCEPT ![f] = d] /\ half' = [half EXCEPT ![f] = 0]
      /\ UNCHANGED <<replaced, found, swapped, state, ml, tokens, records, excused, spilt>>
  BY DEF WriteRest, Append2
<1>3. lines \in Nat /\ h \in Nat /\ c \in Bytes /\ p \in Bytes /\ Len(p) = 1 /\ p[1] = h
  BY <1>1 DEF TailTypes, Bytes
<1>4. PICK mayCR \in BOOLEAN : (mayCR <=> f \in Crlf) /\ mayCR = (f \in Crlf)
  <2>1. (f \in Crlf) \in BOOLEAN
    OBVIOUS
  <2> QED
    BY <2>1
<1>5. Lies(c, h, lines, mayCR)
  BY <1>1, <1>2, <1>4 DEF FileKnown, LinesLieIn
<1>6. b \in Nat /\ b <= Len(c) /\ Len(c) \in Nat
  <2>1. Size(f) \in Nat /\ b \in 0 .. Size(f) /\ Size(f) = Len(c)
    BY <1>1, BaseIs DEF FileKnown
  <2> HIDE DEF b, c
  <2> QED
    BY <2>1
<1> HIDE DEF c, h, p, b
<1>7. /\ d \in Bytes /\ Extends(d, c) /\ Ended(d, Len(c) + Len(p), mayCR)
      /\ \A j \in 1 .. Len(p) : d[Len(c) + j] = p[j]
      /\ \A i \in 1 .. Len(d) : i > Len(c) => d[i] \in {LF, CR} \cup {p[j] : j \in 1 .. Len(p)}
  <2>1. Adds(d, c, p, mayCR)
    BY <1>3, <1>4, LineAdded
  <2> HIDE DEF d
  <2> QED
    BY <2>1 DEF Adds
<1> HIDE DEF d
<1>8. d[Len(c) + 1] = h /\ Ended(d, Len(c) + 1, mayCR)
  <2>1. 1 \in 1 .. Len(p)
    BY <1>3
  <2> QED
    BY <1>3, <1>7, <2>1
<1>9. Lies(d, 0, lines, mayCR)
  BY <1>2, <1>3, <1>5, <1>7, <1>8, LiesRest
<1>10. /\ lines' \in {lines, lines + 1} /\ content' \in [Files -> Bytes] /\ half' \in [Files -> Nat]
       /\ \A g \in Files \ {f} : content'[g] = content[g] /\ half'[g] = half[g]
       /\ content'[f] = d /\ half'[f] = 0
  BY <1>1, <1>2, <1>7 DEF TailTypes
<1>11. Extends(content'[f], content[f]) /\ Lies(content'[f], half'[f], lines', f \in Crlf)
  BY <1>2, <1>4, <1>7, <1>9, <1>10 DEF c
<1>12. ASSUME NEW i \in 1 .. Len(content'[f]), i > Len(content[f]), content'[f][i] \in (1 .. lines') \ excused,
              f \in Sound, NEW k \in 1 .. Len(tokens[f]), content'[f][i] \in Range(tokens[f][k])
       PROVE  FALSE
  <2>1. d[i] = h /\ h \in (1 .. lines) \ excused /\ h \in Range(tokens[f][k])
    <3>1. d[i] \in {LF, CR} \cup {p[j] : j \in 1 .. Len(p)} /\ d[i] \notin {LF, CR}
      BY <1>2, <1>3, <1>7, <1>10, <1>12 DEF c, LF, CR
    <3>2. \A j \in 1 .. Len(p) : p[j] = h
      <4>1. \A j \in 1 .. Len(p) : j = 1
        BY <1>3
      <4> QED
        BY <1>3, <4>1
    <3>3. d[i] = h
      BY <3>1, <3>2
    <3> QED
      BY <1>2, <1>10, <1>12, <3>3
  <2>2. Known(c, tokens[f], b, Counted) /\ h \in Counted
    BY <1>1, <1>12, <2>1 DEF FileKnown, c, b, Counted
  <2>3. Len(c) # 0 /\ c[Len(c)] = h /\ (Len(c) = 1 \/ c[Len(c) - 1] = LF)
    BY <1>2, <1>3, <1>5, LiesSays
  <2>4. Len(c) \in 1 .. Len(c)
    BY <1>6, <2>3
  <2>5. Len(c) <= b
    BY <2>1, <2>2, <2>3, <2>4 DEF Known
  <2>6. b = Len(c) /\ b >= 1
    BY <1>6, <2>4, <2>5
  <2>7. b = 1 \/ c[b - 1] # c[b]
    BY <1>3, <2>1, <2>3, <2>6 DEF LF
  <2> QED
    BY <2>2, <2>3, <2>6, <2>7 DEF Known
<1>13. \A i \in 1 .. Len(content'[f]) : i > Len(content[f]) /\ content'[f][i] \in (1 .. lines') \ excused =>
         \/ content'[f][i] > lines
         \/ f \in Sound => \A k \in 1 .. Len(tokens[f]) : content'[f][i] \notin Range(tokens[f][k])
  BY <1>12
<1> QED
  BY <1>2, <1>10, <1>11, <1>13, WriterKeeps

\* A file that is replaced begins anew.
LEMMA RotateKeeps == ASSUME TailInv, NEW f \in Files, Rotate(f) PROVE TailInv'
<1>1. TailTypes /\ \A g \in Files : FileKnown(g) /\ RecordsKept(g)
  BY DEF TailInv
<1>2. /\ half[f] = 0 /\ content' = [content EXCEPT ![f] = <<>>] /\ replaced' = replaced \cup {f}
      /\ swapped' = IF Reading THEN swapped \cup {f} ELSE swapped
      /\ UNCHANGED <<lines, half, found, state, ml, tokens, records, excused, spilt>>
  BY DEF Rotate
<1>3. TailTypes'
  <2>1. <<>> \in Bytes
    BY DEF Bytes
  <2> QED
    BY <1>1, <1>2, <2>1 DEF TailTypes, Reading
<1>4. \A g \in Files : RecordsKept(g)'
  BY <1>1, <1>2 DEF RecordsKept
<1>5. ASSUME NEW g \in Files \ {f} PROVE FileKnown(g)'
  <2>1. /\ content'[g] = content[g] /\ (g \in replaced' <=> g \in replaced) /\ state'[g] = state[g]
        /\ (g \in swapped' <=> g \in swapped) /\ found'[g] = found[g]
    BY <1>1, <1>2 DEF TailTypes
  <2>2. FileInv(g)' /\ LinesLieIn(g)' /\ TokensBegun(g)'
    <3>1. FileInv(g) /\ LinesLieIn(g) /\ TokensBegun(g)
      BY <1>1 DEF FileKnown
    <3> QED
      BY <1>2, <2>1, <3>1 DEF FileInv, LinesLieIn, TokensBegun, Size, Sound
  <2>3. Base(g)' = Base(g)
    BY <1>2, <2>1 DEF Base, FirstSight
  <2>4. g \in Sound => Known(content'[g], tokens'[g], Base(g)', Counted')
    <3>1. g \in Sound => Known(content[g], tokens[g], Base(g), Counted)
      BY <1>1 DEF FileKnown
    <3>2. Counted' = Counted
      BY <1>2 DEF Counted
    <3> QED
      BY <1>2, <2>1, <2>3, <3>1, <3>2
  <2> QED
    BY <2>2, <2>4 DEF FileKnown, Sound
<1>6. FileKnown(f)'
  <2>1. /\ content'[f] = <<>> /\ f \in replaced' /\ state'[f] = state[f] /\ Base(f)' = 0 /\ <<>> \in Bytes
        /\ found'[f] = found[f] /\ (found[f] # None => f \in swapped')
    BY <1>1, <1>2 DEF TailTypes, Base, Bytes
  <2>2. FileInv(f)' /\ TokensBegun(f)'
    <3>1. FileInv(f) /\ TokensBegun(f)
      BY <1>1 DEF FileKnown
    <3> QED
      BY <1>2, <2>1, <3>1 DEF FileInv, TokensBegun, Sound
  <2>3. LinesLieIn(f)'
    <3>1. PICK mayCR : mayCR = (f \in Crlf)
      OBVIOUS
    <3>2. lines \in Nat /\ Lies(<<>>, 0, lines, mayCR)
      BY <1>1, LiesNone DEF TailTypes
    <3> QED
      BY <1>2, <2>1, <3>1, <3>2 DEF LinesLieIn
  <2>4. f \in Sound => Known(content'[f], tokens'[f], Base(f)', Counted')
    <3>1. f \in Sound => Known(content[f], tokens[f], Base(f), Counted)
      BY <1>1 DEF FileKnown
    <3>2. Counted' = Counted /\ tokens' = tokens
      BY <1>2 DEF Counted
    <3>3. f \in Sound => Known(<<>>, tokens[f], 0, Counted)
      BY <3>1, KnownNone
    <3> QED
      BY <2>1, <3>2, <3>3
  <2> QED
    BY <2>2, <2>3, <2>4 DEF FileKnown, Sound
<1> QED
  BY <1>3, <1>4, <1>5, <1>6 DEF TailInv

-----------------------------------------------------------------------------
(* A cycle keeps it. *)

\* The sizes of the files are found.
LEMMA StatKeeps == ASSUME TailInv, StatFiles PROVE TailInv'
<1>1. TailTypes /\ \A f \in Files : FileKnown(f) /\ RecordsKept(f)
  BY DEF TailInv
<1>2. /\ found' = [f \in Files |-> Size(f)]
      /\ UNCHANGED <<lines, content, half, replaced, swapped, state, ml, tokens, records, excused, spilt>>
  BY DEF StatFiles
<1>3. \A f \in Files : Size(f) \in Nat /\ found'[f] = Size(f) /\ found'[f] # None
  BY <1>1, <1>2, BaseIs DEF FileKnown, None
<1>4. TailTypes'
  BY <1>1, <1>2, <1>3 DEF TailTypes, Reading
<1>5. ASSUME NEW f \in Files PROVE FileKnown(f)'
  <2>1. FileInv(f) /\ LinesLieIn(f) /\ TokensBegun(f) /\ (f \in Sound => Known(content[f], tokens[f], Base(f), Counted))
    BY <1>1 DEF FileKnown
  <2>2. FileInv(f)'
    BY <1>2, <1>3, <2>1 DEF FileInv, Size
  <2>3. LinesLieIn(f)' /\ TokensBegun(f)'
    BY <1>2, <2>1 DEF LinesLieIn, TokensBegun, Sound
  <2>4. Base(f)' = Base(f) /\ Counted' = Counted
    BY <1>2 DEF Base, FirstSight, Counted
  <2> QED
    BY <1>2, <2>1, <2>2, <2>3, <2>4 DEF FileKnown, Sound
<1>6. \A f \in Files : RecordsKept(f)'
  BY <1>1, <1>2 DEF RecordsKept
<1> QED
  BY <1>4, <1>5, <1>6 DEF TailInv

\* The text between two places is the bytes that are there.
LEMMA TextIs ==
  ASSUME NEW f \in Files, FileInv(f), NEW from \in Nat, NEW to \in Nat
  PROVE  /\ \A i \in 1 .. Len(content[f]) :
              from < i /\ i <= to /\ content[f][i] \notin {LF, CR} => content[f][i] \in TextOf(f, from, to)
         /\ \A x \in TextOf(f, from, to) :
              /\ x \notin {LF, CR}
              /\ \E i \in 1 .. Len(content[f]) : from < i /\ i <= to /\ content[f][i] = x
<1> DEFINE c == content[f]
<1>1. Size(f) \in Nat /\ Size(f) = Len(c)
  BY BaseIs
<1> DEFINE m == Min({to, Size(f)})
<1>2. m = IF to <= Size(f) THEN to ELSE Size(f)
  BY <1>1, LesserOf
<1>3. TextOf(f, from, to) = {c[i] : i \in (from + 1) .. m} \ {LF, CR}
  BY DEF TextOf
<1> HIDE DEF c, m
<1>4. \A i \in 1 .. Len(c) : from < i /\ i <= to => i \in (from + 1) .. m
  BY <1>1, <1>2
<1>5. \A i \in (from + 1) .. m : i \in 1 .. Len(c) /\ from < i /\ i <= to
  BY <1>1, <1>2
<1>6. \A i \in 1 .. Len(c) : from < i /\ i <= to /\ c[i] \notin {LF, CR} => c[i] \in TextOf(f, from, to)
  BY <1>3, <1>4
<1>7. ASSUME NEW x \in TextOf(f, from, to)
      PROVE  x \notin {LF, CR} /\ \E i \in 1 .. Len(c) : from < i /\ i <= to /\ c[i] = x
  BY <1>3, <1>5
<1> QED
  BY <1>6, <1>7 DEF c

\* The lines that count are numbers of text.
LEMMA CountedAreText ==
  ASSUME TailTypes, NEW x \in Counted
  PROVE  x \in 1 .. lines /\ x \in Int /\ x \notin {LF, CR} /\ x \notin excused
BY DEF Counted, TailTypes, LF, CR

\* What lies between what was passed and where a read begins does not count.
LEMMA SkippedDoNotCount ==
  ASSUME TailInv, NEW f \in Sound, Reading, Opened(f), NEW v \in SUBSET Counted,
         \A x \in v : x \notin Cut(f) /\ x \notin Hidden(f)
  PROVE  \A i \in 1 .. Len(content[f]) : Base(f) < i /\ i <= Seek(f) => content[f][i] \notin v
<1> DEFINE c == content[f]
<1> SUFFICES ASSUME NEW i \in 1 .. Len(c), Base(f) < i, i <= Seek(f), c[i] \in v PROVE FALSE
  OBVIOUS
<1>1. /\ f \in Files /\ TailTypes /\ FileInv(f) /\ LinesLieIn(f) /\ \A g \in Files : Ready(g)
      /\ Known(c, tokens[f], Base(f), Counted)
  BY DEF TailInv, FileKnown, Sound, Ready, Reading
<1>2. c[i] \in Counted /\ c[i] \notin {LF, CR} /\ c[i] \notin Cut(f) /\ c[i] \notin Hidden(f)
  <2>1. c[i] \in Counted
    OBVIOUS
  <2> HIDE DEF c
  <2> QED
    BY <1>1, <2>1, CountedAreText
<1>3. /\ f \notin replaced /\ ~FirstSight(f) => Seek(f) = Base(f)
      /\ found[f] \in Nat
      /\ Seek(f) \in Nat /\ Base(f) \in Nat /\ 0 \in Nat /\ i \in Nat /\ i >= 1
  <2>1. /\ found[f] \in Nat /\ Seek(f) \in 0 .. found[f] /\ Base(f) \in 0 .. Seek(f)
        /\ f \notin replaced /\ ~FirstSight(f) => Seek(f) = Base(f)
    BY <1>1, SeekFound
  <2> QED
    BY <2>1
<1>4. c[i] \in TextOf(f, 0, Seek(f))
  BY <1>1, <1>2, <1>3, TextIs
<1>5. CASE ReadsNothing(f)
  <2>1. Seek(f) = found[f] /\ Cut(f) = TextOf(f, 0, found[f])
    BY <1>1, <1>5, NoneRead
  <2> QED
    BY <1>2, <1>4, <2>1
<1>6. CASE FirstSight(f) /\ ~ReadsNothing(f)
  <2>1. Seek(f) = 0
    BY <1>6, TailLimits DEF Seek, ReadsNothing
  <2> QED
    BY <1>3, <2>1
<1>7. CASE ~FirstSight(f) /\ f \notin replaced
  BY <1>3, <1>7
<1>8. CASE ~FirstSight(f) /\ f \in replaced
  <2>1. Base(f) = 0
    BY <1>8 DEF Base
  <2>2. found[f] < state[f].size => Seek(f) = 0
    BY <1>8 DEF Seek, FirstSight
  <2>3. found[f] >= state[f].size
    <3>1. state[f].size \in Nat
      BY <1>1, <1>8 DEF TailTypes, Seen, FirstSight
    <3>2. ~(found[f] < state[f].size)
      BY <1>3, <2>2
    <3> QED
      BY <1>3, <3>1, <3>2
  <2>4. Hidden(f) = {n \in TextOf(f, 0, Seek(f)) : ~\E k \in 1 .. Len(tokens[f]) : n \in Range(tokens[f][k])}
    BY <1>8, <2>3 DEF Hidden
  <2>5. PICK k \in 1 .. Len(tokens[f]) : c[i] \in Range(tokens[f][k])
    BY <1>2, <1>4, <2>4
  <2> HIDE DEF c
  <2>6. i <= Base(f)
    BY <1>1, <1>2, <2>5 DEF Known
  <2> QED
    BY <1>3, <2>6
<1> QED
  BY <1>5, <1>6, <1>7, <1>8

\* A file that the cycle did not open.
LEMMA FileStays ==
  ASSUME TailInv, NEW f \in Files, UNCHANGED <<lines, content, half>>,
         state'[f] = state[f], f \in replaced' <=> f \in replaced, tokens'[f] = tokens[f], excused \subseteq excused',
         found'[f] = None, swapped' = {}
  PROVE  FileKnown(f)'
<1>1. TailTypes /\ FileInv(f) /\ LinesLieIn(f) /\ TokensBegun(f) /\ (f \in Sound => Known(content[f], tokens[f], Base(f), Counted))
  BY DEF TailInv, FileKnown
<1>2. FileInv(f)' /\ LinesLieIn(f)' /\ TokensBegun(f)'
  BY <1>1 DEF FileInv, LinesLieIn, TokensBegun, Size, Sound
<1>3. Base(f)' = Base(f)
  BY DEF Base, FirstSight
<1>4. Counted' \in SUBSET Counted
  BY DEF Counted
<1>5. f \in Sound => Known(content'[f], tokens'[f], Base(f)', Counted')
  <2>1. f \in Sound => Known(content[f], tokens[f], Base(f), Counted')
    <3> DEFINE v == Counted'
    <3>1. v \in SUBSET Counted
      BY <1>4
    <3> HIDE DEF v
    <3>2. f \in Sound => Known(content[f], tokens[f], Base(f), v)
      BY <1>1, <3>1, KnownLess
    <3> QED
      BY <3>2 DEF v
  <2> QED
    BY <1>3, <2>1
<1> QED
  BY <1>2, <1>5 DEF FileKnown, Sound

\* The place a file that was opened is at.
LEMMA OpenedPlace ==
  ASSUME TailInv, NEW f \in Files, Reading, UNCHANGED <<lines, content, half>>,
         state'[f] = NextState(f), f \in replaced' <=> f \in swapped, found'[f] = None, swapped' = {}
  PROVE  /\ FileInv(f)' /\ LinesLieIn(f)'
         /\ NextState(f).offset \in Nat /\ NextState(f).offset >= Seek(f) /\ NextState(f).offset <= ReadPath(f).offset
         /\ ReadPath(f).offset \in Nat /\ Seek(f) \in Nat /\ Base(f) \in Nat /\ Base(f) <= Seek(f)
         /\ Size(f) = Len(content[f]) /\ Len(content[f]) \in Nat
         /\ f \in swapped => Base(f) = 0 /\ Base(f)' = 0
         /\ f \notin swapped => /\ Base(f)' = NextState(f).offset /\ Within(f)
                               /\ Reach(f) \in Nat /\ Reach(f) >= Seek(f) /\ Reach(f) <= Len(content[f])
                               /\ Reach(f) <= ReadPath(f).offset /\ NextState(f).offset <= Reach(f)
<1> DEFINE o == ReadPath(f).offset
           n == found[f]
           p == NextState(f).offset
<1>1. TailTypes /\ FileInv(f) /\ LinesLieIn(f) /\ Ready(f)
  BY DEF TailInv, FileKnown, Ready, Reading
<1>2. /\ o \in Nat /\ o >= Seek(f)
      /\ Within(f) => Reach(f) \in Seek(f) .. Size(f) /\ Reach(f) \in Nat
      /\ Reach(f) = IF o <= Size(f) THEN o ELSE Size(f)
  BY <1>1, ReadIs
<1>3. /\ n \in Nat /\ Seek(f) \in Nat /\ Seek(f) <= n /\ Base(f) \in Nat /\ Base(f) <= Seek(f)
      /\ f \notin swapped => Within(f) /\ n <= Size(f)
  <2>1. /\ n \in Nat /\ Seek(f) \in 0 .. n /\ Base(f) \in 0 .. Seek(f)
        /\ f \notin swapped => Within(f) /\ n <= Size(f)
    BY <1>1, SeekFound
  <2> HIDE DEF n
  <2> QED
    BY <2>1
<1>4. Size(f) \in Nat /\ Size(f) = Len(content[f])
  BY <1>1, BaseIs
<1>5. state'[f] = [offset |-> p, size |-> n] /\ p = Min({o, n})
  BY DEF NextState
<1> HIDE DEF o, n, p
<1>6. p = IF o <= n THEN o ELSE n
  BY <1>2, <1>3, <1>5, LesserOf
<1>7. p \in Nat /\ p <= n /\ p <= o /\ p >= Seek(f)
  BY <1>2, <1>3, <1>6
<1>8. state'[f] # Unseen /\ state'[f] \in Seen
  <2>1. state'[f] \in Seen
    BY <1>3, <1>5, <1>7 DEF Seen
  <2>2. p # -1
    BY <1>7
  <2> QED
    BY <1>5, <2>1, <2>2 DEF Unseen
<1>9. FileInv(f)'
  <2>1. Size(f)' = Size(f) /\ content'[f] \in Bytes
    BY <1>1 DEF Size, TailTypes
  <2>2. state'[f].offset <= state'[f].size /\ (f \notin replaced' => state'[f].size <= Size(f)')
    BY <1>3, <1>5, <1>7, <2>1
  <2> QED
    BY <1>8, <2>1, <2>2 DEF FileInv
<1>10. LinesLieIn(f)'
  BY <1>1 DEF LinesLieIn
<1>11. f \in swapped => Base(f) = 0 /\ Base(f)' = 0
  BY <1>1 DEF Base, FileInv
<1>12. f \notin swapped => Base(f)' = p
  BY <1>5, <1>8 DEF Base, FirstSight
<1>13. f \notin swapped => Reach(f) \in Nat /\ Reach(f) >= Seek(f) /\ Reach(f) <= Size(f) /\ Reach(f) <= o /\ p <= Reach(f)
  BY <1>2, <1>3, <1>4, <1>6
<1> QED
  BY <1>2, <1>3, <1>4, <1>7, <1>9, <1>10, <1>11, <1>12, <1>13 DEF o, p

\* A read that begins past the end of the file yields nothing.
LEMMA NothingThere ==
  ASSUME NEW f \in Files, Ready(f), ~Within(f)
  PROVE  ReadPath(f).lines = <<>>
<1>1. Scan(<<>>) = <<>>
  <2> DEFINE w == <<>>
             e == LineEnds(w)
             lns == Scan(w)
  <2>1. w \in Seq(Int) /\ Len(w) = 0
    OBVIOUS
  <2> HIDE DEF w
  <2>2. e \in Seq(1 .. Len(w)) /\ \A i \in 1 .. Len(e) : e[i] \in 1 .. Len(w)
    <3> DEFINE D == 1 .. Len(w)
    <3>1. e \in Seq(D)
      BY <2>1, EndsAre
    <3> HIDE DEF D, e
    <3>2. \A i \in 1 .. Len(e) : e[i] \in D
      BY <3>1
    <3> QED
      BY <3>1, <3>2 DEF D
  <2>3. Len(e) \in Nat
    BY <2>2
  <2> HIDE DEF e
  <2>4. Len(e) = 0
    <3> SUFFICES ASSUME Len(e) # 0 PROVE FALSE
      OBVIOUS
    <3>1. 1 \in 1 .. Len(e)
      BY <2>3
    <3> QED
      BY <2>1, <2>2, <3>1
  <2>5. FromOf(w, Len(e) + 1) = 1
    BY <2>4 DEF FromOf
  <2>6. lns \in Seq(Bytes) /\ Len(lns) = IF FromOf(w, Len(e) + 1) <= Len(w) THEN Len(e) + 1 ELSE Len(e)
    BY <2>1, ScanIs DEF e
  <2>7. Len(lns) = 0
    BY <2>1, <2>4, <2>5, <2>6
  <2> HIDE DEF lns
  <2>8. lns = <<>>
    BY <2>6, <2>7
  <2> QED
    BY <2>8 DEF lns, w
<1>2. Window(f) = <<>> /\ Len(Window(f)) = 0
  <2>1. Window(f) = <<>>
    BY WindowIs
  <2> QED
    BY <2>1
<1>3. CASE ReadsNothing(f)
  BY <1>3 DEF ReadPath
<1>4. CASE ~ReadsNothing(f) /\ f \in Wide
  <2> DEFINE wl == WholeLines(f)
  <2>1. wl \in Bytes /\ Len(wl) \in 0 .. 0
    BY <1>2, WholeLinesAre
  <2>2. wl = <<>>
    <3> HIDE DEF wl
    <3> QED
      BY <2>1 DEF Bytes
  <2> DEFINE all == Scan(wl)
             S == {i \in DOMAIN all : all[i] # <<>>}
             lns == AtPlaces(all, S)
             got == SubSeq(lns, 1, Min({Len(lns), MaxBatch}))
  <2>3. all = <<>> /\ S = {}
    BY <1>1, <2>2
  <2>4. lns = <<>>
    <3> DEFINE T == Int
               a == all
               Q == S
    <3>1. a \in Seq(T) /\ Q \in SUBSET (1 .. Len(a)) /\ Q = {}
      BY <2>3
    <3> HIDE DEF T, a, Q
    <3>2. PICK o \in Seq(Q) : AtPlaces(a, Q) \in Seq(T) /\ Len(AtPlaces(a, Q)) = Len(o)
      BY <3>1, PlacesHold
    <3>3. Len(o) = 0
      <4>1. Len(o) \in Nat /\ \A i \in 1 .. Len(o) : o[i] \in Q
        OBVIOUS
      <4> SUFFICES ASSUME Len(o) # 0 PROVE FALSE
        OBVIOUS
      <4>2. 1 \in 1 .. Len(o)
        BY <4>1
      <4> QED
        BY <3>1, <4>1, <4>2
    <3> DEFINE l == AtPlaces(a, Q)
    <3>4. l \in Seq(T) /\ Len(l) = 0
      BY <3>2, <3>3
    <3> HIDE DEF l
    <3>5. l = <<>>
      BY <3>4
    <3> QED
      BY <3>5 DEF l, a, Q
  <2>5. ReadPath(f) = [lines |-> got, offset |-> Seek(f) + Len(wl)]
    BY <1>4 DEF ReadPath, ReadUTF16
  <2> HIDE DEF wl, all, S, lns
  <2>6. got = <<>>
    <3>1. lns \in Seq(Bytes)
      BY <2>4
    <3>2. PICK r \in 0 .. Len(lns) :
            /\ r = Min({Len(lns), MaxBatch})
            /\ SubSeq(lns, 1, r) \in Seq(Bytes) /\ Len(SubSeq(lns, 1, r)) = r
            /\ \A i \in 1 .. r : SubSeq(lns, 1, r)[i] = lns[i]
      BY <3>1, FirstOnes, TailLimits
    <3>3. got = SubSeq(lns, 1, r) /\ r = 0
      BY <2>4, <3>2
    <3>4. got \in Seq(Bytes) /\ Len(got) = 0
      BY <3>2, <3>3
    <3> HIDE DEF got
    <3> QED
      BY <3>4
  <2> HIDE DEF got
  <2> QED
    BY <2>5, <2>6
<1>5. CASE ~ReadsNothing(f) /\ f \notin Wide
  <2> DEFINE t == Taken(f)
  <2>1. ReadPath(f) = [lines |-> t, offset |-> Consumed(f)]
    BY <1>5 DEF ReadPath, ReadText
  <2>2. t \in Seq(Bytes) /\ Len(t) = 0
    <3>1. t \in Seq(Bytes) /\ Len(t) \in 0 .. Len(Scan(Window(f))) /\ Len(Scan(Window(f))) = 0
      BY <1>1, <1>2, TakenIs
    <3> QED
      BY <3>1
  <2> HIDE DEF t
  <2>3. t = <<>>
    BY <2>2
  <2> QED
    BY <2>1, <2>3
<1> QED
  BY <1>3, <1>4, <1>5

\* A file that the cycle opened.
LEMMA FileIsRead ==
  ASSUME TailInv, NEW f \in Files, Reading, Opened(f), UNCHANGED <<lines, content, half>>,
         state'[f] = NextState(f), f \in replaced' <=> f \in swapped, found'[f] = None, swapped' = {},
         tokens'[f] = tokens[f] \o Returned(f), excused \subseteq excused', Excuse(f) \subseteq excused', f \notin swapped
  PROVE  FileKnown(f)'
<1> DEFINE c == content[f]
           s == Seek(f)
           o == Reach(f)
           p == NextState(f).offset
           b == Base(f)
           toks == tokens[f]
           r == Returned(f)
           cut == Cut(f)
           v == Counted'
<1>1. /\ FileInv(f)' /\ LinesLieIn(f)' /\ Base(f)' = p /\ Within(f) /\ Size(f) = Len(c)
      /\ o \in Nat /\ o >= s /\ o <= Len(c) /\ s \in Nat /\ b \in Nat /\ b <= s /\ Len(c) \in Nat
      /\ p \in Nat /\ p <= o /\ o <= ReadPath(f).offset /\ ReadPath(f).offset \in Nat
  BY OpenedPlace
<1>2. TailTypes /\ FileInv(f) /\ \A g \in Files : Ready(g)
  BY DEF TailInv, FileKnown, Ready, Reading
<1>3. toks \in Seq(Bytes) /\ r \in Seq(Bytes) /\ tokens'[f] = toks \o r
  BY <1>2, ReturnedIs DEF TailTypes
<1>4. CASE f \notin Sound
  BY <1>1, <1>4 DEF FileKnown, TokensBegun, Sound
<1>5. CASE f \in Sound
  <2>1. LinesLieIn(f) /\ TokensBegun(f) /\ Known(c, toks, b, Counted)
    BY <1>5 DEF TailInv, FileKnown
  <2>2. Reads(c, s, o, r, cut)
    BY <1>1, <1>2, <1>5, <2>1, ReadsHold
  <2>3. /\ v \in SUBSET Counted /\ v \subseteq 1 .. lines
        /\ \A x \in v : x \notin cut /\ x \notin Hidden(f) /\ x \notin Again(f) /\ x \notin {LF, CR}
    <3>1. Cut(f) \cup Hidden(f) \cup Again(f) \subseteq excused'
      BY DEF Excuse
    <3>2. /\ v \in SUBSET Counted /\ v \subseteq 1 .. lines
          /\ \A x \in v : x \notin cut /\ x \notin Hidden(f) /\ x \notin Again(f)
      BY <3>1 DEF Counted
    <3>3. \A x \in Counted : x \notin {LF, CR}
      BY <1>2, CountedAreText
    <3> HIDE DEF v
    <3> QED
      BY <3>2, <3>3
  <2>4. \A i \in 1 .. Len(c) : b < i /\ i <= s => c[i] \notin v
    <3> HIDE DEF v
    <3> QED
      BY <1>5, <2>3, SkippedDoNotCount
  <2>5. lines \in Nat /\ Lies(c, half[f], lines, f \in Crlf)
    BY <2>1 DEF LinesLieIn
  <2>6. PICK mayCR, h : Lies(c, h, lines, mayCR)
    BY <2>5
  <2>7. \A i \in 1 .. Len(c) : p < i /\ i <= o => c[i] \notin v
    <3> DEFINE q == ReadPath(f).offset
    <3>1. Again(f) = TextOf(f, p, q)
      BY DEF Again
    <3>2. \A i \in 1 .. Len(c) : i <= o => i <= q
      BY <1>1
    <3>3. p \in Nat /\ q \in Nat
      BY <1>1
    <3> HIDE DEF p, q, o, v
    <3>4. \A i \in 1 .. Len(c) : p < i /\ i <= q /\ c[i] \notin {LF, CR} => c[i] \in TextOf(f, p, q)
      BY <1>2, <3>3, TextIs
    <3> QED
      BY <2>3, <3>1, <3>2, <3>4
  <2> HIDE DEF c, s, o, p, b, toks, r, cut, v
  <2>8. Known(c, toks \o r, o, v)
    <3> DEFINE w == Counted
    <3>1. Known(c, toks, b, w) /\ v \in SUBSET w
      BY <2>1, <2>3
    <3> HIDE DEF w
    <3> QED
      BY <1>1, <1>3, <2>2, <2>3, <2>4, <2>5, <2>6, <3>1, KnownRead
  <2>9. Known(c, toks \o r, p, v)
    <3> DEFINE t == toks \o r
               w == v
    <3>1. Known(c, t, o, w) /\ v \in SUBSET w
      BY <2>8
    <3> HIDE DEF t, w
    <3>2. Known(c, t, p, v)
      BY <1>1, <2>3, <2>5, <2>6, <2>7, <3>1, KnownBack
    <3> QED
      BY <3>2 DEF t
  <2>10. Known(content'[f], tokens'[f], Base(f)', Counted')
    BY <1>1, <1>3, <2>9 DEF c, v
  <2>11. \A k \in 1 .. Len(toks \o r) : \A x \in Range((toks \o r)[k]) : x <= lines
    <3> SUFFICES ASSUME NEW k \in 1 .. Len(toks \o r), NEW x \in Range((toks \o r)[k]) PROVE x <= lines
      OBVIOUS
    <3>1. \/ k \in 1 .. Len(toks) /\ (toks \o r)[k] = toks[k]
          \/ k - Len(toks) \in 1 .. Len(r) /\ (toks \o r)[k] = r[k - Len(toks)]
      BY <1>3
    <3>2. CASE k \in 1 .. Len(toks) /\ (toks \o r)[k] = toks[k]
      BY <1>5, <2>1, <3>2 DEF TokensBegun, toks
    <3>3. CASE k - Len(toks) \in 1 .. Len(r) /\ (toks \o r)[k] = r[k - Len(toks)]
      <4>1. PICK i \in 1 .. Len(c) : c[i] = x
        BY <2>2, <3>3 DEF Reads
      <4>2. c[i] \in {LF, CR} \cup 1 .. lines
        BY <2>5 DEF Lies
      <4> QED
        BY <2>5, <4>1, <4>2 DEF LF, CR
    <3> QED
      BY <3>1, <3>2, <3>3
  <2>12. TokensBegun(f)'
    BY <1>3, <2>11 DEF TokensBegun
  <2> QED
    BY <1>1, <2>10, <2>12 DEF FileKnown, Sound
<1> QED
  BY <1>4, <1>5

\* A file that was truncated while it was open: what was read of it does not count.
LEMMA SwappedIsRead ==
  ASSUME TailInv, NEW f \in Files, Reading, Opened(f), UNCHANGED <<lines, content, half>>,
         state'[f] = NextState(f), f \in replaced' <=> f \in swapped, found'[f] = None, swapped' = {},
         tokens'[f] = tokens[f] \o Returned(f), excused \subseteq excused', Excuse(f) \subseteq excused', f \in swapped
  PROVE  FileKnown(f)'
<1> DEFINE c == content[f]
           toks == tokens[f]
           r == Returned(f)
           v == Counted'
           w == Counted
<1>1. FileInv(f)' /\ LinesLieIn(f)' /\ Base(f)' = 0 /\ Base(f) = 0
  BY OpenedPlace
<1>2. TailTypes /\ Ready(f) /\ \A g \in Files : Ready(g)
  BY DEF TailInv, FileKnown, Ready, Reading
<1>3. toks \in Seq(Bytes) /\ r \in Seq(Bytes) /\ tokens'[f] = toks \o r
  BY <1>2, ReturnedIs DEF TailTypes
<1>4. CASE f \notin Sound
  BY <1>1, <1>4 DEF FileKnown, TokensBegun, Sound
<1>5. CASE f \in Sound
  <2>1. LinesLieIn(f) /\ TokensBegun(f) /\ Known(c, toks, 0, w)
    BY <1>1, <1>5 DEF TailInv, FileKnown
  <2>2. v \in SUBSET w /\ \A k \in 1 .. Len(r) : \A x \in Range(r[k]) : x \notin v
    <3>1. UNION {Range(r[k]) : k \in 1 .. Len(r)} \subseteq excused'
      BY DEF Excuse
    <3> QED
      BY <3>1 DEF Counted
  <2>3. lines \in Nat /\ \A i \in 1 .. Len(c) : c[i] \in {LF, CR} \cup 1 .. lines
    BY <2>1 DEF LinesLieIn, Lies
  <2>4. \A k \in 1 .. Len(r) : \A x \in Range(r[k]) : x <= lines
    <3>1. CASE Within(f)
      <4>1. Reads(c, Seek(f), Reach(f), r, Cut(f))
        BY <1>2, <1>5, <2>1, <3>1, ReadsHold
      <4> HIDE DEF c, r
      <4>2. \A k \in 1 .. Len(r) : \A x \in Range(r[k]) : \E i \in 1 .. Len(c) : c[i] = x
        BY <4>1 DEF Reads
      <4>3. \A i \in 1 .. Len(c) : c[i] <= lines
        BY <2>3 DEF LF, CR
      <4> QED
        BY <4>2, <4>3
    <3>2. CASE ~Within(f)
      <4>1. ReadPath(f).lines = <<>>
        BY <1>2, <3>2, NothingThere
      <4>2. Got(f) = 0
        BY <4>1 DEF Got
      <4>3. Len(r) \in 0 .. Got(f)
        BY <1>2, ReturnedIs
      <4> HIDE DEF r
      <4>4. Len(r) = 0 /\ 1 .. Len(r) = {}
        BY <4>2, <4>3
      <4> QED
        BY <4>4
    <3> QED
      BY <3>1, <3>2
  <2> HIDE DEF c, toks, r, v, w
  <2>5. Known(c, toks \o r, 0, v)
    BY <1>3, <2>1, <2>2, KnownMore
  <2>6. Known(content'[f], tokens'[f], Base(f)', Counted')
    BY <1>1, <1>3, <2>5 DEF c, v
  <2>7. \A k \in 1 .. Len(toks \o r) : \A x \in Range((toks \o r)[k]) : x <= lines
    <3> SUFFICES ASSUME NEW k \in 1 .. Len(toks \o r), NEW x \in Range((toks \o r)[k]) PROVE x <= lines
      OBVIOUS
    <3>1. \/ k \in 1 .. Len(toks) /\ (toks \o r)[k] = toks[k]
          \/ k - Len(toks) \in 1 .. Len(r) /\ (toks \o r)[k] = r[k - Len(toks)]
      BY <1>3
    <3>2. CASE k \in 1 .. Len(toks) /\ (toks \o r)[k] = toks[k]
      BY <1>5, <2>1, <3>2 DEF TokensBegun, toks
    <3>3. CASE k - Len(toks) \in 1 .. Len(r) /\ (toks \o r)[k] = r[k - Len(toks)]
      BY <2>4, <3>3
    <3> QED
      BY <3>1, <3>2, <3>3
  <2>8. TokensBegun(f)'
    BY <1>3, <2>7 DEF TokensBegun
  <2> QED
    BY <1>1, <2>6, <2>8 DEF FileKnown, Sound
<1> QED
  BY <1>4, <1>5

\* A file that a cycle passed and gave nothing of.
LEMMA FileIsPassed ==
  ASSUME TailInv, NEW f \in Files, Reading, Opened(f), UNCHANGED <<lines, content, half, tokens>>,
         state'[f] = NextState(f), f \in replaced' <=> f \in swapped, found'[f] = None, swapped' = {},
         excused \subseteq excused', f \notin swapped => TextOf(f, 0, NextState(f).offset) \subseteq excused'
  PROVE  FileKnown(f)'
<1> DEFINE c == content[f]
           o == NextState(f).offset
           b == Base(f)
           toks == tokens[f]
           v == Counted'
           w == Counted
<1>1. /\ FileInv(f)' /\ LinesLieIn(f)' /\ o \in Nat /\ b \in Nat /\ b <= o /\ Size(f) = Len(c) /\ Len(c) \in Nat
      /\ f \in swapped => Base(f)' = 0 /\ b = 0
      /\ f \notin swapped => Base(f)' = o /\ o <= Len(c)
  <2>1. /\ FileInv(f)' /\ LinesLieIn(f)' /\ o \in Nat /\ b \in Nat /\ Seek(f) \in Nat /\ b <= Seek(f) /\ Seek(f) <= o
        /\ Size(f) = Len(c) /\ Len(c) \in Nat
        /\ f \in swapped => Base(f)' = 0 /\ b = 0
        /\ f \notin swapped => Base(f)' = o /\ Reach(f) \in Nat /\ Reach(f) <= Len(c) /\ o <= Reach(f)
    BY OpenedPlace
  <2> HIDE DEF b, o, c
  <2> QED
    BY <2>1
<1>2. TailTypes /\ FileInv(f) /\ TokensBegun(f)
  BY DEF TailInv, FileKnown
<1>3. f \in Sound => Known(c, toks, b, w)
  BY DEF TailInv, FileKnown
<1>4. v \in SUBSET w /\ \A x \in v : (f \notin swapped => x \notin TextOf(f, 0, o)) /\ x \notin {LF, CR}
  <2>1. v \in SUBSET w /\ \A x \in v : (f \notin swapped => x \notin TextOf(f, 0, o))
    BY DEF Counted
  <2>2. \A x \in w : x \notin {LF, CR}
    BY <1>2, CountedAreText
  <2> HIDE DEF v, w
  <2> QED
    BY <2>1, <2>2
<1>5. \A i \in 1 .. Len(c) : 0 < i /\ i <= o /\ c[i] \notin {LF, CR} => c[i] \in TextOf(f, 0, o)
  <2>1. 0 \in Nat
    OBVIOUS
  <2> HIDE DEF o
  <2> QED
    BY <1>1, <1>2, <2>1, TextIs
<1> HIDE DEF c, o, b, toks, v, w
<1>6. f \notin swapped => \A i \in 1 .. Len(c) : i <= o => c[i] \notin v
  BY <1>1, <1>4, <1>5
<1>7. f \in Sound /\ f \notin swapped => Known(c, toks, o, v)
  BY <1>1, <1>3, <1>4, <1>6, KnownPassed
<1>8. f \in Sound /\ f \in swapped => Known(c, toks, b, v)
  BY <1>3, <1>4, KnownLess
<1>9. f \in Sound => Known(content'[f], tokens'[f], Base(f)', Counted')
  BY <1>1, <1>7, <1>8 DEF c, toks, v
<1>10. TokensBegun(f)'
  BY <1>2 DEF TokensBegun, Sound
<1> QED
  BY <1>1, <1>9, <1>10 DEF FileKnown, Sound

\* The records a cycle releases hold the lines it read.
LEMMA CycleKeeps ==
  ASSUME NEW st \in MlFile, NEW got \in Seq(Bytes), NEW windowOver \in BOOLEAN, NEW idle \in BOOLEAN,
         NEW before \in Seq(Seq(Bytes)), NEW toks \in Seq(Bytes), NEW acc,
         acc = FlushIdle(Process(st, got, windowOver), idle)
  PROVE  /\ acc.st \in MlFile /\ before \o acc.out \in Seq(Seq(Bytes)) /\ toks \o got \in Seq(Bytes)
         /\ BytesOf(before, st.pending) = FlattenSeq(toks) =>
              BytesOf(before \o acc.out, acc.st.pending) = FlattenSeq(toks \o got)
<1> DEFINE p == Process(st, got, windowOver)
<1>1. p \in Outcome /\ BytesOf(p.out, p.st.pending) = FlattenSeq(st.pending) \o FlattenSeq(got)
  BY ProcessKeeps
<1> HIDE DEF p
<1>2. acc \in Outcome /\ BytesOf(acc.out, acc.st.pending) = BytesOf(p.out, p.st.pending)
  BY <1>1, FlushIdleKeeps DEF p
<1>3. /\ acc.st \in MlFile /\ acc.out \in Seq(Seq(Bytes)) /\ acc.st.pending \in Seq(Bytes) /\ st.pending \in Seq(Bytes)
      /\ toks \o got \in Seq(Bytes)
  <2>1. acc.st \in MlFile /\ acc.out \in Seq(Seq(Bytes))
    BY <1>2 DEF Outcome
  <2> QED
    BY <2>1, FlushedIs
<1> DEFINE out == acc.out
           pending == acc.st.pending
           old == st.pending
           V == Int
<1> HIDE DEF out, pending, old
<1>4. /\ before \o out \in Seq(Seq(Bytes))
      /\ FlattenSeq(FlattenSeq(before \o out)) = FlattenSeq(FlattenSeq(before)) \o FlattenSeq(FlattenSeq(out))
      /\ FlattenSeq(FlattenSeq(before)) \in Bytes /\ FlattenSeq(FlattenSeq(out)) \in Bytes
  BY <1>3, BytesGoOut DEF out
<1>5. /\ FlattenSeq(pending) \in Bytes /\ FlattenSeq(old) \in Bytes /\ FlattenSeq(got) \in Bytes /\ FlattenSeq(toks) \in Bytes
      /\ FlattenSeq(toks \o got) = FlattenSeq(toks) \o FlattenSeq(got)
  <2> HIDE DEF V
  <2>1. pending \in Seq(Seq(V)) /\ old \in Seq(Seq(V)) /\ got \in Seq(Seq(V)) /\ toks \in Seq(Seq(V))
    BY <1>3 DEF pending, old, Bytes, V
  <2>2. /\ FlattenSeq(pending) \in Seq(V) /\ FlattenSeq(old) \in Seq(V) /\ FlattenSeq(got) \in Seq(V) /\ FlattenSeq(toks) \in Seq(V)
    BY <2>1, FlattenHolds
  <2>3. FlattenSeq(toks \o got) = FlattenSeq(toks) \o FlattenSeq(got)
    BY <2>1, FlattenJoins
  <2> QED
    BY <2>2, <2>3 DEF Bytes, V
<1>6. ASSUME BytesOf(before, st.pending) = FlattenSeq(toks)
      PROVE  BytesOf(before \o out, pending) = FlattenSeq(toks \o got)
  <2> DEFINE fb == FlattenSeq(FlattenSeq(before))
             fo == FlattenSeq(FlattenSeq(out))
             fp == FlattenSeq(pending)
             fs == FlattenSeq(old)
             fg == FlattenSeq(got)
             ft == FlattenSeq(toks)
  <2>1. /\ fb \o fs = ft /\ fo \o fp = fs \o fg
        /\ BytesOf(before \o out, pending) = (fb \o fo) \o fp
        /\ FlattenSeq(toks \o got) = ft \o fg
    BY <1>1, <1>2, <1>4, <1>5, <1>6 DEF BytesOf, out, pending, old
  <2>2. fb \in Seq(V) /\ fo \in Seq(V) /\ fp \in Seq(V) /\ fs \in Seq(V) /\ fg \in Seq(V)
    BY <1>4, <1>5 DEF Bytes
  <2> HIDE DEF fb, fo, fp, fs, fg, ft, V
  <2>3. (fb \o fo) \o fp = fb \o (fo \o fp) /\ fb \o (fs \o fg) = (fb \o fs) \o fg
    <3>1. ASSUME NEW x \in Seq(V), NEW y \in Seq(V), NEW z \in Seq(V) PROVE (x \o y) \o z = x \o (y \o z)
      BY <3>1, ConcatAssociative
    <3>2. (fb \o fo) \o fp = fb \o (fo \o fp)
      BY <2>2, <3>1
    <3>3. fb \o (fs \o fg) = (fb \o fs) \o fg
      BY <2>2, <3>1
    <3> QED
      BY <3>2, <3>3
  <2> QED
    BY <2>1, <2>3
<1> QED
  BY <1>3, <1>4, <1>6 DEF out, pending

\* A cycle that returns in time.
LEMMA CollectKeeps ==
  ASSUME TailInv, Reading, NEW windowOver \in Windows, NEW idle \in IdleFiles(FALSE), Collect(windowOver, idle)
  PROVE  TailInv'
<1> DEFINE opened == {f \in Files : Opened(f)}
           got == [f \in Files |-> IF f \in opened THEN Returned(f) ELSE <<>>]
           acc == [f \in Files |-> FlushIdle(Process(ml[f], got[f], windowOver), f \in idle)]
<1>1. TailTypes /\ (\A f \in Files : FileKnown(f) /\ RecordsKept(f)) /\ \A f \in Files : FileInv(f) /\ Ready(f)
  BY DEF TailInv, FileKnown, Ready, Reading
<1>2. /\ state' = [f \in Files |-> IF f \in opened THEN NextState(f) ELSE state[f]]
      /\ replaced' = replaced \ (opened \ swapped)
      /\ found' = [f \in Files |-> None] /\ swapped' = {}
      /\ ml' = [f \in Files |-> acc[f].st]
      /\ tokens' = [f \in Files |-> tokens[f] \o got[f]]
      /\ records' = [f \in Files |-> records[f] \o acc[f].out]
      /\ excused' = excused \cup UNION {Excuse(f) : f \in opened}
      /\ UNCHANGED <<lines, content, half, rotations, spilt>>
  BY DEF Collect, CloseFiles
<1>3. windowOver \in BOOLEAN
  <2>1. \A f \in Files : ml[f].decided \in BOOLEAN
    BY <1>1 DEF TailTypes, MlFile
  <2> QED
    BY <2>1 DEF Windows
<1>4. \A f \in Files : got[f] \in Seq(Bytes) /\ got[f] = IF Opened(f) THEN Returned(f) ELSE <<>>
  <2> SUFFICES ASSUME NEW f \in Files PROVE got[f] \in Seq(Bytes) /\ got[f] = IF Opened(f) THEN Returned(f) ELSE <<>>
    OBVIOUS
  <2>1. got[f] = IF Opened(f) THEN Returned(f) ELSE <<>>
    OBVIOUS
  <2>2. Opened(f) => Returned(f) \in Seq(Bytes)
    BY <1>1, ReturnedIs
  <2> HIDE DEF got
  <2> QED
    BY <2>1, <2>2
<1>5. \A f \in Files : acc[f] = FlushIdle(Process(ml[f], got[f], windowOver), f \in idle)
  OBVIOUS
<1>6. \A f \in Files : f \in opened <=> Opened(f)
  OBVIOUS
<1> HIDE DEF opened, got, acc
<1>7. ASSUME NEW f \in Files
      PROVE  /\ ml'[f] \in MlFile /\ records'[f] \in Seq(Seq(Bytes)) /\ tokens'[f] \in Seq(Bytes)
             /\ tokens'[f] = tokens[f] \o got[f]
             /\ RecordsKept(f)'
  <2>1. /\ ml[f] \in MlFile /\ records[f] \in Seq(Seq(Bytes)) /\ tokens[f] \in Seq(Bytes) /\ got[f] \in Seq(Bytes)
        /\ ml'[f] = acc[f].st /\ records'[f] = records[f] \o acc[f].out /\ tokens'[f] = tokens[f] \o got[f]
    BY <1>1, <1>2, <1>4 DEF TailTypes
  <2>2. PICK b \in BOOLEAN : acc[f] = FlushIdle(Process(ml[f], got[f], windowOver), b)
    <3>1. (f \in idle) \in BOOLEAN
      OBVIOUS
    <3> QED
      BY <1>5, <3>1
  <2>3. /\ acc[f].st \in MlFile /\ records[f] \o acc[f].out \in Seq(Seq(Bytes)) /\ tokens[f] \o got[f] \in Seq(Bytes)
        /\ BytesOf(records[f], ml[f].pending) = FlattenSeq(tokens[f]) =>
             BytesOf(records[f] \o acc[f].out, acc[f].st.pending) = FlattenSeq(tokens[f] \o got[f])
    <3> DEFINE st == ml[f]
               before == records[f]
               toks == tokens[f]
               g == got[f]
               a == acc[f]
    <3>1. /\ st \in MlFile /\ before \in Seq(Seq(Bytes)) /\ toks \in Seq(Bytes) /\ g \in Seq(Bytes)
          /\ a = FlushIdle(Process(st, g, windowOver), b)
      BY <2>1, <2>2
    <3> HIDE DEF st, before, toks, g, a
    <3>2. /\ a.st \in MlFile /\ before \o a.out \in Seq(Seq(Bytes)) /\ toks \o g \in Seq(Bytes)
          /\ BytesOf(before, st.pending) = FlattenSeq(toks) =>
               BytesOf(before \o a.out, a.st.pending) = FlattenSeq(toks \o g)
      BY <1>3, <3>1, CycleKeeps
    <3> QED
      BY <3>2 DEF st, before, toks, g, a
  <2>4. spilt' = spilt /\ RecordsKept(f)
    BY <1>1, <1>2
  <2>5. RecordsKept(f)'
    <3>1. ~spilt' => BytesOf(records'[f], ml'[f].pending) = FlattenSeq(tokens'[f])
      BY <2>1, <2>3, <2>4 DEF RecordsKept
    <3> QED
      BY <3>1 DEF RecordsKept
  <2> QED
    BY <2>1, <2>3, <2>5
<1>8. ASSUME NEW f \in Files PROVE FileKnown(f)'
  <2>1. UNCHANGED <<lines, content, half>> /\ excused \subseteq excused'
    BY <1>2
  <2>2. CASE Opened(f)
    <3>1. /\ state'[f] = NextState(f) /\ (f \in replaced' <=> f \in swapped) /\ tokens'[f] = tokens[f] \o Returned(f)
          /\ found'[f] = None /\ swapped' = {}
      BY <1>1, <1>2, <1>4, <1>6, <1>7, <2>2 DEF FileInv
    <3>2. Excuse(f) \subseteq excused'
      BY <1>2, <1>6, <2>2
    <3>3. CASE f \in swapped
      BY <2>1, <2>2, <3>1, <3>2, <3>3, SwappedIsRead
    <3>4. CASE f \notin swapped
      BY <2>1, <2>2, <3>1, <3>2, <3>4, FileIsRead
    <3> QED
      BY <3>3, <3>4
  <2>3. CASE ~Opened(f)
    <3>1. state'[f] = state[f] /\ (f \in replaced' <=> f \in replaced) /\ found'[f] = None /\ swapped' = {}
      BY <1>2, <1>6, <2>3
    <3>2. tokens'[f] = tokens[f]
      <4>1. tokens[f] \in Seq(Bytes) /\ got[f] = <<>>
        BY <1>1, <1>4, <2>3 DEF TailTypes
      <4> DEFINE V == Bytes
                 t == tokens[f]
      <4>2. t \in Seq(V)
        BY <4>1
      <4> HIDE DEF V, t
      <4>3. t \o <<>> = t
        BY <4>2
      <4> QED
        BY <1>7, <4>1, <4>3 DEF t
    <3> QED
      BY <2>1, <3>1, <3>2, FileStays
  <2> QED
    BY <2>2, <2>3
<1>9. TailTypes'
  <2>1. \A f \in Files : state'[f] \in Seen \cup {Unseen}
    BY <1>8 DEF FileKnown, FileInv
  <2>2. /\ lines' \in Nat /\ content' \in [Files -> Bytes] /\ half' \in [Files -> Nat] /\ spilt' \in BOOLEAN
    BY <1>1, <1>2 DEF TailTypes
  <2>3. state' \in [Files -> Seen \cup {Unseen}]
    BY <1>2, <2>1
  <2>4. ml' \in [Files -> MlFile]
    BY <1>2, <1>7
  <2>5. tokens' \in [Files -> Seq(Bytes)]
    BY <1>2, <1>7
  <2>6. records' \in [Files -> Seq(Seq(Bytes))]
    BY <1>2, <1>7
  <2>7. found' \in [Files -> Nat \cup {None}] /\ \A f \in Files : found'[f] = None
    BY <1>2
  <2> QED
    BY <2>2, <2>3, <2>4, <2>5, <2>6, <2>7 DEF TailTypes
<1> QED
  BY <1>7, <1>8, <1>9 DEF TailInv

\* A cycle that overran its deadline: what it read is thrown away, what it passed is excused.
LEMMA OverrunKeeps ==
  ASSUME TailInv, Reading, NEW idle \in IdleFiles(TRUE), CollectOverruns(idle)
  PROVE  TailInv'
<1> DEFINE opened == {f \in Files : Opened(f)}
           acc(f) == FlushIdle([st |-> ml[f], out |-> <<>>], f \in idle)
<1>1. TailTypes /\ (\A f \in Files : FileKnown(f) /\ RecordsKept(f)) /\ \A f \in Files : FileInv(f) /\ Ready(f)
  BY DEF TailInv, FileKnown, Ready, Reading
<1>2. /\ state' = [f \in Files |-> IF f \in opened THEN NextState(f) ELSE state[f]]
      /\ replaced' = replaced \ (opened \ swapped)
      /\ found' = [f \in Files |-> None] /\ swapped' = {}
      /\ ml' = [f \in Files |-> acc(f).st]
      /\ excused' = excused \cup UNION {TextOf(f, 0, NextState(f).offset) : f \in opened \ swapped}
      /\ spilt' = (spilt \/ \E f \in idle : ml[f].pending # <<>>)
      /\ UNCHANGED <<lines, content, half, rotations, tokens, records>>
  BY DEF CollectOverruns, CloseFiles
<1>3. idle \subseteq Files
  BY DEF IdleFiles
<1>4. \A f \in Files : f \in opened <=> Opened(f)
  OBVIOUS
<1> HIDE DEF opened
<1>5. ASSUME NEW f \in Files
      PROVE  /\ ml'[f] \in MlFile /\ ml'[f] = acc(f).st
             /\ ml'[f].pending = ml[f].pending \/ (f \in idle /\ ml[f].pending # <<>>)
  <2>1. ml[f] \in MlFile
    BY <1>1 DEF TailTypes
  <2>2. ml'[f] = acc(f).st
    BY <1>2
  <2>3. CASE f \in idle
    <3>1. acc(f).st = [ml[f] EXCEPT !.pending = <<>>]
      BY <2>3 DEF FlushIdle
    <3>2. acc(f).st \in MlFile /\ acc(f).st.pending = <<>>
      <4> DEFINE st == ml[f]
                 r == [st EXCEPT !.pending = <<>>]
                 V == Seq(Bytes)
                 W == [decided : BOOLEAN, aggregate : BOOLEAN, sampled : Nat, matched : Nat, pending : V]
      <4>1. st \in W /\ <<>> \in V
        BY <2>1 DEF MlFile
      <4> HIDE DEF st, V
      <4>2. r \in W /\ r.pending = <<>>
        BY <4>1
      <4> QED
        BY <3>1, <4>2 DEF MlFile, st, V
    <3> QED
      BY <2>2, <2>3, <3>2
  <2>4. CASE f \notin idle
    <3>1. acc(f).st = ml[f]
      BY <2>4 DEF FlushIdle
    <3> QED
      BY <2>1, <2>2, <3>1
  <2> QED
    BY <2>3, <2>4
<1>6. ASSUME NEW f \in Files PROVE RecordsKept(f)'
  <2> SUFFICES ASSUME ~spilt' PROVE BytesOf(records'[f], ml'[f].pending) = FlattenSeq(tokens'[f])
    BY DEF RecordsKept
  <2>1. ~spilt /\ ml'[f].pending = ml[f].pending
    BY <1>2, <1>5
  <2>2. BytesOf(records[f], ml[f].pending) = FlattenSeq(tokens[f])
    BY <1>1, <2>1 DEF RecordsKept
  <2> QED
    BY <1>2, <2>1, <2>2
<1>7. ASSUME NEW f \in Files PROVE FileKnown(f)'
  <2>1. UNCHANGED <<lines, content, half, tokens>> /\ excused \subseteq excused'
    BY <1>2
  <2>2. CASE Opened(f)
    <3>1. state'[f] = NextState(f) /\ (f \in replaced' <=> f \in swapped) /\ found'[f] = None /\ swapped' = {}
      BY <1>1, <1>2, <1>4, <2>2 DEF FileInv
    <3>2. f \notin swapped => TextOf(f, 0, NextState(f).offset) \subseteq excused'
      BY <1>2, <1>4, <2>2
    <3> QED
      BY <2>1, <2>2, <3>1, <3>2, FileIsPassed
  <2>3. CASE ~Opened(f)
    <3>1. /\ state'[f] = state[f] /\ (f \in replaced' <=> f \in replaced) /\ tokens'[f] = tokens[f]
          /\ found'[f] = None /\ swapped' = {}
      BY <1>2, <1>4, <2>3
    <3> QED
      BY <2>1, <3>1, FileStays
  <2> QED
    BY <2>2, <2>3
<1>8. TailTypes'
  <2>1. \A f \in Files : state'[f] \in Seen \cup {Unseen}
    BY <1>7 DEF FileKnown, FileInv
  <2>2. /\ lines' \in Nat /\ content' \in [Files -> Bytes] /\ half' \in [Files -> Nat]
        /\ tokens' \in [Files -> Seq(Bytes)] /\ records' \in [Files -> Seq(Seq(Bytes))]
    BY <1>1, <1>2 DEF TailTypes
  <2>3. state' \in [Files -> Seen \cup {Unseen}]
    BY <1>2, <2>1
  <2>4. ml' \in [Files -> MlFile]
    BY <1>2, <1>5
  <2>5. spilt' \in BOOLEAN
    BY <1>1, <1>2 DEF TailTypes
  <2>6. found' \in [Files -> Nat \cup {None}] /\ \A f \in Files : found'[f] = None
    BY <1>2
  <2> QED
    BY <2>2, <2>3, <2>4, <2>5, <2>6 DEF TailTypes
<1> QED
  BY <1>6, <1>7, <1>8 DEF TailInv

\* Before the first cycle nothing is read.
LEMMA TailBegins == TailInit => TailInv
<1> SUFFICES ASSUME TailInit PROVE TailInv
  OBVIOUS
<1>1. /\ lines = 0 /\ replaced = {} /\ content = [f \in Files |-> <<>>] /\ half = [f \in Files |-> 0]
      /\ state = [f \in Files |-> Unseen] /\ ml = [f \in Files |-> Fresh]
      /\ tokens = [f \in Files |-> <<>>] /\ records = [f \in Files |-> <<>>] /\ excused = {} /\ spilt = FALSE
      /\ found = [f \in Files |-> None] /\ swapped = {}
  BY DEF TailInit
<1>2. <<>> \in Bytes /\ <<>> \in Seq(Bytes) /\ <<>> \in Seq(Seq(Bytes)) /\ Fresh \in MlFile /\ Fresh.pending = <<>>
  BY DEF Bytes, Fresh, MlFile
<1>3. TailTypes
  BY <1>1, <1>2 DEF TailTypes
<1>4. ASSUME NEW f \in Files PROVE FileKnown(f) /\ RecordsKept(f)
  <2>1. /\ content[f] = <<>> /\ half[f] = 0 /\ state[f] = Unseen /\ tokens[f] = <<>> /\ records[f] = <<>>
        /\ ml[f].pending = <<>> /\ Base(f) = 0 /\ found[f] = None /\ f \notin swapped
    BY <1>1, <1>2 DEF Base, FirstSight
  <2>2. FileInv(f) /\ TokensBegun(f)
    BY <1>2, <2>1 DEF FileInv, TokensBegun
  <2>3. LinesLieIn(f)
    <3>1. PICK mayCR : mayCR = (f \in Crlf)
      OBVIOUS
    <3>2. 0 \in Nat
      OBVIOUS
    <3>3. Lies(<<>>, 0, 0, mayCR)
      BY <3>2, LiesNone
    <3> QED
      BY <1>1, <2>1, <3>1, <3>3 DEF LinesLieIn
  <2>4. Known(content[f], tokens[f], Base(f), Counted)
    BY <2>1 DEF Known
  <2>5. RecordsKept(f)
    <3>1. <<>> \o <<>> = <<>>
      OBVIOUS
    <3> QED
      BY <2>1, <3>1, FlattenNone DEF RecordsKept, BytesOf
  <2> QED
    BY <2>2, <2>3, <2>4, <2>5 DEF FileKnown
<1> QED
  BY <1>3, <1>4 DEF TailInv

\* A file's lines were read once: those that count.
LEMMA OnceRead == TailInv => LinesAreReadOnce
<1> SUFFICES ASSUME TailInv, NEW f \in Files \ (Crlf \ Wide)
             PROVE  /\ \A n \in (1 .. lines) \ excused : Copies(f, n) <= 1
                    /\ ~FirstSight(f) /\ f \notin replaced =>
                         \A n \in TextOf(f, 0, state[f].offset) \ excused : Copies(f, n) = 1
  BY DEF LinesAreReadOnce
<1>1. /\ f \in Sound /\ f \in Files /\ FileInv(f) /\ LinesLieIn(f)
      /\ Known(content[f], tokens[f], Base(f), Counted) /\ tokens[f] \in Seq(Bytes) /\ TailTypes
  BY DEF TailInv, FileKnown, Sound, TailTypes
<1> DEFINE At(n) == {i \in 1 .. Len(tokens[f]) : tokens[f][i] = <<n, n>>}
<1>2. ASSUME NEW n \in Counted
      PROVE  /\ Copies(f, n) <= 1
             /\ (\E k \in 1 .. Len(tokens[f]) : tokens[f][k] = <<n, n>>) => Copies(f, n) = 1
  <2> DEFINE S == At(n)
  <2>1. Copies(f, n) = Cardinality(S)
    BY DEF Copies
  <2>2. \A i, j \in S : i = j
    BY <1>1 DEF Known
  <2>3. CASE S = {}
    <3>1. Cardinality(S) = 0
      BY <2>3, FS_EmptySet
    <3> QED
      BY <2>1, <2>3, <3>1
  <2>4. CASE S # {}
    <3>1. PICK i \in S : TRUE
      BY <2>4
    <3> HIDE DEF S
    <3>2. S = {i}
      BY <2>2, <3>1
    <3>3. Cardinality(S) = 1
      BY <3>2, FS_Singleton
    <3> QED
      BY <2>1, <3>3
  <2> QED
    BY <2>3, <2>4
<1>3. ASSUME ~FirstSight(f), f \notin replaced, NEW n \in TextOf(f, 0, state[f].offset) \ excused PROVE Copies(f, n) = 1
  <2> DEFINE b == Base(f)
             c == content[f]
  <2>1. b = state[f].offset /\ b \in Nat /\ b <= Size(f) /\ 0 \in Nat /\ Size(f) = Len(c)
    <3>1. b = state[f].offset
      BY <1>3 DEF Base
    <3>2. b \in 0 .. Size(f) /\ Size(f) \in Nat /\ Size(f) = Len(c)
      BY <1>1, BaseIs
    <3> HIDE DEF b, c
    <3> QED
      BY <3>1, <3>2
  <2> HIDE DEF b
  <2>2. n \in TextOf(f, 0, b) /\ n \notin excused
    BY <1>3, <2>1
  <2>3. n \notin {LF, CR} /\ \E i \in 1 .. Len(c) : 0 < i /\ i <= b /\ c[i] = n
    BY <1>1, <2>1, <2>2, TextIs
  <2>4. PICK i \in 1 .. Len(c) : i <= b /\ c[i] = n
    BY <2>3
  <2>5. c[i] \in {LF, CR} \cup 1 .. lines
    BY <1>1 DEF LinesLieIn, Lies
  <2>6. n \in Counted
    BY <2>2, <2>3, <2>4, <2>5 DEF Counted
  <2>7. \E k \in 1 .. Len(tokens[f]) : tokens[f][k] = <<c[i], c[i]>>
    <3>1. Known(c, tokens[f], b, Counted)
      BY <1>1 DEF b
    <3> HIDE DEF c
    <3> QED
      BY <2>4, <2>6, <3>1 DEF Known
  <2> QED
    BY <1>2, <2>4, <2>6, <2>7
<1>4. \A n \in (1 .. lines) \ excused : n \in Counted
  BY DEF Counted
<1> QED
  BY <1>2, <1>3, <1>4

\* The records of a file are the lines read from it, in order; no line that counts is read twice,
\* and each that the reader has passed was read: internal/modules/logs readPath, readUTF16 and
\* the multiline aggregation, over all writes, rotations and overdue cycles, those between the
\* stat of a file and its read too.
THEOREM LinesAreKept == TailSpec => []LinesBecomeRecords
<1>1. TailInit => TailInv
  BY TailBegins
<1>2. TailInv /\ [TailNext]_tailVars => TailInv'
  <2> SUFFICES ASSUME TailInv, [TailNext]_tailVars PROVE TailInv'
    OBVIOUS
  <2>1. ASSUME NEW f \in Files, WriteLine(f) PROVE TailInv'
    BY <2>1, WriteLineKeeps
  <2>2. ASSUME NEW f \in Files, WriteHalf(f) PROVE TailInv'
    BY <2>2, WriteHalfKeeps
  <2>3. ASSUME NEW f \in Files, WriteRest(f) PROVE TailInv'
    BY <2>3, WriteRestKeeps
  <2>4. ASSUME NEW f \in Files, Rotate(f) PROVE TailInv'
    BY <2>4, RotateKeeps
  <2>5. CASE StatFiles
    BY <2>5, StatKeeps
  <2>6. ASSUME Reading, NEW windowOver \in Windows, NEW idle \in IdleFiles(FALSE), Collect(windowOver, idle) PROVE TailInv'
    BY <2>6, CollectKeeps
  <2>7. ASSUME Reading, NEW idle \in IdleFiles(TRUE), CollectOverruns(idle) PROVE TailInv'
    BY <2>7, OverrunKeeps
  <2>8. CASE UNCHANGED tailVars
    BY <2>8 DEF tailVars, TailInv, TailTypes, FileKnown, RecordsKept, FileInv, LinesLieIn, TokensBegun, Counted, Base,
                FirstSight, Size, Sound, Reading
  <2> QED
    BY <2>1, <2>2, <2>3, <2>4, <2>5, <2>6, <2>7, <2>8 DEF TailNext
<1>3. TailInv => LinesBecomeRecords
  <2>1. TailInv => RecordsAreTheLines
    BY DEF TailInv, RecordsKept, RecordsAreTheLines, BytesOf
  <2> QED
    BY <2>1, OnceRead DEF LinesBecomeRecords
<1> QED
  BY <1>1, <1>2, <1>3, PTL DEF TailSpec

=============================================================================
