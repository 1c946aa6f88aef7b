------------------------ MODULE NativeExporterProofs ------------------------
(***************************************************************************)
(* The native exporter, for any batch size, spool size, number of retries   *)
(* and of restarts: whatever was accepted stays accounted for (Accounted),   *)
(* and the intake gets an item twice only where an answer was lost           *)
(* (DuplicatesExplained).  And the inventory that the exporter retains, for  *)
(* any ring, budget and capacity: what it folds from the ring over and over  *)
(* is counted, and is what the ring says last of each item (TableIsTrue).    *)
(***************************************************************************)
EXTENDS NativeExporter, Inventory, NumberSets, SequenceTheorems, TLAPS

PayloadRecord == [signal : {"inventory", "logs", "metrics", "traces"}, items : SUBSET Item]
IngestRecord == [item : Item, signal : Signals]

\* The phases that post.
PostPhases == {"metrics", "logs", "received", "inventory"}

ExporterType ==
  /\ accepted \in Nat /\ accepted <= MaxItems
  /\ logs \in Seq(Item) /\ traces \in Seq(IngestRecord)
  /\ phase \in PostPhases \cup {"idle", "replay", "done"}
  /\ todo \in Seq(PayloadRecord) /\ spool \in Seq(PayloadRecord)
  /\ at \in {"begin", "start", "asked", "void", "backoff", "remove"}
  /\ received \in [Item -> 0 .. 2]
  /\ unsure \subseteq Item /\ shed \subseteq Item /\ late \subseteq Item
  /\ final \in BOOLEAN /\ stopping \in BOOLEAN

\* Where a flush stands: a payload is being posted, or a file replayed, or neither.
Place ==
  /\ phase \in {"idle", "done"} => at = "begin"
  /\ phase = "replay" => at \in {"begin", "asked", "void", "remove"}
  /\ phase \in PostPhases => at # "remove"
  /\ todo # <<>> <=> phase \in PostPhases /\ at # "begin"
  /\ phase = "replay" /\ at # "begin" => Replayable # {}

\* No two payloads hold the same item.
Apart(q) == \A i, j \in 1 .. Len(q) : i # j => q[i].items \cap q[j].items = {}

\* An item is in one buffer, payload or file at a time.
OnePlace ==
  /\ \A i, j \in 1 .. Len(traces) : traces[i].item = traces[j].item => i = j
  /\ Apart(todo) /\ Apart(spool)
  /\ ToSet(logs) \cap Ingested = {}
  /\ (ToSet(logs) \cup Ingested) \cap ItemsOf(todo) = {}
  /\ InMemory \cap ItemsOf(spool) = {}
  /\ InMemory \cup ItemsOf(spool) \subseteq 1 .. accepted
  /\ \A i \in Item : received[i] > 0 => i <= accepted

\* What a replayed file held that is about to be removed.
Answered ==
  IF phase = "replay" /\ at = "remove" THEN spool[FirstOf(Replayable)].items ELSE {}

Received == {i \in Item : received[i] > 0}

\* What the intake has, and surely, is nowhere else, but for a file about to be removed.
Once ==
  \A i \in Received \ unsure :
    received[i] = 1 /\ i \notin InMemory /\ (i \in ItemsOf(spool) => i \in Answered)

Somewhere == 1 .. accepted \subseteq InMemory \cup ItemsOf(spool) \cup Received \cup shed

\* In the last flush a buffer, once posted, holds only what came after Shutdown.
LastFlush ==
  /\ final => stopping
  /\ phase = "done" => final
  /\ final /\ (phase \in {"received", "inventory", "done"} \/ (phase = "logs" /\ at # "begin")) =>
       ToSet(logs) \subseteq late
  /\ final /\ (phase \in {"inventory", "done"} \/ (phase = "received" /\ at # "begin")) =>
       Ingested \subseteq late

Bounds == Len(logs) <= 2 * MaxBatch /\ Len(traces) <= MaxBatch /\ Len(spool) <= MaxSpoolFiles

\* Accounted and DuplicatesExplained as an inductive invariant.
ExporterInv ==
  /\ ExporterType /\ Place /\ OnePlace /\ Once /\ Somewhere
  /\ Answered \subseteq Received \cup shed
  /\ LastFlush /\ Bounds

LEMMA Parameters ==
  /\ MaxItems \in Nat /\ MaxBatch \in Nat /\ MaxBatch > 0 /\ MaxRetries \in Nat
  /\ MaxSpoolFiles \in Nat /\ MaxSpoolFiles > 0
  /\ Signals \subseteq {"traces", "metrics", "logs", "other"}
  BY ExporterAssumption

-----------------------------------------------------------------------------
(* Sequences of payloads. *)

LEMMA NoPayloads == ItemsOf(<<>>) = {} /\ Apart(<<>>)
  BY DEF ItemsOf, Apart

LEMMA OnePayload ==
  ASSUME NEW p \in PayloadRecord
  PROVE  ItemsOf(<<p>>) = p.items /\ Apart(<<p>>) /\ <<p>> \in Seq(PayloadRecord)
<1>1. Len(<<p>>) = 1 /\ <<p>>[1] = p
  OBVIOUS
<1> QED
  BY <1>1 DEF ItemsOf, Apart

\* The first payload of several and the others.
LEMMA FirstPayload ==
  ASSUME NEW q \in Seq(PayloadRecord), q # <<>>
  PROVE  /\ Head(q) \in PayloadRecord /\ Tail(q) \in Seq(PayloadRecord)
         /\ ItemsOf(q) = Head(q).items \cup ItemsOf(Tail(q))
         /\ Apart(q) => Apart(Tail(q)) /\ Head(q).items \cap ItemsOf(Tail(q)) = {}
         /\ Len(q) <= 1 => Tail(q) = <<>>
         /\ Len(q) > 1 => Tail(q) # <<>>
<1>1. /\ Head(q) = q[1] /\ Tail(q) \in Seq(PayloadRecord) /\ Len(Tail(q)) = Len(q) - 1
      /\ Len(q) \in Nat \ {0} /\ \A i \in 1 .. Len(Tail(q)) : Tail(q)[i] = q[i + 1]
  BY HeadTailProperties
<1>2. q[1] \in PayloadRecord
  BY <1>1, ElementOfSeq
<1>3. ItemsOf(q) = q[1].items \cup ItemsOf(Tail(q))
  <2>1. ASSUME NEW x \in ItemsOf(q) PROVE x \in q[1].items \cup ItemsOf(Tail(q))
    <3>1. PICK i \in 1 .. Len(q) : x \in q[i].items
      BY DEF ItemsOf
    <3>2. CASE i = 1
      BY <3>1, <3>2
    <3>3. CASE i # 1
      <4>1. i - 1 \in 1 .. Len(Tail(q)) /\ Tail(q)[i - 1] = q[(i - 1) + 1] /\ (i - 1) + 1 = i
        BY <1>1, <3>3
      <4> QED
        BY <3>1, <4>1 DEF ItemsOf
    <3> QED
      BY <3>2, <3>3
  <2>2. ASSUME NEW x \in ItemsOf(Tail(q)) PROVE x \in ItemsOf(q)
    <3>1. PICK i \in 1 .. Len(Tail(q)) : x \in Tail(q)[i].items
      BY DEF ItemsOf
    <3>2. i + 1 \in 1 .. Len(q) /\ Tail(q)[i] = q[i + 1]
      BY <1>1
    <3> QED
      BY <3>1, <3>2 DEF ItemsOf
  <2>3. q[1].items \subseteq ItemsOf(q)
    BY <1>1 DEF ItemsOf
  <2> QED
    BY <2>1, <2>2, <2>3
<1>4. ASSUME Apart(q) PROVE Apart(Tail(q)) /\ q[1].items \cap ItemsOf(Tail(q)) = {}
  <2>1. \A i \in 1 .. Len(Tail(q)) : i + 1 \in 1 .. Len(q) /\ i + 1 # 1 /\ Tail(q)[i] = q[i + 1]
    BY <1>1
  <2>2. 1 \in 1 .. Len(q)
    BY <1>1
  <2>3. ASSUME NEW i \in 1 .. Len(Tail(q)), NEW j \in 1 .. Len(Tail(q)), i # j
        PROVE  Tail(q)[i].items \cap Tail(q)[j].items = {}
    <3>1. i + 1 # j + 1
      BY <2>3
    <3> QED
      BY <1>4, <2>1, <3>1 DEF Apart
  <2>4. ASSUME NEW i \in 1 .. Len(Tail(q)) PROVE q[1].items \cap Tail(q)[i].items = {}
    BY <1>4, <2>1, <2>2 DEF Apart
  <2> QED
    BY <2>3, <2>4 DEF Apart, ItemsOf
<1>5. (Len(q) <= 1 => Tail(q) = <<>>) /\ (Len(q) > 1 => Tail(q) # <<>>)
  BY <1>1, EmptySeq
<1> QED
  BY <1>1, <1>2, <1>3, <1>4, <1>5

\* A file more.
LEMMA NewFile ==
  ASSUME NEW q \in Seq(PayloadRecord), NEW p \in PayloadRecord
  PROVE  /\ Append(q, p) \in Seq(PayloadRecord)
         /\ ItemsOf(Append(q, p)) = ItemsOf(q) \cup p.items
         /\ Apart(q) /\ p.items \cap ItemsOf(q) = {} => Apart(Append(q, p))
<1>1. /\ Append(q, p) \in Seq(PayloadRecord) /\ Len(Append(q, p)) = Len(q) + 1 /\ Len(q) \in Nat
      /\ \A i \in 1 .. Len(q) : Append(q, p)[i] = q[i]
      /\ Append(q, p)[Len(q) + 1] = p
  BY AppendProperties
<1> DEFINE r == Append(q, p)
<1>2. \A i \in 1 .. Len(r) : \/ i \in 1 .. Len(q) /\ r[i] = q[i]
                             \/ i = Len(q) + 1 /\ r[i] = p
  BY <1>1
<1>3. /\ \A i \in 1 .. Len(q) : i \in 1 .. Len(r)
      /\ Len(q) + 1 \in 1 .. Len(r)
  BY <1>1
<1>4. r[Len(q) + 1] = p /\ \A i \in 1 .. Len(q) : r[i] = q[i]
  BY <1>1
<1> HIDE DEF r
<1>5. ItemsOf(r) = ItemsOf(q) \cup p.items
  BY <1>2, <1>3, <1>4 DEF ItemsOf
<1>6. ASSUME Apart(q), p.items \cap ItemsOf(q) = {} PROVE Apart(r)
  <2>1. \A i \in 1 .. Len(q) : p.items \cap q[i].items = {}
    BY <1>6 DEF ItemsOf
  <2> SUFFICES ASSUME NEW i \in 1 .. Len(r), NEW j \in 1 .. Len(r), i # j
               PROVE  r[i].items \cap r[j].items = {}
    BY DEF Apart
  <2>2. CASE i \in 1 .. Len(q) /\ j \in 1 .. Len(q)
    BY <1>4, <1>6, <2>2 DEF Apart
  <2>3. CASE i \in 1 .. Len(q) /\ j \notin 1 .. Len(q)
    BY <1>2, <1>4, <2>1, <2>3
  <2>4. CASE i \notin 1 .. Len(q)
    <3>1. r[i] = p /\ i = Len(q) + 1
      BY <1>2, <2>4
    <3>2. j \in 1 .. Len(q) /\ r[j] = q[j]
      BY <1>2, <3>1
    <3> QED
      BY <2>1, <3>1, <3>2
  <2> QED
    BY <2>2, <2>3, <2>4
<1> QED
  BY <1>1, <1>5, <1>6 DEF r

\* Files that keep their order but for some that go.
LEMMA FewerFiles ==
  ASSUME NEW q \in Seq(PayloadRecord), NEW r \in Seq(PayloadRecord), NEW f,
         \A i \in 1 .. Len(r) : f[i] \in 1 .. Len(q) /\ r[i] = q[f[i]],
         \A i, j \in 1 .. Len(r) : f[i] = f[j] => i = j
  PROVE  ItemsOf(r) \subseteq ItemsOf(q) /\ (Apart(q) => Apart(r))
<1>1. ItemsOf(r) \subseteq ItemsOf(q)
  <2> SUFFICES ASSUME NEW i \in 1 .. Len(r), NEW x \in r[i].items PROVE x \in ItemsOf(q)
    BY DEF ItemsOf
  <2>1. f[i] \in 1 .. Len(q) /\ r[i] = q[f[i]]
    OBVIOUS
  <2> QED
    BY <2>1 DEF ItemsOf
<1>2. ASSUME Apart(q), NEW i \in 1 .. Len(r), NEW j \in 1 .. Len(r), i # j
      PROVE  r[i].items \cap r[j].items = {}
  <2>1. f[i] \in 1 .. Len(q) /\ f[j] \in 1 .. Len(q) /\ f[i] # f[j]
    BY <1>2
  <2>2. q[f[i]].items \cap q[f[j]].items = {}
    BY <1>2, <2>1 DEF Apart
  <2> QED
    BY <2>2
<1> QED
  BY <1>1, <1>2 DEF Apart

\* trimSpool keeps to the bound, and what it keeps.
LEMMA TrimmedFiles ==
  ASSUME NEW q \in Seq(PayloadRecord)
  PROVE  /\ TrimSpool(q) \in Seq(PayloadRecord) /\ Len(TrimSpool(q)) <= MaxSpoolFiles
         /\ ItemsOf(TrimSpool(q)) \subseteq ItemsOf(q)
         /\ Apart(q) => Apart(TrimSpool(q))
<1>1. MaxSpoolFiles \in Nat /\ MaxSpoolFiles > 0 /\ Len(q) \in Nat
  BY Parameters
<1>2. CASE Len(q) <= MaxSpoolFiles
  BY <1>2 DEF TrimSpool
<1>3. CASE Len(q) > MaxSpoolFiles
  <2> DEFINE k == Len(q) - MaxSpoolFiles + 1
             r == SubSeq(q, k, Len(q))
             f == [i \in 1 .. Len(r) |-> k + i - 1]
  <2>1. k \in 1 .. Len(q) + 1 /\ Len(q) \in (k - 1) .. Len(q)
    BY <1>1, <1>3
  <2>2. /\ r \in Seq(PayloadRecord) /\ Len(r) = Len(q) - k + 1
        /\ \A i \in 1 .. Len(q) - k + 1 : r[i] = q[k + i - 1]
    <3> HIDE DEF k
    <3> QED
      BY <2>1, <1>1, SubSeqProperties
  <2>3. Len(r) = MaxSpoolFiles
    BY <1>1, <2>2
  <2>4. \A i \in 1 .. Len(r) : f[i] \in 1 .. Len(q) /\ r[i] = q[f[i]]
    BY <1>1, <1>3, <2>2, <2>3
  <2>5. \A i, j \in 1 .. Len(r) : f[i] = f[j] => i = j
    BY <1>1, <2>3
  <2>6. ItemsOf(r) \subseteq ItemsOf(q) /\ (Apart(q) => Apart(r))
    <3> HIDE DEF f, r
    <3> QED
      BY <2>2, <2>4, <2>5, FewerFiles
  <2>7. TrimSpool(q) = r
    BY <1>1, <1>3 DEF TrimSpool
  <2> QED
    BY <1>1, <2>2, <2>3, <2>6, <2>7
<1> QED
  BY <1>1, <1>2, <1>3

\* A file is removed.
LEMMA RemovedFile ==
  ASSUME NEW q \in Seq(PayloadRecord), NEW k \in 1 .. Len(q)
  PROVE  /\ RemoveAt(q, k) \in Seq(PayloadRecord) /\ Len(RemoveAt(q, k)) <= Len(q)
         /\ ItemsOf(q) \subseteq ItemsOf(RemoveAt(q, k)) \cup q[k].items
         /\ ItemsOf(RemoveAt(q, k)) \subseteq ItemsOf(q)
         /\ Apart(q) => Apart(RemoveAt(q, k)) /\ ItemsOf(RemoveAt(q, k)) \cap q[k].items = {}
<1> DEFINE a == SubSeq(q, 1, k - 1)
           b == SubSeq(q, k + 1, Len(q))
           r == a \o b
           f == [i \in 1 .. Len(r) |-> IF i < k THEN i ELSE i + 1]
<1>1. Len(q) \in Nat /\ k \in Nat /\ 1 <= k /\ k <= Len(q)
  OBVIOUS
<1>2. a \in Seq(PayloadRecord) /\ Len(a) = k - 1 /\ \A i \in 1 .. (k - 1) : a[i] = q[i]
  <2>1. 1 \in 1 .. Len(q) + 1 /\ k - 1 \in (1 - 1) .. Len(q)
    BY <1>1
  <2>2. /\ a \in Seq(PayloadRecord) /\ Len(a) = (k - 1) - 1 + 1
        /\ \A i \in 1 .. (k - 1) - 1 + 1 : a[i] = q[1 + i - 1]
    BY <2>1, SubSeqProperties
  <2> QED
    BY <1>1, <2>2
<1>3. b \in Seq(PayloadRecord) /\ Len(b) = Len(q) - k /\ \A i \in 1 .. (Len(q) - k) : b[i] = q[k + i]
  <2>1. k + 1 \in 1 .. Len(q) + 1 /\ Len(q) \in ((k + 1) - 1) .. Len(q)
    BY <1>1
  <2>2. /\ b \in Seq(PayloadRecord) /\ Len(b) = Len(q) - (k + 1) + 1
        /\ \A i \in 1 .. Len(q) - (k + 1) + 1 : b[i] = q[(k + 1) + i - 1]
    BY <2>1, SubSeqProperties
  <2> QED
    BY <1>1, <2>2
<1>4. /\ r \in Seq(PayloadRecord) /\ Len(r) = Len(a) + Len(b)
      /\ \A i \in 1 .. Len(a) + Len(b) : r[i] = IF i <= Len(a) THEN a[i] ELSE b[i - Len(a)]
  <2> HIDE DEF a, b
  <2> QED
    BY <1>2, <1>3, ConcatProperties
<1>5. Len(r) = Len(q) - 1
  BY <1>1, <1>2, <1>3, <1>4
<1>6. \A i \in 1 .. Len(r) : f[i] \in 1 .. Len(q) /\ f[i] # k /\ r[i] = q[f[i]]
  <2> HIDE DEF r, a, b
  <2> SUFFICES ASSUME NEW i \in 1 .. Len(r)
               PROVE  f[i] \in 1 .. Len(q) /\ f[i] # k /\ r[i] = q[f[i]]
    OBVIOUS
  <2>1. CASE i < k
    BY <1>1, <1>2, <1>3, <1>4, <1>5, <2>1
  <2>2. CASE i >= k
    <3>1. i - (k - 1) \in 1 .. (Len(q) - k) /\ k + (i - (k - 1)) = i + 1
      BY <1>1, <1>5, <2>2
    <3>2. r[i] = b[i - (k - 1)]
      BY <1>1, <1>2, <1>3, <1>4, <1>5, <2>2
    <3>3. r[i] = q[i + 1]
      BY <1>3, <3>1, <3>2
    <3> QED
      BY <1>1, <1>5, <2>2, <3>3
  <2> QED
    BY <1>1, <2>1, <2>2
<1>7. \A i, j \in 1 .. Len(r) : f[i] = f[j] => i = j
  <2> HIDE DEF r
  <2> QED
    BY <1>1, <1>5
<1>8. \A j \in 1 .. Len(q) : j # k => \E i \in 1 .. Len(r) : f[i] = j
  <2> HIDE DEF r
  <2> SUFFICES ASSUME NEW j \in 1 .. Len(q), j # k PROVE \E i \in 1 .. Len(r) : f[i] = j
    OBVIOUS
  <2>1. CASE j < k
    <3>1. j \in 1 .. Len(r) /\ f[j] = j
      BY <1>1, <1>5, <2>1
    <3> QED
      BY <3>1
  <2>2. CASE j > k
    <3>1. j - 1 \in 1 .. Len(r) /\ f[j - 1] = j
      BY <1>1, <1>5, <2>2
    <3> QED
      BY <3>1
  <2> QED
    BY <1>1, <2>1, <2>2
<1> HIDE DEF f
<1>9. RemoveAt(q, k) = r
  BY DEF RemoveAt
<1> HIDE DEF r
<1>10. ItemsOf(r) \subseteq ItemsOf(q) /\ (Apart(q) => Apart(r))
  <2>1. r \in Seq(PayloadRecord) /\ \A i \in 1 .. Len(r) : f[i] \in 1 .. Len(q) /\ r[i] = q[f[i]]
    BY <1>4, <1>6
  <2> QED
    BY <1>7, <2>1, FewerFiles
<1>11. ItemsOf(q) \subseteq ItemsOf(r) \cup q[k].items
  <2> SUFFICES ASSUME NEW j \in 1 .. Len(q), NEW x \in q[j].items, j # k PROVE x \in ItemsOf(r)
    BY DEF ItemsOf
  <2>1. PICK i \in 1 .. Len(r) : f[i] = j
    BY <1>8
  <2>2. r[i] = q[j]
    BY <1>6, <2>1
  <2> QED
    BY <2>2 DEF ItemsOf
<1>12. Apart(q) => ItemsOf(r) \cap q[k].items = {}
  BY <1>6 DEF ItemsOf, Apart
<1>13. Len(r) <= Len(q)
  BY <1>1, <1>5
<1> QED
  BY <1>4, <1>9, <1>10, <1>11, <1>12, <1>13

\* Payloads one after another.
LEMMA JoinedPayloads ==
  ASSUME NEW p \in Seq(PayloadRecord), NEW q \in Seq(PayloadRecord)
  PROVE  /\ p \o q \in Seq(PayloadRecord)
         /\ ItemsOf(p \o q) = ItemsOf(p) \cup ItemsOf(q)
         /\ Apart(p) /\ Apart(q) /\ ItemsOf(p) \cap ItemsOf(q) = {} => Apart(p \o q)
<1> DEFINE r == p \o q
<1>1. /\ Len(p) \in Nat /\ Len(q) \in Nat /\ r \in Seq(PayloadRecord) /\ Len(r) = Len(p) + Len(q)
      /\ \A i \in 1 .. Len(p) + Len(q) : r[i] = IF i <= Len(p) THEN p[i] ELSE q[i - Len(p)]
  BY ConcatProperties
<1> HIDE DEF r
<1>2. \A i \in 1 .. Len(p) : i \in 1 .. Len(r) /\ r[i] = p[i]
  BY <1>1
<1>3. \A i \in 1 .. Len(q) : i + Len(p) \in 1 .. Len(r) /\ r[i + Len(p)] = q[i]
  <2> SUFFICES ASSUME NEW i \in 1 .. Len(q)
               PROVE  i + Len(p) \in 1 .. Len(r) /\ r[i + Len(p)] = q[i]
    OBVIOUS
  <2>1. i + Len(p) \in 1 .. Len(p) + Len(q) /\ ~(i + Len(p) <= Len(p)) /\ (i + Len(p)) - Len(p) = i
    BY <1>1
  <2> QED
    BY <1>1, <2>1
<1>4. \A i \in 1 .. Len(r) : \/ i \in 1 .. Len(p)
                             \/ i - Len(p) \in 1 .. Len(q) /\ r[i] = q[i - Len(p)]
  BY <1>1
<1>5. ItemsOf(r) = ItemsOf(p) \cup ItemsOf(q)
  BY <1>2, <1>3, <1>4 DEF ItemsOf
<1>6. ASSUME Apart(p), Apart(q), ItemsOf(p) \cap ItemsOf(q) = {} PROVE Apart(r)
  <2>1. \A i \in 1 .. Len(p), j \in 1 .. Len(q) : p[i].items \cap q[j].items = {}
    BY <1>6 DEF ItemsOf
  <2> SUFFICES ASSUME NEW i \in 1 .. Len(r), NEW j \in 1 .. Len(r), i # j
               PROVE  r[i].items \cap r[j].items = {}
    BY DEF Apart
  <2>2. CASE i \in 1 .. Len(p) /\ j \in 1 .. Len(p)
    BY <1>2, <1>6, <2>2 DEF Apart
  <2>3. CASE i \in 1 .. Len(p) /\ j \notin 1 .. Len(p)
    BY <1>2, <1>4, <2>1, <2>3
  <2>4. CASE i \notin 1 .. Len(p) /\ j \in 1 .. Len(p)
    BY <1>2, <1>4, <2>1, <2>4
  <2>5. CASE i \notin 1 .. Len(p) /\ j \notin 1 .. Len(p)
    <3>1. /\ i - Len(p) \in 1 .. Len(q) /\ j - Len(p) \in 1 .. Len(q)
          /\ r[i] = q[i - Len(p)] /\ r[j] = q[j - Len(p)]
      BY <1>4, <2>5
    <3>2. i - Len(p) # j - Len(p)
      BY <1>1
    <3> QED
      BY <1>6, <3>1, <3>2 DEF Apart
  <2> QED
    BY <2>2, <2>3, <2>4, <2>5
<1> QED
  BY <1>1, <1>5, <1>6 DEF r

-----------------------------------------------------------------------------
(* The file a replay picks, and what a request does. *)

\* There is a first file of those that are replayed.
LEMMA ReplayedFile ==
  ASSUME ExporterType, Replayable # {}
  PROVE  FirstOf(Replayable) \in 1 .. Len(spool) /\ spool[FirstOf(Replayable)] \in PayloadRecord
<1> DEFINE r(k) == NameOrder[spool[k].signal]
           Ranks == {r(k) : k \in Replayable}
           Before(i, j) == r(i) < r(j) \/ (r(i) = r(j) /\ i <= j)
<1>1. Replayable \subseteq 1 .. Len(spool) /\ Len(spool) \in Nat
  BY DEF Replayable, FilesOf, ExporterType
<1>2. \A k \in 1 .. Len(spool) : spool[k] \in PayloadRecord
  BY DEF ExporterType
<1>3. \A k \in Replayable : r(k) \in Nat
  BY <1>1, <1>2 DEF PayloadRecord, NameOrder
<1>4. PICK least \in Ranks : \A y \in Ranks : least <= y
  BY <1>3, SmallestIn
<1> DEFINE Firsts == {k \in Replayable : r(k) = least}
<1>5. Firsts # {} /\ Firsts \subseteq Nat
  <2>1. PICK k \in Replayable : least = r(k)
    BY <1>4
  <2>2. k \in Firsts
    BY <2>1
  <2>3. Replayable \subseteq Nat
    BY <1>1
  <2>4. Firsts \subseteq Replayable
    OBVIOUS
  <2> HIDE DEF Firsts
  <2> QED
    BY <2>2, <2>3, <2>4
<1>6. PICK i \in Firsts : \A j \in Firsts : i <= j
  BY <1>5, SmallestIn
<1>7. \A j \in Replayable : Before(i, j)
  <2> SUFFICES ASSUME NEW j \in Replayable PROVE Before(i, j)
    OBVIOUS
  <2>1. r(i) = least /\ least <= r(j) /\ r(i) \in Nat /\ r(j) \in Nat
    BY <1>3, <1>4
  <2>2. r(i) = r(j) => i <= j
    BY <1>6, <2>1
  <2> HIDE DEF r
  <2> QED
    BY <2>1, <2>2
<1>8. FirstOf(Replayable) \in Replayable
  <2>1. \E k \in Replayable : \A j \in Replayable : Before(k, j)
    BY <1>7
  <2> QED
    BY <2>1 DEF FirstOf
<1> QED
  BY <1>1, <1>2, <1>8

\* A request that the intake receives.
LEMMA ReceivesItems ==
  ASSUME received \in [Item -> 0 .. 2], NEW items \in SUBSET Item, Receives(items)
  PROVE  /\ received' \in [Item -> 0 .. 2]
         /\ \A i \in Item : /\ received[i] <= received'[i]
                            /\ received'[i] # received[i] => i \in items
                            /\ i \in items => received'[i] > 0
                            /\ received[i] = 0 => received'[i] <= 1
<1>1. received' = [i \in Item |-> IF i \in items /\ received[i] < 2 THEN received[i] + 1
                                 ELSE received[i]]
  BY DEF Receives
<1>2. \A i \in Item : received[i] \in 0 .. 2
  OBVIOUS
<1>3. \A i \in Item : received'[i] = IF i \in items /\ received[i] < 2 THEN received[i] + 1
                                    ELSE received[i]
  BY <1>1
<1>4. \A i \in Item : received'[i] \in 0 .. 2
  BY <1>2, <1>3
<1>5. received' \in [Item -> 0 .. 2]
  BY <1>1, <1>4
<1> QED
  BY <1>2, <1>3, <1>5

\* What a failed request may have done: what it delivered, nobody knows of.
LEMMA FailedRequest ==
  ASSUME ExporterType, NEW p \in PayloadRecord, Fails(p) \/ (Refused)
  PROVE  /\ received' \in [Item -> 0 .. 2] /\ unsure' \subseteq Item /\ unsure \subseteq unsure'
         /\ \A i \in Item : /\ received[i] <= received'[i]
                            /\ received'[i] # received[i] => i \in p.items /\ i \in unsure'
<1>1. p.items \in SUBSET Item /\ received \in [Item -> 0 .. 2] /\ unsure \subseteq Item
  BY DEF PayloadRecord, ExporterType
<1>2. CASE UNCHANGED <<received, unsure>>
  <2>1. \A i \in Item : received[i] <= received'[i]
    BY <1>1, <1>2
  <2> QED
    BY <1>1, <1>2, <2>1
<1>3. CASE Receives(p.items) /\ unsure' = unsure \cup p.items
  BY <1>1, <1>3, ReceivesItems
<1> QED
  BY <1>2, <1>3 DEF Fails, Refused

-----------------------------------------------------------------------------
(* post. *)

\* What the invariant says while a payload is being posted.
LEMMA WhilePosting ==
  ASSUME ExporterInv, todo # <<>>
  PROVE  /\ phase \in PostPhases /\ at # "begin" /\ Answered = {}
         /\ Current \in PayloadRecord /\ Current.items \subseteq Item
         /\ Tail(todo) \in Seq(PayloadRecord) /\ Apart(Tail(todo))
         /\ ItemsOf(todo) = Current.items \cup ItemsOf(Tail(todo))
         /\ Current.items \cap ItemsOf(Tail(todo)) = {}
         /\ Current.items \cap (ToSet(logs) \cup Ingested \cup ItemsOf(spool)) = {}
         /\ \A i \in Current.items : received[i] > 0 => i \in unsure
<1>1. todo \in Seq(PayloadRecord) /\ Apart(todo)
  BY DEF ExporterInv, ExporterType, OnePlace
<1>2. phase \in PostPhases /\ at # "begin" /\ Answered = {}
  BY DEF ExporterInv, Place, Answered, PostPhases
<1>3. /\ Current \in PayloadRecord /\ Tail(todo) \in Seq(PayloadRecord) /\ Apart(Tail(todo))
      /\ ItemsOf(todo) = Current.items \cup ItemsOf(Tail(todo))
      /\ Current.items \cap ItemsOf(Tail(todo)) = {}
  BY <1>1, FirstPayload DEF Current
<1>4. Current.items \subseteq InMemory /\ Current.items \subseteq Item
  BY <1>3 DEF InMemory, PayloadRecord
<1>5. Current.items \cap (ToSet(logs) \cup Ingested \cup ItemsOf(spool)) = {}
  BY <1>3, <1>4 DEF ExporterInv, OnePlace
<1>6. \A i \in Current.items : received[i] > 0 => i \in unsure
  BY <1>4 DEF ExporterInv, Once, Received
<1> QED
  BY <1>2, <1>3, <1>4, <1>5, <1>6

\* A phase is over: the next one begins, and the last flush has posted another buffer.
LEMMA PhaseEnds ==
  ASSUME ExporterInv, phase \in PostPhases \cup {"replay"}, NextPhase,
         phase \in {"logs", "received"} => at # "begin",
         UNCHANGED <<logs, traces, final, stopping, late>>
  PROVE  /\ phase' \in PostPhases \cup {"idle", "done"} /\ at' = "begin" /\ todo' = <<>>
         /\ LastFlush'
<1>1. /\ phase' = PhaseAfter[phase] /\ at' = "begin" /\ todo' = <<>>
      /\ LastFlush /\ final \in BOOLEAN
  BY DEF NextPhase, ExporterInv, ExporterType
<1>2. CASE phase = "replay"
  BY <1>1, <1>2 DEF PhaseAfter, PostPhases, LastFlush, Ingested
<1>3. CASE phase = "metrics"
  BY <1>1, <1>3 DEF PhaseAfter, PostPhases, LastFlush, Ingested
<1>4. CASE phase = "logs"
  BY <1>1, <1>4 DEF PhaseAfter, PostPhases, LastFlush, Ingested
<1>5. CASE phase = "received"
  BY <1>1, <1>5 DEF PhaseAfter, PostPhases, LastFlush, Ingested
<1>6. CASE phase = "inventory"
  BY <1>1, <1>6 DEF PhaseAfter, PostPhases, LastFlush, Ingested
<1> QED
  BY <1>2, <1>3, <1>4, <1>5, <1>6 DEF PostPhases

\* The post goes on.
LEMMA PostStays ==
  ASSUME ExporterInv, todo # <<>>, at' \in {"asked", "void", "backoff"},
         UNCHANGED <<accepted, logs, traces, phase, todo, final, stopping, spool, shed, late>>,
         received' \in [Item -> 0 .. 2], unsure' \subseteq Item, unsure \subseteq unsure',
         \A i \in Item : /\ received[i] <= received'[i]
                         /\ received'[i] # received[i] => i \in Current.items /\ i \in unsure'
  PROVE  ExporterInv'
<1>1. /\ phase \in PostPhases /\ at # "begin" /\ Answered = {}
      /\ Current.items \subseteq ItemsOf(todo)
  BY WhilePosting
<1>2. ExporterType'
  BY DEF ExporterInv, ExporterType
<1>3. Place'
  BY <1>1 DEF ExporterInv, Place, PostPhases, Replayable, FilesOf
<1>4. Received \subseteq Received'
  BY DEF Received, ExporterInv, ExporterType
<1>5. OnePlace'
  <2>1. Current.items \subseteq 1 .. accepted
    BY <1>1 DEF ExporterInv, OnePlace, InMemory
  <2>2. \A i \in Item : received'[i] > 0 => i <= accepted
    BY <2>1 DEF ExporterInv, OnePlace, ExporterType
  <2>3. /\ ToSet(logs)' = ToSet(logs) /\ Ingested' = Ingested /\ InMemory' = InMemory
        /\ ItemsOf(todo)' = ItemsOf(todo) /\ ItemsOf(spool)' = ItemsOf(spool)
        /\ Apart(todo)' = Apart(todo) /\ Apart(spool)' = Apart(spool)
    BY DEF Ingested, InMemory, ItemsOf, Apart
  <2> QED
    BY <2>2, <2>3 DEF ExporterInv, OnePlace
<1>6. InMemory' = InMemory /\ ItemsOf(spool)' = ItemsOf(spool) /\ Answered' = {}
  BY <1>1 DEF InMemory, Ingested, ItemsOf, Answered, PostPhases
<1>7. Once'
  <2> SUFFICES ASSUME NEW i \in Item, received'[i] > 0, i \notin unsure'
               PROVE  received'[i] = 1 /\ i \notin InMemory /\ i \notin ItemsOf(spool)
    BY <1>6 DEF Once, Received
  <2>1. received'[i] = received[i] /\ i \notin unsure
    OBVIOUS
  <2> QED
    BY <1>1, <2>1 DEF ExporterInv, Once, Received
<1>8. Somewhere'
  BY <1>4, <1>6 DEF ExporterInv, Somewhere
<1>9. LastFlush'
  BY <1>1 DEF ExporterInv, LastFlush, Ingested
<1>10. Bounds'
  BY DEF ExporterInv, Bounds
<1> QED
  BY <1>2, <1>3, <1>5, <1>6, <1>7, <1>8, <1>9, <1>10 DEF ExporterInv

\* The post is over: its payload is delivered, spooled or given up.
LEMMA PostEnds ==
  ASSUME ExporterInv, todo # <<>>, PostOver,
         UNCHANGED <<accepted, logs, traces, final, stopping, late>>,
         spool' \in Seq(PayloadRecord), Apart(spool'), Len(spool') <= MaxSpoolFiles,
         ItemsOf(spool') \subseteq ItemsOf(spool) \cup Current.items,
         received' \in [Item -> 0 .. 2], unsure' \subseteq Item, unsure \subseteq unsure',
         shed' \subseteq Item, shed \subseteq shed',
         \A i \in Item : /\ received[i] <= received'[i]
                         /\ received'[i] # received[i] =>
                              i \in Current.items
                                /\ (i \in unsure' \/ (received'[i] <= 1 /\ i \notin ItemsOf(spool'))),
         \A i \in ItemsOf(spool) \cup Current.items :
           i \in ItemsOf(spool') \/ i \in shed' \/ received'[i] > 0
  PROVE  ExporterInv'
<1> DEFINE c == Current.items
<1>1. /\ phase \in PostPhases /\ at # "begin" /\ Answered = {} /\ c \subseteq Item
      /\ Tail(todo) \in Seq(PayloadRecord) /\ Apart(Tail(todo))
      /\ ItemsOf(todo) = c \cup ItemsOf(Tail(todo))
      /\ c \cap ItemsOf(Tail(todo)) = {}
      /\ c \cap (ToSet(logs) \cup Ingested \cup ItemsOf(spool)) = {}
      /\ \A i \in c : received[i] > 0 => i \in unsure
  BY WhilePosting
<1>2. /\ todo' = Tail(todo) /\ LastFlush'
      /\ \/ phase' = phase /\ at' = "start" /\ todo' # <<>>
         \/ phase' \in PostPhases \cup {"idle", "done"} /\ at' = "begin" /\ todo' = <<>>
  <2>1. todo \in Seq(PayloadRecord)
    BY DEF ExporterInv, ExporterType
  <2>2. CASE Len(todo) > 1
    <3>1. todo' = Tail(todo) /\ at' = "start" /\ phase' = phase /\ Tail(todo) # <<>>
      BY <2>1, <2>2, FirstPayload DEF PostOver
    <3>2. LastFlush'
      BY <1>1, <3>1 DEF ExporterInv, LastFlush, Ingested
    <3> QED
      BY <3>1, <3>2
  <2>3. CASE ~(Len(todo) > 1)
    <3>1. NextPhase /\ Tail(todo) = <<>>
      <4>1. Len(todo) <= 1
        BY <2>1, <2>3
      <4> QED
        BY <2>1, <2>3, <4>1, FirstPayload DEF PostOver
    <3>2. /\ phase' \in PostPhases \cup {"idle", "done"} /\ at' = "begin" /\ todo' = <<>>
          /\ LastFlush'
      BY <1>1, <3>1, PhaseEnds
    <3> QED
      BY <3>1, <3>2
  <2> QED
    BY <2>2, <2>3
<1>3. ExporterType'
  BY <1>1, <1>2 DEF ExporterInv, ExporterType
<1>4. Place'
  BY <1>1, <1>2 DEF Place, PostPhases
<1>5. Received \subseteq Received'
  <2> SUFFICES ASSUME NEW i \in Item, received[i] > 0 PROVE received'[i] > 0
    BY DEF Received
  <2>1. received[i] \in 0 .. 2 /\ received'[i] \in 0 .. 2 /\ received[i] <= received'[i]
    BY DEF ExporterInv, ExporterType
  <2> QED
    BY <2>1
<1>6. /\ ToSet(logs)' = ToSet(logs) /\ Ingested' = Ingested /\ Answered' = {}
      /\ InMemory' = ToSet(logs) \cup Ingested \cup ItemsOf(Tail(todo))
      /\ InMemory = InMemory' \cup c
  BY <1>1, <1>2 DEF InMemory, Ingested, Answered, PostPhases
<1>7. OnePlace'
  <2>1. /\ \A i, j \in 1 .. Len(traces) : traces[i].item = traces[j].item => i = j
        /\ ToSet(logs) \cap Ingested = {}
        /\ (ToSet(logs) \cup Ingested) \cap ItemsOf(todo) = {}
        /\ InMemory \cap ItemsOf(spool) = {}
        /\ InMemory \cup ItemsOf(spool) \subseteq 1 .. accepted
        /\ \A i \in Item : received[i] > 0 => i <= accepted
    BY DEF ExporterInv, OnePlace
  <2>2. InMemory' \cap ItemsOf(spool') = {}
    BY <1>1, <1>6, <2>1
  <2>3. InMemory' \cup ItemsOf(spool') \subseteq 1 .. accepted
    BY <1>6, <2>1
  <2>4. \A i \in Item : received'[i] > 0 => i <= accepted
    <3>1. c \subseteq 1 .. accepted
      BY <1>6, <2>1
    <3> QED
      BY <2>1, <3>1 DEF ExporterInv, ExporterType
  <2>5. ItemsOf(todo)' = ItemsOf(Tail(todo)) /\ ItemsOf(spool)' = ItemsOf(spool')
    BY <1>2
  <2> QED
    BY <1>1, <1>2, <1>6, <2>1, <2>2, <2>3, <2>4, <2>5 DEF OnePlace
<1>8. Once'
  <2> SUFFICES ASSUME NEW i \in Item, received'[i] > 0, i \notin unsure'
               PROVE  received'[i] = 1 /\ i \notin InMemory' /\ i \notin ItemsOf(spool')
    BY <1>6 DEF Once, Received
  <2>1. CASE received'[i] = received[i]
    <3>1. received[i] = 1 /\ i \notin InMemory /\ i \notin ItemsOf(spool)
      BY <1>1, <2>1 DEF ExporterInv, Once, Received
    <3> QED
      BY <1>6, <2>1, <3>1
  <2>2. CASE received'[i] # received[i]
    <3>1. i \in c /\ received'[i] <= 1 /\ i \notin ItemsOf(spool') /\ received'[i] \in 0 .. 2
      BY <2>2
    <3>2. i \notin InMemory'
      BY <1>1, <1>6, <3>1
    <3> QED
      BY <3>1, <3>2
  <2> QED
    BY <2>1, <2>2
<1>9. Somewhere'
  <2> SUFFICES ASSUME NEW i \in 1 .. accepted
               PROVE  i \in InMemory' \/ i \in ItemsOf(spool') \/ i \in Received' \/ i \in shed'
    BY DEF Somewhere
  <2>1. i \in Item
    BY Parameters DEF ExporterInv, ExporterType, Item
  <2>2. i \in InMemory \/ i \in ItemsOf(spool) \/ i \in Received \/ i \in shed
    BY DEF ExporterInv, Somewhere
  <2>3. i \in ItemsOf(spool) \cup c => i \in ItemsOf(spool') \/ i \in shed' \/ i \in Received'
    BY <2>1 DEF Received
  <2> QED
    BY <1>5, <1>6, <2>2, <2>3
<1>10. Bounds'
  BY DEF ExporterInv, Bounds
<1> QED
  BY <1>2, <1>3, <1>4, <1>6, <1>7, <1>8, <1>9, <1>10 DEF ExporterInv

\* Spooling a payload: it, and what the spool held, is in the spool or given up.
LEMMA SpooledPayload ==
  ASSUME ExporterInv, NEW p \in PayloadRecord, Spool(p), p.items \cap ItemsOf(spool) = {}
  PROVE  /\ spool' \in Seq(PayloadRecord) /\ Apart(spool') /\ Len(spool') <= MaxSpoolFiles
         /\ ItemsOf(spool') \subseteq ItemsOf(spool) \cup p.items
         /\ shed' \subseteq Item /\ shed \subseteq shed'
         /\ ItemsOf(spool) \cup p.items \subseteq ItemsOf(spool') \cup shed'
<1> DEFINE files == Append(spool, p)
<1>1. /\ spool \in Seq(PayloadRecord) /\ Apart(spool) /\ shed \subseteq Item
      /\ ItemsOf(spool) \subseteq Item /\ p.items \subseteq Item
  <2>1. spool \in Seq(PayloadRecord)
    BY DEF ExporterInv, ExporterType
  <2>2. \A i \in 1 .. Len(spool) : spool[i] \in PayloadRecord
    BY <2>1
  <2> QED
    BY <2>1, <2>2 DEF ExporterInv, ExporterType, OnePlace, ItemsOf, PayloadRecord
<1>2. files \in Seq(PayloadRecord) /\ ItemsOf(files) = ItemsOf(spool) \cup p.items /\ Apart(files)
  BY <1>1, NewFile
<1>3. spool' = TrimSpool(files) /\ shed' = shed \cup (ItemsOf(files) \ ItemsOf(TrimSpool(files)))
  BY DEF Spool
<1> HIDE DEF files
<1>4. /\ TrimSpool(files) \in Seq(PayloadRecord) /\ Len(TrimSpool(files)) <= MaxSpoolFiles
      /\ ItemsOf(TrimSpool(files)) \subseteq ItemsOf(files) /\ Apart(TrimSpool(files))
  BY <1>2, TrimmedFiles
<1> QED
  BY <1>1, <1>2, <1>3, <1>4

\* post, from the first look at the circuit to its end.
LEMMA PostKeepsInv ==
  ASSUME ExporterInv, Post
  PROVE  ExporterInv'
<1> DEFINE p == Current
<1>1. todo # <<>> /\ UNCHANGED <<accepted, logs, traces, final, stopping, late>>
  BY DEF Post
<1>2. /\ p \in PayloadRecord /\ p.items \subseteq Item /\ p.items \cap ItemsOf(spool) = {}
      /\ \A i \in p.items : received[i] > 0 => i \in unsure
  BY <1>1, WhilePosting
<1>3. /\ spool \in Seq(PayloadRecord) /\ Apart(spool) /\ Len(spool) <= MaxSpoolFiles
      /\ received \in [Item -> 0 .. 2] /\ unsure \subseteq Item /\ shed \subseteq Item
      /\ \A i \in Item : received[i] <= received[i]
  <2>1. \A i \in Item : received[i] \in 0 .. 2
    BY DEF ExporterInv, ExporterType
  <2>2. \A i \in Item : received[i] <= received[i]
    BY <2>1
  <2> QED
    BY <2>2 DEF ExporterInv, ExporterType, OnePlace, Bounds
<1>4. ASSUME Spool(p), PostOver, received' \in [Item -> 0 .. 2], unsure' \subseteq Item,
             unsure \subseteq unsure',
             \A i \in Item : /\ received[i] <= received'[i]
                             /\ received'[i] # received[i] => i \in p.items /\ i \in unsure'
      PROVE  ExporterInv'
  <2>1. /\ spool' \in Seq(PayloadRecord) /\ Apart(spool') /\ Len(spool') <= MaxSpoolFiles
        /\ ItemsOf(spool') \subseteq ItemsOf(spool) \cup p.items
        /\ shed' \subseteq Item /\ shed \subseteq shed'
        /\ ItemsOf(spool) \cup p.items \subseteq ItemsOf(spool') \cup shed'
    BY <1>2, <1>4, SpooledPayload
  <2> QED
    BY <1>1, <1>4, <2>1, PostEnds
<1>5. CASE PostBegins
  <2>1. received' = received /\ unsure' = unsure
    BY <1>5 DEF PostBegins
  <2>2. CASE Spool(p) /\ PostOver
    BY <1>3, <1>4, <2>1, <2>2
  <2>3. CASE PostOver /\ shed' = shed \cup p.items /\ UNCHANGED spool
    BY <1>1, <1>2, <1>3, <2>1, <2>3, PostEnds
  <2>4. CASE Ask /\ UNCHANGED <<phase, todo, attempt, spool, shed>>
    BY <1>1, <1>3, <2>1, <2>4, PostStays DEF Ask
  <2> QED
    BY <1>5, <2>2, <2>3, <2>4 DEF PostBegins
<1>6. CASE PostSucceeds
  <2>1. Receives(p.items) /\ unsure' = unsure /\ PostOver /\ UNCHANGED <<spool, shed>>
    BY <1>6 DEF PostSucceeds, Succeeds
  <2>2. /\ received' \in [Item -> 0 .. 2]
        /\ \A i \in Item : /\ received[i] <= received'[i]
                           /\ received'[i] # received[i] => i \in p.items
                           /\ i \in p.items => received'[i] > 0
                           /\ received[i] = 0 => received'[i] <= 1
    BY <1>2, <1>3, <2>1, ReceivesItems
  <2>3. \A i \in Item : received'[i] # received[i] =>
           i \in p.items /\ (i \in unsure' \/ (received'[i] <= 1 /\ i \notin ItemsOf(spool')))
    <3>1. ASSUME NEW i \in Item, received'[i] # received[i], i \notin unsure'
          PROVE  i \in p.items /\ received'[i] <= 1 /\ i \notin ItemsOf(spool')
      <4>1. i \in p.items /\ received[i] \in 0 .. 2
        BY <1>3, <2>2, <3>1
      <4>2. received[i] = 0
        BY <1>2, <2>1, <3>1, <4>1
      <4> QED
        BY <1>2, <2>1, <2>2, <4>1, <4>2
    <3>2. \A i \in Item : received'[i] # received[i] => i \in p.items
      BY <2>2
    <3> QED
      BY <3>1, <3>2
  <2>4. \A i \in ItemsOf(spool) \cup p.items :
          i \in ItemsOf(spool') \/ i \in shed' \/ received'[i] > 0
    BY <1>2, <2>1, <2>2
  <2> QED
    BY <1>1, <1>3, <2>1, <2>2, <2>3, <2>4, PostEnds
<1>7. CASE PostFails
  <2>1. Fails(p) \/ Refused
    BY <1>7 DEF PostFails
  <2>2. Spool(p) /\ PostOver
    BY <1>7 DEF PostFails
  <2> QED
    BY <1>2, <1>4, <2>1, <2>2, FailedRequest DEF ExporterInv
<1>8. CASE PostBacksOff
  <2>1. Fails(p) /\ at' = "backoff" /\ UNCHANGED <<phase, todo, spool, shed>>
    BY <1>8 DEF PostBacksOff
  <2> QED
    BY <1>1, <1>2, <2>1, FailedRequest, PostStays DEF ExporterInv
<1>9. CASE PostRetries
  <2>1. Ask /\ UNCHANGED <<phase, todo, spool, received, unsure, shed>>
    BY <1>9 DEF PostRetries, books
  <2> QED
    BY <1>1, <1>3, <2>1, PostStays DEF Ask
<1>10. CASE PostCancelled
  <2>1. Spool(p) /\ PostOver /\ received' = received /\ unsure' = unsure
    BY <1>10 DEF PostCancelled
  <2> QED
    BY <1>3, <1>4, <2>1
<1> QED
  BY <1>5, <1>6, <1>7, <1>8, <1>9, <1>10 DEF Post

-----------------------------------------------------------------------------
(* replaySpool. *)

\* The replay goes on with the same spool.
LEMMA ReplayStays ==
  ASSUME ExporterInv, phase = "replay", phase' = "replay", Replayable # {},
         at' \in {"asked", "void", "remove"},
         UNCHANGED <<accepted, logs, traces, todo, final, stopping, spool, late>>,
         received' \in [Item -> 0 .. 2], unsure' = unsure, at # "remove",
         shed' \subseteq Item, shed \subseteq shed',
         \A i \in Item :
           /\ received[i] <= received'[i]
           /\ received'[i] # received[i] =>
                i \in spool[FirstOf(Replayable)].items /\ at' = "remove"
                  /\ (received[i] = 0 => received'[i] <= 1),
         at' = "remove" => \A i \in spool[FirstOf(Replayable)].items :
                             i \in shed' \/ received'[i] > 0
  PROVE  ExporterInv'
<1> DEFINE file == spool[FirstOf(Replayable)]
<1>1. FirstOf(Replayable) \in 1 .. Len(spool) /\ file \in PayloadRecord
  BY ReplayedFile DEF ExporterInv
<1>2. file.items \subseteq ItemsOf(spool) /\ file.items \subseteq Item
  BY <1>1 DEF ItemsOf, PayloadRecord
<1>3. /\ InMemory' = InMemory /\ ItemsOf(spool)' = ItemsOf(spool) /\ Answered = {}
      /\ ToSet(logs)' = ToSet(logs) /\ Ingested' = Ingested /\ ItemsOf(todo)' = ItemsOf(todo)
      /\ Apart(todo)' = Apart(todo) /\ Apart(spool)' = Apart(spool) /\ Replayable' = Replayable
      /\ Answered' = IF at' = "remove" THEN file.items ELSE {}
  BY DEF InMemory, Ingested, ItemsOf, Answered, Apart, Replayable, FilesOf, FirstOf
<1>4. ExporterType'
  BY DEF ExporterInv, ExporterType
<1>5. Place'
  BY <1>3 DEF ExporterInv, Place, PostPhases
<1>6. Received \subseteq Received'
  <2> SUFFICES ASSUME NEW i \in Item, received[i] > 0 PROVE received'[i] > 0
    BY DEF Received
  <2>1. received[i] \in 0 .. 2 /\ received'[i] \in 0 .. 2 /\ received[i] <= received'[i]
    BY DEF ExporterInv, ExporterType
  <2> QED
    BY <2>1
<1>7. OnePlace'
  <2>1. \A i \in Item : received'[i] > 0 => i <= accepted
    <3>1. file.items \subseteq 1 .. accepted
      BY <1>2 DEF ExporterInv, OnePlace
    <3> QED
      BY <3>1 DEF ExporterInv, OnePlace, ExporterType
  <2> QED
    BY <1>3, <2>1 DEF ExporterInv, OnePlace
<1>8. Once'
  <2> SUFFICES ASSUME NEW i \in Item, received'[i] > 0, i \notin unsure
               PROVE  /\ received'[i] = 1 /\ i \notin InMemory
                      /\ i \in ItemsOf(spool) => i \in Answered'
    BY <1>3 DEF Once, Received
  <2>1. CASE received'[i] = received[i]
    BY <1>3, <2>1 DEF ExporterInv, Once, Received
  <2>2. CASE received'[i] # received[i]
    <3>1. i \in file.items /\ at' = "remove" /\ received[i] \in 0 .. 2 /\ received'[i] \in 0 .. 2
      BY <2>2 DEF ExporterInv, ExporterType
    <3>2. received[i] = 0
      BY <1>2, <1>3, <3>1 DEF ExporterInv, Once, Received
    <3>3. i \notin InMemory
      BY <1>2, <3>1 DEF ExporterInv, OnePlace
    <3> QED
      BY <1>3, <2>2, <3>1, <3>2, <3>3
  <2> QED
    BY <2>1, <2>2
<1>9. Somewhere'
  BY <1>3, <1>6 DEF ExporterInv, Somewhere
<1>10. Answered' \subseteq Received' \cup shed'
  BY <1>2, <1>3 DEF Received
<1>11. LastFlush' /\ Bounds'
  BY DEF ExporterInv, LastFlush, Bounds, Ingested
<1> QED
  BY <1>4, <1>5, <1>7, <1>8, <1>9, <1>10, <1>11 DEF ExporterInv

\* A step that moves no item; what it delivers, nobody knows of.
LEMMA FlushMoves ==
  ASSUME ExporterInv, at # "remove", at' # "remove",
         UNCHANGED <<accepted, logs, traces, spool, shed, late>>,
         todo' = todo, final' \in BOOLEAN, stopping' \in BOOLEAN,
         phase' \in PostPhases \cup {"idle", "replay", "done"}, at' \in {"begin", "asked", "void"},
         received' \in [Item -> 0 .. 2], unsure' \subseteq Item, unsure \subseteq unsure',
         \A i \in Item : /\ received[i] <= received'[i]
                         /\ received'[i] # received[i] => i \in unsure' /\ i \in 1 .. accepted,
         Place', LastFlush'
  PROVE  ExporterInv'
<1>1. /\ InMemory' = InMemory /\ ItemsOf(spool)' = ItemsOf(spool) /\ Answered = {}
      /\ ToSet(logs)' = ToSet(logs) /\ Ingested' = Ingested /\ ItemsOf(todo)' = ItemsOf(todo)
      /\ Apart(todo)' = Apart(todo) /\ Apart(spool)' = Apart(spool) /\ Answered' = {}
  BY DEF InMemory, Ingested, ItemsOf, Answered, Apart
<1>2. ExporterType' /\ Bounds'
  BY DEF ExporterInv, ExporterType, Bounds
<1>3. Received \subseteq Received'
  <2> SUFFICES ASSUME NEW i \in Item, received[i] > 0 PROVE received'[i] > 0
    BY DEF Received
  <2>1. received[i] \in 0 .. 2 /\ received'[i] \in 0 .. 2 /\ received[i] <= received'[i]
    BY DEF ExporterInv, ExporterType
  <2> QED
    BY <2>1
<1>4. OnePlace'
  <2>1. \A i \in Item : received'[i] > 0 => i <= accepted
    BY DEF ExporterInv, OnePlace, ExporterType
  <2> QED
    BY <1>1, <2>1 DEF ExporterInv, OnePlace
<1>5. Once'
  <2> SUFFICES ASSUME NEW i \in Item, received'[i] > 0, i \notin unsure'
               PROVE  received'[i] = 1 /\ i \notin InMemory /\ i \notin ItemsOf(spool)
    BY <1>1 DEF Once, Received
  <2>1. received'[i] = received[i] /\ i \notin unsure
    OBVIOUS
  <2> QED
    BY <1>1, <2>1 DEF ExporterInv, Once, Received
<1>6. Somewhere'
  BY <1>1, <1>3 DEF ExporterInv, Somewhere
<1> QED
  BY <1>1, <1>2, <1>4, <1>5, <1>6 DEF ExporterInv

\* What was answered, or cannot be read, is removed.
LEMMA ReplayRemovesKeepsInv ==
  ASSUME ExporterInv, Replay, ReplayRemoves \/ ReplayUnread
  PROVE  ExporterInv'
<1> DEFINE file == spool[FirstOf(Replayable)]
           files == RemoveAt(spool, FirstOf(Replayable))
<1>1. /\ phase = "replay" /\ at' = "begin" /\ spool' = files
      /\ UNCHANGED <<accepted, logs, traces, phase, todo, final, stopping, late, received, unsure>>
      /\ \/ at = "remove" /\ shed' = shed
         \/ at = "begin" /\ Replayable # {} /\ shed' = shed \cup file.items
  BY DEF Replay, ReplayRemoves, ReplayUnread, books
<1>2. /\ FirstOf(Replayable) \in 1 .. Len(spool) /\ spool \in Seq(PayloadRecord) /\ Apart(spool)
      /\ Len(spool) \in Nat /\ file \in PayloadRecord
  BY <1>1, ReplayedFile DEF ExporterInv, Place, ExporterType, OnePlace
<1>3. /\ files \in Seq(PayloadRecord) /\ Len(files) <= Len(spool)
      /\ ItemsOf(spool) \subseteq ItemsOf(files) \cup file.items
      /\ ItemsOf(files) \subseteq ItemsOf(spool)
      /\ Apart(files) /\ ItemsOf(files) \cap file.items = {}
  BY <1>2, RemovedFile
<1>4. /\ Answered \subseteq file.items /\ Answered' = {} /\ file.items \subseteq Item
      /\ at = "begin" => Answered = {}
      /\ file.items \subseteq Received \cup shed'
  <2>1. CASE at = "remove"
    BY <1>1, <1>2, <2>1 DEF Answered, PayloadRecord, ExporterInv
  <2>2. CASE at = "begin"
    BY <1>1, <1>2, <2>2 DEF Answered, PayloadRecord
  <2> QED
    BY <1>1, <2>1, <2>2
<1> HIDE DEF file, files
<1>5. /\ InMemory' = InMemory /\ Received' = Received
      /\ ToSet(logs)' = ToSet(logs) /\ Ingested' = Ingested /\ ItemsOf(todo)' = ItemsOf(todo)
      /\ Apart(todo)' = Apart(todo) /\ ItemsOf(spool)' = ItemsOf(files)
  BY <1>1 DEF InMemory, Ingested, ItemsOf, Apart, Received
<1>6. ExporterType'
  BY <1>1, <1>3, <1>4 DEF ExporterInv, ExporterType
<1>7. Place' /\ LastFlush'
  BY <1>1 DEF ExporterInv, Place, LastFlush, Ingested, PostPhases
<1>8. Bounds'
  <2>1. MaxSpoolFiles \in Nat /\ Len(files) \in Nat /\ Len(spool) <= MaxSpoolFiles
    BY <1>3, Parameters DEF ExporterInv, Bounds
  <2> QED
    BY <1>1, <1>2, <1>3, <2>1 DEF ExporterInv, Bounds
<1>9. OnePlace'
  BY <1>1, <1>3, <1>5 DEF ExporterInv, OnePlace
<1>10. Once'
  BY <1>1, <1>3, <1>4, <1>5 DEF ExporterInv, Once
<1>11. Somewhere'
  BY <1>1, <1>3, <1>4, <1>5 DEF ExporterInv, Somewhere
<1> QED
  BY <1>4, <1>6, <1>7, <1>8, <1>9, <1>10, <1>11 DEF ExporterInv

LEMMA ReplayKeepsInv ==
  ASSUME ExporterInv, Replay
  PROVE  ExporterInv'
<1>1. /\ phase = "replay" /\ UNCHANGED <<accepted, logs, traces, final, stopping, late>>
      /\ todo = <<>>
  BY DEF Replay, ExporterInv, Place, PostPhases
<1>2. /\ received \in [Item -> 0 .. 2] /\ unsure \subseteq Item /\ shed \subseteq Item
      /\ final \in BOOLEAN /\ stopping \in BOOLEAN
      /\ \A i \in Item : received[i] <= received[i]
  <2>1. \A i \in Item : received[i] \in 0 .. 2
    BY DEF ExporterInv, ExporterType
  <2>2. \A i \in Item : received[i] <= received[i]
    BY <2>1
  <2> QED
    BY <2>2 DEF ExporterInv, ExporterType
<1> DEFINE file == spool[FirstOf(Replayable)]
<1>3. Replayable # {} => /\ file \in PayloadRecord /\ file.items \subseteq Item
                         /\ file.items \subseteq ItemsOf(spool)
  BY ReplayedFile DEF ExporterInv, PayloadRecord, ItemsOf
<1>4. ASSUME NextPhase, at # "remove", spool' = spool, shed' = shed,
             received' \in [Item -> 0 .. 2], unsure' \subseteq Item, unsure \subseteq unsure',
             \A i \in Item : /\ received[i] <= received'[i]
                             /\ received'[i] # received[i] => i \in unsure' /\ i \in 1 .. accepted
      PROVE  ExporterInv'
  <2>1. /\ phase' \in PostPhases \cup {"idle", "done"} /\ at' = "begin" /\ todo' = <<>>
        /\ LastFlush'
    BY <1>1, <1>4, PhaseEnds
  <2>2. Place'
    BY <2>1 DEF Place, PostPhases
  <2> QED
    BY <1>1, <1>2, <1>4, <2>1, <2>2, FlushMoves
<1>5. CASE ReplayNext
  <2>1. at = "begin"
    BY <1>5 DEF ReplayNext
  <2>2. CASE open \/ Replayable = {}
    BY <1>2, <1>4, <1>5, <2>1, <2>2 DEF ReplayNext, ReplayEnds, books
  <2>3. CASE ~open /\ Replayable # {}
    <3>1. UNCHANGED <<phase, todo, spool, received, unsure>>
      BY <1>5, <2>3 DEF ReplayNext
    <3>2. CASE Oversize(file)
      <4>1. at' = "remove" /\ shed' = shed \cup file.items
        BY <1>5, <2>3, <3>2 DEF ReplayNext
      <4> QED
        BY <1>1, <1>2, <1>3, <2>1, <2>3, <3>1, <4>1, ReplayStays
    <3>3. CASE ~Oversize(file)
      <4>1. at' \in {"asked", "void"} /\ shed' = shed
        BY <1>5, <2>3, <3>3 DEF ReplayNext, Ask
      <4> QED
        BY <1>1, <1>2, <2>1, <2>3, <3>1, <4>1, ReplayStays
    <3> QED
      BY <3>2, <3>3
  <2> QED
    BY <2>2, <2>3
<1>6. CASE ReplayAnswered
  <2>1. at \in {"asked", "void"} /\ Replayable # {}
    BY <1>1, <1>6 DEF ReplayAnswered, ExporterInv, Place
  <2>2. CASE Succeeds(file) /\ at' = "remove" /\ UNCHANGED <<phase, todo, spool, shed>>
    <3>1. Receives(file.items) /\ unsure' = unsure
      BY <2>2 DEF Succeeds
    <3>2. /\ received' \in [Item -> 0 .. 2]
          /\ \A i \in Item : /\ received[i] <= received'[i]
                             /\ received'[i] # received[i] => i \in file.items
                             /\ i \in file.items => received'[i] > 0
                             /\ received[i] = 0 => received'[i] <= 1
      BY <1>2, <1>3, <2>1, <3>1, ReceivesItems
    <3> QED
      BY <1>1, <1>2, <1>3, <2>1, <2>2, <3>1, <3>2, ReplayStays
  <2>3. CASE /\ Refused /\ shed' = shed \cup file.items
             /\ at' = "remove" /\ UNCHANGED <<phase, todo, spool>>
    <3>1. received' = received /\ unsure' = unsure
      BY <2>3 DEF Refused
    <3> QED
      BY <1>1, <1>2, <1>3, <2>1, <2>3, <3>1, ReplayStays
  <2>4. CASE Fails(file) /\ NextPhase /\ UNCHANGED <<spool, shed>>
    <3>1. /\ received' \in [Item -> 0 .. 2] /\ unsure' \subseteq Item /\ unsure \subseteq unsure'
          /\ \A i \in Item : /\ received[i] <= received'[i]
                             /\ received'[i] # received[i] => i \in file.items /\ i \in unsure'
      BY <1>3, <2>1, <2>4, FailedRequest DEF ExporterInv
    <3>2. file.items \subseteq 1 .. accepted
      BY <1>3, <2>1 DEF ExporterInv, OnePlace
    <3> QED
      BY <1>4, <2>1, <2>4, <3>1, <3>2
  <2> QED
    BY <1>6, <2>2, <2>3, <2>4 DEF ReplayAnswered
<1>7. CASE ReplayRemoves \/ ReplayUnread
  BY <1>7, ReplayRemovesKeepsInv
<1> QED
  BY <1>5, <1>6, <1>7 DEF Replay

-----------------------------------------------------------------------------
(* The phases of a flush. *)

\* A phase posts payloads, or there are none and the next phase begins.
LEMMA PostingPlace ==
  ASSUME ExporterInv, phase \in PostPhases, at = "begin", final' = final,
         NEW payloads \in Seq(PayloadRecord), Posting(payloads)
  PROVE  /\ todo' = payloads /\ Place'
         /\ \/ phase' = phase /\ at' = "start"
            \/ phase' = PhaseAfter[phase] /\ at' = "begin"
         /\ phase' \in PostPhases \cup {"idle", "done"}
<1>1. CASE payloads = <<>>
  <2>1. phase' = PhaseAfter[phase] /\ at' = "begin" /\ todo' = <<>>
    BY <1>1 DEF Posting, NextPhase
  <2>2. phase' \in PostPhases \cup {"idle", "done"}
    BY <2>1 DEF PhaseAfter, PostPhases
  <2> QED
    BY <1>1, <2>1, <2>2 DEF Place, PostPhases
<1>2. CASE payloads # <<>>
  <2>1. phase' = phase /\ at' = "start" /\ todo' = payloads
    BY <1>2 DEF Posting
  <2> QED
    BY <1>2, <2>1 DEF Place, PostPhases
<1> QED
  BY <1>1, <1>2

\* What a phase takes from the buffers is in its payloads or given up.
LEMMA BufferTaken ==
  ASSUME ExporterInv, phase \in PostPhases, at = "begin",
         UNCHANGED <<accepted, final, stopping, spool, received, unsure, late>>,
         logs' \in {logs, <<>>}, traces' \in {traces, <<>>},
         NEW payloads \in Seq(PayloadRecord), Posting(payloads), Apart(payloads),
         ItemsOf(payloads) \subseteq ToSet(logs) \cup Ingested,
         ItemsOf(payloads) \cap (ToSet(logs') \cup Ingested') = {},
         shed' \subseteq Item, shed \subseteq shed',
         \A i \in ToSet(logs) \cup Ingested :
           i \in ToSet(logs') \/ i \in Ingested' \/ i \in ItemsOf(payloads) \/ i \in shed',
         LastFlush'
  PROVE  ExporterInv'
<1>1. /\ todo' = payloads /\ Place' /\ at' \in {"start", "begin"}
      /\ phase' \in PostPhases \cup {"idle", "done"}
  BY PostingPlace
<1>2. /\ ToSet(logs') \subseteq ToSet(logs) /\ Ingested' \subseteq Ingested
      /\ Ingested' = {traces'[i].item : i \in 1 .. Len(traces')}
      /\ \A i, j \in 1 .. Len(traces') : traces'[i].item = traces'[j].item => i = j
  BY DEF ToSet, Ingested, ExporterInv, OnePlace
<1>3. /\ ItemsOf(todo)' = ItemsOf(payloads) /\ ItemsOf(todo) = {} /\ Apart(todo)' = Apart(payloads)
      /\ ItemsOf(spool)' = ItemsOf(spool) /\ Apart(spool)' = Apart(spool)
      /\ ToSet(logs)' = ToSet(logs') /\ Received' = Received
      /\ Answered = {} /\ Answered' = {}
  <2>1. todo = <<>>
    BY DEF ExporterInv, Place
  <2> QED
    BY <1>1, <2>1, NoPayloads DEF ItemsOf, Apart, Received, Answered, PostPhases
<1>4. /\ InMemory = ToSet(logs) \cup Ingested
      /\ InMemory' = ToSet(logs') \cup Ingested' \cup ItemsOf(payloads)
  BY <1>3 DEF InMemory
<1>5. ExporterType'
  <2>1. logs \in Seq(Item) /\ traces \in Seq(IngestRecord)
    BY DEF ExporterInv, ExporterType
  <2>2. <<>> \in Seq(Item) /\ <<>> \in Seq(IngestRecord)
    BY EmptySeq
  <2>3. logs' \in Seq(Item) /\ traces' \in Seq(IngestRecord)
    BY <2>1, <2>2
  <2> QED
    BY <1>1, <2>3 DEF ExporterInv, ExporterType
<1>6. Bounds'
  <2>1. Len(logs') <= 2 * MaxBatch /\ Len(traces') <= MaxBatch
    <3>1. MaxBatch \in Nat /\ MaxBatch > 0 /\ Len(<<>>) = 0
      BY Parameters
    <3>2. Len(logs) <= 2 * MaxBatch /\ Len(traces) <= MaxBatch
      BY DEF ExporterInv, Bounds
    <3>3. 0 <= 2 * MaxBatch
      BY <3>1
    <3> QED
      BY <3>1, <3>2, <3>3
  <2> QED
    BY <2>1 DEF ExporterInv, Bounds
<1>7. OnePlace'
  BY <1>2, <1>3, <1>4 DEF ExporterInv, OnePlace
<1>8. Once'
  BY <1>2, <1>3, <1>4 DEF ExporterInv, Once
<1>9. Somewhere'
  BY <1>3, <1>4 DEF ExporterInv, Somewhere
<1> QED
  BY <1>1, <1>3, <1>5, <1>6, <1>7, <1>8, <1>9 DEF ExporterInv

\* The metrics sample and the inventory hold no items.
LEMMA SamplePosted ==
  ASSUME ExporterInv, ExportMetrics \/ ExportInventory,
         UNCHANGED <<accepted, final, stopping, spool, received, unsure, late>>
  PROVE  ExporterInv'
<1>1. /\ phase \in {"metrics", "inventory"} /\ at = "begin" /\ logs' = logs /\ traces' = traces
      /\ shed' = shed
  BY DEF ExportMetrics, ExportInventory
<1>2. PICK payloads \in Seq(PayloadRecord) :
        Posting(payloads) /\ ItemsOf(payloads) = {} /\ Apart(payloads)
  <2>1. \A g \in {"metrics", "inventory"} :
          /\ Payload(g, {}) \in PayloadRecord /\ Payload(g, {}).items = {}
    BY DEF Payload, PayloadRecord
  <2>2. \A g \in {"metrics", "inventory"} :
          /\ <<Payload(g, {})>> \in Seq(PayloadRecord)
          /\ ItemsOf(<<Payload(g, {})>>) = {} /\ Apart(<<Payload(g, {})>>)
    BY <2>1, OnePayload
  <2>3. <<>> \in Seq(PayloadRecord)
    OBVIOUS
  <2>4. \/ \E g \in {"metrics", "inventory"} : Posting(<<Payload(g, {})>>)
        \/ Posting(<<>>)
    BY DEF ExportMetrics, ExportInventory
  <2> QED
    BY <2>2, <2>3, <2>4, NoPayloads
<1>3. \/ phase' = phase /\ at' = "start"
      \/ phase' = PhaseAfter[phase] /\ at' = "begin"
  BY <1>1, <1>2, PostingPlace DEF PostPhases
<1>4. LastFlush'
  BY <1>1, <1>3 DEF ExporterInv, ExporterType, LastFlush, Ingested, PhaseAfter
<1>5. shed \subseteq Item
  BY DEF ExporterInv, ExporterType
<1>6. ToSet(logs') = ToSet(logs) /\ Ingested' = Ingested
  BY <1>1 DEF Ingested
<1> QED
  BY <1>1, <1>2, <1>4, <1>5, <1>6, BufferTaken DEF PostPhases

\* The logs: one payload, of the first MaxBatch records.
LEMMA LogsPosted ==
  ASSUME ExporterInv, ExportLogs,
         UNCHANGED <<accepted, final, stopping, spool, received, unsure, late>>
  PROVE  ExporterInv'
<1> DEFINE k == IF Len(logs) < MaxBatch THEN Len(logs) ELSE MaxBatch
           kept == SubSeq(logs, 1, k)
           payloads == IF logs = <<>> THEN <<>> ELSE <<Payload("logs", ToSet(kept))>>
<1>1. /\ phase = "logs" /\ at = "begin" /\ logs' = <<>> /\ traces' = traces
      /\ shed' = shed \cup (ToSet(logs) \ ToSet(kept)) /\ Posting(payloads)
  BY DEF ExportLogs
<1>2. logs \in Seq(Item) /\ Len(logs) \in Nat /\ k \in 0 .. Len(logs)
  BY Parameters DEF ExporterInv, ExporterType
<1>3. ToSet(kept) \subseteq ToSet(logs) /\ ToSet(logs) \subseteq Item
  <2> HIDE DEF k
  <2>1. \A i \in 1 .. k : logs[i] \in Item
    BY <1>2
  <2>2. kept \in Seq(Item) /\ Len(kept) = k /\ \A i \in 1 .. k : kept[i] = logs[i]
    BY <1>2
  <2>3. DOMAIN kept = 1 .. k /\ DOMAIN logs = 1 .. Len(logs)
    BY <1>2, <2>2
  <2> HIDE DEF kept
  <2> QED
    BY <1>2, <2>2, <2>3 DEF ToSet
<1> HIDE DEF kept, k
<1>4. /\ payloads \in Seq(PayloadRecord) /\ Apart(payloads)
      /\ ItemsOf(payloads) = IF logs = <<>> THEN {} ELSE ToSet(kept)
  <2>1. Payload("logs", ToSet(kept)) \in PayloadRecord
        /\ Payload("logs", ToSet(kept)).items = ToSet(kept)
    BY <1>3 DEF Payload, PayloadRecord
  <2>2. <<>> \in Seq(PayloadRecord)
    OBVIOUS
  <2> QED
    BY <2>1, <2>2, NoPayloads, OnePayload
<1> HIDE DEF payloads
<1>5. \/ phase' = phase /\ at' = "start"
      \/ phase' = PhaseAfter[phase] /\ at' = "begin"
  BY <1>1, <1>4, PostingPlace DEF PostPhases
<1>6. ToSet(logs') = {} /\ ToSet(<<>>) = {} /\ Ingested' = Ingested
  BY <1>1 DEF ToSet, Ingested
<1>7. LastFlush'
  BY <1>1, <1>5, <1>6 DEF ExporterInv, LastFlush, PhaseAfter
<1>8. shed' \subseteq Item
  BY <1>1, <1>3 DEF ExporterInv, ExporterType
<1>9. ToSet(logs) \cap Ingested = {}
  BY DEF ExporterInv, OnePlace
<1>10. ItemsOf(payloads) \subseteq ToSet(logs)
  BY <1>3, <1>4
<1>11. \A i \in ToSet(logs) : i \in ItemsOf(payloads) \/ i \in shed'
  BY <1>1, <1>4, <1>6
<1> QED
  BY <1>1, <1>4, <1>6, <1>7, <1>8, <1>9, <1>10, <1>11, BufferTaken DEF PostPhases

\* What was received: a payload for each signal with anything decoded and sampled.
LEMMA ReceivedPosted ==
  ASSUME ExporterInv, ExportReceived,
         UNCHANGED <<accepted, final, stopping, spool, received, unsure, late>>
  PROVE  ExporterInv'
<1>1. phase = "received" /\ at = "begin" /\ logs' = logs /\ traces' = <<>>
  BY DEF ExportReceived
<1>2. PICK lost \in SUBSET Ingested :
        LET Payloads(s) == IF IngestedOf(s) \subseteq lost THEN <<>>
                           ELSE <<Payload(s, IngestedOf(s) \ lost)>>
        IN /\ shed' = shed \cup lost \cup IngestedOf("other")
           /\ Posting(Payloads("traces") \o Payloads("metrics") \o Payloads("logs"))
  BY DEF ExportReceived
<1> DEFINE Payloads(s) == IF IngestedOf(s) \subseteq lost THEN <<>>
                          ELSE <<Payload(s, IngestedOf(s) \ lost)>>
           payloads == Payloads("traces") \o Payloads("metrics") \o Payloads("logs")
<1>3. shed' = shed \cup lost \cup IngestedOf("other") /\ Posting(payloads)
  BY <1>2
<1>4. /\ traces \in Seq(IngestRecord)
      /\ \A i \in 1 .. Len(traces) : traces[i].item \in Item /\ traces[i].signal \in Signals
      /\ \A i, j \in 1 .. Len(traces) : traces[i].item = traces[j].item => i = j
  <2>1. traces \in Seq(IngestRecord)
    BY DEF ExporterInv, ExporterType
  <2>2. \A i \in 1 .. Len(traces) : traces[i] \in IngestRecord
    BY <2>1
  <2> QED
    BY <2>1, <2>2 DEF ExporterInv, OnePlace, IngestRecord
<1>5. /\ Ingested \subseteq Item
      /\ Ingested = IngestedOf("traces") \cup IngestedOf("metrics") \cup IngestedOf("logs")
                      \cup IngestedOf("other")
  <2>1. /\ Ingested \subseteq Item
        /\ IngestedOf("traces") \subseteq Ingested /\ IngestedOf("metrics") \subseteq Ingested
        /\ IngestedOf("logs") \subseteq Ingested /\ IngestedOf("other") \subseteq Ingested
    BY <1>4 DEF Ingested, IngestedOf
  <2>2. ASSUME NEW i \in 1 .. Len(traces)
        PROVE  \E s \in {"traces", "metrics", "logs", "other"} : traces[i].item \in IngestedOf(s)
    <3>1. traces[i].signal \in {"traces", "metrics", "logs", "other"}
      BY <1>4, Parameters
    <3>2. traces[i].item \in IngestedOf(traces[i].signal)
      BY DEF IngestedOf
    <3> QED
      BY <3>1, <3>2
  <2>3. ASSUME NEW x \in Ingested
        PROVE  x \in IngestedOf("traces") \cup IngestedOf("metrics") \cup IngestedOf("logs")
                         \cup IngestedOf("other")
    <3>1. PICK i \in 1 .. Len(traces) : x = traces[i].item
      BY DEF Ingested
    <3> QED
      BY <2>2, <3>1
  <2> QED
    BY <2>1, <2>3
<1>6. /\ IngestedOf("traces") \cap IngestedOf("metrics") = {}
      /\ (IngestedOf("traces") \cup IngestedOf("metrics")) \cap IngestedOf("logs") = {}
      /\ (IngestedOf("traces") \cup IngestedOf("metrics") \cup IngestedOf("logs"))
           \cap IngestedOf("other") = {}
  BY <1>4 DEF IngestedOf
<1>7. \A s \in {"traces", "metrics", "logs"} :
        /\ Payloads(s) \in Seq(PayloadRecord) /\ Apart(Payloads(s))
        /\ ItemsOf(Payloads(s)) = IngestedOf(s) \ lost
  <2> SUFFICES ASSUME NEW s \in {"traces", "metrics", "logs"}
               PROVE  /\ Payloads(s) \in Seq(PayloadRecord) /\ Apart(Payloads(s))
                      /\ ItemsOf(Payloads(s)) = IngestedOf(s) \ lost
    OBVIOUS
  <2>1. IngestedOf(s) \subseteq Item
    BY <1>5
  <2>2. /\ Payload(s, IngestedOf(s) \ lost) \in PayloadRecord
        /\ Payload(s, IngestedOf(s) \ lost).items = IngestedOf(s) \ lost
    BY <2>1 DEF Payload, PayloadRecord
  <2>3. <<>> \in Seq(PayloadRecord)
    OBVIOUS
  <2>4. CASE IngestedOf(s) \subseteq lost
    BY <2>3, <2>4, NoPayloads
  <2>5. CASE ~(IngestedOf(s) \subseteq lost)
    BY <2>2, <2>5, OnePayload
  <2> QED
    BY <2>4, <2>5
<1> HIDE DEF Payloads
<1>8. LET first == Payloads("traces") \o Payloads("metrics") IN
      /\ first \in Seq(PayloadRecord) /\ Apart(first)
      /\ ItemsOf(first) = (IngestedOf("traces") \cup IngestedOf("metrics")) \ lost
  <2>1. ItemsOf(Payloads("traces")) \cap ItemsOf(Payloads("metrics")) = {}
    BY <1>6, <1>7
  <2> QED
    BY <1>7, <2>1, JoinedPayloads
<1>9. /\ payloads \in Seq(PayloadRecord) /\ Apart(payloads)
      /\ ItemsOf(payloads) =
           (IngestedOf("traces") \cup IngestedOf("metrics") \cup IngestedOf("logs")) \ lost
  <2> DEFINE first == Payloads("traces") \o Payloads("metrics")
  <2>1. /\ first \in Seq(PayloadRecord) /\ Apart(first)
        /\ ItemsOf(first) = (IngestedOf("traces") \cup IngestedOf("metrics")) \ lost
    BY <1>8
  <2>2. payloads = first \o Payloads("logs")
    OBVIOUS
  <2> HIDE DEF first, payloads
  <2>3. ItemsOf(first) \cap ItemsOf(Payloads("logs")) = {}
    BY <1>6, <1>7, <2>1
  <2>4. /\ first \o Payloads("logs") \in Seq(PayloadRecord) /\ Apart(first \o Payloads("logs"))
        /\ ItemsOf(first \o Payloads("logs")) = ItemsOf(first) \cup ItemsOf(Payloads("logs"))
    BY <1>7, <2>1, <2>3, JoinedPayloads
  <2> QED
    BY <1>7, <2>1, <2>2, <2>4
<1> HIDE DEF payloads
<1>10. \/ phase' = phase /\ at' = "start"
       \/ phase' = PhaseAfter[phase] /\ at' = "begin"
  BY <1>1, <1>3, <1>9, PostingPlace DEF PostPhases
<1>11. Ingested' = {} /\ ToSet(logs') = ToSet(logs)
  BY <1>1 DEF Ingested
<1>12. LastFlush'
  BY <1>1, <1>10, <1>11 DEF ExporterInv, LastFlush, PhaseAfter
<1>13. shed' \subseteq Item /\ shed \subseteq shed'
  BY <1>3, <1>5 DEF ExporterInv, ExporterType
<1>14. ToSet(logs) \cap Ingested = {}
  BY DEF ExporterInv, OnePlace
<1>15. ItemsOf(payloads) \subseteq Ingested
  BY <1>5, <1>9
<1>16. \A i \in Ingested : i \in ItemsOf(payloads) \/ i \in shed'
  BY <1>3, <1>5, <1>9
<1> QED
  BY <1>1, <1>3, <1>9, <1>11, <1>12, <1>13, <1>14, <1>15, <1>16, BufferTaken DEF PostPhases

-----------------------------------------------------------------------------
(* The producers, the end of the process, and what happens around it. *)

\* A new item is nowhere yet, and is buffered or given up.
LEMMA ItemAccepted ==
  ASSUME ExporterInv, Accepts,
         UNCHANGED <<phase, todo, at, final, stopping, spool, received, unsure>>,
         logs' \in Seq(Item), traces' \in Seq(IngestRecord),
         ToSet(logs) \subseteq ToSet(logs'), ToSet(logs') \subseteq ToSet(logs) \cup {accepted + 1},
         Ingested \subseteq Ingested', Ingested' \subseteq Ingested \cup {accepted + 1},
         ToSet(logs') \cap Ingested' = {},
         \A i, j \in 1 .. Len(traces') : traces'[i].item = traces'[j].item => i = j,
         shed \subseteq shed', shed' \subseteq shed \cup {accepted + 1},
         accepted + 1 \in ToSet(logs') \cup Ingested' \cup shed',
         Len(logs') <= 2 * MaxBatch, Len(traces') <= MaxBatch
  PROVE  ExporterInv'
<1> DEFINE n == accepted + 1
<1>1. /\ accepted \in Nat /\ n \in Item /\ n \notin 1 .. accepted /\ accepted' = n
      /\ 1 .. n = (1 .. accepted) \cup {n} /\ accepted' \in Nat /\ accepted' <= MaxItems
      /\ late' = IF stopping THEN late \cup {n} ELSE late
  <2>1. accepted \in Nat /\ accepted < MaxItems /\ MaxItems \in Nat
    BY Parameters DEF Accepts, ExporterInv, ExporterType
  <2>2. accepted' = n /\ late' = IF stopping THEN late \cup {n} ELSE late
    BY DEF Accepts
  <2>3. n \in Nat /\ n \in 1 .. MaxItems /\ n \notin 1 .. accepted
    BY <2>1
  <2>4. 1 .. n = (1 .. accepted) \cup {n}
    BY <2>1
  <2> QED
    BY <2>1, <2>2, <2>3, <2>4 DEF Item
<1> HIDE DEF n
<1>2. /\ InMemory \cup ItemsOf(spool) \subseteq 1 .. accepted
      /\ \A i \in Item : received[i] > 0 => i <= accepted
      /\ ToSet(logs) \cup Ingested \subseteq InMemory /\ ItemsOf(todo) \subseteq InMemory
  BY DEF ExporterInv, OnePlace, InMemory
<1>3. n \notin InMemory \cup ItemsOf(spool) /\ n \notin Received
  <2>1. n \notin InMemory \cup ItemsOf(spool)
    BY <1>1, <1>2
  <2>2. ~(n <= accepted)
    BY <1>1 DEF n
  <2> QED
    BY <1>2, <2>1, <2>2 DEF Received
<1>4. /\ ItemsOf(todo)' = ItemsOf(todo) /\ Apart(todo)' = Apart(todo)
      /\ ItemsOf(spool)' = ItemsOf(spool) /\ Apart(spool)' = Apart(spool)
      /\ Received' = Received /\ Answered' = Answered /\ ToSet(logs)' = ToSet(logs')
  BY DEF ItemsOf, Apart, Received, Answered, Replayable, FilesOf, FirstOf
<1>5. /\ InMemory \subseteq InMemory' /\ InMemory' \subseteq InMemory \cup {n}
      /\ InMemory' = ToSet(logs') \cup Ingested' \cup ItemsOf(todo)
  BY <1>4 DEF InMemory, n
<1>6. ExporterType'
  <2>1. shed' \subseteq Item /\ late' \subseteq Item
    BY <1>1 DEF ExporterInv, ExporterType, n
  <2> QED
    BY <1>1, <2>1 DEF ExporterInv, ExporterType
<1>7. Place'
  BY DEF ExporterInv, Place, Replayable, FilesOf
<1>8. OnePlace'
  <2>1. /\ (ToSet(logs') \cup Ingested') \cap ItemsOf(todo) = {}
        /\ InMemory' \cap ItemsOf(spool) = {}
    BY <1>2, <1>3, <1>4, <1>5 DEF ExporterInv, OnePlace, InMemory, n
  <2>2. InMemory' \cup ItemsOf(spool) \subseteq 1 .. accepted'
    BY <1>1, <1>2, <1>5
  <2>3. \A i \in Item : received[i] > 0 => i <= accepted'
    <3> SUFFICES ASSUME NEW i \in Item, received[i] > 0 PROVE i <= accepted'
      OBVIOUS
    <3>1. i <= accepted /\ i \in Nat
      BY <1>2 DEF Item
    <3> QED
      BY <1>1, <3>1 DEF n
  <2> QED
    BY <1>4, <2>1, <2>2, <2>3 DEF ExporterInv, OnePlace
<1>9. Once'
  BY <1>3, <1>4, <1>5 DEF ExporterInv, Once
<1>10. Somewhere'
  <2>1. 1 .. accepted \subseteq InMemory' \cup ItemsOf(spool) \cup Received \cup shed'
    BY <1>5 DEF ExporterInv, Somewhere
  <2>2. n \in InMemory' \cup shed'
    BY <1>5 DEF n
  <2> QED
    BY <1>1, <1>4, <2>1, <2>2 DEF Somewhere
<1>11. LastFlush'
  <2>1. final => n \in late' /\ late \subseteq late'
    BY <1>1 DEF ExporterInv, LastFlush
  <2> QED
    BY <1>4, <2>1 DEF ExporterInv, LastFlush, n
<1>12. Bounds' /\ Answered' \subseteq Received' \cup shed'
  BY <1>4 DEF ExporterInv, Bounds
<1> QED
  BY <1>6, <1>7, <1>8, <1>9, <1>10, <1>11, <1>12 DEF ExporterInv

LEMMA ProducersKeepInv ==
  ASSUME ExporterInv, EmitLog \/ IngestTraces
  PROVE  ExporterInv'
<1> DEFINE n == accepted + 1
<1>1. /\ accepted \in Nat
      /\ accepted < MaxItems => n \in Item
      /\ logs \in Seq(Item) /\ traces \in Seq(IngestRecord) /\ Len(logs) \in Nat
      /\ Len(traces) \in Nat /\ MaxBatch \in Nat
      /\ Len(logs) <= 2 * MaxBatch /\ Len(traces) <= MaxBatch
  BY Parameters DEF ExporterInv, ExporterType, Item, Bounds
<1>2. /\ \A i, j \in 1 .. Len(traces) : traces[i].item = traces[j].item => i = j
      /\ ToSet(logs) \cap Ingested = {} /\ n \notin ToSet(logs) /\ n \notin Ingested
  <2>1. ToSet(logs) \cup Ingested \subseteq 1 .. accepted
    BY DEF ExporterInv, OnePlace, InMemory
  <2>2. n \notin 1 .. accepted
    BY <1>1
  <2>3. n \notin ToSet(logs) /\ n \notin Ingested
    <3> HIDE DEF n
    <3> QED
      BY <2>1, <2>2
  <2> QED
    BY <2>3 DEF ExporterInv, OnePlace
<1>3. CASE EmitLog
  <2>1. /\ Accepts /\ accepted < MaxItems /\ traces' = traces /\ Ingested' = Ingested
        /\ UNCHANGED <<phase, todo, at, final, stopping, spool, received, unsure>>
    BY <1>3 DEF EmitLog, Accepts, Ingested
  <2>2. CASE Len(logs) >= 2 * MaxBatch
    <3>1. logs' = logs /\ shed' = shed \cup {n}
      BY <1>3, <2>2 DEF EmitLog
    <3> QED
      BY <1>1, <1>2, <2>1, <3>1, ItemAccepted
  <2>3. CASE ~(Len(logs) >= 2 * MaxBatch)
    <3>1. logs' = Append(logs, n) /\ shed' = shed
      BY <1>3, <2>3 DEF EmitLog
    <3> HIDE DEF n
    <3>2. /\ logs' \in Seq(Item) /\ Len(logs') = Len(logs) + 1
          /\ \A i \in 1 .. Len(logs) : logs'[i] = logs[i]
          /\ logs'[Len(logs) + 1] = n
      BY <1>1, <2>1, <3>1, AppendProperties
    <3>3. ToSet(logs') = ToSet(logs) \cup {n}
      <4>1. DOMAIN logs' = 1 .. Len(logs) + 1 /\ DOMAIN logs = 1 .. Len(logs)
        BY <1>1, <3>2
      <4>2. \A i \in 1 .. Len(logs) + 1 : i \in 1 .. Len(logs) \/ i = Len(logs) + 1
        BY <1>1
      <4>3. 1 .. Len(logs) \subseteq 1 .. Len(logs) + 1 /\ Len(logs) + 1 \in 1 .. Len(logs) + 1
        BY <1>1
      <4> QED
        BY <3>2, <4>1, <4>2, <4>3 DEF ToSet
    <3>4. Len(logs') <= 2 * MaxBatch
      BY <1>1, <2>3, <3>2
    <3> QED
      BY <1>1, <1>2, <2>1, <3>1, <3>2, <3>3, <3>4, ItemAccepted DEF n
  <2> QED
    BY <2>2, <2>3
<1>4. CASE IngestTraces
  <2>1. /\ Accepts /\ accepted < MaxItems /\ logs' = logs
        /\ UNCHANGED <<phase, todo, at, final, stopping, spool, received, unsure>>
    BY <1>4 DEF IngestTraces, Accepts
  <2>2. CASE Len(traces) >= MaxBatch
    <3>1. traces' = traces /\ shed' = shed \cup {n} /\ Ingested' = Ingested
      BY <1>4, <2>2 DEF IngestTraces, Ingested
    <3> QED
      BY <1>1, <1>2, <2>1, <3>1, ItemAccepted
  <2>3. CASE ~(Len(traces) >= MaxBatch)
    <3>1. PICK s \in Signals : traces' = Append(traces, [item |-> n, signal |-> s])
      BY <1>4, <2>3 DEF IngestTraces
    <3>2. shed' = shed
      BY <1>4, <2>3 DEF IngestTraces
    <3> HIDE DEF n
    <3> DEFINE e == [item |-> n, signal |-> s]
    <3>3. e \in IngestRecord /\ e.item = n
      BY <1>1, <2>1 DEF IngestRecord
    <3> HIDE DEF e
    <3>4. /\ traces' \in Seq(IngestRecord) /\ Len(traces') = Len(traces) + 1
          /\ \A i \in 1 .. Len(traces) : traces'[i] = traces[i]
          /\ traces'[Len(traces) + 1] = e
      BY <1>1, <3>1, <3>3, AppendProperties DEF e
    <3>5. /\ \A i \in 1 .. Len(traces') : i \in 1 .. Len(traces) \/ i = Len(traces) + 1
          /\ \A i \in 1 .. Len(traces) : i \in 1 .. Len(traces')
          /\ Len(traces) + 1 \in 1 .. Len(traces')
      BY <1>1, <3>4
    <3>6. Ingested' = Ingested \cup {n}
      BY <3>3, <3>4, <3>5 DEF Ingested
    <3>7. \A i, j \in 1 .. Len(traces') : traces'[i].item = traces'[j].item => i = j
      <4>1. \A i \in 1 .. Len(traces) : traces'[i].item # n /\ traces'[i].item = traces[i].item
        BY <1>2, <3>4 DEF Ingested
      <4>2. traces'[Len(traces) + 1].item = n
        BY <3>3, <3>4
      <4> QED
        BY <1>2, <3>5, <4>1, <4>2
    <3>8. Len(traces') <= MaxBatch
      BY <1>1, <2>3, <3>4
    <3> QED
      BY <1>1, <1>2, <2>1, <3>2, <3>4, <3>6, <3>7, <3>8, ItemAccepted DEF n
  <2> QED
    BY <2>2, <2>3
<1> QED
  BY <1>3, <1>4

\* A step around the exporter, which moves nothing.
LEMMA NothingMoves ==
  ASSUME ExporterInv, stopping' \in BOOLEAN, stopping => stopping',
         UNCHANGED <<accepted, logs, traces, phase, todo, at, final, spool, received, unsure, shed,
                     late>>
  PROVE  ExporterInv'
<1>1. /\ InMemory' = InMemory /\ ItemsOf(spool)' = ItemsOf(spool) /\ Received' = Received
      /\ ToSet(logs)' = ToSet(logs) /\ Ingested' = Ingested /\ ItemsOf(todo)' = ItemsOf(todo)
      /\ Apart(todo)' = Apart(todo) /\ Apart(spool)' = Apart(spool) /\ Replayable' = Replayable
      /\ Answered' = Answered
  BY DEF InMemory, Ingested, ItemsOf, Answered, Apart, Replayable, FilesOf, FirstOf, Received
<1>2. ExporterType' /\ Bounds'
  BY DEF ExporterInv, ExporterType, Bounds
<1>3. Place' /\ OnePlace' /\ Once' /\ Somewhere' /\ LastFlush'
  BY <1>1 DEF ExporterInv, Place, OnePlace, Once, Somewhere, LastFlush
<1> QED
  BY <1>1, <1>2, <1>3 DEF ExporterInv

\* The process ends: what was in memory is gone, what was being replayed is unsure.
LEMMA RestartKeepsInv ==
  ASSUME ExporterInv, Restart
  PROVE  ExporterInv'
<1>1. /\ shed' = shed \cup InMemory /\ unsure' = unsure \cup Replaying
      /\ logs' = <<>> /\ traces' = <<>> /\ phase' = "idle" /\ todo' = <<>> /\ at' = "begin"
      /\ final' = FALSE /\ stopping' = FALSE /\ late' = {} /\ accepted' = accepted
      /\ spool' = spool
  BY DEF Restart
<1>2. /\ received \in [Item -> 0 .. 2] /\ accepted \in Nat /\ spool \in Seq(PayloadRecord)
      /\ unsure \subseteq Item /\ shed \subseteq Item
  BY DEF ExporterInv, ExporterType
<1>3. Replaying \subseteq ItemsOf(spool) /\ Replaying \subseteq Item /\ Answered \subseteq Replaying
  <2>1. CASE phase = "replay" /\ at \in {"asked", "remove"}
    <3>1. FirstOf(Replayable) \in 1 .. Len(spool) /\ spool[FirstOf(Replayable)] \in PayloadRecord
      BY <2>1, ReplayedFile DEF ExporterInv, Place
    <3> QED
      BY <2>1, <3>1 DEF Replaying, Answered, ItemsOf, PayloadRecord
  <2> QED
    BY <2>1 DEF Replaying, Answered
<1>4. InMemory \subseteq Item /\ InMemory \cup ItemsOf(spool) \subseteq 1 .. accepted
  <2>1. 1 .. accepted \subseteq Item
    BY Parameters DEF ExporterInv, ExporterType, Item
  <2> QED
    BY <2>1 DEF ExporterInv, OnePlace
<1> DEFINE sent == IF phase = "replay" THEN Replaying ELSE Current.items
<1>5. at = "asked" =>
        /\ sent \subseteq Item /\ sent \subseteq InMemory \cup ItemsOf(spool)
        /\ phase # "replay" =>
             /\ sent \cap ItemsOf(spool) = {}
             /\ \A i \in sent : received[i] > 0 => i \in unsure
  <2>1. at = "asked" /\ phase # "replay" => todo # <<>>
    BY DEF ExporterInv, ExporterType, Place
  <2>2. todo # <<>> => /\ Current.items \subseteq ItemsOf(todo) /\ Current.items \subseteq Item
                       /\ Current.items \cap ItemsOf(spool) = {}
                       /\ \A i \in Current.items : received[i] > 0 => i \in unsure
    BY WhilePosting
  <2> QED
    BY <1>3, <2>1, <2>2 DEF InMemory
<1>6. /\ received' \in [Item -> 0 .. 2]
      /\ \A i \in Item : received'[i] = received[i]
           \/ /\ at = "asked" /\ i \in sent
              /\ received[i] = 0 => received'[i] <= 1
      /\ \A i \in Item : received[i] <= received'[i]
  <2>1. CASE UNCHANGED received
    <3>1. \A i \in Item : received[i] \in 0 .. 2
      BY <1>2
    <3>2. \A i \in Item : received[i] <= received[i]
      BY <3>1
    <3> QED
      BY <1>2, <2>1, <3>2
  <2>2. CASE at = "asked" /\ Receives(sent)
    BY <1>2, <1>5, <2>2, ReceivesItems
  <2> QED
    BY <2>1, <2>2 DEF Restart
<1> HIDE DEF sent
<1>7. /\ InMemory' = {} /\ ItemsOf(spool)' = ItemsOf(spool) /\ Answered' = {}
      /\ ToSet(logs)' = {} /\ Ingested' = {} /\ ItemsOf(todo)' = {} /\ Apart(todo)'
      /\ Apart(spool)' = Apart(spool)
  <2>1. ToSet(<<>>) = {} /\ ItemsOf(<<>>) = {}
    BY DEF ToSet, ItemsOf
  <2>2. Ingested' = {}
    BY <1>1 DEF Ingested
  <2> QED
    BY <1>1, <2>1, <2>2 DEF InMemory, Answered, ItemsOf, Apart
<1>8. ExporterType'
  <2>1. <<>> \in Seq(Item) /\ <<>> \in Seq(IngestRecord) /\ <<>> \in Seq(PayloadRecord)
    BY EmptySeq
  <2> QED
    BY <1>1, <1>2, <1>3, <1>4, <1>6, <2>1 DEF ExporterInv, ExporterType
<1>9. Place' /\ LastFlush'
  BY <1>1 DEF Place, LastFlush, PostPhases
<1>10. Bounds'
  <2>1. Len(<<>>) = 0 /\ 0 <= 2 * MaxBatch /\ 0 <= MaxBatch
    BY Parameters
  <2> QED
    BY <1>1, <2>1 DEF ExporterInv, Bounds
<1>11. OnePlace'
  <2>1. \A i \in Item : received'[i] > 0 => i <= accepted
    <3> SUFFICES ASSUME NEW i \in Item, received'[i] > 0 PROVE i <= accepted
      OBVIOUS
    <3>1. received'[i] = received[i] \/ i \in 1 .. accepted
      BY <1>4, <1>5, <1>6
    <3> QED
      BY <3>1 DEF ExporterInv, OnePlace
  <2>2. \A i, j \in 1 .. Len(traces') : traces'[i].item = traces'[j].item => i = j
    BY <1>1
  <2> QED
    BY <1>1, <1>4, <1>7, <2>1, <2>2 DEF ExporterInv, OnePlace
<1>12. Once'
  <2> SUFFICES ASSUME NEW i \in Item, received'[i] > 0, i \notin unsure'
               PROVE  received'[i] = 1 /\ i \notin ItemsOf(spool)
    BY <1>7 DEF Once, Received
  <2>1. i \notin unsure /\ i \notin Replaying
    BY <1>1
  <2>2. CASE received'[i] = received[i]
    <3>1. i \in Received \ unsure
      BY <2>1, <2>2 DEF Received
    <3> QED
      BY <1>3, <2>1, <2>2, <3>1 DEF ExporterInv, Once
  <2>3. CASE received'[i] # received[i]
    <3>1. at = "asked" /\ i \in sent /\ phase # "replay"
      BY <1>6, <2>1, <2>3 DEF sent
    <3>2. received[i] = 0 /\ i \notin ItemsOf(spool)
      <4>1. received[i] \in 0 .. 2
        BY <1>2
      <4> QED
        BY <1>5, <2>1, <3>1, <4>1
    <3>3. received'[i] \in 0 .. 2
      BY <1>6
    <3> QED
      BY <1>6, <2>3, <3>2, <3>3
  <2> QED
    BY <2>2, <2>3
<1>13. Somewhere'
  <2>1. Received \subseteq Received'
    <3> SUFFICES ASSUME NEW i \in Item, received[i] > 0 PROVE received'[i] > 0
      BY DEF Received
    <3>1. received[i] \in 0 .. 2 /\ received'[i] \in 0 .. 2 /\ received[i] <= received'[i]
      BY <1>2, <1>6
    <3> QED
      BY <3>1
  <2> QED
    BY <1>1, <1>7, <2>1 DEF ExporterInv, Somewhere
<1> QED
  BY <1>7, <1>8, <1>9, <1>10, <1>11, <1>12, <1>13 DEF ExporterInv

-----------------------------------------------------------------------------
(* The theorems. *)

LEMMA ExporterInit == Init => ExporterInv
<1> SUFFICES ASSUME Init PROVE ExporterInv
  OBVIOUS
<1>1. /\ accepted = 0 /\ logs = <<>> /\ traces = <<>> /\ phase = "idle" /\ todo = <<>>
      /\ at = "begin" /\ final = FALSE /\ stopping = FALSE /\ spool = <<>>
      /\ received = [i \in Item |-> 0] /\ unsure = {} /\ shed = {} /\ late = {}
  BY DEF Init
<1>2. /\ <<>> \in Seq(Item) /\ <<>> \in Seq(IngestRecord) /\ <<>> \in Seq(PayloadRecord)
      /\ ToSet(<<>>) = {} /\ Len(<<>>) = 0
  BY EmptySeq DEF ToSet
<1>3. Ingested = {} /\ InMemory = {} /\ Received = {} /\ Answered = {} /\ 1 .. accepted = {}
  BY <1>1, <1>2, NoPayloads DEF Ingested, InMemory, Received, Answered
<1>4. ExporterType
  <2>1. received \in [Item -> 0 .. 2]
    BY <1>1
  <2>2. /\ logs \in Seq(Item) /\ traces \in Seq(IngestRecord)
        /\ todo \in Seq(PayloadRecord) /\ spool \in Seq(PayloadRecord)
    BY <1>1, <1>2
  <2>3. accepted \in Nat /\ accepted <= MaxItems
    BY <1>1, Parameters
  <2>4. /\ phase \in PostPhases \cup {"idle", "replay", "done"}
        /\ at \in {"begin", "start", "asked", "void", "backoff", "remove"}
        /\ final \in BOOLEAN /\ stopping \in BOOLEAN
        /\ unsure \subseteq Item /\ shed \subseteq Item /\ late \subseteq Item
    BY <1>1
  <2> QED
    BY <2>1, <2>2, <2>3, <2>4 DEF ExporterType
<1>5. Place /\ LastFlush /\ Once /\ Somewhere
  BY <1>1, <1>3 DEF Place, LastFlush, Once, Somewhere, PostPhases
<1>6. OnePlace
  BY <1>1, <1>2, <1>3, NoPayloads DEF OnePlace
<1>7. Bounds
  BY <1>1, <1>2, Parameters DEF Bounds
<1> QED
  BY <1>3, <1>4, <1>5, <1>6, <1>7 DEF ExporterInv

LEMMA ExporterNext == ExporterInv /\ [Next]_vars => ExporterInv'
<1> SUFFICES ASSUME ExporterInv, [Next]_vars PROVE ExporterInv'
  OBVIOUS
<1>1. stopping \in BOOLEAN /\ final \in BOOLEAN
  BY DEF ExporterInv, ExporterType
<1>2. CASE EmitLog \/ IngestTraces
  BY <1>2, ProducersKeepInv
<1>3. CASE Tick \/ FinalFlush
  <2>1. /\ phase = "idle" /\ phase' = "replay" /\ at = "begin" /\ at' = "begin" /\ todo = <<>>
        /\ final' \in BOOLEAN /\ (final' => stopping)
        /\ UNCHANGED <<accepted, logs, traces, todo, stopping, spool, received, unsure, shed, late>>
    BY <1>3 DEF Tick, FinalFlush, Flushes, books, ExporterInv, Place, PostPhases
  <2>2. Place' /\ LastFlush'
    BY <2>1 DEF Place, LastFlush, PostPhases
  <2>3. /\ received \in [Item -> 0 .. 2] /\ unsure \subseteq Item
        /\ \A i \in Item : received[i] <= received[i]
    <3>1. \A i \in Item : received[i] \in 0 .. 2
      BY DEF ExporterInv, ExporterType
    <3>2. \A i \in Item : received[i] <= received[i]
      BY <3>1
    <3> QED
      BY <3>2 DEF ExporterInv, ExporterType
  <2> QED
    BY <1>1, <2>1, <2>2, <2>3, FlushMoves
<1>4. CASE Export
  <2>1. UNCHANGED <<accepted, final, stopping, spool, received, unsure, late>>
    BY <1>4 DEF Export
  <2> QED
    BY <1>4, <2>1, SamplePosted, LogsPosted, ReceivedPosted DEF Export
<1>5. CASE Post
  BY <1>5, PostKeepsInv
<1>6. CASE Replay
  BY <1>6, ReplayKeepsInv
<1>7. CASE CircuitExpires \/ Shutdown \/ IntakeRecovers \/ UNCHANGED vars
  BY <1>1, <1>7, NothingMoves
     DEF CircuitExpires, Shutdown, IntakeRecovers, vars, exporter, books
<1>8. CASE Restart
  BY <1>8, RestartKeepsInv
<1> QED
  BY <1>2, <1>3, <1>4, <1>5, <1>6, <1>7, <1>8 DEF Next, Loop

LEMMA ExporterInvariant == Spec => []ExporterInv
  BY ExporterInit, ExporterNext, PTL DEF Spec

\* Accounted: for any number of items, restarts and failures, what was accepted is in memory, in
\* the spool, with the intake or given up by a bound, the decoder, the intake, a crash or with a
\* file of the spool that could not be read.
THEOREM NothingIsLost == Spec => []Accounted
<1>1. ExporterInv => Accounted
  <2> SUFFICES ASSUME ExporterInv PROVE Accounted
    OBVIOUS
  <2> DEFINE kept == ItemsOf(spool) \cup {i \in Item : received[i] > 0} \cup shed
  <2>1. 1 .. accepted \subseteq InMemory \cup kept
    BY DEF ExporterInv, Somewhere, Received
  <2>2. phase = "done" => InMemory \subseteq late
    BY NoPayloads DEF ExporterInv, LastFlush, Place, InMemory, PostPhases
  <2> QED
    BY <2>1, <2>2 DEF Accounted, ExporterInv, Bounds
<1> QED
  BY <1>1, ExporterInvariant, PTL

\* DuplicatesExplained: the intake gets an item twice only if the success of an earlier request
\* was lost.
THEOREM TwiceOnlyIfUnsure == Spec => []DuplicatesExplained
<1>1. ExporterInv => DuplicatesExplained
  <2> SUFFICES ASSUME ExporterInv, NEW i \in Item, received[i] > 1, i \notin unsure PROVE FALSE
    BY DEF DuplicatesExplained
  <2>1. received[i] \in 0 .. 2
    BY DEF ExporterInv, ExporterType
  <2> QED
    BY <2>1 DEF ExporterInv, Once, Received
<1> QED
  BY <1>1, ExporterInvariant, PTL

-----------------------------------------------------------------------------
(* The retained inventory. *)

Events ==
  {e \in [item : Node \cup Relation \cup {0}, name : {"discovered", "changed", "removed", "snapshot"},
          ver : Nat] : e.item = 0 <=> e.name = "snapshot"}
Retained == {e \in Events : e.name \in {"discovered", "changed"}}

Items(t) == {t[i].item : i \in 1 .. Len(t)}
Standing(t) == {t[i] : i \in 1 .. Len(t)}

EachOnce(t) == \A i, j \in 1 .. Len(t) : t[i].item = t[j].item => i = j
Counted(t, n) ==
  /\ n.nodes = Cardinality(Items(t) \cap Node) /\ n.nodes <= MaxInventoryEntities
  /\ n.edges = Cardinality(Items(t) \cap Relation) /\ n.edges <= MaxInventoryRelations

Folds ==
  {st \in [table : Seq(Retained), size : [nodes : Nat, edges : Nat], changed : BOOLEAN] :
     EachOnce(st.table) /\ Counted(st.table, st.size)}

\* What one event makes of the table: the others stay, its own item is as it says.
After(T, ev) ==
  {e \in T : e.item # ev.item} \cup IF ev.name = "removed" THEN {} ELSE {ev}

LEMMA ItemsAreFinite ==
  ASSUME NEW t \in Seq(Retained), NEW S
  PROVE  IsFiniteSet(Items(t) \cap S) /\ Cardinality(Items(t) \cap S) \in Nat
<1>1. IsFiniteSet(1 .. Len(t))
  <2>1. 1 \in Int /\ Len(t) \in Int
    OBVIOUS
  <2> QED
    BY <2>1, FS_Interval
<1>2. IsFiniteSet(Items(t))
  <2> DEFINE D == 1 .. Len(t)
             f == [i \in D |-> t[i].item]
  <2>1. Items(t) = {f[i] : i \in D}
    BY DEF Items
  <2>2. IsFiniteSet(D)
    BY <1>1
  <2> HIDE DEF D, f
  <2> QED
    BY <2>1, <2>2, ImageIsFinite
<1> QED
  BY <1>2, FS_Subset, FS_CardinalityType

\* The rows of a set of items are as many as its items.
LEMMA RowsAreItems ==
  ASSUME NEW t \in Seq(Retained), EachOnce(t), NEW S
  PROVE  Cardinality({i \in 1 .. Len(t) : t[i].item \in S}) = Cardinality(Items(t) \cap S)
<1> DEFINE R == {i \in 1 .. Len(t) : t[i].item \in S}
           I == Items(t) \cap S
           f == [i \in R |-> t[i].item]
<1>1. IsFiniteSet(R)
  <2>1. 1 \in Int /\ Len(t) \in Int
    OBVIOUS
  <2>2. IsFiniteSet(1 .. Len(t)) /\ R \subseteq 1 .. Len(t)
    BY <2>1, FS_Interval
  <2> HIDE DEF R
  <2> QED
    BY <2>2, FS_Subset
<1>2. f \in [R -> I] /\ (\A p, q \in R : f[p] = f[q] => p = q) /\ \A x \in I : \E p \in R : f[p] = x
  BY DEF Items, EachOnce
<1> HIDE DEF R, I, f
<1>3. f \in Surjection(R, I) /\ f \in Injection(R, I)
  BY <1>2 DEF Surjection, Injection, IsInjective
<1>4. Cardinality(I) = Cardinality(R)
  BY <1>1, <1>3, FS_Surjection
<1> QED
  BY <1>4 DEF R, I

\* An entity's two keys are no relationship's.
LEMMA NodesAre ==
  /\ 0 \notin Node \cup Relation /\ Node \cap Relation = {}
  /\ \A e \in Entity : e \in Node /\ Fallback(e) \in Node /\ Fallback(e) # 0
<1>1. /\ \A e \in Entity : e \in Nat \ {0}
      /\ \A r \in Relation : r \in Nat \ {0}
      /\ Entity \cap Relation = {}
  BY InventoryAssumption
<1>2. \A e \in Entity : -e \in Int /\ -e < 0
  BY <1>1
<1>3. \A x \in Node : x \in Entity \/ (x \in Int /\ x < 0)
  BY <1>2 DEF Node, Fallback
<1>4. \A x \in Node : x # 0 /\ x \notin Relation
  BY <1>1, <1>3
<1>5. 0 \notin Relation
  BY <1>1
<1>6. \A e \in Entity : e \in Node /\ Fallback(e) \in Node /\ Fallback(e) # 0
  BY <1>2 DEF Node, Fallback
<1> QED
  BY <1>4, <1>5, <1>6

LEMMA EventFacts ==
  /\ \A e \in Events : /\ e.item \in Node \cup Relation \cup {0}
                       /\ e.name \in {"discovered", "changed", "removed", "snapshot"}
                       /\ e.item = 0 <=> e.name = "snapshot"
  /\ \A e \in Retained : e \in Events /\ e.item \in Node \cup Relation
  /\ \A e \in Events : e.name \in {"discovered", "changed"} => e \in Retained
  /\ 0 \notin Node \cup Relation /\ Node \cap Relation = {}
BY NodesAre DEF Events, Retained

\* The item of an event is in at most one place, where PositionOf finds it.
LEMMA PositionIs ==
  ASSUME NEW t \in Seq(Retained), NEW x, Holds(t, x)
  PROVE  PositionOf(t, x) \in 1 .. Len(t) /\ t[PositionOf(t, x)].item = x
BY DEF Holds, PositionOf

LEMMA UpdatedIs ==
  ASSUME NEW st \in Folds, NEW ev \in Retained, Holds(st.table, ev.item)
  PROVE  /\ Updated(st, ev) \in Folds
         /\ Standing(Updated(st, ev).table) = After(Standing(st.table), ev)
<1> DEFINE t == st.table
           i == PositionOf(t, ev.item)
           u == [t EXCEPT ![i] = ev]
<1>1. /\ t \in Seq(Retained) /\ EachOnce(t) /\ Counted(t, st.size) /\ ev.name # "removed"
      /\ st.size \in [nodes : Nat, edges : Nat] /\ st.changed \in BOOLEAN
  BY DEF Folds, Retained
<1>2. i \in 1 .. Len(t) /\ t[i].item = ev.item
  BY <1>1, PositionIs
<1>3. u \in Seq(Retained) /\ Len(u) = Len(t) /\ \A j \in 1 .. Len(t) : u[j] = IF j = i THEN ev ELSE t[j]
  BY <1>1, <1>2
<1>4. CASE t[i] = ev
  <2>1. Updated(st, ev) = st
    BY <1>4 DEF Updated
  <2>2. Standing(t) = After(Standing(t), ev)
    BY <1>1, <1>2, <1>4 DEF Standing, After, EachOnce
  <2> QED
    BY <2>1, <2>2
<1>5. CASE t[i] # ev
  <2>1. Updated(st, ev) = [st EXCEPT !.table = u, !.changed = TRUE]
    BY <1>5 DEF Updated
  <2> HIDE DEF u, i
  <2>2. \A j \in 1 .. Len(t) : u[j].item = t[j].item
    BY <1>2, <1>3
  <2>3. EachOnce(u) /\ Items(u) = Items(t)
    BY <1>1, <1>3, <2>2 DEF EachOnce, Items
  <2>4. Counted(u, st.size)
    BY <1>1, <2>3 DEF Counted
  <2>5. Standing(u) = After(Standing(t), ev)
    <3>1. \A j \in 1 .. Len(t) : j # i => u[j] = t[j] /\ t[j].item # ev.item
      BY <1>1, <1>2, <1>3 DEF EachOnce
    <3> QED
      BY <1>1, <1>2, <1>3, <3>1 DEF Standing, After
  <2>6. /\ Updated(st, ev).table = u /\ Updated(st, ev).size = st.size
        /\ Updated(st, ev) \in [table : Seq(Retained), size : [nodes : Nat, edges : Nat], changed : BOOLEAN]
    BY <1>3, <2>1 DEF Folds
  <2> QED
    BY <2>3, <2>4, <2>5, <2>6 DEF Folds
<1> QED
  BY <1>4, <1>5

LEMMA CountIs ==
  ASSUME NEW n \in [nodes : Nat, edges : Nat], NEW x \in Node \cup Relation, NEW d \in Int
  PROVE  /\ x \in Relation => CountInventory(n, x, d).edges = n.edges + d /\ CountInventory(n, x, d).nodes = n.nodes
         /\ x \in Node => CountInventory(n, x, d).nodes = n.nodes + d /\ CountInventory(n, x, d).edges = n.edges
         /\ CountInventory(n, x, d) = [nodes |-> CountInventory(n, x, d).nodes, edges |-> CountInventory(n, x, d).edges]
BY NodesAre DEF CountInventory

\* What one item more, or less, does to the count of its kind and of the other.
LEMMA OneItem ==
  ASSUME NEW I, NEW S, NEW x, IsFiniteSet(I \cap S), x \notin I
  PROVE  /\ Cardinality(I \cap S) \in Nat
         /\ Cardinality((I \cup {x}) \cap S) = Cardinality(I \cap S) + (IF x \in S THEN 1 ELSE 0)
<1>1. Cardinality(I \cap S) \in Nat
  BY FS_CardinalityType
<1>2. CASE x \in S
  <2>1. (I \cup {x}) \cap S = (I \cap S) \cup {x} /\ x \notin I \cap S
    BY <1>2
  <2>2. Cardinality((I \cap S) \cup {x}) = Cardinality(I \cap S) + 1
    BY <2>1, FS_AddElement
  <2> QED
    BY <1>1, <1>2, <2>1, <2>2
<1>3. CASE x \notin S
  <2>1. (I \cup {x}) \cap S = I \cap S
    BY <1>3
  <2>2. Cardinality((I \cup {x}) \cap S) = Cardinality(I \cap S)
    BY <2>1
  <2>3. Cardinality(I \cap S) = Cardinality(I \cap S) + 0
    BY <1>1
  <2> QED
    BY <1>1, <1>3, <2>2, <2>3
<1> QED
  BY <1>2, <1>3

LEMMA RemovedIs ==
  ASSUME NEW st \in Folds, NEW ev \in Events, ev.name = "removed", Holds(st.table, ev.item)
  PROVE  /\ Removed(st, ev) \in Folds
         /\ Standing(Removed(st, ev).table) = After(Standing(st.table), ev)
<1> DEFINE t == st.table
           x == ev.item
           i == PositionOf(t, x)
           u == RemoveAt(t, i)
           n == CountInventory(st.size, x, -1)
<1>1. /\ t \in Seq(Retained) /\ EachOnce(t) /\ Counted(t, st.size) /\ st.size \in [nodes : Nat, edges : Nat]
  BY DEF Folds
<1>2. i \in 1 .. Len(t) /\ t[i].item = x /\ Len(t) \in Nat
  BY <1>1, PositionIs
<1>3. x \in Node \cup Relation /\ Node \cap Relation = {}
  BY <1>1, <1>2, EventFacts
<1> HIDE DEF i
<1>4. /\ u \in Seq(Retained) /\ Len(u) = Len(t) - 1
      /\ \A j \in 1 .. Len(t) - 1 : u[j] = IF j < i THEN t[j] ELSE t[j + 1]
  <2>1. /\ SubSeq(t, 1, i - 1) \in Seq(Retained) /\ Len(SubSeq(t, 1, i - 1)) = i - 1
        /\ SubSeq(t, i + 1, Len(t)) \in Seq(Retained) /\ Len(SubSeq(t, i + 1, Len(t))) = Len(t) - i
    BY <1>1, <1>2
  <2>2. /\ \A j \in 1 .. i - 1 : SubSeq(t, 1, i - 1)[j] = t[j]
        /\ \A j \in 1 .. Len(t) - i : SubSeq(t, i + 1, Len(t))[j] = t[i + j]
    BY <1>1, <1>2
  <2> DEFINE a == SubSeq(t, 1, i - 1)
             b == SubSeq(t, i + 1, Len(t))
  <2>3. u = a \o b
    BY DEF RemoveAt
  <2> HIDE DEF a, b, u
  <2>0. a \in Seq(Retained) /\ b \in Seq(Retained) /\ Len(a) = i - 1 /\ Len(b) = Len(t) - i
    BY <2>1 DEF a, b
  <2>4. u \in Seq(Retained) /\ Len(u) = Len(t) - 1
    <3>1. a \o b \in Seq(Retained)
      BY <2>0
    <3>2. Len(a \o b) = Len(a) + Len(b)
      BY <2>0
    <3>3. Len(a) + Len(b) = Len(t) - 1
      BY <1>2, <2>0
    <3> QED
      BY <2>3, <3>1, <3>2, <3>3
  <2>5. ASSUME NEW j \in 1 .. Len(t) - 1 PROVE u[j] = IF j < i THEN t[j] ELSE t[j + 1]
    <3>1. CASE j < i
      <4>1. j \in 1 .. Len(a) /\ a[j] = t[j]
        BY <1>2, <2>1, <2>2, <3>1 DEF a
      <4> QED
        BY <2>1, <2>3, <3>1, <4>1 DEF a, b
    <3>2. CASE ~(j < i)
      <4>1. j - (i - 1) \in 1 .. Len(t) - i /\ i + (j - (i - 1)) = j + 1
        BY <1>2, <3>2
      <4>2. b[j - (i - 1)] = t[j + 1]
        BY <2>2, <4>1 DEF b
      <4>3. u[j] = b[j - (i - 1)]
        <5>1. a \in Seq(Retained) /\ b \in Seq(Retained) /\ Len(a) = i - 1 /\ Len(b) = Len(t) - i
          BY <2>1 DEF a, b
        <5>2. j \in 1 .. Len(a) + Len(b) /\ ~(j <= Len(a))
          BY <1>2, <3>2, <5>1
        <5> QED
          BY <2>3, <5>1, <5>2
      <4> QED
        BY <3>2, <4>2, <4>3
    <3> QED
      BY <3>1, <3>2
  <2> QED
    BY <2>4, <2>5
<1> HIDE DEF u
<1>5. EachOnce(u)
  <2> SUFFICES ASSUME NEW j \in 1 .. Len(u), NEW k \in 1 .. Len(u), u[j].item = u[k].item PROVE j = k
    BY DEF EachOnce
  <2> DEFINE a == IF j < i THEN j ELSE j + 1
             b == IF k < i THEN k ELSE k + 1
  <2>1. a \in 1 .. Len(t) /\ b \in 1 .. Len(t) /\ u[j] = t[a] /\ u[k] = t[b]
    BY <1>2, <1>4
  <2>2. a = b
    BY <1>1, <2>1 DEF EachOnce
  <2> QED
    BY <1>2, <1>4, <2>2
<1>6. \A k \in 1 .. Len(t) : k # i => \E j \in 1 .. Len(u) : u[j] = t[k]
  <2> SUFFICES ASSUME NEW k \in 1 .. Len(t), k # i PROVE \E j \in 1 .. Len(u) : u[j] = t[k]
    OBVIOUS
  <2>1. CASE k < i
    <3>1. k \in 1 .. Len(u) /\ u[k] = t[k]
      BY <1>2, <1>4, <2>1
    <3> QED
      BY <3>1
  <2>2. CASE ~(k < i)
    <3>1. k - 1 \in 1 .. Len(u) /\ u[k - 1] = t[k]
      BY <1>2, <1>4, <2>2
    <3> QED
      BY <3>1
  <2> QED
    BY <2>1, <2>2
<1>7. \A j \in 1 .. Len(u) : \E k \in 1 .. Len(t) : k # i /\ u[j] = t[k]
  <2> SUFFICES ASSUME NEW j \in 1 .. Len(u) PROVE \E k \in 1 .. Len(t) : k # i /\ u[j] = t[k]
    OBVIOUS
  <2> DEFINE a == IF j < i THEN j ELSE j + 1
  <2>1. a \in 1 .. Len(t) /\ a # i /\ u[j] = t[a]
    BY <1>2, <1>4
  <2> QED
    BY <2>1
<1>8. \A k \in 1 .. Len(t) : k # i => t[k].item # x
  BY <1>1, <1>2 DEF EachOnce
<1>9. Standing(u) = After(Standing(t), ev)
  <2>1. Standing(u) = {t[k] : k \in {l \in 1 .. Len(t) : l # i}}
    BY <1>6, <1>7 DEF Standing
  <2>2. After(Standing(t), ev) = {e \in Standing(t) : e.item # x}
    BY DEF After
  <2> QED
    BY <1>2, <1>8, <2>1, <2>2 DEF Standing
<1>10. Items(t) = Items(u) \cup {x} /\ x \notin Items(u)
  <2>1. x \in Items(t)
    BY <1>2 DEF Items
  <2>2. \A k \in 1 .. Len(t) : k # i => t[k].item \in Items(u)
    BY <1>6 DEF Items
  <2>3. Items(t) \subseteq Items(u) \cup {x}
    BY <1>2, <2>2 DEF Items
  <2>4. Items(u) \subseteq Items(t)
    BY <1>7 DEF Items
  <2>5. x \notin Items(u)
    BY <1>7, <1>8 DEF Items
  <2> QED
    BY <2>1, <2>3, <2>4, <2>5
<1>11. ASSUME NEW S
       PROVE  /\ Cardinality(Items(u) \cap S) \in Nat
              /\ Cardinality(Items(t) \cap S) = Cardinality(Items(u) \cap S) + (IF x \in S THEN 1 ELSE 0)
  <2>1. IsFiniteSet(Items(u) \cap S)
    BY <1>4, ItemsAreFinite
  <2>2. /\ Cardinality(Items(u) \cap S) \in Nat
        /\ Cardinality((Items(u) \cup {x}) \cap S) = Cardinality(Items(u) \cap S) + (IF x \in S THEN 1 ELSE 0)
    BY <1>10, <2>1, OneItem
  <2> QED
    BY <1>10, <2>2
<1>12. Counted(u, n) /\ n \in [nodes : Nat, edges : Nat]
  <2> DEFINE N(v, S) == Cardinality(Items(v) \cap S)
  <2>1. /\ N(u, Node) \in Nat /\ N(t, Node) = N(u, Node) + (IF x \in Node THEN 1 ELSE 0)
        /\ N(u, Relation) \in Nat /\ N(t, Relation) = N(u, Relation) + (IF x \in Relation THEN 1 ELSE 0)
    BY <1>11
  <2>2. /\ st.size.nodes = N(t, Node) /\ st.size.nodes <= MaxInventoryEntities
        /\ st.size.edges = N(t, Relation) /\ st.size.edges <= MaxInventoryRelations
    BY <1>1 DEF Counted
  <2>3. MaxInventoryEntities \in Nat /\ MaxInventoryRelations \in Nat
    BY InventoryAssumption
  <2>4. /\ x \in Relation => n.edges = st.size.edges + (-1) /\ n.nodes = st.size.nodes
        /\ x \in Node => n.nodes = st.size.nodes + (-1) /\ n.edges = st.size.edges
        /\ n = [nodes |-> n.nodes, edges |-> n.edges]
    BY <1>1, <1>3, CountIs
  <2> HIDE DEF N, n
  <2>5. n.nodes = N(u, Node) /\ n.edges = N(u, Relation)
    BY <1>3, <2>1, <2>2, <2>4
  <2>6. n.nodes <= MaxInventoryEntities /\ n.edges <= MaxInventoryRelations
    BY <2>1, <2>2, <2>3, <2>5
  <2>7. n \in [nodes : Nat, edges : Nat]
    BY <2>1, <2>4, <2>5
  <2> QED
    BY <2>5, <2>6, <2>7 DEF Counted, N
<1>13. Removed(st, ev) = [table |-> u, size |-> n, changed |-> TRUE]
  BY DEF Removed, u, i
<1> HIDE DEF n
<1> QED
  BY <1>4, <1>5, <1>9, <1>12, <1>13 DEF Folds

LEMMA AddedIs ==
  ASSUME NEW st \in Folds, NEW ev \in Retained, ~Holds(st.table, ev.item)
  PROVE  /\ Added(st, ev) \in Folds
         /\ ~AtInventoryCap(st.size, ev.item) =>
              Standing(Added(st, ev).table) = After(Standing(st.table), ev)
<1> DEFINE t == st.table
           x == ev.item
           u == Append(t, ev)
           n == CountInventory(st.size, x, 1)
<1>1. /\ t \in Seq(Retained) /\ EachOnce(t) /\ Counted(t, st.size) /\ st.size \in [nodes : Nat, edges : Nat]
      /\ Len(t) \in Nat /\ ev.name # "removed"
  BY DEF Folds, Retained
<1>2. x \in Node \cup Relation /\ Node \cap Relation = {}
  BY EventFacts
<1>3. CASE AtInventoryCap(st.size, x)
  BY <1>3 DEF Added
<1>4. CASE ~AtInventoryCap(st.size, x)
  <2>1. /\ u \in Seq(Retained) /\ Len(u) = Len(t) + 1 /\ u[Len(t) + 1] = ev
        /\ \A j \in 1 .. Len(t) : u[j] = t[j]
    BY <1>1
  <2>2. \A j \in 1 .. Len(t) : t[j].item # x
    BY DEF Holds
  <2> HIDE DEF u
  <2>3. \A j \in 1 .. Len(u) : j \in 1 .. Len(t) \/ j = Len(t) + 1
    BY <1>1, <2>1
  <2>4. \A j \in 1 .. Len(t) : j \in 1 .. Len(u)
    BY <1>1, <2>1
  <2>5. Len(t) + 1 \in 1 .. Len(u)
    BY <1>1, <2>1
  <2>6. EachOnce(u)
    BY <1>1, <2>1, <2>2, <2>3 DEF EachOnce
  <2>7. Standing(u) = Standing(t) \cup {ev}
    BY <2>1, <2>3, <2>4, <2>5 DEF Standing
  <2>8. After(Standing(t), ev) = Standing(t) \cup {ev}
    BY <1>1, <2>2 DEF After, Standing
  <2>9. Items(u) = Items(t) \cup {x} /\ x \notin Items(t)
    BY <2>1, <2>2, <2>3, <2>4, <2>5 DEF Items
  <2>10. ASSUME NEW S
         PROVE  /\ Cardinality(Items(t) \cap S) \in Nat
                /\ Cardinality(Items(u) \cap S) = Cardinality(Items(t) \cap S) + (IF x \in S THEN 1 ELSE 0)
    <3>1. IsFiniteSet(Items(t) \cap S)
      BY <1>1, ItemsAreFinite
    <3>2. /\ Cardinality(Items(t) \cap S) \in Nat
          /\ Cardinality((Items(t) \cup {x}) \cap S) = Cardinality(Items(t) \cap S) + (IF x \in S THEN 1 ELSE 0)
      BY <2>9, <3>1, OneItem
    <3> QED
      BY <2>9, <3>2
  <2>11. Counted(u, n) /\ n \in [nodes : Nat, edges : Nat]
    <3> DEFINE N(v, S) == Cardinality(Items(v) \cap S)
    <3>1. /\ N(t, Node) \in Nat /\ N(u, Node) = N(t, Node) + (IF x \in Node THEN 1 ELSE 0)
          /\ N(t, Relation) \in Nat /\ N(u, Relation) = N(t, Relation) + (IF x \in Relation THEN 1 ELSE 0)
      BY <2>10
    <3>2. /\ st.size.nodes = N(t, Node) /\ st.size.nodes <= MaxInventoryEntities
          /\ st.size.edges = N(t, Relation) /\ st.size.edges <= MaxInventoryRelations
      BY <1>1 DEF Counted
    <3>3. MaxInventoryEntities \in Nat /\ MaxInventoryRelations \in Nat
      BY InventoryAssumption
    <3>4. /\ x \in Relation => n.edges = st.size.edges + 1 /\ n.nodes = st.size.nodes
          /\ x \in Node => n.nodes = st.size.nodes + 1 /\ n.edges = st.size.edges
          /\ n = [nodes |-> n.nodes, edges |-> n.edges]
      <4>1. 1 \in Int
        OBVIOUS
      <4> HIDE DEF x
      <4> QED
        BY <1>1, <1>2, <4>1, CountIs
    <3>5. IF x \in Relation THEN ~(st.size.edges >= MaxInventoryRelations)
                            ELSE ~(st.size.nodes >= MaxInventoryEntities)
      BY <1>4 DEF AtInventoryCap
    <3> HIDE DEF N, n
    <3>6. n.nodes = N(u, Node) /\ n.edges = N(u, Relation)
      BY <1>2, <3>1, <3>2, <3>4
    <3>7. n.nodes <= MaxInventoryEntities /\ n.edges <= MaxInventoryRelations
      BY <1>2, <3>1, <3>2, <3>3, <3>4, <3>5
    <3>8. n \in [nodes : Nat, edges : Nat]
      BY <3>1, <3>4, <3>6
    <3> QED
      BY <3>6, <3>7, <3>8 DEF Counted, N
  <2>12. Added(st, ev) = [table |-> u, size |-> n, changed |-> TRUE]
    BY <1>4 DEF Added, u
  <2> HIDE DEF n
  <2> QED
    BY <2>1, <2>6, <2>7, <2>8, <2>11, <2>12 DEF Folds
<1> QED
  BY <1>3, <1>4

\* What the exporter may retain has room for whatever the host can have.
Roomy ==
  /\ IsFiniteSet(Node) /\ Cardinality(Node) <= MaxInventoryEntities
  /\ IsFiniteSet(Relation) /\ Cardinality(Relation) <= MaxInventoryRelations

LEMMA RoomIsLeft ==
  ASSUME Roomy, NEW st \in Folds, NEW x \in Node \cup Relation, ~Holds(st.table, x)
  PROVE  ~AtInventoryCap(st.size, x)
<1> DEFINE t == st.table
<1>1. t \in Seq(Retained) /\ Counted(t, st.size)
  BY DEF Folds
<1>2. x \notin Items(t)
  BY DEF Holds, Items
<1>3. ASSUME NEW S, IsFiniteSet(S), x \in S
      PROVE  Cardinality(Items(t) \cap S) < Cardinality(S)
  <2> DEFINE I == Items(t) \cap S
  <2>1. I \subseteq S /\ I # S
    BY <1>2, <1>3
  <2> HIDE DEF I
  <2>2. Cardinality(I) <= Cardinality(S) /\ (Cardinality(I) = Cardinality(S) => I = S)
        /\ Cardinality(I) \in Nat /\ Cardinality(S) \in Nat
    BY <1>3, <2>1, FS_Subset, FS_CardinalityType
  <2>3. Cardinality(I) < Cardinality(S)
    BY <2>1, <2>2
  <2> QED
    BY <2>3 DEF I
<1>4. \A S : Cardinality(Items(t) \cap S) \in Nat
  BY <1>1, ItemsAreFinite
<1>5. MaxInventoryEntities \in Nat /\ MaxInventoryRelations \in Nat
  BY InventoryAssumption
<1>6. CASE x \in Relation
  <2>1. Cardinality(Items(t) \cap Relation) < Cardinality(Relation) /\ Cardinality(Relation) \in Nat
    BY <1>3, <1>6, FS_CardinalityType DEF Roomy
  <2>2. st.size.edges = Cardinality(Items(t) \cap Relation) /\ Cardinality(Relation) <= MaxInventoryRelations
    BY <1>1 DEF Counted, Roomy
  <2>3. ~(st.size.edges >= MaxInventoryRelations)
    BY <1>4, <1>5, <2>1, <2>2
  <2> QED
    BY <1>6, <2>3 DEF AtInventoryCap
<1>7. CASE x \notin Relation
  <2>1. Cardinality(Items(t) \cap Node) < Cardinality(Node) /\ Cardinality(Node) \in Nat
    BY <1>3, <1>7, FS_CardinalityType DEF Roomy
  <2>2. st.size.nodes = Cardinality(Items(t) \cap Node) /\ Cardinality(Node) <= MaxInventoryEntities
    BY <1>1 DEF Counted, Roomy
  <2>3. ~(st.size.nodes >= MaxInventoryEntities)
    BY <1>4, <1>5, <2>1, <2>2
  <2> QED
    BY <1>7, <2>3 DEF AtInventoryCap
<1> QED
  BY <1>6, <1>7

\* One event folded: the table stays counted and, if there is room, is as the event says.
LEMMA FoldedIs ==
  ASSUME NEW st \in Folds, NEW ev \in Events
  PROVE  /\ FoldEvent(st, ev) \in Folds
         /\ Roomy /\ ev.item # 0 => Standing(FoldEvent(st, ev).table) = After(Standing(st.table), ev)
         /\ ev.item = 0 => FoldEvent(st, ev) = st
<1>1. /\ ev.name \in {"discovered", "changed", "removed", "snapshot"}
      /\ ev.item = 0 <=> ev.name = "snapshot"
      /\ ev.item \in Node \cup Relation \cup {0}
  BY EventFacts
<1>2. CASE ev.name = "snapshot"
  BY <1>1, <1>2 DEF FoldEvent
<1>3. CASE ev.name = "removed"
  <2>1. FoldEvent(st, ev) = IF Holds(st.table, ev.item) THEN Removed(st, ev) ELSE st
    BY <1>3 DEF FoldEvent
  <2>2. CASE Holds(st.table, ev.item)
    BY <1>1, <1>3, <2>1, <2>2, RemovedIs
  <2>3. CASE ~Holds(st.table, ev.item)
    <3>1. After(Standing(st.table), ev) = Standing(st.table)
      BY <1>3, <2>3 DEF After, Standing, Holds
    <3> QED
      BY <1>1, <1>3, <2>1, <2>3, <3>1
  <2> QED
    BY <2>2, <2>3
<1>4. CASE ev.name \in {"discovered", "changed"}
  <2>1. FoldEvent(st, ev) = IF Holds(st.table, ev.item) THEN Updated(st, ev) ELSE Added(st, ev)
    BY <1>4 DEF FoldEvent
  <2>2. ev \in Retained /\ ev.item \in Node \cup Relation /\ ev.item # 0
    BY <1>1, <1>4, EventFacts
  <2>3. CASE Holds(st.table, ev.item)
    BY <2>1, <2>2, <2>3, UpdatedIs
  <2>4. CASE ~Holds(st.table, ev.item)
    BY <2>1, <2>2, <2>4, AddedIs, RoomIsLeft
  <2> QED
    BY <2>3, <2>4
<1> QED
  BY <1>1, <1>2, <1>3, <1>4

(* The fold of the ring. *)

FoldStart == [table |-> table, size |-> size, changed |-> FALSE]
RingFolds(F) ==
  /\ F \in [0 .. Len(ring) -> Folds] /\ F[0] = FoldStart
  /\ \A k \in 1 .. Len(ring) : F[k] = FoldEvent(F[k - 1], ring[k])

LEMMA RingIsFolded ==
  ASSUME ring \in Seq(Events), FoldStart \in Folds
  PROVE  \E F : RingFolds(F) /\ FoldInventory = F[Len(ring)]
<1> DEFINE s == ring
           n == Len(ring)
           base == FoldStart
           P(it) == it = [x \in SUBSET DOMAIN s |-> IF x = {} THEN base ELSE
                                                     FoldEvent(it[x \ {Max(x)}], s[Max(x)])]
           it0 == CHOOSE it : P(it)
           h == [p \in (1 .. n) \X Folds |-> FoldEvent(p[2], s[p[1]])]
           top == [x \in SUBSET (1 .. n) |-> Max(x)]
<1>1. FoldInventory = it0[DOMAIN s]
  BY DEF FoldInventory, FoldLeft, MapThenFoldSet, FoldStart
<1>2. n \in Nat /\ DOMAIN s = 1 .. n /\ \A k \in 1 .. n : s[k] \in Events
  OBVIOUS
<1>3. base \in Folds
  OBVIOUS
<1> HIDE DEF s, n, base
<1>4. \A x \in SUBSET (1 .. n) : x # {} => TopOf(x, Max(x))
  <2> SUFFICES ASSUME NEW x \in SUBSET (1 .. n), x # {} PROVE TopOf(x, Max(x))
    OBVIOUS
  <2>1. x \subseteq Nat /\ \A k \in x : k <= n
    BY <1>2
  <2>2. \E k \in x : \A j \in x : j <= k
    <3>1. IsFiniteSet(x)
      <4>1. IsFiniteSet(1 .. n) /\ x \subseteq 1 .. n
        BY <1>2, FS_Interval
      <4> QED
        BY <4>1, FS_Subset
    <3> QED
      BY <2>1, <3>1, GreatestIn
  <2>3. \E k \in x : \A j \in x : k >= j
    BY <2>1, <2>2
  <2>4. Max(x) \in x /\ \A j \in x : Max(x) >= j
    BY <2>3 DEF Max
  <2> QED
    BY <2>1, <2>4 DEF TopOf
<1>5. \A x \in SUBSET (1 .. n) : x # {} => TopOf(x, top[x])
  BY <1>4
<1>6. h \in [(1 .. n) \X Folds -> Folds]
  BY <1>2, FoldedIs
<1>7. top = [x \in SUBSET (1 .. n) |-> Max(x)]
  OBVIOUS
<1> HIDE DEF h, top
<1>8. PICK it \in [SUBSET (1 .. n) -> Folds] : RunOf(n, top, base, h, it)
  BY <1>2, <1>3, <1>5, <1>6, RunExists
<1>9. P(it)
  <2>1. ASSUME NEW x \in SUBSET (1 .. n), x # {}
        PROVE  h[<<top[x], it[x \ {top[x]}]>>] = FoldEvent(it[x \ {Max(x)}], s[Max(x)])
    <3>1. top[x] = Max(x) /\ Max(x) \in 1 .. n
      BY <1>4, <1>7, <2>1 DEF TopOf
    <3> DEFINE y == x \ {Max(x)}
    <3>2. y \in SUBSET (1 .. n)
      BY <2>1
    <3> HIDE DEF y
    <3>3. it[y] \in Folds
      BY <1>8, <3>2
    <3>4. h[<<Max(x), it[y]>>] = FoldEvent(it[y], s[Max(x)])
      BY <3>1, <3>3 DEF h
    <3> QED
      BY <3>1, <3>4 DEF y
  <2> QED
    BY <1>2, <1>8, <2>1 DEF RunOf
<1>10. P(it0)
  <2> HIDE DEF P
  <2> QED
    BY <1>9
<1> HIDE DEF it0
<1> DEFINE F == [k \in 0 .. n |-> it0[1 .. k]]
<1>11. it0[{}] = base
  BY <1>10
<1>12. ASSUME NEW k \in 1 .. n
       PROVE  it0[1 .. k] = FoldEvent(it0[1 .. k - 1], s[k])
  <2>1. 1 .. k \in SUBSET (1 .. n) /\ 1 .. k # {} /\ (1 .. k) \ {k} = 1 .. k - 1
    <3>1. k \in Nat /\ k <= n /\ k >= 1 /\ n \in Nat
      BY <1>2
    <3> HIDE DEF n
    <3>2. \A j \in 1 .. k : j \in 1 .. n
      BY <3>1
    <3>3. k \in 1 .. k
      BY <3>1
    <3>4. (1 .. k) \ {k} = 1 .. k - 1
      BY <3>1
    <3> QED
      BY <3>2, <3>3, <3>4
  <2>2. Max(1 .. k) = k
    <3> DEFINE x == 1 .. k
    <3>1. x \in SUBSET (1 .. n) /\ x # {}
      BY <2>1
    <3> HIDE DEF x
    <3>2. TopOf(x, Max(x))
      BY <1>4, <3>1
    <3>3. Max(x) \in x /\ \A j \in x : j <= Max(x)
      BY <3>2 DEF TopOf
    <3> QED
      BY <1>2, <3>3 DEF x
  <2>3. 1 .. k \in SUBSET DOMAIN s
    BY <1>2, <2>1
  <2>4. it0[1 .. k] = FoldEvent(it0[(1 .. k) \ {Max(1 .. k)}], s[Max(1 .. k)])
    BY <1>10, <2>1, <2>3
  <2> QED
    BY <2>1, <2>2, <2>4
<1>13. F[0] = base
  <2>1. 1 .. 0 = {} /\ 0 \in 0 .. n
    BY <1>2
  <2> QED
    BY <1>11, <2>1
<1>14. ASSUME NEW k \in 1 .. n PROVE F[k] = FoldEvent(F[k - 1], s[k])
  <2>1. k \in 0 .. n /\ k - 1 \in 0 .. n
    BY <1>2
  <2> QED
    BY <1>12, <2>1
<1>15. FoldInventory = F[n]
  BY <1>1, <1>2
<1>16. DOMAIN F = 0 .. n /\ F = [k \in 0 .. n |-> F[k]]
  OBVIOUS
<1> HIDE DEF F
<1>17. \A k \in 0 .. n : F[k] \in Folds
  <2> DEFINE G == {k \in 0 .. n : F[k] \in Folds}
  <2>1. 0 \in G
    BY <1>2, <1>3, <1>13
  <2>2. ASSUME NEW k \in 1 .. n, k - 1 \in G PROVE k \in G
    <3>1. F[k] \in Folds
      BY <1>2, <1>14, <2>2, FoldedIs
    <3> QED
      BY <1>2, <3>1
  <2> HIDE DEF G
  <2>3. 0 .. n \subseteq G
    BY <1>2, <2>1, <2>2, UpInduction
  <2> QED
    BY <2>3 DEF G
<1> QED
  BY <1>13, <1>14, <1>15, <1>16, <1>17 DEF RingFolds, s, n, base

\* What the table must hold of an item whose last event is ev.
Agrees(T, ev) == IF ev.name = "removed" THEN \A e \in T : e.item # ev.item ELSE ev \in T
LastOf(i, k) == ring[i].item # 0 /\ \A j \in i + 1 .. k : ring[j].item # ring[i].item

LEMMA LatestIsFolded ==
  ASSUME Roomy, ring \in Seq(Events), NEW F, RingFolds(F)
  PROVE  \A i \in 1 .. Len(ring) : LastOf(i, Len(ring)) => Agrees(Standing(F[Len(ring)].table), ring[i])
<1> DEFINE n == Len(ring)
           T(k) == Standing(F[k].table)
           G == {k \in 0 .. n : \A i \in 1 .. k : LastOf(i, k) => Agrees(T(k), ring[i])}
<1>1. n \in Nat /\ \A k \in 1 .. n : ring[k] \in Events
  OBVIOUS
<1>2. 0 \in G
  BY <1>1
<1>3. ASSUME NEW k \in 1 .. n, k - 1 \in G PROVE k \in G
  <2>1. k - 1 \in 0 .. n /\ k \in 0 .. n /\ k \in Nat /\ k - 1 \in Nat
    BY <1>1
  <2>2. F[k] = FoldEvent(F[k - 1], ring[k]) /\ F[k - 1] \in Folds
    BY <2>1 DEF RingFolds
  <2>3. /\ ring[k].item # 0 => T(k) = After(T(k - 1), ring[k])
        /\ ring[k].item = 0 => T(k) = T(k - 1)
    BY <1>1, <2>2, FoldedIs
  <2> SUFFICES ASSUME NEW i \in 1 .. k, LastOf(i, k) PROVE Agrees(T(k), ring[i])
    BY <2>1
  <2>4. \A j \in 1 .. k - 1 : LastOf(j, k - 1) => Agrees(T(k - 1), ring[j])
    BY <1>3
  <2> HIDE DEF T, G
  <2>5. CASE i = k
    <3>1. ring[k].item # 0 /\ T(k) = After(T(k - 1), ring[k])
      BY <2>3, <2>5 DEF LastOf
    <3> QED
      BY <2>5, <3>1 DEF Agrees, After
  <2>6. CASE i # k
    <3>1. i \in 1 .. k - 1 /\ \A j \in i + 1 .. k - 1 : j \in i + 1 .. k
      BY <2>1, <2>6
    <3>2. k \in i + 1 .. k
      BY <2>1, <2>6
    <3>3. LastOf(i, k - 1) /\ ring[k].item # ring[i].item
      BY <3>1, <3>2 DEF LastOf
    <3>4. Agrees(T(k - 1), ring[i])
      BY <2>4, <3>1, <3>3
    <3>5. CASE ring[k].item = 0
      BY <2>3, <3>4, <3>5
    <3>6. CASE ring[k].item # 0
      <4>1. T(k) = After(T(k - 1), ring[k])
        BY <2>3, <3>6
      <4> QED
        BY <3>3, <3>4, <4>1 DEF Agrees, After
    <3> QED
      BY <3>5, <3>6
  <2> QED
    BY <2>5, <2>6
<1>4. 0 .. n \subseteq G
  <2> HIDE DEF G
  <2> QED
    BY <1>1, <1>2, <1>3, UpInduction
<1>5. n \in G
  BY <1>1, <1>4
<1> QED
  BY <1>5

(* What a cycle emits. *)

LEMMA AscendingIs ==
  ASSUME NEW S \in SUBSET Nat, IsFiniteSet(S)
  PROVE  Ascending(S) \in Seq(S)
<1> DEFINE V == Seq(S)
           P(it) == it = [s \in SUBSET S |-> IF s = {} THEN <<>> ELSE Append(it[s \ {Max(s)}], Max(s))]
           it0 == CHOOSE it : P(it)
           pick == [s \in SUBSET S |-> Max(s)]
           h == [p \in (SUBSET S) \X V |-> IF p[1] = {} THEN <<>> ELSE Append(p[2], Max(p[1]))]
<1>1. Ascending(S) = it0[S]
  BY DEF Ascending, MapThenFoldSet
<1>2. \A s \in SUBSET S : s # {} => Max(s) \in s
  <2> SUFFICES ASSUME NEW s \in SUBSET S, s # {} PROVE Max(s) \in s
    OBVIOUS
  <2>1. \E k \in s : \A j \in s : j <= k
    <3>1. s \subseteq Nat /\ IsFiniteSet(s)
      BY FS_Subset
    <3> QED
      BY <3>1, GreatestIn
  <2>2. \E k \in s : \A j \in s : k >= j
    BY <2>1
  <2> QED
    BY <2>2 DEF Max
<1>3. h \in [(SUBSET S) \X V -> V]
  <2>1. ASSUME NEW s \in SUBSET S, NEW v \in V
        PROVE  (IF s = {} THEN <<>> ELSE Append(v, Max(s))) \in V
    <3>1. CASE s = {}
      BY <3>1
    <3>2. CASE s # {}
      <4>1. Max(s) \in S
        BY <1>2, <3>2
      <4> QED
        BY <3>2, <4>1
    <3> QED
      BY <3>1, <3>2
  <2> QED
    BY <2>1
<1>4. \A s \in SUBSET S : s # {} => pick[s] \in s
  BY <1>2
<1>5. <<>> \in V
  OBVIOUS
<1>6. pick = [s \in SUBSET S |-> Max(s)]
  OBVIOUS
<1> HIDE DEF h, V, pick
<1>7. PICK it \in [SUBSET S -> V] : FoldOf(S, pick, <<>>, h, it)
  BY <1>3, <1>4, <1>5, FoldExists
<1>8. P(it)
  <2>1. ASSUME NEW s \in SUBSET S, s # {}
        PROVE  h[<<s, it[s \ {pick[s]}]>>] = Append(it[s \ {Max(s)}], Max(s))
    <3> DEFINE y == s \ {Max(s)}
    <3>1. y \in SUBSET S /\ pick[s] = Max(s)
      BY <1>6
    <3> HIDE DEF y
    <3>2. it[y] \in V
      BY <1>7, <3>1
    <3>3. h[<<s, it[y]>>] = Append(it[y], Max(s))
      BY <2>1, <3>2 DEF h
    <3> QED
      BY <3>1, <3>3 DEF y
  <2> QED
    BY <1>7, <2>1 DEF FoldOf
<1>9. P(it0)
  <2> HIDE DEF P
  <2> QED
    BY <1>8
<1> HIDE DEF it0
<1> DEFINE G == {s \in SUBSET S : it0[s] \in V}
<1>10. ASSUME NEW s \in SUBSET S, \A x \in s : s \ {x} \in G
       PROVE  s \in G
  <2>1. CASE s = {}
    BY <1>5, <1>9, <2>1
  <2>2. CASE s # {}
    <3> DEFINE m == Max(s)
    <3>1. m \in s /\ m \in S
      BY <1>2, <2>2
    <3>2. it0[s] = Append(it0[s \ {m}], m)
      BY <1>9, <2>2
    <3> HIDE DEF m
    <3>3. it0[s \ {m}] \in V
      BY <1>10, <3>1
    <3>4. Append(it0[s \ {m}], m) \in V
      BY <3>1, <3>3 DEF V
    <3> QED
      BY <3>2, <3>4
  <2> QED
    BY <2>1, <2>2
<1>11. S \in G
  <2> DEFINE D == S
  <2>1. \A s \in SUBSET D : (\A x \in s : s \ {x} \in G) => s \in G
    BY <1>10
  <2>2. IsFiniteSet(D)
    OBVIOUS
  <2> HIDE DEF D, G
  <2>3. SUBSET D \subseteq G
    BY <2>1, <2>2, SetInduction
  <2>4. S \in SUBSET D
    BY DEF D
  <2> QED
    BY <2>3, <2>4
<1> QED
  BY <1>1, <1>11 DEF V

LEMMA EventsForAre ==
  ASSUME NEW S, S \subseteq Entity \/ S \subseteq Relation, NEW ver, \A x \in S : ver[x] \in Nat,
         NEW name \in {"discovered", "changed", "removed"},
         NEW ids, S \subseteq Relation => S \subseteq ids
  PROVE  EventsFor(S, name, ver, ids) \in Seq(Events)
<1> DEFINE s == Ascending(S)
           key(x) == IF x \in ids THEN x ELSE Fallback(x)
<1>1. S \in SUBSET Nat /\ IsFiniteSet(S) /\ 0 \notin S /\ S \subseteq Entity \cup Relation
  BY InventoryAssumption, FS_Subset
<1>2. s \in Seq(S)
  BY <1>1, AscendingIs
<1> HIDE DEF s
<1>3. Len(s) \in Nat /\ \A i \in 1 .. Len(s) : s[i] \in S
  BY <1>2
<1>4. ASSUME NEW i \in 1 .. Len(s) PROVE Event(key(s[i]), name, ver[s[i]]) \in Events
  <2>1. s[i] \in S /\ ver[s[i]] \in Nat
    BY <1>3
  <2>2. key(s[i]) \in Node \cup Relation /\ key(s[i]) # 0
    BY <1>1, <2>1, NodesAre
  <2> HIDE DEF key
  <2> QED
    BY <2>1, <2>2 DEF Event, Events
<1>5. EventsFor(S, name, ver, ids) = [i \in 1 .. Len(s) |-> Event(key(s[i]), name, ver[s[i]])]
  BY DEF EventsFor, s
<1> HIDE DEF key
<1> QED
  BY <1>3, <1>4, <1>5

LEMMA Joined ==
  ASSUME NEW S, NEW a \in Seq(S), NEW b \in Seq(S)
  PROVE  a \o b \in Seq(S)
OBVIOUS

LEMMA CutIs ==
  ASSUME NEW S, NEW s \in Seq(S), NEW n \in Nat
  PROVE  FirstN(s, n) \in Seq(S) /\ LastN(s, n) \in Seq(S)
<1>1. FirstN(s, n) \in Seq(S)
  <2>1. CASE n < Len(s)
    <3>1. SubSeq(s, 1, n) \in Seq(S)
      BY <2>1
    <3> QED
      BY <2>1, <3>1 DEF FirstN
  <2>2. CASE ~(n < Len(s))
    <3>1. SubSeq(s, 1, Len(s)) \in Seq(S)
      OBVIOUS
    <3> QED
      BY <2>2, <3>1 DEF FirstN
  <2> QED
    BY <2>1, <2>2
<1>2. LastN(s, n) \in Seq(S)
  <2>1. CASE Len(s) <= n
    BY <2>1 DEF LastN
  <2>2. CASE ~(Len(s) <= n)
    <3>1. SubSeq(s, Len(s) - n + 1, Len(s)) \in Seq(S)
      BY <2>2
    <3> QED
      BY <2>2, <3>1 DEF LastN
  <2> QED
    BY <2>1, <2>2
<1> QED
  BY <1>1, <1>2

InventoryType ==
  /\ host \in [ent : [Entity -> Nat], links : SUBSET Relation]
  /\ topo \in [Entity -> Nat] /\ prevRel \subseteq Relation
  /\ ring \in Seq(Events)

LEMMA EmittedAre ==
  ASSUME InventoryType, NEW new \in [Entity -> Nat], NEW ids, NEW rel \in SUBSET Relation
  PROVE  Emit(ring, Emitted(new, ids, rel)) \in Seq(Events)
<1>1. Snapshot(new, ids) \in Seq(Events)
  <2> DEFINE S == {e \in Entity : new[e] # 0 /\ e > cursor}
  <2>1. S \subseteq Entity /\ (\A e \in S : new[e] \in Nat) /\ (S \subseteq Relation => S \subseteq ids)
    BY NodesAre
  <2> HIDE DEF S
  <2>2. EventsFor(S, "discovered", new, ids) \in Seq(Events)
    BY <2>1, EventsForAre
  <2> QED
    BY <2>2 DEF Snapshot, S
<1>2. Changes(new, ids) \in Seq(Events)
  <2> DEFINE A == {e \in Entity : topo[e] = 0 /\ new[e] # 0}
             B == {e \in Entity : topo[e] # 0 /\ new[e] \notin {0, topo[e]}}
             C == {e \in Entity : topo[e] # 0 /\ new[e] = 0}
  <2>1. A \subseteq Entity /\ B \subseteq Entity /\ C \subseteq Entity
        /\ (\A e \in Entity : new[e] \in Nat) /\ \A e \in Entity : topo[e] \in Nat
    BY DEF InventoryType
  <2>4. (A \subseteq Relation => A = {}) /\ (B \subseteq Relation => B = {}) /\ (C \subseteq Relation => C = {})
    <3> HIDE DEF A, B, C
    <3> QED
      BY <2>1, NodesAre
  <2> HIDE DEF A, B, C
  <2>2. /\ EventsFor(A, "discovered", new, ids) \in Seq(Events)
        /\ EventsFor(B, "changed", new, ids) \in Seq(Events)
        /\ EventsFor(C, "removed", topo, resolved) \in Seq(Events)
    BY <2>1, <2>4, EventsForAre
  <2>3. Changes(new, ids) = EventsFor(A, "discovered", new, ids) \o EventsFor(B, "changed", new, ids)
                              \o EventsFor(C, "removed", topo, resolved)
    BY DEF Changes, A, B, C
  <2> QED
    BY <2>2, <2>3, Joined
<1>3. RelationChanges(rel, ids) \in Seq(Events)
  <2> DEFINE named == {r \in Relation : Ends[r] \subseteq ids}
             A == named \cap (IF resync THEN rel ELSE rel \ prevRel)
             B == {r \in named \cap (prevRel \ rel) : ~resync}
             one == [r \in Relation |-> 1]
  <2>1. A \subseteq Relation /\ B \subseteq Relation /\ \A r \in Relation : one[r] \in Nat
    BY DEF InventoryType
  <2> HIDE DEF A, B, one
  <2>2. /\ EventsFor(A, "discovered", one, Relation) \in Seq(Events)
        /\ EventsFor(B, "removed", one, Relation) \in Seq(Events)
    BY <2>1, EventsForAre
  <2>3. RelationChanges(rel, ids) = EventsFor(A, "discovered", one, Relation)
                                      \o EventsFor(B, "removed", one, Relation)
    BY DEF RelationChanges, A, B, one
  <2> QED
    BY <2>2, <2>3, Joined
<1>4. Emitted(new, ids, rel) \in Seq(Events)
  <2> DEFINE done == Len(Snapshot(new, ids)) <= MaxEventsPerCycle
             entities == IF resync THEN Snapshot(new, ids) ELSE Changes(new, ids)
             relations == IF resync /\ ~done THEN <<>> ELSE RelationChanges(rel, ids)
             end == IF resync /\ done THEN <<Summary>> ELSE <<>>
  <2>1. <<>> \in Seq(Events) /\ <<Summary>> \in Seq(Events)
    <3>1. Summary \in Events
      BY DEF Summary, Event, Events
    <3> QED
      BY <3>1
  <2>2. entities \in Seq(Events) /\ relations \in Seq(Events) /\ end \in Seq(Events)
    BY <1>1, <1>2, <1>3, <2>1
  <2>3. Emitted(new, ids, rel) = FirstN(entities \o relations, MaxEventsPerCycle) \o end
    BY DEF Emitted
  <2> HIDE DEF entities, relations, end
  <2>4. MaxEventsPerCycle \in Nat
    BY InventoryAssumption
  <2>5. entities \o relations \in Seq(Events)
    BY <2>2, Joined
  <2>6. FirstN(entities \o relations, MaxEventsPerCycle) \in Seq(Events)
    BY <2>4, <2>5, CutIs
  <2> QED
    BY <2>2, <2>3, <2>6, Joined
<1>5. MaxEvents \in Nat /\ ring \in Seq(Events)
  BY InventoryAssumption DEF InventoryType
<1>6. ring \o Emitted(new, ids, rel) \in Seq(Events)
  BY <1>4, <1>5, Joined
<1> QED
  BY <1>5, <1>6, CutIs DEF Emit

\* While no cycle has run since the last flush, the table agrees with the ring.
Latest == \A i \in 1 .. Len(ring) : LastOf(i, Len(ring)) => Agrees(Standing(table), ring[i])

TableInv ==
  /\ InventoryType
  /\ FoldStart \in Folds
  /\ flushed /\ Roomy => Latest

NoTable == [table |-> <<>>, size |-> [nodes |-> 0, edges |-> 0], changed |-> FALSE]

LEMMA StartsEmpty == NoTable \in Folds
<1> DEFINE t == NoTable.table
           n == [nodes |-> 0, edges |-> 0]
<1>1. t \in Seq(Retained) /\ 1 .. Len(t) = {}
  BY DEF NoTable
<1> HIDE DEF t
<1>2. EachOnce(t) /\ Items(t) = {}
  BY <1>1 DEF EachOnce, Items
<1>3. Cardinality(Items(t) \cap Node) = 0 /\ Cardinality(Items(t) \cap Relation) = 0
  <2>1. Items(t) \cap Node = {} /\ Items(t) \cap Relation = {}
    BY <1>2
  <2> QED
    BY <2>1, FS_EmptySet
<1>4. MaxInventoryEntities \in Nat /\ MaxInventoryRelations \in Nat
  BY InventoryAssumption
<1>5. Counted(t, n)
  BY <1>3, <1>4 DEF Counted
<1>6. NoTable = [table |-> t, size |-> n, changed |-> FALSE]
  BY DEF NoTable, t
<1> QED
  BY <1>1, <1>2, <1>5, <1>6 DEF Folds

LEMMA TableInit == InventoryInit => TableInv
<1> SUFFICES ASSUME InventoryInit PROVE TableInv
  OBVIOUS
<1>1. InventoryType
  <2>1. host \in [ent : [Entity -> Nat], links : SUBSET Relation]
    BY DEF InventoryInit
  <2>2. topo \in [Entity -> Nat] /\ prevRel \subseteq Relation /\ ring \in Seq(Events)
    BY DEF InventoryInit, Nothing
  <2> QED
    BY <2>1, <2>2 DEF InventoryType
<1>2. FoldStart \in Folds
  <2>1. FoldStart = NoTable
    BY DEF InventoryInit, FoldStart, NoTable
  <2> QED
    BY <2>1, StartsEmpty
<1>3. Latest
  <2>1. 1 .. Len(ring) = {}
    BY DEF InventoryInit
  <2> QED
    BY <2>1 DEF Latest
<1> QED
  BY <1>1, <1>2, <1>3 DEF TableInv

LEMMA TableStep == TableInv /\ [InventoryNext]_inventoryVars => TableInv'
<1> SUFFICES ASSUME TableInv, [InventoryNext]_inventoryVars PROVE TableInv'
  OBVIOUS
<1>1. /\ InventoryType /\ FoldStart \in Folds /\ (flushed /\ Roomy => Latest)
      /\ ring \in Seq(Events) /\ prevRel \in SUBSET Relation
      /\ host.ent \in [Entity -> Nat] /\ host.links \in SUBSET Relation
  BY DEF TableInv, InventoryType
<1>2. CASE UNCHANGED <<ring, table, size, flushed>> /\ InventoryType'
  <2>1. FoldStart' = FoldStart /\ Latest' = Latest
    BY <1>2 DEF FoldStart, Latest, LastOf
  <2> QED
    BY <1>1, <1>2, <2>1 DEF TableInv
<1>3. CASE HostChanges
  <2>1. host' \in [ent : [Entity -> Nat], links : SUBSET Relation]
    <3>1. CASE \E e \in Entity, v \in Version \cup {0} :
                 v # host.ent[e] /\ host' = [host EXCEPT !.ent[e] = v]
      <4>1. PICK e \in Entity, v \in Version \cup {0} : host' = [host EXCEPT !.ent[e] = v]
        BY <3>1
      <4>2. v \in Nat
        BY InventoryAssumption DEF Version
      <4> QED
        BY <1>1, <4>1, <4>2 DEF InventoryType
    <3>2. CASE \E r \in Relation : host' = [host EXCEPT !.links = (@ \ {r}) \cup ({r} \ @)]
      BY <1>1, <3>2 DEF InventoryType
    <3> QED
      BY <1>3, <3>1, <3>2 DEF HostChanges
  <2> QED
    BY <1>1, <1>2, <1>3, <2>1 DEF HostChanges, InventoryType, discovery, retained
<1>4. CASE Cycle
  <2>1. PICK seen \in SUBSET Entity :
          LET new == [e \in Entity |-> IF e \in Kept(seen) THEN host.ent[e] ELSE 0]
              rel == {r \in host.links : Ends[r] \subseteq Kept(seen)}
          IN topo' = new /\ prevRel' = rel /\ ring' = Emit(ring, Emitted(new, ResolveEntities(new), rel))
    BY <1>4 DEF Cycle
  <2> DEFINE new == [e \in Entity |-> IF e \in Kept(seen) THEN host.ent[e] ELSE 0]
             rel == {r \in host.links : Ends[r] \subseteq Kept(seen)}
  <2>2. new \in [Entity -> Nat] /\ rel \in SUBSET Relation
    BY <1>1
  <2>3. topo' = new /\ prevRel' = rel /\ ring' = Emit(ring, Emitted(new, ResolveEntities(new), rel))
    BY <2>1
  <2> HIDE DEF new, rel
  <2>4. ring' \in Seq(Events)
    BY <1>1, <2>2, <2>3, EmittedAre
  <2>5. UNCHANGED <<host, table, size>> /\ flushed' = FALSE
    BY <1>4 DEF Cycle, retained
  <2>6. InventoryType'
    BY <1>1, <2>2, <2>3, <2>4, <2>5 DEF InventoryType
  <2>7. FoldStart' = FoldStart
    BY <2>5 DEF FoldStart
  <2> QED
    BY <1>1, <2>5, <2>6, <2>7 DEF TableInv
<1>5. CASE ResyncDue
  BY <1>1, <1>2, <1>5 DEF ResyncDue, InventoryType, retained
<1>6. CASE Flush
  <2>1. PICK F : RingFolds(F) /\ FoldInventory = F[Len(ring)]
    BY <1>1, RingIsFolded
  <2>2. /\ table' = F[Len(ring)].table /\ size' = F[Len(ring)].size
        /\ UNCHANGED <<host, topo, prevRel, ring>>
    BY <1>6, <2>1 DEF Flush, discovery
  <2>3. F[Len(ring)] \in Folds
    <3>1. Len(ring) \in 0 .. Len(ring)
      BY <1>1
    <3> QED
      BY <2>1, <3>1 DEF RingFolds
  <2>4. FoldStart' \in Folds
    <3>1. FoldStart' = [table |-> F[Len(ring)].table, size |-> F[Len(ring)].size, changed |-> FALSE]
      BY <2>2 DEF FoldStart
    <3> DEFINE st == F[Len(ring)]
    <3>2. st \in Folds
      BY <2>3
    <3> HIDE DEF st
    <3>3. [table |-> st.table, size |-> st.size, changed |-> FALSE] \in Folds
      BY <3>2 DEF Folds
    <3> QED
      BY <3>1, <3>3 DEF st
  <2>5. Roomy => Latest'
    <3> SUFFICES ASSUME Roomy PROVE Latest'
      OBVIOUS
    <3>1. \A i \in 1 .. Len(ring) :
            LastOf(i, Len(ring)) => Agrees(Standing(F[Len(ring)].table), ring[i])
      BY <1>1, <2>1, LatestIsFolded
    <3>2. Standing(F[Len(ring)].table) = Standing(table)'
      BY <2>2 DEF Standing
    <3> QED
      BY <2>2, <3>1, <3>2 DEF Latest, LastOf
  <2>6. InventoryType'
    BY <1>1, <2>2 DEF InventoryType
  <2> QED
    BY <2>4, <2>5, <2>6 DEF TableInv
<1>7. CASE ResendDue
  BY <1>1, <1>2, <1>7 DEF ResendDue, InventoryType, discovery
<1>8. CASE AgentRestarts
  <2>1. /\ topo' = Nothing /\ prevRel' = {} /\ ring' = <<>> /\ table' = <<>> /\ host' = host
        /\ size' = [nodes |-> 0, edges |-> 0]
    BY <1>8 DEF AgentRestarts
  <2>2. FoldStart' \in Folds
    <3>1. FoldStart' = NoTable
      BY <2>1 DEF FoldStart, NoTable
    <3> QED
      BY <3>1, StartsEmpty
  <2>3. Latest'
    <3>1. 1 .. Len(ring') = {}
      BY <2>1
    <3> QED
      BY <3>1 DEF Latest
  <2>4. InventoryType'
    <3>1. topo' \in [Entity -> Nat] /\ prevRel' \subseteq Relation /\ ring' \in Seq(Events)
      BY <2>1 DEF Nothing
    <3> QED
      BY <1>1, <2>1, <3>1 DEF InventoryType
  <2> QED
    BY <2>2, <2>3, <2>4 DEF TableInv
<1>9. CASE IntakeRestarts
  BY <1>1, <1>2, <1>9 DEF IntakeRestarts, InventoryType, discovery, retained
<1>10. CASE UNCHANGED inventoryVars
  BY <1>1, <1>2, <1>10 DEF inventoryVars, InventoryType
<1> QED
  BY <1>3, <1>4, <1>5, <1>6, <1>7, <1>8, <1>9, <1>10 DEF InventoryNext

LEMMA InvCounts == ASSUME TableInv PROVE TableIsCounted
<1>1. table \in Seq(Retained) /\ EachOnce(table) /\ Counted(table, size)
  BY DEF TableInv, FoldStart, Folds
<1>2. \A S : Cardinality({i \in 1 .. Len(table) : table[i].item \in S}) = Cardinality(Items(table) \cap S)
  BY <1>1, RowsAreItems
<1> QED
  BY <1>1, <1>2 DEF TableIsCounted, EachOnce, Counted

LEMMA InvIsLatest == ASSUME TableInv, Roomy PROVE LatestWins
<1> SUFFICES ASSUME flushed, NEW i \in 1 .. Len(ring), ring[i].item # 0,
                    \A j \in i + 1 .. Len(ring) : ring[j].item # ring[i].item
             PROVE  IF ring[i].name = "removed" THEN ~Holds(table, ring[i].item)
                    ELSE \E k \in 1 .. Len(table) : table[k] = ring[i]
  BY DEF LatestWins
<1>1. Agrees(Standing(table), ring[i])
  BY DEF TableInv, Latest, LastOf
<1> QED
  BY <1>1 DEF Agrees, Standing, Holds

\* (Inventory.TableIsCounted.) The counters that bound the exporter's table are the
\* numbers of entities and of relationships in it, and each item is in it once.
THEOREM TablesAreCounted == InventorySpec => []TableIsCounted
<1>1. TableInv => TableIsCounted
  BY InvCounts
<1> QED
  BY <1>1, TableInit, TableStep, PTL DEF InventorySpec

\* (Inventory.TableIsTrue.) Where what may be retained has room for every relationship the host
\* can have and for every entity under both of its keys, after a flush the table is what the last event that
\* the ring holds of each item says, and its counters are what the table says.
THEOREM TablesAreTrue == ASSUME Roomy PROVE InventorySpec => []TableIsTrue
<1>1. TableInv => TableIsTrue
  BY InvCounts, InvIsLatest DEF TableIsTrue
<1> QED
  BY <1>1, TableInit, TableStep, PTL DEF InventorySpec

=============================================================================
