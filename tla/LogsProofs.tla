------------------------------ MODULE LogsProofs ------------------------------
(***************************************************************************)
(* The listeners.  The syslog listener, for every number of addresses,     *)
(* connections, messages and rebinds: each message is drained, waits or is *)
(* counted, and each socket and goroutine is on record                     *)
(* (ListenerAccountsForAll).                                               *)
(*                                                                         *)
(* The argument.  One thread at a time holds the lock.  While it closes it *)
(* has in its hands what it took out of the record, and it lets go when    *)
(* nobody serves; while it binds, nothing but what it has bound is on      *)
(* record.  A connection is accepted, or recorded and served, never both.  *)
(*                                                                         *)
(* The OTLP receiver, for every number of addresses, requests, bounds and  *)
(* restarts (RequestsAreAnswered): of the bodies in memory, of any of them *)
(* even, one was let in when there were no more than its bound; a server   *)
(* that was closed and waited for is not used again.                       *)
(*                                                                         *)
(* The StatsD module, for every number of starts, datagrams and whatever   *)
(* they hold: while every Stop outwaited its goroutine, the one alive is   *)
(* the one last launched, on its own socket and with its own channel; and  *)
(* after every line the telemetry's tables and counts are what the lines   *)
(* so far come to (IntakeIsTrue, with the receiver's).                     *)
(*                                                                         *)
(* The readers that keep a place, for every file, batch, replacement and   *)
(* overrun (CursorsKeepTheirPlace): cells are numbered one after the       *)
(* other, nothing was told of one beyond the reader's place, and a look    *)
(* delivers only what lies beyond it.                                      *)
(***************************************************************************)
EXTENDS LogSyslog, LogCursors, Intake, FiniteSetTheorems, SequenceTheorems, NumberSets, TLAPS

-----------------------------------------------------------------------------
(* The syslog listener: its messages. *)

\* The messages that wait are the last ones, and those drained are older, in their order.
MessagesInv ==
  /\ arrived \in Nat /\ dropped \in Nat
  /\ queue \in Seq(Nat) /\ drained \in Seq(Nat)
  /\ Len(queue) <= MaxQueue
  /\ Len(drained) + Len(queue) + dropped = arrived
  /\ \A i \in 1 .. Len(queue) : queue[i] = arrived - Len(queue) + i
  /\ \A i \in 1 .. Len(drained) : drained[i] <= arrived - Len(queue)
  /\ \A i, j \in 1 .. Len(drained) : i < j => drained[i] < drained[j]

\* The lower of two numbers.
LEMMA LowerOf ==
  ASSUME NEW a \in Nat, NEW b \in Nat
  PROVE  Min({a, b}) = IF a <= b THEN a ELSE b
<1> DEFINE m == IF a <= b THEN a ELSE b
<1>1. m \in {a, b} /\ \A y \in {a, b} : m <= y
  OBVIOUS
<1>2. \A x \in {a, b} : (\A y \in {a, b} : x <= y) => x = m
  OBVIOUS
<1> HIDE DEF m
<1>3. Min({a, b}) = CHOOSE x \in {a, b} : \A y \in {a, b} : x <= y
  BY DEF Min
<1>4. m = CHOOSE x \in {a, b} : \A y \in {a, b} : x <= y
  BY <1>1, <1>2
<1> QED
  BY <1>3, <1>4 DEF m

\* What of it is about numbers alone.
LEMMA MessageNumbers ==
  ASSUME MessagesInv
  PROVE  /\ arrived \in Nat /\ dropped \in Nat /\ Len(queue) \in Nat /\ Len(drained) \in Nat
         /\ MaxQueue \in Nat /\ MaxQueue > 0 /\ SyslogBatch \in Nat
         /\ Len(queue) <= MaxQueue /\ Len(drained) + Len(queue) + dropped = arrived
  BY SyslogAssumption DEF MessagesInv

LEMMA EnqueueKeepsMessages == ASSUME MessagesInv, Enqueue PROVE MessagesInv'
<1> DEFINE kept == IF Len(queue) >= MaxQueue THEN Tail(queue) ELSE queue
<1>1. /\ arrived' = arrived + 1 /\ drained' = drained
      /\ queue' = Append(kept, arrived + 1)
      /\ dropped' = IF Len(queue) >= MaxQueue THEN dropped + 1 ELSE dropped
  BY DEF Enqueue
<1>2. queue \in Seq(Nat) /\ drained \in Seq(Nat)
  BY DEF MessagesInv
<1>3. /\ kept \in Seq(Nat) /\ Len(kept) \in Nat
      /\ Len(kept) <= Len(queue) /\ Len(kept) < MaxQueue
      /\ Len(drained) + Len(kept) + dropped' = arrived
      /\ dropped' \in Nat
      /\ \A i \in 1 .. Len(kept) : kept[i] = arrived - Len(kept) + i
  <2>1. CASE Len(queue) >= MaxQueue
    <3>0. kept = Tail(queue)
      BY <2>1
    <3>1. queue # <<>>
      BY <1>2, <2>1, MessageNumbers
    <3>2. /\ Len(kept) = Len(queue) - 1 /\ kept \in Seq(Nat)
          /\ \A i \in 1 .. Len(queue) - 1 : kept[i] = queue[i + 1]
      BY <1>2, <3>0, <3>1
    <3> HIDE DEF kept
    <3>3. \A i \in 1 .. Len(kept) : kept[i] = arrived - Len(kept) + i
      <4> SUFFICES ASSUME NEW i \in 1 .. Len(kept)
                   PROVE  kept[i] = arrived - Len(kept) + i
        OBVIOUS
      <4>1. i \in 1 .. Len(queue) - 1 /\ i + 1 \in 1 .. Len(queue)
        BY <3>2, MessageNumbers
      <4>2. queue[i + 1] = arrived - Len(queue) + (i + 1)
        BY <4>1 DEF MessagesInv
      <4>3. kept[i] = queue[i + 1]
        BY <3>2, <4>1
      <4> QED
        BY <3>2, <4>2, <4>3, MessageNumbers
    <3>4. dropped' = dropped + 1
      BY <1>1, <2>1
    <3>5. Len(kept) = Len(queue) - 1
      BY <3>2
    <3>6. /\ Len(kept) \in Nat /\ Len(kept) <= Len(queue) /\ Len(kept) < MaxQueue
          /\ Len(drained) + Len(kept) + dropped' = arrived /\ dropped' \in Nat
      BY <2>1, <3>4, <3>5, MessageNumbers
    <3> QED
      BY <3>2, <3>3, <3>6
  <2>2. CASE ~(Len(queue) >= MaxQueue)
    <3>1. kept = queue /\ dropped' = dropped
      BY <1>1, <2>2
    <3>2. Len(queue) < MaxQueue
      BY <2>2, MessageNumbers
    <3>3. \A i \in 1 .. Len(queue) : queue[i] = arrived - Len(queue) + i
      BY DEF MessagesInv
    <3> HIDE DEF kept
    <3> QED
      BY <1>2, <3>1, <3>2, <3>3, MessageNumbers
  <2> QED
    BY <2>1, <2>2
<1> HIDE DEF kept
<1>4. /\ queue' \in Seq(Nat) /\ Len(queue') = Len(kept) + 1
      /\ \A i \in 1 .. Len(kept) : queue'[i] = kept[i]
      /\ queue'[Len(kept) + 1] = arrived + 1
  <2> DEFINE a == arrived + 1
  <2>1. a \in Nat /\ queue' = Append(kept, a) /\ kept \in Seq(Nat)
    BY <1>1, <1>3, MessageNumbers
  <2> HIDE DEF a
  <2>2. /\ queue' \in Seq(Nat) /\ Len(queue') = Len(kept) + 1
        /\ \A i \in 1 .. Len(kept) : queue'[i] = kept[i]
        /\ queue'[Len(kept) + 1] = a
    BY <2>1
  <2> QED
    BY <2>2 DEF a
<1>5. \A i \in 1 .. Len(queue') : queue'[i] = arrived' - Len(queue') + i
  <2> SUFFICES ASSUME NEW i \in 1 .. Len(queue')
               PROVE  queue'[i] = arrived' - Len(queue') + i
    OBVIOUS
  <2>0. Len(queue') = Len(kept) + 1 /\ Len(kept) \in Nat /\ arrived' = arrived + 1
    BY <1>1, <1>3, <1>4
  <2>1. CASE i \in 1 .. Len(kept)
    <3>1. queue'[i] = arrived - Len(kept) + i
      BY <1>3, <1>4, <2>1
    <3> QED
      BY <2>0, <2>1, <3>1, MessageNumbers
  <2>2. CASE i = Len(kept) + 1
    <3>1. queue'[i] = arrived + 1
      BY <1>4, <2>2
    <3> QED
      BY <2>0, <2>2, <3>1, MessageNumbers
  <2> QED
    BY <2>0, <2>1, <2>2
<1>6. ASSUME NEW i \in 1 .. Len(drained)
      PROVE  drained[i] <= arrived' - Len(queue')
  <2>1. drained[i] <= arrived - Len(queue)
    BY DEF MessagesInv
  <2>2. drained[i] \in Nat
    BY <1>2
  <2>3. Len(queue') = Len(kept) + 1 /\ Len(kept) \in Nat /\ Len(kept) <= Len(queue) /\ arrived' = arrived + 1
    BY <1>1, <1>3, <1>4
  <2> QED
    BY <2>1, <2>2, <2>3, MessageNumbers
<1>7. /\ Len(drained) + Len(queue') + dropped' = arrived' /\ dropped' \in Nat /\ arrived' \in Nat
      /\ Len(queue') <= MaxQueue
  <2>1. /\ Len(queue') = Len(kept) + 1 /\ Len(kept) \in Nat /\ Len(kept) < MaxQueue
        /\ arrived' = arrived + 1 /\ Len(drained) + Len(kept) + dropped' = arrived /\ dropped' \in Nat
    BY <1>1, <1>3, <1>4
  <2> QED
    BY <2>1, MessageNumbers
<1>8. \A i, j \in 1 .. Len(drained) : i < j => drained[i] < drained[j]
  BY DEF MessagesInv
<1>9. drained' = drained
  BY <1>1
<1> QED
  BY <1>2, <1>4, <1>5, <1>6, <1>7, <1>8, <1>9 DEF MessagesInv

LEMMA DrainKeepsMessages == ASSUME MessagesInv, NEW t \in Threads, Drain(t) PROVE MessagesInv'
<1> DEFINE n == Min({Len(queue), SyslogBatch})
<1>1. queue \in Seq(Nat) /\ drained \in Seq(Nat)
  BY DEF MessagesInv
<1>2. n \in Nat /\ n <= Len(queue)
  <2>1. n = IF Len(queue) <= SyslogBatch THEN Len(queue) ELSE SyslogBatch
    BY LowerOf, MessageNumbers
  <2> QED
    BY <2>1, MessageNumbers
<1>3. /\ drained' = drained \o SubSeq(queue, 1, n) /\ queue' = SubSeq(queue, n + 1, Len(queue))
      /\ arrived' = arrived /\ dropped' = dropped
  BY DEF Drain
<1> HIDE DEF n
<1> DEFINE head == SubSeq(queue, 1, n)
<1>4. head \in Seq(Nat) /\ Len(head) = n /\ \A i \in 1 .. n : head[i] = queue[i]
  BY <1>1, <1>2
<1>5. /\ queue' \in Seq(Nat) /\ Len(queue') = Len(queue) - n
      /\ \A i \in 1 .. Len(queue) - n : queue'[i] = queue[n + i]
  BY <1>1, <1>2, <1>3
<1>6. drained' = drained \o head
  BY <1>3
<1> HIDE DEF head
<1>7. /\ drained' \in Seq(Nat) /\ Len(drained') = Len(drained) + n
      /\ \A i \in 1 .. Len(drained) : drained'[i] = drained[i]
      /\ \A i \in Len(drained) + 1 .. Len(drained) + n : drained'[i] = head[i - Len(drained)]
  <2>1. Len(head) = n /\ head \in Seq(Nat) /\ drained \in Seq(Nat) /\ drained' = drained \o head
    BY <1>1, <1>4, <1>6
  <2>2. drained' \in Seq(Nat) /\ Len(drained') = Len(drained) + Len(head)
    BY <2>1
  <2>3. /\ \A i \in 1 .. Len(drained) : drained'[i] = drained[i]
        /\ \A i \in Len(drained) + 1 .. Len(drained) + Len(head) : drained'[i] = head[i - Len(drained)]
    BY <2>1
  <2> QED
    BY <2>1, <2>2, <2>3
<1>8. /\ Len(queue') = Len(queue) - n /\ Len(drained') = Len(drained) + n
      /\ arrived' = arrived /\ dropped' = dropped
  BY <1>3, <1>5, <1>7
<1>9. ASSUME NEW i \in 1 .. Len(queue')
      PROVE  queue'[i] = arrived' - Len(queue') + i
  <2>1. n + i \in 1 .. Len(queue) /\ i \in 1 .. Len(queue) - n
    BY <1>2, <1>8, MessageNumbers
  <2>2. queue[n + i] = arrived - Len(queue) + (n + i) /\ queue'[i] = queue[n + i]
    BY <1>5, <2>1 DEF MessagesInv
  <2> QED
    BY <1>2, <1>8, <2>2, MessageNumbers
<1>10. ASSUME NEW i \in Len(drained) + 1 .. Len(drained) + n
       PROVE  drained'[i] = arrived - Len(queue) + (i - Len(drained))
  <2>1. i - Len(drained) \in 1 .. n /\ i - Len(drained) \in 1 .. Len(queue)
    BY <1>2, MessageNumbers
  <2>2. drained'[i] = queue[i - Len(drained)]
    BY <1>4, <1>7, <2>1
  <2> QED
    BY <2>1, <2>2 DEF MessagesInv
<1>11. ASSUME NEW i \in 1 .. Len(drained)
       PROVE  drained'[i] \in Nat /\ drained'[i] <= arrived - Len(queue)
  <2>1. drained[i] \in Nat /\ drained'[i] = drained[i]
    BY <1>1, <1>7
  <2> QED
    BY <2>1 DEF MessagesInv
<1>12. ASSUME NEW i \in 1 .. Len(drained')
       PROVE  drained'[i] <= arrived' - Len(queue')
  <2>1. CASE i \in 1 .. Len(drained)
    BY <1>2, <1>8, <1>11, <2>1, MessageNumbers
  <2>2. CASE i \in Len(drained) + 1 .. Len(drained) + n
    BY <1>2, <1>8, <1>10, <2>2, MessageNumbers
  <2> QED
    BY <1>2, <1>8, <2>1, <2>2, MessageNumbers
<1>13. ASSUME NEW i \in 1 .. Len(drained'), NEW j \in 1 .. Len(drained'), i < j
       PROVE  drained'[i] < drained'[j]
  <2>1. CASE j \in 1 .. Len(drained)
    <3>1. i \in 1 .. Len(drained)
      BY <1>13, <2>1, MessageNumbers
    <3>2. drained[i] < drained[j]
      BY <1>13, <2>1, <3>1 DEF MessagesInv
    <3> QED
      BY <1>7, <2>1, <3>1, <3>2
  <2>2. CASE j \in Len(drained) + 1 .. Len(drained) + n
    <3>1. drained'[j] = arrived - Len(queue) + (j - Len(drained))
      BY <1>10, <2>2
    <3>2. CASE i \in 1 .. Len(drained)
      BY <1>11, <2>2, <3>1, <3>2, MessageNumbers
    <3>3. CASE i \in Len(drained) + 1 .. Len(drained) + n
      <4>1. drained'[i] = arrived - Len(queue) + (i - Len(drained))
        BY <1>10, <3>3
      <4> QED
        BY <1>13, <3>1, <4>1, MessageNumbers
    <3> QED
      BY <1>2, <1>8, <3>2, <3>3, MessageNumbers
  <2> QED
    BY <1>2, <1>8, <2>1, <2>2, MessageNumbers
<1>14. /\ Len(drained') + Len(queue') + dropped' = arrived' /\ Len(queue') <= MaxQueue
       /\ arrived' \in Nat /\ dropped' \in Nat
  BY <1>2, <1>8, MessageNumbers
<1> QED
  BY <1>5, <1>7, <1>9, <1>12, <1>13, <1>14 DEF MessagesInv

LEMMA MessagesNext == ASSUME MessagesInv, [SyslogNext]_syslogVars PROVE MessagesInv'
<1>1. ASSUME UNCHANGED queueVars
      PROVE  MessagesInv'
  BY <1>1 DEF MessagesInv, queueVars
<1>2. ASSUME NEW t \in Threads, ThreadStep(t)
      PROVE  MessagesInv'
  <2>1. CASE Drain(t)
    BY <2>1, DrainKeepsMessages
  <2>2. CASE ReadBegins(t) \/ Close(t) \/ Shut(t) \/ Closed(t) \/ Start(t) \/ BindUDP(t) \/ BindTCP(t) \/ BindFails(t)
    BY <1>1, <2>2 DEF ReadBegins, Close, Shut, Closed, Start, BindUDP, BindTCP, BindFails
  <2> QED
    BY <1>2, <2>1, <2>2 DEF ThreadStep
<1>3. ASSUME NEW g \in Gens, UDPReceives(g)
      PROVE  MessagesInv'
  BY <1>3, EnqueueKeepsMessages DEF UDPReceives
<1>4. ASSUME NEW c \in Connects, ConnReceives(c)
      PROVE  MessagesInv'
  BY <1>4, EnqueueKeepsMessages DEF ConnReceives
<1>5. CASE UNCHANGED syslogVars
  BY <1>1, <1>5 DEF syslogVars
<1>6. CASE (\E a \in Addresses \cup {Free} : Configure(a)) \/ Stop
  BY <1>1, <1>6 DEF Configure, Stop
<1>7. ASSUME NEW g \in Gens, ServeStep(g) \/ \E c \in Connects : Accept(g, c)
      PROVE  MessagesInv'
  BY <1>1, <1>7 DEF ServeStep, UDPEnds, Record, TCPEnds, Accept
<1>8. ASSUME NEW c \in Connects, ConnEnds(c)
      PROVE  MessagesInv'
  BY <1>1, <1>8 DEF ConnEnds
<1> QED
  BY <1>2, <1>3, <1>4, <1>5, <1>6, <1>7, <1>8 DEF SyslogNext

LEMMA MessagesAccounted == ASSUME MessagesInv PROVE MessagesAreAccounted
<1> DEFINE kept == drained \o queue
<1>1. /\ arrived \in Nat /\ dropped \in Nat /\ queue \in Seq(Nat) /\ drained \in Seq(Nat)
      /\ Len(queue) \in Nat /\ Len(drained) \in Nat
  BY DEF MessagesInv
<1>2. /\ Len(kept) = Len(drained) + Len(queue)
      /\ \A i \in 1 .. Len(drained) : kept[i] = drained[i] /\ drained[i] \in Nat
      /\ \A i \in Len(drained) + 1 .. Len(drained) + Len(queue) : kept[i] = queue[i - Len(drained)]
  BY <1>1
<1> HIDE DEF kept
<1>3. \A i \in Len(drained) + 1 .. Len(drained) + Len(queue) :
        kept[i] = arrived - Len(queue) + (i - Len(drained))
  <2> SUFFICES ASSUME NEW i \in Len(drained) + 1 .. Len(drained) + Len(queue)
               PROVE  kept[i] = arrived - Len(queue) + (i - Len(drained))
    OBVIOUS
  <2>1. i - Len(drained) \in 1 .. Len(queue) /\ kept[i] = queue[i - Len(drained)]
    BY <1>1, <1>2
  <2> QED
    BY <2>1 DEF MessagesInv
<1>4. \A i \in 1 .. Len(kept) - 1 : kept[i] < kept[i + 1]
  <2> SUFFICES ASSUME NEW i \in 1 .. Len(kept) - 1
               PROVE  kept[i] < kept[i + 1]
    OBVIOUS
  <2>1. CASE i + 1 \in 1 .. Len(drained)
    <3>1. i \in 1 .. Len(drained) /\ i < i + 1
      BY <1>1, <2>1
    <3>2. drained[i] < drained[i + 1]
      BY <2>1, <3>1 DEF MessagesInv
    <3> QED
      BY <1>2, <2>1, <3>1, <3>2
  <2>2. CASE i = Len(drained)
    <3>1. i + 1 \in Len(drained) + 1 .. Len(drained) + Len(queue) /\ i \in 1 .. Len(drained)
      BY <1>1, <1>2, <2>2
    <3>2. drained[i] <= arrived - Len(queue)
      BY <3>1 DEF MessagesInv
    <3>3. kept[i + 1] = arrived - Len(queue) + 1
      BY <1>1, <1>3, <2>2, <3>1
    <3> QED
      BY <1>1, <1>2, <3>1, <3>2, <3>3
  <2>3. CASE i > Len(drained)
    BY <1>1, <1>2, <1>3, <2>3
  <2> QED
    BY <1>1, <1>2, <2>1, <2>2, <2>3
<1>5. ASSUME queue # <<>>
      PROVE  Range(queue) = Head(queue) .. arrived
  <2>1. Len(queue) >= 1 /\ Head(queue) = queue[1] /\ DOMAIN queue = 1 .. Len(queue)
    BY <1>1, <1>5
  <2>2. \A i \in 1 .. Len(queue) : queue[i] = arrived - Len(queue) + i
    BY DEF MessagesInv
  <2>3. Head(queue) = arrived - Len(queue) + 1
    BY <1>1, <2>1, <2>2
  <2>4. Range(queue) = {queue[i] : i \in 1 .. Len(queue)}
    BY <2>1 DEF Range
  <2>5. Range(queue) \subseteq Head(queue) .. arrived
    BY <1>1, <2>1, <2>2, <2>3, <2>4
  <2>6. ASSUME NEW m \in Head(queue) .. arrived
        PROVE  m \in Range(queue)
    <3> DEFINE i == m - (arrived - Len(queue))
    <3>1. i \in 1 .. Len(queue) /\ m = arrived - Len(queue) + i
      BY <1>1, <2>1, <2>3
    <3> HIDE DEF i
    <3>2. queue[i] = m
      BY <2>2, <3>1
    <3> QED
      BY <2>4, <3>1, <3>2
  <2> QED
    BY <2>5, <2>6
<1>6. Len(queue) <= MaxQueue /\ Len(kept) + dropped = arrived
  BY <1>1, <1>2 DEF MessagesInv
<1> QED
  BY <1>4, <1>5, <1>6 DEF MessagesAreAccounted, kept
-----------------------------------------------------------------------------
(* The syslog listener: its sockets and goroutines. *)

\* One cycle at a time calls Read: none overran.
OneReader == \A r, s \in Readers : r = s

Transports == {"udp", "tcp"}
AnyAddress == Addresses \cup {Free}
Locked == {"shut", "wait", "udp", "tcp"}

ThreadPlace ==
  [pc : {"idle", "drain", "close", "start", "done"} \cup Locked, want : AnyAddress,
   then : {"idle", "drain", "start", "done"},
   held : [stop : 0 .. MaxGen, udp : 0 .. MaxGen, tcp : 0 .. MaxGen], conns : SUBSET Connects]

ListenerType ==
  /\ thread \in [Threads -> ThreadPlace]
  /\ listen \in [addr : AnyAddress, changes : Nat]
  /\ life \in Threads \cup {Free} /\ gens \in 0 .. MaxGen /\ addr \in AnyAddress
  /\ current \in [stop : 0 .. MaxGen, udp : 0 .. MaxGen, tcp : 0 .. MaxGen]
  /\ conns \in SUBSET Connects
  /\ sockets \in SUBSET ((Transports \X Gens \X AnyAddress) \cup ({"conn"} \X Connects))
  /\ serving \in SUBSET ((Transports \X Gens) \cup ({"conn"} \X Connects))
  /\ accepted \in [Gens -> 0 .. MaxConnects] /\ connGen \in [Connects -> 0 .. MaxGen]

\* Who binds or closes has the lock, and the Close of Stop binds nothing.
LockInv ==
  /\ \A t \in Threads : thread[t].pc \in Locked <=> life = t
  /\ thread["stop"].pc \notin {"drain", "start", "udp", "tcp"}
  /\ thread["stop"].then \notin {"drain", "start"}

Shutting == \E t \in Threads : thread[t].pc \in {"shut", "wait"}

OpenConns == {c \in Connects : <<"conn", c>> \in sockets}
ServedConns == {c \in Connects : <<"conn", c>> \in serving}
AcceptedConns == {c \in Connects : \E g \in Gens : accepted[g] = c}

\* A connection is accepted once, and then recorded, served and open together.
ConnsInv ==
  /\ \A c \in Connects : connGen[c] = 0 => c \notin ServedConns \cup AcceptedConns
  /\ \A g, h \in Gens : accepted[g] = accepted[h] => g = h \/ accepted[g] = 0
  /\ \A g \in Gens : accepted[g] # 0 => <<"tcp", g>> \in serving
  /\ AcceptedConns \cap ServedConns = {}
  /\ conns \subseteq ServedConns
  /\ OpenConns \subseteq ServedConns \cup AcceptedConns
  /\ ~Shutting => ServedConns \subseteq conns /\ conns \cup AcceptedConns \subseteq OpenConns

\* What a thread finds, or has in its hands, where it stands.
Hands(t) ==
  /\ thread[t].pc \in {"shut", "wait"} => current = Unbound
  /\ thread[t].pc = "start" => current.udp = 0 /\ current.tcp = 0
  /\ thread[t].pc \in {"udp", "tcp"} =>
       current.tcp = 0 /\ current.stop = gens /\ gens > 0 /\ addr = thread[t].want
  /\ thread[t].pc = "udp" => current.udp = 0
  /\ thread[t].pc = "shut" =>
       \A k \in Transports, g \in Gens, a \in AnyAddress : <<k, g, a>> \in sockets => thread[t].held[k] = g
  /\ thread[t].pc = "wait" =>
       \A k \in Transports, g \in Gens, a \in AnyAddress : <<k, g, a>> \notin sockets

\* The sockets that listen, and those who serve them, are on record.
OnRecord ==
  /\ \A k \in Transports, g \in Gens, a \in AnyAddress :
       <<k, g, a>> \in sockets <=> current[k] = g /\ addr = a
  /\ \A k \in Transports, g \in Gens : <<k, g>> \in serving => current[k] = g

BindingsInv == (\A t \in Threads : Hands(t)) /\ (~Shutting => OnRecord)

ListenerInv == ListenerType /\ LockInv /\ ConnsInv /\ BindingsInv

\* What a thread's step leaves of the others.
LEMMA NobodyElseHolds ==
  ASSUME ListenerType, LockInv, NEW t \in Threads, thread[t].pc \in Locked,
         NEW u \in Threads, u # t
  PROVE  thread[u].pc \notin Locked
  BY DEF LockInv

LEMMA ListenerUnchanged ==
  ASSUME ListenerInv, UNCHANGED <<listen, thread, life, listenerVars>>
  PROVE  ListenerInv'
<1>1. /\ listen' = listen /\ thread' = thread /\ life' = life /\ addr' = addr /\ current' = current
      /\ conns' = conns /\ sockets' = sockets /\ serving' = serving /\ accepted' = accepted
      /\ connGen' = connGen /\ gens' = gens
  BY DEF listenerVars
<1>2. ListenerType' /\ LockInv'
  BY <1>1 DEF ListenerInv, ListenerType, LockInv
<1>3. ConnsInv'
  BY <1>1 DEF ListenerInv, ConnsInv, OpenConns, ServedConns, AcceptedConns, Shutting
<1>4. BindingsInv'
  BY <1>1 DEF ListenerInv, BindingsInv, Hands, OnRecord, Shutting
<1> QED
  BY <1>2, <1>3, <1>4 DEF ListenerInv

\* A thread that neither binds nor closes goes where it does neither.
LEMMA ThreadMoves ==
  ASSUME ListenerInv, NEW t \in Threads, NEW r,
         thread[t].pc \notin Locked, r.pc \in {"idle", "drain", "close"},
         r \in ThreadPlace,
         t = "stop" => r.pc # "drain" /\ r.then \notin {"drain", "start"},
         thread' = [thread EXCEPT ![t] = r],
         listen' \in [addr : AnyAddress, changes : Nat],
         UNCHANGED <<life, listenerVars>>
  PROVE  ListenerInv'
<1>1. /\ life' = life /\ addr' = addr /\ current' = current
      /\ conns' = conns /\ sockets' = sockets /\ serving' = serving /\ accepted' = accepted
      /\ connGen' = connGen /\ gens' = gens
  BY DEF listenerVars
<1>2. thread'[t] = r /\ \A u \in Threads : u # t => thread'[u] = thread[u]
  BY DEF ListenerInv, ListenerType
<1>3. ListenerType'
  BY <1>1 DEF ListenerInv, ListenerType
<1>4. LockInv'
  <2>1. \A u \in Threads : thread'[u].pc \in Locked <=> life = u
    BY <1>2 DEF ListenerInv, LockInv, Locked
  <2>2. "stop" \in Threads
    BY DEF Threads
  <2> QED
    BY <1>1, <1>2, <2>1, <2>2 DEF ListenerInv, LockInv
<1>5. Shutting' <=> Shutting
  BY <1>2 DEF Shutting, Locked
<1>6. ConnsInv'
  BY <1>1, <1>5 DEF ListenerInv, ConnsInv, OpenConns, ServedConns, AcceptedConns
<1>7. BindingsInv'
  <2>1. ASSUME NEW u \in Threads
        PROVE  Hands(u)'
    <3>1. CASE u = t
      BY <1>2, <3>1 DEF Hands
    <3>2. CASE u # t
      <4>1. thread'[u] = thread[u] /\ Hands(u)
        BY <1>2, <3>2 DEF ListenerInv, BindingsInv
      <4> QED
        BY <1>1, <4>1 DEF Hands
    <3> QED
      BY <3>1, <3>2
  <2>2. ~Shutting => OnRecord'
    BY <1>1 DEF ListenerInv, BindingsInv, OnRecord
  <2> QED
    BY <1>5, <2>1, <2>2 DEF BindingsInv
<1> QED
  BY <1>3, <1>4, <1>6, <1>7 DEF ListenerInv

\* closeLocked takes the bindings out of the listener.
LEMMA ReleaseKeeps ==
  ASSUME ListenerInv, NEW t \in Threads, NEW then \in {"idle", "drain", "start", "done"},
         Release(t, then), life' = t, ~\E u \in Threads \ {t} : life = u,
         ~Shutting, thread[t].pc # "start", t = "stop" => then \notin {"drain", "start"},
         UNCHANGED <<listen, sockets, serving, accepted, connGen, gens>>
  PROVE  ListenerInv'
<1>1. /\ thread' = [thread EXCEPT ![t] = [thread[t] EXCEPT !.pc = "shut", !.then = then, !.held = current, !.conns = conns]]
      /\ current' = Unbound /\ addr' = Free /\ conns' = {}
  BY DEF Release, ListenerInv, ListenerType
<1>2. /\ thread[t] \in ThreadPlace /\ current \in [stop : 0 .. MaxGen, udp : 0 .. MaxGen, tcp : 0 .. MaxGen]
      /\ conns \in SUBSET Connects
  BY DEF ListenerInv, ListenerType
<1>3. /\ thread'[t].pc = "shut" /\ thread'[t].then = then /\ thread'[t].held = current
      /\ thread'[t].conns = conns /\ thread'[t] \in ThreadPlace
      /\ \A u \in Threads : u # t => thread'[u] = thread[u]
  BY <1>1, <1>2 DEF ListenerInv, ListenerType, ThreadPlace, Locked
<1>4. \A u \in Threads : u # t => thread[u].pc \notin Locked
  BY DEF ListenerInv, LockInv
<1>5. Shutting'
  BY <1>3 DEF Shutting
<1>6. ListenerType'
  <2>1. thread' \in [Threads -> ThreadPlace]
    BY <1>1, <1>3 DEF ListenerInv, ListenerType
  <2>2. current' \in [stop : 0 .. MaxGen, udp : 0 .. MaxGen, tcp : 0 .. MaxGen] /\ 0 \in 0 .. MaxGen
    BY <1>1, SyslogAssumption DEF Unbound
  <2> QED
    BY <1>1, <2>1, <2>2 DEF ListenerInv, ListenerType, AnyAddress, Threads
<1>7. LockInv'
  <2>1. \A u \in Threads : thread'[u].pc \in Locked <=> life' = u
    BY <1>3, <1>4 DEF Locked
  <2>2. "stop" \in Threads
    BY DEF Threads
  <2> QED
    BY <1>3, <2>1, <2>2 DEF ListenerInv, LockInv
<1>8. ConnsInv'
  BY <1>1, <1>5 DEF ListenerInv, ConnsInv, OpenConns, ServedConns, AcceptedConns
<1>9. BindingsInv'
  <2>1. OnRecord
    BY DEF ListenerInv, BindingsInv
  <2>2. ASSUME NEW u \in Threads
        PROVE  Hands(u)'
    <3>1. CASE u = t
      BY <1>1, <1>3, <2>1, <3>1 DEF Hands, OnRecord
    <3>2. CASE u # t
      <4>1. thread'[u].pc \notin Locked
        BY <1>3, <1>4, <3>2
      <4> QED
        BY <1>1, <4>1 DEF Hands, Locked, Unbound
    <3> QED
      BY <3>1, <3>2
  <2> QED
    BY <1>5, <2>2 DEF BindingsInv
<1> QED
  BY <1>6, <1>7, <1>8, <1>9 DEF ListenerInv

LEMMA CloseKeeps == ASSUME ListenerInv, NEW t \in Threads, Close(t) PROVE ListenerInv'
<1>1. life = Free /\ Free \notin Threads /\ thread[t].pc = "close"
  BY SyslogAssumption DEF Close, At, Free, Threads
<1>2. ~Shutting
  BY <1>1 DEF Shutting, ListenerInv, LockInv, Locked
<1>3. thread[t].then \in {"idle", "drain", "start", "done"}
  BY DEF ListenerInv, ListenerType, ThreadPlace
<1>4. t = "stop" => thread[t].then \notin {"drain", "start"}
  BY DEF ListenerInv, LockInv
<1> QED
  BY <1>1, <1>2, <1>3, <1>4, ReleaseKeeps DEF Close

LEMMA BindFailsKeeps == ASSUME ListenerInv, NEW t \in Threads, BindFails(t) PROVE ListenerInv'
<1>1. thread[t].pc \in {"udp", "tcp"} /\ life = t
  BY DEF BindFails, At, ListenerInv, LockInv, Locked
<1>2. ~Shutting
  BY <1>1 DEF Shutting, ListenerInv, LockInv, Locked
<1>3. life' = t /\ ~\E u \in Threads \ {t} : life = u
  BY <1>1 DEF BindFails
<1> QED
  BY <1>1, <1>2, <1>3, ReleaseKeeps DEF BindFails

LEMMA ShutKeeps == ASSUME ListenerInv, NEW t \in Threads, Shut(t) PROVE ListenerInv'
<1> DEFINE h == thread[t].held
<1>1. /\ thread[t].pc = "shut" /\ life = t /\ t # "none"
      /\ thread' = [thread EXCEPT ![t].pc = "wait"]
      /\ sockets' = {s \in sockets :
           ~ \/ s[1] = "udp" /\ s[2] = h.udp
             \/ s[1] = "tcp" /\ s[2] = h.tcp
             \/ s[1] = "conn" /\ s[2] \in thread[t].conns}
      /\ UNCHANGED <<listen, life, addr, current, conns, serving, accepted, connGen, gens>>
  BY SyslogAssumption DEF Shut, At, Goto, ListenerInv, LockInv, Locked, Threads
<1>2. /\ thread'[t].pc = "wait" /\ thread'[t] \in ThreadPlace /\ thread'[t].then = thread[t].then
      /\ \A u \in Threads : u # t => thread'[u] = thread[u]
  BY <1>1 DEF ListenerInv, ListenerType, ThreadPlace, Locked
<1>3. \A u \in Threads : u # t => thread[u].pc \notin Locked
  BY <1>1 DEF ListenerInv, LockInv
<1>4. Shutting'
  BY <1>2 DEF Shutting
<1>5. sockets' \subseteq sockets
  BY <1>1
<1>6. ListenerType'
  <2>1. thread' \in [Threads -> ThreadPlace]
    BY <1>1, <1>2 DEF ListenerInv, ListenerType
  <2> QED
    BY <1>1, <1>5, <2>1 DEF ListenerInv, ListenerType
<1>7. LockInv'
  <2>1. \A u \in Threads : thread'[u].pc \in Locked <=> life' = u
    BY <1>1, <1>2, <1>3 DEF Locked
  <2>2. "stop" \in Threads
    BY DEF Threads
  <2> QED
    BY <1>2, <2>1, <2>2 DEF ListenerInv, LockInv
<1>8. ConnsInv'
  BY <1>1, <1>4, <1>5 DEF ListenerInv, ConnsInv, OpenConns, ServedConns, AcceptedConns
<1>9. BindingsInv'
  <2>1. current = Unbound /\ \A k \in Transports, g \in Gens, a \in AnyAddress : <<k, g, a>> \in sockets => h[k] = g
    BY <1>1 DEF ListenerInv, BindingsInv, Hands
  <2>2. ASSUME NEW k \in Transports, NEW g \in Gens, NEW a \in AnyAddress
        PROVE  <<k, g, a>> \notin sockets'
    BY <1>1, <2>1 DEF Transports
  <2>3. ASSUME NEW u \in Threads
        PROVE  Hands(u)'
    <3>1. CASE u = t
      BY <1>1, <1>2, <2>1, <2>2, <3>1 DEF Hands
    <3>2. CASE u # t
      <4>1. thread'[u].pc \notin Locked
        BY <1>2, <1>3, <3>2
      <4> QED
        BY <1>1, <2>1, <4>1 DEF Hands, Locked, Unbound
    <3> QED
      BY <3>1, <3>2
  <2> QED
    BY <1>4, <2>3 DEF BindingsInv
<1> QED
  BY <1>6, <1>7, <1>8, <1>9 DEF ListenerInv

LEMMA ClosedKeeps == ASSUME ListenerInv, NEW t \in Threads, Closed(t) PROVE ListenerInv'
<1>1. /\ thread[t].pc = "wait" /\ life = t /\ serving = {} /\ life' = Free
      /\ thread' = [thread EXCEPT ![t].pc = thread[t].then]
      /\ UNCHANGED <<listen, addr, current, conns, sockets, serving, accepted, connGen, gens>>
  BY DEF Closed, At, Goto, ListenerInv, LockInv, Locked, listenerVars
<1>2. /\ thread'[t].pc = thread[t].then /\ thread'[t] \in ThreadPlace /\ thread'[t].then = thread[t].then
      /\ thread[t].then \in {"idle", "drain", "start", "done"}
      /\ \A u \in Threads : u # t => thread'[u] = thread[u]
  BY <1>1 DEF ListenerInv, ListenerType, ThreadPlace, Locked
<1>3. \A u \in Threads : u # t => thread[u].pc \notin Locked
  BY <1>1 DEF ListenerInv, LockInv
<1>4. \A u \in Threads : thread'[u].pc \notin Locked
  BY <1>2, <1>3 DEF Locked
<1>5. current = Unbound /\ \A k \in Transports, g \in Gens, a \in AnyAddress : <<k, g, a>> \notin sockets
  BY <1>1 DEF ListenerInv, BindingsInv, Hands
<1>6. ListenerType'
  <2>1. thread' \in [Threads -> ThreadPlace]
    BY <1>1, <1>2 DEF ListenerInv, ListenerType
  <2> QED
    BY <1>1, <2>1 DEF ListenerInv, ListenerType
<1>7. LockInv'
  <2>1. \A u \in Threads : thread'[u].pc \in Locked <=> life' = u
    BY <1>1, <1>4, SyslogAssumption DEF Free, Threads
  <2>2. "stop" \in Threads
    BY DEF Threads
  <2>3. thread["stop"].then \notin {"drain", "start"} /\ thread["stop"].pc \notin {"drain", "start"}
    BY DEF ListenerInv, LockInv
  <2>4. /\ thread'["stop"].pc \notin {"drain", "start"} /\ thread'["stop"].then \notin {"drain", "start"}
        /\ thread'["stop"].pc \notin {"udp", "tcp"}
    BY <1>2, <1>4, <2>2, <2>3 DEF Locked
  <2> QED
    BY <2>1, <2>4 DEF LockInv
<1>8. ConnsInv'
  <2>1. ServedConns = {} /\ AcceptedConns = {} /\ conns = {} /\ OpenConns = {}
    <3>1. ServedConns = {}
      BY <1>1 DEF ServedConns
    <3>2. \A g \in Gens : accepted[g] = 0
      BY <1>1 DEF ListenerInv, ConnsInv
    <3>3. AcceptedConns = {}
      BY <3>2 DEF AcceptedConns, Connects
    <3> QED
      BY <3>1, <3>3 DEF ListenerInv, ConnsInv
  <2> QED
    BY <1>1, <2>1 DEF ListenerInv, ConnsInv, OpenConns, ServedConns, AcceptedConns
<1>9. BindingsInv'
  <2>1. ASSUME NEW u \in Threads
        PROVE  Hands(u)'
    <3>1. thread'[u].pc \notin Locked
      BY <1>4
    <3> QED
      BY <1>1, <1>5, <3>1 DEF Hands, Locked, Unbound
  <2>2. OnRecord'
    BY <1>1, <1>5 DEF OnRecord, Unbound, Transports, Gens
  <2> QED
    BY <2>1, <2>2 DEF BindingsInv
<1> QED
  BY <1>6, <1>7, <1>8, <1>9 DEF ListenerInv

\* Only a reader binds, and with one of them nobody else is about to.
LEMMA OneBinds ==
  ASSUME OneReader, LockInv, NEW t \in Threads, thread[t].pc \in {"start", "udp", "tcp"},
         NEW u \in Threads, u # t
  PROVE  thread[u].pc \notin {"start", "udp", "tcp"}
  BY DEF OneReader, LockInv, Threads

LEMMA StartKeeps == ASSUME OneReader, ListenerInv, NEW t \in Threads, Start(t) PROVE ListenerInv'
<1>1. /\ thread[t].pc = "start" /\ life = Free /\ life' = t /\ gens < MaxGen /\ gens' = gens + 1
      /\ addr' = thread[t].want /\ current' = [current EXCEPT !.stop = gens + 1]
      /\ thread' = [thread EXCEPT ![t].pc = "udp"]
      /\ UNCHANGED <<listen, conns, sockets, serving, accepted, connGen>>
  BY DEF Start, At, Goto
<1>2. /\ thread'[t].pc = "udp" /\ thread'[t] \in ThreadPlace /\ thread'[t].then = thread[t].then
      /\ thread'[t].want = thread[t].want /\ thread[t].want \in AnyAddress
      /\ \A u \in Threads : u # t => thread'[u] = thread[u]
  BY <1>1 DEF ListenerInv, ListenerType, ThreadPlace, Locked
<1>3. \A u \in Threads : thread[u].pc \notin Locked
  BY <1>1, SyslogAssumption DEF ListenerInv, LockInv, Free, Threads
<1>4. ~Shutting /\ ~Shutting'
  BY <1>2, <1>3 DEF Shutting, Locked
<1>5. gens + 1 \in 0 .. MaxGen /\ gens + 1 > 0
  BY <1>1, SyslogAssumption DEF ListenerInv, ListenerType
<1>6. /\ current' \in [stop : 0 .. MaxGen, udp : 0 .. MaxGen, tcp : 0 .. MaxGen]
      /\ current'.stop = gens + 1 /\ current'.udp = 0 /\ current'.tcp = 0
      /\ current.udp = 0 /\ current.tcp = 0
  <2>1. current.udp = 0 /\ current.tcp = 0
    BY <1>1 DEF ListenerInv, BindingsInv, Hands
  <2>2. current \in [stop : 0 .. MaxGen, udp : 0 .. MaxGen, tcp : 0 .. MaxGen]
    BY DEF ListenerInv, ListenerType
  <2> QED
    BY <1>1, <1>5, <2>1, <2>2
<1>7. ListenerType'
  <2>1. thread' \in [Threads -> ThreadPlace]
    BY <1>1, <1>2 DEF ListenerInv, ListenerType
  <2> QED
    BY <1>1, <1>2, <1>5, <1>6, <2>1 DEF ListenerInv, ListenerType
<1>8. LockInv'
  <2>1. \A u \in Threads : thread'[u].pc \in Locked <=> life' = u
    BY <1>1, <1>2, <1>3 DEF Locked
  <2>2. t # "stop"
    BY <1>1 DEF ListenerInv, LockInv
  <2>3. "stop" \in Threads
    BY DEF Threads
  <2> QED
    BY <1>2, <2>1, <2>2, <2>3 DEF ListenerInv, LockInv
<1>9. ConnsInv'
  BY <1>1, <1>4 DEF ListenerInv, ConnsInv, OpenConns, ServedConns, AcceptedConns
<1>10. BindingsInv'
  <2>1. ASSUME NEW u \in Threads
        PROVE  Hands(u)'
    <3>1. CASE u = t
      BY <1>1, <1>2, <1>5, <1>6, <3>1 DEF Hands
    <3>2. CASE u # t
      <4>1. thread'[u].pc \notin Locked /\ thread'[u].pc # "start"
        BY <1>1, <1>2, <1>3, <3>2, OneBinds DEF ListenerInv
      <4> QED
        BY <4>1 DEF Hands, Locked
    <3> QED
      BY <3>1, <3>2
  <2>2. OnRecord
    BY <1>4 DEF ListenerInv, BindingsInv
  <2>3. \A k \in Transports : current[k] = 0 /\ current'[k] = 0
    BY <1>6 DEF Transports
  <2>4. \A g \in Gens : g # 0
    BY DEF Gens
  <2>5. OnRecord'
    BY <1>1, <2>2, <2>3, <2>4 DEF OnRecord
  <2> QED
    BY <2>1, <2>5 DEF BindingsInv
<1> QED
  BY <1>7, <1>8, <1>9, <1>10 DEF ListenerInv

\* A socket of kind k is bound, by the thread that holds the lock.
LEMMA BindKeeps ==
  ASSUME OneReader, ListenerInv, NEW t \in Threads, NEW k \in Transports,
         NEW pc \in {"tcp", "drain"}, pc = "tcp" <=> k = "udp", Bind(t, k, pc),
         life' = IF pc = "tcp" THEN life ELSE Free, listen' = listen
  PROVE  ListenerInv'
<1> DEFINE g == current.stop
<1>1. /\ thread[t].pc = k /\ life = t
      /\ sockets' = sockets \cup {<<k, g, thread[t].want>>}
      /\ current' = [current EXCEPT ![k] = g]
      /\ serving' = serving \cup {<<k, g>>}
      /\ thread' = [thread EXCEPT ![t].pc = pc]
      /\ UNCHANGED <<addr, conns, accepted, connGen, gens>>
  BY DEF Bind, At, Goto, Transports, ListenerInv, LockInv, Locked
<1>2. /\ thread'[t].pc = pc /\ thread'[t] \in ThreadPlace /\ thread'[t].then = thread[t].then
      /\ thread'[t].want = thread[t].want /\ thread[t].want \in AnyAddress
      /\ \A u \in Threads : u # t => thread'[u] = thread[u]
  BY <1>1 DEF ListenerInv, ListenerType, ThreadPlace, Locked
<1>3. \A u \in Threads : u # t => thread[u].pc \notin Locked /\ thread[u].pc # "start"
  BY <1>1, OneBinds DEF ListenerInv, LockInv, Transports
<1>4. ~Shutting /\ ~Shutting'
  BY <1>1, <1>2, <1>3 DEF Shutting, Locked, Transports
<1>5. /\ current.tcp = 0 /\ g = gens /\ gens > 0 /\ addr = thread[t].want
      /\ k = "udp" => current.udp = 0
      /\ gens \in 0 .. MaxGen /\ current \in [stop : 0 .. MaxGen, udp : 0 .. MaxGen, tcp : 0 .. MaxGen]
  BY <1>1 DEF ListenerInv, ListenerType, BindingsInv, Hands, Transports
<1>6. g \in Gens /\ g # 0
  BY <1>5, SyslogAssumption DEF Gens
<1>7. /\ current' \in [stop : 0 .. MaxGen, udp : 0 .. MaxGen, tcp : 0 .. MaxGen]
      /\ current'.stop = g /\ current'[k] = g /\ current[k] = 0
      /\ \A i \in Transports : i # k => current'[i] = current[i]
      /\ k = "udp" => current'.tcp = 0
  <2>1. CASE k = "udp"
    BY <1>1, <1>5, <2>1 DEF Transports
  <2>2. CASE k = "tcp"
    BY <1>1, <1>5, <2>2 DEF Transports
  <2> QED
    BY <2>1, <2>2 DEF Transports
<1>8. /\ \A c \in Connects : <<"conn", c>> \in sockets' <=> <<"conn", c>> \in sockets
      /\ \A c \in Connects : <<"conn", c>> \in serving' <=> <<"conn", c>> \in serving
      /\ \A i \in Transports, h \in Gens, a \in AnyAddress :
           <<i, h, a>> \in sockets' <=> <<i, h, a>> \in sockets \/ (i = k /\ h = g /\ a = addr)
      /\ \A i \in Transports, h \in Gens :
           <<i, h>> \in serving' <=> <<i, h>> \in serving \/ (i = k /\ h = g)
  <2>1. \A c \in Connects : <<"conn", c>> # <<k, g, thread[t].want>> /\ <<"conn", c>> # <<k, g>>
    BY DEF Transports
  <2> HIDE DEF g
  <2> QED
    BY <1>1, <1>5, <2>1
<1> HIDE DEF g
<1>9. ListenerType'
  <2>1. thread' \in [Threads -> ThreadPlace]
    BY <1>1, <1>2 DEF ListenerInv, ListenerType
  <2>2. life' \in Threads \cup {Free}
    BY <1>1
  <2>3. <<k, g, thread[t].want>> \in Transports \X Gens \X AnyAddress /\ <<k, g>> \in Transports \X Gens
    BY <1>2, <1>6
  <2>4. /\ sockets' \in SUBSET ((Transports \X Gens \X AnyAddress) \cup ({"conn"} \X Connects))
        /\ serving' \in SUBSET ((Transports \X Gens) \cup ({"conn"} \X Connects))
    BY <1>1, <2>3 DEF ListenerInv, ListenerType
  <2> QED
    BY <1>1, <1>7, <2>1, <2>2, <2>4 DEF ListenerInv, ListenerType
<1>10. LockInv'
  <2>1. \A u \in Threads : thread'[u].pc \in Locked <=> life' = u
    BY <1>1, <1>2, <1>3, SyslogAssumption DEF Locked, Free, Threads
  <2>2. t # "stop"
    BY <1>1 DEF ListenerInv, LockInv, Transports
  <2>3. "stop" \in Threads
    BY DEF Threads
  <2> QED
    BY <1>2, <2>1, <2>2, <2>3 DEF ListenerInv, LockInv
<1>11. ConnsInv'
  <2>1. OpenConns' = OpenConns /\ ServedConns' = ServedConns /\ AcceptedConns' = AcceptedConns
    BY <1>1, <1>8 DEF OpenConns, ServedConns, AcceptedConns
  <2>2. serving \subseteq serving'
    BY <1>1
  <2> QED
    BY <1>1, <1>4, <2>1, <2>2 DEF ListenerInv, ConnsInv
<1>12. BindingsInv'
  <2>1. ASSUME NEW u \in Threads
        PROVE  Hands(u)'
    <3>1. CASE u = t
      BY <1>1, <1>2, <1>5, <1>7, <3>1 DEF Hands
    <3>2. CASE u # t
      <4>1. thread'[u].pc \notin Locked /\ thread'[u].pc # "start"
        BY <1>2, <1>3, <3>2
      <4> QED
        BY <4>1 DEF Hands, Locked
    <3> QED
      BY <3>1, <3>2
  <2>2. OnRecord
    BY <1>4 DEF ListenerInv, BindingsInv
  <2>3. ASSUME NEW i \in Transports, NEW h \in Gens, NEW a \in AnyAddress
        PROVE  <<i, h, a>> \in sockets' <=> current'[i] = h /\ addr' = a
    <3>1. h # 0
      BY DEF Gens
    <3>2. <<i, h, a>> \in sockets <=> current[i] = h /\ addr = a
      BY <2>2 DEF OnRecord
    <3> QED
      BY <1>1, <1>7, <1>8, <3>1, <3>2
  <2>4. ASSUME NEW i \in Transports, NEW h \in Gens, <<i, h>> \in serving'
        PROVE  current'[i] = h
    <3>1. h # 0
      BY DEF Gens
    <3>2. <<i, h>> \in serving => current[i] = h
      BY <2>2 DEF OnRecord
    <3> QED
      BY <1>7, <1>8, <2>4, <3>1, <3>2
  <2> QED
    BY <2>1, <2>3, <2>4 DEF BindingsInv, OnRecord
<1> QED
  BY <1>9, <1>10, <1>11, <1>12 DEF ListenerInv

\* The goroutines and the connections, which leave the threads and the record alone.
LEMMA ServingKeeps ==
  ASSUME ListenerInv,
         UNCHANGED <<listen, thread, life, addr, current, gens>>,
         conns' \subseteq Connects,
         sockets' \subseteq (Transports \X Gens \X AnyAddress) \cup ({"conn"} \X Connects),
         serving' \subseteq (Transports \X Gens) \cup ({"conn"} \X Connects),
         accepted' \in [Gens -> 0 .. MaxConnects], connGen' \in [Connects -> 0 .. MaxGen],
         \A k \in Transports, g \in Gens, a \in AnyAddress : <<k, g, a>> \in sockets' <=> <<k, g, a>> \in sockets,
         \A k \in Transports, g \in Gens : <<k, g>> \in serving' => <<k, g>> \in serving,
         ConnsInv'
  PROVE  ListenerInv'
<1>1. ListenerType' /\ LockInv'
  BY DEF ListenerInv, ListenerType, LockInv
<1>2. Shutting' <=> Shutting
  BY DEF Shutting
<1>3. BindingsInv'
  <2>1. ASSUME NEW u \in Threads
        PROVE  Hands(u)'
    <3>1. Hands(u)
      BY DEF ListenerInv, BindingsInv
    <3> QED
      BY <3>1 DEF Hands
  <2>2. OnRecord => OnRecord'
    BY DEF OnRecord
  <2> QED
    BY <1>2, <2>1, <2>2 DEF ListenerInv, BindingsInv
<1> QED
  BY <1>1, <1>3 DEF ListenerInv

LEMMA ListeningEnds ==
  ASSUME ListenerInv, NEW g \in Gens, UDPEnds(g) \/ TCPEnds(g)
  PROVE  ListenerInv'
<1>1. PICK k \in Transports :
        /\ serving' = serving \ {<<k, g>>}
        /\ k = "tcp" => accepted[g] = 0
        /\ UNCHANGED <<listen, thread, life, addr, current, gens, conns, sockets, accepted, connGen>>
  BY DEF UDPEnds, TCPEnds, Transports
<1>2. ServedConns' = ServedConns /\ OpenConns' = OpenConns /\ AcceptedConns' = AcceptedConns
  <2>1. \A c \in Connects : <<"conn", c>> # <<k, g>>
    BY DEF Transports
  <2> QED
    BY <1>1, <2>1 DEF ServedConns, OpenConns, AcceptedConns
<1>3. Shutting' <=> Shutting
  BY <1>1 DEF Shutting
<1>4. ConnsInv'
  <2>1. ASSUME NEW h \in Gens, accepted[h] # 0
        PROVE  <<"tcp", h>> \in serving'
    <3>1. <<"tcp", h>> \in serving
      BY <2>1 DEF ListenerInv, ConnsInv
    <3>2. <<"tcp", h>> # <<k, g>>
      BY <1>1, <2>1 DEF Transports
    <3> QED
      BY <1>1, <3>1, <3>2
  <2> QED
    BY <1>1, <1>2, <1>3, <2>1 DEF ListenerInv, ConnsInv
<1> QED
  BY <1>1, <1>4, ServingKeeps DEF ListenerInv, ListenerType

LEMMA AcceptKeeps ==
  ASSUME ListenerInv, NEW g \in Gens, NEW c \in Connects, Accept(g, c)
  PROVE  ListenerInv'
<1>1. /\ <<"tcp", g>> \in serving /\ accepted[g] = 0 /\ connGen[c] = 0
      /\ connGen' = [connGen EXCEPT ![c] = g] /\ accepted' = [accepted EXCEPT ![g] = c]
      /\ sockets' = sockets \cup {<<"conn", c>>}
      /\ UNCHANGED <<listen, thread, life, addr, current, gens, conns, serving>>
  BY DEF Accept
<1>2. /\ accepted \in [Gens -> 0 .. MaxConnects] /\ connGen \in [Connects -> 0 .. MaxGen]
      /\ accepted'[g] = c /\ connGen'[c] = g /\ g # 0 /\ c # 0
      /\ \A h \in Gens : h # g => accepted'[h] = accepted[h]
      /\ \A d \in Connects : d # c => connGen'[d] = connGen[d]
  BY <1>1 DEF ListenerInv, ListenerType, Gens, Connects
<1>3. accepted' \in [Gens -> 0 .. MaxConnects] /\ connGen' \in [Connects -> 0 .. MaxGen]
  BY <1>1, <1>2, SyslogAssumption DEF Gens, Connects
<1>4. ServedConns' = ServedConns /\ (Shutting' <=> Shutting)
  BY <1>1 DEF ServedConns, Shutting
<1>5. AcceptedConns' = AcceptedConns \cup {c}
  BY <1>1, <1>2 DEF AcceptedConns, Connects
<1>6. OpenConns' = OpenConns \cup {c}
  BY <1>1 DEF OpenConns
<1>7. c \notin ServedConns \cup AcceptedConns
  BY <1>1 DEF ListenerInv, ConnsInv
<1>8. \A h \in Gens : accepted[h] # c
  BY <1>7 DEF AcceptedConns
<1>9. ConnsInv'
  <2>1. \A d \in Connects : connGen'[d] = 0 => d \notin ServedConns \cup (AcceptedConns \cup {c})
    BY <1>2 DEF ListenerInv, ConnsInv
  <2>2. \A h, i \in Gens : accepted'[h] = accepted'[i] => h = i \/ accepted'[h] = 0
    BY <1>2, <1>8 DEF ListenerInv, ConnsInv
  <2>3. \A h \in Gens : accepted'[h] # 0 => <<"tcp", h>> \in serving
    BY <1>1, <1>2 DEF ListenerInv, ConnsInv
  <2> QED
    BY <1>1, <1>4, <1>5, <1>6, <1>7, <2>1, <2>2, <2>3 DEF ListenerInv, ConnsInv
<1>10. \A k \in Transports, h \in Gens, a \in AnyAddress : <<k, h, a>> \in sockets' <=> <<k, h, a>> \in sockets
  <2>1. \A k \in Transports, h \in Gens, a \in AnyAddress : <<k, h, a>> # <<"conn", c>>
    BY DEF Transports
  <2> QED
    BY <1>1, <2>1
<1> QED
  BY <1>1, <1>3, <1>9, <1>10, ServingKeeps DEF ListenerInv, ListenerType

LEMMA RecordKeeps == ASSUME ListenerInv, NEW g \in Gens, Record(g) PROVE ListenerInv'
<1> DEFINE c == accepted[g]
<1>1. /\ c # 0 /\ accepted' = [accepted EXCEPT ![g] = 0]
      /\ \/ conns' = conns /\ serving' = serving /\ sockets' = sockets \ {<<"conn", c>>}
         \/ conns' = conns \cup {c} /\ serving' = serving \cup {<<"conn", c>>} /\ sockets' = sockets
      /\ UNCHANGED <<listen, thread, life, addr, current, gens, connGen>>
  BY DEF Record
<1>2. /\ accepted \in [Gens -> 0 .. MaxConnects] /\ c \in Connects
      /\ accepted'[g] = 0 /\ \A h \in Gens : h # g => accepted'[h] = accepted[h]
  BY <1>1 DEF ListenerInv, ListenerType, Connects
<1>3. accepted' \in [Gens -> 0 .. MaxConnects]
  BY <1>1, SyslogAssumption DEF ListenerInv, ListenerType
<1>4. Shutting' <=> Shutting
  BY <1>1 DEF Shutting
<1>5. \A h \in Gens : h # g => accepted[h] # c
  BY <1>1 DEF ListenerInv, ConnsInv
<1>6. c \in AcceptedConns /\ c \notin ServedConns /\ connGen[c] # 0
  <2>1. c \in AcceptedConns
    BY <1>2 DEF AcceptedConns
  <2> QED
    BY <1>2, <2>1 DEF ListenerInv, ConnsInv
<1>7. AcceptedConns' = AcceptedConns \ {c}
  BY <1>1, <1>2, <1>5 DEF AcceptedConns, Connects
<1> HIDE DEF c
<1>8. /\ \A k \in Transports, h \in Gens, a \in AnyAddress : <<k, h, a>> \in sockets' <=> <<k, h, a>> \in sockets
      /\ \A k \in Transports, h \in Gens : <<k, h>> \in serving' <=> <<k, h>> \in serving
  <2>1. /\ \A k \in Transports, h \in Gens, a \in AnyAddress : <<k, h, a>> # <<"conn", c>>
        /\ \A k \in Transports, h \in Gens : <<k, h>> # <<"conn", c>>
    BY DEF Transports
  <2> QED
    BY <1>1, <2>1
<1>9. ConnsInv'
  <2>1. \A h, i \in Gens : accepted'[h] = accepted'[i] => h = i \/ accepted'[h] = 0
    BY <1>2 DEF ListenerInv, ConnsInv
  <2>2. \A h \in Gens : accepted'[h] # 0 => <<"tcp", h>> \in serving'
    BY <1>2, <1>8 DEF ListenerInv, ConnsInv, Transports
  <2>3. CASE conns' = conns /\ serving' = serving /\ sockets' = sockets \ {<<"conn", c>>}
    <3>1. ServedConns' = ServedConns /\ OpenConns' = OpenConns \ {c}
      BY <1>2, <2>3 DEF ServedConns, OpenConns
    <3> QED
      BY <1>1, <1>4, <1>6, <1>7, <2>1, <2>2, <2>3, <3>1 DEF ListenerInv, ConnsInv
  <2>4. CASE conns' = conns \cup {c} /\ serving' = serving \cup {<<"conn", c>>} /\ sockets' = sockets
    <3>1. ServedConns' = ServedConns \cup {c} /\ OpenConns' = OpenConns
      BY <1>2, <2>4 DEF ServedConns, OpenConns
    <3> QED
      BY <1>1, <1>4, <1>6, <1>7, <2>1, <2>2, <2>4, <3>1 DEF ListenerInv, ConnsInv
  <2> QED
    BY <1>1, <2>3, <2>4
<1>10. /\ conns' \subseteq Connects
       /\ sockets' \subseteq (Transports \X Gens \X AnyAddress) \cup ({"conn"} \X Connects)
       /\ serving' \subseteq (Transports \X Gens) \cup ({"conn"} \X Connects)
       /\ connGen' \in [Connects -> 0 .. MaxGen]
  <2>1. <<"conn", c>> \in {"conn"} \X Connects
    BY <1>2
  <2> QED
    BY <1>1, <1>2, <2>1 DEF ListenerInv, ListenerType
<1> QED
  BY <1>1, <1>3, <1>8, <1>9, <1>10, ServingKeeps

LEMMA ConnEndsKeeps == ASSUME ListenerInv, NEW c \in Connects, ConnEnds(c) PROVE ListenerInv'
<1>1. /\ <<"conn", c>> \in serving /\ serving' = serving \ {<<"conn", c>>}
      /\ sockets' = sockets \ {<<"conn", c>>} /\ conns' = conns \ {c}
      /\ UNCHANGED <<listen, thread, life, addr, current, gens, accepted, connGen>>
  BY DEF ConnEnds
<1>2. /\ Shutting' <=> Shutting
      /\ ServedConns' = ServedConns \ {c} /\ OpenConns' = OpenConns \ {c} /\ AcceptedConns' = AcceptedConns
      /\ c \in ServedConns
  BY <1>1 DEF Shutting, ServedConns, OpenConns, AcceptedConns
<1>3. /\ \A k \in Transports, h \in Gens, a \in AnyAddress : <<k, h, a>> \in sockets' <=> <<k, h, a>> \in sockets
      /\ \A k \in Transports, h \in Gens : <<k, h>> \in serving' <=> <<k, h>> \in serving
  <2>1. /\ \A k \in Transports, h \in Gens, a \in AnyAddress : <<k, h, a>> # <<"conn", c>>
        /\ \A k \in Transports, h \in Gens : <<k, h>> # <<"conn", c>>
    BY DEF Transports
  <2> QED
    BY <1>1, <2>1
<1>4. ConnsInv'
  <2>1. \A h \in Gens : accepted[h] # 0 => <<"tcp", h>> \in serving'
    BY <1>3 DEF ListenerInv, ConnsInv, Transports
  <2> QED
    BY <1>1, <1>2, <2>1 DEF ListenerInv, ConnsInv
<1> QED
  BY <1>1, <1>3, <1>4, ServingKeeps DEF ListenerInv, ListenerType

LEMMA IdlePlace ==
  ASSUME NEW a \in AnyAddress, NEW pc \in {"drain", "close"}, NEW then \in {"drain", "start", "done"}
  PROVE  /\ [Idle EXCEPT !.want = a, !.pc = pc, !.then = then] \in ThreadPlace
         /\ [Idle EXCEPT !.want = a, !.pc = pc, !.then = then].pc = pc
         /\ [Idle EXCEPT !.pc = pc, !.then = then] \in ThreadPlace
<1>1. 0 \in 0 .. MaxGen /\ Free \in AnyAddress
  BY SyslogAssumption DEF AnyAddress
<1>2. Unbound \in [stop : 0 .. MaxGen, udp : 0 .. MaxGen, tcp : 0 .. MaxGen]
  BY <1>1 DEF Unbound
<1>3. Idle = [pc |-> "idle", want |-> Free, then |-> "idle", held |-> Unbound, conns |-> {}]
  BY DEF Idle
<1> QED
  BY <1>1, <1>2, <1>3 DEF ThreadPlace

\* Stop closes once: until then its thread is idle.
StopInv == running => thread["stop"].pc = "idle"

LEMMA StopNext == ASSUME ListenerType, StopInv, [SyslogNext]_syslogVars PROVE StopInv'
<1>1. "stop" \in Threads
  BY DEF Threads
<1>2. ASSUME NEW t \in Threads, ThreadStep(t), running'
      PROVE  thread'["stop"].pc = "idle"
  <2>1. running
    BY <1>2 DEF ThreadStep, ReadBegins, Drain, Close, Shut, Closed, Start, BindUDP, BindTCP, BindFails
  <2>2. t # "stop"
    BY <1>2, <2>1 DEF StopInv, ThreadStep, At, ReadBegins, Drain, Close, Shut, Closed, Start, BindUDP, BindTCP,
      BindFails, Bind
  <2>3. thread'["stop"] = thread["stop"]
    BY <1>1, <1>2, <2>2 DEF ListenerType, ThreadStep, ReadBegins, Drain, Close, Shut, Closed, Start, BindUDP,
      BindTCP, BindFails, Bind, Release, Goto
  <2> QED
    BY <2>1, <2>3 DEF StopInv
<1>3. CASE UNCHANGED syslogVars
  BY <1>3 DEF syslogVars, StopInv
<1>4. CASE Stop
  BY <1>4 DEF Stop, StopInv
<1>5. CASE \E a \in Addresses \cup {Free} : Configure(a)
  BY <1>5 DEF Configure, StopInv
<1>6. ASSUME NEW g \in Gens, ServeStep(g) \/ UDPReceives(g) \/ \E c \in Connects : Accept(g, c)
      PROVE  StopInv'
  BY <1>6 DEF ServeStep, UDPReceives, UDPEnds, Record, TCPEnds, Accept, StopInv
<1>7. ASSUME NEW c \in Connects, ConnReceives(c) \/ ConnEnds(c)
      PROVE  StopInv'
  BY <1>7 DEF ConnReceives, ConnEnds, StopInv
<1> QED
  BY <1>2, <1>3, <1>4, <1>5, <1>6, <1>7 DEF SyslogNext, StopInv

LEMMA ThreadStepKeeps ==
  ASSUME OneReader, ListenerInv, NEW t \in Threads, ThreadStep(t)
  PROVE  ListenerInv'
<1>0. thread[t] \in ThreadPlace /\ thread[t] = [pc |-> thread[t].pc, want |-> thread[t].want,
        then |-> thread[t].then, held |-> thread[t].held, conns |-> thread[t].conns]
  BY DEF ListenerInv, ListenerType, ThreadPlace
<1>1. CASE ReadBegins(t)
  <2> DEFINE r == [Idle EXCEPT !.want = listen.addr,
                     !.pc = IF listen.addr = addr THEN "drain" ELSE "close",
                     !.then = IF listen.addr = Free THEN "drain" ELSE "start"]
  <2>1. /\ t # "stop" /\ thread[t].pc = "idle" /\ thread' = [thread EXCEPT ![t] = r]
        /\ UNCHANGED <<listen, life, listenerVars>>
    BY <1>1 DEF ReadBegins, At
  <2>2. r \in ThreadPlace /\ r.pc \in {"idle", "drain", "close"}
    <3>1. listen.addr \in AnyAddress
      BY DEF ListenerInv, ListenerType
    <3> QED
      BY <3>1, IdlePlace
  <2> HIDE DEF r
  <2>3. thread[t].pc \notin Locked /\ listen' \in [addr : AnyAddress, changes : Nat]
    BY <2>1 DEF Locked, ListenerInv, ListenerType
  <2> QED
    BY <2>1, <2>2, <2>3, ThreadMoves
<1>2. CASE Drain(t)
  <2> DEFINE r == [thread[t] EXCEPT !.pc = "idle"]
  <2>1. /\ thread[t].pc = "drain" /\ thread' = [thread EXCEPT ![t] = r]
        /\ UNCHANGED <<listen, life, listenerVars>>
    BY <1>2 DEF Drain, At, Goto
  <2>2. /\ r \in ThreadPlace /\ r.pc = "idle" /\ r.then = thread[t].then
    BY <1>0 DEF ThreadPlace
  <2>3. t = "stop" => r.pc # "drain" /\ r.then \notin {"drain", "start"}
    BY <2>2 DEF ListenerInv, LockInv
  <2> HIDE DEF r
  <2>4. thread[t].pc \notin Locked /\ listen' \in [addr : AnyAddress, changes : Nat]
    BY <2>1 DEF Locked, ListenerInv, ListenerType
  <2> QED
    BY <2>1, <2>2, <2>3, <2>4, ThreadMoves
<1>3. CASE BindUDP(t)
  <2>1. Bind(t, "udp", "tcp") /\ UNCHANGED <<listen, life>>
    BY <1>3 DEF BindUDP
  <2> QED
    BY <2>1, BindKeeps DEF Transports
<1>4. CASE BindTCP(t)
  <2>1. Bind(t, "tcp", "drain") /\ life' = Free /\ listen' = listen
    BY <1>4 DEF BindTCP
  <2> QED
    BY <2>1, BindKeeps DEF Transports
<1> QED
  BY <1>1, <1>2, <1>3, <1>4, CloseKeeps, ShutKeeps, ClosedKeeps, StartKeeps, BindFailsKeeps
  DEF ThreadStep

LEMMA ListenerNext ==
  ASSUME OneReader, ListenerInv, StopInv, [SyslogNext]_syslogVars
  PROVE  ListenerInv'
<1>1. CASE UNCHANGED syslogVars
  BY <1>1, ListenerUnchanged DEF syslogVars
<1>2. ASSUME NEW a \in Addresses \cup {Free}, Configure(a)
      PROVE  ListenerInv'
  <2>1. /\ listen' \in [addr : AnyAddress, changes : Nat]
        /\ UNCHANGED <<thread, life, addr, current, gens, conns, sockets, serving, accepted, connGen>>
    BY <1>2 DEF Configure, listenerVars, AnyAddress, ListenerInv, ListenerType
  <2>2. ListenerType' /\ LockInv'
    BY <2>1 DEF ListenerInv, ListenerType, LockInv
  <2>3. ConnsInv'
    BY <2>1 DEF ListenerInv, ConnsInv, OpenConns, ServedConns, AcceptedConns, Shutting
  <2>4. BindingsInv'
    BY <2>1 DEF ListenerInv, BindingsInv, Hands, OnRecord, Shutting
  <2> QED
    BY <2>2, <2>3, <2>4 DEF ListenerInv
<1>3. CASE Stop
  <2> DEFINE r == [Idle EXCEPT !.pc = "close", !.then = "done"]
  <2>1. /\ "stop" \in Threads /\ thread' = [thread EXCEPT !["stop"] = r]
        /\ UNCHANGED <<listen, life, listenerVars>>
    BY <1>3 DEF Stop, Threads
  <2>2. r \in ThreadPlace /\ r.pc = "close" /\ r.then = "done"
    BY IdlePlace, SyslogAssumption DEF AnyAddress, Idle
  <2> HIDE DEF r
  <2>3. thread["stop"].pc \notin Locked
    BY <1>3 DEF Stop, StopInv, Locked
  <2> QED
    BY <2>1, <2>2, <2>3, ThreadMoves DEF ListenerInv, ListenerType
<1>4. ASSUME NEW g \in Gens, UDPReceives(g)
      PROVE  ListenerInv'
  BY <1>4, ListenerUnchanged DEF UDPReceives
<1>5. ASSUME NEW c \in Connects, ConnReceives(c)
      PROVE  ListenerInv'
  BY <1>5, ListenerUnchanged DEF ConnReceives
<1> QED
  BY <1>1, <1>2, <1>3, <1>4, <1>5, ThreadStepKeeps, ListeningEnds, AcceptKeeps, RecordKeeps, ConnEndsKeeps
  DEF SyslogNext, ServeStep

LEMMA ListenerInit == ASSUME SyslogInit PROVE ListenerInv
<1>1. ListenerType
  BY SyslogAssumption DEF SyslogInit, ListenerType, ThreadPlace, Idle, Unbound, AnyAddress, Free
<1>2. LockInv
  BY SyslogAssumption DEF SyslogInit, LockInv, Idle, Locked, Free, Threads
<1>3. ConnsInv
  BY DEF SyslogInit, ConnsInv, OpenConns, ServedConns, AcceptedConns, Connects
<1>4. BindingsInv
  BY DEF SyslogInit, BindingsInv, Hands, OnRecord, Idle, Unbound, Gens, Transports
<1> QED
  BY <1>1, <1>2, <1>3, <1>4 DEF ListenerInv

LEMMA ListenerRecorded == ASSUME ListenerInv PROVE BoundIsRecorded
<1> SUFFICES ASSUME life = Free
             PROVE  BoundIsRecorded
  BY DEF BoundIsRecorded
<1>1. ~Shutting
  BY SyslogAssumption DEF Shutting, ListenerInv, LockInv, Locked, Free, Threads
<1>2. OnRecord /\ ServedConns = conns /\ OpenConns = conns \cup AcceptedConns
  BY <1>1 DEF ListenerInv, BindingsInv, ConnsInv
<1>3. /\ \A s \in sockets : s[1] # "conn" =>
           \E k \in Transports, g \in Gens, a \in AnyAddress : s = <<k, g, a>>
      /\ \A s \in sockets : s[1] = "conn" => \E c \in Connects : s = <<"conn", c>>
  BY DEF ListenerInv, ListenerType, Transports
<1>4. /\ \A s \in serving : s[1] # "conn" => \E k \in Transports, g \in Gens : s = <<k, g>>
      /\ \A s \in serving : s[1] = "conn" => \E c \in Connects : s = <<"conn", c>>
  BY DEF ListenerInv, ListenerType, Transports
<1>5. {s \in sockets : s[1] # "conn"} = {<<k, current[k], addr>> : k \in {k \in {"udp", "tcp"} : current[k] # 0}}
  <2>1. ASSUME NEW s \in sockets, s[1] # "conn"
        PROVE  \E k \in {i \in {"udp", "tcp"} : current[i] # 0} : s = <<k, current[k], addr>>
    <3>1. PICK k \in Transports, g \in Gens, a \in AnyAddress : s = <<k, g, a>>
      BY <1>3, <2>1
    <3>2. current[k] = g /\ addr = a /\ g # 0
      BY <1>2, <2>1, <3>1 DEF OnRecord, Gens
    <3> QED
      BY <3>1, <3>2 DEF Transports
  <2>2. ASSUME NEW k \in {"udp", "tcp"}, current[k] # 0
        PROVE  <<k, current[k], addr>> \in sockets
    <3>1. current[k] \in Gens /\ addr \in AnyAddress /\ k \in Transports
      <4>1. k \in Transports /\ current[k] \in 0 .. MaxGen /\ addr \in AnyAddress
        BY DEF ListenerInv, ListenerType, Transports
      <4> QED
        BY <2>2, <4>1, SyslogAssumption DEF Gens
    <3> QED
      BY <1>2, <3>1 DEF OnRecord
  <2>3. \A k \in {"udp", "tcp"} : <<k, current[k], addr>>[1] # "conn"
    OBVIOUS
  <2> QED
    BY <2>1, <2>2, <2>3
<1>6. {s[2] : s \in {s \in sockets : s[1] = "conn"}} = OpenConns
  BY <1>3 DEF OpenConns
<1>7. {accepted[g] : g \in Gens} \ {0} = AcceptedConns
  BY SyslogAssumption DEF AcceptedConns, ListenerInv, ListenerType, Connects
<1>8. {s \in serving : s[1] # "conn"} \subseteq {<<k, current[k]>> : k \in {"udp", "tcp"}}
  BY <1>2, <1>4 DEF OnRecord, Transports
<1>9. {s[2] : s \in {s \in serving : s[1] = "conn"}} = ServedConns
  BY <1>4 DEF ServedConns
<1> QED
  BY <1>2, <1>5, <1>6, <1>7, <1>8, <1>9 DEF BoundIsRecorded

\* ListenerAccountsForAll: of what senders push, every message is drained, waits or is counted as
\* dropped, and, while no Read overruns, a later Close reaches every socket and goroutine.
THEOREM SyslogAccountsForAll == OneReader => (SyslogSpec => []ListenerAccountsForAll)
<1> SUFFICES ASSUME OneReader
             PROVE  SyslogSpec => []ListenerAccountsForAll
  OBVIOUS
<1> DEFINE Inv == MessagesInv /\ ListenerInv /\ StopInv
<1>1. SyslogInit => Inv
  <2>1. SyslogInit => MessagesInv
    BY SyslogAssumption DEF SyslogInit, MessagesInv
  <2>2. SyslogInit => StopInv
    BY DEF SyslogInit, StopInv, Idle, Threads
  <2> QED
    BY <2>1, <2>2, ListenerInit
<1>2. Inv /\ [SyslogNext]_syslogVars => Inv'
  BY MessagesNext, ListenerNext, StopNext DEF ListenerInv
<1>3. Inv => ListenerAccountsForAll
  BY MessagesAccounted, ListenerRecorded DEF ListenerAccountsForAll
<1> HIDE DEF Inv
<1> QED
  BY <1>1, <1>2, <1>3, PTL DEF SyslogSpec

-----------------------------------------------------------------------------
(* The OTLP receiver. *)

Busy == {r \in Request : handler[r].at \notin {"absent", "handled", "gone"}}
Accepted == {r \in ingested : handler[r].at # "taken"}

HandlerPlaces == {"absent", "handled", "refused", "reading", "taken", "read", "gone"}

ReceiverType ==
  /\ srv \in Server \cup {0} /\ stopping \in Server \cup {0}
  /\ maxQueue \in QueueBound
  /\ acceptor \in [Server -> [Address -> {"none", "born", "unbound", "serving", "failed", "gone"}]]
  /\ closed \subseteq Server /\ reportedBy \subseteq Server /\ gaveUp \subseteq Server
  /\ handler \in [Request -> [at : HandlerPlaces, server : Nat, bound : Nat]]
  /\ ingested \subseteq Request

\* A server is started, then stopped, then told to shut down, and is not used again.
ServersInv ==
  /\ srv # 0 => stopping = 0 /\ srv \notin closed
  /\ \A g \in Server : g \in closed \cup reportedBy \cup {srv, stopping} =>
       g \notin Unused
  /\ srv # 0 => \A a \in Address : acceptor[srv][a] # "none"
  /\ \A g \in Server, a \in Address :
       /\ acceptor[g][a] = "gone" => g \in closed
       /\ acceptor[g][a] = "failed" => g \in reportedBy
  /\ \A g \in reportedBy : \E a \in Address : acceptor[g][a] = "failed"
  /\ \A g \in closed \ gaveUp : g # stopping => Quiet(g)

\* A request counts itself in before it is read or refused, and counts itself out.
CountsInv ==
  /\ acceptedTotal = Cardinality(Accepted)
  /\ inflight = Cardinality(Busy)
  /\ \A r \in Request :
       /\ handler[r].at \in {"absent", "handled", "refused", "reading"} => r \notin ingested
       /\ handler[r].at = "taken" => r \in ingested

\* Of any bodies in memory the last to be let in found that the others were not too many.
BodiesInv ==
  \A S \in SUBSET Holding : S # {} => \E r \in S : Cardinality(S) <= handler[r].bound

ReceiverInv == ReceiverType /\ ServersInv /\ CountsInv /\ BodiesInv

LEMMA RequestsFinite ==
  ASSUME ReceiverType
  PROVE  /\ IsFiniteSet(Request)
         /\ \A S \in SUBSET Request : IsFiniteSet(S) /\ Cardinality(S) \in Nat
         /\ Busy \in SUBSET Request /\ Accepted \in SUBSET Request /\ Holding \in SUBSET Busy
<1>1. IsFiniteSet(Request)
  BY ReceiverAssumption, FS_Interval DEF Request
<1>2. \A S \in SUBSET Request : IsFiniteSet(S) /\ Cardinality(S) \in Nat
  BY <1>1, FS_Subset, FS_CardinalityType
<1> QED
  BY <1>1, <1>2 DEF ReceiverType, Busy, Accepted, Holding

LEMMA FirstUnused ==
  ASSUME Unused # {}
  PROVE  Min(Unused) \in Unused
<1>1. Unused \subseteq Nat
  BY ReceiverAssumption DEF Unused, Server
<1>2. \E x \in Unused : \A y \in Unused : x <= y
  BY <1>1, SmallestIn
<1> QED
  BY <1>2 DEF Min

\* The handlers stay as they are when only the servers change, and the other way round.
HandlersSame == UNCHANGED <<inflight, acceptedTotal, handler, ingested>>

LEMMA HandlersKept ==
  ASSUME ReceiverInv, HandlersSame
  PROVE  CountsInv' /\ BodiesInv'
BY DEF ReceiverInv, HandlersSame, CountsInv, BodiesInv, Accepted, Busy, Holding

LEMMA ReceiverStarts ==
  ASSUME ReceiverInv, StartReceiver
  PROVE  ReceiverType' /\ ServersInv'
<1>1. PICK B \in SUBSET {a \in Address : ~Bound(a)}, q \in QueueBound :
        /\ B # {} /\ srv' = Min(Unused) /\ maxQueue' = q
        /\ acceptor' = [acceptor EXCEPT ![Min(Unused)] =
                          [a \in Address |-> IF a \in B THEN "born" ELSE "unbound"]]
  BY DEF StartReceiver
<1> DEFINE g == Min(Unused)
<1>2. g \in Unused
  BY FirstUnused DEF StartReceiver
<1> HIDE DEF g
<1>3. /\ g \in Server /\ srv' = g /\ srv = 0 /\ stopping = 0
      /\ acceptor' = [acceptor EXCEPT ![g] = [a \in Address |-> IF a \in B THEN "born" ELSE "unbound"]]
      /\ UNCHANGED <<closed, stopping, reportedBy, handler, ingested, gaveUp>>
  BY <1>1, <1>2 DEF g, StartReceiver, Unused
<1>4. /\ \A a \in Address : acceptor'[g][a] \in {"born", "unbound"}
      /\ \A h \in Server \ {g} : acceptor'[h] = acceptor[h]
  BY <1>3 DEF ReceiverInv, ReceiverType
<1>5. g \notin closed \cup reportedBy
  BY <1>2, <1>3 DEF ReceiverInv, ServersInv
<1>6. ReceiverType'
  BY <1>1, <1>3 DEF ReceiverInv, ReceiverType
<1>7. g \notin Unused'
  <2>1. PICK a \in Address : TRUE
    BY <1>1
  <2> QED
    BY <1>3, <1>4, <2>1 DEF Unused
<1>8. \A h \in Server \ {g} : h \in Unused' <=> h \in Unused
  BY <1>4 DEF Unused
<1>9. \A h \in Server \ {g} : Quiet(h)' <=> Quiet(h)
  BY <1>3, <1>4 DEF Quiet, Working
<1>10. 0 \notin Server
  BY ReceiverAssumption DEF Server
<1>11. \A h \in reportedBy' : h # g /\ h \in Server
  BY <1>3, <1>5 DEF ReceiverInv, ReceiverType
<1>12. \A h \in closed' : h # g /\ h \in Server
  BY <1>3, <1>5 DEF ReceiverInv, ReceiverType
<1>13. \A h \in reportedBy' : \E a \in Address : acceptor'[h][a] = "failed"
  BY <1>3, <1>4, <1>11 DEF ReceiverInv, ServersInv
<1>14. \A h \in closed' \ gaveUp' : h # stopping' => Quiet(h)'
  BY <1>3, <1>9, <1>12 DEF ReceiverInv, ServersInv
<1>15. \A h \in Server, a \in Address :
         /\ acceptor'[h][a] = "gone" => h \in closed'
         /\ acceptor'[h][a] = "failed" => h \in reportedBy'
  BY <1>3, <1>4 DEF ReceiverInv, ServersInv
<1>16. \A h \in Server : h \in closed' \cup reportedBy' \cup {srv', stopping'} => h \notin Unused'
  BY <1>3, <1>7, <1>8, <1>10 DEF ReceiverInv, ServersInv
<1> QED
  BY <1>3, <1>4, <1>5, <1>6, <1>13, <1>14, <1>15, <1>16 DEF ServersInv

\* An acceptor that ends does so because its server was closed, or reports.
LEMMA AcceptorKeeps ==
  ASSUME ReceiverInv, NEW g \in Server, NEW a \in Address,
         Serve(g, a) \/ ServeReturns(g, a)
  PROVE  ReceiverType' /\ ServersInv'
<1>1. PICK place \in {"serving", "gone", "failed"} :
        /\ acceptor' = [acceptor EXCEPT ![g][a] = place]
        /\ acceptor[g][a] \in {"born", "serving"}
        /\ place = "gone" => g \in closed
        /\ place = "failed" => g \in reportedBy'
        /\ reportedBy' \in {reportedBy, reportedBy \cup {g}}
        /\ g \in reportedBy' \ reportedBy => place = "failed"
        /\ UNCHANGED <<srv, maxQueue, closed, stopping, handler, ingested, gaveUp>>
  <2>1. CASE Serve(g, a)
    <3>1. CASE g \in closed
      BY <2>1, <3>1 DEF Serve, AcceptorGoes
    <3>2. CASE g \notin closed
      BY <2>1, <3>2 DEF Serve, AcceptorGoes
    <3> QED
      BY <3>1, <3>2
  <2>2. CASE ServeReturns(g, a)
    <3>1. CASE g \in closed
      BY <2>2, <3>1 DEF ServeReturns, AcceptorGoes, Tells
    <3>2. CASE g \notin closed
      BY <2>2, <3>2 DEF ServeReturns, AcceptorGoes, Tells
    <3> QED
      BY <3>1, <3>2
  <2> QED
    BY <2>1, <2>2
<1>2. /\ acceptor' \in [Server -> [Address -> {"none", "born", "unbound", "serving", "failed", "gone"}]]
      /\ acceptor'[g][a] = place
      /\ \A h \in Server, b \in Address : h # g \/ b # a => acceptor'[h][b] = acceptor[h][b]
  BY <1>1 DEF ReceiverInv, ReceiverType
<1>3. ReceiverType'
  BY <1>1, <1>2 DEF ReceiverInv, ReceiverType
<1>4. \A h \in Server : h \in Unused' => h \in Unused
  BY <1>1, <1>2 DEF Unused
<1>5. g \notin Unused'
  BY <1>1, <1>2 DEF Unused
<1>6. ~Quiet(g)
  BY <1>1 DEF Quiet
<1>7. \A h \in Server \ {g} : Quiet(h)' <=> Quiet(h)
  BY <1>1, <1>2 DEF Quiet, Working
<1>8. \A h \in closed' \ gaveUp' : h # stopping' => Quiet(h)'
  BY <1>1, <1>6, <1>7 DEF ReceiverInv, ServersInv, ReceiverType
<1>9. \A h \in reportedBy' : \E b \in Address : acceptor'[h][b] = "failed"
  <2>1. \A h \in reportedBy : \E b \in Address : acceptor'[h][b] = "failed"
    <3> SUFFICES ASSUME NEW h \in reportedBy
                 PROVE  \E b \in Address : acceptor'[h][b] = "failed"
      OBVIOUS
    <3>1. PICK b \in Address : acceptor[h][b] = "failed"
      BY DEF ReceiverInv, ServersInv
    <3>2. h # g \/ b # a
      BY <1>1, <3>1
    <3> QED
      BY <1>2, <3>1, <3>2 DEF ReceiverInv, ReceiverType
  <2> QED
    BY <1>1, <1>2, <2>1
<1>10. \A h \in Server, b \in Address :
         /\ acceptor'[h][b] = "gone" => h \in closed'
         /\ acceptor'[h][b] = "failed" => h \in reportedBy'
  BY <1>1, <1>2 DEF ReceiverInv, ServersInv
<1>11. srv' # 0 => \A b \in Address : acceptor'[srv'][b] # "none"
  BY <1>1, <1>2 DEF ReceiverInv, ServersInv, ReceiverType
<1>12. \A h \in Server : h \in closed' \cup reportedBy' \cup {srv', stopping'} => h \notin Unused'
  BY <1>1, <1>4, <1>5 DEF ReceiverInv, ServersInv
<1>13. srv' # 0 => stopping' = 0 /\ srv' \notin closed'
  BY <1>1 DEF ReceiverInv, ServersInv
<1> QED
  BY <1>3, <1>8, <1>9, <1>10, <1>11, <1>12, <1>13 DEF ServersInv

\* Of the servers, a handler's steps change what is quiet only.
LEMMA ServersSame ==
  ASSUME ReceiverInv, UNCHANGED <<srv, acceptor, closed, stopping, reportedBy, gaveUp>>,
         \A g \in closed \ gaveUp : g # stopping /\ Quiet(g) => Quiet(g)'
  PROVE  ServersInv'
<1>1. Unused' = Unused
  BY DEF Unused
<1> QED
  BY <1>1 DEF ReceiverInv, ServersInv

LEMMA ShutDownKeeps ==
  ASSUME ReceiverInv, StopReceiver \/ ShutDown \/ StopReceiverReturns \/ ReconfigureReceiver
  PROVE  ReceiverType' /\ ServersInv'
<1>0. UNCHANGED <<acceptor, reportedBy, handler, ingested>> /\ 0 \notin Server
  BY ReceiverAssumption DEF StopReceiver, ShutDown, StopReceiverReturns, ReconfigureReceiver, Server
<1>1. Unused' = Unused /\ \A g \in Server : Quiet(g)' <=> Quiet(g)
  BY <1>0 DEF Unused, Quiet, Working
<1>2. CASE StopReceiver
  BY <1>0, <1>1, <1>2 DEF StopReceiver, ReceiverInv, ReceiverType, ServersInv
<1>3. CASE ShutDown
  BY <1>0, <1>1, <1>3 DEF ShutDown, ReceiverInv, ReceiverType, ServersInv
<1>4. CASE StopReceiverReturns
  <2>1. /\ stopping \in closed /\ stopping' = 0 /\ UNCHANGED <<srv, maxQueue, closed>>
        /\ gaveUp' \in {gaveUp, gaveUp \cup {stopping}}
        /\ Quiet(stopping) \/ stopping \in gaveUp'
    BY <1>4 DEF StopReceiverReturns
  <2>2. ReceiverType'
    BY <1>0, <2>1 DEF ReceiverInv, ReceiverType
  <2>3. \A g \in closed' \ gaveUp' : g # stopping' => Quiet(g)'
    BY <1>1, <2>1 DEF ReceiverInv, ReceiverType, ServersInv
  <2> QED
    BY <1>0, <1>1, <2>1, <2>2, <2>3 DEF ReceiverInv, ServersInv
<1>5. CASE ReconfigureReceiver
  BY <1>0, <1>1, <1>5 DEF ReconfigureReceiver, ReceiverInv, ReceiverType, ServersInv
<1> QED
  BY <1>2, <1>3, <1>4, <1>5

LEMMA HandlerMoves ==
  ASSUME ReceiverInv, NEW r \in Request, NEW place \in HandlerPlaces \ {"absent", "gone"},
         handler[r].at \notin {"absent", "gone"}, HandlerGoes(r, place),
         ingested' \subseteq Request,
         UNCHANGED <<srv, maxQueue, acceptor, closed, stopping, reportedBy, gaveUp>>
  PROVE  /\ ReceiverType' /\ ServersInv'
         /\ handler'[r].at = place /\ handler'[r].bound = handler[r].bound
         /\ \A s \in Request \ {r} : handler'[s] = handler[s]
<1>1. /\ handler' \in [Request -> [at : HandlerPlaces, server : Nat, bound : Nat]]
      /\ handler'[r].at = place /\ handler'[r].bound = handler[r].bound
      /\ handler'[r].server = handler[r].server
      /\ \A s \in Request \ {r} : handler'[s] = handler[s]
  BY DEF ReceiverInv, ReceiverType, HandlerGoes
<1>2. ReceiverType'
  BY <1>1 DEF ReceiverInv, ReceiverType
<1>3. \A g \in Server : Working(g)' = Working(g)
  BY <1>1 DEF Working
<1>4. \A g \in Server : Quiet(g) => Quiet(g)'
  BY <1>3 DEF Quiet
<1>5. ServersInv'
  BY <1>4, ServersSame DEF ReceiverInv, ReceiverType
<1> QED
  BY <1>1, <1>2, <1>5

\* What lets no body in keeps the bound.
LEMMA BodiesKept ==
  ASSUME ReceiverInv, Holding' \subseteq Holding,
         \A s \in Holding' : handler'[s].bound = handler[s].bound
  PROVE  BodiesInv'
<1> SUFFICES ASSUME NEW S \in SUBSET Holding', S # {}
             PROVE  \E s \in S : Cardinality(S) <= handler'[s].bound
  BY DEF BodiesInv
<1>1. PICK s \in S : Cardinality(S) <= handler[s].bound
  BY DEF ReceiverInv, BodiesInv
<1> QED
  BY <1>1

LEMMA HandleKeeps ==
  ASSUME ReceiverInv, NEW r \in Request, Handle(r)
  PROVE  ReceiverInv'
<1>1. PICK g \in Server, a \in Address :
        /\ acceptor[g][a] = "serving" /\ handler[r].at = "absent"
        /\ handler' = [handler EXCEPT ![r] = [at |-> "handled", server |-> g, bound |-> maxQueue]]
  BY DEF Handle, HandlerAt
<1>2. /\ UNCHANGED <<srv, maxQueue, acceptor, closed, stopping, reportedBy, inflight, acceptedTotal, ingested, gaveUp>>
      /\ maxQueue \in Nat /\ g \in Nat
  BY ReceiverAssumption DEF Handle, ReceiverInv, ReceiverType, Server
<1>3. /\ handler' \in [Request -> [at : HandlerPlaces, server : Nat, bound : Nat]]
      /\ handler'[r].at = "handled" /\ handler'[r].server = g
      /\ \A s \in Request \ {r} : handler'[s] = handler[s]
  BY <1>1, <1>2 DEF ReceiverInv, ReceiverType, HandlerPlaces
<1>4. ReceiverType'
  BY <1>2, <1>3 DEF ReceiverInv, ReceiverType
<1>5. \A h \in Server : Quiet(h) => Quiet(h)'
  <2> SUFFICES ASSUME NEW h \in Server, Quiet(h)
               PROVE  Quiet(h)'
    OBVIOUS
  <2>1. h # g
    BY <1>1 DEF Quiet
  <2>2. Working(h)' = Working(h)
    BY <1>1, <1>3, <2>1 DEF Working
  <2> QED
    BY <1>2, <2>2 DEF Quiet
<1>6. ServersInv'
  BY <1>2, <1>5, ServersSame DEF ReceiverInv, ReceiverType
<1>7. Busy' = Busy /\ Accepted' = Accepted /\ Holding' = Holding
  <2>1. Busy' = Busy /\ Holding' = Holding
    BY <1>1, <1>3 DEF Busy, Holding
  <2>2. Accepted' = Accepted
    BY <1>1, <1>2, <1>3 DEF Accepted, ReceiverInv, ReceiverType
  <2> QED
    BY <2>1, <2>2
<1>8. CountsInv'
  BY <1>1, <1>2, <1>3, <1>7 DEF ReceiverInv, CountsInv
<1>9. BodiesInv'
  <2>1. \A s \in Holding' : handler'[s].bound = handler[s].bound
    BY <1>1, <1>3, <1>7 DEF Holding
  <2> QED
    BY <1>7, <2>1, BodiesKept
<1> QED
  BY <1>4, <1>6, <1>8, <1>9 DEF ReceiverInv

LEMMA CountInKeeps ==
  ASSUME ReceiverInv, NEW r \in Request, CountIn(r)
  PROVE  ReceiverInv'
<1>1. PICK place \in {"refused", "reading"} :
        /\ HandlerGoes(r, place) /\ handler[r].at = "handled" /\ inflight' = inflight + 1
        /\ place = "reading" => ~(inflight' > handler[r].bound)
        /\ UNCHANGED <<srv, maxQueue, acceptor, closed, stopping, reportedBy, acceptedTotal, ingested, gaveUp>>
  <2>1. CASE inflight' > handler[r].bound
    BY <2>1 DEF CountIn, HandlerAt, OverQueue
  <2>2. CASE ~(inflight' > handler[r].bound)
    BY <2>2 DEF CountIn, HandlerAt, OverQueue
  <2> QED
    BY <2>1, <2>2
<1>2. /\ ReceiverType' /\ ServersInv'
      /\ handler'[r].at = place /\ handler'[r].bound = handler[r].bound
      /\ \A s \in Request \ {r} : handler'[s] = handler[s]
  <2>1. ingested' \subseteq Request
    BY <1>1 DEF ReceiverInv, ReceiverType
  <2> QED
    BY <1>1, <2>1, HandlerMoves DEF HandlerPlaces
<1>3. Busy' = Busy \cup {r} /\ r \notin Busy
  BY <1>1, <1>2 DEF Busy
<1>4. Cardinality(Busy') = Cardinality(Busy) + 1 /\ Cardinality(Busy) \in Nat
  BY <1>3, FS_AddElement, RequestsFinite DEF ReceiverInv
<1>5. Accepted' = Accepted
  BY <1>1, <1>2 DEF Accepted, ReceiverInv, CountsInv, ReceiverType
<1>6. CountsInv'
  BY <1>1, <1>2, <1>4, <1>5 DEF ReceiverInv, CountsInv
<1>7. BodiesInv'
  <2>1. CASE place = "refused"
    <3>1. Holding' = Holding /\ r \notin Holding
      BY <1>1, <1>2, <2>1 DEF Holding
    <3>2. \A s \in Holding' : handler'[s].bound = handler[s].bound
      BY <1>2, <3>1 DEF Holding
    <3> QED
      BY <3>1, <3>2, BodiesKept
  <2>2. CASE place = "reading"
    <3> SUFFICES ASSUME NEW S \in SUBSET Holding', S # {}
                 PROVE  \E s \in S : Cardinality(S) <= handler'[s].bound
      BY DEF BodiesInv
    <3>1. CASE r \in S
      <4>1. S \subseteq Busy' /\ IsFiniteSet(Busy')
        <5>1. S \subseteq Busy'
          BY DEF Holding, Busy
        <5> QED
          BY <1>3, <5>1, RequestsFinite, FS_AddElement DEF ReceiverInv
      <4>2. Cardinality(S) <= Cardinality(Busy') /\ Cardinality(S) \in Nat
        BY <4>1, FS_Subset, FS_CardinalityType
      <4>3. inflight' = Cardinality(Busy') /\ handler[r].bound \in Nat
        BY <1>6 DEF ReceiverInv, ReceiverType, CountsInv
      <4>4. Cardinality(S) <= handler'[r].bound
        BY <1>1, <1>2, <1>4, <2>2, <4>2, <4>3
      <4> QED
        BY <3>1, <4>4
    <3>2. CASE r \notin S
      <4>1. S \in SUBSET Holding
        BY <1>2, <3>2 DEF Holding
      <4>2. PICK s \in S : Cardinality(S) <= handler[s].bound
        BY <4>1 DEF ReceiverInv, BodiesInv
      <4>3. s \in Request \ {r}
        BY <3>2, <4>1 DEF Holding
      <4> QED
        BY <1>2, <4>2, <4>3
    <3> QED
      BY <3>1, <3>2
  <2> QED
    BY <2>1, <2>2
<1> QED
  BY <1>2, <1>6, <1>7 DEF ReceiverInv

LEMMA BodyKeeps ==
  ASSUME ReceiverInv, NEW r \in Request, NothingToTake(r) \/ Ingest(r) \/ CountAccepted(r)
  PROVE  ReceiverInv'
<1>1. PICK place \in {"taken", "read"} :
        /\ HandlerGoes(r, place) /\ handler[r].at \in {"reading", "taken"}
        /\ UNCHANGED <<srv, maxQueue, acceptor, closed, stopping, reportedBy, inflight, gaveUp>>
        /\ ingested' = IF place = "taken" THEN ingested \cup {r} ELSE ingested
        /\ place = "taken" => handler[r].at = "reading"
        /\ acceptedTotal' = IF handler[r].at = "taken" THEN acceptedTotal + 1 ELSE acceptedTotal
  <2>1. CASE NothingToTake(r)
    BY <2>1 DEF NothingToTake, HandlerAt
  <2>2. CASE Ingest(r)
    BY <2>2 DEF Ingest, HandlerAt
  <2>3. CASE CountAccepted(r)
    BY <2>3 DEF CountAccepted, HandlerAt
  <2> QED
    BY <2>1, <2>2, <2>3
<1>2. /\ ReceiverType' /\ ServersInv'
      /\ handler'[r].at = place /\ handler'[r].bound = handler[r].bound
      /\ \A s \in Request \ {r} : handler'[s] = handler[s]
  <2>1. ingested' \subseteq Request
    BY <1>1 DEF ReceiverInv, ReceiverType
  <2> QED
    BY <1>1, <2>1, HandlerMoves DEF HandlerPlaces
<1>3. Busy' = Busy /\ Holding' = Holding
  BY <1>1, <1>2 DEF Busy, Holding
<1>4. Accepted' = IF handler[r].at = "taken" THEN Accepted \cup {r} ELSE Accepted
  <2>1. CASE handler[r].at = "taken"
    BY <1>1, <1>2, <2>1 DEF Accepted, ReceiverInv, ReceiverType, CountsInv
  <2>2. CASE handler[r].at = "reading"
    BY <1>1, <1>2, <2>2 DEF Accepted, ReceiverInv, ReceiverType, CountsInv
  <2> QED
    BY <1>1, <2>1, <2>2
<1>5. acceptedTotal' = Cardinality(Accepted')
  <2>1. CASE handler[r].at = "taken"
    <3>1. r \notin Accepted /\ IsFiniteSet(Accepted)
      BY <2>1, RequestsFinite DEF Accepted, ReceiverInv
    <3>2. Cardinality(Accepted \cup {r}) = Cardinality(Accepted) + 1
      BY <3>1, FS_AddElement
    <3> QED
      BY <1>1, <1>4, <2>1, <3>2 DEF ReceiverInv, CountsInv
  <2>2. CASE handler[r].at # "taken"
    BY <1>1, <1>4, <2>2 DEF ReceiverInv, CountsInv
  <2> QED
    BY <2>1, <2>2
<1>6. CountsInv'
  <2>1. inflight' = Cardinality(Busy')
    BY <1>1, <1>3 DEF ReceiverInv, CountsInv
  <2>2. \A s \in Request :
          /\ handler'[s].at \in {"absent", "handled", "refused", "reading"} => s \notin ingested'
          /\ handler'[s].at = "taken" => s \in ingested'
    BY <1>1, <1>2 DEF ReceiverInv, CountsInv
  <2> QED
    BY <1>5, <2>1, <2>2 DEF CountsInv
<1>7. BodiesInv'
  <2>1. \A s \in Holding' : handler'[s].bound = handler[s].bound
    BY <1>2, <1>3 DEF Holding
  <2> QED
    BY <1>3, <2>1, BodiesKept
<1> QED
  BY <1>2, <1>6, <1>7 DEF ReceiverInv

LEMMA CountOutKeeps ==
  ASSUME ReceiverInv, NEW r \in Request, CountOut(r)
  PROVE  ReceiverInv'
<1>1. /\ handler[r].at \in {"refused", "read"} /\ inflight' = inflight - 1
      /\ handler' = [handler EXCEPT ![r] = [at |-> "gone", server |-> 0, bound |-> 0]]
      /\ UNCHANGED <<srv, maxQueue, acceptor, closed, stopping, reportedBy, acceptedTotal, ingested, gaveUp>>
  <2>1. [NoHandler EXCEPT !.at = "gone"] = [at |-> "gone", server |-> 0, bound |-> 0]
    BY DEF NoHandler
  <2> QED
    BY <2>1 DEF CountOut
<1>2. /\ handler' \in [Request -> [at : HandlerPlaces, server : Nat, bound : Nat]]
      /\ handler'[r].at = "gone"
      /\ \A s \in Request \ {r} : handler'[s] = handler[s]
  BY <1>1 DEF ReceiverInv, ReceiverType, HandlerPlaces
<1>3. ReceiverType'
  BY <1>1, <1>2 DEF ReceiverInv, ReceiverType
<1>4. \A g \in Server : Quiet(g) => Quiet(g)'
  BY <1>1, <1>2 DEF Quiet, Working
<1>5. ServersInv'
  BY <1>1, <1>4, ServersSame DEF ReceiverInv, ReceiverType
<1>6. Busy' = Busy \ {r} /\ r \in Busy /\ Holding' = Holding \ {r}
  BY <1>1, <1>2 DEF Busy, Holding
<1>7. Cardinality(Busy') = Cardinality(Busy) - 1
  BY <1>6, FS_RemoveElement, RequestsFinite DEF ReceiverInv
<1>8. Accepted' = Accepted
  BY <1>1, <1>2 DEF Accepted, ReceiverInv, ReceiverType
<1>9. CountsInv'
  BY <1>1, <1>2, <1>7, <1>8 DEF ReceiverInv, CountsInv
<1>10. BodiesInv'
  <2>1. \A s \in Holding' : handler'[s].bound = handler[s].bound
    BY <1>2, <1>6 DEF Holding
  <2> QED
    BY <1>6, <2>1, BodiesKept
<1> QED
  BY <1>3, <1>5, <1>9, <1>10 DEF ReceiverInv

LEMMA ReceiverNextKeeps == ReceiverInv /\ [ReceiverNext]_receiverVars => ReceiverInv'
<1> SUFFICES ASSUME ReceiverInv, [ReceiverNext]_receiverVars
             PROVE  ReceiverInv'
  OBVIOUS
<1>1. CASE StartReceiver
  <2>1. HandlersSame
    BY <1>1 DEF StartReceiver, HandlersSame
  <2> QED
    BY <1>1, <2>1, ReceiverStarts, HandlersKept DEF ReceiverInv
<1>2. CASE StopReceiver \/ ShutDown \/ StopReceiverReturns \/ ReconfigureReceiver
  <2>1. HandlersSame
    BY <1>2 DEF StopReceiver, ShutDown, StopReceiverReturns, ReconfigureReceiver, HandlersSame
  <2> QED
    BY <1>2, <2>1, ShutDownKeeps, HandlersKept DEF ReceiverInv
<1>3. ASSUME NEW g \in Server, NEW a \in Address, Serve(g, a) \/ ServeReturns(g, a)
      PROVE  ReceiverInv'
  <2>1. HandlersSame
    BY <1>3 DEF Serve, ServeReturns, HandlersSame
  <2> QED
    BY <1>3, <2>1, AcceptorKeeps, HandlersKept DEF ReceiverInv
<1>4. ASSUME NEW r \in Request,
             \/ Handle(r) \/ CountIn(r) \/ NothingToTake(r)
             \/ Ingest(r) \/ CountAccepted(r) \/ CountOut(r)
      PROVE  ReceiverInv'
  BY <1>4, HandleKeeps, CountInKeeps, BodyKeeps, CountOutKeeps
<1>5. CASE UNCHANGED receiverVars
  <2>1. ReceiverType'
    BY <1>5 DEF receiverVars, ReceiverInv, ReceiverType
  <2>2. \A g \in Server : Quiet(g) => Quiet(g)'
    BY <1>5 DEF receiverVars, Quiet, Working
  <2>3. ServersInv'
    BY <1>5, <2>2, ServersSame DEF receiverVars, ReceiverInv, ReceiverType
  <2> QED
    BY <1>5, <2>1, <2>3, HandlersKept DEF receiverVars, HandlersSame, ReceiverInv
<1> QED
  BY <1>1, <1>2, <1>3, <1>4, <1>5 DEF ReceiverNext

LEMMA ReceiverInitInv == ReceiverInit => ReceiverInv
<1> SUFFICES ASSUME ReceiverInit PROVE ReceiverInv
  OBVIOUS
<1>1. ReceiverType
  BY DEF ReceiverInit, ReceiverType, NoHandler, HandlerPlaces
<1>2. Busy = {} /\ Accepted = {} /\ Holding = {} /\ 0 \notin Server
  BY DEF ReceiverInit, Busy, Accepted, Holding, NoHandler, Server
<1>3. ServersInv
  BY <1>2 DEF ReceiverInit, ServersInv
<1>4. CountsInv
  BY <1>2, FS_EmptySet DEF ReceiverInit, CountsInv, NoHandler
<1> QED
  BY <1>1, <1>2, <1>3, <1>4 DEF ReceiverInv, BodiesInv

LEMMA BoundsHold == ASSUME ReceiverInv PROVE BodiesAreBounded
<1> SUFFICES ASSUME Holding # {}
             PROVE  Cardinality(Holding) <= Max({handler[r].bound : r \in Holding})
  BY DEF BodiesAreBounded
<1> DEFINE bounds == {handler[r].bound : r \in Holding}
<1>1. PICK r \in Holding : Cardinality(Holding) <= handler[r].bound
  BY DEF ReceiverInv, BodiesInv
<1>2. IsFiniteSet(Holding) /\ Cardinality(Holding) \in Nat /\ Holding \subseteq Request
  BY RequestsFinite, FS_Subset DEF ReceiverInv, Holding
<1>3. IsFiniteSet(bounds)
  <2> DEFINE f == [s \in Holding |-> handler[s].bound]
  <2>1. f \in Surjection(Holding, bounds)
    BY DEF Surjection
  <2> QED
    BY <1>2, <2>1, FS_Surjection, Zenon DEF ExistsSurjection
<1>4. bounds \subseteq Nat /\ handler[r].bound \in bounds
  BY <1>2 DEF ReceiverInv, ReceiverType
<1> HIDE DEF bounds
<1>5. \E x \in bounds : \A y \in bounds : y <= x
  BY <1>3, <1>4, GreatestIn
<1>6. Max(bounds) \in bounds /\ \A y \in bounds : y <= Max(bounds)
  <2>1. Max(bounds) = CHOOSE x \in bounds : \A y \in bounds : x >= y
    BY DEF Max
  <2>2. \E x \in bounds : \A y \in bounds : x >= y
    BY <1>4, <1>5
  <2>3. Max(bounds) \in bounds /\ \A y \in bounds : Max(bounds) >= y
    BY <2>1, <2>2, Zenon
  <2> QED
    BY <1>4, <2>3
<1>7. Cardinality(Holding) <= Max(bounds)
  <2>1. handler[r].bound \in Nat /\ handler[r].bound <= Max(bounds) /\ Max(bounds) \in Nat
    BY <1>4, <1>6
  <2> QED
    BY <1>1, <1>2, <2>1
<1> QED
  BY <1>7 DEF bounds

LEMMA ReceiverTrue == ASSUME ReceiverInv PROVE RequestsAreAnswered
<1>1. ServesOrTells
  BY DEF ReceiverInv, ReceiverType, ServersInv, ServesOrTells
<1>2. RequestsAreCounted
  BY DEF ReceiverInv, CountsInv, RequestsAreCounted, Busy, Accepted
<1> QED
  BY <1>1, <1>2, BoundsHold DEF RequestsAreAnswered

\* RequestsAreAnswered: for any addresses, bounds, servers and requests, no more bodies are in
\* memory than the highest bound one of them found, a started receiver serves or has told, a
\* Stop that did not give up leaves nothing, and what is counted is what was done.
THEOREM ReceiverAnswers == ReceiverInit /\ [][ReceiverNext]_receiverVars => []RequestsAreAnswered
BY ReceiverTrue, ReceiverInitInv, ReceiverNextKeeps, PTL

-----------------------------------------------------------------------------
(* StatsD. *)

Places == {"unborn", "born", "top", "reading", "holding", "gone"}
Packets == {<<>>} \cup UNION {Buffered(d) : d \in Datagrams}
Reader == [at : Places, conn : 0 .. MaxListens, done : 0 .. MaxListens, datagram : Packets]

StatsdType ==
  /\ statsd \in [started : BOOLEAN, conn : 0 .. MaxListens, done : 0 .. MaxListens,
                 stop : {"no", "cancelled", "waiting"}]
  /\ reader \in [Listens -> Reader]
  /\ taken \in Seq(Packets) /\ readErrors \in Nat
  /\ counted \in [accepted : Nat, dropped : Nat]

\* While every Stop outwaited its goroutine: the one that is alive is the one last launched,
\* on its own socket and with its own channel, and a Start or a Stop still stands for it.
OwnReader(g) ==
  reader[g].at \notin {"unborn", "gone"} =>
    /\ statsd.conn = g /\ statsd.done = g /\ (statsd.started \/ statsd.stop # "no")
    /\ reader[g].at # "born" => reader[g].conn = g /\ reader[g].done = g

ReadersInv ==
  /\ ~panicked
  /\ \A g \in Listens : OwnReader(g) /\ (g \in closedDones => reader[g].at = "gone")
  /\ 0 \in closedDones
  /\ openConns \subseteq IF statsd.started \/ statsd.stop = "cancelled" THEN {statsd.conn} ELSE {}
  /\ statsd.started => statsd.stop = "no"

GoodOnes == {i \in 1 .. Len(taken) : Parsed(taken[i]) # <<>>}

StatsdInv ==
  /\ StatsdType
  /\ ~overdue => ReadersInv
  /\ IsFiniteSet(GoodOnes) /\ counted.accepted = Cardinality(GoodOnes)
  /\ counted.accepted <= Len(taken) /\ counted.dropped = Len(taken) - counted.accepted + readErrors

LEMMA StatsdBegins == StatsdInit => StatsdInv
<1> SUFFICES ASSUME StatsdInit PROVE StatsdInv
  OBVIOUS
<1>1. StatsdType
  <2>1. statsd \in [started : BOOLEAN, conn : 0 .. MaxListens, done : 0 .. MaxListens,
                    stop : {"no", "cancelled", "waiting"}]
    BY StatsdAssumption DEF StatsdInit
  <2>2. NotBorn \in Reader
    BY StatsdAssumption DEF NotBorn, Reader, Places, Packets
  <2>3. reader \in [Listens -> Reader]
    BY <2>2 DEF StatsdInit
  <2>4. taken \in Seq(Packets) /\ readErrors \in Nat /\ counted \in [accepted : Nat, dropped : Nat]
    BY DEF StatsdInit
  <2> QED
    BY <2>1, <2>3, <2>4 DEF StatsdType
<1>2. ReadersInv
  BY DEF StatsdInit, ReadersInv, OwnReader, NotBorn, Listens
<1>3. GoodOnes = {} /\ Len(taken) = 0
  BY DEF StatsdInit, GoodOnes
<1>4. IsFiniteSet(GoodOnes) /\ Cardinality(GoodOnes) = 0
  BY <1>3, FS_EmptySet
<1> QED
  BY <1>1, <1>2, <1>3, <1>4 DEF StatsdInv, StatsdInit

\* The records of a step that moves one goroutine.
LEMMA ReaderTyped ==
  ASSUME StatsdType, NEW g \in Listens, NEW r \in Reader, reader' = [reader EXCEPT ![g] = r]
  PROVE  reader' \in [Listens -> Reader] /\ \A f \in Listens : reader'[f] = IF f = g THEN r ELSE reader[f]
BY DEF StatsdType

LEMMA GoesTyped ==
  ASSUME StatsdType, NEW g \in Listens, NEW place \in Places, ReaderGoes(g, place)
  PROVE  /\ reader' \in [Listens -> Reader]
         /\ \A f \in Listens : f # g => reader'[f] = reader[f]
         /\ reader'[g].at = place /\ reader'[g].conn = reader[g].conn /\ reader'[g].done = reader[g].done
<1> DEFINE q == reader[g]
           r == [q EXCEPT !.at = place]
<1>1. q \in Reader
  BY DEF StatsdType
<1>2. reader' = [reader EXCEPT ![g] = r]
  BY DEF ReaderGoes
<1> HIDE DEF q
<1>3. r \in Reader /\ r.at = place /\ r.conn = q.conn /\ r.done = q.done
  BY <1>1 DEF Reader
<1> HIDE DEF r
<1>4. reader' \in [Listens -> Reader] /\ \A f \in Listens : reader'[f] = IF f = g THEN r ELSE reader[f]
  BY <1>2, <1>3, ReaderTyped
<1> QED
  BY <1>3, <1>4 DEF q

\* What a step that takes no datagram has to show.
LEMMA NothingTaken ==
  ASSUME StatsdInv, StatsdType', ~overdue' => ReadersInv', UNCHANGED <<counted, taken, readErrors>>
  PROVE  StatsdInv'
<1>1. GoodOnes' = GoodOnes
  BY DEF GoodOnes
<1> QED
  BY <1>1 DEF StatsdInv

LEMMA ReaderLeft ==
  ASSUME StatsdInv, NEW g \in Listens, Left(g), reader[g].at \in {"top", "reading"}
  PROVE  StatsdInv'
<1>1. /\ ReaderGoes(g, "gone") /\ closedDones' = closedDones \cup {reader[g].done}
      /\ panicked' = (reader[g].done \in closedDones)
      /\ UNCHANGED <<statsd, openConns, overdue, counted, taken, readErrors>>
  BY DEF Left
<1>2. StatsdType
  BY DEF StatsdInv
<1>3. /\ reader' \in [Listens -> Reader] /\ \A f \in Listens : f # g => reader'[f] = reader[f]
      /\ reader'[g].at = "gone"
  BY <1>1, <1>2, GoesTyped DEF Places
<1>4. StatsdType'
  BY <1>1, <1>2, <1>3 DEF StatsdType
<1>5. ASSUME ~overdue PROVE ReadersInv'
  <2>1. ReadersInv
    BY <1>5 DEF StatsdInv
  <2>2. reader[g].done = g /\ g \notin closedDones
    BY <2>1 DEF ReadersInv, OwnReader
  <2>3. ~panicked'
    BY <1>1, <2>2
  <2>4. ASSUME NEW f \in Listens PROVE OwnReader(f)' /\ (f \in closedDones' => reader'[f].at = "gone")
    <3>1. CASE f = g
      BY <1>3, <3>1 DEF OwnReader
    <3>2. CASE f # g
      <4>1. reader'[f] = reader[f] /\ (f \in closedDones' <=> f \in closedDones) /\ statsd' = statsd
        BY <1>1, <1>3, <2>2, <3>2
      <4> QED
        BY <2>1, <4>1 DEF ReadersInv, OwnReader
    <3> QED
      BY <3>1, <3>2
  <2> QED
    BY <1>1, <2>1, <2>3, <2>4 DEF ReadersInv
<1> QED
  BY <1>1, <1>4, <1>5, NothingTaken

\* A goroutine that goes on from one place to another.
LEMMA ReaderMoved ==
  ASSUME StatsdInv, NEW g \in Listens, reader[g].at \in {"top", "reading", "holding"},
         reader' \in [Listens -> Reader], \A f \in Listens : f # g => reader'[f] = reader[f],
         reader'[g].at \in {"top", "reading", "holding"},
         reader'[g].conn = reader[g].conn, reader'[g].done = reader[g].done,
         UNCHANGED <<statsd, openConns, closedDones, panicked, overdue>>
  PROVE  ~overdue' => ReadersInv'
<1> SUFFICES ASSUME ~overdue PROVE ReadersInv'
  OBVIOUS
<1>1. ReadersInv
  BY DEF StatsdInv
<1>2. ASSUME NEW f \in Listens PROVE OwnReader(f)' /\ (f \in closedDones' => reader'[f].at = "gone")
  <2>1. CASE f = g
    BY <1>1, <2>1 DEF ReadersInv, OwnReader
  <2>2. CASE f # g
    <3>1. reader'[f] = reader[f] /\ statsd' = statsd /\ closedDones' = closedDones
      BY <2>2
    <3> QED
      BY <1>1, <3>1 DEF ReadersInv, OwnReader
  <2> QED
    BY <2>1, <2>2
<1> QED
  BY <1>1, <1>2 DEF ReadersInv

LEMMA PacketTaken ==
  ASSUME StatsdInv, NEW g \in Listens, ApplyPacket(g)
  PROVE  StatsdInv'
<1> DEFINE d == reader[g].datagram
           n == Len(taken)
           good == Parsed(d) # <<>>
<1>1. StatsdType /\ taken \in Seq(Packets) /\ n \in Nat /\ counted \in [accepted : Nat, dropped : Nat]
      /\ reader[g] \in Reader /\ readErrors \in Nat
  BY DEF StatsdInv, StatsdType
<1>2. d \in Packets
  BY <1>1 DEF Reader
<1>3. /\ taken' = Append(taken, d)
      /\ counted' = IF good THEN [counted EXCEPT !.accepted = @ + 1] ELSE [counted EXCEPT !.dropped = @ + 1]
      /\ reader[g].at = "holding"
      /\ UNCHANGED <<statsd, openConns, closedDones, panicked, overdue, readErrors>>
  BY DEF ApplyPacket, ReaderAt
<1>4. /\ reader' \in [Listens -> Reader] /\ \A f \in Listens : f # g => reader'[f] = reader[f]
      /\ reader'[g].at = "top" /\ reader'[g].conn = reader[g].conn /\ reader'[g].done = reader[g].done
  <2> DEFINE q == reader[g]
             r == [q EXCEPT !.at = "top", !.datagram = <<>>]
  <2>1. q \in Reader /\ reader' = [reader EXCEPT ![g] = r]
    BY <1>1 DEF ApplyPacket
  <2> HIDE DEF q
  <2>2. r \in Reader /\ r.at = "top" /\ r.conn = q.conn /\ r.done = q.done
    BY <2>1 DEF Reader, Places, Packets
  <2> HIDE DEF r
  <2>3. reader' \in [Listens -> Reader] /\ \A f \in Listens : reader'[f] = IF f = g THEN r ELSE reader[f]
    BY <1>1, <2>1, <2>2, ReaderTyped
  <2> QED
    BY <2>2, <2>3 DEF q
<1>5. ~overdue' => ReadersInv'
  BY <1>3, <1>4, ReaderMoved
<1>6. taken' \in Seq(Packets) /\ Len(taken') = n + 1 /\ taken'[n + 1] = d /\ \A i \in 1 .. n : taken'[i] = taken[i]
  BY <1>1, <1>2, <1>3
<1>7. GoodOnes' = IF good THEN GoodOnes \cup {n + 1} ELSE GoodOnes
  <2>1. \A i \in 1 .. n + 1 : i \in 1 .. n \/ i = n + 1
    BY <1>1
  <2>2. \A i \in 1 .. n : i \in 1 .. n + 1
    BY <1>1
  <2>3. n + 1 \in 1 .. n + 1 /\ n + 1 \notin 1 .. n
    BY <1>1
  <2> DEFINE N == 1 .. n
             M == 1 .. n + 1
             P(i) == Parsed(taken'[i]) # <<>>
  <2>4. GoodOnes' = {i \in M : P(i)} /\ GoodOnes = {i \in N : P(i)} /\ (P(n + 1) <=> good)
    BY <1>6 DEF GoodOnes
  <2>5. M = N \cup {n + 1}
    BY <2>1, <2>2, <2>3
  <2> HIDE DEF P, N, M, good
  <2> QED
    BY <2>4, <2>5
<1>8. n + 1 \notin GoodOnes /\ IsFiniteSet(GoodOnes) /\ Cardinality(GoodOnes) \in Nat
  BY <1>1, FS_CardinalityType DEF GoodOnes, StatsdInv
<1>9. IsFiniteSet(GoodOnes') /\ Cardinality(GoodOnes') = Cardinality(GoodOnes) + (IF good THEN 1 ELSE 0)
  <2> HIDE DEF good, n
  <2>1. IsFiniteSet(GoodOnes \cup {n + 1}) /\ Cardinality(GoodOnes \cup {n + 1}) = Cardinality(GoodOnes) + 1
    BY <1>8, FS_AddElement
  <2>2. CASE good
    BY <1>7, <2>1, <2>2
  <2>3. CASE ~good
    <3>1. Cardinality(GoodOnes') = Cardinality(GoodOnes) /\ IsFiniteSet(GoodOnes')
      BY <1>7, <1>8, <2>3
    <3>2. Cardinality(GoodOnes) = Cardinality(GoodOnes) + 0
      BY <1>8
    <3> QED
      BY <2>3, <3>1, <3>2
  <2> QED
    BY <2>2, <2>3
<1>10. counted' \in [accepted : Nat, dropped : Nat]
  BY <1>1, <1>3
<1>11. StatsdType'
  BY <1>1, <1>3, <1>4, <1>6, <1>10 DEF StatsdType
<1>12. /\ counted.accepted = Cardinality(GoodOnes) /\ counted.accepted <= n
       /\ counted.dropped = n - counted.accepted + readErrors
  BY DEF StatsdInv
<1>13. /\ counted'.accepted = counted.accepted + (IF good THEN 1 ELSE 0)
       /\ counted'.dropped = counted.dropped + (IF good THEN 0 ELSE 1)
  BY <1>1, <1>3
<1>14. /\ counted'.accepted = Cardinality(GoodOnes') /\ counted'.accepted <= Len(taken')
       /\ counted'.dropped = Len(taken') - counted'.accepted + readErrors'
  <2> HIDE DEF good, n
  <2>1. readErrors' = readErrors /\ Len(taken') = n + 1
    BY <1>3, <1>6
  <2>2. n \in Nat /\ counted.accepted \in Nat /\ readErrors \in Nat
    BY <1>1
  <2> QED
    BY <1>9, <1>12, <1>13, <2>1, <2>2
<1> QED
  BY <1>5, <1>9, <1>11, <1>14 DEF StatsdInv

LEMMA StatsdSteps == StatsdInv /\ [StatsdNext]_statsdVars => StatsdInv'
<1> SUFFICES ASSUME StatsdInv, [StatsdNext]_statsdVars PROVE StatsdInv'
  OBVIOUS
<1>1. /\ StatsdType /\ (~overdue => ReadersInv) /\ reader \in [Listens -> Reader]
      /\ statsd \in [started : BOOLEAN, conn : 0 .. MaxListens, done : 0 .. MaxListens,
                     stop : {"no", "cancelled", "waiting"}]
      /\ counted \in [accepted : Nat, dropped : Nat] /\ readErrors \in Nat
  BY DEF StatsdInv, StatsdType
<1>2. CASE StartDisabled
  <2>1. /\ statsd' = [statsd EXCEPT !.started = TRUE, !.done = 0] /\ ~statsd.started /\ statsd.stop = "no"
        /\ UNCHANGED <<openConns, closedDones, reader, panicked, overdue, counted, taken, readErrors>>
    BY <1>2 DEF StartDisabled, Calm
  <2>2. /\ statsd' \in [started : BOOLEAN, conn : 0 .. MaxListens, done : 0 .. MaxListens,
                        stop : {"no", "cancelled", "waiting"}]
        /\ statsd'.started /\ statsd'.stop = "no"
    <3>1. 0 \in 0 .. MaxListens
      BY StatsdAssumption
    <3> QED
      BY <1>1, <2>1, <3>1
  <2>3. StatsdType'
    BY <1>1, <2>1, <2>2 DEF StatsdType
  <2>4. ASSUME ~overdue PROVE ReadersInv'
    <3>1. ReadersInv /\ \A g \in Listens : reader[g].at \in {"unborn", "gone"}
      BY <1>1, <2>1, <2>4 DEF ReadersInv, OwnReader
    <3>2. \A g \in Listens : OwnReader(g)'
      BY <2>1, <3>1 DEF OwnReader
    <3> QED
      BY <2>1, <2>2, <3>1, <3>2 DEF ReadersInv
  <2> QED
    BY <2>1, <2>3, <2>4, NothingTaken
<1>3. CASE StopCancels
  <2>1. /\ statsd' = [statsd EXCEPT !.started = FALSE, !.stop = "cancelled"] /\ statsd.started
        /\ UNCHANGED <<openConns, closedDones, reader, panicked, overdue, counted, taken, readErrors>>
    BY <1>3 DEF StopCancels
  <2>2. /\ statsd' \in [started : BOOLEAN, conn : 0 .. MaxListens, done : 0 .. MaxListens,
                        stop : {"no", "cancelled", "waiting"}]
        /\ ~statsd'.started /\ statsd'.stop = "cancelled" /\ statsd'.conn = statsd.conn /\ statsd'.done = statsd.done
    BY <1>1, <2>1
  <2>3. StatsdType'
    BY <1>1, <2>1, <2>2 DEF StatsdType
  <2>4. ASSUME ~overdue PROVE ReadersInv'
    <3>1. \A g \in Listens : OwnReader(g)'
      BY <1>1, <2>1, <2>2, <2>4 DEF ReadersInv, OwnReader
    <3> QED
      BY <1>1, <2>1, <2>2, <2>4, <3>1 DEF ReadersInv
  <2> QED
    BY <2>1, <2>3, <2>4, NothingTaken
<1>4. CASE StopCloses
  <2>1. /\ statsd' = [statsd EXCEPT !.stop = "waiting"] /\ openConns' = openConns \ {statsd.conn}
        /\ statsd.stop = "cancelled"
        /\ UNCHANGED <<closedDones, reader, panicked, overdue, counted, taken, readErrors>>
    BY <1>4 DEF StopCloses, CloseConn
  <2>2. /\ statsd' \in [started : BOOLEAN, conn : 0 .. MaxListens, done : 0 .. MaxListens,
                        stop : {"no", "cancelled", "waiting"}]
        /\ statsd'.started = statsd.started /\ statsd'.stop = "waiting" /\ statsd'.conn = statsd.conn
        /\ statsd'.done = statsd.done
    BY <1>1, <2>1
  <2>3. StatsdType'
    BY <1>1, <2>1, <2>2 DEF StatsdType
  <2>4. ASSUME ~overdue PROVE ReadersInv'
    <3>1. \A g \in Listens : OwnReader(g)'
      BY <1>1, <2>1, <2>2, <2>4 DEF ReadersInv, OwnReader
    <3>2. ~statsd'.started /\ openConns' = {}
      BY <1>1, <2>1, <2>2, <2>4 DEF ReadersInv
    <3> QED
      BY <1>1, <2>1, <2>2, <2>4, <3>1, <3>2 DEF ReadersInv
  <2> QED
    BY <2>1, <2>3, <2>4, NothingTaken
<1>5. CASE StopEnds
  <2>1. /\ statsd' = [statsd EXCEPT !.stop = "no"] /\ overdue' = (overdue \/ statsd.done \notin closedDones)
        /\ statsd.stop = "waiting"
        /\ UNCHANGED <<openConns, closedDones, reader, panicked, counted, taken, readErrors>>
    BY <1>5 DEF StopEnds
  <2>2. /\ statsd' \in [started : BOOLEAN, conn : 0 .. MaxListens, done : 0 .. MaxListens,
                        stop : {"no", "cancelled", "waiting"}]
        /\ statsd'.started = statsd.started /\ statsd'.stop = "no"
    BY <1>1, <2>1
  <2>3. StatsdType'
    BY <1>1, <2>1, <2>2 DEF StatsdType
  <2>4. ASSUME ~overdue' PROVE ReadersInv'
    <3>1. ReadersInv /\ statsd.done \in closedDones
      BY <1>1, <2>1, <2>4
    <3>2. \A g \in Listens : reader[g].at \in {"unborn", "gone"}
      BY <3>1 DEF ReadersInv, OwnReader
    <3>3. \A g \in Listens : OwnReader(g)'
      BY <2>1, <3>2 DEF OwnReader
    <3>4. ~statsd'.started /\ openConns' = {}
      BY <2>1, <2>2, <3>1 DEF ReadersInv
    <3> QED
      BY <2>1, <2>2, <3>1, <3>3, <3>4 DEF ReadersInv
  <2> QED
    BY <2>1, <2>3, <2>4, NothingTaken
<1>6. ASSUME NEW g \in Listens, StartListening(g) PROVE StatsdInv'
  <2>1. /\ statsd' = [statsd EXCEPT !.started = TRUE, !.conn = g, !.done = g] /\ ~statsd.started /\ statsd.stop = "no"
        /\ openConns' = openConns \cup {g} /\ reader[g].at = "unborn" /\ ReaderGoes(g, "born")
        /\ UNCHANGED <<closedDones, panicked, overdue, counted, taken, readErrors>>
    BY <1>6 DEF StartListening, Calm
  <2>2. /\ statsd' \in [started : BOOLEAN, conn : 0 .. MaxListens, done : 0 .. MaxListens,
                        stop : {"no", "cancelled", "waiting"}]
        /\ statsd'.started /\ statsd'.stop = "no" /\ statsd'.conn = g /\ statsd'.done = g
    <3>1. g \in 0 .. MaxListens
      BY DEF Listens
    <3> QED
      BY <1>1, <2>1, <3>1
  <2>3. /\ reader' \in [Listens -> Reader] /\ (\A f \in Listens : f # g => reader'[f] = reader[f])
        /\ reader'[g].at = "born"
    BY <1>1, <2>1, GoesTyped DEF Places
  <2>4. StatsdType'
    BY <1>1, <2>1, <2>2, <2>3 DEF StatsdType
  <2>5. ASSUME ~overdue PROVE ReadersInv'
    <3>1. ReadersInv /\ openConns = {} /\ \A f \in Listens : reader[f].at \in {"unborn", "gone"}
      BY <1>1, <2>1, <2>5 DEF ReadersInv, OwnReader
    <3>2. ASSUME NEW f \in Listens PROVE OwnReader(f)' /\ (f \in closedDones' => reader'[f].at = "gone")
      <4>1. CASE f = g
        <5>1. g \notin closedDones
          BY <2>1, <3>1 DEF ReadersInv
        <5> QED
          BY <2>1, <2>2, <2>3, <4>1, <5>1 DEF OwnReader
      <4>2. CASE f # g
        <5>1. reader'[f] = reader[f] /\ reader[f].at \in {"unborn", "gone"}
          BY <2>3, <3>1, <4>2
        <5> QED
          BY <2>1, <3>1, <5>1 DEF OwnReader, ReadersInv
      <4> QED
        BY <4>1, <4>2
    <3> QED
      BY <2>1, <2>2, <3>1, <3>2 DEF ReadersInv
  <2> QED
    BY <2>1, <2>4, <2>5, NothingTaken
<1>7. ASSUME NEW g \in Listens, ReaderStarts(g) PROVE StatsdInv'
  <2> DEFINE q == reader[g]
             r == [q EXCEPT !.at = "top", !.conn = statsd.conn, !.done = statsd.done]
  <2>1. /\ q \in Reader /\ reader' = [reader EXCEPT ![g] = r] /\ q.at = "born"
        /\ UNCHANGED <<statsd, openConns, closedDones, panicked, overdue, counted, taken, readErrors>>
    BY <1>1, <1>7 DEF ReaderStarts, ReaderAt
  <2> HIDE DEF q
  <2>2. statsd.conn \in 0 .. MaxListens /\ statsd.done \in 0 .. MaxListens
    BY <1>1
  <2>3. r \in Reader /\ r.at = "top" /\ r.conn = statsd.conn /\ r.done = statsd.done
    BY <2>1, <2>2 DEF Reader, Places
  <2> HIDE DEF r
  <2>4. reader' \in [Listens -> Reader] /\ \A f \in Listens : reader'[f] = IF f = g THEN r ELSE reader[f]
    BY <1>1, <2>1, <2>3, ReaderTyped
  <2>5. StatsdType'
    BY <1>1, <2>1, <2>4 DEF StatsdType
  <2>6. ASSUME ~overdue PROVE ReadersInv'
    <3>1. ReadersInv /\ reader[g].at = "born"
      BY <1>1, <2>1, <2>6 DEF q
    <3>2. ASSUME NEW f \in Listens PROVE OwnReader(f)' /\ (f \in closedDones' => reader'[f].at = "gone")
      <4>1. CASE f = g
        BY <2>1, <2>3, <2>4, <3>1, <4>1 DEF OwnReader, ReadersInv
      <4>2. CASE f # g
        <5>1. reader'[f] = reader[f] /\ statsd' = statsd /\ closedDones' = closedDones
          BY <2>1, <2>4, <4>2
        <5> QED
          BY <3>1, <5>1 DEF OwnReader, ReadersInv
      <4> QED
        BY <4>1, <4>2
    <3> QED
      BY <2>1, <3>1, <3>2 DEF ReadersInv
  <2> QED
    BY <2>1, <2>5, <2>6, NothingTaken
<1>8. ASSUME NEW g \in Listens, ReaderLeaves(g) PROVE StatsdInv'
  BY <1>8, ReaderLeft DEF ReaderLeaves, ReaderAt
<1>9. ASSUME NEW g \in Listens, ReaderReads(g) \/ ReadTimesOut(g) PROVE StatsdInv'
  <2>1. PICK place \in {"top", "reading"} :
          /\ ReaderGoes(g, place) /\ reader[g].at \in {"top", "reading"}
          /\ UNCHANGED <<statsd, openConns, closedDones, panicked, overdue, counted, taken, readErrors>>
    BY <1>9 DEF ReaderReads, ReadTimesOut, ReaderAt
  <2>2. /\ reader' \in [Listens -> Reader] /\ (\A f \in Listens : f # g => reader'[f] = reader[f])
        /\ reader'[g].at = place /\ reader'[g].conn = reader[g].conn /\ reader'[g].done = reader[g].done
    BY <1>1, <2>1, GoesTyped DEF Places
  <2>3. StatsdType'
    BY <1>1, <2>1, <2>2 DEF StatsdType
  <2>4. ~overdue' => ReadersInv'
    BY <2>1, <2>2, ReaderMoved
  <2> QED
    BY <2>1, <2>3, <2>4, NothingTaken
<1>10. ASSUME NEW g \in Listens, ReadReturns(g) PROVE StatsdInv'
  <2>1. PICK d \in Packets : reader' = [reader EXCEPT ![g] = [@ EXCEPT !.at = "holding", !.datagram = d]]
    BY <1>10 DEF ReadReturns, Packets
  <2> DEFINE q == reader[g]
             r == [q EXCEPT !.at = "holding", !.datagram = d]
  <2>2. /\ q \in Reader /\ reader' = [reader EXCEPT ![g] = r] /\ q.at = "reading"
        /\ UNCHANGED <<statsd, openConns, closedDones, panicked, overdue, counted, taken, readErrors>>
    BY <1>1, <1>10, <2>1 DEF ReadReturns, ReaderAt
  <2> HIDE DEF q
  <2>4. r \in Reader /\ r.at = "holding" /\ r.conn = q.conn /\ r.done = q.done
    BY <2>2 DEF Reader, Places
  <2> HIDE DEF r
  <2>5. reader' \in [Listens -> Reader] /\ \A f \in Listens : reader'[f] = IF f = g THEN r ELSE reader[f]
    BY <1>1, <2>2, <2>4, ReaderTyped
  <2>6. StatsdType'
    BY <1>1, <2>2, <2>5 DEF StatsdType
  <2>7. reader'[g].at = "holding" /\ reader'[g].conn = reader[g].conn /\ reader'[g].done = reader[g].done
        /\ reader[g].at = "reading" /\ \A f \in Listens : f # g => reader'[f] = reader[f]
    BY <2>2, <2>4, <2>5 DEF q
  <2>8. ~overdue' => ReadersInv'
    BY <2>2, <2>5, <2>7, ReaderMoved
  <2> QED
    BY <2>2, <2>6, <2>8, NothingTaken
<1>11. ASSUME NEW g \in Listens, ReadFails(g) PROVE StatsdInv'
  <2>1. reader[g].at = "reading"
    BY <1>11 DEF ReadFails, ReaderAt
  <2>2. CASE Left(g)
    BY <2>1, <2>2, ReaderLeft
  <2>3. CASE ~Left(g)
    <3>1. /\ readErrors' = readErrors + 1 /\ counted' = [counted EXCEPT !.dropped = @ + 1] /\ ReaderGoes(g, "top")
          /\ UNCHANGED <<statsd, openConns, closedDones, panicked, overdue, taken>>
      BY <1>11, <2>3 DEF ReadFails
    <3>2. /\ reader' \in [Listens -> Reader] /\ (\A f \in Listens : f # g => reader'[f] = reader[f])
          /\ reader'[g].at = "top" /\ reader'[g].conn = reader[g].conn /\ reader'[g].done = reader[g].done
      BY <1>1, <3>1, GoesTyped DEF Places
    <3>3. counted' \in [accepted : Nat, dropped : Nat] /\ readErrors' \in Nat
          /\ counted'.accepted = counted.accepted /\ counted'.dropped = counted.dropped + 1
      BY <1>1, <3>1
    <3>4. StatsdType'
      BY <1>1, <3>1, <3>2, <3>3 DEF StatsdType
    <3>5. ~overdue' => ReadersInv'
      BY <2>1, <3>1, <3>2, ReaderMoved
    <3>6. GoodOnes' = GoodOnes /\ Len(taken') = Len(taken) /\ Len(taken) \in Nat
      BY <1>1, <3>1 DEF GoodOnes, StatsdType
    <3>7. /\ counted.accepted = Cardinality(GoodOnes) /\ counted.accepted <= Len(taken) /\ IsFiniteSet(GoodOnes)
          /\ counted.dropped = Len(taken) - counted.accepted + readErrors
      BY DEF StatsdInv
    <3>8. counted'.dropped = Len(taken') - counted'.accepted + readErrors'
      <4>1. counted.accepted \in Nat
        BY <1>1
      <4> QED
        BY <1>1, <3>1, <3>3, <3>6, <3>7, <4>1
    <3> QED
      BY <3>3, <3>4, <3>5, <3>6, <3>7, <3>8 DEF StatsdInv
  <2> QED
    BY <2>2, <2>3
<1>12. ASSUME NEW g \in Listens, ApplyPacket(g) PROVE StatsdInv'
  BY <1>12, PacketTaken
<1>13. CASE UNCHANGED statsdVars
  <2>1. StatsdType' /\ (~overdue' => ReadersInv') /\ UNCHANGED <<counted, taken, readErrors>>
    BY <1>1, <1>13 DEF statsdVars, StatsdType, ReadersInv, OwnReader
  <2> QED
    BY <2>1, NothingTaken
<1> QED
  BY <1>2, <1>3, <1>4, <1>5, <1>6, <1>7, <1>8, <1>9, <1>10, <1>11, <1>12, <1>13 DEF StatsdNext

LEMMA InvIsComplete == StatsdInv => StopIsComplete
<1> SUFFICES ASSUME StatsdInv, ~overdue
             PROVE  /\ ~panicked
                    /\ ~statsd.started /\ statsd.stop = "no" =>
                         openConns = {} /\ \A g \in Listens : reader[g].at \in {"unborn", "gone"}
  BY DEF StopIsComplete
<1>1. ReadersInv
  BY DEF StatsdInv
<1> QED
  BY <1>1 DEF ReadersInv, OwnReader

LEMMA InvCountsDatagrams == StatsdInv => DatagramsAreCounted
<1> SUFFICES ASSUME StatsdInv PROVE DatagramsAreCounted
  OBVIOUS
<1>1. DOMAIN taken = 1 .. Len(taken)
  BY DEF StatsdInv, StatsdType
<1>2. {i \in DOMAIN taken : Parsed(taken[i]) # <<>>} = GoodOnes
  BY <1>1 DEF GoodOnes
<1> QED
  BY <1>2 DEF StatsdInv, DatagramsAreCounted

\* (Two conjuncts of IntakeIsTrue.) A Stop of the StatsD module that did not give up leaves
\* neither a goroutine nor a socket, and no channel is closed twice, whatever was enabled and
\* disabled before; every datagram counts once, as accepted if anything in it was.
THEOREM StatsdAnswers ==
  StatsdInit /\ [][StatsdNext]_statsdVars => [](StopIsComplete /\ DatagramsAreCounted)
<1>1. StatsdInv => StopIsComplete /\ DatagramsAreCounted
  BY InvIsComplete, InvCountsDatagrams
<1> QED
  BY <1>1, StatsdBegins, StatsdSteps, PTL

-----------------------------------------------------------------------------
(* StatsD: the tables. *)

Texts == {Rendered[t] : t \in Tag}
Keys == Seq(Texts)

\* The limits as the provers need them, taken from StatsdAssumption.
LEMMA StatsdLimits ==
  /\ Tag \in SUBSET Nat /\ EmptyTag \in Tag /\ SeriesBound \in Nat \ {0} /\ MaxTags \in Nat \ {0} /\ BufferLines \in Nat \ {0}
  /\ Datagrams \subseteq Seq(Measure \cup {Malformed})
BY StatsdAssumption

\* The same tags in another order are the same series.
LEMMA KeyIs ==
  ASSUME NEW s \in Seq(Tag)
  PROVE  SeriesKey(s) \in Keys /\ \A t \in Seq(Tag) : SameTags(s, t) => SeriesKey(s) = SeriesKey(t)
<1>1. Tag \in SUBSET Nat
  BY StatsdLimits
<1>2. SeriesKey(s) \in Keys
  <2> DEFINE q == Sorted(s)
  <2>1. q \in Seq(Tag)
    BY <1>1, SortedHolds
  <2> HIDE DEF q
  <2>2. DOMAIN q = 1 .. Len(q) /\ Len(q) \in Nat /\ \A i \in 1 .. Len(q) : Rendered[q[i]] \in Texts
    BY <2>1 DEF Texts
  <2>3. [i \in DOMAIN q |-> Rendered[q[i]]] \in Keys
    BY <2>2 DEF Keys
  <2> QED
    BY <2>3 DEF SeriesKey, q
<1>3. ASSUME NEW t \in Seq(Tag), SameTags(s, t) PROVE SeriesKey(s) = SeriesKey(t)
  <2>1. \A x \in Tag : HowOften(s, x) = HowOften(t, x)
    BY <1>3 DEF SameTags, HowOften
  <2>2. Sorted(s) = Sorted(t)
    BY <1>1, <2>1, SortedSame
  <2> QED
    BY <2>2 DEF SeriesKey
<1> QED
  BY <1>2, <1>3

\* What a table of an instrument has.
ValueOf(i) == IF i = "histogram" THEN [count : Nat, sum : Int, min : Int, max : Int] ELSE Int
SeriesOf(i) == UNION {[D -> ValueOf(i)] : D \in SUBSET Keys}
Telemetry ==
  {tel \in [tables : [Instrument -> [MetricName -> UNION {SeriesOf(i) : i \in Instrument}]], shed : [MetricName -> Nat]] :
     \A i \in Instrument, n \in MetricName : tel.tables[i][n] \in SeriesOf(i)}

\* Whole numbers of halves are whole numbers.
LEMMA TruncatedIs == ASSUME NEW v \in Int PROVE Truncated(v) \in Int
BY DEF Truncated

\* The lesser and the greater of two are of the two.
LEMMA LesserIs == ASSUME NEW a \in Int, NEW b \in Int PROVE Min({a, b}) \in {a, b} /\ Max({a, b}) \in {a, b}
<1>1. IsFiniteSet({a}) /\ {a} \cup {b} = {a, b}
  BY FS_Singleton
<1>2. IsFiniteSet({a, b}) /\ {a, b} \subseteq Int /\ {a, b} # {}
  BY <1>1, FS_AddElement
<1> QED
  BY <1>2, EndsOf

\* A measure leaves a series what its instrument has.
LEMMA MeasuredTyped ==
  ASSUME NEW i \in Instrument, NEW v \in Int
  PROVE  NewSeries(i, v) \in ValueOf(i) /\ \A old \in ValueOf(i) : Measured(i, old, v) \in ValueOf(i)
<1>1. CASE i = "histogram"
  <2>1. NewSeries(i, v) \in ValueOf(i)
    BY <1>1 DEF NewSeries, ValueOf
  <2>2. ASSUME NEW old \in ValueOf(i) PROVE Measured(i, old, v) \in ValueOf(i)
    <3>1. old.count \in Nat /\ old.sum \in Int /\ old.min \in Int /\ old.max \in Int
      BY <1>1 DEF ValueOf
    <3>2. Min({old.min, v}) \in Int /\ Max({old.max, v}) \in Int
      BY <3>1, LesserIs
    <3> DEFINE lo == Min({old.min, v})
               hi == Max({old.max, v})
    <3>3. Measured(i, old, v) = [count |-> old.count + 1, sum |-> old.sum + v, min |-> lo, max |-> hi]
      BY <1>1 DEF Measured
    <3> HIDE DEF lo, hi
    <3> QED
      BY <1>1, <3>1, <3>2, <3>3 DEF ValueOf, lo, hi
  <2> QED
    BY <2>1, <2>2
<1>2. CASE i = "counter"
  BY <1>2, TruncatedIs DEF NewSeries, ValueOf, Measured
<1>3. CASE i = "gauge"
  BY <1>3 DEF NewSeries, ValueOf, Measured
<1> QED
  BY <1>1, <1>2, <1>3 DEF Instrument

\* What one line does to the telemetry.
PutOn(tel, line, after) ==
  LET i == line.instrument
      n == line.name
      key == SeriesKey(line.tags)
      series == tel.tables[i][n]
      held == after.tables[i][n]
  IN /\ after.shed = tel.shed
     /\ \A j \in Instrument, m \in MetricName : j # i \/ m # n => after.tables[j][m] = tel.tables[j][m]
     /\ DOMAIN held = DOMAIN series \cup {key}
     /\ held[key] = Measured(i, IF key \in DOMAIN series THEN series[key] ELSE NewSeries(i, line.value), line.value)
     /\ \A k \in DOMAIN series : k # key => held[k] = series[k]

\* What it does when there is no place.
PutOff(tel, line, after) ==
  /\ after.tables = tel.tables
  /\ \A m \in MetricName : after.shed[m] = tel.shed[m] + IF m = line.name THEN 1 ELSE 0

\* A line is put on its series, alone of all, or is counted as turned away.
LEMMA PutIs ==
  ASSUME NEW tel \in Telemetry, NEW line \in Measure, NEW after, after = Put(tel, line)
  PROVE  /\ after \in Telemetry
         /\ IF AdmitLocked(tel.tables[line.instrument][line.name], SeriesKey(line.tags))
            THEN PutOn(tel, line, after) ELSE PutOff(tel, line, after)
<1> DEFINE i == line.instrument
           n == line.name
           v == line.value
           key == SeriesKey(line.tags)
           tables0 == tel.tables
           shed0 == tel.shed
           series == tables0[i][n]
           old == IF key \in DOMAIN series THEN series[key] ELSE NewSeries(i, v)
           new == Measured(i, old, v)
           held == [k \in DOMAIN series \cup {key} |-> IF k = key THEN new ELSE series[k]]
           AllSeries == UNION {SeriesOf(j) : j \in Instrument}
<1>1. i \in Instrument /\ n \in MetricName /\ v \in Int /\ line.tags \in Seq(Tag) /\ key \in Keys
  <2>1. i \in Instrument /\ n \in MetricName /\ v \in Int /\ line.tags \in Seq(Tag)
    BY DEF Measure
  <2> QED
    BY <2>1, KeyIs
<1>2. /\ tables0 \in [Instrument -> [MetricName -> AllSeries]] /\ shed0 \in [MetricName -> Nat]
      /\ tel = [tables |-> tables0, shed |-> shed0] /\ \A j \in Instrument, m \in MetricName : tables0[j][m] \in SeriesOf(j)
  BY DEF Telemetry
<1>3. after = IF AdmitLocked(series, key) THEN [tel EXCEPT !.tables[i][n] = held] ELSE [tel EXCEPT !.shed[n] = @ + 1]
  BY DEF Put
<1> HIDE DEF i, n, v, key, tables0, shed0
<1>4. series \in SeriesOf(i) /\ SeriesOf(i) \subseteq AllSeries
  BY <1>1, <1>2
<1>5. PICK D \in SUBSET Keys : series \in [D -> ValueOf(i)]
  BY <1>4 DEF SeriesOf
<1> HIDE DEF series
<1>6. old \in ValueOf(i) /\ new \in ValueOf(i)
  <2>1. old \in ValueOf(i)
    BY <1>1, <1>5, MeasuredTyped
  <2> HIDE DEF old
  <2> QED
    BY <1>1, <2>1, MeasuredTyped
<1> HIDE DEF new
<1>7. held \in SeriesOf(i) /\ held \in AllSeries
  <2>1. held \in [D \cup {key} -> ValueOf(i)] /\ D \cup {key} \in SUBSET Keys
    BY <1>1, <1>5, <1>6
  <2> HIDE DEF held
  <2>2. held \in SeriesOf(i)
    BY <2>1 DEF SeriesOf
  <2> QED
    BY <1>4, <2>2
<1>8. /\ DOMAIN held = DOMAIN series \cup {key} /\ held[key] = new
      /\ \A k \in DOMAIN series : k # key => held[k] = series[k]
  OBVIOUS
<1> HIDE DEF held, AllSeries
<1>9. CASE AdmitLocked(series, key)
  <2> DEFINE tables1 == [tables0 EXCEPT ![i][n] = held]
  <2>1. after = [tables |-> tables1, shed |-> shed0]
    BY <1>2, <1>3, <1>9
  <2>2. /\ tables1 \in [Instrument -> [MetricName -> AllSeries]]
        /\ \A j \in Instrument, m \in MetricName :
             tables1[j][m] = IF j = i /\ m = n THEN held ELSE tables0[j][m]
    <3>1. tables0[i] \in [MetricName -> AllSeries]
      BY <1>1, <1>2
    <3> DEFINE row == [tables0[i] EXCEPT ![n] = held]
    <3>2. row \in [MetricName -> AllSeries] /\ \A m \in MetricName : row[m] = IF m = n THEN held ELSE tables0[i][m]
      BY <1>1, <1>7, <3>1
    <3>3. tables1 = [tables0 EXCEPT ![i] = row]
      BY <1>2
    <3> HIDE DEF row, tables1
    <3>4. tables1 \in [Instrument -> [MetricName -> AllSeries]] /\ \A j \in Instrument : tables1[j] = IF j = i THEN row ELSE tables0[j]
      BY <1>1, <1>2, <3>2, <3>3
    <3>5. ASSUME NEW j \in Instrument, NEW m \in MetricName
          PROVE  tables1[j][m] = IF j = i /\ m = n THEN held ELSE tables0[j][m]
      BY <3>2, <3>4
    <3> QED
      BY <3>4, <3>5
  <2> HIDE DEF tables1
  <2>3. \A j \in Instrument, m \in MetricName : tables1[j][m] \in SeriesOf(j)
    BY <1>2, <1>7, <2>2
  <2>4. after \in Telemetry /\ after.tables = tables1 /\ after.shed = shed0
    <3>1. after.tables = tables1 /\ after.shed = shed0
      BY <2>1
    <3>2. after \in [tables : [Instrument -> [MetricName -> AllSeries]], shed : [MetricName -> Nat]]
      BY <1>2, <2>1, <2>2
    <3> QED
      BY <2>3, <3>1, <3>2 DEF Telemetry, AllSeries
  <2>5. tables1[i][n] = held
    BY <1>1, <2>2
  <2>6. \A j \in Instrument, m \in MetricName : j # i \/ m # n => tables1[j][m] = tables0[j][m]
    BY <2>2
  <2>7. PutOn(tel, line, after)
    <3> HIDE DEF old
    <3>1. /\ after.shed = tel.shed /\ \A j \in Instrument, m \in MetricName : j # i \/ m # n => after.tables[j][m] = tel.tables[j][m]
      BY <2>4, <2>6 DEF shed0, tables0
    <3>2. /\ DOMAIN after.tables[i][n] = DOMAIN tel.tables[i][n] \cup {key}
          /\ after.tables[i][n][key] = new
          /\ \A k \in DOMAIN tel.tables[i][n] : k # key => after.tables[i][n][k] = tel.tables[i][n][k]
      BY <1>8, <2>4, <2>5 DEF series, tables0
    <3>3. new = Measured(i, IF key \in DOMAIN tel.tables[i][n] THEN tel.tables[i][n][key] ELSE NewSeries(i, v), v)
      BY DEF new, old, series, tables0
    <3> QED
      BY <3>1, <3>2, <3>3, Zenon DEF PutOn, i, n, v, key
  <2> QED
    BY <1>9, <2>4, <2>7 DEF series, tables0, i, n, key
<1>10. CASE ~AdmitLocked(series, key)
  <2> DEFINE shed1 == [shed0 EXCEPT ![n] = @ + 1]
  <2>1. after = [tables |-> tables0, shed |-> shed1]
    BY <1>2, <1>3, <1>10
  <2>2. shed1 \in [MetricName -> Nat] /\ \A m \in MetricName : shed1[m] = shed0[m] + IF m = n THEN 1 ELSE 0
    BY <1>1, <1>2
  <2> HIDE DEF shed1
  <2>3. after.tables = tables0 /\ after.shed = shed1
    BY <2>1
  <2>4. after \in Telemetry
    <3>1. after \in [tables : [Instrument -> [MetricName -> AllSeries]], shed : [MetricName -> Nat]]
      BY <1>2, <2>1, <2>2
    <3> QED
      BY <1>2, <2>3, <3>1 DEF Telemetry, AllSeries
  <2>5. PutOff(tel, line, after)
    BY <2>2, <2>3 DEF PutOff, n, shed0, tables0
  <2> QED
    BY <1>10, <2>4, <2>5 DEF series, tables0, i, n, key
<1> QED
  BY <1>9, <1>10


\* A line more.
LEMMA OneMore ==
  ASSUME NEW T, NEW lines \in Seq(T), NEW line \in T
  PROVE  LET more == Append(lines, line) IN
         /\ more \in Seq(T) /\ Len(lines) \in Nat /\ Len(lines) + 1 \notin 1 .. Len(lines)
         /\ DOMAIN lines = 1 .. Len(lines) /\ DOMAIN more = (1 .. Len(lines)) \cup {Len(lines) + 1}
         /\ more[Len(lines) + 1] = line /\ \A j \in 1 .. Len(lines) : more[j] = lines[j]
<1> DEFINE more == Append(lines, line)
           n == Len(lines)
<1>1. n \in Nat /\ more \in Seq(T) /\ Len(more) = n + 1 /\ more[n + 1] = line /\ \A j \in 1 .. n : more[j] = lines[j]
  OBVIOUS
<1> HIDE DEF more
<1>2. DOMAIN lines = 1 .. n /\ DOMAIN more = 1 .. n + 1
  BY <1>1
<1> HIDE DEF n
<1>3. 1 .. n + 1 = (1 .. n) \cup {n + 1} /\ n + 1 \notin 1 .. n
  BY <1>1
<1> QED
  BY <1>1, <1>2, <1>3 DEF more, n

\* Of these places two sequences have the same lines.
AgreeOn(more, lines, js) == (\A j \in js : more[j] = lines[j]) /\ (js # {} => Max(js) \in js)

\* What lines are worth is told of them alone.
LEMMA WorthStays ==
  ASSUME NEW lines, NEW more, NEW js, NEW i, AgreeOn(more, lines, js)
  PROVE  js # {} => Worth(more, i, js) = Worth(lines, i, js)
<1> SUFFICES ASSUME js # {} PROVE Worth(more, i, js) = Worth(lines, i, js)
  OBVIOUS
<1> USE DEF AgreeOn
<1>1. /\ [j \in js |-> Truncated(more[j].value)] = [j \in js |-> Truncated(lines[j].value)]
      /\ [j \in js |-> more[j].value] = [j \in js |-> lines[j].value]
      /\ {more[j].value : j \in js} = {lines[j].value : j \in js}
      /\ more[Max(js)].value = lines[Max(js)].value
  OBVIOUS
<1> QED
  BY <1>1, Zenon DEF Worth

\* The first line of a series.
Begins(lines, line, i, js) ==
  js = {} => Worth(Append(lines, line), i, js \cup {Len(lines) + 1}) = Measured(i, NewSeries(i, line.value), line.value)

\* One line more, the last, measures the series on, or begins it.
LEMMA WorthGrows ==
  ASSUME NEW lines \in Seq(Measure), NEW line \in Measure, NEW js \in SUBSET (1 .. Len(lines)), NEW i \in Instrument
  PROVE  LET more == Append(lines, line)
             m == Len(lines) + 1
             v == line.value
         IN /\ js # {} => /\ Worth(more, i, js) = Worth(lines, i, js)
                          /\ Worth(more, i, js \cup {m}) = Measured(i, Worth(lines, i, js), v)
            /\ Begins(lines, line, i, js)
<1> DEFINE more == Append(lines, line)
           m == Len(lines) + 1
           v == line.value
           ks == js \cup {m}
           vals(ns) == {more[j].value : j \in ns}
           vs(ns) == [j \in ns |-> more[j].value]
           ts(ns) == [j \in ns |-> Truncated(more[j].value)]
<1>1. /\ more \in Seq(Measure) /\ m \in Nat /\ m \notin 1 .. Len(lines) /\ DOMAIN more = (1 .. Len(lines)) \cup {m}
      /\ more[m] = line /\ (\A j \in 1 .. Len(lines) : more[j] = lines[j]) /\ v \in Int /\ Len(lines) \in Nat
      /\ \A j \in 1 .. Len(lines) : j \in Nat /\ j < m
  <2>1. v \in Int
    BY DEF Measure
  <2> QED
    BY <2>1, OneMore
<1>2. IsFiniteSet(js) /\ IsFiniteSet(ks) /\ js \subseteq Int /\ ks \subseteq Int /\ m \notin js /\ ks \ {m} = js
  <2>1. IsFiniteSet(1 .. Len(lines))
    BY <1>1, CountTo
  <2>2. IsFiniteSet(js)
    BY <2>1, FS_Subset
  <2>3. IsFiniteSet(ks)
    BY <2>2, FS_AddElement
  <2>4. js \subseteq Int /\ m \in Int /\ m \notin js
    BY <1>1
  <2> HIDE DEF m
  <2>5. ks \subseteq Int /\ ks \ {m} = js
    BY <2>4
  <2> QED
    BY <2>2, <2>3, <2>4, <2>5
<1> HIDE DEF more, m, v
<1>3. \A j \in ks : j \in DOMAIN more /\ more[j].value \in Int
  <2>1. \A j \in ks : j \in DOMAIN more
    BY <1>1
  <2>2. \A j \in DOMAIN more : more[j] \in Measure
    BY <1>1
  <2> QED
    BY <2>1, <2>2 DEF Measure
<1>4. js # {} => Max(js) \in js /\ \A y \in js : y <= Max(js)
  BY <1>2, EndsOf
<1>5. ks # {} /\ Max(ks) = m
  <2>1. Max(ks) \in ks /\ \A y \in ks : y <= Max(ks)
    BY <1>2, EndsOf
  <2> DEFINE top == Max(ks)
  <2>2. m \in ks /\ m <= top /\ top \in ks
    BY <2>1
  <2> HIDE DEF top
  <2>3. top \in js => top < m /\ top \in Nat
    BY <1>1
  <2>4. top = m
    BY <1>1, <2>2, <2>3
  <2> QED
    BY <2>2, <2>4 DEF top
<1>6. /\ vs(ks) \in [ks -> Int] /\ ts(ks) \in [ks -> Int] /\ vs(ks)[m] = v /\ ts(ks)[m] = Truncated(v)
      /\ vs(js) = [y \in ks \ {m} |-> vs(ks)[y]] /\ ts(js) = [y \in ks \ {m} |-> ts(ks)[y]]
  <2>1. \A j \in ks : more[j].value \in Int /\ Truncated(more[j].value) \in Int
    BY <1>3, TruncatedIs
  <2>2. more[m].value = v
    BY <1>1 DEF v
  <2> QED
    BY <1>2, <2>1, <2>2
<1>7. SumFunction(vs(ks)) = v + SumFunction(vs(js)) /\ SumFunction(ts(ks)) = Truncated(v) + SumFunction(ts(js))
  <2> DEFINE a == vs(ks)
             b == ts(ks)
             a1 == vs(js)
             b1 == ts(js)
  <2>1. /\ a \in [ks -> Int] /\ b \in [ks -> Int] /\ m \in ks /\ AllBut(a1, a, m) /\ AllBut(b1, b, m)
    BY <1>6 DEF AllBut
  <2> HIDE DEF a, b, a1, b1, ks
  <2>2. IsFiniteSet(ks)
    BY <1>2
  <2>3. SumFunction(a) = a[m] + SumFunction(a1)
    BY <2>1, <2>2, TotalAdds
  <2>4. SumFunction(b) = b[m] + SumFunction(b1)
    BY <2>1, <2>2, TotalAdds
  <2> QED
    BY <1>6, <2>3, <2>4 DEF a, b, a1, b1
<1>8. Cardinality(ks) = Cardinality(js) + 1 /\ Cardinality(js) \in Nat
  BY <1>2, FS_AddElement, FS_CardinalityType
<1>9. vals(ks) = vals(js) \cup {v} /\ IsFiniteSet(vals(js)) /\ vals(js) \subseteq Int /\ (js # {} => vals(js) # {})
  <2>1. vals(js) \subseteq Int
    BY <1>3
  <2>2. IsFiniteSet(vals(js))
    <3> DEFINE f == [j \in js |-> more[j].value]
    <3>1. IsFiniteSet({f[j] : j \in js})
      <4> HIDE DEF f
      <4> QED
        BY <1>2, ImageIsFinite
    <3>2. {f[j] : j \in js} = vals(js)
      OBVIOUS
    <3> QED
      BY <3>1, <3>2
  <2>3. more[m].value = v
    BY <1>1 DEF v
  <2> QED
    BY <2>1, <2>2, <2>3
<1>10. /\ i = "counter" => Worth(more, i, ks) = SumFunction(ts(ks)) /\ Worth(more, i, js) = SumFunction(ts(js))
       /\ i = "gauge" => Worth(more, i, ks) = v
       /\ i = "histogram" =>
            /\ Worth(more, i, ks) = [count |-> Cardinality(ks), sum |-> SumFunction(vs(ks)), min |-> Min(vals(ks)), max |-> Max(vals(ks))]
            /\ Worth(more, i, js) = [count |-> Cardinality(js), sum |-> SumFunction(vs(js)), min |-> Min(vals(js)), max |-> Max(vals(js))]
  <2>1. i = "counter" => Worth(more, i, ks) = SumFunction(ts(ks)) /\ Worth(more, i, js) = SumFunction(ts(js))
    BY DEF Worth
  <2>2. i = "gauge" => Worth(more, i, ks) = v
    <3>1. more[Max(ks)].value = v
      BY <1>1, <1>5 DEF v
    <3> QED
      BY <3>1 DEF Worth
  <2>3. i = "histogram" =>
            /\ Worth(more, i, ks) = [count |-> Cardinality(ks), sum |-> SumFunction(vs(ks)), min |-> Min(vals(ks)), max |-> Max(vals(ks))]
            /\ Worth(more, i, js) = [count |-> Cardinality(js), sum |-> SumFunction(vs(js)), min |-> Min(vals(js)), max |-> Max(vals(js))]
    BY DEF Worth
  <2> QED
    BY <2>1, <2>2, <2>3
<1>11. js # {} => Worth(more, i, js) = Worth(lines, i, js)
  <2>1. AgreeOn(more, lines, js)
    BY <1>1, <1>4 DEF AgreeOn
  <2> QED
    BY <2>1, WorthStays
<1> DEFINE sum1 == SumFunction(vs(js))
           tot1 == SumFunction(ts(js))
           sum2 == SumFunction(vs(ks))
           tot2 == SumFunction(ts(ks))
<1>12. sum1 \in Int /\ tot1 \in Int /\ (js = {} => sum1 = 0 /\ tot1 = 0)
  <2>1. vs(js) \in [js -> Int] /\ ts(js) \in [js -> Int]
    BY <1>2, <1>6
  <2>2. CASE js = {}
    <3> DEFINE a == vs(js)
               b == ts(js)
    <3>1. a \in [{} -> Int] /\ b \in [{} -> Int]
      BY <2>1, <2>2
    <3> HIDE DEF a, b
    <3>2. SumFunction(a) = 0 /\ SumFunction(b) = 0
      BY <3>1, TotalNone
    <3> QED
      BY <3>2 DEF a, b
  <2>3. CASE js # {}
    <3> DEFINE a == vs(js)
               b == ts(js)
    <3>1. PICK x \in js : TRUE
      BY <2>3
    <3>2. a \in [js -> Int] /\ b \in [js -> Int]
      BY <2>1
    <3> HIDE DEF a, b
    <3>3. ASSUME NEW w \in [js -> Int] PROVE SumFunction(w) \in Int
      <4>1. PICK u : AllBut(u, w, x)
        BY DEF AllBut
      <4> QED
        BY <1>2, <3>1, <4>1, TotalAdds
    <3>4. SumFunction(a) \in Int /\ SumFunction(b) \in Int
      BY <3>2, <3>3
    <3> QED
      BY <2>3, <3>4 DEF a, b
  <2> QED
    BY <2>2, <2>3
<1> DEFINE lo1 == Min(vals(js))
           hi1 == Max(vals(js))
           lo2 == Min(vals(ks))
           hi2 == Max(vals(ks))
           c1 == Cardinality(js)
           c2 == Cardinality(ks)
<1>13. /\ js # {} => lo2 = Min({lo1, v}) /\ hi2 = Max({hi1, v})
       /\ js = {} => lo2 = v /\ hi2 = v /\ Min({v, v}) = v /\ Max({v, v}) = v /\ c1 = 0
  <2> DEFINE w == vals(js)
  <2>1. js = {} => w = {}
    OBVIOUS
  <2>2. js = {} => w \cup {v} = {v} /\ {v, v} = {v}
    BY <2>1
  <2> HIDE DEF w
  <2>3. js # {} => Min(w \cup {v}) = Min({Min(w), v}) /\ Max(w \cup {v}) = Max({Max(w), v})
    BY <1>1, <1>9, EndsWith DEF w
  <2>4. Min({v}) = v /\ Max({v}) = v
    BY <1>1, EndsOfOne
  <2>5. js = {} => c1 = 0
    BY FS_EmptySet
  <2> QED
    BY <1>9, <2>2, <2>3, <2>4, <2>5 DEF w
<1>14. js # {} => Worth(more, i, ks) = Measured(i, Worth(more, i, js), v)
  <2> HIDE DEF sum1, sum2, tot1, tot2, lo1, lo2, hi1, hi2, c1, c2
  <2>1. CASE i = "counter"
    <3>1. Worth(more, i, ks) = tot2 /\ Worth(more, i, js) = tot1 /\ tot2 = Truncated(v) + tot1
      BY <1>7, <1>10, <2>1 DEF tot1, tot2
    <3>2. Truncated(v) \in Int
      BY <1>1, TruncatedIs
    <3>3. Measured(i, tot1, v) = tot1 + Truncated(v)
      BY <2>1 DEF Measured
    <3> QED
      BY <1>12, <3>1, <3>2, <3>3
  <2>2. CASE i = "gauge"
    BY <1>10, <2>2 DEF Measured
  <2>3. CASE i = "histogram"
    <3> DEFINE old == [count |-> c1, sum |-> sum1, min |-> lo1, max |-> hi1]
    <3>1. Worth(more, i, ks) = [count |-> c2, sum |-> sum2, min |-> lo2, max |-> hi2] /\ Worth(more, i, js) = old
      BY <1>10, <2>3 DEF c1, c2, sum1, sum2, lo1, lo2, hi1, hi2
    <3>2. c2 = c1 + 1 /\ sum2 = sum1 + v /\ (js # {} => lo2 = Min({lo1, v}) /\ hi2 = Max({hi1, v}))
      <4>1. sum2 = v + sum1
        BY <1>7 DEF sum1, sum2
      <4> QED
        BY <1>1, <1>8, <1>12, <1>13, <4>1 DEF c1, c2
    <3>3. old.count = c1 /\ old.sum = sum1 /\ old.min = lo1 /\ old.max = hi1
      OBVIOUS
    <3> HIDE DEF old
    <3>4. Measured(i, old, v) = [count |-> c1 + 1, sum |-> sum1 + v, min |-> Min({lo1, v}), max |-> Max({hi1, v})]
      BY <2>3, <3>3 DEF Measured
    <3> QED
      BY <3>1, <3>2, <3>4
  <2> QED
    BY <2>1, <2>2, <2>3 DEF Instrument
<1>15. js = {} => Worth(more, i, ks) = Measured(i, NewSeries(i, v), v)
  <2> HIDE DEF sum1, sum2, tot1, tot2, lo1, lo2, hi1, hi2, c1, c2
  <2> SUFFICES ASSUME js = {} PROVE Worth(more, i, ks) = Measured(i, NewSeries(i, v), v)
    OBVIOUS
  <2>1. CASE i = "counter"
    <3>1. Worth(more, i, ks) = tot2 /\ tot2 = Truncated(v) + tot1 /\ tot1 = 0
      BY <1>7, <1>10, <1>12, <2>1 DEF tot1, tot2
    <3>2. Truncated(v) \in Int
      BY <1>1, TruncatedIs
    <3>3. NewSeries(i, v) = 0 /\ Measured(i, 0, v) = 0 + Truncated(v)
      BY <2>1 DEF Measured, NewSeries
    <3>4. tot2 = 0 + Truncated(v)
      BY <3>1, <3>2
    <3> QED
      BY <3>1, <3>3, <3>4
  <2>2. CASE i = "gauge"
    BY <1>10, <2>2 DEF Measured
  <2>3. CASE i = "histogram"
    <3> DEFINE old == [count |-> 0, sum |-> 0, min |-> v, max |-> v]
    <3>1. Worth(more, i, ks) = [count |-> c2, sum |-> sum2, min |-> lo2, max |-> hi2] /\ NewSeries(i, v) = old
      BY <1>10, <2>3 DEF c2, sum2, lo2, hi2, NewSeries
    <3>2. c2 = 0 + 1 /\ sum2 = 0 + v /\ lo2 = Min({v, v}) /\ hi2 = Max({v, v})
      <4>1. sum2 = v + sum1 /\ c2 = c1 + 1
        BY <1>7, <1>8 DEF sum1, sum2, c1, c2
      <4> QED
        BY <1>1, <1>12, <1>13, <4>1
    <3>3. old.count = 0 /\ old.sum = 0 /\ old.min = v /\ old.max = v
      OBVIOUS
    <3> HIDE DEF old
    <3>4. Measured(i, old, v) = [count |-> 0 + 1, sum |-> 0 + v, min |-> Min({v, v}), max |-> Max({v, v})]
      BY <2>3, <3>3 DEF Measured
    <3> QED
      BY <3>1, <3>2, <3>4
  <2> QED
    BY <2>1, <2>2, <2>3 DEF Instrument
<1> QED
  BY <1>11, <1>14, <1>15 DEF more, m, v, Begins


\* The telemetry after these lines, with what it takes to go on.
KeptWell(lines, tel) ==
  /\ lines \in Seq(Measure) /\ tel \in Telemetry /\ Kept(lines, tel)
  /\ \A i \in Instrument, n \in MetricName :
       /\ IsFiniteSet(DOMAIN tel.tables[i][n])
       /\ \A k \in DOMAIN tel.tables[i][n] : LinesOf(lines, i, n, k) # {}

\* A line more is of its series, and of no other.
LEMMA LinesGrow ==
  ASSUME NEW lines \in Seq(Measure), NEW line \in Measure, NEW i, NEW n, NEW k
  PROVE  /\ LinesOf(lines, i, n, k) \in SUBSET (1 .. Len(lines))
         /\ LinesOf(Append(lines, line), i, n, k) =
              IF line.instrument = i /\ line.name = n /\ SeriesKey(line.tags) = k
              THEN LinesOf(lines, i, n, k) \cup {Len(lines) + 1} ELSE LinesOf(lines, i, n, k)
<1> DEFINE more == Append(lines, line)
           m == Len(lines) + 1
           N == 1 .. Len(lines)
           P(l) == l.instrument = i /\ l.name = n /\ SeriesKey(l.tags) = k
<1>1. DOMAIN lines = N /\ DOMAIN more = N \cup {m} /\ m \notin N /\ more[m] = line /\ \A j \in N : more[j] = lines[j]
  BY OneMore
<1>2. LinesOf(lines, i, n, k) = {j \in DOMAIN lines : P(lines[j])} /\ LinesOf(more, i, n, k) = {j \in DOMAIN more : P(more[j])}
  BY DEF LinesOf
<1>3. P(line) <=> line.instrument = i /\ line.name = n /\ SeriesKey(line.tags) = k
  OBVIOUS
<1> HIDE DEF P, N, more, m
<1>4. LinesOf(lines, i, n, k) \in SUBSET N
  BY <1>1, <1>2
<1>5. LinesOf(more, i, n, k) = IF P(line) THEN LinesOf(lines, i, n, k) \cup {m} ELSE LinesOf(lines, i, n, k)
  BY <1>1, <1>2
<1> QED
  BY <1>3, <1>4, <1>5 DEF N, more, m

\* A line more is turned away when the telemetry has no series for it.
LEMMA TurnedGrow ==
  ASSUME NEW lines \in Seq(Measure), NEW line \in Measure, NEW tel, NEW n
  PROVE  /\ Turned(lines, tel, n) \in SUBSET (1 .. Len(lines))
         /\ Turned(Append(lines, line), tel, n) =
              IF line.name = n /\ SeriesKey(line.tags) \notin DOMAIN tel.tables[line.instrument][n]
              THEN Turned(lines, tel, n) \cup {Len(lines) + 1} ELSE Turned(lines, tel, n)
<1> DEFINE more == Append(lines, line)
           m == Len(lines) + 1
           N == 1 .. Len(lines)
           P(l) == l.name = n /\ SeriesKey(l.tags) \notin DOMAIN tel.tables[l.instrument][n]
<1>1. DOMAIN lines = N /\ DOMAIN more = N \cup {m} /\ m \notin N /\ more[m] = line /\ \A j \in N : more[j] = lines[j]
  BY OneMore
<1>2. Turned(lines, tel, n) = {j \in DOMAIN lines : P(lines[j])} /\ Turned(more, tel, n) = {j \in DOMAIN more : P(more[j])}
  BY DEF Turned
<1>3. P(line) <=> line.name = n /\ SeriesKey(line.tags) \notin DOMAIN tel.tables[line.instrument][n]
  OBVIOUS
<1> HIDE DEF P, N, more, m
<1>4. Turned(lines, tel, n) \in SUBSET N
  BY <1>1, <1>2
<1>5. Turned(more, tel, n) = IF P(line) THEN Turned(lines, tel, n) \cup {m} ELSE Turned(lines, tel, n)
  BY <1>1, <1>2
<1> QED
  BY <1>3, <1>4, <1>5 DEF N, more, m

\* What is turned away of so many lines is finite.
LEMMA TurnedCounts ==
  ASSUME NEW lines \in Seq(Measure), NEW tel, NEW n
  PROVE  LET t == Turned(lines, tel, n) IN
         /\ IsFiniteSet(t) /\ Cardinality(t) \in Nat
         /\ Cardinality(t \cup {Len(lines) + 1}) = Cardinality(t) + 1
<1> DEFINE t == Turned(lines, tel, n)
<1>1. t \subseteq DOMAIN lines /\ DOMAIN lines = 1 .. Len(lines) /\ Len(lines) \in Nat
  BY DEF Turned
<1> HIDE DEF t
<1>2. IsFiniteSet(t)
  BY <1>1, CountTo, FS_Subset
<1>3. Len(lines) + 1 \notin t
  BY <1>1
<1> QED
  BY <1>2, <1>3, FS_AddElement, FS_CardinalityType DEF t

\* A line that is taken, ...
LEMMA PutOnKeeps ==
  ASSUME NEW lines, NEW tel, KeptWell(lines, tel), NEW line \in Measure, NEW after \in Telemetry,
         AdmitLocked(tel.tables[line.instrument][line.name], SeriesKey(line.tags)), PutOn(tel, line, after)
  PROVE  KeptWell(Append(lines, line), after)
<1> DEFINE i == line.instrument
           n == line.name
           v == line.value
           key == SeriesKey(line.tags)
           more == Append(lines, line)
           m == Len(lines) + 1
           series == tel.tables[i][n]
           js == LinesOf(lines, i, n, key)
<1>1. lines \in Seq(Measure) /\ tel \in Telemetry /\ Kept(lines, tel) /\ i \in Instrument /\ n \in MetricName /\ more \in Seq(Measure)
  BY OneMore DEF KeptWell, Measure
<1>2. /\ after.shed = tel.shed
      /\ \A j \in Instrument, o \in MetricName : j # i \/ o # n => after.tables[j][o] = tel.tables[j][o]
      /\ DOMAIN after.tables[i][n] = DOMAIN series \cup {key}
      /\ after.tables[i][n][key] = Measured(i, IF key \in DOMAIN series THEN series[key] ELSE NewSeries(i, v), v)
      /\ \A k \in DOMAIN series : k # key => after.tables[i][n][k] = series[k]
  BY Zenon DEF PutOn
<1>3. key \in DOMAIN series \/ Cardinality(DOMAIN series) < SeriesBound
  BY DEF AdmitLocked
<1>4. \A j \in Instrument, o \in MetricName :
        /\ IsFiniteSet(DOMAIN tel.tables[j][o]) /\ Cardinality(DOMAIN tel.tables[j][o]) <= SeriesBound
        /\ \A k \in DOMAIN tel.tables[j][o] :
             tel.tables[j][o][k] = Worth(lines, j, LinesOf(lines, j, o, k)) /\ LinesOf(lines, j, o, k) # {}
  BY DEF KeptWell, Kept
<1>5. \A o \in MetricName :
        /\ tel.shed[o] = Cardinality(Turned(lines, tel, o))
        /\ \A j \in Turned(lines, tel, o) : Cardinality(DOMAIN tel.tables[lines[j].instrument][o]) = SeriesBound
  BY DEF KeptWell, Kept
<1>6. SeriesBound \in Nat
  BY StatsdLimits
<1>7. IsFiniteSet(DOMAIN series) /\ Cardinality(DOMAIN series) \in Nat /\ Cardinality(DOMAIN series) <= SeriesBound
  BY <1>1, <1>4, FS_CardinalityType
<1>8. key \notin DOMAIN series => js = {}
  <2> SUFFICES ASSUME key \notin DOMAIN series, NEW j \in js PROVE FALSE
    OBVIOUS
  <2>1. lines[j].instrument = i /\ lines[j].name = n /\ SeriesKey(lines[j].tags) = key /\ j \in DOMAIN lines
    BY DEF LinesOf
  <2>2. j \in Turned(lines, tel, n)
    BY <2>1 DEF Turned
  <2>3. Cardinality(DOMAIN series) = SeriesBound
    BY <1>1, <1>5, <2>1, <2>2
  <2> QED
    BY <1>3, <1>6, <1>7, <2>3
<1>9. js \in SUBSET (1 .. Len(lines)) /\ LinesOf(more, i, n, key) = js \cup {m}
  BY <1>1, LinesGrow
<1>10. ASSUME NEW j \in Instrument, NEW o \in MetricName, NEW k, j # i \/ o # n \/ k # key
       PROVE  LinesOf(more, j, o, k) = LinesOf(lines, j, o, k) /\ LinesOf(lines, j, o, k) \in SUBSET (1 .. Len(lines))
  BY <1>1, <1>10, LinesGrow
<1> HIDE DEF i, n, v, key, more, m, series, js
<1>11. ASSUME NEW j \in Instrument, NEW o \in MetricName
       PROVE  /\ IsFiniteSet(DOMAIN after.tables[j][o]) /\ Cardinality(DOMAIN after.tables[j][o]) <= SeriesBound
              /\ \A k \in DOMAIN after.tables[j][o] :
                   after.tables[j][o][k] = Worth(more, j, LinesOf(more, j, o, k)) /\ LinesOf(more, j, o, k) # {}
  <2>1. ASSUME NEW k \in DOMAIN tel.tables[j][o], j # i \/ o # n \/ k # key
        PROVE  tel.tables[j][o][k] = Worth(more, j, LinesOf(more, j, o, k)) /\ LinesOf(more, j, o, k) # {}
    <3>1. /\ LinesOf(more, j, o, k) = LinesOf(lines, j, o, k) /\ LinesOf(lines, j, o, k) \in SUBSET (1 .. Len(lines))
          /\ LinesOf(lines, j, o, k) # {} /\ tel.tables[j][o][k] = Worth(lines, j, LinesOf(lines, j, o, k))
      BY <1>4, <1>10, <2>1
    <3>2. Worth(more, j, LinesOf(lines, j, o, k)) = Worth(lines, j, LinesOf(lines, j, o, k))
      BY <1>1, <3>1, WorthGrows DEF more
    <3> QED
      BY <3>1, <3>2
  <2>2. CASE j # i \/ o # n
    BY <1>2, <1>4, <2>1, <2>2
  <2>3. CASE j = i /\ o = n
    <3>1. IsFiniteSet(DOMAIN series \cup {key}) /\ Cardinality(DOMAIN series \cup {key}) <= SeriesBound
      <4>1. CASE key \in DOMAIN series
        <5>1. DOMAIN series \cup {key} = DOMAIN series
          BY <4>1
        <5> QED
          BY <1>7, <5>1
      <4>2. CASE key \notin DOMAIN series
        <5>1. IsFiniteSet(DOMAIN series \cup {key}) /\ Cardinality(DOMAIN series \cup {key}) = Cardinality(DOMAIN series) + 1
          BY <1>7, <4>2, FS_AddElement
        <5> QED
          BY <1>3, <1>6, <1>7, <4>2, <5>1
      <4> QED
        BY <4>1, <4>2
    <3>2. ASSUME NEW k \in DOMAIN after.tables[j][o]
          PROVE  after.tables[j][o][k] = Worth(more, j, LinesOf(more, j, o, k)) /\ LinesOf(more, j, o, k) # {}
      <4>1. CASE k # key
        <5>1. k \in DOMAIN series /\ after.tables[i][n][k] = series[k]
          BY <1>2, <2>3, <4>1
        <5> QED
          BY <2>1, <2>3, <4>1, <5>1 DEF series
      <4>2. CASE k = key
        <5>1. after.tables[i][n][key] = Worth(more, i, js \cup {m})
          <6>1. CASE key \in DOMAIN series
            <7>1. series[key] = Worth(lines, i, js) /\ js # {}
              BY <1>1, <1>4, <6>1 DEF series, js
            <7>2. Worth(more, i, js \cup {m}) = Measured(i, Worth(lines, i, js), v)
              BY <1>1, <1>9, <7>1, WorthGrows DEF more, m, v
            <7> QED
              BY <1>2, <6>1, <7>1, <7>2
          <6>2. CASE key \notin DOMAIN series
            <7>1. js = {}
              BY <1>8, <6>2
            <7>2. Begins(lines, line, i, js)
              BY <1>1, <1>9, WorthGrows
            <7>3. Worth(more, i, js \cup {m}) = Measured(i, NewSeries(i, v), v)
              BY <7>1, <7>2, Zenon DEF Begins, more, m, v
            <7> QED
              BY <1>2, <6>2, <7>3
          <6> QED
            BY <6>1, <6>2
        <5> QED
          BY <1>9, <2>3, <4>2, <5>1
      <4> QED
        BY <4>1, <4>2
    <3>3. DOMAIN after.tables[j][o] = DOMAIN series \cup {key}
      BY <1>2, <2>3
    <3> QED
      BY <3>1, <3>2, <3>3
  <2> QED
    BY <2>2, <2>3
<1>12. ASSUME NEW o \in MetricName
       PROVE  /\ Turned(more, after, o) = Turned(lines, tel, o)
              /\ \A j \in Turned(lines, tel, o) :
                   /\ more[j] = lines[j] /\ lines[j].instrument \in Instrument
                   /\ DOMAIN after.tables[lines[j].instrument][o] = DOMAIN tel.tables[lines[j].instrument][o]
  <2>1. Turned(more, after, o) = Turned(lines, after, o)
    <3>1. n = o => key \in DOMAIN after.tables[i][o]
      BY <1>2
    <3> QED
      BY <1>1, <3>1, TurnedGrow DEF more, n, key, i
  <2>2. ASSUME NEW j \in DOMAIN lines, lines[j].name = o
        PROVE  /\ lines[j].instrument \in Instrument
               /\ SeriesKey(lines[j].tags) \in DOMAIN after.tables[lines[j].instrument][o] <=>
                    SeriesKey(lines[j].tags) \in DOMAIN tel.tables[lines[j].instrument][o]
    <3>1. lines[j] \in Measure
      BY <1>1
    <3>2. lines[j].instrument \in Instrument
      BY <3>1 DEF Measure
    <3>3. CASE lines[j].instrument # i \/ o # n
      BY <1>2, <3>2, <3>3
    <3>4. CASE lines[j].instrument = i /\ o = n
      <4>1. SeriesKey(lines[j].tags) = key => j \in js
        BY <2>2, <3>4 DEF js, LinesOf
      <4>2. SeriesKey(lines[j].tags) = key => key \in DOMAIN series
        BY <1>8, <4>1
      <4>3. DOMAIN after.tables[i][n] = DOMAIN series \cup {key} /\ DOMAIN tel.tables[i][n] = DOMAIN series
        BY <1>2 DEF series
      <4> QED
        BY <3>2, <3>4, <4>2, <4>3
    <3> QED
      BY <3>3, <3>4
  <2>3. Turned(lines, after, o) = Turned(lines, tel, o)
    BY <2>2 DEF Turned
  <2>4. ASSUME NEW j \in Turned(lines, tel, o)
        PROVE  /\ more[j] = lines[j] /\ lines[j].instrument \in Instrument
               /\ DOMAIN after.tables[lines[j].instrument][o] = DOMAIN tel.tables[lines[j].instrument][o]
    <3>1. j \in DOMAIN lines /\ lines[j].name = o /\ SeriesKey(lines[j].tags) \notin DOMAIN tel.tables[lines[j].instrument][o]
      BY DEF Turned
    <3>2. lines[j].instrument \in Instrument
      BY <2>2, <3>1
    <3>3. more[j] = lines[j]
      <4>1. DOMAIN lines = 1 .. Len(lines) /\ \A l \in 1 .. Len(lines) : more[l] = lines[l]
        BY <1>1, OneMore DEF more
      <4> QED
        BY <3>1, <4>1
    <3>4. CASE lines[j].instrument # i \/ o # n
      BY <1>2, <3>2, <3>3, <3>4
    <3>5. CASE lines[j].instrument = i /\ o = n
      <4>1. Cardinality(DOMAIN series) = SeriesBound
        BY <1>5, <3>5 DEF series
      <4>2. key \in DOMAIN series
        BY <1>3, <1>6, <1>7, <4>1
      <4>3. DOMAIN after.tables[i][n] = DOMAIN series
        BY <1>2, <4>2
      <4> QED
        BY <3>2, <3>3, <3>5, <4>3 DEF series
    <3> QED
      BY <3>4, <3>5
  <2> QED
    BY <2>1, <2>3, <2>4
<1>13. Kept(more, after)
  <2>1. ASSUME NEW o \in MetricName
        PROVE  /\ after.shed[o] = Cardinality(Turned(more, after, o))
               /\ \A j \in Turned(more, after, o) : Cardinality(DOMAIN after.tables[more[j].instrument][o]) = SeriesBound
    BY <1>2, <1>5, <1>12
  <2> QED
    BY <1>11, <2>1 DEF Kept
<1> QED
  BY <1>1, <1>11, <1>13 DEF KeptWell, more


\* ... and one that is turned away.
LEMMA PutOffKeeps ==
  ASSUME NEW lines, NEW tel, KeptWell(lines, tel), NEW line \in Measure, NEW after \in Telemetry,
         ~AdmitLocked(tel.tables[line.instrument][line.name], SeriesKey(line.tags)), PutOff(tel, line, after)
  PROVE  KeptWell(Append(lines, line), after)
<1> DEFINE i == line.instrument
           n == line.name
           key == SeriesKey(line.tags)
           more == Append(lines, line)
           m == Len(lines) + 1
           series == tel.tables[i][n]
<1>1. /\ lines \in Seq(Measure) /\ tel \in Telemetry /\ Kept(lines, tel) /\ i \in Instrument /\ n \in MetricName /\ more \in Seq(Measure)
      /\ Len(lines) \in Nat
  BY OneMore DEF KeptWell, Measure
<1>2. after.tables = tel.tables /\ \A o \in MetricName : after.shed[o] = tel.shed[o] + IF o = n THEN 1 ELSE 0
  BY Zenon DEF PutOff
<1>3. \A j \in Instrument, o \in MetricName :
        /\ IsFiniteSet(DOMAIN tel.tables[j][o]) /\ Cardinality(DOMAIN tel.tables[j][o]) <= SeriesBound
        /\ \A k \in DOMAIN tel.tables[j][o] :
             tel.tables[j][o][k] = Worth(lines, j, LinesOf(lines, j, o, k)) /\ LinesOf(lines, j, o, k) # {}
  BY DEF KeptWell, Kept
<1>4. \A o \in MetricName :
        /\ tel.shed[o] = Cardinality(Turned(lines, tel, o))
        /\ \A j \in Turned(lines, tel, o) : Cardinality(DOMAIN tel.tables[lines[j].instrument][o]) = SeriesBound
  BY DEF KeptWell, Kept
<1>5. key \notin DOMAIN series /\ Cardinality(DOMAIN series) = SeriesBound
  <2>1. key \notin DOMAIN series /\ ~(Cardinality(DOMAIN series) < SeriesBound)
    BY DEF AdmitLocked
  <2>2. IsFiniteSet(DOMAIN series) /\ Cardinality(DOMAIN series) <= SeriesBound
    BY <1>1, <1>3
  <2> DEFINE D == DOMAIN series
  <2> HIDE DEF series, key
  <2>3. Cardinality(D) \in Nat /\ SeriesBound \in Nat
    BY <2>2, FS_CardinalityType, StatsdLimits
  <2> QED
    BY <2>1, <2>2, <2>3
<1> HIDE DEF i, n, key, more, m, series
<1>6. ASSUME NEW j \in Instrument, NEW o \in MetricName, NEW k \in DOMAIN tel.tables[j][o]
      PROVE  tel.tables[j][o][k] = Worth(more, j, LinesOf(more, j, o, k)) /\ LinesOf(more, j, o, k) # {}
  <2> DEFINE js == LinesOf(lines, j, o, k)
  <2>1. js # {} /\ tel.tables[j][o][k] = Worth(lines, j, js)
    BY <1>3
  <2>2. j # i \/ o # n \/ k # key
    BY <1>5 DEF series
  <2>3. js \in SUBSET (1 .. Len(lines)) /\ LinesOf(more, j, o, k) = js
    BY <1>1, <2>2, LinesGrow DEF more, i, n, key
  <2> HIDE DEF js
  <2>4. Worth(more, j, js) = Worth(lines, j, js)
    BY <1>1, <2>1, <2>3, WorthGrows DEF more
  <2> QED
    BY <2>1, <2>3, <2>4
<1>7. ASSUME NEW o \in MetricName
      PROVE  /\ after.shed[o] = Cardinality(Turned(more, after, o))
             /\ \A j \in Turned(more, after, o) : Cardinality(DOMAIN after.tables[more[j].instrument][o]) = SeriesBound
  <2> DEFINE t == Turned(lines, tel, o)
  <2>1. t \in SUBSET (1 .. Len(lines)) /\ Cardinality(t) \in Nat /\ Cardinality(t \cup {m}) = Cardinality(t) + 1
    BY <1>1, TurnedGrow, TurnedCounts DEF m
  <2>2. Turned(more, after, o) = IF n = o THEN t \cup {m} ELSE t
    <3>1. Turned(more, after, o) = Turned(more, tel, o)
      BY <1>2 DEF Turned
    <3>2. n = o => key \notin DOMAIN tel.tables[i][o]
      BY <1>5 DEF series
    <3> QED
      BY <1>1, <3>1, <3>2, TurnedGrow DEF more, n, key, i, m
  <2>3. tel.shed[o] = Cardinality(t) /\ \A j \in t : Cardinality(DOMAIN tel.tables[lines[j].instrument][o]) = SeriesBound
    BY <1>4
  <2>4. \A j \in 1 .. Len(lines) : more[j] = lines[j]
    BY <1>1, OneMore DEF more
  <2>5. more[m] = line
    BY <1>1, OneMore DEF more, m
  <2> HIDE DEF t
  <2>6. after.shed[o] = Cardinality(Turned(more, after, o))
    BY <1>2, <2>1, <2>2, <2>3
  <2>7. ASSUME NEW j \in Turned(more, after, o)
        PROVE  Cardinality(DOMAIN after.tables[more[j].instrument][o]) = SeriesBound
    <3>1. CASE j \in t
      BY <1>2, <2>1, <2>3, <2>4, <3>1
    <3>2. CASE j \notin t
      <4>1. j = m /\ n = o
        BY <2>2, <3>2
      <4>2. more[j].instrument = i
        BY <2>5, <4>1 DEF i
      <4> QED
        BY <1>2, <1>5, <4>1, <4>2 DEF series
    <3> QED
      BY <3>1, <3>2
  <2> QED
    BY <2>6, <2>7
<1>8. Kept(more, after)
  BY <1>2, <1>3, <1>6, <1>7 DEF Kept
<1> QED
  BY <1>1, <1>2, <1>3, <1>6, <1>8 DEF KeptWell, more

\* Either way the telemetry tells of every line.
LEMMA PutKeeps ==
  ASSUME NEW lines, NEW tel, KeptWell(lines, tel), NEW line \in Measure
  PROVE  KeptWell(Append(lines, line), Put(tel, line))
<1>1. tel \in Telemetry
  BY DEF KeptWell
<1> DEFINE after == Put(tel, line)
<1>2. /\ after \in Telemetry
      /\ IF AdmitLocked(tel.tables[line.instrument][line.name], SeriesKey(line.tags))
         THEN PutOn(tel, line, after) ELSE PutOff(tel, line, after)
  BY <1>1, PutIs
<1> HIDE DEF after
<1>3. KeptWell(Append(lines, line), after)
  BY <1>2, PutOnKeeps, PutOffKeeps
<1> QED
  BY <1>3 DEF after


\* Lines one after the other.
LEMMA PutsKeep ==
  ASSUME NEW lines, NEW tel, KeptWell(lines, tel), NEW ls \in Seq(Measure)
  PROVE  KeptWell(lines \o ls, FoldLeft(Put, tel, ls))
<1> DEFINE n == Len(ls)
           P(it) == it = [s \in SUBSET DOMAIN ls |-> IF s = {} THEN tel ELSE Put(it[s \ {Max(s)}], ls[Max(s)])]
           it0 == CHOOSE it : P(it)
           h == [p \in (1 .. n) \X Telemetry |-> Put(p[2], ls[p[1]])]
<1>1. FoldLeft(Put, tel, ls) = it0[DOMAIN ls]
  BY DEF FoldLeft, MapThenFoldSet
<1>2. n \in Nat /\ DOMAIN ls = 1 .. n /\ (\A k \in 1 .. n : ls[k] \in Measure) /\ tel \in Telemetry /\ lines \in Seq(Measure)
  BY DEF KeptWell
<1>3. \A p \in (1 .. n) \X Telemetry : h[p] = Put(p[2], ls[p[1]]) /\ h[p] \in Telemetry
  BY <1>2, PutIs
<1>4. h \in [(1 .. n) \X Telemetry -> Telemetry]
  BY <1>3
<1> HIDE DEF h, n
<1>5. /\ \E it \in [SUBSET (1 .. n) -> Telemetry] :
            it = [s \in SUBSET (1 .. n) |-> IF s = {} THEN tel ELSE h[<<Max(s), it[s \ {Max(s)}]>>]]
      /\ \A s \in SUBSET (1 .. n) : s # {} => Max(s) \in s
      /\ \A k \in 1 .. n : Max(1 .. k) = k /\ (1 .. k) \ {k} = 1 .. (k - 1)
  BY <1>2, <1>4, LeftFoldExists
<1>6. PICK it \in [SUBSET (1 .. n) -> Telemetry] :
        it = [s \in SUBSET (1 .. n) |-> IF s = {} THEN tel ELSE h[<<Max(s), it[s \ {Max(s)}]>>]]
  BY <1>5
<1>7. P(it)
  <2>1. ASSUME NEW s \in SUBSET (1 .. n), s # {}
        PROVE  h[<<Max(s), it[s \ {Max(s)}]>>] = Put(it[s \ {Max(s)}], ls[Max(s)])
    <3> DEFINE y == s \ {Max(s)}
               m == Max(s)
    <3>1. m \in 1 .. n /\ y \in SUBSET (1 .. n)
      BY <1>5, <2>1
    <3> HIDE DEF m, y
    <3>2. <<m, it[y]>> \in (1 .. n) \X Telemetry
      BY <1>6, <3>1
    <3>3. h[<<m, it[y]>>] = Put(it[y], ls[m])
      BY <1>3, <3>2
    <3> QED
      BY <3>3 DEF m, y
  <2> QED
    BY <1>2, <1>6, <2>1
<1>8. P(it0)
  <2> HIDE DEF P
  <2> QED
    BY <1>7
<1> HIDE DEF it0
<1> DEFINE f(k) == it0[1 .. k]
           upto(k) == lines \o SubSeq(ls, 1, k)
           G == {k \in 0 .. n : KeptWell(upto(k), f(k))}
<1>9. 0 \in G
  <2>1. 1 .. 0 = {} /\ {} \in SUBSET DOMAIN ls
    OBVIOUS
  <2>2. f(0) = tel
    BY <1>8, <2>1
  <2>3. SubSeq(ls, 1, 0) = <<>>
    OBVIOUS
  <2>4. upto(0) = lines
    BY <1>2, <2>3
  <2> HIDE DEF upto, f
  <2> QED
    BY <1>2, <2>2, <2>4
<1>10. ASSUME NEW k \in 1 .. n, k - 1 \in G PROVE k \in G
  <2>1. 1 .. k \in SUBSET DOMAIN ls /\ 1 .. k # {} /\ k \in 0 .. n
    <3>1. n \in Nat /\ DOMAIN ls = 1 .. n
      BY <1>2
    <3> HIDE DEF G, n
    <3>2. 1 .. k \in SUBSET (1 .. n)
      BY <3>1
    <3>3. k \in 1 .. k
      BY <3>1
    <3>4. k \in 0 .. n
      BY <3>1
    <3> QED
      BY <3>1, <3>2, <3>3, <3>4
  <2>2. f(k) = Put(f(k - 1), ls[k])
    <3> DEFINE s == 1 .. k
    <3>1. s \in SUBSET DOMAIN ls /\ s # {} /\ Max(s) = k /\ s \ {k} = 1 .. (k - 1)
      BY <1>5, <2>1
    <3> HIDE DEF s
    <3>2. it0[s] = Put(it0[s \ {Max(s)}], ls[Max(s)])
      BY <1>8, <3>1
    <3>3. it0[s] = Put(it0[1 .. (k - 1)], ls[k])
      BY <3>1, <3>2
    <3> QED
      BY <3>3 DEF s
  <2>3. upto(k) = Append(upto(k - 1), ls[k])
    <3> DEFINE s == SubSeq(ls, 1, k - 1)
               x == ls[k]
    <3>1. SubSeq(ls, 1, k) = Append(s, x) /\ s \in Seq(Measure) /\ x \in Measure
      BY <1>2 DEF n
    <3> HIDE DEF s, x
    <3>2. lines \o Append(s, x) = Append(lines \o s, x)
      BY <1>2, <3>1
    <3> QED
      BY <3>1, <3>2 DEF s, x
  <2> HIDE DEF upto, f
  <2>4. KeptWell(upto(k - 1), f(k - 1))
    BY <1>10
  <2>5. KeptWell(upto(k), f(k))
    BY <1>2, <2>2, <2>3, <2>4, PutKeeps
  <2> QED
    BY <2>1, <2>5
<1>11. n \in G
  <2>1. 0 .. n \subseteq G
    <3> HIDE DEF G
    <3> QED
      BY <1>2, <1>9, <1>10, UpInduction
  <2> HIDE DEF G
  <2> QED
    BY <1>2, <2>1
<1>12. SubSeq(ls, 1, n) = ls
  BY DEF n
<1> QED
  BY <1>1, <1>2, <1>11, <1>12

\* What a datagram holds, and what is read of it, are measures.
LEMMA ParsedIs ==
  ASSUME NEW d \in Seq(Measure \cup {Malformed})
  PROVE  Parsed(d) \in Seq(Measure)
<1> DEFINE S == {i \in DOMAIN d : d[i] # Malformed}
           good == AtPlaces(d, S)
           Line == Measure \cup {Malformed}
<1>1. S \in SUBSET (1 .. Len(d)) /\ \A i \in S : d[i] \in Measure
  OBVIOUS
<1>2. good \in Seq(Measure)
  <2> HIDE DEF S, good
  <2>1. PICK o \in Seq(S) : /\ AtPlaces(d, S) \in Seq(Line) /\ Len(AtPlaces(d, S)) = Len(o)
                            /\ \A k \in 1 .. Len(o) : AtPlaces(d, S)[k] = d[o[k]]
    BY <1>1, PlacesHold
  <2>2. good \in Seq(Line) /\ Len(good) = Len(o) /\ \A k \in 1 .. Len(o) : good[k] = d[o[k]]
    BY <2>1 DEF good
  <2>3. \A k \in 1 .. Len(good) : good[k] \in Measure
    <3>1. \A k \in 1 .. Len(o) : o[k] \in S
      OBVIOUS
    <3> QED
      BY <1>1, <2>2, <3>1
  <2>4. good \in [1 .. Len(good) -> Measure] /\ Len(good) \in Nat
    BY <2>2, <2>3
  <2> QED
    BY <2>4
<1> HIDE DEF S
<1>3. ASSUME NEW s \in Seq(Tag) PROVE ParseTags(s) \in Seq(Tag)
  <2> DEFINE n == Min({Len(s), MaxTags})
             looked == SubSeq(s, 1, n)
             places == {i \in DOMAIN looked : looked[i] # EmptyTag}
  <2>1. n \in Nat /\ n <= Len(s)
    <3>1. Len(s) \in Nat /\ MaxTags \in Nat
      BY StatsdLimits
    <3>2. n \in {Len(s), MaxTags}
      BY <3>1, LesserIs
    <3>3. n <= Len(s)
      <4>1. {Len(s), MaxTags} \subseteq Int /\ {Len(s), MaxTags} # {} /\ IsFiniteSet({Len(s), MaxTags})
        <5>1. ASSUME NEW a, NEW b PROVE IsFiniteSet({a, b})
          <6>1. IsFiniteSet({a}) /\ {a} \cup {b} = {a, b}
            BY FS_Singleton
          <6> QED
            BY <6>1, FS_AddElement
        <5>2. IsFiniteSet({Len(s), MaxTags})
          BY <5>1
        <5> QED
          BY <3>1, <5>2
      <4> QED
        BY <4>1, EndsOf
    <3> HIDE DEF n
    <3> QED
      BY <3>1, <3>2, <3>3
  <2> HIDE DEF n
  <2>2. looked \in Seq(Tag)
    BY <2>1
  <2> HIDE DEF looked
  <2>3. places \in SUBSET (1 .. Len(looked))
    BY <2>2
  <2> HIDE DEF places
  <2>4. AtPlaces(looked, places) \in Seq(Tag)
    BY <2>2, <2>3, PlacesHold
  <2> QED
    BY <2>4 DEF ParseTags, looked, places, n
<1>4. \A l \in Measure : [l EXCEPT !.tags = ParseTags(@)] \in Measure
  BY <1>3 DEF Measure
<1> HIDE DEF good
<1>5. [i \in DOMAIN good |-> [good[i] EXCEPT !.tags = ParseTags(@)]] \in Seq(Measure)
  BY <1>2, <1>4
<1> QED
  BY <1>5 DEF Parsed, good, S

\* A datagram keeps its kind in the buffer.
LEMMA BufferedIs ==
  ASSUME NEW sent \in Datagrams, NEW d \in Buffered(sent)
  PROVE  d \in Seq(Measure \cup {Malformed})
<1> DEFINE Line == Measure \cup {Malformed}
<1>1. sent \in Seq(Line) /\ BufferLines \in Nat \ {0}
  BY StatsdLimits
<1>2. CASE Len(sent) <= BufferLines
  BY <1>1, <1>2 DEF Buffered
<1>3. CASE ~(Len(sent) <= BufferLines)
  <2> DEFINE last == sent[BufferLines]
  <2>1. last \in Line /\ \A i \in 1 .. BufferLines : sent[i] \in Line
    BY <1>1, <1>3
  <2>2. last # Malformed => [last EXCEPT !.tags = <<>>] \in Measure
    <3>1. last # Malformed => last \in Measure
      BY <2>1
    <3>2. \A l \in Measure : [l EXCEPT !.tags = <<>>] \in Measure
      <4>1. <<>> \in Seq(Tag)
        OBVIOUS
      <4> DEFINE none == <<>>
      <4> HIDE DEF none
      <4>2. \A l \in Measure : none \in Seq(Tag) => [l EXCEPT !.tags = none] \in Measure
        BY DEF Measure
      <4> QED
        BY <4>1, <4>2 DEF none
    <3> HIDE DEF last
    <3> QED
      BY <3>1, <3>2
  <2> HIDE DEF last
  <2>3. PICK cut \in {last, Malformed} \cup IF last = Malformed THEN {} ELSE {[last EXCEPT !.tags = <<>>]} :
          d = [i \in 1 .. BufferLines |-> IF i < BufferLines THEN sent[i] ELSE cut]
    BY <1>3 DEF Buffered, last
  <2>4. cut \in Line
    BY <2>1, <2>2, <2>3
  <2> QED
    BY <1>1, <2>1, <2>3, <2>4
<1> QED
  BY <1>2, <1>3

\* What is read of a datagram in the buffer.
LEMMA PacketIs == ASSUME NEW d \in Packets PROVE Parsed(d) \in Seq(Measure)
<1>1. CASE d = <<>>
  <2>1. d \in Seq(Measure \cup {Malformed})
    BY <1>1
  <2> QED
    BY <2>1, ParsedIs
<1>2. CASE d # <<>>
  <2>1. PICK sent \in Datagrams : d \in Buffered(sent)
    BY <1>2 DEF Packets
  <2> QED
    BY <2>1, BufferedIs, ParsedIs
<1> QED
  BY <1>1, <1>2

\* The telemetry tells of every line taken so far.
TablesInv == KeptWell(LinesTaken, [tables |-> tables, shed |-> shedSeries])

LEMMA TablesBegin == ASSUME StatsdInit PROVE TablesInv
<1> DEFINE none == [k \in {} |-> 0]
           tel == [tables |-> tables, shed |-> shedSeries]
<1>1. /\ tables = [i \in Instrument |-> [n \in MetricName |-> none]]
      /\ shedSeries = [n \in MetricName |-> 0] /\ taken = <<>>
  BY DEF StatsdInit
<1>2. LinesTaken = <<>>
  <2>1. [i \in DOMAIN taken |-> Parsed(taken[i])] = <<>>
    BY <1>1
  <2> QED
    BY <2>1, FlattenNone DEF LinesTaken
<1>3. DOMAIN none = {} /\ \A i \in Instrument : none \in SeriesOf(i)
  <2>1. {} \in SUBSET Keys /\ \A V : none \in [{} -> V]
    OBVIOUS
  <2> HIDE DEF none
  <2>2. ASSUME NEW i \in Instrument PROVE none \in SeriesOf(i)
    BY <2>1 DEF SeriesOf
  <2>3. DOMAIN none = {}
    BY DEF none
  <2> QED
    BY <2>2, <2>3
<1> HIDE DEF none
<1>4. tel \in Telemetry
  <2> DEFINE AllSeries == UNION {SeriesOf(i) : i \in Instrument}
  <2>1. none \in AllSeries
    BY <1>3 DEF Instrument
  <2> HIDE DEF AllSeries
  <2>2. tables \in [Instrument -> [MetricName -> AllSeries]] /\ shedSeries \in [MetricName -> Nat]
    BY <1>1, <2>1
  <2>3. \A i \in Instrument, n \in MetricName : tables[i][n] \in SeriesOf(i)
    BY <1>1, <1>3
  <2> QED
    BY <2>2, <2>3 DEF Telemetry, AllSeries
<1>5. \A i \in Instrument, n \in MetricName : DOMAIN tel.tables[i][n] = {} /\ tel.shed[n] = 0
  BY <1>1, <1>3
<1> HIDE DEF tel
<1>6. IsFiniteSet({}) /\ Cardinality({}) = 0 /\ 0 <= SeriesBound
  BY FS_EmptySet, StatsdLimits
<1>7. \A n : Turned(<<>>, tel, n) = {}
  BY DEF Turned
<1>8. Kept(<<>>, tel)
  <2>1. ASSUME NEW i \in Instrument, NEW n \in MetricName
        PROVE  /\ Cardinality(DOMAIN tel.tables[i][n]) <= SeriesBound
               /\ \A k \in DOMAIN tel.tables[i][n] : tel.tables[i][n][k] = Worth(<<>>, i, LinesOf(<<>>, i, n, k))
    <3>1. DOMAIN tel.tables[i][n] = {}
      BY <1>5
    <3> QED
      BY <1>6, <3>1
  <2>2. ASSUME NEW n \in MetricName
        PROVE  /\ tel.shed[n] = Cardinality(Turned(<<>>, tel, n))
               /\ \A j \in Turned(<<>>, tel, n) : Cardinality(DOMAIN tel.tables[<<>>[j].instrument][n]) = SeriesBound
    <3>1. tel.shed[n] = 0
      BY <1>5 DEF Instrument
    <3> QED
      BY <1>6, <1>7, <3>1
  <2> DEFINE nothing == <<>>
  <2> HIDE DEF nothing
  <2>3. Kept(nothing, tel)
    BY <2>1, <2>2 DEF Kept, nothing
  <2> QED
    BY <2>3 DEF nothing
<1>9. KeptWell(<<>>, tel)
  <2>1. ASSUME NEW i \in Instrument, NEW n \in MetricName
        PROVE  IsFiniteSet(DOMAIN tel.tables[i][n]) /\ \A k \in DOMAIN tel.tables[i][n] : LinesOf(<<>>, i, n, k) # {}
    <3>1. DOMAIN tel.tables[i][n] = {}
      BY <1>5
    <3> QED
      BY <1>6, <3>1
  <2>2. <<>> \in Seq(Measure)
    OBVIOUS
  <2> QED
    BY <1>4, <1>8, <2>1, <2>2 DEF KeptWell
<1> QED
  BY <1>2, <1>9 DEF TablesInv, tel

\* A datagram adds its lines to what was taken, ...
LEMMA LinesAdded ==
  ASSUME StatsdInv, NEW d \in Packets, taken' = Append(taken, d)
  PROVE  LinesTaken' = LinesTaken \o Parsed(d)
<1> DEFINE n == Len(taken)
           ls == [i \in DOMAIN taken |-> Parsed(taken[i])]
           more == [i \in DOMAIN taken' |-> Parsed(taken'[i])]
           l == Parsed(d)
<1>1. taken \in Seq(Packets)
  BY DEF StatsdInv, StatsdType
<1>2. /\ taken' \in Seq(Packets) /\ n \in Nat /\ DOMAIN taken = 1 .. n /\ DOMAIN taken' = 1 .. n + 1 /\ taken'[n + 1] = d
      /\ \A i \in 1 .. n : taken'[i] = taken[i] /\ taken[i] \in Packets
  BY <1>1
<1>3. l \in Seq(Measure) /\ \A i \in 1 .. n : Parsed(taken[i]) \in Seq(Measure)
  BY <1>2, PacketIs
<1>4. ls \in Seq(Seq(Measure)) /\ Len(ls) = n /\ \A i \in 1 .. n : ls[i] = Parsed(taken[i])
  <2>1. ls \in [1 .. n -> Seq(Measure)] /\ \A i \in 1 .. n : ls[i] = Parsed(taken[i])
    BY <1>2, <1>3
  <2> HIDE DEF ls
  <2> QED
    BY <1>2, <2>1
<1>5. more = [i \in 1 .. n + 1 |-> IF i = n + 1 THEN l ELSE ls[i]]
  <2>1. ASSUME NEW i \in 1 .. n + 1 PROVE Parsed(taken'[i]) = IF i = n + 1 THEN l ELSE ls[i]
    <3>1. CASE i = n + 1
      BY <1>2, <3>1
    <3>2. CASE i # n + 1
      <4>1. i \in 1 .. n
        BY <1>2, <3>2
      <4> QED
        BY <1>2, <1>4, <3>2, <4>1
    <3> QED
      BY <3>1, <3>2
  <2> HIDE DEF ls, l
  <2> QED
    BY <1>2, <2>1
<1> HIDE DEF ls, l, n
<1>6. Append(ls, l) = [i \in 1 .. n + 1 |-> IF i = n + 1 THEN l ELSE ls[i]]
  <2> DEFINE q == Append(ls, l)
  <2>1. q \in Seq(Seq(Measure)) /\ Len(q) = n + 1 /\ q[n + 1] = l /\ \A i \in 1 .. n : q[i] = ls[i]
    BY <1>2, <1>3, <1>4
  <2> HIDE DEF q
  <2>2. ASSUME NEW i \in 1 .. n + 1 PROVE q[i] = IF i = n + 1 THEN l ELSE ls[i]
    <3>1. n \in Nat
      BY <1>2
    <3>2. i = n + 1 \/ i \in 1 .. n
      BY <3>1
    <3>3. n + 1 \notin 1 .. n
      BY <3>1
    <3> HIDE DEF n
    <3> QED
      BY <2>1, <3>2, <3>3
  <2>3. q = [i \in 1 .. n + 1 |-> q[i]]
    <3>1. q \in [1 .. n + 1 -> Seq(Measure)]
      <4>1. DOMAIN q = 1 .. n + 1 /\ q \in [1 .. Len(q) -> Seq(Measure)]
        BY <2>1
      <4> QED
        BY <2>1, <4>1
    <3> HIDE DEF n
    <3> QED
      BY <3>1
  <2>4. q = [i \in 1 .. n + 1 |-> IF i = n + 1 THEN l ELSE ls[i]]
    BY <2>2, <2>3
  <2> QED
    BY <2>4 DEF q
<1>7. FlattenSeq(Append(ls, l)) = FlattenSeq(ls) \o l
  BY <1>3, <1>4, FlattenAppends
<1>8. LinesTaken' = FlattenSeq(more) /\ LinesTaken = FlattenSeq(ls)
  BY DEF LinesTaken, ls
<1> QED
  BY <1>5, <1>6, <1>7, <1>8 DEF l

\* ... and puts them one after the other.
LEMMA TablesTake ==
  ASSUME StatsdInv, TablesInv, NEW g \in Listens, ApplyPacket(g)
  PROVE  TablesInv'
<1> DEFINE d == reader[g].datagram
           tel == [tables |-> tables, shed |-> shedSeries]
           after == FoldLeft(Put, tel, Parsed(d))
<1>1. d \in Packets
  BY DEF StatsdInv, StatsdType, Reader
<1>2. taken' = Append(taken, d) /\ tables' = after.tables /\ shedSeries' = after.shed
  BY DEF ApplyPacket
<1> HIDE DEF d
<1>3. LinesTaken' = LinesTaken \o Parsed(d)
  BY <1>1, <1>2, LinesAdded
<1>4. KeptWell(LinesTaken, tel)
  BY DEF TablesInv
<1> HIDE DEF tel
<1>5. KeptWell(LinesTaken \o Parsed(d), after)
  BY <1>1, <1>4, PacketIs, PutsKeep
<1> HIDE DEF after
<1>6. after = [tables |-> after.tables, shed |-> after.shed]
  BY <1>5 DEF KeptWell, Telemetry
<1> QED
  BY <1>2, <1>3, <1>5, <1>6 DEF TablesInv

LEMMA TablesStep == ASSUME StatsdInv, TablesInv, [StatsdNext]_statsdVars PROVE TablesInv'
<1>1. ASSUME UNCHANGED <<tables, shedSeries, taken>> PROVE TablesInv'
  BY <1>1 DEF TablesInv, LinesTaken
<1>2. CASE StartDisabled \/ StopCancels \/ StopCloses \/ StopEnds \/ UNCHANGED statsdVars
  BY <1>1, <1>2 DEF StartDisabled, StopCancels, StopCloses, StopEnds, statsdVars
<1>3. ASSUME NEW g \in Listens,
             \/ StartListening(g) \/ ReaderStarts(g) \/ ReaderLeaves(g) \/ ReaderReads(g)
             \/ ReadTimesOut(g) \/ ReadReturns(g) \/ ReadFails(g)
      PROVE  TablesInv'
  BY <1>1, <1>3 DEF StartListening, ReaderStarts, ReaderLeaves, ReaderReads, ReadTimesOut, ReadReturns, ReadFails, Left
<1>4. ASSUME NEW g \in Listens, ApplyPacket(g) PROVE TablesInv'
  BY <1>4, TablesTake
<1> QED
  BY <1>2, <1>3, <1>4 DEF StatsdNext

LEMMA InvKeepsMeasures == ASSUME TablesInv PROVE MeasuresAreKept
<1>1. LinesTaken \in Seq(Measure) /\ Kept(LinesTaken, [tables |-> tables, shed |-> shedSeries])
  BY DEF TablesInv, KeptWell
<1>2. \A i \in DOMAIN LinesTaken : LinesTaken[i].tags \in Seq(Tag)
  <2>1. \A i \in DOMAIN LinesTaken : LinesTaken[i] \in Measure
    BY <1>1
  <2> QED
    BY <2>1 DEF Measure
<1> QED
  BY <1>1, <1>2, KeyIs DEF MeasuresAreKept

-----------------------------------------------------------------------------
(* The intake. *)

\* (IntakeIsTrue.) For every bound of the tables, of a line's tags and of the buffer, whatever is
\* sent and however often the two modules are started and stopped: what is sent is taken as it
\* came.  The same tags are the same series, in whatever order they come; a series that has its
\* place keeps every measure made of it; what is turned away is counted under its name, and only
\* when there is no place left; datagrams and requests are each counted once.
THEOREM IntakeAnswers ==
  /\ StatsdInit /\ ReceiverInit
  /\ [][(StatsdNext /\ UNCHANGED receiverVars) \/ (ReceiverNext /\ UNCHANGED statsdVars)]_<<statsdVars, receiverVars>>
  => []IntakeIsTrue
<1> DEFINE Inv == StatsdInv /\ TablesInv /\ ReceiverInv
           Step == [(StatsdNext /\ UNCHANGED receiverVars) \/ (ReceiverNext /\ UNCHANGED statsdVars)]_<<statsdVars, receiverVars>>
<1>1. StatsdInit /\ ReceiverInit => Inv
  BY StatsdBegins, TablesBegin, ReceiverInitInv
<1>2. Inv /\ Step => Inv'
  <2> SUFFICES ASSUME Inv, Step PROVE Inv'
    OBVIOUS
  <2>1. [StatsdNext]_statsdVars /\ [ReceiverNext]_receiverVars
    OBVIOUS
  <2> QED
    BY <2>1, StatsdSteps, TablesStep, ReceiverNextKeeps
<1>3. Inv => IntakeIsTrue
  <2> SUFFICES ASSUME Inv PROVE IntakeIsTrue
    OBVIOUS
  <2>1. RequestsAreAnswered
    BY ReceiverTrue
  <2> QED
    BY <2>1, InvKeepsMeasures, InvIsComplete, InvCountsDatagrams DEF IntakeIsTrue, DatagramsBecomeSeries
<1> QED
  BY <1>1, <1>2, <1>3, PTL

-----------------------------------------------------------------------------
(* The readers that keep a place. *)

Sources == {"journald", "logins", "eventlog", "lastlog", "archives"}
Cell == [id : Nat, type : {"data", "entry"}, item : Nat, readable : BOOLEAN, whole : BOOLEAN]
Telling == [id : Nat, text : Nat]

\* The limits as the provers need them, taken from CursorAssumption.
LEMMA CursorLimits ==
  /\ CursorBatch \in Nat \ {0} /\ EventBuffer \in Nat \ {0} /\ JournalBlock \in Nat \ {0}
  /\ Uids \subseteq Nat /\ Archives \subseteq Nat /\ IsFiniteSet(Archives)
BY CursorAssumption

\* The number before that of the first cell.
Base == written - Len(cells)

\* Cells are numbered one after the other, only the last may be half written, those of an event
\* log are entries that can be read, and an entry of the journal follows its text.
CellsInv ==
  /\ source \in Sources
  /\ written \in Nat /\ cells \in Seq(Cell) /\ Len(cells) <= written
  /\ \A i \in 1 .. Len(cells) :
       /\ cells[i].id = Base + i
       /\ i < Len(cells) => Whole(i)
       /\ source = "eventlog" => cells[i].type = "entry" /\ cells[i].readable /\ Whole(i)
       /\ source = "journald" /\ cells[i].type = "entry" => cells[i].item \in 1 .. (i - 1)

\* The reader stands inside the file it has looked at, which has not shrunk.
PlaceInv ==
  /\ cursor \in [offset : Nat \cup {-1}, size : Int]
  /\ replacements \in [made : Nat, unread : BOOLEAN] /\ astray \in BOOLEAN
  /\ told \in Seq(Telling) /\ \A e \in ToSet(told) : e.id <= written
  /\ cursor.offset = -1 => told = <<>> /\ ~astray
  /\ ~astray /\ cursor.offset # -1 /\ ~replacements.unread =>
       cursor.offset <= Len(cells) /\ cursor.size <= FileSize

\* What is told of a cell, and what should be.
TextsTold(n) == {e.text : e \in {t \in ToSet(told) : t.id = n}}
PassedWell(i) ==
  cells[i].id \notin missed => Whole(i) /\ TextsTold(cells[i].id) = IF Shows(i) THEN {Text(i)} ELSE {}

\* Nothing is told twice, nothing before it is reached, and what is passed is told.
ToldInv ==
  ~astray =>
    /\ \A j, k \in 1 .. Len(told) : told[j].id = told[k].id => j = k
    /\ \A e \in ToSet(told) : e.id <= Base + IF replacements.unread THEN 0 ELSE cursor.offset
    /\ cursor.offset # -1 /\ ~replacements.unread => \A i \in 1 .. cursor.offset : PassedWell(i)

LogInv == CellsInv /\ PlaceInv /\ ToldInv

-----------------------------------------------------------------------------
LEMMA BlocksGrow ==
  ASSUME NEW n \in Nat \ {0}, NEW a \in Nat, NEW b \in Nat, a <= b
  PROVE  n * ((a + n) \div n) <= n * ((b + n) \div n)
<1> DEFINE x == (a + n) \div n
           y == (b + n) \div n
<1>1. x \in Nat /\ y \in Nat /\ x <= y
  OBVIOUS
<1> HIDE DEF x, y
<1>2. PICK d \in Nat : y = x + d
  <2>1. y - x \in Nat /\ y = x + (y - x)
    BY <1>1
  <2> QED
    BY <2>1
<1>3. n * (x + d) = n * x + n * d /\ n * d \in Nat /\ n * x \in Nat
  BY <1>1
<1> QED
  BY <1>2, <1>3 DEF x, y

\* The last of some numbers up to n, or where they begin.
LEMMA LastOfThem ==
  ASSUME NEW from \in Nat, NEW n \in Nat, NEW K, K \subseteq (from + 1) .. n
  PROVE  /\ Max({from} \cup K) \in {from} \cup K
         /\ from <= Max({from} \cup K) /\ Max({from} \cup K) \in Nat
         /\ from <= n => Max({from} \cup K) <= n
<1> DEFINE T == {from} \cup K
<1>1. IsFiniteSet(T) /\ T \subseteq Nat /\ T # {}
  <2>1. IsFiniteSet((from + 1) .. n)
    <3>1. from + 1 \in Int /\ n \in Int
      OBVIOUS
    <3> QED
      BY <3>1, FS_Interval
  <2>2. IsFiniteSet(K)
    BY <2>1, FS_Subset
  <2> QED
    BY <2>2, FS_AddElement
<1>2. PICK m \in T : \A y \in T : y <= m
  <2> HIDE DEF T
  <2> QED
    BY <1>1, GreatestIn
<1>3. Max(T) \in T /\ \A y \in T : y <= Max(T)
  <2>1. \E x \in T : \A y \in T : x >= y
    BY <1>1, <1>2
  <2> HIDE DEF T
  <2>2. Max(T) \in T /\ \A y \in T : Max(T) >= y
    BY <2>1 DEF Max
  <2> QED
    BY <1>1, <2>2
<1>4. from \in T /\ \A y \in T : y = from \/ y <= n
  OBVIOUS
<1> HIDE DEF T
<1>5. from <= Max(T) /\ Max(T) \in Nat /\ (from <= n => Max(T) <= n)
  BY <1>1, <1>3, <1>4
<1> QED
  BY <1>3, <1>5 DEF T

LEMMA MinIs ==
  ASSUME NEW T, T \subseteq Nat, T # {}
  PROVE  Min(T) \in T /\ \A y \in T : Min(T) <= y
<1>1. \E x \in T : \A y \in T : x <= y
  BY SmallestIn
<1> QED
  BY <1>1 DEF Min

\* A cell by its fields.
LEMMA CellIs ==
  ASSUME CellsInv, NEW i \in 1 .. Len(cells)
  PROVE  /\ cells[i] \in Cell /\ cells[i].id \in Nat /\ cells[i].whole \in BOOLEAN
         /\ cells[i].id = Base + i /\ Base \in Nat /\ Len(cells) \in Nat
<1>1. cells[i] \in Cell /\ Len(cells) \in Nat
  BY DEF CellsInv
<1>2. cells[i].id \in Nat /\ cells[i].whole \in BOOLEAN
  BY <1>1 DEF Cell
<1>3. cells[i].id = Base + i /\ Base \in Nat
  BY <1>1 DEF CellsInv, Base
<1> QED
  BY <1>1, <1>2, <1>3

\* An entry that shows has a text.
LEMMA TextIs ==
  ASSUME CellsInv, IsLog, NEW i \in 1 .. Len(cells), Shows(i)
  PROVE  Text(i) \in Nat
<1>1. CASE source = "journald"
  <2>1. cells[i].item \in 1 .. (i - 1)
    BY <1>1 DEF Shows, CellsInv
  <2>2. cells[i].item \in 1 .. Len(cells)
    BY <2>1, CellIs
  <2> QED
    BY <1>1, <2>2, CellIs DEF Text
<1>2. CASE source # "journald"
  BY <1>2, CellIs DEF Text
<1> QED
  BY <1>1, <1>2

LEMMA TornIs ==
  ASSUME CellsInv
  PROVE  /\ Torn <=> Len(cells) # 0 /\ ~cells[Len(cells)].whole
         /\ ~Torn => \A i \in 1 .. Len(cells) : Whole(i)
         /\ FileSize \in Int /\ Len(cells) \in Nat
<1>1. cells \in Seq(Cell) /\ Len(cells) \in Nat
  BY DEF CellsInv
<1>2. Torn <=> Len(cells) # 0 /\ ~cells[Len(cells)].whole
  BY <1>1 DEF Torn, Last
<1>3. ~Torn => \A i \in 1 .. Len(cells) : Whole(i)
  BY <1>1, <1>2 DEF CellsInv, Whole
<1>4. FileSize \in Int
  <2>1. (Len(cells) + JournalBlock) \div JournalBlock \in Int
    BY <1>1, CursorLimits
  <2> QED
    BY <1>1, <2>1, CursorLimits DEF FileSize
<1> QED
  BY <1>1, <1>2, <1>3, <1>4

-----------------------------------------------------------------------------
\* The writers.

LEMMA WriteKeeps == ASSUME LogInv, Write PROVE LogInv'
<1> DEFINE n == Len(cells)
<1>0. /\ CellsInv /\ PlaceInv /\ ToldInv /\ IsLog /\ ~Torn
      /\ n \in Nat /\ written \in Nat /\ cells \in Seq(Cell) /\ n <= written
  BY DEF LogInv, Write, CellsInv
<1>1. PICK s \in Shapes, whole \in {TRUE, source = "eventlog"} :
        cells' = Append(cells, [id |-> written', type |-> s.type, item |-> s.item, readable |-> s.readable, whole |-> whole])
  BY DEF Write
<1>2. written' = written + 1 /\ UNCHANGED <<source, replacements, cursor, told, missed, astray>>
  BY DEF Write, tableVars
<1> DEFINE c == [id |-> written', type |-> s.type, item |-> s.item, readable |-> s.readable, whole |-> whole]
<1>3. /\ s.type \in {"data", "entry"} /\ s.item \in Nat /\ s.readable \in BOOLEAN
      /\ source = "eventlog" => s.type = "entry" /\ s.readable
      /\ source = "journald" /\ s.type = "entry" => s.item \in 1 .. n
  <2>1. CASE source = "journald"
    <3>1. \/ \E r \in BOOLEAN : s = [type |-> "data", item |-> 0, readable |-> r]
          \/ \E i \in 1 .. n : s = [type |-> "entry", item |-> i, readable |-> TRUE]
      BY <2>1 DEF Shapes
    <3>2. CASE \E r \in BOOLEAN : s = [type |-> "data", item |-> 0, readable |-> r]
      BY <2>1, <3>2
    <3>3. CASE \E i \in 1 .. n : s = [type |-> "entry", item |-> i, readable |-> TRUE]
      <4>1. PICK i \in 1 .. n : s = [type |-> "entry", item |-> i, readable |-> TRUE]
        BY <3>3
      <4>2. s.type = "entry" /\ s.item = i /\ s.readable = TRUE
        BY <4>1
      <4>3. s.readable \in BOOLEAN
        BY <4>2
      <4> QED
        BY <1>0, <2>1, <4>2, <4>3
    <3> QED
      BY <3>1, <3>2, <3>3
  <2>2. CASE source = "logins"
    <3>1. s \in {[type |-> "entry", item |-> 0, readable |-> r] : r \in BOOLEAN}
      BY <2>2 DEF Shapes
    <3> QED
      BY <2>2, <3>1
  <2>3. CASE source = "eventlog"
    <3>1. s = [type |-> "entry", item |-> 0, readable |-> TRUE]
      BY <2>3 DEF Shapes
    <3>2. s.type = "entry" /\ s.item = 0 /\ s.readable = TRUE
      BY <3>1
    <3>3. s.readable /\ s.readable \in BOOLEAN
      BY <3>2, Zenon
    <3>4. s.type \in {"data", "entry"} /\ s.item \in Nat /\ source # "journald"
      BY <2>3, <3>2
    <3> QED
      BY <3>2, <3>3, <3>4, Zenon
  <2> QED
    BY <1>0, <2>1, <2>2, <2>3 DEF IsLog
<1>4. c \in Cell /\ (source = "eventlog" => c.whole)
  <2>1. whole \in BOOLEAN /\ (source = "eventlog" => whole)
    <3>1. CASE whole = TRUE
      BY <3>1, Zenon
    <3>2. CASE whole = (source = "eventlog")
      BY <3>2, Zenon
    <3> QED
      BY <3>1, <3>2, Zenon
  <2>2. written' \in Nat
    BY <1>0, <1>2
  <2>3. c.whole = whole /\ c \in Cell
    BY <1>3, <2>1, <2>2 DEF Cell
  <2> QED
    BY <2>1, <2>3
<1> HIDE DEF c
<1>5. /\ cells' \in Seq(Cell) /\ Len(cells') = n + 1
      /\ \A i \in 1 .. n : cells'[i] = cells[i]
      /\ cells'[n + 1] = c
  <2>1. cells' = Append(cells, c)
    BY <1>1 DEF c
  <2> QED
    BY <1>0, <1>4, <2>1
<1>6. Base' = Base /\ Base \in Nat
  BY <1>0, <1>2, <1>5 DEF Base
<1>7. c.id = Base + n + 1 /\ c.type = s.type /\ c.item = s.item /\ c.readable = s.readable
  BY <1>0, <1>2 DEF c, Base
<1> HIDE DEF n
<1>8. CellsInv'
  <2>1. ASSUME NEW i \in 1 .. Len(cells')
        PROVE  /\ cells'[i].id = Base' + i
               /\ i < Len(cells') => Whole(i)'
               /\ source' = "eventlog" => cells'[i].type = "entry" /\ cells'[i].readable /\ Whole(i)'
               /\ source' = "journald" /\ cells'[i].type = "entry" => cells'[i].item \in 1 .. (i - 1)
    <3>1. CASE i = n + 1
      BY <1>0, <1>2, <1>3, <1>4, <1>5, <1>6, <1>7, <3>1 DEF Whole
    <3>2. CASE i # n + 1
      <4>1. i \in 1 .. n
        BY <1>0, <1>5, <3>2
      <4>2. Whole(i)
        BY <1>0, <4>1, TornIs DEF n
      <4> QED
        BY <1>0, <1>2, <1>5, <1>6, <4>1, <4>2 DEF CellsInv, Whole, n
    <3> QED
      BY <3>1, <3>2
  <2> QED
    BY <1>0, <1>2, <1>5, <2>1 DEF CellsInv
<1>9. \A k \in Int : k <= FileSize => k <= FileSize'
  <2>2. FileSize' = CASE source = "journald" -> JournalBlock * ((n + 1 + JournalBlock) \div JournalBlock)
                      [] source = "logins" -> 2 * (n + 1) - IF Torn' THEN 1 ELSE 0
                      [] OTHER -> n + 1
    BY <1>2, <1>5 DEF FileSize
  <2>3. FileSize = CASE source = "journald" -> JournalBlock * ((n + JournalBlock) \div JournalBlock)
                     [] source = "logins" -> 2 * n
                     [] OTHER -> n
    BY <1>0 DEF FileSize, n
  <2>4. JournalBlock * ((n + JournalBlock) \div JournalBlock) <= JournalBlock * ((n + 1 + JournalBlock) \div JournalBlock)
    <3>1. n + 1 \in Nat /\ n <= n + 1
      BY <1>0
    <3> QED
      BY <1>0, <3>1, BlocksGrow, CursorLimits
  <2>5. /\ JournalBlock * ((n + JournalBlock) \div JournalBlock) \in Int
        /\ JournalBlock * ((n + 1 + JournalBlock) \div JournalBlock) \in Int
    <3>1. (n + JournalBlock) \div JournalBlock \in Int /\ (n + 1 + JournalBlock) \div JournalBlock \in Int
      BY <1>0, CursorLimits
    <3> QED
      BY <3>1, CursorLimits
  <2> QED
    BY <1>0, <2>2, <2>3, <2>4, <2>5
<1>10. PlaceInv'
  <2>1. n <= Len(cells') /\ Len(cells') \in Nat /\ written' \in Nat /\ written <= written'
    BY <1>0, <1>2, <1>5
  <2>2. ASSUME ~astray, cursor.offset # -1, ~replacements.unread
        PROVE  cursor.offset <= Len(cells') /\ cursor.size <= FileSize'
    <3>1. cursor.offset \in Nat /\ cursor.size \in Int /\ cursor.offset <= n /\ cursor.size <= FileSize
      BY <1>0, <2>2 DEF PlaceInv, n
    <3> QED
      BY <1>0, <1>9, <2>1, <3>1
  <2>3. \A e \in ToSet(told) : e \in Telling /\ e.id \in Nat /\ e.id <= written
    <3>1. told \in Seq(Telling) /\ \A e \in ToSet(told) : e.id <= written
      BY <1>0 DEF PlaceInv
    <3>2. \A j \in DOMAIN told : told[j] \in Telling
      BY <3>1
    <3>3. \A e \in ToSet(told) : e \in Telling
      BY <3>2 DEF ToSet
    <3> QED
      BY <3>1, <3>3 DEF Telling
  <2>4. \A e \in ToSet(told) : e.id <= written'
    BY <1>0, <2>1, <2>3
  <2> QED
    BY <1>0, <1>2, <2>2, <2>4 DEF PlaceInv, ToSet
<1>11. ToldInv'
  <2> SUFFICES ASSUME ~astray PROVE ToldInv'
    BY <1>2 DEF ToldInv
  <2>1. ASSUME cursor.offset # -1, ~replacements.unread, NEW i \in 1 .. cursor.offset
        PROVE  PassedWell(i)'
    <3>1. i \in 1 .. n /\ cells'[i] = cells[i]
      BY <1>0, <1>5, <2>1 DEF PlaceInv, n
    <3>2. Whole(i) => Whole(i)'
      BY <3>1 DEF Whole
    <3>3. Shows(i)' = Shows(i) /\ (Shows(i) => Text(i)' = Text(i))
      <4>1. source = "journald" /\ cells[i].type = "entry" => cells[i].item \in 1 .. n
        BY <1>0, <3>1 DEF CellsInv, n
      <4>2. source = "journald" /\ cells[i].type = "entry" => cells'[cells[i].item] = cells[cells[i].item]
        BY <1>5, <4>1
      <4> QED
        BY <1>2, <3>1, <4>2 DEF Shows, Text
    <3>4. TextsTold(cells[i].id)' = TextsTold(cells[i].id)
      BY <1>2, <3>1 DEF TextsTold, ToSet
    <3>5. PassedWell(i)
      BY <1>0, <2>1 DEF ToldInv
    <3> QED
      BY <1>2, <3>1, <3>2, <3>3, <3>4, <3>5 DEF PassedWell
  <2> QED
    BY <1>0, <1>2, <1>6, <2>1 DEF ToldInv, ToSet
<1> QED
  BY <1>8, <1>10, <1>11 DEF LogInv

LEMMA WriteEndsKeeps == ASSUME LogInv, WriteEnds PROVE LogInv'
<1> DEFINE n == Len(cells)
<1>0. /\ CellsInv /\ PlaceInv /\ ToldInv /\ IsLog /\ Torn
      /\ n \in Nat /\ n # 0 /\ written \in Nat /\ cells \in Seq(Cell) /\ n <= written
  BY TornIs DEF LogInv, WriteEnds, CellsInv
<1>1. /\ cells' = [cells EXCEPT ![n].whole = TRUE]
      /\ UNCHANGED <<source, written, replacements, cursor, told, missed, astray>>
  BY DEF WriteEnds, tableVars
<1>2. /\ cells' \in Seq(Cell) /\ Len(cells') = n
      /\ \A i \in 1 .. n : /\ cells'[i].id = cells[i].id /\ cells'[i].type = cells[i].type
                           /\ cells'[i].item = cells[i].item /\ cells'[i].readable = cells[i].readable
                           /\ cells'[i].whole \in BOOLEAN /\ cells'[i].whole = (i = n \/ cells[i].whole)
  <2>1. n \in 1 .. n /\ cells \in [1 .. n -> Cell]
    BY <1>0
  <2>2. \A i \in 1 .. n : cells[i] \in Cell
    BY <2>1
  <2>3. [cells[n] EXCEPT !.whole = TRUE] \in Cell
    BY <2>1 DEF Cell
  <2>4. cells' = [i \in 1 .. n |-> IF i = n THEN [cells[n] EXCEPT !.whole = TRUE] ELSE cells[i]]
    BY <1>1, <2>1
  <2>5. cells' \in [1 .. n -> Cell]
    BY <2>2, <2>3, <2>4
  <2> HIDE DEF n
  <2>6. cells' \in Seq(Cell) /\ Len(cells') = n
    BY <1>0, <2>5
  <2>7. ASSUME NEW i \in 1 .. n
        PROVE  /\ cells'[i].id = cells[i].id /\ cells'[i].type = cells[i].type
               /\ cells'[i].item = cells[i].item /\ cells'[i].readable = cells[i].readable
               /\ cells'[i].whole \in BOOLEAN /\ cells'[i].whole = (i = n \/ cells[i].whole)
    <3>1. CASE i = n
      BY <2>1, <2>4, <3>1 DEF Cell
    <3>2. CASE i # n
      BY <2>2, <2>4, <3>2 DEF Cell
    <3> QED
      BY <3>1, <3>2
  <2> QED
    BY <2>6, <2>7
<1>3. Base' = Base /\ Base \in Nat
  BY <1>0, <1>1, <1>2 DEF Base
<1> HIDE DEF n
<1>4. CellsInv'
  BY <1>0, <1>1, <1>2, <1>3 DEF CellsInv, Whole, n
<1>5. \A k \in Int : k <= FileSize => k <= FileSize'
  <2>1. ~Torn'
    BY <1>0, <1>2 DEF Torn, Last
  <2>2. (Len(cells) + JournalBlock) \div JournalBlock \in Int
    BY <1>0, CursorLimits DEF n
  <2> QED
    BY <1>0, <1>1, <1>2, <2>1, <2>2, CursorLimits DEF FileSize, n
<1>6. PlaceInv'
  BY <1>0, <1>1, <1>2, <1>5 DEF PlaceInv, n, ToSet, Telling
<1>7. ToldInv'
  <2> SUFFICES ASSUME ~astray PROVE ToldInv'
    BY <1>1 DEF ToldInv
  <2>1. ASSUME cursor.offset # -1, ~replacements.unread, NEW i \in 1 .. cursor.offset
        PROVE  PassedWell(i)'
    <3>1. i \in 1 .. n
      BY <1>0, <2>1 DEF PlaceInv, n
    <3>2. Whole(i) => Whole(i)'
      BY <1>2, <3>1 DEF Whole
    <3>3. Shows(i)' = Shows(i) /\ (Shows(i) => Text(i)' = Text(i))
      <4>1. source = "journald" /\ cells[i].type = "entry" => cells[i].item \in 1 .. n
        BY <1>0, <3>1 DEF CellsInv, n
      <4> QED
        BY <1>1, <1>2, <3>1, <4>1 DEF Shows, Text
    <3>4. TextsTold(cells[i].id)' = TextsTold(cells[i].id)
      BY <1>1, <1>2, <3>1 DEF TextsTold, ToSet
    <3>5. PassedWell(i)
      BY <1>0, <2>1 DEF ToldInv
    <3>6. cells'[i].id = cells[i].id /\ missed' = missed
      BY <1>1, <1>2, <3>1
    <3>7. (IF Shows(i)' THEN {Text(i)'} ELSE {}) = (IF Shows(i) THEN {Text(i)} ELSE {})
      BY <3>3
    <3> QED
      BY <3>2, <3>4, <3>5, <3>6, <3>7 DEF PassedWell
  <2> QED
    BY <1>0, <1>1, <1>3, <2>1 DEF ToldInv, ToSet
<1> QED
  BY <1>4, <1>6, <1>7 DEF LogInv

LEMMA ReplaceKeeps == ASSUME LogInv, Replace PROVE LogInv'
<1>0. CellsInv /\ PlaceInv /\ ToldInv /\ written \in Nat
  BY DEF LogInv, CellsInv
<1>1. /\ cells' = <<>> /\ replacements' = [made |-> replacements.made + 1, unread |-> TRUE]
      /\ UNCHANGED <<source, written, cursor, told, astray>>
  BY DEF Replace, tableVars
<1>2. Len(cells') = 0 /\ cells' \in Seq(Cell) /\ Base' = written
  BY <1>0, <1>1 DEF Base
<1>3. CellsInv'
  BY <1>0, <1>1, <1>2 DEF CellsInv
<1>4. PlaceInv' /\ replacements'.unread
  BY <1>0, <1>1 DEF PlaceInv, ToSet
<1>5. ToldInv'
  BY <1>0, <1>1, <1>2, <1>4 DEF ToldInv, PlaceInv, ToSet
<1> QED
  BY <1>3, <1>4, <1>5 DEF LogInv

-----------------------------------------------------------------------------
\* The readers.

LEMMA FirstLookKeeps == ASSUME LogInv, FirstLook PROVE LogInv'
<1> DEFINE n == Len(cells)
<1>0. /\ CellsInv /\ PlaceInv /\ ToldInv /\ n \in Nat /\ written \in Nat /\ FileSize \in Int
      /\ told = <<>> /\ IsLog
  BY TornIs DEF LogInv, CellsInv, FirstLook, PlaceInv
<1>1. /\ cursor' = [offset |-> FirstPlace, size |-> FileSize]
      /\ missed' = missed \cup Ids(0, FirstPlace)
      /\ replacements' = [replacements EXCEPT !.unread = FALSE]
      /\ UNCHANGED <<source, cells, written, told>>
      /\ astray' \in BOOLEAN
  BY DEF FirstLook, tableVars
<1>2. FirstPlace \in 0 .. n
  <2>1. CASE source = "journald"
    <3> DEFINE m == Max({0, n - 1})
    <3>1. {0} \cup {n - 1} = {0, n - 1}
      OBVIOUS
    <3>2. n = 0 => m = 0
      <4>1. n = 0 => \A x \in {0, n - 1} : 0 >= x
        OBVIOUS
      <4>2. ASSUME n = 0, NEW x \in {0, n - 1}, \A y \in {0, n - 1} : x >= y
            PROVE  x = 0
        BY <4>2
      <4> QED
        BY <4>1, <4>2 DEF Max
    <3>3. n # 0 => m = n - 1
      <4>1. n # 0 => n - 1 \in Nat
        BY <1>0
      <4>2. ASSUME n # 0 PROVE \A x \in {0, n - 1} : n - 1 >= x
        BY <1>0, <4>1, <4>2
      <4>3. ASSUME n # 0, NEW x \in {0, n - 1}, \A y \in {0, n - 1} : x >= y
            PROVE  x = n - 1
        BY <1>0, <4>1, <4>3
      <4> QED
        BY <4>2, <4>3 DEF Max
    <3> QED
      BY <1>0, <2>1, <3>2, <3>3 DEF FirstPlace
  <2>2. CASE source # "journald"
    BY <1>0, <2>2 DEF FirstPlace
  <2> QED
    BY <2>1, <2>2
<1> HIDE DEF n
<1>3. CellsInv' /\ FileSize' = FileSize /\ Base' = Base
  BY <1>0, <1>1 DEF CellsInv, Base, Whole, FileSize, Torn
<1>4. PlaceInv' /\ ~replacements'.unread
  <2>1. replacements' \in [made : Nat, unread : BOOLEAN] /\ ~replacements'.unread
    BY <1>0, <1>1 DEF PlaceInv
  <2>2. cursor' \in [offset : Nat \cup {-1}, size : Int] /\ cursor'.offset \in Nat /\ cursor'.offset <= n /\ cursor'.size = FileSize
    BY <1>0, <1>1, <1>2
  <2> QED
    BY <1>0, <1>1, <1>3, <2>1, <2>2 DEF PlaceInv, n, ToSet
<1>5. ASSUME NEW i \in 1 .. FirstPlace PROVE cells[i].id \in missed'
  <2>1. i \in (0 + 1) .. FirstPlace
    BY <1>0, <1>2
  <2> QED
    BY <1>1, <2>1 DEF Ids
<1>6. ToldInv'
  <2>1. \A i \in 1 .. cursor'.offset : PassedWell(i)'
    BY <1>1, <1>5 DEF PassedWell
  <2>2. ToSet(told') = {} /\ Len(told') = 0
    BY <1>0, <1>1 DEF ToSet
  <2> QED
    BY <1>1, <2>1, <2>2 DEF ToldInv
<1> QED
  BY <1>3, <1>4, <1>6 DEF LogInv

\* Where the reader goes on from, as long as it does not go astray.
LEMMA FromIs ==
  ASSUME LogInv, IsLog, ~astray, cursor.offset # -1,
         ~(source # "eventlog" /\ replacements.unread /\ From # 0)
  PROVE  /\ From \in 0 .. Len(cells)
         /\ ~replacements.unread => From = cursor.offset
         /\ replacements.unread => source = "eventlog" \/ From = 0
<1>1. /\ Len(cells) \in Nat /\ FileSize \in Int
      /\ cursor.offset \in Nat /\ cursor.size \in Int /\ replacements.unread \in BOOLEAN
  BY TornIs DEF LogInv, PlaceInv
<1>2. ~replacements.unread => cursor.offset <= Len(cells) /\ cursor.size <= FileSize
  BY DEF LogInv, PlaceInv
<1>3. CASE source = "eventlog"
  BY <1>1, <1>2, <1>3 DEF From
<1>4. CASE source # "eventlog"
  BY <1>1, <1>2, <1>4 DEF From
<1> QED
  BY <1>3, <1>4

\* How far it gets: over whole cells.
LEMMA ToIs ==
  ASSUME CellsInv, IsLog, NEW from \in 0 .. Len(cells)
  PROVE  /\ To(from) \in from .. Len(cells) /\ DeliveredTo(from) \in from .. To(from)
         /\ \A i \in (from + 1) .. To(from) : Whole(i)
<1> DEFINE n == Len(cells)
<1>0. n \in Nat /\ from \in Nat /\ from <= n /\ EventBuffer \in Nat /\ CursorBatch \in Nat
  BY CursorLimits DEF CellsInv
<1>1. CASE source = "journald"
  <2> DEFINE K == {k \in (from + 1) .. n : /\ \A i \in (from + 1) .. k : Whole(i)
                                          /\ Cardinality({i \in (from + 1) .. (k - 1) : Shows(i)}) < CursorBatch}
  <2>1. K \subseteq (from + 1) .. n /\ \A k \in K : \A i \in (from + 1) .. k : Whole(i)
    OBVIOUS
  <2>2. To(from) = Max({from} \cup K) /\ DeliveredTo(from) = To(from)
    BY <1>1 DEF To, DeliveredTo, JournalEnd
  <2> HIDE DEF K, n
  <2>3. /\ Max({from} \cup K) \in {from} \cup K
        /\ from <= Max({from} \cup K) /\ Max({from} \cup K) \in Nat /\ Max({from} \cup K) <= n
    BY <1>0, <2>1, LastOfThem
  <2> DEFINE m == Max({from} \cup K)
  <2> HIDE DEF m
  <2>4. m \in Nat /\ from <= m /\ m <= n /\ \A i \in (from + 1) .. m : Whole(i)
    <3>1. m \in Nat /\ from <= m /\ m <= n /\ (m = from \/ m \in K)
      BY <2>3 DEF m
    <3>2. m = from => (from + 1) .. m = {}
      BY <1>0
    <3> QED
      BY <2>1, <3>1, <3>2
  <2>5. m \in from .. n /\ m \in from .. m
    BY <1>0, <2>4
  <2>6. To(from) = m /\ DeliveredTo(from) = m
    BY <2>2 DEF m
  <2> QED
    BY <2>4, <2>5, <2>6, Zenon DEF n
<1>2. CASE source = "logins"
  <2> DEFINE top == Min({from + CursorBatch, n})
             K == {k \in (from + 1) .. top : Whole(k)}
  <2>1. top \in Nat /\ from <= top /\ top <= n
    <3>1. {from + CursorBatch, n} \subseteq Nat /\ {from + CursorBatch, n} # {}
      BY <1>0
    <3>2. top \in {from + CursorBatch, n} /\ \A y \in {from + CursorBatch, n} : top <= y
      BY <3>1, MinIs
    <3> QED
      BY <1>0, <3>2
  <2>2. To(from) = Max({from} \cup K) /\ DeliveredTo(from) = To(from)
    BY <1>2 DEF To, DeliveredTo, UtmpEnd
  <2> HIDE DEF n, top
  <2>3. K \subseteq (from + 1) .. top /\ \A k \in K : k \in (from + 1) .. top /\ Whole(k)
    OBVIOUS
  <2> HIDE DEF K
  <2>4. /\ Max({from} \cup K) \in {from} \cup K
        /\ from <= Max({from} \cup K) /\ Max({from} \cup K) \in Nat /\ Max({from} \cup K) <= top
    BY <1>0, <2>1, <2>3, LastOfThem
  <2> DEFINE m == Max({from} \cup K)
  <2> HIDE DEF m
  <2>5. m \in Nat /\ from <= m /\ m <= n /\ (m = from \/ m \in K)
    BY <1>0, <2>1, <2>4 DEF m
  <2>6. ASSUME NEW i \in (from + 1) .. m PROVE Whole(i)
    <3>1. i \in 1 .. n /\ (i < n \/ (i = n /\ m = n)) /\ m # from
      BY <1>0, <2>5
    <3>2. CASE i < n
      BY <3>1, <3>2 DEF CellsInv, n
    <3>3. CASE i = n /\ m = n
      BY <2>3, <2>5, <3>1, <3>3
    <3> QED
      BY <3>1, <3>2, <3>3
  <2>7. m \in from .. n /\ m \in from .. m
    BY <1>0, <2>5
  <2>8. To(from) = m /\ DeliveredTo(from) = m
    BY <2>2 DEF m
  <2> QED
    BY <2>6, <2>7, <2>8, Zenon DEF n
<1>3. CASE source = "eventlog"
  <2> DEFINE T == {from + EventBuffer, from + CursorBatch, n}
  <2>1. T \subseteq Nat /\ T # {} /\ n \in T /\ \A y \in T : from <= y
    BY <1>0
  <2>2. To(from) = n /\ DeliveredTo(from) = Min(T)
    BY <1>3 DEF To, DeliveredTo
  <2> HIDE DEF T, n
  <2>3. Min(T) \in T /\ \A y \in T : Min(T) <= y
    BY <2>1, MinIs
  <2>4. \A i \in 1 .. n : Whole(i)
    BY <1>3 DEF CellsInv, n
  <2> DEFINE m == Min(T)
  <2> HIDE DEF m
  <2>5. m \in from .. n /\ n \in from .. n
    <3>1. m \in Nat /\ m <= n /\ from <= m
      BY <2>1, <2>3 DEF m
    <3> QED
      BY <1>0, <3>1
  <2>6. \A i \in (from + 1) .. n : Whole(i)
    <3>1. (from + 1) .. n \subseteq 1 .. n
      BY <1>0
    <3> QED
      BY <2>4, <3>1
  <2>7. To(from) = n /\ DeliveredTo(from) = m
    BY <2>2 DEF m
  <2> QED
    BY <2>5, <2>6, <2>7, Zenon DEF n
<1> QED
  BY <1>1, <1>2, <1>3 DEF IsLog

\* Wherever it begins, it delivers nothing past the end.
LEMMA ToIsInside ==
  ASSUME CellsInv, IsLog, NEW from \in Nat
  PROVE  To(from) \in Nat /\ DeliveredTo(from) \in Nat /\ (from + 1) .. DeliveredTo(from) \subseteq 1 .. Len(cells)
<1> DEFINE n == Len(cells)
<1>0. n \in Nat /\ EventBuffer \in Nat /\ CursorBatch \in Nat
  BY CursorLimits DEF CellsInv
<1>1. ASSUME NEW K, NEW top \in Nat, top <= n, K \subseteq (from + 1) .. top,
             To(from) = Max({from} \cup K), DeliveredTo(from) = To(from)
      PROVE  To(from) \in Nat /\ DeliveredTo(from) \in Nat /\ (from + 1) .. DeliveredTo(from) \subseteq 1 .. n
  <2> DEFINE m == Max({from} \cup K)
  <2>1. m \in {from} \cup K /\ m \in Nat /\ from <= m
    BY <1>1, LastOfThem
  <2> HIDE DEF m
  <2>2. (from + 1) .. m \subseteq 1 .. n
    BY <1>0, <1>1, <2>1
  <2>3. To(from) = m /\ DeliveredTo(from) = m
    BY <1>1 DEF m
  <2> QED
    BY <2>1, <2>2, <2>3
<1>2. CASE source = "journald"
  <2> DEFINE K == {k \in (from + 1) .. n : /\ \A i \in (from + 1) .. k : Whole(i)
                                          /\ Cardinality({i \in (from + 1) .. (k - 1) : Shows(i)}) < CursorBatch}
  <2>1. K \subseteq (from + 1) .. n
    OBVIOUS
  <2>2. To(from) = Max({from} \cup K) /\ DeliveredTo(from) = To(from)
    BY <1>2 DEF To, DeliveredTo, JournalEnd
  <2> HIDE DEF K, n
  <2>3. n \in Nat /\ n <= n
    BY <1>0
  <2> QED
    BY <1>1, <2>1, <2>2, <2>3 DEF n
<1>3. CASE source = "logins"
  <2> DEFINE top == Min({from + CursorBatch, n})
             K == {k \in (from + 1) .. top : Whole(k)}
  <2>1. top \in Nat /\ top <= n
    <3>1. {from + CursorBatch, n} \subseteq Nat /\ {from + CursorBatch, n} # {}
      BY <1>0
    <3>2. top \in {from + CursorBatch, n} /\ \A y \in {from + CursorBatch, n} : top <= y
      BY <3>1, MinIs
    <3> QED
      BY <1>0, <3>2
  <2>2. To(from) = Max({from} \cup K) /\ DeliveredTo(from) = To(from)
    BY <1>3 DEF To, DeliveredTo, UtmpEnd
  <2>3. K \subseteq (from + 1) .. top
    OBVIOUS
  <2> HIDE DEF K, top, n
  <2> QED
    BY <1>1, <2>1, <2>2, <2>3 DEF n
<1>4. CASE source = "eventlog"
  <2> DEFINE T == {from + EventBuffer, from + CursorBatch, n}
  <2>1. T \subseteq Nat /\ T # {} /\ n \in T
    BY <1>0
  <2>2. To(from) = n /\ DeliveredTo(from) = Min(T)
    BY <1>4 DEF To, DeliveredTo
  <2> HIDE DEF T, n
  <2>3. Min(T) \in Nat /\ Min(T) <= n
    BY <2>1, MinIs
  <2> DEFINE m == Min(T)
  <2> HIDE DEF m
  <2>4. m \in Nat /\ (from + 1) .. m \subseteq 1 .. n
    BY <1>0, <2>3 DEF m
  <2>5. To(from) = n /\ DeliveredTo(from) = m
    BY <2>2 DEF m
  <2> QED
    BY <1>0, <2>4, <2>5 DEF n
<1> QED
  BY <1>2, <1>3, <1>4 DEF IsLog

\* What a read delivers: of each cell that shows one telling, in the order of the cells.
TellingOf(i) == [id |-> cells[i].id, text |-> Text(i)]

LEMMA DeliveredIs ==
  ASSUME CellsInv, IsLog, NEW from \in Nat, NEW to \in Nat, (from + 1) .. to \subseteq 1 .. Len(cells)
  PROVE  /\ Delivered(from, to) \in Seq(Telling)
         /\ ToSet(Delivered(from, to)) = {TellingOf(i) : i \in {j \in (from + 1) .. to : Shows(j)}}
         /\ \A j, k \in 1 .. Len(Delivered(from, to)) :
              Delivered(from, to)[j].id = Delivered(from, to)[k].id => j = k
<1> DEFINE S == {i \in (from + 1) .. to : Shows(i)}
           shown == InOrder(S)
           got == [k \in 1 .. Len(shown) |-> [id |-> cells[shown[k]].id, text |-> Text(shown[k])]]
<1>1. S \subseteq 1 .. Len(cells) /\ IsFiniteSet(S) /\ S \subseteq Nat /\ \A i \in S : Shows(i)
  <2>1. Len(cells) \in Nat
    BY DEF CellsInv
  <2>2. IsFiniteSet((from + 1) .. to)
    <3>1. from + 1 \in Int /\ to \in Int
      OBVIOUS
    <3> QED
      BY <3>1, FS_Interval
  <2>3. S \in SUBSET ((from + 1) .. to) /\ S \subseteq 1 .. Len(cells) /\ S \subseteq Nat
    BY <2>1
  <2>4. IsFiniteSet(S)
    BY <2>2, <2>3, FS_Subset
  <2> QED
    BY <2>3, <2>4
<1>2. /\ shown \in Seq(S) /\ ToSet(shown) = S
      /\ \A j, k \in 1 .. Len(shown) : shown[j] = shown[k] => j = k
  <2> HIDE DEF S
  <2> QED
    BY <1>1, OrderHolds
<1>3. Delivered(from, to) = got
  BY Zenon DEF Delivered
<1>4. \A i \in S : TellingOf(i) \in Telling /\ TellingOf(i).id = cells[i].id
  <2> HIDE DEF S
  <2> QED
    BY <1>1, CellIs, TextIs DEF TellingOf, Telling
<1> HIDE DEF S, shown
<1>5. /\ Len(shown) \in Nat /\ DOMAIN shown = 1 .. Len(shown)
      /\ \A k \in 1 .. Len(shown) : shown[k] \in S /\ got[k] = TellingOf(shown[k])
  BY <1>2 DEF TellingOf
<1>6. got \in Seq(Telling) /\ Len(got) = Len(shown) /\ DOMAIN got = 1 .. Len(shown)
  <2>1. got \in [1 .. Len(shown) -> Telling]
    <3>1. \A k \in 1 .. Len(shown) : got[k] \in Telling
      BY <1>4, <1>5
    <3> QED
      BY <3>1
  <2> HIDE DEF got
  <2> QED
    BY <1>5, <2>1
<1> HIDE DEF got
<1>7. ToSet(got) = {TellingOf(i) : i \in S}
  <2>1. \A i \in S : \E k \in 1 .. Len(shown) : shown[k] = i
    BY <1>2, <1>5 DEF ToSet
  <2>2. ASSUME NEW x \in ToSet(got) PROVE x \in {TellingOf(i) : i \in S}
    BY <1>5, <1>6 DEF ToSet
  <2>3. ASSUME NEW i \in S PROVE TellingOf(i) \in ToSet(got)
    <3>1. PICK k \in 1 .. Len(shown) : shown[k] = i
      BY <2>1
    <3>2. got[k] = TellingOf(i) /\ k \in DOMAIN got
      BY <1>5, <1>6, <3>1
    <3> QED
      BY <3>2 DEF ToSet
  <2> QED
    BY <2>2, <2>3
<1>8. ASSUME NEW j \in 1 .. Len(got), NEW k \in 1 .. Len(got), got[j].id = got[k].id PROVE j = k
  <2>1. j \in 1 .. Len(shown) /\ k \in 1 .. Len(shown)
    BY <1>6
  <2>2. shown[j] \in S /\ shown[k] \in S /\ got[j].id = cells[shown[j]].id /\ got[k].id = cells[shown[k]].id
    BY <1>4, <1>5, <2>1
  <2>3. /\ cells[shown[j]].id = Base + shown[j] /\ cells[shown[k]].id = Base + shown[k] /\ Base \in Nat
        /\ shown[j] \in Nat /\ shown[k] \in Nat
    BY <1>1, <2>2, CellIs
  <2>4. \A a, b \in Nat : Base + a = Base + b => a = b
    BY <2>3
  <2>5. Base + shown[j] = Base + shown[k]
    BY <1>8, <2>2, <2>3, Zenon
  <2>6. shown[j] = shown[k]
    BY <2>3, <2>4, <2>5, Zenon
  <2> QED
    BY <1>2, <2>1, <2>6
<1> QED
  BY <1>3, <1>6, <1>7, <1>8 DEF S

\* A look that goes astray leaves what can be said of any.
LEMMA LookTyped ==
  ASSUME LogInv, NEW late \in BOOLEAN, Look(late), NEW got, got \in Seq(Telling),
         \A e \in ToSet(got) : e.id <= written, told' = told \o got,
         To(From) \in Nat
  PROVE  /\ CellsInv' /\ Base' = Base /\ FileSize' = FileSize
         /\ cursor' = [offset |-> To(From), size |-> FileSize] /\ ~replacements'.unread
         /\ ToSet(told') = ToSet(told) \cup ToSet(got) /\ told' \in Seq(Telling)
         /\ ~astray' /\ To(From) <= Len(cells) => PlaceInv'
         /\ astray' => PlaceInv'
<1>1. /\ CellsInv /\ PlaceInv /\ FileSize \in Int
  BY TornIs DEF LogInv
<1>2. /\ UNCHANGED <<source, cells, written>> /\ cursor' = [offset |-> To(From), size |-> FileSize]
      /\ replacements' = [replacements EXCEPT !.unread = FALSE]
      /\ astray' = (astray \/ (source # "eventlog" /\ replacements.unread /\ From # 0))
  BY DEF Look, tableVars
<1>3. CellsInv' /\ FileSize' = FileSize /\ Base' = Base
  BY <1>1, <1>2 DEF CellsInv, Base, Whole, FileSize, Torn
<1>4. told' \in Seq(Telling) /\ ToSet(told') = ToSet(told) \cup ToSet(got)
  BY <1>1, JoinHolds DEF PlaceInv
<1>5. /\ replacements' \in [made : Nat, unread : BOOLEAN] /\ ~replacements'.unread
      /\ cursor' \in [offset : Nat \cup {-1}, size : Int] /\ cursor'.offset # -1
      /\ cursor'.offset = To(From) /\ cursor'.size = FileSize
  <2>1. replacements' \in [made : Nat, unread : BOOLEAN] /\ ~replacements'.unread
    BY <1>1, <1>2 DEF PlaceInv
  <2>2. cursor'.offset = To(From) /\ cursor'.size = FileSize /\ To(From) # -1
    BY <1>2
  <2>3. cursor' \in [offset : Nat \cup {-1}, size : Int]
    BY <1>1, <1>2
  <2> QED
    BY <2>1, <2>2, <2>3
<1>6. astray' \in BOOLEAN
  BY <1>2
<1>7. \A e \in ToSet(told') : e.id <= written'
  BY <1>1, <1>2, <1>4 DEF PlaceInv
<1>8. (astray' \/ To(From) <= Len(cells')) => PlaceInv'
  BY <1>1, <1>3, <1>4, <1>5, <1>6, <1>7 DEF PlaceInv
<1> QED
  BY <1>2, <1>3, <1>4, <1>5, <1>8

LEMMA LookKeeps ==
  ASSUME LogInv, NEW late \in BOOLEAN, Look(late), ~astray'
  PROVE  LogInv'
<1> DEFINE n == Len(cells)
           from == From
           to == To(from)
           upto == DeliveredTo(from)
           got == IF late THEN <<>> ELSE Delivered(from, upto)
           here == {TellingOf(i) : i \in {j \in (from + 1) .. upto : Shows(j)}}
<1>1. /\ CellsInv /\ PlaceInv /\ ToldInv /\ IsLog /\ cursor.offset # -1
      /\ n \in Nat /\ written \in Nat /\ n <= written /\ Base \in Nat /\ Base + n = written
  <2>1. n \in Nat /\ written \in Nat /\ n <= written
    BY DEF LogInv, CellsInv
  <2> QED
    BY <2>1 DEF LogInv, Look, Base
<1>2. /\ UNCHANGED <<source, cells, written>> /\ cursor' = [offset |-> to, size |-> FileSize]
      /\ told' = told \o got
      /\ missed' = missed
           \cup (IF late THEN Ids(from, to) ELSE Ids(upto, to))
           \cup {m \in IF source = "eventlog" THEN Ids(0, Min({from, Len(cells)})) ELSE {} :
                   \A i \in 1 .. Len(told) : told[i].id # m}
      /\ astray' = (astray \/ (source # "eventlog" /\ replacements.unread /\ from # 0))
  BY DEF Look, tableVars
<1>3. /\ ~astray /\ from \in 0 .. n
      /\ ~replacements.unread => from = cursor.offset
      /\ replacements.unread => source = "eventlog" \/ from = 0
  <2>1. ~astray /\ ~(source # "eventlog" /\ replacements.unread /\ From # 0)
    BY <1>2
  <2> QED
    BY <1>1, <2>1, FromIs
<1>4. /\ to \in from .. n /\ upto \in from .. to
      /\ \A i \in (from + 1) .. to : Whole(i)
  <2> HIDE DEF from
  <2> QED
    BY <1>1, <1>3, ToIs
<1>5. /\ got \in Seq(Telling)
      /\ ToSet(got) = IF late THEN {} ELSE here
      /\ \A j, k \in 1 .. Len(got) : got[j].id = got[k].id => j = k
  <2> HIDE DEF from, upto
  <2>1. /\ Delivered(from, upto) \in Seq(Telling) /\ ToSet(Delivered(from, upto)) = here
        /\ \A j, k \in 1 .. Len(Delivered(from, upto)) :
             Delivered(from, upto)[j].id = Delivered(from, upto)[k].id => j = k
    <3>1. from \in Nat /\ upto \in Nat /\ (from + 1) .. upto \subseteq 1 .. Len(cells)
      BY <1>1, <1>3, <1>4
    <3> QED
      BY <1>1, <3>1, DeliveredIs
  <2>2. <<>> \in Seq(Telling) /\ ToSet(<<>>) = {} /\ Len(<<>>) = 0
    BY DEF ToSet
  <2> HIDE DEF here
  <2>3. CASE late
    <3>1. got = <<>>
      BY <2>3
    <3> HIDE DEF got
    <3> QED
      BY <2>2, <2>3, <3>1
  <2>4. CASE ~late
    <3>1. got = Delivered(from, upto)
      BY <2>4
    <3> HIDE DEF got
    <3> QED
      BY <2>1, <2>4, <3>1
  <2> QED
    BY <2>3, <2>4
<1> HIDE DEF to, upto, from, got, n
<1>6. from \in Nat /\ to \in Nat /\ upto \in Nat /\ from <= upto /\ upto <= to /\ to <= n
  BY <1>1, <1>3, <1>4
<1>7. \A i \in 1 .. n : cells[i].id = Base + i /\ TellingOf(i).id = Base + i /\ TellingOf(i).text = Text(i)
  BY <1>1, CellIs DEF n, TellingOf
<1>8. \A e \in ToSet(got) : e \in here /\ ~late
  BY <1>5
<1>9. \A e \in here : \E i \in (from + 1) .. upto : Shows(i) /\ e = TellingOf(i) /\ e.id = Base + i /\ i \in 1 .. n
  <2>1. (from + 1) .. upto \subseteq 1 .. n
    BY <1>1, <1>6
  <2>2. \A e \in here : \E i \in (from + 1) .. upto : Shows(i) /\ e = TellingOf(i)
    BY Zenon
  <2> HIDE DEF here
  <2> QED
    BY <1>7, <2>1, <2>2
<1>10. \A e \in ToSet(got) : e.id \in Nat /\ e.id > Base + from /\ e.id <= Base + to /\ e.id <= written
  BY <1>1, <1>6, <1>8, <1>9
<1>11. /\ CellsInv' /\ Base' = Base /\ ~replacements'.unread
       /\ ToSet(told') = ToSet(told) \cup ToSet(got)
       /\ PlaceInv' /\ cursor'.offset = to
  BY <1>2, <1>5, <1>6, <1>10, LookTyped DEF to, from, n
\* What was told before was told of cells before that place.
<1>12. \A e \in ToSet(told) : e.id \in Nat /\ e.id <= Base + from /\ (replacements.unread => e.id <= Base)
  <2>1. told \in Seq(Telling)
    BY <1>1 DEF PlaceInv
  <2>2. \A e \in ToSet(told) : e.id \in Nat
    <3>1. \A j \in DOMAIN told : told[j] \in Telling
      BY <2>1
    <3>2. \A e \in Telling : e.id \in Nat
      BY DEF Telling
    <3> QED
      BY <3>1, <3>2 DEF ToSet
  <2>3. \A e \in ToSet(told) : e.id <= Base + IF replacements.unread THEN 0 ELSE cursor.offset
    BY <1>1, <1>3 DEF ToldInv
  <2>4. replacements.unread \in BOOLEAN
    BY <1>1 DEF PlaceInv
  <2> QED
    BY <1>1, <1>3, <1>6, <2>2, <2>3, <2>4
<1>13. ASSUME NEW j \in 1 .. Len(told'), NEW k \in 1 .. Len(told'), told'[j].id = told'[k].id
       PROVE  j = k
  <2>1. told \in Seq(Telling) /\ got \in Seq(Telling) /\ told' = told \o got
    BY <1>1, <1>2, <1>5 DEF PlaceInv
  <2> DEFINE l == Len(told)
  <2>2. /\ l \in Nat /\ Len(got) \in Nat /\ Len(told') = l + Len(got)
        /\ \A x \in 1 .. l + Len(got) : told'[x] = IF x <= l THEN told[x] ELSE got[x - l]
    BY <2>1
  <2>3. \A x \in 1 .. l : told[x] \in ToSet(told)
    BY <2>1 DEF ToSet
  <2>4. \A x \in 1 .. Len(got) : got[x] \in ToSet(got)
    BY <2>1 DEF ToSet
  <2>5. \A x, y \in 1 .. l : told[x].id = told[y].id => x = y
    BY <1>1, <1>3 DEF ToldInv
  <2> HIDE DEF l
  <2>6. \A x \in 1 .. Len(told') : \/ x \in 1 .. l /\ told'[x] = told[x] /\ told'[x].id <= Base + from
                                  \/ /\ x - l \in 1 .. Len(got) /\ told'[x] = got[x - l]
                                     /\ told'[x].id > Base + from /\ told'[x].id \in Nat
    BY <1>10, <1>12, <2>2, <2>3, <2>4
  <2>7. CASE j \in 1 .. l /\ told'[j] = told[j] /\ told'[j].id <= Base + from
    <3>1. ~(told'[k].id > Base + from)
      BY <1>1, <1>6, <1>12, <1>13, <2>3, <2>7
    <3> QED
      BY <1>13, <2>5, <2>6, <2>7, <3>1
  <2>8. CASE /\ j - l \in 1 .. Len(got) /\ told'[j] = got[j - l]
             /\ told'[j].id > Base + from /\ told'[j].id \in Nat
    <3>1. ~(told'[k].id <= Base + from)
      BY <1>1, <1>6, <1>13, <2>8
    <3>2. k - l \in 1 .. Len(got) /\ told'[k] = got[k - l]
      BY <2>6, <3>1
    <3>3. j - l = k - l
      BY <1>5, <1>13, <2>8, <3>2
    <3> QED
      BY <2>2, <3>3
  <2> QED
    BY <2>6, <2>7, <2>8
<1>14. \A e \in ToSet(told') : e.id <= Base' + cursor'.offset
  BY <1>1, <1>6, <1>10, <1>11, <1>12
<1>15. ASSUME NEW i \in 1 .. to, cells[i].id \notin missed'
       PROVE  Whole(i) /\ TextsTold(cells[i].id)' = IF Shows(i) THEN {Text(i)} ELSE {}
  <2>0. i \in 1 .. n /\ i \in Nat /\ cells[i].id = Base + i
    <3>1. i \in 1 .. n /\ i \in Nat
      BY <1>1, <1>6
    <3> QED
      BY <1>7, <3>1
  <2> DEFINE c == cells[i].id
  <2>1. TextsTold(c)' = {e.text : e \in {t \in ToSet(told) : t.id = c}}
                       \cup {e.text : e \in {t \in ToSet(got) : t.id = c}}
    BY <1>2, <1>11 DEF TextsTold
  <2> HIDE DEF c
  <2>2. CASE i <= from
    <3>1. {t \in ToSet(got) : t.id = c} = {}
      BY <1>1, <1>6, <1>10, <2>0, <2>2 DEF c
    <3>2. CASE ~replacements.unread
      <4>1. PassedWell(i)
        BY <1>1, <1>3, <2>0, <2>2, <3>2 DEF ToldInv
      <4>2. c \notin missed
        BY <1>2, <1>15 DEF c
      <4>3. TextsTold(c)' = TextsTold(c)
        BY <2>1, <3>1 DEF TextsTold
      <4> QED
        BY <4>1, <4>2, <4>3 DEF PassedWell, c
    <3>3. CASE replacements.unread
      <4>1. \A e \in ToSet(told) : e.id # c
        BY <1>1, <1>12, <2>0, <3>3 DEF c
      <4>2. \A k \in 1 .. Len(told) : told[k].id # c
        <5>1. told \in Seq(Telling)
          BY <1>1 DEF PlaceInv
        <5> QED
          BY <4>1, <5>1 DEF ToSet
      <4>3. c \in Ids(0, Min({from, Len(cells)}))
        <5>1. {from, Len(cells)} \subseteq Nat /\ {from, Len(cells)} # {}
          BY <1>1, <1>6 DEF n
        <5>2. Min({from, Len(cells)}) = from
          <6>1. Min({from, Len(cells)}) \in {from, Len(cells)} /\ \A y \in {from, Len(cells)} : Min({from, Len(cells)}) <= y
            BY <5>1, MinIs
          <6> QED
            BY <1>1, <1>6, <5>1, <6>1 DEF n
        <5>3. i \in (0 + 1) .. from
          BY <1>6, <2>0, <2>2
        <5> QED
          BY <5>2, <5>3 DEF Ids, c
      <4>4. source = "eventlog"
        BY <1>3, <1>6, <2>0, <2>2, <3>3
      <4> QED
        BY <1>2, <1>15, <4>2, <4>3, <4>4 DEF c
    <3>4. replacements.unread \in BOOLEAN
      BY <1>1 DEF PlaceInv
    <3> QED
      BY <3>2, <3>3, <3>4
  <2>3. CASE from < i
    <3>1. i \in (from + 1) .. to /\ Whole(i)
      BY <1>4, <1>6, <2>0, <2>3
    <3>2. ~late
      BY <1>2, <1>15, <3>1 DEF Ids
    <3>3. i \in (from + 1) .. upto
      <4>1. ~(i \in (upto + 1) .. to)
        BY <1>2, <1>15, <3>2 DEF Ids
      <4> QED
        BY <1>6, <2>0, <3>1, <4>1
    <3>4. {t \in ToSet(told) : t.id = c} = {}
      BY <1>1, <1>6, <1>12, <2>0, <2>3 DEF c
    <3>5. ASSUME NEW e \in here, e.id = c PROVE Shows(i) /\ e = TellingOf(i)
      <4>1. PICK j \in (from + 1) .. upto : Shows(j) /\ e = TellingOf(j) /\ e.id = Base + j /\ j \in 1 .. n
        BY <1>9
      <4>2. j = i
        BY <1>1, <2>0, <3>5, <4>1 DEF c
      <4> QED
        BY <4>1, <4>2
    <3>6. Shows(i) => TellingOf(i) \in here
      BY <3>3
    <3>7. {t \in here : t.id = c} = IF Shows(i) THEN {TellingOf(i)} ELSE {}
      <4>1. TellingOf(i).id = c
        BY <1>7, <2>0 DEF c
      <4> HIDE DEF here
      <4> QED
        BY <3>5, <3>6, <4>1
    <3>8. ToSet(got) = here
      BY <1>5, <3>2
    <3>9. TextsTold(c)' = IF Shows(i) THEN {Text(i)} ELSE {}
      <4>1. TellingOf(i).text = Text(i)
        BY <1>7, <2>0
      <4> HIDE DEF here
      <4> QED
        BY <2>1, <3>4, <3>7, <3>8, <4>1
    <3> QED
      BY <3>1, <3>9 DEF c
  <2> QED
    BY <1>6, <2>0, <2>2, <2>3
<1>16. \A i \in 1 .. cursor'.offset : PassedWell(i)'
  <2>1. ASSUME NEW i \in 1 .. to PROVE PassedWell(i)'
    <3>1. Whole(i)' = Whole(i) /\ Shows(i)' = Shows(i) /\ Text(i)' = Text(i) /\ cells'[i].id = cells[i].id
      BY <1>2 DEF Whole, Shows, Text
    <3> QED
      BY <1>15, <3>1 DEF PassedWell
  <2> QED
    BY <1>11, <2>1
<1>17. ToldInv'
  BY <1>11, <1>13, <1>14, <1>16 DEF ToldInv
<1> QED
  BY <1>11, <1>17 DEF LogInv

LEMMA LookAstray ==
  ASSUME LogInv, NEW late \in BOOLEAN, Look(late), astray'
  PROVE  LogInv'
<1> DEFINE from == From
           upto == DeliveredTo(from)
           got == IF late THEN <<>> ELSE Delivered(from, upto)
<1>1. /\ CellsInv /\ IsLog /\ cursor.offset # -1 /\ cursor.offset \in Nat
      /\ Len(cells) \in Nat /\ written \in Nat /\ Len(cells) <= written /\ Base \in Nat /\ Base + Len(cells) = written
  <2>1. Len(cells) \in Nat /\ written \in Nat /\ Len(cells) <= written
    BY DEF LogInv, CellsInv
  <2> QED
    BY <2>1 DEF LogInv, Look, Base, PlaceInv
<1>2. told' = told \o got
  BY DEF Look
<1>3. from \in Nat
  BY <1>1 DEF From
<1> HIDE DEF from
<1>4. To(from) \in Nat /\ upto \in Nat /\ (from + 1) .. upto \subseteq 1 .. Len(cells)
  BY <1>1, <1>3, ToIsInside
<1> HIDE DEF upto
<1>5. got \in Seq(Telling) /\ \A e \in ToSet(got) : e.id <= written
  <2>1. /\ Delivered(from, upto) \in Seq(Telling)
        /\ ToSet(Delivered(from, upto)) = {TellingOf(i) : i \in {j \in (from + 1) .. upto : Shows(j)}}
    BY <1>1, <1>3, <1>4, DeliveredIs
  <2>2. \A i \in 1 .. Len(cells) : TellingOf(i).id <= written
    BY <1>1, CellIs DEF TellingOf
  <2>3. CASE late
    <3>1. got = <<>> /\ <<>> \in Seq(Telling)
      BY <2>3
    <3> HIDE DEF got
    <3> QED
      BY <3>1 DEF ToSet
  <2>4. CASE ~late
    <3>1. got = Delivered(from, upto)
      BY <2>4
    <3> HIDE DEF got
    <3> QED
      BY <1>4, <2>1, <2>2, <3>1
  <2> QED
    BY <2>3, <2>4
<1> HIDE DEF got
<1>6. CellsInv' /\ PlaceInv'
  BY <1>2, <1>4, <1>5, LookTyped DEF from
<1>7. ToldInv'
  BY DEF ToldInv
<1> QED
  BY <1>6, <1>7 DEF LogInv


-----------------------------------------------------------------------------
\* What the readers of the other tables leave of it alone.
LEMMA LogStays ==
  ASSUME LogInv, UNCHANGED <<source, cells, written, replacements, cursor, told, astray>>,
         missed \subseteq missed'
  PROVE  LogInv'
<1>1. /\ CellsInv' /\ Base' = Base /\ FileSize' = FileSize
  BY DEF LogInv, CellsInv, Base, Whole, FileSize, Torn
<1>2. PlaceInv'
  BY <1>1 DEF LogInv, PlaceInv, ToSet
<1>3. ASSUME NEW i, PassedWell(i) PROVE PassedWell(i)'
  <2>1. Whole(i)' = Whole(i) /\ Shows(i)' = Shows(i) /\ Text(i)' = Text(i) /\ cells'[i].id = cells[i].id
    BY DEF Whole, Shows, Text
  <2>2. TextsTold(cells[i].id)' = TextsTold(cells[i].id)
    BY DEF TextsTold, ToSet
  <2> QED
    BY <1>3, <2>1, <2>2 DEF PassedWell
<1>4. ToldInv'
  BY <1>1, <1>3 DEF LogInv, ToldInv, ToSet
<1> QED
  BY <1>1, <1>2, <1>4 DEF LogInv

LEMMA LogBegins == ASSUME CursorInit PROVE LogInv
<1>1. /\ source \in Sources /\ cells = <<>> /\ written = 0 /\ told = <<>> /\ astray = FALSE
      /\ replacements = [made |-> 0, unread |-> FALSE] /\ cursor = [offset |-> -1, size |-> 0]
  BY DEF CursorInit, Sources
<1>2. CellsInv
  BY <1>1 DEF CellsInv
<1>3. replacements \in [made : Nat, unread : BOOLEAN] /\ cursor \in [offset : Nat \cup {-1}, size : Int] /\ cursor.offset = -1
  BY <1>1
<1>4. told \in Seq(Telling) /\ ToSet(told) = {} /\ Len(told) = 0 /\ astray \in BOOLEAN
  <2>1. told = <<>> /\ Len(<<>>) = 0 /\ <<>> \in Seq(Telling) /\ ToSet(<<>>) = {}
    BY <1>1 DEF ToSet
  <2>2. astray \in BOOLEAN
    BY <1>1, Zenon
  <2> QED
    BY <2>1, <2>2, Zenon
<1>5. PlaceInv
  BY <1>1, <1>3, <1>4 DEF PlaceInv
<1>6. ToldInv
  BY <1>1, <1>3, <1>4 DEF ToldInv
<1> QED
  BY <1>2, <1>5, <1>6 DEF LogInv

\* What is remembered of the table and of the archives.
SaidInv ==
  /\ table \in [Uids -> Nat] /\ seen \in [Uids -> Nat] /\ reported \subseteq Archives
  /\ said \in [users : [Uids -> Seq(Nat)], archives : Seq(Archives)]
  /\ \A u \in Uids : seen[u] <= table[u]
  /\ source = "lastlog" => \A u \in Uids \ missed :
       /\ seen[u] = IF said.users[u] = <<>> THEN 0 ELSE Last(said.users[u])
       /\ \A i \in 1 .. Len(said.users[u]) : said.users[u][i] <= seen[u]
       /\ \A i, j \in 1 .. Len(said.users[u]) : i # j => said.users[u][i] # said.users[u][j]
  /\ IsInjective(said.archives) /\ ToSet(said.archives) \subseteq reported
  /\ source = "archives" => reported = ToSet(said.archives) \cup missed

LEMMA SaidBegins == ASSUME CursorInit PROVE SaidInv
<1>1. /\ table = [u \in Uids |-> 0] /\ seen = [u \in Uids |-> 0] /\ reported = {} /\ missed = {}
      /\ said = [users |-> [u \in Uids |-> <<>>], archives |-> <<>>]
  BY DEF CursorInit
<1>2. /\ said.users = [u \in Uids |-> <<>>] /\ said.archives = <<>> /\ ToSet(<<>>) = {} /\ IsInjective(<<>>)
  BY <1>1 DEF ToSet, IsInjective
<1>3. /\ said \in [users : [Uids -> Seq(Nat)], archives : Seq(Archives)]
      /\ \A u \in Uids : said.users[u] = <<>> /\ Len(said.users[u]) = 0
  BY <1>1, <1>2
<1> QED
  BY <1>1, <1>2, <1>3 DEF SaidInv

\* The readers of the logs leave it alone.
LEMMA SaidStays ==
  ASSUME SaidInv, UNCHANGED <<source, tableVars>>, IsLog \/ missed' = missed
  PROVE  SaidInv'
<1>1. UNCHANGED <<source, table, seen, reported, said>>
  BY DEF tableVars
<1>2. CASE IsLog
  BY <1>1, <1>2 DEF SaidInv, IsLog, ToSet, IsInjective, Last
<1>3. CASE missed' = missed
  BY <1>1, <1>3 DEF SaidInv, ToSet, IsInjective, Last
<1> QED
  BY <1>2, <1>3

LEMMA LoginKeeps == ASSUME SaidInv, NEW u \in Uids, Login(u) PROVE SaidInv'
<1>1. /\ table' = [table EXCEPT ![u] = @ + 1] /\ UNCHANGED <<source, seen, reported, said, missed>>
  BY DEF Login, logVars
<1>2. table' \in [Uids -> Nat] /\ \A v \in Uids : seen'[v] <= table'[v]
  BY <1>1 DEF SaidInv
<1> QED
  BY <1>1, <1>2 DEF SaidInv, ToSet, IsInjective, Last

\* All the new logins have room.
LEMMA NewOnesHaveRoom == ASSUME SaidInv PROVE Room(NewLogins) = NewLogins /\ NewLogins \subseteq Uids
<1> DEFINE changed == {u \in Uids : u < LastlogCap /\ table[u] # 0 /\ seen[u] # table[u]}
<1>1. NewLogins = {u \in changed : Cardinality({v \in changed : v < u}) < CursorBatch} /\ changed \subseteq Nat /\ changed \subseteq Uids
  BY CursorLimits DEF NewLogins
<1> HIDE DEF changed
<1>2. ASSUME NEW u \in NewLogins PROVE Cardinality({v \in NewLogins : v < u}) < CursorBatch
  <2>1. u \in Nat /\ Cardinality({v \in changed : v < u}) < CursorBatch
    BY <1>1
  <2>2. IsFiniteSet({v \in changed : v < u})
    <3>1. IsFiniteSet(0 .. u)
      BY <2>1, FS_Interval
    <3>2. {v \in changed : v < u} \in SUBSET (0 .. u)
      <4>1. ASSUME NEW v \in changed, v < u PROVE v \in 0 .. u
        <5>1. v \in Nat
          BY <1>1
        <5> QED
          BY <2>1, <4>1, <5>1
      <4> QED
        BY <4>1
    <3> DEFINE A == {v \in changed : v < u}
               B == 0 .. u
    <3> HIDE DEF A, B
    <3>3. IsFiniteSet(A)
      BY <3>1, <3>2, FS_Subset DEF A, B
    <3> QED
      BY <3>3 DEF A
  <2>3. {v \in NewLogins : v < u} \in SUBSET {v \in changed : v < u}
    BY <1>1
  <2> DEFINE A == {v \in changed : v < u}
             B == {v \in NewLogins : v < u}
  <2> HIDE DEF A, B
  <2>4. IsFiniteSet(B) /\ Cardinality(B) <= Cardinality(A)
    BY <2>2, <2>3, FS_Subset DEF A, B
  <2>5. Cardinality(A) \in Nat /\ Cardinality(B) \in Nat /\ Cardinality(A) < CursorBatch
    BY <2>1, <2>2, <2>4, FS_CardinalityType DEF A
  <2>6. Cardinality(B) < CursorBatch
    BY <2>4, <2>5, CursorLimits
  <2> QED
    BY <2>6 DEF B
<1>3. Room(NewLogins) = NewLogins
  BY <1>2 DEF Room
<1> QED
  BY <1>1, <1>3

LEMMA LastlogKeeps ==
  ASSUME SaidInv, NEW late \in BOOLEAN, ReadLastlog(late)
  PROVE  SaidInv'
<1>1. /\ source = "lastlog" /\ UNCHANGED <<source, table, reported>>
      /\ seen' = [u \in Uids |-> IF u \in NewLogins THEN table[u] ELSE seen[u]]
      /\ said' = [said EXCEPT !.users =
           [u \in Uids |-> IF ~late /\ u \in NewLogins THEN Append(said.users[u], table[u]) ELSE said.users[u]]]
      /\ missed' = IF late THEN missed \cup NewLogins ELSE missed
  BY NewOnesHaveRoom DEF ReadLastlog
<1>2. /\ table \in [Uids -> Nat] /\ seen \in [Uids -> Nat]
      /\ said \in [users : [Uids -> Seq(Nat)], archives : Seq(Archives)] /\ NewLogins \subseteq Uids
      /\ said.users \in [Uids -> Seq(Nat)] /\ said.archives \in Seq(Archives)
  BY NewOnesHaveRoom DEF SaidInv
<1>3. /\ said'.archives = said.archives
      /\ said'.users = [u \in Uids |-> IF ~late /\ u \in NewLogins THEN Append(said.users[u], table[u]) ELSE said.users[u]]
      /\ said' \in [users : [Uids -> Seq(Nat)], archives : Seq(Archives)]
  <2> DEFINE users == [u \in Uids |-> IF ~late /\ u \in NewLogins THEN Append(said.users[u], table[u]) ELSE said.users[u]]
  <2>1. \A u \in Uids : table[u] \in Nat /\ said.users[u] \in Seq(Nat) /\ Append(said.users[u], table[u]) \in Seq(Nat)
    BY <1>2
  <2>2. users \in [Uids -> Seq(Nat)]
    BY <2>1
  <2> HIDE DEF users
  <2>3. said' = [said EXCEPT !.users = users]
    BY <1>1 DEF users
  <2>4. said'.archives = said.archives /\ said'.users = users /\ said' \in [users : [Uids -> Seq(Nat)], archives : Seq(Archives)]
    BY <1>2, <2>2, <2>3
  <2> QED
    BY <2>4 DEF users
<1>4. seen' \in [Uids -> Nat] /\ \A u \in Uids : seen'[u] = IF u \in NewLogins THEN table[u] ELSE seen[u]
  BY <1>1, <1>2
<1>5. \A u \in Uids : seen'[u] <= table'[u]
  BY <1>1, <1>2, <1>4 DEF SaidInv
<1>6. ASSUME NEW u \in Uids \ missed'
      PROVE  /\ seen'[u] = IF said'.users[u] = <<>> THEN 0 ELSE Last(said'.users[u])
             /\ \A i \in 1 .. Len(said'.users[u]) : said'.users[u][i] <= seen'[u]
             /\ \A i, j \in 1 .. Len(said'.users[u]) : i # j => said'.users[u][i] # said'.users[u][j]
  <2> DEFINE s == said.users[u]
  <2>1. /\ u \notin missed /\ s \in Seq(Nat) /\ seen[u] \in Nat /\ table[u] \in Nat /\ seen[u] <= table[u]
        /\ seen[u] = IF s = <<>> THEN 0 ELSE Last(s)
        /\ \A i \in 1 .. Len(s) : s[i] <= seen[u]
        /\ \A i, j \in 1 .. Len(s) : i # j => s[i] # s[j]
    BY <1>1, <1>2, <1>6 DEF SaidInv
  <2>2. CASE u \in NewLogins
    <3>1. ~late /\ seen[u] # table[u]
      BY <1>1, <1>6, <2>2 DEF NewLogins
    <3>2. said'.users[u] = Append(s, table[u]) /\ seen'[u] = table[u]
      BY <1>3, <1>4, <2>2, <3>1
    <3> HIDE DEF s
    <3>3. /\ Len(said'.users[u]) = Len(s) + 1 /\ Len(s) \in Nat /\ said'.users[u] # <<>>
          /\ \A i \in 1 .. Len(s) : said'.users[u][i] = s[i] /\ s[i] \in Nat
          /\ said'.users[u][Len(s) + 1] = table[u]
      BY <2>1, <3>2
    <3>4. \A i \in 1 .. Len(s) + 1 : i = Len(s) + 1 \/ i \in 1 .. Len(s)
      BY <3>3
    <3>5. seen[u] < table[u]
      BY <2>1, <3>1
    <3>6. \A i \in 1 .. Len(s) : said'.users[u][i] < table[u]
      BY <2>1, <3>3, <3>5
    <3> DEFINE t == said'.users[u]
               m == Len(s)
    <3> HIDE DEF t, m
    <3>7. /\ m \in Nat /\ Len(t) = m + 1 /\ t # <<>> /\ t[m + 1] = table[u] /\ seen'[u] = table[u]
          /\ \A i \in 1 .. m + 1 : i = m + 1 \/ i \in 1 .. m
          /\ \A i \in 1 .. m : t[i] = s[i] /\ t[i] < table[u] /\ t[i] \in Nat
          /\ \A i, j \in 1 .. m : i # j => s[i] # s[j]
      BY <2>1, <3>2, <3>3, <3>4, <3>6 DEF t, m
    <3>8. Last(t) = table[u]
      BY <3>7 DEF Last
    <3>9. /\ \A i \in 1 .. Len(t) : t[i] <= table[u]
          /\ \A i, j \in 1 .. Len(t) : i # j => t[i] # t[j]
      BY <2>1, <3>7
    <3> QED
      BY <3>7, <3>8, <3>9 DEF t
  <2>3. CASE u \notin NewLogins
    <3>1. said'.users[u] = s /\ seen'[u] = seen[u]
      BY <1>3, <1>4, <2>3
    <3> HIDE DEF s
    <3> QED
      BY <2>1, <3>1
  <2> QED
    BY <2>2, <2>3
<1> QED
  BY <1>1, <1>2, <1>3, <1>4, <1>5, <1>6 DEF SaidInv

LEMMA ArchivesKeep ==
  ASSUME SaidInv, NEW late \in BOOLEAN, ReadArchives(late)
  PROVE  SaidInv'
<1> DEFINE new == {a \in Archives : a \notin reported}
           looked == {a \in new : Cardinality({b \in new : b < a}) < Min({ArchivesPerCycle, CursorBatch})}
<1>1. PICK opened \in SUBSET looked :
        /\ said' = [said EXCEPT !.archives = @ \o IF late THEN <<>> ELSE InOrder(opened)]
        /\ missed' = missed \cup (IF late THEN looked ELSE looked \ opened)
  BY DEF ReadArchives
<1>2. source = "archives" /\ reported' = reported \cup looked /\ UNCHANGED <<source, table, seen>>
  BY DEF ReadArchives
<1>3. looked \subseteq Archives /\ looked \cap reported = {}
  OBVIOUS
<1> HIDE DEF looked
<1> DEFINE came == IF late THEN <<>> ELSE InOrder(opened)
<1>4. /\ came \in Seq(Archives) /\ ToSet(came) = (IF late THEN {} ELSE opened)
      /\ \A j, k \in 1 .. Len(came) : came[j] = came[k] => j = k
  <2>1. opened \in SUBSET Archives /\ opened \subseteq Nat /\ IsFiniteSet(opened)
    <3>1. opened \in SUBSET Archives /\ opened \subseteq Nat
      BY <1>3, CursorLimits
    <3> QED
      BY <3>1, CursorLimits, FS_Subset
  <2>2. CASE late
    <3>1. came = <<>>
      BY <2>2
    <3> HIDE DEF came
    <3> QED
      BY <2>2, <3>1 DEF ToSet
  <2>3. CASE ~late
    <3>1. came = InOrder(opened)
      BY <2>3
    <3> HIDE DEF came
    <3>2. /\ came \in Seq(opened) /\ ToSet(came) = opened
          /\ \A j, k \in 1 .. Len(came) : came[j] = came[k] => j = k
      BY <2>1, <3>1, OrderHolds
    <3>3. came \in Seq(Archives)
      <4>1. came \in [1 .. Len(came) -> opened] /\ Len(came) \in Nat
        BY <3>2
      <4>2. came \in [1 .. Len(came) -> Archives]
        BY <2>1, <4>1
      <4> QED
        BY <4>1, <4>2
    <3> QED
      BY <2>3, <3>2, <3>3
  <2> QED
    BY <2>2, <2>3
<1>5. /\ said \in [users : [Uids -> Seq(Nat)], archives : Seq(Archives)]
      /\ said.users \in [Uids -> Seq(Nat)] /\ said.archives \in Seq(Archives)
      /\ said' = [said EXCEPT !.archives = said.archives \o came]
  BY <1>1 DEF SaidInv
<1> HIDE DEF came
<1> DEFINE old == said.archives
<1>6. /\ said'.archives = old \o came /\ said'.users = said.users
      /\ said' \in [users : [Uids -> Seq(Nat)], archives : Seq(Archives)]
  <2>1. old \o came \in Seq(Archives)
    BY <1>4, <1>5
  <2> QED
    BY <1>5, <2>1
<1>7. ToSet(said'.archives) = ToSet(old) \cup ToSet(came)
  BY <1>4, <1>5, <1>6, JoinHolds
<1>8. ToSet(old) \subseteq reported /\ reported = ToSet(old) \cup missed /\ reported \subseteq Archives
      /\ \A j, k \in 1 .. Len(old) : old[j] = old[k] => j = k
  BY <1>2, <1>5 DEF SaidInv, IsInjective
<1>9. ToSet(came) \subseteq looked
  BY <1>4
<1>10. IsInjective(said'.archives)
  <2>1. /\ Len(old) \in Nat /\ Len(came) \in Nat /\ DOMAIN said'.archives = 1 .. Len(old) + Len(came)
        /\ \A x \in 1 .. Len(old) + Len(came) : said'.archives[x] = IF x <= Len(old) THEN old[x] ELSE came[x - Len(old)]
    BY <1>4, <1>5, <1>6
  <2>2. \A x \in 1 .. Len(old) : old[x] \in reported
    BY <1>5, <1>8 DEF ToSet
  <2>3. \A x \in 1 .. Len(came) : came[x] \notin reported
    BY <1>3, <1>4, <1>9 DEF ToSet
  <2> DEFINE l == Len(old)
             new2 == said'.archives
  <2>4. \A x \in 1 .. l + Len(came) : \/ x \in 1 .. l /\ new2[x] = old[x] /\ new2[x] \in reported
                                      \/ x - l \in 1 .. Len(came) /\ new2[x] = came[x - l] /\ new2[x] \notin reported
    <3> HIDE DEF old
    <3> QED
      BY <2>1, <2>2, <2>3
  <2> HIDE DEF new2, l, old
  <2>5. ASSUME NEW j \in 1 .. l + Len(came), NEW k \in 1 .. l + Len(came), new2[j] = new2[k]
        PROVE  j = k
    <3>1. CASE j \in 1 .. l /\ new2[j] = old[j] /\ new2[j] \in reported
      BY <1>8, <2>4, <2>5, <3>1 DEF l
    <3>2. CASE j - l \in 1 .. Len(came) /\ new2[j] = came[j - l] /\ new2[j] \notin reported
      <4>1. k - l \in 1 .. Len(came) /\ new2[k] = came[k - l]
        BY <2>4, <2>5, <3>2
      <4>2. j - l = k - l
        BY <1>4, <2>5, <3>2, <4>1
      <4> QED
        BY <2>1, <4>2 DEF l
    <3> QED
      BY <2>4, <3>1, <3>2
  <2> QED
    BY <2>1, <2>5 DEF IsInjective, new2, l
<1>11. reported' = ToSet(said'.archives) \cup missed' /\ ToSet(said'.archives) \subseteq reported' /\ reported' \subseteq Archives
  <2>1. CASE late
    BY <1>1, <1>2, <1>3, <1>4, <1>7, <1>8, <2>1
  <2>2. CASE ~late
    BY <1>1, <1>2, <1>3, <1>4, <1>7, <1>8, <2>2
  <2> QED
    BY <2>1, <2>2
<1> QED
  BY <1>2, <1>6, <1>10, <1>11 DEF SaidInv

-----------------------------------------------------------------------------
CursorInv == LogInv /\ SaidInv

LEMMA CursorSteps == ASSUME CursorInv, [CursorNext]_cursorVars PROVE CursorInv'
<1>0. LogInv /\ SaidInv
  BY DEF CursorInv
<1>1. CASE Write
  <2>1. UNCHANGED <<source, tableVars>> /\ IsLog
    BY <1>1 DEF Write
  <2> QED
    BY <1>0, <1>1, <2>1, WriteKeeps, SaidStays DEF CursorInv
<1>2. CASE WriteEnds
  <2>1. UNCHANGED <<source, tableVars>> /\ IsLog
    BY <1>2 DEF WriteEnds
  <2> QED
    BY <1>0, <1>2, <2>1, WriteEndsKeeps, SaidStays DEF CursorInv
<1>3. CASE Replace
  <2>1. UNCHANGED <<source, tableVars>> /\ IsLog
    BY <1>3 DEF Replace
  <2> QED
    BY <1>0, <1>3, <2>1, ReplaceKeeps, SaidStays DEF CursorInv
<1>4. CASE FirstLook
  <2>1. UNCHANGED <<source, tableVars>> /\ IsLog
    BY <1>4 DEF FirstLook
  <2> QED
    BY <1>0, <1>4, <2>1, FirstLookKeeps, SaidStays DEF CursorInv
<1>5. ASSUME NEW u \in Uids, Login(u) PROVE CursorInv'
  <2>1. UNCHANGED <<source, cells, written, replacements, cursor, told, astray>> /\ missed \subseteq missed'
    BY <1>5 DEF Login, logVars
  <2> QED
    BY <1>0, <1>5, <2>1, LogStays, LoginKeeps DEF CursorInv
<1>6. ASSUME NEW late \in BOOLEAN, Look(late) PROVE CursorInv'
  <2>1. UNCHANGED <<source, tableVars>> /\ IsLog /\ astray' \in BOOLEAN
    BY <1>6 DEF Look
  <2>2. LogInv'
    BY <1>0, <1>6, LookKeeps, LookAstray
  <2> QED
    BY <1>0, <2>1, <2>2, SaidStays DEF CursorInv
<1>7. ASSUME NEW late \in BOOLEAN, ReadLastlog(late) PROVE CursorInv'
  <2>1. UNCHANGED <<source, cells, written, replacements, cursor, told, astray>> /\ missed \subseteq missed'
    BY <1>7 DEF ReadLastlog
  <2> QED
    BY <1>0, <1>7, <2>1, LogStays, LastlogKeeps DEF CursorInv
<1>8. ASSUME NEW late \in BOOLEAN, ReadArchives(late) PROVE CursorInv'
  <2>1. UNCHANGED <<source, cells, written, replacements, cursor, told, astray>> /\ missed \subseteq missed'
    BY <1>8 DEF ReadArchives
  <2> QED
    BY <1>0, <1>8, <2>1, LogStays, ArchivesKeep DEF CursorInv
<1>9. CASE UNCHANGED cursorVars
  <2>1. UNCHANGED <<source, cells, written, replacements, cursor, told, astray, tableVars, missed>> /\ missed \subseteq missed'
    BY <1>9 DEF cursorVars, logVars
  <2> QED
    BY <1>0, <2>1, LogStays, SaidStays DEF CursorInv
<1> QED
  BY <1>1, <1>2, <1>3, <1>4, <1>5, <1>6, <1>7, <1>8, <1>9 DEF CursorNext

LEMMA TellingsAreTold == ASSUME told \in Seq(Telling), NEW n PROVE {told[k].text : k \in Tellings(n)} = TextsTold(n)
<1>1. DOMAIN told = 1 .. Len(told)
  OBVIOUS
<1> QED
  BY <1>1 DEF Tellings, TextsTold, ToSet

LEMMA OnceAtMost == ASSUME NEW S, \A j, k \in S : j = k PROVE Cardinality(S) <= 1
<1>1. CASE S = {}
  BY <1>1, FS_EmptySet
<1>2. CASE S # {}
  <2>1. PICK x \in S : S = {x}
    BY <1>2
  <2> QED
    BY <2>1, FS_Singleton
<1> QED
  BY <1>1, <1>2

LEMMA PlacesKept == ASSUME CursorInv PROVE CursorsKeepTheirPlace
<1>0. CellsInv /\ PlaceInv /\ ToldInv /\ SaidInv /\ Len(cells) \in Nat /\ told \in Seq(Telling)
  BY DEF CursorInv, LogInv, CellsInv, PlaceInv
<1>1. EntriesAreToldOnce
  <2> SUFFICES ASSUME ~astray PROVE EntriesAreToldOnce
    BY DEF EntriesAreToldOnce
  <2>1. ASSUME NEW n PROVE Cardinality(Tellings(n)) <= 1
    <3>1. \A j, k \in Tellings(n) : j = k
      BY <1>0 DEF ToldInv, Tellings
    <3> QED
      BY <3>1, OnceAtMost
  <2>2. ASSUME cursor.offset # -1, ~replacements.unread,
               NEW i \in 1 .. Min({cursor.offset, Len(cells)}), cells[i].id \notin missed
        PROVE  /\ Whole(i)
               /\ {told[k].text : k \in Tellings(cells[i].id)} = IF Shows(i) THEN {Text(i)} ELSE {}
    <3>1. cursor.offset \in Nat
      BY <1>0, <2>2 DEF PlaceInv
    <3>2. Min({cursor.offset, Len(cells)}) \in Nat /\ Min({cursor.offset, Len(cells)}) <= cursor.offset
      <4>1. {cursor.offset, Len(cells)} \subseteq Nat /\ {cursor.offset, Len(cells)} # {}
        BY <1>0, <3>1
      <4> QED
        BY <4>1, MinIs
    <3>3. i \in 1 .. cursor.offset
      BY <3>1, <3>2
    <3>4. PassedWell(i)
      BY <1>0, <2>2, <3>3 DEF ToldInv
    <3> QED
      BY <1>0, <2>2, <3>4, TellingsAreTold DEF PassedWell
  <2> QED
    BY <2>1, <2>2 DEF EntriesAreToldOnce
<1>2. TableIsTold
  <2>1. Range(said.archives) = ToSet(said.archives)
    BY DEF Range, ToSet
  <2> QED
    BY <1>0, <2>1 DEF SaidInv, TableIsTold
<1> QED
  BY <1>1, <1>2 DEF CursorsKeepTheirPlace

\* CursorsKeepTheirPlace (LogCursors): every reader that keeps a place reports what came since,
\* once, whole and with its own text, whatever grows, is replaced or overruns its deadline.
THEOREM CursorsKeep == CursorSpec => []CursorsKeepTheirPlace
<1>1. CursorInit => CursorInv
  BY LogBegins, SaidBegins DEF CursorInv
<1>2. CursorInv /\ [CursorNext]_cursorVars => CursorInv'
  BY CursorSteps
<1>3. CursorInv => CursorsKeepTheirPlace
  BY PlacesKept
<1> QED
  BY <1>1, <1>2, <1>3, PTL DEF CursorSpec

=============================================================================
