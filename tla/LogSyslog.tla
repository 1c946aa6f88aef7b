----------------------------- MODULE LogSyslog ------------------------------
(***************************************************************************)
(* The syslog receiver of the logs module (source_syslog.go).  Senders     *)
(* push messages at it; a collection cycle calls Read, which drains what   *)
(* has arrived and rebinds the sockets when the configured address has     *)
(* changed.  Stop cancels the collection goroutine and closes the          *)
(* listener.  A Read that was running, or that the cancelled cycle had     *)
(* just begun, is not waited for (guard.Call): it goes on beside Stop.     *)
(*                                                                         *)
(* Each action is one section under the mutex `mu', or one system call.    *)
(* `life' is the lock that serialises start and Close.  A listener has the *)
(* generation of the stop channel it was started with.  Of a message the   *)
(* model keeps its number in the order of arrival; framing and parsing are *)
(* left out.                                                               *)
(***************************************************************************)
EXTENDS Integers, FiniteSets, SequencesExt

CONSTANTS
  Readers,       \* the calls of Read that may run at once; more than one if a cycle overran
  Addresses,     \* what syslog.listen may be set to
  MaxQueue,      \* maxSyslogQueue
  SyslogBatch,   \* max.batch
  MaxConns,      \* maxSyslogConns
  MaxGen, MaxConnects, MaxMessages, MaxChanges  \* bounds

ASSUME SyslogAssumption ==
  /\ "stop" \notin Readers /\ "none" \notin Readers \cup Addresses
  /\ {MaxQueue, SyslogBatch} \subseteq Nat \ {0}
  /\ {MaxConns, MaxGen, MaxConnects, MaxMessages, MaxChanges} \subseteq Nat

Threads == Readers \cup {"stop"}
Gens == 1..MaxGen
Connects == 1..MaxConnects

VARIABLES
  listen,    \* the configured address, and how often it has changed
  running,   \* FALSE once Stop has cancelled the collection goroutine
  thread,    \* thread[t]: where a Read or the Close of Stop is
  life,      \* the thread that holds the lifecycle lock
  gens,      \* stop channels made so far
  addr,      \* l.addr
  current,   \* l.stop, l.udp, l.tcp: their generations, 0 for nil
  conns,     \* l.conns
  sockets,   \* the sockets that are open: <<kind, generation, address>>, <<"conn", c>>
  stopped,   \* the stop channels that are closed
  serving,   \* the goroutines wg counts: <<"udp", g>>, <<"tcp", g>>, <<"conn", c>>
  accepted,  \* accepted[g]: the connection serveTCP has accepted and not recorded, 0 if none
  connGen,   \* connGen[c]: the generation a connection was accepted in, 0 if not yet
  queue, arrived, dropped, drained

listenerVars == <<addr, current, conns, sockets, stopped, serving, accepted, connGen, gens>>
queueVars == <<queue, arrived, dropped, drained>>
syslogVars == <<listen, running, thread, life, listenerVars, queueVars>>

Free == "none"
Unbound == [stop |-> 0, udp |-> 0, tcp |-> 0]
Idle == [pc |-> "idle", want |-> Free, then |-> "idle", held |-> Unbound, conns |-> {}]

SyslogInit ==
  /\ listen = [addr |-> Free, changes |-> 0] /\ running = TRUE
  /\ thread = [t \in Threads |-> Idle] /\ life = Free
  /\ gens = 0 /\ addr = Free /\ current = Unbound
  /\ conns = {} /\ sockets = {} /\ stopped = {} /\ serving = {}
  /\ accepted = [g \in Gens |-> 0] /\ connGen = [c \in Connects |-> 0]
  /\ queue = <<>> /\ arrived = 0 /\ dropped = 0 /\ drained = <<>>

At(t, pc) == thread[t].pc = pc
Goto(t, pc) == thread' = [thread EXCEPT ![t].pc = pc]

(***************************************************************************)
(* The environment: the configuration, and Stop.                           *)
(***************************************************************************)
Configure(a) ==
  /\ listen.changes < MaxChanges /\ a # listen.addr
  /\ listen' = [addr |-> a, changes |-> listen.changes + 1]
  /\ UNCHANGED <<running, thread, life, listenerVars, queueVars>>

\* cancel, the loop's end and the call of Close: the loop waits for no Read.
Stop ==
  /\ running /\ running' = FALSE
  /\ thread' = [thread EXCEPT !["stop"] = [Idle EXCEPT !.pc = "close", !.then = "done"]]
  /\ UNCHANGED <<listen, life, listenerVars, queueVars>>

(***************************************************************************)
(* Read.                                                                   *)
(***************************************************************************)
ReadBegins(t) ==
  /\ running /\ t # "stop" /\ At(t, "idle")
  /\ thread' = [thread EXCEPT ![t] = [Idle EXCEPT !.want = listen.addr,
                  !.pc = IF listen.addr = addr THEN "drain" ELSE "close",
                  !.then = IF listen.addr = Free THEN "drain" ELSE "start"]]
  /\ UNCHANGED <<listen, running, life, listenerVars, queueVars>>

\* Bug: the fields are cleared before they are copied.
ReleaseClearsFirst(t, then) ==
  /\ thread' = [thread EXCEPT ![t].pc = "shut", ![t].then = then, ![t].held = Unbound, ![t].conns = {}]
  /\ current' = Unbound /\ addr' = Free /\ conns' = {}

\* closeLocked, its section under mu: everything is taken out of the listener.
Release(t, then) ==
  /\ thread' = [thread EXCEPT ![t].pc = "shut", ![t].then = then, ![t].held = current, ![t].conns = conns]
  /\ current' = Unbound /\ addr' = Free /\ conns' = {}

Close(t) ==
  /\ At(t, "close") /\ life = Free
  /\ life' = t
  /\ Release(t, thread[t].then)
  /\ UNCHANGED <<listen, running, sockets, stopped, serving, accepted, connGen, gens, queueVars>>

\* closeLocked after the section: the stop channel, the sockets and the connections.
Shut(t) ==
  LET h == thread[t].held IN
    /\ At(t, "shut")
    /\ stopped' = stopped \cup ({h.stop} \ {0})
    /\ sockets' = {s \in sockets :
         ~ \/ s[1] = "udp" /\ s[2] = h.udp
           \/ s[1] = "tcp" /\ s[2] = h.tcp
           \/ s[1] = "conn" /\ s[2] \in thread[t].conns}
    /\ Goto(t, "wait")
    /\ UNCHANGED <<listen, running, life, addr, current, conns, serving, accepted, connGen, gens, queueVars>>

\* wg.Wait, and what follows.
Closed(t) ==
  /\ At(t, "wait") /\ serving = {}
  /\ life' = Free
  /\ Goto(t, thread[t].then)
  /\ UNCHANGED <<listen, running, listenerVars, queueVars>>

Start(t) ==
  /\ At(t, "start") /\ life = Free /\ gens < MaxGen
  /\ life' = t
  /\ gens' = gens + 1
  /\ addr' = thread[t].want
  /\ current' = [current EXCEPT !.stop = gens']
  /\ Goto(t, "udp")
  /\ UNCHANGED <<listen, running, conns, sockets, stopped, serving, accepted, connGen, queueVars>>

InUse(k, a) == \E g \in Gens : <<k, g, a>> \in sockets

\* A socket is bound and served.  start has set l.stop to the generation it works for.
Bind(t, k, pc) ==
  LET g == current.stop IN
    /\ At(t, k) /\ ~InUse(k, thread[t].want)
    /\ sockets' = sockets \cup {<<k, g, thread[t].want>>}
    /\ current' = [current EXCEPT ![k] = g]
    /\ serving' = serving \cup {<<k, g>>}
    /\ Goto(t, pc)
    /\ UNCHANGED <<addr, conns, stopped, accepted, connGen, gens>>

BindUDP(t) == Bind(t, "udp", "tcp") /\ UNCHANGED <<listen, running, life, queueVars>>

BindTCP(t) ==
  /\ Bind(t, "tcp", "drain")
  /\ life' = Free
  /\ UNCHANGED <<listen, running, queueVars>>

\* A bind fails: what was started is closed, and Read returns the error without a record.
BindFails(t) ==
  /\ At(t, "udp") \/ At(t, "tcp")
  /\ Release(t, "idle")
  /\ UNCHANGED <<listen, running, life, sockets, stopped, serving, accepted, connGen, gens, queueVars>>

\* Read's last section: the oldest records, a batch of them.
Drain(t) ==
  LET n == Min({Len(queue), SyslogBatch}) IN
    /\ At(t, "drain")
    /\ drained' = drained \o SubSeq(queue, 1, n)
    /\ queue' = SubSeq(queue, n + 1, Len(queue))
    /\ Goto(t, "idle")
    /\ UNCHANGED <<listen, running, life, listenerVars, arrived, dropped>>

(***************************************************************************)
(* The serving goroutines.                                                 *)
(***************************************************************************)
\* Bug: a full queue drops the message that arrives.
EnqueueDropsNewest ==
  /\ arrived < MaxMessages
  /\ arrived' = arrived + 1
  /\ queue' = IF Len(queue) >= MaxQueue THEN queue ELSE Append(queue, arrived')
  /\ dropped' = IF Len(queue) >= MaxQueue THEN dropped + 1 ELSE dropped
  /\ UNCHANGED drained

Enqueue ==
  /\ arrived < MaxMessages
  /\ arrived' = arrived + 1
  /\ queue' = Append(IF Len(queue) >= MaxQueue THEN Tail(queue) ELSE queue, arrived')
  /\ dropped' = IF Len(queue) >= MaxQueue THEN dropped + 1 ELSE dropped
  /\ UNCHANGED drained

Open(k, g) == \E s \in sockets : s[1] = k /\ s[2] = g

UDPReceives(g) ==
  /\ <<"udp", g>> \in serving /\ Open("udp", g)
  /\ Enqueue
  /\ UNCHANGED <<listen, running, thread, life, listenerVars>>

\* The stop channel, or the error of a closed socket.
UDPEnds(g) ==
  /\ <<"udp", g>> \in serving /\ (g \in stopped \/ ~Open("udp", g))
  /\ serving' = serving \ {<<"udp", g>>}
  /\ UNCHANGED <<listen, running, thread, life, addr, current, conns, sockets, stopped, accepted, connGen, gens, queueVars>>

Accept(g, c) ==
  /\ <<"tcp", g>> \in serving /\ Open("tcp", g) /\ accepted[g] = 0
  /\ connGen[c] = 0 /\ \A d \in Connects : d < c => connGen[d] # 0
  /\ connGen' = [connGen EXCEPT ![c] = g]
  /\ accepted' = [accepted EXCEPT ![g] = c]
  /\ sockets' = sockets \cup {<<"conn", c>>}
  /\ UNCHANGED <<listen, running, thread, life, addr, current, conns, stopped, serving, gens, queueVars>>

\* The section of serveTCP under mu: one connection too many is closed, any other is served.
Record(g) ==
  LET c == accepted[g]
      over == Cardinality(conns) >= MaxConns
  IN
    /\ c # 0
    /\ accepted' = [accepted EXCEPT ![g] = 0]
    /\ conns' = IF over THEN conns ELSE conns \cup {c}
    /\ serving' = IF over THEN serving ELSE serving \cup {<<"conn", c>>}
    /\ sockets' = IF over THEN sockets \ {<<"conn", c>>} ELSE sockets
    /\ UNCHANGED <<listen, running, thread, life, addr, current, stopped, connGen, gens, queueVars>>

TCPEnds(g) ==
  /\ <<"tcp", g>> \in serving /\ accepted[g] = 0 /\ (g \in stopped \/ ~Open("tcp", g))
  /\ serving' = serving \ {<<"tcp", g>>}
  /\ UNCHANGED <<listen, running, thread, life, addr, current, conns, sockets, stopped, accepted, connGen, gens, queueVars>>

ConnReceives(c) ==
  /\ <<"conn", c>> \in serving /\ Open("conn", c)
  /\ Enqueue
  /\ UNCHANGED <<listen, running, thread, life, listenerVars>>

\* The peer hangs up or falls silent, or the connection or its generation is closed.
ConnEnds(c) ==
  /\ <<"conn", c>> \in serving
  /\ serving' = serving \ {<<"conn", c>>}
  /\ sockets' = sockets \ {<<"conn", c>>}
  /\ conns' = conns \ {c}
  /\ UNCHANGED <<listen, running, thread, life, addr, current, stopped, accepted, connGen, gens, queueVars>>

(***************************************************************************)
(* The specification.                                                      *)
(***************************************************************************)
ThreadStep(t) ==
  \/ ReadBegins(t) \/ Drain(t)
  \/ Close(t) \/ Shut(t) \/ Closed(t)
  \/ Start(t) \/ BindUDP(t) \/ BindTCP(t) \/ BindFails(t)

ServeStep(g) == UDPEnds(g) \/ Record(g) \/ TCPEnds(g)

SyslogNext ==
  \/ \E a \in Addresses \cup {Free} : Configure(a)
  \/ Stop
  \/ \E t \in Threads : ThreadStep(t)
  \/ \E g \in Gens : ServeStep(g) \/ UDPReceives(g) \/ \E c \in Connects : Accept(g, c)
  \/ \E c \in Connects : ConnReceives(c) \/ ConnEnds(c)

\* The goroutines run: they notice a closed channel or socket, and a Close goes on.
SyslogFairness ==
  /\ \A t \in Threads : WF_syslogVars(Shut(t) \/ Closed(t))
  /\ \A g \in Gens : WF_syslogVars(ServeStep(g))
  /\ \A c \in Connects : WF_syslogVars(ConnEnds(c))

SyslogSpec == SyslogInit /\ [][SyslogNext]_syslogVars /\ SyslogFairness

(***************************************************************************)
(* Properties.                                                             *)
(***************************************************************************)
\* While nobody is starting or closing, the sockets that are open and the goroutines that serve
\* them are those the listener knows of: a later Close reaches all of them (source_syslog.go:
\* 30-34, 367-401).
BoundIsRecorded ==
  life = Free =>
    /\ {s \in sockets : s[1] # "conn"} = {<<k, current[k], addr>> : k \in {k \in {"udp", "tcp"} : current[k] # 0}}
    /\ {s[2] : s \in {s \in sockets : s[1] = "conn"}} = conns \cup ({accepted[g] : g \in Gens} \ {0})
    /\ {s \in serving : s[1] # "conn"} \subseteq {<<k, current[k]>> : k \in {"udp", "tcp"}}
    /\ {s[2] : s \in {s \in serving : s[1] = "conn"}} = conns

\* Every message is drained, waits or was counted as dropped; they are drained in the order in
\* which they came, and those that were dropped are older than those that wait
\* (source_syslog.go:50-54, 345-357).
MessagesAreAccounted ==
  LET kept == drained \o queue IN
    /\ Len(queue) <= MaxQueue
    /\ Len(kept) + dropped = arrived
    /\ \A i \in 1..Len(kept) - 1 : kept[i] < kept[i + 1]
    /\ queue # <<>> => Range(queue) = Head(queue)..arrived

\* Neither a message nor a socket is lost sight of.
ListenerAccountsForAll == BoundIsRecorded /\ MessagesAreAccounted

\* A Close ends: what it waits for needs nothing that it holds (source_syslog.go:31-34).
CloseEnds == \A t \in Threads : At(t, "shut") ~> ~At(t, "shut") /\ ~At(t, "wait")

=============================================================================
