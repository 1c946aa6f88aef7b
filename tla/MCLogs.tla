------------------------------- MODULE MCLogs -------------------------------
(***************************************************************************)
(* The parts of the logs module side by side, and the agent's two other    *)
(* listeners: the StatsD module and the OTLP receiver.  They share nothing *)
(* but the cycle that calls them, so a behaviour is about one of them:     *)
(* `part'.                                                                 *)
(***************************************************************************)
EXTENDS LogTail, LogSyslog, LogCursors, Intake

\* Tags 1 and 3 are written alike.
MCRendered == [t \in Tag |-> IF t = 3 THEN 1 ELSE t]

Line(instrument, value, tags) ==
  [instrument |-> instrument, name |-> "requests", value |-> value, tags |-> tags]

\* Tags in another order, alike, without a key and too many; lines that are malformed or too many.
MCDatagrams == {
  <<Line("counter", 3, <<1, 2>>), Line("counter", -5, <<2, 1>>)>>,
  <<Line("counter", 2, <<0, 1>>), Malformed>>,
  <<Line("counter", 3, <<3, 0, 2>>), Line("gauge", 1, <<>>)>>,
  <<Line("histogram", 4, <<2, 2, 1>>), Line("histogram", 2, <<2, 2>>), Line("gauge", 7, <<1>>)>>,
  <<Malformed>>}

VARIABLE part

Init ==
  /\ part \in {"tail", "syslog", "cursors", "statsd", "receiver"}
  /\ TailInit /\ SyslogInit /\ CursorInit /\ StatsdInit /\ ReceiverInit
  /\ part # "cursors" => source = "journald"
  /\ part # "receiver" => maxQueue = 1

Next ==
  \/ part = "tail" /\ TailNext /\ UNCHANGED <<syslogVars, cursorVars, statsdVars, receiverVars>>
  \/ part = "syslog" /\ SyslogNext /\ UNCHANGED <<tailVars, cursorVars, statsdVars, receiverVars>>
  \/ part = "cursors" /\ CursorNext /\ UNCHANGED <<tailVars, syslogVars, statsdVars, receiverVars>>
  \/ part = "statsd" /\ StatsdNext /\ UNCHANGED <<tailVars, syslogVars, cursorVars, receiverVars>>
  \/ part = "receiver" /\ ReceiverNext /\ UNCHANGED <<tailVars, syslogVars, cursorVars, statsdVars>>

Spec ==
  /\ Init
  /\ [][Next /\ UNCHANGED part]_<<part, tailVars, syslogVars, cursorVars, statsdVars, receiverVars>>
  /\ SyslogFairness

=============================================================================
