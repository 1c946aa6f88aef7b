-------------------------------- MODULE Intake -------------------------------
(***************************************************************************)
(* What applications send to the agent: measures to the StatsD module and  *)
(* payloads to the OTLP receiver, two modules that share nothing but the   *)
(* telemetry behind them.                                                  *)
(***************************************************************************)
EXTENDS Statsd, Receiver

\* What is sent to the agent is taken as it came, bounded and counted: measures
\* (statsd.go, inproc/telemetry.go) and payloads (engine.go).
IntakeIsTrue == DatagramsBecomeSeries /\ RequestsAreAnswered

=============================================================================
