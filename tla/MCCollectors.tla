----------------------------- MODULE MCCollectors -----------------------------
(***************************************************************************)
(* What calls into a module under guard and a deadline: the collectors,    *)
(* which sweep, and the supervisor, which asks how it is.  They share the  *)
(* guard and nothing else, so a behaviour is about one of them: `part'.    *)
(***************************************************************************)
EXTENDS Collectors, HealthProbes

VARIABLE part

CallersInit ==
  /\ part \in {"collectors", "probes"}
  /\ Init /\ (part = "collectors" \/ kind = "process")
  /\ ProbeInit /\ (part = "probes" \/ enabled = {})

CallersNext ==
  \/ part = "collectors" /\ Next /\ UNCHANGED probeVars
  \/ part = "probes" /\ ProbeNext /\ UNCHANGED vars

CallersSpec ==
  /\ CallersInit
  /\ [][CallersNext /\ UNCHANGED part]_<<part, vars, probeVars>>
  /\ Fairness /\ ProbeFairness /\ WF_probeVars(part = "probes" /\ AskAll)

=============================================================================
