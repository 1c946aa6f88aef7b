------------------------------ MODULE Ascending ------------------------------
(***************************************************************************)
(* Numbers in their order, as the code's sorts and its scans of a buffer   *)
(* leave them.                                                             *)
(***************************************************************************)
EXTENDS Naturals, SequencesExt

\* Numbers from the lowest up.
InOrder(S) == CHOOSE s \in SetToSeqs(S) : \A i, j \in DOMAIN s : i < j => s[i] < s[j]

\* What a sequence has at these places, in the order of the places.
AtPlaces(s, S) == LET places == InOrder(S) IN [k \in DOMAIN places |-> s[places[k]]]

\* A sequence sorted: entries that are equal may come in any order.
Sorted(s) ==
  LET order == CHOOSE p \in SetToSeqs(DOMAIN s) : \A i, j \in DOMAIN s : i < j => s[p[i]] <= s[p[j]]
  IN [i \in DOMAIN s |-> s[order[i]]]

=============================================================================
