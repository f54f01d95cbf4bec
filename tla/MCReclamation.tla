--------------------------- MODULE MCReclamation ---------------------------
(* Instances of Reclamation for TLC. *)
EXTENDS Reclamation

CONSTANTS precip, u10, v10, d, e

\* A reset lead with its predecessor, and the analysis of a newer cycle at the
\* reset lead's valid time; both cycles expire before the clock stops.
DaemonScope == {<<0, 1>>, <<0, 2>>, <<2, 0>>}
\* The reset lead is still missing when the clock starts.
ResetMissing == {<<0, 1>>, <<2, 0>>}
\* Three cycles that meet at one valid time.
OperatorScope == {<<0, 2>>, <<1, 1>>, <<2, 0>>}
\* The two older ones are committed to begin with.
OlderCycles == {<<0, 2>>, <<1, 1>>}
WindPair == {u10, v10}
=============================================================================
