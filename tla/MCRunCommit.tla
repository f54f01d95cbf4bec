---------------------------- MODULE MCRunCommit ----------------------------
(* Instances of RunCommit for TLC. *)
EXTENDS RunCommit

Det == {0}
MeanAndMember == {0, 1}
TwoLeads == {1, 2}
TwoWaves == {1, 2}
ThreeWaves == {1, 2, 3}
FourWaves == 1..4

\* The second wave writes one lead again.
ReingestLead == [w \in Waves |-> IF w = 1 THEN Regions ELSE {r \in Regions : LeadOf(r) = 1}]
\* The second wave writes one lead again, the third only repairs the status, the
\* last writes the whole horizon again.
ReingestRepairAll == [w \in Waves |->
    CASE w = 2 -> {r \in Regions : LeadOf(r) = 1}
      [] w = 3 -> {}
      [] OTHER -> Regions]
=============================================================================
