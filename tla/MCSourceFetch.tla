---------------------------- MODULE MCSourceFetch ----------------------------
(***************************************************************************)
(* SourceFetch for TLC: the mean and the member of a lead the platform     *)
(* ingests, and a member of a lead it does not.                            *)
(***************************************************************************)
EXTENDS SourceFetch, TLC

Mean == 1
Member == 2
Outside == 3

\* Leads of the three artifacts; only the first two are of the horizon.
MCLead == Mean :> 3 @@ Member :> 3 @@ Outside :> 9
=============================================================================
