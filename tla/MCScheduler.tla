----------------------------- MODULE MCScheduler -----------------------------
(* Two leads of which the second depends on the first, one wave per lead. *)
EXTENDS Scheduler

TwoLeads == <<3, 6>>
TwoCycles == 0..1
OldCycles == {0}
GefsLags == [c \in TwoCycles |-> [gfs |-> 2, gefs |-> IF c = 0 THEN 2 ELSE 0]]
Ticks == [active |-> 1, publishing |-> 1, initial |-> 1, longest |-> 1, retry |-> 1]
ShortBackoff == [base |-> 1, max |-> 2]
==============================================================================
