----------------------------- MODULE WaveContract -----------------------------
(***************************************************************************)
(* What an ingestion wave promises the scheduler, whatever its pipeline    *)
(* looks like: the work list shrinks only before the wave opens, every     *)
(* item of it gets one outcome, an item is skipped only after cancellation *)
(* and lost only with a broken decode pool, a lead is offered for          *)
(* publication in the very step that settles its last item (never when one *)
(* was skipped or lost), and the finalizer runs once, when no item is      *)
(* pending.                                                                *)
(* WavePipeline implements it.                                             *)
(***************************************************************************)
CONSTANTS
    Items,      \* the wave's work items
    LeadTime      \* LeadTime[i]: the lead time of item i

VARIABLES
    state,      \* "opening", "running", "finalized" or "failed"
    work,       \* the items the wave still answers for
    outcome,    \* outcome[i]: "pending", "written", "failed", "skipped" or "lost"
    published,  \* leads offered for publication
    cancelled,  \* cancellation was requested
    broken      \* the decode pool takes no more work

vars == <<state, work, outcome, published, cancelled, broken>>

Init ==
    /\ state = "opening"
    /\ work = Items
    /\ outcome = [i \in Items |-> "pending"]
    /\ published = {}
    /\ cancelled = FALSE
    /\ broken = FALSE

\* A seed candidate that can never be normalized leaves the wave.
Drop(i) ==
    /\ state = "opening"
    /\ i \in work
    /\ work' = work \ {i}
    /\ outcome' = [outcome EXCEPT ![i] = "failed"]
    /\ UNCHANGED <<state, published, cancelled, broken>>

Open ==
    /\ state = "opening"
    /\ state' = "running"
    /\ UNCHANGED <<work, outcome, published, cancelled, broken>>

Abort ==
    /\ state = "opening"
    /\ state' = "failed"
    /\ UNCHANGED <<work, outcome, published, cancelled, broken>>

\* The items of i's lead that keep it from publication once i has settled.
Outstanding(i) ==
    {j \in work \ {i} : LeadTime[j] = LeadTime[i] /\ outcome[j] \in {"pending", "skipped", "lost"}}

Settle(i, result) ==
    /\ state = "running"
    /\ i \in work
    /\ outcome[i] = "pending"
    /\ outcome' = [outcome EXCEPT ![i] = result]
    /\ published' = IF Outstanding(i) = {} THEN published \cup {LeadTime[i]} ELSE published
    /\ UNCHANGED <<state, work, cancelled, broken>>

Skip(i) ==
    /\ state = "running"
    /\ cancelled
    /\ i \in work
    /\ outcome[i] = "pending"
    /\ outcome' = [outcome EXCEPT ![i] = "skipped"]
    /\ UNCHANGED <<state, work, published, cancelled, broken>>

Lose(i) ==
    /\ state = "running"
    /\ broken
    /\ i \in work
    /\ outcome[i] = "pending"
    /\ outcome' = [outcome EXCEPT ![i] = "lost"]
    /\ UNCHANGED <<state, work, published, cancelled, broken>>

Cancel ==
    /\ cancelled' = TRUE
    /\ UNCHANGED <<state, work, outcome, published, broken>>

Break ==
    /\ broken' = TRUE
    /\ UNCHANGED <<state, work, outcome, published, cancelled>>

Finalize ==
    /\ state = "running"
    /\ \A i \in work : outcome[i] # "pending"
    /\ state' \in {"finalized", "failed"}
    /\ UNCHANGED <<work, outcome, published, cancelled, broken>>

Next ==
    \/ Open \/ Abort \/ Cancel \/ Break \/ Finalize
    \/ \E i \in Items : Drop(i) \/ Skip(i) \/ Lose(i) \/ Settle(i, "written") \/ Settle(i, "failed")

Spec == Init /\ [][Next]_vars
=============================================================================
