--------------------------- MODULE FrontierPlanner ---------------------------
(***************************************************************************)
(* The planning policy of the realtime scheduler: from what is published   *)
(* upstream and what is committed in the catalog, the leads one bounded    *)
(* wave should ingest next.  A pure operator module: the scheduler uses it *)
(* with the state of a poll, and the calculation checks run it over every  *)
(* small publication and commit state.                                     *)
(*                                                                         *)
(* A snapshot is [gfs |-> a set of <<lead, kind>>,                         *)
(*                gefs |-> a set of <<member, lead, kind>>];               *)
(* a committed state is [leads |-> a set of leads,                         *)
(*                       pairs |-> a set of <<member, lead>>].             *)
(***************************************************************************)
EXTENDS Integers, Sequences, FiniteSets

CONSTANTS Horizon,    \* the canonical leads, in ascending order
          Members,    \* the required GEFS members
          MaxLeads    \* leads of one wave at most

ASSUME PlannerAssumption ==
  /\ Horizon \in Seq(Nat) /\ Len(Horizon) > 0
  /\ \A i, j \in 1..Len(Horizon) : i < j => Horizon[i] < Horizon[j]
  /\ IsFiniteSet(Members) /\ Members # {}
  /\ MaxLeads \in Nat \ {0}

Kinds == {"data", "idx"}
Leads == {Horizon[i] : i \in 1..Len(Horizon)}
Snapshots == [gfs : SUBSET (Leads \X Kinds), gefs : SUBSET (Members \X Leads \X Kinds)]
CommittedStates == [leads : SUBSET Leads, pairs : SUBSET (Members \X Leads)]

NoSnapshot == [gfs |-> {}, gefs |-> {}]
NothingCommitted == [leads |-> {}, pairs |-> {}]

\* A lead is published for GFS with its data and index files, for GEFS when
\* every required member has both.
Published(snap, lead) ==
  /\ \A k \in Kinds : <<lead, k>> \in snap.gfs
  /\ \A m \in Members, k \in Kinds : <<m, lead, k>> \in snap.gefs

GfsCommitted(com, lead) == lead \in com.leads
GefsCommitted(com, lead) == \A m \in Members : <<m, lead>> \in com.pairs
BothCommitted(com, lead) == GfsCommitted(com, lead) /\ GefsCommitted(com, lead)

\* A six-hour reset lead reads the lead three hours before it from the store.
Resets(lead) == lead # 0 /\ lead % 6 = 0
PredecessorSatisfied(lead, committed, before) ==
  Resets(lead) => committed \/ lead - 3 \in before

\* The leads still to ingest for one of the models, and those before a lead.
Undone(com) == {l \in Leads : ~BothCommitted(com, l)}
Before(leads, lead) == {l \in leads : l < lead}

\* The walk over the undone leads accepts one after the other, up to the first
\* that is not published or whose predecessor it would not find.
Acceptable(snap, com, lead) ==
  /\ Published(snap, lead)
  /\ PredecessorSatisfied(lead, GfsCommitted(com, lead - 3), Before(Undone(com), lead))
  /\ PredecessorSatisfied(lead, GefsCommitted(com, lead - 3), Before(Undone(com), lead))
Pending(snap, com) ==
  {l \in Undone(com) : \A k \in Undone(com) : k <= l => Acceptable(snap, com, k)}

SnapshotEmpty(snap) == snap.gfs = {} /\ snap.gefs = {}

BlockReason(snap, com) ==
  LET rest == Undone(com) \ Pending(snap, com)
      blocked == CHOOSE l \in rest : \A k \in rest : l <= k
  IN IF rest = {} THEN (IF Undone(com) = {} THEN "horizon-complete" ELSE "none")
     ELSE IF Published(snap, blocked) THEN "predecessor"
     ELSE IF SnapshotEmpty(snap) THEN "not-observed"
     ELSE IF \E k \in Kinds : <<blocked, k>> \notin snap.gfs THEN "gfs-incomplete"
     ELSE "gefs-incomplete"

\* A model's share of a wave: the leads it has not committed yet.
GfsTargets(com, wave) == {l \in wave : ~GfsCommitted(com, l)}
\* Mutant: everything in the wave is ingested for both models.
GefsTargetsAll(com, wave) == wave
GefsTargets(com, wave) == {l \in wave : ~GefsCommitted(com, l)}

\* A batch is due when it is full or one of its leads has waited long enough,
\* and takes the first leads that are pending.
Due(pending, waited) == pending # {} /\ (Cardinality(pending) >= MaxLeads \/ waited)
Batch(pending) == {l \in pending : Cardinality(Before(pending, l)) < MaxLeads}

\* The plan of one poll.  age[l] is how long a lead has been known complete.
Plan(snap, com, age, maxWait) ==
  LET pending == Pending(snap, com)
      due == Due(pending, \E l \in pending : age[l] >= maxWait)
      wave == IF due THEN Batch(pending) ELSE {}
  IN [pending |-> pending,
      wave |-> wave,
      gfs |-> GfsTargets(com, wave),
      gefs |-> GefsTargets(com, wave),
      reason |-> BlockReason(snap, com)]

(***************************************************************************)
(* What a plan must satisfy, stated without the walk.                      *)
(***************************************************************************)

\* A model's targets can be ingested in ascending order without ever reading
\* a predecessor slice that is neither committed nor ingested before it.
RunsInOrder(targets, done) == \A l \in targets : Resets(l) => l - 3 \in done \cup targets

\* The leads that are committed for a model.
GfsDone(com) == {l \in Leads : GfsCommitted(com, l)}
GefsDone(com) == {l \in Leads : GefsCommitted(com, l)}

\* A plan is sound: its wave is bounded, is published for both models, runs in
\* order for each, ingests nothing that is committed and at least something,
\* and leaves no gap below itself.
PlanSound(snap, com, plan) ==
  /\ Cardinality(plan.wave) <= MaxLeads
  /\ RunsInOrder(plan.gfs, GfsDone(com)) /\ RunsInOrder(plan.gefs, GefsDone(com))
  /\ plan.gfs \cap GfsDone(com) = {} /\ plan.gefs \cap GefsDone(com) = {}
  /\ plan.wave = plan.gfs \cup plan.gefs
  /\ \A l \in plan.wave :
       Published(snap, l) /\ \A k \in Leads : k < l => BothCommitted(com, k) \/ k \in plan.wave

\* A plan with nothing pending and nothing blocked means the whole horizon is
\* committed for both models, and only then.
CompleteMeansComplete(com, plan) ==
  plan.reason = "horizon-complete" <=> \A l \in Leads : BothCommitted(com, l)
==============================================================================
