---------------------------- MODULE RealtimeProofs ----------------------------
(***************************************************************************)
(* The realtime side of ingestion, for every horizon, member set, cycle    *)
(* range and setting: the plans of the planner are sound, so are the waves *)
(* the scheduler dispatches, whatever it remembers and whatever failed     *)
(* before, and the pipeline of a wave keeps its raw fields, its drain and  *)
(* its contract.                                                           *)
(***************************************************************************)
EXTENDS Scheduler, WavePipeline, FiniteSetTheorems, WellFoundedInduction, TLAPS

-----------------------------------------------------------------------------
(* The horizon. *)

LEMMA SmallestNumber ==
  ASSUME NEW S \in SUBSET Nat, S # {}
  PROVE  \E m \in S : \A n \in S : m <= n
<1> DEFINE T == {0..n : n \in S}
<1>1. T \subseteq FiniteSubsetsOf(Nat) /\ T # {}
  <2>1. \A n \in S : 0..n \in SUBSET Nat /\ IsFiniteSet(0..n)
    BY FS_Interval
  <2> QED
    BY <2>1 DEF FiniteSubsetsOf
<1>2. \E x \in T : \A y \in T : ~(<<y, x>> \in StrictSubsetOrdering(Nat))
  <2> HIDE DEF T
  <2> QED
    BY <1>1, FS_StrictSubsetOrderingWellFounded, WFMin
<1>3. PICK m \in S : \A n \in S : ~(<<0..n, 0..m>> \in StrictSubsetOrdering(Nat))
  BY <1>2
<1>4. ASSUME NEW n \in S, n < m PROVE FALSE
  <2>1. 0..n \in SUBSET Nat /\ 0..m \in SUBSET Nat /\ 0..n \subseteq 0..m
    BY <1>4
  <2>2. m \in 0..m /\ m \notin 0..n
    BY <1>4
  <2> QED
    BY <1>3, <2>1, <2>2 DEF StrictSubsetOrdering
<1> QED
  BY <1>4

LEMMA HorizonOf ==
  /\ Len(Horizon) \in Nat \ {0}
  /\ \A i \in 1..Len(Horizon) : Horizon[i] \in Nat /\ Horizon[i] \in Leads
BY PlannerAssumption DEF Leads

LEMMA FiniteLeads == Leads \subseteq Nat /\ IsFiniteSet(Leads)
<1>1. Leads \subseteq Nat
  BY HorizonOf DEF Leads
<1>2. PICK n \in Nat : n = Horizon[Len(Horizon)]
  BY HorizonOf
<1>3. \A l \in Leads : l <= n
  BY <1>2, HorizonOf, PlannerAssumption DEF Leads
<1>4. IsFiniteSet(Leads)
  BY <1>1, <1>3, FS_BoundedSetOfNaturals
<1> QED
  BY <1>1, <1>4

\* Some leads have a first and a last one.
LEMMA FirstLead ==
  ASSUME NEW S \in SUBSET Leads, S # {}
  PROVE  \E l \in S : \A k \in S : l <= k
BY FiniteLeads, SmallestNumber

LEMMA LastLead ==
  ASSUME NEW S \in SUBSET Leads, S # {}
  PROVE  \E l \in S : \A k \in S : k <= l
<1> DEFINE top == Horizon[Len(Horizon)]
           T == {top - l : l \in S}
<1>1. top \in Nat /\ \A l \in S : l \in Nat /\ l <= top
  BY HorizonOf, PlannerAssumption DEF Leads
<1> HIDE DEF top
<1>2. T \in SUBSET Nat /\ T # {}
  BY <1>1
<1>3. PICK m \in T : \A n \in T : m <= n
  <2> HIDE DEF T
  <2> QED
    BY <1>2, SmallestNumber
<1>4. PICK l \in S : m = top - l
  BY <1>3
<1>5. \A k \in S : top - l <= top - k
  BY <1>3, <1>4
<1> QED
  BY <1>1, <1>5

-----------------------------------------------------------------------------
(* Plans. *)

LEMMA FiniteBefore ==
  ASSUME NEW P \in SUBSET Leads, NEW l
  PROVE  /\ IsFiniteSet(P) /\ IsFiniteSet(Before(P, l))
         /\ Cardinality(P) \in Nat /\ Cardinality(Before(P, l)) \in Nat
<1>1. IsFiniteSet(P)
  BY FiniteLeads, FS_Subset
<1>2. IsFiniteSet(Before(P, l))
  BY <1>1, FS_Subset DEF Before
<1> QED
  BY <1>1, <1>2, FS_CardinalityType

\* A batch has no gap below itself, is no larger than allowed, and is empty
\* only if nothing is pending.
LEMMA BatchNoGap ==
  ASSUME NEW P \in SUBSET Leads, NEW l \in Batch(P), NEW k \in P, k < l
  PROVE  k \in Batch(P)
<1>1. l \in Nat /\ k \in Nat
  BY FiniteLeads DEF Batch
<1>2. ASSUME NEW j \in Before(P, k)
      PROVE  j \in Before(P, l)
  <2>1. j \in P /\ j < k
    BY DEF Before
  <2>2. j \in Nat
    BY <2>1, FiniteLeads
  <2>3. j < l
    BY <1>1, <2>1, <2>2
  <2> QED
    BY <2>1, <2>3 DEF Before
<1>3. Cardinality(Before(P, k)) <= Cardinality(Before(P, l))
  <2>1. Before(P, k) \in SUBSET Before(P, l)
    BY <1>2
  <2> QED
    BY <2>1, FiniteBefore, FS_Subset
<1>4. Cardinality(Before(P, l)) < MaxLeads
  BY DEF Batch
<1>5. Cardinality(Before(P, k)) < MaxLeads
  <2>1. Cardinality(Before(P, k)) \in Nat /\ Cardinality(Before(P, l)) \in Nat
    BY FiniteBefore
  <2> QED
    BY <1>3, <1>4, <2>1, PlannerAssumption
<1> QED
  BY <1>5 DEF Batch

LEMMA BatchIsBounded ==
  ASSUME NEW P \in SUBSET Leads
  PROVE  Cardinality(Batch(P)) <= MaxLeads
<1>1. CASE Batch(P) = {}
  BY <1>1, FS_EmptySet, PlannerAssumption
<1>2. CASE Batch(P) # {}
  <2>1. Batch(P) \in SUBSET P /\ Batch(P) \in SUBSET Leads
    BY DEF Batch
  <2>2. PICK l \in Batch(P) : \A k \in Batch(P) : k <= l
    BY <1>2, <2>1, LastLead
  <2> DEFINE B == Before(P, l)
  <2>3. Batch(P) \subseteq B \cup {l}
    <3> SUFFICES ASSUME NEW k \in Batch(P), k # l PROVE k \in B
      OBVIOUS
    <3>1. k \in Nat /\ l \in Nat
      BY <2>1, FiniteLeads
    <3>2. k < l
      BY <2>2, <3>1
    <3> QED
      BY <2>1, <3>2 DEF Before
  <2>4. IsFiniteSet(B) /\ Cardinality(B) \in Nat /\ Cardinality(B) < MaxLeads
    BY <2>2, FiniteBefore DEF Batch
  <2> HIDE DEF B
  <2>5. IsFiniteSet(B \cup {l}) /\ Cardinality(B \cup {l}) <= Cardinality(B) + 1
    BY <2>4, FS_AddElement
  <2>6. Cardinality(Batch(P)) <= Cardinality(B \cup {l})
    BY <2>3, <2>5, FS_Subset
  <2>7. Cardinality(Batch(P)) \in Nat /\ Cardinality(B \cup {l}) \in Nat
    BY <2>1, <2>5, FiniteBefore, FS_CardinalityType
  <2> QED
    BY <2>4, <2>5, <2>6, <2>7, PlannerAssumption
<1> QED
  BY <1>1, <1>2

LEMMA BatchStarts ==
  ASSUME NEW P \in SUBSET Leads, P # {}
  PROVE  Batch(P) # {}
<1>1. PICK l \in P : \A k \in P : l <= k
  BY FirstLead
<1>2. ASSUME NEW k \in Before(P, l)
      PROVE  FALSE
  <2>1. k \in P /\ k < l
    BY DEF Before
  <2>2. k \in Nat /\ l \in Nat
    BY <2>1, FiniteLeads
  <2> QED
    BY <1>1, <2>1, <2>2
<1>3. Cardinality(Before(P, l)) = 0
  <2>1. Before(P, l) = {}
    BY <1>2
  <2> QED
    BY <2>1, FS_EmptySet
<1>4. Cardinality(Before(P, l)) < MaxLeads
  BY <1>3, PlannerAssumption
<1> QED
  BY <1>4 DEF Batch

\* The plans of every publication and commit state.
LEMMA PlanShape ==
  ASSUME NEW snap, NEW com, NEW age, NEW maxWait
  PROVE  LET plan == Plan(snap, com, age, maxWait)
         IN /\ plan.pending = Pending(snap, com) /\ Pending(snap, com) \in SUBSET Leads
            /\ plan.wave \in {{}, Batch(Pending(snap, com))} /\ plan.wave \in SUBSET Leads
            /\ plan.gfs = GfsTargets(com, plan.wave) /\ plan.gefs = GefsTargets(com, plan.wave)
            /\ plan.reason = BlockReason(snap, com)
BY DEF Plan, Pending, Undone, Batch

LEMMA WaveIsPending ==
  ASSUME NEW snap, NEW com, NEW age, NEW maxWait,
         NEW l \in Plan(snap, com, age, maxWait).wave
  PROVE  /\ l \in Pending(snap, com) /\ l \in Leads /\ l \in Nat
         /\ Published(snap, l) /\ ~BothCommitted(com, l)
<1>1. l \in Batch(Pending(snap, com))
  BY PlanShape
<1>2. l \in Pending(snap, com) /\ l \in Undone(com)
  BY <1>1 DEF Batch, Pending
<1>3. l \in Leads /\ l \in Nat /\ ~BothCommitted(com, l)
  BY <1>2, FiniteLeads DEF Undone
<1>4. Acceptable(snap, com, l)
  <2>1. l <= l
    BY <1>3
  <2> QED
    BY <1>2, <2>1 DEF Pending
<1> QED
  BY <1>2, <1>3, <1>4 DEF Acceptable

\* What is undone before a lead of the wave is in the wave.
LEMMA WaveNoGap ==
  ASSUME NEW snap, NEW com, NEW age, NEW maxWait,
         NEW l \in Plan(snap, com, age, maxWait).wave,
         NEW k \in Undone(com), k < l
  PROVE  k \in Plan(snap, com, age, maxWait).wave
<1> DEFINE wave == Plan(snap, com, age, maxWait).wave
<1>1. wave = Batch(Pending(snap, com)) /\ Pending(snap, com) \in SUBSET Leads
  BY PlanShape
<1> HIDE DEF wave
<1>2. l \in Pending(snap, com) /\ l \in Nat /\ k \in Nat
  BY WaveIsPending, FiniteLeads DEF Undone
<1>3. ASSUME NEW j \in Undone(com), j <= k
      PROVE  Acceptable(snap, com, j)
  <2>1. j \in Nat
    BY FiniteLeads DEF Undone
  <2>2. j <= l
    BY <1>2, <1>3, <2>1
  <2> QED
    BY <1>2, <2>2 DEF Pending
<1>4. k \in Pending(snap, com)
  BY <1>3 DEF Pending
<1>5. l \in Batch(Pending(snap, com))
  BY <1>1 DEF wave
<1> HIDE DEF wave
<1>6. k \in Batch(Pending(snap, com))
  BY <1>1, <1>4, <1>5, BatchNoGap
<1> QED
  BY <1>1, <1>6 DEF wave

\* The predecessor of a reset lead of the wave is committed or in the wave.
LEMMA WaveFindsPredecessors ==
  ASSUME NEW snap, NEW com, NEW age, NEW maxWait,
         NEW l \in Plan(snap, com, age, maxWait).wave, Resets(l)
  PROVE  LET wave == Plan(snap, com, age, maxWait).wave
         IN /\ GfsCommitted(com, l - 3) \/ (l - 3 \in wave /\ l - 3 \in Leads)
            /\ GefsCommitted(com, l - 3) \/ (l - 3 \in wave /\ l - 3 \in Leads)
<1>1. l \in Pending(snap, com) /\ l \in Nat
  BY WaveIsPending
<1>2. Acceptable(snap, com, l)
  <2>1. l <= l /\ l \in Undone(com)
    BY <1>1 DEF Pending
  <2> QED
    BY <1>1, <2>1 DEF Pending
<1>3. ASSUME l - 3 \in Before(Undone(com), l)
      PROVE  l - 3 \in Plan(snap, com, age, maxWait).wave /\ l - 3 \in Leads
  <2>1. l - 3 \in Undone(com) /\ l - 3 < l
    BY <1>3 DEF Before
  <2> QED
    BY <2>1, WaveNoGap DEF Undone
<1>4. /\ GfsCommitted(com, l - 3) \/ l - 3 \in Before(Undone(com), l)
      /\ GefsCommitted(com, l - 3) \/ l - 3 \in Before(Undone(com), l)
  BY <1>2 DEF Acceptable, PredecessorSatisfied
<1> QED
  BY <1>3, <1>4

\* Whatever is published and committed, the plan of a poll is bounded, is
\* published for both models, runs in order for each of them, repeats nothing,
\* leaves no gap below itself, and calls the horizon complete exactly when it
\* is (planner.plan_wave).
THEOREM PlansSound ==
  ASSUME NEW snap, NEW com \in CommittedStates, NEW age, NEW maxWait
  PROVE  LET plan == Plan(snap, com, age, maxWait)
         IN PlanSound(snap, com, plan) /\ CompleteMeansComplete(com, plan)
<1> DEFINE plan == Plan(snap, com, age, maxWait)
<1>1. /\ plan.wave \in {{}, Batch(Pending(snap, com))} /\ plan.wave \in SUBSET Leads
      /\ plan.gfs = GfsTargets(com, plan.wave) /\ plan.gefs = GefsTargets(com, plan.wave)
      /\ plan.reason = BlockReason(snap, com) /\ Pending(snap, com) \in SUBSET Leads
  BY PlanShape
<1>2. Cardinality(plan.wave) <= MaxLeads
  <2>1. Cardinality({}) <= MaxLeads
    BY FS_EmptySet, PlannerAssumption
  <2>2. Cardinality(Batch(Pending(snap, com))) <= MaxLeads
    BY <1>1, BatchIsBounded
  <2> HIDE DEF plan
  <2> QED
    BY <1>1, <2>1, <2>2
<1>3. \A l \in plan.wave : l \in Leads /\ Published(snap, l) /\ ~BothCommitted(com, l)
  BY WaveIsPending
<1>4. \A l \in plan.wave : \A k \in Leads : k < l => BothCommitted(com, k) \/ k \in plan.wave
  <2> SUFFICES ASSUME NEW l \in plan.wave, NEW k \in Leads, k < l, ~BothCommitted(com, k)
               PROVE  k \in plan.wave
    OBVIOUS
  <2>1. k \in Undone(com)
    BY DEF Undone
  <2> QED
    BY <2>1, WaveNoGap
<1>5. \A l \in plan.wave : Resets(l) =>
        /\ GfsCommitted(com, l - 3) \/ (l - 3 \in plan.wave /\ l - 3 \in Leads)
        /\ GefsCommitted(com, l - 3) \/ (l - 3 \in plan.wave /\ l - 3 \in Leads)
  BY WaveFindsPredecessors
<1> HIDE DEF plan
<1>6. \A l : (GfsCommitted(com, l) => l \in Leads) /\ (GefsCommitted(com, l) => l \in Leads)
  <2>1. com.leads \subseteq Leads /\ com.pairs \subseteq Members \X Leads
    BY DEF CommittedStates
  <2>2. PICK m : m \in Members
    BY PlannerAssumption
  <2> QED
    BY <2>1, <2>2 DEF GfsCommitted, GefsCommitted
<1>7. /\ RunsInOrder(plan.gfs, GfsDone(com)) /\ RunsInOrder(plan.gefs, GefsDone(com))
      /\ plan.gfs \cap GfsDone(com) = {} /\ plan.gefs \cap GefsDone(com) = {}
  BY <1>1, <1>5, <1>6 DEF RunsInOrder, GfsDone, GefsDone, GfsTargets, GefsTargets
<1>8. plan.wave = plan.gfs \cup plan.gefs
  BY <1>1, <1>3 DEF GfsTargets, GefsTargets, BothCommitted
<1>9. PlanSound(snap, com, plan)
  BY <1>2, <1>3, <1>4, <1>7, <1>8 DEF PlanSound
<1>10. CompleteMeansComplete(com, plan)
  <2>1. BlockReason(snap, com) = "horizon-complete" <=> Undone(com) = {}
    BY DEF BlockReason, Pending
  <2> QED
    BY <1>1, <2>1 DEF CompleteMeansComplete, Undone
<1> QED
  BY <1>9, <1>10 DEF plan

\* A due plan with something pending dispatches something: the last leads of a
\* cycle, which never fill a batch, go as well (planner.plan_wave, wave_due).
THEOREM DuePlansWork ==
  ASSUME NEW snap, NEW com, NEW age, NEW maxWait,
         Due(Pending(snap, com), \E l \in Pending(snap, com) : age[l] >= maxWait)
  PROVE  LET plan == Plan(snap, com, age, maxWait)
         IN plan.gfs \cup plan.gefs # {}
<1> DEFINE plan == Plan(snap, com, age, maxWait)
<1>1. plan.wave = Batch(Pending(snap, com)) /\ Pending(snap, com) # {}
  BY DEF Plan, Due
<1>2. plan.wave # {}
  BY <1>1, PlanShape, BatchStarts
<1>3. PICK l \in plan.wave : ~BothCommitted(com, l)
  BY <1>2, WaveIsPending
<1>4. plan.gfs = GfsTargets(com, plan.wave) /\ plan.gefs = GefsTargets(com, plan.wave)
  BY PlanShape
<1> HIDE DEF plan
<1>5. plan.gfs \cup plan.gefs # {}
  BY <1>3, <1>4 DEF GfsTargets, GefsTargets, BothCommitted
<1> QED
  BY <1>5 DEF plan

-----------------------------------------------------------------------------
(* The scheduler: types. *)

Instants == Nat \cup {None}

Memories ==
  [active : Cycles \cup {None}, lastGood : Snapshots, age : [Leads -> Instants],
   fails : Nat, blocked : 0..ActiveBackoff["max"],
   bFails : [Cycles -> Nat], bBlocked : [Cycles -> 0..BacklogBackoff["max"]],
   bQuarantine : [Cycles -> {None, Forever} \cup 0..QuarantineTicks],
   bSnap : [Cycles -> Snapshots],
   offset : Nat, cached : (SUBSET Cycles) \cup {NoCache}, cacheAge : Nat,
   machine : {"active", "publishing", "backoff"}, level : Nat]

Polls ==
  [cycle : Cycles \cup {None}, snap : Snapshots, switched : BOOLEAN,
   activity : BOOLEAN, work : Cycles \cup {None},
   targets : [Models -> SUBSET Leads], repair : BOOLEAN,
   sent : BOOLEAN, failed : BOOLEAN, interval : Nat]

\* A poll that reads has a cycle, one that dispatches has a cycle to work on.
PollHasCycle ==
  /\ pc = "read" => poll.cycle \in Cycles
  /\ pc \in Models => poll.work \in Cycles

\* What is left of the targets runs in order and repeats nothing: only the wave
\* of the first model changes what is committed before the second is served,
\* and it leaves what the second has committed alone.
TargetsAreSound ==
  pc \in Models =>
    LET com == committed[poll.work]
    IN /\ pc = "gfs" => /\ RunsInOrder(poll.targets["gfs"], GfsDone(com))
                        /\ poll.targets["gfs"] \cap GfsDone(com) = {}
       /\ RunsInOrder(poll.targets["gefs"], GefsDone(com))
       /\ poll.targets["gefs"] \cap GefsDone(com) = {}

SInv == TypeOK /\ mem \in Memories /\ poll \in Polls /\ PollHasCycle /\ TargetsAreSound

LEMMA CyclesAre ==
  /\ Cycles \subseteq Nat /\ 0 \in Cycles /\ None \notin Cycles
  /\ Cardinality(Cycles) \in Nat \ {0}
  /\ \A c \in Cycles : c \in Int
<1>1. Cardinality(Cycles) \in Nat
  BY SchedulerAssumption, FS_CardinalityType
<1>2. Cycles = 0..(Cardinality(Cycles) - 1) /\ Cycles # {}
  BY SchedulerAssumption
<1>3. Cycles \subseteq Nat /\ None \notin Cycles
  BY <1>1, <1>2 DEF None
<1>4. 0 \in Cycles /\ Cardinality(Cycles) # 0
  BY <1>1, <1>2
<1> QED
  BY <1>1, <1>3, <1>4

LEMMA SettingsAre ==
  /\ MaxWait \in Nat /\ QuarantineTicks \in Nat /\ RefreshEmpty \in Nat /\ RefreshFull \in Nat
  /\ LongestWave \in Nat /\ MaxFaults \in Nat /\ MaxLosses \in Nat
  /\ QuarantineAfter \in Nat /\ HorizonCycles \in Nat
  /\ \A k \in {"base", "max"} : ActiveBackoff[k] \in Nat /\ BacklogBackoff[k] \in Nat
  /\ ActiveBackoff["base"] <= ActiveBackoff["max"] /\ BacklogBackoff["base"] <= BacklogBackoff["max"]
  /\ \A k \in {"active", "publishing", "initial", "longest", "retry"} : Intervals[k] \in Nat
BY SchedulerAssumption

LEMMA NothingIsSnapshot == NoSnapshot \in Snapshots /\ NothingCommitted \in CommittedStates
BY DEF NoSnapshot, Snapshots, NothingCommitted, CommittedStates

LEMMA SnapshotIs ==
  ASSUME TypeOK, NEW c \in Cycles
  PROVE  Snapshot(c) \in Snapshots
<1>1. published[c]["gfs"] \in 0..Len(Horizon) /\ published[c]["gefs"] \in 0..Len(Horizon)
  BY DEF TypeOK, Models
<1> DEFINE G == {Horizon[i] : i \in 1..published[c]["gfs"]}
           E == {Horizon[i] : i \in 1..published[c]["gefs"]}
<1>2. G \in SUBSET Leads /\ E \in SUBSET Leads
  BY <1>1, HorizonOf DEF Leads
<1>3. Snapshot(c) = [gfs |-> G \X Kinds, gefs |-> Members \X E \X Kinds]
  BY DEF Snapshot
<1> HIDE DEF G, E
<1>4. G \X Kinds \in SUBSET (Leads \X Kinds)
  BY <1>2
<1>5. Members \X E \X Kinds \in SUBSET (Members \X Leads \X Kinds)
  BY <1>2
<1> QED
  BY <1>3, <1>4, <1>5 DEF Snapshots

LEMMA TrackedIs ==
  ASSUME TypeOK, NEW m \in Memories
  PROVE  Tracked \in Cycles \cup {None}
BY DEF Tracked, TypeOK

LEMMA IntervalIs ==
  ASSUME NEW m \in Memories
  PROVE  Interval(m) \in Nat
<1>1. Intervals["active"] \in Nat /\ Intervals["publishing"] \in Nat
  BY SchedulerAssumption
<1>2. m.level \in Nat
  BY DEF Memories
<1> QED
  BY <1>1, <1>2 DEF Interval

LEMMA NoPollIs ==
  /\ NoPoll \in Polls
  /\ \A i \in Nat : [NoPoll EXCEPT !.interval = i] \in Polls
BY NothingIsSnapshot DEF NoPoll, Polls, Models

-----------------------------------------------------------------------------
(* The scheduler: what it remembers. *)

LEMMA InitMemIs == InitMem \in Memories
<1>1. Intervals["initial"] \in Nat
  BY SchedulerAssumption
<1>2. 0 \in 0..ActiveBackoff["max"] /\ 0 \in 0..BacklogBackoff["max"]
  BY SchedulerAssumption
<1> QED
  BY <1>1, <1>2, NothingIsSnapshot DEF InitMem, Memories, Instants

LEMMA BackoffIs ==
  ASSUME NEW n
  PROVE  /\ Backoff(ActiveBackoff, n) \in 0..ActiveBackoff["max"]
         /\ Backoff(BacklogBackoff, n) \in 0..BacklogBackoff["max"]
<1>1. ActiveBackoff["max"] \in 0..ActiveBackoff["max"] /\ BacklogBackoff["max"] \in 0..BacklogBackoff["max"]
  BY SettingsAre
<1> QED
  BY <1>1 DEF Backoff

LEMMA AfterSwitchIs ==
  ASSUME mem \in Memories, poll \in Polls
  PROVE  AfterSwitch \in Memories
<1>1. poll.snap \in Snapshots /\ poll.cycle \in Cycles \cup {None}
  BY DEF Polls
<1>2. 0 \in 0..ActiveBackoff["max"]
  BY SchedulerAssumption
<1>3. [l \in Leads |-> None] \in [Leads -> Instants]
  BY DEF Instants
<1> QED
  BY <1>1, <1>2, <1>3 DEF AfterSwitch, Memories

LEMMA AfterQuarantineIs ==
  ASSUME mem \in Memories
  PROVE  AfterQuarantine \in Memories
<1>1. mem.bQuarantine \in [Cycles -> {None, Forever} \cup 0..QuarantineTicks] /\ mem.bFails \in [Cycles -> Nat]
  BY DEF Memories
<1>2. /\ [c \in Cycles |-> IF mem.bQuarantine[c] = 0 THEN None ELSE mem.bQuarantine[c]]
             \in [Cycles -> {None, Forever} \cup 0..QuarantineTicks]
      /\ [c \in Cycles |-> IF mem.bQuarantine[c] = 0 THEN 0 ELSE mem.bFails[c]] \in [Cycles -> Nat]
  BY <1>1
<1> QED
  BY <1>2 DEF AfterQuarantine, Memories

LEMMA RecordFailureIs ==
  ASSUME NEW m \in Memories, NEW c \in Cycles
  PROVE  RecordFailure(m, c) \in Memories
<1>1. m.bFails[c] + 1 \in Nat
  BY DEF Memories
<1>2. Backoff(BacklogBackoff, m.bFails[c] + 1) \in 0..BacklogBackoff["max"]
  BY BackoffIs
<1>3. QuarantineTicks \in 0..QuarantineTicks
  BY SettingsAre
<1>4. m.bQuarantine \in [Cycles -> {None, Forever} \cup 0..QuarantineTicks]
  BY DEF Memories
<1> QED
  BY <1>1, <1>2, <1>3, <1>4 DEF RecordFailure, Memories

LEMMA ClearFailureIs ==
  ASSUME NEW m \in Memories, NEW c \in Cycles
  PROVE  ClearFailure(m, c) \in Memories
<1>1. 0 \in 0..BacklogBackoff["max"]
  BY SchedulerAssumption
<1> QED
  BY <1>1, NothingIsSnapshot DEF ClearFailure, Memories

LEMMA ActiveSettledIs ==
  ASSUME mem \in Memories
  PROVE  ActiveSettled \in Memories
<1>1. MinOf(mem.fails + 1, QuarantineAfter) \in Nat
  <2>1. mem.fails \in Nat
    BY DEF Memories
  <2> QED
    BY <2>1, SettingsAre DEF MinOf
<1>2. Backoff(ActiveBackoff, MinOf(mem.fails + 1, QuarantineAfter)) \in 0..ActiveBackoff["max"]
  BY BackoffIs
<1>3. 0 \in 0..ActiveBackoff["max"]
  BY SchedulerAssumption
<1> QED
  BY <1>1, <1>2, <1>3 DEF ActiveSettled, Memories

LEMMA BacklogSettledIs ==
  ASSUME mem \in Memories, poll \in Polls, poll.work \in Cycles
  PROVE  BacklogSettled \in Memories
<1> DEFINE m == ClearFailure(mem, poll.work)
<1>1. m \in Memories
  BY ClearFailureIs
<1>2. RecordFailure(mem, poll.work) \in Memories /\ RecordFailure(m, poll.work) \in Memories
  BY <1>1, RecordFailureIs
<1>3. [m EXCEPT !.cached = NoCache, !.cacheAge = 0] \in Memories
  BY <1>1 DEF Memories
<1>4. [m EXCEPT !.offset = (@ + 1) % Cardinality(Cycles)] \in Memories
  <2>1. (m.offset + 1) % Cardinality(Cycles) \in Nat
    BY <1>1, CyclesAre DEF Memories
  <2> HIDE DEF m
  <2> QED
    BY <1>1, <2>1 DEF Memories
<1> QED
  BY <1>2, <1>3, <1>4 DEF BacklogSettled

LEMMA CadenceIs ==
  ASSUME NEW m \in Memories, NEW activity
  PROVE  Cadence(m, activity) \in Memories
<1>1. Intervals["initial"] \in Nat /\ Intervals["longest"] \in Nat
  BY SchedulerAssumption
<1>2. MinOf(m.level * 2, Intervals["longest"]) \in Nat
  BY <1>1 DEF Memories, MinOf
<1> QED
  BY <1>1, <1>2 DEF Cadence, Memories

LEMMA SleepingIs ==
  ASSUME NEW d \in Nat
  PROVE  /\ \A t \in 0..ActiveBackoff["max"] : Less(t, d) \in 0..ActiveBackoff["max"]
         /\ \A t \in 0..BacklogBackoff["max"] : Less(t, d) \in 0..BacklogBackoff["max"]
         /\ \A t \in {None, Forever} \cup 0..QuarantineTicks :
              Less(t, d) \in {None, Forever} \cup 0..QuarantineTicks
<1>1. \A n \in Nat : \A t \in 0..n : Less(t, d) \in 0..n \/ t = Forever
  BY DEF Less, MaxOf, None
<1>2. Less(None, d) = None /\ Less(Forever, d) = Forever
  BY DEF Less
<1> QED
  BY <1>1, <1>2, SettingsAre DEF Less

LEMMA LaterIs ==
  ASSUME NEW m \in Memories, NEW d \in Nat
  PROVE  Later(m, d) \in Memories
<1>1. Less(m.blocked, d) \in 0..ActiveBackoff["max"]
  BY SleepingIs DEF Memories
<1>2. [l \in Leads |-> IF m.age[l] = None THEN None ELSE MinOf(m.age[l] + d, MaxWait)]
        \in [Leads -> Instants]
  <2>1. \A l \in Leads : m.age[l] \in Nat \cup {None}
    BY DEF Memories, Instants
  <2> QED
    BY <2>1, SettingsAre DEF Instants, MinOf, None
<1>3. [c \in Cycles |-> Less(m.bBlocked[c], d)] \in [Cycles -> 0..BacklogBackoff["max"]]
  BY SleepingIs DEF Memories
<1>4. [c \in Cycles |-> Less(m.bQuarantine[c], d)]
        \in [Cycles -> {None, Forever} \cup 0..QuarantineTicks]
  <2>1. \A c \in Cycles : m.bQuarantine[c] \in {None, Forever} \cup 0..QuarantineTicks
    BY DEF Memories
  <2> QED
    BY <2>1, SleepingIs
<1>5. MinOf(m.cacheAge + d, MaxOf(RefreshEmpty, RefreshFull)) \in Nat
  <2>1. m.cacheAge \in Nat
    BY DEF Memories
  <2> QED
    BY <2>1, SettingsAre DEF MinOf, MaxOf
<1> QED
  BY <1>1, <1>2, <1>3, <1>4, <1>5 DEF Later, Memories

-----------------------------------------------------------------------------
(* The scheduler: its steps. *)

\* Outside a dispatch nothing is asked of the poll's targets.
LEMMA NoDispatch ==
  ASSUME pc' \notin Models, pc' = "read" => poll'.cycle \in Cycles
  PROVE  PollHasCycle' /\ TargetsAreSound'
BY DEF PollHasCycle, TargetsAreSound

LEMMA InitSInv == Init => SInv
<1> SUFFICES ASSUME Init PROVE SInv
  OBVIOUS
<1>1. mem \in Memories /\ poll \in Polls
  BY InitMemIs, NoPollIs DEF Init
<1>2. PollHasCycle /\ TargetsAreSound
  BY DEF Init, PollHasCycle, TargetsAreSound, Models
<1>3. newest \in Cycles /\ published \in [Cycles -> [Models -> 0..Len(Horizon)]]
  BY CyclesAre, SchedulerAssumption DEF Init, Models
<1>4. committed \in [Cycles -> CommittedStates]
  BY NothingIsSnapshot DEF Init
<1>5. /\ mem.blocked \in 0..ActiveBackoff["max"]
      /\ mem.bBlocked \in [Cycles -> 0..BacklogBackoff["max"]]
      /\ mem.bQuarantine \in [Cycles -> {None, Forever} \cup 0..QuarantineTicks]
      /\ mem.active \in Cycles \cup {None} /\ poll.work \in Cycles \cup {None}
  BY <1>1 DEF Memories, Polls
<1>6. status \in [Cycles -> [Models -> {"none", "partial", "ready"}]]
  BY DEF Init
<1>7. faults \in 0..MaxFaults /\ losses \in 0..MaxLosses
  BY SettingsAre DEF Init
<1> QED
  BY <1>1, <1>2, <1>3, <1>4, <1>5, <1>6, <1>7 DEF Init, SInv, TypeOK, Places

\* What has the types of the memory and of a poll has the types of TypeOK.
LEMMA TypesOfMemory ==
  ASSUME mem' \in Memories, poll' \in Polls
  PROVE  /\ mem'.blocked \in 0..ActiveBackoff["max"]
         /\ mem'.bBlocked \in [Cycles -> 0..BacklogBackoff["max"]]
         /\ mem'.bQuarantine \in [Cycles -> {None, Forever} \cup 0..QuarantineTicks]
         /\ mem'.active \in Cycles \cup {None} /\ poll'.work \in Cycles \cup {None}
BY DEF Memories, Polls

LEMMA FaultsAre ==
  ASSUME SInv, Fault \/ NoFault
  PROVE  faults' \in 0..MaxFaults
BY SettingsAre DEF SInv, TypeOK, Fault, NoFault

\* A step of the process that leaves the world alone and dispatches nothing.
LEMMA QuietStep ==
  ASSUME SInv, UNCHANGED world, mem' \in Memories, poll' \in Polls,
         owner' \in {"none", "me", "other"}, held' \in BOOLEAN, stop' \in BOOLEAN,
         pc' \in Places \ Models, pc' = "read" => poll'.cycle \in Cycles,
         Fault \/ NoFault, losses' = losses
  PROVE  SInv'
<1>1. PollHasCycle' /\ TargetsAreSound'
  BY NoDispatch
<1>2. faults' \in 0..MaxFaults
  BY FaultsAre
<1> QED
  BY <1>1, <1>2, TypesOfMemory DEF SInv, TypeOK, world

LEMMA TryAcquireIs ==
  ASSUME SInv, NEW next \in {"loop", "poll"}, TryAcquire(next)
  PROVE  /\ owner' \in {"none", "me", "other"} /\ held' \in BOOLEAN
         /\ pc' \in {"loop", "poll", "exited"} /\ (Fault \/ NoFault)
BY DEF SInv, TypeOK, TryAcquire

LEMMA StepStart == ASSUME SInv, Start PROVE SInv'
<1>1. TryAcquire("loop") /\ UNCHANGED <<world, stop, mem, poll, losses>>
  BY DEF Start
<1>2. /\ owner' \in {"none", "me", "other"} /\ held' \in BOOLEAN
      /\ pc' \in {"loop", "poll", "exited"} /\ (Fault \/ NoFault)
  BY <1>1, TryAcquireIs
<1>3. stop' \in BOOLEAN /\ mem' \in Memories /\ poll' \in Polls
  BY <1>1 DEF SInv, TypeOK
<1>4. pc' \in Places \ Models /\ pc' # "read"
  BY <1>2 DEF Places, Models
<1> QED
  BY <1>1, <1>2, <1>3, <1>4, QuietStep

LEMMA StepLoop == ASSUME SInv, Loop PROVE SInv'
<1>1. UNCHANGED <<world, stop, mem, poll, losses>>
  BY DEF Loop
<1>2. /\ owner' \in {"none", "me", "other"} /\ held' \in BOOLEAN
      /\ pc' \in {"loop", "poll", "exited"} /\ (Fault \/ NoFault)
  <2>1. CASE TryAcquire("poll")
    BY <2>1, TryAcquireIs
  <2>2. CASE ~TryAcquire("poll")
    BY <2>2 DEF Loop, Leave, SInv, TypeOK
  <2> QED
    BY <2>1, <2>2
<1>3. stop' \in BOOLEAN /\ mem' \in Memories /\ poll' \in Polls
  BY <1>1 DEF SInv, TypeOK
<1>4. pc' \in Places \ Models /\ pc' # "read"
  BY <1>2 DEF Places, Models
<1> QED
  BY <1>1, <1>2, <1>3, <1>4, QuietStep

LEMMA StepConfirm == ASSUME SInv, Confirm PROVE SInv'
<1>1. /\ UNCHANGED <<world, owner, stop, mem, faults, losses>>
      /\ pc' \in {"resolve", "sleep"}
  BY DEF Confirm
<1>2. poll' \in Polls
  BY NoPollIs, SettingsAre DEF Confirm
<1>3. held' \in BOOLEAN
  BY DEF Confirm, SInv, TypeOK
<1>4. pc' \in Places \ Models /\ pc' # "read" /\ NoFault
  BY <1>1 DEF Places, Models, NoFault
<1>5. owner' \in {"none", "me", "other"} /\ stop' \in BOOLEAN /\ mem' \in Memories
  BY <1>1 DEF SInv, TypeOK
<1> QED
  BY <1>1, <1>2, <1>3, <1>4, <1>5, QuietStep

LEMMA StepResolve == ASSUME SInv, Resolve PROVE SInv'
<1>1. /\ UNCHANGED <<world, owner, held, stop, mem, losses>>
      /\ pc' \in {"sleep", "read"} /\ (Fault \/ NoFault)
  BY DEF Resolve, Retry
<1>2. Tracked \in Cycles \cup {None}
  BY TrackedIs DEF SInv
<1>3. poll' \in Polls /\ (pc' = "read" => poll'.cycle \in Cycles)
  <2>1. CASE Fault /\ Retry
    BY <2>1, NoPollIs, SettingsAre DEF Retry
  <2>2. CASE pc' = "sleep" /\ poll' = [NoPoll EXCEPT !.interval = Interval(mem)]
    <3>1. Interval(mem) \in Nat
      BY IntervalIs DEF SInv
    <3> QED
      BY <2>2, <3>1, NoPollIs
  <2>3. CASE /\ Tracked # None /\ pc' = "read"
             /\ LET snap == Snapshot(Tracked)
                    switched == mem.active # Tracked
                IN poll' = [NoPoll EXCEPT !.cycle = Tracked, !.snap = snap, !.switched = switched,
                         !.activity = IF switched \/ mem.lastGood = NoSnapshot THEN switched
                                      ELSE snap # mem.lastGood]
    <3>1. Tracked \in Cycles
      BY <1>2, <2>3
    <3>2. Snapshot(Tracked) \in Snapshots
      BY <3>1, SnapshotIs DEF SInv
    <3> DEFINE switched == mem.active # Tracked
               activity == IF switched \/ mem.lastGood = NoSnapshot THEN switched
                           ELSE Snapshot(Tracked) # mem.lastGood
    <3>3. switched \in BOOLEAN /\ activity \in BOOLEAN
      OBVIOUS
    <3>4. poll' = [NoPoll EXCEPT !.cycle = Tracked, !.snap = Snapshot(Tracked),
                     !.switched = switched, !.activity = activity]
      BY <2>3
    <3> HIDE DEF switched, activity
    <3> QED
      BY <3>1, <3>2, <3>3, <3>4, NoPollIs DEF Polls
  <2> QED
    BY <2>1, <2>2, <2>3 DEF Resolve
<1>4. pc' \in Places \ Models
  BY <1>1 DEF Places, Models
<1>5. /\ owner' \in {"none", "me", "other"} /\ stop' \in BOOLEAN /\ mem' \in Memories
      /\ held' \in BOOLEAN
  BY <1>1 DEF SInv, TypeOK
<1> QED
  BY <1>1, <1>3, <1>4, <1>5, QuietStep

LEMMA StepSettle == ASSUME SInv, Settle PROVE SInv'
<1> DEFINE m == IF poll.work = None THEN mem
                ELSE IF poll.work = poll.cycle THEN ActiveSettled ELSE BacklogSettled
           after == Cadence([m EXCEPT !.lastGood = poll.snap], poll.activity \/ poll.sent)
<1>1. /\ UNCHANGED <<world, owner, held, stop, faults, losses>> /\ pc' = "sleep"
      /\ \E d \in 0..(IF poll.sent THEN LongestWave ELSE 0) : mem' = Later(after, d)
      /\ poll' = [NoPoll EXCEPT !.interval = Interval(after)]
  BY DEF Settle
<1>2. mem \in Memories /\ poll \in Polls /\ poll.snap \in Snapshots /\ poll.work \in Cycles \cup {None}
  BY DEF SInv, Polls
<1>3. m \in Memories
  BY <1>2, ActiveSettledIs, BacklogSettledIs
<1> HIDE DEF m
<1>4. [m EXCEPT !.lastGood = poll.snap] \in Memories
  BY <1>2, <1>3 DEF Memories
<1>5. after \in Memories
  BY <1>4, CadenceIs
<1> HIDE DEF after
<1>6. mem' \in Memories /\ poll' \in Polls
  <2>1. PICK d \in Nat : mem' = Later(after, d)
    BY <1>1, SettingsAre
  <2> QED
    BY <1>1, <1>5, <2>1, LaterIs, IntervalIs, NoPollIs
<1>7. pc' \in Places \ Models /\ pc' # "read" /\ NoFault
  BY <1>1 DEF Places, Models, NoFault
<1>8. owner' \in {"none", "me", "other"} /\ stop' \in BOOLEAN /\ held' \in BOOLEAN
  BY <1>1 DEF SInv, TypeOK
<1> QED
  BY <1>1, <1>6, <1>7, <1>8, QuietStep

LEMMA StepSleep == ASSUME SInv, Sleep PROVE SInv'
<1> DEFINE d == IF stop THEN 0 ELSE poll.interval
<1>1. /\ UNCHANGED <<world, owner, held, stop, faults, losses>> /\ pc' = "loop"
      /\ poll' = NoPoll /\ mem' = Later(mem, d)
  BY DEF Sleep
<1>2. mem \in Memories /\ d \in Nat
  BY DEF SInv, Polls
<1> HIDE DEF d
<1>3. mem' \in Memories
  BY <1>1, <1>2, LaterIs
<1>4. pc' \in Places \ Models /\ pc' # "read" /\ NoFault /\ poll' \in Polls
  BY <1>1, NoPollIs DEF Places, Models, NoFault
<1>5. owner' \in {"none", "me", "other"} /\ stop' \in BOOLEAN /\ held' \in BOOLEAN
  BY <1>1 DEF SInv, TypeOK
<1> QED
  BY <1>1, <1>3, <1>4, <1>5, QuietStep

\* What a poll takes over from a plan.
LEMMA TargetsOf ==
  ASSUME NEW snap, NEW com, NEW age, NEW maxWait
  PROVE  LET plan == Plan(snap, com, age, maxWait)
             targets == [x \in Models |-> plan[x]]
         IN targets \in [Models -> SUBSET Leads] /\ targets["gfs"] = plan.gfs /\ targets["gefs"] = plan.gefs
<1> DEFINE plan == Plan(snap, com, age, maxWait)
<1>1. plan.gfs \in SUBSET Leads /\ plan.gefs \in SUBSET Leads
  BY PlanShape DEF GfsTargets, GefsTargets
<1> HIDE DEF plan
<1>2. \A x \in Models : plan[x] \in SUBSET Leads
  BY <1>1 DEF Models
<1>3. [x \in Models |-> plan[x]] \in [Models -> SUBSET Leads]
  BY <1>2
<1> QED
  BY <1>3 DEF Models, plan

\* The targets of a sound plan are what the scheduler asks of a dispatch.
LEMMA DispatchIs ==
  ASSUME SInv, UNCHANGED world, NEW w \in Cycles, NEW snap, NEW plan,
         PlanSound(snap, committed[w], plan),
         pc' = "gfs", poll'.work = w,
         poll'.targets["gfs"] = plan.gfs, poll'.targets["gefs"] = plan.gefs
  PROVE  PollHasCycle' /\ TargetsAreSound'
<1>1. committed' = committed
  BY DEF world
<1> QED
  BY <1>1 DEF PlanSound, PollHasCycle, TargetsAreSound

\* A step of the process that leaves the world alone and starts a dispatch.
LEMMA DispatchStep ==
  ASSUME SInv, UNCHANGED <<world, owner, held, stop, losses>>,
         mem' \in Memories, poll' \in Polls, pc' = "gfs",
         PollHasCycle', TargetsAreSound', Fault \/ NoFault
  PROVE  SInv'
<1>1. faults' \in 0..MaxFaults
  BY FaultsAre
<1> QED
  BY <1>1, TypesOfMemory DEF SInv, TypeOK, world, Places

LEMMA StepDecide == ASSUME SInv, Decide PROVE SInv'
<1> DEFINE m == AfterSwitch
           plan == ActivePlan(m)
           goes == plan.wave # {} /\ m.blocked = 0
           ages == [l \in Leads |-> IF l \in plan.pending THEN MaxOf(m.age[l], 0) ELSE None]
<1>1. /\ UNCHANGED <<world, owner, held, stop, losses>>
      /\ poll.cycle \in Cycles /\ mem \in Memories /\ poll \in Polls
  BY DEF Decide, SInv, PollHasCycle
<1>2. /\ owner' \in {"none", "me", "other"} /\ held' \in BOOLEAN /\ stop' \in BOOLEAN
  BY <1>1 DEF SInv, TypeOK
<1>3. CASE Fault /\ Retry /\ UNCHANGED mem
  <2>1. pc' \in Places \ Models /\ pc' # "read"
    BY <1>3 DEF Retry, Places, Models
  <2>2. poll' \in Polls
    BY <1>3, NoPollIs, SettingsAre DEF Retry
  <2> QED
    BY <1>1, <1>2, <1>3, <2>1, <2>2, QuietStep
<1>4. CASE /\ NoFault
           /\ mem' = [m EXCEPT !.age = ages]
           /\ pc' = IF goes THEN "gfs" ELSE "backlog"
           /\ poll' = IF goes THEN [poll EXCEPT !.work = poll.cycle,
                                      !.targets = [x \in Models |-> plan[x]]]
                      ELSE poll
  <2>1. m \in Memories
    BY <1>1, AfterSwitchIs
  <2>2. ages \in [Leads -> Instants]
    <3>1. \A l \in Leads : m.age[l] \in Nat \cup {None}
      BY <2>1 DEF Memories, Instants
    <3> HIDE DEF m, plan
    <3> QED
      BY <3>1 DEF Instants, MaxOf, None
  <2> HIDE DEF m, goes
  <2>3. mem' \in Memories
    <3> HIDE DEF ages
    <3> QED
      BY <1>4, <2>1, <2>2 DEF Memories
  <2>4. CASE goes
    <3> DEFINE age == [l \in Leads |-> MaxOf(m.age[l], 0)]
    <3>1. pc' = "gfs" /\ poll' = [poll EXCEPT !.work = poll.cycle, !.targets = [x \in Models |-> plan[x]]]
      BY <1>4, <2>4
    <3>2. plan = Plan(poll.snap, committed[poll.cycle], age, MaxWait)
      BY DEF ActivePlan
    <3> HIDE DEF plan, age
    <3>3. poll'.work = poll.cycle /\ poll'.targets = [x \in Models |-> plan[x]]
      BY <1>1, <3>1 DEF Polls
    <3>4. /\ poll'.targets \in [Models -> SUBSET Leads]
          /\ poll'.targets["gfs"] = plan.gfs /\ poll'.targets["gefs"] = plan.gefs
      BY <3>2, <3>3, TargetsOf
    <3>5. PlanSound(poll.snap, committed[poll.cycle], plan)
      <4>1. committed[poll.cycle] \in CommittedStates
        BY <1>1 DEF SInv, TypeOK
      <4> QED
        BY <3>2, <4>1, PlansSound
    <3>6. PollHasCycle' /\ TargetsAreSound'
      BY <1>1, <3>1, <3>3, <3>4, <3>5, DispatchIs
    <3>7. poll' \in Polls
      BY <1>1, <3>1, <3>3, <3>4 DEF Polls
    <3> QED
      BY <1>1, <1>4, <2>3, <3>1, <3>6, <3>7, DispatchStep
  <2>5. CASE ~goes
    <3>1. pc' = "backlog" /\ poll' = poll
      BY <1>4, <2>5
    <3>2. pc' \in Places \ Models /\ pc' # "read"
      BY <3>1 DEF Places, Models
    <3> QED
      BY <1>1, <1>2, <1>4, <2>3, <3>1, <3>2, QuietStep
  <2> QED
    BY <2>4, <2>5
<1> QED
  BY <1>3, <1>4 DEF Decide

LEMMA SnapOfIs ==
  ASSUME SInv, NEW m \in Memories, NEW c \in Cycles
  PROVE  SnapOf(m, c) \in Snapshots
<1>1. m.bSnap[c] \in Snapshots
  BY DEF Memories
<1>2. Snapshot(c) \in Snapshots
  BY SnapshotIs DEF SInv
<1> QED
  BY <1>1, <1>2 DEF SnapOf

\* What is remembered about the candidates after a scan.
LEMMA ScannedIs ==
  ASSUME SInv, NEW m \in Memories, NEW blocked, NEW chosen
  PROVE  Scanned(m, blocked, chosen) \in Memories
<1> DEFINE waits == [c \in Cycles |-> IF c \in blocked THEN BacklogBackoff["base"] ELSE m.bBlocked[c]]
           snaps == [c \in Cycles |-> IF c \in blocked THEN NoSnapshot
                                      ELSE IF c = chosen THEN SnapOf(m, c) ELSE m.bSnap[c]]
<1>1. waits \in [Cycles -> 0..BacklogBackoff["max"]]
  <2>1. BacklogBackoff["base"] \in 0..BacklogBackoff["max"]
    BY SettingsAre
  <2>2. \A c \in Cycles : m.bBlocked[c] \in 0..BacklogBackoff["max"]
    BY DEF Memories
  <2> QED
    BY <2>1, <2>2
<1>2. snaps \in [Cycles -> Snapshots]
  <2>1. \A c \in Cycles : m.bSnap[c] \in Snapshots /\ SnapOf(m, c) \in Snapshots
    BY SnapOfIs DEF Memories
  <2> QED
    BY <2>1, NothingIsSnapshot
<1>3. Scanned(m, blocked, chosen) = [m EXCEPT !.bBlocked = waits, !.bSnap = snaps]
  BY DEF Memories, Scanned
<1> HIDE DEF waits, snaps
<1> QED
  BY <1>1, <1>2, <1>3 DEF Memories

LEMMA RefreshedIs ==
  ASSUME mem \in Memories, NEW listed
  PROVE  Refreshed(listed) \in Memories
<1>1. AfterQuarantine \in Memories
  BY AfterQuarantineIs
<1>2. Incomplete(poll.cycle) \in SUBSET Cycles
  BY DEF Incomplete
<1>3. [AfterQuarantine EXCEPT !.cached = Incomplete(poll.cycle), !.cacheAge = 0] \in Memories
  BY <1>1, <1>2 DEF Memories
<1> QED
  BY <1>1, <1>3 DEF Refreshed

LEMMA StepSelectBacklog == ASSUME SInv, SelectBacklog PROVE SInv'
<1>1. /\ UNCHANGED <<world, owner, held, stop, losses>>
      /\ mem \in Memories /\ poll \in Polls
  BY DEF SelectBacklog, SInv
<1>2. owner' \in {"none", "me", "other"} /\ held' \in BOOLEAN /\ stop' \in BOOLEAN
  BY <1>1 DEF SInv, TypeOK
<1>3. PICK listed \in BOOLEAN, unreadable \in SUBSET Cycles, chosen \in Cycles \cup {None} :
        /\ listed \/ (RefreshDue /\ unreadable = {})
        /\ IF listed /\ unreadable = {} THEN NoFault ELSE Fault
        /\ Cardinality(unreadable) <= 1
        /\ Scan(Refreshed(listed), unreadable, chosen)
        /\ IF chosen = None THEN pc' = "settle" /\ UNCHANGED poll
           ELSE LET m == Refreshed(listed)
                IN /\ pc' = "gfs"
                   /\ poll' = [poll EXCEPT !.work = chosen,
                                 !.repair = Verdict(m, chosen, unreadable) = "repair",
                                 !.targets = [x \in Models |-> BacklogPlan(m, chosen)[x]]]
  BY DEF SelectBacklog
<1> DEFINE m == Refreshed(listed)
           fix == Verdict(m, chosen, unreadable) = "repair"
<1>4. m \in Memories
  BY <1>1, RefreshedIs
<1>5. Fault \/ NoFault
  BY <1>3
<1>6. mem' \in Memories
  <2>1. Scan(m, unreadable, chosen)
    BY <1>3
  <2>2. PICK blocked : mem' = Scanned(m, blocked, chosen)
    BY <2>1 DEF Scan
  <2> QED
    BY <1>4, <2>2, ScannedIs
<1>7. IF chosen = None THEN pc' = "settle" /\ UNCHANGED poll
      ELSE /\ pc' = "gfs"
           /\ poll' = [poll EXCEPT !.work = chosen, !.repair = fix,
                         !.targets = [x \in Models |-> BacklogPlan(m, chosen)[x]]]
  BY <1>3
<1>8. fix \in BOOLEAN
  OBVIOUS
<1> HIDE DEF m, fix
<1>9. CASE chosen = None
  <2>1. pc' \in Places \ Models /\ pc' # "read" /\ poll' \in Polls
    BY <1>1, <1>7, <1>9 DEF Places, Models
  <2> QED
    BY <1>1, <1>2, <1>5, <1>6, <2>1, QuietStep
<1>10. CASE chosen # None
  <2> DEFINE plan == BacklogPlan(m, chosen)
             age == [l \in Leads |-> 0]
  <2>1. /\ chosen \in Cycles /\ pc' = "gfs"
        /\ poll' = [poll EXCEPT !.work = chosen, !.repair = fix, !.targets = [x \in Models |-> plan[x]]]
    BY <1>7, <1>10
  <2>2. plan = Plan(SnapOf(m, chosen), committed[chosen], age, 0)
    BY DEF BacklogPlan
  <2> HIDE DEF plan, age
  <2>3. poll'.work = chosen /\ poll'.targets = [x \in Models |-> plan[x]]
    BY <1>1, <2>1 DEF Polls
  <2>4. /\ poll'.targets \in [Models -> SUBSET Leads]
        /\ poll'.targets["gfs"] = plan.gfs /\ poll'.targets["gefs"] = plan.gefs
    BY <2>2, <2>3, TargetsOf
  <2>5. PlanSound(SnapOf(m, chosen), committed[chosen], plan)
    <3>1. committed[chosen] \in CommittedStates
      BY <2>1 DEF SInv, TypeOK
    <3> QED
      BY <2>2, <3>1, PlansSound
  <2>6. PollHasCycle' /\ TargetsAreSound'
    BY <1>1, <2>1, <2>3, <2>4, <2>5, DispatchIs
  <2>7. poll' \in Polls
    BY <1>1, <1>8, <2>1, <2>3, <2>4 DEF Polls
  <2> QED
    BY <1>1, <1>5, <1>6, <2>1, <2>6, <2>7, DispatchStep
<1> QED
  BY <1>9, <1>10

\* A wave of one model leaves what the other has committed alone.
LEMMA WaveIs ==
  ASSUME SInv, NEW m \in Models, pc = m, NEW done \in SUBSET Leads, NEW promotes,
         Wave(m, done, promotes)
  PROVE  /\ committed' \in [Cycles -> CommittedStates]
         /\ status' \in [Cycles -> [Models -> {"none", "partial", "ready"}]]
         /\ m = "gfs" => GefsDone(committed'[poll.work]) = GefsDone(committed[poll.work])
<1> DEFINE com == CommitOf(committed[poll.work], m, done)
<1>1. /\ poll.work \in Cycles /\ committed \in [Cycles -> CommittedStates]
      /\ status \in [Cycles -> [Models -> {"none", "partial", "ready"}]]
  BY DEF SInv, PollHasCycle, TypeOK
<1>2. committed' = [committed EXCEPT ![poll.work] = com]
  BY DEF Wave
<1>3. committed[poll.work] \in CommittedStates
  BY <1>1
<1>4. com \in CommittedStates
  <2>1. Members \X done \in SUBSET (Members \X Leads)
    OBVIOUS
  <2> QED
    BY <1>3, <2>1 DEF CommitOf, CommittedStates
<1>5. m = "gfs" => GefsDone(com) = GefsDone(committed[poll.work])
  BY <1>3 DEF CommitOf, CommittedStates, GefsDone, GefsCommitted
<1> HIDE DEF com
<1>6. committed' \in [Cycles -> CommittedStates] /\ committed'[poll.work] = com
  BY <1>1, <1>2, <1>4
<1>7. status' \in [Cycles -> [Models -> {"none", "partial", "ready"}]]
  BY <1>1 DEF Wave
<1> QED
  BY <1>5, <1>6, <1>7

\* After the wave of a model, or after leaving it out.
LEMMA AfterModel ==
  ASSUME SInv, NEW m \in Models, pc = m, pc' \in {NextModel(m), "settle"},
         poll'.work = poll.work, poll'.targets = poll.targets,
         m = "gfs" => GefsDone(committed'[poll.work]) = GefsDone(committed[poll.work])
  PROVE  PollHasCycle' /\ TargetsAreSound' /\ pc' \in Places
BY DEF SInv, PollHasCycle, TargetsAreSound, NextModel, Models, Places

\* A step of a dispatch.
LEMMA ModelStep ==
  ASSUME SInv, UNCHANGED <<published, newest, owner, held, mem, losses>>, stop' \in BOOLEAN,
         committed' \in [Cycles -> CommittedStates],
         status' \in [Cycles -> [Models -> {"none", "partial", "ready"}]],
         poll' \in Polls, PollHasCycle', TargetsAreSound', pc' \in Places,
         Fault \/ NoFault
  PROVE  SInv'
<1>1. faults' \in 0..MaxFaults
  BY FaultsAre
<1>2. mem' \in Memories
  BY DEF SInv
<1> QED
  BY <1>1, <1>2, TypesOfMemory DEF SInv, TypeOK

LEMMA StepDispatch == ASSUME SInv, NEW m \in Models, Dispatch(m) PROVE SInv'
<1>1. pc = m /\ UNCHANGED <<published, newest, owner, held, mem, losses>>
  BY DEF Dispatch
<1>2. /\ poll \in Polls /\ committed \in [Cycles -> CommittedStates]
      /\ status \in [Cycles -> [Models -> {"none", "partial", "ready"}]] /\ stop \in BOOLEAN
  BY DEF SInv, TypeOK
<1>3. CASE /\ pc' \in {NextModel(m), "settle"}
           /\ UNCHANGED <<poll, committed, status, stop>> /\ NoFault
  <2>1. PollHasCycle' /\ TargetsAreSound' /\ pc' \in Places
    BY <1>1, <1>3, AfterModel
  <2> QED
    BY <1>1, <1>2, <1>3, <2>1, ModelStep
<1>4. CASE \E ok \in BOOLEAN, done \in SUBSET poll.targets[m] :
             /\ (Fault \/ NoFault) /\ stop' \in BOOLEAN
             /\ Wave(m, done, ok)
             /\ pc' = NextModel(m)
             /\ poll' = [poll EXCEPT !.sent = TRUE, !.failed = @ \/ ~ok]
  <2>1. PICK ok \in BOOLEAN, done \in SUBSET poll.targets[m] :
             /\ (Fault \/ NoFault) /\ stop' \in BOOLEAN
             /\ Wave(m, done, ok)
             /\ pc' = NextModel(m)
             /\ poll' = [poll EXCEPT !.sent = TRUE, !.failed = @ \/ ~ok]
    BY <1>4
  <2>2. done \in SUBSET Leads
    BY <1>2 DEF Polls
  <2>3. /\ committed' \in [Cycles -> CommittedStates]
        /\ status' \in [Cycles -> [Models -> {"none", "partial", "ready"}]]
        /\ m = "gfs" => GefsDone(committed'[poll.work]) = GefsDone(committed[poll.work])
    BY <1>1, <2>1, <2>2, WaveIs
  <2>4. poll' \in Polls /\ poll'.work = poll.work /\ poll'.targets = poll.targets
    BY <1>2, <2>1 DEF Polls
  <2>5. PollHasCycle' /\ TargetsAreSound' /\ pc' \in Places
    BY <1>1, <2>1, <2>3, <2>4, AfterModel
  <2> QED
    BY <1>1, <2>1, <2>3, <2>4, <2>5, ModelStep
<1> QED
  BY <1>2, <1>3, <1>4 DEF Dispatch, FallsShort

\* A wave that hangs leaves the poll where it is.
LEMMA StepHangs == ASSUME SInv, NEW m \in Models, WaveHangs(m) PROVE SInv'
<1>1. /\ pc = m /\ pc' = "hung" /\ (Fault \/ NoFault) /\ stop' \in BOOLEAN
      /\ UNCHANGED <<published, newest, owner, held, mem, poll, losses>>
  BY DEF WaveHangs, FallsShort, SInv, TypeOK
<1>2. PICK done \in SUBSET poll.targets[m] : Wave(m, done, FALSE)
  BY DEF WaveHangs
<1>3. poll \in Polls /\ done \in SUBSET Leads
  BY DEF SInv, Polls
<1>4. /\ committed' \in [Cycles -> CommittedStates]
      /\ status' \in [Cycles -> [Models -> {"none", "partial", "ready"}]]
  BY <1>1, <1>2, <1>3, WaveIs
<1>5. PollHasCycle' /\ TargetsAreSound' /\ pc' \in Places
  BY <1>1, NoDispatch DEF Models, Places
<1> QED
  BY <1>1, <1>3, <1>4, <1>5, ModelStep

LEMMA StepRepair == ASSUME SInv, NEW m \in Models, Repair(m) PROVE SInv'
<1>1. /\ pc = m /\ UNCHANGED <<published, newest, owner, held, stop, mem, losses>>
      /\ pc' = NextModel(m)
  BY DEF Repair
<1>2. PICK result \in {"promoted", "unpromoted", "error"} :
        /\ IF result = "promoted" THEN NoFault ELSE Fault
        /\ Wave(m, {}, result = "promoted")
        /\ poll' = [poll EXCEPT !.sent = TRUE, !.failed = @ \/ result = "error"]
  BY DEF Repair
<1>3. /\ committed' \in [Cycles -> CommittedStates]
      /\ status' \in [Cycles -> [Models -> {"none", "partial", "ready"}]]
      /\ m = "gfs" => GefsDone(committed'[poll.work]) = GefsDone(committed[poll.work])
  BY <1>1, <1>2, WaveIs
<1>4. poll' \in Polls /\ poll'.work = poll.work /\ poll'.targets = poll.targets
  <2>1. poll \in Polls
    BY DEF SInv
  <2> QED
    BY <1>2, <2>1 DEF Polls
<1>5. PollHasCycle' /\ TargetsAreSound' /\ pc' \in Places
  BY <1>1, <1>3, <1>4, AfterModel
<1>6. Fault \/ NoFault
  BY <1>2
<1>7. stop' \in BOOLEAN
  BY <1>1 DEF SInv, TypeOK
<1> QED
  BY <1>1, <1>3, <1>4, <1>5, <1>6, <1>7, ModelStep

LEMMA StepPublish == ASSUME SInv, Publish PROVE SInv'
<1>1. PICK c \in Cycles, m \in Models :
        /\ published[c][m] < Len(Horizon)
        /\ published' = [published EXCEPT ![c][m] = @ + 1]
        /\ UNCHANGED <<committed, status, newest, owner, held, pc, stop, mem, poll, faults, losses>>
  BY DEF Publish
<1>2. published \in [Cycles -> [Models -> 0..Len(Horizon)]]
  BY DEF SInv, TypeOK
<1>3. published[c][m] + 1 \in 0..Len(Horizon)
  BY <1>1, <1>2, HorizonOf
<1>4. published' \in [Cycles -> [Models -> 0..Len(Horizon)]]
  BY <1>1, <1>2, <1>3
<1> QED
  BY <1>1, <1>4 DEF SInv, TypeOK, PollHasCycle, TargetsAreSound

\* The other steps of the world.
LEMMA StepEnvironment ==
  ASSUME SInv, NewCycle \/ RequestStop \/ LoseSession \/ OtherLeaves \/ Crash \/ Restart
  PROVE  SInv'
<1>1. CASE NewCycle
  BY <1>1 DEF NewCycle, SInv, TypeOK, PollHasCycle, TargetsAreSound
<1>2. CASE RequestStop
  BY <1>2 DEF RequestStop, SInv, TypeOK, PollHasCycle, TargetsAreSound, world
<1>3. CASE LoseSession
  <2>1. losses' \in 0..MaxLosses
    BY <1>3, SettingsAre DEF LoseSession, SInv, TypeOK
  <2> QED
    BY <1>3, <2>1 DEF LoseSession, SInv, TypeOK, PollHasCycle, TargetsAreSound, world
<1>4. CASE OtherLeaves
  BY <1>4 DEF OtherLeaves, SInv, TypeOK, PollHasCycle, TargetsAreSound, world
<1>5. CASE Crash
  <2>1. losses' \in 0..MaxLosses
    BY <1>5, SettingsAre DEF Crash, SInv, TypeOK
  <2>2. PollHasCycle' /\ TargetsAreSound'
    BY <1>5, NoDispatch DEF Crash, Models
  <2> QED
    BY <1>5, <2>1, <2>2 DEF Crash, SInv, TypeOK, world, Places
<1>6. CASE Restart
  <2>1. mem' \in Memories /\ poll' \in Polls
    BY <1>6, InitMemIs, NoPollIs DEF Restart
  <2>2. PollHasCycle' /\ TargetsAreSound'
    BY <1>6, NoDispatch DEF Restart, Models
  <2> QED
    BY <1>6, <2>1, <2>2, TypesOfMemory DEF Restart, SInv, TypeOK, world, Places
<1> QED
  BY <1>1, <1>2, <1>3, <1>4, <1>5, <1>6

LEMMA SInvKept == SInv /\ [Next]_vars => SInv'
<1> SUFFICES ASSUME SInv, [Next]_vars PROVE SInv'
  OBVIOUS
<1>1. CASE UNCHANGED vars
  BY <1>1 DEF vars, world, SInv, TypeOK, PollHasCycle, TargetsAreSound
<1>2. CASE Process
  BY <1>2, StepStart, StepLoop, StepConfirm, StepResolve, StepDecide, StepSelectBacklog,
     StepDispatch, StepHangs, StepRepair, StepSettle, StepSleep DEF Process
<1>3. CASE Environment
  BY <1>3, StepPublish, StepEnvironment DEF Environment
<1> QED
  BY <1>1, <1>2, <1>3 DEF Next

\* What the scheduler remembers keeps its types, a poll that dispatches has a
\* cycle to work on, and the targets it has left run in order and repeat
\* nothing (RealtimeScheduler._poll_once and the state it keeps between polls).
THEOREM SchedulerInvariant == Spec => []SInv
BY InitSInv, SInvKept, PTL DEF Spec

\* A wave about to start is in order and repeats nothing, whatever failed,
\* crashed or was remembered before (planner.predecessor_satisfied and the
\* scheduler's module docstring on partial success).
THEOREM PlansStaySound == Spec => []PlansAreSound
<1>1. SInv => PlansAreSound
  <2> SUFFICES ASSUME SInv PROVE WavesRunInOrder /\ NoRework
    BY DEF SInv, PlansAreSound
  <2>1. TargetsAreSound /\ \A m \in Models : poll.targets[m] \subseteq Leads
    BY DEF SInv, Polls
  <2>2. WavesRunInOrder
    BY <2>1 DEF TargetsAreSound, WavesRunInOrder
  <2>3. NoRework
    BY <2>1 DEF TargetsAreSound, NoRework, Models, GfsDone, GefsDone
  <2> QED
    BY <2>2, <2>3
<1> QED
  BY <1>1, SchedulerInvariant, PTL

\* A poll plans only after the server has confirmed that this very session
\* holds the leadership (lock.check_leadership before every poll).
THEOREM LeaderPlans == Spec => PlansOnlyAsLeader
<1>1. ASSUME [Next]_vars
      PROVE  [pc # "resolve" /\ pc' = "resolve" => owner = "me"]_vars
  <2> SUFFICES ASSUME Next, pc # "resolve", pc' = "resolve" PROVE owner = "me"
    BY <1>1
  <2>1. CASE Confirm
    BY <2>1 DEF Confirm, StillLeads
  <2>2. CASE Process /\ ~Confirm
    BY <2>2 DEF Process, Start, Loop, TryAcquire, Leave, Resolve, Retry, Decide,
         SelectBacklog, Dispatch, WaveHangs, Repair, NextModel, Models, Settle, Sleep
  <2>3. CASE Environment
    BY <2>3 DEF Environment, Publish, NewCycle, RequestStop, LoseSession, OtherLeaves,
         Crash, Restart
  <2> QED
    BY <2>1, <2>2, <2>3 DEF Next
<1> QED
  BY <1>1, PTL DEF Spec, PlansOnlyAsLeader

-----------------------------------------------------------------------------
(* The pipeline of a wave: its invariant. *)

\* Decoded in this wave and not failed or skipped since.
DecodedWell(j) ==
    \/ j = seed
    \/ stage[j] \in {"decoded", "toWrite", "writing"}
    \/ outcome[j] = "written"

PastWait == {"ready", "decoding", "decoded", "toWrite", "writing"}

Opening == phase \in {"seeding", "preparing"}
Opened == phase \in {"running", "drained", "finalized"}

\* Before the wave opens no task exists and no item of the work list settled.
NothingStarted ==
    Opening => /\ \A i \in Items : stage[i] = "none"
               /\ \A i \in work : outcome[i] = "pending"
               /\ decoded \cap work \subseteq {seed}
               /\ phase = "seeding" => seed = NoItem

\* The seed is an item of the work list whose raw field was stored.
SeedChosen ==
    phase = "preparing" \/ Opened => seed \in work /\ seed \in decoded

\* A task is done exactly when its item has an outcome.
DoneIsSettled ==
    Opened => \A i \in work : stage[i] = "done" <=> outcome[i] # "pending"

DrainedIsDone ==
    phase \in {"drained", "finalized"} => \A i \in work : stage[i] = "done"

\* Who lost its task never had one again: dropped items have no stage.
DroppedHaveNoTask == \A i \in Items \ work : stage[i] = "none" /\ outcome[i] = "failed"

\* The decode event is set only once the decode is over.
DecodedIsOver ==
    Opened => \A j \in work \ {seed} : j \in decoded =>
                  stage[j] \in {"decoded", "toWrite", "writing", "done"}

\* The seed's task never decodes.
SeedOnlyWrites ==
    Opened => stage[seed] \in {"new", "toWrite", "writing", "done"}

\* Whoever is past the wait has a predecessor whose event is set.
WaitedFor ==
    \A i \in Items : i # seed /\ stage[i] \in PastWait /\ IsReset(i) /\ Predecessor(i) \in Items
        => Predecessor(i) \in decoded

\* The raw field of a predecessor stays until its one successor takes it.
HandedOver ==
    Opened => \A i \in work \ {seed} :
        IsReset(i) /\ Predecessor(i) \in work /\ DecodedWell(Predecessor(i))
            => Predecessor(i) \in raw \/ i \in fed

\* The seed's field is there before the wave opens.
SeedKept == phase = "preparing" => seed \in raw

\* Whoever decodes after its predecessor decoded well was fed.
Fed ==
    \A i \in work \ {seed} :
        /\ Opened
        /\ stage[i] \in {"decoding", "decoded", "toWrite", "writing"}
        /\ IsReset(i) /\ Predecessor(i) \in work /\ DecodedWell(Predecessor(i))
        => i \in fed

\* Once the wave is over nothing runs.
FailedAfter ==
    phase = "failed" => \A i \in Items : stage[i] \in {"none", "done"}

\* An item is left unsettled only after a cancellation or a broken pool.
LeftForAReason ==
    \A i \in Items : /\ outcome[i] = "skipped" => cancelled
                     /\ outcome[i] = "lost" => broken

WaveInv ==
    /\ WaveTypeOK /\ LeftForAReason
    /\ NothingStarted /\ SeedChosen /\ DoneIsSettled /\ DrainedIsDone
    /\ DroppedHaveNoTask /\ DecodedIsOver /\ SeedOnlyWrites /\ WaitedFor
    /\ HandedOver /\ SeedKept /\ Fed /\ FailedAfter

-----------------------------------------------------------------------------
(* The pipeline of a wave: its items. *)

\* A raw field has at most one reader: no two items share a predecessor.
LEMMA OneSuccessor ==
    \A i, k \in Items : Predecessor(i) = Predecessor(k) => i = k
<1> SUFFICES ASSUME NEW i \in Items, NEW k \in Items, Predecessor(i) = Predecessor(k)
             PROVE  i = k
  OBVIOUS
<1>1. PICK a \in Streams, b \in WaveLeads : i = <<a, b>>
  BY DEF Items
<1>2. PICK c \in Streams, d \in WaveLeads : k = <<c, d>>
  BY DEF Items
<1>3. b \in Nat /\ d \in Nat
  BY ItemsAssumption
<1>4. a = c /\ b - 3 = d - 3
  BY <1>1, <1>2 DEF Predecessor, LeadOf
<1> QED
  BY <1>1, <1>2, <1>3, <1>4

LEMMA LeadsOfItems == \A i \in Items : LeadOf(i) \in WaveLeads
BY DEF Items, LeadOf

LEMMA SeedIsKnown == NoItem \notin Items
BY ItemsAssumption

USE DEF WaveTypeOK, Stages

-----------------------------------------------------------------------------
(* The pipeline of a wave: its steps. *)

LEMMA InitWaveInv == WaveInit => WaveInv
BY DEF WaveInit, WaveInv, LeftForAReason, NothingStarted, SeedChosen, DoneIsSettled, DrainedIsDone,
       DroppedHaveNoTask, DecodedIsOver, SeedOnlyWrites, WaitedFor, HandedOver,
       SeedKept, Fed, FailedAfter, Opened, Opening, PastWait

LEMMA NextWaveInv == WaveInv /\ [WaveNext]_waveVars => WaveInv'
<1> SUFFICES ASSUME WaveInv, [WaveNext]_waveVars PROVE WaveInv'
  OBVIOUS
<1> USE OneSuccessor, LeadsOfItems, SeedIsKnown
        DEF WaveInv, LeftForAReason, NothingStarted, SeedChosen, DoneIsSettled, DrainedIsDone,
            DroppedHaveNoTask, DecodedIsOver, SeedOnlyWrites, WaitedFor, HandedOver,
            SeedKept, Fed, FailedAfter, Opened, Opening, PastWait, DecodedWell
<1>1. CASE Abort
  BY <1>1 DEF Abort, Running
<1>2. CASE Prepare
  BY <1>2 DEF Prepare, Running
<1>3. CASE Drain
  BY <1>3 DEF Drain, Running
<1>4. CASE Finalize
  BY <1>4 DEF Finalize, Running
<1>5. CASE Cancel
  BY <1>5 DEF Cancel, Running
<1>6. ASSUME NEW i \in Items, SeedDecoded(i) PROVE WaveInv'
  BY <1>6 DEF SeedDecoded, Advance, Skip, SettleItem, Move, Frame, Running, Candidate, In, Pipelined, Writing
<1>7. ASSUME NEW i \in Items, SeedUnreadable(i) PROVE WaveInv'
  BY <1>7 DEF SeedUnreadable, Advance, Skip, SettleItem, Move, Frame, Running, Candidate, In, Pipelined, Writing
<1>8. ASSUME NEW i \in Items, StartTask(i) PROVE WaveInv'
  BY <1>8 DEF StartTask, Advance, Skip, SettleItem, Move, Frame, Running, Candidate, In, Pipelined, Writing
<1>9. ASSUME NEW i \in Items, Admit(i) PROVE WaveInv'
  BY <1>9 DEF Admit, Advance, Skip, SettleItem, Move, Frame, Running, Candidate, In, Pipelined, Writing
<1>10. ASSUME NEW i \in Items, StartDownload(i) PROVE WaveInv'
  BY <1>10 DEF StartDownload, Advance, Skip, SettleItem, Move, Frame, Running, Candidate, In, Pipelined, Writing
<1>11. ASSUME NEW i \in Items, Downloaded(i) PROVE WaveInv'
  BY <1>11 DEF Downloaded, Advance, Skip, SettleItem, Move, Frame, Running, Candidate, In, Pipelined, Writing
<1>12. ASSUME NEW i \in Items, DownloadFails(i) PROVE WaveInv'
  BY <1>12 DEF DownloadFails, Advance, Skip, SettleItem, Move, Frame, Running, Candidate, In, Pipelined, Writing
<1>13. ASSUME NEW i \in Items, AwaitPredecessor(i) PROVE WaveInv'
  BY <1>13 DEF AwaitPredecessor, Advance, Skip, SettleItem, Move, Frame, Running, Candidate, In, Pipelined, Writing
<1>14. ASSUME NEW i \in Items, StartDecode(i) PROVE WaveInv'
  BY <1>14 DEF StartDecode, Advance, Skip, SettleItem, Move, Frame, Running, Candidate, In, Pipelined, Writing
<1>15. ASSUME NEW i \in Items, DecodeOk(i) PROVE WaveInv'
  BY <1>15 DEF DecodeOk, Advance, Skip, SettleItem, Move, Frame, Running, Candidate, In, Pipelined, Writing
<1>16. ASSUME NEW i \in Items, DecodeFails(i) PROVE WaveInv'
  BY <1>16 DEF DecodeFails, Advance, Skip, SettleItem, Move, Frame, Running, Candidate, In, Pipelined, Writing
<1>17. ASSUME NEW i \in Items, QueueWrite(i) PROVE WaveInv'
  BY <1>17 DEF QueueWrite, Advance, Skip, SettleItem, Move, Frame, Running, Candidate, In, Pipelined, Writing
<1>18. ASSUME NEW i \in Items, StartWrite(i) PROVE WaveInv'
  BY <1>18 DEF StartWrite, Advance, Skip, SettleItem, Move, Frame, Running, Candidate, In, Pipelined, Writing
<1>19. ASSUME NEW i \in Items, WriteEnds(i) PROVE WaveInv'
  BY <1>19 DEF WriteEnds, Advance, Skip, SettleItem, Move, Frame, Running, Candidate, In, Pipelined, Writing
<1>20. ASSUME NEW i \in Items, SubmitFails(i) PROVE WaveInv'
  BY <1>20 DEF SubmitFails, Move, Frame, Running, In, Pipelined
<1>21. CASE PoolBreaks
  BY <1>21 DEF PoolBreaks, Running
<1>22. CASE UNCHANGED waveVars
  BY <1>22 DEF waveVars
<1> QED
  BY <1>1, <1>2, <1>3, <1>4, <1>5, <1>6, <1>7, <1>8, <1>9, <1>10, <1>11, <1>12,
     <1>13, <1>14, <1>15, <1>16, <1>17, <1>18, <1>19, <1>20, <1>21, <1>22 DEF WaveNext, WaveStep, ItemStep, Over

THEOREM WaveInvariance == WaveSpec => []WaveInv
BY InitWaveInv, NextWaveInv, PTL DEF WaveSpec

\* The variables of a wave keep their types whatever its members, leads and
\* stage capacities are (wave_runner's bookkeeping).
THEOREM WaveTypeCorrect == WaveSpec => []WaveTypeOK
<1>1. WaveInv => WaveTypeOK
  BY DEF WaveInv
<1> QED
  BY <1>1, WaveInvariance, PTL

\* A reset lead is always de-accumulated with the raw field of a predecessor
\* that decoded in the same wave (predecessor_states, decode_completed_events).
THEOREM ResetLeadsFed == WaveSpec => []DeaccumulatesFromMemory
<1>1. WaveInv => DeaccumulatesFromMemory
  BY DEF WaveInv, Fed, FailedAfter, NothingStarted, Opened, Opening, DecodedWell,
         DeaccumulatesFromMemory, DroppedHaveNoTask
<1> QED
  BY <1>1, WaveInvariance, PTL

\* The finalizer never runs beside a task of its wave (the finalization gate), and
\* what it finds unsettled was left by a cancelled task or refused by a broken pool.
THEOREM FinalizerLast == WaveSpec => []FinalizesAfterDrain
<1>1. WaveInv => FinalizesAfterDrain
  BY DEF WaveInv, LeftForAReason, DrainedIsDone, DoneIsSettled, Opened, FinalizesAfterDrain
<1> QED
  BY <1>1, WaveInvariance, PTL

-----------------------------------------------------------------------------
(* The contract of a wave. *)

LEMMA InitContract == WaveInit => Contract!Init
BY DEF WaveInit, Contract!Init

LEMMA StepContract == WaveInv /\ [WaveNext]_waveVars => [Contract!Next]_(Contract!vars)
<1> SUFFICES ASSUME WaveInv, [WaveNext]_waveVars PROVE [Contract!Next]_(Contract!vars)
  OBVIOUS
<1> USE DEF WaveInv, LeftForAReason, NothingStarted, SeedChosen, DoneIsSettled, DrainedIsDone,
            DroppedHaveNoTask, Opened, Opening
<1>1. ASSUME Abort PROVE Contract!Abort
  BY <1>1 DEF Abort, Running, Contract!Abort
<1>2. ASSUME Prepare PROVE Contract!Open
  BY <1>2 DEF Prepare, Running, Contract!Open
<1>3. ASSUME Drain PROVE UNCHANGED Contract!vars
  BY <1>3 DEF Drain, Running, Contract!vars
<1>4. ASSUME Finalize PROVE Contract!Finalize
  BY <1>4 DEF Finalize, Running, Contract!Finalize
<1>5. ASSUME Cancel PROVE Contract!Cancel
  BY <1>5 DEF Cancel, Running, Contract!Cancel
<1>6. ASSUME NEW i \in Items, SeedDecoded(i) PROVE UNCHANGED Contract!vars
  BY <1>6 DEF SeedDecoded, Frame, Running, Contract!vars
<1>7. ASSUME NEW i \in Items, Downloaded(i) PROVE UNCHANGED Contract!vars
  BY <1>7 DEF Downloaded, Frame, Running, Contract!vars
<1>8. ASSUME NEW i \in Items, DecodeOk(i) PROVE UNCHANGED Contract!vars
  BY <1>8 DEF DecodeOk, Frame, Running, Contract!vars
<1>9. ASSUME NEW i \in Items, SeedUnreadable(i) PROVE Contract!Drop(i)
  BY <1>9 DEF SeedUnreadable, Candidate, Contract!Drop
<1>10. ASSUME NEW i \in Items, DownloadFails(i) PROVE Contract!Settle(i, "failed")
  BY <1>10 DEF DownloadFails, SettleItem, Outstanding, In, Pipelined, Frame, Running,
         Contract!Settle, Contract!Outstanding
<1>11. ASSUME NEW i \in Items, DecodeFails(i) PROVE Contract!Settle(i, "failed")
  BY <1>11 DEF DecodeFails, SettleItem, Outstanding, In, Pipelined, Frame, Running,
         Contract!Settle, Contract!Outstanding
<1>12. ASSUME NEW i \in Items, WriteEnds(i)
      PROVE  Contract!Settle(i, "written") \/ Contract!Settle(i, "failed")
  BY <1>12 DEF WriteEnds, Writing, SettleItem, Outstanding, Frame, Running,
         Contract!Settle, Contract!Outstanding
<1>13. ASSUME NEW i \in Items, StartTask(i)
      PROVE  Contract!Skip(i) \/ UNCHANGED Contract!vars
  BY <1>13 DEF StartTask, Advance, Skip, Move, In, Pipelined, Frame, Running,
         Contract!Skip, Contract!vars
<1>14. ASSUME NEW i \in Items, Admit(i)
      PROVE  Contract!Skip(i) \/ UNCHANGED Contract!vars
  BY <1>14 DEF Admit, Advance, Skip, Move, In, Pipelined, Frame, Running,
         Contract!Skip, Contract!vars
<1>15. ASSUME NEW i \in Items, StartDownload(i)
      PROVE  Contract!Skip(i) \/ UNCHANGED Contract!vars
  BY <1>15 DEF StartDownload, Advance, Skip, Move, In, Pipelined, Frame, Running,
         Contract!Skip, Contract!vars
<1>16. ASSUME NEW i \in Items, AwaitPredecessor(i)
      PROVE  Contract!Skip(i) \/ UNCHANGED Contract!vars
  BY <1>16 DEF AwaitPredecessor, Advance, Skip, Move, In, Pipelined, Frame, Running,
         Contract!Skip, Contract!vars
<1>17. ASSUME NEW i \in Items, StartDecode(i)
      PROVE  Contract!Skip(i) \/ UNCHANGED Contract!vars
  BY <1>17 DEF StartDecode, Advance, Skip, Move, In, Pipelined, Frame, Running,
         Contract!Skip, Contract!vars
<1>18. ASSUME NEW i \in Items, QueueWrite(i)
      PROVE  Contract!Skip(i) \/ UNCHANGED Contract!vars
  BY <1>18 DEF QueueWrite, Advance, Skip, Move, In, Pipelined, Frame, Running,
         Contract!Skip, Contract!vars
<1>19. ASSUME NEW i \in Items, StartWrite(i)
      PROVE  Contract!Skip(i) \/ UNCHANGED Contract!vars
  BY <1>19 DEF StartWrite, Advance, Skip, Move, In, Pipelined, Frame, Running,
         Contract!Skip, Contract!vars
<1>20. ASSUME NEW i \in Items, SubmitFails(i) PROVE Contract!Lose(i)
  BY <1>20 DEF SubmitFails, Move, In, Pipelined, Frame, Running, Contract!Lose
<1>21. ASSUME PoolBreaks PROVE Contract!Break
  BY <1>21 DEF PoolBreaks, Running, Contract!Break
<1>22. CASE UNCHANGED waveVars
  BY <1>22 DEF waveVars, Contract!vars
<1> QED
  BY <1>1, <1>2, <1>3, <1>4, <1>5, <1>6, <1>7, <1>8, <1>9, <1>10, <1>11, <1>12,
     <1>13, <1>14, <1>15, <1>16, <1>17, <1>18, <1>19, <1>20, <1>21, <1>22
     DEF WaveNext, WaveStep, ItemStep, Over, Contract!Next

\* The staged pipeline implements the contract of a wave: an item settles once, is
\* skipped after a cancellation or lost with the decode pool; a lead is offered
\* exactly when its last item settles; the finalizer comes last.
THEOREM PipelineKeepsContract == WaveSpec => KeepsContract
<1>1. WaveInit /\ [][WaveNext]_waveVars /\ []WaveInv => Contract!Init /\ [][Contract!Next]_(Contract!vars)
  BY InitContract, StepContract, PTL
<1> QED
  BY <1>1, WaveInvariance, PTL DEF WaveSpec, KeepsContract, Contract!Spec
=============================================================================
