------------------------- MODULE ReclamationProofs -------------------------
(***************************************************************************)
(* Reclamation of a model's stores, for every set of leads, variables and  *)
(* workers: the types, that predecessors of uncommitted reset leads stay,  *)
(* that a tombstone is true, that what is gone is fenced while its cycle   *)
(* is open, and that a last copy is never taken.                           *)
(***************************************************************************)
EXTENDS Reclamation, FiniteSetTheorems, WellFoundedInduction, TLAPS

IsOpen(c) == lifecycle[c] = "open"
\* A unit that a reader may still ask for.
Served(u) == PairOf(u) \in catalog /\ IsOpen(CycleOf(u))

\* What a worker still has to do something about: its batch, without the store
\* whose rows it has just written.
Holding(w, u) ==
    u \in worker[w].left /\ ~(worker[w].at = "clean" /\ CycleOf(u) = worker[w].store)

\* The type invariant in parts.  A `deleting' row is leased, and no row but those and
\* the ones that a tombstone has closed is.
Rows == [status : {"none", "queued", "deleting", "deleted"}, lease : {"none", "live", "expired"},
         base : Nat, cycle : Cycles \cup {NoCycle}]
RowSound(r) ==
    /\ r \in Rows
    /\ r.status = "deleting" => r.lease # "none"
    /\ r.lease # "none" => r.status \in {"deleting", "deleted"}
RowsTyped == row \in [Units -> Rows] /\ \A u \in Units : RowSound(row[u])

Passes == [at : {"idle", "gate", "observe", "judge", "remove", "mark", "clean"},
           claimed : SUBSET Units, left : SUBSET Units, store : Cycles \cup {NoCycle},
           doomed : SUBSET Units, start : Nat]
\* Nothing is doomed before the judgement, and then only targets are.
PassSound(r) ==
    /\ r.at \in {"idle", "gate", "observe", "judge"} => r.doomed = {}
    /\ r.doomed \subseteq {u \in r.left : CycleOf(u) = r.store}
    /\ r.left \subseteq r.claimed /\ r.start <= now
    /\ r.at = "idle" => r.left = {}
WorkersTyped == worker \in [Workers -> Passes] /\ \A w \in Workers : PassSound(worker[w])

DaemonTyped ==
    /\ phase \in {"idle", "bookkeeping", "enqueueing", "working", "sweeping"}
    /\ todo \subseteq Cycles /\ terminal \in Cycles \cup {NoCycle}
    /\ plan \subseteq Units \X Cycles
    /\ requeued \subseteq Units \X {"queued", "deleted"}
WorldTyped ==
    /\ now \in 0 .. MaxNow
    /\ catalog \subseteq Scope /\ unbumped \subseteq catalog /\ marker \subseteq Scope
    /\ generation \in [Cycles -> Nat] /\ object \subseteq Units
    /\ lifecycle \in [Cycles -> {"open", "claimed", "deleted", "swept"}]
    /\ raced \subseteq Nat /\ faults \in 0 .. MaxFaults /\ rewrites \in 0 .. MaxRewrites
TInv == RowsTyped /\ WorkersTyped /\ DaemonTyped /\ WorldTyped

\* A row of an open cycle's unit bears the unit's own cycle time.
LabelsOwn ==
    /\ \A u \in Units : IsOpen(CycleOf(u)) /\ row[u] # NoRow => row[u].cycle = CycleOf(u)
    /\ \A p \in plan : IsOpen(CycleOf(p[1])) => p[2] = CycleOf(p[1])
    /\ terminal # NoCycle => ~IsOpen(terminal)

\* Without crashes every lease has its holder, and so none runs out.
LeasesHeld ==
    \A u \in Units :
        /\ row[u].lease # "expired"
        /\ row[u].lease = "live" => \E w \in Workers : Holding(w, u)

\* While its cycle is open a held unit is fenced, and held once.
HeldFenced ==
    \A w \in Workers : \A u \in Units :
        Holding(w, u) /\ IsOpen(CycleOf(u)) => row[u].status = "deleting"
HeldOnce ==
    \A v, w \in Workers : \A u \in Units :
        Holding(v, u) /\ Holding(w, u) /\ IsOpen(CycleOf(u)) => v = w

\* What a worker holds and has not doomed is still there.
HeldPresent ==
    \A w \in Workers : \A u \in Units :
        Holding(w, u) /\ Served(u) /\ u \notin worker[w].doomed => u \in object

ServedFenced == \A u \in Units : Served(u) => u \in object \/ row[u].status \in {"deleting", "deleted"}

FInv ==
    /\ TInv /\ requeued = {} /\ LabelsOwn /\ LeasesHeld /\ HeldFenced /\ HeldOnce /\ HeldPresent
    /\ ServedFenced

----------------------------------------------------------------------------
(* Lemmas about the model's operators. *)

\* A nonempty set of times has a smallest one, and a bounded one a largest.
LEMMA SmallestTime ==
    ASSUME NEW S \in SUBSET Nat, S # {}
    PROVE  \E m \in S : \A n \in S : m <= n
<1> DEFINE T == {0 .. n : n \in S}
<1>1. T \subseteq FiniteSubsetsOf(Nat) /\ T # {}
  <2>1. \A n \in S : 0 .. n \in SUBSET Nat /\ IsFiniteSet(0 .. n)
    BY FS_Interval
  <2> QED
    BY <2>1 DEF FiniteSubsetsOf
<1>2. \E x \in T : \A y \in T : ~(<<y, x>> \in StrictSubsetOrdering(Nat))
  <2> HIDE DEF T
  <2> QED
    BY <1>1, FS_StrictSubsetOrderingWellFounded, WFMin
<1>3. PICK m \in S : \A n \in S : ~(<<0 .. n, 0 .. m>> \in StrictSubsetOrdering(Nat))
  BY <1>2
<1>4. ASSUME NEW n \in S, n < m PROVE FALSE
  <2>1. 0 .. n \in SUBSET Nat /\ 0 .. m \in SUBSET Nat /\ 0 .. n \subseteq 0 .. m
    BY <1>4
  <2>2. m \in 0 .. m /\ m \notin 0 .. n
    BY <1>4
  <2>3. <<0 .. n, 0 .. m>> \in StrictSubsetOrdering(Nat)
    BY <2>1, <2>2 DEF StrictSubsetOrdering
  <2> QED
    BY <1>3, <2>3
<1> QED
  BY <1>4

LEMMA LargestTime ==
    ASSUME NEW S \in SUBSET Nat, S # {}, NEW b \in Nat, \A n \in S : n <= b
    PROVE  MaxOf(S) \in S /\ MaxOf(S) <= b
<1> DEFINE U == {u \in Nat : \A n \in S : n <= u}
<1>1. PICK m \in U : \A u \in U : m <= u
  BY SmallestTime
<1>2. m \in S
  <2> SUFFICES ASSUME m \notin S PROVE FALSE
    OBVIOUS
  <2>1. m \in Nat /\ \A n \in S : n \in Nat /\ n < m
    OBVIOUS
  <2>2. PICK k \in S : k \in Nat /\ k < m
    BY <2>1
  <2>3. m - 1 \in Nat /\ \A n \in S : n <= m - 1
    BY <2>1, <2>2
  <2> QED
    BY <1>1, <2>3
<1> QED
  BY <1>2 DEF MaxOf

LEMMA CyclesAreTimes == Cycles \subseteq Nat /\ \A u \in Units : CycleOf(u) \in Cycles
BY ScopeAssumption DEF Cycles, Units, CycleOf

LEMMA NoCycleIsNone == NoCycle \notin Cycles
BY CyclesAreTimes DEF NoCycle

LEMMA NextCycleIsOne ==
    ASSUME NEW S \in SUBSET Cycles, S # {}
    PROVE  NextCycle(S) \in S
<1> DEFINE claimed == {c \in S : lifecycle[c] = "claimed"}
           pool == IF claimed = {} THEN S ELSE claimed
<1>1. pool \in SUBSET Nat /\ pool # {} /\ pool \subseteq S
  BY CyclesAreTimes
<1>2. \E c \in pool : \A d \in pool : c <= d
  <2> HIDE DEF pool
  <2> QED
    BY <1>1, SmallestTime
<1>3. NextCycle(S) = CHOOSE c \in pool : \A d \in pool : c <= d
  BY DEF NextCycle
<1> HIDE DEF pool
<1> QED
  BY <1>1, <1>2, <1>3

\* The ways a row changes.
LEMMA RowOps ==
    ASSUME NEW r, RowSound(r)
    PROVE  /\ RowSound(Queued(r)) /\ RowSound(Done(r)) /\ RowSound(FencedRow(r))
           /\ Queued(r).status = "queued" /\ Queued(r).lease = "none" /\ Queued(r).cycle = r.cycle
           /\ Done(r).status = "deleted" /\ Done(r).lease = "none" /\ Done(r).cycle = r.cycle
           /\ FencedRow(r).status = "deleting" /\ FencedRow(r).lease = "live"
           /\ FencedRow(r).cycle = r.cycle
           /\ RowSound(Closed(r)) /\ Closed(r).status = "deleted" /\ Closed(r).lease = r.lease
           /\ Closed(r).cycle = r.cycle
           /\ Queued(r) # NoRow /\ Done(r) # NoRow /\ FencedRow(r) # NoRow /\ Closed(r) # NoRow
BY DEF RowSound, Rows, Queued, Done, FencedRow, Closed, NoRow, Row

LEMMA NoRowSound == RowSound(NoRow) /\ NoRow.status = "none" /\ NoRow.lease = "none" /\ NoRow.cycle = NoCycle
BY DEF RowSound, Rows, NoRow, Row

\* A change of one worker's pass.
LEMMA PassChanges ==
    ASSUME WorkersTyped, NEW w \in Workers, NEW r \in Passes, PassSound(r), now' = now,
           SetWorker(w, r)
    PROVE  WorkersTyped'
BY DEF WorkersTyped, PassSound, SetWorker

LEMMA IdleSound ==
    ASSUME WorldTyped
    PROVE  Idle \in Passes /\ PassSound(Idle) /\ Idle.doomed = {} /\ Idle.store = NoCycle
BY DEF WorldTyped, Idle, Passes, PassSound, NoCycle

LEMMA PassLeaves ==
    ASSUME WorkersTyped, WorldTyped, DaemonTyped, NEW w \in Workers, NEW r \in Passes,
           PassSound(r), now' = now, Leave(w, r)
    PROVE  /\ WorkersTyped'
           /\ phase' \in {"idle", "bookkeeping", "enqueueing", "working", "sweeping"}
BY PassChanges, IdleSound DEF Leave, DaemonTyped

\* The parts are the type invariant.
LEMMA TypesHold == TInv => TypeOK
<1> SUFFICES ASSUME TInv PROVE TypeOK
  OBVIOUS
<1>1. /\ row \in [Units -> [status : {"none", "queued", "deleting", "deleted"},
                            lease : {"none", "live", "expired"},
                            base : Nat, cycle : Cycles \cup {NoCycle}]]
      /\ \A u \in Units : /\ row[u].status = "deleting" => row[u].lease # "none"
                          /\ row[u].lease # "none" => row[u].status \in {"deleting", "deleted"}
  BY DEF TInv, RowsTyped, RowSound, Rows
<1>2. ASSUME NEW w \in Workers
      PROVE  /\ worker[w].at \in {"idle", "gate", "observe", "judge", "remove", "mark", "clean"}
             /\ worker[w].doomed \subseteq worker[w].left
             /\ worker[w].left \subseteq worker[w].claimed /\ worker[w].claimed \subseteq Units
             /\ worker[w].store \in Cycles \cup {NoCycle} /\ worker[w].start \in 0 .. now
  <2>1. worker[w] \in Passes /\ PassSound(worker[w]) /\ now \in Nat
    BY DEF TInv, WorkersTyped, WorldTyped
  <2> QED
    BY <2>1 DEF Passes, PassSound
<1> QED
  BY <1>1, <1>2 DEF TInv, DaemonTyped, WorldTyped, TypeOK

----------------------------------------------------------------------------
(* Type correctness, one step for each action. *)

LEMMA UnitFacts ==
    /\ \A s \in Scope : s[1] \in Cycles /\ s[1] \in Nat /\ s[2] \in 0 .. MaxLead
    /\ \A S \in SUBSET Scope : UnitsOf(S) \subseteq Units
    /\ \A u \in Units : PairOf(u) \in Scope /\ CycleOf(u) = PairOf(u)[1]
    /\ \A S \in SUBSET Scope : \A u \in Units : u \in UnitsOf(S) <=> PairOf(u) \in S
BY ScopeAssumption DEF Cycles, UnitsOf, Units, PairOf, CycleOf

LEMMA SurroundingsTyped ==
    ASSUME TInv, Surroundings
    PROVE  TInv'
<1> USE DEF TInv
<1>1. CASE Advance
  <2>1. now' = now + 1 /\ now' \in 0 .. MaxNow /\ now \in Nat
    BY <1>1, ScopeAssumption DEF Advance, WorldTyped
  <2>2. WorkersTyped'
    BY <1>1, <2>1 DEF Advance, WorkersTyped, PassSound, Passes
  <2> QED
    BY <1>1, <2>1, <2>2 DEF Advance, catalogVars, daemonVars, RowsTyped, DaemonTyped, WorldTyped
<1>2. ASSUME NEW s \in Scope, Publish(s) PROVE TInv'
  <2>1. UnitsOf({s}) \subseteq Units
    BY UnitFacts
  <2>2. WorldTyped'
    BY <1>2, <2>1 DEF Publish, WorldTyped
  <2> QED
    BY <1>2, <2>2 DEF Publish, daemonVars, RowsTyped, DaemonTyped, WorkersTyped, PassSound
<1>3. ASSUME NEW s \in Scope, Lose(s) PROVE TInv'
  <2>1. s[1] + s[2] \in Nat /\ s[1] \in Cycles
    BY UnitFacts
  <2>2. catalog' \subseteq catalog /\ unbumped' \subseteq catalog'
    BY <1>3 DEF Lose, WorldTyped, PairsOf
  <2>3. generation' \in [Cycles -> Nat]
    BY <1>3, <2>1 DEF Lose, WorldTyped
  <2>4. rewrites' \in 0 .. MaxRewrites
    BY <1>3, FaultsAssumption DEF Lose, WorldTyped
  <2>5. WorldTyped'
    BY <1>3, <2>1, <2>2, <2>3, <2>4 DEF Lose, WorldTyped
  <2> QED
    BY <1>3, <2>5 DEF Lose, daemonVars, RowsTyped, DaemonTyped, WorkersTyped, PassSound
<1>4. ASSUME NEW c \in Cycles, Bump(c) PROVE TInv'
  <2>1. WorldTyped'
    BY <1>4 DEF Bump, WorldTyped
  <2> QED
    BY <1>4, <2>1 DEF Bump, daemonVars, RowsTyped, DaemonTyped, WorkersTyped, PassSound
<1> QED
  BY <1>1, <1>2, <1>3, <1>4 DEF Surroundings

LEMMA BookkeepingTyped ==
    ASSUME TInv, BeginPass \/ ClaimCycle \/ CheckTerminal \/ EndPass
    PROVE  TInv'
<1> USE DEF TInv
<1>1. CASE BeginPass
  BY <1>1 DEF BeginPass, catalogVars, RowsTyped, DaemonTyped, WorldTyped, WorkersTyped, PassSound
<1>2. CASE ClaimCycle
  <2>1. lifecycle' \in [Cycles -> {"open", "claimed", "deleted", "swept"}] /\ todo' \subseteq Cycles
    BY <1>2 DEF ClaimCycle, WorldTyped, DaemonTyped
  <2> QED
    BY <1>2, <2>1
       DEF ClaimCycle, catalogVars, RowsTyped, DaemonTyped, WorldTyped, WorkersTyped, PassSound
<1>3. CASE CheckTerminal
  <2>1. terminal' \in Cycles \cup {NoCycle} /\ todo' \subseteq Cycles
    BY <1>3, NextCycleIsOne DEF CheckTerminal, DaemonTyped
  <2> QED
    BY <1>3, <2>1
       DEF CheckTerminal, catalogVars, RowsTyped, DaemonTyped, WorldTyped, WorkersTyped, PassSound
<1>4. CASE EndPass
  BY <1>4 DEF EndPass, catalogVars, RowsTyped, DaemonTyped, WorldTyped, WorkersTyped, PassSound
<1> QED
  BY <1>1, <1>2, <1>3, <1>4

LEMMA TombstoneTyped ==
    ASSUME TInv, Tombstone
    PROVE  TInv'
<1> USE DEF TInv
<1>1. RowsTyped'
  <2>1. \A u \in Units : RowSound(Closed(row[u])) /\ RowSound(row[u])
    BY RowOps DEF RowsTyped
  <2> QED
    BY <2>1 DEF Tombstone, RowsTyped, RowSound
<1>2. DaemonTyped' /\ WorldTyped'
  BY DEF Tombstone, catalogVars, DaemonTyped, WorldTyped
<1> QED
  BY <1>1, <1>2 DEF Tombstone, WorkersTyped, PassSound

LEMMA PlanReadTyped ==
    ASSUME TInv, PlanRead
    PROVE  TInv'
<1> USE DEF TInv
<1>1. plan' \subseteq Units \X Cycles
  <2> DEFINE retired == {u \in UnitsOf(catalog) : lifecycle[CycleOf(u)] = "claimed"}
             open == UnitsOf(Open(catalog))
             held == Necessary(Variables, now, Open(catalog), {})
                         \cup WindHolds(now, Open(catalog), {})
             free == open \ held
  <2>1. PICK label \in (IF Runs = {} THEN {NoCycle} ELSE Labels) :
          plan' = {<<u, CycleOf(u)>> : u \in {x \in free : row[x] = NoRow}}
                     \cup {<<u, label>> : u \in {x \in retired : row[x] = NoRow}}
    BY DEF PlanRead
  <2>2. retired \subseteq Units /\ open \subseteq Units
    BY UnitFacts DEF WorldTyped, Open
  <2>3. retired # {} => Runs # {}
    <3> SUFFICES ASSUME NEW u \in retired PROVE CycleOf(u) \in Runs
      OBVIOUS
    <3>1. PairOf(u) \in catalog /\ lifecycle[CycleOf(u)] = "claimed" /\ u \in Units
      BY <2>2, UnitFacts DEF WorldTyped
    <3>2. PairsOf(CycleOf(u)) # {}
      BY <3>1, UnitFacts DEF PairsOf
    <3> QED
      BY <3>1, <3>2, CyclesAreTimes DEF Runs, HasRun
  <2>4. Runs # {} => label \in Cycles
    BY <2>1 DEF Labels, Planable, Runs
  <2> HIDE DEF retired, free
  <2>5. free \subseteq Units
    BY <2>2 DEF free
  <2>6. \A u \in free : CycleOf(u) \in Cycles
    BY <2>5, CyclesAreTimes
  <2> QED
    BY <2>1, <2>2, <2>3, <2>4, <2>5, <2>6
<1> QED
  BY <1>1 DEF PlanRead, catalogVars, RowsTyped, DaemonTyped, WorldTyped, WorkersTyped, PassSound

LEMMA FaultsTyped == WorldTyped /\ (NoFault \/ \E k \in FaultKinds : MayFault(k) /\ Fault)
                     => faults' \in 0 .. MaxFaults
BY FaultsAssumption DEF WorldTyped, NoFault, MayFault, Fault

LEMMA EnqueueTyped ==
    ASSUME TInv, Enqueue
    PROVE  TInv'
<1> USE DEF TInv
<1>1. PICK seen \in {generation, [c \in Cycles |-> 0]} :
        /\ IF seen = generation THEN NoFault ELSE MayFault("manifest") /\ Fault
        /\ row' = [u \in Units |->
             IF row[u] = NoRow /\ \E p \in plan : p[1] = u
             THEN Row("queued", "none", seen[CycleOf(u)], (CHOOSE p \in plan : p[1] = u)[2])
             ELSE row[u]]
  BY DEF Enqueue
<1>2. RowsTyped'
  <2>1. \A u \in Units : (\E p \in plan : p[1] = u) =>
           RowSound(Row("queued", "none", seen[CycleOf(u)], (CHOOSE p \in plan : p[1] = u)[2]))
    <3> SUFFICES ASSUME NEW u \in Units, \E p \in plan : p[1] = u
                 PROVE  RowSound(Row("queued", "none", seen[CycleOf(u)], (CHOOSE p \in plan : p[1] = u)[2]))
      OBVIOUS
    <3>1. (CHOOSE p \in plan : p[1] = u)[2] \in Cycles
      <4>1. (CHOOSE p \in plan : p[1] = u) \in plan
        OBVIOUS
      <4> QED
        BY <4>1 DEF DaemonTyped
    <3>2. seen[CycleOf(u)] \in Nat
      <4>1. seen \in [Cycles -> Nat]
        BY DEF WorldTyped
      <4> QED
        BY <4>1, CyclesAreTimes
    <3> QED
      BY <3>1, <3>2 DEF RowSound, Row, Rows
  <2>2. \A u \in Units : RowSound(row[u])
    BY DEF RowsTyped
  <2> QED
    BY <1>1, <2>1, <2>2 DEF RowsTyped, RowSound
<1>3. faults' \in 0 .. MaxFaults
  BY <1>1, FaultsTyped DEF NoFault, MayFault
<1> QED
  BY <1>2, <1>3 DEF Enqueue, catalogVars, DaemonTyped, WorldTyped, WorkersTyped, PassSound

LEMMA SweepTyped ==
    ASSUME TInv, NEW c \in Cycles, Sweep(c)
    PROVE  TInv'
<1> USE DEF TInv
<1>1. RowsTyped'
  BY NoRowSound DEF Sweep, RowsTyped, RowSound
<1>2. WorldTyped'
  BY DEF Sweep, WorldTyped
<1> QED
  BY <1>1, <1>2 DEF Sweep, daemonVars, DaemonTyped, WorkersTyped, PassSound

LEMMA RequeueTyped ==
    ASSUME RowsTyped, NEW S, Requeue(S)
    PROVE  RowsTyped'
<1>1. \A u \in Units : RowSound(row[u]) /\ RowSound(Queued(row[u]))
  BY RowOps DEF RowsTyped
<1> QED
  BY <1>1 DEF Requeue, RowsTyped, RowSound

\* The pass of a worker that gives back a set of targets and leaves the store.
LEMMA LeaveStoreTyped ==
    ASSUME TInv, NEW w \in Workers, NEW S, now' = now,
           LeaveStore(w, S)
    PROVE  /\ WorkersTyped'
           /\ phase' \in {"idle", "bookkeeping", "enqueueing", "working", "sweeping"}
<1> DEFINE r == [worker[w] EXCEPT !.at = "gate", !.store = NoCycle, !.left = @ \ S, !.doomed = {}]
<1>1. worker[w] \in Passes /\ PassSound(worker[w])
  BY DEF TInv, WorkersTyped
<1>2. r \in Passes /\ PassSound(r)
  BY <1>1 DEF Passes, PassSound
<1>3. Leave(w, r)
  BY DEF LeaveStore
<1> HIDE DEF r
<1> QED
  BY <1>2, <1>3, PassLeaves DEF TInv

\* Claiming, and the ways out of the gate.
LEMMA ClaimTyped ==
    ASSUME TInv, NEW w \in Workers, NothingToClaim(w) \/ Claim(w)
    PROVE  TInv'
<1> USE DEF TInv
<1>1. CASE NothingToClaim(w)
  BY <1>1 DEF NothingToClaim, catalogVars, RowsTyped, DaemonTyped, WorldTyped, WorkersTyped, PassSound
<1>2. CASE Claim(w)
  <2>1. PICK B \in SUBSET Units :
          /\ row' = [u \in Units |-> IF u \in B THEN FencedRow(row[u]) ELSE row[u]]
          /\ SetWorker(w, [Idle EXCEPT !.at = "gate", !.claimed = B, !.left = B, !.start = now])
    <3>1. Claimable \subseteq Units /\ \A B \in Batches : B \subseteq Units
      BY DEF Claimable, Batches, InStatus
    <3> QED
      BY <1>2, <3>1 DEF Claim
  <2>2. RowsTyped'
    <3>1. \A u \in Units : RowSound(row[u]) /\ RowSound(FencedRow(row[u]))
      BY RowOps DEF RowsTyped
    <3> QED
      BY <2>1, <3>1 DEF RowsTyped, RowSound
  <2>3. WorkersTyped'
    <3> DEFINE r == [Idle EXCEPT !.at = "gate", !.claimed = B, !.left = B, !.start = now]
    <3>1. r \in Passes /\ PassSound(r)
      <4>1. now \in Nat /\ now <= now
        BY DEF WorldTyped
      <4>2. /\ r \in Passes /\ r.at = "gate" /\ r.doomed = {} /\ r.left = B /\ r.claimed = B
            /\ r.start = now
        BY <4>1, IdleSound DEF Passes
      <4> QED
        BY <4>1, <4>2 DEF PassSound
    <3>2. SetWorker(w, r) /\ now' = now
      BY <1>2, <2>1 DEF Claim
    <3> HIDE DEF r
    <3> QED
      BY <3>1, <3>2, PassChanges
  <2> QED
    BY <1>2, <2>2, <2>3 DEF Claim, catalogVars, daemonVars, DaemonTyped, WorldTyped
<1> QED
  BY <1>1, <1>2

LEMMA GateTyped ==
    ASSUME TInv, NEW w \in Workers, NEW c \in Cycles, EnterGate(w, c) \/ GateTimeout(w, c)
    PROVE  TInv'
<1> USE DEF TInv
<1>1. worker[w] \in Passes /\ PassSound(worker[w])
  BY DEF WorkersTyped
<1>2. CASE EnterGate(w, c)
  <2> DEFINE r == [worker[w] EXCEPT !.at = "observe", !.store = c]
  <2>1. r \in Passes /\ PassSound(r)
    BY <1>1, <1>2 DEF EnterGate, Passes, PassSound
  <2>2. SetWorker(w, r) /\ now' = now
    BY <1>2 DEF EnterGate
  <2> HIDE DEF r
  <2>3. WorkersTyped'
    BY <2>1, <2>2, PassChanges
  <2> QED
    BY <1>2, <2>3 DEF EnterGate, catalogVars, daemonVars, RowsTyped, DaemonTyped, WorldTyped
<1>3. CASE GateTimeout(w, c)
  <2> DEFINE r == [worker[w] EXCEPT !.left = @ \ Waiting(w, c)]
  <2>1. r \in Passes /\ PassSound(r)
    BY <1>1, <1>3 DEF GateTimeout, Passes, PassSound
  <2>2. Leave(w, r) /\ now' = now
    BY <1>3 DEF GateTimeout
  <2> HIDE DEF r
  <2>3. WorkersTyped' /\ phase' \in {"idle", "bookkeeping", "enqueueing", "working", "sweeping"}
    BY <2>1, <2>2, PassLeaves
  <2>4. RowsTyped'
    BY <1>3, RequeueTyped DEF GateTimeout
  <2>5. faults' \in 0 .. MaxFaults
    BY <1>3, FaultsTyped DEF GateTimeout, MayFault
  <2> QED
    BY <1>3, <2>3, <2>4, <2>5 DEF GateTimeout, catalogVars, DaemonTyped, WorldTyped
<1> QED
  BY <1>2, <1>3

LEMMA SkipTyped ==
    ASSUME TInv, NEW w \in Workers, SkipTombstoned(w)
    PROVE  TInv'
<1>1. RowsTyped'
  BY RequeueTyped DEF SkipTombstoned, TInv
<1>2. WorkersTyped' /\ phase' \in {"idle", "bookkeeping", "enqueueing", "working", "sweeping"}
  BY LeaveStoreTyped DEF SkipTombstoned
<1> QED
  BY <1>1, <1>2 DEF SkipTombstoned, TInv, catalogVars, DaemonTyped, WorldTyped

LEMMA ObserveTyped ==
    ASSUME TInv, NEW w \in Workers, Observe(w)
    PROVE  TInv'
<1> USE DEF TInv
<1>1. PICK current \in {generation[worker[w].store], 0} :
        /\ IF current = generation[worker[w].store] THEN NoFault ELSE MayFault("manifest") /\ Fault
        /\ row' = [u \in Units |->
             IF u \notin Targets(w) \/ row[u] = NoRow THEN row[u]
             ELSE IF u \in Deferred(w, current) THEN Queued(Rebased(row[u], current))
             ELSE Rebased(row[u], current)]
        /\ IF Deferred(w, current) = Targets(w)
           THEN LeaveStore(w, Targets(w))
           ELSE /\ SetWorker(w, [worker[w] EXCEPT !.at = "judge",
                                                  !.left = Remaining(w, Deferred(w, current))])
                /\ UNCHANGED phase
  BY DEF Observe
<1>2. worker[w].at = "observe" /\ worker[w] \in Passes /\ PassSound(worker[w])
      /\ UNCHANGED <<now, catalogVars, object, marker, lifecycle, todo, terminal, plan,
                     requeued, raced, rewrites>>
  BY DEF Observe, WorkersTyped
<1>3. RowsTyped'
  <2>1. ASSUME NEW u \in Units, u \in Targets(w)
        PROVE  RowSound(Rebased(row[u], current)) /\ RowSound(Queued(Rebased(row[u], current)))
    <3>1. current \in Nat
      <4>1. generation[worker[w].store] \in Nat
        <5>1. CycleOf(u) = worker[w].store
          BY <2>1 DEF Targets
        <5> QED
          BY <5>1, CyclesAreTimes DEF WorldTyped
      <4> QED
        BY <4>1
    <3>2. RowSound(Rebased(row[u], current))
      BY <3>1 DEF RowsTyped, RowSound, Rows, Rebased
    <3> QED
      BY <3>2, RowOps
  <2>2. \A u \in Units : RowSound(row[u])
    BY DEF RowsTyped
  <2> QED
    BY <1>1, <2>1, <2>2 DEF RowsTyped, RowSound
<1>4. WorkersTyped' /\ phase' \in {"idle", "bookkeeping", "enqueueing", "working", "sweeping"}
  <2>1. CASE Deferred(w, current) = Targets(w)
    BY <1>1, <1>2, <2>1, LeaveStoreTyped
  <2>2. CASE Deferred(w, current) # Targets(w)
    <3> DEFINE r == [worker[w] EXCEPT !.at = "judge", !.left = Remaining(w, Deferred(w, current))]
    <3>1. r \in Passes /\ PassSound(r)
      BY <1>2 DEF Passes, PassSound, Remaining
    <3>2. SetWorker(w, r) /\ now' = now /\ phase' = phase
      BY <1>1, <1>2, <2>2
    <3> HIDE DEF r
    <3> QED
      BY <3>1, <3>2, PassChanges DEF DaemonTyped
  <2> QED
    BY <2>1, <2>2
<1>5. faults' \in 0 .. MaxFaults
  BY <1>1, FaultsTyped DEF NoFault, MayFault
<1> QED
  BY <1>2, <1>3, <1>4, <1>5 DEF catalogVars, DaemonTyped, WorldTyped

LEMMA JudgeTyped ==
    ASSUME TInv, NEW w \in Workers, Judge(w)
    PROVE  TInv'
<1> USE DEF TInv
<1>1. worker[w] \in Passes /\ PassSound(worker[w]) /\ Targets(w) \subseteq worker[w].left
  BY DEF WorkersTyped, Targets
<1>2. PICK D \in SUBSET Targets(w) :
        SetWorker(w, [worker[w] EXCEPT !.at = "remove", !.doomed = D])
  BY DEF Judge
<1> DEFINE r == [worker[w] EXCEPT !.at = "remove", !.doomed = D]
<1>3. r \in Passes /\ PassSound(r)
  BY <1>1 DEF Passes, PassSound, Targets
<1> HIDE DEF r
<1>4. WorkersTyped'
  BY <1>2, <1>3, PassChanges DEF Judge, r
<1> QED
  BY <1>4 DEF Judge, catalogVars, daemonVars, RowsTyped, DaemonTyped, WorldTyped

LEMMA RemoveTyped ==
    ASSUME TInv, NEW w \in Workers, Remove(w)
    PROVE  TInv'
<1> USE DEF TInv
<1> DEFINE r == [worker[w] EXCEPT !.at = "mark"]
<1>1. worker[w] \in Passes /\ PassSound(worker[w]) /\ SetWorker(w, r) /\ now' = now
  BY DEF Remove, WorkersTyped
<1>2. r \in Passes /\ PassSound(r)
  BY <1>1 DEF Passes, PassSound
<1> HIDE DEF r
<1>3. WorkersTyped'
  BY <1>1, <1>2, PassChanges
<1>4. object' \subseteq Units /\ faults' \in 0 .. MaxFaults
  BY FaultsTyped DEF Remove, WorldTyped, MayFault
<1> QED
  BY <1>3, <1>4 DEF Remove, catalogVars, daemonVars, RowsTyped, DaemonTyped, WorldTyped

LEMMA MarkTyped ==
    ASSUME TInv, NEW w \in Workers, Mark(w)
    PROVE  TInv'
<1> USE DEF TInv
<1> DEFINE r == [worker[w] EXCEPT !.at = "clean"]
<1>1. worker[w] \in Passes /\ PassSound(worker[w]) /\ SetWorker(w, r) /\ now' = now
  BY DEF Mark, WorkersTyped
<1>2. r \in Passes /\ PassSound(r)
  BY <1>1 DEF Passes, PassSound
<1> HIDE DEF r
<1>3. WorkersTyped'
  BY <1>1, <1>2, PassChanges
<1>4. RowsTyped'
  <2>1. \A u \in Units : RowSound(row[u]) /\ RowSound(Queued(row[u])) /\ RowSound(Done(row[u]))
    BY RowOps DEF RowsTyped
  <2> QED
    BY <2>1 DEF Mark, RowsTyped, RowSound
<1> QED
  BY <1>3, <1>4 DEF Mark, catalogVars, daemonVars, DaemonTyped, WorldTyped

LEMMA CleanTyped ==
    ASSUME TInv, NEW w \in Workers, Clean(w)
    PROVE  TInv'
<1>1. WorkersTyped' /\ phase' \in {"idle", "bookkeeping", "enqueueing", "working", "sweeping"}
  BY LeaveStoreTyped DEF Clean
<1>2. marker' \subseteq Scope
  BY DEF Clean, TInv, WorldTyped
<1> QED
  BY <1>1, <1>2 DEF Clean, TInv, catalogVars, RowsTyped, DaemonTyped, WorldTyped

LEMMA CrashTyped ==
    ASSUME TInv, NEW w \in Workers, Crash(w)
    PROVE  TInv'
<1> USE DEF TInv
<1>1. WorkersTyped'
  BY IdleSound, PassChanges DEF Crash
<1>2. object' \subseteq Units
  BY DEF Crash, WorldTyped
<1>3. faults' \in 0 .. MaxFaults
  BY FaultsTyped DEF Crash, MayFault
<1>4. DaemonTyped'
  BY DEF Crash, daemonVars, DaemonTyped
<1> QED
  BY <1>1, <1>2, <1>3, <1>4 DEF Crash, catalogVars, RowsTyped, WorldTyped

LEMMA LeaseExpiresTyped ==
    ASSUME TInv, LeaseExpires
    PROVE  TInv'
<1>1. RowsTyped'
  <2>1. \A u \in Units : RowSound(row[u]) /\ (u \in Orphans => RowSound([row[u] EXCEPT !.lease = "expired"]))
    BY DEF TInv, RowsTyped, Orphans, Leases, RowSound, Rows
  <2> QED
    BY <2>1 DEF LeaseExpires, TInv, RowsTyped, RowSound
<1> QED
  BY <1>1 DEF LeaseExpires, TInv, catalogVars, daemonVars, DaemonTyped, WorldTyped, WorkersTyped, PassSound

LEMMA OperatorTyped ==
    ASSUME TInv, OperatorStep
    PROVE  TInv'
<1> USE DEF TInv
<1>1. CASE RequeueRead
  <2>1. requeued' \subseteq Units \X {"queued", "deleted"}
    BY <1>1 DEF RequeueRead
  <2>2. faults' \in 0 .. MaxFaults
    BY <1>1, FaultsTyped DEF RequeueRead, NoFault, MayFault
  <2> QED
    BY <1>1, <2>1, <2>2
       DEF RequeueRead, catalogVars, daemonVars, RowsTyped, DaemonTyped, WorldTyped, WorkersTyped, PassSound
<1>2. CASE RequeueWrite
  <2>1. RowsTyped'
    <3>1. \A u \in Units : RowSound(row[u]) /\ RowSound(Queued(row[u])) /\ RowSound(Done(row[u]))
      BY RowOps DEF RowsTyped
    <3> QED
      BY <1>2, <3>1, NoRowSound DEF RequeueWrite, RowsTyped, RowSound
  <2> QED
    BY <1>2, <2>1
       DEF RequeueWrite, catalogVars, daemonVars, DaemonTyped, WorldTyped, WorkersTyped, PassSound
<1> QED
  BY <1>1, <1>2 DEF OperatorStep

LEMMA InitTyped == Init => TInv
<1> SUFFICES ASSUME Init PROVE TInv
  OBVIOUS
<1> USE DEF Init
<1>1. now \in 0 .. MaxNow
  <2> DEFINE S == {s[1] : s \in Committed}
  <2>1. S \in SUBSET Nat /\ \A n \in S : n <= MaxNow
    BY ScopeAssumption
  <2>2. S # {} => MaxOf(S) \in Nat /\ MaxOf(S) <= MaxNow
    <3> HIDE DEF S
    <3> QED
      BY <2>1, LargestTime, ScopeAssumption
  <2> QED
    BY <2>2, ScopeAssumption
<1>2. UnitsOf(Committed) \subseteq Units
  BY UnitFacts, ScopeAssumption
<1>3. WorldTyped
  BY <1>1, <1>2, ScopeAssumption, FaultsAssumption DEF WorldTyped
<1>4. WorkersTyped
  BY <1>3, IdleSound DEF WorkersTyped
<1>5. RowsTyped
  BY NoRowSound DEF RowsTyped, RowSound
<1> QED
  BY <1>3, <1>4, <1>5 DEF TInv, DaemonTyped

\* Every action keeps the types.
LEMMA StepTyped == TInv /\ [Next]_vars => TInv'
<1> SUFFICES ASSUME TInv, [Next]_vars PROVE TInv'
  OBVIOUS
<1>1. CASE Surroundings
  BY <1>1, SurroundingsTyped
<1>2. CASE DaemonStep
  BY <1>2, BookkeepingTyped, TombstoneTyped, PlanReadTyped, EnqueueTyped, SweepTyped DEF DaemonStep
<1>3. CASE OperatorStep \/ LeaseExpires
  BY <1>3, OperatorTyped, LeaseExpiresTyped
<1>4. CASE \E w \in Workers : WorkerStep(w) \/ Crash(w)
  BY <1>4, ClaimTyped, GateTyped, SkipTyped, ObserveTyped, JudgeTyped, RemoveTyped, MarkTyped,
     CleanTyped, CrashTyped DEF WorkerStep
<1>5. CASE UNCHANGED vars
  BY <1>5 DEF vars, catalogVars, daemonVars, TInv, RowsTyped, WorkersTyped, PassSound, DaemonTyped, WorldTyped
<1> QED
  BY <1>1, <1>2, <1>3, <1>4, <1>5 DEF Next

\* Rows, passes, catalog and clock keep their types; a row being deleted has a
\* lease, a lease is on such a row or on one that a tombstone has closed, and a
\* worker dooms only what it has claimed: the statements of the worker, the
\* planner, the finalizer and the sweeper.
THEOREM TypeCorrect == Spec => []TypeOK
<1>1. Spec => []TInv
  BY InitTyped, StepTyped, PTL DEF Spec
<1> QED
  BY <1>1, TypesHold, PTL

----------------------------------------------------------------------------
(* Predecessors stay, one step for each kind of action, when no wave loses  *)
(* a lead that it had committed.                                            *)

Condemned == UNION {worker[w].doomed : w \in Workers}
PredecessorsSafe == PredecessorHolds(now, Open(catalog)) \subseteq object \ Condemned
PInv == TInv /\ PredecessorsSafe

\* A lead is wanted for the reset lead one step later.
LEMMA PredecessorsAre ==
    ASSUME NEW C \in SUBSET Scope, NEW n \in Nat, NEW u
    PROVE  u \in PredecessorHolds(n, C) <=>
             /\ u \in Units /\ u[3] \in Interval
             /\ PairOf(u) \in C /\ <<u[1], u[2] + 1>> \notin C
             /\ u[1] + MaxLead >= n /\ u[2] + 1 \in 1 .. MaxLead /\ (u[2] + 1) % 2 = 0
<1> DEFINE R == {x \in {r[1] : r \in C} \X (1 .. MaxLead) :
                    /\ x[1] + MaxLead >= n
                    /\ x[2] % ResetPeriod = 0
                    /\ x \notin C /\ <<x[1], x[2] - IntervalWidth>> \in C}
<1>r. u \in PredecessorHolds(n, C) <=>
        \E x \in R, v \in Interval : u = <<x[1], x[2] - IntervalWidth, v>>
  <2>1. PredecessorHolds(n, C) = {<<x[1], x[2] - IntervalWidth, v>> : x \in R, v \in Interval}
    BY DEF PredecessorHolds
  <2> HIDE DEF R
  <2> QED
    BY <2>1
<1>1. \A s \in C : s = <<s[1], s[2]>> /\ s[1] \in Nat /\ s[2] \in Nat /\ s \in Scope
  BY ScopeAssumption
<1>2. ASSUME u \in PredecessorHolds(n, C)
      PROVE  /\ u \in Units /\ u[3] \in Interval
             /\ PairOf(u) \in C /\ <<u[1], u[2] + 1>> \notin C
             /\ u[1] + MaxLead >= n /\ u[2] + 1 \in 1 .. MaxLead /\ (u[2] + 1) % 2 = 0
  <2>1. PICK x \in {r[1] : r \in C} \X (1 .. MaxLead), v \in Interval :
          /\ u = <<x[1], x[2] - IntervalWidth, v>> /\ x[1] + MaxLead >= n
          /\ x[2] % ResetPeriod = 0 /\ x \notin C /\ <<x[1], x[2] - IntervalWidth>> \in C
    BY <1>2, <1>r
  <2>2. /\ x = <<x[1], x[2]>> /\ x[2] \in 1 .. MaxLead /\ x[2] \in Nat /\ x[2] % 2 = 0
        /\ u[1] = x[1] /\ u[2] = x[2] - 1 /\ u[3] = v /\ u[2] + 1 = x[2]
    BY <2>1, ScopeAssumption DEF IntervalWidth, ResetPeriod
  <2>3. <<x[1], x[2] - 1>> \in Scope /\ v \in Variables
    BY <2>1, VariablesAssumption DEF IntervalWidth
  <2>4. u \in Units
    BY <2>1, <2>3 DEF Units, IntervalWidth
  <2> QED
    BY <2>1, <2>2, <2>4 DEF PairOf, IntervalWidth
<1>3. ASSUME u \in Units, u[3] \in Interval, PairOf(u) \in C, <<u[1], u[2] + 1>> \notin C,
             u[1] + MaxLead >= n, u[2] + 1 \in 1 .. MaxLead, (u[2] + 1) % 2 = 0
      PROVE  u \in PredecessorHolds(n, C)
  <2> DEFINE x == <<u[1], u[2] + 1>>
  <2>1. u = <<u[1], u[2], u[3]>> /\ PairOf(u) = <<u[1], u[2]>> /\ u[1] \in Nat /\ u[2] \in Nat
    BY <1>1, <1>3 DEF Units, PairOf
  <2>2. u[1] \in {r[1] : r \in C}
    BY <1>3, <2>1
  <2>3. x \in {r[1] : r \in C} \X (1 .. MaxLead) /\ x[1] = u[1] /\ x[2] = u[2] + 1 /\ x[2] - 1 = u[2]
    BY <1>3, <2>1, <2>2
  <2>4. /\ x[1] + MaxLead >= n /\ x[2] % ResetPeriod = 0 /\ x \notin C
        /\ <<x[1], x[2] - IntervalWidth>> \in C
    BY <1>3, <2>1, <2>3 DEF IntervalWidth, ResetPeriod
  <2>5. u = <<x[1], x[2] - IntervalWidth, u[3]>>
    BY <2>1, <2>3 DEF IntervalWidth
  <2> HIDE DEF x
  <2> QED
    BY <1>3, <1>r, <2>3, <2>4, <2>5
<1> QED
  BY <1>2, <1>3

\* Passing time and closing cycles only let go of predecessors.
LEMMA FewerWanted ==
    ASSUME TInv, TInv', now' >= now, catalog' = catalog,
           \A c \in Cycles : IsOpen(c)' => IsOpen(c)
    PROVE  PredecessorHolds(now, Open(catalog))' \subseteq PredecessorHolds(now, Open(catalog))
<1>1. /\ now \in Nat /\ now' \in Nat
      /\ Open(catalog) \in SUBSET Scope /\ Open(catalog)' \in SUBSET Scope
  BY DEF TInv, WorldTyped, Open
<1>2. ASSUME NEW u \in PredecessorHolds(now, Open(catalog))'
      PROVE  u \in PredecessorHolds(now, Open(catalog))
  <2>1. u \in PredecessorHolds(now', Open(catalog)')
    BY <1>2 DEF PredecessorHolds
  <2>2. /\ u \in Units /\ u[3] \in Interval
        /\ PairOf(u) \in Open(catalog)' /\ <<u[1], u[2] + 1>> \notin Open(catalog)'
        /\ u[1] + MaxLead >= now' /\ u[2] + 1 \in 1 .. MaxLead /\ (u[2] + 1) % 2 = 0
    BY <1>1, <2>1, PredecessorsAre
  <2>3. u[1] \in Nat /\ u[1] \in Cycles /\ PairOf(u)[1] = u[1] /\ <<u[1], u[2] + 1>>[1] = u[1]
    BY <2>2, CyclesAreTimes DEF CycleOf, PairOf
  <2>4. IsOpen(u[1])' /\ IsOpen(u[1]) /\ PairOf(u) \in catalog
    BY <2>2, <2>3 DEF Open, IsOpen
  <2>5. PairOf(u) \in Open(catalog) /\ <<u[1], u[2] + 1>> \notin Open(catalog)
    BY <2>2, <2>3, <2>4 DEF Open, IsOpen
  <2>6. u[1] + MaxLead >= now
    BY <1>1, <2>2, <2>3, ScopeAssumption
  <2> QED
    BY <1>1, <2>2, <2>5, <2>6, PredecessorsAre
<1> QED
  BY <1>2

\* Nothing more is doomed, and only the doomed go.
LEMMA StillSafe ==
    ASSUME PInv, TInv', now' >= now, catalog' = catalog,
           \A c \in Cycles : IsOpen(c)' => IsOpen(c),
           Condemned' \subseteq Condemned, object \ Condemned \subseteq object'
    PROVE  PredecessorsSafe'
BY FewerWanted DEF PInv, PredecessorsSafe

\* A pass that goes on, or ends, with no more doomed than before.
LEMMA NoMoreCondemned ==
    ASSUME TInv, NEW w \in Workers, NEW r, SetWorker(w, r), r.doomed \subseteq worker[w].doomed
    PROVE  Condemned' \subseteq Condemned
BY DEF TInv, WorkersTyped, SetWorker, Condemned

LEMMA PublishSafe ==
    ASSUME PInv, TInv', NEW s \in Scope, Publish(s)
    PROVE  PredecessorsSafe'
<1>1. /\ now \in Nat /\ now' = now /\ lifecycle' = lifecycle /\ worker' = worker
      /\ catalog' = catalog \cup {s} /\ object' = object \cup UnitsOf({s})
      /\ Open(catalog) \in SUBSET Scope /\ Open(catalog)' \in SUBSET Scope
  BY DEF PInv, TInv, WorldTyped, Open, Publish
<1>2. Open(catalog) \subseteq Open(catalog)' /\ Open(catalog)' \subseteq Open(catalog) \cup {s}
  BY <1>1 DEF Open
<1>3. Condemned' = Condemned
  BY <1>1 DEF Condemned
<1>4. ASSUME NEW u \in PredecessorHolds(now, Open(catalog))'
      PROVE  u \in object' \ Condemned
  <2>1. u \in PredecessorHolds(now', Open(catalog)')
    BY <1>4 DEF PredecessorHolds
  <2>2. /\ u \in Units /\ u[3] \in Interval
        /\ PairOf(u) \in Open(catalog)' /\ <<u[1], u[2] + 1>> \notin Open(catalog)'
        /\ u[1] + MaxLead >= now /\ u[2] + 1 \in 1 .. MaxLead /\ (u[2] + 1) % 2 = 0
    BY <1>1, <2>1, PredecessorsAre
  <2>3. CASE PairOf(u) \in Open(catalog)
    <3>1. u \in PredecessorHolds(now, Open(catalog))
      BY <1>1, <1>2, <2>2, <2>3, PredecessorsAre
    <3> QED
      BY <1>1, <3>1 DEF PInv, PredecessorsSafe
  <2>4. CASE PairOf(u) = s
    <3>1. u \in UnitsOf({s}) /\ CycleOf(u) = s[1]
      BY <2>2, <2>4, UnitFacts
    <3>2. \A w \in Workers : worker[w].store # s[1]
      BY DEF Publish, MayWrite
    <3>3. u \notin Condemned
      BY <3>1, <3>2 DEF Condemned, PInv, TInv, WorkersTyped, PassSound
    <3> QED
      BY <1>1, <3>1, <3>3
  <2> QED
    BY <1>2, <2>2, <2>3, <2>4
<1> QED
  BY <1>3, <1>4 DEF PredecessorsSafe

\* The sweeper drops what is not open any more.
LEMMA SweepSafe ==
    ASSUME PInv, TInv', NEW c \in Cycles, Sweep(c)
    PROVE  PredecessorsSafe'
<1>1. Open(catalog)' = Open(catalog)
  BY DEF Sweep, Open, PairsOf, PInv, TInv, WorldTyped
<1>2. Condemned' = Condemned /\ object' = object /\ now' = now
  BY DEF Sweep, Condemned
<1>3. PredecessorHolds(now, Open(catalog))' = PredecessorHolds(now, Open(catalog))
  BY <1>1, <1>2 DEF PredecessorHolds
<1> QED
  BY <1>2, <1>3 DEF PInv, PredecessorsSafe

\* A worker judges with the window it started with and with every catalogued
\* cycle: what is wanted now was wanted then.
LEMMA JudgeSafe ==
    ASSUME PInv, TInv', NEW w \in Workers, Judge(w)
    PROVE  PredecessorsSafe'
<1> DEFINE T == Targets(w)
           needed == Necessary({u[3] : u \in T}, worker[w].start, catalog, Gone(w))
           D == T \ (needed \cup PairDeferred(T, needed))
<1>1. /\ SetWorker(w, [worker[w] EXCEPT !.at = "remove", !.doomed = D])
      /\ now' = now /\ catalog' = catalog /\ lifecycle' = lifecycle /\ object' = object
  BY Zenon DEF Judge, catalogVars
<1>2. D \cap PredecessorHolds(worker[w].start, catalog) = {}
  BY DEF Necessary
<1> HIDE DEF D
<1>3. Condemned' \subseteq Condemned \cup D
  BY <1>1 DEF PInv, TInv, WorkersTyped, Passes, SetWorker, Condemned
<1>4. /\ now \in Nat /\ worker[w].start \in Nat /\ worker[w].start <= now
      /\ catalog \in SUBSET Scope /\ Open(catalog) \in SUBSET Scope
  BY DEF PInv, TInv, WorldTyped, WorkersTyped, PassSound, Passes, Open
<1>5. ASSUME NEW u \in PredecessorHolds(now, Open(catalog))
      PROVE  u \in PredecessorHolds(worker[w].start, catalog)
  <2>1. /\ u \in Units /\ u[3] \in Interval
        /\ PairOf(u) \in Open(catalog) /\ <<u[1], u[2] + 1>> \notin Open(catalog)
        /\ u[1] + MaxLead >= now /\ u[2] + 1 \in 1 .. MaxLead /\ (u[2] + 1) % 2 = 0
    BY <1>4, <1>5, PredecessorsAre
  <2>2. PairOf(u) \in catalog /\ lifecycle[u[1]] = "open" /\ u[1] \in Nat
    BY <2>1, CyclesAreTimes DEF Open, PairOf, CycleOf
  <2>3. <<u[1], u[2] + 1>> \notin catalog
    BY <2>1, <2>2 DEF Open
  <2>4. u[1] + MaxLead >= worker[w].start
    BY <1>4, <2>1, <2>2, ScopeAssumption
  <2> QED
    BY <1>4, <2>1, <2>2, <2>3, <2>4, PredecessorsAre
<1>6. PredecessorHolds(now, Open(catalog))' = PredecessorHolds(now, Open(catalog))
  BY <1>1 DEF PredecessorHolds, Open
<1> QED
  BY <1>1, <1>2, <1>3, <1>5, <1>6 DEF PInv, PredecessorsSafe

\* Whatever else a worker does, or whatever it dies of.
LEMMA WorkerSafe ==
    ASSUME PInv, TInv', NEW w \in Workers, WorkerStep(w) \/ Crash(w)
    PROVE  PredecessorsSafe'
<1>1. CASE Judge(w)
  BY <1>1, JudgeSafe
<1>2. CASE ~Judge(w)
  <2> USE DEF catalogVars, daemonVars
  <2>1. /\ now \in Nat /\ worker[w] \in Passes /\ Idle.doomed = {}
        /\ worker[w].doomed \subseteq Condemned
    BY DEF PInv, TInv, WorldTyped, WorkersTyped, Idle, Condemned
  <2> DEFINE Calm == /\ UNCHANGED <<now, catalog, lifecycle>>
                     /\ object \ Condemned \subseteq object' /\ Condemned' \subseteq Condemned
  <2>2. ASSUME NEW S, LeaveStore(w, S) PROVE Condemned' \subseteq Condemned
    <3>1. PICK r : SetWorker(w, r) /\ r.doomed = {}
      <4> DEFINE r == [worker[w] EXCEPT !.at = "gate", !.store = NoCycle, !.left = @ \ S,
                                        !.doomed = {}]
      <4>1. SetWorker(w, IF r.left = {} THEN Idle ELSE r)
        BY <2>2 DEF LeaveStore, Leave
      <4>2. (IF r.left = {} THEN Idle ELSE r).doomed = {}
        BY <2>1 DEF Passes
      <4> HIDE DEF r
      <4> QED
        BY <4>1, <4>2
    <3> QED
      BY <3>1, NoMoreCondemned DEF PInv
  <2>3. ASSUME NothingToClaim(w) PROVE Calm
    BY <2>3 DEF NothingToClaim, Condemned
  <2>4. ASSUME Claim(w) PROVE Calm
    <3>1. PICK B : SetWorker(w, [Idle EXCEPT !.at = "gate", !.claimed = B, !.left = B, !.start = now])
      BY <2>4, Zenon DEF Claim
    <3>2. UNCHANGED <<now, catalog, lifecycle, object>>
      BY <2>4, Zenon DEF Claim
    <3> QED
      BY <2>1, <3>1, <3>2, NoMoreCondemned DEF PInv, Idle
  <2>5. ASSUME Crash(w) PROVE Calm
    <3>1. PICK S \in SUBSET (IF worker[w].at = "remove" THEN worker[w].doomed ELSE {}) :
            object' = object \ S
      BY <2>5, Zenon DEF Crash
    <3>2. SetWorker(w, Idle) /\ UNCHANGED <<now, catalog, lifecycle>>
      BY <2>5, Zenon DEF Crash
    <3> QED
      BY <2>1, <3>1, <3>2, NoMoreCondemned DEF PInv
  <2>6. ASSUME NEW c \in Cycles, EnterGate(w, c) PROVE Calm
    BY <2>1, <2>6, NoMoreCondemned DEF EnterGate, Passes, PInv
  <2>7. ASSUME NEW c \in Cycles, GateTimeout(w, c) PROVE Calm
    <3>1. PICK r : SetWorker(w, r) /\ r.doomed \subseteq worker[w].doomed
      <4> DEFINE r == [worker[w] EXCEPT !.left = @ \ Waiting(w, c)]
      <4>1. SetWorker(w, IF r.left = {} THEN Idle ELSE r)
        BY <2>7 DEF GateTimeout, Leave
      <4>2. (IF r.left = {} THEN Idle ELSE r).doomed \subseteq worker[w].doomed
        BY <2>1 DEF Passes
      <4> HIDE DEF r
      <4> QED
        BY <4>1, <4>2
    <3>2. UNCHANGED <<now, catalog, lifecycle, object>>
      BY <2>7 DEF GateTimeout
    <3> QED
      BY <3>1, <3>2, NoMoreCondemned DEF PInv
  <2>8. ASSUME SkipTombstoned(w) PROVE Calm
    BY <2>2, <2>8 DEF SkipTombstoned
  <2>9. ASSUME Clean(w) PROVE Calm
    BY <2>2, <2>9 DEF Clean
  <2>10. ASSUME Observe(w) PROVE Calm
    <3>1. UNCHANGED <<now, catalog, lifecycle, object>>
      BY <2>10, Zenon DEF Observe
    <3>2. \/ LeaveStore(w, Targets(w))
          \/ \E S : SetWorker(w, [worker[w] EXCEPT !.at = "judge", !.left = S])
      BY <2>10, Zenon DEF Observe
    <3>3. ASSUME NEW S, SetWorker(w, [worker[w] EXCEPT !.at = "judge", !.left = S])
          PROVE  Condemned' \subseteq Condemned
      BY <2>1, <3>3, NoMoreCondemned DEF Passes, PInv
    <3>4. Condemned' \subseteq Condemned
      BY <2>2, <3>2, <3>3, Zenon
    <3> QED
      BY <3>1, <3>4
  <2>11. ASSUME Remove(w) PROVE Calm
    <3>1. SetWorker(w, [worker[w] EXCEPT !.at = "mark"]) /\ UNCHANGED <<now, catalog, lifecycle>>
      BY <2>11 DEF Remove
    <3>2. object' = object \ worker[w].doomed \/ object' = object
      BY <2>11 DEF Remove
    <3> QED
      BY <2>1, <3>1, <3>2, NoMoreCondemned DEF Passes, PInv
  <2>12. ASSUME Mark(w) PROVE Calm
    BY <2>1, <2>12, NoMoreCondemned DEF Mark, Passes, PInv
  <2>13. Calm
    BY <1>2, <2>3, <2>4, <2>5, <2>6, <2>7, <2>8, <2>9, <2>10, <2>11, <2>12 DEF WorkerStep
  <2> QED
    BY <2>1, <2>13, StillSafe DEF IsOpen
<1> QED
  BY <1>1, <1>2

LEMMA StepKeepsPredecessors ==
    ASSUME MaxRewrites = 0, PInv, [Next]_vars
    PROVE  PInv'
<1>1. TInv' /\ TInv
  BY StepTyped DEF PInv
<1> USE DEF catalogVars, daemonVars
<1>2. CASE Surroundings
  <2>1. ASSUME NEW s \in Scope PROVE ~Lose(s)
    BY <1>1 DEF Lose, TInv, WorldTyped
  <2>2. CASE Advance \/ \E c \in Cycles : Bump(c)
    <3>1. /\ UNCHANGED <<catalog, lifecycle, worker, object>> /\ now' >= now
      BY <1>1, <2>2 DEF Advance, Bump, TInv, WorldTyped
    <3> QED
      BY <1>1, <3>1, StillSafe DEF PInv, Condemned, IsOpen
  <2> QED
    BY <1>1, <1>2, <2>1, <2>2, PublishSafe DEF Surroundings, PInv
<1>3. CASE DaemonStep
  <2>1. CASE \E c \in Cycles : Sweep(c)
    BY <1>1, <2>1, SweepSafe DEF PInv
  <2>2. CASE ~\E c \in Cycles : Sweep(c)
    <3>1. UNCHANGED <<catalog, worker, object, now>> /\ now' >= now
      BY <1>1, <1>3, <2>2 DEF DaemonStep, BeginPass, ClaimCycle, CheckTerminal, Tombstone, PlanRead,
                              Enqueue, EndPass, TInv, WorldTyped
    <3>2. \A c \in Cycles : IsOpen(c)' => IsOpen(c)
      BY <1>1, <1>3, <2>2 DEF DaemonStep, BeginPass, ClaimCycle, CheckTerminal, Tombstone, PlanRead,
                              Enqueue, EndPass, TInv, WorldTyped, IsOpen
    <3> QED
      BY <1>1, <3>1, <3>2, StillSafe DEF PInv, Condemned
  <2> QED
    BY <2>1, <2>2
<1>4. CASE OperatorStep \/ LeaseExpires \/ UNCHANGED vars
  <2>1. UNCHANGED <<catalog, lifecycle, worker, object, now>> /\ now' >= now
    BY <1>1, <1>4 DEF OperatorStep, RequeueRead, RequeueWrite, LeaseExpires, vars, TInv, WorldTyped
  <2> QED
    BY <1>1, <2>1, StillSafe DEF PInv, Condemned, IsOpen
<1>5. CASE \E w \in Workers : WorkerStep(w) \/ Crash(w)
  BY <1>1, <1>5, WorkerSafe DEF PInv
<1> QED
  BY <1>2, <1>3, <1>4, <1>5 DEF Next

LEMMA PredecessorsAtFirst == Init => PInv
<1> SUFFICES ASSUME Init PROVE PInv
  OBVIOUS
<1>1. TInv
  BY InitTyped
<1>2. Condemned = {} /\ catalog = Committed /\ object = UnitsOf(Committed)
  BY DEF Init, Condemned, Idle
<1>3. ASSUME NEW u \in PredecessorHolds(now, Open(catalog)) PROVE u \in object
  <2>1. now \in Nat /\ Open(catalog) \in SUBSET Scope /\ Open(catalog) \subseteq Committed
    BY <1>1, <1>2 DEF TInv, WorldTyped, Open
  <2>2. u \in Units /\ PairOf(u) \in Committed /\ Committed \in SUBSET Scope
    BY <1>3, <2>1, PredecessorsAre, ScopeAssumption
  <2> QED
    BY <1>2, <2>2, UnitFacts
<1> QED
  BY <1>1, <1>2, <1>3 DEF PInv, PredecessorsSafe

\* Where no wave loses a lead again, the field that an uncommitted reset lead
\* is to subtract stays as long as its cycle can be recovered, whatever dies,
\* times out or is requeued beside it: a worker judges with an older window
\* and with more cycles than are open, and no wave writes to the store that it
\* judges (planner.py: predecessor holds; worker.py: the store gate).
THEOREM PredecessorsStay ==
    ASSUME MaxRewrites = 0
    PROVE  Spec => []PredecessorKept
<1>1. PInv /\ [Next]_vars => PInv'
  BY StepKeepsPredecessors
<1>2. PInv => PredecessorKept
  BY DEF PInv, PredecessorsSafe, PredecessorKept
<1> QED
  BY PredecessorsAtFirst, <1>1, <1>2, PTL DEF Spec

----------------------------------------------------------------------------
(* Tombstones are true, one step for each action, when deletes do not fail  *)
(* and no wave loses a lead.                                                *)

\* Units that somebody deals with: a row, a batch, the planner, the operator.
Claimed == UNION {worker[w].claimed : w \in Workers}
Filed(u) == \/ row[u] # NoRow \/ u \in Claimed
            \/ \E c \in Cycles : <<u, c>> \in plan
            \/ \E s \in {"queued", "deleted"} : <<u, s>> \in requeued
Known(u) == PairOf(u) \in catalog \/ lifecycle[CycleOf(u)] = "swept"
\* Queued under another cycle's time, whose tombstone has closed the row.
Mislabelled(u) == row[u].cycle \in Cycles \ {CycleOf(u)} /\ lifecycle[row[u].cycle] = "deleted"

\* A lead is catalogued for as long as anything of it is there or filed, so no
\* wave writes it again.
AllKnown == \A u \in Units : u \in object \/ Filed(u) => Known(u)
\* Who is about to write `deleted' has seen that the object is gone.
GoneFirst ==
    /\ \A u \in object : <<u, "deleted">> \notin requeued
    /\ \A w \in Workers : worker[w].at = "mark" => worker[w].doomed \cap object = {}
DeletedIsGone ==
    \A u \in object : row[u].status = "deleted" /\ lifecycle[CycleOf(u)] \in {"open", "claimed"} =>
        Mislabelled(u)
\* What the bookkeeping has found stays so until the tombstone is set.
FoundTerminal ==
    /\ phase = "bookkeeping" => worker[Daemon].at = "idle"
    /\ terminal # NoCycle =>
        /\ phase = "bookkeeping" /\ terminal \in todo /\ lifecycle[terminal] = "claimed"
        /\ \A u \in object : CycleOf(u) = terminal => Mislabelled(u)
DInv == TInv /\ AllKnown /\ GoneFirst /\ DeletedIsGone /\ FoundTerminal

\* Steps that leave the cycles alone, write no object and delete no row of one.
LEMMA TruthKept ==
    ASSUME DInv, TInv', UNCHANGED <<catalog, lifecycle>>, object' \subseteq object,
           \A u \in Units : Filed(u)' => Filed(u) \/ Known(u),
           \A u \in Units : row[u] = NoRow \/ row'[u].cycle = row[u].cycle,
           \A u \in object' : row'[u].status = "deleted" => row[u].status = "deleted",
           GoneFirst',
           phase' = "bookkeeping" => worker'[Daemon].at = "idle",
           terminal' = NoCycle \/ UNCHANGED <<terminal, todo, phase>>
    PROVE  DInv'
<1>1. object' \subseteq Units /\ object \subseteq Units
  BY DEF DInv, TInv, WorldTyped
<1>2. AllKnown'
  BY <1>1 DEF DInv, AllKnown, Known
<1>3. \A u \in object' : Mislabelled(u) => Mislabelled(u)'
  BY <1>1, NoRowSound, NoCycleIsNone DEF Mislabelled
<1>4. DeletedIsGone'
  BY <1>3 DEF DInv, DeletedIsGone
<1>5. FoundTerminal'
  BY <1>3 DEF DInv, FoundTerminal
<1> QED
  BY <1>2, <1>4, <1>5 DEF DInv

LEMMA PublishTrue ==
    ASSUME DInv, TInv', NEW s \in Scope, Publish(s)
    PROVE  DInv'
<1>1. /\ catalog' = catalog \cup {s} /\ object' = object \cup UnitsOf({s}) /\ s \notin catalog
      /\ lifecycle[s[1]] = "open"
      /\ UNCHANGED <<lifecycle, row, phase, todo, terminal, plan, worker, requeued>>
  BY DEF Publish, MayWrite, daemonVars
<1>2. object \subseteq Units
  BY DEF DInv, TInv, WorldTyped
<1>3. ASSUME NEW u \in UnitsOf({s})
      PROVE  u \in Units /\ PairOf(u) = s /\ CycleOf(u) = s[1] /\ ~Known(u) /\ ~Filed(u) /\ u \notin object
  <2>1. u \in Units /\ PairOf(u) = s /\ CycleOf(u) = s[1]
    BY UnitFacts
  <2> QED
    BY <1>1, <2>1 DEF Known, DInv, AllKnown
<1>4. \A u : Filed(u)' <=> Filed(u)
  BY <1>1 DEF Filed, Claimed
<1>5. AllKnown'
  BY <1>1, <1>3, <1>4 DEF DInv, AllKnown, Known
<1>6. GoneFirst'
  <2>1. ASSUME NEW u \in UnitsOf({s})
        PROVE  <<u, "deleted">> \notin requeued /\ \A w \in Workers : u \notin worker[w].doomed
    <3>1. \A w \in Workers : worker[w].doomed \subseteq worker[w].claimed
      BY DEF DInv, TInv, WorkersTyped, PassSound
    <3>2. ~Filed(u)
      BY <1>3
    <3>3. \A w \in Workers : u \notin worker[w].claimed
      BY <3>2 DEF Filed, Claimed
    <3>4. <<u, "deleted">> \notin requeued
      BY <3>2 DEF Filed
    <3> QED
      BY <3>1, <3>3, <3>4
  <2> QED
    BY <1>1, <2>1 DEF DInv, GoneFirst
<1>7. DeletedIsGone'
  BY <1>1, <1>2, <1>3, NoRowSound DEF DInv, DeletedIsGone, Mislabelled, Filed
<1>8. FoundTerminal'
  BY <1>1, <1>2, <1>3 DEF DInv, FoundTerminal, Mislabelled
<1> QED
  BY <1>5, <1>6, <1>7, <1>8 DEF DInv

LEMMA ClaimCycleTrue ==
    ASSUME DInv, TInv', ClaimCycle
    PROVE  DInv'
<1> DEFINE c == NextCycle(todo)
<1>1. c \in Cycles /\ lifecycle[c] = "open"
  BY NextCycleIsOne DEF ClaimCycle, DInv, TInv, DaemonTyped
<1>2. /\ \/ lifecycle' = [lifecycle EXCEPT ![c] = "claimed"] /\ todo' = todo
         \/ lifecycle' = lifecycle /\ todo' = todo \ {c}
      /\ UNCHANGED <<catalog, object, row, phase, terminal, plan, worker, requeued>>
  BY DEF ClaimCycle, catalogVars
<1> HIDE DEF c
<1>3. /\ lifecycle \in [Cycles -> {"open", "claimed", "deleted", "swept"}]
      /\ object \subseteq Units /\ \A u \in Units : CycleOf(u) \in Cycles
  BY CyclesAreTimes DEF DInv, TInv, WorldTyped
<1>4. \A d \in Cycles : d # c => lifecycle'[d] = lifecycle[d]
  BY <1>2, <1>3
<1>5. lifecycle'[c] \in {"open", "claimed"}
  BY <1>1, <1>2, <1>3
<1>6. \A u \in object : Mislabelled(u) <=> Mislabelled(u)'
  BY <1>1, <1>2, <1>3, <1>4, <1>5 DEF Mislabelled
<1>7. AllKnown'
  <2>1. \A u : Filed(u)' <=> Filed(u)
    BY <1>2 DEF Filed, Claimed
  <2>2. \A u \in Units : Known(u)' <=> Known(u)
    BY <1>1, <1>2, <1>3, <1>4, <1>5 DEF Known
  <2> QED
    BY <1>2, <2>1, <2>2 DEF DInv, AllKnown
<1>8. GoneFirst'
  BY <1>2 DEF DInv, GoneFirst
<1>9. DeletedIsGone'
  <2>1. \A u \in object : lifecycle'[CycleOf(u)] \in {"open", "claimed"} =>
                          lifecycle[CycleOf(u)] \in {"open", "claimed"}
    BY <1>1, <1>3, <1>4
  <2> QED
    BY <1>2, <1>6, <2>1 DEF DInv, DeletedIsGone
<1>10. FoundTerminal'
  <2>1. ASSUME terminal # NoCycle PROVE terminal # c /\ terminal \in Cycles
    BY <1>1, <2>1 DEF DInv, FoundTerminal, TInv, DaemonTyped
  <2> QED
    BY <1>2, <1>4, <1>6, <2>1 DEF DInv, FoundTerminal
<1> QED
  BY <1>7, <1>8, <1>9, <1>10 DEF DInv

\* Every object of the cycle is catalogued, so its row is `deleted'.
LEMMA CheckTrue ==
    ASSUME DInv, TInv', CheckTerminal
    PROVE  DInv'
<1> DEFINE c == NextCycle(todo)
<1>1. c \in todo /\ c \in Cycles /\ lifecycle[c] = "claimed" /\ phase = "bookkeeping"
  BY NextCycleIsOne DEF CheckTerminal, DInv, TInv, DaemonTyped
<1>2. /\ \/ UnitsTerminal(c) /\ terminal' = c /\ todo' = todo
         \/ terminal' = terminal /\ todo' = todo \ {c}
      /\ terminal = NoCycle
      /\ UNCHANGED <<catalog, lifecycle, object, row, phase, plan, worker, requeued>>
  BY DEF CheckTerminal, catalogVars
<1> HIDE DEF c
<1>3. AllKnown' /\ GoneFirst' /\ DeletedIsGone'
  BY <1>2 DEF DInv, AllKnown, Known, Filed, Claimed, GoneFirst, DeletedIsGone, Mislabelled
<1>4. ASSUME UnitsTerminal(c), NEW u \in object, CycleOf(u) = c PROVE Mislabelled(u)
  <2>1. u \in Units /\ catalog \subseteq Scope
    BY DEF DInv, TInv, WorldTyped
  <2>2. PairOf(u) \in PairsOf(c)
    BY <1>1, <1>4, <2>1, UnitFacts DEF DInv, AllKnown, Known, PairsOf
  <2>3. u \in UnitsOf(PairsOf(c))
    BY <2>1, <2>2, UnitFacts DEF PairsOf
  <2>4. row[u].status = "deleted"
    BY <1>4, <2>3 DEF UnitsTerminal, InStatus
  <2> QED
    BY <1>1, <1>4, <2>4 DEF DInv, DeletedIsGone
<1>5. FoundTerminal'
  BY <1>1, <1>2, <1>4 DEF DInv, FoundTerminal, Mislabelled
<1> QED
  BY <1>3, <1>5 DEF DInv

\* The rows that a tombstone closes are its own or bear a wrong time.
LEMMA TombstoneTrue ==
    ASSUME DInv, TInv', Tombstone
    PROVE  DInv'
<1> DEFINE c == terminal
<1>1. c \in Cycles /\ lifecycle[c] = "claimed"
  BY DEF Tombstone, DInv, FoundTerminal, TInv, DaemonTyped
<1>2. /\ lifecycle' = [lifecycle EXCEPT ![c] = "deleted"] /\ terminal' = NoCycle
      /\ row' = [u \in Units |-> IF row[u].cycle = c THEN Closed(row[u]) ELSE row[u]]
      /\ UNCHANGED <<catalog, object, phase, plan, worker, requeued>>
  BY DEF Tombstone, catalogVars
<1> HIDE DEF c
<1>3. /\ lifecycle \in [Cycles -> {"open", "claimed", "deleted", "swept"}]
      /\ object \subseteq Units /\ \A u \in Units : CycleOf(u) \in Cycles /\ RowSound(row[u])
  BY CyclesAreTimes DEF DInv, TInv, WorldTyped, RowsTyped
<1>4. lifecycle'[c] = "deleted" /\ \A d \in Cycles : d # c => lifecycle'[d] = lifecycle[d]
  BY <1>1, <1>2, <1>3
<1>5. \A u \in Units : row'[u].cycle = row[u].cycle /\ (row'[u] # NoRow => row[u] # NoRow)
  BY <1>1, <1>2, <1>3, RowOps, NoRowSound, NoCycleIsNone
<1>6. \A u \in Units : row'[u].status = "deleted" => row[u].status = "deleted" \/ row[u].cycle = c
  BY <1>2
<1>7. AllKnown'
  <2>1. \A u \in Units : Filed(u)' => Filed(u)
    BY <1>2, <1>5 DEF Filed, Claimed
  <2>2. \A u \in Units : Known(u) => Known(u)'
    BY <1>1, <1>2, <1>3, <1>4 DEF Known
  <2> QED
    BY <1>2, <2>1, <2>2 DEF DInv, AllKnown
<1>8. GoneFirst'
  BY <1>2 DEF DInv, GoneFirst
<1>9. DeletedIsGone'
  <2>1. ASSUME NEW u \in object, row'[u].status = "deleted",
               lifecycle'[CycleOf(u)] \in {"open", "claimed"}
        PROVE  Mislabelled(u)'
    <3>1. u \in Units /\ CycleOf(u) # c /\ lifecycle[CycleOf(u)] \in {"open", "claimed"}
      BY <1>3, <1>4, <2>1
    <3>2. CASE row[u].cycle = c
      BY <1>1, <1>4, <1>5, <3>1, <3>2 DEF Mislabelled
    <3>3. CASE row[u].cycle # c
      <4>1. Mislabelled(u)
        BY <1>6, <2>1, <3>1, <3>3 DEF DInv, DeletedIsGone
      <4> QED
        BY <1>4, <1>5, <3>1, <3>3, <4>1 DEF Mislabelled
    <3> QED
      BY <3>2, <3>3
  <2> QED
    BY <1>2, <2>1 DEF DeletedIsGone
<1>10. FoundTerminal'
  BY <1>2 DEF DInv, FoundTerminal
<1> QED
  BY <1>7, <1>8, <1>9, <1>10 DEF DInv

\* With a swept cycle go the rows that bear its time.
LEMMA SweepTrue ==
    ASSUME DInv, TInv', NEW c \in Cycles, Sweep(c)
    PROVE  DInv'
<1>1. /\ phase = "sweeping" /\ lifecycle[c] = "deleted"
      /\ lifecycle' = [lifecycle EXCEPT ![c] = "swept"] /\ catalog' = catalog \ PairsOf(c)
      /\ row' = [u \in Units |-> IF CycleOf(u) = c \/ row[u].cycle = c THEN NoRow ELSE row[u]]
      /\ UNCHANGED <<object, phase, todo, terminal, plan, worker, requeued>>
  BY DEF Sweep, daemonVars
<1>2. /\ lifecycle \in [Cycles -> {"open", "claimed", "deleted", "swept"}]
      /\ object \subseteq Units /\ \A u \in Units : CycleOf(u) \in Cycles /\ CycleOf(u) = PairOf(u)[1]
  BY CyclesAreTimes, UnitFacts DEF DInv, TInv, WorldTyped
<1>3. lifecycle'[c] = "swept" /\ \A d \in Cycles : d # c => lifecycle'[d] = lifecycle[d]
  BY <1>1, <1>2
<1>4. AllKnown'
  <2>1. \A u \in Units : Filed(u)' => Filed(u)
    BY <1>1 DEF Filed, Claimed
  <2>2. \A u \in Units : Known(u) => Known(u)'
    BY <1>1, <1>2, <1>3 DEF Known, PairsOf
  <2> QED
    BY <1>1, <2>1, <2>2 DEF DInv, AllKnown
<1>5. GoneFirst'
  BY <1>1 DEF DInv, GoneFirst
<1>6. DeletedIsGone'
  <2>1. ASSUME NEW u \in object, row'[u].status = "deleted",
               lifecycle'[CycleOf(u)] \in {"open", "claimed"}
        PROVE  Mislabelled(u)'
    <3>1. u \in Units /\ row'[u] = row[u] /\ row[u].cycle # c /\ CycleOf(u) # c
      BY <1>1, <1>2, <2>1, NoRowSound
    <3>2. Mislabelled(u)
      BY <1>2, <1>3, <2>1, <3>1 DEF DInv, DeletedIsGone
    <3> QED
      BY <1>3, <3>1, <3>2 DEF Mislabelled
  <2> QED
    BY <1>1, <2>1 DEF DeletedIsGone
<1>7. FoundTerminal'
  BY <1>1 DEF DInv, FoundTerminal
<1> QED
  BY <1>4, <1>5, <1>6, <1>7 DEF DInv

\* The rest of the daemon's pass.
LEMMA PlannerTrue ==
    ASSUME DInv, TInv', BeginPass \/ PlanRead \/ Enqueue \/ EndPass
    PROVE  DInv'
<1> USE DEF catalogVars
<1>1. UNCHANGED <<catalog, lifecycle, object, worker, requeued, terminal>>
  BY DEF BeginPass, PlanRead, Enqueue, EndPass, daemonVars
<1>2. GoneFirst'
  BY <1>1 DEF DInv, GoneFirst
<1>3. phase' = "bookkeeping" => worker'[Daemon].at = "idle"
  BY <1>1 DEF BeginPass, PlanRead, Enqueue, EndPass, Idle
<1>4. terminal' = NoCycle
  BY <1>1 DEF BeginPass, PlanRead, Enqueue, EndPass, DInv, FoundTerminal
<1>5. CASE BeginPass \/ EndPass
  <2>1. UNCHANGED <<row, plan>>
    BY <1>5 DEF BeginPass, EndPass
  <2>2. \A u : Filed(u)' <=> Filed(u)
    BY <1>1, <2>1 DEF Filed, Claimed
  <2> QED
    BY <1>1, <1>2, <1>3, <1>4, <2>1, <2>2, TruthKept
<1>6. CASE PlanRead
  <2> DEFINE open == UnitsOf(Open(catalog))
             retired == {u \in UnitsOf(catalog) : lifecycle[CycleOf(u)] = "claimed"}
  <2>1. row' = row
    BY <1>6 DEF PlanRead
  <2>2. \A u, c : <<u, c>> \in plan' => u \in UnitsOf(catalog)
    <3>1. PICK label, held :
            plan' = {<<u, CycleOf(u)>> : u \in {x \in open \ held : row[x] = NoRow}}
                     \cup {<<u, label>> : u \in {x \in retired : row[x] = NoRow}}
      BY <1>6, Zenon DEF PlanRead
    <3>2. open \subseteq UnitsOf(catalog) /\ retired \subseteq UnitsOf(catalog)
      BY DEF UnitsOf, Open
    <3> HIDE DEF open, retired
    <3> QED
      BY <3>1, <3>2
  <2>3. \A u \in Units : u \in UnitsOf(catalog) => Known(u)
    BY UnitFacts DEF Known, DInv, TInv, WorldTyped
  <2>4. \A u \in Units : Filed(u)' => Filed(u) \/ Known(u)
    BY <1>1, <2>1, <2>2, <2>3 DEF Filed, Claimed
  <2> QED
    BY <1>1, <1>2, <1>3, <1>4, <2>1, <2>4, TruthKept
<1>7. CASE Enqueue
  <2>1. PICK seen : row' = [u \in Units |->
                IF row[u] = NoRow /\ \E p \in plan : p[1] = u
                THEN Row("queued", "none", seen[CycleOf(u)], (CHOOSE p \in plan : p[1] = u)[2])
                ELSE row[u]]
    BY <1>7, Zenon DEF Enqueue
  <2>2. plan' = {} /\ plan \subseteq Units \X Cycles
    BY <1>7 DEF Enqueue, DInv, TInv, DaemonTyped
  <2>3. \A u \in Units : (\E p \in plan : p[1] = u) => Filed(u)
    BY <2>2 DEF Filed
  <2>4. \A u \in Units : row[u] # NoRow => row'[u] = row[u]
    BY <2>1
  <2>5. \A u \in Units : row'[u] # NoRow => row[u] # NoRow \/ \E p \in plan : p[1] = u
    BY <2>1
  <2>6. \A u \in Units : Filed(u)' => Filed(u)
    BY <1>1, <2>2, <2>3, <2>5 DEF Filed, Claimed
  <2>7. \A u \in Units : row'[u].status = "deleted" => row[u].status = "deleted"
    BY <2>1 DEF Row
  <2>8. object \subseteq Units
    BY DEF DInv, TInv, WorldTyped
  <2> QED
    BY <1>1, <1>2, <1>3, <1>4, <2>4, <2>6, <2>7, <2>8, TruthKept
<1> QED
  BY <1>5, <1>6, <1>7

\* A pass that goes on, or ends, without a larger batch and short of its bookkeeping.
LEMMA PassTrue ==
    ASSUME DInv, TInv', NEW w \in Workers, NEW r, SetWorker(w, r),
           r.claimed \subseteq worker[w].claimed, r.at # "mark",
           UNCHANGED <<catalog, lifecycle, requeued, terminal, todo>>, plan' \subseteq plan,
           object' \subseteq object,
           phase' = phase \/ (phase # "bookkeeping" /\ phase' # "bookkeeping"),
           w = Daemon => phase # "bookkeeping",
           \A u \in Units : row'[u].cycle = row[u].cycle /\ (row'[u] # NoRow => row[u] # NoRow),
           \A u \in object' : row'[u].status = "deleted" => row[u].status = "deleted"
    PROVE  DInv'
<1>1. worker' = [worker EXCEPT ![w] = r] /\ worker \in [Workers -> Passes]
  BY DEF SetWorker, DInv, TInv, WorkersTyped
<1>2. worker'[w] = r /\ \A x \in Workers : x # w => worker'[x] = worker[x]
  BY <1>1
<1>3. Claimed' \subseteq Claimed
  BY <1>2 DEF Claimed
<1>4. \A u \in Units : Filed(u)' => Filed(u)
  BY <1>3 DEF Filed
<1>5. GoneFirst'
  BY <1>2 DEF DInv, GoneFirst
<1>6. phase' = "bookkeeping" => worker'[Daemon].at = "idle"
  BY <1>2, WorkersAssumption DEF DInv, FoundTerminal
<1>7. terminal' = NoCycle \/ UNCHANGED <<terminal, todo, phase>>
  BY DEF DInv, FoundTerminal
<1> QED
  BY <1>4, <1>5, <1>6, <1>7, TruthKept

\* Rows that go back to the queue.
LEMMA RequeueTrue ==
    ASSUME TInv, NEW S, Requeue(S)
    PROVE  \A u \in Units : /\ row'[u].cycle = row[u].cycle /\ (row'[u] # NoRow => row[u] # NoRow)
                            /\ row'[u].status = "deleted" => row[u].status = "deleted"
<1>1. \A u \in Units : RowSound(row[u])
  BY DEF TInv, RowsTyped
<1> QED
  BY <1>1, RowOps DEF Requeue

\* The daemon's worker is at work in no other stage than its own.
LEMMA WorkingNow ==
    ASSUME DInv, NEW w \in Workers, worker[w].at # "idle" \/ MayWork(w)
    PROVE  w = Daemon => phase # "bookkeeping"
BY DEF DInv, FoundTerminal, MayWork

LEMMA StoreLeftTrue ==
    ASSUME DInv, NEW w \in Workers, NEW S, LeaveStore(w, S)
    PROVE  /\ \E r : SetWorker(w, r) /\ r.claimed \subseteq worker[w].claimed /\ r.at # "mark"
           /\ phase' = phase \/ (w = Daemon /\ phase' = "sweeping")
<1> DEFINE r == [worker[w] EXCEPT !.at = "gate", !.store = NoCycle, !.left = @ \ S, !.doomed = {}]
<1>1. worker[w] \in Passes
  BY DEF DInv, TInv, WorkersTyped
<1>2. SetWorker(w, IF r.left = {} THEN Idle ELSE r)
  BY DEF LeaveStore, Leave
<1>3. LET s == IF r.left = {} THEN Idle ELSE r
      IN  s.claimed \subseteq worker[w].claimed /\ s.at # "mark"
  BY <1>1 DEF Passes, Idle
<1>4. phase' = phase \/ (w = Daemon /\ phase' = "sweeping")
  BY Zenon DEF LeaveStore, Leave
<1> HIDE DEF r
<1> QED
  BY <1>2, <1>3, <1>4

LEMMA WorkerTrue ==
    ASSUME "storage" \notin FaultKinds, DInv, TInv', NEW w \in Workers, WorkerStep(w) \/ Crash(w)
    PROVE  DInv'
<1> USE DEF catalogVars, daemonVars
<1>1. /\ worker[w] \in Passes /\ worker \in [Workers -> Passes] /\ object \subseteq Units
      /\ \A u \in Units : RowSound(row[u])
  BY DEF DInv, TInv, WorldTyped, WorkersTyped, RowsTyped
<1>w. worker[w].at # "idle" => (w = Daemon => phase # "bookkeeping")
  BY WorkingNow
<1>2. ASSUME NothingToClaim(w) PROVE DInv'
  <2>1. /\ UNCHANGED <<catalog, lifecycle, object, row, terminal, todo, plan, worker, requeued>>
        /\ phase' = "sweeping" /\ phase # "bookkeeping"
    BY <1>2 DEF NothingToClaim, MayWork
  <2>2. GoneFirst' /\ \A u : Filed(u)' <=> Filed(u)
    BY <2>1 DEF DInv, GoneFirst, Filed, Claimed
  <2>3. terminal' = NoCycle
    BY <2>1 DEF DInv, FoundTerminal
  <2> QED
    BY <2>1, <2>2, <2>3, TruthKept
<1>3. ASSUME Claim(w) PROVE DInv'
  <2>1. PICK B : /\ B \subseteq Claimable
                 /\ row' = [u \in Units |-> IF u \in B THEN FencedRow(row[u]) ELSE row[u]]
                 /\ SetWorker(w, [Idle EXCEPT !.at = "gate", !.claimed = B, !.left = B, !.start = now])
    <3>1. PICK B \in IF Cardinality(Claimable) <= BatchSize THEN {Claimable} ELSE Batches :
            /\ row' = [u \in Units |-> IF u \in B THEN FencedRow(row[u]) ELSE row[u]]
            /\ SetWorker(w, [Idle EXCEPT !.at = "gate", !.claimed = B, !.left = B, !.start = now])
      BY <1>3, Zenon DEF Claim
    <3>2. B \subseteq Claimable
      BY <3>1 DEF Batches
    <3> QED
      BY <3>1, <3>2
  <2>2. UNCHANGED <<catalog, lifecycle, object, phase, terminal, todo, plan, requeued>> /\ MayWork(w)
    BY <1>3, Zenon DEF Claim
  <2>3. worker'[w].at = "gate" /\ worker'[w].claimed = B /\ \A x \in Workers : x # w => worker'[x] = worker[x]
    BY <1>1, <2>1 DEF SetWorker, Idle
  <2>4. \A u \in Claimable : u \in Units /\ row[u] # NoRow
    BY NoRowSound DEF Claimable
  <2>5. Claimed' \subseteq Claimed \cup B
    BY <2>3 DEF Claimed
  <2>6. \A u \in Units : Filed(u)' => Filed(u)
    BY <2>1, <2>2, <2>4, <2>5 DEF Filed
  <2>7. GoneFirst'
    BY <2>2, <2>3 DEF DInv, GoneFirst
  <2>8. phase' = "bookkeeping" => worker'[Daemon].at = "idle"
    BY <2>2, <2>3, WorkingNow, WorkersAssumption DEF DInv, FoundTerminal
  <2>9. \A u \in Units : row'[u].cycle = row[u].cycle /\ (row'[u].status = "deleted" => row[u].status = "deleted")
    BY <1>1, <2>1, RowOps
  <2> QED
    BY <1>1, <2>2, <2>6, <2>7, <2>8, <2>9, TruthKept
<1>4. ASSUME NEW c \in Cycles, EnterGate(w, c) PROVE DInv'
  <2> DEFINE r == [worker[w] EXCEPT !.at = "observe", !.store = c]
  <2>1. /\ SetWorker(w, r) /\ worker[w].at = "gate"
        /\ UNCHANGED <<catalog, lifecycle, object, row, phase, terminal, todo, plan, requeued>>
    BY <1>4 DEF EnterGate
  <2>2. r.claimed \subseteq worker[w].claimed /\ r.at # "mark"
    BY <1>1 DEF Passes
  <2> HIDE DEF r
  <2>3. worker[w].at # "idle" /\ \A u \in Units : row'[u] = row[u]
    BY <2>1
  <2> QED
    BY <1>w, <2>1, <2>2, <2>3, PassTrue
<1>5. ASSUME NEW c \in Cycles, GateTimeout(w, c) PROVE DInv'
  <2> DEFINE r == [worker[w] EXCEPT !.left = @ \ Waiting(w, c)]
             s == IF r.left = {} THEN Idle ELSE r
  <2>1. /\ SetWorker(w, s) /\ worker[w].at = "gate" /\ Requeue(Waiting(w, c))
        /\ UNCHANGED <<catalog, lifecycle, object, terminal, todo, plan, requeued>>
    BY <1>5 DEF GateTimeout, Leave
  <2>2. s.claimed \subseteq worker[w].claimed /\ s.at # "mark"
    BY <1>1, <2>1 DEF Passes, Idle
  <2> HIDE DEF r, s
  <2>3. /\ \A u \in Units : row'[u].cycle = row[u].cycle /\ (row'[u] # NoRow => row[u] # NoRow)
        /\ \A u \in object' : row'[u].status = "deleted" => row[u].status = "deleted"
    BY <1>1, <2>1, RequeueTrue DEF DInv
  <2>4. phase' = phase \/ (w = Daemon /\ phase' = "sweeping")
    BY <1>5, Zenon DEF GateTimeout, Leave
  <2> QED
    BY <1>w, <2>1, <2>2, <2>3, <2>4, PassTrue
<1>6. ASSUME SkipTombstoned(w) PROVE DInv'
  <2>1. /\ worker[w].at = "observe" /\ Requeue(Targets(w)) /\ LeaveStore(w, Targets(w))
        /\ UNCHANGED <<catalog, lifecycle, object, terminal, todo, plan, requeued>>
    BY <1>6 DEF SkipTombstoned
  <2>2. /\ \A u \in Units : row'[u].cycle = row[u].cycle /\ (row'[u] # NoRow => row[u] # NoRow)
        /\ \A u \in object' : row'[u].status = "deleted" => row[u].status = "deleted"
    BY <1>1, <2>1, RequeueTrue DEF DInv
  <2> QED
    BY <2>1, <2>2, StoreLeftTrue, WorkingNow, PassTrue
<1>7. ASSUME Observe(w) PROVE DInv'
  <2>1. PICK current : row' = [u \in Units |->
                IF u \notin Targets(w) \/ row[u] = NoRow THEN row[u]
                ELSE IF u \in Deferred(w, current) THEN Queued(Rebased(row[u], current))
                ELSE Rebased(row[u], current)]
    BY <1>7, Zenon DEF Observe
  <2>2. /\ worker[w].at = "observe"
        /\ UNCHANGED <<catalog, lifecycle, object, terminal, todo, plan, requeued>>
    BY <1>7, Zenon DEF Observe
  <2>3. \/ LeaveStore(w, Targets(w))
        \/ (\E S : SetWorker(w, [worker[w] EXCEPT !.at = "judge", !.left = S])) /\ phase' = phase
    BY <1>7, Zenon DEF Observe
  <2>4. \A u \in Units : /\ row'[u].cycle = row[u].cycle /\ (row'[u] # NoRow => row[u] # NoRow)
                         /\ row'[u].status = "deleted" => row[u].status = "deleted"
    BY <1>1, <2>1 DEF Rebased, Queued, RowSound, Rows
  <2>5. CASE LeaveStore(w, Targets(w))
    BY <1>1, <2>2, <2>4, <2>5, StoreLeftTrue, WorkingNow, PassTrue
  <2>6. ASSUME NEW S, SetWorker(w, [worker[w] EXCEPT !.at = "judge", !.left = S]), phase' = phase
        PROVE  DInv'
    <3> DEFINE r == [worker[w] EXCEPT !.at = "judge", !.left = S]
    <3>1. SetWorker(w, r) /\ r.claimed \subseteq worker[w].claimed /\ r.at # "mark"
      BY <1>1, <2>6 DEF Passes
    <3> HIDE DEF r
    <3>2. worker[w].at # "idle" /\ object' \subseteq Units
      BY <1>1, <2>2
    <3> QED
      BY <1>w, <2>2, <2>4, <2>6, <3>1, <3>2, PassTrue
  <2> QED
    BY <2>3, <2>5, <2>6, Zenon
<1>8. ASSUME Judge(w) PROVE DInv'
  <2>1. PICK D : SetWorker(w, [worker[w] EXCEPT !.at = "remove", !.doomed = D])
    BY <1>8, Zenon DEF Judge
  <2>2. /\ worker[w].at = "judge"
        /\ UNCHANGED <<catalog, lifecycle, object, row, phase, terminal, todo, plan, requeued>>
    BY <1>8, Zenon DEF Judge
  <2> DEFINE r == [worker[w] EXCEPT !.at = "remove", !.doomed = D]
  <2>3. SetWorker(w, r) /\ r.claimed \subseteq worker[w].claimed /\ r.at # "mark"
    BY <1>1, <2>1 DEF Passes
  <2> HIDE DEF r
  <2>4. worker[w].at # "idle" /\ \A u \in Units : row'[u] = row[u]
    BY <2>2
  <2> QED
    BY <1>w, <2>2, <2>3, <2>4, PassTrue
<1>9. ASSUME Remove(w) PROVE DInv'
  <2>1. /\ worker[w].at = "remove" /\ object' = object \ worker[w].doomed
        /\ worker' = [worker EXCEPT ![w] = [worker[w] EXCEPT !.at = "mark"]]
        /\ UNCHANGED <<catalog, lifecycle, row, phase, terminal, todo, plan, requeued>>
    BY <1>9 DEF Remove, MayFault, SetWorker
  <2>2. /\ worker'[w].at = "mark" /\ worker'[w].doomed = worker[w].doomed
        /\ worker'[w].claimed = worker[w].claimed
        /\ \A x \in Workers : x # w => worker'[x] = worker[x]
    BY <1>1, <2>1 DEF Passes
  <2>3. Claimed' \subseteq Claimed
    BY <2>2 DEF Claimed
  <2>4. GoneFirst'
    BY <2>1, <2>2 DEF DInv, GoneFirst
  <2>5. phase' = "bookkeeping" => worker'[Daemon].at = "idle"
    BY <2>1, <2>2, WorkersAssumption DEF DInv, FoundTerminal
  <2>6. \A u : Filed(u)' => Filed(u)
    BY <2>1, <2>3 DEF Filed
  <2> QED
    BY <2>1, <2>4, <2>5, <2>6, TruthKept
<1>10. ASSUME Mark(w) PROVE DInv'
  <2> DEFINE r == [worker[w] EXCEPT !.at = "clean"]
  <2>1. /\ worker[w].at = "mark" /\ SetWorker(w, r)
        /\ row' = [u \in Units |->
              IF u \notin Targets(w) \/ row[u] = NoRow THEN row[u]
              ELSE IF u \in worker[w].doomed THEN Done(row[u]) ELSE Queued(row[u])]
        /\ UNCHANGED <<catalog, lifecycle, object, phase, terminal, todo, plan, requeued>>
    BY <1>10 DEF Mark
  <2>2. r.claimed \subseteq worker[w].claimed /\ r.at # "mark"
    BY <1>1 DEF Passes
  <2>3. \A u \in object : u \notin worker[w].doomed
    BY <2>1 DEF DInv, GoneFirst
  <2>4. \A u \in Units : row'[u].cycle = row[u].cycle /\ (row'[u] # NoRow => row[u] # NoRow)
    BY <1>1, <2>1, RowOps
  <2>5. \A u \in object' : row'[u].status = "deleted" => row[u].status = "deleted"
    BY <1>1, <2>1, <2>3, RowOps
  <2> HIDE DEF r
  <2>6. worker[w].at # "idle"
    BY <2>1
  <2> QED
    BY <1>w, <2>1, <2>2, <2>4, <2>5, <2>6, PassTrue
<1>11. ASSUME Clean(w) PROVE DInv'
  <2>1. /\ worker[w].at = "clean" /\ LeaveStore(w, Targets(w))
        /\ UNCHANGED <<catalog, lifecycle, object, row, terminal, todo, plan, requeued>>
    BY <1>11 DEF Clean
  <2> QED
    BY <2>1, StoreLeftTrue, WorkingNow, PassTrue
<1>12. ASSUME Crash(w) PROVE DInv'
  <2>1. /\ worker' = [worker EXCEPT ![w] = Idle] /\ UNCHANGED <<catalog, lifecycle, row, requeued>>
        /\ \/ w = Daemon /\ phase' = "idle" /\ terminal' = NoCycle /\ plan' = {}
           \/ w # Daemon /\ UNCHANGED <<phase, todo, terminal, plan>>
    BY <1>12, Zenon DEF Crash, SetWorker
  <2>2. object' \subseteq object
    BY <1>12 DEF Crash
  <2>3. /\ worker'[w].at = "idle" /\ worker'[w].claimed = {}
        /\ \A x \in Workers : x # w => worker'[x] = worker[x]
    BY <1>1, <2>1 DEF Idle
  <2>4. Claimed' \subseteq Claimed
    BY <2>3 DEF Claimed
  <2>5. \A u : Filed(u)' => Filed(u)
    BY <2>1, <2>4 DEF Filed
  <2>6. GoneFirst'
    BY <2>1, <2>2, <2>3 DEF DInv, GoneFirst
  <2>7. phase' = "bookkeeping" => worker'[Daemon].at = "idle"
    BY <2>1, <2>3, WorkersAssumption DEF DInv, FoundTerminal
  <2>8. terminal' = NoCycle \/ UNCHANGED <<terminal, todo, phase>>
    BY <2>1
  <2>9. \A u \in Units : row'[u] = row[u]
    BY <2>1
  <2> QED
    BY <1>1, <2>1, <2>2, <2>5, <2>6, <2>7, <2>8, <2>9, TruthKept
<1> QED
  BY <1>2, <1>3, <1>4, <1>5, <1>6, <1>7, <1>8, <1>9, <1>10, <1>11, <1>12 DEF WorkerStep

\* What the operator has not found is not there, and does not come back.
LEMMA OperatorTrue ==
    ASSUME "storage" \notin FaultKinds, DInv, TInv', OperatorStep \/ LeaseExpires
    PROVE  DInv'
<1> USE DEF catalogVars, daemonVars
<1>1. UNCHANGED <<catalog, lifecycle, object, phase, todo, terminal, plan, worker>>
  BY DEF OperatorStep, RequeueRead, RequeueWrite, LeaseExpires
<1>2. object \subseteq Units /\ \A u \in Units : RowSound(row[u])
  BY DEF DInv, TInv, WorldTyped, RowsTyped
<1>3. phase' = "bookkeeping" => worker'[Daemon].at = "idle"
  BY <1>1 DEF DInv, FoundTerminal
<1>4. Claimed' = Claimed
  BY <1>1 DEF Claimed
<1>5. CASE RequeueRead
  <2>1. /\ row' = row
        /\ requeued' =
               {<<u, "queued">> : u \in {x \in Units \cap object :
                        row[x].status = "deleting" /\ row[x].lease = "expired"}}
               \cup {<<u, "deleted">> : u \in {x \in Units \ object :
                        row[x].status \in {"queued", "deleting"} /\ row[x].lease # "live"}}
    BY <1>5 DEF RequeueRead, MayFault
  <2>2. \A u \in object : <<u, "deleted">> \notin requeued'
    BY <2>1
  <2>3. \A u, s : <<u, s>> \in requeued' => row[u] # NoRow
    BY <2>1, NoRowSound
  <2>4. GoneFirst'
    BY <1>1, <2>2 DEF DInv, GoneFirst
  <2>5. \A u \in Units : Filed(u)' => Filed(u)
    BY <1>1, <1>4, <2>1, <2>3 DEF Filed
  <2> QED
    BY <1>1, <1>3, <2>1, <2>4, <2>5, TruthKept
<1>6. CASE RequeueWrite
  <2>1. /\ requeued' = {}
        /\ row' = [u \in Units |->
               IF row[u] = NoRow THEN NoRow
               ELSE IF <<u, "queued">> \in requeued THEN Queued(row[u])
               ELSE IF <<u, "deleted">> \in requeued THEN Done(row[u])
               ELSE row[u]]
    BY <1>6 DEF RequeueWrite
  <2>2. \A u \in Units : row'[u].cycle = row[u].cycle /\ (row'[u] # NoRow => row[u] # NoRow)
    BY <1>2, <2>1, RowOps
  <2>3. \A u \in object : row'[u].status = "deleted" => row[u].status = "deleted"
    BY <1>2, <2>1, RowOps DEF DInv, GoneFirst
  <2>4. GoneFirst'
    BY <1>1, <2>1 DEF DInv, GoneFirst
  <2>5. \A u \in Units : Filed(u)' => Filed(u)
    BY <1>1, <1>4, <2>1, <2>2 DEF Filed
  <2> QED
    BY <1>1, <1>3, <2>2, <2>3, <2>4, <2>5, TruthKept
<1>7. CASE LeaseExpires
  <2>1. /\ requeued' = requeued
        /\ row' = [u \in Units |-> IF u \in Orphans THEN [row[u] EXCEPT !.lease = "expired"]
                                  ELSE row[u]]
    BY <1>7 DEF LeaseExpires
  <2>2. \A u \in Orphans : row[u].lease = "live"
    BY DEF Orphans, Leases
  <2>3. \A u \in Units : /\ row'[u].cycle = row[u].cycle /\ (row'[u] # NoRow => row[u] # NoRow)
                         /\ row'[u].status = row[u].status
    BY <1>2, <2>1, <2>2, NoRowSound DEF RowSound, Rows
  <2>4. GoneFirst'
    BY <1>1, <2>1 DEF DInv, GoneFirst
  <2>5. \A u \in Units : Filed(u)' => Filed(u)
    BY <1>1, <1>4, <2>1, <2>3 DEF Filed
  <2> QED
    BY <1>1, <1>2, <1>3, <2>3, <2>4, <2>5, TruthKept
<1> QED
  BY <1>5, <1>6, <1>7 DEF OperatorStep

LEMMA StepKeepsTruth ==
    ASSUME MaxRewrites = 0, "storage" \notin FaultKinds, DInv, [Next]_vars
    PROVE  DInv'
<1> USE DEF catalogVars, daemonVars
<1>1. TInv' /\ TInv
  BY StepTyped DEF DInv
<1>2. ASSUME NEW s \in Scope PROVE ~Lose(s)
  BY <1>1 DEF Lose, TInv, WorldTyped
<1>3. CASE Advance \/ (\E c \in Cycles : Bump(c)) \/ UNCHANGED vars
  <2>1. UNCHANGED <<catalog, lifecycle, object, row, phase, todo, terminal, plan, worker, requeued>>
    BY <1>3 DEF Advance, Bump, vars
  <2>2. \A u : Filed(u)' <=> Filed(u)
    BY <2>1 DEF Filed, Claimed
  <2>3. GoneFirst' /\ (phase' = "bookkeeping" => worker'[Daemon].at = "idle")
    BY <2>1 DEF DInv, GoneFirst, FoundTerminal
  <2> QED
    BY <1>1, <2>1, <2>2, <2>3, TruthKept
<1>4. CASE \E s \in Scope : Publish(s)
  BY <1>1, <1>4, PublishTrue
<1>5. CASE DaemonStep
  BY <1>1, <1>5, ClaimCycleTrue, CheckTrue, TombstoneTrue, SweepTrue, PlannerTrue DEF DaemonStep
<1>6. CASE OperatorStep \/ LeaseExpires
  BY <1>1, <1>6, OperatorTrue
<1>7. CASE \E w \in Workers : WorkerStep(w) \/ Crash(w)
  BY <1>1, <1>7, WorkerTrue
<1> QED
  BY <1>2, <1>3, <1>4, <1>5, <1>6, <1>7 DEF Next, Surroundings

LEMMA TruthAtFirst == Init => DInv
<1> SUFFICES ASSUME Init PROVE DInv
  OBVIOUS
<1>1. TInv
  BY InitTyped
<1>2. /\ catalog = Committed /\ object = UnitsOf(Committed) /\ requeued = {} /\ plan = {}
      /\ terminal = NoCycle /\ phase = "idle" /\ \A u \in Units : row[u] = NoRow
      /\ \A w \in Workers : worker[w] = Idle
  BY DEF Init
<1>3. Claimed = {}
  BY <1>2 DEF Claimed, Idle
<1>4. AllKnown
  BY <1>2, <1>3, UnitFacts, ScopeAssumption DEF AllKnown, Known, Filed
<1>5. GoneFirst
  BY <1>2 DEF GoneFirst, Idle
<1>6. DeletedIsGone
  BY <1>1, <1>2, NoRowSound DEF DeletedIsGone, TInv, WorldTyped
<1>7. FoundTerminal
  BY <1>2, WorkersAssumption DEF FoundTerminal, Idle
<1> QED
  BY <1>1, <1>4, <1>5, <1>6, <1>7 DEF DInv

\* Only the tombstone makes a claimed cycle a deleted one.
LEMMA StepIsTrue ==
    ASSUME DInv, [Next]_vars, NEW u \in object,
           lifecycle[CycleOf(u)] = "claimed", lifecycle'[CycleOf(u)] = "deleted"
    PROVE  Mislabelled(u)
<1> USE DEF catalogVars, daemonVars
<1>1. /\ u \in Units /\ CycleOf(u) \in Cycles
      /\ lifecycle \in [Cycles -> {"open", "claimed", "deleted", "swept"}]
  BY CyclesAreTimes DEF DInv, TInv, WorldTyped
<1>2. CASE Tombstone
  <2>1. lifecycle' = [lifecycle EXCEPT ![terminal] = "deleted"] /\ terminal # NoCycle
    BY <1>2 DEF Tombstone
  <2>2. CycleOf(u) = terminal
    BY <1>1, <2>1
  <2> QED
    BY <2>1, <2>2 DEF DInv, FoundTerminal
<1>3. CASE ClaimCycle \/ \E c \in Cycles : Sweep(c)
  <2>1. \/ lifecycle' = lifecycle
        \/ \E c : lifecycle' = [lifecycle EXCEPT ![c] = "claimed"]
        \/ \E c : lifecycle' = [lifecycle EXCEPT ![c] = "swept"]
    BY <1>3 DEF ClaimCycle, Sweep
  <2> QED
    BY <1>1, <2>1
<1>4. CASE lifecycle' = lifecycle
  BY <1>4
<1>5. Surroundings \/ OperatorStep \/ LeaseExpires \/ UNCHANGED vars => lifecycle' = lifecycle
  BY DEF Surroundings, Advance, Publish, Lose, Bump, OperatorStep, RequeueRead, RequeueWrite,
         LeaseExpires, vars
<1>6. DaemonStep => lifecycle' = lifecycle \/ Tombstone \/ ClaimCycle \/ \E c \in Cycles : Sweep(c)
  BY DEF DaemonStep, BeginPass, CheckTerminal, PlanRead, Enqueue, EndPass
<1>7. ASSUME NEW w \in Workers, WorkerStep(w) \/ Crash(w) PROVE lifecycle' = lifecycle
  BY <1>7 DEF WorkerStep, NothingToClaim, Claim, EnterGate, GateTimeout, SkipTombstoned, Observe,
              Judge, Remove, Mark, Clean, Crash
<1> QED
  BY <1>2, <1>3, <1>4, <1>5, <1>6, <1>7 DEF Next

\* Where no storage call fails (a failed delete counts as done) and no wave loses
\* a lead again, a tombstone leaves nothing behind but units that were queued under
\* another cycle's time, whose tombstone has closed their rows: through crashes
\* at any step, operator requeues, batches that split a cycle and any number of
\* cycles that expire together (finalizer.py: check_units_terminal, the
\* normalization of a tombstone's rows; planner.py: the time retired units are
\* queued with; worker.py: the deletes before the bookkeeping).
THEOREM TombstonesTrue ==
    ASSUME MaxRewrites = 0, "storage" \notin FaultKinds
    PROVE  Spec => TombstoneIsTrue
<1>1. DInv /\ [Next]_vars => DInv'
  BY StepKeepsTruth
<1>2. DInv /\ [Next]_vars =>
        [\A u \in object : lifecycle[CycleOf(u)] = "claimed" /\ lifecycle'[CycleOf(u)] = "deleted" =>
            /\ row[u].cycle \in Cycles \ {CycleOf(u)}
            /\ lifecycle[row[u].cycle] = "deleted"]_vars
  BY StepIsTrue DEF Mislabelled
<1> QED
  BY TruthAtFirst, <1>1, <1>2, PTL DEF Spec, TombstoneIsTrue

----------------------------------------------------------------------------
(* What is gone is fenced, one step for each action, when no process dies   *)
(* and nobody requeues by hand.                                             *)

LEMMA HoldingFacts ==
    ASSUME TInv, NEW w \in Workers, NEW u
    PROVE  /\ Holding(w, u) => u \in worker[w].left /\ u \in worker[w].claimed
           /\ worker[w].at # "clean" => (Holding(w, u) <=> u \in worker[w].left)
           /\ Targets(w) \subseteq Units /\ worker[w].left \subseteq Units
BY DEF TInv, WorkersTyped, PassSound, Passes, Holding, Targets

\* Rows and passes stay as they are.
LEMMA QuietKeeps ==
    ASSUME FInv, TInv', UNCHANGED <<row, worker, requeued>>, LabelsOwn',
           \A u \in Units : IsOpen(CycleOf(u))' => IsOpen(CycleOf(u)),
           \A u \in Units : Served(u)' => Served(u) \/ u \in object',
           object \subseteq object'
    PROVE  FInv'
<1>1. \A w \in Workers : \A u \in Units : Holding(w, u)' <=> Holding(w, u)
  BY DEF Holding
<1>2. \A u \in Units : Served(u) => IsOpen(CycleOf(u))
  BY DEF Served
<1>3. LeasesHeld' /\ HeldFenced' /\ HeldOnce'
  BY <1>1 DEF FInv, LeasesHeld, HeldFenced, HeldOnce
<1>4. HeldPresent' /\ ServedFenced'
  BY <1>1 DEF FInv, HeldPresent, ServedFenced
<1> QED
  BY <1>3, <1>4 DEF FInv

\* One worker goes on with what it holds, or gives some of it back.
LEMMA HandOver ==
    ASSUME FInv, TInv', NEW w \in Workers, UNCHANGED <<lifecycle, catalog, requeued, plan, terminal>>,
           \A v \in Workers \ {w} : worker'[v] = worker[v],
           \A u \in Units : Holding(w, u)' => Holding(w, u),
           \A u \in Units : ~Holding(w, u) => row'[u] = row[u] /\ (u \in object => u \in object'),
           \A u \in Units : row'[u] = NoRow \/ (row[u] # NoRow /\ row'[u].cycle = row[u].cycle),
           \A u \in Units : row'[u].lease = row[u].lease \/ row'[u].lease = "none",
           \A u \in Units : Holding(w, u) /\ row'[u].lease = "live" => Holding(w, u)',
           \A u \in Units : Holding(w, u)' /\ IsOpen(CycleOf(u)) => row'[u].status = "deleting",
           \A u \in Units : Holding(w, u)' /\ Served(u) /\ u \notin worker'[w].doomed => u \in object',
           \A u \in Units : Holding(w, u) /\ Served(u) =>
                              u \in object' \/ row'[u].status \in {"deleting", "deleted"}
    PROVE  FInv'
<1>1. \A u \in Units : (Served(u)' <=> Served(u)) /\ (IsOpen(CycleOf(u))' <=> IsOpen(CycleOf(u)))
  BY DEF Served, IsOpen
<1>2. \A v \in Workers \ {w} : \A u \in Units : Holding(v, u)' <=> Holding(v, u)
  BY DEF Holding
<1>3. LabelsOwn'
  BY DEF FInv, LabelsOwn, IsOpen
<1>4. LeasesHeld'
  <2> SUFFICES ASSUME NEW u \in Units
               PROVE  /\ row'[u].lease # "expired"
                      /\ row'[u].lease = "live" => \E v \in Workers : Holding(v, u)'
    BY DEF LeasesHeld
  <2>1. row'[u].lease # "expired" /\ (row'[u].lease = "live" => row[u].lease = "live")
    BY DEF FInv, LeasesHeld
  <2> QED
    BY <1>2, <2>1 DEF FInv, LeasesHeld
<1>5. \A v \in Workers \ {w} : \A u \in Units :
        Holding(v, u) /\ IsOpen(CycleOf(u)) => ~Holding(w, u)
  BY DEF FInv, HeldOnce
<1>6. HeldFenced' /\ HeldOnce'
  BY <1>1, <1>2, <1>5 DEF FInv, HeldFenced, HeldOnce
<1>7. HeldPresent'
  <2>1. \A u \in Units : Served(u) => IsOpen(CycleOf(u))
    BY DEF Served
  <2> QED
    BY <1>1, <1>2, <1>5, <2>1 DEF FInv, HeldPresent
<1>8. ServedFenced'
  BY <1>1 DEF FInv, ServedFenced
<1> QED
  BY <1>3, <1>4, <1>6, <1>7, <1>8 DEF FInv

LEMMA SurroundingsKeep ==
    ASSUME FInv, TInv', Surroundings \/ BeginPass \/ CheckTerminal \/ EndPass \/ ClaimCycle
    PROVE  FInv'
<1> USE DEF catalogVars, daemonVars
<1>1. CASE Advance \/ BeginPass \/ EndPass
  <2>1. UNCHANGED <<row, worker, requeued, plan, terminal, lifecycle, catalog, object>>
    BY <1>1 DEF Advance, BeginPass, EndPass
  <2>2. LabelsOwn'
    BY <2>1 DEF FInv, LabelsOwn, IsOpen
  <2> QED
    BY <2>1, <2>2, QuietKeeps DEF Served, IsOpen
<1>2. ASSUME NEW s \in Scope, Publish(s) \/ Lose(s) PROVE FInv'
  <2>1. /\ UNCHANGED <<row, worker, requeued, plan, terminal, lifecycle>>
        /\ object \subseteq object' /\ catalog' \subseteq catalog \cup {s}
        /\ catalog' \subseteq catalog \/ UnitsOf({s}) \subseteq object'
    BY <1>2 DEF Publish, Lose
  <2>2. LabelsOwn'
    BY <2>1 DEF FInv, LabelsOwn, IsOpen
  <2>3. \A u \in Units : Served(u)' => Served(u) \/ u \in object'
    <3>1. \A u \in Units : PairOf(u) = s => u \in UnitsOf({s})
      BY UnitFacts
    <3> QED
      BY <2>1, <3>1 DEF Served, IsOpen
  <2> QED
    BY <2>1, <2>2, <2>3, QuietKeeps DEF IsOpen
<1>3. ASSUME NEW c \in Cycles, Bump(c) PROVE FInv'
  <2>1. UNCHANGED <<row, worker, requeued, plan, terminal, lifecycle, catalog, object>>
    BY <1>3 DEF Bump
  <2>2. LabelsOwn'
    BY <2>1 DEF FInv, LabelsOwn, IsOpen
  <2> QED
    BY <2>1, <2>2, QuietKeeps DEF Served, IsOpen
<1>4. CASE CheckTerminal
  <2>1. UNCHANGED <<row, worker, requeued, plan, lifecycle, catalog, object>>
    BY <1>4 DEF CheckTerminal
  <2>2. LabelsOwn'
    BY <1>4, <2>1 DEF CheckTerminal, FInv, LabelsOwn, IsOpen
  <2> QED
    BY <2>1, <2>2, QuietKeeps DEF Served, IsOpen
<1>5. CASE ClaimCycle
  <2>1. UNCHANGED <<row, worker, requeued, plan, terminal, catalog, object>>
    BY <1>5 DEF ClaimCycle
  <2>2. \A c \in Cycles : IsOpen(c)' => IsOpen(c)
    BY <1>5 DEF ClaimCycle, FInv, TInv, WorldTyped, IsOpen
  <2>3. LabelsOwn'
    <3>1. /\ terminal \in Cycles \cup {NoCycle}
          /\ \A p \in plan : CycleOf(p[1]) \in Cycles
      BY CyclesAreTimes DEF FInv, TInv, DaemonTyped
    <3> QED
      BY <2>1, <2>2, <3>1, CyclesAreTimes DEF FInv, LabelsOwn
  <2> QED
    BY <2>1, <2>2, <2>3, CyclesAreTimes, QuietKeeps DEF Served
<1> QED
  BY <1>1, <1>2, <1>3, <1>4, <1>5 DEF Surroundings

LEMMA PlanReadKeeps ==
    ASSUME FInv, TInv', PlanRead
    PROVE  FInv'
<1>1. UNCHANGED <<row, worker, requeued, terminal, lifecycle, catalog, object>>
  BY DEF PlanRead, catalogVars
<1>2. \A p \in plan' : p[2] = CycleOf(p[1]) \/ ~IsOpen(CycleOf(p[1]))
  BY DEF PlanRead, IsOpen
<1>3. LabelsOwn'
  BY <1>1, <1>2 DEF FInv, LabelsOwn, IsOpen
<1> QED
  BY <1>1, <1>3, QuietKeeps DEF Served, IsOpen

\* The daemon's changes of rows leave the rows of open cycles alone.
LEMMA RowsKeep ==
    ASSUME FInv, TInv', UNCHANGED <<worker, requeued, object>>, LabelsOwn',
           \A u \in Units : IsOpen(CycleOf(u))' => IsOpen(CycleOf(u)),
           \A u \in Units : Served(u)' => Served(u),
           \A u \in Units : row'[u].lease \in {row[u].lease, "none"},
           \A u \in Units : IsOpen(CycleOf(u))' => row'[u] = row[u] \/ row[u] = NoRow
    PROVE  FInv'
<1>1. \A w \in Workers : \A u \in Units : Holding(w, u)' <=> Holding(w, u)
  BY DEF Holding
<1>2. \A u \in Units : Served(u)' => IsOpen(CycleOf(u))'
  BY DEF Served
<1>3. LeasesHeld'
  BY <1>1 DEF FInv, LeasesHeld
<1>4. HeldFenced' /\ HeldOnce' /\ HeldPresent' /\ ServedFenced'
  BY <1>1, <1>2, NoRowSound DEF FInv, HeldFenced, HeldOnce, HeldPresent, ServedFenced
<1> QED
  BY <1>3, <1>4 DEF FInv

LEMMA EnqueueKeeps ==
    ASSUME FInv, TInv', Enqueue
    PROVE  FInv'
<1>1. UNCHANGED <<worker, requeued, terminal, lifecycle, catalog, object>> /\ plan' = {}
  BY DEF Enqueue, catalogVars
<1>2. ASSUME NEW u \in Units
      PROVE  \/ row'[u] = row[u]
             \/ /\ row[u] = NoRow /\ row'[u].lease = "none"
                /\ IsOpen(CycleOf(u)) => row'[u].cycle = CycleOf(u)
  <2>1. PICK seen : row' = [x \in Units |->
             IF row[x] = NoRow /\ \E p \in plan : p[1] = x
             THEN Row("queued", "none", seen[CycleOf(x)], (CHOOSE p \in plan : p[1] = x)[2])
             ELSE row[x]]
    BY DEF Enqueue
  <2>2. CASE row[u] = NoRow /\ \E p \in plan : p[1] = u
    <3> DEFINE q == CHOOSE p \in plan : p[1] = u
    <3>1. q \in plan /\ q[1] = u
      BY <2>2
    <3> HIDE DEF q
    <3>2. row'[u] = Row("queued", "none", seen[CycleOf(u)], q[2])
      BY <2>1, <2>2 DEF q
    <3>3. IsOpen(CycleOf(u)) => q[2] = CycleOf(u)
      BY <3>1 DEF FInv, LabelsOwn
    <3> QED
      BY <2>2, <3>2, <3>3 DEF Row
  <2>3. CASE ~(row[u] = NoRow /\ \E p \in plan : p[1] = u)
    BY <2>1, <2>3
  <2> QED
    BY <2>2, <2>3
<1>3. LabelsOwn'
  BY <1>1, <1>2 DEF FInv, LabelsOwn, IsOpen
<1> QED
  BY <1>1, <1>2, <1>3, RowsKeep DEF Served, IsOpen

LEMMA TombstoneKeeps ==
    ASSUME FInv, TInv', Tombstone
    PROVE  FInv'
<1>1. UNCHANGED <<worker, requeued, plan, catalog, object>> /\ terminal' = NoCycle
  BY DEF Tombstone, catalogVars
<1>2. \A c : IsOpen(c)' => IsOpen(c) /\ c # terminal
  BY DEF Tombstone, FInv, TInv, WorldTyped, IsOpen, LabelsOwn
<1>3. ASSUME NEW u \in Units
      PROVE  /\ row'[u].lease \in {row[u].lease, "none"}
             /\ IsOpen(CycleOf(u))' => row'[u] = row[u]
  <2>1. row'[u] = IF row[u].cycle = terminal THEN Closed(row[u]) ELSE row[u]
    BY DEF Tombstone
  <2>2. RowSound(row[u])
    BY DEF FInv, TInv, RowsTyped
  <2>3. IsOpen(CycleOf(u))' => row[u].cycle # terminal
    BY <1>2, NoRowSound DEF FInv, LabelsOwn, Tombstone
  <2> QED
    BY <2>1, <2>2, <2>3, RowOps
<1>4. LabelsOwn'
  BY <1>1, <1>2, <1>3 DEF FInv, LabelsOwn
<1> QED
  BY <1>1, <1>2, <1>3, <1>4, RowsKeep DEF Served

LEMMA SweepKeeps ==
    ASSUME FInv, TInv', NEW c \in Cycles, Sweep(c)
    PROVE  FInv'
<1>1. UNCHANGED <<worker, requeued, plan, terminal, object>> /\ catalog' \subseteq catalog
  BY DEF Sweep, daemonVars
<1>2. \A d : IsOpen(d)' => IsOpen(d) /\ d # c
  BY DEF Sweep, FInv, TInv, WorldTyped, IsOpen
<1>3. ASSUME NEW u \in Units
      PROVE  /\ row'[u].lease \in {row[u].lease, "none"}
             /\ IsOpen(CycleOf(u))' => row'[u] = row[u]
  <2>1. row'[u] = IF CycleOf(u) = c \/ row[u].cycle = c THEN NoRow ELSE row[u]
    BY DEF Sweep
  <2> QED
    BY <1>2, <2>1, NoRowSound, NoCycleIsNone DEF FInv, LabelsOwn
<1>4. LabelsOwn'
  BY <1>1, <1>2, <1>3 DEF FInv, LabelsOwn
<1> QED
  BY <1>1, <1>2, <1>3, <1>4, RowsKeep DEF Served

\* A worker that has judged nothing yet still finds what it holds.
LEMMA HeldBefore ==
    ASSUME FInv, NEW w \in Workers, worker[w].at \in {"idle", "gate", "observe", "judge"}
    PROVE  \A u \in Units : u \in worker[w].left =>
               /\ Holding(w, u)
               /\ Served(u) => u \in object
               /\ IsOpen(CycleOf(u)) => row[u].status = "deleting"
<1>1. worker[w].doomed = {}
  BY DEF FInv, TInv, WorkersTyped, PassSound
<1>2. \A u \in Units : u \in worker[w].left => Holding(w, u)
  BY DEF Holding
<1> QED
  BY <1>1, <1>2 DEF FInv, HeldPresent, HeldFenced

\* Before the judgement a worker may hand any of its rows back.
LEMMA GiveBack ==
    ASSUME FInv, TInv', NEW w \in Workers, NEW S, worker[w].at \in {"gate", "observe"},
           Requeue(S), S \subseteq worker[w].left,
           UNCHANGED <<lifecycle, catalog, object, requeued, plan, terminal>>,
           \A v \in Workers \ {w} : worker'[v] = worker[v],
           worker'[w].left = worker[w].left \ S, worker'[w].at # "clean"
    PROVE  FInv'
<1>1. \A u \in Units : /\ Holding(w, u) <=> u \in worker[w].left
                       /\ Holding(w, u)' <=> u \in worker[w].left \ S
  BY DEF Holding
<1>2. \A u \in Units : row'[u] = IF u \in S /\ row[u] # NoRow THEN Queued(row[u]) ELSE row[u]
  BY DEF Requeue
<1>3. \A u \in Units : u \in S /\ row[u] # NoRow =>
        row'[u].lease = "none" /\ row'[u].cycle = row[u].cycle /\ row'[u] # NoRow
  BY <1>2, RowOps DEF FInv, TInv, RowsTyped
<1>4. \A u \in Units : u \in worker[w].left =>
        (Served(u) => u \in object) /\ (IsOpen(CycleOf(u)) => row[u].status = "deleting")
  BY HeldBefore
<1>5. \A u \in Units : u \notin S => row'[u] = row[u]
  BY <1>2
<1>6. \A u \in Units : row'[u] = NoRow \/ (row[u] # NoRow /\ row'[u].cycle = row[u].cycle)
  BY <1>2, <1>3
<1>7. \A u \in Units : row'[u].lease = row[u].lease \/ row'[u].lease = "none"
  BY <1>2, <1>3
<1>8. \A u \in Units : u \in S => row'[u].lease = "none"
  BY <1>2, <1>3, NoRowSound
<1>9. \A u \in Units : Holding(w, u) /\ row'[u].lease = "live" => Holding(w, u)'
  BY <1>1, <1>8
<1>10. \A u \in Units : Holding(w, u)' /\ IsOpen(CycleOf(u)) => row'[u].status = "deleting"
  BY <1>1, <1>4, <1>5
<1>11. \A u \in Units : /\ Holding(w, u)' /\ Served(u) /\ u \notin worker'[w].doomed => u \in object'
                        /\ Holding(w, u) /\ Served(u) => u \in object'
  BY <1>1, <1>4
<1>12. \A u \in Units : /\ Holding(w, u)' => Holding(w, u)
                        /\ ~Holding(w, u) => row'[u] = row[u] /\ (u \in object => u \in object')
  BY <1>1, <1>5
<1> QED
  BY <1>6, <1>7, <1>9, <1>10, <1>11, <1>12, HandOver

LEMMA GateKeeps ==
    ASSUME FInv, TInv', NEW w \in Workers, NEW c \in Cycles, EnterGate(w, c) \/ GateTimeout(w, c)
    PROVE  FInv'
<1> USE DEF catalogVars, daemonVars
<1>0. w \in DOMAIN worker /\ worker \in [Workers -> Passes]
  BY DEF FInv, TInv, WorkersTyped
<1>1. CASE EnterGate(w, c)
  <2>1. /\ worker[w].at = "gate"
        /\ UNCHANGED <<row, object, lifecycle, catalog, requeued, plan, terminal>>
        /\ \A v \in Workers \ {w} : worker'[v] = worker[v]
    BY <1>0, <1>1 DEF EnterGate, SetWorker
  <2>2. worker'[w].left = worker[w].left /\ worker'[w].at # "clean"
    BY <1>0, <1>1 DEF EnterGate, SetWorker, Passes
  <2>3. Requeue({})
    BY <2>1 DEF Requeue, FInv, TInv, RowsTyped
  <2> QED
    BY <2>1, <2>2, <2>3, GiveBack
<1>2. CASE GateTimeout(w, c)
  <2> DEFINE r == [worker[w] EXCEPT !.left = @ \ Waiting(w, c)]
  <2>1. /\ worker[w].at = "gate" /\ Requeue(Waiting(w, c)) /\ Leave(w, r)
        /\ UNCHANGED <<object, lifecycle, catalog, requeued, plan, terminal>>
    BY <1>2 DEF GateTimeout
  <2>2. r.left = worker[w].left \ Waiting(w, c) /\ r.at = "gate"
    BY <1>0, <2>1 DEF Passes
  <2> HIDE DEF r
  <2>3. /\ worker'[w].left = r.left /\ worker'[w].at # "clean"
        /\ \A v \in Workers \ {w} : worker'[v] = worker[v]
    BY <1>0, <2>1, <2>2 DEF Leave, SetWorker, Idle
  <2>4. Waiting(w, c) \subseteq worker[w].left
    BY DEF Waiting
  <2> QED
    BY <2>1, <2>2, <2>3, <2>4, GiveBack
<1> QED
  BY <1>1, <1>2

\* Leaving a store keeps the rest of the batch.
LEMMA StoreLeft ==
    ASSUME TInv, NEW w \in Workers, NEW S, LeaveStore(w, S)
    PROVE  /\ worker'[w].left = worker[w].left \ S /\ worker'[w].at # "clean"
           /\ worker'[w].doomed = {}
           /\ \A v \in Workers \ {w} : worker'[v] = worker[v]
<1> DEFINE r == [worker[w] EXCEPT !.at = "gate", !.store = NoCycle, !.left = @ \ S, !.doomed = {}]
<1>1. worker \in [Workers -> Passes] /\ Leave(w, r)
  BY DEF TInv, WorkersTyped, LeaveStore
<1>2. r.left = worker[w].left \ S /\ r.at = "gate" /\ r.doomed = {}
  BY <1>1 DEF Passes
<1> HIDE DEF r
<1> QED
  BY <1>1, <1>2 DEF Leave, SetWorker, Idle

LEMMA SkipKeeps ==
    ASSUME FInv, TInv', NEW w \in Workers, SkipTombstoned(w)
    PROVE  FInv'
<1>1. /\ worker[w].at = "observe" /\ Requeue(Targets(w)) /\ LeaveStore(w, Targets(w))
      /\ UNCHANGED <<object, lifecycle, catalog, requeued, plan, terminal>>
  BY DEF SkipTombstoned, catalogVars
<1>2. Targets(w) \subseteq worker[w].left
  BY DEF Targets
<1> QED
  BY <1>1, <1>2, StoreLeft, GiveBack DEF FInv

LEMMA ObserveKeeps ==
    ASSUME FInv, TInv', NEW w \in Workers, Observe(w)
    PROVE  FInv'
<1>1. PICK current \in {generation[worker[w].store], 0} :
        /\ row' = [u \in Units |->
                IF u \notin Targets(w) \/ row[u] = NoRow THEN row[u]
                ELSE IF u \in Deferred(w, current) THEN Queued(Rebased(row[u], current))
                ELSE Rebased(row[u], current)]
        /\ IF Deferred(w, current) = Targets(w)
            THEN LeaveStore(w, Targets(w))
            ELSE /\ SetWorker(w, [worker[w] EXCEPT !.at = "judge",
                                                   !.left = Remaining(w, Deferred(w, current))])
                 /\ UNCHANGED phase
  BY DEF Observe
<1> DEFINE D == Deferred(w, current)
<1>2. /\ worker[w].at = "observe" /\ worker \in [Workers -> Passes]
      /\ UNCHANGED <<object, lifecycle, catalog, requeued, plan, terminal>>
  BY DEF Observe, catalogVars, FInv, TInv, WorkersTyped
<1>3. D \subseteq Targets(w) /\ Targets(w) \subseteq worker[w].left
  BY DEF Deferred, Targets
<1> HIDE DEF D
<1>4. /\ worker'[w].left = worker[w].left \ D /\ worker'[w].at # "clean"
      /\ \A v \in Workers \ {w} : worker'[v] = worker[v]
  <2>1. CASE D = Targets(w)
    BY <1>1, <2>1, StoreLeft DEF D, FInv
  <2>2. CASE D # Targets(w)
    <3> DEFINE r == [worker[w] EXCEPT !.at = "judge", !.left = Remaining(w, D)]
    <3>1. worker' = [worker EXCEPT ![w] = r]
      BY <1>1, <2>2 DEF D, SetWorker
    <3>2. r.at = "judge" /\ r.left = worker[w].left \ D
      BY <1>2 DEF Passes, Remaining
    <3> HIDE DEF r
    <3> QED
      BY <1>2, <3>1, <3>2
  <2> QED
    BY <2>1, <2>2
<1>5. \A u \in Units : /\ Holding(w, u) <=> u \in worker[w].left
                       /\ Holding(w, u)' <=> u \in worker[w].left \ D
  BY <1>2, <1>4 DEF Holding
<1>6. ASSUME NEW u \in Units
      PROVE  /\ u \notin worker[w].left => row'[u] = row[u]
             /\ row'[u] = NoRow \/ (row[u] # NoRow /\ row'[u].cycle = row[u].cycle)
             /\ row'[u].lease = row[u].lease \/ row'[u].lease = "none"
             /\ u \in D => row'[u].lease = "none"
             /\ u \notin D => row'[u].status = row[u].status
  <2>1. row'[u] = IF u \notin Targets(w) \/ row[u] = NoRow THEN row[u]
                  ELSE IF u \in D THEN Queued(Rebased(row[u], current))
                  ELSE Rebased(row[u], current)
    BY <1>1 DEF D
  <2>2. row[u] \in Rows
    BY DEF FInv, TInv, RowsTyped
  <2>3. /\ Rebased(row[u], current).status = row[u].status
        /\ Rebased(row[u], current).lease = row[u].lease
        /\ Rebased(row[u], current).cycle = row[u].cycle
        /\ Queued(Rebased(row[u], current)).lease = "none"
        /\ Queued(Rebased(row[u], current)).cycle = row[u].cycle
    BY <2>2 DEF Rebased, Queued, Rows
  <2> QED
    BY <1>3, <2>1, <2>3, NoRowSound
<1>7. \A u \in Units : u \in worker[w].left =>
        (Served(u) => u \in object) /\ (IsOpen(CycleOf(u)) => row[u].status = "deleting")
  BY <1>2, HeldBefore
<1>8. \A u \in Units : /\ Holding(w, u)' => Holding(w, u)
                       /\ ~Holding(w, u) => row'[u] = row[u] /\ (u \in object => u \in object')
                       /\ Holding(w, u) /\ row'[u].lease = "live" => Holding(w, u)'
  BY <1>2, <1>5, <1>6
<1>9. \A u \in Units : /\ Holding(w, u)' /\ IsOpen(CycleOf(u)) => row'[u].status = "deleting"
                       /\ Holding(w, u)' /\ Served(u) /\ u \notin worker'[w].doomed => u \in object'
                       /\ Holding(w, u) /\ Served(u) => u \in object'
  BY <1>2, <1>5, <1>6, <1>7
<1> QED
  BY <1>2, <1>4, <1>6, <1>8, <1>9, HandOver

LEMMA JudgeKeeps ==
    ASSUME FInv, TInv', NEW w \in Workers, Judge(w)
    PROVE  FInv'
<1> DEFINE T == Targets(w)
           needed == Necessary({u[3] : u \in T}, worker[w].start, catalog, Gone(w))
           D == T \ (needed \cup PairDeferred(T, needed))
<1>1. worker' = [worker EXCEPT ![w] = [worker[w] EXCEPT !.at = "remove", !.doomed = D]]
  BY DEF Judge, SetWorker
<1> HIDE DEF T, needed, D
<1>2. /\ worker[w].at = "judge" /\ worker \in [Workers -> Passes]
      /\ UNCHANGED <<row, object, lifecycle, catalog, requeued, plan, terminal>>
  BY DEF Judge, catalogVars, daemonVars, FInv, TInv, WorkersTyped
<1>3. /\ worker'[w].left = worker[w].left /\ worker'[w].at # "clean"
      /\ \A v \in Workers \ {w} : worker'[v] = worker[v]
  BY <1>1, <1>2 DEF Passes
<1>4. Requeue({})
  BY <1>2 DEF Requeue, FInv, TInv, RowsTyped
<1>5. \A u \in Units : Holding(w, u)' <=> Holding(w, u)
  BY <1>2, <1>3 DEF Holding
<1>6. \A u \in Units : Holding(w, u) =>
        (Served(u) => u \in object) /\ (IsOpen(CycleOf(u)) => row[u].status = "deleting")
  BY <1>2, HeldBefore DEF Holding
<1>7. \A u \in Units : row'[u] = NoRow \/ (row[u] # NoRow /\ row'[u].cycle = row[u].cycle)
  BY <1>2
<1> QED
  BY <1>2, <1>3, <1>5, <1>6, <1>7, HandOver

LEMMA RemoveKeeps ==
    ASSUME FInv, TInv', NEW w \in Workers, Remove(w)
    PROVE  FInv'
<1>1. /\ worker[w].at = "remove" /\ worker \in [Workers -> Passes] /\ PassSound(worker[w])
      /\ UNCHANGED <<row, lifecycle, catalog, requeued, plan, terminal>>
      /\ object' = object \ worker[w].doomed \/ object' = object
  BY DEF Remove, catalogVars, daemonVars, FInv, TInv, WorkersTyped
<1>2. /\ worker'[w].left = worker[w].left /\ worker'[w].at = "mark"
      /\ worker'[w].doomed = worker[w].doomed
      /\ \A v \in Workers \ {w} : worker'[v] = worker[v]
  BY <1>1 DEF Remove, SetWorker, Passes
<1>3. \A u \in Units : Holding(w, u)' <=> Holding(w, u)
  BY <1>1, <1>2 DEF Holding
<1>4. \A u \in Units : u \in worker[w].doomed => Holding(w, u)
  BY <1>1 DEF PassSound, Holding
<1>5. \A u \in Units : row'[u] = NoRow \/ (row[u] # NoRow /\ row'[u].cycle = row[u].cycle)
  BY <1>1
<1>6. \A u \in Units : ~Holding(w, u) => row'[u] = row[u] /\ (u \in object => u \in object')
  BY <1>1, <1>4
<1>7. \A u \in Units : Served(u) => IsOpen(CycleOf(u))
  BY DEF Served
<1>8. \A u \in Units :
        /\ Holding(w, u)' /\ IsOpen(CycleOf(u)) => row'[u].status = "deleting"
        /\ Holding(w, u)' /\ Served(u) /\ u \notin worker'[w].doomed => u \in object'
        /\ Holding(w, u) /\ Served(u) => row'[u].status = "deleting"
  BY <1>1, <1>2, <1>3, <1>7 DEF FInv, HeldFenced, HeldPresent
<1>9. \A u \in Units : row'[u].lease = row[u].lease /\ (Holding(w, u) => Holding(w, u)')
  BY <1>1, <1>3
<1> QED
  BY <1>1, <1>2, <1>3, <1>5, <1>6, <1>8, <1>9, HandOver

LEMMA MarkKeeps ==
    ASSUME FInv, TInv', NEW w \in Workers, Mark(w)
    PROVE  FInv'
<1>1. /\ worker[w].at = "mark" /\ worker \in [Workers -> Passes] /\ PassSound(worker[w])
      /\ UNCHANGED <<object, lifecycle, catalog, requeued, plan, terminal>>
  BY DEF Mark, catalogVars, daemonVars, FInv, TInv, WorkersTyped
<1>2. /\ worker'[w].left = worker[w].left /\ worker'[w].at = "clean"
      /\ worker'[w].doomed = worker[w].doomed /\ worker'[w].store = worker[w].store
      /\ \A v \in Workers \ {w} : worker'[v] = worker[v]
  BY <1>1 DEF Mark, SetWorker, Passes
<1>3. \A u \in Units : /\ Holding(w, u) <=> u \in worker[w].left
                       /\ Holding(w, u)' <=> u \in worker[w].left /\ u \notin Targets(w)
                       /\ u \in Targets(w) => u \in worker[w].left
                       /\ u \in worker[w].doomed => u \in Targets(w)
  BY <1>1, <1>2 DEF Holding, Targets, PassSound
<1>4. ASSUME NEW u \in Units
      PROVE  /\ u \notin Targets(w) => row'[u] = row[u]
             /\ row'[u] = NoRow \/ (row[u] # NoRow /\ row'[u].cycle = row[u].cycle)
             /\ row'[u].lease = row[u].lease \/ row'[u].lease = "none"
             /\ u \in Targets(w) => row'[u].lease = "none"
             /\ u \in worker[w].doomed /\ row[u].status = "deleting" => row'[u].status = "deleted"
  <2>1. row'[u] = IF u \notin Targets(w) \/ row[u] = NoRow THEN row[u]
                  ELSE IF u \in worker[w].doomed THEN Done(row[u]) ELSE Queued(row[u])
    BY DEF Mark
  <2>2. RowSound(row[u])
    BY DEF FInv, TInv, RowsTyped
  <2> QED
    BY <1>3, <2>1, <2>2, RowOps, NoRowSound
<1>5. \A u \in Units : Served(u) => IsOpen(CycleOf(u))
  BY DEF Served
<1>6. \A u \in Units : Holding(w, u) =>
        /\ IsOpen(CycleOf(u)) => row[u].status = "deleting"
        /\ Served(u) /\ u \notin worker[w].doomed => u \in object
  BY DEF FInv, HeldFenced, HeldPresent
<1>7. \A u \in Units :
        /\ Holding(w, u)' => Holding(w, u)
        /\ ~Holding(w, u) => row'[u] = row[u] /\ (u \in object => u \in object')
        /\ Holding(w, u) /\ row'[u].lease = "live" => Holding(w, u)'
        /\ Holding(w, u)' /\ IsOpen(CycleOf(u)) => row'[u].status = "deleting"
  BY <1>1, <1>3, <1>4, <1>6
<1>8. \A u \in Units :
        /\ Holding(w, u)' /\ Served(u) /\ u \notin worker'[w].doomed => u \in object'
        /\ Holding(w, u) /\ Served(u) => u \in object' \/ row'[u].status \in {"deleting", "deleted"}
  BY <1>1, <1>2, <1>3, <1>4, <1>5, <1>6
<1> QED
  BY <1>1, <1>2, <1>4, <1>7, <1>8, HandOver

LEMMA CleanKeeps ==
    ASSUME FInv, TInv', NEW w \in Workers, Clean(w)
    PROVE  FInv'
<1>1. /\ worker[w].at = "clean" /\ PassSound(worker[w]) /\ LeaveStore(w, Targets(w))
      /\ UNCHANGED <<row, object, lifecycle, catalog, requeued, plan, terminal>>
  BY DEF Clean, catalogVars, FInv, TInv, WorkersTyped
<1>2. /\ worker'[w].left = worker[w].left \ Targets(w) /\ worker'[w].at # "clean"
      /\ \A v \in Workers \ {w} : worker'[v] = worker[v]
  BY <1>1, StoreLeft DEF FInv
<1>3. \A u \in Units : Holding(w, u)' <=> Holding(w, u)
  BY <1>1, <1>2 DEF Holding, Targets
<1>4. \A u \in Units : Holding(w, u) => u \notin worker[w].doomed
  BY <1>1 DEF Holding, PassSound
<1>5. \A u \in Units : Holding(w, u) =>
        (IsOpen(CycleOf(u)) => row[u].status = "deleting") /\ (Served(u) => u \in object)
  BY <1>4 DEF FInv, HeldFenced, HeldPresent
<1>6. \A u \in Units : row'[u] = NoRow \/ (row[u] # NoRow /\ row'[u].cycle = row[u].cycle)
  BY <1>1
<1> QED
  BY <1>1, <1>2, <1>3, <1>5, <1>6, HandOver

\* A batch is claimed by a worker that holds nothing, and held by nobody else:
\* its rows were `queued', for no lease has run out.
LEMMA ClaimKeeps ==
    ASSUME FInv, TInv', NEW w \in Workers, Claim(w)
    PROVE  FInv'
<1>1. PICK B \in SUBSET Claimable :
        /\ row' = [u \in Units |-> IF u \in B THEN FencedRow(row[u]) ELSE row[u]]
        /\ SetWorker(w, [Idle EXCEPT !.at = "gate", !.claimed = B, !.left = B, !.start = now])
  <2>1. CASE Cardinality(Claimable) <= BatchSize
    <3>1. /\ row' = [u \in Units |-> IF u \in Claimable THEN FencedRow(row[u]) ELSE row[u]]
          /\ SetWorker(w, [Idle EXCEPT !.at = "gate", !.claimed = Claimable, !.left = Claimable,
                                       !.start = now])
      BY <2>1, Zenon DEF Claim
    <3> QED
      BY <3>1, Zenon
  <2>2. CASE ~(Cardinality(Claimable) <= BatchSize)
    <3>1. \E B \in Batches :
            /\ row' = [u \in Units |-> IF u \in B THEN FencedRow(row[u]) ELSE row[u]]
            /\ SetWorker(w, [Idle EXCEPT !.at = "gate", !.claimed = B, !.left = B, !.start = now])
      BY <2>2, Zenon DEF Claim
    <3>2. Batches \subseteq SUBSET Claimable
      BY DEF Batches
    <3> QED
      BY <3>1, <3>2, Zenon
  <2> QED
    BY <2>1, <2>2, Zenon
<1>2. /\ worker[w].at = "idle" /\ worker \in [Workers -> Passes] /\ worker[w].left = {}
      /\ UNCHANGED <<object, lifecycle, catalog, requeued, plan, terminal>>
  BY DEF Claim, MayWork, catalogVars, daemonVars, FInv, TInv, WorkersTyped, PassSound
<1>3. /\ worker'[w].left = B /\ worker'[w].at # "clean"
      /\ \A v \in Workers \ {w} : worker'[v] = worker[v]
  BY <1>1, <1>2 DEF SetWorker, Idle
<1>4. \A u \in Units : u \in B => row[u].status = "queued" /\ RowSound(row[u])
  BY <1>1 DEF Claimable, FInv, TInv, RowsTyped, LeasesHeld
<1>5. \A u \in Units : /\ ~Holding(w, u)
                       /\ Holding(w, u)' <=> u \in B
                       /\ \A v \in Workers \ {w} : Holding(v, u)' <=> Holding(v, u)
  BY <1>2, <1>3 DEF Holding
<1>6. ASSUME NEW u \in Units
      PROVE  /\ u \notin B => row'[u] = row[u]
             /\ u \in B => /\ row'[u].status = "deleting" /\ row'[u].lease = "live"
                           /\ row'[u].cycle = row[u].cycle /\ row[u] # NoRow
  BY <1>1, <1>4, RowOps, NoRowSound
<1>7. \A u \in Units : (Served(u)' <=> Served(u)) /\ (IsOpen(CycleOf(u))' <=> IsOpen(CycleOf(u)))
                       /\ (Served(u) => IsOpen(CycleOf(u)))
  BY <1>2 DEF Served, IsOpen
<1>8. \A v \in Workers : \A u \in Units : u \in B /\ IsOpen(CycleOf(u)) => ~Holding(v, u)
  BY <1>4 DEF FInv, HeldFenced
<1>9. LabelsOwn'
  BY <1>2, <1>6 DEF FInv, LabelsOwn, IsOpen
<1>10. LeasesHeld'
  BY <1>5, <1>6 DEF FInv, LeasesHeld
<1>11. HeldFenced'
  BY <1>5, <1>6, <1>7, <1>8 DEF FInv, HeldFenced
<1>12. HeldOnce'
  BY <1>5, <1>7, <1>8 DEF FInv, HeldOnce
<1>13. ServedFenced'
  BY <1>2, <1>6, <1>7 DEF FInv, ServedFenced
<1>14. HeldPresent'
  <2>1. \A u \in Units : u \in B /\ Served(u) => u \in object
    BY <1>4 DEF FInv, ServedFenced
  <2> QED
    BY <1>2, <1>3, <1>5, <1>7, <2>1 DEF FInv, HeldPresent
<1> QED
  BY <1>2, <1>9, <1>10, <1>11, <1>12, <1>13, <1>14 DEF FInv

LEMMA NothingKeeps ==
    ASSUME FInv, TInv', NEW w \in Workers, NothingToClaim(w)
    PROVE  FInv'
<1>1. UNCHANGED <<row, worker, requeued, plan, terminal, lifecycle, catalog, object>>
  BY DEF NothingToClaim, catalogVars
<1>2. LabelsOwn'
  BY <1>1 DEF FInv, LabelsOwn, IsOpen
<1> QED
  BY <1>1, <1>2, QuietKeeps DEF Served, IsOpen

LEMMA FencesAtFirst == Init => FInv
<1> SUFFICES ASSUME Init PROVE FInv
  OBVIOUS
<1>1. TInv
  BY InitTyped
<1>2. \A w \in Workers : worker[w].left = {}
  BY DEF Init, Idle
<1>3. \A w \in Workers : \A u \in Units : ~Holding(w, u)
  BY <1>2 DEF Holding
<1>4. \A u \in Units : row[u] = NoRow
  BY DEF Init
<1>5. LabelsOwn /\ LeasesHeld
  BY <1>4, NoRowSound DEF Init, LabelsOwn, LeasesHeld
<1>6. ServedFenced
  BY UnitFacts, ScopeAssumption DEF Init, ServedFenced, Served
<1> QED
  BY <1>1, <1>3, <1>5, <1>6 DEF Init, FInv, HeldFenced, HeldOnce, HeldPresent

\* Without crashes no lease is an orphan.
LEMMA NoOrphans == FInv => Orphans = {}
<1> SUFFICES ASSUME FInv, NEW u \in Orphans PROVE FALSE
  OBVIOUS
<1>1. u \in Units /\ row[u].lease = "live" /\ \A w \in Workers : u \notin worker[w].claimed
  BY DEF Orphans, Leases
<1>2. PICK w \in Workers : Holding(w, u)
  BY <1>1 DEF FInv, LeasesHeld
<1> QED
  BY <1>1, <1>2, HoldingFacts DEF FInv

LEMMA StepKeepsFences ==
    ASSUME MayRequeue = FALSE, "crash" \notin FaultKinds, FInv, [Next]_vars
    PROVE  FInv'
<1>1. TInv'
  BY StepTyped DEF FInv
<1>2. CASE Surroundings
  BY <1>1, <1>2, SurroundingsKeep
<1>3. CASE DaemonStep
  BY <1>1, <1>3, SurroundingsKeep, TombstoneKeeps, PlanReadKeeps, EnqueueKeeps, SweepKeeps DEF DaemonStep
<1>4. CASE OperatorStep \/ LeaseExpires
  BY <1>4, NoOrphans DEF OperatorStep, RequeueRead, RequeueWrite, LeaseExpires, FInv
<1>5. ASSUME NEW w \in Workers, WorkerStep(w) \/ Crash(w) PROVE FInv'
  <2>1. ~Crash(w)
    BY DEF Crash, MayFault
  <2> QED
    BY <1>1, <1>5, <2>1, NothingKeeps, ClaimKeeps, GateKeeps, SkipKeeps, ObserveKeeps, JudgeKeeps,
       RemoveKeeps, MarkKeeps, CleanKeeps DEF WorkerStep
<1>6. CASE UNCHANGED vars
  BY <1>1, <1>6 DEF vars, catalogVars, daemonVars, FInv, LabelsOwn, LeasesHeld, HeldFenced, HeldOnce,
     HeldPresent, ServedFenced, Holding, Served, IsOpen
<1> QED
  BY <1>2, <1>3, <1>4, <1>5, <1>6 DEF Next

\* What the invariant says of the served units is what the run checks.
LEMMA FencesHold == FInv => GoneIsFenced
<1> SUFFICES ASSUME FInv PROVE GoneIsFenced
  OBVIOUS
<1>1. ASSUME NEW u \in UnitsOf(Open(catalog)) PROVE u \in object \cup Fenced
  <2>1. Open(catalog) \in SUBSET Scope
    BY DEF Open, FInv, TInv, WorldTyped
  <2>2. u \in Units /\ PairOf(u) \in catalog /\ lifecycle[CycleOf(u)] = "open"
    <3>1. u \in Units
      BY <2>1, UnitFacts
    <3>2. PairOf(u) \in Open(catalog) /\ CycleOf(u) = PairOf(u)[1]
      BY <2>1, <3>1, UnitFacts
    <3> QED
      BY <3>1, <3>2 DEF Open
  <2> QED
    BY <2>2 DEF FInv, ServedFenced, Served, IsOpen, Fenced, InStatus
<1>2. ASSUME NEW w \in Workers, worker[w].at \in {"judge", "remove", "mark"}, NEW u \in Targets(w),
             lifecycle[CycleOf(u)] = "open"
      PROVE  row[u].status = "deleting"
  <2>1. u \in Units /\ Holding(w, u)
    BY <1>2, HoldingFacts DEF Targets, FInv, Holding
  <2> QED
    BY <1>2, <2>1 DEF FInv, HeldFenced, IsOpen
<1> QED
  BY <1>1, <1>2 DEF GoneIsFenced

\* A source is a catalogued pair that carries the variable unfenced.
LEMMA CarriersCarry ==
    ASSUME NEW C, NEW F, NEW t, NEW V, NEW s \in Carriers(V, t, C, F)
    PROVE  s \in C /\ \A v \in V : v \in Variables /\ <<s[1], s[2], v>> \notin F
BY DEF Carriers, Candidates, VariablesAt

LEMMA IntervalSourceCarries ==
    ASSUME NEW C, NEW F, NEW t, NEW v, NEW s \in IntervalSource(v, t, C, F)
    PROVE  s \in Carriers({v}, t, C, F)
BY DEF IntervalSource, Newest, Positive

LEMMA SourceCarries ==
    ASSUME NEW C, NEW F, NEW t, NEW v \in Variables \ Companions, NEW s \in Source(v, t, C, F)
    PROVE  s \in C /\ Unit(s, v) \notin F
<1>1. s \in Carriers({v}, t, C, F)
  <2>1. CASE v \in Interval
    BY <2>1, IntervalSourceCarries DEF Source
  <2>2. CASE v \notin Interval
    BY <2>2 DEF Source, Newest
  <2> QED
    BY <2>1, <2>2
<1> QED
  BY <1>1, CarriersCarry DEF Unit

LEMMA WindSourceCarries ==
    ASSUME NEW C, NEW F, NEW t, NEW s \in WindSource(t, C, F), NEW v \in Wind
    PROVE  s \in C /\ v \in Variables /\ Unit(s, v) \notin F
<1>1. s \in Carriers(Wind, t, C, F)
  BY DEF WindSource, Newest
<1> QED
  BY <1>1, CarriersCarry DEF Unit

LEMMA SelectedAreThere ==
    ASSUME TInv, GoneIsFenced
    PROVE  SelectedIsPresent
<1>1. ASSUME NEW s \in Open(catalog), NEW v \in Variables, Unit(s, v) \notin Fenced
      PROVE  Unit(s, v) \in object
  <2>1. Unit(s, v) \in UnitsOf(Open(catalog))
    BY <1>1 DEF Unit, UnitsOf
  <2> QED
    BY <1>1, <2>1 DEF GoneIsFenced
<1> QED
  BY <1>1, SourceCarries, WindSourceCarries DEF SelectedIsPresent

\* Where no process dies and nobody requeues by hand: the object of a catalogued
\* unit of an open cycle is there or its row's fence is up, whichever workers
\* claim, hand back, judge, delete and book in whichever order, a tombstone or
\* a sweep of another cycle among them; and a worker has its targets fenced
\* from the judgement to the bookkeeping (worker.py: the claim commits the fence
\* before it judges, mark_deleted follows the deletes).
THEOREM FencesKept ==
    ASSUME MayRequeue = FALSE, "crash" \notin FaultKinds
    PROVE  Spec => []GoneIsFenced
<1>1. FInv /\ [Next]_vars => FInv'
  BY StepKeepsFences
<1>2. Spec => []FInv
  BY FencesAtFirst, <1>1, PTL DEF Spec
<1> QED
  BY <1>2, FencesHold, PTL

\* So serving never selects a unit that is gone: canonical resolution honours
\* the fences, and what it selects carries the variable unfenced.
THEOREM SelectionServes ==
    ASSUME MayRequeue = FALSE, "crash" \notin FaultKinds
    PROVE  Spec => []SelectedIsPresent
<1>1. Spec => []TInv
  BY InitTyped, StepTyped, PTL DEF Spec
<1> QED
  BY <1>1, FencesKept, SelectedAreThere, PTL

----------------------------------------------------------------------------
(* The last copy stays.  What reclamation never takes is the newest lead at *)
(* each valid time, among those of which no unit was deleted before.        *)

\* What is read together at one valid time: a variable, or the wind pair.
Groups == {{v} : v \in Variables \ Companions} \cup ({Wind} \ {{}})
Sites(V, t) == {s \in catalog : s[1] + s[2] = t /\ (s[2] > 0 \/ V = Wind \/ V \cap Interval = {})}

Deleted(u) == row[u].status = "deleted"
Doomed == UNION {worker[w].doomed : w \in Workers}

\* What worker w may take for present, if only for one component of the pair; those
\* it has deleted itself included.
Lively(w, V, t) ==
    {s \in Sites(V, t) : \E v \in V : ~Deleted(Unit(s, v)) \/ Unit(s, v) \in worker[w].claimed}
Lasting(V, s) == \A v \in V : Unit(s, v) \in object \ Doomed /\ ~Deleted(Unit(s, v))
\* Present for good, although nobody reads it: the delete failed, or a wave
\* wrote it again under its old row.
Stranded(V, t) == {s \in Sites(V, t) : \A v \in V : Unit(s, v) \in object /\ Deleted(Unit(s, v))}

LastingKept ==
    \A t \in Nat \ raced : t >= now => \A V \in Groups :
        \/ Stranded(V, t) # {}
        \/ \A w \in Workers : \A s \in Newest(Lively(w, V, t)) : Lasting(V, s)

ClosedExpired == \A c \in Cycles : lifecycle[c] # "open" => c + MaxLead < now
AtRest == \A w \in Workers : worker[w].at = "idle" => worker[w].claimed = {}

\* The wind components of an open cycle are doomed and deleted together.
Coupled ==
    \A u \in Units : IsOpen(CycleOf(u)) /\ u[3] \in Wind /\ Deleted(u) =>
        \A x \in Counterpart(u) : Deleted(x)
DoomedTogether ==
    \A w \in Workers : \A u \in worker[w].doomed :
        IsOpen(CycleOf(u)) /\ u[3] \in Wind => Counterpart(u) \subseteq worker[w].doomed

KInv == FInv /\ ClosedExpired /\ AtRest /\ Coupled /\ DoomedTogether /\ LastingKept

LEMMA WindIsNoSingle ==
    ASSUME NEW v
    PROVE  {v} # Wind
<1>1. Cardinality({v}) = 1
  BY FS_Singleton
<1>2. Cardinality(Wind) # 1
  BY VariablesAssumption
<1> QED
  BY <1>1, <1>2

LEMMA GroupFacts ==
    ASSUME NEW V \in Groups
    PROVE  /\ V \subseteq Variables /\ V # {}
           /\ V = Wind \/ \E v \in Variables \ Companions : V = {v} /\ V # Wind
<1>1. \A v : Wind # {v}
  BY WindIsNoSingle
<1>2. Wind \subseteq Variables
  BY VariablesAssumption
<1> QED
  BY <1>1, <1>2 DEF Groups

\* At a time of the window every cycle is open.
LEMMA CurrentCycle ==
    ASSUME NEW life, NEW n \in Int, \A c \in Cycles : life[c] # "open" => c + MaxLead < n,
           NEW s \in Scope, s[1] + s[2] >= n
    PROVE  life[s[1]] = "open"
BY UnitFacts, ScopeAssumption

LEMMA PairUnits ==
    ASSUME NEW s \in Scope, NEW v \in Variables
    PROVE  /\ Unit(s, v) \in Units /\ CycleOf(Unit(s, v)) = s[1] /\ PairOf(Unit(s, v)) = s
           /\ Unit(s, v)[3] = v /\ Unit(s, v) \in UnitsOf({s})
BY ScopeAssumption DEF Units, Unit, CycleOf, PairOf, UnitsOf

LEMMA NewestExists ==
    ASSUME NEW S, S \subseteq Scope, S # {}
    PROVE  Newest(S) # {}
<1> DEFINE N == {s[2] : s \in S}
<1>1. N \in SUBSET Nat /\ N # {}
  BY ScopeAssumption
<1>2. PICK m \in N : \A n \in N : m <= n
  <2> HIDE DEF N
  <2> QED
    BY <1>1, SmallestTime
<1>3. PICK s \in S : s[2] = m
  OBVIOUS
<1> QED
  BY <1>2, <1>3 DEF Newest

LEMMA NewerThan ==
    ASSUME NEW S, S \subseteq Scope, NEW s \in S, s \notin Newest(S)
    PROVE  \E r \in S : r[2] < s[2]
<1>1. \A r \in S : r[2] \in Nat
  BY ScopeAssumption
<1> QED
  BY <1>1 DEF Newest

\* The objects of lasting and of stranded leads stay, and no lead becomes newer.
LEMMA LastingStep ==
    ASSUME KInv, FInv', ClosedExpired', now' >= now, raced \subseteq raced', Doomed' \subseteq Doomed,
           \A s \in Scope : s[1] + s[2] >= now' /\ s[1] + s[2] \notin raced' =>
               (s \in catalog' <=> s \in catalog),
           \A u \in Units : IsOpen(CycleOf(u))' =>
               /\ Deleted(u) => Deleted(u)'
               /\ Deleted(u)' => Deleted(u) \/ u \in Doomed
               /\ u \in object => u \in object' \/ (u \in Doomed /\ ~Deleted(u))
               /\ \A w \in Workers : u \in worker'[w].claimed /\ Deleted(u)' => u \in worker[w].claimed
    PROVE  LastingKept'
<1> SUFFICES ASSUME NEW t \in Nat, t \notin raced', t >= now', NEW V \in Groups
             PROVE  \/ Stranded(V, t)' # {}
                    \/ \A w \in Workers : \A s \in Newest(Lively(w, V, t)') : Lasting(V, s)'
  BY DEF LastingKept, Newest
<1>0. /\ now \in Int /\ now' \in Int /\ catalog \subseteq Scope /\ catalog' \subseteq Scope
      /\ V \subseteq Variables /\ V # {}
  BY GroupFacts DEF KInv, FInv, TInv, WorldTyped
<1>1. t \notin raced /\ t >= now
  BY <1>0
<1>2. Sites(V, t)' = Sites(V, t)
  BY <1>0 DEF Sites
<1>3. ASSUME NEW s \in Sites(V, t), NEW v \in V
      PROVE  Unit(s, v) \in Units /\ IsOpen(CycleOf(Unit(s, v)))'
  <2>1. s \in Scope /\ s[1] + s[2] = t
    BY <1>0 DEF Sites
  <2>2. lifecycle'[s[1]] = "open"
    BY <1>0, <2>1, CurrentCycle DEF ClosedExpired
  <2> QED
    BY <1>0, <2>1, <2>2, PairUnits DEF IsOpen
<1>4. CASE Stranded(V, t) # {}
  <2>1. PICK s \in Sites(V, t) : \A v \in V : Unit(s, v) \in object /\ Deleted(Unit(s, v))
    BY <1>4 DEF Stranded
  <2>2. \A v \in V : Unit(s, v) \in object' /\ Deleted(Unit(s, v))'
    BY <1>3, <2>1
  <2>3. s \in Stranded(V, t)'
    BY <1>2, <2>1, <2>2 DEF Stranded
  <2> QED
    BY <2>3
<1>5. ASSUME NEW w \in Workers, NEW s \in Newest(Lively(w, V, t)'),
             \A r \in Newest(Lively(w, V, t)) : Lasting(V, r)
      PROVE  Lasting(V, s)'
  <2>1. s \in Lively(w, V, t)
    BY <1>2, <1>3, <1>5 DEF Lively, Newest
  <2>2. PICK m : m \in Newest(Lively(w, V, t))
    BY <1>0, <2>1, NewestExists DEF Lively, Sites
  <2>3. m \in Lively(w, V, t)'
    BY <1>0, <1>2, <1>3, <1>5, <2>2 DEF Lively, Newest, Lasting
  <2>4. s[2] <= m[2]
    BY <1>5, <2>3 DEF Newest
  <2>5. \A r \in Lively(w, V, t) : r[2] \in Nat
    BY <1>0, ScopeAssumption DEF Lively, Sites
  <2>6. s \in Newest(Lively(w, V, t))
    BY <2>1, <2>2, <2>4, <2>5 DEF Newest
  <2>7. Lasting(V, s) /\ s \in Sites(V, t)
    BY <1>5, <2>1, <2>6 DEF Lively
  <2> QED
    BY <1>3, <2>7 DEF Lasting
<1> QED
  BY <1>1, <1>4, <1>5 DEF KInv, LastingKept

\* A step that dooms nothing, deletes no row of an open cycle and leaves the
\* catalog of the window alone.
LEMMA CalmStep ==
    ASSUME KInv, FInv', ClosedExpired', now' >= now, raced \subseteq raced',
           \A s \in Scope : s[1] + s[2] >= now' /\ s[1] + s[2] \notin raced' =>
               (s \in catalog' <=> s \in catalog),
           \A u \in Units : IsOpen(CycleOf(u))' =>
               /\ IsOpen(CycleOf(u)) /\ (Deleted(u)' <=> Deleted(u))
               /\ u \in object => u \in object' \/ (u \in Doomed /\ ~Deleted(u)),
           \A w \in Workers :
               /\ worker'[w].doomed \in {worker[w].doomed, {}}
               /\ worker'[w].at = "idle" => worker'[w].claimed = {}
               /\ \A u \in Units : u \in worker'[w].claimed /\ Deleted(u)' => u \in worker[w].claimed
    PROVE  KInv'
<1>1. Doomed' \subseteq Doomed
  BY DEF Doomed
<1>2. LastingKept'
  BY <1>1, LastingStep
<1>3. AtRest'
  BY DEF AtRest
<1>4. Coupled'
  <2>1. \A u \in Units : \A x \in Counterpart(u) : x \in Units /\ CycleOf(x) = CycleOf(u)
    BY DEF Counterpart, PairOf, CycleOf
  <2> QED
    BY <2>1 DEF KInv, Coupled
<1>5. DoomedTogether'
  <2>1. \A w \in Workers : worker'[w].doomed \subseteq Units
    BY DEF FInv, TInv, WorkersTyped, Passes
  <2> QED
    BY <2>1 DEF KInv, DoomedTogether
<1> QED
  BY <1>2, <1>3, <1>4, <1>5 DEF KInv

\* The same when rows and passes stay.
LEMMA StillStep ==
    ASSUME KInv, FInv', ClosedExpired', now' >= now, UNCHANGED <<row, worker, raced, object>>,
           \A c \in Cycles : IsOpen(c)' => IsOpen(c),
           \A s \in Scope : s[1] + s[2] >= now' => (s \in catalog' <=> s \in catalog)
    PROVE  KInv'
BY CalmStep, CyclesAreTimes DEF Deleted, KInv, AtRest

LEMMA ClockCopies ==
    ASSUME KInv, FInv', Advance
    PROVE  KInv'
<1>1. /\ UNCHANGED <<row, worker, raced, object, lifecycle, catalog>> /\ now' = now + 1 /\ now \in Nat
  BY DEF Advance, catalogVars, KInv, FInv, TInv, WorldTyped
<1>2. ClosedExpired'
  BY <1>1, CyclesAreTimes, ScopeAssumption DEF KInv, ClosedExpired
<1> QED
  BY <1>1, <1>2, StillStep DEF IsOpen

LEMMA DaemonCopies ==
    ASSUME KInv, FInv',
           BeginPass \/ EndPass \/ CheckTerminal \/ PlanRead \/ \E c \in Cycles : Bump(c)
    PROVE  KInv'
<1>1. /\ UNCHANGED <<row, worker, raced, object, lifecycle, catalog, now>> /\ now \in Nat
  BY DEF BeginPass, EndPass, CheckTerminal, PlanRead, Bump, catalogVars, KInv, FInv, TInv, WorldTyped
<1>2. ClosedExpired'
  BY <1>1 DEF KInv, ClosedExpired
<1> QED
  BY <1>1, <1>2, StillStep DEF IsOpen

LEMMA ClaimCycleCopies ==
    ASSUME KInv, FInv', ClaimCycle
    PROVE  KInv'
<1>1. /\ UNCHANGED <<row, worker, raced, object, catalog, now>> /\ now \in Nat
      /\ lifecycle \in [Cycles -> {"open", "claimed", "deleted", "swept"}]
  BY DEF ClaimCycle, catalogVars, KInv, FInv, TInv, WorldTyped
<1>2. \A c \in Cycles : lifecycle'[c] = lifecycle[c] \/ (Expired(c) /\ lifecycle'[c] = "claimed")
  BY <1>1 DEF ClaimCycle
<1>3. ClosedExpired'
  BY <1>1, <1>2 DEF KInv, ClosedExpired, Expired
<1> QED
  BY <1>1, <1>2, <1>3, StillStep DEF IsOpen

LEMMA EnqueueCopies ==
    ASSUME KInv, FInv', Enqueue
    PROVE  KInv'
<1>1. UNCHANGED <<worker, raced, object, lifecycle, catalog, now>> /\ now \in Nat
  BY DEF Enqueue, catalogVars, KInv, FInv, TInv, WorldTyped
<1>2. \A u \in Units : row'[u] = row[u] \/ (row[u] = NoRow /\ row'[u].status = "queued")
  BY DEF Enqueue, Row
<1>3. \A u \in Units : Deleted(u)' <=> Deleted(u)
  BY <1>2, NoRowSound DEF Deleted
<1>4. ClosedExpired'
  BY <1>1 DEF KInv, ClosedExpired
<1> QED
  BY <1>1, <1>3, <1>4, CalmStep DEF IsOpen, KInv, AtRest

LEMMA RetireCopies ==
    ASSUME KInv, FInv', Tombstone \/ \E c \in Cycles : Sweep(c)
    PROVE  KInv'
<1>1. /\ UNCHANGED <<worker, raced, object, now>> /\ now \in Nat
      /\ lifecycle \in [Cycles -> {"open", "claimed", "deleted", "swept"}]
      /\ terminal \in Cycles \cup {NoCycle}
  BY DEF Tombstone, Sweep, catalogVars, daemonVars, KInv, FInv, TInv, WorldTyped, DaemonTyped
<1>2. PICK c \in Cycles : /\ lifecycle[c] # "open"
                          /\ \A d \in Cycles \ {c} : lifecycle'[d] = lifecycle[d]
                          /\ lifecycle'[c] # "open"
                          /\ \A s \in Scope : s[1] # c => (s \in catalog' <=> s \in catalog)
  <2>1. CASE Tombstone
    BY <1>1, <2>1 DEF Tombstone, catalogVars, KInv, FInv, LabelsOwn, IsOpen
  <2>2. ASSUME NEW c \in Cycles, Sweep(c)
        PROVE  /\ lifecycle[c] # "open"
               /\ \A d \in Cycles \ {c} : lifecycle'[d] = lifecycle[d]
               /\ lifecycle'[c] # "open"
               /\ \A s \in Scope : s[1] # c => (s \in catalog' <=> s \in catalog)
    BY <1>1, <2>2 DEF Sweep, PairsOf
  <2> QED
    BY <2>1, <2>2
<1>3. ClosedExpired'
  BY <1>1, <1>2 DEF KInv, ClosedExpired
<1>4. \A s \in Scope : s[1] + s[2] >= now' => s[1] # c
  BY <1>1, <1>2, CurrentCycle DEF KInv, ClosedExpired
<1>5. ASSUME NEW u \in Units, IsOpen(CycleOf(u))' PROVE IsOpen(CycleOf(u)) /\ row'[u] = row[u]
  <2>1. CycleOf(u) # c /\ IsOpen(CycleOf(u))
    BY <1>2, <1>5, CyclesAreTimes DEF IsOpen
  <2>2. CASE Tombstone
    BY <1>5, <2>1, <2>2, NoRowSound DEF Tombstone, KInv, FInv, LabelsOwn, IsOpen
  <2>3. ASSUME NEW d \in Cycles, Sweep(d) PROVE row'[u] = row[u]
    <3>1. lifecycle[d] = "deleted" /\ CycleOf(u) # d
      BY <2>1, <2>3 DEF Sweep, IsOpen
    <3> QED
      BY <2>1, <2>3, <3>1, NoRowSound, NoCycleIsNone DEF Sweep, KInv, FInv, LabelsOwn
  <2> QED
    BY <2>1, <2>2, <2>3
<1> QED
  BY <1>1, <1>2, <1>3, <1>4, <1>5, CalmStep DEF Deleted, KInv, AtRest

\* Of what is read together nothing is deleted, or all of it.
LEMMA PairSpared ==
    ASSUME KInv, NEW s \in Scope, IsOpen(s[1]), NEW V \in Groups, NEW v \in V, NEW x \in V,
           ~Deleted(Unit(s, v))
    PROVE  ~Deleted(Unit(s, x))
<1>1. CASE x # v
  <2>1. V = Wind /\ x \in Variables /\ v \in Variables
    BY <1>1, GroupFacts
  <2>2. Unit(s, v) \in Counterpart(Unit(s, x)) /\ Unit(s, x) \in Units
    BY <1>1, <2>1, PairUnits DEF Counterpart
  <2>3. IsOpen(CycleOf(Unit(s, x))) /\ Unit(s, x)[3] \in Wind
    BY <2>1, PairUnits DEF IsOpen
  <2> QED
    BY <2>2, <2>3 DEF KInv, Coupled
<1> QED
  BY <1>1

\* A published lead is whole: it lasts, or an old row strands it.
LEMMA PublishCopies ==
    ASSUME KInv, FInv', NEW p \in Scope, Publish(p)
    PROVE  KInv'
<1>1. /\ UNCHANGED <<row, worker, raced, lifecycle, now>> /\ now \in Nat
      /\ catalog' = catalog \cup {p} /\ object' = object \cup UnitsOf({p}) /\ catalog \subseteq Scope
      /\ lifecycle[p[1]] = "open" /\ \A w \in Workers : worker[w].store # p[1]
  BY DEF Publish, MayWrite, daemonVars, KInv, FInv, TInv, WorldTyped
<1>2. ClosedExpired' /\ AtRest' /\ Coupled' /\ DoomedTogether'
  BY <1>1 DEF KInv, ClosedExpired, AtRest, Coupled, DoomedTogether, IsOpen, Deleted
<1>3. \A v \in Variables : Unit(p, v) \in object' \ Doomed
  <2>1. ASSUME NEW v \in Variables, NEW w \in Workers PROVE Unit(p, v) \notin worker[w].doomed
    BY <1>1, PairUnits DEF KInv, FInv, TInv, WorkersTyped, PassSound
  <2> QED
    BY <1>1, <2>1, PairUnits DEF Doomed
<1>4. ASSUME NEW V \in Groups, NEW v \in V, ~Deleted(Unit(p, v)), NEW x \in V
      PROVE  ~Deleted(Unit(p, x))
  BY <1>1, <1>4, PairSpared DEF IsOpen
<1>5. LastingKept'
  <2> SUFFICES ASSUME NEW t \in Nat, t \notin raced, t >= now, NEW V \in Groups
               PROVE  \/ Stranded(V, t)' # {}
                      \/ \A w \in Workers : \A s \in Newest(Lively(w, V, t)') : Lasting(V, s)'
    BY <1>1 DEF LastingKept, Newest
  <2>1. /\ V \subseteq Variables /\ V # {}
        /\ Sites(V, t) \subseteq Sites(V, t)' /\ Sites(V, t)' \subseteq Sites(V, t) \cup {p}
    BY <1>1, GroupFacts DEF Sites
  <2>2. CASE Stranded(V, t) # {}
    <3>1. Stranded(V, t) \subseteq Stranded(V, t)'
      BY <1>1, <2>1 DEF Stranded, Deleted
    <3> QED
      BY <2>2, <3>1
  <2>3. CASE p \in Sites(V, t)' /\ \A v \in V : Deleted(Unit(p, v))
    <3>1. p \in Stranded(V, t)'
      BY <1>1, <1>3, <2>1, <2>3 DEF Stranded, Deleted
    <3> QED
      BY <3>1
  <2>4. ASSUME \A w \in Workers : \A s \in Newest(Lively(w, V, t)) : Lasting(V, s),
               p \in Sites(V, t)' => \E v \in V : ~Deleted(Unit(p, v)),
               NEW w \in Workers, NEW s \in Newest(Lively(w, V, t)')
        PROVE  Lasting(V, s)'
    <3>1. s \in Lively(w, V, t)' /\ s \in Sites(V, t)'
      BY DEF Newest, Lively
    <3>2. CASE s = p
      BY <1>1, <1>3, <1>4, <2>1, <2>4, <3>1, <3>2 DEF Lasting, Deleted, Doomed
    <3>3. CASE s # p
      <4>1. Lively(w, V, t) \subseteq Lively(w, V, t)'
        BY <1>1, <2>1 DEF Lively, Deleted
      <4>2. s \in Lively(w, V, t)
        BY <1>1, <2>1, <3>1, <3>3 DEF Lively, Deleted
      <4>3. s \in Newest(Lively(w, V, t))
        BY <4>1, <4>2 DEF Newest
      <4>4. Lasting(V, s)
        BY <2>4, <4>3
      <4> QED
        BY <1>1, <4>4 DEF Lasting, Deleted, Doomed
    <3> QED
      BY <3>2, <3>3
  <2> QED
    BY <2>2, <2>3, <2>4 DEF KInv, LastingKept
<1> QED
  BY <1>2, <1>5 DEF KInv

\* When all workers rest, whatever has an open row is there.
LEMMA RestIsWhole ==
    ASSUME KInv, \A w \in Workers : worker[w].at = "idle"
    PROVE  /\ Doomed = {} /\ \A w \in Workers : worker[w].claimed = {}
           /\ \A u \in Units : Served(u) /\ ~Deleted(u) => u \in object
<1>1. \A w \in Workers : worker[w].claimed = {} /\ worker[w].left = {} /\ worker[w].doomed = {}
  BY DEF KInv, AtRest, FInv, TInv, WorkersTyped, PassSound
<1>2. ASSUME NEW u \in Units, row[u].status = "deleting" PROVE FALSE
  <2>1. row[u].lease = "live"
    BY <1>2 DEF KInv, FInv, TInv, RowsTyped, RowSound, Rows, LeasesHeld
  <2> QED
    BY <1>1, <2>1 DEF KInv, FInv, LeasesHeld, Holding
<1> QED
  BY <1>1, <1>2 DEF Doomed, KInv, FInv, ServedFenced, Deleted

\* A lead that a wave loses while all workers rest leaves the next one, of
\* which nothing was ever deleted.
LEMMA LoseCopies ==
    ASSUME KInv, FInv', NEW p \in Scope, Lose(p)
    PROVE  KInv'
<1>1. /\ UNCHANGED <<row, worker, object, lifecycle, now>> /\ now \in Nat
      /\ catalog' = catalog \/ catalog' = catalog \ {p}
      /\ catalog \subseteq Scope /\ raced \subseteq raced'
      /\ (\E w \in Workers : worker[w].at # "idle") => p[1] + p[2] \in raced'
  BY DEF Lose, daemonVars, KInv, FInv, TInv, WorldTyped
<1>2. ClosedExpired'
  BY <1>1 DEF KInv, ClosedExpired
<1>3. CASE \E w \in Workers : worker[w].at # "idle"
  <2>1. \A s \in Scope : s[1] + s[2] \notin raced' => (s \in catalog' <=> s \in catalog)
    BY <1>1, <1>3
  <2> QED
    BY <1>1, <1>2, <2>1, CalmStep DEF IsOpen, Deleted, KInv, AtRest
<1>4. CASE \A w \in Workers : worker[w].at = "idle"
  <2>1. AtRest' /\ Coupled' /\ DoomedTogether'
    BY <1>1 DEF KInv, AtRest, Coupled, DoomedTogether, IsOpen, Deleted
  <2>2. ASSUME NEW t \in Nat, t >= now, NEW V \in Groups, NEW w \in Workers,
               NEW s \in Newest(Lively(w, V, t)')
        PROVE  Lasting(V, s)'
    <3>1. s \in catalog' /\ s \in catalog /\ s[1] + s[2] = t /\ s \in Scope /\ V \subseteq Variables
      BY <1>1, <2>2, GroupFacts DEF Newest, Lively, Sites
    <3>2. lifecycle[s[1]] = "open"
      BY <1>1, <2>2, <3>1, CurrentCycle DEF KInv, ClosedExpired
    <3>3. \A v \in V : Unit(s, v) \in Units /\ Served(Unit(s, v))
      BY <3>1, <3>2, PairUnits DEF Served, IsOpen
    <3>4. \A v \in V : ~Deleted(Unit(s, v))
      <4>1. PICK x \in V : ~Deleted(Unit(s, x))
        BY <1>1, <1>4, <2>2, RestIsWhole DEF Newest, Lively, Deleted
      <4> QED
        BY <3>1, <3>2, <4>1, PairSpared DEF IsOpen
    <3>5. \A v \in V : Unit(s, v) \in object /\ Doomed = {}
      BY <1>4, <3>3, <3>4, RestIsWhole
    <3> QED
      BY <1>1, <3>4, <3>5 DEF Lasting, Deleted, Doomed
  <2>3. LastingKept'
    BY <1>1, <2>2 DEF LastingKept, Newest
  <2> QED
    BY <1>2, <2>1, <2>3 DEF KInv
<1> QED
  BY <1>3, <1>4

LEMMA WorkerCalm ==
    ASSUME KInv, FInv', NEW w \in Workers, UNCHANGED <<lifecycle, catalog, now, raced>>,
           \A v \in Workers \ {w} : worker'[v] = worker[v],
           worker'[w].doomed \in {worker[w].doomed, {}},
           worker'[w].at = "idle" => worker'[w].claimed = {},
           \A u \in Units : u \in worker'[w].claimed /\ Deleted(u)' => u \in worker[w].claimed,
           \A u \in Units : IsOpen(CycleOf(u)) =>
               /\ Deleted(u)' <=> Deleted(u)
               /\ u \in object => u \in object' \/ (u \in Doomed /\ ~Deleted(u))
    PROVE  KInv'
<1>1. now \in Nat /\ ClosedExpired'
  BY DEF KInv, ClosedExpired, FInv, TInv, WorldTyped
<1>2. \A v \in Workers : /\ worker'[v].doomed \in {worker[v].doomed, {}}
                         /\ worker'[v].at = "idle" => worker'[v].claimed = {}
                         /\ \A u \in Units : u \in worker'[v].claimed /\ Deleted(u)' => u \in worker[v].claimed
  BY DEF KInv, AtRest
<1>3. \A u \in Units : IsOpen(CycleOf(u))' <=> IsOpen(CycleOf(u))
  BY DEF IsOpen
<1> QED
  BY <1>1, <1>2, <1>3, CalmStep

\* What a worker is left with at the end of a store.
LEMMA LeftWith ==
    ASSUME TInv, NEW w \in Workers, NEW r \in Passes, r.at # "idle", Leave(w, r)
    PROVE  /\ worker'[w].doomed \in {r.doomed, {}}
           /\ worker'[w].at = "idle" => worker'[w].claimed = {}
           /\ worker'[w].claimed \subseteq r.claimed
           /\ \A v \in Workers \ {w} : worker'[v] = worker[v]
BY DEF TInv, WorkersTyped, Leave, SetWorker, Idle

LEMMA StoreLeftWith ==
    ASSUME TInv, NEW w \in Workers, NEW S, LeaveStore(w, S)
    PROVE  /\ worker'[w].doomed \in {worker[w].doomed, {}}
           /\ worker'[w].at = "idle" => worker'[w].claimed = {}
           /\ worker'[w].claimed \subseteq worker[w].claimed
           /\ \A v \in Workers \ {w} : worker'[v] = worker[v]
<1> DEFINE r == [worker[w] EXCEPT !.at = "gate", !.store = NoCycle, !.left = @ \ S, !.doomed = {}]
<1>1. worker[w] \in Passes /\ Leave(w, r)
  BY DEF TInv, WorkersTyped, LeaveStore
<1>2. r.at = "gate" /\ r.doomed = {} /\ r.claimed = worker[w].claimed
  BY <1>1 DEF Passes
<1>3. r \in Passes
  BY <1>1 DEF Passes
<1> HIDE DEF r
<1> QED
  BY <1>1, <1>2, <1>3, LeftWith

\* What is handed back was being deleted, and is queued.
LEMMA HandedBack ==
    ASSUME FInv, NEW w \in Workers, worker[w].at \in {"gate", "observe"}, NEW S, Requeue(S),
           S \subseteq worker[w].left
    PROVE  \A u \in Units : IsOpen(CycleOf(u)) => (Deleted(u)' <=> Deleted(u))
<1>1. \A u \in Units : u \in S /\ IsOpen(CycleOf(u)) => row[u].status = "deleting"
  BY HeldBefore
<1>2. \A u \in Units : row'[u] = IF u \in S /\ row[u] # NoRow THEN Queued(row[u]) ELSE row[u]
  BY DEF Requeue
<1>3. \A u \in Units : RowSound(row[u])
  BY DEF FInv, TInv, RowsTyped
<1> QED
  BY <1>1, <1>2, <1>3, RowOps, NoRowSound DEF Deleted

LEMMA GateCopies ==
    ASSUME KInv, FInv', NEW w \in Workers, NEW c \in Cycles, EnterGate(w, c) \/ GateTimeout(w, c)
    PROVE  KInv'
<1>0. worker \in [Workers -> Passes] /\ worker[w] \in Passes
  BY DEF KInv, FInv, TInv, WorkersTyped
<1>1. CASE EnterGate(w, c)
  <2>1. /\ UNCHANGED <<row, object, lifecycle, catalog, now, raced>>
        /\ \A v \in Workers \ {w} : worker'[v] = worker[v]
    BY <1>0, <1>1 DEF EnterGate, SetWorker, catalogVars
  <2>2. /\ worker'[w].doomed = worker[w].doomed /\ worker'[w].at # "idle"
        /\ worker'[w].claimed = worker[w].claimed
    BY <1>0, <1>1 DEF EnterGate, SetWorker, Passes
  <2> QED
    BY <2>1, <2>2, WorkerCalm DEF Deleted
<1>2. CASE GateTimeout(w, c)
  <2> DEFINE r == [worker[w] EXCEPT !.left = @ \ Waiting(w, c)]
  <2>1. /\ worker[w].at = "gate" /\ Requeue(Waiting(w, c)) /\ Leave(w, r)
        /\ UNCHANGED <<object, lifecycle, catalog, now, raced>>
    BY <1>2 DEF GateTimeout, catalogVars
  <2>2. r.doomed = worker[w].doomed /\ r.at = "gate" /\ r.claimed = worker[w].claimed
    BY <1>0, <2>1 DEF Passes
  <2>3. r \in Passes
    BY <1>0 DEF Passes
  <2> HIDE DEF r
  <2>4. Waiting(w, c) \subseteq worker[w].left
    BY DEF Waiting
  <2>5. \A u \in Units : IsOpen(CycleOf(u)) => (Deleted(u)' <=> Deleted(u))
    BY <2>1, <2>4, HandedBack DEF KInv
  <2>6. /\ worker'[w].doomed \in {worker[w].doomed, {}}
        /\ worker'[w].at = "idle" => worker'[w].claimed = {}
        /\ worker'[w].claimed \subseteq worker[w].claimed
        /\ \A v \in Workers \ {w} : worker'[v] = worker[v]
    BY <2>1, <2>2, <2>3, LeftWith DEF KInv, FInv
  <2> QED
    BY <2>1, <2>5, <2>6, WorkerCalm
<1> QED
  BY <1>1, <1>2

LEMMA SkipCopies ==
    ASSUME KInv, FInv', NEW w \in Workers, SkipTombstoned(w)
    PROVE  KInv'
<1>1. /\ worker[w].at = "observe" /\ Requeue(Targets(w)) /\ LeaveStore(w, Targets(w))
      /\ UNCHANGED <<object, lifecycle, catalog, now, raced>> /\ TInv
  BY DEF SkipTombstoned, catalogVars, KInv, FInv
<1>2. Targets(w) \subseteq worker[w].left
  BY DEF Targets
<1>3. \A u \in Units : IsOpen(CycleOf(u)) => (Deleted(u)' <=> Deleted(u))
  BY <1>1, <1>2, HandedBack DEF KInv
<1> QED
  BY <1>1, <1>3, StoreLeftWith, WorkerCalm

LEMMA ObserveCopies ==
    ASSUME KInv, FInv', NEW w \in Workers, Observe(w)
    PROVE  KInv'
<1>1. PICK current \in {generation[worker[w].store], 0} :
        /\ row' = [u \in Units |->
                IF u \notin Targets(w) \/ row[u] = NoRow THEN row[u]
                ELSE IF u \in Deferred(w, current) THEN Queued(Rebased(row[u], current))
                ELSE Rebased(row[u], current)]
        /\ IF Deferred(w, current) = Targets(w)
            THEN LeaveStore(w, Targets(w))
            ELSE /\ SetWorker(w, [worker[w] EXCEPT !.at = "judge",
                                                   !.left = Remaining(w, Deferred(w, current))])
                 /\ UNCHANGED phase
  BY DEF Observe
<1>2. /\ worker[w].at = "observe" /\ worker \in [Workers -> Passes] /\ TInv
      /\ UNCHANGED <<object, lifecycle, catalog, now, raced>>
  BY DEF Observe, catalogVars, KInv, FInv, TInv, WorkersTyped
<1>3. /\ worker'[w].doomed \in {worker[w].doomed, {}}
      /\ worker'[w].at = "idle" => worker'[w].claimed = {}
      /\ worker'[w].claimed \subseteq worker[w].claimed
      /\ \A v \in Workers \ {w} : worker'[v] = worker[v]
  <2>1. CASE Deferred(w, current) = Targets(w)
    BY <1>1, <1>2, <2>1, StoreLeftWith
  <2>2. CASE Deferred(w, current) # Targets(w)
    <3> DEFINE r == [worker[w] EXCEPT !.at = "judge", !.left = Remaining(w, Deferred(w, current))]
    <3>1. worker' = [worker EXCEPT ![w] = r]
      BY <1>1, <2>2 DEF SetWorker
    <3>2. r.at = "judge" /\ r.claimed = worker[w].claimed /\ r.doomed = worker[w].doomed
      BY <1>2 DEF Passes
    <3> HIDE DEF r
    <3> QED
      BY <1>2, <3>1, <3>2
  <2> QED
    BY <2>1, <2>2
<1>4. \A u \in Units : u \in Targets(w) /\ IsOpen(CycleOf(u)) => row[u].status = "deleting"
  BY <1>2, HeldBefore DEF KInv, Targets
<1>5. ASSUME NEW u \in Units, IsOpen(CycleOf(u)) PROVE Deleted(u)' <=> Deleted(u)
  <2>1. row'[u] = IF u \notin Targets(w) \/ row[u] = NoRow THEN row[u]
                  ELSE IF u \in Deferred(w, current) THEN Queued(Rebased(row[u], current))
                  ELSE Rebased(row[u], current)
    BY <1>1
  <2>2. row[u] \in Rows
    BY <1>2 DEF TInv, RowsTyped
  <2>3. Rebased(row[u], current).status = row[u].status
    BY <2>2 DEF Rebased, Rows
  <2>4. Queued(Rebased(row[u], current)).status = "queued"
    BY <2>2 DEF Rebased, Queued, Rows
  <2> QED
    BY <1>4, <1>5, <2>1, <2>3, <2>4 DEF Deleted
<1> QED
  BY <1>2, <1>3, <1>5, WorkerCalm

LEMMA ClaimCopies ==
    ASSUME KInv, FInv', NEW w \in Workers, Claim(w) \/ NothingToClaim(w)
    PROVE  KInv'
<1>1. CASE Claim(w)
  <2>1. PICK B :
          /\ row' = [u \in Units |-> IF u \in B THEN FencedRow(row[u]) ELSE row[u]]
          /\ SetWorker(w, [Idle EXCEPT !.at = "gate", !.claimed = B, !.left = B, !.start = now])
          /\ B \subseteq Claimable
    <3>1. CASE Cardinality(Claimable) <= BatchSize
      BY <1>1, <3>1, Zenon DEF Claim
    <3>2. CASE ~(Cardinality(Claimable) <= BatchSize)
      <4>1. PICK B \in Batches :
              /\ row' = [u \in Units |-> IF u \in B THEN FencedRow(row[u]) ELSE row[u]]
              /\ SetWorker(w, [Idle EXCEPT !.at = "gate", !.claimed = B, !.left = B, !.start = now])
        BY <1>1, <3>2, Zenon DEF Claim
      <4>2. B \subseteq Claimable
        BY DEF Batches
      <4> QED
        BY <4>1, <4>2, Zenon
    <3> QED
      BY <3>1, <3>2, Zenon
  <2>2. /\ worker \in [Workers -> Passes] /\ worker[w].doomed = {}
        /\ UNCHANGED <<object, lifecycle, catalog, now, raced>>
    <3>1. worker[w].at = "idle" /\ UNCHANGED <<object, lifecycle, catalog, now, raced>>
      BY <1>1, Zenon DEF Claim, MayWork, catalogVars
    <3> QED
      BY <3>1 DEF KInv, FInv, TInv, WorkersTyped, PassSound
  <2>3. /\ worker'[w].claimed = B /\ worker'[w].at # "idle" /\ worker'[w].doomed = {}
        /\ \A v \in Workers \ {w} : worker'[v] = worker[v]
    BY <2>1, <2>2 DEF SetWorker, Idle
  <2>4. \A u \in Units : u \in B => ~Deleted(u) /\ ~Deleted(u)'
    BY <2>1, RowOps DEF Claimable, Deleted, KInv, FInv, TInv, RowsTyped
  <2>5. \A u \in Units : Deleted(u)' <=> Deleted(u)
    BY <2>1, <2>4 DEF Deleted
  <2> QED
    BY <2>2, <2>3, <2>4, <2>5, WorkerCalm
<1>2. CASE NothingToClaim(w)
  <2>1. UNCHANGED <<row, worker, object, lifecycle, catalog, now, raced>>
    BY <1>2 DEF NothingToClaim, catalogVars
  <2> QED
    BY <2>1, WorkerCalm DEF Deleted, KInv, AtRest
<1> QED
  BY <1>1, <1>2

LEMMA RemoveCopies ==
    ASSUME KInv, FInv', NEW w \in Workers, Remove(w)
    PROVE  KInv'
<1>1. /\ worker[w].at = "remove" /\ worker \in [Workers -> Passes] /\ PassSound(worker[w])
      /\ UNCHANGED <<row, lifecycle, catalog, now, raced>>
      /\ object' = object \ worker[w].doomed \/ object' = object
  BY DEF Remove, catalogVars, daemonVars, KInv, FInv, TInv, WorkersTyped
<1>2. /\ worker'[w].claimed = worker[w].claimed /\ worker'[w].at = "mark"
      /\ worker'[w].doomed = worker[w].doomed
      /\ \A v \in Workers \ {w} : worker'[v] = worker[v]
  BY <1>1 DEF Remove, SetWorker, Passes
<1>3. \A u \in Units : u \in worker[w].doomed => Holding(w, u) /\ u \in Doomed
  BY <1>1 DEF PassSound, Holding, Doomed
<1>4. \A u \in Units : u \in worker[w].doomed /\ IsOpen(CycleOf(u)) => ~Deleted(u)
  BY <1>3 DEF KInv, FInv, HeldFenced, Deleted
<1> QED
  BY <1>1, <1>2, <1>3, <1>4, WorkerCalm DEF Deleted

LEMMA CleanCopies ==
    ASSUME KInv, FInv', NEW w \in Workers, Clean(w)
    PROVE  KInv'
<1>1. /\ LeaveStore(w, Targets(w)) /\ TInv
      /\ UNCHANGED <<row, object, lifecycle, catalog, now, raced>>
  BY DEF Clean, catalogVars, KInv, FInv
<1> QED
  BY <1>1, StoreLeftWith, WorkerCalm DEF Deleted

\* Booking the deletes: only what was doomed, and both components of a pair.
LEMMA MarkCopies ==
    ASSUME KInv, FInv', NEW w \in Workers, Mark(w)
    PROVE  KInv'
<1>1. /\ worker[w].at = "mark" /\ worker \in [Workers -> Passes] /\ PassSound(worker[w])
      /\ UNCHANGED <<object, lifecycle, catalog, now, raced>> /\ now \in Nat
  BY DEF Mark, catalogVars, daemonVars, KInv, FInv, TInv, WorkersTyped, WorldTyped
<1>2. /\ worker'[w].claimed = worker[w].claimed /\ worker'[w].at = "clean"
      /\ worker'[w].doomed = worker[w].doomed
      /\ \A v \in Workers \ {w} : worker'[v] = worker[v]
  BY <1>1 DEF Mark, SetWorker, Passes
<1>3. /\ \A u \in Units : u \in Targets(w) => Holding(w, u)
      /\ worker[w].doomed \subseteq Targets(w) /\ worker[w].doomed \subseteq worker[w].claimed
      /\ worker[w].doomed \subseteq Doomed /\ worker[w].doomed \subseteq Units
  BY <1>1 DEF PassSound, Holding, Targets, Doomed, Passes
<1>4. ASSUME NEW u \in Units, IsOpen(CycleOf(u))
      PROVE  /\ u \in worker[w].doomed => Deleted(u)'
             /\ u \notin worker[w].doomed => (Deleted(u)' <=> Deleted(u))
             /\ Deleted(u) => Deleted(u)'
  <2>1. row'[u] = IF u \notin Targets(w) \/ row[u] = NoRow THEN row[u]
                  ELSE IF u \in worker[w].doomed THEN Done(row[u]) ELSE Queued(row[u])
    BY DEF Mark
  <2>2. RowSound(row[u])
    BY DEF KInv, FInv, TInv, RowsTyped
  <2>3. u \in Targets(w) => row[u].status = "deleting"
    BY <1>3, <1>4 DEF KInv, FInv, HeldFenced
  <2> QED
    BY <1>3, <2>1, <2>2, <2>3, RowOps, NoRowSound DEF Deleted
<1>5. Doomed' = Doomed
  <2>1. \A v \in Workers : worker'[v].doomed = worker[v].doomed
    BY <1>2
  <2> QED
    BY <2>1 DEF Doomed
<1>6. \A v \in Workers : worker'[v].claimed = worker[v].claimed
  BY <1>2
<1>7. \A u \in Units : IsOpen(CycleOf(u))' <=> IsOpen(CycleOf(u))
  BY <1>1 DEF IsOpen
<1>8. ClosedExpired' /\ AtRest'
  BY <1>1, <1>2 DEF KInv, ClosedExpired, AtRest
<1>9. LastingKept'
  BY <1>1, <1>3, <1>4, <1>5, <1>6, <1>7, <1>8, LastingStep
<1>10. DoomedTogether'
  <2>1. \A v \in Workers : worker'[v].doomed = worker[v].doomed /\ worker[v].doomed \subseteq Units
    BY <1>2 DEF KInv, FInv, TInv, WorkersTyped, Passes
  <2> QED
    BY <1>7, <2>1 DEF KInv, DoomedTogether
<1>11. Coupled'
  <2> SUFFICES ASSUME NEW u \in Units, IsOpen(CycleOf(u)), u[3] \in Wind, Deleted(u)',
                      NEW x \in Counterpart(u)
               PROVE  Deleted(x)'
    BY <1>7 DEF Coupled
  <2>1. x \in Units /\ IsOpen(CycleOf(x))
    BY DEF Counterpart, PairOf, CycleOf
  <2>2. Deleted(u) \/ u \in worker[w].doomed
    BY <1>4
  <2>3. Deleted(u) => Deleted(x)
    BY DEF KInv, Coupled
  <2>4. u \in worker[w].doomed => x \in worker[w].doomed
    BY DEF KInv, DoomedTogether
  <2> QED
    BY <1>4, <2>1, <2>2, <2>3, <2>4
<1> QED
  BY <1>8, <1>9, <1>10, <1>11 DEF KInv

LEMMA SourceIsHeld ==
    ASSUME NEW V, NEW v \in V, NEW start, NEW C, NEW F, NEW t \in Times(start, C),
           NEW s \in Source(v, t, C, F)
    PROVE  Unit(s, v) \in SourceHolds(V, start, C, F)
<1> DEFINE held(x, y) == {Unit(r, x) : r \in Source(x, y, C, F)}
           all == {held(x, y) : x \in V, y \in Times(start, C)}
<1>1. Unit(s, v) \in held(v, t)
  OBVIOUS
<1>2. held(v, t) \in all
  OBVIOUS
<1>3. SourceHolds(V, start, C, F) = UNION all
  BY DEF SourceHolds
<1> HIDE DEF held, all
<1> QED
  BY <1>1, <1>2, <1>3

\* A doomed unit was judged by a newer lead that carries the same variable.
LEMMA JudgedByNewer ==
    ASSUME KInv, NEW w \in Workers, worker[w].at = "judge", NEW V \in Groups, NEW t \in Nat, t >= now,
           NEW s \in Sites(V, t), NEW v \in V, Unit(s, v) \in Targets(w),
           Unit(s, v) \notin Necessary({u[3] : u \in Targets(w)}, worker[w].start, catalog, Gone(w))
    PROVE  \E r \in Sites(V, t) : r[2] < s[2] /\ Unit(r, v) \notin Gone(w)
<1> DEFINE asked == {u[3] : u \in Targets(w)}
           F == Gone(w)
           carriers == Carriers({v}, t, catalog, F)
<1>1. /\ s \in catalog /\ s[1] + s[2] = t /\ s \in Scope /\ catalog \subseteq Scope
      /\ v \in Variables \ Companions
      /\ now \in Nat /\ worker[w].start \in Nat /\ worker[w].start <= now
  <2>1. v \in Variables \ Companions
    BY VariablesAssumption DEF Groups
  <2> QED
    BY <2>1 DEF Sites, KInv, FInv, TInv, WorldTyped, WorkersTyped, Passes, PassSound
<1>2. t \in Times(worker[w].start, catalog)
  <2>1. t >= worker[w].start
    BY <1>1
  <2> QED
    BY <1>1, <2>1 DEF Times
<1>3. v \in asked
  <2>1. Unit(s, v)[3] = v
    BY DEF Unit
  <2> QED
    BY <2>1
<1>4. s \in carriers
  <2>1. Unit(s, v) \notin F
    BY DEF Gone, Targets, KInv, FInv, TInv, WorkersTyped, PassSound
  <2>2. {v} \subseteq VariablesAt(s, F)
    BY <1>1, <2>1 DEF VariablesAt, Unit
  <2> QED
    BY <1>1, <2>2 DEF Carriers, Candidates
<1>5. /\ carriers \subseteq {x \in catalog : x[1] + x[2] = t} /\ carriers \subseteq Scope
      /\ \A r \in carriers : Unit(r, v) \notin F
  BY <1>1, CarriersCarry DEF Carriers, Candidates, Unit
<1>6. s \notin Source(v, t, catalog, F)
  <2>1. Unit(s, v) \notin SourceHolds(asked, worker[w].start, catalog, F)
    BY DEF Necessary
  <2> QED
    BY <1>2, <1>3, <2>1, SourceIsHeld
<1>7. CASE v \notin Interval
  <2>1. s \notin Newest(carriers)
    BY <1>1, <1>6, <1>7 DEF Source
  <2>2. PICK r \in carriers : r[2] < s[2]
    BY <1>4, <1>5, <2>1, NewerThan
  <2>3. V = Wind \/ V \cap Interval = {}
    BY <1>7, GroupFacts
  <2> QED
    BY <1>5, <2>2, <2>3 DEF Sites
<1>8. CASE v \in Interval
  <2>1. V # Wind
    BY <1>8, VariablesAssumption
  <2>2. s[2] > 0 /\ s \notin IntervalSource(v, t, catalog, F)
    BY <1>6, <1>8, <2>1 DEF Source, Sites
  <2>3. \E r \in carriers : r[2] < s[2] /\ r[2] > 0
    <3>1. CASE AtAnalysis(t, catalog, F)
      <4>1. s \notin Newest(Positive(carriers))
        BY <2>2, <3>1 DEF IntervalSource
      <4>2. s \in Positive(carriers) /\ Positive(carriers) \subseteq Scope
        BY <1>4, <1>5, <2>2 DEF Positive
      <4>3. PICK r \in Positive(carriers) : r[2] < s[2]
        BY <4>1, <4>2, NewerThan
      <4> QED
        BY <4>3 DEF Positive
    <3>2. CASE ~AtAnalysis(t, catalog, F)
      <4>1. s \notin Newest(carriers)
        BY <2>2, <3>2 DEF IntervalSource
      <4>2. PICK r \in carriers : r[2] < s[2]
        BY <1>4, <1>5, <4>1, NewerThan
      <4>3. carriers \subseteq Candidates(t, catalog, F) /\ Candidates(t, catalog, F) \subseteq Scope
        BY <1>1 DEF Carriers, Candidates
      <4>4. PICK a : a \in Newest(Candidates(t, catalog, F))
        BY <4>2, <4>3, NewestExists
      <4>5. a[2] # 0 /\ a[2] <= r[2]
        BY <3>2, <4>2, <4>3, <4>4 DEF AtAnalysis, Anchor, Newest
      <4>6. a \in Scope /\ r \in Scope
        BY <1>5, <4>2, <4>3, <4>4 DEF Newest
      <4>7. a[2] \in Nat /\ r[2] \in Nat
        BY ONLY <4>6, ScopeAssumption
      <4> QED
        BY <4>2, <4>5, <4>7
    <3> QED
      BY <3>1, <3>2
  <2> QED
    BY <1>5, <2>3 DEF Sites
<1> QED
  BY <1>7, <1>8

\* Both components of a pair are doomed, or neither.
LEMMA PairDoomed ==
    ASSUME KInv, NEW w \in Workers, worker[w].at = "judge", NEW needed, NEW D,
           D = Targets(w) \ (needed \cup PairDeferred(Targets(w), needed)),
           NEW u \in D, IsOpen(CycleOf(u)), u[3] \in Wind, NEW x \in Counterpart(u)
    PROVE  x \in D
<1>1. /\ u \in Targets(w) /\ u \in Units /\ x \in Units /\ x[3] \in Wind /\ x[3] # u[3]
      /\ PairOf(x) = PairOf(u) /\ CycleOf(x) = CycleOf(u)
  BY HoldingFacts DEF Counterpart, PairOf, CycleOf, KInv, FInv
<1>2. ~(IF x \in Targets(w) THEN {u, x} \cap needed # {} ELSE u \in needed \/ row[x].status # "deleted")
  BY <1>1 DEF PairDeferred
<1>3. u \in Counterpart(x)
  BY <1>1 DEF Counterpart
<1>4. x \in Targets(w)
  <2> SUFFICES ASSUME row[x].status = "deleted" PROVE FALSE
    BY <1>2
  <2>1. row[u].status = "deleted"
    BY <1>1, <1>3 DEF KInv, Coupled, IsOpen, Deleted
  <2>2. row[u].status = "deleting"
    BY <1>1, HeldBefore DEF KInv, Targets
  <2> QED
    BY <2>1, <2>2
<1>5. x \notin needed /\ u \notin needed
  BY <1>2, <1>4
<1>6. \A y \in Counterpart(x) : y = u
  <2>1. Cardinality(Wind) = 2 /\ IsFiniteSet(Wind)
    BY <1>1, VariablesAssumption, FS_EmptySet, FS_Subset
  <2>2. \A a, b, c \in Wind : a # b /\ c # b => a = c
    <3> SUFFICES ASSUME NEW a \in Wind, NEW b \in Wind, NEW c \in Wind, a # b, c # b, a # c
                 PROVE  FALSE
      OBVIOUS
    <3> DEFINE ab == {a} \cup {b}
    <3>1. Cardinality({a}) = 1 /\ IsFiniteSet({a}) /\ b \notin {a} /\ c \notin ab
      BY FS_Singleton
    <3>2. IsFiniteSet(ab) /\ Cardinality(ab) = Cardinality({a}) + 1
      BY <3>1, FS_AddElement
    <3> HIDE DEF ab
    <3>3. Cardinality(ab \cup {c}) = Cardinality(ab) + 1
      BY <3>1, <3>2, FS_AddElement
    <3>4. Cardinality(ab \cup {c}) <= Cardinality(Wind)
      <4>1. ab \cup {c} \subseteq Wind
        BY DEF ab
      <4> QED
        BY <2>1, <4>1, FS_Subset
    <3> QED
      BY <2>1, <3>1, <3>2, <3>3, <3>4
  <2> SUFFICES ASSUME NEW y \in Counterpart(x) PROVE y = u
    OBVIOUS
  <2>3. y[3] = u[3] /\ PairOf(y) = PairOf(u) /\ y \in Units
    BY <1>1, <2>2 DEF Counterpart
  <2> QED
    BY <1>1, <2>3 DEF Units, PairOf
<1>7. x \notin PairDeferred(Targets(w), needed)
  BY <1>1, <1>5, <1>6 DEF PairDeferred
<1> QED
  BY <1>4, <1>5, <1>7

\* The judgement dooms no newest lead: it is judged by a newer one, and the
\* newest of those that the worker takes for present lasts.
LEMMA JudgeCopies ==
    ASSUME KInv, FInv', NEW w \in Workers, Judge(w)
    PROVE  KInv'
<1> DEFINE T == Targets(w)
           needed == Necessary({u[3] : u \in T}, worker[w].start, catalog, Gone(w))
           D == T \ (needed \cup PairDeferred(T, needed))
<1>1. worker' = [worker EXCEPT ![w] = [worker[w] EXCEPT !.at = "remove", !.doomed = D]]
  BY DEF Judge, SetWorker
<1>2. /\ worker[w].at = "judge" /\ worker \in [Workers -> Passes] /\ PassSound(worker[w])
      /\ UNCHANGED <<row, object, lifecycle, catalog, now, raced>> /\ now \in Nat /\ catalog \subseteq Scope
  BY DEF Judge, catalogVars, daemonVars, KInv, FInv, TInv, WorkersTyped, WorldTyped
<1>3. D = Targets(w) \ (needed \cup PairDeferred(Targets(w), needed)) /\ D \subseteq T
  OBVIOUS
<1>4. D \cap needed = {}
  OBVIOUS
<1> HIDE DEF D, needed
<1>5. /\ worker'[w].doomed = D /\ worker'[w].claimed = worker[w].claimed /\ worker'[w].at = "remove"
      /\ \A v \in Workers \ {w} : worker'[v] = worker[v]
  BY <1>1, <1>2 DEF Passes
<1>6. ClosedExpired' /\ AtRest' /\ Coupled'
  BY <1>2, <1>5 DEF KInv, ClosedExpired, AtRest, Coupled, IsOpen, Deleted
<1>7. \A u \in D : IsOpen(CycleOf(u)) /\ u[3] \in Wind => \A x \in Counterpart(u) : x \in D
  BY <1>2, <1>3, PairDoomed
<1>8. Doomed' \subseteq Doomed \cup D
  BY <1>5 DEF Doomed
<1>9. DoomedTogether'
  <2> SUFFICES ASSUME NEW v \in Workers, NEW u \in worker'[v].doomed, IsOpen(CycleOf(u)), u[3] \in Wind
               PROVE  Counterpart(u) \subseteq worker'[v].doomed
    BY <1>2 DEF DoomedTogether, IsOpen
  <2>1. CASE v = w
    BY <1>5, <1>7, <2>1
  <2>2. CASE v # w
    BY <1>5, <2>2 DEF KInv, DoomedTogether
  <2> QED
    BY <2>1, <2>2
<1>10. ASSUME NEW V \in Groups, NEW t \in Nat, t >= now,
             \A v \in Workers : \A s \in Newest(Lively(v, V, t)) : Lasting(V, s),
             NEW v \in Workers, NEW s \in Newest(Lively(v, V, t)), NEW v0 \in V, Unit(s, v0) \in D
      PROVE  FALSE
  <2>1. /\ s \in Sites(V, t) /\ s \in Lively(v, V, t) /\ s \in Scope /\ V \subseteq Variables
    BY <1>2, GroupFacts DEF Newest, Lively, Sites
  <2>3. Unit(s, v0) \in Targets(w)
    BY <1>3, <1>10
  <2>4. Unit(s, v0) \notin needed
    BY <1>4, <1>10
  <2>5. PICK r \in Sites(V, t) : r[2] < s[2] /\ Unit(r, v0) \notin Gone(w)
    BY <1>2, <1>10, <2>1, <2>3, <2>4, JudgedByNewer DEF needed
  <2>6. r \in Lively(w, V, t)
    <3>1. Unit(r, v0) \in Units
      BY <1>2, <2>1, <2>5, PairUnits DEF Sites
    <3> QED
      BY <2>5, <3>1 DEF Lively, Gone, InStatus, Deleted
  <2>7. PICK m : m \in Newest(Lively(w, V, t))
    BY <1>2, <2>6, NewestExists DEF Lively, Sites
  <2>8. m[2] <= r[2] /\ Lasting(V, m) /\ m \in Lively(w, V, t)
    BY <1>10, <2>6, <2>7 DEF Newest
  <2>9. m \in Lively(v, V, t)
    BY <1>10, <2>8 DEF Lively, Lasting
  <2>10. s[2] <= m[2]
    BY <1>10, <2>9 DEF Newest
  <2>11. s[2] \in Nat /\ m[2] \in Nat /\ r[2] \in Nat
    BY <1>2, <2>1, <2>5, <2>8, ScopeAssumption DEF Lively, Sites
  <2> QED
    BY <2>5, <2>8, <2>10, <2>11
<1>11. LastingKept'
  <2> SUFFICES ASSUME NEW t \in Nat, t \notin raced, t >= now, NEW V \in Groups, Stranded(V, t)' = {},
                      NEW v \in Workers, NEW s \in Newest(Lively(v, V, t)')
               PROVE  Lasting(V, s)'
    BY <1>2 DEF LastingKept, Newest
  <2>1. Sites(V, t)' = Sites(V, t) /\ Stranded(V, t)' = Stranded(V, t)
    BY <1>2 DEF Sites, Stranded, Deleted
  <2>2. worker'[v].claimed = worker[v].claimed
    BY <1>5
  <2>3. Lively(v, V, t)' = Lively(v, V, t)
    BY <1>2, <2>1, <2>2 DEF Lively, Deleted
  <2>4. \A e \in Workers : \A r \in Newest(Lively(e, V, t)) : Lasting(V, r)
    BY <2>1 DEF KInv, LastingKept
  <2>5. s \in Newest(Lively(v, V, t))
    BY <2>3 DEF Newest
  <2>6. \A x \in V : Unit(s, x) \notin D
    BY <1>10, <2>4, <2>5
  <2> QED
    BY <1>2, <1>8, <2>4, <2>5, <2>6 DEF Lasting, Deleted
<1> QED
  BY <1>6, <1>9, <1>11 DEF KInv

LEMMA CopiesAtFirst == Init => KInv
<1> SUFFICES ASSUME Init PROVE KInv
  OBVIOUS
<1>1. FInv
  BY FencesAtFirst
<1>2. /\ \A w \in Workers : worker[w] = Idle
      /\ \A u \in Units : row[u] = NoRow
      /\ \A c \in Cycles : lifecycle[c] = "open"
      /\ catalog = Committed /\ object = UnitsOf(Committed)
  BY DEF Init
<1>3. Doomed = {} /\ AtRest /\ DoomedTogether
  BY <1>2 DEF Doomed, AtRest, DoomedTogether, Idle
<1>4. ClosedExpired /\ Coupled
  BY <1>2, NoRowSound DEF ClosedExpired, Coupled, Deleted
<1>5. ASSUME NEW V \in Groups, NEW t, NEW s \in Sites(V, t) PROVE Lasting(V, s)
  <2>1. s \in Committed /\ s \in Scope /\ V \subseteq Variables
    BY <1>2, <1>5, ScopeAssumption, GroupFacts DEF Sites
  <2>2. ASSUME NEW v \in V PROVE Unit(s, v) \in object /\ ~Deleted(Unit(s, v))
    <3>1. Unit(s, v) \in Units
      BY <2>1, PairUnits
    <3>2. Unit(s, v) \in UnitsOf(Committed)
      BY <2>1 DEF UnitsOf, Unit
    <3> QED
      BY <1>2, <3>1, <3>2, NoRowSound DEF Deleted
  <2> QED
    BY <1>3, <2>2 DEF Lasting
<1>6. LastingKept
  BY <1>5 DEF LastingKept, Newest, Lively
<1> QED
  BY <1>1, <1>3, <1>4, <1>6 DEF KInv

LEMMA StepKeepsCopies ==
    ASSUME MayRequeue = FALSE, "crash" \notin FaultKinds, KInv, [Next]_vars
    PROVE  KInv'
<1>1. FInv'
  BY StepKeepsFences DEF KInv
<1>2. CASE Surroundings
  BY <1>1, <1>2, ClockCopies, PublishCopies, LoseCopies, DaemonCopies DEF Surroundings
<1>3. CASE DaemonStep
  BY <1>1, <1>3, DaemonCopies, ClaimCycleCopies, RetireCopies, EnqueueCopies DEF DaemonStep
<1>4. CASE OperatorStep \/ LeaseExpires
  BY <1>4, NoOrphans DEF OperatorStep, RequeueRead, RequeueWrite, LeaseExpires, KInv, FInv
<1>5. ASSUME NEW w \in Workers, WorkerStep(w) \/ Crash(w) PROVE KInv'
  <2>1. ~Crash(w)
    BY DEF Crash, MayFault
  <2> QED
    BY <1>1, <1>5, <2>1, ClaimCopies, GateCopies, SkipCopies, ObserveCopies, JudgeCopies,
       RemoveCopies, MarkCopies, CleanCopies DEF WorkerStep
<1>6. CASE UNCHANGED vars
  <2>1. UNCHANGED <<row, worker, raced, object, lifecycle, catalog, now>>
    BY <1>6 DEF vars, catalogVars
  <2>2. ClosedExpired' /\ now' >= now
    BY <2>1 DEF KInv, ClosedExpired, FInv, TInv, WorldTyped
  <2> QED
    BY <1>1, <2>1, <2>2, StillStep DEF IsOpen
<1> QED
  BY <1>2, <1>3, <1>4, <1>5, <1>6 DEF Next

\* Where some lead has everything of V, one is left by any deletion.
LEMMA OneIsLeft ==
    ASSUME KInv, NEW w \in Workers, Remove(w), NEW V \in Groups, NEW t \in Nat \ raced, t >= now,
           NEW c \in Sites(V, t), \A v \in V : Unit(c, v) \in object
    PROVE  \E s \in Sites(V, t) : \A v \in V : Unit(s, v) \in object'
<1>1. /\ worker[w].at = "remove" /\ PassSound(worker[w]) /\ now \in Nat /\ catalog \subseteq Scope
      /\ object' = object \ worker[w].doomed \/ object' = object
  BY DEF Remove, KInv, FInv, TInv, WorkersTyped, WorldTyped
<1>2. ASSUME NEW s \in Sites(V, t), NEW v \in V
      PROVE  Unit(s, v) \in Units /\ IsOpen(CycleOf(Unit(s, v))) /\ v \in Variables /\ Unit(s, v)[3] = v
  <2>1. s \in Scope /\ s[1] + s[2] = t /\ v \in Variables
    BY <1>1, GroupFacts DEF Sites
  <2>2. lifecycle[s[1]] = "open"
    BY <1>1, <2>1, CurrentCycle DEF KInv, ClosedExpired
  <2> QED
    BY <2>1, <2>2, PairUnits DEF IsOpen
<1>3. \A u \in Units : IsOpen(CycleOf(u)) /\ Deleted(u) => u \notin worker[w].doomed
  BY <1>1 DEF KInv, FInv, HeldFenced, Holding, PassSound, Deleted
<1>4. CASE Stranded(V, t) # {}
  <2>1. PICK s \in Sites(V, t) : \A v \in V : Unit(s, v) \in object /\ Deleted(Unit(s, v))
    BY <1>4 DEF Stranded
  <2> QED
    BY <1>1, <1>2, <1>3, <2>1
<1>5. CASE Stranded(V, t) = {}
  <2>1. PICK x \in V : ~Deleted(Unit(c, x))
    BY <1>5 DEF Stranded
  <2>2. c \in Lively(w, V, t)
    BY <2>1 DEF Lively
  <2>4. PICK s : s \in Newest(Lively(w, V, t))
    BY <1>1, <2>2, NewestExists DEF Lively, Sites
  <2>5. Lasting(V, s) /\ s \in Sites(V, t)
    BY <1>5, <2>4 DEF KInv, LastingKept, Newest, Lively
  <2>6. worker[w].doomed \subseteq Doomed
    BY DEF Doomed
  <2> QED
    BY <1>1, <2>5, <2>6 DEF Lasting
<1> QED
  BY <1>4, <1>5

LEMMA OnlyRemoveDeletes ==
    ASSUME KInv, "crash" \notin FaultKinds, Next, ~(object \subseteq object')
    PROVE  \E w \in Workers : Remove(w)
<1> USE DEF catalogVars, daemonVars
<1>1. ~Surroundings
  BY DEF Surroundings, Advance, Publish, Lose, Bump
<1>2. ~DaemonStep
  BY DEF DaemonStep, BeginPass, ClaimCycle, CheckTerminal, Tombstone, PlanRead, Enqueue, EndPass, Sweep
<1>3. ~OperatorStep /\ ~LeaseExpires
  BY DEF OperatorStep, RequeueRead, RequeueWrite, LeaseExpires
<1>4. ASSUME NEW w \in Workers PROVE ~Crash(w) /\ (WorkerStep(w) => Remove(w))
  <2>1. ~Crash(w)
    BY DEF Crash, MayFault
  <2>2. ~NothingToClaim(w) /\ ~Claim(w) /\ ~SkipTombstoned(w) /\ ~Mark(w) /\ ~Clean(w)
    BY Zenon DEF NothingToClaim, Claim, SkipTombstoned, Mark, Clean
  <2>3. ~Observe(w) /\ ~Judge(w) /\ \A c \in Cycles : ~EnterGate(w, c) /\ ~GateTimeout(w, c)
    BY Zenon DEF Observe, Judge, EnterGate, GateTimeout
  <2> QED
    BY <2>1, <2>2, <2>3 DEF WorkerStep
<1> QED
  BY <1>1, <1>2, <1>3, <1>4 DEF Next

\* What a copy is, said of the sites.
LEMMA CopiesAreSites ==
    ASSUME KInv, NEW t \in Nat, t >= now
    PROVE  /\ \A v \in Variables \ Companions :
                {v} \in Groups /\ Copies(v, t) = {s \in Sites({v}, t) : Unit(s, v) \in object}
           /\ Wind # {} => /\ Wind \in Groups
                           /\ PairCopies(t) = {s \in Sites(Wind, t) : \A v \in Wind : Unit(s, v) \in object}
<1>1. Open(catalog) \subseteq catalog /\ \A s \in catalog : s[1] + s[2] = t => s \in Open(catalog)
  <2>1. catalog \subseteq Scope /\ now \in Nat
    BY DEF KInv, FInv, TInv, WorldTyped
  <2> QED
    BY <2>1, CurrentCycle DEF Open, KInv, ClosedExpired
<1>2. ASSUME NEW v \in Variables \ Companions
      PROVE  {v} \in Groups /\ Copies(v, t) = {s \in Sites({v}, t) : Unit(s, v) \in object}
  <2>1. {v} \in Groups
    BY DEF Groups
  <2>2. {v} # Wind
    BY WindIsNoSingle
  <2> QED
    BY <1>1, <2>1, <2>2 DEF Copies, Sites
<1>3. Wind # {} => /\ Wind \in Groups
                   /\ PairCopies(t) = {s \in Sites(Wind, t) : \A v \in Wind : Unit(s, v) \in object}
  BY <1>1 DEF Groups, PairCopies, Sites
<1> QED
  BY <1>2, <1>3

LEMMA StepLeavesOne ==
    ASSUME "crash" \notin FaultKinds, KInv, Next,
           NEW t \in ValidTimes \ raced, t >= now, UNCHANGED <<catalog, lifecycle>>
    PROVE  /\ PairCopies(t) # {} => PairCopies(t)' # {}
           /\ \A v \in Variables \ Companions : Copies(v, t) # {} => Copies(v, t)' # {}
<1>1. t \in Nat \ raced /\ t \in Nat
  BY ScopeAssumption DEF ValidTimes
<1>2. Open(catalog)' = Open(catalog)
  BY DEF Open
<1>3. CASE object \subseteq object'
  <2>1. PairCopies(t) \subseteq PairCopies(t)'
    BY <1>2, <1>3 DEF PairCopies
  <2>2. \A v \in Variables \ Companions : Copies(v, t) \subseteq Copies(v, t)'
    BY <1>2, <1>3 DEF Copies
  <2> QED
    BY <2>1, <2>2
<1>4. CASE ~(object \subseteq object')
  <2>1. PICK w \in Workers : Remove(w)
    BY <1>4, OnlyRemoveDeletes
  <2>2. ASSUME NEW V \in Groups, NEW c \in Sites(V, t), \A v \in V : Unit(c, v) \in object
        PROVE  \E s \in Sites(V, t) : \A v \in V : Unit(s, v) \in object'
    BY <1>1, <2>1, <2>2, OneIsLeft
  <2>3. ASSUME NEW v \in Variables \ Companions, Copies(v, t) # {} PROVE Copies(v, t)' # {}
    <3>1. PICK c \in Sites({v}, t) : Unit(c, v) \in object
      BY <1>1, <2>3, CopiesAreSites
    <3>2. PICK s \in Sites({v}, t) : Unit(s, v) \in object'
      BY <1>1, <2>2, <3>1, CopiesAreSites
    <3>3. s \in Open(catalog) /\ s[1] + s[2] = t /\ (v \in Interval => s[2] > 0)
      <4>1. {v} # Wind
        BY WindIsNoSingle
      <4>2. s \in catalog /\ s[1] + s[2] = t /\ (v \in Interval => s[2] > 0)
        BY <3>2, <4>1 DEF Sites
      <4>3. s \in Scope /\ now \in Nat
        BY <4>2 DEF KInv, FInv, TInv, WorldTyped
      <4> QED
        BY <4>2, <4>3, CurrentCycle DEF Open, KInv, ClosedExpired
    <3> QED
      BY <1>2, <3>2, <3>3 DEF Copies
  <2>4. ASSUME PairCopies(t) # {} PROVE PairCopies(t)' # {}
    <3>1. CASE Wind = {}
      BY <1>2, <2>4, <3>1 DEF PairCopies
    <3>2. CASE Wind # {}
      <4>1. PICK c \in Sites(Wind, t) : \A v \in Wind : Unit(c, v) \in object
        BY <1>1, <2>4, <3>2, CopiesAreSites
      <4>2. PICK s \in Sites(Wind, t) : \A v \in Wind : Unit(s, v) \in object'
        BY <1>1, <2>2, <3>2, <4>1, CopiesAreSites
      <4>3. s \in Open(catalog) /\ s[1] + s[2] = t
        <5>1. s \in catalog /\ s[1] + s[2] = t /\ s \in Scope /\ now \in Nat
          BY <4>2 DEF Sites, KInv, FInv, TInv, WorldTyped
        <5> QED
          BY <5>1, CurrentCycle DEF Open, KInv, ClosedExpired
      <4> QED
        BY <1>2, <4>2, <4>3 DEF PairCopies
    <3> QED
      BY <3>1, <3>2
  <2> QED
    BY <2>3, <2>4
<1> QED
  BY <1>3, <1>4

\* Where no process dies and nobody requeues by hand, reclamation never takes
\* the last usable copy of a variable or of the wind pair at a valid time that
\* no wave has taken a copy from in the middle of a pass: however many workers
\* judge at the same time, each counting its own batch as present and what the
\* others are deleting as gone (worker.py: claimed_ids, the counterfactual
\* fence; the wind pair's atomicity).
THEOREM LastCopyStays ==
    ASSUME MayRequeue = FALSE, "crash" \notin FaultKinds
    PROVE  Spec => LastCopyKept
<1>1. KInv /\ [Next]_vars => KInv'
  BY StepKeepsCopies
<1>2. KInv /\ [Next]_vars =>
        [\A t \in {x \in ValidTimes \ raced : x >= now} : UNCHANGED <<catalog, lifecycle>> =>
            /\ PairCopies(t) # {} => PairCopies(t)' # {}
            /\ \A v \in Variables \ Companions : Copies(v, t) # {} => Copies(v, t)' # {}]_vars
  BY StepLeavesOne
<1> QED
  BY CopiesAtFirst, <1>1, <1>2, PTL DEF Spec, LastCopyKept
=============================================================================
