-------------------------- MODULE RunCommitProofs --------------------------
(***************************************************************************)
(* The commit protocol of a run, for all waves, targets, failures and lost *)
(* sessions: type correctness, truthful COMPLETE markers, the marker       *)
(* protocol and the fence.                                                 *)
(***************************************************************************)
EXTENDS RunCommit, FiniteSetTheorems, TLAPS

States == {"absent", "updating", "complete"}

\* A finalizer that has read its evidence has read every listed marker.
ReadDone == \A w \in Waves : pc[w] = "read" =>
                \A r \in Regions : seen[w][r].state # "listed"

Holding == {"creating", "typing", "marking", "publishing", "committing"}
AtWork(w, r) == task[w][r] \in {"writing", "stored"}

\* Whoever is in a stretch that needs the gate EXCLUSIVE holds it.
GateHeld == \A w \in Waves : pc[w] \in Holding => gate = w

\* Nobody writes a region while the gate is held EXCLUSIVE.
GateExcludesWriters ==
    gate # NoWave => \A w \in Waves, r \in Regions : ~AtWork(w, r)

\* A region's marker is UPDATING with its writer's generation.
WritersOwn ==
    \A w \in Waves, r \in Regions : AtWork(w, r) => marker[r] = Marker("updating", w)

\* Once stored, a region consists of its writer's objects.
StoredWhole ==
    \A w \in Waves, r \in Regions : task[w][r] = "stored" => data[r] = {w}

Truthful ==
    \A r \in Regions : marker[r].state = "complete" => data[r] = {marker[r].gen}

Commit == severed = {} /\ GateHeld /\ GateExcludesWriters /\ WritersOwn /\ StoredWhole /\ Truthful

IInv == TypeOK /\ ReadDone /\ (lostSessions = 0 => Commit)
----------------------------------------------------------------------------
(* Type correctness. *)

\* The number of leads a wave has offered is a number.
LEMMA OfferedFinite ==
    ASSUME TypeOK, NEW w \in Waves
    PROVE  Cardinality(offered[w]) \in Nat /\ Cardinality(Leads) \in Nat
<1>1. IsFiniteSet(Leads)
    BY HorizonAssumption
<1>2. offered[w] \in SUBSET Leads
    BY DEF TypeOK
<1>3. IsFiniteSet(offered[w])
    BY <1>1, <1>2, FS_Subset
<1> QED
    BY <1>1, <1>3, FS_CardinalityType

\* Reconciliation and status derivation stay within the catalog's types.
LEMMA CatalogTypes ==
    ASSUME TypeOK, NEW S \in SUBSET Regions
    PROVE  /\ ReconciledProducts(S) \subseteq Leads \X {"surface", "ensemble_mean"}
           /\ ReconciledPairs(S) \subseteq MemberPairs
           /\ \A p, q, c : DerivedStatus(p, q, c) \in {"processing", "partial", "ready"}
<1>1. \A r \in Regions : LeadOf(r) \in Leads
    BY DEF Regions, LeadOf
<1>2. LeadsOf(S) \subseteq Leads
    BY <1>1 DEF LeadsOf
<1>3. \A T \in SUBSET S : LeadsOf(T) \subseteq Leads
    BY <1>1 DEF LeadsOf
<1>4. MeanLeads(S) \subseteq Leads
    BY <1>3 DEF MeanLeads
<1>5. StoreLeads(S) \subseteq Leads
    BY <1>3 DEF StoreLeads, PairsIn
<1>6. ProductLeads(S) \subseteq Leads
    BY <1>4, <1>5 DEF ProductLeads
<1>7. ReconciledProducts(S) \subseteq Leads \X {"surface", "ensemble_mean"}
    <2>1. products \subseteq Leads \X {"surface", "ensemble_mean"}
        BY DEF TypeOK
    <2> QED
        BY <1>4, <1>6, <2>1 DEF ReconciledProducts
<1>8. ReconciledPairs(S) \subseteq MemberPairs
    BY DEF ReconciledPairs, PairsIn, TypeOK
<1>9. \A p, q, c : DerivedStatus(p, q, c) \in {"processing", "partial", "ready"}
    BY DEF DerivedStatus
<1> QED
    BY <1>7, <1>8, <1>9

\* The initial states have the types.
LEMMA InitTypes ==
    ASSUME Init
    PROVE  TypeOK /\ ReadDone
<1>1. marker \in [Regions -> MarkerSet({"absent", "updating", "complete"})]
    BY DEF Init, MarkerSet, Absent
<1>2. manifest \in [kind : {"none", "lead", "final"}, gen : Generations,
                    serving : [Regions -> MarkerSet({"absent", "updating", "complete"})]]
    BY DEF Init, MarkerSet, Absent, Generations
<1>3. seen \in [Waves -> [Regions -> MarkerSet({"absent", "listed", "updating", "complete"})]]
    BY DEF Init, MarkerSet, Absent
<1>4. keep \in [Waves -> Generations]
    BY DEF Init, Generations
<1>5. faults \in 0..MaxFaults /\ lostSessions \in 0..MaxLost
    BY BoundsAssumption DEF Init
<1>6. task \in [Waves -> [Regions -> {"none", "marked", "writing", "stored", "done", "failed"}]]
    BY DEF Init
<1> QED
    BY <1>1, <1>2, <1>3, <1>4, <1>5, <1>6 DEF Init, TypeOK, ReadDone, Stages

\* Reservation, initialization and pre-update keep the types.
LEMMA OpeningTypes ==
    ASSUME TypeOK, ReadDone, NEW w \in Waves,
           \/ Reserve(w) \/ StartRepair(w) \/ OpenFast(w) \/ OpenExisting(w)
           \/ CreateStore(w) \/ CreateArrays(w) \/ WriteVersion(w)
           \/ BeginPreUpdate(w) \/ EndPreUpdate(w) \/ ResolveRun(w)
    PROVE  TypeOK' /\ ReadDone'
<1> USE DEF storeVars, catalogVars, envVars, Goto
<1>1. CASE Reserve(w)
    BY <1>1 DEF Reserve, TypeOK, ReadDone, Stages
<1>2. CASE StartRepair(w)
    BY <1>2 DEF StartRepair, TypeOK, ReadDone, Stages
<1>3. CASE OpenFast(w)
    BY <1>3 DEF OpenFast, Downgrade, TypeOK, ReadDone, Stages
<1>4. CASE OpenExisting(w)
    BY <1>4 DEF OpenExisting, Downgrade, TypeOK, ReadDone, Stages
<1>5. CASE CreateStore(w)
    BY <1>5 DEF CreateStore, TypeOK, ReadDone, Stages
<1>6. CASE CreateArrays(w)
    BY <1>6 DEF CreateArrays, TypeOK, ReadDone, Stages
<1>7. CASE WriteVersion(w)
    BY <1>7 DEF WriteVersion, Release, TypeOK, ReadDone, Stages
<1>8. CASE BeginPreUpdate(w)
    BY <1>8 DEF BeginPreUpdate, Downgrade, TypeOK, ReadDone, Stages
<1>9. CASE EndPreUpdate(w)
    BY <1>9 DEF EndPreUpdate, Release, TypeOK, ReadDone, Stages
<1>10. CASE ResolveRun(w)
    <2>1. FirstLead \in Leads
        BY HorizonAssumption
    <2>2. products' \subseteq Leads \X {"surface", "ensemble_mean"}
        <3>1. products' = products \/ products' = {<<FirstLead, "surface">>}
            BY <1>10 DEF ResolveRun
        <3>2. products \subseteq Leads \X {"surface", "ensemble_mean"}
            BY DEF TypeOK
        <3>3. <<FirstLead, "surface">> \in Leads \X {"surface", "ensemble_mean"}
            BY <2>1
        <3> QED
            BY <3>1, <3>2, <3>3
    <2>4. pairs' \subseteq MemberPairs
        BY <1>10 DEF ResolveRun, TypeOK
    <2>3. status' \in {"none", "processing", "partial", "ready"}
        BY <1>10 DEF ResolveRun, DerivedStatus, TypeOK
    <2> QED
        BY <1>10, <2>2, <2>3, <2>4 DEF ResolveRun, TypeOK, ReadDone, Stages
<1> QED
    BY <1>1, <1>2, <1>3, <1>4, <1>5, <1>6, <1>7, <1>8, <1>9, <1>10

\* Marking, writing and completing a region keep the types.
LEMMA RegionTypes ==
    ASSUME TypeOK, ReadDone, NEW w \in Waves, NEW r \in Regions, RegionStep(w, r)
    PROVE  TypeOK' /\ ReadDone'
<1> USE DEF storeVars, catalogVars, envVars, Goto, SetTask
<1>1. CASE PutUpdating(w, r)
    <2>1. Marker("updating", w) \in MarkerSet({"absent", "updating", "complete"})
        BY DEF Marker, MarkerSet
    <2> QED
        BY <1>1, <2>1 DEF PutUpdating, TypeOK, ReadDone
<1>2. CASE BeginWrite(w, r)
    <2>3. \/ data' = data /\ task' = [task EXCEPT ![w][r] = "failed"]
          \/ data' = [data EXCEPT ![r] = @ \cup {w}] /\ task' = [task EXCEPT ![w][r] = "writing"]
        BY <1>2 DEF BeginWrite, Owns
    <2>4. /\ data \in [Regions -> SUBSET (Waves \cup {Fill})]
          /\ task \in [Waves -> [Regions -> {"none", "marked", "writing", "stored", "done", "failed"}]]
        BY DEF TypeOK
    <2>5. data[r] \cup {w} \in SUBSET (Waves \cup {Fill})
        BY <2>4
    <2>1. data' \in [Regions -> SUBSET (Waves \cup {Fill})]
        BY <2>3, <2>4, <2>5
    <2>2. task' \in [Waves -> [Regions -> {"none", "marked", "writing", "stored", "done", "failed"}]]
        BY <2>3, <2>4
    <2> QED
        BY <1>2, <2>1, <2>2 DEF BeginWrite, TypeOK, ReadDone
<1>3. CASE FinishData(w, r)
    BY <1>3 DEF FinishData, OtherWriters, TypeOK, ReadDone
<1>4. CASE Complete(w, r)
    <2>1. Marker("complete", w) \in MarkerSet({"absent", "updating", "complete"})
        BY DEF Marker, MarkerSet
    <2> QED
        BY <1>4, <2>1 DEF Complete, TypeOK, ReadDone
<1>5. CASE ReadMarker(w, r)
    <2>1. marker[r] \in MarkerSet({"absent", "listed", "updating", "complete"})
        BY DEF TypeOK, MarkerSet
    <2>2. seen' \in [Waves -> [Regions -> MarkerSet({"absent", "listed", "updating", "complete"})]]
        BY <1>5, <2>1 DEF ReadMarker, TypeOK
    <2>3. pc[w] = "reading" /\ pc' = pc
        BY <1>5 DEF ReadMarker
    <2>4. \A v \in Waves : v # w => seen'[v] = seen[v]
        BY <1>5 DEF ReadMarker, TypeOK
    <2>5. TypeOK'
        BY <1>5, <2>2 DEF ReadMarker, TypeOK
    <2>6. ReadDone'
        BY <2>3, <2>4 DEF ReadDone
    <2> QED
        BY <2>5, <2>6
<1> QED
    BY <1>1, <1>2, <1>3, <1>4, <1>5 DEF RegionStep

\* Publication keeps the types.
LEMMA PublicationTypes ==
    ASSUME TypeOK, ReadDone, NEW w \in Waves,
           (\E l \in Leads : BeginPublish(w, l)) \/ EndPublish(w)
    PROVE  TypeOK' /\ ReadDone'
<1> USE DEF storeVars, catalogVars, envVars, Goto
<1>1. CASE \E l \in Leads : BeginPublish(w, l)
    <2>1. PICK l \in Leads : BeginPublish(w, l)
        BY <1>1
    <2>2. PairsIn(CompleteAt(l)) \subseteq MemberPairs
        BY DEF PairsIn
    <2>3. pairs' \subseteq MemberPairs
        BY <2>1, <2>2 DEF BeginPublish, PublishedAt, TypeOK
    <2>4. products' \subseteq Leads \X {"surface", "ensemble_mean"}
        <3>1. products' \subseteq products \cup {<<l, "surface">>}
            BY <2>1 DEF BeginPublish
        <3>2. products \subseteq Leads \X {"surface", "ensemble_mean"}
            BY DEF TypeOK
        <3>3. <<l, "surface">> \in Leads \X {"surface", "ensemble_mean"}
            OBVIOUS
        <3> QED
            BY <3>1, <3>2, <3>3
    <2>5. offered' \in [Waves -> SUBSET Leads]
        BY <2>1 DEF BeginPublish, TypeOK
    <2>6. gate' \in Waves \cup {NoWave} /\ pc' \in [Waves -> Stages]
        BY <2>1 DEF BeginPublish, TypeOK, Stages
    <2>7. status' = status /\ ReadDone'
        BY <2>1 DEF BeginPublish, ReadDone, TypeOK
    <2> QED
        BY <2>1, <2>3, <2>4, <2>5, <2>6, <2>7 DEF BeginPublish, TypeOK
<1>2. CASE EndPublish(w)
    <2>1. <<w, Cardinality(offered[w])>> \in Generations
        BY OfferedFinite DEF Generations
    <2>2. [r \in Regions |-> Absent] \in [Regions -> MarkerSet({"absent", "updating", "complete"})]
        BY DEF Absent, MarkerSet
    <2>3. manifest' \in [kind : {"none", "lead", "final"}, gen : Generations,
                         serving : [Regions -> MarkerSet({"absent", "updating", "complete"})]]
        BY <1>2, <2>1, <2>2 DEF EndPublish
    <2> QED
        BY <1>2, <2>3 DEF EndPublish, Release, TypeOK, ReadDone, Stages
<1> QED
    BY <1>1, <1>2

\* Finalization keeps the types.
LEMMA FinalizationTypes ==
    ASSUME TypeOK, ReadDone, NEW w \in Waves,
           BeginRead(w) \/ EndRead(w) \/ BeginCommit(w) \/ CommitCatalog(w)
    PROVE  TypeOK' /\ ReadDone'
<1> USE DEF storeVars, catalogVars, envVars, Goto
<1>1. CASE BeginRead(w)
    <2>1. [r \in Regions |-> IF marker[r] = Absent THEN Absent ELSE Marker("listed", NoWave)]
              \in [Regions -> MarkerSet({"absent", "listed", "updating", "complete"})]
        BY DEF Absent, Marker, MarkerSet
    <2>2. seen' \in [Waves -> [Regions -> MarkerSet({"absent", "listed", "updating", "complete"})]]
        BY <1>1, <2>1 DEF BeginRead, TypeOK
    <2>3. pc' \in [Waves -> Stages] /\ pc'[w] # "read"
        BY <1>1 DEF BeginRead, TypeOK, Stages
    <2>4. \A v \in Waves : v # w => seen'[v] = seen[v] /\ pc'[v] = pc[v]
        BY <1>1 DEF BeginRead, TypeOK
    <2>5. TypeOK'
        BY <1>1, <2>2, <2>3 DEF BeginRead, TypeOK
    <2>6. ReadDone'
        BY <2>3, <2>4 DEF ReadDone
    <2> QED
        BY <2>5, <2>6
<1>2. CASE EndRead(w)
    <2>1. <<w, Cardinality(Leads) + 1>> \in Generations
        BY OfferedFinite DEF Generations
    <2>2. manifest.gen \in Generations
        BY DEF TypeOK
    <2>3. keep' \in [Waves -> Generations]
        BY <1>2, <2>1, <2>2 DEF EndRead, TypeOK
    <2> QED
        BY <1>2, <2>3 DEF EndRead, TypeOK, ReadDone, Stages
<1>3. CASE BeginCommit(w)
    <2>1. \A r \in Regions : seen[w][r] \in MarkerSet({"absent", "updating", "complete"})
        BY <1>3 DEF BeginCommit, ReadDone, TypeOK, MarkerSet
    <2>2. Marker("updating", NoWave) \in MarkerSet({"absent", "updating", "complete"})
        BY DEF Marker, MarkerSet
    <2>3. Serving(w) \in [Regions -> MarkerSet({"absent", "updating", "complete"})]
        BY <2>1, <2>2 DEF Serving
    <2>4. keep[w] \in Generations
        BY DEF TypeOK
    <2>5. manifest' \in [kind : {"none", "lead", "final"}, gen : Generations,
                         serving : [Regions -> MarkerSet({"absent", "updating", "complete"})]]
        BY <1>3, <2>3, <2>4 DEF BeginCommit, TypeOK
    <2>6. gate' \in Waves \cup {NoWave} /\ pc' \in [Waves -> Stages] /\ ReadDone'
        BY <1>3 DEF BeginCommit, TypeOK, Stages, ReadDone
    <2> QED
        BY <1>3, <2>5, <2>6 DEF BeginCommit, TypeOK
<1>4. CASE CommitCatalog(w)
    <2>1. Evidence(w) \in SUBSET Regions
        BY DEF Evidence
    <2>2. /\ products' \subseteq Leads \X {"surface", "ensemble_mean"}
          /\ pairs' \subseteq MemberPairs
          /\ status' \in {"none", "processing", "partial", "ready"}
        BY <1>4, <2>1, CatalogTypes DEF CommitCatalog
    <2> QED
        BY <1>4, <2>2 DEF CommitCatalog, Release, TypeOK, ReadDone, Stages
<1> QED
    BY <1>1, <1>2, <1>3, <1>4

\* Failures and the environment keep the types.
LEMMA FailureTypes ==
    ASSUME TypeOK, ReadDone, NEW w \in Waves,
           \/ PublishFails(w) \/ WaveFails(w) \/ SessionLost(w)
           \/ \E r \in Regions : ItemFails(w, r)
    PROVE  TypeOK' /\ ReadDone'
<1> USE BoundsAssumption DEF storeVars, catalogVars, waveVars, Goto, MayFail
<1>1. CASE PublishFails(w)
    <2>1. pc' \in [Waves -> Stages] /\ gate' \in Waves \cup {NoWave} /\ ReadDone'
        BY <1>1 DEF PublishFails, Release, TypeOK, ReadDone, Stages
    <2>2. offered' \in [Waves -> SUBSET Leads]
        <3>1. LeadsOf(Targets[w]) \subseteq Leads
            BY WavesAssumption DEF LeadsOf, LeadOf, Regions
        <3>2. offered' = offered \/ \E l \in Leads : offered' = [offered EXCEPT ![w] = @ \cup {l}]
            BY <1>1, <3>1 DEF PublishFails
        <3>3. offered \in [Waves -> SUBSET Leads]
            BY DEF TypeOK
        <3> QED
            BY <3>2, <3>3
    <2>3. faults' \in 0..MaxFaults
        BY <1>1 DEF PublishFails, TypeOK
    <2> QED
        BY <1>1, <2>1, <2>2, <2>3 DEF PublishFails, TypeOK
<1>2. CASE WaveFails(w)
    BY <1>2 DEF WaveFails, Release, TypeOK, ReadDone, Stages
<1>3. CASE SessionLost(w)
    <2>1. gate' \in Waves \cup {NoWave}
        BY <1>3 DEF SessionLost, TypeOK
    <2>2. severed' \subseteq Waves \X Regions
        <3>1. severed' = severed \/ \E r \in Regions : severed' = severed \cup {<<w, r>>}
            BY <1>3 DEF SessionLost
        <3> QED
            BY <3>1 DEF TypeOK
    <2>3. lostSessions' \in 0..MaxLost
        BY <1>3 DEF SessionLost, TypeOK
    <2> QED
        BY <1>3, <2>1, <2>2, <2>3 DEF SessionLost, TypeOK, ReadDone
<1>4. CASE \E r \in Regions : ItemFails(w, r)
    BY <1>4 DEF ItemFails, SetTask, TypeOK, ReadDone
<1> QED
    BY <1>1, <1>2, <1>3, <1>4

\* Every step keeps the types.
LEMMA TypeStep ==
    ASSUME TypeOK, ReadDone, [Next]_vars
    PROVE  TypeOK' /\ ReadDone'
<1>1. CASE UNCHANGED vars
    BY <1>1 DEF vars, storeVars, catalogVars, waveVars, envVars, TypeOK, ReadDone
<1>2. ASSUME NEW w \in Waves, Step(w)
      PROVE  TypeOK' /\ ReadDone'
    BY <1>2, OpeningTypes, RegionTypes, PublicationTypes, FinalizationTypes DEF Step, WaveStep
<1>3. ASSUME NEW w \in Waves,
             \/ PublishFails(w) \/ WaveFails(w) \/ SessionLost(w)
             \/ \E r \in Regions : ItemFails(w, r)
      PROVE  TypeOK' /\ ReadDone'
    BY <1>3, FailureTypes
<1>4. CASE Fence
    BY <1>4 DEF Fence, storeVars, catalogVars, waveVars, TypeOK, ReadDone
<1> QED
    BY <1>1, <1>2, <1>3, <1>4 DEF Next, Done

\* The variables of the protocol keep their types, for any horizon and any waves.
THEOREM TypeCorrect == Spec => []TypeOK
<1>1. Init => TypeOK /\ ReadDone
    BY InitTypes
<1>2. (TypeOK /\ ReadDone) /\ [Next]_vars => (TypeOK /\ ReadDone)'
    BY TypeStep
<1> QED
    BY <1>1, <1>2, PTL DEF Spec
----------------------------------------------------------------------------
(* Truthful markers. *)

LEMMA InitCommit ==
    ASSUME Init
    PROVE  Commit
BY DEF Init, Commit, GateHeld, GateExcludesWriters, WritersOwn, StoredWhole, Truthful,
       Holding, AtWork, Absent, NoWave

\* With no session lost, a free gate means that nobody writes.
LEMMA FreeGate ==
    ASSUME severed = {}, GateFree, NEW w \in Waves, NEW r \in Regions
    PROVE  ~AtWork(w, r)
<1>1. AtWork(w, r) => <<w, r>> \in Sharing
    BY DEF AtWork, Sharing
<1> QED
    BY <1>1 DEF GateFree

\* A step that touches neither regions nor tasks and moves the gate by the rules.
LEMMA GateMoves ==
    ASSUME TypeOK, Commit, NEW w \in Waves,
           UNCHANGED <<marker, data, task, severed>>,
           \A v \in Waves \ {w} : pc'[v] = pc[v],
           pc'[w] \in Holding => gate' = w,
           gate' = gate \/ (GateFree /\ gate' = w) \/ (gate = w /\ gate' = NoWave)
    PROVE  Commit'
<1>1. \A v \in Waves : v # NoWave
    BY WavesAssumption DEF NoWave
<1>2. GateFree => gate = NoWave /\ \A v \in Waves, r \in Regions : ~AtWork(v, r)
    <2>1. GateFree => gate = NoWave
        BY DEF GateFree
    <2>2. severed = {}
        BY DEF Commit
    <2> QED
        BY <2>1, <2>2, FreeGate
<1>3. GateHeld'
    <2>1. \A v \in Waves \ {w} : pc'[v] \in Holding => gate = v
        BY DEF Commit, GateHeld
    <2> QED
        BY <1>1, <1>2, <2>1 DEF GateHeld
<1>4. GateExcludesWriters'
    BY <1>2 DEF Commit, GateExcludesWriters, AtWork
<1> QED
    BY <1>3, <1>4 DEF Commit, WritersOwn, StoredWhole, Truthful, AtWork

\* The steps of a wave outside its regions.
LEMMA WaveCommit ==
    ASSUME TypeOK, Commit, NEW w \in Waves, WaveStep(w)
    PROVE  Commit'
<1> USE DEF storeVars, catalogVars, envVars, Goto, Holding
<1> DEFINE Moves ==
        /\ UNCHANGED <<marker, data, task, severed>>
        /\ \A v \in Waves \ {w} : pc'[v] = pc[v]
        /\ pc'[w] \in Holding => gate' = w
        /\ gate' = gate \/ (GateFree /\ gate' = w) \/ (gate = w /\ gate' = NoWave)
<1>0. pc \in [Waves -> Stages] /\ (pc[w] \in Holding => gate = w)
    BY DEF TypeOK, Commit, GateHeld
<1>1. CASE Reserve(w)
    <2>1. Moves
        BY <1>0, <1>1 DEF Reserve
    <2> QED
        BY <2>1, GateMoves
<1>2. CASE StartRepair(w)
    <2>1. Moves
        BY <1>0, <1>2 DEF StartRepair
    <2> QED
        BY <2>1, GateMoves
<1>3. CASE OpenFast(w)
    <2>1. Moves
        BY <1>0, <1>3 DEF OpenFast
    <2> QED
        BY <2>1, GateMoves
<1>4. CASE OpenExisting(w)
    <2>1. Moves
        BY <1>0, <1>4 DEF OpenExisting
    <2> QED
        BY <2>1, GateMoves
<1>5. CASE CreateStore(w)
    <2>1. Moves
        BY <1>0, <1>5 DEF CreateStore
    <2> QED
        BY <2>1, GateMoves
<1>6. CASE CreateArrays(w)
    <2>1. Moves
        BY <1>0, <1>6 DEF CreateArrays
    <2> QED
        BY <2>1, GateMoves
<1>7. CASE WriteVersion(w)
    <2>1. Moves
        BY <1>0, <1>7 DEF WriteVersion, Release
    <2> QED
        BY <2>1, GateMoves
<1>8. CASE BeginPreUpdate(w)
    <2>1. Moves
        BY <1>0, <1>8 DEF BeginPreUpdate
    <2> QED
        BY <2>1, GateMoves
<1>9. CASE EndPreUpdate(w)
    <2>1. Moves
        BY <1>0, <1>9 DEF EndPreUpdate, Release
    <2> QED
        BY <2>1, GateMoves
<1>10. CASE ResolveRun(w)
    <2>1. Moves
        BY <1>0, <1>10 DEF ResolveRun
    <2> QED
        BY <2>1, GateMoves
<1>11. CASE \E l \in Leads : BeginPublish(w, l)
    <2>1. Moves
        BY <1>0, <1>11 DEF BeginPublish
    <2> QED
        BY <2>1, GateMoves
<1>12. CASE EndPublish(w)
    <2>1. Moves
        BY <1>0, <1>12 DEF EndPublish, Release
    <2> QED
        BY <2>1, GateMoves
<1>13. CASE BeginRead(w)
    <2>1. Moves
        BY <1>0, <1>13 DEF BeginRead
    <2> QED
        BY <2>1, GateMoves
<1>14. CASE EndRead(w)
    <2>1. Moves
        BY <1>0, <1>14 DEF EndRead
    <2> QED
        BY <2>1, GateMoves
<1>15. CASE BeginCommit(w)
    <2>1. Moves
        BY <1>0, <1>15 DEF BeginCommit
    <2> QED
        BY <2>1, GateMoves
<1>16. CASE CommitCatalog(w)
    <2>1. Moves
        BY <1>0, <1>16 DEF CommitCatalog, Release
    <2> QED
        BY <2>1, GateMoves
<1> QED
    BY <1>1, <1>2, <1>3, <1>4, <1>5, <1>6, <1>7, <1>8, <1>9, <1>10, <1>11, <1>12,
       <1>13, <1>14, <1>15, <1>16 DEF WaveStep

\* The steps on a region.
LEMMA RegionCommit ==
    ASSUME TypeOK, Commit, NEW w \in Waves, NEW r \in Regions, RegionStep(w, r)
    PROVE  Commit'
<1> USE DEF storeVars, catalogVars, envVars, Goto, SetTask
<1>0. /\ marker \in [Regions -> MarkerSet(States)]
      /\ data \in [Regions -> SUBSET (Waves \cup {Fill})]
      /\ task \in [Waves -> [Regions -> {"none", "marked", "writing", "stored", "done", "failed"}]]
      /\ \A v \in Waves : v # NoWave
    BY WavesAssumption DEF TypeOK, States, NoWave
\* Two writers of one region carry the same generation: they are one.
<1>a. \A v \in Waves : AtWork(v, r) /\ AtWork(w, r) => v = w
    <2> SUFFICES ASSUME NEW v \in Waves, AtWork(v, r), AtWork(w, r)
                 PROVE  v = w
        OBVIOUS
    <2>1. marker[r] = Marker("updating", v) /\ marker[r] = Marker("updating", w)
        BY DEF Commit, WritersOwn
    <2>2. marker[r].gen = v /\ marker[r].gen = w
        BY <2>1 DEF Marker
    <2> QED
        BY <2>2
<1>1. CASE PutUpdating(w, r)
    <2>1. gate = w /\ gate # NoWave
        BY <1>0, <1>1 DEF PutUpdating, Commit, GateHeld, Holding
    <2>2. \A v \in Waves, q \in Regions : ~AtWork(v, q)
        BY <2>1 DEF Commit, GateExcludesWriters
    <2>3. \A v \in Waves, q \in Regions : ~AtWork(v, q)'
        BY <1>0, <1>1, <2>2 DEF PutUpdating, AtWork
    <2>4. Truthful'
        BY <1>0, <1>1 DEF PutUpdating, Commit, Truthful, Marker
    <2>5. StoredWhole' /\ WritersOwn' /\ GateExcludesWriters'
        BY <2>3 DEF StoredWhole, WritersOwn, GateExcludesWriters, AtWork
    <2>6. GateHeld' /\ severed' = {}
        BY <1>1 DEF PutUpdating, Commit, GateHeld
    <2> QED
        BY <2>4, <2>5, <2>6 DEF Commit
<1>2. CASE BeginWrite(w, r)
    <2>1. \/ data' = data /\ task' = [task EXCEPT ![w][r] = "failed"]
          \/ /\ marker[r] = Marker("updating", w)
             /\ data' = [data EXCEPT ![r] = @ \cup {w}]
             /\ task' = [task EXCEPT ![w][r] = "writing"]
        BY <1>2 DEF BeginWrite, Owns
    <2>2. gate = NoWave /\ task[w][r] = "marked" /\ UNCHANGED <<marker, gate, pc, severed>>
        BY <1>2 DEF BeginWrite
    <2>3. WritersOwn'
        BY <1>0, <2>1, <2>2 DEF Commit, WritersOwn, AtWork
    <2>4. StoredWhole'
        <3>1. \A v \in Waves, q \in Regions : task'[v][q] = "stored" => task[v][q] = "stored"
            <4>1. \E t \in {"failed", "writing"} : task' = [task EXCEPT ![w][r] = t]
                BY <2>1
            <4> QED
                BY <1>0, <4>1
        <3>2. data' # data => \A v \in Waves : task[v][r] # "stored"
            <4> SUFFICES ASSUME data' # data, NEW v \in Waves, task[v][r] = "stored"
                         PROVE  FALSE
                OBVIOUS
            <4>1. marker[r] = Marker("updating", w) /\ marker[r] = Marker("updating", v)
                BY <2>1 DEF Commit, WritersOwn, AtWork
            <4>2. v = w
                BY <4>1 DEF Marker
            <4> QED
                BY <2>2, <4>2
        <3>3. \A q \in Regions : q # r => data'[q] = data[q]
            BY <1>0, <2>1
        <3> QED
            BY <3>1, <3>2, <3>3 DEF Commit, StoredWhole
    <2>5. Truthful'
        BY <1>0, <2>1, <2>2 DEF Commit, Truthful, Marker
    <2>6. GateHeld' /\ GateExcludesWriters' /\ severed' = {}
        BY <2>2 DEF Commit, GateHeld, GateExcludesWriters
    <2> QED
        BY <2>3, <2>4, <2>5, <2>6 DEF Commit
<1>3. CASE FinishData(w, r)
    <2>1. AtWork(w, r) /\ marker[r] = Marker("updating", w)
        BY <1>3 DEF FinishData, AtWork, Commit, WritersOwn
    <2>2. OtherWriters(w, r) = {}
        BY <1>a, <2>1 DEF OtherWriters, AtWork
    <2>3. /\ data' = [data EXCEPT ![r] = {w}]
          /\ task' = [task EXCEPT ![w][r] = "stored"]
          /\ UNCHANGED <<marker, gate, pc, severed>>
        BY <1>3, <2>2 DEF FinishData
    <2>4. WritersOwn'
        BY <1>0, <2>1, <2>3 DEF Commit, WritersOwn, AtWork
    <2>5. StoredWhole'
        <3>1. \A v \in Waves : task'[v][r] = "stored" => v = w
            BY <1>0, <1>a, <2>1, <2>3 DEF AtWork
        <3> QED
            BY <1>0, <2>3, <3>1 DEF Commit, StoredWhole
    <2>6. Truthful'
        BY <1>0, <2>1, <2>3 DEF Commit, Truthful, Marker
    <2>7. GateHeld' /\ GateExcludesWriters' /\ severed' = {}
        BY <1>0, <2>1, <2>3 DEF Commit, GateHeld, GateExcludesWriters, AtWork
    <2> QED
        BY <2>4, <2>5, <2>6, <2>7 DEF Commit
<1>4. CASE Complete(w, r)
    <2>1. AtWork(w, r) /\ data[r] = {w}
        BY <1>4 DEF Complete, AtWork, Commit, StoredWhole
    <2>2. /\ marker' = [marker EXCEPT ![r] = Marker("complete", w)]
          /\ task' = [task EXCEPT ![w][r] = "done"]
          /\ severed' = {}
          /\ UNCHANGED <<data, gate, pc>>
        BY <1>4 DEF Complete, Commit
    <2>3. WritersOwn'
        <3>1. \A v \in Waves : task'[v][r] \notin {"writing", "stored"}
            BY <1>0, <1>a, <2>1, <2>2 DEF AtWork
        <3> QED
            BY <1>0, <2>2, <3>1 DEF Commit, WritersOwn, AtWork
    <2>4. StoredWhole'
        BY <1>0, <2>2 DEF Commit, StoredWhole
    <2>5. Truthful'
        BY <1>0, <2>1, <2>2 DEF Commit, Truthful, Marker
    <2>6. GateHeld' /\ GateExcludesWriters'
        BY <1>0, <2>2 DEF Commit, GateHeld, GateExcludesWriters, AtWork
    <2> QED
        BY <2>2, <2>3, <2>4, <2>5, <2>6 DEF Commit
<1>5. CASE ReadMarker(w, r)
    BY <1>5 DEF ReadMarker, Commit, GateHeld, GateExcludesWriters, WritersOwn, StoredWhole,
                Truthful, AtWork
<1> QED
    BY <1>1, <1>2, <1>3, <1>4, <1>5 DEF RegionStep

\* Failures release what a wave holds; a lost session voids the promise.
LEMMA FailureCommit ==
    ASSUME TypeOK, Commit, NEW w \in Waves,
           \/ PublishFails(w) \/ WaveFails(w)
           \/ \E r \in Regions : ItemFails(w, r)
    PROVE  Commit'
<1> USE DEF storeVars, catalogVars, Goto, SetTask
<1>0. /\ task \in [Waves -> [Regions -> {"none", "marked", "writing", "stored", "done", "failed"}]]
      /\ pc \in [Waves -> Stages]
      /\ \A v \in Waves : v # NoWave
    BY WavesAssumption DEF TypeOK, NoWave
<1>1. CASE PublishFails(w)
    <2>1. /\ UNCHANGED <<marker, data, task, severed>>
          /\ \A v \in Waves \ {w} : pc'[v] = pc[v]
          /\ pc'[w] \in Holding => gate' = w
          /\ gate' = gate \/ (GateFree /\ gate' = w) \/ (gate = w /\ gate' = NoWave)
        BY <1>0, <1>1 DEF PublishFails, Release, Holding
    <2> QED
        BY <2>1, GateMoves
<1>2. CASE WaveFails(w)
    <2>1. /\ UNCHANGED <<marker, data>> /\ severed' = {}
          /\ \A v \in Waves, q \in Regions :
                task'[v][q] = task[v][q] \/ task'[v][q] = "none"
        BY <1>0, <1>2 DEF WaveFails, Commit
    <2>2. GateHeld'
        BY <1>0, <1>2 DEF WaveFails, Release, Commit, GateHeld, Holding
    <2>3. GateExcludesWriters'
        BY <1>2, <2>1 DEF WaveFails, Release, Commit, GateExcludesWriters, AtWork
    <2>4. WritersOwn' /\ StoredWhole' /\ Truthful'
        BY <2>1 DEF Commit, WritersOwn, StoredWhole, Truthful, AtWork
    <2> QED
        BY <2>1, <2>2, <2>3, <2>4 DEF Commit
<1>3. CASE \E r \in Regions : ItemFails(w, r)
    <2>1. /\ UNCHANGED <<marker, data, gate, pc>> /\ severed' = {}
          /\ \A v \in Waves, q \in Regions :
                task'[v][q] = task[v][q] \/ task'[v][q] = "failed"
        BY <1>0, <1>3 DEF ItemFails, Commit
    <2>2. GateExcludesWriters' /\ GateHeld'
        BY <2>1 DEF Commit, GateExcludesWriters, GateHeld, AtWork
    <2>3. WritersOwn' /\ StoredWhole' /\ Truthful'
        BY <2>1 DEF Commit, WritersOwn, StoredWhole, Truthful, AtWork
    <2> QED
        BY <2>1, <2>2, <2>3 DEF Commit
<1> QED
    BY <1>1, <1>2, <1>3

\* While no session is lost every step keeps the invariant.
LEMMA CommitStep ==
    ASSUME IInv, [Next]_vars
    PROVE  IInv'
<1>1. TypeOK' /\ ReadDone'
    BY TypeStep DEF IInv
<1>2. ASSUME lostSessions' = 0 PROVE Commit'
    <2>1. lostSessions \in Nat
        BY BoundsAssumption DEF IInv, TypeOK
    <2>2. ASSUME NEW w \in Waves PROVE ~SessionLost(w)
        BY <1>2, <2>1 DEF SessionLost
    <2>3. lostSessions = 0
        <3>1. ASSUME NEW w \in Waves, WaveStep(w) PROVE lostSessions' = lostSessions
            BY <3>1 DEF WaveStep, envVars, Reserve, StartRepair, OpenFast, OpenExisting, CreateStore,
                CreateArrays, WriteVersion, BeginPreUpdate, EndPreUpdate, ResolveRun, BeginPublish,
                EndPublish, BeginRead, EndRead, BeginCommit, CommitCatalog
        <3>2. ASSUME NEW w \in Waves, NEW r \in Regions, RegionStep(w, r) \/ ItemFails(w, r)
              PROVE  lostSessions' = lostSessions
            BY <3>2 DEF RegionStep, envVars, PutUpdating, BeginWrite, FinishData, Complete,
                ReadMarker, ItemFails
        <3>3. ASSUME NEW w \in Waves, PublishFails(w) \/ WaveFails(w)
              PROVE  lostSessions' = lostSessions
            BY <3>3 DEF PublishFails, WaveFails
        <3>4. CASE Fence \/ UNCHANGED vars
            BY <1>2, <3>4 DEF Fence, vars, envVars
        <3> QED
            BY <1>2, <2>2, <3>1, <3>2, <3>3, <3>4 DEF Next, Done, Step
    <2>4. Commit /\ TypeOK
        BY <2>3 DEF IInv
    <2>5. CASE UNCHANGED vars \/ Fence
        BY <2>4, <2>5 DEF vars, storeVars, catalogVars, waveVars, envVars, Fence, Commit, GateHeld,
            GateExcludesWriters, WritersOwn, StoredWhole, Truthful, AtWork
    <2>6. ASSUME NEW w \in Waves, Step(w) PROVE Commit'
        BY <2>4, <2>6, WaveCommit, RegionCommit DEF Step
    <2>7. ASSUME NEW w \in Waves,
                 \/ PublishFails(w) \/ WaveFails(w)
                 \/ \E r \in Regions : ItemFails(w, r)
          PROVE  Commit'
        BY <2>4, <2>7, FailureCommit
    <2> QED
        BY <2>2, <2>5, <2>6, <2>7 DEF Next, Done
<1> QED
    BY <1>1, <1>2 DEF IInv

LEMMA Invariance == Spec => []IInv
<1>1. Init => IInv
    BY InitTypes, InitCommit DEF IInv
<1>2. IInv /\ [Next]_vars => IInv'
    BY CommitStep
<1> QED
    BY <1>1, <1>2, PTL DEF Spec

\* A COMPLETE marker tells the truth about the objects of its region.
THEOREM MarkersTruthful == Spec => []CompleteIsTruthful
<1>1. IInv => CompleteIsTruthful
    BY DEF IInv, Commit, Truthful, CompleteIsTruthful
<1> QED
    BY <1>1, Invariance, PTL

\* Who writes a marker: pre-update under the gate, and the worker that owns it.
LEMMA MarkerWriters ==
    ASSUME IInv, lostSessions = 0, [Next]_vars
    PROVE  MarkerStep
<1>0. marker \in [Regions -> MarkerSet(States)]
    BY DEF IInv, TypeOK, States
<1>1. ASSUME NEW w \in Waves, NEW r \in Regions, PutUpdating(w, r)
      PROVE  MarkerStep
    BY <1>0, <1>1 DEF PutUpdating, MarkerStep, Marker
<1>2. ASSUME NEW w \in Waves, NEW r \in Regions, Complete(w, r)
      PROVE  MarkerStep
    <2>1. marker[r] = Marker("updating", w)
        BY <1>2 DEF Complete, IInv, Commit, WritersOwn, AtWork
    <2>2. marker' = [marker EXCEPT ![r] = Marker("complete", w)]
        BY <1>2 DEF Complete
    <2>3. marker'[r].gen = w /\ \A q \in Regions : q # r => marker'[q] = marker[q]
        BY <1>0, <2>2 DEF Marker
    <2> QED
        BY <2>1, <2>3 DEF MarkerStep
<1>3. CASE marker' = marker
    BY <1>3 DEF MarkerStep
<1>4. ASSUME NEW w \in Waves, WaveStep(w)
      PROVE  marker' = marker
    BY <1>4 DEF WaveStep, storeVars, Reserve, StartRepair, OpenFast, OpenExisting, CreateStore,
            CreateArrays, WriteVersion, BeginPreUpdate, EndPreUpdate, ResolveRun, BeginPublish,
            EndPublish, BeginRead, EndRead, BeginCommit, CommitCatalog
<1>5. ASSUME NEW w \in Waves, NEW r \in Regions,
             \/ BeginWrite(w, r) \/ FinishData(w, r) \/ ReadMarker(w, r)
      PROVE  marker' = marker
    BY <1>5 DEF BeginWrite, FinishData, ReadMarker, storeVars
<1>6. ASSUME NEW w \in Waves,
             \/ PublishFails(w) \/ WaveFails(w) \/ SessionLost(w)
             \/ \E r \in Regions : ItemFails(w, r)
      PROVE  marker' = marker
    BY <1>6 DEF PublishFails, WaveFails, SessionLost, ItemFails, storeVars
<1>7. CASE Fence \/ UNCHANGED vars
    BY <1>3, <1>7 DEF Fence, vars, storeVars
<1> QED
    BY <1>1, <1>2, <1>3, <1>4, <1>5, <1>6, <1>7 DEF Next, Done, Step, RegionStep

\* No late worker commits over a newer wave while its session lives.
THEOREM MarkersOwned == Spec => MarkerProtocol
<1>1. IInv /\ [Next]_vars => [lostSessions = 0 => MarkerStep]_vars
    BY MarkerWriters
<1> QED
    BY <1>1, Invariance, PTL DEF MarkerProtocol, Spec

\* With the gate free nobody is in the middle of a change to the store.
LEMMA FencedStill ==
    ASSUME IInv, lostSessions = 0, fenced, GateFree, [Next]_vars
    PROVE  UNCHANGED storeVars
<1>1. \A w \in Waves : pc[w] \notin Holding
    BY WavesAssumption DEF IInv, Commit, GateHeld, GateFree, NoWave
<1>2. \A w \in Waves, r \in Regions : task[w][r] \notin {"writing", "stored"}
    BY FreeGate DEF IInv, Commit, AtWork
<1>3. ASSUME NEW w \in Waves, WaveStep(w)
      PROVE  UNCHANGED storeVars
    BY <1>1, <1>3 DEF WaveStep, storeVars, Holding, Reserve, StartRepair, OpenFast, OpenExisting,
            CreateStore, CreateArrays, WriteVersion, BeginPreUpdate, EndPreUpdate, ResolveRun,
            BeginPublish, EndPublish, BeginRead, EndRead, BeginCommit, CommitCatalog
<1>4. ASSUME NEW w \in Waves, NEW r \in Regions, RegionStep(w, r)
      PROVE  UNCHANGED storeVars
    BY <1>1, <1>2, <1>4 DEF RegionStep, storeVars, Holding, PutUpdating, BeginWrite, FinishData,
            Complete, ReadMarker
<1>5. ASSUME NEW w \in Waves,
             \/ PublishFails(w) \/ WaveFails(w) \/ SessionLost(w)
             \/ \E r \in Regions : ItemFails(w, r)
      PROVE  UNCHANGED storeVars
    BY <1>5 DEF PublishFails, WaveFails, SessionLost, ItemFails
<1>6. CASE Fence \/ UNCHANGED vars
    BY <1>6 DEF Fence, vars
<1> QED
    BY <1>3, <1>4, <1>5, <1>6 DEF Next, Done, Step

\* Once GC has claimed the cycle and the gate is free, the store is still.
THEOREM FencedStoreStill == Spec => FenceHolds
<1>1. IInv /\ [Next]_vars => [lostSessions = 0 /\ fenced /\ GateFree => UNCHANGED storeVars]_vars
    BY FencedStill
<1> QED
    BY <1>1, Invariance, PTL DEF FenceHolds, Spec
----------------------------------------------------------------------------
(* Waves that run one after the other, as the scheduler starts them. *)

Entering == {"reserved", "creating", "typing", "opened"}
Updating == {"marking", "marked", "writing", "publishing", "reading", "read", "committing"}
Weighing == {"reading", "read", "committing"}

\* A wave is over before a later one has begun.
OneAtATime == \A v, w \in Waves : v < w /\ pc[w] # "idle" => Over(v)

\* Only targets are worked on, and only until the finalizer reads its evidence.
WorkersOf(w) ==
    \A r \in Regions : /\ AtWork(w, r) => pc[w] \in {"writing", "publishing"}
                       /\ task[w][r] # "none" => r \in Targets[w]

\* From its pre-update on, a wave with targets keeps the run from being ready.
\* (With a horizon of one lead _resolve_run_id would make it ready.)
StatusOf(w) ==
    /\ pc[w] \in Entering /\ ~same[w] => status = "none"
    /\ pc[w] \in Updating /\ Targets[w] # {} /\ Leads # {FirstLead} => status # "ready"

\* What the finalizer has read is what the markers are, and the manifest says so.
EvidenceOf(w) ==
    /\ pc[w] \in Weighing => \A r \in Regions : \/ seen[w][r] = marker[r]
                                                \/ pc[w] = "reading" /\ seen[w][r].state = "listed"
    /\ pc[w] = "committing" => \A r \in Regions : manifest.serving[r].state = marker[r].state

Agreed ==
    /\ \A r \in Regions : manifest.serving[r].state = marker[r].state
    /\ pairs = PairsIn(CompleteNow)
    /\ HasVariables => ProductLeadsOf(products) = ProductLeads(CompleteNow)
ReadyMeansWhole == Leads # {FirstLead} => ReadyIsWhole

OfWave(w) == WorkersOf(w) /\ StatusOf(w) /\ EvidenceOf(w)
SerialInv == OneAtATime /\ (\A w \in Waves : OfWave(w)) /\ ReadyMeansWhole /\ CommittedTogether

\* The waves beside the one at work are over or have not begun.
Alone(w) == \A v \in Waves : (v < w => Over(v)) /\ (v > w => pc[v] = "idle")

LEMMA OthersRest ==
    ASSUME SingleLeader, SerialInv, NEW w \in Waves, MayStart(w) \/ (pc[w] # "idle" /\ ~Over(w))
    PROVE  Alone(w)
<1>1. \A v \in Waves : v \in Nat
    BY WavesAssumption
<1>2. ~Over(w) /\ (pc[w] # "idle" \/ \A v \in Waves : v < w => Over(v))
    BY DEF MayStart, Over
<1>3. \A v \in Waves : v < w => Over(v)
    BY <1>2 DEF SerialInv, OneAtATime
<1>4. ASSUME NEW v \in Waves, v > w PROVE pc[v] = "idle"
    <2>1. w < v
        BY <1>1, <1>4
    <2> QED
        BY <1>2, <2>1 DEF SerialInv, OneAtATime
<1> QED
    BY <1>3, <1>4 DEF Alone

\* What a wave at work has to keep is what concerns itself.
LEMMA AloneKeeps ==
    ASSUME TypeOK, SerialInv, NEW w \in Waves, Alone(w), TypeOK',
           \A v \in Waves \ {w} : pc'[v] = pc[v] /\ task'[v] = task[v],
           pc'[w] # "idle", OfWave(w)', pc'[w] = "finalized" => Agreed', ReadyMeansWhole'
    PROVE  SerialInv'
<1>1. \A v \in Waves : v \in Nat
    BY WavesAssumption
<1>2. \A v \in Waves \ {w} : v < w \/ v > w
    BY <1>1
<1>3. \A v \in Waves \ {w} : pc[v] \in {"idle", "finalized", "failed"}
    BY <1>2 DEF Alone, Over
<1>4. OneAtATime'
    <2>1. ASSUME NEW v \in Waves, NEW u \in Waves, v < u, pc'[u] # "idle" PROVE Over(v)'
        <3>1. v # u /\ ~(v > u)
            BY <1>1, <2>1
        <3>2. CASE u = w
            BY <2>1, <3>1, <3>2 DEF Alone, Over
        <3>3. CASE u # w
            <4>1. pc[u] # "idle"
                BY <2>1, <3>3
            <4>2. u < w
                BY <1>2, <3>3, <4>1 DEF Alone
            <4>3. v < w
                BY <1>1, <2>1, <4>2
            <4>4. v # w
                BY <1>1, <4>3
            <4> QED
                BY <4>3, <4>4 DEF Alone, Over
        <3> QED
            BY <3>2, <3>3
    <2> QED
        BY <2>1 DEF OneAtATime
<1>5. ASSUME NEW v \in Waves PROVE OfWave(v)'
    <2>1. CASE v = w
        BY <2>1
    <2>2. CASE v # w
        <3>1. pc'[v] \notin Entering \cup Updating \cup Weighing /\ pc'[v] \in {"idle", "finalized", "failed"}
            BY <1>3, <2>2 DEF Entering, Updating, Weighing
        <3>2. WorkersOf(v)'
            <4>1. WorkersOf(v) /\ pc[v] \notin {"writing", "publishing"} /\ task'[v] = task[v]
                BY <1>3, <2>2 DEF SerialInv, OfWave
            <4> QED
                BY <4>1 DEF WorkersOf, AtWork
        <3>3. StatusOf(v)'
            BY <3>1 DEF StatusOf
        <3>4. EvidenceOf(v)'
            BY <3>1 DEF EvidenceOf
        <3> QED
            BY <3>2, <3>3, <3>4 DEF OfWave
    <2> QED
        BY <2>1, <2>2
<1>6. CommittedTogether'
    <2>1. ASSUME NEW u \in Waves, pc'[u] = "finalized", \A v \in Waves : v > u => pc'[v] = "idle"
          PROVE  Agreed'
        <3>1. CASE u = w
            BY <2>1, <3>1
        <3>2. CASE u # w
            <4>1. pc[u] = "finalized"
                BY <2>1, <3>2
            <4>2. u < w
                BY <1>2, <3>2, <4>1 DEF Alone
            <4>3. w > u
                BY <1>1, <4>2
            <4> QED
                BY <2>1, <4>3
        <3> QED
            BY <3>1, <3>2
    <2> QED
        BY <2>1 DEF CommittedTogether, Agreed
<1> QED
    BY <1>4, <1>5, <1>6 DEF SerialInv

LEMMA Shapes ==
    ASSUME TypeOK
    PROVE  /\ pc \in [Waves -> Stages] /\ same \in [Waves -> BOOLEAN]
           /\ task \in [Waves -> [Regions -> {"none", "marked", "writing", "stored", "done", "failed"}]]
           /\ seen \in [Waves -> [Regions -> MarkerSet({"absent", "listed", "updating", "complete"})]]
           /\ marker \in [Regions -> MarkerSet({"absent", "updating", "complete"})]
BY DEF TypeOK

\* Initialization and pre-update of a wave at work.
LEMMA OpeningSerial ==
    ASSUME TypeOK, SerialInv, TypeOK', NEW w \in Waves, Alone(w),
           \/ Reserve(w) \/ StartRepair(w) \/ OpenFast(w) \/ OpenExisting(w)
           \/ CreateStore(w) \/ CreateArrays(w) \/ WriteVersion(w)
           \/ BeginPreUpdate(w) \/ EndPreUpdate(w) \/ ResolveRun(w)
    PROVE  SerialInv'
<1>1. WorkersOf(w) /\ StatusOf(w) /\ ReadyMeansWhole
    BY DEF SerialInv, OfWave
<1>2. UNCHANGED <<marker, task, seen>> /\ \A v \in Waves \ {w} : pc'[v] = pc[v]
    BY Shapes DEF Reserve, StartRepair, OpenFast, OpenExisting, CreateStore, CreateArrays, WriteVersion,
        BeginPreUpdate, EndPreUpdate, ResolveRun, storeVars, Goto
<1>3. /\ pc[w] \notin {"writing", "publishing"}
      /\ pc'[w] \in Entering \cup {"failed", "marking", "marked", "writing"}
    <2>1. CASE Reserve(w) \/ StartRepair(w)
        BY <2>1, Shapes DEF Reserve, StartRepair, MayStart, Goto, Entering
    <2>2. CASE OpenFast(w) \/ OpenExisting(w)
        BY <2>2, Shapes DEF OpenFast, OpenExisting, Goto, Entering
    <2>3. CASE CreateStore(w) \/ CreateArrays(w) \/ WriteVersion(w)
        BY <2>3, Shapes DEF CreateStore, CreateArrays, WriteVersion, Goto, Entering
    <2>4. CASE BeginPreUpdate(w) \/ EndPreUpdate(w) \/ ResolveRun(w)
        BY <2>4, Shapes DEF BeginPreUpdate, EndPreUpdate, ResolveRun, Goto, Entering
    <2> QED
        BY <2>1, <2>2, <2>3, <2>4
<1>4. WorkersOf(w)'
    BY <1>1, <1>2, <1>3 DEF WorkersOf, AtWork
<1>5. EvidenceOf(w)'
    BY <1>3 DEF EvidenceOf, Entering, Weighing
<1>6. StatusOf(w)' /\ (Leads # {FirstLead} => (status' = "ready" => status = "ready"))
    <2>1. CASE Reserve(w)
        BY <2>1, Shapes DEF Reserve, Goto, catalogVars, StatusOf, Entering, Updating
    <2>2. CASE StartRepair(w)
        BY <2>2, Shapes DEF StartRepair, Goto, catalogVars, StatusOf, Entering, Updating
    <2>3. CASE OpenFast(w) \/ OpenExisting(w)
        BY <1>1, <2>3, Shapes DEF OpenFast, OpenExisting, Downgrade, Goto, StatusOf, Entering, Updating
    <2>4. CASE CreateStore(w) \/ CreateArrays(w) \/ WriteVersion(w)
        BY <1>1, <2>4, Shapes DEF CreateStore, CreateArrays, WriteVersion, Goto, catalogVars, StatusOf, Entering, Updating
    <2>5. CASE BeginPreUpdate(w)
        BY <1>1, <2>5, Shapes DEF BeginPreUpdate, Downgrade, Goto, StatusOf, Entering, Updating
    <2>6. CASE EndPreUpdate(w)
        BY <1>1, <2>6, Shapes DEF EndPreUpdate, Goto, catalogVars, StatusOf, Entering, Updating
    <2>7. CASE ResolveRun(w)
        <3>1. pc[w] = "marked" /\ pc'[w] = "writing"
            BY <2>7, Shapes DEF ResolveRun, Goto
        <3>2. ASSUME Leads # {FirstLead} PROVE status' = status \/ status' # "ready"
            <4>1. ASSUME products' = {<<FirstLead, "surface">>} PROVE ~CatalogComplete(products', pairs)
                <5>1. ProductLeadsOf(products') \subseteq {FirstLead}
                    BY <4>1 DEF ProductLeadsOf
                <5> QED
                    BY <3>2, <5>1, HorizonAssumption DEF CatalogComplete
            <4> QED
                BY <2>7, <4>1 DEF ResolveRun, DerivedStatus, catalogVars
        <3> QED
            BY <1>1, <3>1, <3>2 DEF StatusOf, Entering, Updating
    <2> QED
        BY <2>1, <2>2, <2>3, <2>4, <2>5, <2>6, <2>7
<1>7. ReadyMeansWhole'
    BY <1>1, <1>2, <1>6 DEF ReadyMeansWhole, ReadyIsWhole
<1>8. pc'[w] # "idle" /\ pc'[w] # "finalized"
    BY <1>3 DEF Entering
<1> QED
    BY <1>2, <1>4, <1>5, <1>6, <1>7, <1>8, AloneKeeps DEF OfWave

\* Marking, writing and completing a region.
LEMMA RegionSerial ==
    ASSUME TypeOK, SerialInv, TypeOK', NEW w \in Waves, Alone(w), NEW r \in Regions, RegionStep(w, r)
    PROVE  SerialInv'
<1>1. WorkersOf(w) /\ StatusOf(w) /\ EvidenceOf(w) /\ ReadyMeansWhole
    BY DEF SerialInv, OfWave
<1>2. UNCHANGED <<pc, status, same, manifest>> /\ \A v \in Waves \ {w} : task'[v] = task[v]
    BY Shapes DEF RegionStep, PutUpdating, BeginWrite, FinishData, Complete, ReadMarker, storeVars, catalogVars, SetTask
<1>3. StatusOf(w)'
    BY <1>1, <1>2 DEF StatusOf
<1>4. CASE ReadMarker(w, r)
    <2>1. pc[w] = "reading" /\ UNCHANGED <<marker, task>> /\ seen' = [seen EXCEPT ![w][r] = marker[r]]
        BY <1>4 DEF ReadMarker, storeVars
    <2>2. \A q \in Regions : seen'[w][q] = seen[w][q] \/ seen'[w][q] = marker[q]
        BY <2>1, Shapes
    <2>3. EvidenceOf(w)'
        BY <1>1, <1>2, <2>1, <2>2 DEF EvidenceOf, Weighing
    <2>4. WorkersOf(w)' /\ ReadyMeansWhole'
        BY <1>1, <1>2, <2>1 DEF WorkersOf, AtWork, ReadyMeansWhole, ReadyIsWhole
    <2> QED
        BY <1>2, <1>3, <2>1, <2>3, <2>4, AloneKeeps DEF OfWave
<1>5. CASE PutUpdating(w, r) \/ BeginWrite(w, r) \/ FinishData(w, r) \/ Complete(w, r)
    <2>1. /\ \A q \in Regions : q # r => task'[w][q] = task[w][q] /\ marker'[q] = marker[q]
          /\ task'[w][r] \in {"writing", "stored"} => task[w][r] # "none" /\ pc[w] \in {"writing", "publishing"}
          /\ pc[w] \in {"marking", "writing", "publishing"} /\ r \in Targets[w]
        <3>1. CASE PutUpdating(w, r)
            BY <3>1, Shapes DEF PutUpdating, SetTask
        <3>2. CASE BeginWrite(w, r)
            BY <1>1, <3>2, Shapes DEF BeginWrite, SetTask, WorkersOf
        <3>3. CASE FinishData(w, r)
            BY <1>1, <3>3, Shapes DEF FinishData, SetTask, WorkersOf, AtWork
        <3>4. CASE Complete(w, r)
            BY <1>1, <3>4, Shapes DEF Complete, SetTask, WorkersOf, AtWork
        <3> QED
            BY <1>5, <3>1, <3>2, <3>3, <3>4
    <2>2. WorkersOf(w)'
        BY <1>1, <1>2, <2>1 DEF WorkersOf, AtWork
    <2>3. EvidenceOf(w)'
        BY <1>2, <2>1 DEF EvidenceOf, Weighing
    <2>4. ReadyMeansWhole'
        BY <1>1, <1>2, <2>1 DEF StatusOf, Updating, ReadyMeansWhole, ReadyIsWhole
    <2>5. pc'[w] # "idle" /\ pc'[w] # "finalized"
        BY <1>2, <2>1
    <2> QED
        BY <1>2, <1>3, <2>2, <2>3, <2>4, <2>5, AloneKeeps DEF OfWave
<1> QED
    BY <1>4, <1>5 DEF RegionStep

\* Publication, and the reading of the evidence.
LEMMA PublicationSerial ==
    ASSUME TypeOK, SerialInv, TypeOK', NEW w \in Waves, Alone(w),
           (\E l \in Leads : BeginPublish(w, l)) \/ EndPublish(w) \/ BeginRead(w) \/ EndRead(w) \/ BeginCommit(w)
    PROVE  SerialInv'
<1>1. WorkersOf(w) /\ StatusOf(w) /\ EvidenceOf(w) /\ ReadyMeansWhole
    BY DEF SerialInv, OfWave
<1>2. UNCHANGED <<marker, task, status, same>> /\ \A v \in Waves \ {w} : pc'[v] = pc[v]
    BY Shapes DEF BeginPublish, EndPublish, BeginRead, EndRead, BeginCommit, storeVars, catalogVars, Goto
<1>3. pc[w] \in Updating /\ pc'[w] \in Updating \cup {"failed"}
    BY Shapes DEF BeginPublish, EndPublish, BeginRead, EndRead, BeginCommit, Goto, Updating
<1>4. StatusOf(w)' /\ ReadyMeansWhole'
    BY <1>1, <1>2, <1>3 DEF StatusOf, Entering, Updating, ReadyMeansWhole, ReadyIsWhole
<1>5. WorkersOf(w)'
    <2>1. CASE (\E l \in Leads : BeginPublish(w, l)) \/ EndPublish(w)
        <3>1. pc'[w] \in {"writing", "publishing"}
            BY <2>1, Shapes DEF BeginPublish, EndPublish, Goto
        <3> QED
            BY <1>1, <1>2, <3>1 DEF WorkersOf, AtWork
    <2>2. CASE BeginRead(w)
        <3>1. \A r \in Targets[w] : task[w][r] \in {"done", "failed"}
            BY <2>2 DEF BeginRead
        <3> QED
            BY <1>1, <1>2, <3>1 DEF WorkersOf, AtWork
    <2>3. CASE EndRead(w) \/ BeginCommit(w)
        <3>1. pc[w] \notin {"writing", "publishing"}
            BY <2>3 DEF EndRead, BeginCommit
        <3> QED
            BY <1>1, <1>2, <3>1 DEF WorkersOf, AtWork
    <2> QED
        BY <2>1, <2>2, <2>3
<1>6. EvidenceOf(w)'
    <2>1. CASE (\E l \in Leads : BeginPublish(w, l)) \/ EndPublish(w)
        <3>1. pc'[w] \in {"writing", "publishing"}
            BY <2>1, Shapes DEF BeginPublish, EndPublish, Goto
        <3> QED
            BY <3>1 DEF EvidenceOf, Weighing
    <2>2. CASE BeginRead(w)
        <3>1. pc'[w] \in {"failed", "reading"}
            BY <2>2, Shapes DEF BeginRead, Goto
        <3>2. \A r \in Regions : seen'[w][r] = marker[r] \/ seen'[w][r].state = "listed"
            BY <2>2, Shapes DEF BeginRead, Marker
        <3> QED
            BY <1>2, <3>1, <3>2 DEF EvidenceOf, Weighing
    <2>3. CASE EndRead(w)
        <3>1. pc[w] = "reading" /\ pc'[w] = "read" /\ seen' = seen /\ \A r \in Regions : seen[w][r].state # "listed"
            BY <2>3, Shapes DEF EndRead, Goto
        <3> QED
            BY <1>1, <1>2, <3>1 DEF EvidenceOf, Weighing
    <2>4. CASE BeginCommit(w)
        <3>1. pc[w] = "read" /\ pc'[w] \in {"failed", "committing"} /\ seen' = seen
            BY <2>4, Shapes DEF BeginCommit, Goto
        <3>2. \A r \in Regions : seen[w][r] = marker[r]
            BY <1>1, <3>1 DEF EvidenceOf, Weighing
        <3>3. \A r \in Regions : Serving(w)[r].state = marker[r].state
            BY <3>2 DEF Serving, Marker
        <3>4. pc'[w] = "committing" => manifest'.serving = Serving(w)
            BY <2>4, Shapes DEF BeginCommit, Goto
        <3> QED
            BY <1>2, <3>1, <3>2, <3>3, <3>4 DEF EvidenceOf, Weighing
    <2> QED
        BY <2>1, <2>2, <2>3, <2>4
<1>7. pc'[w] # "idle" /\ pc'[w] # "finalized"
    BY <1>3 DEF Updating
<1> QED
    BY <1>2, <1>4, <1>5, <1>6, <1>7, AloneKeeps DEF OfWave

\* Reconciliation leaves products of exactly the committed leads.
LEMMA ReconciledLeads ==
    ASSUME HasVariables, NEW S \in SUBSET Regions
    PROVE  ProductLeadsOf(ReconciledProducts(S)) = ProductLeads(S)
<1>1. MeanLeads(S) \subseteq ProductLeads(S)
    BY DEF ProductLeads
<1>2. \A p \in ReconciledProducts(S) : p[1] \in ProductLeads(S)
    BY <1>1 DEF ReconciledProducts
<1>3. ASSUME NEW l \in ProductLeads(S) PROVE \E p \in ReconciledProducts(S) : p[1] = l
    <2>1. CASE l \in MeanLeads(S)
        <3>1. <<l, "ensemble_mean">> \in ReconciledProducts(S)
            BY <2>1 DEF ReconciledProducts
        <3> QED
            BY <3>1
    <2>2. CASE l \notin MeanLeads(S)
        <3>1. <<l, "surface">> \in ReconciledProducts(S)
            BY <2>2 DEF ReconciledProducts
        <3> QED
            BY <3>1
    <2> QED
        BY <2>1, <2>2
<1> QED
    BY <1>2, <1>3 DEF ProductLeadsOf

\* A catalog that is complete and agrees with the evidence stands for all
\* regions that are required.
LEMMA CompleteByEvidence ==
    ASSUME NEW prods, NEW prs, NEW S \in SUBSET Regions,
           CatalogComplete(prods, prs), StoreConsistent(prods, prs, S)
    PROVE  Required \subseteq S
<1>1. CASE Ensemble
    BY <1>1 DEF Required, CatalogComplete, StoreConsistent, PairsIn
<1>2. CASE ~Ensemble
    <2>1. \A s \in Streams : s = 0
        BY <1>2 DEF Ensemble, Members
    <2>2. Leads \subseteq LeadsOf(S)
        BY <1>2 DEF CatalogComplete, StoreConsistent, StoreLeads
    <2>3. ASSUME NEW r \in Regions PROVE r \in S
        <3>1. PICK q \in S : LeadOf(q) = LeadOf(r)
            <4>1. LeadOf(r) \in Leads
                BY DEF Regions, LeadOf
            <4> QED
                BY <2>2, <4>1 DEF LeadsOf
        <3>2. q \in Regions /\ q[1] = r[1] /\ q[2] = r[2]
            BY <2>1, <3>1 DEF Regions, LeadOf
        <3>3. q = r
            BY <3>2 DEF Regions
        <3> QED
            BY <3>3
    <2> QED
        BY <1>2, <2>3 DEF Required
<1> QED
    BY <1>1, <1>2

\* The commit: catalog, manifest and markers agree, and ready means whole.
LEMMA CommitSerial ==
    ASSUME TypeOK, SerialInv, TypeOK', NEW w \in Waves, Alone(w), CommitCatalog(w)
    PROVE  SerialInv'
<1> DEFINE S == Evidence(w)
<1>1. WorkersOf(w) /\ EvidenceOf(w) /\ pc[w] = "committing"
    BY DEF SerialInv, OfWave, CommitCatalog
<1>2. /\ \A r \in Regions : seen[w][r] = marker[r]
      /\ \A r \in Regions : manifest.serving[r].state = marker[r].state
    BY <1>1 DEF EvidenceOf, Weighing
<1>3. S = CompleteNow /\ S \in SUBSET Regions
    BY <1>2 DEF Evidence, CompleteNow
<1>4. /\ UNCHANGED <<store, marker, manifest, task, seen, same>>
      /\ \A v \in Waves \ {w} : pc'[v] = pc[v]
      /\ pc'[w] = "finalized"
    BY Shapes DEF CommitCatalog, storeVars, Goto
<1>5. /\ products' = ReconciledProducts(S) /\ pairs' = ReconciledPairs(S)
      /\ status' = DerivedStatus(products', pairs', StoreConsistent(products', pairs', S))
    BY DEF CommitCatalog
<1> HIDE DEF S
<1>6. CompleteNow' = CompleteNow
    BY <1>4 DEF CompleteNow
<1>7. pairs' = PairsIn(S)
    <2>1. CASE Ensemble
        BY <1>5, <2>1 DEF ReconciledPairs
    <2>2. CASE ~Ensemble
        <3>1. MemberPairs = {}
            BY <2>2 DEF Ensemble, MemberPairs
        <3> QED
            BY <1>5, <2>2, <3>1 DEF ReconciledPairs, TypeOK, PairsIn
    <2> QED
        BY <2>1, <2>2
<1>8. HasVariables' => ProductLeadsOf(products') = ProductLeads(S)
    <2>1. HasVariables' = HasVariables
        BY <1>4 DEF HasVariables
    <2> QED
        BY <1>3, <1>5, <2>1, ReconciledLeads
<1>9. Agreed'
    <2>1. \A r \in Regions : manifest'.serving[r].state = marker'[r].state
        BY <1>2, <1>4
    <2>2. pairs' = PairsIn(CompleteNow')
        BY <1>3, <1>6, <1>7
    <2>3. HasVariables' => ProductLeadsOf(products') = ProductLeads(CompleteNow')
        BY <1>3, <1>6, <1>8
    <2> QED
        BY <2>1, <2>2, <2>3 DEF Agreed, PairsIn, ProductLeads, MeanLeads, StoreLeads
<1>10. ReadyMeansWhole'
    <2>1. ASSUME status' = "ready" PROVE Required \subseteq S
        <3>1. CatalogComplete(products', pairs') /\ StoreConsistent(products', pairs', S)
            BY <1>5, <2>1 DEF DerivedStatus
        <3> QED
            BY <1>3, <3>1, CompleteByEvidence
    <2>2. \A r \in S : marker'[r].state = "complete"
        BY <1>3, <1>4 DEF CompleteNow
    <2> QED
        BY <2>1, <2>2 DEF ReadyMeansWhole, ReadyIsWhole
<1>11. OfWave(w)'
    <2>1. WorkersOf(w)'
        BY <1>1, <1>4 DEF WorkersOf, AtWork
    <2>2. StatusOf(w)' /\ EvidenceOf(w)'
        BY <1>4 DEF StatusOf, EvidenceOf, Entering, Updating, Weighing
    <2> QED
        BY <2>1, <2>2 DEF OfWave
<1> QED
    BY <1>4, <1>9, <1>10, <1>11, AloneKeeps

\* A wave that fails keeps what the run is.
LEMMA FailureSerial ==
    ASSUME TypeOK, SerialInv, TypeOK', NEW w \in Waves, Alone(w),
           PublishFails(w) \/ WaveFails(w) \/ \E r \in Regions : ItemFails(w, r)
    PROVE  SerialInv'
<1>1. WorkersOf(w) /\ StatusOf(w) /\ EvidenceOf(w) /\ ReadyMeansWhole
    BY DEF SerialInv, OfWave
<1>2. /\ UNCHANGED <<marker, status, same, seen, manifest>>
      /\ \A v \in Waves \ {w} : pc'[v] = pc[v] /\ task'[v] = task[v]
    BY Shapes DEF PublishFails, WaveFails, ItemFails, storeVars, catalogVars, Goto, SetTask
<1>3. ReadyMeansWhole'
    BY <1>1, <1>2 DEF ReadyMeansWhole, ReadyIsWhole
<1>4. CASE PublishFails(w)
    <2>1. pc[w] \in {"writing", "publishing"} /\ pc'[w] \in {"writing", "publishing"} /\ task' = task
        BY <1>4, Shapes DEF PublishFails, Goto
    <2>2. OfWave(w)'
        BY <1>1, <1>2, <2>1 DEF OfWave, WorkersOf, AtWork, StatusOf, EvidenceOf, Entering, Updating, Weighing
    <2> QED
        BY <1>2, <1>3, <2>1, <2>2, AloneKeeps
<1>5. CASE WaveFails(w)
    <2>1. pc'[w] = "failed" /\ \A r \in Regions : task'[w][r] = "none"
        BY <1>5, Shapes DEF WaveFails, Goto
    <2>2. OfWave(w)'
        BY <2>1 DEF OfWave, WorkersOf, AtWork, StatusOf, EvidenceOf, Entering, Updating, Weighing
    <2> QED
        BY <1>2, <1>3, <2>1, <2>2, AloneKeeps
<1>6. ASSUME NEW r \in Regions, ItemFails(w, r) PROVE SerialInv'
    <2>1. pc' = pc /\ pc[w] \in {"writing", "publishing"} /\ task[w][r] # "none"
        BY <1>1, <1>6 DEF ItemFails, WorkersOf, AtWork
    <2>2. task'[w][r] = "failed" /\ \A q \in Regions : q # r => task'[w][q] = task[w][q]
        BY <1>6, Shapes DEF ItemFails, SetTask
    <2>3. WorkersOf(w)'
        BY <1>1, <2>1, <2>2 DEF WorkersOf, AtWork
    <2>4. StatusOf(w)' /\ EvidenceOf(w)'
        BY <1>1, <1>2, <2>1 DEF StatusOf, EvidenceOf, Weighing
    <2> QED
        BY <1>2, <1>3, <2>1, <2>3, <2>4, AloneKeeps DEF OfWave
<1> QED
    BY <1>4, <1>5, <1>6

\* Every step of a wave is one of the wave that is at work, or begins one.
LEMMA OnlyOneActs ==
    ASSUME SingleLeader, TypeOK, SerialInv, NEW w \in Waves,
           Step(w) \/ PublishFails(w) \/ WaveFails(w) \/ \E r \in Regions : ItemFails(w, r)
    PROVE  Alone(w)
<1>1. WorkersOf(w)
    BY DEF SerialInv, OfWave
<1>2. MayStart(w) \/ (pc[w] # "idle" /\ ~Over(w))
    <2>1. CASE WaveStep(w)
        BY <2>1 DEF WaveStep, Reserve, StartRepair, OpenFast, OpenExisting, CreateStore, CreateArrays,
            WriteVersion, BeginPreUpdate, EndPreUpdate, ResolveRun, BeginPublish, EndPublish, BeginRead,
            EndRead, BeginCommit, CommitCatalog, Over
    <2>2. ASSUME NEW r \in Regions, RegionStep(w, r) \/ ItemFails(w, r)
          PROVE  pc[w] # "idle" /\ ~Over(w)
        BY <1>1, <2>2 DEF RegionStep, PutUpdating, BeginWrite, FinishData, Complete, ReadMarker, ItemFails,
            WorkersOf, AtWork, Over
    <2>3. CASE PublishFails(w) \/ WaveFails(w)
        BY <2>3 DEF PublishFails, WaveFails, Over
    <2> QED
        BY <2>1, <2>2, <2>3 DEF Step
<1> QED
    BY <1>2, OthersRest

LEMMA SerialStep ==
    ASSUME SingleLeader, IInv, SerialInv, [Next]_vars
    PROVE  SerialInv'
<1>1. TypeOK /\ TypeOK'
    BY CommitStep DEF IInv
<1>2. ASSUME NEW w \in Waves, Step(w) PROVE SerialInv'
    <2>1. Alone(w)
        BY <1>1, <1>2, OnlyOneActs
    <2>2. CASE \E r \in Regions : RegionStep(w, r)
        BY <1>1, <2>1, <2>2, RegionSerial
    <2>3. CASE WaveStep(w)
        BY <1>1, <2>1, <2>3, OpeningSerial, PublicationSerial, CommitSerial DEF WaveStep
    <2> QED
        BY <1>2, <2>2, <2>3 DEF Step
<1>3. ASSUME NEW w \in Waves, PublishFails(w) \/ WaveFails(w) \/ \E r \in Regions : ItemFails(w, r)
      PROVE  SerialInv'
    BY <1>1, <1>3, OnlyOneActs, FailureSerial
<1>4. CASE (\E w \in Waves : SessionLost(w)) \/ Fence \/ UNCHANGED vars
    <2>1. UNCHANGED <<pc, same, task, seen, store, marker, manifest, status, products, pairs>>
        BY <1>4 DEF SessionLost, Fence, vars, storeVars, catalogVars, waveVars
    <2>2. OneAtATime' /\ \A w \in Waves : OfWave(w)'
        BY <2>1 DEF SerialInv, OneAtATime, Over, OfWave, WorkersOf, AtWork, StatusOf, EvidenceOf
    <2>3. ReadyMeansWhole'
        BY <2>1 DEF SerialInv, ReadyMeansWhole, ReadyIsWhole
    <2>4. CompleteNow' = CompleteNow /\ HasVariables' = HasVariables
        BY <2>1 DEF CompleteNow, HasVariables
    <2>5. CommittedTogether'
        BY <2>1, <2>4 DEF SerialInv, CommittedTogether, PairsIn, ProductLeads, MeanLeads, StoreLeads
    <2> QED
        BY <2>2, <2>3, <2>5 DEF SerialInv
<1> QED
    BY <1>2, <1>3, <1>4 DEF Next, Done

LEMMA InitSerial == Init => SerialInv
<1> SUFFICES ASSUME Init PROVE SerialInv
    OBVIOUS
<1>1. \A w \in Waves : pc[w] = "idle" /\ \A r \in Regions : task[w][r] = "none"
    BY DEF Init
<1>2. OneAtATime /\ CommittedTogether
    BY <1>1 DEF OneAtATime, CommittedTogether
<1>3. \A w \in Waves : OfWave(w)
    BY <1>1 DEF OfWave, WorkersOf, AtWork, StatusOf, EvidenceOf, Entering, Updating, Weighing
<1>4. ReadyMeansWhole
    BY DEF Init, ReadyMeansWhole, ReadyIsWhole
<1> QED
    BY <1>2, <1>3, <1>4 DEF SerialInv

LEMMA SerialInvariance ==
    ASSUME SingleLeader
    PROVE  Spec => []SerialInv
<1>1. IInv /\ SerialInv /\ [Next]_vars => SerialInv'
    BY SerialStep
<1> QED
    BY InitSerial, <1>1, Invariance, PTL DEF Spec

\* Where waves run one after the other, a run that is ready is whole: whichever
\* wave crashed, failed, lost a session or met the fence, every region that is
\* required is COMPLETE.
THEOREM ReadyRunsWhole ==
    ASSUME SingleLeader, Leads # {FirstLead}
    PROVE  Spec => []ReadyIsWhole
<1>1. SerialInv => ReadyIsWhole
    BY DEF SerialInv, ReadyMeansWhole
<1> QED
    BY <1>1, SerialInvariance, PTL

\* Where waves run one after the other, the wave that finalized last has left
\* manifest, catalog and markers in agreement.
THEOREM FinalizedTogether ==
    ASSUME SingleLeader
    PROVE  Spec => []CommittedTogether
<1>1. SerialInv => CommittedTogether
    BY DEF SerialInv
<1> QED
    BY <1>1, SerialInvariance, PTL
=============================================================================
