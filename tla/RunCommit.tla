------------------------------ MODULE RunCommit ------------------------------
(***************************************************************************)
(* The commit protocol of one forecast run: its Zarr store (data regions,  *)
(* region markers, manifest) and its catalog rows, as RunCoordinator moves *)
(* them together.  A wave reserves the run, opens the store, marks its     *)
(* target regions UPDATING, writes them, publishes settled leads and       *)
(* finalizes; a wave without targets is a status repair.                   *)
(*                                                                         *)
(* A region is <<stream, lead>>; stream 0 is the deterministic run or the  *)
(* ensemble mean, the others are members.  A wave's number serves as the   *)
(* generation of its markers and of the data it writes.  The turnstile and *)
(* the gate are one lock here (StoreGate models the pair); work done under *)
(* it is split wherever another actor or a crash can tell the difference.  *)
(* Nothing of the run has been reclaimed, and every region has a physical  *)
(* chunk of its own.                                                       *)
(***************************************************************************)
EXTENDS Naturals, FiniteSets

CONSTANTS
    Waves,          \* numbers of the waves, 0 is none
    Streams, Leads, \* the canonical horizon of the run
    FirstLead,      \* the horizon's first entry
    Targets,        \* Targets[w]: the regions wave w writes ({}: status repair)
    Faulty,         \* waves whose process or object store calls may fail
    MaxFaults,      \* bound: crashes and failed calls
    MaxLost,        \* bound: database sessions lost while holding the gate
    SingleLeader,   \* whether waves run one after the other (scheduler only)
    MayFence        \* whether GC may claim the cycle for deletion

Regions == Streams \X Leads
NoWave == 0
Fill == 0       \* what a region holds before its first write

ASSUME HorizonAssumption ==
    /\ Streams \subseteq Nat /\ Leads \subseteq Nat \ {0} /\ IsFiniteSet(Leads)
    /\ FirstLead \in Leads
ASSUME WavesAssumption ==
    /\ Waves \subseteq Nat \ {0} /\ Faulty \subseteq Waves
    /\ Targets \in [Waves -> SUBSET Regions]
ASSUME BoundsAssumption ==
    MaxFaults \in Nat /\ MaxLost \in Nat /\ {SingleLeader, MayFence} \subseteq BOOLEAN

VARIABLES
    store,      \* "absent", "coords" (no arrays yet), "schema", "ready" (version sidecar)
    marker,     \* marker[r]: state and generation of region r's marker
    data,       \* data[r]: the waves whose objects make up region r
    manifest,   \* kind, generation and serving state of the committed manifest
    status,     \* model_runs.status, "none" without a row
    products,   \* forecast_products as <<lead, product type>>
    pairs,      \* ensemble_member_products
    fenced,     \* the cycle is claimed for deletion
    gate,       \* the wave that holds the store gate EXCLUSIVE
    severed,    \* <<wave, region>>: writes that go on after their session died
    pc,         \* pc[w]: the wave's stage
    same,       \* same[w]: is_same_cycle
    task,       \* task[w][r]: the wave's work on a region
    offered,    \* offered[w]: leads whose publication was tried
    seen,       \* seen[w]: marker evidence the finalizer has read so far
    keep,       \* keep[w]: the manifest generation the finalizer will write
    faults, lostSessions

storeVars   == <<store, marker, data, manifest>>
catalogVars == <<status, products, pairs>>
waveVars    == <<pc, same, task, offered, seen, keep>>
envVars     == <<fenced, severed, faults, lostSessions>>
vars == <<storeVars, catalogVars, gate, waveVars, envVars>>

Absent == [state |-> "absent", gen |-> NoWave]
Marker(s, w) == [state |-> s, gen |-> w]
Stages == {"idle", "reserved", "creating", "typing", "opened", "marking", "marked",
           "writing", "publishing", "reading", "read", "committing", "finalized", "failed"}
Over(w) == pc[w] \in {"finalized", "failed"}

LeadOf(r) == r[2]
LeadsOf(S) == {LeadOf(r) : r \in S}
Members == Streams \ {0}
Ensemble == Members # {}
MemberPairs == Members \X Leads

Goto(w, l) == pc' = [pc EXCEPT ![w] = l]
SetTask(w, r, t) == task' = [task EXCEPT ![w][r] = t]
----------------------------------------------------------------------------
(* The store gate. *)

\* Region writers that hold the gate SHARED.
Sharing ==
    {s \in Waves \X Regions : task[s[1]][s[2]] \in {"writing", "stored"}} \ severed

GateFree == gate = NoWave /\ Sharing = {}
Release(w) == gate' = IF gate = w THEN NoWave ELSE gate

----------------------------------------------------------------------------
(* Catalog reconciliation and status, from a set S of COMPLETE regions. *)

PairsIn(S) == S \cap MemberPairs
MeanLeads(S) == IF Ensemble THEN LeadsOf(S \ MemberPairs) ELSE {}
StoreLeads(S) == IF Ensemble THEN LeadsOf(PairsIn(S)) ELSE LeadsOf(S)
ProductLeads(S) == IF MeanLeads(S) # {} THEN MeanLeads(S) ELSE StoreLeads(S)

\* Products are kept and restored only for variables the store carries.
HasVariables == store \in {"schema", "ready"}

\* Mutant: products of leads that are no longer committed are kept.
ReconciledProductsKeepStale(S) ==
    IF ~HasVariables
    THEN {}
    ELSE products \cup ({<<l, "ensemble_mean">> : l \in MeanLeads(S)}
                         \cup {<<l, "surface">> : l \in ProductLeads(S) \ MeanLeads(S)})

ReconciledProducts(S) ==
    IF ~HasVariables
    THEN {}
    ELSE {p \in products : p[1] \in ProductLeads(S)
                            /\ (p[1] \in MeanLeads(S) => p[2] = "ensemble_mean")}
         \cup {<<l, "ensemble_mean">> : l \in MeanLeads(S)}
         \cup {<<l, "surface">> : l \in ProductLeads(S) \ MeanLeads(S)}

\* Mutant: the regions of the mean, or of a deterministic run, count as pairs.
ReconciledPairsOfAll(S) == S
\* Mutant: pairs that are no longer committed are kept.
ReconciledPairsKeepStale(S) == IF Ensemble THEN pairs \cup PairsIn(S) ELSE pairs
ReconciledPairs(S) == IF Ensemble THEN PairsIn(S) ELSE pairs

ProductLeadsOf(prods) == {p[1] : p \in prods}

\* Mutant: a run is complete when its leads are, whatever pairs are missing.
CatalogCompleteLeads(prods, prs) == Leads \subseteq ProductLeadsOf(prods)

\* Invocation completeness: every expected lead, and exactly the expected pairs.
CatalogComplete(prods, prs) ==
    Leads \subseteq ProductLeadsOf(prods) /\ (Ensemble => prs = MemberPairs)

StoreConsistent(prods, prs, S) ==
    ProductLeadsOf(prods) = StoreLeads(S) /\ (Ensemble => prs = PairsIn(S))

DerivedStatus(prods, prs, consistent) ==
    IF CatalogComplete(prods, prs) /\ consistent THEN "ready"
    ELSE IF prods = {} THEN "processing" ELSE "partial"

----------------------------------------------------------------------------
Init ==
    /\ store = "absent"
    /\ marker = [r \in Regions |-> Absent]
    /\ data = [r \in Regions |-> {Fill}]
    /\ manifest = [kind |-> "none", gen |-> <<NoWave, 0>>, serving |-> [r \in Regions |-> Absent]]
    /\ status = "none" /\ products = {} /\ pairs = {}
    /\ fenced = FALSE
    /\ gate = NoWave /\ severed = {}
    /\ pc = [w \in Waves |-> "idle"]
    /\ same = [w \in Waves |-> FALSE]
    /\ task = [w \in Waves |-> [r \in Regions |-> "none"]]
    /\ offered = [w \in Waves |-> {}]
    /\ seen = [w \in Waves |-> [r \in Regions |-> Absent]]
    /\ keep = [w \in Waves |-> <<NoWave, 0>>]
    /\ faults = 0 /\ lostSessions = 0

----------------------------------------------------------------------------
(* Reservation and initialization. *)

MayStart(w) ==
    /\ pc[w] = "idle"
    /\ SingleLeader => \A v \in Waves : v < w => Over(v)

\* reserve_run flushes its rows in a session that is closed without a commit:
\* only the answer whether a row existed survives.
Reserve(w) ==
    /\ MayStart(w)
    /\ Targets[w] # {}
    /\ Goto(w, IF fenced THEN "failed" ELSE "reserved")
    /\ same' = [same EXCEPT ![w] = status # "none"]
    /\ UNCHANGED <<storeVars, catalogVars, gate, task, offered, seen, keep, envVars>>

\* _repair_cycle_status: the finalizer without a wave.
StartRepair(w) ==
    /\ MayStart(w)
    /\ Targets[w] = {}
    /\ Goto(w, IF fenced \/ status = "none" THEN "failed" ELSE "writing")
    /\ UNCHANGED <<storeVars, catalogVars, gate, same, task, offered, seen, keep, envVars>>

\* Mutant: a re-ingest leaves the run's status alone.
DowngradeNever(w) == UNCHANGED status
Downgrade(w) == IF same[w] THEN status' = "partial" ELSE UNCHANGED status

\* The store validates without the gate; nobody looks at the fence.
OpenFast(w) ==
    /\ pc[w] = "reserved"
    /\ store = "ready"
    /\ Downgrade(w)
    /\ Goto(w, "opened")
    /\ UNCHANGED <<storeVars, products, pairs, gate, same, task, offered, seen, keep, envVars>>

\* Under the EXCLUSIVE gate, a store that opens is taken as it is.
OpenExisting(w) ==
    /\ pc[w] = "reserved"
    /\ store \in {"coords", "schema"}
    /\ GateFree
    /\ IF fenced
       THEN Goto(w, "failed") /\ UNCHANGED status
       ELSE Goto(w, "opened") /\ Downgrade(w)
    /\ UNCHANGED <<storeVars, products, pairs, gate, same, task, offered, seen, keep, envVars>>

\* guard_full_overwrite refuses the absent store of a ready run; otherwise the
\* group with its coordinates is written.
CreateStore(w) ==
    /\ pc[w] = "reserved"
    /\ store = "absent"
    /\ GateFree
    /\ IF fenced \/ status = "ready"
       THEN Goto(w, "failed") /\ UNCHANGED <<gate, store>>
       ELSE gate' = w /\ store' = "coords" /\ Goto(w, "creating")
    /\ UNCHANGED <<marker, data, manifest, catalogVars, same, task, offered, seen, keep, envVars>>

CreateArrays(w) ==
    /\ pc[w] = "creating"
    /\ store' = "schema"
    /\ Goto(w, "typing")
    /\ UNCHANGED <<marker, data, manifest, catalogVars, gate, same, task, offered, seen, keep, envVars>>

WriteVersion(w) ==
    /\ pc[w] = "typing"
    /\ store' = "ready"
    /\ Release(w)
    /\ Goto(w, "opened")
    /\ UNCHANGED <<marker, data, manifest, catalogVars, same, task, offered, seen, keep, envVars>>

----------------------------------------------------------------------------
(* Pre-update. *)

BeginPreUpdate(w) ==
    /\ pc[w] = "opened"
    /\ GateFree
    /\ IF fenced
       THEN Goto(w, "failed") /\ UNCHANGED <<gate, status>>
       ELSE gate' = w /\ Downgrade(w) /\ Goto(w, "marking")
    /\ UNCHANGED <<storeVars, products, pairs, same, task, offered, seen, keep, envVars>>

\* Mutant: a region that is UPDATING already is not marked again.
PutUpdatingUnlessDeclared(w, r) ==
    /\ pc[w] = "marking"
    /\ r \in Targets[w] /\ task[w][r] = "none"
    /\ marker' = [marker EXCEPT ![r] = IF @.state = "updating" THEN @ ELSE Marker("updating", w)]
    /\ SetTask(w, r, "marked")
    /\ UNCHANGED <<store, data, manifest, catalogVars, gate, pc, same, offered, seen, keep, envVars>>

PutUpdating(w, r) ==
    /\ pc[w] = "marking"
    /\ r \in Targets[w] /\ task[w][r] = "none"
    /\ marker' = [marker EXCEPT ![r] = Marker("updating", w)]
    /\ SetTask(w, r, "marked")
    /\ UNCHANGED <<store, data, manifest, catalogVars, gate, pc, same, offered, seen, keep, envVars>>

EndPreUpdate(w) ==
    /\ pc[w] = "marking"
    /\ \A r \in Targets[w] : task[w][r] = "marked"
    /\ Release(w)
    /\ Goto(w, "marked")
    /\ UNCHANGED <<storeVars, catalogVars, same, task, offered, seen, keep, envVars>>

\* _resolve_run_id: without a run row, record_run makes one from a synthetic
\* dataset that carries every variable at the first expected lead.
ResolveRun(w) ==
    /\ pc[w] = "marked"
    /\ IF status # "none"
       THEN UNCHANGED catalogVars
       ELSE /\ products' = {<<FirstLead, "surface">>}
            /\ status' = DerivedStatus(products', pairs, TRUE)
            /\ UNCHANGED pairs
    /\ Goto(w, "writing")
    /\ UNCHANGED <<storeVars, gate, same, task, offered, seen, keep, envVars>>

----------------------------------------------------------------------------
(* Region writes (write_region_worker). *)

\* The locks are the region's physical chunks: none in a store without arrays.
RegionLocked(r) == HasVariables /\ \E v \in Waves : <<v, r>> \in Sharing

\* Mutant: the worker looks at the marker's state and not at its generation.
OwnsAnyUpdating(w, r) == marker[r].state = "updating"
Owns(w, r) == marker[r] = Marker("updating", w)

\* Mutant: the worker does not look at the fence under the gate.
BeginWriteUnfenced(w, r) ==
    /\ pc[w] \in {"writing", "publishing"}
    /\ task[w][r] = "marked"
    /\ gate = NoWave /\ ~RegionLocked(r)
    /\ IF ~Owns(w, r)
       THEN SetTask(w, r, "failed") /\ UNCHANGED data
       ELSE SetTask(w, r, "writing") /\ data' = [data EXCEPT ![r] = @ \cup {w}]
    /\ UNCHANGED <<store, marker, manifest, catalogVars, gate, pc, same, offered, seen, keep, envVars>>

\* Fence and marker are checked under the SHARED gate and the region's lock;
\* the first object written makes the region a mixture.
BeginWrite(w, r) ==
    /\ pc[w] \in {"writing", "publishing"}
    /\ task[w][r] = "marked"
    /\ gate = NoWave /\ ~RegionLocked(r)
    /\ IF fenced \/ ~Owns(w, r)
       THEN SetTask(w, r, "failed") /\ UNCHANGED data
       ELSE SetTask(w, r, "writing") /\ data' = [data EXCEPT ![r] = @ \cup {w}]
    /\ UNCHANGED <<store, marker, manifest, catalogVars, gate, pc, same, offered, seen, keep, envVars>>

OtherWriters(w, r) == {v \in Waves \ {w} : task[v][r] = "writing"}

\* All objects of the region are written; a failed attempt is repeated whole.
FinishData(w, r) ==
    /\ task[w][r] = "writing"
    /\ data' = [data EXCEPT ![r] = {w} \cup OtherWriters(w, r)]
    /\ SetTask(w, r, "stored")
    /\ UNCHANGED <<store, marker, manifest, catalogVars, gate, pc, same, offered, seen, keep, envVars>>

\* Mutant: the COMPLETE marker is written before the data.
CompleteEarly(w, r) ==
    /\ task[w][r] \in {"writing", "stored"}
    /\ marker' = [marker EXCEPT ![r] = Marker("complete", w)]
    /\ SetTask(w, r, "done")
    /\ severed' = severed \ {<<w, r>>}
    /\ UNCHANGED <<store, data, manifest, catalogVars, gate, pc, same, offered, seen, keep,
                   fenced, faults, lostSessions>>

\* The COMPLETE marker is the last store-side operation.
Complete(w, r) ==
    /\ task[w][r] = "stored"
    /\ marker' = [marker EXCEPT ![r] = Marker("complete", w)]
    /\ SetTask(w, r, "done")
    /\ severed' = severed \ {<<w, r>>}
    /\ UNCHANGED <<store, data, manifest, catalogVars, gate, pc, same, offered, seen, keep,
                   fenced, faults, lostSessions>>

----------------------------------------------------------------------------
(* Publication of a settled lead. *)

Settled(w, l) ==
    \A r \in Targets[w] : LeadOf(r) = l => task[w][r] \in {"done", "failed"}

CompleteAt(l) == {r \in Regions : LeadOf(r) = l /\ marker[r].state = "complete"}

\* The regions publication looks at: members of an ensemble, never its mean.
PublishedAt(l) == IF Ensemble THEN PairsIn(CompleteAt(l)) ELSE CompleteAt(l)

BeginPublish(w, l) ==
    /\ pc[w] = "writing"
    /\ l \in LeadsOf(Targets[w]) \ offered[w]
    /\ Settled(w, l)
    /\ GateFree
    /\ offered' = [offered EXCEPT ![w] = @ \cup {l}]
    /\ IF fenced
       THEN UNCHANGED <<gate, pc, catalogVars>>
       ELSE /\ gate' = w
            /\ Goto(w, "publishing")
            /\ pairs' = IF Ensemble THEN pairs \cup PublishedAt(l) ELSE pairs
            /\ products' = IF PublishedAt(l) = {} THEN products
                           ELSE products \cup {<<l, "surface">>}
            /\ UNCHANGED status
    /\ UNCHANGED <<storeVars, same, task, seen, keep, envVars>>

\* The catalog is committed before the manifest; its generation is always new.
EndPublish(w) ==
    /\ pc[w] = "publishing"
    /\ manifest' = [kind |-> "lead", gen |-> <<w, Cardinality(offered[w])>>,
                    serving |-> [r \in Regions |-> Absent]]
    /\ Release(w)
    /\ Goto(w, "writing")
    /\ UNCHANGED <<store, marker, data, catalogVars, same, task, offered, seen, keep, envVars>>

----------------------------------------------------------------------------
(* Finalization: marker evidence is listed and read without the gate. *)

BeginRead(w) ==
    /\ pc[w] = "writing"
    /\ \A r \in Targets[w] : task[w][r] \in {"done", "failed"}
    /\ offered[w] = LeadsOf(Targets[w])
    /\ Goto(w, IF fenced THEN "failed" ELSE "reading")
    /\ seen' = [seen EXCEPT ![w] = [r \in Regions |->
            IF marker[r] = Absent THEN Absent ELSE Marker("listed", NoWave)]]
    /\ UNCHANGED <<storeVars, catalogVars, gate, same, task, offered, keep, envVars>>

\* The listed markers are read one by one.
ReadMarker(w, r) ==
    /\ pc[w] = "reading"
    /\ seen[w][r].state = "listed"
    /\ seen' = [seen EXCEPT ![w][r] = marker[r]]
    /\ UNCHANGED <<storeVars, catalogVars, gate, pc, same, task, offered, keep, envVars>>

Evidence(w) == {r \in Regions : seen[w][r].state = "complete"}

\* The fingerprint leaves out the generation of an UPDATING region.
Serving(w) ==
    [r \in Regions |-> IF seen[w][r].state = "updating" THEN Marker("updating", NoWave)
                       ELSE seen[w][r]]

\* An unchanged serving state keeps the manifest's generation.
EndRead(w) ==
    /\ pc[w] = "reading"
    /\ \A r \in Regions : seen[w][r].state # "listed"
    /\ keep' = [keep EXCEPT ![w] =
            IF manifest.kind = "final" /\ manifest.serving = Serving(w)
            THEN manifest.gen ELSE <<w, Cardinality(Leads) + 1>>]
    /\ Goto(w, "read")
    /\ UNCHANGED <<storeVars, catalogVars, gate, same, task, offered, seen, envVars>>

BeginCommit(w) ==
    /\ pc[w] = "read"
    /\ GateFree
    /\ IF fenced
       THEN Goto(w, "failed") /\ UNCHANGED <<gate, manifest>>
       ELSE /\ gate' = w
            /\ manifest' = [kind |-> "final", gen |-> keep[w], serving |-> Serving(w)]
            /\ Goto(w, "committing")
    /\ UNCHANGED <<store, marker, data, catalogVars, same, task, offered, seen, keep, envVars>>

\* Reconciliation and status are one transaction.
CommitCatalog(w) ==
    /\ pc[w] = "committing"
    /\ products' = ReconciledProducts(Evidence(w))
    /\ pairs' = ReconciledPairs(Evidence(w))
    /\ status' = DerivedStatus(products', pairs', StoreConsistent(products', pairs', Evidence(w)))
    /\ Release(w)
    /\ Goto(w, "finalized")
    /\ UNCHANGED <<storeVars, same, task, offered, seen, keep, envVars>>

----------------------------------------------------------------------------
(* Failures and the environment. *)

MayFail(w) == w \in Faulty /\ faults < MaxFaults /\ faults' = faults + 1

\* A download, a decode or a region write fails for good.
ItemFails(w, r) ==
    /\ MayFail(w)
    /\ \/ task[w][r] \in {"writing", "stored"}
       \/ task[w][r] = "marked" /\ pc[w] \in {"writing", "publishing"}
    /\ SetTask(w, r, "failed")
    /\ severed' = severed \ {<<w, r>>}
    /\ UNCHANGED <<storeVars, catalogVars, gate, pc, same, offered, seen, keep,
                   fenced, lostSessions>>

\* A gate timeout or a failed manifest write only costs the publication.
PublishFails(w) ==
    /\ MayFail(w)
    /\ \/ /\ pc[w] = "writing"
          /\ \E l \in LeadsOf(Targets[w]) \ offered[w] :
                Settled(w, l) /\ offered' = [offered EXCEPT ![w] = @ \cup {l}]
          /\ UNCHANGED <<gate, pc>>
       \/ /\ pc[w] = "publishing"
          /\ Release(w)
          /\ Goto(w, "writing")
          /\ UNCHANGED offered
    /\ UNCHANGED <<storeVars, catalogVars, same, task, seen, keep, fenced, severed, lostSessions>>

\* The wave raises or its process dies: its locks go, its writes stop.
WaveFails(w) ==
    /\ MayFail(w)
    /\ pc[w] # "idle" /\ ~Over(w)
    /\ Release(w)
    /\ Goto(w, "failed")
    /\ task' = [task EXCEPT ![w] = [r \in Regions |-> "none"]]
    /\ severed' = severed \ ({w} \X Regions)
    /\ UNCHANGED <<storeVars, catalogVars, same, offered, seen, keep, fenced, lostSessions>>

\* The database drops a session whose owner is busy with the object store.
SessionLost(w) ==
    /\ lostSessions < MaxLost
    /\ lostSessions' = lostSessions + 1
    /\ \/ pc[w] = "marking" /\ gate = w /\ gate' = NoWave /\ UNCHANGED severed
       \/ \E r \in Regions : <<w, r>> \in Sharing /\ severed' = severed \cup {<<w, r>>}
                              /\ UNCHANGED gate
    /\ UNCHANGED <<storeVars, catalogVars, waveVars, fenced, faults>>

\* GC claims the cycle for deletion.
Fence ==
    /\ MayFence /\ ~fenced /\ status # "none"
    /\ fenced' = TRUE
    /\ UNCHANGED <<storeVars, catalogVars, gate, waveVars, severed, faults, lostSessions>>

WaveStep(w) ==
    \/ Reserve(w) \/ StartRepair(w) \/ OpenFast(w) \/ OpenExisting(w)
    \/ CreateStore(w) \/ CreateArrays(w) \/ WriteVersion(w)
    \/ BeginPreUpdate(w) \/ EndPreUpdate(w) \/ ResolveRun(w)
    \/ \E l \in Leads : BeginPublish(w, l)
    \/ EndPublish(w) \/ BeginRead(w) \/ EndRead(w) \/ BeginCommit(w) \/ CommitCatalog(w)

RegionStep(w, r) ==
    \/ PutUpdating(w, r) \/ BeginWrite(w, r) \/ FinishData(w, r) \/ Complete(w, r)
    \/ ReadMarker(w, r)

Step(w) == WaveStep(w) \/ \E r \in Regions : RegionStep(w, r)

Done == (\A w \in Waves : Over(w)) /\ UNCHANGED vars

Next ==
    \/ \E w \in Waves :
        \/ Step(w) \/ PublishFails(w) \/ WaveFails(w) \/ SessionLost(w)
        \/ \E r \in Regions : ItemFails(w, r)
    \/ Fence
    \/ Done

Spec == Init /\ [][Next]_vars /\ \A w \in Waves : WF_vars(Step(w))
----------------------------------------------------------------------------
(* Properties *)

MarkerSet(states) == [state : states, gen : Waves \cup {NoWave}]
Generations == (Waves \cup {NoWave}) \X Nat

\* The values the store, the catalog rows and the waves can take.
TypeOK ==
    /\ store \in {"absent", "coords", "schema", "ready"}
    /\ marker \in [Regions -> MarkerSet({"absent", "updating", "complete"})]
    /\ data \in [Regions -> SUBSET (Waves \cup {Fill})]
    /\ manifest \in [kind : {"none", "lead", "final"}, gen : Generations,
                     serving : [Regions -> MarkerSet({"absent", "updating", "complete"})]]
    /\ status \in {"none", "processing", "partial", "ready"}
    /\ products \subseteq Leads \X {"surface", "ensemble_mean"}
    /\ pairs \subseteq MemberPairs
    /\ fenced \in BOOLEAN
    /\ gate \in Waves \cup {NoWave}
    /\ severed \subseteq Waves \X Regions
    /\ pc \in [Waves -> Stages]
    /\ same \in [Waves -> BOOLEAN]
    /\ task \in [Waves -> [Regions -> {"none", "marked", "writing", "stored", "done", "failed"}]]
    /\ offered \in [Waves -> SUBSET Leads]
    /\ seen \in [Waves -> [Regions -> MarkerSet({"absent", "listed", "updating", "complete"})]]
    /\ keep \in [Waves -> Generations]
    /\ faults \in 0..MaxFaults /\ lostSessions \in 0..MaxLost

\* A COMPLETE marker tells the truth: its region consists of the objects of the
\* wave whose generation it carries and of nothing else, whatever crashed or was
\* retried before, as long as no session was lost.
CompleteIsTruthful ==
    lostSessions = 0 =>
        \A r \in Regions : marker[r].state = "complete" => data[r] = {marker[r].gen}

\* A region's marker only ever becomes UPDATING, or goes from UPDATING to COMPLETE
\* of the same generation: no late worker commits over a newer wave.
MarkerStep ==
    \A r \in Regions : marker'[r] # marker[r] =>
        \/ marker'[r].state = "updating"
        \/ marker[r] = Marker("updating", marker'[r].gen)
MarkerProtocol == [][lostSessions = 0 => MarkerStep]_vars

\* The regions readiness is about: the means of an ensemble are optional.
Required == IF Ensemble THEN MemberPairs ELSE Regions

\* A ready run is whole: every required region is COMPLETE.
ReadyIsWhole ==
    status = "ready" => \A r \in Required : marker[r].state = "complete"

\* The run cannot be ready while one of its regions is UPDATING.  It can when two
\* waves overlap: a finalizer commits evidence it read before the other's markers.
ReadyHasNoUpdating ==
    status = "ready" => \A r \in Regions : marker[r].state # "updating"

CompleteNow == {r \in Regions : marker[r].state = "complete"}

\* Waves that run one after the other leave manifest, catalog and markers in
\* agreement when the last of them has finalized.
CommittedTogether ==
    \A w \in Waves :
        pc[w] = "finalized" /\ (\A v \in Waves : v > w => pc[v] = "idle") =>
            /\ \A r \in Regions : manifest.serving[r].state = marker[r].state
            /\ pairs = PairsIn(CompleteNow)
            /\ HasVariables => ProductLeadsOf(products) = ProductLeads(CompleteNow)

\* Once GC has claimed the cycle, whoever was at work finishes and nobody starts:
\* with the gate free the store stays as it is.
FenceHolds ==
    [][lostSessions = 0 /\ fenced /\ GateFree => UNCHANGED storeVars]_vars

\* Once the store is initialized, a wave that fails or dies anywhere is made good
\* by the next one: the run becomes ready and stays so.
InitializedConverges == <>(store = "ready") => <>[](status = "ready")

\* A crashed wave is made good by the next one wherever it crashed (ARCHITECTURE.md).
\* It is not when it crashed between the coordinates and the arrays of a new store.
Converges == <>[](status = "ready")
=============================================================================
