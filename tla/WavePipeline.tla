----------------------------- MODULE WavePipeline -----------------------------
(***************************************************************************)
(* One ingestion wave (wave_runner._run_wave_impl): the retained seed, the *)
(* staged pipeline of the other items, the drain and the finalization.     *)
(*                                                                         *)
(* A work item is <<stream, lead>>; stream 0 is the deterministic run or   *)
(* the ensemble mean, the others are members.  Every task is a coroutine   *)
(* on one event loop: an action is what runs between two awaits.  The      *)
(* cancel event is a threading.Event that another thread sets at any time. *)
(* Semaphores are asyncio's: first come, first served; only the staging    *)
(* envelope needs that order, because an item waits inside it for another. *)
(* Region writes are their outcome only; StoreGate models their locks.     *)
(***************************************************************************)
EXTENDS Naturals, FiniteSets

CONSTANTS
    Streams,        \* members of the wave (0: the mean or the deterministic run)
    WaveLeads,          \* target lead times in hours
    DownloadSlots, DecodeSlots, WriteSlots,   \* stage capacities
    NoItem,         \* no seed chosen yet
    MayCancel       \* whether somebody may ask for cancellation

Items == Streams \X WaveLeads

ASSUME ItemsAssumption == Streams \subseteq Nat /\ WaveLeads \subseteq Nat /\ NoItem \notin Items
ASSUME SlotsAssumption == {DownloadSlots, DecodeSlots, WriteSlots} \subseteq Nat \ {0}
ASSUME CancelAssumption == MayCancel \in BOOLEAN

StagingSlots == DownloadSlots + DecodeSlots + WriteSlots

VARIABLES
    phase,      \* "seeding", "preparing", "running", "drained", "finalized", "failed"
    work,       \* items not dropped as unreadable seed candidates
    seed,       \* the retained seed
    stage,      \* stage[i]: where the task of item i is
    decoded,    \* items whose decode_completed_event is set
    raw,        \* items whose raw accumulation is kept in predecessor_states
    fed,        \* items that were decoded with their predecessor's raw state
    outcome,    \* outcome[i]: how item i settled
    publishedLeads,  \* published_leads
    cancelled,  \* the wave's cancel event
    broken      \* a worker of the decode pool died: the pool takes no more work

waveVars == <<phase, work, seed, stage, decoded, raw, fed, outcome, publishedLeads, cancelled, broken>>

Stages == {"none", "new", "queued", "staged", "downloading", "downloaded", "ready",
           "decoding", "decoded", "toWrite", "writing", "done"}

----------------------------------------------------------------------------
LeadOf(i) == i[2]

\* Work items are listed lead-major, the mean before the members.
Precedes(i, j) ==
    LeadOf(i) < LeadOf(j) \/ (LeadOf(i) = LeadOf(j) /\ i[1] < j[1])

\* A lead whose upstream file accumulates over six hours needs the raw field of
\* the lead three hours earlier.
IsReset(i) == LeadOf(i) % 6 = 0 /\ LeadOf(i) > 0
Predecessor(i) == <<i[1], LeadOf(i) - 3>>

Candidate(i) == i \in work /\ \A j \in work \ {i} : Precedes(i, j)

Pipelined == work \ {seed}
In(stages) == {i \in Pipelined : stage[i] \in stages}
InStaging == In(Stages \ {"none", "new", "queued", "done"})

Move(i, s) == stage' = [stage EXCEPT ![i] = s]

WaveInit ==
    /\ phase = "seeding"
    /\ work = Items
    /\ seed = NoItem
    /\ stage = [i \in Items |-> "none"]
    /\ decoded = {}
    /\ raw = {}
    /\ fed = {}
    /\ outcome = [i \in Items |-> "pending"]
    /\ publishedLeads = {}
    /\ cancelled = FALSE
    /\ broken = FALSE

----------------------------------------------------------------------------
(* The retained seed. *)

\* The first item that decodes becomes the seed.
SeedDecoded(i) ==
    /\ phase = "seeding" /\ ~broken
    /\ Candidate(i)
    /\ seed' = i
    /\ raw' = raw \cup {i}
    /\ decoded' = decoded \cup {i}
    /\ phase' = "preparing"
    /\ UNCHANGED <<work, stage, fed, outcome, publishedLeads, cancelled, broken>>

\* MissingPredecessorLeadError, DeaccumulationError: only a reset lead raises
\* them.  The candidate is settled and dropped, the next one is tried.
SeedUnreadable(i) ==
    /\ phase = "seeding" /\ ~broken
    /\ Candidate(i)
    /\ IsReset(i)
    /\ work' = work \ {i}
    /\ decoded' = decoded \cup {i}
    /\ outcome' = [outcome EXCEPT ![i] = "failed"]
    /\ UNCHANGED <<phase, seed, stage, raw, fed, publishedLeads, cancelled, broken>>

\* Any other failure of the seed, a broken pool among them, no candidate left, a refused reservation, a
\* failed initialization or pre-update ends the wave before it opens.
Abort ==
    /\ phase \in {"seeding", "preparing"}
    /\ phase' = "failed"
    /\ UNCHANGED <<work, seed, stage, decoded, raw, fed, outcome, publishedLeads, cancelled, broken>>

\* The run is reserved, the store initialized and every region marked UPDATING
\* (refused once cancelled); then all tasks are created in one go.
Prepare ==
    /\ phase = "preparing"
    /\ ~cancelled
    /\ phase' = "running"
    /\ stage' = [i \in Items |-> IF i \in work THEN "new" ELSE "none"]
    /\ UNCHANGED <<work, seed, decoded, raw, fed, outcome, publishedLeads, cancelled, broken>>

----------------------------------------------------------------------------
(* Settling. *)

\* _on_item_settled: a lead whose last item settles is published once; a failed
\* publication is only logged.
Outstanding(i) ==
    {j \in work \ {i} : LeadOf(j) = LeadOf(i) /\ outcome[j] \in {"pending", "skipped", "lost"}}

\* Mutant: the lead after the settled one is recorded as published.
SettlePublishesNext(i, result) ==
    /\ Move(i, "done")
    /\ outcome' = [outcome EXCEPT ![i] = result]
    /\ publishedLeads' = IF Outstanding(i) = {} THEN publishedLeads \cup {LeadOf(i) + 3} ELSE publishedLeads

SettleItem(i, result) ==
    /\ Move(i, "done")
    /\ outcome' = [outcome EXCEPT ![i] = result]
    /\ publishedLeads' = IF Outstanding(i) = {} THEN publishedLeads \cup {LeadOf(i)} ELSE publishedLeads

\* Mutant: a task that sees the cancel event offers its lead all the same.
SkipSettles(i) ==
    /\ cancelled
    /\ Move(i, "done")
    /\ outcome' = [outcome EXCEPT ![i] = "skipped"]
    /\ publishedLeads' = publishedLeads \cup {LeadOf(i)}
    /\ UNCHANGED <<decoded, raw, fed>>

\* A task that sees the cancel event returns without settling anything.
Skip(i) ==
    /\ cancelled
    /\ Move(i, "done")
    /\ outcome' = [outcome EXCEPT ![i] = "skipped"]
    /\ UNCHANGED <<decoded, raw, fed, publishedLeads>>

Advance(i, s) ==
    /\ ~cancelled
    /\ Move(i, s)
    /\ UNCHANGED <<decoded, raw, fed, outcome, publishedLeads>>

Running == phase = "running"
Frame == UNCHANGED <<phase, work, seed, cancelled, broken>>

----------------------------------------------------------------------------
(* The stages of a pipelined item. *)

\* The task's first run; tasks start in the order they were created.
StartTask(i) ==
    /\ Running /\ i \in In({"new"})
    /\ \A j \in In({"new"}) \ {i} : Precedes(i, j)
    /\ Advance(i, "queued") \/ Skip(i)
    /\ Frame

Admit(i) ==
    /\ Running /\ i \in In({"queued"})
    /\ Cardinality(InStaging) < StagingSlots
    /\ \A j \in In({"queued"}) \ {i} : Precedes(i, j)
    /\ Advance(i, "staged") \/ Skip(i)
    /\ Frame

StartDownload(i) ==
    /\ Running /\ i \in In({"staged"})
    /\ Cardinality(In({"downloading"})) < DownloadSlots
    /\ Advance(i, "downloading") \/ Skip(i)
    /\ Frame

Downloaded(i) ==
    /\ Running /\ i \in In({"downloading"})
    /\ Move(i, "downloaded")
    /\ UNCHANGED <<decoded, raw, fed, outcome, publishedLeads>>
    /\ Frame

\* Mutant: a failed download does not set the decode event.
DownloadFailsSilently(i) ==
    /\ Running /\ i \in In({"downloading"})
    /\ SettleItem(i, "failed")
    /\ UNCHANGED <<decoded, raw, fed>>
    /\ Frame

DownloadFails(i) ==
    /\ Running /\ i \in In({"downloading"})
    /\ decoded' = decoded \cup {i}
    /\ SettleItem(i, "failed")
    /\ UNCHANGED <<raw, fed>>
    /\ Frame

\* Mutant: the reset lead does not wait for its predecessor.
AwaitNobody(i) ==
    /\ Running /\ i \in In({"downloaded"})
    /\ Advance(i, "ready") \/ Skip(i)
    /\ Frame

\* A reset lead waits, inside staging and outside decode_sem, for the decode
\* event of its predecessor if that is an item of this wave.
AwaitPredecessor(i) ==
    /\ Running /\ i \in In({"downloaded"})
    /\ IsReset(i) /\ Predecessor(i) \in Items => Predecessor(i) \in decoded
    /\ Advance(i, "ready") \/ Skip(i)
    /\ Frame

\* The predecessor's raw state is popped; without it the decode reads the store.
StartDecode(i) ==
    /\ Running /\ i \in In({"ready"})
    /\ Cardinality(In({"decoding"})) < DecodeSlots
    /\ \/ /\ ~cancelled /\ ~broken
          /\ Move(i, "decoding")
          /\ IF IsReset(i) /\ Predecessor(i) \in raw
             THEN raw' = raw \ {Predecessor(i)} /\ fed' = fed \cup {i}
             ELSE UNCHANGED <<raw, fed>>
          /\ UNCHANGED <<decoded, outcome, publishedLeads>>
       \/ Skip(i)
    /\ Frame

\* A broken pool refuses the file outside the try block: the task ends with its
\* exception, its decode event unset and its item never settled.
SubmitFails(i) ==
    /\ Running /\ i \in In({"ready"})
    /\ Cardinality(In({"decoding"})) < DecodeSlots
    /\ ~cancelled /\ broken
    /\ Move(i, "done")
    /\ outcome' = [outcome EXCEPT ![i] = "lost"]
    /\ UNCHANGED <<decoded, raw, fed, publishedLeads>>
    /\ Frame

\* A result that was there before the pool broke is still used.
DecodeOk(i) ==
    /\ Running /\ i \in In({"decoding"})
    /\ raw' = raw \cup {i}
    /\ decoded' = decoded \cup {i}
    /\ Move(i, "decoded")
    /\ UNCHANGED <<fed, outcome, publishedLeads>>
    /\ Frame

DecodeFails(i) ==
    /\ Running /\ i \in In({"decoding"})
    /\ decoded' = decoded \cup {i}
    /\ SettleItem(i, "failed")
    /\ UNCHANGED <<raw, fed>>
    /\ Frame

\* The check before write_sem; the seed's task comes here at once.
QueueWrite(i) ==
    /\ Running
    /\ i \in In({"decoded"}) \/ (i = seed /\ stage[i] = "new")
    /\ Advance(i, "toWrite") \/ Skip(i)
    /\ Frame

Writing == {i \in work : stage[i] = "writing"}

StartWrite(i) ==
    /\ Running /\ i \in work /\ stage[i] = "toWrite"
    /\ Cardinality(Writing) < WriteSlots
    /\ Advance(i, "writing") \/ Skip(i)
    /\ Frame

\* The executor's future is done; cancellation does not abandon it.
WriteEnds(i) ==
    /\ Running /\ i \in Writing
    /\ SettleItem(i, "written") \/ SettleItem(i, "failed")
    /\ UNCHANGED <<decoded, raw, fed>>
    /\ Frame

ItemStep(i) ==
    \/ StartTask(i) \/ Admit(i) \/ StartDownload(i) \/ Downloaded(i) \/ DownloadFails(i)
    \/ AwaitPredecessor(i) \/ StartDecode(i) \/ SubmitFails(i) \/ DecodeOk(i) \/ DecodeFails(i)
    \/ QueueWrite(i) \/ StartWrite(i) \/ WriteEnds(i)

----------------------------------------------------------------------------
(* Cancellation, a dead worker, drain and finalization. *)

Cancel ==
    /\ MayCancel
    /\ ~cancelled
    /\ phase \in {"seeding", "preparing", "running"}
    /\ cancelled' = TRUE
    /\ UNCHANGED <<phase, work, seed, stage, decoded, raw, fed, outcome, publishedLeads, broken>>

\* A decode process dies (a native abort); nobody replaces the executor.
PoolBreaks ==
    /\ ~broken
    /\ phase \in {"seeding", "preparing", "running"}
    /\ broken' = TRUE
    /\ UNCHANGED <<phase, work, seed, stage, decoded, raw, fed, outcome, publishedLeads, cancelled>>

\* Mutant: the seed's task is left out of the drain.
DrainWithoutSeed ==
    /\ Running
    /\ \A i \in Pipelined : stage[i] = "done"
    /\ phase' = "drained"
    /\ UNCHANGED <<work, seed, stage, decoded, raw, fed, outcome, publishedLeads, cancelled, broken>>

\* await_all_workers_non_abandoning returns once every task is done.
Drain ==
    /\ Running
    /\ \A i \in work : stage[i] = "done"
    /\ phase' = "drained"
    /\ UNCHANGED <<work, seed, stage, decoded, raw, fed, outcome, publishedLeads, cancelled, broken>>

\* finalize_run returns a status or raises.
Finalize ==
    /\ phase = "drained"
    /\ phase' \in {"finalized", "failed"}
    /\ UNCHANGED <<work, seed, stage, decoded, raw, fed, outcome, publishedLeads, cancelled, broken>>

\* The wave is over and its coroutine has returned.
Over == phase \in {"finalized", "failed"} /\ UNCHANGED waveVars

WaveStep ==
    \/ Abort \/ Prepare \/ Drain \/ Finalize
    \/ \E i \in Items : SeedDecoded(i) \/ SeedUnreadable(i)

WaveNext == WaveStep \/ Cancel \/ PoolBreaks \/ Over \/ \E i \in Items : ItemStep(i)

\* The event loop runs while a task can; a download, a decode and a write end.  (No
\* task runs for ever, so which one runs first does not matter.)  Nobody has to cancel
\* the wave and no decode process has to die.
WaveFairness == WF_waveVars(WaveStep \/ \E i \in Items : ItemStep(i))

WaveSpec == WaveInit /\ [][WaveNext]_waveVars /\ WaveFairness
----------------------------------------------------------------------------
(* Properties *)

\* The values the variables of a wave can take.
WaveTypeOK ==
    /\ phase \in {"seeding", "preparing", "running", "drained", "finalized", "failed"}
    /\ work \subseteq Items
    /\ seed \in Items \cup {NoItem}
    /\ stage \in [Items -> Stages]
    /\ decoded \subseteq Items /\ raw \subseteq Items /\ fed \subseteq Items
    /\ outcome \in [Items -> {"pending", "written", "failed", "skipped", "lost"}]
    /\ publishedLeads \subseteq WaveLeads
    /\ cancelled \in BOOLEAN /\ broken \in BOOLEAN

\* A reset lead whose predecessor decoded in this wave is de-accumulated with
\* that predecessor's raw field: it never falls back to the store, where the
\* predecessor's region is UPDATING and still holds older or missing data.
DeaccumulatesFromMemory ==
    \A i \in Items :
        /\ stage[i] \in {"decoding", "decoded", "toWrite", "writing"}
        /\ i # seed /\ IsReset(i)
        /\ Predecessor(i) \in work
        /\ \/ Predecessor(i) = seed
           \/ stage[Predecessor(i)] \in {"decoded", "toWrite", "writing"}
           \/ outcome[Predecessor(i)] = "written"
        => i \in fed

\* The finalizer and whoever follows it never run beside a task of the wave, and an
\* item they find without a written or failed outcome was left by a cancelled task or
\* refused by a broken decode pool.
FinalizesAfterDrain ==
    phase \in {"drained", "finalized"} =>
        \A i \in work :
            /\ outcome[i] # "pending"
            /\ outcome[i] = "skipped" => cancelled
            /\ outcome[i] = "lost" => broken

Contract == INSTANCE WaveContract WITH
    published <- publishedLeads,
    LeadTime <- [i \in Items |-> LeadOf(i)],
    state <- CASE phase \in {"seeding", "preparing"} -> "opening"
               [] phase \in {"running", "drained"} -> "running"
               [] OTHER -> phase

\* The pipeline keeps the wave's contract.
KeepsContract == Contract!Spec

\* A reset lead waits for the decode event of a task that ended without setting it:
\* it saw the cancel event, or the broken pool refused its file.
WaitsForGone(i) ==
    /\ stage[i] = "downloaded" /\ IsReset(i)
    /\ Predecessor(i) \in Items \ decoded
    /\ outcome[Predecessor(i)] \in {"skipped", "lost"}

\* The wave runner's drain ends and the finalizer is reached, as the scheduler relies
\* on when it waits for it.  The one thing that keeps a wave for ever is a reset lead
\* whose predecessor left without setting its event; without a cancellation and a dead
\* decode process there is none.
DrainEnds ==
    phase = "running" ~>
        phase \in {"finalized", "failed"} \/ \E i \in Pipelined : WaitsForGone(i)
=============================================================================
