----------------------------- MODULE Reclamation -----------------------------
(***************************************************************************)
(* Physical reclamation of one model's forecast stores: the GC daemon's    *)
(* pass (bookkeeping, planner, worker, sweeper), an operator's worker and  *)
(* requeue beside it, and the waves and the clock they run against.        *)
(*                                                                         *)
(* Times are points of the canonical 3 h grid; a cycle is its time, so     *)
(* cycle + lead is a valid time and `now' is the start of the serving      *)
(* window.  A unit <<cycle, lead, variable>> is one shard of a             *)
(* deterministic run.  The store gate serializes a worker with the waves   *)
(* of the same cycle; a wave's stretch under the gate is one action.       *)
(***************************************************************************)
EXTENDS Integers, FiniteSets

CONSTANTS
    Scope,          \* the <<cycle, lead>> pairs that waves may ingest
    Committed,      \* those that earlier waves have ingested
    MaxLead,        \* the canonical horizon
    MaxNow,         \* bound: where the clock stops
    Variables,      \* catalogued variables
    Interval,       \* those that need a positive lead and a predecessor
    Companions,     \* those that follow Precipitation
    Precipitation,  \* the interval variable the companions follow
    Wind,           \* {} or the two wind components
    BatchSize,      \* rows a worker claims
    Workers,        \* worker processes
    Daemon,         \* the one that runs inside the GC daemon
    MayRequeue,     \* does an operator run `reclamation requeue'?
    FaultKinds,     \* {"crash", "gate", "manifest", "storage"}
    MaxFaults,      \* bound: faults
    MaxRewrites     \* bound: leads a later wave loses again

Cycles == {s[1] : s \in Scope}
Units == {<<s[1], s[2], v>> : s \in Scope, v \in Variables}
ResetPeriod == 2        \* 6 h
IntervalWidth == 1      \* 3 h

ASSUME ScopeAssumption ==
    /\ Scope \subseteq Nat \X (0 .. MaxLead) /\ IsFiniteSet(Scope)
    /\ Committed \subseteq Scope
    /\ MaxLead \in Nat /\ MaxNow \in Nat /\ \A s \in Committed : s[1] <= MaxNow
ASSUME VariablesAssumption ==
    /\ IsFiniteSet(Variables)
    /\ Interval \cup Companions \cup Wind \subseteq Variables
    /\ Interval \cap Companions = {} /\ Wind \cap (Interval \cup Companions) = {}
    /\ Companions # {} => Precipitation \in Interval
    /\ Cardinality(Wind) \in {0, 2}
ASSUME WorkersAssumption ==
    /\ Daemon \in Workers /\ BatchSize \in Nat \ {0}
    /\ MayRequeue \in BOOLEAN
ASSUME FaultsAssumption ==
    /\ FaultKinds \subseteq {"crash", "gate", "manifest", "storage"}
    /\ MaxFaults \in Nat /\ MaxRewrites \in Nat

VARIABLES
    now,        \* start of the serving window
    catalog,    \* <<cycle, lead>> pairs with product rows
    generation, \* generation[c]: the manifest's, 0 without a manifest
    unbumped,   \* catalogued pairs whose publication has not bumped the manifest
    object,     \* units whose shard exists
    marker,     \* <<cycle, lead>> pairs with a region marker
    lifecycle,  \* lifecycle[c]: "open", "claimed", "deleted", "swept"
    row,        \* row[u]: the unit's reclamation_queue row
    phase,      \* the daemon's stage
    todo,       \* cycles the bookkeeping stage has still to look at
    terminal,   \* the cycle whose units it has found terminal, or NoCycle
    plan,       \* rows the planner is about to insert
    worker,     \* worker[w]: its pass
    requeued,   \* what the operator's requeue has read
    raced,      \* valid times that lost a source in the middle of a worker's pass
    faults, rewrites

catalogVars == <<catalog, generation, unbumped>>
daemonVars  == <<phase, todo, terminal, plan>>
vars == <<now, catalogVars, object, marker, lifecycle, row, daemonVars, worker, requeued,
          raced, faults, rewrites>>

----------------------------------------------------------------------------
(* Queue rows. *)

NoCycle == -1
MaxOf(S) == CHOOSE x \in S : \A y \in S : y <= x
Row(s, l, g, c) == [status |-> s, lease |-> l, base |-> g, cycle |-> c]
\* Mutant: the claim takes the lease and not the fence.
LeasedRow(r) == [r EXCEPT !.lease = "live"]
FencedRow(r) == [r EXCEPT !.status = "deleting", !.lease = "live"]
NoRow == Row("none", "none", 0, NoCycle)
\* Mutant: the lease is left on the row.
QueuedLeased(r) == [r EXCEPT !.status = "queued"]
Queued(r) == [r EXCEPT !.status = "queued", !.lease = "none"]
Done(r) == [r EXCEPT !.status = "deleted", !.lease = "none"]
\* A row that a tombstone closes keeps its lease.
Closed(r) == [r EXCEPT !.status = "deleted"]

CycleOf(u) == u[1]
PairOf(u) == <<u[1], u[2]>>
UnitsOf(S) == {<<s[1], s[2], v>> : s \in S, v \in Variables}
InStatus(S) == {u \in Units : row[u].status \in S}
PairsOf(c) == {s \in catalog : s[1] = c}

MayFault(k) == k \in FaultKinds /\ faults < MaxFaults
NoFault == UNCHANGED faults
Fault == faults' = faults + 1

----------------------------------------------------------------------------
(* Canonical resolution (domain.canonical): C are catalogued pairs, F the  *)
(* fenced units.                                                           *)

VariablesAt(s, F) == {v \in Variables : <<s[1], s[2], v>> \notin F}
Candidates(t, C, F) == {s \in C : s[1] + s[2] = t /\ VariablesAt(s, F) # {}}

\* The newest cycle is the shortest lead; a set of at most one element.
Newest(S) == {s \in S : \A r \in S : s[2] <= r[2]}
Anchor(t, C, F) == Newest(Candidates(t, C, F))

Carriers(V, t, C, F) == {s \in Candidates(t, C, F) : V \subseteq VariablesAt(s, F)}
Positive(S) == {s \in S : s[2] > 0}
AtAnalysis(t, C, F) == \E a \in Anchor(t, C, F) : a[2] = 0

\* Mutant: forgets that an analysis lead carries no interval data.
IntervalSourceNewest(v, t, C, F) == Newest(Carriers({v}, t, C, F))

IntervalSource(v, t, C, F) ==
    Newest(IF AtAnalysis(t, C, F) THEN Positive(Carriers({v}, t, C, F))
                                  ELSE Carriers({v}, t, C, F))

\* Where variable v is read at valid time t; the wind components come as a pair.
Source(v, t, C, F) ==
    IF v \in Interval THEN IntervalSource(v, t, C, F)
    ELSE IF v \in Companions THEN IntervalSource(Precipitation, t, C, F)
    ELSE Newest(Carriers({v}, t, C, F))
WindSource(t, C, F) == IF Wind = {} THEN {} ELSE Newest(Carriers(Wind, t, C, F))

Unit(s, v) == <<s[1], s[2], v>>
Times(start, C) == {t \in {s[1] + s[2] : s \in C} : t >= start}

AnchorHolds(start, C, F) ==
    UNION {{Unit(a, v) : v \in {x \in VariablesAt(a, F) :
                a[2] > 0 \/ x \notin Interval \cup Companions}} :
           a \in UNION {Anchor(t, C, F) : t \in Times(start, C)}}

SourceHolds(V, start, C, F) ==
    UNION {{Unit(s, v) : s \in Source(v, t, C, F)} : v \in V, t \in Times(start, C)}

WindHolds(start, C, F) ==
    UNION {{Unit(s, v) : s \in WindSource(t, C, F), v \in Wind} : t \in Times(start, C)}

\* An uncommitted reset lead holds its predecessor while its cycle can be
\* recovered; a run of status `ready' has none (RunCommit: ReadyIsWhole).
PredecessorHolds(start, C) ==
    {<<s[1], s[2] - IntervalWidth, v>> :
        s \in {x \in {r[1] : r \in C} \X (1 .. MaxLead) :
                /\ x[1] + MaxLead >= start
                /\ x[2] % ResetPeriod = 0
                /\ x \notin C /\ <<x[1], x[2] - IntervalWidth>> \in C},
        v \in Interval}

\* Mutant: only serving counts.
NecessaryForServing(V, start, C, F) ==
    AnchorHolds(start, C, F) \cup SourceHolds(V, start, C, F)

\* What serving and recovery need, as far as variables V are asked about.  The
\* wind pair is not among them: only the planner holds its components.
Necessary(V, start, C, F) ==
    AnchorHolds(start, C, F) \cup SourceHolds(V, start, C, F) \cup PredecessorHolds(start, C)

----------------------------------------------------------------------------
Idle == [at |-> "idle", claimed |-> {}, left |-> {}, store |-> NoCycle, doomed |-> {},
         start |-> 0]

Init ==
    /\ now = IF Committed = {} THEN 0 ELSE MaxOf({s[1] : s \in Committed})
    /\ catalog = Committed /\ unbumped = {}
    /\ generation = [c \in Cycles |-> IF PairsOf(c) = {} THEN 0 ELSE 1]
    /\ object = UnitsOf(Committed) /\ marker = Committed
    /\ lifecycle = [c \in Cycles |-> "open"]
    /\ row = [u \in Units |-> NoRow]
    /\ phase = "idle" /\ todo = {} /\ terminal = NoCycle /\ plan = {}
    /\ worker = [w \in Workers |-> Idle]
    /\ requeued = {}
    /\ raced = {} /\ faults = 0 /\ rewrites = 0

----------------------------------------------------------------------------
(* The surroundings: the clock, and what RunCommit describes in detail.  A *)
(* wave works under the EXCLUSIVE gate of an unfenced cycle.               *)

Advance ==
    /\ now < MaxNow
    /\ now' = now + 1
    /\ UNCHANGED <<catalogVars, object, marker, lifecycle, row, daemonVars, worker, requeued,
                   raced, faults, rewrites>>

MayWrite(c) == lifecycle[c] = "open" /\ \A w \in Workers : worker[w].store # c

\* A lead is settled: its regions are COMPLETE, its products are committed.
Publish(s) ==
    /\ s[1] <= now /\ s \notin catalog /\ MayWrite(s[1])
    /\ catalog' = catalog \cup {s}
    /\ unbumped' = unbumped \cup {s}
    /\ object' = object \cup UnitsOf({s})
    /\ marker' = marker \cup {s}
    /\ UNCHANGED <<now, generation, lifecycle, row, daemonVars, worker, requeued, raced,
                   faults, rewrites>>

\* The manifest follows the catalog; a wave that died in between is made up
\* for by the next.
Bump(c) ==
    /\ PairsOf(c) \cap unbumped # {} /\ MayWrite(c)
    /\ generation' = [generation EXCEPT ![c] = @ + 1]
    /\ unbumped' = unbumped \ PairsOf(c)
    /\ UNCHANGED <<now, catalog, object, marker, lifecycle, row, daemonVars, worker, requeued,
                   raced, faults, rewrites>>

Reclaimed(s) == \E u \in InStatus({"deleting", "deleted"}) : PairOf(u) = s

\* A re-ingest of lead s failed and its wave is finalized: the catalog loses
\* the lead, unless some unit of it counts as reclaimed on purpose.
Lose(s) ==
    /\ s \in catalog /\ MayWrite(s[1]) /\ rewrites < MaxRewrites
    /\ rewrites' = rewrites + 1
    /\ catalog' = IF Reclaimed(s) THEN catalog ELSE catalog \ {s}
    /\ unbumped' = unbumped \ PairsOf(s[1])
    /\ generation' = [generation EXCEPT ![s[1]] = @ + 1]
    /\ marker' = marker \ {s}
    /\ raced' = IF \E w \in Workers : worker[w].at # "idle"
                THEN raced \cup {s[1] + s[2]} ELSE raced
    /\ UNCHANGED <<now, object, lifecycle, row, daemonVars, worker, requeued, faults>>

----------------------------------------------------------------------------
(* The daemon's pass: bookkeeping.                                         *)

HasRun(c) == lifecycle[c] # "swept" /\ (PairsOf(c) # {} \/ generation[c] > 0)
Expired(c) == c + MaxLead < now

\* Claimed cycles are looked at before open ones, each in order of time.
NextCycle(S) ==
    LET claimed == {c \in S : lifecycle[c] = "claimed"}
        pool == IF claimed = {} THEN S ELSE claimed
    IN  CHOOSE c \in pool : \A d \in pool : c <= d

BeginPass ==
    /\ phase = "idle" /\ worker[Daemon] = Idle
    /\ phase' = "bookkeeping"
    /\ todo' = {c \in Cycles : HasRun(c) /\ lifecycle[c] \in {"open", "claimed"}}
    /\ UNCHANGED <<now, catalogVars, object, marker, lifecycle, row, terminal, plan, worker,
                   requeued, raced, faults, rewrites>>

\* The claim is the fence: nobody serves, writes or holds the cycle any more.
ClaimCycle ==
    /\ phase = "bookkeeping" /\ todo # {}
    /\ LET c == NextCycle(todo) IN
         /\ lifecycle[c] = "open"
         /\ IF Expired(c)
            THEN lifecycle' = [lifecycle EXCEPT ![c] = "claimed"] /\ UNCHANGED todo
            ELSE todo' = todo \ {c} /\ UNCHANGED lifecycle
    /\ UNCHANGED <<now, catalogVars, object, marker, row, phase, terminal, plan, worker,
                   requeued, raced, faults, rewrites>>

\* Mutant: a unit without a row counts as terminal.
UnitsTerminalByRows(c) ==
    \A u \in Units : CycleOf(u) = c => row[u].status \in {"none", "deleted"}

UnitsTerminal(c) ==
    /\ \A u \in Units : CycleOf(u) = c => row[u].status \in {"none", "deleted"}
    /\ UnitsOf(PairsOf(c)) \subseteq InStatus({"deleted"})

CheckTerminal ==
    /\ phase = "bookkeeping" /\ todo # {} /\ terminal = NoCycle
    /\ LET c == NextCycle(todo) IN
         /\ lifecycle[c] = "claimed"
         /\ IF UnitsTerminal(c)
            THEN terminal' = c /\ UNCHANGED todo
            ELSE todo' = todo \ {c} /\ UNCHANGED terminal
    /\ UNCHANGED <<now, catalogVars, object, marker, lifecycle, row, phase, plan, worker,
                   requeued, raced, faults, rewrites>>

\* Tombstone and normalization of every row that bears the cycle's time.
Tombstone ==
    /\ terminal # NoCycle
    /\ lifecycle' = [lifecycle EXCEPT ![terminal] = "deleted"]
    /\ row' = [u \in Units |-> IF row[u].cycle = terminal THEN Closed(row[u]) ELSE row[u]]
    /\ todo' = todo \ {terminal}
    /\ terminal' = NoCycle
    /\ UNCHANGED <<now, catalogVars, object, marker, phase, plan, worker, requeued, raced,
                   faults, rewrites>>

----------------------------------------------------------------------------
(* The daemon's pass: planner and sweeper.                                 *)

Open(S) == {s \in S : lifecycle[s[1]] = "open"}
Runs == {c \in Cycles : HasRun(c)}
Planable == {c \in Runs : lifecycle[c] = "open"}

\* The cycle time a retired unit is queued with: whatever the loop variable
\* c_utc was left with, which no longer is the unit's own cycle.
Labels == IF Planable # {} THEN Planable ELSE Runs

PlanRead ==
    /\ phase = "bookkeeping" /\ todo = {}
    /\ phase' = "enqueueing"
    /\ \E label \in IF Runs = {} THEN {NoCycle} ELSE Labels :
         LET open == UnitsOf(Open(catalog))
             retired == {u \in UnitsOf(catalog) : lifecycle[CycleOf(u)] = "claimed"}
             held == Necessary(Variables, now, Open(catalog), {})
                         \cup WindHolds(now, Open(catalog), {})
             free == open \ held
         IN  plan' = {<<u, CycleOf(u)>> : u \in {x \in free : row[x] = NoRow}}
                      \cup {<<u, label>> : u \in {x \in retired : row[x] = NoRow}}
    /\ UNCHANGED <<now, catalogVars, object, marker, lifecycle, row, todo, terminal, worker,
                   requeued, raced, faults, rewrites>>

\* Rows that exist by now stay as they are; new ones record the manifest seen.
Enqueue ==
    /\ phase = "enqueueing"
    /\ phase' = "working" /\ plan' = {}
    /\ \E seen \in {generation, [c \in Cycles |-> 0]} :
         /\ IF seen = generation THEN NoFault ELSE MayFault("manifest") /\ Fault
         /\ row' = [u \in Units |->
                IF row[u] = NoRow /\ \E p \in plan : p[1] = u
                THEN Row("queued", "none", seen[CycleOf(u)], (CHOOSE p \in plan : p[1] = u)[2])
                ELSE row[u]]
    /\ UNCHANGED <<now, catalogVars, object, marker, lifecycle, todo, terminal, worker,
                   requeued, raced, rewrites>>

\* The sweeper drops the rows and the catalog of a tombstoned cycle.
Sweep(c) ==
    /\ phase = "sweeping" /\ lifecycle[c] = "deleted"
    /\ lifecycle' = [lifecycle EXCEPT ![c] = "swept"]
    /\ catalog' = catalog \ PairsOf(c)
    /\ unbumped' = unbumped \ PairsOf(c)
    /\ row' = [u \in Units |-> IF CycleOf(u) = c \/ row[u].cycle = c THEN NoRow ELSE row[u]]
    /\ UNCHANGED <<now, generation, object, marker, daemonVars, worker, requeued, raced,
                   faults, rewrites>>

EndPass ==
    /\ phase = "sweeping"
    /\ phase' = "idle"
    /\ UNCHANGED <<now, catalogVars, object, marker, lifecycle, row, todo, terminal, plan,
                   worker, requeued, raced, faults, rewrites>>

----------------------------------------------------------------------------
(* A worker's pass.                                                        *)

SetWorker(w, r) == worker' = [worker EXCEPT ![w] = r]

\* The daemon goes on to its next stage when its worker is through.
Leave(w, r) ==
    /\ SetWorker(w, IF r.left = {} THEN Idle ELSE r)
    /\ phase' = IF w = Daemon /\ r.left = {} THEN "sweeping" ELSE phase

MayWork(w) == worker[w].at = "idle" /\ (w = Daemon => phase = "working")

\* Mutant: an expired claim is nobody's business.
ClaimableQueued == InStatus({"queued"})

Claimable ==
    {u \in Units : \/ row[u].status = "queued"
                   \/ row[u].status = "deleting" /\ row[u].lease = "expired"}

\* A batch: the oldest rows by their cycle time, in no order within one.
Batches ==
    {B \in SUBSET Claimable :
        /\ Cardinality(B) = BatchSize
        /\ \A u \in B, v \in Claimable \ B : row[u].cycle <= row[v].cycle}

NothingToClaim(w) ==
    /\ MayWork(w) /\ w = Daemon /\ Claimable = {}
    /\ phase' = "sweeping"
    /\ UNCHANGED <<now, catalogVars, object, marker, lifecycle, row, todo, terminal, plan,
                   worker, requeued, raced, faults, rewrites>>

\* The claim is committed before anything is judged, and fences its units.
Claim(w) ==
    /\ MayWork(w) /\ Claimable # {}
    /\ \E B \in IF Cardinality(Claimable) <= BatchSize THEN {Claimable} ELSE Batches :
         /\ row' = [u \in Units |-> IF u \in B THEN FencedRow(row[u]) ELSE row[u]]
         /\ SetWorker(w, [Idle EXCEPT !.at = "gate", !.claimed = B, !.left = B, !.start = now])
    /\ UNCHANGED <<now, catalogVars, object, marker, lifecycle, daemonVars, requeued, raced,
                   faults, rewrites>>

Targets(w) == {u \in worker[w].left : CycleOf(u) = worker[w].store}

\* Mutant: the whole batch, what has been deleted of it included.
WaitingAll(w, c) == worker[w].claimed
Waiting(w, c) == {u \in worker[w].left : CycleOf(u) = c}

Requeue(S) == row' = [u \in Units |-> IF u \in S /\ row[u] # NoRow THEN Queued(row[u]) ELSE row[u]]

EnterGate(w, c) ==
    /\ worker[w].at = "gate" /\ \E u \in worker[w].left : CycleOf(u) = c
    /\ SetWorker(w, [worker[w] EXCEPT !.at = "observe", !.store = c])
    /\ UNCHANGED <<now, catalogVars, object, marker, lifecycle, row, daemonVars, requeued,
                   raced, faults, rewrites>>

\* The gate is not to be had within 5 s.
GateTimeout(w, c) ==
    /\ MayFault("gate") /\ Fault
    /\ worker[w].at = "gate" /\ \E u \in worker[w].left : CycleOf(u) = c
    /\ Requeue(Waiting(w, c)) /\ Leave(w, [worker[w] EXCEPT !.left = @ \ Waiting(w, c)])
    /\ UNCHANGED <<now, catalogVars, object, marker, lifecycle, todo, terminal, plan,
                   requeued, raced, rewrites>>

LeaveStore(w, S) ==
    Leave(w, [worker[w] EXCEPT !.at = "gate", !.store = NoCycle, !.left = @ \ S, !.doomed = {}])

\* The cycle that the first target names is tombstoned.
SkipTombstoned(w) ==
    /\ worker[w].at = "observe"
    /\ \E u \in Targets(w) : row[u].cycle \in Cycles /\ lifecycle[row[u].cycle] \in {"deleted", "swept"}
    /\ Requeue(Targets(w)) /\ LeaveStore(w, Targets(w))
    /\ UNCHANGED <<now, catalogVars, object, marker, lifecycle, todo, terminal, plan,
                   requeued, raced, faults, rewrites>>

Remaining(w, S) == worker[w].left \ S

\* The generation gate: a row without a baseline takes the current one, a row
\* with another baseline waits for the next pass.
Deferred(w, current) == {u \in Targets(w) : row[u].base \notin {0, current}}
Rebased(r, current) == [r EXCEPT !.base = IF current = 0 THEN @ ELSE current]

Observe(w) ==
    /\ worker[w].at = "observe"
    /\ \E u \in Targets(w) : row[u].cycle \in Cycles =>
                             lifecycle[row[u].cycle] \notin {"deleted", "swept"}
    /\ \E current \in {generation[worker[w].store], 0} :
         /\ IF current = generation[worker[w].store] THEN NoFault ELSE MayFault("manifest") /\ Fault
         /\ row' = [u \in Units |->
                IF u \notin Targets(w) \/ row[u] = NoRow THEN row[u]
                ELSE IF u \in Deferred(w, current) THEN Queued(Rebased(row[u], current))
                ELSE Rebased(row[u], current)]
         /\ IF Deferred(w, current) = Targets(w)
            THEN LeaveStore(w, Targets(w))
            ELSE /\ SetWorker(w, [worker[w] EXCEPT !.at = "judge",
                                                   !.left = Remaining(w, Deferred(w, current))])
                 /\ UNCHANGED phase
    /\ UNCHANGED <<now, catalogVars, object, marker, lifecycle, todo, terminal, plan,
                   requeued, raced, rewrites>>

Counterpart(u) == {x \in Units : PairOf(x) = PairOf(u) /\ x[3] \in Wind \ {u[3]}}

\* Wind targets that have to wait: one of the pair is needed, or the
\* counterpart is neither in the batch nor deleted.
PairDeferred(T, needed) ==
    {u \in T : u[3] \in Wind /\ \E x \in Counterpart(u) :
        IF x \in T THEN {u, x} \cap needed # {} ELSE u \in needed \/ row[x].status # "deleted"}

\* Mutant: the worker's own batch counts as gone.
GoneOwn(w) == InStatus({"deleting", "deleted"})
Gone(w) == InStatus({"deleting", "deleted"}) \ worker[w].claimed

\* Counterfactual revalidation: the worker's own batch counts as present.  The
\* pair is not looked for: what serving selects as wind_10m holds neither component.
Judge(w) ==
    /\ worker[w].at = "judge"
    /\ LET T == Targets(w)
           asked == {u[3] : u \in T}
           needed == Necessary(asked, worker[w].start, catalog, Gone(w))
       IN  SetWorker(w, [worker[w] EXCEPT !.at = "remove",
                                          !.doomed = T \ (needed \cup PairDeferred(T, needed))])
    /\ UNCHANGED <<now, catalogVars, object, marker, lifecycle, row, daemonVars, requeued,
                   raced, faults, rewrites>>

\* A failing delete is logged and treated as done.
Remove(w) ==
    /\ worker[w].at = "remove"
    /\ \/ NoFault /\ object' = object \ worker[w].doomed
       \/ MayFault("storage") /\ Fault /\ worker[w].doomed # {} /\ UNCHANGED object
    /\ SetWorker(w, [worker[w] EXCEPT !.at = "mark"])
    /\ UNCHANGED <<now, catalogVars, marker, lifecycle, row, daemonVars, requeued, raced,
                   rewrites>>

\* The rows are written as judged, whatever they have become since.
Mark(w) ==
    /\ worker[w].at = "mark"
    /\ row' = [u \in Units |->
            IF u \notin Targets(w) \/ row[u] = NoRow THEN row[u]
            ELSE IF u \in worker[w].doomed THEN Done(row[u]) ELSE Queued(row[u])]
    /\ SetWorker(w, [worker[w] EXCEPT !.at = "clean"])
    /\ UNCHANGED <<now, catalogVars, object, marker, lifecycle, daemonVars, requeued, raced,
                   faults, rewrites>>

\* A region's marker goes when each of its variables is deleted.
Clean(w) ==
    /\ worker[w].at = "clean"
    /\ marker' = marker \ {PairOf(u) : u \in {x \in worker[w].doomed :
                     UnitsOf({PairOf(x)}) \subseteq InStatus({"deleted"})}}
    /\ LeaveStore(w, Targets(w))
    /\ UNCHANGED <<now, catalogVars, object, lifecycle, row, todo, terminal, plan, requeued,
                   raced, faults, rewrites>>

\* A process dies, in the middle of its deletes as well; its gate goes with its
\* session, its claims stay.
Crash(w) ==
    /\ MayFault("crash") /\ Fault
    /\ worker[w] # Idle \/ (w = Daemon /\ phase # "idle")
    /\ \E S \in SUBSET (IF worker[w].at = "remove" THEN worker[w].doomed ELSE {}) :
         object' = object \ S
    /\ SetWorker(w, Idle)
    /\ IF w = Daemon
       THEN phase' = "idle" /\ todo' = {} /\ terminal' = NoCycle /\ plan' = {}
       ELSE UNCHANGED daemonVars
    /\ UNCHANGED <<now, catalogVars, marker, lifecycle, row, requeued, raced, rewrites>>

Leases == {u \in Units : row[u].lease = "live"}
Orphans == Leases \ UNION {worker[w].claimed : w \in Workers}

\* A crashed pass's leases run out.  (Assumed: a live pass ends within its own.)
LeaseExpires ==
    /\ Orphans # {}
    /\ row' = [u \in Units |-> IF u \in Orphans THEN [row[u] EXCEPT !.lease = "expired"]
                              ELSE row[u]]
    /\ UNCHANGED <<now, catalogVars, object, marker, lifecycle, daemonVars, worker, requeued,
                   raced, faults, rewrites>>

----------------------------------------------------------------------------
(* Operator commands.                                                      *)

\* `reclamation requeue' looks at every stuck row's object; a storage error
\* reads as absence.  Only rows whose status it will change are kept.
RequeueRead ==
    /\ MayRequeue /\ requeued = {}
    /\ \E visible \in {object, {}} :
         /\ IF visible = object THEN NoFault ELSE MayFault("storage") /\ Fault
         /\ requeued' =
               {<<u, "queued">> : u \in {x \in Units \cap visible :
                        row[x].status = "deleting" /\ row[x].lease = "expired"}}
               \cup {<<u, "deleted">> : u \in {x \in Units \ visible :
                        row[x].status \in {"queued", "deleting"} /\ row[x].lease # "live"}}
         /\ requeued' # {}
    /\ UNCHANGED <<now, catalogVars, object, marker, lifecycle, row, daemonVars, worker, raced,
                   rewrites>>

RequeueWrite ==
    /\ requeued # {}
    /\ row' = [u \in Units |->
            IF row[u] = NoRow THEN NoRow
            ELSE IF <<u, "queued">> \in requeued THEN Queued(row[u])
            ELSE IF <<u, "deleted">> \in requeued THEN Done(row[u])
            ELSE row[u]]
    /\ requeued' = {}
    /\ UNCHANGED <<now, catalogVars, object, marker, lifecycle, daemonVars, worker, raced,
                   faults, rewrites>>

----------------------------------------------------------------------------
Surroundings ==
    \/ Advance
    \/ \E s \in Scope : Publish(s) \/ Lose(s)
    \/ \E c \in Cycles : Bump(c)

DaemonStep ==
    \/ BeginPass \/ ClaimCycle \/ CheckTerminal \/ Tombstone
    \/ PlanRead \/ Enqueue \/ EndPass
    \/ \E c \in Cycles : Sweep(c)

WorkerStep(w) ==
    \/ NothingToClaim(w) \/ Claim(w)
    \/ \E c \in Cycles : EnterGate(w, c) \/ GateTimeout(w, c)
    \/ SkipTombstoned(w) \/ Observe(w) \/ Judge(w) \/ Remove(w) \/ Mark(w) \/ Clean(w)

OperatorStep == RequeueRead \/ RequeueWrite

Next ==
    \/ Surroundings \/ DaemonStep \/ OperatorStep \/ LeaseExpires
    \/ \E w \in Workers : WorkerStep(w) \/ Crash(w)

\* The daemon loops, its calls return, leases run out, and so does the retention of
\* a tombstoned cycle's metadata, which the sweeper of some pass then drops.
Fairness ==
    /\ WF_vars(DaemonStep) /\ WF_vars(WorkerStep(Daemon)) /\ WF_vars(LeaseExpires)
    /\ \A c \in Cycles : SF_vars(Sweep(c))

Spec == Init /\ [][Next]_vars /\ Fairness
----------------------------------------------------------------------------
(* Properties. *)

TypeOK ==
    /\ now \in 0 .. MaxNow
    /\ catalog \subseteq Scope /\ unbumped \subseteq catalog /\ marker \subseteq Scope
    /\ generation \in [Cycles -> Nat] /\ object \subseteq Units
    /\ lifecycle \in [Cycles -> {"open", "claimed", "deleted", "swept"}]
    /\ row \in [Units -> [status : {"none", "queued", "deleting", "deleted"},
                          lease : {"none", "live", "expired"},
                          base : Nat, cycle : Cycles \cup {NoCycle}]]
    /\ \A u \in Units : /\ row[u].status = "deleting" => row[u].lease # "none"
                        /\ row[u].lease # "none" => row[u].status \in {"deleting", "deleted"}
    /\ phase \in {"idle", "bookkeeping", "enqueueing", "working", "sweeping"}
    /\ todo \subseteq Cycles /\ terminal \in Cycles \cup {NoCycle}
    /\ plan \subseteq Units \X Cycles
    /\ \A w \in Workers :
        /\ worker[w].at \in {"idle", "gate", "observe", "judge", "remove", "mark", "clean"}
        /\ worker[w].doomed \subseteq worker[w].left
        /\ worker[w].left \subseteq worker[w].claimed /\ worker[w].claimed \subseteq Units
        /\ worker[w].store \in Cycles \cup {NoCycle} /\ worker[w].start \in 0 .. now
    /\ requeued \subseteq Units \X {"queued", "deleted"}
    /\ raced \subseteq Nat /\ faults \in 0 .. MaxFaults /\ rewrites \in 0 .. MaxRewrites

ValidTimes == {s[1] + s[2] : s \in Scope}
Fenced == InStatus({"deleting", "deleted"})

\* A unit that serving selects for a valid time of the window has its object:
\* whatever was deleted lies behind the fence that resolution honours.
SelectedIsPresent ==
    \A t \in {x \in ValidTimes : x >= now} :
        /\ \A v \in Variables \ Companions : \A s \in Source(v, t, Open(catalog), Fenced) :
              Unit(s, v) \in object
        /\ \A s \in WindSource(t, Open(catalog), Fenced) : \A v \in Wind : Unit(s, v) \in object

\* The wider form: no row of a catalogued unit of an open cycle lets its fence
\* down once the object is gone, needed or not; and from its judgement to its
\* bookkeeping a worker has every target of an open cycle fenced.
GoneIsFenced ==
    /\ UnitsOf(Open(catalog)) \subseteq object \cup Fenced
    /\ \A w \in Workers : worker[w].at \in {"judge", "remove", "mark"} =>
            \A u \in Targets(w) : lifecycle[CycleOf(u)] = "open" => row[u].status = "deleting"

\* The predecessor of an uncommitted reset lead, which the lead's ingestion
\* subtracts, is there as long as the cycle can be recovered.
PredecessorKept == PredecessorHolds(now, Open(catalog)) \subseteq object

\* A tombstone is a derived fact: the cycle's objects are gone.  The one thing it
\* may leave behind is a unit that was queued under another cycle's time and whose
\* row that cycle's tombstone has closed.
TombstoneIsTrue ==
    [][\A u \in object : lifecycle[CycleOf(u)] = "claimed" /\ lifecycle'[CycleOf(u)] = "deleted" =>
         /\ row[u].cycle \in Cycles \ {CycleOf(u)}
         /\ lifecycle[row[u].cycle] = "deleted"]_vars

Copies(v, t) ==
    {s \in Open(catalog) : s[1] + s[2] = t /\ Unit(s, v) \in object /\ (v \in Interval => s[2] > 0)}
PairCopies(t) == {s \in Open(catalog) : s[1] + s[2] = t /\ \A v \in Wind : Unit(s, v) \in object}

\* Reclamation never takes the last usable copy of a variable, or of the wind
\* pair, at a valid time of the window: not two workers one copy each, nor a
\* worker that judged by a copy another then takes.  (A companion is of use
\* only where precipitation is read.)  A worker counts its whole batch as
\* present, what it has deleted of it included, so a copy that a wave loses
\* in the middle of a pass is not made up for (raced).
LastCopyKept ==
    [][\A t \in {x \in ValidTimes \ raced : x >= now} : UNCHANGED <<catalog, lifecycle>> =>
        /\ PairCopies(t) # {} => PairCopies(t)' # {}
        /\ \A v \in Variables \ Companions : Copies(v, t) # {} => Copies(v, t)' # {}]_vars

\* A claimed cycle is retired in the end: whatever fails, its units are deleted
\* one by one and its tombstone is set.
Retires ==
    \A c \in Cycles : lifecycle[c] = "claimed" ~> lifecycle[c] \in {"deleted", "swept"}
=============================================================================
