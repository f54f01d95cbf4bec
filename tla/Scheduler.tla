------------------------------ MODULE Scheduler ------------------------------
(***************************************************************************)
(* The realtime scheduler: one process that holds a PostgreSQL advisory    *)
(* lock as its leadership, polls the upstream listing of the newest cycle, *)
(* plans bounded waves for it and dispatches them, and serves one older    *)
(* incomplete cycle whenever the newest one has nothing to do.             *)
(*                                                                         *)
(* Everything it remembers is in memory and lost with the process; what is *)
(* durable is the catalog (committed, status).  Cycles are numbered in     *)
(* order, six hours apart.  Instants are kept as remaining or elapsed      *)
(* ticks, so that the clock needs no bound: sleeping moves them.           *)
(***************************************************************************)
EXTENDS FrontierPlanner

CONSTANTS Cycles,            \* 0..n, the cycles that may appear
          Adopted,           \* cycles with a run row from before the start
          Upstream,          \* how many leads each model had published then
          MaxWait,           \* ticks a complete lead may wait for its batch
          Intervals,         \* sleep of each poll state, and the retry interval
          ActiveBackoff,     \* [base, max] after a failed wave of the active cycle
          BacklogBackoff,    \* [base, max] after a failed backlog attempt
          QuarantineAfter,   \* consecutive failures before a quarantine
          QuarantineTicks,   \* its length, 0 for "until the horizon expires"
          RefreshEmpty,      \* age at which an empty candidate cache is refreshed
          RefreshFull,       \* and a non-empty one
          LongestWave,       \* ticks a dispatch may take
          HorizonCycles,     \* how many cycles old a cycle may be and still serve
          MaxFaults,         \* failing calls in all (a bound of the checks)
          MaxLosses          \* lost sessions and crashes in all (a bound)

ASSUME SchedulerAssumption ==
  /\ IsFiniteSet(Cycles) /\ Cycles # {} /\ Cycles = 0..(Cardinality(Cycles) - 1)
  /\ Adopted \subseteq Cycles
  /\ Upstream \in [Cycles -> [{"gfs", "gefs"} -> 0..Len(Horizon)]]
  /\ {MaxWait, QuarantineTicks, RefreshEmpty, RefreshFull, LongestWave, MaxFaults, MaxLosses} \subseteq Nat
  /\ {QuarantineAfter, HorizonCycles} \subseteq Nat \ {0}
  /\ Intervals \in [{"active", "publishing", "initial", "longest", "retry"} -> Nat \ {0}]
  /\ ActiveBackoff \in [{"base", "max"} -> Nat \ {0}]
  /\ BacklogBackoff \in [{"base", "max"} -> Nat \ {0}]
  /\ ActiveBackoff["base"] <= ActiveBackoff["max"]
  /\ BacklogBackoff["base"] <= BacklogBackoff["max"]

Models == {"gfs", "gefs"}
Places == {"start", "loop", "poll", "resolve", "read", "backlog", "gfs", "gefs",
           "settle", "sleep", "hung", "exited"}
None == -1
Forever == 1000
NoCache == {None}

VARIABLES
  published,  \* number of leads each model has published, per cycle
  committed,  \* committed state of each cycle in the catalog
  status,     \* run status of each model of a cycle: none, partial, ready
  newest,     \* the newest cycle whose publication window has opened
  owner,      \* who holds the leader key on the server: none, me, other
  held,       \* the process believes it is the leader
  pc, stop,
  mem,        \* what the process remembers between polls
  poll,       \* what the current poll has found
  faults, losses

world == <<published, committed, status, newest>>
vars == <<world, owner, held, pc, stop, mem, poll, faults, losses>>

MinOf(a, b) == IF a < b THEN a ELSE b
MaxOf(a, b) == IF a > b THEN a ELSE b

\* Both models publish their leads in order, data and index together.
Snapshot(c) ==
  [gfs |-> {Horizon[i] : i \in 1..published[c]["gfs"]} \X Kinds,
   gefs |-> Members \X {Horizon[i] : i \in 1..published[c]["gefs"]} \X Kinds]

Expired(c) == newest - c > HorizonCycles
Complete(c) == \A m \in Models : status[c][m] = "ready"
HasRun(c) == \E m \in Models : status[c][m] # "none"

InitMem ==
  [active |-> None, lastGood |-> NoSnapshot, age |-> [l \in Leads |-> None],
   fails |-> 0, blocked |-> 0,
   bFails |-> [c \in Cycles |-> 0], bBlocked |-> [c \in Cycles |-> 0],
   bQuarantine |-> [c \in Cycles |-> None], bSnap |-> [c \in Cycles |-> NoSnapshot],
   offset |-> 0, cached |-> NoCache, cacheAge |-> 0,
   machine |-> "active", level |-> Intervals["initial"]]
NoPoll == [cycle |-> None, snap |-> NoSnapshot, switched |-> FALSE, activity |-> FALSE,
           work |-> None, targets |-> [m \in Models |-> {}], repair |-> FALSE,
           sent |-> FALSE, failed |-> FALSE, interval |-> 0]

TypeOK ==
  /\ published \in [Cycles -> [Models -> 0..Len(Horizon)]]
  /\ committed \in [Cycles -> CommittedStates]
  /\ status \in [Cycles -> [Models -> {"none", "partial", "ready"}]]
  /\ newest \in Cycles /\ owner \in {"none", "me", "other"}
  /\ held \in BOOLEAN /\ stop \in BOOLEAN
  /\ pc \in Places
  /\ mem.blocked \in 0..ActiveBackoff["max"]
  /\ mem.bBlocked \in [Cycles -> 0..BacklogBackoff["max"]]
  /\ mem.bQuarantine \in [Cycles -> {None, Forever} \cup 0..QuarantineTicks]
  /\ mem.active \in Cycles \cup {None} /\ poll.work \in Cycles \cup {None}
  /\ faults \in 0..MaxFaults /\ losses \in 0..MaxLosses

Init ==
  /\ published = Upstream
  /\ committed = [c \in Cycles |-> NothingCommitted]
  /\ status = [c \in Cycles |-> [m \in Models |-> IF c \in Adopted THEN "partial" ELSE "none"]]
  /\ newest \in Adopted \cup {0} /\ \A c \in Adopted : c <= newest
  /\ owner = "none" /\ held = FALSE /\ pc = "start" /\ stop = FALSE
  /\ mem = InitMem /\ poll = NoPoll
  /\ faults = MaxFaults /\ losses = MaxLosses

---------------------------------------------------------------------------
(* Leadership. *)

Fault == faults > 0 /\ faults' = faults - 1
NoFault == faults' = faults

\* pg_try_advisory_lock on a fresh connection: taken, held by another, or an
\* error, which ends the process as well.
TryAcquire(next) ==
  \/ /\ owner = "none" /\ NoFault
     /\ owner' = "me" /\ held' = TRUE /\ pc' = next
  \/ /\ owner # "none" /\ NoFault
     /\ pc' = "exited" /\ UNCHANGED owner /\ held' = FALSE
  \/ Fault /\ pc' = "exited" /\ UNCHANGED owner /\ held' = FALSE

Start == /\ pc = "start" /\ TryAcquire("loop")
         /\ UNCHANGED <<world, stop, mem, poll, losses>>

\* The health query: the lock must be held by this very session.
\* Mutant: the remembered flag is trusted.
StillLeadsByFlag == held
StillLeads == held /\ owner = "me"

\* Leaving releases the lock; the session dies with the process anyway.
Leave == pc' = "exited" /\ held' = FALSE /\ owner' = IF owner = "me" THEN "none" ELSE owner

\* The top of the loop: stop, or confirm the leadership, or try to take it again.
Loop ==
  /\ pc = "loop"
  /\ \/ stop /\ Leave /\ NoFault
     \/ ~stop /\ StillLeads /\ pc' = "poll" /\ UNCHANGED <<held, owner>> /\ NoFault
     \/ ~stop /\ ~StillLeads /\ TryAcquire("poll")
  /\ UNCHANGED <<world, stop, mem, poll, losses>>

\* Every poll asks the server again before it plans anything.
Confirm ==
  /\ pc = "poll"
  /\ IF StillLeads
     THEN pc' = "resolve" /\ UNCHANGED held /\ poll' = NoPoll
     ELSE pc' = "sleep" /\ held' = FALSE /\ poll' = [NoPoll EXCEPT !.interval = Intervals["retry"]]
  /\ UNCHANGED <<world, owner, stop, mem, faults, losses>>

---------------------------------------------------------------------------
(* One poll. *)

\* The cycle to track: the newest eligible one, or while that has published
\* nothing the tracked one, or at the start the cycle before.
Fallback == IF mem.active # None /\ mem.active # newest THEN mem.active ELSE newest - 1
Tracked ==
  IF ~SnapshotEmpty(Snapshot(newest)) THEN newest
  ELSE IF Fallback \in Cycles /\ ~SnapshotEmpty(Snapshot(Fallback)) THEN Fallback
  ELSE None

Interval(m) == CASE m.machine = "active" -> Intervals["active"]
                 [] m.machine = "publishing" -> Intervals["publishing"]
                 [] OTHER -> m.level

Retry == pc' = "sleep" /\ poll' = [NoPoll EXCEPT !.interval = Intervals["retry"]]

\* Discovery: a failure leaves every memory as it was; nothing published is
\* idle, and leaves even the cadence as it was.
Resolve ==
  /\ pc = "resolve"
  /\ \/ Fault /\ Retry
     \/ /\ NoFault /\ Tracked = None
        /\ pc' = "sleep" /\ poll' = [NoPoll EXCEPT !.interval = Interval(mem)]
     \/ /\ NoFault /\ Tracked # None /\ pc' = "read"
        /\ LET snap == Snapshot(Tracked)
               switched == mem.active # Tracked
           IN poll' = [NoPoll EXCEPT !.cycle = Tracked, !.snap = snap, !.switched = switched,
                         !.activity = IF switched \/ mem.lastGood = NoSnapshot THEN switched
                                      ELSE snap # mem.lastGood]
  /\ UNCHANGED <<world, owner, held, stop, mem, losses>>

\* Adopting a cycle forgets what was remembered about the one before.
AfterSwitch ==
  IF ~poll.switched THEN mem
  ELSE [mem EXCEPT !.cached = NoCache, !.cacheAge = 0, !.fails = 0, !.blocked = 0,
          !.age = [l \in Leads |-> None], !.lastGood = poll.snap, !.active = poll.cycle]

ActivePlan(m) ==
  Plan(poll.snap, committed[poll.cycle], [l \in Leads |-> MaxOf(m.age[l], 0)], MaxWait)

\* The committed state is read, the active cycle planned, and either its wave
\* is dispatched or the poll turns to the backlog.
Decide ==
  /\ pc = "read"
  /\ \/ Fault /\ Retry /\ UNCHANGED mem
     \/ LET m == AfterSwitch
            plan == ActivePlan(m)
            goes == plan.wave # {} /\ m.blocked = 0
        IN /\ NoFault
           /\ mem' = [m EXCEPT !.age = [l \in Leads |->
                                IF l \in plan.pending THEN MaxOf(m.age[l], 0) ELSE None]]
           /\ pc' = IF goes THEN "gfs" ELSE "backlog"
           /\ poll' = IF goes THEN [poll EXCEPT !.work = poll.cycle,
                                      !.targets = [x \in Models |-> plan[x]]]
                      ELSE poll
  /\ UNCHANGED <<world, owner, held, stop, losses>>

\* The incomplete cycles before the active one that the catalog knows of.
Incomplete(active) == {c \in Cycles : c < active /\ HasRun(c) /\ ~Complete(c) /\ ~Expired(c)}

\* A quarantine that has run out is forgotten, with the failures that led to it.
AfterQuarantine ==
  [mem EXCEPT !.bQuarantine = [c \in Cycles |-> IF @[c] = 0 THEN None ELSE @[c]],
              !.bFails = [c \in Cycles |-> IF mem.bQuarantine[c] = 0 THEN 0 ELSE @[c]]]

RefreshDue ==
  \/ mem.cached = NoCache
  \/ mem.cacheAge >= IF mem.cached = {} THEN RefreshEmpty ELSE RefreshFull

\* When a cycle of the pool has its turn: newest first, from the rotation offset on.
Turn(c, pool, offset) == (Cardinality({d \in pool : d > c}) - offset) % Cardinality(pool)

\* Mutant: a cycle whose data is complete is skipped, promoted or not.
SkippedWhenComplete(m, c) ==
  \/ c = poll.cycle \/ Expired(c) \/ m.bBlocked[c] > 0 \/ m.bQuarantine[c] > 0
  \/ \A l \in Leads : BothCommitted(committed[c], l)
Skipped(m, c) == \/ c = poll.cycle \/ Expired(c) \/ m.bBlocked[c] > 0
                 \/ m.bQuarantine[c] > 0 \/ Complete(c)

\* What the scan makes of one candidate.  Reads fails for the cycles whose
\* committed state or listing cannot be read.
SnapOf(m, c) == IF m.bSnap[c] = NoSnapshot THEN Snapshot(c) ELSE m.bSnap[c]
BacklogPlan(m, c) == Plan(SnapOf(m, c), committed[c], [l \in Leads |-> 0], 0)
Verdict(m, c, unreadable) ==
  IF Skipped(m, c) THEN "skip"
  ELSE IF c \in unreadable \/ SnapshotEmpty(SnapOf(m, c)) THEN "block"
  ELSE IF BacklogPlan(m, c).wave # {} THEN "wave"
  ELSE IF BacklogPlan(m, c).reason = "horizon-complete" THEN "repair"
  ELSE "block"

\* The memory with the candidate list of this scan, and after the scan: those
\* found blocked on the way back off.
Refreshed(listed) ==
  IF RefreshDue /\ listed
  THEN [AfterQuarantine EXCEPT !.cached = Incomplete(poll.cycle), !.cacheAge = 0]
  ELSE AfterQuarantine
Scanned(m, blocked, chosen) ==
  [m EXCEPT !.bBlocked = [c \in Cycles |->
                            IF c \in blocked THEN BacklogBackoff["base"] ELSE @[c]],
            !.bSnap = [c \in Cycles |-> IF c \in blocked THEN NoSnapshot
                                        ELSE IF c = chosen THEN SnapOf(m, c) ELSE @[c]]]

\* The backlog scan: the first candidate, from the rotation offset on, with
\* work or with a status to repair.
Scan(m, unreadable, chosen) ==
  LET pool == m.cached \ {None}
      verdict == [c \in pool |-> Verdict(m, c, unreadable)]
      turn == [c \in pool |-> Turn(c, pool, m.offset)]
      stops == {c \in pool : verdict[c] \in {"wave", "repair"}}
      blocked == {c \in pool : verdict[c] = "block" /\ (chosen = None \/ turn[c] < turn[chosen])}
  IN /\ IF stops = {} THEN chosen = None
        ELSE chosen \in stops /\ \A c \in stops : turn[chosen] <= turn[c]
     /\ unreadable \subseteq blocked
     /\ mem' = Scanned(m, blocked, chosen)
SelectBacklog ==
  /\ pc = "backlog"
  /\ \E listed \in BOOLEAN, unreadable \in SUBSET Cycles, chosen \in Cycles \cup {None} :
       /\ listed \/ (RefreshDue /\ unreadable = {})
       /\ IF listed /\ unreadable = {} THEN NoFault ELSE Fault
       /\ Cardinality(unreadable) <= 1
       /\ Scan(Refreshed(listed), unreadable, chosen)
       /\ IF chosen = None THEN pc' = "settle" /\ UNCHANGED poll
          ELSE LET m == Refreshed(listed)
               IN /\ pc' = "gfs"
                  /\ poll' = [poll EXCEPT !.work = chosen,
                                !.repair = Verdict(m, chosen, unreadable) = "repair",
                                !.targets = [x \in Models |-> BacklogPlan(m, chosen)[x]]]
  /\ UNCHANGED <<world, owner, held, stop, losses>>

---------------------------------------------------------------------------
(* Waves. *)

CommitOf(com, m, leads) ==
  IF m = "gfs" THEN [com EXCEPT !.leads = @ \cup leads]
  ELSE [com EXCEPT !.pairs = @ \cup Members \X leads]
AllCommitted(com, m) == \A l \in Leads : IF m = "gfs" THEN GfsCommitted(com, l)
                                         ELSE GefsCommitted(com, l)

\* One wave of the wave runner: it commits all of its targets or, when it
\* fails or is cancelled, some of them; the run is ready when every lead is
\* committed and the last write of the status succeeds.
Wave(m, done, promotes) ==
  /\ committed' = [committed EXCEPT ![poll.work] = CommitOf(@, m, done)]
  /\ status' = [status EXCEPT ![poll.work][m] =
                  IF promotes /\ AllCommitted(committed'[poll.work], m) THEN "ready"
                  ELSE IF @ = "ready" THEN @ ELSE "partial"]

\* A wave falls short because calls fail, or because a stop cancels it in flight.
FallsShort == \/ Fault /\ UNCHANGED stop
              \/ NoFault /\ stop' = TRUE

\* The models are served one after the other; a stop that arrives before a
\* model's wave skips it and everything after it.
NextModel(m) == IF m = "gfs" THEN "gefs" ELSE "settle"
Dispatch(m) ==
  /\ pc = m /\ ~poll.repair
  /\ \/ /\ poll.targets[m] = {}
        /\ pc' = NextModel(m) /\ UNCHANGED <<poll, committed, status, stop>> /\ NoFault
     \/ /\ poll.targets[m] # {} /\ stop
        /\ pc' = "settle" /\ UNCHANGED <<poll, committed, status, stop>> /\ NoFault
     \/ \E ok \in BOOLEAN, done \in SUBSET poll.targets[m] :
          /\ poll.targets[m] # {} /\ ~stop
          /\ IF ok THEN done = poll.targets[m] /\ NoFault /\ UNCHANGED stop ELSE FallsShort
          /\ Wave(m, done, ok)
          /\ pc' = NextModel(m)
          /\ poll' = [poll EXCEPT !.sent = TRUE, !.failed = @ \/ ~ok]
  /\ UNCHANGED <<published, newest, owner, held, mem, losses>>

\* A wave that never returns: a lead waits for the field of a predecessor that was
\* cancelled or whose decode could not be started (WavePipeline: WaitsForGone).
WaveHangs(m) ==
  /\ pc = m /\ ~poll.repair /\ ~stop
  /\ \E l \in poll.targets[m] :
       /\ Resets(l) /\ l - 3 \in poll.targets[m]
       /\ \E done \in SUBSET (poll.targets[m] \ {l, l - 3}) : Wave(m, done, FALSE)
  /\ FallsShort /\ pc' = "hung"
  /\ UNCHANGED <<published, newest, owner, held, mem, poll, losses>>

\* A finalize-only repair visits both models; it fails, or leaves the status
\* as it was, or promotes the run.
Repair(m) ==
  /\ pc = m /\ poll.repair
  /\ \E result \in {"promoted", "unpromoted", "error"} :
       /\ IF result = "promoted" THEN NoFault ELSE Fault
       /\ Wave(m, {}, result = "promoted")
       /\ poll' = [poll EXCEPT !.sent = TRUE, !.failed = @ \/ result = "error"]
  /\ pc' = NextModel(m)
  /\ UNCHANGED <<published, newest, owner, held, stop, mem, losses>>

\* The delay doubles with each consecutive failure, up to its maximum.
Backoff(b, count) ==
  LET doubled == b["base"] * 2 ^ (count - 1) IN IF doubled \in 0..b["max"] THEN doubled ELSE b["max"]

RecordFailure(m, c) ==
  LET count == m.bFails[c] + 1
  IN [m EXCEPT !.bFails[c] = count, !.bBlocked[c] = Backoff(BacklogBackoff, count),
        !.bQuarantine[c] = IF count < QuarantineAfter THEN @
                           ELSE IF QuarantineTicks > 0 THEN QuarantineTicks ELSE Forever]
ClearFailure(m, c) ==
  [m EXCEPT !.bFails[c] = 0, !.bBlocked[c] = 0, !.bQuarantine[c] = None, !.bSnap[c] = NoSnapshot]

\* The bookkeeping of an attempt at the active cycle and at a backlog cycle.
ActiveSettled ==
  IF poll.failed
  THEN [mem EXCEPT !.fails = MinOf(@ + 1, QuarantineAfter),
                   !.blocked = Backoff(ActiveBackoff, MinOf(mem.fails + 1, QuarantineAfter))]
  ELSE [mem EXCEPT !.fails = 0, !.blocked = 0]
BacklogSettled ==
  IF poll.failed THEN RecordFailure(mem, poll.work)
  ELSE LET m == ClearFailure(mem, poll.work)
       IN IF Complete(poll.work) THEN [m EXCEPT !.cached = NoCache, !.cacheAge = 0]
          ELSE IF poll.repair THEN RecordFailure(m, poll.work)
          ELSE [m EXCEPT !.offset = (@ + 1) % Cardinality(Cycles)]

\* The cadence: activity polls fast, silence backs off.
Cadence(m, activity) ==
  IF activity THEN [m EXCEPT !.machine = "publishing", !.level = Intervals["initial"]]
  ELSE IF m.machine # "backoff"
       THEN [m EXCEPT !.machine = "backoff", !.level = Intervals["initial"]]
       ELSE [m EXCEPT !.level = MinOf(@ * 2, Intervals["longest"])]

\* Every remembered instant comes closer.
Less(t, d) == IF t = None \/ t = Forever THEN t ELSE MaxOf(t - d, 0)
Later(m, d) ==
  [m EXCEPT !.blocked = Less(@, d),
     !.age = [l \in Leads |-> IF @[l] = None THEN None ELSE MinOf(@[l] + d, MaxWait)],
     !.bBlocked = [c \in Cycles |-> Less(@[c], d)],
     !.bQuarantine = [c \in Cycles |-> Less(@[c], d)],
     !.cacheAge = MinOf(@ + d, MaxOf(RefreshEmpty, RefreshFull))]

\* What is remembered counts from the poll's `now', read before its waves.
Settle ==
  /\ pc = "settle"
  /\ LET m == IF poll.work = None THEN mem
              ELSE IF poll.work = poll.cycle THEN ActiveSettled ELSE BacklogSettled
         after == Cadence([m EXCEPT !.lastGood = poll.snap], poll.activity \/ poll.sent)
     IN /\ \E d \in 0..(IF poll.sent THEN LongestWave ELSE 0) : mem' = Later(after, d)
        /\ poll' = [NoPoll EXCEPT !.interval = Interval(after)]
  /\ pc' = "sleep"
  /\ UNCHANGED <<world, owner, held, stop, faults, losses>>

\* A stop ends the sleep at once.
Sleep ==
  /\ pc = "sleep" /\ pc' = "loop"
  /\ mem' = Later(mem, IF stop THEN 0 ELSE poll.interval)
  /\ poll' = NoPoll
  /\ UNCHANGED <<world, owner, held, stop, faults, losses>>

---------------------------------------------------------------------------
(* The world. *)

\* Upstream publishes the next lead of an open cycle, and new cycles open.
Publish == \E c \in Cycles, m \in Models :
  /\ c <= newest /\ published[c][m] < Len(Horizon)
  /\ published' = [published EXCEPT ![c][m] = @ + 1]
  /\ UNCHANGED <<committed, status, newest, owner, held, pc, stop, mem, poll, faults, losses>>
NewCycle ==
  /\ newest + 1 \in Cycles /\ newest' = newest + 1
  /\ UNCHANGED <<published, committed, status, owner, held, pc, stop, mem, poll, faults, losses>>

RequestStop == /\ ~stop /\ pc # "exited" /\ stop' = TRUE
               /\ UNCHANGED <<world, owner, held, pc, mem, poll, faults, losses>>

\* The session that carries the lock dies; another scheduler that was waiting
\* for the key may get it, and gives it up some day.
LoseSession == /\ owner = "me" /\ losses > 0 /\ owner' \in {"none", "other"}
               /\ losses' = losses - 1
               /\ UNCHANGED <<world, held, pc, stop, mem, poll, faults>>
OtherLeaves == /\ owner = "other" /\ owner' = "none"
               /\ UNCHANGED <<world, held, pc, stop, mem, poll, faults, losses>>

\* The process dies with everything it remembers, and the container restarts it.
Crash == /\ pc # "exited" /\ losses > 0 /\ losses' = losses - 1 /\ pc' = "exited"
         /\ held' = FALSE /\ owner' \in IF owner = "me" THEN {"none", "other"} ELSE {owner}
         /\ UNCHANGED <<world, stop, mem, poll, faults>>
Restart == /\ pc = "exited" /\ ~stop
           /\ pc' = "start" /\ mem' = InitMem /\ poll' = NoPoll
           /\ UNCHANGED <<world, owner, held, stop, faults, losses>>

Process == \/ Start \/ Loop \/ Confirm \/ Resolve \/ Decide \/ SelectBacklog
           \/ (\E m \in Models : Dispatch(m) \/ WaveHangs(m) \/ Repair(m)) \/ Settle \/ Sleep
Environment == Publish \/ NewCycle \/ RequestStop \/ LoseSession \/ OtherLeaves
               \/ Crash \/ Restart
Next == Process \/ Environment
Spec == Init /\ [][Next]_vars

\* The process keeps running unless a wave hangs (each of its steps moves pc, and a
\* crash, which moves it too, happens finitely often), the container restarts it,
\* another holder of the leadership does not keep it for ever.
Runs == pc \notin {"hung", "exited"} /\ pc' \in Places \ {pc}
Fairness == WF_pc(Runs) /\ WF_vars(Restart) /\ WF_vars(OtherLeaves)
FairSpec == Spec /\ Fairness
---------------------------------------------------------------------------
(* Properties. *)

\* Whatever failed before, a wave about to start for a model never contains a
\* six-hour reset lead whose predecessor is neither committed for that model
\* nor ahead of it in the same wave (planner.predecessor_satisfied).
WavesRunInOrder ==
  pc \in Models /\ ~poll.repair =>
    LET com == committed[poll.work]
    IN /\ pc = "gfs" => RunsInOrder(poll.targets["gfs"], GfsDone(com))
       /\ RunsInOrder(poll.targets["gefs"], GefsDone(com))

\* A model that succeeded while the other failed is not ingested again: no wave
\* targets a lead its model has committed (the module docstring's invariant
\* on partial success), across crashes and switches of the active cycle.
NoRework ==
  /\ pc = "gfs" => \A l \in poll.targets["gfs"] : ~GfsCommitted(committed[poll.work], l)
  /\ pc \in Models => \A l \in poll.targets["gefs"] : ~GefsCommitted(committed[poll.work], l)

\* A session lost while the process slept is noticed before the next poll
\* plans anything (check_leadership asks the server, not the remembered flag).
PlansOnlyAsLeader == [][pc # "resolve" /\ pc' = "resolve" => owner = "me"]_vars

\* A requested stop ends the process, from a sleep or through a wave that returns.
StopEnds == (stop /\ pc # "hung") ~> pc = "exited"

FullyPublished(c) == \A m \in Models : published[c][m] = Len(Horizon)

\* Waves of the newest cycle, failures, rotation, backoff and stale caches do not starve
\* an older cycle that has a run: once it is fully published and a newer cycle
\* is being served, it becomes ready, unless it leaves the horizon, is given
\* up for good after repeated failures, or the process is stopped.
BacklogServed ==
  \A c \in Cycles :
    (HasRun(c) /\ FullyPublished(c) /\ Tracked > c)
      ~> (Complete(c) \/ Expired(c) \/ mem.bQuarantine[c] = Forever \/ stop)

\* What the newest cycle has published is ingested while it stays the newest,
\* however polls, waves and leaderships failed before.
NewestIngested ==
  \A c \in Cycles :
    (newest = c /\ FullyPublished(c))
      ~> ((\A l \in Leads : BothCommitted(committed[c], l)) \/ newest # c \/ stop)

\* (Not satisfied.)  A backlog attempt that failed again counts as one more
\* consecutive failure, so that a cycle that fails every time reaches its
\* quarantine (docstring of _record_backlog_failure).
FailuresAddUp ==
  [][pc = "settle" /\ poll.work # None /\ poll.work # poll.cycle
       /\ mem'.bBlocked[poll.work] > 0
     => mem'.bFails[poll.work] > mem.bFails[poll.work]]_vars

\* What a poll dispatches is in order and not yet done, whatever it remembers.
PlansAreSound == TypeOK /\ WavesRunInOrder /\ NoRework

\* The loop ends when it is told to, and serves both cycles unless some wave never
\* returns and nothing kills the process.
Progresses == StopEnds /\ (<>[](pc = "hung") \/ (BacklogServed /\ NewestIngested))
==============================================================================
