------------------------------ MODULE StoreGate ------------------------------
(***************************************************************************)
(* The PostgreSQL advisory-lock protocol of a forecast store.              *)
(*                                                                         *)
(* Every actor that touches a store's objects runs on one pooled database  *)
(* connection and takes, in this order, the admission turnstile, the store *)
(* gate and (region writers only) its physical-region locks.  The locks    *)
(* are session-level: they outlive the transaction that took them and die  *)
(* only with the matching unlock or with the physical session.  A slot of  *)
(* the connection pool is called a session here; invalidating a connection *)
(* replaces the physical session behind its slot, which drops its locks.   *)
(*                                                                         *)
(* Roles (StoreLockCoordinator unless said otherwise):                     *)
(*   "writer"  write_region_worker: SHARED admission, SHARED gate, regions *)
(*   "wave"    pre_update_wave, finalize_run, publish_settled_lead:        *)
(*             EXCLUSIVE admission, EXCLUSIVE gate                         *)
(*   "init"    initialize_run_store, reap_orphan_store: EXCLUSIVE gate     *)
(*   "gc"      run_reclamation_worker: SHARED gate                         *)
(*   "reader"  _ReaderGateSession of the API: SHARED admission, SHARED     *)
(*             gate, admission dropped before the read                     *)
(***************************************************************************)
EXTENDS Naturals, FiniteSets

CONSTANTS
    Procs,        \* the actors of one store
    Role,         \* Role[p]: the code path actor p runs
    Sessions,     \* slots of the connection pools
    PoolOf,       \* PoolOf[p]: the pool of actor p's process
    NoSession,    \* no connection checked out
    Regions,      \* physical-region lock keys
    RegionsOf,    \* RegionsOf[p]: the region keys a writer must own
    MaxRounds,    \* bound: how often each actor runs its code path
    MaxFaults     \* bound: session deaths and process crashes

Roles == {"writer", "wave", "init", "gc", "reader"}

Keys == {"admission", "gate"} \cup Regions

ASSUME RolesAssumption == Role \in [Procs -> Roles]
ASSUME SessionsAssumption ==
    NoSession \notin Sessions /\ PoolOf \in [Procs -> SUBSET Sessions]
ASSUME RegionsAssumption ==
    /\ {"admission", "gate"} \cap Regions = {}
    /\ RegionsOf \in [Procs -> SUBSET Regions]
    /\ \A p \in Procs : Role[p] = "writer" => RegionsOf[p] # {}
ASSUME BoundsAssumption == MaxRounds \in Nat /\ MaxFaults \in Nat

VARIABLES
    shared,     \* shared[s][k]: how often session s holds key k SHARED
    exclusive,  \* exclusive[s][k]: how often session s holds key k EXCLUSIVE
    broken,     \* sessions whose server side died before the client noticed
    conn,       \* conn[p]: the session actor p checked out of the pool
    pc,         \* pc[p]: where actor p is in its code path
    held,       \* held[p]: the keys actor p records as held (_LockSet)
    lost,       \* lost[p]: p's session died or was dropped since checkout
    rounds,     \* rounds[p]: runs started by p
    faults      \* faults so far

vars == <<shared, exclusive, broken, conn, pc, held, lost, rounds, faults>>
lockTable == <<shared, exclusive>>

PCs == {"idle", "admission", "gate", "check", "region", "partial", "dropAdmission",
        "critical", "relRegion", "relGate", "relAdmission", "close"}

----------------------------------------------------------------------------
(* What each role asks for. *)

\* Mutant: the reader goes straight for the gate.
TakesAdmissionWritersOnly(p) == Role[p] \in {"writer", "wave"}
TakesAdmission(p) == Role[p] \in {"writer", "wave", "reader"}
IsExclusive(p)    == Role[p] \in {"wave", "init"}

\* The turnstile and the gate are asked for in the same mode; regions are
\* always EXCLUSIVE.
Grantable(s, k, excl) ==
    \A t \in Sessions \ {s} :
        exclusive[t][k] = 0 /\ (excl => shared[t][k] = 0)

Asking(p) == pc[p] \in {"admission", "gate"}

\* A lock_timeout fires only on a statement that had to wait: another session
\* holds the key in a conflicting mode, or another request is queued for it.
Blocked(p) ==
    \/ ~Grantable(conn[p], pc[p], IsExclusive(p))
    \/ \E q \in Procs \ {p} : pc[q] = pc[p] /\ IsExclusive(q)

NoLocks == [k \in Keys |-> 0]

DropSession(s) ==
    /\ shared' = [shared EXCEPT ![s] = NoLocks]
    /\ exclusive' = [exclusive EXCEPT ![s] = NoLocks]

\* Connection.invalidate(): the physical session is gone, the next statement on
\* the same Connection runs on a fresh one.
Invalidate(p) ==
    /\ DropSession(conn[p])
    /\ broken' = broken \ {conn[p]}
    /\ lost' = [lost EXCEPT ![p] = TRUE]

Lock(s, k, excl) ==
    IF excl
    THEN exclusive' = [exclusive EXCEPT ![s][k] = @ + 1] /\ UNCHANGED shared
    ELSE shared' = [shared EXCEPT ![s][k] = @ + 1] /\ UNCHANGED exclusive

\* Mutant: the result of pg_advisory_unlock is not looked at.
HoldsUnverified(s, k, excl) == TRUE
Holds(s, k, excl) == IF excl THEN exclusive[s][k] > 0 ELSE shared[s][k] > 0

Unlock(s, k, excl) ==
    IF excl
    THEN exclusive' = [exclusive EXCEPT ![s][k] = @ - 1] /\ UNCHANGED shared
    ELSE shared' = [shared EXCEPT ![s][k] = @ - 1] /\ UNCHANGED exclusive

Goto(p, l) == pc' = [pc EXCEPT ![p] = l]

----------------------------------------------------------------------------
Init ==
    /\ shared = [s \in Sessions |-> NoLocks]
    /\ exclusive = [s \in Sessions |-> NoLocks]
    /\ broken = {}
    /\ conn = [p \in Procs |-> NoSession]
    /\ pc = [p \in Procs |-> "idle"]
    /\ held = [p \in Procs |-> {}]
    /\ lost = [p \in Procs |-> FALSE]
    /\ rounds = [p \in Procs |-> 0]
    /\ faults = 0

Pooled == {s \in Sessions : \A p \in Procs : conn[p] # s}

\* Check a connection out of the pool (pool_pre_ping replaces a dead one) and
\* build the lock coordinator on it.
Begin(p) ==
    /\ pc[p] = "idle"
    /\ rounds[p] < MaxRounds
    /\ \E s \in Pooled \cap PoolOf[p] :
        /\ conn' = [conn EXCEPT ![p] = s]
        /\ broken' = broken \ {s}
    /\ held' = [held EXCEPT ![p] = {}]
    /\ lost' = [lost EXCEPT ![p] = FALSE]
    /\ rounds' = [rounds EXCEPT ![p] = @ + 1]
    /\ Goto(p, IF TakesAdmission(p) THEN "admission" ELSE "gate")
    /\ UNCHANGED <<lockTable, faults>>

\* Where an actor goes once it has been granted the key it waited for.
AfterGrant(p) ==
    CASE pc[p] = "admission" -> "gate"
      [] pc[p] = "gate" /\ Role[p] = "reader" -> "dropAdmission"
      [] OTHER -> "check"

\* pg_advisory_lock[_shared] returns: the lock is granted and recorded.
Acquire(p) ==
    /\ Asking(p)
    /\ conn[p] \notin broken
    /\ Grantable(conn[p], pc[p], IsExclusive(p))
    /\ Lock(conn[p], pc[p], IsExclusive(p))
    /\ held' = [held EXCEPT ![p] = @ \cup {pc[p]}]
    /\ Goto(p, AfterGrant(p))
    /\ UNCHANGED <<broken, conn, lost, rounds, faults>>

\* Mutant: a writer swallows the gate timeout and writes without the gate.
AfterTimeoutSwallowed(p) ==
    CASE pc[p] = "gate" /\ Role[p] = "writer" -> "check"
      [] pc[p] = "gate" /\ Role[p] = "reader" -> "dropAdmission"
      [] OTHER -> "close"

\* The reader releases the turnstile in a finally block; every other caller
\* asks for the turnstile and the gate before its try block and so leaves
\* without releasing anything.
AfterTimeout(p) ==
    IF pc[p] = "gate" /\ Role[p] = "reader" THEN "dropAdmission" ELSE "close"

\* lock_timeout (55P03) on the turnstile or on the gate.
LockTimeout(p) ==
    /\ Asking(p)
    /\ conn[p] \notin broken
    /\ Blocked(p)
    /\ Goto(p, AfterTimeout(p))
    /\ UNCHANGED <<lockTable, broken, conn, held, lost, rounds, faults>>

\* Any other error of the acquiring statement invalidates the connection.
AcquireError(p) ==
    /\ Asking(p)
    /\ conn[p] \in broken
    /\ Invalidate(p)
    /\ Goto(p, AfterTimeout(p))
    /\ UNCHANGED <<conn, held, rounds, faults>>

\* _assert_not_fenced_under_gate and the checks behind it: the actor goes on,
\* or raises and unwinds.  The statement raises when the session is dead; GC
\* and the orphan reaper look at the catalog on another connection.
Check(p) ==
    /\ pc[p] = "check"
    /\ \/ /\ conn[p] \notin broken \/ Role[p] = "gc" \/ Role[p] = "init"
          /\ Goto(p, IF Role[p] = "writer" THEN "region" ELSE "critical")
       \/ Goto(p, "relGate")
    /\ UNCHANGED <<lockTable, broken, conn, held, lost, rounds, faults>>

----------------------------------------------------------------------------
(* Region locks: try all keys in one statement, give the partial catch back *)
(* in a second one, sleep, retry until the deadline.                        *)

Free(p) == {r \in RegionsOf[p] : Grantable(conn[p], r, TRUE)}

\* Mutant: an attempt that caught some of the keys is taken for a full one.
TryRegionsPartial(p) ==
    /\ pc[p] = "region"
    /\ conn[p] \notin broken
    /\ Free(p) # {}
    /\ exclusive' = [exclusive EXCEPT ![conn[p]] =
                        [k \in Keys |-> IF k \in Free(p) THEN @[k] + 1 ELSE @[k]]]
    /\ held' = [held EXCEPT ![p] = @ \cup Free(p)]
    /\ Goto(p, "critical")
    /\ UNCHANGED <<shared, broken, conn, lost, rounds, faults>>

TryRegions(p) ==
    /\ pc[p] = "region"
    /\ conn[p] \notin broken
    /\ Free(p) # {}
    /\ exclusive' = [exclusive EXCEPT ![conn[p]] =
                        [k \in Keys |-> IF k \in Free(p) THEN @[k] + 1 ELSE @[k]]]
    /\ IF Free(p) = RegionsOf[p]
       THEN /\ held' = [held EXCEPT ![p] = @ \cup RegionsOf[p]]
            /\ Goto(p, "critical")
       ELSE Goto(p, "partial") /\ UNCHANGED held
    /\ UNCHANGED <<shared, broken, conn, lost, rounds, faults>>

Caught(p) == {r \in RegionsOf[p] : exclusive[conn[p]][r] > 0}

\* Mutant: the partial catch is given back with pg_advisory_unlock_all.
ReleasePartialAll(p) ==
    /\ pc[p] = "partial"
    /\ IF conn[p] \in broken
       THEN Invalidate(p)
       ELSE DropSession(conn[p]) /\ UNCHANGED <<broken, lost>>
    /\ Goto(p, "region")
    /\ UNCHANGED <<conn, held, rounds, faults>>

\* The partial catch is given back.  If that statement fails the connection is
\* invalidated, the error is swallowed, and the loop goes on.
ReleasePartial(p) ==
    /\ pc[p] = "partial"
    /\ IF conn[p] \in broken
       THEN Invalidate(p)
       ELSE /\ exclusive' = [exclusive EXCEPT ![conn[p]] =
                  [k \in Keys |-> IF k \in Caught(p) THEN @[k] - 1 ELSE @[k]]]
            /\ UNCHANGED <<shared, broken, lost>>
    /\ Goto(p, "region")
    /\ UNCHANGED <<conn, held, rounds, faults>>

\* Mutant: the region timeout leaves without the finally blocks.
RegionTimeoutEscapes(p) ==
    /\ pc[p] = "region"
    /\ conn[p] \notin broken
    /\ Free(p) # RegionsOf[p]
    /\ Goto(p, "close")
    /\ UNCHANGED <<lockTable, broken, conn, held, lost, rounds, faults>>

\* The deadline passed after an attempt that did not get every key.
RegionTimeout(p) ==
    /\ pc[p] = "region"
    /\ conn[p] \notin broken
    /\ Free(p) # RegionsOf[p]
    /\ Goto(p, "relGate")
    /\ UNCHANGED <<lockTable, broken, conn, held, lost, rounds, faults>>

\* Mutant: the error of the attempt is swallowed and the deadline not checked.
RegionErrorSwallowed(p) ==
    /\ pc[p] = "region"
    /\ conn[p] \in broken
    /\ UNCHANGED vars

RegionError(p) ==
    /\ pc[p] = "region"
    /\ conn[p] \in broken
    /\ Invalidate(p)
    /\ Goto(p, "relGate")
    /\ UNCHANGED <<conn, held, rounds, faults>>

----------------------------------------------------------------------------
(* The protected work ends, normally or by an exception: same finally blocks. *)
Leave(p) ==
    /\ pc[p] = "critical"
    /\ Goto(p, IF Role[p] = "writer" THEN "relRegion" ELSE "relGate")
    /\ UNCHANGED <<lockTable, broken, conn, held, lost, rounds, faults>>

KeyOf(p) == IF pc[p] = "relGate" THEN "gate" ELSE "admission"

AfterRelease(p) ==
    IF pc[p] = "relGate" /\ Role[p] \in {"writer", "wave"} THEN "relAdmission" ELSE "close"

\* pg_advisory_unlock of the gate or the turnstile, confirmed or the connection
\* is invalidated; a key the coordinator does not record is skipped.
Release(p) ==
    /\ pc[p] \in {"relGate", "relAdmission"}
    /\ IF KeyOf(p) \notin held[p]
       THEN UNCHANGED <<lockTable, broken, lost>>
       ELSE IF conn[p] \in broken \/ ~Holds(conn[p], KeyOf(p), IsExclusive(p))
       THEN Invalidate(p)
       ELSE /\ Unlock(conn[p], KeyOf(p), IsExclusive(p))
            /\ UNCHANGED <<broken, lost>>
    /\ held' = [held EXCEPT ![p] = @ \ {KeyOf(p)}]
    /\ Goto(p, AfterRelease(p))
    /\ UNCHANGED <<conn, rounds, faults>>

\* release_region_locks: one statement for every key of the batch.
ReleaseRegions(p) ==
    /\ pc[p] = "relRegion"
    /\ IF conn[p] \in broken \/ Caught(p) # RegionsOf[p]
       THEN Invalidate(p)
       ELSE /\ exclusive' = [exclusive EXCEPT ![conn[p]] =
                  [k \in Keys |-> IF k \in RegionsOf[p] THEN @[k] - 1 ELSE @[k]]]
            /\ UNCHANGED <<shared, broken, lost>>
    /\ held' = [held EXCEPT ![p] = @ \ RegionsOf[p]]
    /\ Goto(p, "relGate")
    /\ UNCHANGED <<conn, rounds, faults>>

\* The reader gives the turnstile back as soon as it owns the gate, or when the
\* gate timed out.  A failed unlock leaves the session without a connection, so
\* the revalidation that follows fails and nothing is read.
DropAdmission(p) ==
    /\ pc[p] = "dropAdmission"
    /\ IF conn[p] \in broken \/ ~Holds(conn[p], "admission", FALSE)
       THEN /\ Invalidate(p)
            /\ Goto(p, "close")
       ELSE /\ Unlock(conn[p], "admission", FALSE)
            /\ UNCHANGED <<broken, lost>>
            /\ Goto(p, IF "gate" \in held[p] THEN "critical" ELSE "close")
    /\ held' = [held EXCEPT ![p] = @ \ {"admission"}]
    /\ UNCHANGED <<conn, rounds, faults>>

\* Connection.close(): the slot goes back to the pool.  The pool's reset is a
\* ROLLBACK, which leaves session-level advisory locks alone.
Close(p) ==
    /\ pc[p] = "close"
    /\ conn' = [conn EXCEPT ![p] = NoSession]
    /\ held' = [held EXCEPT ![p] = {}]
    /\ Goto(p, "idle")
    /\ UNCHANGED <<lockTable, broken, lost, rounds, faults>>

----------------------------------------------------------------------------
(* Faults of the environment. *)

\* The server ends a session (restart, idle timeout, network): its locks go at
\* once, the client finds out at its next statement.
SessionDeath(s) ==
    /\ faults < MaxFaults
    /\ s \notin broken
    /\ DropSession(s)
    /\ broken' = broken \cup {s}
    /\ lost' = [p \in Procs |-> lost[p] \/ conn[p] = s]
    /\ faults' = faults + 1
    /\ UNCHANGED <<conn, pc, held, rounds>>

\* An actor's process is killed; the server drops its session.
Crash(p) ==
    /\ faults < MaxFaults
    /\ pc[p] # "idle"
    /\ DropSession(conn[p])
    /\ broken' = broken \ {conn[p]}
    /\ conn' = [conn EXCEPT ![p] = NoSession]
    /\ held' = [held EXCEPT ![p] = {}]
    /\ Goto(p, "idle")
    /\ faults' = faults + 1
    /\ UNCHANGED <<lost, rounds>>

Step(p) ==
    \/ Acquire(p) \/ LockTimeout(p) \/ AcquireError(p) \/ Check(p)
    \/ TryRegions(p) \/ ReleasePartial(p) \/ RegionTimeout(p) \/ RegionError(p)
    \/ Leave(p) \/ Release(p) \/ ReleaseRegions(p) \/ DropAdmission(p) \/ Close(p)

Next ==
    \/ \E p \in Procs : Begin(p) \/ Step(p) \/ Crash(p)
    \/ \E s \in Sessions : SessionDeath(s)

\* A started code path keeps running and every wait has a deadline; nothing
\* obliges an actor to start, nor a fault to happen.
Writers == {p \in Procs : Role[p] = "writer"}
Fairness == (\A p \in Procs : WF_vars(Step(p))) /\ (\A p \in Writers : SF_vars(RegionTimeout(p)))

Spec == Init /\ [][Next]_vars /\ Fairness
----------------------------------------------------------------------------
(* Properties *)

\* The values the variables of the lock protocol can take.
TypeOK ==
    /\ shared \in [Sessions -> [Keys -> Nat]]
    /\ exclusive \in [Sessions -> [Keys -> Nat]]
    /\ broken \subseteq Sessions
    /\ conn \in [Procs -> Sessions \cup {NoSession}]
    /\ pc \in [Procs -> PCs]
    /\ held \in [Procs -> SUBSET Keys]
    /\ lost \in [Procs -> BOOLEAN]
    /\ rounds \in [Procs -> 0..MaxRounds]
    /\ faults \in 0..MaxFaults

Working(p) == pc[p] = "critical" /\ ~lost[p]

\* What initialization, pre-update, finalization, publication and the orphan
\* reaper rely on: while one of them works on a store no region writer, GC
\* batch, reader or other exclusive owner does, unless a session was lost.
ExclusiveWorksAlone ==
    \A p, q \in Procs : p # q /\ Working(p) /\ Working(q) => ~IsExclusive(p)

\* Two writers never write the same physical region at the same time, whatever
\* run or process they belong to (write_region_worker's region locks).
RegionsDisjoint ==
    \A p, q \in Procs :
        p # q /\ Role[p] = "writer" /\ Role[q] = "writer" /\ Working(p) /\ Working(q)
            => RegionsOf[p] \cap RegionsOf[q] = {}

\* No path, error paths included, returns a connection to the pool that still
\* owns the store gate or a region lock.
PoolKeepsNoGate ==
    \A s \in Pooled : \A k \in Keys \ {"admission"} :
        shared[s][k] = 0 /\ exclusive[s][k] = 0

\* The lock set a coordinator records is backed by the server for as long as
\* its session lives, so no release is ever refused on a live session.
LockSetBacked ==
    \A p \in Procs : \A k \in held[p] :
        ~lost[p] => Holds(conn[p], k, IsExclusive(p) \/ k \in Regions)

\* The turnstile keeps new SHARED owners out: from the moment an exclusive
\* owner holds it and waits for the gate, no writer and no reader is granted
\* the gate ahead of it.
TurnstileClosed ==
    [][\A p, q \in Procs :
        /\ pc[q] = "gate" /\ Role[q] = "wave" /\ ~lost[q]
        /\ Role[p] \in {"writer", "reader"}
        => ~(pc[p] = "gate" /\ "gate" \notin held[p] /\ "gate" \in held'[p])]_vars

\* Every started code path comes to rest: no interleaving of waits, partial
\* catches, timeouts and lost sessions leaves an actor stuck in the protocol.
\* (Each actor runs MaxRounds times at most, so in the end nobody is left in it.)
Drains == <>[](\A p \in Procs : pc[p] = "idle")

\* locks.py asks that every successful acquisition has a matching unlock in the
\* caller's finally, and that no lock leaks into the pool.  It does not hold: after a
\* gate timeout the turnstile goes into the pool with its connection.
NoLockInPool ==
    \A s \in Pooled : \A k \in Keys : shared[s][k] = 0 /\ exclusive[s][k] = 0
=============================================================================
