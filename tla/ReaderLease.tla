----------------------------- MODULE ReaderLease -----------------------------
(***************************************************************************)
(* The API's gated reads of one forecast store.  Threads of one process    *)
(* share a lease: one pooled connection that holds the store gate SHARED.  *)
(* A read is admitted by a semaphore and by the shutdown lifecycle, joins  *)
(* the current lease if that is young enough or makes a new one, reads,    *)
(* and leaves; the last one out closes the session.  Opposite them stands  *)
(* one exclusive owner, a wave operation (turnstile, then gate) or a store *)
(* initialization (gate only), and the server's shutdown.                  *)
(*                                                                         *)
(* An exclusive request that waits is not overtaken by later shared ones   *)
(* (PostgreSQL's lock queue).  Deadlines are timeouts that may strike      *)
(* whenever a thread would wait.                                           *)
(***************************************************************************)
EXTENDS Naturals, FiniteSets

CONSTANTS
    Readers,     \* request threads of the process
    Leases,      \* lease objects, more than there can be in use
    NoLease,
    Life,        \* MAX_READER_GATE_LEASE_LIFETIME_SECONDS, in ticks
    MaxReads,    \* API_MAX_CONCURRENT_GATED_READS
    PoolSize,    \* connections of the reader-lock pool
    MaxFaults    \* bound: database sessions that die, statements that fail

ASSUME LeaseAssumption ==
    /\ NoLease \notin Leases /\ IsFiniteSet(Readers)
    /\ IsFiniteSet(Leases) /\ Cardinality(Leases) > Cardinality(Readers)
    /\ Life \in Nat \ {0} /\ MaxReads \in Nat \ {0} /\ PoolSize \in Nat \ {0}
    /\ MaxFaults \in Nat

VARIABLES
    lease,     \* the lease objects
    current,   \* the map's entry for the store
    age,       \* ticks since that lease was made
    pc,        \* where each reader is
    at,        \* the lease each reader counts in
    active,    \* ReaderGateLifecycle._active_count
    permits,   \* free permits of the admission semaphore
    server,    \* "open", "draining", "disposed", "stuck"
    writer,    \* "idle", "admission", "gate", "store"
    kind,      \* "wave" or "init": which locks the exclusive owner takes
    readable,  \* the run is ready, processing or partial at this path
    faults

vars == <<lease, current, age, pc, at, active, permits, server, writer, kind, readable, faults>>
world == <<server, writer, kind, readable>>
counts == <<active, permits>>

Blank == [state |-> "none", refs |-> 0, conn |-> FALSE,
          adm |-> FALSE, gate |-> FALSE, dead |-> FALSE]

Init ==
    /\ lease = [l \in Leases |-> Blank] /\ current = NoLease /\ age = 0
    /\ pc = [r \in Readers |-> "idle"] /\ at = [r \in Readers |-> NoLease]
    /\ active = 0 /\ permits = MaxReads
    /\ server = "open" /\ writer = "idle" /\ kind = "wave" /\ readable = TRUE
    /\ faults = 0

\* A lease without a reader and outside the map is garbage.
Left(x) == IF x.refs = 1 /\ ~x.conn THEN Blank ELSE [x EXCEPT !.refs = @ - 1]
Unmap(r) == /\ current' = IF current = at[r] THEN NoLease ELSE current
            /\ age' = IF current = at[r] THEN 0 ELSE age
Go(r, place) == pc' = [pc EXCEPT ![r] = place]
Change(l, new) == lease' = [lease EXCEPT ![l] = new]
Connections == Cardinality({l \in Leases : lease[l].conn})
\* Lease objects nobody refers to any more.
Free(l) == lease[l].refs = 0 /\ l # current /\ ~lease[l].conn

\* Leaving gated_read: lifecycle.exit and semaphore.release.
Leave(r) == /\ Go(r, "idle") /\ at' = [at EXCEPT ![r] = NoLease]
            /\ active' = active - 1 /\ permits' = permits + 1

----------------------------------------------------------------------------
(* Entering. *)

\* Once closing, enter raises and the permit goes back.
Enter(r) ==
    /\ pc[r] = "idle" /\ permits > 0 /\ server = "open"
    /\ permits' = permits - 1 /\ active' = active + 1 /\ Go(r, "entered")
    /\ UNCHANGED <<lease, current, age, at, world, faults>>

\* Mutant: a lease takes joiners as long as it lives.
JoinableForever == current # NoLease /\ lease[current].state \in {"INITIALIZING", "ACTIVE"}
Joinable == /\ current # NoLease
            /\ lease[current].state \in {"INITIALIZING", "ACTIVE"}
            /\ age < Life

Join(r) ==
    /\ pc[r] = "entered" /\ Joinable
    /\ Change(current, [lease[current] EXCEPT !.refs = @ + 1])
    /\ at' = [at EXCEPT ![r] = current] /\ Go(r, "joined")
    /\ UNCHANGED <<current, age, counts, world, faults>>

Create(r) ==
    /\ pc[r] = "entered" /\ ~Joinable
    /\ LET l == CHOOSE l \in Leases : Free(l)
       IN /\ Change(l, [Blank EXCEPT !.state = "INITIALIZING", !.refs = 1])
          /\ current' = l /\ age' = 0 /\ at' = [at EXCEPT ![r] = l]
    /\ Go(r, "checkout")
    /\ UNCHANGED <<counts, world, faults>>

----------------------------------------------------------------------------
(* The creator's session: connection, admission, gate, revalidation. *)

Take(r, here, there, new) ==
    /\ pc[r] = here /\ Change(at[r], new) /\ Go(r, there)
    /\ UNCHANGED <<current, age, at, counts, world, faults>>

Checkout(r) == /\ pc[r] = "checkout" /\ Connections < PoolSize
               /\ Take(r, "checkout", "admission", [lease[at[r]] EXCEPT !.conn = TRUE])

TurnstileTaken == kind = "wave" /\ writer # "idle"
GateTaken == writer \in {"gate", "store"}
Alive(r) == ~lease[at[r]].dead

TakeAdmission(r) ==
    /\ pc[r] = "admission" /\ ~TurnstileTaken /\ Alive(r)
    /\ Take(r, "admission", "gate", [lease[at[r]] EXCEPT !.adm = TRUE])

\* The turnstile is given back as soon as the gate is held.
TakeGate(r) ==
    /\ pc[r] = "gate" /\ ~GateTaken /\ Alive(r)
    /\ Take(r, "gate", "revalidate", [lease[at[r]] EXCEPT !.adm = FALSE, !.gate = TRUE])

Revalidate(r) ==
    /\ pc[r] = "revalidate" /\ readable /\ Alive(r)
    /\ Take(r, "revalidate", "reading", [lease[at[r]] EXCEPT !.state = "ACTIVE"])

\* A pool or lock timeout, a session found dead, a run that cannot be read.
MustFail(r) ==
    \/ pc[r] = "checkout" /\ Connections >= PoolSize
    \/ pc[r] = "admission" /\ TurnstileTaken
    \/ pc[r] = "gate" /\ GateTaken
    \/ pc[r] = "revalidate" /\ ~readable
    \/ pc[r] \in {"admission", "gate", "revalidate"} /\ ~Alive(r)

Fail(r) ==
    /\ MustFail(r)
    /\ Take(r, pc[r], "failed", [lease[at[r]] EXCEPT !.state = "FAILED"])

Released(l) == [lease[l] EXCEPT !.conn = FALSE, !.adm = FALSE, !.gate = FALSE, !.dead = FALSE]

CleanUp(r) ==
    /\ pc[r] = "failed"
    /\ Unmap(r)
    /\ Change(at[r], Left(Released(at[r])))
    /\ Leave(r)
    /\ UNCHANGED <<world, faults>>

----------------------------------------------------------------------------
(* Joiners, reading and leaving. *)

Proceed(r) ==
    /\ pc[r] = "joined" /\ lease[at[r]].state \notin {"INITIALIZING", "FAILED"}
    /\ Go(r, "reading")
    /\ UNCHANGED <<lease, current, age, at, counts, world, faults>>

\* The deadline passed while the creator was still at it, or the creator failed.
GiveUp(r) ==
    /\ pc[r] = "joined" /\ lease[at[r]].state \in {"INITIALIZING", "FAILED"}
    /\ Change(at[r], Left(lease[at[r]]))
    /\ Leave(r)
    /\ UNCHANGED <<current, age, world, faults>>

\* Mutant: whoever finishes first closes the session.
ExitFirst(r) ==
    /\ pc[r] = "reading"
    /\ Change(at[r], [Released(at[r]) EXCEPT !.refs = @ - 1, !.state = "CLOSED"])
    /\ Unmap(r)
    /\ Leave(r)
    /\ UNCHANGED <<world, faults>>

ExitShared(r) ==
    /\ pc[r] = "reading" /\ lease[at[r]].refs > 1
    /\ Change(at[r], [lease[at[r]] EXCEPT !.refs = @ - 1])
    /\ Leave(r)
    /\ UNCHANGED <<current, age, world, faults>>

ExitLast(r) ==
    /\ pc[r] = "reading" /\ lease[at[r]].refs = 1
    /\ Take(r, "reading", "closing", [lease[at[r]] EXCEPT !.refs = 0, !.state = "CLOSED"])

\* A newer lease may have replaced the map's entry meanwhile.
Close(r) ==
    /\ pc[r] = "closing"
    /\ Unmap(r)
    /\ Change(at[r], Blank)
    /\ Leave(r)
    /\ UNCHANGED <<world, faults>>

----------------------------------------------------------------------------
(* The other side: writer, catalog, time, failures, shutdown. *)

rest == <<pc, at, active, permits>>
env == <<current, age, rest>>

WriterAsks ==
    /\ writer = "idle" /\ kind' \in {"wave", "init"}
    /\ writer' = IF kind' = "wave" THEN "admission" ELSE "gate"
    /\ UNCHANGED <<lease, env, server, readable, faults>>
WriterTurnstile ==
    /\ writer = "admission" /\ \A l \in Leases : ~lease[l].adm
    /\ writer' = "gate" /\ UNCHANGED <<lease, env, server, kind, readable, faults>>
WriterGate ==
    /\ writer = "gate" /\ \A l \in Leases : ~lease[l].gate
    /\ writer' = "store" /\ UNCHANGED <<lease, env, server, kind, readable, faults>>
WriterDone ==
    /\ writer = "store" /\ writer' = "idle" /\ kind' = "wave"
    /\ UNCHANGED <<lease, env, server, readable, faults>>

\* The run leaves or regains the readable statuses.
CatalogMoves ==
    /\ readable' = ~readable /\ UNCHANGED <<lease, env, server, writer, kind, faults>>

Tick ==
    /\ current # NoLease /\ age < Life /\ age' = age + 1
    /\ UNCHANGED <<lease, current, rest, world, faults>>

\* The server drops the session's locks; the client has not noticed.
SessionDeath(l) ==
    /\ faults < MaxFaults /\ lease[l].conn /\ ~lease[l].dead
    /\ Change(l, [lease[l] EXCEPT !.adm = FALSE, !.gate = FALSE, !.dead = TRUE])
    /\ faults' = faults + 1
    /\ UNCHANGED <<env, world>>

BeginShutdown ==
    /\ server = "open" /\ server' = "draining"
    /\ UNCHANGED <<lease, env, writer, kind, readable, faults>>
\* wait_drained ends with the pool disposed, or raises and leaves it alone.
Drained ==
    /\ server = "draining"
    /\ server' = IF active = 0 THEN "disposed" ELSE "stuck"
    /\ UNCHANGED <<lease, env, writer, kind, readable, faults>>

ReaderStep(r) ==
    \/ Join(r) \/ Create(r) \/ Checkout(r) \/ TakeAdmission(r) \/ TakeGate(r)
    \/ Revalidate(r) \/ Fail(r) \/ CleanUp(r) \/ Proceed(r) \/ GiveUp(r)
    \/ ExitShared(r) \/ ExitLast(r) \/ Close(r)
WriterStep == WriterTurnstile \/ WriterGate \/ WriterDone

Next ==
    \/ \E r \in Readers : Enter(r) \/ ReaderStep(r)
    \/ WriterAsks \/ WriterStep \/ CatalogMoves \/ Tick
    \/ \E l \in Leases : SessionDeath(l)
    \/ BeginShutdown \/ Drained

\* Threads and lock holders are scheduled, and time passes.
Fairness == /\ \A r \in Readers : WF_vars(ReaderStep(r))
            /\ WF_vars(WriterStep) /\ WF_vars(Tick)

Spec == Init /\ [][Next]_vars /\ Fairness

----------------------------------------------------------------------------
TypeOK ==
    /\ lease \in [Leases -> [state : {"none", "INITIALIZING", "ACTIVE", "FAILED", "CLOSED"},
                             refs : 0..Cardinality(Readers),
                             conn : BOOLEAN, adm : BOOLEAN, gate : BOOLEAN, dead : BOOLEAN]]
    /\ current \in Leases \cup {NoLease} /\ age \in 0..Life
    /\ pc \in [Readers -> {"idle", "entered", "joined", "checkout", "admission", "gate",
                           "revalidate", "failed", "reading", "closing"}]
    /\ at \in [Readers -> Leases \cup {NoLease}]
    /\ active \in 0..Cardinality(Readers) /\ permits \in 0..MaxReads
    /\ server \in {"open", "draining", "disposed", "stuck"}
    /\ writer \in {"idle", "admission", "gate", "store"} /\ kind \in {"wave", "init"}
    /\ readable \in BOOLEAN /\ faults \in 0..MaxFaults

\* A thread that reads does so under a gate its lease still holds, whoever of its
\* sharers came or went, unless the database session died under it.
ReadsUnderGate ==
    \A r \in Readers : pc[r] = "reading" => lease[at[r]].gate \/ lease[at[r]].dead

\* No connection outlives its readers: a session is checked out only while some
\* thread counts in its lease or is on its way to give it back.
SessionsAreOwned ==
    \A l \in Leases : lease[l].conn => \E r \in Readers : at[r] = l

\* The pool is disposed of only when nobody uses a connection of it.
DisposedWhenQuiet == server = "disposed" => Connections = 0

\* Readers that keep joining cannot hold off an exclusive owner for ever: the
\* lease stops taking joiners, and its successor stands behind the turnstile.
WriterGetsStore == writer # "idle" ~> writer = "store"

\* Every thread that got in gets out, whatever fails on the way.
ReadsEnd == \A r \in Readers : pc[r] # "idle" ~> pc[r] = "idle"

\* A read has its gate, a session its owner and the pool its end, at every moment.
LeasesAreSound == TypeOK /\ ReadsUnderGate /\ SessionsAreOwned /\ DisposedWhenQuiet

\* Neither the exclusive owner nor a reader waits for ever.
LeasesProgress == WriterGetsStore /\ ReadsEnd
=============================================================================
