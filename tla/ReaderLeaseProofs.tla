------------------------- MODULE ReaderLeaseProofs -------------------------
(***************************************************************************)
(* The API's shared leases, for all threads, lifetimes, permits, pools and *)
(* dying sessions: reads stay under their gate, sessions are owned, and    *)
(* the pool is disposed of only when nobody uses it.                       *)
(***************************************************************************)
EXTENDS ReaderLease, FiniteSetTheorems, TLAPS

\* Where the creator of a lease is before its lease is active or given back.
Creating == {"checkout", "admission", "gate", "revalidate"}
Outside == {"idle", "entered"}

\* The lease objects of the type invariant.
Objects == [state : {"none", "INITIALIZING", "ACTIVE", "FAILED", "CLOSED"},
            refs : 0..Cardinality(Readers),
            conn : BOOLEAN, adm : BOOLEAN, gate : BOOLEAN, dead : BOOLEAN]

\* Who counts in a lease, and who holds a permit.
Sharers(l) == {r \in Readers : at[r] = l /\ pc[r] # "closing"}
Busy == {r \in Readers : pc[r] # "idle"}

RefsCount == \A l \in Leases : lease[l].refs = Cardinality(Sharers(l))
ActiveCount == active = Cardinality(Busy) /\ permits + active = MaxReads
Placed == \A r \in Readers : at[r] = NoLease <=> pc[r] \in Outside

\* What a thread's place says of its lease.
StateByPlace ==
    \A r \in Readers :
        /\ pc[r] \in Creating => lease[at[r]].state = "INITIALIZING"
        /\ pc[r] = "failed" => lease[at[r]].state = "FAILED"
        /\ pc[r] = "reading" => lease[at[r]].state = "ACTIVE"
        /\ pc[r] = "closing" => lease[at[r]].state = "CLOSED"
        /\ pc[r] = "joined" => lease[at[r]].state \in {"INITIALIZING", "ACTIVE", "FAILED"}
SessionByPlace ==
    \A r \in Readers :
        /\ pc[r] = "checkout" => ~lease[at[r]].conn
        /\ pc[r] \in {"admission", "gate", "revalidate", "closing"} => lease[at[r]].conn
        /\ pc[r] = "revalidate" => lease[at[r]].gate \/ lease[at[r]].dead

\* A lease has one creator and one closer.
OneOwner ==
    \A q, r \in Readers :
        /\ at[q] = at[r]
        /\ \/ pc[q] \in Creating \cup {"failed"} /\ pc[r] \in Creating \cup {"failed"}
           \/ pc[q] = "closing" /\ pc[r] = "closing"
        => q = r

\* What a lease's state says of its threads and its session.
OwnerByState ==
    \A l \in Leases :
        /\ lease[l].state = "INITIALIZING" => \E r \in Readers : at[r] = l /\ pc[r] \in Creating
        /\ lease[l].state = "FAILED" /\ lease[l].conn => \E r \in Readers : at[r] = l /\ pc[r] = "failed"
        /\ lease[l].state = "ACTIVE" => lease[l].conn /\ (lease[l].gate \/ lease[l].dead)

QuietAfterDisposal == server = "disposed" => \A r \in Readers : pc[r] = "idle"

IInv ==
    /\ TypeOK /\ RefsCount /\ ActiveCount /\ Placed /\ StateByPlace /\ SessionByPlace
    /\ OneOwner /\ OwnerByState /\ SessionsAreOwned /\ QuietAfterDisposal
----------------------------------------------------------------------------
(* How one thread's step moves the counts. *)

\* What thread r adds to the count of a lease, and to the count of the server.
Counted(r, l) == IF at[r] = l /\ pc[r] # "closing" THEN 1 ELSE 0
Occupied(r) == IF pc[r] # "idle" THEN 1 ELSE 0

\* Sets of threads that differ in r alone.
LEMMA CountMove ==
    ASSUME NEW r \in Readers, NEW S \in SUBSET Readers, NEW T \in SUBSET Readers,
           S \ {r} = T \ {r}
    PROVE  Cardinality(T) = Cardinality(S) - (IF r \in S THEN 1 ELSE 0)
                                           + (IF r \in T THEN 1 ELSE 0)
<1>1. IsFiniteSet(S) /\ IsFiniteSet(T) /\ IsFiniteSet(S \ {r}) /\ IsFiniteSet(T \ {r})
  BY FS_Subset, LeaseAssumption, S \ {r} \in SUBSET S, T \ {r} \in SUBSET T
<1>2. Cardinality(S) \in Nat /\ Cardinality(T) \in Nat
  BY <1>1, FS_CardinalityType
<1>3. /\ r \in S => Cardinality(S \ {r}) = Cardinality(S) - 1
      /\ r \in T => Cardinality(T \ {r}) = Cardinality(T) - 1
  BY <1>1, FS_RemoveElement
<1>4. Cardinality(S \ {r}) = Cardinality(T \ {r})
  OBVIOUS
<1>5. CASE r \in S /\ r \in T
  BY <1>2, <1>3, <1>4, <1>5
<1>6. CASE r \in S /\ r \notin T
  <2>1. S \ {r} = T
    BY <1>6
  <2>2. Cardinality(T) = Cardinality(S) - 1
    BY <1>3, <1>6, <2>1
  <2> QED
    BY <1>2, <1>6, <2>2
<1>7. CASE r \notin S /\ r \in T
  <2>1. T \ {r} = S
    BY <1>7
  <2>2. Cardinality(S) = Cardinality(T) - 1
    BY <1>3, <1>7, <2>1
  <2> QED
    BY <1>2, <1>7, <2>2
<1>8. CASE r \notin S /\ r \notin T
  <2>1. S = T
    BY <1>8
  <2> QED
    BY <1>2, <1>8, <2>1
<1> QED
  BY <1>5, <1>6, <1>7, <1>8

\* The counts of the leases stay right when each moves with the thread.
LEMMA RefsStep ==
    ASSUME RefsCount, NEW r \in Readers,
           \A q \in Readers \ {r} : at'[q] = at[q] /\ pc'[q] = pc[q],
           \A l \in Leases : lease'[l].refs = lease[l].refs - Counted(r, l) + Counted(r, l)'
    PROVE  RefsCount'
<1> SUFFICES ASSUME NEW l \in Leases
             PROVE  lease'[l].refs = Cardinality(Sharers(l)')
  BY DEF RefsCount
<1>1. Sharers(l) \in SUBSET Readers /\ Sharers(l)' \in SUBSET Readers
  BY DEF Sharers
<1>2. Sharers(l) \ {r} = Sharers(l)' \ {r}
  BY DEF Sharers
<1>3. Cardinality(Sharers(l)') = Cardinality(Sharers(l)) - (IF r \in Sharers(l) THEN 1 ELSE 0)
                                                         + (IF r \in Sharers(l)' THEN 1 ELSE 0)
  BY <1>1, <1>2, CountMove
<1>4. Counted(r, l) = (IF r \in Sharers(l) THEN 1 ELSE 0)
      /\ Counted(r, l)' = (IF r \in Sharers(l)' THEN 1 ELSE 0)
  BY DEF Counted, Sharers
<1> QED
  BY <1>3, <1>4 DEF RefsCount

\* So does the count of the threads inside.
LEMMA ActiveStep ==
    ASSUME ActiveCount, active \in Int, permits \in Int, NEW r \in Readers,
           \A q \in Readers \ {r} : pc'[q] = pc[q],
           active' = active - Occupied(r) + Occupied(r)', permits' + active' = permits + active
    PROVE  ActiveCount'
<1>1. Busy \in SUBSET Readers /\ Busy' \in SUBSET Readers
  BY DEF Busy
<1>2. Busy \ {r} = Busy' \ {r}
  BY DEF Busy
<1>3. Cardinality(Busy') = Cardinality(Busy) - (IF r \in Busy THEN 1 ELSE 0)
                                             + (IF r \in Busy' THEN 1 ELSE 0)
  BY <1>1, <1>2, CountMove
<1>4. Occupied(r) = (IF r \in Busy THEN 1 ELSE 0) /\ Occupied(r)' = (IF r \in Busy' THEN 1 ELSE 0)
  BY DEF Occupied, Busy
<1> QED
  BY <1>3, <1>4 DEF ActiveCount

\* No count exceeds the number of threads.
LEMMA SubsetBounds ==
    \A S \in SUBSET Readers : Cardinality(S) \in 0..Cardinality(Readers)
<1> SUFFICES ASSUME NEW S \in SUBSET Readers PROVE Cardinality(S) \in 0..Cardinality(Readers)
  OBVIOUS
<1>1. IsFiniteSet(S) /\ Cardinality(S) <= Cardinality(Readers)
  BY FS_Subset, LeaseAssumption
<1>2. Cardinality(S) \in Nat /\ Cardinality(Readers) \in Nat
  BY <1>1, FS_CardinalityType, LeaseAssumption
<1> QED
  BY <1>1, <1>2

\* Counts that are right are in their ranges.
LEMMA CountsTyped ==
    /\ RefsCount => \A l \in Leases : lease[l].refs \in 0..Cardinality(Readers)
    /\ RefsCount' => \A l \in Leases : lease'[l].refs \in 0..Cardinality(Readers)
    /\ ActiveCount' => active' \in 0..Cardinality(Readers)
<1>1. \A l \in Leases : Sharers(l) \in SUBSET Readers /\ Sharers(l)' \in SUBSET Readers
  BY DEF Sharers
<1>2. Busy' \in SUBSET Readers
  BY DEF Busy
<1> QED
  BY <1>1, <1>2, SubsetBounds DEF RefsCount, ActiveCount

----------------------------------------------------------------------------
(* What the invariant says of one thread and its lease. *)

LEMMA Place ==
    ASSUME IInv, NEW r \in Readers
    PROVE  /\ pc[r] \notin Outside => at[r] \in Leases /\ at[r] # NoLease
           /\ pc[r] \in Outside => at[r] = NoLease
           /\ \A l \in Leases : pc[r] \in Outside => at[r] # l
BY LeaseAssumption DEF IInv, TypeOK, Placed

\* A count of one leaves nobody else but a closer, a larger one somebody else.
LEMMA Company ==
    ASSUME IInv, NEW r \in Readers, pc[r] \notin Outside, pc[r] # "closing"
    PROVE  /\ lease[at[r]].refs \in 1..Cardinality(Readers)
           /\ lease[at[r]].refs = 1 => \A q \in Readers : at[q] = at[r] => q = r \/ pc[q] = "closing"
           /\ lease[at[r]].refs > 1 =>
                 \E q \in Readers \ {r} : at[q] = at[r] /\ pc[q] # "closing"
<1> DEFINE S == Sharers(at[r])
<1>1. at[r] \in Leases
  BY Place
<1>2. lease[at[r]].refs = Cardinality(S) /\ Cardinality(S) \in 0..Cardinality(Readers)
  BY <1>1, SubsetBounds DEF IInv, RefsCount, Sharers
<1>3. S \in SUBSET Readers /\ IsFiniteSet(S) /\ r \in S
  <2>1. S \in SUBSET Readers /\ r \in S
    BY DEF Sharers
  <2> QED
    BY <2>1, FS_Subset, LeaseAssumption
<1>4. Cardinality(Readers) \in Nat
  BY FS_CardinalityType, LeaseAssumption
<1>5. IsFiniteSet(S \ {r}) /\ Cardinality(S \ {r}) = Cardinality(S) - 1 /\ Cardinality(S \ {r}) \in Nat
  BY <1>3, FS_RemoveElement, FS_CardinalityType
<1>6. Cardinality(S \ {r}) = 0 <=> S \ {r} = {}
  BY <1>5, FS_EmptySet
<1>7. lease[at[r]].refs \in 1..Cardinality(Readers)
  BY <1>2, <1>4, <1>5
<1>8. ASSUME lease[at[r]].refs = 1, NEW q \in Readers, at[q] = at[r], q # r
      PROVE  pc[q] = "closing"
  <2>1. q \notin S
    BY <1>2, <1>5, <1>6, <1>8
  <2> QED
    BY <1>8, <2>1 DEF Sharers
<1>9. ASSUME lease[at[r]].refs > 1
      PROVE  \E q \in Readers \ {r} : at[q] = at[r] /\ pc[q] # "closing"
  <2>1. S \ {r} # {}
    BY <1>2, <1>4, <1>5, <1>6, <1>9
  <2> QED
    BY <2>1 DEF Sharers
<1> QED
  BY <1>7, <1>8, <1>9

\* A free lease has no thread at it, and a thread that enters finds one.
LEMMA FreeIsEmpty ==
    ASSUME IInv, NEW l \in Leases, Free(l), NEW q \in Readers
    PROVE  at[q] # l
<1> SUFFICES ASSUME at[q] = l
             PROVE  FALSE
  OBVIOUS
<1>1. pc[q] \notin Outside
  BY Place
<1>2. CASE pc[q] = "closing"
  BY <1>2 DEF IInv, SessionByPlace, Free
<1>3. CASE pc[q] # "closing"
  BY <1>1, <1>3, Company DEF Free
<1> QED
  BY <1>2, <1>3

LEMMA LeaseInUse ==
    ASSUME IInv, NEW l \in Leases, ~Free(l), l # current
    PROVE  \E q \in Readers : at[q] = l
<1>1. CASE lease[l].conn
  BY <1>1 DEF IInv, SessionsAreOwned
<1>2. CASE lease[l].refs # 0
  <2>1. Sharers(l) # {}
    BY <1>2, FS_EmptySet DEF IInv, RefsCount
  <2> QED
    BY <2>1 DEF Sharers
<1> QED
  BY <1>1, <1>2 DEF Free

LEMMA FreeExists ==
    ASSUME IInv, NEW r \in Readers, pc[r] = "entered"
    PROVE  \E l \in Leases : Free(l)
<1> SUFFICES ASSUME \A l \in Leases : ~Free(l)
             PROVE  FALSE
  OBVIOUS
<1> DEFINE f == [l \in Leases |-> IF l = current THEN r ELSE CHOOSE q \in Readers : at[q] = l]
<1>1. \A l \in Leases : at[r] # l
  BY Place DEF Outside
<1>2. \A l \in Leases : l # current => f[l] \in Readers /\ at[f[l]] = l /\ f[l] # r
  BY <1>1, LeaseInUse
<1>3. f \in [Leases -> Readers]
  BY <1>2
<1>4. Cardinality(Readers) < Cardinality(Leases)
  BY LeaseAssumption, FS_CardinalityType
<1>5. \E x, y \in Leases : x # y /\ f[x] = f[y]
  <2> HIDE DEF f
  <2> QED
    BY <1>3, <1>4, FS_PigeonHole, LeaseAssumption
<1>6. current \in Leases => f[current] = r
  OBVIOUS
<1> HIDE DEF f
<1> QED
  BY <1>2, <1>5, <1>6

----------------------------------------------------------------------------
(* The threads' steps. *)

LEMMA EnterKeeps ==
    ASSUME IInv, NEW r \in Readers, Enter(r)
    PROVE  IInv'
<1> USE DEF Enter, Go, world
<1>1. pc'[r] = "entered" /\ \A q \in Readers \ {r} : pc'[q] = pc[q] /\ at'[q] = at[q]
  BY DEF IInv, TypeOK
<1>2. RefsCount'
  <2>1. \A l \in Leases : lease'[l].refs = lease[l].refs - Counted(r, l) + Counted(r, l)'
    <3>1. \A l \in Leases : lease[l].refs \in Nat /\ at[r] # l
      BY Place DEF IInv, TypeOK, Outside
    <3> QED
      BY <1>1, <3>1 DEF Counted
  <2> QED
    BY <1>1, <2>1, RefsStep DEF IInv
<1>3. ActiveCount'
  <2>1. active' = active - Occupied(r) + Occupied(r)' /\ permits' + active' = permits + active
    BY <1>1 DEF IInv, TypeOK, Occupied
  <2> QED
    BY <1>1, <2>1, ActiveStep DEF IInv, TypeOK
<1>4. TypeOK'
  <2>1. active' \in 0..Cardinality(Readers) /\ permits' \in 0..MaxReads
    BY <1>3, CountsTyped, LeaseAssumption DEF IInv, TypeOK
  <2> QED
    BY <2>1 DEF IInv, TypeOK
<1>5. Placed' /\ StateByPlace' /\ SessionByPlace'
  BY <1>1 DEF IInv, TypeOK, Placed, StateByPlace, SessionByPlace, Outside, Creating
<1>6. OneOwner'
  BY <1>1 DEF IInv, TypeOK, OneOwner, Creating
<1>7. OwnerByState' /\ SessionsAreOwned' /\ QuietAfterDisposal'
  BY <1>1 DEF IInv, TypeOK, OwnerByState, SessionsAreOwned, QuietAfterDisposal, Creating
<1> QED
  BY <1>2, <1>3, <1>4, <1>5, <1>6, <1>7 DEF IInv

LEMMA JoinKeeps ==
    ASSUME IInv, NEW r \in Readers, Join(r)
    PROVE  IInv'
<1> USE DEF Join, Joinable, Go, Change, world, counts
<1>1. /\ pc[r] = "entered" /\ pc'[r] = "joined" /\ at'[r] = current /\ current \in Leases
      /\ \A q \in Readers \ {r} : pc'[q] = pc[q] /\ at'[q] = at[q]
      /\ \A l \in Leases : at[r] # l
  BY Place DEF IInv, TypeOK, Outside
<1>2. /\ \A l \in Leases \ {current} : lease'[l] = lease[l]
      /\ lease'[current] = [lease[current] EXCEPT !.refs = @ + 1]
      /\ lease[current].state \in {"INITIALIZING", "ACTIVE"}
  BY <1>1 DEF IInv, TypeOK
<1>3. RefsCount'
  <2>1. \A l \in Leases : lease'[l].refs = lease[l].refs - Counted(r, l) + Counted(r, l)'
    BY <1>1, <1>2 DEF IInv, TypeOK, Counted
  <2> QED
    BY <1>1, <2>1, RefsStep DEF IInv
<1>4. ActiveCount'
  <2>1. active' = active - Occupied(r) + Occupied(r)' /\ permits' + active' = permits + active
    BY <1>1 DEF IInv, TypeOK, Occupied
  <2> QED
    BY <1>1, <2>1, ActiveStep DEF IInv, TypeOK
<1>5. TypeOK'
  BY <1>1, <1>2, <1>3, CountsTyped DEF IInv, TypeOK
<1>6. Placed' /\ StateByPlace' /\ SessionByPlace'
  BY <1>1, <1>2, LeaseAssumption, Place
     DEF IInv, TypeOK, Placed, StateByPlace, SessionByPlace, Outside, Creating
<1>7. OneOwner'
  BY <1>1 DEF IInv, TypeOK, OneOwner, Creating
<1>8. OwnerByState' /\ SessionsAreOwned' /\ QuietAfterDisposal'
  BY <1>1, <1>2 DEF IInv, TypeOK, OwnerByState, SessionsAreOwned, QuietAfterDisposal, Creating
<1> QED
  BY <1>3, <1>4, <1>5, <1>6, <1>7, <1>8 DEF IInv

LEMMA CreateKeeps ==
    ASSUME IInv, NEW r \in Readers, Create(r)
    PROVE  IInv'
<1> DEFINE new == CHOOSE l \in Leases : Free(l)
<1>1. new \in Leases /\ Free(new)
  BY FreeExists DEF Create
<1>2. /\ lease' = [lease EXCEPT ![new] = [Blank EXCEPT !.state = "INITIALIZING", !.refs = 1]]
      /\ at' = [at EXCEPT ![r] = new] /\ pc' = [pc EXCEPT ![r] = "checkout"]
      /\ current' = new /\ age' = 0 /\ pc[r] = "entered"
      /\ UNCHANGED <<counts, world, faults>>
  BY DEF Create, Change, Go
<1> HIDE DEF new
<1>3. /\ pc'[r] = "checkout" /\ at'[r] = new
      /\ \A q \in Readers \ {r} : pc'[q] = pc[q] /\ at'[q] = at[q]
      /\ \A q \in Readers : at[q] # new
      /\ \A l \in Leases : at[r] # l
  BY <1>1, <1>2, Place, FreeIsEmpty DEF IInv, TypeOK, Outside
<1>4. /\ \A l \in Leases \ {new} : lease'[l] = lease[l]
      /\ lease'[new] = [state |-> "INITIALIZING", refs |-> 1, conn |-> FALSE,
                        adm |-> FALSE, gate |-> FALSE, dead |-> FALSE]
  BY <1>1, <1>2 DEF IInv, TypeOK, Blank
<1>5. RefsCount'
  <2>1. \A l \in Leases : lease'[l].refs = lease[l].refs - Counted(r, l) + Counted(r, l)'
    BY <1>1, <1>3, <1>4 DEF IInv, TypeOK, Counted, Free
  <2> QED
    BY <1>3, <2>1, RefsStep DEF IInv
<1>6. ActiveCount'
  <2>1. active' = active - Occupied(r) + Occupied(r)' /\ permits' + active' = permits + active
    BY <1>2, <1>3 DEF IInv, TypeOK, Occupied, counts
  <2> QED
    BY <1>3, <2>1, ActiveStep DEF IInv, TypeOK
<1>7. TypeOK'
  <2>1. 1 \in 0..Cardinality(Readers)
    BY <1>1, <1>4, <1>5, CountsTyped
  <2>2. lease' \in [Leases -> Objects]
    BY <1>1, <1>2, <2>1 DEF IInv, TypeOK, Blank, Objects
  <2> QED
    BY <1>1, <1>2, <2>2, LeaseAssumption DEF IInv, TypeOK, counts, world, Objects
<1>8. Placed' /\ StateByPlace' /\ SessionByPlace'
  BY <1>1, <1>3, <1>4, LeaseAssumption, Place
     DEF IInv, TypeOK, Placed, StateByPlace, SessionByPlace, Outside, Creating
<1>9. OneOwner'
  BY <1>1, <1>3 DEF IInv, TypeOK, OneOwner, Creating
<1>10. OwnerByState' /\ SessionsAreOwned' /\ QuietAfterDisposal'
  BY <1>1, <1>2, <1>3, <1>4
     DEF IInv, TypeOK, OwnerByState, SessionsAreOwned, QuietAfterDisposal, Creating, world
<1> QED
  BY <1>5, <1>6, <1>7, <1>8, <1>9, <1>10 DEF IInv

\* A step of the one thread that owns a lease on the way to its session, or of
\* the last one out: the lease changes, the thread stays in it.
LEMMA OwnerKeepsCounts ==
    ASSUME IInv, NEW r \in Readers, at' = at, active' = active, permits' = permits,
           pc[r] \notin Outside, pc'[r] \notin Outside,
           \A q \in Readers \ {r} : pc'[q] = pc[q],
           \A l \in Leases \ {at[r]} : lease'[l] = lease[l],
           lease'[at[r]].refs = lease[at[r]].refs - (IF pc[r] = "closing" THEN 0 ELSE 1)
                                                  + (IF pc'[r] = "closing" THEN 0 ELSE 1)
    PROVE  RefsCount' /\ ActiveCount' /\ Placed'
<1>1. RefsCount'
  <2>1. \A l \in Leases : lease'[l].refs = lease[l].refs - Counted(r, l) + Counted(r, l)'
    BY Place DEF IInv, TypeOK, Counted
  <2> QED
    BY <2>1, RefsStep DEF IInv
<1>2. ActiveCount'
  <2>1. Occupied(r) = 1 /\ Occupied(r)' = 1
    BY DEF Occupied, Outside
  <2>2. active' = active - Occupied(r) + Occupied(r)' /\ permits' + active' = permits + active
    BY <2>1 DEF IInv, TypeOK
  <2> QED
    BY <2>2, ActiveStep DEF IInv, TypeOK
<1>3. Placed'
  BY Place DEF IInv, Placed
<1> QED
  BY <1>1, <1>2, <1>3

\* What such a step does, and that it keeps the types.
LEMMA TakeEffect ==
    ASSUME IInv, NEW r \in Readers, NEW here, here \notin Outside \cup {"closing"},
           NEW there \in Creating \cup {"failed", "reading", "closing"}, NEW new \in Objects,
           Take(r, here, there, new)
    PROVE  /\ at[r] \in Leases /\ lease'[at[r]] = new
           /\ pc[r] = here /\ pc'[r] = there
           /\ \A q \in Readers \ {r} : pc'[q] = pc[q]
           /\ \A l \in Leases \ {at[r]} : lease'[l] = lease[l]
           /\ UNCHANGED <<at, active, permits, server>>
           /\ TypeOK'
<1> USE DEF Take, Change, Go, counts, world
<1>1. at[r] \in Leases
  BY Place
<1>2. lease' \in [Leases -> Objects]
  BY DEF IInv, TypeOK, Objects
<1>3. pc' \in [Readers -> {"idle", "entered", "joined", "checkout", "admission", "gate",
                           "revalidate", "failed", "reading", "closing"}]
  BY DEF IInv, TypeOK, Creating
<1>4. TypeOK'
  BY <1>2, <1>3 DEF IInv, TypeOK, Objects
<1> QED
  BY <1>1, <1>4 DEF IInv, TypeOK

\* On the way to the gate: connection, turnstile, gate.
LEMMA SessionKeeps ==
    ASSUME IInv, NEW r \in Readers, NEW here \in Creating, NEW there \in Creating \ {"checkout"},
           NEW new \in Objects, Take(r, here, there, new),
           new.state = lease[at[r]].state, new.refs = lease[at[r]].refs, new.conn,
           there = "revalidate" => new.gate \/ new.dead
    PROVE  IInv'
<1>1. /\ at[r] \in Leases /\ lease'[at[r]] = new
      /\ pc[r] = here /\ pc'[r] = there
      /\ \A q \in Readers \ {r} : pc'[q] = pc[q]
      /\ \A l \in Leases \ {at[r]} : lease'[l] = lease[l]
      /\ UNCHANGED <<at, active, permits, server>>
      /\ TypeOK'
  BY TakeEffect DEF Creating, Outside
<1>2. RefsCount' /\ ActiveCount' /\ Placed'
  <2>1. lease[at[r]].refs \in Nat
    BY <1>1 DEF IInv, TypeOK
  <2> QED
    BY <1>1, <2>1, OwnerKeepsCounts DEF Creating, Outside
<1>3. StateByPlace' /\ SessionByPlace'
  BY <1>1, Place DEF IInv, StateByPlace, SessionByPlace, OneOwner, Creating, Outside
<1>4. OneOwner'
  BY <1>1 DEF IInv, OneOwner, Creating
<1>5. OwnerByState' /\ SessionsAreOwned' /\ QuietAfterDisposal'
  BY <1>1 DEF IInv, StateByPlace, OwnerByState, SessionsAreOwned, QuietAfterDisposal, Creating
<1> QED
  BY <1>1, <1>2, <1>3, <1>4, <1>5 DEF IInv

LEMMA AcquireKeeps ==
    ASSUME IInv, NEW r \in Readers, Checkout(r) \/ TakeAdmission(r) \/ TakeGate(r)
    PROVE  IInv'
<1> DEFINE x == lease[at[r]]
<1>1. pc[r] \in Creating => x \in Objects
  BY Place DEF IInv, TypeOK, Objects, Creating, Outside
<1>2. CASE Checkout(r)
  <2>1. Take(r, "checkout", "admission", [x EXCEPT !.conn = TRUE])
    BY <1>2 DEF Checkout
  <2>2. [x EXCEPT !.conn = TRUE] \in Objects
    BY <1>1, <2>1 DEF Take, Objects, Creating
  <2> QED
    BY <1>1, <2>1, <2>2, SessionKeeps DEF Take, Creating, Objects
<1>3. CASE TakeAdmission(r)
  <2>1. Take(r, "admission", "gate", [x EXCEPT !.adm = TRUE])
    BY <1>3 DEF TakeAdmission
  <2>2. [x EXCEPT !.adm = TRUE] \in Objects
    BY <1>1, <2>1 DEF Take, Objects, Creating
  <2>3. x.conn
    BY <2>1 DEF IInv, SessionByPlace, Take
  <2> QED
    BY <1>1, <2>1, <2>2, <2>3, SessionKeeps DEF Take, Creating, Objects
<1>4. CASE TakeGate(r)
  <2>1. Take(r, "gate", "revalidate", [x EXCEPT !.adm = FALSE, !.gate = TRUE])
    BY <1>4 DEF TakeGate
  <2>2. [x EXCEPT !.adm = FALSE, !.gate = TRUE] \in Objects
    BY <1>1, <2>1 DEF Take, Objects, Creating
  <2>3. x.conn
    BY <2>1 DEF IInv, SessionByPlace, Take
  <2> QED
    BY <1>1, <2>1, <2>2, <2>3, SessionKeeps DEF Take, Creating, Objects
<1> QED
  BY <1>2, <1>3, <1>4

LEMMA RevalidateKeeps ==
    ASSUME IInv, NEW r \in Readers, Revalidate(r)
    PROVE  IInv'
<1> DEFINE x == lease[at[r]]
           new == [x EXCEPT !.state = "ACTIVE"]
<1>1. Take(r, "revalidate", "reading", new)
  BY DEF Revalidate
<1>2. x \in Objects /\ x.conn /\ (x.gate \/ x.dead) /\ x.state = "INITIALIZING"
  BY <1>1, Place DEF IInv, TypeOK, SessionByPlace, StateByPlace, Objects, Take, Creating, Outside
<1>3. /\ new \in Objects /\ new.state = "ACTIVE" /\ new.refs = x.refs /\ new.conn
      /\ (new.gate \/ new.dead)
  BY <1>2 DEF Objects
<1> HIDE DEF new
<1>4. /\ at[r] \in Leases /\ lease'[at[r]] = new
      /\ pc[r] = "revalidate" /\ pc'[r] = "reading"
      /\ \A q \in Readers \ {r} : pc'[q] = pc[q]
      /\ \A l \in Leases \ {at[r]} : lease'[l] = lease[l]
      /\ UNCHANGED <<at, active, permits, server>>
      /\ TypeOK'
  BY <1>1, <1>3, TakeEffect DEF Outside
<1>5. RefsCount' /\ ActiveCount' /\ Placed'
  <2>1. lease[at[r]].refs \in Nat
    BY <1>4 DEF IInv, TypeOK
  <2> QED
    BY <1>3, <1>4, <2>1, OwnerKeepsCounts DEF Outside
<1>6. StateByPlace' /\ SessionByPlace'
  BY <1>2, <1>3, <1>4, Place DEF IInv, StateByPlace, SessionByPlace, OneOwner, Creating, Outside
<1>7. OneOwner'
  BY <1>4 DEF IInv, OneOwner, Creating
<1>8. OwnerByState' /\ SessionsAreOwned' /\ QuietAfterDisposal'
  BY <1>2, <1>3, <1>4 DEF IInv, StateByPlace, OwnerByState, SessionsAreOwned, QuietAfterDisposal, Creating
<1> QED
  BY <1>4, <1>5, <1>6, <1>7, <1>8 DEF IInv

LEMMA FailKeeps ==
    ASSUME IInv, NEW r \in Readers, Fail(r)
    PROVE  IInv'
<1> DEFINE x == lease[at[r]]
           new == [x EXCEPT !.state = "FAILED"]
<1>1. Take(r, pc[r], "failed", new) /\ pc[r] \in Creating
  BY DEF Fail, MustFail, Creating
<1>2. x \in Objects /\ x.state = "INITIALIZING"
  BY <1>1, Place DEF IInv, TypeOK, StateByPlace, Objects, Creating, Outside
<1>3. new \in Objects /\ new.state = "FAILED" /\ new.refs = x.refs /\ new.conn = x.conn
  BY <1>2 DEF Objects
<1> HIDE DEF new
<1>4. /\ at[r] \in Leases /\ lease'[at[r]] = new
      /\ pc'[r] = "failed"
      /\ \A q \in Readers \ {r} : pc'[q] = pc[q]
      /\ \A l \in Leases \ {at[r]} : lease'[l] = lease[l]
      /\ UNCHANGED <<at, active, permits, server>>
      /\ TypeOK'
  BY <1>1, <1>3, TakeEffect DEF Outside, Creating
<1>5. RefsCount' /\ ActiveCount' /\ Placed'
  <2>1. lease[at[r]].refs \in Nat
    BY <1>4 DEF IInv, TypeOK
  <2> QED
    BY <1>1, <1>3, <1>4, <2>1, OwnerKeepsCounts DEF Outside, Creating
<1>6. StateByPlace' /\ SessionByPlace'
  BY <1>1, <1>2, <1>3, <1>4, Place DEF IInv, StateByPlace, SessionByPlace, OneOwner, Creating, Outside
<1>7. OneOwner'
  BY <1>1, <1>4 DEF IInv, OneOwner, Creating
<1>8. OwnerByState' /\ SessionsAreOwned' /\ QuietAfterDisposal'
  BY <1>1, <1>2, <1>3, <1>4
     DEF IInv, OneOwner, OwnerByState, SessionsAreOwned, QuietAfterDisposal, Creating
<1> QED
  BY <1>4, <1>5, <1>6, <1>7, <1>8 DEF IInv

LEMMA ExitLastKeeps ==
    ASSUME IInv, NEW r \in Readers, ExitLast(r)
    PROVE  IInv'
<1> DEFINE x == lease[at[r]]
           new == [x EXCEPT !.refs = 0, !.state = "CLOSED"]
<1>1. Take(r, "reading", "closing", new) /\ pc[r] = "reading" /\ x.refs = 1
  BY DEF ExitLast
<1>2. x \in Objects /\ x.state = "ACTIVE" /\ x.conn
  BY <1>1, Place DEF IInv, TypeOK, StateByPlace, OwnerByState, Objects, Outside
<1>3. 0 \in 0..Cardinality(Readers)
  BY FS_CardinalityType, LeaseAssumption
<1>4. new \in Objects /\ new.state = "CLOSED" /\ new.refs = 0 /\ new.conn
  BY <1>2, <1>3 DEF Objects
<1> HIDE DEF new
<1>5. /\ at[r] \in Leases /\ lease'[at[r]] = new
      /\ pc'[r] = "closing"
      /\ \A q \in Readers \ {r} : pc'[q] = pc[q]
      /\ \A l \in Leases \ {at[r]} : lease'[l] = lease[l]
      /\ UNCHANGED <<at, active, permits, server>>
      /\ TypeOK'
  BY <1>1, <1>4, TakeEffect DEF Outside
<1>6. \A q \in Readers \ {r} : at[q] # at[r]
  <2>1. \A q \in Readers \ {r} : at[q] = at[r] => pc[q] = "closing"
    BY <1>1, Company DEF Outside
  <2> QED
    BY <1>2, <2>1 DEF IInv, StateByPlace
<1>7. RefsCount' /\ ActiveCount' /\ Placed'
  BY <1>1, <1>4, <1>5, OwnerKeepsCounts DEF Outside
<1>8. StateByPlace' /\ SessionByPlace'
  BY <1>4, <1>5, <1>6, Place DEF IInv, StateByPlace, SessionByPlace, Creating, Outside
<1>9. OneOwner'
  BY <1>5, <1>6 DEF IInv, OneOwner, Creating
<1>10. OwnerByState' /\ SessionsAreOwned' /\ QuietAfterDisposal'
  BY <1>1, <1>4, <1>5, <1>6 DEF IInv, OwnerByState, SessionsAreOwned, QuietAfterDisposal, Creating
<1> QED
  BY <1>5, <1>7, <1>8, <1>9, <1>10 DEF IInv

\* A thread that leaves gives its count and its permit back.
LEMMA LeaveEffect ==
    ASSUME IInv, NEW r \in Readers, pc[r] \notin Outside, Leave(r),
           NEW new \in Objects, lease' = [lease EXCEPT ![at[r]] = new],
           new.refs = lease[at[r]].refs - (IF pc[r] = "closing" THEN 0 ELSE 1),
           \/ Unmap(r)
           \/ UNCHANGED <<current, age>>,
           UNCHANGED <<world, faults>>
    PROVE  /\ at[r] \in Leases /\ lease'[at[r]] = new
           /\ pc'[r] = "idle" /\ at'[r] = NoLease
           /\ \A q \in Readers \ {r} : pc'[q] = pc[q] /\ at'[q] = at[q]
           /\ \A l \in Leases \ {at[r]} : lease'[l] = lease[l]
           /\ TypeOK' /\ RefsCount' /\ ActiveCount' /\ Placed' /\ QuietAfterDisposal'
<1>1. /\ at[r] \in Leases /\ lease'[at[r]] = new
      /\ pc'[r] = "idle" /\ at'[r] = NoLease
      /\ \A q \in Readers \ {r} : pc'[q] = pc[q] /\ at'[q] = at[q]
      /\ \A l \in Leases \ {at[r]} : lease'[l] = lease[l]
      /\ active' = active - 1 /\ permits' = permits + 1
  BY Place DEF IInv, TypeOK, Leave, Go
<1>2. RefsCount'
  <2>1. \A l \in Leases : lease'[l].refs = lease[l].refs - Counted(r, l) + Counted(r, l)'
    BY <1>1, LeaseAssumption DEF IInv, TypeOK, Counted
  <2> QED
    BY <1>1, <2>1, RefsStep DEF IInv
<1>3. ActiveCount'
  <2>1. Occupied(r) = 1 /\ Occupied(r)' = 0
    BY <1>1 DEF Occupied, Outside
  <2>2. active \in Int /\ permits \in Int
    BY DEF IInv, TypeOK
  <2>3. active' = active - Occupied(r) + Occupied(r)' /\ permits' + active' = permits + active
    BY <1>1, <2>1, <2>2
  <2> QED
    BY <1>1, <2>2, <2>3, ActiveStep DEF IInv
<1>4. TypeOK'
  <2>1. lease' \in [Leases -> Objects] /\ at' \in [Readers -> Leases \cup {NoLease}]
    BY DEF IInv, TypeOK, Objects, Leave
  <2>2. pc' \in [Readers -> {"idle", "entered", "joined", "checkout", "admission", "gate",
                             "revalidate", "failed", "reading", "closing"}]
    BY DEF IInv, TypeOK, Leave, Go
  <2>3. current' \in Leases \cup {NoLease} /\ age' \in 0..Life
    BY LeaseAssumption DEF IInv, TypeOK, Unmap
  <2>4. active' \in 0..Cardinality(Readers) /\ permits' \in 0..MaxReads
    BY <1>1, <1>3, CountsTyped, LeaseAssumption DEF IInv, TypeOK, ActiveCount
  <2> QED
    BY <2>1, <2>2, <2>3, <2>4 DEF IInv, TypeOK, Objects, world
<1>5. Placed' /\ QuietAfterDisposal'
  BY <1>1, Place DEF IInv, Placed, QuietAfterDisposal, Outside, world
<1> QED
  BY <1>1, <1>2, <1>3, <1>4, <1>5

LEMMA CleanUpKeeps ==
    ASSUME IInv, NEW r \in Readers, CleanUp(r)
    PROVE  IInv'
<1> DEFINE x == lease[at[r]]
           new == Left(Released(at[r]))
<1>1. pc[r] = "failed" /\ Unmap(r) /\ lease' = [lease EXCEPT ![at[r]] = new] /\ Leave(r)
      /\ UNCHANGED <<world, faults>>
  BY DEF CleanUp, Change
<1>2. x \in Objects /\ x.state = "FAILED" /\ x.refs \in 1..Cardinality(Readers)
  BY <1>1, Place, Company DEF IInv, TypeOK, StateByPlace, Objects, Outside
<1>3. 0 \in 0..Cardinality(Readers) /\ x.refs - 1 \in 0..Cardinality(Readers)
  BY <1>2, FS_CardinalityType, LeaseAssumption
<1>4. /\ new \in Objects /\ new.refs = x.refs - 1 /\ ~new.conn
      /\ x.refs # 1 => new.state = "FAILED"
      /\ x.refs = 1 => new.state = "none"
  <2>1. CASE x.refs = 1
    <3>1. new = Blank
      BY <2>1 DEF Left, Released
    <3> QED
      BY <1>3, <2>1, <3>1 DEF Objects, Blank
  <2>2. CASE x.refs # 1
    <3>1. new = [x EXCEPT !.conn = FALSE, !.adm = FALSE, !.gate = FALSE, !.dead = FALSE, !.refs = @ - 1]
      BY <1>2, <2>2 DEF Left, Released, Objects
    <3> QED
      BY <1>2, <1>3, <2>2, <3>1 DEF Objects
  <2> QED
    BY <2>1, <2>2
<1> HIDE DEF new
<1>5. /\ at[r] \in Leases /\ lease'[at[r]] = new
      /\ pc'[r] = "idle" /\ at'[r] = NoLease
      /\ \A q \in Readers \ {r} : pc'[q] = pc[q] /\ at'[q] = at[q]
      /\ \A l \in Leases \ {at[r]} : lease'[l] = lease[l]
      /\ TypeOK' /\ RefsCount' /\ ActiveCount' /\ Placed' /\ QuietAfterDisposal'
  BY <1>1, <1>4, LeaveEffect DEF Outside
<1>6. /\ \A q \in Readers \ {r} : at[q] = at[r] => pc[q] = "joined"
      /\ x.refs = 1 => \A q \in Readers \ {r} : at[q] # at[r]
  <2>1. \A q \in Readers \ {r} : at[q] = at[r] => pc[q] = "joined"
    <3> SUFFICES ASSUME NEW q \in Readers \ {r}, at[q] = at[r] PROVE pc[q] = "joined"
      OBVIOUS
    <3>1. pc[q] \notin Outside
      BY <1>5, Place
    <3> QED
      BY <1>1, <1>2, <3>1 DEF IInv, TypeOK, StateByPlace, OneOwner, Creating, Outside
  <2> QED
    BY <1>1, <2>1, Company DEF Outside
<1>7. StateByPlace' /\ SessionByPlace'
  BY <1>4, <1>5, <1>6, Place DEF IInv, StateByPlace, SessionByPlace, Creating, Outside
<1>8. OneOwner'
  BY <1>5 DEF IInv, OneOwner, Creating
<1>9. OwnerByState' /\ SessionsAreOwned'
  BY <1>1, <1>4, <1>5 DEF IInv, OwnerByState, SessionsAreOwned, Creating
<1> QED
  BY <1>5, <1>7, <1>8, <1>9 DEF IInv

LEMMA GiveUpKeeps ==
    ASSUME IInv, NEW r \in Readers, GiveUp(r)
    PROVE  IInv'
<1> DEFINE x == lease[at[r]]
           new == Left(x)
<1>1. /\ pc[r] = "joined" /\ x.state \in {"INITIALIZING", "FAILED"} /\ UNCHANGED <<current, age>>
      /\ lease' = [lease EXCEPT ![at[r]] = new] /\ Leave(r) /\ UNCHANGED <<world, faults>>
  BY DEF GiveUp, Change
<1>2. x \in Objects /\ x.refs \in 1..Cardinality(Readers)
  BY <1>1, Place, Company DEF IInv, TypeOK, Objects, Outside
<1>3. 0 \in 0..Cardinality(Readers) /\ x.refs - 1 \in 0..Cardinality(Readers)
  BY <1>2, FS_CardinalityType, LeaseAssumption
<1>4. /\ new \in Objects /\ new.refs = x.refs - 1
      /\ x.refs = 1 /\ ~x.conn => ~new.conn /\ new.state = "none"
      /\ ~(x.refs = 1 /\ ~x.conn) => /\ new.state = x.state /\ new.conn = x.conn
                                     /\ new.gate = x.gate /\ new.dead = x.dead
  <2>1. CASE x.refs = 1 /\ ~x.conn
    <3>1. new = Blank
      BY <2>1 DEF Left
    <3>2. Blank \in Objects /\ Blank.refs = 0 /\ ~Blank.conn /\ Blank.state = "none"
      BY <1>3 DEF Objects, Blank
    <3> QED
      BY <2>1, <3>1, <3>2
  <2>2. CASE ~(x.refs = 1 /\ ~x.conn)
    <3>1. new = [x EXCEPT !.refs = @ - 1]
      BY <2>2 DEF Left
    <3> QED
      BY <1>2, <1>3, <2>2, <3>1 DEF Objects
  <2> QED
    BY <2>1, <2>2
<1> HIDE DEF new
<1>5. /\ at[r] \in Leases /\ lease'[at[r]] = new
      /\ pc'[r] = "idle" /\ at'[r] = NoLease
      /\ \A q \in Readers \ {r} : pc'[q] = pc[q] /\ at'[q] = at[q]
      /\ \A l \in Leases \ {at[r]} : lease'[l] = lease[l]
      /\ TypeOK' /\ RefsCount' /\ ActiveCount' /\ Placed' /\ QuietAfterDisposal'
  BY <1>1, <1>4, LeaveEffect DEF Outside
<1>6. x.refs = 1 => \A q \in Readers \ {r} : at[q] # at[r]
  <2>1. \A q \in Readers : at[q] = at[r] => pc[q] # "closing"
    BY <1>1 DEF IInv, StateByPlace
  <2> QED
    BY <1>1, <2>1, Company DEF Outside
<1>7. StateByPlace' /\ SessionByPlace'
  BY <1>4, <1>5, <1>6, Place DEF IInv, StateByPlace, SessionByPlace, Creating, Outside
<1>8. OneOwner'
  BY <1>5 DEF IInv, OneOwner, Creating
<1>9. OwnerByState'
  BY <1>1, <1>4, <1>5 DEF IInv, OwnerByState, Creating
<1>10. SessionsAreOwned'
  <2>1. x.conn => \E q \in Readers \ {r} : at[q] = at[r]
    BY <1>1, <1>5 DEF IInv, OwnerByState, Creating
  <2> QED
    BY <1>4, <1>5, <2>1 DEF IInv, SessionsAreOwned
<1> QED
  BY <1>5, <1>7, <1>8, <1>9, <1>10 DEF IInv

LEMMA ExitSharedKeeps ==
    ASSUME IInv, NEW r \in Readers, ExitShared(r)
    PROVE  IInv'
<1> DEFINE x == lease[at[r]]
           new == [x EXCEPT !.refs = @ - 1]
<1>1. /\ pc[r] = "reading" /\ x.refs > 1 /\ UNCHANGED <<current, age>>
      /\ lease' = [lease EXCEPT ![at[r]] = new] /\ Leave(r) /\ UNCHANGED <<world, faults>>
  BY DEF ExitShared, Change
<1>2. x \in Objects /\ x.refs \in 1..Cardinality(Readers)
  BY <1>1, Place, Company DEF IInv, TypeOK, Objects, Outside
<1>3. x.refs - 1 \in 0..Cardinality(Readers)
  BY <1>2, FS_CardinalityType, LeaseAssumption
<1>4. /\ new \in Objects /\ new.refs = x.refs - 1 /\ new.state = x.state /\ new.conn = x.conn
      /\ new.gate = x.gate /\ new.dead = x.dead
  BY <1>2, <1>3 DEF Objects
<1> HIDE DEF new
<1>5. /\ at[r] \in Leases /\ lease'[at[r]] = new
      /\ pc'[r] = "idle" /\ at'[r] = NoLease
      /\ \A q \in Readers \ {r} : pc'[q] = pc[q] /\ at'[q] = at[q]
      /\ \A l \in Leases \ {at[r]} : lease'[l] = lease[l]
      /\ TypeOK' /\ RefsCount' /\ ActiveCount' /\ Placed' /\ QuietAfterDisposal'
  BY <1>1, <1>4, LeaveEffect DEF Outside
<1>6. \E q \in Readers \ {r} : at[q] = at[r]
  BY <1>1, Company DEF Outside
<1>7. StateByPlace' /\ SessionByPlace'
  BY <1>4, <1>5, Place DEF IInv, StateByPlace, SessionByPlace, Creating, Outside
<1>8. OneOwner'
  BY <1>5 DEF IInv, OneOwner, Creating
<1>9. OwnerByState'
  BY <1>1, <1>4, <1>5 DEF IInv, OwnerByState, Creating
<1>10. SessionsAreOwned'
  BY <1>4, <1>5, <1>6 DEF IInv, SessionsAreOwned
<1> QED
  BY <1>5, <1>7, <1>8, <1>9, <1>10 DEF IInv

LEMMA CloseKeeps ==
    ASSUME IInv, NEW r \in Readers, Close(r)
    PROVE  IInv'
<1>1. /\ pc[r] = "closing" /\ Unmap(r) /\ lease' = [lease EXCEPT ![at[r]] = Blank] /\ Leave(r)
      /\ UNCHANGED <<world, faults>>
  BY DEF Close, Change
<1>2. at[r] \in Leases /\ lease[at[r]].state = "CLOSED"
  BY <1>1, Place DEF IInv, StateByPlace, Outside
<1>3. \A q \in Readers \ {r} : at[q] # at[r]
  <2> SUFFICES ASSUME NEW q \in Readers \ {r}, at[q] = at[r] PROVE FALSE
    OBVIOUS
  <2>1. pc[q] \notin Outside
    BY <1>2, Place
  <2> QED
    BY <1>1, <1>2, <2>1 DEF IInv, TypeOK, StateByPlace, OneOwner, Creating, Outside
<1>4. lease[at[r]].refs = 0
  <2>1. Sharers(at[r]) = {}
    BY <1>1, <1>3 DEF Sharers
  <2> QED
    BY <1>2, <2>1, FS_EmptySet DEF IInv, RefsCount
<1>5. Blank \in Objects /\ Blank.refs = 0 /\ ~Blank.conn /\ Blank.state = "none"
  BY FS_CardinalityType, LeaseAssumption DEF Objects, Blank
<1>6. /\ at[r] \in Leases /\ lease'[at[r]] = Blank
      /\ pc'[r] = "idle" /\ at'[r] = NoLease
      /\ \A q \in Readers \ {r} : pc'[q] = pc[q] /\ at'[q] = at[q]
      /\ \A l \in Leases \ {at[r]} : lease'[l] = lease[l]
      /\ TypeOK' /\ RefsCount' /\ ActiveCount' /\ Placed' /\ QuietAfterDisposal'
  <2>1. Blank.refs = lease[at[r]].refs - (IF pc[r] = "closing" THEN 0 ELSE 1)
    BY <1>1, <1>4, <1>5
  <2> QED
    BY <1>1, <1>5, <2>1, LeaveEffect DEF Outside
<1>7. StateByPlace' /\ SessionByPlace'
  BY <1>3, <1>6, Place DEF IInv, StateByPlace, SessionByPlace, Creating, Outside
<1>8. OneOwner'
  BY <1>6 DEF IInv, OneOwner, Creating
<1>9. OwnerByState' /\ SessionsAreOwned'
  BY <1>1, <1>3, <1>5, <1>6 DEF IInv, OwnerByState, SessionsAreOwned, Creating
<1> QED
  BY <1>6, <1>7, <1>8, <1>9 DEF IInv

\* A joiner whose lease became active reads under it.
LEMMA ProceedKeeps ==
    ASSUME IInv, NEW r \in Readers, Proceed(r)
    PROVE  IInv'
<1> USE DEF Proceed, Go, counts, world
<1>1. /\ pc[r] = "joined" /\ pc'[r] = "reading" /\ \A q \in Readers \ {r} : pc'[q] = pc[q]
      /\ lease[at[r]].state = "ACTIVE" /\ UNCHANGED <<lease, at, active, permits, server>>
  BY DEF IInv, TypeOK, StateByPlace
<1>2. RefsCount' /\ ActiveCount' /\ Placed'
  <2>1. lease[at[r]].refs \in Nat
    BY <1>1, Place DEF IInv, TypeOK, Outside
  <2> QED
    BY <1>1, <2>1, OwnerKeepsCounts DEF Outside
<1>3. TypeOK'
  BY DEF IInv, TypeOK
<1>4. StateByPlace' /\ SessionByPlace' /\ OneOwner'
  BY <1>1 DEF IInv, StateByPlace, SessionByPlace, OneOwner, Creating
<1>5. OwnerByState' /\ SessionsAreOwned' /\ QuietAfterDisposal'
  BY <1>1 DEF IInv, OwnerByState, SessionsAreOwned, QuietAfterDisposal, Creating
<1> QED
  BY <1>2, <1>3, <1>4, <1>5 DEF IInv

----------------------------------------------------------------------------
(* The other side's steps. *)

\* The exclusive owner, the catalog and time leave the leases and the threads alone.
LEMMA WorldKeeps ==
    ASSUME IInv, WriterAsks \/ WriterStep \/ CatalogMoves \/ Tick \/ BeginShutdown
    PROVE  IInv'
<1>1. UNCHANGED <<lease, rest>> /\ (server' = "disposed" => server = "disposed")
  BY DEF WriterAsks, WriterStep, WriterTurnstile, WriterGate, WriterDone, CatalogMoves, Tick,
         BeginShutdown, env, rest, world
<1>2. TypeOK'
  <2>1. current' \in Leases \cup {NoLease} /\ age' \in 0..Life
    BY LeaseAssumption
       DEF WriterAsks, WriterStep, WriterTurnstile, WriterGate, WriterDone, CatalogMoves, Tick,
           BeginShutdown, env, world, IInv, TypeOK
  <2>2. /\ server' \in {"open", "draining", "disposed", "stuck"}
        /\ writer' \in {"idle", "admission", "gate", "store"} /\ kind' \in {"wave", "init"}
        /\ readable' \in BOOLEAN /\ faults' \in 0..MaxFaults
    BY DEF WriterAsks, WriterStep, WriterTurnstile, WriterGate, WriterDone, CatalogMoves, Tick,
           BeginShutdown, env, world, IInv, TypeOK
  <2> QED
    BY <1>1, <2>1, <2>2 DEF rest, IInv, TypeOK
<1> QED
  BY <1>1, <1>2
     DEF rest, IInv, RefsCount, Sharers, ActiveCount, Busy, Placed, StateByPlace, SessionByPlace,
         OneOwner, OwnerByState, SessionsAreOwned, QuietAfterDisposal

\* The pool goes when no thread is inside: the count of the lifecycle says so.
LEMMA DrainedKeeps ==
    ASSUME IInv, Drained
    PROVE  IInv'
<1>1. UNCHANGED <<lease, rest>>
  BY DEF Drained, env, rest
<1>2. server' = "disposed" => \A r \in Readers : pc'[r] = "idle"
  <2>1. SUFFICES ASSUME active = 0 PROVE \A r \in Readers : pc'[r] = "idle"
    BY DEF Drained
  <2>2. Busy \in SUBSET Readers
    BY DEF Busy
  <2>3. Busy = {}
    BY <2>1, <2>2, FS_Subset, FS_EmptySet, LeaseAssumption DEF IInv, ActiveCount
  <2> QED
    BY <1>1, <2>3 DEF Busy, rest
<1>3. TypeOK'
  BY DEF Drained, env, rest, IInv, TypeOK
<1> QED
  BY <1>1, <1>2, <1>3
     DEF rest, IInv, RefsCount, Sharers, ActiveCount, Busy, Placed, StateByPlace, SessionByPlace,
         OneOwner, OwnerByState, SessionsAreOwned, QuietAfterDisposal

LEMMA SessionDeathKeeps ==
    ASSUME IInv, NEW l \in Leases, SessionDeath(l)
    PROVE  IInv'
<1>1. /\ lease'[l] = [lease[l] EXCEPT !.adm = FALSE, !.gate = FALSE, !.dead = TRUE]
      /\ lease[l].conn /\ lease[l] \in Objects
      /\ \A m \in Leases \ {l} : lease'[m] = lease[m]
      /\ UNCHANGED <<rest, server>>
  BY DEF SessionDeath, Change, IInv, TypeOK, env, world, Objects
<1>2. \A m \in Leases :
         /\ lease'[m].state = lease[m].state /\ lease'[m].refs = lease[m].refs
         /\ lease'[m].conn = lease[m].conn
         /\ lease[m].gate \/ lease[m].dead => lease'[m].gate \/ lease'[m].dead
  BY <1>1 DEF Objects
<1>3. TypeOK'
  <2>1. lease' \in [Leases -> Objects]
    BY DEF SessionDeath, Change, IInv, TypeOK, Objects
  <2>2. faults' \in 0..MaxFaults
    BY LeaseAssumption DEF SessionDeath, IInv, TypeOK
  <2> QED
    BY <2>1, <2>2 DEF SessionDeath, IInv, TypeOK, env, rest, world, Objects
<1>4. RefsCount' /\ ActiveCount' /\ Placed'
  BY <1>1, <1>2 DEF rest, IInv, RefsCount, Sharers, ActiveCount, Busy, Placed
<1>5. StateByPlace' /\ SessionByPlace' /\ OneOwner'
  BY <1>1, <1>2, Place DEF rest, IInv, StateByPlace, SessionByPlace, OneOwner, Creating, Outside
<1>6. OwnerByState' /\ SessionsAreOwned' /\ QuietAfterDisposal'
  BY <1>1, <1>2 DEF rest, IInv, OwnerByState, SessionsAreOwned, QuietAfterDisposal
<1> QED
  BY <1>3, <1>4, <1>5, <1>6 DEF IInv

----------------------------------------------------------------------------
(* The theorems. *)

LEMMA InitEstablishes == Init => IInv
<1> SUFFICES ASSUME Init PROVE IInv
  OBVIOUS
<1> USE DEF Init
<1>1. Cardinality(Readers) \in Nat /\ Blank \in Objects
  BY FS_CardinalityType, LeaseAssumption DEF Objects, Blank
<1>2. TypeOK
  BY <1>1, LeaseAssumption DEF TypeOK, Objects
<1>3. RefsCount /\ ActiveCount
  <2>1. Busy = {} /\ \A l \in Leases : Sharers(l) = {} /\ lease[l].refs = 0
    BY LeaseAssumption DEF Busy, Sharers, Blank
  <2> QED
    BY <2>1, FS_EmptySet, LeaseAssumption DEF RefsCount, ActiveCount
<1>4. Placed /\ StateByPlace /\ SessionByPlace
  BY DEF Placed, StateByPlace, SessionByPlace, Outside, Creating
<1>5. OneOwner /\ OwnerByState /\ SessionsAreOwned /\ QuietAfterDisposal
  BY DEF OneOwner, OwnerByState, SessionsAreOwned, QuietAfterDisposal, Creating, Blank
<1> QED
  BY <1>2, <1>3, <1>4, <1>5 DEF IInv

\* Every step of a thread, of the writer, of the catalog, of time, of a dying
\* session and of the shutdown keeps the invariant.
LEMMA StepKeeps == IInv /\ [Next]_vars => IInv'
<1> SUFFICES ASSUME IInv, [Next]_vars PROVE IInv'
  OBVIOUS
<1>1. CASE \E r \in Readers : Enter(r) \/ ReaderStep(r)
  BY <1>1, EnterKeeps, JoinKeeps, CreateKeeps, AcquireKeeps, RevalidateKeeps, FailKeeps,
     CleanUpKeeps, ProceedKeeps, GiveUpKeeps, ExitSharedKeeps, ExitLastKeeps, CloseKeeps
     DEF ReaderStep
<1>2. CASE WriterAsks \/ WriterStep \/ CatalogMoves \/ Tick \/ BeginShutdown
  BY <1>2, WorldKeeps
<1>3. CASE \E l \in Leases : SessionDeath(l)
  BY <1>3, SessionDeathKeeps
<1>4. CASE Drained
  BY <1>4, DrainedKeeps
<1>5. CASE UNCHANGED vars
  BY <1>5 DEF vars, IInv, TypeOK, RefsCount, Sharers, ActiveCount, Busy, Placed, StateByPlace,
              SessionByPlace, OneOwner, OwnerByState, SessionsAreOwned, QuietAfterDisposal
<1> QED
  BY <1>1, <1>2, <1>3, <1>4, <1>5 DEF Next

\* The leases, the threads and the server are in the states the code knows, and
\* every count is right.
THEOREM LeaseInvariant == Spec => []IInv
BY InitEstablishes, StepKeeps, PTL DEF Spec

\* A read is under the gate its lease holds (or under a session it does not know
\* to be dead), no connection is left without a thread that counts in its lease,
\* and the pool is disposed of only when no connection of it is out:
\* gated_read and ReaderGateLifecycle of the API, for every number of threads.
THEOREM LeasesSound == Spec => []LeasesAreSound
<1>1. IInv => LeasesAreSound
  <2> SUFFICES ASSUME IInv PROVE LeasesAreSound
    OBVIOUS
  <2>1. ReadsUnderGate
    BY Place DEF ReadsUnderGate, IInv, StateByPlace, OwnerByState, Outside
  <2>2. DisposedWhenQuiet
    <3> SUFFICES ASSUME server = "disposed" PROVE Connections = 0
      BY DEF DisposedWhenQuiet
    <3>1. \A l \in Leases : ~lease[l].conn
      BY Place DEF IInv, QuietAfterDisposal, SessionsAreOwned, Outside
    <3> QED
      BY <3>1, FS_EmptySet DEF Connections
  <2> QED
    BY <2>1, <2>2 DEF IInv, LeasesAreSound
<1> QED
  BY <1>1, LeaseInvariant, PTL
=============================================================================
