-------------------------- MODULE StoreGateProofs --------------------------
(***************************************************************************)
(* The store gate protocol excludes what it must exclude, for every set of  *)
(* actors, sessions and regions and any number of runs and faults.          *)
(***************************************************************************)
EXTENDS StoreGate, TLAPS

\* A session serves one actor at a time, and exactly the actors that run own one.
SessionOwned ==
    /\ \A p \in Procs : pc[p] # "idle" <=> conn[p] \in Sessions
    /\ \A p, q \in Procs : conn[p] \in Sessions /\ conn[p] = conn[q] => p = q

\* The lock table never grants a key EXCLUSIVE beside another session.
TableSound ==
    \A s, t \in Sessions : \A k \in Keys :
        s # t /\ exclusive[s][k] > 0 => exclusive[t][k] = 0 /\ shared[t][k] = 0

\* A dead session is a lost one, and an actor whose session was dropped no
\* longer waits for the turnstile or the gate on a fresh one.
LossKnown ==
    \A p \in Procs :
        /\ conn[p] \in broken => lost[p]
        /\ Asking(p) /\ lost[p] => conn[p] \in broken

\* What the recorded lock set holds at each place of the code path.
HeldByPlace ==
    \A p \in Procs :
        /\ pc[p] \in {"idle", "admission"} => held[p] = {}
        /\ pc[p] = "gate" => held[p] \subseteq {"admission"}
        /\ pc[p] = "gate" /\ TakesAdmission(p) => "admission" \in held[p]
        /\ pc[p] \in {"check", "region", "partial", "critical", "relRegion", "relGate"}
               => "gate" \in held[p]
        /\ pc[p] \in {"critical", "relRegion"} /\ Role[p] = "writer" => RegionsOf[p] \subseteq held[p]
        /\ pc[p] \in {"region", "partial", "relRegion"} => Role[p] = "writer"
        /\ pc[p] \notin {"critical", "relRegion"} => held[p] \cap Regions = {}
        /\ held[p] \cap Regions # {} => Role[p] = "writer" /\ held[p] \cap Regions = RegionsOf[p]
        /\ pc[p] = "dropAdmission" => Role[p] = "reader"
        /\ pc[p] = "relAdmission" => "gate" \notin held[p]
        /\ pc[p] = "close" => lost[p] \/ "gate" \notin held[p]

\* A gate or region lock on the server belongs to the actor that records it, or
\* is part of a catch about to be given back, and is held once.
LocksAccounted ==
    \A s \in Sessions : \A k \in Keys \ {"admission"} :
        /\ shared[s][k] + exclusive[s][k] <= 1
        /\ shared[s][k] + exclusive[s][k] > 0 =>
              \E p \in Procs :
                /\ conn[p] = s
                /\ pc[p] # "close"
                /\ k \in held[p] \/ (pc[p] = "partial" /\ k \in RegionsOf[p] /\ exclusive[s][k] > 0)

IInv ==
    /\ TypeOK
    /\ SessionOwned
    /\ TableSound
    /\ LossKnown
    /\ HeldByPlace
    /\ LocksAccounted
    /\ LockSetBacked

----------------------------------------------------------------------------
(* What a step does to the lock table, seen from the session it works on. *)

\* Only session s changes, and the table keeps its type.
TableStep(s) ==
    /\ shared' \in [Sessions -> [Keys -> Nat]]
    /\ exclusive' \in [Sessions -> [Keys -> Nat]]
    /\ \A t \in Sessions \ {s} : shared'[t] = shared[t] /\ exclusive'[t] = exclusive[t]

Shrinks(s) ==
    \A k \in Keys : shared'[s][k] <= shared[s][k] /\ exclusive'[s][k] <= exclusive[s][k]

OthersSame(p) ==
    \A q \in Procs \ {p} : conn'[q] = conn[q] /\ pc'[q] = pc[q] /\ held'[q] = held[q]

\* Dropping a session empties its row.
LEMMA DropEffect ==
    ASSUME TypeOK, NEW s \in Sessions, DropSession(s)
    PROVE  /\ TableStep(s)
           /\ Shrinks(s)
           /\ \A k \in Keys : shared'[s][k] = 0 /\ exclusive'[s][k] = 0
<1>1. NoLocks \in [Keys -> Nat] /\ \A k \in Keys : NoLocks[k] = 0  BY DEF NoLocks
<1>2. shared'[s] = NoLocks /\ exclusive'[s] = NoLocks  BY DEF TypeOK, DropSession
<1>3. TableStep(s)  BY <1>1 DEF TypeOK, DropSession, TableStep
<1>4. \A k \in Keys : shared[s][k] \in Nat /\ exclusive[s][k] \in Nat  BY DEF TypeOK
<1> QED  BY <1>1, <1>2, <1>3, <1>4 DEF Shrinks

\* A granted request adds one to one entry.
LEMMA LockEffect ==
    ASSUME TypeOK, NEW s \in Sessions, NEW k \in Keys, NEW e \in BOOLEAN, Lock(s, k, e)
    PROVE  /\ TableStep(s)
           /\ \A j \in Keys : shared'[s][j] = IF j = k /\ ~e THEN shared[s][j] + 1 ELSE shared[s][j]
           /\ \A j \in Keys : exclusive'[s][j] = IF j = k /\ e THEN exclusive[s][j] + 1 ELSE exclusive[s][j]
<1>1. CASE e
  <2>1. shared' = shared /\ exclusive' = [exclusive EXCEPT ![s][k] = @ + 1]  BY <1>1 DEF Lock
  <2> QED  BY <1>1, <2>1 DEF TypeOK, TableStep
<1>2. CASE ~e
  <2>1. exclusive' = exclusive /\ shared' = [shared EXCEPT ![s][k] = @ + 1]  BY <1>2 DEF Lock
  <2> QED  BY <1>2, <2>1 DEF TypeOK, TableStep
<1> QED  BY <1>1, <1>2

\* A confirmed unlock takes one from one entry.
LEMMA UnlockEffect ==
    ASSUME TypeOK, NEW s \in Sessions, NEW k \in Keys, NEW e \in BOOLEAN,
           Unlock(s, k, e), Holds(s, k, e)
    PROVE  /\ TableStep(s)
           /\ Shrinks(s)
           /\ \A j \in Keys : shared'[s][j] = IF j = k /\ ~e THEN shared[s][j] - 1 ELSE shared[s][j]
           /\ \A j \in Keys : exclusive'[s][j] = IF j = k /\ e THEN exclusive[s][j] - 1 ELSE exclusive[s][j]
<1>1. CASE e
  <2>1. shared' = shared /\ exclusive' = [exclusive EXCEPT ![s][k] = @ - 1]  BY <1>1 DEF Unlock
  <2>2. exclusive[s][k] \in Nat /\ exclusive[s][k] > 0  BY <1>1 DEF TypeOK, Holds
  <2>3. exclusive[s][k] - 1 \in Nat  BY <2>2
  <2>4. TableStep(s)  BY <2>1, <2>3 DEF TypeOK, TableStep
  <2>5. \A j \in Keys : exclusive'[s][j] = IF j = k THEN exclusive[s][j] - 1 ELSE exclusive[s][j]
    BY <2>1 DEF TypeOK
  <2>6. \A j \in Keys : exclusive[s][j] \in Nat /\ shared[s][j] \in Nat  BY DEF TypeOK
  <2>7. Shrinks(s)  BY <2>1, <2>5, <2>6 DEF Shrinks
  <2> QED  BY <1>1, <2>1, <2>4, <2>5, <2>7
<1>2. CASE ~e
  <2>1. exclusive' = exclusive /\ shared' = [shared EXCEPT ![s][k] = @ - 1]  BY <1>2 DEF Unlock
  <2>2. shared[s][k] \in Nat /\ shared[s][k] > 0  BY <1>2 DEF TypeOK, Holds
  <2>3. shared[s][k] - 1 \in Nat  BY <2>2
  <2>4. TableStep(s)  BY <2>1, <2>3 DEF TypeOK, TableStep
  <2>5. \A j \in Keys : shared'[s][j] = IF j = k THEN shared[s][j] - 1 ELSE shared[s][j]
    BY <2>1 DEF TypeOK
  <2>6. \A j \in Keys : exclusive[s][j] \in Nat /\ shared[s][j] \in Nat  BY DEF TypeOK
  <2>7. Shrinks(s)  BY <2>1, <2>5, <2>6 DEF Shrinks
  <2> QED  BY <1>2, <2>1, <2>4, <2>5, <2>7
<1> QED  BY <1>1, <1>2

\* A batch of region keys is granted, or given back, in one statement.
LEMMA BatchLockEffect ==
    ASSUME TypeOK, NEW s \in Sessions, NEW S \in SUBSET Keys, shared' = shared,
           exclusive' = [exclusive EXCEPT ![s] =
               [k \in Keys |-> IF k \in S THEN @[k] + 1 ELSE @[k]]]
    PROVE  /\ TableStep(s)
           /\ \A j \in Keys : exclusive'[s][j] = IF j \in S THEN exclusive[s][j] + 1 ELSE exclusive[s][j]
BY DEF TypeOK, TableStep

LEMMA BatchUnlockEffect ==
    ASSUME TypeOK, NEW s \in Sessions, NEW S \in SUBSET Keys, shared' = shared,
           \A k \in S : exclusive[s][k] > 0,
           exclusive' = [exclusive EXCEPT ![s] =
               [k \in Keys |-> IF k \in S THEN @[k] - 1 ELSE @[k]]]
    PROVE  /\ TableStep(s)
           /\ Shrinks(s)
           /\ \A j \in Keys : exclusive'[s][j] = IF j \in S THEN exclusive[s][j] - 1 ELSE exclusive[s][j]
<1>1. \A j \in Keys : exclusive[s][j] \in Nat /\ shared[s][j] \in Nat  BY DEF TypeOK
<1>2. \A j \in Keys : (IF j \in S THEN exclusive[s][j] - 1 ELSE exclusive[s][j]) \in Nat  BY <1>1
<1>3. exclusive'[s] = [k \in Keys |-> IF k \in S THEN exclusive[s][k] - 1 ELSE exclusive[s][k]]
  BY DEF TypeOK
<1>4. exclusive'[s] \in [Keys -> Nat]  BY <1>2, <1>3
<1>5. TableStep(s)  BY <1>4 DEF TypeOK, TableStep
<1> QED  BY <1>1, <1>3, <1>5 DEF Shrinks

\* Taking locks away keeps the lock table sound.
LEMMA TableShrinks ==
    ASSUME TypeOK, TableSound, NEW s \in Sessions, TableStep(s), Shrinks(s)
    PROVE  TableSound'
<1> SUFFICES ASSUME NEW a \in Sessions, NEW b \in Sessions, NEW k \in Keys,
                    a # b, exclusive'[a][k] > 0
             PROVE  exclusive'[b][k] = 0 /\ shared'[b][k] = 0
  BY DEF TableSound
<1>1. \A t \in Sessions : exclusive'[t][k] \in Nat /\ shared'[t][k] \in Nat
                          /\ exclusive[t][k] \in Nat /\ shared[t][k] \in Nat
  BY DEF TypeOK, TableStep
<1>2. \A t \in Sessions : exclusive'[t][k] <= exclusive[t][k] /\ shared'[t][k] <= shared[t][k]
  BY <1>1 DEF TableStep, Shrinks
<1>3. exclusive[a][k] > 0  BY <1>1, <1>2
<1>4. exclusive[b][k] = 0 /\ shared[b][k] = 0  BY <1>3 DEF TableSound
<1> QED  BY <1>1, <1>2, <1>4

\* What LocksAccounted says of the one actor that owns a session.
LEMMA OwnBefore ==
    ASSUME IInv, NEW p \in Procs, conn[p] \in Sessions, NEW k \in Keys \ {"admission"}
    PROVE  /\ shared[conn[p]][k] \in Nat /\ exclusive[conn[p]][k] \in Nat
           /\ shared[conn[p]][k] + exclusive[conn[p]][k] <= 1
           /\ shared[conn[p]][k] + exclusive[conn[p]][k] > 0 =>
                 /\ pc[p] # "close"
                 /\ k \in held[p] \/ (pc[p] = "partial" /\ k \in RegionsOf[p] /\ exclusive[conn[p]][k] > 0)
BY DEF IInv, TypeOK, SessionOwned, LocksAccounted

\* A step of one actor keeps the accounts when it keeps them for its session.
LEMMA OwnAccounted ==
    ASSUME IInv, NEW p \in Procs, conn[p] \in Sessions, TableStep(conn[p]), OthersSame(p),
           \A k \in Keys \ {"admission"} :
               /\ shared'[conn[p]][k] + exclusive'[conn[p]][k] <= 1
               /\ shared'[conn[p]][k] + exclusive'[conn[p]][k] > 0 =>
                     /\ conn'[p] = conn[p]
                     /\ pc'[p] # "close"
                     /\ k \in held'[p] \/ (pc'[p] = "partial" /\ k \in RegionsOf[p] /\ exclusive'[conn[p]][k] > 0)
    PROVE  LocksAccounted'
<1> SUFFICES ASSUME NEW s \in Sessions, NEW k \in Keys \ {"admission"}
             PROVE  /\ shared'[s][k] + exclusive'[s][k] <= 1
                    /\ shared'[s][k] + exclusive'[s][k] > 0 =>
                          \E q \in Procs :
                            /\ conn'[q] = s
                            /\ pc'[q] # "close"
                            /\ k \in held'[q] \/ (pc'[q] = "partial" /\ k \in RegionsOf[q] /\ exclusive'[s][k] > 0)
  BY DEF LocksAccounted
<1>1. CASE s = conn[p]
  BY <1>1
<1>2. CASE s # conn[p]
  <2>1. shared'[s] = shared[s] /\ exclusive'[s] = exclusive[s]  BY <1>2 DEF TableStep
  <2>2. shared[s][k] + exclusive[s][k] <= 1  BY DEF IInv, LocksAccounted
  <2>3. ASSUME shared[s][k] + exclusive[s][k] > 0
        PROVE  \E q \in Procs :
                 /\ conn'[q] = s
                 /\ pc'[q] # "close"
                 /\ k \in held'[q] \/ (pc'[q] = "partial" /\ k \in RegionsOf[q] /\ exclusive'[s][k] > 0)
    <3>1. PICK q \in Procs : /\ conn[q] = s
                             /\ pc[q] # "close"
                             /\ k \in held[q] \/ (pc[q] = "partial" /\ k \in RegionsOf[q] /\ exclusive[s][k] > 0)
      BY <2>3 DEF IInv, LocksAccounted
    <3>2. q # p  BY <3>1, <1>2
    <3>3. WITNESS q \in Procs
    <3> QED  BY <2>1, <3>1, <3>2 DEF OthersSame
  <2> QED  BY <2>1, <2>2, <2>3
<1> QED  BY <1>1, <1>2

----------------------------------------------------------------------------
(* Every step keeps the invariant. *)

\* Checking out a connection keeps the invariant.
LEMMA BeginKeeps == ASSUME IInv, NEW p \in Procs, Begin(p) PROVE IInv'
<1> USE RolesAssumption, SessionsAssumption, RegionsAssumption, BoundsAssumption
<1>1. TypeOK'
  <2>1. rounds' \in [Procs -> 0..MaxRounds]
    BY DEF IInv, TypeOK, Begin
  <2>2. pc' \in [Procs -> PCs]
    BY DEF IInv, TypeOK, Begin, Goto, PCs
  <2> QED  BY <2>1, <2>2 DEF IInv, TypeOK, Begin, lockTable, Pooled
<1>2. SessionOwned'
  BY DEF IInv, SessionOwned, TypeOK, Begin, Pooled, lockTable, Goto, TakesAdmission
<1>3. TableSound'
  BY DEF IInv, TableSound, TypeOK, SessionOwned, Begin, Pooled, lockTable, Goto, TakesAdmission
<1>4. LossKnown'
  BY DEF IInv, LossKnown, TypeOK, SessionOwned, Asking, Begin, Pooled, lockTable, Goto,
         TakesAdmission
<1>5. HeldByPlace'
  BY DEF IInv, HeldByPlace, TypeOK, SessionOwned, TakesAdmission, Keys, Begin, Pooled,
         lockTable, Goto
<1>6. LocksAccounted'
  <2> SUFFICES ASSUME NEW s \in Sessions, NEW k \in Keys \ {"admission"},
                      shared[s][k] + exclusive[s][k] > 0
               PROVE  \E q \in Procs :
                        /\ conn'[q] = s
                        /\ pc'[q] # "close"
                        /\ k \in held'[q] \/ (pc'[q] = "partial" /\ k \in RegionsOf[q] /\ exclusive'[s][k] > 0)
    BY DEF IInv, LocksAccounted, Begin, lockTable
  <2>1. PICK q \in Procs : /\ conn[q] = s
                           /\ pc[q] # "close"
                           /\ k \in held[q] \/ (pc[q] = "partial" /\ k \in RegionsOf[q] /\ exclusive[s][k] > 0)
    BY DEF IInv, LocksAccounted
  <2>2. q # p
    BY <2>1 DEF IInv, SessionOwned, Begin
  <2>3. conn'[q] = conn[q] /\ pc'[q] = pc[q] /\ held'[q] = held[q]
    BY <2>2 DEF IInv, TypeOK, Begin, Goto
  <2>4. exclusive' = exclusive  BY DEF Begin, lockTable
  <2> QED  BY <2>1, <2>3, <2>4
<1>7. LockSetBacked'
  BY DEF IInv, LockSetBacked, TypeOK, SessionOwned, HeldByPlace, Holds, IsExclusive, Keys,
         Begin, Pooled, lockTable, Goto, TakesAdmission
<1> QED  BY <1>1, <1>2, <1>3, <1>4, <1>5, <1>6, <1>7 DEF IInv

\* A grant of the turnstile or the gate keeps the invariant.
LEMMA AcquireKeeps == ASSUME IInv, NEW p \in Procs, Acquire(p) PROVE IInv'
<1> USE RolesAssumption, SessionsAssumption, RegionsAssumption, BoundsAssumption
<1>a. conn[p] \in Sessions /\ p \in Procs
  BY DEF IInv, SessionOwned, TypeOK, Acquire, Asking
<1>b. pc[p] \in Keys /\ IsExclusive(p) \in BOOLEAN /\ Lock(conn[p], pc[p], IsExclusive(p))
  BY DEF Acquire, Asking, Keys, IsExclusive
<1>c. /\ TableStep(conn[p])
      /\ \A j \in Keys : shared'[conn[p]][j] =
            IF j = pc[p] /\ ~IsExclusive(p) THEN shared[conn[p]][j] + 1 ELSE shared[conn[p]][j]
      /\ \A j \in Keys : exclusive'[conn[p]][j] =
            IF j = pc[p] /\ IsExclusive(p) THEN exclusive[conn[p]][j] + 1 ELSE exclusive[conn[p]][j]
  BY <1>a, <1>b, LockEffect DEF IInv
<1>1. TypeOK'
  <2>1. pc' \in [Procs -> PCs]
    BY DEF IInv, TypeOK, Acquire, Goto, AfterGrant, Asking, PCs
  <2>2. held' \in [Procs -> SUBSET Keys]
    BY <1>b DEF IInv, TypeOK, Acquire
  <2> QED  BY <1>c, <2>1, <2>2 DEF IInv, TypeOK, Acquire, TableStep
<1>2. SessionOwned'
  BY DEF IInv, SessionOwned, TypeOK, Acquire, Lock, Goto, AfterGrant, Asking, Grantable,
         IsExclusive
<1>3. TableSound'
  <2> SUFFICES ASSUME NEW a \in Sessions, NEW b \in Sessions, NEW k \in Keys,
                      a # b, exclusive'[a][k] > 0
               PROVE  exclusive'[b][k] = 0 /\ shared'[b][k] = 0
    BY DEF TableSound
  <2>1. \A t \in Sessions : exclusive[t][k] \in Nat /\ shared[t][k] \in Nat
    BY DEF IInv, TypeOK
  <2>2. CASE k = pc[p] /\ a = conn[p] /\ IsExclusive(p)
    BY <2>2, <1>c DEF TableStep, Acquire, Grantable
  <2>3. CASE k = pc[p] /\ b = conn[p]
    <3>1. exclusive[a][k] = 0
      BY <2>3 DEF Acquire, Grantable
    <3> QED  BY <3>1, <2>3, <1>c DEF TableStep
  <2>4. CASE ~(k = pc[p] /\ a = conn[p] /\ IsExclusive(p)) /\ ~(k = pc[p] /\ b = conn[p])
    <3>1. exclusive'[a][k] = exclusive[a][k]
      BY <2>4, <1>c DEF TableStep
    <3>2. exclusive'[b][k] = exclusive[b][k] /\ shared'[b][k] = shared[b][k]
      BY <2>4, <1>c DEF TableStep
    <3> QED  BY <3>1, <3>2 DEF IInv, TableSound
  <2> QED  BY <2>2, <2>3, <2>4
<1>4. LossKnown'
  BY DEF IInv, LossKnown, TypeOK, SessionOwned, Asking, Acquire, Lock, Goto, AfterGrant,
         Grantable, IsExclusive
<1>5. HeldByPlace'
  BY DEF IInv, HeldByPlace, TypeOK, SessionOwned, TakesAdmission, Keys, Acquire, Lock, Goto,
         AfterGrant, Asking, Grantable, IsExclusive
<1>6. LocksAccounted'
  <2>1. OthersSame(p)
    BY DEF IInv, TypeOK, OthersSame, Acquire, Goto
  <2>2. conn'[p] = conn[p] /\ pc'[p] # "close" /\ held'[p] = held[p] \cup {pc[p]}
    BY DEF IInv, TypeOK, Acquire, Goto, AfterGrant
  <2>3. ASSUME NEW k \in Keys \ {"admission"}
        PROVE  /\ shared'[conn[p]][k] + exclusive'[conn[p]][k] <= 1
               /\ shared'[conn[p]][k] + exclusive'[conn[p]][k] > 0 => k \in held'[p]
    <3>1. shared[conn[p]][k] = 0 /\ exclusive[conn[p]][k] = 0
      BY <1>a, OwnBefore DEF IInv, HeldByPlace, Acquire, Asking
    <3> QED  BY <3>1, <2>2, <1>c
  <2> QED  BY <1>a, <1>c, <2>1, <2>2, <2>3, OwnAccounted
<1>7. LockSetBacked'
  <2> SUFFICES ASSUME NEW q \in Procs, NEW k \in held'[q], ~lost'[q]
               PROVE  Holds(conn[q], k, IsExclusive(q) \/ k \in Regions)'
    BY DEF LockSetBacked
  <2>1. conn' = conn /\ lost' = lost /\ k \in Keys
    BY <1>b DEF Acquire, IInv, TypeOK
  <2>2. CASE q = p /\ k = pc[p]
    <3>1. k \notin Regions
      BY <2>2 DEF Acquire, Asking
    <3> QED  BY <3>1, <2>1, <2>2, <1>a, <1>b, <1>c DEF IInv, TypeOK, Holds, IsExclusive
  <2>3. CASE ~(q = p /\ k = pc[p])
    <3>1. k \in held[q] /\ conn[q] \in Sessions
      BY <2>3 DEF IInv, TypeOK, SessionOwned, HeldByPlace, Acquire
    <3>2. Holds(conn[q], k, IsExclusive(q) \/ k \in Regions)
      BY <2>1, <3>1 DEF IInv, LockSetBacked
    <3>3. exclusive'[conn[q]][k] >= exclusive[conn[q]][k] /\ shared'[conn[q]][k] >= shared[conn[q]][k]
      <4>1. exclusive[conn[q]][k] \in Nat /\ shared[conn[q]][k] \in Nat
        BY <2>1, <3>1 DEF IInv, TypeOK
      <4> QED  BY <4>1, <1>a, <1>c, <2>1, <3>1 DEF TableStep
    <3> QED  BY <2>1, <3>1, <3>2, <3>3, <1>c DEF IInv, TypeOK, Holds, TableStep, IsExclusive
  <2> QED  BY <2>2, <2>3
<1> QED  BY <1>1, <1>2, <1>3, <1>4, <1>5, <1>6, <1>7 DEF IInv

\* A lock timeout keeps the invariant.
LEMMA LockTimeoutKeeps == ASSUME IInv, NEW p \in Procs, LockTimeout(p) PROVE IInv'
<1> USE RolesAssumption, SessionsAssumption, RegionsAssumption, BoundsAssumption
<1>a. conn[p] \in Sessions /\ p \in Procs
  BY DEF IInv, SessionOwned, TypeOK, LockTimeout, Asking
<1>1. TypeOK'
  BY DEF IInv, TypeOK, PCs, Keys, LockTimeout, Goto, AfterTimeout, Asking, lockTable
<1>2. SessionOwned'
  BY DEF IInv, SessionOwned, TypeOK, LockTimeout, Goto, AfterTimeout, Asking, lockTable
<1>3. TableSound'
  BY DEF IInv, TableSound, TypeOK, SessionOwned, LockTimeout, Goto, AfterTimeout, Asking,
         lockTable
<1>4. LossKnown'
  BY DEF IInv, LossKnown, TypeOK, SessionOwned, Asking, LockTimeout, Goto, AfterTimeout,
         lockTable
<1>5. HeldByPlace'
  BY DEF IInv, HeldByPlace, TypeOK, SessionOwned, TakesAdmission, Keys, LockTimeout, Goto,
         AfterTimeout, Asking, lockTable
<1>6. LocksAccounted'
  <2>1. TableStep(conn[p]) /\ shared' = shared /\ exclusive' = exclusive
    BY DEF IInv, TypeOK, TableStep, LockTimeout, lockTable
  <2>2. OthersSame(p)
    BY DEF IInv, TypeOK, OthersSame, LockTimeout, Goto
  <2>3. ASSUME NEW k \in Keys \ {"admission"}
        PROVE  shared[conn[p]][k] + exclusive[conn[p]][k] = 0
    BY <1>a, OwnBefore DEF IInv, HeldByPlace, LockTimeout, Asking
  <2> QED  BY <1>a, <2>1, <2>2, <2>3, OwnAccounted
<1>7. LockSetBacked'
  BY DEF IInv, LockSetBacked, TypeOK, SessionOwned, HeldByPlace, Holds, IsExclusive, Keys,
         LockTimeout, Goto, AfterTimeout, Asking, lockTable
<1> QED  BY <1>1, <1>2, <1>3, <1>4, <1>5, <1>6, <1>7 DEF IInv

\* A failed acquisition keeps the invariant.
LEMMA AcquireErrorKeeps == ASSUME IInv, NEW p \in Procs, AcquireError(p) PROVE IInv'
<1> USE RolesAssumption, SessionsAssumption, RegionsAssumption, BoundsAssumption
<1>a. conn[p] \in Sessions /\ p \in Procs
  BY DEF IInv, SessionOwned, TypeOK, AcquireError, Asking
<1>b. /\ TableStep(conn[p])
      /\ Shrinks(conn[p])
      /\ \A k \in Keys : shared'[conn[p]][k] = 0 /\ exclusive'[conn[p]][k] = 0
  BY <1>a, DropEffect DEF IInv, AcquireError, Invalidate
<1>1. TypeOK'
  BY DEF IInv, TypeOK, PCs, Keys, AcquireError, Invalidate, DropSession, NoLocks, Goto,
         AfterTimeout, Asking
<1>2. SessionOwned'
  BY DEF IInv, SessionOwned, TypeOK, AcquireError, Invalidate, DropSession, NoLocks, Goto,
         AfterTimeout, Asking
<1>3. TableSound'
  BY DEF IInv, TableSound, TypeOK, SessionOwned, AcquireError, Invalidate, DropSession,
         NoLocks, Goto, AfterTimeout, Asking
<1>4. LossKnown'
  BY DEF IInv, LossKnown, TypeOK, SessionOwned, Asking, AcquireError, Invalidate, DropSession,
         NoLocks, Goto, AfterTimeout
<1>5. HeldByPlace'
  BY DEF IInv, HeldByPlace, TypeOK, SessionOwned, TakesAdmission, Keys, AcquireError,
         Invalidate, DropSession, NoLocks, Goto, AfterTimeout, Asking
<1>6. LocksAccounted'
  <2>1. OthersSame(p)
    BY DEF IInv, TypeOK, OthersSame, AcquireError, Goto
  <2> QED  BY <1>a, <1>b, <2>1, OwnAccounted
<1>7. LockSetBacked'
  BY DEF IInv, LockSetBacked, TypeOK, SessionOwned, HeldByPlace, Holds, IsExclusive, Keys,
         AcquireError, Invalidate, DropSession, NoLocks, Goto, AfterTimeout, Asking
<1> QED  BY <1>1, <1>2, <1>3, <1>4, <1>5, <1>6, <1>7 DEF IInv

\* The checks under the gate keeps the invariant.
LEMMA CheckKeeps == ASSUME IInv, NEW p \in Procs, Check(p) PROVE IInv'
<1> USE RolesAssumption, SessionsAssumption, RegionsAssumption, BoundsAssumption
<1>1. TypeOK'
  BY DEF IInv, TypeOK, PCs, Keys, Check, Goto, lockTable
<1>2. SessionOwned'
  BY DEF IInv, SessionOwned, TypeOK, Check, Goto, lockTable
<1>3. TableSound'
  BY DEF IInv, TableSound, TypeOK, SessionOwned, Check, Goto, lockTable
<1>4. LossKnown'
  BY DEF IInv, LossKnown, TypeOK, SessionOwned, Asking, Check, Goto, lockTable
<1>5. HeldByPlace'
  BY DEF IInv, HeldByPlace, TypeOK, SessionOwned, TakesAdmission, Keys, Check, Goto, lockTable
<1>6. LocksAccounted'
  BY DEF IInv, LocksAccounted, TypeOK, SessionOwned, HeldByPlace, Keys, Check, Goto, lockTable
<1>7. LockSetBacked'
  BY DEF IInv, LockSetBacked, TypeOK, SessionOwned, HeldByPlace, Holds, IsExclusive, Keys,
         Check, Goto, lockTable
<1> QED  BY <1>1, <1>2, <1>3, <1>4, <1>5, <1>6, <1>7 DEF IInv

\* One attempt at the region locks keeps the invariant.
LEMMA TryRegionsKeeps == ASSUME IInv, NEW p \in Procs, TryRegions(p) PROVE IInv'
<1> USE RolesAssumption, SessionsAssumption, RegionsAssumption, BoundsAssumption
<1>a. conn[p] \in Sessions /\ p \in Procs
  BY DEF IInv, SessionOwned, TypeOK, TryRegions
<1>b. Free(p) \subseteq RegionsOf[p] /\ RegionsOf[p] \subseteq Regions /\ Free(p) \subseteq Keys
  BY DEF Free, Keys
<1>c. /\ TableStep(conn[p])
      /\ shared' = shared
      /\ \A j \in Keys : exclusive'[conn[p]][j] =
            IF j \in Free(p) THEN exclusive[conn[p]][j] + 1 ELSE exclusive[conn[p]][j]
  BY <1>a, <1>b, BatchLockEffect DEF IInv, TryRegions
<1>d. /\ Role[p] = "writer" /\ held[p] \cap Regions = {} /\ conn' = conn /\ lost' = lost
      /\ \/ /\ Free(p) = RegionsOf[p] /\ held' = [held EXCEPT ![p] = @ \cup RegionsOf[p]]
            /\ pc' = [pc EXCEPT ![p] = "critical"]
         \/ held' = held /\ pc' = [pc EXCEPT ![p] = "partial"]
  BY DEF IInv, HeldByPlace, TryRegions, Goto
<1>1. TypeOK'
  <2>1. pc' \in [Procs -> PCs]
    BY <1>d DEF IInv, TypeOK, PCs
  <2>2. held' \in [Procs -> SUBSET Keys]
    BY <1>b, <1>d DEF IInv, TypeOK, Keys
  <2> QED  BY <1>c, <2>1, <2>2 DEF IInv, TypeOK, TryRegions, TableStep
<1>2. SessionOwned'
  BY DEF IInv, SessionOwned, TypeOK, TryRegions, Goto, Free, Grantable
<1>3. TableSound'
  BY DEF IInv, TableSound, TypeOK, SessionOwned, TryRegions, Goto, Free, Grantable
<1>4. LossKnown'
  BY DEF IInv, LossKnown, TypeOK, SessionOwned, Asking, TryRegions, Goto, Free, Grantable
<1>5. HeldByPlace'
  BY DEF IInv, HeldByPlace, TypeOK, SessionOwned, TakesAdmission, Keys, TryRegions, Goto,
         Free, Grantable
<1>6. LocksAccounted'
  <2>1. OthersSame(p)
    BY <1>d DEF IInv, TypeOK, OthersSame
  <2>2. ASSUME NEW k \in Keys \ {"admission"}
        PROVE  /\ shared'[conn[p]][k] + exclusive'[conn[p]][k] <= 1
               /\ shared'[conn[p]][k] + exclusive'[conn[p]][k] > 0 =>
                     /\ pc'[p] # "close"
                     /\ k \in held'[p] \/ (pc'[p] = "partial" /\ k \in RegionsOf[p] /\ exclusive'[conn[p]][k] > 0)
    <3>1. CASE k \in Free(p)
      <4>1. k \notin held[p] /\ pc[p] = "region"
        BY <1>b, <1>d, <3>1 DEF TryRegions
      <4>2. /\ shared[conn[p]][k] \in Nat /\ exclusive[conn[p]][k] \in Nat
            /\ ~(shared[conn[p]][k] + exclusive[conn[p]][k] > 0)
        BY <1>a, <4>1, OwnBefore
      <4>3. shared[conn[p]][k] = 0 /\ exclusive[conn[p]][k] = 0
        BY <4>2
      <4> QED  BY <4>3, <3>1, <1>b, <1>c, <1>d DEF IInv, TypeOK
    <3>2. CASE k \notin Free(p)
      <4>1. shared'[conn[p]][k] = shared[conn[p]][k] /\ exclusive'[conn[p]][k] = exclusive[conn[p]][k]
        BY <3>2, <1>c
      <4>2. shared[conn[p]][k] + exclusive[conn[p]][k] > 0 => k \in held[p]
        BY <1>a, OwnBefore DEF TryRegions
      <4> QED  BY <4>1, <4>2, <1>a, <1>d, OwnBefore DEF IInv, TypeOK
    <3> QED  BY <3>1, <3>2
  <2> QED  BY <1>a, <1>c, <1>d, <2>1, <2>2, OwnAccounted
<1>7. LockSetBacked'
  <2> SUFFICES ASSUME NEW q \in Procs, NEW k \in held'[q], ~lost[q]
               PROVE  Holds(conn[q], k, IsExclusive(q) \/ k \in Regions)'
    BY <1>d DEF LockSetBacked
  <2>1. CASE k \notin held[q]
    <3>1. q = p /\ k \in Free(p) /\ k \in Keys
      BY <2>1, <1>b, <1>d DEF IInv, TypeOK
    <3>2. exclusive[conn[p]][k] \in Nat  BY <1>a, <3>1 DEF IInv, TypeOK
    <3> QED  BY <3>1, <3>2, <1>b, <1>c, <1>d DEF Holds
  <2>2. CASE k \in held[q]
    <3>1. conn[q] \in Sessions /\ k \in Keys
      BY <2>2 DEF IInv, TypeOK, SessionOwned, HeldByPlace
    <3>2. Holds(conn[q], k, IsExclusive(q) \/ k \in Regions)
      BY <2>2 DEF IInv, LockSetBacked
    <3>3. exclusive[conn[q]][k] \in Nat  BY <3>1 DEF IInv, TypeOK
    <3>4. exclusive'[conn[q]][k] >= exclusive[conn[q]][k]
      BY <1>a, <1>c, <3>1, <3>3 DEF TableStep
    <3> QED  BY <1>c, <1>d, <3>2, <3>3, <3>4, <3>1 DEF Holds, IsExclusive, IInv, TypeOK, TableStep
  <2> QED  BY <2>1, <2>2
<1> QED  BY <1>1, <1>2, <1>3, <1>4, <1>5, <1>6, <1>7 DEF IInv

\* Giving back a partial catch keeps the invariant.
LEMMA ReleasePartialKeeps == ASSUME IInv, NEW p \in Procs, ReleasePartial(p) PROVE IInv'
<1> USE RolesAssumption, SessionsAssumption, RegionsAssumption, BoundsAssumption
<1>a. conn[p] \in Sessions /\ p \in Procs
  BY DEF IInv, SessionOwned, TypeOK, ReleasePartial
<1>b. Caught(p) \subseteq RegionsOf[p] /\ Caught(p) \subseteq Keys /\ \A r \in Caught(p) : exclusive[conn[p]][r] > 0
  BY DEF Caught, Keys
<1>c. /\ TableStep(conn[p])
      /\ Shrinks(conn[p])
      /\ \A r \in RegionsOf[p] : exclusive'[conn[p]][r] = 0
  <2>1. CASE conn[p] \in broken
    BY <2>1, <1>a, DropEffect DEF IInv, ReleasePartial, Invalidate, Keys
  <2>2. CASE conn[p] \notin broken
    <3>1. /\ TableStep(conn[p])
          /\ Shrinks(conn[p])
          /\ \A j \in Keys : exclusive'[conn[p]][j] =
                IF j \in Caught(p) THEN exclusive[conn[p]][j] - 1 ELSE exclusive[conn[p]][j]
      BY <2>2, <1>a, <1>b, BatchUnlockEffect DEF IInv, ReleasePartial
    <3>2. ASSUME NEW r \in RegionsOf[p]
          PROVE  exclusive'[conn[p]][r] = 0
      <4>1. r \in Keys \ {"admission"}  BY DEF Keys
      <4>2. /\ exclusive[conn[p]][r] \in Nat /\ shared[conn[p]][r] \in Nat
            /\ shared[conn[p]][r] + exclusive[conn[p]][r] <= 1
        BY <1>a, <4>1, OwnBefore
      <4>3. CASE r \in Caught(p)
        BY <3>1, <4>1, <4>2, <4>3, <1>b
      <4>4. CASE r \notin Caught(p)
        BY <3>1, <4>1, <4>2, <4>4 DEF Caught
      <4> QED  BY <4>3, <4>4
    <3> QED  BY <3>1, <3>2
  <2> QED  BY <2>1, <2>2
<1>d. /\ conn' = conn /\ held' = held /\ pc' = [pc EXCEPT ![p] = "region"]
      /\ pc[p] = "partial" /\ Role[p] = "writer" /\ held[p] \cap Regions = {}
  BY DEF IInv, HeldByPlace, ReleasePartial, Goto
<1>e. lost' \in [Procs -> BOOLEAN] /\ \A q \in Procs : lost'[q] = lost[q] \/ (q = p /\ lost'[q])
  BY DEF IInv, TypeOK, ReleasePartial, Invalidate
<1>1. TypeOK'
  <2>1. pc' \in [Procs -> PCs]
    BY <1>d DEF IInv, TypeOK, PCs
  <2> QED  BY <1>c, <1>d, <1>e, <2>1 DEF IInv, TypeOK, ReleasePartial, Invalidate, TableStep
<1>2. SessionOwned'
  BY DEF IInv, SessionOwned, TypeOK, ReleasePartial, Invalidate, DropSession, NoLocks, Goto,
         Caught
<1>3. TableSound'
  BY <1>a, <1>c, TableShrinks DEF IInv
<1>4. LossKnown'
  BY DEF IInv, LossKnown, TypeOK, SessionOwned, Asking, ReleasePartial, Invalidate,
         DropSession, NoLocks, Goto, Caught
<1>5. HeldByPlace'
  BY DEF IInv, HeldByPlace, TypeOK, SessionOwned, TakesAdmission, Keys, ReleasePartial,
         Invalidate, DropSession, NoLocks, Goto, Caught
<1>6. LocksAccounted'
  <2>1. OthersSame(p)
    BY <1>d DEF IInv, TypeOK, OthersSame
  <2>2. ASSUME NEW k \in Keys \ {"admission"}
        PROVE  /\ shared'[conn[p]][k] + exclusive'[conn[p]][k] <= 1
               /\ shared'[conn[p]][k] + exclusive'[conn[p]][k] > 0 =>
                     /\ pc'[p] # "close"
                     /\ k \in held'[p] \/ (pc'[p] = "partial" /\ k \in RegionsOf[p] /\ exclusive'[conn[p]][k] > 0)
    <3>1. /\ shared'[conn[p]][k] <= shared[conn[p]][k] /\ exclusive'[conn[p]][k] <= exclusive[conn[p]][k]
          /\ shared'[conn[p]][k] \in Nat /\ exclusive'[conn[p]][k] \in Nat
      BY <1>a, <1>c DEF Shrinks, TableStep
    <3>2. /\ shared[conn[p]][k] \in Nat /\ exclusive[conn[p]][k] \in Nat
          /\ shared[conn[p]][k] + exclusive[conn[p]][k] <= 1
          /\ shared[conn[p]][k] + exclusive[conn[p]][k] > 0 =>
                k \in held[p] \/ (k \in RegionsOf[p] /\ exclusive[conn[p]][k] > 0)
      BY <1>a, OwnBefore
    <3>3. k \in RegionsOf[p] => exclusive'[conn[p]][k] = 0
      BY <1>c
    <3>4. pc'[p] = "region" /\ held'[p] = held[p]
      BY <1>d DEF IInv, TypeOK
    <3> QED  BY <3>1, <3>2, <3>3, <3>4
  <2> QED  BY <1>a, <1>c, <1>d, <2>1, <2>2, OwnAccounted
<1>7. LockSetBacked'
  <2> SUFFICES ASSUME NEW q \in Procs, NEW k \in held[q], ~lost'[q]
               PROVE  Holds(conn[q], k, IsExclusive(q) \/ k \in Regions)'
    BY <1>d DEF LockSetBacked
  <2>1. ~lost[q] /\ k \in Keys /\ conn[q] \in Sessions
    BY <1>e DEF IInv, TypeOK, SessionOwned, HeldByPlace
  <2>2. Holds(conn[q], k, IsExclusive(q) \/ k \in Regions)
    BY <2>1 DEF IInv, LockSetBacked
  <2>3. exclusive'[conn[q]][k] = exclusive[conn[q]][k] /\ shared'[conn[q]][k] = shared[conn[q]][k]
    <3>1. CASE q # p
      BY <3>1, <1>a, <1>c, <2>1 DEF IInv, SessionOwned, TableStep
    <3>2. CASE q = p
      <4>1. conn[p] \notin broken /\ k \notin Caught(p)
        BY <3>2, <2>1, <1>b, <1>d DEF IInv, LossKnown
      <4> QED  BY <4>1, <3>2, <1>a, <2>1 DEF ReleasePartial, IInv, TypeOK
    <3> QED  BY <3>1, <3>2
  <2> QED  BY <1>d, <2>2, <2>3 DEF Holds, IsExclusive
<1> QED  BY <1>1, <1>2, <1>3, <1>4, <1>5, <1>6, <1>7 DEF IInv

\* The deadline of the region locks keeps the invariant.
LEMMA RegionTimeoutKeeps == ASSUME IInv, NEW p \in Procs, RegionTimeout(p) PROVE IInv'
<1> USE RolesAssumption, SessionsAssumption, RegionsAssumption, BoundsAssumption
<1>1. TypeOK'
  BY DEF IInv, TypeOK, PCs, Keys, RegionTimeout, Goto, lockTable
<1>2. SessionOwned'
  BY DEF IInv, SessionOwned, TypeOK, RegionTimeout, Goto, lockTable
<1>3. TableSound'
  BY DEF IInv, TableSound, TypeOK, SessionOwned, RegionTimeout, Goto, lockTable
<1>4. LossKnown'
  BY DEF IInv, LossKnown, TypeOK, SessionOwned, Asking, RegionTimeout, Goto, lockTable
<1>5. HeldByPlace'
  BY DEF IInv, HeldByPlace, TypeOK, SessionOwned, TakesAdmission, Keys, RegionTimeout, Goto,
         lockTable
<1>6. LocksAccounted'
  BY DEF IInv, LocksAccounted, TypeOK, SessionOwned, HeldByPlace, Keys, RegionTimeout, Goto,
         lockTable
<1>7. LockSetBacked'
  BY DEF IInv, LockSetBacked, TypeOK, SessionOwned, HeldByPlace, Holds, IsExclusive, Keys,
         RegionTimeout, Goto, lockTable
<1> QED  BY <1>1, <1>2, <1>3, <1>4, <1>5, <1>6, <1>7 DEF IInv

\* A failed attempt at the region locks keeps the invariant.
LEMMA RegionErrorKeeps == ASSUME IInv, NEW p \in Procs, RegionError(p) PROVE IInv'
<1> USE RolesAssumption, SessionsAssumption, RegionsAssumption, BoundsAssumption
<1>1. TypeOK'
  BY DEF IInv, TypeOK, PCs, Keys, RegionError, Invalidate, DropSession, NoLocks, Goto
<1>2. SessionOwned'
  BY DEF IInv, SessionOwned, TypeOK, RegionError, Invalidate, DropSession, NoLocks, Goto
<1>3. TableSound'
  BY DEF IInv, TableSound, TypeOK, SessionOwned, RegionError, Invalidate, DropSession,
         NoLocks, Goto
<1>4. LossKnown'
  BY DEF IInv, LossKnown, TypeOK, SessionOwned, Asking, RegionError, Invalidate, DropSession,
         NoLocks, Goto
<1>5. HeldByPlace'
  BY DEF IInv, HeldByPlace, TypeOK, SessionOwned, TakesAdmission, Keys, RegionError,
         Invalidate, DropSession, NoLocks, Goto
<1>6. LocksAccounted'
  BY DEF IInv, LocksAccounted, TypeOK, SessionOwned, HeldByPlace, Keys, RegionError,
         Invalidate, DropSession, NoLocks, Goto
<1>7. LockSetBacked'
  BY DEF IInv, LockSetBacked, TypeOK, SessionOwned, HeldByPlace, Holds, IsExclusive, Keys,
         RegionError, Invalidate, DropSession, NoLocks, Goto
<1> QED  BY <1>1, <1>2, <1>3, <1>4, <1>5, <1>6, <1>7 DEF IInv

\* The end of the protected work keeps the invariant.
LEMMA LeaveKeeps == ASSUME IInv, NEW p \in Procs, Leave(p) PROVE IInv'
<1> USE RolesAssumption, SessionsAssumption, RegionsAssumption, BoundsAssumption
<1>1. TypeOK'
  BY DEF IInv, TypeOK, PCs, Keys, Leave, Goto, lockTable
<1>2. SessionOwned'
  BY DEF IInv, SessionOwned, TypeOK, Leave, Goto, lockTable
<1>3. TableSound'
  BY DEF IInv, TableSound, TypeOK, SessionOwned, Leave, Goto, lockTable
<1>4. LossKnown'
  BY DEF IInv, LossKnown, TypeOK, SessionOwned, Asking, Leave, Goto, lockTable
<1>5. HeldByPlace'
  BY DEF IInv, HeldByPlace, TypeOK, SessionOwned, TakesAdmission, Keys, Leave, Goto, lockTable
<1>6. LocksAccounted'
  BY DEF IInv, LocksAccounted, TypeOK, SessionOwned, HeldByPlace, Keys, Leave, Goto, lockTable
<1>7. LockSetBacked'
  BY DEF IInv, LockSetBacked, TypeOK, SessionOwned, HeldByPlace, Holds, IsExclusive, Keys,
         Leave, Goto, lockTable
<1> QED  BY <1>1, <1>2, <1>3, <1>4, <1>5, <1>6, <1>7 DEF IInv

\* Releasing the gate or the turnstile keeps the invariant.
LEMMA ReleaseKeeps == ASSUME IInv, NEW p \in Procs, Release(p) PROVE IInv'
<1> USE RolesAssumption, SessionsAssumption, RegionsAssumption, BoundsAssumption
<1>a. conn[p] \in Sessions /\ p \in Procs
  BY DEF IInv, SessionOwned, TypeOK, Release
<1>b. KeyOf(p) \in Keys /\ IsExclusive(p) \in BOOLEAN
  BY DEF KeyOf, Keys, IsExclusive
<1>c. /\ TableStep(conn[p])
      /\ Shrinks(conn[p])
  <2>1. CASE KeyOf(p) \notin held[p]
    <3>1. shared' = shared /\ exclusive' = exclusive  BY <2>1 DEF Release, lockTable
    <3>2. \A k \in Keys : shared[conn[p]][k] \in Nat /\ exclusive[conn[p]][k] \in Nat
      BY <1>a DEF IInv, TypeOK
    <3> QED  BY <3>1, <3>2 DEF TableStep, Shrinks, IInv, TypeOK
  <2>2. CASE KeyOf(p) \in held[p] /\ (conn[p] \in broken \/ ~Holds(conn[p], KeyOf(p), IsExclusive(p)))
    BY <2>2, <1>a, DropEffect DEF Release, Invalidate, IInv
  <2>3. CASE KeyOf(p) \in held[p] /\ ~(conn[p] \in broken \/ ~Holds(conn[p], KeyOf(p), IsExclusive(p)))
    BY <2>3, <1>a, <1>b, UnlockEffect DEF Release, IInv
  <2> QED  BY <2>1, <2>2, <2>3
<1>d. /\ conn' = conn /\ held' = [held EXCEPT ![p] = @ \ {KeyOf(p)}]
      /\ pc' = [pc EXCEPT ![p] = AfterRelease(p)]
      /\ held[p] \cap Regions = {}
  BY DEF IInv, HeldByPlace, Release, Goto
<1>1. TypeOK'
  <2>1. pc' \in [Procs -> PCs] /\ held' \in [Procs -> SUBSET Keys]
    BY <1>d DEF IInv, TypeOK, AfterRelease, PCs
  <2> QED  BY <1>c, <2>1 DEF IInv, TypeOK, Release, Invalidate, TableStep
<1>2. SessionOwned'
  BY DEF IInv, SessionOwned, TypeOK, Release, KeyOf, AfterRelease, Invalidate, DropSession,
         NoLocks, Unlock, Holds, IsExclusive, Goto, lockTable
<1>3. TableSound'
  BY <1>a, <1>c, TableShrinks DEF IInv
<1>4. LossKnown'
  BY DEF IInv, LossKnown, TypeOK, SessionOwned, Asking, Release, KeyOf, AfterRelease,
         Invalidate, DropSession, NoLocks, Unlock, Holds, IsExclusive, Goto, lockTable
<1>5. HeldByPlace'
  BY DEF IInv, HeldByPlace, TypeOK, SessionOwned, TakesAdmission, Keys, Release, KeyOf,
         AfterRelease, Invalidate, DropSession, NoLocks, Unlock, Holds, IsExclusive, Goto,
         lockTable
<1>6. LocksAccounted'
  <2>1. OthersSame(p)
    BY <1>d DEF IInv, TypeOK, OthersSame
  <2>2. ASSUME NEW k \in Keys \ {"admission"}
        PROVE  shared'[conn[p]][k] + exclusive'[conn[p]][k] = 0
    <3>1. /\ shared'[conn[p]][k] <= shared[conn[p]][k] /\ exclusive'[conn[p]][k] <= exclusive[conn[p]][k]
          /\ shared'[conn[p]][k] \in Nat /\ exclusive'[conn[p]][k] \in Nat
      BY <1>a, <1>c DEF Shrinks, TableStep
    <3>2. /\ shared[conn[p]][k] \in Nat /\ exclusive[conn[p]][k] \in Nat
          /\ shared[conn[p]][k] + exclusive[conn[p]][k] <= 1
          /\ shared[conn[p]][k] + exclusive[conn[p]][k] > 0 => k \in held[p]
      BY <1>a, OwnBefore DEF Release
    <3>3. CASE k \notin held[p]
      BY <3>1, <3>2, <3>3
    <3>4. CASE k \in held[p]
      <4>1. k = "gate" /\ pc[p] = "relGate" /\ KeyOf(p) = k
        BY <3>4, <1>d DEF Keys, IInv, HeldByPlace, Release, KeyOf
      <4>2. CASE conn[p] \in broken \/ ~Holds(conn[p], k, IsExclusive(p))
        BY <4>1, <4>2, <3>4, <1>a, DropEffect DEF Release, Invalidate, IInv
      <4>3. CASE ~(conn[p] \in broken \/ ~Holds(conn[p], k, IsExclusive(p)))
        <5>1. Unlock(conn[p], k, IsExclusive(p)) /\ Holds(conn[p], k, IsExclusive(p))
          BY <4>1, <4>3, <3>4 DEF Release
        <5>2. /\ shared'[conn[p]][k] = IF ~IsExclusive(p) THEN shared[conn[p]][k] - 1 ELSE shared[conn[p]][k]
              /\ exclusive'[conn[p]][k] = IF IsExclusive(p) THEN exclusive[conn[p]][k] - 1 ELSE exclusive[conn[p]][k]
          BY <5>1, <1>a, <1>b, UnlockEffect DEF IInv
        <5> QED  BY <5>1, <5>2, <3>1, <3>2 DEF Holds
      <4> QED  BY <4>2, <4>3
    <3> QED  BY <3>3, <3>4
  <2> QED  BY <1>a, <1>c, <2>1, <2>2, OwnAccounted
<1>7. LockSetBacked'
  BY DEF IInv, LockSetBacked, TypeOK, SessionOwned, HeldByPlace, Holds, IsExclusive, Keys,
         Release, KeyOf, AfterRelease, Invalidate, DropSession, NoLocks, Unlock, Goto,
         lockTable
<1> QED  BY <1>1, <1>2, <1>3, <1>4, <1>5, <1>6, <1>7 DEF IInv

\* Releasing the region locks keeps the invariant.
LEMMA ReleaseRegionsKeeps == ASSUME IInv, NEW p \in Procs, ReleaseRegions(p) PROVE IInv'
<1> USE RolesAssumption, SessionsAssumption, RegionsAssumption, BoundsAssumption
<1>a. conn[p] \in Sessions /\ p \in Procs
  BY DEF IInv, SessionOwned, TypeOK, ReleaseRegions
<1>b. RegionsOf[p] \subseteq Keys /\ \A r \in Caught(p) : exclusive[conn[p]][r] > 0
  BY DEF Caught, Keys
<1>c. /\ TableStep(conn[p])
      /\ Shrinks(conn[p])
      /\ \A r \in RegionsOf[p] : exclusive'[conn[p]][r] = 0 /\ shared'[conn[p]][r] = 0
  <2>1. CASE conn[p] \in broken \/ Caught(p) # RegionsOf[p]
    BY <2>1, <1>a, <1>b, DropEffect DEF IInv, ReleaseRegions, Invalidate
  <2>2. CASE ~(conn[p] \in broken \/ Caught(p) # RegionsOf[p])
    <3>1. /\ TableStep(conn[p])
          /\ Shrinks(conn[p])
          /\ \A j \in Keys : exclusive'[conn[p]][j] =
                IF j \in RegionsOf[p] THEN exclusive[conn[p]][j] - 1 ELSE exclusive[conn[p]][j]
      BY <2>2, <1>a, <1>b, BatchUnlockEffect DEF IInv, ReleaseRegions
    <3>2. ASSUME NEW r \in RegionsOf[p]
          PROVE  exclusive'[conn[p]][r] = 0 /\ shared'[conn[p]][r] = 0
      <4>1. r \in Keys \ {"admission"}  BY DEF Keys
      <4>2. /\ exclusive[conn[p]][r] \in Nat /\ shared[conn[p]][r] \in Nat
            /\ shared[conn[p]][r] + exclusive[conn[p]][r] <= 1
        BY <1>a, <4>1, OwnBefore
      <4>3. shared'[conn[p]][r] = shared[conn[p]][r]  BY <2>2 DEF ReleaseRegions
      <4> QED  BY <3>1, <4>1, <4>2, <4>3, <2>2, <1>b
    <3> QED  BY <3>1, <3>2
  <2> QED  BY <2>1, <2>2
<1>d. /\ conn' = conn /\ held' = [held EXCEPT ![p] = @ \ RegionsOf[p]]
      /\ pc' = [pc EXCEPT ![p] = "relGate"]
      /\ Role[p] = "writer" /\ RegionsOf[p] \subseteq held[p] /\ "gate" \in held[p]
      /\ held[p] \cap Regions = RegionsOf[p]
  <2>1. Role[p] = "writer" /\ RegionsOf[p] \subseteq held[p] /\ "gate" \in held[p]
    BY DEF IInv, HeldByPlace, ReleaseRegions
  <2>2. held[p] \cap Regions # {}
    BY <2>1
  <2> QED  BY <2>1, <2>2 DEF IInv, HeldByPlace, ReleaseRegions, Goto
<1>1. TypeOK'
  <2>1. pc' \in [Procs -> PCs] /\ held' \in [Procs -> SUBSET Keys]
    BY <1>d DEF IInv, TypeOK, PCs
  <2> QED  BY <1>c, <2>1 DEF IInv, TypeOK, ReleaseRegions, Invalidate, TableStep
<1>2. SessionOwned'
  BY DEF IInv, SessionOwned, TypeOK, ReleaseRegions, Invalidate, DropSession, NoLocks, Caught,
         Goto
<1>3. TableSound'
  BY <1>a, <1>c, TableShrinks DEF IInv
<1>4. LossKnown'
  BY DEF IInv, LossKnown, TypeOK, SessionOwned, Asking, ReleaseRegions, Invalidate,
         DropSession, NoLocks, Caught, Goto
<1>5. HeldByPlace'
  <2>1. held'[p] = held[p] \ RegionsOf[p] /\ pc'[p] = "relGate"
    BY <1>d DEF IInv, TypeOK
  <2>2. held'[p] \cap Regions = {} /\ "gate" \in held'[p]
    BY <2>1, <1>d
  <2>3. \A q \in Procs \ {p} : held'[q] = held[q] /\ pc'[q] = pc[q] /\ lost'[q] = lost[q]
    BY <1>d DEF IInv, TypeOK, ReleaseRegions, Invalidate
  <2> QED  BY <2>1, <2>2, <2>3 DEF IInv, HeldByPlace, TakesAdmission
<1>6. LocksAccounted'
  <2>1. OthersSame(p)
    BY <1>d DEF IInv, TypeOK, OthersSame
  <2>2. ASSUME NEW k \in Keys \ {"admission"}
        PROVE  /\ shared'[conn[p]][k] + exclusive'[conn[p]][k] <= 1
               /\ shared'[conn[p]][k] + exclusive'[conn[p]][k] > 0 => k \in held'[p]
    <3>1. /\ shared'[conn[p]][k] <= shared[conn[p]][k] /\ exclusive'[conn[p]][k] <= exclusive[conn[p]][k]
          /\ shared'[conn[p]][k] \in Nat /\ exclusive'[conn[p]][k] \in Nat
      BY <1>a, <1>c DEF Shrinks, TableStep
    <3>2. /\ shared[conn[p]][k] \in Nat /\ exclusive[conn[p]][k] \in Nat
          /\ shared[conn[p]][k] + exclusive[conn[p]][k] <= 1
          /\ shared[conn[p]][k] + exclusive[conn[p]][k] > 0 => k \in held[p]
      BY <1>a, OwnBefore DEF ReleaseRegions
    <3>3. CASE k \notin RegionsOf[p]
      BY <3>1, <3>2, <3>3, <1>d DEF IInv, TypeOK
    <3>4. CASE k \in RegionsOf[p]
      BY <3>4, <1>c
    <3> QED  BY <3>3, <3>4
  <2>3. pc'[p] = "relGate"
    BY <1>d DEF IInv, TypeOK
  <2> QED  BY <1>a, <1>c, <1>d, <2>1, <2>2, <2>3, OwnAccounted
<1>7. LockSetBacked'
  BY DEF IInv, LockSetBacked, TypeOK, SessionOwned, HeldByPlace, Holds, IsExclusive, Keys,
         ReleaseRegions, Invalidate, DropSession, NoLocks, Caught, Goto
<1> QED  BY <1>1, <1>2, <1>3, <1>4, <1>5, <1>6, <1>7 DEF IInv

\* The reader giving back the turnstile keeps the invariant.
LEMMA DropAdmissionKeeps == ASSUME IInv, NEW p \in Procs, DropAdmission(p) PROVE IInv'
<1> USE RolesAssumption, SessionsAssumption, RegionsAssumption, BoundsAssumption
<1>a. conn[p] \in Sessions /\ p \in Procs
  BY DEF IInv, SessionOwned, TypeOK, DropAdmission
<1>b. /\ TableStep(conn[p])
      /\ Shrinks(conn[p])
  BY <1>a, DropEffect, UnlockEffect DEF IInv, DropAdmission, Invalidate, Keys
<1>1. TypeOK'
  <2>1. pc' \in [Procs -> PCs] /\ held' \in [Procs -> SUBSET Keys]
    BY DEF IInv, TypeOK, DropAdmission, Goto, PCs
  <2> QED  BY <1>b, <2>1 DEF IInv, TypeOK, DropAdmission, Invalidate, TableStep
<1>2. SessionOwned'
  BY DEF IInv, SessionOwned, TypeOK, DropAdmission, Invalidate, DropSession, NoLocks, Unlock,
         Holds, Goto, lockTable
<1>3. TableSound'
  BY <1>a, <1>b, TableShrinks DEF IInv
<1>4. LossKnown'
  BY DEF IInv, LossKnown, TypeOK, SessionOwned, Asking, DropAdmission, Invalidate,
         DropSession, NoLocks, Unlock, Holds, Goto, lockTable
<1>5. HeldByPlace'
  BY DEF IInv, HeldByPlace, TypeOK, SessionOwned, TakesAdmission, Keys, DropAdmission,
         Invalidate, DropSession, NoLocks, Unlock, Holds, Goto, lockTable
<1>6. LocksAccounted'
  <2>1. OthersSame(p) /\ conn' = conn /\ held' = [held EXCEPT ![p] = @ \ {"admission"}]
    BY DEF IInv, TypeOK, OthersSame, DropAdmission, Goto
  <2>2. ASSUME NEW k \in Keys \ {"admission"}
        PROVE  /\ shared'[conn[p]][k] + exclusive'[conn[p]][k] <= 1
               /\ shared'[conn[p]][k] + exclusive'[conn[p]][k] > 0 =>
                     pc'[p] # "close" /\ k \in held'[p]
    <3>1. /\ shared'[conn[p]][k] <= shared[conn[p]][k] /\ exclusive'[conn[p]][k] <= exclusive[conn[p]][k]
          /\ shared'[conn[p]][k] \in Nat /\ exclusive'[conn[p]][k] \in Nat
      BY <1>a, <1>b DEF Shrinks, TableStep
    <3>2. /\ shared[conn[p]][k] \in Nat /\ exclusive[conn[p]][k] \in Nat
          /\ shared[conn[p]][k] + exclusive[conn[p]][k] <= 1
          /\ shared[conn[p]][k] + exclusive[conn[p]][k] > 0 => k \in held[p]
      BY <1>a, OwnBefore DEF DropAdmission
    <3>3. held[p] \cap Regions = {}
      BY DEF IInv, HeldByPlace, DropAdmission
    <3>4. k \in held[p] => k = "gate" /\ k \in held'[p]
      BY <2>1, <3>3 DEF Keys, IInv, TypeOK
    <3>5. pc'[p] = "close" /\ "gate" \in held[p] => shared'[conn[p]][k] = 0 /\ exclusive'[conn[p]][k] = 0
      BY <1>a, DropEffect DEF DropAdmission, Invalidate, Goto, IInv, TypeOK
    <3> QED  BY <3>1, <3>2, <3>4, <3>5
  <2> QED  BY <1>a, <1>b, <2>1, <2>2, OwnAccounted
<1>7. LockSetBacked'
  BY DEF IInv, LockSetBacked, TypeOK, SessionOwned, HeldByPlace, Holds, IsExclusive, Keys,
         DropAdmission, Invalidate, DropSession, NoLocks, Unlock, Goto, lockTable
<1> QED  BY <1>1, <1>2, <1>3, <1>4, <1>5, <1>6, <1>7 DEF IInv

\* Returning the connection keeps the invariant.
LEMMA CloseKeeps == ASSUME IInv, NEW p \in Procs, Close(p) PROVE IInv'
<1> USE RolesAssumption, SessionsAssumption, RegionsAssumption, BoundsAssumption
<1>a. conn[p] \in Sessions /\ p \in Procs
  BY DEF IInv, SessionOwned, TypeOK, Close
<1>1. TypeOK'
  BY DEF IInv, TypeOK, PCs, Keys, Close, Goto, lockTable
<1>2. SessionOwned'
  BY DEF IInv, SessionOwned, TypeOK, Close, Goto, lockTable
<1>3. TableSound'
  BY DEF IInv, TableSound, TypeOK, SessionOwned, Close, Goto, lockTable
<1>4. LossKnown'
  BY DEF IInv, LossKnown, TypeOK, SessionOwned, Asking, Close, Goto, lockTable
<1>5. HeldByPlace'
  BY DEF IInv, HeldByPlace, TypeOK, SessionOwned, TakesAdmission, Keys, Close, Goto, lockTable
<1>6. LocksAccounted'
  <2>1. TableStep(conn[p]) /\ shared' = shared /\ exclusive' = exclusive
    BY DEF IInv, TypeOK, TableStep, Close, lockTable
  <2>2. OthersSame(p)
    BY DEF IInv, TypeOK, OthersSame, Close, Goto
  <2>3. ASSUME NEW k \in Keys \ {"admission"}
        PROVE  shared[conn[p]][k] + exclusive[conn[p]][k] = 0
    BY <1>a, OwnBefore DEF Close
  <2> QED  BY <1>a, <2>1, <2>2, <2>3, OwnAccounted
<1>7. LockSetBacked'
  BY DEF IInv, LockSetBacked, TypeOK, SessionOwned, HeldByPlace, Holds, IsExclusive, Keys,
         Close, Goto, lockTable
<1> QED  BY <1>1, <1>2, <1>3, <1>4, <1>5, <1>6, <1>7 DEF IInv

\* The crash of an actor keeps the invariant.
LEMMA CrashKeeps == ASSUME IInv, NEW p \in Procs, Crash(p) PROVE IInv'
<1> USE RolesAssumption, SessionsAssumption, RegionsAssumption, BoundsAssumption
<1>a. conn[p] \in Sessions /\ p \in Procs
  BY DEF IInv, SessionOwned, TypeOK, Crash
<1>b. /\ TableStep(conn[p])
      /\ Shrinks(conn[p])
      /\ \A k \in Keys : shared'[conn[p]][k] = 0 /\ exclusive'[conn[p]][k] = 0
  BY <1>a, DropEffect DEF IInv, Crash
<1>1. TypeOK'
  <2>1. pc' \in [Procs -> PCs] /\ faults' \in 0..MaxFaults
    BY DEF IInv, TypeOK, Crash, Goto, PCs
  <2> QED  BY <1>b, <2>1 DEF IInv, TypeOK, Crash, TableStep
<1>2. SessionOwned'
  BY DEF IInv, SessionOwned, TypeOK, Crash, DropSession, NoLocks, Goto
<1>3. TableSound'
  BY DEF IInv, TableSound, TypeOK, SessionOwned, Crash, DropSession, NoLocks, Goto
<1>4. LossKnown'
  BY DEF IInv, LossKnown, TypeOK, SessionOwned, Asking, Crash, DropSession, NoLocks, Goto
<1>5. HeldByPlace'
  BY DEF IInv, HeldByPlace, TypeOK, SessionOwned, TakesAdmission, Keys, Crash, DropSession,
         NoLocks, Goto
<1>6. LocksAccounted'
  <2>1. OthersSame(p)
    BY DEF IInv, TypeOK, OthersSame, Crash, Goto
  <2> QED  BY <1>a, <1>b, <2>1, OwnAccounted
<1>7. LockSetBacked'
  BY DEF IInv, LockSetBacked, TypeOK, SessionOwned, HeldByPlace, Holds, IsExclusive, Keys,
         Crash, DropSession, NoLocks, Goto
<1> QED  BY <1>1, <1>2, <1>3, <1>4, <1>5, <1>6, <1>7 DEF IInv
\* The death of a session keeps the invariant.
LEMMA SessionDeathKeeps == ASSUME IInv, NEW s \in Sessions, SessionDeath(s) PROVE IInv'
<1> USE RolesAssumption, SessionsAssumption, RegionsAssumption, BoundsAssumption
<1>a. /\ TableStep(s)
      /\ Shrinks(s)
      /\ \A k \in Keys : shared'[s][k] = 0 /\ exclusive'[s][k] = 0
  BY DropEffect DEF IInv, SessionDeath
<1>b. conn' = conn /\ pc' = pc /\ held' = held /\ broken' = broken \cup {s}
  BY DEF SessionDeath
<1>c. lost' = [p \in Procs |-> lost[p] \/ conn[p] = s]
  BY DEF SessionDeath
<1>1. TypeOK'
  <2>1. faults' \in 0..MaxFaults  BY DEF IInv, TypeOK, SessionDeath
  <2> QED  BY <1>a, <1>b, <1>c, <2>1 DEF IInv, TypeOK, SessionDeath, TableStep
<1>2. SessionOwned'
  BY <1>b DEF IInv, SessionOwned
<1>3. TableSound'
  BY <1>a, TableShrinks DEF IInv
<1>4. LossKnown'
  BY <1>b, <1>c DEF IInv, LossKnown, TypeOK, Asking
<1>5. HeldByPlace'
  BY <1>b, <1>c DEF IInv, HeldByPlace, TypeOK, TakesAdmission
<1>6. LocksAccounted'
  <2> SUFFICES ASSUME NEW t \in Sessions, NEW k \in Keys \ {"admission"}
               PROVE  /\ shared'[t][k] + exclusive'[t][k] <= 1
                      /\ shared'[t][k] + exclusive'[t][k] > 0 =>
                            \E q \in Procs :
                              /\ conn[q] = t
                              /\ pc[q] # "close"
                              /\ k \in held[q] \/ (pc[q] = "partial" /\ k \in RegionsOf[q] /\ exclusive'[t][k] > 0)
    BY <1>b DEF LocksAccounted
  <2>1. CASE t = s
    BY <1>a, <2>1
  <2>2. CASE t # s
    <3>1. shared'[t] = shared[t] /\ exclusive'[t] = exclusive[t]  BY <1>a, <2>2 DEF TableStep
    <3> QED  BY <3>1 DEF IInv, LocksAccounted
  <2> QED  BY <2>1, <2>2
<1>7. LockSetBacked'
  <2> SUFFICES ASSUME NEW q \in Procs, NEW k \in held[q], ~lost'[q]
               PROVE  Holds(conn[q], k, IsExclusive(q) \/ k \in Regions)'
    BY <1>b DEF LockSetBacked
  <2>1. ~lost[q] /\ conn[q] # s /\ conn[q] \in Sessions
    BY <1>c DEF IInv, TypeOK, SessionOwned, HeldByPlace
  <2>2. shared'[conn[q]] = shared[conn[q]] /\ exclusive'[conn[q]] = exclusive[conn[q]]
    BY <2>1, <1>a DEF TableStep
  <2>3. Holds(conn[q], k, IsExclusive(q) \/ k \in Regions)
    BY <2>1 DEF IInv, LockSetBacked
  <2> QED  BY <1>b, <2>2, <2>3 DEF Holds, IsExclusive
<1> QED  BY <1>1, <1>2, <1>3, <1>4, <1>5, <1>6, <1>7 DEF IInv

\* The initial state satisfies the invariant.
LEMMA InitEstablishes == Init => IInv
<1> USE RolesAssumption, SessionsAssumption, RegionsAssumption, BoundsAssumption
<1> SUFFICES ASSUME Init PROVE IInv
  OBVIOUS
<1>0. \A s \in Sessions : \A k \in Keys : shared[s][k] = 0 /\ exclusive[s][k] = 0
  BY DEF Init, NoLocks
<1>1. TypeOK
  BY DEF Init, TypeOK, PCs, NoLocks
<1>2. SessionOwned
  BY DEF Init, SessionOwned
<1>3. TableSound
  BY <1>0 DEF TableSound
<1>4. LossKnown
  BY DEF Init, LossKnown, Asking
<1>5. HeldByPlace
  BY DEF Init, HeldByPlace
<1>6. LocksAccounted
  BY <1>0 DEF LocksAccounted
<1>7. LockSetBacked
  BY DEF Init, LockSetBacked
<1> QED  BY <1>1, <1>2, <1>3, <1>4, <1>5, <1>6, <1>7 DEF IInv

\* Every step keeps the invariant: one case per action.
LEMMA NextKeeps == IInv /\ [Next]_vars => IInv'
<1> SUFFICES ASSUME IInv, [Next]_vars PROVE IInv'
  OBVIOUS
<1>1. CASE \E p \in Procs : Begin(p) \/ Step(p) \/ Crash(p)
  <2> PICK p \in Procs : Begin(p) \/ Step(p) \/ Crash(p)
    BY <1>1
  <2> QED
    BY BeginKeeps, AcquireKeeps, LockTimeoutKeeps, AcquireErrorKeeps, CheckKeeps,
       TryRegionsKeeps, ReleasePartialKeeps, RegionTimeoutKeeps, RegionErrorKeeps,
       LeaveKeeps, ReleaseKeeps, ReleaseRegionsKeeps, DropAdmissionKeeps, CloseKeeps,
       CrashKeeps DEF Step
<1>2. CASE \E s \in Sessions : SessionDeath(s)
  BY <1>2, SessionDeathKeeps
<1>3. CASE UNCHANGED vars
  BY <1>3 DEF vars, IInv, TypeOK, SessionOwned, TableSound, LossKnown, Asking, HeldByPlace,
              TakesAdmission, LocksAccounted, LockSetBacked, Holds, IsExclusive
<1> QED  BY <1>1, <1>2, <1>3 DEF Next

\* The invariant holds in every reachable state.
LEMMA Inductive == Spec => []IInv
BY InitEstablishes, NextKeeps, PTL DEF Spec

----------------------------------------------------------------------------
(* What the invariant gives. *)

\* Every variable of the lock protocol keeps its type.
THEOREM TypeCorrect == Spec => []TypeOK
<1>1. IInv => TypeOK  BY DEF IInv
<1> QED  BY <1>1, Inductive, PTL

\* An exclusive owner (initialization, pre-update, finalization, publication,
\* the orphan reaper) works on a store alone as long as no session is lost.
THEOREM ExclusiveOwnerAlone == Spec => []ExclusiveWorksAlone
<1>1. ASSUME IInv PROVE ExclusiveWorksAlone
  <2> SUFFICES ASSUME NEW p \in Procs, NEW q \in Procs, p # q, Working(p), Working(q),
                      IsExclusive(p)
               PROVE  FALSE
    BY DEF ExclusiveWorksAlone
  <2>1. "gate" \in held[p] /\ "gate" \in held[q] /\ ~lost[p] /\ ~lost[q]
    BY <1>1 DEF Working, IInv, HeldByPlace
  <2>2. conn[p] \in Sessions /\ conn[q] \in Sessions /\ conn[p] # conn[q]
    BY <1>1 DEF Working, IInv, SessionOwned
  <2>3. exclusive[conn[p]]["gate"] > 0
    BY <1>1, <2>1 DEF IInv, LockSetBacked, Holds
  <2>4. exclusive[conn[q]]["gate"] > 0 \/ shared[conn[q]]["gate"] > 0
    BY <1>1, <2>1 DEF IInv, LockSetBacked, Holds
  <2>5. exclusive[conn[q]]["gate"] = 0 /\ shared[conn[q]]["gate"] = 0
    BY <1>1, <2>2, <2>3 DEF IInv, TableSound, Keys
  <2> QED  BY <2>4, <2>5
<1> QED  BY <1>1, Inductive, PTL

\* Two region writers, of one wave or of two, never write one physical region
\* at the same time as long as no session is lost.
THEOREM RegionWritersDisjoint == Spec => []RegionsDisjoint
<1>1. ASSUME IInv PROVE RegionsDisjoint
  <2> SUFFICES ASSUME NEW p \in Procs, NEW q \in Procs, p # q,
                      Role[p] = "writer", Role[q] = "writer", Working(p), Working(q),
                      NEW r \in RegionsOf[p] \cap RegionsOf[q]
               PROVE  FALSE
    BY DEF RegionsDisjoint
  <2>1. r \in held[p] /\ r \in held[q] /\ ~lost[p] /\ ~lost[q]
    BY <1>1 DEF Working, IInv, HeldByPlace
  <2>2. conn[p] \in Sessions /\ conn[q] \in Sessions /\ conn[p] # conn[q]
    BY <1>1 DEF Working, IInv, SessionOwned
  <2>3. r \in Regions /\ r \in Keys
    BY RegionsAssumption DEF Keys
  <2>4. exclusive[conn[p]][r] > 0 /\ exclusive[conn[q]][r] > 0
    BY <1>1, <2>1, <2>3 DEF IInv, LockSetBacked, Holds
  <2> QED  BY <1>1, <2>2, <2>3, <2>4 DEF IInv, TableSound
<1> QED  BY <1>1, Inductive, PTL

\* A connection in the pool owns neither the gate nor a region lock, whatever
\* error path its last user took.
THEOREM GateNeverPooled == Spec => []PoolKeepsNoGate
<1>1. ASSUME IInv PROVE PoolKeepsNoGate
  <2> SUFFICES ASSUME NEW s \in Pooled, NEW k \in Keys \ {"admission"}
               PROVE  shared[s][k] = 0 /\ exclusive[s][k] = 0
    BY DEF PoolKeepsNoGate
  <2>1. shared[s][k] \in Nat /\ exclusive[s][k] \in Nat
    BY <1>1 DEF IInv, TypeOK, Pooled
  <2>2. ~(shared[s][k] + exclusive[s][k] > 0)
    BY <1>1 DEF IInv, LocksAccounted, Pooled
  <2> QED  BY <2>1, <2>2
<1> QED  BY <1>1, Inductive, PTL

\* A coordinator's record of its locks is true while its session lives.
THEOREM LockSetTruthful == Spec => []LockSetBacked
<1>1. IInv => LockSetBacked  BY DEF IInv
<1> QED  BY <1>1, Inductive, PTL

\* No writer and no reader overtakes an exclusive owner that holds the turnstile.
THEOREM TurnstileKeepsOrder == Spec => TurnstileClosed
<1>1. ASSUME IInv, [Next]_vars,
             NEW p \in Procs, NEW q \in Procs,
             pc[q] = "gate", Role[q] = "wave", ~lost[q], Role[p] \in {"writer", "reader"},
             pc[p] = "gate", "gate" \notin held[p], "gate" \in held'[p]
      PROVE  FALSE
  <2>1. Acquire(p)
    BY <1>1 DEF IInv, TypeOK, Next, Step, vars, Begin, Acquire, LockTimeout, AcquireError, Check,
        TryRegions, ReleasePartial, RegionTimeout, RegionError, Leave, Release,
        ReleaseRegions, DropAdmission, Close, Crash, SessionDeath, Asking, Goto
  <2>2. "admission" \in held[p] /\ "admission" \in held[q] /\ p # q
    BY <1>1 DEF IInv, HeldByPlace, TakesAdmission
  <2>3. ~lost[p]
    BY <1>1, <2>1 DEF IInv, LossKnown, Acquire
  <2>4. conn[p] \in Sessions /\ conn[q] \in Sessions /\ conn[p] # conn[q]
    BY <1>1, <2>2 DEF IInv, SessionOwned
  <2>5. "admission" \notin Regions
    BY RegionsAssumption
  <2>6. shared[conn[p]]["admission"] > 0 /\ exclusive[conn[q]]["admission"] > 0
    BY <1>1, <2>2, <2>3, <2>5 DEF IInv, LockSetBacked, Holds, IsExclusive
  <2>7. shared[conn[p]]["admission"] = 0
    BY <1>1, <2>4, <2>6 DEF IInv, TableSound, Keys
  <2> QED  BY <2>6, <2>7
<1>2. IInv /\ [Next]_vars =>
        [\A p, q \in Procs :
            /\ pc[q] = "gate" /\ Role[q] = "wave" /\ ~lost[q]
            /\ Role[p] \in {"writer", "reader"}
            => ~(pc[p] = "gate" /\ "gate" \notin held[p] /\ "gate" \in held'[p])]_vars
  BY <1>1
<1> QED  BY <1>2, Inductive, PTL DEF Spec, TurnstileClosed

=============================================================================
