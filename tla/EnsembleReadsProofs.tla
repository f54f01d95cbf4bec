------------------------- MODULE EnsembleReadsProofs -------------------------
(***************************************************************************)
(* Proofs about EnsembleReads: an answer that passed the last check is     *)
(* made of all the members it was to be made of, and what nothing          *)
(* interfered with is complete.                                            *)
(***************************************************************************)
EXTENDS EnsembleReads, FiniteSetTheorems, WellFoundedInduction, TLAPS

Single == {"probability", "statistics"}
Pins == {{}, {Min(Runs)}}
Verdicts == {"answered", "null", "not found"}
Places == {"idle", "resolve", "open", "read", "judge", "manifest", "members", "leads", "done"}
SeriesRecords(S) ==
    [pc : {"leads"}, kind : {"series"}, run : Runs, answered : SUBSET (Leads \X Verdicts),
     available : [S -> SUBSET Members], todo : SUBSET S, finite : SUBSET Members, reading : BOOLEAN]

\* The first run is complete, so that of every lead that is there all members
\* have a row or are rightly taken to have one; of the others there is nothing.
World ==
    /\ shard \in [Shards -> {"absent", "live", "fenced", "gone"}]
    /\ published \in [Runs -> SUBSET Leads] /\ hidden \in SUBSET Runs
    /\ begin \in Nat /\ troubles \in 0..MaxTroubles /\ calm \in BOOLEAN
    /\ published[Min(Runs)] = Leads
    /\ \A l \in Leads, m \in Weak : shard[<<Min(Runs), l, m>>] # "absent"
    /\ \A r \in Runs, l \in Leads, m \in Weak : l \notin published[r] => shard[<<r, l, m>>] = "absent"

\* What the request a knows, at each of its places.
OfOneLead(a) == a.kind \in Single /\ a.lead \in Leads /\ a.pin \in Pins
Known(a) ==
    /\ a.pc \in Places
    /\ a.pc = "idle" => a = NoAsk
    /\ a.pc = "resolve" => OfOneLead(a)
    /\ a.pc \in {"resolve", "open"} => a.todo \in SUBSET Runs /\ a.todo # {}
    /\ a.pc \in {"open", "read", "judge"} => OfOneLead(a) /\ a.run \in Runs /\ a.available \in SUBSET Members
    /\ a.pc \in {"manifest", "members"} => a.kind = "series" /\ a.run \in Runs
    /\ a.pc = "members" => a.leads \in SUBSET Leads
    /\ a.pc = "leads" => \E S \in SUBSET Leads : a \in SeriesRecords(S)
    /\ a.pc = "done" => IF a.kind = "series" THEN a.run \in Runs ELSE OfOneLead(a)

\* No member falls out unnoticed: those a request goes by were there, and one
\* that was not read as a number is fenced by now.
Accounted(r, l, available, finite) == finite \subseteq available /\ available \ finite \subseteq Fenced(r, l)
MembersKept(a) ==
    /\ a.pc \in {"open", "read", "judge"} => a.available \subseteq There(a.run, a.lead)
    /\ a.pc = "judge" => Accounted(a.run, a.lead, a.available, a.finite)
    /\ a.pc = "leads" =>
         /\ \A l \in DOMAIN a.available : a.available[l] \subseteq There(a.run, l)
         /\ ~a.reading => /\ a.todo # {}
                          /\ Accounted(a.run, Min(a.todo), a.available[Min(a.todo)], a.finite)

\* The runs that serve a lead, the newest of them, and what is left of a lead.
Eligible(l, pin) == {r \in Visible : Serves(r, l) /\ (pin = {} \/ r \in pin)}
IsBest(r, l, pin) == r \in Eligible(l, pin) /\ \A g \in Eligible(l, pin) : g <= r
Left(r, l) == There(r, l) \ Fenced(r, l)

\* Undisturbed, the search has not yet passed the best run, and then stays with
\* it and with all that is left of it.
CalmLead(a) ==
    /\ a.pc \in {"resolve", "open"} =>
         /\ a.todo \subseteq Visible /\ Eligible(a.lead, a.pin) \subseteq a.todo
         /\ a.pin # {} => a.todo \subseteq a.pin
    /\ a.pc \in {"open", "read", "judge"} =>
         IsBest(a.run, a.lead, a.pin) /\ a.available = Left(a.run, a.lead)
    /\ a.pc = "judge" => a.finite = a.available
    /\ a.pc = "done" /\ a.kind # "series" =>
         \/ a.outcome = "not found" /\ Eligible(a.lead, a.pin) = {}
         \/ a.outcome = "answered" /\ IsBest(a.run, a.lead, a.pin)

\* Undisturbed, a series has answered all the leads its run serves in the window
\* but those it still has to do.
InSeries(r) == {l \in Leads : Serves(r, l) /\ InWindow(r, l)}
Answers(ls) == {<<l, "answered">> : l \in ls}
CalmSeries(a) ==
    /\ a.pc \in {"manifest", "members", "leads"} => a.run \in Visible
    /\ a.pc = "members" => a.leads = {l \in published[a.run] : InWindow(a.run, l)}
    /\ a.pc = "leads" =>
         /\ a.todo \subseteq InSeries(a.run) /\ a.answered = Answers(InSeries(a.run) \ a.todo)
         /\ \A l \in a.todo : a.available[l] = Left(a.run, l)
         /\ ~a.reading => a.finite = a.available[Min(a.todo)]
    /\ a.pc = "done" /\ a.kind = "series" =>
         a.outcome = "answered" /\ a.answered = Answers(InSeries(a.run))

RequestSound(a) == Known(a) /\ MembersKept(a) /\ (calm => CalmLead(a) /\ CalmSeries(a))
IInv == World /\ \A a \in {ask} : RequestSound(a)
----------------------------------------------------------------------------
(* Lemmas about the model's operators. *)

USE EnsembleReadsAssumption

LEMMA Numbers ==
    /\ Between \in Nat \ {0} /\ Expected \in Nat \ {0} /\ MaxTroubles \in Nat /\ MaxMoves \in Nat
    /\ Runs \subseteq Nat \ {0} /\ IsFiniteSet(Runs) /\ Runs # {} /\ Rowless \subseteq {Min(Runs)}
    /\ Weak \subseteq Members /\ Weak # Members
BY DEF Members

\* A nonempty set of numbers has a smallest one.
LEMMA SmallestNumber ==
    ASSUME NEW S \in SUBSET Nat, S # {}
    PROVE  Min(S) \in S /\ \A n \in S : Min(S) <= n
<1> DEFINE T == {0 .. n : n \in S}
<1>1. T \subseteq FiniteSubsetsOf(Nat) /\ T # {}
  <2>1. \A n \in S : 0 .. n \in SUBSET Nat /\ IsFiniteSet(0 .. n)
    BY FS_Interval
  <2> QED
    BY <2>1 DEF FiniteSubsetsOf
<1>2. \E x \in T : \A y \in T : ~(<<y, x>> \in StrictSubsetOrdering(Nat))
  <2> HIDE DEF T
  <2> QED
    BY <1>1, FS_StrictSubsetOrderingWellFounded, WFMin
<1>3. PICK m \in S : \A n \in S : ~(<<0 .. n, 0 .. m>> \in StrictSubsetOrdering(Nat))
  BY <1>2
<1>4. ASSUME NEW n \in S, n < m PROVE FALSE
  <2>1. 0 .. n \in SUBSET Nat /\ 0 .. m \in SUBSET Nat /\ 0 .. n \subseteq 0 .. m
    BY <1>4
  <2>2. m \in 0 .. m /\ m \notin 0 .. n
    BY <1>4
  <2>3. <<0 .. n, 0 .. m>> \in StrictSubsetOrdering(Nat)
    BY <2>1, <2>2 DEF StrictSubsetOrdering
  <2> QED
    BY <1>3, <2>3
<1>5. \E x \in S : \A n \in S : x <= n
  BY <1>4
<1> QED
  BY <1>5 DEF Min

\* A nonempty finite set of numbers has a largest one.
LEMMA LargestNumber ==
    ASSUME NEW S \in SUBSET Nat, IsFiniteSet(S), S # {}
    PROVE  Max(S) \in S /\ \A n \in S : n <= Max(S)
<1> DEFINE above(n) == {j \in S : j > n}
           T == {above(n) : n \in S}
<1>1. T \subseteq FiniteSubsetsOf(S) /\ T # {}
  <2>1. \A n \in S : above(n) \in SUBSET S /\ IsFiniteSet(above(n))
    BY FS_Subset
  <2> QED
    BY <2>1 DEF FiniteSubsetsOf
<1>2. \E x \in T : \A y \in T : ~(<<y, x>> \in StrictSubsetOrdering(S))
  <2> HIDE DEF T
  <2> QED
    BY <1>1, FS_StrictSubsetOrderingWellFounded, WFMin
<1>3. PICK m \in S : \A n \in S : ~(<<above(n), above(m)>> \in StrictSubsetOrdering(S))
  BY <1>2
<1>4. ASSUME NEW n \in S, n > m PROVE FALSE
  <2>1. \A j \in S : j \in Nat
    OBVIOUS
  <2>2. \A j \in S : j > n => j > m
    BY <1>4, <2>1
  <2>3. above(n) \in SUBSET S /\ above(m) \in SUBSET S /\ above(n) \subseteq above(m)
    BY <2>2
  <2>4. n \in above(m) /\ n \notin above(n)
    BY <1>4
  <2>5. <<above(n), above(m)>> \in StrictSubsetOrdering(S)
    <3> HIDE DEF above
    <3> QED
      BY <2>3, <2>4 DEF StrictSubsetOrdering
  <2> QED
    BY <1>3, <2>5
<1>5. \E x \in S : \A n \in S : x >= n
  BY <1>4
<1>6. Max(S) \in S /\ \A n \in S : Max(S) >= n
  BY <1>5 DEF Max
<1> QED
  BY <1>6

LEMMA FirstRun == Min(Runs) \in Runs
<1>1. Runs \in SUBSET Nat /\ Runs # {}
  BY Numbers
<1> QED
  BY <1>1, SmallestNumber

\* The newest of some of the runs is one of them.
LEMMA NewestRun ==
    ASSUME NEW S \in SUBSET Runs, S # {}
    PROVE  Max(S) \in S /\ Max(S) \in Runs /\ \A n \in S : n <= Max(S)
<1>1. S \in SUBSET Nat /\ IsFiniteSet(S)
  BY Numbers, FS_Subset
<1> QED
  BY <1>1, LargestNumber

\* The earliest of some of the leads is one of them.
LEMMA EarliestLead ==
    ASSUME NEW S \in SUBSET Leads, S # {}
    PROVE  Min(S) \in S /\ Min(S) \in Leads
<1>1. S \in SUBSET Nat
  BY DEF Leads
<1> QED
  BY <1>1, SmallestNumber

\* A failure counts one.
LEMMA Flag ==
    ASSUME NEW p \in BOOLEAN
    PROVE  Cardinality({x \in {1} : p}) = (IF p THEN 1 ELSE 0)
<1>1. CASE p
  <2>1. {x \in {1} : p} = {1}
    BY <1>1
  <2> QED
    BY <1>1, <2>1, FS_Singleton
<1>2. CASE ~p
  <2>1. {x \in {1} : p} = {}
    BY <1>2
  <2> QED
    BY <1>2, <2>1, FS_EmptySet
<1> QED
  BY <1>1, <1>2

\* Of every lead that is there the API finds the members.
LEMMA AssumedAreThere ==
    ASSUME World, NEW r \in Runs, NEW l \in Leads
    PROVE  Assumed(r, l) = There(r, l)
<1>1. CASE r \in Rowless
  <2>1. r = Min(Runs) /\ Rows(r, l) = {}
    BY <1>1, Numbers DEF Rows
  <2>2. l \in published[r] /\ Ready(r)
    BY <2>1 DEF World, Ready
  <2>3. There(r, l) = Members
    BY <2>1, <2>2, Numbers DEF World, There
  <2> QED
    BY <2>1, <2>2, <2>3 DEF Assumed
<1>2. CASE r \notin Rowless
  <2>1. Rows(r, l) = There(r, l)
    BY <1>2 DEF Rows
  <2>2. There(r, l) = {} => l \notin published[r]
    <3>1. PICK m \in Members : m \notin Weak
      BY Numbers
    <3>2. l \in published[r] => m \in There(r, l)
      BY <3>1 DEF There
    <3> QED
      BY <3>2
  <2> QED
    BY <2>1, <2>2 DEF Assumed
<1> QED
  BY <1>1, <1>2

LEMMA FoundMembers ==
    ASSUME World, NEW r \in Runs, NEW l \in Leads, NEW fails \in BOOLEAN
    PROVE  /\ Available(r, l, fails) \subseteq There(r, l) /\ There(r, l) \subseteq Members
           /\ ~fails => Available(r, l, fails) = Left(r, l)
BY AssumedAreThere DEF Available, Left, There

\* A run that is visible serves a lead if enough members are left of it.
LEMMA ServesByMembers ==
    ASSUME World, NEW r \in Visible, NEW l \in Leads
    PROVE  /\ Serves(r, l) => Servable(Cardinality(Left(r, l)))
           /\ Servable(Cardinality(Left(r, l))) => Serves(r, l)
<1>1. Serves(r, l) => Servable(Cardinality(Left(r, l)))
  BY DEF Serves, Left
<1>2. ASSUME Servable(Cardinality(Left(r, l))) PROVE Serves(r, l)
  <2>1. r \notin hidden
    BY DEF Visible
  <2>2. ASSUME l \notin published[r] PROVE FALSE
    <3>1. Left(r, l) = {}
      BY <2>2 DEF Left, There
    <3>2. Cardinality(Left(r, l)) = 0
      BY <3>1, FS_EmptySet
    <3>3. 0 * 100 >= Expected * 85
      BY <1>2, <3>2 DEF Servable
    <3> QED
      BY <3>3, Numbers
  <2> QED
    BY <1>2, <2>1, <2>2 DEF Serves, Left
<1> QED
  BY <1>1, <1>2
----------------------------------------------------------------------------
(* What a step beside the request changes for it. *)

\* Nothing that was there goes away, and nothing fenced comes back.
Grown == \A r \in Runs, l \in Leads : There(r, l) \subseteq There(r, l)' /\ Fenced(r, l) \subseteq Fenced(r, l)'

LEMMA MembersStayKept ==
    ASSUME NEW a, Known(a), MembersKept(a), Grown
    PROVE  MembersKept(a)'
<1>1. ASSUME a.pc \in {"open", "read", "judge"}
      PROVE  /\ a.available \subseteq There(a.run, a.lead)'
             /\ a.pc = "judge" => Accounted(a.run, a.lead, a.available, a.finite)'
  <2>1. a.run \in Runs /\ a.lead \in Leads
    BY <1>1 DEF Known, OfOneLead
  <2>2. There(a.run, a.lead) \subseteq There(a.run, a.lead)' /\ Fenced(a.run, a.lead) \subseteq Fenced(a.run, a.lead)'
    BY <2>1 DEF Grown
  <2>3. a.available \subseteq There(a.run, a.lead)
    BY <1>1 DEF MembersKept
  <2>4. a.pc = "judge" => Accounted(a.run, a.lead, a.available, a.finite)
    BY DEF MembersKept
  <2> QED
    BY <2>2, <2>3, <2>4 DEF Accounted
<1>2. ASSUME a.pc = "leads"
      PROVE  /\ \A l \in DOMAIN a.available : a.available[l] \subseteq There(a.run, l)'
             /\ ~a.reading => /\ a.todo # {}
                              /\ Accounted(a.run, Min(a.todo), a.available[Min(a.todo)], a.finite)'
  <2>1. PICK S \in SUBSET Leads : a \in SeriesRecords(S)
    BY <1>2 DEF Known
  <2>2. a.run \in Runs /\ DOMAIN a.available = S /\ a.todo \in SUBSET S
    BY <2>1 DEF SeriesRecords
  <2>3. \A l \in DOMAIN a.available : a.available[l] \subseteq There(a.run, l)
    BY <1>2 DEF MembersKept
  <2>4. \A l \in DOMAIN a.available : There(a.run, l) \subseteq There(a.run, l)'
    BY <2>2 DEF Grown
  <2>5. ASSUME ~a.reading
        PROVE  a.todo # {} /\ Accounted(a.run, Min(a.todo), a.available[Min(a.todo)], a.finite)'
    <3>1. a.todo # {} /\ Accounted(a.run, Min(a.todo), a.available[Min(a.todo)], a.finite)
      BY <1>2, <2>5 DEF MembersKept
    <3>2. Min(a.todo) \in Leads
      BY <2>2, <3>1, EarliestLead
    <3>3. Fenced(a.run, Min(a.todo)) \subseteq Fenced(a.run, Min(a.todo))'
      BY <2>2, <3>2 DEF Grown
    <3> QED
      BY <3>1, <3>3 DEF Accounted
  <2> QED
    BY <2>3, <2>4, <2>5
<1> QED
  BY <1>1, <1>2 DEF MembersKept

\* Where nothing was published, fenced, hidden or moved, everything is as before.
Unmoved ==
    /\ UNCHANGED <<published, hidden, begin>>
    /\ \A r \in Runs, l \in Leads : There(r, l)' = There(r, l) /\ Fenced(r, l)' = Fenced(r, l)

LEMMA SameView ==
    ASSUME Unmoved
    PROVE  /\ Visible' = Visible
           /\ \A r \in Runs, l \in Leads : /\ Left(r, l)' = Left(r, l)
                                           /\ Serves(r, l)' = Serves(r, l)
                                           /\ InWindow(r, l)' = InWindow(r, l)
           /\ \A r \in Runs : InSeries(r)' = InSeries(r)
           /\ \A l \in Leads, pin \in Pins : Eligible(l, pin)' = Eligible(l, pin)
<1>1. Visible' = Visible
  BY DEF Unmoved, Visible
<1>2. ASSUME NEW r \in Runs, NEW l \in Leads
      PROVE  Left(r, l)' = Left(r, l) /\ Serves(r, l)' = Serves(r, l) /\ InWindow(r, l)' = InWindow(r, l)
  <2>1. There(r, l)' = There(r, l) /\ Fenced(r, l)' = Fenced(r, l)
    BY DEF Unmoved
  <2>2. published' = published /\ hidden' = hidden /\ begin' = begin
    BY DEF Unmoved
  <2> QED
    BY <2>1, <2>2 DEF Left, Serves, InWindow
<1>3. \A r \in Runs : InSeries(r)' = InSeries(r)
  BY <1>2 DEF InSeries
<1>4. \A r \in Visible : r \in Runs
  BY DEF Visible
<1>5. \A l \in Leads, pin \in Pins : Eligible(l, pin)' = Eligible(l, pin)
  BY <1>1, <1>2, <1>4 DEF Eligible
<1> QED
  BY <1>1, <1>2, <1>3, <1>5

LEMMA CalmStays ==
    ASSUME NEW a, Known(a), Unmoved, CalmLead(a), CalmSeries(a)
    PROVE  CalmLead(a)' /\ CalmSeries(a)'
<1>1. Visible' = Visible /\ published' = published
  BY SameView DEF Unmoved
<1>2. ASSUME OfOneLead(a)
      PROVE  /\ Eligible(a.lead, a.pin)' = Eligible(a.lead, a.pin)
             /\ \A r : IsBest(r, a.lead, a.pin)' = IsBest(r, a.lead, a.pin)
  <2>1. Eligible(a.lead, a.pin)' = Eligible(a.lead, a.pin)
    BY <1>2, SameView DEF OfOneLead
  <2> QED
    BY <2>1 DEF IsBest
<1>3. CalmLead(a)'
  <2>1. ASSUME a.pc \in {"resolve", "open"}
        PROVE  /\ a.todo \subseteq Visible' /\ Eligible(a.lead, a.pin)' \subseteq a.todo
               /\ a.pin # {} => a.todo \subseteq a.pin
    BY <1>1, <1>2, <2>1 DEF CalmLead, Known
  <2>2. ASSUME a.pc \in {"open", "read", "judge"}
        PROVE  IsBest(a.run, a.lead, a.pin)' /\ a.available = Left(a.run, a.lead)'
    <3>1. OfOneLead(a) /\ a.run \in Runs
      BY <2>2 DEF Known
    <3>2. Left(a.run, a.lead)' = Left(a.run, a.lead)
      BY <3>1, SameView DEF OfOneLead
    <3> QED
      BY <1>2, <2>2, <3>1, <3>2 DEF CalmLead
  <2>3. ASSUME a.pc = "done", a.kind # "series"
        PROVE  \/ a.outcome = "not found" /\ Eligible(a.lead, a.pin)' = {}
               \/ a.outcome = "answered" /\ IsBest(a.run, a.lead, a.pin)'
    BY <1>2, <2>3 DEF CalmLead, Known
  <2>4. a.pc = "judge" => a.finite = a.available
    BY DEF CalmLead
  <2> QED
    BY <2>1, <2>2, <2>3, <2>4 DEF CalmLead
<1>4. CalmSeries(a)'
  <2>1. ASSUME a.pc = "done", a.kind = "series"
        PROVE  a.run \in Runs /\ InSeries(a.run)' = InSeries(a.run)
    <3>1. a.run \in Runs
      BY <2>1 DEF Known, SeriesRecords
    <3> QED
      BY <3>1, SameView
  <2>2. a.pc \in {"manifest", "members", "leads"} => a.run \in Visible'
    BY <1>1 DEF CalmSeries
  <2>3. ASSUME a.pc = "members"
        PROVE  a.leads = {l \in published'[a.run] : InWindow(a.run, l)'}
    <3>1. \A l : InWindow(a.run, l)' = InWindow(a.run, l)
      BY DEF InWindow, Unmoved
    <3> QED
      BY <1>1, <2>3, <3>1 DEF CalmSeries
  <2>4. ASSUME a.pc = "leads"
        PROVE  /\ a.todo \subseteq InSeries(a.run)' /\ a.answered = Answers(InSeries(a.run) \ a.todo)'
               /\ \A l \in a.todo : a.available[l] = Left(a.run, l)'
               /\ ~a.reading => a.finite = a.available[Min(a.todo)]
    <3>1. \A l \in a.todo : l \in Leads
      BY <2>4 DEF Known, SeriesRecords
    <3>2. a.run \in Runs /\ InSeries(a.run)' = InSeries(a.run)
      <4>1. a.run \in Runs
        BY <2>4 DEF Known, SeriesRecords
      <4> QED
        BY <4>1, SameView
    <3>3. ASSUME NEW l \in a.todo PROVE a.available[l] = Left(a.run, l)'
      <4>1. Left(a.run, l)' = Left(a.run, l)
        BY <3>1, <3>2, SameView
      <4> QED
        BY <2>4, <4>1 DEF CalmSeries
    <3>4. a.answered = Answers(InSeries(a.run) \ a.todo)'
      <4>1. a.answered = Answers(InSeries(a.run) \ a.todo)
        BY <2>4 DEF CalmSeries
      <4> QED
        BY <3>2, <4>1 DEF Answers
    <3>5. a.todo \subseteq InSeries(a.run)'
      <4>1. a.todo \subseteq InSeries(a.run)
        BY <2>4 DEF CalmSeries
      <4> QED
        BY <3>2, <4>1
    <3>6. ~a.reading => a.finite = a.available[Min(a.todo)]
      BY <2>4 DEF CalmSeries
    <3> QED
      BY <3>3, <3>4, <3>5, <3>6
  <2>5. ASSUME a.pc = "done", a.kind = "series"
        PROVE  a.outcome = "answered" /\ a.answered = Answers(InSeries(a.run))'
    <3>1. Answers(InSeries(a.run))' = Answers(InSeries(a.run))
      BY <2>1, <2>5 DEF Answers
    <3> QED
      BY <2>5, <3>1 DEF CalmSeries
  <2> QED
    BY <2>2, <2>3, <2>4, <2>5 DEF CalmSeries
<1> QED
  BY <1>3, <1>4

\* Of a request that a step leaves as it is.
LEMMA RequestKept ==
    ASSUME NEW a, RequestSound(a), Grown, (calm' => calm /\ Unmoved)
    PROVE  RequestSound(a)'
<1>1. Known(a)' = Known(a)
  BY DEF Known, OfOneLead
<1>2. MembersKept(a)'
  BY MembersStayKept DEF RequestSound
<1>3. calm' => CalmLead(a)' /\ CalmSeries(a)'
  BY CalmStays DEF RequestSound
<1> QED
  BY <1>1, <1>2, <1>3 DEF RequestSound
----------------------------------------------------------------------------
(* The steps beside the request. *)

Beside == World' /\ Grown /\ ask' = ask /\ (calm' => calm /\ Unmoved)

LEMMA BesideKeeps ==
    ASSUME IInv, Beside
    PROVE  IInv'
<1>1. \A a \in {ask} : RequestSound(a)'
  BY RequestKept DEF IInv, Beside
<1> QED
  BY <1>1 DEF IInv, Beside

\* Only the shards change, each in its order.
LEMMA ShardsMove ==
    ASSUME World, NEW s \in Shards, NEW to \in {"fenced", "gone"},
           shard[s] \in {"live", "fenced"}, shard' = [shard EXCEPT ![s] = to],
           UNCHANGED <<published, hidden, begin, troubles>>, calm' \in BOOLEAN
    PROVE  /\ World' /\ Grown
           /\ shard[s] = "fenced" => Unmoved
<1>1. \A t \in Shards : shard'[t] = (IF t = s THEN to ELSE shard[t])
  BY DEF World
<1>2. \A r \in Runs, l \in Leads, m \in Weak : <<r, l, m>> \in Shards
  BY DEF Shards
<1>3. \A t \in Shards : /\ shard[t] # "absent" <=> shard'[t] # "absent"
                        /\ shard[t] \in {"fenced", "gone"} => shard'[t] \in {"fenced", "gone"}
                        /\ shard[s] = "fenced" /\ shard'[t] \in {"fenced", "gone"} => shard[t] \in {"fenced", "gone"}
  BY <1>1
<1>4. ASSUME NEW r \in Runs, NEW l \in Leads
      PROVE  /\ There(r, l)' = There(r, l) /\ Fenced(r, l) \subseteq Fenced(r, l)'
             /\ shard[s] = "fenced" => Fenced(r, l)' = Fenced(r, l)
  <2>1. There(r, l)' = There(r, l)
    BY <1>2, <1>3 DEF There
  <2>2. Fenced(r, l) \subseteq Fenced(r, l)'
    BY <1>2, <1>3 DEF Fenced
  <2>3. shard[s] = "fenced" => Fenced(r, l)' = Fenced(r, l)
    BY <1>2, <1>3 DEF Fenced
  <2> QED
    BY <2>1, <2>2, <2>3
<1>5. World'
  <2>1. shard' \in [Shards -> {"absent", "live", "fenced", "gone"}]
    BY DEF World
  <2>2. \A l \in Leads, m \in Weak : shard'[<<Min(Runs), l, m>>] # "absent"
    BY <1>2, <1>3, FirstRun DEF World
  <2>3. \A r \in Runs, l \in Leads, m \in Weak : l \notin published'[r] => shard'[<<r, l, m>>] = "absent"
    BY <1>2, <1>3 DEF World
  <2> QED
    BY <2>1, <2>2, <2>3 DEF World
<1>6. Grown
  BY <1>4 DEF Grown
<1>7. shard[s] = "fenced" => Unmoved
  BY <1>4 DEF Unmoved
<1> QED
  BY <1>5, <1>6, <1>7

LEMMA ClaimBeside ==
    ASSUME IInv, NEW s \in Shards, Claim(s)
    PROVE  Beside
<1>1. shard[s] = "live" /\ shard' = [shard EXCEPT ![s] = "fenced"] /\ calm' = FALSE
      /\ UNCHANGED <<published, hidden, begin, ask, troubles>>
  BY DEF Claim
<1>2. World' /\ Grown
  BY <1>1, ShardsMove DEF IInv
<1> QED
  BY <1>1, <1>2 DEF Beside

LEMMA DeleteBeside ==
    ASSUME IInv, NEW s \in Shards, Delete(s)
    PROVE  Beside
<1>1. shard[s] = "fenced" /\ shard' = [shard EXCEPT ![s] = "gone"]
      /\ UNCHANGED <<published, hidden, begin, ask, troubles, calm>>
  BY DEF Delete
<1>2. World' /\ Grown /\ Unmoved
  <2>1. calm' \in BOOLEAN
    BY <1>1 DEF IInv, World
  <2> QED
    BY <1>1, <2>1, ShardsMove DEF IInv
<1> QED
  BY <1>1, <1>2 DEF Beside

LEMMA PublishBeside ==
    ASSUME IInv, NEW r \in Runs, NEW W \in SUBSET Weak, Publish(r, W)
    PROVE  Beside
<1> DEFINE l == Min(Leads \ published[r])
<1>1. l \in Leads /\ l \notin published[r]
  <2>1. Leads \ published[r] \in SUBSET Leads /\ Leads \ published[r] # {}
    BY DEF Publish, Ready, IInv, World
  <2> QED
    BY <2>1, EarliestLead
<1>2. /\ published' = [published EXCEPT ![r] = @ \cup {l}]
      /\ shard' = [s \in Shards |-> IF s[1] = r /\ s[2] = l /\ s[3] \notin W THEN "live" ELSE shard[s]]
      /\ calm' = FALSE /\ UNCHANGED <<hidden, begin, ask, troubles>>
  BY DEF Publish
<1> HIDE DEF l
<1>3. World
  BY DEF IInv
<1>4. ASSUME NEW x \in Runs, NEW k \in Leads, NEW m \in Weak
      PROVE  /\ shard'[<<x, k, m>>] = (IF x = r /\ k = l /\ m \notin W THEN "live" ELSE shard[<<x, k, m>>])
             /\ <<x, k, m>> \in Shards
             /\ published'[x] = (IF x = r THEN published[x] \cup {l} ELSE published[x])
             /\ x = r /\ k = l => shard[<<x, k, m>>] = "absent"
  <2>1. <<x, k, m>> \in Shards
    BY DEF Shards
  <2>2. shard'[<<x, k, m>>] = (IF x = r /\ k = l /\ m \notin W THEN "live" ELSE shard[<<x, k, m>>])
    BY <1>2, <2>1
  <2>3. published'[x] = (IF x = r THEN published[x] \cup {l} ELSE published[x])
    BY <1>2, <1>3 DEF World
  <2>4. x = r /\ k = l => shard[<<x, k, m>>] = "absent"
    BY <1>1, <1>3 DEF World
  <2> QED
    BY <2>1, <2>2, <2>3, <2>4
<1>5. \A x \in Runs : published[x] \subseteq published'[x]
  BY <1>2, <1>3 DEF World
<1>6. Grown
  <2>1. ASSUME NEW x \in Runs, NEW k \in Leads
        PROVE  There(x, k) \subseteq There(x, k)'
    BY <1>4, <1>5 DEF There
  <2>2. ASSUME NEW x \in Runs, NEW k \in Leads
        PROVE  Fenced(x, k) \subseteq Fenced(x, k)'
    <3>1. \A m \in Weak : shard[<<x, k, m>>] \in {"fenced", "gone"} => shard'[<<x, k, m>>] = shard[<<x, k, m>>]
      BY <1>4
    <3> QED
      BY <3>1 DEF Fenced
  <2> QED
    BY <2>1, <2>2 DEF Grown
<1>7. World'
  <2>1. shard' \in [Shards -> {"absent", "live", "fenced", "gone"}]
    BY <1>2, <1>3 DEF World
  <2>2. published' \in [Runs -> SUBSET Leads]
    BY <1>1, <1>2, <1>3 DEF World
  <2>3. published'[Min(Runs)] = Leads
    BY <1>3, <1>5, <2>2, FirstRun DEF World
  <2>4. ASSUME NEW k \in Leads, NEW m \in Weak PROVE shard'[<<Min(Runs), k, m>>] # "absent"
    <3>1. shard[<<Min(Runs), k, m>>] # "absent"
      BY <1>3 DEF World
    <3> QED
      BY <1>4, <3>1, FirstRun
  <2>5. ASSUME NEW x \in Runs, NEW k \in Leads, NEW m \in Weak, k \notin published'[x]
        PROVE  shard'[<<x, k, m>>] = "absent"
    <3>1. k \notin published[x] /\ ~(x = r /\ k = l)
      BY <1>4, <2>5
    <3>2. shard[<<x, k, m>>] = "absent"
      BY <1>3, <3>1 DEF World
    <3> QED
      BY <1>4, <3>1, <3>2
  <2> QED
    BY <1>2, <1>3, <2>1, <2>2, <2>3, <2>4, <2>5 DEF World
<1> QED
  BY <1>2, <1>6, <1>7 DEF Beside

LEMMA HideBeside ==
    ASSUME IInv, NEW r \in Runs, Hide(r)
    PROVE  Beside
<1>1. /\ hidden' = hidden \cup {r} /\ calm' = FALSE
      /\ UNCHANGED <<shard, published, begin, ask, troubles>>
  BY DEF Hide
<1>2. World'
  BY <1>1 DEF IInv, World
<1>3. Grown
  BY <1>1 DEF Grown, There, Fenced
<1> QED
  BY <1>1, <1>2, <1>3 DEF Beside

LEMMA PassBeside ==
    ASSUME IInv, Pass
    PROVE  Beside
<1>1. begin' = begin + 3 /\ calm' = FALSE /\ UNCHANGED <<shard, published, hidden, ask, troubles>>
  BY DEF Pass
<1>2. World'
  <2>1. begin \in Nat
    BY DEF IInv, World
  <2>2. begin' \in Nat
    BY <1>1, <2>1
  <2> QED
    BY <1>1, <2>2 DEF IInv, World
<1>3. Grown
  BY <1>1 DEF Grown, There, Fenced
<1> QED
  BY <1>1, <1>2, <1>3 DEF Beside
----------------------------------------------------------------------------
(* The places a request can get to, and what must be known there. *)

Good(e) == Known(e) /\ MembersKept(e) /\ (calm' => CalmLead(e) /\ CalmSeries(e))
Moved == UNCHANGED served /\ troubles' \in 0..MaxTroubles /\ calm' \in BOOLEAN /\ \E e : ask' = e /\ Good(e)

LEMMA MovedKeeps ==
    ASSUME IInv, Moved
    PROVE  IInv'
<1>1. UNCHANGED <<shard, published, hidden, begin>>
  BY DEF Moved, served
<1>2. PICK e : ask' = e /\ Good(e)
  BY DEF Moved
<1>3. Grown /\ Unmoved
  BY <1>1 DEF Grown, Unmoved, There, Fenced
<1>4. Known(e)' = Known(e)
  BY DEF Known, OfOneLead
<1>5. MembersKept(e)'
  BY <1>2, <1>3, MembersStayKept DEF Good
<1>6. calm' => CalmLead(e)' /\ CalmSeries(e)'
  BY <1>2, <1>3, CalmStays DEF Good
<1>7. RequestSound(e)'
  BY <1>2, <1>4, <1>5, <1>6 DEF Good, RequestSound
<1>8. World'
  BY <1>1 DEF IInv, World, Moved
<1>9. \A a \in {ask'} : RequestSound(a)'
  BY <1>2, <1>7
<1> QED
  BY <1>8, <1>9 DEF IInv

LEMMA IdleGood == Good(NoAsk)
BY DEF NoAsk, Good, Known, Places, MembersKept, CalmLead, CalmSeries

LEMMA ResolveGood ==
    ASSUME NEW kind \in Single, NEW lead \in Leads, NEW pin \in Pins, NEW todo \in SUBSET Runs, todo # {},
           calm' => /\ todo \subseteq Visible /\ Eligible(lead, pin) \subseteq todo
                    /\ pin # {} => todo \subseteq pin
    PROVE  Good([pc |-> "resolve", kind |-> kind, lead |-> lead, pin |-> pin, todo |-> todo])
BY DEF Good, Known, OfOneLead, Places, MembersKept, CalmLead, CalmSeries

LEMMA OpenGood ==
    ASSUME NEW kind \in Single, NEW lead \in Leads, NEW pin \in Pins, NEW todo \in SUBSET Runs, todo # {},
           NEW run \in Runs, NEW available \in SUBSET Members, available \subseteq There(run, lead),
           calm' => /\ todo \subseteq Visible /\ Eligible(lead, pin) \subseteq todo
                    /\ pin # {} => todo \subseteq pin
                    /\ IsBest(run, lead, pin) /\ available = Left(run, lead)
    PROVE  Good([pc |-> "open", kind |-> kind, lead |-> lead, pin |-> pin,
                 todo |-> todo, run |-> run, available |-> available])
BY DEF Good, Known, OfOneLead, Places, MembersKept, CalmLead, CalmSeries

LEMMA ReadGood ==
    ASSUME NEW kind \in Single, NEW lead \in Leads, NEW pin \in Pins,
           NEW run \in Runs, NEW available \in SUBSET Members, available \subseteq There(run, lead),
           calm' => IsBest(run, lead, pin) /\ available = Left(run, lead)
    PROVE  Good([pc |-> "read", kind |-> kind, lead |-> lead, pin |-> pin, run |-> run, available |-> available])
BY DEF Good, Known, OfOneLead, Places, MembersKept, CalmLead, CalmSeries

LEMMA JudgeGood ==
    ASSUME NEW kind \in Single, NEW lead \in Leads, NEW pin \in Pins,
           NEW run \in Runs, NEW available \in SUBSET Members, available \subseteq There(run, lead),
           NEW finite, Accounted(run, lead, available, finite),
           calm' => IsBest(run, lead, pin) /\ available = Left(run, lead) /\ finite = available
    PROVE  Good([pc |-> "judge", kind |-> kind, lead |-> lead, pin |-> pin, run |-> run, available |-> available,
                 finite |-> finite])
BY DEF Good, Known, OfOneLead, Places, MembersKept, CalmLead, CalmSeries

LEMMA NothingFoundGood ==
    ASSUME NEW kind \in Single, NEW lead \in Leads, NEW pin \in Pins, NEW outcome,
           calm' => outcome = "not found" /\ Eligible(lead, pin) = {}
    PROVE  Good([pc |-> "done", kind |-> kind, lead |-> lead, pin |-> pin, outcome |-> outcome])
BY DEF Good, Known, OfOneLead, Single, Places, MembersKept, CalmLead, CalmSeries

LEMMA JudgedGood ==
    ASSUME NEW kind \in Single, NEW lead \in Leads, NEW pin \in Pins, NEW run \in Runs, NEW outcome,
           calm' => outcome = "answered" /\ IsBest(run, lead, pin)
    PROVE  Good([pc |-> "done", kind |-> kind, lead |-> lead, pin |-> pin, run |-> run, outcome |-> outcome])
BY DEF Good, Known, OfOneLead, Single, Places, MembersKept, CalmLead, CalmSeries

LEMMA ManifestGood ==
    ASSUME NEW run \in Visible
    PROVE  Good([pc |-> "manifest", kind |-> "series", run |-> run])
BY DEF Good, Known, Places, MembersKept, CalmLead, CalmSeries, Visible

LEMMA MembersGood ==
    ASSUME NEW run \in Runs, NEW leads \in SUBSET Leads,
           calm' => run \in Visible /\ leads = {l \in published[run] : InWindow(run, l)}
    PROVE  Good([pc |-> "members", kind |-> "series", run |-> run, leads |-> leads])
BY DEF Good, Known, Places, MembersKept, CalmLead, CalmSeries

LEMMA SeriesDoneGood ==
    ASSUME NEW run \in Runs, NEW outcome, NEW answered,
           calm' => outcome = "answered" /\ answered = Answers(InSeries(run))
    PROVE  Good([pc |-> "done", kind |-> "series", run |-> run, outcome |-> outcome, answered |-> answered])
BY DEF Good, Known, Places, MembersKept, CalmLead, CalmSeries

\* A series among its leads, by its fields.
LEMMA LeadsGood ==
    ASSUME NEW S \in SUBSET Leads, NEW e \in SeriesRecords(S),
           \A l \in S : e.available[l] \subseteq There(e.run, l),
           ~e.reading => e.todo # {} /\ Accounted(e.run, Min(e.todo), e.available[Min(e.todo)], e.finite),
           calm' => /\ e.run \in Visible
                    /\ e.todo \subseteq InSeries(e.run) /\ e.answered = Answers(InSeries(e.run) \ e.todo)
                    /\ \A l \in e.todo : e.available[l] = Left(e.run, l)
                    /\ ~e.reading => e.finite = e.available[Min(e.todo)]
    PROVE  Good(e)
<1>1. e.pc = "leads" /\ DOMAIN e.available = S
  BY DEF SeriesRecords
<1>2. Known(e)
  BY <1>1 DEF Known, Places
<1>3. MembersKept(e)
  BY <1>1 DEF MembersKept
<1>4. calm' => CalmLead(e) /\ CalmSeries(e)
  BY <1>1 DEF CalmLead, CalmSeries
<1> QED
  BY <1>2, <1>3, <1>4 DEF Good
----------------------------------------------------------------------------
(* The steps of a request for one lead. *)

\* What a step that may fail counts, and when it is still undisturbed.
LEMMA UpsetCounts ==
    ASSUME World, NEW n \in Nat, Upset(n)
    PROVE  /\ troubles' \in 0..MaxTroubles /\ calm' \in BOOLEAN
           /\ calm' => calm /\ n = 0
<1>1. troubles \in Nat /\ troubles' = troubles + n /\ troubles + n <= MaxTroubles /\ calm' = (calm /\ n = 0)
  BY DEF World, Upset, Spend
<1>2. troubles' \in 0..MaxTroubles
  BY <1>1
<1>3. calm' \in BOOLEAN
  BY <1>1 DEF World
<1> QED
  BY <1>1, <1>2, <1>3

LEMMA FailureCounts ==
    ASSUME World, NEW fails \in BOOLEAN, Upset(IF fails THEN 1 ELSE 0)
    PROVE  /\ troubles' \in 0..MaxTroubles /\ calm' \in BOOLEAN
           /\ calm' => calm /\ ~fails
<1>1. CASE fails
  <2>1. Upset(1)
    BY <1>1
  <2> QED
    BY <1>1, <2>1, UpsetCounts
<1>2. CASE ~fails
  <2>1. Upset(0)
    BY <1>2
  <2> QED
    BY <1>2, <2>1, UpsetCounts
<1> QED
  BY <1>1, <1>2

LEMMA BeginMoves ==
    ASSUME IInv, NEW kind \in Single, NEW l \in Leads, NEW pin \in Pins, Begin(kind, l, pin)
    PROVE  Moved
<1> DEFINE runs == IF pin = {} THEN Visible ELSE Visible \cap pin
<1>1. runs # {} /\ ask' = [pc |-> "resolve", kind |-> kind, lead |-> l, pin |-> pin, todo |-> runs]
  BY DEF Begin
<1>2. calm' = TRUE /\ UNCHANGED <<served, troubles>>
  BY DEF Begin
<1>3. runs \in SUBSET Runs /\ runs \subseteq Visible /\ Eligible(l, pin) \subseteq runs /\ (pin # {} => runs \subseteq pin)
  BY DEF Visible, Eligible
<1> HIDE DEF runs
<1>4. Good([pc |-> "resolve", kind |-> kind, lead |-> l, pin |-> pin, todo |-> runs])
  BY <1>1, <1>3, ResolveGood
<1> QED
  BY <1>1, <1>2, <1>4 DEF Moved, IInv, World

\* A run that will not do is passed over, or ends the request.
LEMMA DismissGood ==
    ASSUME IInv, ask.pc \in {"resolve", "open"}, NEW r \in Runs,
           calm' => calm /\ r \in ask.todo /\ r \notin Eligible(ask.lead, ask.pin)
    PROVE  Good(Dismiss(r))
<1>1. Known(ask) /\ (calm => CalmLead(ask))
  BY DEF IInv, RequestSound
<1>2. ask.kind \in Single /\ ask.lead \in Leads /\ ask.pin \in Pins /\ ask.todo \in SUBSET Runs /\ ask.todo # {}
  BY <1>1 DEF Known, OfOneLead
<1>3. calm => /\ ask.todo \subseteq Visible /\ Eligible(ask.lead, ask.pin) \subseteq ask.todo
              /\ ask.pin # {} => ask.todo \subseteq ask.pin
  BY <1>1 DEF CalmLead
<1>4. CASE ask.pin # {} \/ ask.todo = {r}
  <2>1. ASSUME calm' PROVE Eligible(ask.lead, ask.pin) = {}
    <3>1. ask.pin # {} => ask.todo \subseteq {r}
      BY <1>2, <1>3, <2>1 DEF Pins
    <3> QED
      BY <1>3, <1>4, <2>1, <3>1
  <2>2. Dismiss(r) = [pc |-> "done", kind |-> ask.kind, lead |-> ask.lead, pin |-> ask.pin, outcome |-> "not found"]
    BY <1>4 DEF Dismiss
  <2>3. Good([pc |-> "done", kind |-> ask.kind, lead |-> ask.lead, pin |-> ask.pin, outcome |-> "not found"])
    BY <1>2, <2>1, NothingFoundGood
  <2> QED
    BY <2>2, <2>3
<1>5. CASE ~(ask.pin # {} \/ ask.todo = {r})
  <2>1. Dismiss(r) = [pc |-> "resolve", kind |-> ask.kind, lead |-> ask.lead, pin |-> ask.pin, todo |-> ask.todo \ {r}]
    BY <1>5 DEF Dismiss
  <2>2. ask.todo \ {r} \in SUBSET Runs /\ ask.todo \ {r} # {}
    BY <1>2, <1>5
  <2>3. calm' => /\ ask.todo \ {r} \subseteq Visible /\ Eligible(ask.lead, ask.pin) \subseteq ask.todo \ {r}
                 /\ ask.pin # {} => ask.todo \ {r} \subseteq ask.pin
    BY <1>3, <1>5
  <2>4. Good([pc |-> "resolve", kind |-> ask.kind, lead |-> ask.lead, pin |-> ask.pin, todo |-> ask.todo \ {r}])
    BY <1>2, <2>2, <2>3, ResolveGood
  <2> QED
    BY <2>1, <2>4
<1> QED
  BY <1>4, <1>5

LEMMA ConsiderMoves ==
    ASSUME IInv, NEW r \in Runs, NEW probeFails \in BOOLEAN, NEW fenceFails \in BOOLEAN,
           Consider(r, probeFails, fenceFails)
    PROVE  Moved
<1> DEFINE found == Available(r, ask.lead, fenceFails)
<1>1. World /\ Known(ask) /\ (calm => CalmLead(ask)) /\ ask.pc = "resolve" /\ r = Max(ask.todo)
  BY DEF IInv, RequestSound, Consider
<1>2. ask.kind \in Single /\ ask.lead \in Leads /\ ask.pin \in Pins /\ ask.todo \in SUBSET Runs /\ ask.todo # {}
  BY <1>1 DEF Known, OfOneLead
<1>3. r \in ask.todo /\ \A x \in ask.todo : x <= r
  BY <1>1, <1>2, NewestRun
<1>4. calm => /\ ask.todo \subseteq Visible /\ Eligible(ask.lead, ask.pin) \subseteq ask.todo
              /\ ask.pin # {} => ask.todo \subseteq ask.pin
  BY <1>1 DEF CalmLead
<1>5. /\ ask' = IF probeFails THEN Dismiss(r)
                ELSE IF ~Servable(Cardinality(found)) THEN Dismiss(r)
                ELSE [pc |-> "open", kind |-> ask.kind, lead |-> ask.lead, pin |-> ask.pin,
                      todo |-> ask.todo, run |-> r, available |-> found]
      /\ Upset(Cardinality({x \in {1} : probeFails}) + Cardinality({x \in {1} : fenceFails}))
      /\ UNCHANGED served
  BY DEF Consider
<1>6. troubles' \in 0..MaxTroubles /\ calm' \in BOOLEAN /\ (calm' => calm /\ ~probeFails /\ ~fenceFails)
  <2>1. /\ Cardinality({x \in {1} : probeFails}) = (IF probeFails THEN 1 ELSE 0)
        /\ Cardinality({x \in {1} : fenceFails}) = (IF fenceFails THEN 1 ELSE 0)
    BY Flag
  <2> DEFINE n == Cardinality({x \in {1} : probeFails}) + Cardinality({x \in {1} : fenceFails})
  <2>2. n \in Nat /\ (n = 0 => ~probeFails /\ ~fenceFails)
    BY <2>1
  <2>3. Upset(n)
    BY <1>5
  <2> HIDE DEF n
  <2> QED
    BY <1>1, <2>2, <2>3, UpsetCounts
<1>7. /\ found \in SUBSET Members /\ found \subseteq There(r, ask.lead)
      /\ ~fenceFails => found = Left(r, ask.lead)
  BY <1>1, <1>2, FoundMembers
<1>8. ASSUME calm'
      PROVE  /\ Servable(Cardinality(found)) => r \in Eligible(ask.lead, ask.pin)
             /\ ~Servable(Cardinality(found)) => r \notin Eligible(ask.lead, ask.pin)
  <2>1. r \in Visible /\ (ask.pin = {} \/ r \in ask.pin) /\ found = Left(r, ask.lead)
    BY <1>3, <1>4, <1>6, <1>7, <1>8
  <2>2. Serves(r, ask.lead) <=> Servable(Cardinality(found))
    BY <1>1, <1>2, <2>1, ServesByMembers
  <2> QED
    BY <2>1, <2>2 DEF Eligible
<1> HIDE DEF found
<1>9. \E e : ask' = e /\ Good(e)
  <2>1. CASE probeFails \/ ~Servable(Cardinality(found))
    <3>1. calm' => calm /\ r \in ask.todo /\ r \notin Eligible(ask.lead, ask.pin)
      BY <1>3, <1>6, <1>8, <2>1
    <3>2. ask' = Dismiss(r)
      BY <1>5, <2>1
    <3>3. Good(Dismiss(r))
      BY <1>1, <3>1, DismissGood
    <3> QED
      BY <3>2, <3>3
  <2>2. CASE ~probeFails /\ Servable(Cardinality(found))
    <3>1. ask' = [pc |-> "open", kind |-> ask.kind, lead |-> ask.lead, pin |-> ask.pin,
                  todo |-> ask.todo, run |-> r, available |-> found]
      BY <1>5, <2>2
    <3>2. ASSUME calm' PROVE IsBest(r, ask.lead, ask.pin) /\ found = Left(r, ask.lead)
      BY <1>3, <1>4, <1>6, <1>7, <1>8, <2>2, <3>2 DEF IsBest
    <3>3. Good([pc |-> "open", kind |-> ask.kind, lead |-> ask.lead, pin |-> ask.pin,
                todo |-> ask.todo, run |-> r, available |-> found])
      BY <1>2, <1>4, <1>6, <1>7, <3>2, OpenGood
    <3> QED
      BY <3>1, <3>3
  <2> QED
    BY <2>1, <2>2
<1> QED
  BY <1>5, <1>6, <1>9 DEF Moved

LEMMA OpenMoves ==
    ASSUME IInv, NEW fails \in BOOLEAN, Open(fails)
    PROVE  Moved
<1>1. World /\ Known(ask) /\ MembersKept(ask) /\ (calm => CalmLead(ask)) /\ ask.pc = "open"
  BY DEF IInv, RequestSound, Open
<1>2. /\ ask.kind \in Single /\ ask.lead \in Leads /\ ask.pin \in Pins
      /\ ask.run \in Runs /\ ask.available \in SUBSET Members /\ ask.available \subseteq There(ask.run, ask.lead)
  BY <1>1 DEF Known, OfOneLead, MembersKept
<1>3. calm => IsBest(ask.run, ask.lead, ask.pin) /\ ask.available = Left(ask.run, ask.lead)
  BY <1>1 DEF CalmLead
<1>4. troubles' \in 0..MaxTroubles /\ calm' \in BOOLEAN /\ (calm' => calm /\ ~fails) /\ UNCHANGED served
  BY <1>1, FailureCounts DEF Open
<1>5. calm => ask.lead \in published[ask.run]
  BY <1>3 DEF IsBest, Eligible, Serves
<1>6. \E e : ask' = e /\ Good(e)
  <2>1. CASE fails \/ ask.lead \notin published[ask.run]
    <3>1. ~calm'
      BY <1>4, <1>5, <2>1
    <3>2. ask' = Dismiss(ask.run)
      BY <2>1 DEF Open
    <3>3. Good(Dismiss(ask.run))
      BY <1>1, <1>2, <3>1, DismissGood
    <3> QED
      BY <3>2, <3>3
  <2>2. CASE ~(fails \/ ask.lead \notin published[ask.run])
    <3>1. ask' = [pc |-> "read", kind |-> ask.kind, lead |-> ask.lead, pin |-> ask.pin,
                  run |-> ask.run, available |-> ask.available]
      BY <2>2 DEF Open
    <3>2. Good([pc |-> "read", kind |-> ask.kind, lead |-> ask.lead, pin |-> ask.pin,
                run |-> ask.run, available |-> ask.available])
      BY <1>2, <1>3, <1>4, ReadGood
    <3> QED
      BY <3>1, <3>2
  <2> QED
    BY <2>1, <2>2
<1> QED
  BY <1>4, <1>6 DEF Moved

\* What there was and is not read was fenced and has been deleted.
LEMMA UnreadIsFenced ==
    ASSUME NEW r \in Runs, NEW l \in Leads, NEW available, available \subseteq There(r, l)
    PROVE  /\ Accounted(r, l, available, available \cap Present(r, l))
           /\ Left(r, l) \subseteq Present(r, l)
<1>1. \A m \in There(r, l) \ Present(r, l) : m \in Weak /\ shard[<<r, l, m>>] = "gone"
  BY DEF Present
<1>2. \A m \in There(r, l) \ Present(r, l) : m \in Fenced(r, l)
  BY <1>1 DEF Fenced
<1> QED
  BY <1>2 DEF Accounted, Left

LEMMA ReadMoves ==
    ASSUME IInv, NEW fails \in BOOLEAN, Read(fails)
    PROVE  Moved
<1>1. World /\ Known(ask) /\ MembersKept(ask) /\ (calm => CalmLead(ask)) /\ ask.pc = "read"
  BY DEF IInv, RequestSound, Read
<1>2. /\ ask.kind \in Single /\ ask.lead \in Leads /\ ask.pin \in Pins
      /\ ask.run \in Runs /\ ask.available \in SUBSET Members /\ ask.available \subseteq There(ask.run, ask.lead)
  BY <1>1 DEF Known, OfOneLead, MembersKept
<1>3. calm => IsBest(ask.run, ask.lead, ask.pin) /\ ask.available = Left(ask.run, ask.lead)
  BY <1>1 DEF CalmLead
<1>4. troubles' \in 0..MaxTroubles /\ calm' \in BOOLEAN /\ (calm' => calm /\ ~fails) /\ UNCHANGED served
  BY <1>1, FailureCounts DEF Read
<1> DEFINE finite == ask.available \cap Present(ask.run, ask.lead)
<1>5. Accounted(ask.run, ask.lead, ask.available, finite) /\ Left(ask.run, ask.lead) \subseteq Present(ask.run, ask.lead)
  BY <1>2, UnreadIsFenced
<1>6. calm => finite = ask.available
  BY <1>3, <1>5
<1>7. \E e : ask' = e /\ Good(e)
  <2>1. CASE fails
    <3>1. ask' = [pc |-> "done", kind |-> ask.kind, lead |-> ask.lead, pin |-> ask.pin, outcome |-> "failed"]
      BY <2>1 DEF Read
    <3>2. Good([pc |-> "done", kind |-> ask.kind, lead |-> ask.lead, pin |-> ask.pin, outcome |-> "failed"])
      BY <1>2, <1>4, <2>1, NothingFoundGood
    <3> QED
      BY <3>1, <3>2
  <2>2. CASE ~fails
    <3>1. ask' = [pc |-> "judge", kind |-> ask.kind, lead |-> ask.lead, pin |-> ask.pin, run |-> ask.run,
                  available |-> ask.available, finite |-> finite]
      BY <2>2 DEF Read
    <3> HIDE DEF finite
    <3>2. Good([pc |-> "judge", kind |-> ask.kind, lead |-> ask.lead, pin |-> ask.pin, run |-> ask.run,
                available |-> ask.available, finite |-> finite])
      BY <1>2, <1>3, <1>4, <1>5, <1>6, JudgeGood
    <3> QED
      BY <3>1, <3>2
  <2> QED
    BY <2>1, <2>2
<1> QED
  BY <1>4, <1>7 DEF Moved

\* Undisturbed, the verdict on a lead that serves is an answer.
LEMMA VerdictOfServing ==
    ASSUME World, NEW r \in Visible, NEW l \in Leads, Serves(r, l), NEW kind
    PROVE  Verdict(kind, r, l, Left(r, l), Left(r, l), FALSE) = "answered"
<1>1. Servable(Cardinality(Left(r, l)))
  BY ServesByMembers
<1>2. Left(r, l) \cap Fenced(r, l) = {}
  BY DEF Left
<1> QED
  BY <1>1, <1>2 DEF Verdict

LEMMA JudgeMoves ==
    ASSUME IInv, NEW fails \in BOOLEAN, Judge(fails)
    PROVE  Moved
<1>1. World /\ Known(ask) /\ (calm => CalmLead(ask)) /\ ask.pc = "judge"
  BY DEF IInv, RequestSound, Judge
<1>2. ask.kind \in Single /\ ask.lead \in Leads /\ ask.pin \in Pins /\ ask.run \in Runs
  BY <1>1 DEF Known, OfOneLead
<1>3. calm => /\ IsBest(ask.run, ask.lead, ask.pin) /\ ask.available = Left(ask.run, ask.lead)
              /\ ask.finite = ask.available
  BY <1>1 DEF CalmLead
<1>4. troubles' \in 0..MaxTroubles /\ calm' \in BOOLEAN /\ (calm' => calm /\ ~fails) /\ UNCHANGED served
  BY <1>1, FailureCounts DEF Judge
<1> DEFINE verdict == Verdict(ask.kind, ask.run, ask.lead, ask.available, ask.finite, fails)
<1>5. ASSUME calm' PROVE verdict = "answered" /\ IsBest(ask.run, ask.lead, ask.pin)
  <2>1. ask.run \in Visible /\ Serves(ask.run, ask.lead) /\ ask.available = Left(ask.run, ask.lead)
        /\ ask.finite = Left(ask.run, ask.lead) /\ fails = FALSE
    BY <1>3, <1>4, <1>5 DEF IsBest, Eligible
  <2>2. Verdict(ask.kind, ask.run, ask.lead, Left(ask.run, ask.lead), Left(ask.run, ask.lead), FALSE) = "answered"
    BY <1>1, <1>2, <2>1, VerdictOfServing
  <2> QED
    BY <1>3, <1>4, <1>5, <2>1, <2>2
<1>6. ask' = [pc |-> "done", kind |-> ask.kind, lead |-> ask.lead, pin |-> ask.pin, run |-> ask.run, outcome |-> verdict]
  BY DEF Judge
<1> HIDE DEF verdict
<1>7. Good([pc |-> "done", kind |-> ask.kind, lead |-> ask.lead, pin |-> ask.pin, run |-> ask.run, outcome |-> verdict])
  BY <1>2, <1>5, JudgedGood
<1> QED
  BY <1>4, <1>6, <1>7 DEF Moved

LEMMA EndMoves ==
    ASSUME IInv, End
    PROVE  Moved
<1>1. ask' = NoAsk /\ calm' = TRUE /\ UNCHANGED <<served, troubles>>
  BY DEF End
<1> QED
  BY <1>1, IdleGood DEF Moved, IInv, World
----------------------------------------------------------------------------
(* The steps of a request for a series. *)

LEMMA BeginSeriesMoves ==
    ASSUME IInv, BeginSeries
    PROVE  Moved
<1>1. Visible # {} /\ ask' = [pc |-> "manifest", kind |-> "series", run |-> Max(Visible)]
      /\ calm' = TRUE /\ UNCHANGED <<served, troubles>>
  BY DEF BeginSeries
<1>2. Visible \in SUBSET Runs
  BY DEF Visible
<1>3. Max(Visible) \in Visible
  BY <1>1, <1>2, NewestRun
<1>4. Good([pc |-> "manifest", kind |-> "series", run |-> Max(Visible)])
  BY <1>3, ManifestGood
<1> QED
  BY <1>1, <1>4 DEF Moved, IInv, World

LEMMA OpenSeriesMoves ==
    ASSUME IInv, NEW fails \in BOOLEAN, OpenSeries(fails)
    PROVE  Moved
<1> DEFINE leads == {l \in published[ask.run] : InWindow(ask.run, l)}
<1>1. World /\ Known(ask) /\ (calm => CalmSeries(ask)) /\ ask.pc = "manifest"
  BY DEF IInv, RequestSound, OpenSeries
<1>2. ask.run \in Runs /\ (calm => ask.run \in Visible)
  BY <1>1 DEF Known, CalmSeries
<1>3. troubles' \in 0..MaxTroubles /\ calm' \in BOOLEAN /\ (calm' => calm /\ ~fails) /\ UNCHANGED served
  BY <1>1, FailureCounts DEF OpenSeries
<1>4. leads \in SUBSET Leads
  BY <1>1, <1>2 DEF World
<1>5. ask' = IF fails THEN SeriesEnds("failed", {})
             ELSE IF leads = {} THEN SeriesEnds("answered", {})
             ELSE [pc |-> "members", kind |-> "series", run |-> ask.run, leads |-> leads]
  BY DEF OpenSeries
<1>6. leads = {} => Answers(InSeries(ask.run)) = {}
  <2>1. InSeries(ask.run) \subseteq leads
    BY DEF InSeries, Serves
  <2> QED
    BY <2>1 DEF Answers
<1>7. calm' => ask.run \in Visible /\ leads = {l \in published[ask.run] : InWindow(ask.run, l)}
  BY <1>2, <1>3
<1> HIDE DEF leads
<1>8. \E e : ask' = e /\ Good(e)
  <2>1. CASE fails
    <3>1. Good(SeriesEnds("failed", {}))
      BY <1>2, <1>3, <2>1, SeriesDoneGood DEF SeriesEnds
    <3> QED
      BY <1>5, <2>1, <3>1
  <2>2. CASE ~fails /\ leads = {}
    <3>1. Good(SeriesEnds("answered", {}))
      BY <1>2, <1>6, <2>2, SeriesDoneGood DEF SeriesEnds
    <3> QED
      BY <1>5, <2>2, <3>1
  <2>3. CASE ~fails /\ leads # {}
    <3>1. Good([pc |-> "members", kind |-> "series", run |-> ask.run, leads |-> leads])
      BY <1>2, <1>4, <1>7, MembersGood
    <3> QED
      BY <1>5, <2>3, <3>1
  <2> QED
    BY <2>1, <2>2, <2>3
<1> QED
  BY <1>3, <1>8 DEF Moved

LEMMA QuerySeriesMoves ==
    ASSUME IInv, NEW fails \in BOOLEAN, QuerySeries(fails)
    PROVE  Moved
<1> DEFINE found == [l \in ask.leads |-> Available(ask.run, l, FALSE)]
           enough == {l \in ask.leads : Servable(Cardinality(found[l]))}
           e == [pc |-> "leads", kind |-> "series", run |-> ask.run, answered |-> {},
                 available |-> found, todo |-> enough, finite |-> {}, reading |-> TRUE]
<1>1. World /\ Known(ask) /\ (calm => CalmSeries(ask)) /\ ask.pc = "members"
  BY DEF IInv, RequestSound, QuerySeries
<1>2. ask.run \in Runs /\ ask.leads \in SUBSET Leads
  BY <1>1 DEF Known
<1>3. troubles' \in 0..MaxTroubles /\ calm' \in BOOLEAN /\ (calm' => calm /\ ~fails) /\ UNCHANGED served
  BY <1>1, FailureCounts DEF QuerySeries
<1>4. ask' = IF fails THEN SeriesEnds("failed", {}) ELSE e
  BY DEF QuerySeries
<1>5. \A l \in ask.leads : /\ l \in Leads /\ found[l] = Left(ask.run, l)
                           /\ found[l] \in SUBSET Members /\ found[l] \subseteq There(ask.run, l)
  <2>1. ASSUME NEW l \in ask.leads
        PROVE  /\ found[l] = Left(ask.run, l) /\ found[l] \in SUBSET Members
               /\ found[l] \subseteq There(ask.run, l)
    <3>1. l \in Leads /\ found[l] = Available(ask.run, l, FALSE)
      BY <1>2
    <3> QED
      BY <1>1, <1>2, <3>1, FoundMembers
  <2> QED
    BY <1>2, <2>1
<1>6. found \in [ask.leads -> SUBSET Members] /\ enough \in SUBSET ask.leads
  <2>1. \A l \in ask.leads : Available(ask.run, l, FALSE) \in SUBSET Members
    BY <1>5
  <2> QED
    BY <2>1
<1>7. ASSUME calm' PROVE ask.run \in Visible /\ enough = InSeries(ask.run)
  <2>1. ask.run \in Visible /\ ask.leads = {l \in published[ask.run] : InWindow(ask.run, l)}
    BY <1>1, <1>3, <1>7 DEF CalmSeries
  <2>2. ASSUME NEW l \in ask.leads PROVE Serves(ask.run, l) <=> Servable(Cardinality(found[l]))
    <3>1. l \in Leads /\ found[l] = Left(ask.run, l)
      BY <1>5
    <3> QED
      BY <1>1, <2>1, <3>1, ServesByMembers
  <2>3. \A l \in InSeries(ask.run) : l \in ask.leads
    BY <2>1 DEF InSeries, Serves
  <2>4. \A l \in ask.leads : l \in Leads /\ InWindow(ask.run, l)
    BY <1>2, <2>1
  <2>5. enough \subseteq InSeries(ask.run)
    BY <2>2, <2>4 DEF InSeries
  <2>6. InSeries(ask.run) \subseteq enough
    BY <2>2, <2>3 DEF InSeries
  <2> QED
    BY <2>1, <2>5, <2>6
<1>8. \A l \in enough : found[l] = Left(ask.run, l)
  BY <1>5
<1>9. \A l \in ask.leads : found[l] \subseteq There(ask.run, l)
  BY <1>5
<1>10. Answers(InSeries(ask.run) \ InSeries(ask.run)) = {}
  BY DEF Answers
<1> HIDE DEF found, enough
<1>11. e \in SeriesRecords(ask.leads) /\ e.run = ask.run /\ e.todo = enough /\ e.available = found /\ e.reading = TRUE
       /\ e.answered = {}
  BY <1>2, <1>6 DEF SeriesRecords
<1> HIDE DEF e
<1>12. Good(e)
  <2>1. calm' => /\ e.run \in Visible
                 /\ e.todo \subseteq InSeries(e.run) /\ e.answered = Answers(InSeries(e.run) \ e.todo)
                 /\ \A l \in e.todo : e.available[l] = Left(e.run, l)
    BY <1>7, <1>8, <1>10, <1>11
  <2> QED
    BY <1>2, <1>9, <1>11, <2>1, LeadsGood
<1>13. Good(SeriesEnds("failed", {})) \/ ~fails
  BY <1>2, <1>3, SeriesDoneGood DEF SeriesEnds
<1>14. \E x : ask' = x /\ Good(x)
  BY <1>4, <1>12, <1>13
<1> QED
  BY <1>3, <1>14 DEF Moved

\* What is known of a series among its leads.
LEMMA AmongLeads ==
    ASSUME IInv, ask.pc = "leads"
    PROVE  /\ World /\ \E S \in SUBSET Leads : ask \in SeriesRecords(S)
           /\ ask.run \in Runs /\ ask.todo \in SUBSET Leads /\ DOMAIN ask.available \in SUBSET Leads
           /\ ask.todo \subseteq DOMAIN ask.available
           /\ \A l \in DOMAIN ask.available : ask.available[l] \subseteq There(ask.run, l)
           /\ ~ask.reading => /\ ask.todo # {}
                              /\ Accounted(ask.run, Min(ask.todo), ask.available[Min(ask.todo)], ask.finite)
           /\ calm => /\ ask.run \in Visible
                      /\ ask.todo \subseteq InSeries(ask.run)
                      /\ ask.answered = Answers(InSeries(ask.run) \ ask.todo)
                      /\ \A l \in ask.todo : ask.available[l] = Left(ask.run, l)
                      /\ ~ask.reading => ask.finite = ask.available[Min(ask.todo)]
<1>1. World /\ Known(ask) /\ MembersKept(ask) /\ (calm => CalmSeries(ask))
  BY DEF IInv, RequestSound
<1>2. PICK S \in SUBSET Leads : ask \in SeriesRecords(S)
  BY <1>1 DEF Known
<1>3. ask.run \in Runs /\ ask.todo \in SUBSET S /\ DOMAIN ask.available = S
  BY <1>2 DEF SeriesRecords
<1>4. /\ \A l \in DOMAIN ask.available : ask.available[l] \subseteq There(ask.run, l)
      /\ ~ask.reading => /\ ask.todo # {}
                         /\ Accounted(ask.run, Min(ask.todo), ask.available[Min(ask.todo)], ask.finite)
  BY <1>1 DEF MembersKept
<1>5. calm => /\ ask.run \in Visible
              /\ ask.todo \subseteq InSeries(ask.run)
              /\ ask.answered = Answers(InSeries(ask.run) \ ask.todo)
              /\ \A l \in ask.todo : ask.available[l] = Left(ask.run, l)
              /\ ~ask.reading => ask.finite = ask.available[Min(ask.todo)]
  BY <1>1 DEF CalmSeries
<1> QED
  BY <1>1, <1>2, <1>3, <1>4, <1>5

LEMMA ReadOfSeriesMoves ==
    ASSUME IInv, NEW fails \in BOOLEAN, ReadOfSeries(fails)
    PROVE  Moved
<1> DEFINE l == Min(ask.todo)
           finite == ask.available[l] \cap Present(ask.run, l)
           skip == [ask EXCEPT !.todo = @ \ {l}]
           read == [ask EXCEPT !.reading = FALSE, !.finite = finite]
<1>1. ask.pc = "leads" /\ ask.todo # {} /\ ask.reading
  BY DEF ReadOfSeries
<1>2. PICK S \in SUBSET Leads : ask \in SeriesRecords(S)
  BY <1>1, AmongLeads
<1>3. /\ ask.run \in Runs /\ ask.todo \in SUBSET S /\ DOMAIN ask.available = S /\ ask.todo \in SUBSET Leads
      /\ ask.available \in [S -> SUBSET Members]
  BY <1>2 DEF SeriesRecords
<1>4. l \in ask.todo /\ l \in Leads /\ l \in S
  BY <1>1, <1>3, EarliestLead
<1>5. troubles' \in 0..MaxTroubles /\ calm' \in BOOLEAN /\ (calm' => calm /\ ~fails) /\ UNCHANGED served
  BY <1>1, AmongLeads, FailureCounts DEF ReadOfSeries
<1>6. ask' = IF fails THEN skip ELSE read
  BY DEF ReadOfSeries
<1>7. \A k \in S : ask.available[k] \subseteq There(ask.run, k)
  BY <1>1, <1>3, AmongLeads
<1>8. Accounted(ask.run, l, ask.available[l], finite) /\ Left(ask.run, l) \subseteq Present(ask.run, l)
  BY <1>3, <1>4, <1>7, UnreadIsFenced
<1>9. finite \in SUBSET Members
  BY <1>3, <1>4
<1>10. calm => /\ ask.run \in Visible /\ ask.todo \subseteq InSeries(ask.run)
               /\ ask.answered = Answers(InSeries(ask.run) \ ask.todo)
               /\ \A k \in ask.todo : ask.available[k] = Left(ask.run, k)
               /\ finite = ask.available[l]
  <2>1. calm => /\ ask.run \in Visible /\ ask.todo \subseteq InSeries(ask.run)
                /\ ask.answered = Answers(InSeries(ask.run) \ ask.todo)
                /\ \A k \in ask.todo : ask.available[k] = Left(ask.run, k)
    BY <1>1, AmongLeads
  <2>2. calm => finite = ask.available[l]
    BY <1>4, <1>8, <2>1
  <2> QED
    BY <2>1, <2>2
<1> HIDE DEF finite
<1>11. /\ skip \in SeriesRecords(S) /\ skip.run = ask.run /\ skip.todo = ask.todo \ {l} /\ skip.reading = ask.reading
       /\ skip.available = ask.available
  BY <1>2, <1>4 DEF SeriesRecords
<1>12. /\ read \in SeriesRecords(S) /\ read.run = ask.run /\ read.todo = ask.todo /\ read.reading = FALSE
       /\ read.available = ask.available /\ read.finite = finite /\ read.answered = ask.answered
  BY <1>2, <1>9 DEF SeriesRecords
<1>13. Min(read.todo) = l
  BY <1>12
<1> HIDE DEF l, skip, read
<1>14. fails => Good(skip)
  BY <1>1, <1>5, <1>7, <1>11, LeadsGood
<1>15. ~fails => Good(read)
  <2>1. ~read.reading => read.todo # {} /\ Accounted(read.run, Min(read.todo), read.available[Min(read.todo)], read.finite)
    BY <1>1, <1>8, <1>12, <1>13
  <2>2. calm' => /\ read.run \in Visible
                 /\ read.todo \subseteq InSeries(read.run) /\ read.answered = Answers(InSeries(read.run) \ read.todo)
                 /\ \A k \in read.todo : read.available[k] = Left(read.run, k)
                 /\ ~read.reading => read.finite = read.available[Min(read.todo)]
    BY <1>5, <1>10, <1>12, <1>13
  <2>3. \A k \in S : read.available[k] \subseteq There(read.run, k)
    BY <1>7, <1>12
  <2> QED
    BY <1>12, <2>1, <2>2, <2>3, LeadsGood
<1>16. \E x : ask' = x /\ Good(x)
  BY <1>6, <1>14, <1>15
<1> QED
  BY <1>5, <1>16 DEF Moved

LEMMA JudgeOfSeriesMoves ==
    ASSUME IInv, NEW fails \in BOOLEAN, JudgeOfSeries(fails)
    PROVE  Moved
<1> DEFINE l == Min(ask.todo)
           verdict == Verdict("statistics", ask.run, l, ask.available[l], ask.finite, fails)
           answers == IF verdict = "not found" THEN ask.answered ELSE ask.answered \cup {<<l, verdict>>}
           e == [ask EXCEPT !.reading = TRUE, !.finite = {}, !.todo = @ \ {l}, !.answered = answers]
<1>1. ask.pc = "leads" /\ ~ask.reading
  BY DEF JudgeOfSeries
<1>2. PICK S \in SUBSET Leads : ask \in SeriesRecords(S)
  BY <1>1, AmongLeads
<1>3. /\ ask.run \in Runs /\ ask.todo \in SUBSET S /\ DOMAIN ask.available = S /\ ask.todo \in SUBSET Leads
      /\ ask.answered \in SUBSET (Leads \X Verdicts)
  BY <1>2 DEF SeriesRecords
<1>4. l \in ask.todo /\ l \in Leads
  <2>1. ask.todo # {}
    BY <1>1, AmongLeads
  <2> QED
    BY <1>3, <2>1, EarliestLead
<1>5. troubles' \in 0..MaxTroubles /\ calm' \in BOOLEAN /\ (calm' => calm /\ ~fails) /\ UNCHANGED served
  BY <1>1, AmongLeads, FailureCounts DEF JudgeOfSeries
<1>6. ask' = e
  BY DEF JudgeOfSeries
<1>7. \A k \in S : ask.available[k] \subseteq There(ask.run, k)
  BY <1>1, <1>3, AmongLeads
<1>8. answers \in SUBSET (Leads \X Verdicts)
  <2>1. verdict \in Verdicts
    BY DEF Verdict, Verdicts
  <2> HIDE DEF l, verdict
  <2>2. {<<l, verdict>>} \in SUBSET (Leads \X Verdicts)
    BY <1>4, <2>1
  <2> QED
    BY <1>3, <2>2
<1>9. ASSUME calm'
      PROVE  /\ ask.run \in Visible /\ ask.todo \ {l} \subseteq InSeries(ask.run)
             /\ answers = Answers(InSeries(ask.run) \ (ask.todo \ {l}))
             /\ \A k \in ask.todo \ {l} : ask.available[k] = Left(ask.run, k)
  <2>1. /\ ask.run \in Visible /\ ask.todo \subseteq InSeries(ask.run)
        /\ ask.answered = Answers(InSeries(ask.run) \ ask.todo)
        /\ \A k \in ask.todo : ask.available[k] = Left(ask.run, k)
        /\ ask.finite = ask.available[l]
    BY <1>1, <1>5, <1>9, AmongLeads
  <2>2. Serves(ask.run, l)
    BY <1>4, <2>1 DEF InSeries
  <2>3. verdict = "answered"
    <3>1. Verdict("statistics", ask.run, l, Left(ask.run, l), Left(ask.run, l), FALSE) = "answered"
      BY <1>1, <1>4, <2>1, <2>2, AmongLeads, VerdictOfServing
    <3>2. ask.available[l] = Left(ask.run, l) /\ ask.finite = Left(ask.run, l) /\ fails = FALSE
      BY <1>4, <1>5, <1>9, <2>1
    <3> QED
      BY <3>1, <3>2
  <2>4. answers = Answers(InSeries(ask.run) \ ask.todo) \cup {<<l, "answered">>}
    BY <2>1, <2>3
  <2> HIDE DEF l, verdict, answers
  <2>5. InSeries(ask.run) \ (ask.todo \ {l}) = (InSeries(ask.run) \ ask.todo) \cup {l}
    BY <1>4, <2>1
  <2>6. Answers((InSeries(ask.run) \ ask.todo) \cup {l}) = Answers(InSeries(ask.run) \ ask.todo) \cup {<<l, "answered">>}
    BY DEF Answers
  <2> QED
    BY <2>1, <2>4, <2>5, <2>6
<1> HIDE DEF answers, verdict
<1>10. /\ e \in SeriesRecords(S) /\ e.run = ask.run /\ e.todo = ask.todo \ {l} /\ e.reading = TRUE
       /\ e.available = ask.available /\ e.answered = answers
  BY <1>2, <1>4, <1>8 DEF SeriesRecords
<1> HIDE DEF l, e
<1>11. Good(e)
  <2>1. \A k \in S : e.available[k] \subseteq There(e.run, k)
    BY <1>7, <1>10
  <2>2. calm' => /\ e.run \in Visible
                 /\ e.todo \subseteq InSeries(e.run) /\ e.answered = Answers(InSeries(e.run) \ e.todo)
                 /\ \A k \in e.todo : e.available[k] = Left(e.run, k)
    BY <1>9, <1>10
  <2> QED
    BY <1>10, <2>1, <2>2, LeadsGood
<1> QED
  BY <1>5, <1>6, <1>11 DEF Moved

LEMMA EndSeriesMoves ==
    ASSUME IInv, EndSeries
    PROVE  Moved
<1>1. ask.pc = "leads" /\ ask.todo = {} /\ ask' = SeriesEnds("answered", ask.answered)
      /\ UNCHANGED <<served, troubles, calm>>
  BY DEF EndSeries
<1>2. ask.run \in Runs /\ World
  BY <1>1, AmongLeads
<1>3. calm' => ask.answered = Answers(InSeries(ask.run))
  <2>1. calm => ask.answered = Answers(InSeries(ask.run) \ ask.todo)
    BY <1>1, AmongLeads
  <2>2. InSeries(ask.run) \ ask.todo = InSeries(ask.run)
    BY <1>1
  <2> QED
    BY <1>1, <2>1, <2>2
<1>4. Good(SeriesEnds("answered", ask.answered))
  BY <1>2, <1>3, SeriesDoneGood DEF SeriesEnds
<1> QED
  BY <1>1, <1>2, <1>4 DEF Moved, World
----------------------------------------------------------------------------
(* The theorems. *)

LEMMA InitSound == Init => IInv
<1> SUFFICES ASSUME Init PROVE IInv
  OBVIOUS
<1>1. \A r \in Runs : published[r] = (IF r = Min(Runs) THEN Leads ELSE {})
  BY DEF Init
<1>2. \A r \in Runs, l \in Leads, m \in Weak :
          shard[<<r, l, m>>] = (IF r = Min(Runs) THEN "live" ELSE "absent")
  BY DEF Init, Shards
<1>3. World
  <2>1. shard \in [Shards -> {"absent", "live", "fenced", "gone"}] /\ published \in [Runs -> SUBSET Leads]
    BY DEF Init
  <2>2. begin \in Nat
    <3>1. Min(Runs) \in Nat /\ Between \in Nat
      BY FirstRun, Numbers
    <3>2. Between * Min(Runs) \in Nat
      BY <3>1
    <3> DEFINE start == Between * Min(Runs)
    <3>3. begin = start + 3
      BY DEF Init, Valid
    <3> HIDE DEF start
    <3> QED
      BY <3>2, <3>3 DEF start
  <2>3. published[Min(Runs)] = Leads
    BY <1>1, FirstRun
  <2>4. \A l \in Leads, m \in Weak : shard[<<Min(Runs), l, m>>] # "absent"
    BY <1>2, FirstRun
  <2>5. \A r \in Runs, l \in Leads, m \in Weak : l \notin published[r] => shard[<<r, l, m>>] = "absent"
    BY <1>1, <1>2
  <2>6. troubles \in 0..MaxTroubles /\ calm \in BOOLEAN /\ hidden \in SUBSET Runs
    BY Numbers DEF Init
  <2> QED
    BY <2>1, <2>2, <2>3, <2>4, <2>5, <2>6 DEF World
<1>4. RequestSound(NoAsk)
  BY DEF RequestSound, NoAsk, Known, Places, MembersKept, CalmLead, CalmSeries
<1> QED
  BY <1>3, <1>4 DEF IInv, Init

LEMMA StepSound == IInv /\ [Next]_vars => IInv'
<1> SUFFICES ASSUME IInv, [Next]_vars PROVE IInv'
  OBVIOUS
<1>1. CASE UNCHANGED vars
  <2>1. Grown /\ Unmoved
    BY <1>1 DEF vars, Grown, Unmoved, There, Fenced
  <2>2. World'
    BY <1>1 DEF vars, IInv, World
  <2>3. Beside
    BY <1>1, <2>1, <2>2 DEF Beside, vars
  <2> QED
    BY <2>3, BesideKeeps
<1>2. ASSUME NEW kind \in {"probability", "statistics"}, NEW l \in Leads, NEW pin \in {{}, {Min(Runs)}},
             Begin(kind, l, pin)
      PROVE  IInv'
  BY <1>2, BeginMoves, MovedKeeps DEF Single, Pins
<1>3. CASE BeginSeries
  BY <1>3, BeginSeriesMoves, MovedKeeps
<1>4. ASSUME NEW r \in Runs, NEW p \in BOOLEAN, NEW f \in BOOLEAN, Consider(r, p, f)
      PROVE  IInv'
  BY <1>4, ConsiderMoves, MovedKeeps
<1>5. ASSUME NEW fails \in BOOLEAN,
             \/ Open(fails) \/ Read(fails) \/ Judge(fails) \/ OpenSeries(fails) \/ QuerySeries(fails)
             \/ ReadOfSeries(fails) \/ JudgeOfSeries(fails)
      PROVE  IInv'
  BY <1>5, OpenMoves, ReadMoves, JudgeMoves, OpenSeriesMoves, QuerySeriesMoves, ReadOfSeriesMoves,
     JudgeOfSeriesMoves, MovedKeeps
<1>6. CASE End \/ EndSeries
  BY <1>6, EndMoves, EndSeriesMoves, MovedKeeps
<1>7. CASE Requests
  BY <1>4, <1>5, <1>6, <1>7 DEF Requests
<1>8. ASSUME NEW r \in Runs, NEW W \in SUBSET Weak, Publish(r, W)
      PROVE  IInv'
  BY <1>8, PublishBeside, BesideKeeps
<1>9. ASSUME NEW r \in Runs, Hide(r)
      PROVE  IInv'
  BY <1>9, HideBeside, BesideKeeps
<1>10. ASSUME NEW s \in Shards, Claim(s) \/ Delete(s)
       PROVE  IInv'
  BY <1>10, ClaimBeside, DeleteBeside, BesideKeeps
<1>11. CASE Pass
  BY <1>11, PassBeside, BesideKeeps
<1> QED
  BY <1>1, <1>2, <1>3, <1>7, <1>8, <1>9, <1>10, <1>11 DEF Next

\* The request always knows what its place needs: the members it goes by were
\* there, one that it did not read is fenced by now, and undisturbed it is with
\* the best run and all that is left of it.
THEOREM EnsembleInvariant == Spec => []IInv
BY InitSound, StepSound, PTL DEF Spec

LEMMA NoMemberIsLostFollows == IInv => NoMemberIsLost
<1> SUFFICES ASSUME IInv PROVE NoMemberIsLost
  OBVIOUS
<1>1. ASSUME ask.pc = "judge",
             Verdict(ask.kind, ask.run, ask.lead, ask.available, ask.finite, FALSE) # "not found"
      PROVE  ask.finite = ask.available
  <2>1. Accounted(ask.run, ask.lead, ask.available, ask.finite)
    BY <1>1 DEF IInv, RequestSound, MembersKept
  <2>2. ask.available \cap Fenced(ask.run, ask.lead) = {}
    BY <1>1 DEF Verdict
  <2> QED
    BY <2>1, <2>2 DEF Accounted
<1>2. ASSUME ask.pc = "leads", ~ask.reading, NEW l \in {Min(ask.todo)},
             Verdict("statistics", ask.run, l, ask.available[l], ask.finite, FALSE) # "not found"
      PROVE  ask.finite = ask.available[l]
  <2>1. Accounted(ask.run, l, ask.available[l], ask.finite)
    BY <1>2, AmongLeads
  <2>2. ask.available[l] \cap Fenced(ask.run, l) = {}
    BY <1>2 DEF Verdict
  <2> QED
    BY <2>1, <2>2 DEF Accounted
<1> QED
  BY <1>1, <1>2 DEF NoMemberIsLost

LEMMA NewestIsAnsweredFollows == IInv => NewestIsAnswered
<1> SUFFICES ASSUME IInv, ask.pc = "done", ask.kind # "series", calm
             PROVE  IF Eligible(ask.lead, ask.pin) = {} THEN ask.outcome = "not found"
                    ELSE ask.outcome = "answered" /\ ask.run = Max(Eligible(ask.lead, ask.pin))
  BY DEF NewestIsAnswered, Eligible
<1>1. \/ ask.outcome = "not found" /\ Eligible(ask.lead, ask.pin) = {}
      \/ ask.outcome = "answered" /\ IsBest(ask.run, ask.lead, ask.pin)
  BY DEF IInv, RequestSound, CalmLead
<1>2. ASSUME IsBest(ask.run, ask.lead, ask.pin)
      PROVE  Eligible(ask.lead, ask.pin) # {} /\ ask.run = Max(Eligible(ask.lead, ask.pin))
  <2> DEFINE good == Eligible(ask.lead, ask.pin)
  <2>1. ask.run \in good /\ \A g \in good : g <= ask.run
    BY <1>2 DEF IsBest
  <2>2. good \in SUBSET Runs
    BY DEF Eligible, Visible
  <2> HIDE DEF good
  <2>3. Max(good) \in good /\ \A n \in good : n <= Max(good)
    BY <2>1, <2>2, NewestRun
  <2>4. ask.run \in Nat /\ Max(good) \in Nat
    BY <2>1, <2>2, <2>3, Numbers
  <2>5. ask.run = Max(good) /\ good # {}
    BY <2>1, <2>3, <2>4
  <2> QED
    BY <2>5 DEF good
<1> QED
  BY <1>1, <1>2

LEMMA SeriesIsCompleteFollows == IInv => SeriesIsComplete
<1> SUFFICES ASSUME IInv, ask.pc = "done", ask.kind = "series", calm
             PROVE  /\ ask.outcome = "answered"
                    /\ ask.answered = {<<l, "answered">> :
                                          l \in {k \in Leads : Serves(ask.run, k) /\ Valid(ask.run, k) >= begin}}
  BY DEF SeriesIsComplete
<1>1. ask.outcome = "answered" /\ ask.answered = Answers(InSeries(ask.run))
  BY DEF IInv, RequestSound, CalmSeries
<1>2. InSeries(ask.run) = {k \in Leads : Serves(ask.run, k) /\ Valid(ask.run, k) >= begin}
  BY DEF InSeries, InWindow
<1> QED
  BY <1>1, <1>2 DEF Answers

\* No answer that passed the last check lacks a member that was deleted while it
\* was made.  Where nothing interfered, a lead is answered from the newest run
\* that has enough members for it, and a series has every lead of its run that
\* enough members are left of.
THEOREM EnsembleAnswersSound == Spec => []EnsembleAnswersAreSound
<1>1. IInv => EnsembleAnswersAreSound
  <2>1. IInv => TypeOK
    BY DEF IInv, World, RequestSound, Known, Places, TypeOK
  <2> QED
    BY <2>1, NoMemberIsLostFollows, NewestIsAnsweredFollows, SeriesIsCompleteFollows DEF EnsembleAnswersAreSound
<1> QED
  BY <1>1, EnsembleInvariant, PTL
=============================================================================
