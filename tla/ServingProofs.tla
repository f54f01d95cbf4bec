---------------------------- MODULE ServingProofs ----------------------------
(***************************************************************************)
(* Proofs about Serving: garbage collection leaves what is served, and a   *)
(* request gets what there was when it discovered its candidates, unless   *)
(* something is fenced or fails meanwhile.                                 *)
(***************************************************************************)
EXTENDS Serving, FiniteSetTheorems, WellFoundedInduction, TLAPS

States == {"absent", "live", "fenced", "gone"}
CandidateSet ==
    [cycle : Cycles, lead : Leads, vars : SUBSET Variables, members : {{}}, products : {{"surface"}},
     run : Cycles]
Time(u) == ValidTime(u[1], u[2])
Target(c, v) == <<c.cycle, c.lead, v>>

\* A unit is there since its lead was published; a cycle is fenced behind the window.
World ==
    /\ unit \in [Units -> States] /\ progress \in [Cycles -> 0..(Horizon + 1)]
    /\ fenced \in SUBSET Cycles /\ start \in Cadence..(Cadence + Move)
    /\ faults \in Nat /\ Events <= MaxEvents /\ undisturbed \in BOOLEAN
    /\ \A u \in Units : unit[u] = "absent" <=> progress[u[1]] <= u[2]
    /\ \A c \in fenced : ValidTime(c, Horizon) < start

\* Of a unit that was published there is still the unit itself or a fresher one.
Stands(x, u) == unit[x] = "live" /\ x[3] = u[3] /\ Time(x) = Time(u) /\ (x = u \/ x[2] < u[2])
NewestKept ==
    \A u \in Units : unit[u] # "absent" /\ Time(u) >= start => \E x \in Units : Stands(x, u)

\* What a request consists of at each of its places.
AskRecords(T, A) ==
    [pc : {"anchors"}, kind : {"det", "mean"}, pairs : [T -> SUBSET CandidateSet],
     offered : SUBSET (Times \X Variables), todo : SUBSET T, opened : SUBSET Cycles,
     anchors : [A -> CandidateSet]]
ReadRecords(T, U) ==
    [pc : {"read"}, kind : {"det", "mean"}, offered : SUBSET (Times \X Variables), ts : {T},
     source : [T \X Variables -> CandidateSet \cup {NoCandidate}], used : SUBSET Units,
     todo : SUBSET Cycles, value : [U -> {"value", "null"}], lost : SUBSET Cycles]

KnownAsk(a) ==
    /\ a \in AskRecords(DOMAIN a.pairs, DOMAIN a.anchors)
    /\ DOMAIN a.pairs \in SUBSET Times /\ DOMAIN a.pairs # {}
    /\ a.offered = Offered(a.pairs) /\ DOMAIN a.pairs = {k[1] : k \in a.offered}
    /\ DOMAIN a.anchors \subseteq DOMAIN a.pairs \ a.todo
    /\ \A t \in DOMAIN a.anchors : a.anchors[t] \in a.pairs[t]
KnownRead(a) ==
    /\ a \in ReadRecords(a.ts, DOMAIN a.value) /\ a.ts \in SUBSET Times /\ a.ts # {}
    /\ DOMAIN a.value = {u \in a.used : u[1] \notin a.todo}
    /\ \A t \in a.ts : a.source[<<t, "temperature_2m">>] # NoCandidate
    /\ \A k \in a.ts \X Variables : a.source[k] # NoCandidate => Target(a.source[k], k[2]) \in a.used
Known(a) ==
    /\ a.pc \in {"idle", "anchors", "read"}
    /\ a.pc = "idle" => a = NoRequest
    /\ a.pc = "anchors" => KnownAsk(a)
    /\ a.pc = "read" => KnownRead(a)

\* Undisturbed, the candidates a request goes by are still served: all that the
\* freshest one may be asked for is live, and so is the interval of the freshest
\* one that has any.
IsFreshest(c, S) == c \in S /\ \A d \in S : c.lead <= d.lead
Positive(S) == {c \in S : c.lead > 0}
Intact(S) ==
    /\ \A c \in S : Eligible(c.cycle)
    /\ \A c \in S, v \in Variables :
         IsFreshest(c, S) /\ Target(c, v) \in Units => unit[Target(c, v)] = "live"
    /\ \A c \in S, v \in Variables \cap IntervalVariables :
         IsFreshest(c, Positive(S)) => unit[Target(c, v)] = "live"
Anchored(a, t) ==
    /\ t \in DOMAIN a.anchors /\ IsFreshest(a.anchors[t], a.pairs[t]) /\ a.anchors[t].cycle \in a.opened
    /\ a.anchors[t].lead = 0 /\ Positive(a.pairs[t]) # {} =>
         \E c \in a.pairs[t] : IsFreshest(c, Positive(a.pairs[t])) /\ c.cycle \in a.opened
CalmAsk(a) == \A t \in DOMAIN a.pairs : Intact(a.pairs[t]) /\ (t \notin a.todo => Anchored(a, t))
CalmRead(a) ==
    /\ a.lost = {} /\ a.ts = {k[1] : k \in a.offered}
    /\ \A k \in a.offered : a.source[k] # NoCandidate
    /\ \A u \in a.used : unit[u] = "live"
    /\ \A u \in DOMAIN a.value : a.value[u] = "value"
Calm(a) == (a.pc = "anchors" => CalmAsk(a)) /\ (a.pc = "read" => CalmRead(a))

IInv == World /\ NewestKept /\ Known(req) /\ (undisturbed => Calm(req))

----------------------------------------------------------------------------
(* Numbers, units and candidates. *)

LEMMA Bounds == /\ Cycles \subseteq Nat /\ Cadence \in Nat \ {0} /\ Horizon \in Nat
                /\ MaxEvents \in Nat /\ Move \in Nat
  BY ServingAssumption

LEMMA UnitParts ==
  ASSUME NEW u \in Units
  PROVE  /\ u = <<u[1], u[2], u[3]>> /\ u[1] \in Cycles /\ u[2] \in Leads /\ u[3] \in Variables
         /\ u[1] \in Nat /\ u[2] \in Nat /\ u[2] <= Horizon /\ Time(u) \in Nat
         /\ u[3] \in IntervalVariables => u[2] > 0
<1>1. /\ u = <<u[1], u[2], u[3]>> /\ u[1] \in Cycles /\ u[2] \in Leads /\ u[3] \in Variables
      /\ ~(u[2] = 0 /\ u[3] \in IntervalVariables)
  BY DEF Units
<1>2. u[1] \in Nat /\ u[2] \in Nat /\ u[2] <= Horizon
  BY <1>1, Bounds DEF Leads
<1>. QED
  BY <1>1, <1>2, Bounds DEF Time, ValidTime

LEMMA UnitOf ==
  ASSUME NEW c \in Cycles, NEW l \in Leads, NEW v \in Variables
  PROVE  /\ <<c, l, v>> \in Units <=> ~(l = 0 /\ v \in IntervalVariables)
         /\ ValidTime(c, l) = Time(<<c, l, v>>)
  BY DEF Units, Time

\* At one valid time a lead belongs to one cycle.
LEMMA OneCycle ==
  ASSUME NEW c \in Nat, NEW d \in Nat, NEW l \in Nat, ValidTime(c, l) = ValidTime(d, l)
  PROVE  c = d
<1>1. Cadence \in Nat \ {0}
  BY Bounds
<1>. QED
  BY <1>1, Z3 DEF ValidTime

LEMMA CandidateIs ==
  ASSUME NEW c \in Cycles, NEW l \in Leads, NEW V \in SUBSET Variables
  PROVE  /\ Candidate(c, l, V) \in CandidateSet /\ Candidate(c, l, V).cycle = c
         /\ Candidate(c, l, V).lead = l /\ Candidate(c, l, V).vars = V
  BY DEF Candidate, CandidateSet

LEMMA NoneIsNoCandidate ==
  NoCandidate \notin CandidateSet
<1>1. "none" # "surface"
  OBVIOUS
<1>2. \A c \in CandidateSet : c.products = {"surface"}
  BY DEF CandidateSet
<1>3. NoCandidate.products = {"none"}
  BY DEF NoCandidate
<1>. QED
  BY <1>1, <1>2, <1>3

LEMMA SmallestNumber ==
  ASSUME NEW S \in SUBSET Nat, S # {}
  PROVE  \E m \in S : \A n \in S : m <= n
<1> DEFINE T == {0..n : n \in S}
<1>1. T \subseteq FiniteSubsetsOf(Nat) /\ T # {}
  <2>1. \A n \in S : 0..n \in SUBSET Nat /\ IsFiniteSet(0..n)
    BY FS_Interval
  <2>. QED
    BY <2>1 DEF FiniteSubsetsOf
<1>2. \E x \in T : \A y \in T : ~(<<y, x>> \in StrictSubsetOrdering(Nat))
  <2> HIDE DEF T
  <2>. QED
    BY <1>1, FS_StrictSubsetOrderingWellFounded, WFMin
<1>3. PICK m \in S : \A n \in S : ~(<<0..n, 0..m>> \in StrictSubsetOrdering(Nat))
  BY <1>2
<1>4. ASSUME NEW n \in S, n < m PROVE FALSE
  <2>1. 0..n \in SUBSET Nat /\ 0..m \in SUBSET Nat /\ 0..n \subseteq 0..m
    BY <1>4
  <2>2. m \in 0..m /\ m \notin 0..n
    BY <1>4
  <2>. QED
    BY <1>3, <2>1, <2>2 DEF StrictSubsetOrdering
<1>. QED
  BY <1>4

\* The freshest of some candidates is one of them, with the smallest lead.
LEMMA FreshestIs ==
  ASSUME NEW S \in SUBSET CandidateSet
  PROVE  /\ S # {} => IsFreshest(Freshest(S), S) /\ Freshest(S) # NoCandidate /\ Freshest(S) \in CandidateSet
         /\ S = {} => Freshest(S) = NoCandidate
<1>1. CASE S = {}
  BY <1>1 DEF Freshest
<1>2. CASE S # {}
  <2> DEFINE L == {c.lead : c \in S}
  <2>1. L \in SUBSET Nat /\ L # {}
    BY <1>2, Bounds DEF CandidateSet, Leads
  <2>2. \E m \in L : \A n \in L : m <= n
    <3> HIDE DEF L
    <3>. QED
      BY <2>1, SmallestNumber
  <2>3. \E c \in S : \A d \in S : c.lead <= d.lead
    BY <2>2
  <2>4. IsFreshest(Freshest(S), S)
    BY <1>2, <2>3 DEF Freshest, IsFreshest
  <2>. QED
    BY <1>2, <2>4, NoneIsNoCandidate DEF IsFreshest
<1>. QED
  BY <1>1, <1>2

----------------------------------------------------------------------------
(* What a discovery finds. *)

LEMMA RowsAre ==
  ASSUME NEW c \in Cycles, NEW l \in Leads
  PROVE  /\ Rows(c, l) \in SUBSET Variables
         /\ \A v \in Variables : v \in Rows(c, l) <=> <<c, l, v>> \in Units /\ unit[<<c, l, v>>] = "live"
  BY DEF Rows

\* Every candidate of a valid time is a lead of an eligible run; what it shows
\* is there or was removed.
LEMMA DiscoveredIs ==
  ASSUME World, NEW t, NEW d \in Discovered(t)
  PROVE  /\ d \in CandidateSet /\ Eligible(d.cycle) /\ ValidTime(d.cycle, d.lead) = t /\ d.vars # {}
         /\ d.vars \in SUBSET Variables
         /\ \A v \in Variables : Target(d, v) \in Units => unit[Target(d, v)] # "absent"
         /\ d.lead = 0 => "temperature_2m" \in d.vars
<1>1. PICK c \in Cycles : Eligible(c) /\ d \in Found(c, t)
  BY DEF Discovered
<1>2. CASE \E l \in Leads : d = Candidate(c, l, Rows(c, l)) /\ ValidTime(c, l) = t /\ Rows(c, l) # {}
  <2>1. PICK l \in Leads : d = Candidate(c, l, Rows(c, l)) /\ ValidTime(c, l) = t /\ Rows(c, l) # {}
    BY <1>2
  <2>2. d \in CandidateSet /\ d.cycle = c /\ d.lead = l /\ d.vars = Rows(c, l)
    BY <2>1, RowsAre, CandidateIs
  <2>3. \A v \in d.vars : v \in Variables /\ <<c, l, v>> \in Units /\ unit[<<c, l, v>>] = "live"
    BY <2>2, RowsAre
  <2>4. \A v, w \in Variables : <<c, l, v>> \in Units /\ <<c, l, w>> \in Units =>
            (unit[<<c, l, v>>] = "absent" <=> unit[<<c, l, w>>] = "absent")
    BY DEF World
  <2>5. \A v \in Variables : <<c, l, v>> \in Units => unit[<<c, l, v>>] # "absent"
    BY <2>1, <2>2, <2>3, <2>4
  <2>6. l = 0 => "temperature_2m" \in d.vars
    BY <2>1, <2>2, <2>3, UnitOf DEF Variables, IntervalVariables
  <2>. QED
    BY <1>1, <2>1, <2>2, <2>3, <2>5, <2>6 DEF Target
<1>3. CASE Legacy(c) /\ \E l \in Leads : d = Candidate(c, l, Variables) /\ ValidTime(c, l) = t
  <2>1. PICK l \in Leads : d = Candidate(c, l, Variables) /\ ValidTime(c, l) = t
    BY <1>3
  <2>2. d \in CandidateSet /\ d.cycle = c /\ d.lead = l /\ d.vars = Variables
    BY <2>1, CandidateIs
  <2>3. ASSUME NEW v \in Variables, <<c, l, v>> \in Units PROVE unit[<<c, l, v>>] # "absent"
    <3>1. progress[c] = Horizon + 1 /\ l \in Nat /\ l <= Horizon
      BY <1>3, Bounds DEF Legacy, Ready, Leads
    <3>2. ~(progress[c] <= l)
      BY <3>1, Bounds
    <3>. QED
      BY <2>3, <3>2 DEF World
  <2>. QED
    BY <1>1, <2>1, <2>2, <2>3 DEF Target, Variables
<1>. QED
  BY <1>1, <1>2, <1>3 DEF Found

\* The candidates with rows, which is what the planner goes by, show live units.
LEMMA LiveIs ==
  ASSUME NEW t, NEW d \in Live(t)
  PROVE  /\ d \in CandidateSet /\ ValidTime(d.cycle, d.lead) = t /\ d.vars # {} /\ d.vars \in SUBSET Variables
         /\ \A v \in d.vars : Target(d, v) \in Units /\ unit[Target(d, v)] = "live"
<1>1. PICK c \in Cycles, l \in Leads : d = Candidate(c, l, Rows(c, l)) /\ ValidTime(c, l) = t /\ Rows(c, l) # {}
  BY DEF Live
<1>2. d \in CandidateSet /\ d.cycle = c /\ d.lead = l /\ d.vars = Rows(c, l) /\ Rows(c, l) \in SUBSET Variables
  BY <1>1, RowsAre, CandidateIs
<1>3. \A v \in d.vars : <<c, l, v>> \in Units /\ unit[<<c, l, v>>] = "live"
  BY <1>2, RowsAre
<1>. QED
  BY <1>1, <1>2, <1>3 DEF Target

LEMMA RunIsEligible ==
  ASSUME World, NEW u \in Units, unit[u] # "absent", Time(u) >= start
  PROVE  Eligible(u[1])
<1>1. u[1] \in Cycles /\ u[1] \in Nat /\ u[2] \in Nat /\ u[2] <= Horizon
  BY UnitParts
<1>2. progress[u[1]] \in Nat /\ ~(progress[u[1]] <= u[2])
  BY <1>1, Bounds DEF World
<1>3. ASSUME u[1] \in fenced PROVE FALSE
  <2>1. ValidTime(u[1], Horizon) < start
    BY <1>3 DEF World
  <2>2. u[1] * Cadence \in Nat /\ start \in Nat
    BY <1>1, Bounds DEF World
  <2>. QED
    BY <1>1, <2>1, <2>2, Bounds DEF Time, ValidTime
<1>. QED
  BY <1>1, <1>2, <1>3 DEF Eligible

\* A live unit of the window makes its lead a candidate.
LEMMA LiveFound ==
  ASSUME World, NEW u \in Units, unit[u] = "live", Time(u) >= start
  PROVE  \E d \in CandidateSet : /\ d.cycle = u[1] /\ d.lead = u[2] /\ u[3] \in d.vars
                                 /\ d \in Live(Time(u)) /\ d \in Discovered(Time(u))
<1>1. /\ u[1] \in Cycles /\ u[2] \in Leads /\ u[3] \in Variables /\ u = <<u[1], u[2], u[3]>>
      /\ Time(u) = ValidTime(u[1], u[2])
  BY UnitParts DEF Time
<1> DEFINE d == Candidate(u[1], u[2], Rows(u[1], u[2]))
<1>2. u[3] \in Rows(u[1], u[2])
  BY <1>1, RowsAre
<1>3. Eligible(u[1])
  BY RunIsEligible
<1>4. d \in CandidateSet /\ d.cycle = u[1] /\ d.lead = u[2] /\ d.vars = Rows(u[1], u[2])
  BY <1>1, RowsAre, CandidateIs
<1>5. d \in Found(u[1], Time(u)) /\ d \in Live(Time(u))
  BY <1>1, <1>2, <1>3 DEF Found, Live
<1>6. d \in Discovered(Time(u))
  BY <1>1, <1>3, <1>5 DEF Discovered
<1>. QED
  BY <1>2, <1>4, <1>5, <1>6

\* Of what is discovered and no longer live there is something fresher.
LEMMA FresherFound ==
  ASSUME World, NewestKept, NEW t \in Times, t >= start, NEW d \in Discovered(t), NEW v \in Variables,
         Target(d, v) \in Units, unit[Target(d, v)] # "live"
  PROVE  \E e \in Discovered(t) : /\ e.lead < d.lead /\ v \in e.vars
                                  /\ v \in IntervalVariables => e.lead > 0
<1> DEFINE u == Target(d, v)
<1>1. d \in CandidateSet /\ Time(u) = t /\ u[2] = d.lead /\ u[3] = v
  BY DiscoveredIs DEF Target, Time
<1>2. u \in Units /\ unit[u] # "absent"
  BY DiscoveredIs
<1>3. PICK x \in Units : Stands(x, u)
  BY <1>1, <1>2 DEF NewestKept
<1>4. unit[x] = "live" /\ x[3] = v /\ Time(x) = t /\ x[2] < d.lead
  BY <1>1, <1>3 DEF Stands
<1>5. PICK e \in CandidateSet : e.cycle = x[1] /\ e.lead = x[2] /\ x[3] \in e.vars /\ e \in Discovered(t)
  BY <1>4, LiveFound
<1>6. v \in IntervalVariables => e.lead > 0
  BY <1>4, <1>5, UnitParts
<1>. QED
  BY <1>4, <1>5, <1>6

\* The freshest candidate of a valid time, and the freshest with an interval,
\* are live where they can be asked.
LEMMA DiscoveredIntact ==
  ASSUME World, NewestKept, NEW t \in Times, t >= start
  PROVE  Intact(Discovered(t))
<1> DEFINE S == Discovered(t)
<1>1. \A c \in S : c \in CandidateSet /\ Eligible(c.cycle) /\ c.lead \in Nat
  BY DiscoveredIs, Bounds DEF CandidateSet, Leads
<1>2. ASSUME NEW c \in S, NEW v \in Variables, IsFreshest(c, S), Target(c, v) \in Units
      PROVE  unit[Target(c, v)] = "live"
  <2>1. SUFFICES ASSUME unit[Target(c, v)] # "live" PROVE FALSE
    OBVIOUS
  <2>2. PICK e \in S : e.lead < c.lead
    BY <1>2, <2>1, FresherFound
  <2>. QED
    BY <1>1, <1>2, <2>2 DEF IsFreshest
<1>3. ASSUME NEW c \in S, NEW v \in Variables \cap IntervalVariables, IsFreshest(c, Positive(S))
      PROVE  unit[Target(c, v)] = "live"
  <2>1. SUFFICES ASSUME unit[Target(c, v)] # "live" PROVE FALSE
    OBVIOUS
  <2>2. c.cycle \in Cycles /\ c.lead \in Leads /\ c.lead > 0
    BY <1>1, <1>3 DEF IsFreshest, Positive, CandidateSet
  <2>3. Target(c, v) \in Units
    BY <2>2, UnitOf DEF Target
  <2>4. PICK e \in S : e.lead < c.lead /\ e.lead > 0
    BY <2>1, <2>3, FresherFound
  <2>. QED
    BY <1>1, <1>3, <2>4 DEF IsFreshest, Positive
<1>. QED
  BY <1>1, <1>2, <1>3 DEF Intact

\* Selecting a variable's source is taking the freshest candidate that can show it.
Shows(S, v) == {c \in S : v \in c.vars /\ (v \in IntervalVariables => c.lead > 0)}

LEMMA SelectIs ==
  ASSUME NEW S \in SUBSET CandidateSet, \A c \in S : c.vars # {}, NEW v \in Variables
  PROVE  SelectVariable(S, v) = Freshest(Shows(S, v))
<1>1. v \notin CompanionVariables /\ v # "wind_10m"
  BY DEF Variables, CompanionVariables
<1>2. \A c \in S : Offers(c, v) <=> v \in c.vars
  BY <1>1 DEF Offers
<1> DEFINE zero == v \in IntervalVariables /\ Freshest(S).lead = 0
           R == {c \in S : Offers(c, v) /\ (zero => c.lead > 0)}
<1>3. SelectVariable(S, v) = Freshest(R)
  BY <1>1 DEF SelectVariable
<1>4. \A c \in S : v \in IntervalVariables /\ ~zero => c.lead > 0
  <2>1. \A c \in S : c.lead \in Nat
    BY Bounds DEF CandidateSet, Leads
  <2>2. \A c \in S : Freshest(S).lead <= c.lead /\ Freshest(S) \in S
    BY FreshestIs DEF IsFreshest
  <2>. QED
    BY <2>1, <2>2
<1>5. R = Shows(S, v)
  BY <1>2, <1>4 DEF Shows
<1>. QED
  BY <1>3, <1>5

LEMMA ShowsIs ==
  ASSUME NEW S \in SUBSET CandidateSet, \A c \in S : c.vars # {}, NEW v \in Variables
  PROVE  /\ Shows(S, v) # {} => /\ IsFreshest(SelectVariable(S, v), Shows(S, v))
                                /\ SelectVariable(S, v) \in CandidateSet
                                /\ SelectVariable(S, v) # NoCandidate
         /\ SelectVariable(S, v) # NoCandidate => Shows(S, v) # {}
<1>1. Shows(S, v) \in SUBSET CandidateSet /\ SelectVariable(S, v) = Freshest(Shows(S, v))
  BY SelectIs DEF Shows
<1>. QED
  BY <1>1, FreshestIs

----------------------------------------------------------------------------
(* Garbage collection. *)

\* What a fence takes leaves a fresher live unit behind.
LEMMA FenceLeaves ==
  ASSUME World, NEW u \in Units, unit[u] = "live", ~Needed(u), Time(u) >= start
  PROVE  \E x \in Units : Stands(x, u) /\ x # u
<1> DEFINE t == Time(u)
           S == Live(t)
           s == SelectVariable(S, u[3])
<1>1. /\ S \in SUBSET CandidateSet /\ \A c \in S : c.vars # {}
      /\ u[3] \in Variables /\ u = <<u[1], u[2], u[3]>> /\ u[1] \in Nat /\ u[2] \in Nat
      /\ u[3] \in IntervalVariables => u[2] > 0
  BY LiveIs, UnitParts
<1>2. PICK d \in S : d.cycle = u[1] /\ d.lead = u[2] /\ u[3] \in d.vars
  BY LiveFound
<1>3. d \in Shows(S, u[3])
  BY <1>1, <1>2 DEF Shows
<1>4. s \in Shows(S, u[3]) /\ s.lead <= u[2] /\ s # NoCandidate
  <2> HIDE DEF S
  <2>. QED
    BY <1>1, <1>2, <1>3, ShowsIs DEF IsFreshest
<1>5. s.cycle # u[1] \/ s.lead # u[2]
  BY <1>4 DEF Needed, Time
<1>6. s \in S /\ u[3] \in s.vars
  BY <1>4 DEF Shows
<1>7. Target(s, u[3]) \in Units /\ unit[Target(s, u[3])] = "live" /\ ValidTime(s.cycle, s.lead) = t
  BY <1>6, LiveIs
<1>8. s.lead # u[2]
  <2>1. s.cycle \in Nat
    BY <1>1, <1>6, Bounds DEF CandidateSet
  <2>. QED
    BY <1>1, <1>5, <1>7, <2>1, OneCycle DEF Time
<1>9. Stands(Target(s, u[3]), u) /\ Target(s, u[3]) # u
  <2>1. s.lead \in Nat
    BY <1>1, <1>6, Bounds DEF CandidateSet, Leads
  <2>. QED
    BY <1>1, <1>4, <1>7, <1>8, <2>1 DEF Stands, Time, Target
<1>. QED
  BY <1>7, <1>9

----------------------------------------------------------------------------
(* The world. *)

LEMMA InitWorld ==
  ASSUME Init
  PROVE  World /\ NewestKept /\ Known(req) /\ Calm(req)
<1>1. World
  <2>1. unit \in [Units -> States] /\ progress \in [Cycles -> 0..(Horizon + 1)]
    <3>1. 0 \in 0..(Horizon + 1) /\ Horizon + 1 \in 0..(Horizon + 1)
      BY Bounds
    <3>. QED
      BY <3>1 DEF Init, States
  <2>2. fenced = {} /\ start \in Cadence..(Cadence + Move) /\ faults \in Nat /\ Events <= MaxEvents /\ undisturbed \in BOOLEAN
    BY Bounds DEF Init, Events
  <2>3. ASSUME NEW u \in Units PROVE unit[u] = "absent" <=> progress[u[1]] <= u[2]
    <3>1. progress[u[1]] = IF u[1] = 0 THEN Horizon + 1 ELSE 0
      BY UnitParts DEF Init
    <3>2. unit[u] = "absent" <=> u[1] # 0
      BY DEF Init
    <3>. QED
      BY <3>1, <3>2, UnitParts, Bounds
  <2>. QED
    BY <2>1, <2>2, <2>3 DEF World
<1>2. NewestKept
  <2>1. SUFFICES ASSUME NEW u \in Units, unit[u] # "absent", Time(u) >= start PROVE unit[u] = "live"
    BY DEF NewestKept, Stands
  <2>2. u[1] = 0 /\ (unit[u] = "live" \/ u[2] < Cadence)
    BY <2>1 DEF Init
  <2>3. Time(u) = u[2] /\ start = Cadence
    BY <2>2, UnitParts, Bounds DEF Time, ValidTime, Init
  <2>. QED
    BY <2>1, <2>2, <2>3, UnitParts, Bounds
<1>. QED
  BY <1>1, <1>2 DEF Init, Known, Calm, NoRequest

LEMMA PublishWorld ==
  ASSUME World, NewestKept, NEW c \in Cycles, Publish(c)
  PROVE  /\ World' /\ NewestKept' /\ \A u \in Units : unit[u] = "live" => unit'[u] = "live"
         /\ \A d \in Cycles : Eligible(d) => Eligible(d)'
<1>1. /\ progress[c] \in Nat /\ progress[c] <= Horizon /\ progress' = [progress EXCEPT ![c] = @ + 1]
      /\ unit' = [u \in Units |-> IF u[1] = c /\ u[2] = progress[c] THEN "live" ELSE unit[u]]
      /\ UNCHANGED <<fenced, start, faults, undisturbed>>
  BY Bounds DEF World, Publish
<1>2. unit' \in [Units -> States] /\ progress' \in [Cycles -> 0..(Horizon + 1)]
  <2>1. progress[c] + 1 \in 0..(Horizon + 1)
    BY <1>1, Bounds
  <2>. QED
    BY <1>1, <2>1 DEF World, States
<1>3. ASSUME NEW u \in Units PROVE unit'[u] = "absent" <=> progress'[u[1]] <= u[2]
  <2>1. unit[u] = "absent" <=> progress[u[1]] <= u[2]
    BY DEF World
  <2>2. progress'[u[1]] = IF u[1] = c THEN progress[c] + 1 ELSE progress[u[1]]
    BY <1>1, UnitParts DEF World
  <2>. QED
    BY <1>1, <2>1, <2>2, UnitParts
<1>4. World'
  BY <1>1, <1>2, <1>3 DEF World, Events
<1>5. \A u \in Units : unit[u] = "live" => unit'[u] = "live"
  BY <1>1
<1>6. NewestKept'
  <2>1. SUFFICES ASSUME NEW u \in Units, unit'[u] # "absent", Time(u) >= start
                 PROVE  \E x \in Units : Stands(x, u)'
    BY <1>1 DEF NewestKept, Time, ValidTime
  <2>2. CASE unit'[u] = "live"
    BY <2>2 DEF Stands
  <2>3. CASE unit'[u] # "live"
    <3>1. unit[u] # "absent"
      BY <1>1, <2>1, <2>3
    <3>. QED
      BY <1>5, <2>1, <3>1 DEF NewestKept, Stands
  <2>. QED
    BY <2>2, <2>3
<1>7. \A d \in Cycles : Eligible(d) => Eligible(d)'
  <2>1. \A d \in Cycles : progress[d] > 0 => progress'[d] > 0
    BY <1>1, Bounds DEF World
  <2>. QED
    BY <1>1, <2>1 DEF Eligible
<1>. QED
  BY <1>4, <1>5, <1>6, <1>7

LEMMA FenceWorld ==
  ASSUME World, NewestKept, NEW u \in Units, Fence(u)
  PROVE  World' /\ NewestKept'
<1>1. /\ unit[u] = "live" /\ ~Needed(u) /\ unit' = [unit EXCEPT ![u] = "fenced"]
      /\ undisturbed' = FALSE /\ UNCHANGED <<progress, fenced, start, faults>>
  BY DEF Fence, Claimable
<1>2. World'
  <2>1. unit' \in [Units -> States] /\ \A x \in Units : unit'[x] = "absent" <=> unit[x] = "absent"
    BY <1>1 DEF World, States
  <2>. QED
    BY <1>1, <2>1 DEF World, Events
<1>3. \A x \in Units : x # u => unit'[x] = unit[x]
  BY <1>1 DEF World
<1>4. NewestKept'
  <2>1. SUFFICES ASSUME NEW w \in Units, unit'[w] # "absent", Time(w) >= start
                 PROVE  \E x \in Units : Stands(x, w)'
    BY <1>1 DEF NewestKept, Time, ValidTime
  <2>2. unit[w] # "absent"
    BY <1>1, <1>3, <2>1
  <2>3. PICK x \in Units : Stands(x, w)
    BY <2>1, <2>2 DEF NewestKept
  <2>4. CASE x # u
    BY <1>3, <2>3, <2>4 DEF Stands
  <2>5. CASE x = u
    <3>1. Time(u) >= start
      BY <2>1, <2>3, <2>5 DEF Stands
    <3>2. PICK y \in Units : Stands(y, u) /\ y # u
      BY <1>1, <3>1, FenceLeaves
    <3>3. y[2] \in Nat /\ u[2] \in Nat /\ w[2] \in Nat
      BY UnitParts
    <3>. QED
      BY <1>3, <2>3, <2>5, <3>2, <3>3 DEF Stands
  <2>. QED
    BY <2>4, <2>5
<1>. QED
  BY <1>2, <1>4

\* A step that leaves the units where they are, but for those already claimed.
LEMMA OtherWorld ==
  ASSUME World, NewestKept,
         \/ \E u \in Units : Delete(u)
         \/ \E c \in Cycles : FenceCycle(c)
         \/ Advance
  PROVE  World' /\ NewestKept' /\ \A u \in Units : unit[u] = "live" => unit'[u] = "live"
<1>1. /\ unit' \in [Units -> States] /\ progress' = progress /\ faults' = faults
      /\ \A u \in Units : unit'[u] = unit[u] \/ (unit[u] = "fenced" /\ unit'[u] = "gone")
  BY DEF World, States, Delete, FenceCycle, Advance
<1>2. start \in Nat /\ start' \in Nat /\ start' >= start /\ start' \in Cadence..(Cadence + Move) /\ Events' <= MaxEvents
  BY Bounds DEF World, Delete, FenceCycle, Advance, Events
<1>3. fenced' \in SUBSET Cycles /\ undisturbed' \in BOOLEAN
  BY DEF World, Delete, FenceCycle, Advance
<1>4. \A c \in fenced' : ValidTime(c, Horizon) < start'
  <2>1. \A c \in fenced' : c \in Nat /\ ValidTime(c, Horizon) \in Nat
    BY <1>3, Bounds DEF ValidTime
  <2>2. \A c \in fenced' : ValidTime(c, Horizon) < start
    BY DEF World, Delete, FenceCycle, Advance
  <2>. QED
    BY <1>2, <2>1, <2>2
<1>5. World'
  BY <1>1, <1>2, <1>3, <1>4 DEF World, ValidTime
<1>6. NewestKept'
  <2>1. SUFFICES ASSUME NEW u \in Units, unit'[u] # "absent", Time(u) >= start'
                 PROVE  \E x \in Units : Stands(x, u)'
    BY DEF NewestKept, Time, ValidTime
  <2>2. unit[u] # "absent" /\ Time(u) >= start
    BY <1>1, <1>2, <2>1, UnitParts
  <2>. QED
    BY <1>1, <2>2 DEF NewestKept, Stands, Time, ValidTime
<1>. QED
  BY <1>1, <1>5, <1>6

LEMMA RequestWorld ==
  ASSUME World, NewestKept, (\E kind \in {"det", "mean"} : Discover(kind)) \/ Request
  PROVE  World' /\ NewestKept' /\ UNCHANGED catalog
<1>1. UNCHANGED catalog /\ undisturbed' \in BOOLEAN
  BY DEF World, Request, Discover, Anchor, Plan, Read, Respond
<1>2. faults' \in Nat /\ Events' <= MaxEvents
  <2>1. faults \in Nat /\ start \in Nat /\ Cadence \in Nat /\ MaxEvents \in Nat /\ Events <= MaxEvents /\ start' = start
    BY <1>1, Bounds DEF World, catalog
  <2>2. CASE \E t \in Times, bad \in Broken : Anchor(t, bad)
    <3>1. PICK bad \in Broken : faults' = faults + Cardinality(bad)
      BY <2>2 DEF Anchor
    <3>2. Cardinality(bad) \in Nat /\ Events + Cardinality(bad) <= MaxEvents
      BY ServingAssumption, FS_Subset, FS_CardinalityType DEF Broken
    <3>. QED
      BY <2>1, <3>1, <3>2 DEF Events
  <2>3. CASE \E c \in Cycles, broken \in BOOLEAN : Events + (IF broken THEN 1 ELSE 0) <= MaxEvents /\ Read(c, broken)
    BY <2>1, <2>3 DEF Read, Events
  <2>4. CASE \E fails \in BOOLEAN : Events + (IF fails THEN 1 ELSE 0) <= MaxEvents /\ Respond(fails)
    BY <2>1, <2>4 DEF Respond, Events
  <2>5. CASE Plan \/ \E kind \in {"det", "mean"} : Discover(kind)
    BY <2>1, <2>5 DEF Plan, Discover, Events
  <2>. QED
    BY <2>2, <2>3, <2>4, <2>5 DEF Request
<1>3. World'
  BY <1>1, <1>2 DEF World, catalog, ValidTime
<1>4. NewestKept'
  BY <1>1 DEF NewestKept, Stands, Time, ValidTime, catalog
<1>. QED
  BY <1>1, <1>3, <1>4

----------------------------------------------------------------------------
(* The request. *)

LEMMA SameRequest ==
  ASSUME Known(req), req' = req
  PROVE  Known(req')
  OBVIOUS

LEMMA CalmInSameWorld ==
  ASSUME UNCHANGED catalog, Calm(req')
  PROVE  Calm(req)'
<1>1. unit' = unit /\ progress' = progress /\ fenced' = fenced
  BY DEF catalog
<1>2. ASSUME NEW S, Intact(S) PROVE Intact(S)'
  BY <1>1, <1>2 DEF Intact, Eligible, IsFreshest, Positive, Target
<1>3. ASSUME CalmAsk(req') PROVE CalmAsk(req)'
  BY <1>2, <1>3 DEF CalmAsk, Anchored, IsFreshest, Positive
<1>4. ASSUME CalmRead(req') PROVE CalmRead(req)'
  BY <1>1, <1>4 DEF CalmRead
<1>. QED
  BY <1>3, <1>4 DEF Calm

LEMMA DiscoverStep ==
  ASSUME World, NewestKept, NEW kind \in {"det", "mean"}, Discover(kind)
  PROVE  Known(req') /\ Calm(req')
<1> DEFINE P == Candidates
           D == DOMAIN Candidates
<1>1. /\ D # {} /\ D \in SUBSET Times /\ \A t \in D : t >= start /\ P[t] = Discovered(t) /\ P[t] # {}
      /\ P = [t \in D |-> Discovered(t)]
  BY DEF Discover, Candidates
<1>2. P \in [D -> SUBSET CandidateSet]
  <2>1. \A t \in D : P[t] \in SUBSET CandidateSet
    BY <1>1, DiscoveredIs
  <2>. QED
    BY <1>1, <2>1
<1> HIDE DEF P
<1>3. DOMAIN P = D
  BY <1>2
<1>4. Offered(P) \in SUBSET (Times \X Variables)
  BY <1>1, <1>3 DEF Offered
<1>5. D = {k[1] : k \in Offered(P)}
  <2>1. ASSUME NEW t \in D PROVE \E k \in Offered(P) : k[1] = t
    <3>1. PICK d \in P[t] : TRUE
      BY <1>1
    <3>2. /\ d \in CandidateSet /\ d.vars # {} /\ d.vars \in SUBSET Variables
          /\ d.lead = 0 => "temperature_2m" \in d.vars
      BY <1>1, DiscoveredIs
    <3>3. d.lead \in Nat
      BY <3>2, Bounds DEF CandidateSet, Leads
    <3>4. PICK v \in d.vars : v \in IntervalVariables => d.lead > 0
      BY <3>2, <3>3 DEF IntervalVariables
    <3>5. <<t, v>> \in Offered(P)
      BY <1>3, <3>1, <3>2, <3>4 DEF Offered
    <3>. QED
      BY <3>5
  <2>2. \A k \in Offered(P) : k[1] \in D
    BY <1>3 DEF Offered
  <2>. QED
    BY <2>1, <2>2
<1>6. req' = [pc |-> "anchors", kind |-> kind, pairs |-> P, offered |-> Offered(P),
              todo |-> D, opened |-> {}, anchors |-> [t \in {} |-> NoCandidate]]
  BY <1>3 DEF Discover, P
<1>7. KnownAsk(req')
  <2>1. req'.pairs = P /\ req'.offered = Offered(P) /\ req'.todo = D /\ DOMAIN req'.anchors = {}
    BY <1>6
  <2>2. req' \in AskRecords(D, {})
    BY <1>2, <1>4, <1>6 DEF AskRecords
  <2>. QED
    BY <1>1, <1>3, <1>5, <2>1, <2>2 DEF KnownAsk
<1>8. CalmAsk(req')
  <2>1. \A t \in D : Intact(P[t])
    BY <1>1, DiscoveredIntact
  <2>. QED
    BY <1>3, <1>6, <2>1 DEF CalmAsk
<1>. QED
  BY <1>6, <1>7, <1>8 DEF Known, Calm

LEMMA AnchorStep ==
  ASSUME World, Known(req), undisturbed => Calm(req), NEW t \in Times, NEW bad \in Broken, Anchor(t, bad)
  PROVE  Known(req') /\ (undisturbed' => Calm(req'))
<1> DEFINE S == req.pairs[t]
           opens == {c \in S : Openable(c.cycle) /\ (c.cycle \in req.opened \/ c.cycle \notin bad)}
           anchor == Freshest(opens)
           spare == IF anchor.lead = 0 THEN Freshest({c \in opens : c.lead > 0}) ELSE NoCandidate
           taken == {anchor, spare} \ {NoCandidate}
           added == IF anchor = NoCandidate THEN req.anchors
                    ELSE [x \in DOMAIN req.anchors \cup {t} |-> IF x = t THEN anchor ELSE req.anchors[x]]
           open == req.opened \cup {c.cycle : c \in taken}
<1>1. /\ req.pc = "anchors" /\ t \in req.todo
      /\ req' = [req EXCEPT !.todo = @ \ {t}, !.opened = open, !.anchors = added]
      /\ undisturbed' = (undisturbed /\ bad = {})
  BY DEF Anchor
<1>2. KnownAsk(req)
  BY <1>1 DEF Known
<1>3. S \in SUBSET CandidateSet /\ opens \in SUBSET CandidateSet /\ t \in DOMAIN req.pairs
  BY <1>1, <1>2 DEF KnownAsk, AskRecords
<1>4. /\ opens # {} => IsFreshest(anchor, opens) /\ anchor \in CandidateSet /\ anchor # NoCandidate /\ anchor \in S
      /\ opens = {} => anchor = NoCandidate
  <2> HIDE DEF S
  <2>. QED
    BY <1>3, FreshestIs DEF IsFreshest
<1>5. /\ Positive(opens) # {} => IsFreshest(Freshest(Positive(opens)), Positive(opens))
                                /\ Freshest(Positive(opens)) # NoCandidate
      /\ taken \in SUBSET CandidateSet
  <2>1. {c \in opens : c.lead > 0} = Positive(opens) /\ Positive(opens) \in SUBSET CandidateSet
    BY <1>3 DEF Positive
  <2>2. /\ Positive(opens) # {} => IsFreshest(Freshest(Positive(opens)), Positive(opens))
                                /\ Freshest(Positive(opens)) # NoCandidate
        /\ Freshest(Positive(opens)) \in CandidateSet \cup {NoCandidate}
    BY <2>1, FreshestIs
  <2>3. anchor \in CandidateSet \cup {NoCandidate}
    BY <1>4
  <2> HIDE DEF opens, anchor
  <2>. QED
    BY <2>1, <2>2, <2>3
<1> HIDE DEF anchor
<1>6. open \in SUBSET Cycles
  <2>1. req.opened \in SUBSET Cycles
    BY <1>2 DEF KnownAsk, AskRecords
  <2>2. \A c \in taken : c.cycle \in Cycles
    BY <1>5 DEF CandidateSet
  <2> HIDE DEF taken
  <2>. QED
    BY <2>1, <2>2
<1>7. /\ added \in [DOMAIN added -> CandidateSet] /\ DOMAIN req.anchors \subseteq DOMAIN added
      /\ DOMAIN added \subseteq DOMAIN req.anchors \cup {t}
      /\ anchor # NoCandidate => t \in DOMAIN added /\ added[t] = anchor
      /\ \A x \in DOMAIN req.anchors : x # t => added[x] = req.anchors[x]
  <2>1. req.anchors \in [DOMAIN req.anchors -> CandidateSet]
    BY <1>2 DEF KnownAsk, AskRecords
  <2>2. CASE anchor = NoCandidate
    BY <2>1, <2>2
  <2>3. CASE anchor # NoCandidate
    BY <1>4, <2>1, <2>3
  <2>. QED
    BY <2>2, <2>3
<1> HIDE DEF added, open
<1>8. /\ req'.pc = "anchors" /\ req'.pairs = req.pairs /\ req'.offered = req.offered
      /\ req'.todo = req.todo \ {t} /\ req'.opened = open /\ req'.anchors = added
      /\ req' \in AskRecords(DOMAIN req.pairs, DOMAIN added)
  BY <1>1, <1>2, <1>6, <1>7 DEF KnownAsk, AskRecords
<1>9. KnownAsk(req')
  <2>1. DOMAIN added \subseteq DOMAIN req.pairs \ (req.todo \ {t})
    BY <1>2, <1>3, <1>7 DEF KnownAsk
  <2>2. \A x \in DOMAIN added : added[x] \in req.pairs[x]
    <3>1. \A x \in DOMAIN req.anchors : x # t
      BY <1>1, <1>2 DEF KnownAsk
    <3>2. \A x \in DOMAIN req.anchors : added[x] \in req.pairs[x]
      BY <1>2, <1>7, <3>1 DEF KnownAsk
    <3>3. t \in DOMAIN added => added[t] \in req.pairs[t]
      BY <1>4, <1>7, <3>1 DEF added
    <3>. QED
      BY <1>7, <3>2, <3>3
  <2>. QED
    BY <1>2, <1>8, <2>1, <2>2 DEF KnownAsk
<1>10. ASSUME undisturbed' PROVE CalmAsk(req')
  <2>1. bad = {} /\ CalmAsk(req)
    BY <1>1, <1>10 DEF Calm
  <2>2. Intact(S)
    BY <1>3, <2>1 DEF CalmAsk
  <2>3. opens = S
    BY <2>1, <2>2 DEF Intact, Openable
  <2>4. S # {} => Anchored(req', t)
    <3>1. SUFFICES ASSUME S # {} PROVE Anchored(req', t)
      OBVIOUS
    <3>2. IsFreshest(anchor, S) /\ anchor # NoCandidate
      BY <1>4, <2>3, <3>1
    <3>3. anchor \in taken
      BY <3>2
    <3>4. ASSUME anchor.lead = 0, Positive(S) # {}
          PROVE  \E c \in S : IsFreshest(c, Positive(S)) /\ c.cycle \in open
      <4>1. IsFreshest(Freshest(Positive(S)), Positive(S)) /\ Freshest(Positive(S)) # NoCandidate
        BY <1>5, <2>3, <3>4
      <4>2. spare = Freshest(Positive(S))
        BY <2>3, <3>4 DEF Positive
      <4>3. spare \in taken
        BY <4>1, <4>2
      <4>. QED
        BY <4>1, <4>2, <4>3 DEF open, IsFreshest, Positive
    <3>5. anchor.cycle \in open
      BY <3>3 DEF open
    <3>. QED
      BY <1>7, <1>8, <3>2, <3>4, <3>5 DEF Anchored
  <2>5. S # {}
    BY <1>2, <1>3 DEF KnownAsk, Offered
  <2>6. \A x \in DOMAIN req.pairs : x \notin req.todo => Anchored(req', x)
    <3>1. ASSUME NEW x \in DOMAIN req.pairs, x \notin req.todo PROVE Anchored(req', x)
      <4>1. Anchored(req, x) /\ x # t
        BY <1>1, <2>1, <3>1 DEF CalmAsk
      <4>2. req.opened \subseteq open
        BY DEF open
      <4>. QED
        BY <1>7, <1>8, <4>1, <4>2 DEF Anchored
    <3>. QED
      BY <3>1
  <2>. QED
    BY <1>8, <2>1, <2>4, <2>5, <2>6 DEF CalmAsk
<1>. QED
  BY <1>8, <1>9, <1>10 DEF Known, Calm

\* Where the plan takes a variable from: the anchor, or for an interval at lead 0
\* the freshest candidate with a positive lead whose store is open.
LEMMA SourceIs ==
  ASSUME KnownAsk(req), NEW t \in Planned, NEW v \in Variables, NEW s, s = Source(t, v, Paths)
  PROVE  /\ t \in DOMAIN req.pairs /\ s \in CandidateSet \cup {NoCandidate}
         /\ s = NoCandidate => v \in IntervalVariables
         /\ s # NoCandidate => s \in req.pairs[t] /\ Target(s, v) \in Units
         /\ req.anchors[t].lead # 0 \/ v \notin IntervalVariables => s = req.anchors[t] /\ s # NoCandidate
         /\ req.anchors[t].lead = 0 /\ v \in IntervalVariables =>
              /\ s # NoCandidate => s \in Positive(req.pairs[t])
              /\ \A c \in Positive(req.pairs[t]) : c.cycle \in Paths => s # NoCandidate /\ s.lead <= c.lead
<1> DEFINE S == req.pairs[t]
           A == {c \in S : c.lead > 0 /\ c.cycle \in Paths}
<1>1. /\ t \in DOMAIN req.anchors /\ t \in DOMAIN req.pairs
      /\ req.anchors[t] \in CandidateSet /\ req.anchors[t] \in S /\ S \in SUBSET CandidateSet
  BY DEF KnownAsk, AskRecords, Planned
<1>2. req.anchors[t].lead \in Nat /\ req.anchors[t] # NoCandidate
  BY <1>1, NoneIsNoCandidate, Bounds DEF CandidateSet, Leads
<1>3. \A c \in CandidateSet : (v \in IntervalVariables => c.lead > 0) => Target(c, v) \in Units
  <2>1. \A c \in CandidateSet : c.cycle \in Cycles /\ c.lead \in Leads /\ c.lead \in Nat
    BY Bounds DEF CandidateSet, Leads
  <2>. QED
    BY <2>1, UnitOf DEF Target
<1>4. CASE req.anchors[t].lead # 0 \/ v \notin IntervalVariables
  <2>1. s = req.anchors[t]
    BY <1>4 DEF Source
  <2>2. v \in IntervalVariables => s.lead > 0
    BY <1>2, <1>4, <2>1
  <2>. QED
    BY <1>1, <1>2, <1>3, <1>4, <2>1, <2>2
<1>5. CASE req.anchors[t].lead = 0 /\ v \in IntervalVariables
  <2>1. s = Freshest(A) /\ A \in SUBSET CandidateSet
    BY <1>1, <1>5 DEF Source, Interval
  <2>2. /\ A # {} => IsFreshest(s, A) /\ s # NoCandidate /\ s \in CandidateSet
        /\ A = {} => s = NoCandidate
    <3> HIDE DEF A
    <3>. QED
      BY <2>1, FreshestIs
  <2>3. A \subseteq Positive(S) /\ \A c \in Positive(S) : c.cycle \in Paths => c \in A
    BY DEF Positive
  <2>4. s # NoCandidate => s \in Positive(S) /\ s \in CandidateSet
    <3> HIDE DEF A
    <3>. QED
      BY <2>2, <2>3 DEF IsFreshest
  <2>5. s # NoCandidate => s \in S /\ Target(s, v) \in Units
    BY <1>3, <2>4 DEF Positive
  <2>6. \A c \in Positive(S) : c.cycle \in Paths => s # NoCandidate /\ s.lead <= c.lead
    <3> HIDE DEF A
    <3>. QED
      BY <2>2, <2>3 DEF IsFreshest
  <2>. QED
    BY <1>1, <1>5, <2>2, <2>4, <2>5, <2>6
<1>. QED
  BY <1>4, <1>5

\* Undisturbed, every valid time that was found is planned, all that was offered
\* has a source, and all that will be used is live.
LEMMA CalmPlan ==
  ASSUME KnownAsk(req), CalmAsk(req), req.todo = {}
  PROVE  /\ Planned = DOMAIN req.pairs
         /\ \A k \in req.offered : k[1] \in Planned /\ k[2] \in Variables /\ Source(k[1], k[2], Paths) # NoCandidate
         /\ \A u \in Used(Planned, Paths) : unit[u] = "live"
<1>1. \A t \in DOMAIN req.pairs : Intact(req.pairs[t]) /\ Anchored(req, t)
  BY DEF CalmAsk
<1>2. \A t \in DOMAIN req.pairs : \A c \in req.pairs[t] : c.cycle \in req.opened => c.cycle \in Paths
  BY <1>1 DEF Intact, Paths
<1>3. Planned = DOMAIN req.pairs
  <2>1. \A t \in DOMAIN req.pairs : t \in DOMAIN req.anchors /\ req.anchors[t].cycle \in Paths
    BY <1>1, <1>2 DEF Anchored, IsFreshest
  <2>. QED
    BY <2>1 DEF Planned, KnownAsk
<1>4. ASSUME NEW k \in req.offered
      PROVE  k[1] \in Planned /\ k[2] \in Variables /\ Source(k[1], k[2], Paths) # NoCandidate
  <2>1. /\ k[1] \in DOMAIN req.pairs /\ k[2] \in Variables
        /\ k[2] \in IntervalVariables => Positive(req.pairs[k[1]]) # {}
    BY DEF KnownAsk, Offered, Positive
  <2>2. CASE req.anchors[k[1]].lead # 0 \/ k[2] \notin IntervalVariables
    BY <1>3, <2>1, <2>2, SourceIs
  <2>3. CASE req.anchors[k[1]].lead = 0 /\ k[2] \in IntervalVariables
    <3>1. PICK c \in req.pairs[k[1]] : IsFreshest(c, Positive(req.pairs[k[1]])) /\ c.cycle \in req.opened
      BY <1>1, <2>1, <2>3 DEF Anchored
    <3>2. c \in Positive(req.pairs[k[1]]) /\ c.cycle \in Paths
      BY <1>2, <2>1, <3>1 DEF IsFreshest
    <3>. QED
      BY <1>3, <2>1, <2>3, <3>2, SourceIs
  <2>. QED
    BY <1>3, <2>1, <2>2, <2>3
<1>5. ASSUME NEW t \in Planned, NEW v \in Variables, NEW s, s = Source(t, v, Paths), Target(s, v) \in Units
      PROVE  unit[Target(s, v)] = "live"
  <2>1. t \in DOMAIN req.pairs /\ Intact(req.pairs[t]) /\ Anchored(req, t)
    BY <1>1, <1>3
  <2>2. s # NoCandidate
    <3>1. SUFFICES ASSUME s = NoCandidate PROVE FALSE
      OBVIOUS
    <3>2. v \in IntervalVariables
      BY <1>5, <3>1, SourceIs
    <3>3. Target(s, v) = <<0, 0, v>>
      BY <3>1 DEF NoCandidate, Target
    <3>. QED
      BY <1>5, <3>2, <3>3 DEF Units
  <2>3. CASE req.anchors[t].lead # 0 \/ v \notin IntervalVariables
    <3>1. s = req.anchors[t]
      BY <1>5, <2>3, SourceIs
    <3>. QED
      BY <1>5, <2>1, <3>1 DEF Anchored, Intact, IsFreshest
  <2>4. CASE req.anchors[t].lead = 0 /\ v \in IntervalVariables
    <3>1. s \in Positive(req.pairs[t]) /\ \A c \in Positive(req.pairs[t]) : c.cycle \in Paths => s.lead <= c.lead
      BY <1>5, <2>2, <2>4, SourceIs
    <3>2. PICK m \in req.pairs[t] : IsFreshest(m, Positive(req.pairs[t])) /\ m.cycle \in req.opened
      BY <2>1, <2>4, <3>1 DEF Anchored
    <3>3. s.lead <= m.lead /\ m \in Positive(req.pairs[t])
      BY <1>2, <2>1, <3>1, <3>2 DEF IsFreshest
    <3>4. \A c \in Positive(req.pairs[t]) : c.lead \in Nat
      BY <2>1, Bounds DEF KnownAsk, AskRecords, CandidateSet, Leads, Positive
    <3>5. IsFreshest(s, Positive(req.pairs[t]))
      BY <3>1, <3>2, <3>3, <3>4 DEF IsFreshest
    <3>. QED
      BY <2>1, <2>4, <3>1, <3>5 DEF Intact, Positive
  <2>. QED
    BY <2>3, <2>4
<1>6. ASSUME NEW u \in Used(Planned, Paths) PROVE unit[u] = "live"
  <2>1. PICK t \in Planned, v \in Variables : u = Target(Source(t, v, Paths), v) /\ u \in Units
    BY DEF Used, Target
  <2>. QED
    BY <1>5, <2>1
<1>. QED
  BY <1>3, <1>4, <1>6

LEMMA PlanStep ==
  ASSUME World, Known(req), undisturbed => Calm(req), Plan
  PROVE  Known(req') /\ (undisturbed' => Calm(req'))
<1> DEFINE source == [k \in Planned \X Variables |-> Source(k[1], k[2], Paths)]
           used == Used(Planned, Paths)
<1>1. KnownAsk(req) /\ req.todo = {} /\ (undisturbed => CalmAsk(req))
  BY DEF Plan, Known, Calm
<1>2. CASE Planned = {}
  <2>1. req' = NoRequest
    BY <1>2 DEF Plan
  <2>. QED
    BY <2>1 DEF Known, Calm, NoRequest
<1>3. CASE Planned # {}
  <2>1. /\ req' = [pc |-> "read", kind |-> req.kind, offered |-> req.offered, ts |-> Planned, source |-> source,
                   used |-> used, todo |-> {u[1] : u \in used}, value |-> [u \in {} |-> "null"], lost |-> {}]
        /\ undisturbed' = undisturbed
    BY <1>3 DEF Plan, World
  <2>2. Planned \in SUBSET Times /\ used \in SUBSET Units
    BY <1>1 DEF KnownAsk, Planned, Used
  <2>3. source \in [Planned \X Variables -> CandidateSet \cup {NoCandidate}]
    BY <1>1, SourceIs
  <2>4. {u[1] : u \in used} \in SUBSET Cycles
    <3>1. \A u \in used : u[1] \in Cycles
      BY <2>2, UnitParts
    <3> HIDE DEF used
    <3>. QED
      BY <3>1
  <2>5. req' \in ReadRecords(Planned, {})
    <3>1. req.kind \in {"det", "mean"} /\ req.offered \in SUBSET (Times \X Variables)
      BY <1>1 DEF KnownAsk, AskRecords
    <3> HIDE DEF source, used
    <3>. QED
      BY <2>1, <2>2, <2>3, <2>4, <3>1 DEF ReadRecords
  <2>6. \A t \in Planned : source[<<t, "temperature_2m">>] # NoCandidate
    <3>1. "temperature_2m" \in Variables /\ "temperature_2m" \notin IntervalVariables
      BY DEF Variables, IntervalVariables
    <3>2. \A t \in Planned : Source(t, "temperature_2m", Paths) # NoCandidate
      BY <1>1, <3>1, SourceIs
    <3>. QED
      BY <3>1, <3>2
  <2>7. \A k \in Planned \X Variables : source[k] # NoCandidate => Target(source[k], k[2]) \in used
    <3>1. ASSUME NEW k \in Planned \X Variables, source[k] # NoCandidate
          PROVE  Target(source[k], k[2]) \in used
      <4>1. k[1] \in Planned /\ k[2] \in Variables /\ source[k] = Source(k[1], k[2], Paths)
        OBVIOUS
      <4>2. Target(source[k], k[2]) \in Units
        BY <1>1, <3>1, <4>1, SourceIs
      <4>. QED
        BY <3>1, <4>1, <4>2 DEF Used, Target
    <3>. QED
      BY <3>1
  <2> HIDE DEF source, used
  <2>8. KnownRead(req')
    <3>1. /\ req'.ts = Planned /\ req'.used = used /\ req'.source = source /\ DOMAIN req'.value = {}
          /\ req'.todo = {u[1] : u \in used}
      BY <2>1
    <3>. QED
      BY <1>3, <2>2, <2>5, <2>6, <2>7, <3>1 DEF KnownRead
  <2>9. ASSUME undisturbed' PROVE CalmRead(req')
    <3>1. /\ Planned = {k[1] : k \in req.offered} /\ \A u \in used : unit[u] = "live"
          /\ \A k \in req.offered : k[1] \in Planned /\ k[2] \in Variables /\ Source(k[1], k[2], Paths) # NoCandidate
      BY <1>1, <2>1, <2>9, CalmPlan DEF used, KnownAsk
    <3>2. \A k \in req.offered : source[k] # NoCandidate
      <4>1. \A k \in req.offered : k = <<k[1], k[2]>>
        BY <1>1 DEF KnownAsk, AskRecords
      <4>. QED
        BY <3>1, <4>1 DEF source
    <3>. QED
      BY <2>1, <3>1, <3>2 DEF CalmRead
  <2>. QED
    BY <2>1, <2>8, <2>9 DEF Known, Calm
<1>. QED
  BY <1>2, <1>3

LEMMA ReadStep ==
  ASSUME World, Known(req), undisturbed => Calm(req), NEW c \in Cycles, NEW broken \in BOOLEAN, Read(c, broken)
  PROVE  Known(req') /\ (undisturbed' => Calm(req'))
<1> DEFINE mine == {u \in req.used : u[1] = c}
           given == broken \/ (req.kind = "mean" /\ \E u \in mine : ~Present(u))
           lost == IF given THEN req.lost \cup {c} ELSE req.lost
           value == [u \in DOMAIN req.value \cup mine |->
                        IF u \notin mine THEN req.value[u]
                        ELSE IF ~given /\ Present(u) THEN "value" ELSE "null"]
<1>1. /\ req.pc = "read" /\ c \in req.todo
      /\ req' = [req EXCEPT !.todo = @ \ {c}, !.lost = lost, !.value = value]
      /\ undisturbed' = (undisturbed /\ ~broken)
  BY DEF Read
<1>2. KnownRead(req)
  BY <1>1 DEF Known
<1>3. /\ req.used \in SUBSET Units /\ req.todo \in SUBSET Cycles /\ req.lost \in SUBSET Cycles
      /\ req.value \in [DOMAIN req.value -> {"value", "null"}]
  BY <1>2 DEF KnownRead, ReadRecords
<1>4. value \in [DOMAIN value -> {"value", "null"}] /\ DOMAIN value = DOMAIN req.value \cup mine
  BY <1>3
<1>5. lost \in SUBSET Cycles
  BY <1>3
<1>6. ASSUME undisturbed'
      PROVE  lost = req.lost /\ \A u \in DOMAIN value : value[u] = "value"
  <2>1. ~broken /\ CalmRead(req)
    BY <1>1, <1>6 DEF Calm
  <2>2. \A u \in mine : unit[u] = "live" /\ Present(u)
    BY <2>1 DEF CalmRead, Present
  <2>3. ~given
    BY <2>1, <2>2
  <2>. QED
    BY <2>1, <2>2, <2>3 DEF CalmRead
<1>7. DOMAIN value = {u \in req.used : u[1] \notin req.todo \ {c}}
  BY <1>1, <1>2, <1>4 DEF KnownRead
<1> HIDE DEF lost, value
<1>8. /\ req'.pc = "read" /\ req'.ts = req.ts /\ req'.source = req.source /\ req'.used = req.used
      /\ req'.offered = req.offered /\ req'.todo = req.todo \ {c} /\ req'.lost = lost /\ req'.value = value
      /\ req' \in ReadRecords(req.ts, DOMAIN value)
  BY <1>1, <1>2, <1>3, <1>4, <1>5 DEF KnownRead, ReadRecords
<1>9. KnownRead(req')
  BY <1>2, <1>7, <1>8 DEF KnownRead
<1>10. ASSUME undisturbed' PROVE CalmRead(req')
  <2>1. CalmRead(req)
    BY <1>1, <1>10 DEF Calm
  <2>. QED
    BY <1>6, <1>8, <1>10, <2>1 DEF CalmRead
<1>. QED
  BY <1>8, <1>9, <1>10 DEF Known, Calm

LEMMA RespondStep ==
  ASSUME NEW fails \in BOOLEAN, Respond(fails)
  PROVE  Known(req') /\ Calm(req')
  BY DEF Respond, Known, Calm, NoRequest

\* Steps of ingestion, collection and the clock leave a request what it goes by.
LEMMA CalmStays ==
  ASSUME Known(req), Calm(req), req' = req, \A u \in Units : unit[u] = "live" => unit'[u] = "live",
         \A c \in Cycles : Eligible(c) => Eligible(c)'
  PROVE  Calm(req)'
<1>1. ASSUME CalmAsk(req), KnownAsk(req) PROVE CalmAsk(req)'
  <2>1. ASSUME NEW t \in DOMAIN req.pairs PROVE Intact(req.pairs[t])'
    <3> DEFINE S == req.pairs[t]
    <3>1. S \in SUBSET CandidateSet /\ Intact(S)
      BY <1>1 DEF KnownAsk, AskRecords, CalmAsk
    <3>2. \A c \in S : c.cycle \in Cycles /\ c.lead \in Leads
      BY <3>1 DEF CandidateSet
    <3>3. \A c \in S : Eligible(c.cycle)'
      BY <3>1, <3>2 DEF Intact
    <3>4. \A c \in S, v \in Variables :
            IsFreshest(c, S) /\ Target(c, v) \in Units => unit'[Target(c, v)] = "live"
      BY <3>1 DEF Intact
    <3>5. ASSUME NEW c \in S, NEW v \in Variables \cap IntervalVariables, IsFreshest(c, Positive(S))
          PROVE  unit'[Target(c, v)] = "live"
      <4>1. c.lead # 0
        BY <3>2, <3>5, Bounds DEF IsFreshest, Positive, Leads
      <4>2. Target(c, v) \in Units
        BY <3>2, <4>1, UnitOf DEF Target
      <4>. QED
        BY <3>1, <3>5, <4>2 DEF Intact
    <3>6. req' = req
      OBVIOUS
    <3> HIDE DEF S
    <3>7. Intact(S)'
      BY <3>3, <3>4, <3>5 DEF Intact, IsFreshest, Positive, Target, S
    <3>. QED
      BY <3>7 DEF S
  <2>. QED
    BY <1>1, <2>1 DEF CalmAsk, Anchored, IsFreshest, Positive
<1>2. ASSUME CalmRead(req), KnownRead(req) PROVE CalmRead(req)'
  BY <1>2 DEF CalmRead, KnownRead, ReadRecords
<1>. QED
  BY <1>1, <1>2 DEF Calm, Known

----------------------------------------------------------------------------
(* The invariant and what follows from it. *)

\* The invariant: published units have a live carrier at least as fresh, and an
\* undisturbed request holds on to what is served (all steps of the module).
THEOREM ServingInvariant == Spec => []IInv
<1>1. Init => IInv
  BY InitWorld DEF IInv
<1>2. IInv /\ [Next]_vars => IInv'
  <2>1. SUFFICES ASSUME IInv, [Next]_vars
                 PROVE  World' /\ NewestKept' /\ Known(req') /\ (undisturbed' => Calm(req)')
    BY DEF IInv, Known, KnownAsk, KnownRead
  <2>2. World /\ NewestKept /\ Known(req) /\ (undisturbed => Calm(req))
    BY <2>1 DEF IInv
  <2>3. ASSUME NEW kind \in {"det", "mean"}, Discover(kind)
        PROVE  World' /\ NewestKept' /\ Known(req') /\ (undisturbed' => Calm(req)')
    BY <2>2, <2>3, RequestWorld, DiscoverStep, CalmInSameWorld
  <2>4. ASSUME Request
        PROVE  World' /\ NewestKept' /\ Known(req') /\ (undisturbed' => Calm(req)')
    <3>1. World' /\ NewestKept' /\ UNCHANGED catalog
      BY <2>2, <2>4, RequestWorld
    <3>2. Known(req') /\ (undisturbed' => Calm(req'))
      BY <2>2, <2>4, AnchorStep, PlanStep, ReadStep, RespondStep DEF Request
    <3>. QED
      BY <3>1, <3>2, CalmInSameWorld
  <2>5. ASSUME NEW c \in Cycles, Publish(c)
        PROVE  World' /\ NewestKept' /\ Known(req') /\ (undisturbed' => Calm(req)')
    <3>1. req' = req /\ undisturbed' = undisturbed
      BY <2>5 DEF Publish
    <3>. QED
      BY <2>2, <2>5, <3>1, PublishWorld, CalmStays
  <2>6. ASSUME NEW c \in Cycles, FenceCycle(c)
        PROVE  World' /\ NewestKept' /\ Known(req') /\ (undisturbed' => Calm(req)')
    <3>1. req' = req /\ undisturbed' = FALSE
      BY <2>6 DEF FenceCycle
    <3>. QED
      BY <2>2, <2>6, <3>1, OtherWorld
  <2>7. ASSUME NEW u \in Units, Fence(u)
        PROVE  World' /\ NewestKept' /\ Known(req') /\ (undisturbed' => Calm(req)')
    <3>1. req' = req /\ undisturbed' = FALSE
      BY <2>7 DEF Fence
    <3>. QED
      BY <2>2, <2>7, <3>1, FenceWorld
  <2>8. ASSUME (\E u \in Units : Delete(u)) \/ Advance
        PROVE  World' /\ NewestKept' /\ Known(req') /\ (undisturbed' => Calm(req)')
    <3>1. req' = req /\ undisturbed' = undisturbed /\ UNCHANGED <<progress, fenced>>
      BY <2>8 DEF Delete, Advance
    <3>2. \A c \in Cycles : Eligible(c) => Eligible(c)'
      BY <3>1 DEF Eligible
    <3>3. World' /\ NewestKept' /\ \A u \in Units : unit[u] = "live" => unit'[u] = "live"
      BY <2>2, <2>8, OtherWorld
    <3>. QED
      BY <2>2, <3>1, <3>2, <3>3, CalmStays
  <2>9. CASE UNCHANGED vars
    <3>1. req' = req /\ undisturbed' = undisturbed /\ UNCHANGED catalog /\ unit' = unit /\ faults' = faults
      BY <2>9 DEF vars, catalog
    <3>2. World' /\ NewestKept'
      BY <2>2, <3>1 DEF World, NewestKept, Stands, Time, ValidTime, Events, catalog
    <3>. QED
      BY <2>2, <3>1, <3>2, CalmInSameWorld
  <2>. QED
    BY <2>1, <2>3, <2>4, <2>5, <2>6, <2>7, <2>8, <2>9 DEF Next
<1>. QED
  BY <1>1, <1>2, PTL DEF Spec

LEMMA WindowHolds ==
  ASSUME IInv
  PROVE  WindowStaysServed
<1>1. SUFFICES ASSUME NEW u \in Units, unit[u] # "absent", Time(u) >= start
               PROVE  \E d \in Live(Time(u)) : u[3] \in d.vars
  BY DEF WindowStaysServed, Time
<1>2. PICK x \in Units : Stands(x, u)
  BY <1>1 DEF IInv, NewestKept
<1>. QED
  BY <1>1, <1>2, LiveFound DEF IInv, Stands

LEMMA ResolvedHolds ==
  ASSUME IInv
  PROVE  ResolvedIsKept
<1>1. SUFFICES ASSUME NEW t \in DOMAIN Candidates, NEW v \in Variables
               PROVE  IsLive(Resolution(v, t, {}), v)
  BY DEF ResolvedIsKept
<1> DEFINE S == Discovered(t)
           s == SelectVariable(S, v)
<1>2. t \in Times /\ t >= start /\ Candidates[t] = S
  BY DEF Candidates
<1>3. S \in SUBSET CandidateSet /\ \A c \in S : c.vars # {}
  BY DiscoveredIs DEF IInv
<1>4. Resolution(v, t, {}) = s
  <2>1. Pinned(S, {}) = {}
    BY DEF Pinned
  <2>2. SelectVariable({}, v) = NoCandidate
    <3>1. Shows({}, v) = {}
      BY DEF Shows
    <3>. QED
      BY <3>1, SelectIs, FreshestIs
  <2> HIDE DEF S
  <2>. QED
    BY <1>2, <2>1, <2>2 DEF Resolution
<1>5. SUFFICES ASSUME s # NoCandidate, unit[Target(s, v)] # "live" PROVE FALSE
  BY <1>4 DEF IsLive, Target
<1>6. IsFreshest(s, Shows(S, v)) /\ s \in CandidateSet
  <2> HIDE DEF S
  <2>. QED
    BY <1>3, <1>5, ShowsIs
<1>7. s \in S /\ v \in s.vars /\ (v \in IntervalVariables => s.lead > 0)
  BY <1>6 DEF IsFreshest, Shows
<1>8. Target(s, v) \in Units
  <2>1. s.cycle \in Cycles /\ s.lead \in Leads /\ (v \in IntervalVariables => s.lead # 0)
    BY <1>6, <1>7, Bounds DEF CandidateSet, Leads
  <2>. QED
    BY <2>1, UnitOf DEF Target
<1>9. PICK e \in S : e.lead < s.lead /\ v \in e.vars /\ (v \in IntervalVariables => e.lead > 0)
  BY <1>2, <1>5, <1>7, <1>8, FresherFound DEF IInv
<1>10. e \in Shows(S, v) /\ e.lead \in Nat /\ s.lead \in Nat
  BY <1>3, <1>6, <1>9, Bounds DEF Shows, CandidateSet, Leads
<1>. QED
  BY <1>6, <1>9, <1>10 DEF IsFreshest

\* Garbage collection takes nothing that is served: each valid time of the window
\* keeps a candidate for each variable it ever had, and no resolution yields a
\* shard that is gone (planner holds against resolver.py's discovery).
THEOREM CollectionKeeps == Spec => []CollectionKeepsServing
<1>1. IInv => CollectionKeepsServing
  BY WindowHolds, ResolvedHolds DEF CollectionKeepsServing
<1>. QED
  BY <1>1, ServingInvariant, PTL

LEMMA TypesHold ==
  ASSUME IInv
  PROVE  TypeOK
  BY DEF IInv, World, States, Known, TypeOK

LEMMA NullsHold ==
  ASSUME IInv
  PROVE  NullsAreGenuine
<1>1. SUFFICES ASSUME req.pc = "read", Response(FALSE) = "answered", NEW k \in Entries \X Variables,
                      req.source[k] # NoCandidate
               PROVE  unit[Target(req.source[k], k[2])] \in {"absent", "live"}
  BY DEF NullsAreGenuine, Target
<1>2. KnownRead(req) /\ World
  BY <1>1 DEF IInv, Known
<1>3. k \in req.ts \X Variables
  BY DEF Entries
<1>4. Target(req.source[k], k[2]) \in req.used /\ req.used \subseteq Units
  BY <1>1, <1>2, <1>3 DEF KnownRead, ReadRecords
<1>5. \A u \in req.used : unit[u] \notin {"fenced", "gone"}
  BY <1>1 DEF Response
<1>. QED
  BY <1>2, <1>4, <1>5 DEF World, States

LEMMA UndisturbedHolds ==
  ASSUME IInv
  PROVE  UndisturbedIsServed
<1>1. ASSUME undisturbed, req.pc = "anchors", req.todo = {} PROVE Planned = DOMAIN req.pairs
  BY <1>1, CalmPlan DEF IInv, Known, Calm
<1>2. ASSUME undisturbed, req.pc = "read", req.todo = {}
      PROVE  /\ Response(FALSE) = "answered" /\ Entries = {k[1] : k \in req.offered}
             /\ \A k \in req.offered : Answer[k] = "value"
  <2>1. KnownRead(req) /\ CalmRead(req)
    BY <1>2 DEF IInv, Known, Calm
  <2>2. Entries = req.ts /\ Entries # {} /\ Entries = {k[1] : k \in req.offered}
    BY <2>1 DEF Entries, KnownRead, CalmRead
  <2>3. Response(FALSE) = "answered"
    BY <2>1, <2>2 DEF Response, CalmRead
  <2>4. DOMAIN req.value = req.used
    BY <1>2, <2>1 DEF KnownRead
  <2>5. ASSUME NEW k \in req.offered PROVE Answer[k] = "value"
    <3>1. k = <<k[1], k[2]>> /\ k[2] \in Variables /\ k[1] \in req.ts
      BY <2>1 DEF KnownRead, ReadRecords, CalmRead
    <3>2. k \in Entries \X Variables
      BY <2>2, <3>1
    <3>3. req.source[k] # NoCandidate
      BY <2>1 DEF CalmRead
    <3>4. Target(req.source[k], k[2]) \in req.used
      BY <2>1, <2>2, <3>2, <3>3 DEF KnownRead
    <3>5. Shown(k[1], k[2]) = "value"
      BY <2>1, <2>4, <3>1, <3>3, <3>4 DEF Shown, Target, CalmRead
    <3>. QED
      BY <3>2, <3>5 DEF Answer
  <2>. QED
    BY <2>2, <2>3, <2>5
<1>. QED
  BY <1>1, <1>2 DEF UndisturbedIsServed

\* What is answered is what there was: no hole that collection tore passes the
\* check after the reads, and a request that nothing disturbed is answered in
\* full (build_point_forecast).
THEOREM AnswersGenuine == Spec => []AnswersAreGenuine
<1>1. IInv => AnswersAreGenuine
  BY TypesHold, NullsHold, UndisturbedHolds DEF AnswersAreGenuine
<1>. QED
  BY <1>1, ServingInvariant, PTL
=============================================================================
