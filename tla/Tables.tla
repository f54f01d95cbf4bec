-------------------------------- MODULE Tables --------------------------------
(***************************************************************************)
(* The pure rules of the system, checked over bounded inputs.  A state is  *)
(* one question and, one step later, the code's answer; the properties     *)
(* compare the answer with a definition that is independent of the code.   *)
(***************************************************************************)
EXTENDS DomainRules, DomainScience, TLC

P == INSTANCE FrontierPlanner WITH Horizon <- <<0, 3, 6>>, Members <- {1, 2}, MaxLeads <- 2
C == INSTANCE CanonicalRules
X == INSTANCE IdxSelection
E == INSTANCE EnsembleValues WITH Expected <- 7, MinFinite <- 2

VARIABLES asked, answer

vars == <<asked, answer>>

Nothing == <<>>

----------------------------------------------------------------------------
(* The questions. *)

LeadRows == {<<0, 3, 6, 9>>, <<0, 6, 12>>, <<0>>}
Ensembles == UNION {[1..n -> {0, 3, 5, 10}] : n \in 1..4}
Named == [run : {1, 2}, store : {1}, lead : {0, 6}, var : {"crain", "snow_depth"}, kind : {"det", "mean", "mem"}, member : {1, 2}]
SameStore(t) == [t EXCEPT !.store = t.run]
Winds == [u : {-23, -11, -1, 0, 1, 12}, v : {-12, -1, 0, 1, 11}]
Covers == {Missing, 0, 40, 100, 104}
Heights == {Missing, 0, 30, 1998, 1999, 2000}
FlagSets == SUBSET Phases
Grid == [lat0 |-> -4, lon0 |-> 0, step |-> 4, rows |-> 3, cols |-> 6]
WestGrid == [lat0 |-> -4, lon0 |-> -12, step |-> 4, rows |-> 3, cols |-> 6]
Half == 12
Field(g) == [k \in (0..(g.rows - 1)) \X (0..(g.cols - 1)) |-> 7 * k[1] + 5 * ((k[2] * k[2]) % 4)]

Ages == [l \in {0, 3, 6} |-> IF l = 0 THEN 9 ELSE 0]
Snapshots ==
    {[gfs |-> {0, 3, 6} \X {"data", "idx"} \ A, gefs |-> {1, 2} \X {0, 3, 6} \X {"data", "idx"} \ B] :
        A \in {{}, {<<3, "idx">>}, {<<6, "data">>}, {0, 3, 6} \X {"data", "idx"}},
        B \in {{}, {<<2, 3, "idx">>}, {<<1, 0, "data">>}, {1, 2} \X {0, 3, 6} \X {"data", "idx"}}}
Commits == [leads : SUBSET {0, 3, 6}, pairs : {Q \X L : Q \in SUBSET {1, 2}, L \in SUBSET {0, 3, 6}}]

Candidates == [cycle : {0}, lead : {0, 3}, vars : {{}, {"crain"}, {"precipitation_amount_3h", "crain"}, {"wind_u_10m", "wind_v_10m"}},
               members : {{}}, products : {{"surface"}}, run : {1, 2}]
FenceKeys == [kind : {"det"}, run : {1, 2}, lead : {0, 3}, var : {"crain", "precipitation_amount_3h", "wind_u_10m"}, member : {0}]

Line(field, kind, from, to, ens) == [field |-> field, desc |-> [kind |-> kind, from |-> from, to |-> to], ens |-> ens]
IdxLines ==
    {Line(<<"TMP", "2 m">>, "fcst", 0, 6, X!Untagged), Line(<<"TMP", "2 m">>, "fcst", 0, 6, 1), Line(<<"TMP", "2 m">>, "fcst", 0, 6, 2),
     Line(<<"APCP", "surface">>, "acc", 0, 6, 1), Line(<<"APCP", "surface">>, "acc", 3, 6, 1), Line(<<"TMP", "500 mb">>, "fcst", 0, 6, 1)}
Numbered(lines) == [i \in DOMAIN lines |-> lines[i] @@ [number |-> i, offset |-> 4 * (i - 1)]]
BadIndexes == {<<>>} \cup {[i \in 1..2 |-> [number |-> n[i], offset |-> o[i]] @@ l] : n \in {<<1, 2>>, <<1, 3>>}, o \in {<<0, 4>>, <<0, 0>>, <<4, 8>>, <<4, 0>>}, l \in IdxLines}
Artifacts == [model : {"gfs", "gefs", "new"}, hour : {0, 6, 7, 18}, lead : {0, 3, 9, 93, 393, 384, 385}, member : {X!Untagged, X!Mean, 1, 11, 30, 31}]

\* Members are exchangeable here: one order of every collection is enough.
Sorted(n, values, rank(_)) == {xs \in [1..n -> values] : \A i \in 1..(n - 1) : rank(xs[i]) <= rank(xs[i + 1])}
MemberNumbers == Sorted(7, {Missing, 0, 40, 100, 2000}, LAMBDA x : x) \cup {<<Missing, -1, 0, 0, 40, 100, 104>>, <<0, 0, 0, 40, 40, 40>>}
MemberWinds == {<<Missing, 3>>, <<0, 0>>, <<12, -4>>, <<-23, 1>>}
WindRank(w) == CHOOSE k \in 1..4 : w = <<<<Missing, 3>>, <<0, 0>>, <<12, -4>>, <<-23, 1>>>>[k]
Wet(flags, before) == Classify(25, flags, 25, before, FALSE)
PhaseStates == <<Classify(Missing, {}, Missing, {}, TRUE), Classify(10, {}, 25, {}, TRUE), Wet({}, {}), Wet({"rain"}, {"snow"}), Wet({"snow", "rain"}, {})>>
MemberStates == {[m \in 1..7 |-> PhaseStates[ks[m]]] : ks \in Sorted(7, 1..5, LAMBDA k : k)}

\* Stores of two leads, a shard of which is missing where its value is.
Contents ==
    [a3 : {Missing, 10, 30}, a6 : {Missing, 10, 30}, r3 : {Missing, 0, 100}, r6 : {Missing, 0, 100}, s3 : {0, 100}, s6 : {0, 100}, t6 : {Missing, 7}]
At(x, l, v) ==
    CASE v = "temperature_2m" -> IF l = 3 THEN 5 ELSE x.t6
      [] v = "crain" -> IF l = 3 THEN x.r3 ELSE x.r6
      [] v = "csnow" -> IF l = 3 THEN x.s3 ELSE x.s6
      [] v = E!Amount -> IF l = 3 THEN x.a3 ELSE x.a6
PointVars == {"temperature_2m", "crain", "csnow", E!Amount}
StoreOf(x, format, members, keys) ==
    [format |-> format, members |-> members, vars |-> PointVars, leads |-> {3, 6},
     stored |-> [k \in {j \in PointVars \X keys \X {3, 6} : At(x, j[3], j[1]) # Missing} |-> At(x, k[3], k[1])]]
CodeLists == {<<E!Amount>>, <<"crain", E!Amount, "temperature_2m">>, <<"temperature_2m", E!Amount>>, <<"crain", "temperature_2m">>}
\* Members that differ in when they are wet.
MemberStore(order, format) ==
    LET names == {E!Amount, "crain", "wind_u_10m", "wind_v_10m"}
        value(v, m, l) == IF v = "wind_u_10m" THEN m ELSE IF v = "crain" THEN 100 * (m % 2) ELSE 10 * (m + (m % l))
        there == {k \in names \X (1..3) \X {3, 6} : k # <<E!Amount, 2, 3>>}
    IN  [format |-> format, members |-> order, vars |-> names, leads |-> {3, 6},
         stored |-> IF format = "legacy" THEN [k \in {j \in names \X (DOMAIN order) \X {3, 6} : <<j[1], order[j[2]], j[3]>> \in there} |-> value(k[1], order[k[2]], k[3])]
                    ELSE [k \in there |-> value(k[1], k[2], k[3])]]
Orders == {<<1, 2, 3>>, <<2, 3>>, <<3, 1, 2>>, <<3, 2, 1>>}
Lats == <<-4, 0, 4>>
Axes == {<<0, 4, 8, 12>>, <<-12, -8, -4, 0, 4>>, <<13, 17, 21>>}
Turned(axis, down) == IF down THEN [i \in DOMAIN axis |-> axis[Len(axis) + 1 - i]] ELSE axis

Init ==
    /\ answer = Nothing
    /\ \/ asked \in {"window"} \X LeadRows \X (0..110)
       \/ asked \in {"expiry"} \X LeadRows \X (60..110) \X {2 * k : k \in 24..55}
       \/ asked \in {"predecessor"} \X (0..24) \X (0..7) \X (0..12)
       \/ asked \in {"coverage"} \X (0..32) \X (0..30) \X {8500, 10000}
       \/ asked \in {"names"} \X {SameStore(t) : t \in Named} \X {SameStore(t) : t \in Named}
       \/ asked \in {"dtype"} \X {"v1", "v2", "other"} \X {"det", "mean", "mem", "other"} \X (DeterministicVariables \cup {"new"})
       \/ asked \in {"registry"} \X {"gfs", "new"} \X {"v1", "v2", "any"} \X (LeadRows \cup {<<>>, <<3, 3>>})
       \/ asked \in {"ensemble"} \X Ensembles \X {0, 4, 5, 10} \X {3, 5, 12}
       \/ asked \in {"interval"} \X (0..8) \X (1..8)
       \/ asked \in {"phase"} \X {Missing, 0, 10, 11} \X FlagSets \X {Missing, 10, 25} \X FlagSets \X BOOLEAN
       \/ asked \in {"cover"} \X (0..20) \X (0..20)
       \/ asked \in {"clouds"} \X [1..3 -> Covers] \X [1..3 -> Heights]
       \/ asked \in {"wind"} \X Winds \X Winds
       \/ asked \in {"quantize"} \X ((-30..30) \cup (327660..327690) \cup (-327690..-327660))
       \/ asked \in {"grid"} \X {Grid, WestGrid} \X (-5..5) \X (-14..26)
       \/ asked \in {"errors"} \X [1..3 -> {0, 2, 5}] \X (UNION {[1..n -> {0, 3, 5}] : n \in 2..3})
       \/ asked \in {"idx"} \X {Numbered(l) : l \in UNION {[1..n -> IdxLines] : n \in 1..4}} \X {"gfs", "gefs"} \X {1} \X {6}
       \/ asked \in {"idx"} \X BadIndexes \X {"gfs"} \X {1} \X {6}
       \/ asked \in {"bucket"} \X (0..48)
       \/ asked \in {"keys"} \X Artifacts \X {"gfs", "gefs"} \X {0, 6} \X BOOLEAN
       \/ asked \in {"members"} \X {"other", "cloud_cover_3h", "cloud_ceiling"} \X MemberNumbers \X {0, 40} \X {30, 100}
       \/ asked \in {"winds"} \X {[m \in 1..7 |-> [u |-> ws[m][1], v |-> ws[m][2]]] : ws \in Sorted(7, MemberWinds, WindRank)} \X {11, 12}
       \/ asked \in {"states"} \X MemberStates \X {0, 10, 25}
       \/ asked \in {"batch"} \X Contents \X {E!Det, E!Mean} \X CodeLists
       \/ asked \in {"layout"} \X Orders \X (SUBSET (1..3)) \X {3, 6}
       \/ asked \in {"defaults"} \X (SUBSET (E!Components \cup {"crain", E!Amount})) \X (SUBSET (E!Components \cup {"crain", E!Amount}))
       \/ asked \in {"axes"} \X Axes \X BOOLEAN \X BOOLEAN \X (-5..5) \X (-12..12)
       \/ asked \in {q \in {"chunks"} \X (1..4) \X (4..7) \X (0..6) \X (0..6) : q[4] <= q[5] /\ q[5] < q[3]}
       \/ asked \in {"plan"} \X Snapshots \X Commits
       \/ asked \in {"canonical"} \X (SUBSET {c \in Candidates : c.run = 1} \ {{}}) \X {{}}
       \/ asked \in {"canonical"} \X {{c, d} : c, d \in Candidates} \X {{k} : k \in FenceKeys}

----------------------------------------------------------------------------
(* The answers. *)

Registered(m, v, leads) ==
    RegisterHorizon([k \in {<<"gfs", "any">>, <<"gfs", "v1">>} |-> <<0, 3, 6>>], m, v, leads)

States(a) == [m \in 1..2 |-> IF m = 1 THEN Classify(a[2], a[3], a[4], a[5], a[6]) ELSE Classify(a[4], a[5], Missing, {}, TRUE)]

Wanted == {"temperature_2m", "precipitation_amount_3h"}
FetchPlan(records, model, member, lead) ==
    IF records = X!Refused THEN X!Refused
    ELSE LET chosen == X!SelectRecords(model, records, Wanted, lead, member)
         IN  [records |-> records, chosen |-> chosen, groups |-> X!MergeAdjacent(records, chosen.records)]

Operators == {"gt", "gte", "lt", "lte", "between"}
Amounts(states) == [m \in DOMAIN states |-> states[m].amount]
Everywhere(codes) == [l \in {3, 6} |-> codes]
Sharded(a) == StoreOf(a[2], "sharded", IF a[3] = E!Mean THEN <<2, 1>> ELSE <<>>, {a[3]})
\* A grid's values by row and column in ascending order, as the axes store them.
Grown(r, c) == 7 * r + 5 * ((c * c) % 4)
FieldOf(lons, latDown, lonDown) ==
    [k \in (0..2) \X (0..(Len(lons) - 1)) |->
        Grown(IF latDown THEN 2 - k[1] ELSE k[1], IF lonDown THEN Len(lons) - 1 - k[2] ELSE k[2])]

Answer(a) ==
    CASE a[1] = "members" -> [probability |-> [o \in Operators |-> E!ProbabilityOf(a[2], a[3], o, a[4], a[5])], statistics |-> E!StatisticsOf(a[2], a[3])]
      [] a[1] = "winds" -> [all |-> [o \in Operators |-> E!WindProbability(a[2], Missing, o, a[3], 23)],
                            from |-> [s \in Sectors |-> E!WindProbability(a[2], s, "gte", a[3], Missing)], statistics |-> E!WindStatistics(a[2], FALSE)]
      [] a[1] = "states" -> [phases |-> [p \in Phases \cup {"dry", "unknown"} |-> E!PhaseProbability(a[2], a[3], p)],
                             statistics |-> E!PrecipitationStatistics(Amounts(a[2]), a[2], FALSE)]
      [] a[1] = "batch" -> E!Batch(Sharded(a), Everywhere(a[4]))
      [] a[1] = "layout" -> [format \in {"legacy", "sharded"} |->
                                LET d == MemberStore(a[2], format)
                                IN  <<E!MemberValues(d, E!Amount, a[4], a[3]), E!MemberVectors(d, a[4], a[3]), E!MemberStates(d, a[4], a[3])>>]
      [] a[1] = "defaults" -> E!DefaultVariables(a[2], a[3])
      [] a[1] = "axes" -> E!Interpolate(Turned(Lats, a[3]), Turned(a[2], a[4]), Half, FieldOf(a[2], a[3], a[4]), a[5], a[6])
      [] a[1] = "chunks" -> [place \in 0..(a[5] - a[4]) |-> E!WindowCell(a[2], a[3], a[4], a[5], place)]
      [] a[1] = "window" -> [start |-> ModelServingStart(a[2], a[3]), times |-> ProtectedTimes(a[2], a[3])]
      [] a[1] = "expiry" -> Expired(a[4], MaxLead(a[2]), ModelServingStart(a[2], a[3]))
      [] a[1] = "predecessor" -> Predecessor(a[2], a[3], a[4])
      [] a[1] = "coverage" -> Coverage(1..a[2], a[3], a[4])
      [] a[1] = "names" -> [shard |-> <<ShardKey(a[2]), ShardKey(a[3])>>, marker |-> <<MarkerKey(a[2]), MarkerKey(a[3])>>,
                            lock |-> <<LockedRegion(a[2]), LockedRegion(a[3])>>]
      [] a[1] = "dtype" -> Dtype(a[2], a[4], a[3])
      [] a[1] = "registry" -> Registered(a[2], a[3], a[4])
      [] a[1] = "ensemble" -> [gt |-> Probability(a[2], "gt", a[3]), gte |-> Probability(a[2], "gte", a[3]),
                               lt |-> Probability(a[2], "lt", a[3]), lte |-> Probability(a[2], "lte", a[3]),
                               between |-> Between(a[2], a[3], a[4])]
      [] a[1] = "interval" -> IF a[2] > a[3] THEN Nothing ELSE ConfidenceInterval(a[2], a[3])
      [] a[1] = "phase" -> States(a)
      [] a[1] = "cover" -> CloudCover3h(((a[2] + a[3]) * 5) \div 2, a[2] * 5)
      [] a[1] = "clouds" -> [cover |-> CoverSummary(a[2], 2), ceiling |-> CeilingSummary(a[3], 2, 2), low |-> LowCeiling(a[3], 30, 2)]
      [] a[1] = "wind" -> [rose |-> WindRose(<<a[2], a[3]>>), consensus |-> Consensus(<<a[2], a[3]>>)]
      [] a[1] = "quantize" -> <<Quantized(a[2]), Quantized(a[2] + 1)>>
      [] a[1] = "grid" -> [nearest |-> Nearest(a[2], a[3], a[4], Half), value |-> Bilinear(a[2], Field(a[2]), a[3], a[4], Half),
                           vector |-> SampleVector(a[2], Field(a[2]), a[3], a[4], Half), at |-> Advected(a[3], a[4], 1, 3, 4, Half)]
      [] a[1] = "errors" -> [bias |-> BiasTimesN(a[2], a[3]), mae |-> AbsoluteErrorTimesN(a[2], a[3]), mse |-> SquaredErrorTimesN(a[2], a[3])]
      [] a[1] = "idx" -> FetchPlan(X!ParseIdx(a[2]), a[3], a[4], a[5])
      [] a[1] = "bucket" -> IF X!HasBucket(a[2]) THEN X!BucketStart(a[2]) ELSE Invalid
      [] a[1] = "keys" -> X!BuildUrl("aws_s3", a[2])
      [] a[1] = "plan" -> P!Plan(a[2], a[3], Ages, 5)
      [] a[1] = "canonical" -> C!FilterByFence([t \in {1} |-> a[2]], a[3], FALSE, 1)[1]

Next == answer = Nothing /\ answer' = <<Answer(asked)>> /\ UNCHANGED asked
Spec == Init /\ [][Next]_vars

Of(kind) == asked[1] = kind /\ answer # Nothing
Result == answer[1]

----------------------------------------------------------------------------
(* Serving windows and leads. *)

\* The serving window starts with the interval that contains the present, never
\* moves back, and its enumeration agrees with the membership test of every time.
ServingWindowHolds ==
    Of("window") =>
        LET leads == asked[2]
            now == asked[3]
        IN  /\ Result.start <= now /\ now < Result.start + 2 * Cadence(leads)
            /\ Result.start <= ModelServingStart(leads, now + 1)
            /\ \A t \in (now - 20)..(now + 30) :
                  t \in Result.times <=> IsProtected(t, now, leads, Cadence(leads)) /\ t <= Result.start + 2 * MaxLead(leads)

\* A cycle is called expired exactly when none of its leads can be served any more.
ExpiredHasNothingLeft ==
    Of("expiry") =>
        (Result <=> \A i \in DOMAIN asked[2] : asked[4] + 2 * asked[2][i] < ModelServingStart(asked[2], asked[3]))

\* The predecessor of a reset lead lies in the same reset period, where its
\* running average has begun, unless the interval is the whole period.
PredecessorInPeriod ==
    Of("predecessor") /\ Result # InvalidTime =>
        /\ Result < asked[2] /\ asked[2] - asked[4] <= Result /\ Result >= 0
        /\ (asked[3] < asked[4] => ~ResetLead(Result, asked[4]))

\* A lead is served exactly when the coverage shown for it reaches the threshold.
CoverageAgrees ==
    Of("coverage") /\ asked[3] > 0 => (Result.servable <=> Result.ratio >= asked[4])

----------------------------------------------------------------------------
(* Names, types and registries. *)

\* Two targets have one shard exactly when they are one target, one marker
\* exactly when they are in one region, and one lock exactly then too.
NamesIdentifyShards ==
    Of("names") =>
        /\ Result.shard[1] = Result.shard[2] <=> Tuple(asked[2]) = Tuple(asked[3])
        /\ Result.marker[1] = Result.marker[2] <=> Region(asked[2]) = Region(asked[3])
        /\ Result.lock[1] = Result.lock[2] <=> Region(asked[2]) = Region(asked[3])

\* Every variable that a region must hold can be stored, and the mean of a flag,
\* which is a fraction, is not stored as a flag.
SchemaCanBeStored ==
    Of("dtype") =>
        /\ asked[2] \in {"v1", "v2"} /\ asked[3] # "other" /\ asked[4] \in ExpectedVariables(asked[3]) => Result # "invalid"
        /\ asked[4] \in Flags /\ asked[3] = "mean" => Result # "uint8"

\* A model that was registered for any version can be used for every version,
\* and a refused registration or another model's changes nothing.
RegisteredIsUsable ==
    Of("registry") =>
        LET before == [k \in {<<"gfs", "any">>, <<"gfs", "v1">>} |-> <<0, 3, 6>>]
        IN  IF asked[4] \in LeadRows
            THEN /\ HorizonOf(Result, asked[2], asked[3]) = asked[4] /\ HorizonOf(Result, asked[2], "later") = asked[4]
                 /\ ~Fatal(Audit({asked[2]}, Result, <<>>, <<>>))
                 /\ asked[2] # "gfs" => HorizonOf(Result, "gfs", "v1") = <<0, 3, 6>>
            ELSE Result = before

----------------------------------------------------------------------------
(* Ensembles. *)

\* Complementary probabilities add up to all members, an interval's follows from
\* its bounds', and percentiles rise from the least member to the greatest.
ProbabilitiesAddUp ==
    Of("ensemble") =>
        LET n == Count(asked[2])
        IN  /\ Result.gt + Result.lte = n /\ Result.gte + Result.lt = n
            /\ asked[3] <= asked[4] => Result.between = Result.gte + Probability(asked[2], "lte", asked[4]) - n

\* Linear percentiles rise with q from the least to the greatest member, and are
\* mirrored when the members are.
PercentilesOrdered ==
    Of("ensemble") =>
        LET xs == asked[2]
            mirrored == [m \in DOMAIN xs |-> -xs[m]]
        IN  /\ Percentile(xs, 0) = 100 * Ranked(xs, 0) /\ Percentile(xs, 100) = 100 * Ranked(xs, Count(xs) - 1)
            /\ \A q \in {10, 25, 50, 75} : Percentile(xs, q) <= Percentile(xs, q + 15)
            /\ \A q \in {10, 25, 50, 75, 90} : Percentile(mirrored, 100 - q) = -Percentile(xs, q)
            /\ HasDensity(xs) <=> \E i, j \in DOMAIN xs : xs[i] # xs[j]

\* A confidence interval holds the observed frequency, and grows with it.
IntervalHoldsFrequency ==
    Of("interval") /\ Result # Nothing =>
        LET k == asked[2]
            n == asked[3]
            d == 100 * n + ZSquared
        IN  /\ Result.low * n <= k * d + n /\ k * d <= Result.high * n + n
            /\ 0 <= Result.low /\ Result.high <= d
            /\ k < n => Result.low <= ConfidenceInterval(k + 1, n).low /\ Result.high <= ConfidenceInterval(k + 1, n).high

----------------------------------------------------------------------------
(* Precipitation and clouds. *)

\* Every member's support is shared out in full, dry members support dryness and
\* wet ones never do, and a transition's name agrees with the phases at its ends.
PhasesAddUp ==
    Of("phase") =>
        LET s == Result[1]
            w == Weights(s)
        IN  /\ Total(w) = 12 /\ Total(PhaseSupport(Result)) = 24
            /\ w["dry"] = 12 <=> asked[2] = Missing \/ asked[2] <= Trace
            /\ Total([p \in DOMAIN w |-> JointSupport(Result, 0, p)]) = 24
            /\ s.transition \in NamedTransitions => s.start = s.transition[1] /\ s.end = s.transition[2]
            /\ s.interval \in Phases => s.active = {s.interval} /\ s.end = s.interval
            /\ TransitionCount(Result, s.transition) >= 1

\* The reconstructed interval is the one that, averaged with its predecessor,
\* gives the running average, up to the averages' half units.
ReconstructionInverts ==
    Of("cover") => Result # Missing /\ Abs(Result - 5 * asked[3]) <= 2

\* Unlimited ceilings count as valid members and never as low ones: low and
\* higher members add up.
CeilingsAddUp ==
    Of("clouds") =>
        LET valid == {m \in 1..3 : asked[3][m] # Missing}
        IN  /\ Result.ceiling = <<>> <=> Result.low = Missing
            /\ Result.ceiling = <<>> <=> Cardinality(valid) < 2
            /\ Result.ceiling # <<>> =>
                 /\ Result.ceiling.valid = Result.ceiling.finite + Result.ceiling.unlimited
                 /\ Result.ceiling.valid - Result.low = Cardinality({m \in valid : asked[3][m] > 30})
            /\ Result.cover # <<>> => Result.cover.valid + Result.cover.invalid = 3

----------------------------------------------------------------------------
(* Wind. *)

\* Every member is calm or in one speed bin of one sector; the sectors'
\* probabilities and the rose agree; members that share a sector share it with
\* their consensus.
RoseAddsUp ==
    Of("wind") =>
        LET ws == <<asked[2], asked[3]>>
            rose == Result.rose
        IN  /\ rose.calm + Total(rose.count) = 2
            /\ \A s \in Sectors :
                 /\ rose.count[s] = Total([b \in 1..4 |-> rose.bins[s, b]])
                 /\ rose.count[s] = Directional(ws, s, "any", 0)
                 /\ rose.count[s] = Directional(ws, s, "gte", 11) + Directional(ws, s, "lt", 11)
                 /\ rose.count[s] = Directional(ws, s, "gt", 11) + Directional(ws, s, "lte", 11)
                 /\ rose.count[s] = 2 => Result.consensus = s
            /\ Direction(asked[2]) # Missing =>
                 Direction([u |-> -asked[2].v, v |-> asked[2].u]) = (Direction(asked[2]) + 6) % 8

\* A component comes back within half a quantum, or saturated, and in order.
QuantizationHolds ==
    Of("quantize") =>
        /\ Result[1] <= Result[2] /\ Result[1] \in -32768..32767
        /\ asked[2] \in -327680..327670 => Abs(10 * Result[1] - asked[2]) <= 5

----------------------------------------------------------------------------
(* Grids. *)

\* The nearest cell is nearest; an interpolated value lies between the field's
\* values and equals the cell's on a node; longitudes a turn apart are one.
GridHolds ==
    Of("grid") =>
        LET g == asked[2]
            lon == Align(g, asked[4], Half)
            d(r, c) == Abs(g.lat0 + r * g.step - asked[3]) + Abs(g.lon0 + c * g.step - lon)
            n == Result.nearest
        IN  /\ n # <<>> => \A r \in 0..(g.rows - 1), c \in 0..(g.cols - 1) : d(n[1], n[2]) <= d(r, c)
            /\ n # <<>> /\ d(n[1], n[2]) = 0 => Result.value = g.step * g.step * Field(g)[n]
            /\ Result.value # Invalid => 0 <= Result.value /\ Result.value <= g.step * g.step * 29
            /\ Nearest(g, asked[3], asked[4] + 2 * Half, Half) = n \/ asked[4] = -Half
            /\ Abs(Result.at.lat) <= 4 /\ Abs(Result.at.lon) <= Half

\* A vector field has no seam: it equals the node's value on a node and is the
\* same a turn further.
VectorFieldWraps ==
    Of("grid") =>
        LET g == asked[2]
        IN  /\ Result.vector = SampleVector(g, Field(g), asked[3], asked[4] + 2 * Half, Half)
            /\ \A r \in 0..(g.rows - 1), c \in 0..(g.cols - 1) :
                  g.lat0 + r * g.step = asked[3] /\ (g.lon0 + c * g.step - asked[4]) % (2 * Half) = 0
                      => Result.vector = g.step * g.step * Field(g)[<<r, c>>]
            /\ Abs(Result.vector - SampleVector(g, Field(g), asked[3], asked[4] + 1, Half)) <= g.step * 5

\* Errors do not cancel beyond what they are: bias <= mean absolute error <=
\* root mean squared error, and unequal series are refused.
ErrorsAreOrdered ==
    Of("errors") =>
        IF Len(asked[3]) # 3 THEN Result.bias = Invalid /\ Result.mae = Invalid /\ Result.mse = Invalid
        ELSE Abs(Result.bias) <= Result.mae /\ Result.mae * Result.mae <= 3 * Result.mse

----------------------------------------------------------------------------
(* What is fetched. *)

\* An index is refused unless its records tile the file from byte 0 on; then the
\* ranges that are asked for hold the selected records' bytes and no other, in
\* as few requests as that takes.
RangesAreExact ==
    Of("idx") =>
        LET size == 4 * Len(asked[2])
            bytes(r) == r.first..(IF r.last = X!ToTheEnd THEN size - 1 ELSE r.last)
            ofRecords(is) == UNION {bytes(Result.records[i]) : i \in is}
            ofGroup(g) == bytes(X!RangeOf(Result.records, g))
        IN  IF Result = X!Refused THEN asked[2] = <<>> \/ \E i \in DOMAIN asked[2] : asked[2][i].number # i \/ asked[2][i].offset # 4 * (i - 1)
            ELSE /\ \A i \in DOMAIN asked[2] : asked[2][i].number = i /\ asked[2][i].offset = 4 * (i - 1)
                 /\ UNION {ofGroup(Result.groups[k]) : k \in DOMAIN Result.groups} = ofRecords({Result.chosen.records[k] : k \in DOMAIN Result.chosen.records})
                 /\ \A k \in 1..(Len(Result.groups) - 1) :
                      \E b \in 0..size : b \notin ofGroup(Result.groups[k]) \cup ofGroup(Result.groups[k + 1])
                                       /\ (\A x \in ofGroup(Result.groups[k]) : x < b) /\ (\A x \in ofGroup(Result.groups[k + 1]) : b < x)

\* A range is accepted when it is what the index says, and not when a message of
\* it has another length, was damaged, or stands at another place.
OnlyTheRangeIsAccepted ==
    Of("idx") /\ Result # X!Refused =>
        \A k \in DOMAIN Result.groups :
            LET group == Result.groups[k]
                range == X!RangeOf(Result.records, group)
                given == [first |-> range.first, last |-> IF range.last = X!ToTheEnd THEN 4 * Len(asked[2]) - 1 ELSE range.last]
                good == [i \in DOMAIN group |-> [length |-> 4, intact |-> TRUE]]
                Accepts(g, m) == X!RangeAccepted(Result.records, group, g, m)
            IN  /\ Accepts(given, good)
                /\ \A i \in DOMAIN group : ~Accepts(given, [good EXCEPT ![i].intact = FALSE]) /\ ~Accepts(given, [good EXCEPT ![i].length = 3])
                /\ \A i, j \in DOMAIN group : i # j => ~Accepts(given, [good EXCEPT ![i].length = 3, ![j].length = 5])
                /\ ~Accepts([given EXCEPT !.first = @ + 4], good) /\ ~Accepts([given EXCEPT !.last = @ - 4], good)

\* A selection is valid only if every variable has a record of the right field,
\* member and time, no variable takes another's, and the decoder finds all of
\* them in what was fetched.
SelectedIsDecoded ==
    Of("idx") /\ Result # X!Refused =>
        LET of == Result.chosen.of
            fetched == [k \in DOMAIN Result.chosen.records |-> Result.records[Result.chosen.records[k]]]
        IN  /\ Result.chosen.valid => fetched # <<>> /\ X!ParseGrib(fetched) = Wanted
            /\ \A k \in DOMAIN fetched : asked[3] = "gefs" => fetched[k].ens \in {X!Untagged, asked[4]}
            /\ \A v, w \in Wanted : of[v].record = of[w].record /\ v # w => of[v].record = 0

\* What is left of an accumulation or average without that of the lead three hours
\* before is three hours long at every lead.
IntervalsAreThreeHours ==
    Of("bucket") =>
        /\ Result # Invalid /\ asked[2] % 6 = 3 => Result = asked[2] - 3
        /\ Result # Invalid /\ asked[2] % 6 = 0 => X!HasBucket(asked[2] - 3) /\ Result = X!BucketStart(asked[2] - 3)

\* The key under which an artifact is downloaded is one that discovery counts as
\* this artifact, in the listing of its own cycle and in no other.
KeysAreCounted ==
    Of("keys") /\ Result # X!Refused =>
        LET a == asked[2]
            counted == X!Counts(Result[2], asked[3], asked[4], asked[5])
        IN  IF asked[3] # a.model \/ asked[4] # a.hour \/ (a.model = "gefs" /\ a.member = X!Mean /\ ~asked[5])
            THEN counted[1] = "ignored"
            ELSE /\ counted[3] = a.lead
                 /\ a.model = "gefs" => counted[2] = a.member /\ (counted[1] = "mean" <=> a.member = X!Mean)

----------------------------------------------------------------------------
(* What is read of a store, and what is made of the members. *)

\* The leads of a batch read what each of them reads alone, whatever the earlier
\* ones remembered, and a batch is lost exactly if one of its leads is.
BatchIsItsLeads ==
    Of("batch") =>
        LET alone == [l \in {3, 6} |-> E!ExtractLead(Sharded(asked), l, asked[4], <<>>)]
        IN  IF \E l \in {3, 6} : alone[l].error # "" THEN Result.error # "" ELSE Result.error = "" /\ Result.results = alone

\* A legacy store, with or without members, answers what a sharded one with the
\* same content answers.
LayoutsAgree ==
    Of("batch") =>
        LET alike(d) == E!Batch(d, Everywhere(asked[4])).results
            twice == StoreOf(asked[2], "legacy", <<2, 1>>, {1, 2})
        IN  Result.error = "" => Result.results = alike(twice) /\ Result.results = alike(StoreOf(asked[2], "legacy", <<>>, {E!Det}))

\* An ensemble's answer has an official mean for every variable asked for on its
\* own: without the shard there is none.
MeansAreThere ==
    Of("batch") /\ asked[3] = E!Mean /\ E!Amount \notin Range(asked[4]) =>
        (Result.error = "" <=> \A v \in Range(asked[4]), l \in {3, 6} : At(asked[2], l, v) # Missing)

\* The variables a request without any gets can be read from that store.
DefaultsAreReadable ==
    Of("defaults") =>
        LET d == [format |-> "sharded", members |-> <<>>, vars |-> asked[3], leads |-> {3}, stored |-> <<>>]
        IN  /\ \A v \in Result : E!ExtractLead(d, 3, <<v>>, <<>>).error = ""
            /\ E!MissingVariables(asked[2], Result) \subseteq {"wind_10m"}

\* The direction in which an axis is stored, and a longitude beyond half a turn,
\* change nothing.
AxesDoNotMatter ==
    Of("axes") =>
        LET lon0 == IF asked[2][1] > Half THEN asked[2][1] - 2 * Half ELSE asked[2][1]
            g == [lat0 |-> -4, lon0 |-> lon0, step |-> 4, rows |-> 3, cols |-> Len(asked[2])]
        IN  Result = Bilinear(g, FieldOf(asked[2], FALSE, FALSE), asked[5], asked[6], Half)

\* A window put together from chunks has every cell once, in its place.
WindowsAreWhole ==
    Of("chunks") => \A place \in DOMAIN Result : Result[place] = {asked[4] + place}

\* A member's values are its own in either layout: those of its number, not of
\* its place.
MembersAreTheirOwn == Of("layout") => Result["legacy"] = Result["sharded"]

\* A probability is answered exactly when the statistics of the same cell are not
\* null (ceilings apart, whose percentiles may have too few limited members); the
\* operators agree with each other, and with the median.
MembersAgree ==
    Of("members") =>
        LET p == Result.probability
            s == Result.statistics
            limited == asked[2] # "cloud_ceiling"
        IN  /\ p["gt"].error = "not found" => s.stats = <<>>
            /\ limited /\ p["gt"].error = "" => s.stats # <<>> /\ p["gt"].of = Count(s.members)
            /\ limited /\ p["gt"].error = "" =>
                 /\ p["gt"].count + p["lte"].count = p["gt"].of /\ p["gte"].count + p["lt"].count = p["gt"].of
                 /\ asked[4] <= asked[5] => p["between"].count <= p["gte"].count
                 /\ p["between"].error # "" <=> asked[5] < asked[4]
                 /\ 2 * p["gt"].count > p["gt"].of => s.stats.median > 100 * asked[4]
                 /\ 2 * p["lt"].count > p["gt"].of => s.stats.median < 100 * asked[4]
            /\ ~limited /\ p["lte"].error = "" => p["lte"].count + p["gt"].count = p["lte"].of \/ \E m \in DOMAIN asked[3] : asked[3][m] < 0
            /\ E!Density(asked[2], s) => Count(s.members) >= 2

\* Winds from all directions and calm ones add up to the winds of that speed, and
\* a rose is shown exactly when a probability is.
WindsAgree ==
    Of("winds") =>
        LET p == Result.all["gte"]
        IN  /\ p.error = "" => Total([s \in Sectors |-> Result.from[s].count]) = p.count
            /\ p.error = "" <=> Result.statistics.extra # <<>>
            /\ p.error = "" => Result.statistics.extra.rose.calm + Total(Result.statistics.extra.rose.count) = p.of
            /\ \A o \in Operators : Result.all[o].error = p.error

\* The phases' shares of an amount add up to the amount's probability; statistics
\* are shown exactly when a probability is, unless no member has an amount at all.
PhasesAgree ==
    Of("states") =>
        LET p == Result.phases
            xs == Amounts(asked[2])
        IN  /\ p["rain"].error = "" =>
                 Total([q \in DOMAIN p |-> p[q].count]) = 12 * E!OtherProbability(xs, "gte", asked[3], Missing).count
            /\ (\E m \in DOMAIN xs : xs[m] # Missing) =>
                 /\ p["rain"].error = "" <=> Result.statistics.stats # <<>>
                 /\ \A q \in DOMAIN p : p["rain"].error = "" /\ asked[3] = 0 => p[q].count = Result.statistics.extra.support[q]

----------------------------------------------------------------------------
(* Planning and selection. *)

\* A wave is published, in order, without gaps, and repeats nothing committed.
WavePlanIsSound ==
    Of("plan") => P!PlanSound(asked[2], asked[3], Result) /\ P!CompleteMeansComplete(asked[3], Result)

\* A variable behind the fence is not selected from the candidates in front of
\* it, and whatever was not fenced still is.
FencedIsNotSelected ==
    Of("canonical") =>
        LET bulk == C!SelectBulk([t \in {1} |-> Result], {"crain", "precipitation_amount_3h", "wind_10m"}, {1}, 0)
        IN  /\ \A k \in asked[3], c \in Result : c.run = k.run /\ c.lead = k.lead => k.var \notin c.vars \/ c.vars = {}
            /\ \A c \in asked[2] : c \in Result \/ \E k \in asked[3] : c.run = k.run /\ c.lead = k.lead
            /\ \A c \in Result : c.vars = {} => c \in asked[2]
            /\ Result # {} =>
                 /\ \A v \in {"crain", "precipitation_amount_3h", "wind_10m"} :
                      bulk.sources[v, 1] = C!SelectVariable(Result, v)
                 /\ bulk.anchors[1] = C!Freshest(Result)
            /\ (1 \in C!ListValidTimes([t \in {1} |-> Result], "crain")) <=> C!SelectVariable(Result, "crain") # C!NoCandidate

----------------------------------------------------------------------------
(* The rules together. *)

\* What several processes compute alike: times, coverage, addresses, registries,
\* plans and selections.
DomainRulesHold ==
    /\ ServingWindowHolds /\ ExpiredHasNothingLeft /\ PredecessorInPeriod /\ CoverageAgrees
    /\ NamesIdentifyShards /\ SchemaCanBeStored /\ RegisteredIsUsable
    /\ WavePlanIsSound /\ FencedIsNotSelected

\* The numerical rules.
NumbersHold ==
    /\ ProbabilitiesAddUp /\ PercentilesOrdered /\ IntervalHoldsFrequency
    /\ PhasesAddUp /\ ReconstructionInverts /\ CeilingsAddUp
    /\ RoseAddsUp /\ QuantizationHolds /\ GridHolds /\ VectorFieldWraps /\ ErrorsAreOrdered

\* What is fetched upstream, and what is read back for a point or an ensemble.
AccessRulesHold ==
    /\ RangesAreExact /\ OnlyTheRangeIsAccepted /\ SelectedIsDecoded
    /\ IntervalsAreThreeHours /\ KeysAreCounted
    /\ BatchIsItsLeads /\ LayoutsAgree /\ MeansAreThere /\ DefaultsAreReadable
    /\ AxesDoNotMatter /\ WindowsAreWhole
    /\ MembersAreTheirOwn /\ MembersAgree /\ WindsAgree /\ PhasesAgree
=============================================================================
