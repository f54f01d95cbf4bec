---------------------------- MODULE EnsembleValues ----------------------------
(***************************************************************************)
(* What the API makes of the members' values at one point and lead: which  *)
(* members take part, when a cell has enough of them, and the probability  *)
(* or the statistics it answers with.                                      *)
(*                                                                         *)
(* xs gives each member's value (Missing: not a number), ws each member's  *)
(* wind [u, v], states each member's precipitation phase.  A refused       *)
(* answer has an error instead of values.                                  *)
(***************************************************************************)
EXTENDS PointReads

CONSTANTS
    Expected,    \* members an ensemble of the model has, at least one
    MinFinite    \* finite ceilings that conditional percentiles take

----------------------------------------------------------------------------
(* The members' values, sharded by member number or on a member axis.      *)

Positions(d) == [m \in Range(d.members) |-> CHOOSE i \in Indices(d.members) : d.members[i] = m]

\* Committed members without a place in the store are left out.
Targets(d, available) == available \cap Range(d.members)

KeyOfMember(d, m) == IF d.format = "legacy" THEN Positions(d)[m] ELSE m

MemberValues(d, var, lead, available) ==
    [m \in Targets(d, available) |-> Stored(d, var, KeyOfMember(d, m), lead)]

MemberVectors(d, lead, available) ==
    [m \in Targets(d, available) |->
        [u |-> Stored(d, "wind_u_10m", KeyOfMember(d, m), lead), v |-> Stored(d, "wind_v_10m", KeyOfMember(d, m), lead)]]

ShardedStates(d, lead, available) ==
    [m \in Targets(d, available) |-> Phase(Interval(d, m, lead), Before(d, m, lead, <<>>))]
StoredStates(d, lead, available) ==
    [m \in Targets(d, available) |->
        Phase(Interval(d, KeyOfMember(d, m), lead), Before(d, KeyOfMember(d, m), lead, <<>>))]
MemberStates(d, lead, available) ==
    IF d.format = "legacy" THEN StoredStates(d, lead, available) ELSE ShardedStates(d, lead, available)

----------------------------------------------------------------------------
(* Cells.                                                                  *)

ValidCell(n) == n * 100 >= Expected * 85
FiniteMembers(xs) == {m \in Indices(xs) : xs[m] # Missing}
FiniteVectors(ws) == {m \in Indices(ws) : ws[m].u # Missing /\ ws[m].v # Missing}
Speeds2(ws, ms) == [m \in ms |-> Speed2(ws[m])]

Refused(error) == [error |-> error, of |-> 0, count |-> 0]
Counted(k, n) == IF k = Invalid THEN Refused("bad request") ELSE [error |-> "", of |-> n, count |-> k]

\* Threshold operators; between takes an upper threshold.
Exceedance(xs, operator, t, tmax) ==
    IF operator # "between" THEN Probability(xs, operator, t)
    ELSE IF tmax = Missing THEN Invalid ELSE Between(xs, t, tmax)

----------------------------------------------------------------------------
(* Probabilities.                                                          *)

WindProbability(ws, sector, operator, t, tmax) ==
    LET ms == FiniteVectors(ws)
    IN  IF ~ValidCell(Cardinality(ms)) THEN Refused("not found")
        ELSE IF sector # Missing THEN Counted(Directional(Restrict(ws, ms), sector, operator, t), Cardinality(ms))
        ELSE Counted(Exceedance(Speeds2(ws, ms), operator, t * t, IF tmax = Missing THEN Missing ELSE tmax * tmax), Cardinality(ms))

\* Joint support is counted in twelfths of a member.
PhaseProbability(states, t, phase) ==
    LET ms == {m \in Indices(states) : states[m].amount # Missing}
    IN  IF ~ValidCell(Cardinality(ms)) THEN Refused("not found")
        ELSE IF phase \notin Phases \cup {"dry", "unknown"} THEN Refused("bad request")
        ELSE Counted(JointSupport(Restrict(states, ms), t, phase), 12 * Cardinality(ms))

LowCeilingProbability(xs, t) ==
    LET ms == FiniteMembers(xs)
        low == LowCeiling(Restrict(xs, ms), t, 1)
    IN  IF ~ValidCell(Cardinality(ms)) \/ low = Missing THEN Refused("not found")
        ELSE Counted(low, Cardinality({m \in ms : xs[m] >= 0}))

CoverProbability(xs, operator, t, tmax) ==
    LET ms == Within(xs, 0, 100)
    IN  IF ~ValidCell(Cardinality(ms)) THEN Refused("not found")
        ELSE Counted(Exceedance(Restrict(xs, ms), operator, t, tmax), Cardinality(ms))

OtherProbability(xs, operator, t, tmax) ==
    LET ms == FiniteMembers(xs)
    IN  IF ~ValidCell(Cardinality(ms)) THEN Refused("not found")
        ELSE Counted(Exceedance(Restrict(xs, ms), operator, t, tmax), Cardinality(ms))

ProbabilityOf(variable, xs, operator, t, tmax) ==
    CASE variable = "cloud_ceiling" /\ operator \in {"lt", "lte"} -> LowCeilingProbability(xs, t)
      [] variable = "cloud_cover_3h" -> CoverProbability(xs, operator, t, tmax)
      [] OTHER -> OtherProbability(xs, operator, t, tmax)

----------------------------------------------------------------------------
(* Statistics; what is shown of a cell without enough members is null.     *)

Null == <<>>
Summary(xs) ==
    [mean |-> MeanTimesN(xs), spread |-> VarianceTimesNN(xs), median |-> Median(xs),
     p10 |-> Percentile(xs, 10), p25 |-> Percentile(xs, 25), p75 |-> Percentile(xs, 75), p90 |-> Percentile(xs, 90)]
SummaryOf(xs) == IF ValidCell(Count(xs)) /\ xs # <<>> THEN Summary(xs) ELSE Null

Statistics(members, stats, extra) == [members |-> members, stats |-> stats, extra |-> extra]

WindStatistics(ws, series) ==
    LET ms == FiniteVectors(ws)
        given == Restrict(ws, ms)
    IN  Statistics(Speeds2(ws, ms), SummaryOf(Speeds2(ws, ms)),
                   IF ValidCell(Cardinality(ms)) /\ ~series THEN [consensus |-> Consensus(given), rose |-> WindRose(given)] ELSE Null)

\* When no member has an amount, as at the analysis, all of them count as dry.
PrecipitationStatistics(xs, states, series) ==
    LET none == FiniteMembers(xs) = {}
        ms == IF none THEN Indices(xs) ELSE FiniteMembers(xs)
        given == [m \in ms |-> IF none THEN 0 ELSE xs[m]]
    IN  Statistics(given, SummaryOf(given),
                   IF ValidCell(Count(given)) THEN [support |-> PhaseSupport(Restrict(states, ms))] ELSE Null)

CoverStatistics(xs) ==
    LET given == Restrict(xs, Within(xs, 0, 100))
    IN  Statistics(given, IF ValidCell(Count(given)) THEN Summary(given) ELSE Null, Null)

\* Percentiles of ceilings are those of the limited ones, if there are enough.
CeilingStatistics(xs) ==
    LET given == Restrict(xs, {m \in Indices(xs) : xs[m] # Missing /\ xs[m] >= 0})
        summary == CeilingSummary(given, MinFinite, 1)
        limited == Restrict(given, {m \in Indices(given) : given[m] < Unlimited})
    IN  IF ~ValidCell(Count(given)) \/ summary = <<>> THEN Statistics(given, Null, Null)
        ELSE Statistics(given, IF summary.conditional THEN Summary(limited) ELSE Null, summary)

OtherStatistics(xs) ==
    LET given == Restrict(xs, FiniteMembers(xs)) IN Statistics(given, SummaryOf(given), Null)

\* The density is estimated from the members that are shown, the limited ones of
\* a ceiling.
DensityMembers(variable, s) ==
    IF variable = "cloud_ceiling" THEN Restrict(s.members, {m \in Indices(s.members) : s.members[m] < Unlimited}) ELSE s.members
Density(variable, s) == Count(DensityMembers(variable, s)) >= 2 /\ HasDensity(DensityMembers(variable, s))

StatisticsOf(variable, xs) ==
    CASE variable = "cloud_ceiling" -> CeilingStatistics(xs)
      [] variable = "cloud_cover_3h" -> CoverStatistics(xs)
      [] OTHER -> OtherStatistics(xs)
=============================================================================
