---------------------------- MODULE DomainScience ----------------------------
(***************************************************************************)
(* The numerical rules of packages/domain: ensemble probabilities and      *)
(* statistics, precipitation phases, clouds, wind, grids and verification. *)
(* Numbers are integers in a unit that the callers choose; a fraction is   *)
(* given by its numerator where the denominator is the number of members.  *)
(* An error of the code is Invalid, a missing number (None, NaN) is        *)
(* Missing.  Angles enter only by their sector, roots only squared.        *)
(***************************************************************************)
EXTENDS Integers, Sequences, FiniteSets, Functions

Missing == -99999
Invalid == -99998

Indices(xs) == DOMAIN xs
Count(xs) == Cardinality(DOMAIN xs)
Total(xs) == FoldFunction(LAMBDA a, b : a + b, 0, xs)
Clip(x, low, high) == IF x < low THEN low ELSE IF x > high THEN high ELSE x
Abs(x) == IF x < 0 THEN -x ELSE x

----------------------------------------------------------------------------
(* Ensemble probabilities and statistics. *)

Coerced(xs) == xs # <<>> /\ \A m \in Indices(xs) : xs[m] # Missing

\* The share of members that satisfy a predicate: hits are their indices.
Fraction(xs, hits) == IF ~Coerced(xs) THEN Invalid ELSE Cardinality(hits)

Probability(xs, operator, t) ==
    CASE operator = "gt" -> Fraction(xs, {m \in Indices(xs) : xs[m] > t})
      [] operator = "gte" -> Fraction(xs, {m \in Indices(xs) : xs[m] >= t})
      [] operator = "lt" -> Fraction(xs, {m \in Indices(xs) : xs[m] < t})
      [] operator = "lte" -> Fraction(xs, {m \in Indices(xs) : xs[m] <= t})

Between(xs, lower, upper) ==
    IF upper < lower THEN Invalid ELSE Fraction(xs, {m \in Indices(xs) : lower <= xs[m] /\ xs[m] <= upper})

\* n times the mean, n squared times the variance.
MeanTimesN(xs) == Total(xs)
VarianceTimesNN(xs) == Count(xs) * Total([m \in Indices(xs) |-> xs[m] * xs[m]]) - Total(xs) * Total(xs)

\* The k-th smallest member, k from 0.
Ranked(xs, k) ==
    CHOOSE x \in {xs[m] : m \in Indices(xs)} :
        /\ Cardinality({m \in Indices(xs) : xs[m] < x}) <= k
        /\ Cardinality({m \in Indices(xs) : xs[m] <= x}) > k

\* The linear percentile, in hundredths of the members' unit.
Percentile(xs, q) ==
    LET at == (q * (Count(xs) - 1)) \div 100
        next == IF at + 1 < Count(xs) THEN at + 1 ELSE at
        r == (q * (Count(xs) - 1)) % 100
    IN  Ranked(xs, at) * (100 - r) + Ranked(xs, next) * r
Median(xs) == Percentile(xs, 50)

\* A density is estimated only for members that differ.
HasDensity(xs) == Count(xs) >= 2 /\ VarianceTimesNN(xs) > 0

Root(x) == CHOOSE r \in 0..1000 : r * r <= x /\ (r + 1) * (r + 1) > x
ZSquared == 384  \* hundredths
\* The Wilson score interval of k hits in n, over the denominator 100 n + z^2.
ConfidenceInterval(k, n) ==
    LET centre == 100 * k + ZSquared \div 2
        margin == Root(ZSquared * ((100 * k * (n - k)) \div n + ZSquared \div 4))
    IN  [low |-> Clip(centre - margin, 0, centre), high |-> Clip(centre + margin, 0, 100 * n + ZSquared)]

----------------------------------------------------------------------------
(* Precipitation; amounts in hundredths of a millimetre. *)

Trace == 10
Phases == {"rain", "snow", "freezing_rain", "ice_pellets"}
NamedTransitions ==
    {<<"rain", "snow">>, <<"snow", "rain">>, <<"rain", "freezing_rain">>, <<"freezing_rain", "rain">>,
     <<"snow", "freezing_rain">>, <<"freezing_rain", "snow">>, <<"snow", "ice_pellets">>, <<"ice_pellets", "snow">>}
Transition(old, new) == <<old, new>>

State(interval, start, end, transition, evidence, active, amount) ==
    [interval |-> interval, start |-> start, end |-> end, transition |-> transition,
     evidence |-> evidence, active |-> active, amount |-> amount]

Only(phases) == IF Cardinality(phases) = 1 THEN CHOOSE p \in phases : TRUE ELSE "mixed"

Dry(amount) == amount <= Trace

\* flags and before are sets of phases; noBefore: no flags of the interval before.
Classify(amount, flags, previous, before, noBefore) ==
    LET knownBefore == previous # Missing
        dryBefore == knownBefore /\ Dry(previous)
        wetBefore == knownBefore /\ ~Dry(previous)
        new == flags \ before
    IN  IF amount = Missing THEN State("none", "none", "none", Transition("none", "none"), "exact", {}, Missing)
        ELSE IF Dry(amount) THEN
            State("none", "none", "none",
                  IF wetBefore THEN Transition("wet", "dry") ELSE Transition("none", "none"),
                  IF wetBefore THEN "inferred" ELSE "exact", {}, amount)
        ELSE IF flags = {} THEN
            State("unknown", "unknown", "unknown", Transition("unknown", "unknown"), "ambiguous", {"unknown"}, amount)
        ELSE IF ~wetBefore \/ noBefore THEN
            State(Only(flags), IF dryBefore THEN "none" ELSE Only(flags), Only(flags),
                  IF Only(flags) = "mixed" THEN Transition("mixed", "mixed")
                  ELSE IF dryBefore THEN Transition("dry", Only(flags)) ELSE Transition(Only(flags), Only(flags)),
                  IF Only(flags) = "mixed" THEN "inferred" ELSE "exact", flags, amount)
        ELSE IF flags = before /\ Cardinality(flags) = 1 THEN
            State(Only(flags), Only(flags), Only(flags), Transition(Only(flags), Only(flags)), "exact", flags, amount)
        ELSE IF Cardinality(before) = 1 /\ Cardinality(new) = 1 THEN
            State("mixed", Only(before), Only(new),
                  IF Transition(Only(before), Only(new)) \in NamedTransitions
                  THEN Transition(Only(before), Only(new)) ELSE Transition("mixed", "mixed"), "inferred", flags, amount)
        ELSE State("mixed", Only(before), Only(new), Transition("mixed", "mixed"), "ambiguous", flags, amount)

\* Mutant: phases are not shared out.
WeightsWhole(s) ==
    [p \in Phases \cup {"dry", "unknown"} |-> IF p \in s.active \/ (s.active = {} /\ p = "dry") THEN 12 ELSE 0]
\* Support of each physical phase, in twelfths.
Weights(s) ==
    LET all(q) == [p \in Phases \cup {"dry", "unknown"} |-> IF p = q THEN 12 ELSE 0]
        known == s.active \ {"unknown", "dry"}
    IN  IF s.amount = Missing \/ s.amount <= Trace \/ s.interval = "none" THEN all("dry")
        ELSE IF s.interval = "unknown" \/ known = {} THEN all("unknown")
        ELSE [p \in Phases \cup {"dry", "unknown"} |-> IF p \in known THEN 12 \div Cardinality(known) ELSE 0]

\* Support over all members; joint support counts those with at least a threshold.
PhaseSupport(states) ==
    [p \in Phases \cup {"dry", "unknown"} |-> Total([m \in DOMAIN states |-> Weights(states[m])[p]])]
JointSupport(states, threshold, phase) ==
    Total([m \in DOMAIN states |->
        IF (IF states[m].amount = Missing THEN 0 ELSE states[m].amount) >= threshold
        THEN Weights(states[m])[phase] ELSE 0])
TransitionCount(states, t) == Cardinality({m \in DOMAIN states : states[m].transition = t})

----------------------------------------------------------------------------
(* Clouds; cover in per cent, ceilings in hundredths of a kilometre. *)

Tolerance == 5
Guarded(x) ==
    IF x < -Tolerance \/ x > 100 + Tolerance THEN Missing ELSE Clip(x, 0, 100)

\* The last interval's average out of the running averages of the reset period.
RunningAverage(current, before, period, width) ==
    IF period <= 0 \/ width <= 0 \/ width > period THEN Invalid
    ELSE IF current = Missing \/ (width < period /\ before = Missing) THEN Missing
    ELSE Guarded((period * current - (period - width) * before) \div width)
CloudCover3h(current, before) == RunningAverage(current, before, 6, 3)

Unlimited == 1999
Ceiling(value) == [unlimited |-> value # Missing /\ value >= Unlimited,
                   height |-> IF value = Missing \/ value >= Unlimited THEN Missing ELSE value]

Within(xs, low, high) == {m \in Indices(xs) : xs[m] # Missing /\ low <= xs[m] /\ xs[m] <= high}
CoverSummary(xs, minValid) ==
    LET valid == Within(xs, 0, 100)
    IN  IF Cardinality(valid) < minValid THEN <<>>
        ELSE [valid |-> Cardinality(valid), invalid |-> Count(xs) - Cardinality(valid),
              members |-> Restrict(xs, valid)]
CeilingSummary(xs, minFinite, minValid) ==
    LET finite == Within(xs, 0, Unlimited - 1)
        unlimited == {m \in Indices(xs) : xs[m] >= Unlimited}
    IN  IF Cardinality(finite \cup unlimited) < minValid THEN <<>>
        ELSE [valid |-> Cardinality(finite \cup unlimited), finite |-> Cardinality(finite),
              unlimited |-> Cardinality(unlimited), conditional |-> Cardinality(finite) >= minFinite]
LowCeiling(xs, height, minValid) ==
    LET finite == Within(xs, 0, Unlimited - 1)
        unlimited == {m \in Indices(xs) : xs[m] >= Unlimited}
    IN  IF Cardinality(finite \cup unlimited) < minValid THEN Missing
        ELSE Cardinality({m \in finite : xs[m] <= height})

----------------------------------------------------------------------------
(* Wind; components in half metres per second, w = [u, v]. *)

Calm == 1
Speed2(w) == w.u * w.u + w.v * w.v
IsCalm(w) == Speed2(w) < Calm * Calm

\* The direction the wind comes from: within 22.5 degrees of an axis the minor
\* component is below tan(22.5) of the major one.
Sectors == 0..7  \* N, NE, E, ..., NW
Sector(w) ==
    LET e == -w.u
        n == -w.v
        major == IF Abs(e) > Abs(n) THEN Abs(e) ELSE Abs(n)
        axial == (Abs(e) + Abs(n)) * (Abs(e) + Abs(n)) < 2 * major * major
    IN  CASE axial /\ Abs(n) > Abs(e) -> IF n > 0 THEN 0 ELSE 4
          [] axial /\ Abs(e) > Abs(n) -> IF e > 0 THEN 2 ELSE 6
          [] ~axial -> IF e > 0 THEN (IF n > 0 THEN 1 ELSE 3) ELSE (IF n > 0 THEN 7 ELSE 5)
Direction(w) == IF IsCalm(w) THEN Missing ELSE Sector(w)

\* The label of a direction in quarter degrees, in 8 or 16 sectors.
Cardinal(quarters, sectors) ==
    IF quarters = Missing THEN Missing
    ELSE IF sectors = 8 THEN (((quarters % 1440) + 90) \div 180) % 8
    ELSE IF sectors = 16 THEN (((quarters % 1440) + 45) \div 90) % 16
    ELSE Invalid

SpeedBins == <<<<1, 11>>, <<11, 22>>, <<22, 34>>, <<34, 9999>>>>
InBin(w, b) == SpeedBins[b][1] * SpeedBins[b][1] <= Speed2(w) /\ Speed2(w) < SpeedBins[b][2] * SpeedBins[b][2]

WindRose(ws) ==
    [calm |-> Cardinality({m \in Indices(ws) : IsCalm(ws[m])}),
     count |-> [s \in Sectors |-> Cardinality({m \in Indices(ws) : Direction(ws[m]) = s})],
     bins |-> [s \in Sectors, b \in 1..4 |->
        Cardinality({m \in Indices(ws) : Direction(ws[m]) = s /\ InBin(ws[m], b)})]]

Directional(ws, s, operator, t) ==
    Cardinality({m \in Indices(ws) : Direction(ws[m]) = s
        /\ (CASE operator = "any" -> TRUE
              [] operator = "gte" -> Speed2(ws[m]) >= t * t
              [] operator = "gt" -> Speed2(ws[m]) > t * t
              [] operator = "lte" -> Speed2(ws[m]) <= t * t
              [] operator = "lt" -> Speed2(ws[m]) < t * t)})

\* n times the mean vector, and its direction.
MeanVector(ws) == [u |-> Total([m \in Indices(ws) |-> ws[m].u]), v |-> Total([m \in Indices(ws) |-> ws[m].v])]
Consensus(ws) ==
    IF Speed2(MeanVector(ws)) < Calm * Calm * Count(ws) * Count(ws) THEN Missing ELSE Sector(MeanVector(ws))

\* Halves round to even, and 16 bits saturate; x in tenths of the scale.
RoundHalfEven(x) ==
    LET q == x \div 10
    IN  IF x % 10 < 5 \/ (x % 10 = 5 /\ q % 2 = 0) THEN q ELSE q + 1
Quantized(x) == Clip(RoundHalfEven(x), -32768, 32767)

HeaderSize == 36
Decodes(size, rows, cols) == size >= HeaderSize /\ rows >= 2 /\ cols >= 2 /\ size = HeaderSize + 4 * rows * cols

----------------------------------------------------------------------------
(* Coordinates and grids; degrees times a unit that divides 180. *)

\* Mutant: 180 degrees east become 180 degrees west.
NormalizeWest(lon, half) == ((lon + half) % (2 * half)) - half
NormalizeLongitude(lon, half) ==
    LET n == ((lon + half) % (2 * half)) - half
    IN  IF n = -half /\ lon > 0 THEN half ELSE n
Advected(lat, lon, dlat, dlon, clamp, half) ==
    [lat |-> Clip(lat + dlat, -clamp, clamp), lon |-> NormalizeLongitude(lon + dlon, half)]

\* g: a regular grid [lat0, lon0, step, rows, cols].
LatStop(g) == g.lat0 + (g.rows - 1) * g.step
LonStop(g) == g.lon0 + (g.cols - 1) * g.step
Align(g, lon, half) ==
    LET n == NormalizeLongitude(lon, half) IN IF LonStop(g) > half /\ n < 0 THEN n + 2 * half ELSE n
Contains(g, lat, lon, half) ==
    /\ g.lat0 <= lat /\ lat <= LatStop(g)
    /\ g.lon0 <= Align(g, lon, half) /\ Align(g, lon, half) <= LonStop(g)
Nearest(g, lat, lon, half) ==
    IF ~Contains(g, lat, lon, half) THEN <<>>
    ELSE <<Clip((2 * (lat - g.lat0) + g.step) \div (2 * g.step), 0, g.rows - 1),
           Clip((2 * (Align(g, lon, half) - g.lon0) + g.step) \div (2 * g.step), 0, g.cols - 1)>>

\* Mix: step^2 times the value between four corners.
Mix(v00, v01, v10, v11, dr, dc, step) ==
    (v00 * (step - dc) + v01 * dc) * (step - dr) + (v10 * (step - dc) + v11 * dc) * dr

\* field[<<row, col>>]; the last row and column interpolate from inside.
Bilinear(g, field, lat, lon, half) ==
    IF ~Contains(g, lat, lon, half) \/ g.rows < 2 \/ g.cols < 2 THEN Invalid
    ELSE LET y == lat - g.lat0
             x == Align(g, lon, half) - g.lon0
             r == Clip(y \div g.step, 0, g.rows - 2)
             c == Clip(x \div g.step, 0, g.cols - 2)
         IN  Mix(field[<<r, c>>], field[<<r, c + 1>>], field[<<r + 1, c>>], field[<<r + 1, c + 1>>],
                 y - r * g.step, x - c * g.step, g.step)

\* The vector field wraps around: its last column is followed by the first.
SampleVector(g, field, lat, lon, half) ==
    LET y == Clip(lat - g.lat0, 0, (g.rows - 1) * g.step)
        aligned == IF g.lon0 >= 0 THEN lon % (2 * half) ELSE ((lon + half) % (2 * half)) - half
        x == (aligned - g.lon0) % (g.cols * g.step)
        r == y \div g.step
        c == x \div g.step
        r1 == Clip(r + 1, 0, g.rows - 1)
        c1 == (c + 1) % g.cols
    IN  Mix(field[<<r, c>>], field[<<r, c1>>], field[<<r1, c>>], field[<<r1, c1>>], y - r * g.step, x - c * g.step, g.step)

----------------------------------------------------------------------------
(* Verification against observations. *)

Paired(observed, forecast) == Coerced(observed) /\ Coerced(forecast) /\ Len(observed) = Len(forecast)
Errors(observed, forecast) == [m \in Indices(observed) |-> forecast[m] - observed[m]]
BiasTimesN(observed, forecast) ==
    IF Paired(observed, forecast) THEN Total(Errors(observed, forecast)) ELSE Invalid
AbsoluteErrorTimesN(observed, forecast) ==
    IF Paired(observed, forecast) THEN Total([m \in Indices(observed) |-> Abs(Errors(observed, forecast)[m])]) ELSE Invalid
SquaredErrorTimesN(observed, forecast) ==
    IF Paired(observed, forecast)
    THEN Total([m \in Indices(observed) |-> Errors(observed, forecast)[m] * Errors(observed, forecast)[m]]) ELSE Invalid
=============================================================================
