------------------------------ MODULE PointReads ------------------------------
(***************************************************************************)
(* What the API reads out of one opened store for one point: the grid, the *)
(* chunks, and per lead the requested variables with what is derived from  *)
(* them (wind from its components, the phase of precipitation from flags   *)
(* and the lead before).                                                   *)
(*                                                                         *)
(* A dataset d has its variables, leads and member numbers (in the order   *)
(* of the coordinate), and what is stored: a function on <<variable, key,  *)
(* lead>>.  The key of a sharded store is Det, Mean or a member number,    *)
(* and a shard that is not in the domain does not exist.  The key of a     *)
(* legacy store is the position on the member axis, or Det.                *)
(* Interpolation in space is in Interpolate; elsewhere a value stands for  *)
(* the interpolated one.                                                   *)
(***************************************************************************)
EXTENDS DomainScience, TLC

LOCAL S == INSTANCE SequencesExt

Det == 0
Mean == -1
Averaged == -2  \* a legacy store: the only field, or the mean over the member axis

FlagPhase == [crain |-> "rain", csnow |-> "snow", cfrzr |-> "freezing_rain", cicep |-> "ice_pellets"]
FlagNames == DOMAIN FlagPhase
Amount == "precipitation_amount_3h"
Components == {"wind_u_10m", "wind_v_10m"}

Stored(d, var, key, lead) ==
    IF <<var, key, lead>> \in DOMAIN d.stored THEN d.stored[<<var, key, lead>>] ELSE Missing

IsEnsemble(d) == d.members # <<>>
HasMeanShard(d, var, lead) == <<var, Mean, lead>> \in DOMAIN d.stored

\* The members' mean of a legacy store leaves out what is missing.
LegacyField(d, var, lead) ==
    LET finite == {i \in Indices(d.members) : Stored(d, var, i, lead) # Missing}
    IN  IF ~IsEnsemble(d) THEN Stored(d, var, Det, lead)
        ELSE IF finite = {} THEN Missing
        ELSE Total([i \in finite |-> Stored(d, var, i, lead)]) \div Cardinality(finite)

ValueAt(d, var, key, lead) == IF key = Averaged THEN LegacyField(d, var, lead) ELSE Stored(d, var, key, lead)

----------------------------------------------------------------------------
(* Precipitation at a lead, with the lead before where the accumulation was *)
(* reset in between.                                                        *)

ActiveFlags(d, key, lead) == {FlagPhase[f] : f \in {g \in FlagNames \cap d.vars : ValueAt(d, g, key, lead) >= 50}}

NoBefore == [amount |-> Missing, flags |-> {}, none |-> TRUE]
Interval(d, key, lead) ==
    [amount |-> ValueAt(d, Amount, key, lead), flags |-> ActiveFlags(d, key, lead), none |-> FlagNames \cap d.vars = {}]

\* history: the intervals that earlier leads of the same batch left behind.
Before(d, key, lead, history) ==
    IF lead % 6 # 0 \/ lead = 0 THEN NoBefore
    ELSE IF lead - 3 \in DOMAIN history THEN history[lead - 3]
    ELSE IF lead - 3 \in d.leads THEN Interval(d, key, lead - 3) ELSE NoBefore

Phase(current, before) == Classify(current.amount, current.flags, before.amount, before.flags, before.none)

MeanPhase(d, lead, history) == Phase(Interval(d, Mean, lead), Before(d, Mean, lead, history))
DeterministicPhase(d, lead) == Phase(Interval(d, Det, lead), Before(d, Det, lead, <<>>))
LegacyPhase(d, lead) == Phase(Interval(d, Averaged, lead), Before(d, Averaged, lead, <<>>))

----------------------------------------------------------------------------
(* The variables of one lead, in the order of the request.                 *)

Nothing == [error |-> "", values |-> <<>>, phase |-> <<>>]
Fails(out, why) == [out EXCEPT !.error = why]
Adds(out, values) == [out EXCEPT !.values = @ @@ values]

Wind(u, v) ==
    IF u = Missing \/ v = Missing THEN [wind_10m |-> Missing, direction |-> Missing]
    ELSE [wind_10m |-> Speed2([u |-> u, v |-> v]), direction |-> Direction([u |-> u, v |-> v])]

\* Without an official mean the whole read fails; a missing deterministic shard
\* reads as no value.
TakeWind(d, key, lead, out) ==
    IF ~(Components \subseteq d.vars) THEN Fails(out, "not found")
    ELSE IF key = Mean /\ \E c \in Components : ~HasMeanShard(d, c, lead) THEN Fails(out, "no mean")
    ELSE Adds(out, Wind(ValueAt(d, "wind_u_10m", key, lead), ValueAt(d, "wind_v_10m", key, lead)))

\* The flags are answered along with the amount, the temperature if asked for:
\* neither is checked for its own mean shard here.
TakePrecipitation(d, key, lead, codes, history, out) ==
    LET with == {Amount} \cup (FlagNames \cap d.vars) \cup ({"temperature_2m"} \cap d.vars \cap Range(codes))
        phase == IF key = Mean THEN MeanPhase(d, lead, history)
                 ELSE IF key = Det THEN DeterministicPhase(d, lead) ELSE LegacyPhase(d, lead)
    IN  IF Amount \notin d.vars THEN Fails(out, "not found")
        ELSE IF key = Mean /\ ~HasMeanShard(d, Amount, lead) THEN Fails(out, "no mean")
        ELSE [Adds(out, [v \in with |-> ValueAt(d, v, key, lead)]) EXCEPT !.phase = phase]

TakePlain(d, key, lead, code, out) ==
    IF code \in DOMAIN out.values THEN out
    ELSE IF code \notin d.vars THEN Fails(out, "not found")
    ELSE IF key = Mean /\ ~HasMeanShard(d, code, lead) THEN Fails(out, "no mean")
    ELSE Adds(out, [v \in {code} |-> ValueAt(d, v, key, lead)])

Take(d, key, lead, codes, history, out, code) ==
    IF out.error # "" THEN out
    ELSE CASE code = "wind_10m" -> TakeWind(d, key, lead, out)
           [] code = Amount -> TakePrecipitation(d, key, lead, codes, history, out)
           [] OTHER -> TakePlain(d, key, lead, code, out)

KeyOf(d) == IF d.format = "legacy" THEN Averaged ELSE IF IsEnsemble(d) THEN Mean ELSE Det

ExtractLead(d, lead, codes, history) ==
    S!FoldLeft(LAMBDA out, code : Take(d, KeyOf(d), lead, codes, history, out, code), Nothing, codes)

\* Mutant: the flags are not remembered with the amount.
RememberAmount(d, lead, codes, history) ==
    IF KeyOf(d) = Mean /\ Amount \in Range(codes) THEN history @@ (lead :> [Interval(d, Mean, lead) EXCEPT !.flags = {}]) ELSE history
\* Means only: the intervals of earlier leads are remembered for the next one.
Remember(d, lead, codes, history) ==
    IF KeyOf(d) = Mean /\ Amount \in Range(codes) THEN history @@ (lead :> Interval(d, Mean, lead)) ELSE history

\* All leads of a store under one gate; one failing lead loses them all.
Batch(d, requests) ==
    LET leads == S!SetToSortSeq({l \in DOMAIN requests : requests[l] # <<>>}, <)
        step(acc, l) ==
            IF acc.error # "" THEN acc
            ELSE LET out == ExtractLead(d, l, requests[l], acc.history)
                 IN  [error |-> out.error, results |-> acc.results @@ (l :> out),
                      history |-> Remember(d, l, requests[l], acc.history)]
    IN  S!FoldLeft(step, [error |-> "", results |-> <<>>, history |-> <<>>], leads)

----------------------------------------------------------------------------
(* Which variables a request without any gets; catalog: registered codes.  *)

DefaultVariables(catalog, present) ==
    ((catalog \ Components) \cap present) \cup (IF Components \subseteq present THEN {"wind_10m"} ELSE {})
MissingVariables(catalog, codes) ==
    {c \in codes : c \notin catalog /\ ~(c = "wind_10m" /\ Components \subseteq catalog)}

----------------------------------------------------------------------------
(* The grid: axes as they are stored, and the four corners of a point.     *)
(* half is half a turn; positions are in the axes' unit, weights in steps.  *)

IsDescending(axis) == axis[Len(axis)] < axis[1]
Ascending(axis) == IF IsDescending(axis) THEN S!Reverse(axis) ELSE axis
NormalizedLongitudes(axis, half) == IF \A i \in Indices(axis) : axis[i] > half THEN [i \in Indices(axis) |-> axis[i] - 2 * half] ELSE axis

\* The grid, or <<>> where the axes are refused.
DeriveGrid(lats, lons, half) ==
    LET la == Ascending(lats)
        lo == NormalizedLongitudes(Ascending(lons), half)
        Uniform(axis) == \A i \in 2..Len(axis) : axis[i] - axis[i - 1] = axis[2] - axis[1]
    IN  IF Len(la) < 2 \/ Len(lo) < 2 THEN <<>>
        ELSE IF la[2] <= la[1] \/ lo[2] <= lo[1] \/ ~Uniform(la) \/ ~Uniform(lo) THEN <<>>
        ELSE [lat0 |-> la[1], lon0 |-> lo[1], step |-> la[2] - la[1], rows |-> Len(la), cols |-> Len(lo)]

StoredIndex(i, size, descending) == IF descending THEN size - 1 - i ELSE i
\* at: the position in quarters of a cell; the last node belongs to the cell before.
Corners(at, size, descending) ==
    LET first == IF at \div 4 = size - 1 THEN size - 2 ELSE at \div 4
    IN  [low |-> StoredIndex(first, size, descending), high |-> StoredIndex(first + 1, size, descending), t |-> at - 4 * first]

\* The value at a point, in sixteenths; a point off the grid is Invalid.
Interpolate(lats, lons, half, field, lat, lon) ==
    LET g == DeriveGrid(lats, lons, half)
        row == Corners(lat - g.lat0, g.rows, IsDescending(lats))
        col == Corners(Align(g, lon, half) - g.lon0, g.cols, IsDescending(lons))
    IN  IF g = <<>> \/ g.step # 4 \/ ~Contains(g, lat, lon, half) THEN Invalid
        ELSE Mix(field[row.low, col.low], field[row.low, col.high], field[row.high, col.low], field[row.high, col.high],
                 row.t, col.t, 4)

----------------------------------------------------------------------------
(* Chunks of a shard: the pieces that a window is put together from.       *)

Span(c, size, total, first, last) ==
    LET start == c * size
        end == IF start + size < total THEN start + size ELSE total
        from == IF first > start THEN first - start ELSE 0
        to == IF end - start < last - start + 1 THEN end - start ELSE last - start + 1
    IN  [chunk |-> c, from |-> from, to |-> to, at |-> IF start > first THEN start - first ELSE 0]

Placements(size, total, first, last) ==
    {p \in {Span(c, size, total, first, last) : c \in (first \div size)..(last \div size)} : p.to > p.from}

\* What the window holds at a place: where in the shard it came from.
WindowCell(size, total, first, last, place) ==
    {p.chunk * size + p.from + (place - p.at) :
        p \in {q \in Placements(size, total, first, last) : q.at <= place /\ place < q.at + q.to - q.from}}
=============================================================================
