----------------------------- MODULE IdxSelection -----------------------------
(***************************************************************************)
(* Which byte ranges of a GRIB file the platform fetches: the index of the *)
(* file (idx_parser.py), the records selected from it for a model, member  *)
(* and lead, the ranges they are merged into, and the test that a fetched  *)
(* range must pass (connector.py); the keys artifacts have upstream, and   *)
(* how a decoded file becomes one dataset (parser.py).                     *)
(*                                                                         *)
(* A forecast description is a record: kind "anl", "fcst", "acc" or "ave"  *)
(* with the hours from and to; fcst has only to.  Members are numbers, and *)
(* an ensemble description a member, Mean or Untagged.                     *)
(***************************************************************************)
EXTENDS Integers, Sequences, SequencesExt, FiniteSets

Refused == <<>>
ToTheEnd == -1
Mean == 0
Untagged == -1

----------------------------------------------------------------------------
(* The index. *)

\* Mutant: two records may start at the same byte.
OrderedLoosely(lines) == \A i \in 1..(Len(lines) - 1) : lines[i].offset <= lines[i + 1].offset
Ordered(lines) == \A i \in 1..(Len(lines) - 1) : lines[i].offset < lines[i + 1].offset
Readable(lines) ==
    /\ lines # <<>> /\ lines[1].offset = 0 /\ Ordered(lines)
    /\ \A i \in DOMAIN lines : lines[i].number = i

\* The end of the last record is not known.
ParseIdx(lines) ==
    IF ~Readable(lines) THEN Refused
    ELSE [i \in DOMAIN lines |->
            [first |-> lines[i].offset, last |-> IF i < Len(lines) THEN lines[i + 1].offset - 1 ELSE ToTheEnd,
             field |-> lines[i].field, desc |-> lines[i].desc, ens |-> lines[i].ens]]

----------------------------------------------------------------------------
(* Selection. *)

InstantFields ==
    [temperature_2m |-> <<"TMP", "2 m">>, precipitation_rate |-> <<"PRATE", "surface">>,
     relative_humidity_2m |-> <<"RH", "2 m">>, wind_gust |-> <<"GUST", "surface">>,
     visibility |-> <<"VIS", "surface">>, snow_depth |-> <<"SNOD", "surface">>,
     wind_u_10m |-> <<"UGRD", "10 m">>, wind_v_10m |-> <<"VGRD", "10 m">>, cloud_ceiling |-> <<"HGT", "cloud ceiling">>]
IntervalFields ==
    [precipitation_amount_3h |-> <<"APCP", "surface", "acc">>, crain |-> <<"CRAIN", "surface", "ave">>,
     csnow |-> <<"CSNOW", "surface", "ave">>, cfrzr |-> <<"CFRZR", "surface", "ave">>,
     cicep |-> <<"CICEP", "surface", "ave">>, cloud_cover_3h |-> <<"TCDC", "entire atmosphere", "ave">>]

Unsupported(model) == IF model = "gefs" THEN {"precipitation_rate"} ELSE {}

MatchesStep(desc, lead) ==
    IF lead = 0 THEN desc.kind = "anl" \/ (desc.kind = "fcst" /\ desc.to = 0)
    ELSE desc.kind = "fcst" /\ desc.to = lead

\* Accumulations and averages start anew every six hours.
BucketStart(lead) == IF lead % 6 = 3 THEN lead - 3 ELSE lead - 6
HasBucket(lead) == lead > 0 /\ lead % 3 = 0
MatchesBucket(desc, kind, lead) == desc.kind = kind /\ desc.from = BucketStart(lead) /\ desc.to = lead

\* A record that names no member is taken for whatever the file is of.
MatchesMember(ens, member) == ens \in {Untagged, member}

OfMember(model, rec, member) == model = "gfs" \/ MatchesMember(rec.ens, member)

Instants(model, records, var, lead, member) ==
    {i \in DOMAIN records :
        /\ records[i].field = InstantFields[var] /\ MatchesStep(records[i].desc, lead)
        /\ OfMember(model, records[i], member)}
Buckets(model, records, var, lead, member) ==
    {i \in DOMAIN records :
        /\ records[i].field = SubSeq(IntervalFields[var], 1, 2)
        /\ MatchesBucket(records[i].desc, IntervalFields[var][3], lead)
        /\ OfMember(model, records[i], member)}

First(is) == {i \in is : \A j \in is : i <= j}

\* The record of one variable: [status, record], record 0 for none.
Chosen(matches) ==
    IF Cardinality(matches) = 1 THEN [status |-> "selected", record |-> CHOOSE i \in matches : TRUE]
    ELSE [status |-> IF matches = {} THEN "missing" ELSE "ambiguous", record |-> 0]

SelectInstant(model, records, var, lead, member) ==
    IF var \in Unsupported(model) THEN [status |-> "unsupported", record |-> 0]
    ELSE Chosen(Instants(model, records, var, lead, member))

\* Lead 0 has no interval behind it and needs no record.
SelectInterval(model, records, var, lead, member) ==
    CASE lead = 0 -> [status |-> "selected", record |-> 0]
      [] lead # 0 /\ ~HasBucket(lead) -> [status |-> "unsupported", record |-> 0]
      [] OTHER -> Chosen(First(Buckets(model, records, var, lead, member)))

SelectVariableRecord(model, records, var, lead, member) ==
    CASE var \in DOMAIN InstantFields -> SelectInstant(model, records, var, lead, member)
      [] var \in DOMAIN IntervalFields -> SelectInterval(model, records, var, lead, member)
      [] OTHER -> [status |-> "unsupported", record |-> 0]

SelectRecords(model, records, vars, lead, member) ==
    LET of == [v \in vars |-> SelectVariableRecord(model, records, v, lead, member)]
    IN  [of |-> of,
         valid |-> \A v \in vars : of[v].status \notin {"missing", "ambiguous"},
         records |-> SetToSortSeq({of[v].record : v \in vars} \ {0}, <)]

Adjacent(records, i, j) == records[i].last # ToTheEnd /\ records[j].first = records[i].last + 1

\* The selected records in order, cut where they are not adjacent.
MergeAdjacent(records, selected) ==
    FoldLeft(LAMBDA groups, i :
                IF groups # <<>> /\ Adjacent(records, Last(Last(groups)), i)
                THEN [groups EXCEPT ![Len(groups)] = Append(@, i)]
                ELSE Append(groups, <<i>>),
             <<>>, selected)

----------------------------------------------------------------------------
(* The fetched range: a sequence of bytes, "G" for the start of a message    *)
(* that declares its length and "7" for its end.                             *)

RangeOf(records, group) == [first |-> records[group[1]].first, last |-> records[Last(group)].last]

FitsIndex(rec, declared) == rec.last = ToTheEnd \/ declared = rec.last - rec.first + 1

\* messages: the declared lengths of what was received, each with magic and end
\* intact or not; given: the Content-Range of the answer.
RangeAccepted(records, group, given, messages) ==
    LET range == RangeOf(records, group)
        length == FoldLeft(LAMBDA n, m : n + m.length, 0, messages)
    IN  /\ given.first = range.first /\ (range.last = ToTheEnd \/ given.last = range.last)
        /\ length = given.last - given.first + 1
        /\ Len(messages) = Len(group)
        /\ \A i \in DOMAIN messages :
              messages[i].intact /\ messages[i].length > 0 /\ FitsIndex(records[group[i]], messages[i].length)

----------------------------------------------------------------------------
(* Keys, and the listing of them. *)

Digits(n, width) == [i \in 1..width |-> (n \div 10 ^ (width - i)) % 10]
Number(digits) == FoldLeft(LAMBDA n, d : 10 * n + d, 0, digits)

ValidRun(a) == a.model \in {"gfs", "gefs"} /\ a.hour \in {0, 6, 12, 18} /\ a.lead \in 0..384
ValidMember(a) == a.model = "gfs" \/ a.member \in 1..30 \cup {Mean}

\* The file's name says which product it is; a member of no ensemble is ignored.
BuildKey(a) ==
    IF ~ValidRun(a) \/ ~ValidMember(a) THEN Refused
    ELSE [product |-> IF a.model = "gfs" THEN "gfs" ELSE IF a.member = Mean THEN "geavg" ELSE "gep",
          member |-> IF a.model = "gfs" \/ a.member = Mean THEN <<>> ELSE Digits(a.member, 2),
          hour |-> Digits(a.hour, 2), lead |-> Digits(a.lead, 3)]

\* The second provider has the same files under another address.
BuildUrl(source, a) ==
    IF BuildKey(a) = Refused THEN Refused ELSE <<IF source = "nomads" THEN "nomads" ELSE "aws", BuildKey(a)>>

\* What a listed key counts as: [kind, member, lead].
Counts(key, model, hour, trackMean) ==
    CASE Number(key.hour) = hour /\ key.product = "gfs" /\ model = "gfs" -> <<"region", Untagged, Number(key.lead)>>
      [] Number(key.hour) = hour /\ key.product = "gep" /\ model = "gefs" -> <<"region", Number(key.member), Number(key.lead)>>
      [] Number(key.hour) = hour /\ key.product = "geavg" /\ model = "gefs" /\ trackMean -> <<"mean", Mean, Number(key.lead)>>
      [] OTHER -> <<"ignored", Untagged, 0>>

----------------------------------------------------------------------------
(* The decoded file. *)

\* How each field is told from the others in a file: level and kind of step.
SurfaceFieldFilters ==
    [temperature_2m |-> <<"TMP", "2 m", "instant">>, precipitation_rate |-> <<"PRATE", "surface", "instant">>,
     relative_humidity_2m |-> <<"RH", "2 m", "instant">>, wind_gust |-> <<"GUST", "surface", "instant">>,
     visibility |-> <<"VIS", "surface", "instant">>, snow_depth |-> <<"SNOD", "surface", "instant">>,
     wind_u_10m |-> <<"UGRD", "10 m", "instant">>, wind_v_10m |-> <<"VGRD", "10 m", "instant">>,
     precipitation_amount_3h |-> <<"APCP", "surface", "accum">>, crain |-> <<"CRAIN", "surface", "avg">>,
     csnow |-> <<"CSNOW", "surface", "avg">>, cfrzr |-> <<"CFRZR", "surface", "avg">>, cicep |-> <<"CICEP", "surface", "avg">>,
     cloud_cover_3h |-> <<"TCDC", "entire atmosphere", "avg">>, cloud_ceiling |-> <<"HGT", "cloud ceiling", "instant">>]

StepOf(desc) == CASE desc.kind = "acc" -> "accum" [] desc.kind = "ave" -> "avg" [] OTHER -> "instant"

\* What a record becomes in the decoded file, and the variables a file yields:
\* absent ones are skipped, and a file without any of them, {}, is an error.
Decoded(rec) == <<rec.field[1], rec.field[2], StepOf(rec.desc)>>
ParseGrib(records) ==
    LET found == {v \in DOMAIN SurfaceFieldFilters : \E i \in DOMAIN records : Decoded(records[i]) = SurfaceFieldFilters[v]}
    IN  found
===============================================================================
