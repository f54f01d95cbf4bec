----------------------------- MODULE DomainRules -----------------------------
(***************************************************************************)
(* The rules on time, coverage and identity in packages/domain: serving    *)
(* windows, horizons, predecessors, member coverage, the addresses of a    *)
(* shard, and the registries of models.  Time is counted in half hours     *)
(* since a midnight; leads are hours.  Invalid stands for an error.        *)
(***************************************************************************)
EXTENDS Integers, FiniteSets, Sequences

InvalidTime == -1

----------------------------------------------------------------------------
(* Serving windows; leads is a model's ascending sequence of lead hours. *)

Hour(t) == (t \div 2) % 24
Cadence(leads) == IF Len(leads) > 1 THEN leads[2] - leads[1] ELSE 3
MaxLead(leads) == leads[Len(leads)]

\* Mutant: the boundary is the next grid time.
ServingStartNext(now, cadence) == 48 * (now \div 48) + 2 * cadence * (Hour(now) \div cadence + 1)
\* The hour of the day is floored to the cadence.
ServingStart(now, cadence) ==
    IF cadence <= 0 THEN InvalidTime
    ELSE 48 * (now \div 48) + 2 * cadence * (Hour(now) \div cadence)
ModelServingStart(leads, now) == ServingStart(now, Cadence(leads))

OnGrid(t, cadence) == t % 2 = 0 /\ Hour(t) % cadence = 0

\* With a model the grid is the model's, the boundary that of the cadence given.
IsProtected(t, now, leads, cadence) ==
    (leads # <<>> => OnGrid(t, Cadence(leads))) /\ t >= ServingStart(now, cadence)
ProtectedTimes(leads, now) ==
    {t \in ServingStart(now, Cadence(leads))..(ServingStart(now, Cadence(leads)) + 2 * MaxLead(leads)) :
        (t - ServingStart(now, Cadence(leads))) % (2 * Cadence(leads)) = 0}

Expired(cycle, maxLead, start) == cycle + 2 * maxLead < start
PurgeEligible(deletedAt, now, days) == deletedAt # InvalidTime /\ deletedAt <= now - 48 * days

\* The last lead over several models, each with its horizon.
MaxLeadOf(horizons) ==
    IF horizons = {} THEN InvalidTime
    ELSE CHOOSE m \in {MaxLead(h) : h \in horizons} : \A h \in horizons : MaxLead(h) <= m

----------------------------------------------------------------------------
(* Interval variables and their predecessors. *)

ResetLead(lead, period) == lead > 0 /\ lead % period = 0
Predecessor(lead, width, period) ==
    IF period <= 0 \/ width <= 0 \/ width > period \/ ~ResetLead(lead, period) THEN InvalidTime
    ELSE lead - width

----------------------------------------------------------------------------
(* Ensemble coverage; the threshold in hundredths of a per cent. *)

IsServable(available, expected, threshold) ==
    expected > 0 /\ available >= 0 /\ available * 10000 >= expected * threshold
IsCellValid(finite, expected, threshold) ==
    expected > 0 /\ finite >= 0 /\ finite * 10000 >= expected * threshold
\* Rounded to four digits, at most 1.
Ratio(available, expected) ==
    IF expected <= 0 \/ available <= 0 THEN 0
    ELSE IF available >= expected THEN 10000
    ELSE (20000 * available + expected) \div (2 * expected)
Coverage(indices, expected, threshold) ==
    [available |-> Cardinality(indices), expected |-> expected, ratio |-> Ratio(Cardinality(indices), expected),
     servable |-> IsServable(Cardinality(indices), expected, threshold), members |-> indices]
ThresholdOf(given) == IF given <= 0 \/ given > 10000 THEN InvalidTime ELSE given

----------------------------------------------------------------------------
(* The addresses of a shard.  A name is a tuple of its parts. *)

\* 0 stands for a member that is not given.
MemberIndex(kind, member) ==
    CASE kind = "det" -> 0
      [] kind = "mean" -> -1
      [] kind = "mem" -> IF member = 0 THEN 1 ELSE member
Tuple(t) == <<t.run, t.lead, t.var, t.kind, MemberIndex(t.kind, t.member)>>
Region(t) == <<t.run, t.lead, t.kind, MemberIndex(t.kind, t.member)>>
ShardKey(t) ==
    IF t.kind = "mem" THEN <<t.store, t.var, "mem", MemberIndex("mem", t.member), t.lead>>
    ELSE <<t.store, t.var, t.kind, t.lead>>
MarkerKey(t) ==
    IF t.kind = "mem" THEN <<t.store, "mem", MemberIndex("mem", t.member), t.lead>> ELSE <<t.store, t.kind, t.lead>>
\* The region a writer locks; a mean is named by a flag, a member by its index.
LockedRegion(t) ==
    IF t.kind = "mean" THEN <<t.store, "mean", t.lead>>
    ELSE IF t.kind = "det" THEN <<t.store, "det", t.lead>> ELSE <<t.store, "mem", t.member, t.lead>>
\* A conflict is about one chunk of one array.
ConflictIdentity(t) == <<t.store, t.var, t.lead>>
\* One schema and host, without default ports; a local path is absolute.
StorageIdentity(scheme, host, port, bucket, key) ==
    IF scheme = "local" THEN <<"local", key>>
    ELSE <<scheme, host, IF <<scheme, port>> \in {<<"https", 443>>, <<"http", 80>>} THEN 0 ELSE port, bucket, key>>
Namespaces == {"gate", "region", "admission", "scheduler", "gc"}
LockKey(namespace, identity) == <<namespace, identity>>
\* What a reader compares to notice that a run was served anew.
ServingFingerprint(mode, run, schema, regions) == <<mode, run, schema, regions>>

CanDeleteMarker(expected, deleted) == expected # {} /\ expected \subseteq deleted

Flags == {"crain", "csnow", "cfrzr", "cicep"}
WideVariables == {"precipitation_amount_3h", "cloud_ceiling"}
HalfVariables == {"temperature_2m", "relative_humidity_2m", "wind_u_10m", "wind_v_10m", "wind_gust",
                  "precipitation_rate", "cloud_cover_3h", "snow_depth", "visibility"}
DeterministicVariables == HalfVariables \cup WideVariables \cup Flags
EnsembleVariables == DeterministicVariables \ {"precipitation_rate"}
ExpectedVariables(kind) == IF kind = "det" THEN DeterministicVariables ELSE EnsembleVariables

Dtype(format, var, kind) ==
    IF format = "v1" THEN "float32"
    ELSE IF format # "v2" \/ kind \notin {"det", "mean", "mem"} THEN "invalid"
    ELSE IF var \in HalfVariables THEN "float16"
    ELSE IF var \in WideVariables THEN "float32"
    ELSE IF var \in Flags THEN (IF kind = "mean" THEN "float32" ELSE "uint8")
    ELSE "invalid"

----------------------------------------------------------------------------
(* The registries that a process fills when it starts. *)

\* Horizons by model and by model and version; the last registration of a
\* version is the model's own horizon too.
RegisterHorizon(horizons, model, version, leads) ==
    IF leads = <<>> \/ leads[1] < 0 \/ \E i \in 1..(Len(leads) - 1) : leads[i + 1] <= leads[i] THEN horizons
    ELSE [k \in DOMAIN horizons \cup {<<model, "any">>} \cup (IF version = "any" THEN {} ELSE {<<model, version>>}) |->
            IF k \in {<<model, "any">>, <<model, version>>} THEN leads ELSE horizons[k]]
HorizonOf(horizons, model, version) ==
    IF <<model, version>> \in DOMAIN horizons THEN horizons[<<model, version>>]
    ELSE IF <<model, "any">> \in DOMAIN horizons THEN horizons[<<model, "any">>] ELSE <<>>
CadenceOf(cadences, model, default) ==
    IF model \in DOMAIN cadences THEN cadences[model] ELSE IF default > 0 THEN default ELSE InvalidTime
MembersOf(members, model, default) ==
    IF model \in DOMAIN members THEN members[model] ELSE IF default # InvalidTime THEN default ELSE InvalidTime

Audit(models, horizons, cadences, members) ==
    [horizon |-> {m \in models : <<m, "any">> \notin DOMAIN horizons},
     cadence |-> {m \in models : m \notin DOMAIN cadences},
     members |-> {m \in models : m \notin DOMAIN members}]
Clean(audit) == audit.horizon \cup audit.cadence \cup audit.members = {}
Fatal(audit) == audit.horizon # {}
=============================================================================
