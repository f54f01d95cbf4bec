------------------------------- MODULE Serving -------------------------------
(***************************************************************************)
(* The API's point forecast and its source resolution, beside a run that   *)
(* is being published and a garbage collector that removes what newer runs *)
(* replace.  A request discovers candidates in the catalog, opens the      *)
(* stores it needs one valid time after another, looks the stores up once  *)
(* more, reads each under its gate, and at the end asks whether anything   *)
(* it used has been fenced meanwhile.  Catalog and stores move between any *)
(* two of these steps.                                                     *)
(*                                                                         *)
(* Time is counted in leads.  "temperature_2m" stands for the ordinary     *)
(* variables, "precipitation_amount_3h" for the interval ones.             *)
(***************************************************************************)
EXTENDS CanonicalRules

CONSTANTS
    Cycles,      \* forecast cycles, numbered
    Cadence,     \* leads between two cycles
    Horizon,     \* the last lead of a run
    MaxEvents,   \* bound: stores or queries that fail, and the window's first move
    Move         \* bound: how far the window moves in all

ASSUME ServingAssumption ==
    /\ Cycles \subseteq Nat /\ IsFiniteSet(Cycles)
    /\ Cadence \in Nat \ {0} /\ Horizon \in Nat /\ MaxEvents \in Nat /\ Move \in Nat

Variables == {"temperature_2m", "precipitation_amount_3h"}
Leads == 0..Horizon
Units == {u \in Cycles \X Leads \X Variables :
            ~(u[2] = 0 /\ u[3] \in IntervalVariables)}
ValidTime(c, l) == c * Cadence + l
Times == {ValidTime(c, l) : c \in Cycles, l \in Leads}

VARIABLES
    unit,      \* shard and rows of each unit: absent, live, fenced (claimed), gone (deleted)
    progress,  \* leads published per cycle
    fenced,    \* cycles behind the lifecycle fence
    start,     \* left boundary of the serving window
    req,       \* the point request
    faults,
    undisturbed  \* nothing was fenced and nothing failed since the request's discovery

catalog == <<unit, progress, fenced, start>>
vars == <<unit, progress, fenced, start, req, faults, undisturbed>>

Events == faults + (IF start > Cadence THEN 1 ELSE 0)
NoRequest == [pc |-> "idle"]

\* The first run is complete when the second one begins.
Init ==
    /\ unit = [u \in Units |-> IF u[1] # 0 THEN "absent" ELSE IF u[2] < Cadence THEN "gone" ELSE "live"]
    /\ progress = [c \in Cycles |-> IF c = 0 THEN Horizon + 1 ELSE 0]
    /\ fenced = {} /\ start = Cadence
    /\ req = NoRequest /\ faults = 0 /\ undisturbed = TRUE

----------------------------------------------------------------------------
(* Discovery. *)

Ready(c) == progress[c] = Horizon + 1
Eligible(c) == progress[c] > 0 /\ c \notin fenced
Candidate(c, l, vs) ==
    [cycle |-> c, lead |-> l, vars |-> vs, members |-> {}, products |-> {"surface"}, run |-> c]

\* The product rows of a lead that no reclamation entry hides.
Rows(c, l) == {v \in Variables : <<c, l, v>> \in Units /\ unit[<<c, l, v>>] = "live"}

\* A ready run of which no row was found counts as one from before the catalog
\* kept rows, and all leads of its store become candidates.
Legacy(c) == Ready(c) /\ Eligible(c) /\ \A l \in Leads : Rows(c, l) = {}

Found(c, t) ==
    {Candidate(c, l, Rows(c, l)) : l \in {x \in Leads : ValidTime(c, x) = t /\ Rows(c, x) # {}}}
    \cup (IF Legacy(c) THEN {Candidate(c, l, Variables) : l \in {x \in Leads : ValidTime(c, x) = t}}
                       ELSE {})

Discovered(t) == UNION {Found(c, t) : c \in {x \in Cycles : Eligible(x)}}

Candidates == [t \in {x \in Times : x >= start /\ Discovered(x) # {}} |-> Discovered(t)]

----------------------------------------------------------------------------
(* Resolution of one variable at one valid time, on its own or pinned to a  *)
(* cycle, which falls back to the freshest when the cycle has nothing.      *)

Pinned(cands, pin) == {c \in cands : c.cycle \in pin}

Resolution(v, t, pin) ==
    LET first == SelectVariable(Pinned(Candidates[t], pin), v)
    IN  IF first # NoCandidate THEN first ELSE SelectVariable(Candidates[t], v)

----------------------------------------------------------------------------
(* The point request. *)

\* The valid times and variables for which a discovery shows a value (history).
Offered(pairs) ==
    {k \in (DOMAIN pairs) \X Variables :
        \E c \in pairs[k[1]] : k[2] \in c.vars /\ (k[2] \in IntervalVariables => c.lead > 0)}

Discover(kind) ==
    /\ req = NoRequest /\ DOMAIN Candidates # {}
    /\ req' = [pc |-> "anchors", kind |-> kind, pairs |-> Candidates, offered |-> Offered(Candidates),
               todo |-> DOMAIN Candidates, opened |-> {}, anchors |-> [t \in {} |-> NoCandidate]]
    /\ undisturbed' = TRUE
    /\ UNCHANGED <<catalog, faults>>

\* _open_cycle looks the run up again; what was opened once stays.
Openable(c) == c \in req.opened \/ Eligible(c)

\* The next valid time takes its first candidate that opens; for an anchor at
\* lead 0 the first older one is opened too.  The stores in bad do not open now.
Anchor(t, bad) ==
    /\ req.pc = "anchors" /\ t \in req.todo /\ \A x \in req.todo : t <= x
    /\ LET opens == {c \in req.pairs[t] : Openable(c.cycle) /\ (c.cycle \in req.opened \/ c.cycle \notin bad)}
           anchor == Freshest(opens)
           spare == IF anchor.lead = 0 THEN Freshest({c \in opens : c.lead > 0}) ELSE NoCandidate
           taken == {anchor, spare} \ {NoCandidate}
       IN req' = [req EXCEPT !.todo = @ \ {t},
                             !.opened = @ \cup {c.cycle : c \in taken},
                             !.anchors = IF anchor = NoCandidate THEN @
                                         ELSE [x \in DOMAIN @ \cup {t} |-> IF x = t THEN anchor ELSE @[x]]]
    /\ faults' = faults + Cardinality(bad)
    /\ undisturbed' = (undisturbed /\ bad = {})
    /\ UNCHANGED catalog

\* Where the interval variables of a lead-0 anchor come from.
Interval(t, paths) == Freshest({c \in req.pairs[t] : c.lead > 0 /\ c.cycle \in paths})
Source(t, v, paths) ==
    IF req.anchors[t].lead = 0 /\ v \in IntervalVariables THEN Interval(t, paths) ELSE req.anchors[t]

Used(ts, paths) ==
    {<<Source(t, v, paths).cycle, Source(t, v, paths).lead, v>> :
        t \in ts, v \in {x \in Variables : \E y \in ts : Source(y, x, paths) # NoCandidate}} \cap Units

Paths == {c \in req.opened : Eligible(c)}
Planned == {t \in DOMAIN req.anchors : req.anchors[t].cycle \in Paths}

\* Store paths are looked up a last time before the database session is closed.
Plan ==
    /\ req.pc = "anchors" /\ req.todo = {}
    /\ req' = IF Planned = {} THEN NoRequest
              ELSE [pc |-> "read", kind |-> req.kind, offered |-> req.offered, ts |-> Planned,
                    source |-> [k \in Planned \X Variables |-> Source(k[1], k[2], Paths)],
                    used |-> Used(Planned, Paths), todo |-> {u[1] : u \in Used(Planned, Paths)},
                    value |-> [u \in {} |-> "null"], lost |-> {}]
    /\ undisturbed' = (undisturbed \/ Planned = {})
    /\ UNCHANGED <<catalog, faults>>

Present(u) == unit[u] \in {"live", "fenced"}

\* All leads of one store in one gated read.  A missing deterministic shard
\* reads as no value; without an official mean the whole batch is given up.
Read(c, broken) ==
    /\ req.pc = "read" /\ c \in req.todo
    /\ LET mine == {u \in req.used : u[1] = c}
           given == broken \/ (req.kind = "mean" /\ \E u \in mine : ~Present(u))
       IN req' = [req EXCEPT !.todo = @ \ {c},
                             !.lost = IF given THEN @ \cup {c} ELSE @,
                             !.value = [u \in DOMAIN @ \cup mine |->
                                         IF u \notin mine THEN @[u] ELSE IF ~given /\ Present(u) THEN "value" ELSE "null"]]
    /\ faults' = faults + (IF broken THEN 1 ELSE 0)
    /\ undisturbed' = (undisturbed /\ ~broken)
    /\ UNCHANGED catalog

Shown(t, v) == LET s == req.source[<<t, v>>]
               IN  IF s = NoCandidate \/ <<s.cycle, s.lead, v>> \notin DOMAIN req.value THEN "null"
                   ELSE req.value[<<s.cycle, s.lead, v>>]
Entries == {t \in req.ts : req.source[<<t, "temperature_2m">>].cycle \notin req.lost}

Answer == [k \in Entries \X Variables |-> Shown(k[1], k[2])]

\* Mutant: the answer goes out unchecked.
ResponseUnchecked(fails) == IF Entries = {} THEN "empty" ELSE "answered"
\* A fenced shard among those used turns the whole response into a 404; an
\* error of the check itself is ignored.
Response(fails) ==
    IF Entries = {} THEN "empty"
    ELSE IF ~fails /\ \E u \in req.used : unit[u] \in {"fenced", "gone"} THEN "rejected"
    ELSE "answered"

Respond(fails) ==
    /\ req.pc = "read" /\ req.todo = {}
    /\ req' = NoRequest /\ undisturbed' = TRUE
    /\ faults' = faults + (IF fails THEN 1 ELSE 0)
    /\ UNCHANGED catalog

----------------------------------------------------------------------------
(* Ingestion, garbage collection and the clock. *)

Publish(c) ==
    /\ progress[c] <= Horizon /\ c \notin fenced
    /\ unit' = [u \in Units |-> IF u[1] = c /\ u[2] = progress[c] THEN "live" ELSE unit[u]]
    /\ progress' = [progress EXCEPT ![c] = @ + 1]
    /\ UNCHANGED <<fenced, start, req, faults, undisturbed>>

Live(t) == UNION {{Candidate(c, l, Rows(c, l)) : l \in {x \in Leads : ValidTime(c, x) = t /\ Rows(c, x) # {}}}
                    : c \in {x \in Cycles : Eligible(x)}}
\* Mutant: only the anchor of a valid time is needed, not its interval fallback.
NeededByAnchor(u) ==
    LET t == ValidTime(u[1], u[2])
        s == Freshest(Live(t))
    IN  t >= start /\ s.cycle = u[1] /\ s.lead = u[2] /\ s # NoCandidate
\* What canonical selection over the live rows still serves.
Needed(u) ==
    LET t == ValidTime(u[1], u[2])
        s == SelectVariable(Live(t), u[3])
    IN  t >= start /\ s.cycle = u[1] /\ s.lead = u[2] /\ s # NoCandidate

\* The worker claims the oldest cycle's shards first.
Claimable == {u \in Units : unit[u] = "live" /\ ~Needed(u)}
Fence(u) ==
    /\ u \in Claimable /\ \A x \in Claimable : u[1] <= x[1]
    /\ unit' = [unit EXCEPT ![u] = "fenced"] /\ undisturbed' = FALSE
    /\ UNCHANGED <<progress, fenced, start, req, faults>>
Delete(u) ==
    /\ unit[u] = "fenced" /\ unit' = [unit EXCEPT ![u] = "gone"]
    /\ UNCHANGED <<progress, fenced, start, req, faults, undisturbed>>
FenceCycle(c) ==
    /\ progress[c] > 0 /\ c \notin fenced /\ ValidTime(c, Horizon) < start
    /\ fenced' = fenced \cup {c} /\ undisturbed' = FALSE
    /\ UNCHANGED <<unit, progress, start, req, faults>>
\* Time passes; how much of it nobody looked at does not matter.
Advance == /\ start > Cadence \/ Events < MaxEvents
           /\ start' \in (start + 1)..(Cadence + Move)
           /\ UNCHANGED <<unit, progress, fenced, req, faults, undisturbed>>

Broken == {S \in SUBSET Cycles : Events + Cardinality(S) <= MaxEvents}

Request ==
    \/ \E t \in Times, bad \in Broken : Anchor(t, bad)
    \/ Plan
    \/ \E c \in Cycles, broken \in BOOLEAN : Events + (IF broken THEN 1 ELSE 0) <= MaxEvents /\ Read(c, broken)
    \/ \E fails \in BOOLEAN : Events + (IF fails THEN 1 ELSE 0) <= MaxEvents /\ Respond(fails)

Next ==
    \/ \E kind \in {"det", "mean"} : Discover(kind)
    \/ Request
    \/ \E c \in Cycles : Publish(c) \/ FenceCycle(c)
    \/ \E u \in Units : Fence(u) \/ Delete(u)
    \/ Advance

Spec == Init /\ [][Next]_vars

----------------------------------------------------------------------------
TypeOK ==
    /\ unit \in [Units -> {"absent", "live", "fenced", "gone"}]
    /\ progress \in [Cycles -> 0..(Horizon + 1)]
    /\ fenced \subseteq Cycles /\ start \in Cadence..(Cadence + Move) /\ Events <= MaxEvents
    /\ req.pc \in {"idle", "anchors", "read"}
    /\ undisturbed \in BOOLEAN

\* A value missing from a checked answer, though its store was read, was never
\* there: it is not one that garbage collection took since the discovery.
NullsAreGenuine ==
    req.pc = "read" /\ req.todo = {} /\ Response(FALSE) = "answered" =>
        \A k \in Entries \X Variables :
            LET s == req.source[k]
            IN  Answer[k] = "null" /\ s # NoCandidate /\ s.cycle \notin req.lost =>
                    unit[<<s.cycle, s.lead, k[2]>>] \in {"absent", "live"}

\* A request whose data nobody touched is answered for every valid time that the
\* discovery found, with a value for everything that was offered there.
UndisturbedIsServed ==
    undisturbed =>
        /\ req.pc = "anchors" /\ req.todo = {} => Planned = DOMAIN req.pairs
        /\ req.pc = "read" /\ req.todo = {} =>
             /\ Response(FALSE) = "answered" /\ Entries = {k[1] : k \in req.offered}
             /\ \A k \in req.offered : Answer[k] = "value"

\* Garbage collection leaves every valid time of the window that had data some
\* data: a candidate for each variable that was ever published for it.
WindowStaysServed ==
    \A u \in Units :
        LET t == ValidTime(u[1], u[2])
        IN  unit[u] # "absent" /\ t >= start /\ u[2] > 0 =>
                \E d \in Live(t) : u[3] \in d.vars

IsLive(s, v) == s # NoCandidate => unit[<<s.cycle, s.lead, v>>] = "live"

\* An unpinned resolution never yields a shard that is fenced or deleted, though
\* discovery takes a run whose rows are all hidden for one without rows.
ResolvedIsKept ==
    req = NoRequest => \A t \in DOMAIN Candidates, v \in Variables : IsLive(Resolution(v, t, {}), v)

\* The same of every resolution, the pinned ones included.
PinnedIsKept ==
    req = NoRequest => \A t \in DOMAIN Candidates, v \in Variables, c \in Cycles :
                            IsLive(Resolution(v, t, {c}), v)

\* Garbage collection takes nothing that is, or would be, served.
CollectionKeepsServing == WindowStaysServed /\ ResolvedIsKept

\* What is answered is what there was.
AnswersAreGenuine == TypeOK /\ NullsAreGenuine /\ UndisturbedIsServed
=============================================================================
