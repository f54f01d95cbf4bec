----------------------------- MODULE EnsembleReads -----------------------------
(***************************************************************************)
(* The API's ensemble requests: probabilities and statistics of one lead,  *)
(* and statistics of all leads of a run.  A request looks for the newest   *)
(* run of which enough members are committed and not fenced, opens its     *)
(* store, releases the database, reads each member's shard under the gate, *)
(* and asks once more whether a member has been fenced.  Beside it runs    *)
(* are published and garbage collection claims and deletes members.        *)
(*                                                                         *)
(* Time is counted in hours.  Only the members in Weak may be missing or   *)
(* reclaimed, so that there are few states; the others, one at least, have *)
(* what the lead of the run has.  A run without rows is the oldest one and *)
(* has all its members, which is what the API takes it to have.  What is   *)
(* computed from the values is in EnsembleValues.                          *)
(***************************************************************************)
EXTENDS Integers, FiniteSets, FiniteSetsExt

CONSTANTS
    Runs,          \* model runs, numbered from the oldest; run r starts at hour Between * r
    Between,       \* hours between two runs
    Expected,      \* members of the model
    Weak,          \* members that may be missing
    Rowless,        \* runs from before the catalog kept a row per member
    MaxTroubles,   \* bound: failing stores and queries
    MaxMoves       \* bound: moves of the window, three hours each

ASSUME EnsembleReadsAssumption ==
    /\ Runs \subseteq Nat \ {0} /\ IsFiniteSet(Runs) /\ Runs # {} /\ Rowless \subseteq {Min(Runs)}
    /\ Between \in Nat \ {0} /\ Expected \in Nat \ {0} /\ MaxTroubles \in Nat /\ MaxMoves \in Nat
    /\ Weak \subseteq 1..Expected /\ Weak # 1..Expected

Leads == {3, 6}
Members == 1..Expected
Shards == Runs \X Leads \X Weak
Valid(r, l) == Between * r + l

VARIABLES
    shard,      \* shard of each weak member: absent, live, fenced (claimed), gone (deleted)
    published,  \* leads of each run in its manifest and in the catalog
    hidden,     \* runs behind the lifecycle fence
    begin,      \* left boundary of the serving window
    ask,        \* the request
    troubles,
    calm        \* since the request came nothing failed, and nothing was published, fenced or moved

served == <<shard, published, hidden, begin>>
vars == <<shard, published, hidden, begin, ask, troubles, calm>>

NoAsk == [pc |-> "idle"]

Init ==
    /\ published = [r \in Runs |-> IF r = Min(Runs) THEN Leads ELSE {}]
    /\ shard = [s \in Shards |-> IF s[1] = Min(Runs) THEN "live" ELSE "absent"]
    /\ hidden = {} /\ begin = Valid(Min(Runs), 3)
    /\ ask = NoAsk /\ troubles = 0 /\ calm = TRUE

----------------------------------------------------------------------------
(* Which members there are.                                                *)

Servable(n) == n * 100 >= Expected * 85
Visible == {r \in Runs : published[r] # {} /\ r \notin hidden}
Ready(r) == published[r] = Leads

There(r, l) == {m \in Members : l \in published[r] /\ (m \in Weak => shard[<<r, l, m>>] # "absent")}
Rows(r, l) == IF r \in Rowless THEN {} ELSE There(r, l)
Fenced(r, l) == {m \in Weak : shard[<<r, l, m>>] \in {"fenced", "gone"}}

\* Without a row a ready run counts as one from before there were rows.
Assumed(r, l) == IF Rows(r, l) # {} THEN Rows(r, l) ELSE IF l \in published[r] /\ Ready(r) THEN Members ELSE {}

----------------------------------------------------------------------------
(* One lead: the newest run that will do.                                  *)

Spend(n) == troubles + n <= MaxTroubles /\ troubles' = troubles + n
Upset(n) == Spend(n) /\ calm' = (calm /\ n = 0)

\* pin: the one run asked for, or none.
Begin(kind, l, pin) ==
    /\ ask = NoAsk
    /\ LET runs == IF pin = {} THEN Visible ELSE Visible \cap pin
       IN  /\ runs # {}
           /\ ask' = [pc |-> "resolve", kind |-> kind, lead |-> l, pin |-> pin, todo |-> runs]
    /\ calm' = TRUE /\ UNCHANGED <<served, troubles>>

\* The requested run must do; otherwise the next older one is tried.
Dismiss(r) ==
    IF ask.pin # {} \/ ask.todo = {r} THEN [pc |-> "done", kind |-> ask.kind, lead |-> ask.lead, pin |-> ask.pin, outcome |-> "not found"]
    ELSE [pc |-> "resolve", kind |-> ask.kind, lead |-> ask.lead, pin |-> ask.pin, todo |-> ask.todo \ {r}]

\* When the fence cannot be asked, all rows count.
Available(r, l, fails) == IF fails THEN Assumed(r, l) ELSE Assumed(r, l) \ Fenced(r, l)

\* Rows and fence of the newest run left; probing the store of a run without rows
\* may fail, as may the query of the fence.
Consider(r, probeFails, fenceFails) ==
    /\ ask.pc = "resolve" /\ r = Max(ask.todo)
    /\ probeFails => Rows(r, ask.lead) = {}
    /\ LET found == Available(r, ask.lead, fenceFails)
       IN  ask' = IF probeFails THEN Dismiss(r)
                  ELSE IF ~Servable(Cardinality(found)) THEN Dismiss(r)
                  ELSE [pc |-> "open", kind |-> ask.kind, lead |-> ask.lead, pin |-> ask.pin,
                        todo |-> ask.todo, run |-> r, available |-> found]
    /\ Upset(Cardinality({x \in {1} : probeFails}) + Cardinality({x \in {1} : fenceFails}))
    /\ UNCHANGED served

Open(fails) ==
    /\ ask.pc = "open"
    /\ ask' = IF fails \/ ask.lead \notin published[ask.run] THEN Dismiss(ask.run)
              ELSE [pc |-> "read", kind |-> ask.kind, lead |-> ask.lead, pin |-> ask.pin,
                    run |-> ask.run, available |-> ask.available]
    /\ Upset(IF fails THEN 1 ELSE 0) /\ UNCHANGED served

----------------------------------------------------------------------------
(* Reading and judging.                                                    *)

Present(r, l) == {m \in There(r, l) : m \in Weak => shard[<<r, l, m>>] # "gone"}

\* A missing shard reads as not a number; a store that fails ends the request.
Read(fails) ==
    /\ ask.pc = "read"
    /\ ask' = IF fails THEN [pc |-> "done", kind |-> ask.kind, lead |-> ask.lead, pin |-> ask.pin, outcome |-> "failed"]
              ELSE [pc |-> "judge", kind |-> ask.kind, lead |-> ask.lead, pin |-> ask.pin, run |-> ask.run, available |-> ask.available,
                    finite |-> ask.available \cap Present(ask.run, ask.lead)]
    /\ Upset(IF fails THEN 1 ELSE 0) /\ UNCHANGED served

\* Mutant: nobody asks whether a member was fenced meanwhile.
VerdictUnchecked(kind, r, l, available, finite, checkFails) ==
    IF ~Servable(Cardinality(finite)) THEN (IF kind = "probability" THEN "not found" ELSE "null") ELSE "answered"
\* A cell with too few members has no probability, and null statistics.  A member
\* that was fenced meanwhile refuses either, unless the check itself fails.
Verdict(kind, r, l, available, finite, checkFails) ==
    IF kind = "probability" /\ ~Servable(Cardinality(finite)) THEN "not found"
    ELSE IF ~checkFails /\ available \cap Fenced(r, l) # {} THEN "not found"
    ELSE IF ~Servable(Cardinality(finite)) THEN "null" ELSE "answered"

Judge(fails) ==
    /\ ask.pc = "judge"
    /\ ask' = [pc |-> "done", kind |-> ask.kind, lead |-> ask.lead, pin |-> ask.pin, run |-> ask.run,
               outcome |-> Verdict(ask.kind, ask.run, ask.lead, ask.available, ask.finite, fails)]
    /\ Upset(IF fails THEN 1 ELSE 0) /\ UNCHANGED served

End == ask.pc = "done" /\ ask' = NoAsk /\ calm' = TRUE /\ UNCHANGED <<served, troubles>>

----------------------------------------------------------------------------
(* All leads of one run: the newest, whatever it has.                      *)

BeginSeries ==
    /\ ask = NoAsk /\ Visible # {}
    /\ ask' = [pc |-> "manifest", kind |-> "series", run |-> Max(Visible)]
    /\ calm' = TRUE /\ UNCHANGED <<served, troubles>>

SeriesEnds(outcome, answered) == [pc |-> "done", kind |-> "series", run |-> ask.run, outcome |-> outcome, answered |-> answered]

InWindow(r, l) == Valid(r, l) >= begin

\* The manifest's leads in the window.
OpenSeries(fails) ==
    /\ ask.pc = "manifest"
    /\ LET leads == {l \in published[ask.run] : InWindow(ask.run, l)}
       IN  ask' = IF fails THEN SeriesEnds("failed", {})
                  ELSE IF leads = {} THEN SeriesEnds("answered", {})
                  ELSE [pc |-> "members", kind |-> "series", run |-> ask.run, leads |-> leads]
    /\ Upset(IF fails THEN 1 ELSE 0) /\ UNCHANGED served

\* Rows and fence of all of them; leads with too few members are passed over.
QuerySeries(fails) ==
    /\ ask.pc = "members"
    /\ LET found == [l \in ask.leads |-> Available(ask.run, l, FALSE)]
       IN  ask' = IF fails THEN SeriesEnds("failed", {})
                  ELSE [pc |-> "leads", kind |-> "series", run |-> ask.run, answered |-> {},
                        available |-> found, todo |-> {l \in ask.leads : Servable(Cardinality(found[l]))}, finite |-> {}, reading |-> TRUE]
    /\ Upset(IF fails THEN 1 ELSE 0) /\ UNCHANGED served

\* One lead after another; what goes wrong with a lead leaves only that lead out.
ReadOfSeries(fails) ==
    /\ ask.pc = "leads" /\ ask.todo # {} /\ ask.reading
    /\ LET l == Min(ask.todo)
       IN  ask' = IF fails THEN [ask EXCEPT !.todo = @ \ {l}]
                  ELSE [ask EXCEPT !.reading = FALSE, !.finite = ask.available[l] \cap Present(ask.run, l)]
    /\ Upset(IF fails THEN 1 ELSE 0) /\ UNCHANGED served
JudgeOfSeries(fails) ==
    /\ ask.pc = "leads" /\ ~ask.reading
    /\ LET l == Min(ask.todo)
           verdict == Verdict("statistics", ask.run, l, ask.available[l], ask.finite, fails)
       IN  ask' = [ask EXCEPT !.reading = TRUE, !.finite = {}, !.todo = @ \ {l},
                              !.answered = IF verdict = "not found" THEN @ ELSE @ \cup {<<l, verdict>>}]
    /\ Upset(IF fails THEN 1 ELSE 0) /\ UNCHANGED served
EndSeries ==
    /\ ask.pc = "leads" /\ ask.todo = {}
    /\ ask' = SeriesEnds("answered", ask.answered)
    /\ UNCHANGED <<served, troubles, calm>>

----------------------------------------------------------------------------
(* Ingestion, garbage collection and the clock.                            *)

\* The runs' leads come in order; the last of the weak members, those of W, may fail.
Publish(r, W) ==
    /\ \A m \in W, n \in Weak \ W : n < m
    /\ \A x \in Runs : x < r => Ready(x)
    /\ ~Ready(r) /\ r \notin hidden
    /\ LET l == Min(Leads \ published[r])
       IN  /\ published' = [published EXCEPT ![r] = @ \cup {l}]
           /\ shard' = [s \in Shards |-> IF s[1] = r /\ s[2] = l /\ s[3] \notin W THEN "live" ELSE shard[s]]
    /\ calm' = FALSE /\ UNCHANGED <<hidden, begin, ask, troubles>>

\* Nothing newer serves this valid time, which is still in the window.
Serves(r, l) == l \in published[r] /\ r \notin hidden /\ Servable(Cardinality(There(r, l) \ Fenced(r, l)))
IsNewest(r, l) == InWindow(r, l) /\ ~\E x \in Runs, k \in Leads : x > r /\ Valid(x, k) = Valid(r, l) /\ Serves(x, k)
\* The last lead before a reset lead that is not there yet is kept for its ingestion.
Predecessor(r, l) == l \in published[r] /\ (l + 3) % 6 = 0 /\ l + 3 \in Leads \ published[r]
Needed(r, l) == IsNewest(r, l) \/ Predecessor(r, l)

\* Reclamation takes the members of a lead in order.
First(s) == \A m \in Weak : m < s[3] => shard[<<s[1], s[2], m>>] # shard[s]
Claim(s) ==
    /\ shard[s] = "live" /\ First(s) /\ ~Needed(s[1], s[2])
    /\ shard' = [shard EXCEPT ![s] = "fenced"]
    /\ calm' = FALSE /\ UNCHANGED <<published, hidden, begin, ask, troubles>>
Delete(s) ==
    /\ shard[s] = "fenced" /\ First(s)
    /\ shard' = [shard EXCEPT ![s] = "gone"]
    /\ UNCHANGED <<published, hidden, begin, ask, troubles, calm>>
Hide(r) ==
    /\ published[r] # {} /\ r \notin hidden /\ Valid(r, Max(Leads)) < begin
    /\ hidden' = hidden \cup {r}
    /\ calm' = FALSE /\ UNCHANGED <<shard, published, begin, ask, troubles>>
Pass ==
    /\ begin < Valid(Min(Runs), 3 + 3 * MaxMoves)
    /\ begin' = begin + 3 /\ calm' = FALSE /\ UNCHANGED <<shard, published, hidden, ask, troubles>>

Requests ==
    \/ \E r \in Runs, p, f \in BOOLEAN : Consider(r, p, f)
    \/ \E fails \in BOOLEAN : Open(fails) \/ Read(fails) \/ Judge(fails) \/ OpenSeries(fails) \/ QuerySeries(fails)
                                \/ ReadOfSeries(fails) \/ JudgeOfSeries(fails)
    \/ End \/ EndSeries

Next ==
    \/ \E kind \in {"probability", "statistics"}, l \in Leads, pin \in {{}, {Min(Runs)}} :
            Begin(kind, l, pin)
    \/ BeginSeries
    \/ Requests
    \/ \E r \in Runs, W \in SUBSET Weak : Publish(r, W)
    \/ \E r \in Runs : Hide(r)
    \/ \E s \in Shards : Claim(s) \/ Delete(s)
    \/ Pass

Spec == Init /\ [][Next]_vars

----------------------------------------------------------------------------
TypeOK ==
    /\ shard \in [Shards -> {"absent", "live", "fenced", "gone"}]
    /\ published \in [Runs -> SUBSET Leads] /\ hidden \subseteq Runs
    /\ begin \in Nat /\ troubles \in 0..MaxTroubles /\ calm \in BOOLEAN
    /\ ask.pc \in {"idle", "resolve", "open", "read", "judge", "manifest", "members", "leads", "done"}

\* An answer that passed the check is the answer of all the members it was to be
\* made of: none of them fell out because its shard was deleted before the read.
NoMemberIsLost ==
    /\ ask.pc = "judge" /\ Verdict(ask.kind, ask.run, ask.lead, ask.available, ask.finite, FALSE) # "not found"
            => ask.finite = ask.available
    /\ ask.pc = "leads" /\ ~ask.reading =>
            \A l \in {Min(ask.todo)} :
                Verdict("statistics", ask.run, l, ask.available[l], ask.finite, FALSE) # "not found" => ask.finite = ask.available[l]

\* When nothing interferes a lead is answered, from the newest visible run that has
\* enough members for it; it is refused only if there is none.
NewestIsAnswered ==
    ask.pc = "done" /\ ask.kind # "series" /\ calm =>
        LET good == {r \in Visible : Serves(r, ask.lead) /\ (ask.pin = {} \/ r \in ask.pin)}
        IN  IF good = {} THEN ask.outcome = "not found" ELSE ask.outcome = "answered" /\ ask.run = Max(good)

\* When nothing interferes a series has every lead of its run in the window that
\* enough members are left of.
SeriesIsComplete ==
    ask.pc = "done" /\ ask.kind = "series" /\ calm =>
        /\ ask.outcome = "answered"
        /\ ask.answered = {<<l, "answered">> : l \in {k \in Leads : Serves(ask.run, k) /\ Valid(ask.run, k) >= begin}}

\* No answer lacks a member unnoticed, and undisturbed ones lack nothing else.
EnsembleAnswersAreSound == TypeOK /\ NoMemberIsLost /\ NewestIsAnswered /\ SeriesIsComplete
=============================================================================
