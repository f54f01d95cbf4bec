--------------------------- MODULE CanonicalRules ---------------------------
(***************************************************************************)
(* Which forecast is served for a valid time: the selection rules of       *)
(* packages/domain (canonical.py, temporal.py), shared by the API and by   *)
(* garbage collection.  A candidate is one lead of one run, with the       *)
(* variables and members that can be read; the freshest one, which is the  *)
(* one with the smallest lead, anchors a valid time.                       *)
(***************************************************************************)
EXTENDS Naturals, FiniteSets

NoCandidate == [cycle |-> 0, lead |-> 0, vars |-> {}, members |-> {}, products |-> {"none"}, run |-> 0]

IntervalVariables == {"precipitation_amount_3h", "cloud_cover_3h"}
CompanionVariables == {"crain", "csnow", "cfrzr", "cicep"}
WindComponents == {"wind_u_10m", "wind_v_10m"}

\* Of two runs with one lead either may come first.
Freshest(cands) ==
    IF cands = {} THEN NoCandidate
    ELSE CHOOSE c \in cands : \A d \in cands : c.lead <= d.lead

Offers(c, variable) ==
    c.vars = {} \/ (IF variable = "wind_10m" THEN WindComponents \subseteq c.vars
                                              ELSE variable \in c.vars)

\* Mutant: an interval is shown at lead 0 although it has no start there.
SelectVariableAtZero(cands, variable) ==
    LET wanted == IF variable \in CompanionVariables THEN "precipitation_amount_3h" ELSE variable
    IN  Freshest({c \in cands : Offers(c, wanted)})

\* An interval variable has no value at lead 0, where an older run's positive
\* lead stands in; companions follow the precipitation amount.
SelectVariable(cands, variable) ==
    LET wanted == IF variable \in CompanionVariables THEN "precipitation_amount_3h" ELSE variable
        atZero == wanted \in IntervalVariables /\ Freshest(cands).lead = 0
    IN  Freshest({c \in cands : Offers(c, wanted) /\ (atZero => c.lead > 0)})

\* All anchors and variable sources of the valid times asked for.
SelectBulk(candidates, variables, times, start) ==
    LET served == {t \in DOMAIN candidates : t >= start /\ t \in times /\ candidates[t] # {}}
        named == (variables \ CompanionVariables)
                 \cup (IF variables \cap CompanionVariables # {} THEN {"precipitation_amount_3h"} ELSE {})
                 \cup (variables \cap CompanionVariables)
    IN  [anchors |-> [t \in served |-> Freshest(candidates[t])],
         sources |-> [vt \in named \X served |-> SelectVariable(candidates[vt[2]], vt[1])]]

\* 85 per cent of the members, in integers.
Servable(count, expected) == count * 100 >= expected * 85

(* The physical fence: what garbage collection has claimed or deleted. *)
FenceIndex(keys) ==
    [variables |-> {<<k.run, k.lead, k.var>> : k \in {x \in keys : x.kind \in {"mean", "det"}}},
     members |-> {<<k.run, k.lead, k.member>> : k \in {x \in keys : x.kind = "mem"}},
     means |-> {<<k.run, k.lead>> : k \in {x \in keys : x.kind = "mean"}}]

\* What is left of a candidate behind the fence, or nothing.
BehindFence(c, index, ensemble, expected) ==
    LET active == {v \in c.vars : <<c.run, c.lead, v>> \notin index.variables}
        able == {m \in c.members : <<c.run, c.lead, m>> \notin index.members}
        rest == [c EXCEPT !.vars = active]
    IN  IF ensemble
        THEN IF ~Servable(Cardinality(able), expected) THEN NoCandidate
             ELSE [rest EXCEPT !.members = able,
                               !.products = IF <<c.run, c.lead>> \in index.means
                                            THEN @ \ {"ensemble_mean"} ELSE @]
        ELSE IF c.vars # {} /\ active = {} THEN NoCandidate ELSE rest

FilterByFence(candidates, keys, ensemble, expected) ==
    IF keys = {} THEN candidates
    ELSE [t \in DOMAIN candidates |->
            {BehindFence(c, FenceIndex(keys), ensemble, expected) : c \in candidates[t]} \ {NoCandidate}]

\* The digest of a canonical forecast: equal exactly when every anchor and every
\* variable comes from the same run, lead and generation.
Provenance(anchors, sources, generation) ==
    LET of(c) == IF c = NoCandidate THEN NoCandidate
                 ELSE [c EXCEPT !.vars = {}, !.members = {}, !.products = {}]
        tag(c) == <<of(c), IF c = NoCandidate THEN 0 ELSE generation[c.run]>>
    IN  [anchors |-> [t \in DOMAIN anchors |-> tag(anchors[t])],
         sources |-> [k \in DOMAIN sources |-> tag(sources[k])]]

\* The valid times at which a variable can be shown.
ListValidTimes(candidates, variable) ==
    {t \in DOMAIN candidates : SelectVariable(candidates[t], variable) # NoCandidate}
=============================================================================
