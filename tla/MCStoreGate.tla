---------------------------- MODULE MCStoreGate ----------------------------
(* A small instance of StoreGate: who runs, on which pool, with which regions. *)
EXTENDS StoreGate

CONSTANTS w1, w2, x1, i1, d1, s1, s2, s3, r1, r2

\* Two writers whose regions overlap, a finalizer and an initializer share the two
\* connections of the ingestion process; a reader runs in the API's.
RoleOf    == [p \in Procs |-> IF p \in {w1, w2} THEN "writer" ELSE IF p = x1 THEN "wave"
                            ELSE IF p = i1 THEN "init" ELSE "reader"]
Pools     == [p \in Procs |-> IF p = d1 THEN {s3} ELSE {s1, s2}]
Overlap   == [p \in Procs |-> IF p = w1 THEN {r1, r2} ELSE IF p = w2 THEN {r2} ELSE {}]
=============================================================================
