---------------------- MODULE MCPostgresLifecycleLog -----------------------
(* The first questions of the dataset, in its order; all are seeded open. *)
EXTENDS PostgresLifecycleLog

CONSTANTS q1, q2

MCPosition == [q \in Questions |-> IF q = q1 THEN 0 ELSE 1]
MCSeeded   == [q \in Questions |-> "open"]
=============================================================================
