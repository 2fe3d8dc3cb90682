------------------------ MODULE MCFileLifecycleLog -------------------------
(* The first questions of the dataset, in its order; all are seeded open. *)
EXTENDS FileLifecycleLog, TLC

CONSTANTS q1, q2

MCPosition == [q \in Questions |-> IF q = q1 THEN 0 ELSE 1]
MCSeeded   == [q \in Questions |-> "open"]

\* Callers are interchangeable: no definition tells one from another.
MCSymmetry == Permutations(Callers)
=============================================================================
