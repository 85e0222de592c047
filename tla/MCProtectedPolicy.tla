--------------------------- MODULE MCProtectedPolicy --------------------------
(***************************************************************************)
(* The polling phases load_motors gives the motors of one bus, for TLC:    *)
(* the ankle motors come first, at phase 0 here, and the 50 Hz motors      *)
(* after them at the phases 1, 3, ...                                      *)
(***************************************************************************)
EXTENDS ProtectedPolicy

MCPhase ==
  [m \in Motors |-> IF m \in Fast THEN 0 ELSE 2 * (m - Cardinality(Fast)) - 1]

==============================================================================
