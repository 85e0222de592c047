------------------------- MODULE MCMeasuredPoseHold ---------------------------
(***************************************************************************)
(* Instances of MeasuredPoseHold for TLC: motor 1 polled in the even       *)
(* slots, motor 2 in the odd ones.                                         *)
(***************************************************************************)
EXTENDS MeasuredPoseHold

MCPhase == [m \in Motors |-> (m - 1) % 2]

==============================================================================
