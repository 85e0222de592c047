----------------------------- MODULE FailClosedRun ----------------------------
(***************************************************************************)
(* What a powered run promises, whatever its controller looks like: it     *)
(* arms only when no drive is enabled, it enables drives only while it is  *)
(* armed, once it starts to stop it enables none again, and it is reported *)
(* as passed only when no drive is enabled.  A drive may stop being        *)
(* enabled at any time.                                                    *)
(***************************************************************************)
CONSTANTS
  Drives     \* the drives of the run

VARIABLES
  enabled,   \* the drives whose power stage is on
  phase,     \* "waiting", "armed", "stopping" or "over"
  verdict    \* "none", "passed" or "not_passed"

failClosedVars == <<enabled, phase, verdict>>

Init ==
  /\ enabled \in SUBSET Drives
  /\ phase = "waiting"
  /\ verdict = "none"

Arm ==
  /\ phase = "waiting"
  /\ enabled = {}
  /\ phase' = "armed"
  /\ UNCHANGED <<enabled, verdict>>

Enable(d) ==
  /\ phase = "armed"
  /\ enabled' = enabled \union {d}
  /\ UNCHANGED <<phase, verdict>>

Drop(d) ==
  /\ enabled' = enabled \ {d}
  /\ UNCHANGED <<phase, verdict>>

Stop ==
  /\ phase \in {"waiting", "armed"}
  /\ phase' = "stopping"
  /\ UNCHANGED <<enabled, verdict>>

Report ==
  /\ phase = "stopping"
  /\ phase' = "over"
  /\ verdict' \in {"passed", "not_passed"}
  /\ verdict' = "passed" => enabled = {}
  /\ UNCHANGED enabled

Next ==
  \/ Arm
  \/ \E d \in Drives : Enable(d) \/ Drop(d)
  \/ Stop
  \/ Report

Spec == Init /\ [][Next]_failClosedVars

==============================================================================
