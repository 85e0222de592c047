--------------------------- MODULE MeasuredPoseHold ---------------------------
(***************************************************************************)
(* run_native_measured_pose_hold of native/src/sprite_can_shadow.cpp: poll *)
(* all motors while they are disabled and capture where they are, enable   *)
(* them, hold them there, and on every way out disable them and verify     *)
(* that they are disabled.                                                 *)
(*                                                                         *)
(* Three polling loops (warm, hold, verify) share their shape: in a slot   *)
(* write to every motor that is due, then read what arrived.  Unlike the   *)
(* protected policy it demands status 1 from the first slot, has no client *)
(* and leaves SIGINT and SIGTERM to the kernel, which ends the process.    *)
(***************************************************************************)
EXTENDS CanDrives

CONSTANTS
  Fast,         \* the 500 Hz (ankle) motors; the others run at 50 Hz
  Phase,        \* poll_phase of each motor
  FastPeriod,   \* 4 slots
  SlowPeriod,   \* 40 slots
  WarmSlots,    \* warmup_slots
  HoldSlots,    \* transport_slots
  VerifySlots,  \* 400 slots of polling after the disable frames
  Passes        \* 3 passes of 0xFD over all motors

ASSUME HoldAssumption ==
  /\ Fast \subseteq Motors
  /\ Phase \in [Motors -> Nat]
  /\ {FastPeriod, SlowPeriod, WarmSlots, HoldSlots, VerifySlots, Passes}
       \subseteq Nat \ {0}

VARIABLES
  stage,          \* "warm", "enable", "hold", "disable", "verify", "report", "over"
  step,           \* of a polling slot: "send", "drain", and at the end "settle"
  slot,           \* slot of a polling loop
  idx,            \* next motor of a loop over the motor vector
  pass,           \* pass of the disable loop
  alive,          \* no signal has ended the process
  failed,         \* failure is not empty
  verdict,        \* "none", "passed" (exit 0) or "not_passed" (2 or 1)
  seen, finalDisabled,  \* of each Motor
  txCount, rxCount,     \* of each Motor, until the coverage gate
  missed,         \* deadline_misses # 0
  disables        \* history: 0xFD frames written per motor

loop == <<stage, step, slot, idx, pass>>
outcome == <<failed, verdict>>
records == <<seen, finalDisabled>>
counts == <<txCount, rxCount>>
vars == <<loop, alive, outcome, records, counts, missed, disables, busVars>>

Polling == {"warm", "hold", "verify"}
Powered == {"enable", "hold"}
Stopping == {"disable", "verify", "report"}

Slots == [warm |-> WarmSlots, hold |-> HoldSlots, verify |-> VerifySlots]

Init ==
  /\ BusInit
  /\ stage = "warm" /\ step = "send" /\ slot = 0 /\ idx = 1 /\ pass = 1
  /\ alive = TRUE /\ failed = FALSE /\ verdict = "none"
  /\ seen = [m \in Motors |-> FALSE] /\ finalDisabled = [m \in Motors |-> FALSE]
  /\ txCount = [m \in Motors |-> 0] /\ rxCount = [m \in Motors |-> 0]
  /\ missed = FALSE
  /\ disables = [m \in Motors |-> 0]

--------------------------------------------------------------------------------
(* Control.                                                                *)

due(m) ==
  IF m \in Fast THEN slot % FastPeriod = Phase[m] ELSE slot % SlowPeriod = Phase[m]

Enter(where) ==
  /\ stage' = where /\ step' = "send" /\ slot' = 0 /\ idx' = 1 /\ pass' = 1

\* The counts matter up to the coverage gate; the verification's do not.
Counted(count, m) ==
  IF stage = "verify" THEN count ELSE [count EXCEPT ![m] = @ + 1]

\* A C++ exception: caught before the shutdown block, or at the end of it.
Throw ==
  /\ Enter(IF stage \in Stopping THEN "report" ELSE "disable")
  /\ failed' = TRUE
  /\ UNCHANGED verdict

--------------------------------------------------------------------------------
(* A slot of a polling loop.                                               *)

\* send_poll, or in the hold hold_payload and send_payload.
Send ==
  /\ stage \in Polling /\ step = "send" /\ idx <= N
  /\ IF due(idx)
     THEN /\ Deliver(idx, IF stage = "hold" THEN "command" ELSE "poll")
          /\ txCount' = Counted(txCount, idx)
     ELSE UNCHANGED <<busVars, txCount>>
  /\ idx' = idx + 1
  /\ UNCHANGED <<stage, step, slot, pass, outcome, records, rxCount, missed, disables>>

\* A write the kernel refuses, a payload out of its envelope or over its torque
\* cap, or, before the first frame of a slot of the hold, a joint error.
SendThrows ==
  /\ \/ stage \in Polling /\ step = "send" /\ idx <= N /\ due(idx)
     \/ stage = "hold" /\ step = "send" /\ idx = 1 /\ slot % FastPeriod = 0
     \/ stage \in {"enable", "disable"} /\ idx <= N
  /\ Throw
  /\ UNCHANGED <<records, counts, missed, disables, busVars>>

\* Every motor that is due is served.  This slot may have begun too late.
SlotSent ==
  /\ stage \in Polling /\ step = "send" /\ idx = N + 1
  /\ step' = "drain" /\ idx' = 1
  /\ missed' \in IF stage = "hold" /\ slot % FastPeriod = 0
                 THEN {missed, TRUE} ELSE {missed}
  /\ UNCHANGED <<stage, slot, pass, outcome, records, counts, disables, busVars>>

\* expected_status of drain_hold_feedback.
Expected ==
  CASE stage = "warm" -> {"off"}
    [] stage = "hold" -> {"on"}
    [] OTHER -> {"off", "on"}

Draining == stage \in Polling /\ step \in {"drain", "settle"}

\* drain_hold_feedback accepts an answer.
Accept(m) ==
  /\ Draining
  /\ TakeAnswer(m)
  /\ Head(rx[m]) \in Expected
  /\ seen' = [seen EXCEPT ![m] = TRUE]
  /\ rxCount' = Counted(rxCount, m)
  /\ finalDisabled' = IF stage = "hold" THEN finalDisabled
                      ELSE [finalDisabled EXCEPT ![m] = (Head(rx[m]) = "off")]
  /\ UNCHANGED <<loop, outcome, txCount, missed, disables, drive, lost>>

\* It throws at another status, a malformed frame, and where a guard trips: also
\* while it verifies.
Refuse(m) ==
  /\ Draining
  /\ TakeAnswer(m)
  /\ Throw
  /\ UNCHANGED <<records, counts, missed, disables, drive, lost>>

\* Nothing more to read now: the next slot, or 2 ms for the last answers.
SlotEnds ==
  /\ stage \in Polling /\ step = "drain"
  /\ IF slot + 1 < Slots[stage]
     THEN step' = "send" /\ slot' = slot + 1
     ELSE step' = "settle" /\ UNCHANGED slot
  /\ UNCHANGED <<stage, idx, pass, outcome, records, counts, missed, disables, busVars>>

--------------------------------------------------------------------------------
(* Between the loops.                                                      *)

Settled(where) == stage = where /\ step = "settle"

\* Mutant: only the counts start anew.
CaptureKeepsRecords ==
  /\ Settled("warm")
  /\ \A m \in Motors : seen[m] /\ rxCount[m] > 0
  /\ Enter("enable")
  /\ txCount' = [m \in Motors |-> 0] /\ rxCount' = [m \in Motors |-> 0]
  /\ UNCHANGED <<outcome, records, missed, disables, busVars>>

\* Every motor was heard of, in its range and at rest: its record starts anew.
Capture ==
  /\ Settled("warm")
  /\ \A m \in Motors : seen[m] /\ rxCount[m] > 0
  /\ Enter("enable")
  /\ seen' = [m \in Motors |-> FALSE] /\ finalDisabled' = [m \in Motors |-> FALSE]
  /\ txCount' = [m \in Motors |-> 0] /\ rxCount' = [m \in Motors |-> 0]
  /\ UNCHANGED <<outcome, missed, disables, busVars>>

\* A motor was not, or is out of its range, or moves.
CaptureFails ==
  /\ Settled("warm")
  /\ Throw
  /\ UNCHANGED <<records, counts, missed, disables, busVars>>

Enable ==
  /\ stage = "enable" /\ idx <= N
  /\ Deliver(idx, "enable")
  /\ idx' = idx + 1
  /\ UNCHANGED <<stage, step, slot, pass, outcome, records, counts, missed, disables>>

\* The answers to 0xFC will count, the frames do not.
EnableDone ==
  /\ stage = "enable" /\ idx = N + 1
  /\ Enter("hold")
  /\ txCount' = [m \in Motors |-> 0]
  /\ UNCHANGED <<outcome, records, rxCount, missed, disables, busVars>>

\* Mutant: a motor that never answered is not looked at.
CoveredOfAnswered ==
  \A m \in Motors : rxCount[m] > 0 => 100 * rxCount[m] >= 95 * txCount[m]

\* Every motor was commanded and answered 95 percent of its commands.
Covered ==
  \A m \in Motors : txCount[m] > 0 /\ 100 * rxCount[m] >= 95 * txCount[m]

HoldDone ==
  /\ Settled("hold")
  /\ IF Covered /\ ~missed THEN Enter("disable") /\ UNCHANGED outcome ELSE Throw
  /\ UNCHANGED <<records, counts, missed, disables, busVars>>

Disable ==
  /\ stage = "disable" /\ idx <= N
  /\ Deliver(idx, "disable")
  /\ disables' = [disables EXCEPT ![idx] = @ + 1]
  /\ idx' = idx + 1
  /\ UNCHANGED <<stage, step, slot, pass, outcome, records, counts, missed>>

NextPass ==
  /\ stage = "disable" /\ idx = N + 1 /\ pass < Passes
  /\ pass' = pass + 1 /\ idx' = 1
  /\ UNCHANGED <<stage, step, slot, outcome, records, counts, missed, disables, busVars>>

StartVerify ==
  /\ stage = "disable" /\ idx = N + 1 /\ pass = Passes
  /\ Enter("verify")
  /\ seen' = [m \in Motors |-> FALSE] /\ finalDisabled' = [m \in Motors |-> FALSE]
  /\ UNCHANGED <<outcome, counts, missed, disables, busVars>>

\* Mutant: a motor that did not answer is taken for disabled.
VerifyDoneOfSeen ==
  /\ Settled("verify")
  /\ IF \A m \in Motors : seen[m] => finalDisabled[m]
     THEN Enter("report") /\ UNCHANGED outcome
     ELSE Throw
  /\ UNCHANGED <<records, counts, missed, disables, busVars>>

\* Mutant: the verification starts over until every motor said "disabled".
VerifyDoneWaits ==
  /\ Settled("verify")
  /\ Enter(IF \A m \in Motors : finalDisabled[m] THEN "report" ELSE "verify")
  /\ UNCHANGED <<outcome, records, counts, missed, disables, busVars>>

VerifyDone ==
  /\ Settled("verify")
  /\ IF \A m \in Motors : finalDisabled[m]
     THEN Enter("report") /\ UNCHANGED outcome
     ELSE Throw
  /\ UNCHANGED <<records, counts, missed, disables, busVars>>

\* Opening the report file may throw: exit status 1.
Report ==
  /\ stage = "report"
  /\ stage' = "over"
  /\ verdict' \in IF failed THEN {"not_passed"} ELSE {"passed", "not_passed"}
  /\ UNCHANGED <<step, slot, idx, pass, failed, records, counts, missed, disables,
                 busVars>>

--------------------------------------------------------------------------------
(* The outside.                                                            *)

\* SIGINT or SIGTERM: main installs handlers for the protected policy only.
Kill ==
  /\ alive' = FALSE
  /\ UNCHANGED <<loop, outcome, records, counts, missed, disables, busVars>>

DriveTrips(m) ==
  /\ Trip(m)
  /\ UNCHANGED <<loop, alive, outcome, records, counts, missed, disables>>

--------------------------------------------------------------------------------
Poll ==
  \/ Send \/ SendThrows \/ SlotSent \/ SlotEnds
  \/ \E m \in Motors : Accept(m) \/ Refuse(m)

Between ==
  \/ Capture \/ CaptureFails \/ Enable \/ EnableDone \/ HoldDone
  \/ Disable \/ NextPass \/ StartVerify \/ VerifyDone \/ Report

Controller == alive /\ UNCHANGED alive /\ (Poll \/ Between)

Next ==
  \/ Controller
  \/ alive /\ stage # "over" /\ Kill
  \/ \E m \in Motors : DriveTrips(m)

Spec == Init /\ [][Next]_vars

\* The kernel keeps scheduling the process; all its waits have deadlines.
FairSpec == Spec /\ WF_vars(Controller)

--------------------------------------------------------------------------------
(* Properties.                                                             *)

\* Every variable has its type.
TypeOK ==
  /\ BusTypeOK
  /\ stage \in Polling \union Powered \union Stopping \union {"over"}
  /\ step \in {"send", "drain", "settle"}
  /\ slot \in Nat /\ (stage \in Polling => slot < Slots[stage])
  /\ idx \in 1..(N + 1) /\ pass \in 1..Passes
  /\ {alive, failed, missed} \subseteq BOOLEAN
  /\ verdict \in {"none", "passed", "not_passed"}
  /\ seen \in [Motors -> BOOLEAN] /\ finalDisabled \in [Motors -> BOOLEAN]
  /\ txCount \in [Motors -> Nat] /\ rxCount \in [Motors -> Nat]
  /\ disables \in [Motors -> Nat]

RunPhase ==
  CASE stage = "warm" -> "waiting"
    [] stage \in Powered -> "armed"
    [] stage \in Stopping -> "stopping"
    [] OTHER -> "over"

(***************************************************************************)
(* The hold is fail-closed (FailClosedRun), also when a signal ends it: it *)
(* then reports nothing.                                                   *)
(***************************************************************************)
FailClosed ==
  INSTANCE FailClosedRun WITH
    Drives <- Motors, enabled <- EnabledDrives, phase <- RunPhase

ImplementsFailClosedRun == FailClosed!Spec

(***************************************************************************)
(* 0xFC is written once, may be lost, and no slot asks whether all drives  *)
(* are enabled.  Still a hold that went well up to its end enabled every   *)
(* drive: a drive that is disabled answers with status 0, which throws, or *)
(* does not answer, which the coverage shows.                              *)
(***************************************************************************)
VerifiedEnabled ==
  stage = "disable" /\ ~failed =>
    \A m \in Motors : disables[m] = 0 => drive[m] # "off"

\* The hold always reports, unless a signal ends it.
Termination == <>(stage = "over" \/ ~alive)

--------------------------------------------------------------------------------
(* Why they hold.                                                          *)

\* While warming up, an enabled drive was not heard of, nor has it said "off".
SeenIsOff ==
  stage = "warm" =>
    \A m \in Motors : drive[m] = "on" => ~seen[m] /\ ~Waiting(m, "off")

\* Until the first 0xFD there is no "off" behind an "on".
OnStaysOn ==
  \A m \in Motors : disables[m] = 0 /\ stage # "warm" =>
    /\ drive[m] = "off" => ~Waiting(m, "on")
    /\ \A i, j \in 1..Len(rx[m]) : i < j /\ rx[m][i] = "on" => rx[m][j] # "off"

\* Whoever answered in the hold has no answer left from before it.
SeenIsOn ==
  stage = "hold" \/ (stage = "disable" /\ ~failed) =>
    \A m \in Motors :
      /\ rxCount[m] > 0 => seen[m]
      /\ stage = "disable" => rxCount[m] > 0
      /\ seen[m] /\ disables[m] = 0 => drive[m] # "off" /\ ~Waiting(m, "off")

\* Between capture and verification nothing counts as verified.
NotYetVerified ==
  stage \in {"enable", "hold"} \/ (stage = "disable" /\ ~failed) =>
    \A m \in Motors : ~finalDisabled[m]

\* After a hold that went well "off" is an answer to 0xFD or to what followed.
OffIsOff ==
  stage \in Stopping /\ ~failed =>
    \A m \in Motors :
      drive[m] = "on" => ~finalDisabled[m] /\ ~Waiting(m, "off")

(***************************************************************************)
(* The invariant behind the safety properties.                             *)
(***************************************************************************)
AnswersAreTrue == SeenIsOff /\ OnStaysOn /\ SeenIsOn /\ NotYetVerified /\ OffIsOff

==============================================================================
