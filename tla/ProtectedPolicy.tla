---------------------------- MODULE ProtectedPolicy ---------------------------
(***************************************************************************)
(* run_native_protected_policy of native/src/sprite_can_shadow.cpp: the    *)
(* 2 kHz native controller that polls disabled drives until a policy       *)
(* client answered, enables every drive, plays the client's targets, and   *)
(* on every way out disables the drives and verifies that they are         *)
(* disabled before it reports.                                             *)
(*                                                                         *)
(* One thread runs the controller.  Around it move the drives and buses    *)
(* (CanDrives), the policy client (here any client: a target may come, be  *)
(* late, or be refused in any slot) and SIGINT/SIGTERM.  A slot is split   *)
(* where the outside can move between its parts: before the slot, between  *)
(* two frames written, between two answers read, after the last one.       *)
(*                                                                         *)
(* Time is counted in slots.  A throw is a step to the shutdown block      *)
(* (before it) or to the report (inside it).                               *)
(***************************************************************************)
EXTENDS CanDrives, FiniteSets

CONSTANTS
  Fast,              \* the 500 Hz (ankle) motors; the others run at 50 Hz
  Phase,             \* poll_phase of each motor
  PreparationSlots,  \* 4000 slots to get a first target
  ActiveSlots,       \* duration_s * 2000
  EnableSlots,       \* 200: last slot in which a drive may report disabled
  VerifySlots,       \* 400 slots of polling after the disable frames
  PreviewPeriod,     \* 4: slots between two command previews
  StatePeriod,       \* 40: slots between two state packets
  OtherPreviews,     \* 10: previews between two updates of the 50 Hz motors
  DisableAttempts,   \* 3 passes of 0xFD over all motors
  TargetTimeout,     \* 200 slots: kTargetTimeoutNs
  FutureSlack,       \* 10 slots: a target may be stamped 5 ms ahead
  StartDelay,        \* 40 slots from the enable frames to the first slot
  LateLimit,         \* 4 slots: a wake-up this late is a deadline miss
  MaxLag             \* bound: the latest wake-up considered

ASSUME ScheduleAssumption ==
  /\ Fast \subseteq Motors
  /\ Phase \in [Motors -> Nat]
  /\ {PreviewPeriod, StatePeriod, OtherPreviews, DisableAttempts,
      PreparationSlots, ActiveSlots, VerifySlots, StartDelay} \subseteq Nat \ {0}
  /\ {EnableSlots, TargetTimeout, FutureSlack, LateLimit, MaxLag} \subseteq Nat

(***************************************************************************)
(* Every configured run lasts seconds, so the enable check of slot 200 is  *)
(* reached; a run of at most 100 ms would skip it.                         *)
(***************************************************************************)
ASSUME DurationAssumption == EnableSlots < ActiveSlots

VARIABLES
  pc,            \* where the controller is
  slot,          \* loop variable of the preparation, active and verify loops
  idx,           \* next motor of a loop over the motor vector
  attempt,       \* pass of the disable loop
  signal,        \* g_shutdown_requested
  failed,        \* failure is not empty
  verdict,       \* exit of main: "none", "passed" (0), "not_passed" (2 or 1)
  seen, lastStatus, finalDisabled,  \* of each Motor
  txCount, rxCount,                 \* of each Motor, until the coverage gate
  previewReady, previewAge,         \* preview_initialized; slots since the
                                    \* target behind the preview was stamped
  previewCount,                     \* ipc.motor_preview_count
  hasTarget, targetAge,             \* ipc.has_target; now - last_target_ns
  stateSequence,                    \* ipc.state_sequence
  lag, missed,                      \* lateness of the wake-up; deadline_misses
  disables                          \* history: 0xFD frames written per motor

control == <<pc, slot, idx, attempt>>
feedback == <<seen, lastStatus, finalDisabled>>
counts == <<txCount, rxCount>>
preview == <<previewReady, previewAge, previewCount>>
target == <<hasTarget, targetAge>>
clock == <<lag, missed>>
outcome == <<failed, verdict>>
vars == <<control, signal, outcome, feedback, counts, preview, target,
          stateSequence, clock, disables, busVars>>

Preparing == {"prep", "prep_send", "prep_drain"}
Powered == {"enable", "active", "active_send", "active_drain", "settle"}
Stopping == {"disable", "verify_send", "verify_drain", "verify_settle",
             "report"}

ControlTypeOK ==
  /\ pc \in Preparing \union Powered \union Stopping \union {"over"}
  /\ slot \in Nat
  /\ idx \in 1..(N + 1)
  /\ attempt \in 1..DisableAttempts
  /\ failed \in BOOLEAN
  /\ verdict \in {"none", "passed", "not_passed"}

MemoryTypeOK ==
  /\ seen \in [Motors -> BOOLEAN]
  /\ lastStatus \in [Motors -> Status \union {"none"}]
  /\ finalDisabled \in [Motors -> BOOLEAN]
  /\ txCount \in [Motors -> Nat]
  /\ rxCount \in [Motors -> Nat]
  /\ previewReady \in [Motors -> BOOLEAN]
  /\ previewAge \in [Motors -> Int]
  /\ previewCount \in Nat
  /\ hasTarget \in BOOLEAN
  /\ targetAge \in Int
  /\ stateSequence \in Nat
  /\ lag \in 0..MaxLag
  /\ missed \in BOOLEAN
  /\ signal \in BOOLEAN
  /\ disables \in [Motors -> Nat]

\* All motors carry value v.
Each(v) == [m \in Motors |-> v]

Init ==
  /\ BusInit
  /\ pc = "prep" /\ slot = 0 /\ idx = 1 /\ attempt = 1
  /\ signal = FALSE /\ failed = FALSE /\ verdict = "none"
  /\ seen = Each(FALSE) /\ lastStatus = Each("none")
  /\ finalDisabled = Each(FALSE)
  /\ txCount = Each(0) /\ rxCount = Each(0)
  /\ previewReady = Each(FALSE) /\ previewAge = Each(0) /\ previewCount = 0
  /\ hasTarget = FALSE /\ targetAge = 0
  /\ stateSequence = 0
  /\ lag = 0 /\ missed = FALSE
  /\ disables = Each(0)

--------------------------------------------------------------------------------
(* Helpers.                                                                *)

due(m, s) ==
  IF m \in Fast THEN s % PreviewPeriod = Phase[m] ELSE s % StatePeriod = Phase[m]

allSeen == \A m \in Motors : seen[m]

Goto(where, s) == pc' = where /\ slot' = s /\ idx' = 1 /\ UNCHANGED attempt

\* A C++ exception: caught before the shutdown block, or at the end of it.
Throw ==
  /\ failed' = TRUE
  /\ slot' = 0 /\ idx' = 1 /\ attempt' = 1
  /\ pc' = IF pc \in Stopping THEN "report" ELSE "disable"
  /\ UNCHANGED verdict

\* A state packet is due in this slot of the preparation and active loops.
StateDue == slot % StatePeriod = StatePeriod - 1 /\ allSeen

(***************************************************************************)
(* drain_target_packets, dt slots after the last time: nothing arrived, or *)
(* the last accepted packet carries a stamp within its limits.             *)
(***************************************************************************)
DrainTargets(dt) ==
  \/ /\ targetAge' = IF hasTarget THEN targetAge + dt ELSE targetAge
     /\ UNCHANGED hasTarget
  \/ /\ targetAge' \in (-FutureSlack)..TargetTimeout
     /\ hasTarget' = TRUE

(***************************************************************************)
(* What drain_policy_feedback is called with: the statuses it accepts, and *)
(* whether it skips what it does not accept (expected_status < 0) instead  *)
(* of throwing.                                                            *)
(***************************************************************************)
Lenient ==
  \/ pc \in {"verify_drain", "verify_settle"}
  \/ pc = "active_drain" /\ slot < EnableSlots

\* Mutant: the preparation takes any valid status for a disabled drive.
ExpectedAnyInPreparation ==
  IF Lenient \/ pc = "prep_drain" THEN {"off", "on"} ELSE {"on"}

Expected ==
  CASE Lenient -> {"off", "on"}
    [] pc = "prep_drain" -> {"off"}
    [] OTHER -> {"on"}

Draining == pc \in {"prep_drain", "active_drain", "settle",
                    "verify_drain", "verify_settle"}

--------------------------------------------------------------------------------
(* drain_policy_feedback, one answer at a time; the drain ends (EAGAIN)    *)
(* with whatever is still in flight left for the next one.                 *)

AcceptAnswer(m) ==
  /\ Draining
  /\ TakeAnswer(m)
  /\ Head(rx[m]) \in Expected
  /\ lastStatus' = [lastStatus EXCEPT ![m] = Head(rx[m])]
  /\ seen' = [seen EXCEPT ![m] = TRUE]
  /\ finalDisabled' =
       IF Lenient \/ pc = "prep_drain"
       THEN [finalDisabled EXCEPT ![m] = (Head(rx[m]) = "off")]
       ELSE finalDisabled
  /\ rxCount' = IF pc \in Powered
                THEN [rxCount EXCEPT ![m] = @ + 1] ELSE rxCount
  /\ UNCHANGED <<control, signal, outcome, txCount, preview, target,
                 stateSequence, clock, disables, drive, lost>>

\* A fault status, or a status the phase does not allow.
RefuseAnswer(m) ==
  /\ Draining
  /\ TakeAnswer(m)
  /\ Head(rx[m]) \notin Expected
  /\ IF Lenient THEN UNCHANGED <<control, outcome>> ELSE Throw
  /\ UNCHANGED <<signal, feedback, counts, preview, target,
                 stateSequence, clock, disables, drive, lost>>

\* A malformed frame, or one of another controller id.
GarbledAnswer(m) ==
  /\ Draining
  /\ TakeAnswer(m)
  /\ lost < MaxLost
  /\ lost' = lost + 1
  /\ IF Lenient THEN UNCHANGED <<control, outcome>> ELSE Throw
  /\ UNCHANGED <<signal, feedback, counts, preview, target,
                 stateSequence, clock, disables, drive>>

\* A valid answer past a temperature, position, velocity or torque guard.
GuardTripped(m) ==
  /\ Draining
  /\ TakeAnswer(m)
  /\ Head(rx[m]) \in Expected
  /\ lastStatus' = [lastStatus EXCEPT ![m] = Head(rx[m])]
  /\ Throw
  /\ UNCHANGED <<signal, seen, finalDisabled, counts, preview, target,
                 stateSequence, clock, disables, drive, lost>>

--------------------------------------------------------------------------------
(* The loops over the motor vector that write frames.                      *)

\* send_poll, in the preparation and verify loops.
SendPoll ==
  /\ pc \in {"prep_send", "verify_send"}
  /\ idx <= N
  /\ IF due(idx, slot) THEN Deliver(idx, "poll") ELSE UNCHANGED busVars
  /\ idx' = idx + 1
  /\ UNCHANGED <<pc, slot, attempt, signal, outcome, feedback, counts, preview,
                 target, stateSequence, clock, disables>>

\* protected_policy_payload and send_payload, in the active loop.
SendCommand ==
  /\ pc = "active_send"
  /\ idx <= N
  /\ IF due(idx, slot)
     THEN /\ previewReady[idx]
          /\ Deliver(idx, "command")
          /\ txCount' = [txCount EXCEPT ![idx] = @ + 1]
     ELSE UNCHANGED <<busVars, txCount>>
  /\ idx' = idx + 1
  /\ UNCHANGED <<pc, slot, attempt, signal, outcome, feedback, rxCount, preview,
                 target, stateSequence, clock, disables>>

\* A write the kernel refuses, in any of the loops; in the active loop also
\* a payload that is not initialized or breaks its envelope or torque cap.
SendFails ==
  /\ idx <= N
  /\ \/ pc \in {"prep_send", "verify_send", "active_send"} /\ due(idx, slot)
     \/ pc \in {"enable", "disable"}
  /\ Throw
  /\ UNCHANGED <<signal, feedback, counts, preview, target, stateSequence,
                 clock, disables, busVars>>

\* The last motor is served: on to the answers.
StartDrain ==
  /\ pc \in {"prep_send", "active_send", "verify_send"}
  /\ idx = N + 1
  /\ pc' = CASE pc = "prep_send" -> "prep_drain"
             [] pc = "active_send" -> "active_drain"
             [] pc = "verify_send" -> "verify_drain"
  /\ idx' = 1
  /\ UNCHANGED <<slot, attempt, signal, outcome, feedback, counts, preview,
                 target, stateSequence, clock, disables, busVars>>

--------------------------------------------------------------------------------
(* Preparation.                                                            *)

PrepSlot ==
  /\ pc = "prep"
  /\ IF signal \/ slot = PreparationSlots
     THEN Throw
     ELSE Goto("prep_send", slot) /\ UNCHANGED outcome
  /\ UNCHANGED <<signal, feedback, counts, preview, target, stateSequence,
                 clock, disables, busVars>>

\* drain_target_packets refuses a packet or the client is gone, or the state
\* packet, already numbered, cannot be sent.
PrepFails ==
  /\ pc = "prep_drain"
  /\ \/ UNCHANGED stateSequence
     \/ StateDue /\ stateSequence' = stateSequence + 1
  /\ Throw
  /\ UNCHANGED <<signal, feedback, counts, preview, target, clock, disables,
                 busVars>>

\* No target yet: publish the state if it is due, and the next slot.
PrepContinue ==
  /\ pc = "prep_drain"
  /\ DrainTargets(1)
  /\ ~(hasTarget' /\ allSeen)
  /\ stateSequence' = stateSequence + (IF StateDue THEN 1 ELSE 0)
  /\ Goto("prep", slot + 1)
  /\ UNCHANGED <<signal, outcome, feedback, counts, preview, clock, disables,
                 busVars>>

(***************************************************************************)
(* A target and every motor's feedback are there: the target must be a     *)
(* zero-gain copy of the measured pose.  If so, the motors' run state is   *)
(* reset and the enable loop starts.                                       *)
(***************************************************************************)
Prepared ==
  /\ pc = "prep_drain"
  /\ DrainTargets(1)
  /\ hasTarget' /\ allSeen
  /\ stateSequence' = stateSequence + (IF StateDue THEN 1 ELSE 0)
  /\ \/ /\ Throw
        /\ UNCHANGED <<feedback, counts, preview>>
     \/ /\ Goto("enable", 0)
        /\ seen' = Each(FALSE)
        /\ lastStatus' = Each("off")
        /\ finalDisabled' = Each(FALSE)
        /\ previewReady' = Each(FALSE)
        /\ previewCount' = 0
        /\ txCount' = Each(0) /\ rxCount' = Each(0)
        /\ UNCHANGED <<outcome, previewAge>>
  /\ UNCHANGED <<signal, clock, disables, busVars>>

--------------------------------------------------------------------------------
(* Enabling: 0xFC to every motor, then the start is 20 ms away.            *)

SendEnable ==
  /\ pc = "enable"
  /\ idx <= N
  /\ Deliver(idx, "enable")
  /\ idx' = idx + 1
  /\ UNCHANGED <<pc, slot, attempt, signal, outcome, feedback, counts, preview,
                 target, stateSequence, clock, disables>>

EnableDone ==
  /\ pc = "enable"
  /\ idx = N + 1
  /\ Goto("active", 0)
  /\ targetAge' = targetAge + StartDelay - 1
  /\ UNCHANGED <<signal, outcome, feedback, counts, preview, hasTarget,
                 stateSequence, clock, disables, busVars>>

--------------------------------------------------------------------------------
(* The active loop.                                                        *)

\* preview_final_motor_commands: ankle motors follow the latest target every
\* time, the others every tenth time; in between their command grows older.
Preview(dt) ==
  LET updated ==
        IF slot % PreviewPeriod # 0 THEN {}
        ELSE IF previewCount % OtherPreviews = 0 THEN Motors ELSE Fast
  IN /\ previewReady' =
          [m \in Motors |-> previewReady[m] \/ m \in updated]
     /\ previewAge' =
          [m \in Motors |-> IF m \in updated THEN targetAge'
                            ELSE previewAge[m] + dt]
     /\ previewCount' =
          IF slot % PreviewPeriod = 0 THEN previewCount + 1 ELSE previewCount

\* Wake up for the slot, late slots late.  The clock never runs back, so dt,
\* the slots since the last wake-up, is at least 0.
WakeUp(late) ==
  /\ late >= lag - 1
  /\ lag' = late
  /\ missed' = (missed \/ (slot % PreviewPeriod = 0 /\ late >= LateLimit))

\* Mutant: the watchdog only asks for a target, not for its age.
WatchdogWithoutAge == ~hasTarget'

WatchdogExpired == ~hasTarget' \/ targetAge' > TargetTimeout

(***************************************************************************)
(* The slot up to its frames: wake up, drain the targets, throw if the     *)
(* newest one is older than the watchdog allows, else preview.             *)
(***************************************************************************)
ActiveSlot ==
  /\ pc = "active" /\ slot < ActiveSlots /\ ~signal
  /\ \E late \in 0..MaxLag :
       LET dt == 1 + late - lag
       IN /\ WakeUp(late)
          /\ DrainTargets(dt)
          /\ IF WatchdogExpired
             THEN Throw /\ UNCHANGED preview
             ELSE Goto("active_send", slot) /\ UNCHANGED outcome /\ Preview(dt)
  /\ UNCHANGED <<signal, feedback, counts, stateSequence, disables, busVars>>

\* A packet is refused, the client is gone, or the preview breaks an
\* invariant of the final motor command.
ActiveSlotFails ==
  /\ pc = "active" /\ slot < ActiveSlots /\ ~signal
  /\ Throw
  /\ UNCHANGED <<signal, feedback, counts, preview, target, stateSequence,
                 clock, disables, busVars>>

\* Leave the loop, or throw if a signal asked for it.
ActiveEnd ==
  /\ pc = "active"
  /\ IF slot = ActiveSlots
     THEN Goto("settle", 0) /\ UNCHANGED outcome
     ELSE signal /\ Throw
  /\ UNCHANGED <<signal, feedback, counts, preview, target, stateSequence,
                 clock, disables, busVars>>

\* Mutant: any answer since the reset counts as an enabled drive.
NotSeen(m) == ~seen[m]

NotEnabled(m) == lastStatus[m] # "on"

(***************************************************************************)
(* The end of the slot: slot EnableSlots demands that every motor's last   *)
(* status is enabled; then the state is published if it is due.            *)
(***************************************************************************)
ActiveContinue ==
  /\ pc = "active_drain"
  /\ IF slot = EnableSlots /\ \E m \in Motors : NotEnabled(m)
     THEN Throw /\ UNCHANGED stateSequence
     ELSE /\ Goto("active", slot + 1)
          /\ stateSequence' = stateSequence + (IF StateDue THEN 1 ELSE 0)
          /\ UNCHANGED outcome
  /\ UNCHANGED <<signal, feedback, counts, preview, target, clock, disables,
                 busVars>>

PublishFails ==
  /\ pc = "active_drain"
  /\ StateDue
  /\ ~(slot = EnableSlots /\ \E m \in Motors : NotEnabled(m))
  /\ stateSequence' = stateSequence + 1
  /\ Throw
  /\ UNCHANGED <<signal, feedback, counts, preview, target, clock, disables,
                 busVars>>

\* At least 95% of the commands of every motor must have been answered.
Covered(m) == txCount[m] > 0 /\ 20 * rxCount[m] >= 19 * txCount[m]

\* After the loop: the last answers, coverage and the deadline gate.
Settle ==
  /\ pc = "settle"
  /\ IF missed \/ \E m \in Motors : ~Covered(m)
     THEN Throw
     ELSE Goto("disable", 0) /\ UNCHANGED outcome
  /\ UNCHANGED <<signal, feedback, counts, preview, target, stateSequence,
                 clock, disables, busVars>>

--------------------------------------------------------------------------------
(* The shutdown block: three passes of 0xFD, then the verify loop.  Its    *)
(* one try block ends at the first refused write (SendFails).              *)

SendDisable ==
  /\ pc = "disable"
  /\ idx <= N
  /\ Deliver(idx, "disable")
  /\ disables' = [disables EXCEPT ![idx] = @ + 1]
  /\ idx' = idx + 1
  /\ UNCHANGED <<pc, slot, attempt, signal, outcome, feedback, counts, preview,
                 target, stateSequence, clock>>

\* Mutants: one pass too few, one too many.
LastPassEarly == attempt + 1 >= DisableAttempts
LastPassLate == attempt > DisableAttempts

LastPass == attempt = DisableAttempts

NextPass ==
  /\ pc = "disable"
  /\ idx = N + 1
  /\ ~LastPass
  /\ attempt' = attempt + 1
  /\ idx' = 1
  /\ UNCHANGED <<pc, slot, signal, outcome, feedback, counts, preview, target,
                 stateSequence, clock, disables, busVars>>

\* Mutant: the statuses seen before the disable frames are kept.
StartVerifyWithoutReset ==
  /\ pc = "disable"
  /\ idx = N + 1
  /\ LastPass
  /\ Goto("verify_send", 0)
  /\ UNCHANGED <<signal, outcome, feedback, counts, preview, target,
                 stateSequence, clock, disables, busVars>>

StartVerify ==
  /\ pc = "disable"
  /\ idx = N + 1
  /\ LastPass
  /\ Goto("verify_send", 0)
  /\ seen' = Each(FALSE)
  /\ finalDisabled' = Each(FALSE)
  /\ UNCHANGED <<signal, outcome, lastStatus, counts, preview, target,
                 stateSequence, clock, disables, busVars>>

\* Mutant: the verify loop starts over until every drive reports disabled.
VerifyUntilDisabled ==
  /\ pc = "verify_drain"
  /\ IF slot + 1 < VerifySlots
     THEN Goto("verify_send", slot + 1)
     ELSE IF \A m \in Motors : finalDisabled[m]
          THEN Goto("verify_settle", 0)
          ELSE Goto("verify_send", 0)
  /\ UNCHANGED <<signal, outcome, feedback, counts, preview, target,
                 stateSequence, clock, disables, busVars>>

VerifyContinue ==
  /\ pc = "verify_drain"
  /\ IF slot + 1 < VerifySlots
     THEN Goto("verify_send", slot + 1)
     ELSE Goto("verify_settle", 0)
  /\ UNCHANGED <<signal, outcome, feedback, counts, preview, target,
                 stateSequence, clock, disables, busVars>>

VerifyDone ==
  /\ pc = "verify_settle"
  /\ IF \A m \in Motors : finalDisabled[m]
     THEN Goto("report", 0) /\ UNCHANGED outcome
     ELSE Throw
  /\ UNCHANGED <<signal, feedback, counts, preview, target, stateSequence,
                 clock, disables, busVars>>

\* passed = failure.empty(); opening the report file may throw too.
Report ==
  /\ pc = "report"
  /\ verdict' \in {IF failed THEN "not_passed" ELSE "passed", "not_passed"}
  /\ Goto("over", 0)
  /\ UNCHANGED <<signal, failed, feedback, counts, preview, target,
                 stateSequence, clock, disables, busVars>>

--------------------------------------------------------------------------------
(* The outside.                                                            *)

\* SIGINT or SIGTERM: request_shutdown sets the flag, nothing clears it.
Signal ==
  /\ ~signal
  /\ signal' = TRUE
  /\ UNCHANGED <<control, outcome, feedback, counts, preview, target,
                 stateSequence, clock, disables, busVars>>

DriveTrips(m) ==
  /\ Trip(m)
  /\ UNCHANGED <<control, signal, outcome, feedback, counts, preview, target,
                 stateSequence, clock, disables>>

--------------------------------------------------------------------------------
Drain ==
  \E m \in Motors :
    AcceptAnswer(m) \/ RefuseAnswer(m) \/ GarbledAnswer(m) \/ GuardTripped(m)

Write == SendPoll \/ SendEnable \/ SendCommand \/ SendDisable \/ SendFails

Preparation == PrepSlot \/ PrepFails \/ PrepContinue \/ Prepared

Active ==
  \/ EnableDone \/ ActiveSlot \/ ActiveSlotFails \/ ActiveEnd
  \/ ActiveContinue \/ PublishFails \/ Settle

Shutdown == NextPass \/ StartVerify \/ VerifyContinue \/ VerifyDone \/ Report

Controller == Drain \/ Write \/ StartDrain \/ Preparation \/ Active \/ Shutdown

Environment == Signal \/ \E m \in Motors : DriveTrips(m)

Next == Controller \/ Environment

Spec == Init /\ [][Next]_vars

\* The kernel keeps scheduling the controller thread; nothing else is owed.
FairSpec == Spec /\ WF_vars(Controller)

--------------------------------------------------------------------------------
(* Properties.                                                             *)

\* Every variable has its type.
TypeOK == BusTypeOK /\ ControlTypeOK /\ MemoryTypeOK

RunPhase ==
  CASE pc \in Preparing -> "waiting"
    [] pc \in Powered -> "armed"
    [] pc \in Stopping -> "stopping"
    [] OTHER -> "over"

(***************************************************************************)
(* The run is fail-closed (FailClosedRun): 0xFC is only sent when every    *)
(* drive is really not enabled, no drive is enabled once the shutdown      *)
(* block is entered, and "passed" is only reported when no drive is        *)
(* enabled, although the controller sees the drives only through answers   *)
(* that are lost, garbled, or read after the drive has moved on.           *)
(***************************************************************************)
FailClosed ==
  INSTANCE FailClosedRun WITH
    Drives <- Motors, enabled <- EnabledDrives, phase <- RunPhase

ImplementsFailClosedRun == FailClosed!Spec

(***************************************************************************)
(* Past the check of slot EnableSlots no drive of a continuing run is      *)
(* disabled: a lost 0xFC, or an enabled drive whose answers were all       *)
(* lost, cannot go on unnoticed while the policy drives the others.        *)
(***************************************************************************)
PastEnableCheck ==
  \/ pc = "settle"
  \/ pc \in {"active", "active_send", "active_drain"} /\ slot > EnableSlots

VerifiedEnabled == PastEnableCheck => \A m \in Motors : drive[m] # "off"

(***************************************************************************)
(* A command written to a drive is always computed, and the target it was  *)
(* computed from is at most the watchdog's 100 ms plus one update period   *)
(* of the 50 Hz motors old (plus the present wake-up lateness): the        *)
(* watchdog looks at the newest target, not at the one behind a command.   *)
(***************************************************************************)
CommandsFollowTargets ==
  pc = "active_send" =>
    \A m \in Motors :
      /\ previewReady[m]
      /\ previewAge[m] <= TargetTimeout + PreviewPeriod * OtherPreviews - 1 + lag

(***************************************************************************)
(* The passes of 0xFD outlast as many losses as there are passes but one:  *)
(* when verification starts after fewer losses, no drive is still enabled. *)
(***************************************************************************)
PassesOutlastLosses ==
  pc \in {"verify_send", "verify_drain", "verify_settle"} /\ lost < DisableAttempts
    => \A m \in Motors : drive[m] # "on"

\* The controller always reaches its report, whatever fails on the way.
Termination == <>(pc = "over")

--------------------------------------------------------------------------------
(* Why they hold: what the answers tell of the drives.                     *)

\* Before 0xFC, a drive whose "off" was sent is not enabled.
SeenIsOff ==
  pc \in Preparing =>
    \A m \in Motors : drive[m] = "on" => ~seen[m] /\ ~Waiting(m, "off")

\* Before 0xFD, no answer "off" is younger than an answer "on".
OnStaysOn ==
  pc \in Preparing \union Powered =>
    \A m \in Motors :
      /\ lastStatus[m] = "on" => drive[m] # "off" /\ ~Waiting(m, "off")
      /\ \A i \in 1..Len(rx[m]) : rx[m][i] = "on" =>
           drive[m] # "off" /\ \A j \in i..Len(rx[m]) : rx[m][j] # "off"

\* Past the enable check the last answer read of every drive is "on".
CheckedIsOn ==
  PastEnableCheck => \A m \in Motors : lastStatus[m] = "on"

\* In the shutdown of a run without failure no old "off" is left over.
OffIsOff ==
  pc \in Stopping /\ ~failed =>
    \A m \in Motors : drive[m] = "on" =>
      ~Waiting(m, "off") /\ (pc # "disable" => ~finalDisabled[m])

ReportedOff ==
  pc = "report" /\ ~failed => \A m \in Motors : finalDisabled[m]

\* The loop over passes and motors counts one frame per pass and motor.
DisablesInLoop ==
  /\ pc \in Preparing \union Powered =>
       attempt = 1 /\ \A m \in Motors : disables[m] = 0
  /\ pc = "disable" =>
       \A m \in Motors : disables[m] = attempt - (IF m < idx THEN 0 ELSE 1)
  /\ pc \in {"verify_send", "verify_drain", "verify_settle"} =>
       \A m \in Motors : disables[m] = DisableAttempts

\* A drive that is still enabled lost every disable frame written to it.
StillOnLostAll ==
  pc \in Stopping => \A m \in Motors : drive[m] = "on" => lost >= disables[m]

(***************************************************************************)
(* The invariant behind the safety properties: what the controller knows   *)
(* (seen, lastStatus, finalDisabled), what is still unread (rx), and what  *)
(* the drives are fit together in every phase.                             *)
(***************************************************************************)
AnswersAreTrue ==
  /\ SeenIsOff /\ OnStaysOn /\ CheckedIsOn
  /\ OffIsOff /\ ReportedOff /\ DisablesInLoop /\ StillOnLostAll

Playing == {"active", "active_send", "active_drain"}

\* The slots of the active loop whose previews are done.
SlotsPlayed == IF pc = "active" THEN slot ELSE slot + 1

\* There was one preview in every period of the slots played.
PreviewsInStep ==
  /\ pc = "enable" => previewCount = 0
  /\ pc \in Playing =>
       /\ SlotsPlayed <= PreviewPeriod * previewCount
       /\ SlotsPlayed > PreviewPeriod * (previewCount - 1)

\* Since the last preview of every motor, the full-th of its kind, a target
\* that passed the watchdog then has grown older by one per slot, and by what
\* the wake-up got later.
PreviewsFromTargets ==
  pc \in Playing /\ previewCount > 0 =>
    \E full \in 0..previewCount :
      /\ OtherPreviews * full < previewCount
      /\ previewCount <= OtherPreviews * (full + 1)
      /\ \A m \in Motors :
           /\ previewReady[m]
           /\ previewAge[m] - lag + PreviewPeriod * (OtherPreviews * full)
                <= TargetTimeout + SlotsPlayed - 1

\* The invariant behind CommandsFollowTargets.
PreviewsAreRecent == PreviewsInStep /\ PreviewsFromTargets

(***************************************************************************)
(* "performs a three-pass whole-body disable plus disabled-feedback        *)
(* verification on every exit path" (docs/SIM2REAL_PLAN.md:258-260).  It   *)
(* does not: the first 0xFD write that is refused ends the one try block,  *)
(* and the motors after it never get a disable frame.                      *)
(***************************************************************************)
ThreePassesOnEveryExit ==
  pc = "over" => \A m \in Motors : disables[m] = DisableAttempts

==============================================================================
