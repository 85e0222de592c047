-------------------------- MODULE SafetySupervisor --------------------------
(***************************************************************************)
(* The runtime gate of safety.py with its two drivers in the repository,   *)
(* the deterministic self test of cli.py and the multi-rate replay of      *)
(* shadow.py, and with a driver that feeds it anything: the loop the gate  *)
(* is written for, whose faults come and go between evaluations and whose  *)
(* operator clears them at any time.                                       *)
(*                                                                         *)
(* Motor telemetry is one sample per motor against the torque-speed line   *)
(* of its nameplate (telemetry.py).  A tick is a period of 2 ms.           *)
(***************************************************************************)
EXTENDS Integers
LOCAL INSTANCE FiniteSetsExt

CONSTANTS
  BankMotors,     \* the physical motors
  MaxStateAge,    \* maximum_state_age_ms, in ticks (3)
  MaxCommandAge,  \* maximum_command_age_ms, in ticks (50)
  Substeps,       \* state ticks per policy tick (10)
  Peak,           \* peak_torque_nm
  RatedSpeed,     \* rated_speed_rad_s
  RatedTorque,    \* rated_torque_nm
  MaxSpeed,       \* max_speed_rad_s
  Samples         \* the finite telemetry a motor may send

Latching == {"estop_unhealthy", "state_stale", "policy_overrun", "motor_limit", "command_limit"}
\* The flags of SafetyInputs; "unconfigured" stands for the six that do not
\* latch: allow_hardware_tx, hardware_configured, the calibrations, imu_valid.
Flags == {"unconfigured", "estop_unhealthy", "command_limit"}

VARIABLES
  driver,      \* "replay", "self_test" or "loop"
  mode,        \* RuntimeMode
  stateAge,    \* age of the state, at most MaxStateAge + 1; -1 if ahead
  commandAge,  \* age of the command, at most MaxCommandAge + 1; -1 if ahead
  overrun,     \* the last inference exceeded its limit
  unhealthy,   \* the flags that are not healthy
  bank,        \* telemetry of each motor
  latched,     \* _latched_faults
  permitted,   \* hardware_tx_permitted of the last decision
  substep,     \* tick of the replay within its policy tick
  uncleared    \* history: faults evaluated and not cleared since

supervisorVars ==
  <<driver, mode, stateAge, commandAge, overrun, unhealthy, bank, latched, permitted, substep, uncleared>>

Sample(kind, speed, torque) == [kind |-> kind, speed |-> speed, torque |-> torque]
Rest == Sample("finite", 0, 0)
BadSamples == {Sample("missing", 0, 0), Sample("nonfinite", 0, 0)}

SupervisorInit ==
  /\ driver \in {"replay", "self_test", "loop"}
  /\ mode \in {"dry_run", "shadow", "armed"} /\ (driver # "loop" => mode = "shadow")
  /\ stateAge = 0 /\ commandAge = 0 /\ overrun = FALSE /\ substep = 0
  /\ unhealthy = IF driver = "self_test" THEN {"unconfigured"} ELSE {}
  /\ bank = [m \in BankMotors |-> Rest]
  /\ latched = {} /\ uncleared = {}
  /\ permitted = FALSE

(***************************************************************************)
(* Telemetry.                                                              *)
(***************************************************************************)

\* torque_limit_at_speed on the line from Peak at rest over the rated point
\* to no torque at MaxSpeed, scaled by RatedSpeed * (MaxSpeed - RatedSpeed).
Scale == RatedSpeed * (MaxSpeed - RatedSpeed)
TorqueLimit(speed) ==
  IF speed > MaxSpeed THEN 0
  ELSE IF speed <= RatedSpeed
       THEN (Peak * RatedSpeed - (Peak - RatedTorque) * speed) * (MaxSpeed - RatedSpeed)
       ELSE RatedTorque * (MaxSpeed - speed) * RatedSpeed

\* evaluate_motor_telemetry: no margin is negative.
SampleHealthy(s) ==
  /\ s.kind = "finite"
  /\ s.speed <= MaxSpeed
  /\ s.torque <= Peak
  /\ s.torque * Scale <= TorqueLimit(s.speed)

\* evaluate_motor_bank: every expected motor is there and healthy.
BankHealthy == \A m \in BankMotors : SampleHealthy(bank[m])

(***************************************************************************)
(* The supervisor.                                                         *)
(***************************************************************************)

\* The checks of one evaluation that fail.
Dynamic ==
  unhealthy
    \union (IF BankHealthy THEN {} ELSE {"motor_limit"})
    \union (IF stateAge <= MaxStateAge THEN {} ELSE {"state_stale"})
    \union (IF commandAge <= MaxCommandAge THEN {} ELSE {"command_stale"})
    \union (IF overrun THEN {"policy_overrun"} ELSE {})

\* What one evaluation latches.
Latches(faults) == faults \intersect Latching

\* SafetySupervisor.evaluate; a time stamp of the future raises.
Evaluate ==
  LET now == latched \union Latches(Dynamic)
      blockers == Dynamic \union now \union (IF mode = "armed" THEN {} ELSE {"mode"})
  IN IF stateAge < 0 \/ commandAge < 0 THEN UNCHANGED <<latched, permitted, uncleared>>
     ELSE /\ latched' = now
          /\ permitted' = (blockers = {})
          /\ uncleared' = uncleared \union (Dynamic \intersect Latching)

\* Mutant: clear_latched_faults clears all that is latched.
ClearAll(faults) ==
  /\ latched' = {}
  /\ uncleared' = uncleared \ faults
  /\ UNCHANGED <<driver, mode, stateAge, commandAge, overrun, unhealthy, bank, permitted, substep>>

\* clear_latched_faults: what the caller names, healthy or not.
Clear(faults) ==
  /\ latched' = latched \ (faults \intersect Latching)
  /\ uncleared' = uncleared \ faults
  /\ UNCHANGED <<driver, mode, stateAge, commandAge, overrun, unhealthy, bank, permitted, substep>>

(***************************************************************************)
(* Its drivers.                                                            *)
(***************************************************************************)

\* A state tick of the replay: the state is of this tick, the command and
\* the time of the inference are those of its policy tick.
ReplayTick ==
  /\ driver = "replay"
  /\ Evaluate
  /\ substep' = (substep + 1) % Substeps
  /\ commandAge' = IF substep' = 0 THEN 0 ELSE commandAge + 1
  /\ IF substep' = 0 THEN overrun' \in BOOLEAN ELSE UNCHANGED overrun
  /\ UNCHANGED <<driver, mode, stateAge, unhealthy, bank>>

\* One case of the self test, on a fresh supervisor but for the latch cases.
SelfTestCase ==
  /\ driver = "self_test"
  /\ \/ Evaluate /\ UNCHANGED <<stateAge, commandAge, overrun, unhealthy, bank>>
     \/ /\ latched' = {} /\ uncleared' = {} /\ UNCHANGED permitted
        /\ \/ stateAge' = MaxStateAge + 1 /\ UNCHANGED <<commandAge, overrun, unhealthy, bank>>
           \/ commandAge' = MaxCommandAge + 1 /\ UNCHANGED <<stateAge, overrun, unhealthy, bank>>
           \/ overrun' = TRUE /\ UNCHANGED <<stateAge, commandAge, unhealthy, bank>>
           \/ /\ \E f \in {"estop_unhealthy", "command_limit"} : unhealthy' = unhealthy \union {f}
              /\ UNCHANGED <<stateAge, commandAge, overrun, bank>>
     \/ /\ stateAge' = 0 /\ commandAge' = 0 /\ overrun' = FALSE
        /\ unhealthy' = {"unconfigured"}
        /\ UNCHANGED <<bank, latched, permitted, uncleared>>
  /\ UNCHANGED <<driver, mode, substep>>

SelfTestClears == driver = "self_test" /\ Clear({"state_stale"})

\* The loop evaluates, and time, its inputs and the operator go on.
LoopEvaluates ==
  /\ driver = "loop" /\ Evaluate
  /\ UNCHANGED <<driver, mode, stateAge, commandAge, overrun, unhealthy, bank, substep>>

LoopTick ==
  /\ driver = "loop"
  /\ stateAge' = Min({stateAge + 1, MaxStateAge + 1})
  /\ commandAge' = Min({commandAge + 1, MaxCommandAge + 1})
  /\ UNCHANGED <<driver, mode, overrun, unhealthy, bank, latched, permitted, substep, uncleared>>

StateArrives ==
  /\ driver = "loop"
  /\ stateAge' \in {-1, 0}
  /\ \E m \in BankMotors, s \in Samples \union BadSamples : bank' = [bank EXCEPT ![m] = s]
  /\ UNCHANGED <<driver, mode, commandAge, overrun, unhealthy, latched, permitted, substep, uncleared>>

CommandArrives ==
  /\ driver = "loop"
  /\ commandAge' \in {-1, 0} /\ overrun' \in BOOLEAN
  /\ UNCHANGED <<driver, mode, stateAge, unhealthy, bank, latched, permitted, substep, uncleared>>

FlagTurns ==
  /\ driver = "loop"
  /\ \E f \in Flags : unhealthy' = IF f \in unhealthy THEN unhealthy \ {f} ELSE unhealthy \union {f}
  /\ UNCHANGED <<driver, mode, stateAge, commandAge, overrun, bank, latched, permitted, substep, uncleared>>

OperatorClears == driver = "loop" /\ \E f \in Latching : Clear({f})

SupervisorNext ==
  \/ ReplayTick \/ SelfTestCase \/ SelfTestClears
  \/ LoopEvaluates \/ LoopTick \/ StateArrives \/ CommandArrives \/ FlagTurns \/ OperatorClears

\* Transmission is permitted only when each latching fault that an evaluation
\* found has been cleared by name since the last one that found it, whatever
\* was cleared while it lasted (SafetySupervisor.evaluate,
\* clear_latched_faults).  A fault that comes and goes between two
\* evaluations is seen by none, and holds nothing.
FaultsHoldTransmission == permitted => uncleared = {}
=============================================================================
