# A TLA+ model of open_sprite_runtime

This directory models the control software of a 31-motor humanoid: a native
2 kHz CAN-FD controller, the policy process that feeds it targets, the IMU
behind that process, the Python controllers used to commission joints, and the
tools that measure, configure and supervise all of it. The question it turns on
is whether a run is *fail-closed*: no drive is enabled before every drive is
known to be disabled, and no run is reported as passed while a drive is still
enabled, although the controller knows the drives only through answers that are
late, lost or left over.

Paths below are relative to the repository's root (`native/src/...`,
`src/open_sprite_runtime/...`).

## 1. The system

| Component | State it keeps | Operations | Talks to |
|---|---|---|---|
| Protected-policy controller, `run_native_protected_policy` (`sprite_can_shadow.cpp:1551`) | slot, per-motor records (`seen`, `last_status_code`, `final_disabled`, counts, previewed command), newest target and its stamp, failure text, shutdown flag | prepare, enable, active loop, settle, three disable passes, verify, report | drives over 4 CAN-FD buses; policy client over a seqpacket socket; SIGINT/SIGTERM |
| Drives and buses (external) | status of each drive, frames in flight, receive queues | obey 0xFC, 0xFD, MIT frames; answer each frame once | every controller |
| Measured-pose hold (`sprite_can_shadow.cpp:1319`) | as above without a client | capture, enable, hold, disable, verify | drives; no signal handlers |
| Zero-gain shadow loop (`sprite_can_shadow.cpp:1975`) | counts, target watchdogs | poll, preview, never enables | drives, client |
| Policy IPC (`policy_state_ipc.hpp`, `sprite_can_shadow.cpp:731-807`) | state and target sequences, last source state, latched fault | publish a state, answer it with a target, close at the end | controller and actor |
| Native actor (`sprite_policy_replay.cpp`, `policy_core.hpp`, `policy_protection.hpp`, `policy_command_schedule.hpp`) | history, startup ramp, command stage | receive, infer, project, ramp, send | IPC, IMU client |
| IMU client (`policy_imu_client.hpp`) | newest sample, latched error | request every 5 ms, snapshot | IMU producer; actor thread |
| IMU producers (`sprite_imu_bno.cpp`, `native/icm45686`) | newest sample, sequence | sample, answer requests | sensor |
| Python policy client (`native_policy_client.py`, `native_ipc.py`, `imu_receive.py`, ...) | as actor and IMU client in one thread | the same loop | controller, serial IMU |
| Group hold (`motor_group_hold.py`), single-joint hold, ankle pair | measured pose, newest feedback, errors | ask, prepare, enable, cycle, disable, verify | drives through a `socketcan.py` writer |
| Safety supervisor, multi-rate loop (`safety.py`, `multirate_control.py`) | latched faults | evaluate, clear | the loop that calls it |
| Probes and audits (`socketcan.py`, `full_body_probe.py`, `policy_shadow.py`, `tools/capture_active_can_trace.py`) | poll schedule, counts, last answers, the policy shadow | poll, drain, check, report; never enable | drives or a foreign controller's traffic |
| Register tools (`damiao_registers.py`, `cli.py`) | values read, motors verified | ask, retry, install in the contract; store the zero of the head | drives on one bus |
| Hardware contract and limits (`hardware.py`, `limit_derivation.py`, `motor_mapping.py`, exporters in `tools/`) | the worksheet, the limit report, three exported files | fill in, calibrate, derive, apply, validate, export, load | both runtimes |
| Codec, telemetry, system identification, scripts | none or files | | |

Behaviours that are hard, by component:

* **Controller.** One loop serves 31 motors whose answers arrive between any
  two steps; the same motor records serve preparation, active loop and
  verification; a status read in one phase may have been sent in an earlier
  one. Every guard is an exception whose handler is the shutdown block, and the
  shutdown block has guards of its own. Signals are looked at in two places
  only. The enable frame is written once, and checked 100 ms later. The target
  watchdog measures the newest target, while the command of a 50 Hz motor was
  computed from an older one. *Correct means:* fail-closed, enabled where the
  run goes on, commands bounded in age, and always a report.
* **Policy IPC.** Two sequences that must not drift apart by more than five,
  freshness on both sides, and a completion handshake in which the controller
  may close with the actor's last target unread. *Correct means:* a run that
  goes well ends well on both sides, and a client that stops is noticed.
* **IMU client.** The sample is replaced by another thread between the moment
  it is taken and the moment the target computed from it is sent. *Correct
  means:* no target from a sample older than 30 ms; an error of the worker is
  never missed.
* **Python controllers.** Answers are read one per command; the disable block
  runs in a `finally` and catches per motor, but its sleeps are outside the
  `try`. *Correct means:* the same fail-closed promise.
* **Python policy client.** One thread serves the IMU and the controller.
  Serial bytes wait in the port while a target is computed and are stamped when
  they are read; the startup ramp counts targets while the command profile runs
  on the controller's clock. *Correct means:* no target from an old sample, none
  that walks before the ramp is over, and a robot told to stand before it is
  disabled.
* **Safety supervisor.** Faults latch; clearing trusts the caller. *Correct
  means:* nothing is permitted while a cause or a latch persists.
* **Probes.** A probe shares the bus with its own backlog: what came due while
  the process slept, and answers that wait behind older ones. *Correct means:*
  no burst on the bus, and no pass on a drive that died.
* **Register tools.** A late answer meets the next request. *Correct means:*
  each value is filed under the motor and register it came from.
* **Hardware contract.** Many tools write one worksheet and four files in an
  order nobody enforces; signs, ratios and matrices are applied in one place
  and undone in another. *Correct means:* the loaded limits let exactly the
  legal poses through, and the joints feel the impedance that was asked for.

`PROJECT.json` lists every component with its status and every hazard with its
line and the properties that cover it.

## 2. Modules

| Module | What it is |
|---|---|
| `CanDrives` | Drives and buses, the environment of every controller |
| `FailClosedRun` | Abstract specification: what a powered run promises |
| `ProtectedPolicy` | The controller of `run_native_protected_policy`, with drives, any policy client, and signals |
| `MCProtectedPolicy` | Polling phases for TLC |
| `ProtectedPolicyProofs` | Theorems about `ProtectedPolicy` and their proofs |
| `CanDrivesProofs` | Lemmas about a write and a read, used by every proof about a powered run |
| `MeasuredPoseHold`, `MCMeasuredPoseHold` | `run_native_measured_pose_hold`, and its polling phases for TLC |
| `MeasuredPoseHoldProofs` | Theorems about `MeasuredPoseHold` |
| `PolicyIpc` | The policy channel of a powered run: IPC side of the controller, and the native actor |
| `PolicyIpcProofs` | Theorems about `PolicyIpc` |
| `GroupHold` | `_run_fixed_group_low_gain_hold` of `motor_group_hold.py` |
| `PairGate` | The three gates of `ankle_pair_commissioning.py`, built on `GroupHold` |
| `GroupHoldProofs` | Theorems about `GroupHold`, and that `PairGate` implements it |
| `SingleJointHold` | Hold and motion of `single_joint_hold.py` |
| `SingleJointHoldProofs` | Theorems about `SingleJointHold` |
| `ImuSources` | Where the Python client's IMU samples come from: serial stream and bounded drain, worker threads |
| `PolicyClient`, `MCPolicyClient` | `native_policy_client.py` on top of `ImuSources`; schedule and horizons for TLC |
| `PolicyClientProofs` | A theorem about `PolicyClient` |
| `Probes` | The zero-gain probes, the live policy shadow, the audit and the capture |
| `DriveCommissioning` | Register audits, installed ranges, zero of the head |
| `SafetySupervisor` | The runtime gate of `safety.py` and what calls it |
| `HardwareContract` | Worksheet, limits, exports, loaders, motor mapping, multi-rate controller |
| `Bench`, `MCBench` | Composes the four modules above; robots, limits and samples for TLC |
| `BenchProofs` | Theorems about `Bench`, so of the tools in it |

Every controller module of a powered run EXTENDS `CanDrives` and instantiates
`FailClosedRun`. `PolicyIpc` stands beside them: it replaces the "any client" of
`ProtectedPolicy` by the real actor, and the drives by failures at any time.
`PolicyClient` stands where the actor stands, and reduces the controller to what a
client sees of it. The four modules of `Bench` are tools that run with no powered
controller beside them: a behaviour of `Bench` is one tool, named by `bench`, and
the variables of the others keep an idle value.

### CanDrives

A drive is `"off"` (status 0), `"on"` (status 1) or `"trip"` (any fault code).
A frame the kernel accepts is obeyed or lost at the moment it is written; its
answer joins `rx[m]`, in flight or in the socket, and stays there until the
controller reads it. So answers of one drive stay in order (one bus, one
socket), answers of different drives are read in any order, and an answer may
be read arbitrarily late. A lost frame, a lost answer or a garbled one costs one
of `MaxLost`; a full receive queue (`MaxAnswers`) drops the answer. A disabled
drive answers requests and never speaks by itself (docs/HARDWARE_CONTRACT.md:118).

### ProtectedPolicy

The state is the local state of `run_native_protected_policy`: `slot`, `idx`
and `attempt` are its loop variables, `failed` is `!failure.empty()`, `seen`,
`lastStatus` and `finalDisabled` are the fields of each `Motor`, `hasTarget`,
`targetAge`, `stateSequence` and `previewCount` those of `IpcSocket`, `lag` the
lateness of the last wake-up. `previewAge[m]` is how long ago the target behind
the present command of `m` was stamped; `disables` counts 0xFD frames written
and is history, nothing reads it. `drive`, `rx` and `lost` belong to
`CanDrives`.

One action is one stretch of the code in which nothing outside can be seen to
move: a slot up to its first frame, one frame written, one answer read, the
rest of the slot. Between them drives may trip, and a signal may come.

| Actions | Code |
|---|---|
| `PrepSlot`, `SendPoll`, `StartDrain`, `PrepContinue`, `Prepared`, `PrepFails` | preparation, 1583-1653 |
| `SendEnable`, `EnableDone` | 1655-1662 |
| `ActiveSlot`, `ActiveSlotFails`, `SendCommand`, `ActiveContinue`, `PublishFails`, `ActiveEnd` | active loop, 1663-1706 |
| `Settle` | 1707-1720 |
| `SendDisable`, `NextPass`, `StartVerify`, `VerifyContinue`, `VerifyDone` | shutdown block, 1730-1759 |
| `Report` | 1761-1822 |
| `AcceptAnswer`, `RefuseAnswer`, `GarbledAnswer`, `GuardTripped` | `drain_policy_feedback`, 1229-1317 |
| `SendFails` | every `send_payload` the kernel refuses |
| `Signal`, `DriveTrips` | `request_shutdown`, 44; the drive |

`Throw` is a C++ exception: before the shutdown block it leads there, inside the
block it leads to the report.

What is abstracted: positions, velocities, torques, temperatures, the
kinematics, the envelope checks and the encoding of commands are "the check
passes or throws" (`GuardTripped`, `SendFails`, `ActiveSlotFails`, the first
alternative of `Prepared`); the client is any client: in each drain a target
with a legal stamp may come or not, or a refused one ends the run. A guard that
the code evaluates on real numbers may thus trip at any time, which only adds
behaviours.

Time is counted in slots of 0.5 ms. The clock of the active loop is exact up to
`lag`: a wake-up may be late, a late wake-up is followed by one at least as
early as the schedule allows.

### MeasuredPoseHold

The native hold has the skeleton of the protected policy and differs where it
matters: no client; status 1 is demanded of every answer from slot 0 on, and no
slot asks whether all drives are enabled; every refused answer throws, also
while verifying; and `main` (2021-2036) installs signal handlers for the
protected policy only, so SIGINT or SIGTERM ends the process (`Kill`).

`stage` and `step` say where it is: the polling stages `warm`, `hold` and
`verify` go through `send`, `drain` and, after the last slot, `settle`.
`txCount` and `rxCount` are the counts of the coverage gate; as in the code the
answers to 0xFC count among the answers and the 0xFC frames do not count among
the commands.

| Actions | Code |
|---|---|
| `Send`, `SendThrows`, `SlotSent`, `SlotEnds` | a slot: 1357-1366, 1402-1460, 1497-1505 |
| `Accept`, `Refuse` | `drain_hold_feedback`, 1098-1171 |
| `Capture`, `CaptureFails` | 1369-1386 |
| `Enable`, `EnableDone` | 1394-1401 |
| `HoldDone` | coverage and deadline gates, 1462-1476 |
| `Disable`, `NextPass`, `StartVerify`, `VerifyDone` | shutdown block, 1485-1514 |
| `Report`, `Kill` | 1516-1549; death by signal |

### PolicyIpc

Two processes and the seqpacket socket between them, in ticks of one slot. The
controller sleeps to absolute deadlines and runs once in each tick, so its slots
are the clock; the actor runs in between, when it can. A slot is two steps,
`SlotBegins` (drain, watchdog, commands) and the publication, because the actor
can die between them. `slot` is negative in the 20 ms after the enable frames;
`heard` is `all_seen()`. `since` is when the actor began to wait, and (history) when it
failed. `toActor` and `toController` are the packets sent and not
received; who closes with packets unread resets the socket (`Reset`), and the
peer's next call fails before it sees what was sent earlier.

| Actions | Code |
|---|---|
| `SlotBegins`, `Watchdog`, `DrainRefuses`, `DrainDisconnected` | `drain_target_packets` 750-807, watchdog 1679 |
| `PrepareOn`, `Prepared`, `Gap`, `SlotEnds`, `PublishFails`, `LoopEnds` | loops of `run_native_protected_policy`, `send_state_packet` 731 |
| `ControllerFails`, `ShutdownOn`, `Close` | catch, shutdown block, `close_ipc` |
| `Receive`, `ReceiveFails` | `PolicyStateChannel::receive` |
| `Compute`, `ComputeFails`, `Send`, `SendFails` | a frame of `sprite_policy_replay.cpp`, `PolicyStateChannel::send` |
| `AwaitClosed`, `AwaitFails` | `await_controller_close(1000, true)` |
| `ActorFails` | every other throw, and the death of the process |

Three variables are history: `early` (states published in the preparation),
`skipped` (active states left out because a motor was not heard of) and `late`
(some state went unanswered for longer than `Prompt`). Sequence checks other than
the lag are absent from the actions, because `EachStateOnce` shows that no
sequence can fail them.

### GroupHold

The Python group hold writes one frame and waits for one answer. Nobody waits
for the answer to 0xFC, so from the first command on each answer read is the
one before. The `try` block is `Ask` (two preparation rounds), `Enable`,
`CycleStarts`/`Command`, with `Accept`, `Refuse` and `WatchdogExpires` for what
comes back; `Raise` is an exception in it. In the `finally` block `Disable` and
`RefusedDisable` are the passes, with the `except` per motor, and
`VerifyDisable`, `VerifyEcho`, `VerifyAnswer`, `VerifyCaught` one verification
try. Ctrl-C is a `KeyboardInterrupt` anywhere: in the `try` block it is one more
exception (`Interrupt`), in a motor's own `try` it is caught
(`InterruptedDisable`, `VerifyCaught`), before the first of those `try`s, in the
sleep between passes or between two tries it leaves the function (`Escape`). `stops[m]` is history: the turns of
motor `m` in the passes, whether its frame went out or not.

`Skip(m)`: `_receive_endpoint` throws away what other motors of the bus answer.

### PairGate

The gates over a differential pair run the group hold's loops line by line, with
three additions: joint guards between the loops (`JointCheckFails`: the
reconstruction, displacement, torque and response checks), counts per motor of
commands and answers, and a `passed` that demands a minimum of both. The module
EXTENDS `GroupHold`, keeps its actions (`AsGroupHold`) and adds the counts to
`Command`, `Accept` and `Refuse`. `latest[m]` is the code's record of the last
answer that passed the guards, which the joint torque is computed from, by the
number of the frame it answers (-1 preparation, 0 for 0xFC, k for cycle k);
`asked[m]` (history) numbers the unread answers in the same way, and every step
carries it along with the receive queue (`Follow`). `ImplementsGroupHold` is the hold's own `Spec`:
a joint guard maps to `Interrupt`, a report that fails for want of counts to
`Escape`. `MinCount` stands for `floor(0.95 * duration * rate)`.

### SingleJointHold

One motor; its `finally` block is a single loop: disable, echo, read one answer,
at least three times and then until the answer says "disabled" or half a second
is over. `attempts` is `shutdown_attempts`, `disables` the writer's count (which
only grows when the write returned), `caught` is history: some try ended in an
exception. The hold and the motion differ only in targets and margins, so the
module stands for both.

### ImuSources and PolicyClient

A tick is about 15 ms, half the freshness limit. `now` is the clock of both
processes, which share a host. For the serial module the truth is `at`, the
moment a chunk reached the kernel; the program only has `stamp`, the start of
the drain that read it, or of the one that read the first bytes of its frame.
For the worker sources the sample carries the start of its read. `reading`,
`latest` and `workerError` are what the worker shares under its lock; `drain` is
the locals of `_drain_imu`.

| Actions | Code |
|---|---|
| `WorkerReads`, `WorkerPublishes`, `ReadFails`, `PacketRefused` | the threads of `bno055_source.py` and `native_bno_source.py` |
| `ImuReadable`, `ReceiveState`, `Disconnected` | what `select` reports |
| `DrainRead`, `DrainCommits`, `DrainSnapshot`, `DrainFails` | `update_imu`, `_drain_imu`, `drain`, readiness and first freshness check |
| `Infer`, `Project`, `Send`, `SendFails` | the rest of a turn, with its second and third check |
| `Tick` | time, the serial port, and the controller's slot: publish, leave a state out, close, time out, die |

The controller is what a client can tell of it: its duration, the target
timeout, the lag limit. `sent` is history, the newest target: the stage of the
profile it was computed in, gain and blend, and the true age of the older of its
two samples. `afterError` counts targets since the worker's error. The trace row
is appended before the last freshness check and the send, as in the code; no
property depends on it. Time stands still between `select` becoming ready and the
drain of a worker source, because that code only takes a lock.

### Probes

Six commands share two shapes of loop: poll, select, read, check; or select and
read only. `loop` is the locals of that loop, `burst` (history) the polls put on
the bus in the present tick, `since` (history) when each drive took its status.
One bus and its drives; the buses of the full-body probe are polled by the same
loop with a schedule each. A tick is a poll slot of the single and group probe
and the 2 ms state tick of the shadow. `DriveTrips` covers faults and drives that
fall silent, `OddFrame` what else a socket may deliver. The report's statistics
(rates, gaps, ages) may fail it at will, which only removes passes.

| Actions | Code |
|---|---|
| `DamiaoRxAudit`, `DamiaoZeroGainProbe`, ... (`Start`) | admission of the six commands, mostly in `cli.py` |
| `Wakes`, `Poll`, `PollRefused`, `SendsDone` | a wake-up's polls and the dropping of the backlog |
| `SelectReturns`, `Read`, `ImuPacket`, `Check` | a wake-up's frames |
| `ShadowTick` | `LivePolicyShadow.tick`, with its bounded catch-up |
| `LoopEnds`, `Report` | `passed` of each report |

### DriveCommissioning

One register is asked for at a time, `Retries` times. `pending` are requests on
their way to a drive, `received` what the socket holds; a value is the pair of
motor and register it was *really* read from, so filing it elsewhere shows.
`wrong` is a register whose content is no valid number. The zero of the head
goes motor by motor through `Before`, `SetZero`, `After`; an enabled or dead drive,
a lost frame and a refused write end it. A refusal of the second motor ends it
before a report is written, as in the code.

### SafetySupervisor

`Evaluate` and `Clear` are the class; the self test of `cli.py` and the replay of
`shadow.py` are the only callers in the repository. `"loop"` is a third one that
may evaluate, clear and change any input at any time: the powered loop the class
is written for, which the repository does not have yet. `uncleared` is history:
the latching faults some evaluation found and no clear has named since.

### HardwareContract

`sheet` is the worksheet: which blocks are filled in, which calibration and which
limit report (named by the calibration it was derived from) it holds. The
inventory's validation is grouped in those blocks; each `...Valid` stands for the
checks that tell them apart. `derived`, `native` and `runtime` are the limit
report, the three exported files, and what a runtime has loaded; a runtime keeps
what it loaded, and the tools run while none is loaded.

The robot has one joint of each kind the maps treat differently: a direct joint
(`knee`), a pair whose impedance is all host torque (`ankle`), and a pair whose
impedance is split between the drives' gains and the host (`head`). Numbers are
integers: gains and torques of a group carry the factor `Square`, the square of
its ratio or determinant, so nothing is divided. Velocities and damping, which
pass through the same matrices, are left out.

| Actions | Code |
|---|---|
| `HardwareTemplate`, `FillsIn`, `ApplyNameplates`, `Calibrates`, `RangesEntered`, `Configures` | who writes the worksheet |
| `DeriveLimits`, `ApplyLimits` | `limit_derivation.py` |
| `ExportMotors`, `ExportKinematics`, `ExportJoints`, `NativeLoads` | `tools/export_native_*.py`, `load_motors` |
| `PythonLoads`, `LatchTarget`, `ControllerStep`, `RuntimeEnds` | `hardware.py`, `motor_mapping.py`, `multirate_control.py`, `damiao.py` |

### FailClosedRun

Three variables: the set of enabled drives, the phase (waiting, armed,
stopping, over) and the verdict. It may arm only when no drive is enabled,
enables only while armed, enables nothing once it stops, and may say "passed"
only when no drive is enabled. `ProtectedPolicy`, `MeasuredPoseHold`, `GroupHold`
and `SingleJointHold` implement it, each with `enabled <- EnabledDrives` and
`phase <- RunPhase`; `PairGate` does through `GroupHold`. A hold that a signal
kills keeps its phase and never gets a verdict.

## 3. What is checked

| Run | Instance | What it shows |
|---|---|---|
| `two` | 2 motors (one 500 Hz, one 50 Hz), 2 passes, 1 loss, 2 unread answers | the safety properties and the refinement when one motor fails, trips or answers late while the other is elsewhere in the loop |
| `retry` | 1 motor, the 3 passes of the code, 3 losses | all passes lost: verification notices; and termination |
| `timing` | 1 motor at 50 Hz, slots late by up to 2, targets stamped ahead by 1, 9 active slots | the age of a command when it is written |
| `exits` | 2 motors, 3 passes | counterexample to the documented three passes on every exit path |
| `pose` | 2 motors (one fast, one slow), 2 passes, 2 losses, 2 slots per loop | measured-pose hold: one motor late, tripped or failing while the other is elsewhere; a signal anywhere; a lost 0xFC is found by the coverage, lost 0xFDs by the verification; termination, unless killed |
| `channel` | 3 active states of 3 ticks after a preparation of 10, age limits of 3 and 9 ticks, a lag of 1 state, one response tick | the policy channel with an actor of any speed, or one that dies; how a run ends on both sides |
| `pair` | 2 motors, 2 passes, 2 cycles, 2 tries, 1 loss, 2 unread answers | the properties of the group hold, whichever exception ended it; termination |
| `escape` | 2 motors, 3 passes, nothing lost | counterexample to the documented disabling on every exit path |
| `gate` | 2 motors, 2 cycles and `MinCount` 2, 1 loss, 2 unread answers | a gate is a group hold, and the answers of both motors run at most one command behind |
| `joint` | 1 motor, up to 4 tries, 2 losses, 6 unread answers | single-joint hold: what its last try believes is true; termination |
| `client` | 3 IMU sources, 6 active ticks, 1 state left out, garbage and backlog on the serial line | what a target of the Python client rests on and asks for |
| `bench` | the tools, one at a time: 2 motors, 2 registers, 3 calibrations | probes, register tools, supervisor and hardware contract |

Properties of the protected policy:

* `TypeOK`: one type invariant (also of the group hold; the other modules state
  theirs, and spend their runs on what can go wrong).
* `ImplementsFailClosedRun`: the promise above. It is where late answers
  matter: an "off" sent before the enable frame must not pass for proof that the
  drive is disabled afterwards.
* `AnswersAreTrue`: the invariant behind it, in named parts (section 5).
* `VerifiedEnabled`: past the check of slot 200 no drive of a continuing run is
  disabled, though 0xFC is written once and may be lost.
* `CommandsFollowTargets`: a written command has been computed, from a target at
  most 100 ms plus one 20 ms update period (less a slot, plus the lateness of
  the wake-up) old. The 100 ms of the watchdog alone is *not* a bound on what
  drives a 50 Hz motor.
* `PassesOutlastLosses`: fewer losses than passes leave no drive enabled when
  verification starts.
* `Termination`: the controller always reports.

Properties of the other controllers (those of the same name say the same):

* `MeasuredPoseHold!VerifiedEnabled`: a hold that went well up to its end had
  every drive enabled, though nobody asks: a disabled drive answers status 0,
  which throws, or not at all, which the coverage shows. Without the coverage of
  silent motors (mutant `CoveredOfAnswered`) it fails.
* `GroupHold!DisabledIsTrue`: a motor whose final status is "disabled" is
  disabled, in a failed run too, although the verification reads answers in
  order and may be several behind.
* `OneBehind`: the hold loop never falls more than one answer behind.
* `EveryMotorInEveryPass`: a disable frame refused for one motor costs no other
  motor its passes.
* `PairInStep`: nobody waits for the answer to 0xFC, so it is the first one the
  loop of a pair counts, and the answers run one behind until one is lost or
  skipped. They never run further behind, in no motor: both counts are the cycles
  begun, and the joint torque is computed from answers to the last command of each
  motor or to the frame before it. A receive that gave up without an error (mutant
  `WatchdogIgnored`) would let the motors drift apart.
* `PassTakesCycles` (proved only): a gate cut short never passes.
* `TalliesAgree`: the counts of a gate and the records of the hold it refines
  say the same; the proof of `ImplementsGroupHold` rests on it.
* `TriesOutlastStaleReplies`: the comment at `single_joint_hold.py:242`. At most
  two answers are unread when the tries begin, so three tries get past them: a
  motor that obeyed is not reported as enabled. Two tries would not do (mutant
  `TriesEndEarly`).

Properties of the policy channel:

* `EachStateOnce`: the newest target, the packets under way and the state in work
  are consecutive up to the last state published, so no state is skipped or
  answered twice, whatever the two sides' speeds.
* `CommandsFromRecentStates`: the measurement behind a command is at most the sum
  of both limits old (200 ms). The bound is attained: the 100 ms that either side
  speaks of do not bound it, nor does the lag, since both limits may be used up
  one after the other.
* `GoneActorStopsRun`: a run outlives its actor by the slot or the start gap the
  actor went in, whatever the actor left unread or sent, and a controller that
  passes had its actor until the last slot began. All three bounds are attained.
  It rests on the drain of each slot taking *all* targets and so finding the end
  of the stream behind them: with one target per slot (mutant `DrainOne`) the
  controller commands on through what a dead actor left.
* `PromptActorNeverCutOff`: an actor that keeps up never trips a limit, at the
  start neither, as long as the longest gap fits into the two limits of 100 ms:
  the response to the last state of the preparation, the 20 ms behind the enable
  frames, the first period, one for each state left out, and the response to the
  first active state. Both responses count: with one of them only TLC refutes the
  property, and with one tick less than `LongestGap` too, so the bound is sharp.
  In the units of the code it reads 2 r + 20 ms + (1 + skipped) 20 ms <= 100 ms:
  30 ms to respond when every motor is heard of in time, 20 ms with one state left
  out and 10 ms with two. In the run the limits leave room for one state left out.
  An actor that is still owed states when the loop ends may wait for them in vain,
  so the timeout is excluded only while the controller runs.
* `CompletionByCount`: the actor believes in success only after the close and a
  complete schedule. If the controller passed and the actor kept up, it ends well
  exactly when 2001 states were published. More than one state is published in
  the preparation when the first answer takes longer than a period; fewer are
  published when a motor has not been heard of at slot 39. Either way the
  controller passes and the actor ends with a fault ("controller completion
  recv=1", or a timeout), so the launcher, which demands both exits, fails the run.
* `Termination`: the controller closes, whatever the actor does; an actor that
  keeps running then ends.

Properties of the policy client:

* `SamplesAreRecent`: a target of a worker source rests on a sample at most
  `MaxAge` old when it is sent. A serial sample can be almost twice as old: it may
  have waited in the port while the previous target was in work, and its stamp
  is the start of the drain. It does get older than `MaxAge` in the run: the 30 ms
  the code checks do not bound it.
* `WalksAtFullGain`: no target asks for a velocity before the ramp has reached
  full gain and the hand-off is over, although the ramp counts targets, states
  may be left out, and the profile runs on time.
* `StandsAtTheEnd`: a controller that runs to its end disables a robot that has
  been told to stand, however late the profile started against it.
* `LatchedErrorStopsTargets`: after the worker's error at most the target in work
  goes out.

Properties of the tools:

* `NoBacklog`: however late the process, at most one wake-up of polls goes out in
  a tick.
* `PassedProbeIsRecent`: no probe passes on a drive that died or tripped longer
  ago than the timeout and the turns of the loop that read a full receive queue. One
  turn is *not* enough: a frame is fresh when it is read, not when it was sent, and
  the single and the group probe read one frame in a turn, so behind one strange frame
  the last answer of a dead drive keeps it alive for another turn.
* `InstalledRangesAreTrue`: whatever comes late, the contract gets each range
  under the motor and register it was read from.
* `ZeroedHeadIsZero`: a command that passed has stored both zeros.
* `FaultsHoldTransmission`: transmission is permitted only when each latching
  fault that an evaluation found has been cleared by name since. A fault that
  comes and goes between two evaluations is found by none; how often a loop
  evaluates is the caller's affair, and the repository has no powered caller.
* `LegalPosesReachTheDrives`: whichever runtime has loaded, and by whatever
  steps, if its limits were derived from the calibration it maps with, every
  legal pose (the corners are all the code looks at) lies within every motor's
  limits and maps back to itself.
* `FramesCarryTheImpedance`: what the drives do with an encoded frame, through
  the transposed matrices, is the clipped impedance asked of the joints.

`LegalPosesReachTheDrives` has a condition because the code does not establish it:
`derive_limit_candidates` takes any sheet whose matrices are not singular, the
template's placeholders too, `apply_limit_candidates` writes the report it is given
into any sheet, and neither the validator nor a loader compares the two. An
armed runtime with limits of another calibration is a reachable state of run
`bench`; `docs/HARDWARE_CONTRACT.md` speaks of limits mapped "through the
calibrated matrix". Likewise `export_native_motor_config.py` describes its input
as validated and checks only the fields it writes, so a native configuration can
come from a sheet that would not arm.

Every property of every passing run has a mutant in `PROJECT.json`: a plausible
bug, under which TLC finds the property violated in that same run. The mutated
definitions stand next to the ones they replace, marked "Mutant".

### Bounds

* **Motors.** The controller treats motors alike except for their rate; two
  motors, one of each rate, show every interference between one motor's
  failure and another's progress. The proofs hold for any number.
* **Losses and unread answers.** Runs `retry` and `pose` lose as many frames as
  there are passes, so every disable frame of a motor can be lost. The other
  runs lose one (`joint`: two), fewer than there are passes: they are about
  interleavings. The proofs hold for any bound.
* **Cycles and tries.** Two cycles let an answer of the first be read in the
  second; `MaxCycles` and `MaxTries` bound what two seconds and half a second
  allow, and the loops may end at any earlier point. `MaxAnswers` 6 in run
  `joint` is more than its four tries leave unread, so no answer is dropped
  there. The proofs hold for any bound.
* **Schedule.** The constants of the code (4000, 200, 400, 4, 40, 10) are scaled
  to single digits and keep their order: preparation may run out, the enable
  check lies strictly inside the active loop, 50 Hz motors are updated every
  second preview, verification polls each motor at least once. The polling
  phases are distinct, as `load_motors` makes them.
* **Channel.** Period 3 ticks (40 slots), gap 1, `MaxAge` one period (the code:
  five) and `TargetTimeout` three, so that a prompt actor of one tick has room for one
  state left out; a lag of 1 state (five). The preparation of 10 ticks has three of
  the four states of the schedule, so that `RoomForCount` holds, and the first wait is
  two periods instead of fifty. `CloseWait` is the shutdown with the slowest report.
  The reachable states include lag, watchdog, a preparation that runs out, every
  failure of the actor, two states in the preparation and two left out of the active
  loop, complete and incomplete runs that passed in time, and success behind a
  reset. Two things they do not include, which only the proofs cover: a target refused for its age (the preparation and the gap are too short for
  one, and in the active loop the watchdog is first), and an actor that counts as
  prompt although its first answer takes longer than a period.
* **Policy client.** Period 1, freshness 2, target timeout 1 and lag 2 ticks, a
  preparation of 3, an active loop of 6, a stand of 2, a ramp and a hand-off of 2
  targets. `MaxBusy` (2, serial 3) is long enough for a sample to grow stale at
  each check, `MaxLine` 3 for a drain to exceed each of its limits. `MaxSkips` 1
  bounds the states a controller leaves out: the real stand of 10 s leaves room
  for far more before the ramp could be late. `StandsAtTheEnd` needs the active
  loop to outlast the last stage by the timeout and the lag (6 against 3 + 1 + 2
  ticks; in the code 40 s against 30 s).
  `Horizon` lets a session run to its end with the BNO055, and a serial sample
  reach its greatest age, 3 ticks; the lag of 2 lets a target that took that long
  through.
* **Tools.** Probes: 2 motors, 5 ticks, a timeout of 1, bursts of 2 against turns
  that come up to 2 ticks late, one odd frame and one trip, so that a drive can fail
  while its answer waits behind a frame of another; 2 frames per drain and in the
  queue. Registers: 2 motors with 2
  registers, 2 tries, 2 frames in the socket, so an answer can be two requests
  late; one strange frame. Supervisor: one motor at rest, on and above its
  torque-speed line, ages beyond both limits. Contract: two robots with different
  signs, zeros and matrices and a placeholder whose limits exceed the register
  range; soft margin 1 and one override; four targets, one refused, at two
  postures, some clipped at the ankles, some refused by the encoder.
* `CHECK_DEADLOCK FALSE` in all runs: a run ends at its report.

### Fairness

`FairSpec` adds `WF_vars(Controller)`: the kernel keeps scheduling the
controller thread. All its waits have a deadline (`clock_nanosleep`,
`usleep`) or do not block (`MSG_DONTWAIT`, `O_NONBLOCK` reads), so nothing the
drives, the client or an operator do or omit can stop it, and nothing is assumed
of them. A drain is finite because an answer is only produced by a frame the
controller wrote.

In `PolicyIpc` only the controller is fair; `Termination` claims an end of the actor
under the condition that it keeps running.

For the Python controllers `WF_vars(Controller)` says that the process keeps
running: `receive` polls a non-blocking socket until a deadline. Exceptions and
Ctrl-C are steps of the environment and need not happen. For the measured-pose
hold the controller's fairness ends with the process (`Controller` needs
`alive`).

`PolicyClient` and `Bench` state no fairness: their properties are of safety, and
what ends a session or a tool there is a limit the model has of its own.

## 4. Findings

* **Three passes on every exit path** (`docs/SIM2REAL_PLAN.md:257-260`). The
  shutdown block has one `try` around passes and verification
  (`sprite_can_shadow.cpp:1730-1759`). If the kernel refuses a 0xFD write
  (`send_payload` throws at 1085, for example on a full transmit queue), the
  motors after it in that pass get no disable frame, and the other passes and
  the verification are skipped. The run reports failure, never success
  (`ImplementsFailClosedRun`), but drives may be left enabled. Run `exits` shows
  the shortest way there. `motor_group_hold.py:284` catches per motor instead.
  The measured-pose hold has the same single `try` (1485), against line 36 of its
  launcher, `hold_sprite0825_native_full_body_measured_pose_on_253.sh`: "Any fault
  disables all 31 motors".
* **Disabled and verified on every exit path, group writer**
  (`docs/SIM2REAL_PLAN.md:155-157`). The `finally` block of `motor_group_hold.py`
  protects each `send_disable` by a `try` of its own, but not what lies around
  them: Ctrl-C between its start and the first `try` (281-284), or in the
  `sleep(0.01)` at 288 between two passes, skips the remaining passes and the
  verification. It may be a second one, or the first in the `finally` block of a
  hold that ended by itself. The exception leaves the function, so nothing is
  reported as passed. Run `escape`: its trace takes the first window, a refused
  write and then the interrupt before the first frame of pass 1; the sleep is the
  longer window, and the same action (`Escape`). The gates of `ankle_pair_commissioning.py` have the same
  sleep; `single_joint_hold.py:255` has it inside the `try`.

## 5. What is proved

`ProtectedPolicyProofs` proves with TLAPS, for every number of motors, every
schedule, every loss bound:

| Theorem | Statement |
|---|---|
| `TypeCorrect` | `Spec => []TypeOK` |
| `AnswersStayTrue` | `Spec => [](TypeOK /\ AnswersAreTrue)` |
| `EnableCheckHolds` | `Spec => []VerifiedEnabled` |
| `PassesSuffice` | `Spec => []PassesOutlastLosses` |
| `CommandsStayRecent` | `Spec => []CommandsFollowTargets` |
| `FailClosedRefined` | `Spec => ImplementsFailClosedRun` |

Assumptions: `NAssumption` (at least one motor), `LossAssumption` and
`ScheduleAssumption` (types of the constants), and `DurationAssumption`: the
enable check lies inside the active loop. `parse_options` accepts any positive
duration; every configured run lasts seconds. A run of at most 100 ms would skip
the check and could still have an answer of the preparation unread when it
verifies, and neither `VerifiedEnabled` nor the refinement is claimed for it.

The argument. `FailClosedRun`'s promise speaks of the drives; the controller has
only answers. `AnswersAreTrue` says what the answers prove in each phase:

* `SeenIsOff`: while preparing, a drive that is enabled has neither been seen
  nor has an "off" on its way. Preparation accepts "off" only and throws at
  anything else, and nothing enables a drive, so `all_seen` proves every drive
  is not enabled: arming is safe.
* `OnStaysOn`: until the first 0xFD, behind an answer "on" there is no "off".
  With `CheckedIsOn` (past slot 200 the last answer read of every drive is "on")
  this drains the preparation's answers: none of them is left behind.
* `OffIsOff`: so in the shutdown of a run without failure, an "off" that is
  waiting or has been recorded since the reset was sent after a 0xFD, and the
  drive is not enabled. `ReportedOff` carries it to the report.
* `DisablesInLoop` and `StillOnLostAll` count: a drive that is still enabled
  lost every 0xFD written to it, which gives `PassesOutlastLosses`.

`TypeOK /\ AnswersAreTrue` is inductive. Its proof has one lemma per group of
actions and conjunct; `FailClosedRefined` then maps each action to a step of
`FailClosedRun` or a stutter.

`CommandsFollowTargets` is about the moment of a send and says nothing of the
slots between. `PreviewsAreRecent` does: an active slot writes at most
`previewAge` as old as the slots since the motor's last update allow
(`PreviewsFromTargets`), and the number of previews is the number of slots played
rounded up to the period (`PreviewsInStep`), so a 50 Hz motor is updated in its
first slot and then in each `OtherPreviews`-th. `NextMultiple` is the arithmetic of
that count.

`GroupHoldProofs` proves, for every number of motors, passes, cycles, tries and
losses, from `NAssumption`, `LossAssumption` and `GroupAssumption`:

| Theorem | Statement |
|---|---|
| `TypeCorrect` | `Spec => []TypeOK` |
| `AnswersStayTrue` | `Spec => [](TypeOK /\ AnswersAreTrue)` |
| `ReportIsTrue` | `Spec => [](DisabledIsTrue /\ OneBehind)` |
| `EveryMotorStopped` | `Spec => []EveryMotorInEveryPass` |
| `FailClosedRefined` | `Spec => ImplementsFailClosedRun` |

`DisabledIsTrue` is not inductive: it says that an enabled drive has no old "off"
on its way, and `Enable` enables a drive. What makes that step safe is
`UnreadInLoop`: each frame of the preparation was answered before the next one
was written, so at 0xFC nothing of this motor is unread; and
`FinalInVerification`: no final status has been written yet. `AskedAreOff` gives
the arming (both rounds saw every motor disabled and only `Enable` enables), and
`StopsInLoop` counts the passes. `OnlyEnableEnables` is the lemma that the rest of
the refinement rests on.

It also proves `GateIsHold` (`PairSpec => ImplementsGroupHold`) with `TalliesAgree`
as the invariant, and from it, without another look at the code, `GateIsFailClosed`:
a gate is fail-closed and its report is true. `GateStaysInStep` (`PairSpec =>
[]PairInStep`) rests on three parts. `CountsInLoop`: within a cycle the motors
before `idx` are one command and one answer ahead, which `PairInStep` says only of
the command and not while an answer is awaited. `UnreadInLoop`: nothing of the
preparation is unread when 0xFC is written. `AnswersInOrder`: the unread answers
are in the order of their frames, and after k answers read neither the last of
them nor the next is older than the frame before the k-th command, 0xFC for the
first, because the answer to 0xFC can be read only once. `PassingTakesCycles` is `PairSpec =>
[]PassTakesCycles`.

`SingleJointHoldProofs`, for any tries, cycles and losses:

| Theorem | Statement |
|---|---|
| `TypeCorrect` | `Spec => [](TypeOK /\ NotYetEnabled)` |
| `AnswersStayTrue` | `Spec => [](TypeOK /\ AnswersAreTrue)` |
| `FinalStatusIsTrue` | `Spec => []DisabledIsTrue` |
| `ThreeTriesAreEnough` | `MinTries >= 3` implies `Spec => []TriesOutlastStaleReplies` |
| `FailClosedRefined` | `Spec => ImplementsFailClosedRun` |

The argument for the status is that of the group hold. For the tries,
`OldAnswersRunOut` counts: at most two unread answers are older than the first
0xFD, and each try takes one of them away.
`MinTries >= 3` is what the code has (`single_joint_hold.py:249`); with two the
property is false, which the mutant `TriesEndEarly` shows.

`MeasuredPoseHoldProofs`, for any motors, polling phases, cycles and losses:

| Theorem | Statement |
|---|---|
| `TypeCorrect` | `Spec => []TypeOK` |
| `PoseInvariant` | `Spec => []PoseInv` |
| `AnswersStayTrue` | `Spec => []AnswersAreTrue` |
| `EnabledWithoutCheck` | `Spec => []VerifiedEnabled` |
| `FailClosedRefined` | `Spec => ImplementsFailClosedRun` |

`AnswersAreTrue` is not inductive here: its `OnStaysOn` starts with the enable
frames, and no check of the enabled status ever empties the receive queues of what
the warm-up left there. `OnBeforeDisable` says it of the warm-up too: up to its
first 0xFD a drive goes from "off" to "on" only, so no "off" is unread behind an
"on", and no "on" of a drive that is "off". That, the reset of the records
(`StartsAnew`) and the status every answer must have give `VerifiedEnabled`.

`PolicyIpcProofs`, for every schedule, every limit and every interleaving of
controller and actor, with or without failures:

| Theorem | Statement |
|---|---|
| `TypeCorrect` | `Spec => []TypeOK` |
| `ChannelInvariant` | `Spec => []ChannelInv` |
| `StatesAnsweredOnce` | `Spec => []EachStateOnce` |
| `CommandsAreRecent` | `Spec => []CommandsFromRecentStates` |
| `GoneActorsStopRuns` | `Spec => []GoneActorStopsRun` |
| `BelievedRunsComplete` | `Spec => []BelievedRunsAreComplete` |
| `PromptNeverCutOff` | `Spec => []PromptActorNeverCutOff` |
| `TimeIsBounded` | `Spec => []BoundedTime` |
| `BothSidesRunOut` | `Spec => StepsRunOut` |
| `RunsCompleteByCount` | `RoomForCount` implies `Spec => []CompletionByCount` |

`EachStateOnce` speaks of one line made of two sequences and two variables;
`ChannelInv` says the same by counts, which the steps move one by one:
`TargetsInOrder` (the k-th target answers state k), `StatesInOrder` (behind them
the state in work and the states under way), `AgesInOrder` (a target is stamped
while its state is fresh, and taken while it is), `StepsInOrder` and `EndInOrder`
(success only behind the close and with exactly the answers of the schedule).
`BelievedRunsAreComplete` is the first and third conjunct of `CompletionByCount`
without the condition on time.

`GoneActorsStopRuns` strengthens its bound to `GoneInTime`: before the commands of a
slot the actor is there, so what passes since it went is what is left for the next
drain (`Waits`), one slot or the rest of the start gap; the loop ends behind a slot,
and the shutdown counts its own.

`PromptNeverCutOff` needs times on top of it. Without any condition: everything is
stamped after what it rests on (`StampsInOrder`), and states are published a period
apart, so a target's lag in states bounds its lag in time (`Spaced`; the argument is
about remainders of the slot, `NextRemainder`). Of an actor that has kept up so far
(`Fits`): no state waits longer than its response time (`AnsweredInTime`), no target
longer than the start gap (`TakenInTime`), and no two neighbours on the channel,
nor the last of them and the next state, are further apart than `Reach`
(`WithinReach`). From these `RecentAnswer` bounds the age of the newest target by
`LongestGap`, and `NoneRefused` the age and the lag of every target; so none of the
actions that cut off is enabled (`NotCutOffStep`). `Fits` can only be lost, which is
why the invariant may be stated under it (`FitsBefore`). The condition is met by
the code's constants; the assumption on the constants is only `ScheduleAssumption`,
their types.

`RunsCompleteByCount` adds to `BelievedRunsComplete` what time decides: when the
controller passed and all states were published, no exit of an actor that kept up but
success is left. `CountInv` says why, exit by exit:

* It waited in vain for a state, or was answered that the channel is closed. Then some
  state is missing: an actor that finds nothing to receive has answered all that was
  published (`ReceiveFault`), and as soon as it is gone the next publication fails and
  the controller with it. An "extra" state means that there are too many.
* The controller closed before it could answer, or its state grew too old. Nothing is
  published behind the loops, so what an actor still has before it is older than the
  shutdown has lasted (`ShutdownAges`). An actor that keeps up has nothing older than its
  response time, which the shutdown outlasts; so nothing is left at the close
  (`NothingLeft`).
* It waited too long for the close. The wait starts with the last answer, and when the
  active loop ends that answer is no older than the last slot (`LastAnswer`): the
  preparation publishes at most one state per period and so never all of them
  (`EarlyCount`), and the last active slot publishes (`StatesOfSchedule`), since until
  every motor has been heard of states are missing, and once heard of they stay so. In the
  shutdown the wait is then no longer than the shutdown itself, which `PassedInTime`
  takes to be in time; and an actor that gave up in the active loop is found gone in its
  last slot (`GivenUpStep`).

`RoomForCount` is what this needs of the constants. `PrepTicks < Period * Count`: a
preparation with room for all the states could be answered in full before the active
loop begins, and the actor would then wait for a close that is an active loop away
(4000 slots against 40 * 2001 in the code). `Prompt \in 1..MaxAge` and
`Prompt <= ShutdownTicks`: an actor that keeps up answers within the age limit of its
states, 200 slots, and within the shutdown, about 480. The run `channel` satisfies it, and
checked the invariant before it was proved.

`TimeIsBounded` and `BothSidesRunOut` are the part of `Termination` that is a matter of
safety. Time and the slots that are left never add up to more than the schedule, the
shutdown and the report (`BoundedTime`), because no failure restarts a phase and each
phase has its last slot (`SlotsInBounds`). `ControllerLeft` counts the steps the controller
can still take, two in a slot of its loops, one to close and one to fail; `ActorLeft` those
of the actor, three for a state. Each step of a side lowers its count and leaves the other
(`ControllerLeftStep`, `ActorLeftStep`), so a run has only so many steps, however the two
interleave. What TLC adds is that the controller is never stuck before the close, nor
the actor, once the controller has closed, before its end.

`CanDrivesProofs` holds what the proofs about powered runs argue with: what `Deliver`
and `TakeAnswer` do to a motor's answers, and that a read takes from the front of a
sequence.

`PolicyClientProofs`, for every source, every interleaving of serial line, worker
thread, controller and client, and every loss of states or connection:

| Theorem | Statement |
|---|---|
| `LatchedErrorAlwaysStops` | `Spec => []LatchedErrorStopsTargets` |
| `SamplesStayRecent` | `Spec => []SamplesAreRecent` |
| `StandsWhenComplete` | `LoopOutlastsStages` implies `Spec => []StandsAtTheEnd` |
| `WalksOnlyAtFullGain` | `StandOutlastsStartup` implies `Spec => []WalksAtFullGain` |

They rest on `ImuAssumption` and `ClientAssumption`, types only. The arguments:

* The latch. Past its drain a state ends in a target without another look, and a
  drain that goes well saw no error; so a counted target leaves the client before a
  drain (`LatchInv`).
* The samples. The code checks stamps, and a stamp is the start of a drain; what it
  does not see is how long a byte waited before. `SerialInv` bounds that wait: in
  select a byte is younger than `MaxAge`, because it came while the last target was
  in work, and that target was sent under a fresh stamp, so within `MaxAge` of its own
  drain; select returns at once otherwise. The frame that one read begins and the
  next completes keeps the older stamp (`FeedIsStamped`), so no stamp is `MaxAge` away from
  what it stands for, and twice `MaxAge` is the strict bound.
* The end. The stage of the newest target is that of a source state the controller
  found at most `MaxLag` old when the target came (`StageInv`), the target is at most
  `TargetTimeout` old when the loop ends, and the profile started before the first
  target. `LoopOutlastsStages` says that the active loop is longer than the stages by
  both limits (40 s against 30 s in the code).
* The gain. Startup and hand-off count targets, the profile counts time. `CountInv`
  ties the two: the states under way are a period apart but for those left out
  (`UnderWay`), once the profile has started none of them is dropped, because a
  sample that was there stays (`SamplesRemain`, on top of `SamplesInv`), and so the time in
  the profile is at most that of the targets counted and of the states left out.
  `StandOutlastsStartup` bounds these: with a stand of 10 s at 50 Hz and a startup of
  1 s and 5 s (`tools/test_upper_body_entry.py`) about 200 of the first 500 states may be
  left out. More would let the robot walk before its startup is over.

Around the controllers seven more promises are proved, each for every value of
the constants:

| Theorem | Statement | Argument |
|---|---|---|
| `BacklogNeverReplayed` (`BenchProofs`) | `Spec => []NoBacklog` | a poll is due only if this tick's polls are those of this wake-up; after its polls the next is due in a later tick (`PollsOfThisWakeUp`) |
| `PassedProbesAreRecent` (`BenchProofs`) | `Spec => []PassedProbeIsRecent` | what an unfit drive sent before it failed is read within the turns its place in the queue allows (`OldFramesRunOut`); a turn is short and without an error ends with an empty queue or all the frames it may read (`TurnsAreShort`) |
| `InstalledRangesStayTrue` (`BenchProofs`) | `Spec => []InstalledRangesAreTrue` | the report is true at every moment, not only when it is installed |
| `ZeroedHeadStaysZero` (`BenchProofs`) | `Spec => []ZeroedHeadIsZero` | the motors before the present one are verified, and what is verified stays stored (`ZeroInv`) |
| `FaultsAlwaysHoldTransmission` (`BenchProofs`) | `Spec => []FaultsHoldTransmission` | the uncleared faults are among the latched ones (`Held`), which no refused state needs but the next clear does |
| `LegalPosesAlwaysReachTheDrives` (`BenchProofs`) | `Spec => []LegalPosesReachTheDrives` | a map is linear in each joint, so what lies between two ends is mapped between their images (`ProductBetween`), and the corners of a box bound all of it (`PairBox`, `KneeBox`); each loader compares the limits with the range it loads (`LoadedTypes`); the adjugate takes back what the matrix did, and the division is exact (`PairReturns`, `KneeReturns`) |
| `FramesAlwaysCarryTheImpedance` (`BenchProofs`) | `Spec => []FramesCarryTheImpedance` | the controller measures the posture it is at (`DrivesReturn`); the gain matrix of the motors undoes the joints' matrix on both sides, whether the drive or the host holds an entry (`HeadTorques`, `PairFeels`) |

They are about the `Spec` of `Bench`. Their assumptions:
`ProbeAssumption` (there are a motor, a poll in a burst and a frame in a drain; the
timeout and the model's bounds are natural numbers), `CommissioningAssumption`
(there are a motor and a register) and `ContractAssumption`: types, of which three say
more than "a whole number", that signs are 1 or -1, that ratios are positive
(`motor_mapping.py:48-57`, `128-131` refuse others) and that ranges and the effort limit
are not negative. That a pair's matrix is not singular is no assumption: a calibration
in the sheet may be, and `MapBuilt` keeps it from the runtimes.

The two theorems on the hardware contract share one invariant, `ContractInv`: what the
sheet, the report and the three files hold is a report some map was built for or
nothing (`SheetTypes`), a runtime's limits are within its range whatever report they are
of (`RuntimeTypes`), and a frame belongs to the runtime that made it
(`FrameOfRuntime`). The proof of the impedance needs neither the limits nor that the
frame encodes: `FramesCarry` is stronger than the promise in that. That every joint is of
one of three kinds, that positions are integers and that velocities are left out are the
model's abstractions, which the proof does not lift; floating-point rounding is outside it.

Only model-checked: `Termination`, of each powered run. It is liveness under the
fairness of section 3, out of the prover's reach, as is `ENABLED`; for the policy
channel the bounds it rests on are proved (`TimeIsBounded`, `BothSidesRunOut`). Every
other property of a passing run is a theorem.

## 6. Not modelled, and the plan

Done: the four kinds of powered run (protected policy, measured-pose hold, group
hold with the pair gates built on it, single joint) and their common promise; the
policy channel of the protected policy; the Python policy client with its IMU
sources; and the tools around them.

Left out of `PolicyIpc`: the connect (both sides have a timeout and give up), the
zero-gain shadow build with its `finish_shadow`, and a controller that wakes late:
a run with a slot 2 ms late fails its deadline gate.

Left out elsewhere: the native IMU client and the producers behind it (the Python
worker sources have the same shape, a worker with a latched error and a freshness
limit); the native twins of the client's schedule, ramp and clamp watchdog; the
zero-gain shadow loop of `sprite_can_shadow`, which enables nothing; the heading
controller and timing probes; the tables of endpoints in the hardware contract.

Not modelled by choice: bit-level encodings (unit tests compare them byte for
byte), dynamics and sensor fusion, ONNX inference, register I/O of the sensors,
evidence files, viewers, offline analysis and system identification, argument
parsing and operator scripts.

The order of what could follow, most important first:

1. An abstract client which `PolicyIpc`, `PolicyClient` and the "any client" of
   `ProtectedPolicy` implement.
2. The native IMU client, over a socket that may be late or closed, and the
   native actor's startup in its place behind `PolicyIpc`.
3. `CanSchedule`: the polling phases of `load_motors` never put two motors of one
   bus in the same slot; the shadow loop's watchdogs.
