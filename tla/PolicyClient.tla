---------------------------- MODULE PolicyClient ----------------------------
(***************************************************************************)
(* native_policy_client.py: one Python thread between the IMU and the      *)
(* native controller.  It waits in select, drains the IMU, receives a      *)
(* state, checks the IMU's freshness three times around the inference, and *)
(* sends a target; with it the hand-off, the startup ramp and the command  *)
(* profile, the first two counted in targets, the third in time.           *)
(*                                                                         *)
(* The controller is reduced to what the client can observe of it: states  *)
(* at a fixed rate, of which some may be left out, and an end of the       *)
(* connection: after its duration, after a target timeout, or at any time. *)
(***************************************************************************)
EXTENDS ImuSources

CONSTANTS
  Period,     \* ticks between two states
  PrepTicks,  \* the controller waits this long for the first target
  TargetTimeout,\* its watchdog
  MaxLag,    \* and its limit on the age of a target's source state
  Duration,  \* its active loop
  MaxSkips,  \* states it leaves out (a bound of the model)
  HoldSteps, RampSteps,  \* of PhysicalStartupRamp
  HandoffSteps,  \* of MeasuredPoseActionHandoff
  MaxClamps, IgnoredTicks, \* of ConsecutiveClampWatchdog
  StageEnds,  \* ends of stand, ramp_forward, forward, ramp_stop
  MaxBusy,    \* ticks from one select to the next, by source (a bound of the model)
  Horizon     \* ticks considered, by source (a bound of the model)

ASSUME ClientAssumption ==
  /\ {Period, TargetTimeout, RampSteps, MaxClamps} \subseteq Nat \ {0}
  /\ {PrepTicks, MaxLag, Duration, MaxSkips, HoldSteps, HandoffSteps, IgnoredTicks} \subseteq Nat
  /\ StageEnds \in [1..4 -> Nat] /\ {MaxBusy, Horizon} \subseteq [Sources -> Nat]

VARIABLES
  connection,  \* "open", "complete": the controller closed at its end, "lost"
  skips,       \* states left out so far
  toClient,    \* states sent and not received: their monotonic_ns
  heard,       \* when the newest target reached the controller; 0: none
  activeAt,    \* when the first one did; 0: target_count is 0
  pc,          \* where run() is
  work,        \* monotonic_ns of the state in work; 0: none
  heardState,  \* state_count > 0
  profileStart,\* profile_start_ns; 0: None
  stage,      \* profile_stage
  steps,      \* completed_steps of the ramp and of the hand-off, up to their ends
  clamped,    \* consecutive targets of a watched joint beyond its soft limits
  outcome,    \* "running", "passed" or "failed"
  sent,       \* history: the newest target
  afterError  \* history: targets sent since the worker's error

controllerVars == <<connection, skips, toClient, heard, activeAt>>
progressVars == <<heardState, profileStart, stage, steps>>
historyVars == <<sent, afterError>>
clientVars == <<pc, work, progressVars, clamped, outcome, historyVars>>
vars == <<now, source, imuVars, controllerVars, clientVars>>

Stages == <<"stand", "ramp_forward", "forward", "ramp_stop", "final_stand">>

Init ==
  /\ ImuInit /\ now = 1
  /\ connection = "open" /\ skips = 0 /\ toClient = <<>> /\ heard = 0 /\ activeAt = 0
  /\ pc = "select" /\ work = 0 /\ heardState = FALSE /\ profileStart = 0 /\ stage = 1
  /\ steps = 0 /\ clamped = 0 /\ outcome = "running" /\ afterError = 0
  /\ sent = [stage |-> 1, gain |-> 0, blend |-> 0, age |-> 0]

(***************************************************************************)
(* Time and the controller.                                                *)
(***************************************************************************)

\* Watchdogs of the controller.
Expired == IF activeAt = 0 THEN now > PrepTicks ELSE now - heard > TargetTimeout

\* The end of the connection; a target the controller has not read resets
\* it, and the states under way are lost with it.
Hangup(why) ==
  /\ connection' = why /\ UNCHANGED skips
  /\ \/ UNCHANGED toClient
     \/ heard = now /\ toClient' = <<>>

\* The controller publishes a state in each period, or leaves one out.
Publish ==
  /\ IF now' % Period # 0 THEN UNCHANGED <<skips, toClient>>
     ELSE \/ toClient' = Append(toClient, now') /\ UNCHANGED skips
          \/ skips < MaxSkips /\ skips' = skips + 1 /\ UNCHANGED toClient
  /\ UNCHANGED connection

\* The controller's slot of a tick; it may fail a guard of its own, or die.
ControllerTick ==
  IF connection # "open" THEN UNCHANGED <<connection, skips, toClient>>
  ELSE \/ Hangup("lost")
       \/ /\ ~Expired
          /\ IF activeAt # 0 /\ now >= activeAt + Duration THEN Hangup("complete") ELSE Publish

\* Time passes, in select only while no serial byte is readable (it wakes
\* the thread within a tick), elsewhere for at most MaxBusy; a worker's
\* sample is taken at once.
Tick ==
  /\ now < Horizon[source] /\ outcome = "running"
  /\ CASE pc = "select" -> line = <<>>
       [] pc = "drain" /\ source # "yahboom" -> FALSE
       [] OTHER -> now - drain.started < MaxBusy[source]
  /\ now' = now + 1
  /\ SerialTick /\ ControllerTick
  /\ UNCHANGED <<source, partial, drain, reading, latest, workerError, raw, quat, heard, activeAt,
                 clientVars>>

(***************************************************************************)
(* The command profile and the startup.                                    *)
(***************************************************************************)

\* Mutant: a stage ends one period late.
StageAtLate(elapsed) == 1 + Cardinality({i \in 1..4 : elapsed > StageEnds[i]})

\* sample_stand_walk_stop, reduced to the stage.
StageAt(elapsed) == 1 + Cardinality({i \in 1..4 : elapsed >= StageEnds[i]})

\* Mutant: the ramp starts one target late.
GainLate == IF steps <= HoldSteps THEN 0 ELSE Min({RampSteps, steps - HoldSteps - 1})

\* Startup gain of the newest target, in RampSteps-ths.
Gain == IF steps <= HoldSteps THEN 0 ELSE Min({RampSteps, steps - HoldSteps})

\* Share of the policy's own action in it, in HandoffSteps-ths.
Blend == Min({HandoffSteps, steps})

LastStep == Max({HandoffSteps, HoldSteps + RampSteps})

(***************************************************************************)
(* The client.                                                             *)
(***************************************************************************)

Running == outcome = "running" /\ UNCHANGED <<now, source>>

\* An exception inside _capture_runtime_errors.
Fail == outcome' = "failed" /\ pc' = "done"

\* The orderly end of the loop: leaving the source may fail ("did not
\* stop", "shutdown timeout"), and the report passes only with enough
\* targets, both kinds of samples and no slow inference.
Finish ==
  /\ pc' = "done"
  /\ \/ outcome' = "failed"
     \/ activeAt # 0 /\ raw # None /\ quat # None /\ outcome' = "passed"

SelectReturns ==
  /\ Running /\ pc = "select" /\ pc' = "drain" /\ DrainStarts
  /\ UNCHANGED <<line, partial, reading, latest, workerError, raw, quat>>
  /\ UNCHANGED <<connection, skips, heard, activeAt, profileStart, stage, steps, clamped, outcome,
                 historyVars>>

\* select reports the serial port.
ImuReadable ==
  /\ line # <<>> /\ SelectReturns
  /\ UNCHANGED <<toClient, work, heardState>>

\* select reports the connection, and a state is there.
ReceiveState ==
  /\ toClient # <<>> /\ SelectReturns
  /\ work' = Head(toClient) /\ toClient' = Tail(toClient) /\ heardState' = TRUE

\* recv returns nothing, or a reset: an error only before the first state.
Disconnected ==
  /\ Running /\ pc = "select" /\ toClient = <<>> /\ connection # "open"
  /\ Finish \/ (~heardState /\ Fail)
  /\ UNCHANGED <<imuVars, controllerVars, work, progressVars, clamped, historyVars>>

\* shadow.ready: a state holds every motor, so only a sample can be missing.
Ready(newestRaw, newestQuat) == newestRaw # None /\ newestQuat # None

\* After the drain: serial bytes alone need nothing more, a state before the
\* first complete sample is dropped, an old sample is an error; otherwise the
\* profile starts or goes on, by the controller's time stamps.
Observe ==
  CASE work = 0 \/ ~Ready(raw', quat') ->
         pc' = "select" /\ work' = 0 /\ UNCHANGED <<profileStart, stage, outcome>>
    [] work # 0 /\ Ready(raw', quat') /\ ~Fresh' ->
         Fail /\ UNCHANGED <<profileStart, stage, work>>
    [] OTHER ->
         /\ profileStart' = IF profileStart = 0 THEN work ELSE profileStart
         /\ stage' = StageAt(work - profileStart')
         /\ pc' = "infer" /\ UNCHANGED <<work, outcome>>

\* update_imu of the serial source: one read.
DrainRead ==
  /\ Running /\ pc = "drain" /\ source = "yahboom"
  /\ ~PartialStale /\ line # <<>> /\ ~ReadRefused
  /\ ReadPending
  /\ UNCHANGED <<reading, latest, workerError, raw, quat, controllerVars, clientVars>>

\* Its end: the batch is accepted, and a state in work goes on.
DrainCommits ==
  /\ Running /\ pc = "drain" /\ source = "yahboom"
  /\ ~PartialStale /\ line = <<>> /\ ~CommitRefused
  /\ Commit /\ Observe
  /\ UNCHANGED <<line, partial, reading, latest, workerError, controllerVars, heardState, steps,
                 clamped, historyVars>>

\* update_imu of a worker source.
DrainSnapshot ==
  /\ Running /\ pc = "drain" /\ source # "yahboom" /\ ~SnapshotRefused
  /\ Snapshot /\ Observe
  /\ UNCHANGED <<line, partial, drain, reading, latest, workerError, controllerVars, heardState,
                 steps, clamped, historyVars>>

DrainFails ==
  /\ Running /\ pc = "drain" /\ Fail
  /\ IF source # "yahboom" THEN SnapshotRefused
     ELSE PartialStale \/ (IF line # <<>> THEN ReadRefused ELSE CommitRefused)
  /\ UNCHANGED <<imuVars, controllerVars, work, progressVars, clamped, historyVars>>

\* Observation, actor and hand-off, each of which may throw.
Infer ==
  /\ Running /\ pc = "infer"
  /\ \/ pc' = "project" /\ steps' = Min({steps + 1, LastStep}) /\ UNCHANGED outcome
     \/ Fail /\ UNCHANGED steps
  /\ UNCHANGED <<imuVars, controllerVars, work, heardState, profileStart, stage, clamped,
                 historyVars>>

\* Projection and ramp, which may throw, up to the second freshness check.
Project ==
  /\ Running /\ pc = "project"
  /\ \/ Fresh /\ pc' = "send" /\ UNCHANGED outcome
     \/ Fail
  /\ UNCHANGED <<imuVars, controllerVars, work, progressVars, clamped, historyVars>>

\* ConsecutiveClampWatchdog.update
Watched(overshoots) ==
  IF steps <= IgnoredTicks THEN clamped ELSE IF overshoots THEN clamped + 1 ELSE 0

\* Mutant: the freshness check before the send is left out.
SendUnchecked ==
  /\ Running /\ pc = "send" /\ connection = "open"
  /\ clamped' \in {Watched(TRUE), Watched(FALSE)} /\ clamped' < MaxClamps
  /\ heard' = now /\ activeAt' = IF activeAt = 0 THEN now ELSE activeAt
  /\ connection' = IF now - work > MaxLag THEN "lost" ELSE "open"
  /\ pc' = "select" /\ work' = 0
  /\ sent' = [stage |-> stage, gain |-> Gain, blend |-> Blend, age |-> now - Min({raw.at, quat.at})]
  /\ afterError' = afterError + (IF workerError THEN 1 ELSE 0)
  /\ UNCHANGED <<imuVars, skips, toClient, progressVars, outcome>>

\* The clamp watchdog, the last freshness check and the send; the controller refuses a target
\* whose source state lags behind.
Send ==
  /\ Running /\ pc = "send" /\ Fresh /\ connection = "open"
  /\ clamped' \in {Watched(TRUE), Watched(FALSE)} /\ clamped' < MaxClamps
  /\ heard' = now /\ activeAt' = IF activeAt = 0 THEN now ELSE activeAt
  /\ connection' = IF now - work > MaxLag THEN "lost" ELSE "open"
  /\ pc' = "select" /\ work' = 0
  /\ sent' = [stage |-> stage, gain |-> Gain, blend |-> Blend, age |-> now - Min({raw.at, quat.at})]
  /\ afterError' = afterError + (IF workerError THEN 1 ELSE 0)
  /\ UNCHANGED <<imuVars, skips, toClient, progressVars, outcome>>

\* The watchdog trips, the sample has grown stale, or a broken pipe ends the
\* loop, with an error before the first target.
SendFails ==
  /\ Running /\ pc = "send"
  /\ \/ (Watched(TRUE) >= MaxClamps \/ ~Fresh) /\ Fail
     \/ Fresh /\ connection # "open" /\ (IF activeAt = 0 THEN Fail ELSE Finish)
  /\ UNCHANGED <<imuVars, controllerVars, work, progressVars, clamped, historyVars>>

Client ==
  \/ ImuReadable \/ ReceiveState \/ Disconnected
  \/ DrainRead \/ DrainCommits \/ DrainSnapshot \/ DrainFails
  \/ Infer \/ Project \/ Send \/ SendFails

WorkerStep == Worker /\ outcome = "running" /\ UNCHANGED <<controllerVars, clientVars>>

Next == Tick \/ WorkerStep \/ Client

Spec == Init /\ [][Next]_vars

(***************************************************************************)
(* Properties.                                                             *)
(***************************************************************************)

TypeOK ==
  /\ ImuTypeOK /\ now \in 1..Horizon[source]
  /\ connection \in {"open", "complete", "lost"} /\ skips \in 0..MaxSkips
  /\ {heard, activeAt, work, profileStart} \subseteq 0..now
  /\ \A i \in DOMAIN toClient : toClient[i] \in 0..now
  /\ pc \in {"select", "drain", "infer", "project", "send", "done"}
  /\ stage \in 1..5 /\ steps \in 0..LastStep /\ clamped \in 0..(MaxClamps - 1) /\ heardState \in BOOLEAN
  /\ outcome \in {"running", "passed", "failed"} /\ (pc = "done" <=> outcome # "running")
  /\ activeAt # 0 => activeAt <= heard

\* The freshness limit is checked against the time a batch was read, not
\* the time it came.  A sample of a worker source is at most MaxAge old when
\* its target is sent; a serial one can be twice as old, because it may have
\* waited in the port for as long as the previous target was in work; only a
\* client that leaves readable bytes alone in select makes it older still.
SamplesAreRecent ==
  IF source = "yahboom" THEN sent.age < 2 * MaxAge ELSE sent.age <= MaxAge

\* The startup ramp and the hand-off count targets, the profile counts the
\* controller's time: whatever states are left out or dropped before the
\* first sample, a target that asks for a velocity carries the full gain
\* and the policy's own action.
WalksAtFullGain ==
  sent.stage # 1 => sent.gain = RampSteps /\ sent.blend = HandoffSteps

\* A controller that runs to its end disables a robot that has been told to
\* stand, however late the profile started and however old the last target.
StandsAtTheEnd == connection = "complete" => Stages[sent.stage] = "final_stand"

\* The error of the worker latches: only a target whose drain preceded it
\* is still sent.
LatchedErrorStopsTargets == afterError <= 1
=============================================================================
