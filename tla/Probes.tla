------------------------------- MODULE Probes -------------------------------
(***************************************************************************)
(* The tools that look at the drives without enabling them: the zero-gain  *)
(* probe of one motor, of the motors of one bus and of the whole body, the *)
(* live policy shadow on top of the latter, the receive-only audit and the *)
(* active-bus capture (damiao.py, full_body_probe.py, policy_shadow.py,    *)
(* system_id_capture.py, socketcan.py and their commands in cli.py).       *)
(*                                                                         *)
(* One bus of N motors; a tick is the slot between two polls of the bus,   *)
(* and the 2 ms of the shadow.  Motor 1 is the one the single probe        *)
(* selects.  Positions, velocities and torques are left out.               *)
(***************************************************************************)
EXTENDS Integers, Sequences
LOCAL INSTANCE FiniteSetsExt

CONSTANTS
  N,            \* motors of the bus
  Duration,     \* duration_s
  Timeout,      \* feedback_timeout_s
  Burst,        \* polls of one wake-up of the full-body probe (16)
  MaxDrain,     \* frames it reads per wake-up (64)
  MinCoverage,  \* minimum_sample_coverage, in percent
  MaxCatchUp,   \* state ticks of one call of the shadow (20)
  Divisor,      \* state ticks per policy tick (10)
  MaxQueue,     \* frames the receive queue holds (a bound of the model)
  MaxWake,      \* ticks from one turn of the loop to the next (a bound)
  MaxOdd,       \* frames that are no feedback (a bound)
  MaxTrips      \* times a drive trips (a bound)

ASSUME ProbeAssumption ==
  /\ {N, Burst, MaxDrain} \subseteq Nat \ {0}
  /\ {Timeout, MaxWake, MaxQueue} \subseteq Nat

Motors == 1..N
Tools == {"single", "group", "body", "live", "audit", "capture"}

VARIABLES
  tool,    \* the command
  flags,   \* its acknowledgement and viewer, the snapshot file, the contract's ranges
  link,    \* the mode the interface really is in
  clock,   \* time.monotonic, in ticks
  drive,   \* status of each drive, or "silent"
  since,   \* history: when it got that status, for a probe
  queue,   \* frames the socket holds
  odd,     \* history: odd frames and trips so far
  loop,    \* locals of the collecting loop
  shadow,  \* LivePolicyShadow
  burst,   \* history: polls on the bus in this tick
  result   \* "running", "refused", "raised", "passed" or "failed"

probeVars == <<tool, flags, link, clock, drive, since, queue, odd, loop, shadow, burst, result>>

Selected == IF tool = "single" THEN {1} ELSE Motors
Polling == tool \in {"single", "group", "body", "live"}
FullBody == tool \in {"body", "live"}

\* Local records of a loop: "last" starts at the start.
Locals ==
  [pc |-> "start", next |-> 0, index |-> 1, woke |-> 0, sends |-> 0, drained |-> 0, tx |-> FALSE,
   rx |-> [m \in Motors |-> 0], last |-> [m \in Motors |-> 0], imu |-> 0, errors |-> FALSE]

NoShadow ==
  [heard |-> {}, imu |-> FALSE, next |-> -1, ticks |-> 0, policy |-> FALSE, errors |-> FALSE]

ProbeInit ==
  /\ tool \in Tools
  /\ flags \in [acknowledged : BOOLEAN, snapshot : {"listen-only", "active"}, verified : BOOLEAN, viewer : BOOLEAN]
  /\ flags.acknowledged \/ Polling
  /\ flags.verified \/ tool = "audit"
  /\ (tool = "body" => flags.viewer) /\ (tool = "capture" => ~flags.viewer)
  /\ link \in {"listen-only", "active"}
  /\ clock = 0 /\ queue = <<>> /\ odd = [frames |-> 0, trips |-> 0] /\ burst = 0
  /\ drive \in [Motors -> {"disabled", "enabled"}] /\ since = [m \in Motors |-> 0]
  /\ loop = Locals /\ shadow = NoShadow /\ result = "running"

(***************************************************************************)
(* The commands up to their loop.                                          *)
(***************************************************************************)

At(pc) == result = "running" /\ loop.pc = pc

RxPreflight == flags.snapshot = "listen-only"
ActivePreflight == flags.snapshot = "active"

Begin(command, admitted) ==
  /\ At("start") /\ tool = command
  /\ IF admitted THEN loop' = [loop EXCEPT !.pc = "loop"] /\ UNCHANGED result
     ELSE result' = "refused" /\ UNCHANGED loop
  /\ UNCHANGED <<tool, flags, link, clock, drive, since, queue, odd, shadow, burst>>

DamiaoRxAudit == Begin("audit", (flags.verified \/ flags.viewer) /\ RxPreflight)
DamiaoZeroGainProbe == Begin("single", flags.acknowledged /\ ActivePreflight)
DamiaoZeroGainGroupProbe == Begin("group", flags.acknowledged /\ ActivePreflight)
FullBodyShadowProbe == Begin("body", flags.acknowledged /\ ActivePreflight)
LivePolicyShadowProbe == Begin("live", flags.acknowledged /\ ActivePreflight)
CaptureActiveCanTrace == Begin("capture", ActivePreflight)

(***************************************************************************)
(* The bus.                                                                *)
(***************************************************************************)

Frame(m) == [kind |-> "feedback", motor |-> m, status |-> drive[m]]
OddKinds == {"control", "unexpected", "classic", "malformed", "stampless"}
Odd(kind) == [kind |-> kind, motor |-> 1, status |-> "disabled"]

\* A poll is answered, unless it or its answer is lost or the drive is dead.
Answered(m) ==
  {queue} \union (IF link = "active" /\ drive[m] # "silent" /\ Len(queue) < MaxQueue
                  THEN {Append(queue, Frame(m))} ELSE {})

\* A frame of another controller, of no known endpoint, that is not CAN-FD,
\* that cannot be decoded, or whose timestamp is missing.
OddFrame ==
  /\ At("select") /\ odd.frames < MaxOdd /\ Len(queue) < MaxQueue
  /\ \E kind \in OddKinds : queue' = Append(queue, Odd(kind))
  /\ odd' = [odd EXCEPT !.frames = @ + 1]
  /\ UNCHANGED <<tool, flags, link, clock, drive, since, loop, shadow, burst, result>>

DriveTrips ==
  /\ At("select") /\ odd.trips < MaxTrips
  /\ \E m \in Motors, status \in {"fault", "silent"} :
       drive' = [drive EXCEPT ![m] = status] /\ since' = IF Polling THEN [since EXCEPT ![m] = clock] ELSE since
  /\ odd' = [odd EXCEPT !.trips = @ + 1]
  /\ UNCHANGED <<tool, flags, link, clock, queue, loop, shadow, burst, result>>

\* Without polls the bus carries what another controller asks for, at most
\* one answer in a tick.
Traffic ==
  /\ At("select") /\ ~Polling /\ burst = 0 /\ burst' = 1
  /\ \E m \in Motors : queue' \in Answered(m) \ {queue}
  /\ UNCHANGED <<tool, flags, link, clock, drive, since, odd, loop, shadow, result>>

\* select waits, or the process is late.
Tick ==
  /\ At("select") /\ clock - loop.woke < MaxWake
  /\ clock' = clock + 1 /\ burst' = 0
  /\ UNCHANGED <<tool, flags, link, drive, since, queue, odd, loop, shadow, result>>

(***************************************************************************)
(* The live policy shadow.                                                 *)
(***************************************************************************)

Ready(s) == s.heard = Motors /\ s.imu

\* A call of LivePolicyShadow.tick: ticks due, at most MaxCatchUp, the first
\* of every Divisor with an inference; an exception ends the call before the
\* tick is counted.
ShadowTick(s) ==
  LET first == IF s.next = -1 THEN clock ELSE s.next
      due   == Min({clock - first + 1, MaxCatchUp})
      After(k) ==
        [s EXCEPT !.next = first + k, !.ticks = (@ + k) % Divisor,
                  !.policy = @ \/ \E i \in s.ticks..(s.ticks + k - 1) : i % Divisor = 0]
  IN IF ~Ready(s) THEN {s}
     ELSE {[After(k) EXCEPT !.errors = TRUE] : k \in 0..(due - 1)}
          \union {[After(due) EXCEPT !.errors = @ \/ clock >= first + due]}

\* on_loop, where the tool has one.
OnLoop(s) == IF tool = "live" THEN shadow' \in ShadowTick(s) ELSE shadow' = s

(***************************************************************************)
(* The loops.                                                              *)
(***************************************************************************)

\* Top of the loop: the end of the duration, or the viewer is closed.
LoopEnds ==
  /\ At("loop") /\ (clock >= Duration \/ flags.viewer)
  /\ loop' = [loop EXCEPT !.pc = "report"]
  /\ UNCHANGED <<tool, flags, link, clock, drive, since, odd, queue, shadow, burst, result>>

Wakes ==
  /\ At("loop") /\ clock < Duration
  /\ loop' = [loop EXCEPT !.pc = IF Polling THEN "send" ELSE "select", !.woke = clock]
  /\ UNCHANGED <<tool, flags, link, clock, drive, since, odd, queue, shadow, burst, result>>

MaxSends == IF FullBody THEN Burst ELSE 1
Due == clock >= loop.next /\ loop.sends < MaxSends
NextIndex == IF tool = "single" THEN 1 ELSE (loop.index % N) + 1

\* One poll: the position echo of the next motor.
Poll ==
  /\ At("send") /\ Due
  /\ queue' \in Answered(loop.index)
  /\ burst' = burst + 1
  /\ loop' = [loop EXCEPT !.index = NextIndex, !.next = @ + 1, !.sends = @ + 1, !.tx = TRUE]
  /\ UNCHANGED <<tool, flags, link, clock, drive, since, odd, shadow, result>>

\* The kernel refuses a poll: an error of the report, or of the command.
PollRefused ==
  /\ At("send") /\ Due
  /\ IF tool = "single" THEN result' = "raised" /\ UNCHANGED loop
     ELSE loop' = [loop EXCEPT !.errors = TRUE, !.pc = "report"] /\ UNCHANGED result
  /\ UNCHANGED <<tool, flags, link, clock, drive, since, odd, queue, shadow, burst>>

\* Mutant: a backlog is replayed onto the bus.
BacklogReplayed == loop.next

\* A backlog is never replayed onto the bus.
Backlog == IF loop.sends = MaxSends /\ loop.next <= clock THEN clock + 1 ELSE loop.next

SendsDone ==
  /\ At("send") /\ ~Due
  /\ loop' = [loop EXCEPT !.next = Backlog, !.sends = 0, !.pc = "select"]
  /\ OnLoop(shadow)
  /\ UNCHANGED <<tool, flags, link, clock, drive, since, odd, queue, burst, result>>

\* select returns because of a frame, or of its timeout.
SelectReturns ==
  /\ At("select")
  /\ queue # <<>> \/ clock > loop.woke \/ (Polling /\ clock >= loop.next)
  /\ loop' = [loop EXCEPT !.pc = IF queue # <<>> THEN "read" ELSE "check"]
  /\ UNCHANGED <<tool, flags, link, clock, drive, since, odd, queue, shadow, burst, result>>

\* IMU packets between the frames of a wake-up.
ImuPacket ==
  /\ At("select") /\ FullBody /\ loop.imu < clock
  /\ loop' = [loop EXCEPT !.imu = clock]
  /\ shadow' = [shadow EXCEPT !.imu = tool = "live"]
  /\ UNCHANGED <<tool, flags, link, clock, drive, since, odd, queue, burst, result>>

GoodStatus == IF FullBody THEN {"disabled"} ELSE {"disabled", "enabled"}

\* The frames a loop counts; for the capture, all that it can stamp.
Counts(frame) ==
  \/ frame.kind = "feedback"
  \/ frame.kind = "classic" /\ ~Polling
  \/ frame.kind \in {"control", "unexpected", "malformed"} /\ tool = "capture"

\* What the loop writes down as an error of its report.
BadFrame(frame) ==
  /\ tool # "capture"
  /\ \/ frame.kind = "unexpected"
     \/ frame.kind = "classic" /\ Polling /\ frame.motor \in Selected
     \/ Counts(frame) /\ frame.motor \in Selected /\ frame.status \notin GoodStatus

\* Such a frame ends the turn, one of no known endpoint does not.
Breaks(frame) == BadFrame(frame) /\ frame.kind # "unexpected"

\* After a frame: the full-body probe and the capture read on.
ReadOn(frame, l, rest) ==
  IF /\ rest # <<>>
     /\ (FullBody /\ l.drained < MaxDrain /\ ~Breaks(frame)) \/ tool = "capture"
  THEN "read" ELSE "check"

\* What ends a command with an exception: decode_damiao_feedback refuses an
\* answer of a known endpoint, and the audit has no default for a timestamp.
Raises(frame) ==
  \/ frame.kind = "malformed" /\ tool # "capture"
  \/ frame.kind = "stampless" /\ tool = "audit"

\* One frame of the queue.
Read ==
  LET frame == Head(queue)
      mine  == frame.motor \in Selected
      l == [loop EXCEPT
              !.drained = @ + 1,
              !.errors = @ \/ BadFrame(frame),
              !.rx = IF Counts(frame) /\ mine THEN [@ EXCEPT ![frame.motor] = @ + 1] ELSE @,
              !.last = IF Counts(frame) /\ mine /\ Polling THEN [@ EXCEPT ![frame.motor] = clock] ELSE @]
  IN /\ At("read") /\ queue # <<>>
     /\ queue' = Tail(queue)
     /\ IF Raises(frame)
        THEN result' = "raised" /\ UNCHANGED <<loop, shadow>>
        ELSE /\ loop' = [l EXCEPT !.pc = ReadOn(frame, l, queue')]
             /\ OnLoop(IF tool = "live" /\ Counts(frame) /\ frame.status = "disabled"
                       THEN [shadow EXCEPT !.heard = @ \union {frame.motor}] ELSE shadow)
             /\ UNCHANGED result
     /\ UNCHANGED <<tool, flags, link, clock, drive, since, odd, burst>>

\* Mutant: the probe goes on while any motor is heard of.
SilentAll == \A m \in Selected : clock - loop.last[m] > Timeout

\* A selected motor has not been heard of.
Silent == \E m \in Selected : clock - loop.last[m] > Timeout

Check ==
  LET failed == Polling /\ (loop.errors \/ Silent \/ (FullBody /\ clock - loop.imu > Timeout))
  IN /\ At("check")
     /\ loop' = [loop EXCEPT !.pc = IF failed THEN "report" ELSE "loop", !.drained = 0, !.errors = @ \/ failed]
     /\ UNCHANGED <<tool, flags, link, clock, drive, since, odd, queue, shadow, burst, result>>

(***************************************************************************)
(* The reports.                                                            *)
(***************************************************************************)

Expected == Max({1, clock \div N})
Covered(m) == 100 * loop.rx[m] >= MinCoverage * Expected

\* DamiaoZeroGainProbeReport.passed
SinglePassed == ~loop.errors /\ loop.tx /\ loop.rx[1] > 0

\* DamiaoZeroGainGroupProbeReport.passed
GroupPassed == ~loop.errors /\ loop.tx /\ \A m \in Motors : Covered(m)

\* FullBodyShadowReport.passed: also the rates of the IMU
BodyPassed == GroupPassed /\ loop.imu > 0

\* PolicyShadowReport.passed: also in time
ShadowPassed == ~shadow.errors /\ shadow.policy

\* DamiaoRxAudit.report: also rate, gaps and queue age of the samples
AuditPassed == ~loop.errors /\ \A m \in Motors : loop.rx[m] > 0 /\ Covered(m)

\* capture_active_can_trace: a frame of the interface
CapturePassed == \E m \in Motors : loop.rx[m] > 0

Passed ==
  CASE tool = "single" -> SinglePassed
    [] tool = "group"  -> GroupPassed
    [] tool = "body"   -> BodyPassed
    [] tool = "live"   -> BodyPassed /\ ShadowPassed
    [] tool = "audit"  -> AuditPassed
    [] OTHER           -> CapturePassed

\* Rates, gaps, ages and lateness may fail the reports that look at them.
Report ==
  /\ At("report")
  /\ \/ Passed /\ result' = "passed"
     \/ (tool \in {"single", "group", "capture"} => ~Passed) /\ result' = "failed"
  /\ UNCHANGED <<tool, flags, link, clock, drive, since, odd, queue, loop, shadow, burst>>

Start ==
  \/ DamiaoRxAudit \/ DamiaoZeroGainProbe \/ DamiaoZeroGainGroupProbe
  \/ FullBodyShadowProbe \/ LivePolicyShadowProbe \/ CaptureActiveCanTrace

ProbeStep ==
  \/ Start \/ LoopEnds \/ Wakes \/ Poll \/ PollRefused \/ SendsDone
  \/ SelectReturns \/ ImuPacket \/ Read \/ Check \/ Report

ProbeNext == ProbeStep \/ OddFrame \/ DriveTrips \/ Traffic \/ Tick

(***************************************************************************)
(* What holds.                                                             *)
(***************************************************************************)

\* However late the process comes back to its loop, no more than one wake-up
\* of polls goes out in a tick: what it missed is not replayed onto the bus
\* (full_body_probe.py drops the backlog; the single and the group probe send
\* one poll in a turn).
NoBacklog == burst <= MaxSends

\* Frames of one turn: the full-body probe empties its sockets, up to
\* MaxDrain frames, the single and the group probe read one frame.
FramesPerTurn == IF FullBody THEN MaxDrain ELSE 1

\* Turns that read all the queue can hold.
EnoughTurns == {turns \in 0..MaxQueue : turns * FramesPerTurn >= MaxQueue}

\* A probe never passes on a drive that stopped being fit to be enabled
\* longer ago than the feedback timeout and the turns it takes to read what
\* the queue can hold: a frame counts as fresh when it is read, not when it
\* was sent, so a drive that died behind a full queue looks alive until its
\* last answer is read.  Past that it fails the probe, though the process is
\* late, other frames come first, and a poll or its answer may be lost.
PassedProbeIsRecent ==
  (result = "passed" /\ Polling) =>
    \A m \in {m \in Selected : drive[m] \notin GoodStatus}, turns \in EnoughTurns :
      clock - since[m] <= Timeout + turns * MaxWake
=============================================================================
