---------------------------- MODULE SingleJointHold ---------------------------
(***************************************************************************)
(* run_head_yaw_low_gain_hold and run_head_yaw_low_gain_motion of          *)
(* src/open_sprite_runtime/single_joint_hold.py, through which every       *)
(* single-joint hold and motion runs: one motor, commanded at 50 Hz, and   *)
(* on every way out a loop that disables it, asks it and looks at one      *)
(* answer, at least three times and then until it says "disabled" or half  *)
(* a second is over.                                                       *)
(*                                                                         *)
(* The two functions differ in the targets and the margins checked, which  *)
(* are abstracted to "accepted or raised".                                 *)
(***************************************************************************)
EXTENDS CanDrives

CONSTANTS
  MinTries,   \* 3 tries, and 3 counted disable frames, at least
  MaxTries,   \* bound: tries within half a second
  MaxCycles   \* bound: commands in the run

\* The writer of these functions has one motor.
ASSUME JointAssumption ==
  /\ N = 1
  /\ MinTries \in Nat \ {0} /\ MaxTries \in Nat /\ MaxTries >= MinTries
  /\ MaxCycles \in Nat

VARIABLES
  pc,           \* where the function is
  round,        \* the first or the second echo of the preparation
  commands,     \* command_count
  answered,     \* feedback_count > 0
  enables,      \* writer.enable_attempts
  disables,     \* writer.disable_attempts, counted up to MinTries
  attempts,     \* shutdown_attempts
  caught,       \* history: shutdown_error is not None
  finalStatus,  \* final_status
  failed,       \* errors is not empty
  verdict       \* "none", "passed", or "not_passed" (report or exception)

control == <<pc, round>>
counts == <<commands, answered, enables>>
shutdown == <<disables, attempts, caught, finalStatus>>
outcome == <<failed, verdict>>
vars == <<control, counts, shutdown, outcome, busVars>>

motor == 1

Preparing == {"ask", "ask_wait"}
Powered == {"enable", "command", "command_wait"}
Stopping == {"disable", "echo", "final_wait", "report"}

RunTypeOK ==
  /\ pc \in Preparing \union Powered \union Stopping \union {"over"}
  /\ round \in 1..2
  /\ commands \in 0..MaxCycles
  /\ answered \in BOOLEAN
  /\ enables \in 0..1
  /\ attempts \in 0..MaxTries
  /\ disables \in 0..MinTries
  /\ caught \in BOOLEAN
  /\ finalStatus \in Status \union {"none"}
  /\ failed \in BOOLEAN
  /\ verdict \in {"none", "passed", "not_passed"}

Init ==
  /\ BusInit
  /\ pc = "ask" /\ round = 1
  /\ commands = 0 /\ answered = FALSE /\ enables = 0
  /\ disables = 0 /\ attempts = 0 /\ caught = FALSE /\ finalStatus = "none"
  /\ failed = FALSE /\ verdict = "none"

--------------------------------------------------------------------------------
(* The try block.                                                          *)

Goto(where) == pc' = where /\ UNCHANGED round

\* An exception in the try block: into errors, and on to the finally block.
Raise == Goto("disable") /\ failed' = TRUE /\ UNCHANGED verdict

\* Mutant: the echo is written and its answer not waited for.
AskOnly ==
  /\ pc = "ask"
  /\ Deliver(motor, "poll")
  /\ \/ round = 1 /\ pc' = "ask" /\ round' = 2
     \/ round = 2 /\ Goto("enable")
  /\ UNCHANGED <<counts, shutdown, outcome>>

\* A zero-gain echo, first for the position and then at the position.
Ask ==
  /\ pc = "ask"
  /\ Deliver(motor, "poll")
  /\ Goto("ask_wait")
  /\ UNCHANGED <<counts, shutdown, outcome>>

\* Mutant: the answers may have any status.
PreparedUnchecked ==
  /\ pc = "ask_wait"
  /\ TakeAnswer(motor)
  /\ \/ round = 1 /\ pc' = "ask" /\ round' = 2
     \/ round = 2 /\ Goto("enable")
  /\ UNCHANGED <<counts, shutdown, outcome, drive, lost>>

\* The motor says it is disabled, and its position leaves the margins.
Prepared ==
  /\ pc = "ask_wait"
  /\ TakeAnswer(motor)
  /\ Head(rx[motor]) = "off"
  /\ \/ round = 1 /\ pc' = "ask" /\ round' = 2
     \/ round = 2 /\ Goto("enable")
  /\ UNCHANGED <<counts, shutdown, outcome, drive, lost>>

Enable ==
  /\ pc = "enable"
  /\ Deliver(motor, "enable")
  /\ enables' = enables + 1
  /\ Goto("command")
  /\ UNCHANGED <<commands, answered, shutdown, outcome>>

Command ==
  /\ pc = "command" /\ commands < MaxCycles
  /\ Deliver(motor, "command")
  /\ commands' = commands + 1
  /\ Goto("command_wait")
  /\ UNCHANGED <<answered, enables, shutdown, outcome>>

Accept ==
  /\ pc = "command_wait"
  /\ TakeAnswer(motor)
  /\ Head(rx[motor]) = "on"
  /\ answered' = TRUE
  /\ Goto("command")
  /\ UNCHANGED <<commands, enables, shutdown, outcome, drive, lost>>

\* The time is over, at the latest after MaxCycles commands.
RunEnds ==
  /\ pc = "command"
  /\ Goto("disable")
  /\ UNCHANGED <<counts, shutdown, outcome, busVars>>

\* The answer cannot be decoded, has another status, or trips a guard.
Refuse ==
  /\ pc \in {"ask_wait", "command_wait"}
  /\ TakeAnswer(motor)
  /\ answered' \in {answered, answered \/ pc = "command_wait"}
  /\ Raise
  /\ UNCHANGED <<commands, enables, shutdown, drive, lost>>

\* The kernel refuses the frame, the command breaks its envelope, nothing came
\* within the watchdog's 0.1 s, or Ctrl-C.
Interrupted ==
  /\ pc \in Preparing \union Powered
  /\ Raise
  /\ UNCHANGED <<counts, shutdown, busVars>>

--------------------------------------------------------------------------------
(* The finally block.                                                      *)

\* The condition of the loop.  Time is up at the latest after MaxTries.
Trying ==
  /\ pc = "disable"
  /\ \/ attempts < MinTries
     \/ finalStatus # "off" /\ attempts < MaxTries

TryDisable ==
  /\ Trying
  /\ Deliver(motor, "disable")
  /\ attempts' = attempts + 1
  /\ disables' = IF disables < MinTries THEN disables + 1 ELSE disables
  /\ Goto("echo")
  /\ UNCHANGED <<counts, caught, finalStatus, outcome>>

TryEcho ==
  /\ pc = "echo"
  /\ Deliver(motor, "poll")
  /\ Goto("final_wait")
  /\ UNCHANGED <<counts, shutdown, outcome>>

\* Mutant: the tries start over while the motor has not said "disabled".
FinalAnswerStartsOver ==
  /\ pc = "final_wait"
  /\ TakeAnswer(motor)
  /\ finalStatus' = Head(rx[motor])
  /\ attempts' = IF Head(rx[motor]) = "off" THEN attempts ELSE 0
  /\ Goto("disable")
  /\ UNCHANGED <<counts, disables, caught, outcome, drive, lost>>

FinalAnswer ==
  /\ pc = "final_wait"
  /\ TakeAnswer(motor)
  /\ finalStatus' = Head(rx[motor])
  /\ Goto(IF disables >= MinTries /\ Head(rx[motor]) = "off"
          THEN "report" ELSE "disable")
  /\ UNCHANGED <<counts, disables, attempts, caught, outcome, drive, lost>>

\* The disable frame is refused, or Ctrl-C before it counts.
DisableCaught ==
  /\ Trying
  /\ Deliver(motor, "disable") \/ UNCHANGED busVars
  /\ attempts' = attempts + 1
  /\ caught' = TRUE
  /\ UNCHANGED <<control, counts, disables, finalStatus, outcome>>

\* The echo is refused, its answer does not come or cannot be decoded, Ctrl-C.
TryCaught ==
  /\ pc \in {"echo", "final_wait"}
  /\ \/ UNCHANGED busVars
     \/ pc = "final_wait" /\ TakeAnswer(motor) /\ UNCHANGED <<drive, lost>>
  /\ caught' = TRUE
  /\ Goto("disable")
  /\ UNCHANGED <<counts, disables, attempts, finalStatus, outcome>>

\* Mutant: twice is often enough.
TriesEndEarly ==
  /\ pc = "disable" /\ attempts >= MinTries - 1
  /\ Goto("report")
  /\ UNCHANGED <<counts, shutdown, outcome, busVars>>

\* Tried often enough, and disabled or the half second is over.
TriesEnd ==
  /\ pc = "disable" /\ attempts >= MinTries
  /\ Goto("report")
  /\ UNCHANGED <<counts, shutdown, outcome, busVars>>

\* The passed property of both reports.
passed ==
  /\ ~failed /\ finalStatus = "off"
  /\ commands > 0 /\ answered /\ enables = 1 /\ disables >= MinTries

Report ==
  /\ pc = "report"
  /\ failed' = (failed \/ finalStatus # "off")
  /\ verdict' = IF passed THEN "passed" ELSE "not_passed"
  /\ Goto("over")
  /\ UNCHANGED <<counts, shutdown, busVars>>

\* Ctrl-C in the finally block but outside the try: the exception leaves.
Escape ==
  /\ pc \in {"disable", "report"}
  /\ verdict' = "not_passed"
  /\ Goto("over")
  /\ UNCHANGED <<counts, shutdown, failed, busVars>>

DriveTrips ==
  /\ Trip(motor)
  /\ UNCHANGED <<control, counts, shutdown, outcome>>

--------------------------------------------------------------------------------
Controller ==
  \/ Ask \/ Prepared \/ Enable \/ Command \/ Accept \/ RunEnds \/ Refuse
  \/ Interrupted
  \/ TryDisable \/ TryEcho \/ FinalAnswer \/ DisableCaught \/ TryCaught
  \/ TriesEnd \/ Report

Next == Controller \/ Escape \/ DriveTrips

Spec == Init /\ [][Next]_vars

\* The process keeps running; its waits all have deadlines.
FairSpec == Spec /\ WF_vars(Controller)

--------------------------------------------------------------------------------
(* Properties.                                                             *)

\* Every variable has its type.
TypeOK == BusTypeOK /\ RunTypeOK

RunPhase ==
  CASE pc \in Preparing -> "waiting"
    [] pc \in Powered -> "armed"
    [] pc \in Stopping -> "stopping"
    [] OTHER -> "over"

(***************************************************************************)
(* The run is fail-closed (FailClosedRun), though its disable loop looks   *)
(* at one answer per try and there may be older ones before it.            *)
(***************************************************************************)
FailClosed ==
  INSTANCE FailClosedRun WITH
    Drives <- Motors, enabled <- EnabledDrives, phase <- RunPhase

ImplementsFailClosedRun == FailClosed!Spec

\* A drive that the report calls disabled is not enabled, nor is an old "off"
\* of an enabled drive on its way.
DisabledIsTrue ==
  drive[motor] = "on" => finalStatus # "off" /\ ~Waiting(motor, "off")

(***************************************************************************)
(* The comment at line 242: an old "enabled" in the receive queue must not *)
(* be taken for the state after the disable frame.  At most two answers    *)
(* are unread when the tries begin, so the third try, if none was caught   *)
(* and nothing lost, reads an answer to a disable frame: a motor that was  *)
(* disabled is never reported as not, even if the time is up by then.      *)
(***************************************************************************)
TriesOutlastStaleReplies ==
  pc = "report" /\ ~caught /\ lost = 0 => finalStatus # "on"

\* The function returns or raises, whatever fails on the way.
Termination == <>(pc = "over")

--------------------------------------------------------------------------------
(* Why they hold.                                                          *)

\* A motor that said "disabled" is not enabled before 0xFC.
AskedIsOff ==
  (pc = "ask" /\ round = 2) \/ pc = "enable" => drive[motor] # "on"

\* Only the answer to 0xFC and the one waited for are unread.
UnreadInLoop ==
  LET unread == Len(rx[motor])
  IN /\ pc \in {"ask", "enable"} => unread = 0
     /\ pc \in {"ask_wait", "command"} => unread <= 1
     /\ pc = "command_wait" => unread <= 2

\* final_status is only written in the finally block.
FinalInFinally ==
  pc \in Preparing \union Powered => finalStatus = "none" /\ attempts = 0

(***************************************************************************)
(* The invariant behind the safety properties.                             *)
(***************************************************************************)
AnswersAreTrue ==
  DisabledIsTrue /\ AskedIsOff /\ UnreadInLoop /\ FinalInFinally

==============================================================================
