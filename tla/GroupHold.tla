------------------------------- MODULE GroupHold ------------------------------
(***************************************************************************)
(* _run_fixed_group_low_gain_hold of src/open_sprite_runtime/              *)
(* motor_group_hold.py: hold the motors of one bus at their measured       *)
(* positions for two seconds, one command and one answer at a time, and    *)
(* on every way out disable them and ask each until it says so.            *)
(*                                                                         *)
(* Unlike the native controller it waits for the answer to every frame,    *)
(* has no signal handler (Ctrl-C is an exception, anywhere), and catches   *)
(* exceptions per motor while it disables.  Positions, envelopes and       *)
(* guards are abstracted to "accepted or raised".                          *)
(***************************************************************************)
EXTENDS CanDrives

CONSTANTS
  Passes,     \* 3 passes of 0xFD over the group
  MaxCycles,  \* bound: command cycles in the two seconds
  MaxTries    \* bound: verification tries per motor in its half second

ASSUME GroupAssumption ==
  /\ Passes \in Nat \ {0}
  /\ MaxCycles \in Nat
  /\ MaxTries \in Nat \ {0}

VARIABLES
  pc,           \* where the function is
  idx,          \* next motor of a loop over the group
  pass,         \* round of the preparation, pass of the disable loop
  cycles,       \* command cycles begun
  tries,        \* verification tries for this motor
  failed,       \* errors is not empty
  verdict,      \* "none", "passed", or "not_passed" (report or exception)
  commanded,    \* motors with command_count > 0
  answered,     \* motors with feedback_count > 0
  enables,      \* writer.enable_attempts
  disables,     \* writer.disable_attempts
  stops,        \* history: turns of each motor in the disable passes
  finalStatus   \* final_status

loop == <<pc, idx, pass, cycles, tries>>
outcome == <<failed, verdict>>
counts == <<commanded, answered, enables>>
shutdown == <<disables, stops, finalStatus>>
vars == <<loop, outcome, counts, shutdown, busVars>>

Preparing == {"ask", "ask_wait"}
Powered == {"enable", "command", "command_wait"}
Verifying == {"verify", "verify_echo", "verify_wait"}
Stopping == {"disable"} \union Verifying

LoopTypeOK ==
  /\ pc \in Preparing \union Powered \union Stopping \union {"over"}
  /\ idx \in 1..(N + 1)
  /\ pc \in {"ask_wait", "command_wait", "verify_echo", "verify_wait"} => idx <= N
  /\ pass \in Nat
  /\ cycles \in 0..MaxCycles
  /\ tries \in 0..MaxTries
  /\ pc \in {"verify_echo", "verify_wait"} => tries < MaxTries

RecordTypeOK ==
  /\ failed \in BOOLEAN
  /\ verdict \in {"none", "passed", "not_passed"}
  /\ commanded \subseteq Motors /\ answered \subseteq Motors
  /\ enables \in [Motors -> Nat]
  /\ disables \in [Motors -> Nat]
  /\ stops \in [Motors -> Nat]
  /\ finalStatus \in [Motors -> Status \union {"none"}]

Init ==
  /\ BusInit
  /\ pc = "ask" /\ idx = 1 /\ pass = 1 /\ cycles = 0 /\ tries = 0
  /\ failed = FALSE /\ verdict = "none"
  /\ commanded = {} /\ answered = {}
  /\ enables = [m \in Motors |-> 0]
  /\ disables = [m \in Motors |-> 0]
  /\ stops = [m \in Motors |-> 0]
  /\ finalStatus = [m \in Motors |-> "none"]

--------------------------------------------------------------------------------
(* Leaving the try block, and stepping along the motors.                   *)

EnterFinally == pc' = "disable" /\ idx' = 1 /\ pass' = 1 /\ UNCHANGED <<cycles, tries>>

\* An exception in the try block: into errors, and on to the finally block.
Raise == EnterFinally /\ failed' = TRUE /\ UNCHANGED verdict

\* The next motor in the loop at this place.
NextMotor(where) == pc' = where /\ idx' = idx + 1 /\ UNCHANGED <<pass, cycles, tries>>

\* The same motor at another place.
Await(where) == pc' = where /\ UNCHANGED <<idx, pass, cycles, tries>>

--------------------------------------------------------------------------------
(* The try block.                                                          *)

\* Mutant: the frame is written and its answer not waited for.
AskOnly ==
  /\ pc = "ask" /\ idx <= N
  /\ Deliver(idx, "poll")
  /\ NextMotor("ask")
  /\ UNCHANGED <<outcome, counts, shutdown>>

\* A zero-gain echo: for the position, then (second round) at the position.
Ask ==
  /\ pc = "ask" /\ idx <= N
  /\ Deliver(idx, "poll")
  /\ Await("ask_wait")
  /\ UNCHANGED <<outcome, counts, shutdown>>

\* The end of a preparation round.
AskedAll ==
  /\ pc = "ask" /\ idx = N + 1
  /\ idx' = 1
  /\ \/ pass = 1 /\ pass' = 2 /\ UNCHANGED pc
     \/ pass = 2 /\ pass' = 1 /\ pc' = "enable"
  /\ UNCHANGED <<cycles, tries, outcome, counts, shutdown, busVars>>

Enable ==
  /\ pc = "enable" /\ idx <= N
  /\ Deliver(idx, "enable")
  /\ enables' = [enables EXCEPT ![idx] = @ + 1]
  /\ NextMotor("enable")
  /\ UNCHANGED <<outcome, commanded, answered, shutdown>>

CycleStarts ==
  /\ pc \in {"enable", "command"} /\ idx = N + 1
  /\ cycles < MaxCycles
  /\ cycles' = cycles + 1
  /\ pc' = "command" /\ idx' = 1
  /\ UNCHANGED <<pass, tries, outcome, counts, shutdown, busVars>>

\* The two seconds are over, at the latest after MaxCycles.
HoldEnds ==
  /\ pc \in {"enable", "command"} /\ idx = N + 1
  /\ EnterFinally
  /\ UNCHANGED <<outcome, counts, shutdown, busVars>>

Command ==
  /\ pc = "command" /\ idx <= N
  /\ Deliver(idx, "command")
  /\ commanded' = commanded \union {idx}
  /\ Await("command_wait")
  /\ UNCHANGED <<outcome, answered, enables, shutdown>>

\* Mutant: a status is only refused once the motor was commanded.
ExpectedAfterAsk == IF pc = "ask_wait" THEN {"off", "on"} ELSE {"on"}

Expected == IF pc = "ask_wait" THEN {"off"} ELSE {"on"}

\* _receive_endpoint drops what other motors of the bus answered.
Skip(m) ==
  /\ pc \in {"ask_wait", "command_wait", "verify_wait"}
  /\ m # idx
  /\ TakeAnswer(m)
  /\ UNCHANGED <<loop, outcome, counts, shutdown, drive, lost>>

\* The answer is taken, has the status expected and passes the guards.
Accept ==
  /\ pc \in {"ask_wait", "command_wait"}
  /\ TakeAnswer(idx)
  /\ Head(rx[idx]) \in Expected
  /\ answered' = IF pc = "command_wait" THEN answered \union {idx} ELSE answered
  /\ NextMotor(IF pc = "ask_wait" THEN "ask" ELSE "command")
  /\ UNCHANGED <<outcome, commanded, enables, shutdown, drive, lost>>

\* It cannot be decoded, has another status or trips a guard.
Refuse ==
  /\ pc \in {"ask_wait", "command_wait"}
  /\ TakeAnswer(idx)
  /\ \/ UNCHANGED answered
     \/ pc = "command_wait" /\ answered' = answered \union {idx}
  /\ Raise
  /\ UNCHANGED <<commanded, enables, shutdown, drive, lost>>

\* Mutant: a command that is not answered is held to be answered as before.
WatchdogIgnored ==
  /\ pc = "command_wait"
  /\ NextMotor("command")
  /\ UNCHANGED <<outcome, counts, shutdown, busVars>>

\* Nothing came within 0.1 s.
WatchdogExpires ==
  /\ pc \in {"ask_wait", "command_wait"}
  /\ Raise
  /\ UNCHANGED <<counts, shutdown, busVars>>

\* The kernel refuses the frame, or the command breaks its envelope.
SendRefused ==
  /\ pc \in {"ask", "enable", "command"} /\ idx <= N
  /\ Raise
  /\ UNCHANGED <<counts, shutdown, busVars>>

--------------------------------------------------------------------------------
(* The finally block: the passes, each motor in a try of its own.          *)

Disable ==
  /\ pc = "disable" /\ idx <= N
  /\ Deliver(idx, "disable")
  /\ disables' = [disables EXCEPT ![idx] = @ + 1]
  /\ stops' = [stops EXCEPT ![idx] = @ + 1]
  /\ NextMotor("disable")
  /\ UNCHANGED <<outcome, counts, finalStatus>>

\* Mutant: one try around all passes.
RefusedDisableEndsPasses ==
  /\ pc = "disable" /\ idx <= N
  /\ failed' = TRUE
  /\ pc' = "verify" /\ idx' = 1
  /\ UNCHANGED <<pass, cycles, tries, verdict, counts, shutdown, busVars>>

RefusedDisable ==
  /\ pc = "disable" /\ idx <= N
  /\ stops' = [stops EXCEPT ![idx] = @ + 1]
  /\ failed' = TRUE
  /\ NextMotor("disable")
  /\ UNCHANGED <<verdict, counts, disables, finalStatus, busVars>>

\* sleep(0.01), then the next pass or the verification.
PassEnds ==
  /\ pc = "disable" /\ idx = N + 1
  /\ idx' = 1
  /\ IF pass < Passes THEN pass' = pass + 1 /\ UNCHANGED <<pc, tries>>
     ELSE pc' = "verify" /\ tries' = 0 /\ UNCHANGED pass
  /\ UNCHANGED <<cycles, outcome, counts, shutdown, busVars>>

--------------------------------------------------------------------------------
(* The finally block: the verification of each motor.                      *)

\* Mutant: the half second is not looked at.
TryingWithoutDeadline == pc = "verify" /\ idx <= N /\ finalStatus[idx] # "off"

\* Another try for this motor: it has not said "disabled", and there is time.
Trying == pc = "verify" /\ idx <= N /\ finalStatus[idx] # "off" /\ tries < MaxTries

TryEnds ==
  /\ pc' = "verify" /\ tries' = tries + 1
  /\ UNCHANGED <<idx, pass, cycles>>

VerifyDisable ==
  /\ Trying
  /\ Deliver(idx, "disable")
  /\ disables' = [disables EXCEPT ![idx] = @ + 1]
  /\ Await("verify_echo")
  /\ UNCHANGED <<outcome, counts, stops, finalStatus>>

VerifyEcho ==
  /\ pc = "verify_echo"
  /\ Deliver(idx, "poll")
  /\ Await("verify_wait")
  /\ UNCHANGED <<outcome, counts, shutdown>>

VerifyAnswer ==
  /\ pc = "verify_wait"
  /\ TakeAnswer(idx)
  /\ finalStatus' = [finalStatus EXCEPT ![idx] = Head(rx[idx])]
  /\ TryEnds
  /\ UNCHANGED <<outcome, counts, disables, stops, drive, lost>>

\* A refused frame, an answer that did not come or cannot be decoded, Ctrl-C.
VerifyCaught ==
  /\ Trying \/ pc \in {"verify_echo", "verify_wait"}
  /\ TryEnds
  /\ \/ UNCHANGED busVars
     \/ pc = "verify_wait" /\ TakeAnswer(idx) /\ UNCHANGED <<drive, lost>>
  /\ UNCHANGED <<outcome, counts, shutdown>>

\* Mutant: a try starts over as long as the motor has not said "disabled".
VerifyUntilDisabled ==
  /\ pc = "verify" /\ idx <= N
  /\ tries' = 0
  /\ IF finalStatus[idx] = "off" THEN idx' = idx + 1 ELSE UNCHANGED idx
  /\ UNCHANGED <<pc, pass, cycles, outcome, counts, shutdown, busVars>>

\* It said so, or its half second is over.
VerifyNext ==
  /\ pc = "verify" /\ idx <= N
  /\ failed' = (failed \/ finalStatus[idx] # "off")
  /\ idx' = idx + 1 /\ tries' = 0
  /\ UNCHANGED <<pc, pass, cycles, verdict, counts, shutdown, busVars>>

\* MotorGroupHoldReport.passed.
passed ==
  /\ ~failed
  /\ commanded = Motors /\ answered = Motors
  /\ \A m \in Motors :
       enables[m] = 1 /\ disables[m] >= 3 /\ finalStatus[m] = "off"

Report ==
  /\ pc = "verify" /\ idx = N + 1
  /\ pc' = "over"
  /\ verdict' = IF passed THEN "passed" ELSE "not_passed"
  /\ UNCHANGED <<idx, pass, cycles, tries, failed, counts, shutdown, busVars>>

--------------------------------------------------------------------------------
(* The outside.                                                            *)

\* Ctrl-C in the try block.
Interrupt ==
  /\ pc \in Preparing \union Powered
  /\ Raise
  /\ UNCHANGED <<counts, shutdown, busVars>>

\* Ctrl-C after a disable frame, in the motor's own try: the frame is out but
\* not counted.
InterruptedDisable ==
  /\ pc = "disable" /\ idx <= N
  /\ Deliver(idx, "disable")
  /\ stops' = [stops EXCEPT ![idx] = @ + 1]
  /\ failed' = TRUE
  /\ NextMotor("disable")
  /\ UNCHANGED <<verdict, counts, disables, finalStatus>>

\* Ctrl-C in the finally block outside a motor's try, as in its sleep: the
\* exception leaves the function.
Escape ==
  /\ pc \in {"disable", "verify"}
  /\ pc' = "over"
  /\ verdict' = "not_passed"
  /\ UNCHANGED <<idx, pass, cycles, tries, failed, counts, shutdown, busVars>>

DriveTrips(m) ==
  /\ Trip(m)
  /\ UNCHANGED <<loop, outcome, counts, shutdown>>

--------------------------------------------------------------------------------
Hold ==
  \/ Ask \/ AskedAll \/ Enable \/ CycleStarts \/ HoldEnds \/ Command
  \/ Accept \/ Refuse \/ WatchdogExpires \/ SendRefused

Finally ==
  \/ Disable \/ RefusedDisable \/ PassEnds
  \/ VerifyDisable \/ VerifyEcho \/ VerifyAnswer \/ VerifyCaught \/ VerifyNext
  \/ Report

Controller == Hold \/ Finally \/ \E m \in Motors : Skip(m)

Environment ==
  \/ Interrupt \/ InterruptedDisable \/ Escape
  \/ \E m \in Motors : DriveTrips(m)

Next == Controller \/ Environment

Spec == Init /\ [][Next]_vars

\* The process keeps running; its waits all have deadlines.
FairSpec == Spec /\ WF_vars(Controller)

--------------------------------------------------------------------------------
(* Properties.                                                             *)

\* Every variable has its type, and a frame or an answer is one motor's.
TypeOK == BusTypeOK /\ LoopTypeOK /\ RecordTypeOK

RunPhase ==
  CASE pc \in Preparing -> "waiting"
    [] pc \in Powered -> "armed"
    [] pc \in Stopping -> "stopping"
    [] OTHER -> "over"

(***************************************************************************)
(* The hold is fail-closed (FailClosedRun): enables after every motor of   *)
(* the group proved disabled, enables none once the finally block is       *)
(* entered, and passes only with no drive enabled, whatever is lost,       *)
(* refused, late or interrupted.                                           *)
(***************************************************************************)
FailClosed ==
  INSTANCE FailClosedRun WITH
    Drives <- Motors, enabled <- EnabledDrives, phase <- RunPhase

ImplementsFailClosedRun == FailClosed!Spec

(***************************************************************************)
(* A "disabled" in the report is true even of a run that failed: an        *)
(* enabled drive has no old "off" on its way, because each frame sent      *)
(* before enabling was answered first.                                     *)
(***************************************************************************)
DisabledIsTrue ==
  \A m \in Motors :
    drive[m] = "on" => finalStatus[m] # "off" /\ ~Waiting(m, "off")

(***************************************************************************)
(* The function reads one answer per command and never waits for the       *)
(* answer to 0xFC, so it reads one behind; it must not fall further        *)
(* behind, as a command is computed from the last answer read.             *)
(***************************************************************************)
OneBehind == pc = "command" => \A m \in Motors : Len(rx[m]) <= 1

(***************************************************************************)
(* A refused or interrupted disable of one motor costs no other motor its  *)
(* passes: who gets to the verification has tried each motor three times.  *)
(***************************************************************************)
EveryMotorInEveryPass ==
  pc \in Verifying => \A m \in Motors : stops[m] = Passes

(***************************************************************************)
(* What docs/SIM2REAL_PLAN.md:155 says of the group writer: "all-group     *)
(* disable and per-motor disabled verification on every exit path".  The   *)
(* finally block is unprotected between its start and the first try of a   *)
(* motor, and in the sleep between the passes: Ctrl-C there leaves it.     *)
(***************************************************************************)
DisabledOnEveryExit ==
  pc = "over" => \A m \in Motors : stops[m] = Passes

\* The function returns or raises, whatever fails on the way.
Termination == <>(pc = "over")

--------------------------------------------------------------------------------
(* Why they hold.                                                          *)

\* A motor that was asked and answered is disabled until the enable loop.
AskedAreOff ==
  pc \in Preparing =>
    \A m \in Motors : pass = 2 \/ m < idx => drive[m] # "on"

\* One answer per frame is read before the next frame to anyone, so only the
\* answer to 0xFC (and the one waited for) is unread.
UnreadInLoop ==
  LET atMost(k, others) ==
        \A m \in Motors : Len(rx[m]) <= (IF m = idx THEN k ELSE others)
  IN /\ pc = "ask" => atMost(0, 0)
     /\ pc = "ask_wait" => atMost(1, 0)
     /\ pc = "enable" => \A m \in Motors : Len(rx[m]) <= (IF m < idx THEN 1 ELSE 0)
     /\ pc = "command" => atMost(1, 1)
     /\ pc = "command_wait" => atMost(2, 1)

\* final_status is only written in the verification.
FinalInVerification ==
  pc \notin Verifying \union {"over"} => \A m \in Motors : finalStatus[m] = "none"

\* The passes count one turn per motor and pass.
StopsInLoop ==
  /\ pc \in Preparing => pass \in 1..2
  /\ pc \in Preparing \union Powered => \A m \in Motors : stops[m] = 0
  /\ pc = "disable" =>
       /\ pass \in 1..Passes
       /\ \A m \in Motors : stops[m] = pass - (IF m < idx THEN 0 ELSE 1)

(***************************************************************************)
(* The invariant behind the safety properties: what was asked, answered    *)
(* and left unread fits the drives in every phase.                         *)
(***************************************************************************)
AnswersAreTrue ==
  /\ DisabledIsTrue /\ EveryMotorInEveryPass
  /\ AskedAreOff /\ UnreadInLoop /\ FinalInVerification /\ StopsInLoop

==============================================================================
