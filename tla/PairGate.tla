------------------------------- MODULE PairGate -------------------------------
(***************************************************************************)
(* The differential pairs of src/open_sprite_runtime/                      *)
(* ankle_pair_commissioning.py: run_ankle_pair_zero_torque_gate,           *)
(* _run_differential_pair_joint_pd_gate and run_ankle_pitch_direction_gate *)
(* (N = 2).  Each is the group hold line by line, with                     *)
(* guards on the joints the two motors drive together, and with a minimum  *)
(* of commands and answers that a run must reach to pass.                  *)
(***************************************************************************)
EXTENDS GroupHold

CONSTANTS
  MinCount   \* floor(0.95 * duration * rate), scaled

ASSUME PairAssumption == MinCount \in Nat \ {0}

VARIABLES
  commandCount,   \* command_count
  feedbackCount,  \* feedback_count
  latest,         \* latest: the number of the frame whose answer it holds
  asked           \* history, until the finally block: asked[m][i] is the
                  \* number of the frame that rx[m][i] answers

tally == <<commandCount, feedbackCount, latest>>
pairVars == <<vars, tally, asked>>

Tally == [Motors -> Nat]

(***************************************************************************)
(* The number of a frame sent now: -1 for an echo of the preparation, 0    *)
(* for 0xFC, k for the command of cycle k.                                 *)
(***************************************************************************)
Frame == IF pc = "ask" THEN -1 ELSE cycles

PairInit ==
  /\ Init
  /\ commandCount = [m \in Motors |-> 0]
  /\ feedbackCount = [m \in Motors |-> 0]
  /\ latest = [m \in Motors |-> -1]
  /\ asked = [m \in Motors |-> <<>>]

PairCommand ==
  /\ Command
  /\ commandCount' = [commandCount EXCEPT ![idx] = @ + 1]
  /\ UNCHANGED <<feedbackCount, latest>>

PairAccept ==
  /\ Accept
  /\ feedbackCount' =
       IF pc = "command_wait" THEN [feedbackCount EXCEPT ![idx] = @ + 1]
       ELSE feedbackCount
  /\ latest' = [latest EXCEPT ![idx] = Head(asked[idx])]
  /\ UNCHANGED commandCount

\* The answer counts before it is looked at, unless it cannot be decoded.
PairRefuse ==
  /\ Refuse
  /\ \/ answered' = answered /\ UNCHANGED feedbackCount
     \/ /\ pc = "command_wait"
        /\ answered' = answered \union {idx}
        /\ feedbackCount' = [feedbackCount EXCEPT ![idx] = @ + 1]
  /\ UNCHANGED <<commandCount, latest>>

\* Between two loops over the pair a joint check fails: the reconstruction is
\* not finite, a target lacks margin, a joint left its guards, the mapped torque
\* is too large, or at the end the joint did not respond.
JointCheckFails ==
  /\ \/ pc = "ask" /\ pass = 1
     \/ pc \in {"enable", "command"}
  /\ idx = N + 1
  /\ Raise
  /\ UNCHANGED <<counts, shutdown, busVars, tally>>

\* Mutant: the report looks at neither count.
PassedWithoutCounts ==
  /\ ~failed
  /\ \A m \in Motors :
       enables[m] = 1 /\ disables[m] >= 3 /\ finalStatus[m] = "off"

\* The passed property of the three reports.
pairPassed ==
  /\ ~failed
  /\ \A m \in Motors : commandCount[m] >= MinCount /\ feedbackCount[m] >= MinCount
  /\ \A m \in Motors :
       enables[m] = 1 /\ disables[m] >= 3 /\ finalStatus[m] = "off"

PairReport ==
  /\ pc = "verify" /\ idx = N + 1
  /\ pc' = "over"
  /\ verdict' = IF pairPassed THEN "passed" ELSE "not_passed"
  /\ UNCHANGED <<idx, pass, cycles, tries, failed, counts, shutdown, busVars, tally>>

--------------------------------------------------------------------------------
\* What a gate does as the group hold does it, without counting.
AsGroupHold ==
  \/ Ask \/ AskedAll \/ Enable \/ CycleStarts \/ HoldEnds
  \/ WatchdogExpires \/ SendRefused
  \/ \E m \in Motors : Skip(m)
  \/ Disable \/ RefusedDisable \/ PassEnds
  \/ VerifyDisable \/ VerifyEcho \/ VerifyAnswer \/ VerifyCaught \/ VerifyNext
  \/ Environment

\* The history goes along with what joins and leaves rx.
Follow ==
  asked' =
    IF pc' \in Preparing \union Powered
    THEN [m \in Motors |->
            CASE Len(rx'[m]) > Len(rx[m]) -> Append(asked[m], Frame)
              [] Len(rx'[m]) < Len(rx[m]) -> Tail(asked[m])
              [] OTHER -> asked[m]]
    ELSE [m \in Motors |-> <<>>]

PairStep ==
  \/ AsGroupHold /\ UNCHANGED tally
  \/ PairCommand \/ PairAccept \/ PairRefuse
  \/ JointCheckFails
  \/ PairReport

PairNext == PairStep /\ Follow

PairSpec == PairInit /\ [][PairNext]_pairVars

--------------------------------------------------------------------------------
(* Properties.                                                             *)

(***************************************************************************)
(* A gate is a group hold: its additional guards stop it the way an        *)
(* exception stops a hold, and it passes only where a hold would.  So it   *)
(* is fail-closed, and its report is true.                                 *)
(***************************************************************************)
ImplementsGroupHold == Spec

(***************************************************************************)
(* The two motors of a pair stay in step.  Nobody waits for the answer to  *)
(* 0xFC, so it is the first answer counted and the answers run one behind, *)
(* until one that is lost or skipped lets them catch up.  They never run   *)
(* further behind: each cycle reads one answer of each motor, and the      *)
(* joint torque is computed from answers to the last command or to the one *)
(* before (0xFC before the first, the preparation before that), so from    *)
(* states of the two motors at most a cycle apart.                         *)
(***************************************************************************)
PairInStep ==
  pc = "command" =>
    \A m \in Motors :
      LET sent == IF m < idx THEN cycles ELSE cycles - 1
      IN /\ commandCount[m] = sent /\ feedbackCount[m] = sent
         /\ latest[m] \in {sent - 1, sent}

(***************************************************************************)
(* A gate that was cut short never passes: "passed" takes MinCount cycles  *)
(* of the loop, however it was left.                                       *)
(***************************************************************************)
PassTakesCycles == verdict = "passed" => cycles >= MinCount

--------------------------------------------------------------------------------
(* Why the gate implements the hold.                                       *)

\* The hold's records say which counts are not zero.
TalliesAgree ==
  /\ commandCount \in Tally /\ feedbackCount \in Tally
  /\ commanded = {m \in Motors : commandCount[m] > 0}
  /\ answered = {m \in Motors : feedbackCount[m] > 0}

\* Why the pair stays in step: nothing is counted before the first cycle, and
\* within a cycle the motors before idx are one command and answer ahead.
CountsInLoop ==
  \A m \in Motors :
    /\ pc \in Preparing \union {"enable"} =>
         cycles = 0 /\ commandCount[m] = 0 /\ feedbackCount[m] = 0
    /\ pc \in {"command", "command_wait"} =>
         /\ cycles >= 1
         /\ feedbackCount[m] = IF m < idx THEN cycles ELSE cycles - 1
         /\ commandCount[m] =
              IF m < idx \/ (pc = "command_wait" /\ m = idx) THEN cycles
              ELSE cycles - 1
    /\ feedbackCount[m] <= commandCount[m] /\ commandCount[m] <= cycles

(***************************************************************************)
(* How far the answers run behind: the unread ones are in the order of the *)
(* frames, and after k answers read neither the last of them nor the next  *)
(* is older than the frames behind which k answers can have been read.     *)
(***************************************************************************)
Echoes(s) == \A i \in 1..Len(s) : s[i] = -1

Behind(s, read, sent) == \A i \in 1..Len(s) : s[i] \in (read + i - 1)..sent

InOrder(m) ==
  /\ asked[m] \in Seq(Int)
  /\ pc \in Preparing \union Powered => Len(asked[m]) = Len(rx[m])
  /\ pc \in Preparing => latest[m] = -1 /\ Echoes(asked[m])
  /\ pc \in Powered =>
       /\ latest[m] \in (feedbackCount[m] - 1)..commandCount[m]
       /\ Behind(asked[m], feedbackCount[m], commandCount[m])

AnswersInOrder == latest \in [Motors -> Int] /\ \A m \in Motors : InOrder(m)

==============================================================================
