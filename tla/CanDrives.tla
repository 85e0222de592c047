------------------------------ MODULE CanDrives ------------------------------
(***************************************************************************)
(* The Damiao drives and the CAN-FD buses between them and a controller,   *)
(* as the code under native/src and src/open_sprite_runtime relies on      *)
(* them: a drive answers every frame it receives with one feedback frame   *)
(* carrying its status (a disabled drive too: it answers requests, it does *)
(* not broadcast), frames of one drive stay in order, and a frame or an    *)
(* answer may be lost.  A write the kernel accepts is obeyed or lost at    *)
(* once; its answer waits in rx, in flight or in the socket, until the     *)
(* controller reads it, so an answer may be read arbitrarily late.         *)
(***************************************************************************)
EXTENDS Integers, Sequences

CONSTANTS
  N,           \* number of motors; a motor is its index in the motor vector
  MaxLost,     \* bound: frames, answers and garbled answers lost in a run
  MaxAnswers   \* bound: answers of one drive waiting in rx (then dropped)

ASSUME NAssumption == N \in Nat \ {0}
ASSUME LossAssumption == MaxLost \in Nat /\ MaxAnswers \in Nat \ {0}

VARIABLES
  drive,   \* drive[m]: what the drive really is
  rx,      \* rx[m]: statuses of the answers the controller has not read yet
  lost     \* how much the bus has lost so far

busVars == <<drive, rx, lost>>

Motors == 1..N

(***************************************************************************)
(* Status codes 0 and 1 are "off" (disabled) and "on" (enabled); every     *)
(* other code is a fault the drive latched, "trip".                        *)
(***************************************************************************)
Status == {"off", "on", "trip"}

BusTypeOK ==
  /\ drive \in [Motors -> Status]
  /\ rx \in [Motors -> Seq(Status)]
  /\ lost \in 0..MaxLost

(***************************************************************************)
(* Nothing has been sent yet; the drives are in whatever state the last    *)
(* user left them.                                                         *)
(***************************************************************************)
BusInit ==
  /\ drive \in [Motors -> Status]
  /\ rx = [m \in Motors |-> <<>>]
  /\ lost = 0

(***************************************************************************)
(* 0xFC enables a disabled drive, 0xFD disables an enabled one; a drive    *)
(* that latched a fault stays there.  A poll or an MIT command changes no  *)
(* status.                                                                 *)
(***************************************************************************)
Obey(status, frame) ==
  CASE frame = "enable" /\ status = "off" -> "on"
    [] frame = "disable" /\ status = "on" -> "off"
    [] OTHER -> status

\* The drive obeys the frame; its answer joins rx.
Answered(m, frame) ==
  /\ Len(rx[m]) < MaxAnswers
  /\ drive' = [drive EXCEPT ![m] = Obey(@, frame)]
  /\ rx' = [rx EXCEPT ![m] = Append(@, drive'[m])]
  /\ UNCHANGED lost

\* The drive obeys the frame; the full receive queue drops its answer.
Overrun(m, frame) ==
  /\ Len(rx[m]) >= MaxAnswers
  /\ drive' = [drive EXCEPT ![m] = Obey(@, frame)]
  /\ UNCHANGED <<rx, lost>>

\* The drive obeys the frame; the bus loses its answer.
AnswerLost(m, frame) ==
  /\ lost < MaxLost
  /\ drive' = [drive EXCEPT ![m] = Obey(@, frame)]
  /\ lost' = lost + 1
  /\ UNCHANGED rx

\* The bus loses the frame.
FrameLost(m) ==
  /\ lost < MaxLost
  /\ lost' = lost + 1
  /\ UNCHANGED <<drive, rx>>

\* A write to motor m that the kernel accepts.
Deliver(m, frame) ==
  \/ Answered(m, frame)
  \/ Overrun(m, frame)
  \/ AnswerLost(m, frame)
  \/ FrameLost(m)

\* The controller reads the oldest answer of m.
TakeAnswer(m) ==
  /\ rx[m] # <<>>
  /\ rx' = [rx EXCEPT ![m] = Tail(@)]

\* A drive latches a fault by itself.
Trip(m) ==
  /\ drive[m] # "trip"
  /\ drive' = [drive EXCEPT ![m] = "trip"]
  /\ UNCHANGED <<rx, lost>>

--------------------------------------------------------------------------------
(* What properties say of the drives.                                      *)

EnabledDrives == {m \in Motors : drive[m] = "on"}

\* An answer of m with this status waits to be read.
Waiting(m, status) == \E i \in 1..Len(rx[m]) : rx[m][i] = status

==============================================================================
