------------------------- MODULE SingleJointHoldProofs ------------------------
(***************************************************************************)
(* Theorems about SingleJointHold, for every number of tries, cycles and   *)
(* losses.                                                                 *)
(***************************************************************************)
EXTENDS SingleJointHold, CanDrivesProofs

\* The assumptions, as the provers need them.
LEMMA ConstantTypes ==
  /\ Motors = {motor} /\ motor = 1
  /\ MinTries \in Nat /\ MinTries >= 1
  /\ MaxTries \in Nat /\ MaxTries >= MinTries
  /\ MaxCycles \in Nat
  BY JointAssumption DEF Motors, motor

\* Every place in the function belongs to one phase.
LEMMA Places ==
  /\ Preparing = {"ask", "ask_wait"}
  /\ Powered = {"enable", "command", "command_wait"}
  /\ Stopping = {"disable", "echo", "final_wait", "report"}
  BY DEF Preparing, Powered, Stopping

--------------------------------------------------------------------------------
(* Type correctness.                                                       *)

\* What a step may do to the bus: nothing, a write, a read, or a fault.
LEMMA BusStep ==
  ASSUME [Next]_vars
  PROVE  \/ UNCHANGED busVars
         \/ \E frame \in {"poll", "enable", "command", "disable"} :
              /\ Deliver(motor, frame)
              /\ frame = "enable" => Enable
              /\ frame = "poll" => Ask \/ TryEcho
              /\ frame = "command" => Command
              /\ frame = "disable" => TryDisable \/ DisableCaught
         \/ /\ TakeAnswer(motor) /\ UNCHANGED <<drive, lost>>
            /\ Prepared \/ Accept \/ Refuse \/ FinalAnswer \/ TryCaught
         \/ DriveTrips
<1>1. CASE UNCHANGED vars
  BY <1>1 DEF vars
<1>2. CASE Ask \/ Enable \/ Command \/ TryDisable \/ TryEcho
  BY <1>2 DEF Ask, Enable, Command, TryDisable, TryEcho
<1>3. CASE Prepared \/ Accept \/ Refuse \/ FinalAnswer
  BY <1>3 DEF Prepared, Accept, Refuse, FinalAnswer
<1>4. CASE DisableCaught \/ TryCaught
  BY <1>4 DEF DisableCaught, TryCaught
<1>5. CASE RunEnds \/ Interrupted \/ TriesEnd \/ Report \/ Escape
  BY <1>5 DEF RunEnds, Interrupted, TriesEnd, Report, Escape
<1>6. CASE DriveTrips
  BY <1>6
<1> QED BY <1>1, <1>2, <1>3, <1>4, <1>5, <1>6 DEF Next, Controller

\* A step keeps the types of the bus.
LEMMA NextBusTypeOK == ASSUME BusTypeOK, [Next]_vars PROVE BusTypeOK'
<1>0. motor \in Motors
  BY ConstantTypes
<1>1. CASE UNCHANGED busVars
  BY <1>1, BusSame
<1>2. ASSUME NEW frame, Deliver(motor, frame) PROVE BusTypeOK'
  BY <1>0, <1>2, DeliverEffect
<1>3. ASSUME TakeAnswer(motor), UNCHANGED <<drive, lost>> PROVE BusTypeOK'
  BY <1>0, <1>3, TakeEffect DEF BusTypeOK
<1>4. CASE DriveTrips
  BY <1>0, <1>4 DEF DriveTrips, Trip, BusTypeOK, Status
<1> QED BY <1>1, <1>2, <1>3, <1>4, BusStep

\* 0xFC is counted when it is written, and it is written once.
NotYetEnabled == pc \in Preparing \union {"enable"} => enables = 0

\* A step keeps the types of the function's own state.
LEMMA NextRunTypeOK ==
  ASSUME TypeOK, NotYetEnabled, [Next]_vars
  PROVE  RunTypeOK' /\ NotYetEnabled'
<1> USE ConstantTypes, Places
    DEF TypeOK, RunTypeOK, NotYetEnabled, control, counts, shutdown, outcome, Goto
<1>1. CASE UNCHANGED vars
  BY <1>1 DEF vars
<1>2. CASE Ask \/ Prepared \/ Command \/ Accept \/ RunEnds
  <2>1. CASE Ask
    BY <2>1 DEF Ask
  <2>2. CASE Prepared
    BY <2>2 DEF Prepared
  <2>3. CASE Command
    BY <2>3 DEF Command
  <2>4. CASE Accept
    BY <2>4 DEF Accept
  <2>5. CASE RunEnds
    BY <2>5 DEF RunEnds
  <2> QED BY <1>2, <2>1, <2>2, <2>3, <2>4, <2>5
<1>3. CASE Enable
  <2>1. enables = 0
    BY <1>3 DEF Enable
  <2> QED BY <1>3, <2>1 DEF Enable
<1>4. CASE Refuse
  <2>1. answered' = answered \/ answered' = (answered \/ pc = "command_wait")
    BY <1>4 DEF Refuse
  <2>2. answered' \in BOOLEAN
    BY <2>1, Zenon
  <2> QED BY <1>4, <2>2 DEF Refuse, Raise
<1>5. CASE Interrupted
  BY <1>5 DEF Interrupted, Raise
<1>6. CASE TryDisable \/ DisableCaught
  <2>1. attempts < MaxTries /\ pc = "disable"
    BY <1>6 DEF TryDisable, DisableCaught, Trying
  <2>2. CASE TryDisable
    BY <2>1, <2>2 DEF TryDisable
  <2>3. CASE DisableCaught
    BY <2>1, <2>3 DEF DisableCaught
  <2> QED BY <1>6, <2>2, <2>3
<1>7. CASE TryEcho \/ TryCaught \/ TriesEnd
  BY <1>7 DEF TryEcho, TryCaught, TriesEnd
<1>8. CASE FinalAnswer
  <2>1. Head(rx[motor]) \in Status
    BY <1>8, TakeEffect DEF FinalAnswer
  <2> QED BY <1>8, <2>1 DEF FinalAnswer
<1>9. CASE Report
  <2>1. failed' \in BOOLEAN
    BY <1>9, Zenon DEF Report
  <2> QED BY <1>9, <2>1 DEF Report
<1>10. CASE Escape \/ DriveTrips
  BY <1>10 DEF Escape, DriveTrips
<1> QED
  BY <1>1, <1>2, <1>3, <1>4, <1>5, <1>6, <1>7, <1>8, <1>9, <1>10
  DEF Next, Controller

(***************************************************************************)
(* Every variable of the single-joint functions keeps its type, and 0xFC   *)
(* is written at most once.                                                *)
(***************************************************************************)
THEOREM TypeCorrect == Spec => [](TypeOK /\ NotYetEnabled)
<1>1. Init => TypeOK /\ NotYetEnabled
  <2>1. Init => BusTypeOK
    BY LossAssumption DEF Init, BusInit, BusTypeOK
  <2>2. Init => RunTypeOK /\ NotYetEnabled
    <3> SUFFICES ASSUME Init PROVE RunTypeOK /\ NotYetEnabled
      OBVIOUS
    <3>1. /\ commands \in 0..MaxCycles /\ attempts \in 0..MaxTries
          /\ disables \in 0..MinTries /\ enables = 0 /\ round = 1 /\ pc = "ask"
      BY ConstantTypes DEF Init
    <3>2. /\ answered \in BOOLEAN /\ caught \in BOOLEAN /\ failed \in BOOLEAN
          /\ finalStatus = "none" /\ verdict = "none"
      BY DEF Init
    <3> QED BY <3>1, <3>2, Places DEF RunTypeOK, NotYetEnabled
  <2> QED BY <2>1, <2>2 DEF TypeOK
<1>2. TypeOK /\ NotYetEnabled /\ [Next]_vars => (TypeOK /\ NotYetEnabled)'
  BY NextBusTypeOK, NextRunTypeOK DEF TypeOK
<1> QED BY <1>1, <1>2, PTL DEF Spec

--------------------------------------------------------------------------------
(* AnswersAreTrue, one part at a time.                                     *)

\* Nothing is tried or read in the finally block before it is entered.
LEMMA FinalStep ==
  ASSUME FinalInFinally, [Next]_vars
  PROVE  FinalInFinally'
<1> USE Places DEF FinalInFinally, control, counts, shutdown, outcome, Goto
<1>1. CASE UNCHANGED vars
  BY <1>1 DEF vars
<1>2. CASE Ask \/ Prepared \/ Enable \/ Command \/ Accept \/ RunEnds \/ DriveTrips
  BY <1>2 DEF Ask, Prepared, Enable, Command, Accept, RunEnds, DriveTrips
<1>3. CASE Refuse \/ Interrupted
  BY <1>3 DEF Refuse, Interrupted, Raise
<1>4. CASE TryDisable \/ TryEcho \/ FinalAnswer \/ DisableCaught \/ TryCaught
  BY <1>4 DEF TryDisable, TryEcho, FinalAnswer, DisableCaught, TryCaught, Trying
<1>5. CASE TriesEnd \/ Report \/ Escape
  BY <1>5 DEF TriesEnd, Report, Escape
<1> QED BY <1>1, <1>2, <1>3, <1>4, <1>5 DEF Next, Controller

\* One answer waits behind 0xFC, one more behind a poll or a command.
LEMMA UnreadStep ==
  ASSUME TypeOK, UnreadInLoop, [Next]_vars
  PROVE  UnreadInLoop'
<1> USE DEF UnreadInLoop, control, counts, shutdown, outcome, Goto
<1>0. BusTypeOK /\ motor \in Motors /\ Len(rx[motor]) \in Nat
  BY ConstantTypes DEF TypeOK, BusTypeOK
<1>1. CASE UNCHANGED vars \/ DriveTrips
  BY <1>1 DEF vars, busVars, DriveTrips, Trip
<1>2. ASSUME NEW frame, Deliver(motor, frame)
      PROVE  Len(rx'[motor]) <= Len(rx[motor]) + 1
  BY <1>0, <1>2, DeliverEffect
<1>3. CASE Ask \/ Enable \/ Command
  BY <1>0, <1>2, <1>3 DEF Ask, Enable, Command
<1>4. CASE Prepared \/ Accept
  <2>1. Len(rx'[motor]) = Len(rx[motor]) - 1
    BY <1>0, <1>4, TakeEffect DEF Prepared, Accept
  <2>2. Len(rx[motor]) >= 1
    BY <1>0, <1>4, TakeFacts DEF Prepared, Accept, BusTypeOK
  <2>3. CASE Prepared
    <3>1. pc = "ask_wait" /\ pc' \in {"ask", "enable"}
      BY <2>3 DEF Prepared
    <3>2. Len(rx[motor]) <= 1
      BY <3>1
    <3>3. \A n \in Nat : n >= 1 /\ n <= 1 => n - 1 = 0
      OBVIOUS
    <3>4. Len(rx'[motor]) = 0
      BY <1>0, <2>1, <2>2, <3>2, <3>3, Zenon
    <3>5. pc' # "ask_wait" /\ pc' # "command" /\ pc' # "command_wait"
      BY <3>1
    <3> QED BY <3>1, <3>4, <3>5
  <2>4. CASE Accept
    <3>1. pc = "command_wait" /\ pc' = "command"
      BY <2>4 DEF Accept
    <3> QED BY <1>0, <2>1, <2>2, <3>1
  <2> QED BY <1>4, <2>3, <2>4
<1>5. CASE Refuse \/ Interrupted \/ RunEnds
  BY <1>5 DEF Refuse, Interrupted, RunEnds, Raise
<1>6. CASE TryDisable \/ TryEcho \/ FinalAnswer \/ DisableCaught \/ TryCaught
  BY <1>6 DEF TryDisable, TryEcho, FinalAnswer, DisableCaught, TryCaught, Trying
<1>7. CASE TriesEnd \/ Report \/ Escape
  BY <1>7 DEF TriesEnd, Report, Escape
<1> QED BY <1>1, <1>3, <1>4, <1>5, <1>6, <1>7 DEF Next, Controller

\* Only 0xFC enables the drive.
LEMMA OnlyEnableEnables ==
  ASSUME BusTypeOK, [Next]_vars, drive'[motor] = "on", drive[motor] # "on"
  PROVE  Enable
<1>0. motor \in Motors
  BY ConstantTypes
<1>1. ASSUME NEW frame \in {"poll", "command", "disable"}, Deliver(motor, frame)
      PROVE  FALSE
  <2>1. drive'[motor] \in {drive[motor], Obey(drive[motor], frame)}
    BY <1>0, <1>1, DeliverEffect
  <2> QED BY <1>1, <2>1 DEF Obey
<1>2. ~UNCHANGED drive
  OBVIOUS
<1>3. ~DriveTrips
  BY <1>0 DEF DriveTrips, Trip, BusTypeOK
<1> QED BY <1>1, <1>2, <1>3, BusStep DEF busVars

\* A motor that said "disabled" is only enabled by 0xFC.
LEMMA AskedIsOffStep ==
  ASSUME TypeOK, DisabledIsTrue, AskedIsOff, [Next]_vars
  PROVE  AskedIsOff'
<1> USE DEF AskedIsOff, Goto
<1>0. BusTypeOK /\ motor \in Motors
  BY ConstantTypes DEF TypeOK
<1>1. CASE Enable
  BY <1>1 DEF Enable
<1>2. CASE Prepared
  <2>1. Waiting(motor, "off") /\ UNCHANGED drive
    BY <1>0, <1>2, TakeEffect DEF Prepared
  <2> QED BY <2>1 DEF DisabledIsTrue
<1>3. CASE /\ \/ pc' \notin {"ask", "enable"}
              \/ UNCHANGED control
           /\ ~Enable
  BY <1>0, <1>3, OnlyEnableEnables DEF control
<1>4. CASE UNCHANGED vars \/ DriveTrips
  BY <1>0, <1>3, <1>4, OnlyEnableEnables DEF vars, control, DriveTrips, Enable
<1>5. CASE Ask \/ Command \/ Accept \/ RunEnds
  BY <1>5 DEF Ask, Command, Accept, RunEnds
<1>6. CASE Refuse \/ Interrupted
  BY <1>6 DEF Refuse, Interrupted, Raise
<1>7. CASE TryDisable \/ TryEcho \/ FinalAnswer \/ TryCaught
  BY <1>7 DEF TryDisable, TryEcho, FinalAnswer, TryCaught
<1>8. CASE DisableCaught
  BY <1>8 DEF DisableCaught, Trying, control
<1>9. CASE TriesEnd \/ Report \/ Escape
  BY <1>9 DEF TriesEnd, Report, Escape
<1> QED
  BY <1>1, <1>2, <1>4, <1>5, <1>6, <1>7, <1>8, <1>9 DEF Next, Controller

\* An enabled drive is never called disabled, and no old "off" is on its way.
LEMMA DisabledIsTrueStep ==
  ASSUME TypeOK, DisabledIsTrue, AskedIsOff, UnreadInLoop, FinalInFinally, [Next]_vars
  PROVE  DisabledIsTrue'
<1> SUFFICES ASSUME drive'[motor] = "on"
             PROVE  finalStatus' # "off" /\ ~Waiting(motor, "off")'
  BY DEF DisabledIsTrue
<1>0. BusTypeOK /\ motor \in Motors
  BY ConstantTypes DEF TypeOK
<1>1. finalStatus # "off" /\ ~Waiting(motor, "off")
  <2>1. CASE drive[motor] = "on"
    BY <2>1 DEF DisabledIsTrue
  <2>2. CASE drive[motor] # "on"
    <3>1. pc = "enable"
      BY <1>0, <2>2, OnlyEnableEnables DEF Enable
    <3>2. Len(rx[motor]) = 0 /\ finalStatus = "none"
      BY <1>0, <3>1, Places DEF UnreadInLoop, FinalInFinally, BusTypeOK
    <3> QED BY <3>2 DEF Waiting
  <2> QED BY <2>1, <2>2
<1>2. ~Waiting(motor, "off")'
  <2>1. CASE UNCHANGED busVars
    BY <1>1, <2>1, WaitingSame DEF busVars
  <2>2. ASSUME NEW frame, Deliver(motor, frame) PROVE ~Waiting(motor, "off")'
    BY <1>0, <1>1, <2>2, DeliverEffect
  <2>3. CASE TakeAnswer(motor)
    BY <1>0, <1>1, <2>3, TakeEffect
  <2>4. CASE DriveTrips
    BY <1>1, <2>4, WaitingSame DEF DriveTrips, Trip
  <2> QED BY <2>1, <2>2, <2>3, <2>4, BusStep
<1>3. finalStatus' # "off"
  <2>1. CASE UNCHANGED finalStatus
    BY <1>1, <2>1
  <2>2. CASE FinalAnswer
    BY <1>0, <1>1, <2>2, TakeEffect DEF FinalAnswer
  <2>3. [Next]_vars /\ ~FinalAnswer => UNCHANGED finalStatus
    BY DEF Next, Controller, vars, shutdown, Ask, Prepared, Enable, Command, Accept,
           RunEnds, Refuse, Interrupted, TryDisable, TryEcho, DisableCaught, TryCaught,
           TriesEnd, Report, Escape, DriveTrips
  <2> QED BY <2>1, <2>2, <2>3
<1> QED BY <1>2, <1>3

\* Before the first frame nothing was asked, answered or written.
LEMMA InitAnswersAreTrue == Init => AnswersAreTrue
<1> SUFFICES ASSUME Init PROVE AnswersAreTrue
  OBVIOUS
<1>1. /\ pc = "ask" /\ round = 1 /\ finalStatus = "none" /\ attempts = 0
      /\ rx[motor] = <<>>
  BY ConstantTypes DEF Init, BusInit
<1>2. DisabledIsTrue /\ UnreadInLoop
  BY <1>1 DEF DisabledIsTrue, UnreadInLoop, Waiting
<1>3. AskedIsOff /\ FinalInFinally
  BY <1>1, Places DEF AskedIsOff, FinalInFinally
<1> QED BY <1>2, <1>3 DEF AnswersAreTrue

(***************************************************************************)
(* AnswersAreTrue is an inductive invariant: in every state of every run,  *)
(* what was asked, answered and left unread fits the drive.                *)
(***************************************************************************)
THEOREM AnswersStayTrue == Spec => [](TypeOK /\ AnswersAreTrue)
<1>1. Init => AnswersAreTrue
  BY InitAnswersAreTrue
<1>2. TypeOK /\ AnswersAreTrue /\ [Next]_vars => AnswersAreTrue'
  BY UnreadStep, FinalStep, AskedIsOffStep, DisabledIsTrueStep DEF AnswersAreTrue
<1> QED BY <1>1, <1>2, TypeCorrect, PTL DEF Spec

(***************************************************************************)
(* The final status "disabled" of single_joint_hold.py is true: the drive  *)
(* it was read from is not enabled, whatever answers were left unread,     *)
(* lost or late.                                                           *)
(***************************************************************************)
THEOREM FinalStatusIsTrue == Spec => []DisabledIsTrue
<1>1. AnswersAreTrue => DisabledIsTrue
  BY DEF AnswersAreTrue
<1> QED BY <1>1, AnswersStayTrue, PTL

--------------------------------------------------------------------------------
(* The tries of the finally block outlast the answers left from before.    *)

\* The answers the tries have looked at; a try looks at one at most.
Looks == IF pc \in {"echo", "final_wait"} THEN attempts - 1 ELSE attempts

\* After n looks, "enabled" is only left where the first two answers were.
OldWithin(answers, n) ==
  \A i \in 1..Len(answers) : answers[i] = "on" => i + n <= 2

(***************************************************************************)
(* As long as nothing was caught or lost, the first disable frame has      *)
(* disabled the motor, each try has taken one of at most two old answers   *)
(* away, and a third look sees an answer to a disable frame.               *)
(***************************************************************************)
OldAnswersRunOut ==
  pc \in Stopping /\ ~caught /\ lost = 0 =>
    /\ attempts = 0 => pc = "disable"
    /\ attempts > 0 => drive[motor] # "on"
    /\ OldWithin(rx[motor], Looks)
    /\ Looks >= 3 => finalStatus # "on"

\* The loop only ends when it tried often enough or the motor said "disabled".
TriedOrOff == pc = "report" => attempts >= MinTries \/ finalStatus = "off"

\* An answer to a disable frame, or to a later one, is not "enabled".
LEMMA WriteAddsNoOld ==
  ASSUME BusTypeOK, NEW frame \in {"disable", "poll"}, Deliver(motor, frame),
         frame = "disable" \/ drive[motor] # "on",
         lost = 0, lost' = 0, NEW n \in Nat, OldWithin(rx[motor], n)
  PROVE  OldWithin(rx'[motor], n) /\ drive'[motor] # "on"
<1>0. motor \in Motors /\ rx[motor] \in Seq(Status) /\ drive[motor] \in Status
  BY ConstantTypes DEF BusTypeOK
<1>1. Obey(drive[motor], frame) # "on"
  BY <1>0 DEF Obey, Status
<1>2. /\ drive' = [drive EXCEPT ![motor] = Obey(drive[motor], frame)]
      /\ rx' \in {rx, [rx EXCEPT ![motor] = Append(rx[motor], Obey(drive[motor], frame))]}
  BY <1>0, DeliverFacts
<1>3. drive'[motor] # "on"
  BY <1>0, <1>1, <1>2 DEF BusTypeOK
<1>4. CASE rx' = rx
  BY <1>3, <1>4 DEF OldWithin
<1>5. CASE rx' = [rx EXCEPT ![motor] = Append(rx[motor], Obey(drive[motor], frame))]
  <2>1. rx'[motor] = Append(rx[motor], Obey(drive[motor], frame))
    BY <1>0, <1>5 DEF BusTypeOK
  <2>2. ASSUME NEW i \in 1..Len(rx'[motor]), rx'[motor][i] = "on"
        PROVE  i \in 1..Len(rx[motor]) /\ rx[motor][i] = "on"
    BY <1>0, <1>1, <2>1, <2>2
  <2> QED BY <1>3, <2>2 DEF OldWithin
<1> QED BY <1>2, <1>4, <1>5

\* A look takes the oldest answer away.
LEMMA LookTakesOld ==
  ASSUME BusTypeOK, TakeAnswer(motor), NEW n \in Nat, OldWithin(rx[motor], n)
  PROVE  OldWithin(rx'[motor], n + 1) /\ (n >= 2 => Head(rx[motor]) # "on")
<1>0. motor \in Motors /\ rx \in [Motors -> Seq(Status)] /\ rx[motor] \in Seq(Status)
  BY ConstantTypes DEF BusTypeOK
<1>1. /\ Len(rx[motor]) >= 1 /\ Head(rx[motor]) = rx[motor][1]
      /\ rx' = [rx EXCEPT ![motor] = Tail(rx[motor])]
      /\ Len(Tail(rx[motor])) = Len(rx[motor]) - 1
      /\ \A i \in 1..(Len(rx[motor]) - 1) : Tail(rx[motor])[i] = rx[motor][i + 1]
  BY <1>0, TakeFacts
<1>2. rx'[motor] = Tail(rx[motor]) /\ Len(rx[motor]) \in Nat
  BY <1>0, <1>1
<1>3. ASSUME NEW i \in 1..Len(rx'[motor]), rx'[motor][i] = "on"
      PROVE  i + (n + 1) <= 2
  <2>1. i \in 1..(Len(rx[motor]) - 1)
    BY <1>1, <1>2, <1>3
  <2>2. i + 1 \in 1..Len(rx[motor])
    BY <1>2, <2>1
  <2>3. rx[motor][i + 1] = "on"
    BY <1>1, <1>2, <1>3, <2>1
  <2>4. (i + 1) + n <= 2
    BY <2>2, <2>3 DEF OldWithin
  <2> QED BY <2>1, <2>4
<1>4. n >= 2 => Head(rx[motor]) # "on"
  BY <1>1, <1>2 DEF OldWithin
<1> QED BY <1>3, <1>4 DEF OldWithin

\* Nothing is found again, and nothing that was caught is forgotten.
LEMMA LossesOnlyGrow ==
  ASSUME BusTypeOK, [Next]_vars
  PROVE  /\ lost' = 0 => lost = 0
         /\ caught => caught'
<1>0. motor \in Motors /\ lost \in Nat /\ MaxLost \in Nat
  BY ConstantTypes, LossAssumption DEF BusTypeOK
<1>1. lost' >= lost
  <2>1. ASSUME NEW frame, Deliver(motor, frame) PROVE lost' >= lost
    BY <1>0, <2>1, DeliverFacts
  <2>2. CASE UNCHANGED lost
    BY <1>0, <2>2
  <2> QED BY <2>1, <2>2, BusStep DEF busVars, DriveTrips, Trip
<1>2. lost' \in Nat
  BY <1>0, NextBusTypeOK DEF BusTypeOK
<1>3. caught => caught'
  BY Zenon DEF Next, Controller, vars, shutdown, Ask, Prepared, Enable, Command, Accept,
         RunEnds, Refuse, Interrupted, TryDisable, TryEcho, FinalAnswer, DisableCaught,
         TryCaught, TriesEnd, Report, Escape, DriveTrips
<1> QED BY <1>0, <1>1, <1>2, <1>3

\* Every step keeps what is known of the old answers.
LEMMA OldAnswersStep ==
  ASSUME TypeOK, UnreadInLoop, FinalInFinally, OldAnswersRunOut, TriedOrOff, [Next]_vars
  PROVE  OldAnswersRunOut' /\ TriedOrOff'
<1> USE Places DEF control, counts, shutdown, outcome, Goto
<1>0. BusTypeOK /\ motor \in Motors /\ attempts \in Nat /\ Len(rx[motor]) \in Nat
  BY ConstantTypes DEF TypeOK, RunTypeOK, BusTypeOK
<1>1. TriedOrOff'
  <2>1. CASE TriesEnd
    BY <2>1 DEF TriesEnd, TriedOrOff
  <2>2. CASE FinalAnswer
    BY <2>2 DEF FinalAnswer, TriedOrOff
  <2>3. CASE UNCHANGED vars \/ DriveTrips
    BY <2>3 DEF vars, DriveTrips, TriedOrOff
  <2>4. ~TriesEnd /\ ~FinalAnswer /\ ~DriveTrips /\ ~UNCHANGED vars => pc' # "report"
    BY DEF Next, Controller, Ask, Prepared, Enable, Command, Accept, RunEnds, Refuse, Raise,
           Interrupted, TryDisable, TryEcho, DisableCaught, TryCaught, Trying, Report, Escape
  <2> QED BY <2>1, <2>2, <2>3, <2>4 DEF TriedOrOff
<1> SUFFICES ASSUME pc' \in Stopping, ~caught', lost' = 0 PROVE OldAnswersRunOut'
  BY <1>1 DEF OldAnswersRunOut
<1>2. ~caught /\ lost = 0
  BY <1>0, LossesOnlyGrow
<1>3. CASE pc \in Preparing \union Powered
  <2>1. pc' = "disable" /\ UNCHANGED attempts
    BY <1>3 DEF Next, Controller, vars, Ask, Prepared, Enable, Command, Accept, RunEnds,
                Refuse, Raise, Interrupted, TryDisable, TryEcho, FinalAnswer, DisableCaught,
                TryCaught, Trying, TriesEnd, Report, Escape, DriveTrips
  <2>2. attempts' = 0 /\ Looks' = 0
    BY <1>3, <2>1 DEF FinalInFinally, Looks
  <2>3. Len(rx'[motor]) <= 2
    <3>1. RunEnds \/ Refuse \/ Interrupted
      BY <1>3, <2>1 DEF Next, Controller, vars, Ask, Prepared, Enable, Command, Accept,
                TryDisable, TryEcho, FinalAnswer, DisableCaught,
                TryCaught, Trying, TriesEnd, Report, Escape, DriveTrips
    <3>2. Len(rx[motor]) <= 2
      BY <1>0, <1>3 DEF UnreadInLoop
    <3>3. CASE Refuse
      BY <1>0, <3>2, <3>3, TakeEffect DEF Refuse
    <3>4. CASE RunEnds \/ Interrupted
      BY <3>2, <3>4 DEF RunEnds, Interrupted, busVars
    <3> QED BY <3>1, <3>3, <3>4
  <2>4. Len(rx'[motor]) \in Nat
    BY <1>0, NextBusTypeOK DEF BusTypeOK
  <2> QED BY <2>1, <2>2, <2>3, <2>4 DEF OldAnswersRunOut, OldWithin
<1>4. CASE pc \in Stopping
  <2>0. /\ attempts = 0 => pc = "disable"
        /\ attempts > 0 => drive[motor] # "on"
        /\ OldWithin(rx[motor], Looks) /\ Looks \in Nat
        /\ Looks >= 3 => finalStatus # "on"
    BY <1>0, <1>2, <1>4 DEF OldAnswersRunOut, Looks
  <2>1. CASE TryDisable
    <3>1. /\ Looks = attempts /\ attempts' = attempts + 1 /\ Looks' = attempts
          /\ pc' = "echo" /\ UNCHANGED finalStatus
      BY <1>0, <2>1 DEF TryDisable, Trying, Looks
    <3>2. OldWithin(rx'[motor], attempts) /\ drive'[motor] # "on"
      BY <1>0, <1>2, <2>0, <2>1, <3>1, WriteAddsNoOld DEF TryDisable
    <3> QED BY <1>0, <2>0, <3>1, <3>2 DEF OldAnswersRunOut, OldWithin
  <2>2. CASE TryEcho
    <3>1. /\ Looks = attempts - 1 /\ attempts' = attempts /\ Looks' = Looks
          /\ pc' = "final_wait" /\ UNCHANGED finalStatus /\ attempts > 0
      BY <1>0, <2>0, <2>2 DEF TryEcho, Looks
    <3>2. OldWithin(rx'[motor], Looks) /\ drive'[motor] # "on"
      BY <1>0, <1>2, <2>0, <2>2, <3>1, WriteAddsNoOld DEF TryEcho
    <3> QED BY <1>0, <2>0, <3>1, <3>2 DEF OldAnswersRunOut, OldWithin
  <2>3. CASE FinalAnswer
    <3>1. /\ Looks = attempts - 1 /\ attempts' = attempts /\ Looks' = Looks + 1
          /\ finalStatus' = Head(rx[motor]) /\ attempts > 0 /\ UNCHANGED drive
          /\ TakeAnswer(motor)
      BY <1>0, <2>0, <2>3 DEF FinalAnswer, Looks
    <3>2. OldWithin(rx'[motor], Looks + 1) /\ (Looks >= 2 => finalStatus' # "on")
      BY <1>0, <2>0, <3>1, LookTakesOld
    <3> QED BY <1>0, <2>0, <3>1, <3>2 DEF OldAnswersRunOut, OldWithin
  <2>4. CASE TriesEnd
    <3>1. attempts > 0 /\ Looks' = Looks /\ UNCHANGED <<attempts, finalStatus, drive, rx>>
      BY <1>0, <2>4, ConstantTypes DEF TriesEnd, Looks, busVars
    <3> QED BY <2>0, <3>1 DEF OldAnswersRunOut, OldWithin
  <2>5. CASE DriveTrips
    <3>1. drive'[motor] = "trip" /\ Looks' = Looks /\ UNCHANGED <<pc, attempts, finalStatus, rx>>
      BY <1>0, <2>5 DEF DriveTrips, Trip, Looks, BusTypeOK
    <3> QED BY <2>0, <3>1 DEF OldAnswersRunOut, OldWithin
  <2>6. CASE UNCHANGED vars
    BY <2>0, <2>6 DEF vars, busVars, OldAnswersRunOut, OldWithin, Looks
  <2>7. ~DisableCaught /\ ~TryCaught
    BY DEF DisableCaught, TryCaught
  <2>8. ~Report /\ ~Escape
    BY DEF Report, Escape
  <2>9. \/ TryDisable \/ TryEcho \/ FinalAnswer \/ TriesEnd \/ DriveTrips \/ UNCHANGED vars
    BY <1>4, <2>7, <2>8
    DEF Next, Controller, Ask, Prepared, Enable, Command, Accept, RunEnds, Refuse, Interrupted
  <2> QED BY <2>1, <2>2, <2>3, <2>4, <2>5, <2>6, <2>9
<1>5. CASE pc = "over"
  BY <1>5
  DEF Next, Controller, vars, Ask, Prepared, Enable, Command, Accept, RunEnds, Refuse,
      Interrupted, TryDisable, TryEcho, FinalAnswer, DisableCaught, TryCaught, Trying,
      TriesEnd, Report, Escape, DriveTrips
<1> QED BY <1>3, <1>4, <1>5 DEF TypeOK, RunTypeOK

(***************************************************************************)
(* Three tries, as in single_joint_hold.py, are enough: at most two old    *)
(* answers are unread when the finally block begins, so without a loss and *)
(* without an exception in a try, a motor that was disabled is never       *)
(* reported as enabled.                                                    *)
(***************************************************************************)
THEOREM ThreeTriesAreEnough ==
  ASSUME MinTries >= 3
  PROVE  Spec => []TriesOutlastStaleReplies
<1>1. Init => OldAnswersRunOut /\ TriedOrOff
  BY Places DEF Init, OldAnswersRunOut, TriedOrOff
<1>2. /\ TypeOK /\ AnswersAreTrue /\ OldAnswersRunOut /\ TriedOrOff /\ [Next]_vars
      => (OldAnswersRunOut /\ TriedOrOff)'
  BY OldAnswersStep DEF AnswersAreTrue
<1>3. TypeOK /\ OldAnswersRunOut /\ TriedOrOff => TriesOutlastStaleReplies
  BY ConstantTypes, Places
  DEF TypeOK, RunTypeOK, OldAnswersRunOut, TriedOrOff, Looks, TriesOutlastStaleReplies
<1> QED BY <1>1, <1>2, <1>3, AnswersStayTrue, PTL DEF Spec

--------------------------------------------------------------------------------
(* The single-joint functions implement FailClosedRun.                     *)

\* The phase of the run by the place in the function, before and after a step.
LEMMA PhaseOfPc ==
  /\ pc \in Preparing <=> RunPhase = "waiting"
  /\ pc \in Powered <=> RunPhase = "armed"
  /\ pc \in Stopping <=> RunPhase = "stopping"
  /\ pc = "over" => RunPhase = "over"
  /\ pc' \in Preparing <=> RunPhase' = "waiting"
  /\ pc' \in Powered <=> RunPhase' = "armed"
  /\ pc' \in Stopping <=> RunPhase' = "stopping"
  /\ pc' = "over" => RunPhase' = "over"
  BY DEF RunPhase, Preparing, Powered, Stopping

\* With the drive, the enabled drives stay the same.
LEMMA SameDrives == UNCHANGED drive => UNCHANGED EnabledDrives
  BY DEF EnabledDrives

\* What a step within a phase does to the drive is allowed there: 0xFC while
\* the run is armed, and losing the power stage at any time.
LEMMA WithinPhase ==
  ASSUME TypeOK, [Next]_vars, UNCHANGED verdict,
         \/ UNCHANGED pc
         \/ pc \in Preparing /\ pc' \in Preparing
         \/ pc \in Powered /\ pc' \in Powered
         \/ pc \in Stopping /\ pc' \in Stopping
  PROVE  [FailClosed!Next]_(FailClosed!failClosedVars)
<1>0. BusTypeOK /\ Motors = {motor}
  BY ConstantTypes DEF TypeOK
<1>1. UNCHANGED RunPhase
  BY PhaseOfPc DEF RunPhase
<1>2. CASE (drive'[motor] = "on") <=> (drive[motor] = "on")
  <2>1. UNCHANGED EnabledDrives
    BY <1>0, <1>2 DEF EnabledDrives
  <2> QED BY <1>1, <2>1 DEF FailClosed!failClosedVars
<1>3. CASE drive'[motor] = "on" /\ drive[motor] # "on"
  <2>1. RunPhase = "armed"
    BY <1>0, <1>3, OnlyEnableEnables, PhaseOfPc, Places DEF Enable
  <2>2. EnabledDrives' = EnabledDrives \union {motor}
    BY <1>0, <1>3 DEF EnabledDrives
  <2> QED BY <1>0, <1>1, <2>1, <2>2 DEF FailClosed!Next, FailClosed!Enable
<1>4. CASE drive'[motor] # "on" /\ drive[motor] = "on"
  <2>1. EnabledDrives' = EnabledDrives \ {motor}
    BY <1>0, <1>4 DEF EnabledDrives
  <2> QED BY <1>0, <1>1, <2>1 DEF FailClosed!Next, FailClosed!Drop
<1> QED BY <1>2, <1>3, <1>4

\* Before the first frame the run waits, whatever the drive is.
LEMMA InitRefines == Init => FailClosed!Init
<1> SUFFICES ASSUME Init PROVE FailClosed!Init
  OBVIOUS
<1>1. pc \in Preparing /\ verdict = "none"
  BY Places DEF Init
<1>2. EnabledDrives \in SUBSET Motors
  BY DEF EnabledDrives
<1> QED BY <1>1, <1>2, PhaseOfPc DEF FailClosed!Init

\* The run arms when the motor said "disabled" for the second time.
LEMMA PreparedRefines ==
  ASSUME TypeOK, AnswersAreTrue, Prepared, [Next]_vars
  PROVE  [FailClosed!Next]_(FailClosed!failClosedVars)
<1>1. pc \in Preparing /\ UNCHANGED <<drive, verdict>>
  BY Places DEF Prepared, outcome
<1>2. CASE pc' \in Preparing
  BY <1>1, <1>2, WithinPhase
<1>3. CASE pc' \notin Preparing
  <2>1. RunPhase = "waiting" /\ RunPhase' = "armed"
    BY <1>1, <1>3, PhaseOfPc, Places DEF Prepared, Goto
  <2>2. Waiting(motor, "off")
    BY ConstantTypes, TakeEffect DEF Prepared, TypeOK
  <2>3. EnabledDrives = {}
    BY <2>2, ConstantTypes DEF EnabledDrives, AnswersAreTrue, DisabledIsTrue
  <2> QED BY <1>1, <2>1, <2>3, SameDrives DEF FailClosed!Next, FailClosed!Arm
<1> QED BY <1>2, <1>3

\* "passed" needs the final "disabled", and that is true.
LEMMA ReportRefines ==
  ASSUME AnswersAreTrue, Report \/ Escape
  PROVE  [FailClosed!Next]_(FailClosed!failClosedVars)
<1>1. /\ pc \in Stopping /\ pc' = "over" /\ UNCHANGED drive
      /\ verdict' \in {"passed", "not_passed"}
      /\ verdict' = "passed" => passed
  BY Places DEF Report, Escape, Goto, busVars
<1>2. RunPhase = "stopping" /\ RunPhase' = "over"
  BY <1>1, PhaseOfPc
<1>3. passed => EnabledDrives = {}
  BY ConstantTypes DEF EnabledDrives, passed, AnswersAreTrue, DisabledIsTrue
<1> QED
  BY <1>1, <1>2, <1>3, SameDrives DEF FailClosed!Next, FailClosed!Report

\* Every step of the function is a step of FailClosedRun or a stutter.
LEMMA NextRefines ==
  ASSUME TypeOK, AnswersAreTrue, [Next]_vars
  PROVE  [FailClosed!Next]_(FailClosed!failClosedVars)
<1> USE DEF control, outcome, Goto
<1>1. CASE Prepared
  BY <1>1, PreparedRefines
<1>2. CASE Report \/ Escape
  BY <1>2, ReportRefines
<1>3. CASE RunEnds \/ Refuse \/ Interrupted
  <2>1. /\ pc \in Preparing \union Powered /\ pc' \in Stopping
        /\ UNCHANGED <<drive, verdict>>
    BY <1>3, Places DEF RunEnds, Refuse, Interrupted, Raise, busVars
  <2>2. RunPhase \in {"waiting", "armed"} /\ RunPhase' = "stopping"
    BY <2>1, PhaseOfPc
  <2> QED BY <2>1, <2>2, SameDrives DEF FailClosed!Next, FailClosed!Stop
<1>4. CASE Ask \/ Enable \/ Command \/ Accept
  BY <1>4, WithinPhase, Places DEF Ask, Enable, Command, Accept
<1>5. CASE TryDisable \/ TryEcho \/ FinalAnswer \/ DisableCaught \/ TryCaught \/ TriesEnd
  BY <1>5, WithinPhase, Places
  DEF TryDisable, TryEcho, FinalAnswer, DisableCaught, TryCaught, TriesEnd, Trying
<1>6. CASE UNCHANGED vars \/ DriveTrips
  BY <1>6, WithinPhase DEF vars, DriveTrips
<1> QED BY <1>1, <1>2, <1>3, <1>4, <1>5, <1>6 DEF Next, Controller

(***************************************************************************)
(* The single-joint hold and motion of single_joint_hold.py are            *)
(* fail-closed whatever the bus loses, the drive does, the kernel refuses  *)
(* and Ctrl-C interrupts: they arm only a disabled drive, enable it no     *)
(* more in the finally block, and pass only when it is not enabled.        *)
(***************************************************************************)
THEOREM FailClosedRefined == Spec => ImplementsFailClosedRun
<1>1. Init => FailClosed!Init
  BY InitRefines
<1>2. (TypeOK /\ AnswersAreTrue) /\ [Next]_vars
        => [FailClosed!Next]_(FailClosed!failClosedVars)
  BY NextRefines
<1> QED
  BY <1>1, <1>2, AnswersStayTrue, PTL
  DEF Spec, ImplementsFailClosedRun, FailClosed!Spec

==============================================================================
