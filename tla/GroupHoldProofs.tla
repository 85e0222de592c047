---------------------------- MODULE GroupHoldProofs ---------------------------
(***************************************************************************)
(* Theorems about GroupHold and PairGate, for every number of motors,      *)
(* passes, cycles, tries and losses.                                       *)
(***************************************************************************)
EXTENDS PairGate, CanDrivesProofs

--------------------------------------------------------------------------------
(* Type correctness, one conjunct at a time.                               *)

\* The assumptions, as the provers need them.
LEMMA ConstantTypes ==
  /\ N \in Nat /\ N >= 1
  /\ Passes \in Nat /\ Passes >= 1
  /\ MaxCycles \in Nat
  /\ MaxTries \in Nat /\ MaxTries >= 1
  BY NAssumption, GroupAssumption

\* Before the first frame everything has its type.
LEMMA InitTypeOK == Init => TypeOK
<1> SUFFICES ASSUME Init PROVE TypeOK
  OBVIOUS
<1>1. BusTypeOK
  BY LossAssumption DEF Init, BusInit, BusTypeOK
<1>2. LoopTypeOK
  BY ConstantTypes DEF Init, LoopTypeOK, Preparing
<1>3. RecordTypeOK
  BY DEF Init, RecordTypeOK
<1> QED BY <1>1, <1>2, <1>3 DEF TypeOK

\* While the function is in a loop, idx is one of its motors.
LEMMA CurrentMotor ==
  ASSUME LoopTypeOK
  PROVE  /\ idx <= N => idx \in Motors
         /\ pc \in {"ask_wait", "command_wait", "verify_echo", "verify_wait"}
              => idx \in Motors
  BY ConstantTypes DEF LoopTypeOK, Motors

\* What a step may do to the buses: nothing, a write to the current motor, a
\* read of one motor's answer, or a fault of a drive.
LEMMA BusStep ==
  ASSUME TypeOK, [Next]_vars
  PROVE  \/ UNCHANGED busVars
         \/ /\ idx \in Motors
            /\ \E frame \in {"poll", "enable", "command", "disable"} :
                 /\ Deliver(idx, frame)
                 /\ frame = "enable" => Enable
                 /\ frame = "poll" => Ask \/ VerifyEcho
                 /\ frame = "command" => Command
                 /\ frame = "disable" =>
                      Disable \/ VerifyDisable \/ InterruptedDisable
         \/ /\ \E m \in Motors : TakeAnswer(m)
            /\ UNCHANGED <<drive, lost>>
         \/ \E m \in Motors : DriveTrips(m)
<1> USE CurrentMotor DEF TypeOK
<1>1. CASE UNCHANGED vars
  BY <1>1 DEF vars
<1>2. CASE Ask \/ VerifyEcho
  BY <1>2 DEF Ask, VerifyEcho
<1>3. CASE Enable \/ Command
  BY <1>3 DEF Enable, Command
<1>4. CASE Disable \/ VerifyDisable \/ InterruptedDisable
  BY <1>4 DEF Disable, VerifyDisable, InterruptedDisable, Trying
<1>5. CASE Accept \/ Refuse \/ VerifyAnswer \/ \E m \in Motors : Skip(m)
  BY <1>5 DEF Accept, Refuse, VerifyAnswer, Skip
<1>6. CASE VerifyCaught
  BY <1>6 DEF VerifyCaught
<1>7. CASE \E m \in Motors : DriveTrips(m)
  BY <1>7
<1>8. CASE \/ AskedAll \/ CycleStarts \/ HoldEnds \/ WatchdogExpires
           \/ SendRefused \/ RefusedDisable \/ PassEnds \/ VerifyNext \/ Report
           \/ Interrupt \/ Escape
  BY <1>8
  DEF AskedAll, CycleStarts, HoldEnds, WatchdogExpires, SendRefused,
      RefusedDisable, PassEnds, VerifyNext, Report, Interrupt, Escape
<1> QED
  BY <1>1, <1>2, <1>3, <1>4, <1>5, <1>6, <1>7, <1>8
  DEF Next, Controller, Environment, Hold, Finally

\* A step keeps the types of the buses.
LEMMA NextBusTypeOK == ASSUME TypeOK, [Next]_vars PROVE BusTypeOK'
<1> USE DEF TypeOK
<1>1. CASE UNCHANGED busVars
  BY <1>1, BusSame
<1>2. ASSUME idx \in Motors, NEW frame, Deliver(idx, frame) PROVE BusTypeOK'
  BY <1>2, DeliverEffect
<1>3. ASSUME NEW m \in Motors, TakeAnswer(m), UNCHANGED <<drive, lost>>
      PROVE  BusTypeOK'
  BY <1>3, TakeEffect DEF BusTypeOK
<1>4. ASSUME NEW m \in Motors, DriveTrips(m) PROVE BusTypeOK'
  BY <1>4 DEF DriveTrips, Trip, BusTypeOK, Status
<1> QED BY <1>1, <1>2, <1>3, <1>4, BusStep

\* A step keeps the types of the place in the function.
LEMMA NextLoopTypeOK == ASSUME TypeOK, [Next]_vars PROVE LoopTypeOK'
<1> USE ConstantTypes
    DEF TypeOK, LoopTypeOK, loop, Preparing, Powered, Verifying, Stopping
<1>1. CASE UNCHANGED loop
  BY <1>1
<1>2. CASE Raise \/ EnterFinally
  BY <1>2 DEF Raise, EnterFinally
<1>3. ASSUME NEW where \in {"ask", "enable", "command", "disable"}, idx <= N,
             NextMotor(where)
      PROVE  LoopTypeOK'
  BY <1>3 DEF NextMotor
<1>4. ASSUME NEW where \in {"ask_wait", "command_wait", "verify_echo",
                            "verify_wait"},
             idx <= N, Await(where),
             where \in {"verify_echo", "verify_wait"} => tries < MaxTries
      PROVE  LoopTypeOK'
  BY <1>4 DEF Await
<1>5. CASE AskedAll \/ PassEnds
  BY <1>5 DEF AskedAll, PassEnds
<1>6. CASE CycleStarts \/ VerifyNext
  BY <1>6 DEF CycleStarts, VerifyNext
<1>7. CASE Report \/ Escape
  BY <1>7 DEF Report, Escape
<1>8. CASE VerifyAnswer \/ VerifyCaught
  <2>1. TryEnds
    BY <1>8 DEF VerifyAnswer, VerifyCaught
  <2>2. pc \in Verifying
    BY <1>8 DEF VerifyAnswer, VerifyCaught, Trying
  <2>3. tries < MaxTries
    BY <1>8 DEF VerifyAnswer, VerifyCaught, Trying
  <2> QED BY <2>1, <2>2, <2>3 DEF TryEnds
<1>9. CASE Ask \/ Command
  BY <1>4, <1>9 DEF Ask, Command
<1>10. CASE VerifyDisable \/ VerifyEcho
  BY <1>4, <1>10 DEF VerifyDisable, VerifyEcho, Trying
<1>11. CASE Enable \/ Disable \/ RefusedDisable \/ InterruptedDisable
  BY <1>3, <1>11 DEF Enable, Disable, RefusedDisable, InterruptedDisable
<1>12. CASE Accept
  BY <1>3, <1>12 DEF Accept
<1>13. CASE Refuse \/ WatchdogExpires \/ SendRefused \/ HoldEnds \/ Interrupt
  BY <1>2, <1>13
  DEF Refuse, WatchdogExpires, SendRefused, HoldEnds, Interrupt
<1>14. CASE \/ UNCHANGED vars \/ \E m \in Motors : Skip(m) \/ DriveTrips(m)
  BY <1>1, <1>14 DEF vars, Skip, DriveTrips
<1> QED
  BY <1>5, <1>6, <1>7, <1>8, <1>9, <1>10, <1>11, <1>12, <1>13, <1>14
  DEF Next, Controller, Environment, Hold, Finally

\* A step keeps the types of what is recorded.
LEMMA NextRecordTypeOK == ASSUME TypeOK, [Next]_vars PROVE RecordTypeOK'
<1> USE DEF TypeOK, RecordTypeOK, outcome, counts, shutdown
<1>0. idx <= N => idx \in Motors
  BY CurrentMotor
<1>1. CASE UNCHANGED <<outcome, counts, shutdown>>
  BY <1>1
<1>2. CASE Enable
  BY <1>0, <1>2 DEF Enable
<1>3. CASE Command
  BY <1>0, <1>3 DEF Command
<1>4. CASE Accept \/ Refuse
  <2>1. answered' \in {answered, answered \union {idx}} /\ idx \in Motors
    BY <1>4, CurrentMotor DEF Accept, Refuse
  <2>2. UNCHANGED <<commanded, enables, verdict, shutdown>>
    BY <1>4 DEF Accept, Refuse, Raise
  <2>3. failed' \in BOOLEAN
    BY <1>4 DEF Accept, Refuse, Raise
  <2> QED BY <2>1, <2>2, <2>3
<1>5. CASE Disable \/ VerifyDisable
  BY <1>0, <1>5 DEF Disable, VerifyDisable, Trying
<1>6. CASE RefusedDisable \/ InterruptedDisable
  <2>1. /\ idx \in Motors /\ stops' = [stops EXCEPT ![idx] = @ + 1]
        /\ failed' = TRUE
        /\ UNCHANGED <<verdict, commanded, answered, enables, disables,
                       finalStatus>>
    BY <1>0, <1>6 DEF RefusedDisable, InterruptedDisable
  <2>2. stops' \in [Motors -> Nat]
    BY <2>1
  <2> QED BY <2>1, <2>2
<1>7. CASE VerifyAnswer
  <2>1. idx \in Motors /\ Head(rx[idx]) \in Status
    BY <1>7, CurrentMotor, TakeEffect DEF VerifyAnswer, BusTypeOK
  <2> QED BY <1>7, <2>1 DEF VerifyAnswer
<1>8. CASE WatchdogExpires \/ SendRefused \/ Interrupt
  BY <1>8 DEF WatchdogExpires, SendRefused, Interrupt, Raise
<1>9. CASE VerifyNext \/ Report \/ Escape
  <2>1. failed' \in BOOLEAN
    <3>1. CASE VerifyNext
      BY <3>1, Zenon DEF VerifyNext
    <3>2. CASE Report \/ Escape
      BY <3>2 DEF Report, Escape
    <3> QED BY <1>9, <3>1, <3>2
  <2>2. verdict' \in {"none", "passed", "not_passed"}
    BY <1>9 DEF VerifyNext, Report, Escape
  <2>3. UNCHANGED <<counts, shutdown>>
    BY <1>9 DEF VerifyNext, Report, Escape
  <2> QED BY <2>1, <2>2, <2>3
<1>10. CASE \/ Ask \/ AskedAll \/ CycleStarts \/ HoldEnds \/ PassEnds
            \/ VerifyEcho \/ VerifyCaught \/ UNCHANGED vars
            \/ \E m \in Motors : Skip(m) \/ DriveTrips(m)
  BY <1>1, <1>10
  DEF Ask, AskedAll, CycleStarts, HoldEnds, PassEnds, VerifyEcho,
      VerifyCaught, vars, Skip, DriveTrips
<1> QED
  BY <1>2, <1>3, <1>4, <1>5, <1>6, <1>7, <1>8, <1>9, <1>10
  DEF Next, Controller, Environment, Hold, Finally

\* A step keeps every type.
LEMMA NextTypeOK == ASSUME TypeOK, [Next]_vars PROVE TypeOK'
  BY NextBusTypeOK, NextLoopTypeOK, NextRecordTypeOK DEF TypeOK

(***************************************************************************)
(* Every variable of the group hold keeps its type.                        *)
(***************************************************************************)
THEOREM TypeCorrect == Spec => []TypeOK
<1>1. Init => TypeOK
  BY InitTypeOK
<1>2. TypeOK /\ [Next]_vars => TypeOK'
  BY NextTypeOK
<1> QED BY <1>1, <1>2, PTL DEF Spec

--------------------------------------------------------------------------------
(* AnswersAreTrue, one part at a time: the loops first.                     *)

\* The passes count one turn per motor, and reach Passes when they end.
LEMMA StopsStep ==
  ASSUME TypeOK, StopsInLoop, EveryMotorInEveryPass, [Next]_vars
  PROVE  StopsInLoop' /\ EveryMotorInEveryPass'
<1> USE ConstantTypes
    DEF StopsInLoop, EveryMotorInEveryPass, Preparing, Powered, Verifying
<1>0. /\ pc \in Preparing \union Powered \union Stopping \union {"over"}
      /\ idx \in 1..(N + 1) /\ pass \in Nat
      /\ stops \in [Motors -> Nat] /\ Motors = 1..N
  BY DEF TypeOK, LoopTypeOK, RecordTypeOK, Motors
<1>1. CASE UNCHANGED <<pc, idx, pass, stops>>
  BY <1>1
<1>2. CASE /\ pc \in Preparing \union Powered /\ EnterFinally
           /\ UNCHANGED stops
  BY <1>0, <1>2 DEF EnterFinally
<1>3. CASE /\ pc \in {"enable", "command", "command_wait"}
           /\ pc' \in Powered /\ UNCHANGED stops
  BY <1>0, <1>3
<1>4. CASE /\ pc \in Preparing /\ pc' \in Preparing
           /\ UNCHANGED <<pass, stops>>
  BY <1>0, <1>4
<1>5. CASE /\ pc \in Verifying /\ pc' \in Verifying \union {"over"}
           /\ UNCHANGED stops
  BY <1>0, <1>5
<1>6. CASE AskedAll
  BY <1>0, <1>6 DEF AskedAll, shutdown
<1>7. CASE /\ pc = "disable" /\ idx <= N
           /\ stops' = [stops EXCEPT ![idx] = @ + 1]
           /\ NextMotor("disable")
  BY <1>0, <1>7 DEF NextMotor
<1>8. CASE PassEnds
  BY <1>0, <1>8 DEF PassEnds, shutdown
<1>9. CASE Escape
  BY <1>0, <1>9 DEF Escape
<1>10. CASE HoldEnds \/ WatchdogExpires \/ SendRefused \/ Refuse \/ Interrupt
  BY <1>2, <1>10
  DEF HoldEnds, WatchdogExpires, SendRefused, Refuse, Interrupt, Raise,
      shutdown
<1>11. CASE Ask \/ (Accept /\ pc = "ask_wait")
  BY <1>4, <1>11 DEF Ask, Accept, Await, NextMotor, shutdown
<1>12. CASE Enable \/ CycleStarts \/ Command \/ (Accept /\ pc # "ask_wait")
  BY <1>3, <1>12
  DEF Enable, CycleStarts, Command, Accept, Await, NextMotor, shutdown
<1>13. CASE Disable \/ RefusedDisable \/ InterruptedDisable
  BY <1>7, <1>13 DEF Disable, RefusedDisable, InterruptedDisable
<1>14. CASE VerifyDisable \/ VerifyEcho \/ VerifyNext \/ Report
  BY <1>5, <1>14
  DEF VerifyDisable, VerifyEcho, VerifyNext, Report, Trying, Await, shutdown
<1>15. CASE VerifyAnswer \/ VerifyCaught
  BY <1>5, <1>15 DEF VerifyAnswer, VerifyCaught, Trying, TryEnds, shutdown
<1>16. CASE \/ UNCHANGED vars \/ \E m \in Motors : Skip(m) \/ DriveTrips(m)
  BY <1>1, <1>16 DEF vars, loop, shutdown, Skip, DriveTrips
<1> QED
  BY <1>6, <1>8, <1>9, <1>10, <1>11, <1>12, <1>13, <1>14, <1>15, <1>16
  DEF Next, Controller, Environment, Hold, Finally

\* final_status is written by VerifyAnswer alone, and nothing leads back from
\* the verification.
LEMMA FinalStep ==
  ASSUME TypeOK, FinalInVerification, [Next]_vars
  PROVE  /\ FinalInVerification'
         /\ UNCHANGED finalStatus \/ VerifyAnswer
<1> USE DEF FinalInVerification, Preparing, Powered, Verifying
<1>1. CASE VerifyAnswer
  BY <1>1 DEF VerifyAnswer, TryEnds
<1>2. CASE /\ UNCHANGED finalStatus
           /\ pc \in Verifying \union {"over"} =>
                pc' \in Verifying \union {"over"}
  BY <1>2
<1>3. CASE VerifyDisable \/ VerifyEcho \/ VerifyCaught \/ VerifyNext \/ Report
  BY <1>2, <1>3
  DEF VerifyDisable, VerifyEcho, VerifyCaught, VerifyNext, Report, Trying,
      Await, TryEnds, shutdown
<1>4. CASE Ask \/ AskedAll \/ Enable \/ CycleStarts \/ HoldEnds \/ Command
  BY <1>2, <1>4
  DEF Ask, AskedAll, Enable, CycleStarts, HoldEnds, Command, shutdown
<1>5. CASE Accept \/ Refuse \/ WatchdogExpires \/ SendRefused \/ Interrupt
  BY <1>2, <1>5
  DEF Accept, Refuse, WatchdogExpires, SendRefused, Interrupt, shutdown
<1>6. CASE Disable \/ RefusedDisable \/ InterruptedDisable \/ PassEnds
  BY <1>2, <1>6
  DEF Disable, RefusedDisable, InterruptedDisable, PassEnds, shutdown
<1>7. CASE \/ Escape \/ UNCHANGED vars
           \/ \E m \in Motors : Skip(m) \/ DriveTrips(m)
  BY <1>2, <1>7
  DEF Escape, vars, loop, shutdown, Skip, DriveTrips
<1> QED
  BY <1>1, <1>3, <1>4, <1>5, <1>6, <1>7
  DEF Next, Controller, Environment, Hold, Finally

--------------------------------------------------------------------------------
(* AnswersAreTrue: the parts about the drives and their answers.            *)

\* Each frame but 0xFC is followed by the read of one answer, so the unread
\* answers stay bounded.
LEMMA UnreadStep ==
  ASSUME TypeOK, UnreadInLoop, [Next]_vars
  PROVE  UnreadInLoop'
<1> USE DEF UnreadInLoop, Powered, Preparing, Verifying, Stopping
<1>0. /\ pc \in Preparing \union Powered \union Stopping \union {"over"}
      /\ idx \in 1..(N + 1) /\ Motors = 1..N /\ N \in Nat
      /\ \A m \in Motors : Len(rx[m]) \in Nat
      /\ BusTypeOK
  BY ConstantTypes DEF TypeOK, LoopTypeOK, BusTypeOK, Motors
<1>1. CASE pc' \in Stopping \union {"over"}
  BY <1>1
<1>2. CASE UNCHANGED <<pc, idx, rx>>
  BY <1>2
<1>3. ASSUME NEW k \in Motors, Skip(k) PROVE UnreadInLoop'
  <2>1. /\ UNCHANGED <<pc, idx>> /\ k # idx
        /\ \A m \in Motors \ {k} : rx'[m] = rx[m]
        /\ Len(rx'[k]) = Len(rx[k]) - 1
    BY <1>0, <1>3, TakeEffect DEF Skip, loop
  <2> QED BY <1>0, <2>1
<1>4. ASSUME NEW frame, idx \in Motors, Deliver(idx, frame)
      PROVE  /\ \A m \in Motors \ {idx} : rx'[m] = rx[m]
             /\ Len(rx'[idx]) \in {Len(rx[idx]), Len(rx[idx]) + 1}
  BY <1>0, <1>4, DeliverEffect
<1>5. CASE Ask
  <2>1. /\ pc = "ask" /\ idx \in Motors /\ pc' = "ask_wait" /\ idx' = idx
        /\ Deliver(idx, "poll")
    BY <1>0, <1>5 DEF Ask, Await
  <2> QED BY <1>0, <1>4, <2>1
<1>6. CASE AskedAll
  BY <1>0, <1>6 DEF AskedAll, busVars
<1>7. CASE Enable
  <2>1. /\ pc = "enable" /\ idx \in Motors
        /\ pc' = "enable" /\ idx' = idx + 1
        /\ Deliver(idx, "enable")
    BY <1>0, <1>7 DEF Enable, NextMotor
  <2>2. \A m \in Motors : Len(rx'[m]) <= (IF m < idx' THEN 1 ELSE 0)
    BY <1>0, <1>4, <2>1
  <2> QED BY <2>1, <2>2
<1>8. CASE CycleStarts
  BY <1>0, <1>8 DEF CycleStarts, busVars
<1>9. CASE Command
  <2>1. /\ pc = "command" /\ idx \in Motors
        /\ pc' = "command_wait" /\ idx' = idx
        /\ Deliver(idx, "command")
    BY <1>0, <1>9 DEF Command, Await
  <2> QED BY <1>0, <1>4, <2>1
<1>10. CASE Accept
  <2>1. /\ pc \in {"ask_wait", "command_wait"} /\ idx \in Motors
        /\ idx' = idx + 1
        /\ pc' = IF pc = "ask_wait" THEN "ask" ELSE "command"
        /\ TakeAnswer(idx)
    BY <1>10, CurrentMotor DEF Accept, NextMotor, TypeOK
  <2>2. /\ \A m \in Motors \ {idx} : rx'[m] = rx[m]
        /\ Len(rx'[idx]) = Len(rx[idx]) - 1
    BY <1>0, <2>1, TakeEffect
  <2> QED BY <1>0, <2>1, <2>2
<1>11. CASE \/ HoldEnds \/ Refuse \/ WatchdogExpires \/ SendRefused
            \/ Interrupt \/ Escape \/ Finally \/ InterruptedDisable
  BY <1>1, <1>11
  DEF HoldEnds, Refuse, WatchdogExpires, SendRefused, Interrupt, Raise,
      EnterFinally, Escape, Finally, Disable, RefusedDisable,
      InterruptedDisable, PassEnds, VerifyDisable, VerifyEcho, VerifyAnswer,
      VerifyCaught, VerifyNext, Report, NextMotor, Await, TryEnds, Trying
<1>12. CASE UNCHANGED vars \/ \E m \in Motors : DriveTrips(m)
  BY <1>2, <1>12 DEF vars, loop, busVars, DriveTrips, Trip
<1> QED
  BY <1>3, <1>5, <1>6, <1>7, <1>8, <1>9, <1>10, <1>11, <1>12
  DEF Next, Controller, Environment, Hold

\* No step but Enable makes a drive enabled.
LEMMA OnlyEnableEnables ==
  ASSUME TypeOK, [Next]_vars, NEW m \in Motors, drive'[m] = "on", drive[m] # "on"
  PROVE  Enable /\ m = idx
<1> USE DEF TypeOK, BusTypeOK
<1>1. CASE UNCHANGED busVars \/ UNCHANGED <<drive, lost>>
  BY <1>1 DEF busVars
<1>2. ASSUME idx \in Motors, NEW frame \in {"poll", "enable", "command", "disable"},
             Deliver(idx, frame), frame = "enable" => Enable
      PROVE  Enable /\ m = idx
  <2>1. /\ \A k \in Motors \ {idx} : drive'[k] = drive[k]
        /\ drive'[idx] \in {drive[idx], Obey(drive[idx], frame)}
    BY <1>2, DeliverEffect
  <2>2. m = idx /\ Obey(drive[m], frame) = "on"
    BY <2>1
  <2> QED BY <1>2, <2>2 DEF Obey
<1>3. ASSUME NEW k \in Motors, DriveTrips(k) PROVE FALSE
  BY <1>3 DEF DriveTrips, Trip
<1> QED BY <1>1, <1>2, <1>3, BusStep

\* An "off" that a drive answered was true then, and stays true while the
\* drives are not enabled.
LEMMA AskedAreOffStep ==
  ASSUME TypeOK, AskedAreOff, DisabledIsTrue, [Next]_vars
  PROVE  AskedAreOff'
<1> SUFFICES ASSUME pc' \in Preparing, NEW m \in Motors,
                    pass' = 2 \/ m < idx'
             PROVE  drive'[m] # "on"
  BY DEF AskedAreOff
<1> USE DEF Preparing
<1>1. ASSUME pc \in Preparing, pass = 2 \/ m < idx, ~Enable
      PROVE  drive'[m] # "on"
  BY <1>1, OnlyEnableEnables DEF AskedAreOff
<1>2. CASE UNCHANGED <<pc, pass, idx>> /\ ~Enable
  BY <1>1, <1>2
<1>3. CASE Ask
  BY <1>1, <1>3 DEF Ask, Await, Enable
<1>4. CASE AskedAll
  <2>1. m < idx
    BY <1>4, ConstantTypes DEF AskedAll, Motors
  <2> QED BY <1>1, <1>4, <2>1 DEF AskedAll, Enable
<1>5. CASE Accept
  <2>1. /\ pc = "ask_wait" /\ idx' = idx + 1 /\ pass' = pass /\ drive' = drive
        /\ idx \in Motors /\ TakeAnswer(idx) /\ Head(rx[idx]) = "off"
    BY <1>5, CurrentMotor DEF Accept, NextMotor, Expected, TypeOK
  <2>2. drive[idx] # "on"
    BY <2>1, TakeEffect DEF DisabledIsTrue, TypeOK
  <2>3. m # idx => pass = 2 \/ m < idx
    BY <2>1 DEF Motors, TypeOK, LoopTypeOK
  <2> QED BY <1>1, <2>1, <2>2, <2>3 DEF Enable
<1>6. CASE \/ Refuse \/ WatchdogExpires \/ SendRefused \/ HoldEnds \/ Interrupt
           \/ Enable \/ CycleStarts \/ Command \/ Escape \/ InterruptedDisable
           \/ Finally
  BY <1>6
  DEF Refuse, WatchdogExpires, SendRefused, HoldEnds, Interrupt, Raise,
      EnterFinally, Enable, CycleStarts, Command, Escape, Finally, Disable,
      RefusedDisable, InterruptedDisable, PassEnds, VerifyDisable, VerifyEcho,
      VerifyAnswer, VerifyCaught, VerifyNext, Report, NextMotor, Await,
      TryEnds, Trying
<1>7. CASE \/ UNCHANGED vars \/ \E k \in Motors : Skip(k) \/ DriveTrips(k)
  <2>1. UNCHANGED <<pc, pass, idx>>
    BY <1>7 DEF vars, loop, Skip, DriveTrips
  <2>2. CASE ~Enable
    BY <1>2, <2>1, <2>2
  <2>3. CASE Enable
    BY <2>1, <2>3 DEF Enable
  <2> QED BY <2>2, <2>3
<1> QED
  BY <1>3, <1>4, <1>5, <1>6, <1>7
  DEF Next, Controller, Environment, Hold

\* A drive that Enable enables had no answer on its way and no verdict yet; of
\* an enabled drive every other step reads or adds only true answers.
LEMMA DisabledIsTrueStep ==
  ASSUME TypeOK, DisabledIsTrue, UnreadInLoop, FinalInVerification, [Next]_vars
  PROVE  DisabledIsTrue'
<1> SUFFICES ASSUME NEW m \in Motors, drive'[m] = "on"
             PROVE  finalStatus'[m] # "off" /\ ~Waiting(m, "off")'
  BY DEF DisabledIsTrue
<1> USE DEF TypeOK
<1>1. finalStatus[m] # "off" /\ ~Waiting(m, "off")
  <2>1. CASE drive[m] = "on"
    BY <2>1 DEF DisabledIsTrue
  <2>2. CASE drive[m] # "on"
    <3>1. pc = "enable" /\ m = idx
      BY <2>2, OnlyEnableEnables DEF Enable
    <3>2. finalStatus[m] = "none"
      BY <3>1 DEF FinalInVerification, Verifying
    <3>3. Len(rx[m]) <= 0
      BY <3>1 DEF UnreadInLoop, BusTypeOK, Motors
    <3> QED BY <3>2, <3>3 DEF Waiting, BusTypeOK
  <2> QED BY <2>1, <2>2
<1>2. ~Waiting(m, "off")'
  <2>1. CASE UNCHANGED busVars
    BY <1>1, <2>1, WaitingSame DEF busVars
  <2>2. ASSUME idx \in Motors, NEW frame, Deliver(idx, frame)
        PROVE  ~Waiting(m, "off")'
    <3>1. CASE m = idx
      BY <1>1, <2>2, <3>1, DeliverEffect
    <3>2. CASE m # idx
      BY <1>1, <2>2, <3>2, DeliverEffect, WaitingSame
    <3> QED BY <3>1, <3>2
  <2>3. ASSUME NEW k \in Motors, TakeAnswer(k) PROVE ~Waiting(m, "off")'
    <3>1. CASE m = k
      BY <1>1, <2>3, <3>1, TakeEffect
    <3>2. CASE m # k
      BY <1>1, <2>3, <3>2, TakeEffect, WaitingSame
    <3> QED BY <3>1, <3>2
  <2>4. ASSUME NEW k \in Motors, DriveTrips(k) PROVE ~Waiting(m, "off")'
    BY <1>1, <2>4, WaitingSame DEF DriveTrips, Trip
  <2> QED BY <2>1, <2>2, <2>3, <2>4, BusStep
<1>3. finalStatus'[m] # "off"
  <2>1. CASE UNCHANGED finalStatus
    BY <1>1, <2>1
  <2>2. CASE VerifyAnswer
    <3>1. /\ idx \in Motors /\ TakeAnswer(idx)
          /\ finalStatus' = [finalStatus EXCEPT ![idx] = Head(rx[idx])]
      BY <2>2, CurrentMotor DEF VerifyAnswer
    <3>2. m = idx => Head(rx[idx]) # "off"
      BY <1>1, <3>1, TakeEffect
    <3> QED BY <1>1, <3>1, <3>2 DEF RecordTypeOK
  <2> QED BY <2>1, <2>2, FinalStep
<1> QED BY <1>2, <1>3

\* Before the first frame nothing was asked, answered or written.
LEMMA InitAnswersAreTrue == Init => AnswersAreTrue
<1> SUFFICES ASSUME Init PROVE AnswersAreTrue
  OBVIOUS
<1>1. /\ pc = "ask" /\ idx = 1 /\ pass = 1
      /\ stops = [m \in Motors |-> 0]
      /\ finalStatus = [m \in Motors |-> "none"]
      /\ rx = [m \in Motors |-> <<>>]
  BY DEF Init, BusInit
<1>2. DisabledIsTrue /\ UnreadInLoop
  BY <1>1 DEF DisabledIsTrue, UnreadInLoop, Waiting
<1>3. AskedAreOff
  BY <1>1 DEF AskedAreOff, Motors
<1> QED
  BY <1>1, <1>2, <1>3
  DEF AnswersAreTrue, EveryMotorInEveryPass, FinalInVerification, StopsInLoop,
      Preparing, Powered, Verifying

(***************************************************************************)
(* AnswersAreTrue is an inductive invariant: in every state of every run,  *)
(* what was asked, answered and left unread fits the drives.               *)
(***************************************************************************)
THEOREM AnswersStayTrue == Spec => [](TypeOK /\ AnswersAreTrue)
<1>1. Init => TypeOK /\ AnswersAreTrue
  BY InitTypeOK, InitAnswersAreTrue
<1>2. TypeOK /\ AnswersAreTrue /\ [Next]_vars => (TypeOK /\ AnswersAreTrue)'
  BY NextTypeOK, StopsStep, FinalStep, UnreadStep, AskedAreOffStep,
     DisabledIsTrueStep
  DEF AnswersAreTrue
<1> QED BY <1>1, <1>2, PTL DEF Spec

(***************************************************************************)
(* A drive the report calls disabled is disabled, and the loop reads at    *)
(* most one answer behind.                                                 *)
(***************************************************************************)
THEOREM ReportIsTrue == Spec => [](DisabledIsTrue /\ OneBehind)
<1>1. TypeOK /\ AnswersAreTrue => DisabledIsTrue /\ OneBehind
  BY DEF AnswersAreTrue, UnreadInLoop, OneBehind
<1> QED BY <1>1, AnswersStayTrue, PTL

(***************************************************************************)
(* Who gets to the verification has tried every motor Passes times.        *)
(***************************************************************************)
THEOREM EveryMotorStopped == Spec => []EveryMotorInEveryPass
<1>1. TypeOK /\ AnswersAreTrue => EveryMotorInEveryPass
  BY DEF AnswersAreTrue
<1> QED BY <1>1, AnswersStayTrue, PTL

--------------------------------------------------------------------------------
(* The group hold implements FailClosedRun.                                *)

\* The phase of the run by the place in the function, before and after a step.
LEMMA PhaseOfPc ==
  /\ pc \in Preparing <=> RunPhase = "waiting"
  /\ pc \in Powered <=> RunPhase = "armed"
  /\ pc \in Stopping <=> RunPhase = "stopping"
  /\ pc = "over" => RunPhase = "over"
  /\ pc' \in Preparing <=> RunPhase' = "waiting"
  /\ pc' \in Powered <=> RunPhase' = "armed"
  /\ pc' \in Stopping <=> RunPhase' = "stopping"
  /\ pc' = "over" => RunPhase' = "over"
  BY DEF RunPhase, Preparing, Powered, Stopping, Verifying

\* With the drives, the enabled drives stay the same.
LEMMA SameDrives == UNCHANGED drive => UNCHANGED EnabledDrives
  BY DEF EnabledDrives

\* A step within a phase that changes no drive is a stutter.
LEMMA WithinPhase ==
  ASSUME UNCHANGED <<drive, verdict>>,
         \/ UNCHANGED pc
         \/ pc \in Preparing /\ pc' \in Preparing
         \/ pc \in Powered /\ pc' \in Powered
         \/ pc \in Stopping /\ pc' \in Stopping
  PROVE  [FailClosed!Next]_(FailClosed!failClosedVars)
<1>1. UNCHANGED RunPhase
  BY PhaseOfPc DEF RunPhase
<1> QED BY <1>1, SameDrives DEF FailClosed!failClosedVars

\* A step that only enables, disables or trips drive m within a phase.
LEMMA DriveChanges ==
  ASSUME TypeOK, UNCHANGED verdict, NEW m \in Motors,
         \A k \in Motors \ {m} : drive'[k] = drive[k],
         UNCHANGED RunPhase,
         drive'[m] = "on" => drive[m] = "on" \/ RunPhase = "armed"
  PROVE  [FailClosed!Next]_(FailClosed!failClosedVars)
<1>1. CASE (drive'[m] = "on") <=> (drive[m] = "on")
  <2>1. UNCHANGED EnabledDrives
    BY <1>1 DEF EnabledDrives
  <2> QED BY <2>1 DEF FailClosed!failClosedVars
<1>2. CASE drive'[m] = "on" /\ drive[m] # "on"
  <2>1. EnabledDrives' = EnabledDrives \union {m}
    BY <1>2 DEF EnabledDrives
  <2> QED BY <1>2, <2>1 DEF FailClosed!Next, FailClosed!Enable
<1>3. CASE drive'[m] # "on" /\ drive[m] = "on"
  <2>1. EnabledDrives' = EnabledDrives \ {m}
    BY <1>3 DEF EnabledDrives
  <2> QED BY <2>1 DEF FailClosed!Next, FailClosed!Drop
<1> QED BY <1>1, <1>2, <1>3

\* A write or a fault within a phase.
LEMMA BusRefines ==
  ASSUME TypeOK, [Next]_vars, UNCHANGED verdict,
         \/ UNCHANGED pc
         \/ pc \in Preparing /\ pc' \in Preparing
         \/ pc \in Powered /\ pc' \in Powered
         \/ pc \in Stopping /\ pc' \in Stopping
  PROVE  [FailClosed!Next]_(FailClosed!failClosedVars)
<1> USE DEF TypeOK
<1>1. UNCHANGED RunPhase
  BY PhaseOfPc DEF RunPhase
<1>2. CASE UNCHANGED busVars \/ UNCHANGED <<drive, lost>>
  BY <1>2, WithinPhase DEF busVars
<1>3. ASSUME NEW m \in Motors, drive'[m] = "on", drive[m] # "on"
      PROVE  RunPhase = "armed"
  BY <1>3, OnlyEnableEnables, PhaseOfPc DEF Enable, Powered
<1>4. ASSUME idx \in Motors, NEW frame, Deliver(idx, frame)
      PROVE  [FailClosed!Next]_(FailClosed!failClosedVars)
  BY <1>1, <1>3, <1>4, DeliverEffect, DriveChanges
<1>5. ASSUME NEW m \in Motors, DriveTrips(m)
      PROVE  [FailClosed!Next]_(FailClosed!failClosedVars)
  <2>1. \A k \in Motors \ {m} : drive'[k] = drive[k]
    BY <1>5 DEF DriveTrips, Trip, BusTypeOK
  <2> QED BY <1>1, <1>3, <2>1, DriveChanges
<1> QED BY <1>2, <1>4, <1>5, BusStep

\* Before the first frame the run waits, whatever the drives are.
LEMMA InitRefines == Init => FailClosed!Init
<1> SUFFICES ASSUME Init PROVE FailClosed!Init
  OBVIOUS
<1>1. pc \in Preparing /\ verdict = "none"
  BY DEF Init, Preparing
<1>2. EnabledDrives \in SUBSET Motors
  BY DEF EnabledDrives
<1> QED BY <1>1, <1>2, PhaseOfPc DEF FailClosed!Init

\* An exception stops a run that was waiting or armed.
LEMMA StopRefines ==
  ASSUME EnterFinally, pc \in Preparing \union Powered,
         UNCHANGED <<drive, verdict>>
  PROVE  [FailClosed!Next]_(FailClosed!failClosedVars)
<1>1. RunPhase \in {"waiting", "armed"} /\ RunPhase' = "stopping"
  BY PhaseOfPc DEF EnterFinally, Stopping
<1> QED BY <1>1, SameDrives DEF FailClosed!Next, FailClosed!Stop

\* When both rounds of the preparation are over, every motor said "disabled".
LEMMA ArmRefines ==
  ASSUME TypeOK, AnswersAreTrue, AskedAll
  PROVE  [FailClosed!Next]_(FailClosed!failClosedVars)
<1>1. pc = "ask" /\ idx = N + 1 /\ UNCHANGED <<drive, verdict>>
  BY DEF AskedAll, busVars, outcome
<1>2. CASE pc' = pc
  BY <1>1, <1>2, WithinPhase
<1>3. CASE pc' = "enable"
  <2>1. EnabledDrives = {}
    BY <1>1, ConstantTypes
    DEF EnabledDrives, AnswersAreTrue, AskedAreOff, Preparing, Motors
  <2>2. RunPhase = "waiting" /\ RunPhase' = "armed"
    BY <1>1, <1>3, PhaseOfPc DEF Preparing, Powered
  <2> QED BY <1>1, <2>1, <2>2, SameDrives DEF FailClosed!Next, FailClosed!Arm
<1> QED BY <1>2, <1>3 DEF AskedAll

\* "passed" needs a final "disabled" of every motor, and those are true.
LEMMA ReportRefines ==
  ASSUME AnswersAreTrue, Report \/ (Escape /\ pc \in Stopping)
  PROVE  [FailClosed!Next]_(FailClosed!failClosedVars)
<1>1. /\ pc \in Stopping /\ pc' = "over" /\ UNCHANGED drive
      /\ verdict' \in {"passed", "not_passed"}
      /\ verdict' = "passed" => passed
  BY DEF Report, Escape, Stopping, Verifying, busVars
<1>2. RunPhase = "stopping" /\ RunPhase' = "over"
  BY <1>1, PhaseOfPc
<1>3. passed => EnabledDrives = {}
  BY DEF EnabledDrives, passed, AnswersAreTrue, DisabledIsTrue
<1> QED
  BY <1>1, <1>2, <1>3, SameDrives DEF FailClosed!Next, FailClosed!Report

\* Every step of the group hold is a step of FailClosedRun or a stutter.
LEMMA NextRefines ==
  ASSUME TypeOK, AnswersAreTrue, [Next]_vars
  PROVE  [FailClosed!Next]_(FailClosed!failClosedVars)
<1> USE DEF Preparing, Powered, Stopping, Verifying, outcome
<1>1. CASE AskedAll
  BY <1>1, ArmRefines
<1>2. CASE Report \/ Escape
  BY <1>2, ReportRefines DEF Escape
<1>3. CASE HoldEnds \/ Refuse \/ WatchdogExpires \/ SendRefused \/ Interrupt
  BY <1>3, StopRefines
  DEF HoldEnds, Refuse, WatchdogExpires, SendRefused, Interrupt, Raise, busVars
<1>4. CASE Ask \/ Enable \/ CycleStarts \/ Command \/ Accept
  BY <1>4, BusRefines
  DEF Ask, Enable, CycleStarts, Command, Accept, Await, NextMotor
<1>5. CASE Disable \/ RefusedDisable \/ InterruptedDisable \/ PassEnds
  BY <1>5, BusRefines
  DEF Disable, RefusedDisable, InterruptedDisable, PassEnds, NextMotor
<1>6. CASE \/ VerifyDisable \/ VerifyEcho \/ VerifyAnswer \/ VerifyCaught
           \/ VerifyNext
  BY <1>6, BusRefines
  DEF VerifyDisable, VerifyEcho, VerifyAnswer, VerifyCaught, VerifyNext,
      Trying, TryEnds, Await
<1>7. CASE \/ UNCHANGED vars \/ \E m \in Motors : Skip(m) \/ DriveTrips(m)
  BY <1>7, BusRefines DEF vars, loop, Skip, DriveTrips
<1> QED
  BY <1>1, <1>2, <1>3, <1>4, <1>5, <1>6, <1>7
  DEF Next, Controller, Environment, Hold, Finally

(***************************************************************************)
(* The group hold of motor_group_hold.py is fail-closed whatever the bus   *)
(* loses, the drives do, the kernel refuses and Ctrl-C interrupts: it arms *)
(* only disabled drives, enables none in its finally block, and passes     *)
(* only when no drive is enabled.                                          *)
(***************************************************************************)
THEOREM FailClosedRefined == Spec => ImplementsFailClosedRun
<1>1. Init => FailClosed!Init
  BY InitRefines
<1>2. (TypeOK /\ AnswersAreTrue) /\ [Next]_vars
        => [FailClosed!Next]_(FailClosed!failClosedVars)
  BY NextRefines
<1> QED
  BY <1>1, <1>2, AnswersStayTrue, PTL
  DEF Spec, ImplementsFailClosedRun, FailClosed!Spec

--------------------------------------------------------------------------------
(* The gates.  One implements the group hold, and so everything proved of  *)
(* the hold holds of the gate.                                             *)

\* Before the first frame nothing is counted.
LEMMA InitTalliesAgree == PairInit => TalliesAgree
  BY DEF PairInit, Init, TalliesAgree, Tally

\* A command and an answer are counted where the hold records them.
LEMMA NextTalliesAgree ==
  ASSUME TypeOK, TalliesAgree, [PairNext]_pairVars
  PROVE  TalliesAgree'
<1> USE DEF TalliesAgree, Tally
<1>0. /\ idx <= N => idx \in Motors
      /\ pc = "command_wait" => idx \in Motors
  BY CurrentMotor DEF TypeOK
<1>1. CASE UNCHANGED <<commanded, answered, tally>>
  BY <1>1 DEF tally
<1>2. CASE PairCommand
  BY <1>0, <1>2 DEF PairCommand, Command
<1>3. CASE PairAccept
  BY <1>0, <1>3 DEF PairAccept, Accept
<1>4. CASE PairRefuse
  BY <1>0, <1>4 DEF PairRefuse, Refuse
<1>5. CASE JointCheckFails \/ PairReport
  BY <1>1, <1>5 DEF JointCheckFails, PairReport, counts
<1>6. CASE AsGroupHold /\ UNCHANGED tally
  BY <1>1, <1>6
  DEF AsGroupHold, Environment, Ask, AskedAll, Enable, CycleStarts, HoldEnds,
      WatchdogExpires, SendRefused, Skip, Disable, RefusedDisable, PassEnds,
      VerifyDisable, VerifyEcho, VerifyAnswer, VerifyCaught, VerifyNext,
      Interrupt, InterruptedDisable, Escape, DriveTrips, counts
<1> QED
  BY <1>1, <1>2, <1>3, <1>4, <1>5, <1>6
  DEF PairNext, PairStep, pairVars, vars, counts

\* Every step of a gate is a step of the group hold: a failed joint check is an
\* exception in the try block, and a report that does not pass for want of
\* counts is one the hold could have been left with.
LEMMA PairNextIsNext ==
  ASSUME TalliesAgree, [PairNext]_pairVars
  PROVE  [Next]_vars
<1>1. CASE AsGroupHold
  BY <1>1 DEF AsGroupHold, Next, Controller, Hold, Finally
<1>2. CASE PairCommand \/ PairAccept \/ PairRefuse
  BY <1>2 DEF PairCommand, PairAccept, PairRefuse, Next, Controller, Hold
<1>3. CASE JointCheckFails
  <2>1. pc \in Preparing \union Powered
    BY <1>3 DEF JointCheckFails, Preparing, Powered
  <2> QED BY <1>3, <2>1 DEF JointCheckFails, Interrupt, Next, Environment
<1>4. CASE PairReport /\ pairPassed
  <2>1. commanded = Motors /\ answered = Motors
    BY <1>4, PairAssumption DEF pairPassed, TalliesAgree, Tally
  <2>2. passed
    BY <1>4, <2>1 DEF pairPassed, passed
  <2> QED
    BY <1>4, <2>2 DEF PairReport, Report, Next, Controller, Finally
<1>5. CASE PairReport /\ ~pairPassed
  BY <1>5 DEF PairReport, Escape, Next, Environment
<1> QED BY <1>1, <1>2, <1>3, <1>4, <1>5 DEF PairNext, PairStep, pairVars

(***************************************************************************)
(* The gates of ankle_pair_commissioning.py implement the group hold.      *)
(***************************************************************************)
THEOREM GateIsHold == PairSpec => ImplementsGroupHold
<1>1. PairInit => Init /\ TypeOK /\ TalliesAgree
  BY InitTypeOK, InitTalliesAgree DEF PairInit
<1>2. TypeOK /\ TalliesAgree /\ [PairNext]_pairVars
        => [Next]_vars /\ TypeOK' /\ TalliesAgree'
  BY PairNextIsNext, NextTypeOK, NextTalliesAgree
<1> QED BY <1>1, <1>2, PTL DEF PairSpec, ImplementsGroupHold, Spec

\* Nothing but the loop over the pair, in its order, moves the two counts.
LEMMA CountsStep ==
  ASSUME TypeOK, TalliesAgree, CountsInLoop, [PairNext]_pairVars
  PROVE  CountsInLoop'
<1> USE DEF CountsInLoop, Preparing
<1>0. /\ pc \in Preparing \union Powered \union Stopping \union {"over"}
      /\ idx \in 1..(N + 1) /\ cycles \in Nat /\ Motors = 1..N /\ N \in Nat
      /\ commandCount \in [Motors -> Nat] /\ feedbackCount \in [Motors -> Nat]
      /\ pc \in {"ask_wait", "command_wait"} => idx <= N
  BY ConstantTypes DEF TypeOK, LoopTypeOK, Motors, TalliesAgree, Tally
<1>1. CASE UNCHANGED <<pc, idx, cycles, tally>>
  BY <1>0, <1>1 DEF tally
\* Out of the loop, or on where nothing is counted.
<1>2. CASE /\ pc' \in Stopping \union {"over"}
           /\ UNCHANGED <<cycles, tally>>
  BY <1>0, <1>2 DEF tally, Stopping, Verifying
<1>3. CASE /\ pc \in Preparing \union {"enable"}
           /\ pc' \in Preparing \union {"enable"}
           /\ UNCHANGED <<cycles, tally>>
  BY <1>0, <1>3 DEF tally
<1>4. CASE CycleStarts /\ UNCHANGED tally
  BY <1>0, <1>4 DEF CycleStarts, tally
<1>5. CASE PairCommand
  BY <1>0, <1>5 DEF PairCommand, Command, Await
<1>6. CASE PairAccept
  BY <1>0, <1>6 DEF PairAccept, Accept, NextMotor
<1>7. CASE PairRefuse
  BY <1>0, <1>7 DEF PairRefuse, Refuse, Raise, EnterFinally, Stopping
<1>8. CASE JointCheckFails \/ PairReport
  BY <1>2, <1>8
  DEF JointCheckFails, PairReport, Raise, EnterFinally, Stopping
<1>9. CASE AsGroupHold /\ UNCHANGED tally /\ ~CycleStarts
  <2>1. CASE Ask \/ AskedAll \/ Enable
    BY <1>3, <1>9, <2>1 DEF Ask, AskedAll, Enable, Await, NextMotor
  <2>2. CASE \/ HoldEnds \/ WatchdogExpires \/ SendRefused \/ Interrupt
             \/ Escape
    BY <1>2, <1>9, <2>2
    DEF HoldEnds, WatchdogExpires, SendRefused, Interrupt, Escape, Raise,
        EnterFinally, Stopping
  <2>3. CASE \/ Disable \/ RefusedDisable \/ PassEnds \/ VerifyDisable
             \/ VerifyEcho \/ InterruptedDisable
    BY <1>2, <1>9, <2>3
    DEF Disable, RefusedDisable, PassEnds, VerifyDisable, VerifyEcho,
        InterruptedDisable, NextMotor, Await, Stopping, Verifying
  <2>4. CASE VerifyAnswer \/ VerifyCaught \/ VerifyNext
    BY <1>2, <1>9, <2>4
    DEF VerifyAnswer, VerifyCaught, VerifyNext, TryEnds, Trying, Stopping,
        Verifying
  <2>5. CASE \E m \in Motors : Skip(m) \/ DriveTrips(m)
    BY <1>1, <1>9, <2>5 DEF Skip, DriveTrips, loop
  <2> QED
    BY <1>9, <2>1, <2>2, <2>3, <2>4, <2>5 DEF AsGroupHold, Environment
<1> QED
  BY <1>1, <1>4, <1>5, <1>6, <1>7, <1>8, <1>9
  DEF PairNext, PairStep, pairVars, vars, loop

\* The history follows a write: it grows with the number of the frame when
\* the answer joined rx.
LEMMA FollowDeliver ==
  ASSUME BusTypeOK, Follow, pc' \in Preparing \union Powered,
         NEW k \in Motors, NEW frame, Deliver(k, frame)
  PROVE  /\ \A m \in Motors \ {k} : asked'[m] = asked[m] /\ rx'[m] = rx[m]
         /\ \/ asked'[k] = asked[k] /\ Len(rx'[k]) = Len(rx[k])
            \/ asked'[k] = Append(asked[k], Frame) /\ Len(rx'[k]) = Len(rx[k]) + 1
<1>1. /\ \A m \in Motors \ {k} : rx'[m] = rx[m]
      /\ Len(rx'[k]) \in {Len(rx[k]), Len(rx[k]) + 1}
  BY DeliverEffect
<1>2. \A m \in Motors : Len(rx[m]) \in Nat
  BY DEF BusTypeOK
<1>3. \A m \in Motors :
        asked'[m] = CASE Len(rx'[m]) > Len(rx[m]) -> Append(asked[m], Frame)
                      [] Len(rx'[m]) < Len(rx[m]) -> Tail(asked[m])
                      [] OTHER -> asked[m]
  BY Zenon DEF Follow
<1>4. \A m \in Motors \ {k} : asked'[m] = asked[m]
  BY <1>1, <1>2, <1>3
<1>5. CASE Len(rx'[k]) = Len(rx[k])
  BY <1>1, <1>2, <1>3, <1>4, <1>5
<1>6. CASE Len(rx'[k]) = Len(rx[k]) + 1
  <2>1. Len(rx'[k]) > Len(rx[k]) /\ ~(Len(rx'[k]) < Len(rx[k]))
    BY <1>2, <1>6
  <2>2. asked'[k] = Append(asked[k], Frame)
    BY <1>3, <2>1
  <2> QED BY <1>1, <1>4, <1>6, <2>2
<1> QED BY <1>1, <1>5, <1>6

\* It follows a read: the oldest entry goes.
LEMMA FollowTake ==
  ASSUME BusTypeOK, Follow, pc' \in Preparing \union Powered,
         NEW k \in Motors, TakeAnswer(k)
  PROVE  /\ \A m \in Motors \ {k} : asked'[m] = asked[m] /\ rx'[m] = rx[m]
         /\ asked'[k] = Tail(asked[k])
         /\ Len(rx[k]) >= 1 /\ Len(rx'[k]) = Len(rx[k]) - 1
<1>1. /\ \A m \in Motors \ {k} : rx'[m] = rx[m]
      /\ Len(rx'[k]) = Len(rx[k]) - 1
  BY TakeEffect
<1>2. /\ \A m \in Motors : Len(rx[m]) \in Nat
      /\ Len(rx[k]) >= 1
  BY DEF BusTypeOK, TakeAnswer
<1> QED BY <1>1, <1>2 DEF Follow

\* The number that joins is of the newest frame: the order is kept if no more
\* answers are unread than frames were sent since the last answer was read.
LEMMA JoinsInOrder ==
  ASSUME NEW s \in Seq(Int), NEW read \in Nat, NEW sent \in Nat, NEW now \in Nat,
         Behind(s, read, sent), sent <= now, read + Len(s) <= now
  PROVE  Append(s, now) \in Seq(Int) /\ Behind(Append(s, now), read, now)
<1>1. /\ Len(s) \in Nat /\ Append(s, now) \in Seq(Int)
      /\ Len(Append(s, now)) = Len(s) + 1
      /\ Append(s, now)[Len(s) + 1] = now
  OBVIOUS
<1>2. ASSUME NEW i \in 1..(Len(s) + 1)
      PROVE  Append(s, now)[i] \in (read + i - 1)..now
  <2>1. CASE i = Len(s) + 1
    BY <1>1, <2>1
  <2>2. CASE i # Len(s) + 1
    <3>1. i \in 1..Len(s)
      BY <1>1, <2>2
    <3>2. PICK x \in Int : x = s[i]
      BY <3>1
    <3>3. x \in (read + i - 1)..sent
      BY <3>1, <3>2 DEF Behind
    <3>4. Append(s, now)[i] = x
      BY <3>1, <3>2
    <3> QED BY <3>1, <3>3, <3>4
  <2> QED BY <2>1, <2>2
<1> QED BY <1>1, <1>2 DEF Behind

\* The oldest number goes: the one behind it is of a newer frame.
LEMMA LeavesInOrder ==
  ASSUME NEW s \in Seq(Int), Len(s) >= 1, NEW read \in Nat, NEW sent \in Nat,
         Behind(s, read, sent)
  PROVE  /\ Tail(s) \in Seq(Int) /\ Len(Tail(s)) = Len(s) - 1
         /\ Head(s) \in read..sent
         /\ Behind(Tail(s), read, sent) /\ Behind(Tail(s), read + 1, sent)
<1>1. s # <<>> /\ Len(s) \in Nat
  OBVIOUS
<1>2. /\ Tail(s) \in Seq(Int) /\ Len(Tail(s)) = Len(s) - 1
      /\ \A i \in 1..(Len(s) - 1) : Tail(s)[i] = s[i + 1]
      /\ Head(s) = s[1]
  BY <1>1
<1>3. Head(s) \in read..sent
  <2>1. s[1] \in (read + 1 - 1)..sent
    BY <1>1 DEF Behind
  <2> QED BY <1>2, <2>1
<1>4. ASSUME NEW i \in 1..(Len(s) - 1)
      PROVE  /\ Tail(s)[i] \in (read + i - 1)..sent
             /\ Tail(s)[i] \in (read + 1 + i - 1)..sent
  <2>1. i + 1 \in 1..Len(s)
    BY <1>1
  <2>2. PICK x \in Int : x = s[i + 1]
    BY <2>1
  <2>3. x \in (read + (i + 1) - 1)..sent
    BY <2>1, <2>2 DEF Behind
  <2>4. Tail(s)[i] = x
    BY <1>2, <2>2
  <2> QED BY <2>1, <2>3, <2>4
<1> QED BY <1>2, <1>3, <1>4 DEF Behind

\* The same of the echoes of the preparation, which have one number.
LEMMA EchoesInOrder ==
  ASSUME NEW s \in Seq(Int), Echoes(s)
  PROVE  /\ Append(s, -1) \in Seq(Int) /\ Echoes(Append(s, -1))
         /\ Len(s) >= 1 =>
              /\ Tail(s) \in Seq(Int) /\ Echoes(Tail(s)) /\ Head(s) = -1
<1>1. /\ Len(s) \in Nat /\ Append(s, -1) \in Seq(Int)
      /\ Len(Append(s, -1)) = Len(s) + 1
      /\ Append(s, -1)[Len(s) + 1] = -1
      /\ \A i \in 1..Len(s) : Append(s, -1)[i] = s[i]
  OBVIOUS
<1>2. Echoes(Append(s, -1))
  BY <1>1 DEF Echoes
<1>3. ASSUME Len(s) >= 1
      PROVE  Tail(s) \in Seq(Int) /\ Echoes(Tail(s)) /\ Head(s) = -1
  <2>1. s # <<>>
    BY <1>3
  <2>2. /\ Tail(s) \in Seq(Int) /\ Len(Tail(s)) = Len(s) - 1
        /\ \A i \in 1..(Len(s) - 1) : Tail(s)[i] = s[i + 1]
        /\ Head(s) = s[1]
    BY <2>1
  <2> QED BY <1>1, <1>3, <2>2 DEF Echoes
<1> QED BY <1>1, <1>2, <1>3

\* A write of the loop: the answer that joins has the number of the frame.
LEMMA WriteInOrder ==
  ASSUME BusTypeOK, AnswersInOrder, Follow,
         NEW k \in Motors, NEW frame, Deliver(k, frame),
         cycles \in Nat, feedbackCount[k] \in Nat, commandCount[k] \in Nat,
         latest' = latest, feedbackCount' = feedbackCount,
         \/ pc = "ask" /\ pc' = "ask_wait"
         \/ /\ \/ pc = "enable" /\ pc' = "enable"
               \/ pc = "command" /\ pc' = "command_wait"
            /\ commandCount'[k] = cycles /\ commandCount[k] <= cycles
            /\ feedbackCount[k] + Len(rx[k]) <= cycles
  PROVE  InOrder(k)'
<1>1. pc' \in Preparing \union Powered
  BY DEF Preparing, Powered
<1>2. \/ asked'[k] = asked[k] /\ Len(rx'[k]) = Len(rx[k])
      \/ /\ asked'[k] = Append(asked[k], Frame)
         /\ Len(rx'[k]) = Len(rx[k]) + 1
  BY <1>1, FollowDeliver
<1>3. /\ asked[k] \in Seq(Int) /\ Len(asked[k]) = Len(rx[k])
      /\ InOrder(k)
  BY DEF AnswersInOrder, InOrder, Preparing, Powered
<1>4. \A e : Len(Append(asked[k], e)) = Len(asked[k]) + 1
  BY <1>3
<1>5. CASE pc = "ask"
  <2>1. Frame = -1 /\ Echoes(asked[k]) /\ latest[k] = -1
    BY <1>3, <1>5 DEF Frame, InOrder, Preparing
  <2>2. /\ Append(asked[k], -1) \in Seq(Int)
        /\ Echoes(Append(asked[k], -1))
    BY <1>3, <2>1, EchoesInOrder
  <2>3. asked'[k] \in Seq(Int) /\ Echoes(asked'[k])
    BY <1>2, <1>3, <2>1, <2>2
  <2>4. Len(asked'[k]) = Len(rx'[k])
    BY <1>2, <1>3, <1>4
  <2>5. latest'[k] = -1 /\ pc' = "ask_wait"
    BY <1>5, <2>1
  <2> QED BY <2>3, <2>4, <2>5 DEF InOrder, Preparing, Powered, Echoes
<1>6. CASE pc \in {"enable", "command"}
  <2>1. /\ Frame = cycles /\ commandCount'[k] = cycles
        /\ commandCount[k] <= cycles
        /\ feedbackCount[k] + Len(asked[k]) <= cycles
        /\ pc' \in {"enable", "command_wait"}
    BY <1>3, <1>6 DEF Frame
  <2>2. /\ Behind(asked[k], feedbackCount[k], commandCount[k])
        /\ latest[k] \in (feedbackCount[k] - 1)..commandCount[k]
    BY <1>3, <1>6 DEF InOrder, Powered
  <2>3. /\ Append(asked[k], cycles) \in Seq(Int)
        /\ Behind(Append(asked[k], cycles), feedbackCount[k], cycles)
    BY <1>3, <2>1, <2>2, JoinsInOrder
  <2>4. Behind(asked[k], feedbackCount[k], cycles)
    <3> DEFINE s == asked[k]
               f == feedbackCount[k]
               c == commandCount[k]
    <3>1. s \in Seq(Int) /\ f \in Nat /\ c \in Nat /\ c <= cycles /\ Behind(s, f, c)
      BY <1>3, <2>1, <2>2
    <3> HIDE DEF s, f, c
    <3>2. ASSUME NEW i \in 1..Len(s) PROVE s[i] \in (f + i - 1)..cycles
      <4>1. s[i] \in (f + i - 1)..c
        BY <3>1 DEF Behind
      <4> QED BY <3>1, <4>1
    <3>3. Behind(s, f, cycles)
      BY <3>2 DEF Behind
    <3> QED BY <3>3 DEF s, f
  <2>5. latest[k] \in (feedbackCount[k] - 1)..cycles
    BY <2>1, <2>2
  <2>6. /\ asked'[k] \in Seq(Int)
        /\ Behind(asked'[k], feedbackCount[k], cycles)
    BY <1>2, <1>3, <2>1, <2>3, <2>4
  <2>7. Len(asked'[k]) = Len(rx'[k])
    BY <1>2, <1>3, <1>4
  <2> QED BY <2>1, <2>5, <2>6, <2>7 DEF InOrder, Preparing, Powered, Behind
<1> QED BY <1>5, <1>6

\* A read: the next answer of the motor is a newer one, whether the answer
\* counts or belongs to a motor nobody waits for.
LEMMA ReadInOrder ==
  ASSUME BusTypeOK, AnswersInOrder, Follow, pc' \in Preparing \union Powered,
         NEW k \in Motors, TakeAnswer(k),
         feedbackCount[k] \in Nat, commandCount[k] \in Nat,
         commandCount'[k] = commandCount[k],
         \/ pc \in Preparing /\ pc' \in Preparing
         \/ pc \in Powered /\ pc' \in Powered,
         \/ latest'[k] = latest[k] /\ feedbackCount'[k] = feedbackCount[k]
         \/ /\ latest'[k] = Head(asked[k])
            /\ feedbackCount'[k] =
                 IF pc \in Powered THEN feedbackCount[k] + 1 ELSE feedbackCount[k]
  PROVE  InOrder(k)'
<1>1. /\ asked'[k] = Tail(asked[k])
      /\ Len(rx[k]) >= 1 /\ Len(rx'[k]) = Len(rx[k]) - 1
  BY FollowTake
<1>2. /\ asked[k] \in Seq(Int) /\ Len(asked[k]) = Len(rx[k]) /\ InOrder(k)
      /\ Len(asked[k]) >= 1
  BY <1>1 DEF AnswersInOrder, InOrder
<1>3. CASE pc \in Preparing
  <2>1. pc' \in Preparing /\ pc' \notin Powered /\ pc \notin Powered
    BY <1>3 DEF Preparing, Powered
  <2>2. Echoes(asked[k]) /\ latest[k] = -1
    BY <1>2, <1>3 DEF InOrder
  <2>3. /\ Tail(asked[k]) \in Seq(Int) /\ Echoes(Tail(asked[k]))
        /\ Head(asked[k]) = -1
    BY <1>2, <2>2, EchoesInOrder
  <2>4. latest'[k] = -1
    BY <2>2, <2>3
  <2>5. Len(Tail(asked[k])) = Len(asked[k]) - 1
    BY <1>2
  <2>6. asked'[k] \in Seq(Int) /\ Echoes(asked'[k]) /\ Len(asked'[k]) = Len(rx'[k])
    BY <1>1, <1>2, <2>3, <2>5
  <2> QED BY <2>1, <2>4, <2>6 DEF InOrder, Echoes
<1>4. CASE pc \in Powered
  <2>1. pc' \in Powered /\ pc' \notin Preparing /\ pc \notin Preparing
    BY <1>4 DEF Preparing, Powered
  <2>2. /\ Behind(asked[k], feedbackCount[k], commandCount[k])
        /\ latest[k] \in (feedbackCount[k] - 1)..commandCount[k]
    BY <1>2, <1>4 DEF InOrder
  <2>3. /\ Tail(asked[k]) \in Seq(Int) /\ Len(Tail(asked[k])) = Len(asked[k]) - 1
        /\ Head(asked[k]) \in feedbackCount[k]..commandCount[k]
        /\ Behind(Tail(asked[k]), feedbackCount[k], commandCount[k])
        /\ Behind(Tail(asked[k]), feedbackCount[k] + 1, commandCount[k])
    BY <1>2, <2>2, LeavesInOrder
  <2>4. asked'[k] \in Seq(Int) /\ Len(asked'[k]) = Len(rx'[k])
    BY <1>1, <1>2, <2>3
  <2>5. /\ latest'[k] \in (feedbackCount'[k] - 1)..commandCount'[k]
        /\ Behind(asked'[k], feedbackCount'[k], commandCount'[k])
    <3>1. CASE latest'[k] = latest[k] /\ feedbackCount'[k] = feedbackCount[k]
      BY <1>1, <2>2, <2>3, <3>1
    <3>2. CASE latest'[k] = Head(asked[k]) /\ feedbackCount'[k] = feedbackCount[k] + 1
      <4>1. feedbackCount'[k] - 1 = feedbackCount[k]
        BY <3>2
      <4>2. latest'[k] \in (feedbackCount'[k] - 1)..commandCount'[k]
        BY <2>3, <3>2, <4>1
      <4>3. Behind(asked'[k], feedbackCount'[k], commandCount'[k])
        BY <1>1, <2>3, <3>2
      <4> QED BY <4>2, <4>3
    <3> QED BY <1>4, <3>1, <3>2
  <2> QED BY <2>1, <2>4, <2>5 DEF InOrder, Behind
<1> QED BY <1>3, <1>4

\* Nothing but the loop, in its order, asks, answers and counts, and it reads
\* one answer per frame it waits for: the answers run at most one behind.
LEMMA InOrderStep ==
  ASSUME TypeOK, TalliesAgree, CountsInLoop, UnreadInLoop, AnswersInOrder,
         [PairNext]_pairVars
  PROVE  AnswersInOrder'
<1>0. /\ idx \in 1..(N + 1) /\ cycles \in Nat /\ Motors = 1..N /\ N \in Nat
      /\ commandCount \in [Motors -> Nat] /\ feedbackCount \in [Motors -> Nat]
      /\ latest \in [Motors -> Int]
      /\ \A m \in Motors : Len(rx[m]) \in Nat
      /\ pc \in {"ask_wait", "command_wait"} => idx \in Motors
      /\ idx <= N => idx \in Motors
      /\ BusTypeOK
  BY ConstantTypes, CurrentMotor
  DEF TypeOK, LoopTypeOK, BusTypeOK, Motors, TalliesAgree, Tally, AnswersInOrder
\* Out of the loop nothing is claimed.
<1>1. CASE /\ pc' \in Stopping \union {"over"}
           /\ UNCHANGED latest /\ Follow
  <2>1. pc' \notin Preparing /\ pc' \notin Powered
    BY <1>1 DEF Stopping, Verifying, Preparing, Powered
  <2>2. \A m \in Motors : asked'[m] \in Seq(Int)
    BY <1>1, <2>1 DEF Follow
  <2> QED BY <1>0, <1>1, <2>1, <2>2 DEF AnswersInOrder, InOrder
\* A motor of which the step writes, reads and counts nothing, in the same
\* part of the run, keeps its order.
<1>2. ASSUME NEW m \in Motors, asked'[m] = asked[m], Len(rx'[m]) = Len(rx[m]),
             latest'[m] = latest[m], commandCount'[m] = commandCount[m],
             feedbackCount'[m] = feedbackCount[m],
             \/ pc \in Preparing /\ pc' \in Preparing
             \/ pc \in Powered /\ pc' \in Powered
      PROVE  InOrder(m)'
  <2>1. InOrder(m)
    BY DEF AnswersInOrder
  <2> QED BY <1>2, <2>1 DEF InOrder, Preparing, Powered
\* Steps that do not touch the buses.
<1>3. ASSUME UNCHANGED <<rx, tally>>, Follow,
             \/ pc \in Preparing /\ pc' \in Preparing
             \/ pc \in Powered /\ pc' \in Powered
      PROVE  AnswersInOrder'
  <2>1. ASSUME NEW m \in Motors PROVE asked'[m] = asked[m]
    <3>1. ~(Len(rx[m]) > Len(rx[m])) /\ ~(Len(rx[m]) < Len(rx[m]))
      BY <1>0
    <3> QED BY <1>3, <3>1 DEF Follow
  <2>2. \A m \in Motors : InOrder(m)'
    BY <1>2, <1>3, <2>1 DEF tally
  <2> QED BY <1>0, <1>3, <2>2 DEF AnswersInOrder, tally
\* When the enable loop begins every answer was read.
<1>4. CASE AskedAll /\ pc' = "enable" /\ UNCHANGED tally /\ Follow
  <2>1. /\ pc = "ask" /\ UNCHANGED <<rx, cycles>>
        /\ \A m \in Motors : Len(rx[m]) = 0
    <3>1. pc = "ask" /\ UNCHANGED <<rx, cycles>>
      BY <1>4 DEF AskedAll, busVars
    <3> QED BY <1>0, <3>1 DEF UnreadInLoop
  <2>2. ASSUME NEW m \in Motors PROVE InOrder(m)'
    <3>1. asked'[m] = asked[m]
      BY <1>4, <2>1 DEF Follow, Powered
    <3>2. InOrder(m) /\ commandCount[m] = 0 /\ feedbackCount[m] = 0
      BY <2>1 DEF AnswersInOrder, CountsInLoop, Preparing
    <3>3. asked[m] \in Seq(Int) /\ Len(asked[m]) = 0 /\ latest[m] = -1
      BY <2>1, <3>2 DEF InOrder, Preparing
    <3>4. latest'[m] = -1 /\ commandCount'[m] = 0 /\ feedbackCount'[m] = 0
      BY <1>4, <3>2, <3>3 DEF tally
    <3> QED BY <1>4, <2>1, <3>1, <3>3, <3>4 DEF InOrder, Behind, Preparing, Powered
  <2> QED BY <1>0, <1>4, <2>2 DEF AnswersInOrder, tally
\* A write.
<1>5. ASSUME NEW frame, NEW k \in Motors, idx = k, Deliver(k, frame), Follow,
             UNCHANGED <<latest, feedbackCount, cycles>>,
             commandCount' \in [Motors -> Nat],
             \A m \in Motors \ {k} : commandCount'[m] = commandCount[m],
             \/ /\ pc = "ask" /\ pc' = "ask_wait"
             \/ /\ pc = "enable" /\ pc' = "enable"
                /\ commandCount' = commandCount
             \/ /\ pc = "command" /\ pc' = "command_wait"
                /\ commandCount'[k] = commandCount[k] + 1
      PROVE  AnswersInOrder'
  <2>1. pc' \in Preparing \union Powered
    BY <1>5 DEF Preparing, Powered
  <2>2. \A m \in Motors \ {k} : asked'[m] = asked[m] /\ rx'[m] = rx[m]
    BY <1>0, <1>5, <2>1, FollowDeliver
  <2>3. ASSUME NEW m \in Motors \ {k} PROVE InOrder(m)'
    BY <1>2, <1>5, <2>2 DEF Preparing, Powered
  <2>4. pc \in {"enable", "command"} =>
          /\ commandCount'[k] = cycles /\ commandCount[k] <= cycles
          /\ feedbackCount[k] + Len(rx[k]) <= cycles
    <3>1. CASE pc = "enable"
      <4>1. cycles = 0 /\ commandCount[k] = 0 /\ feedbackCount[k] = 0
        BY <1>5, <3>1 DEF CountsInLoop
      <4>2. Len(rx[k]) <= 0
        BY <1>0, <1>5, <3>1 DEF UnreadInLoop
      <4> QED BY <1>0, <1>5, <3>1, <4>1, <4>2
    <3>2. CASE pc = "command"
      <4>1. /\ commandCount[k] = cycles - 1 /\ feedbackCount[k] = cycles - 1
        BY <1>0, <1>5, <3>2 DEF CountsInLoop
      <4>2. Len(rx[k]) <= 1
        BY <1>0, <1>5, <3>2 DEF UnreadInLoop
      <4> QED BY <1>0, <1>5, <3>2, <4>1, <4>2
    <3> QED BY <3>1, <3>2
  <2>5. feedbackCount[k] \in Nat /\ commandCount[k] \in Nat
    BY <1>0, <1>5
  <2>6. InOrder(k)'
    BY <1>0, <1>5, <2>4, <2>5, WriteInOrder
  <2>7. \A m \in Motors : InOrder(m)'
    BY <2>3, <2>6
  <2> QED BY <1>0, <1>5, <2>7 DEF AnswersInOrder
\* A read of another motor.
<1>6. ASSUME NEW k \in Motors, Skip(k), UNCHANGED tally, Follow,
             pc \in {"ask_wait", "command_wait"}
      PROVE  AnswersInOrder'
  <2>1. /\ pc' = pc /\ TakeAnswer(k)
        /\ \/ pc \in Preparing /\ pc' \in Preparing
           \/ pc \in Powered /\ pc' \in Powered
        /\ pc' \in Preparing \union Powered
    BY <1>6 DEF Skip, loop, Preparing, Powered
  <2>2. \A m \in Motors \ {k} : asked'[m] = asked[m] /\ rx'[m] = rx[m]
    BY <1>0, <1>6, <2>1, FollowTake
  <2>3. UNCHANGED <<commandCount, feedbackCount, latest>>
    BY <1>6 DEF tally
  <2>4. ASSUME NEW m \in Motors \ {k} PROVE InOrder(m)'
    BY <1>2, <2>1, <2>2, <2>3
  <2>5. InOrder(k)'
    BY <1>0, <1>6, <2>1, <2>3, ReadInOrder
  <2>6. \A m \in Motors : InOrder(m)'
    BY <2>4, <2>5
  <2> QED BY <1>0, <2>3, <2>6 DEF AnswersInOrder
\* The answer read: it becomes the latest.
<1>7. CASE PairAccept /\ Follow
  <2>0. PICK k \in Motors : k = idx
    BY <1>0, <1>7 DEF PairAccept, Accept
  <2>1. /\ pc \in {"ask_wait", "command_wait"}
        /\ pc' = IF pc = "ask_wait" THEN "ask" ELSE "command"
        /\ TakeAnswer(k)
        /\ latest' = [latest EXCEPT ![k] = Head(asked[k])]
        /\ commandCount' = commandCount
        /\ feedbackCount' =
             IF pc = "command_wait"
             THEN [feedbackCount EXCEPT ![k] = feedbackCount[k] + 1]
             ELSE feedbackCount
    BY <1>0, <1>7, <2>0 DEF PairAccept, Accept, NextMotor
  <2>2. /\ \/ pc \in Preparing /\ pc' \in Preparing
           \/ pc \in Powered /\ pc' \in Powered
        /\ pc \in Powered <=> pc = "command_wait"
        /\ pc' \in Preparing \union Powered
    BY <2>1 DEF Preparing, Powered
  <2>3. \A m \in Motors \ {k} : asked'[m] = asked[m] /\ rx'[m] = rx[m]
    BY <1>0, <1>7, <2>1, <2>2, FollowTake
  <2>4. ASSUME NEW m \in Motors \ {k} PROVE InOrder(m)'
    <3>1. /\ latest'[m] = latest[m] /\ commandCount'[m] = commandCount[m]
          /\ feedbackCount'[m] = feedbackCount[m]
      BY <1>0, <2>1
    <3> QED BY <1>2, <2>2, <2>3, <3>1
  <2>5. /\ latest'[k] = Head(asked[k]) /\ commandCount'[k] = commandCount[k]
        /\ feedbackCount'[k] =
             IF pc \in Powered THEN feedbackCount[k] + 1 ELSE feedbackCount[k]
        /\ feedbackCount[k] \in Nat /\ commandCount[k] \in Nat
    BY <1>0, <2>1, <2>2
  <2>6. InOrder(k)'
    BY <1>0, <1>7, <2>1, <2>2, <2>5, ReadInOrder
  <2>7. latest' \in [Motors -> Int]
    <3>1. /\ asked[k] \in Seq(Int) /\ Len(asked[k]) = Len(rx[k])
      BY <2>1, <2>2 DEF AnswersInOrder, InOrder
    <3>2. Len(rx[k]) >= 1
      BY <1>0, <1>7, <2>1, <2>2, FollowTake
    <3>3. Head(asked[k]) \in Int
      BY <3>1, <3>2
    <3> QED BY <1>0, <2>1, <3>3
  <2> QED BY <2>4, <2>6, <2>7 DEF AnswersInOrder
<1>8. CASE PairRefuse /\ Follow
  BY <1>1, <1>8 DEF PairRefuse, Refuse, Raise, EnterFinally, Stopping
<1>9. CASE (JointCheckFails \/ PairReport) /\ Follow
  BY <1>1, <1>9
  DEF JointCheckFails, PairReport, Raise, EnterFinally, Stopping, tally
<1>10. CASE PairCommand /\ Follow
  <2>1. /\ pc = "command" /\ pc' = "command_wait" /\ idx \in Motors
        /\ Deliver(idx, "command") /\ UNCHANGED <<latest, feedbackCount, cycles>>
        /\ commandCount' = [commandCount EXCEPT ![idx] = commandCount[idx] + 1]
    BY <1>0, <1>10 DEF PairCommand, Command, Await
  <2>2. /\ commandCount' \in [Motors -> Nat]
        /\ commandCount'[idx] = commandCount[idx] + 1
        /\ \A m \in Motors \ {idx} : commandCount'[m] = commandCount[m]
    BY <1>0, <2>1
  <2> QED BY <1>5, <1>10, <2>1, <2>2
<1>11. CASE AsGroupHold /\ UNCHANGED tally /\ Follow
  <2>1. CASE Ask \/ Enable
    <3>1. /\ idx \in Motors /\ UNCHANGED cycles
          /\ \E frame \in {"poll", "enable"} : Deliver(idx, frame)
          /\ \/ pc = "ask" /\ pc' = "ask_wait"
             \/ pc = "enable" /\ pc' = "enable"
      BY <1>0, <2>1 DEF Ask, Enable, Await, NextMotor
    <3> QED BY <1>0, <1>5, <1>11, <3>1 DEF tally
  <2>2. CASE AskedAll \/ CycleStarts
    BY <1>3, <1>4, <1>11, <2>2
    DEF AskedAll, CycleStarts, busVars, Preparing, Powered
  <2>3. CASE \/ HoldEnds \/ WatchdogExpires \/ SendRefused \/ Interrupt
             \/ Escape
    BY <1>1, <1>11, <2>3
    DEF HoldEnds, WatchdogExpires, SendRefused, Interrupt, Escape, Raise,
        EnterFinally, Stopping, tally
  <2>4. CASE \/ Disable \/ RefusedDisable \/ PassEnds \/ VerifyDisable
             \/ VerifyEcho \/ InterruptedDisable
    BY <1>1, <1>11, <2>4
    DEF Disable, RefusedDisable, PassEnds, VerifyDisable, VerifyEcho,
        InterruptedDisable, NextMotor, Await, Stopping, Verifying, tally
  <2>5. CASE VerifyAnswer \/ VerifyCaught \/ VerifyNext
    BY <1>1, <1>11, <2>5
    DEF VerifyAnswer, VerifyCaught, VerifyNext, TryEnds, Trying, Stopping,
        Verifying, tally
  <2>6. ASSUME NEW m \in Motors, Skip(m) PROVE AnswersInOrder'
    <3>1. pc' = pc /\ pc \in {"ask_wait", "command_wait", "verify_wait"}
      BY <2>6 DEF Skip, loop
    <3>2. CASE pc = "verify_wait"
      BY <1>1, <1>11, <3>1, <3>2 DEF Stopping, Verifying, tally
    <3> QED BY <1>6, <1>11, <2>6, <3>1, <3>2
  <2>7. ASSUME NEW m \in Motors, DriveTrips(m) PROVE AnswersInOrder'
    <3>1. UNCHANGED <<rx, pc>>
      BY <2>7 DEF DriveTrips, Trip, loop
    <3>2. CASE pc \in Preparing \union Powered
      BY <1>3, <1>11, <3>1, <3>2
    <3>3. CASE pc \notin Preparing \union Powered
      <4>1. pc \in Stopping \union {"over"}
        BY <3>3 DEF TypeOK, LoopTypeOK
      <4> QED BY <1>1, <1>11, <3>1, <4>1 DEF tally
    <3> QED BY <3>2, <3>3
  <2> QED
    BY <1>11, <2>1, <2>2, <2>3, <2>4, <2>5, <2>6, <2>7
    DEF AsGroupHold, Environment
<1>12. CASE UNCHANGED pairVars
  BY <1>12
  DEF pairVars, vars, loop, tally, busVars, AnswersInOrder, InOrder, Echoes,
      Behind
<1> QED
  BY <1>7, <1>8, <1>9, <1>10, <1>11, <1>12 DEF PairNext, PairStep

(***************************************************************************)
(* The two motors of a gate stay in step for any number of cycles: each    *)
(* cycle reads one answer of each, and a joint torque is computed from     *)
(* answers to the last command or the one before.                          *)
(***************************************************************************)
THEOREM GateStaysInStep == PairSpec => []PairInStep
<1> DEFINE Inv ==
      TypeOK /\ TalliesAgree /\ CountsInLoop /\ UnreadInLoop /\ AnswersInOrder
<1>1. PairInit => Inv
  <2>1. PairInit => CountsInLoop
    BY DEF PairInit, Init, CountsInLoop, Preparing
  <2>2. PairInit => UnreadInLoop
    BY InitAnswersAreTrue DEF PairInit, AnswersAreTrue
  <2>3. PairInit => AnswersInOrder
    BY DEF PairInit, Init, BusInit, AnswersInOrder, InOrder, Echoes, Preparing,
           Powered
  <2> QED BY <2>1, <2>2, <2>3, InitTypeOK, InitTalliesAgree DEF PairInit
<1>2. ASSUME Inv, [PairNext]_pairVars PROVE Inv'
  <2>1. [Next]_vars
    BY <1>2, PairNextIsNext
  <2>2. TypeOK' /\ UnreadInLoop'
    BY <1>2, <2>1, NextTypeOK, UnreadStep
  <2>3. TalliesAgree' /\ CountsInLoop'
    BY <1>2, NextTalliesAgree, CountsStep
  <2>4. AnswersInOrder'
    BY <1>2, InOrderStep
  <2> QED BY <2>2, <2>3, <2>4
<1>3. ASSUME Inv PROVE PairInStep
  <2>0. /\ idx \in 1..(N + 1) /\ cycles \in Nat /\ Motors = 1..N /\ N \in Nat
        /\ commandCount \in [Motors -> Nat] /\ feedbackCount \in [Motors -> Nat]
    BY <1>3, ConstantTypes DEF TypeOK, LoopTypeOK, Motors, TalliesAgree, Tally
  <2>1. ASSUME pc = "command", NEW m \in Motors
        PROVE  LET sent == IF m < idx THEN cycles ELSE cycles - 1
               IN /\ commandCount[m] = sent /\ feedbackCount[m] = sent
                  /\ latest[m] \in {sent - 1, sent}
    <3>1. /\ commandCount[m] = IF m < idx THEN cycles ELSE cycles - 1
          /\ feedbackCount[m] = commandCount[m]
      BY <1>3, <2>0, <2>1 DEF CountsInLoop
    <3>2. latest[m] \in (feedbackCount[m] - 1)..commandCount[m]
      BY <1>3, <2>1 DEF AnswersInOrder, InOrder, Powered
    <3>3. CASE m < idx
      <4>1. commandCount[m] = cycles /\ feedbackCount[m] = cycles
        BY <3>1, <3>3
      <4>2. latest[m] \in {cycles - 1, cycles}
        BY <2>0, <3>2, <4>1
      <4> QED BY <3>3, <4>1, <4>2
    <3>4. CASE ~(m < idx)
      <4>1. commandCount[m] = cycles - 1 /\ feedbackCount[m] = cycles - 1
        BY <3>1, <3>4
      <4>2. latest[m] \in (cycles - 1 - 1)..(cycles - 1)
        BY <3>2, <4>1
      <4>3. latest[m] \in {cycles - 1 - 1, cycles - 1}
        <5>1. PICK x \in Int : x = latest[m]
          BY <4>2
        <5>2. x \in (cycles - 1 - 1)..(cycles - 1)
          BY <4>2, <5>1
        <5>3. x \in {cycles - 1 - 1, cycles - 1}
          BY ONLY <2>0, <5>2, x \in Int
        <5> QED BY <5>1, <5>3
      <4> QED BY <3>4, <4>1, <4>3
    <3> QED BY <3>3, <3>4
  <2> QED BY <2>1 DEF PairInStep
<1> HIDE DEF Inv
<1> QED BY <1>1, <1>2, <1>3, PTL DEF PairSpec

(***************************************************************************)
(* A gate that was cut short never passes, for any number of cycles: its   *)
(* counts are no larger than the cycles begun.                             *)
(***************************************************************************)
THEOREM PassingTakesCycles == PairSpec => []PassTakesCycles
<1> DEFINE Inv == TypeOK /\ TalliesAgree /\ CountsInLoop /\ PassTakesCycles
<1>1. PairInit => Inv
  <2>1. PairInit => CountsInLoop /\ PassTakesCycles
    BY DEF PairInit, Init, CountsInLoop, Preparing, PassTakesCycles
  <2> QED BY <2>1, InitTypeOK, InitTalliesAgree DEF PairInit
<1>2. ASSUME Inv, [PairNext]_pairVars PROVE PassTakesCycles'
  <2>0. /\ cycles \in Nat /\ 1 \in Motors /\ MinCount \in Nat
        /\ commandCount \in [Motors -> Nat]
    BY <1>2, ConstantTypes, PairAssumption
    DEF TypeOK, LoopTypeOK, Motors, TalliesAgree, Tally
  <2>1. cycles' = cycles \/ cycles' = cycles + 1
    BY <1>2
    DEF PairNext, PairStep, pairVars, vars, loop, AsGroupHold, Environment, Ask,
        AskedAll, Enable, CycleStarts, HoldEnds, WatchdogExpires, SendRefused,
        Skip, Disable, RefusedDisable, PassEnds, VerifyDisable, VerifyEcho,
        VerifyAnswer, VerifyCaught, VerifyNext, Interrupt, InterruptedDisable,
        Escape, DriveTrips, PairCommand, Command, PairAccept, Accept,
        PairRefuse, Refuse, JointCheckFails, PairReport, Raise, EnterFinally,
        NextMotor, Await, TryEnds
  <2>2. CASE PairReport /\ pairPassed
    <3>1. commandCount[1] >= MinCount /\ commandCount[1] <= cycles
      BY <1>2, <2>0, <2>2 DEF pairPassed, CountsInLoop
    <3> QED
      BY <2>0, <2>1, <2>2, <3>1 DEF PairReport, PassTakesCycles
  <2>3. CASE ~(PairReport /\ pairPassed)
    <3>1. verdict' = "passed" => verdict = "passed"
      BY <1>2, <2>3
      DEF PairNext, PairStep, pairVars, vars, outcome, AsGroupHold, Environment, Ask,
          AskedAll, Enable, CycleStarts, HoldEnds, WatchdogExpires,
          SendRefused, Skip, Disable, RefusedDisable, PassEnds, VerifyDisable,
          VerifyEcho, VerifyAnswer, VerifyCaught, VerifyNext, Interrupt,
          InterruptedDisable, Escape, DriveTrips, PairCommand, Command,
          PairAccept, Accept, PairRefuse, Refuse, JointCheckFails, PairReport,
          Raise
    <3> QED BY <1>2, <2>0, <2>1, <3>1 DEF PassTakesCycles
  <2> QED BY <2>2, <2>3
<1>3. Inv /\ [PairNext]_pairVars => Inv'
  BY <1>2, PairNextIsNext, NextTypeOK, NextTalliesAgree, CountsStep
<1>4. Inv => PassTakesCycles
  OBVIOUS
<1> HIDE DEF Inv
<1> QED BY <1>1, <1>3, <1>4, PTL DEF PairSpec

(***************************************************************************)
(* So a gate arms only disabled drives, enables none in its finally block  *)
(* and passes only when no drive is enabled; and a motor it reports        *)
(* disabled is disabled.                                                   *)
(***************************************************************************)
THEOREM GateIsFailClosed == PairSpec => ImplementsFailClosedRun /\ []DisabledIsTrue
<1>1. PairSpec => Spec
  BY GateIsHold DEF ImplementsGroupHold
<1>2. TypeOK /\ AnswersAreTrue => DisabledIsTrue
  BY DEF AnswersAreTrue
<1> QED BY <1>1, <1>2, FailClosedRefined, AnswersStayTrue, PTL

==============================================================================
