------------------------ MODULE MeasuredPoseHoldProofs ------------------------
(***************************************************************************)
(* Theorems about MeasuredPoseHold, for every number of motors, slots,     *)
(* passes and losses.                                                      *)
(***************************************************************************)
EXTENDS MeasuredPoseHold, CanDrivesProofs

\* The assumptions, as the provers need them.
LEMMA ConstantTypes ==
  /\ N \in Nat /\ N >= 1 /\ Passes \in Nat /\ Passes >= 1
  /\ \A where \in Polling : Slots[where] \in Nat /\ Slots[where] > 0
<1>1. /\ WarmSlots \in Nat /\ WarmSlots > 0
      /\ HoldSlots \in Nat /\ HoldSlots > 0
      /\ VerifySlots \in Nat /\ VerifySlots > 0
  BY HoldAssumption
<1>2. /\ Slots["warm"] = WarmSlots /\ Slots["hold"] = HoldSlots
      /\ Slots["verify"] = VerifySlots
  BY DEF Slots
<1> QED BY <1>1, <1>2, NAssumption, HoldAssumption DEF Polling

\* Every place of the controller.
LEMMA Places ==
  /\ Polling = {"warm", "hold", "verify"}
  /\ Powered = {"enable", "hold"}
  /\ Stopping = {"disable", "verify", "report"}
  BY DEF Polling, Powered, Stopping

--------------------------------------------------------------------------------
(* Type correctness.                                                       *)

LoopTypeOK ==
  /\ stage \in Polling \union Powered \union Stopping \union {"over"}
  /\ step \in {"send", "drain", "settle"}
  /\ slot \in Nat /\ (stage \in Polling => slot < Slots[stage])
  /\ idx \in 1..(N + 1) /\ pass \in 1..Passes

OutcomeTypeOK ==
  /\ {alive, failed, missed} \subseteq BOOLEAN
  /\ verdict \in {"none", "passed", "not_passed"}

RecordTypeOK ==
  /\ seen \in [Motors -> BOOLEAN] /\ finalDisabled \in [Motors -> BOOLEAN]
  /\ txCount \in [Motors -> Nat] /\ rxCount \in [Motors -> Nat]
  /\ disables \in [Motors -> Nat]

LEMMA TypeParts == TypeOK <=> BusTypeOK /\ LoopTypeOK /\ OutcomeTypeOK /\ RecordTypeOK
  BY DEF TypeOK, LoopTypeOK, OutcomeTypeOK, RecordTypeOK

\* Before the first frame everything has its type.
LEMMA InitTypeOK == Init => TypeOK
<1> SUFFICES ASSUME Init PROVE TypeOK
  OBVIOUS
<1>1. BusTypeOK
  BY LossAssumption DEF Init, BusInit, BusTypeOK
<1>2. LoopTypeOK
  BY ConstantTypes, Places DEF Init, LoopTypeOK
<1>3. OutcomeTypeOK
  BY DEF Init, OutcomeTypeOK
<1>4. RecordTypeOK
  BY DEF Init, RecordTypeOK
<1> QED BY <1>1, <1>2, <1>3, <1>4, TypeParts

\* A place whose loop begins anew.
LEMMA EnterTypeOK ==
  ASSUME NEW where \in Polling \union Powered \union Stopping, Enter(where)
  PROVE  LoopTypeOK'
  BY ConstantTypes DEF Enter, LoopTypeOK

\* An exception leads to the shutdown block, and from it to the report.
LEMMA ThrowTypeOK == ASSUME Throw PROVE LoopTypeOK' /\ failed' = TRUE
<1>1. PICK where \in {"disable", "report"} : Enter(where)
  BY DEF Throw
<1> QED BY <1>1, EnterTypeOK, Places DEF Throw

\* A step keeps the types of the place in the controller.
LEMMA NextLoopTypeOK == ASSUME TypeOK, [Next]_vars PROVE LoopTypeOK'
<1> USE DEF loop
<1>0. LoopTypeOK
  BY TypeParts
<1>1. CASE UNCHANGED loop
  BY <1>0, <1>1 DEF LoopTypeOK
<1>2. CASE Throw
  BY <1>2, ThrowTypeOK
<1>3. CASE Send \/ Enable \/ Disable
  <2>1. idx <= N /\ idx' = idx + 1 /\ UNCHANGED <<stage, step, slot, pass>>
    BY <1>3 DEF Send, Enable, Disable
  <2> QED BY <1>0, <2>1, ConstantTypes DEF LoopTypeOK
<1>4. CASE SlotSent
  BY <1>0, <1>4, ConstantTypes DEF SlotSent, LoopTypeOK
<1>5. CASE SlotEnds
  BY <1>0, <1>5, ConstantTypes DEF SlotEnds, LoopTypeOK
<1>6. CASE Capture \/ EnableDone \/ StartVerify
  BY <1>6, EnterTypeOK, Places DEF Capture, EnableDone, StartVerify
<1>7. CASE HoldDone \/ VerifyDone
  BY <1>2, <1>7, EnterTypeOK, Places DEF HoldDone, VerifyDone
<1>8. CASE NextPass
  BY <1>0, <1>8, ConstantTypes DEF NextPass, LoopTypeOK
<1>9. CASE Report
  BY <1>0, <1>9, Places DEF Report, LoopTypeOK
<1>10. CASE SendThrows \/ CaptureFails \/ \E m \in Motors : Refuse(m)
  BY <1>2, <1>10 DEF SendThrows, CaptureFails, Refuse
<1>11. CASE UNCHANGED vars \/ Kill \/ \E m \in Motors : Accept(m) \/ DriveTrips(m)
  BY <1>1, <1>11 DEF vars, Kill, Accept, DriveTrips
<1> QED
  BY <1>3, <1>4, <1>5, <1>6, <1>7, <1>8, <1>9, <1>10, <1>11
  DEF Next, Controller, Poll, Between

\* Exit status and failure stay among their values.
LEMMA NextOutcomeTypeOK == ASSUME TypeOK, [Next]_vars PROVE OutcomeTypeOK'
<1> USE DEF OutcomeTypeOK, outcome
<1>0. OutcomeTypeOK
  BY TypeParts
<1>1. failed' = failed \/ failed' = TRUE
  BY ThrowTypeOK
  DEF vars, Next, Controller, Poll, Between, Send, SendThrows, SlotSent, SlotEnds, Accept,
      Refuse, Capture, CaptureFails, Enable, EnableDone, HoldDone, Disable, NextPass,
      StartVerify, VerifyDone, Report, Kill, DriveTrips
<1>2. verdict' \in {verdict, "passed", "not_passed"}
  BY DEF Throw, vars, Next, Controller, Poll, Between, Send, SendThrows, SlotSent, SlotEnds,
         Accept, Refuse, Capture, CaptureFails, Enable, EnableDone, HoldDone, Disable,
         NextPass, StartVerify, VerifyDone, Report, Kill, DriveTrips
<1>3. missed' \in {missed, TRUE}
  BY DEF vars, Next, Controller, Poll, Between, Send, SendThrows, SlotSent, SlotEnds,
         Accept, Refuse, Capture, CaptureFails, Enable, EnableDone, HoldDone, Disable,
         NextPass, StartVerify, VerifyDone, Report, Kill, DriveTrips
<1>4. alive' = alive \/ alive' = FALSE
  BY DEF vars, Next, Controller, Kill, DriveTrips
<1> QED BY <1>0, <1>1, <1>2, <1>3, <1>4

\* What a step may do to the buses: nothing, a write to the current motor, a
\* read of one motor's answer, or a fault of a drive.
LEMMA BusMoves ==
  ASSUME TypeOK, [Next]_vars
  PROVE  \/ UNCHANGED busVars
         \/ idx \in Motors /\ \E frame \in {"poll", "command"} : Deliver(idx, frame)
         \/ idx \in Motors /\ Enable /\ Deliver(idx, "enable")
         \/ idx \in Motors /\ Disable /\ Deliver(idx, "disable")
         \/ \E m \in Motors : TakeAnswer(m) /\ UNCHANGED <<drive, lost>>
         \/ \E m \in Motors : Trip(m)
<1>0. idx <= N => idx \in Motors
  BY ConstantTypes, TypeParts DEF LoopTypeOK, Motors
<1>1. CASE Send
  BY <1>0, <1>1 DEF Send
<1>2. CASE Enable \/ Disable
  BY <1>0, <1>2 DEF Enable, Disable
<1>3. CASE \E m \in Motors : Accept(m) \/ Refuse(m)
  BY <1>3 DEF Accept, Refuse
<1>4. CASE \E m \in Motors : DriveTrips(m)
  BY <1>4 DEF DriveTrips
<1>5. CASE SendThrows \/ SlotSent \/ SlotEnds \/ Capture \/ CaptureFails \/ EnableDone
  BY <1>5 DEF SendThrows, SlotSent, SlotEnds, Capture, CaptureFails, EnableDone
<1>6. CASE HoldDone \/ NextPass \/ StartVerify \/ VerifyDone \/ Report \/ Kill
  BY <1>6 DEF HoldDone, NextPass, StartVerify, VerifyDone, Report, Kill
<1>7. CASE UNCHANGED vars
  BY <1>7 DEF vars
<1> QED
  BY <1>1, <1>2, <1>3, <1>4, <1>5, <1>6, <1>7 DEF Next, Controller, Poll, Between

\* A step keeps the types of the buses.
LEMMA NextBusTypeOK == ASSUME TypeOK, [Next]_vars PROVE BusTypeOK'
<1>0. BusTypeOK
  BY TypeParts
<1>1. ASSUME idx \in Motors, NEW frame, Deliver(idx, frame) PROVE BusTypeOK'
  BY <1>0, <1>1, DeliverEffect
<1>2. ASSUME NEW m \in Motors, TakeAnswer(m), UNCHANGED <<drive, lost>>
      PROVE  BusTypeOK'
  BY <1>0, <1>2, TakeEffect DEF BusTypeOK
<1>3. ASSUME NEW m \in Motors, Trip(m) PROVE BusTypeOK'
  BY <1>0, <1>3 DEF Trip, BusTypeOK, Status
<1> QED BY <1>0, <1>1, <1>2, <1>3, BusMoves, BusSame

--------------------------------------------------------------------------------
(* What any step does to one motor.                                        *)

\* Only the enable loop turns a drive on, only the disable loop turns it off.
DriveStep(m) ==
  \/ drive'[m] = drive[m]
  \/ drive'[m] = "trip"
  \/ stage = "enable" /\ drive[m] = "off" /\ drive'[m] = "on"
  \/ stage = "disable" /\ drive[m] = "on" /\ drive'[m] = "off" /\ disables'[m] # 0

\* What is remembered of m stays, takes in the answer read, or is reset.
FeedbackStep(m) ==
  \/ UNCHANGED <<seen[m], finalDisabled[m], rxCount[m]>>
  \/ /\ Draining /\ UNCHANGED <<stage, failed>>
     /\ rx[m] # <<>> /\ rx'[m] = Tail(rx[m]) /\ Head(rx[m]) \in Expected
     /\ seen'[m]
     /\ finalDisabled'[m] = (IF stage = "hold" THEN finalDisabled[m]
                             ELSE Head(rx[m]) = "off")
  \/ Capture /\ ~seen'[m] /\ ~finalDisabled'[m] /\ rxCount'[m] = 0
  \/ StartVerify /\ ~seen'[m] /\ ~finalDisabled'[m] /\ rxCount'[m] = rxCount[m]

\* 0xFD is counted when it is written.
DisableStep(m) ==
  \/ disables'[m] = disables[m]
  \/ stage = "disable" /\ disables'[m] = disables[m] + 1

LEMMA NextDisables ==
  ASSUME TypeOK, [Next]_vars
  PROVE  /\ disables' \in [Motors -> Nat]
         /\ \A m \in Motors : DisableStep(m)
         /\ Disable => disables'[idx] # 0
<1>0. disables \in [Motors -> Nat]
  BY TypeParts DEF RecordTypeOK
<1>1. CASE Disable
  <2>1. idx \in Motors /\ stage = "disable" /\ disables' = [disables EXCEPT ![idx] = @ + 1]
    BY <1>1, ConstantTypes, TypeParts DEF Disable, LoopTypeOK, Motors
  <2> QED BY <1>0, <2>1 DEF DisableStep
<1>2. CASE ~Disable
  <2>1. UNCHANGED disables
    BY <1>2
    DEF vars, Next, Controller, Poll, Between, Send, SendThrows, SlotSent, SlotEnds,
        Accept, Refuse, Capture, CaptureFails, Enable, EnableDone, HoldDone, NextPass,
        StartVerify, VerifyDone, Report, Kill, DriveTrips
  <2> QED BY <1>0, <1>2, <2>1 DEF DisableStep
<1> QED BY <1>1, <1>2

\* What any step does to a motor's answers and to its drive.
LEMMA BusStep ==
  ASSUME TypeOK, [Next]_vars
  PROVE  \A m \in Motors : RxStep(m) /\ DriveStep(m)
<1>0. BusTypeOK
  BY TypeParts
<1>1. CASE UNCHANGED busVars
  BY <1>1 DEF busVars, RxStep, DriveStep
<1>2. ASSUME idx \in Motors, NEW frame \in {"poll", "command"}, Deliver(idx, frame)
      PROVE  \A m \in Motors : RxStep(m) /\ DriveStep(m)
  <2>1. Obey(drive[idx], frame) = drive[idx]
    BY <1>2 DEF Obey
  <2> QED BY <1>0, <1>2, <2>1, DeliverSteps DEF DriveStep
<1>3. CASE idx \in Motors /\ Enable /\ Deliver(idx, "enable")
  <2>1. /\ stage = "enable"
        /\ Obey(drive[idx], "enable") = IF drive[idx] = "off" THEN "on" ELSE drive[idx]
    BY <1>3 DEF Enable, Obey
  <2> QED BY <1>0, <1>3, <2>1, DeliverSteps DEF DriveStep
<1>4. CASE idx \in Motors /\ Disable /\ Deliver(idx, "disable")
  <2>1. /\ stage = "disable" /\ disables'[idx] # 0
        /\ Obey(drive[idx], "disable") = IF drive[idx] = "on" THEN "off" ELSE drive[idx]
    BY <1>4, NextDisables DEF Disable, Obey
  <2> QED BY <1>0, <1>4, <2>1, DeliverSteps DEF DriveStep
<1>5. ASSUME NEW k \in Motors, TakeAnswer(k), UNCHANGED <<drive, lost>>
      PROVE  \A m \in Motors : RxStep(m) /\ DriveStep(m)
  BY <1>0, <1>5, TakeSteps DEF DriveStep
<1>6. ASSUME NEW k \in Motors, Trip(k)
      PROVE  \A m \in Motors : RxStep(m) /\ DriveStep(m)
  BY <1>0, <1>6 DEF Trip, RxStep, DriveStep, BusTypeOK
<1> QED BY <1>1, <1>2, <1>3, <1>4, <1>5, <1>6, BusMoves

\* The counts: one more of one motor, or none.
LEMMA CountedType ==
  ASSUME NEW count \in [Motors -> Nat], NEW m \in Motors
  PROVE  /\ Counted(count, m) \in [Motors -> Nat]
         /\ \A k \in Motors \ {m} : Counted(count, m)[k] = count[k]
  BY DEF Counted

\* What any step does to a motor's record.
LEMMA NextFeedback ==
  ASSUME TypeOK, [Next]_vars
  PROVE  /\ \A m \in Motors : FeedbackStep(m)
         /\ seen' \in [Motors -> BOOLEAN] /\ finalDisabled' \in [Motors -> BOOLEAN]
         /\ rxCount' \in [Motors -> Nat]
<1> USE DEF records, counts
<1>t. RecordTypeOK /\ BusTypeOK
  BY TypeParts
<1>0. CASE UNCHANGED <<records, rxCount>>
  BY <1>t, <1>0 DEF FeedbackStep, RecordTypeOK
<1>1. ASSUME NEW k \in Motors, Accept(k)
      PROVE  /\ \A m \in Motors : FeedbackStep(m)
             /\ seen' \in [Motors -> BOOLEAN] /\ finalDisabled' \in [Motors -> BOOLEAN]
             /\ rxCount' \in [Motors -> Nat]
  <2>1. /\ Draining /\ TakeAnswer(k) /\ Head(rx[k]) \in Expected
        /\ UNCHANGED <<stage, failed>>
        /\ seen' = [seen EXCEPT ![k] = TRUE]
        /\ rxCount' = Counted(rxCount, k)
        /\ finalDisabled' = IF stage = "hold" THEN finalDisabled
                            ELSE [finalDisabled EXCEPT ![k] = (Head(rx[k]) = "off")]
    BY <1>1 DEF Accept, loop, outcome
  <2>2. rx[k] # <<>> /\ rx'[k] = Tail(rx[k])
    BY <1>t, <2>1 DEF TakeAnswer, BusTypeOK
  <2>3. seen' \in [Motors -> BOOLEAN]
    BY <1>t, <2>1 DEF RecordTypeOK
  <2>4. finalDisabled' \in [Motors -> BOOLEAN]
    BY <1>t, <2>1 DEF RecordTypeOK
  <2>5. /\ rxCount' \in [Motors -> Nat]
        /\ \A m \in Motors \ {k} : rxCount'[m] = rxCount[m]
    BY <1>t, <2>1, CountedType DEF RecordTypeOK
  <2>6. ASSUME NEW m \in Motors PROVE FeedbackStep(m)
    <3>1. CASE m = k
      <4>1. seen'[k]
        BY <1>t, <2>1 DEF RecordTypeOK
      <4>2. finalDisabled'[k] = (IF stage = "hold" THEN finalDisabled[k]
                                 ELSE Head(rx[k]) = "off")
        BY <1>t, <2>1 DEF RecordTypeOK
      <4> QED BY <2>1, <2>2, <3>1, <4>1, <4>2, Zenon DEF FeedbackStep
    <3>2. CASE m # k
      BY <1>t, <2>1, <2>5, <3>2 DEF FeedbackStep, RecordTypeOK
    <3> QED BY <3>1, <3>2
  <2> QED BY <2>3, <2>4, <2>5, <2>6
<1>2. CASE Capture
  BY <1>2 DEF Capture, FeedbackStep
<1>3. CASE StartVerify
  BY <1>t, <1>3 DEF StartVerify, FeedbackStep, RecordTypeOK
<1>4. CASE Send \/ SendThrows \/ SlotSent \/ SlotEnds \/ (\E m \in Motors : Refuse(m))
  BY <1>0, <1>4 DEF Send, SendThrows, SlotSent, SlotEnds, Refuse
<1>5. CASE CaptureFails \/ Enable \/ EnableDone \/ HoldDone \/ Disable \/ NextPass
  BY <1>0, <1>5 DEF CaptureFails, Enable, EnableDone, HoldDone, Disable, NextPass
<1>6. CASE VerifyDone \/ Report \/ Kill \/ (\E m \in Motors : DriveTrips(m)) \/ UNCHANGED vars
  BY <1>0, <1>6 DEF VerifyDone, Report, Kill, DriveTrips, vars
<1> QED
  BY <1>1, <1>2, <1>3, <1>4, <1>5, <1>6 DEF Next, Controller, Poll, Between

\* A step keeps the types of the records.
LEMMA NextRecordTypeOK == ASSUME TypeOK, [Next]_vars PROVE RecordTypeOK'
<1>0. RecordTypeOK
  BY TypeParts
<1>1. CASE Send
  <2>1. idx \in Motors
    BY <1>1, ConstantTypes, TypeParts DEF Send, LoopTypeOK, Motors
  <2>2. txCount' \in [Motors -> Nat]
    BY <1>0, <1>1, <2>1, CountedType DEF Send, RecordTypeOK
  <2> QED BY <2>2, NextFeedback, NextDisables DEF RecordTypeOK
<1>2. CASE ~Send
  <2>1. txCount' \in {txCount, [m \in Motors |-> 0]}
    BY <1>2
    DEF vars, counts, Next, Controller, Poll, Between, SendThrows, SlotSent, SlotEnds,
        Accept, Refuse, Capture, CaptureFails, Enable, EnableDone, HoldDone, Disable,
        NextPass, StartVerify, VerifyDone, Report, Kill, DriveTrips
  <2> QED BY <1>0, <2>1, NextFeedback, NextDisables DEF RecordTypeOK
<1> QED BY <1>1, <1>2

\* A step keeps every type.
LEMMA NextTypeOK == ASSUME TypeOK, [Next]_vars PROVE TypeOK'
<1>1. TypeOK' <=> BusTypeOK' /\ LoopTypeOK' /\ OutcomeTypeOK' /\ RecordTypeOK'
  BY DEF TypeOK, LoopTypeOK, OutcomeTypeOK, RecordTypeOK
<1> QED BY <1>1, NextBusTypeOK, NextLoopTypeOK, NextOutcomeTypeOK, NextRecordTypeOK

(***************************************************************************)
(* Every variable of the measured-pose hold keeps its type.                *)
(***************************************************************************)
THEOREM TypeCorrect == Spec => []TypeOK
<1>1. Init => TypeOK
  BY InitTypeOK
<1>2. TypeOK /\ [Next]_vars => TypeOK'
  BY NextTypeOK
<1> QED BY <1>1, <1>2, PTL DEF Spec

--------------------------------------------------------------------------------
(* The invariant behind AnswersAreTrue.                                    *)

\* The records and the counts start anew before the enable frames.
StartsAnew == stage = "enable" => \A m \in Motors : ~seen[m] /\ rxCount[m] = 0

\* 0xFD is written in the shutdown block only.
NotYetDisabled ==
  stage \in {"warm", "enable", "hold"} => \A m \in Motors : disables[m] = 0

\* Until its first 0xFD a drive goes from "off" to "on" and not back.
OnBeforeDisable ==
  \A m \in Motors : disables[m] = 0 =>
    /\ drive[m] = "off" => ~Waiting(m, "on")
    /\ OffBeforeOn(rx[m])

\* Who reports without a failure has read a last "disabled" of every motor.
ReportVerified ==
  stage = "report" /\ ~failed => \A m \in Motors : finalDisabled[m]

PoseInv ==
  /\ TypeOK
  /\ SeenIsOff /\ StartsAnew /\ NotYetDisabled /\ OnBeforeDisable
  /\ SeenIsOn /\ NotYetVerified /\ OffIsOff /\ ReportVerified

\* Where any step can lead, and what it must find to get there.
StageStep ==
  /\ stage' = "warm" => stage = "warm"
  /\ stage' = "enable" => stage = "enable" \/ Capture
  /\ stage' = "hold" => stage = "hold" \/ EnableDone
  /\ stage' = "disable" /\ ~failed' =>
       stage = "disable" \/ (stage = "hold" /\ Covered /\ UNCHANGED <<records, rxCount>>)
  /\ stage' = "verify" => stage = "verify" \/ StartVerify
  /\ stage' = "report" /\ ~failed' =>
       \/ stage = "report"
       \/ /\ stage = "verify" /\ UNCHANGED finalDisabled
          /\ \A m \in Motors : finalDisabled[m]
  /\ failed => failed'
  /\ Capture => stage = "warm" /\ stage' = "enable"
  /\ StartVerify => stage = "disable" /\ stage' = "verify"

LEMMA NextStage == ASSUME TypeOK, [Next]_vars PROVE StageStep
<1> USE DEF loop, outcome, Enter, StageStep
<1>0. LoopTypeOK
  BY TypeParts
<1>1. CASE Throw
  <2>1. failed' = TRUE /\ stage' \in {"disable", "report"}
    BY <1>1 DEF Throw
  <2> QED BY <2>1 DEF Throw, Capture, StartVerify
<1>2. CASE UNCHANGED <<stage, failed>>
  BY <1>2 DEF Capture, StartVerify, Settled
<1>3. CASE Capture
  BY <1>3 DEF Capture, StartVerify, Settled
<1>4. CASE EnableDone
  BY <1>4 DEF EnableDone, Capture, StartVerify, Settled
<1>5. CASE HoldDone
  <2>1. stage = "hold" /\ UNCHANGED <<records, rxCount>>
    BY <1>5 DEF HoldDone, Settled, counts
  <2>2. Throw \/ (Covered /\ stage' = "disable" /\ UNCHANGED outcome)
    BY <1>5 DEF HoldDone
  <2>3. ~Capture /\ ~StartVerify
    BY <2>1 DEF Capture, StartVerify, Settled
  <2> QED BY <1>1, <2>1, <2>2, <2>3
<1>6. CASE StartVerify
  BY <1>6 DEF StartVerify, Capture, Settled
<1>7. CASE VerifyDone
  BY <1>1, <1>7 DEF VerifyDone, Settled, records, Capture, StartVerify
<1>8. CASE Report
  BY <1>8 DEF Report, Capture, StartVerify, Settled
<1>9. CASE SendThrows \/ CaptureFails \/ (\E m \in Motors : Refuse(m))
  BY <1>1, <1>9 DEF SendThrows, CaptureFails, Refuse
<1>10. CASE \/ Send \/ SlotSent \/ SlotEnds \/ Enable \/ Disable \/ NextPass \/ Kill
            \/ (\E m \in Motors : Accept(m) \/ DriveTrips(m)) \/ UNCHANGED vars
  <2>1. UNCHANGED <<stage, failed>>
    BY <1>10
    DEF Send, SlotSent, SlotEnds, Enable, Disable, NextPass, Kill, Accept, DriveTrips, vars
  <2> QED BY <1>2, <2>1
<1> QED
  BY <1>3, <1>4, <1>5, <1>6, <1>7, <1>8, <1>9, <1>10
  DEF Next, Controller, Poll, Between

\* All a step does to motor m.
LEMMA MotorStep ==
  ASSUME TypeOK, [Next]_vars, NEW m \in Motors
  PROVE  /\ RxStep(m) /\ DriveStep(m) /\ FeedbackStep(m) /\ DisableStep(m)
         /\ rx[m] \in Seq(Status) /\ drive[m] \in Status /\ drive'[m] \in Status
         /\ disables[m] \in Nat /\ rxCount[m] \in Nat
         /\ rx[m] # <<>> => Waiting(m, Head(rx[m]))
<1>1. BusTypeOK /\ RecordTypeOK
  BY TypeParts
<1>2. rx[m] \in Seq(Status)
  BY <1>1 DEF BusTypeOK
<1>3. rx[m] # <<>> => 1 \in 1..Len(rx[m]) /\ rx[m][1] = Head(rx[m])
  BY <1>2
<1>4. drive'[m] \in Status
  BY NextBusTypeOK DEF BusTypeOK
<1> QED
  BY <1>1, <1>2, <1>3, <1>4, BusStep, NextFeedback, NextDisables
  DEF Waiting, BusTypeOK, RecordTypeOK

\* While warming up only "off" is accepted, and no drive goes on.
LEMMA SeenIsOffStep ==
  ASSUME TypeOK, SeenIsOff, [Next]_vars PROVE SeenIsOff'
<1> SUFFICES ASSUME stage' = "warm", NEW m \in Motors, drive'[m] = "on"
             PROVE  ~seen'[m] /\ ~Waiting(m, "off")'
  BY DEF SeenIsOff
<1>1. stage = "warm" /\ ~Capture /\ ~StartVerify
  BY NextStage DEF StageStep
<1>2. drive[m] = "on" /\ ~seen[m] /\ ~Waiting(m, "off")
  BY <1>1, MotorStep DEF DriveStep, SeenIsOff
<1>3. ~Waiting(m, "off")'
  BY <1>2, MotorStep, WaitingStep
<1>4. ~seen'[m]
  BY <1>1, <1>2, MotorStep DEF FeedbackStep, Expected
<1> QED BY <1>3, <1>4

\* Before its first 0xFD a drive does not go off, so no "off" gets behind an "on".
LEMMA OnBeforeDisableStep ==
  ASSUME TypeOK, OnBeforeDisable, [Next]_vars PROVE OnBeforeDisable'
<1> SUFFICES ASSUME NEW m \in Motors, disables'[m] = 0
             PROVE  /\ drive'[m] = "off" => ~Waiting(m, "on")'
                    /\ OffBeforeOn(rx'[m])
  BY DEF OnBeforeDisable, OffBeforeOn
<1>1. disables[m] = 0
  BY MotorStep DEF DisableStep
<1>2. (drive[m] = "off" => ~Waiting(m, "on")) /\ OffBeforeOn(rx[m])
  BY <1>1 DEF OnBeforeDisable
<1>3. drive'[m] = "off" => drive[m] = "off"
  BY <1>1, MotorStep DEF DriveStep
<1>4. drive'[m] = "off" => ~Waiting(m, "on")'
  BY <1>2, <1>3, MotorStep, WaitingStep
<1> QED BY <1>2, <1>3, <1>4, MotorStep, OrderStep

\* The records and the counts stay new while the enable frames go out.
LEMMA StartsAnewStep ==
  ASSUME TypeOK, StartsAnew, [Next]_vars PROVE StartsAnew'
<1> SUFFICES ASSUME stage' = "enable", NEW m \in Motors
             PROVE  ~seen'[m] /\ rxCount'[m] = 0
  BY DEF StartsAnew
<1>1. CASE Capture
  BY <1>1, Places DEF Capture
<1>2. CASE stage = "enable" /\ ~Capture
  <2>1. ~seen[m] /\ rxCount[m] = 0 /\ ~Draining /\ ~StartVerify
    BY <1>2, NextStage, Places DEF StartsAnew, Draining, StageStep
  <2> QED BY <1>2, <2>1, MotorStep DEF FeedbackStep
<1> QED BY <1>1, <1>2, NextStage DEF StageStep

\* The stages before the shutdown block write no 0xFD.
LEMMA NotYetDisabledStep ==
  ASSUME TypeOK, NotYetDisabled, [Next]_vars PROVE NotYetDisabled'
<1> SUFFICES ASSUME stage' \in {"warm", "enable", "hold"}, NEW m \in Motors
             PROVE  disables'[m] = 0
  BY DEF NotYetDisabled
<1>1. stage \in {"warm", "enable", "hold"}
  BY NextStage DEF StageStep, EnableDone
<1> QED BY <1>1, MotorStep DEF DisableStep, NotYetDisabled

\* Who was heard of in the hold said "on", and nothing is left from before it.
LEMMA SeenIsOnStep ==
  ASSUME TypeOK, StartsAnew, OnBeforeDisable, SeenIsOn, [Next]_vars PROVE SeenIsOn'
<1> SUFFICES ASSUME stage' = "hold" \/ (stage' = "disable" /\ ~failed'), NEW m \in Motors
             PROVE  /\ rxCount'[m] > 0 => seen'[m]
                    /\ stage' = "disable" => rxCount'[m] > 0
                    /\ seen'[m] /\ disables'[m] = 0 => drive'[m] # "off" /\ ~Waiting(m, "off")'
  BY DEF SeenIsOn
<1>0. ~Capture /\ ~StartVerify
  BY NextStage DEF StageStep
<1>1. CASE stage' = "hold" /\ stage # "hold"
  <2>1. EnableDone
    BY <1>1, NextStage DEF StageStep
  <2>2. stage = "enable" /\ UNCHANGED <<seen, rxCount>>
    BY <2>1 DEF EnableDone, records
  <2>3. ~seen[m] /\ rxCount[m] = 0
    BY <2>2 DEF StartsAnew
  <2> QED BY <1>1, <2>2, <2>3
<1>2. CASE stage = "hold" \/ (stage = "disable" /\ ~failed)
  <2>1. /\ rxCount[m] > 0 => seen[m]
        /\ stage = "disable" => rxCount[m] > 0
        /\ seen[m] /\ disables[m] = 0 => drive[m] # "off" /\ ~Waiting(m, "off")
    BY <1>2 DEF SeenIsOn
  <2>2. rxCount'[m] > 0 => seen'[m]
    BY <1>0, <2>1, MotorStep DEF FeedbackStep
  <2>3. stage' = "disable" => rxCount'[m] > 0
    <3>1. CASE stage = "hold" /\ stage' = "disable"
      <4>1. Covered /\ UNCHANGED rxCount
        BY <1>2, <3>1, NextStage DEF StageStep
      <4>2. txCount[m] > 0 /\ 100 * rxCount[m] >= 95 * txCount[m]
        BY <4>1 DEF Covered
      <4>3. txCount[m] \in Nat /\ rxCount[m] \in Nat
        BY TypeParts DEF RecordTypeOK
      <4> QED BY <4>1, <4>2, <4>3
    <3>2. CASE stage = "disable"
      <4>1. UNCHANGED rxCount[m]
        BY <1>0, <3>2, MotorStep, Places DEF FeedbackStep, Draining
      <4> QED BY <2>1, <3>2, <4>1
    <3> QED BY <1>2, <3>1, <3>2
  <2>4. ASSUME seen'[m], disables'[m] = 0
        PROVE  drive'[m] # "off" /\ ~Waiting(m, "off")'
    <3>1. disables[m] = 0
      BY <2>4, MotorStep DEF DisableStep
    <3>2. CASE seen[m]
      <4>1. drive'[m] # "off"
        BY <2>1, <2>4, <3>1, <3>2, MotorStep DEF DriveStep
      <4> QED BY <2>1, <3>1, <3>2, <4>1, MotorStep, WaitingStep
    <3>3. CASE ~seen[m]
      <4>1. Draining /\ rx[m] # <<>> /\ rx'[m] = Tail(rx[m]) /\ Head(rx[m]) \in Expected
        BY <1>0, <2>4, <3>3, MotorStep DEF FeedbackStep
      <4>2. Head(rx[m]) = "on"
        BY <1>2, <4>1, Places DEF Draining, Expected
      <4>3. drive[m] # "off" /\ OffBeforeOn(rx[m])
        BY <3>1, <4>1, <4>2, MotorStep DEF OnBeforeDisable
      <4>4. drive'[m] # "off"
        BY <2>4, <4>3, MotorStep DEF DriveStep
      <4>5. ASSUME NEW i \in 1..Len(rx'[m]) PROVE rx'[m][i] # "off"
        <5>1. /\ 1 \in 1..Len(rx[m]) /\ i + 1 \in 1..Len(rx[m]) /\ 1 < i + 1
              /\ rx[m][1] = "on" /\ rx'[m][i] = rx[m][i + 1]
          BY <4>1, <4>2, <4>5, MotorStep
        <5> QED BY <4>3, <5>1 DEF OffBeforeOn
      <4> QED BY <4>4, <4>5 DEF Waiting
    <3> QED BY <3>2, <3>3
  <2> QED BY <2>2, <2>3, <2>4
<1> QED BY <1>1, <1>2, NextStage DEF StageStep

\* From the capture to the verification nothing is remembered as verified.
LEMMA NotYetVerifiedStep ==
  ASSUME TypeOK, NotYetVerified, [Next]_vars PROVE NotYetVerified'
<1> SUFFICES ASSUME stage' \in {"enable", "hold"} \/ (stage' = "disable" /\ ~failed'),
                    NEW m \in Motors
             PROVE  ~finalDisabled'[m]
  BY DEF NotYetVerified
<1>1. CASE Capture
  BY <1>1 DEF Capture
<1>2. CASE ~Capture
  <2>1. /\ stage \in {"enable", "hold"} \/ (stage = "disable" /\ ~failed)
        /\ ~StartVerify
    BY <1>2, NextStage DEF StageStep, EnableDone
  <2>2. ~finalDisabled[m]
    BY <2>1 DEF NotYetVerified
  <2> QED BY <1>2, <2>1, <2>2, MotorStep, Places DEF FeedbackStep, Draining
<1> QED BY <1>1, <1>2

\* After a hold that went well an enabled drive is never called disabled.
LEMMA OffIsOffStep ==
  ASSUME TypeOK, NotYetDisabled, SeenIsOn, NotYetVerified, OffIsOff, [Next]_vars
  PROVE  OffIsOff'
<1> SUFFICES ASSUME stage' \in Stopping, ~failed', NEW m \in Motors, drive'[m] = "on"
             PROVE  ~finalDisabled'[m] /\ ~Waiting(m, "off")'
  BY DEF OffIsOff
<1>0. ~failed /\ ~Capture
  BY NextStage, Places DEF StageStep
<1>1. CASE stage = "hold"
  <2>1. stage' = "disable" /\ Covered /\ UNCHANGED <<records, rxCount>>
    BY <1>1, NextStage, Places DEF StageStep, StartVerify
  <2>2. txCount[m] > 0 /\ 100 * rxCount[m] >= 95 * txCount[m]
    BY <2>1 DEF Covered
  <2>3. txCount[m] \in Nat /\ rxCount[m] \in Nat
    BY TypeParts DEF RecordTypeOK
  <2>4. seen[m] /\ disables[m] = 0
    BY <1>1, <2>2, <2>3 DEF SeenIsOn, NotYetDisabled
  <2>5. ~Waiting(m, "off") /\ ~finalDisabled[m]
    BY <1>1, <2>4 DEF SeenIsOn, NotYetVerified
  <2> QED BY <2>1, <2>5, MotorStep, WaitingStep DEF records
<1>2. CASE stage \in Stopping
  <2>1. drive[m] = "on"
    BY <1>2, MotorStep, Places DEF DriveStep
  <2>2. ~finalDisabled[m] /\ ~Waiting(m, "off")
    BY <1>0, <1>2, <2>1 DEF OffIsOff
  <2>3. ~Waiting(m, "off")'
    BY <2>2, MotorStep, WaitingStep
  <2>4. ~finalDisabled'[m]
    BY <1>0, <2>2, MotorStep DEF FeedbackStep
  <2> QED BY <2>3, <2>4
<1> QED BY <1>1, <1>2, NextStage, Places DEF StageStep, StartVerify

\* The report is only reached without a failure when every motor is verified.
LEMMA ReportVerifiedStep ==
  ASSUME TypeOK, ReportVerified, [Next]_vars PROVE ReportVerified'
<1> SUFFICES ASSUME stage' = "report", ~failed', NEW m \in Motors
             PROVE  finalDisabled'[m]
  BY DEF ReportVerified
<1>1. CASE stage # "report"
  BY <1>1, NextStage DEF StageStep
<1>2. CASE stage = "report"
  <2>1. finalDisabled[m] /\ ~Capture /\ ~StartVerify /\ ~Draining
    BY <1>2, NextStage, Places DEF StageStep, ReportVerified, Draining
  <2> QED BY <2>1, MotorStep DEF FeedbackStep
<1> QED BY <1>1, <1>2

\* Before the first frame nothing was written or heard.
LEMMA InitPoseInv == Init => PoseInv
<1> SUFFICES ASSUME Init PROVE PoseInv
  OBVIOUS
<1>1. /\ stage = "warm" /\ rx = [m \in Motors |-> <<>>]
      /\ seen = [m \in Motors |-> FALSE]
      /\ disables = [m \in Motors |-> 0]
  BY DEF Init, BusInit
<1>2. SeenIsOff /\ OnBeforeDisable
  BY <1>1 DEF SeenIsOff, OnBeforeDisable, OffBeforeOn, Waiting
<1>3. StartsAnew /\ NotYetDisabled /\ SeenIsOn /\ NotYetVerified /\ OffIsOff /\ ReportVerified
  BY <1>1, Places
  DEF StartsAnew, NotYetDisabled, SeenIsOn, NotYetVerified, OffIsOff, ReportVerified
<1> QED BY <1>2, <1>3, InitTypeOK DEF PoseInv

(***************************************************************************)
(* The inductive invariant: in every state of every hold, what was heard   *)
(* and what waits to be read fits the drives.                              *)
(***************************************************************************)
THEOREM PoseInvariant == Spec => []PoseInv
<1>1. Init => PoseInv
  BY InitPoseInv
<1>2. PoseInv /\ [Next]_vars => PoseInv'
  BY NextTypeOK, SeenIsOffStep, StartsAnewStep, NotYetDisabledStep, OnBeforeDisableStep,
     SeenIsOnStep, NotYetVerifiedStep, OffIsOffStep, ReportVerifiedStep
  DEF PoseInv
<1> QED BY <1>1, <1>2, PTL DEF Spec

(***************************************************************************)
(* What the runs check of it: an answer means what the controller takes it *)
(* for, in the warm-up, the hold and the verification.                     *)
(***************************************************************************)
THEOREM AnswersStayTrue == Spec => []AnswersAreTrue
<1>1. PoseInv => AnswersAreTrue
  BY DEF PoseInv, AnswersAreTrue, OnStaysOn, OnBeforeDisable, OffBeforeOn
<1> QED BY <1>1, PoseInvariant, PTL

(***************************************************************************)
(* 0xFC is written once, and still every drive was enabled, or had tripped,*)
(* when a hold that went well begins to disable them: the status every     *)
(* answer must have, and the coverage at the end, show it.                 *)
(***************************************************************************)
THEOREM EnabledWithoutCheck == Spec => []VerifiedEnabled
<1>1. PoseInv => VerifiedEnabled
  <2> SUFFICES ASSUME PoseInv, stage = "disable", ~failed, NEW m \in Motors, disables[m] = 0
               PROVE  drive[m] # "off"
    BY DEF VerifiedEnabled
  <2> QED BY DEF PoseInv, SeenIsOn
<1> QED BY <1>1, PoseInvariant, PTL

--------------------------------------------------------------------------------
(* The measured-pose hold implements FailClosedRun.                        *)

\* The phase of the run by the stage, before and after a step.
LEMMA PhaseOfStage ==
  /\ stage = "warm" => RunPhase = "waiting"
  /\ stage \in Powered => RunPhase = "armed"
  /\ stage \in Stopping => RunPhase = "stopping"
  /\ stage = "over" => RunPhase = "over"
  /\ stage' = "warm" => RunPhase' = "waiting"
  /\ stage' \in Powered => RunPhase' = "armed"
  /\ stage' \in Stopping => RunPhase' = "stopping"
  /\ stage' = "over" => RunPhase' = "over"
  BY DEF RunPhase, Powered, Stopping

\* With the drives, the enabled drives stay the same.
LEMMA SameDrives == UNCHANGED drive => UNCHANGED EnabledDrives
  BY DEF EnabledDrives

\* What a step within a stage does to one drive is allowed in its phase.
LEMMA OneDriveRefines ==
  ASSUME TypeOK, [Next]_vars, UNCHANGED <<stage, verdict>>, NEW k \in Motors,
         \A m \in Motors \ {k} : drive'[m] = drive[m]
  PROVE  [FailClosed!Next]_(FailClosed!failClosedVars)
<1>1. UNCHANGED RunPhase
  BY DEF RunPhase
<1>2. CASE (drive'[k] = "on") <=> (drive[k] = "on")
  <2>1. UNCHANGED EnabledDrives
    BY <1>2 DEF EnabledDrives
  <2> QED BY <1>1, <2>1 DEF FailClosed!failClosedVars
<1>3. CASE drive'[k] = "on" /\ drive[k] # "on"
  <2>1. RunPhase = "armed"
    BY <1>3, MotorStep, PhaseOfStage, Places DEF DriveStep
  <2>2. EnabledDrives' = EnabledDrives \union {k}
    BY <1>3 DEF EnabledDrives
  <2> QED BY <1>1, <2>1, <2>2 DEF FailClosed!Next, FailClosed!Enable
<1>4. CASE drive'[k] # "on" /\ drive[k] = "on"
  <2>1. EnabledDrives' = EnabledDrives \ {k}
    BY <1>4 DEF EnabledDrives
  <2> QED BY <1>1, <2>1 DEF FailClosed!Next, FailClosed!Drop
<1> QED BY <1>2, <1>3, <1>4

\* A step that stays in its stage writes to one motor, reads, or trips a drive.
LEMMA WithinStage ==
  ASSUME TypeOK, [Next]_vars, UNCHANGED <<stage, verdict>>
  PROVE  [FailClosed!Next]_(FailClosed!failClosedVars)
<1>0. BusTypeOK
  BY TypeParts
<1>1. CASE UNCHANGED drive
  <2>1. UNCHANGED RunPhase
    BY DEF RunPhase
  <2> QED BY <1>1, <2>1, SameDrives DEF FailClosed!failClosedVars
<1>2. ASSUME idx \in Motors, NEW frame, Deliver(idx, frame)
      PROVE  [FailClosed!Next]_(FailClosed!failClosedVars)
  BY <1>0, <1>2, DeliverSteps, OneDriveRefines
<1>3. ASSUME NEW k \in Motors, Trip(k)
      PROVE  [FailClosed!Next]_(FailClosed!failClosedVars)
  <2>1. \A m \in Motors \ {k} : drive'[m] = drive[m]
    BY <1>0, <1>3 DEF Trip, BusTypeOK
  <2> QED BY <2>1, OneDriveRefines
<1> QED BY <1>1, <1>2, <1>3, BusMoves DEF busVars

\* A step between two stages of one phase that leaves the drives alone.
LEMMA WithinPhase ==
  ASSUME UNCHANGED <<drive, verdict>>,
         \/ stage \in Powered /\ stage' \in Powered
         \/ stage \in Stopping /\ stage' \in Stopping
  PROVE  [FailClosed!Next]_(FailClosed!failClosedVars)
BY SameDrives, PhaseOfStage DEF FailClosed!failClosedVars

\* An exception stops the run, or stays in the shutdown.
LEMMA ThrowRefines ==
  ASSUME TypeOK, Throw, stage # "over", UNCHANGED drive
  PROVE  [FailClosed!Next]_(FailClosed!failClosedVars)
<1>1. CASE stage \in Stopping
  <2>1. stage' = "report" /\ UNCHANGED verdict
    BY <1>1 DEF Throw, Enter
  <2> QED BY <1>1, <2>1, WithinPhase, Places
<1>2. CASE stage \notin Stopping
  <2>1. stage' = "disable" /\ UNCHANGED verdict
    BY <1>2 DEF Throw, Enter
  <2>2. stage = "warm" \/ stage \in Powered
    BY <1>2, TypeParts, Places DEF LoopTypeOK
  <2>3. RunPhase \in {"waiting", "armed"} /\ RunPhase' = "stopping"
    BY <2>1, <2>2, PhaseOfStage, Places
  <2> QED BY <2>1, <2>3, SameDrives DEF FailClosed!Next, FailClosed!Stop
<1> QED BY <1>1, <1>2

\* The run arms when every motor was heard of: each said "disabled".
LEMMA CaptureRefines ==
  ASSUME PoseInv, Capture
  PROVE  [FailClosed!Next]_(FailClosed!failClosedVars)
<1>1. /\ stage = "warm" /\ stage' = "enable" /\ UNCHANGED <<drive, verdict>>
      /\ \A m \in Motors : seen[m]
  BY DEF Capture, Settled, Enter, busVars, outcome
<1>2. EnabledDrives = {}
  BY <1>1 DEF PoseInv, SeenIsOff, EnabledDrives
<1>3. RunPhase = "waiting" /\ RunPhase' = "armed"
  BY <1>1, PhaseOfStage, Places
<1> QED BY <1>1, <1>2, <1>3, SameDrives DEF FailClosed!Next, FailClosed!Arm

\* "passed" means that nothing failed, and then every motor is verified.
LEMMA ReportRefines ==
  ASSUME PoseInv, Report
  PROVE  [FailClosed!Next]_(FailClosed!failClosedVars)
<1>1. /\ stage = "report" /\ stage' = "over" /\ UNCHANGED drive
      /\ verdict' \in {"passed", "not_passed"}
      /\ verdict' = "passed" => ~failed
  BY DEF Report, busVars
<1>2. RunPhase = "stopping" /\ RunPhase' = "over"
  BY <1>1, PhaseOfStage, Places
<1>3. ~failed => EnabledDrives = {}
  BY <1>1, Places DEF PoseInv, ReportVerified, OffIsOff, EnabledDrives
<1> QED BY <1>1, <1>2, <1>3, SameDrives DEF FailClosed!Next, FailClosed!Report

\* Every step of the hold is a step of FailClosedRun or a stutter.
LEMMA NextRefines ==
  ASSUME PoseInv, [Next]_vars
  PROVE  [FailClosed!Next]_(FailClosed!failClosedVars)
<1> USE DEF loop, outcome
<1>t. TypeOK
  BY DEF PoseInv
<1>1. CASE Capture
  BY <1>1, CaptureRefines
<1>2. CASE Report
  BY <1>2, ReportRefines
<1>3. CASE SendThrows \/ CaptureFails \/ \E m \in Motors : Refuse(m)
  <2>1. Throw /\ stage # "over" /\ UNCHANGED drive
    BY <1>3, Places DEF SendThrows, CaptureFails, Refuse, Draining, Settled, busVars
  <2> QED BY <1>t, <2>1, ThrowRefines
<1>4. CASE EnableDone \/ StartVerify
  BY <1>4, WithinPhase, Places DEF EnableDone, StartVerify, Enter, busVars
<1>5. CASE HoldDone
  <2>1. stage = "hold" /\ UNCHANGED drive
    BY <1>5 DEF HoldDone, Settled, busVars
  <2>2. CASE Throw
    BY <1>t, <2>1, <2>2, ThrowRefines
  <2>3. CASE stage' = "disable" /\ UNCHANGED verdict
    <3>1. RunPhase = "armed" /\ RunPhase' = "stopping"
      BY <2>1, <2>3, PhaseOfStage, Places
    <3> QED BY <2>1, <2>3, <3>1, SameDrives DEF FailClosed!Next, FailClosed!Stop
  <2> QED BY <1>5, <2>2, <2>3 DEF HoldDone, Enter
<1>6. CASE VerifyDone
  <2>1. stage = "verify" /\ UNCHANGED drive
    BY <1>6 DEF VerifyDone, Settled, busVars
  <2>2. CASE Throw
    BY <1>t, <2>1, <2>2, ThrowRefines
  <2>3. CASE stage' = "report" /\ UNCHANGED verdict
    BY <2>1, <2>3, WithinPhase, Places
  <2> QED BY <1>6, <2>2, <2>3 DEF VerifyDone, Enter
<1>7. CASE \/ Send \/ SlotSent \/ SlotEnds \/ Enable \/ Disable \/ NextPass \/ Kill
           \/ (\E m \in Motors : Accept(m) \/ DriveTrips(m)) \/ UNCHANGED vars
  <2>1. UNCHANGED <<stage, verdict>>
    BY <1>7
    DEF Send, SlotSent, SlotEnds, Enable, Disable, NextPass, Kill, Accept, DriveTrips, vars
  <2> QED BY <1>t, <2>1, WithinStage
<1> QED
  BY <1>1, <1>2, <1>3, <1>4, <1>5, <1>6, <1>7 DEF Next, Controller, Poll, Between

(***************************************************************************)
(* The measured-pose hold of sprite_can_shadow.cpp is fail-closed whatever *)
(* the bus loses, the drives do and the kernel refuses, also when a signal *)
(* ends it: it arms only disabled drives, enables none once it stops, and  *)
(* passes only when no drive is enabled.                                   *)
(***************************************************************************)
THEOREM FailClosedRefined == Spec => ImplementsFailClosedRun
<1>1. Init => FailClosed!Init
  BY PhaseOfStage DEF Init, FailClosed!Init, EnabledDrives
<1>2. PoseInv /\ [Next]_vars => [FailClosed!Next]_(FailClosed!failClosedVars)
  BY NextRefines
<1> QED
  BY <1>1, <1>2, PoseInvariant, PTL
  DEF Spec, ImplementsFailClosedRun, FailClosed!Spec

==============================================================================
