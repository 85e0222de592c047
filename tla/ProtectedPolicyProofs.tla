------------------------- MODULE ProtectedPolicyProofs ------------------------
(***************************************************************************)
(* Theorems about ProtectedPolicy, for every number of motors, schedule,   *)
(* loop length and loss bound that satisfies the assumptions.              *)
(***************************************************************************)
EXTENDS ProtectedPolicy, CanDrivesProofs

--------------------------------------------------------------------------------
(* Type correctness.                                                       *)

\* The assumptions on the constants, as the provers need them.
LEMMA ConstantTypes ==
  /\ N \in Nat /\ N >= 1
  /\ DisableAttempts \in Nat /\ DisableAttempts >= 1
  /\ {PreviewPeriod, StatePeriod, OtherPreviews, StartDelay,
      TargetTimeout, FutureSlack, MaxLag, EnableSlots, ActiveSlots} \subseteq Nat
<1>1. DisableAttempts \in Nat \ {0}
  BY ScheduleAssumption
<1>2. PreviewPeriod \in Nat /\ StatePeriod \in Nat /\ OtherPreviews \in Nat
      /\ StartDelay \in Nat /\ ActiveSlots \in Nat
  BY ScheduleAssumption
<1>3. TargetTimeout \in Nat /\ FutureSlack \in Nat /\ MaxLag \in Nat
      /\ EnableSlots \in Nat
  BY ScheduleAssumption
<1> QED BY <1>1, <1>2, <1>3, NAssumption

\* Before the first frame everything has its type.
LEMMA InitTypeOK == Init => TypeOK
<1> SUFFICES ASSUME Init PROVE TypeOK
  OBVIOUS
<1>1. BusTypeOK
  BY LossAssumption DEF Init, BusInit, BusTypeOK
<1>2. ControlTypeOK
  <2>1. pc = "prep" /\ slot = 0 /\ idx = 1 /\ attempt = 1 /\ verdict = "none"
    BY DEF Init
  <2>2. failed \in BOOLEAN
    BY DEF Init
  <2> QED BY <2>1, <2>2, ConstantTypes DEF ControlTypeOK, Preparing
<1>3. MemoryTypeOK
  <2>1. /\ Each(FALSE) \in [Motors -> BOOLEAN]
        /\ Each(0) \in [Motors -> Nat] /\ Each(0) \in [Motors -> Int]
        /\ Each("none") \in [Motors -> Status \union {"none"}]
    BY DEF Each
  <2>2. /\ seen = Each(FALSE) /\ lastStatus = Each("none")
        /\ finalDisabled = Each(FALSE) /\ txCount = Each(0)
        /\ rxCount = Each(0) /\ previewReady = Each(FALSE)
        /\ previewAge = Each(0) /\ disables = Each(0)
    BY DEF Init
  <2>3. previewCount = 0 /\ targetAge = 0 /\ stateSequence = 0 /\ lag = 0
    BY DEF Init
  <2>4. hasTarget \in BOOLEAN /\ missed \in BOOLEAN /\ signal \in BOOLEAN
    BY DEF Init
  <2>5. lag \in 0..MaxLag
    BY <2>3, ConstantTypes
  <2>6. previewCount \in Nat /\ targetAge \in Int /\ stateSequence \in Nat
    BY <2>3
  <2>7. /\ seen \in [Motors -> BOOLEAN]
        /\ lastStatus \in [Motors -> Status \union {"none"}]
        /\ finalDisabled \in [Motors -> BOOLEAN]
        /\ txCount \in [Motors -> Nat] /\ rxCount \in [Motors -> Nat]
        /\ previewReady \in [Motors -> BOOLEAN]
        /\ previewAge \in [Motors -> Int] /\ disables \in [Motors -> Nat]
    BY <2>1, <2>2, Zenon
  <2> QED BY <2>4, <2>5, <2>6, <2>7, Zenon DEF MemoryTypeOK
<1> QED BY <1>1, <1>2, <1>3 DEF TypeOK

\* An exception leads to a place of the program.
LEMMA ThrowTypeOK == ASSUME ControlTypeOK, Throw PROVE ControlTypeOK'
  BY ConstantTypes DEF ControlTypeOK, Throw, Stopping

\* A step that goes nowhere keeps the place typed.
LEMMA SkipTypeOK ==
  ASSUME ControlTypeOK, UNCHANGED <<control, outcome>> PROVE ControlTypeOK'
  BY DEF ControlTypeOK, control, outcome

\* So does one that names the place it goes to.
LEMMA GotoTypeOK ==
  ASSUME ControlTypeOK, UNCHANGED outcome, NEW s \in Nat,
         NEW where \in Preparing \union Powered \union Stopping \union {"over"},
         Goto(where, s)
  PROVE  ControlTypeOK'
  BY ConstantTypes DEF ControlTypeOK, Goto, outcome

\* What is not written keeps its type.
LEMMA MemorySame ==
  ASSUME MemoryTypeOK,
         UNCHANGED <<signal, feedback, counts, preview, target, stateSequence,
                     clock, disables>>
  PROVE  MemoryTypeOK'
  BY DEF MemoryTypeOK, feedback, counts, preview, target, clock

\* Reading one answer keeps every type.
LEMMA DrainTypeOK == ASSUME TypeOK, Drain PROVE TypeOK'
<1> USE DEF TypeOK
<1> PICK m \in Motors : AcceptAnswer(m) \/ RefuseAnswer(m)
                        \/ GarbledAnswer(m) \/ GuardTripped(m)
  BY DEF Drain
<1>t. TakeAnswer(m)
  BY DEF AcceptAnswer, RefuseAnswer, GarbledAnswer, GuardTripped
<1>s. rx' \in [Motors -> Seq(Status)] /\ Head(rx[m]) \in Status
  BY <1>t, TakeFacts DEF BusTypeOK
<1>b. BusTypeOK'
  BY <1>s, LossAssumption
  DEF BusTypeOK, AcceptAnswer, RefuseAnswer, GarbledAnswer, GuardTripped
<1>c. ControlTypeOK'
  BY ThrowTypeOK, SkipTypeOK
  DEF AcceptAnswer, RefuseAnswer, GarbledAnswer, GuardTripped
<1>1. CASE AcceptAnswer(m)
  <2>1. MemoryTypeOK'
    BY <1>1, <1>s DEF AcceptAnswer, MemoryTypeOK, preview, target, clock
  <2> QED BY <1>b, <1>c, <2>1
<1>2. CASE GuardTripped(m)
  <2>1. MemoryTypeOK'
    BY <1>2, <1>s DEF GuardTripped, MemoryTypeOK, counts, preview, target, clock
  <2> QED BY <1>b, <1>c, <2>1
<1>3. CASE RefuseAnswer(m) \/ GarbledAnswer(m)
  BY <1>3, <1>b, <1>c, MemorySame DEF RefuseAnswer, GarbledAnswer
<1> QED BY <1>1, <1>2, <1>3

\* Writing one frame keeps every type.
LEMMA WriteTypeOK == ASSUME TypeOK, Write PROVE TypeOK'
<1> USE DEF TypeOK
<1>0. idx <= N => idx \in Motors
  BY ConstantTypes DEF ControlTypeOK, Motors
<1>1. ASSUME idx <= N, idx' = idx + 1,
             UNCHANGED <<pc, slot, attempt, outcome>>
      PROVE  ControlTypeOK'
  BY <1>1, ConstantTypes DEF ControlTypeOK, outcome
<1>2. CASE SendPoll
  <2>1. BusTypeOK'
    BY <1>0, <1>2, DeliverFacts, BusSame DEF SendPoll
  <2>2. ControlTypeOK'
    BY <1>1, <1>2 DEF SendPoll
  <2>3. MemoryTypeOK'
    BY <1>2, MemorySame DEF SendPoll
  <2> QED BY <2>1, <2>2, <2>3
<1>3. CASE SendEnable
  <2>1. BusTypeOK'
    BY <1>0, <1>3, DeliverFacts DEF SendEnable
  <2>2. ControlTypeOK'
    BY <1>1, <1>3 DEF SendEnable
  <2>3. MemoryTypeOK'
    BY <1>3, MemorySame DEF SendEnable
  <2> QED BY <2>1, <2>2, <2>3
<1>4. CASE SendCommand
  <2>1. BusTypeOK'
    BY <1>0, <1>4, DeliverFacts, BusSame DEF SendCommand, busVars
  <2>2. ControlTypeOK'
    BY <1>1, <1>4 DEF SendCommand
  <2>3. txCount' \in [Motors -> Nat]
    BY <1>0, <1>4 DEF SendCommand, MemoryTypeOK
  <2>4. MemoryTypeOK'
    BY <1>4, <2>3
    DEF SendCommand, MemoryTypeOK, feedback, preview, target, clock
  <2> QED BY <2>1, <2>2, <2>4
<1>5. CASE SendDisable
  <2>1. BusTypeOK'
    BY <1>0, <1>5, DeliverFacts DEF SendDisable
  <2>2. ControlTypeOK'
    BY <1>1, <1>5 DEF SendDisable
  <2>3. disables' \in [Motors -> Nat]
    BY <1>0, <1>5 DEF SendDisable, MemoryTypeOK
  <2>4. MemoryTypeOK'
    BY <1>5, <2>3
    DEF SendDisable, MemoryTypeOK, feedback, counts, preview, target, clock
  <2> QED BY <2>1, <2>2, <2>4
<1>6. CASE SendFails
  BY <1>6, ThrowTypeOK, MemorySame, BusSame DEF SendFails
<1> QED BY <1>2, <1>3, <1>4, <1>5, <1>6 DEF Write

\* The target received in a slot: its age is an integer.
LEMMA DrainTargetsType ==
  ASSUME MemoryTypeOK, NEW dt \in Int, DrainTargets(dt)
  PROVE  hasTarget' \in BOOLEAN /\ targetAge' \in Int
<1>1. hasTarget \in BOOLEAN /\ targetAge \in Int /\ targetAge + dt \in Int
  BY DEF MemoryTypeOK
<1>2. \/ targetAge' = targetAge + dt \/ targetAge' = targetAge
      \/ targetAge' \in (-FutureSlack)..TargetTimeout
  BY DEF DrainTargets
<1>3. targetAge' \in Int
  BY <1>1, <1>2, ConstantTypes
<1>4. hasTarget' = hasTarget \/ hasTarget' = TRUE
  BY Zenon DEF DrainTargets
<1>5. hasTarget' \in BOOLEAN
  BY <1>1, <1>4, Zenon
<1> QED BY <1>3, <1>5

\* The rest of a preparation slot keeps every type.
LEMMA PreparationTypeOK ==
  ASSUME TypeOK, Preparation \/ StartDrain PROVE TypeOK'
<1> USE DEF TypeOK
<1>0. slot \in Nat /\ slot + 1 \in Nat /\ 1 \in Int
  BY DEF ControlTypeOK
<1>1. CASE PrepSlot
  <2>1. ControlTypeOK'
    BY <1>0, <1>1, ThrowTypeOK, GotoTypeOK DEF PrepSlot, Preparing
  <2> QED BY <1>1, <2>1, MemorySame, BusSame DEF PrepSlot
<1>2. CASE PrepFails
  <2>1. ControlTypeOK' /\ BusTypeOK'
    BY <1>2, ThrowTypeOK, BusSame DEF PrepFails
  <2>2. stateSequence' \in Nat
    BY <1>2 DEF PrepFails, MemoryTypeOK
  <2>3. UNCHANGED <<signal, feedback, counts, preview, target, clock, disables>>
    BY <1>2 DEF PrepFails
  <2>4. MemoryTypeOK'
    BY <2>2, <2>3
    DEF MemoryTypeOK, feedback, counts, preview, target, clock
  <2> QED BY <2>1, <2>4
<1>3. CASE PrepContinue
  <2>1. ControlTypeOK'
    BY <1>0, <1>3, GotoTypeOK DEF PrepContinue, Preparing
  <2>2. hasTarget' \in BOOLEAN /\ targetAge' \in Int
    BY <1>0, <1>3, DrainTargetsType DEF PrepContinue
  <2>3. stateSequence' \in Nat
    BY <1>3 DEF PrepContinue, MemoryTypeOK
  <2>4. MemoryTypeOK'
    BY <1>3, <2>2, <2>3
    DEF PrepContinue, MemoryTypeOK, feedback, counts, preview, clock
  <2> QED BY <1>3, <2>1, <2>4, BusSame DEF PrepContinue
<1>4. CASE Prepared
  <2>1. ControlTypeOK'
    BY <1>0, <1>4, ThrowTypeOK, GotoTypeOK DEF Prepared, Powered
  <2>2. hasTarget' \in BOOLEAN /\ targetAge' \in Int
    BY <1>0, <1>4, DrainTargetsType DEF Prepared
  <2>3. stateSequence' \in Nat
    BY <1>4 DEF Prepared, MemoryTypeOK
  <2>4. /\ Each(FALSE) \in [Motors -> BOOLEAN]
        /\ Each(0) \in [Motors -> Nat]
        /\ Each("off") \in [Motors -> Status \union {"none"}]
    BY DEF Each, Status
  <2>s. /\ lag' \in 0..MaxLag /\ missed' \in BOOLEAN /\ signal' \in BOOLEAN
        /\ disables' \in [Motors -> Nat]
    <3>1. /\ lag' = lag /\ missed' = missed /\ signal' = signal
          /\ disables' = disables
      BY <1>4 DEF Prepared, clock
    <3> QED BY <3>1, Zenon DEF MemoryTypeOK
  <2>5. ASSUME UNCHANGED <<feedback, counts, preview>> PROVE MemoryTypeOK'
    BY <2>2, <2>3, <2>s, <2>5, Zenon
    DEF MemoryTypeOK, feedback, counts, preview
  <2>6. ASSUME seen' = Each(FALSE), lastStatus' = Each("off"),
               finalDisabled' = Each(FALSE), previewReady' = Each(FALSE),
               previewCount' = 0, txCount' = Each(0), rxCount' = Each(0),
               UNCHANGED previewAge
        PROVE  MemoryTypeOK'
    <3>1. previewCount' \in Nat /\ previewAge' \in [Motors -> Int]
      BY <2>6 DEF MemoryTypeOK
    <3>2. /\ seen' \in [Motors -> BOOLEAN]
          /\ finalDisabled' \in [Motors -> BOOLEAN]
          /\ previewReady' \in [Motors -> BOOLEAN]
          /\ lastStatus' \in [Motors -> Status \union {"none"}]
          /\ txCount' \in [Motors -> Nat] /\ rxCount' \in [Motors -> Nat]
      BY <2>4, <2>6
    <3> QED BY <2>2, <2>3, <2>s, <3>1, <3>2, Zenon DEF MemoryTypeOK
  <2>7. MemoryTypeOK'
    BY <1>4, <2>5, <2>6 DEF Prepared
  <2> QED BY <1>4, <2>1, <2>7, BusSame DEF Prepared
<1>5. CASE StartDrain
  <2>1. ControlTypeOK'
    BY <1>5, ConstantTypes
    DEF StartDrain, ControlTypeOK, outcome, Preparing, Powered, Stopping
  <2> QED BY <1>5, <2>1, MemorySame, BusSame DEF StartDrain
<1> QED BY <1>1, <1>2, <1>3, <1>4, <1>5 DEF Preparation

\* The rest of an active slot, and the settling, keep every type.
LEMMA ActiveTypeOK == ASSUME TypeOK, Active PROVE TypeOK'
<1> USE DEF TypeOK
<1>0. slot \in Nat /\ slot + 1 \in Nat /\ 0 \in Nat
  BY DEF ControlTypeOK
<1>m. /\ MemoryTypeOK /\ lag \in Int /\ targetAge \in Int
      /\ stateSequence \in Nat
  BY ConstantTypes DEF MemoryTypeOK
<1>1. CASE EnableDone
  <2>1. ControlTypeOK'
    BY <1>0, <1>1, GotoTypeOK DEF EnableDone, Powered
  <2>2. targetAge' \in Int
    BY <1>1, <1>m, ConstantTypes DEF EnableDone
  <2>3. MemoryTypeOK'
    BY <1>1, <2>2
    DEF EnableDone, MemoryTypeOK, feedback, counts, preview, clock
  <2> QED BY <1>1, <2>1, <2>3, BusSame DEF EnableDone
<1>2. CASE ActiveSlot
  <2> PICK late \in 0..MaxLag :
        /\ WakeUp(late)
        /\ DrainTargets(1 + late - lag)
        /\ IF WatchdogExpired
           THEN Throw /\ UNCHANGED preview
           ELSE /\ Goto("active_send", slot) /\ UNCHANGED outcome
                /\ Preview(1 + late - lag)
    BY <1>2 DEF ActiveSlot
  <2>0. late \in Int /\ 1 + late - lag \in Int
    BY <1>m, ConstantTypes
  <2>1. ControlTypeOK'
    BY <1>0, <1>2, ThrowTypeOK, GotoTypeOK DEF ActiveSlot, Powered
  <2>2. hasTarget' \in BOOLEAN /\ targetAge' \in Int
    BY <1>m, <2>0, DrainTargetsType
  <2>3. lag' \in 0..MaxLag /\ missed' \in BOOLEAN
    <3>1. lag' = late
      BY DEF WakeUp
    <3>2. missed' \in BOOLEAN
      BY Zenon DEF WakeUp
    <3> QED BY <3>1, <3>2
  <2>4. /\ previewReady' \in [Motors -> BOOLEAN]
        /\ previewAge' \in [Motors -> Int]
        /\ previewCount' \in Nat
    <3>1. CASE UNCHANGED preview
      BY <1>m, <3>1 DEF preview, MemoryTypeOK
    <3>2. CASE Preview(1 + late - lag)
      BY <1>m, <2>0, <2>2, <3>2 DEF Preview, MemoryTypeOK
    <3> QED BY <3>1, <3>2
  <2>5. UNCHANGED <<signal, feedback, counts, stateSequence, disables, busVars>>
    BY <1>2 DEF ActiveSlot
  <2>6. MemoryTypeOK'
    BY <1>m, <2>2, <2>3, <2>4, <2>5 DEF MemoryTypeOK, feedback, counts
  <2> QED BY <2>1, <2>5, <2>6, BusSame
<1>3. CASE ActiveSlotFails
  BY <1>3, ThrowTypeOK, MemorySame, BusSame DEF ActiveSlotFails
<1>4. CASE ActiveEnd
  <2>1. ControlTypeOK'
    BY <1>0, <1>4, ThrowTypeOK, GotoTypeOK DEF ActiveEnd, Powered
  <2> QED BY <1>4, <2>1, MemorySame, BusSame DEF ActiveEnd
<1>5. CASE ActiveContinue
  <2>1. ControlTypeOK'
    BY <1>0, <1>5, ThrowTypeOK, GotoTypeOK DEF ActiveContinue, Powered
  <2>2. stateSequence' \in Nat
    BY <1>5, <1>m DEF ActiveContinue
  <2>3. MemoryTypeOK'
    BY <1>5, <2>2
    DEF ActiveContinue, MemoryTypeOK, feedback, counts, preview, target, clock
  <2> QED BY <1>5, <2>1, <2>3, BusSame DEF ActiveContinue
<1>6. CASE Settle
  <2>1. ControlTypeOK'
    BY <1>0, <1>6, ThrowTypeOK, GotoTypeOK DEF Settle, Stopping
  <2> QED BY <1>6, <2>1, MemorySame, BusSame DEF Settle
<1>7. CASE PublishFails
  <2>1. ControlTypeOK' /\ BusTypeOK'
    BY <1>7, ThrowTypeOK, BusSame DEF PublishFails
  <2>2. stateSequence' \in Nat
    BY <1>7 DEF PublishFails, MemoryTypeOK
  <2>3. UNCHANGED <<signal, feedback, counts, preview, target, clock, disables>>
    BY <1>7 DEF PublishFails
  <2>4. MemoryTypeOK'
    BY <2>2, <2>3
    DEF MemoryTypeOK, feedback, counts, preview, target, clock
  <2> QED BY <2>1, <2>4
<1> QED BY <1>1, <1>2, <1>3, <1>4, <1>5, <1>6, <1>7 DEF Active

\* The shutdown block between its frames keeps every type.
LEMMA ShutdownTypeOK == ASSUME TypeOK, Shutdown PROVE TypeOK'
<1> USE DEF TypeOK
<1>0. slot \in Nat /\ slot + 1 \in Nat /\ 0 \in Nat
  BY DEF ControlTypeOK
<1>1. CASE NextPass
  <2>1. ControlTypeOK'
    BY <1>1, ConstantTypes DEF NextPass, LastPass, ControlTypeOK, outcome
  <2> QED BY <1>1, <2>1, MemorySame, BusSame DEF NextPass
<1>2. CASE StartVerify
  <2>1. ControlTypeOK'
    BY <1>0, <1>2, GotoTypeOK DEF StartVerify, Stopping
  <2>2. Each(FALSE) \in [Motors -> BOOLEAN]
    BY DEF Each
  <2>3. MemoryTypeOK'
    BY <1>2, <2>2 DEF StartVerify, MemoryTypeOK, counts, preview, target, clock
  <2> QED BY <1>2, <2>1, <2>3, BusSame DEF StartVerify
<1>3. CASE VerifyContinue
  <2>1. ControlTypeOK'
    BY <1>0, <1>3, GotoTypeOK DEF VerifyContinue, Stopping
  <2> QED BY <1>3, <2>1, MemorySame, BusSame DEF VerifyContinue
<1>4. CASE VerifyDone
  <2>1. ControlTypeOK'
    BY <1>0, <1>4, ThrowTypeOK, GotoTypeOK DEF VerifyDone, Stopping
  <2> QED BY <1>4, <2>1, MemorySame, BusSame DEF VerifyDone
<1>5. CASE Report
  <2>1. ControlTypeOK'
    BY <1>0, <1>5, ConstantTypes DEF Report, Goto, ControlTypeOK
  <2> QED BY <1>5, <2>1, MemorySame, BusSame DEF Report
<1> QED BY <1>1, <1>2, <1>3, <1>4, <1>5 DEF Shutdown

\* A signal and a fault of a drive keep every type.
LEMMA EnvironmentTypeOK == ASSUME TypeOK, Environment PROVE TypeOK'
<1> USE DEF TypeOK
<1>1. CASE Signal
  <2>1. MemoryTypeOK'
    BY <1>1
    DEF Signal, MemoryTypeOK, feedback, counts, preview, target, clock
  <2> QED BY <1>1, <2>1, SkipTypeOK, BusSame DEF Signal
<1>2. ASSUME NEW m \in Motors, DriveTrips(m) PROVE TypeOK'
  <2>1. BusTypeOK'
    BY <1>2, LossAssumption DEF DriveTrips, Trip, BusTypeOK, Status
  <2> QED BY <1>2, <2>1, SkipTypeOK, MemorySame DEF DriveTrips
<1> QED BY <1>1, <1>2 DEF Environment

\* Every step keeps every type.
LEMMA NextTypeOK == ASSUME TypeOK, [Next]_vars PROVE TypeOK'
<1>1. CASE UNCHANGED vars
  BY <1>1, SkipTypeOK, MemorySame, BusSame DEF vars, TypeOK
<1>2. CASE Next
  BY <1>2, DrainTypeOK, WriteTypeOK, PreparationTypeOK, ActiveTypeOK,
     ShutdownTypeOK, EnvironmentTypeOK
  DEF Next, Controller
<1> QED BY <1>1, <1>2

(***************************************************************************)
(* Every variable keeps its type through every step of the controller,     *)
(* the buses, the drives and the signals.                                  *)
(***************************************************************************)
THEOREM TypeCorrect == Spec => []TypeOK
<1>1. Init => TypeOK
  BY InitTypeOK
<1>2. TypeOK /\ [Next]_vars => TypeOK'
  BY NextTypeOK
<1> QED BY <1>1, <1>2, PTL DEF Spec

--------------------------------------------------------------------------------
(* What any step does to the drives and to the answers still unread.       *)

\* Only the enable loop turns a drive on, only the disable loop turns it off.
DriveStep(m) ==
  \/ drive'[m] = drive[m]
  \/ drive'[m] = "trip"
  \/ pc = "enable" /\ drive[m] = "off" /\ drive'[m] = "on"
  \/ pc = "disable" /\ drive[m] = "on" /\ drive'[m] = "off"

\* A frame that the controller writes in one of its loops.
LEMMA DeliverStep ==
  ASSUME TypeOK, NEW k \in Motors, NEW frame, Deliver(k, frame),
         \/ frame \in {"poll", "command"}
         \/ frame = pc
  PROVE  lost' >= lost /\ \A m \in Motors : RxStep(m) /\ DriveStep(m)
<1>1. BusTypeOK /\ lost' >= lost
  BY DeliverFacts DEF TypeOK
<1>2. CASE /\ drive' = [drive EXCEPT ![k] = Obey(drive[k], frame)]
           /\ rx' \in {rx, [rx EXCEPT ![k] =
                              Append(rx[k], Obey(drive[k], frame))]}
  <2> SUFFICES ASSUME NEW m \in Motors PROVE RxStep(m) /\ DriveStep(m)
    BY <1>1
  <2>1. CASE m # k
    BY <1>1, <1>2, <2>1 DEF RxStep, DriveStep, BusTypeOK
  <2>2. CASE m = k
    <3>1. drive'[m] = Obey(drive[m], frame)
      BY <1>1, <1>2, <2>2 DEF BusTypeOK
    <3>2. DriveStep(m)
      BY <3>1 DEF Obey, DriveStep
    <3>3. RxStep(m)
      BY <1>1, <1>2, <2>2, <3>1 DEF BusTypeOK, RxStep
    <3> QED BY <3>2, <3>3
  <2> QED BY <2>1, <2>2
<1>3. CASE drive' = drive /\ rx' = rx
  BY <1>1, <1>3 DEF RxStep, DriveStep
<1> QED BY <1>1, <1>2, <1>3, DeliverFacts DEF TypeOK

\* A step that leaves the buses alone.
LEMMA QuietStep ==
  ASSUME TypeOK, UNCHANGED busVars
  PROVE  lost' >= lost /\ \A m \in Motors : RxStep(m) /\ DriveStep(m)
  BY DEF busVars, RxStep, DriveStep, TypeOK, BusTypeOK

\* A step that reads one answer.
LEMMA TakeStep ==
  ASSUME TypeOK, NEW k \in Motors, TakeAnswer(k), UNCHANGED drive, lost' >= lost
  PROVE  lost' >= lost /\ \A m \in Motors : RxStep(m) /\ DriveStep(m)
  BY DEF TakeAnswer, RxStep, DriveStep, TypeOK, BusTypeOK

\* What any step does to a motor's answers and to its drive.
LEMMA BusStep ==
  ASSUME TypeOK, [Next]_vars
  PROVE  lost' >= lost /\ \A m \in Motors : RxStep(m) /\ DriveStep(m)
<1>i. idx <= N => idx \in Motors
  BY ConstantTypes DEF TypeOK, ControlTypeOK, Motors
<1>l. lost \in Int
  BY DEF TypeOK, BusTypeOK
<1>1. CASE Drain
  <2> PICK m \in Motors : AcceptAnswer(m) \/ RefuseAnswer(m)
                          \/ GarbledAnswer(m) \/ GuardTripped(m)
    BY <1>1 DEF Drain
  <2>1. TakeAnswer(m) /\ UNCHANGED drive /\ lost' >= lost
    BY <1>l DEF AcceptAnswer, RefuseAnswer, GarbledAnswer, GuardTripped
  <2> QED BY <2>1, TakeStep
<1>2. CASE SendPoll
  BY <1>2, <1>i, DeliverStep, QuietStep DEF SendPoll
<1>3. CASE SendCommand
  BY <1>3, <1>i, DeliverStep, QuietStep DEF SendCommand
<1>4. CASE SendEnable
  BY <1>4, <1>i, DeliverStep DEF SendEnable
<1>5. CASE SendDisable
  BY <1>5, <1>i, DeliverStep DEF SendDisable
<1>6. ASSUME NEW m \in Motors, DriveTrips(m)
      PROVE  lost' >= lost /\ \A k \in Motors : RxStep(k) /\ DriveStep(k)
  BY <1>6, <1>l DEF DriveTrips, Trip, RxStep, DriveStep, TypeOK, BusTypeOK
<1>7. CASE SendFails \/ StartDrain \/ Preparation
  BY <1>7, QuietStep
  DEF SendFails, StartDrain, Preparation, PrepSlot, PrepFails, PrepContinue,
      Prepared
<1>8. CASE Active
  BY <1>8, QuietStep
  DEF Active, EnableDone, ActiveSlot, ActiveSlotFails, ActiveEnd,
      ActiveContinue, PublishFails, Settle
<1>9. CASE Shutdown
  BY <1>9, QuietStep
  DEF Shutdown, NextPass, StartVerify, VerifyContinue, VerifyDone, Report
<1>10. CASE Signal \/ UNCHANGED vars
  BY <1>10, QuietStep DEF Signal, vars
<1> QED
  BY <1>1, <1>2, <1>3, <1>4, <1>5, <1>6, <1>7, <1>8, <1>9, <1>10
  DEF Next, Controller, Environment, Write

--------------------------------------------------------------------------------
(* What any step does to the phase and to the feedback.                    *)

\* The phases follow one another; a failure is never forgotten; from the
\* disable loop a run without failure goes on with a clean finalDisabled.
PhaseStep ==
  /\ pc' \in Preparing => pc \in Preparing
  /\ pc' \in Powered => pc \in Preparing \union Powered
  /\ failed => failed'
  /\ pc' \in Stopping /\ ~failed' => pc \in Stopping \union {"settle"}
  /\ pc = "settle" => pc' \in {"settle", "disable"}
  /\ pc = "over" => pc' = "over"
  /\ pc' = "report" /\ ~failed' =>
       pc = "report" \/ \A m \in Motors : finalDisabled'[m]
  /\ pc = "disable" /\ pc' # "disable" /\ ~failed' =>
       \A m \in Motors : ~finalDisabled'[m]

\* A step that stays where it is.
LEMMA SamePhase == UNCHANGED <<pc, failed>> => PhaseStep
  BY DEF PhaseStep

\* An exception leads to the shutdown block, or from it to the report.
LEMMA ThrowPhase == Throw /\ pc # "over" => PhaseStep
  BY DEF PhaseStep, Throw, Preparing, Powered, Stopping

\* Where any step can lead, and what it must find to get to the report.
LEMMA NextPhase == ASSUME [Next]_vars PROVE PhaseStep
<1> USE DEF control, outcome
<1>1. CASE Drain
  BY <1>1, SamePhase, ThrowPhase
  DEF Drain, Draining, AcceptAnswer, RefuseAnswer, GarbledAnswer, GuardTripped
<1>2. CASE SendPoll \/ SendEnable \/ SendCommand \/ SendDisable
  BY <1>2, SamePhase DEF SendPoll, SendEnable, SendCommand, SendDisable
<1>3. CASE SendFails \/ PrepFails \/ ActiveSlotFails \/ PublishFails
  BY <1>3, ThrowPhase DEF SendFails, PrepFails, ActiveSlotFails, PublishFails
<1>4. CASE StartDrain
  BY <1>4 DEF StartDrain, PhaseStep, Preparing, Powered, Stopping
<1>5. CASE PrepSlot \/ PrepContinue
  BY <1>5, ThrowPhase
  DEF PrepSlot, PrepContinue, Goto, PhaseStep, Preparing, Powered, Stopping
<1>10. CASE Prepared
  <2>1. pc = "prep_drain" /\ (Throw \/ Goto("enable", 0))
    BY <1>10, Zenon DEF Prepared
  <2>2. Throw \/ UNCHANGED failed
    BY <1>10, Zenon DEF Prepared
  <2> QED
    BY <2>1, <2>2, ThrowPhase DEF Goto, PhaseStep, Preparing, Powered, Stopping
<1>6. CASE EnableDone \/ ActiveSlot \/ ActiveEnd \/ ActiveContinue \/ Settle
  BY <1>6, ThrowPhase
  DEF EnableDone, ActiveSlot, ActiveEnd, ActiveContinue, Settle, Goto,
      PhaseStep, Preparing, Powered, Stopping
<1>7. CASE StartVerify
  BY <1>7 DEF StartVerify, Goto, Each, PhaseStep, Preparing, Powered, Stopping
<1>8. CASE NextPass \/ VerifyContinue \/ VerifyDone \/ Report
  BY <1>8, ThrowPhase
  DEF NextPass, VerifyContinue, VerifyDone, Report, Goto, PhaseStep,
      Preparing, Powered, Stopping, feedback
<1>9. CASE Environment \/ UNCHANGED vars
  BY <1>9, SamePhase DEF Environment, Signal, DriveTrips, vars
<1> QED
  BY <1>1, <1>2, <1>3, <1>4, <1>5, <1>6, <1>7, <1>8, <1>9, <1>10
  DEF Next, Controller, Write, Preparation, Active, Shutdown

\* What the controller remembers of m stays, or is the answer it reads, or is
\* reset, before the enable loop or after the disable loop.
FeedbackStep(m) ==
  \/ /\ seen'[m] = seen[m]
     /\ lastStatus'[m] = lastStatus[m]
     /\ finalDisabled'[m] = finalDisabled[m]
  \/ /\ Draining
     /\ rx[m] # <<>> /\ rx'[m] = Tail(rx[m]) /\ Head(rx[m]) \in Expected
     /\ lastStatus'[m] = Head(rx[m])
     /\ finalDisabled'[m] => finalDisabled[m] \/ Head(rx[m]) = "off"
  \/ /\ pc = "prep_drain"
     /\ ~seen'[m] /\ lastStatus'[m] = "off" /\ ~finalDisabled'[m]
  \/ pc = "disable" /\ ~finalDisabled'[m] /\ lastStatus'[m] = lastStatus[m]

\* What any step does to a motor's record: an answer, a reset, or nothing.
LEMMA NextFeedback ==
  ASSUME TypeOK, [Next]_vars PROVE \A m \in Motors : FeedbackStep(m)
<1> USE DEF feedback
<1>t. /\ rx \in [Motors -> Seq(Status)]
      /\ seen \in [Motors -> BOOLEAN] /\ finalDisabled \in [Motors -> BOOLEAN]
      /\ lastStatus \in [Motors -> Status \union {"none"}]
  BY DEF TypeOK, BusTypeOK, MemoryTypeOK
<1>0. ASSUME UNCHANGED feedback PROVE \A m \in Motors : FeedbackStep(m)
  BY <1>0 DEF FeedbackStep
<1>1. ASSUME NEW k \in Motors, AcceptAnswer(k) \/ GuardTripped(k)
      PROVE  \A m \in Motors : FeedbackStep(m)
  <2>1. TakeAnswer(k) /\ Draining /\ Head(rx[k]) \in Expected
    BY <1>1 DEF AcceptAnswer, GuardTripped
  <2>2. rx'[k] = Tail(rx[k]) /\ rx[k] # <<>>
    BY <1>t, <2>1 DEF TakeAnswer
  <2>3. lastStatus' = [lastStatus EXCEPT ![k] = Head(rx[k])]
    BY <1>1 DEF AcceptAnswer, GuardTripped
  <2>4. /\ seen' \in {seen, [seen EXCEPT ![k] = TRUE]}
        /\ finalDisabled' \in {finalDisabled,
             [finalDisabled EXCEPT ![k] = (Head(rx[k]) = "off")]}
    BY <1>1 DEF AcceptAnswer, GuardTripped
  <2> SUFFICES ASSUME NEW m \in Motors PROVE FeedbackStep(m)
    OBVIOUS
  <2>5. CASE m = k
    <3>1. lastStatus'[k] = Head(rx[k])
      BY <1>t, <2>3
    <3>2. finalDisabled'[k] => finalDisabled[k] \/ Head(rx[k]) = "off"
      BY <1>t, <2>4
    <3> QED BY <2>1, <2>2, <2>5, <3>1, <3>2, Zenon DEF FeedbackStep
  <2>6. CASE m # k
    BY <1>t, <2>3, <2>4, <2>6 DEF FeedbackStep
  <2> QED BY <2>5, <2>6
<1>2. CASE Drain
  BY <1>0, <1>1, <1>2 DEF Drain, RefuseAnswer, GarbledAnswer
<1>3. CASE Write \/ StartDrain \/ Active \/ Environment \/ UNCHANGED vars
  BY <1>0, <1>3
  DEF Write, SendPoll, SendEnable, SendCommand, SendDisable, SendFails,
      StartDrain, Active, EnableDone, ActiveSlot, ActiveSlotFails, ActiveEnd,
      ActiveContinue, PublishFails, Settle, Environment, Signal, DriveTrips,
      vars
<1>4. CASE PrepSlot \/ PrepFails \/ PrepContinue
  BY <1>0, <1>4 DEF PrepSlot, PrepFails, PrepContinue
<1>5. CASE Prepared
  BY <1>0, <1>5 DEF Prepared, FeedbackStep, Each
<1>6. CASE StartVerify
  BY <1>6 DEF StartVerify, FeedbackStep, Each
<1>7. CASE NextPass \/ VerifyContinue \/ VerifyDone \/ Report
  BY <1>0, <1>7 DEF NextPass, VerifyContinue, VerifyDone, Report
<1> QED
  BY <1>2, <1>3, <1>4, <1>5, <1>6, <1>7
  DEF Next, Controller, Preparation, Shutdown

--------------------------------------------------------------------------------
(* The invariant AnswersAreTrue, part by part.                             *)

\* Until the enable frames an "off" once true stays true.
LEMMA SeenIsOffStep ==
  ASSUME TypeOK, SeenIsOff, [Next]_vars PROVE SeenIsOff'
<1> SUFFICES ASSUME pc' \in Preparing, NEW m \in Motors, drive'[m] = "on"
             PROVE  ~seen'[m] /\ ~Waiting(m, "off")'
  BY DEF SeenIsOff
<1>1. pc \in Preparing
  BY NextPhase DEF PhaseStep
<1>2. RxStep(m) /\ DriveStep(m) /\ FeedbackStep(m)
  BY BusStep, NextFeedback
<1>3. ~seen[m] /\ ~Waiting(m, "off")
  BY <1>1, <1>2 DEF DriveStep, Preparing, SeenIsOff
<1>4. ~Waiting(m, "off")'
  BY <1>2, <1>3, WaitingStep DEF TypeOK, BusTypeOK
<1>5. ~(Draining /\ rx[m] # <<>> /\ Head(rx[m]) \in Expected)
  <2>1. Draining => Expected = {"off"}
    BY <1>1 DEF Draining, Preparing, Expected, Lenient
  <2>2. rx[m] # <<>> => 1 \in 1..Len(rx[m]) /\ Head(rx[m]) = rx[m][1]
    BY DEF TypeOK, BusTypeOK
  <2> QED BY <1>3, <2>1, <2>2 DEF Waiting
<1>6. ~seen'[m]
  BY <1>1, <1>2, <1>3, <1>5 DEF FeedbackStep, Preparing
<1> QED BY <1>4, <1>6

\* An answer "off" behind an "on" takes a disable frame.
LEMMA OnStaysOnStep ==
  ASSUME TypeOK, OnStaysOn, [Next]_vars PROVE OnStaysOn'
<1> SUFFICES ASSUME pc' \in Preparing \union Powered, NEW m \in Motors
             PROVE  /\ lastStatus'[m] = "on" =>
                         drive'[m] # "off" /\ ~Waiting(m, "off")'
                    /\ \A i \in 1..Len(rx'[m]) : rx'[m][i] = "on" =>
                         /\ drive'[m] # "off"
                         /\ \A j \in i..Len(rx'[m]) : rx'[m][j] # "off"
  BY DEF OnStaysOn
<1>1. pc \in Preparing \union Powered
  BY NextPhase DEF PhaseStep
<1>2. RxStep(m) /\ DriveStep(m) /\ FeedbackStep(m)
  BY BusStep, NextFeedback
<1>3. drive[m] # "off" => drive'[m] # "off"
  BY <1>1, <1>2 DEF DriveStep, Preparing, Powered
<1>t. rx[m] \in Seq(Status) /\ drive'[m] \in Status
  BY NextTypeOK DEF TypeOK, BusTypeOK
<1>4. /\ lastStatus[m] = "on" => drive[m] # "off" /\ ~Waiting(m, "off")
      /\ \A i \in 1..Len(rx[m]) : rx[m][i] = "on" =>
           drive[m] # "off" /\ \A j \in i..Len(rx[m]) : rx[m][j] # "off"
  BY <1>1 DEF OnStaysOn
<1>5. ASSUME lastStatus'[m] = "on"
      PROVE  drive'[m] # "off" /\ ~Waiting(m, "off")'
  <2>1. CASE lastStatus[m] = "on"
    BY <1>t, <1>2, <1>3, <1>4, <2>1, WaitingStep
  <2>2. CASE rx[m] # <<>> /\ Head(rx[m]) = "on"
    <3>1. 1 \in 1..Len(rx[m]) /\ rx[m][1] = "on"
      BY <1>t, <2>2
    <3>2. drive[m] # "off" /\ \A j \in 1..Len(rx[m]) : rx[m][j] # "off"
      BY <1>4, <3>1
    <3>3. ~Waiting(m, "off")
      BY <3>2 DEF Waiting
    <3> QED BY <1>t, <1>2, <1>3, <3>2, <3>3, WaitingStep
  <2> QED BY <1>2, <1>5, <2>1, <2>2 DEF FeedbackStep
<1>6. ASSUME NEW i \in 1..Len(rx'[m]), rx'[m][i] = "on"
      PROVE  /\ drive'[m] # "off"
             /\ \A j \in i..Len(rx'[m]) : rx'[m][j] # "off"
  <2>1. CASE rx'[m] = rx[m]
    BY <1>3, <1>4, <1>6, <2>1
  <2>2. CASE rx[m] # <<>> /\ rx'[m] = Tail(rx[m])
    <3>1. /\ Len(rx'[m]) = Len(rx[m]) - 1
          /\ \A j \in 1..Len(rx'[m]) : rx'[m][j] = rx[m][j + 1]
      BY <1>t, <2>2
    <3>2. i + 1 \in 1..Len(rx[m]) /\ rx[m][i + 1] = "on"
      BY <1>t, <1>6, <3>1
    <3>3. drive[m] # "off"
          /\ \A j \in (i + 1)..Len(rx[m]) : rx[m][j] # "off"
      BY <1>4, <3>2
    <3>4. ASSUME NEW j \in i..Len(rx'[m]) PROVE rx'[m][j] # "off"
      <4>1. j \in 1..Len(rx'[m]) /\ j + 1 \in (i + 1)..Len(rx[m])
        BY <1>t, <3>1
      <4> QED BY <3>1, <3>3, <4>1
    <3> QED BY <1>3, <3>3, <3>4
  <2>3. CASE rx'[m] = Append(rx[m], drive'[m])
    <3>1. /\ Len(rx'[m]) = Len(rx[m]) + 1
          /\ rx'[m][Len(rx[m]) + 1] = drive'[m]
          /\ \A j \in 1..Len(rx[m]) : rx'[m][j] = rx[m][j]
      BY <1>t, <2>3
    <3>2. drive'[m] # "off"
      <4>1. CASE i = Len(rx[m]) + 1
        BY <1>6, <3>1, <4>1
      <4>2. CASE i # Len(rx[m]) + 1
        <5>1. i \in 1..Len(rx[m])
          BY <1>t, <3>1, <4>2
        <5> QED BY <1>3, <1>4, <1>6, <3>1, <5>1
      <4> QED BY <4>1, <4>2
    <3>3. ASSUME NEW j \in i..Len(rx'[m]) PROVE rx'[m][j] # "off"
      <4>1. CASE j = Len(rx[m]) + 1
        BY <3>1, <3>2, <4>1
      <4>2. CASE j # Len(rx[m]) + 1
        <5>1. i \in 1..Len(rx[m]) /\ j \in i..Len(rx[m]) /\ j \in 1..Len(rx[m])
          BY <1>t, <3>1, <4>2
        <5> QED BY <1>4, <1>6, <3>1, <5>1
      <4> QED BY <4>1, <4>2
    <3> QED BY <3>2, <3>3
  <2> QED BY <1>2, <2>1, <2>2, <2>3 DEF RxStep
<1> QED BY <1>5, <1>6

\* Past the enable check only answers "on" are accepted.
LEMMA CheckedIsOnStep ==
  ASSUME TypeOK, CheckedIsOn, [Next]_vars PROVE CheckedIsOn'
<1> SUFFICES ASSUME PastEnableCheck', NEW m \in Motors
             PROVE  lastStatus'[m] = "on"
  BY DEF CheckedIsOn
<1>n. slot \in Nat /\ EnableSlots \in Nat /\ ActiveSlots \in Nat
      /\ EnableSlots < ActiveSlots
  BY ConstantTypes, DurationAssumption DEF TypeOK, ControlTypeOK
<1>1. ASSUME PastEnableCheck, lastStatus'[m] = lastStatus[m]
      PROVE  lastStatus'[m] = "on"
  BY <1>1 DEF CheckedIsOn
<1>2. CASE Drain
  <2> PICK k \in Motors : AcceptAnswer(k) \/ RefuseAnswer(k)
                          \/ GarbledAnswer(k) \/ GuardTripped(k)
    BY <1>2 DEF Drain
  <2>1. ~Throw
    BY DEF Throw, PastEnableCheck, Stopping
  <2>2. PastEnableCheck
    BY <2>1
    DEF AcceptAnswer, RefuseAnswer, GarbledAnswer, GuardTripped, control,
        PastEnableCheck
  <2>3. FeedbackStep(m)
    BY NextFeedback
  <2>4. Draining => Expected = {"on"}
    BY <1>n, <2>2 DEF Draining, Expected, Lenient, PastEnableCheck
  <2>5. lastStatus[m] = "on"
    BY <2>2 DEF CheckedIsOn
  <2>6. AcceptAnswer(k) \/ UNCHANGED feedback
    BY <2>1
    DEF RefuseAnswer, GarbledAnswer, GuardTripped
  <2>7. CASE AcceptAnswer(k)
    BY <2>4, <2>5, <2>7 DEF AcceptAnswer, TypeOK, MemoryTypeOK
  <2> QED BY <2>5, <2>6, <2>7 DEF feedback
<1>3. CASE Write
  <2>1. ~Throw
    BY DEF Throw, PastEnableCheck, Stopping
  <2>2. PastEnableCheck /\ UNCHANGED feedback
    BY <1>3, <2>1
    DEF Write, SendPoll, SendEnable, SendCommand, SendDisable, SendFails,
        PastEnableCheck
  <2> QED BY <1>1, <2>2 DEF feedback
<1>4. CASE StartDrain
  BY <1>1, <1>4 DEF StartDrain, PastEnableCheck, feedback
<1>5. CASE Preparation
  BY <1>5
  DEF Preparation, PrepSlot, PrepFails, PrepContinue, Prepared, Goto, Throw,
      PastEnableCheck, Stopping
<1>6. CASE EnableDone
  BY <1>n, <1>6 DEF EnableDone, Goto, PastEnableCheck
<1>7. CASE ActiveSlot
  <2>1. ~Throw
    BY DEF Throw, PastEnableCheck, Stopping
  <2>2. pc = "active" /\ Goto("active_send", slot) /\ UNCHANGED feedback
    BY <1>7, <2>1 DEF ActiveSlot
  <2> QED BY <1>1, <2>2 DEF Goto, PastEnableCheck, feedback
<1>8. CASE ActiveEnd
  BY <1>1, <1>n, <1>8
  DEF ActiveEnd, Goto, Throw, PastEnableCheck, Stopping, feedback
<1>9. CASE ActiveContinue
  <2>1. ~Throw
    BY DEF Throw, PastEnableCheck, Stopping
  <2>2. /\ pc = "active_drain" /\ slot' = slot + 1
        /\ ~(slot = EnableSlots /\ \E k \in Motors : NotEnabled(k))
        /\ UNCHANGED feedback
    BY <1>9, <2>1 DEF ActiveContinue, Goto
  <2>3. CASE slot = EnableSlots
    BY <2>2, <2>3 DEF NotEnabled, feedback
  <2>4. CASE slot # EnableSlots
    <3>1. pc' = "active"
      BY <1>9, <2>1 DEF ActiveContinue, Goto
    <3>2. PastEnableCheck
      BY <1>n, <2>2, <2>4, <3>1 DEF PastEnableCheck
    <3> QED BY <1>1, <2>2, <3>2 DEF feedback
  <2> QED BY <2>3, <2>4
<1>10. CASE ActiveSlotFails \/ PublishFails \/ Settle
  BY <1>10
  DEF ActiveSlotFails, PublishFails, Settle, Goto, Throw, PastEnableCheck,
      Stopping
<1>11. CASE Shutdown
  BY <1>11
  DEF Shutdown, NextPass, StartVerify, VerifyContinue, VerifyDone, Report,
      Goto, Throw, PastEnableCheck, Stopping
<1>12. CASE Environment \/ UNCHANGED vars
  BY <1>1, <1>12
  DEF Environment, Signal, DriveTrips, vars, control, feedback, PastEnableCheck
<1> QED
  BY <1>2, <1>3, <1>4, <1>5, <1>6, <1>7, <1>8, <1>9, <1>10, <1>11, <1>12
  DEF Next, Controller, Active

\* No drive is turned on in the shutdown, and a run without failure enters
\* it with nothing but "on" unread.
LEMMA OffIsOffStep ==
  ASSUME TypeOK, OnStaysOn, CheckedIsOn, OffIsOff, [Next]_vars PROVE OffIsOff'
<1> SUFFICES ASSUME pc' \in Stopping, ~failed', NEW m \in Motors,
                    drive'[m] = "on"
             PROVE  /\ ~Waiting(m, "off")'
                    /\ pc' # "disable" => ~finalDisabled'[m]
  BY DEF OffIsOff
<1>1. /\ ~failed /\ pc \in Stopping \union {"settle"}
      /\ pc = "disable" /\ pc' # "disable" => ~finalDisabled'[m]
  BY NextPhase DEF PhaseStep
<1>2. RxStep(m) /\ DriveStep(m) /\ FeedbackStep(m)
  BY BusStep, NextFeedback
<1>3. drive[m] = "on"
  BY <1>1, <1>2 DEF DriveStep, Stopping
<1>4. ~Waiting(m, "off")
  <2>1. CASE pc \in Stopping
    BY <1>1, <1>3, <2>1 DEF OffIsOff
  <2>2. CASE pc = "settle"
    BY <2>2 DEF CheckedIsOn, PastEnableCheck, OnStaysOn, Powered
  <2> QED BY <1>1, <2>1, <2>2
<1>5. ~Waiting(m, "off")'
  BY <1>2, <1>4, WaitingStep DEF TypeOK, BusTypeOK
<1>6. ASSUME pc' # "disable" PROVE ~finalDisabled'[m]
  <2>1. CASE pc = "disable"
    BY <1>1, <1>6, <2>1
  <2>2. CASE pc = "settle"
    BY <1>6, <2>2, NextPhase DEF PhaseStep, Stopping
  <2>3. CASE pc \in Stopping \ {"disable"}
    <3>1. ~finalDisabled[m]
      BY <1>1, <1>3, <2>3 DEF OffIsOff
    <3>2. rx[m] # <<>> => Head(rx[m]) # "off"
      BY <1>4 DEF Waiting, TypeOK, BusTypeOK
    <3> QED BY <1>2, <2>3, <3>1, <3>2 DEF FeedbackStep
  <2> QED BY <1>1, <2>1, <2>2, <2>3
<1> QED BY <1>5, <1>6

\* What the verification found is carried to the report.
LEMMA ReportedOffStep ==
  ASSUME TypeOK, ReportedOff, [Next]_vars PROVE ReportedOff'
<1> SUFFICES ASSUME pc' = "report", ~failed', NEW m \in Motors
             PROVE  finalDisabled'[m]
  BY DEF ReportedOff
<1>1. /\ (pc = "report" /\ ~failed) \/ finalDisabled'[m]
      /\ FeedbackStep(m)
  BY NextPhase, NextFeedback DEF PhaseStep
<1> QED BY <1>1 DEF FeedbackStep, Draining, ReportedOff

\* The passes count one disable frame per motor.
LEMMA DisablesInLoopStep ==
  ASSUME TypeOK, DisablesInLoop, [Next]_vars PROVE DisablesInLoop'
<1> USE DEF control
<1>n. /\ N \in Nat /\ idx \in Int /\ attempt \in Nat
      /\ disables \in [Motors -> Nat] /\ Motors = 1..N
  BY ConstantTypes DEF TypeOK, ControlTypeOK, MemoryTypeOK, Motors
<1>0. ASSUME UNCHANGED <<pc, attempt, disables>>, pc # "disable"
      PROVE  DisablesInLoop'
  BY <1>0 DEF DisablesInLoop
<1>1. ASSUME UNCHANGED <<control, disables>> PROVE DisablesInLoop'
  BY <1>1 DEF DisablesInLoop
<1>2. ASSUME Throw, UNCHANGED disables, pc # "over" PROVE DisablesInLoop'
  BY <1>n, <1>2
  DEF DisablesInLoop, Throw, Preparing, Powered, Stopping, TypeOK,
      ControlTypeOK
<1>3. ASSUME NEW to \in Preparing \union Powered, NEW s, Goto(to, s),
             pc \in Preparing \union Powered, UNCHANGED disables
      PROVE  DisablesInLoop'
  BY <1>3 DEF DisablesInLoop, Goto, Preparing, Powered
<1>4. CASE Drain
  BY <1>1, <1>2, <1>4
  DEF Drain, AcceptAnswer, RefuseAnswer, GarbledAnswer, GuardTripped, Draining
<1>5. CASE SendPoll \/ SendEnable \/ SendCommand \/ StartDrain
  BY <1>0, <1>5
  DEF SendPoll, SendEnable, SendCommand, StartDrain, DisablesInLoop,
      Preparing, Powered
<1>6. CASE SendFails \/ PrepFails \/ ActiveSlotFails \/ PublishFails
  BY <1>2, <1>6 DEF SendFails, PrepFails, ActiveSlotFails, PublishFails
<1>7. CASE SendDisable
  BY <1>n, <1>7 DEF SendDisable, DisablesInLoop, Preparing, Powered
<1>8. CASE PrepSlot \/ PrepContinue
  BY <1>2, <1>3, <1>8 DEF PrepSlot, PrepContinue, Preparing, Powered
<1>9. CASE Prepared
  <2>1. pc = "prep_drain" /\ UNCHANGED disables /\ (Throw \/ Goto("enable", 0))
    BY <1>9, Zenon DEF Prepared
  <2> QED BY <1>2, <1>3, <2>1 DEF Preparing, Powered
<1>10. CASE EnableDone \/ ActiveEnd \/ ActiveContinue
  BY <1>2, <1>3, <1>10
  DEF EnableDone, ActiveEnd, ActiveContinue, Preparing, Powered
<1>11. CASE ActiveSlot
  BY <1>2, <1>3, <1>11 DEF ActiveSlot, Preparing, Powered
<1>12. CASE Settle
  <2>1. CASE Goto("disable", 0) /\ UNCHANGED disables /\ pc = "settle"
    BY <1>n, <2>1 DEF Goto, DisablesInLoop, Preparing, Powered
  <2> QED BY <1>2, <1>12, <2>1 DEF Settle
<1>13. CASE NextPass \/ StartVerify
  <2>1. pc = "disable" /\ idx = N + 1 /\ UNCHANGED disables
    BY <1>13 DEF NextPass, StartVerify
  <2>2. \A m \in Motors : m < idx
    BY <1>n, <2>1
  <2>3. \A m \in Motors : disables'[m] = attempt
    BY <1>n, <2>1, <2>2 DEF DisablesInLoop
  <2>4. CASE NextPass
    BY <1>n, <2>1, <2>3, <2>4 DEF NextPass, DisablesInLoop, Preparing, Powered
  <2>5. CASE StartVerify
    BY <1>n, <2>1, <2>3, <2>5
    DEF StartVerify, LastPass, Goto, DisablesInLoop, Preparing, Powered
  <2> QED BY <1>13, <2>4, <2>5
<1>14. CASE VerifyContinue \/ VerifyDone \/ Report
  BY <1>2, <1>14
  DEF VerifyContinue, VerifyDone, Report, Goto, DisablesInLoop, Preparing,
      Powered
<1>15. CASE Environment \/ UNCHANGED vars
  BY <1>1, <1>15 DEF Environment, Signal, DriveTrips, vars
<1> QED
  BY <1>4, <1>5, <1>6, <1>7, <1>8, <1>9, <1>10, <1>11, <1>12, <1>13, <1>14,
     <1>15
  DEF Next, Controller, Write, Preparation, Active, Shutdown

\* Only SendDisable counts a disable frame.
LEMMA DisablesStep ==
  ASSUME [Next]_vars PROVE SendDisable \/ UNCHANGED disables
<1>1. CASE Drain \/ StartDrain \/ PrepSlot \/ PrepFails \/ PrepContinue
  BY <1>1
  DEF Drain, AcceptAnswer, RefuseAnswer, GarbledAnswer, GuardTripped,
      StartDrain, PrepSlot, PrepFails, PrepContinue
<1>5. CASE Prepared
  BY <1>5, Zenon DEF Prepared
<1>2. CASE Write
  BY <1>2
  DEF Write, SendPoll, SendEnable, SendCommand, SendFails
<1>3. CASE Active
  BY <1>3
  DEF Active, EnableDone, ActiveSlot, ActiveSlotFails, ActiveEnd,
      ActiveContinue, PublishFails, Settle
<1>4. CASE Shutdown \/ Environment \/ UNCHANGED vars
  BY <1>4
  DEF Shutdown, NextPass, StartVerify, VerifyContinue, VerifyDone, Report,
      Environment, Signal, DriveTrips, vars
<1> QED BY <1>1, <1>2, <1>3, <1>4, <1>5 DEF Next, Controller, Preparation

\* A drive that got a disable frame is not enabled again.
LEMMA StillOnLostAllStep ==
  ASSUME TypeOK, DisablesInLoop, StillOnLostAll, [Next]_vars
  PROVE  StillOnLostAll'
<1> SUFFICES ASSUME pc' \in Stopping, NEW m \in Motors, drive'[m] = "on"
             PROVE  lost' >= disables'[m]
  BY DEF StillOnLostAll
<1>s. lost' >= lost /\ RxStep(m) /\ DriveStep(m)
  BY BusStep
<1>p. BusTypeOK /\ BusTypeOK'
  BY NextTypeOK DEF TypeOK
<1>t. /\ lost \in Nat /\ lost' \in Nat /\ lost' >= lost
      /\ disables \in [Motors -> Nat] /\ drive \in [Motors -> Status]
      /\ DriveStep(m)
  BY <1>s, <1>p, LossAssumption DEF TypeOK, BusTypeOK, MemoryTypeOK
<1>1. CASE SendDisable
  <2>1. /\ pc = "disable" /\ idx \in Motors /\ Deliver(idx, "disable")
        /\ disables' = [disables EXCEPT ![idx] = @ + 1]
    BY <1>1, ConstantTypes DEF SendDisable, TypeOK, ControlTypeOK, Motors
  <2>2. lost >= disables[m]
    BY <1>t, <2>1 DEF DriveStep, StillOnLostAll, Stopping
  <2>3. CASE m # idx
    BY <1>t, <2>1, <2>2, <2>3
  <2>4. CASE m = idx
    <3>1. Obey(drive[m], "disable") # "on"
      BY DEF Obey
    <3>2. drive' # [drive EXCEPT ![idx] = Obey(drive[idx], "disable")]
      BY <1>t, <2>1, <2>4, <3>1
    <3>3. lost' = lost + 1
      BY <2>1, <3>2, DeliverFacts DEF TypeOK
    <3> QED BY <1>t, <2>1, <2>2, <2>4, <3>3
  <2> QED BY <2>3, <2>4
<1>2. CASE UNCHANGED disables
  <2>1. CASE pc \in Stopping
    BY <1>t, <1>2, <2>1 DEF DriveStep, StillOnLostAll, Stopping
  <2>2. CASE pc \in Preparing \union Powered
    BY <1>t, <1>2, <2>2 DEF DisablesInLoop
  <2>3. CASE pc = "over"
    BY <2>3, NextPhase DEF PhaseStep, Stopping
  <2> QED BY <2>1, <2>2, <2>3 DEF TypeOK, ControlTypeOK
<1> QED BY <1>1, <1>2, DisablesStep

\* Before the first frame nothing was answered.
LEMMA InitAnswersAreTrue == Init => AnswersAreTrue
<1> SUFFICES ASSUME Init PROVE AnswersAreTrue
  OBVIOUS
<1>1. /\ pc = "prep" /\ attempt = 1
      /\ \A m \in Motors : ~seen[m] /\ lastStatus[m] = "none"
                           /\ disables[m] = 0 /\ rx[m] = <<>>
  BY DEF Init, Each, BusInit
<1>2. SeenIsOff /\ OnStaysOn
  BY <1>1 DEF SeenIsOff, OnStaysOn, Waiting
<1>3. CheckedIsOn /\ OffIsOff /\ ReportedOff /\ DisablesInLoop /\ StillOnLostAll
  BY <1>1
  DEF CheckedIsOn, PastEnableCheck, OffIsOff, ReportedOff, DisablesInLoop,
      StillOnLostAll, Stopping
<1> QED BY <1>2, <1>3 DEF AnswersAreTrue

\* Every step keeps all parts of AnswersAreTrue.
LEMMA NextAnswersAreTrue ==
  ASSUME TypeOK, AnswersAreTrue, [Next]_vars PROVE AnswersAreTrue'
  BY SeenIsOffStep, OnStaysOnStep, CheckedIsOnStep, OffIsOffStep,
     ReportedOffStep, DisablesInLoopStep, StillOnLostAllStep
  DEF AnswersAreTrue

(***************************************************************************)
(* In every phase, what the controller knows, what is unread and what the  *)
(* drives are fit together.                                                *)
(***************************************************************************)
THEOREM AnswersStayTrue == Spec => [](TypeOK /\ AnswersAreTrue)
<1>1. Init => TypeOK /\ AnswersAreTrue
  BY InitTypeOK, InitAnswersAreTrue
<1>2. TypeOK /\ AnswersAreTrue /\ [Next]_vars => (TypeOK /\ AnswersAreTrue)'
  BY NextTypeOK, NextAnswersAreTrue
<1> QED BY <1>1, <1>2, PTL DEF Spec

--------------------------------------------------------------------------------
(* The safety properties.                                                  *)

(***************************************************************************)
(* A run that passed the enable check of slot 200 has no disabled drive.   *)
(***************************************************************************)
THEOREM EnableCheckHolds == Spec => []VerifiedEnabled
<1>1. TypeOK /\ AnswersAreTrue => VerifiedEnabled
  BY DEF AnswersAreTrue, CheckedIsOn, OnStaysOn, VerifiedEnabled,
         PastEnableCheck, Powered
<1> QED BY <1>1, AnswersStayTrue, PTL

(***************************************************************************)
(* When verification starts after fewer losses than there are passes of    *)
(* disable frames, no drive is enabled.                                    *)
(***************************************************************************)
THEOREM PassesSuffice == Spec => []PassesOutlastLosses
<1>1. TypeOK /\ AnswersAreTrue => PassesOutlastLosses
  <2> SUFFICES ASSUME TypeOK, AnswersAreTrue,
                      pc \in {"verify_send", "verify_drain", "verify_settle"},
                      lost < DisableAttempts, NEW m \in Motors, drive[m] = "on"
               PROVE  FALSE
    BY DEF PassesOutlastLosses
  <2>1. lost >= disables[m] /\ disables[m] = DisableAttempts
    BY DEF AnswersAreTrue, StillOnLostAll, DisablesInLoop, Stopping
  <2>2. lost \in Int /\ DisableAttempts \in Int
    BY ConstantTypes DEF TypeOK, BusTypeOK
  <2> QED BY <2>1, <2>2
<1> QED BY <1>1, AnswersStayTrue, PTL

--------------------------------------------------------------------------------
(* Commands follow targets.                                                *)

\* The multiples of p are what leaves no remainder.
LEMMA Multiples ==
  ASSUME NEW p \in Nat \ {0}, NEW s \in Nat
  PROVE  s % p = 0 <=> \E k \in Nat : s = p * k
<1>1. /\ s % p \in 0..(p - 1) /\ s \div p \in Nat
      /\ s = p * (s \div p) + (s % p)
  OBVIOUS
<1>2. ASSUME s % p = 0 PROVE \E k \in Nat : s = p * k
  BY <1>1, <1>2
<1>3. ASSUME NEW k \in Nat, s = p * k PROVE s % p = 0
  <2>1. PICK r \in 0..(p - 1), q \in Nat :
          r = s % p /\ q = s \div p /\ s = p * q + r
    BY <1>1
  <2>d. PICK d \in Int : d = k - q
    OBVIOUS
  <2>2. p * d = r
    <3>1. p * (k - q) = r
      BY <1>3, <2>1
    <3> QED BY <2>d, <3>1
  <2>3. CASE d >= 1
    <3>1. p * d >= p
      BY <2>3
    <3> QED BY <2>2, <3>1
  <2>4. CASE d <= 0
    <3>1. p * d <= 0
      BY <2>4
    <3> QED BY <2>1, <2>2, <3>1
  <2> QED BY <2>3, <2>4
<1> QED BY <1>2, <1>3

\* Between two multiples of p the next one is the only one.
LEMMA NextMultiple ==
  ASSUME NEW p \in Nat \ {0}, NEW s \in Nat, NEW c \in Nat,
         s <= p * c, s > p * (c - 1)
  PROVE  s % p = 0 <=> s = p * c
<1>1. ASSUME NEW k \in Nat, s = p * k PROVE k = c
  <2>1. CASE k <= c - 1
    <3>1. p * k <= p * (c - 1)
      BY <2>1
    <3> QED BY <1>1, <3>1
  <2>2. CASE k >= c + 1
    <3>1. p * k >= p * (c + 1)
      BY <2>2
    <3>2. p * (c + 1) > p * c
      OBVIOUS
    <3> QED BY <1>1, <3>1, <3>2
  <2> QED BY <2>1, <2>2
<1> QED BY <1>1, Multiples

\* What a step does to the slots played and to the previews.
PlayStep ==
  \/ pc' \notin Playing \union {"enable"}
  \/ pc' = "enable" /\ previewCount' = 0
  \/ UNCHANGED <<pc, slot, preview, lag>>
  \/ pc = "enable" /\ pc' = "active" /\ slot' = 0 /\ UNCHANGED preview
  \/ pc = "active_send" /\ pc' = "active_drain" /\ UNCHANGED <<slot, preview, lag>>
  \/ /\ pc = "active_drain" /\ pc' = "active" /\ slot' = slot + 1
     /\ UNCHANGED <<preview, lag>>
  \/ /\ pc = "active" /\ pc' = "active_send" /\ slot' = slot
     /\ lag' \in 0..MaxLag /\ targetAge' <= TargetTimeout
     /\ Preview(1 + lag' - lag)

\* An exception ends the playing.
LEMMA ThrowEndsPlaying == Throw => PlayStep
  BY DEF Throw, PlayStep, Playing

\* Every step is one of them.
LEMMA NextPlayStep == ASSUME TypeOK, [Next]_vars PROVE PlayStep
<1> USE DEF control, preview, clock
<1>1. CASE Drain
  BY <1>1, ThrowEndsPlaying
  DEF Drain, AcceptAnswer, RefuseAnswer, GarbledAnswer, GuardTripped, PlayStep
<1>2. CASE SendPoll \/ SendEnable \/ SendCommand \/ SendDisable
  BY <1>2 DEF SendPoll, SendEnable, SendCommand, SendDisable, PlayStep
<1>3. CASE SendFails \/ PrepFails \/ ActiveSlotFails \/ PublishFails
  BY <1>3, ThrowEndsPlaying
  DEF SendFails, PrepFails, ActiveSlotFails, PublishFails
<1>4. CASE StartDrain
  BY <1>4 DEF StartDrain, PlayStep, Playing
<1>5. CASE PrepSlot \/ PrepContinue
  BY <1>5, ThrowEndsPlaying DEF PrepSlot, PrepContinue, Goto, PlayStep, Playing
<1>6. CASE Prepared
  <2>1. Throw \/ (Goto("enable", 0) /\ previewCount' = 0)
    BY <1>6, Zenon DEF Prepared
  <2> QED BY <2>1, ThrowEndsPlaying DEF Goto, PlayStep
<1>7. CASE EnableDone
  BY <1>7 DEF EnableDone, Goto, PlayStep
<1>8. CASE ActiveSlot
  <2> PICK late \in 0..MaxLag :
        /\ WakeUp(late)
        /\ DrainTargets(1 + late - lag)
        /\ IF WatchdogExpired
           THEN Throw /\ UNCHANGED preview
           ELSE /\ Goto("active_send", slot) /\ UNCHANGED outcome
                /\ Preview(1 + late - lag)
    BY <1>8 DEF ActiveSlot
  <2>1. CASE Throw
    BY <2>1, ThrowEndsPlaying
  <2>2. CASE ~WatchdogExpired
    <3>1. lag' = late /\ pc = "active" /\ Goto("active_send", slot)
          /\ Preview(1 + late - lag)
      BY <1>8, <2>2 DEF WakeUp, ActiveSlot
    <3>2. targetAge' <= TargetTimeout
      <4>1. targetAge' \in Int
        BY <1>8, ActiveTypeOK DEF Active, TypeOK, MemoryTypeOK
      <4> QED BY <2>2, <4>1, ConstantTypes DEF WatchdogExpired
    <3> QED BY <3>1, <3>2 DEF Goto, PlayStep
  <2> QED BY <2>1, <2>2
<1>9. CASE ActiveEnd \/ Settle
  BY <1>9, ThrowEndsPlaying DEF ActiveEnd, Settle, Goto, PlayStep, Playing
<1>10. CASE ActiveContinue
  BY <1>10, ThrowEndsPlaying DEF ActiveContinue, Goto, PlayStep
<1>11. CASE StartVerify \/ VerifyContinue \/ VerifyDone \/ Report
  BY <1>11, ThrowEndsPlaying
  DEF StartVerify, VerifyContinue, VerifyDone, Report, Goto, PlayStep, Playing
<1>12. CASE NextPass \/ Environment \/ UNCHANGED vars
  BY <1>12 DEF NextPass, Environment, Signal, DriveTrips, vars, PlayStep
<1> QED
  BY <1>1, <1>2, <1>3, <1>4, <1>5, <1>6, <1>7, <1>8, <1>9, <1>10, <1>11, <1>12
  DEF Next, Controller, Write, Preparation, Active, Shutdown

\* The previews of a slot keep step and come from targets fresh enough.
LEMMA PreviewStep ==
  ASSUME TypeOK, TypeOK', PreviewsAreRecent,
         pc = "active", pc' = "active_send", slot' = slot,
         targetAge' <= TargetTimeout, Preview(1 + lag' - lag)
  PROVE  PreviewsAreRecent'
<1> DEFINE c == previewCount
           P == PreviewPeriod
           O == OtherPreviews
<1>t. /\ P \in Nat \ {0} /\ O \in Nat \ {0} /\ TargetTimeout \in Nat
      /\ c \in Nat /\ slot \in Nat /\ lag \in Nat /\ lag' \in Nat
      /\ targetAge' \in Int
      /\ previewAge \in [Motors -> Int] /\ previewReady \in [Motors -> BOOLEAN]
  <2>1. lag \in 0..MaxLag /\ lag' \in 0..MaxLag /\ MaxLag \in Nat
    BY ConstantTypes DEF TypeOK, MemoryTypeOK
  <2>2. P \in Nat \ {0} /\ O \in Nat \ {0}
    BY ScheduleAssumption
  <2> QED BY <2>1, <2>2, ConstantTypes DEF TypeOK, MemoryTypeOK, ControlTypeOK
<1>s. SlotsPlayed = slot /\ SlotsPlayed' = slot + 1
  BY <1>t DEF SlotsPlayed
<1>1. slot <= P * c /\ slot > P * (c - 1)
  BY <1>s DEF PreviewsAreRecent, PreviewsInStep, Playing
<1>2. slot % P = 0 <=> slot = P * c
  BY <1>t, <1>1, NextMultiple
<1>3. PreviewsInStep'
  <2>1. CASE slot % P = 0
    <3>1. previewCount' = c + 1
      BY <2>1 DEF Preview, c, P
    <3>2. slot + 1 <= P * (c + 1) /\ slot + 1 > P * c
      BY <1>t, <1>2, <2>1
    <3>3. c + 1 - 1 = c
      BY <1>t
    <3>4. /\ SlotsPlayed' <= P * previewCount'
          /\ SlotsPlayed' > P * (previewCount' - 1)
      BY <1>t, <1>s, <3>1, <3>2, <3>3
    <3> QED BY <3>4 DEF PreviewsInStep, P
  <2>2. CASE slot % P # 0
    <3>1. previewCount' = c
      BY <2>2 DEF Preview, c, P
    <3>2. slot + 1 <= P * c /\ slot + 1 > P * (c - 1)
      BY <1>t, <1>1, <1>2, <2>2
    <3>4. /\ SlotsPlayed' <= P * previewCount'
          /\ SlotsPlayed' > P * (previewCount' - 1)
      BY <1>s, <3>1, <3>2
    <3> QED BY <3>4 DEF PreviewsInStep, P
  <2> QED BY <2>1, <2>2
<1>4. ASSUME NEW full \in 0..(previewCount'),
             O * full < previewCount', previewCount' <= O * (full + 1),
             \A m \in Motors :
               /\ previewReady'[m]
               /\ previewAge'[m] - lag' + P * (O * full)
                    <= TargetTimeout + slot
      PROVE  PreviewsFromTargets'
  <2>1. TargetTimeout + SlotsPlayed' - 1 = TargetTimeout + slot
    BY <1>t, <1>s
  <2> QED BY <1>4, <2>1 DEF PreviewsFromTargets, P, O
<1>5. ASSUME c > 0
      PROVE  \E full \in 0..c :
               /\ O * full < c /\ c <= O * (full + 1)
               /\ \A m \in Motors :
                    /\ previewReady[m]
                    /\ previewAge[m] - lag + P * (O * full)
                         <= TargetTimeout + slot - 1
  BY <1>5, <1>s DEF PreviewsAreRecent, PreviewsFromTargets, Playing, P, O, c
<1>6. ASSUME NEW m \in Motors, NEW product \in Int,
             previewAge'[m] = previewAge[m] + (1 + lag' - lag),
             previewAge[m] - lag + product <= TargetTimeout + slot - 1
      PROVE  previewAge'[m] - lag' + product <= TargetTimeout + slot
  BY <1>t, <1>6
<1>f. ASSUME NEW product \in Int, product <= slot
      PROVE  targetAge' - lag' + product <= TargetTimeout + slot
  <2>1. \A a \in Int, b \in Nat :
          a <= TargetTimeout => a - b + product <= TargetTimeout + slot
    BY <1>t, <1>f
  <2> QED BY <1>t, <2>1
<1>7. CASE slot % P # 0
  <2>1. c > 0
    <3>1. c = 0 => slot = P * c
      BY <1>t, <1>1
    <3> QED BY <1>t, <1>2, <1>7, <3>1
  <2>2. PICK full \in 0..c :
          /\ O * full < c /\ c <= O * (full + 1)
          /\ \A m \in Motors :
               /\ previewReady[m]
               /\ previewAge[m] - lag + P * (O * full)
                    <= TargetTimeout + slot - 1
    BY <1>5, <2>1
  <2>3. /\ previewCount' = c
        /\ \A m \in Motors :
             /\ previewReady'[m] = previewReady[m]
             /\ previewAge'[m] = previewAge[m] + (1 + lag' - lag)
    BY <1>7, <1>t DEF Preview, c, P
  <2>4. P * (O * full) \in Int
    BY <1>t
  <2>5. \A m \in Motors :
          /\ previewReady'[m]
          /\ previewAge'[m] - lag' + P * (O * full) <= TargetTimeout + slot
    BY <1>6, <2>2, <2>3, <2>4
  <2>9. /\ full \in 0..(previewCount') /\ O * full < previewCount'
        /\ previewCount' <= O * (full + 1)
    BY <1>t, <2>2, <2>3
  <2> QED BY <1>3, <1>4, <2>5, <2>9 DEF PreviewsAreRecent
<1>8. CASE slot % P = 0 /\ c % O = 0
  <2>1. PICK k \in Nat : c = O * k
    BY <1>t, <1>8, Multiples
  <2>2. /\ previewCount' = c + 1
        /\ \A m \in Motors : previewReady'[m] /\ previewAge'[m] = targetAge'
    BY <1>8, <1>t DEF Preview, c, P, O
  <2>3. k \in 0..(c + 1) /\ O * k < c + 1 /\ c + 1 <= O * (k + 1)
    <3>1. O * k >= k /\ O * (k + 1) = O * k + O
      BY <1>t
    <3> QED BY <1>t, <2>1, <3>1
  <2>4. P * (O * k) = slot
    BY <1>2, <1>8, <2>1
  <2>5. targetAge' - lag' + P * (O * k) <= TargetTimeout + slot
    <3>1. PICK n \in Int : n = P * (O * k) /\ n <= slot
      BY <1>t, <2>4
    <3> QED BY <1>f, <3>1
  <2>9. /\ k \in 0..(previewCount') /\ O * k < previewCount'
        /\ previewCount' <= O * (k + 1)
    BY <1>t, <2>2, <2>3
  <2>10. \A m \in Motors :
           /\ previewReady'[m]
           /\ previewAge'[m] - lag' + P * (O * k) <= TargetTimeout + slot
    BY <2>2, <2>5
  <2> QED BY <1>3, <1>4, <2>9, <2>10 DEF PreviewsAreRecent
<1>9. CASE slot % P = 0 /\ c % O # 0
  <2>1. c > 0
    <3>1. c = 0 => c = O * 0
      BY <1>t
    <3> QED BY <1>t, <1>9, <3>1, Multiples
  <2>2. PICK full \in 0..c :
          /\ O * full < c /\ c <= O * (full + 1)
          /\ \A m \in Motors :
               /\ previewReady[m]
               /\ previewAge[m] - lag + P * (O * full)
                    <= TargetTimeout + slot - 1
    BY <1>5, <2>1
  <2>3. /\ previewCount' = c + 1
        /\ \A m \in Motors :
             /\ previewReady[m] => previewReady'[m]
             /\ \/ previewAge'[m] = previewAge[m] + (1 + lag' - lag)
                \/ previewAge'[m] = targetAge'
    BY <1>9, <1>t DEF Preview, c, P, O
  <2>4. full + 1 \in Nat /\ O * (full + 1) # c
    BY <1>t, <1>9, Multiples
  <2>5. full \in 0..(c + 1) /\ O * full < c + 1 /\ c + 1 <= O * (full + 1)
    <3>1. O * full \in Int /\ O * (full + 1) \in Int
      BY <1>t
    <3> QED BY <1>t, <2>2, <2>4, <3>1
  <2>6. P * (O * full) \in Int /\ P * (O * full) <= slot
    <3>1. PICK n \in Int : n = O * full
      BY <1>t
    <3>2. P * n <= P * c
      BY <1>t, <2>2, <3>1
    <3> QED BY <1>2, <1>9, <1>t, <3>1, <3>2
  <2>7. targetAge' - lag' + P * (O * full) <= TargetTimeout + slot
    BY <1>t, <1>f, <2>6
  <2>8. \A m \in Motors :
          /\ previewReady'[m]
          /\ previewAge'[m] - lag' + P * (O * full) <= TargetTimeout + slot
    BY <1>6, <2>2, <2>3, <2>6, <2>7
  <2>9. /\ full \in 0..(previewCount') /\ O * full < previewCount'
        /\ previewCount' <= O * (full + 1)
    BY <1>t, <2>3, <2>5
  <2> QED BY <1>3, <1>4, <2>8, <2>9 DEF PreviewsAreRecent
<1> QED BY <1>7, <1>8, <1>9

\* Every step keeps the previews recent.
LEMMA NextPreviewsAreRecent ==
  ASSUME TypeOK, PreviewsAreRecent, [Next]_vars PROVE PreviewsAreRecent'
<1>p. PlayStep /\ TypeOK'
  BY NextPlayStep, NextTypeOK
<1>t. /\ slot \in Nat /\ previewCount \in Nat
      /\ PreviewPeriod \in Nat \ {0} /\ OtherPreviews \in Nat \ {0}
  BY ScheduleAssumption DEF TypeOK, ControlTypeOK, MemoryTypeOK
<1> USE DEF PreviewsAreRecent, PreviewsInStep, PreviewsFromTargets
<1>1. CASE pc' \notin Playing \union {"enable"}
  BY <1>1
<1>2. CASE pc' = "enable" /\ previewCount' = 0
  BY <1>2 DEF Playing
<1>3. CASE UNCHANGED <<pc, slot, preview, lag>>
  <2>1. SlotsPlayed' = SlotsPlayed
    BY <1>3 DEF SlotsPlayed
  <2> QED BY <1>3, <2>1 DEF preview
<1>4. CASE pc = "enable" /\ pc' = "active" /\ slot' = 0 /\ UNCHANGED preview
  <2>1. SlotsPlayed' = 0 /\ previewCount' = 0
    BY <1>4 DEF SlotsPlayed, preview
  <2>2. 0 <= PreviewPeriod * 0 /\ 0 > PreviewPeriod * (0 - 1)
    BY <1>t
  <2> QED BY <1>4, <2>1, <2>2
<1>5. CASE \/ /\ pc = "active_send" /\ pc' = "active_drain"
              /\ UNCHANGED <<slot, preview, lag>>
           \/ /\ pc = "active_drain" /\ pc' = "active" /\ slot' = slot + 1
              /\ UNCHANGED <<preview, lag>>
  <2>1. SlotsPlayed' = SlotsPlayed /\ pc \in Playing /\ pc' # "enable"
    BY <1>5 DEF SlotsPlayed, Playing
  <2> QED BY <1>5, <2>1 DEF preview
<1>6. CASE /\ pc = "active" /\ pc' = "active_send" /\ slot' = slot
           /\ lag' \in 0..MaxLag /\ targetAge' <= TargetTimeout
           /\ Preview(1 + lag' - lag)
  BY <1>6, <1>p, PreviewStep
<1> QED BY <1>p, <1>1, <1>2, <1>3, <1>4, <1>5, <1>6 DEF PlayStep

(***************************************************************************)
(* No command is written that was not computed, and none from a target     *)
(* older than the watchdog's limit plus one period of the slow previews,   *)
(* whatever the client sends and however late the controller wakes up.     *)
(***************************************************************************)
THEOREM CommandsStayRecent == Spec => []CommandsFollowTargets
<1>1. Init => PreviewsAreRecent
  BY DEF Init, PreviewsAreRecent, PreviewsInStep, PreviewsFromTargets, Playing
<1>2. TypeOK /\ PreviewsAreRecent /\ [Next]_vars => PreviewsAreRecent'
  BY NextPreviewsAreRecent
<1>3. TypeOK /\ PreviewsAreRecent => CommandsFollowTargets
  <2> SUFFICES ASSUME TypeOK, PreviewsAreRecent, pc = "active_send",
                      NEW m \in Motors
               PROVE  /\ previewReady[m]
                      /\ previewAge[m] <= TargetTimeout
                           + PreviewPeriod * OtherPreviews - 1 + lag
    BY DEF CommandsFollowTargets
  <2> DEFINE P == PreviewPeriod
             O == OtherPreviews
             c == previewCount
  <2>t. /\ P \in Nat \ {0} /\ O \in Nat \ {0} /\ TargetTimeout \in Nat
        /\ slot \in Nat /\ c \in Nat /\ lag \in Nat /\ previewAge[m] \in Int
    <3>1. lag \in 0..MaxLag /\ MaxLag \in Nat
      BY ConstantTypes DEF TypeOK, MemoryTypeOK
    <3>2. P \in Nat \ {0} /\ O \in Nat \ {0}
      BY ScheduleAssumption
    <3> QED BY <3>1, <3>2, ConstantTypes DEF TypeOK, MemoryTypeOK, ControlTypeOK
  <2>1. slot + 1 <= P * c /\ SlotsPlayed = slot + 1
    BY DEF PreviewsAreRecent, PreviewsInStep, Playing, SlotsPlayed
  <2>2. c > 0
    <3>1. c = 0 => P * c = 0
      BY <2>t
    <3> QED BY <2>t, <2>1, <3>1
  <2>3. PICK full \in 0..c :
          /\ c <= O * (full + 1) /\ previewReady[m]
          /\ previewAge[m] - lag + P * (O * full)
               <= TargetTimeout + SlotsPlayed - 1
    BY <2>2 DEF PreviewsAreRecent, PreviewsFromTargets, Playing
  <2> HIDE DEF P, O, c
  <2>4. P * c <= P * (O * full) + P * O
    <3>1. PICK n \in Int : n = O * (full + 1) /\ n = O * full + O
      BY <2>t
    <3>2. P * c <= P * n
      BY <2>t, <2>3, <3>1
    <3> QED BY <2>t, <3>1, <3>2
  <2>5. P * (O * full) \in Int /\ P * O \in Int /\ P * c \in Int
    BY <2>t
  <2>6. previewAge[m] <= TargetTimeout + P * O - 1 + lag
    BY <2>t, <2>1, <2>3, <2>4, <2>5
  <2> QED BY <2>3, <2>6 DEF P, O
<1> QED BY <1>1, <1>2, <1>3, TypeCorrect, PTL DEF Spec

--------------------------------------------------------------------------------
(* The controller implements FailClosedRun.                                *)

\* The phase of FailClosedRun, from the place in the program,
LEMMA PhaseOfPc ==
  /\ pc \in Preparing <=> RunPhase = "waiting"
  /\ pc \in Powered <=> RunPhase = "armed"
  /\ pc \in Stopping <=> RunPhase = "stopping"
  /\ pc = "over" => RunPhase = "over"
  BY DEF RunPhase, Preparing, Powered, Stopping

\* and after a step.
LEMMA PhaseOfNextPc ==
  /\ pc' \in Preparing <=> RunPhase' = "waiting"
  /\ pc' \in Powered <=> RunPhase' = "armed"
  /\ pc' \in Stopping <=> RunPhase' = "stopping"
  /\ pc' = "over" => RunPhase' = "over"
  BY DEF RunPhase, Preparing, Powered, Stopping

\* A step that stays where it is stays in its phase.
LEMMA SamePcRefines == UNCHANGED pc => UNCHANGED RunPhase
  BY DEF RunPhase

\* A step that leaves the drives alone enables and disables none.
LEMMA SameDrivesRefines == UNCHANGED drive => UNCHANGED EnabledDrives
  BY DEF EnabledDrives

\* Only Enable of the abstract run; the bus may lose the frame.
LEMMA EnableRefines ==
  ASSUME TypeOK, SendEnable PROVE [FailClosed!Next]_(FailClosed!failClosedVars)
<1>1. /\ pc = "enable" /\ idx \in Motors /\ Deliver(idx, "enable")
      /\ UNCHANGED <<pc, verdict>>
  BY ConstantTypes DEF SendEnable, TypeOK, ControlTypeOK, Motors, outcome
<1>2. RunPhase = "armed" /\ UNCHANGED RunPhase
  BY <1>1, PhaseOfPc, SamePcRefines DEF Powered
<1>3. \/ drive' = [drive EXCEPT ![idx] = Obey(drive[idx], "enable")]
      \/ drive' = drive
  BY <1>1, DeliverFacts DEF TypeOK
<1>4. \/ UNCHANGED EnabledDrives
      \/ EnabledDrives' = EnabledDrives \union {idx}
  BY <1>1, <1>3 DEF EnabledDrives, Obey, TypeOK, BusTypeOK
<1>5. CASE UNCHANGED EnabledDrives
  BY <1>1, <1>2, <1>5 DEF FailClosed!failClosedVars
<1>6. CASE EnabledDrives' = EnabledDrives \union {idx}
  BY <1>1, <1>2, <1>6 DEF FailClosed!Next, FailClosed!Enable
<1> QED BY <1>4, <1>5, <1>6

\* A drive that stops being enabled, by 0xFD or by a fault it latched.
LEMMA DropRefines ==
  ASSUME TypeOK, UNCHANGED <<pc, verdict>>, NEW m \in Motors,
         NEW status \in Status \ {"on"},
         drive' \in {drive, [drive EXCEPT ![m] = status]}
  PROVE  [FailClosed!Next]_(FailClosed!failClosedVars)
<1>1. UNCHANGED RunPhase
  BY SamePcRefines
<1>2. UNCHANGED EnabledDrives \/ EnabledDrives' = EnabledDrives \ {m}
  BY DEF EnabledDrives, TypeOK, BusTypeOK
<1>3. CASE UNCHANGED EnabledDrives
  BY <1>1, <1>3 DEF FailClosed!failClosedVars
<1>4. CASE EnabledDrives' = EnabledDrives \ {m}
  BY <1>1, <1>4 DEF FailClosed!Next, FailClosed!Drop
<1> QED BY <1>2, <1>3, <1>4

\* A step within a phase is a stutter of FailClosedRun.
LEMMA StutterRefines ==
  ASSUME UNCHANGED <<drive, verdict>>, UNCHANGED RunPhase
  PROVE  [FailClosed!Next]_(FailClosed!failClosedVars)
  BY SameDrivesRefines DEF FailClosed!failClosedVars

\* A throw stops the run, or goes on stopping it.
LEMMA ThrowRefines ==
  ASSUME TypeOK, Throw, pc # "over", UNCHANGED drive
  PROVE  [FailClosed!Next]_(FailClosed!failClosedVars)
<1>1. UNCHANGED verdict /\ pc' \in Stopping
  BY DEF Throw, Stopping
<1>2. RunPhase' = "stopping"
  BY <1>1, PhaseOfNextPc
<1>3. CASE pc \in Stopping
  BY <1>1, <1>2, <1>3, PhaseOfPc, StutterRefines
<1>4. CASE pc \in Preparing \union Powered
  BY <1>1, <1>2, <1>4, PhaseOfPc, SameDrivesRefines
  DEF FailClosed!Next, FailClosed!Stop
<1> QED BY <1>3, <1>4 DEF TypeOK, ControlTypeOK

\* So is one to another place of the same phase.
LEMMA GotoRefines ==
  ASSUME NEW to, NEW s, Goto(to, s), UNCHANGED <<drive, verdict>>,
         \/ pc \in Preparing /\ to \in Preparing
         \/ pc \in Powered /\ to \in Powered
         \/ pc \in Stopping /\ to \in Stopping
  PROVE  [FailClosed!Next]_(FailClosed!failClosedVars)
<1>1. UNCHANGED RunPhase
  BY PhaseOfPc, PhaseOfNextPc DEF Goto
<1> QED BY <1>1, StutterRefines

\* The initial states are initial states of FailClosedRun.
LEMMA InitRefines == Init => FailClosed!Init
<1> SUFFICES ASSUME Init PROVE FailClosed!Init
  OBVIOUS
<1>1. pc \in Preparing /\ verdict = "none"
  BY DEF Init, Preparing
<1>2. EnabledDrives \in SUBSET Motors
  BY DEF EnabledDrives
<1> QED BY <1>1, <1>2, PhaseOfPc DEF FailClosed!Init

\* The preparation's answers show that no drive is enabled when it arms.
LEMMA ArmRefines ==
  ASSUME TypeOK, AnswersAreTrue, Prepared
  PROVE  [FailClosed!Next]_(FailClosed!failClosedVars)
<1>1. /\ pc = "prep_drain" /\ allSeen
      /\ Throw \/ (Goto("enable", 0) /\ UNCHANGED verdict)
  BY Zenon DEF Prepared, outcome
<1>2. UNCHANGED drive
  BY DEF Prepared, busVars
<1>3. CASE Throw
  BY <1>1, <1>2, <1>3, ThrowRefines
<1>4. CASE Goto("enable", 0) /\ UNCHANGED verdict
  <2>1. EnabledDrives = {}
    BY <1>1 DEF EnabledDrives, allSeen, AnswersAreTrue, SeenIsOff, Preparing
  <2>2. RunPhase = "waiting" /\ RunPhase' = "armed"
    BY <1>1, <1>4, PhaseOfPc, PhaseOfNextPc DEF Goto, Preparing, Powered
  <2> QED
    BY <1>2, <1>4, <2>1, <2>2, SameDrivesRefines
    DEF FailClosed!Next, FailClosed!Arm
<1> QED BY <1>1, <1>3, <1>4

\* "passed" needs finalDisabled of every motor, which needs a fresh "off".
LEMMA ReportRefines ==
  ASSUME TypeOK, AnswersAreTrue, Report
  PROVE  [FailClosed!Next]_(FailClosed!failClosedVars)
<1>1. /\ pc = "report" /\ pc' = "over" /\ UNCHANGED drive
      /\ verdict' \in {"passed", "not_passed"}
      /\ verdict' = "passed" => ~failed
  BY DEF Report, Goto, busVars
<1>2. RunPhase = "stopping" /\ RunPhase' = "over"
  BY <1>1, PhaseOfPc, PhaseOfNextPc DEF Stopping
<1>3. ~failed => EnabledDrives = {}
  BY <1>1
  DEF EnabledDrives, AnswersAreTrue, OffIsOff, ReportedOff, Stopping
<1> QED
  BY <1>1, <1>2, <1>3, SameDrivesRefines DEF FailClosed!Next, FailClosed!Report

\* Every step is a step of FailClosedRun or a stutter.
LEMMA NextRefines ==
  ASSUME TypeOK, AnswersAreTrue, [Next]_vars
  PROVE  [FailClosed!Next]_(FailClosed!failClosedVars)
<1> USE DEF busVars, outcome, control
<1>i. idx <= N => idx \in Motors
  BY ConstantTypes DEF TypeOK, ControlTypeOK, Motors
<1>0. ASSUME UNCHANGED <<pc, drive, verdict>>
      PROVE  [FailClosed!Next]_(FailClosed!failClosedVars)
  BY <1>0, SamePcRefines, StutterRefines
<1>1. CASE Drain
  BY <1>0, <1>1, ThrowRefines
  DEF Drain, Draining, AcceptAnswer, RefuseAnswer, GarbledAnswer, GuardTripped
<1>2. CASE SendPoll \/ SendCommand
  <2>1. ASSUME NEW frame \in {"poll", "command"}, idx \in Motors,
               Deliver(idx, frame)
        PROVE  drive' = drive
    <3>1. Obey(drive[idx], frame) = drive[idx]
      BY DEF Obey
    <3> QED BY <2>1, <3>1, DeliverFacts DEF TypeOK, BusTypeOK
  <2> QED BY <1>0, <1>2, <1>i, <2>1 DEF SendPoll, SendCommand
<1>3. CASE SendDisable
  <2>1. idx \in Motors /\ Deliver(idx, "disable") /\ UNCHANGED <<pc, verdict>>
    BY <1>3, <1>i DEF SendDisable
  <2>2. Obey(drive[idx], "disable") \in Status \ {"on"}
    BY <2>1 DEF Obey, TypeOK, BusTypeOK, Status
  <2>3. drive' \in {drive, [drive EXCEPT ![idx] = Obey(drive[idx], "disable")]}
    BY <2>1, DeliverFacts DEF TypeOK
  <2> QED BY <2>1, <2>2, <2>3, DropRefines
<1>4. ASSUME NEW m \in Motors, DriveTrips(m)
      PROVE  [FailClosed!Next]_(FailClosed!failClosedVars)
  <2>1. UNCHANGED <<pc, verdict>> /\ drive' = [drive EXCEPT ![m] = "trip"]
    BY <1>4 DEF DriveTrips, Trip
  <2> QED BY <2>1, DropRefines DEF Status
<1>5. CASE SendFails \/ PrepFails \/ ActiveSlotFails \/ PublishFails
  BY <1>5, ThrowRefines DEF SendFails, PrepFails, ActiveSlotFails, PublishFails
<1>6. CASE StartDrain
  <2>1. RunPhase' = RunPhase
    BY <1>6, PhaseOfPc, PhaseOfNextPc
    DEF StartDrain, Preparing, Powered, Stopping
  <2> QED BY <1>6, <2>1, StutterRefines DEF StartDrain
<1>7. CASE PrepSlot \/ PrepContinue
  BY <1>7, ThrowRefines, GotoRefines DEF PrepSlot, PrepContinue, Preparing
<1>8. CASE EnableDone \/ ActiveEnd \/ ActiveContinue
  BY <1>8, ThrowRefines, GotoRefines
  DEF EnableDone, ActiveEnd, ActiveContinue, Powered
<1>9. CASE ActiveSlot
  BY <1>9, ThrowRefines, GotoRefines DEF ActiveSlot, Powered
<1>10. CASE Settle
  <2>1. ASSUME Goto("disable", 0), pc = "settle", UNCHANGED <<drive, verdict>>
        PROVE  [FailClosed!Next]_(FailClosed!failClosedVars)
    <3>1. RunPhase = "armed" /\ RunPhase' = "stopping"
      BY <2>1, PhaseOfPc, PhaseOfNextPc DEF Goto, Powered, Stopping
    <3> QED
      BY <2>1, <3>1, SameDrivesRefines DEF FailClosed!Next, FailClosed!Stop
  <2> QED BY <1>10, <2>1, ThrowRefines DEF Settle
<1>11. CASE NextPass \/ Signal \/ UNCHANGED vars
  BY <1>0, <1>11 DEF NextPass, Signal, vars
<1>12. CASE StartVerify \/ VerifyContinue \/ VerifyDone
  BY <1>12, ThrowRefines, GotoRefines
  DEF StartVerify, VerifyContinue, VerifyDone, Stopping
<1> QED
  BY <1>1, <1>2, <1>3, <1>4, <1>5, <1>6, <1>7, <1>8, <1>9, <1>10, <1>11,
     <1>12, EnableRefines, ArmRefines, ReportRefines
  DEF Next, Controller, Environment, Write, Preparation, Active, Shutdown

(***************************************************************************)
(* The controller of sprite_can_shadow.cpp is fail-closed whatever the     *)
(* bus loses, the drives do, the client sends and a signal interrupts: it  *)
(* arms only disabled drives, enables none once it stops, and reports      *)
(* "passed" only when none is enabled.                                     *)
(***************************************************************************)
THEOREM FailClosedRefined == Spec => ImplementsFailClosedRun
<1>1. Init => FailClosed!Init
  BY InitRefines
<1>2. (TypeOK /\ AnswersAreTrue) /\ [Next]_vars
        => [FailClosed!Next]_(FailClosed!failClosedVars)
  BY NextRefines
<1> QED
  BY <1>1, <1>2, AnswersStayTrue, PTL
  DEF Spec, ImplementsFailClosedRun, FailClosed!Spec

==============================================================================
