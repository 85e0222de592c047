---------------------------- MODULE CanDrivesProofs ---------------------------
(***************************************************************************)
(* What a write and a read do to the drives and their answers: the lemmas  *)
(* the proofs about every controller rest on.                              *)
(***************************************************************************)
EXTENDS CanDrives, TLAPS

\* A drive that obeys a frame still has one of the three statuses.
LEMMA ObeyType ==
  ASSUME NEW status \in Status, NEW frame
  PROVE  Obey(status, frame) \in Status
  BY DEF Obey, Status

\* What one accepted write does to the drives, their answers and the losses:
\* the drive obeys and its answer may be kept, or the frame is lost.
LEMMA DeliverFacts ==
  ASSUME BusTypeOK, NEW m \in Motors, NEW frame, Deliver(m, frame)
  PROVE  /\ BusTypeOK'
         /\ \/ /\ drive' = [drive EXCEPT ![m] = Obey(drive[m], frame)]
               /\ rx' \in {rx, [rx EXCEPT ![m] =
                                  Append(rx[m], Obey(drive[m], frame))]}
            \/ drive' = drive /\ rx' = rx /\ lost' = lost + 1
         /\ lost' >= lost
<1> USE LossAssumption DEF BusTypeOK
<1>1. Obey(drive[m], frame) \in Status
  BY ObeyType
<1>2. CASE Answered(m, frame)
  <2>1. drive' = [drive EXCEPT ![m] = Obey(drive[m], frame)]
    BY <1>2 DEF Answered
  <2>2. drive'[m] = Obey(drive[m], frame)
    BY <2>1
  <2>3. rx' = [rx EXCEPT ![m] = Append(rx[m], Obey(drive[m], frame))]
    BY <1>2, <2>2 DEF Answered
  <2> QED BY <1>1, <1>2, <2>1, <2>3 DEF Answered
<1>3. CASE Overrun(m, frame)
  BY <1>1, <1>3 DEF Overrun
<1>4. CASE AnswerLost(m, frame)
  BY <1>1, <1>4 DEF AnswerLost
<1>5. CASE FrameLost(m)
  BY <1>1, <1>5 DEF FrameLost
<1> QED BY <1>2, <1>3, <1>4, <1>5 DEF Deliver

\* Reading an answer removes the oldest one.
LEMMA TakeFacts ==
  ASSUME rx \in [Motors -> Seq(Status)], NEW m \in Motors, TakeAnswer(m)
  PROVE  /\ rx' \in [Motors -> Seq(Status)]
         /\ Head(rx[m]) \in Status
         /\ Len(rx[m]) >= 1 /\ Head(rx[m]) = rx[m][1]
         /\ rx' = [rx EXCEPT ![m] = Tail(rx[m])]
         /\ Len(Tail(rx[m])) = Len(rx[m]) - 1
         /\ \A i \in 1..(Len(rx[m]) - 1) : Tail(rx[m])[i] = rx[m][i + 1]
  BY DEF TakeAnswer

\* A step that leaves the buses alone keeps their types.
LEMMA BusSame == ASSUME BusTypeOK, UNCHANGED busVars PROVE BusTypeOK'
  BY DEF BusTypeOK, busVars

\* A write to motor k changes no other motor, adds at most one answer, and that
\* answer is "off" only if the drive is off now.
LEMMA DeliverEffect ==
  ASSUME BusTypeOK, NEW k \in Motors, NEW frame, Deliver(k, frame)
  PROVE  /\ BusTypeOK'
         /\ \A m \in Motors \ {k} : drive'[m] = drive[m] /\ rx'[m] = rx[m]
         /\ drive'[k] \in {drive[k], Obey(drive[k], frame)}
         /\ Len(rx'[k]) \in {Len(rx[k]), Len(rx[k]) + 1}
         /\ Waiting(k, "off")' => Waiting(k, "off") \/ drive'[k] = "off"
<1> USE DEF BusTypeOK
<1>1. BusTypeOK'
  BY DeliverFacts
<1>2. CASE drive' = drive /\ rx' = rx
  BY <1>1, <1>2 DEF Waiting
<1>3. CASE /\ drive' = [drive EXCEPT ![k] = Obey(drive[k], frame)]
           /\ rx' = rx
  BY <1>1, <1>3 DEF Waiting
<1>4. CASE /\ drive' = [drive EXCEPT ![k] = Obey(drive[k], frame)]
           /\ rx' = [rx EXCEPT ![k] = Append(rx[k], Obey(drive[k], frame))]
  <2>1. /\ drive'[k] = Obey(drive[k], frame)
        /\ rx'[k] = Append(rx[k], drive'[k])
        /\ \A m \in Motors \ {k} : drive'[m] = drive[m] /\ rx'[m] = rx[m]
    BY <1>4
  <2>2. rx[k] \in Seq(Status)
    OBVIOUS
  <2>3. Len(rx'[k]) = Len(rx[k]) + 1
    BY <2>1, <2>2
  <2>4. ASSUME NEW i \in 1..Len(rx'[k]), rx'[k][i] = "off", drive'[k] # "off"
        PROVE  i \in 1..Len(rx[k]) /\ rx[k][i] = "off"
    BY <2>1, <2>2, <2>4
  <2> QED BY <1>1, <2>1, <2>3, <2>4 DEF Waiting
<1> QED BY <1>2, <1>3, <1>4, DeliverFacts

\* Reading an answer of motor k changes no other motor; the answer was waiting,
\* and what waits after it waited before.
LEMMA TakeEffect ==
  ASSUME BusTypeOK, NEW k \in Motors, TakeAnswer(k)
  PROVE  /\ rx' \in [Motors -> Seq(Status)]
         /\ \A m \in Motors \ {k} : rx'[m] = rx[m]
         /\ Len(rx'[k]) = Len(rx[k]) - 1
         /\ Head(rx[k]) \in Status
         /\ Waiting(k, Head(rx[k]))
         /\ \A status : Waiting(k, status)' => Waiting(k, status)
<1> USE DEF BusTypeOK
<1>1. /\ rx' \in [Motors -> Seq(Status)]
      /\ Head(rx[k]) \in Status
      /\ Len(rx[k]) \in Nat /\ Len(rx[k]) >= 1 /\ Head(rx[k]) = rx[k][1]
      /\ rx' = [rx EXCEPT ![k] = Tail(rx[k])]
      /\ Len(Tail(rx[k])) = Len(rx[k]) - 1
      /\ \A i \in 1..(Len(rx[k]) - 1) : Tail(rx[k])[i] = rx[k][i + 1]
  BY TakeFacts
<1>2. rx'[k] = Tail(rx[k]) /\ Len(rx'[k]) = Len(rx[k]) - 1
  BY <1>1
<1>3. Waiting(k, Head(rx[k]))
  BY <1>1 DEF Waiting
<1>4. ASSUME NEW status, NEW i \in 1..Len(rx'[k]), rx'[k][i] = status
      PROVE  Waiting(k, status)
  <2>1. i + 1 \in 1..Len(rx[k]) /\ rx[k][i + 1] = status
    BY <1>1, <1>2, <1>4
  <2> QED BY <2>1 DEF Waiting
<1> QED BY <1>1, <1>2, <1>3, <1>4 DEF Waiting

\* Answers of a motor whose queue did not change wait as before.
LEMMA WaitingSame ==
  ASSUME NEW m, rx'[m] = rx[m], NEW status
  PROVE  Waiting(m, status)' <=> Waiting(m, status)
  BY DEF Waiting

--------------------------------------------------------------------------------
(* The same, as a relation of one motor's state to the next.               *)

\* The unread answers of m stay, lose the oldest, or gain the drive's status.
RxStep(m) ==
  \/ rx'[m] = rx[m]
  \/ rx[m] # <<>> /\ rx'[m] = Tail(rx[m])
  \/ rx'[m] = Append(rx[m], drive'[m])

\* An answer waits only if it waited before or is the drive's status now.
LEMMA WaitingStep ==
  ASSUME NEW m, rx[m] \in Seq(Status), RxStep(m), NEW status, Waiting(m, status)'
  PROVE  Waiting(m, status) \/ drive'[m] = status
<1>2. PICK i \in 1..Len(rx'[m]) : rx'[m][i] = status
  BY DEF Waiting
<1>3. CASE rx'[m] = rx[m]
  BY <1>2, <1>3 DEF Waiting
<1>4. CASE rx[m] # <<>> /\ rx'[m] = Tail(rx[m])
  <2>1. i + 1 \in 1..Len(rx[m]) /\ rx[m][i + 1] = status
    BY <1>2, <1>4
  <2> QED BY <2>1 DEF Waiting
<1>5. CASE rx'[m] = Append(rx[m], drive'[m])
  BY <1>2, <1>5 DEF Waiting
<1> QED BY <1>3, <1>4, <1>5 DEF RxStep

\* A write makes such a step of every motor, and only the one it is for obeys.
LEMMA DeliverSteps ==
  ASSUME BusTypeOK, NEW k \in Motors, NEW frame, Deliver(k, frame)
  PROVE  /\ \A m \in Motors : RxStep(m)
         /\ \A m \in Motors \ {k} : drive'[m] = drive[m]
         /\ drive'[k] \in {drive[k], Obey(drive[k], frame)}
<1>1. CASE /\ drive' = [drive EXCEPT ![k] = Obey(drive[k], frame)]
           /\ rx' \in {rx, [rx EXCEPT ![k] = Append(rx[k], Obey(drive[k], frame))]}
  <2>1. drive'[k] = Obey(drive[k], frame)
    BY <1>1 DEF BusTypeOK
  <2>2. ASSUME NEW m \in Motors PROVE RxStep(m)
    BY <1>1, <2>1 DEF BusTypeOK, RxStep
  <2> QED BY <1>1, <2>1, <2>2 DEF BusTypeOK
<1>2. CASE drive' = drive /\ rx' = rx
  BY <1>2 DEF RxStep
<1> QED BY <1>1, <1>2, DeliverFacts

\* So does a read.
LEMMA TakeSteps ==
  ASSUME BusTypeOK, NEW k \in Motors, TakeAnswer(k)
  PROVE  \A m \in Motors : RxStep(m)
  BY DEF TakeAnswer, RxStep, BusTypeOK

\* No "off" waits behind an "on".
OffBeforeOn(answers) ==
  \A i, j \in 1..Len(answers) : i < j /\ answers[i] = "on" => answers[j] # "off"

\* A step keeps that order unless the drive goes off while an "on" waits.
LEMMA OrderStep ==
  ASSUME NEW m, rx[m] \in Seq(Status), RxStep(m), OffBeforeOn(rx[m]),
         drive'[m] = "off" => ~Waiting(m, "on")
  PROVE  OffBeforeOn(rx'[m])
<1> SUFFICES ASSUME NEW i \in 1..Len(rx'[m]), NEW j \in 1..Len(rx'[m]),
                    i < j, rx'[m][i] = "on"
             PROVE  rx'[m][j] # "off"
  BY DEF OffBeforeOn
<1>1. CASE rx'[m] = rx[m]
  BY <1>1 DEF OffBeforeOn
<1>2. CASE rx[m] # <<>> /\ rx'[m] = Tail(rx[m])
  <2>1. /\ Len(rx'[m]) = Len(rx[m]) - 1
        /\ \A n \in 1..Len(rx'[m]) : rx'[m][n] = rx[m][n + 1]
    BY <1>2
  <2>2. i + 1 \in 1..Len(rx[m]) /\ j + 1 \in 1..Len(rx[m]) /\ i + 1 < j + 1
    BY <2>1
  <2> QED BY <2>1, <2>2 DEF OffBeforeOn
<1>3. CASE rx'[m] = Append(rx[m], drive'[m])
  <2>1. /\ Len(rx'[m]) = Len(rx[m]) + 1
        /\ rx'[m][Len(rx[m]) + 1] = drive'[m]
        /\ \A n \in 1..Len(rx[m]) : rx'[m][n] = rx[m][n]
    BY <1>3
  <2>2. i \in 1..Len(rx[m]) /\ rx[m][i] = "on"
    BY <2>1
  <2>3. CASE j = Len(rx[m]) + 1
    BY <2>1, <2>2, <2>3 DEF Waiting
  <2>4. CASE j # Len(rx[m]) + 1
    <3>1. j \in 1..Len(rx[m])
      BY <2>1, <2>4
    <3> QED BY <2>1, <2>2, <3>1 DEF OffBeforeOn
  <2> QED BY <2>3, <2>4
<1> QED BY <1>1, <1>2, <1>3 DEF RxStep

==============================================================================
