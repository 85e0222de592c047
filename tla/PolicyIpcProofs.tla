---------------------------- MODULE PolicyIpcProofs ----------------------------
(***************************************************************************)
(* Theorems about PolicyIpc, for every schedule, every limit and every     *)
(* interleaving of the controller and the actor.                           *)
(***************************************************************************)
EXTENDS PolicyIpc, TLAPS

--------------------------------------------------------------------------------
(* Type correctness.                                                       *)

\* The assumptions, as the provers need them.
LEMMA ConstantTypes ==
  /\ Period \in Nat /\ Period >= 1 /\ PrepTicks \in Nat
  /\ ActiveStates \in Nat /\ ActiveStates >= 1
  /\ GapTicks \in Nat /\ MaxAge \in Nat /\ TargetTimeout \in Nat /\ MaxLag \in Nat
  /\ Count \in Nat /\ Count = 1 + ActiveStates /\ Slots \in Int
  BY ScheduleAssumption DEF Count, Slots, ActiveSlots

\* A tick moves the clock by one.
LEMMA TickTypes ==
  ASSUME TypeOK, Tick
  PROVE  now' \in Nat /\ late' \in BOOLEAN
<1>1. now' \in Nat
  BY DEF TypeOK, Tick
<1>2. late' \in BOOLEAN
  BY Zenon DEF Tick
<1> QED BY <1>1, <1>2

\* At first nothing is under way.
LEMMA InitTypeOK == Init => TypeOK
<1> SUFFICES ASSUME Init PROVE TypeOK
  OBVIOUS
<1>1. {heard, late} \subseteq BOOLEAN
  BY Zenon DEF Init
<1>2. current \in State /\ target \in Target
  BY DEF Init, NoState, NoTarget, State, Target
<1>3. toActor \in Seq(State) /\ toController \in Seq(Target)
  BY DEF Init
<1> QED BY <1>1, <1>2, <1>3, ConstantTypes DEF Init, TypeOK

\* A slot that publishes, or its failure, keeps the types.
LEMMA PublishTypes ==
  ASSUME TypeOK, NEW h \in BOOLEAN, Publish(h)
  PROVE  /\ now' \in Nat /\ late' \in BOOLEAN /\ states' \in Nat
         /\ early' \in Nat /\ skipped' \in Nat /\ step' = "drain"
         /\ toActor' \in Seq(State)
<1>1. now' \in Nat /\ late' \in BOOLEAN
  BY TickTypes DEF Publish
<1>2. states' \in Nat
  BY DEF Publish, TypeOK
<1>3. toActor' \in Seq(State)
  <2>1. [sequence |-> states', stamp |-> now] \in State
    BY <1>2 DEF TypeOK, State
  <2>2. toActor \in Seq(State)
    BY DEF TypeOK
  <2>3. \/ toActor' = toActor
        \/ toActor' = Append(toActor, [sequence |-> states', stamp |-> now])
    BY DEF Publish
  <2> QED BY <2>1, <2>2, <2>3
<1>4. early' \in Nat /\ skipped' \in Nat /\ step' = "drain"
  BY <1>2 DEF Publish, TypeOK
<1> QED BY <1>1, <1>2, <1>3, <1>4

\* Draining leaves a target of the ones under way, or the one before.
LEMMA DrainTypes ==
  ASSUME TypeOK, Drain
  PROVE  target' \in Target /\ toController' \in Seq(Target)
  BY DEF Drain, TypeOK

\* The actor's steps keep the types; it never answers more than Count states.
LEMMA ActorTypes ==
  ASSUME TypeOK, EndInOrder, Actor \/ ActorFails
  PROVE  TypeOK'
<1> USE ConstantTypes DEF TypeOK, controller, history
<1>1. ASSUME NEW cause \in {"gone", "stale", "timeout", "extra",
                            "close_timeout", "other"},
             Fault(cause)
      PROVE  TypeOK'
  BY <1>1 DEF Fault
<1>2. CASE ReceiveFails \/ ComputeFails \/ SendFails \/ AwaitFails \/ ActorFails
  BY <1>1, <1>2 DEF ReceiveFails, ComputeFails, SendFails, AwaitFails, ActorFails
<1>3. CASE Receive
  BY <1>3 DEF Receive
<1>4. CASE Compute
  BY <1>4 DEF Compute
<1>5. CASE Send
  <2>1. toController' \in Seq(Target)
    BY <1>5 DEF Send, State, Target
  <2> QED BY <1>5, <2>1 DEF Send, EndInOrder
<1>6. CASE AwaitClosed
  BY <1>6 DEF AwaitClosed
<1> QED BY <1>2, <1>3, <1>4, <1>5, <1>6 DEF Actor

\* An exception leaves the types; so does what it took from the channel.
LEMMA ThrowTypes ==
  ASSUME TypeOK, NEW cause \in {"lag", "stale", "gone", "watchdog", "other"},
         Throw(cause), toController' \in Seq(Target)
  PROVE  TypeOK'
  BY DEF TypeOK, Throw, actorVars, history

\* The controller's steps keep the types.
LEMMA ControllerTypes ==
  ASSUME TypeOK, Controller \/ ControllerFails
  PROVE  TypeOK'
<1> USE ConstantTypes
<1>1. CASE DrainRefuses
  <2>1. PICK i \in 1..Len(toController) :
          /\ Throw(IF Lagging(toController[i]) THEN "lag" ELSE "stale")
          /\ toController' = SubSeq(toController, i + 1, Len(toController))
    BY <1>1 DEF DrainRefuses
  <2>2. toController' \in Seq(Target)
    BY <2>1 DEF TypeOK
  <2> QED BY <2>1, <2>2, ThrowTypes
<1>2. CASE DrainDisconnected \/ PublishFails
  <2>1. Throw("gone") /\ UNCHANGED toController
    BY <1>2 DEF DrainDisconnected, PublishFails
  <2> QED BY <2>1, ThrowTypes DEF TypeOK
<1>3. CASE SlotBegins \/ Watchdog
  <2>1. target' \in Target /\ toController' \in Seq(Target)
    BY <1>3, DrainTypes DEF SlotBegins, Watchdog
  <2> QED BY <1>3, <2>1 DEF SlotBegins, Watchdog, TypeOK, actorVars, history
<1>4. CASE PrepareOn \/ SlotEnds
  <2>1. PICK h \in {heard, TRUE} : Publish(h) /\ heard' = h
    BY <1>4 DEF PrepareOn, SlotEnds
  <2>2. h \in BOOLEAN
    BY DEF TypeOK
  <2>3. /\ now' \in Nat /\ late' \in BOOLEAN /\ states' \in Nat
        /\ early' \in Nat /\ skipped' \in Nat /\ step' = "drain"
        /\ toActor' \in Seq(State)
    BY <2>1, <2>2, PublishTypes
  <2>4. heard' \in BOOLEAN
    BY <2>1, <2>2, Zenon
  <2>5. /\ slot' \in Int /\ phase' \in {"prepare", "active"}
        /\ UNCHANGED <<target, stop, actorVars, toController>>
    <3>1. CASE PrepareOn
      BY <3>1 DEF PrepareOn, TypeOK, actorVars
    <3>2. CASE SlotEnds
      BY <3>2 DEF SlotEnds, TypeOK, actorVars
    <3> QED BY <1>4, <3>1, <3>2
  <2> QED BY <2>3, <2>4, <2>5 DEF TypeOK, actorVars
<1>5. CASE Prepared
  <2>1. heard \in BOOLEAN
    BY DEF TypeOK
  <2>2. Publish(heard)
    BY <1>5 DEF Prepared
  <2>3. /\ now' \in Nat /\ late' \in BOOLEAN /\ states' \in Nat
        /\ early' \in Nat /\ skipped' \in Nat /\ step' = "drain"
        /\ toActor' \in Seq(State)
    BY <2>1, <2>2, PublishTypes
  <2>4. heard' \in BOOLEAN
    BY <1>5, Zenon DEF Prepared
  <2>5. /\ slot' \in Int /\ phase' \in {"prepare", "active"}
        /\ UNCHANGED <<target, stop, actorVars, toController>>
    BY <1>5, ConstantTypes DEF Prepared
  <2> QED BY <2>3, <2>4, <2>5 DEF TypeOK, actorVars
<1>6. CASE Gap \/ ShutdownOn
  <2>1. now' \in Nat /\ late' \in BOOLEAN
    BY <1>6, TickTypes DEF Gap, ShutdownOn
  <2> QED BY <1>6, <2>1 DEF Gap, ShutdownOn, TypeOK, actorVars
<1>7. CASE LoopEnds \/ Close
  BY <1>7 DEF LoopEnds, Close, TypeOK, actorVars, history
<1>8. CASE ControllerFails
  <2>1. CASE Throw("other")
    BY <1>8, <2>1, ThrowTypes DEF ControllerFails, TypeOK
  <2>2. CASE ~Throw("other")
    BY <1>8, <2>2 DEF ControllerFails, TypeOK, actorVars, history
  <2> QED BY <2>1, <2>2
<1> QED
  BY <1>1, <1>2, <1>3, <1>4, <1>5, <1>6, <1>7, <1>8 DEF Controller

--------------------------------------------------------------------------------
(* The order of the channel, one part at a time.                           *)

\* What the controller takes, it takes from the front of the channel.
Taken(k) ==
  /\ Len(toController') = Len(toController) - k
  /\ \A i \in 1..(Len(toController) - k) : toController'[i] = toController[i + k]

\* A step of the controller takes nothing, some targets when it fails, or all.
LEMMA ControllerTakes ==
  ASSUME TypeOK, Controller \/ ControllerFails
  PROVE  /\ \E k \in 0..Len(toController) : Taken(k)
         /\ \/ toController' = toController /\ target' = target
            \/ phase' \in {"shutdown", "closed"}
            \/ Drain
         /\ target' = target \/ Drain
<1>0. toController \in Seq(Target) /\ Len(toController) \in Nat
  BY DEF TypeOK
<1>1. CASE UNCHANGED <<toController, target>>
  <2>1. Taken(0)
    BY <1>0, <1>1 DEF Taken
  <2> QED BY <1>0, <1>1, <2>1
<1>2. CASE Drain
  <2>1. Taken(Len(toController))
    BY <1>0, <1>2 DEF Taken, Drain
  <2> QED BY <1>0, <1>2, <2>1
<1>3. CASE DrainRefuses
  <2>1. PICK i \in 1..Len(toController) :
          toController' = SubSeq(toController, i + 1, Len(toController))
    BY <1>3 DEF DrainRefuses
  <2>2. Taken(i)
    BY <1>0, <2>1 DEF Taken
  <2>3. phase' = "shutdown" /\ target' = target
    BY <1>3 DEF DrainRefuses, Throw
  <2> QED BY <1>0, <2>2, <2>3
<1>4. CASE SlotBegins \/ Watchdog
  BY <1>2, <1>4 DEF SlotBegins, Watchdog
<1>5. CASE \/ DrainDisconnected \/ PrepareOn \/ Prepared \/ Gap \/ SlotEnds
           \/ PublishFails \/ LoopEnds \/ ShutdownOn \/ Close \/ ControllerFails
  BY <1>1, <1>5
  DEF DrainDisconnected, PrepareOn, Prepared, Gap, SlotEnds, PublishFails,
      LoopEnds, ShutdownOn, Close, ControllerFails, Throw
<1> QED BY <1>3, <1>4, <1>5 DEF Controller

\* A step of the controller sends nothing, or the next state.
LEMMA ControllerPublishes ==
  ASSUME TypeOK, StepsInOrder, Controller \/ ControllerFails
  PROVE  /\ UNCHANGED actorVars
         /\ \/ UNCHANGED <<states, toActor>>
            \/ /\ phase # "closed" /\ states' = states + 1
               /\ toActor' =
                    Append(toActor, [sequence |-> states + 1, stamp |-> now])
<1>1. ASSUME NEW h, Publish(h)
      PROVE  \/ UNCHANGED <<states, toActor>>
             \/ /\ phase # "closed" /\ states' = states + 1
                /\ toActor' =
                     Append(toActor, [sequence |-> states + 1, stamp |-> now])
  BY <1>1 DEF Publish, StepsInOrder
<1>2. CASE PrepareOn \/ Prepared \/ SlotEnds
  BY <1>1, <1>2 DEF PrepareOn, Prepared, SlotEnds
<1>3. CASE \/ DrainRefuses \/ DrainDisconnected \/ SlotBegins \/ Watchdog \/ Gap
           \/ PublishFails \/ LoopEnds \/ ShutdownOn \/ Close \/ ControllerFails
  BY <1>3
  DEF DrainRefuses, DrainDisconnected, SlotBegins, Watchdog, Gap, PublishFails,
      LoopEnds, ShutdownOn, Close, ControllerFails, Throw
<1> QED BY <1>2, <1>3 DEF Controller

\* A failure of the actor leaves the rest alone.
LEMMA FaultEffect ==
  ASSUME ReceiveFails \/ ComputeFails \/ SendFails \/ AwaitFails \/ ActorFails
  PROVE  /\ actor' = "fault" /\ since' = now
         /\ UNCHANGED <<current, stamp, answered, now, controller, toActor,
                        toController, history>>
  BY DEF ReceiveFails, ComputeFails, SendFails, AwaitFails, ActorFails, Fault

\* Targets are sent in the order of their states and taken from the front.
LEMMA TargetsStep ==
  ASSUME TypeOK, StepsInOrder, StatesInOrder, TargetsInOrder, [Next]_vars
  PROVE  TargetsInOrder'
<1>0. /\ answered \in Nat /\ toController \in Seq(Target)
      /\ Len(toController) \in Nat
      /\ phase \in {"prepare", "active", "shutdown", "closed"}
  BY DEF TypeOK
<1>1. CASE UNCHANGED <<answered, phase, target, toController>>
  BY <1>1 DEF TargetsInOrder
<1>2. CASE Controller \/ ControllerFails
  <2>1. answered' = answered
    BY <1>2, ControllerPublishes DEF actorVars
  <2>2. PICK k \in 0..Len(toController) : Taken(k)
    BY <1>2, ControllerTakes
  <2>3. \A j \in DOMAIN toController' :
          toController'[j].source = answered' - Len(toController') + j
    <3>1. toController' \in Seq(Target)
      BY <1>2, ControllerTypes DEF TypeOK
    <3>2. TAKE j \in DOMAIN toController'
    <3>3. /\ j \in 1..(Len(toController) - k) /\ j + k \in DOMAIN toController
          /\ toController'[j] = toController[j + k]
      <4>1. j \in 1..Len(toController')
        BY <3>1
      <4>2. j \in 1..(Len(toController) - k)
        BY <2>2, <4>1 DEF Taken
      <4>3. j + k \in 1..Len(toController)
        BY <1>0, <4>2
      <4> QED BY <1>0, <2>2, <4>2, <4>3 DEF Taken
    <3>4. toController[j + k].source = answered - Len(toController) + (j + k)
      BY <3>3 DEF TargetsInOrder
    <3> QED BY <1>0, <2>1, <2>2, <3>3, <3>4 DEF Taken
  <2>4. phase' \in {"prepare", "active"} =>
          target'.source = answered' - Len(toController')
    <3>1. SUFFICES ASSUME phase' \in {"prepare", "active"}
                   PROVE  target'.source = answered' - Len(toController')
      OBVIOUS
    <3>2. phase \in {"prepare", "active"}
      BY <1>2, <3>1
      DEF Controller, ControllerFails, DrainRefuses, DrainDisconnected,
          SlotBegins, Watchdog, PrepareOn, Prepared, Gap, SlotEnds,
          PublishFails, LoopEnds, ShutdownOn, Close, Throw, Drain, Draining
    <3>3. target.source = answered - Len(toController)
      BY <3>2 DEF TargetsInOrder
    <3>4. CASE Drain
      <4>1. CASE toController = <<>>
        BY <1>0, <2>1, <3>3, <3>4, <4>1 DEF Drain
      <4>2. CASE toController # <<>>
        <5>1. Len(toController) \in DOMAIN toController
          BY <1>0, <4>2
        <5>2. toController[Len(toController)].source = answered
          BY <1>0, <5>1 DEF TargetsInOrder
        <5> QED BY <1>0, <2>1, <3>4, <4>2, <5>2 DEF Drain
      <4> QED BY <4>1, <4>2
    <3>5. CASE toController' = toController /\ target' = target
      BY <2>1, <3>3, <3>5
    <3> QED BY <1>2, <3>1, <3>4, <3>5, ControllerTakes
  <2> QED BY <2>3, <2>4 DEF TargetsInOrder
<1>3. CASE Send
  <2>1. current.sequence = answered + 1
    BY <1>3 DEF Send, StatesInOrder, ActorOver, Busy
  <2>2. PICK t \in Target : /\ t.source = answered + 1
                            /\ toController' = Append(toController, t)
    <3>1. [source |-> current.sequence, sourced |-> current.stamp,
           stamp |-> stamp] \in Target
      BY DEF TypeOK, State, Target
    <3> QED BY <1>3, <2>1, <3>1 DEF Send
  <2>3. /\ answered' = answered + 1 /\ phase' = phase /\ target' = target
    BY <1>3 DEF Send, controller
  <2>4. \A j \in DOMAIN toController' :
          toController'[j].source = answered' - Len(toController') + j
    <3>1. TAKE j \in DOMAIN toController'
    <3>2. CASE j = Len(toController) + 1
      BY <1>0, <2>2, <2>3, <3>2
    <3>3. CASE j # Len(toController) + 1
      <4>1. j \in DOMAIN toController /\ toController'[j] = toController[j]
        BY <1>0, <2>2, <3>3
      <4> QED BY <1>0, <2>2, <2>3, <4>1 DEF TargetsInOrder
    <3> QED BY <3>2, <3>3
  <2> QED BY <1>0, <2>2, <2>3, <2>4 DEF TargetsInOrder
<1>4. CASE \/ Receive \/ Compute \/ AwaitClosed
  BY <1>1, <1>4 DEF Receive, Compute, AwaitClosed, controller
<1>5. CASE ReceiveFails \/ ComputeFails \/ SendFails \/ AwaitFails \/ ActorFails
  BY <1>1, <1>5, FaultEffect DEF controller
<1>6. CASE UNCHANGED vars
  BY <1>1, <1>6 DEF vars, controller, actorVars
<1> QED
  BY <1>2, <1>3, <1>4, <1>5, <1>6 DEF Next, Actor

\* States are published in order and answered in order, while the actor runs.
LEMMA StatesStep ==
  ASSUME TypeOK, StepsInOrder, StatesInOrder, [Next]_vars
  PROVE  StatesInOrder'
<1>0. /\ answered \in Nat /\ states \in Nat
      /\ toActor \in Seq(State) /\ Len(toActor) \in Nat
      /\ actor \in {"receive", "compute", "send", "await", "ok", "fault"}
  BY DEF TypeOK
<1>1. CASE UNCHANGED <<actor, states, answered, current, toActor>>
  BY <1>1 DEF StatesInOrder, ActorOver, Busy
<1>2. CASE ActorOver'
  BY <1>2 DEF StatesInOrder
<1>3. CASE Controller \/ ControllerFails
  <2>1. UNCHANGED <<actor, answered, current>>
    BY <1>3, ControllerPublishes DEF actorVars
  <2>2. CASE UNCHANGED <<states, toActor>>
    BY <1>1, <2>1, <2>2
  <2>3. CASE /\ states' = states + 1
             /\ toActor' =
                  Append(toActor, [sequence |-> states + 1, stamp |-> now])
    <3>1. PICK s \in State : /\ s.sequence = states + 1
                             /\ toActor' = Append(toActor, s)
      <4>1. [sequence |-> states + 1, stamp |-> now] \in State
        BY DEF TypeOK, State
      <4> QED BY <2>3, <4>1
    <3>2. SUFFICES ASSUME ~ActorOver
                   PROVE  /\ Len(toActor') = states' - answered - Busy
                          /\ Busy = 1 => current.sequence = answered + 1
                          /\ \A i \in DOMAIN toActor' :
                               toActor'[i].sequence = answered + Busy + i
      BY <2>1 DEF StatesInOrder, ActorOver, Busy
    <3>3. /\ Len(toActor) = states - answered - Busy
          /\ Busy = 1 => current.sequence = answered + 1
          /\ Busy \in {0, 1}
      BY <3>2 DEF StatesInOrder, Busy
    <3>4. ASSUME NEW i \in DOMAIN toActor'
          PROVE  toActor'[i].sequence = answered + Busy + i
      <4>1. CASE i = Len(toActor) + 1
        BY <1>0, <3>1, <3>3, <4>1
      <4>2. CASE i # Len(toActor) + 1
        <5>1. i \in DOMAIN toActor /\ toActor'[i] = toActor[i]
          BY <1>0, <3>1, <4>2
        <5> QED BY <3>2, <5>1 DEF StatesInOrder
      <4> QED BY <4>1, <4>2
    <3> QED BY <1>0, <2>3, <3>1, <3>3, <3>4
  <2> QED BY <1>3, <2>2, <2>3, ControllerPublishes
<1>4. CASE Receive
  <2>1. /\ ~ActorOver /\ Busy = 0 /\ toActor # <<>> /\ ActorOver' = FALSE
        /\ Busy' = 1 /\ current' = toActor[1] /\ toActor' = Tail(toActor)
        /\ UNCHANGED <<answered, states>>
    BY <1>0, <1>4 DEF Receive, controller, ActorOver, Busy
  <2>2. /\ Len(toActor) = states - answered
        /\ \A i \in DOMAIN toActor : toActor[i].sequence = answered + i
    BY <1>0, <2>1 DEF StatesInOrder
  <2>3. current'.sequence = answered + 1
    BY <1>0, <2>1, <2>2
  <2>4. Len(toActor') = states - answered - 1
    BY <1>0, <2>1, <2>2
  <2>5. ASSUME NEW i \in DOMAIN toActor'
        PROVE  toActor'[i].sequence = answered + 1 + i
    <3>1. /\ i + 1 \in DOMAIN toActor /\ toActor'[i] = toActor[i + 1] /\ i \in Nat
      BY <1>0, <2>1
    <3> QED BY <1>0, <2>2, <3>1
  <2> QED BY <2>1, <2>3, <2>4, <2>5 DEF StatesInOrder
<1>5. CASE Compute
  BY <1>5 DEF Compute, controller, StatesInOrder, ActorOver, Busy
<1>6. CASE Send
  <2>1. /\ ~ActorOver /\ Busy = 1 /\ ~ActorOver' /\ Busy' = 0
        /\ answered' = answered + 1 /\ UNCHANGED <<states, toActor>>
    BY <1>6 DEF Send, controller, ActorOver, Busy
  <2>2. /\ Len(toActor) = states - answered - 1
        /\ \A i \in DOMAIN toActor : toActor[i].sequence = answered + 1 + i
    BY <2>1 DEF StatesInOrder
  <2> QED BY <1>0, <2>1, <2>2 DEF StatesInOrder
<1>7. CASE AwaitClosed
  BY <1>2, <1>7 DEF AwaitClosed, ActorOver
<1>8. CASE ReceiveFails \/ ComputeFails \/ SendFails \/ AwaitFails \/ ActorFails
  BY <1>2, <1>8, FaultEffect DEF ActorOver
<1>9. CASE UNCHANGED vars
  BY <1>1, <1>9 DEF vars, controller, actorVars
<1> QED
  BY <1>3, <1>4, <1>5, <1>6, <1>7, <1>8, <1>9 DEF Next, Actor

\* The controller commands in its two loops only.
LEMMA StepsStep ==
  ASSUME TypeOK, StepsInOrder, [Next]_vars
  PROVE  StepsInOrder'
<1> USE DEF StepsInOrder
<1>0. slot \in Int /\ step \in {"drain", "publish"} /\ GapTicks \in Nat
  BY ConstantTypes DEF TypeOK
<1>1. CASE UNCHANGED controller
  BY <1>1 DEF controller
<1>2. CASE step' = "drain"
  BY <1>2
<1>3. CASE DrainRefuses \/ DrainDisconnected \/ PublishFails
  BY <1>2, <1>3 DEF DrainRefuses, DrainDisconnected, PublishFails, Throw
<1>4. CASE PrepareOn \/ Prepared \/ SlotEnds
  BY <1>2, <1>4 DEF PrepareOn, Prepared, SlotEnds, Publish
<1>5. CASE SlotBegins
  BY <1>0, <1>5 DEF SlotBegins, Drain, Draining
<1>6. CASE Watchdog \/ LoopEnds
  BY <1>0, <1>6 DEF Watchdog, LoopEnds, Drain, Draining
<1>7. CASE Gap
  BY <1>0, <1>7 DEF Gap
<1>8. CASE ShutdownOn \/ Close
  BY <1>0, <1>8 DEF ShutdownOn, Close
<1>9. CASE ControllerFails
  BY <1>9 DEF ControllerFails, Throw
<1>10. CASE Actor \/ ActorFails
  BY <1>1, <1>10, FaultEffect DEF Actor, Receive, Compute, Send, AwaitClosed
<1>11. CASE UNCHANGED vars
  BY <1>1, <1>11 DEF vars
<1> QED
  BY <1>3, <1>4, <1>5, <1>6, <1>7, <1>8, <1>9, <1>10, <1>11
  DEF Next, Controller

\* The actor waits for the close behind its last answer, and believes in it
\* when the controller closed, for good.
LEMMA EndStep ==
  ASSUME TypeOK, StepsInOrder, StatesInOrder, EndInOrder, [Next]_vars
  PROVE  EndInOrder'
<1>0. /\ answered \in Nat /\ states \in Nat /\ answered <= Count
      /\ Count \in Nat
      /\ actor \in {"receive", "compute", "send", "await", "ok", "fault"}
  BY ConstantTypes DEF TypeOK
<1>1. CASE actor # "ok" /\ UNCHANGED <<actor, answered>>
  BY <1>1 DEF EndInOrder
<1>2. CASE actor = "ok" /\ (Controller \/ ControllerFails)
  <2>1. /\ answered = Count /\ phase = "closed" /\ states >= Count
        /\ Reset \/ states = Count
    BY <1>2 DEF EndInOrder
  <2>2. /\ DrainRefuses \/ DrainDisconnected \/ SlotBegins \/ Watchdog
             \/ LoopEnds => FALSE
        /\ PrepareOn \/ Prepared \/ Gap \/ SlotEnds => FALSE
        /\ PublishFails \/ ShutdownOn \/ Close \/ ControllerFails => FALSE
    BY <2>1
    DEF DrainRefuses, DrainDisconnected, SlotBegins, Watchdog, PrepareOn,
        Prepared, Gap, SlotEnds, PublishFails, LoopEnds, ShutdownOn, Close,
        ControllerFails, Drain, Draining, StepsInOrder
  <2> QED BY <1>2, <2>2 DEF Controller
<1>3. CASE actor # "ok" /\ (Controller \/ ControllerFails)
  BY <1>1, <1>3, ControllerPublishes DEF actorVars
<1>4. CASE Receive \/ Compute
  BY <1>4 DEF Receive, Compute, EndInOrder
<1>5. CASE Send
  BY <1>0, <1>5 DEF Send, EndInOrder
<1>6. CASE AwaitClosed
  <2>1. answered = Count /\ Len(toActor) = states - answered
    <3>1. actor = "await" /\ ~ActorOver /\ Busy = 0 /\ Len(toActor) \in Nat
      BY <1>6 DEF AwaitClosed, ActorOver, Busy, TypeOK
    <3>2. answered = Count
      BY <3>1 DEF EndInOrder
    <3> QED BY <1>0, <3>1, <3>2 DEF StatesInOrder
  <2>2. states >= Count /\ (toActor = <<>> => states = Count)
    BY <1>0, <2>1 DEF TypeOK
  <2>3. /\ phase' = "closed" /\ actor' = "ok"
        /\ UNCHANGED <<answered, states, toActor, toController>>
    BY <1>6 DEF AwaitClosed, ControllerGone, controller
  <2>4. toActor = <<>> \/ Reset'
    BY <1>6, <2>3 DEF AwaitClosed, Reset, ControllerGone, ActorGone
  <2> QED BY <1>0, <2>1, <2>2, <2>3, <2>4 DEF EndInOrder
<1>8. CASE ReceiveFails \/ ComputeFails \/ SendFails \/ AwaitFails \/ ActorFails
  BY <1>8, FaultEffect DEF EndInOrder
<1>7. CASE UNCHANGED vars
  BY <1>7
  DEF vars, controller, actorVars, EndInOrder, Reset, ActorGone, ControllerGone
<1> QED
  BY <1>2, <1>3, <1>4, <1>5, <1>6, <1>8, <1>7 DEF Next, Actor

\* No age grows beyond its limit between its check and its use.
LEMMA AgesStep ==
  ASSUME TypeOK, StepsInOrder, AgesInOrder, [Next]_vars
  PROVE  AgesInOrder'
<1>0. /\ now \in Nat /\ stamp \in Nat /\ current \in State /\ target \in Target
      /\ toController \in Seq(Target) /\ Len(toController) \in Nat
      /\ MaxAge \in Nat /\ TargetTimeout \in Nat
  BY ConstantTypes DEF TypeOK
<1>1. CASE UNCHANGED <<now, phase, step, target, toController>>
           /\ (actor' = "send" => actor = "send" /\ UNCHANGED <<current, stamp>>)
  BY <1>1 DEF AgesInOrder
<1>2. CASE Controller \/ ControllerFails
  <2>1. UNCHANGED <<actor, current, stamp>>
    BY <1>2, ControllerPublishes DEF actorVars
  <2>2. \A j \in DOMAIN toController' :
          toController'[j].stamp - toController'[j].sourced <= MaxAge
    <3>1. PICK k \in 0..Len(toController) : Taken(k)
      BY <1>2, ControllerTakes
    <3>2. toController' \in Seq(Target)
      BY <1>2, ControllerTypes DEF TypeOK
    <3>3. TAKE j \in DOMAIN toController'
    <3>4. j \in 1..(Len(toController) - k)
      <4>1. j \in 1..Len(toController')
        BY <3>2
      <4> QED BY <3>1, <4>1 DEF Taken
    <3>5. j + k \in DOMAIN toController
      BY <1>0, <3>4
    <3>6. toController'[j] = toController[j + k]
      BY <3>1, <3>4 DEF Taken
    <3> QED BY <3>5, <3>6 DEF AgesInOrder
  <2>3. target'.stamp - target'.sourced <= MaxAge
    <3>1. CASE Drain /\ toController # <<>>
      <4>1. Len(toController) \in DOMAIN toController
        BY <1>0, <3>1
      <4> QED BY <3>1, <4>1 DEF Drain, AgesInOrder
    <3>2. CASE target' = target \/ (Drain /\ toController = <<>>)
      BY <3>2 DEF Drain, AgesInOrder
    <3> QED BY <1>2, <3>1, <3>2, ControllerTakes
  <2>4. phase' = "active" /\ step' = "publish" => now' - target'.stamp <= TargetTimeout
    <3>1. CASE SlotBegins
      <4>1. target' \in Target
        BY <3>1, DrainTypes DEF SlotBegins
      <4>2. now' = now /\ phase' = phase
        BY <3>1 DEF SlotBegins
      <4>3. phase = "active" => ~(now - target'.stamp > TargetTimeout)
        BY <3>1 DEF SlotBegins, WatchdogExpired
      <4> QED BY <1>0, <4>1, <4>2, <4>3 DEF Target
    <3>2. CASE Gap
      <4>1. slot \in Int /\ slot < 0 /\ phase = "active" /\ step' = step
        BY <3>2 DEF Gap, TypeOK
      <4> QED BY <4>1 DEF StepsInOrder
    <3>3. CASE PrepareOn \/ Prepared \/ SlotEnds
      BY <3>3 DEF PrepareOn, Prepared, SlotEnds, Publish
    <3>4. CASE \/ DrainRefuses \/ DrainDisconnected \/ Watchdog \/ PublishFails
               \/ LoopEnds \/ ShutdownOn \/ Close \/ ControllerFails
      <4>1. phase' \in {"shutdown", "closed"}
        BY <3>4
        DEF DrainRefuses, DrainDisconnected, Watchdog, PublishFails, LoopEnds,
            ShutdownOn, Close, ControllerFails, Throw
      <4> QED BY <4>1
    <3> QED BY <1>2, <3>1, <3>2, <3>3, <3>4 DEF Controller
  <2> QED BY <2>1, <2>2, <2>3, <2>4 DEF AgesInOrder
<1>3. CASE Compute
  BY <1>0, <1>3 DEF Compute, controller, AgesInOrder
<1>4. CASE Send
  <2>1. PICK t \in Target : /\ t.stamp - t.sourced <= MaxAge
                            /\ toController' = Append(toController, t)
    <3> DEFINE t == [source |-> current.sequence, sourced |-> current.stamp,
                     stamp |-> stamp]
    <3>1. t \in Target
      BY DEF TypeOK, State, Target
    <3>2. t.stamp - t.sourced <= MaxAge
      BY <1>4 DEF Send, AgesInOrder
    <3>3. toController' = Append(toController, t)
      BY <1>4 DEF Send
    <3> HIDE DEF t
    <3> QED BY <3>1, <3>2, <3>3
  <2>2. \A j \in DOMAIN toController' :
          toController'[j].stamp - toController'[j].sourced <= MaxAge
    <3>1. TAKE j \in DOMAIN toController'
    <3>2. CASE j = Len(toController) + 1
      BY <1>0, <2>1, <3>2
    <3>3. CASE j # Len(toController) + 1
      <4>1. j \in DOMAIN toController /\ toController'[j] = toController[j]
        BY <1>0, <2>1, <3>3
      <4> QED BY <4>1 DEF AgesInOrder
    <3> QED BY <3>2, <3>3
  <2>3. /\ UNCHANGED <<now, phase, step, target>> /\ actor' # "send"
    BY <1>4 DEF Send, controller
  <2> QED BY <2>2, <2>3 DEF AgesInOrder
<1>5. CASE \/ Receive \/ AwaitClosed
  BY <1>1, <1>5 DEF Receive, AwaitClosed, controller
<1>6. CASE ReceiveFails \/ ComputeFails \/ SendFails \/ AwaitFails \/ ActorFails
  BY <1>1, <1>6, FaultEffect DEF controller
<1>7. CASE UNCHANGED vars
  BY <1>1, <1>7 DEF vars, controller, actorVars
<1> QED
  BY <1>2, <1>3, <1>4, <1>5, <1>6, <1>7 DEF Next, Actor

\* At first nothing is published, answered or old.
LEMMA InitChannelInv == Init => ChannelInv
<1> SUFFICES ASSUME Init PROVE ChannelInv
  OBVIOUS
<1>1. TypeOK
  BY InitTypeOK
<1>2. TargetsInOrder
  <2>1. target.source = 0 /\ answered = 0
    BY DEF Init, NoTarget
  <2>2. DOMAIN toController = {} /\ Len(toController) = 0
    <3>1. toController = <<>>
      BY DEF Init
    <3> QED BY <3>1
  <2>3. target.source = answered - Len(toController)
    BY <2>1, <2>2
  <2> QED BY <2>2, <2>3 DEF TargetsInOrder
<1>3. StatesInOrder
  <2>1. Busy = 0 /\ states = 0 /\ answered = 0 /\ toActor = <<>>
    BY DEF Init, Busy
  <2> QED BY <2>1 DEF StatesInOrder
<1>4. StepsInOrder /\ AgesInOrder
  BY ConstantTypes DEF Init, StepsInOrder, AgesInOrder, NoTarget
<1>5. EndInOrder
  BY ConstantTypes DEF Init, EndInOrder
<1> QED BY <1>1, <1>2, <1>3, <1>4, <1>5 DEF ChannelInv

\* A step keeps the order of the channel, its ages and its end.
LEMMA NextChannelInv == ASSUME ChannelInv, [Next]_vars PROVE ChannelInv'
<1> USE DEF ChannelInv
<1>1. TypeOK'
  <2>1. CASE UNCHANGED vars
    BY <2>1 DEF vars, controller, actorVars, history, TypeOK
  <2> QED BY <2>1, ActorTypes, ControllerTypes DEF Next
<1>2. TargetsInOrder' /\ StatesInOrder'
  BY TargetsStep, StatesStep
<1>3. StepsInOrder' /\ AgesInOrder' /\ EndInOrder'
  BY StepsStep, AgesStep, EndStep
<1> QED BY <1>1, <1>2, <1>3

(***************************************************************************)
(* The channel keeps its order, its ages and its end, for every schedule,  *)
(* limit and interleaving of the two processes.                            *)
(***************************************************************************)
THEOREM ChannelInvariant == Spec => []ChannelInv
  BY InitChannelInv, NextChannelInv, PTL DEF Spec

(***************************************************************************)
(* Every variable of the channel keeps its type.                           *)
(***************************************************************************)
THEOREM TypeCorrect == Spec => []TypeOK
<1>1. ChannelInv => TypeOK
  BY DEF ChannelInv
<1> QED BY <1>1, ChannelInvariant, PTL

\* A function over 1..n is a sequence.
LEMMA NumbersAreSequence ==
  ASSUME NEW n \in Nat, NEW f \in [1..n -> Nat]
  PROVE  f \in Seq(Nat) /\ Len(f) = n
  OBVIOUS

\* Two sequences of consecutive numbers, the second behind the first, make one.
LEMMA ConsecutiveNumbers ==
  ASSUME NEW s \in Seq(Nat), NEW t \in Seq(Nat), NEW b \in Int,
         \A i \in 1..Len(s) : s[i] = b + i,
         \A i \in 1..Len(t) : t[i] = b + Len(s) + i
  PROVE  /\ Len(s \o t) = Len(s) + Len(t)
         /\ \A i \in DOMAIN (s \o t) : (s \o t)[i] = b + i
<1>1. /\ Len(s \o t) = Len(s) + Len(t) /\ Len(s) \in Nat /\ Len(t) \in Nat
      /\ DOMAIN (s \o t) = 1..(Len(s) + Len(t))
  OBVIOUS
<1>2. ASSUME NEW i \in 1..(Len(s) + Len(t)) PROVE (s \o t)[i] = b + i
  <2>1. CASE i <= Len(s)
    <3>1. (s \o t)[i] = s[i] /\ i \in 1..Len(s)
      BY <1>1, <2>1
    <3> QED BY <3>1
  <2>2. CASE i > Len(s)
    <3>1. (s \o t)[i] = t[i - Len(s)] /\ i - Len(s) \in 1..Len(t)
      BY <1>1, <2>2
    <3>2. t[i - Len(s)] = b + Len(s) + (i - Len(s))
      BY <3>1
    <3> QED BY <1>1, <3>1, <3>2
  <2> QED BY <1>1, <2>1, <2>2
<1> QED BY <1>1, <1>2

(***************************************************************************)
(* Each state is answered once and in order: the newest target, the        *)
(* targets and states under way and the state in work are consecutive.     *)
(***************************************************************************)
THEOREM StatesAnsweredOnce == Spec => []EachStateOnce
<1>1. ASSUME ChannelInv PROVE EachStateOnce
  <2>0. /\ answered \in Nat /\ states \in Nat /\ target.source \in Nat
        /\ toController \in Seq(Target) /\ Len(toController) \in Nat
        /\ toActor \in Seq(State) /\ Len(toActor) \in Nat /\ current \in State
        /\ phase \in {"prepare", "active", "shutdown", "closed"}
    BY <1>1 DEF ChannelInv, TypeOK, Target
  <2>1. SUFFICES ASSUME ~ActorOver PROVE EachStateOnce
    <3>1. CASE ActorOver
      BY <3>1 DEF EachStateOnce
    <3> QED BY <2>1, <3>1
  <2> DEFINE sources == [i \in DOMAIN toController |-> toController[i].source]
             sequences == [i \in DOMAIN Unanswered |-> Unanswered[i].sequence]
  <2>2. /\ sources \in Seq(Nat) /\ Len(sources) = Len(toController)
        /\ \A i \in 1..Len(toController) :
             sources[i] = answered - Len(toController) + i
    <3>1. \A t \in Target : t.source \in Nat
      BY DEF Target
    <3>2. DOMAIN toController = 1..Len(toController)
      BY <2>0
    <3>3. \A i \in 1..Len(toController) : toController[i].source \in Nat
      BY <2>0, <3>1
    <3>4. sources \in [1..Len(toController) -> Nat]
      BY <3>2, <3>3
    <3>5. \A i \in 1..Len(toController) :
            sources[i] = answered - Len(toController) + i
      BY <1>1, <3>2 DEF ChannelInv, TargetsInOrder
    <3> QED BY <2>0, <3>4, <3>5, NumbersAreSequence
  <2>3. /\ Unanswered \in Seq(State) /\ Len(Unanswered) = states - answered
        /\ \A i \in 1..Len(Unanswered) : Unanswered[i].sequence = answered + i
    <3>1. /\ Len(toActor) = states - answered - Busy
          /\ Busy = 1 => current.sequence = answered + 1
          /\ \A i \in 1..Len(toActor) : toActor[i].sequence = answered + Busy + i
      BY <1>1, <2>0, <2>1 DEF ChannelInv, StatesInOrder
    <3>2. CASE actor \in {"compute", "send"}
      <4>1. /\ Unanswered = <<current>> \o toActor /\ Busy = 1
        BY <3>2 DEF Unanswered, Busy
      <4>2. /\ Unanswered \in Seq(State) /\ Len(Unanswered) = 1 + Len(toActor)
            /\ Unanswered[1] = current
            /\ \A i \in 2..(1 + Len(toActor)) : Unanswered[i] = toActor[i - 1]
        BY <2>0, <4>1
      <4>3. ASSUME NEW i \in 1..Len(Unanswered)
            PROVE  Unanswered[i].sequence = answered + i
        <5>1. CASE i = 1
          BY <3>1, <4>1, <4>2, <5>1
        <5>2. CASE i # 1
          <6>1. i \in 2..(1 + Len(toActor)) /\ i - 1 \in 1..Len(toActor)
            BY <2>0, <4>2, <5>2
          <6>2. toActor[i - 1].sequence = answered + 1 + (i - 1)
            BY <3>1, <4>1, <6>1
          <6> QED BY <2>0, <4>2, <6>1, <6>2
        <5> QED BY <5>1, <5>2
      <4> QED BY <2>0, <3>1, <4>1, <4>2, <4>3
    <3>3. CASE actor \notin {"compute", "send"}
      <4>1. Unanswered = toActor /\ Busy = 0
        BY <3>3 DEF Unanswered, Busy
      <4> QED BY <2>0, <3>1, <4>1
    <3> QED BY <3>2, <3>3
  <2>4. /\ sequences \in Seq(Nat) /\ Len(sequences) = states - answered
        /\ \A i \in 1..Len(sequences) : sequences[i] = answered + i
    <3>1. \A i \in 1..Len(Unanswered) : Unanswered[i].sequence \in Nat
      BY <2>0, <2>3
    <3>2. DOMAIN Unanswered = 1..Len(Unanswered) /\ Len(Unanswered) \in Nat
      BY <2>3
    <3>3. sequences \in [1..Len(Unanswered) -> Nat]
      BY <3>1, <3>2
    <3>4. \A i \in 1..Len(Unanswered) : sequences[i] = answered + i
      BY <2>3, <3>2
    <3> QED BY <2>3, <3>2, <3>3, <3>4, NumbersAreSequence
  <2>5. EachStateOnce <=>
          /\ phase # "shutdown" /\ phase # "closed" =>
               Len(sources \o sequences) = states - target.source
          /\ \A i \in DOMAIN (sources \o sequences) :
               (sources \o sequences)[i]
                 = states - Len(sources \o sequences) + i
    BY <2>1 DEF EachStateOnce
  <2> HIDE DEF sources, sequences
  <2>6. /\ Len(sources \o sequences) = Len(sources) + Len(sequences)
        /\ \A i \in DOMAIN (sources \o sequences) :
             (sources \o sequences)[i] = answered - Len(toController) + i
    <3>1. /\ answered - Len(toController) \in Int
          /\ \A i \in 1..Len(sequences) :
               sequences[i] = answered - Len(toController) + Len(sources) + i
      BY <2>0, <2>2, <2>4
    <3>2. PICK b \in Int : b = answered - Len(toController)
      BY <3>1
    <3>3. \A i \in 1..Len(sources) : sources[i] = b + i
      BY <2>2, <3>2
    <3>4. \A i \in 1..Len(sequences) : sequences[i] = b + Len(sources) + i
      BY <3>1, <3>2
    <3>5. sources \in Seq(Nat) /\ sequences \in Seq(Nat)
      BY <2>2, <2>4
    <3>6. /\ Len(sources \o sequences) = Len(sources) + Len(sequences)
          /\ \A i \in DOMAIN (sources \o sequences) :
               (sources \o sequences)[i] = b + i
      BY <3>3, <3>4, <3>5, ConsecutiveNumbers
    <3> QED BY <3>2, <3>6
  <2>7. phase # "shutdown" /\ phase # "closed" =>
          target.source = answered - Len(toController)
    BY <1>1, <2>0 DEF ChannelInv, TargetsInOrder
  <2> QED BY <2>0, <2>2, <2>4, <2>5, <2>6, <2>7
<1> QED BY <1>1, ChannelInvariant, PTL

(***************************************************************************)
(* The commands of an active slot rest on a measurement no older than the  *)
(* two limits together, for every pair of limits.                          *)
(***************************************************************************)
THEOREM CommandsAreRecent == Spec => []CommandsFromRecentStates
<1>1. ASSUME ChannelInv PROVE CommandsFromRecentStates
  <2>1. /\ now \in Nat /\ target.stamp \in Nat /\ target.sourced \in Nat
        /\ MaxAge \in Nat /\ TargetTimeout \in Nat
    BY <1>1, ConstantTypes DEF ChannelInv, TypeOK, Target
  <2> QED
    BY <1>1, <2>1 DEF ChannelInv, AgesInOrder, CommandsFromRecentStates
<1> QED BY <1>1, ChannelInvariant, PTL

(***************************************************************************)
(* An actor that believes in a complete run is right, whatever both sides  *)
(* did and however long it took.                                           *)
(***************************************************************************)
THEOREM BelievedRunsComplete == Spec => []BelievedRunsAreComplete
<1>1. ChannelInv => BelievedRunsAreComplete
  BY DEF ChannelInv, EndInOrder, BelievedRunsAreComplete
<1> QED BY <1>1, ChannelInvariant, PTL

--------------------------------------------------------------------------------
(* Remainders, as the slots count them.                                    *)

\* A remainder is what is left of a division.
LEMMA Division ==
  ASSUME NEW p \in Nat \ {0}, NEW s \in Nat
  PROVE  /\ s \div p \in Nat /\ s % p \in 0..(p - 1)
         /\ s = p * (s \div p) + (s % p)
<1>1. s % p \in 0..(p - 1) /\ s \div p \in Int
  OBVIOUS
<1>2. s = p * (s \div p) + (s % p)
  OBVIOUS
<1>3. s \div p \in Nat
  OBVIOUS
<1> QED BY <1>1, <1>2, <1>3

\* It is the only one.
LEMMA RemainderUnique ==
  ASSUME NEW p \in Nat \ {0}, NEW q \in Int, NEW k \in Int,
         NEW r \in 0..(p - 1), NEW t \in 0..(p - 1),
         p * q + r = p * k + t
  PROVE  r = t
<1>1. PICK d \in Int : d = q - k
  OBVIOUS
<1>2. p * d = t - r
  <2>1. p * (q - k) = t - r
    OBVIOUS
  <2> QED BY <1>1, <2>1
<1>3. CASE d >= 1
  <2>1. p * d >= p
    BY <1>3
  <2> QED BY <1>2, <2>1
<1>4. CASE d <= -1
  <2>1. p * d <= -p
    BY <1>4
  <2> QED BY <1>2, <2>1
<1>5. CASE d = 0
  BY <1>2, <1>5
<1> QED BY <1>3, <1>4, <1>5

\* From one slot to the next the remainder grows by one, or starts over.
LEMMA NextRemainder ==
  ASSUME NEW p \in Nat \ {0}, NEW s \in Nat
  PROVE  /\ s % p \in 0..(p - 1) /\ (s + 1) % p \in 0..(p - 1) /\ 0 % p = 0
         /\ (s + 1) % p = 0 => s % p = p - 1
         /\ (s + 1) % p # 0 => (s + 1) % p = (s % p) + 1
<1>1. PICK q \in Nat, r \in 0..(p - 1) : s = p * q + r /\ r = s % p
  BY Division
<1>2. PICK k \in Nat, t \in 0..(p - 1) : s + 1 = p * k + t /\ t = (s + 1) % p
  <2>1. s + 1 \in Nat
    OBVIOUS
  <2> QED BY <2>1, Division
<1>3. r = s % p /\ t = (s + 1) % p /\ 0 % p = 0
  <2>1. 0 % p = 0
    OBVIOUS
  <2> QED BY <1>1, <1>2, <2>1, Zenon
<1>4. CASE r = p - 1
  <2>1. s + 1 = p * (q + 1) + 0
    BY <1>1, <1>4
  <2>2. p * (q + 1) + 0 = p * k + t
    BY <1>2, <2>1
  <2>3. t = 0
    BY <2>2, RemainderUnique
  <2> QED BY <1>3, <1>4, <2>3
<1>5. CASE r # p - 1
  <2>1. p * q + (r + 1) = p * k + t /\ r + 1 \in 0..(p - 1)
    BY <1>1, <1>2, <1>5
  <2>2. PICK u \in 0..(p - 1) : u = r + 1
    BY <2>1
  <2>3. p * q + u = p * k + t
    BY <2>1, <2>2
  <2>4. u = t
    BY <2>3, RemainderUnique
  <2>5. t = r + 1 /\ t # 0
    BY <2>2, <2>4
  <2> QED BY <1>3, <2>5
<1> QED BY <1>4, <1>5

--------------------------------------------------------------------------------
(* A prompt actor is never cut off: first what holds of every actor.       *)

\* What a slot that ends does.
LEMMA PublishEffect ==
  ASSUME TypeOK, NEW h \in BOOLEAN, Publish(h)
  PROVE  /\ step = "publish" /\ step' = "drain" /\ now' = now + 1
         /\ \/ /\ Due /\ h /\ ~ActorGone /\ states' = states + 1
               /\ toActor' =
                    Append(toActor, [sequence |-> states + 1, stamp |-> now])
               /\ skipped' = skipped
            \/ /\ ~(Due /\ h) /\ UNCHANGED <<states, toActor>>
               /\ skipped' = IF phase = "active" /\ Due THEN skipped + 1 ELSE skipped
  BY DEF Publish, Tick

\* The slots that end.
SlotOver == PrepareOn \/ Prepared \/ SlotEnds

\* A slot that ends leaves the targets and the actor alone, and moves on.
LEMMA SlotOverEffect ==
  ASSUME TypeOK, SlotOver
  PROVE  /\ phase \in {"prepare", "active"} /\ phase' \in {"prepare", "active"}
         /\ UNCHANGED <<target, stop, actorVars, toController>>
         /\ \E h \in BOOLEAN : Publish(h) /\ (h = heard \/ h)
                              /\ (~Prepared => heard' = h) /\ (Prepared => h = heard)
         /\ \/ Prepared
            \/ PrepareOn /\ phase = "prepare" /\ phase' = phase /\ slot' = slot + 1
            \/ SlotEnds /\ phase = "active" /\ phase' = phase /\ slot' = slot + 1
<1>1. {heard, TRUE} \subseteq BOOLEAN
  BY DEF TypeOK
<1>2. CASE Prepared
  BY <1>1, <1>2 DEF Prepared
<1>3. CASE PrepareOn /\ ~Prepared
  BY <1>1, <1>3 DEF PrepareOn
<1>4. CASE SlotEnds /\ ~Prepared
  BY <1>1, <1>4 DEF SlotEnds
<1> QED BY <1>2, <1>3, <1>4 DEF SlotOver

\* The steps of the controller that take no time.
Quiet ==
  \/ DrainRefuses \/ DrainDisconnected \/ SlotBegins \/ Watchdog
  \/ PublishFails \/ LoopEnds \/ Close \/ ControllerFails

\* They leave the states alone, and the phase unless it is over.
LEMMA QuietEffect ==
  ASSUME TypeOK, Quiet
  PROVE  /\ UNCHANGED <<now, states, toActor, actorVars, history>>
         /\ phase' \in {"prepare", "active"} => SlotBegins
<1>1. CASE SlotBegins \/ Watchdog
  BY <1>1 DEF SlotBegins, Watchdog
<1>2. CASE DrainRefuses \/ DrainDisconnected \/ PublishFails
  BY <1>2 DEF DrainRefuses, DrainDisconnected, PublishFails, Throw
<1>3. CASE LoopEnds \/ Close
  BY <1>3 DEF LoopEnds, Close
<1>4. CASE ControllerFails
  BY <1>4 DEF ControllerFails, Throw, TypeOK
<1> QED BY <1>1, <1>2, <1>3, <1>4 DEF Quiet

\* Every step is one of these.
LEMMA StepKinds ==
  ASSUME [Next]_vars
  PROVE  \/ SlotOver \/ Gap \/ ShutdownOn \/ Quiet
         \/ Receive \/ Compute \/ Send \/ AwaitClosed
         \/ ReceiveFails \/ ComputeFails \/ SendFails \/ AwaitFails \/ ActorFails
         \/ UNCHANGED vars
  BY DEF Next, Controller, Actor, SlotOver, Quiet

\* A step keeps what is known in the slots.
LEMMA SlotsStep ==
  ASSUME ChannelInv, SlotsInOrder, [Next]_vars
  PROVE  SlotsInOrder'
<1>0. /\ slot \in Int /\ answered \in Nat /\ skipped \in Nat /\ GapTicks \in Nat
      /\ toController \in Seq(Target) /\ Len(toController) \in Nat /\ TypeOK
      /\ target.source \in Nat /\ actor \in {"receive", "compute", "send", "await",
                                             "ok", "fault"}
  BY ConstantTypes DEF ChannelInv, TypeOK, Target
<1>1. CASE UNCHANGED <<phase, slot, step, target, skipped, actorVars>>
  BY <1>1 DEF SlotsInOrder, actorVars
<1>2. CASE SlotOver
  <2>1. UNCHANGED <<target, actorVars>>
    BY <1>0, <1>2, SlotOverEffect
  <2>2. PICK h \in BOOLEAN : Publish(h)
    BY <1>0, <1>2, SlotOverEffect
  <2>3. phase = "prepare" => skipped' = skipped
    BY <1>0, <2>2, PublishEffect
  <2>4. CASE Prepared
    BY <1>0, <2>1, <2>3, <2>4 DEF Prepared, SlotsInOrder, actorVars
  <2>5. CASE PrepareOn
    BY <1>0, <2>1, <2>3, <2>5 DEF PrepareOn, SlotsInOrder, actorVars
  <2>6. CASE SlotEnds
    BY <1>0, <2>1, <2>6 DEF SlotEnds, SlotsInOrder, actorVars
  <2> QED BY <1>2, <2>4, <2>5, <2>6 DEF SlotOver
<1>3. CASE Gap
  BY <1>0, <1>3 DEF Gap, SlotsInOrder, actorVars
<1>4. CASE Quiet
  <2>1. UNCHANGED <<actorVars, skipped>>
    BY <1>0, <1>4, QuietEffect DEF history
  <2>2. CASE SlotBegins
    <3>1. phase' = phase /\ slot' = slot /\ step' = "publish"
      BY <2>2 DEF SlotBegins
    <3>2. target.source >= 1 => target'.source >= 1
      <4>1. CASE toController = <<>>
        BY <2>2, <4>1 DEF SlotBegins, Drain
      <4>2. CASE toController # <<>>
        <5>1. /\ Len(toController) \in DOMAIN toController
              /\ target' = toController[Len(toController)]
          BY <1>0, <2>2, <4>2 DEF SlotBegins, Drain
        <5>2. toController[Len(toController)].source = answered
          BY <1>0, <5>1 DEF ChannelInv, TargetsInOrder
        <5>3. target.source = answered - Len(toController)
          BY <2>2 DEF ChannelInv, TargetsInOrder, SlotBegins, Drain, Draining
        <5> QED BY <1>0, <5>1, <5>2, <5>3
      <4> QED BY <4>1, <4>2
    <3> QED BY <2>1, <3>1, <3>2 DEF SlotsInOrder, actorVars
  <2>3. CASE phase' \notin {"prepare", "active"}
    BY <2>1, <2>3 DEF SlotsInOrder, actorVars
  <2> QED BY <1>0, <1>4, <2>2, <2>3, QuietEffect
<1>5. CASE ShutdownOn
  BY <1>5 DEF ShutdownOn, SlotsInOrder, actorVars
<1>6. CASE Receive
  <2>1. /\ current' = toActor[1] /\ 1 \in DOMAIN toActor /\ Busy = 0
        /\ ~ActorOver /\ actor = "receive"
    BY <1>6 DEF Receive, ChannelInv, TypeOK, Busy, ActorOver
  <2>2. current'.sequence = answered + 0 + 1
    BY <2>1 DEF ChannelInv, StatesInOrder
  <2>3. UNCHANGED <<answered, why, controller, history>>
    BY <1>6 DEF Receive
  <2> QED
    BY <1>0, <2>1, <2>2, <2>3 DEF SlotsInOrder, controller, history
<1>7. CASE Compute
  BY <1>7 DEF Compute, SlotsInOrder, controller, history
<1>8. CASE Send
  <2>1. current.sequence = answered + 1
    BY <1>8 DEF Send, ChannelInv, StatesInOrder, ActorOver, Busy
  <2>2. actor # "fault" /\ UNCHANGED <<current, why, controller, history>>
    BY <1>8 DEF Send
  <2> QED
    BY <1>0, <2>1, <2>2 DEF SlotsInOrder, controller, history
<1>9. CASE AwaitClosed
  BY <1>9 DEF AwaitClosed, SlotsInOrder, controller, history
<1>10. CASE ReceiveFails \/ ComputeFails \/ SendFails \/ AwaitFails \/ ActorFails
  BY <1>10, FaultEffect DEF SlotsInOrder, controller, history
<1>11. CASE UNCHANGED vars
  BY <1>1, <1>11 DEF vars, controller, history
<1> QED
  BY <1>2, <1>3, <1>4, <1>5, <1>6, <1>7, <1>8, <1>9, <1>10, <1>11, StepKinds

\* A quiet step keeps what holds of every target under way, and of the newest.
LEMMA QuietTargets ==
  ASSUME TypeOK, Quiet
  PROVE  /\ \A i \in DOMAIN toController' :
              \E j \in DOMAIN toController : toController'[i] = toController[j]
         /\ \/ target' = target
            \/ \E j \in DOMAIN toController : target' = toController[j]
<1>0. toController \in Seq(Target) /\ Len(toController) \in Nat
  BY DEF TypeOK
<1>1. Controller \/ ControllerFails
  BY DEF Quiet, Controller
<1>2. PICK k \in 0..Len(toController) : Taken(k)
  BY <1>1, ControllerTakes
<1>3. ASSUME NEW i \in DOMAIN toController'
      PROVE  \E j \in DOMAIN toController : toController'[i] = toController[j]
  <2>1. toController' \in Seq(Target)
    BY <1>1, ControllerTypes DEF TypeOK
  <2>2. i \in 1..Len(toController')
    BY <1>3, <2>1
  <2>3. i \in 1..(Len(toController) - k)
    BY <1>2, <2>2 DEF Taken
  <2>4. i + k \in DOMAIN toController
    BY <1>0, <2>3
  <2>5. toController'[i] = toController[i + k]
    BY <1>2, <2>3 DEF Taken
  <2> QED BY <2>4, <2>5
<1>4. \/ target' = target
      \/ \E j \in DOMAIN toController : target' = toController[j]
  <2>1. CASE Drain /\ toController # <<>>
    <3>1. Len(toController) \in DOMAIN toController
      BY <1>0, <2>1
    <3> QED BY <2>1, <3>1 DEF Drain
  <2>2. CASE target' = target \/ (Drain /\ toController = <<>>)
    BY <2>2 DEF Drain
  <2> QED BY <1>1, <2>1, <2>2, ControllerTakes
<1> QED BY <1>3, <1>4

\* The last state stays the last until the next one is published.
LEMMA LastStep ==
  ASSUME TypeOK
  PROVE  /\ UNCHANGED <<toActor, current>> => Last' = Last
         /\ Receive => Last' = Last
         /\ \A s \in State : toActor' = Append(toActor, s) => Last' = s.stamp
<1>0. toActor \in Seq(State) /\ Len(toActor) \in Nat
  BY DEF TypeOK
<1>1. ASSUME UNCHANGED <<toActor, current>> PROVE Last' = Last
  BY <1>1 DEF Last
<1>2. ASSUME Receive PROVE Last' = Last
  <2>1. /\ toActor # <<>> /\ current' = toActor[1] /\ toActor' = Tail(toActor)
        /\ Len(toActor) >= 1
    BY <1>0, <1>2 DEF Receive
  <2>2. CASE Len(toActor) = 1
    <3>1. toActor' = <<>>
      BY <1>0, <2>1, <2>2
    <3> QED BY <2>1, <2>2, <3>1 DEF Last
  <2>3. CASE Len(toActor) > 1
    <3>1. /\ Len(toActor') = Len(toActor) - 1 /\ Len(toActor') > 0
          /\ \A i \in 1..Len(toActor') : toActor'[i] = toActor[i + 1]
      BY <1>0, <2>1, <2>3
    <3>2. toActor'[Len(toActor')] = toActor[Len(toActor)]
      BY <1>0, <3>1
    <3>3. toActor' # <<>>
      <4>1. Len(toActor') # Len(<<>>)
        BY <3>1
      <4> QED BY <4>1
    <3> QED BY <2>1, <3>2, <3>3 DEF Last
  <2>4. Len(toActor) = 1 \/ Len(toActor) > 1
    <3>1. PICK n \in Nat : n = Len(toActor) /\ n >= 1
      BY <1>0, <2>1
    <3>2. n = 1 \/ n > 1
      BY <3>1
    <3> QED BY <3>1, <3>2
  <2> QED BY <2>2, <2>3, <2>4
<1>3. ASSUME NEW s \in State, toActor' = Append(toActor, s) PROVE Last' = s.stamp
  <2>1. toActor' # <<>> /\ toActor'[Len(toActor')] = s
    BY <1>0, <1>3
  <2> QED BY <2>1 DEF Last
<1> QED BY <1>1, <1>2, <1>3

\* The fields of states and targets are numbers.
LEMMA RecordTypes ==
  /\ \A s \in State : s.stamp \in Nat /\ s.sequence \in Nat
  /\ \A t \in Target : t.stamp \in Nat /\ t.sourced \in Nat /\ t.source \in Nat
  BY DEF State, Target

\* Everything is stamped after what it rests on.
LEMMA StampsStep ==
  ASSUME ChannelInv, StampsInOrder, [Next]_vars
  PROVE  StampsInOrder'
<1>0. /\ TypeOK /\ now \in Nat /\ states \in Nat /\ stamp \in Nat
      /\ current \in State /\ target \in Target
      /\ toActor \in Seq(State) /\ Len(toActor) \in Nat
      /\ toController \in Seq(Target) /\ Len(toController) \in Nat
      /\ \A s \in State : s.stamp \in Nat /\ s.sequence \in Nat
      /\ \A t \in Target : t.stamp \in Nat /\ t.sourced \in Nat /\ t.source \in Nat
  BY RecordTypes DEF ChannelInv, TypeOK
<1>1. ASSUME UNCHANGED <<toActor, toController, target, current, stamp, states>>,
             now' \in Nat, now' >= now, Busy' = 1 => Busy = 1,
             actor' = "send" => actor = "send"
      PROVE  StampsInOrder'
  <2>1. Last' = Last /\ (states >= 1 => Last < now)
    BY <1>0, <1>1, LastStep DEF StampsInOrder
  <2>2. Last \in Nat
    BY <1>0 DEF Last
  <2>3. \A i \in DOMAIN toActor : toActor[i].stamp \in Nat
    BY <1>0
  <2>4. \A i \in DOMAIN toController : toController[i].stamp \in Nat
    BY <1>0
  <2> QED BY <1>0, <1>1, <2>1, <2>2, <2>3, <2>4 DEF StampsInOrder
<1>2. CASE SlotOver
  <2>1. UNCHANGED <<target, actorVars, toController>>
    BY <1>0, <1>2, SlotOverEffect
  <2>2. PICK h \in BOOLEAN : Publish(h)
    BY <1>0, <1>2, SlotOverEffect
  <2>3. now' = now + 1
    BY <1>0, <2>2, PublishEffect
  <2>4. UNCHANGED <<actor, current, stamp>> /\ Busy' = Busy
    BY <2>1 DEF actorVars, Busy
  <2>5. CASE UNCHANGED <<states, toActor>>
    BY <1>0, <1>1, <2>1, <2>3, <2>4, <2>5
  <2>6. CASE /\ states' = states + 1
             /\ toActor' = Append(toActor, [sequence |-> states + 1, stamp |-> now])
    <3>1. PICK s \in State : s.stamp = now /\ toActor' = Append(toActor, s)
      <4>1. [sequence |-> states + 1, stamp |-> now] \in State
        BY <1>0 DEF State
      <4> QED BY <2>6, <4>1
    <3>2. Last' = now
      BY <1>0, <3>1, LastStep
    <3>3. /\ DOMAIN toActor' = 1..(Len(toActor) + 1)
          /\ toActor'[Len(toActor) + 1] = s
          /\ \A i \in 1..Len(toActor) : toActor'[i] = toActor[i]
      BY <1>0, <3>1
    <3>4. \A i \in 1..Len(toActor) : toActor[i].stamp < now /\ toActor[i].stamp \in Nat
      BY <1>0 DEF StampsInOrder
    <3>5. \A i \in DOMAIN toActor' : toActor'[i].stamp < now'
      BY <1>0, <2>3, <3>1, <3>3, <3>4
    <3>6. Busy' = 1 => /\ current'.stamp < now'
                       /\ \A i \in DOMAIN toActor' : current'.stamp <= toActor'[i].stamp
      <4>1. SUFFICES ASSUME Busy = 1
                     PROVE  /\ current.stamp < now'
                            /\ \A i \in DOMAIN toActor' :
                                 current.stamp <= toActor'[i].stamp
        BY <2>4
      <4>2. /\ current.stamp < now /\ current.stamp \in Nat
            /\ \A i \in 1..Len(toActor) : current.stamp <= toActor[i].stamp
        BY <1>0, <4>1 DEF StampsInOrder
      <4> QED BY <1>0, <2>3, <3>1, <3>3, <4>2
    <3>7. \A i, j \in DOMAIN toActor' :
            i <= j => toActor'[i].stamp <= toActor'[j].stamp
      <4>1. \A i, j \in 1..Len(toActor) :
              i <= j => toActor[i].stamp <= toActor[j].stamp
        BY <1>0 DEF StampsInOrder
      <4> QED BY <1>0, <3>1, <3>3, <3>4, <4>1
    <3>8. actor' = "send" => current'.stamp < stamp' /\ stamp' <= now'
      BY <1>0, <2>3, <2>4 DEF StampsInOrder
    <3>9. /\ \A i \in DOMAIN toController' :
               /\ toController'[i].sourced < toController'[i].stamp
               /\ toController'[i].stamp <= now'
          /\ target'.source >= 1 =>
               target'.sourced < target'.stamp /\ target'.stamp <= now'
      <4>1. \A i \in DOMAIN toController : toController[i].stamp \in Nat
        BY <1>0
      <4> QED BY <1>0, <2>1, <2>3, <4>1 DEF StampsInOrder
    <3> QED
      BY <1>0, <2>3, <3>2, <3>5, <3>6, <3>7, <3>8, <3>9 DEF StampsInOrder
  <2> QED BY <1>0, <2>2, <2>5, <2>6, PublishEffect
<1>3. CASE Gap \/ ShutdownOn
  <2>1. /\ UNCHANGED <<toActor, toController, target, current, stamp, states, actor>>
        /\ now' = now + 1
    BY <1>3 DEF Gap, ShutdownOn, Tick, actorVars
  <2> QED BY <1>0, <1>1, <2>1 DEF Busy
<1>4. CASE Quiet
  <2>1. UNCHANGED <<now, states, toActor, actor, current, stamp>> /\ Busy' = Busy
    BY <1>0, <1>4, QuietEffect DEF actorVars, Busy
  <2>2. Last' = Last
    BY <1>0, <2>1, LastStep
  <2>3. \A i \in DOMAIN toController' :
          /\ toController'[i].sourced < toController'[i].stamp
          /\ toController'[i].stamp <= now'
    BY <1>0, <1>4, <2>1, QuietTargets DEF StampsInOrder
  <2>4. target'.source >= 1 =>
          target'.sourced < target'.stamp /\ target'.stamp <= now'
    BY <1>0, <1>4, <2>1, QuietTargets DEF StampsInOrder
  <2> QED BY <2>1, <2>2, <2>3, <2>4 DEF StampsInOrder
<1>5. CASE Receive
  <2>1. /\ UNCHANGED <<now, states, target, toController, stamp>>
        /\ toActor # <<>> /\ current' = toActor[1] /\ toActor' = Tail(toActor)
        /\ actor' = "compute"
    BY <1>0, <1>5 DEF Receive, controller
  <2>2. /\ \A i \in DOMAIN toActor' :
             i + 1 \in DOMAIN toActor /\ toActor'[i] = toActor[i + 1] /\ i \in Nat
        /\ 1 \in DOMAIN toActor
    BY <1>0, <2>1
  <2>3. Last' = Last
    BY <1>0, <1>5, LastStep
  <2>4. /\ \A i \in DOMAIN toActor' : toActor'[i].stamp < now'
        /\ current'.stamp < now'
    BY <2>1, <2>2 DEF StampsInOrder
  <2>5. \A i \in DOMAIN toActor' : current'.stamp <= toActor'[i].stamp
    BY <2>1, <2>2 DEF StampsInOrder
  <2>6. \A i, j \in DOMAIN toActor' :
          i <= j => toActor'[i].stamp <= toActor'[j].stamp
    <3>1. TAKE i, j \in DOMAIN toActor'
    <3>2. /\ i + 1 \in DOMAIN toActor /\ j + 1 \in DOMAIN toActor
          /\ toActor'[i] = toActor[i + 1] /\ toActor'[j] = toActor[j + 1]
          /\ (i <= j => i + 1 <= j + 1)
      BY <2>2
    <3> QED BY <3>2 DEF StampsInOrder
  <2> QED BY <2>1, <2>3, <2>4, <2>5, <2>6 DEF StampsInOrder
<1>6. CASE Compute
  <2>1. /\ UNCHANGED <<now, states, target, toController, toActor, current>>
        /\ actor' = "send" /\ stamp' = now /\ Busy = 1
    BY <1>6 DEF Compute, controller, Busy
  <2>2. Last' = Last /\ current.stamp < now
    BY <1>0, <2>1, LastStep DEF StampsInOrder
  <2> QED BY <1>0, <2>1, <2>2 DEF StampsInOrder
<1>7. CASE Send
  <2>1. /\ UNCHANGED <<now, states, target, toActor, current, stamp>>
        /\ actor' # "send" /\ Busy' = 0 /\ current.stamp < stamp /\ stamp <= now
    BY <1>7 DEF Send, controller, Busy, StampsInOrder
  <2>2. PICK t \in Target : /\ t.sourced < t.stamp /\ t.stamp <= now
                            /\ toController' = Append(toController, t)
    <3> DEFINE t == [source |-> current.sequence, sourced |-> current.stamp,
                     stamp |-> stamp]
    <3>1. t \in Target
      BY <1>0 DEF Target
    <3>2. t.sourced < t.stamp /\ t.stamp <= now
      BY <2>1
    <3>3. toController' = Append(toController, t)
      BY <1>7 DEF Send
    <3> HIDE DEF t
    <3> QED BY <3>1, <3>2, <3>3
  <2>3. \A i \in DOMAIN toController' :
          /\ toController'[i].sourced < toController'[i].stamp
          /\ toController'[i].stamp <= now'
    <3>1. TAKE i \in DOMAIN toController'
    <3>2. CASE i = Len(toController) + 1
      BY <1>0, <2>1, <2>2, <3>2
    <3>3. CASE i # Len(toController) + 1
      <4>1. i \in DOMAIN toController /\ toController'[i] = toController[i]
        BY <1>0, <2>2, <3>3
      <4> QED BY <2>1, <4>1 DEF StampsInOrder
    <3> QED BY <3>2, <3>3
  <2>4. Last' = Last
    BY <1>0, <2>1, LastStep
  <2> QED BY <2>1, <2>3, <2>4 DEF StampsInOrder
<1>8. CASE \/ AwaitClosed \/ ReceiveFails \/ ComputeFails \/ SendFails
           \/ AwaitFails \/ ActorFails
  <2>1. /\ UNCHANGED <<toActor, toController, target, current, stamp, states, now>>
        /\ actor' \in {"ok", "fault"}
    BY <1>8, FaultEffect DEF AwaitClosed, controller
  <2> QED BY <1>0, <1>1, <2>1 DEF Busy
<1>9. CASE UNCHANGED vars
  <2>1. UNCHANGED <<toActor, toController, target, current, stamp, states, now, actor>>
    BY <1>9 DEF vars, controller, actorVars
  <2> QED BY <1>0, <1>1, <2>1 DEF Busy
<1> QED
  BY <1>2, <1>3, <1>4, <1>5, <1>6, <1>7, <1>8, <1>9, StepKinds

\* What a slot that publishes, or does not, says of the time since the last state.
LEMMA SinceDueStep ==
  ASSUME ChannelInv, SlotsInOrder, SlotOver
  PROVE  /\ slot \in Nat /\ SinceDue \in 1..Period /\ SinceDue' \in 1..(SinceDue + 1)
         /\ Due => SinceDue = Period /\ SinceDue' = 1
<1>0. TypeOK /\ slot \in Int /\ GapTicks \in Nat /\ Period \in Nat \ {0}
  BY ConstantTypes DEF ChannelInv, TypeOK
<1>1. slot \in Nat
  BY <1>0, SlotOverEffect, PublishEffect
  DEF ChannelInv, StepsInOrder, SlotsInOrder
<1>2. /\ slot % Period \in 0..(Period - 1) /\ (slot + 1) % Period \in 0..(Period - 1)
      /\ 0 % Period = 0
      /\ (slot + 1) % Period = 0 => slot % Period = Period - 1
      /\ (slot + 1) % Period # 0 => (slot + 1) % Period = (slot % Period) + 1
  BY <1>0, <1>1, NextRemainder
<1>3. SinceDue = (slot % Period) + 1
  BY <1>1 DEF SinceDue
<1>4. CASE slot' = slot + 1
  <2>1. SinceDue' = ((slot + 1) % Period) + 1
    BY <1>1, <1>4 DEF SinceDue
  <2> QED BY <1>0, <1>1, <1>2, <1>3, <2>1 DEF Due
<1>5. CASE slot' = -GapTicks
  <2>1. SinceDue' = 1
    BY <1>0, <1>2, <1>5 DEF SinceDue
  <2> QED BY <1>0, <1>1, <1>2, <1>3, <2>1 DEF Due
<1> QED BY <1>0, <1>4, <1>5, SlotOverEffect DEF Prepared

\* One period more.
LEMMA OnePeriodMore ==
  ASSUME NEW a \in Int, NEW p \in Int
  PROVE  (a + 1) * p = a * p + p /\ 0 * p = 0
  OBVIOUS

\* States are published at least a period apart.
LEMMA SpacedStep ==
  ASSUME ChannelInv, SlotsInOrder, StampsInOrder, Spaced, [Next]_vars
  PROVE  Spaced'
<1>0. /\ TypeOK /\ now \in Nat /\ states \in Nat /\ answered \in Nat /\ slot \in Int
      /\ current \in State /\ target.source \in Nat
      /\ Period \in Nat \ {0} /\ Period \in Int
      /\ toActor \in Seq(State) /\ Len(toActor) \in Nat
      /\ toController \in Seq(Target) /\ Len(toController) \in Nat
      /\ \A s \in State : s.stamp \in Nat /\ s.sequence \in Nat
      /\ \A t \in Target : t.stamp \in Nat /\ t.sourced \in Nat /\ t.source \in Nat
  BY ConstantTypes, RecordTypes DEF ChannelInv, TypeOK
<1>1. Last \in Nat
  BY <1>0 DEF Last
<1>2. /\ \A i \in DOMAIN toActor :
           Last - toActor[i].stamp >= (states - toActor[i].sequence) * Period
      /\ Busy = 1 => Last - current.stamp >= (states - current.sequence) * Period
      /\ \A i \in DOMAIN toController :
           Last - toController[i].sourced
             >= (states - toController[i].source) * Period
      /\ Running /\ states >= 1 => now - Last >= SinceDue
  BY DEF Spaced, Apart
<1>3. ASSUME Last' = Last, states' = states, Busy' = 1 => Busy = 1,
             UNCHANGED <<toActor, current>>,
             \A i \in DOMAIN toController' :
               \E j \in DOMAIN toController : toController'[i] = toController[j],
             Running' /\ states >= 1 => now' - Last >= SinceDue'
      PROVE  Spaced'
  <2>1. \A i \in DOMAIN toController' :
          Last' - toController'[i].sourced
            >= (states' - toController'[i].source) * Period
    BY <1>2, <1>3
  <2> QED BY <1>2, <1>3, <2>1 DEF Spaced, Apart
<1>4. CASE SlotOver
  <2>1. UNCHANGED <<target, actorVars, toController>> /\ phase \in {"prepare", "active"}
    BY <1>0, <1>4, SlotOverEffect
  <2>2. PICK h \in BOOLEAN : Publish(h)
    BY <1>0, <1>4, SlotOverEffect
  <2>3. now' = now + 1
    BY <1>0, <2>2, PublishEffect
  <2>4. UNCHANGED <<actor, current>> /\ Busy' = Busy
    BY <2>1 DEF actorVars, Busy
  <2>5. /\ SinceDue \in 1..Period /\ SinceDue' \in 1..(SinceDue + 1)
        /\ Due => SinceDue = Period /\ SinceDue' = 1
    BY <1>4, SinceDueStep
  <2>6. CASE UNCHANGED <<states, toActor>>
    <3>1. Last' = Last
      BY <1>0, <2>4, <2>6, LastStep
    <3>2. states >= 1 => now' - Last >= SinceDue'
      BY <1>0, <1>1, <1>2, <2>1, <2>3, <2>5 DEF Running
    <3>3. \A i \in DOMAIN toController' :
            \E j \in DOMAIN toController : toController'[i] = toController[j]
      BY <2>1
    <3> QED BY <1>3, <2>4, <2>6, <3>1, <3>2, <3>3
  <2>7. CASE /\ Due /\ ~ActorGone /\ states' = states + 1
             /\ toActor' = Append(toActor, [sequence |-> states + 1, stamp |-> now])
    <3>1. PICK s \in State : /\ s.stamp = now /\ s.sequence = states + 1
                             /\ toActor' = Append(toActor, s)
      <4>1. [sequence |-> states + 1, stamp |-> now] \in State
        BY <1>0 DEF State
      <4> QED BY <2>7, <4>1
    <3>2. Last' = now
      BY <1>0, <3>1, LastStep
    <3>3. ~ActorOver
      BY <2>1, <2>7 DEF ActorOver, ActorGone, ChannelInv, EndInOrder
    <3>4. states >= 1 => now - Last >= Period
      BY <1>2, <2>1, <2>5, <2>7 DEF Running
    <3>5. ASSUME NEW q \in Nat, NEW d \in Nat, q <= states, states >= 1,
                 Last - d >= (states - q) * Period
          PROVE  Last' - d >= (states' - q) * Period
      <4>1. PICK a \in Int : a = states - q /\ a + 1 = states' - q
        BY <1>0, <2>7, <3>5
      <4>2. (a + 1) * Period = a * Period + Period
        BY <1>0, OnePeriodMore
      <4>3. PICK b \in Int : b = a * Period
        BY <1>0
      <4>4. Last - d >= b /\ now - Last >= Period
        BY <3>4, <3>5, <4>1, <4>3
      <4>5. now - d >= b + Period
        BY <1>0, <1>1, <3>5, <4>4
      <4> QED BY <3>2, <4>1, <4>2, <4>3, <4>5
    <3>6. /\ Len(toActor) = states - answered - Busy /\ Busy \in {0, 1}
          /\ Busy = 1 => current.sequence = answered + 1
          /\ \A i \in DOMAIN toActor : toActor[i].sequence = answered + Busy + i
      BY <3>3 DEF ChannelInv, StatesInOrder, Busy
    <3>7. ASSUME NEW i \in DOMAIN toActor'
          PROVE  Last' - toActor'[i].stamp >= (states' - toActor'[i].sequence) * Period
      <4>1. CASE i = Len(toActor) + 1
        <5>1. toActor'[i] = s
          BY <1>0, <3>1, <4>1
        <5>2. states' - toActor'[i].sequence = 0 /\ Last' - toActor'[i].stamp = 0
          BY <1>0, <2>7, <3>1, <3>2, <5>1
        <5> QED BY <1>0, <5>2, OnePeriodMore
      <4>2. CASE i # Len(toActor) + 1
        <5>1. i \in 1..Len(toActor) /\ i \in DOMAIN toActor /\ toActor'[i] = toActor[i]
          BY <1>0, <3>1, <4>2
        <5>2. /\ toActor[i].sequence \in Nat /\ toActor[i].stamp \in Nat
              /\ toActor[i].sequence = answered + Busy + i
          BY <1>0, <3>6, <5>1
        <5>3. toActor[i].sequence <= states /\ states >= 1
          <6>1. PICK n \in Nat : n = Len(toActor) /\ i \in 1..n
            BY <1>0, <5>1
          <6> QED BY <1>0, <3>6, <5>2, <6>1
        <5>4. Last - toActor[i].stamp >= (states - toActor[i].sequence) * Period
          BY <1>2, <5>1
        <5> QED BY <3>5, <5>1, <5>2, <5>3, <5>4
      <4> QED BY <4>1, <4>2
    <3>8. Busy' = 1 =>
            Last' - current'.stamp >= (states' - current'.sequence) * Period
      <4>1. SUFFICES ASSUME Busy = 1
                     PROVE  Last' - current.stamp >= (states' - current.sequence) * Period
        BY <2>4
      <4>2. /\ current.sequence \in Nat /\ current.stamp \in Nat
            /\ current.sequence <= states /\ states >= 1
        <5>1. PICK n \in Nat : n = Len(toActor)
          BY <1>0
        <5> QED BY <1>0, <3>6, <4>1, <5>1
      <4> QED BY <1>2, <3>5, <4>1, <4>2
    <3>9. ASSUME NEW i \in DOMAIN toController'
          PROVE  Last' - toController'[i].sourced
                   >= (states' - toController'[i].source) * Period
      <4>1. toController' = toController /\ i \in DOMAIN toController
        BY <2>1
      <4>2. /\ toController[i].source = answered - Len(toController) + i
            /\ target.source = answered - Len(toController)
            /\ toController[i].source \in Nat /\ toController[i].sourced \in Nat
        BY <1>0, <2>1, <4>1 DEF ChannelInv, TargetsInOrder
      <4>3. toController[i].source <= states /\ states >= 1
        <5>1. PICK n \in Nat : n = Len(toActor)
          BY <1>0
        <5>2. PICK m \in Nat : m = Len(toController) /\ i \in 1..m
          BY <1>0, <4>1
        <5> QED BY <1>0, <3>6, <4>2, <5>1, <5>2
      <4> QED BY <1>2, <3>5, <4>1, <4>2, <4>3
    <3>10. now' - Last' >= SinceDue'
      BY <1>0, <2>3, <2>5, <2>7, <3>2
    <3> QED BY <3>7, <3>8, <3>9, <3>10 DEF Spaced, Apart
  <2> QED BY <1>0, <2>2, <2>6, <2>7, PublishEffect
<1>5. CASE Gap
  <2>1. /\ UNCHANGED <<phase, states, toActor, toController, current, actor>>
        /\ now' = now + 1 /\ slot < 0 /\ slot' = slot + 1 /\ phase = "active"
    BY <1>5 DEF Gap, Tick, actorVars
  <2>2. SinceDue' = 1 /\ SinceDue = 1
    <3>1. 0 % Period = 0
      BY <1>0, NextRemainder
    <3> QED BY <1>0, <2>1, <3>1 DEF SinceDue
  <2>3. Last' = Last
    BY <1>0, <2>1, LastStep
  <2>4. states >= 1 => now' - Last >= SinceDue'
    BY <1>0, <1>1, <1>2, <2>1, <2>2 DEF Running
  <2>5. Busy' = Busy
    BY <2>1 DEF Busy
  <2> QED BY <1>3, <2>1, <2>3, <2>4, <2>5
<1>6. CASE ShutdownOn
  <2>1. /\ UNCHANGED <<states, toActor, toController, current, actor>> /\ ~Running'
    BY <1>6 DEF ShutdownOn, actorVars, Running
  <2>2. Last' = Last /\ Busy' = Busy
    BY <1>0, <2>1, LastStep DEF Busy
  <2> QED BY <1>3, <2>1, <2>2
<1>7. CASE Quiet
  <2>1. UNCHANGED <<now, states, toActor, actor, current>> /\ Busy' = Busy
    BY <1>0, <1>7, QuietEffect DEF actorVars, Busy
  <2>2. Last' = Last
    BY <1>0, <2>1, LastStep
  <2>3. Running' /\ states >= 1 => now' - Last >= SinceDue'
    <3>1. Running' => UNCHANGED <<phase, slot>>
      BY <1>0, <1>7, QuietEffect DEF Running, SlotBegins
    <3> QED BY <1>2, <2>1, <3>1 DEF Running, SinceDue
  <2> QED BY <1>0, <1>3, <1>7, <2>1, <2>2, <2>3, QuietTargets
<1>8. CASE Receive
  <2>1. /\ UNCHANGED <<now, phase, slot, states, toController>>
        /\ toActor # <<>> /\ current' = toActor[1] /\ toActor' = Tail(toActor)
    BY <1>0, <1>8 DEF Receive, controller
  <2>2. /\ \A i \in DOMAIN toActor' :
             i + 1 \in DOMAIN toActor /\ toActor'[i] = toActor[i + 1]
        /\ 1 \in DOMAIN toActor
    BY <1>0, <2>1
  <2>3. Last' = Last
    BY <1>0, <1>8, LastStep
  <2>4. /\ \A i \in DOMAIN toActor' :
             Last' - toActor'[i].stamp >= (states' - toActor'[i].sequence) * Period
        /\ Last' - current'.stamp >= (states' - current'.sequence) * Period
    BY <1>2, <2>1, <2>2, <2>3
  <2> QED BY <1>2, <2>1, <2>3, <2>4 DEF Spaced, Apart, Running, SinceDue
<1>9. CASE Send
  <2>1. /\ UNCHANGED <<now, phase, slot, states, toActor, current>>
        /\ Busy = 1 /\ Busy' = 0
    BY <1>9 DEF Send, controller, Busy
  <2>2. Last' = Last
    BY <1>0, <2>1, LastStep
  <2>3. PICK t \in Target : /\ t.source = current.sequence /\ t.sourced = current.stamp
                            /\ toController' = Append(toController, t)
    <3> DEFINE t == [source |-> current.sequence, sourced |-> current.stamp,
                     stamp |-> stamp]
    <3>1. t \in Target
      BY <1>0 DEF Target, TypeOK
    <3>2. t.source = current.sequence /\ t.sourced = current.stamp
      OBVIOUS
    <3>3. toController' = Append(toController, t)
      BY <1>9 DEF Send
    <3> HIDE DEF t
    <3> QED BY <3>1, <3>2, <3>3
  <2>4. \A i \in DOMAIN toController' :
          Last' - toController'[i].sourced
            >= (states' - toController'[i].source) * Period
    <3>1. TAKE i \in DOMAIN toController'
    <3>2. CASE i = Len(toController) + 1
      <4>1. toController'[i] = t
        BY <1>0, <2>3, <3>2
      <4> QED BY <1>2, <2>1, <2>2, <2>3, <4>1
    <3>3. CASE i # Len(toController) + 1
      <4>1. i \in DOMAIN toController /\ toController'[i] = toController[i]
        BY <1>0, <2>3, <3>3
      <4> QED BY <1>2, <2>1, <2>2, <4>1
    <3> QED BY <3>2, <3>3
  <2> QED BY <1>2, <2>1, <2>2, <2>4 DEF Spaced, Apart, Running, SinceDue
<1>10. CASE \/ Compute \/ AwaitClosed \/ ReceiveFails \/ ComputeFails \/ SendFails
            \/ AwaitFails \/ ActorFails \/ UNCHANGED vars
  <2>1. /\ UNCHANGED <<now, phase, slot, states, toActor, toController, current>>
        /\ Busy' = 1 => Busy = 1
    BY <1>10, FaultEffect
    DEF Compute, AwaitClosed, Busy, vars, controller, actorVars
  <2>2. Last' = Last
    BY <1>0, <2>1, LastStep
  <2> QED BY <1>2, <1>3, <2>1, <2>2 DEF Running, SinceDue
<1> QED BY <1>4, <1>5, <1>6, <1>7, <1>8, <1>9, <1>10, StepKinds

--------------------------------------------------------------------------------
(* Then what holds of an actor that keeps up.                              *)

\* The assumptions on what a prompt actor is measured by.
LEMMA PromptTypes ==
  /\ Prompt \in Nat /\ NextWait \in Nat /\ TargetTimeout \in Nat /\ MaxAge \in Nat
  /\ GapTicks \in Nat /\ MaxLag \in Nat /\ Period \in Nat \ {0} /\ Period \in Int
  BY ScheduleAssumption

\* Reach is one state longer for each that was left out, and a period at least.
LEMMA ReachEffect ==
  ASSUME TypeOK
  PROVE  /\ Reach \in Nat /\ LongestGap = Reach + Prompt
         /\ Reach >= Prompt + GapTicks + Period
         /\ skipped = 0 => Reach = Prompt + GapTicks + Period
         /\ skipped' = skipped => Reach' = Reach
         /\ skipped' = skipped + 1 => Reach' = Reach + Period
<1>0. /\ Period \in Nat \ {0} /\ Period \in Int /\ Prompt \in Nat /\ GapTicks \in Nat
      /\ skipped \in Nat /\ skipped \in Int
  BY PromptTypes DEF TypeOK
<1>1. PICK m \in Nat : m = skipped * Period
  BY <1>0
<1>2. /\ (1 + skipped) * Period = m + Period
      /\ skipped = 0 => m = 0
      /\ skipped' = skipped + 1 => (1 + skipped') * Period = m + Period + Period
  <2>1. (skipped + 1) * Period = m + Period /\ skipped + 1 = 1 + skipped
    BY <1>0, <1>1, OnePeriodMore
  <2>2. ((skipped + 1) + 1) * Period = m + Period + Period
    <3>1. skipped + 1 \in Int
      BY <1>0
    <3> QED BY <1>0, <2>1, <3>1, OnePeriodMore
  <2>3. skipped' = skipped + 1 => 1 + skipped' = (skipped + 1) + 1
    BY <1>0
  <2>4. skipped = 0 => m = 0
    BY <1>0, <1>1, OnePeriodMore
  <2> QED BY <2>1, <2>2, <2>3, <2>4
<1>3. PICK w \in Nat : w = (1 + skipped) * Period /\ w = m + Period
  BY <1>0, <1>1, <1>2
<1>4. Reach = Prompt + GapTicks + w /\ LongestGap = Prompt + GapTicks + w + Prompt
  BY <1>3 DEF Reach, LongestGap
<1>5. skipped' = skipped => Reach' = Reach
  BY DEF Reach
<1>6. skipped' = skipped + 1 => Reach' = Reach + Period
  <2>1. SUFFICES ASSUME skipped' = skipped + 1 PROVE Reach' = Reach + Period
    OBVIOUS
  <2>2. PICK v \in Nat : v = (1 + skipped') * Period /\ v = w + Period
    BY <1>0, <1>1, <1>2, <1>3, <2>1
  <2>3. Reach' = Prompt + GapTicks + v
    BY <2>2 DEF Reach
  <2> QED BY <1>0, <1>3, <1>4, <2>2, <2>3
<1> QED BY <1>0, <1>1, <1>2, <1>3, <1>4, <1>5, <1>6

\* States are left out one at a time, and an actor that fell behind has done so.
LEMMA HistoryStep ==
  ASSUME TypeOK, [Next]_vars
  PROVE  /\ skipped' = skipped \/ skipped' = skipped + 1
         /\ late => late'
<1>1. CASE SlotOver
  <2>1. PICK h \in BOOLEAN : Publish(h)
    BY <1>1, SlotOverEffect
  <2> QED BY <2>1 DEF Publish, Tick
<1>2. CASE Gap \/ ShutdownOn
  BY <1>2 DEF Gap, ShutdownOn, Tick
<1>3. CASE Quiet
  BY <1>3, QuietEffect DEF history
<1>4. CASE Receive \/ Compute \/ Send \/ AwaitClosed \/ UNCHANGED vars
  BY <1>4 DEF Receive, Compute, Send, AwaitClosed, history, vars
<1>5. CASE ReceiveFails \/ ComputeFails \/ SendFails \/ AwaitFails \/ ActorFails
  BY <1>5, FaultEffect DEF history
<1> QED BY <1>1, <1>2, <1>3, <1>4, <1>5, StepKinds

\* So what leaves room for the actor now did before.
LEMMA FitsBefore ==
  ASSUME TypeOK, TypeOK', [Next]_vars, Fits'
  PROVE  Fits /\ Reach \in Nat /\ Reach' \in Nat /\ Reach' >= Reach
<1>0. /\ Period \in Nat \ {0} /\ Prompt \in Nat /\ TargetTimeout \in Nat
      /\ NextWait \in Nat
  BY PromptTypes
<1>1. ~late /\ (Reach' = Reach \/ Reach' = Reach + Period)
  BY HistoryStep, ReachEffect DEF Fits
<1>2. Reach \in Nat /\ LongestGap = Reach + Prompt
  BY ReachEffect
<1>3. LongestGap' = Reach' + Prompt
  <2>0. skipped' \in Int
    BY DEF TypeOK
  <2>1. PICK w \in Int : w = (1 + skipped') * Period
    <3>1. 1 + skipped' \in Int
      BY <2>0
    <3>2. (1 + skipped') * Period \in Int
      BY <3>1, PromptTypes
    <3> QED BY <3>2
  <2> QED BY <1>0, <2>1, PromptTypes DEF LongestGap, Reach
<1>4. RoomForPrompt
  <2>1. /\ LongestGap' <= TargetTimeout /\ LongestGap' <= NextWait
        /\ Prompt \in 1..MaxAge /\ Prompt < (1 + MaxLag) * Period
    BY DEF Fits, RoomForPrompt
  <2>2. LongestGap <= TargetTimeout /\ LongestGap <= NextWait
    BY <1>0, <1>1, <1>2, <1>3, <2>1
  <2> QED BY <2>1, <2>2 DEF RoomForPrompt
<1> QED BY <1>0, <1>1, <1>2, <1>4 DEF Fits

\* While time passes a prompt actor's states do not grow too old.
LEMMA TickInTime ==
  ASSUME ChannelInv, StampsInOrder, Tick, ~late'
  PROVE  /\ \A i \in DOMAIN toActor : now + 1 - toActor[i].stamp <= Prompt
         /\ Busy = 1 => now + 1 - current.stamp <= Prompt
<1>0. /\ now \in Nat /\ Prompt \in Nat /\ current.stamp \in Nat /\ current \in State
      /\ toActor \in Seq(State) /\ Len(toActor) \in Nat
      /\ \A s \in State : s.stamp \in Nat
      /\ \A i \in DOMAIN toActor : toActor[i].stamp \in Nat
  <2>1. \A s \in State : s.stamp \in Nat
    BY DEF State
  <2>2. now \in Nat /\ current \in State /\ toActor \in Seq(State)
    BY DEF ChannelInv, TypeOK
  <2> QED BY <2>1, <2>2, PromptTypes
<1>1. Unanswered # <<>> => now + 1 - Head(Unanswered).stamp <= Prompt
  <2>1. ~(Unanswered # <<>> /\ now + 1 - Head(Unanswered).stamp > Prompt)
    BY DEF Tick
  <2>2. SUFFICES ASSUME Unanswered # <<>>
                 PROVE  now + 1 - Head(Unanswered).stamp <= Prompt
    OBVIOUS
  <2>3. Head(Unanswered).stamp \in Nat
    <3>1. CASE actor \in {"compute", "send"}
      <4>1. Head(Unanswered) = current
        BY <1>0, <3>1 DEF Unanswered
      <4> QED BY <1>0, <4>1
    <3>2. CASE actor \notin {"compute", "send"}
      <4>1. toActor # <<>> /\ Head(Unanswered) = Head(toActor)
        BY <2>2, <3>2 DEF Unanswered
      <4>2. Head(toActor) \in State
        BY <1>0, <4>1
      <4> QED BY <1>0, <4>1, <4>2
    <3> QED BY <3>1, <3>2
  <2> QED BY <1>0, <2>1, <2>2, <2>3
<1>2. CASE Busy = 1
  <2>1. actor \in {"compute", "send"}
    BY <1>2 DEF Busy
  <2>2. Unanswered # <<>> /\ Head(Unanswered) = current
    <3>1. Unanswered = <<current>> \o toActor
      BY <2>1 DEF Unanswered
    <3>2. Len(Unanswered) > 0 /\ Head(Unanswered) = current
      BY <1>0, <3>1
    <3>3. Len(<<>>) = 0
      OBVIOUS
    <3> QED BY <3>2, <3>3
  <2>3. \A i \in DOMAIN toActor : current.stamp <= toActor[i].stamp
    BY <1>2 DEF StampsInOrder
  <2> QED BY <1>0, <1>1, <2>2, <2>3
<1>3. CASE Busy # 1
  <2>1. Unanswered = toActor
    BY <1>3 DEF Busy, Unanswered
  <2>2. ASSUME NEW i \in DOMAIN toActor PROVE now + 1 - toActor[i].stamp <= Prompt
    <3>1. toActor # <<>> /\ 1 \in DOMAIN toActor /\ Head(toActor) = toActor[1] /\ 1 <= i
      BY <1>0, <2>2
    <3>2. toActor[1].stamp <= toActor[i].stamp
      BY <2>2, <3>1 DEF StampsInOrder
    <3>3. now + 1 - toActor[1].stamp <= Prompt
      BY <1>1, <2>1, <3>1
    <3> QED BY <1>0, <2>2, <3>1, <3>2, <3>3
  <2> QED BY <1>3, <2>2
<1> QED BY <1>2, <1>3

\* What is known before a step.
Kept ==
  ChannelInv /\ SlotsInOrder /\ StampsInOrder /\ Spaced /\ InTime /\ Fits

\* Types and bounds, as the provers need them.
LEMMA KeptTypes ==
  ASSUME ChannelInv
  PROVE  /\ TypeOK /\ now \in Nat /\ states \in Nat /\ answered \in Nat /\ slot \in Int
         /\ stamp \in Nat /\ since \in Nat /\ skipped \in Nat
         /\ current \in State /\ current.stamp \in Nat
         /\ target \in Target /\ target.source \in Nat /\ target.stamp \in Nat
         /\ toActor \in Seq(State) /\ Len(toActor) \in Nat
         /\ toController \in Seq(Target) /\ Len(toController) \in Nat
         /\ DOMAIN toActor = 1..Len(toActor)
         /\ DOMAIN toController = 1..Len(toController)
         /\ \A i \in DOMAIN toActor : toActor[i].stamp \in Nat
         /\ \A i \in DOMAIN toController :
              toController[i].stamp \in Nat /\ toController[i].sourced \in Nat
<1>2. /\ TypeOK /\ now \in Nat /\ states \in Nat /\ answered \in Nat /\ slot \in Int
      /\ stamp \in Nat /\ since \in Nat /\ skipped \in Nat
      /\ current \in State /\ target \in Target
      /\ toActor \in Seq(State) /\ toController \in Seq(Target)
  BY DEF ChannelInv, TypeOK
<1> QED BY <1>2, RecordTypes

\* No state waits longer than Prompt for its answer.
LEMMA AnsweredStep ==
  ASSUME ChannelInv, StampsInOrder, AnsweredInTime, [Next]_vars, ~late',
         Prompt \in 1..MaxAge
  PROVE  AnsweredInTime'
<1>0. ChannelInv /\ StampsInOrder /\ AnsweredInTime /\ ~late'
  OBVIOUS
<1>00. Prompt \in Nat /\ Prompt >= 1
  BY PromptTypes
<1>1. CASE ActorOver'
  BY <1>1 DEF AnsweredInTime
<1>2. ASSUME Tick, UNCHANGED <<actor, current>>, toActor' = toActor
      PROVE  AnsweredInTime'
  <2>0. /\ \A i \in DOMAIN toActor : now + 1 - toActor[i].stamp <= Prompt
        /\ Busy = 1 => now + 1 - current.stamp <= Prompt
    BY <1>0, <1>2, TickInTime, Zenon
  <2>1. Busy' = Busy /\ now' = now + 1
    BY <1>2 DEF Busy, Tick
  <2>2. ASSUME NEW i \in DOMAIN toActor'
        PROVE  now' - toActor'[i].stamp <= Prompt
    <3>1. i \in DOMAIN toActor /\ toActor'[i] = toActor[i]
      BY <1>2
    <3>2. now + 1 - toActor[i].stamp <= Prompt
      BY <2>0, <3>1
    <3>3. now \in Nat /\ toActor[i].stamp \in Nat
      BY <1>0, <3>1, KeptTypes
    <3> QED BY <1>00, <2>1, <3>1, <3>2, <3>3
  <2>3. Busy' = 1 => now' - current'.stamp <= Prompt
    <3>1. current' = current /\ now \in Nat /\ current.stamp \in Nat
      BY <1>0, <1>2, KeptTypes
    <3> QED BY <1>00, <2>0, <2>1, <3>1
  <2> QED BY <2>2, <2>3 DEF AnsweredInTime
<1>3. ASSUME now' = now, UNCHANGED <<toActor, current>>,
             Busy' = 1 => Busy = 1, ~ActorOver
      PROVE  AnsweredInTime'
  BY <1>0, <1>3 DEF AnsweredInTime
<1>4. CASE SlotOver
  <2>1. PICK h \in BOOLEAN : Publish(h)
    BY <1>0, <1>4, KeptTypes, SlotOverEffect
  <2>2. Tick /\ UNCHANGED <<actor, current>> /\ now' = now + 1 /\ Busy' = Busy
    BY <1>0, <1>4, <2>1, KeptTypes, SlotOverEffect DEF Publish, actorVars, Tick, Busy
  <2>3. CASE toActor' = toActor
    BY <1>2, <2>2, <2>3
  <2>4. CASE toActor' = Append(toActor, [sequence |-> states + 1, stamp |-> now])
    <3>1. PICK s \in State : s.stamp = now /\ toActor' = Append(toActor, s)
      <4>1. [sequence |-> states + 1, stamp |-> now] \in State
        BY <1>0, KeptTypes DEF State
      <4> QED BY <2>4, <4>1
    <3>0. /\ \A i \in DOMAIN toActor : now + 1 - toActor[i].stamp <= Prompt
          /\ Busy = 1 => now + 1 - current.stamp <= Prompt
      BY <1>0, <2>2, TickInTime, Zenon
    <3>2. ASSUME NEW i \in DOMAIN toActor PROVE now' - toActor[i].stamp <= Prompt
      <4>1. now + 1 - toActor[i].stamp <= Prompt
        BY <3>0
      <4>2. now \in Nat /\ toActor[i].stamp \in Nat
        BY <1>0, KeptTypes
      <4> QED BY <1>00, <2>2, <4>1, <4>2
    <3>3. now' - s.stamp <= Prompt
      BY <1>0, <1>00, <2>2, <3>1, KeptTypes
    <3>4. /\ DOMAIN toActor' = 1..(Len(toActor) + 1) /\ toActor'[Len(toActor) + 1] = s
          /\ \A i \in DOMAIN toActor : toActor'[i] = toActor[i]
          /\ DOMAIN toActor = 1..Len(toActor) /\ Len(toActor) \in Nat
      BY <1>0, <3>1, KeptTypes
    <3>5. \A i \in DOMAIN toActor' : now' - toActor'[i].stamp <= Prompt
      <4>1. TAKE i \in DOMAIN toActor'
      <4>2. i = Len(toActor) + 1 \/ i \in DOMAIN toActor
        BY <3>4
      <4> QED BY <3>2, <3>3, <3>4, <4>2
    <3>6. Busy' = 1 => now' - current'.stamp <= Prompt
      <4>1. now \in Nat /\ current.stamp \in Nat
        BY <1>0, KeptTypes
      <4> QED BY <1>00, <2>2, <3>0, <4>1
    <3> QED BY <3>5, <3>6 DEF AnsweredInTime
  <2> QED BY <1>0, <2>1, <2>3, <2>4, KeptTypes, PublishEffect
<1>5. CASE Gap \/ ShutdownOn
  BY <1>2, <1>5 DEF Gap, ShutdownOn, actorVars
<1>6. CASE Quiet /\ ~ActorOver
  <2>1. UNCHANGED <<now, toActor, actor, current>>
    BY <1>0, <1>6, KeptTypes, QuietEffect DEF actorVars
  <2> QED BY <1>3, <1>6, <2>1 DEF Busy
<1>7. CASE Receive
  <2>1. /\ now' = now /\ toActor # <<>> /\ current' = toActor[1]
        /\ toActor' = Tail(toActor) /\ actor = "receive"
    BY <1>0, <1>7, KeptTypes DEF Receive
  <2>2. /\ \A i \in DOMAIN toActor' :
             i + 1 \in DOMAIN toActor /\ toActor'[i] = toActor[i + 1]
        /\ 1 \in DOMAIN toActor
    BY <1>0, <2>1, KeptTypes
  <2>3. \A i \in DOMAIN toActor : now - toActor[i].stamp <= Prompt
    BY <1>0, <2>1 DEF AnsweredInTime, ActorOver
  <2>4. now' - current'.stamp <= Prompt
    BY <2>1, <2>2, <2>3
  <2>5. \A i \in DOMAIN toActor' : now' - toActor'[i].stamp <= Prompt
    BY <2>1, <2>2, <2>3
  <2> QED BY <2>4, <2>5 DEF AnsweredInTime
<1>8. CASE Compute \/ Send
  <2>1. /\ UNCHANGED <<now, toActor, current>> /\ Busy = 1 /\ ~ActorOver
    BY <1>8 DEF Compute, Send, Busy, ActorOver
  <2> QED BY <1>3, <2>1
<1>9. CASE \/ AwaitClosed \/ ReceiveFails \/ ComputeFails \/ SendFails
           \/ AwaitFails \/ ActorFails
  BY <1>1, <1>9, FaultEffect DEF AwaitClosed, ActorOver
<1>10. CASE UNCHANGED vars
  BY <1>1, <1>3, <1>10 DEF vars, actorVars, Busy, ActorOver
<1>11. CASE Quiet /\ ActorOver
  <2>1. actor' = actor
    BY <1>0, <1>11, KeptTypes, QuietEffect DEF actorVars
  <2> QED BY <1>1, <1>11, <2>1 DEF ActorOver
<1> QED
  BY <1>4, <1>5, <1>6, <1>7, <1>8, <1>9, <1>10, <1>11, StepKinds

\* How long a target may wait in the step of the slot.
LEMMA WaitsEffect ==
  ASSUME ChannelInv, SlotsInOrder, Running
  PROVE  /\ step = "publish" => Waits = 0
         /\ phase = "prepare" /\ step = "drain" => Waits = 1
         /\ phase = "active" /\ slot <= 0 /\ step = "drain" =>
              Waits = 1 + GapTicks + slot
         /\ phase = "active" /\ slot > 0 /\ step = "drain" => Waits = 1
         /\ Waits \in 0..(1 + GapTicks)
<1>1. /\ slot \in Int /\ GapTicks \in Nat /\ step \in {"drain", "publish"}
      /\ phase \in {"prepare", "active", "shutdown", "closed"}
      /\ phase = "active" => slot >= -GapTicks
  BY PromptTypes DEF ChannelInv, TypeOK, SlotsInOrder
<1>2. CASE phase = "prepare"
  BY <1>1, <1>2 DEF Waits
<1>3. CASE phase = "active"
  BY <1>1, <1>3 DEF Waits
<1> QED BY <1>2, <1>3 DEF Running

\* A state of the actor was published before now.
LEMMA BusyStates ==
  ASSUME ChannelInv, ~ActorOver
  PROVE  /\ Busy \in {0, 1} /\ Len(toActor) = states - answered - Busy
         /\ states >= answered
         /\ Busy = 1 => states > answered
         /\ toActor # <<>> => states > answered /\ Len(toActor) >= 1
         /\ toActor = <<>> => states - answered = Busy
<1>1. Busy \in {0, 1} /\ Len(toActor) = states - answered - Busy
  BY DEF Busy, ChannelInv, StatesInOrder
<1>2. toActor # <<>> => Len(toActor) >= 1
  BY KeptTypes
<1>3. toActor = <<>> => Len(toActor) = 0
  OBVIOUS
<1>4. Len(toActor) \in Nat /\ states \in Nat /\ answered \in Nat
  BY KeptTypes
<1>5. CASE toActor = <<>>
  BY <1>1, <1>3, <1>4, <1>5
<1>6. CASE toActor # <<>>
  BY <1>1, <1>2, <1>4, <1>6
<1> QED BY <1>5, <1>6

\* No target waits longer than the gap for the controller.
LEMMA TakenStep ==
  ASSUME Kept, [Next]_vars
  PROVE  TakenInTime'
<1>0. ChannelInv /\ SlotsInOrder /\ StampsInOrder /\ AnsweredInTime
  BY DEF Kept, InTime
<1>00. Prompt \in Nat /\ GapTicks \in Nat
  BY PromptTypes
<1>1. CASE ~Running'
  BY <1>1 DEF TakenInTime
<1>2. Running =>
        /\ \A i \in DOMAIN toController :
             /\ now - toController[i].sourced <= Prompt + Waits
             /\ Last - toController[i].sourced <= Prompt
        /\ phase = "prepare" /\ target.source >= 1 => now - target.stamp <= Prompt
  BY DEF Kept, InTime, TakenInTime
<1>3. Last \in Nat
  BY <1>0, KeptTypes DEF Last
<1>4. CASE SlotOver
  <2>1. /\ Running /\ Running' /\ toController' = toController /\ target' = target
        /\ PrepareOn \/ phase' = "active"
    BY <1>0, <1>4, KeptTypes, SlotOverEffect DEF Running, Prepared
  <2>2. PICK h \in BOOLEAN : Publish(h)
    BY <1>0, <1>4, KeptTypes, SlotOverEffect
  <2>3. step = "publish" /\ step' = "drain" /\ now' = now + 1 /\ current' = current
    BY <1>0, <1>4, <2>2, KeptTypes, PublishEffect, SlotOverEffect DEF actorVars
  <2>4. Waits = 0
    BY <1>0, <2>1, <2>3, WaitsEffect
  <2>5. Waits' = 1
    <3>1. slot \in Nat
      BY <1>0, <1>4, SinceDueStep
    <3>2. CASE phase' = "prepare"
      BY <2>3, <3>2 DEF Waits
    <3>3. CASE phase' = "active" /\ slot' = slot + 1
      BY <2>3, <3>1, <3>3 DEF Waits
    <3>4. CASE phase' = "active" /\ slot' = -GapTicks
      BY <1>00, <2>3, <3>4 DEF Waits
    <3> QED BY <1>0, <1>4, <3>2, <3>3, <3>4, KeptTypes, SlotOverEffect DEF Prepared
  <2>6. Last' = Last \/ Last' = now
    <3>1. CASE toActor' = toActor
      BY <1>0, <2>3, <3>1, KeptTypes, LastStep
    <3>2. CASE toActor' = Append(toActor, [sequence |-> states + 1, stamp |-> now])
      <4>1. PICK s \in State : s.stamp = now /\ toActor' = Append(toActor, s)
        <5>1. [sequence |-> states + 1, stamp |-> now] \in State
          BY <1>0, KeptTypes DEF State
        <5> QED BY <3>2, <5>1
      <4> QED BY <1>0, <4>1, KeptTypes, LastStep
    <3> QED BY <1>0, <2>2, <3>1, <3>2, KeptTypes, PublishEffect
  <2>7. ASSUME NEW i \in DOMAIN toController'
        PROVE  /\ now' - toController'[i].sourced <= Prompt + Waits'
               /\ Last' - toController'[i].sourced <= Prompt
    <3>1. i \in DOMAIN toController /\ toController'[i] = toController[i]
      BY <2>1
    <3>2. /\ now - toController[i].sourced <= Prompt + Waits
          /\ Last - toController[i].sourced <= Prompt
          /\ toController[i].sourced \in Nat /\ now \in Nat
      BY <1>0, <1>2, <2>1, <3>1, KeptTypes
    <3> QED BY <1>00, <1>3, <2>3, <2>4, <2>5, <2>6, <3>1, <3>2
  <2>8. ~(phase' = "prepare" /\ target'.source >= 1)
    <3>1. CASE PrepareOn
      BY <2>1, <3>1 DEF PrepareOn
    <3> QED BY <2>1, <3>1
  <2> QED BY <2>7, <2>8 DEF TakenInTime
<1>5. CASE Gap
  <2>1. /\ Running /\ Running' /\ phase = "active" /\ phase' = "active"
        /\ UNCHANGED <<toController, target, toActor, current, step>>
        /\ now' = now + 1 /\ slot < 0 /\ slot' = slot + 1
    BY <1>5 DEF Gap, Running, Tick, actorVars
  <2>2. step = "drain" /\ slot \in Int
    BY <1>0, <2>1, KeptTypes DEF ChannelInv, StepsInOrder, TypeOK
  <2>3. Waits = 1 + GapTicks + slot
    BY <2>1, <2>2 DEF Waits
  <2>4. Waits' = 1 + GapTicks + (slot + 1)
    BY <2>1, <2>2 DEF Waits
  <2>5. Last' = Last
    BY <1>0, <2>1, KeptTypes, LastStep
  <2>6. ASSUME NEW i \in DOMAIN toController'
        PROVE  /\ now' - toController'[i].sourced <= Prompt + Waits'
               /\ Last' - toController'[i].sourced <= Prompt
    <3>1. i \in DOMAIN toController /\ toController'[i] = toController[i]
      BY <2>1
    <3>2. /\ now - toController[i].sourced <= Prompt + Waits
          /\ Last - toController[i].sourced <= Prompt
          /\ toController[i].sourced \in Nat /\ now \in Nat
      BY <1>0, <1>2, <2>1, <3>1, KeptTypes
    <3> QED BY <1>00, <2>1, <2>2, <2>3, <2>4, <2>5, <3>1, <3>2
  <2> QED BY <2>1, <2>6 DEF TakenInTime
<1>6. CASE SlotBegins
  <2>1. /\ Drain /\ phase' = phase /\ now' = now /\ toController' = <<>>
        /\ Running
    BY <1>6 DEF SlotBegins, Drain, Draining, Running
  <2>2. phase = "prepare" /\ target'.source >= 1 => now - target'.stamp <= Prompt
    <3>1. SUFFICES ASSUME phase = "prepare", target'.source >= 1
                   PROVE  now - target'.stamp <= Prompt
      OBVIOUS
    <3>2. step = "drain" /\ target.source = 0 /\ Waits = 1
      BY <1>0, <2>1, <3>1, WaitsEffect DEF Drain, Draining, SlotsInOrder
    <3>3. toController # <<>> /\ target' = toController[Len(toController)]
      BY <2>1, <3>1, <3>2 DEF Drain
    <3>4. Len(toController) \in DOMAIN toController
      BY <1>0, <3>3, KeptTypes
    <3>5. PICK i \in DOMAIN toController : target' = toController[i]
      BY <3>3, <3>4
    <3>6. /\ now - toController[i].sourced <= Prompt + 1
          /\ toController[i].sourced < toController[i].stamp
          /\ toController[i].sourced \in Nat /\ toController[i].stamp \in Nat
          /\ now \in Nat
      BY <1>0, <1>2, <2>1, <3>2, <3>5, KeptTypes DEF StampsInOrder
    <3> QED BY <1>00, <3>5, <3>6
  <2>3. DOMAIN toController' = {}
    BY <2>1
  <2> QED BY <2>1, <2>2, <2>3 DEF TakenInTime
<1>7. CASE Quiet /\ ~SlotBegins
  <2>1. ~Running'
    BY <1>0, <1>7, KeptTypes, QuietEffect DEF Running
  <2> QED BY <1>1, <2>1
<1>8. CASE ShutdownOn
  BY <1>1, <1>8 DEF ShutdownOn, Running
<1>9. ASSUME UNCHANGED <<now, phase, slot, step, target, toController>>, Last' = Last
      PROVE  TakenInTime'
  <2>1. Waits' = Waits /\ Running' = Running
    BY <1>9 DEF Waits, Running
  <2> QED BY <1>2, <1>9, <2>1 DEF TakenInTime
<1>10. CASE Send
  <2>1. /\ UNCHANGED <<now, phase, slot, step, target, toActor, current>>
        /\ Busy = 1 /\ ~ActorOver
    BY <1>10 DEF Send, controller, Busy, ActorOver
  <2>2. Last' = Last
    BY <1>0, <2>1, KeptTypes, LastStep
  <2>3. PICK t \in Target : /\ t.sourced = current.stamp
                            /\ toController' = Append(toController, t)
    <3> DEFINE t == [source |-> current.sequence, sourced |-> current.stamp,
                     stamp |-> stamp]
    <3>1. t \in Target
      BY <1>0, KeptTypes DEF Target, State
    <3>2. t.sourced = current.stamp
      OBVIOUS
    <3>3. toController' = Append(toController, t)
      BY <1>10 DEF Send
    <3> HIDE DEF t
    <3> QED BY <3>1, <3>2, <3>3
  <2>4. Waits' = Waits /\ Running' = Running
    BY <2>1 DEF Waits, Running
  <2>5. ASSUME Running, NEW i \in DOMAIN toController'
        PROVE  /\ now' - toController'[i].sourced <= Prompt + Waits'
               /\ Last' - toController'[i].sourced <= Prompt
    <3>1. CASE i = Len(toController) + 1
      <4>1. toController'[i] = t
        BY <1>0, <2>3, <3>1, KeptTypes
      <4>2. now - current.stamp <= Prompt /\ Last < now
        <5>1. states >= 1
          BY <1>0, <2>1, BusyStates, KeptTypes
        <5> QED BY <1>0, <2>1, <5>1 DEF AnsweredInTime, StampsInOrder
      <4>3. Waits \in Nat /\ now \in Nat /\ current.stamp \in Nat
        BY <1>0, <1>00, <2>5, KeptTypes, WaitsEffect
      <4> QED BY <1>00, <1>3, <2>1, <2>2, <2>3, <2>4, <4>1, <4>2, <4>3
    <3>2. CASE i # Len(toController) + 1
      <4>1. i \in DOMAIN toController /\ toController'[i] = toController[i]
        BY <1>0, <2>3, <3>2, KeptTypes
      <4> QED BY <1>2, <2>1, <2>2, <2>4, <2>5, <4>1
    <3> QED BY <3>1, <3>2
  <2> QED BY <1>2, <2>1, <2>4, <2>5 DEF TakenInTime
<1>11. CASE Receive
  <2>1. Last' = Last
    BY <1>0, <1>11, KeptTypes, LastStep
  <2> QED BY <1>9, <1>11, <2>1 DEF Receive, controller
<1>12. CASE \/ Compute \/ AwaitClosed \/ ReceiveFails \/ ComputeFails \/ SendFails
            \/ AwaitFails \/ ActorFails \/ UNCHANGED vars
  <2>1. UNCHANGED <<now, phase, slot, step, target, toController, toActor, current>>
    BY <1>12, FaultEffect DEF Compute, AwaitClosed, vars, controller, actorVars
  <2>2. Last' = Last
    BY <1>0, <2>1, KeptTypes, LastStep
  <2> QED BY <1>9, <2>1, <2>2
<1> QED
  BY <1>4, <1>5, <1>6, <1>7, <1>8, <1>10, <1>11, <1>12, StepKinds

\* The newest target stays the newest when the controller takes all, and when
\* nothing moves.
LEMMA NewestStep ==
  ASSUME TypeOK
  PROVE  /\ UNCHANGED <<toController, target>> => Newest' = Newest
         /\ Drain => Newest' = Newest
         /\ \A t \in Target : toController' = Append(toController, t) => Newest' = t.stamp
<1>0. toController \in Seq(Target) /\ Len(toController) \in Nat
  BY DEF TypeOK
<1>1. UNCHANGED <<toController, target>> => Newest' = Newest
  BY DEF Newest
<1>2. Drain => Newest' = Newest
  BY DEF Drain, Newest
<1>3. ASSUME NEW t \in Target, toController' = Append(toController, t)
      PROVE  Newest' = t.stamp
  <2>1. toController' # <<>> /\ toController'[Len(toController')] = t
    BY <1>0, <1>3
  <2> QED BY <2>1 DEF Newest
<1> QED BY <1>1, <1>2, <1>3

\* Slots to the next state: one less with each slot.
LEMMA ToDueStep ==
  ASSUME ChannelInv, SlotsInOrder, Running
  PROVE  /\ ToDue \in Nat
         /\ SlotOver /\ slot' = slot + 1 /\ ~Due => ToDue' = ToDue - 1
         /\ SlotOver /\ slot' = slot + 1 /\ Due => ToDue = 0 /\ ToDue' = Period - 1
         /\ slot' = -GapTicks => ToDue' = Period - 1 + GapTicks
         /\ slot < 0 /\ slot' = slot + 1 => ToDue' = ToDue - 1
<1>0. slot \in Int /\ GapTicks \in Nat /\ Period \in Nat \ {0} /\ 0 % Period = 0
  BY KeptTypes, PromptTypes, NextRemainder
<1>1. ToDue \in Nat
  <2>1. CASE slot < 0
    BY <1>0, <2>1 DEF ToDue
  <2>2. CASE slot >= 0
    <3>1. slot \in Nat
      BY <1>0, <2>2
    <3>2. slot % Period \in 0..(Period - 1)
      BY <1>0, <3>1, NextRemainder
    <3> QED BY <1>0, <2>2, <3>2 DEF ToDue
  <2> QED BY <1>0, <2>1, <2>2
<1>2. SlotOver /\ slot' = slot + 1 =>
        /\ ~Due => ToDue' = ToDue - 1
        /\ Due => ToDue = 0 /\ ToDue' = Period - 1
  <2>1. SUFFICES ASSUME SlotOver, slot' = slot + 1
                 PROVE  /\ ~Due => ToDue' = ToDue - 1
                        /\ Due => ToDue = 0 /\ ToDue' = Period - 1
    OBVIOUS
  <2>2. slot \in Nat
    BY <2>1, SinceDueStep
  <2>3. /\ slot % Period \in 0..(Period - 1) /\ (slot + 1) % Period \in 0..(Period - 1)
        /\ (slot + 1) % Period = 0 => slot % Period = Period - 1
        /\ (slot + 1) % Period # 0 => (slot + 1) % Period = (slot % Period) + 1
    BY <1>0, <2>2, NextRemainder
  <2>4. ToDue = Period - 1 - (slot % Period)
    BY <2>2 DEF ToDue
  <2>5. ToDue' = Period - 1 - ((slot + 1) % Period)
    BY <2>1, <2>2 DEF ToDue
  <2> QED BY <1>0, <2>3, <2>4, <2>5 DEF Due
<1>3. slot' = -GapTicks => ToDue' = Period - 1 + GapTicks
  BY <1>0 DEF ToDue
<1>4. slot < 0 /\ slot' = slot + 1 => ToDue' = ToDue - 1
  BY <1>0 DEF ToDue
<1> QED BY <1>1, <1>2, <1>3, <1>4

\* The stamps that are compared are numbers.
LEMMA StampTypes ==
  ASSUME ChannelInv
  PROVE  Last \in Nat /\ Newest \in Nat
<1>1. Last \in Nat
  BY KeptTypes DEF Last
<1>2. Newest \in Nat
  <2>1. CASE toController # <<>>
    <3>1. Len(toController) \in DOMAIN toController
      BY <2>1, KeptTypes
    <3> QED BY <2>1, <3>1, KeptTypes DEF Newest
  <2>2. CASE toController = <<>>
    BY <2>2, KeptTypes DEF Newest
  <2> QED BY <2>1, <2>2
<1> QED BY <1>1, <1>2

\* A state that the actor has not answered was published in the last Prompt ticks.
LEMMA LastInTime ==
  ASSUME ChannelInv, AnsweredInTime, ~ActorOver, states # answered
  PROVE  now - Last <= Prompt
<1>1. CASE toActor # <<>>
  <2>1. Len(toActor) \in DOMAIN toActor
    BY <1>1, KeptTypes
  <2> QED BY <1>1, <2>1 DEF Last, AnsweredInTime
<1>2. CASE toActor = <<>>
  <2>1. Busy = 1
    BY <1>2, BusyStates, KeptTypes
  <2> QED BY <1>2, <2>1 DEF Last, AnsweredInTime
<1> QED BY <1>1, <1>2

\* What reaches farther is kept, when nothing else moves.
LEMMA ReachKept ==
  ASSUME ChannelInv, Reach \in Nat, Reach' \in Nat, Reach' >= Reach,
         UNCHANGED <<toActor, current, actor, states, answered, since>>,
         Newest' = Newest, Last' = Last
  PROVE  /\ NeighboursInReach => NeighboursInReach'
         /\ AnswerInReach => AnswerInReach'
<1>0. /\ \A i \in DOMAIN toActor : toActor[i].stamp \in Nat
      /\ current.stamp \in Nat /\ Newest \in Nat /\ DOMAIN toActor = 1..Len(toActor)
      /\ Len(toActor) \in Nat /\ toActor \in Seq(State)
  BY KeptTypes, StampTypes
<1>1. Busy' = Busy
  BY DEF Busy
<1>2. toActor # <<>> => 1 \in DOMAIN toActor /\ toActor[1].stamp \in Nat
  <2>1. toActor # <<>> => Len(toActor) >= 1
    BY <1>0
  <2> QED BY <1>0, <2>1
<1>3. ASSUME NeighboursInReach PROVE NeighboursInReach'
  <2>1. Busy' = 1 /\ toActor' # <<>> => toActor'[1].stamp - current'.stamp <= Reach'
    BY <1>0, <1>1, <1>2, <1>3 DEF NeighboursInReach
  <2>2. ASSUME NEW i \in DOMAIN toActor', i > 1
        PROVE  toActor'[i].stamp - toActor'[i - 1].stamp <= Reach'
    <3>1. i \in DOMAIN toActor /\ i - 1 \in DOMAIN toActor
      BY <1>0, <2>2
    <3>2. toActor[i].stamp - toActor[i - 1].stamp <= Reach
      BY <1>3, <2>2, <3>1 DEF NeighboursInReach
    <3>3. toActor[i].stamp \in Nat /\ toActor[i - 1].stamp \in Nat
      BY <1>0, <3>1
    <3> QED BY <3>2, <3>3
  <2> QED BY <2>1, <2>2 DEF NeighboursInReach
<1>4. ASSUME AnswerInReach PROVE AnswerInReach'
  <2>1. SUFFICES ASSUME answered >= 1
                 PROVE  /\ Newest <= since
                        /\ states = answered => Last < Newest
                        /\ Busy = 1 => current.stamp - Newest <= Reach'
                        /\ Busy = 0 /\ toActor # <<>> =>
                             toActor[1].stamp - Newest <= Reach'
    BY <1>1 DEF AnswerInReach
  <2>2. /\ Newest <= since
        /\ states = answered => Last < Newest
        /\ Busy = 1 => current.stamp - Newest <= Reach
        /\ Busy = 0 /\ toActor # <<>> => toActor[1].stamp - Newest <= Reach
    BY <1>4, <2>1 DEF AnswerInReach
  <2>3. Busy = 1 => current.stamp - Newest <= Reach'
    BY <1>0, <2>2
  <2>4. Busy = 0 /\ toActor # <<>> => toActor[1].stamp - Newest <= Reach'
    BY <1>0, <1>2, <2>2
  <2> QED BY <2>2, <2>3, <2>4
<1> QED BY <1>3, <1>4

\* A slot that ends keeps everything within reach.
LEMMA SlotReach ==
  ASSUME Kept, SlotOver, [Next]_vars, Fits', ChannelInv', ~ActorOver
  PROVE  NeighboursInReach' /\ AnswerInReach' /\ PreparationInReach' /\ NextStateInReach'
<1>0. /\ ChannelInv /\ SlotsInOrder /\ StampsInOrder /\ AnsweredInTime /\ TakenInTime
      /\ TypeOK /\ TypeOK'
  BY DEF Kept, InTime, ChannelInv
<1>1. /\ Running /\ Running' /\ UNCHANGED <<toController, target, actor, current>>
      /\ UNCHANGED <<answered, since>>
      /\ \/ Prepared
         \/ PrepareOn /\ phase = "prepare" /\ phase' = phase /\ slot' = slot + 1
         \/ SlotEnds /\ phase = "active" /\ phase' = phase /\ slot' = slot + 1
  BY <1>0, SlotOverEffect DEF Running, actorVars
<1>2. PICK h \in BOOLEAN : /\ Publish(h) /\ (h = heard \/ h)
                           /\ (~Prepared => heard' = h) /\ (Prepared => h = heard)
  BY <1>0, SlotOverEffect
<1>3. /\ step = "publish" /\ now' = now + 1
      /\ \/ /\ Due /\ h /\ states' = states + 1 /\ skipped' = skipped
            /\ toActor' = Append(toActor, [sequence |-> states + 1, stamp |-> now])
         \/ /\ ~(Due /\ h) /\ UNCHANGED <<states, toActor>>
            /\ skipped' = IF phase = "active" /\ Due THEN skipped + 1 ELSE skipped
  BY <1>0, <1>2, PublishEffect
<1>4. /\ NeighboursInReach /\ AnswerInReach /\ PreparationInReach /\ NextStateInReach
  BY <1>1 DEF Kept, InTime, WithinReach
<1>5. /\ now \in Nat /\ states \in Nat /\ answered \in Nat /\ slot \in Nat
      /\ Last \in Nat /\ Newest \in Nat /\ ToDue \in Nat
      /\ Prompt \in Nat /\ GapTicks \in Nat /\ Period \in Nat \ {0}
      /\ Reach \in Nat /\ Reach' \in Nat /\ Reach' >= Reach
      /\ Reach >= Prompt + GapTicks + Period
      /\ skipped' = skipped + 1 => Reach' = Reach + Period
  BY <1>0, <1>1, KeptTypes, StampTypes, PromptTypes, ToDueStep, SinceDueStep,
     FitsBefore, ReachEffect
<1>6. Newest' = Newest /\ Busy' = Busy
  BY <1>0, <1>1, NewestStep DEF Busy
<1>7. /\ phase = "prepare" => skipped = 0
      /\ slot % Period \in 0..(Period - 1) /\ (slot + 1) % Period \in 0..(Period - 1)
      /\ Due => slot % Period = Period - 1 /\ (slot + 1) % Period = 0
      /\ ~Due => (slot + 1) % Period = (slot % Period) + 1
  <2>1. /\ slot % Period \in 0..(Period - 1) /\ (slot + 1) % Period \in 0..(Period - 1)
        /\ (slot + 1) % Period = 0 => slot % Period = Period - 1
        /\ (slot + 1) % Period # 0 => (slot + 1) % Period = (slot % Period) + 1
    BY <1>5, NextRemainder
  <2>2. phase = "prepare" => skipped = 0
    BY <1>0 DEF SlotsInOrder
  <2> QED BY <2>1, <2>2 DEF Due
<1>8. Prepared => phase = "prepare" /\ phase' = "active" /\ slot' = -GapTicks
                  /\ target.source >= 1
  <2>1. Prepared => phase = "prepare" /\ phase' = "active" /\ slot' = -GapTicks
                    /\ target.source > 0
    BY DEF Prepared
  <2> QED BY <1>0, <2>1, KeptTypes
<1>9. CASE UNCHANGED <<states, toActor>> /\ ~(Due /\ h)
  <2>1. Last' = Last
    BY <1>0, <1>1, <1>9, LastStep
  <2>2. NeighboursInReach' /\ AnswerInReach'
    BY <1>0, <1>1, <1>4, <1>5, <1>6, <1>9, <2>1, ReachKept
  <2>3. PreparationInReach'
    <3>1. SUFFICES ASSUME phase' = "prepare", states >= 1
                   PROVE  heard' /\ now' - Last <= (slot' % Period) + 1
      BY <1>9, <2>1 DEF PreparationInReach
    <3>2. phase = "prepare" /\ slot' = slot + 1 /\ heard' = h
      BY <1>1, <1>2, <1>8, <3>1
    <3>3. heard /\ now - Last <= (slot % Period) + 1
      BY <1>4, <3>1, <3>2 DEF PreparationInReach
    <3>4. h /\ ~Due
      BY <1>2, <1>9, <3>3
    <3> QED BY <1>3, <1>5, <1>7, <3>2, <3>3, <3>4
  <2>4. NextStateInReach'
    <3>1. PICK b \in Nat : b = IF states = answered THEN Newest ELSE Last
      BY <1>5
    <3>2. SUFFICES ASSUME phase' = "active" PROVE now' + ToDue' - b <= Reach'
      BY <1>1, <1>6, <1>9, <2>1, <3>1 DEF NextStateInReach
    <3>3. CASE phase = "active"
      <4>1. slot' = slot + 1 /\ now + ToDue - b <= Reach
        BY <1>1, <1>4, <1>8, <3>1, <3>3 DEF NextStateInReach
      <4>2. CASE ~Due
        <5>1. ToDue' = ToDue - 1
          BY <1>0, <1>1, <4>1, <4>2, ToDueStep
        <5> QED BY <1>3, <1>5, <4>1, <5>1
      <4>3. CASE Due
        <5>1. ToDue = 0 /\ ToDue' = Period - 1
          BY <1>0, <1>1, <4>1, <4>3, ToDueStep
        <5>2. Reach' = Reach + Period
          BY <1>3, <1>5, <1>9, <3>3, <4>3
        <5> QED BY <1>3, <1>5, <3>1, <4>1, <5>1, <5>2
      <4> QED BY <4>2, <4>3
    <3>4. CASE phase # "active"
      <4>1. Prepared /\ phase = "prepare"
        BY <1>1, <1>8, <3>2, <3>4
      <4>2. ToDue' = Period - 1 + GapTicks
        BY <1>0, <1>1, <1>8, <4>1, ToDueStep
      <4>3. now - b <= Prompt
        <5>1. CASE states # answered
          BY <1>0, <3>1, <5>1, LastInTime
        <5>2. CASE states = answered
          <6>1. CASE toController = <<>>
            BY <1>0, <1>1, <1>8, <3>1, <4>1, <5>2, <6>1 DEF TakenInTime, Newest
          <6>2. CASE toController # <<>>
            <7>1. PICK i \in DOMAIN toController :
                    i = Len(toController) /\ Newest = toController[i].stamp
              <8>1. Len(toController) \in DOMAIN toController
                BY <1>0, <6>2, KeptTypes
              <8> QED BY <6>2, <8>1 DEF Newest
            <7>2. /\ now - toController[i].sourced <= Prompt + Waits /\ Waits = 0
                  /\ toController[i].sourced < toController[i].stamp
                  /\ toController[i].sourced \in Nat /\ toController[i].stamp \in Nat
              BY <1>0, <1>1, <1>3, KeptTypes, WaitsEffect DEF TakenInTime, StampsInOrder
            <7>3. now - Newest <= Prompt
              BY <1>5, <7>1, <7>2
            <7> QED BY <3>1, <5>2, <7>3
          <6> QED BY <6>1, <6>2
        <5> QED BY <5>1, <5>2
      <4> QED BY <1>3, <1>5, <3>1, <4>2, <4>3
    <3> QED BY <3>3, <3>4
  <2> QED BY <2>2, <2>3, <2>4
<1>10. CASE /\ Due /\ h /\ states' = states + 1 /\ skipped' = skipped
            /\ toActor' = Append(toActor, [sequence |-> states + 1, stamp |-> now])
  <2>1. PICK s \in State : s.stamp = now /\ toActor' = Append(toActor, s)
    <3>1. [sequence |-> states + 1, stamp |-> now] \in State
      BY <1>5 DEF State
    <3> QED BY <1>10, <3>1
  <2>2. Last' = now /\ Reach' = Reach
    BY <1>0, <1>10, <2>1, LastStep, ReachEffect
  <2>3. /\ DOMAIN toActor' = 1..(Len(toActor) + 1) /\ toActor'[Len(toActor) + 1] = s
        /\ \A i \in DOMAIN toActor : toActor'[i] = toActor[i]
        /\ DOMAIN toActor = 1..Len(toActor) /\ Len(toActor) \in Nat
    BY <1>0, <2>1, KeptTypes
  <2>4. /\ toActor # <<>> => 1 \in DOMAIN toActor /\ toActor'[1] = toActor[1]
        /\ toActor = <<>> => Len(toActor) = 0 /\ toActor'[1] = s
        /\ toActor' # <<>>
    <3>1. toActor # <<>> => Len(toActor) >= 1
      BY <1>0, KeptTypes
    <3>2. toActor = <<>> => Len(toActor) = 0
      OBVIOUS
    <3>3. toActor' # <<>>
      BY <1>0, <2>1, KeptTypes
    <3> QED BY <2>3, <3>1, <3>2, <3>3
  <2>5. NeighboursInReach'
    <3>1. Busy = 1 => toActor'[1].stamp - current.stamp <= Reach
      <4>1. CASE toActor # <<>>
        BY <1>4, <2>4, <4>1 DEF NeighboursInReach
      <4>2. CASE toActor = <<>>
        <5>1. Busy = 1 => now - current.stamp <= Prompt
          BY <1>0 DEF AnsweredInTime
        <5>2. current.stamp \in Nat
          BY <1>0, KeptTypes
        <5> QED BY <1>5, <2>1, <2>4, <4>2, <5>1, <5>2
      <4> QED BY <4>1, <4>2
    <3>2. ASSUME NEW i \in DOMAIN toActor', i > 1
          PROVE  toActor'[i].stamp - toActor'[i - 1].stamp <= Reach
      <4>1. i - 1 \in DOMAIN toActor /\ toActor'[i - 1] = toActor[i - 1]
        BY <2>3, <3>2
      <4>2. CASE i \in DOMAIN toActor
        <5>1. toActor'[i] = toActor[i]
          BY <2>3, <4>2
        <5>2. toActor[i].stamp - toActor[i - 1].stamp <= Reach
          BY <1>4, <3>2, <4>2 DEF NeighboursInReach
        <5> QED BY <4>1, <5>1, <5>2
      <4>3. CASE i \notin DOMAIN toActor
        <5>1. toActor'[i] = s
          BY <2>3, <4>3
        <5>2. now - toActor[i - 1].stamp <= Prompt /\ toActor[i - 1].stamp \in Nat
          BY <1>0, <4>1, KeptTypes DEF AnsweredInTime
        <5> QED BY <1>5, <2>1, <4>1, <5>1, <5>2
      <4> QED BY <4>2, <4>3
    <3> QED BY <1>1, <1>6, <2>2, <3>1, <3>2 DEF NeighboursInReach
  <2>6. states' # answered /\ states >= answered
    BY <1>0, <1>5, <1>10, BusyStates
  <2>7. AnswerInReach'
    <3>1. SUFFICES ASSUME answered >= 1
                   PROVE  /\ Newest <= since
                          /\ Busy = 1 => current.stamp - Newest <= Reach
                          /\ Busy = 0 => toActor'[1].stamp - Newest <= Reach
      BY <1>1, <1>6, <2>2, <2>6 DEF AnswerInReach
    <3>2. /\ Newest <= since
          /\ states = answered => Last < Newest
          /\ Busy = 1 => current.stamp - Newest <= Reach
          /\ Busy = 0 /\ toActor # <<>> => toActor[1].stamp - Newest <= Reach
      BY <1>4, <3>1 DEF AnswerInReach
    <3>3. ASSUME Busy = 0, toActor = <<>> PROVE now - Newest <= Reach
      <4>1. states = answered /\ Last < Newest
        BY <1>0, <1>5, <3>2, <3>3, BusyStates
      <4>2. CASE phase = "active"
        <5>1. now + ToDue - Newest <= Reach
          BY <1>4, <4>1, <4>2 DEF NextStateInReach
        <5> QED BY <1>5, <5>1
      <4>3. CASE phase = "prepare"
        <5>1. now - Last <= (slot % Period) + 1
          BY <1>4, <1>5, <3>1, <4>1, <4>3 DEF PreparationInReach
        <5> QED BY <1>5, <1>7, <4>1, <5>1
      <4> QED BY <1>1, <4>2, <4>3 DEF Running
    <3>4. Busy = 0 => toActor'[1].stamp - Newest <= Reach
      BY <2>1, <2>4, <3>2, <3>3
    <3> QED BY <3>2, <3>4
  <2>8. PreparationInReach'
    <3>1. SUFFICES ASSUME phase' = "prepare"
                   PROVE  heard' /\ now' - now <= (slot' % Period) + 1
      BY <2>2 DEF PreparationInReach
    <3>2. slot' = slot + 1 /\ heard' = h
      BY <1>1, <1>2, <1>8, <3>1
    <3> QED BY <1>3, <1>5, <1>7, <1>10, <3>2
  <2>9. NextStateInReach'
    <3>1. SUFFICES ASSUME phase' = "active" PROVE now' + ToDue' - now <= Reach
      BY <1>1, <2>2, <2>6 DEF NextStateInReach
    <3>2. CASE slot' = slot + 1
      <4>1. ToDue' = Period - 1
        BY <1>0, <1>1, <1>10, <3>2, ToDueStep
      <4> QED BY <1>3, <1>5, <4>1
    <3>3. CASE slot' = -GapTicks
      <4>1. ToDue' = Period - 1 + GapTicks
        BY <1>0, <1>1, <3>3, ToDueStep
      <4> QED BY <1>3, <1>5, <4>1
    <3> QED BY <1>1, <1>8, <3>2, <3>3
  <2> QED BY <2>5, <2>7, <2>8, <2>9
<1> QED BY <1>3, <1>9, <1>10

\* No two neighbours on the channel get further apart than Reach.
LEMMA ReachStep ==
  ASSUME Kept, [Next]_vars, Fits', ChannelInv'
  PROVE  WithinReach'
<1>0. /\ ChannelInv /\ SlotsInOrder /\ StampsInOrder /\ AnsweredInTime /\ TakenInTime
      /\ TypeOK /\ TypeOK' /\ WithinReach
  BY DEF Kept, InTime, ChannelInv
<1>1. CASE ~Running' \/ ActorOver'
  BY <1>1 DEF WithinReach
<1>2. Running /\ ~ActorOver =>
        NeighboursInReach /\ AnswerInReach /\ PreparationInReach /\ NextStateInReach
  BY <1>0 DEF WithinReach
<1>3. /\ now \in Nat /\ states \in Nat /\ answered \in Nat /\ slot \in Int
      /\ Last \in Nat /\ Newest \in Nat /\ stamp \in Nat /\ current.stamp \in Nat
      /\ DOMAIN toActor = 1..Len(toActor) /\ Len(toActor) \in Nat
      /\ toActor \in Seq(State) /\ \A i \in DOMAIN toActor : toActor[i].stamp \in Nat
      /\ Reach \in Nat /\ Reach' \in Nat /\ Reach' >= Reach
  BY <1>0, KeptTypes, StampTypes, FitsBefore
<1>4. skipped' = skipped => Reach' = Reach
  BY <1>0, ReachEffect
<1>5. CASE SlotOver
  <2>1. CASE ActorOver
    <3>1. actor' = actor
      BY <1>0, <1>5, SlotOverEffect DEF actorVars
    <3> QED BY <1>1, <2>1, <3>1 DEF ActorOver
  <2> QED BY <1>0, <1>5, <2>1, SlotReach DEF WithinReach
<1>6. ASSUME UNCHANGED <<phase, slot, heard, states, now, skipped>>,
             UNCHANGED <<toActor, actor, current, answered, since>>,
             Newest' = Newest, Last' = Last
      PROVE  WithinReach'
  <2>1. /\ Running' = Running /\ ActorOver' = ActorOver /\ Reach' = Reach
        /\ Busy' = Busy /\ ToDue' = ToDue
    BY <1>4, <1>6 DEF Running, ActorOver, Busy, ToDue
  <2>2. NeighboursInReach => NeighboursInReach'
    BY <1>6, <2>1 DEF NeighboursInReach
  <2>3. AnswerInReach => AnswerInReach'
    BY <1>6, <2>1 DEF AnswerInReach
  <2>4. PreparationInReach => PreparationInReach'
    BY <1>6 DEF PreparationInReach
  <2>5. NextStateInReach => NextStateInReach'
    BY <1>6, <2>1 DEF NextStateInReach
  <2> QED BY <1>2, <2>1, <2>2, <2>3, <2>4, <2>5 DEF WithinReach
<1>7. CASE Gap /\ ~ActorOver
  <2>1. /\ Running /\ phase = "active" /\ phase' = "active"
        /\ UNCHANGED <<toController, target, toActor, current, actor, states, answered>>
        /\ UNCHANGED <<since, skipped>>
        /\ now' = now + 1 /\ slot < 0 /\ slot' = slot + 1
    BY <1>7 DEF Gap, Running, Tick, actorVars
  <2>2. Last' = Last /\ Newest' = Newest /\ Reach' = Reach
    BY <1>0, <1>4, <2>1, LastStep, NewestStep
  <2>3. ToDue' = ToDue - 1 /\ ToDue \in Nat
    BY <1>0, <2>1, ToDueStep
  <2>4. NeighboursInReach' /\ AnswerInReach'
    BY <1>0, <1>2, <1>3, <1>7, <2>1, <2>2, ReachKept
  <2>5. PreparationInReach'
    BY <2>1 DEF PreparationInReach
  <2>6. NextStateInReach'
    <3>1. PICK b \in Nat : b = IF states = answered THEN Newest ELSE Last
      BY <1>3
    <3>2. now + ToDue - b <= Reach
      BY <1>2, <1>7, <2>1, <3>1 DEF NextStateInReach
    <3>3. now' + ToDue' - b <= Reach'
      BY <1>3, <2>1, <2>2, <2>3, <3>2
    <3> QED BY <2>1, <2>2, <3>1, <3>3 DEF NextStateInReach
  <2> QED BY <2>4, <2>5, <2>6 DEF WithinReach
<1>8. CASE Gap /\ ActorOver
  BY <1>1, <1>8 DEF Gap, actorVars, ActorOver
<1>9. CASE SlotBegins
  <2>1. /\ UNCHANGED <<phase, slot, heard, states, now, skipped>>
        /\ UNCHANGED <<toActor, actor, current, answered, since>> /\ Drain
    BY <1>9 DEF SlotBegins, actorVars, history
  <2> QED BY <1>0, <1>6, <2>1, LastStep, NewestStep
<1>10. CASE Quiet /\ ~SlotBegins
  BY <1>0, <1>1, <1>10, QuietEffect DEF Running
<1>11. CASE ShutdownOn
  BY <1>1, <1>11 DEF ShutdownOn, Running
<1>12. CASE Receive
  <2>1. /\ UNCHANGED <<phase, slot, heard, states, now, skipped>>
        /\ UNCHANGED <<answered, since, target, toController>>
        /\ actor = "receive" /\ actor' = "compute" /\ Busy = 0 /\ Busy' = 1
        /\ toActor # <<>> /\ current' = toActor[1] /\ toActor' = Tail(toActor)
    BY <1>0, <1>12 DEF Receive, controller, history, Busy
  <2>2. /\ \A i \in DOMAIN toActor' :
             /\ i \in Nat /\ i + 1 \in DOMAIN toActor /\ toActor'[i] = toActor[i + 1]
             /\ i > 1 => i - 1 \in DOMAIN toActor'
        /\ toActor' # <<>> => 1 \in DOMAIN toActor'
    <3>1. toActor' \in Seq(State) /\ Len(toActor') = Len(toActor) - 1
      BY <1>3, <2>1
    <3>2. /\ DOMAIN toActor' = 1..(Len(toActor) - 1)
          /\ \A i \in 1..(Len(toActor) - 1) : toActor'[i] = toActor[i + 1]
      BY <1>3, <2>1, <3>1
    <3>3. toActor' # <<>> => Len(toActor') >= 1
      BY <3>1
    <3> QED BY <1>3, <3>1, <3>2, <3>3
  <2>3. Last' = Last /\ Newest' = Newest /\ Reach' = Reach /\ ToDue' = ToDue
    BY <1>0, <1>4, <1>12, <2>1, LastStep, NewestStep DEF ToDue
  <2>4. SUFFICES ASSUME Running
                 PROVE  /\ NeighboursInReach' /\ AnswerInReach'
                        /\ PreparationInReach' /\ NextStateInReach'
    BY <2>1 DEF WithinReach, Running
  <2>5. NeighboursInReach /\ AnswerInReach /\ PreparationInReach /\ NextStateInReach
    BY <1>2, <2>1, <2>4 DEF ActorOver
  <2>6. \A i \in DOMAIN toActor :
          i > 1 => toActor[i].stamp - toActor[i - 1].stamp <= Reach
    BY <2>5 DEF NeighboursInReach
  <2>7. NeighboursInReach'
    <3>1. ASSUME toActor' # <<>> PROVE toActor'[1].stamp - current'.stamp <= Reach
      <4>1. 1 + 1 \in DOMAIN toActor /\ toActor'[1] = toActor[1 + 1]
        BY <2>2, <3>1
      <4>2. toActor[1 + 1].stamp - toActor[(1 + 1) - 1].stamp <= Reach
        BY <2>6, <4>1
      <4>3. (1 + 1) - 1 = 1
        OBVIOUS
      <4> QED BY <2>1, <4>1, <4>2, <4>3
    <3>2. ASSUME NEW i \in DOMAIN toActor', i > 1
          PROVE  toActor'[i].stamp - toActor'[i - 1].stamp <= Reach
      <4>1. /\ i \in Nat /\ i + 1 \in DOMAIN toActor /\ i - 1 \in DOMAIN toActor'
            /\ toActor'[i] = toActor[i + 1] /\ toActor'[i - 1] = toActor[(i - 1) + 1]
        BY <2>2, <3>2
      <4>2. (i - 1) + 1 = i /\ (i + 1) - 1 = i /\ i + 1 > 1
        BY <3>2, <4>1
      <4>3. toActor[i + 1].stamp - toActor[(i + 1) - 1].stamp <= Reach
        BY <2>6, <4>1, <4>2
      <4> QED BY <4>1, <4>2, <4>3
    <3> QED BY <2>3, <3>1, <3>2 DEF NeighboursInReach
  <2>8. AnswerInReach'
    BY <2>1, <2>3, <2>5 DEF AnswerInReach
  <2>9. PreparationInReach' /\ NextStateInReach'
    BY <2>1, <2>3, <2>5 DEF PreparationInReach, NextStateInReach
  <2> QED BY <2>7, <2>8, <2>9
<1>13. CASE Compute
  <2>1. /\ UNCHANGED <<phase, slot, heard, states, now, skipped>>
        /\ UNCHANGED <<toActor, current, answered, since, target, toController>>
        /\ Busy' = Busy /\ ~ActorOver
    BY <1>13 DEF Compute, controller, history, Busy, ActorOver
  <2>2. Last' = Last /\ Newest' = Newest /\ Reach' = Reach /\ ToDue' = ToDue
        /\ Running' = Running
    BY <1>0, <1>4, <2>1, LastStep, NewestStep DEF ToDue, Running
  <2>3. NeighboursInReach => NeighboursInReach'
    BY <2>1, <2>2 DEF NeighboursInReach
  <2>4. AnswerInReach => AnswerInReach'
    BY <2>1, <2>2 DEF AnswerInReach
  <2>5. PreparationInReach => PreparationInReach'
    BY <2>1, <2>2 DEF PreparationInReach
  <2>6. NextStateInReach => NextStateInReach'
    BY <2>1, <2>2 DEF NextStateInReach
  <2> QED BY <1>2, <2>1, <2>2, <2>3, <2>4, <2>5, <2>6 DEF WithinReach
<1>14. CASE Send
  <2>1. /\ UNCHANGED <<phase, slot, heard, states, now, skipped>>
        /\ UNCHANGED <<toActor, current, target>>
        /\ answered' = answered + 1 /\ since' = now
        /\ actor = "send" /\ Busy = 1 /\ Busy' = 0 /\ ~ActorOver
    BY <1>14 DEF Send, controller, history, Busy, ActorOver
  <2>2. PICK t \in Target : t.stamp = stamp /\ toController' = Append(toController, t)
    <3> DEFINE t == [source |-> current.sequence, sourced |-> current.stamp,
                     stamp |-> stamp]
    <3>1. t \in Target
      BY <1>0, KeptTypes DEF Target, State
    <3>2. t.stamp = stamp
      OBVIOUS
    <3>3. toController' = Append(toController, t)
      BY <1>14 DEF Send
    <3> HIDE DEF t
    <3> QED BY <3>1, <3>2, <3>3
  <2>3. /\ Last' = Last /\ Newest' = stamp /\ Reach' = Reach /\ ToDue' = ToDue
        /\ Running' = Running
    BY <1>0, <1>4, <2>1, <2>2, LastStep, NewestStep DEF ToDue, Running
  <2>4. SUFFICES ASSUME Running
                 PROVE  /\ NeighboursInReach' /\ AnswerInReach'
                        /\ PreparationInReach' /\ NextStateInReach'
    BY <2>3 DEF WithinReach
  <2>5. NeighboursInReach /\ AnswerInReach /\ PreparationInReach /\ NextStateInReach
    BY <1>2, <2>1, <2>4
  <2>6. current.stamp < stamp /\ stamp <= now
    BY <1>0, <2>1 DEF StampsInOrder
  <2>7. /\ states > answered
        /\ states = answered' => toActor = <<>> /\ Last = current.stamp
    <3>1. /\ states > answered /\ Len(toActor) = states - answered - Busy
          /\ toActor # <<>> => Len(toActor) >= 1
      BY <1>0, <2>1, BusyStates
    <3>2. states = answered' => toActor = <<>>
      BY <1>3, <2>1, <3>1
    <3> QED BY <3>1, <3>2 DEF Last
  <2>8. NeighboursInReach'
    <3>1. \A i \in DOMAIN toActor :
            i > 1 => toActor[i].stamp - toActor[i - 1].stamp <= Reach
      BY <2>5 DEF NeighboursInReach
    <3> QED BY <2>1, <2>3, <3>1 DEF NeighboursInReach
  <2>9. AnswerInReach'
    <3>1. states = answered' => Last < stamp
      BY <2>6, <2>7
    <3>2. toActor # <<>> => toActor[1].stamp - stamp <= Reach
      <4>1. SUFFICES ASSUME toActor # <<>> PROVE toActor[1].stamp - stamp <= Reach
        OBVIOUS
      <4>2. toActor[1].stamp - current.stamp <= Reach
        BY <2>1, <2>5, <4>1 DEF NeighboursInReach
      <4>3. toActor[1].stamp \in Nat
        <5>1. Len(toActor) >= 1
          BY <1>3, <4>1
        <5> QED BY <1>3, <5>1
      <4> QED BY <1>3, <2>6, <4>2, <4>3
    <3> QED BY <2>1, <2>3, <2>6, <3>1, <3>2 DEF AnswerInReach
  <2>10. PreparationInReach'
    BY <2>1, <2>3, <2>5 DEF PreparationInReach
  <2>11. NextStateInReach'
    <3>1. SUFFICES ASSUME phase = "active"
                   PROVE  now + ToDue - (IF states = answered' THEN stamp ELSE Last)
                            <= Reach
      BY <2>1, <2>3 DEF NextStateInReach
    <3>2. now + ToDue - Last <= Reach /\ ToDue \in Nat
      <4>1. states # answered
        BY <1>3, <2>7
      <4>2. ToDue \in Nat
        BY <1>0, <2>4, ToDueStep
      <4> QED BY <2>5, <3>1, <4>1, <4>2 DEF NextStateInReach
    <3>3. CASE states = answered'
      <4>1. Last = current.stamp
        BY <2>7, <3>3
      <4>2. now + ToDue - stamp <= Reach
        BY <1>3, <2>6, <3>2, <4>1
      <4> QED BY <3>3, <4>2
    <3>4. CASE states # answered'
      BY <3>2, <3>4
    <3> QED BY <3>3, <3>4
  <2> QED BY <2>8, <2>9, <2>10, <2>11
<1>15. CASE \/ AwaitClosed \/ ReceiveFails \/ ComputeFails \/ SendFails
            \/ AwaitFails \/ ActorFails
  BY <1>1, <1>15, FaultEffect DEF AwaitClosed, ActorOver
<1>16. CASE UNCHANGED vars
  <2>1. /\ UNCHANGED <<phase, slot, heard, states, now, skipped>>
        /\ UNCHANGED <<toActor, actor, current, answered, since>>
        /\ UNCHANGED <<toController, target>>
    BY <1>16 DEF vars, controller, actorVars, history
  <2> QED BY <1>0, <1>6, <2>1, LastStep, NewestStep
<1>17. Quiet => SlotBegins \/ (Quiet /\ ~SlotBegins)
  OBVIOUS
<1> QED
  BY <1>5, <1>7, <1>8, <1>9, <1>10, <1>11, <1>12, <1>13, <1>14, <1>15, <1>16,
     <1>17, StepKinds

\* While the actor runs, its newest target and its last answer are recent.
LEMMA RecentAnswer ==
  ASSUME Kept, Running, ~ActorOver, answered >= 1
  PROVE  /\ now - Newest <= LongestGap
         /\ states = answered => now - since <= Reach
<1>0. /\ ChannelInv /\ SlotsInOrder /\ StampsInOrder /\ AnsweredInTime /\ TypeOK
      /\ NeighboursInReach /\ AnswerInReach /\ PreparationInReach /\ NextStateInReach
  BY DEF Kept, InTime, ChannelInv, WithinReach
<1>1. /\ now \in Nat /\ states \in Nat /\ answered \in Nat /\ since \in Nat
      /\ Last \in Nat /\ Newest \in Nat /\ current.stamp \in Nat /\ slot \in Int
      /\ Reach \in Nat /\ Prompt \in Nat /\ Period \in Nat \ {0} /\ GapTicks \in Nat
      /\ LongestGap = Reach + Prompt /\ Reach >= Prompt + GapTicks + Period
      /\ ToDue \in Nat
  BY <1>0, KeptTypes, StampTypes, PromptTypes, ReachEffect, ToDueStep
<1>2. /\ Newest <= since
      /\ states = answered => Last < Newest
      /\ Busy = 1 => current.stamp - Newest <= Reach
      /\ Busy = 0 /\ toActor # <<>> => toActor[1].stamp - Newest <= Reach
  BY <1>0 DEF AnswerInReach
<1>3. CASE states = answered
  <2>1. CASE phase = "active"
    <3>1. now + ToDue - Newest <= Reach
      BY <1>0, <1>3, <2>1 DEF NextStateInReach
    <3> QED BY <1>1, <1>2, <3>1
  <2>2. CASE phase = "prepare"
    <3>1. now - Last <= (slot % Period) + 1
      BY <1>0, <1>1, <1>3, <2>2 DEF PreparationInReach
    <3>2. slot % Period \in 0..(Period - 1)
      <4>1. slot \in Nat
        BY <1>0, <1>1, <2>2 DEF SlotsInOrder
      <4> QED BY <1>1, <4>1, NextRemainder
    <3> QED BY <1>1, <1>2, <1>3, <3>1, <3>2
  <2> QED BY <2>1, <2>2 DEF Running
<1>4. CASE states # answered
  <2>1. CASE Busy = 1
    <3>1. now - current.stamp <= Prompt
      BY <1>0, <2>1 DEF AnsweredInTime
    <3> QED BY <1>1, <1>2, <1>4, <2>1, <3>1
  <2>2. CASE Busy = 0
    <3>1. toActor # <<>>
      BY <1>0, <1>1, <1>4, <2>2, BusyStates
    <3>2. 1 \in DOMAIN toActor
      BY <1>0, <3>1, KeptTypes
    <3>3. now - toActor[1].stamp <= Prompt /\ toActor[1].stamp \in Nat
      BY <1>0, <3>2, KeptTypes DEF AnsweredInTime
    <3> QED BY <1>1, <1>2, <1>4, <2>2, <3>1, <3>3
  <2> QED BY <2>1, <2>2 DEF Busy
<1> QED BY <1>3, <1>4

\* No target in the channel is too old, or too far behind.
LEMMA NoneRefused ==
  ASSUME Kept, Draining
  PROVE  \A i \in DOMAIN toController : ~Refused(toController[i])
<1>0. /\ ChannelInv /\ SlotsInOrder /\ StampsInOrder /\ Spaced /\ TakenInTime /\ TypeOK
  BY DEF Kept, InTime, ChannelInv
<1>1. Running
  BY DEF Draining, Running
<1>2. /\ now \in Nat /\ states \in Nat /\ Last \in Nat /\ Period \in Nat \ {0}
      /\ Period \in Int /\ Prompt \in Nat /\ GapTicks \in Nat /\ TargetTimeout \in Nat
      /\ MaxLag \in Nat /\ Reach \in Nat /\ Waits \in 0..(1 + GapTicks)
      /\ LongestGap = Reach + Prompt /\ Reach >= Prompt + GapTicks + Period
  BY <1>0, <1>1, KeptTypes, StampTypes, PromptTypes, ReachEffect, WaitsEffect
<1>3. /\ LongestGap <= TargetTimeout /\ Prompt < (1 + MaxLag) * Period
      /\ Prompt >= 1
  <2>1. /\ LongestGap <= TargetTimeout /\ Prompt < (1 + MaxLag) * Period
        /\ Prompt \in 1..MaxAge
    BY DEF Kept, Fits, RoomForPrompt
  <2> QED BY <1>2, <2>1
<1> SUFFICES ASSUME NEW i \in DOMAIN toController
             PROVE  ~Refused(toController[i])
  OBVIOUS
<1>4. /\ toController[i].stamp \in Nat /\ toController[i].sourced \in Nat
      /\ toController[i].source \in Nat
  <2>1. \A t \in Target : t.source \in Nat
    BY DEF Target
  <2> QED BY <1>0, <2>1, KeptTypes
<1>5. now - toController[i].stamp <= TargetTimeout
  <2>1. /\ now - toController[i].sourced <= Prompt + Waits
        /\ toController[i].sourced < toController[i].stamp
    BY <1>0, <1>1 DEF TakenInTime, StampsInOrder
  <2> QED BY <1>2, <1>3, <1>4, <2>1
<1>6. states - toController[i].source <= MaxLag
  <2>1. /\ Last - toController[i].sourced <= Prompt
        /\ Last - toController[i].sourced
             >= (states - toController[i].source) * Period
    BY <1>0, <1>1 DEF TakenInTime, Spaced, Apart
  <2>2. PICK a \in Int : a = states - toController[i].source
    BY <1>2, <1>4
  <2>3. PICK b \in Int : b = 1 + MaxLag
    BY <1>2
  <2>4. a * Period <= Prompt /\ Prompt < b * Period
    <3>1. a * Period \in Int
      BY <1>2
    <3> QED BY <1>2, <1>3, <1>4, <2>1, <2>2, <2>3, <3>1
  <2>5. a < b
    <3>1. SUFFICES ASSUME a >= b PROVE FALSE
      OBVIOUS
    <3>2. a * Period >= b * Period
      BY <1>2, <3>1
    <3>3. a * Period \in Int /\ b * Period \in Int
      BY <1>2
    <3> QED BY <1>2, <2>4, <3>2, <3>3
  <2> QED BY <1>2, <1>4, <2>2, <2>3, <2>5
<1> QED BY <1>2, <1>4, <1>5, <1>6 DEF Refused, Stale, Lagging

\* The watchdogs of both sides, the lag and the ages cut nobody off.
LEMMA NotCutOffStep ==
  ASSUME Kept, [Next]_vars, Fits', ChannelInv'
  PROVE  NotCutOff'
<1>0. /\ ChannelInv /\ SlotsInOrder /\ StampsInOrder /\ AnsweredInTime /\ TypeOK
      /\ NotCutOff
  BY DEF Kept, InTime, ChannelInv
<1>00. /\ now \in Nat /\ states \in Nat /\ answered \in Nat /\ since \in Nat
       /\ current.stamp \in Nat /\ slot \in Int
       /\ MaxAge \in Nat /\ Prompt \in Nat /\ TargetTimeout \in Nat /\ NextWait \in Nat
       /\ Prompt >= 1 /\ Prompt <= MaxAge /\ Reach \in Nat
       /\ LongestGap = Reach + Prompt
       /\ LongestGap <= TargetTimeout /\ LongestGap <= NextWait
  <2>1. /\ LongestGap <= TargetTimeout /\ LongestGap <= NextWait
        /\ Prompt \in 1..MaxAge
    BY DEF Kept, Fits, RoomForPrompt
  <2>2. /\ now \in Nat /\ states \in Nat /\ answered \in Nat /\ since \in Nat
        /\ current.stamp \in Nat /\ slot \in Int
    BY <1>0, KeptTypes
  <2>3. Reach \in Nat /\ LongestGap = Reach + Prompt
    BY <1>0, ReachEffect
  <2> QED BY <2>1, <2>2, <2>3, PromptTypes
<1>1. ASSUME stop' = stop, why' = why, states' = states, Running' => Running
      PROVE  NotCutOff'
  BY <1>0, <1>1 DEF NotCutOff
<1>2. ASSUME stop' \notin {"lag", "stale", "watchdog"}, why' = why, ~Running'
      PROVE  NotCutOff'
  BY <1>0, <1>2 DEF NotCutOff
<1>3. ASSUME stop' = stop, why' \notin {"stale", "timeout"}
      PROVE  NotCutOff'
  BY <1>0, <1>3 DEF NotCutOff
<1>4. CASE SlotOver
  <2>1. stop' = stop /\ why' = why /\ actor' = actor
    BY <1>0, <1>4, SlotOverEffect DEF actorVars
  <2>2. Running' /\ Running
    BY <1>0, <1>4, SlotOverEffect DEF Running
  <2>3. CASE states' = states
    BY <1>1, <2>1, <2>2, <2>3
  <2>4. CASE states' # states
    <3>1. PICK h \in BOOLEAN : Publish(h)
      BY <1>0, <1>4, SlotOverEffect
    <3>2. actor # "fault"
      BY <1>0, <2>4, <3>1, PublishEffect DEF ActorGone
    <3>3. why = "none"
      BY <1>0, <3>2 DEF SlotsInOrder
    <3> QED BY <1>0, <2>1, <3>3 DEF NotCutOff
  <2> QED BY <2>3, <2>4
<1>5. CASE Gap
  BY <1>1, <1>5 DEF Gap, actorVars, Running
<1>6. CASE ShutdownOn
  BY <1>1, <1>6 DEF ShutdownOn, actorVars, Running
<1>7. CASE DrainRefuses
  <2>1. PICK i \in 1..Len(toController) : Refused(toController[i])
    BY <1>7 DEF DrainRefuses
  <2>2. i \in DOMAIN toController
    BY <1>0, KeptTypes
  <2> QED BY <1>7, <2>1, <2>2, NoneRefused DEF DrainRefuses
<1>8. CASE DrainDisconnected \/ PublishFails
  BY <1>2, <1>8 DEF DrainDisconnected, PublishFails, Throw, actorVars, Running
<1>9. CASE SlotBegins
  BY <1>1, <1>9 DEF SlotBegins, actorVars, Running
<1>10. CASE Watchdog
  <2>1. /\ Drain /\ WatchdogExpired /\ phase = "active" /\ Running /\ ~ActorGone
    BY <1>10 DEF Watchdog, Drain, Draining, Running
  <2>2. ~ActorOver
    BY <1>0, <2>1 DEF ActorOver, ActorGone, ChannelInv, EndInOrder
  <2>3. /\ target.source >= 1 /\ target.source = answered - Len(toController)
        /\ Len(toController) \in Nat
    BY <1>0, <2>1, KeptTypes DEF SlotsInOrder, ChannelInv, TargetsInOrder
  <2>4. answered >= 1
    BY <1>00, <2>3
  <2>5. target'.stamp = Newest /\ target'.source >= 1
    <3>1. CASE toController = <<>>
      BY <2>1, <2>3, <3>1 DEF Drain, Newest
    <3>2. CASE toController # <<>>
      <4>1. target' = toController[Len(toController)] /\ Newest = target'.stamp
        BY <2>1, <3>2 DEF Drain, Newest
      <4>2. PICK i \in DOMAIN toController : i = Len(toController)
        <5>1. Len(toController) >= 1
          BY <1>0, <3>2, KeptTypes
        <5>2. Len(toController) \in DOMAIN toController
          BY <1>0, <5>1, KeptTypes
        <5> QED BY <5>2
      <4>3. toController[i].source = answered - Len(toController) + i
        BY <1>0 DEF ChannelInv, TargetsInOrder
      <4> QED BY <1>00, <2>3, <2>4, <4>1, <4>2, <4>3
    <3> QED BY <3>1, <3>2
  <2>6. now - Newest <= LongestGap
    BY <2>1, <2>2, <2>4, RecentAnswer
  <2>7. Newest \in Nat
    BY <1>0, StampTypes
  <2>8. ~(target'.source = 0) /\ ~(now - target'.stamp > TargetTimeout)
    BY <1>00, <2>5, <2>6, <2>7
  <2> QED BY <2>1, <2>8 DEF WatchdogExpired
<1>11. CASE LoopEnds
  <2>1. stop' = stop \/ stop' = "not_ready"
    BY <1>11 DEF LoopEnds
  <2>2. why' = why /\ ~Running' /\ stop' \notin {"lag", "stale", "watchdog"}
    BY <1>0, <1>11, <2>1 DEF LoopEnds, actorVars, Running, NotCutOff
  <2> QED BY <1>2, <2>2
<1>12. CASE Close
  BY <1>1, <1>12 DEF Close, actorVars, Running
<1>13. CASE ControllerFails
  <2>1. stop' = "other" /\ why' = why /\ ~Running'
    <3>1. CASE phase = "shutdown"
      BY <1>13, <3>1 DEF ControllerFails, actorVars, Running
    <3>2. CASE phase # "shutdown"
      BY <1>13, <3>2 DEF ControllerFails, Throw, actorVars, Running
    <3> QED BY <3>1, <3>2
  <2> QED BY <1>2, <2>1
<1>14. CASE Receive \/ Compute \/ Send \/ AwaitClosed
  BY <1>1, <1>14 DEF Receive, Compute, Send, AwaitClosed, controller, Running
<1>15. CASE ReceiveFails
  <2>1. actor = "receive" /\ ~ActorOver /\ Busy = 0 /\ stop' = stop
        /\ states' = states /\ Running' = Running
    BY <1>15, FaultEffect DEF ReceiveFails, ActorOver, Busy, controller, Running
  <2>2. CASE toActor # <<>> /\ ~Reset
    <3>1. now - Head(toActor).stamp > MaxAge
      BY <1>15, <2>2 DEF ReceiveFails
    <3>2. Head(toActor) = toActor[1] /\ 1 \in DOMAIN toActor
      BY <1>0, <2>2, KeptTypes
    <3>3. now - toActor[1].stamp <= Prompt /\ toActor[1].stamp \in Nat
      BY <1>0, <2>1, <3>2, KeptTypes DEF AnsweredInTime
    <3> QED BY <1>00, <3>1, <3>2, <3>3
  <2>3. CASE ~(toActor # <<>> /\ ~Reset)
    <3>1. \/ why' = "gone"
          \/ /\ why' = "timeout" /\ ~ControllerGone
             /\ now - since >= IF current = NoState THEN FirstWait ELSE NextWait
      BY <1>15, <2>3 DEF ReceiveFails, Fault
    <3>2. CASE why' = "gone"
      BY <1>3, <2>1, <3>2
    <3>3. CASE /\ why' = "timeout" /\ ~ControllerGone
               /\ now - since >= IF current = NoState THEN FirstWait ELSE NextWait
      <4>1. SUFFICES ASSUME Running, states > 0 PROVE FALSE
        BY <1>0, <2>1, <3>3 DEF NotCutOff
      <4>2. toActor = <<>>
        BY <2>1, <2>3, <3>3 DEF Reset, ActorGone
      <4>3. states = answered /\ answered >= 1
        BY <1>0, <1>00, <2>1, <4>1, <4>2, BusyStates
      <4>4. current # NoState
        BY <1>0, <4>3 DEF SlotsInOrder, NoState
      <4>5. now - since >= NextWait
        BY <3>3, <4>4
      <4>6. now - since <= Reach
        BY <2>1, <4>1, <4>3, RecentAnswer
      <4> QED BY <1>00, <4>5, <4>6
    <3> QED BY <3>1, <3>2, <3>3
  <2> QED BY <2>2, <2>3
<1>16. CASE ComputeFails
  <2>1. now - current.stamp > MaxAge /\ ~ActorOver /\ Busy = 1
    BY <1>16 DEF ComputeFails, ActorOver, Busy
  <2>2. now - current.stamp <= Prompt
    BY <1>0, <2>1 DEF AnsweredInTime
  <2> QED BY <1>00, <2>1, <2>2
<1>17. CASE SendFails \/ AwaitFails \/ ActorFails
  BY <1>3, <1>17 DEF SendFails, AwaitFails, ActorFails, Fault, controller
<1>18. CASE UNCHANGED vars
  BY <1>1, <1>18 DEF vars, controller, actorVars, Running
<1> QED
  BY <1>4, <1>5, <1>6, <1>7, <1>8, <1>9, <1>10, <1>11, <1>12, <1>13, <1>14, <1>15,
     <1>16, <1>17, <1>18, StepKinds DEF Quiet

\* At first nothing is under way, and nobody waits.
LEMMA InitInTime ==
  ASSUME Init
  PROVE  SlotsInOrder /\ StampsInOrder /\ Spaced /\ InTime
<1>1. /\ now = 0 /\ phase = "prepare" /\ slot = 0 /\ step = "drain" /\ states = 0
      /\ target = NoTarget /\ stop = "none" /\ actor = "receive" /\ current = NoState
      /\ answered = 0 /\ why = "none" /\ toActor = <<>> /\ toController = <<>>
      /\ skipped = 0
  BY DEF Init
<1>2. /\ DOMAIN toActor = {} /\ DOMAIN toController = {} /\ Busy = 0
      /\ target.source = 0
  BY <1>1 DEF Busy, NoTarget
<1>3. SlotsInOrder
  BY <1>1, <1>2 DEF SlotsInOrder
<1>4. StampsInOrder
  BY <1>1, <1>2 DEF StampsInOrder
<1>5. Spaced
  BY <1>1, <1>2 DEF Spaced
<1>6. AnsweredInTime /\ TakenInTime
  BY <1>1, <1>2 DEF AnsweredInTime, TakenInTime
<1>7. WithinReach
  BY <1>1, <1>2
  DEF WithinReach, NeighboursInReach, AnswerInReach, PreparationInReach,
      NextStateInReach
<1>8. NotCutOff
  BY <1>1 DEF NotCutOff
<1> QED BY <1>3, <1>4, <1>5, <1>6, <1>7, <1>8 DEF InTime

(***************************************************************************)
(* An actor that keeps up is never cut off, by the watchdogs of either     *)
(* side, the lag or an age, whatever the schedule and the limits are, as   *)
(* long as they leave room for its response time.                          *)
(***************************************************************************)
THEOREM PromptNeverCutOff == Spec => []PromptActorNeverCutOff
<1> DEFINE Inv ==
      ChannelInv /\ SlotsInOrder /\ StampsInOrder /\ Spaced /\ (Fits => InTime)
<1>1. Init => Inv
  BY InitChannelInv, InitInTime
<1>2. Inv /\ [Next]_vars => Inv'
  <2>1. SUFFICES ASSUME Inv, [Next]_vars PROVE Inv'
    OBVIOUS
  <2>2. ChannelInv'
    BY <2>1, NextChannelInv
  <2>3. SlotsInOrder' /\ StampsInOrder' /\ Spaced'
    BY <2>1, SlotsStep, StampsStep, SpacedStep
  <2>4. ASSUME Fits' PROVE InTime'
    <3>1. TypeOK /\ TypeOK'
      BY <2>1, <2>2 DEF ChannelInv
    <3>2. Fits
      BY <2>1, <2>4, <3>1, FitsBefore
    <3>3. Kept
      BY <2>1, <3>2 DEF Kept
    <3>4. AnsweredInTime'
      <4>1. StampsInOrder /\ AnsweredInTime /\ Prompt \in 1..MaxAge /\ ~late'
        BY <2>4, <3>3 DEF Kept, InTime, Fits, RoomForPrompt
      <4> QED BY <2>1, <4>1, AnsweredStep
    <3> QED
      BY <2>1, <2>2, <2>4, <3>3, <3>4, TakenStep, ReachStep, NotCutOffStep
      DEF InTime
  <2> QED BY <2>2, <2>3, <2>4
<1>3. Inv => PromptActorNeverCutOff
  BY DEF PromptActorNeverCutOff, Fits, InTime, NotCutOff, Running
<1> QED BY <1>1, <1>2, <1>3, PTL DEF Spec

--------------------------------------------------------------------------------
(* Why a run ends.                                                         *)

\* The numbers of the schedule; the loop ends with a period.
LEMMA CountTypes ==
  /\ Period \in Nat \ {0} /\ Period \in Int /\ PrepTicks \in Nat /\ GapTicks \in Nat
  /\ ActiveSlots \in Nat /\ ActiveSlots >= 1 /\ ActiveSlots % Period = 0
  /\ Count \in Nat /\ ShutdownTicks \in Nat /\ CloseWait \in Nat /\ CloseWait >= 1
  /\ Prompt \in Nat /\ MaxAge \in Nat /\ Closure \in Nat
<1>1. /\ Period \in Nat \ {0} /\ Period \in Int /\ PrepTicks \in Nat
      /\ GapTicks \in Nat /\ ActiveStates \in Nat \ {0} /\ ShutdownTicks \in Nat
      /\ CloseWait \in Nat /\ CloseWait >= 1 /\ Prompt \in Nat /\ MaxAge \in Nat
      /\ MaxReport \in Nat
  BY ScheduleAssumption
<1>2. PICK n \in Nat : n = Period * ActiveStates /\ n >= 1
  BY <1>1
<1>3. n % Period = 0
  <2>1. /\ n % Period \in 0..(Period - 1) /\ n \div Period \in Nat
        /\ n = Period * (n \div Period) + (n % Period)
    BY <1>1, Division
  <2>2. PICK k \in Int, r \in 0..(Period - 1) :
          r = n % Period /\ n = Period * k + r
    BY <2>1
  <2>3. Period * ActiveStates + 0 = Period * k + r /\ 0 \in 0..(Period - 1)
    BY <1>1, <1>2, <2>2
  <2>4. ActiveStates \in Int
    BY <1>1
  <2>5. 0 = r
    BY <1>1, <2>2, <2>3, <2>4, RemainderUnique
  <2> QED BY <2>2, <2>5
<1> QED BY <1>1, <1>2, <1>3 DEF Count, ActiveSlots, Closure

\* At first the preparation has all its slots.
LEMMA InitBounds == Init => SlotsInBounds
  BY CountTypes DEF Init, SlotsInBounds

\* No phase is left behind its last slot.
LEMMA BoundsStep ==
  ASSUME ChannelInv, SlotsInOrder, SlotsInBounds, [Next]_vars
  PROVE  SlotsInBounds'
<1>0. /\ TypeOK /\ slot \in Int /\ PrepTicks \in Nat /\ GapTicks \in Nat
      /\ ActiveSlots \in Nat /\ Closure \in Nat
  BY KeptTypes, CountTypes
<1>1. ASSUME UNCHANGED <<phase, slot, step>> PROVE SlotsInBounds'
  BY <1>1 DEF SlotsInBounds
<1>2. CASE SlotOver
  <2>1. step = "publish" /\ step' = "drain"
    BY <1>0, <1>2, SlotOverEffect, PublishEffect
  <2>2. CASE Prepared
    <3>1. phase' = "active" /\ slot' = -GapTicks
      BY <2>2 DEF Prepared
    <3>2. slot' \in -GapTicks..ActiveSlots
      BY <1>0, <3>1
    <3> QED BY <2>1, <3>1, <3>2 DEF SlotsInBounds
  <2>3. CASE PrepareOn
    <3>1. phase = "prepare" /\ phase' = phase /\ slot' = slot + 1
      BY <2>3 DEF PrepareOn
    <3>2. slot' \in 0..PrepTicks
      BY <1>0, <2>1, <3>1 DEF SlotsInBounds
    <3> QED BY <2>1, <3>1, <3>2 DEF SlotsInBounds
  <2>4. CASE SlotEnds
    <3>1. phase = "active" /\ phase' = phase /\ slot' = slot + 1
      BY <2>4 DEF SlotEnds
    <3>2. slot' \in -GapTicks..ActiveSlots
      BY <1>0, <2>1, <3>1 DEF SlotsInBounds
    <3> QED BY <2>1, <3>1, <3>2 DEF SlotsInBounds
  <2> QED BY <1>2, <2>2, <2>3, <2>4 DEF SlotOver
<1>3. CASE Gap
  <2>1. phase = "active" /\ slot < 0 /\ slot' = slot + 1 /\ UNCHANGED <<phase, step>>
    BY <1>3 DEF Gap
  <2>2. step # "publish"
    BY <1>0, <2>1 DEF ChannelInv, StepsInOrder
  <2>3. slot' \in -GapTicks..ActiveSlots
    BY <1>0, <2>1 DEF SlotsInBounds
  <2> QED BY <2>1, <2>2, <2>3 DEF SlotsInBounds
<1>4. CASE ShutdownOn
  <2>1. /\ phase = "shutdown" /\ phase' = phase /\ slot' = slot + 1 /\ slot < Closure
    BY <1>4 DEF ShutdownOn, Closure
  <2>2. slot' \in 0..Closure
    BY <1>0, <2>1 DEF SlotsInBounds
  <2> QED BY <2>1, <2>2 DEF SlotsInBounds
<1>5. CASE SlotBegins
  <2>1. UNCHANGED <<phase, slot>> /\ slot < Slots
    BY <1>5 DEF SlotBegins, Drain
  <2>2. phase = "prepare" => slot < PrepTicks
    BY <2>1 DEF Slots
  <2>3. phase = "active" => slot < ActiveSlots
    BY <2>1 DEF Slots
  <2> QED BY <2>1, <2>2, <2>3 DEF SlotsInBounds
<1>6. CASE Quiet /\ ~SlotBegins
  <2>1. CASE phase' = "shutdown" /\ slot' = 0
    <3>1. 0 \in 0..Closure
      BY <1>0
    <3> QED BY <2>1, <3>1 DEF SlotsInBounds
  <2>2. CASE Close
    BY <2>2 DEF Close, SlotsInBounds
  <2>3. CASE ControllerFails /\ phase = "shutdown"
    BY <1>1, <2>3 DEF ControllerFails
  <2> QED
    BY <1>6, <2>1, <2>2, <2>3
    DEF Quiet, DrainRefuses, DrainDisconnected, Watchdog, PublishFails, LoopEnds,
        ControllerFails, Throw
<1>7. CASE \/ Receive \/ Compute \/ Send \/ AwaitClosed \/ ReceiveFails
           \/ ComputeFails \/ SendFails \/ AwaitFails \/ ActorFails \/ UNCHANGED vars
  <2>1. UNCHANGED controller
    BY <1>7, FaultEffect DEF Receive, Compute, Send, AwaitClosed, vars
  <2> QED BY <1>1, <2>1 DEF controller
<1> QED BY <1>2, <1>3, <1>4, <1>5, <1>6, <1>7, StepKinds

\* A controller that failed has failed for good; only the end of a loop that
\* runs, a slot, or the shutdown goes on without a failure.
LEMMA StopStep ==
  ASSUME TypeOK, SlotOver \/ Gap \/ ShutdownOn \/ Quiet, stop' = "none"
  PROVE  /\ stop = "none"
         /\ SlotOver \/ Gap \/ ShutdownOn \/ SlotBegins \/ LoopEnds \/ Close
<1>1. ~(DrainRefuses \/ DrainDisconnected \/ PublishFails \/ Watchdog)
  BY DEF DrainRefuses, DrainDisconnected, PublishFails, Watchdog, Throw
<1>2. ~ControllerFails
  BY DEF ControllerFails, Throw
<1>3. SlotOver \/ Gap \/ ShutdownOn \/ SlotBegins \/ LoopEnds \/ Close
  BY <1>1, <1>2 DEF Quiet
<1>4. CASE SlotOver
  BY <1>3, <1>4, SlotOverEffect
<1>5. CASE Gap \/ ShutdownOn \/ SlotBegins \/ LoopEnds \/ Close
  <2>1. stop' = stop \/ stop' = "not_ready"
    BY <1>5 DEF Gap, ShutdownOn, SlotBegins, LoopEnds, Close
  <2> QED BY <1>3, <2>1
<1> QED BY <1>3, <1>4, <1>5

\* The slots of the shutdown are counted from 0.
LEMMA ClosingStep ==
  ASSUME ChannelInv, SlotsInOrder, SlotsInBounds, GoneInTime, [Next]_vars
  PROVE  Closing' => slot' >= 0
<1>0. TypeOK /\ slot \in Int /\ (Closing => slot >= 0)
  BY KeptTypes DEF GoneInTime
<1>1. CASE UNCHANGED <<phase, slot>>
  BY <1>0, <1>1 DEF Closing
<1>2. CASE SlotOver \/ Gap
  BY <1>0, <1>2, SlotOverEffect DEF Gap, Closing
<1>3. CASE ShutdownOn
  BY <1>0, <1>3 DEF ShutdownOn, Closing
<1>4. CASE Quiet
  <2>1. slot' = 0 \/ UNCHANGED <<phase, slot>> \/ Close
    BY <1>4 DEF Quiet, DrainRefuses, DrainDisconnected, SlotBegins, Watchdog,
                PublishFails, LoopEnds, ControllerFails, Throw
  <2> QED BY <1>0, <1>1, <2>1 DEF Close, Closing
<1>5. CASE \/ Receive \/ Compute \/ Send \/ AwaitClosed \/ ReceiveFails
           \/ ComputeFails \/ SendFails \/ AwaitFails \/ ActorFails \/ UNCHANGED vars
  <2>1. UNCHANGED controller
    BY <1>5, FaultEffect DEF Receive, Compute, Send, AwaitClosed, vars
  <2> QED BY <1>1, <2>1 DEF controller
<1> QED BY <1>2, <1>3, <1>4, <1>5, StepKinds

\* A step of the controller keeps the bound on how long the actor is gone.
LEMMA GoneStep ==
  ASSUME ChannelInv, SlotsInOrder, SlotsInBounds, GoneInTime, ActorGone,
         SlotOver \/ Gap \/ ShutdownOn \/ Quiet
  PROVE  /\ Running' => now' - since' <= Waits'
         /\ Closing' /\ stop' = "none" => now' - since' <= slot' + 1
<1>0. /\ TypeOK /\ now \in Nat /\ since \in Nat /\ slot \in Int /\ GapTicks \in Nat
      /\ ActiveSlots \in Nat /\ ActiveSlots >= 1 /\ step \in {"drain", "publish"}
  <2>1. step \in {"drain", "publish"}
    BY DEF ChannelInv, TypeOK
  <2> QED BY <2>1, KeptTypes, CountTypes
<1>1. since' = since
  BY <1>0, SlotOverEffect, QuietEffect DEF Gap, ShutdownOn, actorVars
<1>2. CASE SlotOver
  <2>1. /\ phase \in {"prepare", "active"} /\ phase' \in {"prepare", "active"}
        /\ step = "publish" /\ step' = "drain" /\ now' = now + 1
    BY <1>0, <1>2, SlotOverEffect, PublishEffect
  <2>2. now - since <= 0
    BY <2>1, WaitsEffect DEF GoneInTime, Running
  <2>3. phase' = "active" => slot' >= -GapTicks /\ slot' \in Int
    <3>1. CASE Prepared
      BY <1>0, <3>1 DEF Prepared
    <3>2. CASE PrepareOn
      BY <3>2 DEF PrepareOn
    <3>3. CASE SlotEnds
      BY <1>0, <3>3 DEF SlotEnds, SlotsInOrder
    <3> QED BY <1>2, <3>1, <3>2, <3>3 DEF SlotOver
  <2>4. Waits' >= 1
    BY <1>0, <2>1, <2>3 DEF Waits
  <2>5. Waits' \in Int
    BY <1>0, <2>1, <2>3 DEF Waits
  <2> QED BY <1>0, <1>1, <2>1, <2>2, <2>4, <2>5 DEF Closing
<1>3. CASE Gap
  <2>1. /\ phase = "active" /\ phase' = phase /\ step' = step /\ slot < 0
        /\ slot' = slot + 1 /\ now' = now + 1
    BY <1>3 DEF Gap, Tick
  <2>2. step = "drain"
    BY <1>0, <2>1 DEF ChannelInv, StepsInOrder
  <2>3. now - since <= 1 + GapTicks + slot
    BY <1>0, <2>1, <2>2 DEF GoneInTime, Running, Waits
  <2>4. Waits' = 1 + GapTicks + (slot + 1)
    BY <1>0, <2>1, <2>2 DEF Waits
  <2> QED BY <1>0, <1>1, <2>1, <2>3, <2>4 DEF Closing
<1>4. CASE ShutdownOn
  <2>1. /\ phase = "shutdown" /\ phase' = phase /\ stop' = stop
        /\ slot' = slot + 1 /\ now' = now + 1
    BY <1>4 DEF ShutdownOn, Tick
  <2> QED BY <1>0, <1>1, <2>1 DEF GoneInTime, Closing, Running
<1>5. CASE Quiet
  <2>1. now' = now /\ ~Running'
    <3>1. ~SlotBegins
      BY DEF SlotBegins, Drain
    <3> QED BY <1>0, <1>5, <3>1, QuietEffect DEF Running
  <2>2. ASSUME Closing', stop' = "none" PROVE now' - since' <= slot' + 1
    <3>1. stop = "none" /\ (LoopEnds \/ Close)
      <4>1. ~SlotOver /\ ~Gap /\ ~ShutdownOn
        <5>1. now' # now + 1
          BY <1>0, <2>1
        <5> QED BY <1>0, <5>1, SlotOverEffect, PublishEffect DEF Gap, ShutdownOn, Tick
      <4>2. ~SlotBegins
        BY DEF SlotBegins, Drain
      <4> QED BY <1>0, <1>5, <2>2, <4>1, <4>2, StopStep
    <3>2. CASE LoopEnds
      <4>1. /\ phase = "active" /\ slot = ActiveSlots /\ step = "drain" /\ slot' = 0
        BY <2>2, <3>2 DEF LoopEnds, Draining, Slots
      <4>2. now - since <= 1
        BY <1>0, <4>1 DEF GoneInTime, Running, Waits
      <4> QED BY <1>0, <1>1, <2>1, <4>1, <4>2
    <3>3. CASE Close
      <4>1. phase = "shutdown" /\ slot' = slot
        BY <3>3 DEF Close
      <4> QED BY <1>1, <2>1, <3>1, <4>1 DEF GoneInTime, Closing
    <3> QED BY <3>1, <3>2, <3>3
  <2> QED BY <2>1, <2>2
<1> QED BY <1>2, <1>3, <1>4, <1>5

(***************************************************************************)
(* A run outlives its actor by the slot or the start gap the actor went in *)
(* and no more, whatever the actor left unread or sent, and a controller   *)
(* that passes had its actor until the last slot began: for every schedule *)
(* and every interleaving of the two sides.                                *)
(***************************************************************************)
THEOREM GoneActorsStopRuns == Spec => []GoneActorStopsRun
<1> DEFINE Inv == ChannelInv /\ SlotsInOrder /\ SlotsInBounds /\ GoneInTime
<1>1. Init => Inv
  <2>1. Init => GoneInTime
    BY DEF Init, GoneInTime, ActorGone, Closing
  <2> QED BY <2>1, InitChannelInv, InitInTime, InitBounds
<1>2. Inv /\ [Next]_vars => Inv'
  <2>1. SUFFICES ASSUME Inv, [Next]_vars PROVE Inv'
    OBVIOUS
  <2>2. ChannelInv' /\ SlotsInOrder' /\ SlotsInBounds'
    BY <2>1, NextChannelInv, SlotsStep, BoundsStep
  <2>3. Closing' => slot' >= 0
    BY <2>1, ClosingStep
  <2>4. ASSUME ActorGone'
        PROVE  /\ Running' => now' - since' <= Waits'
               /\ Closing' /\ stop' = "none" => now' - since' <= slot' + 1
    <3>1. CASE SlotOver \/ Gap \/ ShutdownOn \/ Quiet
      <4>1. ActorGone
        BY <2>1, <2>4, <3>1, SlotOverEffect, QuietEffect
        DEF Gap, ShutdownOn, actorVars, ActorGone, ChannelInv
      <4> QED BY <2>1, <3>1, <4>1, GoneStep
    <3>2. CASE ReceiveFails \/ ComputeFails \/ SendFails \/ AwaitFails \/ ActorFails
      <4>1. since' = now /\ now' = now /\ now \in Nat
        BY <2>1, <3>2, FaultEffect, KeptTypes
      <4>2. Running' => Waits' \in Nat
        <5>1. Running => Waits \in Nat
          <6>1. Running => Waits \in 0..(1 + GapTicks) /\ GapTicks \in Nat
            BY <2>1, WaitsEffect, CountTypes
          <6> QED BY <6>1
        <5>2. UNCHANGED controller
          BY <3>2, FaultEffect
        <5> QED BY <5>1, <5>2 DEF controller, Running, Waits
      <4>3. Closing' => slot' \in Int /\ slot' >= 0
        BY <2>2, <2>3 DEF ChannelInv, TypeOK
      <4> QED BY <4>1, <4>2, <4>3
    <3>3. CASE Receive \/ Compute \/ Send \/ AwaitClosed
      BY <2>4, <3>3 DEF ActorGone, Receive, Compute, Send, AwaitClosed
    <3>4. CASE UNCHANGED vars
      <4>1. UNCHANGED <<now, since, phase, slot, step, stop, actor>>
        BY <3>4 DEF vars, controller, actorVars
      <4> QED BY <2>1, <2>4, <4>1
              DEF GoneInTime, ActorGone, Running, Closing, Waits
    <3> QED BY <2>1, <3>1, <3>2, <3>3, <3>4, StepKinds
  <2> QED BY <2>2, <2>3, <2>4 DEF GoneInTime
<1>3. Inv => GoneActorStopsRun
  <2>1. SUFFICES ASSUME Inv, ActorGone, Running
        PROVE  now - since <=
                 1 + (IF phase = "active" /\ slot <= 0 THEN GapTicks ELSE 0)
    BY DEF GoneInTime, GoneActorStopsRun
  <2>2. /\ now - since <= Waits /\ now \in Nat /\ since \in Nat /\ slot \in Int
        /\ GapTicks \in Nat /\ step \in {"drain", "publish"}
    BY <2>1, KeptTypes, CountTypes DEF GoneInTime, ChannelInv, TypeOK
  <2> QED BY <2>1, <2>2 DEF Waits
<1> QED BY <1>1, <1>2, <1>3, PTL DEF Spec

\* The slots that are left, in each phase.
LEMMA SlotsLeftValue ==
  /\ phase = "prepare" =>
       SlotsLeft = (PrepTicks - slot) + GapTicks + ActiveSlots + Closure
  /\ phase = "active" => SlotsLeft = (ActiveSlots - slot) + Closure
  /\ phase = "shutdown" => SlotsLeft = Closure - slot
  /\ phase = "closed" => SlotsLeft = 0
  /\ phase' = "prepare" =>
       SlotsLeft' = (PrepTicks - slot') + GapTicks + ActiveSlots + Closure
  /\ phase' = "active" => SlotsLeft' = (ActiveSlots - slot') + Closure
  /\ phase' = "shutdown" => SlotsLeft' = Closure - slot'
  /\ phase' = "closed" => SlotsLeft' = 0
  BY DEF SlotsLeft

\* The steps that are left: those in the slots, the close, the drain, the failure.
LEMMA ControllerLeftValue ==
  /\ \E c, d, s \in 0..1 :
       /\ ControllerLeft = 2 * SlotsLeft + c + d + s
       /\ c = 0 <=> phase = "closed"
       /\ d = 1 <=> Running /\ step = "drain"
       /\ s = 1 <=> stop = "none"
  /\ \E c, d, s \in 0..1 :
       /\ ControllerLeft' = 2 * SlotsLeft' + c + d + s
       /\ c = 0 <=> phase' = "closed"
       /\ d = 1 <=> Running' /\ step' = "drain"
       /\ s = 1 <=> stop' = "none"
<1> DEFINE c == IF phase = "closed" THEN 0 ELSE 1
           d == IF Running /\ step = "drain" THEN 1 ELSE 0
           s == IF stop = "none" THEN 1 ELSE 0
<1>1. /\ c \in 0..1 /\ d \in 0..1 /\ s \in 0..1
      /\ c = 0 <=> phase = "closed"
      /\ d = 1 <=> Running /\ step = "drain"
      /\ s = 1 <=> stop = "none"
  OBVIOUS
<1>2. /\ c' \in 0..1 /\ d' \in 0..1 /\ s' \in 0..1
      /\ c' = 0 <=> phase' = "closed"
      /\ d' = 1 <=> Running' /\ step' = "drain"
      /\ s' = 1 <=> stop' = "none"
  OBVIOUS
<1>3. ControllerLeft = 2 * SlotsLeft + c + d + s
  BY DEF ControllerLeft
<1>4. ControllerLeft' = 2 * SlotsLeft' + c' + d' + s'
  BY DEF ControllerLeft
<1> HIDE DEF c, d, s
<1>5. \E a, b, e \in 0..1 :
        /\ ControllerLeft = 2 * SlotsLeft + a + b + e
        /\ a = 0 <=> phase = "closed"
        /\ b = 1 <=> Running /\ step = "drain"
        /\ e = 1 <=> stop = "none"
  BY ONLY <1>1, <1>3
<1>6. \E a, b, e \in 0..1 :
        /\ ControllerLeft' = 2 * SlotsLeft' + a + b + e
        /\ a = 0 <=> phase' = "closed"
        /\ b = 1 <=> Running' /\ step' = "drain"
        /\ e = 1 <=> stop' = "none"
  BY ONLY <1>2, <1>4
<1> QED BY ONLY <1>5, <1>6

\* What is left is a number of steps.
LEMMA LeftTypes ==
  ASSUME ChannelInv, SlotsInBounds
  PROVE  SlotsLeft \in Nat /\ ControllerLeft \in Nat /\ ActorLeft \in Nat
<1>0. /\ slot \in Int /\ PrepTicks \in Nat /\ GapTicks \in Nat /\ ActiveSlots \in Nat
      /\ Closure \in Nat /\ answered \in Nat /\ Count \in Nat
      /\ phase \in {"prepare", "active", "shutdown", "closed"}
      /\ actor \in {"receive", "compute", "send", "await", "ok", "fault"}
  <2>1. /\ phase \in {"prepare", "active", "shutdown", "closed"}
        /\ actor \in {"receive", "compute", "send", "await", "ok", "fault"}
    BY DEF ChannelInv, TypeOK
  <2> QED BY <2>1, KeptTypes, CountTypes
<1>1. SlotsLeft \in Nat
  <2>1. CASE phase = "prepare"
    BY <1>0, <2>1, SlotsLeftValue DEF SlotsInBounds
  <2>2. CASE phase = "active"
    BY <1>0, <2>2, SlotsLeftValue DEF SlotsInBounds
  <2>3. CASE phase = "shutdown"
    BY <1>0, <2>3, SlotsLeftValue DEF SlotsInBounds
  <2>4. CASE phase = "closed"
    BY <2>4, SlotsLeftValue
  <2> QED BY <1>0, <2>1, <2>2, <2>3, <2>4
<1>2. ControllerLeft \in Nat
  BY <1>1, ControllerLeftValue
<1>3. ActorLeft \in Nat
  <2>1. CASE actor \in {"receive", "compute", "send"}
    <3>1. answered < Count
      BY <2>1 DEF ChannelInv, EndInOrder
    <3> QED BY <1>0, <2>1, <3>1 DEF ActorLeft
  <2>2. CASE actor \in {"await", "ok", "fault"}
    BY <2>2 DEF ActorLeft, ActorOver
  <2> QED BY <1>0, <2>1, <2>2
<1> QED BY <1>1, <1>2, <1>3

\* A step of the controller takes at least as many slots as ticks from what is
\* left, and a step.
LEMMA ControllerLeftStep ==
  ASSUME ChannelInv, SlotsInOrder, SlotsInBounds,
         SlotOver \/ Gap \/ ShutdownOn \/ Quiet, [Next]_vars
  PROVE  /\ SlotsLeft' \in Nat /\ now' + SlotsLeft' <= now + SlotsLeft
         /\ ControllerLeft' \in Int /\ ControllerLeft' < ControllerLeft
<1>0. /\ TypeOK /\ now \in Nat /\ slot \in Int /\ PrepTicks \in Nat /\ GapTicks \in Nat
      /\ ActiveSlots \in Nat /\ Closure \in Nat /\ step \in {"drain", "publish"}
      /\ SlotsLeft \in Nat
  BY KeptTypes, CountTypes, LeftTypes DEF TypeOK
<1>1. PICK left \in Nat : left = SlotsLeft'
  <2>1. ChannelInv' /\ SlotsInBounds'
    BY NextChannelInv, BoundsStep
  <2>2. slot' \in Int
    BY <2>1 DEF ChannelInv, TypeOK
  <2>3. phase' \in {"prepare", "active", "shutdown", "closed"}
    BY <2>1 DEF ChannelInv, TypeOK
  <2>4. PICK n \in Int : n = slot'
    BY <2>2
  <2>5. CASE phase' = "prepare"
    <3>1. n \in 0..PrepTicks
      BY <2>1, <2>4, <2>5 DEF SlotsInBounds
    <3>2. SlotsLeft' = (PrepTicks - n) + GapTicks + ActiveSlots + Closure
      BY <2>4, <2>5, SlotsLeftValue
    <3> QED BY <1>0, <3>1, <3>2
  <2>6. CASE phase' = "active"
    <3>1. n \in -GapTicks..ActiveSlots
      BY <2>1, <2>4, <2>6 DEF SlotsInBounds
    <3>2. SlotsLeft' = (ActiveSlots - n) + Closure
      BY <2>4, <2>6, SlotsLeftValue
    <3> QED BY <1>0, <3>1, <3>2
  <2>7. CASE phase' = "shutdown"
    <3>1. n \in 0..Closure
      BY <2>1, <2>4, <2>7 DEF SlotsInBounds
    <3>2. SlotsLeft' = Closure - n
      BY <2>4, <2>7, SlotsLeftValue
    <3> QED BY <1>0, <3>1, <3>2
  <2>8. CASE phase' = "closed"
    BY <2>8, SlotsLeftValue
  <2> QED BY <2>3, <2>5, <2>6, <2>7, <2>8
<1>2. PICK c, d, s \in 0..1 :
        /\ ControllerLeft = 2 * SlotsLeft + c + d + s
        /\ c = 0 <=> phase = "closed"
        /\ d = 1 <=> Running /\ step = "drain"
        /\ s = 1 <=> stop = "none"
  BY ControllerLeftValue
<1>3. PICK a, b, e \in 0..1 :
        /\ ControllerLeft' = 2 * left + a + b + e
        /\ a = 0 <=> phase' = "closed"
        /\ b = 1 <=> Running' /\ step' = "drain"
        /\ e = 1 <=> stop' = "none"
  BY <1>1, ControllerLeftValue
<1>4. SUFFICES now' + SlotsLeft' <= now + SlotsLeft /\ ControllerLeft' < ControllerLeft
  <2>1. SlotsLeft' \in Nat
    BY <1>1
  <2>2. ControllerLeft' \in Int
    BY <1>3
  <2> QED BY <2>1, <2>2
<1>5. a <= c
  <2>1. phase = "closed" => phase' = "closed"
    BY <1>0, SlotOverEffect
    DEF Gap, ShutdownOn, Quiet, DrainRefuses, DrainDisconnected, SlotBegins, Watchdog,
        PublishFails, LoopEnds, Close, ControllerFails, Drain, Draining, Throw,
        ChannelInv, StepsInOrder
  <2> QED BY <1>2, <1>3, <2>1
<1>6. e <= s
  <2>1. stop' = "none" => stop = "none"
    BY <1>0, StopStep
  <2> QED BY <1>2, <1>3, <2>1
<1>7. CASE SlotOver
  <2>1. /\ step = "publish" /\ now' = now + 1 /\ phase \in {"prepare", "active"}
        /\ phase' \in {"prepare", "active"}
    BY <1>0, <1>7, SlotOverEffect, PublishEffect
  <2>2. left <= SlotsLeft - 1
    <3>1. CASE Prepared
      <4>1. phase = "prepare" /\ phase' = "active" /\ slot' = -GapTicks
        BY <3>1 DEF Prepared
      <4>2. left = ActiveSlots + GapTicks + Closure
        BY <1>0, <1>1, <4>1, SlotsLeftValue
      <4>3. slot < PrepTicks
        BY <2>1, <4>1 DEF SlotsInBounds
      <4>4. SlotsLeft = (PrepTicks - slot) + GapTicks + ActiveSlots + Closure
        BY <4>1, SlotsLeftValue
      <4> QED BY <1>0, <4>2, <4>3, <4>4
    <3>2. CASE phase' = phase /\ slot' = slot + 1
      BY <1>0, <1>1, <2>1, <3>2, SlotsLeftValue
    <3> QED BY <1>0, <1>7, <3>1, <3>2, SlotOverEffect
  <2>3. d = 0
    BY <1>2, <2>1
  <2>4. ControllerLeft' < ControllerLeft
    BY <1>0, <1>2, <1>3, <1>5, <1>6, <2>2, <2>3
  <2>5. now' + left <= now + SlotsLeft
    BY <1>0, <2>1, <2>2
  <2> QED BY <1>1, <2>4, <2>5
<1>8. CASE Gap \/ ShutdownOn
  <2>1. /\ now' = now + 1 /\ slot' = slot + 1 /\ UNCHANGED <<phase, step>>
        /\ phase \in {"active", "shutdown"}
    BY <1>8 DEF Gap, ShutdownOn, Tick
  <2>2. left <= SlotsLeft - 1
    BY <1>0, <1>1, <2>1, SlotsLeftValue
  <2>3. b = d
    BY <1>2, <1>3, <2>1 DEF Running
  <2>4. ControllerLeft' < ControllerLeft
    BY <1>0, <1>2, <1>3, <1>5, <1>6, <2>2, <2>3
  <2>5. now' + left <= now + SlotsLeft
    BY <1>0, <2>1, <2>2
  <2> QED BY <1>1, <2>4, <2>5
<1>9. CASE Quiet
  <2>1. now' = now
    BY <1>0, <1>9, QuietEffect
  <2>2. ASSUME left <= SlotsLeft,
               \/ b + e < d + s
               \/ b + e <= d + s /\ (a < c \/ left < SlotsLeft)
        PROVE  /\ now' + SlotsLeft' <= now + SlotsLeft
               /\ ControllerLeft' < ControllerLeft
    <3>1. ControllerLeft' < ControllerLeft
      BY <1>0, <1>2, <1>3, <1>5, <2>2
    <3>2. now' + left <= now + SlotsLeft
      BY <1>0, <2>1, <2>2
    <3> QED BY <1>1, <3>1, <3>2
  <2>3. CASE SlotBegins
    <3>1. /\ UNCHANGED <<phase, slot, stop>> /\ step = "drain" /\ step' = "publish"
          /\ Running
      BY <2>3 DEF SlotBegins, Drain, Draining, Running
    <3>2. left = SlotsLeft
      BY <1>1, <3>1 DEF SlotsLeft
    <3>3. d = 1 /\ b = 0
      BY <1>2, <1>3, <3>1
    <3> QED BY <1>6, <2>2, <3>2, <3>3
  <2>4. ASSUME Running, phase' = "shutdown", slot' = 0
        PROVE  /\ b = 0 /\ left <= SlotsLeft
               /\ step = "publish" => left < SlotsLeft
               /\ step = "drain" => d = 1
    <3>1. left = Closure
      BY <1>0, <1>1, <2>4, SlotsLeftValue
    <3>2. b = 0
      BY <1>3, <2>4 DEF Running
    <3>3. step = "drain" => d = 1
      BY <1>2, <2>4
    <3>4. CASE phase = "prepare"
      <4>1. slot \in 0..PrepTicks /\ (step = "publish" => slot < PrepTicks)
        BY <3>4 DEF SlotsInBounds
      <4>2. SlotsLeft = (PrepTicks - slot) + GapTicks + ActiveSlots + Closure
        BY <3>4, SlotsLeftValue
      <4> QED BY <1>0, <3>1, <3>2, <3>3, <4>1, <4>2
    <3>5. CASE phase = "active"
      <4>1. slot <= ActiveSlots /\ (step = "publish" => slot < ActiveSlots)
        BY <1>0, <3>5 DEF SlotsInBounds
      <4>2. SlotsLeft = (ActiveSlots - slot) + Closure
        BY <3>5, SlotsLeftValue
      <4> QED BY <1>0, <3>1, <3>2, <3>3, <4>1, <4>2
    <3> QED BY <2>4, <3>4, <3>5 DEF Running
  <2>5. CASE \/ DrainRefuses \/ DrainDisconnected \/ PublishFails \/ Watchdog
             \/ LoopEnds
    <3>1. Running /\ phase' = "shutdown" /\ slot' = 0
      BY <2>5
      DEF DrainRefuses, DrainDisconnected, PublishFails, Watchdog, LoopEnds, Drain,
          Draining, Throw, Running, ChannelInv, StepsInOrder
    <3> QED BY <1>0, <1>6, <2>2, <2>4, <3>1
  <2>6. CASE ControllerFails
    <3>1. stop = "none" /\ stop' = "other" /\ phase # "closed"
      BY <2>6 DEF ControllerFails, Throw
    <3>2. s = 1 /\ e = 0
      BY <1>2, <1>3, <3>1
    <3>3. CASE phase = "shutdown"
      <4>1. UNCHANGED <<phase, slot, step>>
        BY <2>6, <3>3 DEF ControllerFails
      <4>2. left = SlotsLeft /\ b = d
        BY <1>1, <1>2, <1>3, <4>1 DEF SlotsLeft, Running
      <4> QED BY <1>0, <2>2, <3>2, <4>2
    <3>4. CASE phase # "shutdown"
      <4>1. Running /\ phase' = "shutdown" /\ slot' = 0
        BY <2>6, <3>1, <3>4 DEF ControllerFails, Throw, Running, ChannelInv, TypeOK
      <4> QED BY <1>0, <2>2, <2>4, <3>2, <4>1
    <3> QED BY <3>3, <3>4
  <2>7. CASE Close
    <3>1. phase = "shutdown" /\ phase' = "closed"
      BY <2>7 DEF Close
    <3>2. left = 0 /\ a = 0 /\ c = 1 /\ b = 0 /\ d = 0
      BY <1>1, <1>2, <1>3, <3>1, SlotsLeftValue DEF Running
    <3> QED BY <1>0, <1>6, <2>2, <3>2
  <2> QED BY <1>9, <2>3, <2>5, <2>6, <2>7 DEF Quiet
<1> QED BY <1>7, <1>8, <1>9

\* The steps the actor has left.
LEMMA ActorLeftValue ==
  /\ actor = "receive" => ActorLeft = 3 * (Count - answered) + 1
  /\ actor = "compute" => ActorLeft = 3 * (Count - answered)
  /\ actor = "send" => ActorLeft = 3 * (Count - answered) - 1
  /\ actor = "await" => ActorLeft = 1
  /\ actor \in {"ok", "fault"} => ActorLeft = 0
  /\ actor' = "receive" => ActorLeft' = 3 * (Count - answered') + 1
  /\ actor' = "compute" => ActorLeft' = 3 * (Count - answered')
  /\ actor' = "send" => ActorLeft' = 3 * (Count - answered') - 1
  /\ actor' = "await" => ActorLeft' = 1
  /\ actor' \in {"ok", "fault"} => ActorLeft' = 0
  BY DEF ActorLeft, ActorOver

\* A step of the actor takes one of its steps, and leaves a number of them.
LEMMA ActorLeftStep ==
  ASSUME ChannelInv,
         \/ Receive \/ Compute \/ Send \/ AwaitClosed \/ ReceiveFails
         \/ ComputeFails \/ SendFails \/ AwaitFails \/ ActorFails
  PROVE  ActorLeft' \in Int /\ ActorLeft' < ActorLeft
<1>0. answered \in Nat /\ Count \in Nat
  BY KeptTypes, CountTypes
<1>1. actor \in {"receive", "compute", "send"} => answered < Count
  BY DEF ChannelInv, EndInOrder
<1>2. CASE Receive
  <2>1. actor = "receive" /\ actor' = "compute" /\ answered' = answered
    BY <1>2 DEF Receive
  <2> QED BY ONLY <1>0, <2>1, ActorLeftValue
<1>3. CASE Compute
  <2>1. actor = "compute" /\ actor' = "send" /\ answered' = answered
    BY <1>3 DEF Compute
  <2> QED BY ONLY <1>0, <2>1, ActorLeftValue
<1>4. CASE Send
  <2>1. /\ actor = "send" /\ answered' = answered + 1
        /\ actor' = IF answered + 1 = Count THEN "await" ELSE "receive"
    BY <1>4 DEF Send
  <2>2. ActorLeft = 3 * (Count - answered) - 1
    BY ONLY <2>1, ActorLeftValue
  <2>3. CASE answered + 1 = Count
    BY ONLY <1>0, <2>1, <2>2, <2>3, ActorLeftValue
  <2>4. CASE answered + 1 # Count
    <3>1. ActorLeft' = 3 * (Count - (answered + 1)) + 1
      BY ONLY <2>1, <2>4, ActorLeftValue
    <3> QED BY ONLY <1>0, <2>2, <3>1
  <2> QED BY <2>3, <2>4
<1>5. CASE \/ AwaitClosed \/ ReceiveFails \/ ComputeFails \/ SendFails
           \/ AwaitFails \/ ActorFails
  <2>1. actor' \in {"ok", "fault"} /\ actor \notin {"ok", "fault"}
    BY <1>5, FaultEffect
    DEF AwaitClosed, ReceiveFails, ComputeFails, SendFails, AwaitFails, ActorFails,
        ActorOver
  <2>2. ActorLeft' = 0
    BY ONLY <2>1, ActorLeftValue
  <2>3. ActorLeft > 0
    <3>1. actor \in {"receive", "compute", "send", "await"}
      BY <2>1 DEF ChannelInv, TypeOK
    <3>2. CASE actor = "await"
      BY ONLY <3>2, ActorLeftValue
    <3>3. CASE actor \in {"receive", "compute", "send"}
      BY ONLY <1>0, <1>1, <3>3, ActorLeftValue
    <3> QED BY <3>1, <3>2, <3>3
  <2> QED BY <2>2, <2>3
<1> QED BY <1>2, <1>3, <1>4, <1>5

\* A step of the actor leaves the controller, the time and the slots alone, and a
\* step of the controller the actor.
LEMMA ActorStepsLeave ==
  ASSUME \/ Receive \/ Compute \/ Send \/ AwaitClosed \/ ReceiveFails \/ ComputeFails
         \/ SendFails \/ AwaitFails \/ ActorFails \/ UNCHANGED vars
  PROVE  /\ UNCHANGED <<now, controller>>
         /\ SlotsLeft' = SlotsLeft /\ ControllerLeft' = ControllerLeft
<1>1. UNCHANGED <<now, controller>>
  <2>1. CASE Receive \/ Compute \/ Send \/ AwaitClosed \/ UNCHANGED vars
    BY <2>1 DEF Receive, Compute, Send, AwaitClosed, vars
  <2>2. CASE ReceiveFails \/ ComputeFails \/ SendFails \/ AwaitFails \/ ActorFails
    BY <2>2, FaultEffect
  <2> QED BY <2>1, <2>2
<1>2. UNCHANGED <<phase, slot, step, stop>>
  BY <1>1 DEF controller
<1>3. SlotsLeft' = SlotsLeft
  BY <1>2 DEF SlotsLeft
<1>4. ControllerLeft' = ControllerLeft
  BY <1>2, <1>3 DEF ControllerLeft, Running
<1> QED BY <1>1, <1>3, <1>4

LEMMA ControllerStepsLeave ==
  ASSUME TypeOK, SlotOver \/ Gap \/ ShutdownOn \/ Quiet
  PROVE  ActorLeft' = ActorLeft
<1>1. UNCHANGED <<actor, answered>>
  <2>1. CASE SlotOver
    BY <2>1, SlotOverEffect DEF actorVars
  <2>2. CASE Quiet
    BY <2>2, QuietEffect DEF actorVars
  <2>3. CASE Gap \/ ShutdownOn
    BY <2>3 DEF Gap, ShutdownOn, actorVars
  <2> QED BY <2>1, <2>2, <2>3
<1> QED BY <1>1 DEF ActorLeft, ActorOver

(***************************************************************************)
(* The slots of a run are bounded by the schedule, the shutdown and the    *)
(* report, for every schedule and whatever the actor does.                 *)
(***************************************************************************)
THEOREM TimeIsBounded == Spec => []BoundedTime
<1> DEFINE Inv == ChannelInv /\ SlotsInOrder /\ SlotsInBounds /\ BoundedTime
<1>1. Init => Inv
  <2>1. SUFFICES ASSUME Init PROVE BoundedTime
    BY InitChannelInv, InitInTime, InitBounds
  <2>2. phase = "prepare" /\ slot = 0 /\ now = 0
    BY <2>1 DEF Init
  <2>3. SlotsLeft = (PrepTicks - 0) + GapTicks + ActiveSlots + Closure
    BY <2>2, SlotsLeftValue
  <2> QED BY <2>2, <2>3, CountTypes DEF BoundedTime
<1>2. Inv /\ [Next]_vars => Inv'
  <2>1. SUFFICES ASSUME Inv, [Next]_vars PROVE Inv'
    OBVIOUS
  <2>2. ChannelInv' /\ SlotsInOrder' /\ SlotsInBounds'
    BY <2>1, NextChannelInv, SlotsStep, BoundsStep
  <2>3. BoundedTime'
    <3>1. CASE SlotOver \/ Gap \/ ShutdownOn \/ Quiet
      <4>1. PICK left \in Nat : left = SlotsLeft' /\ now' + left <= now + SlotsLeft
        BY <2>1, <3>1, ControllerLeftStep
      <4>2. SlotsLeft \in Nat /\ now \in Nat
        BY <2>1, LeftTypes, KeptTypes
      <4>3. PICK t \in Nat : t = now'
        BY <2>2 DEF ChannelInv, TypeOK
      <4>4. now + SlotsLeft <= PrepTicks + GapTicks + ActiveSlots + Closure
        BY <2>1 DEF BoundedTime
      <4>5. t + left <= PrepTicks + GapTicks + ActiveSlots + Closure
        <5>1. PrepTicks \in Nat /\ GapTicks \in Nat /\ ActiveSlots \in Nat /\ Closure \in Nat
          BY CountTypes
        <5>2. t + left <= now + SlotsLeft
          BY ONLY <4>1, <4>3
        <5> QED BY ONLY <4>2, <4>4, <5>1, <5>2
      <4> QED BY <4>1, <4>3, <4>5 DEF BoundedTime
    <3>2. CASE UNCHANGED now /\ SlotsLeft' = SlotsLeft
      BY <2>1, <3>2 DEF BoundedTime
    <3> QED BY <2>1, <3>1, <3>2, StepKinds, ActorStepsLeave
  <2> QED BY <2>2, <2>3
<1>3. Inv => BoundedTime
  OBVIOUS
<1> QED BY <1>1, <1>2, <1>3, PTL DEF Spec

(***************************************************************************)
(* Neither side can go on for ever: each step of a side takes one from     *)
(* what is left to it, and gives the other side nothing to do.  That the   *)
(* run ends needs, beyond this, only that the controller is scheduled.     *)
(***************************************************************************)
THEOREM BothSidesRunOut == Spec => StepsRunOut
<1> DEFINE Inv == ChannelInv /\ SlotsInOrder /\ SlotsInBounds
           RunsOut ==
             /\ ControllerLeft \in Nat /\ ActorLeft \in Nat
             /\ ControllerLeft' <= ControllerLeft /\ ActorLeft' <= ActorLeft
             /\ Controller \/ ControllerFails => ControllerLeft' < ControllerLeft
             /\ Actor \/ ActorFails => ActorLeft' < ActorLeft
<1>1. Init => Inv
  BY InitChannelInv, InitInTime, InitBounds
<1>2. Inv /\ [Next]_vars => Inv'
  BY NextChannelInv, SlotsStep, BoundsStep
<1>3. Inv /\ [Next]_vars => [RunsOut]_vars
  <2>1. SUFFICES ASSUME Inv, [Next]_vars, ~UNCHANGED vars PROVE RunsOut
    OBVIOUS
  <2>2. ControllerLeft \in Nat /\ ActorLeft \in Nat /\ TypeOK
    BY <2>1, LeftTypes, KeptTypes
  <2>3. ASSUME SlotOver \/ Gap \/ ShutdownOn \/ Quiet
        PROVE  /\ ControllerLeft' < ControllerLeft /\ ControllerLeft' <= ControllerLeft
               /\ ActorLeft' <= ActorLeft
    <3>1. ControllerLeft' < ControllerLeft /\ ActorLeft' = ActorLeft
      BY <2>1, <2>2, <2>3, ControllerLeftStep, ControllerStepsLeave
    <3>2. PICK n \in Int : n = ControllerLeft'
      BY <2>1, <2>2, <2>3, ControllerLeftStep
    <3> QED BY ONLY <2>2, <3>1, <3>2
  <2>4. ASSUME \/ Receive \/ Compute \/ Send \/ AwaitClosed \/ ReceiveFails
               \/ ComputeFails \/ SendFails \/ AwaitFails \/ ActorFails
        PROVE  /\ ActorLeft' < ActorLeft /\ ActorLeft' <= ActorLeft
               /\ ControllerLeft' <= ControllerLeft
    <3>1. ActorLeft' < ActorLeft /\ ControllerLeft' = ControllerLeft
      BY <2>1, <2>4, ActorLeftStep, ActorStepsLeave
    <3>2. PICK n \in Int : n = ActorLeft'
      BY <2>1, <2>4, ActorLeftStep
    <3> QED BY ONLY <2>2, <3>1, <3>2
  <2>5. Controller \/ ControllerFails => ControllerLeft' < ControllerLeft
    BY <2>3 DEF Controller, SlotOver, Quiet
  <2>6. Actor \/ ActorFails => ActorLeft' < ActorLeft
    BY <2>4 DEF Actor
  <2>7. ControllerLeft' <= ControllerLeft /\ ActorLeft' <= ActorLeft
    BY <2>1, <2>3, <2>4, StepKinds
  <2> QED BY <2>2, <2>5, <2>6, <2>7
<1> QED BY <1>1, <1>2, <1>3, PTL DEF Spec, StepsRunOut

--------------------------------------------------------------------------------
(* Why the end of a run shows in the number of states.                     *)

\* No fewer states take no less time.
LEMMA MorePeriods ==
  ASSUME NEW a \in Int, NEW b \in Int, NEW p \in Nat, a >= b
  PROVE  a * p >= b * p
<1>1. PICK d \in Nat : d = a - b
  OBVIOUS
<1>2. a = b + d
  BY <1>1
<1>3. d * p >= 0 /\ d * p \in Int /\ b * p \in Int
  BY <1>1
<1>4. a * p = b * p + d * p
  BY <1>2
<1> QED BY <1>3, <1>4

\* The preparation has no room for all the states.
LEMMA EarlyCount ==
  ASSUME RoomForCount, NEW n \in Int, NEW r \in Nat, NEW s \in Int,
         n * Period + r <= s, s <= PrepTicks
  PROVE  n < Count
<1>1. Period \in Nat /\ Count \in Int /\ PrepTicks \in Int
  BY CountTypes
<1>2. SUFFICES ASSUME n >= Count PROVE FALSE
  BY <1>1
<1>3. PICK w \in Int : w = Period * Count /\ w = Count * Period
  BY <1>1
<1>4. PICK k \in Int : k = n * Period
  BY <1>1
<1>5. n * Period >= Count * Period
  BY ONLY <1>1, <1>2, n \in Int, MorePeriods
<1>6. k >= w
  BY <1>3, <1>4, <1>5
<1>7. PrepTicks < w
  BY <1>3 DEF RoomForCount
<1>8. k + r <= s
  BY <1>4
<1> QED BY <1>1, <1>6, <1>7, <1>8

\* A slot of the preparation keeps the number of states below the slots; so it
\* ends with fewer states than the schedule has.
LEMMA EarlySlot ==
  ASSUME ChannelInv, SlotsInBounds, StatesOfSchedule, RoomForCount,
         SlotOver, phase = "prepare"
  PROVE  /\ states' * Period + ((slot + 1) % Period) <= slot + 1
         /\ states' < Count
<1>1. /\ TypeOK /\ states \in Nat /\ states \in Int /\ slot \in Int /\ PrepTicks \in Nat
      /\ Period \in Nat \ {0} /\ Period \in Int /\ Count \in Nat
  BY KeptTypes, CountTypes
<1>2. PICK h \in BOOLEAN : Publish(h)
  BY <1>1, SlotOverEffect
<1>3. step = "publish" /\ (states' = states \/ (Due /\ states' = states + 1))
  BY <1>1, <1>2, PublishEffect
<1>4. /\ slot \in Nat /\ slot < PrepTicks
      /\ states * Period + (slot % Period) <= slot
  BY <1>1, <1>3 DEF StatesOfSchedule, SlotsInBounds
<1>5. /\ slot % Period \in 0..(Period - 1) /\ (slot + 1) % Period \in 0..(Period - 1)
      /\ (slot + 1) % Period = 0 => slot % Period = Period - 1
      /\ (slot + 1) % Period # 0 => (slot + 1) % Period = (slot % Period) + 1
  BY <1>1, <1>4, NextRemainder
<1>6. PICK r \in 0..(Period - 1), t \in 0..(Period - 1) :
        r = slot % Period /\ t = (slot + 1) % Period
  BY <1>5
<1>7. (t = 0 => r = Period - 1) /\ (t # 0 => t = r + 1)
  BY <1>5, <1>6
<1>8. PICK m \in Int : m = states * Period /\ (states + 1) * Period = m + Period
  <2>1. states * Period \in Int
    BY <1>1
  <2> QED BY <1>1, <2>1, OnePeriodMore
<1>9. m + r <= slot
  BY <1>4, <1>6, <1>8
<1>10. PICK k \in Int : k = states' * Period /\ k + t <= slot + 1
  <2>1. CASE states' = states
    <3>1. m + t <= slot + 1
      BY <1>1, <1>4, <1>7, <1>9
    <3> QED BY <1>8, <2>1, <3>1
  <2>2. CASE Due /\ states' = states + 1
    <3>1. t = 0
      BY <1>6, <2>2 DEF Due
    <3>2. m + Period + t <= slot + 1
      BY <1>1, <1>4, <1>7, <1>9, <3>1
    <3>3. m + Period \in Int
      BY <1>1
    <3> QED BY <1>8, <2>2, <3>2, <3>3
  <2> QED BY <1>3, <2>1, <2>2
<1>11. states' < Count
  <2>1. PICK n \in Int : n = states'
    BY <1>1, <1>3
  <2>2. n * Period + t <= slot + 1
    BY <1>10, <2>1
  <2>3. t \in Nat /\ slot + 1 \in Int /\ slot + 1 <= PrepTicks
    BY <1>1, <1>4
  <2>4. n < Count
    BY <2>2, <2>3, EarlyCount
  <2> QED BY <2>1, <2>4
<1>12. states' * Period + ((slot + 1) % Period) <= slot + 1
  BY <1>6, <1>10
<1> QED BY <1>11, <1>12

\* The states follow the schedule, up to the last slot of each loop.
LEMMA ScheduleStep ==
  ASSUME ChannelInv, SlotsInBounds, StatesOfSchedule, RoomForCount, [Next]_vars
  PROVE  StatesOfSchedule'
<1>0. /\ TypeOK /\ states \in Nat /\ slot \in Int /\ now \in Nat /\ Last \in Nat
      /\ ActiveSlots \in Nat /\ ActiveSlots >= 1 /\ GapTicks \in Nat
      /\ phase \in {"prepare", "active", "shutdown", "closed"}
      /\ step \in {"drain", "publish"} /\ heard \in BOOLEAN
  <2>1. heard \in BOOLEAN
    BY DEF ChannelInv, TypeOK
  <2> QED BY <2>1, KeptTypes, CountTypes, StampTypes DEF TypeOK
<1>1. CASE phase' \notin {"prepare", "active"}
  BY <1>1 DEF StatesOfSchedule
<1>2. ASSUME UNCHANGED <<phase, slot, heard, states>>, Last' = Last, now' = now
      PROVE  StatesOfSchedule'
  BY <1>2 DEF StatesOfSchedule
<1>3. CASE SlotOver /\ phase = "prepare"
  <2>1. /\ states' * Period + ((slot + 1) % Period) <= slot + 1
        /\ states' < Count
    BY <1>3, EarlySlot
  <2>2. CASE Prepared
    <3>1. phase' = "active" /\ slot' = -GapTicks
      BY <2>2 DEF Prepared
    <3>2. slot' # ActiveSlots
      BY <1>0, <3>1
    <3> QED BY <2>1, <3>1, <3>2 DEF StatesOfSchedule
  <2>3. CASE PrepareOn
    <3>1. phase' = "prepare" /\ slot' = slot + 1
      BY <2>3 DEF PrepareOn
    <3> QED BY <2>1, <3>1 DEF StatesOfSchedule
  <2> QED BY <1>3, <2>2, <2>3 DEF SlotOver, SlotEnds
<1>4. CASE SlotOver /\ phase = "active"
  <2>1. /\ SlotEnds /\ phase' = "active" /\ slot' = slot + 1
        /\ UNCHANGED <<current, toController>>
    BY <1>4 DEF SlotOver, Prepared, PrepareOn, SlotEnds, actorVars
  <2>2. PICK h \in {heard, TRUE} : Publish(h) /\ heard' = h
    BY <2>1 DEF SlotEnds
  <2>3. h \in BOOLEAN
    BY <1>0, <2>2
  <2>4. /\ step = "publish" /\ step' = "drain" /\ now' = now + 1
        /\ \/ /\ Due /\ h /\ states' = states + 1
              /\ toActor' = Append(toActor, [sequence |-> states + 1, stamp |-> now])
           \/ ~(Due /\ h) /\ UNCHANGED <<states, toActor>>
    BY <1>0, <2>2, <2>3, PublishEffect
  <2>5. ~heard' => states' < Count
    <3>1. SUFFICES ASSUME ~heard' PROVE states' < Count
      OBVIOUS
    <3>2. heard' = h /\ (h = heard \/ h = TRUE)
      BY <2>2
    <3>3. ~h
      BY <3>1, <3>2, Zenon
    <3>4. h = heard
      <4>1. h # TRUE
        BY <3>3, Zenon
      <4> QED BY <3>2, <4>1
    <3>5. ~heard
      BY <3>3, <3>4, Zenon
    <3> QED BY <1>4, <2>4, <3>3, <3>5 DEF StatesOfSchedule
  <2>6. heard' /\ slot' = ActiveSlots => now' - Last' <= 1
    <3>1. SUFFICES ASSUME heard', slot' = ActiveSlots PROVE now' - Last' <= 1
      OBVIOUS
    <3>2. Due
      BY <2>1, <3>1, CountTypes DEF Due
    <3>3. h
      BY <2>2, <3>1, Zenon
    <3>4. toActor' = Append(toActor, [sequence |-> states + 1, stamp |-> now])
      BY <2>4, <3>2, <3>3
    <3>5. PICK s \in State : s.stamp = now /\ toActor' = Append(toActor, s)
      <4>1. [sequence |-> states + 1, stamp |-> now] \in State
        BY <1>0 DEF State
      <4> QED BY <3>4, <4>1
    <3>6. Last' = now
      BY <1>0, <3>5, LastStep
    <3> QED BY <1>0, <2>4, <3>6
  <2> QED BY <2>1, <2>4, <2>5, <2>6 DEF StatesOfSchedule
<1>5. CASE Gap
  <2>1. /\ slot < 0 /\ phase = "active" /\ UNCHANGED <<phase, step, heard, states>>
        /\ slot' = slot + 1
    BY <1>5 DEF Gap
  <2>2. slot' # ActiveSlots
    BY <1>0, <2>1
  <2> QED BY <1>0, <2>1, <2>2 DEF StatesOfSchedule
<1>6. CASE SlotBegins
  <2>1. UNCHANGED <<now, phase, slot, heard, states, toActor, actorVars>>
    BY <1>6 DEF SlotBegins
  <2>2. Last' = Last
    BY <1>0, <2>1, LastStep DEF actorVars
  <2> QED BY <1>2, <2>1, <2>2
<1>7. CASE Quiet
  BY <1>0, <1>1, <1>6, <1>7, QuietEffect
<1>8. CASE ShutdownOn
  BY <1>1, <1>8 DEF ShutdownOn
<1>9. CASE Receive
  <2>1. UNCHANGED <<phase, slot, heard, states, now>>
    BY <1>9 DEF Receive, controller
  <2> QED BY <1>0, <1>2, <1>9, <2>1, LastStep
<1>10. CASE \/ Compute \/ Send \/ AwaitClosed \/ ReceiveFails \/ ComputeFails
            \/ SendFails \/ AwaitFails \/ ActorFails \/ UNCHANGED vars
  <2>1. UNCHANGED <<phase, slot, heard, states, now, toActor, current>>
    BY <1>10, FaultEffect DEF Compute, Send, AwaitClosed, controller, vars, actorVars
  <2> QED BY <1>0, <1>2, <2>1, LastStep
<1> QED
  BY <1>0, <1>3, <1>4, <1>5, <1>7, <1>8, <1>9, <1>10, StepKinds, SlotOverEffect

\* An actor that waits for the close sent its last target behind the state.
LEMMA AwaitStep ==
  ASSUME ChannelInv, StampsInOrder, [Next]_vars,
         actor = "await" => current.stamp < since
  PROVE  actor' = "await" => current'.stamp < since'
<1>0. TypeOK /\ now \in Nat /\ stamp \in Nat /\ current.stamp \in Nat
  BY KeptTypes
<1>1. CASE UNCHANGED <<actor, current, since>>
  BY <1>1
<1>2. CASE SlotOver \/ Gap \/ ShutdownOn \/ Quiet
  <2>1. UNCHANGED actorVars
    BY <1>0, <1>2, SlotOverEffect, QuietEffect DEF Gap, ShutdownOn
  <2> QED BY <1>1, <2>1 DEF actorVars
<1>3. CASE Send
  <2>1. current' = current /\ since' = now /\ current.stamp < stamp /\ stamp <= now
    BY <1>3 DEF Send, StampsInOrder
  <2> QED BY <1>0, <2>1
<1>4. CASE \/ Receive \/ Compute \/ AwaitClosed \/ ReceiveFails \/ ComputeFails
           \/ SendFails \/ AwaitFails \/ ActorFails
  <2>1. actor' # "await"
    BY <1>4, FaultEffect DEF Receive, Compute, AwaitClosed
  <2> QED BY <2>1
<1>5. CASE UNCHANGED vars
  BY <1>1, <1>5 DEF vars, actorVars
<1> QED BY <1>2, <1>3, <1>4, <1>5, StepKinds

\* When the active loop ends, the last answer is not older than its slot.
LEMMA LastAnswer ==
  ASSUME ChannelInv, StatesOfSchedule, ShutdownAges,
         phase = "active", slot = ActiveSlots, actor = "await", states = Count
  PROVE  now - since <= 0
<1>0. /\ TypeOK /\ now \in Nat /\ since \in Nat /\ current.stamp \in Nat
      /\ Last \in Nat /\ answered \in Nat /\ states \in Nat /\ Count \in Nat
      /\ heard \in BOOLEAN
  <2>1. heard \in BOOLEAN
    BY DEF ChannelInv, TypeOK
  <2> QED BY <2>1, KeptTypes, StampTypes, CountTypes
<1>2. heard
  <2>1. ~(states < Count)
    BY <1>0
  <2> QED BY <2>1, Zenon DEF StatesOfSchedule
<1>3. now - Last <= 1
  BY <1>2 DEF StatesOfSchedule
<1>4. toActor = <<>>
  <2>1. ~ActorOver /\ Busy = 0 /\ answered = Count
    BY DEF ActorOver, Busy, ChannelInv, EndInOrder
  <2>2. Len(toActor) = states - answered - Busy
    BY <2>1, BusyStates
  <2>3. Len(toActor) = 0
    BY <1>0, <2>1, <2>2
  <2> QED BY <2>3, KeptTypes
<1>5. Last = current.stamp /\ current.stamp < since
  BY <1>4 DEF Last, ShutdownAges
<1> QED BY <1>0, <1>3, <1>5

\* What was published before the loop ended ages with the shutdown.
LEMMA ShutdownStep ==
  ASSUME ChannelInv, SlotsInOrder, StampsInOrder, StatesOfSchedule, ShutdownAges,
         [Next]_vars
  PROVE  ShutdownAges'
<1>0. /\ TypeOK /\ now \in Nat /\ slot \in Int /\ since \in Nat
      /\ current.stamp \in Nat /\ DOMAIN toActor = 1..Len(toActor)
      /\ Len(toActor) \in Nat /\ toActor \in Seq(State)
      /\ \A i \in DOMAIN toActor : toActor[i].stamp \in Nat
      /\ phase \in {"prepare", "active", "shutdown", "closed"}
  <2>1. phase \in {"prepare", "active", "shutdown", "closed"}
    BY DEF ChannelInv, TypeOK
  <2> QED BY <2>1, KeptTypes
<1>1. actor' = "await" => current'.stamp < since'
  BY AwaitStep DEF ShutdownAges
<1>2. CASE ~Closing'
  BY <1>1, <1>2 DEF ShutdownAges, Closing
<1>3. /\ \A i \in DOMAIN toActor : now - toActor[i].stamp > 0
      /\ Busy = 1 => now - current.stamp > 0
  BY <1>0 DEF StampsInOrder
<1>4. ASSUME phase' = "shutdown", slot' = 0,
             UNCHANGED <<now, states, toActor, actorVars>>,
             stop' # "none" \/ LoopEnds
      PROVE  ShutdownAges'
  <2>1. UNCHANGED <<actor, current, since>> /\ Busy' = Busy
    BY <1>4 DEF actorVars, Busy
  <2>2. actor = "await" /\ stop' = "none" /\ states = Count => now - since <= 0
    <3>1. LoopEnds /\ stop' = "none" => phase = "active" /\ slot = ActiveSlots
      BY DEF LoopEnds, Draining, Slots
    <3> QED BY <1>4, <3>1, LastAnswer
  <2> QED BY <1>1, <1>3, <1>4, <2>1, <2>2 DEF ShutdownAges, Closing
<1>5. CASE ShutdownOn
  <2>1. /\ phase = "shutdown" /\ phase' = phase /\ slot' = slot + 1 /\ now' = now + 1
        /\ UNCHANGED <<actor, current, since, toActor, stop, states>> /\ Busy' = Busy
    BY <1>5 DEF ShutdownOn, Tick, actorVars, Busy
  <2>2. /\ slot >= 0
        /\ \A i \in DOMAIN toActor : now - toActor[i].stamp > slot
        /\ Busy = 1 => now - current.stamp > slot
        /\ actor = "await" /\ stop = "none" /\ states = Count => now - since <= slot
    BY <2>1 DEF ShutdownAges, Closing
  <2>3. \A i \in DOMAIN toActor' : now' - toActor'[i].stamp > slot'
    <3>1. TAKE i \in DOMAIN toActor'
    <3>2. /\ toActor'[i] = toActor[i] /\ toActor[i].stamp \in Nat
          /\ now - toActor[i].stamp > slot
      BY <1>0, <2>1, <2>2
    <3> QED BY <1>0, <2>1, <3>2
  <2>4. Busy' = 1 => now' - current'.stamp > slot'
    BY <1>0, <2>1, <2>2
  <2>5. actor' = "await" /\ stop' = "none" /\ states' = Count =>
          now' - since' <= slot'
    BY <1>0, <2>1, <2>2
  <2>6. slot' >= 0 /\ phase' # "closed"
    BY <1>0, <2>1, <2>2
  <2> QED BY <1>1, <2>3, <2>4, <2>5, <2>6 DEF ShutdownAges
<1>6. CASE DrainRefuses \/ DrainDisconnected \/ PublishFails \/ Watchdog
  <2>1. UNCHANGED <<now, states, toActor, actorVars>>
    BY <1>0, <1>6, QuietEffect DEF Quiet
  <2>2. phase' = "shutdown" /\ slot' = 0 /\ stop' # "none"
    BY <1>6 DEF DrainRefuses, DrainDisconnected, PublishFails, Watchdog, Throw
  <2> QED BY <1>4, <2>1, <2>2
<1>7. CASE LoopEnds
  <2>1. UNCHANGED <<now, states, toActor, actorVars>>
    BY <1>0, <1>7, QuietEffect DEF Quiet
  <2>2. phase' = "shutdown" /\ slot' = 0
    BY <1>7 DEF LoopEnds
  <2> QED BY <1>4, <1>7, <2>1, <2>2
<1>8. CASE Close
  <2>1. /\ phase = "shutdown" /\ phase' = "closed"
        /\ UNCHANGED <<now, slot, stop, states, toActor, actor, current, since>>
        /\ stop = "none" => slot >= ShutdownTicks
        /\ Busy' = Busy
    BY <1>8 DEF Close, actorVars, Busy
  <2> QED BY <1>1, <2>1 DEF ShutdownAges, Closing
<1>9. CASE ControllerFails
  <2>1. CASE phase = "shutdown"
    <3>1. /\ phase' = phase /\ stop' = "other" /\ Busy' = Busy
          /\ UNCHANGED <<now, slot, states, toActor, actor, current, since>>
      BY <1>9, <2>1 DEF ControllerFails, actorVars, Busy
    <3> QED BY <1>1, <2>1, <3>1 DEF ShutdownAges, Closing
  <2>2. CASE phase # "shutdown"
    <3>1. Throw("other")
      BY <1>9, <2>2 DEF ControllerFails
    <3> QED BY <1>4, <3>1 DEF Throw
  <2> QED BY <2>1, <2>2
<1>10. CASE SlotOver \/ Gap \/ SlotBegins
  <2>1. phase' \in {"prepare", "active"}
    BY <1>0, <1>10, SlotOverEffect DEF Gap, SlotBegins, Drain, Draining
  <2> QED BY <1>2, <2>1 DEF Closing
<1>11. ASSUME UNCHANGED <<now, controller>>,
              actor' = "await" => now - since' <= 0 \/ UNCHANGED <<actor, since>>,
              Closing =>
                /\ \A i \in DOMAIN toActor' : now - toActor'[i].stamp > slot
                /\ Busy' = 1 => now - current'.stamp > slot
       PROVE  ShutdownAges'
  <2>1. UNCHANGED <<now, phase, slot, stop, states>>
    BY <1>11 DEF controller
  <2>2. (Closing' => Closing) /\ (Closing => slot >= 0)
    BY <2>1 DEF Closing, ShutdownAges
  <2>3. Closing /\ actor' = "await" /\ stop' = "none" /\ states' = Count =>
          now - since' <= slot
    <3>1. SUFFICES ASSUME Closing, actor' = "await", stop' = "none", states' = Count
                   PROVE  now - since' <= slot
      OBVIOUS
    <3>2. CASE UNCHANGED <<actor, since>>
      BY <2>1, <3>1, <3>2 DEF ShutdownAges
    <3>3. CASE now - since' <= 0
      <4>1. since' \in Nat
        BY NextChannelInv DEF ChannelInv, TypeOK
      <4>2. slot >= 0 /\ slot \in Int /\ now \in Nat
        BY <1>0, <2>2, <3>1
      <4>3. PICK a \in Nat : a = since'
        BY <4>1
      <4>4. now - a <= 0
        BY <3>3, <4>3
      <4>5. now - a <= slot
        BY <4>2, <4>4
      <4> QED BY <4>3, <4>5
    <3> QED BY <1>11, <3>1, <3>2, <3>3
  <2>4. phase = "closed" /\ stop = "none" => slot >= ShutdownTicks
    BY DEF ShutdownAges
  <2> QED BY <1>1, <1>11, <2>1, <2>2, <2>3, <2>4 DEF ShutdownAges
<1>12. CASE Receive
  <2>1. /\ now' = now /\ toActor # <<>> /\ current' = toActor[1]
        /\ toActor' = Tail(toActor) /\ actor' = "compute" /\ UNCHANGED controller
    BY <1>0, <1>12 DEF Receive
  <2>2. /\ \A i \in DOMAIN toActor' :
             i + 1 \in DOMAIN toActor /\ toActor'[i] = toActor[i + 1]
        /\ 1 \in DOMAIN toActor
    BY <1>0, <2>1
  <2>3. Closing => \A i \in DOMAIN toActor : now - toActor[i].stamp > slot
    BY DEF ShutdownAges
  <2> QED BY <1>11, <2>1, <2>2, <2>3
<1>13. CASE Compute \/ Send
  <2>1. /\ UNCHANGED <<now, controller, toActor, current>> /\ Busy = 1
        /\ actor' = "await" => since' = now
    BY <1>13 DEF Compute, Send, Busy
  <2>2. Closing => /\ \A i \in DOMAIN toActor : now - toActor[i].stamp > slot
                   /\ now - current.stamp > slot
    BY <2>1 DEF ShutdownAges
  <2>3. actor' = "await" => now - since' <= 0
    BY <1>0, <2>1
  <2> QED BY <1>11, <2>1, <2>2, <2>3
<1>14. CASE \/ AwaitClosed \/ ReceiveFails \/ ComputeFails \/ SendFails
            \/ AwaitFails \/ ActorFails
  <2>1. /\ UNCHANGED <<now, controller, toActor>> /\ actor' \in {"ok", "fault"}
        /\ Busy' = 0
    BY <1>14, FaultEffect DEF AwaitClosed, Busy
  <2> QED BY <1>11, <2>1 DEF ShutdownAges
<1>15. CASE UNCHANGED vars
  <2>1. UNCHANGED <<now, controller, toActor, actor, current, since>> /\ Busy' = Busy
    BY <1>15 DEF vars, actorVars, Busy
  <2> QED BY <1>11, <2>1 DEF ShutdownAges
<1> QED
  BY <1>5, <1>6, <1>7, <1>8, <1>9, <1>10, <1>12, <1>13, <1>14, <1>15, StepKinds
  DEF Quiet

\* Behind an actor that gave up in the active loop the last slot does not end,
\* and behind one that gave up in the shutdown the time goes on.
LEMMA GivenUpStep ==
  ASSUME ChannelInv, StatesOfSchedule, SlotOver \/ Gap \/ ShutdownOn \/ Quiet,
         actor = "fault", stop' = "none", states' = states, states = Count,
         \/ phase = "active" /\ slot # ActiveSlots
         \/ Closing /\ slot >= CloseWait
  PROVE  \/ phase' = "active" /\ slot' # ActiveSlots
         \/ Closing' /\ slot' >= CloseWait
<1>0. /\ TypeOK /\ slot \in Int /\ states \in Nat /\ heard \in BOOLEAN
      /\ ActiveSlots \in Nat /\ ActiveSlots >= 1 /\ ActiveSlots % Period = 0
      /\ CloseWait \in Nat /\ Count \in Nat
  <2>1. heard \in BOOLEAN
    BY DEF ChannelInv, TypeOK
  <2> QED BY <2>1, KeptTypes, CountTypes
<1>1. SlotOver \/ Gap \/ ShutdownOn \/ SlotBegins \/ LoopEnds \/ Close
  BY <1>0, StopStep
<1>2. CASE SlotOver
  <2>1. phase = "active" /\ slot # ActiveSlots
    BY <1>0, <1>2, SlotOverEffect DEF Closing
  <2>2. SlotEnds /\ phase' = "active" /\ slot' = slot + 1
    BY <1>2, <2>1 DEF SlotOver, Prepared, PrepareOn, SlotEnds
  <2>3. PICK h \in {heard, TRUE} : Publish(h) /\ heard' = h
    BY <2>2 DEF SlotEnds
  <2>4. slot' # ActiveSlots
    <3>1. SUFFICES ASSUME slot' = ActiveSlots PROVE FALSE
      OBVIOUS
    <3>2. Due
      BY <1>0, <2>2, <3>1 DEF Due
    <3>3. ~h
      BY <2>3, <3>2 DEF Publish, ActorGone
    <3>4. h = heard
      <4>1. h # TRUE
        BY <3>3, Zenon
      <4> QED BY <2>3, <4>1
    <3>5. ~heard
      BY <3>3, <3>4, Zenon
    <3> QED BY <1>0, <2>1, <3>5 DEF StatesOfSchedule
  <2> QED BY <2>2, <2>4
<1>3. CASE Gap
  <2>1. phase = "active" /\ phase' = phase /\ slot < 0 /\ slot' = slot + 1
    BY <1>3 DEF Gap
  <2> QED BY <1>0, <2>1
<1>4. CASE ShutdownOn
  <2>1. phase = "shutdown" /\ phase' = phase /\ slot' = slot + 1
    BY <1>4 DEF ShutdownOn
  <2> QED BY <1>0, <2>1 DEF Closing
<1>5. CASE SlotBegins
  BY <1>5 DEF SlotBegins, Drain, ActorGone
<1>6. CASE LoopEnds
  <2>1. Draining /\ slot = Slots
    BY <1>6 DEF LoopEnds
  <2>2. phase = "active" => slot = ActiveSlots
    BY <2>1 DEF Slots
  <2>3. ~Closing
    BY <2>1 DEF Draining, Closing
  <2> QED BY <2>2, <2>3
<1>7. CASE Close
  <2>1. phase = "shutdown" /\ phase' = "closed" /\ slot' = slot
    BY <1>7 DEF Close
  <2> QED BY <2>1 DEF Closing
<1> QED BY <1>1, <1>2, <1>3, <1>4, <1>5, <1>6, <1>7

\* When the controller has closed after a run that went well, an actor that kept
\* up has nothing left to answer.
LEMMA NothingLeft ==
  ASSUME ChannelInv, ShutdownAges, RoomForCount, AnsweredInTime, ~ActorOver,
         phase = "closed", stop = "none"
  PROVE  Busy = 0 /\ toActor = <<>> /\ states = answered
<1>0. /\ now \in Nat /\ slot \in Int /\ current.stamp \in Nat
      /\ states \in Nat /\ answered \in Nat
      /\ DOMAIN toActor = 1..Len(toActor) /\ Len(toActor) \in Nat
      /\ \A i \in DOMAIN toActor : toActor[i].stamp \in Nat
      /\ Prompt \in Nat /\ ShutdownTicks \in Nat
  BY KeptTypes, CountTypes
<1>1. slot >= Prompt
  <2>1. slot >= ShutdownTicks /\ Prompt <= ShutdownTicks
    BY DEF ShutdownAges, RoomForCount
  <2> QED BY <1>0, <2>1
<1>2. Busy = 0
  <2>1. SUFFICES ASSUME Busy = 1 PROVE FALSE
    BY DEF Busy
  <2>2. now - current.stamp > slot
    BY <2>1 DEF ShutdownAges, Closing
  <2>3. now - current.stamp <= Prompt
    BY <2>1 DEF AnsweredInTime
  <2> QED BY <1>0, <1>1, <2>2, <2>3
<1>3. toActor = <<>>
  <2>1. SUFFICES ASSUME toActor # <<>> PROVE FALSE
    OBVIOUS
  <2>2. 1 \in DOMAIN toActor
    BY <1>0, <2>1, BusyStates
  <2>3. now - toActor[1].stamp > slot
    BY <2>2 DEF ShutdownAges, Closing
  <2>4. now - toActor[1].stamp <= Prompt /\ toActor[1].stamp \in Nat
    BY <1>0, <2>2 DEF AnsweredInTime
  <2> QED BY <1>0, <1>1, <2>3, <2>4
<1>4. states = answered
  <2>1. states - answered = 0
    BY <1>2, <1>3, BusyStates
  <2> QED BY <1>0, <2>1
<1> QED BY <1>2, <1>3, <1>4

\* What an actor says when it fails to receive.
LEMMA ReceiveFault ==
  ASSUME ChannelInv, ShutdownAges, RoomForCount, ~late => AnsweredInTime, ReceiveFails
  PROVE  /\ why' \in {"stale", "gone", "timeout"}
         /\ ~late => why' # "stale"
         /\ why' = "timeout" => states < Count
         /\ why' = "gone" /\ stop = "none" /\ ~late => states < Count
<1>0. /\ now \in Nat /\ states \in Nat /\ answered \in Nat /\ Count \in Nat
      /\ Prompt \in Nat /\ MaxAge \in Nat /\ Len(toActor) \in Nat
      /\ DOMAIN toActor = 1..Len(toActor)
      /\ \A i \in DOMAIN toActor : toActor[i].stamp \in Nat
  BY KeptTypes, CountTypes
<1>1. actor = "receive" /\ ~ActorOver /\ Busy = 0 /\ answered < Count
  BY DEF ReceiveFails, ActorOver, Busy, ChannelInv, EndInOrder
<1>2. CASE toActor # <<>> /\ ~Reset
  <2>1. now - Head(toActor).stamp > MaxAge /\ why' = "stale"
    BY <1>2 DEF ReceiveFails, Fault
  <2>2. ASSUME ~late PROVE FALSE
    <3>1. AnsweredInTime
      BY <2>2, Zenon
    <3>2. Head(toActor) = toActor[1] /\ 1 \in DOMAIN toActor
      BY <1>0, <1>1, <1>2, BusyStates
    <3>3. now - toActor[1].stamp <= Prompt /\ toActor[1].stamp \in Nat
      BY <1>0, <1>1, <3>1, <3>2 DEF AnsweredInTime
    <3>4. Prompt <= MaxAge
      BY <1>0 DEF RoomForCount
    <3> QED BY <1>0, <2>1, <3>2, <3>3, <3>4
  <2>3. late
    BY <2>2, Zenon
  <2> QED BY <2>1, <2>3
<1>3. CASE ~(toActor # <<>> /\ ~Reset)
  <2>1. CASE ControllerGone /\ Fault("gone")
    <3>1. why' = "gone" /\ phase = "closed"
      BY <2>1 DEF Fault, ControllerGone
    <3>2. ASSUME stop = "none", ~late PROVE states < Count
      <4>1. AnsweredInTime
        BY <3>2, Zenon
      <4> QED BY <1>1, <3>1, <3>2, <4>1, NothingLeft
    <3> QED BY <3>1, <3>2
  <2>2. CASE ~ControllerGone /\ Fault("timeout")
    <3>1. why' = "timeout"
      BY <2>2 DEF Fault
    <3>2. toActor = <<>>
      BY <1>1, <1>3, <2>2 DEF Reset, ActorGone
    <3>3. states - answered = 0
      BY <1>1, <3>2, BusyStates
    <3> QED BY <1>0, <1>1, <3>1, <3>3
  <2> QED BY <1>3, <2>1, <2>2 DEF ReceiveFails
<1> QED BY <1>2, <1>3

\* What it says when it fails to compute or to send.
LEMMA BusyFault ==
  ASSUME ChannelInv, ShutdownAges, RoomForCount, ~late => AnsweredInTime,
         ComputeFails \/ SendFails
  PROVE  /\ why' \in {"stale", "gone"}
         /\ ~late => why' # "stale"
         /\ stop = "none" /\ ~late => why' # "gone"
<1>0. /\ now \in Nat /\ current.stamp \in Nat /\ Prompt \in Nat /\ MaxAge \in Nat
  BY KeptTypes, CountTypes
<1>1. ~ActorOver /\ Busy = 1
  BY DEF ComputeFails, SendFails, ActorOver, Busy
<1>2. CASE ComputeFails
  <2>1. now - current.stamp > MaxAge /\ why' = "stale"
    BY <1>2 DEF ComputeFails, Fault
  <2>2. ASSUME ~late PROVE FALSE
    <3>1. AnsweredInTime
      BY <2>2, Zenon
    <3>2. now - current.stamp <= Prompt /\ Prompt <= MaxAge
      BY <1>0, <1>1, <3>1 DEF AnsweredInTime, RoomForCount
    <3> QED BY <1>0, <2>1, <3>2
  <2>3. late
    BY <2>2, Zenon
  <2> QED BY <2>1, <2>3
<1>3. CASE SendFails
  <2>1. phase = "closed" /\ why' = "gone"
    BY <1>3 DEF SendFails, ControllerGone, Fault
  <2>2. ASSUME stop = "none", ~late PROVE FALSE
    <3>1. AnsweredInTime
      BY <2>2, Zenon
    <3>2. Busy = 0
      BY <1>1, <2>1, <2>2, <3>1, NothingLeft
    <3> QED BY <1>1, <3>2
  <2> QED BY <2>1, <2>2
<1> QED BY <1>2, <1>3

\* What it says when it fails to see the close.
LEMMA AwaitFault ==
  ASSUME ChannelInv, SlotsInBounds, StatesOfSchedule, ShutdownAges, RoomForCount,
         AwaitFails
  PROVE  /\ why' \in {"extra", "close_timeout"}
         /\ why' = "extra" => states > Count
         /\ why' = "close_timeout" /\ stop = "none" /\ states = Count =>
              \/ phase = "active" /\ slot # ActiveSlots
              \/ Closing /\ slot >= CloseWait
<1>0. /\ now \in Nat /\ since \in Nat /\ slot \in Int /\ states \in Nat
      /\ answered \in Nat /\ Count \in Nat /\ CloseWait \in Nat /\ CloseWait >= 1
      /\ Len(toActor) \in Nat /\ Period \in Nat \ {0} /\ PrepTicks \in Nat
      /\ phase \in {"prepare", "active", "shutdown", "closed"}
  <2>1. phase \in {"prepare", "active", "shutdown", "closed"}
    BY DEF ChannelInv, TypeOK
  <2> QED BY <2>1, KeptTypes, CountTypes
<1>1. actor = "await" /\ ~ActorOver /\ Busy = 0 /\ answered = Count
  BY DEF AwaitFails, ActorOver, Busy, ChannelInv, EndInOrder
<1>2. CASE toActor # <<>> /\ Fault("extra")
  <2>1. why' = "extra" /\ states > answered
    BY <1>1, <1>2, BusyStates DEF Fault
  <2> QED BY <1>1, <2>1
<1>3. CASE /\ toActor = <<>> /\ ~ControllerGone /\ now - since >= CloseWait
           /\ Fault("close_timeout")
  <2>1. why' = "close_timeout" /\ now - since >= CloseWait
    BY <1>3 DEF Fault
  <2>2. ASSUME stop = "none", states = Count
        PROVE  \/ phase = "active" /\ slot # ActiveSlots
               \/ Closing /\ slot >= CloseWait
    <3>1. CASE phase = "prepare"
      <4>1. /\ states * Period + (slot % Period) <= slot /\ slot \in 0..PrepTicks
        BY <3>1 DEF StatesOfSchedule, SlotsInBounds
      <4>2. PICK r \in Nat : r = slot % Period
        <5>1. slot \in Nat
          BY <1>0, <4>1
        <5>2. slot % Period \in 0..(Period - 1)
          BY <1>0, <5>1, Division
        <5> QED BY <5>2
      <4>3. states * Period + r <= slot /\ slot <= PrepTicks /\ states \in Int
        BY <1>0, <4>1, <4>2
      <4>4. states < Count
        BY <1>0, <4>3, EarlyCount
      <4> QED BY <1>0, <2>2, <4>4
    <3>2. CASE phase = "active"
      <4>1. SUFFICES ASSUME slot = ActiveSlots PROVE FALSE
        BY <3>2
      <4>2. now - since <= 0
        BY <1>1, <2>2, <3>2, <4>1, LastAnswer
      <4> QED BY <1>0, <2>1, <4>2
    <3>3. CASE Closing
      <4>1. now - since <= slot
        BY <1>1, <2>2, <3>3 DEF ShutdownAges
      <4>2. slot >= CloseWait
        BY <1>0, <2>1, <4>1
      <4> QED BY <3>3, <4>2
    <3> QED BY <1>0, <3>1, <3>2, <3>3 DEF Closing
  <2> QED BY <2>1, <2>2
<1> QED BY <1>2, <1>3 DEF AwaitFails

\* What a failure says stays true, and is true when it comes.
LEMMA FaultsStep ==
  ASSUME ChannelInv, SlotsInOrder, SlotsInBounds, StatesOfSchedule, ShutdownAges,
         FaultsByCount, ~late => AnsweredInTime, RoomForCount, [Next]_vars
  PROVE  FaultsByCount'
<1>0. TypeOK /\ (late => late')
  BY KeptTypes, HistoryStep
<1>1. CASE why' = "none" /\ actor' # "fault"
  BY <1>1 DEF FaultsByCount
<1>2. CASE UNCHANGED <<states, late, stop, phase, slot, why, actor>>
  BY <1>2 DEF FaultsByCount, Closing
<1>3. CASE Receive \/ Compute \/ Send \/ AwaitClosed
  <2>1. actor # "fault" /\ actor' # "fault" /\ why' = why
    BY <1>3 DEF Receive, Compute, Send, AwaitClosed
  <2> QED BY <1>1, <2>1 DEF SlotsInOrder
<1>4. CASE ReceiveFails \/ ComputeFails \/ SendFails \/ AwaitFails \/ ActorFails
  <2>1. UNCHANGED <<states, late, stop, phase, slot>>
    BY <1>4, FaultEffect DEF controller, history
  <2>2. CASE ReceiveFails
    BY <2>1, <2>2, ReceiveFault DEF FaultsByCount
  <2>3. CASE ComputeFails \/ SendFails
    BY <2>1, <2>3, BusyFault DEF FaultsByCount
  <2>4. CASE AwaitFails
    BY <2>1, <2>4, AwaitFault DEF FaultsByCount, Closing
  <2>5. CASE ActorFails
    <3>1. why' = "other"
      BY <2>5 DEF ActorFails, Fault
    <3> QED BY <3>1 DEF FaultsByCount
  <2> QED BY <1>4, <2>2, <2>3, <2>4, <2>5
<1>5. CASE SlotOver \/ Gap \/ ShutdownOn \/ Quiet
  <2>1. UNCHANGED <<actor, why>>
    BY <1>0, <1>5, SlotOverEffect, QuietEffect DEF Gap, ShutdownOn, actorVars
  <2>2. CASE actor # "fault"
    BY <1>1, <2>1, <2>2 DEF SlotsInOrder
  <2>3. CASE actor = "fault"
    <3>1. states' = states
      <4>1. CASE SlotOver
        BY <1>0, <2>3, <4>1, SlotOverEffect, PublishEffect DEF ActorGone
      <4>2. CASE Gap \/ ShutdownOn \/ Quiet
        BY <1>0, <4>2, QuietEffect DEF Gap, ShutdownOn
      <4> QED BY <1>5, <4>1, <4>2
    <3>2. stop' = "none" => stop = "none"
      BY <1>0, <1>5, StopStep
    <3>3. ~late' => ~late
      BY <1>0, Zenon
    <3>4. why' = "close_timeout" /\ stop' = "none" /\ states' = Count =>
            \/ phase' = "active" /\ slot' # ActiveSlots
            \/ Closing' /\ slot' >= CloseWait
      <4>1. SUFFICES ASSUME why' = "close_timeout", stop' = "none", states' = Count
                     PROVE  \/ phase' = "active" /\ slot' # ActiveSlots
                            \/ Closing' /\ slot' >= CloseWait
        OBVIOUS
      <4>2. \/ phase = "active" /\ slot # ActiveSlots
            \/ Closing /\ slot >= CloseWait
        BY <2>1, <3>1, <3>2, <4>1 DEF FaultsByCount
      <4> QED BY <1>5, <2>3, <3>1, <4>1, <4>2, GivenUpStep
    <3>5. /\ actor = "fault" => why # "none"
          /\ ~late => why # "stale"
          /\ why = "timeout" => states < Count
          /\ why = "extra" => states > Count
          /\ why = "gone" /\ stop = "none" /\ ~late => states < Count
      BY DEF FaultsByCount
    <3>6. ~late' => why' # "stale"
      BY <2>1, <3>3, <3>5
    <3>7. why' = "gone" /\ stop' = "none" /\ ~late' => states' < Count
      BY <2>1, <3>1, <3>2, <3>3, <3>5
    <3> QED BY <2>1, <3>1, <3>4, <3>5, <3>6, <3>7 DEF FaultsByCount
  <2> QED BY <2>2, <2>3
<1>6. CASE UNCHANGED vars
  BY <1>2, <1>6 DEF vars, controller, actorVars, history
<1> QED BY <1>3, <1>4, <1>5, <1>6, StepKinds

\* At first no state is published, and nobody waits.
LEMMA InitCountInv ==
  ASSUME Init
  PROVE  CountInv
<1>1. /\ phase = "prepare" /\ slot = 0 /\ step = "drain" /\ states = 0
      /\ actor = "receive" /\ why = "none"
  BY DEF Init
<1>2. 0 * Period + (0 % Period) <= 0
  <2>1. Period \in Int /\ Period \in Nat \ {0} /\ 0 \in Nat
    BY CountTypes
  <2>2. 0 % Period = 0
    BY <2>1, NextRemainder
  <2>3. 0 * Period = 0
    BY <2>1
  <2> QED BY <2>1, <2>2, <2>3
<1>3. SlotsInBounds /\ StatesOfSchedule
  BY <1>1, <1>2, InitBounds DEF StatesOfSchedule
<1>4. ShutdownAges /\ FaultsByCount
  BY <1>1 DEF ShutdownAges, FaultsByCount, Closing
<1>5. AnsweredInTime
  BY InitInTime DEF InTime
<1> QED BY <1>3, <1>4, <1>5 DEF CountInv

(***************************************************************************)
(* A run ends by the number of its states, for every schedule whose        *)
(* preparation is too short for all of them and every interleaving: an     *)
(* actor believes in a complete run only behind the close and all states,  *)
(* and when the controller passed, an actor that kept up and had exactly   *)
(* those states says so too.                                               *)
(***************************************************************************)
THEOREM RunsCompleteByCount ==
  ASSUME RoomForCount
  PROVE  Spec => []CompletionByCount
<1> DEFINE Inv == ChannelInv /\ SlotsInOrder /\ StampsInOrder /\ CountInv
<1>1. Init => Inv
  BY InitChannelInv, InitInTime, InitCountInv
<1>2. Inv /\ [Next]_vars => Inv'
  <2>1. SUFFICES ASSUME Inv, [Next]_vars PROVE Inv'
    OBVIOUS
  <2>2. /\ SlotsInBounds /\ StatesOfSchedule /\ ShutdownAges /\ FaultsByCount
        /\ ~late => AnsweredInTime
    BY <2>1 DEF CountInv
  <2>3. ChannelInv' /\ SlotsInOrder' /\ StampsInOrder'
    BY <2>1, NextChannelInv, SlotsStep, StampsStep
  <2>4. SlotsInBounds' /\ StatesOfSchedule' /\ ShutdownAges'
    BY <2>1, <2>2, BoundsStep, ScheduleStep, ShutdownStep
  <2>5. FaultsByCount'
    BY <2>1, <2>2, FaultsStep
  <2>6. ASSUME ~late' PROVE AnsweredInTime'
    <3>1. ~late
      <4>1. late => late'
        BY <2>1, KeptTypes, HistoryStep
      <4> QED BY <2>6, <4>1, Zenon
    <3>2. AnsweredInTime /\ Prompt \in 1..MaxAge
      BY <2>2, <3>1 DEF RoomForCount
    <3> QED BY <2>1, <2>6, <3>2, AnsweredStep
  <2> QED BY <2>3, <2>4, <2>5, <2>6 DEF CountInv
<1>3. Inv => CompletionByCount
  <2>1. SUFFICES ASSUME Inv PROVE CompletionByCount
    OBVIOUS
  <2>2. actor = "ok" => /\ phase = "closed" /\ states >= Count
                        /\ Reset \/ states = Count
    BY <2>1 DEF ChannelInv, EndInOrder
  <2>3. ASSUME PassedInTime, states = Count PROVE actor = "ok"
    <3>1. SUFFICES ASSUME actor = "fault" PROVE FALSE
      BY <2>3 DEF PassedInTime, ActorOver
    <3>2. /\ phase = "closed" /\ stop = "none" /\ slot < CloseWait /\ ~late
          /\ why # "other"
      BY <2>3 DEF PassedInTime
    <3>3. /\ why \in {"none", "gone", "stale", "timeout", "extra", "close_timeout",
                      "other"}
          /\ slot \in Int /\ states \in Nat /\ CloseWait \in Nat
      BY <2>1, CountTypes DEF ChannelInv, TypeOK
    <3>4. why = "close_timeout"
      BY <2>1, <2>3, <3>1, <3>2, <3>3 DEF CountInv, FaultsByCount
    <3>5. slot >= CloseWait
      BY <2>1, <2>3, <3>2, <3>4 DEF CountInv, FaultsByCount
    <3> QED BY <3>2, <3>3, <3>5
  <2> QED BY <2>2, <2>3 DEF CompletionByCount
<1> QED BY <1>1, <1>2, <1>3, PTL DEF Spec

================================================================================
