------------------------------- MODULE PolicyIpc -------------------------------
(***************************************************************************)
(* The policy channel of a powered run, a seqpacket socket between the     *)
(* native controller and the native actor.                                 *)
(*                                                                         *)
(* The controller (run_native_protected_policy, send_state_packet and      *)
(* drain_target_packets of native/src/sprite_can_shadow.cpp) publishes a   *)
(* state every 20 ms and takes targets in every slot.  The actor (the loop *)
(* of sprite_policy_replay.cpp over PolicyStateChannel of                  *)
(* policy_state_ipc.hpp) answers a fixed number of states, one at a time,  *)
(* and then waits for the controller to close.                             *)
(*                                                                         *)
(* A tick is one slot of the controller, which sleeps to absolute          *)
(* deadlines and so runs once in each tick; the actor runs in between,     *)
(* when it can.  Drives, guards, IMU and inference are failures that may   *)
(* come at any time.                                                       *)
(***************************************************************************)
EXTENDS Integers, Sequences

CONSTANTS
  Period,        \* 40 slots from one state to the next
  PrepTicks,     \* 4000 slots to get a first target
  GapTicks,      \* 20 ms from the enable frames to the first active slot
  ActiveStates,  \* 2000 states of the active loop
  ShutdownTicks, \* about 240 ms: disable, verify, of a run that goes well
  MaxReport,     \* bound: ticks that writing the report takes
  MaxAge,        \* 100 ms: max_age_ of a state
  TargetTimeout, \* 100 ms: kTargetTimeoutNs
  MaxLag,        \* 5 states
  FirstWait,     \* 1000 ms: startup_wait_ms_
  NextWait,      \* 100 ms: poll of the later states
  CloseWait,     \* 1000 ms: await_controller_close
  Prompt         \* response time of an actor that keeps up

ASSUME ScheduleAssumption ==
  /\ {Period, PrepTicks, ActiveStates, ShutdownTicks, FirstWait, NextWait,
      CloseWait} \subseteq Nat \ {0}
  /\ {GapTicks, MaxReport, MaxAge, TargetTimeout, MaxLag, Prompt} \subseteq Nat

VARIABLES
  now,           \* ticks since the client was accepted
  phase,         \* "prepare", "active", "shutdown", "closed"
  slot, step,    \* slot, negative in the gap; "drain" or "publish"
  heard,         \* all_seen()
  states,        \* ipc.state_sequence
  target,        \* ipc.latest_target
  stop,          \* why the controller failed first, "none" if it did not
  actor,         \* "receive", "compute", "send", "await", "ok", "fault"
  current,       \* the state the actor works on
  stamp,         \* when it computed the target
  answered,      \* targets sent
  since,         \* when it began to wait; history: when it failed
  why,           \* why it failed
  toActor,       \* states sent and not received
  toController,  \* targets sent and not received
  early, skipped, late  \* history: states published in the preparation, active
                 \* states left out, and whether the actor fell behind

controller == <<phase, slot, step, heard, states, target, stop>>
actorVars == <<actor, current, stamp, answered, since, why>>
history == <<early, skipped, late>>
vars == <<now, controller, actorVars, toActor, toController, history>>

Count == 1 + ActiveStates  \* 2001: "preparation plus 2000 active states"
ActiveSlots == Period * ActiveStates

NoState == [sequence |-> 0, stamp |-> 0]
\* sourced, when the source state was stamped, is history.
NoTarget == [source |-> 0, sourced |-> 0, stamp |-> 0]

Init ==
  /\ now = 0
  /\ phase = "prepare" /\ slot = 0 /\ step = "drain" /\ heard = FALSE
  /\ states = 0 /\ target = NoTarget /\ stop = "none"
  /\ actor = "receive" /\ current = NoState /\ stamp = 0 /\ answered = 0
  /\ since = 0 /\ why = "none"
  /\ toActor = <<>> /\ toController = <<>>
  /\ early = 0 /\ skipped = 0 /\ late = FALSE

--------------------------------------------------------------------------------
(* The socket.  Who closes it with something unread resets it: the peer's  *)
(* next call fails at once, instead of after what was sent before.         *)

ActorGone == actor = "fault"
ControllerGone == phase = "closed"
ActorOver == actor \in {"ok", "fault"}
Reset == \/ ActorGone /\ toActor # <<>>
         \/ ControllerGone /\ toController # <<>>

\* A state the actor has not answered yet, the oldest.
Unanswered ==
  IF actor \in {"compute", "send"} THEN <<current>> \o toActor ELSE toActor

Tick ==
  /\ now' = now + 1
  /\ late' = (late \/ (Unanswered # <<>> /\ now + 1 - Head(Unanswered).stamp > Prompt))

--------------------------------------------------------------------------------
(* The controller.                                                         *)

\* A C++ exception in the first try block.
Throw(cause) ==
  /\ phase' = "shutdown" /\ slot' = 0 /\ step' = "drain" /\ stop' = cause
  /\ UNCHANGED <<now, heard, states, target, toActor, actorVars, history>>

\* drain_target_packets refuses a target for its age or the age of its source.
Stale(t) == now - t.stamp > TargetTimeout
Lagging(t) == states - t.source > MaxLag
Refused(t) == Stale(t) \/ Lagging(t)

Draining == step = "drain" /\ (phase = "prepare" \/ (phase = "active" /\ slot >= 0))
Slots == IF phase = "prepare" THEN PrepTicks ELSE ActiveSlots

DrainRefuses ==
  /\ Draining /\ slot < Slots /\ ~Reset
  /\ \E i \in 1..Len(toController) :
       /\ Refused(toController[i])
       /\ \A j \in 1..(i - 1) : ~Refused(toController[j])
       /\ Throw(IF Lagging(toController[i]) THEN "lag" ELSE "stale")
       /\ toController' = SubSeq(toController, i + 1, Len(toController))

\* recv returns 0 behind the last target, or ECONNRESET.
DrainDisconnected ==
  /\ Draining /\ slot < Slots /\ ActorGone
  /\ Reset \/ \A i \in 1..Len(toController) : ~Refused(toController[i])
  /\ Throw("gone")
  /\ UNCHANGED toController

\* Mutant: one target per slot, so the end of the stream is seen behind the last.
DrainOne ==
  /\ Draining /\ slot < Slots
  /\ toController # <<>> => ~Refused(Head(toController))
  /\ toController = <<>> => ~ActorGone
  /\ target' = IF toController = <<>> THEN target ELSE Head(toController)
  /\ toController' = IF toController = <<>> THEN <<>> ELSE Tail(toController)

\* All targets are taken, the newest counts.
Drain ==
  /\ Draining /\ slot < Slots /\ ~ActorGone
  /\ \A i \in 1..Len(toController) : ~Refused(toController[i])
  /\ target' = IF toController = <<>> THEN target ELSE toController[Len(toController)]
  /\ toController' = <<>>

\* Mutant: the watchdog only asks for a target, not for its age.
WatchdogWithoutAge == target'.source = 0

WatchdogExpired == target'.source = 0 \/ now - target'.stamp > TargetTimeout

\* Up to the commands of the slot.
SlotBegins ==
  /\ Drain
  /\ phase = "active" => ~WatchdogExpired
  /\ step' = "publish"
  /\ UNCHANGED <<now, phase, slot, heard, states, stop, toActor, actorVars, history>>

Watchdog ==
  /\ phase = "active" /\ Drain /\ WatchdogExpired
  /\ phase' = "shutdown" /\ slot' = 0 /\ stop' = "watchdog"
  /\ UNCHANGED <<now, step, heard, states, toActor, actorVars, history>>

Due == (slot + 1) % Period = 0

\* send_state_packet of what h says was heard of all motors; the slot is over.
Publish(h) ==
  /\ step = "publish"
  /\ ~(Due /\ h /\ ActorGone)
  /\ states' = IF Due /\ h THEN states + 1 ELSE states
  /\ toActor' = IF Due /\ h
                THEN Append(toActor, [sequence |-> states', stamp |-> now])
                ELSE toActor
  /\ early' = IF phase = "prepare" THEN states' ELSE early
  /\ skipped' = IF phase = "active" /\ Due /\ ~h THEN skipped + 1 ELSE skipped
  /\ step' = "drain"
  /\ Tick

\* No target yet: the next slot of the preparation.
PrepareOn ==
  /\ phase = "prepare" /\ target.source = 0
  /\ \E h \in {heard, TRUE} : Publish(h) /\ heard' = h
  /\ slot' = slot + 1
  /\ UNCHANGED <<phase, target, stop, actorVars, toController>>

\* Mutant: the first target is reset with the records.
PreparedAnew ==
  /\ phase = "prepare" /\ target.source > 0
  /\ Publish(heard)
  /\ phase' = "active" /\ slot' = -GapTicks /\ heard' = FALSE
  /\ target' = NoTarget
  /\ UNCHANGED <<stop, actorVars, toController>>

\* The first target is there: reset the records, write the enable frames.
Prepared ==
  /\ phase = "prepare" /\ target.source > 0
  /\ Publish(heard)
  /\ phase' = "active" /\ slot' = -GapTicks /\ heard' = FALSE
  /\ UNCHANGED <<target, stop, actorVars, toController>>

Gap ==
  /\ phase = "active" /\ slot < 0
  /\ slot' = slot + 1
  /\ Tick
  /\ UNCHANGED <<phase, step, heard, states, target, stop, actorVars, toActor,
                 toController, early, skipped>>

SlotEnds ==
  /\ phase = "active"
  /\ \E h \in {heard, TRUE} : Publish(h) /\ heard' = h
  /\ slot' = slot + 1
  /\ UNCHANGED <<phase, target, stop, actorVars, toController>>

\* The actor went while this slot commanded its target: EPIPE.
PublishFails ==
  /\ step = "publish" /\ Due /\ ActorGone
  /\ Throw("gone")
  /\ UNCHANGED toController

LoopEnds ==
  /\ Draining /\ slot = Slots
  /\ phase' = "shutdown" /\ slot' = 0
  /\ stop' = IF phase = "prepare" THEN "not_ready" ELSE stop
  /\ UNCHANGED <<now, step, heard, states, target, actorVars, toActor, toController,
                 history>>

\* Any other exception, a signal, or a drive that is not verified.
ControllerFails ==
  /\ phase # "closed" /\ stop = "none"
  /\ IF phase = "shutdown"
     THEN /\ stop' = "other"
          /\ UNCHANGED <<now, phase, slot, step, heard, states, target, toActor,
                         actorVars, history>>
     ELSE Throw("other")
  /\ UNCHANGED toController

ShutdownOn ==
  /\ phase = "shutdown" /\ slot < ShutdownTicks + MaxReport
  /\ slot' = slot + 1
  /\ Tick
  /\ UNCHANGED <<phase, step, heard, states, target, stop, actorVars, toActor,
                 toController, early, skipped>>

\* Mutant: the controller waits for the actor's end.
CloseBehindActor ==
  /\ phase = "shutdown" /\ ActorOver
  /\ stop = "none" => slot >= ShutdownTicks
  /\ phase' = "closed"
  /\ UNCHANGED <<now, slot, step, heard, states, target, stop, actorVars, toActor,
                 toController, history>>

\* close_ipc after the report; after a failure it may come at any time.
Close ==
  /\ phase = "shutdown"
  /\ stop = "none" => slot >= ShutdownTicks
  /\ phase' = "closed"
  /\ UNCHANGED <<now, slot, step, heard, states, target, stop, actorVars, toActor,
                 toController, history>>

--------------------------------------------------------------------------------
(* The actor.                                                              *)

\* An exception: close the channel first, then save the evidence.
Fault(cause) ==
  /\ actor' = "fault" /\ why' = cause /\ since' = now
  /\ UNCHANGED <<current, stamp, answered, now, controller, toActor,
                 toController, history>>

\* Mutant: older states are skipped.
ReceiveNewest ==
  /\ actor = "receive" /\ toActor # <<>> /\ ~Reset
  /\ now - toActor[Len(toActor)].stamp <= MaxAge
  /\ actor' = "compute" /\ current' = toActor[Len(toActor)] /\ toActor' = <<>>
  /\ UNCHANGED <<stamp, answered, since, why, now, controller, toController, history>>

Receive ==
  /\ actor = "receive" /\ toActor # <<>> /\ ~Reset
  /\ now - Head(toActor).stamp <= MaxAge
  /\ actor' = "compute" /\ current' = Head(toActor) /\ toActor' = Tail(toActor)
  /\ UNCHANGED <<stamp, answered, since, why, now, controller, toController, history>>

ReceiveFails ==
  /\ actor = "receive"
  /\ IF toActor # <<>> /\ ~Reset
     THEN /\ now - Head(toActor).stamp > MaxAge
          /\ Fault("stale")
     ELSE \/ ControllerGone /\ Fault("gone")
          \/ /\ ~ControllerGone
             /\ now - since >= IF current = NoState THEN FirstWait ELSE NextWait
             /\ Fault("timeout")

\* Inference is over, and the state still fresh when the target is stamped.
Compute ==
  /\ actor = "compute" /\ now - current.stamp <= MaxAge
  /\ actor' = "send" /\ stamp' = now
  /\ UNCHANGED <<current, answered, since, why, now, controller, toActor,
                 toController, history>>

ComputeFails ==
  /\ actor = "compute" /\ now - current.stamp > MaxAge
  /\ Fault("stale")

Send ==
  /\ actor = "send" /\ ~ControllerGone
  /\ toController' =
       Append(toController, [source |-> current.sequence, sourced |-> current.stamp,
                             stamp |-> stamp])
  /\ answered' = answered + 1
  /\ actor' = IF answered' = Count THEN "await" ELSE "receive"
  /\ since' = now
  /\ UNCHANGED <<current, stamp, why, now, controller, toActor, history>>

SendFails ==
  /\ actor = "send" /\ ControllerGone
  /\ Fault("gone")

\* await_controller_close(1000, true): closed, or reset with a target unread.
AwaitClosed ==
  /\ actor = "await" /\ ControllerGone /\ (toActor = <<>> \/ Reset)
  /\ actor' = "ok"
  /\ UNCHANGED <<current, stamp, answered, since, why, now, controller, toActor,
                 toController, history>>

\* Mutant: a reset is an error, also when the schedule is complete.
AwaitFailsOnReset ==
  /\ actor = "await"
  /\ Reset \/ toActor # <<>>
  /\ Fault("gone")

\* Another state came, or nothing at all.
AwaitFails ==
  /\ actor = "await" /\ ~Reset
  /\ \/ toActor # <<>> /\ Fault("extra")
     \/ /\ toActor = <<>> /\ ~ControllerGone /\ now - since >= CloseWait
        /\ Fault("close_timeout")

\* IMU, inference, a full socket, or the process dies.
ActorFails ==
  /\ actor \notin {"ok", "fault"}
  /\ Fault("other")

--------------------------------------------------------------------------------
Controller ==
  \/ DrainRefuses \/ DrainDisconnected \/ SlotBegins \/ Watchdog
  \/ PrepareOn \/ Prepared \/ Gap \/ SlotEnds \/ PublishFails \/ LoopEnds
  \/ ShutdownOn \/ Close

Actor ==
  \/ Receive \/ ReceiveFails \/ Compute \/ ComputeFails \/ Send \/ SendFails
  \/ AwaitClosed \/ AwaitFails

Next == Controller \/ Actor \/ ControllerFails \/ ActorFails

Spec == Init /\ [][Next]_vars

\* The kernel keeps scheduling the controller, which never blocks.
FairSpec == Spec /\ WF_vars(Controller)

--------------------------------------------------------------------------------
(* Properties.                                                             *)

State == [sequence : Nat, stamp : Nat]
Target == [source : Nat, sourced : Nat, stamp : Nat]

\* Every variable has its type.
TypeOK ==
  /\ now \in Nat
  /\ phase \in {"prepare", "active", "shutdown", "closed"}
  /\ slot \in Int /\ step \in {"drain", "publish"}
  /\ {heard, late} \subseteq BOOLEAN
  /\ {states, answered, early, skipped, stamp, since} \subseteq Nat
  /\ answered <= Count
  /\ stop \in {"none", "lag", "stale", "gone", "watchdog", "not_ready", "other"}
  /\ why \in {"none", "gone", "stale", "timeout", "extra", "close_timeout", "other"}
  /\ actor \in {"receive", "compute", "send", "await", "ok", "fault"}
  /\ current \in State /\ target \in Target
  /\ toActor \in Seq(State) /\ toController \in Seq(Target)

(***************************************************************************)
(* Each state is answered once and in order: the newest target, the        *)
(* targets and states under way and the state in work are consecutive, up  *)
(* to the last one published.  So neither side ever sees a sequence that   *)
(* does not increase, or a target for a state that was never published.    *)
(***************************************************************************)
EachStateOnce ==
  LET line == [i \in DOMAIN toController |-> toController[i].source]
                \o [i \in DOMAIN Unanswered |-> Unanswered[i].sequence]
  IN  /\ phase # "shutdown" /\ phase # "closed" /\ ~ActorOver =>
           Len(line) = states - target.source
      /\ \A i \in DOMAIN line : ~ActorOver => line[i] = states - Len(line) + i

(***************************************************************************)
(* When an active slot writes its commands, the measurement behind them    *)
(* is at most the two limits old: the actor's on the state it answers, and *)
(* the controller's on the target.                                         *)
(***************************************************************************)
CommandsFromRecentStates ==
  phase = "active" /\ step = "publish" =>
    now - target.sourced <= MaxAge + TargetTimeout

(***************************************************************************)
(* The controller drains in every slot but those of the start gap, behind  *)
(* all targets it finds the end of the stream, and only the last slot has  *)
(* no drain after it.  So a run outlives its actor by the slot in which    *)
(* the actor went, or by the gap it went in, however many targets the      *)
(* actor left; and a controller that passes had its actor until the last   *)
(* slot began.                                                             *)
(***************************************************************************)
Running == phase \in {"prepare", "active"}
Closing == phase \in {"shutdown", "closed"}
GoneActorStopsRun ==
  ActorGone =>
    /\ Running =>
         now - since <= 1 + (IF phase = "active" /\ slot <= 0 THEN GapTicks ELSE 0)
    /\ Closing /\ stop = "none" => now - since <= slot + 1

\* From the stamp of the first target to its slot, over the gap to the first
\* active state that is published, and to the answer to it.
LongestGap == Prompt + GapTicks + (1 + skipped) * Period + Prompt

\* The limits of the code leave room for an actor that answers in Prompt ticks.
RoomForPrompt ==
  /\ LongestGap <= TargetTimeout /\ LongestGap <= NextWait
  /\ Prompt \in 1..MaxAge /\ Prompt < (1 + MaxLag) * Period

(***************************************************************************)
(* The watchdogs of both sides, the lag and the ages never cut off an      *)
(* actor that keeps up.  At the start the first target ages from before    *)
(* the enable frames on, and active states are left out until every motor  *)
(* was heard of: the limits of the code leave room for two of them.  Only  *)
(* an actor that is owed states when the loop ends may wait in vain.       *)
(***************************************************************************)
PromptActorNeverCutOff ==
  ~late /\ RoomForPrompt =>
    /\ stop \notin {"lag", "stale", "watchdog"}
    /\ why # "stale"
    /\ phase \in {"prepare", "active"} /\ states > 0 => why # "timeout"

\* Both sides are done, the controller passed and reported in time.
PassedInTime ==
  /\ phase = "closed" /\ stop = "none" /\ slot < CloseWait
  /\ ActorOver /\ ~late /\ why # "other"

(***************************************************************************)
(* The actor believes in a complete run only after the close and after as  *)
(* many states as the schedule has.  When the controller passed, an actor  *)
(* that kept up says so too, if and (but for a reset) only if exactly      *)
(* those were published.                                                   *)
(***************************************************************************)
CompletionByCount ==
  /\ actor = "ok" => phase = "closed" /\ states >= Count
  /\ PassedInTime /\ states = Count => actor = "ok"
  /\ PassedInTime /\ actor = "ok" /\ ~Reset => states = Count

\* The controller always closes, and then an actor that runs ends.
Termination ==
  /\ <>(phase = "closed")
  /\ WF_vars(Actor) => <>ActorOver

--------------------------------------------------------------------------------
(* Why the channel keeps its order and its ages.                           *)

\* The state in work is not in toActor.
Busy == IF actor \in {"compute", "send"} THEN 1 ELSE 0

\* The k-th target answers state k, and the controller has not lost one while
\* it still takes targets.
TargetsInOrder ==
  /\ \A i \in DOMAIN toController :
       toController[i].source = answered - Len(toController) + i
  /\ phase \in {"prepare", "active"} =>
       target.source = answered - Len(toController)

\* Behind them come the state in work and the states under way, without a gap.
StatesInOrder ==
  ~ActorOver =>
    /\ Len(toActor) = states - answered - Busy
    /\ Busy = 1 => current.sequence = answered + 1
    /\ \A i \in DOMAIN toActor : toActor[i].sequence = answered + Busy + i

\* The two steps of a slot.
StepsInOrder ==
  /\ step = "publish" => phase \in {"prepare", "active"}
  /\ phase = "active" /\ step = "publish" => slot >= 0

\* A target is stamped while its state is fresh, and commanded while it is.
AgesInOrder ==
  /\ \A i \in DOMAIN toController :
       toController[i].stamp - toController[i].sourced <= MaxAge
  /\ target.stamp - target.sourced <= MaxAge
  /\ actor = "send" => stamp - current.stamp <= MaxAge
  /\ phase = "active" /\ step = "publish" => now - target.stamp <= TargetTimeout

\* Only the last answer ends the wait for states, and only the close the wait
\* for the close.
EndInOrder ==
  /\ actor \in {"receive", "compute", "send"} => answered < Count
  /\ actor \in {"await", "ok"} => answered = Count
  /\ actor = "ok" =>
       /\ phase = "closed" /\ states >= Count
       /\ Reset \/ states = Count

ChannelInv ==
  TypeOK /\ TargetsInOrder /\ StatesInOrder /\ StepsInOrder /\ AgesInOrder /\ EndInOrder

(***************************************************************************)
(* The part of CompletionByCount that needs no time: an actor believes in  *)
(* a complete run only behind the close, of a controller that published as *)
(* many states as the schedule has, and no more unless the close reset the *)
(* channel.                                                                *)
(***************************************************************************)
BelievedRunsAreComplete ==
  actor = "ok" =>
    /\ phase = "closed" /\ states >= Count
    /\ ~Reset => states = Count

\* How old what is left for the next drain can be.
Waits ==
  IF step = "publish" THEN 0
  ELSE IF phase = "active" /\ slot <= 0 THEN 1 + GapTicks + slot ELSE 1

\* How long an actor is gone before the next drain, or since the last slot.
GoneInTime ==
  /\ Closing => slot >= 0
  /\ ActorGone =>
       /\ Running => now - since <= Waits
       /\ Closing /\ stop = "none" => now - since <= slot + 1

--------------------------------------------------------------------------------
(* Why a prompt actor is never cut off.                                    *)

Fits == ~late /\ RoomForPrompt

\* When the last state was published, and the newest target computed.
Last == IF toActor # <<>> THEN toActor[Len(toActor)].stamp ELSE current.stamp
Newest ==
  IF toController # <<>> THEN toController[Len(toController)].stamp
  ELSE target.stamp

\* Slots up to the next one that publishes, and the longest time from one state,
\* or the answer to it, to the next state.
ToDue == IF slot < 0 THEN Period - 1 - slot ELSE Period - 1 - (slot % Period)
Reach == Prompt + GapTicks + (1 + skipped) * Period

\* The slots, and what is known in them.
SlotsInOrder ==
  /\ phase = "prepare" => slot >= 0 /\ skipped = 0
  /\ phase = "prepare" /\ step = "drain" => target.source = 0
  /\ phase = "active" => slot >= -GapTicks /\ target.source >= 1
  /\ why # "none" => actor = "fault"
  /\ answered >= 1 => current.sequence >= 1

\* Each thing is stamped after what it rests on.
StampsInOrder ==
  /\ \A i \in DOMAIN toActor : toActor[i].stamp < now
  /\ Busy = 1 => current.stamp < now
  /\ actor = "send" => current.stamp < stamp /\ stamp <= now
  /\ \A i \in DOMAIN toController :
       /\ toController[i].sourced < toController[i].stamp
       /\ toController[i].stamp <= now
  /\ target.source >= 1 => target.sourced < target.stamp /\ target.stamp <= now
  /\ states >= 1 => Last < now
  /\ Busy = 1 => \A i \in DOMAIN toActor : current.stamp <= toActor[i].stamp
  /\ \A i, j \in DOMAIN toActor : i <= j => toActor[i].stamp <= toActor[j].stamp

\* States are published at least Period apart.
SinceDue == IF slot < 0 THEN 1 ELSE (slot % Period) + 1
Apart(sequence, sent) == Last - sent >= (states - sequence) * Period
Spaced ==
  /\ Running /\ states >= 1 => now - Last >= SinceDue
  /\ \A i \in DOMAIN toActor : Apart(toActor[i].sequence, toActor[i].stamp)
  /\ Busy = 1 => Apart(current.sequence, current.stamp)
  /\ \A i \in DOMAIN toController :
       Apart(toController[i].source, toController[i].sourced)

\* No state waits longer than Prompt for its answer.
AnsweredInTime ==
  ~ActorOver =>
    /\ \A i \in DOMAIN toActor : now - toActor[i].stamp <= Prompt
    /\ Busy = 1 => now - current.stamp <= Prompt

\* No target waits longer than the gap for the controller.
TakenInTime ==
  Running =>
    /\ \A i \in DOMAIN toController :
         /\ now - toController[i].sourced <= Prompt + Waits
         /\ Last - toController[i].sourced <= Prompt
    /\ phase = "prepare" /\ target.source >= 1 => now - target.stamp <= Prompt

\* No two states the actor has before it are further apart than Reach.
NeighboursInReach ==
  /\ Busy = 1 /\ toActor # <<>> => toActor[1].stamp - current.stamp <= Reach
  /\ \A i \in DOMAIN toActor :
       i > 1 => toActor[i].stamp - toActor[i - 1].stamp <= Reach

\* Nor is the first of them further from the newest answer.
AnswerInReach ==
  answered >= 1 =>
    /\ Newest <= since
    /\ states = answered => Last < Newest
    /\ Busy = 1 => current.stamp - Newest <= Reach
    /\ Busy = 0 /\ toActor # <<>> => toActor[1].stamp - Newest <= Reach

\* Once a state was published the preparation publishes in every period.
PreparationInReach ==
  phase = "prepare" /\ states >= 1 => heard /\ now - Last <= (slot % Period) + 1

\* Nor is the next state further from the last, or from the answer to it.
NextStateInReach ==
  phase = "active" =>
    now + ToDue - (IF states = answered THEN Newest ELSE Last) <= Reach

WithinReach ==
  Running /\ ~ActorOver =>
    NeighboursInReach /\ AnswerInReach /\ PreparationInReach /\ NextStateInReach

NotCutOff ==
  /\ stop \notin {"lag", "stale", "watchdog"}
  /\ why # "stale"
  /\ Running /\ states > 0 => why # "timeout"

InTime == AnsweredInTime /\ TakenInTime /\ WithinReach /\ NotCutOff

--------------------------------------------------------------------------------
(* Why a run ends.                                                         *)

\* Slots of the shutdown, with the report.
Closure == ShutdownTicks + MaxReport

\* Every phase has its slots, and commands in all but the last.
SlotsInBounds ==
  /\ phase = "prepare" => slot \in 0..PrepTicks /\ (step = "publish" => slot < PrepTicks)
  /\ phase = "active" =>
       slot \in -GapTicks..ActiveSlots /\ (step = "publish" => slot < ActiveSlots)
  /\ phase = "shutdown" => slot \in 0..Closure

\* Slots that are left, and steps of the controller: two in a slot of its loops,
\* the close, and the failure.
SlotsLeft ==
  CASE phase = "prepare" -> (PrepTicks - slot) + GapTicks + ActiveSlots + Closure
    [] phase = "active" -> (ActiveSlots - slot) + Closure
    [] phase = "shutdown" -> Closure - slot
    [] phase = "closed" -> 0
ControllerLeft ==
  2 * SlotsLeft + (IF phase = "closed" THEN 0 ELSE 1)
    + (IF Running /\ step = "drain" THEN 1 ELSE 0) + (IF stop = "none" THEN 1 ELSE 0)

\* Steps of the actor: three for each state it has to answer, and the end.
ActorLeft ==
  CASE actor = "receive" -> 3 * (Count - answered) + 1
    [] actor = "compute" -> 3 * (Count - answered)
    [] actor = "send" -> 3 * (Count - answered) - 1
    [] actor = "await" -> 1
    [] ActorOver -> 0

(***************************************************************************)
(* A run takes no longer than its schedule, the shutdown and the report,   *)
(* whatever the actor does.                                                *)
(***************************************************************************)
BoundedTime == now + SlotsLeft <= PrepTicks + GapTicks + ActiveSlots + Closure

(***************************************************************************)
(* No step of either side can be taken for ever: each takes one from what  *)
(* is left to do on its side, and adds nothing on the other.               *)
(***************************************************************************)
StepsRunOut ==
  [][/\ ControllerLeft \in Nat /\ ActorLeft \in Nat
     /\ ControllerLeft' <= ControllerLeft /\ ActorLeft' <= ActorLeft
     /\ Controller \/ ControllerFails => ControllerLeft' < ControllerLeft
     /\ Actor \/ ActorFails => ActorLeft' < ActorLeft]_vars

--------------------------------------------------------------------------------
(* Why a prompt actor's end shows in the number of states.                 *)

\* The preparation is too short for all the states, and an actor that keeps up
\* answers the last one before the shutdown is over.
RoomForCount ==
  /\ PrepTicks < Period * Count
  /\ Prompt \in 1..MaxAge /\ Prompt <= ShutdownTicks

\* The schedule publishes in the last slot of each period, the last active slot
\* among them, unless no motor was heard of since the preparation.
StatesOfSchedule ==
  /\ phase = "prepare" => states * Period + (slot % Period) <= slot
  /\ phase = "active" =>
       /\ ~heard => states < Count
       /\ heard /\ slot = ActiveSlots => now - Last <= 1

\* Behind the loops nothing is published, so what the actor has before it ages,
\* and the last answer is no older than the shutdown.
ShutdownAges ==
  /\ Closing =>
       /\ slot >= 0
       /\ \A i \in DOMAIN toActor : now - toActor[i].stamp > slot
       /\ Busy = 1 => now - current.stamp > slot
       /\ actor = "await" /\ stop = "none" /\ states = Count => now - since <= slot
  /\ phase = "closed" /\ stop = "none" => slot >= ShutdownTicks
  /\ actor = "await" => current.stamp < since

\* What the failure of an actor says of the states and of the time.
FaultsByCount ==
  /\ actor = "fault" => why # "none"
  /\ ~late => why # "stale"
  /\ why = "timeout" => states < Count
  /\ why = "extra" => states > Count
  /\ why = "gone" /\ stop = "none" /\ ~late => states < Count
  /\ why = "close_timeout" /\ stop = "none" /\ states = Count =>
       \/ phase = "active" /\ slot # ActiveSlots
       \/ Closing /\ slot >= CloseWait

CountInv ==
  SlotsInBounds /\ StatesOfSchedule /\ ShutdownAges /\ FaultsByCount /\ (~late => AnsweredInTime)

==============================================================================
