---------------------------- MODULE BenchProofs ----------------------------
(***************************************************************************)
(* What the tools around the controller promise, for every value of the    *)
(* constants: the bound on the bus load of the probes, the registers and   *)
(* zeros of the commissioning tools, the latch of the safety supervisor,   *)
(* and the poses and impedances that the maps of the hardware contract     *)
(* carry to the drives.  Each part has an invariant of its own: the tools  *)
(* share no state, and Bench runs one of them at a time.                   *)
(***************************************************************************)
EXTENDS Bench, TLAPS

------------------------------------------------------------------------------
(* The probes.                                                              *)

\* The locals of a loop are a record, whatever their values.
LoopIsRecord ==
  loop = [pc |-> loop.pc, next |-> loop.next, index |-> loop.index, woke |-> loop.woke,
          sends |-> loop.sends, drained |-> loop.drained, tx |-> loop.tx,
          rx |-> loop.rx, last |-> loop.last, imu |-> loop.imu, errors |-> loop.errors]

LoopTypes ==
  /\ LoopIsRecord
  /\ clock \in Nat /\ burst \in Nat
  /\ loop.next \in Int /\ loop.sends \in Nat /\ loop.sends <= MaxSends

\* A poll is due only if none went out in this tick but those of this
\* wake-up.  Other tools only listen, to at most one answer in a tick.
PollsOfThisWakeUp ==
  /\ loop.pc = "send" => Polling
  /\ loop.pc \notin {"send", "report"} => loop.sends = 0
  /\ (Polling /\ loop.pc # "report" /\ loop.next <= clock) => burst <= loop.sends

BacklogInv == LoopTypes /\ PollsOfThisWakeUp /\ NoBacklog

LEMMA MaxSendsIsPositive == MaxSends \in Nat \ {0}
BY ProbeAssumption DEF MaxSends

\* A poll is one more of this wake-up, and the wake-up has its limit.
LEMMA PollKeepsBound ==
  ASSUME BacklogInv, Poll
  PROVE  BacklogInv'
<1> USE DEF BacklogInv, LoopTypes, PollsOfThisWakeUp, NoBacklog
<1>1. /\ loop.pc = "send" /\ loop.next <= clock /\ loop.sends < MaxSends
      /\ burst' = burst + 1 /\ clock' = clock /\ tool' = tool
  BY DEF Poll, Due, At
<1>2. LoopIsRecord' /\ loop'.pc = "send" /\ loop'.next = loop.next + 1 /\ loop'.sends = loop.sends + 1
  BY <1>1 DEF Poll, LoopIsRecord
<1>3. MaxSends' = MaxSends /\ (Polling' <=> Polling)
  BY <1>1 DEF MaxSends, Polling, FullBody
<1> QED BY <1>1, <1>2, <1>3, MaxSendsIsPositive

\* After the polls of a wake-up the next one is due in a later tick.
LEMMA SendsDoneKeepsBound ==
  ASSUME BacklogInv, SendsDone
  PROVE  BacklogInv'
<1> USE DEF BacklogInv, LoopTypes, PollsOfThisWakeUp, NoBacklog
<1>1. /\ UNCHANGED <<tool, clock, burst>>
      /\ loop' = [loop EXCEPT !.next = Backlog, !.sends = 0, !.pc = "select"]
      /\ ~Due
  BY DEF SendsDone
<1>2. LoopIsRecord' /\ loop'.pc = "select" /\ loop'.next = Backlog /\ loop'.sends = 0
  BY <1>1 DEF LoopIsRecord
<1>3. Backlog \in Int /\ Backlog > clock
  BY <1>1, MaxSendsIsPositive DEF Backlog, Due
<1>4. MaxSends' = MaxSends /\ (Polling' <=> Polling)
  BY <1>1 DEF MaxSends, Polling, FullBody
<1>5. loop'.next > clock'
  BY <1>1, <1>2, <1>3
<1> QED BY <1>1, <1>2, <1>3, <1>4, <1>5, MaxSendsIsPositive

\* Time passes only in select, where nothing of the wake-up is left to send.
LEMMA TickKeepsBound ==
  ASSUME BacklogInv, Tick
  PROVE  BacklogInv'
<1> USE DEF BacklogInv, LoopTypes, PollsOfThisWakeUp, NoBacklog
<1>1. /\ loop.pc = "select" /\ UNCHANGED <<tool, loop>>
      /\ clock' = clock + 1 /\ burst' = 0
  BY DEF Tick, At
<1>2. MaxSends' = MaxSends /\ LoopIsRecord'
  BY <1>1 DEF MaxSends, FullBody, LoopIsRecord
<1> QED BY <1>1, <1>2, MaxSendsIsPositive

\* One answer in a tick, to another controller.
LEMMA TrafficKeepsBound ==
  ASSUME BacklogInv, Traffic
  PROVE  BacklogInv'
<1> USE DEF BacklogInv, LoopTypes, PollsOfThisWakeUp, NoBacklog
<1>1. ~Polling /\ burst' = 1 /\ UNCHANGED <<tool, loop, clock>>
  BY DEF Traffic
<1>2. MaxSends' = MaxSends /\ LoopIsRecord' /\ ~Polling'
  BY <1>1 DEF MaxSends, FullBody, LoopIsRecord, Polling
<1> QED BY <1>1, <1>2, MaxSendsIsPositive

\* A step from one part of the turn to another that polls nothing.
Turns ==
  /\ UNCHANGED <<tool, clock, burst>>
  /\ LoopIsRecord'
  /\ UNCHANGED <<loop.next, loop.sends>>
  /\ loop'.pc = "report" \/ (loop.pc # "report" /\ (loop.pc = "send" <=> loop'.pc = "send"))

LEMMA TurnKeepsBound ==
  ASSUME BacklogInv, Turns
  PROVE  BacklogInv'
BY MaxSendsIsPositive
   DEF BacklogInv, LoopTypes, PollsOfThisWakeUp, NoBacklog, Turns, MaxSends, Polling, FullBody

\* A new wake-up has sent nothing yet.
LEMMA WakeKeepsBound ==
  ASSUME BacklogInv, Wakes
  PROVE  BacklogInv'
<1> USE DEF BacklogInv, LoopTypes, PollsOfThisWakeUp, NoBacklog
<1>1. /\ loop.pc = "loop" /\ UNCHANGED <<tool, clock, burst>>
      /\ loop' = [loop EXCEPT !.pc = IF Polling THEN "send" ELSE "select", !.woke = clock]
  BY DEF Wakes, At
<1>2. LoopIsRecord' /\ loop'.next = loop.next /\ loop'.sends = loop.sends
  BY <1>1 DEF LoopIsRecord
<1>3. MaxSends' = MaxSends /\ (Polling' <=> Polling)
  BY <1>1 DEF MaxSends, Polling, FullBody
<1> QED BY <1>1, <1>2, <1>3, MaxSendsIsPositive

\* The actions that only turn.
LEMMA OthersTurn ==
  ASSUME BacklogInv,
         \/ Start \/ LoopEnds \/ PollRefused \/ SelectReturns \/ ImuPacket \/ Read \/ Check \/ Report
         \/ OddFrame \/ DriveTrips
  PROVE  Turns
<1> USE DEF BacklogInv, LoopTypes, LoopIsRecord, Turns, At
<1>1. CASE Start
  BY <1>1 DEF Start, Begin, DamiaoRxAudit, DamiaoZeroGainProbe, DamiaoZeroGainGroupProbe,
              FullBodyShadowProbe, LivePolicyShadowProbe, CaptureActiveCanTrace
<1>2. CASE LoopEnds
  BY <1>2 DEF LoopEnds
<1>3. CASE PollRefused
  BY <1>3 DEF PollRefused
<1>4. CASE SelectReturns
  BY <1>4 DEF SelectReturns
<1>5. CASE ImuPacket
  BY <1>5 DEF ImuPacket
<1>6. CASE Read
  BY <1>6 DEF Read, ReadOn
<1>7. CASE Check
  BY <1>7 DEF Check
<1>8. CASE Report
  BY <1>8 DEF Report
<1>9. CASE OddFrame \/ DriveTrips
  BY <1>9 DEF OddFrame, DriveTrips
<1> QED BY <1>1, <1>2, <1>3, <1>4, <1>5, <1>6, <1>7, <1>8, <1>9

LEMMA ProbeStepKeepsBound ==
  ASSUME BacklogInv, ProbeNext
  PROVE  BacklogInv'
BY OthersTurn, TurnKeepsBound, WakeKeepsBound, PollKeepsBound, SendsDoneKeepsBound,
   TickKeepsBound, TrafficKeepsBound
   DEF ProbeNext, ProbeStep

\* However late the process comes back to its loop, at most one wake-up of
\* polls goes out in a tick: the backlog is not replayed onto the bus
\* (full_body_probe.py; the single and the group probe poll once in a turn).
THEOREM BacklogNeverReplayed == Spec => []NoBacklog
<1>1. Init => BacklogInv
  <2>1. Locals.pc = "start" /\ Locals.next = 0 /\ Locals.sends = 0
    BY DEF Locals
  <2>2. ASSUME loop = Locals, clock = 0, burst = 0
        PROVE  BacklogInv
    <3>1. LoopIsRecord
      BY <2>2 DEF LoopIsRecord, Locals
    <3> QED BY <2>1, <2>2, <3>1, MaxSendsIsPositive
            DEF BacklogInv, LoopTypes, PollsOfThisWakeUp, NoBacklog
  <2> QED BY <2>2 DEF Init, ProbeInit, NoProbe
<1>2. ASSUME BacklogInv, [Next]_benchVars
      PROVE  BacklogInv'
  <2>1. CASE ProbeNext
    BY <1>2, <2>1, ProbeStepKeepsBound
  <2>2. CASE UNCHANGED probeVars
    BY <1>2, <2>2
       DEF probeVars, BacklogInv, LoopTypes, LoopIsRecord, PollsOfThisWakeUp, NoBacklog,
           MaxSends, Polling, FullBody
  <2> QED BY <1>2, <2>1, <2>2 DEF Next, benchVars
<1>3. BacklogInv => NoBacklog
  BY DEF BacklogInv
<1> QED BY <1>1, <1>2, <1>3, PTL DEF Spec

------------------------------------------------------------------------------
(* A passed probe is recent.                                                *)

FrameSet ==
  [kind : {"feedback"} \union OddKinds, motor : Nat,
   status : {"disabled", "enabled", "fault", "silent"}]

\* The part of a probe that frames and times go through.
ProbeTypes ==
  /\ LoopIsRecord
  /\ loop.pc \in {"start", "loop", "send", "select", "read", "check", "report"}
  /\ clock \in Nat /\ loop.woke \in Nat /\ loop.drained \in Nat
  /\ loop.index \in Motors /\ loop.last \in [Motors -> Nat] /\ loop.errors \in BOOLEAN
  /\ queue \in Seq(FrameSet) /\ Len(queue) <= MaxQueue
  /\ drive \in [Motors -> {"disabled", "enabled", "fault", "silent"}]
  /\ since \in [Motors -> Nat]

InTurn == loop.pc \in {"send", "select", "read", "check"}

\* A turn is short, starts with nothing read, and without an error ends with
\* an empty queue or after as many frames as it may read.  Between turns every
\* selected motor was heard of.
TurnsAreShort ==
  /\ \A m \in Motors : loop.last[m] <= clock
  /\ InTurn => loop.woke <= clock /\ clock <= loop.woke + MaxWake
  /\ loop.pc = "start" => queue = <<>>
  /\ loop.pc \notin {"read", "check", "report"} => loop.drained = 0
  /\ loop.pc = "check" => queue = <<>> \/ loop.drained >= FramesPerTurn
  /\ loop.pc \in {"start", "loop", "report"} =>
       \A m \in Selected : clock - loop.last[m] <= Timeout

\* A frame that makes the probe believe in motor m.
SpeaksFor(answer, m) ==
  answer.kind = "feedback" /\ answer.motor = m /\ answer.status \in GoodStatus

\* This turn, or the end of the one before.
TurnStart == IF InTurn THEN loop.woke ELSE clock

\* The frame in place i is read in the k-th turn from now, and that is soon.
ReadBefore(i, limit, turns) ==
  \E k \in 1..turns :
    i + loop.drained <= FramesPerTurn * k /\ TurnStart + k * MaxWake <= limit

\* What an unfit drive sent before it became unfit is read in time.
OldFramesRunOut ==
  \A m \in Selected, turns \in EnoughTurns :
    drive[m] \notin GoodStatus =>
      /\ loop.last[m] <= since[m] + turns * MaxWake
      /\ loop.pc # "report" =>
           \A i \in 1..Len(queue) :
             SpeaksFor(queue[i], m) =>
               ReadBefore(i, since[m] + turns * MaxWake, turns)

PassedFromReport ==
  result = "passed" => loop.pc = "report" /\ (Polling => ~loop.errors)

RecentInv ==
  /\ PassedFromReport
  /\ Polling => ProbeTypes
  /\ Polling /\ ~loop.errors => TurnsAreShort /\ OldFramesRunOut

\* The assumptions, as the provers need them.
LEMMA ProbeConstants ==
  /\ N \in Nat \ {0} /\ MaxDrain \in Nat \ {0}
  /\ Timeout \in Nat /\ MaxWake \in Nat /\ MaxQueue \in Nat
  /\ FramesPerTurn \in Nat \ {0} /\ EnoughTurns \subseteq Nat
  /\ 1 \in Motors /\ Selected \subseteq Motors
<1>1. N \in Nat \ {0} /\ MaxDrain \in Nat \ {0}
  BY ProbeAssumption
<1>2. Timeout \in Nat /\ MaxWake \in Nat /\ MaxQueue \in Nat
  BY ProbeAssumption
<1>3. FramesPerTurn \in Nat \ {0} /\ EnoughTurns \subseteq Nat
  BY <1>1, <1>2 DEF FramesPerTurn, EnoughTurns
<1>4. 1 \in Motors /\ Selected \subseteq Motors
  BY <1>1 DEF Motors, Selected
<1> QED BY <1>1, <1>2, <1>3, <1>4

\* The command is one for the whole run.
LEMMA ToolStays ==
  ASSUME UNCHANGED tool
  PROVE  /\ UNCHANGED <<Polling, FullBody, Selected, GoodStatus, FramesPerTurn, EnoughTurns>>
         /\ \A answer, m : SpeaksFor(answer, m)' <=> SpeaksFor(answer', m')
  BY DEF Polling, FullBody, Selected, GoodStatus, FramesPerTurn, EnoughTurns, SpeaksFor

\* The queue takes a frame at its end.
LEMMA AppendTypes ==
  ASSUME ProbeTypes, NEW answer \in FrameSet, Len(queue) < MaxQueue,
         queue' = Append(queue, answer)
  PROVE  queue' \in Seq(FrameSet) /\ Len(queue') <= MaxQueue
  BY ProbeConstants DEF ProbeTypes

\* A poll brings the status of its drive, or nothing.
LEMMA PollAnswer ==
  ASSUME ProbeTypes, Poll
  PROVE  \/ queue' = queue
         \/ /\ queue' = Append(queue, Frame(loop.index)) /\ Len(queue) < MaxQueue
            /\ Frame(loop.index) \in FrameSet
<1>1. queue' \in Answered(loop.index)
  BY DEF Poll
<1>2. Frame(loop.index) \in FrameSet
  BY ProbeConstants DEF Frame, FrameSet, ProbeTypes, Motors
<1> QED BY <1>1, <1>2 DEF Answered

\* Every step keeps the types.
LEMMA ProbeTypesStep ==
  ASSUME ProbeTypes, Polling, ProbeNext
  PROVE  ProbeTypes'
<1> USE DEF At
<1>r. /\ LoopIsRecord /\ loop.pc \in {"start", "loop", "send", "select", "read", "check", "report"}
      /\ clock \in Nat /\ loop.woke \in Nat /\ loop.drained \in Nat
      /\ loop.index \in Motors /\ loop.last \in [Motors -> Nat] /\ loop.errors \in BOOLEAN
  BY DEF ProbeTypes
<1>q. /\ queue \in Seq(FrameSet) /\ Len(queue) <= MaxQueue
      /\ drive \in [Motors -> {"disabled", "enabled", "fault", "silent"}]
      /\ since \in [Motors -> Nat]
  BY DEF ProbeTypes
<1>1. ASSUME LoopIsRecord',
             loop'.pc \in {"start", "loop", "send", "select", "read", "check", "report"},
             loop'.woke \in Nat, loop'.drained \in Nat, loop'.index \in Motors,
             loop'.last \in [Motors -> Nat], loop'.errors \in BOOLEAN,
             UNCHANGED <<clock, queue, drive, since>>
      PROVE  ProbeTypes'
  BY <1>1, <1>r, <1>q DEF ProbeTypes
<1>2. CASE Start
  BY <1>1, <1>2, <1>r
     DEF Start, Begin, DamiaoRxAudit, DamiaoZeroGainProbe, DamiaoZeroGainGroupProbe,
         FullBodyShadowProbe, LivePolicyShadowProbe, CaptureActiveCanTrace, LoopIsRecord
<1>3. CASE LoopEnds
  BY <1>1, <1>3, <1>r DEF LoopEnds, LoopIsRecord
<1>4. CASE Wakes
  BY <1>1, <1>4, <1>r DEF Wakes, LoopIsRecord
<1>5. CASE Poll
  <2>1. /\ queue' \in Seq(FrameSet) /\ Len(queue') <= MaxQueue
    BY <1>5, <1>q, PollAnswer, AppendTypes
  <2>2. NextIndex \in Motors
    <3>1. (loop.index % N) + 1 \in Motors
      <4>1. loop.index % N \in 0..(N - 1)
        BY <1>r, ProbeConstants DEF Motors
      <4> QED BY <4>1, ProbeConstants DEF Motors
    <3> QED BY <3>1, ProbeConstants DEF NextIndex
  <2>3. /\ LoopIsRecord' /\ loop'.pc = loop.pc /\ loop'.woke = loop.woke
        /\ loop'.drained = loop.drained /\ loop'.index = NextIndex
        /\ loop'.last = loop.last /\ loop'.errors = loop.errors
        /\ UNCHANGED <<clock, drive, since>>
    BY <1>5, <1>r DEF Poll, LoopIsRecord
  <2> QED BY <2>1, <2>2, <2>3, <1>r, <1>q DEF ProbeTypes
<1>6. CASE PollRefused
  BY <1>1, <1>6, <1>r DEF PollRefused, LoopIsRecord
<1>7. CASE SendsDone
  BY <1>1, <1>7, <1>r DEF SendsDone, LoopIsRecord
<1>8. CASE SelectReturns
  BY <1>1, <1>8, <1>r DEF SelectReturns, LoopIsRecord
<1>9. CASE ImuPacket
  BY <1>1, <1>9, <1>r DEF ImuPacket, LoopIsRecord
<1>10. CASE Read
  <2> DEFINE answer == Head(queue)
             last == IF Counts(answer) /\ answer.motor \in Selected /\ Polling
                     THEN [loop.last EXCEPT ![answer.motor] = clock] ELSE loop.last
  <2>1. queue' \in Seq(FrameSet) /\ Len(queue') <= MaxQueue
    BY <1>10, <1>q, ProbeConstants DEF Read
  <2>2. last \in [Motors -> Nat]
    BY <1>r
  <2>3. UNCHANGED <<clock, drive, since>>
    BY <1>10 DEF Read
  <2>4. CASE UNCHANGED loop
    BY <2>1, <2>3, <2>4, <1>r, <1>q DEF ProbeTypes, LoopIsRecord
  <2>5. CASE ~UNCHANGED loop
    <3>1. /\ LoopIsRecord' /\ loop'.pc \in {"read", "check"} /\ loop'.woke = loop.woke
          /\ loop'.drained = loop.drained + 1 /\ loop'.index = loop.index
          /\ loop'.last = last /\ loop'.errors = (loop.errors \/ BadFrame(answer))
      BY <1>10, <1>r, <2>5 DEF Read, LoopIsRecord, ReadOn
    <3> QED BY <2>1, <2>2, <2>3, <3>1, <1>r, <1>q DEF ProbeTypes
  <2> QED BY <2>4, <2>5
<1>11. CASE Check
  <2>1. /\ LoopIsRecord' /\ loop'.pc \in {"report", "loop"} /\ loop'.woke = loop.woke
        /\ loop'.drained = 0 /\ loop'.index = loop.index /\ loop'.last = loop.last
        /\ loop'.errors \in BOOLEAN
        /\ UNCHANGED <<clock, queue, drive, since>>
    BY <1>11, <1>r DEF Check, LoopIsRecord
  <2> QED BY <1>1, <1>r, <2>1
<1>12. CASE Report
  BY <1>1, <1>12, <1>r DEF Report, LoopIsRecord
<1>13. CASE OddFrame
  <2>1. PICK kind \in OddKinds : queue' = Append(queue, Odd(kind))
    BY <1>13 DEF OddFrame
  <2>2. Odd(kind) \in FrameSet
    BY DEF Odd, FrameSet
  <2>3. queue' \in Seq(FrameSet) /\ Len(queue') <= MaxQueue
    BY <1>13, <2>1, <2>2, AppendTypes DEF OddFrame
  <2>4. UNCHANGED <<loop, clock, drive, since>>
    BY <1>13 DEF OddFrame
  <2> QED BY <2>3, <2>4, <1>r, <1>q DEF ProbeTypes, LoopIsRecord
<1>14. CASE DriveTrips
  <2>1. UNCHANGED <<loop, clock, queue>>
    BY <1>14 DEF DriveTrips
  <2>2. /\ drive' \in [Motors -> {"disabled", "enabled", "fault", "silent"}]
        /\ since' \in [Motors -> Nat]
    BY <1>14, <1>r, <1>q DEF DriveTrips
  <2> QED BY <2>1, <2>2, <1>r, <1>q DEF ProbeTypes, LoopIsRecord
<1>15. CASE Traffic
  BY <1>15 DEF Traffic
<1>16. CASE Tick
  BY <1>16, <1>r, <1>q DEF Tick, ProbeTypes, LoopIsRecord
<1> QED
  BY <1>2, <1>3, <1>4, <1>5, <1>6, <1>7, <1>8, <1>9, <1>10, <1>11, <1>12, <1>13, <1>14,
     <1>15, <1>16
     DEF ProbeNext, ProbeStep

\* A step that reads nothing and adds nothing a believed drive sent.
LEMMA OldFramesStay ==
  ASSUME ProbeTypes, OldFramesRunOut,
         UNCHANGED <<tool, drive, since, loop.last, loop.drained, TurnStart>>,
         loop.pc = "report" => loop'.pc = "report",
         NEW answer \in FrameSet,
         queue' = queue \/ queue' = Append(queue, answer),
         queue' # queue =>
           \A m \in Selected : drive[m] \notin GoodStatus => ~SpeaksFor(answer, m)
  PROVE  OldFramesRunOut'
<1>1. /\ UNCHANGED <<Selected, EnoughTurns, GoodStatus, FramesPerTurn>>
      /\ \A f, m : SpeaksFor(f, m)' <=> SpeaksFor(f', m')
  BY ToolStays
<1> SUFFICES ASSUME NEW m \in Selected, NEW turns \in EnoughTurns, drive[m] \notin GoodStatus
             PROVE  /\ loop.last[m] <= since[m] + turns * MaxWake
                    /\ loop'.pc # "report" =>
                         \A i \in 1..Len(queue') :
                           SpeaksFor(queue'[i], m) =>
                             ReadBefore(i, since[m] + turns * MaxWake, turns)
  BY <1>1 DEF OldFramesRunOut, ReadBefore, SpeaksFor
<1>2. loop.last[m] <= since[m] + turns * MaxWake
  BY DEF OldFramesRunOut
<1>3. ASSUME loop'.pc # "report", NEW i \in 1..Len(queue'), SpeaksFor(queue'[i], m)
      PROVE  ReadBefore(i, since[m] + turns * MaxWake, turns)
  <2>1. CASE queue' = queue
    BY <1>3, <2>1 DEF OldFramesRunOut
  <2>2. CASE queue' = Append(queue, answer) /\ queue' # queue
    <3>1. /\ queue \in Seq(FrameSet) /\ Len(queue') = Len(queue) + 1
          /\ queue'[Len(queue) + 1] = answer
          /\ \A j \in 1..Len(queue) : queue'[j] = queue[j]
      BY <2>2 DEF ProbeTypes
    <3>2. i # Len(queue) + 1
      BY <1>3, <2>2, <3>1
    <3>3. i \in 1..Len(queue)
      BY <3>1, <3>2
    <3> QED BY <1>3, <3>1, <3>3 DEF OldFramesRunOut
  <2> QED BY <2>1, <2>2
<1> QED BY <1>2, <1>3

\* From one turn to the next one turn less is left.
LEMMA TurnOver ==
  ASSUME NEW F \in Nat \ {0}, NEW W \in Nat, NEW i \in Nat \ {0}, NEW d \in Nat,
         NEW k \in Nat, NEW from \in Nat, NEW now \in Nat, NEW limit \in Int,
         i + d <= F * k, F <= d, now <= from + W, from + k * W <= limit
  PROVE  k - 1 \in Nat \ {0} /\ i <= F * (k - 1) /\ now + (k - 1) * W <= limit
<1>1. F * (k - 1) = F * k - F /\ (k - 1) * W = k * W - W
  OBVIOUS
<1>2. F * k \in Int /\ k * W \in Int
  OBVIOUS
<1>3. i <= F * (k - 1) /\ now + (k - 1) * W <= limit
  BY <1>1, <1>2
<1>4. CASE k <= 1
  <2>1. k = 0 \/ k = 1
    BY <1>4
  <2>2. F * k <= F
    BY <2>1
  <2> QED BY <2>2
<1> QED BY <1>3, <1>4

\* A turn that may still read has at least its own time left.
LEMMA ThisTurn ==
  ASSUME NEW W \in Nat, NEW k \in Nat \ {0}, NEW from \in Nat, NEW now \in Nat,
         NEW limit \in Int, now <= from + W, from + k * W <= limit
  PROVE  now <= limit
<1>1. W <= k * W /\ k * W \in Int
  OBVIOUS
<1> QED BY <1>1

\* When a drive trips, all the queue can hold is read in enough turns.
LEMMA TripStartsTurns ==
  ASSUME Polling, ProbeTypes, TurnsAreShort, OldFramesRunOut, DriveTrips
  PROVE  OldFramesRunOut'
<1>1. /\ UNCHANGED <<Selected, EnoughTurns, GoodStatus, FramesPerTurn>>
      /\ \A f, m : SpeaksFor(f, m)' <=> SpeaksFor(f', m')
      /\ UNCHANGED <<loop, queue, clock, tool>>
  BY ToolStays DEF DriveTrips
<1>2. PICK n \in Motors, how \in {"fault", "silent"} :
        /\ drive' = [drive EXCEPT ![n] = how]
        /\ since' = [since EXCEPT ![n] = clock]
  BY DEF DriveTrips
<1>3. loop.pc = "select"
  BY DEF DriveTrips, At
<1>t. /\ clock \in Nat /\ loop.woke \in Nat /\ loop.drained = 0
      /\ Len(queue) \in Nat /\ Len(queue) <= MaxQueue
      /\ loop.woke <= clock /\ loop.last[n] <= clock /\ loop.last[n] \in Nat
      /\ since'[n] = clock
  BY <1>2, <1>3 DEF ProbeTypes, TurnsAreShort, InTurn
<1> SUFFICES ASSUME NEW m \in Selected, NEW turns \in EnoughTurns, drive'[m] \notin GoodStatus
             PROVE  /\ loop.last[m] <= since'[m] + turns * MaxWake
                    /\ \A i \in 1..Len(queue) :
                         SpeaksFor(queue[i], m) =>
                           ReadBefore(i, since'[m] + turns * MaxWake, turns)
  BY <1>1 DEF OldFramesRunOut, ReadBefore, SpeaksFor, TurnStart, InTurn
<1>4. CASE m # n
  <2>1. since'[m] = since[m] /\ drive'[m] = drive[m]
    BY <1>2, <1>4, ProbeConstants DEF ProbeTypes
  <2> QED BY <1>3, <2>1 DEF OldFramesRunOut
<1>5. CASE m = n
  <2>1. PICK w \in Nat : w = turns * MaxWake
    BY ProbeConstants
  <2>2. loop.last[m] <= since'[m] + turns * MaxWake
    BY <1>t, <1>5, <2>1
  <2>3. ASSUME NEW i \in 1..Len(queue)
        PROVE  ReadBefore(i, since'[m] + turns * MaxWake, turns)
    <3>1. turns \in 0..MaxQueue /\ turns * FramesPerTurn >= MaxQueue
      BY DEF EnoughTurns
    <3>2. i <= FramesPerTurn * turns
      BY <1>t, <3>1, ProbeConstants
    <3>3. turns \in 1..turns
      <4>1. turns = 0 => FramesPerTurn * turns = 0
        BY ProbeConstants
      <4> QED BY <3>1, <3>2, <4>1, ProbeConstants
    <3>4. TurnStart + turns * MaxWake <= since'[m] + turns * MaxWake
      BY <1>t, <1>3, <1>5, <2>1 DEF TurnStart, InTurn
    <3>5. i + loop.drained <= FramesPerTurn * turns
      BY <1>t, <3>2
    <3> QED BY <3>3, <3>4, <3>5 DEF ReadBefore
  <2> QED BY <2>2, <2>3
<1> QED BY <1>4, <1>5

\* A frame that ends the probe leaves the others one place nearer.
LEMMA RaisedRunsOut ==
  ASSUME ProbeTypes, Polling, TurnsAreShort, OldFramesRunOut, Read, Raises(Head(queue))
  PROVE  TurnsAreShort' /\ OldFramesRunOut'
<1>1. /\ UNCHANGED <<Selected, EnoughTurns, GoodStatus, FramesPerTurn, FullBody, Polling>>
      /\ \A f, m : SpeaksFor(f, m)' <=> SpeaksFor(f', m')
      /\ UNCHANGED <<clock, drive, since, tool>>
  BY ToolStays DEF Read
<1>2. /\ loop.pc = "read" /\ queue # <<>> /\ queue' = Tail(queue) /\ loop' = loop
  BY DEF Read, At
<1>3. /\ queue \in Seq(FrameSet) /\ Len(queue) \in Nat /\ Len(queue') = Len(queue) - 1
      /\ \A i \in 1..Len(queue') : queue'[i] = queue[i + 1] /\ i + 1 \in 1..Len(queue)
      /\ loop.drained \in Nat /\ FramesPerTurn \in Nat
  BY <1>2, ProbeConstants DEF ProbeTypes, FramesPerTurn
<1>4. TurnsAreShort'
  BY <1>1, <1>2 DEF TurnsAreShort, InTurn
<1>5. OldFramesRunOut'
  <2> SUFFICES ASSUME NEW m \in Selected, NEW turns \in EnoughTurns, drive[m] \notin GoodStatus
               PROVE  /\ loop.last[m] <= since[m] + turns * MaxWake
                      /\ \A i \in 1..Len(queue') :
                           SpeaksFor(queue'[i], m) =>
                             \E k \in 1..turns :
                               /\ i + loop.drained <= FramesPerTurn * k
                               /\ loop.woke + k * MaxWake <= since[m] + turns * MaxWake
    BY <1>1, <1>2
       DEF OldFramesRunOut, ReadBefore, SpeaksFor, TurnStart, InTurn
  <2>1. ASSUME NEW i \in 1..Len(queue'), SpeaksFor(queue'[i], m)
        PROVE  \E k \in 1..turns :
                 /\ i + loop.drained <= FramesPerTurn * k
                 /\ loop.woke + k * MaxWake <= since[m] + turns * MaxWake
    <3>1. i + 1 \in 1..Len(queue) /\ SpeaksFor(queue[i + 1], m)
      BY <1>3, <2>1
    <3>2. PICK k \in 1..turns :
            /\ (i + 1) + loop.drained <= FramesPerTurn * k
            /\ loop.woke + k * MaxWake <= since[m] + turns * MaxWake
      BY <1>2, <3>1 DEF OldFramesRunOut, ReadBefore, TurnStart, InTurn
    <3>3. PICK reach \in Int : reach = FramesPerTurn * k
      BY <1>3, ProbeConstants
    <3>4. i + loop.drained <= reach
      BY <1>3, <3>2, <3>3
    <3> QED BY <3>2, <3>3, <3>4
  <2> QED BY <2>1 DEF OldFramesRunOut
<1> QED BY <1>4, <1>5

\* The first frame is read now, and the others are one place nearer.
LEMMA ReadRunsOut ==
  ASSUME ProbeTypes, Polling, TurnsAreShort, OldFramesRunOut, Read, ~Raises(Head(queue)),
         ~loop.errors, ~loop'.errors
  PROVE  TurnsAreShort' /\ OldFramesRunOut'
<1> DEFINE answer == Head(queue)
           mine == answer.motor \in Selected
           read ==
             [loop EXCEPT
                !.drained = @ + 1,
                !.errors = @ \/ BadFrame(answer),
                !.rx = IF Counts(answer) /\ mine THEN [@ EXCEPT ![answer.motor] = @ + 1] ELSE @,
                !.last = IF Counts(answer) /\ mine /\ Polling
                         THEN [@ EXCEPT ![answer.motor] = clock] ELSE @]
<1>1. /\ UNCHANGED <<Selected, EnoughTurns, GoodStatus, FramesPerTurn, FullBody, Polling>>
      /\ \A f, m : SpeaksFor(f, m)' <=> SpeaksFor(f', m')
      /\ UNCHANGED <<clock, drive, since, tool>>
  BY ToolStays DEF Read
<1>2. /\ loop.pc = "read" /\ queue # <<>> /\ queue' = Tail(queue)
      /\ loop' = [read EXCEPT !.pc = ReadOn(answer, read, queue')]
  BY DEF Read, At
<1>t. /\ clock \in Nat /\ loop.woke \in Nat /\ loop.drained \in Nat
      /\ loop.woke <= clock /\ clock <= loop.woke + MaxWake
      /\ queue \in Seq(FrameSet) /\ loop.last \in [Motors -> Nat]
      /\ LoopIsRecord
  BY <1>2 DEF ProbeTypes, TurnsAreShort, InTurn
<1>r. /\ read.drained = loop.drained + 1 /\ read.woke = loop.woke
      /\ read.errors = (loop.errors \/ BadFrame(answer))
      /\ read.last = IF Counts(answer) /\ mine
                     THEN [loop.last EXCEPT ![answer.motor] = clock] ELSE loop.last
      /\ loop'.pc = ReadOn(answer, read, queue')
      /\ loop'.drained = read.drained /\ loop'.woke = read.woke
      /\ loop'.errors = read.errors /\ loop'.last = read.last
  BY <1>2, <1>t DEF LoopIsRecord
<1> HIDE DEF read
<1>3. /\ loop'.drained = loop.drained + 1 /\ loop'.woke = loop.woke
      /\ loop'.errors = (loop.errors \/ BadFrame(answer))
      /\ loop'.last = IF Counts(answer) /\ mine
                      THEN [loop.last EXCEPT ![answer.motor] = clock] ELSE loop.last
      /\ loop'.pc \in {"read", "check"}
      /\ loop'.pc = "check" =>
           queue' = <<>> \/ ~FullBody \/ ~(loop.drained + 1 < MaxDrain) \/ Breaks(answer)
  BY <1>r DEF ReadOn
<1>4. ~BadFrame(answer)
  BY <1>3
<1>5. TurnsAreShort'
  <2>1. \A m \in Motors : loop'.last[m] <= clock
    BY <1>t, <1>3 DEF TurnsAreShort
  <2>2. loop'.pc = "check" => queue' = <<>> \/ loop'.drained >= FramesPerTurn
    <3>1. CASE FullBody
      <4>1. FramesPerTurn = MaxDrain
        BY <3>1 DEF FramesPerTurn
      <4> QED BY <1>3, <1>4, <1>t, <3>1, <4>1, ProbeConstants DEF Breaks
    <3>2. CASE ~FullBody
      <4>1. FramesPerTurn = 1
        BY <3>2 DEF FramesPerTurn
      <4> QED BY <1>3, <1>t, <4>1
    <3> QED BY <3>1, <3>2
  <2> QED BY <1>1, <1>2, <1>3, <1>t, <2>1, <2>2 DEF TurnsAreShort, InTurn
<1>6. OldFramesRunOut'
  <2> SUFFICES ASSUME NEW m \in Selected, NEW turns \in EnoughTurns, drive[m] \notin GoodStatus
               PROVE  /\ loop'.last[m] <= since[m] + turns * MaxWake
                      /\ \A i \in 1..Len(queue') :
                           SpeaksFor(queue'[i], m) =>
                             \E k \in 1..turns :
                               /\ i + (loop.drained + 1) <= FramesPerTurn * k
                               /\ loop.woke + k * MaxWake <= since[m] + turns * MaxWake
    BY <1>1, <1>3
       DEF OldFramesRunOut, ReadBefore, SpeaksFor, TurnStart, InTurn
  <2>1. \A i \in 1..Len(queue) :
          SpeaksFor(queue[i], m) =>
            \E k \in 1..turns :
              /\ i + loop.drained <= FramesPerTurn * k
              /\ loop.woke + k * MaxWake <= since[m] + turns * MaxWake
    BY <1>2 DEF OldFramesRunOut, ReadBefore, TurnStart, InTurn
  <2>2. /\ Len(queue) \in Nat /\ 1 \in 1..Len(queue) /\ answer = queue[1]
        /\ Len(queue') = Len(queue) - 1
        /\ \A i \in 1..Len(queue') : queue'[i] = queue[i + 1] /\ i + 1 \in 1..Len(queue)
    BY <1>2, <1>t
  <2>3. loop'.last[m] <= since[m] + turns * MaxWake
    <3>1. CASE Counts(answer) /\ answer.motor = m
      <4>1. SpeaksFor(answer, m)
        <5>1. answer.kind = "feedback"
          BY <1>4, <3>1 DEF Counts, BadFrame, Polling
        <5>2. answer.status \in GoodStatus
          BY <1>4, <3>1 DEF BadFrame, Polling
        <5> QED BY <3>1, <5>1, <5>2 DEF SpeaksFor
      <4>2. PICK k \in 1..turns : loop.woke + k * MaxWake <= since[m] + turns * MaxWake
        BY <2>1, <2>2, <4>1
      <4>3. PICK limit \in Int : limit = since[m] + turns * MaxWake
        BY ProbeConstants DEF ProbeTypes
      <4>4. k \in Nat \ {0}
        BY ProbeConstants
      <4>5. clock <= limit
        BY <1>t, <4>2, <4>3, <4>4, ThisTurn, ProbeConstants
      <4>6. loop'.last[m] = clock
        BY <1>3, <1>t, <3>1, ProbeConstants
      <4> QED BY <4>3, <4>5, <4>6
    <3>2. CASE ~(Counts(answer) /\ answer.motor = m)
      <4>1. loop'.last[m] = loop.last[m]
        BY <1>3, <1>t, <3>2, ProbeConstants
      <4> QED BY <4>1 DEF OldFramesRunOut
    <3> QED BY <3>1, <3>2
  <2>4. ASSUME NEW i \in 1..Len(queue'), SpeaksFor(queue'[i], m)
        PROVE  \E k \in 1..turns :
                 /\ i + (loop.drained + 1) <= FramesPerTurn * k
                 /\ loop.woke + k * MaxWake <= since[m] + turns * MaxWake
    <3>1. (i + 1) + loop.drained = i + (loop.drained + 1)
      <4>1. PICK d \in Nat : d = loop.drained
        BY <1>t
      <4>2. i \in Nat
        BY <2>2
      <4> QED BY <4>1, <4>2
    <3> QED BY <2>1, <2>2, <2>4, <3>1
  <2> QED BY <2>3, <2>4
<1> QED BY <1>5, <1>6

\* The turn ends: the frames left over have one turn less to wait.
LEMMA CheckRunsOut ==
  ASSUME ProbeTypes, Polling, TurnsAreShort, OldFramesRunOut, Check, ~loop'.errors
  PROVE  TurnsAreShort' /\ OldFramesRunOut'
<1>1. /\ UNCHANGED <<Selected, EnoughTurns, GoodStatus, FramesPerTurn, FullBody, Polling>>
      /\ \A f, m : SpeaksFor(f, m)' <=> SpeaksFor(f', m')
      /\ UNCHANGED <<clock, queue, drive, since, tool>>
  BY ToolStays DEF Check
<1>2. /\ loop.pc = "check" /\ loop'.pc = "loop" /\ loop'.drained = 0
      /\ loop'.last = loop.last /\ loop'.woke = loop.woke /\ ~Silent
  BY DEF Check, At, ProbeTypes, LoopIsRecord
<1>t. /\ clock \in Nat /\ loop.woke \in Nat /\ loop.drained \in Nat
      /\ loop.woke <= clock /\ clock <= loop.woke + MaxWake
      /\ queue \in Seq(FrameSet) /\ loop.last \in [Motors -> Nat]
      /\ since \in [Motors -> Nat]
      /\ queue = <<>> \/ loop.drained >= FramesPerTurn
  BY <1>2 DEF ProbeTypes, TurnsAreShort, InTurn
<1>3. TurnsAreShort'
  <2>1. \A m \in Selected : clock - loop.last[m] <= Timeout
    BY <1>2, <1>t, ProbeConstants DEF Silent
  <2> QED BY <1>1, <1>2, <2>1 DEF TurnsAreShort, InTurn
<1>4. OldFramesRunOut'
  <2> SUFFICES ASSUME NEW m \in Selected, NEW turns \in EnoughTurns, drive[m] \notin GoodStatus
               PROVE  /\ loop.last[m] <= since[m] + turns * MaxWake
                      /\ \A i \in 1..Len(queue) :
                           SpeaksFor(queue[i], m) =>
                             \E k \in 1..turns :
                               /\ i + 0 <= FramesPerTurn * k
                               /\ clock + k * MaxWake <= since[m] + turns * MaxWake
    BY <1>1, <1>2 DEF OldFramesRunOut, ReadBefore, SpeaksFor, TurnStart, InTurn
  <2>1. loop.last[m] <= since[m] + turns * MaxWake
    BY DEF OldFramesRunOut
  <2>2. ASSUME NEW i \in 1..Len(queue), SpeaksFor(queue[i], m)
        PROVE  \E k \in 1..turns :
                 /\ i + 0 <= FramesPerTurn * k
                 /\ clock + k * MaxWake <= since[m] + turns * MaxWake
    <3>1. PICK k \in 1..turns :
            /\ i + loop.drained <= FramesPerTurn * k
            /\ loop.woke + k * MaxWake <= since[m] + turns * MaxWake
      BY <1>2, <2>2 DEF OldFramesRunOut, ReadBefore, TurnStart, InTurn
    <3>2. PICK limit \in Int : limit = since[m] + turns * MaxWake
      BY <1>t, ProbeConstants
    <3>3. Len(queue) \in Nat /\ i \in Nat \ {0} /\ loop.drained >= FramesPerTurn
      BY <1>t
    <3>4. k \in Nat /\ turns \in Nat
      BY ProbeConstants
    <3>5. /\ k - 1 \in Nat \ {0} /\ i <= FramesPerTurn * (k - 1)
          /\ clock + (k - 1) * MaxWake <= limit
      <4>1. PICK F \in Nat \ {0}, W \in Nat, d \in Nat, from \in Nat, now \in Nat :
              /\ F = FramesPerTurn /\ W = MaxWake /\ d = loop.drained
              /\ from = loop.woke /\ now = clock
        BY <1>t, ProbeConstants
      <4>2. i + d <= F * k /\ F <= d /\ now <= from + W /\ from + k * W <= limit
        BY <1>t, <3>1, <3>2, <3>3, <4>1
      <4>3. k - 1 \in Nat \ {0} /\ i <= F * (k - 1) /\ now + (k - 1) * W <= limit
        BY <3>3, <3>4, <4>2, TurnOver
      <4> QED BY <4>1, <4>3
    <3>6. k - 1 \in 1..turns /\ i + 0 = i
      BY <3>3, <3>4, <3>5
    <3> QED BY <3>2, <3>5, <3>6
  <2> QED BY <2>1, <2>2
<1> QED BY <1>3, <1>4

\* Every step of a polling tool that found no error.
LEMMA RecentStep ==
  ASSUME ProbeTypes, ProbeTypes', Polling, ProbeNext, ~loop'.errors,
         ~loop.errors => TurnsAreShort /\ OldFramesRunOut
  PROVE  ~loop.errors /\ TurnsAreShort' /\ OldFramesRunOut'
<1> USE DEF At
<1>u. /\ UNCHANGED <<tool, Selected, EnoughTurns, GoodStatus, FramesPerTurn, Polling, FullBody>>
  <2>1. UNCHANGED tool
    BY DEF ProbeNext, ProbeStep, Start, Begin, DamiaoRxAudit, DamiaoZeroGainProbe,
           DamiaoZeroGainGroupProbe, FullBodyShadowProbe, LivePolicyShadowProbe,
           CaptureActiveCanTrace, LoopEnds, Wakes, Poll, PollRefused, SendsDone,
           SelectReturns, ImuPacket, Read, Check, Report, OddFrame, DriveTrips, Traffic, Tick
  <2> QED BY <2>1, ToolStays
<1>r. /\ LoopIsRecord /\ clock \in Nat /\ loop.woke \in Nat /\ loop.errors \in BOOLEAN
      /\ MaxWake \in Nat
  BY ProbeConstants DEF ProbeTypes
<1>o. PICK answer : answer \in FrameSet /\ answer = Odd("control")
  BY DEF FrameSet, Odd, OddKinds
<1>1. CASE \/ Start \/ LoopEnds \/ Wakes \/ SendsDone \/ SelectReturns \/ ImuPacket \/ Report
  <2>1. /\ UNCHANGED <<clock, queue, drive, since>>
        /\ UNCHANGED <<loop.last, loop.drained, loop.errors>>
    BY <1>1, <1>r
       DEF Start, Begin, DamiaoRxAudit, DamiaoZeroGainProbe, DamiaoZeroGainGroupProbe,
           FullBodyShadowProbe, LivePolicyShadowProbe, CaptureActiveCanTrace, LoopEnds, Wakes,
           SendsDone, SelectReturns, ImuPacket, Report, LoopIsRecord
  <2>2. \/ loop'.pc = loop.pc /\ loop'.woke = loop.woke
        \/ loop.pc = "start" /\ loop'.pc = "loop"
        \/ loop.pc = "loop" /\ loop'.pc = "report"
        \/ loop.pc = "loop" /\ loop'.pc = "send" /\ loop'.woke = clock
        \/ loop.pc = "send" /\ loop'.pc = "select" /\ loop'.woke = loop.woke
        \/ loop.pc = "select" /\ loop'.pc = "read" /\ loop'.woke = loop.woke
        \/ loop.pc = "select" /\ loop'.pc = "check" /\ loop'.woke = loop.woke /\ queue = <<>>
    BY <1>1, <1>r
       DEF Start, Begin, DamiaoRxAudit, DamiaoZeroGainProbe, DamiaoZeroGainGroupProbe,
           FullBodyShadowProbe, LivePolicyShadowProbe, CaptureActiveCanTrace, LoopEnds, Wakes,
           SendsDone, SelectReturns, ImuPacket, Report, LoopIsRecord
  <2>3. ~loop.errors /\ TurnsAreShort /\ OldFramesRunOut
    BY <2>1
  <2>4. TurnsAreShort'
    BY <1>u, <1>r, <2>1, <2>2, <2>3 DEF TurnsAreShort, InTurn
  <2>5. CASE loop'.pc # "report" \/ loop.pc = "report"
    <3>1. UNCHANGED TurnStart
      BY <2>1, <2>2, <2>5 DEF TurnStart, InTurn
    <3> QED BY <1>u, <1>o, <2>1, <2>2, <2>3, <2>4, <2>5, <3>1, OldFramesStay
  <2>6. CASE loop'.pc = "report" /\ loop.pc # "report"
    BY <1>u, <2>1, <2>3, <2>4, <2>6 DEF OldFramesRunOut
  <2> QED BY <2>3, <2>4, <2>5, <2>6
<1>2. CASE PollRefused
  <2>1. UNCHANGED <<clock, queue, drive, since, loop>>
    BY <1>2, <1>r DEF PollRefused, LoopIsRecord
  <2>2. ~loop.errors /\ UNCHANGED TurnStart
    BY <2>1 DEF TurnStart, InTurn
  <2>3. OldFramesRunOut'
    BY <1>u, <1>o, <2>1, <2>2, OldFramesStay
  <2> QED BY <1>u, <2>1, <2>2, <2>3 DEF TurnsAreShort, InTurn
<1>3. CASE Poll
  <2>1. /\ UNCHANGED <<clock, drive, since>>
        /\ UNCHANGED <<loop.last, loop.drained, loop.errors, loop.pc, loop.woke>>
        /\ loop.pc = "send"
    BY <1>3, <1>r DEF Poll, LoopIsRecord
  <2>2. ~loop.errors /\ UNCHANGED TurnStart
    BY <2>1 DEF TurnStart, InTurn
  <2>3. TurnsAreShort'
    BY <1>u, <2>1, <2>2 DEF TurnsAreShort, InTurn
  <2>4. CASE queue' = queue
    BY <1>u, <1>o, <2>1, <2>2, <2>3, <2>4, OldFramesStay
  <2>5. CASE queue' # queue
    <3>1. queue' = Append(queue, Frame(loop.index)) /\ Frame(loop.index) \in FrameSet
      BY <1>3, <2>5, PollAnswer
    <3>2. \A m \in Selected :
            drive[m] \notin GoodStatus => ~SpeaksFor(Frame(loop.index), m)
      BY DEF SpeaksFor, Frame
    <3> QED BY <1>u, <2>1, <2>2, <2>3, <3>1, <3>2, OldFramesStay
  <2> QED BY <2>4, <2>5
<1>4. CASE OddFrame
  <2>1. UNCHANGED <<clock, drive, since, loop>> /\ loop.pc = "select"
    BY <1>4 DEF OddFrame
  <2>2. PICK kind \in OddKinds : queue' = Append(queue, Odd(kind))
    BY <1>4 DEF OddFrame
  <2>3. Odd(kind) \in FrameSet /\ \A m : ~SpeaksFor(Odd(kind), m)
    BY DEF Odd, OddKinds, FrameSet, SpeaksFor
  <2>4. ~loop.errors /\ UNCHANGED TurnStart
    BY <2>1 DEF TurnStart, InTurn
  <2>5. OldFramesRunOut'
    BY <1>u, <2>1, <2>2, <2>3, <2>4, OldFramesStay
  <2> QED BY <1>u, <2>1, <2>4, <2>5 DEF TurnsAreShort, InTurn
<1>5. CASE DriveTrips
  <2>1. UNCHANGED <<clock, queue, loop>> /\ loop.pc = "select"
    BY <1>5 DEF DriveTrips
  <2> QED BY <1>5, <1>u, <2>1, TripStartsTurns DEF TurnsAreShort, InTurn
<1>6. CASE Tick
  <2>1. /\ UNCHANGED <<queue, drive, since, loop>> /\ clock' = clock + 1
        /\ loop.pc = "select" /\ clock - loop.woke < MaxWake
    BY <1>6 DEF Tick
  <2>2. ~loop.errors /\ UNCHANGED TurnStart
    BY <2>1 DEF TurnStart, InTurn
  <2>3. OldFramesRunOut'
    BY <1>u, <1>o, <2>1, <2>2, OldFramesStay
  <2>4. TurnsAreShort'
    <3>1. \A m \in Motors : loop.last[m] \in Nat /\ loop.last[m] <= clock + 1
      BY <1>r, <2>2 DEF TurnsAreShort, ProbeTypes
    <3>2. loop.woke <= clock + 1 /\ clock + 1 <= loop.woke + MaxWake
      BY <1>r, <2>1, <2>2 DEF TurnsAreShort, InTurn
    <3> QED BY <1>u, <2>1, <2>2, <3>1, <3>2 DEF TurnsAreShort, InTurn
  <2> QED BY <2>2, <2>3, <2>4
<1>7. CASE Read
  <2>1. CASE Raises(Head(queue))
    <3>1. ~loop.errors
      BY <1>7, <2>1 DEF Read
    <3> QED BY <1>7, <2>1, <3>1, RaisedRunsOut
  <2>2. CASE ~Raises(Head(queue))
    <3>1. ~loop.errors
      BY <1>7, <1>r, <2>2 DEF Read, LoopIsRecord
    <3> QED BY <1>7, <2>2, <3>1, ReadRunsOut
  <2> QED BY <2>1, <2>2
<1>8. CASE Check
  <2>1. ~loop.errors
    BY <1>8, <1>r DEF Check, LoopIsRecord
  <2> QED BY <1>8, <2>1, CheckRunsOut
<1>9. CASE Traffic
  BY <1>9 DEF Traffic
<1> QED
  BY <1>1, <1>2, <1>3, <1>4, <1>5, <1>6, <1>7, <1>8, <1>9 DEF ProbeNext, ProbeStep

\* "passed" is reported after the loop, by a polling tool without an error.
LEMMA PassedStep ==
  ASSUME PassedFromReport, Polling => ProbeTypes, ProbeNext
  PROVE  PassedFromReport'
<1> USE DEF At
<1>1. UNCHANGED result \/ result' # "passed" \/ Report
  BY DEF ProbeNext, ProbeStep, Start, Begin, DamiaoRxAudit, DamiaoZeroGainProbe,
         DamiaoZeroGainGroupProbe, FullBodyShadowProbe, LivePolicyShadowProbe,
         CaptureActiveCanTrace, LoopEnds, Wakes, Poll, PollRefused, SendsDone,
         SelectReturns, ImuPacket, Read, Check, OddFrame, DriveTrips, Traffic, Tick
<1>2. result = "running"
  BY DEF ProbeNext, ProbeStep, Start, Begin, DamiaoRxAudit, DamiaoZeroGainProbe,
         DamiaoZeroGainGroupProbe, FullBodyShadowProbe, LivePolicyShadowProbe,
         CaptureActiveCanTrace, LoopEnds, Wakes, Poll, PollRefused, SendsDone,
         SelectReturns, ImuPacket, Read, Check, Report, OddFrame, DriveTrips, Traffic, Tick
<1>3. CASE Report
  <2>1. UNCHANGED <<loop, tool>> /\ loop.pc = "report" /\ (result' = "passed" => Passed)
    BY <1>3 DEF Report
  <2>2. Passed /\ Polling => ~loop.errors
    BY DEF Passed, Polling, SinglePassed, GroupPassed, BodyPassed
  <2> QED BY <2>1, <2>2, ToolStays DEF PassedFromReport
<1> QED BY <1>1, <1>2, <1>3 DEF PassedFromReport

\* A probe passes only on drives that were fit when it could last know:
\* longer ago than the feedback timeout and the turns that read all the queue
\* can hold none of them died or reported a status it refuses.
THEOREM PassedProbesAreRecent == Spec => []PassedProbeIsRecent
<1>1. Init => RecentInv
  <2>1. ASSUME ProbeInit PROVE RecentInv
    <3>1. /\ clock = 0 /\ queue = <<>> /\ loop = Locals /\ result = "running"
          /\ drive \in [Motors -> {"disabled", "enabled"}] /\ since = [m \in Motors |-> 0]
      BY <2>1 DEF ProbeInit
    <3>2. /\ loop.pc = "start" /\ loop.woke = 0 /\ loop.drained = 0 /\ loop.index = 1
          /\ loop.last = [m \in Motors |-> 0] /\ loop.errors = FALSE
      BY <3>1 DEF Locals
    <3>3. LoopIsRecord
      BY <3>1 DEF LoopIsRecord, Locals
    <3>4. queue \in Seq(FrameSet) /\ Len(queue) = 0
      BY <3>1
    <3>5. ProbeTypes
      <4>1. Len(queue) <= MaxQueue /\ loop.index \in Motors
        BY <3>2, <3>4, ProbeConstants
      <4>2. loop.last \in [Motors -> Nat] /\ since \in [Motors -> Nat]
        BY <3>1, <3>2
      <4>3. drive \in [Motors -> {"disabled", "enabled", "fault", "silent"}]
        BY <3>1
      <4> QED BY <3>1, <3>2, <3>3, <3>4, <4>1, <4>2, <4>3 DEF ProbeTypes
    <3>6. TurnsAreShort
      BY <3>1, <3>2, ProbeConstants DEF TurnsAreShort, InTurn
    <3>7. OldFramesRunOut
      <4>1. ASSUME NEW m \in Selected, NEW turns \in EnoughTurns
            PROVE  loop.last[m] <= since[m] + turns * MaxWake
        <5>1. turns * MaxWake \in Nat
          BY ProbeConstants
        <5> QED BY <3>1, <3>2, <5>1, ProbeConstants
      <4> QED BY <3>4, <4>1 DEF OldFramesRunOut
    <3> QED BY <3>1, <3>5, <3>6, <3>7 DEF RecentInv, PassedFromReport
  <2>2. ASSUME NoProbe PROVE RecentInv
    BY <2>2 DEF NoProbe, RecentInv, PassedFromReport, Polling
  <2> QED BY <2>1, <2>2 DEF Init
<1>2. ASSUME RecentInv, [Next]_benchVars
      PROVE  RecentInv'
  <2>1. CASE ProbeNext
    <3>1. PassedFromReport'
      BY <1>2, <2>1, PassedStep DEF RecentInv
    <3>2. UNCHANGED tool
      BY <2>1
         DEF ProbeNext, ProbeStep, Start, Begin, DamiaoRxAudit, DamiaoZeroGainProbe,
             DamiaoZeroGainGroupProbe, FullBodyShadowProbe, LivePolicyShadowProbe,
             CaptureActiveCanTrace, LoopEnds, Wakes, Poll, PollRefused, SendsDone,
             SelectReturns, ImuPacket, Read, Check, Report, OddFrame, DriveTrips, Traffic, Tick
    <3>3. UNCHANGED Polling
      BY <3>2, ToolStays
    <3> QED BY <1>2, <2>1, <3>1, <3>3, ProbeTypesStep, RecentStep DEF RecentInv
  <2>2. CASE UNCHANGED probeVars
    <3>1. UNCHANGED <<PassedFromReport, Polling, ProbeTypes, TurnsAreShort, OldFramesRunOut,
                      loop.errors>>
      BY <2>2
         DEF probeVars, PassedFromReport, Polling, ProbeTypes, LoopIsRecord, TurnsAreShort,
             OldFramesRunOut, InTurn, TurnStart, ReadBefore, SpeaksFor, Selected, GoodStatus,
             EnoughTurns, FramesPerTurn, FullBody
    <3> QED BY <1>2, <3>1 DEF RecentInv
  <2> QED BY <1>2, <2>1, <2>2 DEF Next, benchVars
<1>3. RecentInv => PassedProbeIsRecent
  <2> SUFFICES ASSUME RecentInv, result = "passed", Polling,
                      NEW m \in Selected, drive[m] \notin GoodStatus, NEW turns \in EnoughTurns
               PROVE  clock - since[m] <= Timeout + turns * MaxWake
    BY DEF PassedProbeIsRecent
  <2>1. /\ ProbeTypes /\ TurnsAreShort /\ OldFramesRunOut /\ loop.pc = "report"
    BY DEF RecentInv, PassedFromReport
  <2>2. /\ clock - loop.last[m] <= Timeout
        /\ loop.last[m] <= since[m] + turns * MaxWake
    BY <2>1 DEF TurnsAreShort, OldFramesRunOut
  <2>3. /\ clock \in Int /\ loop.last[m] \in Int /\ since[m] \in Int /\ turns * MaxWake \in Int
    BY <2>1, ProbeConstants DEF ProbeTypes
  <2> QED BY <2>2, <2>3, ProbeConstants
<1> QED BY <1>1, <1>2, <1>3, PTL DEF Spec

------------------------------------------------------------------------------
(* The tools that read and set registers.                                   *)

(***************************************************************************)
(* The ranges of the hardware contract.                                    *)
(***************************************************************************)

\* A table of values, each unset or of the motor and register it is filed under.
True(table) ==
  /\ table \in [MotorIds -> [Registers -> {NoValue} \union (MotorIds \X Registers)]]
  /\ \A m \in MotorIds, r \in Registers : table[m][r] \in {NoValue, <<m, r>>}

RangesInv == True(values) /\ True(contract)

LEMMA NothingIsTrue == True(Nothing)
BY DEF True, Nothing

\* Filing a value under its own motor and register keeps a table true.
LEMMA FilingIsTrue ==
  ASSUME NEW table, True(table), NEW m, NEW r
  PROVE  True([table EXCEPT ![m][r] = <<m, r>>])
<1> DEFINE filed == [table EXCEPT ![m][r] = <<m, r>>]
<1>1. CASE m \in MotorIds /\ r \in Registers
  <2>1. filed \in [MotorIds -> [Registers -> {NoValue} \union (MotorIds \X Registers)]]
    BY <1>1 DEF True
  <2>2. ASSUME NEW n \in MotorIds, NEW q \in Registers
        PROVE  filed[n][q] \in {NoValue, <<n, q>>}
    BY <1>1, <2>2 DEF True
  <2> QED BY <2>1, <2>2 DEF True
<1>2. CASE m \in MotorIds /\ r \notin Registers
  <2>1. [table[m] EXCEPT ![r] = <<m, r>>] = table[m]
    BY <1>2 DEF True
  <2>2. filed = table
    BY <1>2, <2>1 DEF True
  <2> QED BY <2>2
<1>3. CASE m \notin MotorIds
  <2>1. filed = table
    BY <1>3 DEF True
  <2> QED BY <2>1
<1> QED BY <1>1, <1>2, <1>3

\* A frame becomes a value only if it comes from the motor and names the
\* register that is asked for (decode_read_response and its caller).
LEMMA ReceiveKeepsTruth ==
  ASSUME RangesInv, Receive
  PROVE  RangesInv'
<1> DEFINE first == Head(received)
<1>1. contract' = contract
  BY DEF Receive
<1>2. CASE values' = values
  BY <1>1, <1>2 DEF RangesInv
<1>3. CASE values' # values
  <2>1. /\ first.motor = at.motor
        /\ first.register = at.register
        /\ values' = [values EXCEPT ![at.motor][at.register] = <<first.motor, first.register>>]
    BY <1>3 DEF Receive, Refused, CommissioningRefused
  <2>2. values' = [values EXCEPT ![at.motor][at.register] = <<at.motor, at.register>>]
    BY <2>1
  <2> QED BY <1>1, <2>2, FilingIsTrue DEF RangesInv
<1> QED BY <1>2, <1>3

LEMMA RangesStep ==
  ASSUME RangesInv, CommissioningNext
  PROVE  RangesInv'
<1>1. CASE Receive
  BY <1>1, ReceiveKeepsTruth
<1>2. CASE Apply
  BY <1>2 DEF Apply, RangesInv
<1>3. CASE UNCHANGED <<values, contract>>
  BY <1>3 DEF RangesInv
<1>4. CASE Enter \/ SendRequest \/ GivesUp \/ TimesOut \/ ReportRegisters \/ Before \/ SetZero \/ After
  <2>1. UNCHANGED <<values, contract>>
    BY <1>4 DEF Enter, SendRequest, GivesUp, TimesOut, ReportRegisters, Before, SetZero, After
  <2> QED BY <1>3, <2>1
<1>5. CASE \E m \in MotorIds : DriveAnswers(m) \/ StrangeFrame(m) \/ DriveTurns(m)
  <2>1. UNCHANGED <<values, contract>>
    BY <1>5 DEF DriveAnswers, StrangeFrame, DriveTurns
  <2> QED BY <1>3, <2>1
<1> QED BY <1>1, <1>2, <1>4, <1>5 DEF CommissioningNext

\* However late answers come, and whatever else the drives send, the ranges
\* the contract gets are those of the motor and the register they are filed
\* under (decode_read_response, apply_mit_range_readback).
THEOREM InstalledRangesStayTrue == Spec => []InstalledRangesAreTrue
<1>1. Init => RangesInv
  BY NothingIsTrue DEF Init, NoCommissioning, CommissioningInit, RangesInv
<1>2. ASSUME RangesInv, [Next]_benchVars
      PROVE  RangesInv'
  <2>1. CASE CommissioningNext
    BY <1>2, <2>1, RangesStep
  <2>2. CASE UNCHANGED commissioningVars
    BY <1>2, <2>2 DEF commissioningVars, RangesInv
  <2> QED BY <1>2, <2>1, <2>2 DEF Next, benchVars
<1>3. RangesInv => InstalledRangesAreTrue
  BY DEF RangesInv, True, InstalledRangesAreTrue
<1> QED BY <1>1, <1>2, <1>3, PTL DEF Spec

(***************************************************************************)
(* The zero of the head.                                                   *)
(***************************************************************************)

ZeroPcs == {"start", "before", "write", "after", "done"}

\* While the command runs it has verified the motors before the one it is
\* at; it is done only when its outcome is known; and what it verified is
\* stored, for a motor that has stored its zero keeps it.
ZeroInv ==
  /\ script = "zero" =>
       /\ at \in [pc : ZeroPcs, motor : MotorIds, register : Registers, attempt : Nat]
       /\ outcome = "running" => (verified = 1..(at.motor - 1) /\ at.pc # "done")
       /\ outcome = "passed" => verified = MotorIds
       /\ outcome # "installed"
       /\ stored \subseteq MotorIds
  /\ verified \subseteq stored

\* The steps of the command itself, one motor after the other.
LEMMA ZeroOwnStep ==
  ASSUME ZeroInv, Enter \/ Before \/ SetZero \/ After
  PROVE  ZeroInv'
<1> USE CommissioningAssumption DEF ZeroInv, InStep, ZeroPcs, MotorIds, Registers
<1>1. CASE Enter
  BY <1>1 DEF Enter
<1>2. CASE Before
  BY <1>2 DEF Before
<1>3. CASE SetZero
  BY <1>3 DEF SetZero
<1>4. CASE After
  <2>1. verified' \subseteq stored'
    BY <1>4 DEF After, Verified
  <2>2. CASE outcome' = "failed"
    BY <1>4, <2>1, <2>2 DEF After
  <2>3. CASE outcome' # "failed" /\ script = "zero"
    <3>1. /\ at \in [pc : ZeroPcs, motor : MotorIds, register : Registers, attempt : Nat]
          /\ verified = 1..(at.motor - 1) /\ at.motor \in 1..Drives
      BY <1>4, <2>3 DEF After
    <3>2. /\ verified' = verified \union {at.motor}
          /\ at' = IF at.motor < Drives THEN [at EXCEPT !.motor = @ + 1, !.pc = "before"]
                   ELSE [at EXCEPT !.pc = "done"]
          /\ outcome' = IF at.motor < Drives THEN outcome ELSE "passed"
          /\ outcome = "running" /\ script' = script
      BY <1>4, <2>3 DEF After
    <3>3. verified' = 1..at.motor
      BY <3>1, <3>2
    <3>4. CASE at.motor < Drives
      <4>1. at' = [pc |-> "before", motor |-> at.motor + 1,
                   register |-> at.register, attempt |-> at.attempt]
        BY <3>1, <3>2, <3>4
      <4>2. at.motor + 1 \in 1..Drives /\ (at.motor + 1) - 1 = at.motor
        BY <3>1, <3>4
      <4>3. outcome' = "running" /\ stored' = stored
        BY <1>4, <3>2, <3>4 DEF After
      <4> QED BY <2>1, <2>3, <3>1, <3>3, <4>1, <4>2, <4>3
    <3>5. CASE ~(at.motor < Drives)
      <4>1. at.motor = Drives
        BY <3>1, <3>5
      <4>2. at' \in [pc : ZeroPcs, motor : MotorIds, register : Registers, attempt : Nat]
        BY <3>1, <3>2, <3>5
      <4>3. outcome' = "passed" /\ stored' = stored
        BY <1>4, <3>2, <3>5 DEF After
      <4> QED BY <2>1, <2>3, <3>3, <4>1, <4>2, <4>3
    <3> QED BY <3>4, <3>5
  <2>4. CASE script # "zero"
    BY <1>4, <2>1, <2>4 DEF After
  <2> QED BY <2>2, <2>3, <2>4
<1> QED BY <1>1, <1>2, <1>3, <1>4

\* The audits' steps: where they start, the zero command never stands.
LEMMA ZeroOtherStep ==
  ASSUME ZeroInv,
         SendRequest \/ GivesUp \/ Receive \/ TimesOut \/ ReportRegisters \/ Apply
  PROVE  ZeroInv'
<1>1. script # "zero"
  BY DEF ZeroInv, InStep, ZeroPcs, SendRequest, GivesUp, Receive, TimesOut, ReportRegisters, Apply
<1>2. UNCHANGED <<script, stored, verified>>
  BY DEF SendRequest, GivesUp, Receive, TimesOut, ReportRegisters, Apply
<1> QED BY <1>1, <1>2 DEF ZeroInv

\* The drives change neither the command nor what is stored.
LEMMA ZeroDriveStep ==
  ASSUME ZeroInv, NEW m, DriveAnswers(m) \/ StrangeFrame(m) \/ DriveTurns(m)
  PROVE  ZeroInv'
BY DEF ZeroInv, DriveAnswers, StrangeFrame, DriveTurns

\* A command that passed has stored the zero of every motor, though a frame
\* may be lost, a drive may be enabled or dead by then, and one motor may
\* fail after another was written (damiao_set_head_zero).
THEOREM ZeroedHeadStaysZero == Spec => []ZeroedHeadIsZero
<1>1. Init => ZeroInv
  <2>1. NoCommissioning => ZeroInv
    BY DEF NoCommissioning, ZeroInv
  <2>2. CommissioningInit => ZeroInv
    BY CommissioningAssumption
       DEF CommissioningInit, ZeroInv, ZeroPcs, MotorIds, Registers
  <2> QED BY <2>1, <2>2 DEF Init
<1>2. ASSUME ZeroInv, [Next]_benchVars
      PROVE  ZeroInv'
  <2>1. CASE CommissioningNext
    BY <1>2, <2>1, ZeroOwnStep, ZeroOtherStep, ZeroDriveStep DEF CommissioningNext
  <2>2. CASE UNCHANGED commissioningVars
    BY <1>2, <2>2 DEF commissioningVars, ZeroInv
  <2> QED BY <1>2, <2>1, <2>2 DEF Next, benchVars
<1>3. ZeroInv => ZeroedHeadIsZero
  BY DEF ZeroInv, ZeroedHeadIsZero, MotorIds
<1> QED BY <1>1, <1>2, <1>3, PTL DEF Spec

------------------------------------------------------------------------------
(* The safety supervisor.                                                   *)

\* The faults of the history are still latched.  The promise alone says
\* nothing of a refused state, from which a clear has to be judged.
Held == uncleared \subseteq latched

SupervisorInv == Held /\ FaultsHoldTransmission

\* An evaluation latches what it finds, and permits only if nothing is
\* latched then (SafetySupervisor.evaluate).
LEMMA EvaluateHolds ==
  ASSUME SupervisorInv, Evaluate
  PROVE  SupervisorInv'
<1> USE DEF SupervisorInv, Held, FaultsHoldTransmission
<1>1. CASE stateAge < 0 \/ commandAge < 0
  BY <1>1 DEF Evaluate
<1>2. CASE ~(stateAge < 0 \/ commandAge < 0)
  <2> DEFINE now == latched \union Latches(Dynamic)
             blockers == Dynamic \union now \union (IF mode = "armed" THEN {} ELSE {"mode"})
  <2>1. /\ latched' = now
        /\ permitted' = (blockers = {})
        /\ uncleared' = uncleared \union (Dynamic \intersect Latching)
    BY <1>2 DEF Evaluate
  <2>2. uncleared' \subseteq latched'
    BY <2>1 DEF Latches
  <2>3. permitted' => latched' = {}
    BY <2>1
  <2> QED BY <2>2, <2>3
<1> QED BY <1>1, <1>2

\* Clearing a fault by name releases that fault and no other
\* (clear_latched_faults); no transmission is permitted by it.
LEMMA ClearHolds ==
  ASSUME SupervisorInv, NEW faults, Clear(faults)
  PROVE  SupervisorInv'
BY DEF SupervisorInv, Held, FaultsHoldTransmission, Clear

\* The other steps leave the decision and what it rests on alone.
LEMMA UntouchedHolds ==
  ASSUME SupervisorInv, UNCHANGED <<latched, permitted, uncleared>>
  PROVE  SupervisorInv'
BY DEF SupervisorInv, Held, FaultsHoldTransmission

\* Every driver of the supervisor keeps the promise.
LEMMA SupervisorStep ==
  ASSUME SupervisorInv, SupervisorNext
  PROVE  SupervisorInv'
<1>1. CASE ReplayTick
  BY <1>1, EvaluateHolds DEF ReplayTick
<1>2. CASE SelfTestCase
  <2>1. CASE Evaluate
    BY <2>1, EvaluateHolds
  <2>2. CASE latched' = {} /\ uncleared' = {}
    BY <2>2 DEF SupervisorInv, Held, FaultsHoldTransmission
  <2>3. CASE UNCHANGED <<latched, permitted, uncleared>>
    BY <2>3, UntouchedHolds
  <2> QED BY <1>2, <2>1, <2>2, <2>3 DEF SelfTestCase
<1>3. CASE SelfTestClears
  BY <1>3, ClearHolds DEF SelfTestClears
<1>4. CASE LoopEvaluates
  BY <1>4, EvaluateHolds DEF LoopEvaluates
<1>5. CASE LoopTick
  BY <1>5, UntouchedHolds DEF LoopTick
<1>6. CASE StateArrives
  BY <1>6, UntouchedHolds DEF StateArrives
<1>7. CASE CommandArrives
  BY <1>7, UntouchedHolds DEF CommandArrives
<1>8. CASE FlagTurns
  BY <1>8, UntouchedHolds DEF FlagTurns
<1>9. CASE OperatorClears
  BY <1>9, ClearHolds DEF OperatorClears
<1> QED BY <1>1, <1>2, <1>3, <1>4, <1>5, <1>6, <1>7, <1>8, <1>9 DEF SupervisorNext

\* A run of the bench starts with nothing latched and nothing permitted.
LEMMA SupervisorStart == Init => SupervisorInv
BY DEF Init, NoSupervisor, SupervisorInit, SupervisorInv, Held, FaultsHoldTransmission

\* However faults come and go between evaluations, and whatever the
\* operator clears while they last, transmission is permitted only when
\* each latching fault that was evaluated has been cleared by name since
\* (SafetySupervisor.evaluate, clear_latched_faults).
THEOREM FaultsAlwaysHoldTransmission == Spec => []FaultsHoldTransmission
<1>1. ASSUME SupervisorInv, [Next]_benchVars
      PROVE  SupervisorInv'
  <2>1. CASE SupervisorNext
    BY <1>1, <2>1, SupervisorStep
  <2>2. CASE UNCHANGED supervisorVars
    BY <1>1, <2>2, UntouchedHolds DEF supervisorVars
  <2> QED BY <1>1, <2>1, <2>2 DEF Next, benchVars
<1>2. SupervisorInv => FaultsHoldTransmission
  BY DEF SupervisorInv
<1> QED BY SupervisorStart, <1>1, <1>2, PTL DEF Spec

------------------------------------------------------------------------------
(* The hardware contract: the maps between joints and drives.               *)

\* A sign times a ratio that is not zero turns the knee, its zero is whole.

LEMMA KneeTurns ==
  ASSUME NEW k \in KneeRecords
  PROVE  /\ SignedRatio(k) \in Int /\ SignedRatio(k) # 0
         /\ k.zero[1] \in Int
<1>1. k.encoder[1] \in {1, -1} /\ k.policy \in {1, -1} /\ k.ratio \in Nat \ {0} /\ k.zero[1] \in Int
  BY DEF KneeRecords
<1>2. SignedRatio(k) \in {k.ratio, -k.ratio}
  <2>1. k.encoder[1] * k.policy \in {1, -1}
    BY <1>1
  <2> QED BY <1>1, <2>1 DEF SignedRatio
<1> QED BY <1>1, <1>2

\* What a knee was driven by is what is measured at the joint.
LEMMA KneeReturns ==
  ASSUME NEW k \in KneeRecords, NEW q \in [{1} -> Int]
  PROVE  KneeToJoint(k, KneeToDrive(k, q))[1] = q[1]
<1> DEFINE r == SignedRatio(k)
           x == q[1]
<1>1. r \in Int /\ r # 0 /\ k.zero[1] \in Int /\ x \in Int
  BY KneeTurns
<1>2. KneeToDrive(k, q)[1] = k.zero[1] + r * x
  BY DEF KneeToDrive
<1>3. /\ (k.zero[1] + r * x) - k.zero[1] = r * x
      /\ k.zero[1] - (k.zero[1] + r * x) = (-r) * x
  BY <1>1
<1> HIDE DEF r, x
<1>4. r > 0 => (r * x) \div r = x
  BY <1>1
<1>5. r < 0 => ((-r) * x) \div (-r) = x
  BY <1>1
<1> QED BY <1>1, <1>2, <1>3, <1>4, <1>5 DEF KneeToJoint, r, x

\* The rows of a differential, and what the encoders measure, are whole numbers.
LEMMA PairTypes ==
  ASSUME NEW p \in PairRecords, NEW i \in {1, 2}
  PROVE  /\ p.zero[i] \in Int /\ p.offset[i] \in Int /\ p.encoder[i] \in {1, -1}
         /\ p.matrix[i][1] \in Int /\ p.matrix[i][2] \in Int
BY DEF PairRecords

\* The adjugate takes back what a matrix did, up to its determinant.
LEMMA AdjugateTurnsBack ==
  ASSUME NEW a \in Int, NEW b \in Int, NEW c \in Int, NEW d \in Int, NEW x \in Int, NEW y \in Int
  PROVE  /\ d * (a * x + b * y) + (-b) * (c * x + d * y) = (a * d - b * c) * x
         /\ (-c) * (a * x + b * y) + a * (c * x + d * y) = (a * d - b * c) * y
OBVIOUS

\* A product is divided by its factor, whichever sign both are given.
LEMMA ExactDivision ==
  ASSUME NEW e \in Int, e # 0, NEW s, s = IF e > 0 THEN 1 ELSE -1, NEW x \in Int
  PROVE  (s * (e * x)) \div (s * e) = x
<1>1. CASE e > 0
  <2>1. s * (e * x) = e * x /\ s * e = e
    BY <1>1
  <2>2. (e * x) \div e = x
    BY <1>1
  <2> QED BY <2>1, <2>2
<1>2. CASE ~(e > 0)
  <2>1. s * (e * x) = (-e) * x /\ s * e = -e
    BY <1>2
  <2>2. ((-e) * x) \div (-e) = x
    BY <1>2
  <2> QED BY <2>1, <2>2
<1> QED BY <1>1, <1>2

\* What a pair was driven by is what is measured at its joints
\* (DifferentialPairDriveMap).
LEMMA PairReturns ==
  ASSUME NEW p \in PairRecords, Det(p.matrix) # 0, NEW q \in [{1, 2} -> Int]
  PROVE  PairToJoint(p, PairToDrive(p, q)) = q
<1> DEFINE m == p.matrix
           row(i) == m[i][1] * q[1] + m[i][2] * q[2]
           centered(i) == p.encoder[i] * (PairToDrive(p, q)[i] - p.zero[i]) - p.offset[i]
           s == IF Det(m) > 0 THEN 1 ELSE -1
<1>1. /\ m[1][1] \in Int /\ m[1][2] \in Int /\ m[2][1] \in Int /\ m[2][2] \in Int
      /\ q[1] \in Int /\ q[2] \in Int
  BY PairTypes
<1>2. ASSUME NEW i \in {1, 2} PROVE centered(i) = row(i)
  <2>1. PairToDrive(p, q)[i] = p.zero[i] + p.encoder[i] * (m[i][1] * q[1] + m[i][2] * q[2] + p.offset[i])
    BY DEF PairToDrive, Canonical
  <2>2. PICK w \in Int : w = row(i)
    BY <1>1
  <2>3. /\ p.zero[i] \in Int /\ p.offset[i] \in Int /\ p.encoder[i] \in {1, -1}
    BY PairTypes
  <2> HIDE DEF m
  <2>4. PairToDrive(p, q)[i] = p.zero[i] + p.encoder[i] * (w + p.offset[i])
    BY <2>1, <2>2
  <2> QED BY <2>2, <2>3, <2>4
<1>3. /\ Det(m) = m[1][1] * m[2][2] - m[1][2] * m[2][1] /\ Det(m) \in Int /\ Det(m) # 0
  BY <1>1 DEF Det
<1>4. /\ m[2][2] * row(1) + (-m[1][2]) * row(2) = Det(m) * q[1]
      /\ (-m[2][1]) * row(1) + m[1][1] * row(2) = Det(m) * q[2]
  BY <1>1, <1>3, AdjugateTurnsBack
<1>5. PairToJoint(p, PairToDrive(p, q))
        = [j \in {1, 2} |-> (s * (Adjugate(m)[j][1] * centered(1) + Adjugate(m)[j][2] * centered(2)))
                              \div (s * Det(m))]
  BY DEF PairToJoint
<1>6. /\ Adjugate(m)[1][1] = m[2][2] /\ Adjugate(m)[1][2] = -m[1][2]
      /\ Adjugate(m)[2][1] = -m[2][1] /\ Adjugate(m)[2][2] = m[1][1]
  BY DEF Adjugate
<1>7. ASSUME NEW j \in {1, 2}
      PROVE  Adjugate(m)[j][1] * centered(1) + Adjugate(m)[j][2] * centered(2) = Det(m) * q[j]
  BY <1>2, <1>4, <1>6
<1> HIDE DEF centered, row
<1>8. ASSUME NEW j \in {1, 2}
      PROVE  (s * (Det(m) * q[j])) \div (s * Det(m)) = q[j]
  BY <1>1, <1>3, ExactDivision
<1>9. PairToJoint(p, PairToDrive(p, q)) = [j \in {1, 2} |-> q[j]]
  BY <1>5, <1>7, <1>8
<1> QED BY <1>9

\* A calibration a map is built of.
LEMMA BuiltCalibration ==
  ASSUME NEW r \in DOMAIN Calibrations, MapBuilt(r)
  PROVE  /\ Calibrations[r].knee \in KneeRecords
         /\ \A g \in Pairs : Calibrations[r][g] \in PairRecords /\ Det(Calibrations[r][g].matrix) # 0
<1> DEFINE Records == [knee : KneeRecords, ankle : PairRecords, head : PairRecords]
<1>1. Calibrations[r] \in Records
  <2> HIDE DEF Records
  <2>1. Calibrations \in Seq(Records)
    BY ContractAssumption DEF Records
  <2>2. DOMAIN Calibrations = 1..Len(Calibrations)
    BY <2>1
  <2> QED BY <2>1, <2>2
<1>2. Calibrations[r].ankle \in PairRecords /\ Calibrations[r].head \in PairRecords
  BY <1>1
<1>3. Calibrations[r]["ankle"] \in PairRecords /\ Calibrations[r]["head"] \in PairRecords
  BY <1>2
<1> QED BY <1>1, <1>3 DEF MapBuilt, Pairs

\* Of every group: what a posture drives is what is measured (SpriteMotorMap).
LEMMA DrivesReturn ==
  ASSUME NEW r \in DOMAIN Calibrations, MapBuilt(r), NEW g \in Groups, NEW q \in [Axes(g) -> Int]
  PROVE  ToJoint(Calibrations[r], g, ToDrive(Calibrations[r], g, q)) = q
<1>1. CASE g = "knee"
  <2> DEFINE k == Calibrations[r].knee
             x == KneeToJoint(k, KneeToDrive(k, q))
  <2>1. k \in KneeRecords /\ q \in [{1} -> Int]
    BY <1>1, BuiltCalibration DEF Axes
  <2>2. x[1] = q[1]
    BY <2>1, KneeReturns
  <2>3. x = [j \in {1} |-> x[1]]
    BY DEF KneeToJoint
  <2>4. q = [j \in {1} |-> q[1]]
    BY <2>1
  <2> QED BY <1>1, <2>2, <2>3, <2>4 DEF ToJoint, ToDrive
<1>2. CASE g \in Pairs
  BY <1>2, BuiltCalibration, PairReturns DEF ToJoint, ToDrive, Axes, Pairs
<1> QED BY <1>1, <1>2 DEF Groups

\* A pose moves a motor to a whole position.
LEMMA DrivesAreWhole ==
  ASSUME NEW r \in DOMAIN Calibrations, MapBuilt(r), NEW g \in Groups, NEW q \in [Axes(g) -> Int],
         NEW i \in Axes(g)
  PROVE  ToDrive(Calibrations[r], g, q)[i] \in Int
<1> DEFINE c == Calibrations[r]
<1>1. CASE g = "knee"
  <2>1. SignedRatio(c.knee) \in Int /\ c.knee.zero[1] \in Int /\ q[1] \in Int /\ i = 1
    BY <1>1, BuiltCalibration, KneeTurns DEF Axes
  <2>2. ToDrive(c, g, q)[i] = c.knee.zero[1] + SignedRatio(c.knee) * q[1]
    BY <1>1, <2>1 DEF ToDrive, KneeToDrive
  <2> QED BY <2>1, <2>2
<1>2. CASE g \in Pairs
  <2>1. c[g] \in PairRecords /\ i \in {1, 2} /\ q[1] \in Int /\ q[2] \in Int
    BY <1>2, BuiltCalibration DEF Axes, Pairs
  <2>2. /\ c[g].zero[i] \in Int /\ c[g].offset[i] \in Int /\ c[g].encoder[i] \in Int
        /\ c[g].matrix[i][1] \in Int /\ c[g].matrix[i][2] \in Int
    BY <2>1, PairTypes
  <2>3. ToDrive(c, g, q)[i] = c[g].zero[i]
          + c[g].encoder[i] * (c[g].matrix[i][1] * q[1] + c[g].matrix[i][2] * q[2] + c[g].offset[i])
    BY <1>2, <2>1 DEF ToDrive, PairToDrive, Canonical, Pairs
  <2> QED BY <2>1, <2>2, <2>3
<1> QED BY <1>1, <1>2 DEF Groups

------------------------------------------------------------------------------
(* The hardware contract: the impedance at the joints.                      *)

\* The torque at the joint of a drive that holds a gain about a target.
LEMMA KneeImpedance ==
  ASSUME NEW s \in Int, NEW z \in Int, NEW kp \in Int, NEW t \in Int, NEW q \in Int, NEW f \in Int
  PROVE  s * (kp * ((z + s * t) - (z + s * q)) + s * f) = (s * s) * (kp * (t - q) + f)
OBVIOUS

\* Torques brought to the motors by the adjugate are felt as they were meant,
\* by the square of the determinant.
LEMMA TorquesReachTheJoints ==
  ASSUME NEW a \in Int, NEW b \in Int, NEW c \in Int, NEW d \in Int, NEW x \in Int, NEW y \in Int,
         NEW e \in Int, e = a * d - b * c
  PROVE  /\ a * (e * (d * x + (-c) * y)) + c * (e * ((-b) * x + a * y)) = (e * e) * x
         /\ b * (e * (d * x + (-c) * y)) + d * (e * ((-b) * x + a * y)) = (e * e) * y
OBVIOUS

\* The knee feels the impedance through its signed ratio (DirectMotorMap).
LEMMA KneeFeels ==
  ASSUME NEW k \in KneeRecords, NEW t \in Goals, NEW q \in [{1} -> Int]
  PROVE  SignedRatio(k) * DriveTorque(KneeCommand(k, t), KneeToDrive(k, q))[1]
           = SignedRatio(k) * SignedRatio(k) * Impedance(t, "knee", q)[1]
<1>1. /\ t.position.knee \in [{1} -> Int] /\ t.kp.knee \in [{1} -> Int] /\ t.feedforward.knee \in [{1} -> Int]
  BY ContractAssumption DEF Jointwise
<1>2. SignedRatio(k) \in Int /\ k.zero[1] \in Int
  BY KneeTurns
<1>3. DriveTorque(KneeCommand(k, t), KneeToDrive(k, q))[1]
        = t.kp.knee[1] * ((k.zero[1] + SignedRatio(k) * t.position.knee[1])
                            - (k.zero[1] + SignedRatio(k) * q[1]))
            + SignedRatio(k) * t.feedforward.knee[1]
  BY DEF DriveTorque, KneeCommand, KneeToDrive
<1>4. Impedance(t, "knee", q)[1] = t.kp.knee[1] * (t.position.knee[1] - q[1]) + t.feedforward.knee[1]
  BY DEF Impedance, Axes
<1>5. /\ t.position.knee[1] \in Int /\ t.kp.knee[1] \in Int /\ t.feedforward.knee[1] \in Int /\ q[1] \in Int
  BY <1>1
<1> QED BY ONLY <1>2, <1>3, <1>4, <1>5, KneeImpedance

\* The matrix of a pair with the polarity of its encoders.
LEMMA MatrixTypes ==
  ASSUME NEW p \in PairRecords
  PROVE  /\ Matrix(p) \in [{1, 2} -> [{1, 2} -> Int]]
         /\ Det(Matrix(p)) \in Int
         /\ \A i \in {1, 2}, j \in {1, 2} : Matrix(p)[i][j] = p.encoder[i] * p.matrix[i][j]
<1>1. ASSUME NEW i \in {1, 2}, NEW j \in {1, 2}
      PROVE  p.encoder[i] * p.matrix[i][j] \in Int
  <2>1. p.encoder[i] \in Int /\ p.matrix[i][j] \in Int
    BY DEF PairRecords
  <2> QED BY <2>1
<1>2. Matrix(p) \in [{1, 2} -> [{1, 2} -> Int]]
  BY <1>1 DEF Matrix
<1>3. \A i \in {1, 2}, j \in {1, 2} : Matrix(p)[i][j] = p.encoder[i] * p.matrix[i][j]
  BY DEF Matrix
<1>4. Det(Matrix(p)) \in Int
  BY <1>2 DEF Det
<1> QED BY <1>2, <1>3, <1>4

LEMMA AdjugateRows ==
  ASSUME NEW m
  PROVE  /\ Adjugate(m)[1][1] = m[2][2] /\ Adjugate(m)[1][2] = -m[1][2]
         /\ Adjugate(m)[2][1] = -m[2][1] /\ Adjugate(m)[2][2] = m[1][1]
BY DEF Adjugate

\* Torques of the motors that are the adjugate of what is meant for the joints.
LEMMA PairFeels ==
  ASSUME NEW m \in [{1, 2} -> [{1, 2} -> Int]], NEW meant,
         meant[1] \in Int, meant[2] \in Int, NEW torque,
         \A i \in {1, 2} : torque[i] = Det(m) * Transposed(Adjugate(m), meant)[i],
         NEW j \in {1, 2}
  PROVE  Transposed(m, torque)[j] = Det(m) * Det(m) * meant[j]
<1>1. /\ m[1][1] \in Int /\ m[1][2] \in Int /\ m[2][1] \in Int /\ m[2][2] \in Int
  OBVIOUS
<1>2. Det(m) \in Int /\ Det(m) = m[1][1] * m[2][2] - m[1][2] * m[2][1]
  BY <1>1 DEF Det
<1>3. /\ torque[1] = Det(m) * (m[2][2] * meant[1] + (-m[2][1]) * meant[2])
      /\ torque[2] = Det(m) * ((-m[1][2]) * meant[1] + m[1][1] * meant[2])
  BY AdjugateRows DEF Transposed
<1>4. /\ Transposed(m, torque)[1] = m[1][1] * torque[1] + m[2][1] * torque[2]
      /\ Transposed(m, torque)[2] = m[1][2] * torque[1] + m[2][2] * torque[2]
  BY DEF Transposed
<1>5. /\ Transposed(m, torque)[1] = Det(m) * Det(m) * meant[1]
      /\ Transposed(m, torque)[2] = Det(m) * Det(m) * meant[2]
  BY ONLY <1>1, <1>2, <1>3, <1>4, meant[1] \in Int, meant[2] \in Int, TorquesReachTheJoints
<1> QED BY <1>5

LEMMA ClippedIsWhole ==
  ASSUME NEW x \in Int, NEW limit \in Int
  PROVE  Clipped(x, limit) \in Int
<1>1. Min({limit, x}) \in Int
  <2>1. \E y \in {limit, x} : \A z \in {limit, x} : y <= z
    OBVIOUS
  <2> QED BY <2>1 DEF Min
<1>2. ASSUME NEW w \in Int PROVE Max({-limit, w}) \in Int
  <2>1. \E y \in {-limit, w} : \A z \in {-limit, w} : y >= z
    OBVIOUS
  <2> QED BY <2>1 DEF Max
<1> QED BY <1>1, <1>2 DEF Clipped

\* What a target asks of the joints of a pair.
LEMMA PairAsks ==
  ASSUME NEW t \in Goals, NEW g \in Pairs, NEW q \in [{1, 2} -> Int], NEW i \in {1, 2}
  PROVE  /\ t.position[g] \in [{1, 2} -> Int]
         /\ t.kp[g][i] \in Int /\ t.position[g][i] \in Int /\ t.feedforward[g][i] \in Int
         /\ Impedance(t, g, q)[i] = t.kp[g][i] * (t.position[g][i] - q[i]) + t.feedforward[g][i]
         /\ Impedance(t, g, q)[i] \in Int
<1>1. /\ t.position \in Jointwise(Int) /\ t.kp \in Jointwise(Int) /\ t.feedforward \in Jointwise(Int)
  BY ContractAssumption
<1>2. ASSUME NEW v \in Jointwise(Int) PROVE v[g] \in [{1, 2} -> Int]
  BY <1>2 DEF Jointwise, Pairs
<1>3. /\ t.position[g] \in [{1, 2} -> Int] /\ t.kp[g] \in [{1, 2} -> Int]
      /\ t.feedforward[g] \in [{1, 2} -> Int]
  BY <1>1, <1>2
<1>4. /\ t.kp[g][i] \in Int /\ t.position[g][i] \in Int /\ t.feedforward[g][i] \in Int /\ q[i] \in Int
  BY <1>3
<1>5. Impedance(t, g, q)[i] = t.kp[g][i] * (t.position[g][i] - q[i]) + t.feedforward[g][i]
  BY DEF Impedance, Axes, Pairs
<1> QED BY <1>3, <1>4, <1>5

\* The ankles feel the clipped impedance: their drives hold no gain of their
\* own (_ankle_commands).
LEMMA AnkleFeels ==
  ASSUME NEW p \in PairRecords, NEW t \in Goals, NEW q \in [{1, 2} -> Int], NEW i \in {1, 2}
  PROVE  Transposed(Matrix(p), DriveTorque(AnkleCommands(p, t, q, PairToDrive(p, q)), PairToDrive(p, q)))[i]
           = Det(Matrix(p)) * Det(Matrix(p)) * Clipped(Impedance(t, "ankle", q)[i], EffortLimit)
<1> DEFINE m == Matrix(p)
           d == PairToDrive(p, q)
           limited == [j \in {1, 2} |-> Clipped(Impedance(t, "ankle", q)[j], EffortLimit)]
           torque == DriveTorque(AnkleCommands(p, t, q, d), d)
<1>1. m \in [{1, 2} -> [{1, 2} -> Int]] /\ Det(m) \in Int
  BY MatrixTypes
<1>2. ASSUME NEW j \in {1, 2} PROVE limited[j] \in Int
  <2>1. Impedance(t, "ankle", q)[j] \in Int
    BY PairAsks DEF Pairs
  <2>2. EffortLimit \in Int
    BY ContractAssumption
  <2>3. Clipped(Impedance(t, "ankle", q)[j], EffortLimit) \in Int
    BY <2>1, <2>2, ClippedIsWhole
  <2> QED BY <2>3
<1>3. ASSUME NEW j \in {1, 2} PROVE torque[j] = Det(m) * Transposed(Adjugate(m), limited)[j]
  <2>1. d[j] \in Int
    <3>1. /\ p.zero[j] \in Int /\ p.offset[j] \in Int /\ p.encoder[j] \in Int
          /\ p.matrix[j][1] \in Int /\ p.matrix[j][2] \in Int /\ q[1] \in Int /\ q[2] \in Int
      BY PairTypes
    <3> QED BY <3>1 DEF PairToDrive, Canonical
  <2>2. DOMAIN d = {1, 2}
    BY DEF PairToDrive
  <2>3. torque[j] = 0 * (d[j] - d[j]) + Det(m) * Transposed(Adjugate(m), limited)[j]
    BY <2>2 DEF DriveTorque, AnkleCommands
  <2>4. Transposed(Adjugate(m), limited)[j] \in Int
    <3>1. limited[1] \in Int /\ limited[2] \in Int
      BY <1>2
    <3>2. \A a, b \in {1, 2} : Adjugate(m)[a][b] \in Int
      BY <1>1, AdjugateRows
    <3> HIDE DEF limited, m
    <3> QED BY <3>1, <3>2 DEF Transposed
  <2>5. PICK w \in Int : w = Det(m) * Transposed(Adjugate(m), limited)[j]
    BY <1>1, <2>4
  <2> QED BY <2>1, <2>3, <2>5
<1> HIDE DEF limited, torque, m
<1>4. Transposed(m, torque)[i] = Det(m) * Det(m) * limited[i]
  BY <1>1, <1>2, <1>3, PairFeels
<1> QED BY <1>4 DEF limited, torque, m

\* The rows of the drives' gains and of the host's share, put together.
LEMMA HeadTorques ==
  ASSUME NEW a \in Int, NEW b \in Int, NEW c \in Int, NEW d \in Int, NEW k \in Int, NEW l \in Int,
         NEW x \in Int, NEW y \in Int, NEW f \in Int, NEW h \in Int,
         NEW e \in Int, e = a * d - b * c
  PROVE  LET u == a * x + b * y
             v == c * x + d * y
         IN /\ (d * k * d + (-c) * l * (-c)) * u
                 + ((d * k * (-b) + (-c) * l * a) * v + e * (d * f + (-c) * h))
                 = e * (d * (k * x + f) + (-c) * (l * y + h))
            /\ ((-b) * k * (-b) + a * l * a) * v
                 + (((-b) * k * d + a * l * (-c)) * u + e * ((-b) * f + a * h))
                 = e * ((-b) * (k * x + f) + a * (l * y + h))
<1> DEFINE u == a * x + b * y
           v == c * x + d * y
<1>1. d * u + (-b) * v = e * x /\ (-c) * u + a * v = e * y
  BY AdjugateTurnsBack
<1>2. u \in Int /\ v \in Int
  OBVIOUS
<1> HIDE DEF u, v
<1>3. (d * k * d + (-c) * l * (-c)) * u + (d * k * (-b) + (-c) * l * a) * v
        = d * (k * (d * u + (-b) * v)) + (-c) * (l * ((-c) * u + a * v))
  BY <1>2
<1>4. ((-b) * k * (-b) + a * l * a) * v + ((-b) * k * d + a * l * (-c)) * u
        = (-b) * (k * (d * u + (-b) * v)) + a * (l * ((-c) * u + a * v))
  BY <1>2
<1>5. d * (k * (e * x)) + (-c) * (l * (e * y)) + e * (d * f + (-c) * h)
        = e * (d * (k * x + f) + (-c) * (l * y + h))
  OBVIOUS
<1>6. (-b) * (k * (e * x)) + a * (l * (e * y)) + e * ((-b) * f + a * h)
        = e * ((-b) * (k * x + f) + a * (l * y + h))
  OBVIOUS
<1>7. (d * k * d + (-c) * l * (-c)) * u
        + ((d * k * (-b) + (-c) * l * a) * v + e * (d * f + (-c) * h))
        = e * (d * (k * x + f) + (-c) * (l * y + h))
  BY <1>1, <1>2, <1>3, <1>5
<1>8. ((-b) * k * (-b) + a * l * a) * v
        + (((-b) * k * d + a * l * (-c)) * u + e * ((-b) * f + a * h))
        = e * ((-b) * (k * x + f) + a * (l * y + h))
  BY <1>1, <1>2, <1>4, <1>6
<1> QED BY <1>7, <1>8 DEF u, v

\* The heads feel the impedance, though each drive knows its own error only
\* (joint_impedance_to_drive_commands).
LEMMA HeadFeels ==
  ASSUME NEW p \in PairRecords, NEW t \in Goals, NEW q \in [{1, 2} -> Int], NEW i \in {1, 2}
  PROVE  Transposed(Matrix(p), DriveTorque(HeadCommands(p, t, q), PairToDrive(p, q)))[i]
           = Det(Matrix(p)) * Det(Matrix(p)) * Impedance(t, "head", q)[i]
<1> DEFINE m == Matrix(p)
           n == Adjugate(m)
           d == PairToDrive(p, q)
           desired == PairToDrive(p, t.position.head)
           meant == Impedance(t, "head", q)
           torque == DriveTorque(HeadCommands(p, t, q), d)
           dx == t.position.head[1] - q[1]
           dy == t.position.head[2] - q[2]
           k == t.kp.head[1]
           l == t.kp.head[2]
           f == t.feedforward.head[1]
           h == t.feedforward.head[2]
<1>1. m \in [{1, 2} -> [{1, 2} -> Int]] /\ Det(m) \in Int
  BY MatrixTypes
<1>2. /\ t.position.head[1] \in Int /\ t.position.head[2] \in Int /\ k \in Int /\ l \in Int
      /\ f \in Int /\ h \in Int /\ q[1] \in Int /\ q[2] \in Int
  BY PairAsks DEF Pairs
<1>3. dx \in Int /\ dy \in Int
  BY <1>2
<1>4. meant[1] = k * dx + f /\ meant[2] = l * dy + h
  BY PairAsks DEF Pairs
<1>5. ASSUME NEW j \in {1, 2}
      PROVE  desired[j] - d[j] = m[j][1] * dx + m[j][2] * dy
  <2>1. /\ p.zero[j] \in Int /\ p.offset[j] \in Int /\ p.encoder[j] \in {1, -1}
        /\ p.matrix[j][1] \in Int /\ p.matrix[j][2] \in Int
    BY PairTypes
  <2>2. /\ m[j][1] = p.encoder[j] * p.matrix[j][1]
        /\ m[j][2] = p.encoder[j] * p.matrix[j][2]
    BY MatrixTypes
  <2>3. desired[j] = p.zero[j] + p.encoder[j]
          * (p.matrix[j][1] * t.position.head[1] + p.matrix[j][2] * t.position.head[2] + p.offset[j])
    BY DEF PairToDrive, Canonical
  <2>4. d[j] = p.zero[j] + p.encoder[j] * (p.matrix[j][1] * q[1] + p.matrix[j][2] * q[2] + p.offset[j])
    BY DEF PairToDrive, Canonical
  <2> HIDE DEF m, d, desired
  <2> QED BY <1>2, <2>1, <2>2, <2>3, <2>4
<1>6. DOMAIN d = {1, 2}
  BY DEF PairToDrive
<1>7. torque[1] = (n[1][1] * k * n[1][1] + n[2][1] * l * n[2][1]) * (desired[1] - d[1])
        + ((n[1][1] * k * n[1][2] + n[2][1] * l * n[2][2]) * (desired[2] - d[2])
            + Det(m) * (n[1][1] * f + n[2][1] * h))
  BY <1>6 DEF DriveTorque, HeadCommands, Transposed
<1>8. torque[2] = (n[1][2] * k * n[1][2] + n[2][2] * l * n[2][2]) * (desired[2] - d[2])
        + ((n[1][2] * k * n[1][1] + n[2][2] * l * n[2][1]) * (desired[1] - d[1])
            + Det(m) * (n[1][2] * f + n[2][2] * h))
  BY <1>6 DEF DriveTorque, HeadCommands, Transposed
<1>9. /\ m[1][1] \in Int /\ m[1][2] \in Int /\ m[2][1] \in Int /\ m[2][2] \in Int
      /\ Det(m) = m[1][1] * m[2][2] - m[1][2] * m[2][1]
  BY <1>1 DEF Det
<1>10. /\ n[1][1] = m[2][2] /\ n[1][2] = -m[1][2] /\ n[2][1] = -m[2][1] /\ n[2][2] = m[1][1]
  BY AdjugateRows
<1>11. /\ desired[1] - d[1] = m[1][1] * dx + m[1][2] * dy
       /\ desired[2] - d[2] = m[2][1] * dx + m[2][2] * dy
  BY <1>5
<1>12. /\ Transposed(n, meant)[1] = n[1][1] * meant[1] + n[2][1] * meant[2]
       /\ Transposed(n, meant)[2] = n[1][2] * meant[1] + n[2][2] * meant[2]
  BY DEF Transposed
<1> HIDE DEF m, n, d, desired, meant, torque, dx, dy, k, l, f, h
<1>13. /\ torque[1] = Det(m) * Transposed(n, meant)[1]
       /\ torque[2] = Det(m) * Transposed(n, meant)[2]
  BY ONLY <1>1, <1>2, <1>3, <1>4, <1>7, <1>8, <1>9, <1>10, <1>11, <1>12, HeadTorques
<1>14. meant[1] \in Int /\ meant[2] \in Int
  BY <1>2, <1>3, <1>4
<1>15. Transposed(m, torque)[i] = Det(m) * Det(m) * meant[i]
  BY <1>1, <1>13, <1>14, PairFeels DEF n
<1> QED BY <1>15 DEF m, torque, meant, d

------------------------------------------------------------------------------
(* The hardware contract: the limits of the motors.                         *)

\* A product with a factor between two bounds.
LEMMA ProductBetween ==
  ASSUME NEW a \in Int, NEW x \in Int, NEW low \in Int, NEW high \in Int, low <= x, x <= high
  PROVE  \/ a * low <= a * x /\ a * x <= a * high
         \/ a * high <= a * x /\ a * x <= a * low
<1>1. CASE a >= 0
  <2>1. a * (x - low) >= 0 /\ a * (high - x) >= 0
    BY <1>1
  <2> QED BY <2>1
<1>2. CASE ~(a >= 0)
  <2>1. (-a) * (x - low) >= 0 /\ (-a) * (high - x) >= 0
    BY <1>2
  <2> QED BY <2>1
<1> QED BY <1>1, <1>2

\* The bounds of a few whole numbers.
LEMMA BoundsHold ==
  ASSUME NEW a \in Int, NEW b \in Int, NEW c \in Int, NEW d \in Int, NEW S, S = {a, b, c, d}
  PROVE  /\ Bounds(S)[1] \in Int /\ Bounds(S)[2] \in Int
         /\ \A x \in S : Bounds(S)[1] <= x /\ x <= Bounds(S)[2]
<1>1. Min(S) \in S /\ \A x \in S : Min(S) <= x
  <2>1. \E x \in S : \A y \in S : x <= y
    OBVIOUS
  <2> QED BY <2>1 DEF Min
<1>2. Max(S) \in S /\ \A x \in S : Max(S) >= x
  <2>1. \E x \in S : \A y \in S : x >= y
    OBVIOUS
  <2> QED BY <2>1 DEF Max
<1>3. Min(S) \in Int /\ Max(S) \in Int /\ \A x \in S : x \in Int
  BY <1>1, <1>2
<1> QED BY <1>1, <1>2, <1>3 DEF Bounds

LEMMA RangesAreWhole == PositionMax \subseteq Int
<1>1. PositionMax \subseteq Nat
  BY ContractAssumption
<1> QED BY <1>1

\* The soft limits of a joint.
LEMMA SoftJointTypes ==
  ASSUME NEW g \in Groups, NEW i \in Axes(g)
  PROVE  SoftJoint(g, i)[1] \in Int /\ SoftJoint(g, i)[2] \in Int
<1>1. Urdf[g][i] \in Int \X Int
  BY ContractAssumption DEF Jointwise, Groups, Pairs, Axes
<1>2. Urdf[g][i][1] \in Int /\ Urdf[g][i][2] \in Int
  BY <1>1
<1>3. SoftMargin \in Int
  BY ContractAssumption
<1>4. CASE <<g, i>> \in DOMAIN SoftOverrides
  <2>1. SoftOverrides[<<g, i>>] \in Int \X Int
    BY <1>4, ContractAssumption
  <2> QED BY <1>4, <2>1 DEF SoftJoint
<1>5. CASE <<g, i>> \notin DOMAIN SoftOverrides
  BY <1>2, <1>3, <1>5 DEF SoftJoint
<1> QED BY <1>4, <1>5

\* The ends of the knee and the corners of a pair.
LEMMA KneeCorners ==
  Corners(SoftJoints("knee")) = {<<x>> : x \in {SoftJoint("knee", 1)[1], SoftJoint("knee", 1)[2]}}
<1>1. SoftJoints("knee") = [i \in {1} |-> SoftJoint("knee", i)]
  BY DEF SoftJoints, Axes
<1> DEFINE one == <<SoftJoint("knee", 1)>>
<1>2. SoftJoints("knee") = one
  BY <1>1
<1>3. Len(one) = 1 /\ one[1] = SoftJoint("knee", 1)
  OBVIOUS
<1> HIDE DEF one
<1> QED BY <1>2, <1>3 DEF Corners

LEMMA PairCorners ==
  ASSUME NEW g \in Pairs
  PROVE  Corners(SoftJoints(g)) =
           {<<x, y>> : x \in {SoftJoint(g, 1)[1], SoftJoint(g, 1)[2]},
                       y \in {SoftJoint(g, 2)[1], SoftJoint(g, 2)[2]}}
<1>1. SoftJoints(g) = [i \in {1, 2} |-> SoftJoint(g, i)]
  BY DEF SoftJoints, Axes, Pairs
<1> DEFINE two == <<SoftJoint(g, 1), SoftJoint(g, 2)>>
<1>2. SoftJoints(g) = two
  BY <1>1
<1>3. Len(two) = 2 /\ two[1] = SoftJoint(g, 1) /\ two[2] = SoftJoint(g, 2)
  OBVIOUS
<1> HIDE DEF two
<1> QED BY <1>2, <1>3 DEF Corners

\* The polarity of an encoder, brought into its row.
LEMMA Polarity ==
  ASSUME NEW e \in {1, -1}, NEW z \in Int, NEW o \in Int, NEW m \in Int, NEW n \in Int,
         NEW x \in Int, NEW y \in Int
  PROVE  z + e * (m * x + n * y + o) = (z + e * o) + (e * m) * x + (e * n) * y
OBVIOUS

\* What a motor of a pair is driven to.
LEMMA PairRow ==
  ASSUME NEW p \in PairRecords, NEW i \in {1, 2}, NEW x \in Int, NEW y \in Int, NEW q, q[1] = x, q[2] = y
  PROVE  /\ p.zero[i] + p.encoder[i] * p.offset[i] \in Int
         /\ p.encoder[i] * p.matrix[i][1] \in Int /\ p.encoder[i] * p.matrix[i][2] \in Int
         /\ PairToDrive(p, q)[i] = (p.zero[i] + p.encoder[i] * p.offset[i])
              + (p.encoder[i] * p.matrix[i][1]) * x + (p.encoder[i] * p.matrix[i][2]) * y
<1>1. /\ p.zero[i] \in Int /\ p.offset[i] \in Int /\ p.encoder[i] \in {1, -1}
      /\ p.matrix[i][1] \in Int /\ p.matrix[i][2] \in Int
  BY PairTypes
<1>2. PairToDrive(p, q)[i]
        = p.zero[i] + p.encoder[i] * (p.matrix[i][1] * x + p.matrix[i][2] * y + p.offset[i])
  BY DEF PairToDrive, Canonical
<1>3. /\ p.zero[i] + p.encoder[i] * p.offset[i] \in Int
      /\ p.encoder[i] * p.matrix[i][1] \in Int /\ p.encoder[i] * p.matrix[i][2] \in Int
  BY <1>1
<1> DEFINE e == p.encoder[i]
           z == p.zero[i]
           o == p.offset[i]
           m == p.matrix[i][1]
           n == p.matrix[i][2]
<1>4. e \in {1, -1} /\ z \in Int /\ o \in Int /\ m \in Int /\ n \in Int
  BY <1>1
<1>5. PairToDrive(p, q)[i] = z + e * (m * x + n * y + o)
  BY <1>2
<1> HIDE DEF e, z, o, m, n
<1>6. PairToDrive(p, q)[i] = (z + e * o) + (e * m) * x + (e * n) * y
  BY ONLY <1>4, <1>5, x \in Int, y \in Int, Polarity
<1> QED BY <1>3, <1>6 DEF e, z, o, m, n

\* A pose within the soft limits of the joints of a pair moves no motor out
\* of the box of its corners (derive_limit_candidates).
LEMMA PairBox ==
  ASSUME NEW c, NEW g \in Pairs, c[g] \in PairRecords, NEW i \in {1, 2},
         NEW box, box = MotorBox(c, g, i, SoftJoints(g))
  PROVE  /\ box[1] \in Int /\ box[2] \in Int
         /\ \A q \in LegalPoses(g) : box[1] <= ToDrive(c, g, q)[i] /\ ToDrive(c, g, q)[i] <= box[2]
<1> DEFINE p == c[g]
           driven(x, y) == PairToDrive(p, <<x, y>>)[i]
           k == p.zero[i] + p.encoder[i] * p.offset[i]
           a == p.encoder[i] * p.matrix[i][1]
           b == p.encoder[i] * p.matrix[i][2]
           left == SoftJoint(g, 1)[1]
           right == SoftJoint(g, 1)[2]
           low == SoftJoint(g, 2)[1]
           high == SoftJoint(g, 2)[2]
<1>1. left \in Int /\ right \in Int /\ low \in Int /\ high \in Int
  BY SoftJointTypes DEF Groups, Axes, Pairs
<1>2. /\ k \in Int /\ a \in Int /\ b \in Int
      /\ \A x \in Int, y \in Int : driven(x, y) = k + a * x + b * y
  <2>1. ASSUME NEW x \in Int, NEW y \in Int
        PROVE  k \in Int /\ a \in Int /\ b \in Int /\ driven(x, y) = k + a * x + b * y
    <3> DEFINE q == <<x, y>>
    <3>1. q[1] = x /\ q[2] = y
      OBVIOUS
    <3> HIDE DEF q
    <3>2. PairToDrive(p, q)[i] = k + a * x + b * y /\ k \in Int /\ a \in Int /\ b \in Int
      BY <3>1, PairRow
    <3> QED BY <3>2 DEF q
  <2> HIDE DEF driven, k, a, b
  <2>2. 0 \in Int
    OBVIOUS
  <2> QED BY <2>1, <2>2
<1>3. \A q : ToDrive(c, g, q) = PairToDrive(p, q)
  BY DEF ToDrive, Pairs
<1> DEFINE S == {ToDrive(c, g, q)[i] : q \in Corners(SoftJoints(g))}
<1>4. S = {driven(left, low), driven(left, high), driven(right, low), driven(right, high)}
  <2>1. S = {driven(x, y) : x \in {left, right}, y \in {low, high}}
    BY <1>3, PairCorners
  <2> HIDE DEF driven, left, right, low, high, S
  <2> QED BY <2>1
<1> HIDE DEF driven, k, a, b, left, right, low, high
<1>5. \A x \in Int, y \in Int : driven(x, y) \in Int
  BY <1>2
<1>6. box = Bounds(S)
  BY DEF MotorBox
<1> HIDE DEF S
<1>7. box[1] \in Int /\ box[2] \in Int /\ \A x \in S : box[1] <= x /\ x <= box[2]
  BY <1>1, <1>4, <1>5, <1>6, BoundsHold
<1>8. ASSUME NEW u \in {left, right}, NEW v \in {low, high}
      PROVE  box[1] <= k + a * u + b * v /\ k + a * u + b * v <= box[2]
  <2>1. driven(u, v) \in S
    BY <1>4
  <2>2. driven(u, v) = k + a * u + b * v
    BY <1>1, <1>2
  <2> QED BY <1>7, <2>1, <2>2
<1>9. ASSUME NEW q \in LegalPoses(g)
      PROVE  box[1] <= ToDrive(c, g, q)[i] /\ ToDrive(c, g, q)[i] <= box[2]
  <2>1. q \in (left .. right) \X (low .. high)
    BY DEF LegalPoses, Pairs, left, right, low, high
  <2>2. PICK x \in left .. right, y \in low .. high : q = <<x, y>>
    BY <2>1
  <2>3. x \in Int /\ y \in Int /\ left <= x /\ x <= right /\ low <= y /\ y <= high
    BY <1>1
  <2>4. box[1] <= k + a * x + b * y /\ k + a * x + b * y <= box[2]
    <3>1. /\ box[1] <= k + a * left + b * low /\ k + a * left + b * low <= box[2]
          /\ box[1] <= k + a * left + b * high /\ k + a * left + b * high <= box[2]
          /\ box[1] <= k + a * right + b * low /\ k + a * right + b * low <= box[2]
          /\ box[1] <= k + a * right + b * high /\ k + a * right + b * high <= box[2]
      BY <1>8
    <3>2. /\ \/ a * left <= a * x /\ a * x <= a * right
             \/ a * right <= a * x /\ a * x <= a * left
          /\ \/ b * low <= b * y /\ b * y <= b * high
             \/ b * high <= b * y /\ b * y <= b * low
      BY <1>1, <1>2, <2>3, ProductBetween
    <3>3. PICK ax \in Int, al \in Int, ar \in Int, by \in Int, bl \in Int, bh \in Int :
            /\ ax = a * x /\ al = a * left /\ ar = a * right
            /\ by = b * y /\ bl = b * low /\ bh = b * high
      BY <1>1, <1>2, <2>3
    <3>4. k \in Int
      BY <1>2
    <3> QED BY ONLY <1>7, <3>1, <3>2, <3>3, <3>4
  <2> QED BY <1>2, <1>3, <2>2, <2>3, <2>4 DEF driven
<1> QED BY <1>7, <1>9

\* The ends of the knee bound what lies between them as well.
LEMMA KneeBox ==
  ASSUME NEW c, c.knee \in KneeRecords, NEW box, box = MotorBox(c, "knee", 1, SoftJoints("knee"))
  PROVE  /\ box[1] \in Int /\ box[2] \in Int
         /\ \A q \in LegalPoses("knee") :
              box[1] <= ToDrive(c, "knee", q)[1] /\ ToDrive(c, "knee", q)[1] <= box[2]
<1> DEFINE z == c.knee.zero[1]
           a == SignedRatio(c.knee)
           left == SoftJoint("knee", 1)[1]
           right == SoftJoint("knee", 1)[2]
           S == {ToDrive(c, "knee", q)[1] : q \in Corners(SoftJoints("knee"))}
<1>1. left \in Int /\ right \in Int
  BY SoftJointTypes DEF Groups, Axes
<1>2. z \in Int /\ a \in Int
  BY KneeTurns
<1>3. \A x : ToDrive(c, "knee", <<x>>)[1] = z + a * x
  BY DEF ToDrive, KneeToDrive
<1>4. S = {z + a * left, z + a * right}
  <2>1. S = {ToDrive(c, "knee", <<x>>)[1] : x \in {left, right}}
    BY KneeCorners
  <2> HIDE DEF z, a, left, right, S
  <2> QED BY <1>3, <2>1
<1> HIDE DEF z, a, left, right
<1>5. z + a * left \in Int /\ z + a * right \in Int
  BY <1>1, <1>2
<1>6. box = Bounds(S)
  BY DEF MotorBox
<1> HIDE DEF S
<1>7. box[1] \in Int /\ box[2] \in Int /\ \A x \in S : box[1] <= x /\ x <= box[2]
  <2>1. S = {z + a * left, z + a * right, z + a * left, z + a * right}
    BY <1>4
  <2> QED BY <1>5, <1>6, <2>1, BoundsHold
<1>8. ASSUME NEW q \in LegalPoses("knee")
      PROVE  box[1] <= ToDrive(c, "knee", q)[1] /\ ToDrive(c, "knee", q)[1] <= box[2]
  <2>1. PICK x \in left .. right : q = <<x>>
    BY DEF LegalPoses, left, right
  <2>2. x \in Int /\ left <= x /\ x <= right
    BY <1>1
  <2>3. \/ a * left <= a * x /\ a * x <= a * right
        \/ a * right <= a * x /\ a * x <= a * left
    BY <1>1, <1>2, <2>2, ProductBetween
  <2>4. PICK ax \in Int, al \in Int, ar \in Int : ax = a * x /\ al = a * left /\ ar = a * right
    BY <1>1, <1>2, <2>2
  <2>5. ToDrive(c, "knee", q)[1] = z + ax
    BY <1>3, <2>1, <2>4
  <2>6. box[1] <= z + al /\ z + al <= box[2] /\ box[1] <= z + ar /\ z + ar <= box[2]
    BY <1>4, <1>7, <2>4
  <2>7. box[1] <= z + ax /\ z + ax <= box[2]
    BY ONLY <1>2, <1>7, <2>3, <2>4, <2>6
  <2> QED BY <2>5, <2>7
<1> QED BY <1>7, <1>8

\* The calibrations a report can be made of.
Reports == DOMAIN MotorLimits

LEMMA ReportsAreBuilt == Reports = {i \in DOMAIN Calibrations : MapBuilt(i)}
BY DEF Reports, MotorLimits

\* The soft limits of a report hold every legal pose, of every motor.
LEMMA ReportHoldsPoses ==
  ASSUME NEW r \in Reports, NEW g \in Groups, NEW i \in Axes(g)
  PROVE  LET soft == MotorLimits[r][g][i].soft
         IN /\ soft[1] \in Int /\ soft[2] \in Int
            /\ \A q \in LegalPoses(g) :
                 soft[1] <= ToDrive(Calibrations[r], g, q)[i] /\ ToDrive(Calibrations[r], g, q)[i] <= soft[2]
<1> DEFINE c == Calibrations[r]
           soft == MotorLimits[r][g][i].soft
<1>1. r \in DOMAIN Calibrations /\ MapBuilt(r)
  BY ReportsAreBuilt
<1>2. soft = MotorBox(c, g, i, SoftJoints(g))
  BY <1>1 DEF MotorLimits
<1>3. CASE g = "knee"
  <2>1. c.knee \in KneeRecords /\ i = 1
    BY <1>1, <1>3, BuiltCalibration DEF Axes
  <2> HIDE DEF soft, c
  <2> QED BY <1>2, <1>3, <2>1, KneeBox DEF soft, c
<1>4. CASE g \in Pairs
  <2>1. c[g] \in PairRecords /\ i \in {1, 2}
    BY <1>1, <1>4, BuiltCalibration DEF Axes, Pairs
  <2> HIDE DEF soft, c
  <2> QED BY <1>2, <1>4, <2>1, PairBox DEF soft, c
<1> QED BY <1>3, <1>4 DEF Groups

LEMMA LimitsAreWhole ==
  ASSUME NEW r \in Reports, NEW l \in LimitsOf(r)
  PROVE  l.soft[1] \in Int /\ l.soft[2] \in Int
<1>1. PICK g \in Groups : \E i \in Axes(g) : l = MotorLimits[r][g][i]
  BY DEF LimitsOf
<1>2. PICK i \in Axes(g) : l = MotorLimits[r][g][i]
  BY <1>1
<1> QED BY <1>2, ReportHoldsPoses

------------------------------------------------------------------------------
(* The hardware contract: what the sheet, its files and a runtime hold.     *)

SheetTypes ==
  /\ sheet \in [configured : BOOLEAN, filled : SUBSET Blocks, calibration : {0} \union DOMAIN Calibrations,
                range : {0} \union PositionMax, readback : BOOLEAN, limits : {0} \union Reports]
  /\ derived \in {0} \union Reports
  /\ native \in [motors : {0} \union Reports, range : {0} \union PositionMax,
                 kinematics : {0} \union Reports, joints : {0} \union Reports]
  /\ native.motors # 0 => native.range \in PositionMax

\* A runtime maps with a calibration a map is built of, and the limits of its
\* motors, of whatever report, are within their range.
RuntimeTypes ==
  runtime.kind # "none" =>
    /\ runtime.calibration \in Reports /\ runtime.limits \in Reports /\ runtime.range \in PositionMax
    /\ \A l \in LimitsOf(runtime.limits) : -runtime.range <= l.soft[1] /\ l.soft[2] <= runtime.range

FrameOfRuntime ==
  /\ goal = NoGoal \/ goal \in Goals
  /\ frame.kind = "frame" => runtime.kind = "python"

\* The promise, of a frame whether or not it encodes.
FramesCarry ==
  frame.kind = "frame" =>
    \A g \in DOMAIN frame.commands : \A i \in Axes(g) :
      TorqueAtJoints(Calibrations[runtime.calibration], g,
                     DriveTorque(frame.commands[g],
                                 ToDrive(Calibrations[runtime.calibration], g, frame.posture[g])))[i]
        = Square(Calibrations[runtime.calibration], g)
            * (IF g = "ankle" THEN Clipped(Impedance(frame.goal, g, frame.posture[g])[i], EffortLimit)
                              ELSE Impedance(frame.goal, g, frame.posture[g])[i])

ContractInv ==
  /\ bench = "contract" => SheetTypes
  /\ RuntimeTypes /\ FrameOfRuntime /\ FramesCarry

LEMMA ContractStart == Init => ContractInv
<1>1. NoContract => RuntimeTypes /\ FrameOfRuntime /\ FramesCarry
  BY DEF NoContract, RuntimeTypes, FrameOfRuntime, FramesCarry, NoRuntime, NoGoal, NoFrame
<1>2. ContractInit => SheetTypes /\ RuntimeTypes /\ FrameOfRuntime /\ FramesCarry
  BY DEF ContractInit, SheetTypes, RuntimeTypes, FrameOfRuntime, FramesCarry,
         NoRuntime, NoGoal, NoFrame, Template, NoFiles, Blocks
<1> QED BY <1>1, <1>2 DEF Init, ContractInv

\* The tools that work on the sheet and its files.
LEMMA SheetToolsKeepTypes ==
  ASSUME SheetTypes,
         HardwareTemplate \/ FillsIn \/ ApplyNameplates \/ Calibrates \/ RangesEntered \/ Configures
  PROVE  SheetTypes'
<1>1. sheet' \in [configured : BOOLEAN, filled : SUBSET Blocks, calibration : {0} \union DOMAIN Calibrations,
                  range : {0} \union PositionMax, readback : BOOLEAN, limits : {0} \union Reports]
  <2> USE DEF SheetTypes
  <2>1. CASE HardwareTemplate
    BY <2>1 DEF HardwareTemplate, Template, Blocks
  <2>2. CASE FillsIn
    BY <2>2 DEF FillsIn
  <2>3. CASE ApplyNameplates
    BY <2>3 DEF ApplyNameplates, Blocks
  <2>4. CASE Calibrates
    BY <2>4 DEF Calibrates
  <2>5. CASE RangesEntered
    BY <2>5 DEF RangesEntered
  <2>6. CASE Configures
    BY <2>6 DEF Configures
  <2> QED BY <2>1, <2>2, <2>3, <2>4, <2>5, <2>6
<1>2. UNCHANGED <<derived, native>>
  BY DEF HardwareTemplate, FillsIn, ApplyNameplates, Calibrates, RangesEntered, Configures, SheetOnly
<1> QED BY <1>1, <1>2 DEF SheetTypes, Reports, MotorLimits

LEMMA ReportToolsKeepTypes ==
  ASSUME SheetTypes, DeriveLimits \/ ApplyLimits \/ ExportMotors \/ ExportKinematics \/ ExportJoints
  PROVE  SheetTypes'
<1>1. UNCHANGED Reports
  BY DEF Reports, MotorLimits
<1>2. CASE DeriveLimits
  <2>1. sheet.calibration \in Reports
    BY <1>2, ReportsAreBuilt DEF DeriveLimits, SheetTypes, MapBuilt
  <2> QED BY <1>1, <1>2, <2>1 DEF DeriveLimits, SheetTypes
<1>3. CASE ApplyLimits
  BY <1>1, <1>3 DEF ApplyLimits, SheetOnly, SheetTypes
<1>4. CASE ExportMotors
  BY <1>1, <1>4 DEF ExportMotors, SheetTypes
<1>5. CASE ExportKinematics
  <2>1. sheet.calibration \in Reports
    BY <1>5, ReportsAreBuilt DEF ExportKinematics, SheetTypes, MapBuilt
  <2> QED BY <1>1, <1>5, <2>1 DEF ExportKinematics, SheetTypes
<1>6. CASE ExportJoints
  BY <1>1, <1>6 DEF ExportJoints, SheetTypes
<1> QED BY <1>2, <1>3, <1>4, <1>5, <1>6

\* What loads holds a report of each kind and limits within its range
\* (load_motors, motor_map_from_hardware_config, DamiaoMitCommandProfile).
LEMMA LoadedTypes ==
  ASSUME SheetTypes, NativeLoads \/ PythonLoads
  PROVE  RuntimeTypes'
<1>1. CASE NativeLoads
  <2>1. /\ runtime'.calibration = native.kinematics /\ runtime'.limits = native.motors
        /\ runtime'.range = native.range
    BY <1>1 DEF NativeLoads
  <2>2. native.kinematics \in Reports /\ native.motors \in Reports /\ native.range \in PositionMax
    BY <1>1 DEF NativeLoads, SheetTypes
  <2> DEFINE range == native.range
  <2>3. \A l \in LimitsOf(native.motors) : -range <= l.soft[1] /\ l.soft[2] <= range
    <3>1. <<-range, range>>[1] = -range /\ <<-range, range>>[2] = range
      OBVIOUS
    <3>2. \A l \in LimitsOf(native.motors) : StrictlyWithin(l.soft, <<-range, range>>)
      BY <1>1 DEF NativeLoads
    <3> HIDE DEF range
    <3>3. range \in Int
      BY <2>2, RangesAreWhole DEF range
    <3>4. \A l \in LimitsOf(native.motors) : l.soft[1] \in Int /\ l.soft[2] \in Int
      BY <2>2, LimitsAreWhole
    <3> QED BY <3>1, <3>2, <3>3, <3>4 DEF StrictlyWithin
  <2> QED BY <2>1, <2>2, <2>3 DEF RuntimeTypes, LimitsOf, Reports
<1>2. CASE PythonLoads
  <2>1. /\ runtime'.calibration = sheet.calibration /\ runtime'.limits = sheet.limits
        /\ runtime'.range = sheet.range
    BY <1>2 DEF PythonLoads
  <2>2. sheet.calibration \in Reports
    BY <1>2, ReportsAreBuilt DEF PythonLoads, SheetTypes, MapBuilt
  <2>3. sheet.limits \in Reports /\ sheet.range \in PositionMax
    BY <1>2 DEF PythonLoads, SheetTypes, Armable, InventoryValid, RecordsValid
  <2>4. \A l \in LimitsOf(sheet.limits) : -sheet.range <= l.soft[1] /\ l.soft[2] <= sheet.range
    BY <1>2 DEF PythonLoads
  <2> QED BY <2>1, <2>2, <2>3, <2>4 DEF RuntimeTypes, LimitsOf, Reports
<1> QED BY <1>1, <1>2

\* Any command of a group, at either rate.
LEMMA CommandsFeel ==
  ASSUME NEW r \in Reports, NEW t \in Goals, NEW posture \in Postures,
         NEW g \in Groups, NEW i \in Axes(g)
  PROVE  LET c == Calibrations[r]
             drives == [h \in Groups |-> ToDrive(c, h, posture[h])]
             q == [h \in Groups |-> ToJoint(c, h, drives[h])]
             all == [knee |-> KneeCommand(c.knee, t),
                     ankle |-> AnkleCommands(c.ankle, t, q.ankle, drives.ankle),
                     head |-> HeadCommands(c.head, t, q.head)]
         IN TorqueAtJoints(c, g, DriveTorque(all[g], ToDrive(c, g, posture[g])))[i]
              = Square(c, g) * (IF g = "ankle" THEN Clipped(Impedance(t, g, posture[g])[i], EffortLimit)
                                ELSE Impedance(t, g, posture[g])[i])
<1> DEFINE c == Calibrations[r]
           drives == [h \in Groups |-> ToDrive(c, h, posture[h])]
           q == [h \in Groups |-> ToJoint(c, h, drives[h])]
<1>1. r \in DOMAIN Calibrations /\ MapBuilt(r)
  BY ReportsAreBuilt
<1>2. \A h \in Groups : posture[h] \in [Axes(h) -> Int]
  BY ContractAssumption DEF Jointwise, Groups, Pairs, Axes
<1>3. \A h \in Groups : q[h] = posture[h]
  BY <1>1, <1>2, DrivesReturn
<1>4. /\ c.knee \in KneeRecords /\ c.ankle \in PairRecords /\ c.head \in PairRecords
      /\ c["ankle"] = c.ankle /\ c["head"] = c.head
  BY <1>1, BuiltCalibration DEF Pairs
<1>5. CASE g = "knee"
  <2>1. posture.knee \in [{1} -> Int] /\ i = 1
    BY <1>2, <1>5 DEF Groups, Axes
  <2>2. SignedRatio(c.knee) * DriveTorque(KneeCommand(c.knee, t), KneeToDrive(c.knee, posture.knee))[1]
          = SignedRatio(c.knee) * SignedRatio(c.knee) * Impedance(t, "knee", posture.knee)[1]
    BY <1>4, <2>1, KneeFeels
  <2> QED BY <1>5, <2>1, <2>2 DEF TorqueAtJoints, ToDrive, Square
<1>6. CASE g = "ankle"
  <2>1. posture.ankle \in [{1, 2} -> Int] /\ i \in {1, 2}
    BY <1>2, <1>6 DEF Groups, Pairs, Axes
  <2>2. q.ankle = posture.ankle /\ drives.ankle = PairToDrive(c.ankle, posture.ankle)
    BY <1>3 DEF ToDrive, Groups, Pairs
  <2>3. Transposed(Matrix(c.ankle),
                   DriveTorque(AnkleCommands(c.ankle, t, posture.ankle, PairToDrive(c.ankle, posture.ankle)),
                               PairToDrive(c.ankle, posture.ankle)))[i]
          = Det(Matrix(c.ankle)) * Det(Matrix(c.ankle))
              * Clipped(Impedance(t, "ankle", posture.ankle)[i], EffortLimit)
    BY <1>4, <2>1, AnkleFeels
  <2> QED BY <1>6, <2>2, <2>3 DEF TorqueAtJoints, ToDrive, Square
<1>7. CASE g = "head"
  <2>1. posture.head \in [{1, 2} -> Int] /\ i \in {1, 2}
    BY <1>2, <1>7 DEF Groups, Pairs, Axes
  <2>2. q.head = posture.head
    BY <1>3 DEF Groups, Pairs
  <2>3. Transposed(Matrix(c.head),
                   DriveTorque(HeadCommands(c.head, t, posture.head), PairToDrive(c.head, posture.head)))[i]
          = Det(Matrix(c.head)) * Det(Matrix(c.head)) * Impedance(t, "head", posture.head)[i]
    BY <1>4, <2>1, HeadFeels
  <2> QED BY <1>7, <2>2, <2>3 DEF TorqueAtJoints, ToDrive, Square
<1> QED BY <1>5, <1>6, <1>7 DEF Groups, Pairs

LEMMA ControllerStepCarries ==
  ASSUME ContractInv, ControllerStep
  PROVE  FramesCarry' /\ FrameOfRuntime'
<1>1. runtime.kind = "python" /\ runtime.calibration \in Reports /\ goal \in Goals
      /\ UNCHANGED <<runtime, goal>>
  BY DEF ContractInv, ControllerStep, RuntimeTypes, FrameOfRuntime
<1> DEFINE c == Calibrations[runtime.calibration]
           drives(posture) == [h \in Groups |-> ToDrive(c, h, posture[h])]
           q(posture) == [h \in Groups |-> ToJoint(c, h, drives(posture)[h])]
           all(posture) == [knee |-> KneeCommand(c.knee, goal),
                   ankle |-> AnkleCommands(c.ankle, goal, q(posture).ankle, drives(posture).ankle),
                   head |-> HeadCommands(c.head, goal, q(posture).head)]
<1>2. PICK posture \in Postures :
        /\ frame'.posture = posture /\ frame'.goal = goal
        /\ frame'.commands = [g \in IF stateTick = 0 THEN Groups ELSE {"ankle"} |-> all(posture)[g]]
  BY DEF ControllerStep
<1>3. ASSUME NEW g \in Groups, NEW i \in Axes(g)
      PROVE  TorqueAtJoints(c, g, DriveTorque(all(posture)[g], ToDrive(c, g, posture[g])))[i]
               = Square(c, g) * (IF g = "ankle" THEN Clipped(Impedance(goal, g, posture[g])[i], EffortLimit)
                                 ELSE Impedance(goal, g, posture[g])[i])
  BY <1>1, <1>3, CommandsFeel
<1> HIDE DEF all
<1>4. \A g \in DOMAIN frame'.commands : g \in Groups /\ frame'.commands[g] = all(posture)[g]
  BY <1>2 DEF Groups, Pairs
<1>5. FramesCarry'
  BY <1>1, <1>2, <1>3, <1>4 DEF FramesCarry, TorqueAtJoints, Square, ToDrive
<1>6. FrameOfRuntime'
  BY <1>1 DEF FrameOfRuntime
<1> QED BY <1>5, <1>6

LEMMA SheetStays ==
  ASSUME SheetTypes, UNCHANGED <<sheet, derived, native>>
  PROVE  SheetTypes'
BY DEF SheetTypes, Reports, MotorLimits

LEMMA RuntimeTypesStay ==
  ASSUME RuntimeTypes, UNCHANGED runtime
  PROVE  RuntimeTypes'
BY DEF RuntimeTypes

LEMMA RuntimeStays ==
  ASSUME RuntimeTypes, FrameOfRuntime, FramesCarry, UNCHANGED <<runtime, goal, frame>>
  PROVE  RuntimeTypes' /\ FrameOfRuntime' /\ FramesCarry'
<1>1. RuntimeTypes'
  BY RuntimeTypesStay
<1> QED BY <1>1 DEF FrameOfRuntime, FramesCarry

LEMMA ContractStep ==
  ASSUME ContractInv, [Next]_benchVars
  PROVE  ContractInv'
<1>1. CASE bench = "contract" /\ bench' = bench /\ ContractNext
  <2>1. SheetTypes
    BY <1>1 DEF ContractInv
  <2>2. CASE \/ HardwareTemplate \/ FillsIn \/ ApplyNameplates \/ Calibrates \/ RangesEntered \/ Configures
             \/ DeriveLimits \/ ApplyLimits \/ ExportMotors \/ ExportKinematics \/ ExportJoints
    <3>1. SheetTypes'
      BY <2>1, <2>2, SheetToolsKeepTypes, ReportToolsKeepTypes
    <3>2. UNCHANGED <<runtime, goal, frame>>
      BY <2>2
         DEF HardwareTemplate, FillsIn, ApplyNameplates, Calibrates, RangesEntered, Configures,
             SheetOnly, DeriveLimits, ApplyLimits, ExportMotors, ExportKinematics, ExportJoints
    <3> QED BY <3>1, <3>2, RuntimeStays DEF ContractInv
  <2>3. CASE NativeLoads \/ PythonLoads
    <3>1. UNCHANGED <<sheet, derived, native, goal, frame>> /\ Offline
      BY <2>3 DEF NativeLoads, PythonLoads
    <3>2. frame.kind # "frame"
      BY <3>1 DEF ContractInv, FrameOfRuntime, Offline, NoRuntime
    <3>3. FramesCarry' /\ FrameOfRuntime'
      BY <3>1, <3>2 DEF ContractInv, FramesCarry, FrameOfRuntime
    <3>4. SheetTypes'
      BY <2>1, <3>1, SheetStays
    <3> QED BY <2>1, <2>3, <3>3, <3>4, LoadedTypes DEF ContractInv
  <2>4. CASE RuntimeEnds
    <3>1. SheetTypes'
      BY <2>1, <2>4, SheetStays DEF RuntimeEnds
    <3>2. runtime'.kind = "none" /\ frame'.kind = "none" /\ goal' = NoGoal
      BY <2>4 DEF RuntimeEnds, NoRuntime, NoFrame
    <3>3. RuntimeTypes'
      BY <3>2 DEF RuntimeTypes
    <3>4. FrameOfRuntime'
      BY <3>2 DEF FrameOfRuntime, NoGoal
    <3>5. FramesCarry'
      BY <3>2 DEF FramesCarry
    <3> QED BY <3>1, <3>3, <3>4, <3>5 DEF ContractInv
  <2>5. CASE LatchTarget
    <3>1. UNCHANGED <<sheet, derived, native, runtime, frame>> /\ goal' \in Goals
      BY <2>5 DEF LatchTarget
    <3>2. SheetTypes' /\ RuntimeTypes'
      BY <2>1, <3>1, SheetStays, RuntimeTypesStay DEF ContractInv
    <3>3. FramesCarry' /\ FrameOfRuntime'
      BY <3>1 DEF ContractInv, FramesCarry, FrameOfRuntime
    <3> QED BY <3>2, <3>3 DEF ContractInv
  <2>6. CASE ControllerStep
    <3>1. UNCHANGED <<sheet, derived, native, runtime>>
      BY <2>6 DEF ControllerStep
    <3>2. SheetTypes' /\ RuntimeTypes'
      BY <2>1, <3>1, SheetStays, RuntimeTypesStay DEF ContractInv
    <3> QED BY <2>6, <3>2, ControllerStepCarries DEF ContractInv
  <2> QED BY <1>1, <2>2, <2>3, <2>4, <2>5, <2>6 DEF ContractNext
<1>2. CASE bench' = bench /\ UNCHANGED contractVars
  <2>1. UNCHANGED <<bench, sheet, derived, native, runtime, goal, frame>>
    BY <1>2 DEF contractVars
  <2>2. bench' = "contract" => SheetTypes'
    BY <2>1, SheetStays DEF ContractInv
  <2> QED BY <2>1, <2>2, RuntimeStays DEF ContractInv
<1> QED BY <1>1, <1>2 DEF Next, benchVars

\* The tuples of the legal poses are poses of their group.
LEMMA LegalPosesAreWhole ==
  ASSUME NEW g \in Groups, NEW q \in LegalPoses(g)
  PROVE  q \in [Axes(g) -> Int]
<1>1. CASE g = "knee"
  <2>1. PICK x \in SoftJoint(g, 1)[1] .. SoftJoint(g, 1)[2] : q = <<x>>
    BY <1>1 DEF LegalPoses
  <2>2. x \in Int
    BY <1>1, SoftJointTypes DEF Axes
  <2> HIDE DEF Groups
  <2>3. <<x>> \in [{1} -> Int]
    BY <2>2
  <2> QED BY <1>1, <2>1, <2>3 DEF Axes
<1>2. CASE g \in Pairs
  <2>1. PICK x \in SoftJoint(g, 1)[1] .. SoftJoint(g, 1)[2], y \in SoftJoint(g, 2)[1] .. SoftJoint(g, 2)[2] :
          q = <<x, y>>
    BY <1>2 DEF LegalPoses, Pairs
  <2>2. x \in Int /\ y \in Int
    BY <1>2, SoftJointTypes DEF Axes, Pairs
  <2>3. <<x, y>> \in [{1, 2} -> Int]
    BY <2>2
  <2> QED BY <1>2, <2>1, <2>3 DEF Axes, Pairs
<1> QED BY <1>1, <1>2 DEF Groups

\* Whichever runtime has loaded, and by whatever steps its files came about,
\* limits made of the calibration it maps with hold every legal pose, which
\* the drives then measure again (derive_limit_candidates, the exports).
THEOREM LegalPosesAlwaysReachTheDrives == Spec => []LegalPosesReachTheDrives
<1>1. ASSUME ContractInv PROVE LegalPosesReachTheDrives
  <2> SUFFICES ASSUME runtime.kind # "none", runtime.limits = runtime.calibration
               PROVE  Reached[runtime.calibration][runtime.range]
    BY DEF LegalPosesReachTheDrives
  <2> DEFINE r == runtime.calibration
             c == Calibrations[r]
             range == runtime.range
  <2>1. r \in Reports /\ range \in PositionMax
    BY <1>1 DEF ContractInv, RuntimeTypes
  <2>2. \A l \in LimitsOf(r) : -range <= l.soft[1] /\ l.soft[2] <= range
    BY <1>1 DEF ContractInv, RuntimeTypes
  <2>3. r \in DOMAIN Calibrations /\ MapBuilt(r) /\ range \in Int
    BY <2>1, ReportsAreBuilt, RangesAreWhole
  <2> HIDE DEF r, range
  <2>4. ASSUME NEW g \in Groups, NEW q \in LegalPoses(g)
        PROVE  /\ \A i \in Axes(g) : /\ Within(ToDrive(c, g, q)[i], MotorLimits[r][g][i].soft)
                                     /\ Within(ToDrive(c, g, q)[i], <<-range, range>>)
               /\ ToJoint(c, g, ToDrive(c, g, q)) = q
    <3>1. q \in [Axes(g) -> Int]
      BY LegalPosesAreWhole
    <3>2. ToJoint(c, g, ToDrive(c, g, q)) = q
      BY <2>3, <3>1, DrivesReturn
    <3>3. ASSUME NEW i \in Axes(g)
          PROVE  /\ Within(ToDrive(c, g, q)[i], MotorLimits[r][g][i].soft)
                 /\ Within(ToDrive(c, g, q)[i], <<-range, range>>)
      <4> DEFINE d == ToDrive(c, g, q)[i]
                 soft == MotorLimits[r][g][i].soft
      <4>1. soft[1] \in Int /\ soft[2] \in Int /\ soft[1] <= d /\ d <= soft[2]
        BY <2>1, ReportHoldsPoses
      <4>2. -range <= soft[1] /\ soft[2] <= range
        BY <2>2 DEF LimitsOf
      <4>3. d \in Int
        BY <2>3, <3>1, DrivesAreWhole
      <4> HIDE DEF d, soft
      <4>4. <<-range, range>>[1] = -range /\ <<-range, range>>[2] = range
        OBVIOUS
      <4>5. -range <= d /\ d <= range
        BY <2>3, <4>1, <4>2, <4>3
      <4> QED BY <4>1, <4>4, <4>5 DEF Within, d, soft
    <3> QED BY <3>2, <3>3
  <2>5. Reached[r][range] = \A g \in Groups : \A q \in LegalPoses(g) :
          /\ \A i \in Axes(g) : /\ Within(ToDrive(c, g, q)[i], MotorLimits[r][g][i].soft)
                                /\ Within(ToDrive(c, g, q)[i], <<-range, range>>)
          /\ ToJoint(c, g, ToDrive(c, g, q)) = q
    BY <2>1 DEF Reached, Reports
  <2> QED BY <2>4, <2>5 DEF r, range
<1> QED BY <1>1, ContractStart, ContractStep, PTL DEF Spec

\* Every frame the controller makes carries the impedance of its target, at
\* either rate, whatever the signs, ratios and matrices of the calibration
\* (SpriteMultiRateController.step, motor_mapping.py).
THEOREM FramesAlwaysCarryTheImpedance == Spec => []FramesCarryTheImpedance
<1>1. ASSUME ContractInv PROVE FramesCarryTheImpedance
  BY <1>1 DEF ContractInv, FramesCarry, FramesCarryTheImpedance
<1> QED BY <1>1, ContractStart, ContractStep, PTL DEF Spec

==============================================================================
