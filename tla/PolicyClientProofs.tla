------------------------- MODULE PolicyClientProofs -------------------------
(***************************************************************************)
(* What the client promises, for any schedule, any limits and any          *)
(* interleaving of serial line, worker thread, controller and client: the  *)
(* latch of the worker's error, the age of the samples behind a target,    *)
(* the stage at the end, and the gain of a robot that walks.               *)
(***************************************************************************)
EXTENDS PolicyClient, FiniteSetTheorems, TLAPS

\* Past its drain a state in work ends in a target without another look at
\* the worker's error.
PastDrain == pc \in {"infer", "project", "send"}

\* The error latches, only worker sources have one, and the target that was
\* under way when it came is the only one after it.
LatchInv ==
  /\ workerError => source # "yahboom"
  /\ afterError \in {0, 1}
  /\ afterError = 1 => workerError /\ ~PastDrain

\* The worker ends with its error, or goes on as before.
LEMMA WorkerLatches ==
  ASSUME LatchInv, WorkerStep
  PROVE  LatchInv'
<1>1. UNCHANGED <<pc, afterError, source>>
  BY DEF WorkerStep, Worker, WorkerReads, WorkerPublishes, ReadFails, PacketRefused, WorkerFails,
         clientVars, historyVars
<1>2. workerError' = workerError \/ (workerError' = TRUE /\ source # "yahboom")
  BY DEF WorkerStep, Worker, WorkerReads, WorkerPublishes, ReadFails, PacketRefused, WorkerFails
<1> QED BY <1>1, <1>2 DEF LatchInv, PastDrain

\* A drain of a worker source that goes well has seen no error.
LEMMA DrainChecks ==
  ASSUME LatchInv, DrainCommits \/ DrainSnapshot
  PROVE  LatchInv'
<1>1. UNCHANGED <<source, workerError, afterError>>
  BY DEF DrainCommits, DrainSnapshot, Running, historyVars
<1>2. ~workerError
  BY DEF DrainCommits, DrainSnapshot, SnapshotRefused, LatchInv
<1> QED BY <1>1, <1>2 DEF LatchInv

\* The target that was past its drain is sent, and the client goes back.
LEMMA SendCounts ==
  ASSUME LatchInv, Send
  PROVE  LatchInv'
<1>1. /\ pc = "send" /\ pc' = "select"
      /\ afterError' = afterError + (IF workerError THEN 1 ELSE 0)
      /\ UNCHANGED <<source, workerError>>
  BY DEF Send, Running, imuVars
<1>2. afterError = 0
  BY <1>1 DEF LatchInv, PastDrain
<1>3. afterError' = IF workerError THEN 1 ELSE 0
  BY <1>1, <1>2
<1> QED BY <1>1, <1>3 DEF LatchInv, PastDrain

\* The other steps of the client stay on their side of the drain, or end.
LEMMA OthersStay ==
  ASSUME LatchInv,
         \/ ImuReadable \/ ReceiveState \/ Disconnected \/ DrainRead \/ DrainFails
         \/ Infer \/ Project \/ SendFails \/ Tick
  PROVE  LatchInv'
<1>1. UNCHANGED <<source, workerError, afterError>>
  BY DEF ImuReadable, ReceiveState, SelectReturns, Disconnected, DrainRead, DrainFails, Infer,
         Project, SendFails, Tick, Running, imuVars, clientVars, historyVars
<1>2. PastDrain' => PastDrain
  BY DEF ImuReadable, ReceiveState, SelectReturns, Disconnected, DrainRead, DrainFails, Infer,
         Project, SendFails, Tick, Finish, Fail, clientVars, PastDrain
<1> QED BY <1>1, <1>2 DEF LatchInv

\* However the worker thread and the loop interleave, the worker's error lets
\* at most one more target out, whose drain preceded it (bno055_source.py and
\* native_bno_source.py, drain; native_policy_client.py, run).
THEOREM LatchedErrorAlwaysStops == Spec => []LatchedErrorStopsTargets
<1>1. Init => LatchInv
  BY DEF Init, ImuInit, LatchInv
<1>2. ASSUME LatchInv, [Next]_vars
      PROVE  LatchInv'
  <2>1. CASE UNCHANGED vars
    BY <1>2, <2>1 DEF vars, imuVars, clientVars, historyVars, LatchInv, PastDrain
  <2> QED BY <1>2, <2>1, WorkerLatches, DrainChecks, SendCounts, OthersStay DEF Next, Client
<1>3. LatchInv => LatchedErrorStopsTargets
  BY DEF LatchInv, LatchedErrorStopsTargets
<1> QED BY <1>1, <1>2, <1>3, PTL DEF Spec

(***************************************************************************)
(* The lesser and the greater of two, the greatest of some.                *)
(***************************************************************************)
LEMMA LesserOfTwo ==
  ASSUME NEW a \in Int, NEW b \in Int
  PROVE  Min({a, b}) \in {a, b} /\ Min({a, b}) <= a /\ Min({a, b}) <= b
<1>1. \E x \in {a, b} : \A y \in {a, b} : x <= y
  BY a <= b \/ b <= a
<1> QED BY <1>1, Zenon DEF Min

LEMMA GreaterOfTwo ==
  ASSUME NEW a \in Int, NEW b \in Int
  PROVE  Max({a, b}) \in {a, b} /\ Max({a, b}) >= a /\ Max({a, b}) >= b
<1>1. \E x \in {a, b} : \A y \in {a, b} : x >= y
  BY a >= b \/ b >= a
<1> QED BY <1>1, Zenon DEF Max

\* Some places of a sequence have a last one.
LEMMA LastOfPlaces ==
  ASSUME NEW n \in Nat, NEW S \in SUBSET (1..n), S # {}
  PROVE  Max(S) \in S
<1> DEFINE T == {n - i : i \in S}
<1>1. T \subseteq Nat /\ T # {}
  <2>1. PICK i : i \in S
    OBVIOUS
  <2>2. n - i \in T
    BY <2>1
  <2>3. T \subseteq Nat
    OBVIOUS
  <2> QED BY <2>2, <2>3
<1>2. PICK x \in T : \A y \in T : ~(<<y, x>> \in OpToRel(<, Nat))
  BY <1>1, WFMin, NatLessThanWellFounded
<1>3. \A y \in T : x <= y
  <2> TAKE y \in T
  <2>1. x \in Nat /\ y \in Nat
    BY <1>1, <1>2
  <2>2. <<y, x>> \in Nat \X Nat
    BY <2>1
  <2>3. y < x => <<y, x>> \in OpToRel(<, Nat)
    BY <2>2 DEF OpToRel
  <2>4. ~(y < x)
    BY <1>2, <2>3, Zenon
  <2> QED BY <2>1, <2>4
<1>4. PICK i \in S : x = n - i
  BY <1>2
<1>5. \A j \in S : i >= j
  <2> TAKE j \in S
  <2>1. n - i <= n - j
    BY <1>3, <1>4
  <2> QED BY <2>1
<1>6. \E m \in S : \A j \in S : m >= j
  BY <1>5
<1> QED BY <1>6, Zenon DEF Max

(***************************************************************************)
(* Samples are recent.                                                     *)
(***************************************************************************)
ChunkSet == [kind : {"head", "tail", "noise"}, at : Nat]
FrameSet == [kind : {"raw", "quat", "none"}, at : Nat, stamp : Nat]
SampleSet == [stamp : Nat, at : Nat]

SampleTypes ==
  /\ now \in Nat \ {0} /\ line \in Seq(ChunkSet)
  /\ partial \in SampleSet /\ raw \in SampleSet /\ quat \in SampleSet
  /\ drain \in [started : Nat, reads : Nat, total : Nat, batch : Seq(FrameSet)]
  /\ drain.started <= now /\ (pc = "drain" => drain.started > 0)
  /\ reading \in Nat /\ latest \in Nat /\ sent.age \in Int

\* The stamp is from the present drain or an earlier one, and what it stands
\* for did not wait for that drain as long as a sample may be old.
Stamped(s) == s.stamp <= drain.started /\ s.stamp - s.at < MaxAge

\* What is stamped has not waited long, because what is unread has not: it
\* came while the last target was in work, and before that target's own
\* sample was too old, or it ended the wait in select.
SerialInv ==
  source = "yahboom" =>
    /\ Stamped(raw) /\ Stamped(quat)
    /\ partial = None \/ (Stamped(partial) /\ partial.stamp > 0)
    /\ \A i \in DOMAIN drain.batch :
         drain.batch[i].kind # "none" => Stamped(drain.batch[i]) /\ drain.batch[i].stamp > 0
    /\ \A i \in DOMAIN line :
         /\ pc = "select" => now - line[i].at < MaxAge
         /\ pc # "select" => drain.started - line[i].at < MaxAge
         /\ PastDrain => line[i].at > drain.started

\* A worker's sample carries the time it was taken.
WorkerInv == source # "yahboom" => raw.at = raw.stamp /\ quat.at = quat.stamp

SamplesInv == SampleTypes /\ SerialInv /\ WorkerInv /\ SamplesAreRecent

\* The assumption, as the provers need it.
LEMMA AgeIsPositive == MaxAge \in Nat \ {0}
  BY ImuAssumption DEF ImuAssumption

\* A batch read now is stamped with the start of the drain, but for a frame
\* that had begun before, which keeps its own stamp.
LEMMA FeedIsStamped ==
  ASSUME SampleTypes, SerialInv, source = "yahboom", pc = "drain",
         NEW first \in Nat,
         first = IF partial # None THEN Min({drain.started, partial.stamp}) ELSE drain.started
  PROVE  /\ Feed(first, drain.started) \in Seq(FrameSet)
         /\ first > 0 /\ first <= drain.started
         /\ \A i \in DOMAIN line :
              Completed(i) # "none" =>
                /\ Stamped(Feed(first, drain.started)[i])
                /\ Feed(first, drain.started)[i].stamp > 0
<1> USE AgeIsPositive
<1>1. /\ drain.started \in Nat /\ drain.started > 0 /\ partial.stamp \in Nat /\ partial.at \in Nat
      /\ line \in Seq(ChunkSet) /\ DOMAIN line = 1..Len(line) /\ Len(line) \in Nat
  BY DEF SampleTypes, SampleSet
<1>2. /\ first > 0 /\ first <= drain.started
      /\ partial # None => first <= partial.stamp
  <2>1. CASE partial # None
    <3>1. partial.stamp > 0
      BY <2>1 DEF SerialInv
    <3>2. /\ Min({drain.started, partial.stamp}) \in {drain.started, partial.stamp}
          /\ Min({drain.started, partial.stamp}) <= drain.started
          /\ Min({drain.started, partial.stamp}) <= partial.stamp
      <4>1. drain.started \in Int /\ partial.stamp \in Int
        BY <1>1
      <4> QED BY <4>1, LesserOfTwo, Zenon
    <3> QED BY <1>1, <2>1, <3>1, <3>2
  <2> QED BY <1>1, <2>1
<1>3. ASSUME NEW i \in DOMAIN line
      PROVE  /\ Completed(i) \in {"raw", "quat", "none"}
             /\ line[i] \in ChunkSet /\ line[i].at \in Nat
             /\ drain.started - line[i].at < MaxAge
             /\ BegunAfter(i - 1) \in Nat
             /\ BegunAfter(i - 1) # 0 =>
                  \/ i = 1 /\ BegunAfter(i - 1) = partial.at
                  \/ drain.started - BegunAfter(i - 1) < MaxAge
  <2>1. /\ Completed(i) \in {"raw", "quat", "none"}
    BY DEF Completed
  <2>2. \A j \in DOMAIN line : /\ line[j] \in ChunkSet /\ line[j].at \in Nat
                               /\ drain.started - line[j].at < MaxAge
    <3>1. \A j \in DOMAIN line : drain.started - line[j].at < MaxAge
      BY DEF SerialInv
    <3>2. \A j \in DOMAIN line : line[j] \in ChunkSet
      BY <1>1
    <3> QED BY <3>1, <3>2 DEF ChunkSet
  <2>3. CASE i = 1
    BY <1>1, <2>1, <2>2, <2>3 DEF BegunAfter
  <2>4. CASE i # 1
    <3>1. i \in Nat /\ i - 1 \in DOMAIN line /\ i - 1 # 0
      BY <1>1, <2>4
    <3> QED BY <2>1, <2>2, <3>1 DEF BegunAfter
  <2> QED BY <2>3, <2>4
<1> DEFINE F == Feed(first, drain.started)
<1>4. /\ DOMAIN F = DOMAIN line
      /\ \A i \in DOMAIN line :
           /\ F[i] \in FrameSet
           /\ F[i].kind = Completed(i)
           /\ F[i].at = IF Completed(i) = "quat" THEN BegunAfter(i - 1) ELSE line[i].at
           /\ F[i].stamp = IF SomeCompleted(1..(i - 1)) THEN drain.started ELSE first
  BY <1>1, <1>2, <1>3 DEF Feed, FrameSet
<1>5. F \in Seq(FrameSet)
  <2>1. F = [i \in 1..Len(line) |-> F[i]]
    BY <1>1 DEF Feed
  <2> HIDE DEF F
  <2>2. \A i \in 1..Len(line) : F[i] \in FrameSet
    BY <1>1, <1>4
  <2> QED BY <1>1, <2>1, <2>2
<1>6. ASSUME NEW i \in DOMAIN line, Completed(i) # "none"
      PROVE  Stamped(F[i]) /\ F[i].stamp > 0
  <2> HIDE DEF F
  <2>1. F[i].stamp > 0 /\ F[i].stamp <= drain.started /\ F[i].stamp \in Nat
    <3>1. F[i].stamp \in {first, drain.started}
      BY <1>4
    <3> QED BY <1>1, <1>2, <3>1
  <2>2. CASE Completed(i) = "raw"
    <3>1. F[i].at = line[i].at
      BY <1>4, <2>2
    <3> QED BY <1>1, <1>3, <2>1, <3>1 DEF Stamped
  <2>3. CASE Completed(i) = "quat"
    <3>1. F[i].at = BegunAfter(i - 1) /\ BegunAfter(i - 1) # 0
      BY <1>4, <2>3 DEF Completed
    <3>2. CASE drain.started - BegunAfter(i - 1) < MaxAge
      BY <1>1, <1>3, <2>1, <3>1, <3>2 DEF Stamped
    <3>3. CASE i = 1 /\ BegunAfter(i - 1) = partial.at
      <4>1. partial # None
        BY <3>1, <3>3 DEF None
      <4>2. partial.stamp - partial.at < MaxAge
        BY <4>1 DEF SerialInv, Stamped
      <4>3. ~SomeCompleted(1..(i - 1))
        BY <3>3 DEF SomeCompleted
      <4>4. F[i].stamp = first /\ F[i].at = partial.at /\ first <= partial.stamp
        BY <1>2, <1>4, <3>1, <3>3, <4>1, <4>3
      <4> QED BY <1>1, <2>1, <4>2, <4>4 DEF Stamped
    <3> QED BY <1>3, <3>1, <3>2, <3>3
  <2> QED BY <1>3, <1>6, <2>2, <2>3
<1> QED BY <1>2, <1>5, <1>6

samplesVars == <<now, source, line, partial, drain, raw, quat, sent>>

\* A step that touches no sample only moves the client on.
LEMMA OthersKeepSamples ==
  ASSUME SamplesInv, UNCHANGED samplesVars, reading' \in Nat, latest' \in Nat,
         pc' = pc \/ pc' = "done" \/ (PastDrain /\ PastDrain')
  PROVE  SamplesInv'
<1> USE AgeIsPositive DEF samplesVars
<1>1. SampleTypes'
  BY DEF SamplesInv, SampleTypes, PastDrain
<1>2. SerialInv'
  <2> SUFFICES ASSUME source = "yahboom" PROVE SerialInv'
    BY DEF SerialInv
  <2>1. /\ Stamped(raw)' /\ Stamped(quat)' /\ (partial' = None \/ (Stamped(partial)' /\ partial'.stamp > 0))
        /\ \A i \in DOMAIN drain'.batch :
             drain'.batch[i].kind # "none" => Stamped(drain.batch[i])' /\ drain'.batch[i].stamp > 0
    BY DEF SamplesInv, SerialInv, Stamped
  <2>2. ASSUME NEW i \in DOMAIN line
        PROVE  /\ pc' = "select" => now - line[i].at < MaxAge
               /\ pc' # "select" => drain.started - line[i].at < MaxAge
               /\ PastDrain' => line[i].at > drain.started
    <3>1. line[i].at \in Nat /\ now \in Nat /\ drain.started \in Nat /\ drain.started <= now
      <4>1. line \in Seq(ChunkSet) /\ now \in Nat \ {0} /\ drain.started \in Nat /\ drain.started <= now
        BY DEF SamplesInv, SampleTypes
      <4>2. line[i] \in ChunkSet
        BY <2>2, <4>1
      <4> QED BY <4>1, <4>2 DEF ChunkSet
    <3>2. /\ pc = "select" => now - line[i].at < MaxAge
          /\ pc # "select" => drain.started - line[i].at < MaxAge
          /\ PastDrain => line[i].at > drain.started
      BY <2>2 DEF SamplesInv, SerialInv
    <3> QED BY <3>1, <3>2 DEF PastDrain
  <2> QED BY <2>1, <2>2 DEF SerialInv
<1>3. WorkerInv' /\ SamplesAreRecent'
  BY DEF SamplesInv, WorkerInv, SamplesAreRecent
<1> QED BY <1>1, <1>2, <1>3 DEF SamplesInv

\* select returns at once when a byte is there, so no byte is old at the
\* start of a drain.
LEMMA DrainStartsInTime ==
  ASSUME SamplesInv, ImuReadable \/ ReceiveState
  PROVE  SamplesInv'
<1> USE AgeIsPositive
<1>1. /\ pc = "select" /\ pc' = "drain" /\ drain' = [Idle EXCEPT !.started = now]
      /\ UNCHANGED <<now, source, line, partial, raw, quat, sent, reading, latest>>
  BY DEF ImuReadable, ReceiveState, SelectReturns, DrainStarts, Running, historyVars
<1>2. drain' = [started |-> now, reads |-> 0, total |-> 0, batch |-> <<>>]
  BY <1>1 DEF Idle
<1>3. now \in Nat \ {0} /\ drain.started \in Nat /\ drain.started <= now
  BY DEF SamplesInv, SampleTypes
<1>4. SampleTypes'
  <2>1. <<>> \in Seq(FrameSet)
    OBVIOUS
  <2>2. drain' \in [started : Nat, reads : Nat, total : Nat, batch : Seq(FrameSet)]
    BY <1>2, <1>3, <2>1
  <2>3. drain'.started = now
    BY <1>2
  <2> QED BY <1>1, <1>3, <2>2, <2>3 DEF SamplesInv, SampleTypes
<1>5. \A s \in SampleSet : Stamped(s) => s.stamp <= now /\ s.stamp - s.at < MaxAge
  BY <1>3 DEF Stamped, SampleSet
<1>6. SerialInv'
  <2> SUFFICES ASSUME source = "yahboom" PROVE SerialInv'
    BY <1>1 DEF SerialInv
  <2>1. Stamped(raw)' /\ Stamped(quat)' /\ (partial' = None \/ (Stamped(partial)' /\ partial'.stamp > 0))
    <3>1. partial \in SampleSet /\ raw \in SampleSet /\ quat \in SampleSet
      BY DEF SamplesInv, SampleTypes
    <3>2. Stamped(raw) /\ Stamped(quat) /\ (partial = None \/ (Stamped(partial) /\ partial.stamp > 0))
      BY DEF SamplesInv, SerialInv
    <3> QED BY <1>1, <1>2, <1>5, <3>1, <3>2 DEF Stamped
  <2>2. \A i \in DOMAIN line : now - line[i].at < MaxAge
    BY <1>1 DEF SamplesInv, SerialInv
  <2> QED BY <1>1, <1>2, <2>1, <2>2 DEF SerialInv, PastDrain
<1>7. WorkerInv' /\ SamplesAreRecent'
  BY <1>1 DEF SamplesInv, WorkerInv, SamplesAreRecent
<1> QED BY <1>4, <1>6, <1>7 DEF SamplesInv

\* A read stamps what it takes from the port.
LEMMA ReadKeepsSamples ==
  ASSUME SamplesInv, DrainRead
  PROVE  SamplesInv'
<1> USE AgeIsPositive
<1>1. /\ pc = "drain" /\ pc' = "drain" /\ source = "yahboom" /\ ReadPending
      /\ UNCHANGED <<now, source, raw, quat, sent, reading, latest>>
  BY DEF DrainRead, Running, clientVars, historyVars
<1>2. SampleTypes /\ SerialInv
  BY DEF SamplesInv
<1> DEFINE packetTime == IF partial # None THEN Min({drain.started, partial.stamp}) ELSE drain.started
           F == Feed(packetTime, drain.started)
           begun == BegunAfter(Len(line))
<1>3. /\ line # <<>> /\ line' = <<>>
      /\ drain' = [drain EXCEPT !.reads = @ + 1, !.total = @ + Len(line), !.batch = @ \o F]
      /\ partial' = IF begun = 0 THEN None
                    ELSE [stamp |-> IF SomeCompleted(DOMAIN line) THEN drain.started ELSE packetTime,
                          at |-> begun]
  BY <1>1 DEF ReadPending
<1>4. packetTime \in Nat
  <2>1. drain.started \in Int /\ partial.stamp \in Int /\ drain.started \in Nat /\ partial.stamp \in Nat
    BY <1>2 DEF SampleTypes, SampleSet
  <2>2. Min({drain.started, partial.stamp}) \in {drain.started, partial.stamp}
    BY <2>1, LesserOfTwo, Zenon
  <2> QED BY <2>1, <2>2
<1>5. /\ F \in Seq(FrameSet) /\ packetTime > 0 /\ packetTime <= drain.started
      /\ \A i \in DOMAIN line : Completed(i) # "none" => Stamped(F[i]) /\ F[i].stamp > 0
  BY <1>1, <1>2, <1>4, FeedIsStamped, Zenon
<1>6. /\ DOMAIN F = DOMAIN line /\ \A i \in DOMAIN line : F[i].kind = Completed(i)
  BY DEF Feed
<1> HIDE DEF F
<1>7. /\ drain.started \in Nat /\ drain.started > 0 /\ drain.batch \in Seq(FrameSet)
      /\ line \in Seq(ChunkSet) /\ Len(line) \in Nat /\ DOMAIN line = 1..Len(line)
      /\ drain \in [started : Nat, reads : Nat, total : Nat, batch : Seq(FrameSet)]
  BY <1>1, <1>2 DEF SampleTypes
<1>8. /\ drain'.started = drain.started /\ drain'.batch = drain.batch \o F
      /\ drain' \in [started : Nat, reads : Nat, total : Nat, batch : Seq(FrameSet)]
  <2>1. drain.batch \o F \in Seq(FrameSet)
    BY <1>5, <1>7
  <2>2. drain.reads + 1 \in Nat /\ drain.total + Len(line) \in Nat
    BY <1>7
  <2> QED BY <1>3, <1>7, <2>1, <2>2
<1>9. partial' = None \/ (partial' \in SampleSet /\ Stamped(partial)' /\ partial'.stamp > 0)
  <2>1. CASE begun = 0
    BY <1>3, <2>1
  <2>2. CASE begun # 0
    <3>1. Len(line) \in DOMAIN line /\ Len(line) # 0
      BY <1>3, <1>7
    <3>2. begun = line[Len(line)].at /\ line[Len(line)] \in ChunkSet
      BY <1>7, <2>2, <3>1 DEF BegunAfter
    <3>3. drain.started - line[Len(line)].at < MaxAge
      BY <1>1, <1>2, <3>1 DEF SerialInv
    <3>4. begun \in Nat /\ drain.started - begun < MaxAge
      BY <3>2, <3>3 DEF ChunkSet
    <3> HIDE DEF begun, packetTime
    <3>5. /\ partial'.at = begun
          /\ partial' \in SampleSet
          /\ partial'.stamp \in {drain.started, packetTime}
      BY <1>3, <1>4, <1>7, <2>2, <3>4 DEF SampleSet
    <3>6. partial'.stamp > 0 /\ partial'.stamp <= drain.started /\ partial'.stamp \in Nat
      BY <1>4, <1>5, <1>7, <3>5
    <3> QED BY <1>7, <1>8, <3>4, <3>5, <3>6 DEF Stamped
  <2> QED BY <2>1, <2>2
<1>10. SampleTypes'
  <2>1. partial' \in SampleSet
    BY <1>9 DEF None, SampleSet
  <2>2. line' \in Seq(ChunkSet)
    BY <1>3
  <2> QED BY <1>1, <1>2, <1>7, <1>8, <2>1, <2>2 DEF SampleTypes
<1>11. SerialInv'
  <2>1. Stamped(raw)' /\ Stamped(quat)'
    BY <1>1, <1>2, <1>8 DEF SerialInv, Stamped
  <2>2. ASSUME NEW i \in DOMAIN drain'.batch, drain'.batch[i].kind # "none"
        PROVE  Stamped(drain.batch[i])' /\ drain'.batch[i].stamp > 0
    <3>1. /\ Len(drain.batch) \in Nat /\ DOMAIN drain.batch = 1..Len(drain.batch)
          /\ Len(F) \in Nat /\ DOMAIN F = 1..Len(F)
      BY <1>5, <1>7
    <3>2. i \in 1..(Len(drain.batch) + Len(F))
      BY <1>5, <1>7, <1>8, <2>2
    <3>3. CASE i <= Len(drain.batch)
      <4>1. i \in DOMAIN drain.batch /\ drain'.batch[i] = drain.batch[i]
        BY <1>5, <1>7, <1>8, <3>1, <3>2, <3>3
      <4>2. Stamped(drain.batch[i]) /\ drain.batch[i].stamp > 0
        BY <1>1, <1>2, <2>2, <4>1 DEF SerialInv
      <4> QED BY <1>8, <4>1, <4>2 DEF Stamped
    <3>4. CASE i > Len(drain.batch)
      <4>1. PICK j \in DOMAIN F : j = i - Len(drain.batch)
        BY <3>1, <3>2, <3>4
      <4>2. drain'.batch[i] = F[j]
        BY <1>5, <1>7, <1>8, <3>1, <3>2, <3>4, <4>1
      <4>3. Stamped(F[j]) /\ F[j].stamp > 0
        BY <1>5, <1>6, <2>2, <4>1, <4>2
      <4> QED BY <1>8, <4>2, <4>3 DEF Stamped
    <3> QED BY <3>1, <3>2, <3>3, <3>4
  <2> QED BY <1>1, <1>3, <1>9, <2>1, <2>2 DEF SerialInv
<1>12. WorkerInv' /\ SamplesAreRecent'
  BY <1>1 DEF SamplesInv, WorkerInv, SamplesAreRecent
<1> QED BY <1>10, <1>11, <1>12 DEF SamplesInv

\* The newest frame of a kind is one of the batch, or the old one.
LEMMA NewestIsStamped ==
  ASSUME SampleTypes, SerialInv, source = "yahboom",
         NEW kind \in {"raw", "quat"}, NEW old \in SampleSet, Stamped(old)
  PROVE  /\ NewestOf(kind, old) \in SampleSet /\ Stamped(NewestOf(kind, old))
         /\ old.stamp > 0 => NewestOf(kind, old).stamp > 0
<1> DEFINE P == Places(kind, drain.batch)
<1>1. CASE P = {}
  BY <1>1 DEF NewestOf
<1>2. CASE P # {}
  <2>1. /\ drain.batch \in Seq(FrameSet) /\ Len(drain.batch) \in Nat
        /\ DOMAIN drain.batch = 1..Len(drain.batch)
    BY DEF SampleTypes
  <2>2. P \in SUBSET (1..Len(drain.batch))
    BY <2>1 DEF Places
  <2>3. Max(P) \in P
    BY <1>2, <2>1, <2>2, LastOfPlaces, Zenon
  <2>4. PICK i \in DOMAIN drain.batch : i = Max(P) /\ drain.batch[i].kind = kind
    BY <2>3 DEF Places
  <2>5. Stamped(drain.batch[i]) /\ drain.batch[i].stamp > 0
    BY <2>4 DEF SerialInv
  <2>6. drain.batch[i] \in FrameSet
    BY <2>1, <2>4
  <2>7. drain.batch[i].stamp \in Nat /\ drain.batch[i].at \in Nat
    BY <2>6 DEF FrameSet
  <2>8. NewestOf(kind, old) = [stamp |-> drain.batch[i].stamp, at |-> drain.batch[i].at]
    BY <1>2, <2>4, Zenon DEF NewestOf
  <2> QED BY <2>5, <2>7, <2>8 DEF Stamped, SampleSet
<1> QED BY <1>1, <1>2

\* What follows a drain.
LEMMA AfterDrain ==
  ASSUME Observe
  PROVE  pc' \in {"select", "infer", "done"}
  BY DEF Observe, Fail

LEMMA CommitKeepsSamples ==
  ASSUME SamplesInv, DrainCommits
  PROVE  SamplesInv'
<1>1. /\ pc = "drain" /\ source = "yahboom" /\ line = <<>> /\ Observe
      /\ raw' = NewestOf("raw", raw) /\ quat' = NewestOf("quat", quat)
      /\ drain' = [Idle EXCEPT !.started = drain.started]
      /\ UNCHANGED <<now, source, line, partial, sent, reading, latest>>
  BY DEF DrainCommits, Running, Commit, DrainEnds, historyVars
<1>2. pc' \in {"select", "infer", "done"}
  BY <1>1, AfterDrain
<1>3. SampleTypes /\ SerialInv /\ raw \in SampleSet /\ quat \in SampleSet /\ Stamped(raw) /\ Stamped(quat)
  BY <1>1 DEF SamplesInv, SampleTypes, SerialInv
<1>4. /\ raw' \in SampleSet /\ Stamped(NewestOf("raw", raw))
      /\ quat' \in SampleSet /\ Stamped(NewestOf("quat", quat))
  BY <1>1, <1>3, NewestIsStamped
<1>5. drain' = [started |-> drain.started, reads |-> 0, total |-> 0, batch |-> <<>>]
  BY <1>1 DEF Idle
<1>6. SampleTypes'
  <2>1. <<>> \in Seq(FrameSet) /\ drain.started \in Nat
    BY <1>3 DEF SampleTypes
  <2>2. drain' \in [started : Nat, reads : Nat, total : Nat, batch : Seq(FrameSet)]
    BY <1>5, <2>1
  <2>3. drain'.started = drain.started
    BY <1>5
  <2> QED BY <1>1, <1>2, <1>3, <1>4, <2>2, <2>3 DEF SampleTypes
<1>7. SerialInv'
  <2>1. Stamped(raw)' /\ Stamped(quat)'
    BY <1>1, <1>4, <1>5 DEF Stamped
  <2>2. partial' = None \/ (Stamped(partial)' /\ partial'.stamp > 0)
    BY <1>1, <1>3, <1>5 DEF SerialInv, Stamped
  <2>3. drain'.batch = <<>> /\ line' = <<>>
    BY <1>1, <1>5
  <2> QED BY <2>1, <2>2, <2>3 DEF SerialInv
<1>8. WorkerInv' /\ SamplesAreRecent'
  BY <1>1 DEF SamplesInv, WorkerInv, SamplesAreRecent
<1> QED BY <1>6, <1>7, <1>8 DEF SamplesInv

LEMMA SnapshotKeepsSamples ==
  ASSUME SamplesInv, DrainSnapshot
  PROVE  SamplesInv'
<1>1. /\ source # "yahboom" /\ Snapshot /\ Observe
      /\ UNCHANGED <<now, source, line, partial, drain, sent, reading, latest>>
  BY DEF DrainSnapshot, Running, historyVars
<1>2. pc' \in {"select", "infer", "done"}
  BY <1>1, AfterDrain
<1>3. /\ raw' \in SampleSet /\ quat' \in SampleSet
      /\ raw'.at = raw'.stamp /\ quat'.at = quat'.stamp
  <2>1. CASE UNCHANGED <<raw, quat>>
    BY <1>1, <2>1 DEF SamplesInv, SampleTypes, WorkerInv
  <2>2. CASE raw' = [stamp |-> latest, at |-> latest] /\ quat' = raw'
    BY <2>2 DEF SamplesInv, SampleTypes, SampleSet
  <2> QED BY <1>1, <2>1, <2>2 DEF Snapshot
<1>4. SampleTypes'
  BY <1>1, <1>2, <1>3 DEF SamplesInv, SampleTypes
<1>5. SerialInv' /\ WorkerInv' /\ SamplesAreRecent'
  BY <1>1, <1>3 DEF SamplesInv, SerialInv, WorkerInv, SamplesAreRecent
<1> QED BY <1>4, <1>5 DEF SamplesInv

\* A fresh stamp bounds the age of the sample, and how long the target was
\* in work, which is how long the bytes that came meanwhile have waited.
LEMMA SendKeepsSamples ==
  ASSUME SamplesInv, Send
  PROVE  SamplesInv'
<1> USE AgeIsPositive
<1>1. /\ pc = "send" /\ pc' = "select" /\ Fresh
      /\ sent'.age = now - Min({raw.at, quat.at})
      /\ UNCHANGED <<now, source, line, partial, drain, raw, quat, reading, latest>>
  BY DEF Send, Running, imuVars
<1>2. /\ now \in Nat /\ raw.at \in Nat /\ quat.at \in Nat /\ raw.stamp \in Nat /\ quat.stamp \in Nat
      /\ drain.started \in Nat /\ drain.started <= now /\ raw.at \in Int /\ quat.at \in Int
  BY DEF SamplesInv, SampleTypes, SampleSet
<1>3. now - raw.stamp <= MaxAge /\ now - quat.stamp <= MaxAge
  BY <1>1 DEF Fresh
<1>4. Min({raw.at, quat.at}) \in {raw.at, quat.at}
  BY <1>2, LesserOfTwo
<1>5. SampleTypes'
  BY <1>1, <1>2, <1>4 DEF SamplesInv, SampleTypes
<1>6. CASE source = "yahboom"
  <2>1. raw.stamp <= drain.started /\ raw.stamp - raw.at < MaxAge /\ quat.stamp - quat.at < MaxAge
    BY <1>6 DEF SamplesInv, SerialInv, Stamped
  <2>2. SamplesAreRecent'
    <3>1. now - raw.at < 2 * MaxAge /\ now - quat.at < 2 * MaxAge
      BY <1>2, <1>3, <2>1
    <3> QED BY <1>1, <1>4, <1>6, <3>1 DEF SamplesAreRecent
  <2>3. SerialInv'
    <3>1. \A i \in DOMAIN line : line[i].at > drain.started
      BY <1>1, <1>6 DEF SamplesInv, SerialInv, PastDrain
    <3>2. \A i \in DOMAIN line : line[i].at \in Nat
      <4>1. line \in Seq(ChunkSet)
        BY DEF SamplesInv, SampleTypes
      <4>2. \A i \in DOMAIN line : line[i] \in ChunkSet
        BY <4>1
      <4> QED BY <4>2 DEF ChunkSet
    <3>3. \A i \in DOMAIN line : now - line[i].at < MaxAge
      BY <1>2, <1>3, <2>1, <3>1, <3>2
    <3> QED BY <1>1, <3>3 DEF SamplesInv, SerialInv, Stamped, PastDrain
  <2> QED BY <1>1, <1>5, <1>6, <2>2, <2>3 DEF SamplesInv, WorkerInv
<1>7. CASE source # "yahboom"
  <2>1. raw.at = raw.stamp /\ quat.at = quat.stamp
    BY <1>7 DEF SamplesInv, WorkerInv
  <2>2. SamplesAreRecent'
    BY <1>1, <1>2, <1>3, <1>4, <1>7, <2>1 DEF SamplesAreRecent
  <2> QED BY <1>1, <1>5, <1>7, <2>1, <2>2 DEF SamplesInv, SerialInv, WorkerInv
<1> QED BY <1>6, <1>7

\* Bytes that end the wait in select are new; elsewhere they come after the
\* start of the drain.
LEMMA TickKeepsSamples ==
  ASSUME SamplesInv, Tick
  PROVE  SamplesInv'
<1> USE AgeIsPositive
<1>1. /\ now' = now + 1 /\ SerialTick /\ (pc = "select" => line = <<>>)
      /\ UNCHANGED <<source, partial, drain, raw, quat, reading, latest, pc, sent>>
  BY DEF Tick, clientVars, historyVars
<1>2. /\ now \in Nat \ {0} /\ line \in Seq(ChunkSet) /\ drain.started \in Nat /\ drain.started <= now
      /\ Len(line) \in Nat /\ DOMAIN line = 1..Len(line)
  BY DEF SamplesInv, SampleTypes
<1>3. CASE source # "yahboom"
  <2>1. line' = line
    BY <1>1, <1>3 DEF SerialTick
  <2> QED BY <1>1, <1>2, <1>3, <2>1
        DEF SamplesInv, SampleTypes, SerialInv, WorkerInv, SamplesAreRecent
<1>4. CASE source = "yahboom"
  <2>1. PICK kinds \in Arrivals : line' = line \o [i \in DOMAIN kinds |-> [kind |-> kinds[i], at |-> now']]
    BY <1>1, <1>4 DEF SerialTick
  <2> DEFINE new == [i \in DOMAIN kinds |-> [kind |-> kinds[i], at |-> now']]
  <2>2. kinds \in Seq({"head", "tail", "noise"})
    <3>1. NextKind \in {"head", "tail", "noise"}
      BY DEF NextKind
    <3>2. kinds = <<>> \/ kinds = <<"noise">> \/ kinds = <<NextKind>> \/ kinds = <<"head", "tail">>
      BY <2>1 DEF Arrivals
    <3>3. CASE kinds = <<>>
      BY <3>3
    <3>4. CASE kinds = <<"noise">>
      BY <3>4
    <3>5. CASE kinds = <<NextKind>>
      BY <3>1, <3>5
    <3>6. CASE kinds = <<"head", "tail">>
      BY <3>6
    <3> QED BY <3>2, <3>3, <3>4, <3>5, <3>6
  <2>3. /\ new \in Seq(ChunkSet) /\ \A i \in DOMAIN new : new[i].at = now'
        /\ Len(new) \in Nat /\ DOMAIN new = 1..Len(new)
    <3>1. Len(kinds) \in Nat /\ DOMAIN kinds = 1..Len(kinds)
      BY <2>2
    <3>2. \A i \in 1..Len(kinds) : [kind |-> kinds[i], at |-> now'] \in ChunkSet
      BY <1>1, <1>2, <2>2, <3>1 DEF ChunkSet
    <3> QED BY <3>1, <3>2
  <2> HIDE DEF new
  <2>4. line' \in Seq(ChunkSet)
    BY <1>2, <2>1, <2>3 DEF new
  <2>5. ASSUME NEW i \in DOMAIN line'
        PROVE  (i \in DOMAIN line /\ line'[i] = line[i]) \/ line'[i].at = now'
    <3>1. line' = line \o new
      BY <2>1 DEF new
    <3>2. i \in 1..(Len(line) + Len(new))
      BY <1>2, <2>3, <2>5, <3>1
    <3>3. CASE i <= Len(line)
      BY <1>2, <2>3, <3>1, <3>2, <3>3
    <3>4. CASE i > Len(line)
      <4>1. PICK j \in DOMAIN new : j = i - Len(line)
        BY <1>2, <2>3, <3>2, <3>4
      <4>2. line'[i] = new[j]
        BY <1>2, <2>3, <3>1, <3>2, <3>4, <4>1
      <4> QED BY <2>3, <4>1, <4>2
    <3> QED BY <1>2, <3>2, <3>3, <3>4
  <2>6. SampleTypes'
    BY <1>1, <1>2, <2>4 DEF SamplesInv, SampleTypes
  <2>7. SerialInv'
    <3>1. ASSUME NEW i \in DOMAIN line'
          PROVE  /\ pc = "select" => now' - line'[i].at < MaxAge
                 /\ pc # "select" => drain.started - line'[i].at < MaxAge
                 /\ PastDrain => line'[i].at > drain.started
      <4>1. CASE line'[i].at = now'
        BY <1>1, <1>2, <4>1
      <4>2. CASE i \in DOMAIN line /\ line'[i] = line[i]
        <5>1. pc # "select"
          BY <1>1, <4>2
        <5> QED BY <1>4, <4>2, <5>1 DEF SamplesInv, SerialInv
      <4> QED BY <2>5, <3>1, <4>1, <4>2
    <3>2. SerialInv
      BY DEF SamplesInv
    <3> QED BY <1>1, <1>4, <3>1, <3>2 DEF SerialInv, Stamped, PastDrain
  <2> QED BY <1>1, <1>4, <2>6, <2>7 DEF SamplesInv, WorkerInv, SamplesAreRecent
<1> QED BY <1>3, <1>4

LEMMA SamplesStep == ASSUME SamplesInv, [Next]_vars PROVE SamplesInv'
<1> DEFINE types == reading \in Nat /\ latest \in Nat /\ now \in Nat
<1>1. types
  BY DEF SamplesInv, SampleTypes
<1>2. CASE WorkerStep
  <2>1. UNCHANGED samplesVars /\ UNCHANGED pc /\ reading' \in Nat /\ latest' \in Nat
    BY <1>1, <1>2
    DEF WorkerStep, Worker, WorkerReads, WorkerPublishes, ReadFails, PacketRefused, WorkerFails,
        clientVars, historyVars, samplesVars
  <2> QED BY <2>1, OthersKeepSamples
<1>3. CASE Disconnected \/ DrainFails \/ Infer \/ Project \/ SendFails \/ UNCHANGED vars
  <2>1. UNCHANGED samplesVars /\ UNCHANGED <<reading, latest>>
    BY <1>3 DEF Disconnected, DrainFails, Infer, Project, SendFails, Running, vars, imuVars, clientVars,
                historyVars, samplesVars
  <2>2. pc' = pc \/ pc' = "done" \/ (PastDrain /\ PastDrain')
    BY <1>3 DEF Disconnected, DrainFails, Infer, Project, SendFails, Finish, Fail, vars, clientVars, PastDrain
  <2> QED BY <1>1, <2>1, <2>2, OthersKeepSamples
<1> QED BY <1>2, <1>3, DrainStartsInTime, ReadKeepsSamples, CommitKeepsSamples, SnapshotKeepsSamples,
           SendKeepsSamples, TickKeepsSamples DEF Next, Client

LEMMA SamplesStart == Init => SamplesInv
<1> SUFFICES ASSUME Init PROVE SamplesInv
  OBVIOUS
<1>1. /\ now = 1 /\ line = <<>> /\ partial = None /\ raw = None /\ quat = None /\ drain = Idle
      /\ reading = 0 /\ latest = 0 /\ pc = "select" /\ sent.age = 0
  BY DEF Init, ImuInit
<1>2. <<>> \in Seq(FrameSet) /\ <<>> \in Seq(ChunkSet) /\ None \in SampleSet
  BY DEF None, SampleSet
<1>3. SampleTypes
  BY <1>1, <1>2 DEF SampleTypes, Idle
<1>4. SerialInv
  BY <1>1, AgeIsPositive DEF SerialInv, Stamped, None, Idle
<1> QED BY <1>1, <1>3, <1>4, AgeIsPositive DEF SamplesInv, WorkerInv, SamplesAreRecent, None

\* A target of a worker source rests on a sample at most MaxAge old when it is
\* sent, one of the serial module on samples less than twice as old: the check
\* bounds the time since the drain, and what was read then had waited in the
\* port for as long as the target before it was in work at most
\* (imu_receive.py, _drain_imu and require_fresh_imu; native_policy_client.py,
\* run).
THEOREM SamplesStayRecent == Spec => []SamplesAreRecent
<1>1. SamplesInv => SamplesAreRecent
  BY DEF SamplesInv
<1> QED BY <1>1, SamplesStart, SamplesStep, PTL DEF Spec

(***************************************************************************)
(* The robot stands at the end.                                            *)
(***************************************************************************)

\* The controller's active loop outlasts the stages of the profile by its
\* target timeout and its limit on the age of a source state together.
LoopOutlastsStages == \A i \in 1..4 : StageEnds[i] + TargetTimeout + MaxLag <= Duration

LEMMA SessionConstants ==
  /\ Period \in Nat \ {0} /\ TargetTimeout \in Nat /\ MaxLag \in Nat /\ Duration \in Nat
  /\ MaxSkips \in Nat /\ \A i \in 1..4 : StageEnds[i] \in Nat
  BY ClientAssumption DEF ClientAssumption

SessionTypes ==
  /\ now \in Nat \ {0} /\ toClient \in Seq(1..now)
  /\ work \in 0..now /\ profileStart \in 0..now /\ heard \in 0..now /\ activeAt \in 0..now
  /\ PastDrain => work # 0 /\ profileStart # 0

\* The stage of a target is that of its source state, which the controller
\* has found recent when the target came; the profile started before the
\* first target.
StageInv ==
  /\ PastDrain => stage = StageAt(work - profileStart)
  /\ activeAt # 0 => profileStart # 0 /\ profileStart <= activeAt
  /\ activeAt # 0 /\ connection = "open" =>
       \E w \in Nat : heard - w <= MaxLag /\ sent.stage = StageAt(w - profileStart)
  /\ connection = "complete" /\ LoopOutlastsStages => sent.stage = 5

StandInv == SessionTypes /\ StageInv

\* What has gone past the end of every stage has come to the last.
LEMMA LastStage ==
  ASSUME NEW e \in Int, \A i \in 1..4 : e >= StageEnds[i]
  PROVE  StageAt(e) = 5
<1>1. {i \in 1..4 : e >= StageEnds[i]} = 1..4
  OBVIOUS
<1>2. Cardinality(1..4) = 4
  <2>1. 1 \in Int /\ 4 \in Int
    OBVIOUS
  <2>2. Cardinality(1..4) = IF 1 > 4 THEN 0 ELSE 4 - 1 + 1
    BY <2>1, FS_Interval, Zenon
  <2> QED BY <2>2
<1> QED BY <1>1, <1>2 DEF StageAt

\* What elements of a set make.
LEMMA ElementsMakeSeq ==
  ASSUME NEW S, NEW n \in Nat, NEW s, s = [i \in 1..n |-> s[i]], \A i \in 1..n : s[i] \in S
  PROVE  s \in Seq(S)
<1>1. s \in [1..n -> S]
  OBVIOUS
<1> QED BY <1>1

sessionVars ==
  <<now, connection, toClient, heard, activeAt, work, profileStart, stage, sent>>

\* Steps that only move the client on, on its side of the drain.
Onward ==
  /\ UNCHANGED sessionVars
  /\ PastDrain' => PastDrain

LEMMA OnwardSteps ==
  ASSUME \/ WorkerStep \/ ImuReadable \/ Disconnected \/ DrainRead \/ DrainFails
         \/ Infer \/ Project \/ SendFails \/ UNCHANGED vars
  PROVE  Onward
<1>1. CASE WorkerStep
  BY <1>1 DEF WorkerStep, Worker, WorkerReads, WorkerPublishes, ReadFails, PacketRefused, WorkerFails,
         controllerVars, clientVars, progressVars, historyVars, sessionVars, Onward, PastDrain
<1>2. CASE ImuReadable \/ Disconnected \/ DrainRead \/ DrainFails
  BY <1>2 DEF ImuReadable, SelectReturns, Disconnected, DrainRead, DrainFails, Finish, Fail, Running,
         controllerVars, clientVars, progressVars, historyVars, sessionVars, Onward, PastDrain
<1>3. CASE Infer \/ Project \/ SendFails
  BY <1>3 DEF Infer, Project, SendFails, Finish, Fail, Running,
         controllerVars, progressVars, historyVars, sessionVars, Onward, PastDrain
<1>4. CASE UNCHANGED vars
  BY <1>4 DEF vars, controllerVars, clientVars, progressVars, historyVars, sessionVars, Onward,
         PastDrain
<1> QED BY <1>1, <1>2, <1>3, <1>4

LEMMA OnwardKeepsStand ==
  ASSUME StandInv, Onward
  PROVE  StandInv'
<1> USE DEF Onward, sessionVars
<1>1. SessionTypes'
  BY DEF StandInv, SessionTypes
<1>2. StageInv'
  BY DEF StandInv, StageInv, StageAt
<1> QED BY <1>1, <1>2 DEF StandInv

\* A state is taken from the front of those under way.
LEMMA ReceiveKeepsStand ==
  ASSUME StandInv, ReceiveState
  PROVE  StandInv'
<1>1. /\ toClient # <<>> /\ work' = Head(toClient) /\ toClient' = Tail(toClient) /\ pc' = "drain"
      /\ UNCHANGED <<now, connection, heard, activeAt, profileStart, stage, sent>>
  BY DEF ReceiveState, SelectReturns, Running, historyVars
<1>2. now \in Nat /\ toClient \in Seq(1..now)
  BY DEF StandInv, SessionTypes
<1>3. Head(toClient) \in 1..now /\ Tail(toClient) \in Seq(1..now)
  BY <1>1, <1>2
<1>4. SessionTypes'
  BY <1>1, <1>3 DEF StandInv, SessionTypes, PastDrain
<1>5. StageInv'
  BY <1>1 DEF StandInv, StageInv, PastDrain, StageAt
<1> QED BY <1>4, <1>5 DEF StandInv

\* What a drain that ends well makes of the state in work.
LEMMA ObserveEffect ==
  ASSUME DrainCommits \/ DrainSnapshot
  PROVE  /\ pc = "drain"
         /\ UNCHANGED <<now, connection, skips, toClient, heard, activeAt, sent, steps>>
         /\ \/ /\ pc' = "select" /\ work' = 0 /\ UNCHANGED <<profileStart, stage>>
               /\ work = 0 \/ raw' = None \/ quat' = None
            \/ pc' = "done" /\ UNCHANGED <<profileStart, stage, work>>
            \/ /\ pc' = "infer" /\ work' = work /\ work # 0
               /\ raw'.stamp # 0 /\ quat'.stamp # 0
               /\ profileStart' = IF profileStart = 0 THEN work ELSE profileStart
               /\ stage' = StageAt(work - profileStart')
<1>1. /\ pc = "drain" /\ Observe
      /\ UNCHANGED <<now, connection, skips, toClient, heard, activeAt, sent, steps>>
  BY DEF DrainCommits, DrainSnapshot, Running, controllerVars, historyVars
<1>2. CASE work = 0 \/ ~Ready(raw', quat')
  BY <1>1, <1>2 DEF Observe, Ready
<1>3. CASE ~(work = 0 \/ ~Ready(raw', quat')) /\ ~Fresh'
  BY <1>1, <1>3 DEF Observe, Fail
<1>4. CASE ~(work = 0 \/ ~Ready(raw', quat')) /\ Fresh'
  <2>1. raw'.stamp > 0 /\ quat'.stamp > 0
    BY <1>4 DEF Fresh
  <2>2. ~(0 > 0)
    OBVIOUS
  <2> QED BY <1>1, <1>4, <2>1, <2>2 DEF Observe, Ready
<1> QED BY <1>1, <1>2, <1>3, <1>4

LEMMA ObserveKeepsStand ==
  ASSUME StandInv, DrainCommits \/ DrainSnapshot
  PROVE  StandInv'
<1>1. /\ UNCHANGED <<now, connection, toClient, heard, activeAt, sent>>
      /\ \/ pc' \in {"select", "done"} /\ work' \in {0, work} /\ profileStart' = profileStart
         \/ /\ pc' = "infer" /\ work' = work /\ work # 0
            /\ profileStart' = (IF profileStart = 0 THEN work ELSE profileStart)
            /\ stage' = StageAt(work - profileStart')
  BY ObserveEffect
<1>2. profileStart # 0 => profileStart' = profileStart
  BY <1>1
<1>3. SessionTypes'
  BY <1>1 DEF StandInv, SessionTypes, PastDrain
<1>4. StageInv'
  <2>1. PastDrain' => stage' = StageAt(work - profileStart)'
    BY <1>1 DEF PastDrain, StageAt
  <2>2. activeAt' # 0 => profileStart' = profileStart /\ profileStart # 0 /\ profileStart <= activeAt
    BY <1>1, <1>2 DEF StandInv, StageInv
  <2>3. activeAt' # 0 /\ connection' = "open" =>
          \E w \in Nat : heard' - w <= MaxLag /\ sent'.stage = StageAt(w - profileStart')
    BY <1>1, <2>2 DEF StandInv, StageInv
  <2>4. connection' = "complete" /\ LoopOutlastsStages => sent'.stage = 5
    BY <1>1 DEF StandInv, StageInv
  <2> QED BY <1>1, <2>1, <2>2, <2>3, <2>4 DEF StageInv, StageAt
<1> QED BY <1>3, <1>4 DEF StandInv

\* The controller goes on only with a target whose source state is recent.
LEMMA SendKeepsStand ==
  ASSUME StandInv, Send
  PROVE  StandInv'
<1> USE SessionConstants
<1>1. /\ pc = "send" /\ pc' = "select" /\ connection = "open"
      /\ heard' = now /\ activeAt' = IF activeAt = 0 THEN now ELSE activeAt
      /\ connection' = IF now - work > MaxLag THEN "lost" ELSE "open"
      /\ work' = 0 /\ sent'.stage = stage
      /\ UNCHANGED <<now, toClient, profileStart, stage>>
  BY DEF Send, Running, progressVars
<1>2. /\ work \in Nat /\ now \in Nat \ {0} /\ profileStart # 0 /\ profileStart <= now
      /\ stage = StageAt(work - profileStart)
      /\ activeAt # 0 => profileStart <= activeAt
  BY <1>1 DEF StandInv, SessionTypes, StageInv, PastDrain
<1>3. SessionTypes'
  BY <1>1 DEF StandInv, SessionTypes, PastDrain
<1>4. activeAt' # 0 /\ connection' = "open" =>
        \E w \in Nat : heard' - w <= MaxLag /\ sent'.stage = StageAt(w - profileStart')
  <2> SUFFICES ASSUME connection' = "open"
               PROVE  heard' - work <= MaxLag /\ sent'.stage = StageAt(work - profileStart')
    BY <1>2
  <2>1. ~(now - work > MaxLag)
    BY <1>1
  <2>2. now - work <= MaxLag
    BY <1>2, <2>1
  <2> QED BY <1>1, <1>2, <2>2
<1>5. StageInv'
  BY <1>1, <1>2, <1>4 DEF StageInv, PastDrain, StageAt
<1> QED BY <1>3, <1>5 DEF StandInv

\* What a tick does to the connection and the states under way.
LEMMA TickEffect ==
  ASSUME Tick
  PROVE  /\ now' = now + 1
         /\ UNCHANGED <<heard, activeAt, pc, work, profileStart, stage, sent, steps, raw, quat>>
         /\ \/ UNCHANGED <<connection, skips, toClient>> /\ connection # "open"
            \/ /\ connection = "open" /\ connection' \in {"lost", "complete"}
               /\ skips' = skips /\ toClient' \in {toClient, <<>>}
               /\ connection' = "complete" =>
                    activeAt # 0 /\ now >= activeAt + Duration /\ ~(now - heard > TargetTimeout)
            \/ connection = "open" /\ connection' = "open" /\ Publish
<1>1. /\ now' = now + 1 /\ ControllerTick
      /\ UNCHANGED <<heard, activeAt, pc, work, profileStart, stage, sent, steps, raw, quat>>
  BY DEF Tick, clientVars, progressVars, historyVars
<1>2. CASE connection # "open"
  BY <1>1, <1>2 DEF ControllerTick
<1>3. CASE connection = "open" /\ Hangup("lost")
  BY <1>1, <1>3 DEF Hangup
<1>4. CASE connection = "open" /\ ~Expired /\ activeAt # 0 /\ now >= activeAt + Duration
           /\ Hangup("complete")
  <2>1. ~(now - heard > TargetTimeout)
    BY <1>4 DEF Expired
  <2> QED BY <1>1, <1>4, <2>1 DEF Hangup
<1>5. CASE connection = "open" /\ Publish
  BY <1>1, <1>5 DEF Publish
<1> QED BY <1>1, <1>2, <1>3, <1>4, <1>5 DEF ControllerTick

LEMMA TickKeepsStand ==
  ASSUME StandInv, Tick
  PROVE  StandInv'
<1> USE SessionConstants
<1>1. /\ now' = now + 1 /\ now \in Nat \ {0} /\ toClient \in Seq(1..now)
      /\ UNCHANGED <<heard, activeAt, pc, work, profileStart, stage, sent>>
  BY TickEffect DEF StandInv, SessionTypes
<1>2. toClient' \in Seq(1..now')
  <2>1. toClient \in Seq(1..now') /\ <<>> \in Seq(1..now')
    <3>1. \A i \in 1..Len(toClient) : toClient[i] \in 1..now'
      <4> TAKE i \in 1..Len(toClient)
      <4>1. toClient[i] \in 1..now
        BY <1>1
      <4> QED BY <1>1, <4>1
    <3>2. Len(toClient) \in Nat /\ toClient = [i \in 1..Len(toClient) |-> toClient[i]]
      BY <1>1
    <3>3. toClient \in Seq(1..now')
      BY <3>1, <3>2, ElementsMakeSeq
    <3>4. <<>> \in Seq(1..now')
      OBVIOUS
    <3> QED BY <3>3, <3>4
  <2>2. now' \in 1..now'
    BY <1>1
  <2>3. toClient' \in {toClient, <<>>, Append(toClient, now')}
    BY TickEffect DEF Publish
  <2>4. Append(toClient, now') \in Seq(1..now')
    BY <2>1, <2>2
  <2> QED BY <2>1, <2>3, <2>4
<1>3. SessionTypes'
  BY <1>1, <1>2 DEF StandInv, SessionTypes, PastDrain
<1>4. connection' = "complete" /\ LoopOutlastsStages => sent.stage = 5
  <2>1. CASE connection = "complete"
    BY <2>1 DEF StandInv, StageInv
  <2>2. CASE connection # "complete" /\ connection' = "complete" /\ LoopOutlastsStages
    <3>1. /\ connection = "open" /\ activeAt # 0 /\ now >= activeAt + Duration
          /\ ~(now - heard > TargetTimeout)
      BY <2>2, TickEffect
    <3>2. PICK w \in Nat : heard - w <= MaxLag /\ sent.stage = StageAt(w - profileStart)
      BY <3>1 DEF StandInv, StageInv
    <3>3. profileStart <= activeAt
      BY <3>1 DEF StandInv, StageInv
    <3>4. /\ heard \in Nat /\ activeAt \in Nat /\ profileStart \in Nat
      BY DEF StandInv, SessionTypes
    <3>5. \A i \in 1..4 : w - profileStart >= StageEnds[i]
      <4> TAKE i \in 1..4
      <4>1. StageEnds[i] + TargetTimeout + MaxLag <= Duration /\ StageEnds[i] \in Nat
        BY <2>2 DEF LoopOutlastsStages
      <4> QED BY <1>1, <3>1, <3>2, <3>3, <3>4, <4>1
    <3> QED BY <3>2, <3>4, <3>5, LastStage
  <2> QED BY <2>1, <2>2
<1>5. connection' = "open" => connection = "open"
  BY TickEffect
<1>6. StageInv'
  BY <1>1, <1>4, <1>5 DEF StandInv, StageInv, PastDrain, StageAt
<1> QED BY <1>3, <1>6 DEF StandInv

LEMMA StandStart == Init => StandInv
<1> SUFFICES ASSUME Init PROVE StandInv
  OBVIOUS
<1>1. <<>> \in Seq(1..now)
  OBVIOUS
<1> QED BY <1>1 DEF Init, StandInv, SessionTypes, StageInv, PastDrain

LEMMA StandStep ==
  ASSUME StandInv, [Next]_vars
  PROVE  StandInv'
  BY OnwardSteps, OnwardKeepsStand, ReceiveKeepsStand, ObserveKeepsStand, SendKeepsStand,
     TickKeepsStand DEF Next, Client

\* However late the profile started, however many states were left out and
\* whatever the client did, a controller that runs to its end has last been
\* told to stand, if its loop outlasts the stages by the two limits
\* (native_policy_client.py, run; sprite_can_shadow.cpp, the active loop).
THEOREM StandsWhenComplete ==
  ASSUME LoopOutlastsStages
  PROVE  Spec => []StandsAtTheEnd
<1>1. StandInv => StandsAtTheEnd
  BY DEF StandInv, StageInv, StandsAtTheEnd, Stages
<1> QED BY <1>1, StandStart, StandStep, PTL DEF Spec

(***************************************************************************)
(* A robot that walks has the full gain.                                   *)
(***************************************************************************)

\* Time for n periods.
Reach(n) == Period * n

\* The period at hand began here.
LastSlot == now - (now % Period)

\* The last startup target comes before the end of the first stage, with
\* all the states that may be left out.
StandOutlastsStartup == \A i \in 1..4 : Reach(LastStep + MaxSkips - 2) < StageEnds[i]

\* The states q are, after time b, at most one period each apart but for
\* those left out, and so is the next, if any, after its slot; k more precede.
Within(q, more, slot, left, b, k) ==
  /\ \A j \in 1..Len(q) : k + j >= 0 => q[j] - b <= Reach(k + j + left)
  /\ more => slot - b <= Reach(k + Len(q) + left)

UnderWay(b, k) == Within(toClient, connection = "open", LastSlot, skips, b, k)

\* A state in work that no target has answered or counted yet.
Pending == IF work # 0 /\ pc \in {"drain", "infer"} THEN 1 ELSE 0

CountTypes == skips \in 0..MaxSkips /\ steps \in 0..LastStep

\* No state is dropped once the profile has started, so until the startup is
\* over the time in the profile is at most that of the targets counted and
\* of the states left out.
CountInv ==
  /\ pc = "select" => work = 0
  /\ profileStart # 0 => raw.stamp # 0 /\ quat.stamp # 0
  /\ \A i \in DOMAIN toClient : UnderWay(toClient[i], 0 - i)
  /\ work # 0 => UnderWay(work, 0)
  /\ profileStart # 0 /\ steps < LastStep =>
       /\ work # 0 => work - profileStart <= Reach(steps + Pending - 1 + skips)
       /\ UnderWay(profileStart, steps + Pending - 1)

WalkInv ==
  /\ SamplesInv /\ StandInv /\ CountTypes /\ WalksAtFullGain
  /\ pc # "done" => CountInv

LEMMA ReachGrows ==
  /\ Reach(0) = 0
  /\ \A n \in Int : Reach(n) \in Int /\ Reach(n + 1) = Reach(n) + Period
<1>1. Period \in Nat
  BY SessionConstants
<1>2. \A n \in Int : Period * n \in Int /\ Period * (n + 1) = Period * n + Period
  BY <1>1
<1> QED BY <1>1, <1>2 DEF Reach

LEMMA ReachMonotone ==
  ASSUME NEW m \in Int, NEW n \in Int, m <= n
  PROVE  Reach(m) <= Reach(n)
<1>1. Period \in Nat
  BY SessionConstants
<1>2. PICK d \in Nat : n = m + d
  <2>1. n - m \in Nat /\ n = m + (n - m)
    OBVIOUS
  <2> QED BY <2>1
<1>3. Period * d >= 0 /\ Period * (m + d) = Period * m + Period * d
  BY <1>1
<1>4. Period * m \in Int /\ Period * d \in Int
  BY <1>1
<1> QED BY <1>2, <1>3, <1>4 DEF Reach

\* The startup ends with the longer of its two counts.
LEMMA StartupCounts ==
  /\ LastStep \in Nat /\ HoldSteps \in Nat /\ RampSteps \in Nat /\ HandoffSteps \in Nat
  /\ LastStep >= HandoffSteps /\ LastStep >= HoldSteps + RampSteps
<1>1. HoldSteps \in Nat /\ RampSteps \in Nat \ {0} /\ HandoffSteps \in Nat
  BY ClientAssumption DEF ClientAssumption
<1>2. PICK d \in Int : d = HoldSteps + RampSteps
  BY <1>1
<1>3. LastStep \in {HandoffSteps, d} /\ LastStep >= HandoffSteps /\ LastStep >= d
  <2>1. HandoffSteps \in Int
    BY <1>1
  <2>2. /\ Max({HandoffSteps, d}) \in {HandoffSteps, d}
        /\ Max({HandoffSteps, d}) >= HandoffSteps /\ Max({HandoffSteps, d}) >= d
    BY <1>2, <2>1, GreaterOfTwo, Zenon
  <2> QED BY <1>2, <2>2 DEF LastStep
<1> QED BY <1>1, <1>2, <1>3

\* A remainder grows by one or starts over.
LEMMA SlotAdvances ==
  ASSUME now \in Nat, now' = now + 1
  PROVE  /\ LastSlot \in Int
         /\ now' % Period # 0 => LastSlot' = LastSlot
         /\ now' % Period = 0 => LastSlot' = LastSlot + Period /\ LastSlot' = now'
<1> DEFINE p == Period
<1>1. p \in Nat \ {0}
  BY SessionConstants
<1> HIDE DEF p
<1>2. ASSUME NEW s \in Nat
      PROVE  s % p \in 0..(p - 1) /\ s \div p \in Int /\ s = p * (s \div p) + (s % p)
  BY <1>1
<1>3. PICK q \in Int, r \in 0..(p - 1) : now = p * q + r /\ r = now % p
  BY <1>2
<1>4. PICK k \in Int, t \in 0..(p - 1) : now + 1 = p * k + t /\ t = (now + 1) % p
  <2>1. now + 1 \in Nat
    OBVIOUS
  <2> QED BY <1>2, <2>1
<1>5. PICK d \in Int : d = k - q
  OBVIOUS
<1>6. p * d = r + 1 - t
  <2>1. p * (k - q) = p * k - p * q
    BY <1>1
  <2>2. p * k \in Int /\ p * q \in Int
    BY <1>1
  <2> QED BY <1>1, <1>3, <1>4, <1>5, <2>1, <2>2
<1>7. d = 0 \/ d = 1
  <2>1. CASE d >= 2
    <3>1. p * d >= p + p
      BY <1>1, <2>1
    <3> QED BY <1>1, <1>6, <3>1
  <2>2. CASE d <= -1
    <3>1. p * d <= -p
      BY <1>1, <2>2
    <3> QED BY <1>1, <1>6, <3>1
  <2> QED BY <2>1, <2>2
<1>8. \/ t = r + 1
      \/ t = r + 1 - p
  BY <1>1, <1>6, <1>7
<1>9. (t # 0 => t = r + 1) /\ (t = 0 => r = p - 1)
  BY <1>1, <1>8
<1>10. /\ LastSlot = now - r /\ LastSlot' = now + 1 - t /\ now' % Period = t
  <2>1. r = now % Period /\ t = (now + 1) % Period
    BY <1>3, <1>4, Zenon DEF p
  <2>2. t = now' % Period
    BY <2>1, Zenon
  <2> QED BY <2>1, <2>2 DEF LastSlot
<1> QED BY <1>1, <1>9, <1>10 DEF p

\* The first of the states goes, and counts among those that precede.
LEMMA WithinTail ==
  ASSUME NEW q \in Seq(Nat), q # <<>>, NEW more, NEW slot \in Int, NEW left \in Nat, NEW b \in Int,
         NEW k \in Int, NEW m \in Int, m = k + 1,
         Within(q, more, slot, left, b, k)
  PROVE  Within(Tail(q), more, slot, left, b, m)
<1>1. /\ Len(q) \in Nat /\ Len(Tail(q)) = Len(q) - 1
      /\ \A j \in 1..(Len(q) - 1) : Tail(q)[j] = q[j + 1] /\ j + 1 \in 1..Len(q)
  OBVIOUS
<1>2. ASSUME NEW j \in 1..Len(Tail(q)), m + j >= 0
      PROVE  Tail(q)[j] - b <= Reach(m + j + left)
  <2>1. Tail(q)[j] = q[j + 1] /\ j + 1 \in 1..Len(q)
    BY <1>1
  <2>2. k + (j + 1) >= 0 /\ k + (j + 1) + left = m + j + left
    BY <1>2
  <2>3. q[j + 1] - b <= Reach(k + (j + 1) + left)
    BY <2>1, <2>2 DEF Within
  <2> QED BY <2>1, <2>2, <2>3
<1>3. more => slot - b <= Reach(m + Len(Tail(q)) + left)
  <2>1. m + Len(Tail(q)) + left = k + Len(q) + left
    BY <1>1
  <2> QED BY <2>1 DEF Within
<1> QED BY <1>2, <1>3 DEF Within

\* A state follows, in its slot.
LEMMA WithinAppend ==
  ASSUME NEW q \in Seq(Nat), NEW slot \in Int, NEW left \in Nat, NEW b \in Int,
         NEW k \in Int, NEW after \in Nat, after = slot + Period, NEW more,
         Within(q, TRUE, slot, left, b, k)
  PROVE  Within(Append(q, after), more, after, left, b, k)
<1>1. /\ Len(q) \in Nat /\ Len(Append(q, after)) = Len(q) + 1
      /\ \A j \in 1..Len(q) : Append(q, after)[j] = q[j]
      /\ Append(q, after)[Len(q) + 1] = after
  OBVIOUS
<1>2. slot - b <= Reach(k + Len(q) + left)
  BY DEF Within
<1>3. after - b <= Reach(k + (Len(q) + 1) + left)
  <2>1. PICK n \in Int : n = k + Len(q) + left
    BY <1>1
  <2>2. Reach(n) \in Int /\ Reach(n + 1) = Reach(n) + Period /\ Period \in Nat
    BY ReachGrows, SessionConstants
  <2>3. n + 1 = k + (Len(q) + 1) + left
    BY <1>1, <2>1
  <2>4. slot - b <= Reach(n)
    BY <1>2, <2>1
  <2> QED BY <2>2, <2>3, <2>4
<1>4. ASSUME NEW j \in 1..(Len(q) + 1), k + j >= 0
      PROVE  Append(q, after)[j] - b <= Reach(k + j + left)
  <2>1. CASE j \in 1..Len(q)
    BY <1>1, <1>4, <2>1 DEF Within
  <2>2. CASE j = Len(q) + 1
    BY <1>1, <1>3, <2>2
  <2> QED BY <1>1, <2>1, <2>2
<1> QED BY <1>1, <1>3, <1>4 DEF Within

\* A state is left out, or time goes on to the end of the connection.
LEMMA WithinLeftOut ==
  ASSUME NEW q \in Seq(Nat), NEW more, NEW slot \in Int, NEW left \in Nat, NEW b \in Int,
         NEW k \in Int, NEW after \in Int, after = slot + Period, NEW l \in Nat, l = left + 1,
         Within(q, more, slot, left, b, k)
  PROVE  Within(q, more, after, l, b, k)
<1>1. Len(q) \in Nat /\ \A j \in 1..Len(q) : q[j] \in Nat
  OBVIOUS
<1>2. ASSUME NEW j \in 1..Len(q), k + j >= 0
      PROVE  q[j] - b <= Reach(k + j + l)
  <2>1. PICK n \in Int : n = k + j + left
    BY <1>1
  <2>2. q[j] - b <= Reach(n)
    BY <1>2, <2>1 DEF Within
  <2>3. Reach(n) \in Int /\ Reach(n + 1) = Reach(n) + Period /\ Period \in Nat
    BY ReachGrows, SessionConstants
  <2>4. n + 1 = k + j + l
    BY <1>1, <2>1
  <2>5. q[j] - b <= Reach(n + 1)
    <3>1. PICK v \in Int : v = q[j] - b
      BY <1>1
    <3> QED BY <2>2, <2>3, <3>1
  <2> QED BY <2>4, <2>5
<1>3. more => after - b <= Reach(k + Len(q) + l)
  <2>1. PICK n \in Int : n = k + Len(q) + left
    BY <1>1
  <2>2. /\ Reach(n) \in Int /\ Reach(n + 1) = Reach(n) + Period
        /\ n + 1 = k + Len(q) + l /\ Period \in Nat
    BY <1>1, <2>1, ReachGrows, SessionConstants
  <2>3. more => slot - b <= Reach(n)
    BY <2>1 DEF Within
  <2>4. more => after - b <= Reach(n + 1)
    BY <2>2, <2>3
  <2> QED BY <2>2, <2>4
<1> QED BY <1>2, <1>3 DEF Within

\* More may precede than must.
LEMMA WithinMore ==
  ASSUME NEW q \in Seq(Nat), NEW more, NEW slot \in Int, NEW left \in Nat, NEW b \in Int,
         NEW m \in Nat,
         Within(q, more, slot, left, b, 0)
  PROVE  Within(q, more, slot, left, b, m)
<1>1. Len(q) \in Nat
  OBVIOUS
<1>2. ASSUME NEW j \in 1..Len(q)
      PROVE  q[j] - b <= Reach(m + j + left)
  <2>1. q[j] - b <= Reach(0 + j + left) /\ q[j] \in Nat
    BY <1>1 DEF Within
  <2>2. /\ 0 + j + left \in Int /\ m + j + left \in Int /\ 0 + j + left <= m + j + left
    BY <1>1
  <2>3. /\ Reach(0 + j + left) <= Reach(m + j + left)
        /\ Reach(0 + j + left) \in Int /\ Reach(m + j + left) \in Int
    BY <2>2, ReachMonotone, ReachGrows
  <2> QED BY <2>1, <2>3
<1>3. more => slot - b <= Reach(m + Len(q) + left)
  <2>1. more => slot - b <= Reach(0 + Len(q) + left)
    BY DEF Within
  <2>2. /\ 0 + Len(q) + left \in Int /\ m + Len(q) + left \in Int
        /\ 0 + Len(q) + left <= m + Len(q) + left
    BY <1>1
  <2>3. /\ Reach(0 + Len(q) + left) <= Reach(m + Len(q) + left)
        /\ Reach(0 + Len(q) + left) \in Int /\ Reach(m + Len(q) + left) \in Int
    BY <2>2, ReachMonotone, ReachGrows
  <2> QED BY <2>1, <2>3
<1> QED BY <1>2, <1>3 DEF Within

\* The types that count.
LEMMA CountingTypes ==
  ASSUME SessionTypes, CountTypes
  PROVE  /\ now \in Nat \ {0} /\ toClient \in Seq(Nat) /\ LastSlot \in Int /\ skips \in Nat
         /\ work \in Nat /\ profileStart \in Nat /\ steps \in Nat /\ Len(toClient) \in Nat
         /\ DOMAIN toClient = 1..Len(toClient)
         /\ \A i \in DOMAIN toClient : toClient[i] \in 1..now
         /\ Pending \in {0, 1}
<1>1. /\ now \in Nat \ {0} /\ toClient \in Seq(1..now) /\ skips \in Nat
      /\ work \in Nat /\ profileStart \in Nat /\ steps \in Nat
  BY StartupCounts, SessionConstants DEF SessionTypes, CountTypes
<1>2. /\ Len(toClient) \in Nat /\ DOMAIN toClient = 1..Len(toClient)
      /\ toClient = [i \in 1..Len(toClient) |-> toClient[i]]
      /\ \A i \in 1..Len(toClient) : toClient[i] \in 1..now
  BY <1>1
<1>3. \A i \in 1..Len(toClient) : toClient[i] \in Nat
  BY <1>1, <1>2
<1>4. toClient \in Seq(Nat)
  BY <1>2, <1>3, ElementsMakeSeq
<1>5. now % Period \in Int
  BY <1>1, SessionConstants
<1> QED BY <1>1, <1>2, <1>4, <1>5 DEF LastSlot, Pending

UnderWayNext(b, k) == Within(toClient', connection' = "open", LastSlot', skips', b, k)

\* With time, the next state comes, or is left out, or none will.
LEMMA TickKeepsUnderWay ==
  ASSUME SessionTypes, CountTypes, Tick, NEW b \in Nat, NEW k \in Int, UnderWay(b, k)
  PROVE  UnderWayNext(b, k)
<1>0. LastSlot \in Int /\ toClient \in Seq(Nat) /\ skips \in Nat /\ now \in Nat
  BY CountingTypes
<1>1. now' = now + 1
  BY TickEffect
<1>2. CASE connection' # "open"
  <2>1. toClient' \in {toClient, <<>>} /\ skips' = skips
    BY <1>2, TickEffect
  <2>2. \A j \in 1..Len(toClient') : k + j >= 0 => toClient'[j] - b <= Reach(k + j + skips')
    <3>1. CASE toClient' = toClient
      BY <2>1, <3>1 DEF UnderWay, Within
    <3>2. CASE toClient' = <<>>
      <4>1. 1..Len(toClient') = {}
        BY <3>2
      <4> QED BY <4>1
    <3> QED BY <2>1, <3>1, <3>2
  <2> QED BY <1>2, <2>2 DEF UnderWayNext, Within
<1>3. CASE connection' = "open"
  <2>1. connection = "open" /\ Publish
    BY <1>3, TickEffect
  <2>2. Within(toClient, TRUE, LastSlot, skips, b, k)
    BY <2>1 DEF UnderWay
  <2>3. /\ LastSlot \in Int /\ toClient \in Seq(Nat) /\ skips \in Nat /\ Period \in Nat /\ now' \in Nat
        /\ b \in Int
    BY <1>0, <1>1, SessionConstants
  <2>4. CASE now' % Period # 0
    <3>1. LastSlot' = LastSlot /\ toClient' = toClient /\ skips' = skips
      BY <1>0, <1>1, <2>1, <2>4, SlotAdvances DEF Publish
    <3> QED BY <1>3, <2>2, <3>1 DEF UnderWayNext
  <2>5. CASE now' % Period = 0
    <3>1. LastSlot' = LastSlot + Period /\ LastSlot' = now'
      BY <1>0, <1>1, <2>5, SlotAdvances
    <3>2. \/ toClient' = Append(toClient, now') /\ skips' = skips
          \/ toClient' = toClient /\ skips' = skips + 1
      BY <2>1, <2>5 DEF Publish
    <3>3. CASE toClient' = Append(toClient, now') /\ skips' = skips
      <4>1. now' = LastSlot + Period
        BY <3>1
      <4>2. Within(Append(toClient, now'), connection' = "open", now', skips, b, k)
        BY <2>2, <2>3, <4>1, WithinAppend, Zenon
      <4> QED BY <3>1, <3>3, <4>2 DEF UnderWayNext
    <3>4. CASE toClient' = toClient /\ skips' = skips + 1
      <4>1. LastSlot' \in Int /\ skips' \in Nat
        BY <2>3, <3>1, <3>4
      <4>2. Within(toClient, TRUE, LastSlot', skips', b, k)
        BY <2>2, <2>3, <3>1, <3>4, <4>1, WithinLeftOut, Zenon
      <4> QED BY <1>3, <3>4, <4>2 DEF UnderWayNext
    <3> QED BY <3>2, <3>3, <3>4
  <2> QED BY <2>4, <2>5
<1> QED BY <1>2, <1>3

\* The newest state has none behind it.
LEMMA NewestUnderWay ==
  ASSUME SessionTypes, CountTypes, Tick, toClient' = Append(toClient, now'), skips' = skips,
         LastSlot' = now'
  PROVE  UnderWayNext(now', 0 - (Len(toClient) + 1))
<1>0. now \in Nat \ {0} /\ Len(toClient) \in Nat /\ toClient \in Seq(Nat) /\ skips \in Nat
  BY CountingTypes
<1>1. PICK n \in Nat : n = now'
  <2>1. now' = now + 1
    BY TickEffect
  <2> QED BY <1>0, <2>1
<1>2. PICK m \in Nat : m = Len(toClient) + 1
  BY <1>0
<1>3. Len(toClient') = m /\ toClient'[m] = n
  BY <1>0, <1>1, <1>2
<1>4. skips' \in Nat /\ Reach(0) <= Reach(skips') /\ Reach(0) = 0
  BY <1>0, ReachMonotone, ReachGrows
<1>5. \A j \in 1..m : (0 - m) + j >= 0 => j = m /\ (0 - m) + j + skips' = skips'
  BY <1>4
<1>6. ASSUME NEW j \in 1..m, (0 - m) + j >= 0
      PROVE  toClient'[j] - n <= Reach((0 - m) + j + skips')
  <2>1. j = m /\ (0 - m) + j + skips' = skips'
    BY <1>5, <1>6
  <2>2. toClient'[j] - n = 0
    BY <1>3, <2>1
  <2>3. 0 <= Reach(skips')
    BY <1>4
  <2> QED BY <2>1, <2>2, <2>3
<1>7. LastSlot' - n <= Reach((0 - m) + m + skips')
  <2>1. (0 - m) + m + skips' = skips'
    BY <1>4
  <2> QED BY <1>1, <1>4, <2>1
<1>8. Within(toClient', connection' = "open", LastSlot', skips', n, 0 - m)
  BY <1>3, <1>6, <1>7 DEF Within
<1> QED BY <1>1, <1>2, <1>8 DEF UnderWayNext

LEMMA TickKeepsCount ==
  ASSUME WalkInv, Tick
  PROVE  CountTypes' /\ (pc' # "done" => CountInv')
<1>1. /\ SessionTypes /\ CountTypes /\ now' = now + 1
      /\ UNCHANGED <<pc, work, profileStart, steps, raw, quat>>
  BY TickEffect DEF WalkInv, StandInv
<1> USE <1>1, CountingTypes
<1>2. CountTypes'
  <2>1. skips' \in 0..MaxSkips
    <3>1. skips' = skips \/ Publish
      BY TickEffect
    <3> QED BY <1>1, <3>1, SessionConstants DEF Publish, CountTypes
  <2> QED BY <1>1, <2>1 DEF CountTypes
<1>3. ASSUME pc' # "done" PROVE CountInv'
  <2>1. CountInv
    BY <1>1, <1>3 DEF WalkInv
  <2>2. ASSUME NEW i \in DOMAIN toClient'
        PROVE  UnderWayNext(toClient'[i], 0 - i)
    <3>1. CASE i \in DOMAIN toClient /\ toClient'[i] = toClient[i]
      <4>1. PICK b \in Nat : b = toClient[i]
        BY <1>1, <3>1
      <4>2. UnderWay(b, 0 - i) /\ 0 - i \in Int
        BY <1>1, <2>1, <3>1, <4>1 DEF CountInv
      <4> QED BY <1>1, <3>1, <4>1, <4>2, TickKeepsUnderWay
    <3>2. CASE ~(i \in DOMAIN toClient /\ toClient'[i] = toClient[i])
      <4>1. /\ Len(toClient) \in Nat /\ DOMAIN toClient = 1..Len(toClient) /\ toClient \in Seq(Nat)
            /\ now' \in Nat
        BY <1>1
      <4>2. DOMAIN (<<>>) = {}
        OBVIOUS
      <4>3. toClient' # toClient /\ toClient' # <<>>
        BY <2>2, <3>2, <4>2
      <4>4. /\ toClient' = Append(toClient, now') /\ skips' = skips /\ now' % Period = 0
        BY <4>3, TickEffect DEF Publish
      <4>5. LastSlot' = now'
        BY <1>1, <4>4, SlotAdvances
      <4>6. i = Len(toClient) + 1 /\ toClient'[i] = now'
        <5>1. /\ DOMAIN toClient' = 1..(Len(toClient) + 1) /\ toClient'[Len(toClient) + 1] = now'
              /\ \A j \in 1..Len(toClient) : toClient'[j] = toClient[j]
          BY <4>1, <4>4
        <5>2. i \in 1..(Len(toClient) + 1) /\ i \notin 1..Len(toClient)
          BY <2>2, <3>2, <4>1, <5>1
        <5>3. i = Len(toClient) + 1
          BY <4>1, <5>2
        <5> QED BY <5>1, <5>3
      <4> QED BY <1>1, <4>4, <4>5, <4>6, NewestUnderWay
    <3> QED BY <3>1, <3>2
  <2>3. work # 0 => UnderWayNext(work, 0)
    BY <1>1, <2>1, TickKeepsUnderWay DEF CountInv
  <2>4. ASSUME profileStart # 0, steps < LastStep
        PROVE  /\ work # 0 => work - profileStart <= Reach(steps + Pending - 1 + skips')
               /\ UnderWayNext(profileStart, steps + Pending - 1)
    <3>1. /\ work # 0 => work - profileStart <= Reach(steps + Pending - 1 + skips)
          /\ UnderWay(profileStart, steps + Pending - 1)
      BY <2>1, <2>4 DEF CountInv
    <3>2. UnderWayNext(profileStart, steps + Pending - 1)
      <4>1. steps + Pending - 1 \in Int /\ profileStart \in Nat
        BY <1>1
      <4> QED BY <1>1, <3>1, <4>1, TickKeepsUnderWay
    <3>3. ASSUME work # 0
          PROVE  work - profileStart <= Reach(steps + Pending - 1 + skips')
      <4>1. /\ skips' \in Nat /\ skips <= skips' /\ skips \in Nat
        <5>1. skips' = skips \/ Publish
          BY TickEffect
        <5> QED BY <1>1, <5>1 DEF Publish
      <4>2. PICK c \in Int : c = steps + Pending - 1
        <5>1. steps \in Int /\ Pending \in Int
          BY <1>1
        <5> QED BY <5>1
      <4>3. PICK x \in Nat, y \in Nat : x = skips /\ y = skips' /\ x <= y
        BY <4>1
      <4>4. Reach(c + x) <= Reach(c + y) /\ Reach(c + x) \in Int /\ Reach(c + y) \in Int
        <5>1. c + x \in Int /\ c + y \in Int /\ c + x <= c + y
          BY ONLY <4>2, <4>3
        <5> QED BY <5>1, ReachMonotone, ReachGrows
      <4>5. work - profileStart <= Reach(c + x) /\ work \in Nat /\ profileStart \in Nat
        BY <1>1, <3>1, <3>3, <4>2, <4>3
      <4>6. work - profileStart <= Reach(c + y)
        BY <4>4, <4>5
      <4> QED BY <4>2, <4>3, <4>6
    <3> QED BY <3>2, <3>3
  <2>5. Pending' = Pending
    BY <1>1 DEF Pending
  <2> QED BY <1>1, <2>1, <2>2, <2>3, <2>4, <2>5 DEF CountInv, UnderWay, UnderWayNext
<1> QED BY <1>2, <1>3

\* A state is taken, and the next ones move up.
LEMMA ReceiveKeepsCount ==
  ASSUME WalkInv, ReceiveState
  PROVE  CountTypes' /\ (pc' # "done" => CountInv')
<1>1. /\ pc = "select" /\ pc' = "drain" /\ toClient # <<>>
      /\ work' = Head(toClient) /\ toClient' = Tail(toClient)
      /\ UNCHANGED <<now, connection, skips, profileStart, steps, raw, quat>>
  BY DEF ReceiveState, SelectReturns, Running
<1>2. SessionTypes /\ CountTypes /\ CountInv
  BY <1>1 DEF WalkInv, StandInv
<1>3. /\ now \in Nat \ {0} /\ toClient \in Seq(Nat) /\ LastSlot \in Int /\ skips \in Nat
      /\ profileStart \in Nat /\ steps \in Nat /\ Len(toClient) \in Nat
      /\ DOMAIN toClient = 1..Len(toClient)
      /\ \A i \in DOMAIN toClient : toClient[i] \in 1..now
  BY <1>2, CountingTypes
<1>4. /\ LastSlot' = LastSlot /\ (connection' = "open") = (connection = "open")
      /\ CountTypes'
  BY <1>1, <1>2 DEF LastSlot, CountTypes
<1>5. ASSUME NEW b \in Nat, NEW k \in Int, NEW m \in Int, m = k + 1, UnderWay(b, k)
      PROVE  UnderWayNext(b, m)
  <2>1. b \in Int
    OBVIOUS
  <2>2. Within(Tail(toClient), connection = "open", LastSlot, skips, b, m)
    BY <1>1, <1>3, <1>5, <2>1, WithinTail, Zenon DEF UnderWay
  <2> QED BY <1>1, <1>4, <2>2 DEF UnderWayNext
<1>6. /\ 1 \in DOMAIN toClient /\ toClient[1] = work' /\ work' \in 1..now
      /\ Len(toClient') = Len(toClient) - 1 /\ DOMAIN toClient' = 1..Len(toClient')
      /\ \A i \in DOMAIN toClient' : i + 1 \in DOMAIN toClient /\ toClient'[i] = toClient[i + 1]
  BY <1>1, <1>3
<1>7. ASSUME NEW i \in DOMAIN toClient'
      PROVE  UnderWayNext(toClient'[i], 0 - i)
  <2>1. PICK b \in Nat : b = toClient[i + 1] /\ b = toClient'[i]
    BY <1>3, <1>6
  <2>2. UnderWay(b, 0 - (i + 1))
    BY <1>2, <1>6, <2>1 DEF CountInv
  <2>3. 0 - (i + 1) \in Int /\ 0 - i \in Int /\ 0 - i = (0 - (i + 1)) + 1
    BY <1>6
  <2> QED BY <1>5, <2>1, <2>2, <2>3
<1>8. UnderWayNext(work', 0)
  <2>1. PICK b \in Nat : b = work'
    BY <1>3, <1>6
  <2>2. UnderWay(b, 0 - 1)
    BY <1>2, <1>6, <2>1 DEF CountInv
  <2>3. 0 - 1 \in Int /\ 0 \in Int /\ 0 = (0 - 1) + 1
    OBVIOUS
  <2> QED BY <1>5, <2>1, <2>2, <2>3
<1>9. ASSUME profileStart' # 0, steps' < LastStep
      PROVE  /\ work' # 0 => work' - profileStart' <= Reach(steps' + Pending' - 1 + skips')
             /\ UnderWayNext(profileStart', steps' + Pending' - 1)
  <2>1. Pending = 0 /\ Pending' = 1
    BY <1>1, <1>6 DEF Pending
  <2>2. PICK k \in Int, m \in Int : k = steps + Pending - 1 /\ m = steps' + Pending' - 1 /\ m = k + 1
    BY <1>1, <1>3, <2>1
  <2>3. UnderWay(profileStart, k)
    BY <1>1, <1>2, <1>9, <2>2 DEF CountInv
  <2>4. UnderWayNext(profileStart, m)
    BY <1>3, <1>5, <2>2, <2>3
  <2>5. work' - profileStart' <= Reach(m + skips')
    <3>1. k + 1 >= 0 /\ 1 \in 1..Len(toClient) /\ k + 1 + skips = m + skips'
      BY <1>1, <1>3, <1>6, <2>1, <2>2
    <3>2. toClient[1] - profileStart <= Reach(k + 1 + skips)
      BY <2>3, <3>1 DEF UnderWay, Within
    <3> QED BY <1>1, <1>6, <3>1, <3>2
  <2> QED BY <1>1, <2>2, <2>4, <2>5
<1>10. profileStart' # 0 => raw'.stamp # 0 /\ quat'.stamp # 0
  BY <1>1, <1>2 DEF CountInv
<1> QED BY <1>1, <1>4, <1>7, <1>8, <1>9, <1>10 DEF CountInv, UnderWay, UnderWayNext

\* Samples are never lost again.
LEMMA SamplesRemain ==
  ASSUME SamplesInv, DrainCommits \/ DrainSnapshot
  PROVE  /\ raw.stamp # 0 => raw'.stamp # 0
         /\ quat.stamp # 0 => quat'.stamp # 0
<1>1. raw.stamp \in Nat /\ quat.stamp \in Nat /\ raw \in SampleSet /\ quat \in SampleSet
  BY DEF SamplesInv, SampleTypes, SampleSet
<1>2. CASE DrainCommits
  <2>1. source = "yahboom" /\ raw' = NewestOf("raw", raw) /\ quat' = NewestOf("quat", quat)
    BY <1>2 DEF DrainCommits, Commit
  <2>2. SampleTypes /\ SerialInv /\ Stamped(raw) /\ Stamped(quat)
    BY <2>1 DEF SamplesInv, SerialInv
  <2>3. /\ raw.stamp > 0 => NewestOf("raw", raw).stamp > 0
        /\ quat.stamp > 0 => NewestOf("quat", quat).stamp > 0
    BY <1>1, <2>1, <2>2, NewestIsStamped
  <2> QED BY <1>1, <2>1, <2>3
<1>3. CASE DrainSnapshot
  BY <1>3 DEF DrainSnapshot, Snapshot
<1> QED BY <1>2, <1>3

\* A state that comes after the start of the profile stays in work.
LEMMA ObserveKeepsCount ==
  ASSUME WalkInv, DrainCommits \/ DrainSnapshot
  PROVE  CountTypes' /\ (pc' # "done" => CountInv')
<1>1. SessionTypes /\ CountTypes /\ CountInv /\ SamplesInv /\ pc = "drain"
  BY ObserveEffect DEF WalkInv, StandInv
<1>2. UNCHANGED <<now, connection, skips, toClient, steps>>
  BY ObserveEffect
<1>3. /\ toClient \in Seq(Nat) /\ LastSlot \in Int /\ skips \in Nat
      /\ work \in Nat /\ profileStart \in Nat /\ steps \in Nat
  BY <1>1, CountingTypes
<1>4. CountTypes' /\ LastSlot' = LastSlot
  BY <1>1, <1>2 DEF CountTypes, LastSlot
<1>5. CASE pc' = "select"
  <2>1. /\ work' = 0 /\ profileStart' = profileStart /\ (work = 0 \/ raw' = None \/ quat' = None)
    BY <1>5, ObserveEffect
  <2>2. profileStart # 0 => raw'.stamp # 0 /\ quat'.stamp # 0
    BY <1>1, SamplesRemain DEF CountInv
  <2>3. profileStart # 0 => work = 0
    BY <2>1, <2>2 DEF None
  <2>4. profileStart # 0 => Pending' = Pending
    BY <1>1, <1>5, <2>1, <2>3 DEF Pending
  <2> QED BY <1>1, <1>2, <1>4, <1>5, <2>1, <2>2, <2>4 DEF CountInv, UnderWay
<1>6. CASE pc' = "infer"
  <2>1. /\ work' = work /\ work # 0
        /\ profileStart' = IF profileStart = 0 THEN work ELSE profileStart
    BY <1>6, ObserveEffect
  <2>2. raw'.stamp # 0 /\ quat'.stamp # 0
    BY <1>6, ObserveEffect
  <2>3. Pending = 1 /\ Pending' = 1
    BY <1>1, <1>6, <2>1 DEF Pending
  <2>4. CASE profileStart # 0
    BY <1>1, <1>2, <1>4, <1>6, <2>1, <2>2, <2>3, <2>4 DEF CountInv, UnderWay
  <2>5. CASE profileStart = 0
    <3>1. profileStart' = work /\ steps + 1 - 1 = steps
      BY <1>3, <2>1, <2>5
    <3>2. UnderWay(work, 0)
      BY <1>1, <2>1 DEF CountInv
    <3>3. work \in Int
      BY <1>3
    <3>4. UnderWay(work, steps)
      BY <1>3, <3>2, <3>3, WithinMore, Zenon DEF UnderWay
    <3>5. work - work <= Reach(steps + skips)
      <4>1. Reach(0) <= Reach(steps + skips) /\ Reach(0) = 0
        <5>1. 0 \in Int /\ steps + skips \in Int /\ 0 <= steps + skips
          BY <1>3
        <5> QED BY <5>1, ReachMonotone, ReachGrows
      <4> QED BY <1>3, <4>1
    <3> QED BY <1>1, <1>2, <1>4, <1>6, <2>1, <2>2, <2>3, <3>1, <3>4, <3>5 DEF CountInv, UnderWay
  <2> QED BY <2>4, <2>5
<1>7. CASE pc' = "done"
  BY <1>4, <1>7
<1> QED BY <1>5, <1>6, <1>7, ObserveEffect

\* What has not come to the end of a stage is in the first.
LEMMA FirstStage ==
  ASSUME NEW e \in Int, \A i \in 1..4 : ~(e >= StageEnds[i])
  PROVE  StageAt(e) = 1
<1>1. {i \in 1..4 : e >= StageEnds[i]} = {}
  OBVIOUS
<1>2. Cardinality({}) = 0
  BY FS_EmptySet, Zenon
<1>3. StageAt(e) = 1 + 0
  BY <1>1, <1>2, Zenon DEF StageAt
<1> QED BY <1>3

\* The last of the startup targets has it all.
LEMMA StartupOver ==
  ASSUME steps = LastStep
  PROVE  Gain = RampSteps /\ Blend = HandoffSteps
<1>1. /\ LastStep \in Int /\ HoldSteps \in Int /\ RampSteps \in Int /\ HandoffSteps \in Int
      /\ LastStep - HoldSteps \in Int
      /\ LastStep >= HandoffSteps /\ LastStep - HoldSteps >= RampSteps /\ RampSteps > 0
  BY StartupCounts, ClientAssumption DEF ClientAssumption
<1>2. Blend = HandoffSteps
  <2>1. /\ Min({HandoffSteps, LastStep}) \in {HandoffSteps, LastStep}
        /\ Min({HandoffSteps, LastStep}) <= HandoffSteps
    BY <1>1, LesserOfTwo, Zenon
  <2>2. Min({HandoffSteps, LastStep}) = HandoffSteps
    BY <1>1, <2>1
  <2> QED BY <2>2, Zenon DEF Blend
<1>3. Gain = RampSteps
  <2>1. /\ Min({RampSteps, LastStep - HoldSteps}) \in {RampSteps, LastStep - HoldSteps}
        /\ Min({RampSteps, LastStep - HoldSteps}) <= RampSteps
    BY <1>1, LesserOfTwo, Zenon
  <2>2. Min({RampSteps, LastStep - HoldSteps}) = RampSteps
    BY <1>1, <2>1
  <2>3. ~(LastStep <= HoldSteps)
    BY <1>1
  <2> QED BY <2>2, <2>3, Zenon DEF Gain
<1> QED BY <1>2, <1>3

\* A target is counted.
LEMMA InferKeepsCount ==
  ASSUME WalkInv, Infer
  PROVE  CountTypes' /\ (pc' # "done" => CountInv')
<1>1. /\ pc = "infer" /\ pc' \in {"project", "done"}
      /\ pc' = "project" => steps' = Min({steps + 1, LastStep})
      /\ pc' = "done" => steps' = steps
      /\ UNCHANGED <<now, connection, skips, toClient, work, profileStart, raw, quat>>
  BY DEF Infer, Fail, Running, imuVars, controllerVars
<1>2. SessionTypes /\ CountTypes /\ CountInv /\ work # 0
  BY <1>1 DEF WalkInv, StandInv, SessionTypes, PastDrain
<1>3. /\ steps \in Nat /\ LastStep \in Nat /\ steps <= LastStep /\ skips \in Nat
  BY <1>2, CountingTypes, StartupCounts DEF CountTypes
<1>4. /\ Min({steps + 1, LastStep}) \in {steps + 1, LastStep}
      /\ Min({steps + 1, LastStep}) <= steps + 1 /\ Min({steps + 1, LastStep}) <= LastStep
  <2>1. steps + 1 \in Int /\ LastStep \in Int
    BY <1>3
  <2> QED BY <2>1, LesserOfTwo, Zenon
<1>5. CountTypes'
  BY <1>1, <1>2, <1>3, <1>4 DEF CountTypes
<1>6. CASE pc' = "project"
  <2>1. steps' < LastStep => steps' = steps + 1 /\ steps < LastStep
    BY <1>1, <1>3, <1>4, <1>6
  <2>2. Pending = 1 /\ Pending' = 0
    BY <1>1, <1>2, <1>6 DEF Pending
  <2>3. steps' < LastStep => steps' + Pending' - 1 = steps + Pending - 1
    BY <1>3, <2>1, <2>2
  <2>4. LastSlot' = LastSlot
    BY <1>1 DEF LastSlot
  <2>5. ASSUME NEW b, NEW k, UnderWay(b, k)
        PROVE  UnderWayNext(b, k)
    BY <1>1, <2>4, <2>5 DEF UnderWay, UnderWayNext
  <2>6. (\A i \in DOMAIN toClient : UnderWayNext(toClient[i], 0 - i)) /\ UnderWayNext(work, 0)
    BY <1>1, <1>2, <2>5 DEF CountInv
  <2>7. ASSUME profileStart # 0, steps' < LastStep
        PROVE  /\ work - profileStart <= Reach(steps' + Pending' - 1 + skips)
               /\ UnderWayNext(profileStart, steps' + Pending' - 1)
    <3>1. /\ work - profileStart <= Reach(steps + Pending - 1 + skips)
          /\ UnderWay(profileStart, steps + Pending - 1)
      BY <1>2, <2>1, <2>7 DEF CountInv
    <3>2. UnderWayNext(profileStart, steps + Pending - 1)
      BY <2>5, <3>1
    <3>3. steps' + Pending' - 1 = steps + Pending - 1
      BY <2>3, <2>7
    <3> QED BY <3>1, <3>2, <3>3
  <2>8. CountInv'
    BY <1>1, <1>2, <1>6, <2>6, <2>7 DEF CountInv, UnderWay, UnderWayNext
  <2> QED BY <1>5, <2>8
<1> QED BY <1>1, <1>5, <1>6

\* A target is sent; during the startup it asks to stand.
LEMMA SendKeepsCount ==
  ASSUME StandOutlastsStartup, WalkInv, Send
  PROVE  CountTypes' /\ (pc' # "done" => CountInv') /\ WalksAtFullGain'
<1>1. /\ pc = "send" /\ pc' = "select" /\ work' = 0 /\ connection = "open"
      /\ sent' = [stage |-> stage, gain |-> Gain, blend |-> Blend, age |-> sent'.age]
      /\ UNCHANGED <<now, skips, toClient, profileStart, steps, raw, quat>>
  BY DEF Send, Running, imuVars, progressVars
<1>2. SessionTypes /\ CountTypes /\ CountInv /\ work # 0 /\ profileStart # 0
      /\ stage = StageAt(work - profileStart)
  BY <1>1 DEF WalkInv, StandInv, StageInv, SessionTypes, PastDrain
<1>3. /\ steps \in Nat /\ LastStep \in Nat /\ steps <= LastStep /\ skips \in Nat
      /\ work \in Nat /\ profileStart \in Nat /\ MaxSkips \in Nat /\ skips <= MaxSkips
  BY <1>2, CountingTypes, StartupCounts, SessionConstants DEF CountTypes
<1>4. CountTypes' /\ LastSlot' = LastSlot
  BY <1>1, <1>2 DEF CountTypes, LastSlot
<1>5. Pending = 0 /\ Pending' = 0
  BY <1>1 DEF Pending
<1>6. ASSUME NEW b, NEW k, UnderWay(b, k)
      PROVE  UnderWay(b, k)'
  BY <1>1, <1>4, <1>6 DEF UnderWay, Within
<1>7. CountInv'
  <2>1. \A i \in DOMAIN toClient : UnderWay(toClient[i], 0 - i)'
    BY <1>1, <1>2, <1>6 DEF CountInv
  <2>2. profileStart # 0 /\ steps < LastStep => UnderWay(profileStart, steps + Pending - 1)'
    BY <1>1, <1>2, <1>5, <1>6 DEF CountInv
  <2> QED BY <1>1, <1>2, <1>5, <2>1, <2>2 DEF CountInv
<1>8. CASE steps < LastStep
  <2>1. work - profileStart <= Reach(steps + Pending - 1 + skips)
    BY <1>2, <1>8 DEF CountInv
  <2>2. PICK m \in Int, n \in Int :
          m = steps + Pending - 1 + skips /\ n = LastStep + MaxSkips - 2 /\ m <= n
    BY <1>3, <1>5, <1>8
  <2>3. Reach(m) <= Reach(n) /\ Reach(m) \in Int /\ Reach(n) \in Int
    BY <2>2, ReachMonotone, ReachGrows
  <2>4. \A i \in 1..4 : ~(work - profileStart >= StageEnds[i])
    <3> TAKE i \in 1..4
    <3>1. Reach(n) < StageEnds[i] /\ StageEnds[i] \in Nat
      BY <2>2, SessionConstants DEF StandOutlastsStartup
    <3>2. work - profileStart <= Reach(m)
      BY <2>1, <2>2
    <3> QED BY <1>3, <2>3, <3>1, <3>2
  <2>5. stage = 1
    <3>1. work - profileStart \in Int
      BY <1>3
    <3>2. StageAt(work - profileStart) = 1
      BY <2>4, <3>1, FirstStage, Zenon
    <3> QED BY <1>2, <3>2
  <2> QED BY <1>1, <1>4, <1>7, <2>5 DEF WalksAtFullGain
<1>9. CASE steps = LastStep
  <2>1. Gain = RampSteps /\ Blend = HandoffSteps
    BY <1>9, StartupOver
  <2> QED BY <1>1, <1>4, <1>7, <2>1 DEF WalksAtFullGain
<1> QED BY <1>3, <1>8, <1>9

\* The other steps count nothing and drop nothing.
LEMMA OthersKeepCount ==
  ASSUME WalkInv,
         \/ WorkerStep \/ ImuReadable \/ Disconnected \/ DrainRead \/ DrainFails
         \/ Project \/ SendFails \/ UNCHANGED vars
  PROVE  CountTypes' /\ (pc' # "done" => CountInv')
<1>1. /\ UNCHANGED <<now, connection, skips, toClient, work, profileStart, steps, raw, quat>>
      /\ \/ pc' \in {pc, "done"}
         \/ pc = "select" /\ pc' = "drain"
         \/ pc = "project" /\ pc' = "send"
  <2>1. CASE WorkerStep
    BY <2>1 DEF WorkerStep, Worker, WorkerReads, WorkerPublishes, ReadFails, PacketRefused,
           WorkerFails, controllerVars, clientVars, progressVars
  <2>2. CASE ImuReadable \/ Disconnected \/ DrainRead \/ DrainFails
    BY <2>2 DEF ImuReadable, SelectReturns, Disconnected, DrainRead, DrainFails, Finish, Fail,
           Running, imuVars, controllerVars, clientVars, progressVars
  <2>3. CASE Project \/ SendFails
    BY <2>3 DEF Project, SendFails, Finish, Fail, Running, imuVars, controllerVars, progressVars
  <2>4. CASE UNCHANGED vars
    BY <2>4 DEF vars, imuVars, controllerVars, clientVars, progressVars
  <2> QED BY <2>1, <2>2, <2>3, <2>4
<1>2. CountTypes /\ CountTypes'
  BY <1>1 DEF WalkInv, CountTypes
<1>3. ASSUME pc' # "done" PROVE CountInv'
  <2>1. CountInv /\ pc' # "done"
    BY <1>1, <1>3 DEF WalkInv
  <2>2. Pending' = Pending /\ (pc' = "select" => pc = "select") /\ LastSlot' = LastSlot
    BY <1>1, <2>1 DEF Pending, LastSlot, CountInv
  <2> QED BY <1>1, <2>1, <2>2 DEF CountInv, UnderWay
<1> QED BY <1>2, <1>3

LEMMA WalkStep ==
  ASSUME StandOutlastsStartup, WalkInv, [Next]_vars
  PROVE  WalkInv'
<1>1. SamplesInv' /\ StandInv'
  BY SamplesStep, StandStep DEF WalkInv
<1>2. CASE Send
  BY <1>1, <1>2, SendKeepsCount DEF WalkInv
<1>3. CASE ~Send
  <2>1. CountTypes' /\ (pc' # "done" => CountInv')
    BY <1>3, TickKeepsCount, ReceiveKeepsCount, ObserveKeepsCount, InferKeepsCount, OthersKeepCount
    DEF Next, Client
  <2>2. sent' = sent
    <3>1. CASE Tick \/ ReceiveState \/ DrainCommits \/ DrainSnapshot
      BY <3>1, TickEffect, ObserveEffect DEF ReceiveState, SelectReturns, historyVars
    <3>2. CASE ~(Tick \/ ReceiveState \/ DrainCommits \/ DrainSnapshot)
      BY <1>3, <3>2, OnwardSteps DEF Next, Client, Onward, sessionVars
    <3> QED BY <3>1, <3>2
  <2>3. WalksAtFullGain'
    BY <2>2 DEF WalkInv, WalksAtFullGain
  <2> QED BY <1>1, <2>1, <2>3 DEF WalkInv
<1> QED BY <1>2, <1>3

LEMMA WalkStart == Init => WalkInv
<1> SUFFICES ASSUME Init PROVE WalkInv
  OBVIOUS
<1>1. /\ toClient = <<>> /\ work = 0 /\ profileStart = 0 /\ skips = 0 /\ steps = 0 /\ sent.stage = 1
  BY DEF Init
<1>2. DOMAIN toClient = {}
  BY <1>1
<1>3. CountTypes
  BY <1>1, SessionConstants, StartupCounts DEF CountTypes
<1>4. CountInv /\ WalksAtFullGain
  BY <1>1, <1>2 DEF CountInv, WalksAtFullGain
<1> QED BY <1>3, <1>4, SamplesStart, StandStart DEF WalkInv

\* Whatever states are left out, dropped before the first samples or late, a
\* target that asks for a velocity carries the full gain and the policy's own
\* action, if the first stage is longer than the startup with the states left
\* out: the startup counts targets, the profile counts time, and no state is
\* dropped between them (native_policy_client.py, run; physical_startup.py).
THEOREM WalksOnlyAtFullGain ==
  ASSUME StandOutlastsStartup
  PROVE  Spec => []WalksAtFullGain
<1>1. WalkInv => WalksAtFullGain
  BY DEF WalkInv
<1> QED BY <1>1, WalkStart, WalkStep, PTL DEF Spec

==============================================================================
