----------------------------- MODULE ImuSources -----------------------------
(***************************************************************************)
(* How the Python policy client comes by IMU samples: the serial stream of *)
(* the Yahboom module with its bounded drain (imu_receive.py,              *)
(* yahboom_imu.py), or a worker thread that keeps the newest sample        *)
(* (bno055_source.py, native_bno_source.py).                               *)
(*                                                                         *)
(* Time is counted in ticks of 15 ms.  A report cycle of the serial module *)
(* is two chunks: "head" completes the raw frame and begins the quaternion *)
(* frame, "tail" completes the quaternion frame; a corrupted chunk is      *)
(* "noise".  "at" is when a chunk reached the kernel, which the program    *)
(* cannot see; "stamp" is the time the program gives it.                   *)
(***************************************************************************)
EXTENDS Integers, Sequences, FiniteSetsExt

CONSTANTS
  Sources,    \* values of --imu-source considered
  MaxAge,     \* maximum_age_ns and the 30 ms of the drain
  MaxLine,    \* chunks the serial line holds unread (a bound of the model)
  MaxChunks,  \* the 256 bytes of one drain
  MaxFrames,  \* frames of one kind in one drain (2)
  MaxReads    \* reads of one drain (8)

ASSUME ImuAssumption ==
  /\ Sources \subseteq {"yahboom", "bno055", "native-bno055"}
  /\ {MaxAge, MaxLine, MaxChunks, MaxFrames, MaxReads} \subseteq Nat \ {0}

VARIABLES
  now,          \* time.monotonic_ns
  source,       \* args.imu_source
  line,         \* unread chunks of the serial port
  partial,      \* decoder.buffer: begun quaternion frame, with _partial_received_ns
  drain,        \* locals of _drain_imu
  reading,      \* read_start of the sample the worker is reading; 0: none
  latest,       \* read_start of NativeBnoSource.latest; 0: None
  workerError,  \* self.error is set
  raw, quat     \* last_raw_imu_monotonic_ns, last_quaternion_monotonic_ns

imuVars == <<line, partial, drain, reading, latest, workerError, raw, quat>>

None == [stamp |-> 0, at |-> 0]
Idle == [started |-> 0, reads |-> 0, total |-> 0, batch |-> <<>>]

ImuInit ==
  /\ source \in Sources
  /\ line = <<>> /\ partial = None /\ drain = Idle
  /\ reading = 0 /\ latest = 0 /\ workerError = FALSE
  /\ raw = None /\ quat = None

(***************************************************************************)
(* The serial module and the worker thread.                                *)
(***************************************************************************)

\* Genuine chunks alternate.
NextKind ==
  IF \/ line # <<>> /\ line[Len(line)].kind = "head"
     \/ line = <<>> /\ partial # None
  THEN "tail" ELSE "head"

\* What reaches the serial port in a tick: nothing, half a report cycle, a
\* whole one, or garbage.
Arrivals == {<<>>, <<"noise">>, <<NextKind>>} \union {<<"head", "tail">> : k \in {NextKind} \ {"tail"}}

SerialTick ==
  IF source # "yahboom" THEN UNCHANGED line
  ELSE \E kinds \in Arrivals :
         /\ Len(line) + Len(kinds) <= MaxLine
         /\ line' = line \o [i \in DOMAIN kinds |-> [kind |-> kinds[i], at |-> now']]

\* The worker starts a read, or a request to the producer, once in a tick.
WorkerReads ==
  /\ source # "yahboom" /\ ~workerError /\ reading = 0 /\ latest < now
  /\ reading' = now
  /\ UNCHANGED <<now, source, line, partial, drain, latest, workerError, raw, quat>>

\* The sample is published, under its read_start; the producer of
\* native-bno055 may answer with the sample it sent before.
WorkerPublishes ==
  /\ reading # 0
  /\ source = "native-bno055" => now - reading <= MaxAge
  /\ \/ latest' = reading
     \/ source = "native-bno055" /\ now - latest <= MaxAge /\ latest' = latest
  /\ reading' = 0
  /\ UNCHANGED <<now, source, line, partial, drain, workerError, raw, quat>>

\* The thread ends with its error latched.
WorkerFails(producer) ==
  /\ source = producer /\ ~workerError
  /\ workerError' = TRUE /\ reading' = 0
  /\ UNCHANGED <<now, source, line, partial, drain, latest, raw, quat>>

\* A failed read or a failed configuration check of the sensor.
ReadFails == WorkerFails("bno055")

\* No packet within 25 ms, or one that is malformed, out of sequence, stale
\* or in contradiction with itself.
PacketRefused == WorkerFails("native-bno055")

Worker == WorkerReads \/ WorkerPublishes \/ ReadFails \/ PacketRefused

(***************************************************************************)
(* Decoding.                                                               *)
(***************************************************************************)

\* The quaternion frame that is begun after i of the chunks that are read, by
\* its time; 0: none.  Noise and stray tails make the decoder resynchronise.
BegunAfter(i) == IF i = 0 THEN partial.at ELSE IF line[i].kind = "head" THEN line[i].at ELSE 0

\* The frame that chunk i completes, if any.
Completed(i) ==
  CASE line[i].kind = "head" -> "raw"
    [] line[i].kind = "tail" /\ BegunAfter(i - 1) # 0 -> "quat"
    [] OTHER -> "none"

SomeCompleted(places) == \E i \in places : Completed(i) # "none"

\* YahboomStreamDecoder.feed: what each chunk completes, where only the first
\* frame may have begun before this read.
Feed(first, others) ==
  [i \in DOMAIN line |->
     [kind  |-> Completed(i),
      at    |-> IF Completed(i) = "quat" THEN BegunAfter(i - 1) ELSE line[i].at,
      stamp |-> IF SomeCompleted(1..(i - 1)) THEN others ELSE first]]

Places(kind, frames) == {i \in DOMAIN frames : frames[i].kind = kind}

(***************************************************************************)
(* The drains.                                                             *)
(***************************************************************************)

DrainStarts == drain' = [Idle EXCEPT !.started = now]
DrainEnds == drain' = [Idle EXCEPT !.started = drain.started]

PartialStale == drain.reads = 0 /\ partial # None /\ drain.started - partial.stamp > MaxAge

\* One round of the loop of _drain_imu: read all that is pending and stamp
\* it with the start of the drain, the first frame with the partial's stamp.
ReadPending ==
  LET received == drain.started
      packetTime == IF partial # None THEN Min({received, partial.stamp}) ELSE received
      begun == BegunAfter(Len(line))
  IN /\ line # <<>> /\ line' = <<>>
     /\ drain' = [drain EXCEPT !.reads = @ + 1, !.total = @ + Len(line),
                               !.batch = @ \o Feed(packetTime, received)]
     /\ partial' = IF begun = 0 THEN None
                   ELSE [stamp |-> IF SomeCompleted(DOMAIN line) THEN received ELSE packetTime,
                         at |-> begun]

\* The refusals of a round that reads.
ReadRefused ==
  \/ drain.total + Len(line) > MaxChunks
  \/ now - drain.started > MaxAge
  \/ \E kind \in {"raw", "quat"} :
       Cardinality(Places(kind, drain.batch)) + Cardinality({i \in DOMAIN line : Completed(i) = kind})
         > MaxFrames
  \/ drain.reads = MaxReads

\* The refusals between the last round and the commit; the eighth round that
\* reads is refused whether more is pending or not.
CommitRefused ==
  \/ drain.reads = MaxReads
  \/ now - drain.started > MaxAge
  \/ \E i \in DOMAIN drain.batch :
       drain.batch[i].kind # "none" /\ now - drain.batch[i].stamp > MaxAge

NewestOf(kind, old) ==
  LET newest == drain.batch[Max(Places(kind, drain.batch))]
  IN IF Places(kind, drain.batch) = {} THEN old ELSE [stamp |-> newest.stamp, at |-> newest.at]

\* accept_imu for every decoded packet, in order.
Commit == raw' = NewestOf("raw", raw) /\ quat' = NewestOf("quat", quat) /\ DrainEnds

\* Mutant: only the age of the sample is looked at.
SnapshotRefusedByAge == latest # 0 /\ now - latest > MaxAge

\* drain() of a worker source: one snapshot under the lock.
SnapshotRefused == workerError \/ (latest # 0 /\ now - latest > MaxAge)

Snapshot ==
  IF latest = 0 THEN UNCHANGED <<raw, quat>>
  ELSE raw' = [stamp |-> latest, at |-> latest] /\ quat' = raw'

\* require_fresh_imu
Fresh == \A sample \in {raw, quat} :
           sample.stamp > 0 /\ sample.stamp <= now /\ now - sample.stamp <= MaxAge

ImuTypeOK ==
  LET Frame == [kind : {"raw", "quat", "none"}, at : 0..now, stamp : 0..now]
  IN /\ source \in Sources
     /\ Len(line) <= MaxLine
     /\ \A i \in DOMAIN line : line[i] \in [kind : {"head", "tail", "noise"}, at : 0..now]
     /\ {partial, raw, quat} \subseteq [stamp : 0..now, at : 0..now]
     /\ drain.reads \in 0..MaxReads /\ drain.total \in 0..MaxChunks /\ drain.started \in 0..now
     /\ \A i \in DOMAIN drain.batch : drain.batch[i] \in Frame
     /\ {reading, latest} \subseteq 0..now /\ workerError \in BOOLEAN
=============================================================================
