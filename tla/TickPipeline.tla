---------------------------- MODULE TickPipeline ----------------------------
(***************************************************************************)
(* The path of a tick through data_center: TickReceiver.on_tick, the tick  *)
(* queue, the raw pipeline thread (raw_pipeline.py), the cleaner queue and *)
(* the clean pipeline thread (clean_pipeline.py) up to the broadcast to    *)
(* the backend and the structured file.                                    *)
(*                                                                         *)
(* Ticks are numbered as they arrive; of a tick only its token and its     *)
(* time are kept, which stand for its fingerprint.  Every start of a       *)
(* pipeline that finds none running makes a thread; a stop that times out  *)
(* leaves the old thread behind.  Appending to a Parquet file is reading   *)
(* it and writing it back, as two steps.  One file of each kind is kept,   *)
(* the current hour's.                                                     *)
(***************************************************************************)
EXTENDS TickLedger, Sequences

CONSTANTS
    Prints,        \* fingerprints: records of a token and a time
    MaxTicks,      \* ticks that arrive
    TickCap,       \* TICK_QUEUE_MAXSIZE
    CleanCap,      \* CLEANER_QUEUE_MAXSIZE
    BatchSize,     \* batch_size of both loops
    Threshold,     \* BATCH_WRITE_THRESHOLD
    RawStarts,     \* threads the raw pipeline starts
    CleanStarts,   \* threads the clean pipeline starts
    MaxStops,      \* stops of either pipeline
    WritesFail     \* TRUE when writing a file, or making its directory, may fail

ASSUME TickPipelineAssumption ==
    /\ Prints \subseteq [token : STRING, at : Nat]
    /\ {MaxTicks, MaxStops} \subseteq Nat
    /\ {TickCap, CleanCap, BatchSize, Threshold, HistoryLimit, RawStarts, CleanStarts}
         \subseteq Nat \ {0}
    /\ WritesFail \in BOOLEAN

Ids == 1..MaxTicks
RawThreads == 1..RawStarts
CleanThreads == 1..CleanStarts

VARIABLES
    pending,     \* the tick on_tick waits to enqueue, 0 for none
    tickQ,       \* tick_queue
    rawStop, rawThread,      \* _stop_event and _thread of raw_pipeline, 0 for None
    raw,         \* its threads
    forwarded,   \* _total_records_forwarded
    cleanQ,      \* cleaner_queue
    cleanStop, cleanThread,  \* the same of clean_pipeline
    clean,       \* its threads
    history,     \* _recent_fingerprints["tick"], oldest first
    lastPrint,   \* _last_fingerprint_by_token
    structured,  \* the structured file
    stops        \* stops so far

receiver == <<prints, pending>>
rawSide == <<rawStop, rawThread, raw, rawFile, forwarded>>
cleanSide == <<cleanStop, cleanThread, clean, history, lastPrint, structured, broadcast>>
vars == <<receiver, tickQ, rawSide, cleanQ, cleanSide, offered, stops>>

RawThread == [pc : {"unborn", "check", "take", "read", "write", "forward", "gone"},
              batch : Seq(Ids), seen : Seq(Ids)]
CleanThread == [pc : {"unborn", "check", "take", "judge", "remember", "broadcast", "flush",
                      "write", "gone"},
                batch : Seq(Ids), duplicate : BOOLEAN, kept : Seq(Ids),
                buffer : Seq(Ids), seen : Seq(Ids)]

TypeOK ==
    /\ prints \in Seq(Prints) /\ Len(prints) <= MaxTicks
    /\ pending \in 0..Len(prints)
    /\ tickQ \in Seq(Ids) /\ Len(tickQ) <= TickCap
    /\ rawStop \in BOOLEAN /\ rawThread \in {0} \cup RawThreads
    /\ raw \in [RawThreads -> RawThread]
    /\ rawFile \in Seq(Ids)
    /\ forwarded \in Nat
    /\ cleanQ \in Seq(Ids) /\ Len(cleanQ) <= CleanCap
    /\ cleanStop \in BOOLEAN /\ cleanThread \in {0} \cup CleanThreads
    /\ clean \in [CleanThreads -> CleanThread]
    /\ history \in Seq(Prints) /\ Len(history) <= HistoryLimit
    /\ \A k \in DOMAIN lastPrint : lastPrint[k] \in Prints
    /\ structured \in Seq(Ids)
    /\ broadcast \in Seq(Ids)
    /\ offered \subseteq Ids
    /\ stops \in 0..MaxStops

-----------------------------------------------------------------------------
(* TickReceiver.                                                           *)

\* A packet passes _normalize; the callback is awaited before the next one.
Arrive ==
    /\ Len(prints) < MaxTicks
    /\ pending = 0
    /\ \E p \in Prints : prints' = Append(prints, p)
    /\ pending' = Len(prints')
    /\ UNCHANGED <<tickQ, rawSide, cleanQ, cleanSide, offered, stops>>

Enqueue ==
    /\ pending # 0
    /\ Len(tickQ) < TickCap
    /\ tickQ' = Append(tickQ, pending)
    /\ pending' = 0
    /\ UNCHANGED <<prints, rawSide, cleanQ, cleanSide, offered, stops>>

\* The queue stayed full for 0.1 s.
GiveUp ==
    /\ pending # 0
    /\ Len(tickQ) = TickCap
    /\ pending' = 0
    /\ UNCHANGED <<prints, tickQ, rawSide, cleanQ, cleanSide, offered, stops>>

-----------------------------------------------------------------------------
(* The queues: get_batch and put_nowait.                                   *)

SmallerOf(a, b) == IF a < b THEN a ELSE b
\* Faulty variant: the last of the batch stays in the queue.
BatchOverlapping(q) == LET n == SmallerOf(BatchSize, Len(q)) IN
    <<SubSeq(q, 1, n), SubSeq(q, IF n = 0 THEN 1 ELSE n, Len(q))>>
\* get_batch: what it returns and what stays; empty after its timeout.
Batch(q) == LET n == SmallerOf(BatchSize, Len(q)) IN
    <<SubSeq(q, 1, n), SubSeq(q, n + 1, Len(q))>>

\* Faulty variant: a batch that is not full is put back and waits for more.
ReadyWhenFull(b) == Len(b) = BatchSize
\* Both loops take up any batch that is not empty.
Ready(b) == b # << >>

\* Faulty variant: put_nowait does not look at the size.
AlwaysRoom == TRUE
RoomForCleaner == Len(cleanQ) < CleanCap

-----------------------------------------------------------------------------
(* The raw pipeline.                                                       *)

\* start_raw_pipeline and start_clean_pipeline find no live thread.
NotRunning(thread, threads) == thread # 0 => threads[thread].pc = "gone"

StartRaw ==
    /\ NotRunning(rawThread, raw)
    /\ \E t \in RawThreads :
         /\ raw[t].pc = "unborn"
         /\ \A u \in 1..(t - 1) : raw[u].pc # "unborn"
         /\ raw' = [raw EXCEPT ![t].pc = "check"]
         /\ rawThread' = t
    /\ rawStop' = FALSE
    /\ UNCHANGED <<receiver, tickQ, rawFile, forwarded, cleanQ, cleanSide, offered, stops>>

\* join() may time out: the thread may still be at work.
StopRaw ==
    /\ rawThread # 0
    /\ stops < MaxStops
    /\ stops' = stops + 1
    /\ rawStop' = TRUE
    /\ rawThread' = 0
    /\ UNCHANGED <<receiver, tickQ, raw, rawFile, forwarded, cleanQ, cleanSide, offered>>

RawCheck(t) ==
    /\ raw[t].pc = "check"
    /\ raw' = [raw EXCEPT ![t].pc = IF rawStop THEN "gone" ELSE "take"]
    /\ UNCHANGED <<receiver, tickQ, rawStop, rawThread, rawFile, forwarded, cleanQ,
                   cleanSide, offered, stops>>

RawTake(t) ==
    /\ raw[t].pc = "take"
    /\ LET b == Batch(tickQ) IN
         /\ tickQ' = IF Ready(b[1]) THEN b[2] ELSE tickQ
         /\ raw' = [raw EXCEPT ![t].batch = IF Ready(b[1]) THEN b[1] ELSE << >>,
                               ![t].pc = IF Ready(b[1]) THEN "read" ELSE "check"]
    /\ UNCHANGED <<receiver, rawStop, rawThread, rawFile, forwarded, cleanQ, cleanSide,
                   offered, stops>>

\* Faulty variant: the file is replaced.
Replaced(existing, records) == records
\* append_parquet, the part after the read.
Appended(existing, records) == existing \o records

\* The directory of a partition cannot be made: that is not swallowed by the
\* writer, and the loop drops the batch before anything of it is written.
RawDrops(t) ==
    /\ raw[t].pc = "read" /\ WritesFail
    /\ raw' = [raw EXCEPT ![t].pc = "check", ![t].batch = << >>]
    /\ UNCHANGED <<receiver, tickQ, rawStop, rawThread, rawFile, forwarded, cleanQ,
                   cleanSide, offered, stops>>

\* append_parquet reads the file ...
RawRead(t) ==
    /\ raw[t].pc = "read"
    /\ raw' = [raw EXCEPT ![t].pc = "write", ![t].seen = rawFile]
    /\ UNCHANGED <<receiver, tickQ, rawStop, rawThread, rawFile, forwarded, cleanQ,
                   cleanSide, offered, stops>>

\* ... and writes it with the batch.  A failure is logged and swallowed by
\* the writer, and the batch is forwarded as if it had been written.
RawWrite(t) ==
    /\ raw[t].pc = "write"
    /\ raw' = [raw EXCEPT ![t].pc = "forward", ![t].seen = << >>]
    /\ \/ rawFile' = Appended(raw[t].seen, raw[t].batch)
       \/ WritesFail /\ UNCHANGED rawFile
    /\ UNCHANGED <<receiver, tickQ, rawStop, rawThread, forwarded, cleanQ, cleanSide,
                   offered, stops>>

\* put_nowait returns False when the queue is full, and the loop counts the
\* record as forwarded all the same.
RawForward(t) ==
    /\ raw[t].pc = "forward"
    /\ LET id == Head(raw[t].batch) IN
         IF RoomForCleaner
         THEN cleanQ' = Append(cleanQ, id) /\ offered' = offered \cup {id}
         ELSE UNCHANGED <<cleanQ, offered>>
    /\ forwarded' = forwarded + 1
    /\ raw' = [raw EXCEPT ![t].batch = Tail(@),
                          ![t].pc = IF Len(raw[t].batch) = 1 THEN "check" ELSE "forward"]
    /\ UNCHANGED <<receiver, tickQ, rawStop, rawThread, rawFile, cleanSide, stops>>

RawStep(t) ==
    \/ RawCheck(t) \/ RawTake(t) \/ RawDrops(t) \/ RawRead(t) \/ RawWrite(t)
    \/ RawForward(t)

-----------------------------------------------------------------------------
(* The clean pipeline.                                                     *)

StartClean ==
    /\ NotRunning(cleanThread, clean)
    /\ \E t \in CleanThreads :
         /\ clean[t].pc = "unborn"
         /\ \A u \in 1..(t - 1) : clean[u].pc # "unborn"
         /\ clean' = [clean EXCEPT ![t].pc = "check"]
         /\ cleanThread' = t
    /\ cleanStop' = FALSE
    /\ UNCHANGED <<receiver, tickQ, rawSide, cleanQ, history, lastPrint, structured,
                   broadcast, offered, stops>>

StopClean ==
    /\ cleanThread # 0
    /\ stops < MaxStops
    /\ stops' = stops + 1
    /\ cleanStop' = TRUE
    /\ cleanThread' = 0
    /\ UNCHANGED <<receiver, tickQ, rawSide, cleanQ, clean, history, lastPrint, structured,
                   broadcast, offered>>

\* Leaving the loop forgets the buffer.
CleanCheck(t) ==
    /\ clean[t].pc = "check"
    /\ clean' = IF cleanStop
                THEN [clean EXCEPT ![t].pc = "gone", ![t].buffer = << >>]
                ELSE [clean EXCEPT ![t].pc = "take"]
    /\ UNCHANGED <<receiver, tickQ, rawSide, cleanQ, cleanStop, cleanThread, history,
                   lastPrint, structured, broadcast, offered, stops>>

CleanTake(t) ==
    /\ clean[t].pc = "take"
    /\ LET b == Batch(cleanQ) IN
         /\ cleanQ' = b[2]
         /\ clean' = [clean EXCEPT ![t].batch = b[1],
                                   ![t].pc = IF b[1] = << >> THEN "flush" ELSE "judge"]
    /\ UNCHANGED <<receiver, tickQ, rawSide, cleanStop, cleanThread, history, lastPrint,
                   structured, broadcast, offered, stops>>

\* Faulty variant: only the token's last tick is compared.
LastOnly(p) == p.token \in DOMAIN lastPrint /\ lastPrint[p.token] = p
\* _is_duplicate.
IsDuplicate(p) ==
    \/ \E i \in DOMAIN history : history[i] = p
    \/ p.token \in DOMAIN lastPrint /\ lastPrint[p.token] = p

CleanJudge(t) ==
    /\ clean[t].pc = "judge"
    /\ clean' = [clean EXCEPT ![t].pc = "remember",
                              ![t].duplicate = IsDuplicate(prints[Head(clean[t].batch)])]
    /\ UNCHANGED <<receiver, tickQ, rawSide, cleanQ, cleanStop, cleanThread, history,
                   lastPrint, structured, broadcast, offered, stops>>

\* _remember: a new fingerprint enters the history, the oldest one leaves a
\* history that grew too long; seeing one again does not renew it.
Remembered(p) ==
    IF \E i \in DOMAIN history : history[i] = p THEN history
    ELSE IF Len(history) = HistoryLimit THEN Append(Tail(history), p)
    ELSE Append(history, p)

\* clean_record keeps what is no duplicate; clean_batch sorts by time.
CleanRemember(t) ==
    /\ clean[t].pc = "remember"
    /\ LET id == Head(clean[t].batch)
           p == prints[id]
       IN /\ history' = Remembered(p)
          /\ lastPrint' = [k \in DOMAIN lastPrint \cup {p.token} |->
                             IF k = p.token THEN p ELSE lastPrint[k]]
          /\ clean' = [clean EXCEPT
               ![t].batch = Tail(@),
               ![t].kept = IF clean[t].duplicate THEN @ ELSE Append(@, id),
               ![t].duplicate = FALSE,
               ![t].pc = IF Len(clean[t].batch) = 1 THEN "broadcast" ELSE "judge"]
    /\ UNCHANGED <<receiver, tickQ, rawSide, cleanQ, cleanStop, cleanThread, structured,
                   broadcast, offered, stops>>

\* The stable sort by time of clean_batch: which place each tick gets.
Before(ids, k, l) ==
    LET at(m) == prints[ids[m]].at IN at(k) < at(l) \/ (at(k) = at(l) /\ k < l)
Place(ids, k) == 1 + Cardinality({l \in DOMAIN ids : Before(ids, l, k)})
InOrder(ids) ==
    [i \in DOMAIN ids |-> ids[CHOOSE k \in DOMAIN ids : Place(ids, k) = i]]

\* One tick after the other is enriched, broadcast and buffered.
CleanBroadcast(t) ==
    /\ clean[t].pc = "broadcast"
    /\ LET sorted == InOrder(clean[t].kept) IN
         /\ broadcast' = broadcast \o sorted
         /\ clean' = [clean EXCEPT ![t].kept = << >>, ![t].buffer = @ \o sorted,
                                   ![t].pc = "flush"]
    /\ UNCHANGED <<receiver, tickQ, rawSide, cleanQ, cleanStop, cleanThread, history,
                   lastPrint, structured, offered, stops>>

\* A long enough buffer is written, a shorter one when two seconds passed.
CleanFlush(t) ==
    /\ clean[t].pc = "flush"
    /\ \/ /\ Len(clean[t].buffer) < Threshold
          /\ clean' = [clean EXCEPT ![t].pc = "check"]
       \/ /\ clean[t].buffer # << >>
          /\ clean' = [clean EXCEPT ![t].pc = "write", ![t].seen = structured]
    /\ UNCHANGED <<receiver, tickQ, rawSide, cleanQ, cleanStop, cleanThread, history,
                   lastPrint, structured, broadcast, offered, stops>>

\* Faulty variant: the buffer is kept after it was written.
KeptBuffer(t) == clean[t].buffer
BufferAfterWrite(t) == << >>

\* The writer swallows its errors: the buffer is cleared whatever happened.
CleanWrite(t) ==
    /\ clean[t].pc = "write"
    /\ clean' = [clean EXCEPT ![t].pc = "check", ![t].seen = << >>,
                              ![t].buffer = BufferAfterWrite(t)]
    /\ \/ structured' = Appended(clean[t].seen, clean[t].buffer)
       \/ WritesFail /\ UNCHANGED structured
    /\ UNCHANGED <<receiver, tickQ, rawSide, cleanQ, cleanStop, cleanThread, history,
                   lastPrint, broadcast, offered, stops>>

CleanStep(t) ==
    \/ CleanCheck(t) \/ CleanTake(t) \/ CleanJudge(t) \/ CleanRemember(t)
    \/ CleanBroadcast(t) \/ CleanFlush(t) \/ CleanWrite(t)

-----------------------------------------------------------------------------
Init ==
    /\ prints = << >> /\ pending = 0
    /\ tickQ = << >> /\ cleanQ = << >>
    /\ rawStop = FALSE /\ rawThread = 0
    /\ raw = [t \in RawThreads |-> [pc |-> "unborn", batch |-> << >>, seen |-> << >>]]
    /\ rawFile = << >> /\ forwarded = 0
    /\ cleanStop = FALSE /\ cleanThread = 0
    /\ clean = [t \in CleanThreads |->
                  [pc |-> "unborn", batch |-> << >>, duplicate |-> FALSE, kept |-> << >>,
                   buffer |-> << >>, seen |-> << >>]]
    /\ history = << >> /\ lastPrint = << >>
    /\ structured = << >> /\ broadcast = << >>
    /\ offered = {} /\ stops = 0

Next ==
    \/ Arrive \/ Enqueue \/ GiveUp
    \/ StartRaw \/ StopRaw \/ \E t \in RawThreads : RawStep(t)
    \/ StartClean \/ StopClean \/ \E t \in CleanThreads : CleanStep(t)

Spec == Init /\ [][Next]_vars

\* The threads and the event loop are scheduled and the session starts both
\* pipelines; nothing makes a tick arrive or a pipeline stop.
Fairness ==
    /\ WF_vars(Enqueue) /\ WF_vars(GiveUp)
    /\ WF_vars(StartRaw) /\ WF_vars(StartClean)
    /\ \A t \in RawThreads : WF_vars(RawStep(t))
    /\ \A t \in CleanThreads : WF_vars(CleanStep(t))
FairSpec == Spec /\ Fairness

-----------------------------------------------------------------------------
(* Properties.                                                             *)

\* The lines a tick waits in, each with the stage of those who wait.
Entry == <<"arrived", 0>>
TickLine == <<"queued", 0>>
RawLine(t) == <<"taken", t>>
CleanerLine == <<"offered", 0>>
CleanLine(t) == <<"offered", t>>
Backend == <<"delivered", 0>>
Lines == {Entry, TickLine, CleanerLine, Backend}
         \cup {RawLine(t) : t \in RawThreads} \cup {CleanLine(t) : t \in CleanThreads}

Waiting(line) ==
    CASE line = Entry        -> IF pending = 0 THEN << >> ELSE <<pending>>
      [] line = TickLine     -> tickQ
      [] line = CleanerLine  -> cleanQ
      [] line = Backend      -> broadcast
      [] line[1] = "taken"   -> raw[line[2]].batch
      [] OTHER               -> clean[line[2]].batch \o clean[line[2]].kept

\* A spot is a place in a line.
Spots == UNION {{line} \X DOMAIN Waiting(line) : line \in Lines}
Holds(spot) == Waiting(spot[1])[spot[2]]
SpotsOf(id) == {spot \in Spots : Holds(spot) = id}

\* Where a tick is; "twice" is no stage of the Conveyor.
StageOf(id) ==
    LET spots == SpotsOf(id) IN
    CASE id > Len(prints) -> "absent"
      [] id <= Len(prints) /\ spots = {} -> "lost"
      [] id <= Len(prints) /\ Cardinality(spots) = 1 -> (CHOOSE s \in spots : TRUE)[1][1]
      [] OTHER -> "twice"

stages == [id \in Ids |-> StageOf(id)]

C == INSTANCE Conveyor WITH Ticks <- Ids, stage <- stages

\* Whatever threads a stop left behind, a tick goes through the queues once
\* and forward: none comes back, is taken by two threads or delivered twice.
Moves == C!Spec

\* Unless a pipeline is stopped no tick gets stuck in a queue or a batch,
\* however full the queues and whichever writes fail (the get_batch loops of
\* both threads).
Delivers == <>(stops > 0) \/ C!Settles

\* The structured file is what was broadcast, in that order and without a
\* gap, up to what still waits in the buffer.
StructuredInOrder == IsPrefix(structured, broadcast)

\* The counter of forwarded records counts what entered the cleaner queue.
ForwardedCounted == forwarded <= Cardinality(offered)

\* What the backend was told ends up in the structured file, for the "full
\* audit trail" of _consume_loop.
Audited == \A id \in Ids : (id \in ToSet(broadcast)) ~> (id \in ToSet(structured))
=============================================================================
