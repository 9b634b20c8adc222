-------------------------- MODULE HistoryDownload ---------------------------
(***************************************************************************)
(* HistoricalDownloader.download_1min_candles                              *)
(* (src/core/historical_downloader.py): one file of candles and one meta   *)
(* file per trading day, and a checkpoint of the days of the range that    *)
(* are done.  A download may be killed between any two writes, any write   *)
(* may fail, and the next download finds what is on the disk.              *)
(*                                                                         *)
(* A file is its number of rows.  Each write is atomic (write a temporary  *)
(* file, replace).  One asset: the checkpoint of another one is ignored    *)
(* like that of another range.                                             *)
(***************************************************************************)
EXTENDS HistoryAnswers

VARIABLES
    completed,  \* _completed of the running tracker
    range, skip, recent,  \* the arguments of the running call
    todo, day,  \* the days that are left, and the current one
    answer,
    failed,     \* any_failed_or_partial
    pc, calls

disk == <<rows, meta, progress>>
arguments == <<range, skip, recent>>
vars == <<disk, completed, arguments, todo, day, answer, failed, pc, calls>>

NoProgress == [range |-> {}, completed |-> {}]
NoAnswer == [raw |-> 0, valid |-> 0]

TypeOK ==
    /\ {rows, meta} \subseteq [Days -> {NoFile} \cup 0..Expected]
    /\ progress \in [range : Ranges \cup {{}}, completed : SUBSET Days]
    /\ completed \subseteq Days /\ todo \subseteq range
    /\ range \in Ranges \cup {{}} /\ skip \in BOOLEAN /\ recent \in BOOLEAN
    /\ day \in Days \cup {0}
    /\ answer \in Answers \cup {NoAnswer}
    /\ failed \in BOOLEAN
    /\ pc \in {"idle", "day", "call", "save", "meta", "mark"}
    /\ calls \in 0..Downloads

-----------------------------------------------------------------------------
\* _gap_detection, which finds none where there are no rows at all.
Gaps(a) == IF a.valid = 0 THEN 0 ELSE Expected - a.valid
\* Nothing, fewer than the minimum, or too many gaps: nothing is saved.
Rejected(a) == a.raw = 0 \/ a.raw < MinRequired \/ Gaps(a) > GapLimit
Degraded(a) ==
    \/ 100 * (a.raw - a.valid) > 2 * a.raw
    \/ Gaps(a) > 3
    \/ ~Full(a.valid)
\* Faulty variant: what was fetched last is saved.
NeverKept(d, a) == FALSE
\* What is there is better than what came.
Kept(d, a) == ~Rejected(a) /\ Degraded(a) /\ Usable(d)

-----------------------------------------------------------------------------
\* A call begins, with the days the last one completed if it had this range.
Begin ==
    /\ pc = "idle" /\ calls < Downloads
    /\ calls' = calls + 1
    /\ range' \in Ranges /\ skip' \in BOOLEAN /\ recent' \in BOOLEAN
    /\ completed' = IF progress.range = range' THEN progress.completed ELSE {}
    /\ todo' = range' /\ failed' = FALSE
    /\ pc' = "day"
    /\ UNCHANGED <<disk, day, answer>>

\* The days come in order, the latest first for a recent download.
IsNext(d) == d \in todo /\ \A e \in todo : IF recent THEN e <= d ELSE d <= e

\* Faulty variant: existing files are passed over, and nobody asks whether
\* there is one.
PassedOver(d) == d \notin TradingDays \/ skip
\* A day without a session, or with a file that is as it should be.
Settled(d) == d \notin TradingDays \/ (skip /\ Usable(d))

TakeDay ==
    /\ pc = "day"
    /\ \E d \in todo :
         /\ IsNext(d)
         /\ day' = d /\ todo' = todo \ {d}
         /\ pc' = IF d \in completed THEN "day"
                  ELSE IF Settled(d) THEN "mark" ELSE "call"
    /\ UNCHANGED <<disk, completed, arguments, answer, failed, calls>>

\* The day is given up, and the call goes on with the next one.
GiveUp == failed' = TRUE /\ pc' = "day"

\* The broker is asked, again after a network error; in the end there is an
\* answer or none.
Fetch ==
    /\ pc = "call"
    /\ \E a \in Answers :
         \/ Rejected(a) /\ GiveUp /\ UNCHANGED answer
         \/ Kept(day, a) /\ pc' = "mark" /\ UNCHANGED <<answer, failed>>
         \/ /\ ~Rejected(a) /\ ~Kept(day, a)
            /\ answer' = a /\ pc' = "save" /\ UNCHANGED failed
    /\ UNCHANGED <<disk, completed, arguments, todo, day, calls>>

Save ==
    /\ pc = "save"
    /\ \/ rows' = [rows EXCEPT ![day] = answer.valid] /\ pc' = "meta" /\ UNCHANGED failed
       \/ GiveUp /\ UNCHANGED rows
    /\ UNCHANGED <<meta, progress, completed, arguments, todo, day, answer, calls>>

\* _write_meta swallows its errors.
WriteMeta ==
    /\ pc = "meta"
    /\ meta' \in {meta, [meta EXCEPT ![day] = answer.valid]}
    /\ pc' = "mark" /\ answer' = NoAnswer
    /\ UNCHANGED <<rows, progress, completed, arguments, todo, day, failed, calls>>

\* mark_completed: the day is added in memory before the file is written.
Mark ==
    /\ pc = "mark"
    /\ completed' = completed \cup {day}
    /\ \/ /\ progress' = [range |-> range, completed |-> completed']
          /\ pc' = "day" /\ UNCHANGED failed
       \/ GiveUp /\ UNCHANGED progress
    /\ UNCHANGED <<rows, meta, arguments, todo, day, answer, calls>>

Stopped ==
    /\ pc' = "idle" /\ range' = {} /\ skip' = FALSE /\ recent' = FALSE
    /\ completed' = {} /\ todo' = {} /\ day' = 0 /\ answer' = NoAnswer /\ failed' = FALSE

\* Faulty variant: a day that failed does not count.
FinishedAnyhow == TRUE
Finished == ~failed /\ range \subseteq completed

\* finalize_if_complete: the checkpoint has served, unless it cannot be removed.
Finish ==
    /\ pc = "day" /\ todo = {}
    /\ progress' \in {progress} \cup (IF Finished THEN {NoProgress} ELSE {})
    /\ Stopped
    /\ UNCHANGED <<rows, meta, calls>>

Kill == pc # "idle" /\ Stopped /\ UNCHANGED <<disk, calls>>

Init ==
    /\ rows = [d \in Days |-> NoFile] /\ meta = rows
    /\ progress = NoProgress
    /\ completed = {} /\ todo = {} /\ range = {} /\ skip = FALSE /\ recent = FALSE
    /\ day = 0 /\ answer = NoAnswer /\ failed = FALSE
    /\ pc = "idle" /\ calls = 0

Next ==
    \/ Begin \/ TakeDay \/ Fetch \/ Save \/ WriteMeta \/ Mark \/ Finish \/ Kill

Spec == Init /\ [][Next]_vars

-----------------------------------------------------------------------------
(* Properties.                                                             *)

(* "safety: don't overwrite good file with degraded output"                *)
(* (historical_downloader.py:916): a full file is not replaced by one that *)
(* is not.  Not kept: the meta file a kill or a failed write left behind   *)
(* belongs to the file before, and makes a full file look unusable.        *)
GoodIsKept == [][\A d \in Days : Full(rows[d]) => Full(rows[d])']_vars

(* "Too many gaps; NOT saving file" (historical_downloader.py:892): a day   *)
(* is done only with a file that lacks no more minutes than are allowed.    *)
(* Not kept: of an answer without one valid row no gaps are counted, it is  *)
(* saved as a file without rows, and the day goes on the checkpoint.        *)
CompletedHasCandles == \A d \in progress.completed \cap TradingDays : Gapless(rows[d])
=============================================================================
