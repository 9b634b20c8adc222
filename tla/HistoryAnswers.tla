--------------------------- MODULE HistoryAnswers ---------------------------
(* What the downloader of past days is asked for, how it is configured, what *)
(* the broker sends, and what is promised of the disk.                       *)
EXTENDS Integers

CONSTANTS
    TradingDays,    \* the days with a session
    Ranges,         \* the ranges asked for: sets of days
    Expected,       \* expected_1min
    MinRequired,    \* expected * partial_min_ratio
    GapLimit,       \* gap_reject_threshold
    Answers,        \* what the broker sends for a day: rows, and those of them
                    \* that are valid and on different minutes of the session
    Downloads       \* bound: calls of download_1min_candles

ASSUME DaysAssumption == \A r \in Ranges : r # {} /\ r \subseteq Nat \ {0}
ASSUME LimitsAssumption ==
    {Expected, MinRequired, GapLimit, Downloads} \subseteq Nat
ASSUME AnswersAssumption == Answers \subseteq [raw : Nat, valid : 0..Expected]

VARIABLES
    rows,       \* of each day's file
    meta,       \* actual_candles in its meta file
    progress    \* the checkpoint on the disk

Days == UNION Ranges

\* Of a day without the file.  A file may well have no rows.
NoFile == -1

Near(m, n) == m - n \in -2..2
Full(n) == n # NoFile /\ Near(n, Expected)

\* _existing_is_usable: a full file, and a meta file that agrees or none.
Usable(d) == Full(rows[d]) /\ (meta[d] = NoFile \/ Near(meta[d], rows[d]))

\* A file that lacks no more minutes than are allowed.
Gapless(n) == n # NoFile /\ Expected - n <= GapLimit
\* The only other file there is: the gaps of an answer without a valid row are
\* not counted, and it is saved.
Filed(n) == n = 0 \/ Gapless(n)

(* What the downloader would use is never replaced by rows it would not    *)
(* use, whatever is killed or fails between a file and its meta file.  It  *)
(* can stop being usable: two meta files in a row that were not written    *)
(* leave one that is too far off the third file.                           *)
UsableIsKept == [][\A d \in Days : Usable(d) => Full(rows[d])']_<<rows, meta, progress>>

(* A day on the checkpoint, which the next call of the range will pass     *)
(* over, has its file, and the file lacks no more minutes than are         *)
(* allowed, unless it lacks all of them (see CompletedHasCandles).         *)
CheckpointIsFiled ==
    /\ \A d \in progress.completed \cap TradingDays : Filed(rows[d])
    /\ progress.completed \subseteq progress.range

(* The checkpoint goes only when every day of its range has such a file.   *)
RangeIsFiled ==
    [][progress.range # {} /\ progress'.range = {}
         => \A d \in progress.range \cap TradingDays : Filed(rows[d])]_<<rows, meta, progress>>
=============================================================================
