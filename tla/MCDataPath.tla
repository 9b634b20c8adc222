----------------------------- MODULE MCDataPath -----------------------------
(* The two makers of candles: the feed's data path, and the downloader of   *)
(* past days.  They write different files and share no state; they share    *)
(* this instance, and "part" says which of them runs.                       *)
(*                                                                          *)
(* The feed: a price, another one that is a unit late and without a volume, *)
(* and a price out of bounds.  The broker's history: nothing, half a day    *)
(* less, a whole day and days short of one, five and nine rows, the last    *)
(* also as a whole day with nine rows that are not valid; and a whole day   *)
(* of which no row is.                                                      *)
EXTENDS DataPath, HistoryAnswers

VARIABLES part, completed, range, skip, recent, todo, day,
          answer, failed, pc, calls

Quote(price, volume, delay, fault) ==
  [price |-> price, volume |-> volume, delay |-> delay, fault |-> fault]
SomeQuotes == {Quote(1, 1, 0, "none"), Quote(2, None, 1, "none"),
               Quote(3, 1, 0, "price_out_of_bounds")}

\* Room for no more than the windows of the day.
DequeSizes == [n \in Frames |-> 1]

Answer(raw, valid) == [raw |-> raw, valid |-> valid]
SomeAnswers == {Answer(0, 0), Answer(180, 180), Answer(375, 375), Answer(374, 373),
                Answer(370, 364), Answer(375, 371), Answer(375, 366),
                Answer(375, 0)}
TwoRanges == {{1, 2, 3}, {2, 3}}
H == INSTANCE HistoryDownload
downloader == <<rows, meta, progress, completed, range, skip, recent, todo, day,
                answer, failed, pc, calls>>

CandlesInit == part \in {"feed", "history"} /\ Init /\ H!Init
CandlesNext ==
  /\ UNCHANGED part
  /\ \/ part = "feed" /\ Next /\ UNCHANGED downloader
     \/ part = "history" /\ H!Next /\ UNCHANGED vars
CandlesSpec == CandlesInit /\ [][CandlesNext]_<<vars, downloader, part>>
=============================================================================
