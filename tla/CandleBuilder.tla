---------------------------- MODULE CandleBuilder ----------------------------
(***************************************************************************)
(* The candle builder of one instrument (core/candle_builder.py): the      *)
(* minute that is forming, the closed minutes, and the higher timeframes   *)
(* made of them.  Minutes are counted from the market's opening.  The      *)
(* builder's lock makes each operation one step.                           *)
(***************************************************************************)
EXTENDS Integers, SequencesExt

CONSTANTS
  Frames,       \* minutes of the higher timeframes (3, 5 and 15)
  MaxMinutes,   \* size of the deque of closed minutes (400)
  MaxFrames     \* size of the deque of each of them (140, 80 and 30)

ASSUME FramesAssumption ==
  Frames \subseteq Nat \ {0, 1} /\ MaxMinutes \in Nat \ {0}
  /\ MaxFrames \in [Frames -> Nat \ {0}]

VARIABLE builder

Empty == [forming |-> <<>>, closed |-> <<>>, late |-> 0,
          buffer |-> [n \in Frames |-> <<>>],
          higher |-> [n \in Frames |-> <<>>]]

Higher(a, b) == IF a > b THEN a ELSE b
Lower(a, b) == IF a < b THEN a ELSE b
Newest(s, size) == IF Len(s) <= size THEN s
                   ELSE SubSeq(s, Len(s) - size + 1, Len(s))

\* _clamp_volume: an unknown volume (-1) counts as none.
Clamp(volume) == Higher(volume, 0)

Opened(minute, price, volume) ==
  [minute |-> minute, open |-> price, high |-> price, low |-> price,
   close |-> price, volume |-> Clamp(volume), gap |-> FALSE]

Extended(c, price, volume) ==
  [c EXCEPT !.high = Higher(@, price), !.low = Lower(@, price),
            !.close = price, !.volume = @ + Clamp(volume)]

\* _aggregate of consecutive minutes, under the first one's timestamp.
HighOf(cs) == CHOOSE h \in {cs[k].high : k \in DOMAIN cs} :
                \A k \in DOMAIN cs : cs[k].high <= h
LowOf(cs) == CHOOSE l \in {cs[k].low : k \in DOMAIN cs} :
               \A k \in DOMAIN cs : l <= cs[k].low
\* The volume of the first k.
TotalOf(cs) ==
  LET total[k \in 0 .. Len(cs)] ==
        IF k = 0 THEN 0 ELSE total[k - 1] + cs[k].volume
  IN total
Aggregate(cs) ==
  [minute |-> cs[1].minute, open |-> cs[1].open, close |-> Last(cs).close,
   high |-> HighOf(cs), low |-> LowOf(cs), volume |-> TotalOf(cs)[Len(cs)],
   gap |-> FALSE]

\* _update_tf_buffer_locked: a candle joins the bucket that is being filled,
\* or starts it over when it is of another bucket or not the next minute.
Bucket(n, minute) == minute \div n
Joined(buffer, n, c) ==
  IF /\ buffer # <<>>
     /\ Bucket(n, Last(buffer).minute) = Bucket(n, c.minute)
     /\ c.minute = Last(buffer).minute + 1
  THEN Append(buffer, c) ELSE <<c>>
EndsBucket(n, c) == (c.minute + 1) % n = 0
BufferAfter(n, c) == IF EndsBucket(n, c) THEN <<>>
                     ELSE Joined(builder.buffer[n], n, c)
\* Faulty variant: a window with a minute missing is taken for whole.
AnyLength(full, n) == full # <<>>
Complete(full, n) == Len(full) = n
HigherAfter(n, c) ==
  LET full == Joined(builder.buffer[n], n, c)
  IN IF EndsBucket(n, c) /\ Complete(full, n)
     THEN Newest(Append(builder.higher[n], Aggregate(full)), MaxFrames[n])
     ELSE builder.higher[n]

\* A minute without a tick, at the price of the last close.
GapCandle(minute, price) ==
  [minute |-> minute, open |-> price, high |-> price, low |-> price,
   close |-> price, volume |-> 0, gap |-> TRUE]
\* Faulty variant: the minute of the new tick gets a gap candle as well.
OneGapMore(c, minute) ==
  [k \in 1 .. (minute - c.minute) |-> GapCandle(c.minute + k, c.close)]
GapCandles(c, minute) ==
  [k \in 1 .. (minute - c.minute - 1) |-> GapCandle(c.minute + k, c.close)]

HasForming == builder.forming # <<>>
Forming == builder.forming[1]

\* A tick of a minute that is over.
Discard(minute) ==
  /\ HasForming /\ minute < Forming.minute
  /\ builder' = [builder EXCEPT !.late = @ + 1]

Start(minute, price, volume) ==
  /\ ~HasForming
  /\ builder' = [builder EXCEPT !.forming = <<Opened(minute, price, volume)>>]

Extend(minute, price, volume) ==
  /\ HasForming /\ minute = Forming.minute
  /\ builder' = [builder EXCEPT
                   !.forming = <<Extended(Forming, price, volume)>>]

\* Faulty variant: a tick of another minute closes the forming one.
OfAnother(minute) == minute # Forming.minute
OfLater(minute) == minute > Forming.minute

\* A tick of a later minute closes the forming one; the minutes between are
\* filled with gap candles, which empty the buffers.
Roll(minute, price, volume) ==
  /\ HasForming /\ OfLater(minute)
  /\ LET gaps == GapCandles(Forming, minute)
     IN builder' = [builder EXCEPT
          !.forming = <<Opened(minute, price, volume)>>,
          !.closed = Newest(Append(@, Forming) \o gaps, MaxMinutes),
          !.buffer = [n \in Frames |-> IF gaps = <<>>
                        THEN BufferAfter(n, Forming) ELSE <<>>],
          !.higher = [n \in Frames |-> HigherAfter(n, Forming)]]

OnTick(minute, price, volume) ==
  \/ Discard(minute)
  \/ Start(minute, price, volume)
  \/ Extend(minute, price, volume)
  \/ Roll(minute, price, volume)

\* get_last_closed("1min"), as a sequence of none or one.
LastClosed == IF builder.closed = <<>> THEN <<>> ELSE <<Last(builder.closed)>>
=============================================================================
