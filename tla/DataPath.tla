------------------------------ MODULE DataPath ------------------------------
(***************************************************************************)
(* The way of a spot tick to the pipeline cycle of main: the consumer      *)
(* thread of the feed validates it and gives it to the candle builder, the *)
(* data center broadcasts it once more to the engine from a thread of its  *)
(* own, and main's loop polls the last closed minute.  The engine is       *)
(* stopped, its candles are archived, and the process may be started again *)
(* on the same day (core/data_engine.py, main.py).                         *)
(***************************************************************************)
EXTENDS TickValidator, CandleBuilder, FiniteSets

CONSTANTS
  UnitsPerMinute,   \* units of the clock in a minute
  Horizon,          \* last unit of the day that is looked at
  MaxTicks,         \* ticks of the feed
  MaxQueue,         \* ticks on their way through the data center
  MaxRuns,          \* processes of the day
  Quotes,           \* what the feed sends: price, volume, fault, and how
                    \* far the timestamp is behind the clock
  Timeouts          \* TRUE: a step of the stop may time out

ASSUME DataPathAssumption ==
  /\ UnitsPerMinute \in Nat \ {0} /\ Horizon \in Nat /\ MaxTicks \in Nat
  /\ MaxQueue \in Nat /\ MaxRuns \in Nat \ {0}
  /\ \A q \in Quotes : q.price \in Nat \ {0} /\ q.volume \in {None} \cup Nat
                        /\ q.delay \in Nat
  /\ Timeouts \in BOOLEAN

VARIABLES
  clock, ticks,     \* ist_now(), and the ticks the feed has sent
  feed,             \* the consumer thread: "on", "lingers" or "off"
  running,          \* is_running
  queue,            \* ticks handed to the data center
  bridge,           \* the tick whose broadcast has passed is_running
  done,             \* _last_1m_closed_ts of main
  phase,            \* how far main is: "loop", then the steps of stop()
  inTime,           \* no step of the stop has timed out
  archive,          \* the file of the day: minute -> candle
  runs,
  taken             \* history: the ticks the builder was given, in order

vars == <<validator, builder, clock, ticks, feed, running, queue, bridge,
          done, phase, inTime, archive, runs, taken>>

NoTickYet == /\ validator = FreshValidator /\ builder = Empty
             /\ feed = "on" /\ running = TRUE /\ queue = <<>> /\ bridge = <<>>
             /\ done = None /\ phase = "loop" /\ inTime = TRUE /\ taken = <<>>

Init == NoTickYet /\ clock = 0 /\ ticks = 0 /\ runs = 1 /\ archive = <<>>

Minute(time) == time \div UnitsPerMinute

\* The deques have room for the day: 400 for its 375 minutes, and 140, 80
\* and 30 for their 125 windows of three, 75 of five and 25 of fifteen.
ASSUME DayAssumption ==
  /\ Minute(Horizon) <= MaxMinutes
  /\ \A n \in Frames : Minute(Horizon) \div n <= MaxFrames[n]

\* _on_validated_tick of a spot tick.
Take(minute, t) ==
  /\ OnTick(minute, t.price, t.volume)
  /\ taken' = Append(taken, [minute |-> minute, price |-> t.price,
                             volume |-> t.volume, passed |-> t.passed])

Sent(q) == [ts |-> clock - q.delay, price |-> q.price, volume |-> q.volume,
            fault |-> q.fault]

\* _process_tick: the tick goes to the data center whether it was valid or
\* not, and is lost when the queue there is full.
ProcessTick ==
  /\ feed # "off" /\ ticks < MaxTicks
  /\ \E q \in Quotes :
       LET t == Sent(q)
           sent == [price |-> t.price, volume |-> t.volume,
                    passed |-> Passes(t)]
       IN /\ t.ts >= 0 /\ Validate(t)
          /\ IF Passes(t) THEN Take(Minute(t.ts), sent)
             ELSE UNCHANGED <<builder, taken>>
          /\ queue' = IF Len(queue) < MaxQueue THEN Append(queue, sent)
                      ELSE queue
  /\ ticks' = ticks + 1
  /\ UNCHANGED <<clock, feed, running, bridge, done, phase, inTime, archive,
                 runs>>

\* _on_data_center_tick: is_running is read first, the builder called later,
\* with the time of that call.  The cleaner may take a tick for a repeat.
Broadcast ==
  /\ queue # <<>> /\ bridge = <<>> /\ phase \notin {"archive", "stopped"}
  /\ queue' = Tail(queue)
  /\ bridge' \in {<<>>} \cup (IF running THEN {<<Head(queue)>>} ELSE {})
  /\ UNCHANGED <<validator, builder, clock, ticks, feed, running, done, phase,
                 inTime, archive, runs, taken>>

BridgeTakes ==
  /\ bridge # <<>>
  /\ Take(Minute(clock), bridge[1])
  /\ bridge' = <<>>
  /\ UNCHANGED <<validator, clock, ticks, feed, running, queue, done, phase,
                 inTime, archive, runs>>

\* One turn of run_forever: the last closed minute, once.
Cycle ==
  /\ phase = "loop"
  /\ LastClosed # <<>> /\ LastClosed[1].minute # done
  /\ done' = LastClosed[1].minute
  /\ UNCHANGED <<validator, builder, clock, ticks, feed, running, queue,
                 bridge, phase, inTime, archive, runs, taken>>

StopBegins ==
  /\ phase = "loop"
  /\ phase' = "feed" /\ running' = FALSE
  /\ UNCHANGED <<validator, builder, clock, ticks, feed, queue, bridge, done,
                 inTime, archive, runs, taken>>

\* The disconnect runs in a worker that is waited for only so long.
StopFeed ==
  /\ phase = "feed"
  /\ \/ feed' = "off" /\ inTime' = inTime
     \/ Timeouts /\ feed' = "lingers" /\ inTime' = FALSE
  /\ phase' = "pipelines"
  /\ UNCHANGED <<validator, builder, clock, ticks, running, queue, bridge,
                 done, archive, runs, taken>>

\* Faulty variant: the stop does not wait for the broadcast in flight.
NotAwaited == TRUE
BridgeDone == bridge = <<>>

\* The stop of the clean pipeline joins the thread of the broadcast.
StopPipelines ==
  /\ phase = "pipelines"
  /\ \/ BridgeDone /\ inTime' = inTime
     \/ Timeouts /\ ~BridgeDone /\ inTime' = FALSE
  /\ phase' = "archive" /\ queue' = <<>>
  /\ UNCHANGED <<validator, builder, clock, ticks, feed, running, bridge,
                 done, archive, runs, taken>>

FirstOf(S) == CHOOSE i \in S : \A j \in S : i <= j
LastOf(S) == CHOOSE i \in S : \A j \in S : j <= i

\* _archive_daily_data: the file is merged with the closed minutes, the last
\* of the candles of a minute is kept, and the file replaced.
Candles(cs) == [m \in {cs[i].minute : i \in DOMAIN cs} |->
                  cs[LastOf({i \in DOMAIN cs : cs[i].minute = m})]]
Merged(old, new) ==
  [m \in DOMAIN old \cup DOMAIN new |->
     IF m \in DOMAIN new THEN new[m] ELSE old[m]]
Archive ==
  /\ phase = "archive"
  /\ \/ /\ archive' = IF builder.closed = <<>> THEN archive
                      ELSE Merged(archive, Candles(builder.closed))
        /\ inTime' = inTime
     \/ Timeouts /\ archive' = archive /\ inTime' = FALSE
  /\ phase' = "stopped"
  /\ UNCHANGED <<validator, builder, clock, ticks, feed, running, queue,
                 bridge, done, runs, taken>>

\* A new process on the same day, after a stop or after the old one died.
Restart ==
  /\ runs < MaxRuns /\ runs' = runs + 1
  /\ validator' = FreshValidator /\ builder' = Empty
  /\ feed' = "on" /\ running' = TRUE /\ queue' = <<>> /\ bridge' = <<>>
  /\ done' = None /\ phase' = "loop" /\ inTime' = TRUE /\ taken' = <<>>
  /\ UNCHANGED <<clock, ticks, archive>>

Advance ==
  /\ clock < Horizon /\ clock' = clock + 1
  /\ UNCHANGED <<validator, builder, ticks, feed, running, queue, bridge,
                 done, phase, inTime, archive, runs, taken>>

Stop == StopBegins \/ StopFeed \/ StopPipelines \/ Archive
Next == ProcessTick \/ Broadcast \/ BridgeTakes \/ Cycle \/ Stop \/ Restart
        \/ Advance

\* The loop of main keeps turning.
Spec == Init /\ [][Next]_vars /\ WF_vars(Cycle)
-----------------------------------------------------------------------------
\* The candles of a day, defined from the ticks the builder was given, seq,
\* instead of step by step.  A tick counts unless one of a later minute came
\* before.
Counted(seq) == [m \in 0 .. Minute(Horizon) |->
                   {i \in DOMAIN seq :
                      /\ seq[i].minute = m
                      /\ \A j \in 1 .. i - 1 : seq[j].minute <= m}]
HighestOf(seq, S) == CHOOSE p \in {seq[i].price : i \in S} :
                       \A i \in S : seq[i].price <= p
LowestOf(seq, S) == CHOOSE p \in {seq[i].price : i \in S} :
                      \A i \in S : p <= seq[i].price
\* The volume of those in S among the first n.
VolumeUpTo(seq, S) ==
  LET upto[n \in 0 .. Len(seq)] ==
        IF n = 0 THEN 0
        ELSE upto[n - 1] + (IF n \in S THEN Clamp(seq[n].volume) ELSE 0)
  IN upto
CandleOf(seq, S, m) ==
  [minute |-> m, open |-> seq[FirstOf(S)].price,
   close |-> seq[LastOf(S)].price, gap |-> FALSE,
   high |-> HighestOf(seq, S), low |-> LowestOf(seq, S),
   volume |-> VolumeUpTo(seq, S)[Len(seq)]]

\* The minutes that are over, and the close before a minute without a tick.
Over(seq, ticksOf) == {m \in DOMAIN ticksOf :
                         /\ seq # <<>> /\ seq[1].minute <= m
                         /\ \E k \in DOMAIN ticksOf : k > m /\ ticksOf[k] # {}}
CloseBefore(seq, ticksOf, m) ==
  LET k == LastOf({l \in 0 .. m - 1 : ticksOf[l] # {}})
  IN seq[LastOf(ticksOf[k])].price

\* The minutes that seq closes: each that is over, once and in order, as the
\* candle of the ticks that counted for it, or as a gap.
ClosedFollow(seq, closed) ==
  LET ticksOf == Counted(seq)
  IN /\ Len(closed) = Cardinality(Over(seq, ticksOf))
     /\ \A i \in DOMAIN closed :
          LET m == seq[1].minute + i - 1
          IN closed[i] =
               IF ticksOf[m] # {} THEN CandleOf(seq, ticksOf[m], m)
               ELSE GapCandle(m, CloseBefore(seq, ticksOf, m))

\* Every minute from the first tick on is closed once, in order, as the
\* candle of the ticks that counted for it, or as a gap when there was none,
\* in whatever order the two threads called the builder.
MinutesFollowTicks == ClosedFollow(taken, builder.closed)

\* The windows of a higher timeframe of which every minute is over and traded.
Window(n, b) == n * b .. n * b + n - 1
Whole(n, over, ticksOf) == {b \in 0 .. Minute(Horizon) \div n :
                              \A m \in Window(n, b) :
                                m \in over /\ ticksOf[m] # {}}
WindowCandle(seq, n, b) ==
  CandleOf(seq, UNION {Counted(seq)[m] : m \in Window(n, b)}, n * b)
HigherFollow(seq, higher) ==
  \A n \in Frames :
    LET whole == Whole(n, Over(seq, Counted(seq)), Counted(seq))
        at == DOMAIN higher[n]
    IN /\ \A b \in whole : \E k \in at : higher[n][k] = WindowCandle(seq, n, b)
       /\ \A k \in at : \E b \in whole : higher[n][k] = WindowCandle(seq, n, b)
       /\ \A j, k \in at : j < k => higher[n][j].minute < higher[n][k].minute

\* A higher timeframe has the candle of each of its windows of minutes that
\* all traded, once and in order, and no other: never one with a hole in it
\* or across two windows.
HigherFollowsTicks == HigherFollow(taken, builder.higher)

\* A stop that no timeout cut short has archived every closed minute, as it
\* is in the builder at the end: no thread closes one behind its back.
ArchiveIsWhole ==
  phase = "stopped" /\ inTime =>
    \A i \in DOMAIN builder.closed :
      LET c == builder.closed[i]
      IN c.minute \in DOMAIN archive /\ archive[c.minute] = c

\* A minute is processed once: main goes from minute to later minute.
CyclesGoForward == [][done' # done => done' > done \/ runs' # runs]_vars

\* The last closed minute is processed, unless it is overtaken by a newer
\* one or main leaves its loop.
LastIsProcessed ==
  \A m \in 0 .. Minute(Horizon) :
    (LastClosed # <<>> /\ LastClosed[1].minute = m)
      ~> (done = m \/ phase # "loop" \/ LastClosed = <<>>
            \/ LastClosed[1].minute # m)

\* A tick that the validator refused reaches no candle.  The code does not
\* keep it: the data center broadcasts it back to the engine.
OnlyValidTicks == \A i \in DOMAIN taken : taken[i].passed

\* Each minute that traded is processed by main.  The code does not keep it:
\* main polls only the last closed minute, which is a gap candle when a tick
\* closed several.
EveryMinuteProcessed ==
  [][\A i \in DOMAIN builder.closed :
       done' # done /\ builder.closed[i].minute > done /\ runs' = runs
         => builder.closed[i].gap \/ builder.closed[i].minute = done']_vars

\* One type invariant of the path.
DataPathTypeOK ==
  /\ clock \in 0 .. Horizon /\ ticks \in 0 .. MaxTicks
  /\ feed \in {"on", "lingers", "off"} /\ running \in BOOLEAN
  /\ Len(queue) <= MaxQueue /\ Len(bridge) <= 1
  /\ done \in {None} \cup 0 .. Minute(Horizon)
  /\ phase \in {"loop", "feed", "pipelines", "archive", "stopped"}
  /\ inTime \in BOOLEAN /\ runs \in 1 .. MaxRuns
  /\ Len(builder.closed) <= MaxMinutes /\ Len(builder.forming) <= 1
=============================================================================
