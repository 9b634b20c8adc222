----------------------------- MODULE FeedWatch -----------------------------
(***************************************************************************)
(* The judgement of the feed and its way to the shared MarketState.  The   *)
(* engine has a FeedHealthMonitor that its ticks reach; main made another  *)
(* one, which nothing tells of ticks.  Three threads write what they read  *)
(* of a monitor into MarketState: the thread of the feed after each tick,  *)
(* the engine's health loop, and main after each candle (core/             *)
(* feed_health.py, core/data_engine.py, core/market_state.py, main.py).    *)
(***************************************************************************)
EXTENDS FeedFindings

VARIABLES
  market, day,    \* _market_phase_at(now)
  hot,            \* the thread of the feed: "idle", "ticked" or what it read
  looped,         \* what the health loop has read, None between two turns
  health,         \* MarketState.feed_health
  fallback        \* MarketState.using_fallback

vars == <<market, day, heard, monitor, findings, hot, looped, health,
          fallback>>

None == -1
Monitors == {"engine", "main"}
Oldest == DownGap + 1
SafeScore == 40

Fresh == [health |-> "DOWN", pending |-> "none", count |-> 0,
          downFor |-> None, low |-> 0, safe |-> FALSE]

Init ==
  /\ market = "PRE_MARKET" /\ day = 1
  /\ heard = [m \in Monitors |-> None]
  /\ monitor = [m \in Monitors |-> Fresh]
  /\ findings = <<>>
  /\ hot = "idle" /\ looped = "none"
  /\ health = "DOWN" /\ fallback = FALSE

\* _classify_health_institutional without metrics of the socket, as called.
Found(age) ==
  IF age = None \/ age > DownGap THEN "DOWN"
  ELSE IF age > StaleGap THEN "STALE"
  ELSE IF age > DelayGap THEN "DELAYED" ELSE "HEALTHY"

Settle(m, found) ==
  [m EXCEPT !.health = found, !.pending = "none", !.count = 0]

\* Faulty variant: a check that finds no worse state keeps the count.
KeepsCount(m, found) == [m EXCEPT !.health = found]
Agree(m, found) == Settle(m, found)

\* A worse state is taken when enough checks in a row have found it.
Confirm(m, found) ==
  LET count == IF m.pending = found THEN m.count + 1 ELSE 1
  IN IF count >= Confirmations THEN Settle(m, found)
     ELSE [m EXCEPT !.pending = found, !.count = count]

ApplyHysteresis(m, found) ==
  IF m.health \notin States THEN Settle(m, found)
  ELSE IF Rank(found) <= Rank(m.health) THEN Agree(m, found)
  ELSE Confirm(m, found)

\* The score: the state, ticks without spikes, and the rest.
Points == [HEALTHY |-> 40, DELAYED |-> 20, STALE |-> 5, DOWN |-> 0]
LowScore(state, age, bonus) ==
  Points[state] + (IF age = None THEN 0 ELSE 20) + bonus < SafeScore

UpTo(n, x) == IF x >= n THEN n ELSE x

\* Faulty variant: a good score leaves the count of low ones as it was.
LowKept(m, isLow) == IF isLow THEN UpTo(SafeChecks, m.low + 1) ELSE m.low
LowAfter(m, isLow) == IF isLow THEN UpTo(SafeChecks, m.low + 1) ELSE 0

\* _update_safe_mode_recommendation.
Recommend(m, isLow) ==
  LET downFor == IF m.health # "DOWN" THEN None
                 ELSE IF m.downFor = None THEN 0 ELSE m.downFor
      low == LowAfter(m, isLow)
  IN [m EXCEPT !.downFor = downFor, !.low = low,
               !.safe = downFor >= SafeDown \/ low >= SafeChecks]

\* check(): outside market hours the phase is the state.
Checked(m, age, bonus) ==
  IF market # "MARKET"
  THEN [Settle(m, market) EXCEPT !.safe = FALSE]
  ELSE LET judged == IF HardDown(age) THEN Settle(m, "DOWN")
                     ELSE ApplyHysteresis(m, Found(age))
       IN Recommend(judged, LowScore(judged.health, age, bonus))

\* The history keeps the last findings, enough of them to confirm a state.
Remembered(fs, age) ==
  IF market # "MARKET" THEN <<>>
  ELSE LET all == Append(fs, Found(age))
       IN IF Len(all) > Confirmations THEN Tail(all) ELSE all

\* Nothing tells main's monitor of options or ticks.
Bonus(which) == IF which = "engine" THEN Bonuses ELSE {0}

Check(which) ==
  /\ \E bonus \in Bonus(which) :
       monitor' = [monitor EXCEPT ![which] =
                     Checked(@, heard[which], bonus)]
  /\ findings' = IF which = "engine" THEN Remembered(findings, heard[which])
                 ELSE findings

\* The thread of the feed: on_tick comes before the tick is validated, the
\* state of the monitor is read and published after it.
OnTick ==
  /\ hot = "idle"
  /\ heard' = [heard EXCEPT !["engine"] = 0] /\ hot' = "ticked"
  /\ UNCHANGED <<market, day, monitor, findings, looped, health,
                 fallback>>

TickReads ==
  /\ hot = "ticked" /\ hot' = monitor["engine"].health
  /\ UNCHANGED <<market, day, heard, monitor, findings, looped, health,
                 fallback>>

TickPublishes ==
  /\ hot \notin {"idle", "ticked"}
  /\ health' = hot /\ hot' = "idle"
  /\ UNCHANGED <<market, day, heard, monitor, findings, looped,
                 fallback>>

\* _health_check_loop: what the check returned is published, changed or not.
LoopChecks ==
  /\ looped = "none" /\ Check("engine")
  /\ looped' = monitor'["engine"].health
  /\ UNCHANGED <<market, day, heard, hot, health, fallback>>

\* Faulty variant: DOWN is published when it is news, and not again.
OnlyNews(state) ==
  IF state = "DOWN" /\ monitor["engine"].downFor # 0 THEN health ELSE state
Publishes(state) == state

LoopPublishes ==
  /\ looped # "none"
  /\ health' = Publishes(looped) /\ looped' = "none"
  /\ UNCHANGED <<market, day, heard, monitor, findings, hot, fallback>>

\* _build_context checks main's monitor, and what it found is published at
\* the end of the cycle, as one step here: a monitor that hears of no tick
\* finds the same all day.  _publish_market_state_payload may be refused as
\* a whole, as it is until the levels of the opening are known.
MainPublishes ==
  /\ Check("main")
  /\ \/ /\ health' = monitor'["main"].health
        /\ fallback' = monitor'["main"].safe
     \/ UNCHANGED <<health, fallback>>
  /\ UNCHANGED <<market, day, heard, hot, looped>>

Older(age) == IF age = None THEN None ELSE UpTo(Oldest, age + 1)
Advance ==
  /\ heard' = [m \in Monitors |-> Older(heard[m])]
  /\ monitor' = [m \in Monitors |-> [monitor[m] EXCEPT !.downFor =
                   IF @ = None THEN None ELSE UpTo(SafeDown, @ + 1)]]
  /\ UNCHANGED <<market, day, findings, hot, looped, health, fallback>>

\* The bells of the exchange.
Bell ==
  /\ \/ market = "PRE_MARKET" /\ market' = "MARKET" /\ day' = day
     \/ market = "MARKET" /\ market' = "POST_MARKET" /\ day' = day
     \/ /\ market = "POST_MARKET" /\ day < Days
        /\ market' = "PRE_MARKET" /\ day' = day + 1
  /\ UNCHANGED <<heard, monitor, findings, hot, looped, health,
                 fallback>>

FeedThread == TickReads \/ TickPublishes
HealthLoop == LoopChecks \/ LoopPublishes
Next == OnTick \/ FeedThread \/ HealthLoop \/ MainPublishes \/ Advance \/ Bell

\* The threads keep running; ticks, time and main's candles need not come.
Spec == Init /\ [][Next]_vars /\ WF_vars(FeedThread) /\ WF_vars(HealthLoop)
-----------------------------------------------------------------------------
Held == [health : States \cup {"PRE_MARKET", "POST_MARKET"},
         pending : States \cup {"none"}, count : 0 .. Confirmations - 1,
         downFor : {None} \cup 0 .. SafeDown, low : 0 .. SafeChecks,
         safe : BOOLEAN]
TypeOK ==
  /\ market \in {"PRE_MARKET", "MARKET", "POST_MARKET"} /\ day \in 1 .. Days
  /\ heard \in [Monitors -> {None} \cup 0 .. Oldest]
  /\ monitor \in [Monitors -> Held]
  /\ findings \in Seq(States) /\ Len(findings) <= Confirmations
  /\ fallback \in BOOLEAN

\* A feed that stays silent in an open market is published as DOWN for good,
\* whatever a thread that read an older state writes late.
Silent == market = "MARKET" /\ heard["engine"] > DownGap
SilenceIsPublished == <>[]Silent => <>[](health = "DOWN")

\* A feed that stays prompt is published as HEALTHY again and again, even
\* when main's publications say otherwise, and ends the recommendation of
\* the safe mode.
Prompt == market = "MARKET" /\ heard["engine"] \in 0 .. DelayGap
RecoveryIsPublished ==
  <>[]Prompt => []<>(health = "HEALTHY") /\ <>[]~monitor["engine"].safe

\* using_fallback goes up when the feed is in trouble.  The code does not
\* keep it: main publishes the recommendation of its own monitor.
FallbackMeansTrouble ==
  [][fallback' /\ ~fallback => monitor["engine"].health # "HEALTHY"]_vars

\* The safe mode is recommended for what happened in this session.  The code
\* does not keep it: the time since the feed went DOWN survives the night.
SafeIsEarned ==
  monitor["engine"].safe => Len(findings) >= UpTo(Confirmations, SafeChecks)
=============================================================================
