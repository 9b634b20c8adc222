--------------------------- MODULE FeedConnection ---------------------------
(***************************************************************************)
(* WebSocketManager (src/core/websocket_manager.py): the thread that runs  *)
(* the socket and reconnects it, the watchdog, the tick consumer and the   *)
(* callers of connect, disconnect and update_subscriptions.                *)
(*                                                                         *)
(* The socket library calls the callbacks from inside its blocking         *)
(* connect(), so a reconnect runs inside the on_close of the connection it *)
(* replaces: the frames of that call stack are collapsed, because when any *)
(* of them returns all the others do and the thread ends.  A connection is *)
(* named by the epoch its callbacks carry, a tick by the connection that   *)
(* delivered it.  Tick prices, latencies, rate limits and the subscription *)
(* lists are left out; the market is open.                                 *)
(***************************************************************************)
EXTENDS Integers, Sequences

CONSTANTS
    MaxRetries,   \* websocket_max_retries
    QueueMax,     \* websocket_tick_queue_max
    MaxCalls,     \* bound: calls of connect and disconnect
    MaxTroubles,  \* bound: failures and losses of connections
    MaxSilences   \* bound: silences of the feed

ASSUME FeedAssumption ==
    /\ {MaxRetries, MaxCalls, MaxTroubles, MaxSilences} \subseteq Nat
    /\ QueueMax \in Nat \ {0}

VARIABLES
    flags,      \* _manual_shutdown, _stop_event, _feed_permanently_dead
    active,     \* _active_generation and _active_epoch
    counters,   \* _generation and _epoch
    sws,        \* the connection _sws holds, 0 for None
    view,       \* is_connected, _connection_established_time, last_tick_time,
                \* _feed_stale, _last_stale_trigger_gen_epoch
    retries,    \* reconnect_count
    lock,       \* _reconnect_lock is held
    ticks,      \* _tick_queue
    stops,      \* _consumer_stop and _watchdog_stop
    ws, consumer, watchdog,   \* the three threads
    caller,     \* the thread that calls connect and disconnect
    closing,    \* connections somebody asked to close
    shutdownComplete,
    calls, troubles, silences   \* the bounds' counts

manager == <<flags, active, counters, sws, view, retries, ticks, stops, shutdownComplete>>
threads == <<ws, consumer, watchdog, caller>>
bounds == <<troubles, silences>>
vars == <<manager, lock, threads, closing, calls, bounds>>

Off == -1
Ids == Nat \cup {Off}          \* generations, epochs and connections
NoPair == [gen |-> Off, ep |-> Off]

Pairs == [gen : Ids, ep : Ids]
Flags == [manual : BOOLEAN, stop : BOOLEAN, dead : BOOLEAN]
Views == [connected : BOOLEAN, established : {"none", "young", "old"},
          tick : {"none", "recent", "old"}, stale : BOOLEAN, trigger : Pairs]
WsPlaces ==
    {"gone", "start", "build", "publish", "dial", "connecting", "opening", "open",
     "data", "closed", "attempt", "loop", "backoff", "refresh", "rebuild", "swap",
     "recheck", "ending"}
WsThread == [pc : WsPlaces, gen : Ids, ep : Ids, cb : Ids]
ConsumerPlaces == {"gone", "loop", "get", "deliver", "exit"}
WatchdogThread ==
    [pc : {"gone", "loop", "sleep", "judge", "request", "heal", "exit"},
     gen : Ids, ep : Ids, connected : BOOLEAN, overdue : BOOLEAN, fresh : BOOLEAN]
CallerPlaces == {"idle", "close", "join_ws", "join_consumer", "join_watchdog", "final"}

TypeOK ==
    /\ flags \in Flags
    /\ active \in Pairs /\ counters \in Pairs
    /\ sws \in Ids
    /\ view \in Views
    /\ retries \in 0..(MaxRetries + 1)
    /\ lock \in BOOLEAN
    /\ ticks \in Seq(Ids) /\ Len(ticks) <= QueueMax
    /\ stops \in [consumer : BOOLEAN, watchdog : BOOLEAN]
    /\ ws \in WsThread
    /\ consumer \in ConsumerPlaces
    /\ watchdog \in WatchdogThread
    /\ caller \in [pc : CallerPlaces, ref : Ids]
    /\ closing \subseteq Ids
    /\ shutdownComplete \in BOOLEAN
    /\ calls \in 0..MaxCalls /\ troubles \in 0..MaxTroubles
    /\ silences \in 0..MaxSilences

Alive(pc) == pc # "gone"
Trouble ==
    troubles < MaxTroubles /\ troubles' = troubles + 1 /\ UNCHANGED silences

-----------------------------------------------------------------------------
(* Helpers shared by the threads.                                          *)

\* _is_callback_active.
IsActive(g, e) ==
    /\ ~flags.manual /\ ~flags.stop /\ ~flags.dead
    /\ g = active.gen /\ e = active.ep

Serving(s) == ws.cb = s /\ ws.pc \in {"connecting", "opening", "open", "data"}
Undialled(s) == ws.cb = s /\ ws.pc \in {"dial", "recheck"}

\* close_connection: a connection that has not been dialled yet may forget the request.
CloseConnection(s) ==
    \/ (Serving(s) \/ Undialled(s)) /\ closing' = closing \cup {s}
    \/ ~Serving(s) /\ UNCHANGED closing

\* _request_reconnect.
RequestReconnect ==
    IF flags.manual \/ flags.stop \/ flags.dead \/ sws = 0
      THEN UNCHANGED closing
      ELSE CloseConnection(sws)

Restored(v) == IF v.stale THEN [v EXCEPT !.stale = FALSE, !.trigger = NoPair] ELSE v

\* The way every frame of the socket thread returns.
End == ws' = [ws EXCEPT !.pc = "ending"] /\ lock' = FALSE

\* _mark_permanent_failure; the socket it closes has ended or was never dialled.
MarkPermanentFailure ==
    /\ flags' = [flags EXCEPT !.dead = TRUE, !.stop = TRUE]
    /\ active' = NoPair
    /\ view' = [view EXCEPT !.connected = FALSE]
    /\ stops' = [consumer |-> TRUE, watchdog |-> TRUE]
    /\ End
    /\ UNCHANGED <<counters, sws, ticks, shutdownComplete>>

-----------------------------------------------------------------------------
(* The callers.                                                            *)

Started(g, e) ==
    /\ ws' = [pc |-> "start", gen |-> g, ep |-> e, cb |-> 0]
    /\ consumer' = IF Alive(consumer) THEN consumer ELSE "loop"
    /\ watchdog' = IF Alive(watchdog.pc) THEN watchdog ELSE [watchdog EXCEPT !.pc = "loop"]

\* The stop events as connect leaves them: the watchdog's is cleared only
\* where a new watchdog is started.
StopsAfterStart ==
    [consumer |-> FALSE, watchdog |-> stops.watchdog /\ Alive(watchdog.pc)]

ResetForRun ==
    /\ flags' = [manual |-> FALSE, stop |-> FALSE, dead |-> FALSE]
    /\ view' = [view EXCEPT !.established = "none", !.tick = "none", !.stale = FALSE]
    /\ retries' = 0
    /\ ticks' = <<>>

Connect ==
    /\ caller.pc = "idle" /\ calls < MaxCalls
    /\ calls' = calls + 1
    /\ UNCHANGED <<sws, lock, caller, closing, bounds>>
    /\ \/ /\ Alive(ws.pc)                       \* "already running", returns True
          /\ flags' = [flags EXCEPT !.dead = FALSE]
          /\ UNCHANGED <<active, counters, view, retries, ticks, stops, shutdownComplete,
                         ws, consumer, watchdog>>
       \/ /\ ~Alive(ws.pc)                      \* credentials missing, returns False
          /\ ResetForRun
          /\ stops' = [stops EXCEPT !.consumer = FALSE]
          /\ shutdownComplete' = TRUE
          /\ UNCHANGED <<active, counters, ws, consumer, watchdog>>
       \/ /\ ~Alive(ws.pc)
          /\ ResetForRun
          /\ counters' = [gen |-> counters.gen + 1, ep |-> counters.ep + 1]
          /\ active' = counters'
          /\ Started(counters'.gen, counters'.ep)
          /\ stops' = StopsAfterStart
          /\ shutdownComplete' = FALSE

\* Faulty variant: the consumer is not told.
StopsWatchdogOnly == [stops EXCEPT !.watchdog = TRUE]
StopsAtDisconnect == [consumer |-> TRUE, watchdog |-> TRUE]

\* disconnect, its first locked part.
Disconnect ==
    /\ caller.pc = "idle" /\ calls < MaxCalls
    /\ calls' = calls + 1
    /\ flags' = [flags EXCEPT !.manual = TRUE, !.stop = TRUE]
    /\ stops' = StopsAtDisconnect
    /\ view' = [view EXCEPT !.connected = FALSE, !.established = "none"]
    /\ retries' = 0
    /\ active' = NoPair
    /\ caller' = [pc |-> "close", ref |-> sws]
    /\ UNCHANGED <<counters, sws, ticks, shutdownComplete, lock, ws, consumer, watchdog,
                   closing, bounds>>

CallerTo(pc) == caller' = [caller EXCEPT !.pc = pc]

DisconnectClose ==
    /\ caller.pc = "close"
    /\ IF caller.ref = 0 THEN UNCHANGED closing ELSE CloseConnection(caller.ref)
    /\ CallerTo("join_ws")
    /\ UNCHANGED <<manager, lock, ws, consumer, watchdog, calls, bounds>>

\* What may keep a thread longer than disconnect waits for it: a backoff, the
\* network, an idle connection nobody closed, a callback of the application.
Outlasts ==
    [join_ws |-> ws.pc \in {"backoff", "refresh", "connecting"}
                 \/ (ws.pc = "open" /\ ws.cb \notin closing),
     join_consumer |-> consumer = "deliver",
     join_watchdog |-> watchdog.pc \in {"request", "heal"}]
Ended ==
    [join_ws |-> ~Alive(ws.pc), join_consumer |-> ~Alive(consumer),
     join_watchdog |-> ~Alive(watchdog.pc)]
AfterJoin ==
    [join_ws |-> "join_consumer", join_consumer |-> "join_watchdog", join_watchdog |-> "final"]

DisconnectJoin ==
    /\ caller.pc \in DOMAIN AfterJoin
    /\ Ended[caller.pc] \/ Outlasts[caller.pc]
    /\ CallerTo(AfterJoin[caller.pc])
    /\ UNCHANGED <<manager, lock, ws, consumer, watchdog, closing, calls, bounds>>

DisconnectFinal ==
    /\ caller.pc = "final"
    /\ sws' = 0
    /\ shutdownComplete' = \A t \in DOMAIN Ended : Ended[t]
    /\ view' = [view EXCEPT !.connected = FALSE]
    /\ ticks' = <<>>
    /\ CallerTo("idle")
    /\ UNCHANGED <<flags, active, counters, retries, stops, lock, ws, consumer, watchdog,
                   closing, calls, bounds>>

\* update_subscriptions whose subscribe fails; one that succeeds changes nothing here.
UpdateSubscriptionsFails ==
    /\ caller.pc = "idle"
    /\ IsActive(active.gen, active.ep)
    /\ Trouble
    /\ RequestReconnect
    /\ UNCHANGED <<manager, lock, threads, calls>>

-----------------------------------------------------------------------------
(* The socket thread: _run_websocket.                                      *)

WsTo(pc) == ws' = [ws EXCEPT !.pc = pc]
Others == <<consumer, watchdog, caller, calls>>

RunStart ==
    /\ ws.pc = "start"
    /\ IF IsActive(ws.gen, ws.ep) THEN WsTo("build") /\ UNCHANGED lock ELSE End
    /\ UNCHANGED <<manager, Others, closing, bounds>>

RunBuild ==
    /\ ws.pc = "build"
    /\ \/ WsTo("publish") /\ UNCHANGED <<manager, lock, bounds>>
       \/ Trouble /\ MarkPermanentFailure /\ UNCHANGED retries
    /\ UNCHANGED <<Others, closing>>

RunPublish ==
    /\ ws.pc = "publish"
    /\ sws' = ws.ep
    /\ ws' = [ws EXCEPT !.pc = "dial", !.cb = ws.ep]
    /\ UNCHANGED <<flags, active, counters, view, retries, ticks, stops, shutdownComplete,
                   lock, Others, closing, bounds>>

Dial ==
    /\ ws.pc = "dial"
    /\ WsTo("connecting")
    /\ UNCHANGED <<manager, lock, Others, closing, bounds>>

\* connect() raises: caught by _attempt_reconnect's loop or by _run_websocket.
DialRaises ==
    /\ ws.pc = "connecting"
    /\ Trouble
    /\ IF lock THEN WsTo("loop") /\ UNCHANGED lock
       ELSE IF IsActive(ws.gen, ws.ep) THEN WsTo("attempt") /\ UNCHANGED lock
       ELSE End
    /\ UNCHANGED <<manager, Others, closing>>

-----------------------------------------------------------------------------
(* The callbacks of the connection that is served.                         *)

Opened ==
    /\ ws.pc = "connecting" /\ ws.cb \notin closing
    /\ WsTo(IF IsActive(ws.gen, ws.cb) THEN "opening" ELSE "open")
    /\ UNCHANGED <<manager, lock, Others, closing, bounds>>

OnOpen ==
    /\ ws.pc = "opening"
    /\ view' = Restored([view EXCEPT !.connected = TRUE, !.established = "young"])
    /\ retries' = 0
    /\ WsTo("open")
    /\ UNCHANGED <<flags, active, counters, sws, ticks, stops, shutdownComplete, lock,
                   Others, closing, bounds>>

\* on_data up to the parse, which may fail often enough to trip the breaker.
OnData ==
    /\ ws.pc = "open" /\ ws.cb \notin closing
    /\ IsActive(ws.gen, ws.cb)
    /\ view' = [view EXCEPT !.tick = "recent"]
    /\ \/ WsTo("data") /\ UNCHANGED <<closing, bounds>>
       \/ Trouble /\ RequestReconnect /\ UNCHANGED ws
    /\ UNCHANGED <<flags, active, counters, sws, retries, ticks, stops, shutdownComplete,
                   lock, Others>>

\* Faulty variant: the oldest tick is not taken out.
EnqueuedOver(q, t) == Append(q, t)
\* _enqueue_tick: a full queue loses its oldest tick.
Enqueued(q, t) == Append(IF Len(q) < QueueMax THEN q ELSE Tail(q), t)

OnDataEnqueue ==
    /\ ws.pc = "data"
    /\ ticks' = Enqueued(ticks, ws.cb)
    /\ view' = Restored(view)
    /\ WsTo("open")
    /\ UNCHANGED <<flags, active, counters, sws, retries, stops, shutdownComplete, lock,
                   Others, closing, bounds>>

\* on_error, which the connection does not survive.
OnError ==
    /\ ws.pc \in {"connecting", "open"}
    /\ Trouble
    /\ view' = [view EXCEPT !.connected = view.connected /\ ~IsActive(ws.gen, ws.cb)]
    /\ WsTo("closed")
    /\ UNCHANGED <<flags, active, counters, sws, retries, ticks, stops, shutdownComplete,
                   lock, Others, closing>>

\* The connection ends, by the peer or because somebody closed it.
Lost ==
    /\ ws.pc \in {"connecting", "open"}
    /\ IF ws.cb \in closing THEN UNCHANGED bounds ELSE Trouble
    /\ WsTo("closed")
    /\ UNCHANGED <<manager, lock, Others, closing>>

\* Faulty variant: a close that is ignored leaves the flag.
ClosedIfActive ==
    [view EXCEPT !.connected = view.connected /\ ~IsActive(ws.gen, ws.cb)]
ClosedView == [view EXCEPT !.connected = FALSE]

OnClose ==
    /\ ws.pc = "closed"
    /\ view' = ClosedView
    /\ IF IsActive(ws.gen, ws.cb) THEN WsTo("attempt") /\ UNCHANGED lock ELSE End
    /\ UNCHANGED <<flags, active, counters, sws, retries, ticks, stops, shutdownComplete,
                   Others, closing, bounds>>

-----------------------------------------------------------------------------
(* _attempt_reconnect.                                                     *)

CallbackEpoch == IF ws.cb = 0 THEN ws.ep ELSE ws.cb

Attempt ==
    /\ ws.pc = "attempt"
    /\ IF IsActive(ws.gen, CallbackEpoch) /\ ~lock
         THEN /\ lock' = TRUE
              /\ ws' = [ws EXCEPT !.pc = "loop", !.ep = CallbackEpoch]
         ELSE End
    /\ UNCHANGED <<manager, Others, closing, bounds>>

AttemptLoop ==
    /\ ws.pc = "loop"
    /\ UNCHANGED <<Others, closing, bounds>>
    /\ IF ~IsActive(ws.gen, ws.ep) THEN End /\ UNCHANGED manager
       ELSE /\ retries' = retries + 1
            /\ IF retries' > MaxRetries
                 THEN MarkPermanentFailure
                 ELSE /\ WsTo("backoff")
                      /\ UNCHANGED <<flags, active, counters, sws, view, ticks, stops,
                                     shutdownComplete, lock>>

BackoffEnds ==
    /\ ws.pc = "backoff"
    /\ IF IsActive(ws.gen, ws.ep) THEN WsTo("refresh") /\ UNCHANGED lock ELSE End
    /\ UNCHANGED <<manager, Others, closing, bounds>>

RefreshTokens ==
    /\ ws.pc = "refresh"
    /\ \/ WsTo("rebuild") /\ UNCHANGED <<manager, lock, bounds>>
       \/ Trouble /\ MarkPermanentFailure /\ UNCHANGED retries
    /\ UNCHANGED <<Others, closing>>

Rebuild ==
    /\ ws.pc = "rebuild"
    /\ \/ WsTo("swap") /\ UNCHANGED bounds
       \/ Trouble /\ WsTo("loop")
    /\ UNCHANGED <<manager, lock, Others, closing>>

\* Faulty variants: the queue is not drained; the callbacks carry the old epoch.
TicksKept == ticks
OldEpoch == counters.ep
SwappedTicks == <<>>
BoundEpoch == counters.ep + 1

Swap ==
    /\ ws.pc = "swap"
    /\ counters' = [counters EXCEPT !.ep = @ + 1]
    /\ active' = [active EXCEPT !.ep = counters.ep + 1]
    /\ sws' = counters.ep + 1
    /\ ticks' = SwappedTicks
    /\ ws' = [ws EXCEPT !.pc = "recheck", !.cb = BoundEpoch]
    /\ UNCHANGED <<flags, view, retries, stops, shutdownComplete, lock, Others, closing,
                   bounds>>

Recheck ==
    /\ ws.pc = "recheck"
    /\ WsTo(IF sws # 0 /\ IsActive(ws.gen, ws.cb) THEN "dial" ELSE "loop")
    /\ UNCHANGED <<manager, lock, Others, closing, bounds>>

ThreadEnds ==
    /\ ws.pc = "ending"
    /\ WsTo("gone")
    /\ UNCHANGED <<manager, lock, Others, closing, bounds>>

-----------------------------------------------------------------------------
(* _consumer_loop, one tick at a time.                                     *)

ConsumerAt(from, to) ==
    /\ consumer = from /\ consumer' = to
    /\ UNCHANGED <<flags, active, counters, sws, view, retries, stops, shutdownComplete,
                   lock, ws, watchdog, caller, closing, calls, bounds>>

ConsumerTests ==
    ConsumerAt("loop", IF stops.consumer THEN "exit" ELSE "get") /\ UNCHANGED ticks
ConsumerTakes ==
    ticks # <<>> /\ ConsumerAt("get", "deliver") /\ ticks' = Tail(ticks)
ConsumerTimesOut ==
    ticks = <<>> /\ ConsumerAt("get", "loop") /\ UNCHANGED ticks
ConsumerDelivers == ConsumerAt("deliver", "loop") /\ UNCHANGED ticks
ConsumerEnds == ConsumerAt("exit", "gone") /\ UNCHANGED ticks

-----------------------------------------------------------------------------
(* _watchdog_loop.                                                         *)

WatchdogTo(pc) == watchdog' = [watchdog EXCEPT !.pc = pc]
Beside == <<flags, active, counters, sws, retries, ticks, stops, shutdownComplete, lock,
            ws, consumer, caller, calls>>

WatchdogTests ==
    /\ watchdog.pc = "loop"
    /\ WatchdogTo(IF stops.watchdog THEN "exit" ELSE "sleep")
    /\ UNCHANGED <<Beside, view, closing, bounds>>

\* What it reads under the lock: the connection, and whether its ticks are due.
WatchdogReads ==
    /\ watchdog.pc = "sleep"
    /\ IF flags.manual \/ flags.stop \/ flags.dead
         THEN WatchdogTo("exit")
         ELSE LET settled == view.connected /\ view.established = "old" IN
              watchdog' = [pc |-> "judge", gen |-> active.gen, ep |-> active.ep,
                           connected |-> view.connected,
                           overdue |-> settled /\ view.tick = "old",
                           fresh |-> settled /\ view.tick = "recent"]
    /\ UNCHANGED <<Beside, view, closing, bounds>>

WatchdogJudges ==
    LET pair == [gen |-> watchdog.gen, ep |-> watchdog.ep] IN
    /\ watchdog.pc = "judge"
    /\ IF watchdog.overdue /\ pair # view.trigger
         THEN /\ view' = [view EXCEPT !.stale = TRUE, !.trigger = pair]
              /\ WatchdogTo("request")
         ELSE /\ view' = IF watchdog.fresh THEN Restored(view) ELSE view
              /\ WatchdogTo("heal")
    /\ UNCHANGED <<Beside, closing, bounds>>

\* Faulty variant: the feed is marked stale and nothing is closed.
StaleNotRequested == UNCHANGED closing
StaleRequest == RequestReconnect

WatchdogRequests ==
    /\ watchdog.pc = "request"
    /\ StaleRequest
    /\ WatchdogTo("heal")
    /\ UNCHANGED <<Beside, view, bounds>>

\* _auto_heal_subscriptions: a resubscribe that fails asks for a reconnect.
WatchdogHeals ==
    /\ watchdog.pc = "heal"
    /\ \/ UNCHANGED <<closing, bounds>>
       \/ /\ watchdog.connected /\ IsActive(active.gen, active.ep)
          /\ Trouble
          /\ RequestReconnect
    /\ WatchdogTo("loop")
    /\ UNCHANGED <<Beside, view>>

WatchdogEnds ==
    /\ watchdog.pc = "exit"
    /\ watchdog' = [pc |-> "gone", gen |-> 0, ep |-> 0, connected |-> FALSE,
                    overdue |-> FALSE, fresh |-> FALSE]
    /\ UNCHANGED <<Beside, view, closing, bounds>>

-----------------------------------------------------------------------------
(* Time.                                                                   *)

\* The connection is ten seconds old.
Settle ==
    /\ view.established = "young"
    /\ view' = [view EXCEPT !.established = "old"]
    /\ UNCHANGED <<Beside, watchdog, closing, bounds>>

\* No tick came for the heartbeat timeout.
Silence ==
    /\ view.tick = "recent" /\ silences < MaxSilences
    /\ silences' = silences + 1
    /\ view' = [view EXCEPT !.tick = "old"]
    /\ UNCHANGED <<Beside, watchdog, closing, troubles>>

-----------------------------------------------------------------------------
Init ==
    /\ flags = [manual |-> FALSE, stop |-> FALSE, dead |-> FALSE]
    /\ active = [gen |-> 0, ep |-> 0] /\ counters = [gen |-> 0, ep |-> 0]
    /\ sws = 0
    /\ view = [connected |-> FALSE, established |-> "none", tick |-> "none",
               stale |-> FALSE, trigger |-> NoPair]
    /\ retries = 0
    /\ lock = FALSE
    /\ ticks = <<>>
    /\ stops = [consumer |-> FALSE, watchdog |-> FALSE]
    /\ ws = [pc |-> "gone", gen |-> 0, ep |-> 0, cb |-> 0]
    /\ consumer = "gone"
    /\ watchdog = [pc |-> "gone", gen |-> 0, ep |-> 0, connected |-> FALSE,
                   overdue |-> FALSE, fresh |-> FALSE]
    /\ caller = [pc |-> "idle", ref |-> 0]
    /\ closing = {}
    /\ shutdownComplete = TRUE
    /\ calls = 0 /\ troubles = 0 /\ silences = 0

CallerRuns == DisconnectClose \/ DisconnectJoin \/ DisconnectFinal
WsRuns ==
    \/ RunStart \/ RunBuild \/ RunPublish \/ Dial \/ Opened \/ OnOpen \/ OnDataEnqueue
    \/ OnClose \/ Attempt \/ AttemptLoop \/ BackoffEnds \/ RefreshTokens \/ Rebuild
    \/ Swap \/ Recheck \/ ThreadEnds
    \/ Lost /\ ws.cb \in closing
ConsumerRuns ==
    ConsumerTests \/ ConsumerTakes \/ ConsumerTimesOut \/ ConsumerDelivers \/ ConsumerEnds
WatchdogRuns ==
    \/ WatchdogTests \/ WatchdogReads \/ WatchdogJudges \/ WatchdogRequests
    \/ WatchdogHeals \/ WatchdogEnds
Outside ==
    Connect \/ Disconnect \/ UpdateSubscriptionsFails \/ DialRaises \/ OnData \/ OnError
    \/ Lost \/ Settle \/ Silence

Next == CallerRuns \/ WsRuns \/ ConsumerRuns \/ WatchdogRuns \/ Outside

Spec == Init /\ [][Next]_vars
\* Every thread runs, a connection that is being made is made or fails, one
\* asked to close closes, and time passes.  No tick ever has to come.
FairSpec ==
    /\ Spec
    /\ WF_vars(CallerRuns) /\ WF_vars(WsRuns) /\ WF_vars(ConsumerRuns)
    /\ WF_vars(WatchdogRuns) /\ WF_vars(Settle)

-----------------------------------------------------------------------------
(* Safety.                                                                 *)

(* is_connected is never left set once the thread that served the          *)
(* connection has moved on from it: a reconnect, a permanent failure and   *)
(* the races of on_open and disconnect all leave it cleared.               *)
ConnectedIsServed ==
    view.connected => ws.pc \in {"open", "data", "closed"}

(* No tick of a connection that was replaced is queued beside the ticks of *)
(* its successor: what waits in _tick_queue came from the latest epoch.    *)
QueueIsFresh == \A i \in DOMAIN ticks : ticks[i] = counters.ep

(* After a disconnect has returned and until connect is called again, no    *)
(* tick waits for the application and the consumer asks for none: not even *)
(* one that on_data had let pass before the shutdown, nor a consumer that  *)
(* the application's callback held beyond the wait.                        *)
NothingAfterShutdown ==
    flags.manual /\ caller.pc = "idle" => ticks = <<>> /\ consumer # "get"

-----------------------------------------------------------------------------
(* Liveness.                                                               *)

(* Wherever its only failure hits it, a feed that has been started and is  *)
(* not connected gets connected, declared permanently dead, or shut down.  *)
(* A silence makes the watchdog close a connection, perhaps the successor  *)
(* of the silent one: it counts as more than one failure.  A call of stop  *)
(* or of a second start sets both promises aside.                          *)
MoreThanOneFailure == troubles > 1 \/ silences > 0 \/ calls > 1
Reconnects ==
    (Alive(ws.pc) /\ ~view.connected) ~>
        (view.connected \/ flags.dead \/ flags.manual \/ MoreThanOneFailure)

(* A connection that fell silent after its first tick does not stay up     *)
(* silent: the watchdog closes it.                                         *)
SilenceIsEnded ==
    (view.connected /\ view.tick = "old") ~>
        (~view.connected \/ view.tick # "old" \/ calls > 1)

-----------------------------------------------------------------------------
(* What the code does not keep.                                            *)

(* The module's "Exponential backoff reconnects" and "Permanent failure    *)
(* semantics after max retries": the socket thread of an active feed is    *)
(* never simply gone.                                                      *)
NeverSilentlyDead ==
    Alive(ws.pc) \/ ~IsActive(active.gen, active.ep) \/ counters.gen = 0

(* "Manual shutdown hard-cuts pipeline & disables reconnects": when        *)
(* disconnect has returned, no connection is open.                         *)
HardCut ==
    flags.manual /\ caller.pc = "idle" => ~(ws.pc = "open" /\ ws.cb \notin closing)

(* connect's "Start consumer & watchdog": a connection that is open and    *)
(* active has a watchdog.                                                  *)
Watched ==
    ws.pc = "open" /\ IsActive(ws.gen, ws.cb) =>
        Alive(watchdog.pc)

(* "Watchdog stale detection (zombie connection recovery)": a connection   *)
(* that never delivers a tick does not stay up for ever.                   *)
ZombieIsEnded ==
    (view.connected /\ view.tick = "none") ~> (~view.connected \/ view.tick # "none")
=============================================================================
