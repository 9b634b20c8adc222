------------------------ MODULE FeedProofs ------------------------
(***************************************************************************)
(* What the feed's connection keeps for every number of calls, failures    *)
(* and retries: the queue holds ticks of the latest epoch only, and a      *)
(* disconnect that has returned leaves the application in peace.           *)
(*                                                                         *)
(* Neither is inductive.  A tick on its way into the queue must belong to  *)
(* the latest epoch (InFlightIsLatest), which rests on the active pair     *)
(* naming no other (ActiveIsLatest); and what a disconnect has waited for  *)
(* must stay as it was found while it waits for the rest (NoneInFlight,    *)
(* ConsumerIsAway), which rests on the flags it set at its beginning       *)
(* (CallerShutsDown, ConsumerIsTold).                                      *)
(*                                                                         *)
(* The second part is about the monitor that judges the feed.              *)
(***************************************************************************)
EXTENDS FeedConnection, FeedFindings, TLAPS

\* The active pair, unless it was taken back, names the latest epoch.
ActiveIsLatest == active.ep \in {Off, counters.ep}

\* A tick that on_data has let pass is of the latest epoch.
InFlightIsLatest == ws.pc = "data" => ws.cb = counters.ep

\* disconnect raises the flag first, and nobody lowers it meanwhile.
CallerShutsDown == caller.pc # "idle" => flags.manual

\* While the flag is up, the consumer's stop event is set.
ConsumerIsTold == flags.manual => stops.consumer

\* Where disconnect has waited for the socket thread, no tick is in flight.
WaitedForWs == {"join_consumer", "join_watchdog", "final", "idle"}
NoneInFlight == flags.manual /\ caller.pc \in WaitedForWs => ws.pc # "data"

\* Where it has waited for the consumer, that does not take another tick.
WaitedForConsumer == {"join_watchdog", "final", "idle"}
ConsumerIsAway ==
    flags.manual /\ caller.pc \in WaitedForConsumer => consumer # "get"

\* When it has returned, nothing is queued.
NothingQueued == flags.manual /\ caller.pc = "idle" => ticks = <<>>

\* The socket thread of a feed that gave up does not try again.
RetriesLeft == ws.pc \notin {"ending", "gone"} => retries <= MaxRetries

\* Callbacks carry an epoch that connect or a reconnect has drawn.
Drawn == ws.ep \in Nat /\ ws.cb \in Nat /\ counters.ep \in Nat /\ counters.gen \in Nat

QueueInv == ActiveIsLatest /\ InFlightIsLatest /\ QueueIsFresh
ShutdownInv ==
    /\ CallerShutsDown /\ ConsumerIsTold
    /\ NoneInFlight /\ ConsumerIsAway /\ NothingQueued

IInv ==
    /\ TypeOK /\ Drawn /\ RetriesLeft
    /\ QueueInv /\ ShutdownInv
    /\ ConnectedIsServed

-----------------------------------------------------------------------------
(* Types.                                                                  *)

LEMMA WsMoved ==
    ASSUME ws \in WsThread, NEW pc \in WsPlaces
    PROVE  [ws EXCEPT !.pc = pc] \in WsThread
  BY DEF WsThread

LEMMA ConnectedTyped ==
    ASSUME view \in Views, NEW b \in BOOLEAN
    PROVE  [view EXCEPT !.connected = b] \in Views
  BY DEF Views

LEMMA NoPairTyped == NoPair \in Pairs
  BY DEF NoPair, Pairs, Off, Ids

LEMMA RestoredTyped ==
    ASSUME NEW v \in Views
    PROVE  Restored(v) \in Views /\ Restored(v).connected = v.connected
  <1>1. /\ [v EXCEPT !.stale = FALSE, !.trigger = NoPair] \in Views
        /\ [v EXCEPT !.stale = FALSE, !.trigger = NoPair].connected = v.connected
    BY NoPairTyped DEF Views
  <1> QED
    BY <1>1 DEF Restored

\* A queue that is full loses its oldest tick and no other: it stays in bounds.
LEMMA EnqueuedTicks ==
    ASSUME NEW q \in Seq(Ids), Len(q) <= QueueMax, NEW t \in Ids
    PROVE  /\ Enqueued(q, t) \in Seq(Ids)
           /\ Len(Enqueued(q, t)) <= QueueMax
           /\ Enqueued(q, t) # <<>>
           /\ \A e : (e = t /\ \A i \in DOMAIN q : q[i] = e)
                       => \A i \in DOMAIN Enqueued(q, t) : Enqueued(q, t)[i] = e
  <1>1. Len(q) \in Nat /\ QueueMax \in Nat \ {0}
    BY FeedAssumption
  <1>2. CASE Len(q) < QueueMax
    BY <1>1, <1>2 DEF Enqueued
  <1>3. CASE ~(Len(q) < QueueMax)
    <2>1. /\ q # <<>> /\ Tail(q) \in Seq(Ids) /\ Len(Tail(q)) = Len(q) - 1
          /\ \A i \in 1 .. Len(q) - 1 : Tail(q)[i] = q[i + 1]
      BY <1>1, <1>3
    <2>2. Enqueued(q, t) = Append(Tail(q), t)
      BY <1>3 DEF Enqueued
    <2> QED
      BY <1>1, <2>1, <2>2
  <1> QED
    BY <1>2, <1>3

LEMMA TailFresh ==
    ASSUME NEW q \in Seq(Ids), q # <<>>
    PROVE  /\ Tail(q) \in Seq(Ids) /\ Len(Tail(q)) = Len(q) - 1
           /\ \A e : (\A i \in DOMAIN q : q[i] = e)
                       => \A i \in DOMAIN Tail(q) : Tail(q)[i] = e
  OBVIOUS

-----------------------------------------------------------------------------
(* The socket thread.                                                      *)

\* What a shutdown rests on is kept by a step of the socket thread that lets
\* no tick pass after it.
LEMMA ShutdownKept ==
    ASSUME IInv, UNCHANGED <<caller, consumer>>,
           flags'.manual = flags.manual,
           stops.consumer => stops'.consumer,
           flags.manual => ws'.pc # "data" \/ ws.pc = "data",
           flags.manual /\ caller.pc = "idle" => ticks' = ticks
    PROVE  ShutdownInv'
  BY DEF IInv, ShutdownInv, CallerShutsDown, ConsumerIsTold, NoneInFlight,
         ConsumerIsAway, NothingQueued

\* The thread moves on; what the manager holds stays as it is.
LEMMA SocketMoves ==
    ASSUME IInv, UNCHANGED <<manager, Others, closing>>,
           ws' \in WsThread, ws'.ep \in Nat, ws'.cb \in Nat, lock' \in BOOLEAN,
           troubles' \in 0 .. MaxTroubles, silences' = silences,
           ws.pc \notin {"ending", "gone"} \/ ws'.pc = "gone",
           ws'.pc # "data",
           view.connected => ws'.pc \in {"open", "closed"}
    PROVE  IInv'
  <1>1. TypeOK'
    BY DEF IInv, TypeOK, manager, Others
  <1>2. ShutdownInv'
    BY ShutdownKept DEF manager, Others
  <1> QED
    BY <1>1, <1>2 DEF IInv, Drawn, RetriesLeft, QueueInv, ActiveIsLatest,
       InFlightIsLatest, QueueIsFresh, ConnectedIsServed, manager, Others

LEMMA TroubleCounted ==
    ASSUME TypeOK, Trouble PROVE troubles' \in 0 .. MaxTroubles /\ silences' = silences
  BY FeedAssumption DEF TypeOK, Trouble

\* The actions that do no more than move the thread.
LEMMA PlainMoves ==
    ASSUME IInv,
           \/ RunStart \/ Dial \/ DialRaises \/ Opened \/ Lost \/ Attempt
           \/ BackoffEnds \/ Rebuild \/ Recheck \/ ThreadEnds
    PROVE  IInv'
  <1>1. /\ TypeOK /\ Drawn /\ ws \in WsThread /\ lock \in BOOLEAN
        /\ troubles \in 0 .. MaxTroubles
        /\ view.connected => ws.pc \in {"open", "data", "closed"}
    BY DEF IInv, TypeOK, ConnectedIsServed
  <1>2. \A pc \in WsPlaces :
           /\ [ws EXCEPT !.pc = pc] \in WsThread
           /\ [ws EXCEPT !.pc = pc].pc = pc
           /\ [ws EXCEPT !.pc = pc].ep \in Nat
           /\ [ws EXCEPT !.pc = pc].cb \in Nat
    BY <1>1 DEF WsThread, Drawn
  <1>3. CASE RunStart
    BY <1>1, <1>2, <1>3, SocketMoves
       DEF RunStart, End, WsTo, bounds, WsPlaces
  <1>4. CASE Dial
    BY <1>1, <1>2, <1>4, SocketMoves DEF Dial, WsTo, bounds, WsPlaces
  <1>5. CASE DialRaises
    BY <1>1, <1>2, <1>5, SocketMoves, TroubleCounted
       DEF DialRaises, End, WsTo, WsPlaces
  <1>6. CASE Opened
    BY <1>1, <1>2, <1>6, SocketMoves DEF Opened, WsTo, bounds, WsPlaces
  <1>7. CASE Lost
    BY <1>1, <1>2, <1>7, SocketMoves, TroubleCounted
       DEF Lost, WsTo, bounds, WsPlaces
  <1>8. CASE Attempt
    <2>1. ASSUME ws' = [ws EXCEPT !.pc = "loop", !.ep = CallbackEpoch]
          PROVE  ws' \in WsThread /\ ws'.pc = "loop" /\ ws'.ep \in Nat /\ ws'.cb \in Nat
      BY <1>1, <2>1 DEF WsThread, Drawn, CallbackEpoch, WsPlaces, Ids
    <2> QED
      BY <1>1, <1>2, <1>8, <2>1, SocketMoves DEF Attempt, End, bounds, WsPlaces
  <1>9. CASE BackoffEnds
    BY <1>1, <1>2, <1>9, SocketMoves DEF BackoffEnds, End, WsTo, bounds, WsPlaces
  <1>10. CASE Rebuild
    BY <1>1, <1>2, <1>10, SocketMoves, TroubleCounted
       DEF Rebuild, WsTo, bounds, WsPlaces
  <1>11. CASE Recheck
    BY <1>1, <1>2, <1>11, SocketMoves DEF Recheck, WsTo, bounds, WsPlaces
  <1>12. CASE ThreadEnds
    BY <1>1, <1>2, <1>12, SocketMoves DEF ThreadEnds, WsTo, bounds, WsPlaces
  <1> QED
    BY <1>3, <1>4, <1>5, <1>6, <1>7, <1>8, <1>9, <1>10, <1>11, <1>12

\* A permanent failure raises the stop flags and ends the thread.
LEMMA FailureKeeps ==
    ASSUME IInv, MarkPermanentFailure, UNCHANGED <<Others, closing>>,
           retries' \in 0 .. MaxRetries + 1,
           troubles' \in 0 .. MaxTroubles, silences' = silences
    PROVE  IInv'
  <1>1. TypeOK /\ Drawn /\ ws \in WsThread
    BY DEF IInv, TypeOK
  <1>2. /\ ws' \in WsThread /\ ws'.pc = "ending" /\ lock' = FALSE
        /\ ws'.ep = ws.ep /\ ws'.cb = ws.cb
    BY <1>1 DEF MarkPermanentFailure, End, WsThread, WsPlaces
  <1>3. flags' \in Flags /\ flags'.manual = flags.manual
    BY <1>1 DEF TypeOK, MarkPermanentFailure, Flags
  <1>4. /\ view' \in Views /\ view'.connected = FALSE
        /\ active' \in Pairs /\ active'.ep = Off
        /\ stops' \in [consumer : BOOLEAN, watchdog : BOOLEAN] /\ stops'.consumer
    BY <1>1, NoPairTyped DEF TypeOK, MarkPermanentFailure, Views, NoPair
  <1>5. UNCHANGED <<counters, sws, ticks, shutdownComplete>>
    BY DEF MarkPermanentFailure
  <1>6. TypeOK'
    BY <1>1, <1>2, <1>3, <1>4, <1>5 DEF TypeOK, Others
  <1>7. ShutdownInv'
    BY <1>2, <1>3, <1>4, <1>5, ShutdownKept DEF Others
  <1> QED
    BY <1>1, <1>2, <1>4, <1>5, <1>6, <1>7
       DEF IInv, Drawn, RetriesLeft, QueueInv, ActiveIsLatest,
           InFlightIsLatest, QueueIsFresh, ConnectedIsServed

LEMMA BuildsKeep == ASSUME IInv, RunBuild \/ RefreshTokens PROVE IInv'
  <1>1. /\ TypeOK /\ Drawn /\ ws \in WsThread
        /\ lock \in BOOLEAN /\ retries \in 0 .. MaxRetries + 1
        /\ troubles \in 0 .. MaxTroubles
        /\ view.connected => ws.pc \in {"open", "data", "closed"}
    BY DEF IInv, TypeOK, ConnectedIsServed
  <1>2. \A pc \in WsPlaces :
           /\ [ws EXCEPT !.pc = pc] \in WsThread
           /\ [ws EXCEPT !.pc = pc].pc = pc
           /\ [ws EXCEPT !.pc = pc].ep \in Nat
           /\ [ws EXCEPT !.pc = pc].cb \in Nat
    BY <1>1 DEF WsThread, Drawn
  <1>3. CASE Trouble /\ MarkPermanentFailure /\ UNCHANGED <<retries, Others, closing>>
    BY <1>1, <1>3, FailureKeeps, TroubleCounted
  <1>4. CASE RunBuild /\ WsTo("publish") /\ UNCHANGED <<manager, lock, bounds>>
    BY <1>1, <1>2, <1>4, SocketMoves DEF RunBuild, WsTo, bounds, WsPlaces
  <1>5. CASE RefreshTokens /\ WsTo("rebuild") /\ UNCHANGED <<manager, lock, bounds>>
    BY <1>1, <1>2, <1>5, SocketMoves DEF RefreshTokens, WsTo, bounds, WsPlaces
  <1> QED
    BY <1>3, <1>4, <1>5 DEF RunBuild, RefreshTokens

LEMMA LoopKeeps == ASSUME IInv, AttemptLoop PROVE IInv'
  <1>1. /\ TypeOK /\ Drawn /\ ws \in WsThread
        /\ retries \in 0 .. MaxRetries + 1 /\ MaxRetries \in Nat
        /\ view.connected => ws.pc \in {"open", "data", "closed"}
        /\ ws.pc = "loop" /\ retries <= MaxRetries
    BY FeedAssumption DEF IInv, TypeOK, ConnectedIsServed, RetriesLeft, AttemptLoop
  <1>2. \A pc \in WsPlaces :
           /\ [ws EXCEPT !.pc = pc] \in WsThread
           /\ [ws EXCEPT !.pc = pc].pc = pc
           /\ [ws EXCEPT !.pc = pc].ep \in Nat
           /\ [ws EXCEPT !.pc = pc].cb \in Nat
    BY <1>1 DEF WsThread, Drawn
  <1>3. CASE ~IsActive(ws.gen, ws.ep)
    BY <1>1, <1>2, <1>3, SocketMoves DEF AttemptLoop, End, bounds, WsPlaces, TypeOK
  <1>4. CASE IsActive(ws.gen, ws.ep) /\ retries' > MaxRetries
    <2>1. retries' \in 0 .. MaxRetries + 1
      BY <1>1, <1>4 DEF AttemptLoop
    <2> QED
      BY <1>1, <1>4, <2>1, FailureKeeps DEF AttemptLoop, bounds, TypeOK
  <1>5. CASE IsActive(ws.gen, ws.ep) /\ ~(retries' > MaxRetries)
    <2>1. /\ retries' \in 0 .. MaxRetries + 1 /\ retries' <= MaxRetries
          /\ ws' = [ws EXCEPT !.pc = "backoff"]
          /\ UNCHANGED <<flags, active, counters, sws, view, ticks, stops,
                         shutdownComplete, lock, Others, closing, bounds>>
      BY <1>1, <1>5 DEF AttemptLoop, WsTo
    <2>2. ws' \in WsThread /\ ws'.pc = "backoff" /\ ws'.ep = ws.ep /\ ws'.cb = ws.cb
      BY <1>1, <2>1 DEF WsThread, WsPlaces
    <2>3. TypeOK'
      BY <1>1, <2>1, <2>2 DEF TypeOK, Others, bounds
    <2>4. ShutdownInv'
      BY <2>1, <2>2, ShutdownKept DEF Others
    <2> QED
      BY <1>1, <2>1, <2>2, <2>3, <2>4
         DEF IInv, Drawn, RetriesLeft, QueueInv, ActiveIsLatest,
             InFlightIsLatest, QueueIsFresh, ConnectedIsServed
  <1> QED
    BY <1>3, <1>4, <1>5

LEMMA PublishKeeps == ASSUME IInv, RunPublish PROVE IInv'
  <1>1. /\ TypeOK /\ Drawn /\ ws \in WsThread /\ ws.pc = "publish"
        /\ view.connected => ws.pc \in {"open", "data", "closed"}
        /\ retries <= MaxRetries
    BY DEF IInv, TypeOK, ConnectedIsServed, RetriesLeft, RunPublish
  <1>2. /\ ws' \in WsThread /\ ws'.pc = "dial" /\ ws'.ep = ws.ep /\ ws'.cb = ws.ep
        /\ sws' \in Ids
    BY <1>1 DEF RunPublish, WsThread, WsPlaces
  <1>3. TypeOK'
    BY <1>1, <1>2 DEF TypeOK, RunPublish, Others, bounds
  <1>4. ShutdownInv'
    BY <1>2, ShutdownKept DEF RunPublish, Others
  <1> QED
    BY <1>1, <1>2, <1>3, <1>4
       DEF IInv, Drawn, RetriesLeft, QueueInv, ActiveIsLatest,
           InFlightIsLatest, QueueIsFresh, ConnectedIsServed, RunPublish

-----------------------------------------------------------------------------
(* The callbacks of the connection that is served.                         *)

LEMMA OpenKeeps == ASSUME IInv, OnOpen PROVE IInv'
  <1>1. TypeOK /\ Drawn /\ ws \in WsThread /\ view \in Views /\ MaxRetries \in Nat
    BY FeedAssumption DEF IInv, TypeOK
  <1>2. ws' \in WsThread /\ ws'.pc = "open" /\ ws'.ep = ws.ep /\ ws'.cb = ws.cb
    BY <1>1 DEF OnOpen, WsTo, WsThread, WsPlaces
  <1>3. view' \in Views
    <2>1. [view EXCEPT !.connected = TRUE, !.established = "young"] \in Views
      BY <1>1 DEF Views
    <2> QED
      BY <2>1, RestoredTyped DEF OnOpen
  <1>4. TypeOK'
    BY <1>1, <1>2, <1>3 DEF TypeOK, OnOpen, Others, bounds
  <1>5. ShutdownInv'
    BY <1>2, ShutdownKept DEF OnOpen, Others
  <1> QED
    BY <1>1, <1>2, <1>4, <1>5
       DEF IInv, Drawn, RetriesLeft, QueueInv, ActiveIsLatest,
           InFlightIsLatest, QueueIsFresh, ConnectedIsServed, OnOpen

\* A tick may pass only while its epoch is the active one, hence the latest,
\* and only before the shutdown.
LEMMA DataPasses ==
    ASSUME IInv, OnData
    PROVE  ws.cb = counters.ep /\ ~flags.manual
  BY DEF IInv, Drawn, QueueInv, ActiveIsLatest, OnData, IsActive, Off

LEMMA ClosingTyped ==
    ASSUME TypeOK, NEW s \in Ids, CloseConnection(s)
    PROVE  closing' \subseteq Ids
  BY DEF TypeOK, CloseConnection

LEMMA RequestTyped == ASSUME TypeOK, RequestReconnect PROVE closing' \subseteq Ids
  <1>1. sws \in Ids /\ closing \subseteq Ids
    BY DEF TypeOK
  <1> QED
    BY <1>1, ClosingTyped DEF RequestReconnect

LEMMA DataKeeps == ASSUME IInv, OnData PROVE IInv'
  <1>1. /\ TypeOK /\ Drawn /\ ws \in WsThread /\ view \in Views
        /\ ws.pc = "open" /\ retries <= MaxRetries
    BY DEF IInv, TypeOK, RetriesLeft, OnData
  <1>2. /\ ws' \in WsThread /\ ws'.pc \in {"open", "data"}
        /\ ws'.ep = ws.ep /\ ws'.cb = ws.cb
    BY <1>1 DEF OnData, WsTo, WsThread, WsPlaces
  <1>3. view' \in Views /\ view'.connected = view.connected
    BY <1>1 DEF OnData, Views
  <1>4. /\ closing' \subseteq Ids
        /\ troubles' \in 0 .. MaxTroubles /\ silences' = silences
    BY <1>1, TroubleCounted, RequestTyped DEF OnData, bounds, TypeOK
  <1>5. TypeOK'
    BY <1>1, <1>2, <1>3, <1>4 DEF TypeOK, OnData, Others
  <1>6. ShutdownInv'
    BY DataPasses, ShutdownKept DEF OnData, Others
  <1> QED
    BY <1>1, <1>2, <1>3, <1>5, <1>6, DataPasses
       DEF IInv, Drawn, RetriesLeft, QueueInv, ActiveIsLatest,
           InFlightIsLatest, QueueIsFresh, ConnectedIsServed, OnData

LEMMA EnqueueKeeps == ASSUME IInv, OnDataEnqueue PROVE IInv'
  <1>1. /\ TypeOK /\ Drawn /\ ws \in WsThread /\ view \in Views
        /\ ws.pc = "data" /\ ws.cb = counters.ep /\ retries <= MaxRetries
        /\ ws.cb \in Ids /\ ticks \in Seq(Ids) /\ Len(ticks) <= QueueMax
        /\ \A i \in DOMAIN ticks : ticks[i] = counters.ep
    BY DEF IInv, TypeOK, RetriesLeft, QueueInv, InFlightIsLatest, QueueIsFresh,
           Drawn, Ids, OnDataEnqueue
  <1>2. ws' \in WsThread /\ ws'.pc = "open" /\ ws'.ep = ws.ep /\ ws'.cb = ws.cb
    BY <1>1 DEF OnDataEnqueue, WsTo, WsThread, WsPlaces
  <1>3. view' \in Views /\ view'.connected = view.connected
    BY <1>1, RestoredTyped DEF OnDataEnqueue
  <1>4. /\ ticks' \in Seq(Ids) /\ Len(ticks') <= QueueMax
        /\ \A i \in DOMAIN ticks' : ticks'[i] = counters.ep
    BY <1>1, EnqueuedTicks DEF OnDataEnqueue
  <1>5. TypeOK'
    BY <1>1, <1>2, <1>3, <1>4 DEF TypeOK, OnDataEnqueue, Others, bounds
  <1>6. ~(flags.manual /\ caller.pc = "idle")
    BY <1>1 DEF IInv, ShutdownInv, NoneInFlight, WaitedForWs
  <1>7. ShutdownInv'
    BY <1>2, <1>6, ShutdownKept DEF OnDataEnqueue, Others
  <1> QED
    BY <1>1, <1>2, <1>3, <1>4, <1>5, <1>7
       DEF IInv, Drawn, RetriesLeft, QueueInv, ActiveIsLatest,
           InFlightIsLatest, QueueIsFresh, ConnectedIsServed, OnDataEnqueue

LEMMA ErrorAndCloseKeep == ASSUME IInv, OnError \/ OnClose PROVE IInv'
  <1>1. /\ TypeOK /\ Drawn /\ ws \in WsThread /\ view \in Views
        /\ ws.pc \in {"connecting", "open", "closed"} /\ retries <= MaxRetries
    BY DEF IInv, TypeOK, RetriesLeft, OnError, OnClose
  <1>2. /\ ws' \in WsThread /\ ws'.ep = ws.ep /\ ws'.cb = ws.cb
        /\ lock' \in BOOLEAN
        /\ \/ OnError /\ ws'.pc = "closed"
           \/ OnClose /\ ws'.pc \in {"attempt", "ending"}
    BY <1>1 DEF OnError, OnClose, WsTo, End, WsThread, WsPlaces, TypeOK
  <1>3. /\ view' \in Views
        /\ OnClose => view'.connected = FALSE
    BY <1>1 DEF OnError, OnClose, ClosedView, Views
  <1>4. troubles' \in 0 .. MaxTroubles /\ silences' = silences
    BY <1>1, TroubleCounted DEF OnError, OnClose, bounds, TypeOK
  <1>5. UNCHANGED <<flags, active, counters, sws, retries, ticks, stops,
                    shutdownComplete, consumer, watchdog, caller, calls, closing>>
    BY DEF OnError, OnClose, Others
  <1>6. TypeOK'
    BY <1>1, <1>2, <1>3, <1>4, <1>5 DEF TypeOK
  <1>7. ShutdownInv'
    BY <1>2, <1>5, ShutdownKept
  <1> QED
    BY <1>1, <1>2, <1>3, <1>5, <1>6, <1>7
       DEF IInv, Drawn, RetriesLeft, QueueInv, ActiveIsLatest,
           InFlightIsLatest, QueueIsFresh, ConnectedIsServed

\* The reconnect draws a new epoch and empties the queue in one locked step.
LEMMA SwapKeeps == ASSUME IInv, Swap PROVE IInv'
  <1>1. /\ TypeOK /\ Drawn /\ ws \in WsThread /\ ws.pc = "swap"
        /\ view.connected => ws.pc \in {"open", "data", "closed"}
        /\ retries <= MaxRetries /\ counters \in Pairs /\ active \in Pairs
    BY DEF IInv, TypeOK, ConnectedIsServed, RetriesLeft, Swap
  <1>2. /\ counters' \in Pairs /\ counters'.ep = counters.ep + 1
        /\ counters'.gen = counters.gen
        /\ active' \in Pairs /\ active'.ep = counters.ep + 1
        /\ sws' \in Ids
    BY <1>1 DEF Swap, Pairs, Ids, Drawn
  <1>3. /\ ws' \in WsThread /\ ws'.pc = "recheck" /\ ws'.ep = ws.ep
        /\ ws'.cb = counters.ep + 1
    <2> DEFINE next == counters.ep + 1
    <2>1. next \in Ids
      BY <1>1 DEF Drawn, Ids
    <2>2. ws' = [ws EXCEPT !.pc = "recheck", !.cb = next]
      BY DEF Swap, BoundEpoch
    <2> HIDE DEF next
    <2>3. ws' \in WsThread /\ ws'.pc = "recheck" /\ ws'.ep = ws.ep /\ ws'.cb = next
      BY <1>1, <2>1, <2>2 DEF WsThread, WsPlaces
    <2> QED
      BY <2>3 DEF next
  <1>4. ticks' = <<>> /\ ticks' \in Seq(Ids) /\ Len(ticks') <= QueueMax
    BY FeedAssumption DEF Swap, SwappedTicks
  <1>5. TypeOK'
    BY <1>1, <1>2, <1>3, <1>4 DEF TypeOK, Swap, Others, bounds
  <1>6. ShutdownInv'
    <2>1. flags.manual /\ caller.pc = "idle" => ticks' = ticks
      BY <1>4 DEF IInv, ShutdownInv, NothingQueued
    <2> QED
      BY <1>3, <2>1, ShutdownKept DEF Swap, Others
  <1> QED
    BY <1>1, <1>2, <1>3, <1>4, <1>5, <1>6
       DEF IInv, Drawn, RetriesLeft, QueueInv, ActiveIsLatest,
           InFlightIsLatest, QueueIsFresh, ConnectedIsServed, Swap

-----------------------------------------------------------------------------
(* The callers.                                                            *)

LEMMA ConnectTypes == ASSUME IInv, Connect PROVE TypeOK'
  <1>1. TypeOK /\ Drawn /\ counters \in Pairs
    BY DEF IInv, TypeOK
  <1>2. calls' \in 0 .. MaxCalls
    BY <1>1, FeedAssumption DEF TypeOK, Connect
  <1>3. ResetForRun =>
           /\ flags' \in Flags /\ view' \in Views /\ retries' \in 0 .. MaxRetries + 1
           /\ ticks' \in Seq(Ids) /\ Len(ticks') <= QueueMax
    <2> SUFFICES ASSUME ResetForRun
                 PROVE  /\ flags' \in Flags /\ view' \in Views
                        /\ retries' \in 0 .. MaxRetries + 1
                        /\ ticks' \in Seq(Ids) /\ Len(ticks') <= QueueMax
      OBVIOUS
    <2>1. view' \in Views
      BY <1>1 DEF TypeOK, ResetForRun, Views
    <2> QED
      BY <2>1, FeedAssumption DEF ResetForRun, Flags
  <1>4. CASE Alive(ws.pc) /\ flags' = [flags EXCEPT !.dead = FALSE]
             /\ UNCHANGED <<active, counters, view, retries, ticks, stops,
                            shutdownComplete, ws, consumer, watchdog>>
    <2>1. flags' \in Flags
      BY <1>1, <1>4 DEF TypeOK, Flags
    <2> QED
      BY <1>1, <1>2, <1>4, <2>1 DEF TypeOK, Connect, bounds
  <1>5. CASE /\ ResetForRun /\ stops' = [stops EXCEPT !.consumer = FALSE]
             /\ shutdownComplete' = TRUE
             /\ UNCHANGED <<active, counters, ws, consumer, watchdog>>
    <2>1. stops' \in [consumer : BOOLEAN, watchdog : BOOLEAN]
      BY <1>1, <1>5 DEF TypeOK
    <2> QED
      BY <1>1, <1>2, <1>3, <1>5, <2>1 DEF TypeOK, Connect, bounds
  <1>6. CASE /\ ResetForRun
             /\ counters' = [gen |-> counters.gen + 1, ep |-> counters.ep + 1]
             /\ active' = counters'
             /\ Started(counters'.gen, counters'.ep)
             /\ stops' = StopsAfterStart /\ shutdownComplete' = FALSE
    <2>1. counters' \in Pairs /\ counters'.gen \in Ids /\ counters'.ep \in Ids
      BY <1>1, <1>6 DEF Drawn, Pairs, Ids
    <2>2. ws' \in WsThread
      BY <1>6, <2>1 DEF Started, WsThread, WsPlaces, Ids
    <2>3. consumer' \in ConsumerPlaces
      BY <1>1, <1>6 DEF TypeOK, Started, ConsumerPlaces
    <2>4. watchdog' \in WatchdogThread
      BY <1>1, <1>6 DEF TypeOK, Started, WatchdogThread
    <2>5. stops' \in [consumer : BOOLEAN, watchdog : BOOLEAN]
      BY <1>1, <1>6 DEF TypeOK, StopsAfterStart, Alive
    <2> QED
      BY <1>1, <1>2, <1>3, <1>6, <2>1, <2>2, <2>3, <2>4, <2>5
         DEF TypeOK, Connect, bounds
  <1> QED
    BY <1>4, <1>5, <1>6 DEF Connect

\* A start that runs lowers the flag, empties the queue and draws a new epoch.
LEMMA ConnectKeeps == ASSUME IInv, Connect PROVE IInv'
  <1>1. TypeOK /\ TypeOK' /\ Drawn /\ counters \in Pairs /\ MaxRetries \in Nat
    BY ConnectTypes, FeedAssumption DEF IInv, TypeOK
  <1>2. caller' = caller /\ caller.pc = "idle"
    BY DEF Connect
  <1>3. ResetForRun =>
           /\ ~flags'.manual /\ ticks' = <<>> /\ retries' = 0
           /\ view'.connected = view.connected
    BY <1>1 DEF ResetForRun, TypeOK, Views
  <1>4. CASE Alive(ws.pc) /\ flags' = [flags EXCEPT !.dead = FALSE]
             /\ UNCHANGED <<active, counters, view, retries, ticks, stops,
                            shutdownComplete, ws, consumer, watchdog>>
    <2>1. flags'.manual = flags.manual
      BY <1>1, <1>4 DEF TypeOK, Flags
    <2>2. ShutdownInv'
      BY <1>2, <1>4, <2>1, ShutdownKept
    <2> QED
      BY <1>1, <1>4, <2>2
         DEF IInv, Drawn, RetriesLeft, QueueInv, ActiveIsLatest,
             InFlightIsLatest, QueueIsFresh, ConnectedIsServed
  <1>5. CASE ~Alive(ws.pc) /\ ResetForRun
    <2>1. ShutdownInv'
      BY <1>2, <1>3, <1>5
         DEF ShutdownInv, CallerShutsDown, ConsumerIsTold, NoneInFlight,
             ConsumerIsAway, NothingQueued
    <2>2. QueueIsFresh'
      BY <1>3, <1>5 DEF QueueIsFresh
    <2>3. /\ ws' = ws /\ active' = active /\ counters' = counters
          \/ /\ ws'.pc = "start" /\ ws'.ep = counters.ep + 1 /\ ws'.cb = 0
             /\ counters'.ep = counters.ep + 1 /\ counters'.gen = counters.gen + 1
             /\ active'.ep = counters'.ep
      BY <1>5 DEF Connect, Started
    <2>4. ~view.connected /\ ws.pc = "gone"
      BY <1>5 DEF IInv, ConnectedIsServed, Alive
    <2> QED
      BY <1>1, <1>3, <1>5, <2>1, <2>2, <2>3, <2>4
         DEF IInv, Drawn, RetriesLeft, QueueInv, ActiveIsLatest,
             InFlightIsLatest, ConnectedIsServed
  <1> QED
    BY <1>4, <1>5 DEF Connect

LEMMA DisconnectKeeps == ASSUME IInv, Disconnect PROVE IInv'
  <1>1. TypeOK /\ Drawn /\ sws \in Ids /\ MaxRetries \in Nat
    BY FeedAssumption DEF IInv, TypeOK
  <1>2. flags' \in Flags /\ flags'.manual
    BY <1>1 DEF TypeOK, Disconnect, Flags
  <1>3. /\ stops' \in [consumer : BOOLEAN, watchdog : BOOLEAN] /\ stops'.consumer
        /\ active' \in Pairs /\ active'.ep = Off
        /\ retries' = 0
        /\ caller' \in [pc : CallerPlaces, ref : Ids] /\ caller'.pc = "close"
    BY <1>1, NoPairTyped DEF Disconnect, StopsAtDisconnect, NoPair, CallerPlaces
  <1>4. view' \in Views /\ view'.connected = FALSE
    BY <1>1 DEF TypeOK, Disconnect, Views
  <1>5. calls' \in 0 .. MaxCalls
    BY <1>1, FeedAssumption DEF TypeOK, Disconnect
  <1>6. TypeOK'
    BY <1>1, <1>2, <1>3, <1>4, <1>5 DEF TypeOK, Disconnect, bounds
  <1>7. ShutdownInv'
    BY <1>2, <1>3
       DEF ShutdownInv, CallerShutsDown, ConsumerIsTold, NoneInFlight, WaitedForWs,
           ConsumerIsAway, WaitedForConsumer, NothingQueued
  <1> QED
    BY <1>1, <1>3, <1>4, <1>6, <1>7
       DEF IInv, Drawn, RetriesLeft, QueueInv, ActiveIsLatest,
           InFlightIsLatest, QueueIsFresh, ConnectedIsServed, Disconnect

\* The rest of disconnect: what it has waited for is recorded where it stands.
LEMMA CallerKeeps == ASSUME IInv, CallerRuns PROVE IInv'
  <1>1. /\ TypeOK /\ caller \in [pc : CallerPlaces, ref : Ids] /\ view \in Views
        /\ ws \in WsThread
    BY DEF IInv, TypeOK
  <1>2. ASSUME NEW pc \in CallerPlaces, CallerTo(pc)
        PROVE  caller' \in [pc : CallerPlaces, ref : Ids] /\ caller'.pc = pc
    BY <1>1, <1>2 DEF CallerTo
  <1>3. CASE DisconnectClose
    <2>1. closing' \subseteq Ids
      BY <1>1, <1>3, ClosingTyped DEF DisconnectClose, TypeOK
    <2>2. caller' \in [pc : CallerPlaces, ref : Ids] /\ caller'.pc = "join_ws"
      BY <1>2, <1>3 DEF DisconnectClose, CallerPlaces
    <2>3. /\ caller.pc = "close"
          /\ UNCHANGED <<manager, lock, ws, consumer, watchdog, calls, bounds>>
      BY <1>3 DEF DisconnectClose
    <2>4. TypeOK'
      BY <1>1, <2>1, <2>2, <2>3 DEF TypeOK, manager, bounds
    <2> QED
      BY <2>2, <2>3, <2>4
         DEF IInv, Drawn, RetriesLeft, QueueInv, ActiveIsLatest, InFlightIsLatest,
             QueueIsFresh, ConnectedIsServed, ShutdownInv, CallerShutsDown,
             ConsumerIsTold, NoneInFlight, WaitedForWs, ConsumerIsAway,
             WaitedForConsumer, NothingQueued, manager
  <1>4. CASE DisconnectJoin
    <2>1. /\ caller.pc \in {"join_ws", "join_consumer", "join_watchdog"}
          /\ CallerTo(AfterJoin[caller.pc])
          /\ Ended[caller.pc] \/ Outlasts[caller.pc]
          /\ UNCHANGED <<manager, lock, ws, consumer, watchdog, closing, calls, bounds>>
      BY <1>4 DEF DisconnectJoin, AfterJoin
    <2>2. /\ caller.pc = "join_ws" => AfterJoin[caller.pc] = "join_consumer"
          /\ caller.pc = "join_consumer" => AfterJoin[caller.pc] = "join_watchdog"
          /\ caller.pc = "join_watchdog" => AfterJoin[caller.pc] = "final"
      BY DEF AfterJoin
    <2>3. caller' \in [pc : CallerPlaces, ref : Ids] /\ caller'.pc = AfterJoin[caller.pc]
      BY <1>2, <2>1, <2>2 DEF CallerPlaces
    <2>4. Ended["join_ws"] \/ Outlasts["join_ws"] => ws.pc # "data"
      BY DEF Ended, Outlasts, Alive
    <2>5. Ended["join_consumer"] \/ Outlasts["join_consumer"] => consumer # "get"
      BY DEF Ended, Outlasts, Alive
    <2>6. TypeOK'
      BY <1>1, <2>1, <2>3 DEF TypeOK, manager, bounds
    <2>7. flags.manual /\ UNCHANGED <<flags, stops, ws, consumer, ticks>>
      BY <2>1 DEF IInv, ShutdownInv, CallerShutsDown, manager
    <2>8. ShutdownInv'
      BY <2>1, <2>2, <2>3, <2>4, <2>5, <2>7
         DEF IInv, ShutdownInv, CallerShutsDown, ConsumerIsTold, NoneInFlight,
             WaitedForWs, ConsumerIsAway, WaitedForConsumer, NothingQueued
    <2> QED
      BY <2>1, <2>6, <2>8
         DEF IInv, Drawn, RetriesLeft, QueueInv, ActiveIsLatest, InFlightIsLatest,
             QueueIsFresh, ConnectedIsServed, manager
  <1>5. CASE DisconnectFinal
    <2>1. view' \in Views /\ view'.connected = FALSE
      BY <1>1, <1>5 DEF DisconnectFinal, Views
    <2>2. caller' \in [pc : CallerPlaces, ref : Ids] /\ caller'.pc = "idle"
      BY <1>2, <1>5 DEF DisconnectFinal, CallerPlaces
    <2>3. /\ ticks' = <<>> /\ ticks' \in Seq(Ids) /\ Len(ticks') <= QueueMax
          /\ sws' \in Ids /\ shutdownComplete' \in BOOLEAN
      BY <1>5, FeedAssumption DEF DisconnectFinal, Ids
    <2>4. TypeOK'
      BY <1>1, <1>5, <2>1, <2>2, <2>3 DEF TypeOK, DisconnectFinal, bounds
    <2>5. ShutdownInv'
      BY <1>5, <2>2, <2>3
         DEF IInv, ShutdownInv, CallerShutsDown, ConsumerIsTold, NoneInFlight,
             WaitedForWs, ConsumerIsAway, WaitedForConsumer, NothingQueued,
             DisconnectFinal
    <2> QED
      BY <1>5, <2>1, <2>3, <2>4, <2>5
         DEF IInv, Drawn, RetriesLeft, QueueInv, ActiveIsLatest, InFlightIsLatest,
             QueueIsFresh, ConnectedIsServed, DisconnectFinal
  <1> QED
    BY <1>3, <1>4, <1>5 DEF CallerRuns

-----------------------------------------------------------------------------
(* The consumer, the watchdog and time.                                    *)

\* Told to stop, the consumer does not ask for another tick.
LEMMA ConsumerKeeps == ASSUME IInv, ConsumerRuns PROVE IInv'
  <1>1. TypeOK /\ ticks \in Seq(Ids) /\ Len(ticks) <= QueueMax /\ QueueMax \in Nat
    BY FeedAssumption DEF IInv, TypeOK
  <1>2. UNCHANGED <<flags, active, counters, sws, view, retries, stops,
                    shutdownComplete, lock, ws, watchdog, caller, closing, calls, bounds>>
    BY DEF ConsumerRuns, ConsumerTests, ConsumerTakes, ConsumerTimesOut,
           ConsumerDelivers, ConsumerEnds, ConsumerAt
  <1>3. /\ consumer' \in ConsumerPlaces
        /\ consumer' = "get" => consumer = "loop" /\ ~stops.consumer
    BY DEF ConsumerRuns, ConsumerTests, ConsumerTakes, ConsumerTimesOut,
           ConsumerDelivers, ConsumerEnds, ConsumerAt, ConsumerPlaces
  <1>4. ticks' = ticks \/ (ticks # <<>> /\ ticks' = Tail(ticks) /\ consumer = "get")
    BY DEF ConsumerRuns, ConsumerTests, ConsumerTakes, ConsumerTimesOut,
           ConsumerDelivers, ConsumerEnds, ConsumerAt
  <1>5. /\ ticks' \in Seq(Ids) /\ Len(ticks') <= QueueMax
        /\ QueueIsFresh'
    <2>1. \A i \in DOMAIN ticks : ticks[i] = counters.ep
      BY DEF IInv, QueueInv, QueueIsFresh
    <2>2. CASE ticks' = ticks
      BY <1>1, <1>2, <2>1, <2>2 DEF QueueIsFresh
    <2>3. CASE ticks # <<>> /\ ticks' = Tail(ticks)
      <3>1. /\ Tail(ticks) \in Seq(Ids) /\ Len(Tail(ticks)) = Len(ticks) - 1
            /\ \A i \in DOMAIN Tail(ticks) : Tail(ticks)[i] = counters.ep
        BY <1>1, <2>1, <2>3, TailFresh
      <3> QED
        BY <1>1, <1>2, <2>3, <3>1 DEF QueueIsFresh
    <2> QED
      BY <1>4, <2>2, <2>3
  <1>6. TypeOK'
    BY <1>1, <1>2, <1>3, <1>5 DEF TypeOK, bounds
  <1>7. ShutdownInv'
    BY <1>2, <1>3, <1>4
       DEF IInv, ShutdownInv, CallerShutsDown, ConsumerIsTold, NoneInFlight,
           ConsumerIsAway, WaitedForConsumer, NothingQueued
  <1> QED
    BY <1>2, <1>5, <1>6, <1>7
       DEF IInv, Drawn, RetriesLeft, QueueInv, ActiveIsLatest, InFlightIsLatest,
           ConnectedIsServed

\* Beside the view, the watchdog's steps and time touch nothing the invariant
\* speaks of, and of the view not whether the feed is connected.
LEMMA BesideKeeps ==
    ASSUME IInv, UNCHANGED Beside, TypeOK', view'.connected = view.connected
    PROVE  IInv'
  BY DEF IInv, Drawn, RetriesLeft, QueueInv, ActiveIsLatest, InFlightIsLatest,
         QueueIsFresh, ConnectedIsServed, ShutdownInv, CallerShutsDown,
         ConsumerIsTold, NoneInFlight, ConsumerIsAway, NothingQueued, Beside

LEMMA WatchdogMoved ==
    ASSUME watchdog \in WatchdogThread,
           NEW pc \in {"gone", "loop", "sleep", "judge", "request", "heal", "exit"},
           WatchdogTo(pc)
    PROVE  watchdog' \in WatchdogThread
  BY DEF WatchdogThread, WatchdogTo

LEMMA WatchdogKeeps == ASSUME IInv, WatchdogRuns PROVE IInv'
  <1>1. /\ TypeOK /\ view \in Views /\ watchdog \in WatchdogThread /\ active \in Pairs
        /\ closing \subseteq Ids /\ troubles \in 0 .. MaxTroubles
    BY DEF IInv, TypeOK
  <1>2. ASSUME UNCHANGED Beside, watchdog' \in WatchdogThread, view' \in Views,
               view'.connected = view.connected, closing' \subseteq Ids,
               troubles' \in 0 .. MaxTroubles, silences' = silences
        PROVE  IInv'
    <2>1. TypeOK'
      BY <1>1, <1>2 DEF TypeOK, Beside
    <2> QED
      BY <1>2, <2>1, BesideKeeps
  <1>3. CASE WatchdogTests
    BY <1>1, <1>2, <1>3, WatchdogMoved DEF WatchdogTests, bounds
  <1>4. CASE WatchdogReads
    <2>1. watchdog' \in WatchdogThread
      <3>1. CASE flags.manual \/ flags.stop \/ flags.dead
        BY <1>1, <1>4, <3>1, WatchdogMoved DEF WatchdogReads
      <3>2. CASE ~(flags.manual \/ flags.stop \/ flags.dead)
        <4> DEFINE settled == view.connected /\ view.established = "old"
        <4>1. watchdog' = [pc |-> "judge", gen |-> active.gen, ep |-> active.ep,
                           connected |-> view.connected,
                           overdue |-> settled /\ view.tick = "old",
                           fresh |-> settled /\ view.tick = "recent"]
          BY <1>4, <3>2 DEF WatchdogReads
        <4>2. /\ active.gen \in Ids /\ active.ep \in Ids /\ view.connected \in BOOLEAN
              /\ settled \in BOOLEAN
          BY <1>1 DEF Pairs, Views
        <4> HIDE DEF settled
        <4> QED
          BY <4>1, <4>2 DEF WatchdogThread
      <3> QED
        BY <3>1, <3>2
    <2> QED
      BY <1>1, <1>2, <1>4, <2>1 DEF WatchdogReads, bounds
  <1>5. CASE WatchdogJudges
    <2> DEFINE pair == [gen |-> watchdog.gen, ep |-> watchdog.ep]
    <2>1. pair \in Pairs
      BY <1>1 DEF WatchdogThread, Pairs
    <2>2. \/ view' = [view EXCEPT !.stale = TRUE, !.trigger = pair]
          \/ view' = Restored(view)
          \/ view' = view
      BY <1>5 DEF WatchdogJudges
    <2>3. view' \in Views /\ view'.connected = view.connected
      <3>1. CASE view' = [view EXCEPT !.stale = TRUE, !.trigger = pair]
        <4> HIDE DEF pair
        <4> QED
          BY <1>1, <2>1, <3>1 DEF Views
      <3> QED
        BY <1>1, <2>2, <3>1, RestoredTyped
    <2>4. watchdog' \in WatchdogThread
      BY <1>1, <1>5, WatchdogMoved DEF WatchdogJudges
    <2> QED
      BY <1>1, <1>2, <1>5, <2>3, <2>4 DEF WatchdogJudges, bounds
  <1>6. CASE WatchdogRequests
    BY <1>1, <1>2, <1>6, WatchdogMoved, RequestTyped
       DEF WatchdogRequests, StaleRequest, bounds
  <1>7. CASE WatchdogHeals
    BY <1>1, <1>2, <1>7, WatchdogMoved, RequestTyped, TroubleCounted
       DEF WatchdogHeals, bounds
  <1>8. CASE WatchdogEnds
    <2>1. watchdog' \in WatchdogThread
      BY <1>8 DEF WatchdogEnds, WatchdogThread, Ids
    <2> QED
      BY <1>1, <1>2, <1>8, <2>1 DEF WatchdogEnds, bounds
  <1> QED
    BY <1>3, <1>4, <1>5, <1>6, <1>7, <1>8 DEF WatchdogRuns

LEMMA TimeKeeps == ASSUME IInv, Settle \/ Silence PROVE IInv'
  <1>1. /\ TypeOK /\ view \in Views /\ silences \in 0 .. MaxSilences
        /\ MaxSilences \in Nat
    BY FeedAssumption DEF IInv, TypeOK
  <1>2. view' \in Views /\ view'.connected = view.connected
    BY <1>1 DEF Settle, Silence, Views
  <1>3. silences' \in 0 .. MaxSilences
    BY <1>1 DEF Settle, Silence, bounds
  <1>4. UNCHANGED <<Beside, watchdog, closing, troubles>>
    BY DEF Settle, Silence, bounds
  <1>5. TypeOK'
    BY <1>1, <1>2, <1>3, <1>4 DEF TypeOK, Beside
  <1> QED
    BY <1>2, <1>4, <1>5, BesideKeeps

LEMMA UpdateKeeps == ASSUME IInv, UpdateSubscriptionsFails PROVE IInv'
  <1>1. TypeOK
    BY DEF IInv
  <1>2. /\ closing' \subseteq Ids
        /\ troubles' \in 0 .. MaxTroubles /\ silences' = silences
    BY <1>1, RequestTyped, TroubleCounted DEF UpdateSubscriptionsFails
  <1>3. UNCHANGED <<Beside, watchdog, view>>
    BY DEF UpdateSubscriptionsFails, manager, threads, Beside
  <1>4. TypeOK'
    BY <1>1, <1>2, <1>3 DEF TypeOK, Beside
  <1> QED
    BY <1>3, <1>4, BesideKeeps

-----------------------------------------------------------------------------
LEMMA Initially == Init => IInv
  <1> SUFFICES ASSUME Init PROVE IInv
    OBVIOUS
  <1>1. /\ flags \in Flags /\ active \in Pairs /\ counters \in Pairs /\ view \in Views
        /\ stops \in [consumer : BOOLEAN, watchdog : BOOLEAN]
    BY NoPairTyped DEF Init, Flags, Pairs, Views, Ids
  <1>2. /\ ws \in WsThread /\ watchdog \in WatchdogThread /\ consumer \in ConsumerPlaces
        /\ caller \in [pc : CallerPlaces, ref : Ids]
    BY DEF Init, WsThread, WsPlaces, WatchdogThread, ConsumerPlaces, CallerPlaces, Ids
  <1>3. /\ sws \in Ids /\ ticks \in Seq(Ids) /\ Len(ticks) <= QueueMax
        /\ retries \in 0 .. MaxRetries + 1
        /\ calls \in 0 .. MaxCalls /\ troubles \in 0 .. MaxTroubles
        /\ silences \in 0 .. MaxSilences
    BY FeedAssumption DEF Init, Ids
  <1>4. TypeOK
    BY <1>1, <1>2, <1>3 DEF Init, TypeOK
  <1> QED
    BY <1>4, FeedAssumption
       DEF Init, IInv, Drawn, RetriesLeft, QueueInv, ActiveIsLatest,
           InFlightIsLatest, QueueIsFresh, ConnectedIsServed, ShutdownInv,
           CallerShutsDown, ConsumerIsTold, NoneInFlight, ConsumerIsAway, NothingQueued

LEMMA Inductive == ASSUME IInv, [Next]_vars PROVE IInv'
  <1>1. CASE WsRuns
    BY <1>1, PlainMoves, BuildsKeep, LoopKeeps, PublishKeeps, OpenKeeps,
       EnqueueKeeps, ErrorAndCloseKeep, SwapKeeps DEF WsRuns
  <1>2. CASE Outside
    BY <1>2, ConnectKeeps, DisconnectKeeps, UpdateKeeps, PlainMoves, DataKeeps,
       ErrorAndCloseKeep, TimeKeeps DEF Outside
  <1>3. CASE UNCHANGED vars
    BY <1>3
       DEF vars, manager, threads, bounds, IInv, TypeOK, Drawn, RetriesLeft, QueueInv,
           ActiveIsLatest, InFlightIsLatest, QueueIsFresh, ConnectedIsServed,
           ShutdownInv, CallerShutsDown, ConsumerIsTold, NoneInFlight,
           ConsumerIsAway, NothingQueued
  <1> QED
    BY <1>1, <1>2, <1>3, CallerKeeps, ConsumerKeeps, WatchdogKeeps DEF Next

-----------------------------------------------------------------------------
(***************************************************************************)
(* The manager's state is well typed: among others, the tick queue stays   *)
(* within its maximum and the retry counter within the retries and one.    *)
(***************************************************************************)
THEOREM TypeCorrect == Spec => []TypeOK
  <1>1. IInv => TypeOK
    BY DEF IInv
  <1> QED
    BY Initially, Inductive, <1>1, PTL DEF Spec

(***************************************************************************)
(* on_data's epoch check and the drain of a reconnect: ticks of a          *)
(* connection that was replaced never wait beside those of its successor,  *)
(* although the check and the put are two steps.                           *)
(***************************************************************************)
THEOREM QueueFresh == Spec => []QueueIsFresh
  <1>1. IInv => QueueIsFresh
    BY DEF IInv, QueueInv
  <1> QED
    BY Initially, Inductive, <1>1, PTL DEF Spec

(***************************************************************************)
(* disconnect: once it has returned, the queue is empty and the consumer   *)
(* asks for no tick, also where a join timed out.                          *)
(***************************************************************************)
THEOREM ShutdownCuts == Spec => []NothingAfterShutdown
  <1>1. IInv => NothingAfterShutdown
    BY DEF IInv, ShutdownInv, NothingQueued, ConsumerIsAway, WaitedForConsumer,
           NothingAfterShutdown
  <1> QED
    BY Initially, Inductive, <1>1, PTL DEF Spec

(***************************************************************************)
(* is_connected: set only while the socket thread serves the connection.   *)
(***************************************************************************)
THEOREM ServedWhileConnected == Spec => []ConnectedIsServed
  <1>1. IInv => ConnectedIsServed
    BY DEF IInv
  <1> QED
    BY Initially, Inductive, <1>1, PTL DEF Spec

-----------------------------------------------------------------------------
(***************************************************************************)
(* The judgement.  A worse state is taken when the count of equal findings *)
(* reaches Confirmations; the count is worth something only as long as it  *)
(* never counts more than the findings it stands for (Counted).            *)
(***************************************************************************)
VARIABLES market, day, hot, looped, health, fallback

W == INSTANCE FeedWatch

\* The pending state is what the last count findings have found.
Counted ==
    /\ monitor["engine"].count <= Len(findings)
    /\ \A i \in 1 .. Len(findings) :
          i > Len(findings) - monitor["engine"].count
            => findings[i] = monitor["engine"].pending

WIInv == W!TypeOK /\ Counted

\* The instance has the definitions of FeedFindings, and no others.
LEMMA SameNames ==
    /\ W!States = States
    /\ \A s : W!Rank(s) = Rank(s)
    /\ \A age : W!HardDown(age) = HardDown(age)
  BY DEF W!States, States, W!Rank, Rank, W!Worse, Worse, W!HardDown, HardDown

LEMMA StateRanks == \A s \in States : Rank(s) \in 1 .. 4
  <1>1. DOMAIN Worse = 1 .. 4
    BY DEF Worse
  <1>2. ASSUME NEW s \in States PROVE \E i \in 1 .. 4 : Worse[i] = s
    BY <1>1 DEF States
  <1> QED
    BY <1>1, <1>2 DEF Rank

LEMMA FoundTyped == ASSUME NEW age PROVE W!Found(age) \in States
  <1>1. States = {"HEALTHY", "DELAYED", "STALE", "DOWN"}
    <2>1. DOMAIN Worse = 1 .. 4
      BY DEF Worse
    <2> QED
      BY <2>1 DEF States, Worse
  <1> QED
    BY <1>1 DEF W!Found

Judged == States \cup {"PRE_MARKET", "POST_MARKET"}

LEMMA SettleTyped ==
    ASSUME NEW m \in W!Held, NEW s \in Judged
    PROVE  /\ W!Settle(m, s) \in W!Held
           /\ W!Settle(m, s).health = s /\ W!Settle(m, s).count = 0
  <1>1. s \in W!States \cup {"PRE_MARKET", "POST_MARKET"} /\ 0 \in 0 .. Confirmations - 1
    BY SameNames, FeedWatchAssumption DEF Judged
  <1> QED
    BY <1>1 DEF W!Settle, W!Held

\* What the hysteresis does: it settles, or it counts one finding more.
LEMMA HysteresisCases ==
    ASSUME NEW m \in W!Held, NEW found \in States
    PROVE  LET after == W!ApplyHysteresis(m, found)
               count == IF m.pending = found THEN m.count + 1 ELSE 1
           IN  /\ after \in W!Held
               /\ \/ /\ after.health = found /\ after.count = 0
                     /\ \/ m.health \notin States
                        \/ ~(Rank(found) > Rank(m.health))
                        \/ count >= Confirmations
                  \/ /\ after.health = m.health /\ after.pending = found
                     /\ after.count = count /\ count < Confirmations
  <1> DEFINE count == IF m.pending = found THEN m.count + 1 ELSE 1
  <1>1. found \in Judged
    BY DEF Judged
  <1>2. count \in Nat \ {0} /\ Confirmations \in Nat \ {0}
    BY FeedWatchAssumption DEF W!Held
  <1>3. CASE m.health \notin States
    BY <1>1, <1>3, SettleTyped, SameNames DEF W!ApplyHysteresis
  <1>4. CASE m.health \in States /\ Rank(found) <= Rank(m.health)
    <2>1. ~(Rank(found) > Rank(m.health))
      BY <1>4, StateRanks
    <2> QED
      BY <1>1, <1>4, <2>1, SettleTyped, SameNames DEF W!ApplyHysteresis, W!Agree
  <1>5. CASE m.health \in States /\ ~(Rank(found) <= Rank(m.health))
    <2>1. W!ApplyHysteresis(m, found) =
             IF count >= Confirmations THEN W!Settle(m, found)
             ELSE [m EXCEPT !.pending = found, !.count = count]
      BY <1>5, SameNames DEF W!ApplyHysteresis, W!Confirm
    <2> HIDE DEF count
    <2>2. CASE count >= Confirmations
      BY <1>1, <2>1, <2>2, SettleTyped DEF count
    <2>3. CASE ~(count >= Confirmations)
      <3> DEFINE after == [m EXCEPT !.pending = found, !.count = count]
      <3>1. count \in 0 .. Confirmations - 1 /\ count < Confirmations
        BY <1>2, <2>3
      <3>2. /\ after \in W!Held /\ after.health = m.health
            /\ after.pending = found /\ after.count = count
        BY <3>1, SameNames DEF W!Held
      <3> QED
        BY <2>1, <2>3, <3>1, <3>2 DEF count
    <2> QED
      BY <2>2, <2>3
  <1> QED
    BY <1>3, <1>4, <1>5

LEMMA RecommendKeeps ==
    ASSUME NEW m \in W!Held, NEW isLow \in BOOLEAN
    PROVE  /\ W!Recommend(m, isLow) \in W!Held
           /\ W!Recommend(m, isLow).health = m.health
           /\ W!Recommend(m, isLow).pending = m.pending
           /\ W!Recommend(m, isLow).count = m.count
  <1> DEFINE downFor == IF m.health # "DOWN" THEN W!None
                        ELSE IF m.downFor = W!None THEN 0 ELSE m.downFor
             low == W!LowAfter(m, isLow)
  <1>1. downFor \in {W!None} \cup 0 .. SafeDown /\ downFor \in Int
    BY FeedWatchAssumption DEF W!Held, W!None
  <1>2. low \in 0 .. SafeChecks
    BY FeedWatchAssumption DEF W!Held, W!LowAfter, W!UpTo
  <1>3. W!Recommend(m, isLow) =
           [m EXCEPT !.downFor = downFor, !.low = low,
                     !.safe = downFor >= SafeDown \/ low >= SafeChecks]
    BY DEF W!Recommend
  <1> HIDE DEF downFor, low
  <1> DEFINE safe == downFor >= SafeDown \/ low >= SafeChecks
  <1>4. safe \in BOOLEAN
    OBVIOUS
  <1> HIDE DEF safe
  <1>5. W!Recommend(m, isLow) =
           [m EXCEPT !.downFor = downFor, !.low = low, !.safe = safe]
    BY <1>3 DEF safe
  <1> QED
    BY <1>1, <1>2, <1>4, <1>5 DEF W!Held

\* One check of a monitor in the market and outside of it.
LEMMA CheckCases ==
    ASSUME NEW m \in W!Held, NEW age, NEW bonus,
           market \in {"PRE_MARKET", "MARKET", "POST_MARKET"}
    PROVE  LET after == W!Checked(m, age, bonus)
               found == W!Found(age)
               count == IF m.pending = found THEN m.count + 1 ELSE 1
           IN  /\ after \in W!Held
               /\ market # "MARKET" => after.health \notin States /\ after.count = 0
               /\ market = "MARKET" =>
                    \/ after.count = 0 /\ HardDown(age)
                    \/ /\ after.health = found /\ after.count = 0
                       /\ \/ m.health \notin States
                          \/ ~(Rank(found) > Rank(m.health))
                          \/ count >= Confirmations
                    \/ /\ after.health = m.health /\ after.pending = found
                       /\ after.count = count /\ count < Confirmations
  <1>1. {"PRE_MARKET", "POST_MARKET", "DOWN"} \subseteq Judged
        /\ "PRE_MARKET" \notin States /\ "POST_MARKET" \notin States
    <2>1. DOMAIN Worse = 1 .. 4
      BY DEF Worse
    <2>2. States = {"HEALTHY", "DELAYED", "STALE", "DOWN"}
      BY <2>1 DEF States, Worse
    <2> QED
      BY <2>2 DEF Judged
  <1>2. CASE market # "MARKET"
    <2>1. /\ W!Settle(m, market) \in W!Held
          /\ W!Settle(m, market).health = market /\ W!Settle(m, market).count = 0
      BY <1>1, <1>2, SettleTyped
    <2>2. W!Checked(m, age, bonus) = [W!Settle(m, market) EXCEPT !.safe = FALSE]
      BY <1>2 DEF W!Checked
    <2>3. /\ W!Checked(m, age, bonus) \in W!Held
          /\ W!Checked(m, age, bonus).health = market
          /\ W!Checked(m, age, bonus).count = 0
      BY <2>1, <2>2 DEF W!Held
    <2> QED
      BY <1>1, <1>2, <2>3
  <1>3. CASE market = "MARKET"
    <2> DEFINE judged == IF HardDown(age) THEN W!Settle(m, "DOWN")
                         ELSE W!ApplyHysteresis(m, W!Found(age))
               isLow == W!LowScore(judged.health, age, bonus)
    <2>1. W!HardDown(age) = HardDown(age)
      BY DEF W!HardDown, HardDown
    <2>2. W!Checked(m, age, bonus) = W!Recommend(judged, isLow)
      BY <1>3, <2>1 DEF W!Checked
    <2>3. isLow \in BOOLEAN
      BY DEF W!LowScore
    <2>4. judged \in W!Held
      BY <1>1, SettleTyped, HysteresisCases, FoundTyped
    <2> HIDE DEF isLow
    <2>5. /\ W!Checked(m, age, bonus) \in W!Held
          /\ W!Checked(m, age, bonus).health = judged.health
          /\ W!Checked(m, age, bonus).pending = judged.pending
          /\ W!Checked(m, age, bonus).count = judged.count
      BY <2>2, <2>3, <2>4, RecommendKeeps
    <2>6. CASE HardDown(age)
      <3>1. judged = W!Settle(m, "DOWN")
        BY <2>6
      <3>2. judged.count = 0
        BY <1>1, <3>1, SettleTyped
      <3> QED
        BY <1>3, <2>5, <2>6, <3>2
    <2>7. CASE ~HardDown(age)
      <3>1. judged = W!ApplyHysteresis(m, W!Found(age))
        BY <2>7
      <3> HIDE DEF judged
      <3> QED
        BY <1>3, <2>5, <3>1, HysteresisCases, FoundTyped
    <2> QED
      BY <2>6, <2>7
  <1> QED
    BY <1>2, <1>3

\* The history of findings keeps the latest ones, Confirmations at most.
LEMMA RememberedIs ==
    ASSUME NEW fs \in Seq(States), Len(fs) <= Confirmations, NEW age,
           market = "MARKET"
    PROVE  LET after == W!Remembered(fs, age)
               n == Len(after)
           IN  /\ after \in Seq(States) /\ n \in 1 .. Confirmations
               /\ after[n] = W!Found(age)
               /\ n = Len(fs) + 1 \/ (n = Confirmations /\ n = Len(fs))
               /\ \A i \in 1 .. n - 1 : after[i] = fs[i + (Len(fs) + 1 - n)]
  <1> DEFINE found == W!Found(age)
             all == Append(fs, found)
  <1>1. found \in States /\ Confirmations \in Nat \ {0} /\ Len(fs) \in Nat
    BY FoundTyped, FeedWatchAssumption
  <1> HIDE DEF found
  <1>2. /\ all \in Seq(States) /\ Len(all) = Len(fs) + 1 /\ all[Len(fs) + 1] = found
        /\ \A i \in 1 .. Len(fs) : all[i] = fs[i]
    BY <1>1
  <1> HIDE DEF all
  <1>3. W!Remembered(fs, age) = IF Len(all) > Confirmations THEN Tail(all) ELSE all
    BY DEF W!Remembered, all, found
  <1>4. CASE Len(all) > Confirmations
    <2>1. Len(fs) = Confirmations
      BY <1>1, <1>2, <1>4
    <2>2. /\ Tail(all) \in Seq(States) /\ Len(Tail(all)) = Len(fs)
          /\ \A i \in 1 .. Len(fs) : Tail(all)[i] = all[i + 1]
      BY <1>1, <1>2
    <2>3. Tail(all)[Len(fs)] = found
      BY <1>1, <1>2, <2>1, <2>2
    <2>4. \A i \in 1 .. Len(fs) - 1 : Tail(all)[i] = fs[i + 1]
      BY <1>1, <1>2, <2>2
    <2>5. W!Remembered(fs, age) = Tail(all)
      BY <1>3, <1>4
    <2>6. \A i \in 1 .. Len(fs) - 1 :
             Tail(all)[i] = fs[i + (Len(fs) + 1 - Len(fs))]
      <3>1. \A i \in 1 .. Len(fs) - 1 : i + (Len(fs) + 1 - Len(fs)) = i + 1
        BY <1>1
      <3> QED
        BY <2>4, <3>1
    <2> QED
      BY <1>1, <2>1, <2>2, <2>3, <2>5, <2>6 DEF found
  <1>5. CASE ~(Len(all) > Confirmations)
    BY <1>1, <1>2, <1>3, <1>5 DEF found
  <1> QED
    BY <1>4, <1>5

\* A run of equal findings grows with the count that stands for it.
LEMMA RunGrows ==
    ASSUME W!TypeOK, Counted, market = "MARKET", NEW age, NEW c \in Nat \ {0},
           findings' = W!Remembered(findings, age),
           c <= IF monitor["engine"].pending = W!Found(age)
                THEN monitor["engine"].count + 1 ELSE 1,
           c <= Confirmations
    PROVE  /\ c <= Len(findings')
           /\ \A i \in 1 .. Len(findings') :
                 i > Len(findings') - c => findings'[i] = W!Found(age)
  <1> DEFINE m == monitor["engine"]
             found == W!Found(age)
             n == Len(findings')
             l == Len(findings)
  <1>1. /\ findings \in Seq(States) /\ l \in Nat /\ l <= Confirmations
        /\ m.count \in Nat /\ Confirmations \in Nat \ {0}
    <2>1. "engine" \in W!Monitors
      BY DEF W!Monitors
    <2> QED
      BY <2>1, SameNames, FeedWatchAssumption DEF W!TypeOK, W!Held
  <1>2. /\ n \in 1 .. Confirmations /\ findings'[n] = found
        /\ n = l + 1 \/ (n = Confirmations /\ n = l)
        /\ \A i \in 1 .. n - 1 : findings'[i] = findings[i + (l + 1 - n)]
    BY <1>1, RememberedIs
  <1>3. m.count <= l /\ \A i \in 1 .. l : i > l - m.count => findings[i] = m.pending
    BY DEF Counted
  <1>4. c <= IF m.pending = found THEN m.count + 1 ELSE 1
    OBVIOUS
  <1> HIDE DEF m, found, n, l
  <1>5. c <= n
    BY <1>1, <1>2, <1>3, <1>4
  <1>6. ASSUME NEW i \in 1 .. n, i > n - c PROVE findings'[i] = found
    <2>1. CASE i = n
      BY <1>2, <2>1
    <2>2. CASE i # n
      <3>1. i \in 1 .. n - 1 /\ c > 1 /\ m.pending = found /\ c <= m.count + 1
        BY <1>1, <1>2, <1>4, <1>6, <2>2
      <3> DEFINE k == i + (l + 1 - n)
      <3>2. k \in 1 .. l /\ k > l - m.count
        BY <1>1, <1>2, <1>6, <3>1
      <3>3. findings'[i] = findings[k]
        BY <1>2, <3>1
      <3> QED
        BY <1>3, <3>1, <3>2, <3>3
    <2> QED
      BY <2>1, <2>2
  <1> QED
    BY <1>5, <1>6 DEF n, found

LEMMA EngineFacts ==
    ASSUME W!TypeOK
    PROVE  /\ "engine" \in W!Monitors /\ monitor \in [W!Monitors -> W!Held]
           /\ monitor["engine"] \in W!Held
           /\ findings \in Seq(States) /\ Len(findings) <= Confirmations
           /\ market \in {"PRE_MARKET", "MARKET", "POST_MARKET"}
  BY SameNames DEF W!TypeOK, W!Monitors

\* A check of the engine's monitor keeps the count honest, and a worse state
\* it takes is one that is confirmed.
LEMMA EngineChecks ==
    ASSUME WIInv, W!Check("engine")
    PROVE  /\ monitor' \in [W!Monitors -> W!Held]
           /\ findings' \in Seq(States) /\ Len(findings') <= Confirmations
           /\ Counted'
           /\ Worsens(monitor["engine"]) =>
                 \/ HardDown(heard["engine"])
                 \/ /\ Len(findings') = Confirmations
                    /\ \A i \in DOMAIN findings' :
                          findings'[i] = monitor'["engine"].health
  <1> DEFINE m == monitor["engine"]
             age == heard["engine"]
             found == W!Found(age)
             count == IF m.pending = found THEN m.count + 1 ELSE 1
  <1>1. /\ W!TypeOK /\ Counted /\ "engine" \in W!Monitors
        /\ monitor \in [W!Monitors -> W!Held] /\ m \in W!Held
        /\ findings \in Seq(States) /\ Len(findings) <= Confirmations
        /\ market \in {"PRE_MARKET", "MARKET", "POST_MARKET"}
    BY EngineFacts DEF WIInv
  <1>2. PICK bonus : monitor' = [monitor EXCEPT !["engine"] =
                                   W!Checked(@, heard["engine"], bonus)]
    BY DEF W!Check
  <1>3. findings' = W!Remembered(findings, age)
    BY DEF W!Check
  <1> DEFINE after == W!Checked(m, age, bonus)
  <1>4. /\ after \in W!Held
        /\ market # "MARKET" => after.health \notin States /\ after.count = 0
        /\ market = "MARKET" =>
             \/ after.count = 0 /\ HardDown(age)
             \/ /\ after.health = found /\ after.count = 0
                /\ \/ m.health \notin States
                   \/ ~(Rank(found) > Rank(m.health))
                   \/ count >= Confirmations
             \/ /\ after.health = m.health /\ after.pending = found
                /\ after.count = count /\ count < Confirmations
    BY <1>1, CheckCases
  <1>5. monitor' \in [W!Monitors -> W!Held] /\ monitor'["engine"] = after
    <2> HIDE DEF after
    <2>1. monitor' = [monitor EXCEPT !["engine"] = after]
      BY <1>2 DEF after
    <2> QED
      BY <1>1, <1>4, <2>1
  <1>6. m.count \in Nat /\ Confirmations \in Nat \ {0}
    BY <1>1, FeedWatchAssumption DEF W!Held
  <1>7. count \in Nat \ {0} /\ (m.pending = found => count = m.count + 1)
        /\ (m.pending # found => count = 1)
    BY <1>6
  <1> HIDE DEF after
  <1>8. findings' \in Seq(States) /\ Len(findings') <= Confirmations
    <2>1. CASE market = "MARKET"
      BY <1>1, <1>3, <1>6, <2>1, RememberedIs
    <2>2. CASE market # "MARKET"
      BY <1>3, <1>6, <2>2 DEF W!Remembered
    <2> QED
      BY <2>1, <2>2
  <1>9. ASSUME NEW c \in Nat \ {0}, market = "MARKET", c <= count, c <= Confirmations
         PROVE  /\ c <= Len(findings')
                /\ \A i \in 1 .. Len(findings') :
                      i > Len(findings') - c => findings'[i] = found
    <2>1. W!TypeOK /\ Counted
      BY <1>1
    <2> QED
      BY ONLY <1>3, <1>9, <2>1, RunGrows
  <1> HIDE DEF count
  <1>10. Counted'
    <2>1. CASE after.count = 0
      BY <1>5, <1>8, <2>1 DEF Counted
    <2>2. CASE /\ market = "MARKET" /\ after.pending = found
               /\ after.count = count /\ count < Confirmations
      <3> HIDE DEF found
      <3>1. /\ count <= Len(findings')
            /\ \A i \in 1 .. Len(findings') :
                  i > Len(findings') - count => findings'[i] = found
        BY <1>6, <1>7, <1>9, <2>2
      <3> QED
        BY <1>5, <2>2, <3>1 DEF Counted
    <2> QED
      BY <1>1, <1>4, <2>1, <2>2
  <1>11. ASSUME Worsens(m), ~HardDown(age)
         PROVE  /\ Len(findings') = Confirmations
                /\ \A i \in DOMAIN findings' : findings'[i] = after.health
    <2>1. /\ m.health \in States /\ after.health \in States
          /\ Rank(after.health) > Rank(m.health)
          /\ Rank(m.health) \in Int
      BY <1>5, <1>11, StateRanks DEF Worsens
    <2>2. ~(Rank(m.health) > Rank(m.health))
      BY <2>1
    <2>3. market = "MARKET" /\ after.health = found /\ count >= Confirmations
      BY <1>1, <1>4, <1>11, <2>1, <2>2
    <2>4. /\ Confirmations <= Len(findings')
          /\ \A i \in 1 .. Len(findings') :
                i > Len(findings') - Confirmations => findings'[i] = found
      <3>1. Confirmations <= count
        BY <1>6, <1>7, <2>3
      <3> HIDE DEF found
      <3> QED
        BY <1>6, <1>9, <2>3, <3>1
    <2>5. Len(findings') = Confirmations
      BY <1>6, <1>8, <2>4
    <2> QED
      BY <1>6, <1>8, <2>3, <2>4, <2>5
  <1> QED
    BY <1>5, <1>8, <1>10, <1>11

\* Every other step leaves the engine's count, its pending state and its
\* health, and the findings they stand for.
LEMMA EngineLeftAlone ==
    ASSUME Counted, findings' = findings,
           monitor'["engine"].count = monitor["engine"].count,
           monitor'["engine"].pending = monitor["engine"].pending
    PROVE  Counted'
  BY DEF Counted

LEMMA MainChecks ==
    ASSUME W!TypeOK, W!Check("main")
    PROVE  /\ monitor' \in [W!Monitors -> W!Held]
           /\ monitor'["engine"] = monitor["engine"]
           /\ monitor'["main"].safe \in BOOLEAN
           /\ findings' = findings
  <1>1. "main" \in W!Monitors /\ monitor["main"] \in W!Held
        /\ monitor \in [W!Monitors -> W!Held] /\ findings' = findings
        /\ market \in {"PRE_MARKET", "MARKET", "POST_MARKET"}
    BY EngineFacts DEF W!Monitors, W!Check
  <1>2. PICK bonus : monitor' = [monitor EXCEPT !["main"] =
                                   W!Checked(@, heard["main"], bonus)]
    BY DEF W!Check
  <1> DEFINE after == W!Checked(monitor["main"], heard["main"], bonus)
  <1>3. after \in W!Held
    BY <1>1, CheckCases
  <1>4. monitor' = [monitor EXCEPT !["main"] = after]
    BY <1>2
  <1> HIDE DEF after
  <1>5. after.safe \in BOOLEAN
    BY <1>3 DEF W!Held
  <1> QED
    BY <1>1, <1>3, <1>4, <1>5 DEF W!Monitors

LEMMA AdvanceTypes ==
    ASSUME W!TypeOK, W!Advance
    PROVE  /\ heard' \in [W!Monitors -> {W!None} \cup 0 .. W!Oldest]
           /\ monitor' \in [W!Monitors -> W!Held]
           /\ \A m \in W!Monitors :
                 /\ monitor'[m].health = monitor[m].health
                 /\ monitor'[m].pending = monitor[m].pending
                 /\ monitor'[m].count = monitor[m].count
  <1>1. /\ heard \in [W!Monitors -> {W!None} \cup 0 .. W!Oldest]
        /\ monitor \in [W!Monitors -> W!Held]
        /\ W!Oldest \in Nat /\ SafeDown \in Nat
    BY FeedWatchAssumption DEF W!TypeOK, W!Oldest
  <1>2. \A age \in {W!None} \cup 0 .. W!Oldest :
           W!Older(age) \in {W!None} \cup 0 .. W!Oldest
    BY <1>1 DEF W!Older, W!UpTo, W!None
  <1>3. heard' \in [W!Monitors -> {W!None} \cup 0 .. W!Oldest]
    BY <1>1, <1>2 DEF W!Advance
  <1>4. ASSUME NEW m \in W!Monitors
        PROVE  /\ monitor'[m] \in W!Held
               /\ monitor'[m].health = monitor[m].health
               /\ monitor'[m].pending = monitor[m].pending
               /\ monitor'[m].count = monitor[m].count
    <2> DEFINE d == monitor[m].downFor
               after == IF d = W!None THEN W!None ELSE W!UpTo(SafeDown, d + 1)
    <2>1. monitor[m] \in W!Held /\ d \in {W!None} \cup 0 .. SafeDown
      BY <1>1 DEF W!Held
    <2>2. after \in {W!None} \cup 0 .. SafeDown
      BY <1>1, <2>1 DEF W!UpTo, W!None
    <2>3. monitor'[m] = [monitor[m] EXCEPT !.downFor = after]
      BY <2>1 DEF W!Advance, W!Held
    <2> HIDE DEF after
    <2> QED
      BY <2>1, <2>2, <2>3 DEF W!Held
  <1>5. monitor' = [m \in W!Monitors |-> monitor'[m]]
    BY DEF W!Advance
  <1> QED
    BY <1>3, <1>4, <1>5

WatchStep ==
    Worsens(monitor["engine"]) =>
       \/ HardDown(heard["engine"])
       \/ /\ Len(findings') = Confirmations
          /\ \A i \in DOMAIN findings' : findings'[i] = monitor'["engine"].health

\* Where the engine's health stays, nothing worsens.
LEMMA NoWorse ==
    ASSUME WIInv, monitor'["engine"].health = monitor["engine"].health
    PROVE  WatchStep
  <1>1. ASSUME Worsens(monitor["engine"]) PROVE FALSE
    <2>1. /\ monitor["engine"].health \in States
          /\ Rank(monitor["engine"].health) > Rank(monitor["engine"].health)
      BY <1>1 DEF Worsens
    <2> QED
      BY <2>1, StateRanks
  <1> QED
    BY <1>1 DEF WatchStep

LEMMA WatchInductive == ASSUME WIInv, [W!Next]_(W!vars) PROVE WIInv' /\ WatchStep
  <1>1. /\ W!TypeOK /\ Counted /\ monitor["engine"] \in W!Held
        /\ heard \in [W!Monitors -> {W!None} \cup 0 .. W!Oldest]
        /\ "engine" \in W!Monitors /\ W!Oldest \in Nat
    BY EngineFacts, FeedWatchAssumption DEF WIInv, W!TypeOK, W!Oldest
  <1>2. ASSUME UNCHANGED <<monitor, findings>>, W!TypeOK' PROVE WIInv' /\ WatchStep
    BY <1>1, <1>2, EngineLeftAlone, NoWorse DEF WIInv
  <1>3. CASE W!OnTick
    <2>1. heard' \in [W!Monitors -> {W!None} \cup 0 .. W!Oldest]
      BY <1>1, <1>3 DEF W!OnTick
    <2> QED
      BY <1>1, <1>2, <1>3, <2>1 DEF W!OnTick, W!TypeOK
  <1>4. CASE W!TickReads \/ W!TickPublishes \/ W!LoopPublishes
    BY <1>1, <1>2, <1>4 DEF W!TickReads, W!TickPublishes, W!LoopPublishes, W!TypeOK
  <1>5. CASE W!LoopChecks
    <2>1. /\ W!Check("engine")
          /\ UNCHANGED <<market, day, heard, hot, health, fallback>>
      BY <1>5 DEF W!LoopChecks
    <2>2. /\ monitor' \in [W!Monitors -> W!Held]
          /\ findings' \in Seq(States) /\ Len(findings') <= Confirmations
          /\ Counted' /\ WatchStep
      BY <2>1, EngineChecks DEF WatchStep
    <2>3. W!TypeOK'
      BY <1>1, <2>1, <2>2, SameNames DEF W!TypeOK
    <2> QED
      BY <2>2, <2>3 DEF WIInv
  <1>6. CASE W!MainPublishes
    <2>1. /\ W!Check("main") /\ UNCHANGED <<market, day, heard, hot, looped>>
          /\ fallback' = fallback \/ fallback' = monitor'["main"].safe
      BY <1>6 DEF W!MainPublishes
    <2>2. /\ monitor' \in [W!Monitors -> W!Held]
          /\ monitor'["engine"] = monitor["engine"]
          /\ monitor'["main"].safe \in BOOLEAN /\ findings' = findings
      BY <1>1, <2>1, MainChecks
    <2>3. W!TypeOK'
      BY <1>1, <2>1, <2>2 DEF W!TypeOK
    <2> QED
      BY <1>1, <2>2, <2>3, EngineLeftAlone, NoWorse DEF WIInv
  <1>7. CASE W!Advance
    <2>1. UNCHANGED <<market, day, findings, hot, looped, health, fallback>>
      BY <1>7 DEF W!Advance
    <2>2. W!TypeOK'
      BY <1>1, <1>7, <2>1, AdvanceTypes DEF W!TypeOK
    <2> QED
      BY <1>1, <1>7, <2>1, <2>2, AdvanceTypes, EngineLeftAlone, NoWorse DEF WIInv
  <1>8. CASE W!Bell
    <2>1. /\ market' \in {"PRE_MARKET", "MARKET", "POST_MARKET"}
          /\ day' \in 1 .. Days
          /\ UNCHANGED <<heard, monitor, findings, fallback>>
      BY <1>1, <1>8, FeedWatchAssumption DEF W!Bell, W!TypeOK
    <2> QED
      BY <1>1, <1>2, <2>1 DEF W!TypeOK
  <1>9. CASE UNCHANGED W!vars
    BY <1>1, <1>2, <1>9 DEF W!vars, W!TypeOK
  <1> QED
    BY <1>3, <1>4, <1>5, <1>6, <1>7, <1>8, <1>9
       DEF W!Next, W!FeedThread, W!HealthLoop

LEMMA WatchInitially == W!Init => WIInv
  <1> SUFFICES ASSUME W!Init PROVE WIInv
    OBVIOUS
  <1>1. "DOWN" \in States
    <2>1. DOMAIN Worse = 1 .. 4 /\ Worse[4] = "DOWN"
      BY DEF Worse
    <2> QED
      BY <2>1 DEF States
  <1>2. W!Fresh \in W!Held /\ W!Fresh.count = 0
    BY <1>1, SameNames, FeedWatchAssumption DEF W!Fresh, W!Held, W!None
  <1>3. monitor \in [W!Monitors -> W!Held] /\ monitor["engine"].count = 0
    BY <1>2 DEF W!Init, W!Monitors
  <1>4. findings = <<>> /\ findings \in Seq(States) /\ Len(findings) = 0
    BY DEF W!Init
  <1>5. heard \in [W!Monitors -> {W!None} \cup 0 .. W!Oldest]
    BY DEF W!Init
  <1>6. W!TypeOK
    <2>1. 1 \in 1 .. Days /\ Len(findings) <= Confirmations
      BY <1>4, FeedWatchAssumption
    <2>2. findings \in Seq(W!States)
      BY <1>4, SameNames
    <2>3. /\ market = "PRE_MARKET" /\ day = 1 /\ fallback = FALSE
      BY DEF W!Init
    <2> QED
      BY <1>3, <1>5, <2>1, <2>2, <2>3 DEF W!TypeOK
  <1> QED
    BY <1>3, <1>4, <1>6 DEF WIInv, Counted

(***************************************************************************)
(* feed_health.py _apply_hysteresis: whatever the gaps, the bells and the  *)
(* checks in between, the engine's monitor takes a worse state only on a   *)
(* hard DOWN or after as many equal findings in a row as it asks for.      *)
(***************************************************************************)
THEOREM WorseIsConfirmed == W!Spec => WorsensOnlyConfirmed
  <1>1. ASSUME WIInv, [W!Next]_(W!vars)
        PROVE  [Worsens(monitor["engine"]) =>
                  \/ HardDown(heard["engine"])
                  \/ /\ Len(findings') = Confirmations
                     /\ \A i \in DOMAIN findings' :
                           findings'[i] = monitor'["engine"].health]_monitor
    BY <1>1, WatchInductive DEF WatchStep
  <1>2. WIInv /\ [W!Next]_(W!vars) => WIInv'
    BY WatchInductive
  <1> QED
    BY WatchInitially, <1>1, <1>2, PTL DEF W!Spec, WorsensOnlyConfirmed
=============================================================================
