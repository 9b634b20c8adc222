--------------------------- MODULE DashboardProofs ---------------------------
(***************************************************************************)
(* What runs between the backend and the dashboard: the stop of the        *)
(* backend (ControlPlane), the watch over its heartbeat, W, and the stream *)
(* of snapshots, S.                                                        *)
(*                                                                         *)
(* However many signals interrupt each other's handlers, in however many   *)
(* runs, a process stops its components once.  That the count of stops is  *)
(* at most one says nothing of the frames that are about to stop them.     *)
(* The strengthening follows these (Before): there is at most one, none    *)
(* before _stop_event is set, and none once the components were stopped.   *)
(* Only the lowest frame is not one of stop(), which also bounds the stack *)
(* by the number of signals.                                               *)
(*                                                                         *)
(* Of an emergency that is shown for a late heartbeat, two looks in a row  *)
(* found it late, and it is a period of the timer older than one look can  *)
(* tell.  The strengthening says what one stale look still means at the    *)
(* next one (StaleLookHolds): the heartbeat has come since, or it is a     *)
(* unit older.  That an emergency is shown for nothing but a raised flag   *)
(* and a block nobody served in time needs in addition that the block can  *)
(* be read and that the loop comes by the heartbeat at most one look later *)
(* than the threshold (Margin).  The defaults leave no such margin: 5 s    *)
(* for both, and a loop that comes by every 0.25 s under a timer of 0.2 s. *)
(*                                                                         *)
(* A frame that waits on the wire and is new to the bus is not lost, if    *)
(* the bus gets nothing before it that makes it stale: what is on the wire *)
(* must be of one run (SentBy, InOneRun), though the backend may die and   *)
(* start again at any moment, and in the order of the numbers (Rising).    *)
(***************************************************************************)
EXTENDS ControlPlane, HeartbeatTimes, SnapshotFrames, TLAPS

\* The watch: the backend's starts as its blocks show them, and the reader.
VARIABLES watchRun, alive, stuck, watchHandle, watchOwns, watchNamed, age, watchFlag,
          mapped, waited, stale, looked

W == INSTANCE HeartbeatWatch WITH
       run <- watchRun, handle <- watchHandle, owns <- watchOwns,
       named <- watchNamed, flag <- watchFlag

\* The stream: the backend that sends, and the connection it sends over.
CONSTANTS MaxSeq, MaxWire, MaxFaults
VARIABLES streamRun, up, seq, clock, conn, attached, faults

S == INSTANCE DashboardStream WITH run <- streamRun

-----------------------------------------------------------------------------
(* The stop of the backend.                                                *)

\* A publish under way has something to publish.
Busy(f) == f.pc \in {"read", "write"} => f.left > 0

InStop(f) ==
    \/ f.pc \in {"lock", "check", "announce", "parts", "clear", "close"}
    \/ f.pc \in {"read", "write"} /\ f.then \in {"parts", "close"}

\* Past the check of _stop_event, and the components are not stopped yet.
Before(f) ==
    \/ f.pc \in {"announce", "parts"}
    \/ f.pc \in {"read", "write"} /\ f.then = "parts"

\* s is the stack, set is _stop_event, n the number of stops.
Sound(s, set, n) ==
    /\ \A i \in DOMAIN s : Busy(s[i])
    /\ \A i \in DOMAIN s : i # 1 => InStop(s[i])
    /\ \A i, j \in DOMAIN s : Before(s[i]) /\ Before(s[j]) => i = j
    /\ \A i \in DOMAIN s : Before(s[i]) => set /\ n = 0
    /\ n \in {0, 1}
    /\ n = 1 => set

StackOK ==
    /\ stack \in Seq(Frame)
    /\ Sound(stack, stopping, served)
    /\ Len(stack) <= signals + 2
    /\ Running => run \in Generations

\* The types of the rest.
BlockOK ==
    /\ run \in 0..MaxRuns
    /\ locked \in BOOLEAN /\ stopping \in BOOLEAN
    /\ handle \in {0} \cup Generations /\ owns \in BOOLEAN
    /\ named \in {0} \cup Generations
    /\ flag \in [Generations -> {0, 1}]
    /\ command \in BOOLEAN /\ candle \in BOOLEAN
    /\ signals \in 0..MaxSignals
    /\ dialog \in {0} \cup Generations /\ opening \in BOOLEAN
    /\ clicks \in 0..MaxClicks
    /\ late \in BOOLEAN /\ promised \in BOOLEAN

IInv == StackOK /\ BlockOK

\* The bounds, and where the counts begin.
LEMMA Bounds ==
    /\ MaxRuns \in Nat /\ MaxClicks \in Nat /\ MaxSignals \in Nat
    /\ 0 \in 0..MaxRuns /\ 0 \in 0..MaxClicks /\ 0 \in 0..MaxSignals
  BY ControlPlaneAssumption

LEMMA SignalsCounted == ASSUME BlockOK PROVE signals \in Nat
  BY Bounds DEF BlockOK

-----------------------------------------------------------------------------
(* Stacks.                                                                 *)

\* The frame on top is replaced by one that is no nearer to a stop.
LEMMA Replaced ==
    ASSUME NEW s \in Seq(Frame), s # << >>, NEW set, NEW n, Sound(s, set, n),
           NEW g \in Frame, Busy(g),
           InStop(s[Len(s)]) => InStop(g), Before(g) => Before(s[Len(s)])
    PROVE  /\ [s EXCEPT ![Len(s)] = g] \in Seq(Frame)
           /\ Len([s EXCEPT ![Len(s)] = g]) = Len(s)
           /\ Sound([s EXCEPT ![Len(s)] = g], set, n)
  <1> DEFINE t == [s EXCEPT ![Len(s)] = g]
  <1>1. Len(s) \in DOMAIN s
    OBVIOUS
  <1>2. t \in Seq(Frame) /\ Len(t) = Len(s) /\ DOMAIN t = DOMAIN s
    OBVIOUS
  <1>3. \A i \in DOMAIN s : t[i] = IF i = Len(s) THEN g ELSE s[i]
    OBVIOUS
  <1> HIDE DEF t
  <1>4. \A i \in DOMAIN t : Busy(t[i])
    BY <1>2, <1>3 DEF Sound
  <1>5. \A i \in DOMAIN t : i # 1 => InStop(t[i])
    BY <1>1, <1>2, <1>3 DEF Sound
  <1>6. \A i \in DOMAIN t : Before(t[i]) => Before(s[i])
    BY <1>2, <1>3
  <1>7. Sound(t, set, n)
    BY <1>2, <1>4, <1>5, <1>6 DEF Sound
  <1> QED
    BY <1>2, <1>7 DEF t

\* A frame of stop() that has done nothing yet is put on top.
LEMMA Pushed ==
    ASSUME NEW s \in Seq(Frame), NEW set, NEW n, Sound(s, set, n),
           NEW g \in Frame, g.pc = "lock"
    PROVE  /\ Append(s, g) \in Seq(Frame)
           /\ Len(Append(s, g)) = Len(s) + 1
           /\ Sound(Append(s, g), set, n)
  <1> DEFINE t == Append(s, g)
  <1>1. /\ t \in Seq(Frame) /\ Len(t) = Len(s) + 1
        /\ DOMAIN t = 1..(Len(s) + 1) /\ DOMAIN s = 1..Len(s) /\ Len(s) \in Nat
    OBVIOUS
  <1>2. \A i \in DOMAIN t : IF i = Len(s) + 1 THEN t[i] = g ELSE i \in DOMAIN s /\ t[i] = s[i]
    OBVIOUS
  <1>3. Busy(g) /\ InStop(g) /\ ~Before(g)
    BY DEF Busy, InStop, Before
  <1> HIDE DEF t
  <1>4. Sound(t, set, n)
    BY <1>1, <1>2, <1>3 DEF Sound
  <1> QED
    BY <1>1, <1>4 DEF t

\* The frame on top returns.
LEMMA Popped ==
    ASSUME NEW s \in Seq(Frame), s # << >>, NEW set, NEW n, Sound(s, set, n)
    PROVE  /\ Front(s) \in Seq(Frame)
           /\ Len(Front(s)) = Len(s) - 1
           /\ Sound(Front(s), set, n)
  <1> DEFINE t == Front(s)
  <1>1. /\ t \in Seq(Frame) /\ Len(t) = Len(s) - 1
        /\ DOMAIN t = 1..(Len(s) - 1) /\ DOMAIN s = 1..Len(s) /\ Len(s) \in Nat
    BY DEF Front
  <1>2. \A i \in DOMAIN t : i \in DOMAIN s /\ t[i] = s[i]
    BY DEF Front
  <1> HIDE DEF t
  <1>3. Sound(t, set, n)
    BY <1>1, <1>2 DEF Sound
  <1> QED
    BY <1>1, <1>3 DEF t

-----------------------------------------------------------------------------
(* What the main thread does to the top of its stack.                      *)

Pcs == {"open", "map", "loop", "serve", "obey", "health", "candle", "exit",
        "read", "write", "lock", "check", "announce", "parts", "clear", "close"}

LEMMA TopTyped ==
    ASSUME StackOK, Running
    PROVE  Top \in Frame /\ Top = stack[Len(stack)] /\ Len(stack) \in DOMAIN stack
           /\ run \in Generations
  BY DEF StackOK, Running, Top, Last

LEMMA Moves ==
    ASSUME StackOK, Running, NEW g \in Frame, Busy(g),
           InStop(Top) => InStop(g), Before(g) => Before(Top),
           stack' = [stack EXCEPT ![Len(stack)] = g],
           UNCHANGED <<stopping, served, signals, run>>
    PROVE  StackOK'
  <1>1. /\ stack \in Seq(Frame) /\ stack # << >> /\ Sound(stack, stopping, served)
        /\ InStop(stack[Len(stack)]) => InStop(g)
        /\ Before(g) => Before(stack[Len(stack)])
    BY TopTyped DEF StackOK, Running
  <1>2. /\ stack' \in Seq(Frame) /\ Len(stack') = Len(stack)
        /\ Sound(stack', stopping, served)
    BY <1>1, Replaced
  <1>3. run \in Generations
    BY TopTyped
  <1> QED
    BY <1>2, <1>3 DEF StackOK

\* It goes on at place.
LEMMA Goes ==
    ASSUME StackOK, Running, NEW place \in Pcs \ {"read"}, Goto(place),
           place = "write" => Top.left > 0,
           InStop(Top) => InStop([Top EXCEPT !.pc = place]),
           Before([Top EXCEPT !.pc = place]) => Before(Top),
           UNCHANGED <<stopping, served, signals, run>>
    PROVE  StackOK'
  <1> DEFINE g == [Top EXCEPT !.pc = place]
  <1>1. g \in Frame
    BY TopTyped DEF Frame, Pcs
  <1>2. Busy(g)
    BY TopTyped DEF Frame, Busy
  <1>3. stack' = [stack EXCEPT ![Len(stack)] = g]
    BY TopTyped DEF Goto
  <1> QED
    BY <1>1, <1>2, <1>3, Moves

\* It begins to publish.
LEMMA BeginsToPublish ==
    ASSUME StackOK, Running,
           NEW set \in {"keep", "raise", "drop"}, NEW n \in 1..5,
           NEW then \in {"loop", "obey", "candle", "parts", "close"},
           Publishes(set, n, then),
           InStop(Top) => then \in {"parts", "close"},
           then = "parts" => Before(Top),
           UNCHANGED <<stopping, served, signals, run>>
    PROVE  StackOK'
  <1> DEFINE g == [Top EXCEPT !.pc = "read", !.set = set, !.left = n, !.then = then]
  <1>1. g \in Frame /\ g.pc = "read" /\ g.then = then /\ g.left = n
    <2>1. Top \in Frame /\ n \in 0..5
      BY TopTyped
    <2>2. [Top EXCEPT !.pc = "read"] \in Frame
      BY <2>1 DEF Frame
    <2>3. [Top EXCEPT !.pc = "read", !.set = set] \in Frame
      BY <2>2 DEF Frame
    <2>4. [Top EXCEPT !.pc = "read", !.set = set, !.left = n] \in Frame
      BY <2>1, <2>3 DEF Frame
    <2> QED
      BY <2>1, <2>4 DEF Frame
  <1>2. stack' = [stack EXCEPT ![Len(stack)] = g]
    BY TopTyped DEF Publishes
  <1> HIDE DEF g
  <1>3. /\ Busy(g)
        /\ InStop(Top) => InStop(g)
        /\ Before(g) => Before(Top)
    BY <1>1 DEF Busy, InStop, Before
  <1> QED
    BY <1>1, <1>2, <1>3, Moves

LEMMA StopFrames ==
    ASSUME NEW urgent \in BOOLEAN
    PROVE  StopFrame(urgent) \in Frame /\ StopFrame(urgent).pc = "lock"
  BY DEF StopFrame, NewFrame, Frame

\* The loop calls stop(): it is the lowest frame, and stays it.
LEMMA Calls ==
    ASSUME StackOK, Running, signals \in Nat, ~InStop(Top), NEW urgent \in BOOLEAN,
           NEW place \in {"exit", "health"}, CallStop(urgent, place),
           UNCHANGED <<stopping, served, signals, run>>
    PROVE  StackOK'
  <1> DEFINE g == [Top EXCEPT !.pc = place]
             s == [stack EXCEPT ![Len(stack)] = g]
             f == StopFrame(urgent)
  <1>1. g \in Frame /\ g.pc = place
    BY TopTyped DEF Frame
  <1>2. Busy(g) /\ ~Before(g)
    BY <1>1 DEF Busy, Before
  <1>3. f \in Frame /\ f.pc = "lock"
    BY StopFrames
  <1>4. stack' = Append(s, f)
    BY TopTyped DEF CallStop
  <1>5. /\ stack \in Seq(Frame) /\ stack # << >> /\ Sound(stack, stopping, served)
        /\ ~InStop(stack[Len(stack)])
    BY TopTyped DEF StackOK, Running
  <1>6. Len(stack) = 1
    BY <1>5, TopTyped DEF Sound
  <1>7. run \in Generations
    BY TopTyped
  <1> HIDE DEF g
  <1>8. s \in Seq(Frame) /\ Len(s) = 1 /\ Sound(s, stopping, served)
    BY <1>1, <1>2, <1>5, <1>6, Replaced
  <1> HIDE DEF s, f
  <1>9. /\ Append(s, f) \in Seq(Frame) /\ Len(Append(s, f)) = Len(s) + 1
        /\ Sound(Append(s, f), stopping, served)
    BY <1>3, <1>8, Pushed, Zenon
  <1> QED
    BY <1>4, <1>7, <1>8, <1>9 DEF StackOK

\* A call of stop() returns.
LEMMA Returns ==
    ASSUME StackOK, Running, stack' = Front(stack), signals \in Nat,
           UNCHANGED <<stopping, served, signals, run>>
    PROVE  StackOK'
  <1>1. stack \in Seq(Frame) /\ stack # << >> /\ Sound(stack, stopping, served)
    BY DEF StackOK, Running
  <1>2. /\ stack' \in Seq(Frame) /\ Len(stack') = Len(stack) - 1
        /\ Sound(stack', stopping, served)
    BY <1>1, Popped
  <1>3. run \in Generations /\ Len(stack) \in Nat
    BY TopTyped, <1>1
  <1> QED
    BY <1>2, <1>3 DEF StackOK

-----------------------------------------------------------------------------
(* Publishing.                                                             *)

LEMMA TopBusy == ASSUME StackOK, Running PROVE Busy(Top)
  BY TopTyped DEF StackOK, Sound

\* A publish is over: the thread goes on where it is to go on.
LEMMA GoesOn ==
    ASSUME StackOK, Running, Top.pc \in {"read", "write"}, Goto(Top.then),
           UNCHANGED <<stopping, served, signals, run>>
    PROVE  StackOK'
  <1>1. Top.then \in {"loop", "obey", "candle", "parts", "close"}
    BY TopTyped DEF Frame
  <1>2. [Top EXCEPT !.pc = Top.then].pc = Top.then
    BY TopTyped DEF Frame
  <1>3. /\ InStop(Top) => InStop([Top EXCEPT !.pc = Top.then])
        /\ Before([Top EXCEPT !.pc = Top.then]) => Before(Top)
    BY <1>1, <1>2 DEF InStop, Before
  <1> QED
    BY <1>1, <1>3, Goes DEF Pcs

LEMMA PublishReads == IInv /\ PublishRead => IInv'
  <1> SUFFICES ASSUME IInv, PublishRead PROVE IInv'
    OBVIOUS
  <1> USE DEF dashboard
  <1>1. /\ StackOK /\ Running /\ Top.pc = "read"
        /\ UNCHANGED <<stopping, served, signals, run>>
    BY DEF IInv, PublishRead, At
  <1>2. StackOK'
    <2>1. CASE handle = 0
      BY <1>1, <2>1, GoesOn DEF PublishRead
    <2>2. CASE handle # 0
      <3> DEFINE g == [Top EXCEPT !.pc = "write", !.seen = flag[handle]]
      <3>1. flag[handle] \in {0, 1}
        BY <2>2 DEF IInv, BlockOK
      <3>2. g \in Frame /\ g.pc = "write" /\ g.then = Top.then /\ g.left = Top.left
        BY <1>1, <3>1, TopTyped DEF Frame
      <3>3. stack' = [stack EXCEPT ![Len(stack)] = g]
        BY <1>1, <2>2, TopTyped DEF PublishRead
      <3> HIDE DEF g
      <3>4. /\ Busy(g)
            /\ InStop(Top) => InStop(g)
            /\ Before(g) => Before(Top)
        BY <1>1, <3>2, TopBusy DEF Busy, InStop, Before
      <3> QED
        BY <1>1, <3>2, <3>3, <3>4, Moves
    <2> QED
      BY <2>1, <2>2
  <1>3. BlockOK'
    BY DEF IInv, BlockOK, PublishRead
  <1> QED
    BY <1>2, <1>3 DEF IInv

LEMMA PublishWrites == IInv /\ PublishWrite => IInv'
  <1> SUFFICES ASSUME IInv, PublishWrite PROVE IInv'
    OBVIOUS
  <1> USE DEF dashboard
  <1>1. /\ StackOK /\ Running /\ Top.pc = "write"
        /\ UNCHANGED <<stopping, served, signals, run>>
    BY DEF IInv, PublishWrite, At
  <1>2. Top \in Frame /\ Top.left \in 1..5 /\ Written(Top) \in {0, 1}
    BY <1>1, TopTyped, TopBusy DEF Frame, Busy, Written
  <1>3. StackOK'
    <2>1. CASE handle = 0
      BY <1>1, <2>1, GoesOn DEF PublishWrite
    <2>2. CASE handle # 0
      <3> DEFINE next == IF Top.left > 1 THEN "read" ELSE Top.then
                 moved == [Top EXCEPT !.pc = next]
                 g == [moved EXCEPT !.left = Top.left - 1]
      <3>1. /\ Top.left - 1 \in 0..5
            /\ Top.then \in {"loop", "obey", "candle", "parts", "close"}
        BY <1>2 DEF Frame
      <3>2. next = "read" \/ next = Top.then
        OBVIOUS
      <3>3. next \in Pcs
        BY <3>1, <3>2 DEF Pcs
      <3>4. moved \in Frame /\ moved.pc = next /\ moved.then = Top.then
        <4> HIDE DEF next
        <4> QED
          BY <1>2, <3>3 DEF Frame, Pcs
      <3>5. g \in Frame /\ g.pc = next /\ g.then = Top.then /\ g.left = Top.left - 1
        <4> HIDE DEF moved, next
        <4> QED
          BY <3>1, <3>4 DEF Frame
      <3>6. next = "read" => Top.left > 1
        BY <3>1
      <3>7. stack' = [stack EXCEPT ![Len(stack)] = g]
        BY <1>1, <2>2, TopTyped DEF PublishWrite
      <3> HIDE DEF next, moved, g
      <3>8. /\ Busy(g)
            /\ InStop(Top) => InStop(g)
            /\ Before(g) => Before(Top)
        BY <1>1, <1>2, <3>1, <3>2, <3>5, <3>6 DEF Busy, InStop, Before
      <3> QED
        BY <1>1, <3>5, <3>7, <3>8, Moves
    <2> QED
      BY <2>1, <2>2
  <1>4. BlockOK'
    BY <1>2 DEF IInv, BlockOK, PublishWrite
  <1> QED
    BY <1>3, <1>4 DEF IInv

-----------------------------------------------------------------------------
(* The loop.                                                               *)

\* What the frame of the loop does to itself is of no concern to stop().
LEMMA LoopGoes ==
    ASSUME StackOK, Running, NEW place \in {"map", "loop", "serve", "health", "candle"},
           Goto(place), ~InStop(Top), UNCHANGED <<stopping, served, signals, run>>
    PROVE  StackOK'
  <1>1. ~Before([Top EXCEPT !.pc = place])
    BY TopTyped DEF Before, Frame
  <1> QED
    BY <1>1, Goes DEF Pcs

LEMMA LoopPublishes ==
    ASSUME StackOK, Running, NEW set \in {"keep", "raise", "drop"}, NEW n \in 1..5,
           NEW then \in {"loop", "obey", "candle"},
           Publishes(set, n, then), ~InStop(Top),
           UNCHANGED <<stopping, served, signals, run>>
    PROVE  StackOK'
  BY BeginsToPublish

LEMMA LoopTop ==
    ASSUME NEW place \in {"open", "map", "loop", "serve", "obey", "health", "candle"},
    At(place)
    PROVE  Running /\ ~InStop(Top)
  BY DEF At, InStop

LEMMA Starts == IInv /\ (Open \/ Map \/ Serve \/ Health) => IInv'
  <1> SUFFICES ASSUME IInv, Open \/ Map \/ Serve \/ Health PROVE IInv'
    OBVIOUS
  <1> USE DEF dashboard
  <1>1. /\ StackOK /\ Running /\ ~InStop(Top) /\ run \in Generations
        /\ UNCHANGED <<stopping, served, signals, run>>
    BY LoopTop DEF IInv, StackOK, Open, Map, Serve, Health
  <1>2. StackOK'
    <2>1. CASE Open
      BY <1>1, <2>1, LoopGoes DEF Open
    <2>2. CASE Map
      BY <1>1, <2>2, LoopPublishes DEF Map
    <2>3. CASE Serve
      BY <1>1, <2>3, LoopGoes, LoopPublishes DEF Serve
    <2>4. CASE Health
      BY <1>1, <2>4, LoopGoes, LoopPublishes DEF Health
    <2> QED
      BY <2>1, <2>2, <2>3, <2>4
  <1>3. BlockOK'
    BY <1>1 DEF IInv, BlockOK, Open, Map, Serve, Health
  <1> QED
    BY <1>2, <1>3 DEF IInv

LEMMA Turns == IInv /\ (Poll \/ Obey \/ Candle) => IInv'
  <1> SUFFICES ASSUME IInv, Poll \/ Obey \/ Candle PROVE IInv'
    OBVIOUS
  <1> USE DEF dashboard
  <1>1. /\ StackOK /\ signals \in Nat
        /\ UNCHANGED <<stopping, served, signals, run>>
    BY SignalsCounted DEF IInv, Poll, Obey, Candle
  <1>2. Running /\ ~InStop(Top)
    BY LoopTop DEF Poll, Obey, Candle
  <1>3. StackOK'
    <2>1. CASE Poll
      BY <1>1, <1>2, <2>1, LoopGoes, Calls DEF Poll
    <2>2. CASE Obey
      BY <1>1, <1>2, <2>2, Calls DEF Obey
    <2>3. CASE Candle
      BY <1>1, <1>2, <2>3, LoopGoes, Calls DEF Candle
    <2> QED
      BY <2>1, <2>2, <2>3
  <1>4. BlockOK'
    BY DEF IInv, BlockOK, Poll, Obey, Candle
  <1> QED
    BY <1>3, <1>4 DEF IInv

-----------------------------------------------------------------------------
(* stop().                                                                 *)

LEMMA StopGoes == IInv /\ (StopLock \/ StopAnnounce \/ StopClear) => IInv'
  <1> SUFFICES ASSUME IInv, StopLock \/ StopAnnounce \/ StopClear PROVE IInv'
    OBVIOUS
  <1> USE DEF dashboard
  <1>1. StackOK /\ Running /\ UNCHANGED <<stopping, served, signals, run>>
    BY DEF IInv, StopLock, StopAnnounce, StopClear, At
  <1>2. StackOK'
    <2>1. CASE StopLock
      <3>1. [Top EXCEPT !.pc = "check"].pc = "check"
        BY <1>1, TopTyped DEF Frame
      <3>2. /\ InStop([Top EXCEPT !.pc = "check"])
            /\ ~Before([Top EXCEPT !.pc = "check"])
        BY <3>1 DEF InStop, Before
      <3> QED
        BY <1>1, <2>1, <3>2, Goes DEF StopLock, Pcs
    <2>2. CASE StopAnnounce
      <3>1. Top.urgent \in BOOLEAN
        BY <1>1, TopTyped DEF Frame
      <3>2. Announced(Top.urgent) \in {"keep", "raise", "drop"} /\ Before(Top)
        BY <2>2, <3>1 DEF Announced, Before, StopAnnounce, At
      <3> QED
        BY <1>1, <2>2, <3>2, BeginsToPublish DEF StopAnnounce
    <2>3. CASE StopClear
      BY <1>1, <2>3, BeginsToPublish DEF StopClear
    <2> QED
      BY <2>1, <2>2, <2>3
  <1>3. BlockOK'
    BY DEF IInv, BlockOK, StopLock, StopAnnounce, StopClear
  <1> QED
    BY <1>2, <1>3 DEF IInv

\* The frame on top alone may be about to stop the components, or no frame.
LEMMA Advances ==
    ASSUME StackOK, Running, NEW place \in {"announce", "clear"}, Goto(place), InStop(Top),
           \A i \in DOMAIN stack : i # Len(stack) => ~Before(stack[i]),
           place = "announce" => stopping' /\ served' = 0,
           served' \in {0, 1}, served' = 1 => stopping',
           UNCHANGED <<signals, run>>
    PROVE  StackOK'
  <1> DEFINE g == [Top EXCEPT !.pc = place]
  <1>1. g \in Frame /\ g.pc = place
    BY TopTyped DEF Frame
  <1>2. stack' = [stack EXCEPT ![Len(stack)] = g]
    BY TopTyped DEF Goto
  <1> HIDE DEF g
  <1>3. /\ Busy(g) /\ InStop(g)
        /\ Before(g) => place = "announce"
    BY <1>1 DEF Busy, InStop, Before
  <1>4. /\ stack \in Seq(Frame) /\ Len(stack) \in DOMAIN stack
        /\ Sound(stack, stopping, served)
    BY TopTyped DEF StackOK
  <1>5. stack' \in Seq(Frame) /\ Len(stack') = Len(stack) /\ DOMAIN stack' = DOMAIN stack
    BY <1>1, <1>2, <1>4
  <1>6. \A i \in DOMAIN stack : stack'[i] = IF i = Len(stack) THEN g ELSE stack[i]
    BY <1>2, <1>4
  <1>7. \A i \in DOMAIN stack' : Busy(stack'[i]) /\ (i # 1 => InStop(stack'[i]))
    BY <1>3, <1>4, <1>5, <1>6 DEF Sound
  <1>8. \A i \in DOMAIN stack' : Before(stack'[i]) => i = Len(stack) /\ place = "announce"
    BY <1>3, <1>5, <1>6
  <1>9. Sound(stack', stopping', served')
    BY <1>7, <1>8 DEF Sound
  <1> QED
    BY <1>5, <1>9, TopTyped DEF StackOK

LEMMA StopChecks == IInv /\ StopCheck => IInv'
  <1> SUFFICES ASSUME IInv, StopCheck PROVE IInv'
    OBVIOUS
  <1> USE DEF dashboard
  <1>1. /\ StackOK /\ Running /\ Top.pc = "check" /\ signals \in Nat /\ stopping \in BOOLEAN
        /\ UNCHANGED <<served, signals, run>> /\ stopping'
    BY ControlPlaneAssumption DEF IInv, BlockOK, StopCheck, At
  <1>2. StackOK'
    <2>1. CASE stopping
      <3>1. stack' = Front(stack) /\ stopping' = stopping
        BY <1>1, <2>1 DEF StopCheck, AlreadyStopped
      <3> QED
        BY <1>1, <3>1, Returns
    <2>2. CASE ~stopping
      <3>1. Goto("announce") /\ InStop(Top)
        BY <1>1, <2>2 DEF StopCheck, AlreadyStopped, InStop
      <3>2. served = 0 /\ \A i \in DOMAIN stack : ~Before(stack[i])
        BY <1>1, <2>2 DEF StackOK, Sound
      <3> QED
        BY <1>1, <3>1, <3>2, Advances
    <2> QED
      BY <2>1, <2>2
  <1>3. BlockOK'
    BY DEF IInv, BlockOK, StopCheck
  <1> QED
    BY <1>2, <1>3 DEF IInv

\* Here the components are stopped, by the only frame that was about to.
LEMMA StopsParts == IInv /\ StopParts => IInv'
  <1> SUFFICES ASSUME IInv, StopParts PROVE IInv'
    OBVIOUS
  <1> USE DEF dashboard
  <1>1. /\ StackOK /\ Running /\ Top.pc = "parts" /\ Goto("clear")
        /\ UNCHANGED <<stopping, signals, run>> /\ served' = served + 1
    BY DEF IInv, StopParts, At
  <1>2. Before(Top) /\ InStop(Top) /\ Top = stack[Len(stack)] /\ Len(stack) \in DOMAIN stack
    BY <1>1, TopTyped DEF Before, InStop
  <1>3. /\ stopping /\ served = 0
        /\ \A i \in DOMAIN stack : i # Len(stack) => ~Before(stack[i])
    BY <1>1, <1>2 DEF StackOK, Sound
  <1>4. StackOK'
    BY <1>1, <1>2, <1>3, Advances
  <1>5. BlockOK'
    BY DEF IInv, BlockOK, StopParts
  <1> QED
    BY <1>4, <1>5 DEF IInv

LEMMA StopCloses == IInv /\ StopClose => IInv'
  <1> SUFFICES ASSUME IInv, StopClose PROVE IInv'
    OBVIOUS
  <1> USE DEF dashboard
  <1>1. /\ StackOK /\ Running /\ signals \in Nat /\ stack' = Front(stack)
        /\ UNCHANGED <<stopping, served, signals, run>>
    BY ControlPlaneAssumption DEF IInv, BlockOK, StopClose, At
  <1>2. StackOK'
    BY <1>1, Returns
  <1>3. BlockOK'
    BY DEF IInv, BlockOK, StopClose, Unlinked
  <1> QED
    BY <1>2, <1>3 DEF IInv

-----------------------------------------------------------------------------
(* The process, its signals, and the dialog.                               *)

LEMMA Ends == IInv /\ (Exit \/ Crash) => IInv'
  <1> SUFFICES ASSUME IInv, Gone PROVE IInv'
    BY DEF Exit, Crash
  <1> USE DEF dashboard
  <1>1. StackOK'
    BY DEF IInv, BlockOK, StackOK, Sound, Running, Gone
  <1>2. BlockOK'
    <2>1. named' \in {0} \cup Generations
      BY DEF IInv, BlockOK, Gone
    <2>2. signals' \in 0..MaxSignals
      BY Bounds DEF Gone
    <2> QED
      BY <2>1, <2>2 DEF IInv, BlockOK, Gone
  <1> QED
    BY <1>1, <1>2 DEF IInv

LEMMA Launches == IInv /\ Launch => IInv'
  <1> SUFFICES ASSUME IInv, Launch PROVE IInv'
    OBVIOUS
  <1> USE DEF dashboard
  <1>1. NewFrame("open") \in Frame /\ NewFrame("open").pc = "open"
    BY DEF NewFrame, Frame
  <1>2. /\ stack' = << NewFrame("open") >> /\ run' \in Generations
        /\ UNCHANGED <<stopping, served, signals>> /\ signals \in Nat
    BY ControlPlaneAssumption DEF IInv, BlockOK, Launch, Generations
  <1>3. ~Before(NewFrame("open")) /\ Busy(NewFrame("open"))
    BY <1>1 DEF Before, Busy
  <1>4. Sound(stack', stopping', served')
    BY <1>2, <1>3 DEF IInv, StackOK, Sound
  <1>5. StackOK'
    BY <1>1, <1>2, <1>4 DEF StackOK
  <1>6. BlockOK'
    BY <1>2 DEF IInv, BlockOK, Launch, Generations
  <1> QED
    BY <1>5, <1>6 DEF IInv

LEMMA Signals == IInv /\ Signal => IInv'
  <1> SUFFICES ASSUME IInv, Signal PROVE IInv'
    OBVIOUS
  <1> USE DEF dashboard
  <1> DEFINE f == StopFrame(FALSE)
  <1>1. f \in Frame /\ f.pc = "lock"
    BY StopFrames
  <1>2. /\ StackOK /\ Running /\ stack' = Append(stack, f)
        /\ signals \in Nat /\ signals' = signals + 1 /\ signals' \in 0..MaxSignals
        /\ UNCHANGED <<stopping, served, run>>
    BY ControlPlaneAssumption DEF IInv, BlockOK, Signal
  <1> HIDE DEF f
  <1>3. /\ stack' \in Seq(Frame) /\ Len(stack') = Len(stack) + 1
        /\ Sound(stack', stopping, served)
    BY <1>1, <1>2, Pushed DEF StackOK
  <1>4. StackOK'
    BY <1>2, <1>3, TopTyped DEF StackOK
  <1>5. BlockOK'
    BY <1>2 DEF IInv, BlockOK, Signal
  <1> QED
    BY <1>4, <1>5 DEF IInv

\* The market and the dialog touch neither the stack nor the stops.
LEMMA Others == IInv /\ (CandleCloses \/ Click \/ Dialog) => IInv'
  <1> SUFFICES ASSUME IInv, CandleCloses \/ Click \/ Dialog PROVE IInv'
    OBVIOUS
  <1> USE DEF dashboard, backend
  <1>1. UNCHANGED <<stack, stopping, served, signals, run>>
    BY DEF CandleCloses, Click, Dialog, FallbackOpen, FallbackWrite
  <1>2. StackOK'
    BY <1>1 DEF IInv, StackOK, Sound, Running
  <1>3. BlockOK'
    <2>1. CASE CandleCloses
      BY <2>1 DEF IInv, BlockOK, CandleCloses
    <2>2. CASE Click
      <3>1. command' \in BOOLEAN
        BY <2>2 DEF IInv, BlockOK, Click
      <3>2. clicks' \in 0..MaxClicks
        BY <2>2, Bounds DEF IInv, BlockOK, Click
      <3> QED
        BY <2>2, <3>1, <3>2 DEF IInv, BlockOK, Click
    <2>3. CASE FallbackOpen
      BY <2>3 DEF IInv, BlockOK, FallbackOpen
    <2>4. CASE FallbackWrite
      BY <2>4 DEF IInv, BlockOK, FallbackWrite, Running
    <2> QED
      BY <2>1, <2>2, <2>3, <2>4 DEF Dialog
  <1> QED
    BY <1>2, <1>3 DEF IInv

-----------------------------------------------------------------------------

LEMMA Initially == Init => IInv
  <1> SUFFICES ASSUME Init PROVE IInv
    OBVIOUS
  <1>1. StackOK
    BY DEF Init, StackOK, Sound, Running
  <1>2. BlockOK
    <2>1. [g \in Generations |-> 0] \in [Generations -> {0, 1}]
      OBVIOUS
    <2> QED
      BY <2>1, Bounds DEF Init, BlockOK
  <1> QED
    BY <1>1, <1>2 DEF IInv

LEMMA Inductive == IInv /\ [Next]_vars => IInv'
  <1> SUFFICES ASSUME IInv, [Next]_vars PROVE IInv'
    OBVIOUS
  <1>1. CASE MainThread
    BY <1>1, PublishReads, PublishWrites, Starts, Turns, StopGoes, StopChecks,
       StopsParts,
       StopCloses, Ends DEF MainThread
  <1>2. CASE Launch \/ Crash \/ Signal
    BY <1>2, Launches, Ends, Signals
  <1>3. CASE CandleCloses \/ Click \/ Dialog
    BY <1>3, Others
  <1>4. CASE UNCHANGED vars
    BY <1>4 DEF vars, backend, dashboard, IInv, StackOK, BlockOK, Sound, Running
  <1> QED
    BY <1>1, <1>2, <1>3, <1>4 DEF Next

\* The invariant the theorems below are read off.
THEOREM Invariant == Spec => []IInv
  BY Initially, Inductive, PTL DEF Spec

\* The types; with them the bound on the depth of interrupted handlers.
THEOREM TypeCorrect == Spec => []TypeOK
<1>1. IInv => TypeOK
  <2> SUFFICES ASSUME IInv PROVE TypeOK
    OBVIOUS
  <2>1. Len(stack) <= MaxSignals + 2 /\ served \in Nat
    BY ControlPlaneAssumption DEF IInv, StackOK, BlockOK, Sound
  <2> QED
    BY <2>1 DEF IInv, StackOK, BlockOK, TypeOK
<1> QED
  BY <1>1, Invariant, PTL

\* stop(): for any number of signals, runs, clicks and crashes the components
\* of one process are stopped once.
THEOREM StoppedOnce == Spec => []StopsOnce
<1>1. IInv => StopsOnce
  BY DEF IInv, StackOK, Sound, StopsOnce
<1> QED
  BY <1>1, Invariant, PTL

-----------------------------------------------------------------------------
(* The watch over the heartbeat.                                           *)

\* A loop that comes by in time does so before two looks find it late.
Margin == Interval + Slack <= Threshold + 1

\* What a first stale look at a block that can be read says of it now.
StaleLookHolds ==
    IF looked
    THEN age[mapped] = 0 \/ age[mapped] > Threshold
    ELSE age[mapped] <= 1 \/ age[mapped] > Threshold + 1

\* The emergency was shown for what the reader goes by, and a heartbeat that
\* is late enough for it is too late for a loop that comes by in time.
Explained ==
    /\ AlarmIsExplained
    /\ emergency /\ "late" \in cause /\ Margin => cause \cap {"flag", "unserved"} # {}
    /\ emergency /\ "unread" \in cause => ~Parses

WatchIInv ==
    /\ W!TypeOK
    /\ mapped = 0 => stale = 0
    /\ stale = 2 => emergency
    /\ Parses /\ stale = 1 => StaleLookHolds
    /\ Explained

\* The periods, one by one.
LEMMA Periods ==
    /\ MaxStarts \in Nat /\ Threshold \in Nat /\ Interval \in Nat
    /\ Slack \in Nat /\ Reopen \in Nat
  BY HeartbeatAssumption

-----------------------------------------------------------------------------
(* Types.                                                                  *)

LEMMA WatchInitially == W!Init => WatchIInv
  <1> SUFFICES ASSUME W!Init PROVE WatchIInv
    OBVIOUS
  <1>1. W!TypeOK
    <2>1. age \in [W!Blocks -> 0..W!OldEnough] /\ watchFlag \in [W!Blocks -> BOOLEAN]
      BY HeartbeatAssumption DEF W!Init, W!OldEnough
    <2>2. 0 \in 0..MaxStarts /\ 0 \in 0..Reopen /\ 0 \in 0..2
      BY HeartbeatAssumption
    <2> QED
      BY <2>1, <2>2, Zenon DEF W!Init, W!TypeOK
  <1> QED
    BY <1>1 DEF W!Init, WatchIInv, Explained, AlarmIsExplained

\* Writing one heartbeat and one flag keeps the blocks well typed.
LEMMA BlocksTyped ==
    ASSUME W!TypeOK, NEW b \in W!Blocks, NEW f \in BOOLEAN
    PROVE  /\ [age EXCEPT ![b] = 0] \in [W!Blocks -> 0..W!OldEnough]
           /\ [watchFlag EXCEPT ![b] = f] \in [W!Blocks -> BOOLEAN]
  <1>1. 0 \in 0..W!OldEnough
    BY HeartbeatAssumption DEF W!OldEnough
  <1> QED
    BY <1>1, Zenon DEF W!TypeOK

\* A look keeps the reader well typed.
LEMMA LookTyped ==
    ASSUME W!TypeOK, NEW b \in W!Blocks, W!Look(b) \/ W!LookFails(b)
    PROVE  stale' \in 0..2 /\ emergency' \in BOOLEAN /\ cause' \subseteq W!Signs
  <1>1. stale' \in 0..2
    BY DEF W!Look, W!LookFails, W!StaleAfter, W!OneMore, W!TypeOK
  <1>2. watchFlag[b] \in BOOLEAN
    BY DEF W!TypeOK
  <1>3. emergency' \in BOOLEAN
    BY <1>2, Zenon DEF W!Look, W!LookFails, W!TypeOK
  <1>4. W!Trouble(b) \subseteq W!Signs
    BY DEF W!Trouble
  <1>5. cause' = cause \/ cause' = W!Trouble(b)
    BY Zenon DEF W!Look, W!LookFails, W!Explain
  <1>6. cause' \subseteq W!Signs
    BY <1>4, <1>5, Zenon DEF W!TypeOK
  <1> QED
    BY <1>1, <1>3, <1>6

LEMMA WatchTypeStep == ASSUME W!TypeOK, [W!Next]_(W!vars) PROVE W!TypeOK'
  <1> USE HeartbeatAssumption DEF W!Blocks, W!OldEnough
  <1>1. CASE W!Start
    <2>1. watchNamed' \in 0..MaxStarts /\ watchNamed' \in W!Blocks /\ watchRun' \in 0..MaxStarts
      BY <1>1 DEF W!Start, W!TypeOK
    <2>2. watchOwns' \in BOOLEAN
      BY <1>1 DEF W!Start
    <2>3. age' = [age EXCEPT ![watchNamed'] = 0] /\ watchHandle' = watchNamed'
      BY <1>1 DEF W!Start
    <2>4. age' \in [W!Blocks -> 0..W!OldEnough]
      BY <2>1, <2>3, BlocksTyped
    <2> QED
      BY <1>1, <2>1, <2>2, <2>3, <2>4, Zenon DEF W!Start, W!reader, W!TypeOK
  <1>2. CASE W!Publish
    <2>1. watchHandle \in W!Blocks \/ age' = age
      BY <1>2 DEF W!Publish, W!TypeOK
    <2> QED
      BY <1>2, <2>1, BlocksTyped, Zenon DEF W!Publish, W!reader, W!TypeOK
  <1>3. CASE W!GetStuck
    BY <1>3 DEF W!GetStuck, W!reader, W!TypeOK
  <1>4. CASE W!GoOn
    BY <1>4 DEF W!GoOn, W!reader, W!TypeOK
  <1>5. CASE W!Raise
    <2>1. watchNamed \in W!Blocks
      BY <1>5 DEF W!Raise, W!TypeOK
    <2>2. age' \in [W!Blocks -> 0..W!OldEnough] /\ watchFlag' \in [W!Blocks -> BOOLEAN]
      BY <1>5, <2>1, BlocksTyped DEF W!Raise
    <2> QED
      BY <1>5, <2>2, Zenon DEF W!Raise, W!reader, W!TypeOK
  <1>6. CASE W!End
    <2>1. watchNamed' \in 0..MaxStarts
      BY <1>6 DEF W!End, W!TypeOK
    <2>2. age' \in [W!Blocks -> 0..W!OldEnough] /\ watchFlag' \in [W!Blocks -> BOOLEAN]
      BY <1>6, BlocksTyped DEF W!End, W!TypeOK
    <2> QED
      BY <1>6, <2>1, <2>2, Zenon DEF W!End, W!reader, W!TypeOK
  <1>7. CASE W!Crash
    BY <1>7 DEF W!Crash, W!reader, W!TypeOK
  <1>8. CASE W!Check
    <2>1. UNCHANGED W!backend /\ looked' \in BOOLEAN
      BY <1>8 DEF W!Check, W!TypeOK
    <2>2. CASE /\ mapped # 0 /\ UNCHANGED <<mapped, waited>>
               /\ W!Look(mapped) \/ W!LookFails(mapped)
      BY <2>1, <2>2, LookTyped DEF W!backend, W!TypeOK
    <2>3. CASE W!TryOpen /\ mapped' = 0 /\ UNCHANGED <<stale, emergency, cause>>
      BY <2>1, <2>3 DEF W!TryOpen, W!backend, W!TypeOK
    <2>4. CASE W!TryOpen /\ mapped' # 0 /\ (W!Look(mapped') \/ W!LookFails(mapped'))
      <3>1. mapped' \in 1..MaxStarts /\ waited' = 0
        BY <2>4 DEF W!TryOpen, W!TypeOK
      <3> QED
        BY <2>1, <2>4, <3>1, LookTyped DEF W!backend, W!TypeOK
    <2>5. CASE UNCHANGED <<mapped, waited, stale, emergency, cause>>
      BY <2>1, <2>5 DEF W!backend, W!TypeOK
    <2> QED
      BY <1>8, <2>2, <2>3, <2>4, <2>5 DEF W!Check
  <1>9. CASE W!Tick
    <2>1. \A b \in 1..MaxStarts : W!Older(age[b], Threshold + Interval + Slack + 1)
                                    \in 0..(Threshold + Interval + Slack + 1)
      BY Periods DEF W!Older, W!TypeOK
    <2>2. W!Older(waited, Reopen) \in 0..Reopen
      BY DEF W!Older, W!TypeOK
    <2> QED
      BY <1>9, <2>1, <2>2 DEF W!Tick, W!TypeOK
  <1>10. CASE UNCHANGED W!vars
    BY <1>10 DEF W!vars, W!backend, W!reader, W!TypeOK
  <1> QED
    BY <1>1, <1>2, <1>3, <1>4, <1>5, <1>6, <1>7, <1>8, <1>9, <1>10 DEF W!Next

-----------------------------------------------------------------------------
(* The alarm.                                                              *)

\* The sign of trouble is found among those of the block.
LEMMA TroubleHas ==
    ASSUME NEW b
    PROVE  /\ watchFlag[b] => "flag" \in W!Trouble(b)
           /\ "late" \in W!Trouble(b) <=> age[b] > Threshold + 1
           /\ W!Silent(b) => "unserved" \in W!Trouble(b)
           /\ "unread" \in W!Trouble(b) <=> ~Parses
  BY DEF W!Trouble, W!Signs, W!Parses, Parses, W!MappedBytes, MappedBytes, W!BlockBytes,
         BlockBytes, W!MinBlockBytes, MinBlockBytes

\* An emergency that is shown at a look explains itself, if the look had one
\* of the reasons to.
LEMMA ShownIsExplained ==
    ASSUME WatchIInv, NEW b \in W!Blocks, W!Explain(b),
           emergency => emergency',
           emergency' /\ ~emergency => watchFlag[b] \/ age[b] > Threshold + 1 \/ ~Parses
    PROVE  Explained'
  <1> USE HeartbeatAssumption
  <1>1. CASE emergency \/ ~emergency'
    <2>1. cause' = cause
      BY <1>1 DEF W!Explain
    <2> QED
      BY <1>1, <2>1 DEF WatchIInv, Explained, AlarmIsExplained
  <1>2. CASE ~emergency /\ emergency'
    <2>1. cause' = W!Trouble(b)
      BY <1>2 DEF W!Explain
    <2>2. AlarmIsExplained'
      BY <1>2, <2>1, TroubleHas DEF AlarmIsExplained
    <2>3. ASSUME "late" \in cause', Margin PROVE "unserved" \in cause'
      <3>1. age[b] > Threshold + 1
        BY <2>1, <2>3, TroubleHas
      <3>2. W!Silent(b)
        BY <2>3, <3>1, Periods DEF W!Silent, Margin, WatchIInv, W!TypeOK, W!Blocks
      <3> QED
        BY <2>1, <3>2, TroubleHas
    <2>4. "unread" \in cause' => ~Parses
      BY <2>1, TroubleHas
    <2> QED
      BY <2>2, <2>3, <2>4 DEF Explained
  <1> QED
    BY <1>1, <1>2

\* A look at the mapped block, or at one that was just opened, keeps what the
\* alarm rests on.
LEMMA LookKeeps ==
    ASSUME WatchIInv, NEW b \in W!Blocks, W!Look(b), UNCHANGED W!backend,
           ~looked, looked', mapped' = b, b = mapped \/ stale = 0
    PROVE  /\ stale' = 2 => emergency'
           /\ (Parses /\ stale = 1 => StaleLookHolds)'
           /\ Explained'
  <1> USE HeartbeatAssumption
  <1>1. stale' = 2 => emergency'
    BY DEF W!Look
  <1>2. Parses
    BY DEF W!Look, W!Parses, Parses, W!MappedBytes, MappedBytes, W!BlockBytes,
           BlockBytes, W!MinBlockBytes, MinBlockBytes
  <1>3. (stale = 1 => StaleLookHolds)'
    BY DEF W!Look, W!StaleAfter, W!OneMore, W!IsStale, StaleLookHolds, W!backend,
           WatchIInv, W!TypeOK, W!Blocks
  <1>4. ASSUME emergency', ~emergency, ~watchFlag[b] PROVE age[b] > Threshold + 1
    <2>1. stale' = 2 /\ stale # 2
      BY <1>4 DEF W!Look, WatchIInv
    <2>2. stale = 1 /\ age[b] > Threshold
      BY <2>1 DEF W!Look, W!StaleAfter, W!OneMore, W!IsStale, WatchIInv, W!TypeOK
    <2> QED
      BY <1>2, <2>2, SMTT(30) DEF WatchIInv, W!TypeOK, StaleLookHolds, W!Blocks
  <1>5. Explained'
    <2>1. W!Explain(b) /\ (emergency => emergency')
      BY DEF W!Look
    <2> QED
      BY <1>4, <2>1, ShownIsExplained
  <1> QED
    BY <1>1, <1>3, <1>5

\* A look at a block that cannot be read explains what it shows by that.
LEMMA FailureKeeps ==
    ASSUME WatchIInv, NEW b \in W!Blocks, W!LookFails(b)
    PROVE  /\ stale' = 2 => emergency'
           /\ (Parses /\ stale = 1 => StaleLookHolds)'
           /\ Explained'
  <1>1. ~Parses
    BY DEF W!LookFails, W!Parses, Parses, W!MappedBytes, MappedBytes, W!BlockBytes,
           BlockBytes, W!MinBlockBytes, MinBlockBytes
  <1>2. W!Explain(b) /\ (emergency => emergency') /\ (stale' = 2 => emergency')
    BY DEF W!LookFails
  <1>3. Explained'
    BY <1>1, <1>2, ShownIsExplained
  <1> QED
    BY <1>1, <1>2, <1>3

LEMMA WatchInductive == ASSUME WatchIInv, [W!Next]_(W!vars) PROVE WatchIInv'
  <1> USE HeartbeatAssumption
  <1>1. W!TypeOK'
    BY WatchTypeStep DEF WatchIInv
  <1> DEFINE Rest == /\ mapped = 0 => stale = 0
                     /\ stale = 2 => emergency
                     /\ Parses /\ stale = 1 => StaleLookHolds
                     /\ Explained
  <1>2. Rest'
    <2>1. ASSUME UNCHANGED W!reader, age' = age
          PROVE  Rest'
      BY <2>1 DEF WatchIInv, StaleLookHolds, W!reader, Explained, AlarmIsExplained
    <2>2. ASSUME NEW b \in W!Blocks, UNCHANGED W!reader, age' = [age EXCEPT ![b] = 0]
          PROVE  Rest'
      <3>1. Explained'
        BY <2>2 DEF WatchIInv, W!reader, Explained, AlarmIsExplained
      <3>2. (stale = 1 /\ Parses => StaleLookHolds)'
        BY <2>2 DEF WatchIInv, StaleLookHolds, W!reader, W!TypeOK, W!Blocks, W!OldEnough
      <3> QED
        BY <2>2, <3>1, <3>2 DEF WatchIInv, W!reader
    <2>3. CASE W!Start
      <3>1. watchNamed' \in W!Blocks
        BY <2>3 DEF W!Start, WatchIInv, W!TypeOK, W!Blocks
      <3> QED
        BY <2>2, <2>3, <3>1 DEF W!Start
    <2>4. CASE W!Publish
      <3>1. watchHandle \in W!Blocks \/ age' = age
        BY <2>4 DEF W!Publish, WatchIInv, W!TypeOK, W!Blocks
      <3> QED
        BY <2>4, <3>1, <2>2, <2>1 DEF W!Publish
    <2>5. CASE W!GetStuck \/ W!GoOn \/ W!Crash
      BY <2>5, <2>1 DEF W!GetStuck, W!GoOn, W!Crash
    <2>6. CASE W!Raise
      <3>1. watchNamed \in W!Blocks
        BY <2>6 DEF W!Raise, WatchIInv, W!TypeOK, W!Blocks
      <3> QED
        BY <2>6, <3>1, <2>2 DEF W!Raise
    <2>7. CASE W!End
      BY <2>7, <2>2, <2>1 DEF W!End, WatchIInv, W!TypeOK, W!Blocks
    <2>8. CASE W!Check
      <3>1. UNCHANGED W!backend /\ ~looked /\ looked'
        BY <2>8 DEF W!Check
      <3>2. CASE /\ mapped # 0 /\ UNCHANGED <<mapped, waited>>
                 /\ W!Look(mapped) \/ W!LookFails(mapped)
        BY <3>1, <3>2, LookKeeps, FailureKeeps DEF WatchIInv, W!TypeOK, W!Blocks
      <3>3. CASE W!TryOpen /\ mapped' = 0 /\ UNCHANGED <<stale, emergency, cause>>
        BY <3>3 DEF W!TryOpen, WatchIInv, Explained, AlarmIsExplained
      <3>4. CASE W!TryOpen /\ mapped' # 0 /\ (W!Look(mapped') \/ W!LookFails(mapped'))
        <4>1. mapped' \in W!Blocks /\ stale = 0
          BY <3>4 DEF W!TryOpen, WatchIInv, W!TypeOK, W!Blocks
        <4> QED
          BY <3>1, <3>4, <4>1, LookKeeps, FailureKeeps
      <3>5. CASE /\ mapped = 0 /\ waited < Reopen
                 /\ UNCHANGED <<mapped, waited, stale, emergency, cause>>
        BY <3>5 DEF WatchIInv, Explained, AlarmIsExplained
      <3> QED
        BY <2>8, <3>2, <3>3, <3>4, <3>5 DEF W!Check
    <2>9. CASE W!Tick
      <3>1. looked /\ ~looked'
        BY <2>9 DEF W!Tick
      <3>2. (stale = 1 /\ Parses => StaleLookHolds)'
        BY <2>9, <3>1, Periods DEF W!Tick, W!Older, WatchIInv, StaleLookHolds,
                                   W!TypeOK, W!Blocks, W!OldEnough
      <3> QED
        BY <2>9, <3>2 DEF W!Tick, WatchIInv, Explained, AlarmIsExplained
    <2>10. CASE UNCHANGED W!vars
      BY <2>10, <2>1 DEF W!vars, W!backend
    <2> QED
      BY <2>3, <2>4, <2>5, <2>6, <2>7, <2>8, <2>9, <2>10 DEF W!Next
  <1> QED
    BY <1>1, <1>2 DEF WatchIInv

-----------------------------------------------------------------------------
LEMMA WatchInvariant == W!Spec => []WatchIInv
  <1>1. WatchIInv /\ [W!Next]_(W!vars) => WatchIInv'
    BY WatchInductive
  <1> QED
    BY <1>1, WatchInitially, PTL DEF W!Spec

(***************************************************************************)
(* shared_memory_kill_switch.py check(): an emergency is shown only for a  *)
(* raised flag, a block that cannot be read, or a heartbeat that is a      *)
(* whole period of the timer older than the threshold; for all periods,    *)
(* sizes of a mapping, crashes, restarts and hold-ups of the backend.      *)
(***************************************************************************)
THEOREM AlarmExplained == W!Spec => []AlarmIsExplained
  <1>1. WatchIInv => AlarmIsExplained
    BY DEF WatchIInv, Explained
  <1> QED
    BY <1>1, WatchInvariant, PTL

(***************************************************************************)
(* What would have to be different for AlarmIsFounded: blocks that can be  *)
(* read, and a heartbeat that is due before two looks find it late.        *)
(***************************************************************************)
COROLLARY AlarmFounded == Parses /\ Margin => (W!Spec => []AlarmIsFounded)
  <1> SUFFICES ASSUME Parses, Margin PROVE W!Spec => []AlarmIsFounded
    OBVIOUS
  <1>1. WatchIInv => AlarmIsFounded
    BY DEF WatchIInv, Explained, AlarmIsExplained, AlarmIsFounded
  <1> QED
    BY <1>1, WatchInvariant, PTL
-----------------------------------------------------------------------------
(* The stream of snapshots.                                                *)

\* The types, whatever the bounds are.
Snapshot == [run : Nat, kind : Kinds, seq : Nat, ts : {0, 1}]
Unit == [part : {"length", "frame"}, frame : Snapshot]

StreamTyped ==
    /\ streamRun \in Nat /\ clock \in {0, 1}
    /\ seq \in [Kinds -> Nat]
    /\ wire \in Seq(Unit)
    /\ lastSeq \in [Kinds -> Nat \cup {-1}] /\ lastTs \in [Kinds -> {-1, 0, 1}]
    /\ shown \in [Kinds -> Snapshot \cup {S!Nothing}]

\* What is written to, and what waits for a new connection.
Attached ==
    /\ conn = "open" => up
    /\ attached => conn = "open"
    /\ pc = "connect" => conn # "open" /\ wire = <<>>

\* What is on the way was sent by one run, none beyond its count, and the
\* frames of a kind in the order of their numbers.
SentBy(w, r, counts) ==
    \A i \in DOMAIN w : w[i].frame.run = r /\ w[i].frame.seq <= counts[w[i].frame.kind]
InOneRun(w) == \A i, j \in DOMAIN w : w[i].frame.run = w[j].frame.run
Rising(w) ==
    \A i, j \in DOMAIN w :
        i < j /\ w[i].part = "frame" /\ w[i].frame.kind = w[j].frame.kind
            => w[i].frame.seq < w[j].frame.seq

Lined ==
    /\ conn = "open" => SentBy(wire, streamRun, seq)
    /\ InOneRun(wire) /\ Rising(wire)

StreamIInv == StreamTyped /\ Attached /\ Lined

LEMMA UnitFields ==
    ASSUME NEW u \in Unit
    PROVE  /\ u.part \in {"length", "frame"} /\ u.frame \in Snapshot
           /\ u.frame.run \in Nat /\ u.frame.kind \in Kinds /\ u.frame.seq \in Nat
           /\ u.frame.ts \in {0, 1}
  BY DEF Unit, Snapshot

\* The head is read.
LEMMA TailKeeps ==
    ASSUME NEW w \in Seq(Unit), w # <<>>
    PROVE  /\ Tail(w) \in Seq(Unit) /\ Len(Tail(w)) = Len(w) - 1 /\ Len(w) \in Nat
           /\ Head(w) = w[1] /\ w[1] \in Unit /\ 1 \in DOMAIN w
           /\ \A i \in DOMAIN Tail(w) : i + 1 \in DOMAIN w /\ Tail(w)[i] = w[i + 1]
           /\ \A r, counts : SentBy(w, r, counts) => SentBy(Tail(w), r, counts)
           /\ InOneRun(w) => InOneRun(Tail(w))
           /\ Rising(w) => Rising(Tail(w))
  <1> DEFINE t == Tail(w)
  <1>1. /\ t \in Seq(Unit) /\ Len(t) = Len(w) - 1 /\ Len(w) \in Nat /\ Len(w) > 0
        /\ Head(w) = w[1] /\ DOMAIN w = 1..Len(w) /\ DOMAIN t = 1..Len(t)
        /\ \A i \in 1..Len(t) : t[i] = w[i + 1]
    OBVIOUS
  <1>2. 1 \in DOMAIN w /\ w[1] \in Unit
    BY <1>1
  <1> HIDE DEF t
  <1>3. \A i \in DOMAIN t : i + 1 \in DOMAIN w /\ t[i] = w[i + 1]
    BY <1>1
  <1>4. \A r, counts : SentBy(w, r, counts) => SentBy(t, r, counts)
    BY <1>3 DEF SentBy
  <1>5. InOneRun(w) => InOneRun(t)
    BY <1>3 DEF InOneRun
  <1>6. Rising(w) => Rising(t)
    <2> SUFFICES ASSUME Rising(w), NEW i \in DOMAIN t, NEW j \in DOMAIN t, i < j,
                        t[i].part = "frame", t[i].frame.kind = t[j].frame.kind
                 PROVE  t[i].frame.seq < t[j].frame.seq
      BY DEF Rising
    <2>1. i + 1 < j + 1 /\ i + 1 \in DOMAIN w /\ j + 1 \in DOMAIN w
      BY <1>1, <1>3
    <2> QED
      BY <1>3, <2>1 DEF Rising
  <1> QED
    BY <1>1, <1>2, <1>3, <1>4, <1>5, <1>6 DEF t

\* One unit more, of a frame that no frame of its kind is behind.
LEMMA AppendKeeps ==
    ASSUME NEW w \in Seq(Unit), NEW u \in Unit, NEW r \in Nat, NEW counts \in [Kinds -> Nat],
           SentBy(w, r, counts), InOneRun(w), Rising(w),
           u.frame.run = r, u.frame.seq <= counts[u.frame.kind],
           \A i \in DOMAIN w : w[i].part = "frame" /\ w[i].frame.kind = u.frame.kind
                                  => w[i].frame.seq < u.frame.seq
    PROVE  /\ Append(w, u) \in Seq(Unit) /\ Len(Append(w, u)) = Len(w) + 1
           /\ \A i \in DOMAIN w : i \in DOMAIN Append(w, u) /\ Append(w, u)[i] = w[i]
           /\ \A i \in DOMAIN Append(w, u) : i \in DOMAIN w \/ Append(w, u)[i] = u
           /\ SentBy(Append(w, u), r, counts) /\ InOneRun(Append(w, u)) /\ Rising(Append(w, u))
  <1> DEFINE n == Append(w, u)
  <1>1. /\ n \in Seq(Unit) /\ Len(n) = Len(w) + 1 /\ Len(w) \in Nat
        /\ DOMAIN n = 1..Len(w) + 1 /\ DOMAIN w = 1..Len(w)
        /\ n[Len(w) + 1] = u /\ \A i \in 1..Len(w) : n[i] = w[i]
    OBVIOUS
  <1> HIDE DEF n
  <1>2. /\ \A i \in DOMAIN w : i \in DOMAIN n /\ n[i] = w[i]
        /\ \A i \in DOMAIN n : i \in DOMAIN w \/ i = Len(w) + 1
    BY <1>1
  <1>3. SentBy(n, r, counts)
    BY <1>1, <1>2 DEF SentBy
  <1>4. InOneRun(n)
    BY <1>3 DEF SentBy, InOneRun
  <1>5. Rising(n)
    <2> SUFFICES ASSUME NEW i \in DOMAIN n, NEW j \in DOMAIN n, i < j,
                        n[i].part = "frame", n[i].frame.kind = n[j].frame.kind
                 PROVE  n[i].frame.seq < n[j].frame.seq
      BY DEF Rising
    <2>1. i \in DOMAIN w
      BY <1>1
    <2>2. CASE j \in DOMAIN w
      BY <1>2, <2>1, <2>2 DEF Rising
    <2>3. CASE j = Len(w) + 1
      <3>1. n[j] = u /\ n[i] = w[i]
        BY <1>1, <1>2, <2>1, <2>3
      <3> QED
        BY <2>1, <3>1
    <2> QED
      BY <1>2, <2>2, <2>3
  <1> QED
    BY <1>1, <1>2, <1>3, <1>4, <1>5 DEF n

\* What a publication leaves on the way: what was there, and what is behind it.
Longer(w, n) ==
    /\ Len(w) <= Len(n)
    /\ \A i \in DOMAIN w : i \in DOMAIN n /\ n[i] = w[i]

LEMMA PublishLines ==
    ASSUME StreamIInv, NEW k \in Kinds, S!Publish(k)
    PROVE  StreamIInv' /\ Longer(wire, wire') /\ wire' \in Seq(Unit)
  <1>1. /\ up /\ seq' = [seq EXCEPT ![k] = @ + 1]
        /\ streamRun' = streamRun /\ up' = up /\ clock' = clock /\ pc' = pc
        /\ lastSeq' = lastSeq /\ lastTs' = lastTs /\ shown' = shown
    BY DEF S!Publish, S!bus
  <1>2. /\ streamRun \in Nat /\ clock \in {0, 1} /\ seq \in [Kinds -> Nat] /\ wire \in Seq(Unit)
        /\ lastSeq \in [Kinds -> Nat \cup {-1}] /\ lastTs \in [Kinds -> {-1, 0, 1}]
        /\ shown \in [Kinds -> Snapshot \cup {S!Nothing}]
    BY DEF StreamIInv, StreamTyped
  <1>3. /\ seq' \in [Kinds -> Nat] /\ seq'[k] = seq[k] + 1
        /\ \A i \in Kinds : seq[i] <= seq'[i]
    BY <1>1, <1>2
  <1>4. Attached /\ InOneRun(wire) /\ Rising(wire)
    BY DEF StreamIInv, Lined
  <1>5. Longer(wire, wire)
    BY <1>2 DEF Longer
  <1>6. ASSUME conn = "open" PROVE SentBy(wire, streamRun, seq')
    <2>1. \A i \in DOMAIN wire : /\ wire[i] \in Unit /\ wire[i].frame.run = streamRun
                                 /\ wire[i].frame.seq <= seq[wire[i].frame.kind]
      BY <1>2, <1>6 DEF StreamIInv, Lined, SentBy
    <2>2. ASSUME NEW i \in DOMAIN wire PROVE wire[i].frame.seq <= seq'[wire[i].frame.kind]
      <3>1. /\ wire[i].frame.kind \in Kinds /\ wire[i].frame.seq \in Nat
            /\ wire[i].frame.seq <= seq[wire[i].frame.kind]
        BY <2>1, UnitFields
      <3> QED
        BY <1>2, <1>3, <3>1
    <2> QED
      BY <2>1, <2>2 DEF SentBy
  <1> DEFINE f == [run |-> streamRun, kind |-> k, seq |-> seq'[k], ts |-> clock]
             head == [part |-> "length", frame |-> f]
             body == [part |-> "frame", frame |-> f]
  <1>7. f \in Snapshot /\ head \in Unit /\ body \in Unit
    BY <1>2, <1>3 DEF Snapshot, Unit
  <1>8. head.frame = f /\ body.frame = f /\ head.part = "length" /\ body.part = "frame"
        /\ f.run = streamRun /\ f.kind = k /\ f.seq = seq'[k]
    OBVIOUS
  <1>9. CASE attached
    <2>1. conn = "open"
      BY <1>4, <1>9 DEF Attached
    <2>2. S!SendTo(f)
      BY <1>9 DEF S!Publish
    <2>3. S!Packet(f) = <<head, body>> /\ S!Packet(f)[1] = head
      BY DEF S!Packet
    <2> HIDE DEF f, head, body
    \* Every frame on the way is behind this one.
    <2>4. \A i \in DOMAIN wire : wire[i].frame.kind = k => wire[i].frame.seq < f.seq
      <3>1. \A i \in DOMAIN wire : /\ wire[i] \in Unit
                                   /\ wire[i].frame.seq <= seq[wire[i].frame.kind]
        BY <1>2, <2>1 DEF StreamIInv, Lined, SentBy
      <3>2. ASSUME NEW i \in DOMAIN wire, wire[i].frame.kind = k
            PROVE  wire[i].frame.seq < f.seq
        <4>1. wire[i].frame.seq \in Nat /\ wire[i].frame.seq <= seq[k] /\ seq[k] \in Nat
          BY <1>2, <3>1, <3>2, UnitFields
        <4> QED
          BY <1>3, <1>8, <4>1
      <3> QED
        BY <3>2
    <2>5. SentBy(wire, streamRun, seq')
      BY <1>6, <2>1
    <2>6. f.seq <= seq'[k]
      BY <1>3, <1>8
    \* With the length of the packet, and with the whole of it.
    <2> DEFINE cut == Append(wire, head)
               whole == Append(cut, body)
    <2>7. /\ cut \in Seq(Unit) /\ Len(cut) = Len(wire) + 1
          /\ \A i \in DOMAIN wire : i \in DOMAIN cut /\ cut[i] = wire[i]
          /\ \A i \in DOMAIN cut : i \in DOMAIN wire \/ cut[i] = head
          /\ SentBy(cut, streamRun, seq') /\ InOneRun(cut) /\ Rising(cut)
      BY <1>2, <1>3, <1>4, <1>7, <1>8, <2>4, <2>5, <2>6, AppendKeeps
    <2>8. \A i \in DOMAIN cut : cut[i].part = "frame" /\ cut[i].frame.kind = k
                                   => cut[i].frame.seq < f.seq
      BY <1>8, <2>4, <2>7
    <2>9. wire \o S!Packet(f) = whole
      BY <1>2, <1>7, <2>3
    <2> HIDE DEF cut
    <2>10. /\ whole \in Seq(Unit) /\ Len(whole) = Len(cut) + 1
           /\ \A i \in DOMAIN cut : i \in DOMAIN whole /\ whole[i] = cut[i]
           /\ SentBy(whole, streamRun, seq') /\ InOneRun(whole) /\ Rising(whole)
      BY <1>2, <1>3, <1>7, <1>8, <2>6, <2>7, <2>8, AppendKeeps, ZenonT(30)
    <2>11. Len(wire) \in Nat
      BY <1>2
    <2>12. Longer(wire, cut)
      BY <2>7, <2>11 DEF Longer
    <2>13. Longer(wire, whole)
      BY <2>7, <2>10, <2>11 DEF Longer
    <2> HIDE DEF whole
    <2>14. CASE wire' = whole /\ conn' = conn /\ attached' = attached
      <3>1. StreamTyped'
        BY <1>1, <1>2, <1>3, <2>10, <2>14 DEF StreamTyped
      <3>2. pc # "connect"
        BY <1>4, <2>1 DEF Attached
      <3>3. Attached'
        BY <1>1, <1>4, <2>1, <2>14, <3>2 DEF Attached
      <3>4. Lined'
        BY <1>1, <2>10, <2>14 DEF Lined
      <3> QED
        BY <2>10, <2>13, <2>14, <3>1, <3>3, <3>4 DEF StreamIInv
    <2>15. CASE wire' \in {wire, cut} /\ conn' = "closed" /\ ~attached'
      <3>1. wire' \in Seq(Unit) /\ InOneRun(wire') /\ Rising(wire') /\ Longer(wire, wire')
        BY <1>2, <1>4, <1>5, <2>7, <2>12, <2>15
      <3>2. StreamTyped'
        BY <1>1, <1>2, <1>3, <3>1 DEF StreamTyped
      <3>3. pc # "connect"
        BY <1>4, <2>1 DEF Attached
      <3>4. Attached'
        BY <1>1, <2>15, <3>3 DEF Attached
      <3>5. Lined'
        BY <2>15, <3>1 DEF Lined
      <3> QED
        BY <3>1, <3>2, <3>4, <3>5 DEF StreamIInv
    <2> QED
      BY <2>2, <2>3, <2>9, <2>14, <2>15 DEF S!SendTo, cut
  <1>10. CASE ~attached
    <2>1. conn' = conn /\ attached' = attached /\ wire' = wire
      BY <1>10 DEF S!Publish
    <2>2. StreamTyped' /\ Attached'
      BY <1>1, <1>2, <1>3, <1>4, <2>1 DEF StreamTyped, Attached
    <2>3. Lined'
      BY <1>1, <1>4, <1>6, <2>1 DEF Lined
    <2> QED
      BY <1>2, <1>5, <2>1, <2>2, <2>3 DEF StreamIInv
  <1> QED
    BY <1>9, <1>10

\* What the bus is fed it keeps well typed.
LEMMA FeedTyped ==
    ASSUME StreamTyped, NEW f \in Snapshot, S!Feed(f)
    PROVE  /\ lastSeq' \in [Kinds -> Nat \cup {-1}] /\ lastTs' \in [Kinds -> {-1, 0, 1}]
           /\ shown' \in [Kinds -> Snapshot \cup {S!Nothing}]
  <1>1. f.kind \in Kinds /\ f.seq \in Nat /\ f.ts \in {0, 1}
    BY DEF Snapshot
  <1> QED
    BY <1>1, ZenonT(30) DEF S!Feed, S!bus, StreamTyped

\* The client reads a unit.
LEMMA ReadLines ==
    ASSUME StreamIInv, wire # <<>>, wire' = Tail(wire), pc # "connect", pc' # "connect",
           UNCHANGED <<streamRun, up, seq, clock, conn, attached>>,
           \/ UNCHANGED <<lastSeq, lastTs, shown>>
           \/ S!Feed(Head(wire).frame)
    PROVE  StreamIInv'
  <1>1. wire \in Seq(Unit)
    BY DEF StreamIInv, StreamTyped
  <1>2. /\ wire' \in Seq(Unit) /\ Head(wire).frame \in Snapshot
        /\ \A r, counts : SentBy(wire, r, counts) => SentBy(wire', r, counts)
        /\ InOneRun(wire) => InOneRun(wire')
        /\ Rising(wire) => Rising(wire')
    BY <1>1, TailKeeps, UnitFields
  <1>3. /\ lastSeq' \in [Kinds -> Nat \cup {-1}] /\ lastTs' \in [Kinds -> {-1, 0, 1}]
        /\ shown' \in [Kinds -> Snapshot \cup {S!Nothing}]
    BY <1>2, FeedTyped DEF StreamIInv, StreamTyped
  <1>4. StreamTyped'
    BY <1>2, <1>3 DEF StreamIInv, StreamTyped
  <1>5. Attached'
    BY DEF StreamIInv, Attached
  <1>6. Lined'
    BY <1>2 DEF StreamIInv, Lined
  <1> QED
    BY <1>4, <1>5, <1>6 DEF StreamIInv

LEMMA EmptyLine ==
    /\ <<>> \in Seq(Unit) /\ InOneRun(<<>>) /\ Rising(<<>>)
    /\ \A r, counts : SentBy(<<>>, r, counts)
  BY DEF InOneRun, Rising, SentBy

LEMMA StreamInitially == S!Init => StreamIInv
  BY EmptyLine DEF S!Init, StreamIInv, StreamTyped, Attached, Lined

LEMMA StreamInductive == StreamIInv /\ [S!Next]_(S!vars) => StreamIInv'
  <1> SUFFICES ASSUME StreamIInv, [S!Next]_(S!vars) PROVE StreamIInv'
    OBVIOUS
  <1> USE DEF StreamIInv, StreamTyped, Attached, Lined
  <1>1. CASE S!Start
    BY <1>1 DEF S!Start, S!bus
  <1>2. CASE S!End
    BY <1>2 DEF S!End, S!bus
  <1>3. CASE S!PutClockBack
    BY <1>3 DEF S!PutClockBack, S!bus
  <1>4. CASE S!CatchUp
    BY <1>4 DEF S!CatchUp, S!bus
  <1>5. CASE S!Accept
    BY <1>5 DEF S!Accept, S!bus, S!server
  <1>6. ASSUME NEW k \in Kinds, S!Publish(k) PROVE StreamIInv'
    <2> HIDE DEF StreamIInv
    <2> QED
      BY <1>6, PublishLines
  <1>7. CASE S!Connect
    BY <1>7, EmptyLine DEF S!Connect, S!bus, S!server
  <1>8. CASE S!ReadLength
    <2>1. /\ wire # <<>> /\ wire' = Tail(wire) /\ pc # "connect" /\ pc' # "connect"
          /\ UNCHANGED <<streamRun, up, seq, clock, conn, attached, lastSeq, lastTs, shown>>
      BY <1>8 DEF S!ReadLength, S!Reading, S!bus, S!server
    <2> HIDE DEF StreamIInv
    <2> QED
      BY <2>1, ReadLines
  <1>9. CASE S!ReadFrame
    <2>1. /\ wire # <<>> /\ wire' = Tail(wire) /\ pc # "connect" /\ pc' # "connect"
          /\ UNCHANGED <<streamRun, up, seq, clock, conn, attached>>
          /\ S!Feed(Head(wire).frame)
      BY <1>9 DEF S!ReadFrame, S!Reading, S!server
    <2> HIDE DEF StreamIInv
    <2> QED
      BY <2>1, ReadLines
  <1>10. CASE S!ReadEnd
    BY <1>10 DEF S!ReadEnd, S!bus, S!server
  <1>11. CASE S!Pause
    BY <1>11 DEF S!Pause, S!Reading, S!bus, S!server
  <1>12. CASE S!ReadLost
    <2>1. /\ pc = "lost" /\ wire # <<>>
          /\ UNCHANGED <<streamRun, up, seq, clock>>
          /\ \/ UNCHANGED <<lastSeq, lastTs, shown>>
             \/ S!Feed(Head(wire).frame)
      BY <1>12 DEF S!ReadLost, S!server
    <2>2. \/ wire' = Tail(wire) /\ pc' # "connect" /\ conn' = conn /\ attached' = attached
          \/ pc' = "connect" /\ conn' = "none" /\ ~attached' /\ wire' = <<>>
      BY <1>12 DEF S!ReadLost
    <2>3. CASE wire' = Tail(wire) /\ pc' # "connect" /\ conn' = conn /\ attached' = attached
      <3> HIDE DEF StreamIInv
      <3> QED
        BY <2>1, <2>3, ReadLines
    <2>4. CASE pc' = "connect" /\ conn' = "none" /\ ~attached' /\ wire' = <<>>
      <3>1. Head(wire).frame \in Snapshot
        BY <2>1, TailKeeps, UnitFields
      <3>2. /\ lastSeq' \in [Kinds -> Nat \cup {-1}] /\ lastTs' \in [Kinds -> {-1, 0, 1}]
            /\ shown' \in [Kinds -> Snapshot \cup {S!Nothing}]
        BY <2>1, <3>1, FeedTyped
      <3> QED
        BY <2>1, <2>4, <3>2, EmptyLine
    <2> QED
      BY <2>2, <2>3, <2>4
  <1>13. CASE UNCHANGED S!vars
    BY <1>13 DEF S!vars, S!bus, S!server
  <1> QED
    BY <1>1, <1>2, <1>3, <1>4, <1>5, <1>6, <1>7, <1>8, <1>9, <1>10, <1>11, <1>12, <1>13
    DEF S!Next, S!Client

LEMMA StreamInvariant == S!Spec => []StreamIInv
  BY StreamInitially, StreamInductive, PTL DEF S!Spec

\* A frame that waits, found again further along.
LEMMA StillWaiting ==
    ASSUME NEW i \in WrittenWhole, NEW j \in DOMAIN wire', Fresh(i),
           wire \in Seq(Unit), wire' \in Seq(Unit), wire'[j] = wire[i],
           lastSeq'[wire[i].frame.kind] < wire[i].frame.seq,
           wire[i].frame.ts >= lastTs'[wire[i].frame.kind],
           \A m \in 1..j : \E l \in 1..i : wire'[m] = wire[l]
    PROVE  wire[i].frame \in WaitingFrames'
  <1> DEFINE f == wire[i].frame
  <1>1. /\ i \in DOMAIN wire /\ wire[i].part = "frame" /\ i \in 1..Len(wire)
        /\ \A l \in 1..i : wire[l].frame.kind = f.kind => wire[l].frame.ts <= f.ts
    BY DEF WrittenWhole, Fresh
  <1>2. j \in 1..Len(wire') /\ wire'[j].part = "frame"
    BY <1>1
  <1>3. \A m \in 1..j : wire'[m].frame.kind = f.kind => wire'[m].frame.ts <= f.ts
    BY <1>1
  <1>4. f.seq \in Nat /\ f.kind \in Kinds
    BY <1>1, UnitFields
  <1>5. wire'[j].frame = f
    OBVIOUS
  <1> HIDE DEF f
  <1>6. f.seq > lastSeq'[f.kind] /\ f.ts >= lastTs'[f.kind]
    BY DEF f
  <1>7. j \in WrittenWhole' /\ Fresh(j)'
    BY <1>2, <1>3, <1>5, <1>6 DEF WrittenWhole, Fresh
  <1>8. f \in WaitingFrames'
    BY <1>5, <1>7 DEF WaitingFrames
  <1> QED
    BY <1>8 DEF f

\* One step: a frame that waits goes on waiting, is shown, or the client loses step.
WaitsOrShown(f) ==
    \/ f \in WaitingFrames'
    \/ ShownSince(f.run, f.kind, f.seq)'
    \/ ~InStep'

LEMMA FreshGoesOn ==
    ASSUME StreamIInv, [S!Next]_(S!vars), InStep, NEW f \in WaitingFrames
    PROVE  WaitsOrShown(f)
  <1>1. PICK i \in WrittenWhole : Fresh(i) /\ wire[i].frame = f
    BY DEF WaitingFrames
  <1>2. /\ wire \in Seq(Unit) /\ StreamTyped /\ Attached /\ Lined
        /\ pc # "lost" /\ buffer = "empty"
    BY DEF StreamIInv, StreamTyped, InStep
  <1>3. /\ i \in DOMAIN wire /\ i \in 1..Len(wire) /\ wire[i].part = "frame" /\ wire[i] \in Unit
        /\ Len(wire) \in Nat /\ i \in Nat /\ wire # <<>>
    BY <1>2 DEF WrittenWhole
  <1>4. /\ f.seq \in Nat /\ f.kind \in Kinds /\ f.ts \in {0, 1} /\ f.run \in Nat
    BY <1>1, <1>3, UnitFields
  <1>5. /\ f.seq > lastSeq[f.kind] /\ f.ts >= lastTs[f.kind]
        /\ \A j \in 1..i : wire[j].frame.kind = f.kind => wire[j].frame.ts <= f.ts
    BY <1>1 DEF Fresh
  <1>6. StreamIInv'
    BY StreamInductive
  <1>7. wire' \in Seq(Unit)
    BY <1>6 DEF StreamIInv, StreamTyped
  \* Nothing was read.
  <1>8. ASSUME Longer(wire, wire'), UNCHANGED <<lastSeq, lastTs>>
        PROVE  WaitsOrShown(f)
    <2>1. i \in DOMAIN wire' /\ wire'[i] = wire[i]
      BY <1>3, <1>8 DEF Longer
    <2>2. ASSUME NEW m \in 1..i PROVE \E l \in 1..i : wire'[m] = wire[l]
      <3>1. m \in DOMAIN wire
        BY <1>2, <1>3
      <3> QED
        BY <1>8, <3>1 DEF Longer
    <2>3. lastSeq'[wire[i].frame.kind] < wire[i].frame.seq
          /\ wire[i].frame.ts >= lastTs'[wire[i].frame.kind]
      BY <1>1, <1>5, <1>8
    <2>4. wire[i].frame \in WaitingFrames'
      BY <1>1, <1>2, <1>7, <2>1, <2>2, <2>3, StillWaiting
    <2> QED
      BY <1>1, <2>4 DEF WaitsOrShown
  <1>9. Longer(wire, wire)
    BY <1>2 DEF Longer
  \* The head was read, and it was not this frame.
  <1>10. ASSUME wire' = Tail(wire), i # 1, f.seq > lastSeq'[f.kind], f.ts >= lastTs'[f.kind]
         PROVE  WaitsOrShown(f)
    <2>1. /\ Len(wire') = Len(wire) - 1
          /\ \A m \in DOMAIN wire' : m + 1 \in DOMAIN wire /\ wire'[m] = wire[m + 1]
      BY <1>2, <1>3, <1>10, TailKeeps
    <2> DEFINE j == i - 1
    <2>2. j \in DOMAIN wire' /\ j + 1 = i /\ j \in Nat
      BY <1>3, <1>7, <1>10, <2>1
    <2>3. wire'[j] = wire[i]
      BY <2>1, <2>2
    <2>4. ASSUME NEW m \in 1..j PROVE \E l \in 1..i : wire'[m] = wire[l]
      <3>1. m \in DOMAIN wire' /\ m + 1 \in 1..i
        BY <1>7, <2>2
      <3> QED
        BY <2>1, <3>1
    <2> HIDE DEF j
    <2>5. wire[i].frame \in WaitingFrames'
      BY <1>1, <1>2, <1>4, <1>7, <1>10, <2>2, <2>3, <2>4, StillWaiting
    <2> QED
      BY <1>1, <2>5 DEF WaitsOrShown
  <1>11. CASE S!Start \/ S!End \/ S!PutClockBack \/ S!CatchUp \/ S!Accept
    <2>1. wire' = wire /\ UNCHANGED <<lastSeq, lastTs>>
      BY <1>11 DEF S!Start, S!End, S!PutClockBack, S!CatchUp, S!Accept, S!bus, S!server
    <2> QED
      BY <1>8, <1>9, <2>1
  <1>12. ASSUME NEW k \in Kinds, S!Publish(k) PROVE WaitsOrShown(f)
    <2>1. Longer(wire, wire')
      BY <1>12, PublishLines
    <2>2. UNCHANGED <<lastSeq, lastTs>>
      BY <1>12 DEF S!Publish, S!bus
    <2> QED
      BY <1>8, <2>1, <2>2
  <1>13. CASE S!Connect
    BY <1>2, <1>3, <1>13 DEF S!Connect, Attached
  <1>14. CASE S!ReadLength
    <2>1. wire' = Tail(wire) /\ UNCHANGED <<lastSeq, lastTs>> /\ Head(wire).part = "length"
      BY <1>14 DEF S!ReadLength, S!Reading, S!bus
    <2>2. i # 1
      BY <1>2, <1>3, <2>1, TailKeeps
    <2> QED
      BY <1>5, <1>10, <2>1, <2>2
  <1>15. CASE S!ReadFrame
    <2> DEFINE g == Head(wire).frame
    <2>1. wire' = Tail(wire) /\ S!Feed(g) /\ Head(wire).part = "frame" /\ Head(wire) = wire[1]
      BY <1>2, <1>3, <1>15, TailKeeps DEF S!ReadFrame, S!Reading
    <2>2. /\ g \in Snapshot /\ g.kind \in Kinds /\ g.seq \in Nat /\ g.ts \in {0, 1}
          /\ 1 \in DOMAIN wire
      BY <1>2, <1>3, <2>1, TailKeeps, UnitFields
    <2>3. /\ lastSeq \in [Kinds -> Nat \cup {-1}] /\ lastTs \in [Kinds -> {-1, 0, 1}]
          /\ shown \in [Kinds -> Snapshot \cup {S!Nothing}]
      BY <1>2 DEF StreamTyped
    <2>4. \/ /\ S!Newer(g)
             /\ lastSeq' = [lastSeq EXCEPT ![g.kind] = g.seq]
             /\ lastTs' = [lastTs EXCEPT ![g.kind] = g.ts]
             /\ shown' = [shown EXCEPT ![g.kind] = g]
          \/ ~S!Newer(g) /\ UNCHANGED <<lastSeq, lastTs, shown>>
      BY <1>2, <2>1 DEF S!Feed, S!bus
    <2>5. CASE i = 1
      <3>1. f = g
        BY <1>1, <2>1, <2>5
      <3>2. S!Newer(g)
        BY <1>5, <3>1 DEF S!Newer
      <3>3. shown'[f.kind] = f
        BY <2>2, <2>3, <2>4, <3>1, <3>2
      <3>4. ShownSince(f.run, f.kind, f.seq)'
        BY <1>4, <3>3 DEF ShownSince
      <3> QED
        BY <3>4 DEF WaitsOrShown
    <2>6. CASE i # 1
      <3>1. CASE g.kind = f.kind
        <4>1. g.seq < f.seq
          <5>1. Rising(wire) /\ 1 < i
            BY <1>2, <1>3, <2>6 DEF Lined
          <5> QED
            BY <1>1, <1>3, <2>1, <2>2, <3>1, <5>1 DEF Rising
        <4>2. g.ts <= f.ts
          <5>1. 1 \in 1..i
            BY <1>3
          <5> QED
            BY <1>5, <2>1, <3>1, <5>1
        <4>3. f.seq > lastSeq'[f.kind] /\ f.ts >= lastTs'[f.kind]
          <5>1. CASE UNCHANGED <<lastSeq, lastTs, shown>>
            BY <1>5, <5>1
          <5>2. CASE lastSeq' = [lastSeq EXCEPT ![g.kind] = g.seq]
                     /\ lastTs' = [lastTs EXCEPT ![g.kind] = g.ts]
            <6>1. lastSeq'[f.kind] = g.seq /\ lastTs'[f.kind] = g.ts
              BY <2>2, <2>3, <3>1, <5>2
            <6> QED
              BY <1>4, <2>2, <4>1, <4>2, <6>1
          <5> QED
            BY <2>4, <5>1, <5>2
        <4> QED
          BY <1>10, <2>1, <2>6, <4>3
      <3>2. CASE g.kind # f.kind
        <4>1. lastSeq'[f.kind] = lastSeq[f.kind] /\ lastTs'[f.kind] = lastTs[f.kind]
          BY <1>4, <2>3, <2>4, <3>2
        <4> QED
          BY <1>5, <1>10, <2>1, <2>6, <4>1
      <3> QED
        BY <3>1, <3>2
    <2> QED
      BY <2>5, <2>6
  <1>16. CASE S!ReadEnd
    BY <1>3, <1>16 DEF S!ReadEnd
  <1>17. CASE S!Pause
    BY <1>17 DEF S!Pause, WaitsOrShown, InStep
  <1>18. CASE S!ReadLost
    BY <1>2, <1>18 DEF S!ReadLost
  <1>19. CASE UNCHANGED S!vars
    <2>1. wire' = wire /\ UNCHANGED <<lastSeq, lastTs>>
      BY <1>19 DEF S!vars, S!bus
    <2> QED
      BY <1>8, <1>9, <2>1
  <1> QED
    BY <1>11, <1>12, <1>13, <1>14, <1>15, <1>16, <1>17, <1>18, <1>19 DEF S!Next, S!Client

(***************************************************************************)
(* dashboard_ipc.py, ipc_client.py and snapshot_bus.py, for any kinds,     *)
(* runs, buffers and faults: a frame written whole that is new to the bus  *)
(* is not lost, unless the client falls out of step.                       *)
(***************************************************************************)
THEOREM FreshKept == S!Spec => FreshIsNotLost
  <1>1. StreamIInv /\ [S!Next]_(S!vars) =>
          [InStep => \A f \in WaitingFrames :
              \/ f \in WaitingFrames'
              \/ ShownSince(f.run, f.kind, f.seq)'
              \/ ~InStep']_<<wire, pc, lastSeq, lastTs, buffer, shown>>
    BY FreshGoesOn DEF WaitsOrShown
  <1> QED
    BY <1>1, StreamInvariant, PTL DEF S!Spec, FreshIsNotLost
=============================================================================
