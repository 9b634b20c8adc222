---------------------------- MODULE TradingProofs ----------------------------
(***************************************************************************)
(* The two that keep positions, and the guards in front of orders.         *)
(*                                                                         *)
(* PositionManager, for all ids, entries and market looks: its state is    *)
(* well typed, a position's stop never moves backward, and so the loss at  *)
(* the stop never exceeds the risk the position was opened with.  The      *)
(* argument is one lemma about Judged: whatever rule decides, what a       *)
(* position is stays, its stop stays positive, and the gain at the stop    *)
(* does not fall.  The gain at the stop starts at no less than minus the   *)
(* initial distance, so RiskNeverGrows is inductive with the types.        *)
(*                                                                         *)
(* PaperBroker, for all prices, quantities and sequences of orders: each   *)
(* position is the net of its filled orders, the books balance up to       *)
(* rounding, no limit order is missed, and ended orders stay.  The         *)
(* argument is one lemma about one fill, FillAgrees, carried through a     *)
(* price that fills several orders by induction on the orders, BooksAgree. *)
(*                                                                         *)
(* ComplianceGuard, for every limit, every window and every wall clock     *)
(* that is never stepped forward: its orders-per-second ceiling holds.     *)
(* The window alone does not say how often orders were granted: what has   *)
(* left it must have been granted long enough ago.  The strengthening ties *)
(* the window to the tail of the grants (Aligned), and says that a grant   *)
(* outside that tail is old in elapsed time (DroppedOld); that needs the   *)
(* clock's offset never to have grown since (OffsetFell).  A mode manager  *)
(* that changes to LIVE takes a step of the guard it makes (OwnsAGuard).   *)
(***************************************************************************)
EXTENDS PositionManager, PaperBooks, ModeSwitch, Recursion, TLAPS

B == INSTANCE PaperBroker

VARIABLES real, skew, window, verdict       \* of the guard, with granted
C == INSTANCE ComplianceGuard
M == INSTANCE ModeManager

-----------------------------------------------------------------------------
(* The position manager. *)

\* What every step keeps of a position that stays.
SameTrade(p, q) ==
    /\ q.side = p.side /\ q.qty = p.qty /\ q.entry = p.entry
    /\ q.target = p.target /\ q.born = p.born /\ q.risk = p.risk

\* The stop moved, if at all, to where less is lost.
StopHolds(p, q) == q.sl > 0 /\ Gain(p, q.sl) >= Gain(p, p.sl)

-----------------------------------------------------------------------------
(* Lemmas about the helpers. *)

LEMMA Fields ==
    ASSUME NEW p \in Position
    PROVE  /\ p.side \in Sides
           /\ p.qty \in Nat /\ p.entry \in Nat /\ p.sl \in Nat
           /\ p.mfe \in Nat /\ p.mae \in Nat /\ p.risk \in Nat
  BY DEF Position

LEMMA GainIsInt ==
    ASSUME NEW p \in Position, NEW price \in Int
    PROVE  Gain(p, price) \in Int
  <1>1. p.entry \in Int
    BY Fields
  <1>2. price - p.entry \in Int /\ p.entry - price \in Int
    BY <1>1
  <1> QED
    BY <1>2 DEF Gain

\* The gain at the position's own stop.
LEMMA GainAtStop ==
    ASSUME NEW p \in Position
    PROVE  Gain(p, p.sl) \in Int
  <1>1. p.sl \in Int
    BY Fields
  <1> QED
    BY <1>1, GainIsInt

(***************************************************************************)
(* A stop moved by MoveStop keeps the position's type, and less is lost at *)
(* it.                                                                     *)
(***************************************************************************)
LEMMA MoveStopHolds ==
    ASSUME NEW p \in Position, p.sl > 0, NEW sl \in Int
    PROVE  /\ MoveStop(p, sl) \in Position
           /\ SameTrade(p, MoveStop(p, sl))
           /\ StopHolds(p, MoveStop(p, sl))
  <1>1. CASE ~Tightens(p, sl)
    <2>1. MoveStop(p, sl) = p
      BY <1>1 DEF MoveStop
    <2>2. Gain(p, p.sl) \in Int
      BY GainAtStop
    <2> QED
      BY <2>1, <2>2 DEF SameTrade, StopHolds
  <1>2. CASE Tightens(p, sl)
    <2>1. MoveStop(p, sl) = [p EXCEPT !.sl = sl]
      BY <1>2 DEF MoveStop
    <2>2. sl > 0 /\ sl \in Nat
      BY <1>2 DEF Tightens
    <2>3. MoveStop(p, sl) \in Position /\ SameTrade(p, MoveStop(p, sl))
      BY <2>1, <2>2 DEF Position, SameTrade
    <2>4. MoveStop(p, sl).sl = sl
      BY <2>1 DEF Position
    <2>5. Gain(p, sl) >= Gain(p, p.sl)
      <3>1. p.entry \in Int /\ p.sl \in Int
        BY Fields
      <3>2. CASE p.side = "BUY"
        BY <1>2, <3>1, <3>2 DEF Tightens, Gain
      <3>3. CASE p.side # "BUY"
        BY <1>2, <3>1, <3>3 DEF Tightens, Gain
      <3> QED
        BY <3>2, <3>3
    <2> QED
      BY <2>2, <2>3, <2>4, <2>5 DEF StopHolds
  <1> QED
    BY <1>1, <1>2

\* Bringing the excursions up to date changes nothing else.
LEMMA ExcursionsHold ==
    ASSUME NEW p \in Position, NEW price \in Nat
    PROVE  /\ Excursions(p, price) \in Position
           /\ SameTrade(p, Excursions(p, price))
           /\ Excursions(p, price).sl = p.sl
  <1>1. /\ Larger(p.mfe, Gain(p, price)) \in Nat
        /\ Larger(p.mae, -Gain(p, price)) \in Nat
    <2>1. Gain(p, price) \in Int /\ p.mfe \in Nat /\ p.mae \in Nat
      BY GainIsInt, Fields
    <2> QED
      BY <2>1 DEF Larger
  <1> QED
    BY <1>1 DEF Excursions, SameTrade, Position

\* Closing changes neither the trade nor its stop.
LEMMA ClosedHolds ==
    ASSUME NEW p \in Position, NEW price \in Nat, NEW reason \in Reasons
    PROVE  /\ Closed(p, price, reason) \in Position
           /\ SameTrade(p, Closed(p, price, reason))
           /\ Closed(p, price, reason).sl = p.sl
  <1>1. Gain(p, price) * p.qty \in Int
    <2>1. Gain(p, price) \in Int /\ p.qty \in Int
      BY GainIsInt, Fields
    <2> QED
      BY <2>1
  <1> QED
    BY <1>1 DEF Closed, SameTrade, Position

LEMMA LevelsAreInts ==
    ASSUME NEW p \in Position, NEW u \in UpdateType
    PROVE  /\ BreakevenLevel(p, u) \in Int
           /\ ChopLevel(p, u) \in Int
           /\ TrailLevel(p, u) \in Int
  <1>1. /\ u.atr \in Nat /\ u.price \in Nat /\ p.entry \in Nat
    BY DEF UpdateType, Position
  <1>2. u.atr \div 10 \in Int /\ u.atr \div 2 \in Int
    BY <1>1
  <1> QED
    BY <1>1, <1>2 DEF BreakevenLevel, ChopLevel, TrailLevel, Ahead, Behind

(***************************************************************************)
(* Whatever rule decides, the trade stays what it is and its stop holds.   *)
(***************************************************************************)
LEMMA JudgedHolds ==
    ASSUME NEW p \in Position, p.sl > 0, NEW u \in UpdateType
    PROVE  /\ Judged(p, u) \in Position
           /\ SameTrade(p, Judged(p, u))
           /\ StopHolds(p, Judged(p, u))
  <1> DEFINE Good(q) == q \in Position /\ SameTrade(p, q) /\ StopHolds(p, q)
  <1>1. Gain(p, p.sl) \in Int
    BY GainAtStop
  <1>2. Good(p)
    BY <1>1 DEF SameTrade, StopHolds
  <1>3. ASSUME ExitReason(p, u) # "" PROVE Good(Closed(p, u.price, ExitReason(p, u)))
    <2>1. ExitReason(p, u) \in Reasons /\ u.price \in Nat
      BY <1>3 DEF ExitReason, Reasons, UpdateType
    <2> QED
      BY <1>1, <2>1, ClosedHolds DEF StopHolds
  <1>4. /\ Good(MoveStop(p, BreakevenLevel(p, u)))
        /\ Good(MoveStop(p, ChopLevel(p, u)))
        /\ Good(MoveStop(p, TrailLevel(p, u)))
    BY MoveStopHolds, LevelsAreInts
  <1>5. Good([p EXCEPT !.partial = TRUE])
    <2>1. [p EXCEPT !.partial = TRUE] \in Position
      BY DEF Position
    <2>2. [p EXCEPT !.partial = TRUE].sl = p.sl
      BY DEF Position
    <2>3. SameTrade(p, [p EXCEPT !.partial = TRUE])
      BY DEF SameTrade, Position
    <2> QED
      BY <1>1, <2>1, <2>2, <2>3 DEF StopHolds
  <1> HIDE DEF Good
  <1>6. Good(Judged(p, u))
    BY <1>2, <1>3, <1>4, <1>5 DEF Judged
  <1> QED
    BY <1>6 DEF Good

-----------------------------------------------------------------------------
IInv == TypeOK /\ RiskNeverGrows

\* The stop of a trade that holds still bounds the loss by the same risk.
LEMMA RiskFollows ==
    ASSUME NEW p \in Position, NEW q \in Position,
           SameTrade(p, q), Gain(p, q.sl) >= Gain(p, p.sl),
           Gain(p, p.sl) >= -p.risk
    PROVE  Gain(q, q.sl) >= -q.risk
  <1>1. Gain(q, q.sl) = Gain(p, q.sl) /\ q.risk = p.risk
    BY DEF SameTrade, Gain
  <1>2. Gain(p, q.sl) \in Int /\ Gain(p, p.sl) \in Int /\ p.risk \in Int
    <2>1. q.sl \in Int /\ p.risk \in Int
      BY Fields
    <2> QED
      BY <2>1, GainIsInt, GainAtStop
  <1> QED
    BY <1>1, <1>2

(***************************************************************************)
(* One position changed, the others not: what the step does to the whole   *)
(* state follows from what it does to that position.                       *)
(***************************************************************************)
LEMMA OneChanges ==
    ASSUME IInv, NEW id \in known, NEW q \in Position,
           SameTrade(positions[id], q), StopHolds(positions[id], q),
           known' = known, adds' = adds,
           positions' = [positions EXCEPT ![id] = q]
    PROVE  /\ IInv'
           /\ \A i \in Ids : Stays(i) =>
                 Gain(positions[i], positions'[i].sl) >= Gain(positions[i], positions[i].sl)
  <1>1. /\ known \subseteq Ids /\ positions \in [Ids -> Position]
        /\ adds \in 0 .. MaxAdds /\ positions[id] \in Position
    BY DEF IInv, TypeOK
  <1>2. /\ positions'[id] = q
        /\ \A i \in Ids \ {id} : positions'[i] = positions[i]
        /\ positions' \in [Ids -> Position]
    BY <1>1
  <1>3. TypeOK'
    <2>1. ASSUME NEW i \in known
          PROVE  /\ positions'[i].qty > 0 /\ positions'[i].entry > 0
                 /\ positions'[i].sl > 0 /\ positions'[i].target > 0
                 /\ positions'[i].born \in 1 .. adds
      <3>1. CASE i = id
        BY <1>2, <3>1 DEF IInv, TypeOK, SameTrade, StopHolds
      <3>2. CASE i # id
        BY <1>1, <1>2, <3>2 DEF IInv, TypeOK
      <3> QED
        BY <3>1, <3>2
    <2> QED
      BY <1>1, <1>2, <2>1 DEF TypeOK
  <1>4. RiskNeverGrows'
    <2>1. ASSUME NEW i \in known
          PROVE  Gain(positions'[i], positions'[i].sl) >= -positions'[i].risk
      <3>1. CASE i = id
        <4>1. Gain(positions[id], positions[id].sl) >= -positions[id].risk
          BY DEF IInv, RiskNeverGrows
        <4> QED
          BY <1>1, <1>2, <3>1, <4>1, RiskFollows DEF StopHolds
      <3>2. CASE i # id
        BY <1>1, <1>2, <3>2 DEF IInv, RiskNeverGrows
      <3> QED
        BY <3>1, <3>2
    <2> QED
      BY <2>1 DEF RiskNeverGrows
  <1>5. ASSUME NEW i \in Ids
        PROVE  Gain(positions[i], positions'[i].sl) >= Gain(positions[i], positions[i].sl)
    <2>1. CASE i = id
      BY <1>2, <2>1 DEF StopHolds
    <2>2. CASE i # id
      <3>1. positions[i] \in Position
        BY <1>1
      <3>2. Gain(positions[i], positions[i].sl) \in Int
        BY <3>1, GainAtStop
      <3> QED
        BY <1>2, <2>2, <3>2
    <2> QED
      BY <2>1, <2>2
  <1> QED
    BY <1>3, <1>4, <1>5 DEF IInv

-----------------------------------------------------------------------------
\* What a step must do: keep the invariant, and move no stop backward.
Kept ==
    /\ IInv'
    /\ \A i \in Ids : Stays(i) =>
          Gain(positions[i], positions'[i].sl) >= Gain(positions[i], positions[i].sl)

\* A state that keeps its positions moves no stop.
LEMMA NothingMoves ==
    ASSUME IInv, UNCHANGED vars
    PROVE  Kept
  <1>1. IInv'
    BY DEF IInv, TypeOK, RiskNeverGrows, vars
  <1>2. ASSUME NEW i \in Ids
        PROVE  Gain(positions[i], positions'[i].sl) >= Gain(positions[i], positions[i].sl)
    <2>1. positions[i] \in Position /\ positions' = positions
      BY DEF IInv, TypeOK, vars
    <2>2. Gain(positions[i], positions[i].sl) \in Int
      BY <2>1, GainAtStop
    <2> QED
      BY <2>1, <2>2
  <1> QED
    BY <1>1, <1>2 DEF Kept

LEMMA AddKeeps ==
    ASSUME IInv, NEW id \in Ids, NEW e \in Entries, AddPosition(id, e)
    PROVE  Kept
  <1> DEFINE q == [side |-> e.side, qty |-> e.qty, entry |-> e.entry, sl |-> e.sl,
                   target |-> e.target, status |-> "OPEN", reason |-> "",
                   realized |-> 0, mfe |-> 0, mae |-> 0, partial |-> FALSE,
                   born |-> adds + 1, risk |-> Distance(e.entry, e.sl)]
  <1>1. /\ known \subseteq Ids /\ positions \in [Ids -> Position]
        /\ adds \in 0 .. MaxAdds /\ MaxAdds \in Nat
    BY AddsAssumption DEF IInv, TypeOK
  <1>2. /\ e.side \in Sides /\ e.qty \in Nat /\ e.entry \in Nat
        /\ e.sl \in Nat /\ e.target \in Nat
    BY EntryAssumption DEF EntryType
  <1>3. Distance(e.entry, e.sl) \in Nat
    BY <1>2 DEF Distance
  <1>4. q \in Position
    <2>1. adds + 1 \in Nat
      BY <1>1
    <2>2. Distance(e.entry, e.sl) \in Nat /\ "" \in Reasons \cup {""} /\ 0 \in Int
      BY <1>3
    <2> QED
      BY <1>2, <2>1, <2>2 DEF Position
  <1>5. /\ q.qty > 0 /\ q.entry > 0 /\ q.sl > 0 /\ q.target > 0
        /\ q.born = adds + 1 /\ q.side = e.side /\ q.entry = e.entry /\ q.sl = e.sl
        /\ q.risk = Distance(e.entry, e.sl)
    BY DEF AddPosition, Valid
  <1>6. /\ positions' = [positions EXCEPT ![id] = q]
        /\ known' = known \cup {id} /\ adds' = adds + 1 /\ adds < MaxAdds
    BY DEF AddPosition
  <1> HIDE DEF q
  <1>7. /\ positions'[id] = q
        /\ \A i \in Ids \ {id} : positions'[i] = positions[i]
        /\ positions' \in [Ids -> Position]
    BY <1>1, <1>4, <1>6
  <1>8. TypeOK'
    <2>1. adds' \in 0 .. MaxAdds /\ known' \in SUBSET Ids
      BY <1>1, <1>6
    <2>2. ASSUME NEW i \in known'
          PROVE  /\ positions'[i].qty > 0 /\ positions'[i].entry > 0
                 /\ positions'[i].sl > 0 /\ positions'[i].target > 0
                 /\ positions'[i].born \in 1 .. adds'
      <3>1. CASE i = id
        BY <1>1, <1>5, <1>6, <1>7, <3>1
      <3>2. CASE i # id
        <4>1. i \in known /\ i \in Ids \ {id}
          BY <1>1, <1>6, <3>2
        <4>2. /\ positions[i].qty > 0 /\ positions[i].entry > 0
              /\ positions[i].sl > 0 /\ positions[i].target > 0
              /\ positions[i].born \in 1 .. adds
          BY <4>1 DEF IInv, TypeOK
        <4> QED
          BY <1>1, <1>6, <1>7, <4>1, <4>2
      <3> QED
        BY <3>1, <3>2
    <2> QED
      BY <1>7, <2>1, <2>2 DEF TypeOK
  <1>9. RiskNeverGrows'
    <2>1. Gain(q, q.sl) >= -q.risk
      <3>1. e.entry \in Int /\ e.sl \in Int
        BY <1>2
      <3>2. q.entry - q.sl <= q.risk /\ q.sl - q.entry <= q.risk /\ q.risk \in Int
        BY <1>5, <3>1 DEF Distance
      <3>3. q.entry \in Int /\ q.sl \in Int
        BY <1>5, <3>1
      <3> QED
        BY <3>2, <3>3 DEF Gain
    <2>2. ASSUME NEW i \in known'
          PROVE  Gain(positions'[i], positions'[i].sl) >= -positions'[i].risk
      <3>1. CASE i = id
        BY <1>7, <2>1, <3>1
      <3>2. CASE i # id
        <4>1. i \in known /\ i \in Ids \ {id}
          BY <1>1, <1>6, <3>2
        <4> QED
          BY <1>7, <4>1 DEF IInv, RiskNeverGrows
      <3> QED
        BY <3>1, <3>2
    <2> QED
      BY <2>2 DEF RiskNeverGrows
  <1>10. ASSUME NEW i \in Ids, Stays(i)
         PROVE  Gain(positions[i], positions'[i].sl) >= Gain(positions[i], positions[i].sl)
    <2>1. i # id
      <3>1. SUFFICES ASSUME i = id PROVE FALSE
        OBVIOUS
      <3>2. positions[id].born \in 1 .. adds /\ positions[id].born = adds + 1
        BY <1>5, <1>7, <1>10, <3>1 DEF Stays, IInv, TypeOK
      <3> QED
        BY <1>1, <3>2
    <2>2. positions'[i] = positions[i] /\ positions[i] \in Position
      BY <1>1, <1>7, <2>1
    <2>3. Gain(positions[i], positions[i].sl) \in Int
      BY <2>2, GainAtStop
    <2> QED
      BY <2>2, <2>3
  <1> QED
    BY <1>8, <1>9, <1>10 DEF Kept, IInv

LEMMA CloseKeeps ==
    ASSUME IInv, NEW id \in Ids, NEW price \in CloseAt, ClosePosition(id, price)
    PROVE  Kept
  <1>1. /\ id \in known /\ positions[id] \in Position /\ price \in Nat
        /\ positions[id].sl > 0
    BY CloseAssumption DEF ClosePosition, MayClose, Open, IInv, TypeOK
  <1> DEFINE q == Closed(positions[id], price, "manual")
  <1>2. q \in Position /\ SameTrade(positions[id], q) /\ q.sl = positions[id].sl
    BY <1>1, ClosedHolds DEF Reasons
  <1>3. StopHolds(positions[id], q)
    <2>1. Gain(positions[id], positions[id].sl) \in Int
      BY <1>1, GainAtStop
    <2> QED
      BY <1>1, <1>2, <2>1 DEF StopHolds
  <1>4. /\ positions' = [positions EXCEPT ![id] = q]
        /\ known' = known /\ adds' = adds
    BY DEF ClosePosition
  <1> HIDE DEF q
  <1> QED
    BY <1>1, <1>2, <1>3, <1>4, OneChanges DEF Kept

LEMMA UpdateKeeps ==
    ASSUME IInv, NEW id \in Ids, NEW u \in Updates, UpdatePosition(id, u)
    PROVE  Kept
  <1>1. /\ id \in known /\ positions[id] \in Position /\ u \in UpdateType
        /\ u.price \in Nat /\ positions[id].sl > 0
    BY UpdateAssumption DEF UpdatePosition, Open, IInv, TypeOK, UpdateType
  <1> DEFINE p == Excursions(positions[id], u.price)
             q == Judged(p, u)
  <1>2. p \in Position /\ SameTrade(positions[id], p) /\ p.sl = positions[id].sl
    BY <1>1, ExcursionsHold
  <1>3. q \in Position /\ SameTrade(p, q) /\ StopHolds(p, q)
    <2> HIDE DEF p
    <2> QED
      BY <1>1, <1>2, JudgedHolds
  <1>4. /\ positions' = [positions EXCEPT ![id] = q]
        /\ known' = known /\ adds' = adds
    BY DEF UpdatePosition
  <1> HIDE DEF p, q
  <1>5. SameTrade(positions[id], q)
    BY <1>2, <1>3 DEF SameTrade
  <1>6. StopHolds(positions[id], q)
    BY <1>2, <1>3 DEF StopHolds, Gain, SameTrade
  <1> QED
    BY <1>1, <1>3, <1>4, <1>5, <1>6, OneChanges DEF Kept

LEMMA ResetKeeps ==
    ASSUME IInv, Reset
    PROVE  Kept
  <1>1. Blank \in Position
    BY DEF Blank, Position, Sides, Reasons
  <1>2. IInv'
    BY <1>1 DEF Reset, IInv, TypeOK, RiskNeverGrows
  <1> QED
    BY <1>2 DEF Kept, Stays, Reset

(***************************************************************************)
(* The invariant is inductive, and no step moves a stop backward.          *)
(***************************************************************************)
LEMMA Initially == Init => IInv
  <1>1. Blank \in Position
    BY DEF Blank, Position, Sides, Reasons
  <1> QED
    BY <1>1, AddsAssumption DEF Init, IInv, TypeOK, RiskNeverGrows

LEMMA EveryStepKeeps ==
    ASSUME IInv, [Next]_vars
    PROVE  Kept
  <1>1. ASSUME NEW id \in Ids, NEW e \in Entries, AddPosition(id, e) PROVE Kept
    BY <1>1, AddKeeps
  <1>2. ASSUME NEW id \in Ids, NEW price \in CloseAt, ClosePosition(id, price) PROVE Kept
    BY <1>2, CloseKeeps
  <1>3. ASSUME NEW id \in Ids, NEW u \in Updates, UpdatePosition(id, u) PROVE Kept
    BY <1>3, UpdateKeeps
  <1>4. CASE Reset
    BY <1>4, ResetKeeps
  <1>5. CASE UNCHANGED vars
    BY <1>5, NothingMoves
  <1> QED
    BY <1>1, <1>2, <1>3, <1>4, <1>5 DEF Next

-----------------------------------------------------------------------------
(***************************************************************************)
(* The state of PositionManager is well typed; the positions it knows have *)
(* a positive quantity, entry, stop and target.                            *)
(***************************************************************************)
THEOREM TypeCorrect == Spec => []TypeOK
  <1>1. IInv /\ [Next]_vars => IInv'
    BY EveryStepKeeps DEF Kept
  <1>2. IInv => TypeOK
    BY DEF IInv
  <1> QED
    BY <1>1, <1>2, Initially, PTL DEF Spec

(***************************************************************************)
(* position_manager.py update_position: what a position can lose at its    *)
(* stop is never more than what it was opened with.                        *)
(***************************************************************************)
THEOREM RiskBounded == Spec => []RiskNeverGrows
  <1>1. IInv /\ [Next]_vars => IInv'
    BY EveryStepKeeps DEF Kept
  <1>2. IInv => RiskNeverGrows
    BY DEF IInv
  <1> QED
    BY <1>1, <1>2, Initially, PTL DEF Spec

(***************************************************************************)
(* position_manager.py _is_valid_sl_update and the rules in front of it:   *)
(* no stop ever moves backward.                                            *)
(***************************************************************************)
THEOREM StopsOnlyTighten == Spec => StopNeverBackward
  <1>1. ASSUME IInv, [Next]_vars
        PROVE  [\A id \in Ids : Stays(id) =>
                  Gain(positions[id], positions'[id].sl) >=
                     Gain(positions[id], positions[id].sl)]_vars
    BY <1>1, EveryStepKeeps DEF Kept
  <1>2. IInv /\ [Next]_vars => IInv'
    BY EveryStepKeeps DEF Kept
  <1> QED
    BY <1>1, <1>2, Initially, PTL DEF Spec, StopNeverBackward, vars
-----------------------------------------------------------------------------
(* The paper broker. *)
-----------------------------------------------------------------------------
(* What filled orders add up to. *)

TradeType == [net : Int, cash : Int, units : Nat, fills : Nat]

LEMMA OrderFields ==
    ASSUME NEW o \in B!OrderType
    PROVE  /\ o.symbol \in Symbols /\ o.side \in {"BUY", "SELL"} /\ o.qty \in Nat
           /\ o.price \in Nat /\ o.trigger \in Nat /\ o.fill \in Nat
           /\ o.type \in {"LIMIT", "STOPLOSS_LIMIT"}
           /\ o.status \in {"OPEN", "FILLED", "CANCELLED", "REJECTED"}
  <1>1. /\ o.symbol \in Symbols /\ o.side \in {"BUY", "SELL"} /\ o.qty \in Quantities \cup {0}
        /\ o.price \in Prices \cup {0} /\ o.trigger \in Triggers \cup {0} /\ o.fill \in Nat
        /\ o.type \in {"LIMIT", "STOPLOSS_LIMIT"}
        /\ o.status \in {"OPEN", "FILLED", "CANCELLED", "REJECTED"}
    BY DEF B!OrderType, B!Sides, B!Types
  <1>2. Prices \subseteq Nat /\ Triggers \subseteq Nat /\ Quantities \subseteq Nat /\ 0 \in Nat
    BY PaperAssumption
  <1> QED
    BY ONLY <1>1, <1>2

LEMMA WithIsTrade ==
    ASSUME NEW t \in TradeType, NEW o \in B!OrderType, NEW s
    PROVE  With(t, o, s) \in TradeType
  <1>1. CASE o.symbol = s /\ o.status = "FILLED"
    <2>1. o.qty \in Nat /\ o.fill \in Nat
      BY OrderFields
    <2>2. Signed(o.side, o.qty) \in Int
      BY <2>1 DEF Signed
    <2>3. Signed(o.side, o.qty) * o.fill \in Int
      BY <2>1, <2>2
    <2>4. /\ t.net \in Int /\ t.cash \in Int /\ t.units \in Nat /\ t.fills \in Nat
      BY DEF TradeType
    <2> HIDE DEF Signed
    <2>5. /\ t.net + Signed(o.side, o.qty) \in Int
          /\ t.cash - Signed(o.side, o.qty) * o.fill \in Int
          /\ t.units + o.qty \in Nat /\ t.fills + 1 \in Nat
      BY <2>1, <2>2, <2>3, <2>4
    <2> QED
      BY <1>1, <2>5 DEF With, TradeType
  <1>2. CASE ~(o.symbol = s /\ o.status = "FILLED")
    BY <1>2 DEF With
  <1> QED
    BY <1>1, <1>2

\* The running sum is what its definition says, and it is a sum.
LEMMA TradedRuns ==
    ASSUME NEW seq \in Seq(B!OrderType), NEW s
    PROVE  /\ \A n \in 0..Len(seq) : TradedUpTo(seq, s)[n] \in TradeType
           /\ TradedUpTo(seq, s)[0] = NoTrade
           /\ \A n \in 1..Len(seq) :
                 TradedUpTo(seq, s)[n] = With(TradedUpTo(seq, s)[n - 1], seq[n], s)
  <1> DEFINE len == Len(seq)
             Step == [x \in TradeType \X (1..len) |-> With(x[1], seq[x[2]], s)]
             Runs(f) == f = [n \in 0..len |-> IF n = 0 THEN NoTrade
                                              ELSE With(f[n - 1], seq[n], s)]
             r == TradedUpTo(seq, s)
  <1>1. len \in Nat /\ \A n \in 1..len : seq[n] \in B!OrderType
    OBVIOUS
  <1>2. NoTrade \in TradeType
    BY DEF NoTrade, TradeType
  <1>3. \A t \in TradeType, n \in 1..len : With(t, seq[n], s) \in TradeType
    BY <1>1, WithIsTrade
  <1>4. Step \in [TradeType \X (1..len) -> TradeType]
    BY <1>3
  <1>5. \A t \in TradeType, n \in 1..len : Step[<<t, n>>] = With(t, seq[n], s)
    OBVIOUS
  <1> HIDE DEF len, Step
  <1>6. PICK f \in [0..len -> TradeType] : Follows(f, NoTrade, len, Step)
    BY <1>1, <1>2, <1>4, ByRecursion
  <1>7. Runs(f)
    <2>1. \A n \in 1..len : Step[<<f[n - 1], n>>] = With(f[n - 1], seq[n], s)
      BY <1>1, <1>5, <1>6 DEF Follows
    <2>2. ASSUME NEW n \in 0..len
          PROVE  f[n] = IF n = 0 THEN NoTrade ELSE With(f[n - 1], seq[n], s)
      <3>1. CASE n = 0
        BY <1>6, <3>1 DEF Follows
      <3>2. CASE n # 0
        <4>1. n \in 1..len
          BY <1>1, <3>2
        <4> QED
          BY ONLY <1>6, <2>1, <3>2, <4>1 DEF Follows
      <3> QED
        BY <3>1, <3>2
    <2>3. f = [n \in 0..len |-> f[n]]
      BY <1>6
    <2> QED
      BY <2>2, <2>3
  <1>8. Runs(r)
    <2>1. r = CHOOSE g : Runs(g)
      BY DEF TradedUpTo, len
    <2> HIDE DEF Runs, r
    <2> QED
      BY <1>7, <2>1
  <1>9. /\ r[0] = NoTrade
        /\ \A n \in 1..len : r[n] = With(r[n - 1], seq[n], s)
    BY <1>1, <1>8
  <1> HIDE DEF Runs, r
  <1>10. \A n \in 0..len : r[n] \in TradeType
    <2> DEFINE P == {n \in Nat : n <= len => r[n] \in TradeType}
    <2>1. 0 \in P
      BY <1>2, <1>9
    <2>2. ASSUME NEW n \in Nat, n \in P
          PROVE  n + 1 \in P
      <3>1. SUFFICES ASSUME n + 1 <= len PROVE r[n + 1] \in TradeType
        OBVIOUS
      <3>2. r[n] \in TradeType /\ n + 1 \in 1..len /\ n + 1 - 1 = n
        BY <1>1, <2>2, <3>1
      <3>3. r[n + 1] = With(r[n], seq[n + 1], s)
        BY <1>9, <3>2
      <3> QED
        BY <1>3, <3>2, <3>3
    <2> HIDE DEF P
    <2>3. \A n \in Nat : n \in P
      BY <2>1, <2>2, FromZero
    <2> QED
      BY <1>1, <2>3 DEF P
  <1> QED
    BY <1>9, <1>10 DEF r, len

\* Sums of sequences that have the same trades of a symbol are the same.
LEMMA SameTrades ==
    ASSUME NEW seq \in Seq(B!OrderType), NEW new \in Seq(B!OrderType), NEW s,
           NEW m \in Nat, m <= Len(seq), m <= Len(new),
           \A i \in 1..m, t \in TradeType : With(t, seq[i], s) = With(t, new[i], s)
    PROVE  TradedUpTo(seq, s)[m] = TradedUpTo(new, s)[m]
  <1> DEFINE f == TradedUpTo(seq, s)
             g == TradedUpTo(new, s)
             P == {n \in Nat : n <= m => f[n] = g[n]}
  <1>1. /\ f[0] = g[0]
        /\ \A n \in 1..m : /\ f[n] = With(f[n - 1], seq[n], s)
                           /\ g[n] = With(g[n - 1], new[n], s)
                           /\ f[n - 1] \in TradeType
    <2>1. Len(seq) \in Nat /\ Len(new) \in Nat
      OBVIOUS
    <2>2. \A n \in 1..m : n \in 1..Len(seq) /\ n \in 1..Len(new) /\ n - 1 \in 0..Len(seq)
      BY <2>1
    <2> HIDE DEF f, g
    <2> QED
      BY <2>2, TradedRuns DEF f, g
  <1> HIDE DEF f, g
  <1>2. 0 \in P
    BY <1>1
  <1>3. ASSUME NEW n \in Nat, n \in P
        PROVE  n + 1 \in P
    <2>1. SUFFICES ASSUME n + 1 <= m PROVE f[n + 1] = g[n + 1]
      OBVIOUS
    <2>2. f[n] = g[n] /\ n + 1 \in 1..m /\ n + 1 - 1 = n
      BY <1>3, <2>1
    <2> QED
      BY <1>1, <2>2
  <1> HIDE DEF P
  <1>4. \A n \in Nat : n \in P
    BY <1>2, <1>3, FromZero
  <1> QED
    BY <1>4 DEF P, f, g

\* One order more.
LEMMA TradedAppend ==
    ASSUME NEW seq \in Seq(B!OrderType), NEW o \in B!OrderType, NEW s
    PROVE  Traded(Append(seq, o), s) = With(Traded(seq, s), o, s)
  <1> DEFINE new == Append(seq, o)
  <1>1. /\ new \in Seq(B!OrderType) /\ Len(new) = Len(seq) + 1 /\ Len(seq) \in Nat
        /\ new[Len(seq) + 1] = o /\ \A i \in 1..Len(seq) : new[i] = seq[i]
    OBVIOUS
  <1> HIDE DEF new
  <1>2. TradedUpTo(seq, s)[Len(seq)] = TradedUpTo(new, s)[Len(seq)]
    BY <1>1, SameTrades
  <1>3. Len(new) \in 1..Len(new) /\ Len(new) - 1 = Len(seq)
    BY <1>1
  <1>4. TradedUpTo(new, s)[Len(new)] = With(TradedUpTo(new, s)[Len(seq)], o, s)
    BY <1>1, <1>3, TradedRuns
  <1> QED
    BY <1>2, <1>4 DEF Traded, new
-----------------------------------------------------------------------------
(* One fill: the position it makes, and what it leaves of the balance. *)

Held(p) == p \in B!PositionType /\ (p # B!None => p.qty > 0 /\ p.avg > 0)

LEMMA NoneIsPosition ==
    /\ B!None \in B!PositionType
    /\ B!None.side = "BUY" /\ B!None.qty = 0 /\ B!None.avg = 0
  BY DEF B!None, B!PositionType, B!Sides

\* A position, and what was realized so far, are those of the trades t.
Agrees(p, gained, t) == Net(p) = t.net /\ Balanced(p, gained, t) /\ p.qty <= t.units

\* Rounding is off by half at most.
LEMMA RoundedNear ==
    ASSUME NEW a \in Nat, NEW b \in Nat, b > 0
    PROVE  /\ B!Rounded(a, b) \in Nat
           /\ -b <= 2 * (b * B!Rounded(a, b) - a)
           /\ 2 * (b * B!Rounded(a, b) - a) <= b
  <1> DEFINE r == (2 * a + b) \div (2 * b)
  <1>1. 2 * a + b \in Nat /\ 2 * b \in Nat /\ 2 * b > 0
    OBVIOUS
  <1>2. r \in Int /\ (2 * b) * r <= 2 * a + b /\ 2 * a + b < (2 * b) * (r + 1)
    BY <1>1
  <1>3. r >= 0
    BY <1>1, <1>2
  <1> HIDE DEF r
  <1>4. (2 * b) * (r + 1) = 2 * (b * r) + 2 * b /\ (2 * b) * r = 2 * (b * r) /\ b * r \in Int
    BY <1>2
  <1>5. -b <= 2 * (b * r - a) /\ 2 * (b * r - a) <= b
    BY <1>2, <1>4
  <1> QED
    BY <1>2, <1>3, <1>5 DEF B!Rounded, r

\* What is at least one rounds to at least one.
LEMMA RoundedPositive ==
    ASSUME NEW a \in Nat, NEW b \in Nat, b > 0, a >= b
    PROVE  B!Rounded(a, b) > 0
  <1> DEFINE r == B!Rounded(a, b)
  <1>1. r \in Nat /\ -b <= 2 * (b * r - a)
    BY RoundedNear
  <1> HIDE DEF r
  <1>2. CASE r = 0
    <2>1. b * r = 0
      BY <1>2
    <2> QED
      BY <1>1, <2>1
  <1> QED
    BY <1>1, <1>2 DEF r

LEMMA SlippedPositive ==
    ASSUME NEW ltp \in Nat \ {0}, NEW side
    PROVE  B!Slipped(ltp, side) \in Nat /\ B!Slipped(ltp, side) > 0
  <1> DEFINE buys == 1003 * ltp
             sells == 997 * ltp
             whole == 1000
  <1>1. /\ buys \in Nat /\ sells \in Nat /\ buys >= 1003 /\ sells >= 997
        /\ whole \in Nat /\ whole > 0
    OBVIOUS
  <1> HIDE DEF buys, sells, whole
  <1>2. /\ B!Rounded(buys, whole) \in Nat /\ B!Rounded(sells, whole) \in Nat
        /\ -whole <= 2 * (whole * B!Rounded(buys, whole) - buys)
        /\ -whole <= 2 * (whole * B!Rounded(sells, whole) - sells)
    BY <1>1, RoundedNear
  <1>3. B!Rounded(buys, whole) > 0 /\ B!Rounded(sells, whole) > 0
    BY <1>1, <1>2 DEF whole
  <1> QED
    BY <1>2, <1>3 DEF B!Slipped, buys, sells, whole

\* A fill of q units gives the balance room for the rounding of u + q units.
LEMMA SlackGrows ==
    ASSUME NEW u \in Nat, NEW f \in Nat, NEW q \in Nat
    PROVE  /\ (u + q) * (f + 1) \in Nat /\ u * f \in Nat
           /\ (u + q) * (f + 1) >= u * f + (u + q)
  <1>1. (u + q) * (f + 1) = u * f + q * f + (u + q) /\ u * f \in Nat /\ q * f \in Nat
    OBVIOUS
  <1> QED
    BY <1>1

LEMMA FillAgrees ==
    ASSUME NEW p, Held(p), NEW gained \in Int, NEW t \in TradeType, Agrees(p, gained, t),
           NEW s, NEW o \in B!OrderType, o.symbol = s, o.status = "FILLED",
           o.qty > 0, o.fill > 0
    PROVE  /\ Held(B!Netted(p, o))
           /\ B!GainOf(p, o) \in Int
           /\ Agrees(B!Netted(p, o), gained + B!GainOf(p, o), With(t, o, s))
  <1> DEFINE n == p.qty
             a == p.avg
             q == o.qty
             x == o.fill
             w == With(t, o, s)
             new == B!Netted(p, o)
             gain == B!GainOf(p, o)
  <1>1. /\ p \in B!PositionType /\ p.side \in {"BUY", "SELL"} /\ n \in Nat /\ a \in Nat
        /\ p.unrealized \in Int /\ p.realized \in Int
    BY DEF Held, B!PositionType, B!Sides
  <1>2. o.side \in {"BUY", "SELL"} /\ q \in Nat /\ x \in Nat /\ q > 0 /\ x > 0
    BY OrderFields
  <1>3. /\ t.net \in Int /\ t.cash \in Int /\ t.units \in Nat /\ t.fills \in Nat
    BY DEF TradeType
  <1>4. /\ w.net = t.net + Signed(o.side, q)
        /\ w.cash = t.cash - Signed(o.side, q) * x
        /\ w.units = t.units + q /\ w.fills = t.fills + 1
    BY DEF With
  <1>5. Signed(p.side, n) = t.net /\ n <= t.units
    BY DEF Agrees, Net
  <1>6. n \in Int /\ a \in Int /\ q \in Int /\ x \in Int /\ t.cash \in Int /\ gained \in Int
    BY <1>1, <1>2, <1>3
  <1>7. /\ Signed(p.side, n) = t.net /\ n <= t.units
        /\ -(t.units * t.fills) <= 2 * (t.cash - (gained - t.net * a))
        /\ 2 * (t.cash - (gained - t.net * a)) <= t.units * t.fills
    BY DEF Agrees, Balanced, Drift, Slack, Net
  <1>8. /\ (t.units + q) * (t.fills + 1) \in Nat /\ t.units * t.fills \in Nat
        /\ (t.units + q) * (t.fills + 1) >= t.units * t.fills + (t.units + q)
    BY <1>2, <1>3, SlackGrows
  \* What is to be shown, in numbers.
  <1> DEFINE Fine(side, m, b, g) ==
                /\ Signed(side, m) = t.net + Signed(o.side, q) /\ m <= t.units + q
                /\ 2 * (t.cash - Signed(o.side, q) * x - (gained + g - Signed(side, m) * b))
                     <= t.units * t.fills + (t.units + q)
                /\ -(t.units * t.fills + (t.units + q))
                     <= 2 * (t.cash - Signed(o.side, q) * x - (gained + g - Signed(side, m) * b))
             Goal == Held(new) /\ gain \in Int /\ Agrees(new, gained + gain, w)
  <1> HIDE DEF Goal
  <1>9. ASSUME Held(new), new.side \in {"BUY", "SELL"}, new.qty \in Nat, new.avg \in Nat, gain \in Int,
               Fine(new.side, new.qty, new.avg, gain)
        PROVE  Goal
    <2> DEFINE d == 2 * (t.cash - Signed(o.side, q) * x
                           - (gained + gain - Signed(new.side, new.qty) * new.avg))
               slack == (t.units + q) * (t.fills + 1)
               room == t.units * t.fills + (t.units + q)
    <2> HIDE DEF new, gain, w
    <2>1. /\ Signed(o.side, q) \in Int /\ Signed(new.side, new.qty) \in Int
          /\ Signed(o.side, q) * x \in Int /\ Signed(new.side, new.qty) * new.avg \in Int
      <3>1. Signed(o.side, q) \in Int /\ Signed(new.side, new.qty) \in Int
        BY <1>2, <1>9 DEF Signed
      <3> QED
        BY <1>2, <1>9, <3>1
    <2>2. d \in Int /\ slack \in Int /\ room \in Int
      BY <1>2, <1>3, <1>8, <1>9, <2>1
    <2>3. d <= room /\ -room <= d /\ room <= slack
      BY <1>8, <1>9
    <2>4. d <= slack /\ -slack <= d
      <3> HIDE DEF d, slack, room
      <3> QED
        BY <2>2, <2>3
    <2>5. Net(new) = w.net /\ new.qty <= w.units
      BY <1>4, <1>9 DEF Net
    <2>6. Slack(w) = slack
      BY <1>4 DEF Slack
    <2>7. 2 * Drift(new, gained + gain, w) = d
      <3> DEFINE cash == t.cash - Signed(o.side, q) * x
                 worth == Signed(new.side, new.qty) * new.avg
      <3>1. Drift(new, gained + gain, w) = cash - (gained + gain - worth)
        <4>1. w.cash = cash /\ cash \in Int /\ worth \in Int /\ worth = Net(new) * new.avg
          BY <1>3, <1>4, <2>1 DEF Net
        <4> HIDE DEF cash, worth
        <4> QED
          BY <1>9, <4>1 DEF Drift
      <3> QED
        BY <3>1
    <2> QED
      BY <1>9, <2>4, <2>5, <2>6, <2>7 DEF Agrees, Balanced, Goal
  <1>10. ASSUME p = B!None PROVE Goal
    <2>1. n = 0 /\ a = 0 /\ p.side = "BUY"
      BY <1>10 DEF B!None
    <2>2. new = [B!None EXCEPT !.side = o.side, !.qty = q, !.avg = x] /\ gain = 0
      BY <1>10 DEF B!Netted, B!GainOf
    <2>3. /\ new \in B!PositionType /\ new.side = o.side /\ new.qty = q /\ new.avg = x
      <3>1. new = [side |-> o.side, qty |-> q, avg |-> x, unrealized |-> 0, realized |-> 0]
        BY <2>2 DEF B!None
      <3> HIDE DEF new
      <3> QED
        BY <1>2, <3>1 DEF B!PositionType, B!Sides
    <2>4. t.net = 0
      BY <1>7, <2>1 DEF Signed
    <2>5. Signed(o.side, q) \in Int /\ Signed(o.side, q) * x \in Int
      BY <1>2 DEF Signed
    <2>6. Fine(o.side, q, x, 0)
      <3> HIDE DEF w, new, gain
      <3> QED
        BY <1>1, <1>2, <1>3, <1>7, <1>8, <2>1, <2>4, <2>5
    <2> HIDE DEF new, gain, Fine
    <2>7. Held(new)
      BY <1>2, <2>3 DEF Held
    <2> QED
      BY <1>2, <1>9, <2>2, <2>3, <2>6, <2>7
  <1>11. ASSUME p # B!None, p.side = o.side PROVE Goal
    <2> DEFINE cost == a * n + x * q
               r == B!Rounded(cost, n + q)
               z == (n + q) * r - cost
    <2>1. new = [p EXCEPT !.qty = n + q, !.avg = r] /\ gain = 0
      BY <1>11 DEF B!Netted, B!GainOf
    <2>2. /\ cost \in Nat /\ n + q \in Nat /\ n + q > 0 /\ a > 0 /\ n > 0
          /\ a * n \in Nat /\ x * q \in Nat
      BY <1>1, <1>2, <1>11 DEF Held
    <2>3. cost >= n + q
      <3>1. a * n >= n
        BY <1>1, <2>2
      <3>2. x * q >= q
        BY <1>2
      <3> QED
        BY <1>1, <1>2, <2>2, <3>1, <3>2
    <2> HIDE DEF cost, new, gain, Fine
    <2>4. r \in Nat /\ r > 0 /\ -(n + q) <= 2 * z /\ 2 * z <= n + q
      BY <2>2, <2>3, RoundedNear, RoundedPositive
    <2>5. r \in Int
      BY <2>4
    <2> HIDE DEF r
    <2>6. new \in B!PositionType /\ new.side = o.side /\ new.qty = n + q /\ new.avg = r
      BY <1>1, <1>2, <1>11, <2>1, <2>2, <2>4 DEF B!PositionType
    <2>7. (n + q) * r = z + cost /\ z \in Int
      BY <1>1, <1>2, <2>2, <2>4
    <2>8. Fine(o.side, n + q, r, 0)
      <3>1. CASE o.side = "BUY"
        <4>1. t.net = n /\ Signed(o.side, q) = q /\ Signed(o.side, n + q) = n + q
          BY <1>7, <1>11, <3>1 DEF Signed
        <4>2. t.cash - q * x - (gained + 0 - (n + q) * r) = t.cash - (gained - n * a) + z
          BY <1>1, <1>2, <1>3, <2>2, <2>4, <2>7 DEF cost
        <4> QED
          BY <1>1, <1>2, <1>3, <1>7, <1>8, <2>4, <2>7, <4>1, <4>2 DEF Fine
      <3>2. CASE o.side = "SELL"
        <4>1. t.net = -n /\ Signed(o.side, q) = -q /\ Signed(o.side, n + q) = -(n + q)
          BY <1>7, <1>11, <3>2 DEF Signed
        <4>2. t.cash - (-q) * x - (gained + 0 - (-(n + q)) * r) = t.cash - (gained - (-n) * a) - z
          <5> HIDE DEF n, a, q, x
          <5> QED
            BY ONLY <1>6, <2>5 DEF cost, z
        <4>3. t.cash - (gained - (-n) * a) \in Int
          BY <1>1, <1>3
        <4>4. /\ 2 * (t.cash - (gained - (-n) * a) - z) <= t.units * t.fills + (t.units + q)
              /\ -(t.units * t.fills + (t.units + q)) <= 2 * (t.cash - (gained - (-n) * a) - z)
          <5> DEFINE d == t.cash - (gained - (-n) * a)
          <5>1. d \in Int /\ -(t.units * t.fills) <= 2 * d /\ 2 * d <= t.units * t.fills
            BY <1>7, <4>1, <4>3
          <5> HIDE DEF d, z
          <5>2. 2 * (d - z) = 2 * d - 2 * z
            BY <2>7, <5>1
          <5> QED
            BY <1>1, <1>2, <1>3, <1>7, <1>8, <2>4, <2>7, <5>1, <5>2 DEF d
        <4>5. -(n + q) = -n + -q /\ n + q <= t.units + q
          BY <1>1, <1>2, <1>3, <1>5
        <4> HIDE DEF z
        <4> QED
          BY <4>1, <4>2, <4>4, <4>5 DEF Fine
      <3> QED
        BY <1>2, <3>1, <3>2
    <2>9. Held(new)
      BY <2>2, <2>4, <2>6 DEF Held
    <2> QED
      BY <1>2, <1>9, <2>1, <2>2, <2>4, <2>6, <2>8, <2>9
  \* An order of the other side: what leaves the position is realized.
  <1>12. ASSUME p # B!None, p.side # o.side, NEW m \in Int, NEW side \in {"BUY", "SELL"},
                NEW b \in Nat, m >= 0,
                \/ q <= n /\ m = n - q /\ side = p.side /\ b = a
                \/ q = n /\ m = 0 /\ side = "BUY" /\ b = 0
                \/ q > n /\ m = q - n /\ side = o.side /\ b = x
         PROVE  gain \in Int /\ Fine(side, m, b, gain)
    <2> DEFINE out == IF q < n THEN q ELSE n
    <2>1. gain = IF p.side = "BUY" THEN (x - a) * out ELSE (a - x) * out
      BY <1>12 DEF B!GainOf, B!Realized, B!Leaving
    <2>2. /\ out \in Nat /\ out <= q /\ (q <= n => out = q) /\ (q >= n => out = n)
      BY <1>1, <1>2
    <2> HIDE DEF out, gain
    <2>3. /\ (x - a) * out = x * out - a * out /\ (a - x) * out = a * out - x * out
          /\ x * out \in Int /\ a * out \in Int /\ gain \in Int
      BY <1>1, <1>2, <2>1, <2>2
    <2>4. /\ p.side = "BUY" => o.side = "SELL" /\ Signed(o.side, q) = -q /\ t.net = n
          /\ p.side = "SELL" => o.side = "BUY" /\ Signed(o.side, q) = q /\ t.net = -n
      BY <1>1, <1>2, <1>7, <1>12 DEF Signed
    <2>5. Signed(side, m) = t.net + Signed(o.side, q)
      BY <1>1, <1>2, <1>12, <2>4 DEF Signed
    <2>6. m <= t.units + q
      BY <1>1, <1>2, <1>3, <1>7, <1>12
    \* The balance is as it was.
    <2>7. t.cash - Signed(o.side, q) * x - (gained + gain - Signed(side, m) * b)
            = t.cash - (gained - t.net * a)
      <3>1. CASE q <= n /\ m = n - q /\ side = p.side /\ b = a
        <4>1. CASE p.side = "BUY"
          <5>1. Signed(side, m) = n - q /\ gain = (x - a) * q /\ b = a
            BY <1>1, <1>2, <2>1, <2>2, <2>4, <3>1, <4>1 DEF Signed
          <5>2. Signed(o.side, q) = -q /\ t.net = n
            BY <2>4, <4>1
          <5>3. t.cash - (-q) * x - (gained + (x - a) * q - (n - q) * a) = t.cash - (gained - n * a)
            <6> HIDE DEF n, a, q, x
            <6> QED
              BY ONLY <1>6
          <5> QED
            BY ONLY <5>1, <5>2, <5>3, Zenon
        <4>2. CASE p.side = "SELL"
          <5>1. Signed(side, m) = -(n - q) /\ gain = (a - x) * q /\ b = a
            BY <1>1, <1>2, <2>1, <2>2, <2>4, <3>1, <4>2 DEF Signed
          <5>2. Signed(o.side, q) = q /\ t.net = -n
            BY <2>4, <4>2
          <5>3. t.cash - q * x - (gained + (a - x) * q - (-(n - q)) * a) = t.cash - (gained - (-n) * a)
            <6> HIDE DEF n, a, q, x
            <6> QED
              BY ONLY <1>6
          <5> QED
            BY ONLY <5>1, <5>2, <5>3, Zenon
        <4> QED
          BY <1>1, <4>1, <4>2
      <3>2. CASE q = n /\ m = 0 /\ side = "BUY" /\ b = 0
        <4>1. CASE p.side = "BUY"
          <5>1. Signed(side, m) = 0 /\ gain = (x - a) * q /\ b = 0
            BY <1>1, <1>2, <2>1, <2>2, <2>4, <3>2, <4>1 DEF Signed
          <5>2. Signed(o.side, q) = -q /\ t.net = n
            BY <2>4, <4>1
          <5>3. t.cash - (-q) * x - (gained + (x - a) * q - 0 * 0) = t.cash - (gained - n * a)
            <6> HIDE DEF n, a, q, x
            <6> QED
              BY ONLY <1>6, <3>2
          <5> QED
            BY ONLY <5>1, <5>2, <5>3, Zenon
        <4>2. CASE p.side = "SELL"
          <5>1. Signed(side, m) = 0 /\ gain = (a - x) * q /\ b = 0
            BY <1>1, <1>2, <2>1, <2>2, <2>4, <3>2, <4>2 DEF Signed
          <5>2. Signed(o.side, q) = q /\ t.net = -n
            BY <2>4, <4>2
          <5>3. t.cash - q * x - (gained + (a - x) * q - 0 * 0) = t.cash - (gained - (-n) * a)
            <6> HIDE DEF n, a, q, x
            <6> QED
              BY ONLY <1>6, <3>2
          <5> QED
            BY ONLY <5>1, <5>2, <5>3, Zenon
        <4> QED
          BY <1>1, <4>1, <4>2
      <3>3. CASE q > n /\ m = q - n /\ side = o.side /\ b = x
        <4>1. CASE p.side = "BUY"
          <5>1. Signed(side, m) = -(q - n) /\ gain = (x - a) * n /\ b = x
            BY <1>1, <1>2, <2>1, <2>2, <2>4, <3>3, <4>1 DEF Signed
          <5>2. Signed(o.side, q) = -q /\ t.net = n
            BY <2>4, <4>1
          <5>3. t.cash - (-q) * x - (gained + (x - a) * n - (-(q - n)) * x) = t.cash - (gained - n * a)
            <6> HIDE DEF n, a, q, x
            <6> QED
              BY ONLY <1>6
          <5> QED
            BY ONLY <5>1, <5>2, <5>3, Zenon
        <4>2. CASE p.side = "SELL"
          <5>1. Signed(side, m) = q - n /\ gain = (a - x) * n /\ b = x
            BY <1>1, <1>2, <2>1, <2>2, <2>4, <3>3, <4>2 DEF Signed
          <5>2. Signed(o.side, q) = q /\ t.net = -n
            BY <2>4, <4>2
          <5>3. t.cash - q * x - (gained + (a - x) * n - (q - n) * x) = t.cash - (gained - (-n) * a)
            <6> HIDE DEF n, a, q, x
            <6> QED
              BY ONLY <1>6
          <5> QED
            BY ONLY <5>1, <5>2, <5>3, Zenon
        <4> QED
          BY <1>1, <4>1, <4>2
      <3> QED
        BY <1>12, <3>1, <3>2, <3>3
    <2> QED
      BY <1>1, <1>2, <1>3, <1>7, <1>8, <2>3, <2>5, <2>6, <2>7
  <1>13. ASSUME p # B!None, p.side # o.side, q < n PROVE Goal
    <2>1. new = [p EXCEPT !.qty = n - q, !.realized = p.realized + gain]
      BY <1>2, <1>13 DEF B!Netted, B!GainOf
    <2>2. n - q \in Nat /\ n - q > 0
      BY <1>1, <1>2, <1>13
    <2>3. gain \in Int /\ Fine(p.side, n - q, a, gain)
      BY <1>1, <1>2, <1>12, <1>13, <2>2
    <2>4. a > 0
      BY <1>13 DEF Held
    <2> HIDE DEF new, gain, Fine
    <2>5. new \in B!PositionType /\ new.side = p.side /\ new.qty = n - q /\ new.avg = a
      <3>1. p.realized + gain \in Int
        BY <1>1, <2>3
      <3> QED
        BY <1>1, <2>1, <2>2, <3>1 DEF B!PositionType
    <2>6. Held(new)
      BY <2>2, <2>4, <2>5 DEF Held
    <2> QED
      BY <1>1, <1>9, <2>2, <2>3, <2>5, <2>6
  <1>14. ASSUME p # B!None, p.side # o.side, q = n PROVE Goal
    <2>1. new = B!None
      BY <1>1, <1>2, <1>14 DEF B!Netted
    <2>2. gain \in Int /\ Fine("BUY", 0, 0, gain)
      BY <1>12, <1>14
    <2> HIDE DEF new, gain, Fine
    <2>3. new \in B!PositionType /\ new.side = "BUY" /\ new.qty = 0 /\ new.avg = 0
      BY <2>1, NoneIsPosition
    <2>4. Held(new)
      BY <2>1, <2>3 DEF Held
    <2> QED
      BY <1>9, <2>2, <2>3, <2>4
  <1>15. ASSUME p # B!None, p.side # o.side, q > n PROVE Goal
    <2>1. new = [B!None EXCEPT !.side = o.side, !.qty = q - n, !.avg = x,
                               !.realized = p.realized + gain]
      <3>1. ~(o.qty < p.qty) /\ o.qty # p.qty
        BY <1>1, <1>2, <1>15
      <3>2. B!LeftOver(o.qty, p.qty) = q - n
        BY DEF B!LeftOver
      <3> QED
        BY <1>15, <3>1, <3>2, Zenon DEF B!Netted, B!GainOf
    <2>2. q - n \in Nat /\ q - n > 0
      BY <1>1, <1>2, <1>15
    <2>3. gain \in Int /\ Fine(o.side, q - n, x, gain)
      BY <1>1, <1>2, <1>12, <1>15, <2>2
    <2> HIDE DEF new, gain, Fine
    <2>4. new \in B!PositionType /\ new.side = o.side /\ new.qty = q - n /\ new.avg = x
      <3>1. p.realized + gain \in Int
        BY <1>1, <2>3
      <3>2. new = [side |-> o.side, qty |-> q - n, avg |-> x, unrealized |-> 0,
                   realized |-> p.realized + gain]
        BY <2>1 DEF B!None
      <3> QED
        BY <1>2, <2>2, <3>1, <3>2 DEF B!PositionType, B!Sides
    <2>5. Held(new)
      BY <1>2, <2>2, <2>4 DEF Held
    <2> QED
      BY <1>2, <1>9, <2>2, <2>3, <2>4, <2>5
  <1>16. Goal
    BY <1>1, <1>2, <1>10, <1>11, <1>13, <1>14, <1>15
  <1> QED
    BY <1>16 DEF Goal
-----------------------------------------------------------------------------
(* All fills on one price. *)

\* Orders that may trade have a quantity.
Placed(seq) ==
    /\ seq \in Seq(B!OrderType)
    /\ \A i \in DOMAIN seq : seq[i].status \in {"OPEN", "FILLED"} => seq[i].qty > 0

LEMMA ExecutionIs ==
    ASSUME NEW o \in B!OrderType, NEW ltp \in Nat \ {0}
    PROVE  LET e == B!Execution(o, ltp)
           IN  /\ e \in B!OrderType /\ e.symbol = o.symbol /\ e.side = o.side
               /\ e.qty = o.qty /\ e.status = "FILLED" /\ e.fill > 0
  <1> DEFINE f == B!Slipped(ltp, o.side)
  <1>1. f \in Nat /\ f > 0
    BY SlippedPositive
  <1>2. B!Execution(o, ltp) = [o EXCEPT !.status = "FILLED", !.fill = f,
                                        !.price = 0, !.trigger = 0]
    BY DEF B!Execution
  <1> HIDE DEF f
  <1> QED
    BY <1>1, <1>2 DEF B!OrderType

LEMMA FilledIs ==
    ASSUME NEW seq, Placed(seq), NEW s, NEW ltp \in Nat \ {0}
    PROVE  LET new == B!Filled(seq, s, ltp)
           IN  /\ Placed(new) /\ Len(new) = Len(seq) /\ Len(seq) \in Nat
               /\ \A i \in 1..Len(seq) :
                     /\ seq[i] \in B!OrderType
                     /\ new[i] = IF B!Reached(seq[i], s, ltp) THEN B!Execution(seq[i], ltp)
                                 ELSE seq[i]
  <1> DEFINE len == Len(seq)
             new == B!Filled(seq, s, ltp)
  <1>1. /\ len \in Nat /\ DOMAIN seq = 1..len
        /\ \A i \in 1..len : seq[i] \in B!OrderType
    BY DEF Placed
  <1>2. \A i \in 1..len : B!Execution(seq[i], ltp) \in B!OrderType
    BY <1>1, ExecutionIs
  <1>3. new = [i \in 1..len |-> IF B!Reached(seq[i], s, ltp) THEN B!Execution(seq[i], ltp)
                                ELSE seq[i]]
    BY <1>1 DEF B!Filled
  <1> HIDE DEF new, len
  <1>4. new \in [1..len -> B!OrderType]
    BY <1>1, <1>2, <1>3
  <1>5. new \in Seq(B!OrderType) /\ Len(new) = len /\ DOMAIN new = 1..len
    BY <1>1, <1>4
  <1>6. \A i \in 1..len :
           new[i] = IF B!Reached(seq[i], s, ltp) THEN B!Execution(seq[i], ltp) ELSE seq[i]
    BY <1>3
  <1>7. ASSUME NEW i \in 1..len, new[i].status \in {"OPEN", "FILLED"}
        PROVE  new[i].qty > 0
    <2>1. CASE B!Reached(seq[i], s, ltp)
      <3>1. seq[i].status = "OPEN"
        BY <2>1 DEF B!Reached, B!Fillable
      <3>2. seq[i].qty > 0
        BY <1>1, <3>1 DEF Placed
      <3>3. new[i] = B!Execution(seq[i], ltp)
        BY <1>6, <2>1
      <3>4. seq[i] \in B!OrderType
        BY <1>1
      <3>5. B!Execution(seq[i], ltp).qty = seq[i].qty
        BY <3>4, ExecutionIs
      <3> QED
        BY <3>2, <3>3, <3>5
    <2>2. CASE ~B!Reached(seq[i], s, ltp)
      <3>1. new[i] = seq[i]
        BY <1>6, <2>2
      <3> QED
        BY <1>1, <1>7, <3>1 DEF Placed
    <2> QED
      BY <2>1, <2>2
  <1>8. Placed(new)
    BY <1>5, <1>7 DEF Placed
  <1> QED
    BY <1>1, <1>5, <1>6, <1>8 DEF new, len

\* A fill makes a position of a position, whatever it cost.
LEMMA FillHeld ==
    ASSUME NEW p, Held(p), NEW o \in B!OrderType, o.status = "FILLED",
           o.qty > 0, o.fill > 0
    PROVE  Held(B!Netted(p, o)) /\ B!GainOf(p, o) \in Int
  <1> DEFINE t == [net |-> Net(p), cash |-> -(Net(p) * p.avg), units |-> p.qty, fills |-> 0]
  <1>1. Net(p) \in Int /\ Net(p) * p.avg \in Int /\ p.qty \in Nat /\ p.avg \in Nat
    <2>1. p.qty \in Nat /\ p.avg \in Nat
      BY DEF Held, B!PositionType
    <2>2. Net(p) \in Int
      BY <2>1 DEF Net, Signed
    <2> HIDE DEF Net
    <2> QED
      BY <2>1, <2>2
  <1> HIDE DEF Net
  <1>2. t \in TradeType
    BY <1>1 DEF TradeType
  <1>3. Drift(p, 0, t) = 0 /\ Slack(t) = 0
    BY <1>1 DEF Drift, Slack
  <1>4. Agrees(p, 0, t)
    BY <1>1, <1>3 DEF Agrees, Balanced
  <1> HIDE DEF t
  <1> QED
    BY <1>2, <1>4, FillAgrees

Book == [position : {p \in B!PositionType : Held(p)}, earned : Int]

LEMMA BooksRun ==
    ASSUME NEW seq, Placed(seq), NEW s \in Symbols, NEW ltp \in Nat \ {0},
           Held(ledger[s]), earned[s] \in Int
    PROVE  LET b == B!Books(seq, s, ltp)
           IN  /\ \A n \in 0..Len(seq) : b[n] \in Book
               /\ b[0] = B!Book(s)
               /\ \A n \in 1..Len(seq) :
                     b[n] = IF B!Reached(seq[n], s, ltp)
                            THEN B!Fill(b[n - 1], B!Execution(seq[n], ltp)) ELSE b[n - 1]
  <1> DEFINE len == Len(seq)
             Onward(b, n) == IF B!Reached(seq[n], s, ltp)
                           THEN B!Fill(b, B!Execution(seq[n], ltp)) ELSE b
             Step == [x \in Book \X (1..len) |-> Onward(x[1], x[2])]
             Runs(f) == f = [n \in 0..len |-> IF n = 0 THEN B!Book(s)
                              ELSE IF B!Reached(seq[n], s, ltp)
                              THEN B!Fill(f[n - 1], B!Execution(seq[n], ltp)) ELSE f[n - 1]]
             r == B!Books(seq, s, ltp)
  <1>1. len \in Nat /\ \A n \in 1..len : seq[n] \in B!OrderType
    BY DEF Placed
  <1>2. B!Book(s) \in Book
    BY DEF B!Book, Book, Held
  <1>3. ASSUME NEW b \in Book, NEW n \in 1..len
        PROVE  Onward(b, n) \in Book
    <2>1. CASE B!Reached(seq[n], s, ltp)
      <3> DEFINE e == B!Execution(seq[n], ltp)
      <3>1. seq[n].status = "OPEN" /\ n \in DOMAIN seq
        BY <1>1, <2>1 DEF B!Reached, B!Fillable, Placed
      <3>2. seq[n].qty > 0
        BY <3>1 DEF Placed
      <3>3. e \in B!OrderType /\ e.status = "FILLED" /\ e.qty > 0 /\ e.fill > 0
        BY <1>1, <3>2, ExecutionIs
      <3>4. Held(b.position) /\ b.earned \in Int
        BY DEF Book
      <3> HIDE DEF e
      <3>5. Held(B!Netted(b.position, e)) /\ B!GainOf(b.position, e) \in Int
        BY <3>3, <3>4, FillHeld
      <3>6. b.earned + B!GainOf(b.position, e) \in Int
        BY <3>4, <3>5
      <3>7. B!Fill(b, e) \in Book
        BY <3>5, <3>6 DEF B!Fill, Book, Held
      <3> QED
        BY <2>1, <3>7 DEF e
    <2>2. CASE ~B!Reached(seq[n], s, ltp)
      BY <2>2
    <2> QED
      BY <2>1, <2>2
  <1> HIDE DEF Onward, len
  <1>4. Step \in [Book \X (1..len) -> Book]
    BY <1>3
  <1>5. \A b \in Book, n \in 1..len : Step[<<b, n>>] = Onward(b, n)
    OBVIOUS
  <1> HIDE DEF Step
  <1>6. PICK f \in [0..len -> Book] : Follows(f, B!Book(s), len, Step)
    BY <1>1, <1>2, <1>4, ByRecursion
  <1>7. Runs(f)
    <2>1. \A n \in 1..len : Step[<<f[n - 1], n>>] = Onward(f[n - 1], n)
      BY <1>1, <1>5, <1>6
    <2>2. ASSUME NEW n \in 0..len
          PROVE  f[n] = IF n = 0 THEN B!Book(s) ELSE Onward(f[n - 1], n)
      <3>1. CASE n = 0
        BY <1>6, <3>1 DEF Follows
      <3>2. CASE n # 0
        <4>1. n \in 1..len
          BY <1>1, <3>2
        <4> QED
          BY ONLY <1>6, <2>1, <3>2, <4>1 DEF Follows
      <3> QED
        BY <3>1, <3>2
    <2>3. f = [n \in 0..len |-> f[n]]
      BY <1>6
    <2>4. f = [n \in 0..len |-> IF n = 0 THEN B!Book(s) ELSE Onward(f[n - 1], n)]
      BY <2>2, <2>3
    <2> QED
      BY <2>4 DEF Onward
  <1>8. Runs(r)
    <2>1. r = CHOOSE g : Runs(g)
      BY DEF B!Books, len
    <2> HIDE DEF Runs, r
    <2> QED
      BY <1>7, <2>1
  <1>9. r[0] = B!Book(s) /\ \A n \in 1..len : r[n] = Onward(r[n - 1], n)
    <2>1. r = [n \in 0..len |-> IF n = 0 THEN B!Book(s) ELSE Onward(r[n - 1], n)]
      BY <1>8 DEF Onward
    <2> HIDE DEF r
    <2> QED
      BY <1>1, <2>1
  <1> HIDE DEF Runs, r
  <1>10. \A n \in 0..len : r[n] \in Book
    <2> DEFINE P == {n \in Nat : n <= len => r[n] \in Book}
    <2>1. 0 \in P
      BY <1>2, <1>9
    <2>2. ASSUME NEW n \in Nat, n \in P
          PROVE  n + 1 \in P
      <3>1. SUFFICES ASSUME n + 1 <= len PROVE r[n + 1] \in Book
        OBVIOUS
      <3>2. r[n] \in Book /\ n + 1 \in 1..len /\ n + 1 - 1 = n
        BY <1>1, <2>2, <3>1
      <3>3. r[n + 1] = Onward(r[n], n + 1)
        BY <1>9, <3>2
      <3> QED
        BY <1>3, <3>2, <3>3
    <2> HIDE DEF P
    <2>3. \A n \in Nat : n \in P
      BY <2>1, <2>2, FromZero
    <2> QED
      BY <1>1, <2>3 DEF P
  <1> QED
    BY <1>9, <1>10 DEF r, len, Onward

\* What an order of the symbol that is filled adds, and what others add.
LEMMA WithAdds ==
    ASSUME NEW t \in TradeType, NEW o \in B!OrderType, NEW s
    PROVE  /\ ~(o.symbol = s /\ o.status = "FILLED") => With(t, o, s) = t
           /\ o.symbol = s /\ o.status = "FILLED" =>
                 With(t, o, s) = [net |-> t.net + Signed(o.side, o.qty),
                                  cash |-> t.cash - Signed(o.side, o.qty) * o.fill,
                                  units |-> t.units + o.qty, fills |-> t.fills + 1]
           /\ Signed(o.side, o.qty) \in Int /\ Signed(o.side, o.qty) * o.fill \in Int
           /\ o.qty \in Nat
  <1>1. o.qty \in Nat /\ o.fill \in Nat
    BY OrderFields
  <1>2. Signed(o.side, o.qty) \in Int
    BY <1>1 DEF Signed
  <1>3. Signed(o.side, o.qty) * o.fill \in Int
    BY <1>1, <1>2
  <1> HIDE DEF Signed
  <1> QED
    BY <1>1, <1>2, <1>3 DEF With

\* The books that agree with the trades before a price agree with them after
\* it: the orders reached are added to the trades one by one.
LEMMA BooksAgree ==
    ASSUME NEW seq, Placed(seq), NEW s \in Symbols, NEW ltp \in Nat \ {0},
           Held(ledger[s]), earned[s] \in Int,
           Agrees(ledger[s], earned[s], Traded(seq, s))
    PROVE  LET b == B!BookAfter(seq, s, ltp)
           IN  b \in Book /\ Agrees(b.position, b.earned, Traded(B!Filled(seq, s, ltp), s))
  <1> DEFINE len == Len(seq)
             new == B!Filled(seq, s, ltp)
             book == B!Books(seq, s, ltp)
             T == TradedUpTo(seq, s)
             U == TradedUpTo(new, s)
             W(k) == [net |-> T[len].net + (U[k].net - T[k].net),
                      cash |-> T[len].cash + (U[k].cash - T[k].cash),
                      units |-> T[len].units + (U[k].units - T[k].units),
                      fills |-> T[len].fills + (U[k].fills - T[k].fills)]
             Good(k) == W(k) \in TradeType /\ Agrees(book[k].position, book[k].earned, W(k))
             P == {k \in Nat : k <= len => Good(k)}
  <1>1. /\ len \in Nat /\ Len(new) = len /\ seq \in Seq(B!OrderType) /\ new \in Seq(B!OrderType)
        /\ \A i \in 1..len : seq[i] \in B!OrderType /\ new[i] \in B!OrderType
        /\ \A i \in 1..len : new[i] = IF B!Reached(seq[i], s, ltp) THEN B!Execution(seq[i], ltp)
                                      ELSE seq[i]
    <2>1. /\ Placed(new) /\ Len(new) = Len(seq) /\ Len(seq) \in Nat
          /\ \A i \in 1..Len(seq) :
                /\ seq[i] \in B!OrderType
                /\ new[i] = IF B!Reached(seq[i], s, ltp) THEN B!Execution(seq[i], ltp)
                            ELSE seq[i]
      BY FilledIs
    <2> HIDE DEF new
    <2>2. seq \in Seq(B!OrderType) /\ new \in Seq(B!OrderType)
      BY <2>1 DEF Placed
    <2>3. \A i \in 1..Len(seq) : new[i] \in B!OrderType
      BY <2>1, <2>2
    <2> QED
      BY <2>1, <2>2, <2>3
  <1>2. /\ \A n \in 0..len : book[n] \in Book
        /\ book[0] = B!Book(s)
        /\ \A n \in 1..len :
              book[n] = IF B!Reached(seq[n], s, ltp)
                        THEN B!Fill(book[n - 1], B!Execution(seq[n], ltp)) ELSE book[n - 1]
    BY BooksRun
  <1> HIDE DEF new, book
  <1>3. /\ \A n \in 0..len : T[n] \in TradeType
        /\ T[0] = NoTrade
        /\ \A n \in 1..len : T[n] = With(T[n - 1], seq[n], s)
    BY <1>1, TradedRuns
  <1>4. /\ \A n \in 0..len : U[n] \in TradeType
        /\ U[0] = NoTrade
        /\ \A n \in 1..len : U[n] = With(U[n - 1], new[n], s)
    BY <1>1, TradedRuns
  <1>5. T[len] = Traded(seq, s) /\ U[len] = Traded(new, s)
    BY <1>1 DEF Traded
  <1> HIDE DEF T, U, len
  <1>6. \A n \in 0..len : /\ T[n].net \in Int /\ T[n].cash \in Int
                          /\ T[n].units \in Nat /\ T[n].fills \in Nat
                          /\ U[n].net \in Int /\ U[n].cash \in Int
                          /\ U[n].units \in Nat /\ U[n].fills \in Nat
    BY <1>3, <1>4 DEF TradeType
  <1>7. ASSUME NEW t \in TradeType, NEW x, NEW d,
               x = [net |-> t.net + (d.net - d.net), cash |-> t.cash + (d.cash - d.cash),
                    units |-> t.units + (d.units - d.units),
                    fills |-> t.fills + (d.fills - d.fills)],
               d \in TradeType
        PROVE  x = t
    BY <1>7 DEF TradeType
  <1>8. len \in 0..len /\ 0 \in 0..len
    BY <1>1
  <1>9. W(0) = T[len] /\ W(len) = U[len]
    <2>1. T[0] = NoTrade /\ U[0] = NoTrade /\ T[len] \in TradeType /\ U[len] \in TradeType
          /\ NoTrade \in TradeType
      BY <1>3, <1>4, <1>8
    <2>2. W(0) = T[len]
      BY <2>1, <1>7
    <2>3. W(len) = U[len]
      BY <2>1 DEF TradeType
    <2> QED
      BY <2>2, <2>3
  <1>10. 0 \in P
    <2>1. book[0].position = ledger[s] /\ book[0].earned = earned[s]
      BY <1>2 DEF B!Book
    <2>2. Good(0)
      <3> HIDE DEF W
      <3> QED
        BY <1>3, <1>5, <1>8, <1>9, <2>1
    <2> HIDE DEF Good
    <2> QED
      BY <2>2
  <1>11. ASSUME NEW k \in Nat, k \in P
         PROVE  k + 1 \in P
    <2>1. SUFFICES ASSUME k + 1 <= len PROVE Good(k + 1)
      BY DEF P
    <2>2. k <= len /\ k \in 0..len /\ k + 1 \in 1..len /\ k + 1 \in 0..len /\ k + 1 - 1 = k
      BY <1>1, <2>1
    <2>3. Good(k)
      BY <1>11, <2>2
    <2> DEFINE o == seq[k + 1]
               e == B!Execution(o, ltp)
    <2>4. T[k + 1] = With(T[k], o, s) /\ U[k + 1] = With(U[k], new[k + 1], s)
      BY <1>3, <1>4, <2>2
    <2>5. o \in B!OrderType /\ T[k] \in TradeType /\ U[k] \in TradeType
      BY <1>1, <1>3, <1>4, <2>2
    <2>6. CASE B!Reached(o, s, ltp)
      <3>1. new[k + 1] = e /\ book[k + 1] = B!Fill(book[k], e)
        BY <1>1, <1>2, <2>2, <2>6
      <3>2. o.symbol = s /\ o.status = "OPEN"
        BY <2>6 DEF B!Reached, B!Fillable
      <3>3. o.qty > 0
        <4>1. k + 1 \in DOMAIN seq
          BY <1>1, <2>2 DEF len
        <4> QED
          BY <3>2, <4>1 DEF Placed
      <3>4. /\ e \in B!OrderType /\ e.symbol = s /\ e.status = "FILLED"
            /\ e.qty > 0 /\ e.fill > 0
        BY <2>5, <3>2, <3>3, ExecutionIs
      <3> HIDE DEF e
      <3>5. T[k + 1] = T[k]
        BY <2>4, <2>5, <3>2, WithAdds
      <3>6. W(k + 1) = With(W(k), e, s)
        <4> DEFINE n == Signed(e.side, e.qty)
                   c == Signed(e.side, e.qty) * e.fill
                   q == e.qty
        <4>1. U[k + 1] = [net |-> U[k].net + n, cash |-> U[k].cash - c,
                          units |-> U[k].units + q, fills |-> U[k].fills + 1]
              /\ n \in Int /\ c \in Int /\ q \in Nat
          BY <2>4, <2>5, <3>1, <3>4, WithAdds
        <4>2. With(W(k), e, s) = [net |-> W(k).net + n, cash |-> W(k).cash - c,
                                  units |-> W(k).units + q, fills |-> W(k).fills + 1]
          <5> HIDE DEF W
          <5> QED
            BY <2>3, <3>4, WithAdds
        <4> HIDE DEF n, c, q
        <4>3. /\ T[len].net \in Int /\ T[len].cash \in Int
              /\ T[len].units \in Nat /\ T[len].fills \in Nat
          BY <1>6, <1>8
        <4>4. /\ T[k].net \in Int /\ T[k].cash \in Int
              /\ T[k].units \in Nat /\ T[k].fills \in Nat
              /\ U[k].net \in Int /\ U[k].cash \in Int
              /\ U[k].units \in Nat /\ U[k].fills \in Nat
          BY <1>6, <2>2
        <4>5. /\ W(k + 1).net = W(k).net + n /\ W(k + 1).cash = W(k).cash - c
              /\ W(k + 1).units = W(k).units + q /\ W(k + 1).fills = W(k).fills + 1
          BY <3>5, <4>1, <4>3, <4>4
        <4>6. W(k + 1) = [net |-> W(k + 1).net, cash |-> W(k + 1).cash,
                          units |-> W(k + 1).units, fills |-> W(k + 1).fills]
          OBVIOUS
        <4> HIDE DEF W
        <4> QED
          BY <4>2, <4>5, <4>6
      <3> HIDE DEF W
      <3>7. W(k + 1) \in TradeType
        BY <2>3, <3>4, <3>6, WithIsTrade
      <3>8. Held(book[k].position) /\ book[k].earned \in Int
        BY <1>2, <2>2 DEF Book
      <3>9. Agrees(B!Netted(book[k].position, e),
                   book[k].earned + B!GainOf(book[k].position, e), With(W(k), e, s))
        BY <2>3, <3>4, <3>8, FillAgrees
      <3>10. /\ book[k + 1].position = B!Netted(book[k].position, e)
             /\ book[k + 1].earned = book[k].earned + B!GainOf(book[k].position, e)
        BY <3>1 DEF B!Fill
      <3> QED
        BY <3>6, <3>7, <3>9, <3>10
    <2>7. CASE ~B!Reached(o, s, ltp)
      <3>1. new[k + 1] = o /\ book[k + 1] = book[k]
        BY <1>1, <1>2, <2>2, <2>7
      <3>2. W(k + 1) = W(k)
        <4>1. CASE o.symbol = s /\ o.status = "FILLED"
          <5> DEFINE n == Signed(o.side, o.qty)
                     c == Signed(o.side, o.qty) * o.fill
                     q == o.qty
          <5>1. /\ U[k + 1] = [net |-> U[k].net + n, cash |-> U[k].cash - c,
                               units |-> U[k].units + q, fills |-> U[k].fills + 1]
                /\ T[k + 1] = [net |-> T[k].net + n, cash |-> T[k].cash - c,
                               units |-> T[k].units + q, fills |-> T[k].fills + 1]
                /\ n \in Int /\ c \in Int /\ q \in Nat
            BY <2>4, <2>5, <3>1, <4>1, WithAdds
          <5> HIDE DEF n, c, q
          <5>2. /\ T[k].net \in Int /\ T[k].cash \in Int
                /\ T[k].units \in Nat /\ T[k].fills \in Nat
                /\ U[k].net \in Int /\ U[k].cash \in Int
                /\ U[k].units \in Nat /\ U[k].fills \in Nat
            BY <1>6, <2>2
          <5>3. /\ U[k + 1].net - T[k + 1].net = U[k].net - T[k].net
                /\ U[k + 1].cash - T[k + 1].cash = U[k].cash - T[k].cash
                /\ U[k + 1].units - T[k + 1].units = U[k].units - T[k].units
                /\ U[k + 1].fills - T[k + 1].fills = U[k].fills - T[k].fills
            <6>1. /\ U[k + 1].net = U[k].net + n /\ T[k + 1].net = T[k].net + n
                  /\ U[k + 1].cash = U[k].cash - c /\ T[k + 1].cash = T[k].cash - c
                  /\ U[k + 1].units = U[k].units + q /\ T[k + 1].units = T[k].units + q
                  /\ U[k + 1].fills = U[k].fills + 1 /\ T[k + 1].fills = T[k].fills + 1
              BY <5>1
            <6>2. n \in Int /\ c \in Int /\ q \in Int
              BY <5>1
            <6>3. U[k + 1].net - T[k + 1].net = U[k].net - T[k].net
              BY ONLY <5>2, <6>1, <6>2
            <6>4. U[k + 1].cash - T[k + 1].cash = U[k].cash - T[k].cash
              BY ONLY <5>2, <6>1, <6>2
            <6>5. U[k + 1].units - T[k + 1].units = U[k].units - T[k].units
              BY ONLY <5>2, <6>1, <6>2
            <6>6. U[k + 1].fills - T[k + 1].fills = U[k].fills - T[k].fills
              BY ONLY <5>2, <6>1, <6>2
            <6> QED
              BY <6>3, <6>4, <6>5, <6>6
          <5> QED
            BY <5>3
        <4>2. CASE ~(o.symbol = s /\ o.status = "FILLED")
          <5>1. U[k + 1] = U[k] /\ T[k + 1] = T[k]
            BY <2>4, <2>5, <3>1, <4>2, WithAdds
          <5> QED
            BY <5>1
        <4> QED
          BY <4>1, <4>2
      <3> HIDE DEF W
      <3> QED
        BY <2>3, <3>1, <3>2
    <2> QED
      BY <2>6, <2>7
  <1> HIDE DEF P
  <1>12. len \in P
    BY <1>1, <1>10, <1>11, FromZero
  <1>13. Agrees(book[len].position, book[len].earned, U[len])
    <2> HIDE DEF W
    <2> QED
      BY <1>1, <1>9, <1>12 DEF P
  <1>14. B!BookAfter(seq, s, ltp) = book[len]
    BY DEF B!BookAfter, book, len
  <1> QED
    BY <1>2, <1>5, <1>8, <1>13, <1>14 DEF new
-----------------------------------------------------------------------------
(* The broker's inductive invariant: what it keeps is well typed, and each   *)
(* symbol's book agrees with the trades of its filled orders.                *)

Sound(seq, l, e) ==
    /\ Placed(seq) /\ Len(seq) <= MaxOrders
    /\ l \in [Symbols -> B!PositionType] /\ e \in [Symbols -> Int]
    /\ \A s \in Symbols : Held(l[s]) /\ Agrees(l[s], e[s], Traded(seq, s))

LastType == [Symbols -> Prices \cup {0}]

BrokerInv == Sound(orders, ledger, earned) /\ last \in LastType

\* Prices shown fill the orders they reach, and mark the position.
LEMMA PricedKeeps ==
    ASSUME NEW seq, Sound(seq, ledger, earned), NEW s \in Symbols, NEW ltp \in Nat \ {0},
           NEW p, Held(p),
           LET b == B!BookAfter(seq, s, ltp)
           IN  p.side = b.position.side /\ p.qty = b.position.qty /\ p.avg = b.position.avg
    PROVE  Sound(B!Filled(seq, s, ltp), [ledger EXCEPT ![s] = p],
                 [earned EXCEPT ![s] = B!BookAfter(seq, s, ltp).earned])
  <1> DEFINE b == B!BookAfter(seq, s, ltp)
             new == B!Filled(seq, s, ltp)
             l == [ledger EXCEPT ![s] = p]
             e == [earned EXCEPT ![s] = b.earned]
  <1>1. /\ Placed(seq) /\ Len(seq) <= MaxOrders
        /\ ledger \in [Symbols -> B!PositionType] /\ earned \in [Symbols -> Int]
        /\ \A s2 \in Symbols : Held(ledger[s2]) /\ Agrees(ledger[s2], earned[s2], Traded(seq, s2))
    BY DEF Sound
  <1>2. earned[s] \in Int
    BY <1>1
  <1>3. b \in Book /\ Agrees(b.position, b.earned, Traded(new, s))
    BY <1>1, <1>2, BooksAgree
  <1>4. /\ Placed(new) /\ Len(new) = Len(seq) /\ Len(seq) \in Nat
        /\ \A i \in 1..Len(seq) :
              /\ seq[i] \in B!OrderType
              /\ new[i] = IF B!Reached(seq[i], s, ltp) THEN B!Execution(seq[i], ltp)
                          ELSE seq[i]
    BY <1>1, FilledIs
  <1> HIDE DEF b, new
  <1>5. p.side = b.position.side /\ p.qty = b.position.qty /\ p.avg = b.position.avg
    BY DEF b
  <1>6. Agrees(p, b.earned, Traded(new, s))
    <2>1. Net(p) = Net(b.position)
      BY <1>5 DEF Net
    <2> QED
      BY <1>3, <1>5, <2>1 DEF Agrees, Balanced, Drift
  <1>7. b.earned \in Int /\ p \in B!PositionType
    BY <1>3 DEF Book, Held
  <1>8. l \in [Symbols -> B!PositionType] /\ e \in [Symbols -> Int]
    BY <1>1, <1>7
  \* The trades of the other symbols are as they were.
  <1>9. ASSUME NEW s2 \in Symbols, s2 # s
        PROVE  Traded(new, s2) = Traded(seq, s2)
    <2>1. ASSUME NEW i \in 1..Len(seq), NEW t \in TradeType
          PROVE  With(t, seq[i], s2) = With(t, new[i], s2)
      <3>1. CASE B!Reached(seq[i], s, ltp)
        <4>1. seq[i].symbol = s /\ seq[i] \in B!OrderType
          BY <1>4, <3>1 DEF B!Reached
        <4>2. new[i] = B!Execution(seq[i], ltp)
          BY <1>4, <3>1
        <4>3. B!Execution(seq[i], ltp).symbol = s
          BY <4>1, ExecutionIs
        <4> QED
          BY <1>9, <4>1, <4>2, <4>3 DEF With
      <3>2. CASE ~B!Reached(seq[i], s, ltp)
        BY <1>4, <3>2
      <3> QED
        BY <3>1, <3>2
    <2>2. seq \in Seq(B!OrderType) /\ new \in Seq(B!OrderType)
      BY <1>1, <1>4 DEF Placed
    <2>3. TradedUpTo(seq, s2)[Len(seq)] = TradedUpTo(new, s2)[Len(seq)]
      BY <1>4, <2>1, <2>2, SameTrades
    <2> QED
      BY <1>4, <2>3 DEF Traded
  <1>10. ASSUME NEW s2 \in Symbols
         PROVE  Held(l[s2]) /\ Agrees(l[s2], e[s2], Traded(new, s2))
    <2>1. CASE s2 = s
      <3>1. l[s2] = p /\ e[s2] = b.earned
        BY <1>1, <2>1
      <3> QED
        BY <1>6, <2>1, <3>1
    <2>2. CASE s2 # s
      <3>1. l[s2] = ledger[s2] /\ e[s2] = earned[s2]
        BY <1>1, <2>2
      <3> QED
        BY <1>1, <1>9, <2>2, <3>1
    <2> QED
      BY <2>1, <2>2
  <1> HIDE DEF l, e
  <1>11. Sound(new, l, e)
    BY <1>1, <1>4, <1>8, <1>10 DEF Sound
  <1> QED
    BY <1>11 DEF new, l, e, b

\* The books do not change with an order that is not filled.
LEMMA AddedKeeps ==
    ASSUME Sound(orders, ledger, earned), Len(orders) < MaxOrders,
           NEW o \in B!OrderType, o.status # "FILLED", o.status = "OPEN" => o.qty > 0
    PROVE  Sound(Append(orders, o), ledger, earned)
  <1> DEFINE seq == Append(orders, o)
  <1>1. /\ orders \in Seq(B!OrderType)
        /\ \A i \in DOMAIN orders : orders[i].status \in {"OPEN", "FILLED"} => orders[i].qty > 0
    BY DEF Sound, Placed
  <1>2. /\ seq \in Seq(B!OrderType) /\ Len(seq) = Len(orders) + 1 /\ Len(orders) \in Nat
        /\ DOMAIN orders = 1..Len(orders) /\ DOMAIN seq = 1..Len(orders) + 1
        /\ seq[Len(orders) + 1] = o /\ \A i \in 1..Len(orders) : seq[i] = orders[i]
    BY <1>1
  <1>3. \A s \in Symbols : Traded(seq, s) = Traded(orders, s)
    BY <1>1, TradedAppend DEF With
  <1> HIDE DEF seq
  <1>4. ASSUME NEW i \in DOMAIN seq, seq[i].status \in {"OPEN", "FILLED"}
        PROVE  seq[i].qty > 0
    <2>1. CASE i = Len(orders) + 1
      BY <1>2, <1>4, <2>1
    <2>2. CASE i # Len(orders) + 1
      <3>1. i \in 1..Len(orders)
        BY <1>2, <2>2
      <3> QED
        BY <1>1, <1>2, <1>4, <3>1
    <2> QED
      BY <2>1, <2>2
  <1>5. MaxOrders \in Nat /\ Len(seq) <= MaxOrders
    BY <1>2, PaperAssumption
  <1>6. Placed(seq)
    BY <1>2, <1>4 DEF Placed
  <1>7. Sound(seq, ledger, earned)
    BY <1>3, <1>5, <1>6 DEF Sound
  <1> QED
    BY <1>7 DEF seq

LEMMA ChangedKeeps ==
    ASSUME Sound(orders, ledger, earned), NEW i \in DOMAIN orders,
           orders[i].status = "OPEN",
           NEW o \in B!OrderType, o.status # "FILLED", o.status = "OPEN" => o.qty > 0
    PROVE  Sound([orders EXCEPT ![i] = o], ledger, earned)
  <1> DEFINE seq == [orders EXCEPT ![i] = o]
  <1>1. /\ orders \in Seq(B!OrderType)
        /\ \A j \in DOMAIN orders : orders[j].status \in {"OPEN", "FILLED"} => orders[j].qty > 0
    BY DEF Sound, Placed
  <1>2. /\ seq \in Seq(B!OrderType) /\ Len(seq) = Len(orders) /\ Len(orders) \in Nat
        /\ DOMAIN seq = DOMAIN orders /\ DOMAIN orders = 1..Len(orders)
        /\ \A j \in DOMAIN orders : seq[j] = IF j = i THEN o ELSE orders[j]
    BY <1>1
  <1> HIDE DEF seq
  <1>3. ASSUME NEW s \in Symbols
        PROVE  Traded(seq, s) = Traded(orders, s)
    <2>1. \A j \in 1..Len(orders), t \in TradeType : With(t, seq[j], s) = With(t, orders[j], s)
      BY <1>2 DEF With
    <2>2. TradedUpTo(seq, s)[Len(orders)] = TradedUpTo(orders, s)[Len(orders)]
      BY <1>1, <1>2, <2>1, SameTrades
    <2> QED
      BY <1>2, <2>2 DEF Traded
  <1>4. Placed(seq)
    BY <1>1, <1>2 DEF Placed
  <1>5. Sound(seq, ledger, earned)
    BY <1>2, <1>3, <1>4 DEF Sound
  <1> QED
    BY <1>5 DEF seq

LEMMA NewOrderIs ==
    ASSUME NEW s \in Symbols, NEW side \in B!Sides, NEW type \in B!Types,
           NEW qty \in Quantities, NEW price \in Prices, NEW trigger \in Triggers \cup {0}
    PROVE  LET o == B!NewOrder(s, side, type, qty, price, trigger)
           IN  /\ o \in B!OrderType /\ o.status = "OPEN" /\ o.qty = qty
               /\ o.symbol = s /\ o.type = type
               /\ B!Untraded(o, "REJECTED") \in B!OrderType
               /\ B!Untraded(o, "REJECTED").status = "REJECTED"
  <1> DEFINE o == B!NewOrder(s, side, type, qty, price, trigger)
             r == B!Untraded(o, "REJECTED")
  <1>1. o = [symbol |-> s, side |-> side, type |-> type, qty |-> qty, price |-> price,
             trigger |-> trigger, status |-> "OPEN", fill |-> 0]
    BY DEF B!NewOrder
  <1>2. r = [symbol |-> s, side |-> "BUY", type |-> type, qty |-> 0, price |-> 0,
             trigger |-> 0, status |-> "REJECTED", fill |-> 0]
    BY <1>1 DEF B!Untraded, B!NewOrder
  <1> HIDE DEF o, r
  <1>3. o \in B!OrderType
    BY <1>1 DEF B!OrderType
  <1>4. r \in B!OrderType
    BY <1>2 DEF B!OrderType, B!Sides
  <1>5. /\ o \in B!OrderType /\ o.status = "OPEN" /\ o.qty = qty /\ o.symbol = s /\ o.type = type
        /\ r \in B!OrderType /\ r.status = "REJECTED"
    BY <1>1, <1>2, <1>3, <1>4
  <1> QED
    BY ONLY <1>5 DEF o, r

LEMMA LastPrice ==
    ASSUME last \in LastType, NEW s \in Symbols
    PROVE  last[s] \in Nat
  <1>1. last[s] \in Prices \cup {0}
    BY DEF LastType
  <1>2. \A price \in Prices \cup {0} : price \in Nat
    BY PaperAssumption
  <1> QED
    BY ONLY <1>1, <1>2, Zenon

LEMMA FillAtLastKeeps ==
    ASSUME NEW seq, Sound(seq, ledger, earned), last \in LastType, NEW s \in Symbols,
           B!FillAtLast(seq, s)
    PROVE  Sound(orders', ledger', earned')
  <1>1. CASE last[s] > 0
    <2> DEFINE ltp == last[s]
               b == B!BookAfter(seq, s, ltp)
    <2>1. ltp \in Nat \ {0}
      BY <1>1, LastPrice
    <2>2. Placed(seq) /\ Held(ledger[s]) /\ earned[s] \in Int
          /\ Agrees(ledger[s], earned[s], Traded(seq, s))
      BY DEF Sound
    <2> HIDE DEF ltp
    <2>3. b \in Book
      BY <2>1, <2>2, BooksAgree
    <2>4. Held(b.position)
      BY <2>3 DEF Book
    <2>5. /\ orders' = B!Filled(seq, s, ltp)
          /\ ledger' = [ledger EXCEPT ![s] = b.position]
          /\ earned' = [earned EXCEPT ![s] = b.earned]
      BY <1>1 DEF B!FillAtLast, B!TryFill, ltp
    <2> QED
      BY <2>1, <2>4, <2>5, PricedKeeps
  <1>2. CASE ~(last[s] > 0)
    BY <1>2 DEF B!FillAtLast
  <1> QED
    BY <1>1, <1>2

LEMMA UpdateMarketPriceKeeps ==
    ASSUME BrokerInv, NEW s \in Symbols, NEW ltp \in Prices, B!UpdateMarketPrice(s, ltp)
    PROVE  BrokerInv'
  <1> DEFINE b == B!BookAfter(orders, s, ltp)
             p == B!Marked(b.position, ltp)
  <1>1. ltp \in Nat \ {0}
    BY PaperAssumption DEF B!UpdateMarketPrice
  <1>2. /\ Sound(orders, ledger, earned) /\ last \in LastType
        /\ Placed(orders) /\ Held(ledger[s]) /\ earned[s] \in Int
        /\ Agrees(ledger[s], earned[s], Traded(orders, s))
    BY DEF BrokerInv, Sound
  <1>3. b \in Book
    BY <1>1, <1>2, BooksAgree
  <1>4. /\ orders' = B!Filled(orders, s, ltp)
        /\ ledger' = [ledger EXCEPT ![s] = p]
        /\ earned' = [earned EXCEPT ![s] = b.earned]
        /\ last' = [last EXCEPT ![s] = ltp]
    BY DEF B!UpdateMarketPrice
  <1> HIDE DEF b
  <1>5. /\ Held(p) /\ p.side = b.position.side /\ p.qty = b.position.qty
        /\ p.avg = b.position.avg
    <2> DEFINE q == b.position
    <2>1. q \in B!PositionType /\ Held(q) /\ q.side \in B!Sides /\ q.avg \in Nat /\ q.qty \in Nat
      BY <1>3 DEF Book, B!PositionType
    <2> HIDE DEF q
    <2>2. CASE q = B!None
      BY <2>1, <2>2 DEF B!Marked, q
    <2>3. CASE q # B!None
      <3> DEFINE gain == B!Realized(q.side, q.avg, ltp, q.qty)
      <3>1. gain \in Int
        <4>1. (ltp - q.avg) * q.qty \in Int /\ (q.avg - ltp) * q.qty \in Int
          BY <1>1, <2>1
        <4> QED
          BY <4>1 DEF B!Realized
      <3>2. p = [q EXCEPT !.unrealized = gain]
        BY <2>3 DEF B!Marked, q
      <3> HIDE DEF p, gain
      <3>3. /\ p \in B!PositionType /\ p.side = q.side /\ p.qty = q.qty /\ p.avg = q.avg
        BY <2>1, <3>1, <3>2 DEF B!PositionType
      <3>4. Held(p)
        BY <2>1, <2>3, <3>3 DEF Held
      <3> QED
        BY <3>3, <3>4 DEF q
    <2> QED
      BY <2>2, <2>3
  <1> HIDE DEF p
  <1>6. Sound(orders', ledger', earned')
    BY <1>1, <1>2, <1>4, <1>5, PricedKeeps DEF b
  <1>7. last' \in LastType
    BY <1>2, <1>4 DEF LastType
  <1> QED
    BY <1>6, <1>7 DEF BrokerInv

LEMMA PlaceLimitOrderKeeps ==
    ASSUME BrokerInv, NEW s \in Symbols, NEW side \in B!Sides, NEW qty \in Quantities,
           NEW price \in Prices, B!PlaceLimitOrder(s, side, qty, price)
    PROVE  BrokerInv'
  <1> DEFINE o == B!NewOrder(s, side, "LIMIT", qty, price, 0)
  <1>1. /\ o \in B!OrderType /\ o.status = "OPEN" /\ o.qty = qty
        /\ B!Untraded(o, "REJECTED") \in B!OrderType
        /\ B!Untraded(o, "REJECTED").status = "REJECTED"
    BY NewOrderIs DEF B!Types
  <1>2. /\ Len(orders) < MaxOrders
        /\ \/ qty > 0 /\ B!FillAtLast(Append(orders, o), s)
           \/ B!Reject(o)
        /\ last' = last
    BY DEF B!PlaceLimitOrder
  <1> HIDE DEF o
  <1>3. Sound(orders, ledger, earned) /\ last \in LastType
    BY DEF BrokerInv
  <1>4. CASE qty > 0 /\ B!FillAtLast(Append(orders, o), s)
    <2>1. Sound(Append(orders, o), ledger, earned)
      BY <1>1, <1>2, <1>3, <1>4, AddedKeeps
    <2> QED
      BY <1>2, <1>3, <1>4, <2>1, FillAtLastKeeps DEF BrokerInv
  <1>5. CASE B!Reject(o)
    <2>1. Sound(Append(orders, B!Untraded(o, "REJECTED")), ledger, earned)
      BY <1>1, <1>2, <1>3, AddedKeeps
    <2> QED
      BY <1>2, <1>3, <1>5, <2>1 DEF B!Reject, BrokerInv
  <1> QED
    BY <1>2, <1>4, <1>5

LEMMA PlaceSlLimitOrderKeeps ==
    ASSUME BrokerInv, NEW s \in Symbols, NEW side \in B!Sides, NEW qty \in Quantities,
           NEW price \in Prices, NEW trigger \in Triggers,
           B!PlaceSlLimitOrder(s, side, qty, price, trigger)
    PROVE  BrokerInv'
  <1> DEFINE o == B!NewOrder(s, side, "STOPLOSS_LIMIT", qty, price, trigger)
  <1>1. /\ o \in B!OrderType /\ o.status = "OPEN" /\ o.qty = qty
        /\ B!Untraded(o, "REJECTED") \in B!OrderType
        /\ B!Untraded(o, "REJECTED").status = "REJECTED"
    BY NewOrderIs DEF B!Types
  <1>2. /\ Len(orders) < MaxOrders
        /\ \/ /\ qty > 0 /\ orders' = Append(orders, o)
              /\ ledger' = ledger /\ earned' = earned
           \/ B!Reject(o)
        /\ last' = last
    BY DEF B!PlaceSlLimitOrder
  <1> HIDE DEF o
  <1>3. Sound(orders, ledger, earned) /\ last \in LastType
    BY DEF BrokerInv
  <1>4. CASE qty > 0 /\ orders' = Append(orders, o) /\ ledger' = ledger /\ earned' = earned
    <2>1. Sound(Append(orders, o), ledger, earned)
      BY <1>1, <1>2, <1>3, <1>4, AddedKeeps
    <2> QED
      BY <1>2, <1>3, <1>4, <2>1 DEF BrokerInv
  <1>5. CASE B!Reject(o)
    <2>1. Sound(Append(orders, B!Untraded(o, "REJECTED")), ledger, earned)
      BY <1>1, <1>2, <1>3, AddedKeeps
    <2> QED
      BY <1>2, <1>3, <1>5, <2>1 DEF B!Reject, BrokerInv
  <1> QED
    BY <1>2, <1>4, <1>5

\* An order whose price and trigger were changed.
Moved(o, price, trigger) ==
    [o EXCEPT !.price = price, !.trigger = IF trigger > 0 THEN trigger ELSE @]

LEMMA ModifyOrderIs ==
    ASSUME Sound(orders, ledger, earned), NEW i \in DOMAIN orders,
           NEW price \in Prices, NEW trigger \in Triggers \cup {0},
           B!ModifyOrder(i, price, trigger)
    PROVE  LET o == Moved(orders[i], price, trigger)
           IN  /\ orders[i] \in B!OrderType /\ orders[i].status = "OPEN" /\ last' = last
               /\ o \in B!OrderType /\ o.status = "OPEN" /\ o.symbol = orders[i].symbol
               /\ o.qty = orders[i].qty /\ orders[i].qty > 0
               /\ B!FillAtLast([orders EXCEPT ![i] = o], orders[i].symbol)
  <1> DEFINE o == Moved(orders[i], price, trigger)
             seq == [orders EXCEPT ![i].price = price,
                                   ![i].trigger = IF trigger > 0 THEN trigger ELSE @]
  <1>1. orders \in Seq(B!OrderType) /\ orders[i] \in B!OrderType
    BY DEF Sound, Placed
  <1>2. orders[i].status = "OPEN" /\ last' = last /\ B!FillAtLast(seq, orders[i].symbol)
    BY DEF B!ModifyOrder, B!StillOpen, B!AfterModify
  <1>3. seq = [orders EXCEPT ![i] = o]
    BY <1>1 DEF Moved, B!OrderType
  <1>4. o \in B!OrderType /\ o.status = "OPEN" /\ o.symbol = orders[i].symbol /\ o.qty = orders[i].qty
    BY <1>1, <1>2 DEF Moved, B!OrderType
  <1>5. orders[i].qty > 0
    BY <1>2 DEF Sound, Placed
  <1> HIDE DEF o, seq
  <1> QED
    BY <1>1, <1>2, <1>3, <1>4, <1>5 DEF o

LEMMA ModifyOrderKeeps ==
    ASSUME BrokerInv, NEW i \in DOMAIN orders, NEW price \in Prices,
           NEW trigger \in Triggers \cup {0}, B!ModifyOrder(i, price, trigger)
    PROVE  BrokerInv'
  <1> DEFINE o == Moved(orders[i], price, trigger)
  <1>1. Sound(orders, ledger, earned) /\ last \in LastType
    BY DEF BrokerInv
  <1>2. /\ orders[i] \in B!OrderType /\ orders[i].status = "OPEN" /\ last' = last
        /\ o \in B!OrderType /\ o.status = "OPEN" /\ o.qty > 0
        /\ B!FillAtLast([orders EXCEPT ![i] = o], orders[i].symbol)
    BY <1>1, ModifyOrderIs
  <1> HIDE DEF o
  <1>3. Sound([orders EXCEPT ![i] = o], ledger, earned)
    BY <1>1, <1>2, ChangedKeeps
  <1>4. orders[i].symbol \in Symbols
    BY <1>2, OrderFields
  <1> QED
    BY <1>1, <1>2, <1>3, <1>4, FillAtLastKeeps DEF BrokerInv

LEMMA CancelOrderIs ==
    ASSUME Sound(orders, ledger, earned), NEW i \in DOMAIN orders, B!CancelOrder(i)
    PROVE  LET o == B!Untraded(orders[i], "CANCELLED")
           IN  /\ orders[i].status = "OPEN" /\ o \in B!OrderType /\ o.status = "CANCELLED"
               /\ orders' = [orders EXCEPT ![i] = o]
               /\ ledger' = ledger /\ last' = last /\ earned' = earned
  <1>1. orders \in Seq(B!OrderType) /\ orders[i] \in B!OrderType
    BY DEF Sound, Placed
  <1>2. /\ orders[i].symbol \in Symbols /\ orders[i].type \in B!Types
    BY <1>1, OrderFields DEF B!Types
  <1>3. /\ B!Untraded(orders[i], "CANCELLED") \in B!OrderType
        /\ B!Untraded(orders[i], "CANCELLED").status = "CANCELLED"
    BY <1>2 DEF B!Untraded, B!NewOrder, B!OrderType, B!Sides
  <1> QED
    BY <1>3 DEF B!CancelOrder, B!StillOpen

LEMMA CancelOrderKeeps ==
    ASSUME BrokerInv, NEW i \in DOMAIN orders, B!CancelOrder(i)
    PROVE  BrokerInv'
  <1>1. Sound(orders, ledger, earned) /\ last \in LastType
    BY DEF BrokerInv
  <1> QED
    BY <1>1, CancelOrderIs, ChangedKeeps DEF BrokerInv

LEMMA BrokerStarts == B!Init => BrokerInv
  <1> SUFFICES ASSUME B!Init PROVE BrokerInv
    OBVIOUS
  <1>1. /\ orders = <<>> /\ ledger = [s \in Symbols |-> B!None]
        /\ last = [s \in Symbols |-> 0] /\ earned = [s \in Symbols |-> 0]
    BY DEF B!Init
  <1>2. Placed(orders) /\ Len(orders) = 0 /\ MaxOrders \in Nat
    BY <1>1, PaperAssumption DEF Placed
  <1>3. ledger \in [Symbols -> B!PositionType] /\ earned \in [Symbols -> Int] /\ last \in LastType
    BY <1>1, NoneIsPosition DEF LastType
  <1>4. ASSUME NEW s \in Symbols
        PROVE  Held(ledger[s]) /\ Agrees(ledger[s], earned[s], Traded(orders, s))
    <2>1. ledger[s] = B!None /\ earned[s] = 0
      BY <1>1
    <2>2. Traded(orders, s) = NoTrade
      BY <1>2, TradedRuns DEF Traded, Placed
    <2>3. Net(ledger[s]) = 0 /\ ledger[s].qty = 0 /\ ledger[s].avg = 0
      BY <2>1, NoneIsPosition DEF Net, Signed
    <2>4. Drift(ledger[s], earned[s], NoTrade) = 0 /\ Slack(NoTrade) = 0
      BY <2>1, <2>3 DEF Drift, Slack, NoTrade
    <2>5. Agrees(ledger[s], earned[s], NoTrade)
      BY <2>3, <2>4 DEF Agrees, Balanced, NoTrade
    <2>6. Held(ledger[s])
      BY <2>1, NoneIsPosition DEF Held
    <2> QED
      BY <2>2, <2>5, <2>6
  <1> QED
    BY <1>2, <1>3, <1>4 DEF BrokerInv, Sound

LEMMA BrokerKeeps == BrokerInv /\ [B!Next]_(B!vars) => BrokerInv'
  <1> SUFFICES ASSUME BrokerInv, [B!Next]_(B!vars) PROVE BrokerInv'
    OBVIOUS
  <1>1. ASSUME NEW s \in Symbols, NEW ltp \in Prices, B!UpdateMarketPrice(s, ltp)
        PROVE  BrokerInv'
    BY <1>1, UpdateMarketPriceKeeps
  <1>2. ASSUME NEW s \in Symbols, NEW side \in B!Sides, NEW qty \in Quantities,
               NEW price \in Prices, B!PlaceLimitOrder(s, side, qty, price)
        PROVE  BrokerInv'
    BY <1>2, PlaceLimitOrderKeeps
  <1>3. ASSUME NEW s \in Symbols, NEW side \in B!Sides, NEW qty \in Quantities,
               NEW price \in Prices, NEW trigger \in Triggers,
               B!PlaceSlLimitOrder(s, side, qty, price, trigger)
        PROVE  BrokerInv'
    BY <1>3, PlaceSlLimitOrderKeeps
  <1>4. ASSUME NEW i \in DOMAIN orders, B!CancelOrder(i)
        PROVE  BrokerInv'
    BY <1>4, CancelOrderKeeps
  <1>5. ASSUME NEW i \in DOMAIN orders, NEW price \in Prices,
               NEW trigger \in Triggers \cup {0}, B!ModifyOrder(i, price, trigger)
        PROVE  BrokerInv'
    BY <1>5, ModifyOrderKeeps
  <1>6. CASE UNCHANGED B!vars
    BY <1>6 DEF B!vars, BrokerInv
  <1> QED
    BY <1>1, <1>2, <1>3, <1>4, <1>5, <1>6 DEF B!Next

LEMMA BrokerHolds == B!Spec => []BrokerInv
  BY BrokerStarts, BrokerKeeps, PTL DEF B!Spec
-----------------------------------------------------------------------------
(***************************************************************************)
(* What the paper broker keeps is well typed; an order that may still      *)
(* trade has a quantity, and so has a position.                            *)
(***************************************************************************)
THEOREM BrokerTypes == B!Spec => []B!TypeOK
  <1>1. BrokerInv => B!TypeOK
    BY DEF BrokerInv, Sound, Placed, Held, LastType, B!TypeOK
  <1> QED
    BY <1>1, BrokerHolds, PTL

(***************************************************************************)
(* NetIsFills for all prices, quantities and sequences of orders: the      *)
(* position of a symbol is the net of its filled orders.                   *)
(***************************************************************************)
THEOREM PositionsAreNet == B!Spec => []NetIsFills
  <1>1. BrokerInv => NetIsFills
    BY DEF BrokerInv, Sound, Agrees, NetIsFills
  <1> QED
    BY <1>1, BrokerHolds, PTL

(***************************************************************************)
(* BooksBalance for all prices, quantities and sequences of orders: cash,  *)
(* realized P&L and the cost of what is held agree up to half a hundredth  *)
(* for each unit at each fill.                                             *)
(***************************************************************************)
THEOREM BooksStayBalanced == B!Spec => []BooksBalance
  <1>1. BrokerInv => BooksBalance
    BY DEF BrokerInv, Sound, Agrees, BooksBalance
  <1> QED
    BY <1>1, BrokerHolds, PTL
-----------------------------------------------------------------------------
(* Limit orders and the last price. *)

\* An open limit order does not lie at or inside the last price l[symbol].
Outside(o, l) ==
    o.status = "OPEN" /\ o.type = "LIMIT" /\ l[o.symbol] > 0 => ~LimitFillable(o, l[o.symbol])

LEMMA NoneMissedIs == NoLimitMissed <=> \A i \in DOMAIN orders : Outside(orders[i], last)
  BY DEF NoLimitMissed, Outside

\* After the orders were matched with the last price of a symbol, none of it
\* lies inside; those of the others are as they were.
LEMMA MatchedOutside ==
    ASSUME NEW seq, Placed(seq), NEW s \in Symbols, NEW ltp \in Nat \ {0},
           NEW l, l[s] = ltp,
           \A i \in DOMAIN seq : seq[i].symbol # s => Outside(seq[i], l)
    PROVE  \A i \in DOMAIN B!Filled(seq, s, ltp) : Outside(B!Filled(seq, s, ltp)[i], l)
  <1> DEFINE new == B!Filled(seq, s, ltp)
  <1>1. DOMAIN new = DOMAIN seq
    BY DEF B!Filled
  <1>2. ASSUME NEW i \in DOMAIN seq
        PROVE  Outside(new[i], l)
    <2>1. seq[i] \in B!OrderType
      BY DEF Placed
    <2>2. CASE B!Reached(seq[i], s, ltp)
      <3>1. new[i] = B!Execution(seq[i], ltp)
        BY <2>2 DEF B!Filled
      <3>2. B!Execution(seq[i], ltp).status = "FILLED"
        BY <2>1, ExecutionIs
      <3> QED
        BY <3>1, <3>2 DEF Outside
    <2>3. CASE ~B!Reached(seq[i], s, ltp)
      <3>1. new[i] = seq[i]
        BY <2>3 DEF B!Filled
      <3> HIDE DEF new
      <3>2. CASE seq[i].symbol = s
        BY <2>3, <3>1, <3>2 DEF B!Reached, B!Fillable, B!LimitFillable, LimitFillable, Outside
      <3>3. CASE seq[i].symbol # s
        BY <3>1, <3>3
      <3> QED
        BY <3>2, <3>3
    <2> QED
      BY <2>2, <2>3
  <1> HIDE DEF new
  <1>3. \A i \in DOMAIN new : Outside(new[i], l)
    BY <1>1, <1>2
  <1> QED
    BY <1>3 DEF new

LEMMA FillAtLastOutside ==
    ASSUME NEW seq, Placed(seq), last \in LastType, NEW s \in Symbols, B!FillAtLast(seq, s),
           \A i \in DOMAIN seq : seq[i].symbol # s => Outside(seq[i], last)
    PROVE  \A i \in DOMAIN orders' : Outside(orders'[i], last)
  <1>1. CASE last[s] > 0
    <2>1. last[s] \in Nat \ {0}
      BY <1>1, LastPrice
    <2>2. orders' = B!Filled(seq, s, last[s])
      BY <1>1 DEF B!FillAtLast, B!TryFill
    <2> QED
      BY <2>1, <2>2, MatchedOutside
  <1>2. CASE ~(last[s] > 0)
    <2>1. orders' = seq
      BY <1>2 DEF B!FillAtLast
    <2>2. ASSUME NEW i \in DOMAIN seq PROVE Outside(seq[i], last)
      BY <1>2 DEF Outside
    <2> QED
      BY <2>1, <2>2
  <1> QED
    BY <1>1, <1>2

\* An order more that need not be matched, or one whose symbol is.
LEMMA AppendOutside ==
    ASSUME NEW seq \in Seq(B!OrderType), NEW o \in B!OrderType, NEW l, NEW s,
           \A i \in DOMAIN seq : Outside(seq[i], l)
    PROVE  /\ Outside(o, l) => \A i \in DOMAIN Append(seq, o) : Outside(Append(seq, o)[i], l)
           /\ o.symbol = s => \A i \in DOMAIN Append(seq, o) :
                 Append(seq, o)[i].symbol # s => Outside(Append(seq, o)[i], l)
  <1> DEFINE new == Append(seq, o)
  <1>1. /\ Len(seq) \in Nat /\ DOMAIN seq = 1..Len(seq) /\ DOMAIN new = 1..Len(seq) + 1
        /\ new[Len(seq) + 1] = o /\ \A i \in 1..Len(seq) : new[i] = seq[i]
    OBVIOUS
  <1> HIDE DEF new
  <1>2. ASSUME NEW i \in DOMAIN new
        PROVE  new[i] = o \/ Outside(new[i], l)
    <2>1. CASE i = Len(seq) + 1
      BY <1>1, <2>1
    <2>2. CASE i # Len(seq) + 1
      <3>1. i \in 1..Len(seq)
        BY <1>1, <2>2
      <3> QED
        BY <1>1, <3>1
    <2> QED
      BY <2>1, <2>2
  <1> QED
    BY <1>2 DEF new

LEMMA NoneMissedKeeps ==
    BrokerInv /\ NoLimitMissed /\ [B!Next]_(B!vars) => NoLimitMissed'
  <1> SUFFICES ASSUME BrokerInv, NoLimitMissed, [B!Next]_(B!vars)
               PROVE  \A i \in DOMAIN orders' : Outside(orders'[i], last')
    BY DEF NoLimitMissed, Outside
  <1>1. /\ Sound(orders, ledger, earned) /\ last \in LastType /\ Placed(orders)
        /\ orders \in Seq(B!OrderType)
        /\ \A i \in DOMAIN orders : orders[i] \in B!OrderType /\ Outside(orders[i], last)
    BY NoneMissedIs DEF BrokerInv, Sound, Placed
  <1>2. ASSUME NEW s \in Symbols, NEW ltp \in Prices, B!UpdateMarketPrice(s, ltp)
        PROVE  \A i \in DOMAIN orders' : Outside(orders'[i], last')
    <2>1. /\ ltp \in Nat \ {0} /\ orders' = B!Filled(orders, s, ltp)
          /\ last' = [last EXCEPT ![s] = ltp]
      BY <1>2, PaperAssumption DEF B!UpdateMarketPrice
    <2>2. last'[s] = ltp /\ \A s2 \in Symbols : s2 # s => last'[s2] = last[s2]
      BY <1>1, <2>1 DEF LastType
    <2>3. ASSUME NEW i \in DOMAIN orders, orders[i].symbol # s
          PROVE  Outside(orders[i], last')
      <3>1. orders[i].symbol \in Symbols /\ Outside(orders[i], last)
        BY <1>1, OrderFields
      <3> QED
        BY <2>2, <2>3, <3>1 DEF Outside
    <2> QED
      BY <1>1, <2>1, <2>2, <2>3, MatchedOutside
  <1>3. ASSUME NEW o \in B!OrderType, B!Reject(o), last' = last,
               B!Untraded(o, "REJECTED") \in B!OrderType,
               B!Untraded(o, "REJECTED").status = "REJECTED"
        PROVE  \A i \in DOMAIN orders' : Outside(orders'[i], last')
    <2>1. orders' = Append(orders, B!Untraded(o, "REJECTED"))
      BY <1>3 DEF B!Reject
    <2>2. Outside(B!Untraded(o, "REJECTED"), last)
      BY <1>3 DEF Outside
    <2> QED
      BY <1>1, <1>3, <2>1, <2>2, AppendOutside
  <1>4. ASSUME NEW s \in Symbols, NEW side \in B!Sides, NEW qty \in Quantities,
               NEW price \in Prices, B!PlaceLimitOrder(s, side, qty, price)
        PROVE  \A i \in DOMAIN orders' : Outside(orders'[i], last')
    <2> DEFINE o == B!NewOrder(s, side, "LIMIT", qty, price, 0)
    <2>1. /\ o \in B!OrderType /\ o.symbol = s /\ o.status = "OPEN" /\ o.qty = qty
          /\ B!Untraded(o, "REJECTED") \in B!OrderType
          /\ B!Untraded(o, "REJECTED").status = "REJECTED"
      BY NewOrderIs DEF B!Types
    <2>2. /\ Len(orders) < MaxOrders /\ last' = last
          /\ \/ qty > 0 /\ B!FillAtLast(Append(orders, o), s)
             \/ B!Reject(o)
      BY <1>4 DEF B!PlaceLimitOrder
    <2> HIDE DEF o
    <2>3. CASE qty > 0 /\ B!FillAtLast(Append(orders, o), s)
      <3>1. \A i \in DOMAIN Append(orders, o) :
               Append(orders, o)[i].symbol # s => Outside(Append(orders, o)[i], last)
        BY <1>1, <2>1, AppendOutside
      <3>2. Placed(Append(orders, o))
        BY <1>1, <2>1, <2>2, <2>3, AddedKeeps DEF Sound
      <3> QED
        BY <1>1, <2>2, <2>3, <3>1, <3>2, FillAtLastOutside
    <2>4. CASE B!Reject(o)
      BY <1>3, <2>1, <2>2, <2>4
    <2> QED
      BY <2>2, <2>3, <2>4
  <1>5. ASSUME NEW s \in Symbols, NEW side \in B!Sides, NEW qty \in Quantities,
               NEW price \in Prices, NEW trigger \in Triggers,
               B!PlaceSlLimitOrder(s, side, qty, price, trigger)
        PROVE  \A i \in DOMAIN orders' : Outside(orders'[i], last')
    <2> DEFINE o == B!NewOrder(s, side, "STOPLOSS_LIMIT", qty, price, trigger)
    <2>1. /\ o \in B!OrderType /\ o.type = "STOPLOSS_LIMIT"
          /\ B!Untraded(o, "REJECTED") \in B!OrderType
          /\ B!Untraded(o, "REJECTED").status = "REJECTED"
      BY NewOrderIs DEF B!Types
    <2>2. last' = last /\ (orders' = Append(orders, o) \/ B!Reject(o))
      BY <1>5 DEF B!PlaceSlLimitOrder
    <2> HIDE DEF o
    <2>3. CASE orders' = Append(orders, o)
      <3>1. Outside(o, last)
        BY <2>1 DEF Outside
      <3> QED
        BY <1>1, <2>1, <2>2, <2>3, <3>1, AppendOutside
    <2>4. CASE B!Reject(o)
      BY <1>3, <2>1, <2>2, <2>4
    <2> QED
      BY <2>2, <2>3, <2>4
  <1>6. ASSUME NEW i \in DOMAIN orders, B!CancelOrder(i)
        PROVE  \A j \in DOMAIN orders' : Outside(orders'[j], last')
    <2> DEFINE o == B!Untraded(orders[i], "CANCELLED")
    <2>1. o.status = "CANCELLED" /\ orders' = [orders EXCEPT ![i] = o] /\ last' = last
      BY <1>1, <1>6, CancelOrderIs
    <2> HIDE DEF o
    <2>2. Outside(o, last)
      BY <2>1 DEF Outside
    <2> QED
      BY <1>1, <2>1, <2>2
  <1>7. ASSUME NEW i \in DOMAIN orders, NEW price \in Prices,
               NEW trigger \in Triggers \cup {0}, B!ModifyOrder(i, price, trigger)
        PROVE  \A j \in DOMAIN orders' : Outside(orders'[j], last')
    <2> DEFINE o == Moved(orders[i], price, trigger)
               s == orders[i].symbol
               seq == [orders EXCEPT ![i] = o]
    <2>1. /\ orders[i] \in B!OrderType /\ orders[i].status = "OPEN" /\ last' = last
          /\ o \in B!OrderType /\ o.status = "OPEN" /\ o.symbol = s /\ o.qty > 0
          /\ B!FillAtLast(seq, s)
      BY <1>1, <1>7, ModifyOrderIs
    <2> HIDE DEF o
    <2>2. Placed(seq)
      BY <1>1, <2>1, ChangedKeeps DEF Sound
    <2>3. s \in Symbols
      BY <2>1, OrderFields
    <2>4. \A j \in DOMAIN seq : seq[j].symbol # s => Outside(seq[j], last)
      BY <1>1, <2>1
    <2> HIDE DEF seq, s
    <2> QED
      BY <1>1, <2>1, <2>2, <2>3, <2>4, FillAtLastOutside
  <1>8. CASE UNCHANGED B!vars
    BY <1>1, <1>8 DEF B!vars
  <1> QED
    BY <1>2, <1>4, <1>5, <1>6, <1>7, <1>8 DEF B!Next

(***************************************************************************)
(* NoLimitMissed for all prices, quantities and sequences of orders: no    *)
(* open limit order lies at or inside the last price of its symbol.        *)
(***************************************************************************)
THEOREM NoneMissed == B!Spec => []NoLimitMissed
  <1>1. B!Init => NoLimitMissed
    BY DEF B!Init, NoLimitMissed
  <1> QED
    BY <1>1, BrokerHolds, NoneMissedKeeps, PTL DEF B!Spec
-----------------------------------------------------------------------------
(* Orders that have ended. *)

Ended(seq, new) == \A i \in DOMAIN seq : seq[i].status # "OPEN" => new[i] = seq[i]

LEMMA FilledKeepsEnded ==
    ASSUME NEW seq, NEW s, NEW ltp
    PROVE  Ended(seq, B!Filled(seq, s, ltp))
  BY DEF Ended, B!Filled, B!Reached, B!Fillable

LEMMA FillAtLastKeepsEnded ==
    ASSUME NEW seq, NEW s, B!FillAtLast(seq, s)
    PROVE  Ended(seq, orders')
  <1>1. CASE last[s] > 0
    BY <1>1, FilledKeepsEnded DEF B!FillAtLast, B!TryFill
  <1>2. CASE ~(last[s] > 0)
    BY <1>2 DEF B!FillAtLast, Ended
  <1> QED
    BY <1>1, <1>2

LEMMA EndedStays == BrokerInv /\ [B!Next]_(B!vars) => Ended(orders, orders')
  <1> SUFFICES ASSUME BrokerInv, [B!Next]_(B!vars) PROVE Ended(orders, orders')
    OBVIOUS
  <1>1. Sound(orders, ledger, earned) /\ orders \in Seq(B!OrderType)
    BY DEF BrokerInv, Sound, Placed
  <1>2. ASSUME NEW o
        PROVE  /\ \A i \in DOMAIN orders : i \in DOMAIN Append(orders, o)
                                           /\ Append(orders, o)[i] = orders[i]
               /\ Ended(orders, Append(orders, o))
    <2>1. ASSUME NEW i \in DOMAIN orders
          PROVE  i \in DOMAIN Append(orders, o) /\ Append(orders, o)[i] = orders[i]
      BY <1>1
    <2> QED
      BY <2>1 DEF Ended
  <1>3. ASSUME NEW s \in Symbols, NEW ltp \in Prices, B!UpdateMarketPrice(s, ltp)
        PROVE  Ended(orders, orders')
    BY <1>3, FilledKeepsEnded DEF B!UpdateMarketPrice
  <1>4. ASSUME NEW s \in Symbols, NEW side \in B!Sides, NEW qty \in Quantities,
               NEW price \in Prices, B!PlaceLimitOrder(s, side, qty, price)
        PROVE  Ended(orders, orders')
    <2> DEFINE o == B!NewOrder(s, side, "LIMIT", qty, price, 0)
    <2>1. B!FillAtLast(Append(orders, o), s) \/ B!Reject(o)
      BY <1>4 DEF B!PlaceLimitOrder
    <2> HIDE DEF o
    <2>2. CASE B!FillAtLast(Append(orders, o), s)
      <3>1. Ended(Append(orders, o), orders')
        BY <2>2, FillAtLastKeepsEnded
      <3> QED
        BY <1>2, <3>1 DEF Ended
    <2>3. CASE B!Reject(o)
      BY <1>2, <2>3 DEF B!Reject
    <2> QED
      BY <2>1, <2>2, <2>3
  <1>5. ASSUME NEW s \in Symbols, NEW side \in B!Sides, NEW qty \in Quantities,
               NEW price \in Prices, NEW trigger \in Triggers,
               B!PlaceSlLimitOrder(s, side, qty, price, trigger)
        PROVE  Ended(orders, orders')
    BY <1>2, <1>5 DEF B!PlaceSlLimitOrder, B!Reject
  <1>6. ASSUME NEW i \in DOMAIN orders, B!CancelOrder(i)
        PROVE  Ended(orders, orders')
    BY <1>1, <1>6, CancelOrderIs DEF Ended
  <1>7. ASSUME NEW i \in DOMAIN orders, NEW price \in Prices,
               NEW trigger \in Triggers \cup {0}, B!ModifyOrder(i, price, trigger)
        PROVE  Ended(orders, orders')
    <2> DEFINE o == Moved(orders[i], price, trigger)
               seq == [orders EXCEPT ![i] = o]
    <2>1. orders[i].status = "OPEN" /\ B!FillAtLast(seq, orders[i].symbol)
      BY <1>1, <1>7, ModifyOrderIs
    <2>2. DOMAIN seq = DOMAIN orders /\ \A j \in DOMAIN orders : j # i => seq[j] = orders[j]
      BY <1>1
    <2> HIDE DEF seq
    <2>3. Ended(seq, orders')
      BY <2>1, FillAtLastKeepsEnded
    <2> QED
      BY <2>1, <2>2, <2>3 DEF Ended
  <1>8. CASE UNCHANGED B!vars
    BY <1>8 DEF B!vars, Ended
  <1> QED
    BY <1>3, <1>4, <1>5, <1>6, <1>7, <1>8 DEF B!Next

(***************************************************************************)
(* EndedIsFinal for all prices, quantities and sequences of orders: an     *)
(* order that was filled, cancelled or rejected stays so.                  *)
(***************************************************************************)
THEOREM EndedOrdersStay == B!Spec => EndedIsFinal
  <1>1. BrokerInv /\ [B!Next]_(B!vars) =>
            [\A i \in DOMAIN orders : orders[i].status # "OPEN" => orders'[i] = orders[i]]_orders
    BY EndedStays DEF Ended
  <1> QED
    BY <1>1, BrokerHolds, PTL DEF B!Spec, EndedIsFinal

-----------------------------------------------------------------------------
(* The guard in front of orders, and the one a mode manager makes. *)

\* How many grants have left the window.
Gone == Len(granted) - Len(window)

\* The window holds the wall-clock stamps of the latest grants, in order.
Aligned ==
    /\ Len(window) <= Len(granted)
    /\ \A i \in 1 .. Len(window) : window[i] = granted[Gone + i].wall

\* The wall clock has not gained on elapsed time since any grant.
OffsetFell ==
    \A j \in 1 .. Len(granted) : skew <= granted[j].wall - granted[j].real

\* A grant that left the window is more than Window old.
DroppedOld == \A j \in 1 .. Gone : real - granted[j].real > Window

GuardInv == C!TypeOK /\ Aligned /\ OffsetFell /\ DroppedOld /\ RateHeld

-----------------------------------------------------------------------------
(***************************************************************************)
(* Types are kept: the window never holds more than Limit stamps.          *)
(***************************************************************************)
LEMMA GuardTypeStep == ASSUME C!TypeOK, [C!Next]_(C!vars) PROVE C!TypeOK'
  <1> USE LimitAssumption, ClockAssumption
  <1>1. ASSUME NEW o \in C!Order, NEW m \in C!Modes,
               NEW cur \in C!Addresses, NEW reg \in C!Addresses,
               C!ValidateOrder(o, m, cur, reg)
        PROVE  C!TypeOK'
    <2>1. CASE C!Refuse(o, m, cur, reg)
      BY <2>1 DEF C!TypeOK, C!Refuse
    <2>2. CASE C!Pass(o, m, cur, reg)
      BY <2>2 DEF C!TypeOK, C!Pass
    <2>3. CASE C!Live(o, m, cur, reg)
      <3>1. PICK n \in 0 .. Len(window) :
               LET rest == SubSeq(window, n + 1, Len(window))
               IN  /\ C!Drops(n)
                   /\ C!TakeSlot(rest, cur, reg) \/ C!NoSlot(rest)
        BY <2>3 DEF C!Live, C!CheckOpsLimit
      <3> DEFINE rest == SubSeq(window, n + 1, Len(window))
      <3>2. rest \in Seq(Int) /\ Len(rest) <= Limit
        BY DEF C!TypeOK
      <3>3. real' = real /\ skew' = skew /\ C!Wall \in Int
        BY <2>3 DEF C!Live, C!CheckOpsLimit, C!TypeOK, C!Wall
      <3> HIDE DEF rest
      <3>4. CASE C!TakeSlot(rest, cur, reg)
        <4>1. [real |-> real, wall |-> C!Wall,
               verified |-> cur = reg /\ cur # NoIp] \in C!Grant
          BY <3>3 DEF C!Grant, C!TypeOK
        <4>2. Append(rest, C!Wall) \in Seq(Int) /\ Len(Append(rest, C!Wall)) <= Limit
          BY <3>2, <3>3, <3>4 DEF C!TakeSlot, C!HasRoom
        <4> QED
          BY <3>3, <3>4, <4>1, <4>2 DEF C!TakeSlot, C!TypeOK
      <3>5. CASE C!NoSlot(rest)
        BY <3>2, <3>3, <3>5 DEF C!NoSlot, C!LeftByRefusal, C!TypeOK
      <3> QED
        BY <3>1, <3>4, <3>5 DEF rest
    <2> QED
      BY <1>1, <2>1, <2>2, <2>3 DEF C!ValidateOrder
  <1>2. CASE C!Reset
    BY <1>2 DEF C!TypeOK, C!Reset
  <1>3. CASE C!Tick
    BY <1>3 DEF C!TypeOK, C!Tick
  <1>4. CASE C!StepClock
    BY <1>4 DEF C!TypeOK, C!StepClock
  <1>5. CASE UNCHANGED C!vars
    BY <1>5 DEF C!TypeOK, C!vars
  <1> QED
    BY <1>1, <1>2, <1>3, <1>4, <1>5 DEF C!Next

(***************************************************************************)
(* The invariant's parts speak only of the clock, the window and the       *)
(* grants: a decision that touches none of them keeps it.                  *)
(***************************************************************************)
LEMMA QuietStep ==
    ASSUME GuardInv, C!TypeOK', UNCHANGED <<real, skew, window, granted>>
    PROVE  GuardInv'
  BY DEF GuardInv, Aligned, OffsetFell, DroppedOld, RateHeld, Gone

(***************************************************************************)
(* What the loop drops has left the window of elapsed time as well.        *)
(***************************************************************************)
LEMMA DroppedAreOld ==
    ASSUME GuardInv, NEW n \in 0 .. Len(window), C!Drops(n),
           NEW j \in 1 .. Gone + n
    PROVE  real - granted[j].real > Window
  <1>1. CASE j <= Gone
    BY <1>1 DEF GuardInv, DroppedOld, Aligned, Gone, C!TypeOK
  <1>2. CASE j > Gone
    <2>1. /\ Len(window) \in Nat /\ Len(granted) \in Nat
          /\ Len(window) <= Len(granted) /\ Gone \in Int
      BY DEF GuardInv, C!TypeOK, Aligned, Gone
    <2> DEFINE i == j - Gone
    <2>2. i \in 1 .. n /\ i \in 1 .. Len(window) /\ Gone + i = j
      BY <1>2, <2>1
    <2>3. j \in 1 .. Len(granted)
      BY <2>1, <2>2 DEF Gone
    <2>4. window[i] = granted[j].wall
      BY <2>2 DEF GuardInv, Aligned
    <2>5. C!Wall - window[i] > Window
      BY <2>2 DEF C!Drops, C!Expired
    <2>6. skew <= granted[j].wall - granted[j].real
      BY <2>3 DEF GuardInv, OffsetFell
    <2>7. granted[j].wall \in Int /\ granted[j].real \in Int
      <3>1. granted[j] \in C!Grant
        BY <2>3 DEF GuardInv, C!TypeOK
      <3> QED
        BY <3>1 DEF C!Grant
    <2>8. real \in Int /\ skew \in Int /\ Window \in Int
      BY ClockAssumption DEF GuardInv, C!TypeOK
    <2> QED
      BY <2>4, <2>5, <2>6, <2>7, <2>8 DEF C!Wall
  <1>3. Gone \in Int /\ j \in Int
    BY DEF GuardInv, C!TypeOK, Gone
  <1> QED
    BY <1>1, <1>2, <1>3

(***************************************************************************)
(* Pruning and refusing keeps the invariant: the window stays the tail of  *)
(* the grants, and what was dropped is old.                                *)
(***************************************************************************)
LEMMA NoSlotStep ==
    ASSUME GuardInv, C!TypeOK', UNCHANGED <<real, skew>>,
           NEW n \in 0 .. Len(window), C!Drops(n),
           C!NoSlot(SubSeq(window, n + 1, Len(window)))
    PROVE  GuardInv'
  <1>1. /\ Len(window) \in Nat /\ Len(granted) \in Nat
        /\ Len(window) <= Len(granted)
        /\ window \in Seq(Int)
    BY DEF GuardInv, C!TypeOK, Aligned
  <1>2. /\ window' = SubSeq(window, n + 1, Len(window))
        /\ granted' = granted
    BY DEF C!NoSlot, C!LeftByRefusal
  <1>3. /\ Len(window') = Len(window) - n
        /\ \A i \in 1 .. Len(window') : window'[i] = window[n + i]
    BY <1>1, <1>2
  <1>4. Gone' = Gone + n /\ Gone \in Int /\ Gone' \in Int
    <2>1. n \in Int /\ Len(granted') = Len(granted)
      BY <1>1, <1>2
    <2>2. Gone = Len(granted) - Len(window) /\ Gone' = Len(granted') - Len(window')
      BY DEF Gone
    <2> QED
      BY <1>1, <1>3, <2>1, <2>2
  <1>5. Aligned'
    <2>1. Len(window') <= Len(granted')
      BY <1>1, <1>2, <1>3
    <2>2. ASSUME NEW i \in 1 .. Len(window')
          PROVE  window'[i] = granted'[Gone' + i].wall
      <3>1. n + i \in 1 .. Len(window) /\ Gone' + i = Gone + (n + i)
        <4>1. n \in Int /\ 0 <= n /\ Len(window) \in Int
          BY <1>1
        <4>2. i \in Int /\ 1 <= i /\ i <= Len(window) - n
          BY <1>3
        <4>3. n + i \in 1 .. Len(window)
          BY <4>1, <4>2
        <4>4. Gone' + i = Gone + (n + i)
          BY <1>4, <4>1, <4>2
        <4> QED
          BY <4>3, <4>4
      <3>2. window[n + i] = granted[Gone + (n + i)].wall
        BY <3>1 DEF GuardInv, Aligned
      <3> QED
        BY <1>2, <1>3, <3>1, <3>2
    <2> QED
      BY <2>1, <2>2 DEF Aligned
  <1>6. OffsetFell'
    BY <1>2 DEF GuardInv, OffsetFell
  <1>7. DroppedOld'
    BY <1>2, <1>4, DroppedAreOld DEF DroppedOld
  <1>8. RateHeld'
    BY <1>2 DEF GuardInv, RateHeld
  <1> QED
    BY <1>5, <1>6, <1>7, <1>8 DEF GuardInv

(***************************************************************************)
(* Taking a slot keeps the invariant.  Fewer than Limit stamps were left,  *)
(* so the grant Limit places before the new one is among the dropped ones, *)
(* and more than Window old.                                               *)
(***************************************************************************)
LEMMA TakeSlotStep ==
    ASSUME GuardInv, C!TypeOK', UNCHANGED <<real, skew>>,
           NEW n \in 0 .. Len(window), C!Drops(n), NEW cur, NEW reg,
           C!TakeSlot(SubSeq(window, n + 1, Len(window)), cur, reg)
    PROVE  GuardInv'
  <1> DEFINE rest == SubSeq(window, n + 1, Len(window))
             new == [real |-> real, wall |-> C!Wall,
                     verified |-> cur = reg /\ cur # NoIp]
             m == Len(granted)
  <1>1. /\ Len(window) \in Nat /\ m \in Nat
        /\ Len(window) <= m
        /\ window \in Seq(Int) /\ granted \in Seq(C!Grant)
        /\ Limit \in Nat \ {0} /\ real \in Int /\ skew \in Int /\ Window \in Int
    BY LimitAssumption, ClockAssumption DEF GuardInv, C!TypeOK, Aligned
  <1>2. /\ window' = Append(rest, C!Wall)
        /\ granted' = Append(granted, new)
        /\ Len(rest) < Limit
    BY DEF C!TakeSlot, C!HasRoom
  <1>3. C!Wall \in Int /\ new \in C!Grant
    BY <1>1 DEF C!Wall, C!Grant, GuardInv, C!TypeOK
  <1>4. /\ rest \in Seq(Int) /\ Len(rest) = Len(window) - n
        /\ \A i \in 1 .. Len(rest) : rest[i] = window[n + i]
    BY <1>1
  <1> HIDE DEF rest, new, m
  <1>5. /\ Len(window') = Len(window) - n + 1
        /\ \A i \in 1 .. Len(window) - n : window'[i] = window[n + i]
        /\ window'[Len(window) - n + 1] = C!Wall
    BY <1>2, <1>3, <1>4
  <1>6. /\ Len(granted') = m + 1
        /\ \A j \in 1 .. m : granted'[j] = granted[j]
        /\ granted'[m + 1] = new
    BY <1>1, <1>2, <1>3 DEF m
  <1>7. /\ Gone' = Gone + n /\ Gone \in Int /\ Gone = m - Len(window)
        /\ n \in Int /\ 0 <= n /\ n <= Len(window)
    <2>1. n \in Int /\ 0 <= n /\ n <= Len(window)
      BY <1>1
    <2>2. Gone = m - Len(window) /\ Gone' = Len(granted') - Len(window')
      BY DEF Gone, m
    <2> QED
      BY <1>1, <1>5, <1>6, <2>1, <2>2
  <1>8. new.real = real /\ new.wall = C!Wall
    BY DEF new
  <1>9. \A j \in 1 .. Gone + n : real - granted[j].real > Window
    BY DroppedAreOld
  <1>10. Aligned'
    <2>1. Len(window') <= Len(granted')
      BY <1>1, <1>5, <1>6
    <2>2. ASSUME NEW i \in 1 .. Len(window')
          PROVE  window'[i] = granted'[Gone' + i].wall
      <3>1. CASE i = Len(window) - n + 1
        <4>1. Gone' + i = m + 1
          BY <1>1, <1>7, <3>1
        <4> QED
          BY <1>5, <1>6, <1>8, <3>1, <4>1
      <3>2. CASE i # Len(window) - n + 1
        <4>1. /\ i \in 1 .. Len(window) - n /\ n + i \in 1 .. Len(window)
              /\ Gone' + i = Gone + (n + i) /\ Gone + (n + i) \in 1 .. m
          <5>1. i \in Int /\ 1 <= i /\ i <= Len(window) - n + 1
            BY <1>5, <1>7
          <5>2. Len(window) \in Int /\ m \in Int /\ Len(window) <= m
            BY <1>1
          <5>3. i \in 1 .. Len(window) - n /\ n + i \in 1 .. Len(window)
            BY <1>7, <3>2, <5>1, <5>2
          <5>4. Gone' + i = Gone + (n + i)
            BY <1>7, <5>1
          <5>5. Gone + (n + i) \in 1 .. m
            BY <1>7, <5>1, <5>2, <5>3
          <5> QED
            BY <5>3, <5>4, <5>5
        <4>2. window[n + i] = granted[Gone + (n + i)].wall
          BY <4>1 DEF GuardInv, Aligned
        <4> QED
          BY <1>5, <1>6, <4>1, <4>2
      <3> QED
        BY <3>1, <3>2
    <2> QED
      BY <2>1, <2>2 DEF Aligned
  <1>11. OffsetFell'
    <2>1. ASSUME NEW j \in 1 .. m + 1
          PROVE  skew <= granted'[j].wall - granted'[j].real
      <3>1. CASE j = m + 1
        BY <1>1, <1>6, <1>8, <3>1 DEF C!Wall
      <3>2. CASE j # m + 1
        <4>1. j \in 1 .. m
          BY <1>1, <3>2
        <4> QED
          BY <1>6, <4>1 DEF GuardInv, OffsetFell, m
      <3> QED
        BY <3>1, <3>2
    <2> QED
      BY <1>6, <2>1 DEF OffsetFell
  <1>12. DroppedOld'
    <2>1. ASSUME NEW j \in 1 .. Gone + n
          PROVE  real - granted'[j].real > Window
      <3>1. j \in 1 .. m
        BY <1>1, <1>7
      <3> QED
        BY <1>6, <1>9, <3>1
    <2> QED
      BY <1>7, <2>1 DEF DroppedOld
  <1>13. RateHeld'
    <2>1. ASSUME NEW i \in 1 .. m + 1 - Limit
          PROVE  granted'[i + Limit].real - granted'[i].real > Window
      <3>1. CASE i = m + 1 - Limit
        <4>1. i + Limit = m + 1 /\ i \in 1 .. m /\ i \in 1 .. Gone + n
          BY <1>1, <1>2, <1>4, <1>7, <3>1
        <4> QED
          BY <1>6, <1>8, <1>9, <4>1
      <3>2. CASE i # m + 1 - Limit
        <4>1. i \in 1 .. m - Limit /\ i \in 1 .. m /\ i + Limit \in 1 .. m
          BY <1>1, <3>2
        <4> QED
          BY <1>6, <4>1 DEF GuardInv, RateHeld, m
      <3> QED
        BY <3>1, <3>2
    <2>2. Len(granted') - Limit = m + 1 - Limit
      BY <1>1, <1>6
    <2> QED
      BY <2>1, <2>2 DEF RateHeld
  <1> QED
    BY <1>10, <1>11, <1>12, <1>13 DEF GuardInv

-----------------------------------------------------------------------------
(***************************************************************************)
(* The strengthened invariant is inductive when the wall clock is never    *)
(* stepped forward.                                                        *)
(***************************************************************************)
LEMMA GuardStarts == C!Init => GuardInv
  BY LimitAssumption, ClockAssumption
  DEF C!Init, GuardInv, C!TypeOK, Aligned, OffsetFell, DroppedOld, RateHeld, Gone

LEMMA GuardKeeps ==
    ASSUME ~Forward, GuardInv, [C!Next]_(C!vars)
    PROVE  GuardInv'
  <1>1. C!TypeOK'
    BY GuardTypeStep DEF GuardInv
  <1>2. ASSUME NEW o \in C!Order, NEW m \in C!Modes,
               NEW cur \in C!Addresses, NEW reg \in C!Addresses,
               C!ValidateOrder(o, m, cur, reg)
        PROVE  GuardInv'
    <2>1. CASE C!Refuse(o, m, cur, reg)
      BY <1>1, <2>1, QuietStep DEF C!Refuse
    <2>2. CASE C!Pass(o, m, cur, reg)
      BY <1>1, <2>2, QuietStep DEF C!Pass
    <2>3. CASE C!Live(o, m, cur, reg)
      <3>1. UNCHANGED <<real, skew>>
        BY <2>3 DEF C!Live, C!CheckOpsLimit
      <3>2. PICK n \in 0 .. Len(window) :
               /\ C!Drops(n)
               /\ \/ C!TakeSlot(SubSeq(window, n + 1, Len(window)), cur, reg)
                  \/ C!NoSlot(SubSeq(window, n + 1, Len(window)))
        BY <2>3 DEF C!Live, C!CheckOpsLimit
      <3>3. CASE C!TakeSlot(SubSeq(window, n + 1, Len(window)), cur, reg)
        BY <1>1, <3>1, <3>2, <3>3, TakeSlotStep
      <3>4. CASE C!NoSlot(SubSeq(window, n + 1, Len(window)))
        BY <1>1, <3>1, <3>2, <3>4, NoSlotStep
      <3> QED
        BY <3>2, <3>3, <3>4
    <2> QED
      BY <1>2, <2>1, <2>2, <2>3 DEF C!ValidateOrder
  <1>3. CASE C!Reset
    BY <1>1, <1>3, LimitAssumption
    DEF C!Reset, GuardInv, Aligned, OffsetFell, DroppedOld, RateHeld, Gone
  <1>4. CASE C!Tick
    <2>1. /\ window' = window /\ granted' = granted /\ skew' = skew
          /\ real' = real + 1 /\ Gone' = Gone
      BY <1>4 DEF C!Tick, Gone
    <2>2. DroppedOld'
      <3>1. ASSUME NEW j \in 1 .. Gone
            PROVE  real' - granted'[j].real > Window
        <4>1. j \in 1 .. Len(granted)
          BY DEF GuardInv, C!TypeOK, Aligned, Gone
        <4>2. granted[j] \in C!Grant
          BY <4>1 DEF GuardInv, C!TypeOK
        <4>3. granted[j].real \in Int /\ real \in Int /\ Window \in Int
          BY <4>2, ClockAssumption DEF C!Grant, GuardInv, C!TypeOK
        <4>4. real - granted[j].real > Window
          BY DEF GuardInv, DroppedOld
        <4> QED
          BY <2>1, <4>3, <4>4
      <3> QED
        BY <2>1, <3>1 DEF DroppedOld
    <2> QED
      BY <1>1, <2>1, <2>2 DEF GuardInv, Aligned, OffsetFell, RateHeld
  <1>5. CASE C!StepClock
    <2>1. /\ window' = window /\ granted' = granted /\ real' = real
          /\ Gone' = Gone
      BY <1>5 DEF C!StepClock, Gone
    <2>2. skew' <= skew /\ skew' \in Int /\ skew \in Int
      <3>1. PICK s \in Skews : (s > skew => Forward) /\ skew' = s
        BY <1>5 DEF C!StepClock
      <3> QED
        BY <3>1, ClockAssumption DEF GuardInv, C!TypeOK
    <2>3. OffsetFell'
      <3>1. ASSUME NEW j \in 1 .. Len(granted)
            PROVE  skew' <= granted[j].wall - granted[j].real
        <4>1. granted[j] \in C!Grant
          BY DEF GuardInv, C!TypeOK
        <4>2. granted[j].wall \in Int /\ granted[j].real \in Int
          BY <4>1 DEF C!Grant
        <4>3. skew <= granted[j].wall - granted[j].real
          BY DEF GuardInv, OffsetFell
        <4> QED
          BY <2>2, <4>2, <4>3
      <3> QED
        BY <2>1, <3>1 DEF OffsetFell
    <2> QED
      BY <1>1, <2>1, <2>3 DEF GuardInv, Aligned, DroppedOld, RateHeld
  <1>6. CASE UNCHANGED C!vars
    BY <1>1, <1>6, QuietStep DEF C!vars
  <1> QED
    BY <1>2, <1>3, <1>4, <1>5, <1>6 DEF C!Next

-----------------------------------------------------------------------------
(***************************************************************************)
(* The guard's state is well typed, its window bounded by the ceiling,     *)
(* whatever the clock does.                                                *)
(***************************************************************************)
THEOREM GuardTypes == C!Spec => []C!TypeOK
  <1>1. C!Init => C!TypeOK
    BY LimitAssumption, ClockAssumption DEF C!Init, C!TypeOK
  <1>2. C!TypeOK /\ [C!Next]_(C!vars) => C!TypeOK'
    BY GuardTypeStep
  <1> QED
    BY <1>1, <1>2, PTL DEF C!Spec

(***************************************************************************)
(* compliance.py _check_ops_limit: no Window of elapsed time sees more     *)
(* than Limit granted LIVE orders, if the wall clock is never stepped      *)
(* forward.                                                                *)
(***************************************************************************)
THEOREM CeilingHolds == ~Forward => (C!Spec => []RateHeld)
  <1> SUFFICES ASSUME ~Forward PROVE C!Spec => []RateHeld
    OBVIOUS
  <1>1. C!Init => GuardInv
    BY GuardStarts
  <1>2. GuardInv /\ [C!Next]_(C!vars) => GuardInv'
    BY GuardKeeps
  <1>3. GuardInv => RateHeld
    BY DEF GuardInv
  <1> QED
    BY <1>1, <1>2, <1>3, PTL DEF C!Spec

-----------------------------------------------------------------------------
(***************************************************************************)
(* A mode manager's guard is a ComplianceGuard: what the manager does is a *)
(* step of its guard, or leaves it alone.                                  *)
(***************************************************************************)
LEMMA ProbeIsAnOrder ==
    ASSUME M!TypeOK, NEW requested, M!SetMode(requested)
    PROVE  [C!Next]_(C!vars)
  <1>1. CASE UNCHANGED M!guard
    BY <1>1 DEF M!guard, C!vars
  <1>2. CASE M!G!ValidateOrder(M!Probe, "LIVE", settings.current, settings.registered)
    <2>1. /\ M!Probe \in C!Order
          /\ settings.current \in C!Addresses /\ settings.registered \in C!Addresses
      BY DEF M!Probe, M!TypeOK, M!Settings, M!G!Addresses, C!Addresses,
             C!Order, C!AllowedTypes
    <2>2. C!ValidateOrder(M!Probe, "LIVE", settings.current, settings.registered)
      BY <1>2 DEF M!G!ValidateOrder, M!G!Refuse, M!G!Pass, M!G!Live, M!G!Complies,
             M!G!AllowedTypes, M!G!Mismatch, M!G!CheckOpsLimit, M!G!Drops,
             M!G!Expired, M!G!TakeSlot, M!G!HasRoom, M!G!NoSlot,
             M!G!LeftByRefusal, M!G!Wall,
             C!ValidateOrder, C!Refuse, C!Pass, C!Live, C!Complies, C!AllowedTypes, C!Mismatch,
             C!CheckOpsLimit, C!Drops, C!Expired, C!TakeSlot, C!HasRoom, C!NoSlot,
             C!LeftByRefusal, C!Wall
    <2> QED
      BY <2>1, <2>2 DEF C!Next, C!Modes
  <1> QED
    BY <1>1, <1>2 DEF M!SetMode

LEMMA ManagersGuard == ASSUME M!TypeOK, [M!Next]_(M!vars) PROVE [C!Next]_(C!vars)
  <1>1. CASE M!Configure
    BY <1>1 DEF M!Configure, M!guard, C!vars
  <1>2. ASSUME NEW requested, M!Construct(requested) PROVE [C!Next]_(C!vars)
    BY <1>2 DEF M!Construct, M!guard, C!vars
  <1>3. ASSUME NEW requested, M!SetMode(requested) PROVE [C!Next]_(C!vars)
    BY <1>3, ProbeIsAnOrder
  <1>4. CASE M!Time
    BY <1>4 DEF M!Time, M!G!Tick, M!G!StepClock, C!Tick, C!StepClock, C!Next
  <1>5. CASE UNCHANGED M!vars
    BY <1>5 DEF M!vars, M!guard, C!vars
  <1> QED
    BY <1>1, <1>2, <1>3, <1>4, <1>5 DEF M!Next

LEMMA ManagerTypes == ASSUME M!TypeOK, [M!Next]_(M!vars) PROVE M!TypeOK'
  <1>1. C!TypeOK /\ mode \in M!G!Modes \cup {"none"} /\ settings \in M!Settings
    BY DEF M!TypeOK, M!G!TypeOK, M!G!Grant, C!TypeOK, C!Grant
  <1>2. C!TypeOK'
    BY <1>1, ManagersGuard, GuardTypeStep
  <1>3. settings' \in M!Settings
    BY <1>1 DEF M!Next, M!Configure, M!Construct, M!SetMode, M!Time, M!vars
  <1>4. mode' \in M!G!Modes \cup {"none"}
    BY <1>1 DEF M!Next, M!Configure, M!Construct, M!Initial, M!SetMode, M!Time,
           M!vars, M!G!Modes
  <1> QED
    BY <1>2, <1>3, <1>4 DEF M!TypeOK, M!G!TypeOK, M!G!Grant, C!TypeOK, C!Grant

LEMMA ManagerStarts == M!Init => M!TypeOK /\ C!Init
  <1> SUFFICES ASSUME M!Init PROVE M!TypeOK /\ C!Init
    OBVIOUS
  <1>1. C!Init
    BY DEF M!Init, M!G!Init, C!Init
  <1>2. C!TypeOK
    BY <1>1, LimitAssumption, ClockAssumption DEF C!Init, C!TypeOK
  <1>3. mode \in M!G!Modes \cup {"none"} /\ settings \in M!Settings
    BY DEF M!Init
  <1> QED
    BY <1>1, <1>2, <1>3 DEF M!TypeOK, M!G!TypeOK, M!G!Grant, C!TypeOK, C!Grant

(***************************************************************************)
(* mode_manager.py set_mode: the manager implements the guard it owns, so  *)
(* the probes of any sequence of switches and of edits of the              *)
(* configuration are held to the ceiling of orders.                        *)
(***************************************************************************)
THEOREM OwnsAGuard == M!Spec => C!Spec
  <1>1. M!Init => M!TypeOK /\ C!Init
    BY ManagerStarts
  <1>2. M!TypeOK /\ [M!Next]_(M!vars) => M!TypeOK' /\ [C!Next]_(C!vars)
    BY ManagerTypes, ManagersGuard
  <1> QED
    BY <1>1, <1>2, PTL DEF M!Spec, C!Spec

(***************************************************************************)
(* The same step seen from the mode: LIVE from ALERT or PAPER only when    *)
(* the probe was granted, which needs the algo id and matching addresses   *)
(* of that moment.                                                         *)
(***************************************************************************)
LEMMA LiveTakesASlot ==
    ASSUME M!TypeOK, NEW requested, M!SetMode(requested),
           mode' = "LIVE", mode \in {"ALERT", "PAPER"}
    PROVE  CheckedNow
  <1>1. /\ Provided /\ verdict' = "granted"
        /\ M!G!ValidateOrder(M!Probe, "LIVE", settings.current, settings.registered)
    BY DEF M!SetMode, M!Approved, M!Provided, Provided
  <1>2. PICK n \in 0 .. Len(window) :
           M!G!TakeSlot(SubSeq(window, n + 1, Len(window)),
                        settings.current, settings.registered)
    BY <1>1 DEF M!G!ValidateOrder, M!G!Refuse, M!G!Pass, M!G!Live,
           M!G!CheckOpsLimit, M!G!NoSlot
  <1>3. Len(granted') = Len(granted) + 1
    BY <1>2 DEF M!G!TakeSlot, M!TypeOK, M!G!TypeOK
  <1>4. M!G!Complies(M!Probe, "LIVE", settings.current, settings.registered)
    BY <1>1 DEF M!G!ValidateOrder, M!G!Refuse, M!G!Pass, M!G!Live
  <1>5. settings.registered = settings.current
    BY <1>1, <1>4 DEF M!G!Complies, M!G!Mismatch, Provided
  <1> QED
    BY <1>1, <1>3, <1>5 DEF CheckedNow, Qualified

(***************************************************************************)
(* "LIVE mode guardrails" (mode_manager.py:6-9), for a manager that is     *)
(* running: no order of switches, edits and clock steps reaches LIVE past  *)
(* them.                                                                   *)
(***************************************************************************)
THEOREM SwitchGuarded == M!Spec => SwitchIsChecked
  <1>1. M!Init => M!TypeOK
    BY ManagerStarts
  <1>2. M!TypeOK /\ [M!Next]_(M!vars) => M!TypeOK'
    BY ManagerTypes
  <1>3. ASSUME M!TypeOK, [M!Next]_(M!vars)
        PROVE  [mode' = "LIVE" /\ mode \in {"ALERT", "PAPER"} => CheckedNow]_mode
    <2> SUFFICES ASSUME mode' = "LIVE", mode \in {"ALERT", "PAPER"} PROVE CheckedNow
      OBVIOUS
    <2>1. PICK requested : M!SetMode(requested)
      BY <1>3 DEF M!Next, M!Configure, M!Construct, M!Time, M!vars
    <2> QED
      BY <1>3, <2>1, LiveTakesASlot
  <1> QED
    BY <1>1, <1>2, <1>3, PTL DEF M!Spec, SwitchIsChecked

(***************************************************************************)
(* The ceiling for the manager's own guard: repeated switches to LIVE in   *)
(* one window are granted at most Limit times.                             *)
(***************************************************************************)
THEOREM ProbesHeld == ~Forward => (M!Spec => []RateHeld)
  BY OwnsAGuard, CeilingHolds
=============================================================================
