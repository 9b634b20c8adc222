--------------------------- MODULE PositionManager ---------------------------
(***************************************************************************)
(* positions/position_manager.py PositionManager with its rules,           *)
(* positions/exit_rules.py: positions are registered, updated with the     *)
(* market until a rule or a caller closes them, and their stop is moved.   *)
(*                                                                         *)
(* Prices are whole steps; the rounding of the code to two decimals is not *)
(* seen.  Unrealized P&L, a function of the last price, is left out.       *)
(***************************************************************************)
EXTENDS PositionBook

vars == <<known, positions, adds>>

Reasons == {"stop_loss_hit", "target_hit", "confidence_decay_exit", "time_exit",
            "manual"}

\* born and risk are history: the add that made the position, and how far its
\* stop then was from its entry.
Position ==
    [side : Sides, qty : Nat, entry : Nat, sl : Nat, target : Nat,
     status : {"OPEN", "CLOSED"}, reason : Reasons \cup {""},
     realized : Int, mfe : Nat, mae : Nat, partial : BOOLEAN,
     born : Nat, risk : Nat]

Blank == [side |-> "BUY", qty |-> 0, entry |-> 0, sl |-> 0, target |-> 0,
          status |-> "CLOSED", reason |-> "", realized |-> 0, mfe |-> 0, mae |-> 0,
          partial |-> FALSE, born |-> 0, risk |-> 0]

TypeOK ==
    /\ known \in SUBSET Ids
    /\ positions \in [Ids -> Position]
    /\ adds \in 0 .. MaxAdds
    /\ \A id \in known : /\ positions[id].qty > 0 /\ positions[id].entry > 0
                         /\ positions[id].sl > 0 /\ positions[id].target > 0
                         /\ positions[id].born \in 1 .. adds

Init ==
    /\ known = {}
    /\ positions = [id \in Ids |-> Blank]
    /\ adds = 0

-----------------------------------------------------------------------------
Distance(a, b) == IF a > b THEN a - b ELSE b - a
Larger(a, b) == IF a > b THEN a ELSE b

\* A level some distance on the losing side of a price, or on the other.
Behind(p, price, d) == IF p.side = "BUY" THEN price - d ELSE price + d
Ahead(p, price, d) == IF p.side = "BUY" THEN price + d ELSE price - d

\* Faulty variant: the direction is not asked.
AnyMove(p, sl) == sl > 0 /\ sl # p.sl

\* _is_valid_sl_update: a stop may move in the protective direction only.
Tightens(p, sl) ==
    /\ sl > 0
    /\ IF p.side = "BUY" THEN sl > p.sl ELSE sl < p.sl

\* Faulty variant: the excursions are brought up to date after the exits.
PriceOnly(p, price) == p

\* The excursions, brought up to date before any rule is looked at.
Excursions(p, price) ==
    [p EXCEPT !.mfe = Larger(p.mfe, Gain(p, price)),
              !.mae = Larger(p.mae, -Gain(p, price))]

Open(id) == id \in known /\ positions[id].status = "OPEN"

\* Faulty variant: a closed position can be closed again.
ClosesAgain(id) == id \in known

\* The guard of close_position, and update_position's way into its rules.
MayClose(id) == Open(id)

Closed(p, price, reason) ==
    [p EXCEPT !.status = "CLOSED", !.reason = reason,
              !.realized = Gain(p, price) * p.qty]

-----------------------------------------------------------------------------
(* The rules, in the order in which update_position asks them.             *)

StopHit(p, price) == IF p.side = "BUY" THEN price <= p.sl ELSE price >= p.sl
TargetHit(p, price) == IF p.side = "BUY" THEN price >= p.target ELSE price <= p.target

ExitReason(p, u) ==
    IF StopHit(p, u.price) THEN "stop_loss_hit"
    ELSE IF TargetHit(p, u.price) THEN "target_hit"
    ELSE IF u.decayed THEN "confidence_decay_exit"
    ELSE IF u.expired THEN "time_exit"
    ELSE ""

\* The distance that counts as "1R" is measured to the stop of the moment.
RiskPoints(p) == Distance(p.entry, p.sl)

\* One R in favor, and a breakeven level that improves on the stop.
BreakevenLevel(p, u) == Ahead(p, p.entry, u.atr \div 10)
BreakevenDue(p, u) ==
    /\ u.atr > 0 /\ RiskPoints(p) > 0
    /\ Gain(p, u.price) >= RiskPoints(p)
    /\ IF p.side = "BUY" THEN BreakevenLevel(p, u) > p.sl ELSE BreakevenLevel(p, u) < p.sl

\* One and a half R in favor, once.
PartialDue(p, u) ==
    /\ p.qty > 1 /\ RiskPoints(p) > 0
    /\ 2 * Gain(p, u.price) >= 3 * RiskPoints(p)
    /\ ~p.partial

ChopLevel(p, u) == Behind(p, u.price, u.atr \div 2)
ChopDue(p, u) == u.atr > 0 /\ u.choppy /\ Tightens(p, ChopLevel(p, u))

TrailLevel(p, u) == Behind(p, u.price, u.atr)
TrailDue(p, u) == u.atr > 0 /\ Tightens(p, TrailLevel(p, u))

\* The stop is set only if the move is valid; the rule counts either way.
MoveStop(p, sl) == IF Tightens(p, sl) THEN [p EXCEPT !.sl = sl] ELSE p

\* The first rule that applies decides.
Judged(p, u) ==
    IF ExitReason(p, u) # "" THEN Closed(p, u.price, ExitReason(p, u))
    ELSE IF BreakevenDue(p, u) THEN MoveStop(p, BreakevenLevel(p, u))
    ELSE IF PartialDue(p, u) THEN [p EXCEPT !.partial = TRUE]
    ELSE IF ChopDue(p, u) THEN MoveStop(p, ChopLevel(p, u))
    ELSE IF TrailDue(p, u) THEN MoveStop(p, TrailLevel(p, u))
    ELSE p

-----------------------------------------------------------------------------
\* Faulty variant: the prices are not looked at.
AnyPrice(e) == e.qty > 0

Valid(e) == e.qty > 0 /\ e.entry > 0 /\ e.sl > 0 /\ e.target > 0

\* Nothing asks whether the id is in use, or on which side the stop is.
AddPosition(id, e) ==
    /\ Valid(e)
    /\ adds < MaxAdds
    /\ adds' = adds + 1
    /\ known' = known \cup {id}
    /\ positions' = [positions EXCEPT ![id] =
          [side |-> e.side, qty |-> e.qty, entry |-> e.entry, sl |-> e.sl,
           target |-> e.target, status |-> "OPEN", reason |-> "",
           realized |-> 0, mfe |-> 0, mae |-> 0, partial |-> FALSE,
           born |-> adds + 1, risk |-> Distance(e.entry, e.sl)]]

ClosePosition(id, price) ==
    /\ MayClose(id)
    /\ price > 0
    /\ positions' = [positions EXCEPT ![id] = Closed(@, price, "manual")]
    /\ UNCHANGED <<known, adds>>

UpdatePosition(id, u) ==
    /\ Open(id)
    /\ u.price > 0
    /\ positions' = [positions EXCEPT ![id] = Judged(Excursions(@, u.price), u)]
    /\ UNCHANGED <<known, adds>>

Reset ==
    /\ known' = {}
    /\ positions' = [id \in Ids |-> Blank]
    /\ UNCHANGED adds

Next ==
    \/ \E id \in Ids :
          \/ \E e \in Entries : AddPosition(id, e)
          \/ \E price \in CloseAt : ClosePosition(id, price)
          \/ \E u \in Updates : UpdatePosition(id, u)
    \/ Reset

Spec == Init /\ [][Next]_vars

-----------------------------------------------------------------------------
(***************************************************************************)
(* What a position can lose at its stop is never more than what it was     *)
(* opened with.                                                            *)
(***************************************************************************)
RiskNeverGrows ==
    \A id \in known : Gain(positions[id], positions[id].sl) >= -positions[id].risk

(***************************************************************************)
(* A closed position is history: neither late updates nor a second close   *)
(* change its price, reason and P&L.                                       *)
(***************************************************************************)
ClosedIsFinal ==
    [][\A id \in Ids : Stays(id) /\ positions[id].status = "CLOSED" =>
          positions'[id] = positions[id]]_vars

(***************************************************************************)
(* The profit or loss of a position that a rule closed lies within its     *)
(* recorded excursions, the exit price included.                           *)
(***************************************************************************)
ExitWithinExcursions ==
    \A id \in known :
        LET p == positions[id]
        IN  p.status = "CLOSED" /\ p.reason # "manual" =>
               /\ p.realized <= p.mfe * p.qty
               /\ p.realized >= -p.mae * p.qty

(***************************************************************************)
(* "Partial exit after 1.5R in favor" (exit_rules.py check_partial_exit),  *)
(* "Partial Exit at T1 -> after 1.5x risk" (main_plan_roadmap.txt:764): a  *)
(* position was partly closed only if it once had gained 1.5 times the     *)
(* risk it was opened with.  The code measures R to the moved stop.        *)
(***************************************************************************)
PartialAfterRisk ==
    \A id \in known :
        positions[id].partial => 2 * positions[id].mfe >= 3 * positions[id].risk
=============================================================================
