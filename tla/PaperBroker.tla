----------------------------- MODULE PaperBroker -----------------------------
(***************************************************************************)
(* execution/paper_broker.py PaperBroker: limit and stop-loss orders are   *)
(* placed, modified and cancelled, filled against the prices it is shown,  *)
(* and netted into one position per symbol.                                *)
(*                                                                         *)
(* Money is in hundredths, as the code rounds it.                          *)
(***************************************************************************)
EXTENDS PaperBooks

Sides == {"BUY", "SELL"}
Types == {"LIMIT", "STOPLOSS_LIMIT"}

vars == <<orders, ledger, last, earned>>

OrderType ==
    [symbol : Symbols, side : Sides, type : Types, qty : Quantities \cup {0},
     price : Prices \cup {0}, trigger : Triggers \cup {0},
     status : {"OPEN", "FILLED", "CANCELLED", "REJECTED"}, fill : Nat]

None == [side |-> "BUY", qty |-> 0, avg |-> 0, unrealized |-> 0, realized |-> 0]

PositionType ==
    [side : Sides, qty : Nat, avg : Nat, unrealized : Int, realized : Int]

\* An order that may still trade has a quantity; a position has one, too.
TypeOK ==
    /\ orders \in Seq(OrderType) /\ Len(orders) <= MaxOrders
    /\ \A i \in DOMAIN orders : orders[i].status \in {"OPEN", "FILLED"} => orders[i].qty > 0
    /\ last \in [Symbols -> Prices \cup {0}]
    /\ ledger \in [Symbols -> PositionType] /\ earned \in [Symbols -> Int]
    /\ \A s \in Symbols : ledger[s] # None => ledger[s].qty > 0 /\ ledger[s].avg > 0

Init ==
    /\ orders = <<>>
    /\ ledger = [s \in Symbols |-> None]
    /\ last = [s \in Symbols |-> 0]
    /\ earned = [s \in Symbols |-> 0]

-----------------------------------------------------------------------------
\* round(a / b), for the averages and slippages that have no tie.
Rounded(a, b) == (2 * a + b) \div (2 * b)

\* slippage_pct = 0.003, always to the order's disadvantage.
Slipped(ltp, side) ==
    IF side = "BUY" THEN Rounded(1003 * ltp, 1000) ELSE Rounded(997 * ltp, 1000)

\* The P&L of qty units that leave a position at a price.
Realized(side, avg, price, qty) ==
    IF side = "BUY" THEN (price - avg) * qty ELSE (avg - price) * qty

StopTriggered(o, ltp) == IF o.side = "BUY" THEN ltp >= o.trigger ELSE ltp <= o.trigger

\* A stop order ignores its limit price once it is triggered.
Fillable(o, ltp) ==
    /\ o.status = "OPEN"
    /\ o.type = "LIMIT" => LimitFillable(o, ltp)
    /\ o.type = "STOPLOSS_LIMIT" => StopTriggered(o, ltp)

-----------------------------------------------------------------------------
(* What one fill does to its position, and to the P&L realized so far.     *)

\* Faulty variant: a flip realizes the whole order.
WholeFill(qty, held) == qty

\* A fill realizes no more than the position held.
Leaving(qty, held) == IF qty < held THEN qty ELSE held

\* Faulty variant: what is left over of a flip is the whole order.
NothingNetted(qty, held) == qty

\* Faulty variant: the difference is taken the wrong way round.
LeftOverReversed(qty, held) == held - qty

LeftOver(qty, held) == qty - held

Netted(p, o) ==
    IF p = None
    THEN [None EXCEPT !.side = o.side, !.qty = o.qty, !.avg = o.fill]
    ELSE IF p.side = o.side
    THEN [p EXCEPT !.qty = p.qty + o.qty,
                   !.avg = Rounded(p.avg * p.qty + o.fill * o.qty, p.qty + o.qty)]
    ELSE LET gain == Realized(p.side, p.avg, o.fill, Leaving(o.qty, p.qty))
         IN  IF o.qty < p.qty
             THEN [p EXCEPT !.qty = p.qty - o.qty, !.realized = p.realized + gain]
             ELSE IF o.qty = p.qty THEN None
             ELSE [None EXCEPT !.side = o.side, !.qty = LeftOver(o.qty, p.qty),
                               !.avg = o.fill, !.realized = p.realized + gain]

GainOf(p, o) ==
    IF p = None \/ p.side = o.side THEN 0
    ELSE Realized(p.side, p.avg, o.fill, Leaving(o.qty, p.qty))

\* One symbol's position and realized P&L while its orders fill in turn.
Book(s) == [position |-> ledger[s], earned |-> earned[s]]
Fill(book, o) == [position |-> Netted(book.position, o),
                  earned |-> book.earned + GainOf(book.position, o)]

(***************************************************************************)
(* _try_fill_orders over the given orders: every open order of the symbol  *)
(* that the price reaches is filled, in the order of placement.            *)
(***************************************************************************)
Reached(o, s, ltp) == o.symbol = s /\ Fillable(o, ltp)

\* Of an order that has ended only what it traded is kept here: nothing reads
\* its prices any more.
Execution(o, ltp) == [o EXCEPT !.status = "FILLED", !.fill = Slipped(ltp, o.side),
                               !.price = 0, !.trigger = 0]

Filled(seq, s, ltp) ==
    [i \in DOMAIN seq |-> IF Reached(seq[i], s, ltp) THEN Execution(seq[i], ltp) ELSE seq[i]]

Books(seq, s, ltp) ==
    LET book[n \in 0..Len(seq)] ==
            IF n = 0 THEN Book(s)
            ELSE IF Reached(seq[n], s, ltp) THEN Fill(book[n - 1], Execution(seq[n], ltp))
            ELSE book[n - 1]
    IN  book

BookAfter(seq, s, ltp) == Books(seq, s, ltp)[Len(seq)]

TryFill(seq, s, ltp) ==
    LET book == BookAfter(seq, s, ltp)
    IN  /\ orders' = Filled(seq, s, ltp)
        /\ ledger' = [ledger EXCEPT ![s] = book.position]
        /\ earned' = [earned EXCEPT ![s] = book.earned]

\* After an order came in or changed: only if a price was ever shown.
FillAtLast(seq, s) ==
    IF last[s] > 0 THEN TryFill(seq, s, last[s])
    ELSE orders' = seq /\ UNCHANGED <<ledger, earned>>

-----------------------------------------------------------------------------
Marked(p, ltp) ==
    IF p = None THEN p
    ELSE [p EXCEPT !.unrealized = Realized(p.side, p.avg, ltp, p.qty)]

UpdateMarketPrice(s, ltp) ==
    /\ ltp > 0
    /\ last' = [last EXCEPT ![s] = ltp]
    /\ orders' = Filled(orders, s, ltp)
    /\ LET book == BookAfter(orders, s, ltp)
       IN  /\ ledger' = [ledger EXCEPT ![s] = Marked(book.position, ltp)]
           /\ earned' = [earned EXCEPT ![s] = book.earned]

NewOrder(s, side, type, qty, price, trigger) ==
    [symbol |-> s, side |-> side, type |-> type, qty |-> qty, price |-> price,
     trigger |-> trigger, status |-> "OPEN", fill |-> 0]

Untraded(o, status) ==
    [NewOrder(o.symbol, "BUY", o.type, 0, 0, 0) EXCEPT !.status = status]

Reject(o) ==
    /\ orders' = Append(orders, Untraded(o, "REJECTED"))
    /\ UNCHANGED <<ledger, earned>>

PlaceLimitOrder(s, side, qty, price) ==
    LET o == NewOrder(s, side, "LIMIT", qty, price, 0)
    IN  /\ Len(orders) < MaxOrders
        /\ \/ qty > 0 /\ price > 0 /\ FillAtLast(Append(orders, o), s)
           \/ ~(qty > 0 /\ price > 0) /\ Reject(o)
        /\ UNCHANGED last

\* A stop order waits for the next price, even if the last one triggers it.
PlaceSlLimitOrder(s, side, qty, price, trigger) ==
    LET o == NewOrder(s, side, "STOPLOSS_LIMIT", qty, price, trigger)
    IN  /\ Len(orders) < MaxOrders
        /\ \/ /\ qty > 0 /\ price > 0 /\ trigger > 0
              /\ orders' = Append(orders, o)
              /\ UNCHANGED <<ledger, earned>>
           \/ ~(qty > 0 /\ price > 0 /\ trigger > 0) /\ Reject(o)
        /\ UNCHANGED last

\* Faulty variant: any order may be changed.
AnyOrder(i) == TRUE

StillOpen(i) == orders[i].status = "OPEN"

\* Faulty variant: a modified order waits for the next price.
LeftAlone(seq, s) == orders' = seq /\ UNCHANGED <<ledger, earned>>
AfterModify(seq, s) == FillAtLast(seq, s)

\* A trigger of 0 is one that was not given.
ModifyOrder(i, price, trigger) ==
    /\ StillOpen(i) /\ price > 0
    /\ AfterModify([orders EXCEPT
          ![i].price = price,
          ![i].trigger = IF trigger > 0 THEN trigger ELSE @], orders[i].symbol)
    /\ UNCHANGED last

CancelOrder(i) ==
    /\ StillOpen(i)
    /\ orders' = [orders EXCEPT ![i] = Untraded(@, "CANCELLED")]
    /\ UNCHANGED <<ledger, last, earned>>

Next ==
    \/ \E s \in Symbols :
          \/ \E ltp \in Prices : UpdateMarketPrice(s, ltp)
          \/ \E side \in Sides, qty \in Quantities, price \in Prices :
                \/ PlaceLimitOrder(s, side, qty, price)
                \/ \E trigger \in Triggers : PlaceSlLimitOrder(s, side, qty, price, trigger)
    \/ \E i \in DOMAIN orders :
          \/ CancelOrder(i)
          \/ \E price \in Prices, trigger \in Triggers \cup {0} :
                ModifyOrder(i, price, trigger)

Spec == Init /\ [][Next]_vars

-----------------------------------------------------------------------------
(***************************************************************************)
(* "paper portfolio tracked" (main_plan_roadmap.txt:797): the realized P&L *)
(* of the portfolio is what its closed units earned.  The code deletes a   *)
(* position that is closed exactly, and its realized P&L with it.          *)
(***************************************************************************)
EarningsKept == \A s \in Symbols : ledger[s].realized = earned[s]
=============================================================================
