----------------------------- MODULE PaperBooks -----------------------------
(* What the paper broker is given and keeps, what its filled orders add up   *)
(* to, and what it promises of both.  Money is in hundredths.                *)
EXTENDS Integers, Sequences

CONSTANTS
    Symbols,
    Prices,         \* market and limit prices; may hold an invalid 0
    Triggers,       \* trigger prices; may hold an invalid 0
    Quantities,     \* may hold an invalid 0
    MaxOrders       \* bound: orders placed

ASSUME PaperAssumption ==
    /\ Prices \subseteq Nat /\ Triggers \subseteq Nat /\ Quantities \subseteq Nat
    /\ MaxOrders \in Nat

VARIABLES
    orders,         \* _orders in the order of placement, which is a dict's
    ledger,         \* _positions, None for a symbol without one
    last,           \* _last_price_by_symbol, 0 when none was shown
    earned          \* history: the P&L realized so far, per symbol

Signed(side, n) == IF side = "BUY" THEN n ELSE -n
LimitFillable(o, ltp) == IF o.side = "BUY" THEN ltp <= o.price ELSE ltp >= o.price

\* What the filled orders of a symbol add up to: units bought less units
\* sold, cash received less cash paid, units traded, and how many they are.
NoTrade == [net |-> 0, cash |-> 0, units |-> 0, fills |-> 0]
With(t, o, s) ==
    IF o.symbol = s /\ o.status = "FILLED"
    THEN [net |-> t.net + Signed(o.side, o.qty),
          cash |-> t.cash - Signed(o.side, o.qty) * o.fill,
          units |-> t.units + o.qty, fills |-> t.fills + 1]
    ELSE t
TradedUpTo(seq, s) ==
    LET upto[n \in 0..Len(seq)] ==
            IF n = 0 THEN NoTrade ELSE With(upto[n - 1], seq[n], s)
    IN  upto
Traded(seq, s) == TradedUpTo(seq, s)[Len(seq)]

(* The position of a symbol is the net of its filled orders, through         *)
(* additions, reductions, closes and flips, and several fills on one price.  *)
Net(p) == Signed(p.side, p.qty)
NetIsFills == \A s \in Symbols : Net(ledger[s]) = Traded(orders, s).net

(* The books balance: the cash received and paid is what was realized less   *)
(* what the position cost, up to the rounding of the averages: half a        *)
(* hundredth for each unit, at each fill.                                    *)
Drift(p, gained, t) == t.cash - (gained - Net(p) * p.avg)
Slack(t) == t.units * t.fills
Balanced(p, gained, t) ==
    -Slack(t) <= 2 * Drift(p, gained, t) /\ 2 * Drift(p, gained, t) <= Slack(t)
BooksBalance ==
    \A s \in Symbols : Balanced(ledger[s], earned[s], Traded(orders, s))

(* No open limit order lies at or inside the last price: whichever came      *)
(* first, price, order or modification, it was filled.                       *)
NoLimitMissed ==
    \A i \in DOMAIN orders :
        orders[i].status = "OPEN" /\ orders[i].type = "LIMIT" /\ last[orders[i].symbol] > 0 =>
            ~LimitFillable(orders[i], last[orders[i].symbol])

(* An order that was filled, cancelled or rejected stays so: no price,       *)
(* cancel or modify that comes late changes it.                              *)
EndedIsFinal ==
    [][\A i \in DOMAIN orders : orders[i].status # "OPEN" => orders'[i] = orders[i]]_orders
=============================================================================
