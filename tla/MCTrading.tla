------------------------------ MODULE MCTrading ------------------------------
(* A day of trading: the captain that decides whether anything is traded,    *)
(* the position manager and the paper broker, which keep positions of their  *)
(* own that nothing reconciles, and the guards in front of orders: the one   *)
(* of whoever places them, and the one a mode manager makes for itself.      *)
(* None of them meets another in the code but in what main hands from one to *)
(* the next; they share this instance, and "part" says which of them runs.   *)
(*                                                                           *)
(* Captain: the first day of a process, from BOOT.                           *)
(* Positions: one id, which may be used again; entries at 100 with the stop  *)
(* ten steps away on the losing side, once on the wrong side; prices that    *)
(* stay between, pass 1R and 1.5R, touch and jump over stop and target; two  *)
(* ATRs, so that breakeven, tightening and trailing propose different stops. *)
(* Orders: prices ten apart and an invalid one, and quantities that add,     *)
(* reduce, close and flip a position.                                        *)
(* Guards: a wall clock that may be put a whole window of two ticks back.    *)
EXTENDS Captain, PositionBook, PaperBooks, ModeSwitch

VARIABLES part, real, skew, window, verdict
P == INSTANCE PositionManager
B == INSTANCE PaperBroker
C == INSTANCE ComplianceGuard
M == INSTANCE ModeManager

manager == <<known, positions, adds>>
broker == <<orders, ledger, last, earned>>
guards == <<real, skew, window, granted, verdict, mode, settings>>

\* A cycle in which everything is in order and nothing is offered.
Calm == [gate |-> "ok", conf |-> 85, choppy |-> FALSE, quality |-> "high",
         consensus |-> TRUE, held |-> FALSE, trend |-> 0, blocked |-> FALSE,
         anomaly |-> 0, clean |-> 0, flawed |-> 0, minority |-> 0]

\* Offers one by one and two at once, a cycle of low confidence with reasons for
\* a veto, a choppy one, a closed gate and an anomaly: the ways up and down.
DayInputs ==
    {[Calm EXCEPT !.clean = n] : n \in {1, 2}}
      \cup {[Calm EXCEPT !.conf = 50, !.consensus = FALSE, !.flawed = 1, !.minority = 1],
            [Calm EXCEPT !.choppy = TRUE, !.held = TRUE],
            [Calm EXCEPT !.gate = "breaker", !.clean = 1],
            [Calm EXCEPT !.anomaly = 1]}

BootSeed == {"BOOT"}

Long == [side |-> "BUY", qty |-> 3, entry |-> 100, sl |-> 90, target |-> 130]
Short == [side |-> "SELL", qty |-> 1, entry |-> 100, sl |-> 110, target |-> 70]
Odd == [side |-> "BUY", qty |-> 2, entry |-> 100, sl |-> 104, target |-> 120]
Bad == [side |-> "SELL", qty |-> 2, entry |-> 0, sl |-> 110, target |-> 70]
AllEntries == {Long, Short, Odd, Bad}

Look(price, atr) == [price |-> price, atr |-> atr, decayed |-> FALSE,
                     expired |-> FALSE, choppy |-> FALSE]
Looks == {Look(price, atr) : price \in {85, 105, 110, 116, 130}, atr \in {0, 10, 20}}
Special == {[Look(105, 10) EXCEPT !.decayed = TRUE],
            [Look(98, 20) EXCEPT !.expired = TRUE],
            [Look(105, 20) EXCEPT !.choppy = TRUE],
            [Look(98, 10) EXCEPT !.choppy = TRUE],
            Look(0, 10)}
AllUpdates == Looks \cup Special

TwoPrices == {0, 10000, 11000}
OneTrigger == {11000}

Stepped == {-2, 0}
Nothing == [algo |-> FALSE, registered |-> NoIp, current |-> NoIp]

TradingInit ==
    /\ Init /\ P!Init /\ B!Init
    /\ \/ /\ part \in {"captain", "manager", "broker", "guard"}
          /\ C!Init /\ mode = "none" /\ settings = Nothing
       \/ part = "mode" /\ M!Init
Leads == part = "captain" /\ UNCHANGED <<manager, broker, guards, part>>
Manages == part = "manager" /\ UNCHANGED <<vars, broker, guards, part>>
Fills == part = "broker" /\ UNCHANGED <<vars, manager, guards, part>>
Allows == part = "guard" /\ UNCHANGED <<vars, manager, broker, mode, settings, part>>
Switches == part = "mode" /\ UNCHANGED <<vars, manager, broker, part>>
TradingNext ==
    \/ Leads /\ Next
    \/ Manages /\ P!Next
    \/ Fills /\ B!Next
    \/ Allows /\ C!Next
    \/ Switches /\ M!Next
tradingVars == <<vars, manager, broker, guards, part>>
TradingSpec == TradingInit /\ [][TradingNext]_tradingVars
=============================================================================
