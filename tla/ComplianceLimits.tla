-------------------------- MODULE ComplianceLimits --------------------------
(* What a ComplianceGuard is configured with, the clocks and addresses it    *)
(* meets, and what it promises of the orders it grants.                      *)
EXTENDS Integers, Sequences

CONSTANTS
    Limit,          \* max_orders_per_second
    Window,         \* the one second, in clock ticks
    Skews,          \* offsets of the wall clock from elapsed time
    Forward,        \* may the wall clock be stepped forward?
    Ips,            \* addresses an order may come from or be registered to
    NoIp,           \* an address that was not given
    MaxTime         \* bound: the ticks that elapse

ASSUME LimitAssumption == Limit \in Nat \ {0}       \* values below 1 become 9
ASSUME ClockAssumption ==
    /\ Window \in Nat /\ MaxTime \in Nat
    /\ Skews \subseteq Int /\ 0 \in Skews
    /\ Forward \in BOOLEAN

VARIABLE
    granted         \* history: the LIVE orders allowed since the last reset

(* "Max 9 OPS": no Window of elapsed time, ends included, sees more than   *)
(* Limit orders granted by one guard that was not reset meanwhile.         *)
(* Clearing a stamp too early, or counting after the append, breaks it;    *)
(* stepping the clock back does not, stepping it forward does.             *)
RateHeld ==
    \A i \in 1 .. Len(granted) - Limit :
        granted[i + Limit].real - granted[i].real > Window
=============================================================================
