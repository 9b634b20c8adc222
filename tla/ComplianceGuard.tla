--------------------------- MODULE ComplianceGuard ---------------------------
(***************************************************************************)
(* One instance of execution/compliance.py ComplianceGuard: the last check *)
(* before an order leaves for the broker, and its orders-per-second        *)
(* ceiling for LIVE orders.                                                *)
(*                                                                         *)
(* The guard stamps orders with the wall clock (datetime.now(IST)), which  *)
(* an operator or NTP may step; the exchange's limit is about elapsed      *)
(* time.  The model keeps both: "real" elapses, and the wall clock reads   *)
(* real + skew.                                                            *)
(***************************************************************************)
EXTENDS ComplianceLimits, Sequences

VARIABLES
    real,           \* elapsed time
    skew,           \* wall clock minus elapsed time
    window,         \* _recent_order_timestamps: wall-clock stamps
    verdict         \* history: the last decision

vars == <<real, skew, window, granted, verdict>>

Addresses == Ips \cup {NoIp}
Modes == {"ALERT", "PAPER", "LIVE"}
AllowedTypes == {"LIMIT", "STOPLOSS_LIMIT"}

(***************************************************************************)
(* An order, as far as the decision depends on it: do symbol, direction,   *)
(* quantity and price pass the structure checks, which type it asks for    *)
(* and whether it carries an algo id.                                      *)
(***************************************************************************)
Order == [formed : BOOLEAN, type : AllowedTypes \cup {"MARKET"}, algo : BOOLEAN]

Grant == [real : Nat, wall : Int, verified : BOOLEAN]

TypeOK ==
    /\ real \in Nat
    /\ skew \in Skews
    /\ window \in Seq(Int) /\ Len(window) <= Limit
    /\ granted \in Seq(Grant)
    /\ verdict \in {"none", "passed", "granted", "refused", "too_many"}

Init ==
    /\ real = 0
    /\ skew = 0
    /\ window = <<>>
    /\ granted = <<>>
    /\ verdict = "none"

Wall == real + skew

\* Can the address pair stop a LIVE order?  Only when both are known.
Mismatch(cur, reg) == cur # NoIp /\ reg # NoIp /\ cur # reg

\* The checks in front of the ceiling.
Complies(o, mode, cur, reg) ==
    /\ o.formed
    /\ o.type \in AllowedTypes
    /\ mode = "LIVE" => o.algo /\ ~Mismatch(cur, reg)

\* Faulty variant: a stamp leaves when it is exactly one second old.
ExpiredAtLimit(stamp) == Wall - stamp >= Window

\* Is a stamp old enough to leave the window?
Expired(stamp) == Wall - stamp > Window

(***************************************************************************)
(* The loop drops the first n stamps of the window: stamps leave from its  *)
(* head while they are expired, and the first one that is not stops it.    *)
(***************************************************************************)
Drops(n) ==
    /\ \A i \in 1 .. n : Expired(window[i])
    /\ n < Len(window) => ~Expired(window[n + 1])

\* Refused before the ceiling is looked at: no slot is taken.
Refuse(o, mode, cur, reg) ==
    /\ ~Complies(o, mode, cur, reg)
    /\ verdict' = "refused"
    /\ UNCHANGED <<real, skew, window, granted>>

\* PAPER and ALERT orders are not counted.
Pass(o, mode, cur, reg) ==
    /\ mode # "LIVE"
    /\ Complies(o, mode, cur, reg)
    /\ verdict' = "passed"
    /\ UNCHANGED <<real, skew, window, granted>>

\* Faulty variant: a refused order is stamped as well.
StampedAnyway(rest) == Append(rest, Wall)

\* What a refused order leaves in the window.
LeftByRefusal(rest) == rest

\* Faulty variant: the ceiling itself is refused one order too late.
HasRoomLate(rest) == Len(rest) <= Limit

HasRoom(rest) == Len(rest) < Limit

\* A LIVE order takes a slot of the window, if one is free.
TakeSlot(rest, cur, reg) ==
    /\ HasRoom(rest)
    /\ window' = Append(rest, Wall)
    /\ granted' = Append(granted, [real |-> real, wall |-> Wall,
                                   verified |-> cur = reg /\ cur # NoIp])
    /\ verdict' = "granted"

NoSlot(rest) ==
    /\ ~HasRoom(rest)
    /\ window' = LeftByRefusal(rest)
    /\ verdict' = "too_many"
    /\ UNCHANGED granted

CheckOpsLimit(cur, reg) ==
    /\ \E n \in 0 .. Len(window) :
          LET rest == SubSeq(window, n + 1, Len(window))
          IN  /\ Drops(n)
              /\ TakeSlot(rest, cur, reg) \/ NoSlot(rest)
    /\ UNCHANGED <<real, skew>>

Live(o, mode, cur, reg) ==
    /\ mode = "LIVE"
    /\ Complies(o, mode, cur, reg)
    /\ CheckOpsLimit(cur, reg)

ValidateOrder(o, mode, cur, reg) ==
    \/ Refuse(o, mode, cur, reg)
    \/ Pass(o, mode, cur, reg)
    \/ Live(o, mode, cur, reg)

\* reset(): the guard forgets what it granted.
Reset ==
    /\ window' = <<>>
    /\ granted' = <<>>
    /\ verdict' = "none"
    /\ UNCHANGED <<real, skew>>

Tick ==
    /\ real < MaxTime
    /\ real' = real + 1
    /\ verdict' = "none"
    /\ UNCHANGED <<skew, window, granted>>

\* The wall clock is stepped.
StepClock ==
    /\ \E s \in Skews :
          /\ s # skew
          /\ s > skew => Forward
          /\ skew' = s
    /\ verdict' = "none"
    /\ UNCHANGED <<real, window, granted>>

Next ==
    \/ \E o \in Order, m \in Modes, cur, reg \in Addresses :
          ValidateOrder(o, m, cur, reg)
    \/ Reset
    \/ Tick
    \/ StepClock

Spec == Init /\ [][Next]_vars

-----------------------------------------------------------------------------
(***************************************************************************)
(* An order is refused for the rate only if Limit orders were granted in   *)
(* the window of elapsed time that ends now: neither a refused order nor a *)
(* stale stamp holds a slot.  A wall clock that was put back since one of  *)
(* the grants makes stamps young again, and orders are refused for longer. *)
(***************************************************************************)
ClockStoodSinceGrants ==
    \A i \in 1 .. Len(granted) : granted[i].wall - granted[i].real = skew

RefusedWhenFull ==
    verdict = "too_many" /\ ClockStoodSinceGrants =>
        /\ Len(granted) >= Limit
        /\ real - granted[Len(granted) - Limit + 1].real <= Window

(***************************************************************************)
(* "validate static IP match for LIVE mode" (compliance.py:13): a LIVE     *)
(* order is granted only from the registered address.  The code lets an    *)
(* order with either address missing through, and both default to None.    *)
(***************************************************************************)
StaticIpChecked == \A i \in 1 .. Len(granted) : granted[i].verified
=============================================================================
