---------------------------- MODULE PositionBook ----------------------------
(* What the position manager is given and keeps, and what it promises of the *)
(* stops.                                                                    *)
EXTENDS Integers

CONSTANTS
    Ids,            \* position ids the callers use
    Entries,        \* what add_position can be given, see EntryType
    Updates,        \* what update_position can be given, see UpdateType
    CloseAt,        \* exit prices close_position can be given
    MaxAdds         \* bound: calls of add_position

Sides == {"BUY", "SELL"}

\* side, quantity, entry price, stop and target; prices may be invalid (0).
EntryType == [side : Sides, qty : Nat, entry : Nat, sl : Nat, target : Nat]

(***************************************************************************)
(* One look at the market: the price, ATR (0 when not known), whether the  *)
(* model's confidence fell below its threshold, whether the longest hold   *)
(* is over, and whether the regime became CHOP or EVENT.                   *)
(***************************************************************************)
UpdateType == [price : Nat, atr : Nat, decayed : BOOLEAN, expired : BOOLEAN,
               choppy : BOOLEAN]

ASSUME EntryAssumption == Entries \subseteq EntryType
ASSUME UpdateAssumption == Updates \subseteq UpdateType
ASSUME CloseAssumption == CloseAt \subseteq Nat
ASSUME AddsAssumption == MaxAdds \in Nat

VARIABLES
    known,          \* the keys of _positions
    positions,      \* the ManagedPosition of each known id
    adds            \* calls of add_position that registered a position

\* What a position has gained per unit at a price.
Gain(p, price) == IF p.side = "BUY" THEN price - p.entry ELSE p.entry - price

\* The same position before and after a step: not one added in its place.
Stays(id) == /\ id \in known /\ id \in known'
             /\ positions[id].born = positions'[id].born

(***************************************************************************)
(* "Never move stop backward": through breakeven moves, tightening in      *)
(* choppy regimes and trailing, with an ATR that changes from look to      *)
(* look, the stop of a position only ever moves to where less is lost.     *)
(***************************************************************************)
StopNeverBackward ==
    [][\A id \in Ids : Stays(id) =>
          Gain(positions[id], positions'[id].sl) >=
              Gain(positions[id], positions[id].sl)]_<<known, positions, adds>>
=============================================================================
