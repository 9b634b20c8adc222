---------------------------- MODULE TickValidator ----------------------------
(***************************************************************************)
(* The validator of one instrument's ticks (core/tick_validator.py): the   *)
(* checks of validate() and the memory they keep.  Its operations are      *)
(* actions on the variable validator; the data path conjoins them with     *)
(* what it does with the tick.  Times are whole units of a clock.          *)
(*                                                                         *)
(* A tick is a record: ts, price, volume and fault, the first check before *)
(* the ordering that refuses it ("none" for a tick that parses): unknown   *)
(* token, missing or future timestamp, market closed, price out of bounds  *)
(* or off the tick size.                                                   *)
(***************************************************************************)
EXTENDS Integers, SequencesExt

CONSTANTS
  DelayGap, StaleGap, DownGap,   \* feed_delay/stale/down_threshold_ms
  GuardGap,                      \* reconnect_guard_sec
  ResetGap,                      \* reset_gap_sec
  SpikePct                       \* spike_pct, while the window is short

ASSUME GapsAssumption ==
  /\ DelayGap \in Nat /\ StaleGap \in Nat /\ DownGap \in Nat
  /\ DelayGap <= StaleGap /\ StaleGap <= DownGap
  /\ GuardGap \in Nat /\ ResetGap \in Nat /\ GuardGap <= ResetGap
  /\ SpikePct \in Nat

VARIABLE validator

None == -1                          \* a value not known yet

FreshValidator ==
  [ts |-> None, price |-> None, volume |-> None, health |-> "none",
   seen |-> 0, valid |-> 0, refused |-> 0, late |-> 0, duplicates |-> 0,
   streak |-> 0, bursts |-> 0, resets |-> 0, spikes |-> 0]

First == validator.ts = None
Late(t) == ~First /\ t.ts < validator.ts
Repeats(t) == /\ t.ts = validator.ts
              /\ t.price = validator.price
              /\ t.volume = validator.volume

\* What validate() returns: a tick, or nothing.  The branch that counts a
\* late tick as rejected goes on to the part that accepts it.
Passes(t) == t.fault = "none" /\ ~Repeats(t)

Gap(t) == IF First \/ Late(t) THEN 0 ELSE t.ts - validator.ts
GapClass(t) == CASE First             -> "FIRST_TICK"
                 [] Gap(t) > DownGap  -> "DOWN"
                 [] Gap(t) > StaleGap -> "STALE"
                 [] Gap(t) > DelayGap -> "DELAYED"
                 [] OTHER             -> "HEALTHY"

\* The price a jump is measured against: none after a reconnect gap.
Baseline(t) == IF First \/ Gap(t) > GuardGap THEN None ELSE validator.price
Spike(t) ==
  LET jump == IF t.price > Baseline(t) THEN t.price - Baseline(t)
                                       ELSE Baseline(t) - t.price
  IN Baseline(t) > 0 /\ jump * 100 > SpikePct * Baseline(t)

One(condition) == IF condition THEN 1 ELSE 0

Refuse(t) ==
  /\ t.fault # "none"
  /\ validator' = [validator EXCEPT !.seen = @ + 1, !.refused = @ + 1,
                                    !.streak = @ + 1]

StopDuplicate(t) ==
  /\ t.fault = "none" /\ Repeats(t)
  /\ validator' = [validator EXCEPT !.seen = @ + 1, !.duplicates = @ + 1,
                                    !.streak = @ + 1]

Accept(t) ==
  /\ Passes(t)
  /\ validator' = [validator EXCEPT
       !.ts = t.ts, !.price = t.price, !.volume = t.volume,
       !.health = GapClass(t), !.seen = @ + 1, !.valid = @ + 1,
       !.late = @ + One(Late(t)), !.streak = 0,
       !.bursts = @ + One(Gap(t) > GuardGap),
       !.resets = @ + One(Gap(t) > ResetGap),
       !.spikes = @ + One(Spike(t))]

Validate(t) == Refuse(t) \/ StopDuplicate(t) \/ Accept(t)

\* What the statistics of the validator say of the ticks it has seen
\* (get_stats, and "rejected" of the engine's get_status): each is counted
\* as valid or under one reason of rejection.  The code does not keep it.
TotalsAgree ==
  validator.seen = validator.valid + validator.refused + validator.late
                   + validator.duplicates
=============================================================================
