---------------------------- MODULE FeedFindings ----------------------------
(* What a FeedHealthMonitor is configured with, what the engine's one hears  *)
(* and finds, and what it promises of a change to a worse state.             *)
EXTENDS Integers, Sequences

CONSTANTS
  DelayGap, StaleGap, DownGap,   \* the gaps a tick may be old
  Confirmations,                 \* checks that must agree on a worse state
  SafeDown, SafeChecks,          \* DOWN, or a low score, for so long
  Bonuses,                       \* points for options and tick rate
  Days

ASSUME FeedWatchAssumption ==
  /\ DelayGap \in Nat /\ StaleGap \in Nat /\ DownGap \in Nat
  /\ DelayGap <= StaleGap /\ StaleGap <= DownGap
  /\ Confirmations \in Nat \ {0} /\ SafeDown \in Nat \ {0}
  /\ SafeChecks \in Nat \ {0} /\ Days \in Nat \ {0}
  /\ Bonuses \subseteq 0 .. 30

VARIABLES
  heard,          \* monitor -> time since on_tick, None before the first
  monitor,        \* monitor -> what it holds
  findings        \* history: the last findings of the engine's monitor

Worse == <<"HEALTHY", "DELAYED", "STALE", "DOWN">>
States == {Worse[i] : i \in DOMAIN Worse}
Rank(s) == CHOOSE i \in DOMAIN Worse : Worse[i] = s

\* A gap beyond the limit is a hard DOWN; a feed never heard of is not.
HardDown(age) == age > DownGap

\* The state gets worse only on a gap beyond the limit, or when the last
\* checks of the session have all found the very state it takes.
Worsens(m) ==
  /\ {m.health, m'.health} \subseteq States
  /\ Rank(m'.health) > Rank(m.health)
WorsensOnlyConfirmed ==
  [][Worsens(monitor["engine"]) =>
       \/ HardDown(heard["engine"])
       \/ /\ Len(findings') = Confirmations
          /\ \A i \in DOMAIN findings' :
               findings'[i] = monitor'["engine"].health]_monitor
=============================================================================
