------------------------------ MODULE Captain ------------------------------
(***************************************************************************)
(* The mode state machine of CaptainEngine (captain_engine.py).            *)
(*                                                                         *)
(* step() is called once per closed one-minute candle.  It reads a         *)
(* snapshot of MarketState, decides a system state, vets the opportunities *)
(* of the cycle and records what it approved and vetoed.  The whole of it  *)
(* runs under self._lock, so it is one action here.  The decision chain of *)
(* _decide_state is split into one disjunct per branch of the chain, and   *)
(* everything step() does after the decision is Conclude.                  *)
(*                                                                         *)
(* Time is relative: a deadline of the code (`now < x_until`) is the       *)
(* number of ticks left, a "since" timestamp is a saturating age.  What    *)
(* the snapshot and the strategy pipeline deliver to one cycle is a record *)
(* of StepInputs.                                                          *)
(***************************************************************************)
EXTENDS Integers, Sequences, FiniteSets, FiniteSetsExt

CONSTANTS
    StepInputs,        \* what one cycle can be given, see InputType
    Seeds,             \* MarketState.system_state when the engine is built
    Overnight,         \* TRUE when the process may live through several days
    Operator,          \* TRUE when the operator uses the manual overrides
    MaxLosses,         \* bound on MarketState.consecutive_losses
    Minute,            \* ticks in 60 s
    DwellC2A,          \* min_dwell_cautious_to_active_sec
    DwellS2C,          \* min_dwell_safe_to_cautious_sec
    ProbeInterval,     \* probe_interval_min
    BoostWindow,       \* probe_recovery_boost_min
    LossCooldown,      \* cooldown_after_loss_sec
    VetoBurst,         \* veto_burst_count
    VetoWindow,        \* veto_burst_window_sec
    VetoSafe,          \* veto_burst_safe_sec
    ProbeFailSafe,     \* forced SAFE after a failed probe
    TradeCap,          \* max_trades_per_minute
    RelaxGrace,        \* safe_trap_grace_min
    RelaxEvery,        \* relax_step_every_min
    QuietCap,          \* where the "minutes since approval" age saturates
    MaxProbes          \* where the count of unresolved probes saturates

States == {"BOOT", "OBSERVE", "ACTIVE", "CAUTIOUS", "SAFE", "LOCKED", "SHUTDOWN"}
Sessions == <<"pre", "observe", "trade", "closed">>

InputType ==
    [gate      : {"ok", "breaker", "risk", "data", "feed"},
     conf      : 0..100,          \* confidence_score of the layers
     choppy    : BOOLEAN,         \* regime is CHOP or EVENT
     quality   : {"low", "mid", "high"},   \* DQS below 65, below 70, above
     consensus : BOOLEAN,         \* brains agree strongly enough for a probe
     held      : BOOLEAN,         \* snapshot shows open positions
     trend     : {-2, 0, 4},      \* threshold bonus of the drawdown trend
     blocked   : BOOLEAN,         \* blocked rate above its trigger
     anomaly   : Nat,             \* ticks of forced SAFE an anomaly asks for
     clean     : Nat,             \* opportunities no stateless check refuses
     flawed    : Nat,             \* opportunities some stateless check refuses
     minority  : Nat]             \* opportunities of a suppressed brain

ASSUME CaptainAssumption ==
    /\ StepInputs \subseteq InputType
    /\ Seeds \subseteq States
    /\ Overnight \in BOOLEAN
    /\ Operator \in BOOLEAN
    /\ {MaxLosses, TradeCap, QuietCap, MaxProbes} \subseteq Nat
    /\ {Minute, DwellC2A, DwellS2C, ProbeInterval, BoostWindow, LossCooldown,
        VetoBurst, VetoWindow, VetoSafe, ProbeFailSafe, RelaxGrace, RelaxEvery}
         \subseteq Nat \ {0}
    \* A failed probe and a veto burst force SAFE for the same ten minutes,
    \* and no anomaly asks for more (five or ten).
    /\ ProbeFailSafe = VetoSafe
    /\ \A in \in StepInputs : in.anomaly <= VetoSafe

Never == -1
DwellCap == Max({Minute, DwellC2A, DwellS2C})

VARIABLES
    session,         \* where the clock stands in the trading day
    losses,          \* MarketState.consecutive_losses, written by others
    manualLock, manualShutdown,
    state,           \* _current_state
    dwell,           \* now - _state_entered_at
    forced,          \* ticks left of _forced_safe_until
    boost,           \* ticks left of _recovery_boost_until
    cooldown,        \* ticks left of _loss_cooldown_until
    lastLosses,      \* _last_consecutive_losses
    probePending,    \* _probe_pending
    sinceAttempt,    \* age of _last_probe_attempt_at
    everApproved,    \* _last_any_approval_at is set
    quiet,           \* age of the last approval, of the state before the first
    approvals,       \* _approval_times, each with whether the cap kept it
    vetoes,          \* _veto_times
    result,          \* the last CaptainCycleResult
    grant,           \* history: probes returned since probePending was cleared
    probesOut,       \* history: probes returned whose outcome is unknown
    sinceSafe        \* history: age of the last moment spent in SAFE

engine == <<state, dwell, forced, boost, cooldown, lastLosses, probePending,
            sinceAttempt, everApproved, quiet, approvals, vetoes>>
history == <<grant, probesOut, sinceSafe>>
vars == <<session, losses, manualLock, manualShutdown, engine, result, history>>

NoResult == [shown |-> "BOOT", allow |-> FALSE, probe |-> FALSE, kept |-> 0,
             capped |-> 0]

TypeOK ==
    /\ session \in {"pre", "observe", "trade", "closed"}
    /\ losses \in 0..MaxLosses
    /\ manualLock \in BOOLEAN
    /\ manualShutdown \in BOOLEAN
    /\ state \in States
    /\ dwell \in 0..DwellCap
    /\ forced \in 0..VetoSafe
    /\ boost \in 0..BoostWindow
    /\ cooldown \in 0..LossCooldown
    /\ lastLosses \in {Never} \cup 0..MaxLosses
    /\ probePending \in BOOLEAN
    /\ sinceAttempt \in 0..ProbeInterval
    /\ everApproved \in BOOLEAN
    /\ quiet \in 0..QuietCap
    /\ approvals \in Seq([age : Nat, kept : BOOLEAN])
    /\ vetoes \in Seq([age : Nat])
    /\ result \in [shown : States, allow : BOOLEAN, probe : BOOLEAN,
                   kept : Nat, capped : Nat]
    /\ grant \in Nat
    /\ probesOut \in 0..MaxProbes
    /\ sinceSafe \in 0..DwellC2A

-----------------------------------------------------------------------------
(* The scoring that the decision reads.                                    *)

\* Faulty variant: the thresholds never relax.
NoRelaxation == 0

\* _compute_relaxation_points: after the grace period in SAFE or CAUTIOUS
\* without an approval the thresholds come down, two points a step.
Relaxation ==
    IF state \in {"SAFE", "CAUTIOUS"} /\ quiet >= RelaxGrace
    THEN 2 * ((quiet - RelaxGrace) \div RelaxEvery + 1)
    ELSE 0

\* _compute_dynamic_thresholds, with its floors.
Shift(in) == in.trend - (IF in.blocked THEN 2 ELSE 0) - Relaxation
ObserveToActive(in)  == Max({65, 75 + Shift(in)})
CautiousToActive(in) == Max({70, 80 + Shift(in)})
SafeToCautious(in)   == Max({55, 60 + Shift(in) \div 2})

\* _update_loss_cooldown, the first thing step() does.
CooldownNow ==
    IF lastLosses # Never /\ losses > lastLosses THEN LossCooldown ELSE cooldown

\* _generate_internal_opportunities runs before the decision and may force
\* SAFE when the anomaly detector asks for a pause; it scans only in the
\* states some brain is allowed in.
Scans == state \in {"ACTIVE", "CAUTIOUS", "SAFE"}
\* Faulty variant: the anomaly's deadline replaces a later one.
ForcedByLatest(in) == IF in.anomaly > 0 THEN in.anomaly ELSE forced
\* Faulty variant: an anomaly prolongs what is left.
ForcedAddsUp(in) == forced + in.anomaly
ForcedNow(in) == Max({forced, in.anomaly})

\* Faulty variant: a pending probe is no obstacle.
ProbeAllowedAgain(in) ==
    /\ ForcedNow(in) = 0
    /\ sinceAttempt >= ProbeInterval
    /\ ~in.choppy
    /\ in.quality # "low"

\* _should_allow_probe
ProbeAllowed(in) ==
    /\ ForcedNow(in) = 0
    /\ ~probePending
    /\ sinceAttempt >= ProbeInterval
    /\ ~in.choppy
    /\ in.quality # "low"

-----------------------------------------------------------------------------
(* final_veto, the trade-frequency cap and the veto burst.                 *)

\* Faulty variant: earlier cycles are not counted.
ThisCycleOnly == 0

\* _count_trades_last_60s
RecentApprovals == Len(approvals)

\* The part of final_veto that depends on the decision and on the cycle.
Tradable(in, shown, allow, probe) ==
    /\ shown = "ACTIVE" \/ (shown = "SAFE" /\ probe)
    /\ allow
    /\ CooldownNow = 0
    /\ in.quality = "high"
    /\ ~in.choppy
    /\ probe => in.consensus /\ ~in.held

\* Opportunities final_veto lets through: each is recorded at once, and the
\* next one is counted against the cap with it.
Passed(in, shown, allow, probe) ==
    IF Tradable(in, shown, allow, probe)
    THEN Min({in.clean, Max({0, TradeCap - RecentApprovals})})
    ELSE 0

\* _apply_trade_frequency_cap counts the approvals of the cycle it is applied to.
Kept(passed) == Min({passed, Max({0, TradeCap - (RecentApprovals + passed)})})

Stamp(n, e) == [i \in 1..n |-> e]
\* Faulty variant: state_entered_at is not renewed.
NeverEntering(to) == FALSE
Entering(to) == state # to

\* Faulty variant: what the recovery left behind stays.
NeverRecovered(to) == FALSE

\* _transition into ACTIVE ends the recovery: no boost, forced SAFE or probe.
Recovered(to) == Entering(to) /\ to = "ACTIVE"

\* What step() does with a decision: probe rate limit, vetting, frequency cap,
\* veto burst, and the state change of _transition when `to` is a new state.
Conclude(in, to, shown, allow, probe) ==
    LET passed  == Passed(in, shown, allow, probe)
        kept    == Kept(passed)
        refused == in.minority + in.flawed + (in.clean - kept)
        burst   == Len(vetoes) + refused >= VetoBurst
        enters  == Recovered(to)
        pends   == probe /\ passed > 0
    IN  /\ state' = to
        /\ dwell' = IF Entering(to) THEN 0 ELSE dwell
        /\ forced' = IF burst THEN VetoSafe ELSE IF enters THEN 0 ELSE ForcedNow(in)
        /\ boost' = IF enters THEN 0 ELSE boost
        /\ cooldown' = CooldownNow
        /\ lastLosses' = losses
        /\ probePending' = (pends \/ (probePending /\ ~enters))
        /\ sinceAttempt' = IF shown = "SAFE" /\ probe THEN 0 ELSE sinceAttempt
        /\ everApproved' = (everApproved \/ passed > 0)
        /\ quiet' = IF passed > 0 \/ (Entering(to) /\ ~everApproved) THEN 0 ELSE quiet
        /\ approvals' = approvals \o [i \in 1..passed |-> [age |-> 0, kept |-> i <= kept]]
        /\ vetoes' = IF burst THEN << >> ELSE vetoes \o Stamp(refused, [age |-> 0])
        /\ result' = [shown |-> shown, allow |-> allow, probe |-> probe, kept |-> kept,
                      capped |-> passed - kept]
        /\ grant' = (IF enters THEN 0 ELSE grant) + (IF probe THEN kept ELSE 0)
        /\ probesOut' = Min({MaxProbes, probesOut + (IF probe THEN kept ELSE 0)})
        /\ sinceSafe' = IF state = "SAFE" \/ to = "SAFE" THEN 0 ELSE sinceSafe
        /\ UNCHANGED <<session, losses, manualLock, manualShutdown>>

-----------------------------------------------------------------------------
(* _decide_state: the gates, then one disjunct per current state.          *)

InHours == session \in {"observe", "trade"}

\* Faulty variant: forced SAFE is forgotten.
BarredUnlessForced(in) == ~InHours \/ manualShutdown \/ manualLock \/ in.gate # "ok"
\* Faulty variant: the manual lock is forgotten.
BarredUnlessLocked(in) == ~InHours \/ manualShutdown \/ ForcedNow(in) > 0 \/ in.gate # "ok"

\* The gates before the state machine.  They return a decision and leave
\* _current_state, and the time it was entered, as they were.
Barred(in) ==
    \/ ~InHours
    \/ manualShutdown
    \/ manualLock
    \/ ForcedNow(in) > 0
    \/ in.gate # "ok"

BarrierShown(in) ==
    CASE session = "pre"                    -> "BOOT"
      [] session = "closed"                 -> "SHUTDOWN"
      [] InHours /\ manualShutdown          -> "SHUTDOWN"
      [] InHours /\ ~manualShutdown /\ manualLock -> "LOCKED"
      [] OTHER -> IF ForcedNow(in) = 0 /\ in.gate = "breaker" THEN "LOCKED" ELSE "SAFE"

StepBarred(in) ==
    /\ Barred(in)
    /\ Conclude(in, state, BarrierShown(in), FALSE, FALSE)

\* Faulty variant: no observation window.
WindowIgnored == TRUE

\* The baseline is OBSERVE until observe_until, ACTIVE after it.
WindowOpen == session = "trade"

StepWarmup(in) ==
    /\ ~Barred(in)
    /\ state \in {"BOOT", "OBSERVE"}
    /\ IF WindowOpen /\ dwell >= Minute /\ in.conf >= ObserveToActive(in)
       THEN Conclude(in, "ACTIVE", "ACTIVE", TRUE, FALSE)
       ELSE Conclude(in, "OBSERVE", "OBSERVE", FALSE, FALSE)

Collapses(in) == in.conf < 45 \/ in.choppy

StepActive(in) ==
    /\ ~Barred(in)
    /\ state = "ACTIVE"
    /\ \/ /\ Collapses(in)
          /\ Conclude(in, "SAFE", "SAFE", FALSE, FALSE)
       \/ /\ ~Collapses(in)
          /\ in.conf < 55
          /\ Conclude(in, "CAUTIOUS", "CAUTIOUS", FALSE, FALSE)
       \/ /\ ~Collapses(in)
          /\ in.conf >= 55
          /\ Conclude(in, "ACTIVE", "ACTIVE", CooldownNow = 0, FALSE)

StepCautious(in) ==
    /\ ~Barred(in)
    /\ state = "CAUTIOUS"
    /\ LET climbs == dwell >= DwellC2A /\ in.conf >= CautiousToActive(in)
       IN  \/ /\ Collapses(in)
              /\ Conclude(in, "SAFE", "SAFE", FALSE, FALSE)
           \/ /\ ~Collapses(in)
              /\ climbs /\ CooldownNow = 0
              /\ Conclude(in, "ACTIVE", "ACTIVE", TRUE, FALSE)
           \/ /\ ~Collapses(in)
              /\ ~(climbs /\ CooldownNow = 0)
              /\ Conclude(in, "CAUTIOUS", "CAUTIOUS", FALSE, FALSE)

StepSafe(in) ==
    /\ ~Barred(in)
    /\ state = "SAFE"
    /\ LET probe  == in.clean + in.flawed + in.minority > 0 /\ ProbeAllowed(in)
           climbs == \/ boost > 0 /\ dwell >= Minute /\ in.conf >= SafeToCautious(in) - 3
                     \/ ~in.held /\ dwell >= DwellS2C /\ in.conf >= SafeToCautious(in)
       IN  \/ /\ probe
              /\ LET free == CooldownNow = 0
                 IN  Conclude(in, "SAFE", "SAFE", free, free)
           \/ /\ ~probe /\ climbs
              /\ Conclude(in, "CAUTIOUS", "CAUTIOUS", FALSE, FALSE)
           \/ /\ ~probe /\ ~climbs
              /\ Conclude(in, "SAFE", "SAFE", FALSE, FALSE)

\* A captain built while MarketState said LOCKED or SHUTDOWN has no way out.
StepStuck(in) ==
    /\ ~Barred(in)
    /\ state \in {"LOCKED", "SHUTDOWN"}
    /\ Conclude(in, state, IF state = "LOCKED" THEN "LOCKED" ELSE "SAFE", FALSE, FALSE)

Step == \E in \in StepInputs :
    /\ in.anomaly > 0 => Scans
    /\ \/ StepBarred(in) \/ StepWarmup(in) \/ StepActive(in)
       \/ StepCautious(in) \/ StepSafe(in) \/ StepStuck(in)

-----------------------------------------------------------------------------
(* The other operations, and the world around the captain.                 *)

\* notify_trade_outcome of a probe: a success opens the recovery window, a
\* loss outside the risk limits forces SAFE.
ProbeOutcome(success) ==
    /\ probesOut > 0
    /\ probesOut' = probesOut - 1
    /\ probePending' = FALSE
    /\ grant' = 0
    /\ boost' = IF success THEN BoostWindow ELSE boost
    /\ forced' = IF success THEN forced ELSE ProbeFailSafe
    /\ UNCHANGED <<session, losses, manualLock, manualShutdown, state, dwell, cooldown,
                   lastLosses, sinceAttempt, everApproved, quiet, approvals, vetoes,
                   result, sinceSafe>>

SetManualLock(b) ==
    /\ Operator
    /\ manualLock # b
    /\ manualLock' = b
    /\ UNCHANGED <<session, losses, manualShutdown, engine, result, history>>

SetManualShutdown(b) ==
    /\ Operator
    /\ manualShutdown # b
    /\ manualShutdown' = b
    /\ UNCHANGED <<session, losses, manualLock, engine, result, history>>

ClearManualOverrides ==
    /\ manualLock \/ manualShutdown
    /\ manualLock' = FALSE
    /\ manualShutdown' = FALSE
    /\ UNCHANGED <<session, losses, engine, result, history>>

\* Somebody else updates consecutive_losses in MarketState.
LossesChange ==
    /\ \E n \in 0..MaxLosses \ {losses} : losses' = n
    /\ UNCHANGED <<session, manualLock, manualShutdown, engine, result, history>>

\* The wall clock passes 09:15, 09:30, 15:30 and, overnight, midnight.
SessionTurns ==
    /\ \E i \in 1..4 :
          /\ session = Sessions[i]
          /\ i = 4 => Overnight
          /\ session' = Sessions[(i % 4) + 1]
    /\ UNCHANGED <<losses, manualLock, manualShutdown, engine, result, history>>

\* popleft() while the oldest entry is out of the window, one tick later.
Aged(s, w) ==
    LET older == [i \in DOMAIN s |-> [s[i] EXCEPT !.age = @ + 1]]
    IN  SubSeq(older, 1 + Cardinality({i \in DOMAIN s : s[i].age >= w}), Len(s))

Less(t) == Max({0, t - 1})
More(t, cap) == Min({cap, t + 1})

Tick ==
    /\ dwell' = More(dwell, DwellCap)
    /\ forced' = Less(forced)
    /\ boost' = Less(boost)
    /\ cooldown' = Less(cooldown)
    /\ sinceAttempt' = More(sinceAttempt, ProbeInterval)
    /\ quiet' = More(quiet, QuietCap)
    /\ approvals' = Aged(approvals, Minute)
    /\ vetoes' = Aged(vetoes, VetoWindow)
    /\ sinceSafe' = IF state = "SAFE" THEN 0 ELSE More(sinceSafe, DwellC2A)
    /\ UNCHANGED <<session, losses, manualLock, manualShutdown, state, lastLosses,
                   probePending, everApproved, result, grant, probesOut>>

-----------------------------------------------------------------------------
\* __init__ takes its state over from MarketState, which starts in BOOT.
Init ==
    /\ session = "pre"
    /\ losses = 0
    /\ manualLock = FALSE
    /\ manualShutdown = FALSE
    /\ state \in Seeds
    /\ dwell = 0
    /\ forced = 0
    /\ boost = 0
    /\ cooldown = 0
    /\ lastLosses = Never
    /\ probePending = FALSE
    /\ sinceAttempt = ProbeInterval
    /\ everApproved = FALSE
    /\ quiet = 0
    /\ approvals = << >>
    /\ vetoes = << >>
    /\ result = NoResult
    /\ grant = 0
    /\ probesOut = 0
    /\ sinceSafe = DwellC2A

Next ==
    \/ Step
    \/ \E b \in BOOLEAN : ProbeOutcome(b) \/ SetManualLock(b) \/ SetManualShutdown(b)
    \/ ClearManualOverrides
    \/ LossesChange
    \/ SessionTurns
    \/ Tick

Spec == Init /\ [][Next]_vars

\* The loop calls step() on every candle and the clock never stops.
Fairness == WF_vars(Step) /\ WF_vars(Tick)
FairSpec == Spec /\ Fairness

-----------------------------------------------------------------------------
(* Safety.                                                                 *)

\* The trades handed out within any minute stay under max_trades_per_minute.
\* Two checks share the deque of approvals, final_veto and the frequency cap,
\* and entries leave it as the minute slides.
EmittedWithinCap == Cardinality({i \in DOMAIN approvals : approvals[i].kept}) <= TradeCap

\* A probe can be pending only while the captain recovers: becoming ACTIVE
\* resolves it, and nothing sets it outside SAFE.
PendingOnlyWhileRecovering == probePending => state \in {"SAFE", "CAUTIOUS"}

\* Between two resolutions of the pending probe at most one probe trade goes
\* out, however many opportunities the cycle brought.  It is the frequency cap,
\* counting the cycle's approvals twice, that keeps the others back: the
\* property needs max_trades_per_minute <= 3, the default.
OneProbePerGrant == grant <= 1

\* ACTIVE is reached from SAFE only through the dwell time of CAUTIOUS: no
\* path of outcomes, boosts, gates and forced states climbs faster.
ClimbTakesTime == state = "ACTIVE" => sinceSafe >= DwellC2A

\* Before 09:30 of the first day the machine is still warming up, so whatever
\* the operator, the gates and the probes do, nothing is traded.
NoTradeBeforeWindow ==
    session \in {"pre", "observe"} => state \in {"BOOT", "OBSERVE"} /\ result.kept = 0

\* A forced SAFE period is only ever extended: no veto burst, anomaly, probe
\* outcome or change of state shortens it, only the time that passes.
ForcedNeverShortened == [][forced' < forced => Tick]_vars

\* A cycle that trades finds every brake released at its start: no forced
\* SAFE, override, cooldown or unresolved probe it would add to.
TradesFindBrakesReleased ==
    [][Len(approvals') > Len(approvals) =>
          /\ forced = 0 /\ ~manualLock /\ ~manualShutdown /\ cooldown' = 0
          /\ result'.probe => ~probePending /\ grant = 0]_vars

\* An approval falls to the frequency cap only when the minute really holds
\* max_trades_per_minute trades; `trade_frequency_cap` is the reason given.
CapDropsOnlyAtCap ==
    [][result' # result /\ result'.capped > 0 =>
          Cardinality({i \in DOMAIN approvals' : approvals'[i].kept}) >= TradeCap]_vars

\* When the captain waits for the outcome of a probe, a probe is out there.
PendingMeansProbe == probePending => grant > 0

-----------------------------------------------------------------------------
(* Liveness.                                                               *)

\* While the inputs stay good, the captain leaves SAFE and trades again, if
\* need be because the thresholds relax.
Recovers == (session = "trade" /\ state = "SAFE") ~> (session # "trade" \/ result.allow)
=============================================================================
