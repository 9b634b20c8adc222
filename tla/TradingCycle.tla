---------------------------- MODULE TradingCycle ----------------------------
(***************************************************************************)
(* What main.py does when a minute has closed: features, context, the      *)
(* captain's step, the scan of the strategies, and trap, scoring, ML and   *)
(* risk for each opportunity (_process_candle_close, called by             *)
(* run_forever), and what of it MarketState shows.                         *)
(*                                                                         *)
(* The engines' results are inputs.  The candle builder goes on closing    *)
(* minutes meanwhile.  Commands, kill-switch and signals are ControlPlane's *)
(* subject.                                                                *)
(***************************************************************************)
EXTENDS Integers, Sequences, FiniteSets

CONSTANTS
    Brains,          \* the brains of the strategies
    MaxMinutes,      \* bound: minutes that close
    MaxOffers        \* bound: opportunities of one scan

VARIABLES
    closed,     \* the last minute the candle builder has closed
    seen,       \* _last_1m_closed_ts
    pc,         \* where the main thread is
    allowed,    \* allowed_brains of the captain's result
    offers,     \* the opportunities that are left to judge
    stages,     \* how many reached each list of the cycle
    shown,      \* MarketState: the minute and the lists of the last whole cycle
    asked, answered   \* history: opportunities given to the risk engine, and
                      \* its decisions

vars == <<closed, seen, pc, allowed, offers, stages, shown, asked, answered>>

\* An opportunity: the strategy's brain, and who stops it.
Offer == [brain : Brains, fate : {"trap", "score", "survives"}]
NoStages == [raw |-> 0, trapped |-> 0, scored |-> 0, ml |-> 0, approved |-> 0]
Surface == [minute : 0..MaxMinutes, brains : SUBSET Brains,
            stages : [DOMAIN NoStages -> 0..MaxOffers]]

TypeOK ==
    /\ closed \in 0..MaxMinutes /\ seen \in 0..closed
    /\ pc \in {"loop", "features", "captain", "scan", "judge", "risk", "ended"}
    /\ allowed \subseteq Brains
    /\ offers \in Seq(Offer) /\ Len(offers) <= MaxOffers
    /\ stages \in [DOMAIN NoStages -> 0..MaxOffers]
    /\ shown \in Surface
    /\ asked \in Nat /\ answered \in Nat

-----------------------------------------------------------------------------
\* The data engine closes a minute.
Close ==
    /\ closed < MaxMinutes
    /\ closed' = closed + 1
    /\ UNCHANGED <<seen, pc, allowed, offers, stages, shown, asked, answered>>

\* run_forever looks at the last closed minute only: those that closed during
\* a long cycle are passed over, and one whose cycle fails is not tried again.
Turn ==
    /\ pc = "loop" /\ closed # seen
    /\ seen' = closed
    /\ pc' = "features" /\ stages' = NoStages
    /\ UNCHANGED <<closed, allowed, offers, shown, asked, answered>>

\* A failure up to the scan ends the cycle, and MarketState shows the last one.
Fails ==
    /\ pc' = "loop"
    /\ UNCHANGED <<allowed, offers, stages>>

\* compute_all, _build_context and _update_context_engines.
Features ==
    /\ pc = "features"
    /\ \/ Fails
       \/ pc' = "captain" /\ UNCHANGED <<allowed, offers, stages>>
    /\ UNCHANGED <<closed, seen, shown, asked, answered>>

\* _captain_step.  The context stands where step() takes opportunities: it is
\* not empty, so the captain generates none itself, and none of its keys is
\* one, so the captain approves none.
Captain ==
    /\ pc = "captain"
    /\ \/ Fails
       \/ pc' = "scan" /\ allowed' \in SUBSET Brains /\ UNCHANGED <<offers, stages>>
    /\ UNCHANGED <<closed, seen, shown, asked, answered>>

Publish(s) ==
    shown' = [minute |-> seen, brains |-> allowed, stages |-> s]

\* The brains _scan_strategies passes on.  The captain's result has
\* allowed_brains; what is asked for is active_brains, and without it the
\* strategies of all brains are scanned.
Scanned == Brains

Scan ==
    /\ pc = "scan"
    /\ \/ Fails /\ UNCHANGED shown
       \/ /\ \E n \in 0..MaxOffers :
               offers' \in {o \in [1..n -> Offer] : \A i \in 1..n : o[i].brain \in Scanned}
          /\ stages' = [NoStages EXCEPT !.raw = Len(offers')]
          /\ IF offers' = <<>>
             THEN pc' = "loop" /\ Publish(stages')
             ELSE pc' = "judge" /\ UNCHANGED shown
          /\ UNCHANGED allowed
    /\ UNCHANGED <<closed, seen, asked, answered>>

\* Trap detector and scorer.  The ML stages let everything pass: the anomaly
\* detector has neither of the methods main looks for, and the filter's
\* decision is no dict.
Judge ==
    /\ pc = "judge" /\ offers # <<>>
    /\ LET fate == Head(offers).fate
       IN  /\ stages' = CASE fate = "trap" -> [stages EXCEPT !.trapped = @ + 1]
                          [] fate = "score" -> stages
                          [] fate = "survives" -> [stages EXCEPT !.scored = @ + 1, !.ml = @ + 1]
           /\ IF fate = "survives"
              THEN pc' = "risk" /\ asked' = asked + 1 /\ UNCHANGED offers
              ELSE offers' = Tail(offers) /\ UNCHANGED <<pc, asked>>
    /\ UNCHANGED <<closed, seen, allowed, shown, answered>>

\* _risk_approve calls RiskEngine.evaluate with the market state as a third
\* argument.  It takes two, and the TypeError goes through to run_forever,
\* which stops the backend as after every error it does not expect.
RiskApprove ==
    /\ pc = "risk"
    /\ pc' = "ended"
    /\ UNCHANGED <<closed, seen, allowed, offers, stages, shown, asked, answered>>

Finish ==
    /\ pc = "judge" /\ offers = <<>>
    /\ Publish(stages)
    /\ pc' = "loop"
    /\ UNCHANGED <<closed, seen, allowed, offers, stages, asked, answered>>

Init ==
    /\ closed = 0 /\ seen = 0
    /\ pc = "loop"
    /\ allowed = {} /\ offers = <<>> /\ stages = NoStages
    /\ shown = [minute |-> 0, brains |-> {}, stages |-> NoStages]
    /\ asked = 0 /\ answered = 0

Next ==
    \/ Close \/ Turn \/ Features \/ Captain \/ Scan \/ Judge \/ RiskApprove \/ Finish

Spec == Init /\ [][Next]_vars

-----------------------------------------------------------------------------
(* Properties.                                                             *)

(* "13. Risk Engine -> sizes and validates" (system plan and roadmap:176): *)
(* an opportunity that was given to the risk engine is answered before     *)
(* anything else happens.  Not kept: the first that survives trap and      *)
(* scoring ends the backend.                                               *)
RiskAnswers == asked = answered + (IF pc = "risk" THEN 1 ELSE 0)

(* "8. Active Brain(s) -> scan via Strategy Engine" (:171): only offers of *)
(* brains the captain allows are judged.  Not kept either.                 *)
OnlyAllowedBrains == \A i \in DOMAIN offers : offers[i].brain \in allowed
=============================================================================
