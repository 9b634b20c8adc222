---------------------------- MODULE OptionPoller ----------------------------
(***************************************************************************)
(* The polling of the option chain: the loop of the data engine's thread   *)
(* (src/core/data_engine.py, _option_poll_loop) and the poll it makes      *)
(* (src/core/option_chain_poller.py), with the threads that fetch the      *)
(* quotes, the budget of a poll and the circuit breaker.                   *)
(*                                                                         *)
(* One turn of the loop, option_chain_poll_interval_sec, is the unit of    *)
(* time; a poll takes less.  Of a worker's attempts only the last one is   *)
(* kept.  One that runs when the budget ends goes on, and nobody reads its *)
(* answer.                                                                 *)
(***************************************************************************)
EXTENDS Integers, FiniteSets

CONSTANTS
    Legs,          \* the strikes around the money, each as CE and PE
    Prices,        \* of the spot
    FailLimit,     \* _cb_fail_threshold
    Rest,          \* _cb_cooldown_sec, in turns
    Workers,       \* _max_workers
    FreshTurns     \* feed_health_option_fresh_sec, in turns

ASSUME OptionAssumption ==
    /\ Legs # {} /\ IsFiniteSet(Legs)
    /\ Prices \subseteq Nat \ {0}
    /\ {FailLimit, Rest, Workers, FreshTurns} \subseteq Nat \ {0}

VARIABLES
    current,     \* current_chain
    previous,    \* previous_chain
    base,        \* the spot the poll under way measures the change from
    phase,       \* where the polling thread is
    storm,       \* history: polls that asked for quotes and failed, since the
                 \* last one that did not fail or the last rest
    world,       \* the market and the broker, as the thread finds them
    spot,        \* the argument of poll()
    steady,      \* this poll's calls are answered well and in time
    task,        \* the quote of each leg
    prevSpot,    \* _previous_spot_price, 0 for None
    failures,    \* consecutive_failures
    resting,     \* turns left until cooldown_until
    optionAge,   \* turns since on_option_update
    polledAge    \* history: turns since current_chain was polled

poll == <<phase, spot, base, steady, task>>
ages == <<optionAge, polledAge>>
vars == <<poll, current, previous, storm, world, prevSpot, failures, resting, ages>>

\* A chain: the spot it was polled at, and the legs that have a quote.
NoChain == [spot |-> 0, got |-> {}]
Chain == [spot : {0} \cup Prices, got : SUBSET Legs]

\* "closed": no session, or a feed that is DOWN; "bad": calls may fail or hang.
Worlds == {"closed", "noExpiry", "noApi", "bad", "good"}
Phases == {"wait", "enter", "expiry", "api", "submit", "collect", "build", "return"}
Tasks == {"idle", "queued", "running", "answered", "refused", "taken", "void"}
\* Failures in a row beyond this one are not told apart.
MostFailures == FailLimit + 1

Untouched == [l \in Legs |-> "idle"]

TypeOK ==
    /\ current \in Chain /\ previous \in Chain
    /\ base \in {0} \cup Prices /\ prevSpot \in {0} \cup Prices
    /\ spot \in {0} \cup Prices
    /\ phase \in Phases
    /\ world \in Worlds
    /\ steady \in BOOLEAN
    /\ task \in [Legs -> Tasks]
    /\ failures \in 0..MostFailures
    /\ storm \in Nat
    /\ resting \in 0..Rest
    /\ optionAge \in 0..FreshTurns /\ polledAge \in 0..FreshTurns

Init ==
    /\ current = NoChain /\ previous = NoChain
    /\ base = 0 /\ prevSpot = 0 /\ spot = 0
    /\ phase = "wait"
    /\ world \in Worlds
    /\ steady = FALSE
    /\ task = Untouched
    /\ failures = 0 /\ storm = 0 /\ resting = 0
    /\ optionAge = FreshTurns /\ polledAge = FreshTurns

\* The polling thread looks at it nowhere else.
WorldChanges ==
    /\ phase \in {"wait", "expiry", "api"}
    /\ world' \in Worlds \ {world}
    /\ UNCHANGED <<poll, current, previous, storm, prevSpot, failures, resting, ages>>

-----------------------------------------------------------------------------
(* The loop of the data engine.                                            *)

\* No count goes beyond the limit it is compared with.
Counted(n, limit) == IF n < limit THEN n + 1 ELSE limit

\* The wait is over; the session, the feed and the spot are looked at.
Turn ==
    /\ phase = "wait"
    /\ resting' = IF resting = 0 THEN 0 ELSE resting - 1
    /\ storm' = IF resting = 1 THEN 0 ELSE storm
    /\ optionAge' = Counted(optionAge, FreshTurns)
    /\ polledAge' = Counted(polledAge, FreshTurns)
    /\ \/ world = "closed" /\ UNCHANGED <<phase, spot>>
       \/ world # "closed" /\ phase' = "enter" /\ spot' \in Prices
    /\ UNCHANGED <<base, steady, task, current, previous, world, prevSpot, failures>>

\* The chain that poll() returned, new or not, goes to the market state and
\* counts as an update; an empty one does not.
Return ==
    /\ phase = "return"
    /\ phase' = "wait"
    /\ optionAge' = IF current = NoChain THEN optionAge ELSE 0
    /\ UNCHANGED <<spot, base, steady, task, current, previous, storm, world, prevSpot,
                   failures, resting, polledAge>>

-----------------------------------------------------------------------------
(* poll().                                                                 *)

\* Faulty variant: the spot is remembered as soon as it is known.
EnterRemembers ==
    /\ phase = "enter"
    /\ \/ /\ resting > 0
          /\ phase' = "return"
          /\ UNCHANGED <<previous, base, prevSpot>>
       \/ /\ resting = 0
          /\ phase' = "expiry"
          /\ previous' = current
          /\ base' = prevSpot
          /\ prevSpot' = spot
    /\ UNCHANGED <<spot, steady, task, current, storm, world, failures, resting, ages>>

\* While the breaker rests the last chain is returned.  Otherwise the changes
\* of this poll will be measured from the last chain and its spot.
Enter ==
    /\ phase = "enter"
    /\ \/ /\ resting > 0
          /\ phase' = "return"
          /\ UNCHANGED <<previous, base>>
       \/ /\ resting = 0
          /\ phase' = "expiry"
          /\ previous' = current
          /\ base' = prevSpot
    /\ UNCHANGED <<spot, steady, task, current, storm, world, prevSpot, failures,
                   resting, ages>>

\* _mark_poll_failure, and the last chain is returned; the breaker is not asked.
GiveUp ==
    /\ failures' = Counted(failures, MostFailures)
    /\ phase' = "return"

\* The expiry, and the session with the broker: without either no poll.
AskExpiry ==
    /\ phase = "expiry"
    /\ \/ world = "noExpiry" /\ GiveUp
       \/ world # "noExpiry" /\ phase' = "api" /\ UNCHANGED failures
    /\ UNCHANGED <<spot, base, steady, task, current, previous, storm, world, prevSpot,
                   resting, ages>>

AskApi ==
    /\ phase = "api"
    /\ \/ world = "noApi" /\ GiveUp /\ UNCHANGED <<steady, task>>
       \/ /\ world # "noApi"
          /\ phase' = "submit"
          /\ steady' = (world = "good")
          /\ task' = Untouched
          /\ UNCHANGED failures
    /\ UNCHANGED <<spot, base, current, previous, storm, world, prevSpot, resting, ages>>

fetching == <<spot, base, steady, current, previous, storm, world, prevSpot, failures,
              resting, ages>>
Are(states) == {l \in Legs : task[l] \in states}

Submit(leg) ==
    /\ phase = "submit"
    /\ task[leg] = "idle"
    /\ task' = [task EXCEPT ![leg] = "queued"]
    /\ UNCHANGED <<fetching, phase>>

\* All are submitted, or the budget has ended.
Submitted ==
    /\ phase = "submit"
    /\ Are({"idle"}) = {} \/ ~steady
    /\ phase' = "collect"
    /\ UNCHANGED <<fetching, task>>

\* A thread of the executor takes a quote up, and has its answer.
Take(leg) ==
    /\ phase \in {"submit", "collect"}
    /\ task[leg] = "queued"
    /\ Cardinality(Are({"running"})) < Workers
    /\ task' = [task EXCEPT ![leg] = "running"]
    /\ UNCHANGED <<fetching, phase>>

Answer(leg) ==
    /\ phase \in {"submit", "collect"}
    /\ task[leg] = "running"
    /\ \E answer \in {"answered", "refused"} :
          /\ steady => answer = "answered"
          /\ task' = [task EXCEPT ![leg] = answer]
    /\ UNCHANGED <<fetching, phase>>

Collect(leg) ==
    /\ phase = "collect"
    /\ task[leg] \in {"answered", "refused"}
    /\ task' = [task EXCEPT ![leg] = IF @ = "answered" THEN "taken" ELSE "void"]
    /\ UNCHANGED <<fetching, phase>>

Outstanding == Are({"queued", "running", "answered", "refused"})

Collected ==
    /\ phase = "collect"
    /\ Outstanding = {}
    /\ phase' = "build"
    /\ UNCHANGED <<fetching, task>>

\* Faulty variant: the executor is shut down with wait=True.
AwaitsWorkers ==
    /\ phase = "collect"
    /\ ~steady
    /\ Are({"running"}) = {}
    /\ task' = [l \in Legs |-> IF l \in Outstanding THEN "void" ELSE task[l]]
    /\ phase' = "build"
    /\ UNCHANGED fetching

\* The budget, or the timeout of as_completed: what is not collected is left.
BudgetEnds ==
    /\ phase = "collect"
    /\ ~steady
    /\ task' = [l \in Legs |-> IF l \in Outstanding THEN "void" ELSE task[l]]
    /\ phase' = "build"
    /\ UNCHANGED fetching

-----------------------------------------------------------------------------
(* The end of a poll, and the breaker.                                     *)

\* Faulty variant: one failure more.
TripsLate(n) == n > FailLimit
Trips(n) == n >= FailLimit

\* _maybe_trip_circuit_breaker, for a poll that failed.
FailedPoll ==
    /\ failures' = Counted(failures, MostFailures)
    /\ resting' = IF Trips(failures') THEN Rest ELSE resting
    /\ storm' = storm + 1

\* Faulty variant: nothing starts the count again.
KeepsCount == FailedPoll
GoodPoll ==
    /\ failures' = 0
    /\ storm' = 0
    /\ UNCHANGED resting

Enough(got) == 2 * Cardinality(got) >= Cardinality(Legs)

\* The chain is replaced, whatever was missed; a poll with too few quotes failed.
Publish ==
    /\ phase = "build"
    /\ current' = [spot |-> spot, got |-> Are({"taken"})]
    /\ prevSpot' = spot
    /\ \/ Enough(Are({"taken"})) /\ GoodPoll
       \/ ~Enough(Are({"taken"})) /\ FailedPoll
    /\ polledAge' = 0
    /\ phase' = "return"
    /\ UNCHANGED <<spot, base, steady, task, previous, world, optionAge>>

\* An exception while the chain is built: it is not replaced.
Raises ==
    /\ phase = "build"
    /\ ~steady
    /\ FailedPoll
    /\ phase' = "return"
    /\ UNCHANGED <<spot, base, steady, task, current, previous, world, prevSpot, ages>>

Poller ==
    \/ Turn \/ Return \/ Enter \/ AskExpiry \/ AskApi
    \/ (\E leg \in Legs : Submit(leg) \/ Collect(leg))
    \/ Submitted \/ Collected \/ BudgetEnds \/ Publish \/ Raises
Executor == \E leg \in Legs : Take(leg) \/ Answer(leg)
Next == Poller \/ Executor \/ WorldChanges

\* The thread goes on.  Of the workers only those go on whose calls are answered.
Spec == Init /\ [][Next]_vars
FairSpec == Spec /\ WF_vars(Poller) /\ WF_vars(steady /\ Executor)

-----------------------------------------------------------------------------

\* The change of the spot and the change of the open interest, which together
\* make the classification of a leg, are measured from the same poll, however
\* many polls failed or were left out in between.
ChangesShareBase == phase = "build" => previous.spot = base

\* The breaker gives the broker a rest after at most FailLimit polls that asked
\* for quotes and failed: none is made until the rest is over.
BreakerRests == storm <= FailLimit

\* A poll ends, even when no call is ever answered.
PollEnds == phase = "enter" ~> phase = "wait"

\* Once session and broker are in order for good, so is the chain: the breaker
\* lets polls through again, and each turn has a new chain.
ChainRecovers == <>[](world = "good") => <>[](failures = 0 /\ polledAge <= 1)

\* A chain that has just been counted as updated, in the score of the feed, was
\* polled lately.  The code does not keep it: a poll that failed returns the last
\* chain, and the data engine takes it for an update.
UpdatedIsPolled == optionAge = 0 => polledAge < FreshTurns
=============================================================================
