------------------------------- MODULE MCFeed -------------------------------
(* The judgement of the feed, and the connection it judges: what the one     *)
(* asks of the other is only the time of the last tick, so they share this   *)
(* instance without meeting; "part" says which of them runs.  Between the    *)
(* limits of the gaps lies one unit; the bonuses leave the score of a bad    *)
(* feed below the limit of the safe mode, or above it.                       *)
EXTENDS FeedWatch

CONSTANTS MaxRetries, QueueMax, MaxCalls, MaxTroubles, MaxSilences

VARIABLES
    part,
    flags, active, counters, sws, view, retries, lock, ticks, stops, ws,
    consumer, watchdog, caller, closing, shutdownComplete, calls, troubles,
    silences

C == INSTANCE FeedConnection

connection == <<flags, active, counters, sws, view, retries, lock, ticks,
                stops, ws, consumer, watchdog, caller, closing,
                shutdownComplete, calls, troubles, silences>>

SomeBonuses == {0, 20}

FeedInit == part \in {"judgement", "connection"} /\ Init /\ C!Init
Judges == part = "judgement"
Connects == part = "connection"
FeedNext ==
    /\ UNCHANGED part
    /\ \/ Judges /\ Next /\ UNCHANGED connection
       \/ Connects /\ C!Next /\ UNCHANGED vars
feedVars == <<vars, connection, part>>

(* Each part has the fairness of its own specification.                      *)
FeedSpec ==
    /\ FeedInit /\ [][FeedNext]_feedVars
    /\ WF_feedVars(Judges /\ FeedThread /\ UNCHANGED <<connection, part>>)
    /\ WF_feedVars(Judges /\ HealthLoop /\ UNCHANGED <<connection, part>>)
    /\ WF_feedVars(Connects /\ C!CallerRuns /\ UNCHANGED <<vars, part>>)
    /\ WF_feedVars(Connects /\ C!WsRuns /\ UNCHANGED <<vars, part>>)
    /\ WF_feedVars(Connects /\ C!ConsumerRuns /\ UNCHANGED <<vars, part>>)
    /\ WF_feedVars(Connects /\ C!WatchdogRuns /\ UNCHANGED <<vars, part>>)
    /\ WF_feedVars(Connects /\ C!Settle /\ UNCHANGED <<vars, part>>)

(* After one failure at any point the feed is connected again, declared dead *)
(* or shut down; a connection that falls silent after a tick is closed.      *)
Reconnects == C!Reconnects
SilenceIsEnded == C!SilenceIsEnded
=============================================================================
