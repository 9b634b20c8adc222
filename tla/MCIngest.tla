------------------------------- MODULE MCIngest -------------------------------
(* The two ways ticks come in: through the connection of src/core, and       *)
(* through the collector and the pipelines of data_center, here with one     *)
(* thread of each and files that can be written; and the broker session both *)
(* log in with, called by two threads.  They share no state, and share this  *)
(* instance; "part" says which of them runs.                                 *)
EXTENDS FeedConnection, SessionLocks, TickLedger

CONSTANTS MaxTicks, TickCap, CleanCap, BatchSize, Threshold, RawStarts,
          CleanStarts, MaxStops, WritesFail,
          MaxAttempts, MaxSessions, SessionCalls

VARIABLES
    part,
    pending, tickQ, rawStop, rawThread, raw, forwarded, cleanQ,
    cleanStop, cleanThread, clean, history, lastPrint, structured, pipelineStops,
    granted, sessionCalls, renewed

\* Two tokens and three fingerprints: repeats, evictions and times out of order.
Prints == {[token |-> "A", at |-> 1], [token |-> "B", at |-> 2],
           [token |-> "B", at |-> 3]}
P == INSTANCE TickPipeline WITH stops <- pipelineStops

pipeline == <<prints, pending, tickQ, rawStop, rawThread, raw, rawFile, forwarded,
              cleanQ, cleanStop, cleanThread, clean, history, lastPrint, structured,
              broadcast, offered, pipelineStops>>

A == INSTANCE AuthSession WITH MaxCalls <- SessionCalls, calls <- sessionCalls
session == <<held, old, authLock, apiLock, th, granted, sessionCalls, renewed>>

IngestInit ==
    part \in {"connection", "pipeline", "session"} /\ Init /\ P!Init /\ A!Init
IngestNext ==
    /\ UNCHANGED part
    /\ \/ part = "connection" /\ Next /\ UNCHANGED <<pipeline, session>>
       \/ part = "pipeline" /\ P!Next /\ UNCHANGED <<vars, session>>
       \/ part = "session" /\ A!Next /\ UNCHANGED <<vars, pipeline>>
IngestSpec == IngestInit /\ [][IngestNext]_<<vars, pipeline, session, part>>
=============================================================================
