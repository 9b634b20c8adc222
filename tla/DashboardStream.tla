-------------------------- MODULE DashboardStream --------------------------
(***************************************************************************)
(* The snapshot stream from the backend to the dashboard: the server that  *)
(* broadcasts numbered frames of each kind (src/core/dashboard_ipc.py),    *)
(* the reconnecting client that reads them packet by packet                *)
(* (dashboard/core/ipc_client.py), and the SnapshotBus that shows a frame  *)
(* only if it is newer than the last of its kind                           *)
(* (dashboard/core/snapshot_bus.py, binary_frame.py).                      *)
(*                                                                         *)
(* A packet is two units on the wire, its length and its frame.  The       *)
(* content of a frame is its number and the time it was made.              *)
(***************************************************************************)
EXTENDS SnapshotFrames

CONSTANTS
    MaxRuns,     \* starts of the backend
    MaxSeq,      \* frames of one kind in one run
    MaxWire,     \* units the socket's buffers hold
    MaxFaults    \* times the wall clock is put back, or a packet faults
                 \* half-way for longer than the timeout

VARIABLES
    run, up,       \* starts of the backend, and whether it runs
    seq,           \* _seq_hot, _seq_warm, _seq_cold
    clock,         \* time.time_ns(): 0 from being put back until it has caught
                   \* up, 1 otherwise
    conn,          \* the client's connection
    attached,      \* the accept loop has put it into _clients
    faults

server == <<run, up, seq, clock>>
bus == <<lastSeq, lastTs, buffer, shown>>
vars == <<server, conn, attached, wire, pc, faults, bus>>

Frames == [run : 1..MaxRuns, kind : Kinds, seq : 1..MaxSeq, ts : {0, 1}]
Nothing == [run |-> 0]

TypeOK ==
    /\ run \in 0..MaxRuns /\ up \in BOOLEAN /\ attached \in BOOLEAN
    /\ seq \in [Kinds -> 0..MaxSeq]
    /\ conn \in {"none", "open", "closed"}
    /\ wire \in Seq([part : {"length", "frame"}, frame : Frames]) /\ Len(wire) <= MaxWire
    /\ pc \in {"connect", "length", "frame", "lost"}
    /\ lastSeq \in [Kinds -> -1..MaxSeq]
    /\ buffer \in {"empty", "partial"}
    /\ shown \in [Kinds -> Frames \cup {Nothing}]

-----------------------------------------------------------------------------
(* The backend.                                                            *)

\* A new process counts from the start.
Start ==
    /\ ~up /\ run < MaxRuns
    /\ up' = TRUE /\ run' = run + 1
    /\ seq' = [k \in Kinds |-> 0]
    /\ UNCHANGED <<clock, conn, attached, wire, pc, faults, bus>>

\* The end of the process, orderly or not: what was written can be read.
End ==
    /\ up /\ up' = FALSE
    /\ attached' = FALSE
    /\ conn' = IF conn = "open" THEN "closed" ELSE conn
    /\ UNCHANGED <<run, seq, clock, wire, pc, faults, bus>>

PutClockBack ==
    /\ faults < MaxFaults /\ clock = 1
    /\ faults' = faults + 1 /\ clock' = 0
    /\ UNCHANGED <<run, up, seq, conn, attached, wire, pc, bus>>
CatchUp ==
    /\ clock' = 1 /\ clock = 0
    /\ UNCHANGED <<run, up, seq, conn, attached, wire, pc, faults, bus>>

Accept ==
    /\ up /\ conn = "open" /\ ~attached
    /\ attached' = TRUE
    /\ UNCHANGED <<server, conn, wire, pc, faults, bus>>

Packet(f) == <<[part |-> "length", frame |-> f], [part |-> "frame", frame |-> f]>>

\* publish_frame: a client that takes no more bytes within the timeout is
\* dropped with a packet that is cut, or not begun.
SendTo(f) ==
    \/ /\ Len(wire) + 2 <= MaxWire
       /\ wire' = wire \o Packet(f)
       /\ UNCHANGED <<conn, attached>>
    \/ /\ Len(wire) + 2 > MaxWire
       /\ attached' = FALSE /\ conn' = "closed"
       /\ \/ wire' = wire
          \/ Len(wire) < MaxWire /\ wire' = Append(wire, Packet(f)[1])

\* publish_due_frames, for a kind that is due; without clients the frame is
\* counted all the same.
Publish(k) ==
    /\ up /\ seq[k] < MaxSeq
    /\ seq' = [seq EXCEPT ![k] = @ + 1]
    /\ IF attached
       THEN SendTo([run |-> run, kind |-> k, seq |-> seq'[k], ts |-> clock])
       ELSE UNCHANGED <<conn, attached, wire>>
    /\ UNCHANGED <<run, up, clock, pc, faults, bus>>

-----------------------------------------------------------------------------
(* The bus.                                                                *)

\* Faulty variant: one number for the frames of all kinds.
NewerOfAll(f) == \A k \in Kinds : f.seq > lastSeq[k] /\ f.ts >= lastTs[k]
\* unpack_frame and _process_frame: newer than the last of its kind.
Newer(f) == f.seq > lastSeq[f.kind] /\ f.ts >= lastTs[f.kind]

\* feed_bytes with one whole frame.  What an unfinished frame left in the
\* buffer takes the new bytes for its own, and both are dropped.
Feed(f) ==
    \/ /\ buffer = "empty" /\ Newer(f)
       /\ lastSeq' = [lastSeq EXCEPT ![f.kind] = f.seq]
       /\ lastTs' = [lastTs EXCEPT ![f.kind] = f.ts]
       /\ shown' = [shown EXCEPT ![f.kind] = f]
       /\ UNCHANGED buffer
    \/ buffer = "empty" /\ ~Newer(f) /\ UNCHANGED bus
    \/ buffer = "partial" /\ buffer' \in {"empty", "partial"} /\ UNCHANGED <<lastSeq, lastTs, shown>>

-----------------------------------------------------------------------------
(* The client.                                                             *)

Connect ==
    /\ pc = "connect" /\ up
    /\ conn' = "open" /\ wire' = <<>>
    /\ pc' = "length"
    /\ UNCHANGED <<server, attached, faults, bus>>

Reading(part) == pc = part /\ wire # <<>> /\ Head(wire).part = part

ReadLength ==
    /\ Reading("length")
    /\ wire' = Tail(wire) /\ pc' = "frame"
    /\ UNCHANGED <<server, conn, attached, faults, bus>>

ReadFrame ==
    /\ Reading("frame")
    /\ wire' = Tail(wire) /\ pc' = "length"
    /\ Feed(Head(wire).frame)
    /\ UNCHANGED <<server, conn, attached, faults>>

\* recv finds the end of the stream, and the thread connects again.
ReadEnd ==
    /\ pc # "connect" /\ wire = <<>> /\ conn = "closed"
    /\ pc' = "connect" /\ conn' = "none"
    /\ UNCHANGED <<server, attached, wire, faults, bus>>

\* The rest of a packet takes longer than the timeout.  What was read of it is
\* forgotten, and the thread takes the bytes that follow for a length.
Pause ==
    /\ faults < MaxFaults
    /\ Reading("length") \/ Reading("frame")
    /\ faults' = faults + 1
    /\ pc' = "lost"
    /\ UNCHANGED <<server, conn, attached, wire, bus>>

\* Out of step with the packets, it waits for as many bytes as it took for a
\* length, gives what it has to the bus, or fails on a length of 0; by chance
\* it is in step again.
ReadLost ==
    /\ pc = "lost" /\ wire # <<>>
    /\ \/ pc' = "lost" /\ wire' = Tail(wire) /\ UNCHANGED <<conn, attached>>
       \/ /\ pc' = "length" /\ Head(wire).part = "frame"
          /\ wire' = Tail(wire) /\ UNCHANGED <<conn, attached>>
       \/ pc' = "connect" /\ conn' = "none" /\ attached' = FALSE /\ wire' = <<>>
    /\ \/ buffer' \in {buffer, "partial"} /\ UNCHANGED <<lastSeq, lastTs, shown>>
       \/ Head(wire).part = "frame" /\ Feed(Head(wire).frame)
    /\ UNCHANGED <<server, faults>>

Init ==
    /\ run = 0 /\ up = FALSE /\ clock = 1 /\ faults = 0
    /\ seq = [k \in Kinds |-> 0]
    /\ conn = "none" /\ attached = FALSE /\ wire = <<>> /\ pc = "connect"
    /\ lastSeq = [k \in Kinds |-> -1] /\ lastTs = [k \in Kinds |-> -1]
    /\ buffer = "empty" /\ shown = [k \in Kinds |-> Nothing]

Client == Connect \/ ReadLength \/ ReadFrame \/ ReadEnd
Next ==
    \/ Start \/ End \/ PutClockBack \/ CatchUp \/ Accept \/ (\E k \in Kinds : Publish(k))
    \/ Client \/ Pause \/ ReadLost

Spec == Init /\ [][Next]_vars

(* The client's thread goes on: it reads what is there and connects again. *)
FairSpec == Spec /\ WF_vars(Client)

-----------------------------------------------------------------------------
(* Properties.                                                             *)

Sent(r, k, n) == {i \in WrittenWhole : wire[i].frame.run = r /\ wire[i].frame.kind = k /\ wire[i].frame.seq = n}

(* ipc_client.py:61: the client reconnects and feeds raw frames into the   *)
(* bus.  So a frame that was written whole is shown, or a later one.  Not  *)
(* kept after a restart of the backend: its count starts again, and the    *)
(* bus takes its frames for stale until the count of the run before is     *)
(* passed.                                                                 *)
SentIsShown ==
    \A r \in 1..MaxRuns, k \in Kinds, n \in 1..MaxSeq :
        Sent(r, k, n) # {} ~> ShownSince(r, k, n)
=============================================================================
