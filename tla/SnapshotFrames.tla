--------------------------- MODULE SnapshotFrames ---------------------------
(* The packets between the server and the dashboard's SnapshotBus, what the  *)
(* bus has of each kind, and what their stream promises of a frame.          *)
EXTENDS Integers, Sequences

CONSTANT
    Kinds          \* KIND_HOT, KIND_WARM, KIND_COLD

VARIABLES
    wire,          \* what was written to the connection and not read
    pc,            \* where the client's thread is
    lastSeq, lastTs,  \* _last_seq_*, _last_ts_*
    buffer,        \* the bytes the bus keeps of an unfinished frame
    shown          \* _last_valid_*_payload

\* The frames that were written to their end.
WrittenWhole == {i \in 1..Len(wire) : wire[i].part = "frame"}
\* The client and the bus are in step with the packets.
InStep == pc # "lost" /\ buffer = "empty"
\* The bus has that frame, or a later one of its kind.
ShownSince(r, k, n) == shown[k].run > r \/ (shown[k].run = r /\ shown[k].seq >= n)

(* Over restarts, dropped clients and a clock put back: a frame written      *)
(* whole, numbered past the last of its kind that the bus has and not older  *)
(* than it or than what is on the way before it, stays so until it or a      *)
(* later one of its kind is shown, or the client falls out of step           *)
(* (ipc_client.py, snapshot_bus.py).                                         *)
Fresh(i) ==
    LET f == wire[i].frame
    IN  /\ f.seq > lastSeq[f.kind] /\ f.ts >= lastTs[f.kind]
        /\ \A j \in 1..i : wire[j].frame.kind = f.kind => wire[j].frame.ts <= f.ts
WaitingFrames == {wire[i].frame : i \in {j \in WrittenWhole : Fresh(j)}}
FreshIsNotLost ==
    [][InStep => \A f \in WaitingFrames :
          \/ f \in WaitingFrames'
          \/ ShownSince(f.run, f.kind, f.seq)'
          \/ ~InStep']_<<wire, pc, lastSeq, lastTs, buffer, shown>>
=============================================================================
