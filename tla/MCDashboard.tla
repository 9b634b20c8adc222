----------------------------- MODULE MCDashboard -----------------------------
(* What runs between the backend and the dashboard: the emergency path, the  *)
(* watch over the heartbeat and the stream of snapshots.  Each has its own   *)
(* view of the backend's starts and of its block, so they share this         *)
(* instance without meeting; "part" says which of them runs.  The watch runs *)
(* where mappings are whole pages, and where they have the size asked for    *)
(* and no block can be parsed.                                               *)
EXTENDS ControlPlane, HeartbeatTimes, SnapshotFrames

CONSTANTS MaxSeq, MaxWire, MaxFaults

VARIABLES
    part,
    watchRun, alive, stuck, watchHandle, watchOwns, watchNamed, age, watchFlag,
    mapped, waited, stale, looked,
    streamRun, up, seq, clock, conn, attached, faults

W == INSTANCE HeartbeatWatch WITH
       run <- watchRun, handle <- watchHandle, owns <- watchOwns,
       named <- watchNamed, flag <- watchFlag
E == INSTANCE HeartbeatWatch WITH
       Page <- 1, run <- watchRun, handle <- watchHandle, owns <- watchOwns,
       named <- watchNamed, flag <- watchFlag
S == INSTANCE DashboardStream WITH run <- streamRun

watch == <<watchRun, alive, stuck, watchHandle, watchOwns, watchNamed, age, watchFlag,
           mapped, waited, stale, emergency, looked, cause>>
stream == <<streamRun, up, seq, clock, conn, attached, wire, pc, faults, lastSeq, lastTs,
            buffer, shown>>
dashboardVars == <<vars, watch, stream, part>>

Controls == part = "control" /\ UNCHANGED <<watch, stream, part>>
Watches == part = "watch" /\ UNCHANGED <<vars, stream, part>>
Fails == part = "exact" /\ UNCHANGED <<vars, stream, part>>
Streams == part = "stream" /\ UNCHANGED <<vars, watch, part>>

DashboardInit == part \in {"control", "watch", "exact", "stream"} /\ Init /\ W!Init /\ S!Init
DashboardNext ==
    \/ Next /\ Controls
    \/ W!Next /\ Watches
    \/ E!Next /\ Fails
    \/ S!Next /\ Streams

(* All but the stream have the fairness of their own specifications.         *)
DashboardSpec ==
    /\ DashboardInit /\ [][DashboardNext]_dashboardVars
    /\ WF_dashboardVars(MainThread /\ Controls)
    /\ WF_dashboardVars(Dialog /\ Controls)
    /\ WF_dashboardVars(W!Check /\ Watches)
    /\ WF_dashboardVars(W!Publish /\ Watches)
    /\ WF_dashboardVars(W!Tick /\ Watches)
    /\ WF_dashboardVars(E!Check /\ Fails)
    /\ WF_dashboardVars(E!Publish /\ Fails)
    /\ WF_dashboardVars(E!Tick /\ Fails)

(* The emergency is shown whenever there is cause.                           *)
TroubleIsShown == W!TroubleIsShown
=============================================================================
