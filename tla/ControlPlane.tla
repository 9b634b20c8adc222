---------------------------- MODULE ControlPlane ----------------------------
(***************************************************************************)
(* The emergency path between the dashboard and the backend: the runtime   *)
(* loop, start() and stop() of JuniorAladdinOrchestrator (main.py), the    *)
(* kill-switch block of DashboardControlPlanePublisher                     *)
(* (src/core/dashboard_control_plane.py) and the click on STOP NOW         *)
(* (dashboard/dialogs/emergency_stop.py).                                  *)
(*                                                                         *)
(* The backend's main thread is a stack of frames: the runtime loop, the   *)
(* stop() it calls, and the stop() of each signal handler that interrupts  *)
(* it.  Both sides change the block by reading it, and writing the whole   *)
(* of it back; the two halves are separate steps.  Of the block only the   *)
(* emergency flag is kept.                                                 *)
(***************************************************************************)
EXTENDS Integers, Sequences, FiniteSets, SequencesExt

CONSTANTS
    MaxRuns,      \* starts of the backend process
    MaxClicks,    \* clicks on STOP NOW
    MaxSignals,   \* SIGINT and SIGTERM sent to one backend process
    Crashes,      \* TRUE when the process may die at any point
    IpcWorks      \* TRUE when the dashboard's command socket is connected

ASSUME ControlPlaneAssumption ==
    /\ MaxRuns \in Nat \ {0}
    /\ MaxClicks \in Nat
    /\ MaxSignals \in Nat
    /\ Crashes \in BOOLEAN
    /\ IpcWorks \in BOOLEAN

Generations == 1..MaxRuns   \* a block is known by the run that created it

VARIABLES
    run,         \* number of the current process, 0 before the first
    stack,       \* frames of the main thread, the running one last
    locked,      \* _shutdown_lock
    stopping,    \* _stop_event
    handle,      \* the block _kill_switch_shm maps, 0 for None
    owns,        \* _owns_kill_switch
    named,       \* the block found under kill_switch_name, 0 for none
    flag,        \* emergency_stop_flag of every block
    command,     \* an emergency_stop waits in the command queue
    candle,      \* a closed candle waits for the loop
    signals,     \* signals sent to this process
    dialog,      \* the block the dialog is about to write, 0 for none
    opening,     \* the dialog is about to open the block
    clicks,
    served,      \* history: times this process stopped its components
    late,        \* history: a candle was processed after the stop
    promised     \* history: the fallback reported success to the operator

backend == <<run, stack, locked, stopping, handle, owns, candle, signals, served, late>>
dashboard == <<dialog, opening, clicks>>
vars == <<backend, named, flag, command, dashboard, promised>>

Frame == [pc     : {"open", "map", "loop", "serve", "obey", "health", "candle", "exit",
                    "read", "write", "lock", "check", "announce", "parts", "clear",
                    "close"},
          set    : {"keep", "raise", "drop"},     \* what a publish does to the flag
          seen   : {0, 1},                        \* the flag it read
          left   : 0..5,                          \* publishes still to do
          then   : {"loop", "obey", "candle", "parts", "close"},
          urgent : BOOLEAN]                       \* the reason names an emergency

TypeOK ==
    /\ run \in 0..MaxRuns
    /\ stack \in Seq(Frame)
    /\ Len(stack) <= MaxSignals + 2
    /\ locked \in BOOLEAN
    /\ stopping \in BOOLEAN
    /\ handle \in {0} \cup Generations
    /\ owns \in BOOLEAN
    /\ named \in {0} \cup Generations
    /\ flag \in [Generations -> {0, 1}]
    /\ command \in BOOLEAN
    /\ candle \in BOOLEAN
    /\ signals \in 0..MaxSignals
    /\ dialog \in {0} \cup Generations
    /\ opening \in BOOLEAN
    /\ clicks \in 0..MaxClicks
    /\ served \in Nat
    /\ late \in BOOLEAN
    /\ promised \in BOOLEAN

-----------------------------------------------------------------------------
(* Frames.                                                                 *)

Running == stack # << >>
Top == Last(stack)
At(pc) == Running /\ Top.pc = pc

NewFrame(pc) == [pc |-> pc, set |-> "keep", seen |-> 0, left |-> 0, then |-> "loop",
                 urgent |-> FALSE]
StopFrame(urgent) == [NewFrame("lock") EXCEPT !.urgent = urgent]

Goto(pc) == stack' = [stack EXCEPT ![Len(stack)].pc = pc]
\* Faulty variant: one publish too many.
PublishesOnceMore(set, n, then) ==
    stack' = [stack EXCEPT ![Len(stack)] =
                 [@ EXCEPT !.pc = "read", !.set = set, !.left = n + 1, !.then = then]]
\* n publishes that keep, raise or drop the flag, then on to `then`.
Publishes(set, n, then) ==
    stack' = [stack EXCEPT ![Len(stack)] =
                 [@ EXCEPT !.pc = "read", !.set = set, !.left = n, !.then = then]]
\* Call stop() and come back to pc.
CallStop(urgent, pc) ==
    stack' = Append([stack EXCEPT ![Len(stack)].pc = pc], StopFrame(urgent))

-----------------------------------------------------------------------------
(* publish_state: read the block, write it whole.  Without a block it      *)
(* raises, and every caller that can meet this catches it.                 *)

PublishRead ==
    /\ At("read")
    /\ IF handle = 0
       THEN Goto(Top.then)
       ELSE stack' = [stack EXCEPT ![Len(stack)] =
                         [@ EXCEPT !.pc = "write", !.seen = flag[handle]]]
    /\ UNCHANGED <<run, locked, stopping, handle, owns, candle, signals, served, late,
                   named, flag, command, dashboard, promised>>

Written(f) == CASE f.set = "keep" -> f.seen [] f.set = "raise" -> 1 [] f.set = "drop" -> 0

PublishWrite ==
    /\ At("write")
    /\ IF handle = 0
       THEN Goto(Top.then) /\ UNCHANGED flag
       ELSE /\ flag' = [flag EXCEPT ![handle] = Written(Top)]
            /\ stack' = [stack EXCEPT ![Len(stack)] =
                            [@ EXCEPT !.pc = IF Top.left > 1 THEN "read" ELSE Top.then,
                                      !.left = Top.left - 1]]
    /\ UNCHANGED <<run, locked, stopping, handle, owns, candle, signals, served, late,
                   named, command, dashboard, promised>>

-----------------------------------------------------------------------------
(* start() and the runtime loop.                                           *)

\* The process starts: handlers installed, components built, start() called.
Launch ==
    /\ ~Running
    /\ run < MaxRuns
    /\ run' = run + 1
    /\ stack' = << NewFrame("open") >>
    /\ UNCHANGED <<locked, stopping, handle, owns, candle, signals, served, late, named,
                   flag, command, dashboard, promised>>

\* _open_or_create_shm: a block left by an earlier run is taken over.
Open ==
    /\ At("open")
    /\ named' = IF named = 0 THEN run ELSE named
    /\ Goto("map")
    /\ UNCHANGED <<run, locked, stopping, handle, owns, candle, signals, served, late,
                   flag, command, dashboard, promised>>

\* Its result is assigned; then start() publishes five times.
Map ==
    /\ At("map")
    /\ handle' = named
    /\ owns' = (named = run)
    /\ Publishes("keep", 5, "loop")
    /\ UNCHANGED <<run, locked, stopping, named, flag, candle, signals, served, late,
                   command, dashboard, promised>>

\* The process is gone.  A block it still mapped may go with it or stay.
Gone ==
    /\ stack' = << >>
    /\ locked' = FALSE
    /\ stopping' = FALSE
    /\ handle' = 0
    /\ owns' = FALSE
    /\ named' \in IF handle = 0 THEN {named} ELSE {named, 0}
    /\ command' = FALSE
    /\ candle' = FALSE
    /\ signals' = 0
    /\ served' = 0
    /\ late' = FALSE
    /\ promised' = FALSE
    /\ UNCHANGED <<run, flag, dashboard>>

Ending == At("exit") \/ (At("loop") /\ stopping)

Exit ==
    /\ Ending
    /\ Gone

Crash ==
    /\ Crashes
    /\ Running
    /\ Gone

\* Faulty variant: the flag is not looked at.
NeverRaised == FALSE
FlagRaised == handle # 0 /\ flag[handle] = 1

\* The head of run_forever: poll the kill switch.
Poll ==
    /\ At("loop")
    /\ ~stopping
    /\ IF FlagRaised THEN CallStop(TRUE, "exit") ELSE Goto("serve")
    /\ UNCHANGED <<run, locked, stopping, handle, owns, candle, signals, served, late,
                   named, flag, command, dashboard, promised>>

\* The first branch of _handle_dashboard_command.
HandlesCommand == command

\* _service_dashboard_ipc takes the commands.
Serve ==
    /\ At("serve")
    /\ command' = FALSE
    /\ IF HandlesCommand THEN Publishes("raise", 1, "obey") ELSE Goto("health")
    /\ UNCHANGED <<run, locked, stopping, handle, owns, candle, signals, served, late,
                   named, flag, dashboard, promised>>

\* _handle_dashboard_command: stop("dashboard_command:..."), which is not an
\* emergency reason, and back into the same turn of the loop.
Obey ==
    /\ At("obey")
    /\ CallStop(FALSE, "health")
    /\ UNCHANGED <<run, locked, stopping, handle, owns, candle, signals, served, late,
                   named, flag, command, dashboard, promised>>

\* _emit_health, when it is due: publish_state and publish_heartbeat.
Health ==
    /\ At("health")
    /\ Publishes("keep", 2, "candle") \/ Goto("candle")
    /\ UNCHANGED <<run, locked, stopping, handle, owns, candle, signals, served, late,
                   named, flag, command, dashboard, promised>>

\* _process_candle_close of a new candle; an exception stops the backend.
Candle ==
    /\ At("candle")
    /\ candle' = FALSE
    /\ late' = (late \/ (candle /\ stopping))
    /\ Goto("loop") \/ (candle /\ CallStop(FALSE, "exit"))
    /\ UNCHANGED <<run, locked, stopping, handle, owns, signals, served, named, flag,
                   command, dashboard, promised>>

-----------------------------------------------------------------------------
(* stop(), and the signal handler that calls it.                           *)

\* Faulty variant: the lock is no lock.
NoLock == TRUE
LockFree == ~locked

StopLock ==
    /\ At("lock")
    /\ LockFree
    /\ locked' = TRUE
    /\ Goto("check")
    /\ UNCHANGED <<run, stopping, handle, owns, candle, signals, served, late, named,
                   flag, command, dashboard, promised>>

\* Faulty variant: a second stop() does not notice the first.
NeverStopped == FALSE
AlreadyStopped == stopping

StopCheck ==
    /\ At("check")
    /\ locked' = FALSE
    /\ stopping' = TRUE
    /\ IF AlreadyStopped THEN stack' = Front(stack) ELSE Goto("announce")
    /\ UNCHANGED <<run, handle, owns, candle, signals, served, late, named, flag,
                   command, dashboard, promised>>

\* Faulty variant: no reason reads as an emergency.
NeverUrgent(urgent) == "drop"
\* What the reason given to stop() does to the flag.
Announced(urgent) == IF urgent THEN "raise" ELSE "drop"

StopAnnounce ==
    /\ At("announce")
    /\ Publishes(Announced(Top.urgent), 1, "parts")
    /\ UNCHANGED <<run, locked, stopping, handle, owns, candle, signals, served, late,
                   named, flag, command, dashboard, promised>>

\* Broker, data engine and IPC bridge are stopped.
StopParts ==
    /\ At("parts")
    /\ served' = served + 1
    /\ Goto("clear")
    /\ UNCHANGED <<run, locked, stopping, handle, owns, candle, signals, late, named,
                   flag, command, dashboard, promised>>

\* DashboardControlPlanePublisher.stop drops the flag, closes and unlinks.
StopClear ==
    /\ At("clear")
    /\ Publishes("drop", 1, "close")
    /\ UNCHANGED <<run, locked, stopping, handle, owns, candle, signals, served, late,
                   named, flag, command, dashboard, promised>>

\* Faulty variant: the block is closed and stays.
NeverUnlinks == named
Unlinked == IF owns THEN 0 ELSE named

StopClose ==
    /\ At("close")
    /\ handle' = 0
    /\ owns' = FALSE
    /\ named' = Unlinked
    /\ stack' = Front(stack)
    /\ UNCHANGED <<run, locked, stopping, candle, signals, served, late, flag, command,
                   dashboard, promised>>

\* A signal interrupts the main thread wherever it is, also in stop().
Signal ==
    /\ Running
    /\ signals < MaxSignals
    /\ signals' = signals + 1
    /\ stack' = Append(stack, StopFrame(FALSE))
    /\ UNCHANGED <<run, locked, stopping, handle, owns, candle, served, late, named, flag,
                   command, dashboard, promised>>

\* The data engine closes a candle.
CandleCloses ==
    /\ Running
    /\ served = 0
    /\ ~candle
    /\ candle' = TRUE
    /\ UNCHANGED <<run, stack, locked, stopping, handle, owns, signals, served, late,
                   named, flag, command, dashboard, promised>>

-----------------------------------------------------------------------------
(* The dialog: a command over IPC, and always the fallback.                *)

IdleDialog == ~opening /\ dialog = 0

\* The command server runs from start(), after the block, to StopParts.
IpcListens == IpcWorks /\ Running /\ served = 0 /\ stack[1].pc \notin {"open", "map"}

Click ==
    /\ IdleDialog
    /\ clicks < MaxClicks
    /\ clicks' = clicks + 1
    /\ opening' = TRUE
    /\ command' \in IF IpcListens THEN {TRUE} ELSE {command}
    /\ UNCHANGED <<backend, named, flag, dialog, promised>>

\* trigger_emergency_kill_switch: it never creates the block.
FallbackOpen ==
    /\ opening
    /\ opening' = FALSE
    /\ dialog' = named
    /\ UNCHANGED <<backend, named, flag, command, clicks, promised>>

FallbackWrite ==
    /\ dialog # 0
    /\ flag' = [flag EXCEPT ![dialog] = 1]
    /\ dialog' = 0
    /\ promised' = Running
    /\ UNCHANGED <<backend, named, command, opening, clicks>>

-----------------------------------------------------------------------------
Init ==
    /\ run = 0
    /\ stack = << >>
    /\ locked = FALSE
    /\ stopping = FALSE
    /\ handle = 0
    /\ owns = FALSE
    /\ named = 0
    /\ flag = [g \in Generations |-> 0]
    /\ command = FALSE
    /\ candle = FALSE
    /\ signals = 0
    /\ dialog = 0
    /\ opening = FALSE
    /\ clicks = 0
    /\ served = 0
    /\ late = FALSE
    /\ promised = FALSE

MainThread ==
    \/ PublishRead \/ PublishWrite
    \/ Open \/ Map \/ Poll \/ Serve \/ Obey \/ Health \/ Candle \/ Exit
    \/ StopLock \/ StopCheck \/ StopAnnounce \/ StopParts \/ StopClear \/ StopClose

Dialog == FallbackOpen \/ FallbackWrite

Next ==
    \/ MainThread
    \/ Launch \/ Crash \/ Signal \/ CandleCloses
    \/ Click \/ Dialog

Spec == Init /\ [][Next]_vars

\* The main thread and the dialog's thread are scheduled; nothing makes the
\* operator click, a signal arrive or the process start or crash.
Fairness == WF_vars(MainThread) /\ WF_vars(Dialog)
FairSpec == Spec /\ Fairness

-----------------------------------------------------------------------------
(* Properties.                                                             *)

\* However many signals, commands and flags ask for it, and wherever they
\* interrupt each other, one process stops its components once.
StopsOnce == served <= 1

\* While an emergency stop takes the components down, the block says so
\* (publish_state of stop() with emergency_stop_flag=1).
EmergencyAnnounced ==
    \A i \in DOMAIN stack :
        stack[i].pc = "parts" /\ stack[i].urgent /\ handle # 0 => flag[handle] = 1

\* A process that closed its block before it ends leaves none it created
\* behind (unlink in DashboardControlPlanePublisher.stop).
LeavesNoBlock == Ending /\ handle = 0 => named # run

\* A command that reached the queue, or a flag raised while no publish holds an
\* older value, ends the process, whatever it is doing and whichever process
\* raised or left the flag, unless a signal is sent to it (SignalHonoured says
\* what that may do).
Publishing == Running /\ \E i \in DOMAIN stack : stack[i].pc = "write"
FlagStands == \E g \in Generations : handle = g /\ flag[g] = 1 /\ ~Publishing
StopHonoured == (command \/ FlagStands) ~> (~Running \/ signals > 0)

\* The fallback said that the kill switch is tripped: the backend stops.
Contained == promised ~> ~promised

\* A signal ends the process.
SignalHonoured == (signals > 0) ~> ~Running

\* Once the shutdown began no candle goes through the pipeline any more.
NoCandleAfterStop == ~late
=============================================================================
