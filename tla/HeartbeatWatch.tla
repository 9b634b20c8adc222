--------------------------- MODULE HeartbeatWatch ---------------------------
(***************************************************************************)
(* How the dashboard watches the backend: the heartbeat and the emergency  *)
(* flag the backend publishes in its kill-switch block                     *)
(* (src/core/dashboard_control_plane.py, main.py) and the KillSwitchReader *)
(* that looks at them every 200 ms                                         *)
(* (dashboard/core/shared_memory_kill_switch.py, dashboard/main.py).       *)
(*                                                                         *)
(* A block is known by the run of the backend that created it.  The reader *)
(* keeps its mapping of a block that was unlinked; a block stays until it  *)
(* is unlinked, as POSIX has it.  Time is kept as ages, which stop growing *)
(* where the code stops telling them apart; one unit is the period of the  *)
(* reader's timer.  A publish is one step here: what the two halves of it  *)
(* can lose is ControlPlane's subject.                                     *)
(*                                                                         *)
(* check() has a branch for a FileNotFoundError (lines 155-164).  It reads *)
(* mapped memory and unpacks it, which raises none, so there is no action  *)
(* for that branch; what is raised is the ValueError of a small block.     *)
(***************************************************************************)
EXTENDS HeartbeatTimes

Blocks == 1..MaxStarts
OldEnough == Threshold + Interval + Slack + 1
Signs == {"flag", "late", "unserved", "unread"}

VARIABLES
    run,        \* starts so far
    alive,      \* the backend process runs
    stuck,      \* its main thread is in something long, and does not publish
    handle,     \* the block it publishes in, 0 before the first start
    owns,       \* _owns_kill_switch
    named,      \* the block found under the name, 0 for none
    age,        \* of the heartbeat in each block
    flag,       \* emergency_stop_flag of each block
    mapped,     \* the block the reader maps, 0 for none
    waited,     \* since the reader's last attempt to open
    stale,      \* _stale_consecutive, 2 for more
    looked      \* the timer has fired in this unit of time

backend == <<run, alive, stuck, handle, owns, named, age, flag>>
reader == <<mapped, waited, stale, emergency, looked, cause>>
vars == <<backend, reader>>

TypeOK ==
    /\ run \in 0..MaxStarts /\ handle \in 0..MaxStarts
    /\ named \in 0..MaxStarts /\ mapped \in 0..MaxStarts
    /\ alive \in BOOLEAN /\ stuck \in BOOLEAN /\ owns \in BOOLEAN
    /\ emergency \in BOOLEAN /\ looked \in BOOLEAN /\ cause \subseteq Signs
    /\ age \in [Blocks -> 0..OldEnough]
    /\ flag \in [Blocks -> BOOLEAN]
    /\ waited \in 0..Reopen
    /\ stale \in 0..2

-----------------------------------------------------------------------------
(* The backend.                                                            *)

\* The process starts: it creates the block, or takes over the one a crash
\* left behind, with the flag that is in it.
Start ==
    /\ ~alive /\ run < MaxStarts
    /\ run' = run + 1
    /\ alive' = TRUE /\ stuck' = FALSE
    /\ owns' = (named = 0)
    /\ named' = IF named = 0 THEN run + 1 ELSE named
    /\ handle' = named'
    /\ age' = [age EXCEPT ![named'] = 0]
    /\ UNCHANGED <<flag, reader>>

\* The loop comes by the heartbeat.
Publish ==
    /\ alive /\ ~stuck
    /\ age[handle] >= Interval
    /\ age' = [age EXCEPT ![handle] = 0]
    /\ UNCHANGED <<run, alive, stuck, handle, owns, named, flag, reader>>

\* A candle, a lock or a suspended machine holds the main thread up, past the
\* time of the next publish.
GetStuck ==
    /\ alive /\ ~stuck /\ age[handle] < Interval
    /\ stuck' = TRUE
    /\ UNCHANGED <<run, alive, handle, owns, named, age, flag, reader>>
GoOn ==
    /\ alive /\ stuck /\ age[handle] >= Interval + Slack
    /\ stuck' = FALSE
    /\ UNCHANGED <<run, alive, handle, owns, named, age, flag, reader>>

\* stop() announces an emergency, or the dialog writes the flag, which it
\* can also do to the block of a backend that died, and with a heartbeat.
Raise ==
    /\ named # 0 /\ ~flag[named]
    /\ flag' = [flag EXCEPT ![named] = TRUE]
    /\ age' = [age EXCEPT ![named] = 0]
    /\ UNCHANGED <<run, alive, stuck, handle, owns, named, reader>>

\* The orderly end: a last publish that drops the flag, and the block is
\* unlinked by the run that created it.
End ==
    /\ alive /\ ~stuck
    /\ alive' = FALSE
    /\ flag' = [flag EXCEPT ![handle] = FALSE]
    /\ age' = [age EXCEPT ![handle] = 0]
    /\ named' = IF owns THEN 0 ELSE named
    /\ UNCHANGED <<run, stuck, handle, owns, reader>>

\* The process is killed, and its block stays.
Crash ==
    /\ alive /\ alive' = FALSE
    /\ UNCHANGED <<run, stuck, handle, owns, named, age, flag, reader>>

-----------------------------------------------------------------------------
(* The reader.                                                             *)

IsStale(b) == age[b] > Threshold
OneMore == IF stale < 2 THEN stale + 1 ELSE 2
\* Faulty variant: the first stale heartbeat is enough.
StaleHastily(b) == IF IsStale(b) THEN 2 ELSE 0
\* _stale_consecutive after a look at block b.
StaleAfter(b) == IF IsStale(b) THEN OneMore ELSE 0

\* The block the reader shows is not, or not in time, served by a backend.
Orphaned(b) == ~alive \/ handle # b
Silent(b) == Orphaned(b) \/ stuck \/ age[b] > Interval + Slack

\* What is the matter with a block.
Trouble(b) == { sign \in Signs :
    \/ sign = "flag" /\ flag[b]
    \/ sign = "late" /\ age[b] > Threshold + 1
    \/ sign = "unserved" /\ Silent(b)
    \/ sign = "unread" /\ ~Parses }
Explain(b) == cause' = IF emergency' /\ ~emergency THEN Trouble(b) ELSE cause

\* _try_open: at most once per _REOPEN_INTERVAL_SEC.
TryOpen ==
    /\ mapped = 0 /\ waited = Reopen
    /\ waited' = 0
    /\ mapped' = named

\* Faulty variant: only the flag is looked at.
LookForFlag(b) ==
    /\ emergency' = (emergency \/ flag[b])
    /\ UNCHANGED <<stale, cause>>
\* check(), with a block that can be parsed.
Look(b) ==
    /\ Parses
    /\ stale' = StaleAfter(b)
    /\ emergency' = (emergency \/ flag[b] \/ stale' = 2)
    /\ Explain(b)

\* The block is too small to parse: that counts as a stale look, and neither
\* the heartbeat nor the flag is read.  The mapping is kept.
LookFails(b) ==
    /\ ~Parses
    /\ stale' = OneMore
    /\ emergency' = (emergency \/ stale' = 2)
    /\ Explain(b)

Check ==
    /\ ~looked /\ looked' = TRUE
    /\ \/ /\ mapped # 0 /\ UNCHANGED <<mapped, waited>>
          /\ Look(mapped) \/ LookFails(mapped)
       \/ /\ TryOpen
          /\ \/ mapped' = 0 /\ UNCHANGED <<stale, emergency, cause>>
             \/ mapped' # 0 /\ (Look(mapped') \/ LookFails(mapped'))
       \/ mapped = 0 /\ waited < Reopen /\ UNCHANGED <<mapped, waited, stale, emergency, cause>>
    /\ UNCHANGED backend

\* Time passes.  A backend that is not held up publishes in time, and the
\* dashboard's timer fires in every unit: a user interface that skips a unit
\* may find two late heartbeats in a row that were none.
Older(n, limit) == IF n < limit THEN n + 1 ELSE limit
Tick ==
    /\ looked
    /\ (alive /\ ~stuck) => age[handle] < Interval + Slack
    /\ age' = [b \in Blocks |-> Older(age[b], OldEnough)]
    /\ waited' = Older(waited, Reopen)
    /\ looked' = FALSE
    /\ UNCHANGED <<run, alive, stuck, handle, owns, named, flag, mapped, stale,
                   emergency, cause>>

Init ==
    /\ run = 0 /\ handle = 0 /\ named = 0
    /\ alive = FALSE /\ stuck = FALSE /\ owns = FALSE
    /\ age = [b \in Blocks |-> 0] /\ flag = [b \in Blocks |-> FALSE]
    /\ mapped = 0 /\ waited = 0 /\ stale = 0
    /\ emergency = FALSE /\ looked = TRUE /\ cause = {}

Next ==
    \/ Start \/ Publish \/ GetStuck \/ GoOn \/ Raise \/ End \/ Crash
    \/ Check \/ Tick

Spec == Init /\ [][Next]_vars

(* The timer of the dashboard fires and time passes, whatever the backend  *)
(* does.                                                                   *)
Timer == WF_vars(Check) /\ WF_vars(Publish) /\ WF_vars(Tick)
FairSpec == Spec /\ Timer

-----------------------------------------------------------------------------
(* Properties.                                                             *)

(* Whatever the reader maps: when the flag of the block under the name    *)
(* stays up, or nobody serves the mapped block any more, the emergency is  *)
(* shown.  The reader that kept an unlinked block finds it stale.          *)
InTrouble ==
    \/ named # 0 /\ flag[named]
    \/ mapped # 0 /\ Orphaned(mapped)
TroubleIsShown == InTrouble ~> (emergency \/ ~InTrouble)

(* Stated, and not kept: what is shown once is shown for ever, also of a   *)
(* backend that has been serving its block since.                          *)
Recovered == mapped # 0 /\ ~Orphaned(mapped) /\ ~flag[mapped] /\ ~IsStale(mapped)
EmergencyIsCurrent == [](Recovered => <>(~emergency \/ ~Recovered))
=============================================================================
