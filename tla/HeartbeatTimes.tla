--------------------------- MODULE HeartbeatTimes ---------------------------
(* The periods of the heartbeat and of those who look at it, in units of the *)
(* 200 ms timer of the dashboard, the size of the block they share, and what *)
(* an emergency that is shown means.                                         *)
EXTENDS Integers

CONSTANTS
    MaxStarts,   \* bound: starts of the backend
    Threshold,   \* stale_threshold_sec
    Interval,    \* health_interval_sec: the loop publishes when this has passed
    Slack,       \* how much later than that the loop comes by
    Reopen,      \* _REOPEN_INTERVAL_SEC
    Page         \* the system maps a block in multiples of this: 1 on Linux, where
                 \* the mapping has the size asked for, elsewhere a page

ASSUME HeartbeatAssumption ==
    {MaxStarts, Threshold, Interval, Slack, Reopen, Page} \subseteq Nat \ {0}

\* KILL_SWITCH_STRUCT, "!7I2Q64s": what the backend asks for.
BlockBytes == 7 * 4 + 2 * 8 + 64
\* What the reader finds mapped, and the size it asks for.
MappedBytes == ((BlockBytes + Page - 1) \div Page) * Page
MinBlockBytes == 128
\* _parse_block does not raise.
Parses == MappedBytes >= MinBlockBytes

VARIABLES
    emergency,   \* _emergency_active
    cause        \* history: what was the matter when the emergency was shown

(* check(): an emergency is shown for a flag that was raised, for a block  *)
(* that cannot be read, or for a heartbeat that two looks in a row found   *)
(* late, and which is therefore a whole period of the timer older than the *)
(* threshold; whatever the backend's periods, crashes and restarts are.    *)
AlarmIsExplained == emergency => cause \cap {"flag", "unread", "late"} # {}

(* An emergency is shown for a flag that was raised, or for a block no     *)
(* backend served in time.  Not kept: the backend's blocks are smaller     *)
(* than the reader allows where a mapping is no larger than asked for, and *)
(* by default the heartbeat comes no more often than the threshold.        *)
AlarmIsFounded == emergency => cause \cap {"flag", "unserved"} # {}
=============================================================================
