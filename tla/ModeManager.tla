----------------------------- MODULE ModeManager -----------------------------
(***************************************************************************)
(* captain/mode_manager.py ModeManager: the operational mode ALERT, PAPER  *)
(* or LIVE.  A change to LIVE is guarded by the algo id and the addresses  *)
(* found in the environment or the configuration at that moment, and by a  *)
(* synthetic order that the manager's own ComplianceGuard must approve.    *)
(***************************************************************************)
EXTENDS ModeSwitch

VARIABLES real, skew, window, verdict       \* its ComplianceGuard, with granted

guard == <<real, skew, window, granted, verdict>>
vars == <<guard, mode, settings>>

G == INSTANCE ComplianceGuard

NotAMode == "INVALID"
Settings == [algo : BOOLEAN, registered : G!Addresses, current : G!Addresses]

TypeOK ==
    /\ G!TypeOK
    /\ mode \in G!Modes \cup {"none"}
    /\ settings \in Settings

Init ==
    /\ G!Init
    /\ mode = "none"
    /\ settings \in Settings

\* The operator edits the environment or the configuration.
Configure ==
    /\ settings' \in Settings \ {settings}
    /\ UNCHANGED <<guard, mode>>

\* The order that set_mode shows to the guard.
Probe == [formed |-> TRUE, type |-> "LIMIT", algo |-> settings.algo]

\* __init__: any valid mode is taken as it is, and ALERT for any other.
Initial(requested) == IF requested \in G!Modes THEN requested ELSE "ALERT"

Construct(requested) ==
    /\ mode = "none"
    /\ mode' = Initial(requested)
    /\ UNCHANGED <<guard, settings>>

\* Faulty variant: the probe's verdict is not looked at.
VerdictIgnored == TRUE

\* decision.allow, right after the probe was judged.
Approved == verdict' = "granted"

SetMode(requested) ==
    /\ mode # "none"
    /\ UNCHANGED settings
    /\ \/ /\ requested \in G!Modes \ {"LIVE"}
          /\ mode' = requested
          /\ UNCHANGED guard
       \/ /\ requested = "LIVE" /\ Provided
          /\ G!ValidateOrder(Probe, "LIVE", settings.current, settings.registered)
          /\ mode' = IF Approved THEN "LIVE" ELSE mode
       \/ /\ requested \notin G!Modes \/ (requested = "LIVE" /\ ~Provided)
          /\ UNCHANGED <<guard, mode>>

\* Time passes for the guard's window.
Time ==
    /\ G!Tick \/ G!StepClock
    /\ UNCHANGED <<mode, settings>>

Next ==
    \/ Configure
    \/ \E requested \in G!Modes \cup {NotAMode} :
          Construct(requested) \/ SetMode(requested)
    \/ Time

Spec == Init /\ [][Next]_vars

-----------------------------------------------------------------------------
(***************************************************************************)
(* "LIVE mode guardrails: Algo-ID must exist.  Registered static IP must   *)
(* match current IP.  ComplianceGuard must approve a synthetic LIVE        *)
(* validation order." (mode_manager.py:6-9): whatever way the mode becomes *)
(* LIVE.  The constructor asks nothing.                                    *)
(***************************************************************************)
LiveIsChecked == [][mode # "LIVE" /\ mode' = "LIVE" => Qualified]_vars
=============================================================================
