----------------------------- MODULE ModeSwitch -----------------------------
(* What a ModeManager asks before a change to LIVE, and what it promises of  *)
(* that change.                                                              *)
EXTENDS ComplianceLimits

VARIABLES
    mode,           \* "none" until the manager is built
    settings        \* algo id and addresses: environment over configuration

\* What _validate_live_requirements asks before it shows the probe.
Provided ==
    /\ settings.algo
    /\ settings.registered # NoIp
    /\ settings.current # NoIp

Qualified == Provided /\ settings.registered = settings.current

CheckedNow == Qualified /\ Len(granted') = Len(granted) + 1

(* A change from ALERT or PAPER to LIVE happens only under an algo id and    *)
(* matching addresses, and takes a slot of the probe window: the probes that *)
(* succeed in one second are at most the ceiling.                            *)
SwitchIsChecked ==
    [][mode' = "LIVE" /\ mode \in {"ALERT", "PAPER"} => CheckedNow]_mode
=============================================================================
