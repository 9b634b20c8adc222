------------------------------ MODULE MCRecovery ------------------------------
(* What must come back by itself: the option chain when the broker answers   *)
(* again, and the captain from SAFE.  They share no state, and share this    *)
(* instance; "part" says which of them runs.                                 *)
(*                                                                           *)
(* The chain: one leg of either kind, and a spot that moves or not.  The     *)
(* captain: good but unspectacular conditions, in which only relaxed         *)
(* thresholds reach ACTIVE, and nothing is offered.                          *)
EXTENDS OptionPoller

VARIABLES
    part,
    session, losses, manualLock, manualShutdown, state, dwell, forced, boost,
    cooldown, lastLosses, probePending, sinceAttempt, everApproved, quiet,
    approvals, vetoes, result, grant, probesOut, sinceSafe

SomePrices == {1, 2}

Quiet == [gate |-> "ok", conf |-> 72, choppy |-> FALSE, quality |-> "high",
          consensus |-> TRUE, held |-> FALSE, trend |-> 0, blocked |-> FALSE,
          anomaly |-> 0, clean |-> 0, flawed |-> 0, minority |-> 0]
R == INSTANCE Captain WITH
       StepInputs <- {Quiet}, Seeds <- {"SAFE", "LOCKED", "SHUTDOWN"},
       Overnight <- FALSE, Operator <- FALSE, MaxLosses <- 0, Minute <- 1,
       DwellC2A <- 3, DwellS2C <- 4, ProbeInterval <- 2, BoostWindow <- 2,
       LossCooldown <- 1, VetoBurst <- 3, VetoWindow <- 2, VetoSafe <- 3,
       ProbeFailSafe <- 3, TradeCap <- 3, RelaxGrace <- 2, RelaxEvery <- 1,
       QuietCap <- 6, MaxProbes <- 2

captain == <<session, losses, manualLock, manualShutdown, state, dwell, forced, boost,
             cooldown, lastLosses, probePending, sinceAttempt, everApproved, quiet,
             approvals, vetoes, result, grant, probesOut, sinceSafe>>
recoveryVars == <<vars, captain, part>>

Polls == part = "chain" /\ UNCHANGED <<captain, part>>
Leads == part = "captain" /\ UNCHANGED <<vars, part>>

RecoveryInit ==
    /\ Init /\ R!Init
    /\ part = "captain" \/ (part = "chain" /\ state = "SAFE")
RecoveryNext ==
    \/ Polls /\ Next
    \/ Leads /\ R!Next

(* Each part has the fairness of its own specification.                      *)
RecoverySpec ==
    /\ RecoveryInit /\ [][RecoveryNext]_recoveryVars
    /\ WF_recoveryVars(Polls /\ Poller)
    /\ WF_recoveryVars(Polls /\ steady /\ Executor)
    /\ WF_recoveryVars(Leads /\ R!Step)
    /\ WF_recoveryVars(Leads /\ R!Tick)

(* Once session and broker are in order for good, so is the option chain.    *)
ChainIsBack == part = "chain" => ChainRecovers

(* While the inputs stay good, the captain leaves SAFE and trades again.     *)
Recovers == part = "captain" => R!Recovers
=============================================================================
