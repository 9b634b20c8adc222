--------------------------- MODULE CaptainProofs ---------------------------
(***************************************************************************)
(* What TLAPS proves of Captain, for every value of its constants: type    *)
(* correctness, the trade-frequency cap, where a probe may be pending, how *)
(* fast ACTIVE is reached, that forced SAFE is never shortened, and that   *)
(* nothing is traded before the window opens.                              *)
(*                                                                         *)
(* The decision chain is walked through once, in StepShape; after that a   *)
(* cycle is a Conclude whose state change is one of ClimbOrFall.           *)
(***************************************************************************)
EXTENDS Captain, FiniteSetTheorems, SequenceTheorems, TLAPS

Approval == [age : Nat, kept : BOOLEAN]
Veto == [age : Nat]

-----------------------------------------------------------------------------
(* Helpers.                                                                *)

\* The larger of two integers.
LEMMA MaxTwo ==
  ASSUME NEW a \in Int, NEW b \in Int
  PROVE  Max({a, b}) = IF a >= b THEN a ELSE b
<1>1. \E x \in {a, b} : \A y \in {a, b} : x >= y
  OBVIOUS
<1>2. /\ Max({a, b}) \in {a, b}
      /\ \A y \in {a, b} : Max({a, b}) >= y
  BY <1>1, Zenon DEF Max
<1> QED
  BY <1>2

\* The smaller of two integers.
LEMMA MinTwo ==
  ASSUME NEW a \in Int, NEW b \in Int
  PROVE  Min({a, b}) = IF a <= b THEN a ELSE b
<1>1. \E x \in {a, b} : \A y \in {a, b} : x <= y
  OBVIOUS
<1>2. /\ Min({a, b}) \in {a, b}
      /\ \A y \in {a, b} : Min({a, b}) <= y
  BY <1>1, Zenon DEF Min
<1> QED
  BY <1>2

\* The dwell time saturates at a natural number.
LEMMA DwellCapType == DwellCap \in Nat
<1> DEFINE S == {Minute, DwellC2A, DwellS2C}
<1>1. Minute \in Nat /\ DwellC2A \in Nat /\ DwellS2C \in Nat
  BY CaptainAssumption
<1>2. \E x \in S : \A y \in S : x >= y
  BY <1>1
<1>3. Max(S) \in S
  BY <1>2, Zenon DEF Max
<1> QED
  BY <1>1, <1>3 DEF DwellCap

\* A tick less, and a tick more, stay within their bounds.
LEMMA CountTypes ==
  ASSUME NEW cap \in Nat, NEW t \in 0..cap
  PROVE  /\ Less(t) \in 0..cap
         /\ Less(t) >= t - 1
         /\ More(t, cap) \in 0..cap
         /\ More(t, cap) >= t
         /\ More(t, cap) = IF t < cap THEN t + 1 ELSE cap
<1>1. Less(t) = IF 0 >= t - 1 THEN 0 ELSE t - 1
  BY MaxTwo DEF Less
<1>2. More(t, cap) = IF cap <= t + 1 THEN cap ELSE t + 1
  BY MinTwo DEF More
<1> QED
  BY <1>1, <1>2

\* Dropping the entries that leave the window never makes a log longer.
LEMMA AgedType ==
  ASSUME NEW S, NEW s \in Seq(S), NEW w \in Nat,
         \A i \in DOMAIN s : [s[i] EXCEPT !.age = @ + 1] \in S
  PROVE  /\ Aged(s, w) \in Seq(S)
         /\ Len(Aged(s, w)) <= Len(s)
<1> DEFINE old == {i \in DOMAIN s : s[i].age >= w}
           older == [i \in DOMAIN s |-> [s[i] EXCEPT !.age = @ + 1]]
<1>1. Len(s) \in Nat /\ DOMAIN s = 1..Len(s)
  BY LenProperties
<1>2. Cardinality(old) \in Nat
  <2>1. IsFiniteSet(DOMAIN s)
    <3>1. 1 \in Int /\ Len(s) \in Int
      BY <1>1
    <3>2. IsFiniteSet(1..Len(s))
      BY <3>1, FS_Interval
    <3> QED
      BY <1>1, <3>2
  <2>2. old \in SUBSET DOMAIN s
    OBVIOUS
  <2>3. IsFiniteSet(old)
    BY <2>1, <2>2, FS_Subset
  <2> QED
    BY <2>3, FS_CardinalityType
<1>3. \A i \in 1..Len(s) : older[i] \in S
  BY <1>1
<1> DEFINE m == 1 + Cardinality(old)
<1>4. m \in Int /\ m >= 1
  BY <1>2
<1>5. Aged(s, w) = SubSeq(older, m, Len(s))
  BY DEF Aged
<1> HIDE DEF m, older
<1>6. \A i \in m..Len(s) : older[i] \in S
  BY <1>1, <1>3, <1>4
<1>7. /\ SubSeq(older, m, Len(s)) \in Seq(S)
      /\ Len(SubSeq(older, m, Len(s))) = IF m <= Len(s) THEN Len(s) - m + 1 ELSE 0
  BY <1>1, <1>4, <1>6, SubSeqProperties
<1> QED
  BY <1>1, <1>4, <1>5, <1>7

-----------------------------------------------------------------------------
(* One cycle.                                                              *)

\* What the state machine may do in one cycle.
ClimbOrFall(to) ==
  \/ to = state
  \/ state \in {"BOOT", "OBSERVE"} /\ to \in {"OBSERVE", "ACTIVE"}
  \/ state = "ACTIVE" /\ to \in {"SAFE", "CAUTIOUS"}
  \/ state = "CAUTIOUS" /\ to = "SAFE"
  \/ state = "CAUTIOUS" /\ to = "ACTIVE" /\ dwell >= DwellC2A
  \/ state = "SAFE" /\ to = "CAUTIOUS"

\* Every branch of the decision chain ends in a Conclude of this shape.
LEMMA StepShape ==
  ASSUME TypeOK, Step
  PROVE  \E in \in StepInputs, to \in States, shown \in States,
            allow \in BOOLEAN, probe \in BOOLEAN :
           /\ Conclude(in, to, shown, allow, probe)
           /\ ClimbOrFall(to)
           /\ allow \/ to # state => ~Barred(in)
           /\ probe => state = "SAFE" /\ to = "SAFE" /\ ~probePending
<1>1. PICK in \in StepInputs :
         \/ StepBarred(in) \/ StepWarmup(in) \/ StepActive(in)
         \/ StepCautious(in) \/ StepSafe(in) \/ StepStuck(in)
  BY DEF Step
<1>2. state \in States
  BY DEF TypeOK
<1> DEFINE Shape(to, shown, allow, probe) ==
             /\ Conclude(in, to, shown, allow, probe)
             /\ ClimbOrFall(to)
             /\ allow \/ to # state => ~Barred(in)
             /\ probe => state = "SAFE" /\ to = "SAFE" /\ ~probePending
<1> SUFFICES \E to \in States, shown \in States, allow \in BOOLEAN, probe \in BOOLEAN :
                Shape(to, shown, allow, probe)
  OBVIOUS
<1>3. {"BOOT", "OBSERVE", "ACTIVE", "CAUTIOUS", "SAFE", "LOCKED", "SHUTDOWN"} = States
  BY DEF States
<1>4. (CooldownNow = 0) \in BOOLEAN
  OBVIOUS
<1>a. CASE StepBarred(in)
  <2>1. BarrierShown(in) \in States
    BY <1>3 DEF BarrierShown, TypeOK, InHours
  <2>2. Shape(state, BarrierShown(in), FALSE, FALSE)
    BY <1>a DEF StepBarred, ClimbOrFall
  <2> QED
    BY <1>2, <2>1, <2>2
<1>b. CASE StepWarmup(in)
  <2>1. CASE Conclude(in, "ACTIVE", "ACTIVE", TRUE, FALSE)
    <3>1. Shape("ACTIVE", "ACTIVE", TRUE, FALSE)
      BY <1>b, <2>1 DEF StepWarmup, ClimbOrFall
    <3> QED
      BY <1>3, <3>1
  <2>2. CASE Conclude(in, "OBSERVE", "OBSERVE", FALSE, FALSE)
    <3>1. Shape("OBSERVE", "OBSERVE", FALSE, FALSE)
      BY <1>b, <2>2 DEF StepWarmup, ClimbOrFall
    <3> QED
      BY <1>3, <3>1
  <2> QED
    BY <1>b, <2>1, <2>2 DEF StepWarmup
<1>c. CASE StepActive(in)
  <2>1. CASE Conclude(in, "SAFE", "SAFE", FALSE, FALSE)
    <3>1. Shape("SAFE", "SAFE", FALSE, FALSE)
      BY <1>c, <2>1 DEF StepActive, ClimbOrFall
    <3> QED
      BY <1>3, <3>1
  <2>2. CASE Conclude(in, "CAUTIOUS", "CAUTIOUS", FALSE, FALSE)
    <3>1. Shape("CAUTIOUS", "CAUTIOUS", FALSE, FALSE)
      BY <1>c, <2>2 DEF StepActive, ClimbOrFall
    <3> QED
      BY <1>3, <3>1
  <2>3. CASE Conclude(in, "ACTIVE", "ACTIVE", CooldownNow = 0, FALSE)
    <3>1. Shape("ACTIVE", "ACTIVE", CooldownNow = 0, FALSE)
      BY <1>c, <2>3 DEF StepActive, ClimbOrFall
    <3> QED
      BY <1>3, <1>4, <3>1
  <2> QED
    BY <1>c, <2>1, <2>2, <2>3 DEF StepActive
<1>d. CASE StepCautious(in)
  <2>1. CASE Conclude(in, "SAFE", "SAFE", FALSE, FALSE)
    <3>1. Shape("SAFE", "SAFE", FALSE, FALSE)
      BY <1>d, <2>1 DEF StepCautious, ClimbOrFall
    <3> QED
      BY <1>3, <3>1
  <2>2. CASE Conclude(in, "ACTIVE", "ACTIVE", TRUE, FALSE) /\ dwell >= DwellC2A
    <3>1. Shape("ACTIVE", "ACTIVE", TRUE, FALSE)
      BY <1>d, <2>2 DEF StepCautious, ClimbOrFall
    <3> QED
      BY <1>3, <3>1
  <2>3. CASE Conclude(in, "CAUTIOUS", "CAUTIOUS", FALSE, FALSE)
    <3>1. Shape("CAUTIOUS", "CAUTIOUS", FALSE, FALSE)
      BY <1>d, <2>3 DEF StepCautious, ClimbOrFall
    <3> QED
      BY <1>3, <3>1
  <2> QED
    BY <1>d, <2>1, <2>2, <2>3 DEF StepCautious
<1>e. CASE StepSafe(in)
  <2>1. CASE /\ Conclude(in, "SAFE", "SAFE", CooldownNow = 0, CooldownNow = 0)
             /\ ProbeAllowed(in)
    <3>1. Shape("SAFE", "SAFE", CooldownNow = 0, CooldownNow = 0)
      BY <1>e, <2>1 DEF StepSafe, ClimbOrFall, ProbeAllowed
    <3> QED
      BY <1>3, <1>4, <3>1
  <2>2. CASE Conclude(in, "CAUTIOUS", "CAUTIOUS", FALSE, FALSE)
    <3>1. Shape("CAUTIOUS", "CAUTIOUS", FALSE, FALSE)
      BY <1>e, <2>2 DEF StepSafe, ClimbOrFall
    <3> QED
      BY <1>3, <3>1
  <2>3. CASE Conclude(in, "SAFE", "SAFE", FALSE, FALSE)
    <3>1. Shape("SAFE", "SAFE", FALSE, FALSE)
      BY <1>e, <2>3 DEF StepSafe, ClimbOrFall
    <3> QED
      BY <1>3, <3>1
  <2> QED
    BY <1>e, <2>1, <2>2, <2>3 DEF StepSafe
<1>f. CASE StepStuck(in)
  <2> DEFINE shown == IF state = "LOCKED" THEN "LOCKED" ELSE "SAFE"
  <2>1. shown \in States
    BY <1>3
  <2>2. Shape(state, shown, FALSE, FALSE)
    BY <1>f DEF StepStuck, ClimbOrFall
  <2> QED
    BY <1>2, <2>1, <2>2
<1> QED
  BY <1>1, <1>a, <1>b, <1>c, <1>d, <1>e, <1>f

\* What the vetting of one cycle counts: nobody passes beyond the cap.
LEMMA CycleCounts ==
  ASSUME TypeOK, NEW in \in StepInputs, NEW shown \in States,
         NEW allow \in BOOLEAN, NEW probe \in BOOLEAN
  PROVE  LET passed == Passed(in, shown, allow, probe)
         IN  /\ passed \in 0..in.clean
             /\ Len(approvals) <= TradeCap => Len(approvals) + passed <= TradeCap
             /\ Kept(passed) \in 0..passed
             /\ TradeCap <= 3 => Kept(passed) <= 1
<1> DEFINE passed == Passed(in, shown, allow, probe)
           room == Max({0, TradeCap - Len(approvals)})
<1>1. Len(approvals) \in Nat
  BY LenProperties DEF TypeOK
<1>2. TradeCap \in Nat /\ in.clean \in Nat
  BY CaptainAssumption DEF InputType
<1>3. room = IF 0 >= TradeCap - Len(approvals) THEN 0 ELSE TradeCap - Len(approvals)
  BY <1>1, <1>2, MaxTwo
<1>4. room \in Nat
  BY <1>1, <1>2, <1>3
<1>5. passed = IF Tradable(in, shown, allow, probe) THEN Min({in.clean, room}) ELSE 0
  BY DEF Passed, RecentApprovals
<1> HIDE DEF passed, room
<1>6. Min({in.clean, room}) = IF in.clean <= room THEN in.clean ELSE room
  BY <1>2, <1>4, MinTwo
<1>7. passed \in 0..in.clean /\ passed <= room
  BY <1>2, <1>4, <1>5, <1>6
<1>8. Len(approvals) <= TradeCap => Len(approvals) + passed <= TradeCap
  BY <1>1, <1>2, <1>3, <1>7
<1> DEFINE left == Max({0, TradeCap - (Len(approvals) + passed)})
<1>9. /\ left \in Nat
      /\ left = IF 0 >= TradeCap - (Len(approvals) + passed) THEN 0
                ELSE TradeCap - (Len(approvals) + passed)
  <2>1. TradeCap - (Len(approvals) + passed) \in Int
    BY <1>1, <1>2, <1>7
  <2> QED
    BY <2>1, MaxTwo
<1>10. Kept(passed) = Min({passed, left})
  BY DEF Kept, RecentApprovals
<1> HIDE DEF left
<1>11. Min({passed, left}) = IF passed <= left THEN passed ELSE left
  BY <1>7, <1>9, <1>2, MinTwo
<1>12. Kept(passed) \in 0..passed
  BY <1>2, <1>7, <1>9, <1>10, <1>11
<1>13. TradeCap <= 3 => Kept(passed) <= 1
  BY <1>1, <1>2, <1>7, <1>9, <1>10, <1>11
<1> QED
  BY <1>7, <1>8, <1>12, <1>13 DEF passed

\* Forced SAFE is extended by an anomaly, never beyond its longest duration.
LEMMA ForcedNowType ==
  ASSUME TypeOK, NEW in \in StepInputs
  PROVE  ForcedNow(in) \in 0..VetoSafe /\ ForcedNow(in) >= forced
<1>1. in.anomaly \in Nat /\ in.anomaly <= VetoSafe /\ VetoSafe \in Nat
  BY CaptainAssumption DEF InputType
<1>2. forced \in 0..VetoSafe
  BY DEF TypeOK
<1>3. ForcedNow(in) = IF forced >= in.anomaly THEN forced ELSE in.anomaly
  BY <1>1, <1>2, MaxTwo DEF ForcedNow
<1> QED
  BY <1>1, <1>2, <1>3

\* The logs after a cycle: the approvals that passed are all recorded.
LEMMA ConcludeLogs ==
  ASSUME TypeOK, NEW in \in StepInputs, NEW to \in States, NEW shown \in States,
         NEW allow \in BOOLEAN, NEW probe \in BOOLEAN,
         Conclude(in, to, shown, allow, probe)
  PROVE  /\ approvals' \in Seq(Approval)
         /\ Len(approvals') = Len(approvals) + Passed(in, shown, allow, probe)
         /\ vetoes' \in Seq(Veto)
<1> DEFINE passed == Passed(in, shown, allow, probe)
           kept == Kept(passed)
           refused == in.minority + in.flawed + (in.clean - kept)
           new == [i \in 1..passed |-> [age |-> 0, kept |-> i <= kept]]
<1>1. passed \in 0..in.clean /\ kept \in 0..passed
  BY CycleCounts
<1>2. in.clean \in Nat /\ in.flawed \in Nat /\ in.minority \in Nat
  BY CaptainAssumption DEF InputType
<1>3. approvals \in Seq(Approval) /\ vetoes \in Seq(Veto)
  BY DEF TypeOK, Approval, Veto
<1>4. approvals' = approvals \o new
  BY DEF Conclude
<1>5. vetoes' = << >> \/ vetoes' = vetoes \o Stamp(refused, [age |-> 0])
  BY DEF Conclude
<1> HIDE DEF passed, kept
<1>6. new \in Seq(Approval) /\ Len(new) = passed
  <2>1. passed \in Nat /\ kept \in Int
    BY <1>1, <1>2
  <2>2. \A i \in 1..passed : [age |-> 0, kept |-> i <= kept] \in Approval
    BY <2>1 DEF Approval
  <2> QED
    BY <2>1, <2>2
<1>7. Stamp(refused, [age |-> 0]) \in Seq(Veto)
  <2>1. refused \in Nat
    BY <1>1, <1>2
  <2>2. [age |-> 0] \in Veto
    BY DEF Veto
  <2> HIDE DEF refused
  <2> QED
    BY <2>1, <2>2 DEF Stamp
<1> HIDE DEF new, refused
<1>8. approvals \o new \in Seq(Approval) /\ Len(approvals \o new) = Len(approvals) + Len(new)
  BY <1>3, <1>6, ConcatProperties
<1>9. << >> \in Seq(Veto) /\ vetoes \o Stamp(refused, [age |-> 0]) \in Seq(Veto)
  BY <1>3, <1>7, ConcatProperties
<1> QED
  BY <1>4, <1>5, <1>6, <1>8, <1>9 DEF passed

-----------------------------------------------------------------------------
(* The inductive invariant.                                                *)

\* While the captain climbs out of SAFE, the time it spent in CAUTIOUS is
\* time since SAFE; elsewhere SAFE is at least the dwell time away.
ClimbMeasured ==
  /\ state \notin {"SAFE", "CAUTIOUS"} => sinceSafe >= DwellC2A
  /\ state = "CAUTIOUS" => sinceSafe >= dwell \/ sinceSafe >= DwellC2A

\* All approvals of the minute, the ones the cap dropped included, fit the cap.
ApprovalsWithinCap == Len(approvals) <= TradeCap

\* A probe handed out is a probe waited for, and with at most three trades a
\* minute it is the only one.
GrantsPending ==
  /\ grant > 0 => probePending
  /\ TradeCap <= 3 => grant <= 1

IInv ==
  /\ TypeOK
  /\ PendingOnlyWhileRecovering
  /\ GrantsPending
  /\ ClimbMeasured
  /\ ApprovalsWithinCap

LEMMA InitIInv == Init => IInv
<1> SUFFICES ASSUME Init PROVE IInv
  OBVIOUS
<1>1. TypeOK
  <2>1. DwellCap \in Nat
    BY DwellCapType
  <2>2. << >> \in Seq(Approval) /\ << >> \in Seq(Veto)
    BY EmptySeq
  <2>3. state \in States
    BY CaptainAssumption DEF Init
  <2>4. result \in [shown : States, allow : BOOLEAN, probe : BOOLEAN,
                    kept : Nat, capped : Nat]
    BY DEF Init, NoResult, States
  <2>5. /\ {MaxLosses, TradeCap, QuietCap, MaxProbes} \subseteq Nat
        /\ {VetoSafe, BoostWindow, LossCooldown, ProbeInterval, DwellC2A} \subseteq Nat
    BY CaptainAssumption
  <2>6. /\ dwell \in 0..DwellCap /\ forced \in 0..VetoSafe /\ boost \in 0..BoostWindow
        /\ cooldown \in 0..LossCooldown /\ sinceAttempt \in 0..ProbeInterval
        /\ quiet \in 0..QuietCap /\ losses \in 0..MaxLosses /\ grant \in Nat
        /\ probesOut \in 0..MaxProbes /\ sinceSafe \in 0..DwellC2A
    BY <2>1, <2>5 DEF Init
  <2>7. lastLosses \in {Never}
    BY DEF Init
  <2> QED
    BY <2>2, <2>3, <2>4, <2>6, <2>7 DEF Init, TypeOK, Approval, Veto
<1>2. PendingOnlyWhileRecovering
  BY DEF Init, PendingOnlyWhileRecovering
<1>3. ClimbMeasured
  BY CaptainAssumption DEF Init, ClimbMeasured
<1>4. ApprovalsWithinCap
  <2>1. Len(<< >>) = 0
    BY EmptySeq
  <2> QED
    BY <2>1, CaptainAssumption DEF Init, ApprovalsWithinCap
<1>5. GrantsPending
  BY DEF Init, GrantsPending
<1> QED
  BY <1>1, <1>2, <1>3, <1>4, <1>5 DEF IInv

\* A cycle preserves type correctness.
LEMMA ConcludeTypeOK ==
  ASSUME TypeOK, NEW in \in StepInputs, NEW to \in States, NEW shown \in States,
         NEW allow \in BOOLEAN, NEW probe \in BOOLEAN,
         Conclude(in, to, shown, allow, probe)
  PROVE  TypeOK'
<1> DEFINE passed == Passed(in, shown, allow, probe)
           kept == Kept(passed)
<1>1. passed \in 0..in.clean /\ kept \in 0..passed
  BY CycleCounts
<1>2. in.clean \in Nat
  BY CaptainAssumption DEF InputType
<1>3. ForcedNow(in) \in 0..VetoSafe
  BY ForcedNowType
<1>4. approvals' \in Seq(Approval) /\ vetoes' \in Seq(Veto)
  BY ConcludeLogs
<1>5. DwellCap \in Nat
  BY DwellCapType
<1> HIDE DEF passed, kept
<1>6. passed \in Nat /\ kept \in Nat /\ passed - kept \in Nat
  BY <1>1, <1>2
<1>7. result' \in [shown : States, allow : BOOLEAN, probe : BOOLEAN,
                   kept : Nat, capped : Nat]
  <2>1. result' = [shown |-> shown, allow |-> allow, probe |-> probe, kept |-> kept,
                   capped |-> passed - kept]
    BY DEF Conclude, passed, kept
  <2> QED
    BY <1>6, <2>1
<1>8. grant' \in Nat /\ probesOut' \in 0..MaxProbes
  <2>1. /\ grant' = (IF Recovered(to) THEN 0 ELSE grant) + (IF probe THEN kept ELSE 0)
        /\ probesOut' = Min({MaxProbes, probesOut + (IF probe THEN kept ELSE 0)})
    BY DEF Conclude, passed, kept
  <2>2. grant \in Nat /\ probesOut \in 0..MaxProbes /\ MaxProbes \in Nat
    BY CaptainAssumption DEF TypeOK
  <2> DEFINE more == probesOut + (IF probe THEN kept ELSE 0)
  <2>3. more \in Nat
    BY <1>6, <2>2
  <2> HIDE DEF more
  <2>4. Min({MaxProbes, more}) = IF MaxProbes <= more THEN MaxProbes ELSE more
    BY <2>2, <2>3, MinTwo
  <2> QED
    BY <1>6, <2>1, <2>2, <2>3, <2>4 DEF more
<1>9. /\ forced' \in 0..VetoSafe
      /\ boost' \in 0..BoostWindow
      /\ cooldown' \in 0..LossCooldown
      /\ lastLosses' \in {Never} \cup 0..MaxLosses
  <2>1. /\ forced' \in {VetoSafe, 0, ForcedNow(in)}
        /\ boost' \in {0, boost}
        /\ cooldown' \in {LossCooldown, cooldown}
        /\ lastLosses' = losses
    BY DEF Conclude, CooldownNow
  <2>2. /\ boost \in 0..BoostWindow /\ cooldown \in 0..LossCooldown
        /\ losses \in 0..MaxLosses
    BY DEF TypeOK
  <2>3. VetoSafe \in Nat /\ BoostWindow \in Nat /\ LossCooldown \in Nat
    BY CaptainAssumption
  <2> QED
    BY <1>3, <2>1, <2>2, <2>3
<1>10. /\ state' \in States
       /\ dwell' \in 0..DwellCap
       /\ sinceAttempt' \in 0..ProbeInterval
       /\ quiet' \in 0..QuietCap
       /\ sinceSafe' \in 0..DwellC2A
  BY <1>5, CaptainAssumption DEF Conclude, TypeOK
<1>11. probePending' \in BOOLEAN /\ everApproved' \in BOOLEAN
  BY DEF Conclude, TypeOK
<1>12. /\ session' \in {"pre", "observe", "trade", "closed"}
       /\ losses' \in 0..MaxLosses
       /\ manualLock' \in BOOLEAN
       /\ manualShutdown' \in BOOLEAN
  BY DEF Conclude, TypeOK
<1> QED
  BY <1>4, <1>7, <1>8, <1>9, <1>10, <1>11, <1>12 DEF TypeOK, Approval, Veto

\* One call of step().
LEMMA StepIInv == IInv /\ Step => IInv'
<1> SUFFICES ASSUME IInv, Step PROVE IInv'
  OBVIOUS
<1>1. TypeOK
  BY DEF IInv
<1>2. PICK in \in StepInputs, to \in States, shown \in States,
           allow \in BOOLEAN, probe \in BOOLEAN :
         /\ Conclude(in, to, shown, allow, probe)
         /\ ClimbOrFall(to)
         /\ probe => state = "SAFE" /\ to = "SAFE" /\ ~probePending
  BY <1>1, StepShape
<1>3. TypeOK'
  BY <1>1, <1>2, ConcludeTypeOK
<1>4. PendingOnlyWhileRecovering'
  <2>1. /\ state' = to
        /\ probePending' => probe \/ (probePending /\ ~Recovered(to))
    BY <1>2 DEF Conclude
  <2> QED
    BY <1>2, <2>1 DEF IInv, PendingOnlyWhileRecovering, ClimbOrFall, Recovered, Entering
<1>5. ClimbMeasured'
  <2>1. /\ state' = to
        /\ dwell' = IF state # to THEN 0 ELSE dwell
        /\ sinceSafe' = IF state = "SAFE" \/ to = "SAFE" THEN 0 ELSE sinceSafe
    BY <1>2 DEF Conclude, Entering
  <2>2. sinceSafe \in Nat /\ DwellC2A \in Nat /\ dwell \in Int
    BY <1>1, CaptainAssumption, DwellCapType DEF TypeOK
  <2> QED
    BY <1>2, <2>1, <2>2 DEF IInv, ClimbMeasured, ClimbOrFall
<1>6. ApprovalsWithinCap'
  <2>1. Len(approvals') = Len(approvals) + Passed(in, shown, allow, probe)
    BY <1>1, <1>2, ConcludeLogs
  <2>2. Len(approvals) <= TradeCap =>
           Len(approvals) + Passed(in, shown, allow, probe) <= TradeCap
    BY <1>1, CycleCounts
  <2> QED
    BY <2>1, <2>2 DEF IInv, ApprovalsWithinCap
<1>7. GrantsPending'
  <2> DEFINE passed == Passed(in, shown, allow, probe)
             kept == Kept(passed)
  <2>1. /\ grant' = (IF Recovered(to) THEN 0 ELSE grant) + (IF probe THEN kept ELSE 0)
        /\ probe /\ passed > 0 => probePending'
        /\ probePending /\ ~Recovered(to) => probePending'
    BY <1>2 DEF Conclude
  <2>2. /\ passed \in 0..in.clean
        /\ kept \in 0..passed
        /\ TradeCap <= 3 => kept <= 1
    BY <1>1, CycleCounts
  <2>3. grant \in Nat /\ in.clean \in Nat
    BY <1>1, CaptainAssumption DEF TypeOK, InputType
  <2> HIDE DEF passed, kept
  <2>4. grant > 0 => probePending
    BY DEF IInv, GrantsPending
  <2>5. TradeCap <= 3 => grant <= 1
    BY DEF IInv, GrantsPending
  <2>6. CASE probe
    <3>1. grant = 0
      BY <1>2, <2>3, <2>4, <2>6
    <3>2. grant' = kept
      BY <2>1, <2>2, <2>3, <2>6, <3>1
    <3>3. kept > 0 => passed > 0
      BY <2>2, <2>3
    <3> QED
      BY <2>1, <2>2, <2>6, <3>2, <3>3 DEF GrantsPending
  <2>7. CASE ~probe
    <3>1. grant' = IF Recovered(to) THEN 0 ELSE grant
      BY <2>1, <2>3, <2>7
    <3> QED
      BY <2>1, <2>3, <2>4, <2>5, <3>1 DEF GrantsPending
  <2> QED
    BY <2>6, <2>7
<1> QED
  BY <1>3, <1>4, <1>5, <1>6, <1>7 DEF IInv

-----------------------------------------------------------------------------
(* The other actions.                                                      *)

\* What the operations that leave the engine alone may not disturb.
LEMMA WorldIInv ==
  ASSUME IInv, UNCHANGED engine, UNCHANGED history, UNCHANGED result,
         session' \in {"pre", "observe", "trade", "closed"},
         losses' \in 0..MaxLosses, manualLock' \in BOOLEAN, manualShutdown' \in BOOLEAN
  PROVE  IInv'
<1>1. TypeOK'
  BY DEF IInv, TypeOK, engine, history
<1>2. PendingOnlyWhileRecovering' /\ ClimbMeasured' /\ ApprovalsWithinCap' /\ GrantsPending'
  BY DEF IInv, PendingOnlyWhileRecovering, ClimbMeasured, ApprovalsWithinCap,
         GrantsPending, engine, history
<1> QED
  BY <1>1, <1>2 DEF IInv

\* The outcome of a probe.
LEMMA OutcomeIInv ==
  ASSUME IInv, NEW success \in BOOLEAN, ProbeOutcome(success)
  PROVE  IInv'
<1>1. TypeOK'
  <2>1. forced' \in 0..VetoSafe /\ boost' \in 0..BoostWindow
    <3>1. forced \in 0..VetoSafe /\ boost \in 0..BoostWindow
      BY DEF IInv, TypeOK
    <3>2. VetoSafe \in Nat /\ ProbeFailSafe = VetoSafe /\ BoostWindow \in Nat
      BY CaptainAssumption
    <3> QED
      BY <3>1, <3>2 DEF ProbeOutcome
  <2>2. probesOut' \in 0..MaxProbes
    <3>1. probesOut \in 0..MaxProbes /\ MaxProbes \in Nat
      BY CaptainAssumption DEF IInv, TypeOK
    <3>2. probesOut > 0 /\ probesOut' = probesOut - 1
      BY DEF ProbeOutcome
    <3> QED
      BY <3>1, <3>2
  <2> QED
    BY <2>1, <2>2 DEF IInv, TypeOK, ProbeOutcome
<1>2. PendingOnlyWhileRecovering' /\ ClimbMeasured' /\ ApprovalsWithinCap' /\ GrantsPending'
  BY DEF IInv, PendingOnlyWhileRecovering, ClimbMeasured, ApprovalsWithinCap,
         GrantsPending, ProbeOutcome
<1> QED
  BY <1>1, <1>2 DEF IInv

\* The minute slides over the approvals.
LEMMA ApprovalsAge ==
  ASSUME TypeOK, Tick
  PROVE  approvals' \in Seq(Approval) /\ Len(approvals') <= Len(approvals)
<1>1. approvals \in Seq(Approval) /\ Minute \in Nat
  BY CaptainAssumption DEF TypeOK, Approval
<1>2. \A i \in DOMAIN approvals : [approvals[i] EXCEPT !.age = @ + 1] \in Approval
  <2>1. \A i \in DOMAIN approvals : approvals[i] \in Approval
    BY <1>1
  <2> QED
    BY <2>1 DEF Approval
<1>3. /\ Aged(approvals, Minute) \in Seq(Approval)
      /\ Len(Aged(approvals, Minute)) <= Len(approvals)
  BY <1>1, <1>2, AgedType
<1> QED
  BY <1>3 DEF Tick

\* The clock.
LEMMA TickIInv ==
  ASSUME IInv, Tick
  PROVE  IInv'
<1>1. TypeOK
  BY DEF IInv
<1>2. /\ {Minute, VetoWindow, VetoSafe, BoostWindow, LossCooldown, ProbeInterval,
          DwellC2A, QuietCap} \subseteq Nat
      /\ DwellCap \in Nat
  BY CaptainAssumption, DwellCapType
<1>3. approvals' \in Seq(Approval) /\ Len(approvals') <= Len(approvals)
  BY <1>1, ApprovalsAge
<1>4. vetoes' \in Seq(Veto)
  <2>1. vetoes \in Seq(Veto)
    BY <1>1 DEF TypeOK, Veto
  <2>2. \A i \in DOMAIN vetoes : [vetoes[i] EXCEPT !.age = @ + 1] \in Veto
    <3>1. \A i \in DOMAIN vetoes : vetoes[i] \in Veto
      BY <2>1
    <3> QED
      BY <3>1 DEF Veto
  <2>3. Aged(vetoes, VetoWindow) \in Seq(Veto)
    BY <1>2, <2>1, <2>2, AgedType
  <2> QED
    BY <2>3 DEF Tick
<1>5. /\ forced' \in 0..VetoSafe
      /\ boost' \in 0..BoostWindow
      /\ cooldown' \in 0..LossCooldown
  BY <1>1, <1>2, CountTypes DEF TypeOK, Tick
<1>6. /\ dwell' \in 0..DwellCap
      /\ sinceAttempt' \in 0..ProbeInterval
      /\ quiet' \in 0..QuietCap
      /\ sinceSafe' \in 0..DwellC2A
  <2>1. /\ dwell \in 0..DwellCap
        /\ sinceAttempt \in 0..ProbeInterval
        /\ quiet \in 0..QuietCap
        /\ sinceSafe \in 0..DwellC2A
    BY <1>1 DEF TypeOK
  <2>2. /\ dwell' = More(dwell, DwellCap)
        /\ sinceAttempt' = More(sinceAttempt, ProbeInterval)
        /\ quiet' = More(quiet, QuietCap)
        /\ sinceSafe' \in {0, More(sinceSafe, DwellC2A)}
    BY DEF Tick
  <2>3. More(dwell, DwellCap) \in 0..DwellCap
    BY <1>2, <2>1, CountTypes
  <2>4. More(sinceAttempt, ProbeInterval) \in 0..ProbeInterval
    BY <1>2, <2>1, CountTypes
  <2>5. More(quiet, QuietCap) \in 0..QuietCap
    BY <1>2, <2>1, CountTypes
  <2>6. More(sinceSafe, DwellC2A) \in 0..DwellC2A
    BY <1>2, <2>1, CountTypes
  <2> QED
    BY <1>2, <2>2, <2>3, <2>4, <2>5, <2>6
<1>7. TypeOK'
  BY <1>1, <1>3, <1>4, <1>5, <1>6 DEF TypeOK, Tick, Approval, Veto
<1>8. ClimbMeasured'
  <2>1. dwell' <= dwell + 1
    <3>1. dwell \in 0..DwellCap /\ dwell' = More(dwell, DwellCap)
      BY <1>1 DEF TypeOK, Tick
    <3>2. More(dwell, DwellCap) = IF dwell < DwellCap THEN dwell + 1 ELSE DwellCap
      BY <1>2, <3>1, CountTypes
    <3> QED
      BY <1>2, <3>1, <3>2
  <2>2. state # "SAFE" =>
          sinceSafe' = IF sinceSafe < DwellC2A THEN sinceSafe + 1 ELSE DwellC2A
    BY <1>1, <1>2, CountTypes DEF TypeOK, Tick
  <2>3. state' = state
    BY DEF Tick
  <2>4. dwell \in Int /\ dwell' \in Int /\ sinceSafe \in Int /\ DwellC2A \in Int
    BY <1>1, <1>2, <1>6 DEF TypeOK
  <2> QED
    BY <2>1, <2>2, <2>3, <2>4 DEF IInv, ClimbMeasured
<1>9. ApprovalsWithinCap'
  <2>1. Len(approvals) \in Nat /\ Len(approvals') \in Nat /\ TradeCap \in Nat
    BY <1>1, <1>3, LenProperties, CaptainAssumption DEF TypeOK
  <2> QED
    BY <1>3, <2>1 DEF IInv, ApprovalsWithinCap
<1>10. PendingOnlyWhileRecovering' /\ GrantsPending'
  BY DEF IInv, PendingOnlyWhileRecovering, GrantsPending, Tick
<1> QED
  BY <1>7, <1>8, <1>9, <1>10 DEF IInv

\* Every step preserves the inductive invariant.
LEMMA NextIInv == IInv /\ [Next]_vars => IInv'
<1> SUFFICES ASSUME IInv, [Next]_vars PROVE IInv'
  OBVIOUS
<1> USE DEF TypeOK
<1>t. TypeOK
  BY DEF IInv
<1>1. CASE Step
  BY <1>1, StepIInv
<1>2. ASSUME NEW b \in BOOLEAN, ProbeOutcome(b) PROVE IInv'
  BY <1>2, OutcomeIInv
<1>3. ASSUME NEW b \in BOOLEAN, SetManualLock(b) PROVE IInv'
  BY <1>t, <1>3, WorldIInv DEF SetManualLock
<1>4. ASSUME NEW b \in BOOLEAN, SetManualShutdown(b) PROVE IInv'
  BY <1>t, <1>4, WorldIInv DEF SetManualShutdown
<1>5. CASE ClearManualOverrides
  BY <1>t, <1>5, WorldIInv DEF ClearManualOverrides
<1>6. CASE LossesChange
  BY <1>t, <1>6, WorldIInv DEF LossesChange
<1>7. CASE SessionTurns
  <2>1. session' \in {"pre", "observe", "trade", "closed"}
    BY <1>7 DEF SessionTurns, Sessions
  <2> QED
    BY <1>t, <1>7, <2>1, WorldIInv DEF SessionTurns
<1>8. CASE Tick
  BY <1>8, TickIInv
<1>9. CASE UNCHANGED vars
  BY <1>t, <1>9, WorldIInv DEF vars
<1> QED
  BY <1>1, <1>2, <1>3, <1>4, <1>5, <1>6, <1>7, <1>8, <1>9 DEF Next

-----------------------------------------------------------------------------
(* The theorems.                                                           *)

\* Every reachable state satisfies the inductive invariant.
THEOREM Inductive == Spec => []IInv
<1>1. Init => IInv
  BY InitIInv
<1>2. IInv /\ [Next]_vars => IInv'
  BY NextIInv
<1> QED
  BY <1>1, <1>2, PTL DEF Spec

\* The engine's variables keep their types and bounds (CaptainEngine.__init__
\* and every operation).
THEOREM TypeCorrect == Spec => []TypeOK
<1>1. IInv => TypeOK
  BY DEF IInv
<1> QED
  BY <1>1, Inductive, PTL

\* However cycles and the minute interleave, final_veto and the frequency cap
\* together never hand out more than max_trades_per_minute trades a minute.
THEOREM CapHolds == Spec => []EmittedWithinCap
<1>1. ASSUME IInv PROVE EmittedWithinCap
  <2> DEFINE emitted == {i \in DOMAIN approvals : approvals[i].kept}
  <2>1. approvals \in Seq(Approval) /\ TradeCap \in Nat /\ Len(approvals) <= TradeCap
    BY <1>1, CaptainAssumption DEF IInv, TypeOK, Approval, ApprovalsWithinCap
  <2>2. Len(approvals) \in Nat /\ DOMAIN approvals = 1..Len(approvals)
    BY <2>1, LenProperties
  <2>3. 1 \in Int /\ Len(approvals) \in Int
    BY <2>2
  <2>4. /\ IsFiniteSet(1..Len(approvals))
        /\ Cardinality(1..Len(approvals)) = IF 1 > Len(approvals) THEN 0
                                            ELSE Len(approvals) - 1 + 1
    BY <2>3, FS_Interval
  <2>5. emitted \in SUBSET (1..Len(approvals))
    BY <2>2
  <2> HIDE DEF emitted
  <2>6. IsFiniteSet(emitted) /\ Cardinality(emitted) <= Cardinality(1..Len(approvals))
    BY <2>4, <2>5, FS_Subset
  <2>7. Cardinality(emitted) \in Nat
    BY <2>6, FS_CardinalityType
  <2>8. Cardinality(emitted) <= TradeCap
    BY <2>1, <2>2, <2>4, <2>6, <2>7
  <2> QED
    BY <2>8 DEF EmittedWithinCap, emitted
<1> QED
  BY <1>1, Inductive, PTL

\* The pending flag of a probe is raised in SAFE and gone in ACTIVE.
THEOREM PendingConfined == Spec => []PendingOnlyWhileRecovering
<1>1. IInv => PendingOnlyWhileRecovering
  BY DEF IInv
<1> QED
  BY <1>1, Inductive, PTL

\* ACTIVE is never closer to SAFE than min_dwell_cautious_to_active_sec.
THEOREM ClimbSlow == Spec => []ClimbTakesTime
<1>1. IInv => ClimbTakesTime
  BY DEF IInv, ClimbMeasured, ClimbTakesTime
<1> QED
  BY <1>1, Inductive, PTL

\* With max_trades_per_minute at its default or lower, one probe goes out per
\* grant, because the frequency cap counts the cycle's approvals twice.
THEOREM OneProbe ==
  ASSUME TradeCap <= 3
  PROVE  Spec => []OneProbePerGrant
<1>1. IInv => OneProbePerGrant
  BY DEF IInv, GrantsPending, OneProbePerGrant
<1> QED
  BY <1>1, Inductive, PTL

\* Nothing but the time that passes shortens a forced SAFE period.
THEOREM ForcedStands == Spec => ForcedNeverShortened
<1>1. ASSUME IInv, [Next]_vars PROVE [forced' < forced => Tick]_vars
  <2>1. TypeOK /\ forced \in 0..VetoSafe /\ TypeOK' /\ forced' \in Nat
    <3>1. IInv'
      BY <1>1, NextIInv
    <3> QED
      BY <1>1, <3>1 DEF IInv, TypeOK
  <2> SUFFICES ASSUME vars' # vars, ~Tick PROVE forced' >= forced
    BY <2>1
  <2>2. VetoSafe \in Nat /\ ProbeFailSafe = VetoSafe
    BY CaptainAssumption
  <2>3. CASE Step
    <3>1. PICK in \in StepInputs, to \in States, shown \in States,
               allow \in BOOLEAN, probe \in BOOLEAN :
             /\ Conclude(in, to, shown, allow, probe)
             /\ allow \/ to # state => ~Barred(in)
             /\ ClimbOrFall(to)
             /\ probe => state = "SAFE" /\ to = "SAFE" /\ ~probePending
      BY <2>1, <2>3, StepShape
    <3>2. ForcedNow(in) >= forced /\ ForcedNow(in) \in 0..VetoSafe
      BY <2>1, ForcedNowType
    <3>3. \/ forced' = VetoSafe
          \/ forced' = ForcedNow(in)
          \/ forced' = 0 /\ Recovered(to)
      BY <3>1 DEF Conclude
    <3>4. Recovered(to) => forced = 0
      <4>1. Recovered(to) => ~(ForcedNow(in) > 0)
        BY <3>1 DEF Recovered, Entering, Barred
      <4> QED
        BY <2>1, <2>2, <3>2, <4>1
    <3> QED
      BY <2>1, <2>2, <3>2, <3>3, <3>4
  <2>4. ASSUME NEW b \in BOOLEAN, ProbeOutcome(b) PROVE forced' >= forced
    BY <2>1, <2>2, <2>4 DEF ProbeOutcome
  <2>5. CASE UNCHANGED engine
    BY <2>1, <2>5 DEF engine
  <2> QED
    BY <1>1, <2>3, <2>4, <2>5
       DEF Next, SetManualLock, SetManualShutdown, ClearManualOverrides, LossesChange,
           SessionTurns
<1> QED
  BY <1>1, Inductive, PTL DEF Spec, ForcedNeverShortened

\* A cycle that trades found no forced SAFE, override, cooldown or unresolved
\* probe in its way: every path of the decision chain that allows trading has
\* passed every gate.
THEOREM BrakesReleased == Spec => TradesFindBrakesReleased
<1> DEFINE Released ==
             /\ forced = 0 /\ ~manualLock /\ ~manualShutdown /\ cooldown' = 0
             /\ result'.probe => ~probePending /\ grant = 0
<1>1. ASSUME IInv, [Next]_vars
      PROVE  [Len(approvals') > Len(approvals) => Released]_vars
  <2> SUFFICES ASSUME vars' # vars, Len(approvals') > Len(approvals) PROVE Released
    OBVIOUS
  <2>1. TypeOK /\ forced \in 0..VetoSafe /\ VetoSafe \in Nat
    BY <1>1, CaptainAssumption DEF IInv, TypeOK
  <2>2. Len(approvals) \in Nat /\ grant \in Nat /\ (grant > 0 => probePending)
    BY <1>1, LenProperties DEF IInv, TypeOK, GrantsPending
  <2>3. CASE Step
    <3>1. PICK in \in StepInputs, to \in States, shown \in States,
               allow \in BOOLEAN, probe \in BOOLEAN :
             /\ Conclude(in, to, shown, allow, probe)
             /\ allow \/ to # state => ~Barred(in)
             /\ ClimbOrFall(to)
             /\ probe => state = "SAFE" /\ to = "SAFE" /\ ~probePending
      BY <2>1, <2>3, StepShape
    <3>2. Len(approvals') = Len(approvals) + Passed(in, shown, allow, probe)
      BY <2>1, <3>1, ConcludeLogs
    <3>3. Tradable(in, shown, allow, probe)
      BY <2>2, <3>2 DEF Passed
    <3>4. allow /\ CooldownNow = 0
      BY <3>3 DEF Tradable
    <3>5. ~manualLock /\ ~manualShutdown /\ ~(ForcedNow(in) > 0)
      BY <3>1, <3>4 DEF Barred
    <3>6. forced = 0
      <4>1. ForcedNow(in) \in 0..VetoSafe /\ ForcedNow(in) >= forced
        BY <2>1, ForcedNowType
      <4> QED
        BY <2>1, <3>5, <4>1
    <3>7. cooldown' = 0
      BY <3>1, <3>4 DEF Conclude
    <3>8. result'.probe = probe
      BY <3>1 DEF Conclude
    <3>9. probe => ~probePending /\ grant = 0
      BY <2>2, <3>1
    <3> QED
      BY <3>5, <3>6, <3>7, <3>8, <3>9
  <2>4. CASE Tick
    <3>1. Len(approvals') <= Len(approvals) /\ Len(approvals') \in Nat
      BY <2>1, <2>4, ApprovalsAge, LenProperties
    <3> QED
      BY <2>2, <3>1
  <2>5. CASE approvals' = approvals
    BY <2>2, <2>5
  <2> QED
    BY <1>1, <2>3, <2>4, <2>5
       DEF Next, ProbeOutcome, SetManualLock, SetManualShutdown, ClearManualOverrides,
           LossesChange, SessionTurns, engine
<1> QED
  BY <1>1, Inductive, PTL DEF Spec, TradesFindBrakesReleased

\* Before 09:30 of the day the process was started in, a cycle either stops at
\* a gate or stays in OBSERVE, and an engine that is not ACTIVE, CAUTIOUS or
\* SAFE keeps no approval.  It takes a process started before the open, with a
\* MarketState that has not been further than OBSERVE, and no second day: only
\* midnight brings the clock back before the window.
THEOREM WarmupHolds ==
  ASSUME Seeds \subseteq {"BOOT", "OBSERVE"}, ~Overnight
  PROVE  Spec => []NoTradeBeforeWindow
<1>1. Init => NoTradeBeforeWindow
  BY DEF Init, NoTradeBeforeWindow, NoResult
<1>2. ASSUME TypeOK, NoTradeBeforeWindow, [Next]_vars
      PROVE  NoTradeBeforeWindow'
  <2>1. CASE Step
    <3> SUFFICES ASSUME session \in {"pre", "observe"}
                 PROVE  state' \in {"BOOT", "OBSERVE"} /\ result'.kept = 0
      <4>1. PICK in \in StepInputs, to \in States, shown \in States,
                 allow \in BOOLEAN, probe \in BOOLEAN :
               Conclude(in, to, shown, allow, probe)
        BY <1>2, <2>1, StepShape
      <4>2. session' = session
        BY <4>1 DEF Conclude
      <4> QED
        BY <4>2 DEF NoTradeBeforeWindow
    <3>1. state \in {"BOOT", "OBSERVE"}
      BY <1>2 DEF NoTradeBeforeWindow
    <3>2. PICK in \in StepInputs :
             \/ StepBarred(in) \/ StepWarmup(in) \/ StepActive(in)
             \/ StepCautious(in) \/ StepSafe(in) \/ StepStuck(in)
      BY <2>1 DEF Step
    <3>3. PICK to \in {"BOOT", "OBSERVE"}, shown \in States :
             Conclude(in, to, shown, FALSE, FALSE)
      <4>1. CASE StepBarred(in)
        <5>1. BarrierShown(in) \in States
          BY <1>2 DEF BarrierShown, TypeOK, InHours, States
        <5> QED
          BY <3>1, <4>1, <5>1 DEF StepBarred
      <4>2. CASE StepWarmup(in)
        <5>1. ~WindowOpen /\ "OBSERVE" \in States
          BY DEF WindowOpen, States
        <5> QED
          BY <4>2, <5>1 DEF StepWarmup
      <4> QED
        BY <3>1, <3>2, <4>1, <4>2 DEF StepActive, StepCautious, StepSafe, StepStuck
    <3>4. Passed(in, shown, FALSE, FALSE) = 0
      BY DEF Passed, Tradable
    <3>5. Kept(0) = 0
      <4>1. Kept(0) \in 0..0
        BY <1>2, <3>4, CycleCounts
      <4> QED
        BY <4>1
    <3> QED
      BY <3>3, <3>4, <3>5 DEF Conclude
  <2>2. CASE SessionTurns
    <3>1. session' \in {"pre", "observe"} => session = "pre"
      BY <2>2 DEF SessionTurns, Sessions
    <3> QED
      BY <1>2, <2>2, <3>1 DEF SessionTurns, NoTradeBeforeWindow, engine
  <2>3. CASE UNCHANGED <<session, state, result>>
    BY <1>2, <2>3 DEF NoTradeBeforeWindow
  <2> QED
    BY <1>2, <2>1, <2>2, <2>3
       DEF Next, ProbeOutcome, SetManualLock, SetManualShutdown, ClearManualOverrides,
           LossesChange, Tick, engine, vars
<1> QED
  BY <1>1, <1>2, TypeCorrect, PTL DEF Spec

=============================================================================
