-------------------------- MODULE BrokerDataProofs --------------------------
(***************************************************************************)
(* The components that ask the broker for data and live with its failures: *)
(* the poller of option chains, the downloader of past candles, H, and the *)
(* session both call the broker with, A.  They share no state.             *)
(*                                                                         *)
(* Of the poller, for any legs, prices, limits and periods: the changes of *)
(* a chain have one base, and the breaker rests in time.  Neither is       *)
(* inductive.  That the base of the poll under way is the spot of the last *)
(* chain needs that the spot remembered is the one of that chain, whatever *)
(* the polls before came to (Remembered, Based).  That no poll is one too  *)
(* many needs that the count of the failures in a row is not behind the    *)
(* polls that asked in vain, and that at the limit the breaker rests       *)
(* already (Counting, Tripped); while a poll is under way it does not      *)
(* (AtWork).                                                               *)
(*                                                                         *)
(* Of the downloader, for every calendar, range, limit and answer of the   *)
(* broker: a file it would use is not replaced by one it would not use,    *)
(* and the checkpoint passes over no day, and goes with no day, that has   *)
(* no file or one with some rows and too many gaps.  Then no file on the   *)
(* disk is such a one, the older ones included (Stored); and what a step   *)
(* may do to a file depends on what was decided                            *)
(* steps before: the strengthening says what each place of the loop still  *)
(* knows of the answer (Chosen), of the day's file (Written) and of the    *)
(* checkpoint on the disk (Resumed).                                       *)
(*                                                                         *)
(* Of the session, for any number of threads, attempts, sessions and       *)
(* calls: no thread waits for a lock that waits for it, and no session is  *)
(* replaced that was not old.  Both follow from where a thread must be to  *)
(* hold which lock (Locked).  The lock is not reentrant, and a refresh     *)
(* that fails calls authenticate while it holds it: that authenticate      *)
(* never gets to the lock, because it finds the session the refresh set    *)
(* out from (Serving), which nobody can drop without the lock.             *)
(***************************************************************************)
EXTENDS OptionPoller, HistoryAnswers, SessionLocks, TLAPS

\* The downloader: the call under way, and the day it is at.
VARIABLES completed, range, skip, recent, todo, day, answer, failed, pc, calls

H == INSTANCE HistoryDownload

\* The session: how often a login is tried, and what the broker has granted.
CONSTANTS MaxAttempts, MaxSessions, MaxCalls
VARIABLES granted, sessionCalls, renewed

A == INSTANCE AuthSession WITH calls <- sessionCalls

-----------------------------------------------------------------------------
(* The poller.                                                             *)

Polling == {"expiry", "api", "submit", "collect", "build"}

Remembered == prevSpot = current.spot
Based == phase \in Polling => base = previous.spot
AtWork == phase \in Polling => resting = 0
Counting == storm <= failures
Tripped == storm < FailLimit \/ (storm = FailLimit /\ resting > 0)

IInv == TypeOK /\ Remembered /\ Based /\ AtWork /\ Counting /\ Tripped

\* The limits, one by one.
LEMMA Limits ==
    /\ FailLimit \in Nat /\ FailLimit > 0
    /\ Rest \in Nat /\ Rest > 0
    /\ FreshTurns \in Nat /\ FreshTurns > 0
    /\ MostFailures \in Nat /\ MostFailures = FailLimit + 1
  BY OptionAssumption DEF MostFailures

\* A count stays within its limit, and grows by one below it.
LEMMA Count ==
    ASSUME NEW limit \in Nat, NEW n \in 0..limit
    PROVE  /\ Counted(n, limit) \in 0..limit
           /\ Counted(n, limit) = n + 1 \/ (n = limit /\ Counted(n, limit) = limit)
  BY DEF Counted

LEMMA Initially == Init => IInv
  <1> SUFFICES ASSUME Init PROVE IInv
    OBVIOUS
  <1>1. TypeOK
    <2>1. NoChain \in Chain
      BY DEF NoChain, Chain
    <2>2. Untouched \in [Legs -> Tasks]
      BY DEF Untouched, Tasks
    <2>3. /\ 0 \in 0..MostFailures /\ 0 \in 0..Rest /\ 0 \in Nat
          /\ FreshTurns \in 0..FreshTurns
      BY Limits
    <2> QED
      BY <2>1, <2>2, <2>3 DEF Init, TypeOK, Phases
  <1>2. Remembered /\ Based /\ AtWork
    BY DEF Init, Remembered, Based, AtWork, Polling, NoChain
  <1>3. Counting /\ Tripped
    BY Limits DEF Init, Counting, Tripped
  <1> QED
    BY <1>1, <1>2, <1>3 DEF IInv

-----------------------------------------------------------------------------
(* The loop.                                                               *)

LEMMA Turns == IInv /\ Turn => IInv'
  <1> SUFFICES ASSUME IInv, Turn PROVE IInv'
    OBVIOUS
  <1>1. resting \in 0..Rest /\ storm \in Nat /\ failures \in 0..MostFailures
    BY DEF IInv, TypeOK
  <1>2. /\ resting' \in 0..Rest
        /\ storm' \in Nat /\ storm' <= storm
        /\ storm' < FailLimit \/ (storm' = FailLimit /\ resting' > 0)
    BY <1>1, Limits DEF Turn, IInv, Tripped
  <1>3. /\ optionAge' \in 0..FreshTurns /\ polledAge' \in 0..FreshTurns
    BY Limits, Count DEF Turn, IInv, TypeOK
  <1>4. phase' \in {"wait", "enter"} /\ spot' \in {0} \cup Prices
    BY DEF Turn, IInv, TypeOK
  <1>5. TypeOK'
    BY <1>2, <1>3, <1>4 DEF Turn, IInv, TypeOK, Phases
  <1>6. Remembered' /\ Based' /\ AtWork'
    BY <1>4 DEF Turn, IInv, Remembered, Based, AtWork, Polling
  <1>7. Counting'
    BY <1>1, <1>2, Limits DEF Turn, IInv, Counting
  <1>8. Tripped'
    BY <1>2 DEF Tripped
  <1> QED
    BY <1>5, <1>6, <1>7, <1>8 DEF IInv

LEMMA Returns == IInv /\ Return => IInv'
  <1> SUFFICES ASSUME IInv, Return PROVE IInv'
    OBVIOUS
  <1>1. optionAge' \in 0..FreshTurns
    BY Limits DEF Return, IInv, TypeOK
  <1>2. TypeOK'
    BY <1>1 DEF Return, IInv, TypeOK, Phases
  <1>3. Remembered' /\ Based' /\ AtWork' /\ Counting' /\ Tripped'
    BY DEF Return, IInv, Remembered, Based, AtWork, Polling, Counting, Tripped
  <1> QED
    BY <1>2, <1>3 DEF IInv

-----------------------------------------------------------------------------
(* A poll.                                                                 *)

LEMMA Enters == IInv /\ Enter => IInv'
  <1> SUFFICES ASSUME IInv, Enter PROVE IInv'
    OBVIOUS
  <1>1. TypeOK'
    BY DEF Enter, IInv, TypeOK, Phases, ages
  <1>2. Based'
    BY DEF Enter, IInv, Remembered, Based, Polling
  <1>3. AtWork'
    BY DEF Enter, AtWork, Polling
  <1>4. Remembered' /\ Counting' /\ Tripped'
    BY DEF Enter, IInv, Remembered, Counting, Tripped
  <1> QED
    BY <1>1, <1>2, <1>3, <1>4 DEF IInv

\* Giving up counts a failure, and leaves the chain and the breaker alone.
LEMMA Given ==
    ASSUME IInv, GiveUp, UNCHANGED <<storm, resting>>
    PROVE  /\ failures' \in 0..MostFailures /\ phase' = "return"
           /\ Counting' /\ Tripped'
  <1>1. storm \in Nat /\ failures \in 0..MostFailures
    BY DEF IInv, TypeOK
  <1>2. /\ failures' \in 0..MostFailures
        /\ failures' = failures + 1 \/ (failures = MostFailures /\ failures' = failures)
    BY <1>1, Limits, Count DEF GiveUp
  <1>3. Counting'
    BY <1>1, <1>2, Limits DEF IInv, Counting
  <1> QED
    BY <1>2, <1>3 DEF GiveUp, IInv, Tripped

LEMMA Asks == IInv /\ (AskExpiry \/ AskApi) => IInv'
  <1> SUFFICES ASSUME IInv, AskExpiry \/ AskApi PROVE IInv'
    OBVIOUS
  <1> USE DEF ages
  <1>1. UNCHANGED <<spot, base, current, previous, storm, world, prevSpot, resting,
  ages>>
    BY DEF AskExpiry, AskApi
  <1>2. phase \in Polling
    BY DEF AskExpiry, AskApi, Polling
  <1>3. steady' \in BOOLEAN /\ task' \in [Legs -> Tasks]
    <2>1. Untouched \in [Legs -> Tasks]
      BY DEF Untouched, Tasks
    <2> QED
      BY <2>1 DEF AskExpiry, AskApi, IInv, TypeOK
  <1>4. /\ failures' \in 0..MostFailures /\ phase' \in Phases
        /\ Counting' /\ Tripped'
    <2>1. CASE GiveUp
      BY <2>1, <1>1, Given DEF Phases
    <2>2. CASE UNCHANGED failures /\ phase' \in {"api", "submit"}
      BY <2>2, <1>1 DEF IInv, TypeOK, Phases, Counting, Tripped
    <2> QED
      BY <2>1, <2>2 DEF AskExpiry, AskApi
  <1>5. TypeOK'
    BY <1>1, <1>3, <1>4 DEF IInv, TypeOK
  <1>6. Remembered' /\ Based' /\ AtWork'
    BY <1>1, <1>2 DEF IInv, Remembered, Based, AtWork
  <1> QED
    BY <1>4, <1>5, <1>6 DEF IInv

\* While quotes are fetched only the thread's place and the quotes change.
LEMMA Fetches ==
    ASSUME IInv, UNCHANGED fetching, task' \in [Legs -> Tasks],
           phase \in Polling, phase' \in Polling
    PROVE  IInv'
  <1> USE DEF fetching, ages
  <1>1. TypeOK'
    BY DEF IInv, TypeOK, Phases, Polling
  <1>2. Remembered' /\ Based' /\ AtWork' /\ Counting' /\ Tripped'
    BY DEF IInv, Remembered, Based, AtWork, Counting, Tripped
  <1> QED
    BY <1>1, <1>2 DEF IInv

LEMMA Quotes ==
    ASSUME IInv, NEW leg \in Legs,
           Submit(leg) \/ Collect(leg) \/ Take(leg) \/ Answer(leg)
    PROVE  IInv'
  <1>1. PICK to \in Tasks : task' = [task EXCEPT ![leg] = to]
    <2>1. CASE Submit(leg)
      BY <2>1 DEF Submit, Tasks
    <2>2. CASE Collect(leg)
      BY <2>2 DEF Collect, Tasks, IInv, TypeOK
    <2>3. CASE Take(leg)
      BY <2>3 DEF Take, Tasks
    <2>4. CASE Answer(leg)
      BY <2>4 DEF Answer, Tasks
    <2> QED
      BY <2>1, <2>2, <2>3, <2>4
  <1>2. task' \in [Legs -> Tasks]
    BY <1>1 DEF IInv, TypeOK
  <1>3. UNCHANGED fetching /\ phase \in Polling /\ phase' = phase
    BY DEF Submit, Collect, Take, Answer, Polling
  <1> QED
    BY <1>2, <1>3, Fetches

LEMMA Collects == IInv /\ (Submitted \/ Collected \/ BudgetEnds) => IInv'
  <1> SUFFICES ASSUME IInv, Submitted \/ Collected \/ BudgetEnds PROVE IInv'
    OBVIOUS
  <1>1. task' \in [Legs -> Tasks]
    BY DEF Submitted, Collected, BudgetEnds, IInv, TypeOK, Tasks
  <1>2. UNCHANGED fetching /\ phase \in Polling /\ phase' \in Polling
    BY DEF Submitted, Collected, BudgetEnds, Polling
  <1> QED
    BY <1>1, <1>2, Fetches

-----------------------------------------------------------------------------
(* The end of a poll.                                                      *)

\* A failed poll is counted, and the one at the limit trips the breaker.
LEMMA Fails ==
    ASSUME IInv, FailedPoll, phase = "build"
    PROVE  /\ failures' \in 0..MostFailures /\ storm' \in Nat /\ resting' \in 0..Rest
           /\ Counting' /\ Tripped'
  <1>1. /\ storm \in Nat /\ failures \in 0..MostFailures /\ resting \in 0..Rest
        /\ resting = 0
    BY DEF IInv, TypeOK, AtWork, Polling
  <1>2. storm < FailLimit
    BY <1>1 DEF IInv, Tripped
  <1>3. /\ failures' \in 0..MostFailures
        /\ failures' = failures + 1 \/ (failures = MostFailures /\ failures' = failures)
    BY <1>1, Limits, Count DEF FailedPoll
  <1>4. storm' = storm + 1
    BY DEF FailedPoll
  <1>5. Counting'
    BY <1>1, <1>2, <1>3, <1>4, Limits DEF IInv, Counting
  <1>6. /\ resting' = IF failures' >= FailLimit THEN Rest ELSE resting
    BY DEF FailedPoll, Trips
  <1>7. Tripped'
    BY <1>1, <1>2, <1>3, <1>4, <1>5, <1>6, Limits DEF Tripped, Counting
  <1> QED
    BY <1>1, <1>3, <1>4, <1>5, <1>6, <1>7, Limits

LEMMA Publishes == IInv /\ Publish => IInv'
  <1> SUFFICES ASSUME IInv, Publish PROVE IInv'
    OBVIOUS
  <1>1. /\ failures' \in 0..MostFailures /\ storm' \in Nat /\ resting' \in 0..Rest
        /\ Counting' /\ Tripped'
    <2>1. CASE FailedPoll
      BY <2>1, Fails DEF Publish
    <2>2. CASE GoodPoll
      BY <2>2, Limits DEF GoodPoll, IInv, TypeOK, Counting, Tripped
    <2> QED
      BY <2>1, <2>2 DEF Publish
  <1>2. current' \in Chain
    BY DEF Publish, IInv, TypeOK, Chain, Are
  <1>3. polledAge' \in 0..FreshTurns
    BY Limits DEF Publish
  <1>4. TypeOK'
    BY <1>1, <1>2, <1>3 DEF Publish, IInv, TypeOK, Phases
  <1>5. Remembered' /\ Based' /\ AtWork'
    BY DEF Publish, Remembered, Based, AtWork, Polling
  <1> QED
    BY <1>1, <1>4, <1>5 DEF IInv

LEMMA Crashes == IInv /\ Raises => IInv'
  <1> SUFFICES ASSUME IInv, Raises PROVE IInv'
    OBVIOUS
  <1>1. /\ failures' \in 0..MostFailures /\ storm' \in Nat /\ resting' \in 0..Rest
        /\ Counting' /\ Tripped'
    BY Fails DEF Raises
  <1>2. TypeOK'
    BY <1>1 DEF Raises, IInv, TypeOK, Phases, ages
  <1>3. Remembered' /\ Based' /\ AtWork'
    BY DEF Raises, IInv, Remembered, Based, AtWork, Polling
  <1> QED
    BY <1>1, <1>2, <1>3 DEF IInv

-----------------------------------------------------------------------------

LEMMA Inductive == IInv /\ [Next]_vars => IInv'
  <1> SUFFICES ASSUME IInv, [Next]_vars PROVE IInv'
    OBVIOUS
  <1>1. CASE Poller
    BY <1>1, Turns, Returns, Enters, Asks, Quotes, Collects, Publishes,
       Crashes DEF Poller
  <1>2. CASE Executor
    BY <1>2, Quotes DEF Executor
  <1>3. CASE WorldChanges
    BY <1>3 DEF WorldChanges, poll, ages, IInv, TypeOK, Remembered, Based, AtWork,
                Counting, Tripped
  <1>4. CASE UNCHANGED vars
    BY <1>4 DEF vars, poll, ages, IInv, TypeOK, Remembered, Based, AtWork, Counting,
                Tripped
  <1> QED
    BY <1>1, <1>2, <1>3, <1>4 DEF Next

\* The invariant the theorems below are read off.
THEOREM Invariant == Spec => []IInv
  BY Initially, Inductive, PTL DEF Spec

\* Every variable keeps its type: no count leaves its range, however long the
\* broker fails.
THEOREM TypeCorrect == Spec => []TypeOK
<1>1. IInv => TypeOK
  BY DEF IInv
<1> QED
  BY <1>1, Invariant, PTL

\* poll(): spot_change and the OI change are measured from the same poll.
THEOREM OneBase == Spec => []ChangesShareBase
<1>1. IInv => ChangesShareBase
  BY DEF IInv, Based, Polling, ChangesShareBase
<1> QED
  BY <1>1, Invariant, PTL

\* _maybe_trip_circuit_breaker: at most FailLimit polls in a row ask in vain.
THEOREM RestsInTime == Spec => []BreakerRests
<1>1. IInv => BreakerRests
  BY Limits DEF IInv, TypeOK, Tripped, BreakerRests
<1> QED
  BY <1>1, Invariant, PTL

-----------------------------------------------------------------------------
(* The downloader.                                                         *)

\* The answer that is about to be saved was neither rejected nor left aside.
Chosen == pc = "save" => ~H!Rejected(answer) /\ ~H!Kept(day, answer)

\* The day that is about to be marked has its file.
Written == pc \in {"meta", "mark"} /\ day \in TradingDays => rows[day] # H!NoFile

\* Every file on the disk was one to save when it was written.
Stored == \A d \in H!Days : rows[d] # H!NoFile => H!Filed(rows[d])

\* The loop runs over one of the ranges, and is at one of its days.
Underway ==
    /\ pc # "idle" => range \in Ranges
    /\ pc \in {"call", "save", "meta", "mark"} => day \in range
    /\ completed \subseteq range

\* What this call counts as done is on the disk, unless a write failed.
Resumed ==
    /\ \A d \in completed \cap TradingDays : rows[d] # H!NoFile
    /\ pc # "idle" /\ ~failed /\ completed # {} => progress.range = range

\* What the checkpoint on the disk counts as done.
Listed ==
    /\ \A d \in progress.completed \cap TradingDays : rows[d] # H!NoFile
    /\ progress.completed \subseteq progress.range

DownloadIInv ==
    H!TypeOK /\ Listed /\ Chosen /\ Written /\ Stored /\ Underway /\ Resumed

-----------------------------------------------------------------------------
(* What the broker sends.                                                  *)

\* An answer that is not rejected has no rows, or not too many gaps.
LEMMA SavedIsFiled ==
    ASSUME NEW a \in Answers \cup {H!NoAnswer}, ~H!Rejected(a)
    PROVE  a.valid \in 0..Expected /\ a.valid # H!NoFile /\ H!Filed(a.valid)
  <1>1. a.valid \in 0..Expected
    BY LimitsAssumption, AnswersAssumption DEF H!NoAnswer
  <1> QED
    BY <1>1, LimitsAssumption DEF H!Rejected, H!Gaps, H!Filed, H!Gapless, H!NoFile

\* An answer that replaces a usable file is full.
LEMMA SavedOverUsableIsFull ==
    ASSUME NEW a, NEW d, ~H!Rejected(a), ~H!Kept(d, a), H!Usable(d)
    PROVE  H!Full(a.valid)
  BY DEF H!Kept, H!Degraded

-----------------------------------------------------------------------------
(* Types.                                                                  *)

LEMMA DownloadInitially == H!Init => DownloadIInv
  <1> SUFFICES ASSUME H!Init PROVE DownloadIInv
    OBVIOUS
  <1>1. H!TypeOK
    <2>1. 0 \in 0..Downloads
      BY LimitsAssumption
    <2>2. {rows, meta} \subseteq [H!Days -> {H!NoFile} \cup 0..Expected]
      BY DEF H!Init
    <2> QED
      BY <2>1, <2>2 DEF H!Init, H!TypeOK, H!NoProgress
  <1> QED
    BY <1>1 DEF H!Init, DownloadIInv, Listed, Chosen, Written, Stored, Underway,
                Resumed, H!NoProgress

LEMMA StoppedTyped ==
    ASSUME H!Stopped
    PROVE  /\ completed' = {} /\ todo' = {} /\ range' = {} /\ day' = 0
           /\ skip' = FALSE /\ recent' = FALSE /\ failed' = FALSE
           /\ answer' = H!NoAnswer /\ pc' = "idle"
  BY DEF H!Stopped

LEMMA DownloadTypeStep == ASSUME H!TypeOK, Underway, [H!Next]_(H!vars) PROVE H!TypeOK'
  <1> USE LimitsAssumption, AnswersAssumption DEF H!Days, H!disk, H!arguments
  <1>1. CASE H!Begin
    <2>1. calls' \in 0..Downloads
      BY <1>1 DEF H!Begin, H!TypeOK
    <2>2. completed' \subseteq H!Days
      BY <1>1 DEF H!Begin, H!TypeOK
    <2>3. todo' \subseteq range' /\ range' \in Ranges
      BY <1>1 DEF H!Begin
    <2> QED
      BY <1>1, <2>1, <2>2, <2>3, Zenon DEF H!Begin, H!TypeOK
  <1>2. CASE H!TakeDay
    <2>1. PICK d \in todo : day' = d /\ todo' = todo \ {d} /\ pc' \in {"day", "mark",
    "call"}
      BY <1>2 DEF H!TakeDay
    <2>2. d \in H!Days
      BY <2>1 DEF H!TypeOK
    <2> QED
      BY <1>2, <2>1, <2>2 DEF H!TakeDay, H!TypeOK
  <1>3. CASE H!Fetch
    BY <1>3 DEF H!Fetch, H!GiveUp, H!TypeOK
  <1>4. CASE H!Save
    <2>1. answer.valid \in 0..Expected
      BY DEF H!TypeOK, H!NoAnswer
    <2>2. rows' \in [H!Days -> {H!NoFile} \cup 0..Expected]
      BY <1>4, <2>1 DEF H!Save, H!TypeOK
    <2> QED
      BY <1>4, <2>2 DEF H!Save, H!GiveUp, H!TypeOK
  <1>5. CASE H!WriteMeta
    <2>1. answer.valid \in 0..Expected
      BY DEF H!TypeOK, H!NoAnswer
    <2>2. meta' \in [H!Days -> {H!NoFile} \cup 0..Expected]
      BY <1>5, <2>1 DEF H!WriteMeta, H!TypeOK
    <2> QED
      BY <1>5, <2>2 DEF H!WriteMeta, H!TypeOK
  <1>6. CASE H!Mark
    <2>1. day \in H!Days /\ range \in Ranges
      BY <1>6 DEF H!Mark, H!TypeOK, Underway
    <2>2. completed' \in SUBSET H!Days
      BY <1>6, <2>1 DEF H!Mark, H!TypeOK
    <2>3. progress' \in [range : Ranges \cup {{}}, completed : SUBSET H!Days]
      BY <1>6, <2>1, <2>2 DEF H!Mark, H!TypeOK
    <2> QED
      BY <1>6, <2>2, <2>3 DEF H!Mark, H!GiveUp, H!TypeOK
  <1>7. CASE H!Finish
    BY <1>7, StoppedTyped DEF H!Finish, H!NoProgress, H!TypeOK
  <1>8. CASE H!Kill
    BY <1>8, StoppedTyped DEF H!Kill, H!TypeOK
  <1>9. CASE UNCHANGED H!vars
    BY <1>9 DEF H!vars, H!TypeOK
  <1> QED
    BY <1>1, <1>2, <1>3, <1>4, <1>5, <1>6, <1>7, <1>8, <1>9 DEF H!Next

-----------------------------------------------------------------------------
(* The invariant is inductive: one lemma for each action that moves what   *)
(* the others rely on.                                                     *)

LEMMA BeginStep == ASSUME DownloadIInv, H!Begin PROVE DownloadIInv'
  <1>1. H!TypeOK'
    BY DownloadTypeStep DEF DownloadIInv, H!Next
  <1>2. Listed' /\ Chosen' /\ Written' /\ Stored'
    BY DEF DownloadIInv, H!Begin, H!disk, Listed, Chosen, Written, Stored, H!Days
  <1>3. Underway'
    BY DEF DownloadIInv, H!Begin, H!disk, Listed, Underway
  <1>4. Resumed'
    BY DEF DownloadIInv, H!Begin, H!disk, Listed, Resumed
  <1> QED
    BY <1>1, <1>2, <1>3, <1>4 DEF DownloadIInv

LEMMA TakeDayStep == ASSUME DownloadIInv, H!TakeDay PROVE DownloadIInv'
  <1>1. H!TypeOK'
    BY DownloadTypeStep DEF DownloadIInv, H!Next
  <1>2. PICK d \in todo : /\ day' = d
                         /\ pc' = IF d \in completed THEN "day"
                                  ELSE IF H!Settled(d) THEN "mark" ELSE "call"
    BY DEF H!TakeDay
  <1>3. Listed' /\ Chosen' /\ Stored' /\ Resumed'
    BY <1>2 DEF DownloadIInv, H!TakeDay, H!disk, H!arguments, Listed,
                Chosen, Stored, H!Days, Resumed
  <1>4. Written'
    BY <1>2 DEF H!TakeDay, H!disk, Written, H!Settled, H!Usable, H!Full
  <1>5. Underway'
    BY <1>2 DEF DownloadIInv, H!TakeDay, H!arguments, Underway, H!TypeOK
  <1> QED
    BY <1>1, <1>3, <1>4, <1>5 DEF DownloadIInv

LEMMA FetchStep == ASSUME DownloadIInv, H!Fetch PROVE DownloadIInv'
  <1>1. H!TypeOK'
    BY DownloadTypeStep DEF DownloadIInv, H!Next
  <1>2. Listed' /\ Stored' /\ Underway' /\ Resumed'
    BY DEF DownloadIInv, H!Fetch, H!GiveUp, H!disk, H!arguments, Listed,
           Stored, H!Days, Underway, Resumed
  <1>3. Chosen' /\ Written'
    <2>1. PICK a \in Answers :
            \/ H!Rejected(a) /\ H!GiveUp
            \/ H!Kept(day, a) /\ pc' = "mark"
            \/ /\ ~H!Rejected(a) /\ ~H!Kept(day, a)
               /\ answer' = a /\ pc' = "save"
      BY DEF H!Fetch
    <2>2. rows' = rows /\ meta' = meta /\ day' = day
      BY DEF H!Fetch, H!disk
    <2>3. CASE H!Rejected(a) /\ H!GiveUp
      BY <2>3 DEF H!GiveUp, Chosen, Written
    <2>4. CASE H!Kept(day, a) /\ pc' = "mark"
      BY <2>2, <2>4 DEF H!Kept, H!Usable, H!Full, Chosen, Written
    <2>5. CASE ~H!Rejected(a) /\ ~H!Kept(day, a) /\ answer' = a /\ pc' = "save"
      BY <2>2, <2>5 DEF Chosen, Written, H!Kept, H!Rejected, H!Gaps, H!Degraded,
                        H!Usable, H!Full, H!Near
    <2> QED
      BY <2>1, <2>3, <2>4, <2>5
  <1> QED
    BY <1>1, <1>2, <1>3 DEF DownloadIInv

LEMMA SaveStep == ASSUME DownloadIInv, H!Save PROVE DownloadIInv'
  <1>1. H!TypeOK'
    BY DownloadTypeStep DEF DownloadIInv, H!Next
  <1>2. answer.valid # H!NoFile /\ H!Filed(answer.valid)
    BY SavedIsFiled DEF DownloadIInv, H!TypeOK, Chosen, H!Save, H!NoFile
  <1>3. \A d \in H!Days : rows[d] # H!NoFile => rows'[d] # H!NoFile
    BY <1>2 DEF H!Save, DownloadIInv, H!TypeOK
  <1>4. pc' = "meta" => rows'[day] # H!NoFile
    BY <1>2 DEF H!Save, DownloadIInv, H!TypeOK, Underway, H!Days, H!GiveUp
  <1>5. Listed'
    BY <1>3 DEF DownloadIInv, H!TypeOK, H!Save, Listed
  <1>6. Chosen' /\ Written'
    BY <1>4 DEF H!Save, H!GiveUp, Chosen, Written
  <1>7. Underway'
    BY DEF DownloadIInv, H!Save, H!GiveUp, H!arguments, Underway
  <1>8. Resumed'
    BY <1>3 DEF DownloadIInv, H!TypeOK, H!Save, H!GiveUp, H!arguments, Resumed
  <1>9. Stored'
    BY <1>2 DEF DownloadIInv, H!TypeOK, H!Save, Stored, H!Days
  <1> QED
    BY <1>1, <1>5, <1>6, <1>7, <1>8, <1>9 DEF DownloadIInv

LEMMA WriteMetaStep == ASSUME DownloadIInv, H!WriteMeta PROVE DownloadIInv'
  <1>1. H!TypeOK'
    BY DownloadTypeStep DEF DownloadIInv, H!Next
  <1>2. Listed' /\ Chosen' /\ Written' /\ Stored' /\ Underway' /\ Resumed'
    BY DEF DownloadIInv, H!WriteMeta, H!arguments, Listed, Chosen,
           Written, Stored, H!Days, Underway, Resumed
  <1> QED
    BY <1>1, <1>2 DEF DownloadIInv

LEMMA MarkStep == ASSUME DownloadIInv, H!Mark PROVE DownloadIInv'
  <1>1. H!TypeOK'
    BY DownloadTypeStep DEF DownloadIInv, H!Next
  <1>2. \A d \in completed' \cap TradingDays : rows'[d] # H!NoFile
    BY DEF DownloadIInv, H!Mark, Resumed, Written
  <1>3. completed' \subseteq range'
    BY DEF DownloadIInv, H!Mark, H!arguments, Underway
  <1>4. Listed'
    BY <1>2, <1>3 DEF DownloadIInv, H!Mark, H!arguments, Listed
  <1>5. Chosen' /\ Written' /\ Stored'
    BY DEF DownloadIInv, H!Mark, H!GiveUp, Chosen, Written, Stored, H!Days
  <1>6. Underway'
    BY <1>3 DEF DownloadIInv, H!Mark, H!GiveUp, H!arguments, Underway
  <1>7. Resumed'
    BY <1>2 DEF H!Mark, H!GiveUp, H!arguments, Resumed
  <1> QED
    BY <1>1, <1>4, <1>5, <1>6, <1>7 DEF DownloadIInv

\* A call that ends or is killed leaves no file behind that it had not.
LEMMA StopStep == ASSUME DownloadIInv, H!Finish \/ H!Kill PROVE DownloadIInv'
  <1>1. H!TypeOK'
    BY DownloadTypeStep DEF DownloadIInv, H!Next
  <1>2. Listed' /\ Stored'
    BY DEF DownloadIInv, H!Finish, H!Kill, H!disk, H!NoProgress, Listed, Stored, H!Days
  <1>3. Chosen' /\ Written' /\ Underway' /\ Resumed'
    BY StoppedTyped DEF H!Finish, H!Kill, Chosen, Written, Underway, Resumed
  <1> QED
    BY <1>1, <1>2, <1>3 DEF DownloadIInv

LEMMA DownloadInductive == ASSUME DownloadIInv, [H!Next]_(H!vars) PROVE DownloadIInv'
  <1>1. CASE UNCHANGED H!vars
    BY <1>1 DEF H!vars, H!disk, H!arguments, DownloadIInv, H!TypeOK,
                Listed, Chosen, H!Rejected,
                H!Gaps, H!Kept, H!Degraded, H!Usable, H!Full, H!Near, Written,
                Stored, H!Days, Underway, Resumed
  <1> QED
    BY <1>1, BeginStep, TakeDayStep, FetchStep, SaveStep, WriteMetaStep, MarkStep,
       StopStep
       DEF H!Next

LEMMA DownloadInvariant == H!Spec => []DownloadIInv
  BY DownloadInitially, DownloadInductive, PTL DEF H!Spec

-----------------------------------------------------------------------------
(* The variables hold what TypeOK says.                                    *)
THEOREM DownloadTypes == H!Spec => []H!TypeOK
  <1>1. DownloadIInv => H!TypeOK
    BY DEF DownloadIInv
  <1> QED
    BY <1>1, DownloadInvariant, PTL

(* A day the checkpoint of a range passes over has its file, and one that  *)
(* has rows lacks no more minutes than are allowed                         *)
(* (historical_downloader.py, mark_completed and the skip in the loop).    *)
THEOREM CheckpointFiled == H!Spec => []CheckpointIsFiled
  <1>1. ASSUME DownloadIInv PROVE CheckpointIsFiled
    <2>1. progress.completed \subseteq H!Days
      BY <1>1 DEF DownloadIInv, H!TypeOK
    <2>2. \A d \in progress.completed \cap TradingDays : H!Filed(rows[d])
      BY <1>1, <2>1 DEF DownloadIInv, Listed, Stored
    <2> QED
      BY <1>1, <2>2 DEF DownloadIInv, CheckpointIsFiled, Listed, Filed, Gapless, NoFile,
                        H!Filed, H!Gapless, H!NoFile
  <1> QED
    BY <1>1, DownloadInvariant, PTL

(* What _existing_is_usable accepts is replaced only by a full file,       *)
(* whatever is killed or fails in between.                                 *)
THEOREM UsableKept == H!Spec => UsableIsKept
  <1>1. ASSUME DownloadIInv, [H!Next]_(H!vars)
       PROVE  \A d \in H!Days : H!Usable(d) => H!Full(rows[d])'
    <2>1. ASSUME NEW d \in H!Days, H!Usable(d), rows' = rows PROVE H!Full(rows'[d])
      BY <2>1 DEF H!Usable
    <2>2. CASE H!Save /\ rows' # rows
      <3>1. rows' = [rows EXCEPT ![day] = answer.valid]
        BY <2>2 DEF H!Save
      <3> SUFFICES ASSUME NEW d \in H!Days, H!Usable(d) PROVE H!Full(rows'[d])
        OBVIOUS
      <3>2. CASE d = day
        <4>1. H!Full(answer.valid)
          BY <1>1, <2>2, <3>2, SavedOverUsableIsFull DEF DownloadIInv, Chosen, H!Save
        <4> QED
          BY <1>1, <3>1, <3>2, <4>1 DEF DownloadIInv, H!TypeOK
      <3>3. CASE d # day
        BY <1>1, <3>1, <3>3 DEF DownloadIInv, H!TypeOK, H!Usable
      <3> QED
        BY <3>2, <3>3
    <2>3. ~(H!Save /\ rows' # rows) => rows' = rows
      BY <1>1 DEF H!Next, H!Begin, H!TakeDay, H!Fetch, H!WriteMeta, H!Mark, H!Finish,
                  H!Kill, H!disk, H!vars
    <2> QED
      BY <2>1, <2>2, <2>3
  <1> QED
    <2>1. ASSUME DownloadIInv, [H!Next]_(H!vars)
          PROVE  \A d \in Days : Usable(d) => Full(rows[d])'
      BY <1>1, <2>1 DEF Days, Usable, Full, Near, NoFile, H!Days, H!Usable, H!Full,
                        H!Near, H!NoFile
    <2> QED
      BY <2>1, DownloadInvariant, PTL DEF H!Spec, UsableIsKept

(* A checkpoint is removed only when every day of its range has its file,  *)
(* and one that has rows lacks no more minutes than are allowed            *)
(* (finalize_if_complete).                                                 *)
THEOREM RangeFiled == H!Spec => RangeIsFiled
  <1> DEFINE Gone == progress.range # {} /\ progress'.range = {}
             Present == \A d \in progress.range \cap TradingDays : Filed(rows[d])
  <1>1. ASSUME DownloadIInv, [H!Next]_(H!vars), Gone PROVE Present
    <2>1. H!Finish \/ H!Mark
      BY <1>1 DEF H!Next, H!Begin, H!TakeDay, H!Fetch, H!Save, H!WriteMeta, H!Kill,
                  H!disk, H!vars
    <2>2. CASE H!Mark
      <3>1. range \in Ranges /\ progress' = [range |-> range, completed |-> completed']
        BY <1>1, <2>2 DEF H!Mark, H!GiveUp, DownloadIInv, Underway
      <3> QED
        BY <1>1, <3>1, DaysAssumption
    <2>3. CASE H!Finish
      <3>1. H!Finished /\ range \in Ranges
        BY <1>1, <2>3 DEF H!Finish, DownloadIInv, Underway
      <3>2. completed # {} /\ progress.range = range
        BY <1>1, <2>3, <3>1, DaysAssumption DEF H!Finish, H!Finished, DownloadIInv,
                                                Resumed
      <3>3. \A d \in progress.range \cap TradingDays : d \in H!Days /\ rows[d] # H!NoFile
        BY <1>1, <3>1, <3>2 DEF H!Finished, DownloadIInv, Resumed, H!Days
      <3>4. \A d \in progress.range \cap TradingDays : H!Filed(rows[d])
        BY <1>1, <3>3 DEF DownloadIInv, Stored
      <3> QED
        BY <3>4 DEF Filed, Gapless, NoFile, H!Filed, H!Gapless, H!NoFile
    <2> QED
      BY <2>1, <2>2, <2>3
  <1> QED
    BY <1>1, DownloadInvariant, PTL DEF H!Spec, RangeIsFiled

-----------------------------------------------------------------------------
(* The session.                                                            *)

\* The types, whatever the bounds are.
SessionTyped ==
    /\ held \in Nat /\ granted \in Nat
    /\ old \in BOOLEAN
    /\ authLock \in A!Lock /\ apiLock \in A!Lock
    /\ th \in [Threads -> [pc : A!Places, in : SUBSET {"get", "refresh"}, saw : Nat,
                           attempt : Nat]]

\* The thread has _auth_lock, or _api_lock.
InAuth(t) ==
    \/ th[t].pc \in {"authAgain", "login", "refreshAgain", "exchange", "clear", "apiWait",
                     "terminate"}
    \/ "refresh" \in th[t].in
InApi(t) == th[t].pc \in {"terminate", "call"}

Locked ==
    \A t \in Threads : /\ InAuth(t) => authLock = {t}
                       /\ t \in authLock => InAuth(t)
                       /\ InApi(t) => apiLock = {t}
                       /\ t \in apiLock => InApi(t)

\* What a thread under _auth_lock knows of the session.
Serving ==
    \A t \in Threads :
        /\ "refresh" \in th[t].in => th[t].pc = "auth" /\ held # 0
        /\ th[t].pc = "exchange" => held # 0 /\ old
        /\ th[t].pc = "login" => held = 0

SessionIInv == SessionTyped /\ Locked /\ Serving

-----------------------------------------------------------------------------
LEMMA SessionInitially == A!Init => SessionIInv
  BY DEF A!Init, SessionIInv, SessionTyped, Locked, Serving, InAuth, InApi, A!Idle, A!Lock,
         A!Places

\* Done leaves a thread idle or where get_smart_api goes on, with no method waiting.
LEMMA DoneMoves ==
    ASSUME SessionTyped, NEW t \in Threads, NEW place \in {"aged", "got", "idle"},
           A!Done(t, place)
    PROVE  /\ th' \in [Threads -> [pc : A!Places, in : SUBSET {"get", "refresh"}, saw : Nat,
                                   attempt : Nat]]
           /\ th'[t].pc \in {place, "idle"} /\ th'[t].in = {}
           /\ \A u \in Threads \ {t} : th'[u] = th[u]
  BY DEF A!Done, SessionTyped, A!Idle, A!Places

\* A thread has left the lock's methods; the others are where they were.
Left(t) ==
    /\ th'[t].pc \in {"idle", "aged", "got"} /\ th'[t].in = {}
    /\ \A u \in Threads \ {t} : th'[u] = th[u]

\* So does To, with the methods that wait as they were.
LEMMA ToMoves ==
    ASSUME SessionTyped, NEW t \in Threads, NEW place \in A!Places, A!To(t, place)
    PROVE  /\ th' \in [Threads -> [pc : A!Places, in : SUBSET {"get", "refresh"}, saw : Nat,
                                   attempt : Nat]]
           /\ th'[t].pc = place /\ th'[t].in = th[t].in
           /\ \A u \in Threads \ {t} : th'[u] = th[u]
  BY DEF A!To, SessionTyped

\* Nobody else is under a lock that a thread holds.
LEMMA Alone ==
    ASSUME SessionIInv, NEW t \in Threads, NEW u \in Threads \ {t}
    PROVE  /\ InAuth(t) => ~InAuth(u) /\ u \notin authLock
           /\ InApi(t) => ~InApi(u) /\ u \notin apiLock
  BY DEF SessionIInv, Locked

-----------------------------------------------------------------------------
(* The invariant is inductive: authenticate, refresh_session, and the rest. *)

LEMMA AuthStep ==
    ASSUME SessionIInv, NEW t \in Threads,
           A!Auth(t) \/ A!AuthWait(t) \/ A!AuthAgain(t) \/ A!Login(t)
    PROVE  SessionIInv'
  <1> USE DEF SessionIInv, Locked, Serving, InAuth, InApi
  <1>1. CASE A!Auth(t)
    <2>1. CASE held = 0 /\ A!To(t, "authWait")
      BY <1>1, <2>1, ToMoves DEF A!Auth, A!At, SessionTyped, A!Places, A!Lock
    <2>2. CASE held # 0 /\ "refresh" \notin th[t].in /\ A!Done(t, "aged")
      BY <1>1, <2>2, DoneMoves DEF A!Auth, A!At, SessionTyped, A!Places, A!Lock
    <2>3. CASE held # 0 /\ "refresh" \in th[t].in /\ authLock' = {} /\ A!Done(t, "got")
      BY <1>1, <2>3, DoneMoves DEF A!Auth, A!At, SessionTyped, A!Places, A!Lock
    <2> QED
      BY <1>1, <2>1, <2>2, <2>3 DEF A!Auth
  <1>2. CASE A!AuthWait(t)
    BY <1>2, ToMoves DEF A!AuthWait, A!At, SessionTyped, A!Places, A!Lock
  <1>3. CASE A!AuthAgain(t)
    <2>1. CASE A!LoggedInMeanwhile
      BY <1>3, <2>1, DoneMoves DEF A!AuthAgain, A!Leave, A!At, SessionTyped, A!Places, A!Lock
    <2>2. CASE ~A!LoggedInMeanwhile
      BY <1>3, <2>2 DEF A!AuthAgain, A!LoggedInMeanwhile, A!At, SessionTyped, A!Places, A!Lock
    <2> QED
      BY <2>1, <2>2
  <1>4. CASE A!Login(t)
    <2> InAuth(t) /\ UNCHANGED apiLock
      BY <1>4 DEF A!Login, A!At
    <2>1. CASE /\ A!Leave(t, TRUE) /\ old' = FALSE
               /\ held' = granted + 1 /\ granted' = granted + 1
      <3>1. SessionTyped' /\ Left(t)
        <4>1. A!Done(t, "aged") /\ authLock' = {}
          BY <2>1 DEF A!Leave
        <4>2. held' \in Nat /\ granted' \in Nat
          BY <2>1 DEF SessionTyped
        <4> QED
          BY <2>1, <4>1, <4>2, DoneMoves DEF Left, SessionTyped, A!Lock
      <3> QED
        BY <1>4, <2>1, <3>1, Alone DEF Left, A!Leave, A!Login, A!At
    <2>2. CASE A!Leave(t, FALSE) /\ UNCHANGED <<granted, held, old>>
      <3>1. SessionTyped' /\ Left(t)
        BY <1>4, <2>2, DoneMoves DEF A!Leave, Left, SessionTyped, A!Lock
      <3> QED
        BY <1>4, <2>2, <3>1, Alone DEF Left, A!Leave, A!Login, A!At
    <2>3. CASE /\ th' = [th EXCEPT ![t].attempt = @ + 1]
               /\ UNCHANGED <<granted, held, old, authLock, renewed>>
      BY <1>4, <2>3 DEF A!Login, A!At, SessionTyped, A!Places, A!Lock
    <2> QED
      BY <1>4, <2>1, <2>2, <2>3 DEF A!Login
  <1> QED
    BY <1>1, <1>2, <1>3, <1>4

LEMMA RefreshStep ==
    ASSUME SessionIInv, NEW t \in Threads,
           A!Refresh(t) \/ A!RefreshWait(t) \/ A!RefreshAgain(t) \/ A!Exchange(t)
    PROVE  SessionIInv'
  <1> USE DEF SessionIInv, Locked, Serving, InAuth, InApi
  <1>1. CASE A!Refresh(t)
    BY <1>1, DoneMoves, ToMoves DEF A!Refresh, A!At, SessionTyped, A!Places, A!Lock
  <1>2. CASE A!RefreshWait(t)
    BY <1>2, ToMoves DEF A!RefreshWait, A!At, SessionTyped, A!Places, A!Lock
  <1>3. CASE A!RefreshAgain(t)
    <2>1. CASE A!LeaveRefresh(t)
      BY <1>3, <2>1, DoneMoves DEF A!RefreshAgain, A!LeaveRefresh, A!At, SessionTyped,
                                   A!Places, A!Lock
    <2>2. CASE /\ ~A!RefreshedMeanwhile /\ held # 0 /\ UNCHANGED authLock
               /\ th' = [th EXCEPT ![t].pc = "exchange", ![t].saw = held]
      <3>1. /\ SessionTyped' /\ th'[t].pc = "exchange" /\ th'[t].in = th[t].in
            /\ \A u \in Threads \ {t} : th'[u] = th[u]
        <4>1. /\ th' \in [Threads -> [pc : A!Places, in : SUBSET {"get", "refresh"}, saw : Nat,
                                      attempt : Nat]]
              /\ th'[t].pc = "exchange" /\ th'[t].in = th[t].in
              /\ \A u \in Threads \ {t} : th'[u] = th[u]
          <5> DEFINE R == [pc : A!Places, in : SUBSET {"get", "refresh"}, saw : Nat,
                           attempt : Nat]
                     r == [th[t] EXCEPT !.pc = "exchange", !.saw = held]
          <5>1. r \in R /\ r.pc = "exchange" /\ r.in = th[t].in
            <6>1. th[t] \in R /\ "exchange" \in A!Places /\ held \in Nat
              BY DEF SessionTyped, A!Places
            <6> QED
              BY <6>1
          <5>2. th' = [th EXCEPT ![t] = r]
            BY <2>2 DEF SessionTyped
          <5> HIDE DEF r
          <5> QED
            BY <5>1, <5>2 DEF SessionTyped
        <4> QED
          BY <1>3, <2>2, <4>1 DEF A!RefreshAgain, SessionTyped
      <3> QED
        BY <1>3, <2>2, <3>1 DEF A!RefreshAgain, A!RefreshedMeanwhile, A!At, SessionTyped
    <2> QED
      BY <1>3, <2>1, <2>2 DEF A!RefreshAgain
  <1>4. CASE A!Exchange(t)
    <2> InAuth(t) /\ UNCHANGED apiLock
      BY <1>4 DEF A!Exchange, A!At
    <2>1. CASE /\ A!LeaveRefresh(t) /\ old' = FALSE
               /\ held' = granted + 1 /\ granted' = granted + 1
      <3>1. SessionTyped' /\ Left(t)
        <4>1. A!Done(t, "got") /\ authLock' = {}
          BY <2>1 DEF A!LeaveRefresh
        <4>2. held' \in Nat /\ granted' \in Nat
          BY <2>1 DEF SessionTyped
        <4> QED
          BY <2>1, <4>1, <4>2, DoneMoves DEF Left, SessionTyped, A!Lock
      <3> QED
        BY <1>4, <2>1, <3>1, Alone DEF Left, A!LeaveRefresh, A!Exchange, A!At
    <2>2. CASE A!LeaveRefresh(t) /\ UNCHANGED <<granted, held, old>>
      <3>1. SessionTyped' /\ Left(t)
        BY <1>4, <2>2, DoneMoves DEF A!LeaveRefresh, Left, SessionTyped, A!Lock
      <3> QED
        BY <1>4, <2>2, <3>1, Alone DEF Left, A!LeaveRefresh, A!Exchange, A!At
    <2>3. CASE /\ th' = [th EXCEPT ![t].pc = "auth", ![t].in = @ \cup {"refresh"}]
               /\ UNCHANGED <<granted, held, old, authLock>>
      BY <1>4, <2>3 DEF A!Exchange, A!At, SessionTyped, A!Places, A!Lock
    <2> QED
      BY <1>4, <2>1, <2>2, <2>3 DEF A!Exchange
  <1> QED
    BY <1>1, <1>2, <1>3, <1>4

LEMMA ProxyStep ==
    ASSUME SessionIInv, NEW t \in Threads,
           A!Get(t) \/ A!Aged(t) \/ A!Got(t) \/ A!CallWait(t) \/ A!Call(t)
    PROVE  SessionIInv'
  <1> USE DEF SessionIInv, Locked, Serving, InAuth, InApi
  <1>1. CASE A!Get(t)
    BY <1>1, ToMoves DEF A!Get, A!At, SessionTyped, A!Places, A!Lock
  <1>2. CASE A!Aged(t)
    BY <1>2, ToMoves DEF A!Aged, A!At, SessionTyped, A!Places, A!Lock
  <1>3. CASE A!Got(t)
    BY <1>3, ToMoves DEF A!Got, A!Idle, A!At, SessionTyped, A!Places, A!Lock
  <1>4. CASE A!CallWait(t)
    BY <1>4, ToMoves DEF A!CallWait, A!Idle, A!At, SessionTyped, A!Places, A!Lock
  <1>5. CASE A!Call(t)
    BY <1>5 DEF A!Call, A!Idle, A!At, SessionTyped, A!Places, A!Lock
  <1> QED
    BY <1>1, <1>2, <1>3, <1>4, <1>5

LEMMA LogoutStep ==
    ASSUME SessionIInv, NEW t \in Threads,
           A!LogoutWait(t) \/ A!Clear(t) \/ A!ApiWait(t) \/ A!Terminate(t) \/ A!Begin(t)
    PROVE  SessionIInv'
  <1> USE DEF SessionIInv, Locked, Serving, InAuth, InApi
  <1>1. CASE A!LogoutWait(t)
    BY <1>1, ToMoves DEF A!LogoutWait, A!LockIsFree, A!At, SessionTyped, A!Places, A!Lock
  <1>2. CASE A!Clear(t)
    <2> InAuth(t) /\ UNCHANGED apiLock /\ held' = 0 /\ old' = TRUE
      BY <1>2 DEF A!Clear, A!At
    <2>1. CASE authLock' = {} /\ th' = [th EXCEPT ![t] = A!Idle]
      <3>1. SessionTyped' /\ Left(t)
        BY <1>2, <2>1 DEF A!Clear, Left, A!Idle, A!Places, SessionTyped, A!Lock
      <3> QED
        BY <1>2, <2>1, <3>1, Alone DEF Left, A!Clear, A!At
    <2>2. CASE A!To(t, "apiWait") /\ UNCHANGED authLock
      <3>1. /\ SessionTyped' /\ th'[t].pc = "apiWait" /\ th'[t].in = th[t].in
            /\ \A u \in Threads \ {t} : th'[u] = th[u]
        BY <1>2, <2>2, ToMoves DEF A!Clear, A!Places, SessionTyped
      <3> QED
        BY <1>2, <2>2, <3>1, Alone DEF A!Clear, A!At
    <2> QED
      BY <1>2, <2>1, <2>2 DEF A!Clear
  <1>3. CASE A!ApiWait(t)
    BY <1>3, ToMoves DEF A!ApiWait, A!At, SessionTyped, A!Places, A!Lock
  <1>4. CASE A!Terminate(t)
    BY <1>4 DEF A!Terminate, A!Idle, A!At, SessionTyped, A!Places, A!Lock
  <1>5. CASE A!Begin(t)
    BY <1>5, ToMoves DEF A!Begin, A!At, SessionTyped, A!Places, A!Lock
  <1> QED
    BY <1>1, <1>2, <1>3, <1>4, <1>5

LEMMA SessionInductive == ASSUME SessionIInv, [A!Next]_(A!vars) PROVE SessionIInv'
  <1>1. CASE A!Age
    BY <1>1 DEF A!Age, SessionIInv, SessionTyped, Locked, Serving, InAuth, InApi
  <1>2. CASE UNCHANGED A!vars
    BY <1>2 DEF A!vars, SessionIInv, SessionTyped, Locked, Serving, InAuth, InApi
  <1> QED
    BY <1>1, <1>2, AuthStep, RefreshStep, ProxyStep, LogoutStep DEF A!Next, A!Step

LEMMA SessionInvariant == A!Spec => []SessionIInv
  BY SessionInitially, SessionInductive, PTL DEF A!Spec

-----------------------------------------------------------------------------
(* No thread waits for _auth_lock or _api_lock while it holds it, or while *)
(* the holder waits for a lock it holds (auth_manager.py,                  *)
(* authenticate, refresh_session, get_smart_api, logout and the proxy).    *)
THEOREM NoDeadlock == A!Spec => []NoLockCycle
  <1>1. SessionIInv => NoLockCycle
    BY DEF SessionIInv, SessionTyped, Locked, Serving, InAuth, InApi, NoLockCycle,
           WaitsForAuth, WaitsForApi
  <1> QED
    BY <1>1, SessionInvariant, PTL

(* Threads that find the session old, or find none, at the same time do    *)
(* not each fetch another.                                                 *)
THEOREM OneFetches == A!Spec => NoSessionWasted
  <1>1. ASSUME SessionIInv, [A!Next]_(A!vars)
        PROVE  held' # held /\ held' # 0 => held = 0 \/ old
    BY <1>1 DEF A!Next, A!Step, A!vars, A!Age, A!Begin, A!Auth, A!AuthWait, A!AuthAgain,
                A!Login, A!Refresh, A!RefreshWait, A!RefreshAgain, A!Exchange, A!Get,
                A!Aged, A!Got, A!CallWait, A!Call, A!LogoutWait, A!Clear, A!ApiWait,
                A!Terminate, A!At, SessionIInv, Serving
  <1> QED
    BY <1>1, SessionInvariant, PTL DEF A!Spec, NoSessionWasted
=============================================================================
