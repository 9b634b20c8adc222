------------------------- MODULE TickPipelineProofs -------------------------
(***************************************************************************)
(* What TLAPS proves of the tick path: its types, that it implements the   *)
(* Conveyor whatever threads a stop leaves behind, that one raw thread     *)
(* whose writes succeed keeps the raw truth, and that with one thread of   *)
(* each kind repeats of a tick are kept apart.                             *)
(***************************************************************************)
EXTENDS TickPipeline, FiniteSetTheorems, TLAPS

-----------------------------------------------------------------------------
(* The operators of the model.                                             *)

\* What the assumption says of each constant.
LEMMA Constants ==
    /\ MaxTicks \in Nat /\ MaxStops \in Nat
    /\ TickCap \in Nat \ {0} /\ CleanCap \in Nat \ {0} /\ BatchSize \in Nat \ {0}
    /\ Threshold \in Nat \ {0} /\ HistoryLimit \in Nat \ {0}
    /\ RawStarts \in Nat \ {0} /\ CleanStarts \in Nat \ {0}
    /\ \A p \in Prints : p.at \in Nat
  BY TickPipelineAssumption

\* get_batch takes a prefix of the queue and leaves the rest; it takes
\* something from a queue that holds something.
LEMMA BatchSplits ==
    ASSUME NEW S, NEW q \in Seq(S)
    PROVE  \E n \in 0..Len(q) :
             /\ q # << >> => n > 0
             /\ Batch(q)[1] \in Seq(S) /\ Len(Batch(q)[1]) = n
             /\ Batch(q)[2] \in Seq(S) /\ Len(Batch(q)[2]) = Len(q) - n
             /\ \A i \in 1..n : Batch(q)[1][i] = q[i]
             /\ \A i \in 1..(Len(q) - n) : Batch(q)[2][i] = q[n + i]
  <1> DEFINE n == SmallerOf(BatchSize, Len(q))
  <1>1. n \in 0..Len(q) /\ (q # << >> => n > 0)
    BY Constants DEF SmallerOf
  <1>2. Batch(q) = <<SubSeq(q, 1, n), SubSeq(q, n + 1, Len(q))>>
    BY DEF Batch
  <1> HIDE DEF n
  <1>3. /\ SubSeq(q, 1, n) \in Seq(S) /\ Len(SubSeq(q, 1, n)) = n
        /\ \A i \in 1..n : SubSeq(q, 1, n)[i] = q[i]
    BY <1>1
  <1>4. /\ SubSeq(q, n + 1, Len(q)) \in Seq(S)
        /\ Len(SubSeq(q, n + 1, Len(q))) = Len(q) - n
        /\ \A i \in 1..(Len(q) - n) : SubSeq(q, n + 1, Len(q))[i] = q[n + i]
    BY <1>1
  <1> DEFINE b == Batch(q)
  <1>5. b[1] = SubSeq(q, 1, n) /\ b[2] = SubSeq(q, n + 1, Len(q))
    <2> HIDE DEF b
    <2>1. \A x, y : <<x, y>>[1] = x /\ <<x, y>>[2] = y
      OBVIOUS
    <2>2. b = <<SubSeq(q, 1, n), SubSeq(q, n + 1, Len(q))>>
      BY <1>2 DEF b
    <2> QED
      BY <2>1, <2>2
  <1> HIDE DEF b
  <1>6. /\ b[1] \in Seq(S) /\ Len(b[1]) = n
        /\ b[2] \in Seq(S) /\ Len(b[2]) = Len(q) - n
        /\ \A i \in 1..n : b[1][i] = q[i]
        /\ \A i \in 1..(Len(q) - n) : b[2][i] = q[n + i]
    BY <1>3, <1>4, <1>5
  <1> WITNESS n \in 0..Len(q)
  <1> QED
    BY <1>1, <1>6 DEF b

\* What the first of a sequence and the rest of it are.
LEMMA HeadAndTail ==
    ASSUME NEW S, NEW q \in Seq(S), q # << >>
    PROVE  /\ Tail(q) \in Seq(S) /\ Len(Tail(q)) = Len(q) - 1 /\ Len(q) \in Nat \ {0}
           /\ Head(q) \in S /\ Head(q) = q[1]
           /\ Tail(q) = << >> <=> Len(q) = 1
  <1>1. /\ Tail(q) \in Seq(S) /\ Len(Tail(q)) = Len(q) - 1 /\ Len(q) \in Nat \ {0}
        /\ Head(q) \in S /\ Head(q) = q[1]
    OBVIOUS
  <1>2. Len(q) = 1 => Tail(q) = << >>
    <2>1. \A s \in Seq(S) : Len(s) = 0 => s = << >>
      OBVIOUS
    <2> DEFINE t == Tail(q)
    <2>2. t \in Seq(S) /\ Len(t) = Len(q) - 1
      BY <1>1
    <2> HIDE DEF t
    <2>3. Len(q) = 1 => t = << >>
      BY <2>1, <2>2
    <2> QED
      BY <2>3 DEF t
  <1>3. Tail(q) = << >> => Len(q) = 1
    BY <1>1
  <1> QED
    BY <1>1, <1>2, <1>3

\* The places in two sequences joined.
LEMMA JoinedAt ==
    ASSUME NEW S, NEW q \in Seq(S), NEW k \in Seq(S)
    PROVE  /\ DOMAIN (q \o k) = 1..(Len(q) + Len(k))
           /\ \A i \in 1..Len(q) : (q \o k)[i] = q[i]
           /\ \A i \in 1..Len(k) : (q \o k)[Len(q) + i] = k[i]
  OBVIOUS

\* What two sequences joined hold, ...
LEMMA JoinedSets ==
    ASSUME NEW S, NEW q \in Seq(S), NEW k \in Seq(S)
    PROVE  ToSet(q) \subseteq ToSet(q \o k) /\ ToSet(k) \subseteq ToSet(q \o k)
  <1>1. /\ DOMAIN (q \o k) = 1..(Len(q) + Len(k)) /\ Len(q) \in Nat /\ Len(k) \in Nat
        /\ \A i \in 1..Len(q) : (q \o k)[i] = q[i]
        /\ \A i \in 1..Len(k) : (q \o k)[Len(q) + i] = k[i]
    BY JoinedAt
  <1>2. DOMAIN q = 1..Len(q) /\ DOMAIN k = 1..Len(k)
    OBVIOUS
  <1> DEFINE qk == q \o k
  <1>3. \A i \in DOMAIN q : i \in DOMAIN qk /\ qk[i] = q[i]
    BY <1>1, <1>2
  <1>4. \A i \in DOMAIN k : Len(q) + i \in DOMAIN qk /\ qk[Len(q) + i] = k[i]
    BY <1>1, <1>2
  <1> HIDE DEF qk
  <1>5. ToSet(q) \subseteq ToSet(qk) /\ ToSet(k) \subseteq ToSet(qk)
    BY <1>3, <1>4 DEF ToSet
  <1> QED
    BY <1>5 DEF qk

\* ... and what a sequence does without its first.
LEMMA PartsOfASet ==
    ASSUME NEW S, NEW q \in Seq(S), q # << >>
    PROVE  Head(q) \in ToSet(q) /\ ToSet(Tail(q)) \subseteq ToSet(q)
  <1>1. Head(q) = q[1] /\ 1 \in DOMAIN q
    OBVIOUS
  <1>2. \A i \in DOMAIN Tail(q) : i + 1 \in DOMAIN q /\ Tail(q)[i] = q[i + 1]
    OBVIOUS
  <1> QED
    BY <1>1, <1>2 DEF ToSet

\* A sequence of elements of another set.
LEMMA Retyped ==
    ASSUME NEW S, NEW T, NEW q \in Seq(S), \A i \in 1..Len(q) : q[i] \in T
    PROVE  q \in Seq(T)
  OBVIOUS

\* The times of ticks that arrived are numbers.
LEMMA Times ==
    ASSUME prints \in Seq(Prints), NEW ids \in Seq(1..Len(prints)),
           NEW k \in DOMAIN ids
    PROVE  prints[ids[k]].at \in Nat
  <1>1. ids[k] \in 1..Len(prints)
    OBVIOUS
  <1>2. prints[ids[k]] \in Prints
    BY <1>1
  <1> QED
    BY <1>2, Constants

\* Place numbers the ticks of a batch: the stable sort gives every tick a
\* place of its own.
LEMMA PlaceOfItsOwn ==
    ASSUME prints \in Seq(Prints), NEW ids \in Seq(1..Len(prints)),
           NEW k \in DOMAIN ids, NEW l \in DOMAIN ids, k # l
    PROVE  Place(ids, k) \in 1..Len(ids) /\ Place(ids, k) # Place(ids, l)
  <1> DEFINE Ahead(m) == {j \in DOMAIN ids : Before(ids, j, m)}
  <1>d. DOMAIN ids = 1..Len(ids) /\ Len(ids) \in Nat
    OBVIOUS
  <1>f. IsFiniteSet(DOMAIN ids) /\ Cardinality(DOMAIN ids) = Len(ids)
    <2>1. IsFiniteSet(1..Len(ids)) /\ Cardinality(1..Len(ids)) = IF 1 > Len(ids) THEN 0 ELSE Len(ids) - 1 + 1
      BY <1>d, FS_Interval
    <2> QED
      BY <1>d, <2>1
  <1>t. \A m \in DOMAIN ids : prints[ids[m]].at \in Nat
    BY Times
  <1>0. \A m, j \in DOMAIN ids : j \in Ahead(m) <=> Before(ids, j, m)
    OBVIOUS
  <1>s. \A m \in DOMAIN ids : Ahead(m) \in SUBSET DOMAIN ids
    OBVIOUS
  <1>7. \A m \in DOMAIN ids : Place(ids, m) = 1 + Cardinality(Ahead(m))
    BY DEF Place
  <1> HIDE DEF Ahead
  <1>1. \A m \in DOMAIN ids : IsFiniteSet(Ahead(m)) /\ Cardinality(Ahead(m)) \in Nat
    BY <1>f, <1>s, FS_Subset, FS_CardinalityType
  <1>2. \A m \in DOMAIN ids : ~Before(ids, m, m)
    BY <1>d, <1>t DEF Before
  <1>3. \A m, p \in DOMAIN ids : Before(ids, m, p)
          => Cardinality(Ahead(m)) < Cardinality(Ahead(p))
    <2> SUFFICES ASSUME NEW m \in DOMAIN ids, NEW p \in DOMAIN ids, Before(ids, m, p)
                 PROVE  Cardinality(Ahead(m)) < Cardinality(Ahead(p))
      OBVIOUS
    <2>1. \A j \in DOMAIN ids : Before(ids, j, m) => Before(ids, j, p)
      <3> TAKE j \in DOMAIN ids
      <3> DEFINE at(x) == prints[ids[x]].at
      <3>1. at(j) \in Nat /\ at(m) \in Nat /\ at(p) \in Nat /\ {j, m, p} \subseteq Nat
        BY <1>d, <1>t
      <3>2. at(m) < at(p) \/ (at(m) = at(p) /\ m < p)
        BY DEF Before
      <3>3. at(j) < at(m) \/ (at(j) = at(m) /\ j < m)
              => at(j) < at(p) \/ (at(j) = at(p) /\ j < p)
        <4> HIDE DEF at
        <4> QED
          BY ONLY <3>1, <3>2, SMTT(30)
      <3> QED
        BY <3>3 DEF Before
    <2>2. Ahead(m) \cup {m} \in SUBSET Ahead(p)
      BY <2>1, <1>0, <1>s
    <2>3. Cardinality(Ahead(m) \cup {m}) = Cardinality(Ahead(m)) + 1
      BY <1>0, <1>1, <1>2, FS_AddElement
    <2>4. Cardinality(Ahead(m) \cup {m}) <= Cardinality(Ahead(p))
      BY <2>2, <1>1, FS_Subset
    <2> QED
      BY <2>3, <2>4, <1>1
  <1>4. Before(ids, k, l) \/ Before(ids, l, k)
    BY <1>d, <1>t DEF Before
  <1>5. Cardinality(Ahead(k)) # Cardinality(Ahead(l))
    BY <1>1, <1>3, <1>4
  <1>6. Cardinality(Ahead(k)) < Len(ids)
    <2>1. Ahead(k) \in SUBSET (DOMAIN ids \ {k})
      BY <1>0, <1>2, <1>s
    <2>2. IsFiniteSet(DOMAIN ids \ {k}) /\ Cardinality(DOMAIN ids \ {k}) = Len(ids) - 1
      BY <1>f, FS_RemoveElement
    <2>3. Cardinality(Ahead(k)) <= Len(ids) - 1
      BY <2>1, <2>2, FS_Subset
    <2> QED
      BY <2>3, <1>1, <1>d
  <1> QED
    BY <1>1, <1>5, <1>6, <1>7, <1>d

\* A batch of one has one place.
LEMMA PlaceOfOne ==
    ASSUME prints \in Seq(Prints), NEW ids \in Seq(1..Len(prints)), Len(ids) = 1
    PROVE  Place(ids, 1) = 1
  <1>1. DOMAIN ids = {1}
    OBVIOUS
  <1>2. ~Before(ids, 1, 1)
    BY <1>1, Times DEF Before
  <1>3. {l \in DOMAIN ids : Before(ids, l, 1)} = {}
    BY <1>1, <1>2
  <1>4. Cardinality({l \in DOMAIN ids : Before(ids, l, 1)}) = 0
    BY <1>3, FS_EmptySet
  <1>5. Place(ids, 1) = 1 + Cardinality({l \in DOMAIN ids : Before(ids, l, 1)})
    BY DEF Place
  <1> QED
    BY <1>4, <1>5

\* The stable sort is a rearrangement.
LEMMA Rearranged ==
    ASSUME prints \in Seq(Prints), NEW ids \in Seq(1..Len(prints))
    PROVE  \E from \in [1..Len(ids) -> 1..Len(ids)] :
             /\ \A i, j \in 1..Len(ids) : from[i] = from[j] => i = j
             /\ \A k \in 1..Len(ids) : \E i \in 1..Len(ids) : from[i] = k
             /\ InOrder(ids) = [i \in 1..Len(ids) |-> ids[from[i]]]
  <1> DEFINE N == 1..Len(ids)
             place == [k \in N |-> Place(ids, k)]
             from == [i \in N |-> CHOOSE k \in N : Place(ids, k) = i]
  <1>d. DOMAIN ids = N /\ Len(ids) \in Nat /\ IsFiniteSet(N)
    BY FS_Interval
  <1>1. \A k \in N : place[k] \in N
    <2> TAKE k \in N
    <2>1. CASE Len(ids) = 1
      BY <2>1, PlaceOfOne, <1>d
    <2>2. CASE Len(ids) # 1
      <3>1. PICK l \in N : l # k
        BY <2>2, <1>d
      <3> QED
        BY <3>1, <1>d, PlaceOfItsOwn
    <2> QED
      BY <2>1, <2>2
  <1>2. \A k, l \in N : place[k] = place[l] => k = l
    BY <1>d, PlaceOfItsOwn
  <1>3. place \in Injection(N, N)
    BY <1>1, <1>2 DEF Injection, IsInjective
  <1>4. place \in Surjection(N, N)
    BY <1>3, <1>d, FS_Injection
  <1>5. \A i \in N : \E k \in N : place[k] = i
    BY <1>4 DEF Surjection
  <1>6. \A i \in N : from[i] \in N /\ place[from[i]] = i
    <2> TAKE i \in N
    <2>1. \E k \in N : Place(ids, k) = i
      BY <1>5
    <2> QED
      BY <2>1
  <1>7. InOrder(ids) = [i \in N |-> ids[from[i]]]
    BY <1>d DEF InOrder
  <1>8. from \in [N -> N]
    BY <1>6
  <1>9. \A k \in N : place[k] \in N /\ from[place[k]] = k
    BY <1>1, <1>2, <1>6
  <1> HIDE DEF from, place
  <1>10. \A i, j \in N : from[i] = from[j] => i = j
    BY <1>6
  <1>11. \A k \in N : \E i \in N : from[i] = k
    BY <1>9
  <1> WITNESS from \in [N -> N]
  <1> QED
    BY <1>7, <1>10, <1>11

-----------------------------------------------------------------------------
(* Lines and spots.                                                        *)

\* What each line is, ...
LineLaw ==
    /\ Waiting(Entry) = IF pending = 0 THEN << >> ELSE <<pending>>
    /\ Waiting(TickLine) = tickQ
    /\ Waiting(CleanerLine) = cleanQ
    /\ Waiting(Backend) = broadcast
    /\ \A t \in RawThreads : Waiting(RawLine(t)) = raw[t].batch
    /\ \A t \in CleanThreads : Waiting(CleanLine(t)) = clean[t].batch \o clean[t].kept

\* ... what a spot is, ...
SpotLaw ==
    /\ \A line \in Lines : \A i : <<line, i>> \in Spots <=> i \in DOMAIN Waiting(line)
    /\ \A s \in Spots : s = <<s[1], s[2]>> /\ s[1] \in Lines
    /\ \A line, i : Holds(<<line, i>>) = Waiting(line)[i]
    /\ \A id, s : s \in SpotsOf(id) <=> s \in Spots /\ Holds(s) = id

\* The lines there are, ...
LEMMA LineIs ==
    /\ {Entry, TickLine, CleanerLine, Backend} \subseteq Lines
    /\ \A t \in RawThreads : RawLine(t) \in Lines
    /\ \A t \in CleanThreads : CleanLine(t) \in Lines
    /\ \A line \in Lines :
         \/ line \in {Entry, TickLine, CleanerLine, Backend}
         \/ \E t \in RawThreads : line = RawLine(t)
         \/ \E t \in CleanThreads : line = CleanLine(t)
  BY DEF Lines

\* ... their stages, and that no two are the same.
LEMMA LineNames ==
    /\ Entry[1] = "arrived" /\ TickLine[1] = "queued" /\ CleanerLine[1] = "offered"
    /\ Backend[1] = "delivered"
    /\ \A t : RawLine(t)[1] = "taken" /\ RawLine(t)[2] = t
    /\ \A t : CleanLine(t)[1] = "offered" /\ CleanLine(t)[2] = t
    /\ \A t \in CleanThreads : CleanLine(t) # CleanerLine
  <1>1. \A t \in CleanThreads : t # 0
    BY Constants DEF CleanThreads
  <1> QED
    BY <1>1 DEF Entry, TickLine, CleanerLine, Backend, RawLine, CleanLine

\* The laws hold in every state, ...
LEMMA Laws == LineLaw /\ SpotLaw
  <1>1. LineLaw
    <2>1. Waiting(Entry) = IF pending = 0 THEN << >> ELSE <<pending>>
      BY LineNames DEF Waiting
    <2>2. /\ Waiting(TickLine) = tickQ /\ Waiting(CleanerLine) = cleanQ
          /\ Waiting(Backend) = broadcast
      BY LineNames DEF Waiting
    <2>3. ASSUME NEW t \in RawThreads
          PROVE  Waiting(RawLine(t)) = raw[t].batch
      BY LineNames DEF Waiting
    <2>4. ASSUME NEW t \in CleanThreads
          PROVE  Waiting(CleanLine(t)) = clean[t].batch \o clean[t].kept
      BY LineNames DEF Waiting
    <2> QED
      BY <2>1, <2>2, <2>3, <2>4 DEF LineLaw
  <1>2. SpotLaw
    <2>1. \A s : s \in Spots <=> \E line \in Lines : s \in {line} \X DOMAIN Waiting(line)
      BY DEF Spots
    <2>2. \A line, i : <<line, i>>[1] = line /\ <<line, i>>[2] = i
      OBVIOUS
    <2>3. \A line, i, X : <<line, i>> \in {line} \X X <=> i \in X
      OBVIOUS
    <2>4. \A line, X, s : s \in {line} \X X => s[1] = line /\ s[2] \in X /\ s = <<s[1], s[2]>>
      OBVIOUS
    <2>5. \A line \in Lines : \A i : <<line, i>> \in Spots <=> i \in DOMAIN Waiting(line)
      BY <2>1, <2>2, <2>3, <2>4
    <2>6. \A s \in Spots : s = <<s[1], s[2]>> /\ s[1] \in Lines
      BY <2>1, <2>4
    <2>7. \A line, i : Holds(<<line, i>>) = Waiting(line)[i]
      BY <2>2 DEF Holds
    <2>8. \A id, s : s \in SpotsOf(id) <=> s \in Spots /\ Holds(s) = id
      BY DEF SpotsOf
    <2> QED
      BY <2>5, <2>6, <2>7, <2>8 DEF SpotLaw
  <1> QED
    BY <1>1, <1>2

\* ... so in the next one as well.
LEMMA LawsNext == LineLaw' /\ SpotLaw'
  BY Laws, PTL

-----------------------------------------------------------------------------
(* The inductive invariant.                                                *)

\* A raw thread has a batch from the take until the last tick is forwarded.
RawAtWork ==
    \A t \in RawThreads :
        raw[t].batch # << >> <=> raw[t].pc \in {"read", "write", "forward"}

\* A clean thread has a batch while it judges, and ticks it keeps until it
\* broadcasts them.
CleanAtWork ==
    \A t \in CleanThreads :
        /\ clean[t].batch # << >> <=> clean[t].pc \in {"judge", "remember"}
        /\ clean[t].kept # << >> => clean[t].pc \in {"judge", "remember", "broadcast"}

\* A tick is in one spot at most, ...
Once == \A r, s \in Spots : Holds(r) = Holds(s) => r = s

\* ... and in none before it arrives.
Known == \A s \in Spots : Holds(s) <= Len(prints)

IInv == TypeOK /\ RawAtWork /\ CleanAtWork /\ Once /\ Known

\* The stage of a tick is the one of its only spot.
StageLaw ==
    prints \in Seq(Prints) /\ Once =>
        \A id \in Ids :
            /\ id > Len(prints) => StageOf(id) = "absent"
            /\ id <= Len(prints) /\ SpotsOf(id) = {} => StageOf(id) = "lost"
            /\ id <= Len(prints) => \A s \in SpotsOf(id) : StageOf(id) = s[1][1]

LEMMA StageIs == StageLaw
  <1> SUFFICES ASSUME prints \in Seq(Prints), Once, NEW id \in Ids
               PROVE  /\ id > Len(prints) => StageOf(id) = "absent"
                      /\ id <= Len(prints) /\ SpotsOf(id) = {} => StageOf(id) = "lost"
                      /\ id <= Len(prints) => \A s \in SpotsOf(id) : StageOf(id) = s[1][1]
    BY DEF StageLaw
  <1>1. Len(prints) \in Nat /\ id \in Nat
    BY DEF Ids
  <1>2. CASE id > Len(prints)
    BY <1>1, <1>2 DEF StageOf
  <1>3. CASE id <= Len(prints) /\ SpotsOf(id) = {}
    <2>1. ~(id > Len(prints)) /\ Cardinality(SpotsOf(id)) = 0
      BY <1>1, <1>3, FS_EmptySet
    <2> HIDE <1>1
    <2> QED
      BY <1>3, <2>1 DEF StageOf
  <1>4. ASSUME id <= Len(prints), NEW s \in SpotsOf(id)
        PROVE  StageOf(id) = s[1][1]
    <2>1. SpotsOf(id) = {s}
      BY Laws DEF SpotLaw, Once
    <2>2. Cardinality(SpotsOf(id)) = 1
      BY <2>1, FS_Singleton
    <2>3. (CHOOSE r \in SpotsOf(id) : TRUE) = s
      BY <2>1
    <2>4. ~(id > Len(prints)) /\ SpotsOf(id) # {}
      BY <1>1, <1>4
    <2> QED
      BY <1>4, <2>2, <2>3, <2>4 DEF StageOf
  <1> QED
    BY <1>1, <1>2, <1>3, <1>4

\* In the next state too.
LEMMA StageNext == StageLaw'
  BY StageIs, PTL

\* What a step of the Conveyor is.
ConveyorStep ==
    \A id \in Ids : StageOf(id)' # StageOf(id) => <<StageOf(id), StageOf(id)'>> \in C!Edges

\* A step that carries ticks along: every spot of the next state has one it
\* came from, no two the same one, one stage further at most; and only a
\* tick that was handed on or read may be left behind.
LEMMA Carried ==
    ASSUME prints \in Seq(Prints), Once, Known, UNCHANGED prints, NEW from,
           \A s \in Spots' : /\ from[s] \in Spots /\ Holds(from[s]) = Holds(s)'
                             /\ \/ from[s][1][1] = s[1][1]
                                \/ <<from[s][1][1], s[1][1]>> \in C!Edges,
           \A r, s \in Spots' : from[r] = from[s] => r = s,
           \A r \in Spots : \/ r[1][1] \in {"arrived", "taken", "offered"}
                            \/ \E s \in Spots' : from[s] = r
    PROVE  Once' /\ Known' /\ ConveyorStep
  <1>1. Once'
    BY DEF Once
  <1>2. Known'
    BY DEF Known
  <1>3. ASSUME NEW id \in Ids, StageOf(id)' # StageOf(id)
        PROVE  <<StageOf(id), StageOf(id)'>> \in C!Edges
    <2>0. Len(prints) \in Nat /\ id \in Nat
      BY DEF Ids
    <2>1. StageLaw /\ StageLaw'
      BY StageIs, StageNext
    <2>2. id <= Len(prints)
      BY <2>0, <2>1, <1>1, <1>3 DEF StageLaw
    <2>3. CASE SpotsOf(id)' = {}
      <3>1. StageOf(id)' = "lost"
        BY <2>1, <2>2, <2>3, <1>1 DEF StageLaw
      <3>2. PICK r \in SpotsOf(id) : TRUE
        BY <3>1, <1>3, <2>1, <2>2 DEF StageLaw
      <3>3. r \in Spots /\ Holds(r) = id /\ StageOf(id) = r[1][1]
        BY <3>2, <2>1, <2>2, Laws DEF StageLaw, SpotLaw
      <3>4. ~\E s \in Spots' : from[s] = r
        <4> SUFFICES ASSUME NEW s \in Spots', from[s] = r
                     PROVE  FALSE
          OBVIOUS
        <4>1. Holds(s)' = id
          BY <3>3
        <4>2. s \in SpotsOf(id)'
          BY <4>1, LawsNext DEF SpotLaw
        <4> QED
          BY <4>2, <2>3
      <3> QED
        BY <3>1, <3>3, <3>4 DEF C!Edges
    <2>4. ASSUME NEW s \in SpotsOf(id)'
          PROVE  <<StageOf(id), StageOf(id)'>> \in C!Edges
      <3>1. s \in Spots' /\ Holds(s)' = id /\ StageOf(id)' = s[1][1]
        BY <2>4, <2>1, <2>2, <1>1, LawsNext DEF StageLaw, SpotLaw
      <3>2. from[s] \in SpotsOf(id)
        BY <3>1, Laws DEF SpotLaw
      <3>3. StageOf(id) = from[s][1][1]
        BY <3>2, <2>1, <2>2 DEF StageLaw
      <3> QED
        BY <3>1, <3>3, <1>3
    <2> QED
      BY <2>3, <2>4
  <1> QED
    BY <1>1, <1>2, <1>3 DEF ConveyorStep

-----------------------------------------------------------------------------
(* The steps that move a tick.                                             *)

\* The lines are sequences of ticks.
LEMMA LinesAreSequences ==
    ASSUME TypeOK
    PROVE  \A line \in Lines : Waiting(line) \in Seq(Ids)
  <1> SUFFICES ASSUME NEW line \in Lines
               PROVE  Waiting(line) \in Seq(Ids)
    OBVIOUS
  <1>1. CASE line = Entry
    <2>1. pending = 0 \/ pending \in Ids
      BY Constants DEF TypeOK, Ids
    <2> QED
      BY <1>1, <2>1, Laws DEF LineLaw
  <1>2. CASE line \in {TickLine, CleanerLine, Backend}
    BY <1>2, Laws DEF LineLaw, TypeOK
  <1>3. ASSUME NEW t \in RawThreads, line = RawLine(t)
        PROVE  Waiting(line) \in Seq(Ids)
    BY <1>3, Laws DEF LineLaw, TypeOK, RawThread
  <1>4. ASSUME NEW t \in CleanThreads, line = CleanLine(t)
        PROVE  Waiting(line) \in Seq(Ids)
    <2>1. clean[t].batch \in Seq(Ids) /\ clean[t].kept \in Seq(Ids)
      BY DEF TypeOK, CleanThread
    <2>2. clean[t].batch \o clean[t].kept \in Seq(Ids)
      BY <2>1
    <2>3. Waiting(CleanLine(t)) = clean[t].batch \o clean[t].kept
      BY Laws DEF LineLaw
    <2> QED
      BY <1>4, <2>2, <2>3
  <1> QED
    BY <1>1, <1>2, <1>3, <1>4, LineIs

\* A line changes only with what it is made of.
LEMMA LineLeft ==
    ASSUME NEW line \in Lines,
           line = Entry => UNCHANGED pending,
           line = TickLine => UNCHANGED tickQ,
           line = CleanerLine => UNCHANGED cleanQ,
           line = Backend => UNCHANGED broadcast,
           \A t \in RawThreads : line = RawLine(t) => raw'[t].batch = raw[t].batch,
           \A t \in CleanThreads : line = CleanLine(t) =>
              clean'[t].batch = clean[t].batch /\ clean'[t].kept = clean[t].kept
    PROVE  Waiting(line)' = Waiting(line)
  <1>1. CASE line \in {Entry, TickLine, CleanerLine, Backend}
    BY <1>1, Laws, LawsNext DEF LineLaw
  <1>2. ASSUME NEW t \in RawThreads, line = RawLine(t)
        PROVE  Waiting(line)' = Waiting(line)
    BY <1>2, Laws, LawsNext DEF LineLaw
  <1>3. ASSUME NEW t \in CleanThreads, line = CleanLine(t)
        PROVE  Waiting(line)' = Waiting(line)
    BY <1>3, Laws, LawsNext DEF LineLaw
  <1> QED
    BY <1>1, <1>2, <1>3, LineIs

\* A step that leaves the lines as they are, or empties some whose ticks may
\* be lost.
LEMMA LeftAlone ==
    ASSUME IInv, UNCHANGED prints,
           \A line \in Lines :
              \/ Waiting(line)' = Waiting(line)
              \/ line[1] \in {"arrived", "taken", "offered"} /\ Waiting(line)' = << >>
    PROVE  Once' /\ Known' /\ ConveyorStep
  <1> DEFINE from == [s \in Spots' |-> s]
  <1>1. \A s \in Spots' : from[s] \in Spots /\ Holds(from[s]) = Holds(s)'
    <2> TAKE s \in Spots'
    <2>1. s = <<s[1], s[2]>> /\ s[1] \in Lines /\ s[2] \in DOMAIN Waiting(s[1])'
      BY LawsNext DEF SpotLaw
    <2>2. Waiting(s[1])' = Waiting(s[1])
      BY <2>1
    <2>3. s \in Spots /\ Holds(s) = Waiting(s[1])[s[2]] /\ Holds(s)' = Waiting(s[1])'[s[2]]
      BY <2>1, <2>2, Laws, LawsNext DEF SpotLaw
    <2> QED
      BY <2>2, <2>3
  <1>2. \A r \in Spots : r[1][1] \in {"arrived", "taken", "offered"} \/ r \in Spots'
    <2> TAKE r \in Spots
    <2>1. r = <<r[1], r[2]>> /\ r[1] \in Lines /\ r[2] \in DOMAIN Waiting(r[1])
      BY Laws DEF SpotLaw
    <2>2. CASE Waiting(r[1])' = Waiting(r[1])
      BY <2>1, <2>2, LawsNext DEF SpotLaw
    <2>3. CASE r[1][1] \in {"arrived", "taken", "offered"}
      BY <2>3
    <2> QED
      BY <2>1, <2>2, <2>3
  <1>3. \A s \in Spots' : from[s] = s
    OBVIOUS
  <1> HIDE DEF from
  <1>4. /\ \A s \in Spots' : /\ from[s] \in Spots /\ Holds(from[s]) = Holds(s)'
                               /\ \/ from[s][1][1] = s[1][1]
                                  \/ <<from[s][1][1], s[1][1]>> \in C!Edges
        /\ \A r, s \in Spots' : from[r] = from[s] => r = s
        /\ \A r \in Spots : \/ r[1][1] \in {"arrived", "taken", "offered"}
                            \/ \E s \in Spots' : from[s] = r
    BY <1>1, <1>2, <1>3
  <1>5. prints \in Seq(Prints) /\ Once /\ Known
    BY DEF IInv, TypeOK
  <1> QED
    BY <1>4, <1>5, Carried

\* The first n of a line move to an empty line, as a batch.
LEMMA BatchTaken ==
    ASSUME IInv, UNCHANGED prints,
           NEW src \in Lines, NEW dst \in Lines, src # dst,
           src[1] = dst[1] \/ <<src[1], dst[1]>> \in C!Edges,
           Waiting(dst) = << >>,
           NEW n \in 0..Len(Waiting(src)),
           DOMAIN Waiting(src)' = 1..(Len(Waiting(src)) - n),
           \A i \in 1..(Len(Waiting(src)) - n) : Waiting(src)'[i] = Waiting(src)[n + i],
           DOMAIN Waiting(dst)' = 1..n,
           \A i \in 1..n : Waiting(dst)'[i] = Waiting(src)[i],
           \A line \in Lines \ {src, dst} : Waiting(line)' = Waiting(line)
    PROVE  Once' /\ Known' /\ ConveyorStep
  <1> DEFINE From(s) == IF s[1] = src THEN <<src, n + s[2]>>
                        ELSE IF s[1] = dst THEN <<src, s[2]>> ELSE s
             from == [s \in Spots' |-> From(s)]
  <1>0. /\ Len(Waiting(src)) \in Nat /\ n \in Nat
        /\ DOMAIN Waiting(src) = 1..Len(Waiting(src)) /\ DOMAIN Waiting(dst) = {}
    BY LinesAreSequences DEF IInv
  <1>1. \A s \in Spots' : s = <<s[1], s[2]>> /\ s[1] \in Lines /\ s[2] \in DOMAIN Waiting(s[1])'
                          /\ Holds(s)' = Waiting(s[1])'[s[2]]
    BY LawsNext DEF SpotLaw
  <1>2. \A s \in Spots' :
          /\ s[1] = src => s[2] \in 1..(Len(Waiting(src)) - n) /\ from[s] = <<src, n + s[2]>>
          /\ s[1] = dst => s[2] \in 1..n /\ from[s] = <<src, s[2]>>
          /\ s[1] \notin {src, dst} => from[s] = s /\ s[2] \in DOMAIN Waiting(s[1])
    BY <1>1
  <1>3. \A line \in Lines : \A i : <<line, i>> \in Spots <=> i \in DOMAIN Waiting(line)
    BY Laws DEF SpotLaw
  <1>4. \A line, i : Holds(<<line, i>>) = Waiting(line)[i]
    BY Laws DEF SpotLaw
  <1>5. \A line, i : <<line, i>>[1] = line /\ <<line, i>>[2] = i
    OBVIOUS
  <1> HIDE DEF from
  <1>6. ASSUME NEW s \in Spots'
        PROVE  /\ from[s] \in Spots /\ Holds(from[s]) = Holds(s)'
               /\ from[s][1][1] = s[1][1] \/ <<from[s][1][1], s[1][1]>> \in C!Edges
    <2>1. CASE s[1] = src
      <3>1. n + s[2] \in DOMAIN Waiting(src)
        BY <2>1, <1>0, <1>2
      <3> QED
        BY <2>1, <3>1, <1>0, <1>1, <1>2, <1>3, <1>4, <1>5
    <2>2. CASE s[1] = dst
      <3>1. s[2] \in DOMAIN Waiting(src)
        BY <2>2, <1>0, <1>2
      <3> QED
        BY <2>2, <3>1, <1>0, <1>1, <1>2, <1>3, <1>4, <1>5, SMTT(30)
    <2>3. CASE s[1] \notin {src, dst}
      BY <2>3, <1>1, <1>2, <1>3, <1>4
    <2> QED
      BY <2>1, <2>2, <2>3
  <1>7. ASSUME NEW r \in Spots', NEW s \in Spots', from[r] = from[s]
        PROVE  r = s
    <2>2. \A q \in Spots' : /\ q[1] = src => from[q][1] = src /\ from[q][2] = n + q[2] /\ q[2] \in Nat \ {0}
                            /\ q[1] = dst => from[q][1] = src /\ from[q][2] = q[2] /\ q[2] \in 1..n
                            /\ q[1] \notin {src, dst} => from[q][1] = q[1] /\ from[q][2] = q[2]
      BY <1>0, <1>2, <1>5
    <2>3. r[1] = s[1] /\ r[2] = s[2]
      <3> DEFINE f == from[r]
                 g == from[s]
      <3>0. f = g
        BY <1>7
      <3>1. /\ r[1] = src => f[1] = src /\ f[2] = n + r[2] /\ r[2] \in Nat \ {0}
            /\ r[1] = dst => f[1] = src /\ f[2] = r[2] /\ r[2] \in 1..n
            /\ r[1] \notin {src, dst} => f[1] = r[1] /\ f[2] = r[2]
        BY <2>2
      <3>2. /\ s[1] = src => g[1] = src /\ g[2] = n + s[2] /\ s[2] \in Nat \ {0}
            /\ s[1] = dst => g[1] = src /\ g[2] = s[2] /\ s[2] \in 1..n
            /\ s[1] \notin {src, dst} => g[1] = s[1] /\ g[2] = s[2]
        BY <2>2
      <3> HIDE DEF f, g
      <3>3. n \in Nat
        BY <1>0
      <3>4. CASE r[1] = src
        BY ONLY <3>0, <3>1, <3>2, <3>3, <3>4
      <3>5. CASE r[1] = dst
        BY <3>0, <3>1, <3>2, <3>3, <3>5
      <3>6. CASE r[1] \notin {src, dst}
        BY <3>0, <3>1, <3>2, <3>6
      <3> QED
        BY <3>4, <3>5, <3>6
    <2> QED
      BY <2>3, <1>1
  <1>8. ASSUME NEW r \in Spots
        PROVE  \E s \in Spots' : from[s] = r
    <2>1. r = <<r[1], r[2]>> /\ r[1] \in Lines /\ r[2] \in DOMAIN Waiting(r[1])
      BY Laws DEF SpotLaw
    <2>2. \A line \in Lines : \A i : <<line, i>> \in Spots' <=> i \in DOMAIN Waiting(line)'
      BY LawsNext DEF SpotLaw
    <2>3. CASE r[1] = src /\ r[2] > n
      <3>1. r[2] - n \in DOMAIN Waiting(src)'
        BY <2>1, <2>3, <1>0
      <3>2. <<src, r[2] - n>> \in Spots'
        BY <3>1, <2>2
      <3>3. from[<<src, r[2] - n>>] = <<src, n + (r[2] - n)>>
        BY <3>2, <1>2, <1>5
      <3>4. n + (r[2] - n) = r[2]
        BY <2>1, <2>3, <1>0
      <3> QED
        BY <3>2, <3>3, <3>4, <2>1, <2>3
    <2>4. CASE r[1] = src /\ ~(r[2] > n)
      <3>1. r[2] \in DOMAIN Waiting(dst)'
        BY <2>1, <2>4, <1>0
      <3>2. <<dst, r[2]>> \in Spots'
        BY <3>1, <2>2
      <3>3. from[<<dst, r[2]>>] = <<src, r[2]>>
        BY <3>2, <1>2, <1>5
      <3> QED
        BY <3>2, <3>3, <2>1, <2>4
    <2>5. CASE r[1] # src
      <3>1. r[1] # dst
        BY <2>1, <1>0
      <3>2. r \in Spots'
        BY <2>1, <2>2, <2>5, <3>1
      <3> QED
        BY <3>1, <3>2, <2>5, <1>2
    <2> QED
      BY <2>3, <2>4, <2>5
  <1>9. prints \in Seq(Prints) /\ Once /\ Known
    BY DEF IInv, TypeOK
  <1>10. /\ \A s \in Spots' : /\ from[s] \in Spots /\ Holds(from[s]) = Holds(s)'
                               /\ \/ from[s][1][1] = s[1][1]
                                  \/ <<from[s][1][1], s[1][1]>> \in C!Edges
         /\ \A r, s \in Spots' : from[r] = from[s] => r = s
         /\ \A r \in Spots : \/ r[1][1] \in {"arrived", "taken", "offered"}
                             \/ \E s \in Spots' : from[s] = r
    BY <1>6, <1>7, <1>8
  <1> QED
    BY <1>9, <1>10, Carried

\* The first of a line goes to the end of another, or is given up.
LEMMA HandedOn ==
    ASSUME IInv, UNCHANGED prints,
           NEW src \in Lines, NEW dst \in Lines, src # dst,
           <<src[1], dst[1]>> \in C!Edges, src[1] \in {"arrived", "taken"},
           Waiting(src) # << >>,
           Waiting(src)' = Tail(Waiting(src)),
           \/ Waiting(dst)' = Append(Waiting(dst), Head(Waiting(src)))
           \/ Waiting(dst)' = Waiting(dst),
           \A line \in Lines \ {src, dst} : Waiting(line)' = Waiting(line)
    PROVE  Once' /\ Known' /\ ConveyorStep
  <1> DEFINE end == Len(Waiting(dst)) + 1
             From(s) == IF s[1] = src THEN <<src, 1 + s[2]>>
                        ELSE IF s = <<dst, end>> THEN <<src, 1>> ELSE s
             from == [s \in Spots' |-> From(s)]
  <1>0. /\ Len(Waiting(src)) \in Nat \ {0} /\ Len(Waiting(dst)) \in Nat
        /\ DOMAIN Waiting(src) = 1..Len(Waiting(src))
        /\ DOMAIN Waiting(dst) = 1..Len(Waiting(dst))
        /\ DOMAIN Waiting(src)' = 1..(Len(Waiting(src)) - 1)
        /\ \A i \in 1..(Len(Waiting(src)) - 1) : Waiting(src)'[i] = Waiting(src)[1 + i]
        /\ DOMAIN Waiting(dst)' \subseteq 1..end
        /\ \A i \in 1..Len(Waiting(dst)) :
              i \in DOMAIN Waiting(dst)' /\ Waiting(dst)'[i] = Waiting(dst)[i]
        /\ end \in DOMAIN Waiting(dst)' => Waiting(dst)'[end] = Waiting(src)[1]
    <2>1. Waiting(src) \in Seq(Ids) /\ Waiting(dst) \in Seq(Ids)
      BY LinesAreSequences DEF IInv
    <2> DEFINE q == Waiting(src)
               d == Waiting(dst)
    <2>2. /\ Len(q) \in Nat \ {0} /\ Len(d) \in Nat
          /\ DOMAIN q = 1..Len(q) /\ DOMAIN d = 1..Len(d)
      BY <2>1
    <2>3. Head(q) \in Ids /\ Head(q) = q[1]
      BY <2>1
    <2>4. DOMAIN Waiting(src)' = 1..(Len(q) - 1)
          /\ \A i \in 1..(Len(q) - 1) : Waiting(src)'[i] = q[1 + i]
      BY <2>1
    <2>5. CASE Waiting(dst)' = Append(d, Head(q))
      <3>1. /\ DOMAIN Append(d, Head(q)) = 1..(Len(d) + 1)
            /\ Append(d, Head(q))[Len(d) + 1] = Head(q)
            /\ \A i \in 1..Len(d) : Append(d, Head(q))[i] = d[i]
        BY <2>1, <2>3
      <3> HIDE DEF q, d
      <3> QED
        BY <2>2, <2>3, <2>4, <2>5, <3>1 DEF q, d
    <2>6. CASE Waiting(dst)' = d
      BY <2>2, <2>4, <2>6
    <2> QED
      BY <2>5, <2>6
  <1>1. \A s \in Spots' : s = <<s[1], s[2]>> /\ s[1] \in Lines /\ s[2] \in DOMAIN Waiting(s[1])'
                          /\ Holds(s)' = Waiting(s[1])'[s[2]]
    BY LawsNext DEF SpotLaw
  <1>2. \A line \in Lines : \A i : <<line, i>> \in Spots <=> i \in DOMAIN Waiting(line)
    BY Laws DEF SpotLaw
  <1>3. \A line, i : Holds(<<line, i>>) = Waiting(line)[i]
    BY Laws DEF SpotLaw
  <1>4. \A line, i : <<line, i>>[1] = line /\ <<line, i>>[2] = i
    OBVIOUS
  <1>5. \A s \in Spots' :
          /\ s[1] = src => s[2] \in 1..(Len(Waiting(src)) - 1) /\ from[s] = <<src, 1 + s[2]>>
          /\ s = <<dst, end>> => from[s] = <<src, 1>>
          /\ s[1] # src /\ s # <<dst, end>> => from[s] = s /\ s[2] \in DOMAIN Waiting(s[1])
    <2>1. \A s \in Spots' : s[1] = src => s[2] \in 1..(Len(Waiting(src)) - 1)
      BY <1>0, <1>1
    <2>2. \A s \in Spots' : s[1] = dst /\ s # <<dst, end>> => s[2] \in DOMAIN Waiting(dst)
      BY <1>0, <1>1
    <2>3. \A s \in Spots' : s[1] \notin {src, dst} => s[2] \in DOMAIN Waiting(s[1])
      BY <1>1
    <2> QED
      BY <2>1, <2>2, <2>3, <1>4
  <1> HIDE DEF from, end
  <1>6. ASSUME NEW s \in Spots'
        PROVE  /\ from[s] \in Spots /\ Holds(from[s]) = Holds(s)'
               /\ from[s][1][1] = s[1][1] \/ <<from[s][1][1], s[1][1]>> \in C!Edges
    <2>1. CASE s[1] = src
      <3>1. 1 + s[2] \in DOMAIN Waiting(src)
        BY <2>1, <1>0, <1>5
      <3>2. from[s] = <<src, 1 + s[2]>> /\ from[s][1] = s[1]
        BY <2>1, <1>4, <1>5
      <3>3. Holds(s)' = Waiting(src)[1 + s[2]]
        BY <2>1, <1>0, <1>1, <1>5
      <3> QED
        BY <3>1, <3>2, <3>3, <1>2, <1>3
    <2>2. CASE s = <<dst, end>>
      <3>1. 1 \in DOMAIN Waiting(src)
        BY <1>0
      <3>2. s[1] = dst /\ s[2] = end
        BY <2>2, <1>4
      <3> QED
        BY <2>2, <3>1, <3>2, <1>0, <1>1, <1>2, <1>3, <1>4, <1>5
    <2>3. CASE s[1] # src /\ s # <<dst, end>>
      <3>1. s[2] \in DOMAIN Waiting(s[1]) /\ from[s] = s
        BY <2>3, <1>5
      <3>2. Waiting(s[1])'[s[2]] = Waiting(s[1])[s[2]]
        BY <2>3, <3>1, <1>0, <1>1
      <3> QED
        BY <3>1, <3>2, <1>1, <1>2, <1>3
    <2> QED
      BY <2>1, <2>2, <2>3
  <1>7. ASSUME NEW r \in Spots', NEW s \in Spots', from[r] = from[s]
        PROVE  r = s
    <2>1. \A q \in Spots' :
            /\ q[1] = src => from[q][1] = src /\ from[q][2] = 1 + q[2] /\ q[2] \in Nat \ {0}
            /\ q = <<dst, end>> => from[q][1] = src /\ from[q][2] = 1
            /\ q[1] # src /\ q # <<dst, end>>
                 => from[q][1] = q[1] /\ from[q][2] = q[2] /\ from[q][1] # src
      BY <1>0, <1>5, <1>4
    <2>2. CASE r[1] = src
      BY <2>2, <2>1, <1>7, <1>1
    <2>3. CASE r = <<dst, end>>
      BY <2>3, <2>1, <1>7, <1>1, <1>4
    <2>4. CASE r[1] # src /\ r # <<dst, end>>
      BY <2>4, <2>1, <1>7, <1>1
    <2> QED
      BY <2>2, <2>3, <2>4
  <1>8. ASSUME NEW r \in Spots
        PROVE  r[1][1] \in {"arrived", "taken"} \/ \E s \in Spots' : from[s] = r
    <2>1. r = <<r[1], r[2]>> /\ r[1] \in Lines /\ r[2] \in DOMAIN Waiting(r[1])
      BY Laws DEF SpotLaw
    <2>2. CASE r[1] = src
      BY <2>2
    <2>3. CASE r[1] # src
      <3>1. r[2] \in DOMAIN Waiting(r[1])'
        BY <2>1, <2>3, <1>0
      <3>2. r \in Spots'
        BY <2>1, <3>1, LawsNext DEF SpotLaw
      <3>3. r # <<dst, end>>
        BY <2>1, <1>0, <1>4 DEF end
      <3> QED
        BY <3>2, <3>3, <2>3, <1>5
    <2> QED
      BY <2>2, <2>3
  <1>9. prints \in Seq(Prints) /\ Once /\ Known
    BY DEF IInv, TypeOK
  <1>10. /\ \A s \in Spots' : /\ from[s] \in Spots /\ Holds(from[s]) = Holds(s)'
                               /\ \/ from[s][1][1] = s[1][1]
                                  \/ <<from[s][1][1], s[1][1]>> \in C!Edges
         /\ \A r, s \in Spots' : from[r] = from[s] => r = s
         /\ \A r \in Spots : \/ r[1][1] \in {"arrived", "taken", "offered"}
                             \/ \E s \in Spots' : from[s] = r
    BY <1>6, <1>7, <1>8
  <1> QED
    BY <1>9, <1>10, Carried

\* The first of a line goes to its end, or is dropped.
LEMMA Judged ==
    ASSUME IInv, UNCHANGED prints,
           NEW src \in Lines, src[1] = "offered",
           Waiting(src) # << >>,
           \/ Waiting(src)' = Tail(Waiting(src))
           \/ Waiting(src)' = Append(Tail(Waiting(src)), Head(Waiting(src))),
           \A line \in Lines \ {src} : Waiting(line)' = Waiting(line)
    PROVE  Once' /\ Known' /\ ConveyorStep
  <1> DEFINE end == Len(Waiting(src))
             From(s) == IF s = <<src, end>> THEN <<src, 1>>
                        ELSE IF s[1] = src THEN <<src, 1 + s[2]>> ELSE s
             from == [s \in Spots' |-> From(s)]
  <1>0. /\ end \in Nat \ {0} /\ DOMAIN Waiting(src) = 1..end
        /\ DOMAIN Waiting(src)' \subseteq 1..end
        /\ \A i \in 1..(end - 1) : Waiting(src)'[i] = Waiting(src)[1 + i]
        /\ end \in DOMAIN Waiting(src)' => Waiting(src)'[end] = Waiting(src)[1]
    <2>1. Waiting(src) \in Seq(Ids)
      BY LinesAreSequences DEF IInv
    <2> DEFINE q == Waiting(src)
    <2>2. /\ Len(q) \in Nat \ {0} /\ DOMAIN q = 1..Len(q)
          /\ Head(q) \in Ids /\ Head(q) = q[1]
      BY <2>1
    <2>3. /\ Tail(q) \in Seq(Ids) /\ Len(Tail(q)) = Len(q) - 1
          /\ \A i \in 1..(Len(q) - 1) : Tail(q)[i] = q[1 + i]
      BY <2>1, <2>2
    <2>4. CASE Waiting(src)' = Tail(q)
      BY <2>2, <2>3, <2>4
    <2>5. CASE Waiting(src)' = Append(Tail(q), Head(q))
      <3> HIDE DEF q
      <3> DEFINE t == Tail(q)
      <3>1. t \in Seq(Ids) /\ Len(t) = Len(q) - 1
        BY <2>3
      <3> HIDE DEF t
      <3>2. /\ DOMAIN Append(t, Head(q)) = 1..(Len(t) + 1)
            /\ Append(t, Head(q))[Len(t) + 1] = Head(q)
            /\ \A i \in 1..Len(t) : Append(t, Head(q))[i] = t[i]
        BY <3>1, <2>2
      <3> QED
        BY <2>2, <2>3, <2>5, <3>1, <3>2 DEF q, t
    <2> QED
      BY <2>4, <2>5
  <1>1. \A s \in Spots' : s = <<s[1], s[2]>> /\ s[1] \in Lines /\ s[2] \in DOMAIN Waiting(s[1])'
                          /\ Holds(s)' = Waiting(s[1])'[s[2]]
    BY LawsNext DEF SpotLaw
  <1>2. \A line \in Lines : \A i : <<line, i>> \in Spots <=> i \in DOMAIN Waiting(line)
    BY Laws DEF SpotLaw
  <1>3. \A line, i : Holds(<<line, i>>) = Waiting(line)[i]
    BY Laws DEF SpotLaw
  <1>4. \A line, i : <<line, i>>[1] = line /\ <<line, i>>[2] = i
    OBVIOUS
  <1>5. \A s \in Spots' :
          /\ s = <<src, end>> => from[s] = <<src, 1>>
          /\ s[1] = src /\ s # <<src, end>>
               => s[2] \in 1..(end - 1) /\ from[s] = <<src, 1 + s[2]>>
          /\ s[1] # src => from[s] = s /\ s[2] \in DOMAIN Waiting(s[1])
    <2>1. \A s \in Spots' : s[1] = src /\ s # <<src, end>> => s[2] \in 1..(end - 1)
      BY <1>0, <1>1
    <2>2. \A s \in Spots' : s[1] # src => s[2] \in DOMAIN Waiting(s[1])
      BY <1>1
    <2> QED
      BY <2>1, <2>2, <1>4
  <1> HIDE DEF from, end
  <1>6. ASSUME NEW s \in Spots'
        PROVE  /\ from[s] \in Spots /\ Holds(from[s]) = Holds(s)'
               /\ from[s][1][1] = s[1][1]
    <2>1. CASE s = <<src, end>>
      <3>1. 1 \in DOMAIN Waiting(src)
        BY <1>0
      <3>2. s[1] = src /\ s[2] = end /\ from[s] = <<src, 1>>
        BY <2>1, <1>4, <1>5
      <3>3. Holds(s)' = Waiting(src)[1]
        BY <3>2, <1>0, <1>1
      <3> QED
        BY <3>1, <3>2, <3>3, <1>2, <1>3, <1>4
    <2>2. CASE s[1] = src /\ s # <<src, end>>
      <3>1. 1 + s[2] \in DOMAIN Waiting(src)
        BY <2>2, <1>0, <1>5
      <3>2. from[s] = <<src, 1 + s[2]>> /\ from[s][1] = s[1]
        BY <2>2, <1>4, <1>5
      <3>3. Holds(s)' = Waiting(src)[1 + s[2]]
        BY <2>2, <1>0, <1>1, <1>5
      <3> QED
        BY <3>1, <3>2, <3>3, <1>2, <1>3
    <2>3. CASE s[1] # src
      BY <2>3, <1>1, <1>2, <1>3, <1>5
    <2> QED
      BY <2>1, <2>2, <2>3
  <1>7. ASSUME NEW r \in Spots', NEW s \in Spots', from[r] = from[s]
        PROVE  r = s
    <2>1. \A q \in Spots' :
            /\ q = <<src, end>> => from[q][1] = src /\ from[q][2] = 1
            /\ q[1] = src /\ q # <<src, end>>
                 => from[q][1] = src /\ from[q][2] = 1 + q[2] /\ q[2] \in Nat \ {0}
            /\ q[1] # src => from[q][1] = q[1] /\ from[q][2] = q[2]
      BY <1>0, <1>5, <1>4
    <2>2. CASE r = <<src, end>>
      BY <2>2, <2>1, <1>7, <1>1, <1>4
    <2>3. CASE r[1] = src /\ r # <<src, end>>
      BY <2>3, <2>1, <1>7, <1>1
    <2>4. CASE r[1] # src
      BY <2>4, <2>1, <1>7, <1>1, <1>4
    <2> QED
      BY <2>2, <2>3, <2>4
  <1>8. ASSUME NEW r \in Spots
        PROVE  r[1][1] = "offered" \/ \E s \in Spots' : from[s] = r
    <2>1. r = <<r[1], r[2]>> /\ r[1] \in Lines /\ r[2] \in DOMAIN Waiting(r[1])
      BY Laws DEF SpotLaw
    <2>2. CASE r[1] # src
      <3>1. r \in Spots'
        BY <2>1, <2>2, LawsNext DEF SpotLaw
      <3> QED
        BY <3>1, <2>2, <1>5
    <2> QED
      BY <2>2
  <1>9. prints \in Seq(Prints) /\ Once /\ Known
    BY DEF IInv, TypeOK
  <1>10. /\ \A s \in Spots' : /\ from[s] \in Spots /\ Holds(from[s]) = Holds(s)'
                               /\ \/ from[s][1][1] = s[1][1]
                                  \/ <<from[s][1][1], s[1][1]>> \in C!Edges
         /\ \A r, s \in Spots' : from[r] = from[s] => r = s
         /\ \A r \in Spots : \/ r[1][1] \in {"arrived", "taken", "offered"}
                             \/ \E s \in Spots' : from[s] = r
    BY <1>6, <1>7, <1>8
  <1> QED
    BY <1>9, <1>10, Carried

\* A whole line goes to the end of the backend's, in another order.
LEMMA GivenOn ==
    ASSUME IInv, UNCHANGED prints,
           NEW src \in Lines, src # Backend, src[1] = "offered",
           NEW order \in [1..Len(Waiting(src)) -> 1..Len(Waiting(src))],
           \A i, j \in 1..Len(Waiting(src)) : order[i] = order[j] => i = j,
           Waiting(src)' = << >>,
           DOMAIN Waiting(Backend)' = 1..(Len(Waiting(Backend)) + Len(Waiting(src))),
           \A i \in 1..Len(Waiting(Backend)) : Waiting(Backend)'[i] = Waiting(Backend)[i],
           \A i \in 1..Len(Waiting(src)) :
              Waiting(Backend)'[Len(Waiting(Backend)) + i] = Waiting(src)[order[i]],
           \A line \in Lines \ {src, Backend} : Waiting(line)' = Waiting(line)
    PROVE  Once' /\ Known' /\ ConveyorStep
  <1> DEFINE end == Len(Waiting(Backend))
             From(s) == IF s[1] = Backend /\ s[2] > end
                        THEN <<src, order[s[2] - end]>> ELSE s
             from == [s \in Spots' |-> From(s)]
  <1>0. /\ end \in Nat /\ DOMAIN Waiting(Backend) = 1..end
        /\ Len(Waiting(src)) \in Nat /\ DOMAIN Waiting(src) = 1..Len(Waiting(src))
        /\ Backend \in Lines
    <2>1. Backend \in Lines
      BY LineIs
    <2>2. Waiting(src) \in Seq(Ids) /\ Waiting(Backend) \in Seq(Ids)
      BY <2>1, LinesAreSequences DEF IInv
    <2> QED
      BY <2>1, <2>2
  <1>1. \A s \in Spots' : s = <<s[1], s[2]>> /\ s[1] \in Lines /\ s[2] \in DOMAIN Waiting(s[1])'
                          /\ Holds(s)' = Waiting(s[1])'[s[2]]
    BY LawsNext DEF SpotLaw
  <1>2. \A line \in Lines : \A i : <<line, i>> \in Spots <=> i \in DOMAIN Waiting(line)
    BY Laws DEF SpotLaw
  <1>3. \A line, i : Holds(<<line, i>>) = Waiting(line)[i]
    BY Laws DEF SpotLaw
  <1>4. \A line, i : <<line, i>>[1] = line /\ <<line, i>>[2] = i
    OBVIOUS
  <1>5. \A s \in Spots' :
          /\ s[1] # src
          /\ s[1] = Backend /\ s[2] > end
               => s[2] - end \in 1..Len(Waiting(src)) /\ from[s] = <<src, order[s[2] - end]>>
          /\ s[1] # Backend \/ ~(s[2] > end)
               => from[s] = s /\ s[2] \in DOMAIN Waiting(s[1])
                  /\ Waiting(s[1])'[s[2]] = Waiting(s[1])[s[2]]
    <2>1. \A s \in Spots' : s[1] # src
      BY <1>1
    <2>2. \A s \in Spots' : s[1] = Backend => s[2] \in 1..(end + Len(Waiting(src)))
      BY <1>1
    <2>3. \A s \in Spots' : s[1] = Backend /\ s[2] > end => s[2] - end \in 1..Len(Waiting(src))
      BY <2>2, <1>0
    <2>4. \A s \in Spots' : s[1] = Backend /\ ~(s[2] > end)
             => s[2] \in DOMAIN Waiting(s[1]) /\ Waiting(s[1])'[s[2]] = Waiting(s[1])[s[2]]
      BY <2>2, <1>0
    <2>5. \A s \in Spots' : s[1] # Backend
             => s[2] \in DOMAIN Waiting(s[1]) /\ Waiting(s[1])'[s[2]] = Waiting(s[1])[s[2]]
      BY <1>1, <2>1
    <2> QED
      BY <2>1, <2>3, <2>4, <2>5
  <1> HIDE DEF from
  <1>6. ASSUME NEW s \in Spots'
        PROVE  /\ from[s] \in Spots /\ Holds(from[s]) = Holds(s)'
               /\ from[s][1][1] = s[1][1] \/ <<from[s][1][1], s[1][1]>> \in C!Edges
    <2>1. CASE s[1] = Backend /\ s[2] > end
      <3> DEFINE i == s[2] - end
      <3>1. i \in 1..Len(Waiting(src)) /\ from[s] = <<src, order[i]>> /\ end + i = s[2]
        BY <2>1, <1>5, <1>0, <1>1
      <3> HIDE DEF i
      <3>2. order[i] \in DOMAIN Waiting(src)
        BY <3>1, <1>0
      <3>3. Holds(s)' = Waiting(src)[order[i]]
        BY <2>1, <3>1, <1>1
      <3>4. <<from[s][1][1], s[1][1]>> \in C!Edges
        BY <2>1, <3>1, <1>4, LineNames DEF C!Edges
      <3> QED
        BY <3>1, <3>2, <3>3, <3>4, <1>2, <1>3
    <2>2. CASE s[1] # Backend \/ ~(s[2] > end)
      BY <2>2, <1>1, <1>2, <1>3, <1>5
    <2> QED
      BY <2>1, <2>2
  <1>7. ASSUME NEW r \in Spots', NEW s \in Spots', from[r] = from[s]
        PROVE  r = s
    <2>1. \A q \in Spots' :
            /\ q[1] # src
            /\ q[1] = Backend /\ q[2] > end => from[q][1] = src /\ from[q][2] = order[q[2] - end]
            /\ q[1] # Backend \/ ~(q[2] > end) => from[q] = q
      BY <1>5, <1>4
    <2>2. CASE r[1] = Backend /\ r[2] > end
      <3>1. s[1] = Backend /\ s[2] > end
        BY <2>2, <2>1, <1>7
      <3>2. r[2] - end \in 1..Len(Waiting(src)) /\ s[2] - end \in 1..Len(Waiting(src))
        BY <2>2, <3>1, <1>5
      <3>3. order[r[2] - end] = order[s[2] - end]
        <4>1. from[r][2] = order[r[2] - end]
          BY <2>2, <2>1, <1>7
        <4>2. from[s][2] = order[s[2] - end]
          BY <3>1, <2>1, <1>7
        <4> HIDE DEF from
        <4> QED
          BY ONLY <4>1, <4>2, <1>7
      <3>4. r[2] - end = s[2] - end
        BY <3>2, <3>3
      <3>5. r[2] \in Int /\ s[2] \in Int
        BY <2>2, <3>1, <1>1, <1>0
      <3>6. r[2] = s[2]
        BY <3>4, <3>5, <1>0
      <3> QED
        BY <2>2, <3>1, <3>6, <1>1
    <2>3. CASE r[1] # Backend \/ ~(r[2] > end)
      BY <2>3, <2>1, <1>7, <1>1
    <2> QED
      BY <2>2, <2>3
  <1>8. ASSUME NEW r \in Spots
        PROVE  r[1][1] = "offered" \/ \E s \in Spots' : from[s] = r
    <2>1. r = <<r[1], r[2]>> /\ r[1] \in Lines /\ r[2] \in DOMAIN Waiting(r[1])
      BY Laws DEF SpotLaw
    <2>2. CASE r[1] = Backend
      <3>1. r[2] \in 1..end
        BY <2>1, <2>2, <1>0
      <3>2. r[2] \in DOMAIN Waiting(Backend)' /\ ~(r[2] > end)
        BY <3>1, <1>0
      <3>3. r \in Spots'
        BY <2>1, <2>2, <3>2, LawsNext DEF SpotLaw
      <3> QED
        BY <3>2, <3>3, <1>5
    <2>3. CASE r[1] \notin {src, Backend}
      <3>1. r \in Spots'
        BY <2>1, <2>3, LawsNext DEF SpotLaw
      <3> QED
        BY <3>1, <2>3, <1>5
    <2> QED
      BY <2>2, <2>3
  <1>9. prints \in Seq(Prints) /\ Once /\ Known
    BY DEF IInv, TypeOK
  <1>10. /\ \A s \in Spots' : /\ from[s] \in Spots /\ Holds(from[s]) = Holds(s)'
                               /\ \/ from[s][1][1] = s[1][1]
                                  \/ <<from[s][1][1], s[1][1]>> \in C!Edges
         /\ \A r, s \in Spots' : from[r] = from[s] => r = s
         /\ \A r \in Spots : \/ r[1][1] \in {"arrived", "taken", "offered"}
                             \/ \E s \in Spots' : from[s] = r
    BY <1>6, <1>7, <1>8
  <1>11. UNCHANGED prints
    OBVIOUS
  <1> QED
    BY ONLY <1>9, <1>10, <1>11, Carried

\* A new tick appears at the entry.
LEMMA Appears ==
    ASSUME IInv, prints' \in Seq(Prints), Len(prints') = Len(prints) + 1,
           Waiting(Entry) = << >>, Waiting(Entry)' = <<Len(prints')>>,
           \A line \in Lines \ {Entry} : Waiting(line)' = Waiting(line)
    PROVE  Once' /\ Known' /\ ConveyorStep
  <1> DEFINE new == <<Entry, 1>>
             n == Len(prints)
  <1>0. n \in Nat /\ Len(prints') = n + 1 /\ prints \in Seq(Prints) /\ Once /\ Known
        /\ Entry \in Lines
    BY LineIs DEF IInv, TypeOK
  <1>1. DOMAIN Waiting(Entry)' = {1} /\ Waiting(Entry)'[1] = n + 1 /\ DOMAIN Waiting(Entry) = {}
    BY <1>0
  <1> HIDE DEF n
  <1>2. \A s : s \in Spots' <=> s = new \/ s \in Spots
    <2> TAKE s
    <2>1. s \in Spots' \/ s \in Spots => s = <<s[1], s[2]>> /\ s[1] \in Lines
      BY Laws, LawsNext DEF SpotLaw
    <2>2. CASE s[1] = Entry /\ s = <<s[1], s[2]>>
      <3>1. s \in Spots' <=> s[2] = 1
        BY <2>2, <1>0, <1>1, LawsNext DEF SpotLaw
      <3>2. s \notin Spots
        BY <2>2, <1>0, <1>1, Laws DEF SpotLaw
      <3> QED
        BY <2>2, <3>1, <3>2
    <2>3. CASE s[1] \in Lines \ {Entry} /\ s = <<s[1], s[2]>>
      BY <2>3, Laws, LawsNext DEF SpotLaw
    <2>4. new = <<new[1], new[2]>> /\ new[1] = Entry
      OBVIOUS
    <2> QED
      BY <2>1, <2>2, <2>3, <2>4, <1>0
  <1>3. Holds(new)' = n + 1
    BY <1>1, LawsNext DEF SpotLaw
  <1>4. \A s \in Spots : s # new /\ Holds(s)' = Holds(s) /\ Holds(s) <= n
    <2> TAKE s \in Spots
    <2>1. s = <<s[1], s[2]>> /\ s[1] \in Lines /\ s[2] \in DOMAIN Waiting(s[1])
      BY Laws DEF SpotLaw
    <2>2. s[1] # Entry
      BY <2>1, <1>1
    <2>3. Holds(s) = Waiting(s[1])[s[2]] /\ Holds(s)' = Waiting(s[1])'[s[2]]
      BY <2>1, Laws, LawsNext DEF SpotLaw
    <2> QED
      BY <2>1, <2>2, <2>3, <1>0 DEF Known, n
  <1>5. \A s \in Spots : Holds(s) \in Nat
    <2> TAKE s \in Spots
    <2>1. s = <<s[1], s[2]>> /\ s[1] \in Lines /\ s[2] \in DOMAIN Waiting(s[1])
          /\ Holds(s) = Waiting(s[1])[s[2]]
      BY Laws DEF SpotLaw
    <2>2. Waiting(s[1]) \in Seq(Ids)
      BY <2>1, LinesAreSequences DEF IInv
    <2>3. Holds(s) \in Ids
      BY <2>1, <2>2
    <2> QED
      BY <2>3 DEF Ids
  <1> HIDE DEF new
  <1>6. Once'
    BY <1>0, <1>2, <1>3, <1>4, <1>5 DEF Once
  <1>7. Known'
    BY <1>0, <1>2, <1>3, <1>4, <1>5 DEF Known
  <1>8. StageLaw /\ StageLaw'
    BY StageIs, StageNext
  <1>9. ASSUME NEW id \in Ids, StageOf(id)' # StageOf(id)
        PROVE  <<StageOf(id), StageOf(id)'>> \in C!Edges
    <2>0. id \in Nat
      BY DEF Ids
    <2>1. CASE id > n + 1
      <3>1. id > n
        BY <2>0, <2>1, <1>0
      <3>2. StageOf(id) = "absent" /\ StageOf(id)' = "absent"
        BY <3>1, <2>1, <1>0, <1>6, <1>8 DEF StageLaw, n
      <3> QED
        BY <3>2, <1>9
    <2>2. CASE id = n + 1
      <3>1. StageOf(id) = "absent"
        BY <2>2, <1>0, <1>8 DEF StageLaw, n
      <3>2. new \in SpotsOf(id)'
        BY <2>2, <1>2, <1>3, LawsNext DEF SpotLaw
      <3>3. StageOf(id)' = new[1][1]
        BY <2>2, <3>2, <1>0, <1>6, <1>8 DEF StageLaw
      <3>4. new[1][1] = "arrived"
        BY LineNames DEF new
      <3> QED
        BY <3>1, <3>3, <3>4 DEF C!Edges
    <2>3. CASE id <= n
      <3>1. \A s : s \in SpotsOf(id)' <=> s \in SpotsOf(id)
        BY <2>3, <2>0, <1>0, <1>2, <1>3, <1>4, Laws, LawsNext DEF SpotLaw
      <3>2. id <= Len(prints) /\ id <= Len(prints')
        BY <2>3, <2>0, <1>0 DEF n
      <3>3. CASE SpotsOf(id) = {}
        <4>1. SpotsOf(id)' = {}
          BY <3>1, <3>3
        <4> QED
          BY <3>2, <3>3, <4>1, <1>0, <1>6, <1>8, <1>9 DEF StageLaw
      <3>4. ASSUME NEW s \in SpotsOf(id)
            PROVE  FALSE
        <4>1. StageOf(id) = s[1][1]
          BY <3>2, <3>4, <1>0, <1>8 DEF StageLaw
        <4>2. StageOf(id)' = s[1][1]
          BY <3>1, <3>2, <3>4, <1>0, <1>6, <1>8 DEF StageLaw
        <4> QED
          BY <4>1, <4>2, <1>9
      <3> QED
        BY <3>3, <3>4
    <2> QED
      BY <2>0, <2>1, <2>2, <2>3, <1>0
  <1> QED
    BY <1>6, <1>7, <1>9 DEF ConveyorStep

-----------------------------------------------------------------------------
(* The steps keep the types, and when a thread has a batch.                *)

AtWork == TypeOK /\ RawAtWork /\ CleanAtWork

LEMMA ReceiverKeeps ==
    ASSUME AtWork, Arrive \/ Enqueue \/ GiveUp
    PROVE  AtWork'
  <1>1. CASE Arrive
    <2>1. PICK p \in Prints : prints' = Append(prints, p)
      BY <1>1 DEF Arrive
    <2>2. prints' \in Seq(Prints) /\ Len(prints') = Len(prints) + 1
      BY <2>1 DEF AtWork, TypeOK
    <2>3. Len(prints') <= MaxTicks /\ pending' \in 0..Len(prints')
      BY <1>1, <2>2, Constants DEF Arrive, AtWork, TypeOK
    <2> QED
      BY <1>1, <2>2, <2>3
      DEF Arrive, AtWork, TypeOK, RawAtWork, CleanAtWork, rawSide, cleanSide
  <1>2. CASE Enqueue
    <2>1. pending \in Ids
      BY <1>2, Constants DEF Enqueue, AtWork, TypeOK, Ids
    <2>2. tickQ' \in Seq(Ids) /\ Len(tickQ') <= TickCap
      BY <1>2, <2>1, Constants DEF Enqueue, AtWork, TypeOK
    <2>3. pending' \in 0..Len(prints)
      BY <1>2 DEF Enqueue, AtWork, TypeOK
    <2> QED
      BY <1>2, <2>2, <2>3
      DEF Enqueue, AtWork, TypeOK, RawAtWork, CleanAtWork, rawSide, cleanSide
  <1>3. CASE GiveUp
    <2>1. pending' \in 0..Len(prints)
      BY <1>3 DEF GiveUp, AtWork, TypeOK
    <2> QED
      BY <1>3, <2>1
      DEF GiveUp, AtWork, TypeOK, RawAtWork, CleanAtWork, rawSide, cleanSide
  <1> QED
    BY <1>1, <1>2, <1>3

\* A step of the raw side that leaves everything typed.
LEMMA RawKeeps ==
    ASSUME AtWork, NEW t \in RawThreads, NEW r \in RawThread,
           raw' = [raw EXCEPT ![t] = r],
           r.batch # << >> <=> r.pc \in {"read", "write", "forward"},
           UNCHANGED <<receiver, cleanSide>>,
           tickQ' \in Seq(Ids), Len(tickQ') <= TickCap,
           rawStop' \in BOOLEAN, rawThread' \in {0} \cup RawThreads,
           rawFile' \in Seq(Ids), forwarded' \in Nat,
           cleanQ' \in Seq(Ids), Len(cleanQ') <= CleanCap,
           offered' \subseteq Ids, stops' = stops
    PROVE  AtWork'
  <1>1. raw' \in [RawThreads -> RawThread]
    BY DEF AtWork, TypeOK
  <1>2. RawAtWork'
    BY DEF AtWork, TypeOK, RawAtWork
  <1> QED
    BY <1>1, <1>2 DEF AtWork, TypeOK, CleanAtWork, receiver, cleanSide

\* The same of the clean side.
LEMMA CleanKeeps ==
    ASSUME AtWork, NEW t \in CleanThreads, NEW c \in CleanThread,
           clean' = [clean EXCEPT ![t] = c],
           c.batch # << >> <=> c.pc \in {"judge", "remember"},
           c.kept # << >> => c.pc \in {"judge", "remember", "broadcast"},
           UNCHANGED <<receiver, tickQ, rawSide, offered>>,
           cleanQ' \in Seq(Ids), Len(cleanQ') <= CleanCap,
           cleanStop' \in BOOLEAN, cleanThread' \in {0} \cup CleanThreads,
           history' \in Seq(Prints), Len(history') <= HistoryLimit,
           \A k \in DOMAIN lastPrint' : lastPrint'[k] \in Prints,
           structured' \in Seq(Ids), broadcast' \in Seq(Ids), stops' = stops
    PROVE  AtWork'
  <1>1. clean' \in [CleanThreads -> CleanThread]
    BY DEF AtWork, TypeOK
  <1>2. CleanAtWork'
    BY DEF AtWork, TypeOK, CleanAtWork
  <1> QED
    BY <1>1, <1>2 DEF AtWork, TypeOK, RawAtWork, receiver, rawSide

\* A stop touches no thread.
LEMMA StopsKeep ==
    ASSUME AtWork, StopRaw \/ StopClean
    PROVE  AtWork'
  <1>1. stops' \in 0..MaxStops
    <2>1. stops \in 0..MaxStops /\ stops < MaxStops /\ stops' = stops + 1
      BY DEF StopRaw, StopClean, AtWork, TypeOK
    <2> QED
      BY <2>1, Constants
  <1>2. CASE StopRaw
    BY <1>1, <1>2 DEF StopRaw, AtWork, TypeOK, RawAtWork, CleanAtWork, receiver, cleanSide
  <1>3. CASE StopClean
    BY <1>1, <1>3 DEF StopClean, AtWork, TypeOK, RawAtWork, CleanAtWork, receiver, rawSide
  <1> QED
    BY <1>2, <1>3

-----------------------------------------------------------------------------
(* Every action keeps the invariant and is a step of the Conveyor.         *)

Kept == IInv' /\ ConveyorStep

LEMMA ArriveStep == IInv /\ Arrive => Kept
  <1> SUFFICES ASSUME IInv, Arrive PROVE Kept
    OBVIOUS
  <1>1. AtWork'
    BY ReceiverKeeps DEF IInv, AtWork
  <1>2. prints' \in Seq(Prints) /\ Len(prints') = Len(prints) + 1
        /\ pending = 0 /\ pending' = Len(prints') /\ pending' # 0
    BY DEF Arrive, IInv, TypeOK
  <1>3. Waiting(Entry) = << >> /\ Waiting(Entry)' = <<Len(prints')>>
    BY <1>2, Laws, LawsNext DEF LineLaw
  <1>4. \A line \in Lines \ {Entry} : Waiting(line)' = Waiting(line)
    BY LineLeft DEF Arrive, rawSide, cleanSide
  <1>5. Once' /\ Known' /\ ConveyorStep
    BY <1>2, <1>3, <1>4, Appears
  <1> QED
    BY <1>1, <1>5 DEF Kept, IInv, AtWork

\* The arrived tick is put into the queue or given up.
LEMMA EntryStep == IInv /\ (Enqueue \/ GiveUp) => Kept
  <1> SUFFICES ASSUME IInv, Enqueue \/ GiveUp PROVE Kept
    OBVIOUS
  <1>1. AtWork'
    BY ReceiverKeeps DEF IInv, AtWork
  <1>2. pending # 0 /\ pending' = 0 /\ UNCHANGED <<prints, rawSide, cleanQ, cleanSide>>
    BY DEF Enqueue, GiveUp
  <1>3. Waiting(Entry) = <<pending>> /\ Waiting(Entry)' = << >>
    BY <1>2, Laws, LawsNext DEF LineLaw
  <1>4. \A line \in Lines \ {Entry, TickLine} : Waiting(line)' = Waiting(line)
    BY <1>2, LineLeft DEF rawSide, cleanSide
  <1>5. \/ Waiting(TickLine)' = Append(Waiting(TickLine), pending)
        \/ Waiting(TickLine)' = Waiting(TickLine)
    BY Laws, LawsNext DEF LineLaw, Enqueue, GiveUp
  <1>6. Entry \in Lines /\ TickLine \in Lines /\ Entry # TickLine
        /\ <<Entry[1], TickLine[1]>> \in C!Edges /\ Entry[1] \in {"arrived", "taken"}
    BY LineIs, LineNames DEF C!Edges
  <1>7. /\ Waiting(Entry) # << >> /\ Waiting(Entry)' = Tail(Waiting(Entry))
        /\ Head(Waiting(Entry)) = pending
    BY <1>3
  <1>8. Once' /\ Known' /\ ConveyorStep
    BY <1>2, <1>4, <1>5, <1>6, <1>7, HandedOn
  <1> QED
    BY <1>1, <1>8 DEF Kept, IInv, AtWork

\* A step that changes no line: its types are what is to be shown.
LEMMA Stays ==
    ASSUME IInv, AtWork',
           UNCHANGED <<prints, pending, tickQ, cleanQ, broadcast>>,
           \A t \in RawThreads : raw'[t].batch = raw[t].batch,
           \A t \in CleanThreads :
              clean'[t].batch = clean[t].batch /\ clean'[t].kept = clean[t].kept
    PROVE  Kept
  <1>1. \A line \in Lines : Waiting(line)' = Waiting(line)
    BY LineLeft
  <1>2. Once' /\ Known' /\ ConveyorStep
    BY <1>1, LeftAlone
  <1> QED
    BY <1>2 DEF Kept, IInv, AtWork

LEMMA StopStep == IInv /\ (StopRaw \/ StopClean) => Kept
  <1> SUFFICES ASSUME IInv, StopRaw \/ StopClean PROVE Kept
    OBVIOUS
  <1>1. AtWork'
    BY StopsKeep DEF IInv, AtWork
  <1>2. UNCHANGED <<prints, pending, tickQ, cleanQ, broadcast, raw, clean>>
    BY DEF StopRaw, StopClean, receiver, rawSide, cleanSide
  <1> QED
    BY <1>1, <1>2, Stays

\* Starting, checking the stop event, reading and writing the raw file.
LEMMA RawQuietStep ==
    ASSUME IInv, StartRaw \/ \E t \in RawThreads : RawCheck(t) \/ RawRead(t) \/ RawWrite(t)
    PROVE  Kept
  <1>1. \E t \in RawThreads, r \in RawThread :
          /\ raw' = [raw EXCEPT ![t] = r] /\ r.batch = raw[t].batch
          /\ r.batch # << >> <=> r.pc \in {"read", "write", "forward"}
    <2>1. CASE StartRaw
      <3>1. PICK t \in RawThreads : raw[t].pc = "unborn" /\ raw' = [raw EXCEPT ![t].pc = "check"]
        BY <2>1 DEF StartRaw
      <3> DEFINE r == [raw[t] EXCEPT !.pc = "check"]
      <3>2. raw[t] \in RawThread
        BY DEF IInv, TypeOK
      <3>3. r \in RawThread /\ r.batch = raw[t].batch /\ r.pc = "check"
        BY <3>2 DEF RawThread
      <3>4. r.batch = << >>
        BY <3>1, <3>3 DEF IInv, RawAtWork
      <3>5. raw' = [raw EXCEPT ![t] = r]
        BY <3>1
      <3> QED
        BY <3>3, <3>4, <3>5
    <2>2. ASSUME NEW t \in RawThreads, RawCheck(t)
          PROVE  \E r \in RawThread :
                   /\ raw' = [raw EXCEPT ![t] = r] /\ r.batch = raw[t].batch
                   /\ r.batch # << >> <=> r.pc \in {"read", "write", "forward"}
      <3> DEFINE r == [raw[t] EXCEPT !.pc = IF rawStop THEN "gone" ELSE "take"]
      <3>1. raw[t] \in RawThread
        BY DEF IInv, TypeOK
      <3>2. r \in RawThread /\ r.batch = raw[t].batch /\ r.pc \in {"gone", "take"}
        BY <3>1 DEF RawThread
      <3>3. r.batch = << >>
        BY <2>2, <3>2 DEF IInv, RawAtWork, RawCheck
      <3>4. raw' = [raw EXCEPT ![t] = r]
        BY <2>2 DEF RawCheck
      <3> QED
        BY <3>2, <3>3, <3>4
    <2>3. ASSUME NEW t \in RawThreads, RawRead(t)
          PROVE  \E r \in RawThread :
                   /\ raw' = [raw EXCEPT ![t] = r] /\ r.batch = raw[t].batch
                   /\ r.batch # << >> <=> r.pc \in {"read", "write", "forward"}
      <3> DEFINE r == [raw[t] EXCEPT !.pc = "write", !.seen = rawFile]
      <3>1. raw[t] \in RawThread /\ rawFile \in Seq(Ids)
        BY DEF IInv, TypeOK
      <3>2. r \in RawThread /\ r.batch = raw[t].batch /\ r.pc = "write"
        BY <3>1 DEF RawThread
      <3>3. r.batch # << >>
        BY <2>3, <3>2 DEF IInv, RawAtWork, RawRead
      <3>4. raw' = [raw EXCEPT ![t] = r]
        BY <2>3, <3>1 DEF RawRead, RawThread
      <3> QED
        BY <3>2, <3>3, <3>4
    <2>4. ASSUME NEW t \in RawThreads, RawWrite(t)
          PROVE  \E r \in RawThread :
                   /\ raw' = [raw EXCEPT ![t] = r] /\ r.batch = raw[t].batch
                   /\ r.batch # << >> <=> r.pc \in {"read", "write", "forward"}
      <3> DEFINE r == [raw[t] EXCEPT !.pc = "forward", !.seen = << >>]
      <3>1. raw[t] \in RawThread /\ << >> \in Seq(Ids)
        BY DEF IInv, TypeOK
      <3>2. r \in RawThread /\ r.batch = raw[t].batch /\ r.pc = "forward"
        BY <3>1 DEF RawThread
      <3>3. r.batch # << >>
        BY <2>4, <3>2 DEF IInv, RawAtWork, RawWrite
      <3>4. raw' = [raw EXCEPT ![t] = r]
        BY <2>4, <3>1 DEF RawWrite, RawThread
      <3> QED
        BY <3>2, <3>3, <3>4
    <2> QED
      BY <2>1, <2>2, <2>3, <2>4
  <1>2. /\ UNCHANGED <<receiver, tickQ, forwarded, cleanQ, cleanSide, offered, stops>>
        /\ rawStop' \in BOOLEAN /\ rawThread' \in {0} \cup RawThreads
    BY DEF StartRaw, RawCheck, RawRead, RawWrite, IInv, TypeOK
  <1>3. rawFile' \in Seq(Ids)
    <2>1. ASSUME NEW t \in RawThreads, RawWrite(t)
          PROVE  rawFile' \in Seq(Ids)
      <3>1. raw[t].seen \in Seq(Ids) /\ raw[t].batch \in Seq(Ids) /\ rawFile \in Seq(Ids)
        BY DEF IInv, TypeOK, RawThread
      <3>2. raw[t].seen \o raw[t].batch \in Seq(Ids)
        BY <3>1
      <3> QED
        BY <2>1, <3>1, <3>2 DEF RawWrite, Appended
    <2> QED
      BY <2>1 DEF StartRaw, RawCheck, RawRead, IInv, TypeOK
  <1>4. AtWork'
    BY <1>1, <1>2, <1>3, RawKeeps DEF IInv, AtWork, TypeOK
  <1>5. \A t \in RawThreads : raw'[t].batch = raw[t].batch
    BY <1>1 DEF IInv, TypeOK
  <1> QED
    BY <1>2, <1>4, <1>5, Stays DEF receiver, cleanSide

\* The batch that cannot be written anywhere is dropped.
LEMMA RawDropsStep ==
    ASSUME IInv, NEW t \in RawThreads, RawDrops(t)
    PROVE  Kept
  <1> DEFINE r == [raw[t] EXCEPT !.pc = "check", !.batch = << >>]
  <1>1. raw[t] \in RawThread /\ << >> \in Seq(Ids)
    BY DEF IInv, TypeOK
  <1>2. r \in RawThread /\ r.batch = << >> /\ r.pc = "check"
    BY <1>1 DEF RawThread
  <1>3. raw' = [raw EXCEPT ![t] = r]
    BY <1>1 DEF RawDrops, RawThread
  <1>4. UNCHANGED <<receiver, tickQ, rawStop, rawThread, rawFile, forwarded, cleanQ,
                    cleanSide, offered, stops>>
    BY DEF RawDrops
  <1> HIDE DEF r
  <1>5. AtWork'
    BY <1>2, <1>3, <1>4, RawKeeps DEF IInv, AtWork, TypeOK
  <1>6. /\ raw'[t].batch = << >>
        /\ \A u \in RawThreads \ {t} : raw'[u].batch = raw[u].batch
    BY <1>2, <1>3 DEF IInv, TypeOK
  <1>7. RawLine(t)[1] = "taken" /\ Waiting(RawLine(t))' = << >>
    BY <1>6, LineNames, LawsNext DEF LineLaw
  <1>8. ASSUME NEW line \in Lines, line # RawLine(t)
        PROVE  Waiting(line)' = Waiting(line)
    BY <1>4, <1>6, <1>8, LineLeft DEF receiver, cleanSide
  <1>9. Once' /\ Known' /\ ConveyorStep
    BY <1>4, <1>7, <1>8, LeftAlone DEF receiver
  <1> QED
    BY <1>5, <1>9 DEF Kept, IInv, AtWork

LEMMA RawTakeStep ==
    ASSUME IInv, NEW t \in RawThreads, RawTake(t)
    PROVE  Kept
  <1> DEFINE b == Batch(tickQ)
  <1>0. raw[t] \in RawThread /\ raw[t].pc = "take" /\ raw[t].batch = << >>
        /\ tickQ \in Seq(Ids) /\ Len(tickQ) <= TickCap /\ Len(tickQ) \in Nat
    <2>1. raw[t] \in RawThread /\ tickQ \in Seq(Ids) /\ Len(tickQ) <= TickCap
      BY DEF IInv, TypeOK
    <2>2. raw[t].pc = "take"
      BY DEF RawTake
    <2>3. raw[t].batch = << >>
      BY <2>2 DEF IInv, RawAtWork
    <2> QED
      BY <2>1, <2>2, <2>3
  <1>r. /\ UNCHANGED <<receiver, cleanSide>>
        /\ rawStop' \in BOOLEAN /\ rawThread' \in {0} \cup RawThreads
        /\ rawFile' \in Seq(Ids) /\ forwarded' \in Nat
        /\ cleanQ' \in Seq(Ids) /\ Len(cleanQ') <= CleanCap
        /\ offered' \subseteq Ids /\ stops' = stops /\ AtWork
    BY DEF RawTake, IInv, TypeOK, AtWork
  <1>1. PICK n \in 0..Len(tickQ) :
          /\ tickQ # << >> => n > 0
          /\ b[1] \in Seq(Ids) /\ Len(b[1]) = n
          /\ b[2] \in Seq(Ids) /\ Len(b[2]) = Len(tickQ) - n
          /\ \A i \in 1..n : b[1][i] = tickQ[i]
          /\ \A i \in 1..(Len(tickQ) - n) : b[2][i] = tickQ[n + i]
    BY <1>0, BatchSplits
  <1> HIDE DEF b
  <1>2. CASE Ready(b[1])
    <2> DEFINE r == [raw[t] EXCEPT !.batch = b[1], !.pc = "read"]
    <2>1. r \in RawThread /\ r.batch = b[1] /\ r.pc = "read" /\ b[1] # << >>
      BY <1>0, <1>1, <1>2 DEF RawThread, Ready
    <2>2. tickQ' = b[2] /\ raw' = [raw EXCEPT ![t].batch = b[1], ![t].pc = "read"]
      BY <1>2 DEF RawTake, b
    <2>3. raw' = [raw EXCEPT ![t] = r]
      BY <2>2, <1>0 DEF RawThread
    <2> HIDE DEF r
    <2>4. Len(tickQ') <= TickCap
      BY <2>2, <1>0, <1>1, Constants
    <2>5. AtWork'
      <3>1. tickQ' \in Seq(Ids)
        BY <2>2, <1>1
      <3>2. r.batch # << >> <=> r.pc \in {"read", "write", "forward"}
        BY <2>1
      <3> QED
        BY <2>1, <2>3, <2>4, <3>1, <3>2, <1>r, RawKeeps
    <2>6. Waiting(TickLine) = tickQ /\ Waiting(RawLine(t)) = << >>
          /\ Waiting(TickLine)' = b[2] /\ Waiting(RawLine(t))' = b[1]
      <3>1. raw'[t].batch = b[1]
        BY <2>1, <2>3 DEF IInv, TypeOK
      <3> QED
        BY <3>1, <2>2, <1>0, Laws, LawsNext DEF LineLaw
    <2>7. \A line \in Lines \ {TickLine, RawLine(t)} : Waiting(line)' = Waiting(line)
      <3>1. \A u \in RawThreads : u # t => raw'[u] = raw[u]
        BY <2>3 DEF IInv, TypeOK
      <3> QED
        BY <3>1, LineLeft DEF RawTake, receiver, cleanSide
    <2>8. TickLine \in Lines /\ RawLine(t) \in Lines /\ TickLine # RawLine(t)
          /\ <<TickLine[1], RawLine(t)[1]>> \in C!Edges
      BY LineIs, LineNames DEF C!Edges
    <2>9. /\ DOMAIN b[2] = 1..(Len(tickQ) - n) /\ DOMAIN b[1] = 1..n
      BY <1>1
    <2>10. UNCHANGED prints
      BY DEF RawTake, receiver
    <2>11. /\ DOMAIN Waiting(TickLine)' = 1..(Len(Waiting(TickLine)) - n)
           /\ \A i \in 1..(Len(Waiting(TickLine)) - n) :
                 Waiting(TickLine)'[i] = Waiting(TickLine)[n + i]
           /\ DOMAIN Waiting(RawLine(t))' = 1..n
           /\ \A i \in 1..n : Waiting(RawLine(t))'[i] = Waiting(TickLine)[i]
           /\ n \in 0..Len(Waiting(TickLine))
      BY <1>1, <2>6, <2>9
    <2>12. Once' /\ Known' /\ ConveyorStep
      BY <2>6, <2>7, <2>8, <2>10, <2>11, BatchTaken, SMTT(30)
    <2> QED
      BY <2>5, <2>12 DEF Kept, IInv, AtWork
  <1>3. CASE ~Ready(b[1])
    <2> DEFINE r == [raw[t] EXCEPT !.batch = << >>, !.pc = "check"]
    <2>0. << >> \in Seq(Ids)
      OBVIOUS
    <2>1. r \in RawThread /\ r.batch = << >> /\ r.pc = "check"
      BY <2>0, <1>0 DEF RawThread
    <2>2. tickQ' = tickQ /\ raw' = [raw EXCEPT ![t].batch = << >>, ![t].pc = "check"]
      BY <1>3 DEF RawTake, b
    <2>3. raw' = [raw EXCEPT ![t] = r]
      BY <2>2, <1>0 DEF RawThread
    <2> HIDE DEF r
    <2>4. AtWork'
      <3>1. tickQ' \in Seq(Ids) /\ Len(tickQ') <= TickCap
        BY <2>2, <1>0
      <3>2. r.batch # << >> <=> r.pc \in {"read", "write", "forward"}
        BY <2>1
      <3> QED
        BY <2>1, <2>3, <3>1, <3>2, <1>r, RawKeeps
    <2>5. \A u \in RawThreads : raw'[u].batch = raw[u].batch
      BY <2>1, <2>3, <1>0 DEF IInv, TypeOK
    <2> QED
      BY <2>2, <2>4, <2>5, Stays DEF RawTake, receiver, cleanSide
  <1> QED
    BY <1>2, <1>3

LEMMA RawForwardStep ==
    ASSUME IInv, NEW t \in RawThreads, RawForward(t)
    PROVE  Kept
  <1> DEFINE q == raw[t].batch
             r == [raw[t] EXCEPT !.batch = Tail(q),
                                 !.pc = IF Len(q) = 1 THEN "check" ELSE "forward"]
  <1>0. raw[t] \in RawThread /\ q \in Seq(Ids) /\ q # << >>
        /\ cleanQ \in Seq(Ids) /\ Len(cleanQ) <= CleanCap
    <2>1. raw[t] \in RawThread /\ cleanQ \in Seq(Ids) /\ Len(cleanQ) <= CleanCap
      BY DEF IInv, TypeOK
    <2>2. raw[t].pc = "forward"
      BY DEF RawForward
    <2>3. q # << >>
      BY <2>2 DEF IInv, RawAtWork
    <2> QED
      BY <2>1, <2>3 DEF RawThread
  <1>1. Tail(q) \in Seq(Ids) /\ (Tail(q) = << >> <=> Len(q) = 1) /\ Head(q) \in Ids
    BY <1>0, HeadAndTail
  <1>2. /\ r \in RawThread /\ r.batch = Tail(q)
        /\ r.batch # << >> <=> r.pc \in {"read", "write", "forward"}
    BY <1>0, <1>1 DEF RawThread
  <1>3. raw' = [raw EXCEPT ![t] = r]
    BY <1>0 DEF RawForward, RawThread
  <1>4. \/ cleanQ' = Append(cleanQ, Head(q)) /\ Len(cleanQ) < CleanCap
           /\ offered' = offered \cup {Head(q)}
        \/ UNCHANGED <<cleanQ, offered>>
    BY DEF RawForward, RoomForCleaner
  <1> HIDE DEF q, r
  <1>5. cleanQ' \in Seq(Ids) /\ Len(cleanQ') <= CleanCap /\ offered' \subseteq Ids
    <2>1. offered \subseteq Ids
      BY DEF IInv, TypeOK
    <2>2. CASE UNCHANGED <<cleanQ, offered>>
      BY <2>1, <2>2, <1>0
    <2>3. CASE cleanQ' = Append(cleanQ, Head(q)) /\ Len(cleanQ) < CleanCap
                 /\ offered' = offered \cup {Head(q)}
      <3>1. cleanQ' \in Seq(Ids) /\ Len(cleanQ') = Len(cleanQ) + 1
        BY <2>3, <1>0, <1>1
      <3> QED
        BY <2>1, <2>3, <3>1, <1>0, <1>1, Constants
    <2> QED
      BY <2>2, <2>3, <1>4
  <1>6. AtWork'
    <2>1. forwarded' \in Nat
      BY DEF RawForward, IInv, TypeOK
    <2> QED
      BY <1>2, <1>3, <1>5, <2>1, RawKeeps DEF RawForward, IInv, AtWork, TypeOK
  <1>7. Waiting(RawLine(t)) = q /\ Waiting(RawLine(t))' = Tail(q)
    <2>1. raw'[t].batch = Tail(q)
      BY <1>2, <1>3 DEF IInv, TypeOK
    <2> QED
      BY <2>1, Laws, LawsNext DEF LineLaw, q
  <1>8. \/ Waiting(CleanerLine)' = Append(Waiting(CleanerLine), Head(q))
        \/ Waiting(CleanerLine)' = Waiting(CleanerLine)
    BY <1>4, Laws, LawsNext DEF LineLaw
  <1>9. \A line \in Lines \ {RawLine(t), CleanerLine} : Waiting(line)' = Waiting(line)
    <2>1. \A u \in RawThreads : u # t => raw'[u] = raw[u]
      BY <1>3 DEF IInv, TypeOK
    <2> QED
      BY <2>1, LineLeft DEF RawForward, receiver, cleanSide
  <1>10. RawLine(t) \in Lines /\ CleanerLine \in Lines /\ RawLine(t) # CleanerLine
         /\ <<RawLine(t)[1], CleanerLine[1]>> \in C!Edges
         /\ RawLine(t)[1] \in {"arrived", "taken"}
    BY LineIs, LineNames DEF C!Edges
  <1>11. UNCHANGED prints
    BY DEF RawForward, receiver
  <1>12. Once' /\ Known' /\ ConveyorStep
    BY <1>0, <1>7, <1>8, <1>9, <1>10, <1>11, HandedOn
  <1> QED
    BY <1>6, <1>12 DEF Kept, IInv, AtWork

\* What a clean thread may become: typed, with ticks in hand as its place
\* says.
CleanAs(c) ==
    /\ c \in CleanThread
    /\ c.batch # << >> <=> c.pc \in {"judge", "remember"}
    /\ c.kept # << >> => c.pc \in {"judge", "remember", "broadcast"}

LEMMA CleanIs == IInv => \A t \in CleanThreads : CleanAs(clean[t])
  BY DEF IInv, TypeOK, CleanAtWork, CleanAs

\* A clean thread keeps its ticks in hand and only changes where it is, its
\* verdict, its buffer or what it read.
Turn(c, pc, duplicate, buffer, seen) ==
    [c EXCEPT !.pc = pc, !.duplicate = duplicate, !.buffer = buffer, !.seen = seen]

LEMMA Turned ==
    ASSUME NEW c, CleanAs(c), NEW pc, NEW duplicate \in BOOLEAN,
           NEW buffer \in Seq(Ids), NEW seen \in Seq(Ids),
           \/ {c.pc, pc} \subseteq {"judge", "remember"}
           \/ {c.pc, pc} \subseteq {"unborn", "check", "take", "flush", "write", "gone"}
    PROVE  LET d == Turn(c, pc, duplicate, buffer, seen) IN
             CleanAs(d) /\ d.batch = c.batch /\ d.kept = c.kept
  <1> DEFINE d == Turn(c, pc, duplicate, buffer, seen)
  <1>1. d \in CleanThread /\ d.batch = c.batch /\ d.kept = c.kept /\ d.pc = pc
    BY DEF CleanAs, CleanThread, Turn
  <1> HIDE DEF d
  <1>2. CleanAs(d)
    BY <1>1 DEF CleanAs
  <1> QED
    BY <1>1, <1>2 DEF d

\* Starting, checking the stop event, judging, and writing the structured
\* file.
LEMMA CleanQuietStep ==
    ASSUME IInv,
           \/ StartClean
           \/ \E t \in CleanThreads :
                CleanCheck(t) \/ CleanJudge(t) \/ CleanFlush(t) \/ CleanWrite(t)
    PROVE  Kept
  <1> DEFINE Fits(t, d) == /\ clean' = [clean EXCEPT ![t] = d] /\ CleanAs(d)
                           /\ d.batch = clean[t].batch /\ d.kept = clean[t].kept
  <1>0. clean \in [CleanThreads -> CleanThread] /\ << >> \in Seq(Ids)
        /\ structured \in Seq(Ids) /\ \A t \in CleanThreads : CleanAs(clean[t])
    BY CleanIs DEF IInv, TypeOK
  <1>f. \A t \in CleanThreads :
          /\ clean[t].duplicate \in BOOLEAN /\ clean[t].buffer \in Seq(Ids)
          /\ clean[t].seen \in Seq(Ids) /\ clean[t].batch \in Seq(Ids)
          /\ clean[t].kept \in Seq(Ids)
    BY <1>0 DEF CleanThread
  <1>n. PICK none \in Seq(Ids) : none = << >>
    BY <1>0
  <1>1. \E t \in CleanThreads : \E d : Fits(t, d)
    <2>1. CASE StartClean
      <3>1. PICK t \in CleanThreads :
              clean[t].pc = "unborn" /\ clean' = [clean EXCEPT ![t].pc = "check"]
        BY <2>1 DEF StartClean
      <3> DEFINE d == Turn(clean[t], "check", clean[t].duplicate, clean[t].buffer, clean[t].seen)
      <3>2. CleanAs(d) /\ d.batch = clean[t].batch /\ d.kept = clean[t].kept
        BY <3>1, <1>0, <1>f, Turned
      <3>3. clean' = [clean EXCEPT ![t] = d]
        BY <3>1, <1>0 DEF CleanThread, Turn
      <3> QED
        BY <3>2, <3>3
    <2>2. ASSUME NEW t \in CleanThreads, CleanCheck(t)
          PROVE  \E d : Fits(t, d)
      <3>1. clean[t].pc = "check"
        BY <2>2 DEF CleanCheck
      <3>2. CASE cleanStop
        <4> DEFINE d == Turn(clean[t], "gone", clean[t].duplicate, none, clean[t].seen)
        <4>1. CleanAs(d) /\ d.batch = clean[t].batch /\ d.kept = clean[t].kept
          BY <3>1, <1>0, <1>f, Turned
        <4>2. clean' = [clean EXCEPT ![t] = d]
          BY <2>2, <3>2, <1>0, <1>n DEF CleanCheck, CleanThread, Turn
        <4> QED
          BY <4>1, <4>2
      <3>3. CASE ~cleanStop
        <4> DEFINE d == Turn(clean[t], "take", clean[t].duplicate, clean[t].buffer, clean[t].seen)
        <4>1. CleanAs(d) /\ d.batch = clean[t].batch /\ d.kept = clean[t].kept
          BY <3>1, <1>0, <1>f, Turned
        <4>2. clean' = [clean EXCEPT ![t] = d]
          BY <2>2, <3>3, <1>0 DEF CleanCheck, CleanThread, Turn
        <4> QED
          BY <4>1, <4>2
      <3> QED
        BY <3>2, <3>3
    <2>3. ASSUME NEW t \in CleanThreads, CleanJudge(t)
          PROVE  \E d : Fits(t, d)
      <3> DEFINE verdict == IsDuplicate(prints[Head(clean[t].batch)])
                 d == Turn(clean[t], "remember", verdict, clean[t].buffer, clean[t].seen)
      <3>1. clean[t].pc = "judge"
            /\ clean' = [clean EXCEPT ![t].pc = "remember", ![t].duplicate = verdict]
        BY <2>3 DEF CleanJudge
      <3>2. verdict \in BOOLEAN
        BY DEF IsDuplicate
      <3> HIDE DEF verdict
      <3>3. CleanAs(d) /\ d.batch = clean[t].batch /\ d.kept = clean[t].kept
        BY <3>1, <3>2, <1>0, <1>f, Turned
      <3>4. clean' = [clean EXCEPT ![t] = d]
        BY <3>1, <1>0 DEF CleanThread, Turn
      <3> QED
        BY <3>3, <3>4
    <2>4. ASSUME NEW t \in CleanThreads, CleanFlush(t)
          PROVE  \E d : Fits(t, d)
      <3>1. clean[t].pc = "flush"
        BY <2>4 DEF CleanFlush
      <3>2. CASE clean' = [clean EXCEPT ![t].pc = "check"]
        <4> DEFINE d == Turn(clean[t], "check", clean[t].duplicate, clean[t].buffer, clean[t].seen)
        <4>1. CleanAs(d) /\ d.batch = clean[t].batch /\ d.kept = clean[t].kept
          BY <3>1, <1>0, <1>f, Turned
        <4>2. clean' = [clean EXCEPT ![t] = d]
          BY <3>2, <1>0 DEF CleanThread, Turn
        <4> QED
          BY <4>1, <4>2
      <3>3. CASE clean' = [clean EXCEPT ![t].pc = "write", ![t].seen = structured]
        <4> DEFINE d == Turn(clean[t], "write", clean[t].duplicate, clean[t].buffer, structured)
        <4>1. CleanAs(d) /\ d.batch = clean[t].batch /\ d.kept = clean[t].kept
          BY <3>1, <1>0, <1>f, Turned
        <4>2. clean' = [clean EXCEPT ![t] = d]
          BY <3>3, <1>0 DEF CleanThread, Turn
        <4> QED
          BY <4>1, <4>2
      <3> QED
        BY <2>4, <3>2, <3>3 DEF CleanFlush
    <2>5. ASSUME NEW t \in CleanThreads, CleanWrite(t)
          PROVE  \E d : Fits(t, d)
      <3> DEFINE d == Turn(clean[t], "check", clean[t].duplicate, none, none)
      <3>1. clean[t].pc = "write"
            /\ clean' = [clean EXCEPT ![t].pc = "check", ![t].seen = << >>, ![t].buffer = << >>]
        BY <2>5 DEF CleanWrite, BufferAfterWrite
      <3>2. CleanAs(d) /\ d.batch = clean[t].batch /\ d.kept = clean[t].kept
        BY <3>1, <1>0, <1>f, Turned
      <3>3. clean' = [clean EXCEPT ![t] = d]
        BY <3>1, <1>0, <1>n DEF CleanThread, Turn
      <3> QED
        BY <3>2, <3>3
    <2> HIDE DEF Fits
    <2> QED
      BY <2>1, <2>2, <2>3, <2>4, <2>5
  <1>2. /\ UNCHANGED <<receiver, tickQ, rawSide, cleanQ, history, lastPrint, broadcast,
                       offered, stops>>
        /\ cleanStop' \in BOOLEAN /\ cleanThread' \in {0} \cup CleanThreads
    BY DEF StartClean, CleanCheck, CleanJudge, CleanFlush, CleanWrite, IInv, TypeOK
  <1>3. structured' \in Seq(Ids)
    <2>1. ASSUME NEW t \in CleanThreads, CleanWrite(t)
          PROVE  structured' \in Seq(Ids)
      <3>1. clean[t].seen \o clean[t].buffer \in Seq(Ids)
        BY <1>f
      <3> QED
        BY <2>1, <3>1, <1>0 DEF CleanWrite, Appended
    <2> QED
      BY <2>1, <1>0 DEF StartClean, CleanCheck, CleanJudge, CleanFlush
  <1>4. PICK t \in CleanThreads : \E d : Fits(t, d)
    BY <1>1
  <1>p. PICK d : Fits(t, d)
    BY <1>4
  <1>5. AtWork'
    <2>1. /\ AtWork /\ cleanQ' \in Seq(Ids) /\ Len(cleanQ') <= CleanCap
          /\ history' \in Seq(Prints) /\ Len(history') <= HistoryLimit
          /\ \A k \in DOMAIN lastPrint' : lastPrint'[k] \in Prints
          /\ broadcast' \in Seq(Ids) /\ stops' = stops
          /\ UNCHANGED <<receiver, tickQ, rawSide, offered>>
      BY <1>2 DEF IInv, AtWork, TypeOK
    <2> QED
      BY <1>2, <1>3, <1>p, <2>1, CleanKeeps DEF CleanAs
  <1>6. /\ \A u \in CleanThreads :
             clean'[u].batch = clean[u].batch /\ clean'[u].kept = clean[u].kept
        /\ \A u \in RawThreads : raw'[u].batch = raw[u].batch
    BY <1>0, <1>2, <1>p DEF rawSide
  <1> QED
    BY <1>2, <1>5, <1>6, Stays DEF receiver

\* What a step of one clean thread leaves alone.
LEMMA OneCleanThread ==
    ASSUME IInv, NEW t \in CleanThreads, NEW c, clean' = [clean EXCEPT ![t] = c],
           UNCHANGED <<receiver, tickQ, rawSide>>
    PROVE  /\ clean'[t] = c
           /\ \A line \in Lines \ {CleanerLine, Backend, CleanLine(t)} :
                 Waiting(line)' = Waiting(line)
           /\ UNCHANGED cleanQ => Waiting(CleanerLine)' = Waiting(CleanerLine)
           /\ UNCHANGED broadcast => Waiting(Backend)' = Waiting(Backend)
  <1>1. clean'[t] = c /\ \A u \in CleanThreads : u # t => clean'[u] = clean[u]
    BY DEF IInv, TypeOK
  <1>2. \A line \in Lines \ {CleanerLine, Backend, CleanLine(t)} :
           Waiting(line)' = Waiting(line)
    BY <1>1, LineLeft DEF receiver, rawSide
  <1> QED
    BY <1>1, <1>2, Laws, LawsNext DEF LineLaw

LEMMA CleanTakeStep ==
    ASSUME IInv, NEW t \in CleanThreads, CleanTake(t)
    PROVE  Kept
  <1> DEFINE b == Batch(cleanQ)
             pc == IF b[1] = << >> THEN "flush" ELSE "judge"
             c == [clean[t] EXCEPT !.batch = b[1], !.pc = pc]
  <1>0. cleanQ \in Seq(Ids) /\ Len(cleanQ) <= CleanCap /\ clean[t] \in CleanThread
        /\ clean[t].pc = "take" /\ clean[t].batch = << >> /\ clean[t].kept = << >>
    <2>1. clean[t].pc = "take"
      BY DEF CleanTake
    <2>2. CleanAs(clean[t])
      BY CleanIs
    <2> QED
      BY <2>1, <2>2 DEF CleanAs, IInv, TypeOK
  <1> HIDE DEF pc, c
  <1>1. PICK n \in 0..Len(cleanQ) :
          /\ cleanQ # << >> => n > 0
          /\ b[1] \in Seq(Ids) /\ Len(b[1]) = n
          /\ b[2] \in Seq(Ids) /\ Len(b[2]) = Len(cleanQ) - n
          /\ \A i \in 1..n : b[1][i] = cleanQ[i]
          /\ \A i \in 1..(Len(cleanQ) - n) : b[2][i] = cleanQ[n + i]
    <2>1. cleanQ \in Seq(Ids)
      BY <1>0
    <2> QED
      BY <2>1, BatchSplits
  <1>2. cleanQ' = b[2] /\ clean' = [clean EXCEPT ![t].batch = b[1], ![t].pc = pc]
    BY DEF CleanTake, pc
  <1> HIDE DEF b
  <1>3. pc \in {"flush", "judge"} /\ (b[1] # << >> <=> pc = "judge")
    BY DEF pc
  <1>4. clean' = [clean EXCEPT ![t] = c]
    BY <1>0, <1>2 DEF CleanThread, c
  <1>5. c \in CleanThread /\ c.batch = b[1] /\ c.kept = << >> /\ c.pc = pc
    BY <1>0, <1>1, <1>3 DEF CleanThread, c
  <1>6. /\ UNCHANGED <<receiver, tickQ, rawSide, offered, broadcast>>
        /\ cleanStop' \in BOOLEAN /\ cleanThread' \in {0} \cup CleanThreads
        /\ history' \in Seq(Prints) /\ Len(history') <= HistoryLimit
        /\ \A k \in DOMAIN lastPrint' : lastPrint'[k] \in Prints
        /\ structured' \in Seq(Ids) /\ broadcast' \in Seq(Ids) /\ stops' = stops /\ AtWork
    BY DEF CleanTake, IInv, TypeOK, AtWork
  <1>7. AtWork'
    <2>1. Len(cleanQ') <= CleanCap /\ cleanQ' \in Seq(Ids)
      BY <1>0, <1>1, <1>2, Constants
    <2>2. /\ c.batch # << >> <=> c.pc \in {"judge", "remember"}
          /\ c.kept # << >> => c.pc \in {"judge", "remember", "broadcast"}
      BY <1>3, <1>5
    <2> QED
      BY <1>4, <1>5, <1>6, <2>1, <2>2, CleanKeeps
  <1>8. /\ Waiting(CleanerLine) = cleanQ /\ Waiting(CleanerLine)' = b[2]
        /\ Waiting(CleanLine(t)) = << >> /\ Waiting(CleanLine(t))' = b[1]
    <2>1. clean'[t] = c
      BY <1>4, <1>6, OneCleanThread
    <2>2. b[1] \o << >> = b[1]
      BY <1>1
    <2>3. clean'[t].batch \o clean'[t].kept = b[1]
      BY <2>1, <2>2, <1>5
    <2>4. << >> \o << >> = << >>
      OBVIOUS
    <2>5. clean[t].batch \o clean[t].kept = << >>
      BY <2>4, <1>0
    <2> QED
      BY <2>3, <2>5, <1>2, Laws, LawsNext DEF LineLaw
  <1>9. \A line \in Lines \ {CleanerLine, CleanLine(t)} : Waiting(line)' = Waiting(line)
    BY <1>4, <1>6, OneCleanThread
  <1>10. CleanerLine \in Lines /\ CleanLine(t) \in Lines /\ CleanerLine # CleanLine(t)
         /\ CleanerLine[1] = CleanLine(t)[1]
    BY LineIs, LineNames
  <1>11. /\ DOMAIN Waiting(CleanerLine)' = 1..(Len(Waiting(CleanerLine)) - n)
         /\ \A i \in 1..(Len(Waiting(CleanerLine)) - n) :
               Waiting(CleanerLine)'[i] = Waiting(CleanerLine)[n + i]
         /\ DOMAIN Waiting(CleanLine(t))' = 1..n
         /\ \A i \in 1..n : Waiting(CleanLine(t))'[i] = Waiting(CleanerLine)[i]
         /\ n \in 0..Len(Waiting(CleanerLine))
    <2>1. DOMAIN b[2] = 1..(Len(cleanQ) - n) /\ DOMAIN b[1] = 1..n
      BY <1>1
    <2> QED
      BY <2>1, <1>1, <1>8
  <1>12. UNCHANGED prints
    BY <1>6 DEF receiver
  <1>13. Once' /\ Known' /\ ConveyorStep
    BY <1>8, <1>9, <1>10, <1>11, <1>12, BatchTaken
  <1> QED
    BY <1>7, <1>13 DEF Kept, IInv, AtWork

LEMMA CleanRememberStep ==
    ASSUME IInv, NEW t \in CleanThreads, CleanRemember(t)
    PROVE  Kept
  <1> DEFINE q == clean[t].batch
             id == Head(q)
             k == clean[t].kept
             p == prints[id]
             kept == IF clean[t].duplicate THEN k ELSE Append(k, id)
             pc == IF Len(q) = 1 THEN "broadcast" ELSE "judge"
             c == [clean[t] EXCEPT !.batch = Tail(q), !.kept = kept,
                                   !.duplicate = FALSE, !.pc = pc]
  <1>0. clean[t] \in CleanThread /\ q \in Seq(Ids) /\ k \in Seq(Ids) /\ q # << >>
        /\ clean[t].pc = "remember"
    <2>1. clean[t].pc = "remember"
      BY DEF CleanRemember
    <2>2. CleanAs(clean[t])
      BY CleanIs
    <2> QED
      BY <2>1, <2>2 DEF CleanAs, CleanThread
  <1>1. /\ Tail(q) \in Seq(Ids) /\ id \in Ids /\ id = q[1]
        /\ Tail(q) = << >> <=> Len(q) = 1
    BY <1>0, HeadAndTail
  <1>2. clean' = [clean EXCEPT ![t].batch = Tail(@), ![t].kept = IF clean[t].duplicate THEN @ ELSE Append(@, id),
                               ![t].duplicate = FALSE, ![t].pc = pc]
        /\ history' = Remembered(p)
        /\ lastPrint' = [key \in DOMAIN lastPrint \cup {p.token} |->
                           IF key = p.token THEN p ELSE lastPrint[key]]
    BY DEF CleanRemember
  <1>3. clean' = [clean EXCEPT ![t] = c]
    BY <1>0, <1>2 DEF CleanThread
  <1>4. kept \in Seq(Ids)
    BY <1>0, <1>1
  <1>5. p \in Prints
    <2>1. <<CleanLine(t), 1>> \in Spots /\ Holds(<<CleanLine(t), 1>>) = id
      <3>1. Waiting(CleanLine(t)) = q \o k
        BY Laws DEF LineLaw
      <3>2. CleanLine(t) \in Lines
        BY LineIs
      <3>3. Len(q) \in Nat \ {0} /\ Len(k) \in Nat
        BY <1>0, HeadAndTail
      <3> HIDE DEF q, k, id
      <3>4. 1 \in DOMAIN (q \o k) /\ (q \o k)[1] = q[1]
        BY <1>0, <3>3, JoinedAt
      <3> QED
        BY <3>1, <3>2, <3>4, <1>1, Laws DEF SpotLaw
    <2>2. id <= Len(prints)
      BY <2>1 DEF IInv, Known
    <2>3. id \in 1..Len(prints) /\ prints \in Seq(Prints)
      BY <2>2, <1>1 DEF IInv, TypeOK, Ids
    <2> HIDE DEF id
    <2> QED
      BY <2>3
  <1> HIDE DEF p, id, kept
  <1>6. c \in CleanThread /\ c.batch = Tail(q) /\ c.kept = kept /\ c.pc = pc
    BY <1>0, <1>1, <1>4 DEF CleanThread
  <1>7. pc \in {"broadcast", "judge"} /\ (pc = "judge" <=> Tail(q) # << >>)
    BY <1>1
  <1> HIDE DEF c, pc, q, k
  <1>8. history' \in Seq(Prints) /\ Len(history') <= HistoryLimit
    <2>1. history \in Seq(Prints) /\ Len(history) <= HistoryLimit
      BY DEF IInv, TypeOK
    <2>2. CASE \E i \in DOMAIN history : history[i] = p
      BY <2>1, <2>2, <1>2 DEF Remembered
    <2>3. CASE ~(\E i \in DOMAIN history : history[i] = p) /\ Len(history) = HistoryLimit
      <3>1. history # << >>
        BY <2>1, <2>3, Constants
      <3>2. Tail(history) \in Seq(Prints) /\ Len(Tail(history)) = Len(history) - 1
        BY <2>1, <3>1, HeadAndTail
      <3>3. history' = Append(Tail(history), p)
        BY <2>3, <1>2 DEF Remembered
      <3>4. \A s \in Seq(Prints) : Append(s, p) \in Seq(Prints) /\ Len(Append(s, p)) = Len(s) + 1
        BY <1>5
      <3> QED
        BY <2>1, <3>2, <3>3, <3>4, Constants
    <2>4. CASE ~(\E i \in DOMAIN history : history[i] = p) /\ Len(history) # HistoryLimit
      <3>1. history' = Append(history, p)
        BY <2>4, <1>2 DEF Remembered
      <3> QED
        BY <2>1, <2>4, <3>1, <1>5, Constants
    <2> QED
      BY <2>2, <2>3, <2>4
  <1>9. \A key \in DOMAIN lastPrint' : lastPrint'[key] \in Prints
    BY <1>2, <1>5 DEF IInv, TypeOK
  <1>10. /\ UNCHANGED <<receiver, tickQ, rawSide, offered, cleanQ, broadcast>>
         /\ cleanQ' \in Seq(Ids) /\ Len(cleanQ') <= CleanCap
         /\ cleanStop' \in BOOLEAN /\ cleanThread' \in {0} \cup CleanThreads
         /\ structured' \in Seq(Ids) /\ broadcast' \in Seq(Ids) /\ stops' = stops /\ AtWork
    BY DEF CleanRemember, IInv, TypeOK, AtWork
  <1>11. AtWork'
    <2>1. /\ c.batch # << >> <=> c.pc \in {"judge", "remember"}
          /\ c.kept # << >> => c.pc \in {"judge", "remember", "broadcast"}
      BY <1>6, <1>7
    <2> QED
      BY <1>3, <1>6, <1>8, <1>9, <1>10, <2>1, CleanKeeps
  <1>12. /\ Waiting(CleanLine(t)) = q \o k
         /\ Waiting(CleanLine(t))' = Tail(q) \o kept
    <2>1. clean'[t] = c
      BY <1>3, <1>10, OneCleanThread
    <2> QED
      BY <2>1, <1>6, Laws, LawsNext DEF LineLaw, q, k
  <1>13. /\ q \o k # << >> /\ Tail(q \o k) = Tail(q) \o k /\ Head(q \o k) = id
         /\ Append(Tail(q) \o k, id) = Tail(q) \o Append(k, id)
    <2>1. q \in Seq(Ids) /\ k \in Seq(Ids) /\ q # << >> /\ id \in Ids
      BY <1>0, <1>1
    <2>2. q \o k # << >> /\ Head(q \o k) = Head(q)
      BY <2>1
    <2>3. Tail(q \o k) = Tail(q) \o k
      BY <2>1
    <2>4. Append(Tail(q) \o k, id) = Tail(q) \o Append(k, id)
      BY <2>1
    <2> QED
      BY <2>2, <2>3, <2>4 DEF id
  <1>14. \/ Waiting(CleanLine(t))' = Tail(Waiting(CleanLine(t)))
         \/ Waiting(CleanLine(t))' = Append(Tail(Waiting(CleanLine(t))),
                                            Head(Waiting(CleanLine(t))))
    BY <1>12, <1>13 DEF kept
  <1>15. \A line \in Lines \ {CleanLine(t)} : Waiting(line)' = Waiting(line)
    BY <1>3, <1>10, OneCleanThread
  <1>16. CleanLine(t) \in Lines /\ CleanLine(t)[1] = "offered" /\ Waiting(CleanLine(t)) # << >>
    BY <1>12, <1>13, LineIs, LineNames
  <1>17. UNCHANGED prints
    BY <1>10 DEF receiver
  <1>18. Once' /\ Known' /\ ConveyorStep
    BY <1>14, <1>15, <1>16, <1>17, Judged
  <1> QED
    BY <1>11, <1>18 DEF Kept, IInv, AtWork

LEMMA CleanBroadcastStep ==
    ASSUME IInv, NEW t \in CleanThreads, CleanBroadcast(t)
    PROVE  Kept
  <1> DEFINE k == clean[t].kept
             sorted == InOrder(k)
             c == [clean[t] EXCEPT !.kept = << >>, !.buffer = clean[t].buffer \o sorted,
                                   !.pc = "flush"]
  <1>0. clean[t] \in CleanThread /\ k \in Seq(Ids) /\ clean[t].batch = << >>
        /\ clean[t].pc = "broadcast" /\ clean[t].buffer \in Seq(Ids)
    <2>1. clean[t].pc = "broadcast"
      BY DEF CleanBroadcast
    <2>2. CleanAs(clean[t])
      BY CleanIs
    <2> QED
      BY <2>1, <2>2 DEF CleanAs, CleanThread
  <1>1. Waiting(CleanLine(t)) = k
    <2>1. << >> \o k = k
      BY <1>0
    <2> QED
      BY <2>1, <1>0, Laws DEF LineLaw
  <1>2. k \in Seq(1..Len(prints)) /\ prints \in Seq(Prints)
    <2>1. \A i \in 1..Len(k) : k[i] <= Len(prints)
      <3> TAKE i \in 1..Len(k)
      <3>1. <<CleanLine(t), i>> \in Spots /\ Holds(<<CleanLine(t), i>>) = k[i]
        BY <1>0, <1>1, Laws, LineIs DEF SpotLaw
      <3> QED
        BY <3>1 DEF IInv, Known
    <2> HIDE DEF k
    <2>2. \A i \in 1..Len(k) : k[i] \in Ids
      BY <1>0
    <2>3. prints \in Seq(Prints) /\ Len(prints) \in Nat
      BY DEF IInv, TypeOK
    <2>4. \A i \in 1..Len(k) : k[i] \in 1..Len(prints)
      BY <2>1, <2>2, <2>3, Constants DEF Ids
    <2> QED
      BY <2>3, <2>4, <1>0, Retyped
  <1> HIDE DEF k
  <1>3. PICK order \in [1..Len(k) -> 1..Len(k)] :
          /\ \A i, j \in 1..Len(k) : order[i] = order[j] => i = j
          /\ sorted = [i \in 1..Len(k) |-> k[order[i]]]
    BY <1>2, Rearranged
  <1>4. sorted \in Seq(Ids) /\ Len(sorted) = Len(k) /\ DOMAIN sorted = 1..Len(k)
        /\ \A i \in 1..Len(k) : sorted[i] = k[order[i]]
    <2>1. \A i \in 1..Len(k) : k[order[i]] \in Ids
      BY <1>0, <1>3 DEF k
    <2>2. Len(k) \in Nat
      BY <1>2
    <2> HIDE DEF sorted
    <2> QED
      BY <1>3, <2>1, <2>2
  <1>5. broadcast' = broadcast \o sorted
        /\ clean' = [clean EXCEPT ![t].kept = << >>, ![t].buffer = @ \o sorted, ![t].pc = "flush"]
    BY DEF CleanBroadcast, k
  <1> HIDE DEF sorted
  <1>6. clean' = [clean EXCEPT ![t] = c]
    BY <1>0, <1>5 DEF CleanThread
  <1>7. c \in CleanThread /\ c.batch = << >> /\ c.kept = << >> /\ c.pc = "flush"
    <2>1. clean[t].buffer \o sorted \in Seq(Ids) /\ << >> \in Seq(Ids)
      BY <1>0, <1>4
    <2> QED
      BY <2>1, <1>0 DEF CleanThread
  <1> HIDE DEF c
  <1>8. broadcast \in Seq(Ids) /\ broadcast' \in Seq(Ids)
    <2>1. broadcast \in Seq(Ids)
      BY DEF IInv, TypeOK
    <2>2. broadcast \o sorted \in Seq(Ids)
      BY <2>1, <1>4
    <2> QED
      BY <2>1, <2>2, <1>5
  <1>9. /\ UNCHANGED <<receiver, tickQ, rawSide, offered, cleanQ>>
        /\ cleanQ' \in Seq(Ids) /\ Len(cleanQ') <= CleanCap
        /\ cleanStop' \in BOOLEAN /\ cleanThread' \in {0} \cup CleanThreads
        /\ history' \in Seq(Prints) /\ Len(history') <= HistoryLimit
        /\ \A key \in DOMAIN lastPrint' : lastPrint'[key] \in Prints
        /\ structured' \in Seq(Ids) /\ stops' = stops /\ AtWork
    BY DEF CleanBroadcast, IInv, TypeOK, AtWork
  <1>10. AtWork'
    <2>1. /\ c.batch # << >> <=> c.pc \in {"judge", "remember"}
          /\ c.kept # << >> => c.pc \in {"judge", "remember", "broadcast"}
      BY <1>7
    <2> QED
      BY <1>6, <1>7, <1>8, <1>9, <2>1, CleanKeeps
  <1>11. /\ Waiting(CleanLine(t))' = << >>
         /\ Waiting(Backend) = broadcast /\ Waiting(Backend)' = broadcast \o sorted
    <2>1. clean'[t] = c
      BY <1>6, <1>9, OneCleanThread
    <2>2. << >> \o << >> = << >>
      OBVIOUS
    <2>3. clean'[t].batch \o clean'[t].kept = << >>
      BY <2>1, <2>2, <1>7
    <2> QED
      BY <2>3, <1>5, Laws, LawsNext DEF LineLaw
  <1>12. \A line \in Lines \ {CleanLine(t), Backend} : Waiting(line)' = Waiting(line)
    BY <1>6, <1>9, OneCleanThread
  <1>13. /\ DOMAIN (broadcast \o sorted) = 1..(Len(broadcast) + Len(k))
         /\ \A i \in 1..Len(broadcast) : (broadcast \o sorted)[i] = broadcast[i]
         /\ \A i \in 1..Len(k) : (broadcast \o sorted)[Len(broadcast) + i] = sorted[i]
    <2>1. broadcast \in Seq(Ids) /\ sorted \in Seq(Ids) /\ Len(sorted) = Len(k)
      BY <1>4, <1>8
    <2>2. /\ DOMAIN (broadcast \o sorted) = 1..(Len(broadcast) + Len(sorted))
          /\ \A i \in 1..Len(broadcast) : (broadcast \o sorted)[i] = broadcast[i]
          /\ \A i \in 1..Len(sorted) : (broadcast \o sorted)[Len(broadcast) + i] = sorted[i]
      BY ONLY <2>1
    <2> QED
      BY ONLY <2>1, <2>2
  <1>14. CleanLine(t) \in Lines /\ CleanLine(t) # Backend /\ CleanLine(t)[1] = "offered"
    BY LineIs, LineNames
  <1>15. UNCHANGED prints
    BY <1>9 DEF receiver
  <1>16. /\ DOMAIN Waiting(Backend)' = 1..(Len(Waiting(Backend)) + Len(Waiting(CleanLine(t))))
         /\ \A i \in 1..Len(Waiting(Backend)) : Waiting(Backend)'[i] = Waiting(Backend)[i]
         /\ \A i \in 1..Len(Waiting(CleanLine(t))) :
              Waiting(Backend)'[Len(Waiting(Backend)) + i] = Waiting(CleanLine(t))[order[i]]
    BY <1>1, <1>4, <1>11, <1>13
  <1>17. order \in [1..Len(Waiting(CleanLine(t))) -> 1..Len(Waiting(CleanLine(t)))]
         /\ \A i, j \in 1..Len(Waiting(CleanLine(t))) : order[i] = order[j] => i = j
    BY <1>1, <1>3
  <1>18. Once' /\ Known' /\ ConveyorStep
    BY <1>11, <1>12, <1>14, <1>15, <1>16, <1>17, GivenOn
  <1> QED
    BY <1>10, <1>18 DEF Kept, IInv, AtWork

-----------------------------------------------------------------------------
(* The theorems.                                                           *)

LEMMA InitKept == Init => IInv
  <1> SUFFICES ASSUME Init PROVE IInv
    OBVIOUS
  <1>1. << >> \in Seq(Ids) /\ << >> \in Seq(Prints) /\ Len(<< >>) = 0
    OBVIOUS
  <1>2. TypeOK
    <2>1. raw \in [RawThreads -> RawThread]
      BY <1>1 DEF Init, RawThread
    <2>2. clean \in [CleanThreads -> CleanThread]
      BY <1>1 DEF Init, CleanThread
    <2>3. \A k \in DOMAIN lastPrint : lastPrint[k] \in Prints
      BY DEF Init
    <2>4. stops \in 0..MaxStops /\ pending \in 0..Len(prints) /\ Len(prints) <= MaxTicks
      BY <1>1, Constants DEF Init
    <2>5. /\ prints \in Seq(Prints) /\ tickQ \in Seq(Ids) /\ rawFile \in Seq(Ids)
          /\ cleanQ \in Seq(Ids) /\ history \in Seq(Prints) /\ structured \in Seq(Ids)
          /\ broadcast \in Seq(Ids)
      BY <1>1 DEF Init
    <2>6. Len(tickQ) <= TickCap /\ Len(cleanQ) <= CleanCap /\ Len(history) <= HistoryLimit
      BY <1>1, Constants DEF Init
    <2>7. /\ rawStop \in BOOLEAN /\ rawThread \in {0} \cup RawThreads /\ forwarded \in Nat
          /\ cleanStop \in BOOLEAN /\ cleanThread \in {0} \cup CleanThreads /\ offered \subseteq Ids
      BY DEF Init
    <2> QED
      BY <2>1, <2>2, <2>3, <2>4, <2>5, <2>6, <2>7 DEF TypeOK
  <1>3. RawAtWork /\ CleanAtWork
    BY DEF Init, RawAtWork, CleanAtWork
  <1>4. \A line \in Lines : Waiting(line) = << >>
    <2> TAKE line \in Lines
    <2>1. CASE line \in {Entry, TickLine, CleanerLine, Backend}
      BY <2>1, Laws DEF LineLaw, Init
    <2>2. ASSUME NEW t \in RawThreads, line = RawLine(t)
          PROVE  Waiting(line) = << >>
      BY <2>2, Laws DEF LineLaw, Init
    <2>3. ASSUME NEW t \in CleanThreads, line = CleanLine(t)
          PROVE  Waiting(line) = << >>
      <3>1. clean[t].batch = << >> /\ clean[t].kept = << >>
        BY DEF Init
      <3>2. << >> \o << >> = << >>
        OBVIOUS
      <3> QED
        BY <2>3, <3>1, <3>2, Laws DEF LineLaw
    <2> QED
      BY <2>1, <2>2, <2>3, LineIs
  <1>5. Spots = {}
    <2> SUFFICES ASSUME NEW s \in Spots PROVE FALSE
      OBVIOUS
    <2>1. s[1] \in Lines /\ s[2] \in DOMAIN Waiting(s[1])
      BY Laws DEF SpotLaw
    <2>2. DOMAIN << >> = {}
      OBVIOUS
    <2> QED
      BY <2>1, <2>2, <1>4
  <1> QED
    BY <1>2, <1>3, <1>5 DEF IInv, Once, Known

LEMMA StepKept == IInv /\ [Next]_vars => Kept
  <1> SUFFICES ASSUME IInv, [Next]_vars PROVE Kept
    OBVIOUS
  <1>1. CASE Arrive
    BY <1>1, ArriveStep
  <1>2. CASE Enqueue \/ GiveUp
    BY <1>2, EntryStep
  <1>3. CASE StopRaw \/ StopClean
    BY <1>3, StopStep
  <1>4. CASE StartRaw
    BY <1>4, RawQuietStep
  <1>5. ASSUME NEW t \in RawThreads, RawStep(t)
        PROVE  Kept
    BY <1>5, RawQuietStep, RawDropsStep, RawTakeStep, RawForwardStep DEF RawStep
  <1>6. CASE StartClean
    BY <1>6, CleanQuietStep
  <1>7. ASSUME NEW t \in CleanThreads, CleanStep(t)
        PROVE  Kept
    BY <1>7, CleanQuietStep, CleanTakeStep, CleanRememberStep, CleanBroadcastStep DEF CleanStep
  <1>8. CASE UNCHANGED vars
    <2>1. AtWork'
      BY <1>8 DEF vars, receiver, rawSide, cleanSide, IInv, AtWork, TypeOK, RawAtWork, CleanAtWork
    <2> QED
      BY <1>8, <2>1, Stays DEF vars, receiver, rawSide, cleanSide
  <1> QED
    BY <1>1, <1>2, <1>3, <1>4, <1>5, <1>6, <1>7, <1>8 DEF Next

\* Every queue keeps within its bound and every place holds ticks that can
\* be there, for all sizes, batches and numbers of threads.
THEOREM TypeCorrect == Spec => []TypeOK
  <1>1. IInv => TypeOK
    BY DEF IInv
  <1>2. IInv /\ [Next]_vars => IInv'
    BY StepKept DEF Kept
  <1> QED
    BY <1>1, <1>2, InitKept, PTL DEF Spec

\* The invariant under which a tick has a stage of the Conveyor.
Staged == IInv => \A id \in Ids : StageOf(id) \in C!Stages

LEMMA StageTyped == Staged
  <1> SUFFICES ASSUME IInv, NEW id \in Ids PROVE StageOf(id) \in C!Stages
    BY DEF Staged
  <1>1. StageLaw /\ Once /\ prints \in Seq(Prints) /\ Len(prints) \in Nat /\ id \in Nat
    BY StageIs DEF IInv, TypeOK, Ids
  <1>2. CASE id > Len(prints)
    BY <1>1, <1>2 DEF StageLaw, C!Stages
  <1>3. CASE id <= Len(prints) /\ SpotsOf(id) = {}
    BY <1>1, <1>3 DEF StageLaw, C!Stages
  <1>4. ASSUME id <= Len(prints), NEW s \in SpotsOf(id)
        PROVE  StageOf(id) \in C!Stages
    <2>1. StageOf(id) = s[1][1]
      BY <1>1, <1>4 DEF StageLaw
    <2>2. s[1] \in Lines
      BY Laws DEF SpotLaw
    <2>3. \A line \in Lines : line[1] \in {"arrived", "queued", "taken", "offered", "delivered"}
      BY LineIs, LineNames
    <2> QED
      BY <2>1, <2>2, <2>3 DEF C!Stages
  <1> QED
    BY <1>1, <1>2, <1>3, <1>4

LEMMA StageTypedNext == Staged'
  BY StageTyped, PTL

\* Whatever threads a stop left behind, every tick moves forward along the
\* Conveyor: no thread takes a tick a second time, none comes back and none
\* is delivered twice (get_batch of both queues, both _consume_loops).
THEOREM Refines == Spec => Moves
  <1>1. Init => C!Init
    <2> SUFFICES ASSUME Init PROVE C!Init
      OBVIOUS
    <2>1. StageLaw /\ Once /\ prints \in Seq(Prints)
      BY InitKept, StageIs DEF IInv, TypeOK
    <2>2. \A id \in Ids : id > Len(prints)
      <3>1. Len(prints) = 0
        BY DEF Init
      <3> QED
        BY <3>1 DEF Ids
    <2>3. \A id \in Ids : StageOf(id) = "absent"
      BY <2>1, <2>2 DEF StageLaw
    <2> QED
      BY <2>3 DEF C!Init, stages
  <1>2. IInv /\ [Next]_vars => IInv' /\ [C!Next]_stages
    <2> SUFFICES ASSUME IInv, [Next]_vars PROVE IInv' /\ C!Next
      OBVIOUS
    <2>1. IInv' /\ ConveyorStep
      BY StepKept DEF Kept
    <2>2. \A id \in Ids : StageOf(id)' \in C!Stages
      BY <2>1, StageTypedNext DEF Staged
    <2>3. stages' = [id \in Ids |-> StageOf(id)'] /\ stages = [id \in Ids |-> StageOf(id)]
      BY DEF stages
    <2>4. stages' \in [Ids -> C!Stages]
      BY <2>2, <2>3
    <2>5. \A id \in Ids : stages'[id] # stages[id] => <<stages[id], stages'[id]>> \in C!Edges
      BY <2>1, <2>3 DEF ConveyorStep
    <2> QED
      BY <2>1, <2>4, <2>5 DEF C!Next
  <1> QED
    BY <1>1, <1>2, InitKept, PTL DEF Spec, Moves, C!Spec

\* With one raw thread and writes that succeed, the raw file has every tick
\* of the batch that is being forwarded, and nobody else writes it between
\* a read and the write.
Written ==
    \A t \in RawThreads :
        /\ raw[t].pc = "write" => raw[t].seen = rawFile
        /\ raw[t].pc = "forward" => ToSet(raw[t].batch) \subseteq ToSet(rawFile)

\* What went on to the cleaner is in the raw file.  It takes both
\* assumptions: TLC shows a tick lost with a second thread that a stop left
\* behind, and with a write that failed.
THEOREM TruthKept == ASSUME RawStarts = 1, ~WritesFail PROVE Spec => []RawKept
  <1> DEFINE Inv == IInv /\ Written /\ RawKept
  <1>0. RawThreads = {1}
    BY DEF RawThreads
  <1>1. Init => Inv
    BY InitKept DEF Init, Written, RawKept
  <1>2. Inv /\ [Next]_vars => Inv'
    <2> SUFFICES ASSUME Inv, [Next]_vars PROVE Inv'
      OBVIOUS
    <2>0. IInv'
      BY StepKept DEF Kept
    <2>r. raw \in [RawThreads -> RawThread] /\ rawFile \in Seq(Ids) /\ raw[1] \in RawThread
      BY <1>0 DEF IInv, TypeOK
    <2>1. CASE UNCHANGED <<raw, rawFile, offered>>
      BY <2>0, <2>1 DEF Written, RawKept
    <2>2. CASE StartRaw
      BY <2>0, <2>2, <2>r, <1>0 DEF StartRaw, Written, RawKept
    <2>3. CASE RawCheck(1)
      BY <2>0, <2>3, <2>r, <1>0 DEF RawCheck, Written, RawKept
    <2>4. CASE RawTake(1)
      BY <2>0, <2>4, <2>r, <1>0 DEF RawTake, Written, RawKept, RawThread
    <2>5. CASE RawRead(1)
      BY <2>0, <2>5, <2>r, <1>0 DEF RawRead, Written, RawKept, RawThread
    <2>6. CASE RawWrite(1)
      <3>1. raw[1].seen = rawFile /\ raw[1].batch \in Seq(Ids)
        BY <2>6, <2>r, <1>0 DEF RawWrite, Written, RawThread
      <3>2. rawFile' = rawFile \o raw[1].batch
        BY <2>6, <3>1 DEF RawWrite, Appended
      <3>3. ToSet(rawFile) \subseteq ToSet(rawFile') /\ ToSet(raw[1].batch) \subseteq ToSet(rawFile')
        BY <3>1, <3>2, <2>r, JoinedSets
      <3>4. raw'[1].pc = "forward" /\ raw'[1].batch = raw[1].batch /\ offered' = offered
        BY <2>6, <2>r, <1>0 DEF RawWrite, RawThread
      <3> QED
        BY <2>0, <3>3, <3>4, <1>0 DEF Written, RawKept
    <2>7. CASE RawForward(1)
      <3> DEFINE q == raw[1].batch
      <3>1. q \in Seq(Ids) /\ q # << >> /\ raw[1].pc = "forward"
        BY <2>7, <2>r, <1>0 DEF RawForward, IInv, RawAtWork, RawThread
      <3>2. ToSet(q) \subseteq ToSet(rawFile)
        BY <3>1, <1>0 DEF Written
      <3>3. Head(q) \in ToSet(q) /\ ToSet(Tail(q)) \subseteq ToSet(q)
        BY <3>1, PartsOfASet
      <3>4. /\ raw'[1].batch = Tail(q) /\ raw'[1].pc \in {"check", "forward"}
            /\ rawFile' = rawFile /\ offered' \subseteq offered \cup {Head(q)}
        BY <2>7, <2>r, <1>0 DEF RawForward, RawThread
      <3> HIDE DEF q
      <3> QED
        BY <2>0, <3>2, <3>3, <3>4, <1>0 DEF Written, RawKept
    <2> QED
      BY <2>1, <2>2, <2>3, <2>4, <2>5, <2>6, <2>7, <1>0
      DEF Next, vars, rawSide, RawStep, RawDrops, CleanStep, Arrive, Enqueue, GiveUp, StopRaw,
          StartClean, StopClean, CleanCheck, CleanTake, CleanJudge, CleanRemember, CleanBroadcast,
          CleanFlush, CleanWrite
  <1>3. Inv => RawKept
    OBVIOUS
  <1> HIDE DEF Inv
  <1> QED
    BY <1>1, <1>2, <1>3, PTL DEF Spec

-----------------------------------------------------------------------------
(* With one thread of each kind: ticks wait in the order they arrived in,  *)
(* and what the duplicate validator has seen keeps repeats apart.          *)

Rising(q) == \A i, j \in DOMAIN q : i < j => q[i] < q[j]
Earlier(S, T) == \A x \in S, y \in T : x < y
Apart(turns) == \A m, n \in 1..6 : m < n => Earlier(turns[m], turns[n])

\* What a rising queue gives as a batch comes before what it keeps.
LEMMA BatchInOrder ==
    ASSUME NEW q \in Seq(Ids), Rising(q)
    PROVE  /\ Rising(Batch(q)[1]) /\ Rising(Batch(q)[2])
           /\ Earlier(ToSet(Batch(q)[1]), ToSet(Batch(q)[2]))
           /\ ToSet(q) = ToSet(Batch(q)[1]) \cup ToSet(Batch(q)[2])
  <1> DEFINE b == Batch(q)[1]
             r == Batch(q)[2]
  <1>1. PICK n \in 0..Len(q) :
          /\ b \in Seq(Ids) /\ Len(b) = n
          /\ r \in Seq(Ids) /\ Len(r) = Len(q) - n
          /\ \A i \in 1..n : b[i] = q[i]
          /\ \A i \in 1..(Len(q) - n) : r[i] = q[n + i]
    BY BatchSplits, ZenonT(30)
  <1> HIDE DEF b, r
  <1>2. DOMAIN b = 1..n /\ DOMAIN r = 1..(Len(q) - n) /\ DOMAIN q = 1..Len(q)
        /\ Len(q) \in Nat /\ n \in Nat
    BY <1>1
  <1>3. Rising(b)
    BY <1>1, <1>2, SMTT(30) DEF Rising
  <1>4. Rising(r)
    <2> SUFFICES ASSUME NEW i \in DOMAIN r, NEW j \in DOMAIN r, i < j PROVE r[i] < r[j]
      BY DEF Rising
    <2>1. /\ r[i] = q[n + i] /\ r[j] = q[n + j]
          /\ n + i \in DOMAIN q /\ n + j \in DOMAIN q /\ n + i < n + j
      BY <1>1, <1>2
    <2> QED
      BY <2>1 DEF Rising
  <1>5. Earlier(ToSet(b), ToSet(r))
    <2> SUFFICES ASSUME NEW i \in DOMAIN b, NEW j \in DOMAIN r PROVE b[i] < r[j]
      BY DEF Earlier, ToSet
    <2>1. b[i] = q[i] /\ r[j] = q[n + j] /\ i \in DOMAIN q /\ n + j \in DOMAIN q /\ i < n + j
      BY <1>1, <1>2
    <2> QED
      BY <2>1 DEF Rising
  <1>6. ToSet(b) \cup ToSet(r) \subseteq ToSet(q)
    <2>1. \A i \in DOMAIN b : i \in DOMAIN q /\ b[i] = q[i]
      BY <1>1, <1>2
    <2>2. \A i \in DOMAIN r : n + i \in DOMAIN q /\ r[i] = q[n + i]
      BY <1>1, <1>2
    <2> QED
      BY <2>1, <2>2 DEF ToSet
  <1>7. \A i \in DOMAIN q : q[i] \in ToSet(b) \cup ToSet(r)
    <2> TAKE i \in DOMAIN q
    <2>1. CASE i <= n
      BY <1>1, <1>2, <2>1 DEF ToSet
    <2>2. CASE ~(i <= n)
      <3>1. i - n \in DOMAIN r /\ r[i - n] = q[i]
        BY <1>1, <1>2, <2>2
      <3> QED
        BY <3>1 DEF ToSet
    <2> QED
      BY <2>1, <2>2
  <1>8. ToSet(q) = ToSet(b) \cup ToSet(r)
    BY <1>6, <1>7 DEF ToSet
  <1> QED
    BY <1>3, <1>4, <1>5, <1>8 DEF b, r

\* The first of a rising queue comes before the rest.
LEMMA HeadInOrder ==
    ASSUME NEW q \in Seq(Ids), q # << >>, Rising(q)
    PROVE  /\ Rising(Tail(q)) /\ Earlier({Head(q)}, ToSet(Tail(q)))
           /\ ToSet(q) = {Head(q)} \cup ToSet(Tail(q))
  <1> DEFINE r == Tail(q)
  <1>1. /\ Head(q) = q[1] /\ Len(q) \in Nat \ {0} /\ DOMAIN q = 1..Len(q)
        /\ DOMAIN r = 1..(Len(q) - 1)
        /\ \A i \in 1..(Len(q) - 1) : r[i] = q[i + 1]
    OBVIOUS
  <1> HIDE DEF r
  <1>2. Rising(r)
    BY <1>1 DEF Rising
  <1>3. Earlier({Head(q)}, ToSet(r))
    <2> SUFFICES ASSUME NEW j \in DOMAIN r PROVE Head(q) < r[j]
      BY DEF Earlier, ToSet
    <2> QED
      BY <1>1 DEF Rising
  <1>4. {Head(q)} \cup ToSet(r) \subseteq ToSet(q)
    BY <1>1 DEF ToSet
  <1>5. \A i \in DOMAIN q : q[i] \in {Head(q)} \cup ToSet(r)
    <2> TAKE i \in DOMAIN q
    <2>1. i = 1 \/ (i - 1 \in DOMAIN r /\ r[i - 1] = q[i])
      BY <1>1
    <2> QED
      BY <1>1, <2>1 DEF ToSet
  <1>6. ToSet(q) = {Head(q)} \cup ToSet(r)
    BY <1>4, <1>5 DEF ToSet
  <1> QED
    BY <1>2, <1>3, <1>6 DEF r

\* A queue stays in order when a later one comes to its end.
LEMMA AppendInOrder ==
    ASSUME NEW q \in Seq(Ids), Rising(q), NEW x \in Ids, Earlier(ToSet(q), {x})
    PROVE  Rising(Append(q, x)) /\ ToSet(Append(q, x)) = ToSet(q) \cup {x}
  <1> DEFINE r == Append(q, x)
  <1>1. /\ Len(q) \in Nat /\ DOMAIN q = 1..Len(q) /\ DOMAIN r = 1..(Len(q) + 1)
        /\ r[Len(q) + 1] = x /\ \A i \in 1..Len(q) : r[i] = q[i]
    OBVIOUS
  <1> HIDE DEF r
  <1>2. Rising(r)
    <2> SUFFICES ASSUME NEW i \in DOMAIN r, NEW j \in DOMAIN r, i < j PROVE r[i] < r[j]
      BY DEF Rising
    <2>1. CASE j = Len(q) + 1
      BY <1>1, <2>1 DEF Earlier, ToSet
    <2>2. CASE j # Len(q) + 1
      BY <1>1, <2>2 DEF Rising
    <2> QED
      BY <2>1, <2>2
  <1>3. ToSet(q) \cup {x} \subseteq ToSet(r)
    BY <1>1 DEF ToSet
  <1>4. \A i \in DOMAIN r : r[i] \in ToSet(q) \cup {x}
    <2> TAKE i \in DOMAIN r
    <2>1. i = Len(q) + 1 \/ i \in DOMAIN q
      BY <1>1
    <2> QED
      BY <1>1, <2>1 DEF ToSet
  <1>5. ToSet(r) = ToSet(q) \cup {x}
    BY <1>3, <1>4 DEF ToSet
  <1> QED
    BY <1>2, <1>5 DEF r

\* Six groups in order stay so when one of them hands the first of its ticks
\* to the group before, or loses some.
LEMMA HandedInOrder ==
    ASSUME NEW L, NEW M, Apart(L),
           NEW n \in 1..5,
           M[n] \subseteq L[n] \cup L[n + 1],
           M[n + 1] \subseteq L[n + 1],
           Earlier(M[n], M[n + 1]),
           \A k \in 1..6 : k \notin {n, n + 1} => M[k] \subseteq L[k]
    PROVE  Apart(M)
  <1> SUFFICES ASSUME NEW a \in 1..6, NEW b \in 1..6, a < b,
                      NEW x \in M[a], NEW y \in M[b]
               PROVE  x < y
    BY DEF Apart, Earlier
  <1>0. n + 1 \in 1..6 /\ n \in 1..6
    OBVIOUS
  <1>1. CASE a = n /\ b = n + 1
    BY <1>1 DEF Earlier
  <1>2. CASE ~(a = n /\ b = n + 1)
    <2>1. PICK c \in {a, n + 1} : x \in L[c] /\ (c = a \/ a = n)
      BY <1>0
    <2>2. PICK d \in {b, n + 1} : y \in L[d] /\ (d = b \/ b = n)
      BY <1>0
    <2>3. c \in 1..6 /\ d \in 1..6
      BY <1>0, <2>1, <2>2
    <2>4. c < d
      BY <1>2, <2>1, <2>2
    <2> QED
      BY <2>1, <2>2, <2>3, <2>4 DEF Apart, Earlier
  <1> QED
    BY <1>1, <1>2

\* A sequence without repeats is no longer than a set that has all of it.
LEMMA NoLongerThan ==
    ASSUME NEW S, NEW q \in Seq(S), NEW T, IsFiniteSet(T),
           \A k, l \in DOMAIN q : q[k] = q[l] => k = l,
           \A k \in DOMAIN q : q[k] \in T
    PROVE  Len(q) <= Cardinality(T)
  <1>1. Len(q) \in Nat /\ DOMAIN q = 1..Len(q) /\ q = [k \in 1..Len(q) |-> q[k]]
    OBVIOUS
  <1>2. q \in [1..Len(q) -> T]
    BY <1>1
  <1>3. q \in Injection(1..Len(q), T)
    BY <1>1, <1>2 DEF Injection, IsInjective
  <1>4. Cardinality(1..Len(q)) <= Cardinality(T)
    BY <1>3, FS_Injection
  <1>5. Cardinality(1..Len(q)) = Len(q)
    <2>1. Cardinality(1..Len(q)) = IF 1 > Len(q) THEN 0 ELSE Len(q) - 1 + 1
      BY <1>1, FS_Interval
    <2> QED
      BY <1>1, <2>1
  <1> QED
    BY <1>4, <1>5

\* The ticks the clean thread is done with.
Passed == offered \ (ToSet(clean[1].batch) \cup ToSet(cleanQ))

\* Who is where, those first who arrived first.
Turns == <<Passed, ToSet(clean[1].batch), ToSet(cleanQ), ToSet(raw[1].batch),
           ToSet(tickQ), {pending} \ {0}>>

InTurn ==
    /\ Apart(Turns)
    /\ Rising(clean[1].batch) /\ Rising(cleanQ) /\ Rising(raw[1].batch) /\ Rising(tickQ)
    /\ \A n \in 1..6 : Turns[n] \subseteq 1..Len(prints)
    /\ Turns[2] \cup Turns[3] \subseteq offered

TurnsLaw ==
    /\ Turns[1] = Passed /\ Turns[2] = ToSet(clean[1].batch) /\ Turns[3] = ToSet(cleanQ)
    /\ Turns[4] = ToSet(raw[1].batch) /\ Turns[5] = ToSet(tickQ) /\ Turns[6] = {pending} \ {0}

LEMMA TurnsAre == TurnsLaw
  BY DEF TurnsLaw, Turns

LEMMA TurnsAreNext == TurnsLaw'
  BY TurnsAre, PTL

OneEach == RawStarts = 1 /\ CleanStarts = 1

\* What there is to know of the two threads.
LEMMA TheThreads ==
    ASSUME IInv, OneEach
    PROVE  /\ RawThreads = {1} /\ CleanThreads = {1}
           /\ raw \in [{1} -> RawThread] /\ raw[1] \in RawThread
           /\ clean \in [{1} -> CleanThread] /\ clean[1] \in CleanThread
           /\ raw[1].batch \in Seq(Ids) /\ clean[1].batch \in Seq(Ids)
           /\ clean[1].kept \in Seq(Ids)
           /\ tickQ \in Seq(Ids) /\ cleanQ \in Seq(Ids)
           /\ prints \in Seq(Prints) /\ Len(prints) \in Nat /\ Len(prints) <= MaxTicks
           /\ pending \in 0..Len(prints) /\ Ids = 1..MaxTicks /\ MaxTicks \in Nat
           /\ history \in Seq(Prints) /\ broadcast \in Seq(Ids) /\ offered \subseteq Ids
           /\ raw[1].batch # << >> <=> raw[1].pc \in {"read", "write", "forward"}
           /\ clean[1].batch # << >> <=> clean[1].pc \in {"judge", "remember"}
  <1>1. RawThreads = {1} /\ CleanThreads = {1}
    BY DEF OneEach, RawThreads, CleanThreads
  <1>2. /\ raw \in [{1} -> RawThread] /\ clean \in [{1} -> CleanThread]
        /\ tickQ \in Seq(Ids) /\ cleanQ \in Seq(Ids)
        /\ prints \in Seq(Prints) /\ Len(prints) <= MaxTicks
        /\ pending \in 0..Len(prints)
        /\ history \in Seq(Prints) /\ broadcast \in Seq(Ids) /\ offered \subseteq Ids
    BY <1>1 DEF IInv, TypeOK
  <1>3. raw[1] \in RawThread /\ clean[1] \in CleanThread /\ Len(prints) \in Nat
    BY <1>2
  <1>4. raw[1].batch \in Seq(Ids) /\ clean[1].batch \in Seq(Ids) /\ clean[1].kept \in Seq(Ids)
    BY <1>3 DEF RawThread, CleanThread
  <1>5. /\ raw[1].batch # << >> <=> raw[1].pc \in {"read", "write", "forward"}
        /\ clean[1].batch # << >> <=> clean[1].pc \in {"judge", "remember"}
    BY <1>1 DEF IInv, RawAtWork, CleanAtWork
  <1> QED
    BY <1>1, <1>2, <1>3, <1>4, <1>5, Constants DEF Ids

\* One of the groups hands something on, or loses it; no other changes.
LEMMA TurnHandedOn ==
    ASSUME InTurn, NEW n \in 1..5,
           Turns'[n] \subseteq Turns[n] \cup Turns[n + 1],
           Turns'[n + 1] \subseteq Turns[n + 1],
           Earlier(Turns'[n], Turns'[n + 1]),
           \A k \in 1..6 : k \notin {n, n + 1} => Turns'[k] \subseteq Turns[k],
           Rising(clean'[1].batch), Rising(cleanQ'), Rising(raw'[1].batch), Rising(tickQ'),
           Turns'[2] \cup Turns'[3] \subseteq offered',
           prints' = prints
    PROVE  InTurn'
  <1>1. Apart(Turns')
    BY HandedInOrder DEF InTurn
  <1>2. \A k \in 1..6 : Turns'[k] \subseteq 1..Len(prints')
    <2> TAKE k \in 1..6
    <2>1. n \in 1..6 /\ n + 1 \in 1..6
      OBVIOUS
    <2>2. \A m \in 1..6 : Turns[m] \subseteq 1..Len(prints')
      BY DEF InTurn
    <2>3. CASE k = n
      BY <2>1, <2>2, <2>3
    <2>4. CASE k = n + 1
      BY <2>1, <2>2, <2>4
    <2>5. CASE k \notin {n, n + 1}
      BY <2>2, <2>5
    <2> QED
      BY <2>3, <2>4, <2>5
  <1> QED
    BY <1>1, <1>2 DEF InTurn

\* Nothing moves.
LEMMA TurnsLeft ==
    ASSUME InTurn, UNCHANGED <<prints, offered, cleanQ, tickQ, pending>>,
           clean'[1].batch = clean[1].batch, raw'[1].batch = raw[1].batch
    PROVE  InTurn' /\ Passed' = Passed
  <1>1. Turns' = Turns /\ Passed' = Passed
    BY DEF Turns, Passed
  <1> QED
    BY <1>1 DEF InTurn

\* A packet arrives: it is later than all others.
LEMMA ArriveInTurn ==
    ASSUME IInv, OneEach, InTurn, Arrive
    PROVE  InTurn' /\ Passed' = Passed
  <1>1. PICK p \in Prints : prints' = Append(prints, p)
    BY DEF Arrive
  <1>2. /\ pending = 0 /\ pending' = Len(prints') /\ Len(prints') = Len(prints) + 1
        /\ UNCHANGED <<offered, cleanQ, tickQ, raw, clean>>
    BY <1>1, TheThreads DEF Arrive, rawSide, cleanSide
  <1>3. /\ \A k \in 1..6 : k # 6 => Turns'[k] = Turns[k]
        /\ Turns'[6] = {Len(prints) + 1} /\ Passed' = Passed
    <2>1. Len(prints) + 1 # 0
      BY TheThreads
    <2>2. /\ Turns'[1] = Turns[1] /\ Turns'[2] = Turns[2] /\ Turns'[3] = Turns[3]
          /\ Turns'[4] = Turns[4] /\ Turns'[5] = Turns[5] /\ Passed' = Passed
      BY <1>2, TurnsAre, TurnsAreNext DEF TurnsLaw, Passed
    <2>3. Turns'[6] = {Len(prints) + 1}
      BY <1>2, <2>1, TurnsAreNext DEF TurnsLaw
    <2> QED
      BY <2>2, <2>3
  <1>4. \A k \in 1..6 : k # 6 => \A x \in Turns[k] : x \in Nat /\ x < Len(prints) + 1
    <2>1. \A k \in 1..6 : Turns[k] \subseteq 1..Len(prints)
      BY DEF InTurn
    <2>2. \A x \in 1..Len(prints) : x \in Nat /\ x < Len(prints) + 1
      BY TheThreads
    <2> HIDE DEF InTurn
    <2> QED
      BY ONLY <2>1, <2>2
  <1>5. Apart(Turns')
    <2> SUFFICES ASSUME NEW m \in 1..6, NEW n \in 1..6, m < n PROVE Earlier(Turns'[m], Turns'[n])
      BY DEF Apart
    <2>1. CASE n = 6
      BY <1>3, <1>4, <2>1 DEF Earlier
    <2>2. CASE n # 6
      BY <1>3, <2>2 DEF InTurn, Apart
    <2> QED
      BY <2>1, <2>2
  <1>6. \A k \in 1..6 : Turns'[k] \subseteq 1..Len(prints')
    <2> TAKE k \in 1..6
    <2>1. CASE k = 6
      BY <1>2, <1>3, <2>1, TheThreads, SMTT(30)
    <2>2. CASE k # 6
      <3>1. Turns'[k] = Turns[k] /\ Turns[k] \subseteq 1..Len(prints)
        BY <1>3, <2>2 DEF InTurn
      <3>2. 1..Len(prints) \subseteq 1..Len(prints')
        BY <1>2, TheThreads
      <3> QED
        BY <3>1, <3>2
    <2> QED
      BY <2>1, <2>2
  <1> QED
    BY <1>2, <1>3, <1>5, <1>6 DEF InTurn

\* on_tick enqueues it or gives up.
LEMMA EntryInTurn ==
    ASSUME IInv, OneEach, InTurn, Enqueue \/ GiveUp
    PROVE  InTurn' /\ Passed' = Passed
  <1>1. UNCHANGED <<prints, offered, cleanQ, raw, clean>> /\ pending' = 0 /\ pending # 0
    BY DEF Enqueue, GiveUp, rawSide, cleanSide
  <1>2. /\ \A k \in 1..6 : k \notin {5, 6} => Turns'[k] = Turns[k]
        /\ Turns'[6] = {} /\ Turns[6] = {pending} /\ Passed' = Passed
    BY <1>1, TurnsAre, TurnsAreNext DEF TurnsLaw, Passed
  <1>3. Rising(tickQ') /\ Turns'[5] \subseteq Turns[5] \cup Turns[6]
    <2>1. CASE Enqueue
      <3>1. pending \in Ids /\ tickQ' = Append(tickQ, pending)
        BY <2>1, <1>1, TheThreads DEF Enqueue
      <3>2. Earlier(ToSet(tickQ), {pending}) /\ Rising(tickQ) /\ tickQ \in Seq(Ids)
        <4>1. Earlier(Turns[5], Turns[6])
          BY DEF InTurn, Apart
        <4> QED
          BY <4>1, <1>2, TurnsAre, TheThreads DEF TurnsLaw, InTurn
      <3>3. Rising(tickQ') /\ ToSet(tickQ') = ToSet(tickQ) \cup {pending}
        BY <3>1, <3>2, AppendInOrder
      <3> QED
        BY <3>3, <1>2, TurnsAre, TurnsAreNext DEF TurnsLaw
    <2>2. CASE GiveUp
      BY <2>2, TurnsAre, TurnsAreNext DEF TurnsLaw, GiveUp, InTurn
    <2> QED
      BY <2>1, <2>2
  <1>4. /\ Rising(clean'[1].batch) /\ Rising(cleanQ') /\ Rising(raw'[1].batch)
        /\ Turns'[2] \cup Turns'[3] \subseteq offered'
    BY <1>1, <1>2 DEF InTurn
  <1>5. Earlier(Turns'[5], Turns'[6])
    BY <1>2 DEF Earlier
  <1>6. \A k \in 1..6 : k \notin {5, 5 + 1} => Turns'[k] \subseteq Turns[k]
    BY <1>2
  <1>7. Turns'[5 + 1] \subseteq Turns[5 + 1] /\ 5 + 1 = 6 /\ 5 \in 1..5
    BY <1>2
  <1> QED
    BY <1>1, <1>2, <1>3, <1>4, <1>5, <1>6, <1>7, TurnHandedOn

\* The raw thread takes a batch.
LEMMA RawTakeInTurn ==
    ASSUME IInv, OneEach, InTurn, RawTake(1)
    PROVE  InTurn' /\ Passed' = Passed
  <1> DEFINE b == Batch(tickQ)[1]
             r == Batch(tickQ)[2]
  <1>1. /\ UNCHANGED <<prints, offered, cleanQ, pending, clean>>
        /\ tickQ' = (IF Ready(b) THEN r ELSE tickQ)
        /\ raw'[1].batch = (IF Ready(b) THEN b ELSE << >>)
        /\ raw[1].batch = << >>
    BY TheThreads DEF RawTake, receiver, cleanSide, RawThread
  <1>2. CASE ~Ready(b)
    BY <1>1, <1>2, TurnsLeft
  <1>3. CASE Ready(b)
    <2>1. tickQ' = r /\ raw'[1].batch = b
      BY <1>1, <1>3
    <2>2. /\ Rising(b) /\ Rising(r) /\ Earlier(ToSet(b), ToSet(r))
          /\ ToSet(tickQ) = ToSet(b) \cup ToSet(r)
      BY BatchInOrder, TheThreads DEF InTurn
    <2> HIDE DEF b, r
    <2>3. /\ Turns'[4] = ToSet(b) /\ Turns'[5] = ToSet(r)
          /\ \A k \in 1..6 : k \notin {4, 5} => Turns'[k] = Turns[k]
          /\ Passed' = Passed
      <3>1. /\ Turns'[1] = Turns[1] /\ Turns'[2] = Turns[2] /\ Turns'[3] = Turns[3]
            /\ Turns'[6] = Turns[6] /\ Passed' = Passed
        BY <1>1, TurnsAre, TurnsAreNext DEF TurnsLaw, Passed
      <3>2. Turns'[4] = ToSet(b) /\ Turns'[5] = ToSet(r)
        BY <2>1, TurnsAreNext DEF TurnsLaw
      <3> QED
        BY <3>1, <3>2
    <2>4. Turns[5] = ToSet(b) \cup ToSet(r)
      BY <2>2, TurnsAre DEF TurnsLaw
    <2>5. /\ Turns'[4] \subseteq Turns[4] \cup Turns[4 + 1] /\ Turns'[4 + 1] \subseteq Turns[4 + 1]
          /\ Earlier(Turns'[4], Turns'[4 + 1]) /\ 4 \in 1..5
          /\ \A k \in 1..6 : k \notin {4, 4 + 1} => Turns'[k] \subseteq Turns[k]
      BY <2>2, <2>3, <2>4
    <2>6. /\ Rising(clean'[1].batch) /\ Rising(cleanQ') /\ Rising(raw'[1].batch) /\ Rising(tickQ')
          /\ Turns'[2] \cup Turns'[3] \subseteq offered'
      BY <1>1, <2>1, <2>2, <2>3 DEF InTurn
    <2> QED
      BY <1>1, <2>3, <2>5, <2>6, TurnHandedOn
  <1> QED
    BY <1>2, <1>3

\* It drops its batch.
LEMMA RawDropsInTurn ==
    ASSUME IInv, OneEach, InTurn, RawDrops(1)
    PROVE  InTurn' /\ Passed' = Passed
  <1>1. /\ UNCHANGED <<prints, offered, cleanQ, tickQ, pending, clean>>
        /\ raw'[1].batch = << >>
    BY TheThreads DEF RawDrops, receiver, cleanSide, RawThread
  <1>2. ToSet(<< >>) = {} /\ Rising(<< >>)
    BY DEF ToSet, Rising
  <1>3. /\ Turns'[4] = {} /\ Passed' = Passed
        /\ \A k \in 1..6 : k # 4 => Turns'[k] = Turns[k]
    <2>1. Turns'[4] = {}
      BY <1>1, <1>2, TurnsAreNext DEF TurnsLaw
    <2>2. /\ Turns'[1] = Turns[1] /\ Turns'[2] = Turns[2] /\ Turns'[3] = Turns[3]
          /\ Turns'[5] = Turns[5] /\ Turns'[6] = Turns[6] /\ Passed' = Passed
      BY <1>1, TurnsAre, TurnsAreNext DEF TurnsLaw, Passed
    <2> QED
      BY <2>1, <2>2
  <1>4. /\ Turns'[4] \subseteq Turns[4] \cup Turns[4 + 1] /\ Turns'[4 + 1] \subseteq Turns[4 + 1]
        /\ Earlier(Turns'[4], Turns'[4 + 1]) /\ 4 \in 1..5
        /\ \A k \in 1..6 : k \notin {4, 4 + 1} => Turns'[k] \subseteq Turns[k]
    BY <1>3 DEF Earlier
  <1>5. /\ Rising(clean'[1].batch) /\ Rising(cleanQ') /\ Rising(raw'[1].batch) /\ Rising(tickQ')
        /\ Turns'[2] \cup Turns'[3] \subseteq offered'
    BY <1>1, <1>2, <1>3 DEF InTurn
  <1> QED
    BY <1>1, <1>3, <1>4, <1>5, TurnHandedOn

\* It offers the first of the batch to the cleaner.
LEMMA RawForwardInTurn ==
    ASSUME IInv, OneEach, InTurn, RawForward(1)
    PROVE  InTurn' /\ Passed' = Passed
  <1> DEFINE q == raw[1].batch
             h == Head(q)
  <1>1. /\ UNCHANGED <<prints, tickQ, pending, clean>>
        /\ raw'[1].batch = Tail(q) /\ q # << >> /\ q \in Seq(Ids)
    BY TheThreads DEF RawForward, receiver, cleanSide, RawThread
  <1>2. /\ Rising(Tail(q)) /\ Earlier({h}, ToSet(Tail(q))) /\ h \in Ids
        /\ ToSet(q) = {h} \cup ToSet(Tail(q))
    BY <1>1, HeadInOrder, HeadAndTail DEF InTurn
  <1>3. \/ cleanQ' = Append(cleanQ, h) /\ offered' = offered \cup {h}
        \/ UNCHANGED <<cleanQ, offered>>
    BY DEF RawForward
  <1> HIDE DEF q, h
  <1>4. Turns[4] = {h} \cup ToSet(Tail(q)) /\ Turns'[4] = ToSet(Tail(q)) /\ h \in Turns[4]
    BY <1>1, <1>2, TurnsAre, TurnsAreNext DEF TurnsLaw, q
  <1>5. /\ Earlier(Turns[1], Turns[4]) /\ Earlier(Turns[2], Turns[4])
        /\ Earlier(Turns[3], Turns[4]) /\ \A k \in 1..6 : Turns[k] \subseteq Nat
    <2>1. \A k \in 1..6 : Turns[k] \subseteq Nat
      BY DEF InTurn
    <2> QED
      BY <2>1 DEF InTurn, Apart
  <1>6. h \notin Passed
    BY <1>4, <1>5, TurnsAre DEF TurnsLaw, Earlier
  <1>7. /\ Rising(cleanQ') /\ Turns'[3] \subseteq Turns[3] \cup {h} /\ Turns'[3] \subseteq offered'
        /\ Passed' = Passed /\ offered \subseteq offered'
    <2>1. CASE cleanQ' = Append(cleanQ, h) /\ offered' = offered \cup {h}
      <3>1. Earlier(ToSet(cleanQ), {h}) /\ cleanQ \in Seq(Ids) /\ Rising(cleanQ)
        BY <1>4, <1>5, TurnsAre, TheThreads DEF TurnsLaw, Earlier, InTurn
      <3>2. Rising(cleanQ') /\ ToSet(cleanQ') = ToSet(cleanQ) \cup {h}
        BY <2>1, <3>1, <1>2, AppendInOrder
      <3>3. Passed' = Passed
        BY <1>1, <1>6, <2>1, <3>2 DEF Passed
      <3> QED
        BY <2>1, <3>2, <3>3, TurnsAre, TurnsAreNext DEF TurnsLaw, InTurn
    <2>2. CASE UNCHANGED <<cleanQ, offered>>
      BY <1>1, <2>2, TurnsAre, TurnsAreNext DEF TurnsLaw, InTurn, Passed
    <2> QED
      BY <1>3, <2>1, <2>2
  <1>8. /\ Turns'[1] = Turns[1] /\ Turns'[2] = Turns[2] /\ Turns'[5] = Turns[5]
        /\ Turns'[6] = Turns[6]
    BY <1>1, <1>7, TurnsAre, TurnsAreNext DEF TurnsLaw
  <1>9. Earlier(Turns'[3], Turns'[4])
    BY <1>2, <1>4, <1>5, <1>7 DEF Earlier
  <1>10. /\ Turns'[3] \subseteq Turns[3] \cup Turns[3 + 1] /\ Turns'[3 + 1] \subseteq Turns[3 + 1]
         /\ Earlier(Turns'[3], Turns'[3 + 1]) /\ 3 \in 1..5
         /\ \A k \in 1..6 : k \notin {3, 3 + 1} => Turns'[k] \subseteq Turns[k]
    BY <1>4, <1>7, <1>8, <1>9
  <1>11. /\ Rising(clean'[1].batch) /\ Rising(raw'[1].batch) /\ Rising(tickQ')
         /\ Turns'[2] \cup Turns'[3] \subseteq offered'
    BY <1>1, <1>2, <1>7, <1>8 DEF InTurn
  <1> QED
    BY <1>1, <1>7, <1>10, <1>11, TurnHandedOn

\* The clean thread takes a batch.
LEMMA CleanTakeInTurn ==
    ASSUME IInv, OneEach, InTurn, CleanTake(1)
    PROVE  InTurn' /\ Passed' = Passed
  <1> DEFINE b == Batch(cleanQ)[1]
             r == Batch(cleanQ)[2]
  <1>1. /\ UNCHANGED <<prints, offered, tickQ, pending, raw>>
        /\ cleanQ' = r /\ clean'[1].batch = b /\ clean[1].batch = << >>
    BY TheThreads DEF CleanTake, receiver, rawSide, CleanThread
  <1>2. /\ Rising(b) /\ Rising(r) /\ Earlier(ToSet(b), ToSet(r))
        /\ ToSet(cleanQ) = ToSet(b) \cup ToSet(r)
    BY BatchInOrder, TheThreads DEF InTurn
  <1> HIDE DEF b, r
  <1>3. ToSet(<< >>) = {}
    BY DEF ToSet
  <1>4. /\ Turns'[2] = ToSet(b) /\ Turns'[3] = ToSet(r) /\ Passed' = Passed
        /\ Turns[3] = ToSet(b) \cup ToSet(r)
        /\ Turns'[4] = Turns[4] /\ Turns'[5] = Turns[5] /\ Turns'[6] = Turns[6]
    BY <1>1, <1>2, <1>3, TurnsAre, TurnsAreNext DEF TurnsLaw, Passed
  <1>5. Turns'[1] = Turns[1]
    BY <1>4, TurnsAre, TurnsAreNext DEF TurnsLaw
  <1>6. /\ Turns'[2] \subseteq Turns[2] \cup Turns[2 + 1] /\ Turns'[2 + 1] \subseteq Turns[2 + 1]
        /\ Earlier(Turns'[2], Turns'[2 + 1]) /\ 2 \in 1..5
        /\ \A k \in 1..6 : k \notin {2, 2 + 1} => Turns'[k] \subseteq Turns[k]
    BY <1>2, <1>4, <1>5
  <1>7. /\ Rising(clean'[1].batch) /\ Rising(cleanQ') /\ Rising(raw'[1].batch) /\ Rising(tickQ')
        /\ Turns'[2] \cup Turns'[3] \subseteq offered'
    BY <1>1, <1>2, <1>4 DEF InTurn
  <1> QED
    BY <1>1, <1>4, <1>6, <1>7, TurnHandedOn

\* It is done with the first of its batch, which is later than those it was
\* done with before.
LEMMA CleanRememberInTurn ==
    ASSUME IInv, OneEach, InTurn, CleanRemember(1)
    PROVE  /\ InTurn' /\ Passed' = Passed \cup {Head(clean[1].batch)}
           /\ Earlier(Passed, {Head(clean[1].batch)})
  <1> DEFINE q == clean[1].batch
             h == Head(q)
  <1>1. /\ UNCHANGED <<prints, offered, tickQ, cleanQ, pending, raw>>
        /\ clean'[1].batch = Tail(q) /\ q # << >> /\ q \in Seq(Ids)
    BY TheThreads DEF CleanRemember, receiver, rawSide, CleanThread
  <1>2. /\ Rising(Tail(q)) /\ Earlier({h}, ToSet(Tail(q))) /\ h \in Ids
        /\ ToSet(q) = {h} \cup ToSet(Tail(q))
    BY <1>1, HeadInOrder, HeadAndTail DEF InTurn
  <1> HIDE DEF q, h
  <1>3. /\ Turns[2] = {h} \cup ToSet(Tail(q)) /\ Turns'[2] = ToSet(Tail(q)) /\ h \in Turns[2]
        /\ \A k \in 1..6 : k \notin {1, 2} => Turns'[k] = Turns[k]
    <2>1. /\ Turns'[3] = Turns[3] /\ Turns'[4] = Turns[4] /\ Turns'[5] = Turns[5]
          /\ Turns'[6] = Turns[6]
      BY <1>1, TurnsAre, TurnsAreNext DEF TurnsLaw
    <2>2. Turns[2] = {h} \cup ToSet(Tail(q)) /\ Turns'[2] = ToSet(Tail(q))
      BY <1>1, <1>2, TurnsAre, TurnsAreNext DEF TurnsLaw, q
    <2> QED
      BY <2>1, <2>2
  <1>4. /\ Earlier(Turns[1], Turns[2]) /\ Earlier(Turns[2], Turns[3])
        /\ Turns[2] \cup Turns[3] \subseteq offered
        /\ h \in Nat
    BY <1>2, TheThreads DEF InTurn, Apart
  <1>5. h \notin ToSet(cleanQ) /\ h \notin ToSet(Tail(q)) /\ h \in offered
    BY <1>2, <1>3, <1>4, TurnsAre DEF TurnsLaw, Earlier
  <1>6. Passed' = Passed \cup {h}
    BY <1>1, <1>2, <1>5 DEF Passed, q
  <1>7. Earlier(Passed, {h})
    BY <1>3, <1>4, TurnsAre DEF TurnsLaw, Earlier
  <1>8. Turns'[1] = Turns[1] \cup {h}
    BY <1>6, TurnsAre, TurnsAreNext DEF TurnsLaw
  <1>9. Earlier(Turns'[1], Turns'[2])
    BY <1>2, <1>3, <1>4, <1>8 DEF Earlier
  <1>10. /\ Turns'[1] \subseteq Turns[1] \cup Turns[1 + 1] /\ Turns'[1 + 1] \subseteq Turns[1 + 1]
         /\ Earlier(Turns'[1], Turns'[1 + 1]) /\ 1 \in 1..5
         /\ \A k \in 1..6 : k \notin {1, 1 + 1} => Turns'[k] \subseteq Turns[k]
    BY <1>3, <1>8, <1>9
  <1>11. /\ Rising(clean'[1].batch) /\ Rising(cleanQ') /\ Rising(raw'[1].batch) /\ Rising(tickQ')
         /\ Turns'[2] \cup Turns'[3] \subseteq offered'
    BY <1>1, <1>2, <1>3, <1>4 DEF InTurn
  <1>12. InTurn'
    BY <1>1, <1>10, <1>11, TurnHandedOn
  <1> QED
    BY <1>6, <1>7, <1>12 DEF h, q

-----------------------------------------------------------------------------
(* What the validator remembers.                                           *)

\* The ticks that were no duplicates.
Accepted == ToSet(broadcast) \cup ToSet(clean[1].kept)

\* The other fingerprints seen since a tick, and between two.
Since(i) == {prints[k] : k \in {m \in Passed : m > i}} \ {prints[i]}
Between(i, j) == {prints[k] : k \in {m \in Passed : i < m /\ m < j}} \ {prints[i]}

\* A tick's fingerprint is in the history, with younger ones after it, or
\* enough others have come since to drive it out.
StillHeld(i) ==
    \E k \in DOMAIN history :
        /\ history[k] = prints[i]
        /\ \A l \in DOMAIN history : l > k => history[l] \in Since(i)
Outrun(i) == Cardinality(Since(i)) >= HistoryLimit

\* The verdict the clean thread is about to act on still holds.
VerdictHolds ==
    clean[1].pc = "remember" /\ ~clean[1].duplicate =>
        \A k \in DOMAIN history : history[k] # prints[Head(clean[1].batch)]

HistoryInjective == \A k, l \in DOMAIN history : history[k] = history[l] => k = l

Spaced ==
    \A i, j \in Accepted :
        i < j /\ prints[i] = prints[j] => Cardinality(Between(i, j)) >= HistoryLimit

Remembering ==
    /\ Accepted \subseteq Passed
    /\ HistoryInjective
    /\ \A i \in Accepted : StillHeld(i) \/ Outrun(i)
    /\ Spaced

\* Sets of fingerprints are finite, and grow with the ticks they stand for.
LEMMA PrintsFinite ==
    ASSUME NEW f, NEW n \in Nat, NEW T, \A x \in T : \E k \in 1..n : x = f[k]
    PROVE  IsFiniteSet(T)
  <1> DEFINE g == [k \in 1..n |-> f[k]]
             R == {g[k] : k \in 1..n}
  <1>1. g \in Surjection(1..n, R)
    BY DEF Surjection
  <1>2. IsFiniteSet(1..n)
    BY FS_Interval
  <1>3. IsFiniteSet(R)
    <2> HIDE DEF g, R
    <2> QED
      BY <1>1, <1>2, FS_Surjection
  <1>4. T \in SUBSET R
    OBVIOUS
  <1> HIDE DEF R
  <1> QED
    BY <1>3, <1>4, FS_Subset

LEMMA Monotone ==
    ASSUME NEW S, NEW T, IsFiniteSet(T), S \subseteq T
    PROVE  Cardinality(S) \in Nat /\ Cardinality(T) \in Nat /\ Cardinality(S) <= Cardinality(T)
  BY FS_Subset, FS_CardinalityType

\* What is in these sets.
SinceLaw ==
    /\ \A i, x : x \in Since(i) <=> x # prints[i] /\ \E k \in Passed : k > i /\ prints[k] = x
    /\ \A i, j, x : x \in Between(i, j) <=>
         x # prints[i] /\ \E k \in Passed : i < k /\ k < j /\ prints[k] = x
    /\ Passed \subseteq 1..Len(prints) /\ Len(prints) \in Nat =>
         \A i, j : IsFiniteSet(Since(i)) /\ IsFiniteSet(Between(i, j))

LEMMA SinceIs == SinceLaw
  <1>1. \A i, x : x \in Since(i) <=> x # prints[i] /\ \E k \in Passed : k > i /\ prints[k] = x
    BY DEF Since
  <1>2. \A i, j, x : x \in Between(i, j) <=>
         x # prints[i] /\ \E k \in Passed : i < k /\ k < j /\ prints[k] = x
    BY DEF Between
  <1>3. ASSUME Passed \subseteq 1..Len(prints), Len(prints) \in Nat, NEW i, NEW j
        PROVE  IsFiniteSet(Since(i)) /\ IsFiniteSet(Between(i, j))
    <2>1. \A x \in Since(i) : \E k \in 1..Len(prints) : x = prints[k]
      BY <1>1, <1>3
    <2>2. \A x \in Between(i, j) : \E k \in 1..Len(prints) : x = prints[k]
      BY <1>2, <1>3
    <2> QED
      BY <1>3, <2>1, <2>2, PrintsFinite
  <1> QED
    BY <1>1, <1>2, <1>3 DEF SinceLaw

LEMMA SinceIsNext == SinceLaw'
  BY SinceIs, PTL

\* Nothing is judged: what was seen and kept is as it was.
LEMMA MemoryLeft ==
    ASSUME Remembering, Passed \subseteq 1..Len(prints), Len(prints) \in Nat,
           Passed' = Passed, Accepted' = Accepted, history' = history,
           \A k \in 1..Len(prints) : prints'[k] = prints[k]
    PROVE  Remembering'
  <1>1. \A k \in Passed : prints'[k] = prints[k]
    OBVIOUS
  <1>2. \A i \in Accepted : i \in Passed /\ prints'[i] = prints[i]
    BY <1>1 DEF Remembering
  <1>3. ASSUME NEW i \in Accepted PROVE Since(i)' = Since(i)
    <2>1. \A x : x \in Since(i)' <=> x \in Since(i)
      BY <1>1, <1>2, SinceIs, SinceIsNext DEF SinceLaw
    <2> QED
      BY <2>1 DEF Since
  <1>4. ASSUME NEW i \in Accepted, NEW j \in Accepted PROVE Between(i, j)' = Between(i, j)
    <2>1. \A x : x \in Between(i, j)' <=> x \in Between(i, j)
      BY <1>1, <1>2, SinceIs, SinceIsNext DEF SinceLaw
    <2> QED
      BY <2>1 DEF Between
  <1>5. Accepted' \subseteq Passed' /\ HistoryInjective'
    BY DEF Remembering, HistoryInjective
  <1>6. ASSUME NEW i \in Accepted' PROVE (StillHeld(i) \/ Outrun(i))'
    BY <1>2, <1>3 DEF Remembering, StillHeld, Outrun
  <1>7. Spaced'
    BY <1>2, <1>4 DEF Remembering, Spaced
  <1> QED
    BY <1>5, <1>6, <1>7 DEF Remembering

\* The history takes a new fingerprint at its end; when it was full the
\* oldest one (d = 1) goes.
LEMMA HistoryGrows ==
    ASSUME history \in Seq(Prints), Len(history) <= HistoryLimit, NEW p \in Prints,
           \A k \in DOMAIN history : history[k] # p
    PROVE  \E d \in {0, 1} :
             /\ Remembered(p) \in Seq(Prints) /\ Len(Remembered(p)) = Len(history) + 1 - d
             /\ Remembered(p)[Len(history) + 1 - d] = p
             /\ \A k \in 1..(Len(history) - d) : Remembered(p)[k] = history[k + d]
             /\ d = 1 => Len(history) = HistoryLimit
  <1> DEFINE new == Remembered(p)
  <1>1. Len(history) \in Nat /\ HistoryLimit \in Nat \ {0}
    BY Constants
  <1>2. CASE Len(history) = HistoryLimit
    <2>1. new = Append(Tail(history), p)
      BY <1>2 DEF Remembered
    <2> DEFINE r == Tail(history)
    <2>2. /\ r \in Seq(Prints) /\ Len(r) = Len(history) - 1
          /\ \A k \in 1..(Len(history) - 1) : r[k] = history[k + 1]
      BY <1>1, <1>2
    <2> HIDE DEF r
    <2>3. /\ Append(r, p) \in Seq(Prints) /\ Len(Append(r, p)) = Len(r) + 1
          /\ Append(r, p)[Len(r) + 1] = p /\ \A k \in 1..Len(r) : Append(r, p)[k] = r[k]
      BY ONLY <2>2
    <2>4. new = Append(r, p)
      BY <2>1 DEF r
    <2> HIDE DEF new
    <2>5. /\ new \in Seq(Prints) /\ Len(new) = Len(history) + 1 - 1
          /\ new[Len(history) + 1 - 1] = p
          /\ \A k \in 1..(Len(history) - 1) : new[k] = history[k + 1]
      BY <1>1, <2>2, <2>3, <2>4
    <2> QED
      BY <1>2, <2>5 DEF new
  <1>3. CASE Len(history) # HistoryLimit
    <2>1. new = Append(history, p)
      BY <1>3 DEF Remembered
    <2>2. /\ Append(history, p) \in Seq(Prints) /\ Len(Append(history, p)) = Len(history) + 1
          /\ Append(history, p)[Len(history) + 1] = p
          /\ \A k \in 1..Len(history) : Append(history, p)[k] = history[k]
      OBVIOUS
    <2> HIDE DEF new
    <2>3. /\ new \in Seq(Prints) /\ Len(new) = Len(history) + 1 - 0
          /\ new[Len(history) + 1 - 0] = p
          /\ \A k \in 1..(Len(history) - 0) : new[k] = history[k + 0]
      BY <1>1, <2>1, <2>2
    <2> QED
      BY <2>3 DEF new
  <1> QED
    BY <1>2, <1>3

\* The clean thread is done with a tick: whatever it decides, the fingerprints
\* that are still held stay held or have been driven out by enough others.
LEMMA Memorized ==
    ASSUME IInv, OneEach, InTurn, Remembering, VerdictHolds, CleanRemember(1)
    PROVE  Remembering'
  <1>h. PICK h : h = Head(clean[1].batch)
    OBVIOUS
  <1>p. PICK p : p = prints[h]
    OBVIOUS
  <1>n. PICK n : n = Len(history)
    OBVIOUS
  <1>1. /\ clean[1].batch # << >> /\ clean[1].pc = "remember"
        /\ h \in Turns[2] /\ h \in Nat
    <2>1. clean[1].pc = "remember" /\ clean[1].batch # << >> /\ clean[1].batch \in Seq(Ids)
      BY TheThreads DEF CleanRemember
    <2>2. h \in Ids /\ h \in ToSet(clean[1].batch)
      BY <1>h, <2>1, HeadAndTail, PartsOfASet
    <2> QED
      BY <2>1, <2>2, TurnsAre, TheThreads DEF TurnsLaw
  <1>2. h \in 1..Len(prints) /\ p \in Prints
    <2>1. h \in 1..Len(prints)
      BY <1>1 DEF InTurn
    <2> QED
      BY <1>p, <2>1, TheThreads
  <1>3. /\ prints' = prints /\ broadcast' = broadcast /\ history' = Remembered(p)
        /\ clean'[1].kept = IF clean[1].duplicate THEN clean[1].kept ELSE Append(clean[1].kept, h)
    BY <1>h, <1>p, TheThreads DEF CleanRemember, receiver, CleanThread
  <1>4. /\ Passed' = Passed \cup {h} /\ Earlier(Passed, {h})
        /\ Passed \subseteq 1..Len(prints) /\ Passed' \subseteq 1..Len(prints)
        /\ \A k \in Passed : k \in Nat /\ k < h
    <2>1. Passed' = Passed \cup {h} /\ Earlier(Passed, {h})
      BY <1>h, CleanRememberInTurn
    <2>2. Turns[1] \subseteq 1..Len(prints)
      BY DEF InTurn
    <2>3. Passed \subseteq 1..Len(prints)
      BY <2>2, TurnsAre DEF TurnsLaw
    <2> QED
      BY <2>1, <2>3, <1>2, TheThreads DEF Earlier
  <1>5. \/ clean[1].duplicate /\ Accepted' = Accepted
        \/ ~clean[1].duplicate /\ Accepted' = Accepted \cup {h}
    <2>1. CASE clean[1].duplicate
      BY <1>3, <2>1 DEF Accepted
    <2>2. CASE ~clean[1].duplicate
      <3> DEFINE q == clean[1].kept
      <3>1. q \in Seq(Ids)
        BY TheThreads
      <3> HIDE DEF q
      <3>2. ToSet(Append(q, h)) = ToSet(q) \cup {h}
        <4>0. h \in Ids
          BY <1>2, TheThreads
        <4>1. /\ Len(q) \in Nat /\ DOMAIN q = 1..Len(q)
              /\ DOMAIN Append(q, h) = 1..(Len(q) + 1)
              /\ Append(q, h)[Len(q) + 1] = h /\ \A i \in 1..Len(q) : Append(q, h)[i] = q[i]
          BY <3>1
        <4> DEFINE r == Append(q, h)
        <4> HIDE DEF r
        <4>2. ToSet(q) \cup {h} \subseteq ToSet(r)
          BY <4>1 DEF ToSet, r
        <4>3. \A i \in DOMAIN r : r[i] \in ToSet(q) \cup {h}
          <5> TAKE i \in DOMAIN r
          <5>1. i = Len(q) + 1 \/ i \in DOMAIN q
            BY <4>1 DEF r
          <5> QED
            BY <4>1, <5>1 DEF ToSet, r
        <4>4. ToSet(r) = ToSet(q) \cup {h}
          BY <4>2, <4>3 DEF ToSet
        <4> QED
          BY <4>4 DEF r
      <3>3. clean'[1].kept = Append(q, h)
        BY <1>3, <2>2 DEF q
      <3> QED
        BY <1>3, <2>2, <3>2, <3>3 DEF Accepted, q
    <2> QED
      BY <2>1, <2>2
  <1>6. /\ Accepted \subseteq Passed /\ HistoryInjective /\ Spaced
        /\ \A i \in Accepted : StillHeld(i) \/ Outrun(i)
    BY DEF Remembering
  <1>7. ~clean[1].duplicate => \A k \in DOMAIN history : history[k] # p
    BY <1>1, <1>h, <1>p DEF VerdictHolds
  <1>8. /\ history \in Seq(Prints) /\ n \in Nat /\ n <= HistoryLimit
        /\ DOMAIN history = 1..n /\ HistoryLimit \in Nat
    BY <1>n, Constants, TheThreads DEF IInv, TypeOK
  <1>9. ASSUME NEW i \in Passed
        PROVE  /\ \A x : x \in Since(i)' <=> x \in Since(i) \/ (x = p /\ p # prints[i])
               /\ \A j \in Passed : Between(i, j)' = Between(i, j)
               /\ Between(i, h)' = Since(i)
    <2>1. i \in Nat /\ i < h /\ prints[h] = p
      BY <1>4, <1>p
    <2>2. \A x : x \in Since(i)' <=> x \in Since(i) \/ (x = p /\ p # prints[i])
      BY <1>3, <1>4, <2>1, SinceIs, SinceIsNext DEF SinceLaw
    <2>3. ASSUME NEW j \in Passed PROVE Between(i, j)' = Between(i, j)
      <3>1. j \in Nat /\ j < h /\ h \in Nat
        BY <1>1, <1>4
      <3>2. \A k : k \in Passed' /\ k < j <=> k \in Passed /\ k < j
        BY <1>4, <3>1
      <3>3. \A x : x \in Between(i, j)' <=> x \in Between(i, j)
        BY <1>3, <3>2, SinceIs, SinceIsNext DEF SinceLaw
      <3> QED
        BY <3>3 DEF Between
    <2>4. Between(i, h)' = Since(i)
      <3>1. \A x : x \in Between(i, h)' <=> x \in Since(i)
        BY <1>1, <1>3, <1>4, <2>1, SinceIs, SinceIsNext DEF SinceLaw
      <3> QED
        BY <3>1 DEF Between, Since
    <2> QED
      BY <2>2, <2>3, <2>4
  <1>10. ASSUME NEW i \in Passed
         PROVE  /\ IsFiniteSet(Since(i)') /\ IsFiniteSet(Since(i)) /\ Since(i) \subseteq Since(i)'
                /\ Outrun(i) => Outrun(i)'
    <2>1. IsFiniteSet(Since(i)') /\ IsFiniteSet(Since(i))
      BY <1>3, <1>4, TheThreads, SinceIs, SinceIsNext DEF SinceLaw
    <2>2. Since(i) \subseteq Since(i)'
      BY <1>9
    <2>3. /\ Cardinality(Since(i)) \in Nat /\ Cardinality(Since(i)') \in Nat
          /\ Cardinality(Since(i)) <= Cardinality(Since(i)')
      BY <2>1, <2>2, Monotone
    <2> QED
      BY <2>1, <2>2, <2>3, <1>8 DEF Outrun
  <1>11. CASE \E k \in DOMAIN history : history[k] = p
    <2>1. history' = history
      BY <1>3, <1>11 DEF Remembered
    <2>2. clean[1].duplicate /\ Accepted' = Accepted
      BY <1>5, <1>7, <1>11
    <2>3. ASSUME NEW i \in Accepted' PROVE (StillHeld(i) \/ Outrun(i))'
      <3>1. i \in Passed /\ i \in Accepted
        BY <1>6, <2>2
      <3>2. StillHeld(i) => StillHeld(i)'
        BY <1>3, <1>10, <2>1, <3>1 DEF StillHeld
      <3> QED
        BY <1>6, <1>10, <3>1, <3>2
    <2>4. Spaced'
      BY <1>3, <1>6, <1>9, <2>2 DEF Spaced
    <2>5. HistoryInjective' /\ Accepted' \subseteq Passed'
      BY <1>4, <1>6, <2>1, <2>2 DEF HistoryInjective
    <2> QED
      BY <2>3, <2>4, <2>5 DEF Remembering
  <1>12. CASE \A k \in DOMAIN history : history[k] # p
    <2>1. PICK d \in {0, 1} :
            /\ history' \in Seq(Prints) /\ Len(history') = n + 1 - d
            /\ history'[n + 1 - d] = p
            /\ \A k \in 1..(n - d) : history'[k] = history[k + d]
            /\ d = 1 => n = HistoryLimit
      BY <1>2, <1>3, <1>8, <1>n, <1>12, HistoryGrows
    <2>2. DOMAIN history' = 1..(n + 1 - d) /\ d \in Nat /\ (d = 1 => n > 0)
      BY <2>1, <1>8, Constants
    <2>3. \A k \in DOMAIN history' : k = n + 1 - d \/ (k \in 1..(n - d) /\ k + d \in DOMAIN history)
      BY <2>1, <2>2, <1>8
    <2>4. HistoryInjective'
      <3> SUFFICES ASSUME NEW k \in DOMAIN history', NEW l \in DOMAIN history',
                          history'[k] = history'[l]
                   PROVE  k = l
        BY DEF HistoryInjective
      <3>1. CASE k = n + 1 - d /\ l # n + 1 - d
        BY <3>1, <2>1, <2>3, <1>12
      <3>2. CASE l = n + 1 - d /\ k # n + 1 - d
        BY <3>2, <2>1, <2>3, <1>12
      <3>3. CASE k # n + 1 - d /\ l # n + 1 - d
        <4>1. history[k + d] = history[l + d] /\ k + d \in DOMAIN history /\ l + d \in DOMAIN history
          BY <3>3, <2>1, <2>3
        <4>2. k + d = l + d
          BY <4>1, <1>6 DEF HistoryInjective
        <4> QED
          BY <4>2, <2>2
      <3> QED
        BY <3>1, <3>2, <3>3
    <2>5. ASSUME NEW i \in Accepted PROVE (StillHeld(i) \/ Outrun(i))'
      <3>0. i \in Passed
        BY <1>6
      <3>1. CASE Outrun(i)
        BY <1>10, <3>0, <3>1
      <3>2. CASE StillHeld(i)
        <4>1. PICK k \in DOMAIN history :
                /\ history[k] = prints[i]
                /\ \A l \in DOMAIN history : l > k => history[l] \in Since(i)
          BY <3>2 DEF StillHeld
        <4>2. p # prints[i] /\ p \in Since(i)'
          BY <1>9, <1>12, <3>0, <4>1
        <4>3. \A l \in DOMAIN history' : l > k - d => history'[l] \in Since(i)'
          <5> SUFFICES ASSUME NEW l \in DOMAIN history', l > k - d PROVE history'[l] \in Since(i)'
            OBVIOUS
          <5>1. CASE l = n + 1 - d
            BY <5>1, <2>1, <4>2
          <5>2. CASE l # n + 1 - d
            <6>1. history'[l] = history[l + d] /\ l + d \in DOMAIN history /\ l + d > k
              BY <5>2, <2>1, <2>3, <2>2, <1>8
            <6> QED
              BY <6>1, <4>1, <1>10, <3>0
          <5> QED
            BY <5>1, <5>2
        <4>4. CASE k > d
          <5>1. k - d \in DOMAIN history' /\ history'[k - d] = history[k]
            BY <4>4, <2>1, <2>2, <1>8
          <5>2. history'[k - d] = prints'[i]
            BY <5>1, <4>1, <1>3
          <5>3. StillHeld(i)'
            BY <5>1, <5>2, <4>3 DEF StillHeld
          <5> QED
            BY <5>3
        <4>5. CASE ~(k > d)
          <5>1. d = 1 /\ k = 1 /\ Len(history') = HistoryLimit
            BY <4>5, <2>1, <2>2, <1>8
          <5>2. \A l \in DOMAIN history' : history'[l] \in Since(i)'
            BY <5>1, <4>3, <2>2, <1>8
          <5>3. \A a, b \in DOMAIN history' : history'[a] = history'[b] => a = b
            BY <2>4 DEF HistoryInjective
          <5>4. Len(history') <= Cardinality(Since(i)')
            BY <5>2, <5>3, <2>1, <1>10, <3>0, NoLongerThan
          <5>5. Cardinality(Since(i)') \in Nat
            BY <1>10, <3>0, Monotone
          <5> QED
            BY <5>1, <5>4, <5>5, <1>8 DEF Outrun
        <4> QED
          BY <4>4, <4>5
      <3> QED
        BY <1>6, <3>1, <3>2
    <2>6. StillHeld(h)'
      <3>1. n + 1 - d \in DOMAIN history' /\ history'[n + 1 - d] = prints'[h]
        BY <2>1, <2>2, <1>3, <1>8, <1>p
      <3>2. \A l \in DOMAIN history' : ~(l > n + 1 - d)
        BY <2>2, <1>8
      <3> QED
        BY <3>1, <3>2 DEF StillHeld
    <2>7. ASSUME NEW i \in Accepted', NEW j \in Accepted', i < j, prints'[i] = prints'[j]
          PROVE  Cardinality(Between(i, j)') >= HistoryLimit
      <3>1. CASE i \in Accepted /\ j \in Accepted
        <4>1. i \in Passed /\ j \in Passed /\ Cardinality(Between(i, j)) >= HistoryLimit
          BY <3>1, <2>7, <1>3, <1>6 DEF Spaced
        <4> QED
          BY <4>1, <1>9
      <3>2. CASE i \in Accepted /\ j = h
        <4>1. i \in Passed /\ prints[i] = p
          BY <3>2, <2>7, <1>3, <1>6, <1>p
        <4>2. ~StillHeld(i)
          BY <4>1, <1>12 DEF StillHeld
        <4>3. Outrun(i)
          BY <3>2, <4>2, <1>6
        <4> QED
          BY <3>2, <4>1, <4>3, <1>9 DEF Outrun
      <3>3. CASE i = h
        <4>1. j \in Passed \/ j = h
          BY <1>5, <1>6
        <4> QED
          BY <3>3, <4>1, <2>7, <1>1, <1>4
      <3> QED
        BY <3>1, <3>2, <3>3, <1>5
    <2>8. Spaced'
      BY <2>7 DEF Spaced
    <2>9. Accepted' \subseteq Passed'
      BY <1>4, <1>5, <1>6
    <2>10. \A i \in Accepted' : (StillHeld(i) \/ Outrun(i))'
      BY <2>5, <2>6, <1>5
    <2> QED
      BY <2>4, <2>8, <2>9, <2>10 DEF Remembering
  <1> QED
    BY <1>11, <1>12

\* The verdict is passed on the history that the tick then finds.
LEMMA VerdictPassed ==
    ASSUME IInv, OneEach, CleanJudge(1)
    PROVE  VerdictHolds'
  <1> DEFINE h == Head(clean[1].batch)
  <1>1. /\ prints' = prints /\ history' = history
        /\ clean'[1].duplicate = IsDuplicate(prints[h]) /\ clean'[1].batch = clean[1].batch
    BY TheThreads DEF CleanJudge, receiver, CleanThread
  <1> QED
    BY <1>1 DEF VerdictHolds, IsDuplicate

\* What sorting leaves in a batch.
LEMMA SortedSet ==
    ASSUME prints \in Seq(Prints), NEW ids \in Seq(1..Len(prints))
    PROVE  InOrder(ids) \in Seq(1..Len(prints)) /\ ToSet(InOrder(ids)) = ToSet(ids)
  <1>1. PICK from \in [1..Len(ids) -> 1..Len(ids)] :
          /\ \A k \in 1..Len(ids) : \E i \in 1..Len(ids) : from[i] = k
          /\ InOrder(ids) = [i \in 1..Len(ids) |-> ids[from[i]]]
    BY Rearranged
  <1>2. Len(ids) \in Nat /\ DOMAIN ids = 1..Len(ids)
        /\ \A i \in 1..Len(ids) : ids[i] \in 1..Len(prints)
    OBVIOUS
  <1> DEFINE r == InOrder(ids)
  <1>3. DOMAIN r = 1..Len(ids) /\ \A i \in 1..Len(ids) : r[i] = ids[from[i]]
    BY <1>1
  <1>4. r \in Seq(1..Len(prints))
    <2>1. \A i \in 1..Len(ids) : ids[from[i]] \in 1..Len(prints)
      BY <1>1, <1>2
    <2>2. r = [i \in 1..Len(ids) |-> ids[from[i]]]
      BY <1>1
    <2> HIDE DEF r
    <2> QED
      BY ONLY <1>2, <2>1, <2>2
  <1> HIDE DEF r
  <1>5. ToSet(r) \subseteq ToSet(ids)
    BY <1>2, <1>3 DEF ToSet
  <1>6. ToSet(ids) \subseteq ToSet(r)
    <2> SUFFICES ASSUME NEW k \in 1..Len(ids) PROVE ids[k] \in ToSet(r)
      BY <1>2 DEF ToSet
    <2>1. PICK i \in 1..Len(ids) : from[i] = k
      BY <1>1
    <2> QED
      BY <1>3, <2>1 DEF ToSet
  <1> QED
    BY <1>4, <1>5, <1>6 DEF r

\* The broadcast takes over what was kept.
LEMMA BroadcastAccepted ==
    ASSUME IInv, OneEach, InTurn, Remembering, CleanBroadcast(1)
    PROVE  Accepted' = Accepted
  <1> DEFINE q == clean[1].kept
  <1>1. broadcast' = broadcast \o InOrder(q) /\ clean'[1].kept = << >>
    BY TheThreads DEF CleanBroadcast, CleanThread
  <1>2. q \in Seq(1..Len(prints)) /\ prints \in Seq(Prints)
    <2>1. \A k \in DOMAIN q : q[k] \in Passed
      BY DEF Remembering, Accepted, ToSet
    <2>2. Passed \subseteq 1..Len(prints)
      <3>1. Turns[1] \subseteq 1..Len(prints)
        BY DEF InTurn
      <3> QED
        BY <3>1, TurnsAre DEF TurnsLaw
    <2>3. q \in Seq(Ids) /\ prints \in Seq(Prints)
      BY TheThreads
    <2> HIDE DEF q
    <2>4. \A k \in 1..Len(q) : q[k] \in 1..Len(prints)
      <3>1. DOMAIN q = 1..Len(q)
        BY <2>3
      <3> QED
        BY <2>1, <2>2, <3>1
    <2> QED
      BY <2>3, <2>4, Retyped
  <1> DEFINE r == InOrder(q)
  <1>3. r \in Seq(1..Len(prints)) /\ ToSet(r) = ToSet(q)
    BY <1>2, SortedSet
  <1>4. ToSet(broadcast \o r) = ToSet(broadcast) \cup ToSet(r)
    <2> HIDE DEF r
    <2> DEFINE b == broadcast
    <2>1. b \in Seq(Ids) /\ r \in Seq(Ids)
      <3>1. Len(r) \in Nat /\ \A k \in 1..Len(r) : r[k] \in Ids
        <4>1. Len(r) \in Nat /\ \A k \in 1..Len(r) : r[k] \in 1..Len(prints)
          BY <1>3
        <4>2. 1..Len(prints) \subseteq Ids
          BY TheThreads
        <4> QED
          BY <4>1, <4>2
      <3>2. r \in Seq(Ids)
        BY <1>3, <3>1, Retyped
      <3> QED
        BY <3>2, TheThreads
    <2> HIDE DEF b
    <2>2. /\ DOMAIN (b \o r) = 1..(Len(b) + Len(r)) /\ Len(b) \in Nat /\ Len(r) \in Nat
          /\ DOMAIN b = 1..Len(b) /\ DOMAIN r = 1..Len(r)
          /\ \A i \in 1..Len(b) : (b \o r)[i] = b[i]
          /\ \A i \in 1..Len(r) : (b \o r)[Len(b) + i] = r[i]
      BY <2>1, JoinedAt
    <2>3. ToSet(b) \subseteq ToSet(b \o r) /\ ToSet(r) \subseteq ToSet(b \o r)
      BY <2>1, JoinedSets
    <2> DEFINE br == b \o r
    <2> HIDE DEF br
    <2>4. \A k \in DOMAIN br : br[k] \in ToSet(b) \cup ToSet(r)
      <3> TAKE k \in DOMAIN br
      <3>1. CASE k <= Len(b)
        BY <2>2, <3>1 DEF br, ToSet
      <3>2. CASE ~(k <= Len(b))
        <4>1. k - Len(b) \in DOMAIN r /\ br[k] = r[k - Len(b)]
          BY <2>2, <3>2 DEF br
        <4> QED
          BY <4>1 DEF ToSet
      <3> QED
        BY <3>1, <3>2
    <2>5. ToSet(br) = ToSet(b) \cup ToSet(r)
      BY <2>3, <2>4 DEF br, ToSet
    <2> QED
      BY <2>5 DEF br, b
  <1>5. ToSet(<< >>) = {}
    BY DEF ToSet
  <1> HIDE DEF r
  <1>6. broadcast' = broadcast \o r
    BY <1>1 DEF r
  <1> QED
    BY <1>1, <1>3, <1>4, <1>5, <1>6 DEF Accepted

\* A fingerprint is broadcast again only after HistoryLimit others, though a
\* duplicate does not renew its place in the history.  One raw thread keeps
\* the ticks in their order; with a second clean thread, TLC shows, both may
\* find the history without the fingerprint.
THEOREM RepeatsApart == ASSUME RawStarts = 1, CleanStarts = 1 PROVE Spec => []NoRepeat
  <1> DEFINE Inv == IInv /\ InTurn /\ Remembering /\ VerdictHolds
  <1>0. OneEach /\ RawThreads = {1} /\ CleanThreads = {1}
    BY DEF OneEach, RawThreads, CleanThreads
  <1>1. Init => Inv
    <2> SUFFICES ASSUME Init PROVE InTurn /\ Remembering /\ VerdictHolds
      BY InitKept
    <2>1. /\ clean[1].batch = << >> /\ clean[1].kept = << >> /\ clean[1].pc = "unborn"
          /\ raw[1].batch = << >> /\ cleanQ = << >> /\ tickQ = << >> /\ pending = 0
          /\ offered = {} /\ history = << >> /\ broadcast = << >>
      BY <1>0 DEF Init
    <2>2. ToSet(<< >>) = {} /\ Rising(<< >>)
      BY DEF ToSet, Rising
    <2>3. /\ Turns[1] = {} /\ Turns[2] = {} /\ Turns[3] = {} /\ Turns[4] = {}
          /\ Turns[5] = {} /\ Turns[6] = {}
      BY <2>1, <2>2, TurnsAre DEF TurnsLaw, Passed
    <2>4. \A n \in 1..6 : Turns[n] = {}
      BY <2>3
    <2>5. InTurn
      BY <2>1, <2>2, <2>4 DEF InTurn, Apart, Earlier
    <2>6. Accepted = {}
      BY <2>1, <2>2 DEF Accepted
    <2>7. Remembering
      BY <2>1, <2>6 DEF Remembering, HistoryInjective, Spaced
    <2> QED
      BY <2>1, <2>5, <2>7 DEF VerdictHolds
  <1>2. Inv /\ [Next]_vars => Inv'
    <2> SUFFICES ASSUME Inv, [Next]_vars PROVE Inv'
      OBVIOUS
    <2>0. IInv'
      BY StepKept DEF Kept
    <2>f. /\ Passed \subseteq 1..Len(prints) /\ Len(prints) \in Nat
          /\ \A i \in Passed : i \in Nat
      <3>1. Turns[1] \subseteq 1..Len(prints)
        BY DEF InTurn
      <3> QED
        BY <3>1, <1>0, TheThreads, TurnsAre DEF TurnsLaw
    <2>l. ASSUME Passed' = Passed, Accepted' = Accepted, history' = history,
                 \A k \in 1..Len(prints) : prints'[k] = prints[k]
          PROVE  Remembering'
      BY <2>l, <2>f, MemoryLeft
    <2>v. ASSUME history' = history, clean'[1].pc # "remember"
          PROVE  VerdictHolds'
      BY <2>v DEF VerdictHolds
    <2>1. CASE UNCHANGED <<prints, offered, cleanQ, tickQ, pending, history, broadcast, clean>>
               /\ raw'[1].batch = raw[1].batch
      <3>1. InTurn' /\ Passed' = Passed
        BY <2>1, TurnsLeft
      <3>2. Accepted' = Accepted
        BY <2>1 DEF Accepted
      <3>3. VerdictHolds'
        BY <2>1 DEF VerdictHolds
      <3> QED
        BY <2>0, <2>1, <2>l, <3>1, <3>2, <3>3
    <2>2. CASE Arrive
      <3>1. InTurn' /\ Passed' = Passed
        BY <1>0, <2>2, ArriveInTurn
      <3>2. UNCHANGED <<clean, history, broadcast>>
        BY <2>2 DEF Arrive, cleanSide
      <3>3. \A k \in 1..Len(prints) : prints'[k] = prints[k]
        <4>1. PICK p \in Prints : prints' = Append(prints, p)
          BY <2>2 DEF Arrive
        <4> QED
          BY <4>1, <1>0, TheThreads
      <3>4. Accepted' = Accepted
        BY <3>2 DEF Accepted
      <3>5. VerdictHolds'
        <4>1. CASE clean[1].pc = "remember"
          <5>1. clean[1].batch # << >> /\ clean[1].batch \in Seq(Ids)
            BY <4>1, <1>0, TheThreads
          <5>2. Head(clean[1].batch) \in Turns[2]
            BY <5>1, PartsOfASet, TurnsAre DEF TurnsLaw
          <5>3. Head(clean[1].batch) \in 1..Len(prints)
            BY <5>2 DEF InTurn
          <5> QED
            BY <5>3, <3>2, <3>3 DEF VerdictHolds
        <4>2. CASE clean[1].pc # "remember"
          BY <4>2, <3>2 DEF VerdictHolds
        <4> QED
          BY <4>1, <4>2
      <3> QED
        BY <2>0, <2>l, <3>1, <3>2, <3>3, <3>4, <3>5
    <2>3. CASE Enqueue \/ GiveUp \/ RawTake(1) \/ RawDrops(1) \/ RawForward(1)
      <3>1. InTurn' /\ Passed' = Passed
        BY <1>0, <2>3, EntryInTurn, RawTakeInTurn, RawDropsInTurn, RawForwardInTurn
      <3>2. UNCHANGED <<prints, clean, history, broadcast>>
        BY <2>3 DEF Enqueue, GiveUp, RawTake, RawDrops, RawForward, cleanSide, receiver
      <3>3. Accepted' = Accepted /\ VerdictHolds'
        BY <3>2 DEF Accepted, VerdictHolds
      <3> QED
        BY <2>0, <2>l, <3>1, <3>2, <3>3
    <2>4. CASE StartRaw \/ StopRaw \/ RawCheck(1) \/ RawRead(1) \/ RawWrite(1)
      <3>1. raw'[1].batch = raw[1].batch
        BY <1>0, <2>4, TheThreads DEF StartRaw, StopRaw, RawCheck, RawRead, RawWrite, RawThread
      <3> QED
        BY <2>1, <2>4, <3>1
        DEF StartRaw, StopRaw, RawCheck, RawRead, RawWrite, receiver, cleanSide
    <2>5. CASE StopClean
      BY <2>1, <2>5 DEF StopClean, receiver, rawSide
    <2>6. CASE StartClean \/ CleanCheck(1) \/ CleanFlush(1) \/ CleanWrite(1)
      <3>1. /\ clean'[1].batch = clean[1].batch /\ clean'[1].kept = clean[1].kept
            /\ clean'[1].pc # "remember"
        <4>1. clean \in [{1} -> CleanThread] /\ clean[1] \in CleanThread
          BY <1>0, TheThreads
        <4>2. CASE StartClean
          BY <1>0, <4>1, <4>2 DEF StartClean, CleanThread
        <4>3. CASE CleanCheck(1)
          BY <4>1, <4>3 DEF CleanCheck, CleanThread
        <4>4. CASE CleanFlush(1)
          BY <4>1, <4>4 DEF CleanFlush, CleanThread
        <4>5. CASE CleanWrite(1)
          BY <4>1, <4>5 DEF CleanWrite, CleanThread
        <4> QED
          BY <2>6, <4>2, <4>3, <4>4, <4>5
      <3>2. UNCHANGED <<prints, offered, cleanQ, tickQ, pending, history, broadcast, raw>>
        BY <2>6 DEF StartClean, CleanCheck, CleanFlush, CleanWrite, receiver, rawSide
      <3>3. InTurn' /\ Passed' = Passed
        BY <3>1, <3>2, TurnsLeft
      <3>4. Accepted' = Accepted
        BY <3>1, <3>2 DEF Accepted
      <3> QED
        BY <2>0, <2>l, <2>v, <3>1, <3>2, <3>3, <3>4
    <2>7. CASE CleanTake(1)
      <3>1. InTurn' /\ Passed' = Passed
        BY <1>0, <2>7, CleanTakeInTurn
      <3>2. clean'[1].kept = clean[1].kept /\ clean'[1].pc # "remember"
        BY <1>0, <2>7, TheThreads DEF CleanTake, CleanThread
      <3>3. UNCHANGED <<prints, history, broadcast>>
        BY <2>7 DEF CleanTake, receiver
      <3>4. Accepted' = Accepted
        BY <3>2, <3>3 DEF Accepted
      <3> QED
        BY <2>0, <2>l, <2>v, <3>1, <3>2, <3>3, <3>4
    <2>8. CASE CleanJudge(1)
      <3>1. clean'[1].kept = clean[1].kept /\ clean'[1].batch = clean[1].batch
        BY <1>0, <2>8, TheThreads DEF CleanJudge, CleanThread
      <3>2. UNCHANGED <<prints, offered, cleanQ, tickQ, pending, history, broadcast, raw>>
        BY <2>8 DEF CleanJudge, receiver, rawSide
      <3>3. InTurn' /\ Passed' = Passed
        BY <3>1, <3>2, TurnsLeft
      <3>4. Accepted' = Accepted
        BY <3>1, <3>2 DEF Accepted
      <3>5. VerdictHolds'
        BY <1>0, <2>8, VerdictPassed
      <3> QED
        BY <2>0, <2>l, <3>2, <3>3, <3>4, <3>5
    <2>9. CASE CleanRemember(1)
      <3>1. InTurn'
        BY <1>0, <2>9, CleanRememberInTurn
      <3>2. Remembering'
        BY <1>0, <2>9, Memorized
      <3>3. clean'[1].pc # "remember"
        BY <1>0, <2>9, TheThreads DEF CleanRemember, CleanThread
      <3>4. VerdictHolds'
        BY <3>3 DEF VerdictHolds
      <3> QED
        BY <2>0, <3>1, <3>2, <3>4
    <2>10. CASE CleanBroadcast(1)
      <3>1. clean'[1].batch = clean[1].batch /\ clean'[1].pc # "remember"
        BY <1>0, <2>10, TheThreads DEF CleanBroadcast, CleanThread
      <3>2. UNCHANGED <<prints, offered, cleanQ, tickQ, pending, history, raw>>
        BY <2>10 DEF CleanBroadcast, receiver, rawSide
      <3>3. InTurn' /\ Passed' = Passed
        BY <3>1, <3>2, TurnsLeft
      <3>4. Accepted' = Accepted
        BY <1>0, <2>10, BroadcastAccepted
      <3> QED
        BY <2>0, <2>l, <2>v, <3>1, <3>2, <3>3, <3>4
    <2>11. CASE UNCHANGED vars
      BY <2>1, <2>11 DEF vars, receiver, rawSide, cleanSide
    <2> QED
      BY <1>0, <2>2, <2>3, <2>4, <2>5, <2>6, <2>7, <2>8, <2>9, <2>10, <2>11
      DEF Next, RawStep, CleanStep
  <1>3. Inv => NoRepeat
    <2> SUFFICES ASSUME Inv, NEW i \in ToSet(broadcast), NEW j \in ToSet(broadcast),
                        i < j, prints[i] = prints[j]
                 PROVE  Cardinality({prints[k] : k \in offered \cap (i + 1)..(j - 1)} \ {prints[i]})
                          >= HistoryLimit
      BY DEF NoRepeat
    <2> DEFINE T == {prints[k] : k \in offered \cap (i + 1)..(j - 1)} \ {prints[i]}
    <2>1. /\ Passed \subseteq 1..Len(prints) /\ Len(prints) \in Nat /\ HistoryLimit \in Nat
          /\ offered \subseteq 1..Len(prints)
      <3>1. /\ Turns[1] \subseteq 1..Len(prints) /\ Turns[2] \subseteq 1..Len(prints)
            /\ Turns[3] \subseteq 1..Len(prints)
        BY DEF InTurn
      <3> QED
        BY <1>0, <3>1, TheThreads, TurnsAre, Constants DEF TurnsLaw, Passed
    <2>2. i \in Passed /\ j \in Passed /\ Cardinality(Between(i, j)) >= HistoryLimit
      BY DEF Remembering, Accepted, Spaced
    <2>3. i \in Nat /\ j \in Nat /\ Passed \subseteq offered
      BY <2>1, <2>2 DEF Passed
    <2>4. IsFiniteSet(T)
      <3>1. \A x \in T : \E k \in 1..Len(prints) : x = prints[k]
        BY <2>1
      <3> QED
        BY <2>1, <3>1, PrintsFinite
    <2>5. Between(i, j) \subseteq T
      <3> SUFFICES ASSUME NEW x \in Between(i, j) PROVE x \in T
        OBVIOUS
      <3>1. PICK k \in Passed : i < k /\ k < j /\ prints[k] = x /\ x # prints[i]
        BY SinceIs DEF SinceLaw
      <3>2. k \in offered \cap (i + 1)..(j - 1)
        BY <2>1, <2>3, <3>1
      <3> QED
        BY <3>1, <3>2
    <2> HIDE DEF T
    <2>6. /\ Cardinality(Between(i, j)) \in Nat /\ Cardinality(T) \in Nat
          /\ Cardinality(Between(i, j)) <= Cardinality(T)
      BY <2>4, <2>5, Monotone
    <2>7. Cardinality(T) >= HistoryLimit
      BY <2>1, <2>2, <2>6
    <2> QED
      BY <2>7 DEF T
  <1> HIDE DEF Inv
  <1> QED
    BY <1>1, <1>2, <1>3, PTL DEF Spec
=============================================================================
