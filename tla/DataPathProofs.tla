--------------------------- MODULE DataPathProofs ---------------------------
(***************************************************************************)
(* The candles of the day, for every clock, every number of ticks and      *)
(* whatever the feed sends: the closed minutes and the windows of the      *)
(* higher timeframes are the ones defined from the ticks, and the archive  *)
(* has all the minutes.                                                    *)
(*                                                                         *)
(* The definition speaks of all the ticks at once, the builder takes them  *)
(* one by one.  Built says what it holds after the ticks seq; one lemma    *)
(* for each branch of on_tick carries it to one tick more.  WindowsRight   *)
(* says what it holds of the windows: the buffer has the minutes since the *)
(* window began or since the last gap (Filling), the deque the windows     *)
(* that are whole (Filled).  The archive is whole because nothing is left  *)
(* that gives the builder a tick (NoThreadLeft): a stop in time has joined *)
(* the thread of the feed and that of the broadcast before it writes.      *)
(***************************************************************************)
EXTENDS DataPath, Recursion, FiniteSetTheorems, SequenceTheorems, TLAPS

\* A tick the builder is given, one on its way there, and a candle.
TickType == [minute : 0 .. Minute(Horizon), price : Int, volume : {None} \cup Nat,
             passed : BOOLEAN]
SentType == [price : Int, volume : {None} \cup Nat, passed : BOOLEAN]
CandleType == [minute : Nat, open : Int, close : Int, high : Int, low : Int,
               volume : Nat, gap : BOOLEAN]

LEMMA DayTyped == Minute(Horizon) \in Nat
  BY DataPathAssumption DEF Minute

\* A time of the day is in a minute of the day.
LEMMA MinuteTyped == ASSUME NEW time \in 0..Horizon PROVE Minute(time) \in 0..Minute(Horizon)
  <1>1. UnitsPerMinute \in Nat /\ UnitsPerMinute > 0 /\ Horizon \in Nat
    BY DataPathAssumption
  <1> QED
    BY <1>1 DEF Minute

-----------------------------------------------------------------------------
(* What ticks add up to.                                                   *)

LEMMA ClampIsNat == ASSUME NEW v \in {None} \cup Nat PROVE Clamp(v) \in Nat
  BY DEF Clamp, Higher, None

\* The running sum is what its definition says, and it is a sum.
LEMMA VolumeRuns ==
    ASSUME NEW seq \in Seq(TickType), NEW S
    PROVE  /\ \A n \in 0..Len(seq) : VolumeUpTo(seq, S)[n] \in Nat
           /\ VolumeUpTo(seq, S)[0] = 0
           /\ \A n \in 1..Len(seq) :
                 VolumeUpTo(seq, S)[n] = VolumeUpTo(seq, S)[n - 1]
                                           + (IF n \in S THEN Clamp(seq[n].volume) ELSE 0)
  <1> DEFINE len == Len(seq)
             part(n) == IF n \in S THEN Clamp(seq[n].volume) ELSE 0
             StepFcn == [x \in Nat \X (1..len) |-> x[1] + part(x[2])]
             Runs(f) == f = [n \in 0..len |-> IF n = 0 THEN 0 ELSE f[n - 1] + part(n)]
             r == VolumeUpTo(seq, S)
  <1>1. len \in Nat /\ \A n \in 1..len : part(n) \in Nat
    <2>1. len \in Nat /\ \A n \in 1..len : seq[n] \in TickType
      OBVIOUS
    <2>2. \A t \in TickType : Clamp(t.volume) \in Nat
      BY ClampIsNat DEF TickType
    <2> QED
      BY <2>1, <2>2
  <1>2. r = CHOOSE g : Runs(g)
    BY DEF VolumeUpTo
  <1> HIDE DEF part, len, r
  <1>3. StepFcn \in [Nat \X (1..len) -> Nat]
    BY <1>1
  <1>4. \A t \in Nat, n \in 1..len : StepFcn[<<t, n>>] = t + part(n)
    OBVIOUS
  <1> HIDE DEF StepFcn
  <1>5. PICK f \in [0..len -> Nat] : Follows(f, 0, len, StepFcn)
    BY <1>1, <1>3, ByRecursion
  <1>6. Runs(f)
    <2>1. ASSUME NEW n \in 1..len PROVE f[n] = f[n - 1] + part(n)
      <3>1. n - 1 \in 0..len
        BY <1>1
      <3>2. f[n - 1] \in Nat
        BY <1>5, <3>1
      <3>3. f[n] = StepFcn[<<f[n - 1], n>>]
        BY <1>5 DEF Follows
      <3> QED
        BY <1>4, <3>2, <3>3
    <2>2. f = [n \in 0..len |-> f[n]]
      BY <1>5
    <2>3. \A n \in 0..len : f[n] = IF n = 0 THEN 0 ELSE f[n - 1] + part(n)
      BY <1>1, <1>5, <2>1 DEF Follows
    <2> QED
      BY <2>2, <2>3
  <1>7. Runs(r)
    <2> HIDE DEF Runs
    <2> QED
      BY <1>2, <1>6
  <1>8. r[0] = 0 /\ \A n \in 1..len : r[n] = r[n - 1] + part(n)
    BY <1>1, <1>7
  <1> HIDE DEF Runs
  <1>9. \A n \in 0..len : r[n] \in Nat
    <2> DEFINE P == {n \in Nat : n <= len => r[n] \in Nat}
    <2>1. 0 \in P
      BY <1>8
    <2>2. ASSUME NEW n \in Nat, n \in P
          PROVE  n + 1 \in P
      <3>1. SUFFICES ASSUME n + 1 <= len PROVE r[n + 1] \in Nat
        OBVIOUS
      <3>2. r[n] \in Nat /\ n + 1 \in 1..len /\ n + 1 - 1 = n
        BY <1>1, <2>2, <3>1
      <3> QED
        BY <1>1, <1>8, <3>2
    <2> HIDE DEF P
    <2>3. \A n \in Nat : n \in P
      BY <2>1, <2>2, FromZero
    <2> QED
      BY <1>1, <2>3 DEF P
  <1> QED
    BY <1>8, <1>9 DEF r, len, part

\* Sums over the same ticks are the same.
LEMMA SameVolume ==
    ASSUME NEW seq \in Seq(TickType), NEW new \in Seq(TickType), NEW S, NEW T,
           NEW m \in Nat, m <= Len(seq), m <= Len(new),
           \A i \in 1..m : new[i] = seq[i] /\ (i \in S <=> i \in T)
    PROVE  VolumeUpTo(seq, S)[m] = VolumeUpTo(new, T)[m]
  <1> DEFINE f == VolumeUpTo(seq, S)
             g == VolumeUpTo(new, T)
             P == {n \in Nat : n <= m => f[n] = g[n]}
  <1>1. /\ f[0] = g[0]
        /\ \A n \in 1..m :
              /\ f[n] = f[n - 1] + (IF n \in S THEN Clamp(seq[n].volume) ELSE 0)
              /\ g[n] = g[n - 1] + (IF n \in S THEN Clamp(seq[n].volume) ELSE 0)
    <2>1. Len(seq) \in Nat /\ Len(new) \in Nat
      OBVIOUS
    <2>2. \A n \in 1..m : n \in 1..Len(seq) /\ n \in 1..Len(new)
      BY <2>1
    <2> HIDE DEF f, g
    <2> QED
      BY <2>2, VolumeRuns DEF f, g
  <1> HIDE DEF f, g
  <1>2. 0 \in P
    BY <1>1
  <1>3. ASSUME NEW n \in Nat, n \in P
        PROVE  n + 1 \in P
    <2>1. SUFFICES ASSUME n + 1 <= m PROVE f[n + 1] = g[n + 1]
      OBVIOUS
    <2>2. f[n] = g[n] /\ n + 1 \in 1..m /\ n + 1 - 1 = n
      BY <1>3, <2>1
    <2> QED
      BY <1>1, <2>2
  <1> HIDE DEF P
  <1>4. \A n \in Nat : n \in P
    BY <1>2, <1>3, FromZero
  <1> QED
    BY <1>4 DEF P, f, g

\* What one tick more is to a sequence of ticks.
LEMMA Appended ==
    ASSUME NEW seq \in Seq(TickType), NEW x \in TickType
    PROVE  /\ Append(seq, x) \in Seq(TickType)
           /\ Len(seq) \in Nat /\ Len(Append(seq, x)) = Len(seq) + 1
           /\ Append(seq, x)[Len(seq) + 1] = x
           /\ \A i \in 1..Len(seq) : Append(seq, x)[i] = seq[i] /\ seq[i] \in TickType
  OBVIOUS

\* One tick more, which counts in T or not.
LEMMA VolumeAppend ==
    ASSUME NEW seq \in Seq(TickType), NEW new \in Seq(TickType), NEW S, NEW T,
           Len(new) = Len(seq) + 1,
           \A i \in 1..Len(seq) : new[i] = seq[i] /\ (i \in S <=> i \in T)
    PROVE  /\ VolumeUpTo(seq, S)[Len(seq)] \in Nat
           /\ Len(seq) + 1 \notin T =>
                VolumeUpTo(new, T)[Len(seq) + 1] = VolumeUpTo(seq, S)[Len(seq)]
           /\ Len(seq) + 1 \in T =>
                VolumeUpTo(new, T)[Len(seq) + 1]
                  = VolumeUpTo(seq, S)[Len(seq)] + Clamp(new[Len(seq) + 1].volume)
  <1> DEFINE N == Len(seq)
  <1>1. VolumeUpTo(seq, S)[N] = VolumeUpTo(new, T)[N]
    <2>1. N <= Len(seq) /\ N <= Len(new)
      OBVIOUS
    <2>2. seq \in Seq(TickType) /\ new \in Seq(TickType) /\ N \in Nat
      OBVIOUS
    <2>3. \A i \in 1..N : new[i] = seq[i] /\ (i \in S <=> i \in T)
      OBVIOUS
    <2> HIDE DEF N
    <2> QED
      BY ONLY <2>1, <2>2, <2>3, SameVolume
  <1>2. N + 1 \in 1..Len(new) /\ N + 1 - 1 = N /\ N \in 0..Len(seq)
    OBVIOUS
  <1>3. VolumeUpTo(seq, S)[N] \in Nat
    BY <1>2, VolumeRuns
  <1> QED
    BY <1>1, <1>2, <1>3, VolumeRuns

-----------------------------------------------------------------------------
(* The candles and gaps the properties speak of, without CHOOSE: what a    *)
(* candle shows of the ticks in S, and a gap of the minute before it.      *)

CountedIn(seq, m) == {i \in 1..Len(seq) : /\ seq[i].minute = m
                                          /\ \A j \in 1..i - 1 : seq[j].minute <= m}

Shows(seq, S, c) ==
    /\ c \in CandleType /\ ~c.gap
    /\ \E i \in S : c.open = seq[i].price /\ \A j \in S : i <= j
    /\ \E i \in S : c.close = seq[i].price /\ \A j \in S : j <= i
    /\ \E i \in S : c.high = seq[i].price
    /\ \E i \in S : c.low = seq[i].price
    /\ \A i \in S : seq[i].price <= c.high /\ c.low <= seq[i].price
    /\ c.volume = VolumeUpTo(seq, S)[Len(seq)]

\* A minute without a tick: l is the last one that traded before it.
Skipped(seq, m, c) ==
    \E l \in 0..m - 1 : \E k \in CountedIn(seq, l) :
        /\ \A o \in l + 1..m - 1 : CountedIn(seq, o) = {}
        /\ \A j \in CountedIn(seq, l) : j <= k
        /\ c = GapCandle(m, seq[k].price)

\* The candle of a minute that is over.
Right(seq, m, c) ==
    /\ c \in CandleType /\ c.minute = m
    /\ CountedIn(seq, m) # {} => Shows(seq, CountedIn(seq, m), c)
    /\ CountedIn(seq, m) = {} => Skipped(seq, m, c)

LEMMA TickFields ==
    ASSUME NEW x \in TickType
    PROVE  /\ x.minute \in 0..Minute(Horizon) /\ x.minute \in Int
           /\ x.price \in Int /\ x.volume \in {None} \cup Nat /\ Clamp(x.volume) \in Nat
  <1>1. x.minute \in 0..Minute(Horizon) /\ x.price \in Int /\ x.volume \in {None} \cup Nat
    BY DEF TickType
  <1> QED
    BY <1>1, ClampIsNat

LEMMA CandleFields ==
    ASSUME NEW c \in CandleType
    PROVE  /\ c.minute \in Nat /\ c.open \in Int /\ c.close \in Int /\ c.high \in Int
           /\ c.low \in Int /\ c.volume \in Nat /\ c.gap \in BOOLEAN
  BY DEF CandleType

LEMMA LastIs ==
    ASSUME NEW S \in SUBSET Int, NEW i \in S, \A j \in S : j <= i
    PROVE  LastOf(S) = i
  <1>1. \A o \in S : (\A j \in S : j <= o) => o = i
    <2>1. ASSUME NEW o \in S, \A j \in S : j <= o PROVE o = i
      <3>1. o <= i /\ i <= o /\ o \in Int /\ i \in Int
        BY <2>1
      <3> QED
        BY <3>1
    <2> QED
      BY <2>1
  <1> QED
    BY <1>1 DEF LastOf

LEMMA FirstIs ==
    ASSUME NEW S \in SUBSET Int, NEW i \in S, \A j \in S : i <= j
    PROVE  FirstOf(S) = i
  <1>1. \A o \in S : (\A j \in S : o <= j) => o = i
    <2>1. ASSUME NEW o \in S, \A j \in S : o <= j PROVE o = i
      <3>1. o <= i /\ i <= o /\ o \in Int /\ i \in Int
        BY <2>1
      <3> QED
        BY <3>1
    <2> QED
      BY <2>1
  <1> QED
    BY <1>1 DEF FirstOf

\* A candle that shows the ticks of S is their candle.
LEMMA ShowsIs ==
    ASSUME NEW seq \in Seq(TickType), NEW S \in SUBSET (1..Len(seq)), NEW c, Shows(seq, S, c)
    PROVE  c = CandleOf(seq, S, c.minute)
  <1>1. /\ c \in CandleType /\ ~c.gap /\ S \subseteq Int
        /\ \A i \in S : seq[i].price \in Int
    <2>1. \A i \in S : seq[i] \in TickType /\ i \in Int
      OBVIOUS
    <2> QED
      BY <2>1, TickFields DEF Shows
  <1>2. c.open = seq[FirstOf(S)].price
    <2>1. PICK i \in S : c.open = seq[i].price /\ \A j \in S : i <= j
      BY DEF Shows
    <2> QED
      BY <1>1, <2>1, FirstIs
  <1>3. c.close = seq[LastOf(S)].price
    <2>1. PICK i \in S : c.close = seq[i].price /\ \A j \in S : j <= i
      BY DEF Shows
    <2> QED
      BY <1>1, <2>1, LastIs
  <1>4. c.high = HighestOf(seq, S)
    <2> DEFINE P == {seq[i].price : i \in S}
               Top(p) == \A i \in S : seq[i].price <= p
    <2>1. c.high \in P /\ Top(c.high)
      BY DEF Shows
    <2>2. ASSUME NEW p \in P, Top(p) PROVE p = c.high
      <3>1. p \in Int /\ c.high \in Int /\ c.high <= p /\ p <= c.high
        BY <1>1, <2>1, <2>2
      <3> QED
        BY <3>1
    <2>3. HighestOf(seq, S) = CHOOSE p \in P : Top(p)
      BY DEF HighestOf
    <2> HIDE DEF P, Top
    <2> QED
      BY <2>1, <2>2, <2>3
  <1>5. c.low = LowestOf(seq, S)
    <2> DEFINE P == {seq[i].price : i \in S}
               Bottom(p) == \A i \in S : p <= seq[i].price
    <2>1. c.low \in P /\ Bottom(c.low)
      BY DEF Shows
    <2>2. ASSUME NEW p \in P, Bottom(p) PROVE p = c.low
      <3>1. p \in Int /\ c.low \in Int /\ c.low <= p /\ p <= c.low
        BY <1>1, <2>1, <2>2
      <3> QED
        BY <3>1
    <2>3. LowestOf(seq, S) = CHOOSE p \in P : Bottom(p)
      BY DEF LowestOf
    <2> HIDE DEF P, Bottom
    <2> QED
      BY <2>1, <2>2, <2>3
  <1>6. c.gap = FALSE /\ c.volume = VolumeUpTo(seq, S)[Len(seq)]
    BY <1>1 DEF Shows, CandleType
  <1> QED
    BY <1>1, <1>2, <1>3, <1>4, <1>5, <1>6 DEF CandleOf, CandleType

\* A gap that skips to minute m is the gap candle after the close before it.
LEMMA SkippedIs ==
    ASSUME NEW seq \in Seq(TickType), NEW m \in 0..Minute(Horizon), NEW c, Skipped(seq, m, c)
    PROVE  c = GapCandle(m, CloseBefore(seq, Counted(seq), m))
  <1> DEFINE ticksOf == Counted(seq)
             L == {l \in 0..m - 1 : ticksOf[l] # {}}
  <1>1. PICK l \in 0..m - 1 : \E k \in CountedIn(seq, l) :
            /\ \A o \in l + 1..m - 1 : CountedIn(seq, o) = {}
            /\ \A j \in CountedIn(seq, l) : j <= k
            /\ c = GapCandle(m, seq[k].price)
    BY DEF Skipped
  <1>2. PICK k \in CountedIn(seq, l) :
            /\ \A o \in l + 1..m - 1 : CountedIn(seq, o) = {}
            /\ \A j \in CountedIn(seq, l) : j <= k
            /\ c = GapCandle(m, seq[k].price)
    BY <1>1
  <1>3. \A o \in 0..m - 1 : ticksOf[o] = CountedIn(seq, o)
    <2>1. DOMAIN seq = 1..Len(seq)
      OBVIOUS
    <2>2. \A o \in 0..m - 1 : o \in 0..Minute(Horizon)
      BY DayTyped
    <2> QED
      BY <2>1, <2>2 DEF Counted, CountedIn
  <1> HIDE DEF ticksOf
  <1>4. LastOf(L) = l
    <2>1. L \in SUBSET Int /\ l \in L
      BY <1>1, <1>2, <1>3
    <2>2. \A o \in L : o <= l
      BY <1>1, <1>2, <1>3
    <2> HIDE DEF L
    <2> QED
      BY <2>1, <2>2, LastIs
  <1>5. LastOf(ticksOf[l]) = k
    <2>1. CountedIn(seq, l) \in SUBSET Int
      BY DEF CountedIn
    <2> QED
      BY <1>1, <1>2, <1>3, <2>1, LastIs
  <1> QED
    BY <1>2, <1>4, <1>5 DEF CloseBefore, ticksOf

-----------------------------------------------------------------------------
(* One tick more.                                                          *)

\* new is seq and a tick.
Grown(seq, new) ==
    /\ seq \in Seq(TickType) /\ new \in Seq(TickType) /\ Len(new) = Len(seq) + 1
    /\ \A i \in 1..Len(seq) : new[i] = seq[i]

LEMMA AppendGrows ==
    ASSUME NEW seq \in Seq(TickType), NEW x \in TickType
    PROVE  Grown(seq, Append(seq, x)) /\ Append(seq, x)[Len(seq) + 1] = x
  BY DEF Grown

\* The ticks, one by one.
LEMMA GrownFacts ==
    ASSUME NEW seq, NEW new, Grown(seq, new)
    PROVE  /\ Len(seq) \in Nat
           /\ \A i \in 1..Len(seq) : seq[i].minute \in Int /\ seq[i].price \in Int
           /\ new[Len(seq) + 1] \in TickType
           /\ 1..Len(new) = 1..Len(seq) \cup {Len(seq) + 1}
  <1>1. Len(seq) \in Nat /\ Len(seq) + 1 \in 1..Len(new)
    BY DEF Grown
  <1>2. \A i \in 1..Len(seq) : seq[i] \in TickType
    BY DEF Grown
  <1>3. new[Len(seq) + 1] \in TickType
    BY <1>1 DEF Grown
  <1>4. 1..Len(new) = 1..Len(seq) \cup {Len(seq) + 1}
    BY <1>1 DEF Grown
  <1> QED
    BY <1>1, <1>2, <1>3, <1>4, TickFields

\* It counts for its minute when none of a later one came before, and changes
\* what counts for no other.
LEMMA CountedGrows ==
    ASSUME NEW seq, NEW new, Grown(seq, new), NEW m
    PROVE  /\ CountedIn(seq, m) \in SUBSET (1..Len(seq))
           /\ CountedIn(new, m) =
                CountedIn(seq, m) \cup
                  (IF new[Len(seq) + 1].minute = m /\ \A j \in 1..Len(seq) : seq[j].minute <= m
                   THEN {Len(seq) + 1} ELSE {})
  <1> DEFINE N == Len(seq)
  <1>1. /\ N \in Nat /\ 1..Len(new) = 1..N \cup {N + 1}
        /\ \A i \in 1..N : new[i] = seq[i]
    BY GrownFacts DEF Grown
  <1> HIDE DEF N
  <1>2. CountedIn(seq, m) \in SUBSET (1..N)
    BY DEF CountedIn, N
  <1>3. ASSUME NEW i \in 1..N
        PROVE  i \in CountedIn(new, m) <=> i \in CountedIn(seq, m)
    <2>1. \A j \in 1..i - 1 : new[j] = seq[j]
      BY <1>1
    <2> QED
      BY <1>1, <2>1 DEF CountedIn, N
  <1>4. N + 1 \in CountedIn(new, m)
          <=> new[N + 1].minute = m /\ \A j \in 1..N : seq[j].minute <= m
    BY <1>1 DEF CountedIn
  <1>5. CountedIn(new, m) \in SUBSET (1..N \cup {N + 1})
    BY <1>1 DEF CountedIn
  <1> QED
    BY <1>2, <1>3, <1>4, <1>5 DEF N

\* A new tick of another minute changes nothing for this one.
LEMMA CountedElsewhere ==
    ASSUME NEW seq, NEW new, Grown(seq, new), NEW m, new[Len(seq) + 1].minute # m
    PROVE  CountedIn(new, m) = CountedIn(seq, m)
  <1>1. CountedIn(new, m) =
          CountedIn(seq, m) \cup
            (IF new[Len(seq) + 1].minute = m /\ \A j \in 1..Len(seq) : seq[j].minute <= m
             THEN {Len(seq) + 1} ELSE {})
    BY CountedGrows
  <1> QED
    BY ONLY <1>1, new[Len(seq) + 1].minute # m

\* A candle of ticks that were there already shows them as before.
LEMMA ShowsKept ==
    ASSUME NEW seq, NEW new, Grown(seq, new),
           NEW S \in SUBSET (1..Len(seq)), NEW c, Shows(seq, S, c)
    PROVE  Shows(new, S, c)
  <1> DEFINE N == Len(seq)
  <1>1. /\ N \in Nat /\ Len(new) = N + 1 /\ \A i \in S : new[i] = seq[i]
        /\ N + 1 \notin S
    BY GrownFacts DEF Grown
  <1>2. VolumeUpTo(new, S)[N + 1] = VolumeUpTo(seq, S)[N]
    <2>1. \A i \in 1..N : new[i] = seq[i] /\ (i \in S <=> i \in S)
      BY DEF Grown
    <2>2. /\ seq \in Seq(TickType) /\ new \in Seq(TickType)
          /\ Len(new) = Len(seq) + 1
      BY DEF Grown
    <2> QED
      BY ONLY <1>1, <2>1, <2>2, VolumeAppend
  <1> QED
    BY <1>1, <1>2 DEF Shows

\* A candle that takes the tick in.
LEMMA ShowsGrows ==
    ASSUME NEW seq, NEW new, Grown(seq, new), NEW x, x = new[Len(seq) + 1],
           NEW S \in SUBSET (1..Len(seq)), NEW c, Shows(seq, S, c)
    PROVE  Shows(new, S \cup {Len(seq) + 1}, Extended(c, x.price, x.volume))
  <1> DEFINE N == Len(seq)
             T == S \cup {N + 1}
             d == Extended(c, x.price, x.volume)
  <1>1. /\ N \in Nat /\ Len(new) = N + 1 /\ new[N + 1] = x
        /\ \A i \in S : new[i] = seq[i] /\ seq[i].price \in Int /\ i \in 1..N
        /\ N + 1 \in T /\ \A i \in T : i \in S \/ i = N + 1
        /\ \A i \in S : i \in T
    BY GrownFacts DEF Grown
  <1>2. /\ x.price \in Int /\ Clamp(x.volume) \in Nat
        /\ c.high \in Int /\ c.low \in Int /\ c.volume \in Nat /\ c \in CandleType /\ ~c.gap
    BY GrownFacts, TickFields, CandleFields DEF Shows
  <1>3. /\ d \in CandleType /\ ~d.gap /\ d.open = c.open /\ d.close = x.price
        /\ d.high = Higher(c.high, x.price) /\ d.low = Lower(c.low, x.price)
        /\ d.volume = c.volume + Clamp(x.volume)
    <2>1. Higher(c.high, x.price) \in Int /\ Lower(c.low, x.price) \in Int
      BY <1>2 DEF Higher, Lower
    <2>2. c.volume + Clamp(x.volume) \in Nat
      BY <1>2
    <2> QED
      BY <1>2, <2>1, <2>2 DEF Extended, CandleType
  <1>4. VolumeUpTo(new, T)[N + 1] = VolumeUpTo(seq, S)[N] + Clamp(x.volume)
    <2>1. \A i \in 1..N : new[i] = seq[i] /\ (i \in S <=> i \in T)
      BY <1>1 DEF Grown
    <2>2. /\ seq \in Seq(TickType) /\ new \in Seq(TickType)
          /\ Len(new) = Len(seq) + 1
      BY DEF Grown
    <2> HIDE DEF T
    <2>3. N + 1 \in T => VolumeUpTo(new, T)[N + 1]
                            = VolumeUpTo(seq, S)[N] + Clamp(new[N + 1].volume)
      BY ONLY <2>1, <2>2, VolumeAppend
    <2> QED
      BY <1>1, <2>3
  <1> HIDE DEF T, d, N
  <1>5. \E i \in T : d.open = new[i].price /\ \A j \in T : i <= j
    <2>1. PICK i \in S : c.open = seq[i].price /\ \A j \in S : i <= j
      BY DEF Shows
    <2>2. i \in T /\ new[i].price = d.open
      BY <1>1, <1>3, <2>1
    <2>3. \A j \in T : i <= j
      BY <1>1, <2>1
    <2> QED
      BY <2>2, <2>3
  <1>6. \E i \in T : d.close = new[i].price /\ \A j \in T : j <= i
    <2>1. N + 1 \in T /\ new[N + 1].price = d.close
      BY <1>1, <1>3
    <2>2. ASSUME NEW j \in T PROVE j <= N + 1
      <3>1. j = N + 1 \/ j \in 1..N
        BY <1>1
      <3> QED
        BY <1>1, <3>1
    <2> QED
      BY <2>1, <2>2
  <1>7. \E i \in T : d.high = new[i].price
    BY <1>1, <1>3 DEF Shows, Higher
  <1>8. \E i \in T : d.low = new[i].price
    BY <1>1, <1>3 DEF Shows, Lower
  <1>9. ASSUME NEW i \in T PROVE new[i].price <= d.high /\ d.low <= new[i].price
    <2>1. \A o \in S : seq[o].price <= c.high /\ c.low <= seq[o].price
      BY DEF Shows
    <2>2. /\ c.high <= d.high /\ d.low <= c.low /\ x.price <= d.high /\ d.low <= x.price
          /\ d.high \in Int /\ d.low \in Int
      BY <1>2, <1>3 DEF Higher, Lower
    <2>3. CASE i \in S
      <3>1. new[i].price = seq[i].price /\ seq[i].price \in Int
        BY <1>1, <2>3
      <3> QED
        BY <1>2, <2>1, <2>2, <2>3, <3>1
    <2>4. CASE i = N + 1
      BY <1>1, <2>2, <2>4
    <2> QED
      BY <1>1, <2>3, <2>4
  <1>10. d.volume = VolumeUpTo(new, T)[Len(new)]
    BY <1>1, <1>3, <1>4 DEF Shows, N
  <1> QED
    BY <1>3, <1>5, <1>6, <1>7, <1>8, <1>9, <1>10 DEF Shows, T, d, N

\* No ticks, no volume.
LEMMA NoVolume ==
    ASSUME NEW seq \in Seq(TickType), NEW m \in 0..Len(seq)
    PROVE  VolumeUpTo(seq, {})[m] = 0
  <1> DEFINE f == VolumeUpTo(seq, {})
             P == {n \in Nat : n <= Len(seq) => f[n] = 0}
  <1>1. f[0] = 0 /\ \A n \in 1..Len(seq) : f[n] = f[n - 1] + 0
    BY VolumeRuns
  <1> HIDE DEF f
  <1>2. 0 \in P
    BY <1>1
  <1>3. ASSUME NEW n \in Nat, n \in P PROVE n + 1 \in P
    <2>1. SUFFICES ASSUME n + 1 <= Len(seq) PROVE f[n + 1] = 0
      OBVIOUS
    <2>2. f[n] = 0 /\ n + 1 \in 1..Len(seq) /\ n + 1 - 1 = n
      BY <1>3, <2>1
    <2> QED
      BY <1>1, <2>2
  <1> HIDE DEF P
  <1>4. \A n \in Nat : n \in P
    BY <1>2, <1>3, FromZero
  <1> QED
    BY <1>4 DEF P, f

\* The candle the tick opens.
LEMMA ShowsStarts ==
    ASSUME NEW seq, NEW new, Grown(seq, new), NEW x, x = new[Len(seq) + 1]
    PROVE  Shows(new, {Len(seq) + 1}, Opened(x.minute, x.price, x.volume))
  <1> DEFINE N == Len(seq)
             d == Opened(x.minute, x.price, x.volume)
  <1>1. N \in Nat /\ Len(new) = N + 1 /\ new[N + 1] = x
    BY GrownFacts DEF Grown
  <1>2. x.minute \in Nat /\ x.price \in Int /\ Clamp(x.volume) \in Nat
    BY GrownFacts, TickFields, DayTyped
  <1>3. /\ d \in CandleType /\ ~d.gap /\ d.open = x.price /\ d.close = x.price
        /\ d.high = x.price /\ d.low = x.price /\ d.volume = Clamp(x.volume)
    BY <1>2 DEF Opened, CandleType
  <1>4. VolumeUpTo(new, {N + 1})[N + 1] = Clamp(x.volume)
    <2>1. \A i \in 1..N : new[i] = seq[i] /\ (i \in {} <=> i \in {N + 1})
      BY <1>1 DEF Grown
    <2>2. /\ seq \in Seq(TickType) /\ new \in Seq(TickType)
          /\ Len(new) = Len(seq) + 1
      BY DEF Grown
    <2>3. VolumeUpTo(seq, {})[N] = 0
      BY <1>1, NoVolume DEF Grown
    <2>4. N + 1 \in {N + 1} => VolumeUpTo(new, {N + 1})[N + 1]
                                  = VolumeUpTo(seq, {})[N] + Clamp(new[N + 1].volume)
      BY ONLY <2>1, <2>2, VolumeAppend
    <2> QED
      BY <1>1, <1>2, <2>3, <2>4
  <1> HIDE DEF d
  <1> QED
    BY <1>1, <1>2, <1>3, <1>4 DEF Shows, d

\* The candle of a minute that is over stays right.
LEMMA RightKept ==
    ASSUME NEW seq, NEW new, Grown(seq, new), NEW m \in Nat, NEW c, Right(seq, m, c),
           \A l \in 0..m : CountedIn(new, l) = CountedIn(seq, l)
    PROVE  Right(new, m, c)
  <1>1. CountedIn(new, m) = CountedIn(seq, m) /\ CountedIn(seq, m) \in SUBSET (1..Len(seq))
    BY CountedGrows
  <1>2. CASE CountedIn(seq, m) # {}
    BY <1>1, <1>2, ShowsKept DEF Right
  <1>3. CASE CountedIn(seq, m) = {}
    <2>1. PICK l \in 0..m - 1 : \E k \in CountedIn(seq, l) :
            /\ \A o \in l + 1..m - 1 : CountedIn(seq, o) = {}
            /\ \A j \in CountedIn(seq, l) : j <= k
            /\ c = GapCandle(m, seq[k].price)
      BY <1>3 DEF Right, Skipped
    <2>2. PICK k \in CountedIn(seq, l) :
            /\ \A o \in l + 1..m - 1 : CountedIn(seq, o) = {}
            /\ \A j \in CountedIn(seq, l) : j <= k
            /\ c = GapCandle(m, seq[k].price)
      BY <2>1
    <2>3. new[k] = seq[k]
      BY <2>2, CountedGrows DEF Grown
    <2>4. CountedIn(new, l) = CountedIn(seq, l)
      OBVIOUS
    <2>5. \A o \in l + 1..m - 1 : CountedIn(new, o) = CountedIn(seq, o)
      OBVIOUS
    <2>6. Skipped(new, m, c)
      BY <2>2, <2>3, <2>4, <2>5 DEF Skipped
    <2> QED
      BY <1>1, <1>3, <2>6 DEF Right
  <1> QED
    BY <1>2, <1>3


-----------------------------------------------------------------------------
(* The builder after the ticks seq: it forms the candle of the last minute *)
(* there was, and has closed the minutes from the first one up to it.      *)

Built(seq, forming, closed) ==
    /\ seq \in Seq(TickType)
    /\ seq = <<>> => forming = <<>> /\ closed = <<>>
    /\ seq # <<>> =>
         \E f : /\ forming = <<f>>
                /\ f.minute \in seq[1].minute..Minute(Horizon)
                /\ \A i \in 1..Len(seq) : seq[i].minute <= f.minute
                /\ Shows(seq, CountedIn(seq, f.minute), f)
                /\ closed \in Seq(CandleType)
                /\ Len(closed) = f.minute - seq[1].minute
                /\ \A i \in 1..Len(closed) : Right(seq, seq[1].minute + i - 1, closed[i])

\* The first tick of seq is the first of new.
LEMMA SameFirst ==
    ASSUME NEW seq, NEW new, Grown(seq, new), seq # <<>>
    PROVE  /\ new # <<>> /\ new[1] = seq[1] /\ Len(seq) >= 1
           /\ seq[1].minute \in 0..Minute(Horizon)
  <1>1. seq \in Seq(TickType) /\ new \in Seq(TickType) /\ Len(new) = Len(seq) + 1
    BY DEF Grown
  <1>2. Len(seq) \in Nat /\ Len(seq) # 0
    BY <1>1
  <1>3. 1 \in 1..Len(seq) /\ seq[1] \in TickType
    BY <1>1, <1>2
  <1>4. new # <<>>
    BY <1>1, <1>2
  <1> QED
    BY <1>2, <1>3, <1>4, TickFields DEF Grown

\* The first tick starts the first candle.
LEMMA BuiltStart ==
    ASSUME NEW seq, NEW new, Grown(seq, new), NEW x, x = new[Len(seq) + 1],
           NEW forming, NEW closed, Built(seq, forming, closed), seq = <<>>
    PROVE  Built(new, <<Opened(x.minute, x.price, x.volume)>>, closed)
  <1> DEFINE d == Opened(x.minute, x.price, x.volume)
  <1>1. /\ Len(seq) = 0 /\ Len(seq) + 1 = 1 /\ Len(new) = 1 /\ new[1] = x
        /\ new \in Seq(TickType) /\ new # <<>>
    <2>1. Len(seq) = 0
      OBVIOUS
    <2>2. Len(new) = 1 /\ new \in Seq(TickType) /\ Len(seq) + 1 = 1
      BY <2>1 DEF Grown
    <2>3. new # <<>>
      BY <2>2
    <2> QED
      BY <2>1, <2>2, <2>3
  <1>2. x.minute \in 0..Minute(Horizon) /\ d.minute = x.minute
    BY <1>1, GrownFacts, TickFields DEF Opened
  <1>3. CountedIn(new, x.minute) = {1}
    <2>1. \A j \in 1..0 : new[j].minute <= x.minute
      OBVIOUS
    <2>2. 1..1 = {1} /\ 1 - 1 = 0
      OBVIOUS
    <2> QED
      BY <1>1, <2>1, <2>2 DEF CountedIn
  <1>4. Shows(new, {1}, d)
    <2>1. Shows(new, {Len(seq) + 1}, d)
      BY ShowsStarts
    <2> HIDE DEF d
    <2> QED
      BY <1>1, <2>1
  <1>5. closed = <<>> /\ closed \in Seq(CandleType) /\ Len(closed) = 0
    BY DEF Built
  <1>6. x.minute \in x.minute..Minute(Horizon) /\ x.minute - x.minute = 0 /\ x.minute <= x.minute
    BY <1>2, DayTyped
  <1> HIDE DEF d
  <1>7. \A i \in 1..Len(new) : new[i].minute <= d.minute
    BY <1>1, <1>2, <1>6
  <1>8. \A i \in 1..Len(closed) : Right(new, new[1].minute + i - 1, closed[i])
    BY <1>5
  <1>9. \E f : /\ <<d>> = <<f>>
               /\ f.minute \in new[1].minute..Minute(Horizon)
               /\ \A i \in 1..Len(new) : new[i].minute <= f.minute
               /\ Shows(new, CountedIn(new, f.minute), f)
               /\ closed \in Seq(CandleType)
               /\ Len(closed) = f.minute - new[1].minute
               /\ \A i \in 1..Len(closed) : Right(new, new[1].minute + i - 1, closed[i])
    <2> WITNESS d
    <2> QED
      BY <1>1, <1>2, <1>3, <1>4, <1>5, <1>6, <1>7, <1>8
  <1> QED
    BY <1>1, <1>9 DEF Built, d

\* The candles that are closed stay right when the tick counts for no minute
\* before the one that forms.
LEMMA ClosedKept ==
    ASSUME NEW seq, NEW new, Grown(seq, new), seq # <<>>, NEW minute \in Nat,
           NEW closed \in Seq(CandleType), Len(closed) = minute - seq[1].minute,
           \A i \in 1..Len(closed) : Right(seq, seq[1].minute + i - 1, closed[i]),
           \A l \in 0..minute - 1 : CountedIn(new, l) = CountedIn(seq, l)
    PROVE  \A i \in 1..Len(closed) : Right(new, new[1].minute + i - 1, closed[i])
  <1> SUFFICES ASSUME NEW i \in 1..Len(closed)
               PROVE  Right(new, new[1].minute + i - 1, closed[i])
    OBVIOUS
  <1> DEFINE m == seq[1].minute + i - 1
  <1>1. seq[1].minute \in Nat /\ new[1] = seq[1]
    BY SameFirst, DayTyped
  <1>2. m \in Nat /\ m <= minute - 1 /\ Len(closed) \in Nat
    BY <1>1
  <1>3. \A l \in 0..m : CountedIn(new, l) = CountedIn(seq, l)
    BY <1>2
  <1>4. Right(seq, m, closed[i])
    OBVIOUS
  <1> HIDE DEF m
  <1>5. Right(new, m, closed[i])
    BY <1>2, <1>3, <1>4, RightKept
  <1> QED
    BY <1>1, <1>5 DEF m

\* No tick of new is later when none of seq is and the new one is not.
LEMMA NoLater ==
    ASSUME NEW seq, NEW new, Grown(seq, new), NEW minute \in Int,
           \A i \in 1..Len(seq) : seq[i].minute <= minute, new[Len(seq) + 1].minute <= minute
    PROVE  \A i \in 1..Len(new) : new[i].minute <= minute
  <1> SUFFICES ASSUME NEW i \in 1..Len(new) PROVE new[i].minute <= minute
    OBVIOUS
  <1>1. i \in 1..Len(seq) \/ i = Len(seq) + 1
    BY GrownFacts
  <1>2. CASE i \in 1..Len(seq)
    <2>1. new[i] = seq[i]
      BY <1>2 DEF Grown
    <2> QED
      BY <1>2, <2>1
  <1>3. CASE i = Len(seq) + 1
    BY <1>3
  <1> QED
    BY <1>1, <1>2, <1>3

\* A tick of a minute that is over changes nothing.
LEMMA BuiltDiscard ==
    ASSUME NEW seq, NEW new, Grown(seq, new), NEW x, x = new[Len(seq) + 1],
           NEW forming, NEW closed, Built(seq, forming, closed),
           forming # <<>>, x.minute < forming[1].minute
    PROVE  Built(new, forming, closed)
  <1>1. seq # <<>>
    BY DEF Built
  <1>2. PICK f : /\ forming = <<f>>
                 /\ f.minute \in seq[1].minute..Minute(Horizon)
                 /\ \A i \in 1..Len(seq) : seq[i].minute <= f.minute
                 /\ Shows(seq, CountedIn(seq, f.minute), f)
                 /\ closed \in Seq(CandleType)
                 /\ Len(closed) = f.minute - seq[1].minute
                 /\ \A i \in 1..Len(closed) : Right(seq, seq[1].minute + i - 1, closed[i])
    BY <1>1 DEF Built
  <1>3. /\ new # <<>> /\ new[1] = seq[1] /\ seq[1].minute \in Nat /\ f.minute \in Nat
        /\ x.minute \in Nat /\ x.minute < f.minute /\ Len(seq) \in Nat
        /\ 1..Len(new) = 1..Len(seq) \cup {Len(seq) + 1}
    BY <1>1, <1>2, SameFirst, GrownFacts, TickFields, DayTyped, SMTT(30)
  <1>4. \A m : CountedIn(new, m) = CountedIn(seq, m)
    <2> TAKE m
    <2>1. PICK i \in CountedIn(seq, f.minute) : TRUE
      BY <1>2 DEF Shows
    <2>2. i \in 1..Len(seq) /\ seq[i].minute = f.minute
      BY <2>1 DEF CountedIn
    <2>3. f.minute \in Nat /\ x.minute \in Nat /\ x.minute < f.minute
      BY <1>3
    <2>4. ~(x.minute = m /\ \A j \in 1..Len(seq) : seq[j].minute <= m)
      BY ONLY <2>2, <2>3, SMTT(30)
    <2> QED
      BY <2>4, CountedGrows, ZenonT(30)
  <1>5. Shows(new, CountedIn(new, f.minute), f)
    <2>1. CountedIn(seq, f.minute) \in SUBSET (1..Len(seq))
      BY CountedGrows
    <2> QED
      BY <1>2, <1>4, <2>1, ShowsKept
  <1>6. \A i \in 1..Len(closed) : Right(new, new[1].minute + i - 1, closed[i])
    <2>1. \A l \in 0..f.minute - 1 : CountedIn(new, l) = CountedIn(seq, l)
      BY <1>4
    <2> QED
      BY <1>1, <1>2, <1>3, <2>1, ClosedKept
  <1>7. \A i \in 1..Len(new) : new[i].minute <= f.minute
    <2>1. new[Len(seq) + 1].minute <= f.minute /\ f.minute \in Int
      BY <1>3
    <2>2. \A i \in 1..Len(seq) : seq[i].minute <= f.minute
      BY <1>2
    <2> QED
      BY <2>1, <2>2, NoLater
  <1> QED
    BY <1>2, <1>3, <1>5, <1>6, <1>7 DEF Built, Grown

\* A tick of the minute that forms goes into its candle.
LEMMA BuiltExtend ==
    ASSUME NEW seq, NEW new, Grown(seq, new), NEW x, x = new[Len(seq) + 1],
           NEW forming, NEW closed, Built(seq, forming, closed),
           forming # <<>>, x.minute = forming[1].minute
    PROVE  Built(new, <<Extended(forming[1], x.price, x.volume)>>, closed)
  <1>1. seq # <<>>
    BY DEF Built
  <1>2. PICK f : /\ forming = <<f>>
                 /\ f.minute \in seq[1].minute..Minute(Horizon)
                 /\ \A i \in 1..Len(seq) : seq[i].minute <= f.minute
                 /\ Shows(seq, CountedIn(seq, f.minute), f)
                 /\ closed \in Seq(CandleType)
                 /\ Len(closed) = f.minute - seq[1].minute
                 /\ \A i \in 1..Len(closed) : Right(seq, seq[1].minute + i - 1, closed[i])
    BY <1>1 DEF Built
  <1> DEFINE d == Extended(f, x.price, x.volume)
  <1>3. /\ new # <<>> /\ new[1] = seq[1] /\ seq[1].minute \in Nat /\ f.minute \in Nat
        /\ x.minute = f.minute /\ Len(seq) \in Nat
        /\ 1..Len(new) = 1..Len(seq) \cup {Len(seq) + 1}
    BY <1>1, <1>2, SameFirst, GrownFacts, DayTyped
  <1>4. d.minute = f.minute
    <2>1. f \in CandleType
      BY <1>2 DEF Shows
    <2> QED
      BY <2>1 DEF Extended, CandleType
  <1>5. /\ CountedIn(new, f.minute) = CountedIn(seq, f.minute) \cup {Len(seq) + 1}
        /\ CountedIn(seq, f.minute) \in SUBSET (1..Len(seq))
        /\ \A m \in 0..f.minute - 1 : CountedIn(new, m) = CountedIn(seq, m)
    <2>1. CountedIn(new, f.minute) = CountedIn(seq, f.minute) \cup {Len(seq) + 1}
      BY <1>2, <1>3, CountedGrows
    <2>2. ASSUME NEW m \in 0..f.minute - 1
          PROVE  CountedIn(new, m) = CountedIn(seq, m)
      <3>1. new[Len(seq) + 1].minute # m
        BY <1>3
      <3> QED
        BY ONLY Grown(seq, new), <3>1, CountedElsewhere
    <2>3. CountedIn(seq, f.minute) \in SUBSET (1..Len(seq))
      BY CountedGrows
    <2> QED
      BY ONLY <2>1, <2>2, <2>3
  <1>6. Shows(new, CountedIn(new, f.minute), d)
    <2>1. Shows(new, CountedIn(seq, f.minute) \cup {Len(seq) + 1}, d)
      BY <1>2, <1>5, ShowsGrows
    <2> HIDE DEF d
    <2> QED
      BY <1>5, <2>1
  <1>7. \A i \in 1..Len(closed) : Right(new, new[1].minute + i - 1, closed[i])
    BY <1>1, <1>2, <1>3, <1>5, ClosedKept
  <1>8. \A i \in 1..Len(new) : new[i].minute <= f.minute
    <2>1. new[Len(seq) + 1].minute <= f.minute /\ f.minute \in Int
      BY <1>3
    <2>2. \A i \in 1..Len(seq) : seq[i].minute <= f.minute
      BY <1>2
    <2> QED
      BY <2>1, <2>2, NoLater
  <1> HIDE DEF d
  <1>9. \E g : /\ <<d>> = <<g>>
               /\ g.minute \in new[1].minute..Minute(Horizon)
               /\ \A i \in 1..Len(new) : new[i].minute <= g.minute
               /\ Shows(new, CountedIn(new, g.minute), g)
               /\ closed \in Seq(CandleType)
               /\ Len(closed) = g.minute - new[1].minute
               /\ \A i \in 1..Len(closed) : Right(new, new[1].minute + i - 1, closed[i])
    <2> WITNESS d
    <2> QED
      BY <1>2, <1>3, <1>4, <1>6, <1>7, <1>8
  <1>10. <<Extended(forming[1], x.price, x.volume)>> = <<d>>
    BY <1>2 DEF d
  <1> QED
    BY <1>3, <1>9, <1>10 DEF Built, Grown

\* A tick of a later minute closes the candle that forms, with a gap for
\* each minute between, and starts one of its own.
LEMMA BuiltRoll ==
    ASSUME NEW seq, NEW new, Grown(seq, new), NEW x, x = new[Len(seq) + 1],
           NEW forming, NEW closed, Built(seq, forming, closed),
           forming # <<>>, x.minute > forming[1].minute
    PROVE  Built(new, <<Opened(x.minute, x.price, x.volume)>>,
                 Newest(Append(closed, forming[1]) \o GapCandles(forming[1], x.minute),
                        MaxMinutes))
  <1>1. seq # <<>>
    BY DEF Built
  <1>2. PICK f : /\ forming = <<f>>
                 /\ f.minute \in seq[1].minute..Minute(Horizon)
                 /\ \A i \in 1..Len(seq) : seq[i].minute <= f.minute
                 /\ Shows(seq, CountedIn(seq, f.minute), f)
                 /\ closed \in Seq(CandleType)
                 /\ Len(closed) = f.minute - seq[1].minute
                 /\ \A i \in 1..Len(closed) : Right(seq, seq[1].minute + i - 1, closed[i])
    BY <1>1 DEF Built
  <1> DEFINE xm == x.minute
             fm == f.minute
             d == Opened(x.minute, x.price, x.volume)
             first == seq[1].minute
             gaps == GapCandles(f, x.minute)
             N == Len(closed)
             G == xm - fm - 1
             cs == Append(closed, f) \o gaps
  <1>3. /\ new # <<>> /\ new[1] = seq[1] /\ first \in Nat /\ fm \in Nat
        /\ xm \in 0..Minute(Horizon) /\ xm \in Nat /\ xm > fm
        /\ Len(seq) \in Nat /\ Minute(Horizon) \in Nat /\ first <= fm
        /\ G \in Nat /\ N \in Nat /\ N = fm - first /\ G = xm - fm - 1
    <2>1. /\ new # <<>> /\ new[1] = seq[1] /\ first \in Nat
      BY <1>1, SameFirst, DayTyped
    <2>2. /\ fm \in Nat /\ first <= fm /\ xm > fm
      BY <1>2, <2>1, DayTyped
    <2>3. xm \in 0..Minute(Horizon) /\ xm \in Nat
      BY GrownFacts, TickFields, DayTyped
    <2> QED
      BY <1>2, <2>1, <2>2, <2>3, GrownFacts, DayTyped
  <1>4. d.minute = xm
    BY DEF Opened
  <1>5. f \in CandleType /\ f.close \in Int
    BY <1>2, CandleFields DEF Shows
  <1> HIDE DEF first, xm, fm, N, G
  \* What counts for the minutes.
  <1>6. /\ CountedIn(new, xm) = {Len(seq) + 1}
        /\ \A m \in 0..xm - 1 : CountedIn(new, m) = CountedIn(seq, m)
        /\ \A m \in fm + 1..xm : CountedIn(seq, m) = {}
        /\ CountedIn(seq, fm) \in SUBSET (1..Len(seq))
    <2>1. ASSUME NEW m \in fm + 1..xm
          PROVE  CountedIn(seq, m) = {}
      <3>1. \A i \in 1..Len(seq) : seq[i].minute # m
        <4> SUFFICES ASSUME NEW i \in 1..Len(seq), seq[i].minute = m PROVE FALSE
          OBVIOUS
        <4>1. seq[i].minute <= fm
          BY <1>2 DEF fm
        <4> QED
          BY <1>3, <4>1
      <3> QED
        BY <3>1 DEF CountedIn
    <2>2. \A j \in 1..Len(seq) : seq[j].minute <= xm
      <3> SUFFICES ASSUME NEW j \in 1..Len(seq) PROVE seq[j].minute <= xm
        OBVIOUS
      <3>1. seq[j].minute <= fm /\ seq[j].minute \in Int
        BY <1>2, GrownFacts DEF fm
      <3> QED
        BY <1>3, <3>1
    <2>3. CountedIn(seq, xm) = {}
      <3>1. xm \in fm + 1..xm
        BY <1>3
      <3> QED
        BY <2>1, <3>1
    <2>4. CountedIn(new, xm) = {Len(seq) + 1}
      BY <2>2, <2>3, CountedGrows DEF xm
    <2>5. ASSUME NEW m \in 0..xm - 1
          PROVE  CountedIn(new, m) = CountedIn(seq, m)
      <3>1. new[Len(seq) + 1].minute # m
        BY <1>3 DEF xm
      <3> QED
        BY ONLY Grown(seq, new), <3>1, CountedElsewhere
    <2>6. CountedIn(seq, fm) \in SUBSET (1..Len(seq))
      BY CountedGrows
    <2> QED
      BY ONLY <2>1, <2>4, <2>5, <2>6
  \* The closed candles and their number.
  <1>7. /\ gaps \in Seq(CandleType) /\ Len(gaps) = G
        /\ \A k \in 1..G : gaps[k] = GapCandle(fm + k, f.close)
    <2>1. gaps = [k \in 1..G |-> GapCandle(fm + k, f.close)]
      BY DEF GapCandles, fm, xm, G
    <2>2. \A k \in 1..G : GapCandle(fm + k, f.close) \in CandleType
      BY <1>3, <1>5 DEF GapCandle, CandleType
    <2> HIDE DEF gaps
    <2>3. gaps \in [1..G -> CandleType]
      BY <2>1, <2>2
    <2> QED
      <3>1. G \in Nat
        BY <1>3
      <3> QED
        BY <2>1, <2>3, <3>1
  <1> HIDE DEF gaps
  <1>8. /\ cs \in Seq(CandleType) /\ Len(cs) = N + 1 + G
        /\ \A i \in 1..N : cs[i] = closed[i]
        /\ cs[N + 1] = f
        /\ \A k \in 1..G : cs[N + 1 + k] = gaps[k]
    <2>1. /\ Append(closed, f) \in Seq(CandleType) /\ Len(Append(closed, f)) = N + 1
          /\ \A i \in 1..N : Append(closed, f)[i] = closed[i]
          /\ Append(closed, f)[N + 1] = f
      BY <1>2, <1>5 DEF N
    <2> QED
      <3> DEFINE front == Append(closed, f)
      <3>1. cs = front \o gaps
        OBVIOUS
      <3> HIDE DEF front, cs
      <3>2. cs \in Seq(CandleType) /\ Len(cs) = Len(front) + Len(gaps)
        <4>1. front \in Seq(CandleType) /\ gaps \in Seq(CandleType)
          BY <1>7, <2>1 DEF front
        <4> QED
          BY <3>1, <4>1
      <3>3. /\ \A i \in 1..Len(front) : cs[i] = front[i]
            /\ \A k \in 1..Len(gaps) : cs[Len(front) + k] = gaps[k]
        <4>1. front \in Seq(CandleType) /\ gaps \in Seq(CandleType)
          BY <1>7, <2>1 DEF front
        <4> QED
          BY <3>1, <4>1
      <3>4. Len(front) = N + 1 /\ Len(gaps) = G
        BY <1>7, <2>1 DEF front
      <3>5. N + 1 \in 1..N + 1 /\ \A i \in 1..N : i \in 1..N + 1
        BY <1>3
      <3> QED
        BY <2>1, <3>2, <3>3, <3>4, <3>5 DEF front
  <1> HIDE DEF cs
  <1>9. Newest(cs, MaxMinutes) = cs
    <2>1. Len(cs) <= MaxMinutes
      BY <1>3, <1>8, DayAssumption, FramesAssumption
    <2> QED
      BY <2>1 DEF Newest
  <1>10. ASSUME NEW i \in 1..Len(cs)
         PROVE  Right(new, first + i - 1, cs[i])
    <2>1. CASE i \in 1..N
      <3>1. \A l \in 0..fm - 1 : CountedIn(new, l) = CountedIn(seq, l)
        BY <1>3, <1>6
      <3>2. Right(new, new[1].minute + i - 1, closed[i])
        BY <1>1, <1>2, <1>3, <2>1, <3>1, ClosedKept DEF N, fm
      <3> QED
        BY <1>3, <1>8, <2>1, <3>2 DEF first
    <2>2. CASE i = N + 1
      <3>1. first + i - 1 = fm /\ cs[i] = f
        BY <1>3, <1>8, <2>2
      <3>2. CountedIn(new, fm) = CountedIn(seq, fm)
        BY <1>3, <1>6
      <3>3. Shows(new, CountedIn(new, fm), f)
        BY <1>2, <1>6, <3>2, ShowsKept DEF fm
      <3>4. CountedIn(new, fm) # {}
        BY <3>3 DEF Shows
      <3>5. Right(new, fm, f)
        BY <1>5, <3>3, <3>4 DEF Right, fm
      <3> QED
        BY <3>1, <3>5
    <2>3. CASE i \in N + 2..N + 1 + G
      <3> DEFINE k == i - N - 1
                 m == fm + k
      <3>1. /\ k \in 1..G /\ first + i - 1 = m /\ N + 1 + k = i
            /\ m \in fm + 1..xm - 1 /\ m \in Nat
        BY <1>3, <2>3
      <3>2. cs[i] = GapCandle(m, f.close)
        BY <1>7, <1>8, <3>1
      <3> HIDE DEF k, m
      <3>3. CountedIn(new, m) = {}
        BY <1>3, <1>6, <3>1
      <3>4. PICK last \in CountedIn(seq, fm) :
               f.close = seq[last].price /\ \A j \in CountedIn(seq, fm) : j <= last
        BY <1>2 DEF Shows, fm
      <3>5. CountedIn(new, fm) = CountedIn(seq, fm) /\ new[last] = seq[last]
        BY <1>3, <1>6, <3>4, SMTT(30) DEF Grown
      <3>6. \A o \in fm + 1..m - 1 : CountedIn(new, o) = {}
        BY <1>3, <1>6, <3>1
      <3>7. Skipped(new, m, cs[i])
        <4>1. fm \in 0..m - 1
          <5>1. 0 <= fm /\ fm + 1 <= m /\ fm \in Int /\ m \in Int
            BY <1>3, <3>1
          <5> QED
            BY <5>1
        <4>2. /\ last \in CountedIn(new, fm)
              /\ \A j \in CountedIn(new, fm) : j <= last
              /\ cs[i] = GapCandle(m, new[last].price)
          BY <3>2, <3>4, <3>5
        <4> QED
          BY <3>6, <4>1, <4>2 DEF Skipped
      <3>8. cs[i] \in CandleType /\ cs[i].minute = m
        <4>1. cs[i] \in CandleType
          BY <1>8
        <4> QED
          BY <3>2, <4>1 DEF GapCandle
      <3>9. Right(new, m, cs[i])
        BY <3>3, <3>7, <3>8 DEF Right
      <3> QED
        BY <3>1, <3>9
    <2> QED
      BY <1>3, <1>8, <2>1, <2>2, <2>3
  <1>11. Shows(new, CountedIn(new, xm), d)
    <2>1. Shows(new, {Len(seq) + 1}, d)
      BY ShowsStarts
    <2> HIDE DEF d
    <2> QED
      BY <1>6, <2>1
  <1>12. \A i \in 1..Len(new) : new[i].minute <= xm
    <2>1. new[Len(seq) + 1].minute <= xm /\ xm \in Int
      BY <1>3 DEF xm
    <2>2. \A i \in 1..Len(seq) : seq[i].minute <= xm
      <3> SUFFICES ASSUME NEW j \in 1..Len(seq) PROVE seq[j].minute <= xm
        OBVIOUS
      <3>1. seq[j].minute <= fm /\ seq[j].minute \in Int
        BY <1>2, GrownFacts DEF fm
      <3> QED
        BY <1>3, <3>1
    <2> QED
      BY <2>1, <2>2, NoLater
  <1>13. xm \in new[1].minute..Minute(Horizon) /\ Len(cs) = xm - new[1].minute
    <2>1. xm \in first..Minute(Horizon) /\ Len(cs) = xm - first
      BY <1>3, <1>8
    <2> QED
      BY <1>3, <2>1 DEF first
  <1> HIDE DEF d
  <1>14. \E g : /\ <<d>> = <<g>>
                /\ g.minute \in new[1].minute..Minute(Horizon)
                /\ \A i \in 1..Len(new) : new[i].minute <= g.minute
                /\ Shows(new, CountedIn(new, g.minute), g)
                /\ cs \in Seq(CandleType)
                /\ Len(cs) = g.minute - new[1].minute
                /\ \A i \in 1..Len(cs) : Right(new, new[1].minute + i - 1, cs[i])
    <2> WITNESS d
    <2> QED
      BY <1>3, <1>4, <1>8, <1>10, <1>11, <1>12, <1>13 DEF first
  <1>15. Built(new, <<d>>, cs)
    BY <1>3, <1>14 DEF Built, Grown
  <1>16. forming[1] = f
    BY <1>2
  <1> QED
    BY <1>9, <1>15, <1>16 DEF d, cs, gaps

-----------------------------------------------------------------------------
(* The invariant of the path.                                              *)

BuilderFields == {"forming", "closed", "late", "buffer", "higher"}

PathTypes ==
    /\ clock \in 0..Horizon /\ ticks \in 0..MaxTicks
    /\ feed \in {"on", "lingers", "off"} /\ running \in BOOLEAN
    /\ queue \in Seq(SentType) /\ Len(queue) <= MaxQueue
    /\ bridge \in Seq(SentType) /\ Len(bridge) <= 1
    /\ done \in {None} \cup 0..Minute(Horizon)
    /\ phase \in {"loop", "feed", "pipelines", "archive", "stopped"}
    /\ inTime \in BOOLEAN /\ runs \in 1..MaxRuns
    /\ DOMAIN builder = BuilderFields

\* What the builder holds are the candles of the ticks it was given.
BuilderRight == Built(taken, builder.forming, builder.closed)

\* A stop that no timeout cut short leaves no thread that gives it more.
NoThreadLeft ==
    inTime =>
      /\ phase \in {"pipelines", "archive", "stopped"} => feed = "off"
      /\ phase \in {"archive", "stopped"} => bridge = <<>>

\* Main is not ahead of the builder.
DoneIsClosed ==
    done # None =>
      /\ builder.closed # <<>>
      /\ done <= builder.closed[Len(builder.closed)].minute

PathInv == PathTypes /\ BuilderRight /\ NoThreadLeft /\ DoneIsClosed /\ ArchiveIsWhole

\* The builder's own step is the step of the candles of its ticks.
LEMMA TakeBuilds ==
    ASSUME DOMAIN builder = BuilderFields, BuilderRight,
           NEW minute \in 0..Minute(Horizon), NEW t \in SentType, Take(minute, t)
    PROVE  /\ BuilderRight' /\ (DOMAIN builder = BuilderFields)'
           /\ Grown(taken, taken')
           /\ builder.forming # <<>> =>
                builder'.forming # <<>> /\ builder.forming[1].minute <= builder'.forming[1].minute
  <1> DEFINE x == [minute |-> minute, price |-> t.price, volume |-> t.volume,
                   passed |-> t.passed]
             seq == taken
             new == Append(taken, x)
             forming == builder.forming
             closed == builder.closed
  <1>1. x \in TickType /\ x.minute = minute /\ x.price = t.price /\ x.volume = t.volume
    BY DEF SentType, TickType
  <1>2. OnTick(minute, t.price, t.volume) /\ taken' = new
    BY DEF Take
  <1> HIDE DEF x
  <1>3. seq \in Seq(TickType) /\ Built(seq, forming, closed)
    BY DEF BuilderRight, Built
  <1>4. Grown(seq, new) /\ x = new[Len(seq) + 1]
    BY <1>1, <1>3, AppendGrows
  <1>5. seq = <<>> <=> forming = <<>>
    <2>1. seq # <<>> => \E f : forming = <<f>>
      BY <1>3 DEF Built
    <2>2. seq = <<>> => forming = <<>>
      BY <1>3 DEF Built
    <2> HIDE DEF forming
    <2> QED
      BY <2>1, <2>2
  <1>6. forming # <<>> => forming[1].minute \in Int
    <2>1. seq # <<>> => seq[1].minute \in Int
      BY <1>4, SameFirst, DayTyped
    <2>2. SUFFICES ASSUME forming # <<>> PROVE forming[1].minute \in Int
      OBVIOUS
    <2>3. PICK f : forming = <<f>> /\ f.minute \in seq[1].minute..Minute(Horizon)
      BY <1>3, <1>5, <2>2 DEF Built
    <2> QED
      BY <1>5, <2>1, <2>2, <2>3, DayTyped
  <1>7. CASE Discard(minute)
    <2>1. /\ forming # <<>> /\ x.minute < forming[1].minute
          /\ builder' = [builder EXCEPT !.late = @ + 1]
      BY <1>1, <1>7 DEF Discard, HasForming, Forming
    <2>2. Built(new, forming, closed)
      <3> HIDE DEF new, forming, closed
      <3> QED
        BY <1>3, <1>4, <2>1, BuiltDiscard
    <2>3. builder'.forming = forming /\ builder'.closed = closed /\ DOMAIN builder' = DOMAIN builder
      BY <2>1 DEF BuilderFields
    <2> QED
      BY <1>2, <1>4, <1>6, <2>2, <2>3 DEF BuilderRight
  <1>8. CASE Start(minute, t.price, t.volume)
    <2> DEFINE d == Opened(x.minute, x.price, x.volume)
    <2>1. forming = <<>> /\ builder' = [builder EXCEPT !.forming = <<d>>]
      BY <1>1, <1>8 DEF Start, HasForming
    <2>2. Built(new, <<d>>, closed)
      <3> HIDE DEF new, forming, closed
      <3> QED
        BY <1>3, <1>4, <1>5, <2>1, BuiltStart
    <2> HIDE DEF d
    <2>3. builder'.forming = <<d>> /\ builder'.closed = closed /\ DOMAIN builder' = DOMAIN builder
      BY <2>1 DEF BuilderFields
    <2> QED
      BY <1>2, <1>4, <2>1, <2>2, <2>3 DEF BuilderRight
  <1>9. CASE Extend(minute, t.price, t.volume)
    <2> DEFINE d == Extended(forming[1], x.price, x.volume)
    <2>1. /\ forming # <<>> /\ x.minute = forming[1].minute
          /\ builder' = [builder EXCEPT !.forming = <<d>>]
      BY <1>1, <1>9 DEF Extend, HasForming, Forming
    <2>2. Built(new, <<d>>, closed)
      <3> HIDE DEF new, forming, closed
      <3> QED
        BY <1>3, <1>4, <2>1, BuiltExtend
    <2>3. d.minute = forming[1].minute
      <3>1. PICK f : forming = <<f>> /\ f \in CandleType
        BY <1>3, <1>5, <2>1 DEF Built, Shows
      <3>2. forming[1] \in CandleType
        BY <3>1
      <3> QED
        BY <3>2 DEF Extended, CandleType
    <2> HIDE DEF d
    <2>4. builder'.forming = <<d>> /\ builder'.closed = closed /\ DOMAIN builder' = DOMAIN builder
      BY <2>1 DEF BuilderFields
    <2> QED
      BY <1>2, <1>4, <1>6, <2>1, <2>2, <2>3, <2>4 DEF BuilderRight
  <1>10. CASE Roll(minute, t.price, t.volume)
    <2> DEFINE d == Opened(x.minute, x.price, x.volume)
               cs == Newest(Append(closed, forming[1]) \o GapCandles(forming[1], x.minute),
                            MaxMinutes)
               bs == [n \in Frames |-> IF GapCandles(Forming, minute) = <<>>
                                        THEN BufferAfter(n, Forming) ELSE <<>>]
               hs == [n \in Frames |-> HigherAfter(n, Forming)]
    <2>1. /\ forming # <<>> /\ x.minute > forming[1].minute
          /\ builder' = [builder EXCEPT !.forming = <<d>>, !.closed = cs,
                                        !.buffer = bs, !.higher = hs]
      BY <1>1, <1>10 DEF Roll, HasForming, Forming, OfLater
    <2>2. Built(new, <<d>>, cs)
      <3> HIDE DEF new, forming, closed
      <3> QED
        BY <1>3, <1>4, <2>1, BuiltRoll
    <2>3. d.minute = x.minute
      BY DEF Opened
    <2> HIDE DEF d, cs, bs, hs
    <2>4. builder'.forming = <<d>> /\ builder'.closed = cs /\ DOMAIN builder' = DOMAIN builder
      BY <2>1 DEF BuilderFields
    <2>5. forming[1].minute <= d.minute
      BY <1>1, <1>6, <2>1, <2>3
    <2> QED
      BY <1>2, <1>4, <2>2, <2>4, <2>5 DEF BuilderRight
  <1> QED
    BY <1>2, <1>7, <1>8, <1>9, <1>10 DEF OnTick

\* The last closed minute is the one before the forming one.
LEMMA LastClosedIs ==
    ASSUME NEW seq, NEW forming, NEW closed, Built(seq, forming, closed), closed # <<>>
    PROVE  /\ seq # <<>> /\ forming # <<>> /\ Len(closed) \in 1..Len(closed)
           /\ forming[1].minute \in 1..Minute(Horizon)
           /\ closed[Len(closed)].minute = forming[1].minute - 1
  <1>1. seq # <<>>
    BY DEF Built
  <1>2. PICK f : /\ forming = <<f>>
                 /\ f.minute \in seq[1].minute..Minute(Horizon)
                 /\ closed \in Seq(CandleType)
                 /\ Len(closed) = f.minute - seq[1].minute
                 /\ \A i \in 1..Len(closed) : Right(seq, seq[1].minute + i - 1, closed[i])
    BY <1>1 DEF Built
  <1>3. seq[1].minute \in 0..Minute(Horizon)
    <2>1. seq \in Seq(TickType)
      BY DEF Built
    <2>2. seq[1] \in TickType
      BY <1>1, <2>1
    <2> QED
      BY <2>2, TickFields
  <1>4. Len(closed) \in Nat /\ Len(closed) # 0
    BY <1>2
  <1>5. Right(seq, seq[1].minute + Len(closed) - 1, closed[Len(closed)])
    BY <1>2, <1>4
  <1> DEFINE fm == f.minute
             sm == seq[1].minute
             len == Len(closed)
  <1>6. fm \in Int /\ sm \in Nat /\ sm <= fm /\ fm <= Minute(Horizon) /\ len = fm - sm
    BY <1>2, <1>3, DayTyped
  <1>7. closed[len].minute = sm + len - 1
    BY <1>5 DEF Right
  <1> HIDE DEF fm, sm, len
  <1>8. closed[len].minute = fm - 1 /\ fm \in 1..Minute(Horizon)
    BY <1>4, <1>6, <1>7, DayTyped DEF len
  <1> QED
    BY <1>1, <1>2, <1>4, <1>8 DEF fm, len

\* Main is not overtaken: the last closed minute only grows.
LEMMA TakeKeepsDone ==
    ASSUME DOMAIN builder = BuilderFields, BuilderRight, DoneIsClosed, done' = done,
           done \in {None} \cup 0..Minute(Horizon),
           NEW minute \in 0..Minute(Horizon), NEW t \in SentType, Take(minute, t)
    PROVE  DoneIsClosed'
  <1> SUFFICES ASSUME done # None
               PROVE  /\ builder'.closed # <<>>
                      /\ done <= builder'.closed[Len(builder'.closed)].minute
    BY DEF DoneIsClosed
  <1> DEFINE old == builder.closed
             new == builder'.closed
             f == builder.forming[1].minute
             g == builder'.forming[1].minute
  <1>1. old # <<>> /\ done <= old[Len(old)].minute /\ done \in Int
    BY DEF DoneIsClosed
  <1>2. /\ taken # <<>> /\ builder.forming # <<>> /\ f \in 1..Minute(Horizon)
        /\ old[Len(old)].minute = f - 1
    BY <1>1, LastClosedIs DEF BuilderRight
  <1>3. /\ BuilderRight' /\ f <= g /\ Grown(taken, taken')
    BY <1>2, TakeBuilds
  <1>4. taken[1].minute \in 0..Minute(Horizon) /\ taken'[1] = taken[1] /\ taken' # <<>>
    BY <1>2, <1>3, SameFirst
  <1>5. /\ new \in Seq(CandleType) /\ Len(new) = g - taken[1].minute /\ g \in Int
        /\ Len(old) = f - taken[1].minute
    <2>1. PICK h : /\ builder'.forming = <<h>>
                   /\ h.minute \in taken'[1].minute..Minute(Horizon)
                   /\ new \in Seq(CandleType)
                   /\ Len(new) = h.minute - taken'[1].minute
      BY <1>3, <1>4 DEF BuilderRight, Built
    <2>2. PICK o : /\ builder.forming = <<o>>
                   /\ Len(old) = o.minute - taken[1].minute
      BY <1>2 DEF BuilderRight, Built
    <2>3. g \in Int
      BY <1>4, <2>1, DayTyped
    <2> QED
      BY <1>4, <2>1, <2>2, <2>3
  <1>6. Len(old) \in Nat /\ Len(old) # 0
    <2>1. old \in Seq(CandleType)
      BY <1>2 DEF BuilderRight, Built
    <2> QED
      BY <1>1, <2>1
  <1> DEFINE first == taken[1].minute
  <1> HIDE DEF old, new, f, g, first
  <1>7. first \in Nat /\ Len(new) = g - first /\ Len(old) = f - first /\ f \in Nat
    BY <1>2, <1>4, <1>5, DayTyped DEF first
  <1>8. Len(new) >= Len(old)
    BY <1>3, <1>5, <1>7
  <1>9. new # <<>>
    BY <1>5, <1>6, <1>8
  <1>10. new[Len(new)].minute = g - 1
    BY <1>3, <1>9, LastClosedIs DEF BuilderRight, new, g
  <1>11. done <= new[Len(new)].minute
    BY <1>1, <1>2, <1>3, <1>5, <1>7, <1>10, SMTT(30)
  <1> QED
    BY <1>9, <1>11 DEF new

\* The closed minutes are each of a minute of their own.
LEMMA ClosedMinutes ==
    ASSUME NEW seq, NEW forming, NEW closed, Built(seq, forming, closed)
    PROVE  /\ closed \in Seq(CandleType)
           /\ \A i, j \in DOMAIN closed : closed[i].minute = closed[j].minute => i = j
  <1>1. CASE seq = <<>>
    <2>1. closed = <<>>
      BY <1>1 DEF Built
    <2> QED
      BY <2>1
  <1>2. CASE seq # <<>>
    <2>1. PICK f : /\ closed \in Seq(CandleType)
                   /\ \A i \in 1..Len(closed) : Right(seq, seq[1].minute + i - 1, closed[i])
      BY <1>2 DEF Built
    <2>2. DOMAIN closed = 1..Len(closed)
      BY <2>1
    <2> DEFINE first == seq[1].minute
    <2>3. first \in Int
      <3>1. seq \in Seq(TickType)
        BY DEF Built
      <3>2. seq[1] \in TickType
        BY <1>2, <3>1
      <3> QED
        BY <3>2, TickFields
    <2> HIDE DEF first
    <2>4. \A i \in 1..Len(closed) : closed[i].minute = first + i - 1
      BY <2>1 DEF Right, first
    <2>5. ASSUME NEW i \in 1..Len(closed), NEW j \in 1..Len(closed),
                 closed[i].minute = closed[j].minute
          PROVE  i = j
      <3>1. first + i - 1 = first + j - 1
        BY <2>4, <2>5
      <3> QED
        BY <2>3, <3>1
    <2> QED
      BY <2>1, <2>2, <2>5
  <1> QED
    BY <1>1, <1>2

\* The file of the day has every closed minute after the archive step.
LEMMA ArchiveFiles ==
    ASSUME BuilderRight, Archive, inTime'
    PROVE  ArchiveIsWhole'
  <1> DEFINE cs == builder.closed
  <1>1. cs \in Seq(CandleType) /\ \A i, j \in DOMAIN cs : cs[i].minute = cs[j].minute => i = j
    BY ClosedMinutes DEF BuilderRight
  <1>2. builder' = builder /\ archive' = IF cs = <<>> THEN archive ELSE Merged(archive, Candles(cs))
    BY DEF Archive
  <1> HIDE DEF cs
  <1>3. SUFFICES ASSUME NEW i \in DOMAIN cs
                 PROVE  cs[i].minute \in DOMAIN archive' /\ archive'[cs[i].minute] = cs[i]
    BY <1>2 DEF ArchiveIsWhole, cs
  <1> DEFINE m == cs[i].minute
  <1>4. LastOf({j \in DOMAIN cs : cs[j].minute = m}) = i
    <2>1. {j \in DOMAIN cs : cs[j].minute = m} = {i}
      BY <1>1
    <2>2. i \in Int
      BY <1>1
    <2>3. i <= i
      BY <2>2
    <2> HIDE DEF m
    <2> QED
      BY <2>1, <2>2, <2>3, LastIs
  <1>5. cs # <<>>
    BY <1>1
  <1>6. m \in DOMAIN Candles(cs) /\ Candles(cs)[m] = cs[i]
    <2>1. m \in {cs[j].minute : j \in DOMAIN cs}
      OBVIOUS
    <2> HIDE DEF m
    <2> QED
      BY <1>4, <2>1 DEF Candles
  <1> HIDE DEF m
  <1>7. m \in DOMAIN Merged(archive, Candles(cs)) /\ Merged(archive, Candles(cs))[m] = cs[i]
    BY <1>6 DEF Merged
  <1> QED
    BY <1>2, <1>5, <1>7 DEF m

LEMMA PathInitially == Init => PathInv
  <1> SUFFICES ASSUME Init PROVE PathInv
    OBVIOUS
  <1> USE DEF Init, NoTickYet
  <1>1. PathTypes
    <2>1. Horizon \in Nat /\ MaxTicks \in Nat /\ MaxQueue \in Nat /\ MaxRuns \in Nat \ {0}
      BY DataPathAssumption
    <2>2. DOMAIN builder = BuilderFields
      BY DEF Empty, BuilderFields
    <2>3. <<>> \in Seq(SentType) /\ Len(<<>>) = 0
      OBVIOUS
    <2> QED
      BY <2>1, <2>2, <2>3 DEF PathTypes
  <1>2. BuilderRight
    BY DEF BuilderRight, Built, Empty
  <1>3. NoThreadLeft /\ DoneIsClosed /\ ArchiveIsWhole
    BY DEF NoThreadLeft, DoneIsClosed, ArchiveIsWhole
  <1> QED
    BY <1>1, <1>2, <1>3 DEF PathInv

\* What a step leaves alone.
LEMMA KeepsBuilder ==
    ASSUME PathInv, UNCHANGED <<builder, taken, done>>
    PROVE  BuilderRight' /\ DoneIsClosed'
  BY DEF PathInv, BuilderRight, DoneIsClosed

LEMMA ProcessTickKeeps == PathInv /\ ProcessTick => PathInv'
  <1> SUFFICES ASSUME PathInv, ProcessTick PROVE PathInv'
    OBVIOUS
  <1>1. PICK q \in Quotes :
          LET t == Sent(q)
              sent == [price |-> t.price, volume |-> t.volume, passed |-> Passes(t)]
          IN /\ t.ts >= 0 /\ Validate(t)
             /\ IF Passes(t) THEN Take(Minute(t.ts), sent)
                ELSE UNCHANGED <<builder, taken>>
             /\ queue' = IF Len(queue) < MaxQueue THEN Append(queue, sent)
                         ELSE queue
    BY DEF ProcessTick
  <1> DEFINE t == Sent(q)
             sent == [price |-> t.price, volume |-> t.volume, passed |-> Passes(t)]
             minute == Minute(t.ts)
  <1>2. UNCHANGED <<clock, feed, running, bridge, done, phase, inTime, archive, runs>>
        /\ feed # "off" /\ ticks < MaxTicks /\ ticks' = ticks + 1
    BY DEF ProcessTick
  <1>3. sent \in SentType
    <2>1. q.price \in Int /\ q.volume \in {None} \cup Nat
      BY DataPathAssumption
    <2>2. Passes(t) \in BOOLEAN
      BY DEF Passes
    <2> QED
      BY <2>1, <2>2 DEF SentType, Sent
  <1>4. minute \in 0..Minute(Horizon)
    <2>1. t.ts = clock - q.delay /\ q.delay \in Nat /\ t.ts >= 0
      BY <1>1, DataPathAssumption DEF Sent
    <2>2. clock \in 0..Horizon
      BY DEF PathInv, PathTypes
    <2>3. t.ts \in 0..Horizon
      BY <2>1, <2>2, DataPathAssumption
    <2> HIDE DEF t
    <2> QED
      BY <2>3, MinuteTyped
  <1>5. queue' \in Seq(SentType) /\ Len(queue') <= MaxQueue
    <2>1. queue \in Seq(SentType) /\ Len(queue) <= MaxQueue /\ MaxQueue \in Nat
      BY DataPathAssumption DEF PathInv, PathTypes
    <2>2. queue' = IF Len(queue) < MaxQueue THEN Append(queue, sent) ELSE queue
      BY <1>1
    <2> HIDE DEF sent
    <2> QED
      BY <1>3, <2>1, <2>2
  <1>6. BuilderRight' /\ DoneIsClosed' /\ (DOMAIN builder = BuilderFields)'
    <2>1. /\ DOMAIN builder = BuilderFields /\ BuilderRight /\ DoneIsClosed
          /\ done \in {None} \cup 0..Minute(Horizon)
      BY DEF PathInv, PathTypes
    <2>2. CASE Passes(t)
      <3>1. Take(minute, sent)
        BY <1>1, <2>2
      <3>2. done' = done
        BY <1>2
      <3> HIDE DEF t, sent, minute
      <3> QED
        BY <1>3, <1>4, <2>1, <3>1, <3>2, TakeBuilds, TakeKeepsDone
    <2>3. CASE ~Passes(t)
      <3>1. UNCHANGED <<builder, taken>>
        BY <1>1, <2>3
      <3> QED
        BY <1>2, <2>1, <3>1 DEF BuilderRight, DoneIsClosed
    <2> QED
      BY <2>2, <2>3
  <1>7. PathTypes'
    <2>1. ticks + 1 \in 0..MaxTicks
      BY <1>2, DataPathAssumption DEF PathInv, PathTypes
    <2> HIDE DEF t, sent, minute
    <2> QED
      BY <1>2, <1>5, <1>6, <2>1 DEF PathInv, PathTypes
  <1>8. NoThreadLeft'
    BY <1>2 DEF PathInv, NoThreadLeft
  <1>9. ArchiveIsWhole'
    BY <1>2 DEF PathInv, NoThreadLeft, ArchiveIsWhole
  <1> QED
    BY <1>6, <1>7, <1>8, <1>9 DEF PathInv

LEMMA BridgeTakesKeeps == PathInv /\ BridgeTakes => PathInv'
  <1> SUFFICES ASSUME PathInv, BridgeTakes PROVE PathInv'
    OBVIOUS
  <1>1. /\ bridge # <<>> /\ bridge' = <<>> /\ Take(Minute(clock), bridge[1])
        /\ UNCHANGED <<clock, ticks, feed, running, queue, done, phase, inTime, archive, runs>>
    BY DEF BridgeTakes
  <1>2. bridge[1] \in SentType /\ Minute(clock) \in 0..Minute(Horizon)
    BY <1>1, MinuteTyped DEF PathInv, PathTypes
  <1>3. BuilderRight' /\ DoneIsClosed' /\ (DOMAIN builder = BuilderFields)'
    <2>1. /\ DOMAIN builder = BuilderFields /\ BuilderRight /\ DoneIsClosed
          /\ done \in {None} \cup 0..Minute(Horizon) /\ done' = done
      BY <1>1 DEF PathInv, PathTypes
    <2> QED
      BY <1>1, <1>2, <2>1, TakeBuilds, TakeKeepsDone
  <1>4. PathTypes'
    BY <1>1, <1>3 DEF PathInv, PathTypes
  <1>5. NoThreadLeft'
    BY <1>1 DEF PathInv, NoThreadLeft
  <1>6. ArchiveIsWhole'
    BY <1>1 DEF PathInv, NoThreadLeft, ArchiveIsWhole
  <1> QED
    BY <1>3, <1>4, <1>5, <1>6 DEF PathInv

LEMMA BroadcastKeeps == PathInv /\ Broadcast => PathInv'
  <1> SUFFICES ASSUME PathInv, Broadcast PROVE PathInv'
    OBVIOUS
  <1>1. /\ queue # <<>> /\ queue' = Tail(queue) /\ phase \notin {"archive", "stopped"}
        /\ bridge' \in {<<>>} \cup (IF running THEN {<<Head(queue)>>} ELSE {})
        /\ UNCHANGED <<builder, clock, ticks, feed, running, done, phase, inTime, archive,
                       runs, taken>>
    BY DEF Broadcast
  <1>2. BuilderRight' /\ DoneIsClosed'
    BY <1>1, KeepsBuilder
  <1>3. queue' \in Seq(SentType) /\ Len(queue') <= MaxQueue /\ Head(queue) \in SentType
    <2>1. queue \in Seq(SentType) /\ Len(queue) <= MaxQueue /\ MaxQueue \in Nat
      BY DataPathAssumption DEF PathInv, PathTypes
    <2> QED
      BY <1>1, <2>1
  <1>4. bridge' \in Seq(SentType) /\ Len(bridge') <= 1
    <2> DEFINE head == Head(queue)
    <2>1. bridge' = <<>> \/ bridge' = <<head>>
      BY <1>1
    <2>2. <<>> \in Seq(SentType) /\ Len(<<>>) = 0
      OBVIOUS
    <2>3. \A t \in SentType : <<t>> \in Seq(SentType) /\ Len(<<t>>) = 1
      OBVIOUS
    <2>4. head \in SentType
      BY <1>3
    <2> HIDE DEF head
    <2>5. <<head>> \in Seq(SentType) /\ Len(<<head>>) = 1
      BY <2>3, <2>4
    <2>6. CASE bridge' = <<>>
      BY <2>2, <2>6
    <2>7. CASE bridge' = <<head>>
      BY <2>5, <2>7
    <2> QED
      BY <2>1, <2>6, <2>7
  <1>5. PathTypes'
    BY <1>1, <1>3, <1>4 DEF PathInv, PathTypes
  <1>6. NoThreadLeft' /\ ArchiveIsWhole'
    BY <1>1 DEF PathInv, NoThreadLeft, ArchiveIsWhole
  <1> QED
    BY <1>2, <1>5, <1>6 DEF PathInv

LEMMA CycleKeeps ==
    ASSUME PathInv, Cycle
    PROVE  PathInv' /\ done' > done
  <1>1. /\ builder.closed # <<>> /\ done' = builder.closed[Len(builder.closed)].minute
        /\ done' # done
        /\ UNCHANGED <<builder, clock, ticks, feed, running, queue, bridge, phase, inTime,
                       archive, runs, taken>>
    <2>1. builder.closed # <<>>
      BY DEF Cycle, LastClosed
    <2>2. LastClosed[1] = builder.closed[Len(builder.closed)]
      BY <2>1 DEF LastClosed, Last
    <2> QED
      BY <2>1, <2>2 DEF Cycle
  <1>2. done' \in 0..Minute(Horizon)
    <2> DEFINE fm == builder.forming[1].minute
    <2>1. fm \in 1..Minute(Horizon) /\ done' = fm - 1
      BY <1>1, LastClosedIs DEF PathInv, BuilderRight
    <2> HIDE DEF fm
    <2> QED
      BY <2>1, DayTyped
  <1>3. PathTypes'
    BY <1>1, <1>2 DEF PathInv, PathTypes
  <1>4. BuilderRight' /\ NoThreadLeft' /\ ArchiveIsWhole'
    BY <1>1 DEF PathInv, BuilderRight, NoThreadLeft, ArchiveIsWhole
  <1>5. DoneIsClosed'
    BY <1>1, <1>2 DEF DoneIsClosed
  <1>6. done' > done
    <2>1. CASE done = None
      BY <1>2, <2>1 DEF None
    <2>2. CASE done # None
      <3>1. done <= done' /\ done \in Int
        BY <1>1, <2>2, DayTyped DEF PathInv, PathTypes, DoneIsClosed
      <3> QED
        BY <1>1, <1>2, <3>1
    <2> QED
      BY <2>1, <2>2
  <1> QED
    BY <1>3, <1>4, <1>5, <1>6 DEF PathInv

LEMMA StopKeeps == PathInv /\ Stop => PathInv'
  <1> SUFFICES ASSUME PathInv, Stop PROVE PathInv'
    OBVIOUS
  <1>1. UNCHANGED <<builder, taken, done, clock, ticks, bridge, runs>>
    BY DEF Stop, StopBegins, StopFeed, StopPipelines, Archive
  <1>2. BuilderRight' /\ DoneIsClosed'
    BY <1>1, KeepsBuilder
  <1>3. queue' \in Seq(SentType) /\ Len(queue') <= MaxQueue
    <2>1. queue' = queue \/ queue' = <<>>
      BY DEF Stop, StopBegins, StopFeed, StopPipelines, Archive
    <2>2. <<>> \in Seq(SentType) /\ Len(<<>>) <= MaxQueue
      <3>1. <<>> \in Seq(SentType) /\ Len(<<>>) = 0
        OBVIOUS
      <3> QED
        BY <3>1, DataPathAssumption
    <2>3. queue \in Seq(SentType) /\ Len(queue) <= MaxQueue
      BY DEF PathInv, PathTypes
    <2> QED
      BY <2>1, <2>2, <2>3
  <1>4. PathTypes'
    <2>1. /\ feed' \in {"on", "lingers", "off"} /\ running' \in BOOLEAN /\ inTime' \in BOOLEAN
          /\ phase' \in {"loop", "feed", "pipelines", "archive", "stopped"}
      BY DEF PathInv, PathTypes, Stop, StopBegins, StopFeed, StopPipelines, Archive
    <2> QED
      BY <1>1, <1>3, <2>1 DEF PathInv, PathTypes
  <1>5. NoThreadLeft'
    BY DEF PathInv, NoThreadLeft, Stop, StopBegins, StopFeed, StopPipelines, Archive, BridgeDone
  <1>6. ArchiveIsWhole'
    <2>1. CASE Archive
      <3>1. CASE inTime'
        BY <2>1, <3>1, ArchiveFiles DEF PathInv
      <3>2. CASE ~inTime'
        BY <3>2 DEF ArchiveIsWhole
      <3> QED
        BY <3>1, <3>2
    <2>2. CASE StopBegins \/ StopFeed \/ StopPipelines
      BY <2>2 DEF StopBegins, StopFeed, StopPipelines, ArchiveIsWhole
    <2> QED
      BY <2>1, <2>2 DEF Stop
  <1> QED
    BY <1>2, <1>4, <1>5, <1>6 DEF PathInv

LEMMA RestartKeeps == PathInv /\ Restart => PathInv'
  <1> SUFFICES ASSUME PathInv, Restart PROVE PathInv'
    OBVIOUS
  <1>1. PathTypes'
    <2>1. MaxQueue \in Nat /\ MaxRuns \in Nat /\ runs' \in 1..MaxRuns
      BY DataPathAssumption DEF Restart, PathInv, PathTypes
    <2>2. (DOMAIN builder = BuilderFields)'
      BY DEF Restart, Empty, BuilderFields
    <2>3. <<>> \in Seq(SentType) /\ Len(<<>>) = 0
      OBVIOUS
    <2> QED
      BY <2>1, <2>2, <2>3 DEF PathInv, PathTypes, Restart
  <1>2. BuilderRight'
    BY DEF BuilderRight, Built, Empty, Restart
  <1>3. NoThreadLeft' /\ DoneIsClosed' /\ ArchiveIsWhole'
    BY DEF NoThreadLeft, DoneIsClosed, ArchiveIsWhole, Restart
  <1> QED
    BY <1>1, <1>2, <1>3 DEF PathInv

LEMMA AdvanceKeeps == PathInv /\ Advance => PathInv'
  <1> SUFFICES ASSUME PathInv, Advance PROVE PathInv'
    OBVIOUS
  <1>1. UNCHANGED <<builder, ticks, feed, running, queue, bridge, done, phase, inTime,
                    archive, runs, taken>>
        /\ clock < Horizon /\ clock' = clock + 1
    BY DEF Advance
  <1>2. clock' \in 0..Horizon
    BY <1>1, DataPathAssumption DEF PathInv, PathTypes
  <1>3. PathTypes'
    BY <1>1, <1>2 DEF PathInv, PathTypes
  <1>4. BuilderRight' /\ DoneIsClosed'
    BY <1>1, KeepsBuilder
  <1>5. NoThreadLeft' /\ ArchiveIsWhole'
    BY <1>1 DEF PathInv, NoThreadLeft, ArchiveIsWhole
  <1> QED
    BY <1>3, <1>4, <1>5 DEF PathInv

LEMMA PathInductive == PathInv /\ [Next]_vars => PathInv'
  <1> SUFFICES ASSUME PathInv, [Next]_vars PROVE PathInv'
    OBVIOUS
  <1>1. CASE UNCHANGED vars
    BY <1>1 DEF vars, PathInv, PathTypes, BuilderRight, NoThreadLeft, DoneIsClosed,
                ArchiveIsWhole
  <1> QED
    BY <1>1, ProcessTickKeeps, BroadcastKeeps, BridgeTakesKeeps, CycleKeeps, StopKeeps,
       RestartKeeps, AdvanceKeeps DEF Next

\* The types, the builder's minutes and what a stop leaves behind, in every state.
THEOREM PathInvariant == Spec => []PathInv
  BY PathInitially, PathInductive, PTL DEF Spec

-----------------------------------------------------------------------------
(* What the properties say of the candles follows from what the builder    *)
(* holds.                                                                  *)

\* The minutes that are over are those from the first tick up to the one that
\* forms.
LEMMA OverIs ==
    ASSUME NEW seq \in Seq(TickType), seq # <<>>, NEW minute \in seq[1].minute..Minute(Horizon),
           \A i \in 1..Len(seq) : seq[i].minute <= minute,
           CountedIn(seq, minute) # {}
    PROVE  Over(seq, Counted(seq)) = seq[1].minute..minute - 1
  <1> DEFINE first == seq[1].minute
             ticksOf == Counted(seq)
             day == Minute(Horizon)
  <1>1. first \in 0..day /\ first \in Int /\ minute \in 0..day /\ minute \in Int /\ day \in Nat
        /\ first <= minute
    <2>1. seq[1] \in TickType
      OBVIOUS
    <2> QED
      BY <2>1, TickFields, DayTyped
  <1>2. DOMAIN ticksOf = 0..day /\ \A m \in 0..day : ticksOf[m] = CountedIn(seq, m)
    <2>1. DOMAIN seq = 1..Len(seq)
      OBVIOUS
    <2> QED
      BY <2>1 DEF Counted, CountedIn
  <1> HIDE DEF first, ticksOf, day
  <1>3. ASSUME NEW k \in 0..day, ticksOf[k] # {}
        PROVE  k <= minute
    <2>1. PICK i \in CountedIn(seq, k) : TRUE
      BY <1>2, <1>3
    <2> QED
      BY <2>1 DEF CountedIn
  <1>4. \A m \in 0..day : (\E k \in 0..day : k > m /\ ticksOf[k] # {}) <=> m < minute
    <2> SUFFICES ASSUME NEW m \in 0..day
                 PROVE  (\E k \in 0..day : k > m /\ ticksOf[k] # {}) <=> m < minute
      OBVIOUS
    <2>1. ASSUME m < minute PROVE \E k \in 0..day : k > m /\ ticksOf[k] # {}
      <3>1. minute > m /\ ticksOf[minute] # {}
        BY <1>1, <1>2, <2>1
      <3> QED
        BY <1>1, <3>1
    <2>2. ASSUME NEW k \in 0..day, k > m, ticksOf[k] # {} PROVE m < minute
      BY <1>1, <1>3, <2>2
    <2> QED
      BY <2>1, <2>2
  <1>5. Over(seq, ticksOf) = {m \in 0..day : first <= m /\ m < minute}
    BY <1>2, <1>4 DEF Over, first
  <1>6. {m \in 0..day : first <= m /\ m < minute} = first..minute - 1
    BY <1>1
  <1> QED
    BY <1>5, <1>6 DEF first, ticksOf

LEMMA BuiltFollows ==
    ASSUME NEW seq, NEW forming, NEW closed, Built(seq, forming, closed)
    PROVE  ClosedFollow(seq, closed)
  <1>1. CASE seq = <<>>
    <2>1. closed = <<>> /\ Over(seq, Counted(seq)) = {}
      BY <1>1 DEF Built, Over
    <2>2. Len(closed) = 0 /\ DOMAIN closed = {}
      BY <2>1
    <2> QED
      BY <2>1, <2>2, FS_EmptySet DEF ClosedFollow
  <1>2. CASE seq # <<>>
    <2> DEFINE first == seq[1].minute
               len == Len(closed)
    <2>1. PICK f : /\ f.minute \in seq[1].minute..Minute(Horizon)
                   /\ \A i \in 1..Len(seq) : seq[i].minute <= f.minute
                   /\ Shows(seq, CountedIn(seq, f.minute), f)
                   /\ closed \in Seq(CandleType)
                   /\ Len(closed) = f.minute - seq[1].minute
                   /\ \A i \in 1..Len(closed) : Right(seq, seq[1].minute + i - 1, closed[i])
      BY <1>2 DEF Built
    <2> DEFINE fm == f.minute
    <2>2. /\ seq \in Seq(TickType) /\ DOMAIN seq = 1..Len(seq) /\ DOMAIN closed = 1..len
          /\ CountedIn(seq, fm) # {}
      BY <2>1 DEF Built, Shows
    <2>3. /\ first \in 0..Minute(Horizon) /\ first \in Nat /\ fm \in Nat /\ first <= fm
          /\ fm <= Minute(Horizon) /\ len \in Nat /\ len = fm - first
      <3>1. seq[1] \in TickType
        BY <1>2, <2>2
      <3>2. first \in 0..Minute(Horizon)
        BY <3>1, TickFields
      <3> QED
        BY <2>1, <3>2, DayTyped
    <2>4. Over(seq, Counted(seq)) = first..fm - 1
      BY <1>2, <2>1, <2>2, OverIs
    <2> HIDE DEF first, len, fm
    <2>5. Cardinality(first..fm - 1) = len
      <3>1. Cardinality(first..fm - 1) = IF first > fm - 1 THEN 0 ELSE fm - 1 - first + 1
        BY <2>3, FS_Interval
      <3> QED
        BY <2>3, <3>1
    <2>6. ASSUME NEW i \in 1..len, NEW m, m = first + i - 1
          PROVE  closed[i] = IF Counted(seq)[m] # {} THEN CandleOf(seq, Counted(seq)[m], m)
                             ELSE GapCandle(m, CloseBefore(seq, Counted(seq), m))
      <3>1. m \in 0..Minute(Horizon)
        BY <2>3, <2>6, DayTyped
      <3>2. Counted(seq)[m] = CountedIn(seq, m)
        BY <2>2, <3>1 DEF Counted, CountedIn
      <3>3. Right(seq, m, closed[i])
        BY <2>1, <2>6 DEF first, len
      <3>4. CASE CountedIn(seq, m) # {}
        <4>1. Shows(seq, CountedIn(seq, m), closed[i]) /\ closed[i].minute = m
          BY <3>3, <3>4 DEF Right
        <4>2. CountedIn(seq, m) \in SUBSET (1..Len(seq))
          BY DEF CountedIn
        <4>3. closed[i] = CandleOf(seq, CountedIn(seq, m), m)
          BY <2>2, <4>1, <4>2, ShowsIs
        <4> QED
          BY <3>2, <3>4, <4>3
      <3>5. CASE CountedIn(seq, m) = {}
        <4>1. Skipped(seq, m, closed[i])
          BY <3>3, <3>5 DEF Right
        <4>2. closed[i] = GapCandle(m, CloseBefore(seq, Counted(seq), m))
          BY <2>2, <3>1, <4>1, SkippedIs
        <4> QED
          BY <3>2, <3>5, <4>2
      <3> QED
        BY <3>4, <3>5
    <2> QED
      BY <2>2, <2>4, <2>5, <2>6 DEF first, len, ClosedFollow
  <1> QED
    BY <1>1, <1>2

-----------------------------------------------------------------------------
(* The higher timeframes.  What they hold is said of the closed minutes     *)
(* alone: the buffer has the last of them since the window began or since   *)
(* a gap (Filling), and the closed windows are the stretches of them that   *)
(* fill one (Filled).                                                       *)

LEMMA Divided ==
    ASSUME NEW n \in Nat \ {0}, NEW q \in Nat, NEW r \in 0..n - 1
    PROVE  (n * q + r) \div n = q /\ (n * q + r) % n = r
  OBVIOUS

LEMMA Remainder ==
    ASSUME NEW n \in Nat \ {0}, NEW a \in Nat
    PROVE  /\ (a % n) \in 0..n - 1 /\ a \div n \in Nat /\ a = n * (a \div n) + (a % n)
           /\ (a + 1) % n = (IF (a % n) = n - 1 THEN 0 ELSE (a % n) + 1)
           /\ \A k \in 0..(a % n) : (a - k) \div n = a \div n /\ (a - k) % n = (a % n) - k
  <1>1. (a % n) \in 0..n - 1
    OBVIOUS
  <1>2. a \div n \in Nat
    OBVIOUS
  <1>3. a = n * (a \div n) + (a % n)
    <2>1. n \in Int /\ n > 0 /\ a \in Int
      OBVIOUS
    <2> QED
      BY <2>1
  <1> DEFINE q == a \div n
             r == a % n
  <1>a. q \in Nat /\ r \in 0..n - 1 /\ a = n * q + r
    BY <1>1, <1>2, <1>3
  <1> HIDE DEF q, r
  <1>4. r # n - 1 => (a + 1) % n = r + 1
    <2> SUFFICES ASSUME r # n - 1 PROVE (a + 1) % n = r + 1
      OBVIOUS
    <2>1. r + 1 \in 0..n - 1 /\ a + 1 = n * q + (r + 1)
      BY <1>a
    <2>2. (n * q + (r + 1)) % n = r + 1
      BY <1>a, <2>1, Divided
    <2> QED
      BY <2>1, <2>2
  <1>5. r = n - 1 => (a + 1) % n = 0
    <2> SUFFICES ASSUME r = n - 1 PROVE (a + 1) % n = 0
      OBVIOUS
    <2>1. 0 \in 0..n - 1 /\ q + 1 \in Nat /\ a + 1 = n * (q + 1) + 0
      BY <1>a
    <2>2. (n * (q + 1) + 0) % n = 0
      BY <2>1, Divided
    <2> QED
      BY <2>1, <2>2
  <1>6. \A k \in 0..r : (a - k) \div n = q /\ (a - k) % n = r - k
    <2> TAKE k \in 0..r
    <2>1. a - k = n * q + (r - k) /\ r - k \in 0..n - 1
      BY <1>a
    <2>2. (n * q + (r - k)) \div n = q /\ (n * q + (r - k)) % n = r - k
      BY <1>a, <2>1, Divided
    <2> QED
      BY <2>1, <2>2
  <1> QED
    BY <1>1, <1>2, <1>3, <1>4, <1>5, <1>6 DEF q, r

\* Windows begin at multiples, in order.
LEMMA Multiples ==
    ASSUME NEW n \in Nat \ {0}, NEW a \in Nat, (a % n) = 0
    PROVE  /\ n * (a \div n) = a
           /\ \A b \in Nat : a < b /\ (b % n) = 0 => (a \div n) + 1 <= b \div n
           /\ \A b \in Nat : a + n <= b => (a \div n) + 1 <= b \div n
  <1>1. n * (a \div n) = a
    OBVIOUS
  <1>2. ASSUME NEW b \in Nat, a < b, (b % n) = 0 PROVE (a \div n) + 1 <= b \div n
    <2>1. a \div n < b \div n
      BY <1>2
    <2>2. a \div n \in Nat /\ b \div n \in Nat
      BY Remainder
    <2> QED
      BY <2>1, <2>2
  <1>3. ASSUME NEW b \in Nat, a + n <= b PROVE (a \div n) + 1 <= b \div n
    <2>1. a \div n \in Nat /\ b \div n \in Nat
      BY Remainder
    <2>2. (a + n) = n * ((a \div n) + 1)
      BY <1>1, <2>1
    <2>3. (a + n) \div n = (a \div n) + 1
      BY <2>1, <2>2
    <2>4. (a + n) \div n <= b \div n
      BY <1>3
    <2> QED
      BY <2>3, <2>4
  <1> QED
    BY <1>1, <1>2, <1>3

\* The window of a number.
LEMMA WindowStart ==
    ASSUME NEW n \in Nat \ {0}, NEW b \in Nat
    PROVE  n * b \in Nat /\ (n * b) % n = 0 /\ (n * b) \div n = b
  OBVIOUS

\* The n closed minutes after the first p, one of the windows of n minutes
\* that are whole, and what the higher timeframe should have of them.
Stretch(closed, p, n) == [i \in 1..n |-> closed[p + i]]
FullAt(n, closed, p) ==
    /\ p \in Nat /\ p + n <= Len(closed)
    /\ closed[p + 1].minute % n = 0
    /\ \A i \in 1..n : ~closed[p + i].gap

Filling(n, closed, minute, buffer) ==
    \E k \in 0..Len(closed) :
      /\ k <= (minute % n)
      /\ buffer = Stretch(closed, Len(closed) - k, k)
      /\ \A i \in 1..k : ~closed[Len(closed) - k + i].gap
      /\ k = (minute % n) \/ k = Len(closed) \/ closed[Len(closed) - k].gap

Filled(n, closed, higher) ==
    /\ higher \in Seq(CandleType)
    /\ \A p \in Nat : FullAt(n, closed, p) =>
         \E k \in 1..Len(higher) : higher[k] = Aggregate(Stretch(closed, p, n))
    /\ \A k \in 1..Len(higher) : \E p \in Nat :
         FullAt(n, closed, p) /\ higher[k] = Aggregate(Stretch(closed, p, n))
    /\ \A j, k \in 1..Len(higher) : j < k => higher[j].minute < higher[k].minute
    /\ \A k \in 1..Len(higher) : k <= higher[k].minute \div n + 1

\* The closed minutes end before the one that forms.
UpTo(closed, minute) ==
    /\ closed \in Seq(CandleType) /\ minute \in Nat /\ Len(closed) <= minute
    /\ \A i \in 1..Len(closed) : closed[i].minute = minute - Len(closed) + i - 1

LEMMA StretchIs ==
    ASSUME NEW closed \in Seq(CandleType), NEW p \in Nat, NEW n \in Nat, p + n <= Len(closed)
    PROVE  /\ Stretch(closed, p, n) \in Seq(CandleType) /\ Len(Stretch(closed, p, n)) = n
           /\ \A i \in 1..n : Stretch(closed, p, n)[i] = closed[p + i]
           /\ DOMAIN Stretch(closed, p, n) = 1..n
  <1>1. \A i \in 1..n : closed[p + i] \in CandleType
    <2> TAKE i \in 1..n
    <2>1. p + i \in 1..Len(closed)
      OBVIOUS
    <2> QED
      BY <2>1
  <1>2. Stretch(closed, p, n) \in [1..n -> CandleType]
    BY <1>1 DEF Stretch
  <1> QED
    BY <1>2 DEF Stretch

\* Sequences that are the same element by element.
LEMMA SameSequence ==
    ASSUME NEW S, NEW s \in Seq(S), NEW t \in Seq(S), Len(s) = Len(t),
           \A i \in 1..Len(s) : s[i] = t[i]
    PROVE  s = t
  OBVIOUS

\* Some candle is the highest, some the lowest.
LEMMA Greatest ==
    ASSUME NEW n \in Nat \ {0}, NEW f \in [1..n -> Int]
    PROVE  \E k \in 1..n : \A j \in 1..n : f[j] <= f[k]
  <1> DEFINE Top(m) == \E k \in 1..m : \A j \in 1..m : f[j] <= f[k]
             P == {m \in Nat : m + 1 <= n => Top(m + 1)}
  <1>1. 0 \in P
    <2>1. 1 \in 1..0 + 1 /\ 1 \in 1..n /\ \A j \in 1..0 + 1 : j = 1
      OBVIOUS
    <2>2. f[1] <= f[1]
      BY <2>1
    <2> QED
      BY <2>1, <2>2
  <1>2. ASSUME NEW m \in Nat, m \in P
        PROVE  m + 1 \in P
    <2>1. SUFFICES ASSUME m + 1 + 1 <= n PROVE Top(m + 1 + 1)
      OBVIOUS
    <2>2. PICK k \in 1..m + 1 : \A j \in 1..m + 1 : f[j] <= f[k]
      BY <1>2, <2>1
    <2>3. /\ f[k] \in Int /\ f[m + 2] \in Int /\ k \in 1..m + 2 /\ m + 2 \in 1..m + 2
          /\ \A j \in 1..m + 2 : f[j] \in Int /\ (j \in 1..m + 1 \/ j = m + 2)
          /\ m + 1 + 1 = m + 2
      BY <2>1
    <2>4. CASE f[m + 2] <= f[k]
      BY <2>2, <2>3, <2>4
    <2>5. CASE f[k] < f[m + 2]
      <3>1. \A j \in 1..m + 2 : f[j] <= f[m + 2]
        <4> TAKE j \in 1..m + 2
        <4>1. CASE j = m + 2
          BY <2>3, <4>1
        <4>2. CASE j \in 1..m + 1
          <5>1. f[j] <= f[k] /\ f[j] \in Int
            BY <2>2, <2>3, <4>2
          <5> QED
            BY <2>3, <2>5, <5>1
        <4> QED
          BY <2>3, <4>1, <4>2
      <3> QED
        BY <2>3, <3>1
    <2> QED
      BY <2>3, <2>4, <2>5
  <1> HIDE DEF P
  <1>3. \A m \in Nat : m \in P
    BY <1>1, <1>2, FromZero
  <1>4. n - 1 \in P /\ n - 1 + 1 = n
    BY <1>3
  <1> QED
    BY <1>4 DEF P

LEMMA HighIs ==
    ASSUME NEW cs \in Seq(CandleType), Len(cs) # 0
    PROVE  /\ \E k \in 1..Len(cs) : HighOf(cs) = cs[k].high
           /\ \A k \in 1..Len(cs) : cs[k].high <= HighOf(cs)
  <1> DEFINE n == Len(cs)
             f == [k \in 1..n |-> cs[k].high]
             H == {cs[k].high : k \in 1..n}
             Top(h) == \A k \in 1..n : cs[k].high <= h
  <1>1. n \in Nat \ {0} /\ DOMAIN cs = 1..n
    OBVIOUS
  <1>2. f \in [1..n -> Int]
    BY CandleFields
  <1> HIDE DEF n
  <1>3. PICK k \in 1..n : \A j \in 1..n : f[j] <= f[k]
    <2> HIDE DEF f
    <2> QED
      BY <1>1, <1>2, Greatest
  <1>4. cs[k].high \in H /\ Top(cs[k].high)
    BY <1>3
  <1>5. HighOf(cs) = CHOOSE h \in H : Top(h)
    BY <1>1 DEF HighOf
  <1> HIDE DEF H, Top
  <1>6. HighOf(cs) \in H /\ Top(HighOf(cs))
    BY <1>4, <1>5
  <1> QED
    BY <1>6 DEF H, Top, n

LEMMA LowIs ==
    ASSUME NEW cs \in Seq(CandleType), Len(cs) # 0
    PROVE  /\ \E k \in 1..Len(cs) : LowOf(cs) = cs[k].low
           /\ \A k \in 1..Len(cs) : LowOf(cs) <= cs[k].low
  <1> DEFINE n == Len(cs)
             f == [k \in 1..n |-> -cs[k].low]
             L == {cs[k].low : k \in 1..n}
             Bottom(l) == \A k \in 1..n : l <= cs[k].low
  <1>1. n \in Nat \ {0} /\ DOMAIN cs = 1..n /\ \A k \in 1..n : cs[k].low \in Int
    BY CandleFields
  <1> HIDE DEF n
  <1>2. f \in [1..n -> Int]
    BY <1>1
  <1>3. PICK k \in 1..n : \A j \in 1..n : f[j] <= f[k]
    <2> HIDE DEF f
    <2> QED
      BY <1>1, <1>2, Greatest
  <1>4. cs[k].low \in L /\ Bottom(cs[k].low)
    <2>1. \A j \in 1..n : -cs[j].low <= -cs[k].low
      BY <1>3
    <2>2. \A j \in 1..n : cs[k].low <= cs[j].low
      BY <1>1, <2>1
    <2> QED
      BY <2>2
  <1>5. LowOf(cs) = CHOOSE l \in L : Bottom(l)
    BY <1>1 DEF LowOf
  <1> HIDE DEF L, Bottom
  <1>6. LowOf(cs) \in L /\ Bottom(LowOf(cs))
    BY <1>4, <1>5
  <1> QED
    BY <1>6 DEF L, Bottom, n

\* The sum of the volumes of candles is what its definition says.
LEMMA TotalRuns ==
    ASSUME NEW cs \in Seq(CandleType)
    PROVE  /\ \A n \in 0..Len(cs) : TotalOf(cs)[n] \in Nat
           /\ TotalOf(cs)[0] = 0
           /\ \A n \in 1..Len(cs) : TotalOf(cs)[n] = TotalOf(cs)[n - 1] + cs[n].volume
  <1> DEFINE len == Len(cs)
             part(n) == cs[n].volume
             StepFcn == [x \in Nat \X (1..len) |-> x[1] + part(x[2])]
             Runs(f) == f = [n \in 0..len |-> IF n = 0 THEN 0 ELSE f[n - 1] + part(n)]
             r == TotalOf(cs)
  <1>1. len \in Nat /\ \A n \in 1..len : part(n) \in Nat
    BY CandleFields
  <1>2. r = CHOOSE g : Runs(g)
    BY DEF TotalOf
  <1> HIDE DEF part, len, r
  <1>3. StepFcn \in [Nat \X (1..len) -> Nat]
    BY <1>1
  <1>4. \A t \in Nat, n \in 1..len : StepFcn[<<t, n>>] = t + part(n)
    OBVIOUS
  <1> HIDE DEF StepFcn
  <1>5. PICK f \in [0..len -> Nat] : Follows(f, 0, len, StepFcn)
    BY <1>1, <1>3, ByRecursion
  <1>6. Runs(f)
    <2>1. ASSUME NEW n \in 1..len PROVE f[n] = f[n - 1] + part(n)
      <3>1. n - 1 \in 0..len
        BY <1>1
      <3>2. f[n - 1] \in Nat
        BY <1>5, <3>1
      <3>3. f[n] = StepFcn[<<f[n - 1], n>>]
        BY <1>5 DEF Follows
      <3> QED
        BY <1>4, <3>2, <3>3
    <2>2. f = [n \in 0..len |-> f[n]]
      BY <1>5
    <2>3. \A n \in 0..len : f[n] = IF n = 0 THEN 0 ELSE f[n - 1] + part(n)
      BY <1>1, <1>5, <2>1 DEF Follows
    <2> QED
      BY <2>2, <2>3
  <1>7. Runs(r)
    <2> HIDE DEF Runs
    <2> QED
      BY <1>2, <1>6
  <1>8. r[0] = 0 /\ \A n \in 1..len : r[n] = r[n - 1] + part(n)
    BY <1>1, <1>7
  <1> HIDE DEF Runs
  <1>9. \A n \in 0..len : r[n] \in Nat
    <2> DEFINE P == {n \in Nat : n <= len => r[n] \in Nat}
    <2>1. 0 \in P
      BY <1>8
    <2>2. ASSUME NEW n \in Nat, n \in P
          PROVE  n + 1 \in P
      <3>1. SUFFICES ASSUME n + 1 <= len PROVE r[n + 1] \in Nat
        OBVIOUS
      <3>2. r[n] \in Nat /\ n + 1 \in 1..len /\ n + 1 - 1 = n
        BY <1>1, <2>2, <3>1
      <3> QED
        BY <1>1, <1>8, <3>2
    <2> HIDE DEF P
    <2>3. \A n \in Nat : n \in P
      BY <2>1, <2>2, FromZero
    <2> QED
      BY <1>1, <2>3 DEF P
  <1> QED
    BY <1>8, <1>9 DEF r, len, part

\* An aggregated candle is a candle, of the first one's minute.
LEMMA AggregateFields ==
    ASSUME NEW cs \in Seq(CandleType), Len(cs) # 0
    PROVE  /\ Aggregate(cs) \in CandleType /\ ~Aggregate(cs).gap
           /\ Aggregate(cs).minute = cs[1].minute /\ Aggregate(cs).open = cs[1].open
           /\ Aggregate(cs).close = cs[Len(cs)].close
           /\ Aggregate(cs).high = HighOf(cs) /\ Aggregate(cs).low = LowOf(cs)
           /\ Aggregate(cs).volume = TotalOf(cs)[Len(cs)]
  <1>1. Len(cs) \in Nat /\ 1 \in 1..Len(cs) /\ Len(cs) \in 1..Len(cs) /\ Len(cs) \in 0..Len(cs)
    OBVIOUS
  <1>2. \A k \in 1..Len(cs) : cs[k] \in CandleType
    OBVIOUS
  <1>3. cs[1].minute \in Nat /\ cs[1].open \in Int /\ cs[Len(cs)].close \in Int
    BY <1>1, <1>2, CandleFields
  <1>4. HighOf(cs) \in Int
    <2>1. PICK k \in 1..Len(cs) : HighOf(cs) = cs[k].high
      BY HighIs
    <2> QED
      BY <1>2, <2>1, CandleFields
  <1>5. LowOf(cs) \in Int
    <2>1. PICK k \in 1..Len(cs) : LowOf(cs) = cs[k].low
      BY LowIs
    <2> QED
      BY <1>2, <2>1, CandleFields
  <1>6. TotalOf(cs)[Len(cs)] \in Nat
    BY <1>1, TotalRuns
  <1>7. Aggregate(cs) =
          [minute |-> cs[1].minute, open |-> cs[1].open, close |-> cs[Len(cs)].close,
           high |-> HighOf(cs), low |-> LowOf(cs), volume |-> TotalOf(cs)[Len(cs)],
           gap |-> FALSE]
    BY DEF Aggregate, Last
  <1> QED
    BY <1>3, <1>4, <1>5, <1>6, <1>7 DEF CandleType

\* The closed minutes of what is built end before the one that forms.
LEMMA BuiltUpTo ==
    ASSUME NEW seq, NEW forming, NEW closed, Built(seq, forming, closed), forming # <<>>
    PROVE  /\ forming[1] \in CandleType /\ ~forming[1].gap /\ UpTo(closed, forming[1].minute)
           /\ forming[1].minute <= Minute(Horizon)
  <1>1. seq # <<>> /\ seq \in Seq(TickType)
    BY DEF Built
  <1>2. PICK f : /\ forming = <<f>>
                 /\ f.minute \in seq[1].minute..Minute(Horizon)
                 /\ Shows(seq, CountedIn(seq, f.minute), f)
                 /\ closed \in Seq(CandleType)
                 /\ Len(closed) = f.minute - seq[1].minute
                 /\ \A i \in 1..Len(closed) : Right(seq, seq[1].minute + i - 1, closed[i])
    BY <1>1 DEF Built
  <1>3. seq[1].minute \in 0..Minute(Horizon)
    <2>1. seq[1] \in TickType
      BY <1>1
    <2> QED
      BY <2>1, TickFields
  <1>4. forming[1] = f /\ f \in CandleType /\ ~f.gap
    BY <1>2 DEF Shows
  <1> DEFINE first == seq[1].minute
             fm == f.minute
             N == Len(closed)
  <1>5. first \in Nat /\ fm \in Nat /\ N \in Nat /\ N = fm - first /\ fm <= Minute(Horizon)
    BY <1>2, <1>3, DayTyped
  <1>6. \A i \in 1..N : closed[i].minute = first + i - 1
    BY <1>2 DEF Right
  <1> HIDE DEF first, N, fm
  <1>7. \A i \in 1..N : closed[i].minute = fm - N + i - 1
    BY <1>5, <1>6
  <1> QED
    BY <1>2, <1>4, <1>5, <1>7 DEF UpTo, N, fm

\* The buffer, and how it goes on.
LEMMA FillingIs ==
    ASSUME NEW n \in Nat \ {0, 1}, NEW closed, NEW minute, UpTo(closed, minute),
           NEW buffer, Filling(n, closed, minute, buffer)
    PROVE  /\ closed \in Seq(CandleType) /\ Len(closed) \in Nat
           /\ minute \in Nat /\ (minute % n) \in 0..n - 1
           /\ buffer \in Seq(CandleType) /\ Len(buffer) \in Nat
           /\ Len(buffer) <= Len(closed) /\ Len(buffer) <= minute % n
           /\ \A i \in 1..Len(buffer) :
                 /\ buffer[i] = closed[Len(closed) - Len(buffer) + i] /\ ~buffer[i].gap
                 /\ Len(closed) - Len(buffer) + i \in 1..Len(closed)
           /\ \/ Len(buffer) = minute % n \/ Len(buffer) = Len(closed)
              \/ closed[Len(closed) - Len(buffer)].gap
  <1>1. closed \in Seq(CandleType) /\ Len(closed) \in Nat /\ minute \in Nat
    BY DEF UpTo
  <1>2. PICK k \in 0..Len(closed) :
          /\ k <= (minute % n)
          /\ buffer = Stretch(closed, Len(closed) - k, k)
          /\ \A i \in 1..k : ~closed[Len(closed) - k + i].gap
          /\ k = (minute % n) \/ k = Len(closed) \/ closed[Len(closed) - k].gap
    BY DEF Filling
  <1>3. Len(closed) - k \in Nat /\ k \in Nat /\ Len(closed) - k + k <= Len(closed)
    BY <1>1
  <1>4. /\ buffer \in Seq(CandleType) /\ Len(buffer) = k
        /\ \A i \in 1..k : buffer[i] = closed[Len(closed) - k + i]
    <2> DEFINE p == Len(closed) - k
             s == Stretch(closed, p, k)
    <2>1. closed \in Seq(CandleType) /\ k \in Nat /\ p \in Nat /\ p + k <= Len(closed)
      BY <1>1, <1>3
    <2>2. buffer = s
      BY <1>2
    <2> HIDE DEF p
    <2>3. s \in Seq(CandleType) /\ Len(s) = k /\ \A i \in 1..k : s[i] = closed[p + i]
      BY ONLY <2>1, StretchIs
    <2> HIDE DEF s
    <2> QED
      BY <2>2, <2>3 DEF p
  <1>5. \A i \in 1..k : Len(closed) - k + i \in 1..Len(closed)
    BY <1>1
  <1>6. \A i \in 1..k : /\ buffer[i] = closed[Len(closed) - k + i] /\ ~buffer[i].gap
                         /\ Len(closed) - k + i \in 1..Len(closed)
    BY <1>2, <1>4, <1>5
  <1>7. /\ k <= Len(closed) /\ k <= minute % n
        /\ k = minute % n \/ k = Len(closed) \/ closed[Len(closed) - k].gap
    BY <1>2, <1>3
  <1>8. (minute % n) \in 0..n - 1
    BY <1>1, Remainder
  <1> QED
    BY ONLY <1>1, <1>3, <1>4, <1>6, <1>7, <1>8

\* What it takes to be the buffer.
LEMMA IsFilling ==
    ASSUME NEW n \in Nat \ {0, 1}, NEW closed \in Seq(CandleType), NEW minute \in Nat,
           NEW N, N = Len(closed), NEW buffer \in Seq(CandleType), NEW k, k = Len(buffer),
           k <= N, k <= minute % n,
           \A i \in 1..k : buffer[i] = closed[N - k + i] /\ ~buffer[i].gap,
           k = minute % n \/ k = N \/ closed[N - k].gap
    PROVE  Filling(n, closed, minute, buffer)
  <1> DEFINE p == N - k
             s == Stretch(closed, p, k)
  <1>1. k \in 0..N /\ p \in Nat /\ k \in Nat /\ p + k <= Len(closed)
    OBVIOUS
  <1> HIDE DEF p
  <1>2. s \in Seq(CandleType) /\ Len(s) = k /\ \A i \in 1..k : s[i] = closed[p + i]
    <2>1. k \in Nat /\ p \in Nat /\ p + k <= Len(closed)
      BY <1>1
    <2> QED
      BY ONLY closed \in Seq(CandleType), <2>1, StretchIs
  <1>3. \A i \in 1..k : buffer[i] = s[i]
    <2> HIDE DEF s
    <2> QED
      BY ONLY <1>2, \A i \in 1..k : buffer[i] = closed[N - k + i] /\ ~buffer[i].gap
         DEF p
  <1> HIDE DEF s
  <1>4. buffer = s
    BY <1>2, <1>3, SameSequence
  <1>5. \A i \in 1..k : ~closed[N - k + i].gap
    OBVIOUS
  <1> QED
    BY <1>1, <1>4, <1>5 DEF Filling, s, p

\* A candle that closes joins the buffer, whatever the bucket of the last one.
LEMMA JoinedIs ==
    ASSUME NEW n \in Nat \ {0, 1}, NEW closed, NEW c, NEW m, m = c.minute, UpTo(closed, m),
           NEW buffer, Filling(n, closed, m, buffer)
    PROVE  Joined(buffer, n, c) = Append(buffer, c)
  <1> DEFINE k == Len(buffer)
             N == Len(closed)
  <1>1. /\ buffer \in Seq(CandleType) /\ k \in Nat /\ N \in Nat /\ m \in Nat
        /\ k <= N /\ k <= m % n /\ (m % n) \in 0..n - 1
        /\ \A i \in 1..k : buffer[i] = closed[N - k + i]
    BY FillingIs
  <1>2. CASE k = 0
    <2>1. buffer = <<>>
      BY <1>1, <1>2
    <2> QED
      BY <2>1 DEF Joined
  <1>3. CASE k # 0
    <2>1. k \in 1..k /\ N - k + k = N /\ N \in 1..N
      BY <1>1, <1>3
    <2>2. Last(buffer) = closed[N] /\ buffer # <<>>
      BY <1>1, <1>3, <2>1 DEF Last
    <2>3. closed[N].minute = m - N + N - 1
      BY <2>1 DEF UpTo
    <2>4. (m - 1) \div n = m \div n
      <3>1. 1 \in 0..(m % n)
        BY <1>1, <1>3
      <3> QED
        BY <1>1, <3>1, Remainder
    <2>5. m - N + N - 1 = m - 1 /\ m = m - 1 + 1
      BY <1>1
    <2> QED
      BY <2>2, <2>3, <2>4, <2>5 DEF Joined, Bucket
  <1> QED
    BY <1>2, <1>3

\* A minute closes that does not end the window.
LEMMA FillingOn ==
    ASSUME NEW n \in Nat \ {0, 1}, NEW closed, NEW c \in CandleType, ~c.gap,
           NEW m, m = c.minute, UpTo(closed, m),
           NEW buffer, Filling(n, closed, m, buffer), ~EndsBucket(n, c)
    PROVE  Filling(n, Append(closed, c), m + 1, Append(buffer, c))
  <1> DEFINE k == Len(buffer)
             N == Len(closed)
             cs == Append(closed, c)
             b == Append(buffer, c)
  <1>1. /\ buffer \in Seq(CandleType) /\ closed \in Seq(CandleType)
        /\ k \in Nat /\ N \in Nat /\ m \in Nat /\ k <= N /\ k <= m % n
        /\ \A i \in 1..k : buffer[i] = closed[N - k + i] /\ ~buffer[i].gap
                            /\ N - k + i \in 1..N
        /\ k = m % n \/ k = N \/ closed[N - k].gap
    BY FillingIs
  <1>2. (m + 1) % n = (m % n) + 1 /\ (m % n) \in Nat
    <2>1. (m + 1) % n # 0
      BY DEF EndsBucket
    <2>2. (m % n) \in 0..n - 1 /\ (m + 1) % n = (IF (m % n) = n - 1 THEN 0 ELSE (m % n) + 1)
      BY <1>1, Remainder
    <2> QED
      BY <2>1, <2>2
  <1>3. /\ cs \in Seq(CandleType) /\ Len(cs) = N + 1 /\ cs[N + 1] = c
        /\ \A i \in 1..N : cs[i] = closed[i]
        /\ b \in Seq(CandleType) /\ Len(b) = k + 1 /\ b[k + 1] = c
        /\ \A i \in 1..k : b[i] = buffer[i]
    BY <1>1
  <1> HIDE DEF cs, b, k, N
  <1>4. \A i \in 1..k + 1 : b[i] = cs[(N + 1) - (k + 1) + i] /\ ~b[i].gap
    <2> TAKE i \in 1..k + 1
    <2>1. CASE i = k + 1
      <3>1. (N + 1) - (k + 1) + i = N + 1
        BY <1>1, <2>1
      <3> QED
        BY <1>3, <2>1, <3>1
    <2>2. CASE i \in 1..k
      <3>1. (N + 1) - (k + 1) + i = N - k + i
        BY <1>1, <2>2
      <3>2. N - k + i \in 1..N /\ buffer[i] = closed[N - k + i] /\ ~buffer[i].gap
        BY <1>1, <2>2
      <3>3. b[i] = buffer[i] /\ cs[N - k + i] = closed[N - k + i]
        BY <1>3, <2>2, <3>2
      <3> QED
        BY <3>1, <3>2, <3>3
    <2> QED
      BY <1>1, <2>1, <2>2
  <1>5. k + 1 = (m + 1) % n \/ k + 1 = N + 1 \/ cs[(N + 1) - (k + 1)].gap
    <2>1. CASE k = m % n
      BY <1>2, <2>1
    <2>2. CASE k # N /\ closed[N - k].gap
      <3>1. (N + 1) - (k + 1) = N - k /\ N - k \in 1..N
        BY <1>1, <2>2
      <3> QED
        BY <1>3, <2>2, <3>1
    <2> QED
      BY <1>1, <2>1, <2>2
  <1>6. k + 1 <= N + 1 /\ k + 1 <= (m + 1) % n /\ m + 1 \in Nat
    BY <1>1, <1>2
  <1>7. Filling(n, cs, m + 1, b)
    <2> DEFINE N2 == N + 1
               k2 == k + 1
               m2 == m + 1
    <2>a. /\ cs \in Seq(CandleType) /\ b \in Seq(CandleType) /\ N2 = Len(cs) /\ k2 = Len(b)
          /\ n \in Nat \ {0, 1}
      BY <1>3
    <2>b. \A i \in 1..k2 : b[i] = cs[N2 - k2 + i] /\ ~b[i].gap
      BY <1>4
    <2>c. k2 = m2 % n \/ k2 = N2 \/ cs[N2 - k2].gap
      BY <1>5
    <2>d. k2 <= N2 /\ k2 <= m2 % n /\ m2 \in Nat
      BY <1>6
    <2> HIDE DEF N2, k2, m2
    <2>2. Filling(n, cs, m2, b)
      BY ONLY <2>a, <2>b, <2>c, <2>d, IsFilling
    <2> QED
      BY <2>2 DEF m2
  <1> QED
    BY <1>7 DEF cs, b

\* The buffer is empty when the window begins, and after a gap.
LEMMA FillingNone ==
    ASSUME NEW n \in Nat \ {0, 1}, NEW closed \in Seq(CandleType), NEW minute \in Nat,
           minute % n = 0 \/ Len(closed) = 0 \/ closed[Len(closed)].gap
    PROVE  Filling(n, closed, minute, <<>>)
  <1> DEFINE N == Len(closed)
             b == <<>>
  <1>1. b \in Seq(CandleType) /\ 0 = Len(b) /\ N \in Nat /\ N - 0 = N
    OBVIOUS
  <1>2. (minute % n) \in 0..n - 1
    BY Remainder
  <1>3. 0 <= N /\ 0 <= minute % n /\ (0 = minute % n \/ 0 = N \/ closed[N - 0].gap)
    BY <1>1, <1>2
  <1>4. \A i \in 1..0 : b[i] = closed[N - 0 + i] /\ ~b[i].gap
    OBVIOUS
  <1> HIDE DEF b, N
  <1>5. Filling(n, closed, minute, b)
    BY <1>1, <1>3, <1>4, IsFilling DEF N
  <1> QED
    BY <1>5 DEF b

\* A whole window stays what it is when more minutes close.
LEMMA FullKept ==
    ASSUME NEW n \in Nat \ {0, 1}, NEW closed \in Seq(CandleType), NEW cs \in Seq(CandleType),
           Len(closed) <= Len(cs), \A i \in 1..Len(closed) : cs[i] = closed[i],
           NEW p \in Nat, p + n <= Len(closed)
    PROVE  /\ FullAt(n, cs, p) => FullAt(n, closed, p)
           /\ FullAt(n, closed, p) => FullAt(n, cs, p)
           /\ Stretch(cs, p, n) = Stretch(closed, p, n)
  <1>1. \A i \in 1..n : p + i \in 1..Len(closed) /\ cs[p + i] = closed[p + i]
    OBVIOUS
  <1>2. 1 \in 1..n /\ p + n <= Len(cs)
    OBVIOUS
  <1>3. cs[p + 1] = closed[p + 1]
    BY <1>1, <1>2
  <1>4. Stretch(cs, p, n) = Stretch(closed, p, n)
    BY <1>1 DEF Stretch
  <1> QED
    BY <1>1, <1>2, <1>3, <1>4 DEF FullAt

\* The candle of a whole window: its minute is where the window begins.
LEMMA FullFields ==
    ASSUME NEW n \in Nat \ {0, 1}, NEW closed, NEW m, UpTo(closed, m),
           NEW p \in Nat, FullAt(n, closed, p)
    PROVE  /\ Aggregate(Stretch(closed, p, n)) \in CandleType
           /\ Aggregate(Stretch(closed, p, n)).minute = m - Len(closed) + p
           /\ (m - Len(closed) + p) \in Nat /\ (m - Len(closed) + p) % n = 0
           /\ p + n <= Len(closed)
  <1> DEFINE N == Len(closed)
             s == Stretch(closed, p, n)
  <1>1. closed \in Seq(CandleType) /\ N \in Nat /\ m \in Nat /\ N <= m
    BY DEF UpTo
  <1>2. p + n <= N /\ closed[p + 1].minute % n = 0 /\ n \in Nat /\ 1 \in 1..n
    BY DEF FullAt
  <1>3. s \in Seq(CandleType) /\ Len(s) = n /\ s[1] = closed[p + 1]
    <2>1. closed \in Seq(CandleType) /\ n \in Nat /\ p + n <= Len(closed) /\ 1 \in 1..n
      BY <1>1, <1>2
    <2>2. s \in Seq(CandleType) /\ Len(s) = n /\ \A i \in 1..n : s[i] = closed[p + i]
      BY ONLY p \in Nat, <2>1, StretchIs
    <2> HIDE DEF s
    <2> QED
      BY ONLY <2>1, <2>2
  <1> HIDE DEF s
  <1>4. Aggregate(s) \in CandleType /\ Aggregate(s).minute = closed[p + 1].minute
    BY <1>2, <1>3, AggregateFields
  <1>5. p + 1 \in 1..N
    BY <1>1, <1>2
  <1>6. closed[p + 1].minute = m - N + (p + 1) - 1
    BY <1>5 DEF UpTo
  <1>7. m - N + (p + 1) - 1 = m - N + p /\ m - N + p \in Nat
    BY <1>1
  <1> QED
    BY <1>2, <1>4, <1>6, <1>7 DEF s

\* What has closed when c does: c, then gaps.
ClosesWith(closed, c, cs) ==
    /\ cs \in Seq(CandleType) /\ Len(closed) + 1 <= Len(cs)
    /\ \A i \in 1..Len(closed) : cs[i] = closed[i]
    /\ cs[Len(closed) + 1] = c
    /\ \A i \in Len(closed) + 2..Len(cs) : cs[i].gap

LEMMA MinutesOf ==
    ASSUME NEW closed, NEW c \in CandleType, NEW m, m = c.minute, UpTo(closed, m),
           NEW cs, ClosesWith(closed, c, cs), NEW N, N = Len(closed)
    PROVE  /\ closed \in Seq(CandleType) /\ N \in Nat /\ m \in Nat /\ N <= m
           /\ cs \in Seq(CandleType) /\ Len(cs) \in Nat /\ N + 1 <= Len(cs)
           /\ \A i \in 1..N : cs[i] = closed[i]
           /\ cs[N + 1] = c
           /\ \A i \in 1..N + 1 : cs[i].minute = m - N + i - 1
           /\ \A i \in N + 2..Len(cs) : cs[i].gap
  <1>1. /\ closed \in Seq(CandleType) /\ N \in Nat /\ m \in Nat /\ N <= m
        /\ \A i \in 1..N : closed[i].minute = m - N + i - 1
    BY DEF UpTo
  <1>2. /\ cs \in Seq(CandleType) /\ Len(cs) \in Nat /\ N + 1 <= Len(cs)
        /\ \A i \in 1..N : cs[i] = closed[i]
        /\ cs[N + 1] = c
        /\ \A i \in N + 2..Len(cs) : cs[i].gap
    BY DEF ClosesWith
  <1>3. ASSUME NEW i \in 1..N + 1 PROVE cs[i].minute = m - N + i - 1
    <2>1. i \in 1..N \/ i = N + 1
      BY <1>1
    <2>2. CASE i = N + 1
      <3>1. m - N + (N + 1) - 1 = m
        BY <1>1
      <3> QED
        BY <1>2, <2>2, <3>1
    <2> QED
      BY <1>1, <1>2, <2>1, <2>2
  <1> QED
    BY <1>1, <1>2, <1>3

\* Of the windows that are whole then only one may be new: the one c ends.
LEMMA NewWhole ==
    ASSUME NEW n \in Nat \ {0, 1}, NEW closed, NEW c \in CandleType,
           NEW m, m = c.minute, UpTo(closed, m),
           NEW buffer, Filling(n, closed, m, buffer),
           NEW cs, ClosesWith(closed, c, cs), NEW N, N = Len(closed),
           NEW p \in Nat, FullAt(n, cs, p), p + n > N
    PROVE  p + n = N + 1 /\ EndsBucket(n, c) /\ Len(buffer) + 1 = n
  <1> DEFINE k == Len(buffer)
  <1>1. /\ k \in Nat /\ k <= N /\ k <= m % n /\ (m % n) \in 0..n - 1
        /\ k = m % n \/ k = N \/ closed[N - k].gap
    BY FillingIs
  <1>2. /\ N \in Nat /\ m \in Nat /\ N <= m
        /\ Len(cs) \in Nat /\ N + 1 <= Len(cs)
        /\ \A i \in 1..N : cs[i] = closed[i]
        /\ \A i \in 1..N + 1 : cs[i].minute = m - N + i - 1
        /\ \A i \in N + 2..Len(cs) : cs[i].gap
    BY MinutesOf
  <1>3. /\ p + n <= Len(cs) /\ cs[p + 1].minute % n = 0 /\ \A i \in 1..n : ~cs[p + i].gap
        /\ n \in Nat /\ n > 1
    BY DEF FullAt
  <1> HIDE DEF k
  <1>a. n \in Nat /\ n > 1 /\ p \in Nat /\ N \in Nat /\ m \in Nat /\ N <= m /\ p + n > N
    BY <1>2, <1>3
  <1>4. p + n = N + 1
    <2>1. ~(p + n >= N + 2)
      <3> SUFFICES ASSUME p + n >= N + 2 PROVE FALSE
        OBVIOUS
      <3>1. p + n \in N + 2..Len(cs) /\ n \in 1..n
        BY <1>2, <1>3
      <3> QED
        BY <1>2, <1>3, <3>1
    <2> QED
      BY ONLY <1>a, <2>1
  \* It begins a window, so that c ends it.
  <1>5. (m + 1) % n = 0 /\ m % n = n - 1
    <2> DEFINE a == cs[p + 1].minute
               b == a \div n
    <2>1. a \in Nat /\ a + n = m + 1
      <3>1. p + 1 \in 1..N + 1
        BY <1>2, <1>3, <1>4
      <3>2. a = m - N + (p + 1) - 1
        BY <1>2, <3>1
      <3> HIDE DEF a
      <3> QED
        BY ONLY <1>a, <1>4, <3>2
    <2>2. a % n = 0
      BY <1>3
    <2> HIDE DEF a
    <2>3. b \in Nat /\ n * b = a
      BY <2>1, <2>2, Multiples, Remainder
    <2> HIDE DEF b
    <2>4. b + 1 \in Nat /\ n - 1 \in 0..n - 1 /\ 0 \in 0..n - 1
      BY <1>3, <2>3
    <2>5. m + 1 = n * (b + 1) + 0 /\ m = n * b + (n - 1)
      BY ONLY <1>a, <2>1, <2>3
    <2>6. (n * (b + 1) + 0) % n = 0 /\ (n * b + (n - 1)) % n = n - 1
      BY <2>3, <2>4, Divided
    <2> QED
      BY <2>5, <2>6
  \* It has no hole, so that the buffer has all the rest of it.
  <1>6. k + 1 = n
    <2>1. SUFFICES ASSUME k < n - 1 PROVE FALSE
      BY <1>1, <1>3, <1>5
    <2>2. k # N /\ k # m % n
      BY <1>1, <1>2, <1>3, <1>4, <1>5, <2>1
    <2>3. closed[N - k].gap
      BY <1>1, <2>2
    <2> DEFINE i == N - k - p
    <2>4. i \in 1..n /\ p + i = N - k /\ N - k \in 1..N
      BY <1>1, <1>2, <1>3, <1>4, <2>1, <2>2, SMTT(30)
    <2> HIDE DEF i
    <2>5. ~cs[p + i].gap
      BY <1>3, <2>4
    <2> QED
      BY <1>2, <2>3, <2>4, <2>5
  <1> QED
    BY <1>4, <1>5, <1>6 DEF EndsBucket, k

\* When c ends a window and the buffer has the rest, that one is whole.
LEMMA LastWhole ==
    ASSUME NEW n \in Nat \ {0, 1}, NEW closed, NEW c \in CandleType, ~c.gap,
           NEW m, m = c.minute, UpTo(closed, m),
           NEW buffer, Filling(n, closed, m, buffer),
           NEW cs, ClosesWith(closed, c, cs), NEW N, N = Len(closed),
           EndsBucket(n, c), NEW k, k = Len(buffer), k + 1 = n
    PROVE  \E q \in Nat :
             /\ q + n = N + 1 /\ FullAt(n, cs, q)
             /\ Stretch(cs, q, n) = Append(buffer, c)
             /\ Aggregate(Append(buffer, c)) \in CandleType
             /\ Aggregate(Append(buffer, c)).minute + n = m + 1
  <1> DEFINE q == N - k
  <1>1. /\ buffer \in Seq(CandleType) /\ k \in Nat /\ k <= N /\ k <= m % n
        /\ (m % n) \in 0..n - 1
        /\ \A i \in 1..k : buffer[i] = closed[N - k + i] /\ ~buffer[i].gap
                            /\ N - k + i \in 1..N
    <2> DEFINE l == Len(buffer)
               M == Len(closed)
    <2>1. /\ buffer \in Seq(CandleType) /\ l \in Nat /\ l <= M /\ l <= m % n
          /\ (m % n) \in 0..n - 1
          /\ \A i \in 1..l : buffer[i] = closed[M - l + i] /\ ~buffer[i].gap
                              /\ M - l + i \in 1..M
      BY FillingIs
    <2>2. k = l /\ N = M
      OBVIOUS
    <2> HIDE DEF l, M
    <2> QED
      BY <2>1, <2>2
  <1>2. /\ N \in Nat /\ m \in Nat /\ N <= m
        /\ cs \in Seq(CandleType) /\ Len(cs) \in Nat /\ N + 1 <= Len(cs)
        /\ \A i \in 1..N : cs[i] = closed[i]
        /\ cs[N + 1] = c
        /\ \A i \in 1..N + 1 : cs[i].minute = m - N + i - 1
    BY MinutesOf
  <1>3. n \in Nat /\ n > 1 /\ 1 \in 1..n /\ k \in Nat
    BY <1>1
  <1>a. /\ n \in Nat /\ n > 1 /\ k \in Nat /\ k + 1 = n /\ k <= N
        /\ N \in Nat /\ m \in Nat /\ N <= m
    BY <1>1, <1>2, <1>3
  <1>4. q \in Nat /\ q + n = N + 1
    BY ONLY <1>a
  <1>5. \A i \in 1..k : cs[q + i] = buffer[i] /\ ~buffer[i].gap
    BY <1>1, <1>2
  <1> HIDE DEF q
  <1>6. \A i \in 1..n : i \in 1..k \/ i = n
    BY <1>3
  <1>7. \A i \in 1..n : ~cs[q + i].gap
    BY <1>2, <1>4, <1>5, <1>6
  <1>8. q + n <= Len(cs) /\ cs[q + n] = c
    BY <1>2, <1>4
  <1>c. cs \in Seq(CandleType) /\ q \in Nat /\ n \in Nat /\ q + n <= Len(cs)
    BY <1>2, <1>a, <1>4, <1>8
  <1>9. cs[q + 1].minute % n = 0 /\ cs[q + 1].minute + n = m + 1
    <2> DEFINE a == cs[q + 1].minute
               e == n - 1
    <2>1. q + 1 \in 1..N + 1
      BY <1>2, <1>3, <1>4
    <2>2. a = m - N + (q + 1) - 1
      BY <1>2, <2>1
    <2>3. e \in Nat /\ e = m % n /\ e \in 0..(m % n)
      BY <1>1, <1>3
    <2> HIDE DEF a
    <2>4. a = m - e /\ a + n = m + 1
      BY ONLY <1>a, <1>4, <2>2, <2>3 DEF e
    <2> HIDE DEF e
    <2>5. (m - e) % n = (m % n) - e
      <3>1. \A j \in 0..(m % n) : (m - j) % n = (m % n) - j
        <4>1. n \in Nat \ {0} /\ m \in Nat
          BY <1>2
        <4> QED
          BY ONLY <4>1, Remainder
      <3> QED
        BY <2>3, <3>1
    <2>6. (m % n) - e = 0
      BY <2>3
    <2> QED
      BY <2>4, <2>5, <2>6 DEF a
  <1>10. FullAt(n, cs, q)
    BY <1>4, <1>7, <1>8, <1>9 DEF FullAt
  <1>11. Stretch(cs, q, n) = Append(buffer, c) /\ Append(buffer, c) \in Seq(CandleType)
    <2> DEFINE s == Stretch(cs, q, n)
               b == Append(buffer, c)
    <2>1. s \in Seq(CandleType) /\ Len(s) = n /\ \A i \in 1..n : s[i] = cs[q + i]
      BY ONLY <1>c, StretchIs
    <2>2. b \in Seq(CandleType) /\ Len(b) = k + 1 /\ b[k + 1] = c
          /\ \A i \in 1..k : b[i] = buffer[i]
      BY <1>1
    <2> HIDE DEF s, b
    <2>3. ASSUME NEW i \in 1..n PROVE s[i] = b[i]
      <3>1. CASE i \in 1..k
        BY <1>5, <2>1, <2>2, <3>1
      <3>2. CASE i = n
        BY <1>8, <2>1, <2>2, <3>2
      <3> QED
        BY <1>6, <3>1, <3>2
    <2>4. Len(s) = Len(b) /\ \A i \in 1..Len(s) : s[i] = b[i]
      BY <2>1, <2>2, <2>3
    <2>5. s = b
      BY ONLY <2>1, <2>2, <2>4, SameSequence
    <2> QED
      BY <2>2, <2>5 DEF s, b
  <1>12. Aggregate(Stretch(cs, q, n)) \in CandleType
         /\ Aggregate(Stretch(cs, q, n)).minute = cs[q + 1].minute
    <2> DEFINE s == Stretch(cs, q, n)
    <2>a. s \in Seq(CandleType) /\ Len(s) = n /\ \A i \in 1..n : s[i] = cs[q + i]
      BY ONLY <1>c, StretchIs
    <2>1. s \in Seq(CandleType) /\ Len(s) = n /\ s[1] = cs[q + 1]
      BY <1>3, <2>a
    <2> HIDE DEF s
    <2>2. Aggregate(s) \in CandleType /\ Aggregate(s).minute = s[1].minute
      BY <1>3, <2>1, AggregateFields
    <2> QED
      BY <2>1, <2>2 DEF s
  <1> QED
    BY <1>4, <1>9, <1>10, <1>11, <1>12

\* The windows that were whole, in what has closed since.
LEMMA FullBefore ==
    ASSUME NEW n \in Nat \ {0, 1}, NEW closed \in Seq(CandleType), NEW c,
           NEW cs, ClosesWith(closed, c, cs), NEW p \in Nat
    PROVE  /\ FullAt(n, closed, p) => FullAt(n, cs, p) /\ p + n <= Len(closed)
           /\ FullAt(n, cs, p) /\ p + n <= Len(closed) => FullAt(n, closed, p)
           /\ p + n <= Len(closed) => Stretch(cs, p, n) = Stretch(closed, p, n)
  <1>1. /\ cs \in Seq(CandleType) /\ Len(closed) <= Len(cs)
        /\ \A i \in 1..Len(closed) : cs[i] = closed[i]
    <2>1. Len(closed) \in Nat
      OBVIOUS
    <2>2. cs \in Seq(CandleType) /\ Len(closed) + 1 <= Len(cs) /\ Len(cs) \in Nat
      BY DEF ClosesWith
    <2>3. Len(closed) <= Len(cs)
      BY <2>1, <2>2
    <2> QED
      BY <2>2, <2>3 DEF ClosesWith
  <1>2. FullAt(n, closed, p) => p + n <= Len(closed)
    BY DEF FullAt
  <1>3. ASSUME p + n <= Len(closed)
        PROVE  /\ FullAt(n, cs, p) => FullAt(n, closed, p)
               /\ FullAt(n, closed, p) => FullAt(n, cs, p)
               /\ Stretch(cs, p, n) = Stretch(closed, p, n)
    BY <1>1, <1>3, FullKept
  <1>4. FullAt(n, closed, p) => FullAt(n, cs, p) /\ p + n <= Len(closed)
    BY <1>2, <1>3
  <1>5. FullAt(n, cs, p) /\ p + n <= Len(closed) => FullAt(n, closed, p)
    BY <1>3
  <1> QED
    BY <1>3, <1>4, <1>5

\* No window is new.
LEMMA FilledSame ==
    ASSUME NEW n \in Nat \ {0, 1}, NEW closed \in Seq(CandleType), NEW c,
           NEW cs, ClosesWith(closed, c, cs), NEW higher, Filled(n, closed, higher),
           \A p \in Nat : FullAt(n, cs, p) => p + n <= Len(closed)
    PROVE  Filled(n, cs, higher)
  <1>1. ASSUME NEW p \in Nat
        PROVE  /\ FullAt(n, cs, p) => FullAt(n, closed, p)
               /\ FullAt(n, closed, p) => /\ FullAt(n, cs, p)
                                          /\ Stretch(cs, p, n) = Stretch(closed, p, n)
    <2>1. /\ FullAt(n, closed, p) => FullAt(n, cs, p) /\ p + n <= Len(closed)
          /\ FullAt(n, cs, p) /\ p + n <= Len(closed) => FullAt(n, closed, p)
          /\ p + n <= Len(closed) => Stretch(cs, p, n) = Stretch(closed, p, n)
      BY FullBefore
    <2> QED
      BY <2>1
  <1>2. /\ higher \in Seq(CandleType)
        /\ \A i, j \in 1..Len(higher) : i < j => higher[i].minute < higher[j].minute
        /\ \A j \in 1..Len(higher) : j <= higher[j].minute \div n + 1
    BY DEF Filled
  <1>3. ASSUME NEW p \in Nat, FullAt(n, cs, p)
        PROVE  \E j \in 1..Len(higher) : higher[j] = Aggregate(Stretch(cs, p, n))
    <2>a. FullAt(n, closed, p)
      BY <1>1, <1>3
    <2>1. \E j \in 1..Len(higher) : higher[j] = Aggregate(Stretch(closed, p, n))
      BY <2>a DEF Filled
    <2>2. Stretch(cs, p, n) = Stretch(closed, p, n)
      BY <1>1, <2>a
    <2> QED
      BY <2>1, <2>2
  <1>4. ASSUME NEW j \in 1..Len(higher)
        PROVE  \E p \in Nat : FullAt(n, cs, p) /\ higher[j] = Aggregate(Stretch(cs, p, n))
    <2>1. PICK p \in Nat : FullAt(n, closed, p) /\ higher[j] = Aggregate(Stretch(closed, p, n))
      BY DEF Filled
    <2>2. Stretch(cs, p, n) = Stretch(closed, p, n) /\ FullAt(n, cs, p)
      BY <1>1, <2>1
    <2> QED
      BY <2>1, <2>2
  <1> QED
    BY <1>2, <1>3, <1>4 DEF Filled

\* What is known of the candles of the whole windows.
LEMMA FilledFields ==
    ASSUME NEW n \in Nat \ {0, 1}, NEW closed, NEW m, UpTo(closed, m),
           NEW higher, Filled(n, closed, higher), NEW j \in 1..Len(higher)
    PROVE  higher[j].minute \in Nat /\ higher[j].minute % n = 0 /\ higher[j].minute + n <= m
  <1>1. PICK p \in Nat : FullAt(n, closed, p) /\ higher[j] = Aggregate(Stretch(closed, p, n))
    BY DEF Filled
  <1> DEFINE N == Len(closed)
             a == m - N + p
  <1>2. higher[j].minute = a /\ a \in Nat /\ a % n = 0 /\ p + n <= N
    BY <1>1, FullFields
  <1>3. N \in Nat /\ m \in Nat /\ N <= m /\ n \in Nat
    BY DEF UpTo
  <1> HIDE DEF N
  <1>4. a + n <= m
    BY <1>2, <1>3
  <1> QED
    BY <1>2, <1>4

\* One window is new, after all the others.
LEMMA FilledMore ==
    ASSUME NEW n \in Nat \ {0, 1}, NEW closed, NEW m, UpTo(closed, m), NEW c,
           NEW cs, ClosesWith(closed, c, cs), NEW higher, Filled(n, closed, higher),
           NEW q \in Nat, q + n = Len(closed) + 1, FullAt(n, cs, q),
           \A p \in Nat : FullAt(n, cs, p) => p + n <= Len(closed) \/ p = q,
           NEW agg \in CandleType, agg = Aggregate(Stretch(cs, q, n)), agg.minute + n = m + 1,
           agg.minute % n = 0
    PROVE  /\ Filled(n, cs, Append(higher, agg))
           /\ Len(higher) + 1 <= (m + 1) \div n
  <1> DEFINE H == Len(higher)
             longer == Append(higher, agg)
             w == agg.minute
  <1>1. /\ higher \in Seq(CandleType) /\ H \in Nat
        /\ \A i, j \in 1..H : i < j => higher[i].minute < higher[j].minute
        /\ \A j \in 1..H : j <= higher[j].minute \div n + 1
    BY DEF Filled
  <1>2. closed \in Seq(CandleType) /\ m \in Nat
    BY DEF UpTo
  <1>3. ASSUME NEW p \in Nat
        PROVE  /\ FullAt(n, closed, p) => FullAt(n, cs, p) /\ p + n <= Len(closed)
               /\ FullAt(n, cs, p) /\ p + n <= Len(closed) => FullAt(n, closed, p)
               /\ p + n <= Len(closed) => Stretch(cs, p, n) = Stretch(closed, p, n)
    BY <1>2, FullBefore
  <1>4. \A j \in 1..H : /\ higher[j].minute \in Nat /\ higher[j].minute % n = 0
                         /\ higher[j].minute < w
    <2> TAKE j \in 1..H
    <2>1. higher[j].minute \in Nat /\ higher[j].minute % n = 0 /\ higher[j].minute + n <= m
      BY FilledFields
    <2>2. w \in Nat
      BY CandleFields
    <2> QED
      BY <1>2, <2>1, <2>2
  <1>5. w \in Nat /\ w % n = 0 /\ w + n = m + 1 /\ w \div n \in Nat
    <2>1. w \in Nat
      BY CandleFields
    <2> QED
      BY <2>1, Remainder
  <1>6. H <= w \div n
    <2>1. CASE H = 0
      BY <1>5, <2>1
    <2>2. CASE H # 0
      <3> DEFINE v == higher[H].minute
      <3>1. H \in 1..H
        BY <1>1, <2>2
      <3>2. v \in Nat /\ v % n = 0 /\ v < w /\ H <= v \div n + 1
        BY <1>1, <1>4, <3>1
      <3> HIDE DEF v, w, H
      <3>3. v \div n + 1 <= w \div n
        <4>1. n \in Nat \ {0}
          OBVIOUS
        <4> QED
          BY ONLY <1>5, <3>2, <4>1, Multiples
      <3>4. v \div n \in Nat
        BY <3>2, Remainder
      <3> QED
        BY <1>1, <1>5, <3>2, <3>3, <3>4
    <2> QED
      BY <2>1, <2>2
  <1>7. (m + 1) \div n = w \div n + 1
    <2> DEFINE b == w \div n
    <2>1. b \in Nat /\ n * b = w
      BY <1>5, Multiples
    <2> HIDE DEF b, w
    <2>2. m + 1 = n * (b + 1) + 0 /\ b + 1 \in Nat /\ 0 \in 0..n - 1
      BY <1>5, <2>1
    <2>3. (n * (b + 1) + 0) \div n = b + 1
      BY <2>2, Divided
    <2> QED
      BY <2>1, <2>2, <2>3 DEF b
  <1>8. /\ longer \in Seq(CandleType) /\ Len(longer) = H + 1 /\ longer[H + 1] = agg
        /\ \A j \in 1..H : longer[j] = higher[j]
        /\ \A j \in 1..H + 1 : j \in 1..H \/ j = H + 1
        /\ H + 1 \in 1..H + 1 /\ \A j \in 1..H : j \in 1..H + 1
    BY <1>1
  <1> HIDE DEF longer
  <1>9. ASSUME NEW p \in Nat, FullAt(n, cs, p)
        PROVE  \E j \in 1..H + 1 : longer[j] = Aggregate(Stretch(cs, p, n))
    <2>1. CASE p + n <= Len(closed)
      <3>a. FullAt(n, closed, p) /\ Stretch(cs, p, n) = Stretch(closed, p, n)
        BY <1>3, <1>9, <2>1
      <3>1. PICK j \in 1..H : higher[j] = Aggregate(Stretch(closed, p, n))
        BY <3>a DEF Filled
      <3>2. longer[j] = Aggregate(Stretch(cs, p, n)) /\ j \in 1..H + 1
        BY <1>8, <3>a, <3>1
      <3> QED
        BY <3>2
    <2>2. CASE p = q
      BY <1>8, <2>2
    <2> QED
      BY <1>9, <2>1, <2>2
  <1>10. ASSUME NEW j \in 1..H + 1
         PROVE  \E p \in Nat : FullAt(n, cs, p) /\ longer[j] = Aggregate(Stretch(cs, p, n))
    <2>1. CASE j \in 1..H
      <3>1. PICK p \in Nat : FullAt(n, closed, p) /\ higher[j] = Aggregate(Stretch(closed, p, n))
        BY <2>1 DEF Filled
      <3>a. FullAt(n, cs, p) /\ Stretch(cs, p, n) = Stretch(closed, p, n)
        BY <1>3, <3>1
      <3>2. FullAt(n, cs, p) /\ longer[j] = Aggregate(Stretch(cs, p, n))
        BY <1>8, <2>1, <3>a, <3>1
      <3> QED
        BY <3>2
    <2>2. CASE j = H + 1
      BY <1>8, <2>2
    <2> QED
      BY ONLY <1>8, <1>10, <2>1, <2>2
  <1>11. ASSUME NEW i \in 1..H + 1, NEW j \in 1..H + 1, i < j
         PROVE  longer[i].minute < longer[j].minute
    <2>1. i \in 1..H
      BY <1>1, <1>11
    <2>2. CASE j \in 1..H
      <3>1. higher[i].minute < higher[j].minute
        BY <1>1, <1>11, <2>1, <2>2
      <3> QED
        BY <1>8, <2>1, <2>2, <3>1
    <2>3. CASE j = H + 1
      BY <1>4, <1>8, <2>1, <2>3
    <2> QED
      BY ONLY <1>8, <1>11, <2>2, <2>3
  <1>12. ASSUME NEW j \in 1..H + 1
         PROVE  j <= longer[j].minute \div n + 1
    <2>1. CASE j \in 1..H
      BY <1>1, <1>8, <2>1
    <2>2. CASE j = H + 1
      <3>1. longer[j].minute \div n = w \div n
        BY <1>8, <2>2
      <3> QED
        BY <1>1, <1>5, <1>6, <2>2, <3>1
    <2> QED
      BY ONLY <1>8, <1>12, <2>1, <2>2
  <1>13. Filled(n, cs, longer)
    BY <1>8, <1>9, <1>10, <1>11, <1>12 DEF Filled
  <1> QED
    BY <1>1, <1>5, <1>6, <1>7, <1>13 DEF longer

\* A minute closes, and with it the window it ends when that is whole; the
\* gaps that follow close none.
LEMMA FilledOn ==
    ASSUME NEW n \in Nat \ {0, 1}, NEW closed, NEW c \in CandleType, ~c.gap,
           NEW m, m = c.minute, UpTo(closed, m),
           NEW buffer, Filling(n, closed, m, buffer),
           NEW higher, Filled(n, closed, higher),
           NEW cs, ClosesWith(closed, c, cs)
    PROVE  LET whole == EndsBucket(n, c) /\ Len(buffer) + 1 = n
           IN /\ ~whole => Filled(n, cs, higher)
              /\ whole => /\ Filled(n, cs, Append(higher, Aggregate(Append(buffer, c))))
                          /\ Len(higher) + 1 <= (m + 1) \div n
  <1> DEFINE whole == EndsBucket(n, c) /\ Len(buffer) + 1 = n
             N == Len(closed)
             agg == Aggregate(Append(buffer, c))
  <1>1. closed \in Seq(CandleType) /\ N \in Nat /\ m \in Nat
    BY DEF UpTo
  <1>2. ASSUME NEW p \in Nat, FullAt(n, cs, p), p + n > N
        PROVE  p + n = N + 1 /\ whole
    <2> HIDE DEF N
    <2>1. N = Len(closed)
      BY DEF N
    <2>2. p + n = N + 1 /\ EndsBucket(n, c) /\ Len(buffer) + 1 = n
      BY <1>2, <2>1, NewWhole
    <2> QED
      BY <2>2
  <1>3. CASE ~whole
    <2>1. \A p \in Nat : FullAt(n, cs, p) => p + n <= N
      BY <1>1, <1>2, <1>3
    <2>2. Filled(n, cs, higher)
      BY <1>1, <2>1, FilledSame
    <2> QED
      BY <1>3, <2>2
  <1>4. CASE whole
    <2>1. PICK q \in Nat :
             /\ q + n = N + 1 /\ FullAt(n, cs, q) /\ Stretch(cs, q, n) = Append(buffer, c)
             /\ agg \in CandleType /\ agg.minute + n = m + 1
      <3> DEFINE k == Len(buffer)
      <3>1. N = Len(closed) /\ k = Len(buffer) /\ EndsBucket(n, c) /\ k + 1 = n
        BY <1>4
      <3> HIDE DEF N, k, agg
      <3>2. \E q \in Nat :
             /\ q + n = N + 1 /\ FullAt(n, cs, q)
             /\ Stretch(cs, q, n) = Append(buffer, c)
             /\ Aggregate(Append(buffer, c)) \in CandleType
             /\ Aggregate(Append(buffer, c)).minute + n = m + 1
        BY <3>1, LastWhole, SMTT(30)
      <3> QED
        BY <3>2 DEF agg
    <2>2. ASSUME NEW p \in Nat, FullAt(n, cs, p) PROVE p + n <= N \/ p = q
      <3>1. p + n > N => p + n = N + 1
        BY <1>2, <2>2
      <3>2. q + n = N + 1 /\ n \in Nat
        BY <2>1
      <3> HIDE DEF N
      <3> QED
        BY <1>1, <3>1, <3>2
    <2>3. agg.minute % n = 0 /\ agg = Aggregate(Stretch(cs, q, n))
      <3>1. cs[q + 1].minute % n = 0 /\ cs \in Seq(CandleType) /\ q + n <= Len(cs)
            /\ n \in Nat /\ 1 \in 1..n /\ n # 0
        BY <2>1 DEF FullAt, ClosesWith
      <3> DEFINE s == Stretch(cs, q, n)
      <3>2. s \in Seq(CandleType) /\ Len(s) = n /\ \A i \in 1..n : s[i] = cs[q + i]
        BY ONLY q \in Nat, <3>1, StretchIs
      <3>3. agg = Aggregate(s)
        BY <2>1
      <3> HIDE DEF s, agg
      <3>4. Aggregate(s).minute = s[1].minute
        BY <3>1, <3>2, AggregateFields
      <3> QED
        BY <3>1, <3>2, <3>3, <3>4 DEF s
    <2> HIDE DEF agg
    <2>4. Filled(n, cs, Append(higher, agg)) /\ Len(higher) + 1 <= (m + 1) \div n
      BY <2>1, <2>2, <2>3, FilledMore
    <2> QED
      BY <1>4, <2>4 DEF agg
  <1> QED
    BY <1>3, <1>4

\* What has closed when a tick of a later minute comes.
Rolled(closed, c, minute) == Append(closed, c) \o GapCandles(c, minute)

\* It is the minute that formed, then a gap for each minute without a tick.
LEMMA GapsClose ==
    ASSUME NEW closed, NEW c \in CandleType, UpTo(closed, c.minute),
           NEW minute \in Nat, minute > c.minute
    PROVE  /\ ClosesWith(closed, c, Rolled(closed, c, minute))
           /\ Len(Rolled(closed, c, minute)) = Len(closed) + (minute - c.minute)
           /\ minute = c.minute + 1 => /\ GapCandles(c, minute) = <<>>
                                      /\ Rolled(closed, c, minute) = Append(closed, c)
           /\ minute # c.minute + 1 => GapCandles(c, minute) # <<>>
  <1> DEFINE m == c.minute
             cs == Rolled(closed, c, minute)
             N == Len(closed)
             G == minute - m - 1
             gaps == GapCandles(c, minute)
             front == Append(closed, c)
  <1>1. closed \in Seq(CandleType) /\ N \in Nat /\ m \in Nat
    BY DEF UpTo
  <1>2. G \in Nat
    BY <1>1
  <1>3. /\ gaps \in Seq(CandleType) /\ Len(gaps) = G
        /\ \A k \in 1..G : gaps[k] = GapCandle(m + k, c.close)
    <2>1. gaps = [k \in 1..G |-> GapCandle(m + k, c.close)]
      BY DEF GapCandles
    <2> HIDE DEF gaps, G
    <2>2. \A k \in 1..G : GapCandle(m + k, c.close) \in CandleType
      <3>1. c.close \in Int
        BY CandleFields
      <3> TAKE k \in 1..G
      <3>2. (m + k) \in Nat
        BY <1>1, <1>2
      <3> QED
        BY ONLY <3>1, <3>2 DEF GapCandle, CandleType
    <2>3. gaps \in [1..G -> CandleType]
      BY <2>1, <2>2
    <2> QED
      BY <1>2, <2>1, <2>3
  <1>5. /\ front \in Seq(CandleType) /\ Len(front) = N + 1
        /\ \A i \in 1..N : front[i] = closed[i]
        /\ front[N + 1] = c
    BY <1>1
  <1>6. cs = front \o gaps
    BY DEF Rolled
  <1> HIDE DEF cs, gaps, front, G, N
  <1>4. \A k \in 1..G : gaps[k].gap
    <2> TAKE k \in 1..G
    <2>1. gaps[k] = GapCandle(m + k, c.close)
      BY <1>3
    <2> QED
      BY <2>1 DEF GapCandle
  <1>a. front \in Seq(CandleType) /\ gaps \in Seq(CandleType)
    BY <1>3, <1>5
  <1>7. cs \in Seq(CandleType) /\ Len(cs) = (N + 1) + G
    <2>1. cs \in Seq(CandleType) /\ Len(cs) = Len(front) + Len(gaps)
      BY <1>a, <1>6
    <2> QED
      BY <1>3, <1>5, <2>1
  <1>8. /\ \A i \in 1..N + 1 : cs[i] = front[i]
        /\ \A k \in 1..G : cs[(N + 1) + k] = gaps[k]
    <2>1. /\ \A i \in 1..Len(front) : cs[i] = front[i]
          /\ \A k \in 1..Len(gaps) : cs[Len(front) + k] = gaps[k]
      BY <1>a, <1>6
    <2> QED
      BY <1>3, <1>5, <2>1
  <1>b. \A i \in 1..N : i \in 1..N + 1
    BY <1>1
  <1>9. \A i \in 1..N : cs[i] = closed[i]
    BY <1>b, <1>5, <1>8
  <1>10. cs[N + 1] = c
    <2>1. N + 1 \in 1..N + 1
      BY <1>1
    <2> QED
      BY <1>5, <1>8, <2>1
  <1>11. ASSUME NEW i \in N + 2..Len(cs) PROVE cs[i].gap
    <2> DEFINE k == i - (N + 1)
    <2>1. k \in 1..G /\ (N + 1) + k = i
      BY <1>1, <1>2, <1>7
    <2> HIDE DEF k
    <2> QED
      BY <1>4, <1>8, <2>1
  <1>12. N + 1 <= Len(cs)
    BY <1>1, <1>2, <1>7
  <1>13. ClosesWith(closed, c, cs)
    BY <1>7, <1>9, <1>10, <1>11, <1>12 DEF ClosesWith, N
  <1>14. Len(cs) = N + (minute - m)
    <2>1. (N + 1) + G = N + (minute - m)
      BY ONLY <1>1, minute \in Nat DEF G
    <2> QED
      BY <1>7, <2>1
  <1>15. CASE minute = m + 1
    <2>1. G = 0
      BY <1>1, <1>15 DEF G
    <2>2. gaps = <<>>
      BY <1>3, <2>1
    <2>3. cs = front
      BY <1>5, <1>6, <2>2
    <2> QED
      BY <1>13, <1>14, <1>15, <2>2, <2>3 DEF N, gaps, front, cs
  <1>16. CASE minute # m + 1
    <2>1. G # 0
      BY <1>1, <1>16 DEF G
    <2>2. gaps # <<>>
      BY <1>3, <2>1
    <2> QED
      BY <1>13, <1>14, <1>16, <2>2 DEF N, gaps, cs
  <1> QED
    BY <1>15, <1>16

\* A step of the higher timeframe, as _append_closed_locked takes it.
LEMMA WindowRolls ==
    ASSUME NEW n \in Frames, NEW closed, NEW c \in CandleType, ~c.gap,
           NEW m, m = c.minute, UpTo(closed, m),
           Filling(n, closed, m, builder.buffer[n]), Filled(n, closed, builder.higher[n]),
           NEW minute \in 0..Minute(Horizon), minute > m,
           NEW cs, cs = Append(closed, c) \o GapCandles(c, minute)
    PROVE  /\ Filling(n, cs, minute, IF GapCandles(c, minute) = <<>>
                                     THEN BufferAfter(n, c) ELSE <<>>)
           /\ Filled(n, cs, HigherAfter(n, c))
  <1> DEFINE buffer == builder.buffer[n]
             higher == builder.higher[n]
             N == Len(closed)
             longer == Append(higher, Aggregate(Append(buffer, c)))
  <1>1. n \in Nat \ {0, 1} /\ MaxFrames[n] \in Nat \ {0}
        /\ Minute(Horizon) \div n <= MaxFrames[n]
    BY FramesAssumption, DayAssumption
  <1>2. closed \in Seq(CandleType) /\ N \in Nat /\ m \in Nat
    BY DEF UpTo
  <1>3. minute \in Nat /\ minute <= Minute(Horizon) /\ Minute(Horizon) \in Nat
    BY DayTyped
  <1>4. /\ ClosesWith(closed, c, cs)
        /\ minute = m + 1 => GapCandles(c, minute) = <<>> /\ cs = Append(closed, c)
        /\ minute # m + 1 => GapCandles(c, minute) # <<>> /\ cs[Len(cs)].gap
    <2>1. minute \in Nat /\ minute > m
      BY <1>3
    <2> HIDE DEF N
    <2>0. c \in CandleType /\ m = c.minute /\ UpTo(closed, c.minute)
      OBVIOUS
    <2>a. cs = Rolled(closed, c, minute)
      BY DEF Rolled
    <2>2. ClosesWith(closed, c, cs)
      BY ONLY <2>0, <2>a, <2>1, GapsClose
    <2>3. minute = m + 1 => GapCandles(c, minute) = <<>>
      BY ONLY <2>0, <2>1, GapsClose
    <2>4. minute = m + 1 => cs = Append(closed, c)
      BY ONLY <2>0, <2>a, <2>1, GapsClose
    <2>5. minute # m + 1 => GapCandles(c, minute) # <<>>
      BY ONLY <2>0, <2>1, GapsClose
    <2>6. ASSUME minute # m + 1 PROVE cs[Len(cs)].gap
      <3>1. Len(cs) = Len(closed) + (minute - m)
        BY ONLY <2>0, <2>a, <2>1, GapsClose
      <3>2. cs \in Seq(CandleType) /\ \A i \in Len(closed) + 2..Len(cs) : cs[i].gap
        BY <2>2 DEF ClosesWith
      <3>3. Len(cs) \in Len(closed) + 2..Len(cs)
        BY <1>2, <1>3, <2>1, <2>6, <3>1
      <3> QED
        BY <3>2, <3>3
    <2> QED
      BY <2>2, <2>3, <2>4, <2>5, <2>6
  <1>5. cs \in Seq(CandleType)
    BY <1>4 DEF ClosesWith
  <1>6. Joined(buffer, n, c) = Append(buffer, c)
    BY <1>1, JoinedIs
  <1>7. /\ buffer \in Seq(CandleType) /\ Len(buffer) \in Nat
        /\ Len(Append(buffer, c)) = Len(buffer) + 1
    <2>1. buffer \in Seq(CandleType) /\ Len(buffer) \in Nat
      BY <1>1, FillingIs
    <2> QED
      BY <2>1
  <1> HIDE DEF buffer, higher
  <1>8. Filling(n, cs, minute, IF GapCandles(c, minute) = <<>> THEN BufferAfter(n, c) ELSE <<>>)
    <2>1. CASE minute # m + 1
      <3>1. Filling(n, cs, minute, <<>>)
        BY <1>1, <1>3, <1>4, <1>5, <2>1, FillingNone
      <3> QED
        BY <1>4, <2>1, <3>1
    <2>2. CASE minute = m + 1 /\ EndsBucket(n, c)
      <3>1. minute % n = 0
        BY <2>2 DEF EndsBucket
      <3>2. Filling(n, cs, minute, <<>>)
        BY <1>1, <1>3, <1>5, <3>1, FillingNone
      <3>3. BufferAfter(n, c) = <<>>
        BY <2>2 DEF BufferAfter
      <3> QED
        BY <3>2, <3>3
    <2>3. CASE minute = m + 1 /\ ~EndsBucket(n, c)
      <3>1. Filling(n, Append(closed, c), m + 1, Append(buffer, c))
        BY <1>1, <2>3, FillingOn DEF buffer
      <3>2. BufferAfter(n, c) = Append(buffer, c)
        BY <1>6, <2>3 DEF BufferAfter, buffer
      <3> QED
        BY <1>4, <2>3, <3>1, <3>2
    <2> QED
      BY <2>1, <2>2, <2>3
  <1> DEFINE whole == EndsBucket(n, c) /\ Len(buffer) + 1 = n
  <1>9. /\ ~whole => Filled(n, cs, higher)
        /\ whole => Filled(n, cs, longer) /\ Len(higher) + 1 <= (m + 1) \div n
    <2>1. n \in Nat \ {0, 1} /\ Filling(n, closed, m, buffer) /\ Filled(n, closed, higher)
      BY <1>1 DEF buffer, higher
    <2> QED
      BY ONLY c \in CandleType, ~c.gap, m = c.minute, UpTo(closed, m), <1>4, <2>1, FilledOn
  <1>10. HigherAfter(n, c) = IF whole THEN Newest(longer, MaxFrames[n]) ELSE higher
    BY <1>6, <1>7 DEF HigherAfter, Complete, buffer, higher
  <1>11. whole => Newest(longer, MaxFrames[n]) = longer
    <2> SUFFICES ASSUME whole PROVE Len(longer) <= MaxFrames[n]
      BY DEF Newest
    <2>1. higher \in Seq(CandleType)
      BY DEF Filled, higher
    <2>2. Len(longer) = Len(higher) + 1 /\ Len(higher) \in Nat
      BY <2>1
    <2>3. (m + 1) \div n <= Minute(Horizon) \div n
      <3>1. m + 1 <= Minute(Horizon)
        BY <1>2, <1>3
      <3> DEFINE h == Minute(Horizon)
      <3> HIDE DEF h
      <3>2. m + 1 <= h /\ h \in Nat /\ m + 1 \in Nat /\ n \in Nat \ {0}
        BY <1>1, <1>2, <1>3, <3>1 DEF h
      <3> QED
        BY ONLY <3>2 DEF h
    <2>4. (m + 1) \div n \in Nat /\ Minute(Horizon) \div n \in Nat
      <3>1. n \in Nat \ {0} /\ m + 1 \in Nat
        BY <1>1, <1>2
      <3> QED
        BY <1>3, <3>1, Remainder
    <2>5. Len(higher) + 1 <= (m + 1) \div n
      BY <1>9
    <2> QED
      BY ONLY <1>1, <2>2, <2>3, <2>4, <2>5
  <1> HIDE DEF whole, longer
  <1> QED
    BY <1>8, <1>9, <1>10, <1>11 DEF higher

\* What the builder holds of the windows.
WindowsRight ==
    /\ DOMAIN builder.buffer = Frames /\ DOMAIN builder.higher = Frames
    /\ \A n \in Frames :
         /\ builder.forming = <<>> => builder.buffer[n] = <<>> /\ builder.higher[n] = <<>>
         /\ builder.forming # <<>> =>
              /\ Filling(n, builder.closed, builder.forming[1].minute, builder.buffer[n])
              /\ Filled(n, builder.closed, builder.higher[n])

LEMMA FilledNone ==
    ASSUME NEW n \in Nat \ {0, 1} PROVE Filled(n, <<>>, <<>>)
  <1> DEFINE none == <<>>
  <1>1. none \in Seq(CandleType) /\ Len(none) = 0 /\ 1..0 = {}
    OBVIOUS
  <1> HIDE DEF none
  <1>2. \A p \in Nat : ~FullAt(n, none, p)
    BY <1>1 DEF FullAt
  <1>3. Filled(n, none, none)
    BY <1>1, <1>2 DEF Filled
  <1> QED
    BY <1>3 DEF none

\* A step that gives the builder a tick keeps it.
LEMMA TakeKeepsWindows ==
    ASSUME DOMAIN builder = BuilderFields, BuilderRight, WindowsRight,
           NEW minute \in 0..Minute(Horizon), NEW t \in SentType, Take(minute, t)
    PROVE  WindowsRight'
  <1> DEFINE forming == builder.forming
             closed == builder.closed
             buffer == builder.buffer
             higher == builder.higher
  <1>1. OnTick(minute, t.price, t.volume)
    BY DEF Take
  <1>2. Built(taken, forming, closed)
    BY DEF BuilderRight
  <1>3. /\ DOMAIN buffer = Frames /\ DOMAIN higher = Frames
        /\ \A n \in Frames :
             /\ forming = <<>> => buffer[n] = <<>> /\ higher[n] = <<>>
             /\ forming # <<>> => Filling(n, closed, forming[1].minute, buffer[n])
                                   /\ Filled(n, closed, higher[n])
    BY DEF WindowsRight
  <1>4. Frames \subseteq Nat \ {0, 1}
    BY FramesAssumption
  <1>5. CASE Discard(minute)
    <2>1. builder' = [builder EXCEPT !.late = @ + 1]
      BY <1>5 DEF Discard
    <2>2. /\ builder'.forming = forming /\ builder'.closed = closed
          /\ builder'.buffer = buffer /\ builder'.higher = higher
      BY <2>1 DEF BuilderFields
    <2> QED
      BY <1>3, <2>2 DEF WindowsRight
  <1>6. CASE Start(minute, t.price, t.volume)
    <2> DEFINE d == Opened(minute, t.price, t.volume)
    <2>1. forming = <<>> /\ builder' = [builder EXCEPT !.forming = <<d>>]
      BY <1>6 DEF Start, HasForming
    <2>2. d.minute = minute /\ minute \in Nat
      BY DayTyped DEF Opened
    <2> HIDE DEF d
    <2>3. /\ builder'.forming = <<d>> /\ builder'.closed = closed
          /\ builder'.buffer = buffer /\ builder'.higher = higher
      BY <2>1 DEF BuilderFields
    <2>4. closed = <<>>
      <3> HIDE DEF forming, closed
      <3>1. taken # <<>> => \E f : forming = <<f>>
        BY <1>2 DEF Built
      <3>2. taken = <<>>
        BY <2>1, <3>1 DEF forming
      <3> QED
        BY <1>2, <3>2 DEF Built
    <2>5. ASSUME NEW n \in Frames
          PROVE  Filling(n, <<>>, minute, <<>>) /\ Filled(n, <<>>, <<>>)
      <3> DEFINE none == <<>>
      <3>1. none \in Seq(CandleType) /\ Len(none) = 0 /\ n \in Nat \ {0, 1}
        BY <1>4
      <3> HIDE DEF none
      <3>2. Filling(n, none, minute, <<>>)
        BY <2>2, <3>1, FillingNone
      <3>3. Filled(n, <<>>, <<>>)
        BY <3>1, FilledNone
      <3> QED
        BY <3>2, <3>3 DEF none
    <2>6. builder'.forming # <<>> /\ builder'.forming[1].minute = minute
      BY <2>2, <2>3
    <2> QED
      BY <1>3, <2>1, <2>3, <2>4, <2>5, <2>6 DEF WindowsRight
  <1>7. CASE Extend(minute, t.price, t.volume)
    <2> DEFINE d == Extended(forming[1], t.price, t.volume)
    <2>1. forming # <<>> /\ builder' = [builder EXCEPT !.forming = <<d>>]
      BY <1>7 DEF Extend, HasForming, Forming
    <2>2. d.minute = forming[1].minute
      <3>1. forming[1] \in CandleType
        BY <1>2, <2>1, BuiltUpTo
      <3> QED
        BY <3>1 DEF Extended, CandleType
    <2> HIDE DEF d
    <2>3. /\ builder'.forming = <<d>> /\ builder'.closed = closed
          /\ builder'.buffer = buffer /\ builder'.higher = higher
      BY <2>1 DEF BuilderFields
    <2>4. builder'.forming # <<>> /\ builder'.forming[1].minute = forming[1].minute
      BY <2>2, <2>3
    <2> QED
      BY <1>3, <2>1, <2>3, <2>4 DEF WindowsRight
  <1>8. CASE Roll(minute, t.price, t.volume)
    <2> DEFINE c == forming[1]
               m == c.minute
               d == Opened(minute, t.price, t.volume)
               cs == Append(closed, c) \o GapCandles(c, minute)
               bs == [n \in Frames |-> IF GapCandles(c, minute) = <<>>
                                        THEN BufferAfter(n, c) ELSE <<>>]
               hs == [n \in Frames |-> HigherAfter(n, c)]
    <2>1. /\ forming # <<>> /\ minute > m
          /\ builder' = [builder EXCEPT !.forming = <<d>>, !.closed = Newest(cs, MaxMinutes),
                                        !.buffer = bs, !.higher = hs]
      BY <1>8 DEF Roll, HasForming, Forming, OfLater
    <2>2. c \in CandleType /\ ~c.gap /\ UpTo(closed, m)
      BY <1>2, <2>1, BuiltUpTo
    <2>3. d.minute = minute /\ minute \in Nat /\ minute <= Minute(Horizon)
      BY DayTyped DEF Opened
    <2>4. Newest(cs, MaxMinutes) = cs
      <3>1. Len(cs) = Len(closed) + (minute - m)
        <4> HIDE DEF c, closed, forming
        <4>1. c \in CandleType /\ UpTo(closed, m) /\ minute \in Nat /\ minute > m
          BY <2>2, <2>1, <2>3
        <4>2. cs = Rolled(closed, c, minute)
          BY DEF Rolled
        <4> HIDE DEF cs
        <4> QED
          BY ONLY <4>1, <4>2, GapsClose
      <3>2. Len(closed) \in Nat /\ m \in Nat /\ Len(closed) <= m
        BY <2>2 DEF UpTo
      <3>3. Minute(Horizon) <= MaxMinutes /\ MaxMinutes \in Nat /\ Minute(Horizon) \in Nat
        BY DayAssumption, FramesAssumption, DayTyped
      <3>4. Len(cs) <= MaxMinutes
        <4> HIDE DEF cs, m
        <4> QED
          BY <2>1, <2>3, <3>1, <3>2, <3>3
      <3> HIDE DEF cs
      <3> QED
        BY <3>4 DEF Newest
    <2>5. ASSUME NEW n \in Frames
          PROVE  Filling(n, cs, minute, bs[n]) /\ Filled(n, cs, hs[n])
      <3>1. Filling(n, closed, m, builder.buffer[n]) /\ Filled(n, closed, builder.higher[n])
        BY <1>3, <2>1
      <3> HIDE DEF c, closed, forming
      <3>2. /\ c \in CandleType /\ ~c.gap /\ UpTo(closed, m) /\ minute > m
            /\ cs = Append(closed, c) \o GapCandles(c, minute)
        BY <2>1, <2>2
      <3>3. m = c.minute
        OBVIOUS
      <3> HIDE DEF m, cs
      <3>4. /\ Filling(n, cs, minute, IF GapCandles(c, minute) = <<>>
                                       THEN BufferAfter(n, c) ELSE <<>>)
            /\ Filled(n, cs, HigherAfter(n, c))
        BY ONLY n \in Frames, minute \in 0..Minute(Horizon), <3>1, <3>2, <3>3, WindowRolls
      <3> QED
        BY <3>4
    <2>6. DOMAIN bs = Frames /\ DOMAIN hs = Frames
      OBVIOUS
    <2> HIDE DEF d, cs, bs, hs
    <2>7. /\ builder'.forming = <<d>> /\ builder'.closed = cs
          /\ builder'.buffer = bs /\ builder'.higher = hs
      BY <2>1, <2>4 DEF BuilderFields
    <2>8. builder'.forming # <<>> /\ builder'.forming[1].minute = minute
      BY <2>3, <2>7
    <2> QED
      BY <2>5, <2>6, <2>7, <2>8 DEF WindowsRight
  <1> QED
    BY <1>1, <1>5, <1>6, <1>7, <1>8 DEF OnTick

LEMMA EmptyWindows == ASSUME builder = Empty PROVE WindowsRight
  BY DEF Empty, WindowsRight

\* What the consumer thread of the feed does to the builder.
LEMMA ProcessTickTakes ==
    ASSUME PathInv, ProcessTick
    PROVE  builder' = builder \/ \E minute \in 0..Minute(Horizon), t \in SentType : Take(minute, t)
  <1>1. PICK q \in Quotes :
          LET t == Sent(q)
              sent == [price |-> t.price, volume |-> t.volume, passed |-> Passes(t)]
          IN /\ t.ts >= 0
             /\ IF Passes(t) THEN Take(Minute(t.ts), sent) ELSE UNCHANGED <<builder, taken>>
    BY DEF ProcessTick
  <1> DEFINE t == Sent(q)
             sent == [price |-> t.price, volume |-> t.volume, passed |-> Passes(t)]
             minute == Minute(t.ts)
  <1>2. sent \in SentType
    <2>1. q.price \in Int /\ q.volume \in {None} \cup Nat
      BY DataPathAssumption
    <2>2. Passes(t) \in BOOLEAN
      BY DEF Passes
    <2> QED
      BY <2>1, <2>2 DEF SentType, Sent
  <1>3. minute \in 0..Minute(Horizon)
    <2>1. t.ts = clock - q.delay /\ q.delay \in Nat /\ t.ts >= 0
      BY <1>1, DataPathAssumption DEF Sent
    <2>2. clock \in 0..Horizon
      BY DEF PathInv, PathTypes
    <2>3. t.ts \in 0..Horizon
      BY <2>1, <2>2, DataPathAssumption
    <2> HIDE DEF t
    <2> QED
      BY <2>3, MinuteTyped
  <1>4. Passes(t) => Take(minute, sent)
    BY <1>1
  <1>5. ~Passes(t) => builder' = builder
    BY <1>1
  <1> HIDE DEF t, sent, minute
  <1> QED
    BY <1>2, <1>3, <1>4, <1>5

LEMMA NextKeepsWindows ==
    ASSUME PathInv, WindowsRight, [Next]_vars PROVE WindowsRight'
  <1>1. DOMAIN builder = BuilderFields /\ BuilderRight
    BY DEF PathInv, PathTypes
  <1>2. ASSUME builder' = builder PROVE WindowsRight'
    BY <1>2 DEF WindowsRight
  <1>3. CASE ProcessTick
    BY <1>1, <1>2, <1>3, ProcessTickTakes, TakeKeepsWindows
  <1>4. CASE BridgeTakes
    <2>1. bridge # <<>> /\ Take(Minute(clock), bridge[1])
      BY <1>4 DEF BridgeTakes
    <2>2. bridge[1] \in SentType /\ Minute(clock) \in 0..Minute(Horizon)
      BY <2>1, MinuteTyped DEF PathInv, PathTypes
    <2> QED
      BY <1>1, <2>1, <2>2, TakeKeepsWindows
  <1>5. CASE Restart
    <2>1. builder' = Empty
      BY <1>5 DEF Restart
    <2> QED
      BY <2>1 DEF Empty, WindowsRight
  <1>6. CASE Broadcast \/ Cycle \/ Stop \/ Advance
    BY <1>2, <1>6 DEF Broadcast, Cycle, Stop, StopBegins, StopFeed, StopPipelines, Archive, Advance
  <1>7. CASE UNCHANGED vars
    BY <1>2, <1>7 DEF vars
  <1> QED
    BY <1>3, <1>4, <1>5, <1>6, <1>7 DEF Next

\* What a whole window shows is what its minutes show together.
LEMMA VolumeUnion ==
    ASSUME NEW seq \in Seq(TickType), NEW S, NEW T, S \cap T = {}
    PROVE  /\ VolumeUpTo(seq, S)[Len(seq)] \in Nat /\ VolumeUpTo(seq, T)[Len(seq)] \in Nat
           /\ VolumeUpTo(seq, S \cup T)[Len(seq)]
                = VolumeUpTo(seq, S)[Len(seq)] + VolumeUpTo(seq, T)[Len(seq)]
  <1> DEFINE f == VolumeUpTo(seq, S)
             g == VolumeUpTo(seq, T)
             h == VolumeUpTo(seq, S \cup T)
             len == Len(seq)
             v(n) == Clamp(seq[n].volume)
             P == {n \in Nat : n <= len => h[n] = f[n] + g[n]}
  <1>1. /\ len \in Nat /\ f[0] = 0 /\ g[0] = 0 /\ h[0] = 0
        /\ \A n \in 0..len : f[n] \in Nat /\ g[n] \in Nat
    BY VolumeRuns
  <1>2. ASSUME NEW n \in 1..len
        PROVE  /\ f[n] = f[n - 1] + (IF n \in S THEN v(n) ELSE 0)
               /\ g[n] = g[n - 1] + (IF n \in T THEN v(n) ELSE 0)
               /\ h[n] = h[n - 1] + (IF n \in S \cup T THEN v(n) ELSE 0)
               /\ v(n) \in Nat
    <2>1. seq[n] \in TickType
      OBVIOUS
    <2>2. v(n) \in Nat
      BY <2>1, TickFields
    <2> HIDE DEF f, g, h, v
    <2> QED
      BY <2>2, VolumeRuns DEF f, g, h, v
  <1> HIDE DEF f, g, h, v, len
  <1>3. 0 \in P
    BY <1>1
  <1>4. ASSUME NEW n \in Nat, n \in P PROVE n + 1 \in P
    <2>1. SUFFICES ASSUME n + 1 <= len PROVE h[n + 1] = f[n + 1] + g[n + 1]
      OBVIOUS
    <2> DEFINE k == n + 1
    <2>2. k \in 1..len /\ k - 1 = n /\ n \in 0..len /\ n <= len
      BY <1>1, <2>1
    <2>3. h[n] = f[n] + g[n] /\ f[n] \in Nat /\ g[n] \in Nat
      BY <1>1, <1>4, <2>2
    <2> HIDE DEF k
    <2>4. /\ f[k] = f[n] + (IF k \in S THEN v(k) ELSE 0)
          /\ g[k] = g[n] + (IF k \in T THEN v(k) ELSE 0)
          /\ h[k] = h[n] + (IF k \in S \cup T THEN v(k) ELSE 0)
          /\ v(k) \in Nat
      BY <1>2, <2>2
    <2>5. h[k] = f[k] + g[k]
      <3>1. CASE k \in S
        BY <2>3, <2>4, <3>1
      <3>2. CASE k \in T
        BY <2>3, <2>4, <3>2
      <3>3. CASE k \notin S /\ k \notin T
        BY <2>3, <2>4, <3>3
      <3> QED
        BY <3>1, <3>2, <3>3
    <2> QED
      BY <2>5 DEF k
  <1> HIDE DEF P
  <1>5. \A n \in Nat : n \in P
    BY <1>3, <1>4, FromZero
  <1>6. h[len] = f[len] + g[len] /\ len \in 0..len
    BY <1>1, <1>5 DEF P
  <1> QED
    BY <1>1, <1>6 DEF f, g, h, len

\* The ticks that count for a minute come before those of a later one.
LEMMA CountedInOrder ==
    ASSUME NEW seq \in Seq(TickType), NEW l \in Int, NEW m \in Int, l < m,
           NEW i \in CountedIn(seq, l), NEW j \in CountedIn(seq, m)
    PROVE  i < j
  <1>1. /\ i \in 1..Len(seq) /\ seq[i].minute = l /\ j \in 1..Len(seq) /\ seq[j].minute = m
        /\ \A o \in 1..i - 1 : seq[o].minute <= l
    BY DEF CountedIn
  <1>2. SUFFICES ASSUME j <= i PROVE FALSE
    BY <1>1
  <1>3. j # i
    BY <1>1
  <1>4. j \in 1..i - 1
    BY <1>1, <1>2, <1>3
  <1> QED
    BY <1>1, <1>4

\* The ticks of the k minutes from a on.
Within(seq, a, k) == {i \in 1..Len(seq) : \E m \in a..a + k - 1 : i \in CountedIn(seq, m)}

LEMMA WithinGrows ==
    ASSUME NEW seq \in Seq(TickType), NEW a \in Nat, NEW k \in Nat
    PROVE  /\ Within(seq, a, 0) = {}
           /\ Within(seq, a, k + 1) = Within(seq, a, k) \cup CountedIn(seq, a + k)
           /\ Within(seq, a, k) \cap CountedIn(seq, a + k) = {}
  <1>1. a..a + 0 - 1 = {}
    OBVIOUS
  <1>2. a..a + (k + 1) - 1 = a..a + k - 1 \cup {a + k}
    OBVIOUS
  <1>3. \A m \in a..a + k - 1 : m < a + k /\ m \in Int
    OBVIOUS
  <1>4. Within(seq, a, 0) = {}
    BY <1>1 DEF Within
  <1>5. Within(seq, a, k + 1) = Within(seq, a, k) \cup CountedIn(seq, a + k)
    <2> DEFINE R == a..a + k - 1
               Q == a..a + (k + 1) - 1
               l == a + k
    <2>1. \A m : m \in Q <=> m \in R \/ m = l
      BY <1>2
    <2> HIDE DEF R, Q, l
    <2>2. \A i \in CountedIn(seq, l) : i \in 1..Len(seq)
      BY DEF CountedIn
    <2>3. {i \in 1..Len(seq) : \E m \in Q : i \in CountedIn(seq, m)}
            = {i \in 1..Len(seq) : \E m \in R : i \in CountedIn(seq, m)} \cup CountedIn(seq, l)
      BY <2>1, <2>2
    <2> QED
      BY <2>3 DEF R, Q, l, Within
  <1>6. Within(seq, a, k) \cap CountedIn(seq, a + k) = {}
    <2> SUFFICES ASSUME NEW i \in Within(seq, a, k), i \in CountedIn(seq, a + k) PROVE FALSE
      OBVIOUS
    <2>1. PICK m \in a..a + k - 1 : i \in CountedIn(seq, m)
      BY DEF Within
    <2>2. seq[i].minute = m /\ seq[i].minute = a + k
      BY <2>1 DEF CountedIn
    <2> QED
      BY <1>3, <2>2
  <1> QED
    BY <1>4, <1>5, <1>6

LEMMA AggregateShows ==
    ASSUME NEW seq \in Seq(TickType), NEW a \in Nat, NEW cs \in Seq(CandleType),
           NEW n \in Nat \ {0}, n = Len(cs),
           \A k \in 1..n : Shows(seq, CountedIn(seq, a + k - 1), cs[k])
    PROVE  Shows(seq, Within(seq, a, n), Aggregate(cs))
  <1> DEFINE agg == Aggregate(cs)
             S == Within(seq, a, n)
             C(k) == CountedIn(seq, a + k - 1)
  <1>1. /\ agg \in CandleType /\ ~agg.gap
        /\ agg.open = cs[1].open /\ agg.close = cs[n].close
        /\ agg.high = HighOf(cs) /\ agg.low = LowOf(cs) /\ agg.volume = TotalOf(cs)[n]
    BY AggregateFields
  <1>2. \A k \in 1..n : Shows(seq, C(k), cs[k])
    OBVIOUS
  <1>3. 1 \in 1..n /\ n \in 1..n
    OBVIOUS
  <1>4. \A k \in 1..n : \A i \in C(k) : i \in S
    <2> TAKE k \in 1..n
    <2>1. a + k - 1 \in a..a + n - 1
      OBVIOUS
    <2>2. \A i \in C(k) : i \in 1..Len(seq)
      BY DEF CountedIn
    <2> QED
      BY <2>1, <2>2 DEF Within
  <1>5. ASSUME NEW i \in S PROVE \E k \in 1..n : i \in C(k)
    <2>1. PICK m \in a..a + n - 1 : i \in CountedIn(seq, m)
      BY DEF Within
    <2> DEFINE k == m - a + 1
    <2>2. k \in 1..n /\ a + k - 1 = m
      OBVIOUS
    <2> QED
      BY <2>1, <2>2
  <1>6. \A j, k \in 1..n : \A i \in C(j), o \in C(k) : j < k => i < o
    <2> SUFFICES ASSUME NEW j \in 1..n, NEW k \in 1..n, NEW i \in C(j), NEW o \in C(k), j < k
                 PROVE  i < o
      OBVIOUS
    <2>1. a + j - 1 < a + k - 1 /\ a + j - 1 \in Int /\ a + k - 1 \in Int
      OBVIOUS
    <2> QED
      BY <2>1, CountedInOrder
  <1>7. \A k \in 1..n : \A i \in C(k) : i \in Int /\ seq[i].price \in Int
    <2> SUFFICES ASSUME NEW k \in 1..n, NEW i \in C(k) PROVE i \in Int /\ seq[i].price \in Int
      OBVIOUS
    <2>1. i \in 1..Len(seq)
      BY DEF CountedIn
    <2>2. seq[i] \in TickType
      BY <2>1
    <2> QED
      BY <2>1, <2>2, TickFields
  <1> HIDE DEF agg, S, C
  <1>8. \E i \in S : agg.open = seq[i].price /\ \A j \in S : i <= j
    <2>1. PICK i \in C(1) : cs[1].open = seq[i].price /\ \A j \in C(1) : i <= j
      BY <1>2, <1>3 DEF Shows
    <2>2. ASSUME NEW j \in S PROVE i <= j
      <3>1. PICK k \in 1..n : j \in C(k)
        BY <1>5
      <3>2. CASE k = 1
        BY <2>1, <3>1, <3>2
      <3>3. CASE k # 1
        <4>1. 1 < k
          BY <3>3
        <4>2. i < j
          BY <1>3, <1>6, <3>1, <4>1
        <4> QED
          BY <1>3, <1>7, <3>1, <4>2
      <3> QED
        BY <3>2, <3>3
    <2> QED
      BY <1>1, <1>3, <1>4, <2>1, <2>2
  <1>9. \E i \in S : agg.close = seq[i].price /\ \A j \in S : j <= i
    <2>1. PICK i \in C(n) : cs[n].close = seq[i].price /\ \A j \in C(n) : j <= i
      BY <1>2, <1>3 DEF Shows
    <2>2. ASSUME NEW j \in S PROVE j <= i
      <3>1. PICK k \in 1..n : j \in C(k)
        BY <1>5
      <3>2. CASE k = n
        BY <2>1, <3>1, <3>2
      <3>3. CASE k # n
        <4>1. k < n
          BY <3>3
        <4>2. j < i
          BY <1>3, <1>6, <3>1, <4>1
        <4> QED
          BY <1>3, <1>7, <3>1, <4>2
      <3> QED
        BY <3>2, <3>3
    <2> QED
      BY <1>1, <1>3, <1>4, <2>1, <2>2
  <1>10. /\ \E k \in 1..n : agg.high = cs[k].high
         /\ \A k \in 1..n : cs[k].high <= agg.high
         /\ \E k \in 1..n : agg.low = cs[k].low
         /\ \A k \in 1..n : agg.low <= cs[k].low
    BY <1>1, HighIs, LowIs
  <1>11. \A k \in 1..n : cs[k].high \in Int /\ cs[k].low \in Int /\ cs[k].volume \in Nat
    <2> TAKE k \in 1..n
    <2>1. cs[k] \in CandleType
      OBVIOUS
    <2> QED
      BY <2>1, CandleFields
  <1>12. \E i \in S : agg.high = seq[i].price
    <2>1. PICK k \in 1..n : agg.high = cs[k].high
      BY <1>10
    <2>2. PICK i \in C(k) : cs[k].high = seq[i].price
      BY <1>2 DEF Shows
    <2> QED
      BY <1>4, <2>1, <2>2
  <1>13. \E i \in S : agg.low = seq[i].price
    <2>1. PICK k \in 1..n : agg.low = cs[k].low
      BY <1>10
    <2>2. PICK i \in C(k) : cs[k].low = seq[i].price
      BY <1>2 DEF Shows
    <2> QED
      BY <1>4, <2>1, <2>2
  <1>14. ASSUME NEW i \in S PROVE seq[i].price <= agg.high /\ agg.low <= seq[i].price
    <2>1. PICK k \in 1..n : i \in C(k)
      BY <1>5
    <2>2. seq[i].price <= cs[k].high /\ cs[k].low <= seq[i].price
      BY <1>2, <2>1 DEF Shows
    <2>3. agg.high \in Int /\ agg.low \in Int
      BY <1>1, CandleFields
    <2>4. cs[k].high <= agg.high /\ agg.low <= cs[k].low
      BY <1>10
    <2>5. cs[k].high \in Int /\ cs[k].low \in Int /\ seq[i].price \in Int
      BY <1>7, <1>11, <2>1
    <2> QED
      BY <2>2, <2>3, <2>4, <2>5
  <1>15. agg.volume = VolumeUpTo(seq, S)[Len(seq)]
    <2> DEFINE V(T) == VolumeUpTo(seq, T)[Len(seq)]
               W(k) == Within(seq, a, k)
               P == {k \in Nat : k <= n => TotalOf(cs)[k] = V(W(k))}
    <2>1. /\ TotalOf(cs)[0] = 0
          /\ \A k \in 1..n : TotalOf(cs)[k] = TotalOf(cs)[k - 1] + cs[k].volume
      BY TotalRuns
    <2>2. 0 \in P
      <3>1. Len(seq) \in 0..Len(seq)
        OBVIOUS
      <3>2. W(0) = {}
        BY WithinGrows
      <3>3. V({}) = 0
        BY <3>1, NoVolume
      <3> HIDE DEF V, W
      <3> QED
        BY <2>1, <3>2, <3>3
    <2>3. ASSUME NEW k \in Nat, k \in P PROVE k + 1 \in P
      <3>1. SUFFICES ASSUME k + 1 <= n PROVE TotalOf(cs)[k + 1] = V(W(k + 1))
        OBVIOUS
      <3>2. k + 1 \in 1..n /\ k + 1 - 1 = k /\ a + (k + 1) - 1 = a + k /\ k <= n
        BY <3>1
      <3>3. W(k + 1) = W(k) \cup CountedIn(seq, a + k) /\ W(k) \cap CountedIn(seq, a + k) = {}
        BY WithinGrows
      <3>4. V(W(k + 1)) = V(W(k)) + V(CountedIn(seq, a + k))
        BY <3>3, VolumeUnion
      <3>5. C(k + 1) = CountedIn(seq, a + k)
        BY <3>2 DEF C
      <3>6. cs[k + 1].volume = V(CountedIn(seq, a + k))
        BY <1>2, <3>2, <3>5 DEF Shows
      <3>7. TotalOf(cs)[k] = V(W(k))
        BY <2>3, <3>2
      <3> HIDE DEF V, W
      <3> QED
        BY <2>1, <3>2, <3>4, <3>6, <3>7
    <2> HIDE DEF P
    <2>4. \A k \in Nat : k \in P
      BY <2>2, <2>3, FromZero
    <2>5. TotalOf(cs)[n] = V(W(n))
      BY <2>4 DEF P
    <2> QED
      BY <1>1, <2>5 DEF S
  <1>16. Shows(seq, S, agg)
    BY <1>1, <1>8, <1>9, <1>12, <1>13, <1>14, <1>15 DEF Shows
  <1> QED
    BY <1>16 DEF S, agg

\* A closed minute is a gap when no tick counted for it.
LEMMA GapIs ==
    ASSUME NEW seq, NEW m, NEW c, Right(seq, m, c)
    PROVE  c.gap <=> CountedIn(seq, m) = {}
  <1>1. CASE CountedIn(seq, m) = {}
    <2>1. Skipped(seq, m, c)
      BY <1>1 DEF Right
    <2>2. \E price : c = GapCandle(m, price)
      BY <2>1 DEF Skipped
    <2>3. c.gap
      BY <2>2 DEF GapCandle
    <2> QED
      BY <1>1, <2>3
  <1>2. CASE CountedIn(seq, m) # {}
    <2>1. ~c.gap
      BY <1>2 DEF Right, Shows
    <2> QED
      BY <1>2, <2>1
  <1> QED
    BY <1>1, <1>2

\* The closed minutes are right, from the first on, and the b-th window of
\* the day begins after p of them.
Placed(seq, closed, n, over, first, b, p) ==
    /\ n \in Nat \ {0, 1} /\ seq \in Seq(TickType) /\ closed \in Seq(CandleType)
    /\ first \in Nat /\ first + Len(closed) <= Minute(Horizon)
    /\ \A i \in 1..Len(closed) : Right(seq, first + i - 1, closed[i])
    /\ over = first..first + Len(closed) - 1
    /\ b \in Nat /\ p \in Nat /\ n * b = first + p

\* That window is whole where the closed minutes fill it, and what is made of
\* those is its candle.
LEMMA FullMeans ==
    ASSUME NEW seq, NEW closed, NEW n, NEW over, NEW first, NEW b, NEW p,
           Placed(seq, closed, n, over, first, b, p)
    PROVE  /\ FullAt(n, closed, p) => b \in Whole(n, over, Counted(seq))
           /\ b \in Whole(n, over, Counted(seq)) => FullAt(n, closed, p)
           /\ FullAt(n, closed, p) =>
                Aggregate(Stretch(closed, p, n)) = WindowCandle(seq, n, b)
  <1> DEFINE N == Len(closed)
             a == n * b
  <1>0. /\ n \in Nat \ {0, 1} /\ seq \in Seq(TickType) /\ closed \in Seq(CandleType)
        /\ first + N <= Minute(Horizon) /\ b \in Nat /\ p \in Nat
        /\ over = first..first + N - 1 /\ a = n * b
        /\ \A i \in 1..N : Right(seq, first + i - 1, closed[i])
    BY DEF Placed
  <1>1. /\ N \in Nat /\ n \in Nat /\ n > 1 /\ first \in Nat /\ p \in Nat /\ a \in Nat
        /\ a = first + p /\ Minute(Horizon) \in Nat /\ first + N <= Minute(Horizon)
    BY <1>0, DayTyped DEF Placed
  <1>2. a % n = 0 /\ a \div n = b
    BY <1>0, WindowStart
  <1>4. Window(n, b) = a..a + n - 1
    BY DEF Window
  <1> HIDE DEF N, a
  <1> DEFINE day == Minute(Horizon)
             ticksOf == Counted(seq)
  <1>3. \A m \in 0..day : ticksOf[m] = CountedIn(seq, m)
    <2>1. DOMAIN seq = 1..Len(seq)
      OBVIOUS
    <2> QED
      BY <2>1 DEF Counted, CountedIn
  <1>5. ASSUME NEW i \in 1..N
        PROVE  /\ Right(seq, first + i - 1, closed[i])
               /\ closed[i].minute = first + i - 1
               /\ closed[i].gap <=> CountedIn(seq, first + i - 1) = {}
    <2>1. Right(seq, first + i - 1, closed[i])
      BY <1>0
    <2> QED
      BY <2>1, GapIs DEF Right
  <1> HIDE DEF ticksOf, day
  <1>6. ASSUME NEW i \in 1..n, NEW o, o = p + i, p + n <= N
        PROVE  /\ o \in 1..N /\ first + o - 1 = a + i - 1
               /\ a + i - 1 \in 0..day /\ a + i - 1 \in over /\ a + i - 1 \in a..a + n - 1
    BY <1>0, <1>1, <1>6 DEF day
  <1>7. ASSUME FullAt(n, closed, p) PROVE b \in Whole(n, over, ticksOf)
    <2>1. p + n <= N /\ \A i \in 1..n : ~closed[p + i].gap
      BY <1>7 DEF FullAt, N
    <2>2. ASSUME NEW m \in a..a + n - 1 PROVE m \in over /\ ticksOf[m] # {}
      <3> DEFINE i == m - a + 1
      <3>1. i \in 1..n /\ a + i - 1 = m
        BY <1>1
      <3> HIDE DEF i
      <3> DEFINE o == p + i
      <3>2. o \in 1..N /\ first + o - 1 = m /\ m \in 0..day /\ m \in over
        BY <1>6, <2>1, <3>1
      <3>3. ~closed[o].gap
        BY <2>1, <3>1
      <3> HIDE DEF o
      <3>4. CountedIn(seq, first + o - 1) # {}
        BY <1>5, <3>2, <3>3
      <3> QED
        BY <1>3, <3>2, <3>4
    <2>3. b \in 0..day \div n
      <3>1. a <= day
        BY <1>1, <2>1 DEF day
      <3>2. a \in Nat /\ day \in Nat /\ n \in Nat \ {0}
        BY <1>1 DEF day
      <3>3. a \div n <= day \div n
        BY ONLY <3>1, <3>2
      <3>4. day \div n \in Nat
        BY <3>2, Remainder
      <3> QED
        BY <1>0, <1>2, <3>3, <3>4
    <2> QED
      BY <1>4, <2>2, <2>3 DEF Whole, day
  <1>8. ASSUME b \in Whole(n, over, ticksOf) PROVE FullAt(n, closed, p)
    <2>1. \A m \in a..a + n - 1 : m \in over /\ ticksOf[m] # {}
      BY <1>4, <1>8 DEF Whole
    <2>2. p + n <= N
      <3> DEFINE m == a + n - 1
      <3>1. m \in a..a + n - 1
        BY <1>1
      <3>2. m \in first..first + N - 1
        BY <1>0, <2>1, <3>1
      <3>3. m <= first + N - 1
        BY <1>1, <3>2
      <3> QED
        BY <1>1, <3>3
    <2>3. ASSUME NEW i \in 1..n PROVE ~closed[p + i].gap
      <3> DEFINE o == p + i
                 m == a + i - 1
      <3>1. /\ o \in 1..N /\ first + o - 1 = m /\ m \in 0..day /\ m \in a..a + n - 1
        BY <1>6, <2>2
      <3>2. ticksOf[m] # {}
        BY <2>1, <3>1
      <3> HIDE DEF o, m
      <3>3. CountedIn(seq, first + o - 1) # {}
        BY <1>3, <3>1, <3>2
      <3>4. ~closed[o].gap
        BY <1>5, <3>1, <3>3
      <3> QED
        BY <3>4 DEF o
    <2>4. closed[p + 1].minute % n = 0
      <3> DEFINE o == p + 1
      <3>1. 1 \in 1..n
        BY <1>1
      <3>2. o \in 1..N /\ first + o - 1 = a + 1 - 1
        BY <1>6, <2>2, <3>1
      <3>3. a + 1 - 1 = a
        BY <1>1
      <3> HIDE DEF o
      <3>4. closed[o].minute = a
        BY <1>5, <3>2, <3>3
      <3> QED
        BY <1>2, <3>4 DEF o
    <2> QED
      BY <1>0, <2>2, <2>3, <2>4 DEF FullAt, N
  <1>9. ASSUME FullAt(n, closed, p)
        PROVE  Aggregate(Stretch(closed, p, n)) = WindowCandle(seq, n, b)
    <2> DEFINE cs == Stretch(closed, p, n)
               S == Within(seq, a, n)
               agg == Aggregate(cs)
    <2>1. p + n <= N /\ \A i \in 1..n : ~closed[p + i].gap
      BY <1>9 DEF FullAt, N
    <2>2. cs \in Seq(CandleType) /\ Len(cs) = n /\ \A i \in 1..n : cs[i] = closed[p + i]
      <3>1. closed \in Seq(CandleType) /\ p \in Nat /\ n \in Nat /\ p + n <= Len(closed)
        BY <1>0, <1>1, <2>1 DEF N
      <3> QED
        BY ONLY <3>1, StretchIs
    <2> HIDE DEF cs
    <2>3. ASSUME NEW k \in 1..n
          PROVE  Shows(seq, CountedIn(seq, a + k - 1), cs[k]) /\ cs[k].minute = a + k - 1
      <3> DEFINE o == p + k
      <3>1. o \in 1..N /\ first + o - 1 = a + k - 1
        BY <1>6, <2>1
      <3>2. cs[k] = closed[o] /\ ~closed[o].gap
        BY <2>1, <2>2
      <3> HIDE DEF o
      <3>3. Right(seq, first + o - 1, closed[o]) /\ CountedIn(seq, first + o - 1) # {}
        BY <1>5, <3>1, <3>2
      <3> QED
        BY <3>1, <3>2, <3>3 DEF Right
    <2>4. Shows(seq, S, agg)
      <3>1. n \in Nat \ {0} /\ n = Len(cs) /\ a \in Nat
        BY <1>1, <2>2
      <3> QED
        BY <1>0, <2>2, <2>3, <3>1, AggregateShows
    <2>5. agg.minute = a
      <3>1. 1 \in 1..n /\ a + 1 - 1 = a /\ Len(cs) # 0
        BY <1>1, <2>2
      <3>2. agg.minute = cs[1].minute
        BY <2>2, <3>1, AggregateFields
      <3> QED
        BY <2>3, <3>1, <3>2
    <2>6. S \in SUBSET (1..Len(seq))
      BY DEF Within, CountedIn
    <2>7. UNION {ticksOf[m] : m \in Window(n, b)} = S
      <3>1. \A m \in a..a + n - 1 : m \in 0..day
        BY <1>1, <2>1 DEF day
      <3>2. \A m \in a..a + n - 1 : ticksOf[m] = CountedIn(seq, m)
        BY <1>3, <3>1
      <3> DEFINE R == a..a + n - 1
      <3>3. Window(n, b) = R /\ \A m \in R : ticksOf[m] = CountedIn(seq, m)
        BY <1>4, <3>2
      <3>4. \A i : i \in S <=> \E m \in R : i \in CountedIn(seq, m)
        BY DEF Within, CountedIn
      <3> HIDE DEF R, S
      <3>5. \A i : i \in UNION {ticksOf[m] : m \in R} <=> \E m \in R : i \in ticksOf[m]
        OBVIOUS
      <3>6. UNION {ticksOf[m] : m \in R} = S
        BY <3>3, <3>4, <3>5
      <3> QED
        BY <3>3, <3>6
    <2> HIDE DEF S, agg
    <2>8. agg = CandleOf(seq, S, a)
      BY <1>0, <2>4, <2>5, <2>6, ShowsIs
    <2>9. WindowCandle(seq, n, b) = CandleOf(seq, S, a)
      BY <2>7 DEF WindowCandle, ticksOf, a
    <2> QED
      BY <2>8, <2>9 DEF agg, cs
  <1> QED
    BY <1>7, <1>8, <1>9 DEF ticksOf

\* What is filled is what the property says of the windows.
LEMMA FilledFollows ==
    ASSUME NEW n \in Nat \ {0, 1}, NEW seq, NEW forming, NEW closed, Built(seq, forming, closed),
           seq # <<>>, NEW higher, Filled(n, closed, higher)
    PROVE  LET whole == Whole(n, Over(seq, Counted(seq)), Counted(seq))
               at == DOMAIN higher
           IN /\ \A b \in whole : \E k \in at : higher[k] = WindowCandle(seq, n, b)
              /\ \A k \in at : \E b \in whole : higher[k] = WindowCandle(seq, n, b)
              /\ \A j, k \in at : j < k => higher[j].minute < higher[k].minute
  <1> DEFINE over == Over(seq, Counted(seq))
             whole == Whole(n, over, Counted(seq))
             first == seq[1].minute
             N == Len(closed)
  <1>1. seq \in Seq(TickType)
    BY DEF Built
  <1>2. PICK f : /\ f.minute \in first..Minute(Horizon)
                 /\ \A i \in 1..Len(seq) : seq[i].minute <= f.minute
                 /\ Shows(seq, CountedIn(seq, f.minute), f)
                 /\ closed \in Seq(CandleType)
                 /\ N = f.minute - first
                 /\ \A i \in 1..N : Right(seq, first + i - 1, closed[i])
    BY DEF Built
  <1> DEFINE fm == f.minute
  <1>3. first \in Nat /\ fm \in Nat /\ fm <= Minute(Horizon) /\ N \in Nat /\ N = fm - first
    <2>1. seq[1] \in TickType
      BY <1>1
    <2>2. first \in 0..Minute(Horizon)
      BY <2>1, TickFields
    <2> QED
      BY <1>2, <2>2, DayTyped
  <1>4. over = first..fm - 1
    <2>1. CountedIn(seq, f.minute) # {}
      BY <1>2 DEF Shows
    <2> QED
      BY <1>1, <1>2, <2>1, OverIs
  <1>5. DOMAIN higher = 1..Len(higher) /\ n \in Nat /\ n > 1
    BY DEF Filled
  <1> HIDE DEF first, N, fm, over, whole
  <1>6. over = first..first + N - 1 /\ first + N <= Minute(Horizon) /\ N = Len(closed)
    <2>1. first + N = fm
      BY <1>3
    <2> QED
      BY <1>3, <1>4, <2>1 DEF N
  <1>7. ASSUME NEW b \in Nat, NEW p \in Nat, n * b = first + p
        PROVE  /\ FullAt(n, closed, p) => b \in whole
               /\ b \in whole => FullAt(n, closed, p)
               /\ FullAt(n, closed, p) =>
                    Aggregate(Stretch(closed, p, n)) = WindowCandle(seq, n, b)
    <2>1. Placed(seq, closed, n, over, first, b, p)
      BY <1>1, <1>2, <1>3, <1>6, <1>7 DEF Placed
    <2>3. /\ FullAt(n, closed, p) => b \in Whole(n, over, Counted(seq))
          /\ b \in Whole(n, over, Counted(seq)) => FullAt(n, closed, p)
          /\ FullAt(n, closed, p) =>
                Aggregate(Stretch(closed, p, n)) = WindowCandle(seq, n, b)
      BY <2>1, FullMeans
    <2> QED
      BY <2>3 DEF whole
  <1>8. ASSUME NEW b \in whole
        PROVE  \E k \in 1..Len(higher) : higher[k] = WindowCandle(seq, n, b)
    <2>1. b \in Nat /\ \A m \in Window(n, b) : m \in over
      <3>1. Minute(Horizon) \div n \in Nat
        BY DayTyped, Remainder
      <3> QED
        BY <3>1 DEF whole, Whole
    <2> DEFINE p == n * b - first
    <2>2. n * b \in Nat
      BY <2>1, WindowStart
    <2>3. n * b \in Window(n, b)
      BY <1>5, <2>2 DEF Window
    <2>4. n * b >= first
      BY <1>3, <1>4, <2>1, <2>2, <2>3
    <2>5. p \in Nat /\ n * b = first + p
      BY <1>3, <2>2, <2>4
    <2> HIDE DEF p
    <2>6. FullAt(n, closed, p) /\ Aggregate(Stretch(closed, p, n)) = WindowCandle(seq, n, b)
      BY <1>7, <2>1, <2>5
    <2>7. \E k \in 1..Len(higher) : higher[k] = Aggregate(Stretch(closed, p, n))
      BY <2>5, <2>6 DEF Filled
    <2> QED
      BY <2>6, <2>7
  <1>9. ASSUME NEW k \in 1..Len(higher)
        PROVE  \E b \in whole : higher[k] = WindowCandle(seq, n, b)
    <2>1. PICK p \in Nat : FullAt(n, closed, p) /\ higher[k] = Aggregate(Stretch(closed, p, n))
      BY DEF Filled
    <2> DEFINE a == first + p
               b == a \div n
    <2>2. a \in Nat /\ a % n = 0
      <3>1. p + n <= N /\ closed[p + 1].minute % n = 0
        BY <2>1 DEF FullAt, N
      <3>2. p + 1 \in 1..N /\ first + (p + 1) - 1 = a /\ a \in Nat
        BY <1>3, <1>5, <3>1
      <3>3. closed[p + 1].minute = first + (p + 1) - 1
        BY <1>2, <3>2 DEF Right
      <3> QED
        BY <3>1, <3>2, <3>3
    <2> HIDE DEF a
    <2>3. b \in Nat /\ n * b = a
      BY <2>2, Multiples, Remainder
    <2> HIDE DEF b
    <2>4. n * b = first + p
      BY <2>3 DEF a
    <2>5. b \in whole /\ Aggregate(Stretch(closed, p, n)) = WindowCandle(seq, n, b)
      BY <1>7, <2>1, <2>3, <2>4
    <2> QED
      BY <2>1, <2>5
  <1>10. \A j, k \in 1..Len(higher) : j < k => higher[j].minute < higher[k].minute
    BY DEF Filled
  <1> QED
    BY <1>5, <1>8, <1>9, <1>10 DEF whole, over

LEMMA WindowsFollow ==
    ASSUME BuilderRight, WindowsRight PROVE HigherFollowsTicks
  <1> DEFINE seq == taken
             whole(n) == Whole(n, Over(seq, Counted(seq)), Counted(seq))
  <1>1. Built(seq, builder.forming, builder.closed)
    BY DEF BuilderRight
  <1>2. \A n \in Frames : n \in Nat \ {0, 1}
    BY FramesAssumption
  <1>3. CASE seq = <<>>
    <2>1. builder.forming = <<>>
      BY <1>1, <1>3 DEF Built
    <2>2. ASSUME NEW n \in Frames
          PROVE  whole(n) = {} /\ builder.higher[n] = <<>>
      <3>1. Over(seq, Counted(seq)) = {}
        BY <1>3 DEF Over
      <3>2. \A b \in whole(n) : FALSE
        <4> SUFFICES ASSUME NEW b \in whole(n) PROVE FALSE
          OBVIOUS
        <4>1. b \in 0..Minute(Horizon) \div n /\ \A m \in Window(n, b) : m \in {}
          BY <3>1 DEF Whole
        <4>2. n * b \in Window(n, b)
          <5>1. b \in Nat
            BY <4>1
          <5>2. n * b \in Nat /\ n \in Nat /\ n > 1
            BY <1>2, <5>1, WindowStart
          <5> QED
            BY <5>2 DEF Window
        <4> QED
          BY <4>1, <4>2
      <3> QED
        BY <2>1, <3>2 DEF WindowsRight
    <2>3. DOMAIN <<>> = {}
      OBVIOUS
    <2> QED
      BY <2>2, <2>3 DEF HigherFollowsTicks, HigherFollow
  <1>4. CASE seq # <<>>
    <2>1. builder.forming # <<>>
      <3> DEFINE forming == builder.forming
      <3> HIDE DEF forming
      <3>1. \E f : forming = <<f>>
        BY <1>1, <1>4 DEF Built, forming
      <3> QED
        BY <3>1 DEF forming
    <2>2. ASSUME NEW n \in Frames
          PROVE  LET at == DOMAIN builder.higher[n]
                 IN /\ \A b \in whole(n) :
                         \E k \in at : builder.higher[n][k] = WindowCandle(seq, n, b)
                    /\ \A k \in at :
                         \E b \in whole(n) : builder.higher[n][k] = WindowCandle(seq, n, b)
                    /\ \A j, k \in at :
                         j < k => builder.higher[n][j].minute < builder.higher[n][k].minute
      <3>1. Filled(n, builder.closed, builder.higher[n])
        BY <2>1 DEF WindowsRight
      <3> QED
        BY <1>1, <1>2, <1>4, <3>1, FilledFollows
    <2> QED
      BY <2>2 DEF HigherFollowsTicks, HigherFollow
  <1> QED
    BY <1>3, <1>4

\* The windows are right in every state that is reached.
THEOREM WindowsInvariant == Spec => []WindowsRight
  <1>1. Init => WindowsRight
    BY EmptyWindows DEF Init, NoTickYet
  <1>2. PathInv /\ WindowsRight /\ [Next]_vars => WindowsRight'
    BY NextKeepsWindows
  <1> QED
    BY <1>1, <1>2, PathInvariant, PTL DEF Spec

-----------------------------------------------------------------------------
\* The state of the path keeps its types.
THEOREM PathTyped == Spec => []DataPathTypeOK
  <1>1. PathInv => DataPathTypeOK
    <2> SUFFICES ASSUME PathInv PROVE DataPathTypeOK
      OBVIOUS
    <2>1. Len(builder.closed) <= MaxMinutes /\ Len(builder.forming) <= 1
      <3>1. Built(taken, builder.forming, builder.closed)
        BY DEF PathInv, BuilderRight
      <3>2. CASE taken = <<>>
        <4>1. builder.closed = <<>> /\ builder.forming = <<>>
          BY <3>1, <3>2 DEF Built
        <4>2. Len(builder.closed) = 0 /\ Len(builder.forming) = 0
          BY <4>1
        <4> QED
          BY <4>2, FramesAssumption
      <3>3. CASE taken # <<>>
        <4> DEFINE first == taken[1].minute
        <4>1. taken[1] \in TickType
          BY <3>1, <3>3 DEF Built
        <4>2. PICK f : /\ builder.forming = <<f>>
                       /\ f.minute \in taken[1].minute..Minute(Horizon)
                       /\ Len(builder.closed) = f.minute - taken[1].minute
          BY <3>1, <3>3 DEF Built
        <4>3. first \in Nat /\ f.minute \in first..Minute(Horizon)
          BY <4>1, <4>2, TickFields, DayTyped
        <4> DEFINE fm == f.minute
        <4>4. Len(builder.closed) = fm - first /\ Len(builder.forming) = 1
          BY <4>2
        <4> HIDE DEF first, fm
        <4> QED
          BY <4>3, <4>4, DayTyped, DayAssumption, FramesAssumption DEF fm
      <3> QED
        BY <3>2, <3>3
    <2> QED
      BY <2>1 DEF PathInv, PathTypes, DataPathTypeOK
  <1> QED
    BY <1>1, PathInvariant, PTL

\* Every minute from the first tick on is closed once, in order, as the candle
\* of the ticks that counted for it or as a gap, in whatever order the thread
\* of the feed and that of the broadcast called on_tick.
THEOREM MinutesFollow == Spec => []MinutesFollowTicks
  <1>1. PathInv => MinutesFollowTicks
    <2> SUFFICES ASSUME PathInv PROVE MinutesFollowTicks
      OBVIOUS
    <2>1. Built(taken, builder.forming, builder.closed)
      BY DEF PathInv, BuilderRight
    <2> QED
      BY <2>1, BuiltFollows DEF MinutesFollowTicks
  <1> QED
    BY <1>1, PathInvariant, PTL

\* A higher timeframe has the candle of each of its whole windows, once and
\* in order, and no other.
THEOREM HigherFollows == Spec => []HigherFollowsTicks
  <1>1. PathInv /\ WindowsRight => HigherFollowsTicks
    BY WindowsFollow DEF PathInv
  <1> QED
    BY <1>1, PathInvariant, WindowsInvariant, PTL

\* The file of the day has every closed minute after a stop that no timeout of
\* _run_stop_step_with_timeout cut short, as the builder has it at the end.
THEOREM ArchiveWhole == Spec => []ArchiveIsWhole
  <1>1. PathInv => ArchiveIsWhole
    BY DEF PathInv
  <1> QED
    BY <1>1, PathInvariant, PTL

\* Main's loop goes from a minute to a later one, or starts over with a new
\* process: it processes no minute twice.
THEOREM CyclesForward == Spec => CyclesGoForward
  <1>1. PathInv /\ [Next]_vars => [done' # done => done' > done \/ runs' # runs]_vars
    <2> SUFFICES ASSUME PathInv, [Next]_vars, done' # done
                 PROVE  done' > done \/ runs' # runs
      OBVIOUS
    <2>1. CASE Cycle
      BY <2>1, CycleKeeps
    <2>2. CASE Restart
      <3>1. runs \in Int
        BY DataPathAssumption DEF PathInv, PathTypes
      <3> QED
        BY <2>2, <3>1 DEF Restart
    <2>3. CASE ProcessTick \/ Broadcast \/ BridgeTakes \/ Stop \/ Advance \/ UNCHANGED vars
      BY <2>3 DEF ProcessTick, Broadcast, BridgeTakes, Stop, StopBegins, StopFeed,
                  StopPipelines, Archive, Advance, vars
    <2> QED
      BY <2>1, <2>2, <2>3 DEF Next
  <1> QED
    BY <1>1, PathInvariant, PTL DEF Spec, CyclesGoForward
=============================================================================
