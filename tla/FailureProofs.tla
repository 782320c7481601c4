---------------------------- MODULE FailureProofs ----------------------------
(***************************************************************************)
(* What kills and faults leave, for any clock width, skew bound and        *)
(* bounds.  Of a replica's log: the clock never goes back, also over a     *)
(* restart, an operation is in its own day's segment once, and what a peer *)
(* acknowledged stays.  Of the overlay of a worktree, for any files and    *)
(* commits: what is called fresh is.  Of a trace collector, for any rows,  *)
(* rates and batches: no call is lost or counted twice that need not be.   *)
(***************************************************************************)
EXTENDS Killed, Faulty, FiniteSetTheorems, WellFoundedInduction, TLAPS

------------------------------------------------------------------------------
(***************************************************************************)
(* Facts about the clock for every counter width and skew bound.            *)
(***************************************************************************)
(* compareHlc is a strict total order on clock values.                       *)
LEMMA HlcLessIrreflexive == \A a \in Hlcs : ~HlcLess(a, a)
  BY DEF HlcLess, Hlcs

\* compareHlc is transitive.
LEMMA HlcLessTransitive ==
  \A a, b, c \in Hlcs : HlcLess(a, b) /\ HlcLess(b, c) => HlcLess(a, c)
  BY DEF HlcLess, Hlcs

\* compareHlc tells any two different clock values apart.
LEMMA HlcLessTotal ==
  \A a, b \in Hlcs : HlcLess(a, b) \/ HlcLess(b, a) \/ a = b
<1> SUFFICES ASSUME NEW a \in Hlcs, NEW b \in Hlcs, ~HlcLess(a, b), ~HlcLess(b, a)
             PROVE  a = b
  OBVIOUS
<1>1. a.wall = b.wall /\ a.counter = b.counter
  BY CounterMaxAssumption DEF HlcLess, Hlcs
<1>2. a = [wall |-> a.wall, counter |-> a.counter] /\ b = [wall |-> b.wall, counter |-> b.counter]
  BY DEF Hlcs
<1> QED BY <1>1, <1>2

(* tick() returns a clock value strictly above the last one, also when the   *)
(* wall clock went back and when the counter is exhausted.                   *)
THEOREM TickAdvances ==
  ASSUME NEW own \in Hlcs, NEW physical \in Nat
  PROVE  TickFrom(own, physical) \in Hlcs /\ HlcLess(own, TickFrom(own, physical))
<1>1. CASE physical > own.wall
  BY <1>1, CounterMaxAssumption DEF TickFrom, Hlcs, HlcLess
<1>2. CASE ~(physical > own.wall) /\ own.counter >= CounterMax
  BY <1>2, CounterMaxAssumption DEF TickFrom, Hlcs, HlcLess
<1>3. CASE ~(physical > own.wall) /\ ~(own.counter >= CounterMax)
  BY <1>3, CounterMaxAssumption DEF TickFrom, Hlcs, HlcLess
<1> QED BY <1>1, <1>2, <1>3

(* observe() never moves the clock back, and what it accepts it dominates.   *)
THEOREM ObserveKeeps ==
  ASSUME NEW own \in Hlcs, NEW remote \in Hlcs, NEW physical \in Nat
  PROVE  /\ ObserveFrom(own, remote, physical) \in Hlcs
         /\ ~HlcLess(ObserveFrom(own, remote, physical), own)
         /\ ~Refused(remote, physical) => ~HlcLess(ObserveFrom(own, remote, physical), remote)
<1>1. CASE ~Refused(remote, physical) /\ HlcLess(own, remote)
  BY <1>1, HlcLessIrreflexive, HlcLessTransitive DEF ObserveFrom
<1>2. CASE ~(~Refused(remote, physical) /\ HlcLess(own, remote))
  BY <1>2, HlcLessIrreflexive DEF ObserveFrom
<1> QED BY <1>1, <1>2

------------------------------------------------------------------------------
(* hydrate() leaves the clock at the greatest operation it accepts.          *)

\* A set of naturals that is not empty has a least element.
LEMMA NaturalMinimum ==
  ASSUME NEW T \in SUBSET Nat, T # {}
  PROVE  \E m \in T : \A n \in T : m <= n
<1> DEFINE Less == OpToRel(<, Nat)
<1>1. IsWellFoundedOn(Less, Nat)
  BY NatLessThanWellFounded
<1>2. \A x, y \in Nat : <<x, y>> \in Less <=> x < y
  BY DEF OpToRel
<1> HIDE DEF Less
<1>3. PICK m \in T : \A n \in T : ~(<<n, m>> \in Less)
  BY <1>1, WFMin
<1>4. \A n \in T : n \in Nat /\ m \in Nat /\ ~(n < m)
  BY <1>2, <1>3
<1>5. \A n \in T : m <= n
  BY <1>4
<1> QED BY <1>5

\* A bounded set of naturals that is not empty has a greatest element.
LEMMA BoundedMaximum ==
  ASSUME NEW T \in SUBSET Nat, T # {}, NEW b \in Nat, \A n \in T : n <= b
  PROVE  \E m \in T : \A n \in T : n <= m
<1> DEFINE gaps == {b - n : n \in T}
<1>1. gaps \in SUBSET Nat /\ gaps # {}
  <2>1. \A n \in T : n \in Nat /\ b - n \in Nat
    OBVIOUS
  <2> QED BY <2>1
<1>2. PICK g \in gaps : \A k \in gaps : g <= k
  BY <1>1, NaturalMinimum
<1>3. PICK m \in T : g = b - m
  OBVIOUS
<1>4. \A n \in T : n \in Nat /\ b - n \in gaps
  OBVIOUS
<1>5. \A n \in T : b - m <= b - n
  BY <1>2, <1>3, <1>4
<1>6. \A n \in T : n <= m
  BY <1>4, <1>5
<1> QED BY <1>6

\* hydrate() leaves the generator at an operation it read, or at the seed: one
\* the skew bound accepts and no accepted operation exceeds.
THEOREM ReplayDominates ==
  ASSUME NEW hlcs \in SUBSET Hlcs, NEW physical \in Nat
  PROVE  /\ ReplayFrom(hlcs, physical) \in Hlcs
         /\ ReplayFrom(hlcs, physical) \in hlcs \union {ZeroHlc}
         /\ ~Refused(ReplayFrom(hlcs, physical), physical)
         /\ \A h \in hlcs : ~Refused(h, physical) => ~HlcLess(ReplayFrom(hlcs, physical), h)
<1> DEFINE accepted == {h \in hlcs : ~Refused(h, physical)} \union {ZeroHlc}
<1>1. accepted \in SUBSET Hlcs /\ accepted # {} /\ \A h \in accepted : h.wall <= physical + MaxSkew
  <2>1. ZeroHlc \in Hlcs /\ ZeroHlc.wall <= physical + MaxSkew
    BY CounterMaxAssumption, MaxSkewAssumption DEF ZeroHlc, Hlcs
  <2>2. \A h \in hlcs : ~Refused(h, physical) => h.wall <= physical + MaxSkew
    BY MaxSkewAssumption DEF Refused, Hlcs
  <2> QED BY <2>1, <2>2
<1> DEFINE walls == {h.wall : h \in accepted}
<1>2. PICK w \in walls : \A v \in walls : v <= w
  <2>1. walls \in SUBSET Nat /\ walls # {} /\ physical + MaxSkew \in Nat
        /\ \A v \in walls : v <= physical + MaxSkew
    BY <1>1, MaxSkewAssumption DEF Hlcs
  <2> QED BY <2>1, BoundedMaximum
<1> DEFINE counters == {h.counter : h \in {g \in accepted : g.wall = w}}
<1>3. PICK c \in counters : \A d \in counters : d <= c
  <2>1. counters \in SUBSET Nat /\ counters # {} /\ \A d \in counters : d <= CounterMax
    BY <1>1, <1>2, CounterMaxAssumption DEF Hlcs
  <2> QED BY <2>1, BoundedMaximum, CounterMaxAssumption
<1>4. PICK m \in accepted : m.wall = w /\ m.counter = c
  OBVIOUS
<1>5. \A h \in accepted : ~HlcLess(m, h)
  <2> SUFFICES ASSUME NEW h \in accepted PROVE ~HlcLess(m, h)
    OBVIOUS
  <2>1. h \in Hlcs /\ m \in Hlcs
    BY <1>1
  <2>2. h.wall <= m.wall
    BY <1>2, <1>4
  <2>3. h.wall = m.wall => h.counter <= m.counter
    BY <1>3, <1>4
  <2> QED BY <2>1, <2>2, <2>3 DEF HlcLess, Hlcs
<1>6. /\ ReplayFrom(hlcs, physical) \in accepted
      /\ \A h \in accepted : ~HlcLess(ReplayFrom(hlcs, physical), h)
  BY <1>4, <1>5 DEF ReplayFrom
<1>7. ~Refused(ZeroHlc, physical)
  BY MaxSkewAssumption DEF Refused, ZeroHlc
<1> QED BY <1>1, <1>6, <1>7

------------------------------------------------------------------------------

\* Day numbers do not decrease with the wall clock.
LEMMA DivMonotone ==
  ASSUME NEW x \in Nat, NEW y \in Nat, x <= y, NEW k \in Nat \ {0}
  PROVE  x \div k \in Nat /\ x \div k <= y \div k
<1> DEFINE p == x \div k
           q == y \div k
<1>1. /\ p \in Int /\ q \in Int
      /\ k * p <= x /\ x < k * p + k
      /\ k * q <= y /\ y < k * q + k
  OBVIOUS
<1>2. p >= 0
  <2> SUFFICES ASSUME p <= -1 PROVE FALSE BY <1>1
  <2>1. k * p <= k * (-1) BY <1>1
  <2> QED BY <2>1, <1>1
<1>3. p <= q
  <2> SUFFICES ASSUME p >= q + 1 PROVE FALSE BY <1>1
  <2> HIDE DEF p, q
  <2>1. k * p >= k * (q + 1) BY <1>1
  <2>2. k * (q + 1) = k * q + k BY <1>1
  <2> QED BY <2>1, <2>2, <1>1
<1> QED BY <1>1, <1>2, <1>3

------------------------------------------------------------------------------
(* Operations and files *)

\* Torn bytes are never taken for an operation.
LEMMA TornIsNoOp == \A o \in Ops : o # Torn
<1> SUFFICES ASSUME NEW o \in Ops, o = Torn PROVE FALSE
  OBVIOUS
<1>1. DOMAIN o = {"hlc", "writer", "mint"}
  BY DEF Ops
<1>2. DOMAIN Torn = {"torn"}
  BY DEF Torn
<1> QED BY <1>1, <1>2

Items == Ops \union {Torn}

\* A file without a torn batch is read to its end.
LEMMA GoodLenWhole ==
  ASSUME NEW items \in Seq(Items), Whole(items)
  PROVE  GoodLen(items) = Len(items) /\ ReadOps(items) = {items[i] : i \in 1..Len(items)}
<1> DEFINE P(n) == /\ \A i \in 1..n : items[i] # Torn
                   /\ n = Len(items) \/ items[n + 1] = Torn
<1>1. Len(items) \in 0..Len(items) /\ P(Len(items))
  BY DEF Whole
<1>2. \A n \in 0..Len(items) : P(n) => n = Len(items)
  BY DEF Whole
<1>3. GoodLen(items) = Len(items)
  BY <1>1, <1>2 DEF GoodLen
<1> QED BY <1>3 DEF ReadOps

\* A file torn only at its end is read up to there.
LEMMA GoodLenTail ==
  ASSUME NEW items \in Seq(Items), TornTail(items), ~Whole(items)
  PROVE  GoodLen(items) = Len(items) - 1 /\ Len(items) >= 1
<1> DEFINE P(n) == /\ \A i \in 1..n : items[i] # Torn
                   /\ n = Len(items) \/ items[n + 1] = Torn
<1>1. Len(items) >= 1 /\ items[Len(items)] = Torn
  BY DEF Whole, TornTail
<1>2. Len(items) - 1 \in 0..Len(items) /\ P(Len(items) - 1)
  BY <1>1 DEF TornTail
<1>3. \A n \in 0..Len(items) : P(n) => n = Len(items) - 1
  BY <1>1 DEF TornTail
<1>4. GoodLen(items) = Len(items) - 1
  BY <1>2, <1>3 DEF GoodLen
<1> QED BY <1>1, <1>4

\* Truncation keeps a prefix of the segment that holds no torn bytes.
LEMMA GoodLenRange ==
  ASSUME NEW items \in Seq(Items), TornTail(items)
  PROVE  GoodLen(items) \in 0..Len(items) /\ \A i \in 1..GoodLen(items) : items[i] # Torn
<1>1. CASE Whole(items)
  BY <1>1, GoodLenWhole DEF Whole
<1>2. CASE ~Whole(items)
  BY <1>2, GoodLenTail DEF TornTail
<1> QED BY <1>1, <1>2

\* Appending an operation to a whole file adds exactly that operation.
LEMMA AppendOp ==
  ASSUME NEW items \in Seq(Items), Whole(items), NEW op \in Ops
  PROVE  /\ Append(items, op) \in Seq(Items)
         /\ Whole(Append(items, op))
         /\ ReadOps(Append(items, op)) = ReadOps(items) \union {op}
<1>1. Append(items, op) \in Seq(Items) /\ Len(Append(items, op)) = Len(items) + 1
  BY DEF Items
<1>2. Whole(Append(items, op))
  BY <1>1, TornIsNoOp DEF Whole
<1>3. ReadOps(Append(items, op)) = ReadOps(items) \union {op}
  <2>1. ReadOps(Append(items, op)) = {Append(items, op)[i] : i \in 1..Len(items) + 1}
    BY <1>1, <1>2, GoodLenWhole
  <2>2. ReadOps(items) = {items[i] : i \in 1..Len(items)}
    BY GoodLenWhole
  <2>3. \A i \in 1..Len(items) : Append(items, op)[i] = items[i]
    OBVIOUS
  <2>4. Append(items, op)[Len(items) + 1] = op
    OBVIOUS
  <2> QED BY <2>1, <2>2, <2>3, <2>4
<1> QED BY <1>1, <1>2, <1>3

\* Appending a torn batch to a whole file changes nothing a reader sees.
LEMMA AppendTorn ==
  ASSUME NEW items \in Seq(Items), Whole(items)
  PROVE  /\ Append(items, Torn) \in Seq(Items)
         /\ TornTail(Append(items, Torn))
         /\ ReadOps(Append(items, Torn)) = ReadOps(items)
<1> DEFINE torn == Append(items, Torn)
<1>1. torn \in Seq(Items) /\ Len(torn) = Len(items) + 1 /\ torn[Len(items) + 1] = Torn
      /\ \A i \in 1..Len(items) : torn[i] = items[i]
  BY DEF Items
<1> HIDE DEF torn
<1>2. TornTail(torn) /\ ~Whole(torn)
  BY <1>1 DEF Whole, TornTail
<1>3. GoodLen(torn) = Len(items)
  BY <1>1, <1>2, GoodLenTail
<1>4. ReadOps(torn) = {items[i] : i \in 1..Len(items)}
  BY <1>1, <1>3 DEF ReadOps
<1>5. ReadOps(items) = {items[i] : i \in 1..Len(items)}
  BY GoodLenWhole
<1> QED BY <1>1, <1>2, <1>4, <1>5 DEF torn

------------------------------------------------------------------------------
(* Days *)

\* Every wall time a clock can reach lies in a known day.
LEMMA DayKnown ==
  ASSUME NEW h \in Hlcs, h.wall <= MaxNow + MaxSkew + MaxWrites
  PROVE  DayOf(h) \in Days
<1>1. h.wall \in Nat /\ MaxNow + MaxSkew + MaxWrites \in Nat /\ DayMs \in Nat \ {0}
  BY BoundsAssumption, MaxSkewAssumption DEF Hlcs
<1>2. /\ h.wall \div DayMs \in Nat
      /\ h.wall \div DayMs <= (MaxNow + MaxSkew + MaxWrites) \div DayMs
  BY <1>1, DivMonotone
<1>3. (MaxNow + MaxSkew + MaxWrites) \div DayMs \in Int
  BY <1>1
<1> QED BY <1>2, <1>3 DEF DayOf, Days

\* The next local operation is an operation, in a known day, and moves the
\* clock at most one beyond the greater of the physical and logical time.
LEMMA MintedFits ==
  ASSUME TypeOK, last.wall <= MaxNow + MaxSkew + writes, writes < MaxWrites
  PROVE  /\ Minted \in Ops
         /\ Minted.hlc \in Hlcs /\ Minted.hlc = TickFrom(last, now)
         /\ Minted.hlc.wall <= MaxNow + MaxSkew + (writes + 1)
         /\ DayOf(Minted.hlc) \in Days
<1>1. last \in Hlcs /\ now \in Nat /\ now <= MaxNow /\ writes \in Nat
  BY BoundsAssumption DEF TypeOK
<1>2. TickFrom(last, now) \in Hlcs
  BY <1>1, TickAdvances
<1>3. TickFrom(last, now).wall <= MaxNow + MaxSkew + (writes + 1)
  BY <1>1, MaxSkewAssumption, BoundsAssumption DEF TickFrom, Hlcs
<1>4. Minted \in Ops
  BY <1>1, <1>2, MeAssumption DEF Minted, Ops
<1>5. Minted.hlc = TickFrom(last, now)
  BY DEF Minted
<1>6. TickFrom(last, now).wall <= MaxNow + MaxSkew + MaxWrites
  BY <1>1, <1>2, <1>3, MaxSkewAssumption, BoundsAssumption DEF Hlcs
<1>7. DayOf(TickFrom(last, now)) \in Days
  BY <1>2, <1>6, DayKnown
<1> QED BY <1>2, <1>3, <1>4, <1>5, <1>7

------------------------------------------------------------------------------
(* What the readers see *)

\* A file is read up to its first torn batch, or to its end.
LEMMA GoodLenStops ==
  ASSUME NEW items \in Seq(Items)
  PROVE  /\ GoodLen(items) \in 0..Len(items)
         /\ \A i \in 1..GoodLen(items) : items[i] # Torn
         /\ GoodLen(items) = Len(items) \/ items[GoodLen(items) + 1] = Torn
<1> DEFINE P(n) == /\ \A i \in 1..n : items[i] # Torn
                   /\ n = Len(items) \/ items[n + 1] = Torn
           torn == {i \in 1..Len(items) : items[i] = Torn}
<1>1. \E n \in 0..Len(items) : P(n)
  <2>1. CASE torn = {}
    BY <2>1
  <2>2. CASE torn # {}
    <3>1. torn \in SUBSET Nat
      OBVIOUS
    <3>2. PICK m \in torn : \A i \in torn : m <= i
      BY <2>2, <3>1, NaturalMinimum
    <3>3. m - 1 \in 0..Len(items) /\ items[(m - 1) + 1] = Torn
      BY <3>2
    <3>4. \A i \in 1..m - 1 : items[i] # Torn
      BY <3>2
    <3> QED BY <3>3, <3>4
  <2> QED BY <2>1, <2>2
<1> QED BY <1>1 DEF GoodLen

\* An item with no torn batch up to its place is read.
LEMMA ReadUpTo ==
  ASSUME NEW items \in Seq(Items), NEW i \in 1..Len(items),
         \A j \in 1..i : items[j] # Torn
  PROVE  i \in 1..GoodLen(items)
<1>1. GoodLen(items) = Len(items) \/ GoodLen(items) + 1 \notin 1..i
  BY GoodLenStops
<1> QED BY <1>1, GoodLenStops

\* Appending to a file, whatever it holds, shows a reader at most the new item.
LEMMA AppendReads ==
  ASSUME NEW items \in Seq(Items), NEW item \in Items
  PROVE  ReadOps(Append(items, item)) \subseteq ReadOps(items) \union ({item} \ {Torn})
<1> DEFINE longer == Append(items, item)
<1>1. /\ longer \in Seq(Items) /\ Len(longer) = Len(items) + 1
      /\ longer[Len(items) + 1] = item
      /\ \A i \in 1..Len(items) : longer[i] = items[i]
  OBVIOUS
<1> HIDE DEF longer
<1>2. ASSUME NEW i \in 1..GoodLen(longer)
      PROVE  longer[i] \in ReadOps(items) \union ({item} \ {Torn})
  <2>1. i \in 1..Len(longer) /\ \A j \in 1..i : longer[j] # Torn
    BY <1>1, GoodLenStops
  <2>2. CASE i <= Len(items)
    <3>1. i \in 1..Len(items) /\ \A j \in 1..i : items[j] # Torn
      BY <1>1, <2>1, <2>2
    <3>2. i \in 1..GoodLen(items)
      BY <3>1, ReadUpTo
    <3> QED BY <1>1, <3>1, <3>2 DEF ReadOps
  <2>3. CASE i = Len(items) + 1
    BY <1>1, <2>1, <2>3
  <2> QED BY <1>1, <2>1, <2>2, <2>3
<1> QED BY <1>2 DEF ReadOps, longer

\* What a start reads back are operations, each in its own day.
LEMMA DiskTyped ==
  ASSUME TypeOK
  PROVE  /\ Disk \subseteq Ops
         /\ InOwnDay => \A o \in Disk : DayOf(o.hlc) \in Days
<1> SUFFICES ASSUME NEW d \in Days, NEW o \in ReadOps(seg[d])
             PROVE  o \in Ops /\ (InOwnDay => DayOf(o.hlc) \in Days)
  BY DEF Disk
<1>1. seg[d] \in Seq(Items)
  BY DEF TypeOK, Items
<1>2. PICK i \in 1..GoodLen(seg[d]) : o = seg[d][i]
  BY DEF ReadOps
<1>3. i \in 1..Len(seg[d]) /\ seg[d][i] # Torn
  BY <1>1, GoodLenStops
<1>4. seg[d][i] \in Items
  BY <1>1, <1>3
<1> QED BY <1>2, <1>3, <1>4 DEF InOwnDay, Items

\* Appending an operation to one whole file adds it to the disk.
LEMMA DiskAppendOp ==
  ASSUME seg \in [Days -> Seq(Items)], NEW day \in Days, Whole(seg[day]),
         NEW op \in Ops, seg' = [seg EXCEPT ![day] = Append(seg[day], op)]
  PROVE  Disk' = Disk \union {op}
<1>1. ReadOps(seg'[day]) = ReadOps(seg[day]) \union {op}
  BY AppendOp
<1>2. \A d \in Days \ {day} : seg'[d] = seg[d]
  OBVIOUS
<1>3. Disk' = UNION {ReadOps(seg'[d]) : d \in Days}
  BY DEF Disk
<1>4. ASSUME NEW x PROVE x \in Disk' <=> x \in Disk \/ x = op
  BY <1>1, <1>2, <1>3 DEF Disk
<1> QED BY <1>4

\* A batch torn at the end of a whole segment adds nothing a start would read.
LEMMA DiskAppendTorn ==
  ASSUME seg \in [Days -> Seq(Items)], NEW day \in Days, Whole(seg[day]),
         seg' = [seg EXCEPT ![day] = Append(seg[day], Torn)]
  PROVE  Disk' = Disk
<1>1. ReadOps(seg'[day]) = ReadOps(seg[day])
  BY AppendTorn
<1>2. \A d \in Days : ReadOps(seg'[d]) = ReadOps(seg[d])
  BY <1>1
<1> QED BY <1>2 DEF Disk

\* A file that gained one item keeps its old ones at their places.
LEMMA AppendKeeps ==
  ASSUME seg \in [Days -> Seq(Items)], NEW day \in Days, NEW item \in Items,
         seg' = [seg EXCEPT ![day] = Append(seg[day], item)]
  PROVE  /\ seg' \in [Days -> Seq(Items)]
         /\ \A d \in Days : Len(seg[d]) <= Len(seg'[d])
         /\ \A d \in Days : \A i \in 1..Len(seg[d]) : seg'[d][i] = seg[d][i]
         /\ Len(seg'[day]) = Len(seg[day]) + 1
         /\ seg'[day][Len(seg'[day])] = item
         /\ \A d \in Days \ {day} : seg'[d] = seg[d]
  OBVIOUS

------------------------------------------------------------------------------
(* Whatever fails *)

\* An empty directory and a fresh daemon satisfy the invariant.
LEMMA InitFaultInv == Init => FaultInv /\ Disk = {}
<1> SUFFICES ASSUME Init PROVE FaultInv /\ Disk = {}
  OBVIOUS
<1>1. TypeOK
  BY CounterMaxAssumption, BoundsAssumption DEF Init, TypeOK, NoHandle, ZeroHlc, Hlcs
<1>2. \A d \in Days : seg[d] = <<>> /\ Len(seg[d]) = 0 /\ synced[d] = 0
  BY DEF Init
<1>3. InOwnDay /\ SyncedPrefix
  BY <1>2, BoundsAssumption, MaxSkewAssumption DEF Init, InOwnDay, SyncedPrefix, ZeroHlc
<1>4. Disk = {}
  <2>1. <<>> \in Seq(Items) /\ Whole(<<>>) /\ Len(<<>>) = 0
    BY DEF Whole
  <2>2. GoodLen(<<>>) = 0
    BY <2>1, GoodLenWhole
  <2>3. ReadOps(<<>>) = {}
    BY <2>2 DEF ReadOps
  <2> QED BY <1>2, <2>3 DEF Disk
<1> QED BY <1>1, <1>3, <1>4 DEF Init, FaultInv, KeptReadable, NothingUnseen, ClockCovers

\* The parts about the files, after any item was appended to one of them.
LEMMA AppendItem ==
  ASSUME FaultInv, NEW day \in Days, NEW item \in Items,
         item # Torn => DayOf(item.hlc) = day,
         seg' = [seg EXCEPT ![day] = Append(seg[day], item)],
         synced' \in [Days -> Nat],
         \A d \in Days : synced[d] <= synced'[d] /\ synced'[d] <= Len(seg'[d])
  PROVE  /\ seg' \in [Days -> Seq(Items)] /\ SyncedPrefix'
         /\ \A d \in Days : \A i \in 1..Len(seg'[d]) :
              seg'[d][i] # Torn => DayOf(seg'[d][i].hlc) = d
         /\ Disk' \subseteq Disk \union ({item} \ {Torn})
         /\ \A o \in kept \ buried : \E d \in Days : \E i \in 1..synced'[d] :
              seg'[d][i] = o /\ \A j \in 1..i : seg'[d][j] # Torn
<1>1. seg \in [Days -> Seq(Items)]
  BY DEF FaultInv, TypeOK, Items
<1>2. \A d \in Days : \A i \in 1..Len(seg'[d]) :
        seg'[d][i] # Torn => DayOf(seg'[d][i].hlc) = d
  BY <1>1, AppendKeeps DEF FaultInv, InOwnDay
<1>3. Disk' \subseteq Disk \union ({item} \ {Torn})
  <2>1. \A d \in Days \ {day} : seg'[d] = seg[d]
    BY <1>1
  <2>2. ReadOps(seg'[day]) \subseteq ReadOps(seg[day]) \union ({item} \ {Torn})
    BY <1>1, AppendReads
  <2>3. Disk' = UNION {ReadOps(seg'[d]) : d \in Days}
    BY DEF Disk
  <2> QED BY <2>1, <2>2, <2>3 DEF Disk
<1>4. ASSUME NEW o \in kept \ buried
      PROVE  \E d \in Days : \E i \in 1..synced'[d] :
               seg'[d][i] = o /\ \A j \in 1..i : seg'[d][j] # Torn
  <2>1. PICK d \in Days : \E i \in 1..synced[d] :
               seg[d][i] = o /\ \A j \in 1..i : seg[d][j] # Torn
    BY DEF FaultInv, KeptReadable
  <2> PICK i \in 1..synced[d] : seg[d][i] = o /\ \A j \in 1..i : seg[d][j] # Torn
    BY <2>1
  <2>2. synced[d] \in Nat /\ synced'[d] \in Nat /\ Len(seg[d]) \in Nat
        /\ synced[d] <= Len(seg[d]) /\ synced[d] <= synced'[d]
    BY <1>1 DEF FaultInv, TypeOK, SyncedPrefix
  <2>3. i \in 1..synced'[d] /\ \A j \in 1..i : j \in 1..Len(seg[d])
    BY <2>2
  <2>4. \A j \in 1..i : seg'[d][j] = seg[d][j]
    BY <1>1, <2>3, AppendKeeps
  <2> QED BY <2>1, <2>3, <2>4
<1> QED BY <1>1, <1>2, <1>3, <1>4, AppendKeeps DEF SyncedPrefix

\* Closing the old day's handle only ever syncs more of a file.
LEMMA OpenSyncs ==
  ASSUME FaultInv, NEW day \in Days
  PROVE  /\ SyncedAfterOpen(day) \in [Days -> Nat]
         /\ \A d \in Days : synced[d] <= SyncedAfterOpen(day)[d]
         /\ \A d \in Days : SyncedAfterOpen(day)[d] <= Len(seg[d])
         /\ Opened(day) \in [day : Days \union {-1}, pending : Nat, lastFlush : Nat]
         /\ Opened(day).day = day
  BY DEF FaultInv, TypeOK, SyncedPrefix, SyncedAfterOpen, Opened

\* A tick leaves what was applied before it behind the clock.
LEMMA TickCovers ==
  ASSUME FaultInv, up
  PROVE  /\ HlcLess(last, Minted.hlc) /\ Minted.hlc \in Hlcs
         /\ \A o \in mem \ refused : HlcLess(o.hlc, Minted.hlc)
<1>1. last \in Hlcs /\ now \in Nat /\ \A o \in mem : o.hlc \in Hlcs
  BY BoundsAssumption DEF FaultInv, TypeOK, Ops
<1>2. HlcLess(last, Minted.hlc) /\ Minted.hlc \in Hlcs
  BY <1>1, TickAdvances DEF Minted
<1>3. ASSUME NEW o \in mem \ refused PROVE HlcLess(o.hlc, Minted.hlc)
  <2>1. ~HlcLess(last, o.hlc) /\ o.hlc \in Hlcs
    BY <1>1 DEF FaultInv, ClockCovers
  <2>2. HlcLess(o.hlc, last) \/ o.hlc = last
    BY <1>1, <2>1, HlcLessTotal
  <2> QED BY <1>1, <1>2, <2>1, <2>2, HlcLessTransitive
<1> QED BY <1>2, <1>3

\* A clock value that is above one is not below it.
LEMMA AboveNotBelow == \A a, b \in Hlcs : HlcLess(a, b) => ~HlcLess(b, a)
  BY DEF HlcLess, Hlcs

\* A local write keeps the invariant, whatever its segment already holds.
LEMMA LocalWriteFault == FaultInv /\ LocalWrite => FaultInv'
<1> SUFFICES ASSUME FaultInv, LocalWrite PROVE FaultInv'
  OBVIOUS
<1> DEFINE op  == Minted
           day == DayOf(op.hlc)
<1>1. /\ op \in Ops /\ op.hlc \in Hlcs /\ day \in Days
      /\ op.hlc.wall <= MaxNow + MaxSkew + (writes + 1)
  BY MintedFits DEF LocalWrite, FaultInv, InOwnDay
<1>2. /\ up /\ up' = up /\ seg' = [seg EXCEPT ![day] = Append(seg[day], op)]
      /\ last' = op.hlc /\ writes' = writes + 1 /\ writes < MaxWrites
      /\ mem' = mem \union {op} /\ acked' = acked \union {op}
      /\ peer' \in {peer, peer \union {op}}
      /\ UNCHANGED <<now, refused, kept, buried, stops>>
  BY DEF LocalWrite
<1>3. /\ SyncedAfterOpen(day) \in [Days -> Nat]
      /\ \A d \in Days : synced[d] <= SyncedAfterOpen(day)[d]
      /\ \A d \in Days : SyncedAfterOpen(day)[d] <= Len(seg[d])
      /\ Opened(day) \in [day : Days \union {-1}, pending : Nat, lastFlush : Nat]
  BY <1>1, OpenSyncs
<1>4. /\ \/ synced' = SyncedAfterOpen(day)
         \/ synced' = [SyncedAfterOpen(day) EXCEPT ![day] = Len(Append(seg[day], op))]
      /\ \/ handle' = [Opened(day) EXCEPT !.pending = 0, !.lastFlush = now]
         \/ handle' = [Opened(day) EXCEPT !.pending = @ + 1]
  BY DEF LocalWrite
<1>5. HlcLess(last, op.hlc) /\ \A o \in mem \ refused : HlcLess(o.hlc, op.hlc)
  BY <1>2, TickCovers
<1> HIDE DEF op, day
<1>6. /\ \A d \in Days : Len(seg[d]) <= Len(seg'[d])
      /\ Len(seg'[day]) = Len(Append(seg[day], op))
      /\ \A d \in Days : Len(seg'[d]) \in Nat /\ Len(seg[d]) \in Nat
      /\ Len(Append(seg[day], op)) = Len(seg[day]) + 1
      /\ op \in Items
  <2>1. seg \in [Days -> Seq(Items)] /\ op \in Items
    BY <1>1 DEF FaultInv, TypeOK, Items
  <2> QED BY <1>1, <1>2, <2>1, AppendKeeps
<1>7. synced' \in [Days -> Nat] /\ \A d \in Days : synced[d] <= synced'[d] /\ synced'[d] <= Len(seg'[d])
  <2> DEFINE opened == SyncedAfterOpen(day)
  <2>1. synced \in [Days -> Nat] /\ opened \in [Days -> Nat]
    BY <1>3 DEF FaultInv, TypeOK
  <2>2. \A d \in Days : synced[d] <= opened[d] /\ opened[d] <= Len(seg[d])
    BY <1>3
  <2> HIDE DEF opened
  <2>3. CASE synced' = opened
    BY <1>6, <2>1, <2>2, <2>3
  <2>4. CASE synced' = [opened EXCEPT ![day] = Len(Append(seg[day], op))]
    <3>1. Len(Append(seg[day], op)) \in Nat
      BY <1>1, <1>6
    <3>2. synced' \in [Days -> Nat] /\ synced'[day] = Len(seg'[day])
      BY <1>1, <1>6, <2>1, <2>4, <3>1
    <3>3. \A d \in Days \ {day} : synced'[d] = opened[d]
      BY <2>1, <2>4
    <3>4. \A d \in Days : /\ synced[d] \in Nat /\ opened[d] \in Nat
                          /\ Len(seg[d]) \in Nat /\ Len(seg'[d]) \in Nat
                          /\ synced[d] <= Len(seg'[d]) /\ opened[d] <= Len(seg'[d])
      BY <1>6, <2>1, <2>2
    <3>5. synced[day] <= synced'[day] /\ synced'[day] <= Len(seg'[day])
      BY <1>1, <3>2, <3>4
    <3>6. \A d \in Days \ {day} : synced[d] <= synced'[d] /\ synced'[d] <= Len(seg'[d])
      BY <2>2, <3>3, <3>4
    <3> QED BY <3>2, <3>5, <3>6
  <2> QED BY <1>4, <2>3, <2>4 DEF opened
<1>8. /\ seg' \in [Days -> Seq(Items)] /\ SyncedPrefix'
      /\ \A d \in Days : \A i \in 1..Len(seg'[d]) :
           seg'[d][i] # Torn => DayOf(seg'[d][i].hlc) = d
      /\ Disk' \subseteq Disk \union {op}
      /\ \A o \in kept \ buried : \E d \in Days : \E i \in 1..synced'[d] :
           seg'[d][i] = o /\ \A j \in 1..i : seg'[d][j] # Torn
  <2>1. DayOf(op.hlc) = day
    BY DEF day
  <2> QED BY <1>1, <1>2, <1>6, <1>7, <2>1, AppendItem
<1>9. TypeOK'
  <2>1. handle' \in [day : Days \union {-1}, pending : Nat, lastFlush : Nat]
    <3>1. now \in Nat
      BY BoundsAssumption DEF FaultInv, TypeOK
    <3> DEFINE h == Opened(day)
    <3>2. h \in [day : Days \union {-1}, pending : Nat, lastFlush : Nat]
      BY <1>3
    <3>3. handle' = [h EXCEPT !.pending = 0, !.lastFlush = now]
          \/ handle' = [h EXCEPT !.pending = h.pending + 1]
      BY <1>4
    <3> HIDE DEF h
    <3>4. h.day \in Days \union {-1} /\ h.pending \in Nat /\ h.lastFlush \in Nat
          /\ h.pending + 1 \in Nat
      BY <3>2
    <3>5. h = [day |-> h.day, pending |-> h.pending, lastFlush |-> h.lastFlush]
      BY <3>2
    <3>6. handle' = [day |-> h.day, pending |-> 0, lastFlush |-> now]
          \/ handle' = [day |-> h.day, pending |-> h.pending + 1, lastFlush |-> h.lastFlush]
      BY <3>3, <3>5
    <3> QED BY <3>1, <3>4, <3>6
  <2>2. writes' \in 0..MaxWrites
    BY <1>2, BoundsAssumption DEF FaultInv, TypeOK
  <2> QED BY <1>1, <1>2, <1>7, <1>8, <2>1, <2>2 DEF FaultInv, TypeOK, Items
<1>10. InOwnDay'
  BY <1>1, <1>2, <1>8 DEF FaultInv, InOwnDay, day
<1>11. KeptReadable' /\ NothingUnseen'
  BY <1>2, <1>8 DEF FaultInv, KeptReadable, NothingUnseen
<1>12. ClockCovers'
  <2> SUFFICES ASSUME NEW o \in mem' \ refused' PROVE ~HlcLess(op.hlc, o.hlc)
    BY <1>2 DEF ClockCovers
  <2>1. CASE o = op
    BY <1>1, <2>1, HlcLessIrreflexive
  <2>2. CASE o \in mem \ refused
    <3>1. o.hlc \in Hlcs
      BY <2>2 DEF FaultInv, TypeOK, Ops
    <3> QED BY <1>1, <1>5, <2>2, <3>1, AboveNotBelow
  <2> QED BY <1>2, <2>1, <2>2
<1> QED BY <1>8, <1>9, <1>10, <1>11, <1>12 DEF FaultInv

\* A write that fails half way leaves bytes no reader passes, and a later clock.
LEMMA WriteFailsFault == FaultInv /\ LocalWriteFails => FaultInv'
<1> SUFFICES ASSUME FaultInv, LocalWriteFails PROVE FaultInv'
  OBVIOUS
<1> DEFINE op  == Minted
           day == DayOf(op.hlc)
<1>1. /\ op.hlc \in Hlcs /\ day \in Days
      /\ op.hlc.wall <= MaxNow + MaxSkew + (writes + 1)
  BY MintedFits DEF LocalWriteFails, FaultInv, InOwnDay
<1>2. /\ up /\ up' = up /\ seg' = [seg EXCEPT ![day] = Append(seg[day], Torn)]
      /\ last' = op.hlc /\ writes' = writes + 1 /\ writes < MaxWrites
      /\ handle' = Opened(day) /\ synced' = SyncedAfterOpen(day)
      /\ UNCHANGED <<now, mem, refused, peer, acked, kept, buried, stops>>
  BY DEF LocalWriteFails
<1>3. /\ synced' \in [Days -> Nat]
      /\ \A d \in Days : synced[d] <= synced'[d] /\ synced'[d] <= Len(seg[d])
      /\ handle' \in [day : Days \union {-1}, pending : Nat, lastFlush : Nat]
  BY <1>1, <1>2, OpenSyncs
<1>4. \A o \in mem \ refused : HlcLess(o.hlc, op.hlc)
  BY <1>2, TickCovers
<1> HIDE DEF op, day
<1>5. seg \in [Days -> Seq(Items)] /\ Torn \in Items
  BY DEF FaultInv, TypeOK, Items
<1>6. \A d \in Days : synced[d] <= synced'[d] /\ synced'[d] <= Len(seg'[d])
  <2>1. \A d \in Days : Len(seg[d]) <= Len(seg'[d]) /\ Len(seg[d]) \in Nat /\ Len(seg'[d]) \in Nat
    BY <1>1, <1>2, <1>5, AppendKeeps
  <2> QED BY <1>3, <2>1
<1>7. /\ seg' \in [Days -> Seq(Items)] /\ SyncedPrefix'
      /\ \A d \in Days : \A i \in 1..Len(seg'[d]) :
           seg'[d][i] # Torn => DayOf(seg'[d][i].hlc) = d
      /\ Disk' \subseteq Disk
      /\ \A o \in kept \ buried : \E d \in Days : \E i \in 1..synced'[d] :
           seg'[d][i] = o /\ \A j \in 1..i : seg'[d][j] # Torn
  BY <1>1, <1>2, <1>3, <1>5, <1>6, AppendItem
<1>8. TypeOK'
  <2>1. writes' \in 0..MaxWrites
    BY <1>2, BoundsAssumption DEF FaultInv, TypeOK
  <2> QED BY <1>1, <1>2, <1>3, <1>7, <2>1 DEF FaultInv, TypeOK, Items
<1>9. InOwnDay' /\ KeptReadable' /\ NothingUnseen'
  BY <1>1, <1>2, <1>7 DEF FaultInv, InOwnDay, KeptReadable, NothingUnseen
<1>10. ClockCovers'
  <2> SUFFICES ASSUME NEW o \in mem \ refused PROVE ~HlcLess(op.hlc, o.hlc)
    BY <1>2 DEF ClockCovers
  <2>1. o.hlc \in Hlcs
    BY DEF FaultInv, TypeOK, Ops
  <2> QED BY <1>1, <1>4, <2>1, AboveNotBelow
<1> QED BY <1>7, <1>8, <1>9, <1>10 DEF FaultInv

\* A received operation is synced before it is acknowledged, and observed unless
\* the skew bound refuses it.
LEMMA InboundFault == ASSUME FaultInv, NEW op \in Remote \union peer, Inbound(op) PROVE FaultInv'
<1> DEFINE day == DayOf(op.hlc)
<1>1. op \in Ops /\ op.hlc \in Hlcs /\ day \in Days
  BY RemoteAssumption DEF FaultInv, TypeOK, InOwnDay, Ops, DayOf, Days
<1>2. /\ up /\ up' = up /\ seg' = [seg EXCEPT ![day] = Append(seg[day], op)]
      /\ synced' = [synced EXCEPT ![day] = Len(seg[day]) + 1]
      /\ last' = ObserveFrom(last, op.hlc, now)
      /\ mem' = mem \union {op} /\ kept' = kept \union {op}
      /\ buried' = IF GoodLen(seg[day]) = Len(seg[day]) THEN buried ELSE buried \union {op}
      /\ refused' = IF Refused(op.hlc, now) THEN refused \union {op} ELSE refused
      /\ UNCHANGED <<now, handle, peer, acked, writes, stops>>
  BY DEF Inbound, Buried
<1> HIDE DEF day
<1>3. seg \in [Days -> Seq(Items)] /\ op \in Items /\ op # Torn
  BY <1>1, TornIsNoOp DEF FaultInv, TypeOK, Items
<1>4. /\ \A d \in Days : Len(seg[d]) <= Len(seg'[d]) /\ Len(seg'[d]) \in Nat /\ Len(seg[d]) \in Nat
      /\ Len(seg'[day]) = Len(seg[day]) + 1 /\ seg'[day][Len(seg[day]) + 1] = op
      /\ \A i \in 1..Len(seg[day]) : seg'[day][i] = seg[day][i]
  BY <1>1, <1>2, <1>3, AppendKeeps
<1>5. synced' \in [Days -> Nat] /\ \A d \in Days : synced[d] <= synced'[d] /\ synced'[d] <= Len(seg'[d])
  <2>1. synced \in [Days -> Nat] /\ \A d \in Days : synced[d] <= Len(seg[d])
    BY DEF FaultInv, TypeOK, SyncedPrefix
  <2> QED BY <1>1, <1>2, <1>4, <2>1
<1>6. /\ seg' \in [Days -> Seq(Items)] /\ SyncedPrefix'
      /\ \A d \in Days : \A i \in 1..Len(seg'[d]) :
           seg'[d][i] # Torn => DayOf(seg'[d][i].hlc) = d
      /\ Disk' \subseteq Disk \union {op}
      /\ \A o \in kept \ buried : \E d \in Days : \E i \in 1..synced'[d] :
           seg'[d][i] = o /\ \A j \in 1..i : seg'[d][j] # Torn
  <2>1. DayOf(op.hlc) = day
    BY DEF day
  <2> QED BY <1>1, <1>2, <1>3, <1>5, <2>1, AppendItem
<1>7. /\ last \in Hlcs /\ last' \in Hlcs /\ last'.wall <= MaxNow + MaxSkew + writes
      /\ ~HlcLess(last', last)
      /\ ~Refused(op.hlc, now) => ~HlcLess(last', op.hlc)
  <2>1. last \in Hlcs /\ now \in Nat /\ now <= MaxNow /\ writes \in Nat
        /\ last.wall <= MaxNow + MaxSkew + writes
    BY BoundsAssumption DEF FaultInv, TypeOK, InOwnDay
  <2>2. last' \in Hlcs /\ ~HlcLess(last', last) /\ (~Refused(op.hlc, now) => ~HlcLess(last', op.hlc))
    BY <1>1, <1>2, <2>1, ObserveKeeps
  <2>3. ~Refused(op.hlc, now) => op.hlc.wall <= MaxNow + MaxSkew + writes
    BY <1>1, <2>1, MaxSkewAssumption, BoundsAssumption DEF Refused, Hlcs
  <2> QED BY <1>2, <2>1, <2>2, <2>3 DEF ObserveFrom
<1>8. TypeOK'
  BY <1>1, <1>2, <1>5, <1>6, <1>7 DEF FaultInv, TypeOK, Items
<1>9. InOwnDay' /\ NothingUnseen'
  BY <1>2, <1>6, <1>7 DEF FaultInv, InOwnDay, NothingUnseen
<1>10. KeptReadable'
  <2> SUFFICES ASSUME NEW o \in kept' \ buried'
               PROVE  \E d \in Days : \E i \in 1..synced'[d] :
                        seg'[d][i] = o /\ \A j \in 1..i : seg'[d][j] # Torn
    BY DEF KeptReadable
  <2>1. CASE o \in kept \ buried
    BY <1>6, <2>1
  <2>2. CASE o \notin kept \ buried
    <3>1. o = op /\ GoodLen(seg[day]) = Len(seg[day])
      BY <1>2, <2>2
    <3>2. \A j \in 1..Len(seg[day]) : seg'[day][j] # Torn
      BY <1>1, <1>3, <1>4, <3>1, GoodLenStops
    <3>3. \A j \in 1..Len(seg[day]) + 1 : seg'[day][j] # Torn
      BY <1>1, <1>3, <1>4, <3>2
    <3>4. Len(seg[day]) + 1 \in 1..synced'[day]
      BY <1>1, <1>2, <1>4, <1>5 DEF FaultInv, TypeOK
    <3> QED BY <1>1, <1>4, <3>1, <3>3, <3>4
  <2> QED BY <2>1, <2>2
<1>11. ClockCovers'
  <2> SUFFICES ASSUME NEW o \in mem' \ refused' PROVE ~HlcLess(last', o.hlc)
    BY DEF ClockCovers
  <2>1. CASE o \in mem \ refused
    <3>1. ~HlcLess(last, o.hlc) /\ o.hlc \in Hlcs
      BY <1>2, <2>1 DEF FaultInv, ClockCovers, TypeOK, Ops
    <3>2. ~HlcLess(last', o.hlc)
      BY <1>7, <3>1, HlcLessTotal, HlcLessTransitive
    <3> QED BY <3>2
  <2>2. CASE o \notin mem \ refused
    <3>1. o = op /\ ~Refused(op.hlc, now)
      BY <1>2, <2>2
    <3> QED BY <1>7, <3>1
  <2> QED BY <2>1, <2>2
<1> QED BY <1>6, <1>8, <1>9, <1>10, <1>11 DEF FaultInv

\* A received batch that fails half way changes nothing a reader sees.
LEMMA InboundFailsFault ==
  ASSUME FaultInv, NEW op \in Remote \union peer, InboundFails(op) PROVE FaultInv'
<1> DEFINE day == DayOf(op.hlc)
<1>1. day \in Days
  BY RemoteAssumption DEF FaultInv, TypeOK, InOwnDay, Ops, DayOf, Days
<1>2. /\ up /\ seg' = [seg EXCEPT ![day] = Append(seg[day], Torn)]
      /\ UNCHANGED <<now, last, up, synced, handle, mem, refused, peer, acked,
                     kept, buried, writes, stops>>
  BY DEF InboundFails
<1> HIDE DEF day
<1>3. seg \in [Days -> Seq(Items)] /\ Torn \in Items /\ synced \in [Days -> Nat]
  BY DEF FaultInv, TypeOK, Items
<1>4. \A d \in Days : synced[d] <= synced'[d] /\ synced'[d] <= Len(seg'[d])
  <2>1. \A d \in Days : Len(seg[d]) <= Len(seg'[d]) /\ Len(seg[d]) \in Nat /\ Len(seg'[d]) \in Nat
    BY <1>1, <1>2, <1>3, AppendKeeps
  <2> QED BY <1>2, <1>3, <2>1 DEF FaultInv, SyncedPrefix
<1>5. /\ seg' \in [Days -> Seq(Items)] /\ SyncedPrefix'
      /\ \A d \in Days : \A i \in 1..Len(seg'[d]) :
           seg'[d][i] # Torn => DayOf(seg'[d][i].hlc) = d
      /\ Disk' \subseteq Disk
      /\ \A o \in kept \ buried : \E d \in Days : \E i \in 1..synced'[d] :
           seg'[d][i] = o /\ \A j \in 1..i : seg'[d][j] # Torn
  BY <1>1, <1>2, <1>3, <1>4, AppendItem
<1> QED BY <1>2, <1>5 DEF FaultInv, TypeOK, Items, InOwnDay, KeptReadable,
                          NothingUnseen, ClockCovers

\* The clock moves without the daemon, and the daemon's own clock stays.
LEMMA ClockFault == FaultInv /\ (ClockForward \/ ClockBack) => FaultInv'
<1> SUFFICES ASSUME FaultInv, ClockForward \/ ClockBack PROVE FaultInv'
  OBVIOUS
<1>1. now' \in 0..MaxNow
  BY BoundsAssumption DEF FaultInv, TypeOK, ClockForward, ClockBack
<1>2. UNCHANGED <<last, up, seg, synced, handle, mem, refused, peer, acked, kept, buried, writes, stops>>
  BY DEF ClockForward, ClockBack
<1>3. Disk' = Disk
  BY <1>2 DEF Disk
<1> QED BY <1>1, <1>2, <1>3 DEF FaultInv, TypeOK, InOwnDay, SyncedPrefix, KeptReadable,
                                NothingUnseen, ClockCovers

\* A pull hands out bytes of the segment and changes nothing here.
LEMMA PeerPullFault == ASSUME FaultInv, NEW d \in Days, PeerPull(d) PROVE FaultInv'
<1>1. /\ peer' = peer \union ReadOps(seg[d])
      /\ UNCHANGED <<now, last, up, seg, synced, handle, mem, refused, acked, kept, buried, writes, stops>>
  BY DEF PeerPull
<1>2. Disk' = Disk /\ ReadOps(seg[d]) \subseteq Disk
  BY <1>1 DEF Disk
<1>3. \A o \in peer' : o \in Ops /\ DayOf(o.hlc) \in Days
  BY <1>1, <1>2, DiskTyped DEF FaultInv, TypeOK, InOwnDay
<1>4. TypeOK'
  BY <1>1, <1>3 DEF FaultInv, TypeOK
<1>5. InOwnDay' /\ SyncedPrefix'
  BY <1>1, <1>3 DEF FaultInv, InOwnDay, SyncedPrefix
<1>6. KeptReadable' /\ NothingUnseen' /\ ClockCovers'
  BY <1>1, <1>2 DEF FaultInv, KeptReadable, NothingUnseen, ClockCovers
<1> QED BY <1>4, <1>5, <1>6 DEF FaultInv

\* The volatile state of a stopped daemon.
LEMMA StoppedTyped ==
  ASSUME FaultInv, Stopped
  PROVE  /\ up /\ up' = FALSE /\ mem' = {} /\ refused' = {} /\ stops' \in 0..MaxStops
         /\ last' \in Hlcs /\ last'.wall = 0 /\ last'.wall <= MaxNow + MaxSkew + writes
         /\ handle' \in [day : Days \union {-1}, pending : Nat, lastFlush : Nat]
<1>1. writes \in Nat /\ MaxNow + MaxSkew + writes \in Nat
  BY BoundsAssumption, MaxSkewAssumption DEF FaultInv, TypeOK
<1> QED BY <1>1, CounterMaxAssumption, BoundsAssumption
           DEF FaultInv, TypeOK, Stopped, ZeroHlc, Hlcs, NoHandle

\* A clean stop or a kill loses memory, and nothing of the segments.
LEMMA StopFault == FaultInv /\ (Stop \/ Crash) => FaultInv'
<1> SUFFICES ASSUME FaultInv, Stop \/ Crash PROVE FaultInv'
  OBVIOUS
<1>1. /\ Stopped
      /\ UNCHANGED <<now, seg, peer, acked, kept, buried, writes>>
      /\ \/ synced' = synced
         \/ handle.pending > 0 /\ synced' = [synced EXCEPT ![handle.day] = Len(seg[handle.day])]
  BY DEF Stop, Crash
<1>2. /\ synced' \in [Days -> Nat]
      /\ \A d \in Days : synced[d] <= synced'[d] /\ synced'[d] <= Len(seg[d])
  <2>1. /\ synced \in [Days -> Nat] /\ \A d \in Days : synced[d] <= Len(seg[d])
        /\ \A d \in Days : Len(seg[d]) \in Nat
    BY DEF FaultInv, TypeOK, SyncedPrefix
  <2>2. CASE synced' = synced
    BY <2>1, <2>2
  <2>3. CASE synced' = [synced EXCEPT ![handle.day] = Len(seg[handle.day])]
    <3>1. synced' \in [Days -> Nat]
      <4>1. CASE handle.day \in Days
        BY <2>1, <2>3, <4>1
      <4>2. CASE handle.day \notin Days
        BY <2>1, <2>3, <4>2
      <4> QED BY <4>1, <4>2
    <3>2. \A d \in Days : synced'[d] = IF d = handle.day THEN Len(seg[d]) ELSE synced[d]
      BY <2>1, <2>3
    <3> QED BY <2>1, <3>1, <3>2
  <2> QED BY <1>1, <2>2, <2>3
<1>3. TypeOK'
  BY <1>1, <1>2, StoppedTyped DEF FaultInv, TypeOK
<1>4. SyncedPrefix' /\ InOwnDay' /\ NothingUnseen' /\ ClockCovers'
  BY <1>1, <1>2, StoppedTyped DEF FaultInv, SyncedPrefix, InOwnDay, NothingUnseen, ClockCovers
<1>5. KeptReadable'
  <2> SUFFICES ASSUME NEW o \in kept \ buried
               PROVE  \E d \in Days : \E i \in 1..synced'[d] :
                        seg[d][i] = o /\ \A j \in 1..i : seg[d][j] # Torn
    BY <1>1 DEF KeptReadable
  <2>1. PICK d \in Days : \E i \in 1..synced[d] :
          seg[d][i] = o /\ \A j \in 1..i : seg[d][j] # Torn
    BY DEF FaultInv, KeptReadable
  <2>2. synced[d] \in Nat /\ synced'[d] \in Nat /\ synced[d] <= synced'[d]
    BY <1>2 DEF FaultInv, TypeOK
  <2> QED BY <2>1, <2>2
<1> QED BY <1>3, <1>4, <1>5 DEF FaultInv

\* A kill inside a write leaves the whole batch, none of it or a torn tail.
LEMMA CrashInWriteFault == FaultInv /\ CrashInWrite => FaultInv'
<1> SUFFICES ASSUME FaultInv, CrashInWrite PROVE FaultInv'
  OBVIOUS
<1> DEFINE op  == Minted
           day == DayOf(op.hlc)
<1>1. op \in Ops /\ day \in Days
  BY MintedFits DEF CrashInWrite, FaultInv, InOwnDay
<1>2. PICK item \in {op, Torn} : seg' = [seg EXCEPT ![day] = Append(seg[day], item)]
  BY DEF CrashInWrite
<1>3. /\ Stopped /\ writes < MaxWrites /\ writes' = writes + 1
      /\ synced' = SyncedAfterOpen(day)
      /\ UNCHANGED <<now, peer, acked, kept, buried>>
  BY DEF CrashInWrite
<1>4. /\ synced' \in [Days -> Nat]
      /\ \A d \in Days : synced[d] <= synced'[d] /\ synced'[d] <= Len(seg[d])
  BY <1>1, <1>3, OpenSyncs
<1>5. DayOf(op.hlc) = day
  OBVIOUS
<1> HIDE DEF op, day
<1>6. seg \in [Days -> Seq(Items)] /\ item \in Items /\ (item # Torn => DayOf(item.hlc) = day)
  BY <1>1, <1>5 DEF FaultInv, TypeOK, Items
<1>7. \A d \in Days : synced[d] <= synced'[d] /\ synced'[d] <= Len(seg'[d])
  <2>1. \A d \in Days : Len(seg[d]) <= Len(seg'[d]) /\ Len(seg[d]) \in Nat /\ Len(seg'[d]) \in Nat
    BY <1>1, <1>2, <1>6, AppendKeeps
  <2> QED BY <1>4, <2>1
<1>8. /\ seg' \in [Days -> Seq(Items)] /\ SyncedPrefix'
      /\ \A d \in Days : \A i \in 1..Len(seg'[d]) :
           seg'[d][i] # Torn => DayOf(seg'[d][i].hlc) = d
      /\ \A o \in kept \ buried : \E d \in Days : \E i \in 1..synced'[d] :
           seg'[d][i] = o /\ \A j \in 1..i : seg'[d][j] # Torn
  BY <1>1, <1>2, <1>4, <1>6, <1>7, AppendItem
<1>9. writes' \in 0..MaxWrites /\ last'.wall <= MaxNow + MaxSkew + writes'
  <2>1. last'.wall = 0
    BY <1>3, StoppedTyped
  <2>2. writes \in Nat
    BY BoundsAssumption DEF FaultInv, TypeOK
  <2> QED BY <1>3, <2>1, <2>2, BoundsAssumption, MaxSkewAssumption
<1>10. TypeOK'
  BY <1>3, <1>4, <1>8, <1>9, StoppedTyped DEF FaultInv, TypeOK, Items
<1>11. InOwnDay' /\ KeptReadable' /\ NothingUnseen' /\ ClockCovers'
  BY <1>3, <1>8, <1>9, StoppedTyped
     DEF FaultInv, InOwnDay, KeptReadable, NothingUnseen, ClockCovers
<1> QED BY <1>8, <1>10, <1>11 DEF FaultInv

\* Of every file the power loss keeps at least the synced part.
LEMMA LosePowerFault == FaultInv /\ LosePower => FaultInv'
<1> SUFFICES ASSUME FaultInv, LosePower PROVE FaultInv'
  OBVIOUS
<1>1. PICK len \in [Days -> 0..SegmentCap + MaxWrites], half \in SUBSET Days :
        /\ \A d \in Days : synced[d] <= len[d] /\ len[d] <= Len(seg[d])
        /\ seg' = [d \in Days |->
                     IF d \in half THEN Append(SubSeq(seg[d], 1, len[d]), Torn)
                                   ELSE SubSeq(seg[d], 1, len[d])]
  BY DEF LosePower
<1>2. PowerLoss /\ Stopped /\ UNCHANGED <<now, synced, peer, acked, kept, buried, writes>>
  BY DEF LosePower
<1>3. ASSUME NEW d \in Days
      PROVE  /\ seg'[d] \in Seq(Items) /\ len[d] \in Nat /\ len[d] <= Len(seg'[d])
             /\ \A i \in 1..len[d] : i \in 1..Len(seg[d]) /\ seg'[d][i] = seg[d][i]
             /\ \A i \in 1..Len(seg'[d]) : i \in 1..len[d] \/ seg'[d][i] = Torn
  <2> DEFINE short == SubSeq(seg[d], 1, len[d])
  <2>1. /\ seg[d] \in Seq(Items) /\ len[d] \in Nat /\ len[d] <= Len(seg[d])
        /\ Len(seg[d]) \in Nat
    BY <1>1, BoundsAssumption DEF FaultInv, TypeOK, Items
  <2>2. \A i \in 1..len[d] : i \in 1..Len(seg[d]) /\ seg[d][i] \in Items
    BY <2>1
  <2>3. short \in Seq(Items) /\ Len(short) = len[d] /\ \A i \in 1..len[d] : short[i] = seg[d][i]
    BY <2>1, <2>2
  <2>4. (seg'[d] = short \/ seg'[d] = Append(short, Torn)) /\ Torn \in Items
    BY <1>1 DEF Items
  <2> HIDE DEF short
  <2>5. CASE seg'[d] = short
    BY <2>1, <2>2, <2>3, <2>5
  <2>6. CASE seg'[d] = Append(short, Torn)
    <3>1. /\ seg'[d] \in Seq(Items) /\ Len(seg'[d]) = len[d] + 1
          /\ seg'[d][len[d] + 1] = Torn /\ \A i \in 1..len[d] : seg'[d][i] = short[i]
      BY <2>3, <2>4, <2>6
    <3> QED BY <2>1, <2>2, <2>3, <3>1
  <2> QED BY <2>4, <2>5, <2>6
<1>4. TypeOK'
  <2>1. seg' \in [Days -> Seq(Items)]
    BY <1>1, <1>3
  <2> QED BY <1>2, <2>1, StoppedTyped DEF FaultInv, TypeOK, Items
<1>5. SyncedPrefix'
  <2> SUFFICES ASSUME NEW d \in Days PROVE synced[d] <= Len(seg'[d])
    BY <1>2 DEF SyncedPrefix
  <2>1. synced[d] \in Nat /\ len[d] \in Nat /\ Len(seg'[d]) \in Nat
    BY <1>3 DEF FaultInv, TypeOK
  <2> QED BY <1>1, <1>3, <2>1
<1>6. InOwnDay'
  <2>1. \A d \in Days : \A i \in 1..Len(seg'[d]) :
          seg'[d][i] # Torn => DayOf(seg'[d][i].hlc) = d
    BY <1>3 DEF FaultInv, InOwnDay
  <2> QED BY <1>2, <2>1, StoppedTyped DEF FaultInv, InOwnDay
<1>7. KeptReadable'
  <2> SUFFICES ASSUME NEW o \in kept \ buried
               PROVE  \E d \in Days : \E i \in 1..synced[d] :
                        seg'[d][i] = o /\ \A j \in 1..i : seg'[d][j] # Torn
    BY <1>2 DEF KeptReadable
  <2>1. PICK d \in Days : \E i \in 1..synced[d] :
          seg[d][i] = o /\ \A j \in 1..i : seg[d][j] # Torn
    BY DEF FaultInv, KeptReadable
  <2> PICK i \in 1..synced[d] : seg[d][i] = o /\ \A j \in 1..i : seg[d][j] # Torn
    BY <2>1
  <2>2. synced[d] \in Nat /\ len[d] \in Nat /\ synced[d] <= len[d]
    BY <1>1, <1>3 DEF FaultInv, TypeOK
  <2>3. i \in 1..len[d] /\ \A j \in 1..i : j \in 1..len[d]
    BY <2>2
  <2>4. \A j \in 1..i : seg'[d][j] = seg[d][j]
    BY <1>3, <2>3
  <2> QED BY <2>1, <2>3, <2>4
<1>8. NothingUnseen' /\ ClockCovers'
  BY <1>2, StoppedTyped DEF NothingUnseen, ClockCovers
<1> QED BY <1>4, <1>5, <1>6, <1>7, <1>8 DEF FaultInv

\* What a start leaves of the files: their readable prefixes.
LEMMA StartTruncates ==
  ASSUME TypeOK, Start, NEW d \in Days
  PROVE  /\ seg[d] \in Seq(Items) /\ GoodLen(seg[d]) \in 0..Len(seg[d])
         /\ seg'[d] \in Seq(Items) /\ Len(seg'[d]) = GoodLen(seg[d])
         /\ \A i \in 1..GoodLen(seg[d]) : seg'[d][i] = seg[d][i] /\ seg[d][i] # Torn
         /\ Whole(seg'[d]) /\ ReadOps(seg'[d]) = ReadOps(seg[d])
<1> DEFINE n == GoodLen(seg[d])
<1>1. seg[d] \in Seq(Items) /\ seg'[d] = SubSeq(seg[d], 1, n)
  BY DEF TypeOK, Items, Start
<1>2. n \in 0..Len(seg[d]) /\ \A i \in 1..n : seg[d][i] # Torn
  BY <1>1, GoodLenStops
<1> HIDE DEF n
<1>3. \A i \in 1..n : seg[d][i] \in Items
  BY <1>1, <1>2
<1>4. seg'[d] \in Seq(Items) /\ Len(seg'[d]) = n /\ \A i \in 1..n : seg'[d][i] = seg[d][i]
  BY <1>1, <1>2, <1>3
<1>5. Whole(seg'[d])
  BY <1>2, <1>4 DEF Whole
<1>6. ReadOps(seg'[d]) = {seg'[d][i] : i \in 1..n}
  BY <1>4, <1>5, GoodLenWhole
<1>7. ReadOps(seg[d]) = {seg[d][i] : i \in 1..n}
  BY DEF ReadOps, n
<1>8. ReadOps(seg'[d]) = ReadOps(seg[d])
  BY <1>4, <1>6, <1>7
<1> QED BY <1>1, <1>2, <1>4, <1>5, <1>8 DEF n

\* A start truncates what it cannot read, and shows what it can.
LEMMA StartFault == FaultInv /\ Start => FaultInv' /\ Disk' = Disk
<1> SUFFICES ASSUME FaultInv, Start PROVE FaultInv' /\ Disk' = Disk
  OBVIOUS
<1>1. /\ now' = now + 1 /\ now < MaxNow /\ up' = TRUE
      /\ synced' = [d \in Days |-> IF synced[d] <= GoodLen(seg[d]) THEN synced[d]
                                                                   ELSE GoodLen(seg[d])]
      /\ mem' = Disk
      /\ last' = ReplayFrom({o.hlc : o \in Disk}, now')
      /\ refused' = {o \in Disk : Refused(o.hlc, now')}
      /\ UNCHANGED <<handle, peer, acked, kept, buried, writes, stops>>
  BY DEF Start
<1>2. Disk \subseteq Ops
  BY DiskTyped DEF FaultInv
<1>3. ASSUME NEW d \in Days
      PROVE  /\ seg[d] \in Seq(Items) /\ GoodLen(seg[d]) \in 0..Len(seg[d])
             /\ seg'[d] \in Seq(Items) /\ Len(seg'[d]) = GoodLen(seg[d])
             /\ \A i \in 1..GoodLen(seg[d]) : seg'[d][i] = seg[d][i] /\ seg[d][i] # Torn
             /\ ReadOps(seg'[d]) = ReadOps(seg[d])
  BY StartTruncates DEF FaultInv
<1>4. Disk' = Disk
  BY <1>3 DEF Disk
<1>5. /\ last' \in Hlcs /\ last'.wall <= MaxNow + MaxSkew + writes'
      /\ \A o \in mem' \ refused' : ~HlcLess(last', o.hlc)
  <2> DEFINE hlcs == {o.hlc : o \in Disk}
  <2>1. now' \in Nat /\ now' <= MaxNow /\ hlcs \in SUBSET Hlcs /\ writes' \in Nat
    <3>1. now \in 0..MaxNow /\ writes \in 0..MaxWrites
      BY DEF FaultInv, TypeOK
    <3>2. now' \in Nat /\ now' <= MaxNow /\ writes' \in Nat
      BY <1>1, <3>1, BoundsAssumption
    <3>3. hlcs \in SUBSET Hlcs
      BY <1>2 DEF Ops
    <3> QED BY <3>2, <3>3
  <2>2. \A o \in Disk : o.hlc \in hlcs
    OBVIOUS
  <2> HIDE DEF hlcs
  <2>3. /\ ReplayFrom(hlcs, now') \in Hlcs /\ ~Refused(ReplayFrom(hlcs, now'), now')
        /\ \A h \in hlcs : ~Refused(h, now') => ~HlcLess(ReplayFrom(hlcs, now'), h)
    BY <2>1, ReplayDominates
  <2>4. last' = ReplayFrom(hlcs, now')
    BY <1>1 DEF hlcs
  <2>5. last'.wall \in Nat /\ last'.wall <= now' + MaxSkew
    BY <2>1, <2>3, <2>4, MaxSkewAssumption DEF Refused, Hlcs
  <2>6. last'.wall <= MaxNow + MaxSkew + writes'
    BY <2>1, <2>5, MaxSkewAssumption, BoundsAssumption
  <2> QED BY <1>1, <2>2, <2>3, <2>4, <2>6
<1>6. synced' \in [Days -> Nat] /\ \A d \in Days : synced'[d] <= Len(seg'[d])
  <2>1. \A d \in Days : synced[d] \in Nat /\ GoodLen(seg[d]) \in Nat
    BY <1>3 DEF FaultInv, TypeOK
  <2>2. \A d \in Days : synced'[d] \in Nat /\ synced'[d] <= GoodLen(seg[d])
    BY <1>1, <2>1
  <2> QED BY <1>1, <1>3, <2>2
<1>7. TypeOK'
  <2>1. seg' \in [Days -> Seq(Items)]
    BY <1>3 DEF Start
  <2>2. now' \in 0..MaxNow
    BY <1>1, BoundsAssumption DEF FaultInv, TypeOK
  <2>3. mem' \subseteq Ops /\ refused' \subseteq Ops /\ last' \in Hlcs /\ up' \in BOOLEAN
    BY <1>1, <1>2, <1>5
  <2>4. synced' \in [Days -> Nat]
    BY <1>6
  <2> QED BY <1>1, <2>1, <2>2, <2>3, <2>4 DEF FaultInv, TypeOK, Items
<1>8. InOwnDay'
  <2>1. \A d \in Days : \A i \in 1..Len(seg'[d]) : DayOf(seg'[d][i].hlc) = d
    BY <1>3 DEF FaultInv, InOwnDay
  <2> QED BY <1>1, <1>5, <2>1 DEF FaultInv, InOwnDay
<1>9. KeptReadable'
  <2> SUFFICES ASSUME NEW o \in kept \ buried
               PROVE  \E d \in Days : \E i \in 1..synced'[d] :
                        seg'[d][i] = o /\ \A j \in 1..i : seg'[d][j] # Torn
    BY <1>1 DEF KeptReadable
  <2>1. PICK d \in Days : \E i \in 1..synced[d] :
          seg[d][i] = o /\ \A j \in 1..i : seg[d][j] # Torn
    BY DEF FaultInv, KeptReadable
  <2> PICK i \in 1..synced[d] : seg[d][i] = o /\ \A j \in 1..i : seg[d][j] # Torn
    BY <2>1
  <2>2. synced[d] \in Nat /\ Len(seg[d]) \in Nat /\ synced[d] <= Len(seg[d])
        /\ seg[d] \in Seq(Items)
    BY DEF FaultInv, TypeOK, Items, SyncedPrefix
  <2>3. i \in 1..GoodLen(seg[d])
    BY <2>2, ReadUpTo
  <2>4. i \in 1..synced'[d] /\ \A j \in 1..i : j \in 1..GoodLen(seg[d])
    BY <1>1, <1>3, <2>2, <2>3
  <2>5. \A j \in 1..i : seg'[d][j] = seg[d][j]
    BY <1>3, <2>4
  <2> QED BY <2>4, <2>5
<1>10. SyncedPrefix' /\ NothingUnseen' /\ ClockCovers'
  BY <1>1, <1>4, <1>5, <1>6 DEF SyncedPrefix, NothingUnseen, ClockCovers
<1> QED BY <1>4, <1>7, <1>8, <1>9, <1>10 DEF FaultInv

\* Every step keeps it, for daemons and machines that fail in any of these ways.
LEMMA StepFaultInv == FaultInv /\ [Next]_vars => FaultInv'
<1> SUFFICES ASSUME FaultInv, [Next]_vars PROVE FaultInv'
  OBVIOUS
<1>1. CASE ClockForward \/ ClockBack
  BY <1>1, ClockFault
<1>2. CASE LocalWrite
  BY <1>2, LocalWriteFault
<1>3. CASE LocalWriteFails
  BY <1>3, WriteFailsFault
<1>4. CASE \E op \in Remote \union peer : Inbound(op)
  BY <1>4, InboundFault
<1>5. CASE \E op \in Remote \union peer : InboundFails(op)
  BY <1>5, InboundFailsFault
<1>6. CASE \E d \in Days : PeerPull(d)
  BY <1>6, PeerPullFault
<1>7. CASE Stop \/ Crash
  BY <1>7, StopFault
<1>8. CASE CrashInWrite
  BY <1>8, CrashInWriteFault
<1>9. CASE LosePower
  BY <1>9, LosePowerFault
<1>10. CASE Start
  BY <1>10, StartFault
<1>11. CASE UNCHANGED vars
  <2>1. Disk' = Disk
    BY <1>11 DEF vars, Disk
  <2> QED BY <1>11, <2>1 DEF vars, FaultInv, TypeOK, InOwnDay, SyncedPrefix, KeptReadable,
                             NothingUnseen, ClockCovers
<1> QED BY <1>1, <1>2, <1>3, <1>4, <1>5, <1>6, <1>7, <1>8, <1>9, <1>10, <1>11 DEF Next

\* Whatever fails, the log is well formed, and the promises that need no help from
\* the machine or the disk hold.
THEOREM FaultInvariant == Spec => []FaultInv
<1>1. Init => FaultInv
  BY InitFaultInv
<1> QED BY <1>1, StepFaultInv, PTL DEF Spec

\* What lies readable in the synced part is on the disk.
LEMMA KeptReadableOnDisk == FaultInv => KeptSurvives
<1> SUFFICES ASSUME FaultInv, NEW o \in kept \ buried PROVE o \in Disk
  BY DEF KeptSurvives
<1>1. PICK d \in Days : \E i \in 1..synced[d] :
        seg[d][i] = o /\ \A j \in 1..i : seg[d][j] # Torn
  BY DEF FaultInv, KeptReadable
<1> PICK i \in 1..synced[d] : seg[d][i] = o /\ \A j \in 1..i : seg[d][j] # Torn
  BY <1>1
<1>2. seg[d] \in Seq(Items) /\ synced[d] \in Nat /\ synced[d] <= Len(seg[d])
  BY DEF FaultInv, TypeOK, Items, SyncedPrefix
<1>3. i \in 1..GoodLen(seg[d])
  BY <1>2, ReadUpTo
<1> QED BY <1>3 DEF Disk, ReadOps

(* Whatever a peer was told we hold is read back by every later start, but   *)
(* for what was appended behind the bytes of a write that failed half way.   *)
THEOREM KeptAlwaysSurvives == Spec => []KeptSurvives
  BY FaultInvariant, KeptReadableOnDisk, PTL

(* A start never shows an operation that the running daemon did not.         *)
THEOREM NothingEverUnseen == Spec => []NothingUnseen
<1>1. FaultInv => NothingUnseen
  BY DEF FaultInv
<1> QED BY <1>1, FaultInvariant, PTL

(* A local write dominates whatever was applied before it and observed, with *)
(* any clock that steps back, any restart and any failure in between.        *)
THEOREM WritesAlwaysDominate == Spec => WritesDominate
<1> DEFINE Dominates ==
      \A o \in acked' \ acked : \A p \in mem \ refused : HlcLess(p.hlc, o.hlc)
<1>1. FaultInv /\ [Next]_vars => [Dominates]_vars
  <2> SUFFICES ASSUME FaultInv, Next PROVE Dominates
    OBVIOUS
  <2>1. CASE LocalWrite
    <3>1. up /\ acked' = acked \union {Minted}
      BY <2>1 DEF LocalWrite
    <3> QED BY <3>1, TickCovers
  <2>2. CASE ~LocalWrite
    <3>1. acked' = acked
      BY <2>2 DEF Next, ClockForward, ClockBack, LocalWriteFails, Inbound, InboundFails,
                  PeerPull, Stop, Crash, CrashInWrite, LosePower, Start
    <3> QED BY <3>1
  <2> QED BY <2>1, <2>2
<1> QED BY <1>1, FaultInvariant, PTL DEF Spec, WritesDominate

------------------------------------------------------------------------------
(* For daemons whose writes do not fail half way *)

\* A running daemon's whole files gain one operation.
LEMMA AppendOpInv ==
  ASSUME FaultInv, FilesReadable, up, NEW op \in Ops, NEW day \in Days,
         seg' = [seg EXCEPT ![day] = Append(seg[day], op)]
  PROVE  /\ \A d \in Days : TornTail(seg'[d]) /\ Whole(seg'[d])
         /\ Disk' = Disk \union {op}
<1>1. seg \in [Days -> Seq(Items)] /\ \A d \in Days : Whole(seg[d])
  BY DEF FaultInv, TypeOK, Items, FilesReadable
<1>2. \A d \in Days : Whole(seg'[d])
  BY <1>1, AppendOp
<1>3. \A d \in Days : TornTail(seg'[d])
  BY <1>1, <1>2 DEF Whole, TornTail
<1> QED BY <1>1, <1>2, <1>3, DiskAppendOp

\* ... and after a torn batch was appended by a process that died.
LEMMA AppendTornInv ==
  ASSUME FaultInv, FilesReadable, up, NEW day \in Days,
         seg' = [seg EXCEPT ![day] = Append(seg[day], Torn)]
  PROVE  /\ \A d \in Days : TornTail(seg'[d])
         /\ Disk' = Disk
<1>1. seg \in [Days -> Seq(Items)] /\ \A d \in Days : Whole(seg[d]) /\ TornTail(seg[d])
  BY DEF FaultInv, TypeOK, Items, FilesReadable
<1>2. \A d \in Days : TornTail(seg'[d])
  BY <1>1, AppendTorn
<1> QED BY <1>1, <1>2, DiskAppendTorn

\* What each action does to the disk of such a daemon.
LEMMA LocalWriteDisk ==
  ASSUME FaultInv, FilesReadable, LocalWrite
  PROVE  /\ Disk' = Disk \union {Minted} /\ up' /\ \A d \in Days : TornTail(seg'[d]) /\ Whole(seg'[d])
         /\ up /\ up' = up /\ mem' = mem \union {Minted} /\ acked' = acked \union {Minted}
<1> DEFINE op == Minted
<1>1. op \in Ops /\ DayOf(op.hlc) \in Days
  BY MintedFits DEF LocalWrite, FaultInv, InOwnDay
<1>2. /\ up /\ up' = up /\ mem' = mem \union {op} /\ acked' = acked \union {op}
      /\ seg' = [seg EXCEPT ![DayOf(op.hlc)] = Append(seg[DayOf(op.hlc)], op)]
  BY DEF LocalWrite
<1> HIDE DEF op
<1>3. Disk' = Disk \union {op} /\ \A d \in Days : TornTail(seg'[d]) /\ Whole(seg'[d])
  BY <1>1, <1>2, AppendOpInv
<1> QED BY <1>2, <1>3 DEF op

\* A received operation reaches disk and memory together.
LEMMA InboundDisk ==
  ASSUME FaultInv, FilesReadable, NEW op \in Remote \union peer, Inbound(op)
  PROVE  /\ Disk' = Disk \union {op} /\ \A d \in Days : TornTail(seg'[d]) /\ Whole(seg'[d])
         /\ up /\ up' = up /\ mem' = mem \union {op}
<1>1. op \in Ops /\ DayOf(op.hlc) \in Days
  BY RemoteAssumption DEF FaultInv, TypeOK, InOwnDay, Ops, DayOf, Days
<1>2. /\ up /\ up' = up /\ mem' = mem \union {op}
      /\ seg' = [seg EXCEPT ![DayOf(op.hlc)] = Append(seg[DayOf(op.hlc)], op)]
  BY DEF Inbound
<1>3. Disk' = Disk \union {op} /\ \A d \in Days : TornTail(seg'[d]) /\ Whole(seg'[d])
  BY <1>1, <1>2, AppendOpInv
<1> QED BY <1>2, <1>3

\* A kill inside a write adds the operation it was minting or nothing.
LEMMA CrashInWriteDisk ==
  ASSUME FaultInv, FilesReadable, CrashInWrite
  PROVE  /\ Disk' = Disk \/ Disk' = Disk \union {Minted}
         /\ \A d \in Days : TornTail(seg'[d])
<1> DEFINE op  == Minted
           day == DayOf(op.hlc)
<1>1. op \in Ops /\ day \in Days
  BY MintedFits DEF CrashInWrite, FaultInv, InOwnDay
<1>2. PICK item \in {op, Torn} : seg' = [seg EXCEPT ![day] = Append(seg[day], item)]
  BY DEF CrashInWrite
<1>3. up
  BY DEF CrashInWrite, Stopped
<1> HIDE DEF op, day
<1>4. (Disk' = Disk \/ Disk' = Disk \union {op}) /\ \A d \in Days : TornTail(seg'[d])
  <2>1. CASE item = op
    BY <1>1, <1>2, <1>3, <2>1, AppendOpInv
  <2>2. CASE item = Torn
    BY <1>1, <1>2, <1>3, <2>2, AppendTornInv
  <2> QED BY <2>1, <2>2
<1> QED BY <1>4 DEF op

\* A power loss cuts whole files, and may leave the start of one more batch.
LEMMA LosePowerReadable ==
  ASSUME FaultInv, FilesReadable, LosePower
  PROVE  \A d \in Days : TornTail(seg'[d])
<1>1. PICK len \in [Days -> 0..SegmentCap + MaxWrites], half \in SUBSET Days :
        /\ \A d \in Days : synced[d] <= len[d] /\ len[d] <= Len(seg[d])
        /\ seg' = [d \in Days |->
                     IF d \in half THEN Append(SubSeq(seg[d], 1, len[d]), Torn)
                                   ELSE SubSeq(seg[d], 1, len[d])]
  BY DEF LosePower
<1> SUFFICES ASSUME NEW d \in Days PROVE TornTail(seg'[d])
  OBVIOUS
<1> DEFINE short == SubSeq(seg[d], 1, len[d])
<1>2. /\ seg[d] \in Seq(Items) /\ Whole(seg[d]) /\ len[d] \in Nat /\ len[d] <= Len(seg[d])
      /\ Len(seg[d]) \in Nat
  BY <1>1, BoundsAssumption DEF FaultInv, TypeOK, Items, FilesReadable, LosePower, Stopped
<1>3. \A i \in 1..len[d] : i \in 1..Len(seg[d]) /\ seg[d][i] \in Items
  BY <1>2
<1>4. short \in Seq(Items) /\ Len(short) = len[d] /\ \A i \in 1..len[d] : short[i] = seg[d][i]
  BY <1>2, <1>3
<1>5. (seg'[d] = short \/ seg'[d] = Append(short, Torn))
  BY <1>1
<1> HIDE DEF short
<1>6. short \in Seq(Items) /\ Whole(short)
  BY <1>2, <1>3, <1>4 DEF Whole
<1>7. CASE seg'[d] = short
  BY <1>6, <1>7 DEF Whole, TornTail
<1>8. CASE seg'[d] = Append(short, Torn)
  BY <1>6, <1>8, AppendTorn
<1> QED BY <1>5, <1>7, <1>8

\* Every action keeps the invariant of a log whose writes do not fail half way.
LEMMA StepLogInv ==
  ASSUME ~ShortWrites, FaultInv, LogInv, [Next]_vars
  PROVE  LogInv'
<1> USE DEF LogInv
<1>1. CASE ClockForward \/ ClockBack \/ \E d \in Days : PeerPull(d)
  BY <1>1 DEF ClockForward, ClockBack, PeerPull, FilesReadable, ViewIsDisk, AckedSurvives, Disk
<1>2. CASE LocalWrite
  BY <1>2, LocalWriteDisk DEF FilesReadable, ViewIsDisk, AckedSurvives
<1>3. CASE \E op \in Remote \union peer : Inbound(op)
  <2>1. PICK op \in Remote \union peer : Inbound(op)
    BY <1>3
  <2>2. acked' = acked
    BY <2>1 DEF Inbound
  <2> QED BY <2>1, <2>2, InboundDisk DEF FilesReadable, ViewIsDisk, AckedSurvives
<1>4. CASE Stop \/ Crash
  <2>1. up' = FALSE /\ UNCHANGED <<seg, acked>>
    BY <1>4 DEF Stop, Crash, Stopped
  <2> QED BY <2>1 DEF FilesReadable, ViewIsDisk, AckedSurvives, Disk
<1>5. CASE CrashInWrite
  <2>1. up' = FALSE /\ acked' = acked
    BY <1>5 DEF CrashInWrite, Stopped
  <2> QED BY <1>5, <2>1, CrashInWriteDisk DEF FilesReadable, ViewIsDisk, AckedSurvives
<1>6. CASE LosePower
  <2>1. up' = FALSE /\ PowerLoss
    BY <1>6 DEF LosePower, Stopped
  <2> QED BY <1>6, <2>1, LosePowerReadable DEF FilesReadable, ViewIsDisk
<1>7. CASE Start
  <2>1. mem' = Disk /\ acked' = acked
    BY <1>7 DEF Start
  <2>2. Disk' = Disk
    BY <1>7, StartFault
  <2>3. \A d \in Days : Whole(seg'[d]) /\ TornTail(seg'[d])
    <3> SUFFICES ASSUME NEW d \in Days PROVE Whole(seg'[d]) /\ TornTail(seg'[d])
      OBVIOUS
    <3>1. Whole(seg'[d]) /\ Len(seg'[d]) \in Nat
      BY <1>7, StartTruncates DEF FaultInv
    <3> QED BY <3>1 DEF Whole, TornTail
  <2> QED BY <2>1, <2>2, <2>3 DEF FilesReadable, ViewIsDisk, AckedSurvives
<1>8. CASE UNCHANGED vars
  BY <1>8 DEF vars, FilesReadable, ViewIsDisk, AckedSurvives, Disk
<1>9. CASE LocalWriteFails \/ \E op \in Remote \union peer : InboundFails(op)
  BY <1>9 DEF LocalWriteFails, InboundFails
<1> QED BY <1>1, <1>2, <1>3, <1>4, <1>5, <1>6, <1>7, <1>8, <1>9 DEF Next

\* While no write fails half way, the segments stay readable up to a torn tail and
\* every promise about them holds.
THEOREM LogInvariant == ~ShortWrites => (Spec => []LogInv)
<1> SUFFICES ASSUME ~ShortWrites PROVE Spec => []LogInv
  OBVIOUS
<1>1. Init => LogInv
  <2> SUFFICES ASSUME Init PROVE LogInv
    OBVIOUS
  <2>1. \A d \in Days : seg[d] = <<>> /\ Len(seg[d]) = 0
    BY DEF Init
  <2>2. FilesReadable
    BY <2>1 DEF FilesReadable, Whole, TornTail
  <2> QED BY <2>2, InitFaultInv DEF Init, LogInv, ViewIsDisk, AckedSurvives
<1>2. FaultInv /\ LogInv /\ [Next]_vars => LogInv'
  BY StepLogInv
<1> QED BY <1>1, <1>2, FaultInvariant, PTL DEF Spec

(* Memory and disk stay in lock-step through kills and power losses.         *)
THEOREM ViewAlwaysDisk == ~ShortWrites => (Spec => []ViewIsDisk)
<1> SUFFICES ASSUME ~ShortWrites PROVE Spec => []ViewIsDisk
  OBVIOUS
<1>1. LogInv => ViewIsDisk
  BY DEF LogInv
<1> QED BY LogInvariant, <1>1, PTL

(* A returned local write survives every kill of the process.                *)
THEOREM AckedAlwaysSurvives == ~ShortWrites /\ ~PowerLoss => (Spec => []AckedSurvives)
<1> SUFFICES ASSUME ~ShortWrites, ~PowerLoss PROVE Spec => []AckedSurvives
  OBVIOUS
<1>1. LogInv => AckedSurvives
  BY DEF LogInv
<1> QED BY LogInvariant, <1>1, PTL

------------------------------------------------------------------------------
(* With kills only, the log implements DurableView: operations are recorded  *)
(* one at a time, a kill may leave the one it interrupted, a start reads     *)
(* everything back.                                                          *)

\* An operation that reached memory and disk together is one Record.
LEMMA RecordsOne ==
  ASSUME LogInv, up, up' = up, NEW op, Disk' = Disk \union {op}, mem' = mem \union {op}
  PROVE  Durable!Record
<1>1. mem = Disk
  BY DEF LogInv, ViewIsDisk
<1>2. mem' = mem \union (Disk' \ Disk)
  BY <1>1
<1>3. Durable!Grows
  BY DEF Durable!Grows
<1> QED BY <1>2, <1>3 DEF Durable!Record

\* A stop that leaves the files, or one item more of them, is one Crash.
LEMMA StopsOnce ==
  ASSUME Stopped, Disk \subseteq Disk', NEW op, Disk' \subseteq Disk \union {op}
  PROVE  Durable!Crash
<1>1. Durable!Grows
  BY DEF Durable!Grows
<1> QED BY <1>1 DEF Durable!Crash, Stopped

\* Every step of the log is a step of the durable view or leaves it alone.
LEMMA StepRefines ==
  ASSUME ~ShortWrites, ~PowerLoss, FaultInv, LogInv, [Next]_vars
  PROVE  [Durable!Next]_(Durable!vars)
<1> USE DEF Durable!Next, LogInv
<1>1. CASE ClockForward \/ ClockBack \/ \E d \in Days : PeerPull(d)
  BY <1>1 DEF ClockForward, ClockBack, PeerPull, Durable!vars, Disk
<1>2. CASE LocalWrite
  BY <1>2, LocalWriteDisk, RecordsOne
<1>3. CASE \E op \in Remote \union peer : Inbound(op)
  BY <1>3, InboundDisk, RecordsOne
<1>4. CASE Stop \/ Crash
  <2>1. Stopped /\ seg' = seg
    BY <1>4 DEF Stop, Crash
  <2>2. Disk' = Disk
    BY <2>1 DEF Disk
  <2> QED BY <2>1, <2>2, StopsOnce
<1>5. CASE CrashInWrite
  <2>1. Stopped
    BY <1>5 DEF CrashInWrite
  <2> QED BY <1>5, <2>1, CrashInWriteDisk, StopsOnce
<1>6. CASE Start
  <2>1. Disk' = Disk
    BY <1>6, StartFault
  <2> QED BY <1>6, <2>1 DEF Start, Durable!Start
<1>7. CASE UNCHANGED vars
  BY <1>7 DEF vars, Durable!vars, Disk
<1>8. CASE LocalWriteFails \/ LosePower \/ \E op \in Remote \union peer : InboundFails(op)
  BY <1>8 DEF LocalWriteFails, LosePower, InboundFails
<1> QED BY <1>1, <1>2, <1>3, <1>4, <1>5, <1>6, <1>7, <1>8 DEF Next

\* While writes are whole and the machine keeps its files, the log implements the
\* durable view: one operation recorded and seen per step, none lost by any kill.
THEOREM LogImplementsDurable == ~ShortWrites /\ ~PowerLoss => (Spec => DurableSpec)
<1> SUFFICES ASSUME ~ShortWrites, ~PowerLoss PROVE Spec => DurableSpec
  OBVIOUS
<1>1. Init => Durable!Init
  BY InitFaultInv DEF Init, Durable!Init
<1>2. FaultInv /\ LogInv /\ [Next]_vars => [Durable!Next]_(Durable!vars)
  BY StepRefines
<1> QED BY <1>1, <1>2, FaultInvariant, LogInvariant, PTL DEF Spec, DurableSpec, Durable!Spec

------------------------------------------------------------------------------
(* One operation per key: with kills only and a clock that does not step     *)
(* back, the clock a start rebuilds is not behind any operation of ours.     *)

OnlyKills == ~ShortWrites /\ ~PowerLoss /\ MaxBack = 0
RemoteKeys ==
  \A o, p \in Remote : o.hlc = p.hlc /\ o.writer = p.writer => o = p

\* A minted operation is above every one of ours, so its key is a new one.
LEMMA MintKeepsKeys ==
  ASSUME FaultInv, KeysInv, up, now' \in Nat, now <= now',
         writes < MaxWrites, Minted.hlc.wall <= now + MaxSkew + 1,
         Disk' = Disk \/ Disk' = Disk \union {Minted},
         peer' \in {peer, peer \union {Minted}},
         peer' # peer => Disk' = Disk \union {Minted},
         up' => last' = Minted.hlc
  PROVE  KeysInv'
<1> DEFINE op == Minted
<1>1. op \in Ops /\ op.hlc \in Hlcs /\ op.writer = Me /\ HlcLess(last, op.hlc)
  BY MintedFits, TickCovers DEF FaultInv, InOwnDay, Minted
<1>2. \A o \in Disk : o.hlc \in Hlcs
  BY DiskTyped DEF FaultInv, Ops
<1>3. last \in Hlcs /\ now \in Nat
  BY BoundsAssumption DEF FaultInv, TypeOK
<1>4. Disk' \subseteq Disk \union {op} /\ Disk \subseteq Disk'
  OBVIOUS
<1>5. ASSUME NEW o \in Disk, o.writer = Me PROVE HlcLess(o.hlc, op.hlc) /\ o.hlc # op.hlc
  <2>1. ~HlcLess(last, o.hlc)
    BY <1>5 DEF KeysInv
  <2>2. HlcLess(o.hlc, last) \/ o.hlc = last
    BY <1>2, <1>3, <1>5, <2>1, HlcLessTotal
  <2>3. HlcLess(o.hlc, op.hlc)
    BY <1>1, <1>2, <1>3, <2>2, HlcLessTransitive
  <2> QED BY <1>1, <2>3, HlcLessIrreflexive
<1>6. op.hlc.wall <= now' + MaxSkew + 1
  BY <1>1, <1>3, MaxSkewAssumption DEF Hlcs
<1>7. \A o \in Disk : o.writer = Me => o.hlc.wall <= now' + MaxSkew + 1
  BY <1>2, <1>3, MaxSkewAssumption DEF KeysInv, Hlcs
<1> HIDE DEF op
<1>8. \A o \in Disk' \union peer' : IF o.writer = Me THEN o \in Disk' ELSE o \in Remote
  BY <1>1, <1>4 DEF KeysInv, op
<1>9. \A o \in Disk' : o.writer = Me =>
        o.hlc.wall <= now' + MaxSkew + 1 /\ (up' => ~HlcLess(last', o.hlc))
  <2> SUFFICES ASSUME NEW o \in Disk', o.writer = Me
               PROVE  o.hlc.wall <= now' + MaxSkew + 1 /\ ~HlcLess(op.hlc, o.hlc)
    BY DEF op
  <2>1. CASE o = op
    BY <1>1, <1>6, <2>1, HlcLessIrreflexive
  <2>2. CASE o \in Disk
    BY <1>1, <1>2, <1>5, <1>7, <2>2, AboveNotBelow
  <2> QED BY <1>4, <2>1, <2>2
<1>10. \A o, p \in Disk' : o.writer = Me /\ p.writer = Me /\ o.hlc = p.hlc => o = p
  BY <1>4, <1>5 DEF KeysInv
<1> QED BY <1>8, <1>9, <1>10 DEF KeysInv

\* Every step keeps one operation per key of ours, until counters run out twice
\* within a millisecond at the skew bound.
LEMMA StepKeysInv ==
  ASSUME OnlyKills, FaultInv, LogInv, KeysInv, [Next]_vars,
         writes' # writes => Minted.hlc.wall <= now + MaxSkew + 1
  PROVE  KeysInv'
<1> USE DEF OnlyKills
<1>1. now \in Nat /\ now + 1 \in Nat /\ writes \in Nat /\ writes # writes + 1
  BY BoundsAssumption DEF FaultInv, TypeOK
<1>2. \A o \in Disk : o \in Ops /\ o.hlc \in Hlcs /\ o.hlc.wall \in Nat
  BY DiskTyped DEF FaultInv, Ops, Hlcs
<1>3. FilesReadable
  BY DEF LogInv
<1>4. ASSUME Disk' = Disk, peer' \subseteq peer \union Disk, now' = now \/ now' = now + 1,
             up' => up /\ last' = last
      PROVE  KeysInv'
  <2>1. \A o \in Disk : o.writer = Me => o.hlc.wall <= now' + MaxSkew + 1
    BY <1>1, <1>2, <1>4, MaxSkewAssumption DEF KeysInv
  <2> QED BY <1>4, <2>1 DEF KeysInv
<1>5. CASE ClockForward \/ ClockBack
  <2>1. ~ClockBack
    BY DEF ClockBack
  <2> QED BY <1>4, <1>5, <2>1 DEF ClockForward, Disk
<1>6. CASE \E d \in Days : PeerPull(d)
  BY <1>4, <1>6 DEF PeerPull, Disk
<1>7. CASE LocalWrite
  <2>1. /\ writes' = writes + 1 /\ writes < MaxWrites /\ now' = now /\ last' = Minted.hlc /\ up
        /\ peer' \in {peer, peer \union {Minted}}
    BY <1>7 DEF LocalWrite
  <2>2. Disk' = Disk \union {Minted}
    BY <1>3, <1>7, LocalWriteDisk
  <2> QED BY <1>1, <2>1, <2>2, MintKeepsKeys
<1>8. CASE CrashInWrite
  <2>1. writes' = writes + 1 /\ writes < MaxWrites /\ now' = now /\ peer' = peer /\ up /\ ~up'
    BY <1>8 DEF CrashInWrite, Stopped
  <2>2. Disk' = Disk \/ Disk' = Disk \union {Minted}
    BY <1>3, <1>8, CrashInWriteDisk
  <2> QED BY <1>1, <2>1, <2>2, MintKeepsKeys
<1>9. CASE \E op \in Remote \union peer : Inbound(op)
  <2>1. PICK op \in Remote \union peer : Inbound(op)
    BY <1>9
  <2>2. Disk' = Disk \union {op} /\ up
    BY <1>3, <2>1, InboundDisk
  <2>3. peer' = peer /\ now' = now /\ up' = up /\ last' = ObserveFrom(last, op.hlc, now)
    BY <2>1 DEF Inbound
  <2>4. op \in Ops /\ op.hlc \in Hlcs /\ last \in Hlcs
    BY RemoteAssumption DEF FaultInv, TypeOK, Ops
  <2>5. last' \in Hlcs /\ ~HlcLess(last', last)
    BY <1>1, <2>3, <2>4, ObserveKeeps
  <2>6. IF op.writer = Me THEN op \in Disk ELSE op \in Remote
    BY RemoteAssumption DEF KeysInv
  <2>7. \A o \in Disk' : o.writer = Me => o \in Disk
    BY <2>2, <2>6
  <2>8. ASSUME NEW o \in Disk, o.writer = Me PROVE ~HlcLess(last', o.hlc)
    <3>1. ~HlcLess(last, o.hlc)
      BY <2>2, <2>8 DEF KeysInv
    <3> QED BY <1>2, <2>4, <2>5, <3>1, HlcLessTotal, HlcLessTransitive
  <2> QED BY <2>2, <2>3, <2>6, <2>7, <2>8 DEF KeysInv
<1>10. CASE Stop \/ Crash
  <2>1. UNCHANGED <<now, seg, peer>> /\ ~up'
    BY <1>10 DEF Stop, Crash, Stopped
  <2> QED BY <1>4, <2>1 DEF Disk
<1>11. CASE Start
  <2>1. Disk' = Disk
    BY <1>11, StartFault
  <2>2. /\ now' = now + 1 /\ peer' = peer /\ last' = ReplayFrom({o.hlc : o \in Disk}, now')
    BY <1>11 DEF Start
  <2>3. ASSUME NEW o \in Disk, o.writer = Me
        PROVE  o.hlc.wall <= now' + MaxSkew + 1 /\ ~HlcLess(last', o.hlc)
    <3>1. o.hlc.wall <= now + MaxSkew + 1
      BY <2>3 DEF KeysInv
    <3>2. o.hlc.wall <= now' + MaxSkew + 1 /\ ~Refused(o.hlc, now')
      BY <1>1, <1>2, <2>2, <3>1, MaxSkewAssumption DEF Refused
    <3> DEFINE hlcs == {p.hlc : p \in Disk}
    <3>3. hlcs \in SUBSET Hlcs /\ o.hlc \in hlcs /\ now' \in Nat
      BY <1>1, <1>2, <2>2
    <3>4. last' = ReplayFrom(hlcs, now')
      BY <2>2
    <3> HIDE DEF hlcs
    <3> QED BY <3>2, <3>3, <3>4, ReplayDominates
  <2> QED BY <2>1, <2>2, <2>3 DEF KeysInv
<1>12. CASE UNCHANGED vars
  BY <1>4, <1>12 DEF vars, Disk
<1>13. CASE LocalWriteFails \/ LosePower \/ \E op \in Remote \union peer : InboundFails(op)
  BY <1>13 DEF LocalWriteFails, LosePower, InboundFails
<1> QED BY <1>5, <1>6, <1>7, <1>8, <1>9, <1>10, <1>11, <1>12, <1>13 DEF Next

(* When the process may only be killed, the clock does not step back and no  *)
(* two counters run out within a millisecond at the skew bound, no operation *)
(* on this disk or in a peer's hands shares its key with another one, if     *)
(* that holds of what other writers minted.                                  *)
THEOREM KeysAlwaysUnique ==
  OnlyKills /\ RemoteKeys => (Spec /\ SkewHolds => []OneOpPerKey)
<1> SUFFICES ASSUME OnlyKills, RemoteKeys PROVE Spec /\ SkewHolds => []OneOpPerKey
  OBVIOUS
<1> DEFINE Skew == writes' # writes => Minted.hlc.wall <= now + MaxSkew + 1
<1>1. Init => KeysInv
  BY InitFaultInv DEF Init, KeysInv
<1>2. FaultInv /\ LogInv /\ KeysInv /\ [Next]_vars /\ [Skew]_vars => KeysInv'
  <2> SUFFICES ASSUME FaultInv, LogInv, KeysInv, [Next]_vars, [Skew]_vars PROVE KeysInv'
    OBVIOUS
  <2>1. writes' # writes => Minted.hlc.wall <= now + MaxSkew + 1
    BY DEF vars
  <2> QED BY <2>1, StepKeysInv
<1>3. KeysInv => OneOpPerKey
  <2> SUFFICES ASSUME KeysInv, NEW o \in Disk \union peer, NEW p \in Disk \union peer,
                      o.hlc = p.hlc, o.writer = p.writer
               PROVE  o = p
    BY DEF OneOpPerKey
  <2>1. CASE o.writer = Me
    BY <2>1 DEF KeysInv
  <2>2. CASE o.writer # Me
    BY <2>2 DEF KeysInv, RemoteKeys
  <2> QED BY <2>1, <2>2
<1>4. ~ShortWrites
  BY DEF OnlyKills
<1> QED BY <1>1, <1>2, <1>3, <1>4, FaultInvariant, LogInvariant, PTL DEF Spec, SkewHolds

\* Fewer writes than a counter holds pass the skew bound by one millisecond at most.
LEMMA FewWritesHoldSkew ==
  OnlyKills /\ MaxWrites <= CounterMax => (Spec => SkewHolds)
<1> SUFFICES ASSUME OnlyKills, MaxWrites <= CounterMax PROVE Spec => SkewHolds
  OBVIOUS
<1> DEFINE Skew == writes' # writes => Minted.hlc.wall <= now + MaxSkew + 1
           Near == /\ last.wall <= now + MaxSkew + 1
                   /\ last.wall = now + MaxSkew + 1 => last.counter < writes
<1>1. Init => Near
  BY MaxSkewAssumption DEF Init, ZeroHlc
<1>2. FaultInv /\ Near /\ [Next]_vars => Near' /\ [Skew]_vars
  <2> SUFFICES ASSUME FaultInv, Near, [Next]_vars PROVE Near' /\ Skew
    OBVIOUS
  <2>1. /\ now \in Nat /\ last.wall \in Nat /\ last.counter \in 0..CounterMax
        /\ writes \in Nat /\ writes <= CounterMax /\ CounterMax \in Nat /\ MaxSkew \in Nat
    BY BoundsAssumption, MaxSkewAssumption, CounterMaxAssumption DEF FaultInv, TypeOK, Hlcs
  <2>2. Minted.hlc = TickFrom(last, now)
    BY DEF Minted
  <2>3. /\ Minted.hlc.wall <= now + MaxSkew + 1
        /\ Minted.hlc.wall = now + MaxSkew + 1 => Minted.hlc.counter < writes + 1
    BY <2>1, <2>2 DEF TickFrom
  <2>4. Skew
    BY <2>3
  <2>5. CASE ClockForward \/ ClockBack
    <3>1. now' = now + 1 /\ UNCHANGED <<last, writes>>
      BY <2>5 DEF ClockForward, ClockBack, OnlyKills
    <3> QED BY <2>1, <2>4, <3>1
  <2>6. CASE LocalWrite
    <3>1. last' = Minted.hlc /\ writes' = writes + 1 /\ now' = now
      BY <2>6 DEF LocalWrite
    <3> QED BY <2>3, <2>4, <3>1
  <2>7. CASE \E op \in Remote \union peer : Inbound(op)
    <3>1. PICK op \in Remote \union peer : Inbound(op)
      BY <2>7
    <3>2. last' = ObserveFrom(last, op.hlc, now) /\ UNCHANGED <<now, writes>>
      BY <3>1 DEF Inbound
    <3>3. op.hlc.wall \in Nat
      BY RemoteAssumption DEF FaultInv, TypeOK, Ops, Hlcs
    <3>4. last' = last \/ last'.wall <= now + MaxSkew
      BY <2>1, <3>2, <3>3 DEF ObserveFrom, Refused
    <3>5. CASE last' = last
      BY <2>4, <3>2, <3>5
    <3>6. CASE last' = op.hlc /\ last'.wall <= now + MaxSkew
      BY <2>1, <2>4, <3>2, <3>3, <3>6
    <3> QED BY <3>2, <3>4, <3>5, <3>6 DEF ObserveFrom
  <2>8. CASE \E d \in Days : PeerPull(d)
    BY <2>4, <2>8 DEF PeerPull
  <2>9. CASE Stop \/ Crash \/ CrashInWrite
    <3>1. now' = now /\ last' = ZeroHlc
      BY <2>9 DEF Stop, Crash, CrashInWrite, Stopped
    <3> QED BY <2>1, <2>4, <3>1 DEF ZeroHlc
  <2>10. CASE Start
    <3>1. now' = now + 1 /\ last' = ReplayFrom({o.hlc : o \in Disk}, now')
      BY <2>10 DEF Start
    <3> DEFINE hlcs == {o.hlc : o \in Disk}
    <3>2. hlcs \in SUBSET Hlcs /\ now' \in Nat
      BY <2>1, <3>1, DiskTyped DEF FaultInv, Ops
    <3>3. last' = ReplayFrom(hlcs, now')
      BY <3>1
    <3> HIDE DEF hlcs
    <3>4. last' \in Hlcs /\ ~Refused(last', now')
      BY <3>2, <3>3, ReplayDominates
    <3>5. last'.wall \in Nat /\ last'.wall <= now' + MaxSkew
      BY <2>1, <3>2, <3>4 DEF Refused, Hlcs
    <3>6. Near'
      BY <2>1, <3>2, <3>5
    <3> QED BY <2>4, <3>6
  <2>11. CASE UNCHANGED vars
    BY <2>4, <2>11 DEF vars
  <2>12. CASE LocalWriteFails \/ LosePower \/ \E op \in Remote \union peer : InboundFails(op)
    BY <2>12 DEF LocalWriteFails, LosePower, InboundFails, OnlyKills
  <2> QED BY <2>5, <2>6, <2>7, <2>8, <2>9, <2>10, <2>11, <2>12 DEF Next
<1> QED BY <1>1, <1>2, FaultInvariant, PTL DEF Spec, SkewHolds

(* The same with no assumption on the run: a replica that mints no more than *)
(* one counter holds cannot mint two operations with one key.                *)
THEOREM FewKeysUnique ==
  OnlyKills /\ RemoteKeys /\ MaxWrites <= CounterMax => (Spec => []OneOpPerKey)
  BY KeysAlwaysUnique, FewWritesHoldSkew

------------------------------------------------------------------------------
(* The overlay of a worktree *)

Rows == Worktree!Rows

\* What a fingerprint says of rows: a file that it does not list is its commit's,
\* one it lists without a time is gone, and while the worktree's file has the time
\* it lists, it has not been written again.
Tells(print, rows, f) ==
  /\ f \notin DOMAIN print.times => rows[f] = Tree[print.head][f]
  /\ f \in DOMAIN print.times =>
       /\ print.times[f] = 0 => rows[f] = Gone
       /\ print.times[f] > 0 =>
            print.times[f] <= moves /\ (wt.times[f] = print.times[f] => rows[f] = wt.files[f])

\* A file has the time of its last write, unless it is gone or as committed.
TimesTell ==
  \A f \in Files :
    /\ wt.times[f] <= moves
    /\ wt.files[f] \notin {Gone, Tree[wt.head][f]} => wt.times[f] > 0

\* What the refresh has seen is what its fingerprint tells, and what is there still
\* but for the files that moved.
SeenTells ==
  /\ pc = "idle" => moved = {}
  /\ pc # "idle" =>
       \A f \in Files : Tells(fp, seen, f) /\ (f \notin moved => seen[f] = wt.files[f])

\* A stamp tells of the rows, and an overlay that may be amended says which rows are
\* not its commit's.
StampTells == ov # None /\ ov.stamp # None => \A f \in Files \ misled : Tells(ov.stamp, ov.rows, f)
Described == \A f \in Files \ (misled \cup ov.dirty) : ov.rows[f] = Tree[ov.head][f]
Amendable ==
  /\ pc \in {"idle", "seed", "copy", "check", "plan", "amend"} /\ Worktree!Usable(ov) => Described
  /\ pc = "plan" => Worktree!Usable(ov)

\* Where a refresh is, against what it has done.
Planned == plan.changed \cup plan.deleted
Steps ==
  /\ pc \in {"amend", "purge", "parse"} =>
       /\ ov # None /\ plan.changed \subseteq Files /\ plan.deleted \subseteq Files
       /\ \A f \in Files \ (misled \cup moved \cup Planned) : ov.rows[f] = wt.files[f]
       /\ \A f \in plan.deleted \ moved : wt.files[f] = Gone
  /\ pc = "parse" => \A f \in plan.deleted : ov.rows[f] = Gone
  /\ pc \in {"purge", "parse", "parseAll"} => ov # None /\ ov.mark = "other" /\ ov.stamp = None
  /\ pc = "clear" => ov # None
  /\ pc = "stamp" => ov # None /\ \A f \in Files \ (misled \cup moved) : ov.rows[f] = wt.files[f]

WorktreeInv == Worktree!TypeOK /\ TimesTell /\ SeenTells /\ StampTells /\ Amendable /\ Steps

\* A fingerprint has a commit and times of files.
LEMMA Prints ==
  ASSUME NEW p \in Worktree!Fingerprints
  PROVE  /\ p.head \in Commits /\ DOMAIN p.times \subseteq Files /\ p # None
         /\ \A f \in DOMAIN p.times : p.times[f] \in 0 .. MaxMoves
<1>1. PICK dirty \in SUBSET Files : p.times \in [dirty -> 0 .. MaxMoves]
  BY DEF Worktree!Fingerprints
<1> QED BY <1>1, OverlayAssumption DEF Worktree!Fingerprints

\* The one of now lists what is not as committed (worktreeFingerprint).
LEMMA PrintNow ==
  ASSUME Worktree!TypeOK
  PROVE  /\ Worktree!Fingerprint \in Worktree!Fingerprints
         /\ Worktree!Fingerprint.head = wt.head
         /\ DOMAIN Worktree!Fingerprint.times = {f \in Files : wt.files[f] # Tree[wt.head][f]}
         /\ \A f \in DOMAIN Worktree!Fingerprint.times :
              Worktree!Fingerprint.times[f] = wt.times[f]
<1>1. wt.head \in Commits /\ wt.times \in [Files -> 0 .. MaxMoves]
  BY DEF Worktree!TypeOK
<1>2. Worktree!Dirty(wt.files, wt.head) \in SUBSET Files
  BY DEF Worktree!Dirty
<1>3. [f \in Worktree!Dirty(wt.files, wt.head) |-> wt.times[f]]
        \in [Worktree!Dirty(wt.files, wt.head) -> 0 .. MaxMoves]
  BY <1>1, <1>2
<1> QED BY <1>1, <1>2, <1>3 DEF Worktree!Fingerprint, Worktree!Fingerprints, Worktree!Dirty

\* What the parts of an overlay are, and that it is there.
LEMMA Parts ==
  ASSUME NEW o \in Worktree!Overlays
  PROVE  /\ o.rows \in Rows /\ o.head \in Commits \cup {None} /\ o.dirty \subseteq Files
         /\ o.stamp \in Worktree!Fingerprints \cup {None} /\ o # None
         /\ o.mark \in {"no", "seed", "other"} /\ o.pending \in BOOLEAN
         /\ o.claims \in BOOLEAN
  BY OverlayAssumption DEF Worktree!Overlays, Rows

\* The updates of a refresh leave an overlay (beginIngest, endIngest, writeStamp).
LEMMA Updates ==
  ASSUME NEW o \in Worktree!Overlays
  PROVE  /\ Worktree!Begun(o) \in Worktree!Overlays /\ Worktree!Begun(o).rows = o.rows
         /\ Worktree!Begun(o).mark = "other" /\ Worktree!Begun(o).stamp = None
         /\ \A full \in BOOLEAN : /\ Worktree!Ended(o, full) \in Worktree!Overlays
                                  /\ Worktree!Ended(o, full).rows = o.rows
                                  /\ Worktree!Ended(o, full).stamp = o.stamp
         /\ \A r \in Rows : [o EXCEPT !.rows = r] \in Worktree!Overlays
         /\ (fp \in Worktree!Fingerprints => Worktree!Stamped(o) \in Worktree!Overlays)
<1>1. /\ Worktree!Begun(o) \in Worktree!Overlays /\ Worktree!Begun(o).rows = o.rows
      /\ Worktree!Begun(o).mark = "other" /\ Worktree!Begun(o).stamp = None
  BY DEF Worktree!Overlays, Worktree!Begun
<1>2. ASSUME NEW full \in BOOLEAN
      PROVE  /\ Worktree!Ended(o, full) \in Worktree!Overlays
             /\ Worktree!Ended(o, full).rows = o.rows
             /\ Worktree!Ended(o, full).stamp = o.stamp
  <2>1. o.claims \in BOOLEAN /\ (Worktree!HasNodes(o.rows) \/ (o.claims /\ ~full)) \in BOOLEAN
    BY DEF Worktree!Overlays, Worktree!HasNodes
  <2> QED BY <2>1 DEF Worktree!Overlays, Worktree!Ended
<1>3. ASSUME fp \in Worktree!Fingerprints PROVE Worktree!Stamped(o) \in Worktree!Overlays
  BY <1>3, Prints DEF Worktree!Overlays, Worktree!Stamped
<1>4. \A r \in Rows : [o EXCEPT !.rows = r] \in Worktree!Overlays
  BY DEF Worktree!Overlays, Rows
<1> QED BY <1>1, <1>2, <1>3, <1>4

\* What the invariant says of an overlay that is called fresh.
LEMMA FreshTells ==
  ASSUME WorktreeInv PROVE Worktree!FreshIsWorktree
<1> SUFFICES ASSUME Worktree!Status = "fresh", NEW f \in Files \ misled
             PROVE  ov.rows[f] = wt.files[f]
  BY DEF Worktree!FreshIsWorktree
<1>1. ov # None /\ ov.stamp = Worktree!Fingerprint
  BY DEF Worktree!Status
<1>2. /\ Worktree!Fingerprint \in Worktree!Fingerprints
      /\ Worktree!Fingerprint.head = wt.head
      /\ DOMAIN Worktree!Fingerprint.times = {g \in Files : wt.files[g] # Tree[wt.head][g]}
      /\ \A g \in DOMAIN Worktree!Fingerprint.times :
           Worktree!Fingerprint.times[g] = wt.times[g]
  BY PrintNow DEF WorktreeInv
<1>3. Worktree!Fingerprint # None
  BY <1>2, Prints
<1>4. Tells(Worktree!Fingerprint, ov.rows, f)
  BY <1>1, <1>3 DEF WorktreeInv, StampTells
<1>5. wt.times[f] \in 0 .. MaxMoves
  BY DEF WorktreeInv, Worktree!TypeOK
<1> QED BY <1>2, <1>4, <1>5, OverlayAssumption DEF Tells, WorktreeInv, TimesTell

LEMMA WorktreeInit ==
  ASSUME Worktree!Init PROVE WorktreeInv
<1>1. Tree[Base] \in Rows /\ Base \in Commits /\ 0 \in 0 .. MaxMoves
  BY OverlayAssumption DEF Rows
<1>2. \A f \in Files, t \in Texts : [Tree[Base] EXCEPT ![f] = t] \in Rows
  BY <1>1 DEF Rows, Worktree!Rows, Worktree!Contents
<1>3. wt = [head |-> Base, files |-> Tree[Base], times |-> [f \in Files |-> 0]]
  BY DEF Worktree!Init
<1>4. main \in Rows
  BY <1>1, <1>2 DEF Worktree!Init
<1>5. index \in Worktree!Indexes
  BY <1>4 DEF Worktree!Init, Worktree!Indexes, Worktree!Dirty, Rows
<1>6. Worktree!TypeOK
  BY <1>1, <1>3, <1>4, <1>5 DEF Worktree!Init, Worktree!AtRest, Worktree!TypeOK, Rows
<1>7. TimesTell
  BY <1>3 DEF TimesTell, Worktree!Init
<1>8. pc = "idle" /\ ov = None /\ moved = {}
  BY DEF Worktree!Init, Worktree!AtRest
<1> QED BY <1>6, <1>7, <1>8 DEF WorktreeInv, SeenTells, StampTells, Amendable, Steps,
           Worktree!Usable, Worktree!Healthy, Worktree!Pending

\* What holds of a print and rows goes on through a move: a time is given once.
LEMMA MoveTells ==
  ASSUME WorktreeInv, NEW files \in Rows, NEW commit \in Commits,
         Worktree!MoveTo(files, commit), NEW p \in Worktree!Fingerprints, NEW rows,
         NEW f \in Files, Tells(p, rows, f)
  PROVE  Tells(p, rows, f)'
<1>1. moves \in Nat /\ moves' = moves + 1 /\ wt.times[f] \in Nat
  BY OverlayAssumption DEF Worktree!MoveTo, WorktreeInv, Worktree!TypeOK
<1>2. /\ wt'.files = files
      /\ wt'.times[f] = CASE files[f] \in {Gone, Tree[commit][f]} -> 0
                          [] files[f] = wt.files[f] -> wt.times[f]
                          [] OTHER -> moves'
  BY DEF Worktree!MoveTo
<1>3. f \in DOMAIN p.times => p.times[f] \in Nat
  BY Prints, OverlayAssumption
<1>4. ASSUME f \in DOMAIN p.times, p.times[f] > 0, wt'.times[f] = p.times[f]
      PROVE  rows[f] = files[f]
  <2>1. p.times[f] <= moves
    BY <1>4 DEF Tells
  <2>2. files[f] = wt.files[f] /\ wt.times[f] = p.times[f]
    BY <1>1, <1>2, <1>3, <1>4, <2>1
  <2> QED BY <1>4, <2>2 DEF Tells
<1> QED BY <1>1, <1>2, <1>3, <1>4 DEF Tells

\* The worktree is edited, or moved to a commit.
LEMMA MoveKeeps ==
  ASSUME WorktreeInv, NEW files \in Rows, NEW commit \in Commits,
         Worktree!MoveTo(files, commit), commit = wt.head \/ files = Tree[commit]
  PROVE  WorktreeInv'
<1>1. /\ moves < MaxMoves /\ moves' = moves + 1
      /\ moved' = IF pc = "idle" THEN {} ELSE moved \cup {f \in Files : files[f] # wt.files[f]}
      /\ UNCHANGED <<main, index, ov, seed, pc, fp, plan, seen, misled>>
  BY DEF Worktree!MoveTo, Worktree!mains
<1>2. /\ wt'.head = commit /\ wt'.files = files
      /\ \A f \in Files :
           wt'.times[f] = CASE files[f] \in {Gone, Tree[commit][f]} -> 0
                            [] files[f] = wt.files[f] -> wt.times[f]
                            [] OTHER -> moves'
  BY DEF Worktree!MoveTo
<1>3. /\ moves \in 0 .. MaxMoves /\ moves' \in 0 .. MaxMoves /\ moves' > 0 /\ MaxMoves \in Nat
      /\ \A f \in Files : wt.times[f] \in 0 .. MaxMoves /\ wt.times[f] <= moves
  BY <1>1, OverlayAssumption DEF WorktreeInv, Worktree!TypeOK, TimesTell
<1>4. Worktree!TypeOK'
  <2>1. \A f \in Files :
          (CASE files[f] \in {Gone, Tree[commit][f]} -> 0
             [] files[f] = wt.files[f] -> wt.times[f]
             [] OTHER -> moves') \in 0 .. MaxMoves
    BY <1>3
  <2>2. wt' \in [head : Commits, files : Worktree!Rows, times : [Files -> 0 .. MaxMoves]]
    BY <2>1 DEF Worktree!MoveTo, Rows
  <2>3. moved' \subseteq Files
    BY <1>1 DEF WorktreeInv, Worktree!TypeOK
  <2> QED BY <1>1, <1>3, <2>2, <2>3 DEF WorktreeInv, Worktree!TypeOK
<1>5. TimesTell'
  <2> SUFFICES ASSUME NEW f \in Files
               PROVE  /\ wt'.times[f] <= moves'
                      /\ wt'.files[f] \notin {Gone, Tree[wt'.head][f]} => wt'.times[f] > 0
    BY DEF TimesTell
  <2>1. wt'.times[f] <= moves'
    BY <1>1, <1>2, <1>3
  <2>2. ASSUME files[f] \notin {Gone, Tree[commit][f]} PROVE wt'.times[f] > 0
    <3>1. CASE files[f] = wt.files[f]
      <4>1. commit = wt.head
        BY <2>2
      <4> QED BY <1>2, <2>2, <3>1, <4>1 DEF WorktreeInv, TimesTell
    <3>2. CASE files[f] # wt.files[f]
      BY <1>2, <1>3, <2>2, <3>2
    <3> QED BY <3>1, <3>2
  <2> QED BY <1>2, <2>1, <2>2
<1>6. SeenTells'
  <2>1. ASSUME pc # "idle", NEW f \in Files PROVE Tells(fp, seen, f)'
    BY <1>1, <2>1, MoveTells DEF WorktreeInv, SeenTells, Worktree!TypeOK, Tells
  <2>2. ASSUME pc # "idle", NEW f \in Files, f \notin moved' PROVE seen[f] = files[f]
    BY <1>1, <2>2 DEF WorktreeInv, SeenTells
  <2> QED BY <1>1, <1>2, <2>1, <2>2 DEF SeenTells
<1>7. StampTells'
  <2> SUFFICES ASSUME ov # None, ov.stamp # None, NEW f \in Files \ misled
               PROVE  Tells(ov.stamp, ov.rows, f)'
    BY <1>1 DEF StampTells, Tells
  <2>1. ov.stamp \in Worktree!Fingerprints
    BY Parts DEF WorktreeInv, Worktree!TypeOK
  <2> QED BY <1>1, <2>1, MoveTells DEF WorktreeInv, StampTells, Tells
<1>8. Amendable'
  BY <1>1 DEF WorktreeInv, Amendable, Described, Worktree!Usable, Worktree!Healthy,
              Worktree!Pending, Worktree!HasNodes, Worktree!Emptied
<1>9. Steps'
  <2>1. ASSUME pc # "idle", NEW f \in Files, f \notin moved'
        PROVE  f \notin moved /\ wt'.files[f] = wt.files[f]
    BY <1>1, <1>2, <2>1
  <2> QED BY <1>1, <2>1 DEF WorktreeInv, Steps, Planned
<1> QED BY <1>4, <1>5, <1>6, <1>7, <1>8, <1>9 DEF WorktreeInv

LEMMA MovesKeep ==
  ASSUME WorktreeInv, Worktree!Edit \/ Worktree!Checkout
  PROVE  WorktreeInv'
<1>1. wt.files \in Rows /\ wt.head \in Commits
  BY DEF WorktreeInv, Worktree!TypeOK, Rows
<1>2. CASE Worktree!Edit
  <2>1. PICK f \in Files, t \in Texts \cup {Gone} :
          Worktree!MoveTo([wt.files EXCEPT ![f] = t], wt.head)
    BY <1>2 DEF Worktree!Edit
  <2>2. [wt.files EXCEPT ![f] = t] \in Rows
    BY <1>1 DEF Rows, Worktree!Rows, Worktree!Contents
  <2> QED BY <1>1, <2>1, <2>2, MoveKeeps
<1>3. CASE Worktree!Checkout
  <2>1. PICK c \in Commits : Worktree!MoveTo(Tree[c], c)
    BY <1>3 DEF Worktree!Checkout
  <2> QED BY <2>1, MoveKeeps, OverlayAssumption DEF Rows
<1> QED BY <1>2, <1>3

\* The main checkout and its index are not the worktree's.
LEMMA MainKeeps ==
  ASSUME WorktreeInv, UNCHANGED <<wt, moves, ov, seed, pc, fp, plan, seen, moved, misled>>,
         main' \in Rows, index' \in Worktree!Indexes
  PROVE  WorktreeInv'
<1>1. Worktree!TypeOK' /\ TimesTell' /\ SeenTells' /\ StampTells'
  BY DEF WorktreeInv, Worktree!TypeOK, TimesTell, SeenTells, StampTells, Tells, Rows
<1>2. Amendable'
  BY DEF WorktreeInv, Amendable, Described, Worktree!Usable, Worktree!Healthy,
         Worktree!Pending, Worktree!HasNodes, Worktree!Emptied
<1>3. Steps'
  BY DEF WorktreeInv, Steps, Planned
<1> QED BY <1>1, <1>2, <1>3 DEF WorktreeInv

LEMMA IngestsKeep ==
  ASSUME WorktreeInv, Worktree!EditMain \/ Worktree!BeginIngest \/ Worktree!ParseMain
                        \/ Worktree!EndIngest
  PROVE  WorktreeInv'
<1>1. main \in Rows /\ index \in Worktree!Indexes /\ index.rows \in Rows /\ Worktree!Empty \in Rows
  BY DEF WorktreeInv, Worktree!TypeOK, Worktree!Indexes, Rows, Worktree!Rows, Worktree!Empty,
         Worktree!Contents
<1>2. UNCHANGED <<wt, moves, ov, seed, pc, fp, plan, seen, moved, misled>>
  BY DEF Worktree!EditMain, Worktree!BeginIngest, Worktree!ParseMain, Worktree!EndIngest,
         Worktree!Ingesting, Worktree!history
<1>3. CASE Worktree!EditMain
  <2>1. \A f \in Files, t \in Texts : [main EXCEPT ![f] = t] \in Rows
    BY <1>1 DEF Rows, Worktree!Rows, Worktree!Contents
  <2>2. Tree[Base] \in Rows
    BY OverlayAssumption DEF Rows
  <2> QED BY <1>1, <1>2, <1>3, <2>1, <2>2, MainKeeps DEF Worktree!EditMain
<1>4. CASE Worktree!BeginIngest
  <2>1. \A fs : Worktree!Without(index.rows, fs) \in Rows
    BY <1>1 DEF Rows, Worktree!Rows, Worktree!Without, Worktree!Contents
  <2>2. main' = main
    BY <1>4 DEF Worktree!BeginIngest, Worktree!Ingesting
  <2>3. index' \in Worktree!Indexes
    BY <1>1, <1>4, <2>1 DEF Worktree!BeginIngest, Worktree!Indexes, Rows
  <2> QED BY <1>1, <1>2, <2>2, <2>3, MainKeeps
<1>5. CASE Worktree!ParseMain
  <2>1. [f \in Files |-> IF f \in ingest.files THEN main[f] ELSE index.rows[f]] \in Rows
    BY <1>1 DEF Rows, Worktree!Rows
  <2>2. main' = main
    BY <1>5 DEF Worktree!ParseMain, Worktree!Ingesting
  <2>3. index' = [index EXCEPT !.rows = [f \in Files |-> IF f \in ingest.files THEN main[f] ELSE index.rows[f]],
                               !.marked = TRUE]
    BY <1>1, <1>5 DEF Worktree!ParseMain, Worktree!Indexes
  <2>4. index' \in Worktree!Indexes
    BY <1>1, <2>1, <2>3 DEF Worktree!Indexes, Rows
  <2> QED BY <1>1, <1>2, <2>2, <2>4, MainKeeps
<1>6. CASE Worktree!EndIngest
  <2>1. main' = main /\ index' = [index EXCEPT !.record = Worktree!NextDirty(index.record, ingest.full),
                                               !.marked = FALSE]
    BY <1>1, <1>6 DEF Worktree!EndIngest, Worktree!Ingesting, Worktree!Indexes
  <2>2. Worktree!NextDirty(index.record, ingest.full) \in (SUBSET Files) \cup {None, Unknown}
    BY <1>1 DEF Worktree!NextDirty, Worktree!Indexes, Worktree!Dirty
  <2>3. index' \in Worktree!Indexes
    BY <1>1, <2>1, <2>2 DEF Worktree!Indexes
  <2> QED BY <1>1, <1>2, <2>1, <2>3, MainKeeps
<1> QED BY <1>3, <1>4, <1>5, <1>6

\* A refresh begins with the fingerprint of now.
LEMMA LookKeeps ==
  ASSUME WorktreeInv, NEW asked, Worktree!Look(asked)
  PROVE  WorktreeInv'
<1>1. /\ pc = "idle" /\ fp' = Worktree!Fingerprint /\ seen' = wt.files
      /\ UNCHANGED <<wt, moves, main, index, ov, seed, plan, moved, misled>>
      /\ pc' \in {"full", "plan", "seed"} /\ (pc' = "plan" => Worktree!Usable(ov))
  BY DEF Worktree!Look, Worktree!mains
<1>2. /\ fp' \in Worktree!Fingerprints /\ fp'.head = wt.head
      /\ DOMAIN fp'.times = {f \in Files : wt.files[f] # Tree[wt.head][f]}
      /\ \A f \in DOMAIN fp'.times : fp'.times[f] = wt.times[f]
  BY <1>1, PrintNow DEF WorktreeInv
<1>3. Worktree!TypeOK' /\ TimesTell'
  BY <1>1, <1>2 DEF WorktreeInv, Worktree!TypeOK, TimesTell, Worktree!Stages
<1>4. SeenTells'
  <2> SUFFICES ASSUME NEW f \in Files
               PROVE  /\ f \notin DOMAIN fp'.times => seen'[f] = Tree[fp'.head][f]
                      /\ f \in DOMAIN fp'.times =>
                           /\ fp'.times[f] = 0 => seen'[f] = Gone
                           /\ fp'.times[f] <= moves /\ seen'[f] = wt.files[f]
    BY <1>1 DEF WorktreeInv, SeenTells, Tells
  <2>1. wt.times[f] \in 0 .. MaxMoves
    BY DEF WorktreeInv, Worktree!TypeOK
  <2> QED BY <1>1, <1>2, <2>1, OverlayAssumption DEF WorktreeInv, TimesTell
<1>5. StampTells' /\ Steps'
  BY <1>1 DEF WorktreeInv, StampTells, Tells, Steps
<1>6. Amendable'
  BY <1>1 DEF WorktreeInv, Amendable, Described, Worktree!Usable, Worktree!Healthy,
              Worktree!Pending, Worktree!HasNodes, Worktree!Emptied
<1> QED BY <1>3, <1>4, <1>5, <1>6 DEF WorktreeInv

\* What a step of the refresh leaves alone.
LEMMA Going ==
  ASSUME WorktreeInv, pc # "idle", NEW step \in Worktree!Stages, Worktree!Goto(step),
         ov' \in Worktree!Overlays \cup {None}, misled' \subseteq Files,
         step = "check" => seed' \in Worktree!Indexes
  PROVE  /\ Worktree!TypeOK' /\ TimesTell' /\ SeenTells'
         /\ pc' = step /\ UNCHANGED <<wt, moves, main, index, fp, seen, moved>>
<1>1. /\ pc' = step /\ pc' # "idle" /\ pc' \in Worktree!Stages
      /\ UNCHANGED <<wt, moves, main, index, fp, seen, moved>>
  BY DEF Worktree!Goto, Worktree!mains, Worktree!Stages
<1>2. Worktree!TypeOK'
  BY <1>1 DEF WorktreeInv, Worktree!TypeOK
<1>3. TimesTell' /\ SeenTells'
  BY <1>1 DEF WorktreeInv, TimesTell, SeenTells, Tells
<1> QED BY <1>1, <1>2, <1>3

\* A step that leaves the overlay alone and goes where nothing more is asked.
LEMMA Searching ==
  ASSUME WorktreeInv, pc # "idle", NEW step \in {"seed", "copy", "check", "full"},
         Worktree!Goto(step), UNCHANGED <<ov, misled>>,
         pc \in {"seed", "copy", "check", "plan"} \/ step = "full",
         step = "check" => seed' \in Worktree!Indexes
  PROVE  WorktreeInv'
<1>1. /\ Worktree!TypeOK' /\ TimesTell' /\ SeenTells'
      /\ pc' = step /\ UNCHANGED <<wt, moves, main, index, fp, seen, moved>>
  BY Going DEF WorktreeInv, Worktree!TypeOK, Worktree!Stages
<1>2. StampTells' /\ Steps'
  BY <1>1 DEF WorktreeInv, StampTells, Tells, Steps
<1>3. Amendable'
  BY <1>1 DEF WorktreeInv, Amendable, Described, Worktree!Usable, Worktree!Healthy,
              Worktree!Pending, Worktree!HasNodes, Worktree!Emptied
<1> QED BY <1>1, <1>2, <1>3 DEF WorktreeInv

LEMMA SeedingKeeps ==
  ASSUME WorktreeInv, Worktree!SeedChosen \/ Worktree!SeedCopied \/ Worktree!SeedAbandoned
  PROVE  WorktreeInv'
<1>1. CASE Worktree!SeedChosen
  BY <1>1, Searching DEF Worktree!SeedChosen
<1>2. CASE Worktree!SeedCopied
  <2>1. seed' \in Worktree!Indexes
    BY <1>2 DEF Worktree!SeedCopied, WorktreeInv, Worktree!TypeOK
  <2> QED BY <1>2, <2>1, Searching DEF Worktree!SeedCopied
<1>3. CASE Worktree!SeedAbandoned
  BY <1>3, Searching DEF Worktree!SeedAbandoned
<1> QED BY <1>1, <1>2, <1>3

\* The copy that becomes the overlay says of itself what is not main's commit, but
\* for what is hidden from it.
LEMMA RenameKeeps ==
  ASSUME WorktreeInv, Worktree!SeedRenamed
  PROVE  WorktreeInv'
<1>1. /\ pc = "check" /\ Worktree!CopyTrusted(seed) /\ Worktree!Goto("plan")
      /\ ov' = Worktree!Seeded(seed) /\ misled' = Worktree!Hidden(seed)
  BY DEF Worktree!SeedRenamed
<1>2. /\ seed \in Worktree!Indexes /\ seed.rows \in Rows /\ seed.record \subseteq Files
      /\ ~seed.marked /\ Worktree!HasNodes(seed.rows)
  BY <1>1 DEF WorktreeInv, Worktree!TypeOK, Worktree!Indexes, Worktree!CopyTrusted,
              Worktree!Seedable, Rows
<1>3. /\ ov'.rows = seed.rows /\ ov'.head = Base /\ ov'.stamp = None /\ ov'.mark = "seed"
      /\ ov'.dirty = seed.record \cup Worktree!Dirty(main, Base) /\ ov'.pending = TRUE
  BY <1>1 DEF Worktree!Seeded, Worktree!SeedDirty
<1>4. ov' \in Worktree!Overlays /\ ov' # None
  <2>1. Worktree!SeedDirty(seed) \subseteq Files
    BY <1>2 DEF Worktree!SeedDirty, Worktree!Dirty
  <2>2. ov' \in Worktree!Overlays
    BY <1>1, <1>2, <2>1, OverlayAssumption DEF Worktree!Seeded, Worktree!Overlays, Rows
  <2> QED BY <2>2, Parts
<1>5. misled' \subseteq Files
  BY <1>1 DEF Worktree!Hidden
<1>6. /\ Worktree!TypeOK' /\ TimesTell' /\ SeenTells' /\ pc' = "plan"
  BY <1>1, <1>4, <1>5, Going DEF Worktree!Stages
<1>7. Described'
  <2> SUFFICES ASSUME NEW f \in Files, f \notin misled', f \notin ov'.dirty
               PROVE  seed.rows[f] = Tree[Base][f]
    BY <1>3 DEF Described
  <2>1. f \notin seed.record /\ main[f] = Tree[Base][f]
    BY <1>3 DEF Worktree!Dirty
  <2> QED BY <1>1, <1>2, <2>1 DEF Worktree!Hidden
<1>8. Worktree!Usable(ov)'
  <2>1. Base # None
    BY OverlayAssumption
  <2> QED BY <1>2, <1>3, <1>4, <2>1 DEF Worktree!Usable, Worktree!Pending, Worktree!Emptied
<1>9. StampTells' /\ Amendable' /\ Steps'
  BY <1>3, <1>6, <1>7, <1>8 DEF StampTells, Amendable, Steps
<1> QED BY <1>6, <1>9 DEF WorktreeInv

\* What is not in the change set is in the worktree as in the rows (computeChangeSet).
LEMMA PlanKeeps ==
  ASSUME WorktreeInv, Worktree!Plan
  PROVE  WorktreeInv'
<1> DEFINE files == Worktree!ChangeSet(ov)
           there == {f \in files : wt.files[f] # Gone}
<1>1. pc = "plan" /\ UNCHANGED <<ov, seed, misled>>
  BY DEF Worktree!Plan
<1>2. CASE Worktree!Goto("seed") \/ Worktree!Goto("full")
  BY <1>1, <1>2, Searching
<1>3. CASE Worktree!Goto("amend") /\ plan' = [changed |-> there, deleted |-> files \ there]
  <2>1. /\ ov \in Worktree!Overlays /\ ov # None /\ Worktree!Usable(ov) /\ Described
        /\ ov.dirty \subseteq Files
    BY <1>1, Parts DEF WorktreeInv, Amendable, Worktree!TypeOK, Worktree!Usable,
                       Worktree!Healthy, Worktree!Pending
  <2>2. /\ Worktree!TypeOK' /\ TimesTell' /\ SeenTells'
        /\ pc' = "amend" /\ UNCHANGED <<wt, moves, main, index, fp, seen, moved>>
    BY <1>1, <1>3, <2>1, Going DEF WorktreeInv, Worktree!TypeOK, Worktree!Stages
  <2>3. StampTells'
    BY <1>1, <2>2 DEF WorktreeInv, StampTells, Tells
  <2>4. Amendable'
    BY <1>1, <2>1, <2>2 DEF Amendable, Described
  <2>5. files \subseteq Files /\ there \subseteq Files
    BY <2>1 DEF Worktree!ChangeSet, Worktree!Dirty, Worktree!Untracked
  <2>6. ASSUME NEW f \in Files \ (misled \cup files) PROVE ov.rows[f] = wt.files[f]
    <3>1. f \notin ov.dirty /\ wt.files[f] = Tree[ov.head][f]
      BY <2>6 DEF Worktree!ChangeSet, Worktree!Dirty
    <3> QED BY <2>1, <2>6, <3>1 DEF Described
  <2>7. plan'.changed = there /\ plan'.deleted = files \ there
    BY <1>3
  <2>8. \A f \in files \ there : wt.files[f] = Gone
    OBVIOUS
  <2> HIDE DEF files, there
  <2>9. there \cup (files \ there) = files \cup there
    OBVIOUS
  <2>10. Steps'
    BY <1>1, <2>1, <2>2, <2>5, <2>6, <2>7, <2>8, <2>9 DEF Steps, Planned
  <2> QED BY <2>2, <2>3, <2>4, <2>10 DEF WorktreeInv
<1> QED BY <1>1, <1>2, <1>3 DEF Worktree!Plan

\* The mark is taken and the stamp withdrawn before any row goes (beginIngest).
LEMMA AmendKeeps ==
  ASSUME WorktreeInv, Worktree!Amend
  PROVE  WorktreeInv'
<1>1. /\ pc = "amend" /\ ov' = Worktree!Begun(ov) /\ Worktree!Goto("purge")
      /\ UNCHANGED <<plan, misled>>
  BY DEF Worktree!Amend
<1>2. ov \in Worktree!Overlays
  BY <1>1 DEF WorktreeInv, Steps, Worktree!TypeOK
<1>3. /\ ov' \in Worktree!Overlays /\ ov' # None
      /\ ov'.rows = ov.rows /\ ov'.mark = "other" /\ ov'.stamp = None
  <2>1. ov' \in Worktree!Overlays
    BY <1>1, <1>2, Updates
  <2>2. ov'.rows = ov.rows /\ ov'.mark = "other" /\ ov'.stamp = None
    BY <1>1, <1>2, Updates
  <2> QED BY <2>1, <2>2, Parts
<1>4. /\ Worktree!TypeOK' /\ TimesTell' /\ SeenTells'
      /\ pc' = "purge" /\ UNCHANGED <<wt, moves, main, index, fp, seen, moved>>
  BY <1>1, <1>3, Going DEF WorktreeInv, Worktree!TypeOK, Worktree!Stages
<1>5. StampTells' /\ Amendable'
  BY <1>3, <1>4 DEF StampTells, Amendable
<1>6. Steps'
  BY <1>1, <1>3, <1>4 DEF WorktreeInv, Steps, Planned
<1> QED BY <1>4, <1>5, <1>6 DEF WorktreeInv

LEMMA PurgeKeeps ==
  ASSUME WorktreeInv, Worktree!Purge
  PROVE  WorktreeInv'
<1> DEFINE r == Worktree!Without(ov.rows, Planned)
<1>1. /\ pc = "purge" /\ ov' = [ov EXCEPT !.rows = Worktree!Without(@, Planned)]
      /\ Worktree!Goto("parse") /\ UNCHANGED <<plan, misled>>
  BY DEF Worktree!Purge, Planned
<1>2. ov \in Worktree!Overlays /\ ov.mark = "other" /\ ov.stamp = None /\ ov.rows \in Rows
  BY <1>1, Parts DEF WorktreeInv, Steps, Worktree!TypeOK
<1>3. /\ r \in Rows
      /\ \A f \in Files : r[f] = IF f \in Planned THEN Gone ELSE ov.rows[f]
  BY <1>2 DEF Worktree!Without, Rows, Worktree!Rows, Worktree!Contents
<1>4. /\ ov' \in Worktree!Overlays /\ ov' # None
      /\ ov'.rows = r /\ ov'.mark = "other" /\ ov'.stamp = None
  <2> HIDE DEF r
  <2>1. ov' = [ov EXCEPT !.rows = r]
    BY <1>1, <1>2 DEF r, Worktree!Overlays
  <2>2. ov' \in Worktree!Overlays
    BY <1>2, <1>3, <2>1, Updates
  <2>3. ov'.rows = r /\ ov'.mark = ov.mark /\ ov'.stamp = ov.stamp
    BY <1>2, <2>1 DEF Worktree!Overlays
  <2> QED BY <1>2, <2>2, <2>3, Parts
<1> HIDE DEF r
<1>5. /\ Worktree!TypeOK' /\ TimesTell' /\ SeenTells'
      /\ pc' = "parse" /\ UNCHANGED <<wt, moves, main, index, fp, seen, moved>>
  BY <1>1, <1>4, Going DEF WorktreeInv, Worktree!TypeOK, Worktree!Stages
<1>6. StampTells' /\ Amendable'
  BY <1>4, <1>5 DEF StampTells, Amendable
<1>7. Steps'
  BY <1>1, <1>3, <1>4, <1>5 DEF WorktreeInv, Steps, Planned
<1> QED BY <1>5, <1>6, <1>7 DEF WorktreeInv

\* What was parsed is as in the worktree, what was purged is gone from it.
LEMMA ParseKeeps ==
  ASSUME WorktreeInv, Worktree!Parse
  PROVE  WorktreeInv'
<1> DEFINE r == [f \in Files |-> IF f \in plan.changed THEN wt.files[f] ELSE ov.rows[f]]
           read == [ov EXCEPT !.rows = r]
           head == IF plan.changed = {} THEN ov.head ELSE wt.head
<1>1. /\ pc = "parse" /\ misled' = misled \ Planned
      /\ Worktree!Goto("full") \/ Worktree!Goto("stamp")
  BY DEF Worktree!Parse, Planned
<1>2. /\ ov \in Worktree!Overlays /\ ov.mark = "other" /\ ov.stamp = None /\ ov.rows \in Rows
      /\ wt.files \in Rows /\ wt.head \in Commits
  BY <1>1, Parts DEF WorktreeInv, Steps, Worktree!TypeOK, Rows
<1>3. r \in Rows
  BY <1>2 DEF Rows, Worktree!Rows
<1>4. ov' = Worktree!Ended([read EXCEPT !.head = head], FALSE)
  BY <1>2 DEF Worktree!Parse, Worktree!Overlays
<1>5. \A f \in Files : r[f] = IF f \in plan.changed THEN wt.files[f] ELSE ov.rows[f]
  OBVIOUS
<1> HIDE DEF r
<1>6. /\ ov' \in Worktree!Overlays /\ ov' # None /\ ov'.rows = r /\ ov'.stamp = None
  <2>1. read \in Worktree!Overlays /\ read.rows = r /\ read.stamp = None
    BY <1>2, <1>3 DEF Worktree!Overlays, Rows
  <2>2. head \in Commits \cup {None}
    BY <1>2, Parts
  <2> HIDE DEF read, head
  <2>3. /\ [read EXCEPT !.head = head] \in Worktree!Overlays
        /\ [read EXCEPT !.head = head].rows = r /\ [read EXCEPT !.head = head].stamp = None
    BY <2>1, <2>2 DEF Worktree!Overlays
  <2>4. ASSUME NEW o \in Worktree!Overlays, ov' = Worktree!Ended(o, FALSE)
        PROVE  ov' \in Worktree!Overlays /\ ov'.rows = o.rows /\ ov'.stamp = o.stamp
    BY <2>4, Updates
  <2>5. ov' \in Worktree!Overlays /\ ov'.rows = r /\ ov'.stamp = None
    BY <1>4, <2>3, <2>4
  <2> QED BY <2>5, Parts
<1>7. /\ Worktree!TypeOK' /\ TimesTell' /\ SeenTells'
      /\ pc' \in {"full", "stamp"} /\ UNCHANGED <<wt, moves, main, index, fp, seen, moved>>
  <2>1. misled' \subseteq Files
    BY <1>1 DEF WorktreeInv, Worktree!TypeOK
  <2> QED BY <1>1, <1>6, <2>1, Going DEF Worktree!Stages
<1>8. StampTells' /\ Amendable'
  BY <1>6, <1>7 DEF StampTells, Amendable
<1>9. ASSUME NEW f \in Files, f \notin misled', f \notin moved
      PROVE  r[f] = wt.files[f]
  <2>1. CASE f \in plan.changed
    BY <1>5, <2>1
  <2>2. CASE f \notin plan.changed /\ f \in plan.deleted
    BY <1>1, <1>5, <1>9, <2>2 DEF WorktreeInv, Steps
  <2>3. CASE f \notin Planned
    BY <1>1, <1>5, <1>9, <2>3 DEF WorktreeInv, Steps, Planned
  <2> QED BY <2>1, <2>2, <2>3 DEF Planned
<1>10. Steps'
  BY <1>6, <1>7, <1>9 DEF Steps
<1> QED BY <1>7, <1>8, <1>10 DEF WorktreeInv

\* A parse of everything, over whatever is there.
LEMMA WithdrawKeeps ==
  ASSUME WorktreeInv, Worktree!Withdraw
  PROVE  WorktreeInv'
<1>1. /\ pc = "full" /\ Worktree!Goto("clear") /\ misled' = misled
      /\ ov' \in {Worktree!NewFile, [ov EXCEPT !.stamp = None, !.pending = FALSE]}
      /\ ov = None => ov' = Worktree!NewFile
  BY DEF Worktree!Withdraw
<1>2. ov' \in Worktree!Overlays /\ ov'.stamp = None
  <2>1. CASE ov' = Worktree!NewFile
    <3>1. Worktree!Empty \in Worktree!Rows
      BY DEF Worktree!Empty, Worktree!Rows, Worktree!Contents
    <3> QED BY <2>1, <3>1 DEF Worktree!NewFile, Worktree!Overlays
  <2>2. CASE ov # None /\ ov' = [ov EXCEPT !.stamp = None, !.pending = FALSE]
    <3>1. ov \in Worktree!Overlays
      BY <2>2 DEF WorktreeInv, Worktree!TypeOK
    <3> QED BY <2>2, <3>1 DEF Worktree!Overlays
  <2> QED BY <1>1, <2>1, <2>2
<1>3. /\ Worktree!TypeOK' /\ TimesTell' /\ SeenTells' /\ pc' = "clear"
  BY <1>1, <1>2, Going DEF WorktreeInv, Worktree!TypeOK, Worktree!Stages
<1>4. StampTells' /\ Amendable' /\ Steps'
  BY <1>2, <1>3, Parts DEF StampTells, Amendable, Steps
<1> QED BY <1>3, <1>4 DEF WorktreeInv

LEMMA ClearAllKeeps ==
  ASSUME WorktreeInv, Worktree!ClearAll
  PROVE  WorktreeInv'
<1>1. /\ pc = "clear" /\ Worktree!Goto("parseAll") /\ misled' = misled
      /\ ov' = [Worktree!Begun(ov) EXCEPT !.rows = Worktree!Empty]
  BY DEF Worktree!ClearAll
<1>2. ov \in Worktree!Overlays /\ Worktree!Begun(ov) \in Worktree!Overlays
      /\ Worktree!Begun(ov).mark = "other" /\ Worktree!Begun(ov).stamp = None
  <2>1. ov \in Worktree!Overlays
    BY <1>1 DEF WorktreeInv, Steps, Worktree!TypeOK
  <2> QED BY <2>1, Updates
<1>3. Worktree!Empty \in Rows
  BY DEF Worktree!Empty, Rows, Worktree!Rows, Worktree!Contents
<1>4. ov' \in Worktree!Overlays /\ ov'.mark = "other" /\ ov'.stamp = None
  BY <1>1, <1>2, <1>3 DEF Worktree!Overlays, Rows
<1>5. /\ Worktree!TypeOK' /\ TimesTell' /\ SeenTells' /\ pc' = "parseAll"
  BY <1>1, <1>4, Going DEF WorktreeInv, Worktree!TypeOK, Worktree!Stages
<1>6. StampTells' /\ Amendable' /\ Steps'
  BY <1>4, <1>5, Parts DEF StampTells, Amendable, Steps
<1> QED BY <1>5, <1>6 DEF WorktreeInv

LEMMA ParseAllKeeps ==
  ASSUME WorktreeInv, Worktree!ParseAll
  PROVE  WorktreeInv'
<1>1. /\ pc = "parseAll" /\ Worktree!Goto("stamp") /\ misled' = {}
      /\ ov' = Worktree!Ended([ov EXCEPT !.rows = wt.files, !.head = wt.head], TRUE)
  BY DEF Worktree!ParseAll
<1>2. /\ ov \in Worktree!Overlays /\ ov.stamp = None /\ wt.files \in Rows /\ wt.head \in Commits
  BY <1>1 DEF WorktreeInv, Steps, Worktree!TypeOK, Rows
<1>3. ov' \in Worktree!Overlays /\ ov'.rows = wt.files /\ ov'.stamp = None
  <2>1. PICK o : o = [ov EXCEPT !.rows = wt.files, !.head = wt.head]
    OBVIOUS
  <2>2. o \in Worktree!Overlays /\ o.rows = wt.files /\ o.stamp = None
    BY <1>2, <2>1 DEF Worktree!Overlays, Rows
  <2>3. ov' = Worktree!Ended(o, TRUE)
    BY <1>1, <2>1
  <2> QED BY <2>2, <2>3, Updates
<1>4. /\ Worktree!TypeOK' /\ TimesTell' /\ SeenTells'
      /\ pc' = "stamp" /\ UNCHANGED <<wt, moves, main, index, fp, seen, moved>>
  BY <1>1, <1>3, Going DEF Worktree!Stages
<1>5. StampTells' /\ Amendable' /\ Steps'
  BY <1>3, <1>4, Parts DEF StampTells, Amendable, Steps
<1> QED BY <1>4, <1>5 DEF WorktreeInv

\* The stamp says of the rows what the fingerprint says of what was seen.
LEMMA StampKeeps ==
  ASSUME WorktreeInv, Worktree!Stamp
  PROVE  WorktreeInv'
<1>1. /\ pc = "stamp" /\ ov' = Worktree!Stamped(ov) /\ pc' = "idle" /\ moved' = {}
      /\ misled' = misled \cup {f \in moved : ov.rows[f] # seen[f]}
      /\ UNCHANGED <<wt, moves, main, index>>
  BY DEF Worktree!Stamp, Worktree!Leave, Worktree!mains
<1>2. ov \in Worktree!Overlays /\ fp \in Worktree!Fingerprints
  BY <1>1 DEF WorktreeInv, Steps, Worktree!TypeOK
<1>3. /\ ov' \in Worktree!Overlays /\ ov'.rows = ov.rows /\ ov'.stamp = fp /\ ov'.head = fp.head
      /\ ov'.dirty = DOMAIN fp.times
  <2>1. ov' \in Worktree!Overlays
    BY <1>1, <1>2, Updates
  <2>2. /\ ov'.rows = ov.rows /\ ov'.stamp = fp /\ ov'.head = fp.head
        /\ ov'.dirty = DOMAIN fp.times
    BY <1>1, <1>2 DEF Worktree!Stamped, Worktree!Overlays
  <2> QED BY <2>1, <2>2
<1>4. Worktree!TypeOK' /\ TimesTell' /\ SeenTells'
  BY <1>1, <1>3 DEF WorktreeInv, Worktree!TypeOK, TimesTell, SeenTells
<1>5. ASSUME NEW f \in Files, f \notin misled'
      PROVE  Tells(fp, seen, f) /\ ov.rows[f] = seen[f]
  <2>1. Tells(fp, seen, f) /\ (f \notin moved => seen[f] = wt.files[f])
    BY <1>1 DEF WorktreeInv, SeenTells
  <2>2. CASE f \in moved
    BY <1>1, <1>5, <2>1, <2>2
  <2>3. CASE f \notin moved
    BY <1>1, <1>5, <2>1, <2>3 DEF WorktreeInv, Steps
  <2> QED BY <2>1, <2>2, <2>3
<1>6. StampTells'
  <2> SUFFICES ASSUME NEW f \in Files, f \notin misled' PROVE Tells(ov.stamp, ov.rows, f)'
    BY DEF StampTells
  <2> QED BY <1>1, <1>3, <1>5 DEF Tells
<1>7. Described'
  BY <1>3, <1>5 DEF Described, Tells
<1>8. Amendable' /\ Steps'
  BY <1>1, <1>7 DEF Amendable, Steps
<1> QED BY <1>4, <1>6, <1>8 DEF WorktreeInv

\* A death anywhere leaves an overlay that is marked, or stamped, or says which of
\* its rows are not its commit's, but for what it is excused of.
LEMMA KillKeeps ==
  ASSUME WorktreeInv, Worktree!Kill
  PROVE  WorktreeInv'
<1>1. /\ pc # "idle" /\ pc' = "idle" /\ moved' = {} /\ UNCHANGED <<wt, moves, main, index, ov>>
      /\ misled' = IF pc \in {"stamp", "full", "clear"} /\ Worktree!Usable(ov)
                     THEN misled \cup Worktree!Misdescribed(ov) ELSE misled
  BY DEF Worktree!Kill, Worktree!Leave, Worktree!mains
<1>2. misled \subseteq misled' /\ misled' \subseteq Files
  BY <1>1 DEF Worktree!Misdescribed, WorktreeInv, Worktree!TypeOK
<1>3. Worktree!TypeOK' /\ TimesTell' /\ SeenTells' /\ Steps'
  BY <1>1, <1>2 DEF WorktreeInv, Worktree!TypeOK, TimesTell, SeenTells, Steps
<1>4. StampTells'
  BY <1>1, <1>2 DEF WorktreeInv, StampTells, Tells
<1>5. ASSUME Worktree!Usable(ov) PROVE Described'
  <2>1. CASE pc \in {"stamp", "full", "clear"}
    BY <1>1, <1>5, <2>1 DEF Described, Worktree!Misdescribed
  <2>2. CASE pc \in {"seed", "copy", "check", "plan", "amend"}
    BY <1>1, <1>2, <1>5, <2>2 DEF WorktreeInv, Amendable, Described
  <2>3. CASE pc \in {"purge", "parse", "parseAll"}
    BY <1>5, <2>3 DEF WorktreeInv, Steps, Worktree!Usable, Worktree!Healthy, Worktree!Pending
  <2>4. pc \in {"seed", "copy", "check", "plan", "amend", "purge", "parse", "parseAll",
                "stamp", "full", "clear"}
    BY <1>1 DEF WorktreeInv, Worktree!TypeOK, Worktree!Stages
  <2> QED BY <2>1, <2>2, <2>3, <2>4
<1>6. Amendable'
  BY <1>1, <1>5 DEF Amendable, Worktree!Usable, Worktree!Healthy, Worktree!Pending,
                    Worktree!HasNodes
<1> QED BY <1>3, <1>4, <1>6 DEF WorktreeInv

LEMMA WorktreeNext ==
  ASSUME WorktreeInv, [Worktree!Next]_overlayVars
  PROVE  WorktreeInv'
<1>1. CASE UNCHANGED overlayVars
  <2>1. UNCHANGED <<wt, moves, ov, seed, pc, fp, plan, seen, moved, misled, main, index>>
    BY <1>1 DEF overlayVars
  <2> QED BY <2>1, MainKeeps DEF WorktreeInv, Worktree!TypeOK, Rows
<1>2. CASE \E asked \in {"lazy", "force", "full"} : Worktree!Look(asked)
  BY <1>2, LookKeeps
<1>3. CASE Worktree!Refresh
  BY <1>3, SeedingKeeps, RenameKeeps, PlanKeeps, AmendKeeps, PurgeKeeps, ParseKeeps,
     WithdrawKeeps, ClearAllKeeps, ParseAllKeeps, StampKeeps DEF Worktree!Refresh
<1> QED BY <1>1, <1>2, <1>3, MovesKeep, IngestsKeep, KillKeeps DEF Worktree!Next

\* A behaviour that is of the overlay begins and goes on as Overlay says.
WorktreeHolds == part = "overlay" => WorktreeInv

LEMMA WorktreeAlwaysHolds == KilledSpec => []WorktreeHolds
<1>1. KilledInit => WorktreeHolds
  BY WorktreeInit DEF KilledInit, WorktreeHolds
<1>2. WorktreeHolds /\ [KilledNext]_all => WorktreeHolds'
  <2> SUFFICES ASSUME WorktreeHolds, [KilledNext]_all, part' = "overlay"
               PROVE  WorktreeInv'
    BY DEF WorktreeHolds
  <2>1. part = "overlay" /\ WorktreeInv
    BY DEF KilledNext, ReplicaStep, OverlayStep, WorktreeHolds, all
  <2>2. [Worktree!Next]_overlayVars
    BY <2>1 DEF KilledNext, ReplicaStep, OverlayStep, all
  <2> QED BY <2>1, <2>2, WorktreeNext
<1> QED BY <1>1, <1>2, PTL DEF KilledSpec

(***************************************************************************)
(* What a reader is told is fresh holds the worktree's files, but for the  *)
(* three ways in misled: through any edits and moves of the worktree and   *)
(* of main, ingests of main while it is copied, and any number of deaths   *)
(* of the refresh (refreshOverlay, overlayStatus).                         *)
(***************************************************************************)
THEOREM FreshAlwaysIsWorktree == KilledSpec => []FreshIsWorktree
<1>1. WorktreeHolds => FreshIsWorktree
  BY FreshTells DEF WorktreeHolds, FreshIsWorktree
<1> QED BY <1>1, WorktreeAlwaysHolds, PTL

------------------------------------------------------------------------------
(* Sums *)

\* What holds of 0, and of n + 1 if of n, holds of every natural number.
LEMMA Naturally ==
  ASSUME NEW G, 0 \in G, \A n \in Nat : n \in G => n + 1 \in G
  PROVE  Nat \subseteq G
<1> SUFFICES ASSUME Nat \ G # {} PROVE FALSE
  OBVIOUS
<1>1. PICK n \in Nat \ G : \A m \in Nat \ G : n <= m
  BY NaturalMinimum
<1>2. n # 0 /\ n - 1 \in Nat /\ (n - 1) + 1 = n /\ ~(n <= n - 1)
  BY <1>1
<1> QED BY <1>1, <1>2

\* Flusher!SumFunction adds the values in the order in which CHOOSE picks their indices.
Pick(s) == CHOOSE x \in s : TRUE
Adds(it, v) ==
  it = [s \in SUBSET DOMAIN v |-> IF s = {} THEN 0 ELSE v[Pick(s)] + it[s \ {Pick(s)}]]
SumIt(v) == CHOOSE it : Adds(it, v)

LEMMA SumIs ==
  ASSUME NEW v PROVE Flusher!SumFunction(v) = SumIt(v)[DOMAIN v]
  BY DEF Flusher!SumFunction, Flusher!SumFunctionOnSet, Flusher!FoldFunctionOnSet, Flusher!MapThenFoldSet, SumIt, Adds, Pick

LEMMA Picked ==
  ASSUME NEW S, IsFiniteSet(S), NEW s \in SUBSET S, s # {}
  PROVE  /\ Pick(s) \in s /\ s \ {Pick(s)} \in SUBSET S
         /\ Cardinality(s) \in Nat \ {0} /\ Cardinality(s \ {Pick(s)}) = Cardinality(s) - 1
<1>1. Pick(s) \in s
  BY DEF Pick
<1>2. IsFiniteSet(s)
  BY FS_Subset
<1>3. Cardinality(s) \in Nat /\ Cardinality(s) # 0
  BY <1>2, FS_CardinalityType, FS_EmptySet
<1>4. Cardinality(s \ {Pick(s)}) = Cardinality(s) - 1
  BY <1>1, <1>2, FS_RemoveElement
<1> QED BY <1>1, <1>3, <1>4

\* There is such a function: of the sets of at most n elements for every n.
LEMMA SumItAdds ==
  ASSUME NEW S, IsFiniteSet(S), NEW v \in [S -> Nat]
  PROVE  Adds(SumIt(v), v)
<1> DEFINE Small(n) == {s \in SUBSET S : Cardinality(s) <= n}
           Upto(n, g) == g = [s \in Small(n) |-> IF s = {} THEN 0 ELSE v[Pick(s)] + g[s \ {Pick(s)}]]
           G == {n \in Nat : \E g : Upto(n, g)}
<1>1. 0 \in G
  <2> DEFINE g == [s \in Small(0) |-> 0]
  <2>1. ASSUME NEW s \in Small(0) PROVE s = {}
    <3> SUFFICES ASSUME s # {} PROVE FALSE
      OBVIOUS
    <3>1. Cardinality(s) \in Nat \ {0} /\ Cardinality(s) <= 0
      BY Picked
    <3> QED BY <3>1
  <2>2. Upto(0, g)
    BY <2>1
  <2> QED BY <2>2
<1>2. ASSUME NEW n \in Nat, n \in G PROVE n + 1 \in G
  <2>1. PICK g : Upto(n, g)
    BY <1>2
  <2> DEFINE h == [s \in Small(n + 1) |-> IF s = {} THEN 0 ELSE v[Pick(s)] + g[s \ {Pick(s)}]]
  <2>2. ASSUME NEW s \in Small(n + 1), s # {}
        PROVE  s \ {Pick(s)} \in Small(n) /\ s \ {Pick(s)} \in Small(n + 1)
    BY <2>2, Picked
  <2>3. ASSUME NEW s \in Small(n) PROVE s \in Small(n + 1) /\ h[s] = g[s]
    <3>1. Cardinality(s) \in Nat
      BY FS_Subset, FS_CardinalityType
    <3>2. s \in Small(n + 1)
      BY <3>1
    <3>3. g[s] = IF s = {} THEN 0 ELSE v[Pick(s)] + g[s \ {Pick(s)}]
      BY <2>1
    <3> QED BY <3>2, <3>3
  <2> HIDE DEF Small
  <2>4. \A s \in Small(n + 1) : s # {} => h[s \ {Pick(s)}] = g[s \ {Pick(s)}]
    <3> HIDE DEF h
    <3> QED BY <2>2, <2>3
  <2>5. Upto(n + 1, h)
    BY <2>4
  <2>6. \E k : Upto(n + 1, k)
    <3> HIDE DEF Upto
    <3> QED BY <2>5
  <2>7. n + 1 \in Nat
    OBVIOUS
  <2> HIDE DEF Upto
  <2> QED BY <2>6, <2>7
<1> HIDE DEF G
<1>3. Cardinality(S) \in G
  BY <1>1, <1>2, Naturally, FS_CardinalityType
<1>4. PICK g : Upto(Cardinality(S), g)
  BY <1>3 DEF G
<1>5. Small(Cardinality(S)) = SUBSET S
  BY FS_Subset
<1>6. DOMAIN v = S
  OBVIOUS
<1>7. Adds(g, v)
  <2> HIDE DEF Small
  <2> QED BY <1>4, <1>5, <1>6 DEF Adds
<1> QED BY <1>7 DEF SumIt

\* What holds of {}, and of a set if of what is left when Pick is taken from it,
\* holds of every set of indices.
LEMMA Peeled ==
  ASSUME NEW S, IsFiniteSet(S), NEW G, {} \in G,
         \A s \in SUBSET S : s # {} /\ s \ {Pick(s)} \in G => s \in G
  PROVE  \A s \in SUBSET S : s \in G
<1> DEFINE H == {n \in Nat : \A s \in SUBSET S : Cardinality(s) = n => s \in G}
<1>1. 0 \in H
  <2>1. \A s \in SUBSET S : Cardinality(s) = 0 => s = {}
    BY FS_Subset, FS_EmptySet
  <2> QED BY <2>1
<1>2. ASSUME NEW n \in Nat, n \in H PROVE n + 1 \in H
  <2> SUFFICES ASSUME NEW s \in SUBSET S, Cardinality(s) = n + 1, s # {} PROVE s \in G
    OBVIOUS
  <2>1. s \ {Pick(s)} \in SUBSET S /\ Cardinality(s \ {Pick(s)}) = n
    BY Picked
  <2> QED BY <1>2, <2>1
<1> HIDE DEF H
<1>3. ASSUME NEW s \in SUBSET S PROVE s \in G
  <2>1. Cardinality(s) \in Nat
    BY FS_Subset, FS_CardinalityType
  <2>2. Cardinality(s) \in H
    BY <1>1, <1>2, <2>1, Naturally
  <2> QED BY <2>2 DEF H
<1> QED BY <1>3

\* What is added does not depend on the rest of the domain.
LEMMA SumsAgree ==
  ASSUME NEW S, IsFiniteSet(S), NEW v \in [S -> Nat],
         NEW T, IsFiniteSet(T), NEW w \in [T -> Nat]
  PROVE  \A s \in SUBSET (S \cap T) :
           /\ SumIt(v)[s] \in Nat
           /\ (\A x \in s : v[x] = w[x]) => SumIt(v)[s] = SumIt(w)[s]
<1> DEFINE Equal(s) == /\ SumIt(v)[s] \in Nat
                       /\ (\A x \in s : v[x] = w[x]) => SumIt(v)[s] = SumIt(w)[s]
           G == {s \in SUBSET (S \cap T) : Equal(s)}
<1>1. /\ \A s \in SUBSET S : SumIt(v)[s] = IF s = {} THEN 0 ELSE v[Pick(s)] + SumIt(v)[s \ {Pick(s)}]
      /\ \A s \in SUBSET T : SumIt(w)[s] = IF s = {} THEN 0 ELSE w[Pick(s)] + SumIt(w)[s \ {Pick(s)}]
  <2>1. Adds(SumIt(v), v) /\ Adds(SumIt(w), w) /\ DOMAIN v = S /\ DOMAIN w = T
    BY SumItAdds
  <2> QED BY <2>1 DEF Adds
<1>2. ASSUME NEW s \in SUBSET (S \cap T), s = {} \/ Equal(s \ {Pick(s)})
      PROVE  Equal(s)
  <2>1. CASE s = {}
    BY <1>1, <2>1
  <2>2. CASE s # {}
    <3> DEFINE p == Pick(s)
               rest == s \ {p}
    <3>1. p \in s /\ p \in S /\ p \in T /\ v[p] \in Nat
      BY <2>2, Picked
    <3>2. SumIt(v)[s] = v[p] + SumIt(v)[rest] /\ SumIt(w)[s] = w[p] + SumIt(w)[rest]
      BY <1>1, <2>2
    <3>3. /\ SumIt(v)[rest] \in Nat
          /\ (\A x \in s : v[x] = w[x]) => SumIt(v)[rest] = SumIt(w)[rest]
      BY <1>2, <2>2
    <3> HIDE DEF p, rest
    <3> QED BY <3>1, <3>2, <3>3
  <2> QED BY <2>1, <2>2
<1> HIDE DEF Equal
<1>3. {} \in G
  BY <1>2
<1>4. ASSUME NEW s \in SUBSET (S \cap T), s # {}, s \ {Pick(s)} \in G PROVE s \in G
  BY <1>2, <1>4
<1> HIDE DEF G
<1>5. IsFiniteSet(S \cap T)
  BY FS_Subset
<1>6. \A s \in SUBSET (S \cap T) : s \in G
  BY <1>3, <1>4, <1>5, Peeled
<1> QED BY <1>6 DEF G, Equal

\* Any index may be added first.
LEMMA SumItRemoves ==
  ASSUME NEW S, IsFiniteSet(S), NEW v \in [S -> Nat]
  PROVE  \A s \in SUBSET S : \A x \in s : SumIt(v)[s] = v[x] + SumIt(v)[s \ {x}]
<1> DEFINE Any(s) == \A x \in s : SumIt(v)[s] = v[x] + SumIt(v)[s \ {x}]
           G == {n \in Nat : \A s \in SUBSET S : Cardinality(s) = n => Any(s)}
<1>1. \A s \in SUBSET S : SumIt(v)[s] = IF s = {} THEN 0 ELSE v[Pick(s)] + SumIt(v)[s \ {Pick(s)}]
  <2>1. Adds(SumIt(v), v) /\ DOMAIN v = S
    BY SumItAdds
  <2> QED BY <2>1 DEF Adds
<1>2. \A s \in SUBSET S : SumIt(v)[s] \in Nat
  BY SumsAgree
<1>3. 0 \in G
  <2>1. \A s \in SUBSET S : Cardinality(s) = 0 => s = {}
    BY FS_Subset, FS_EmptySet
  <2> QED BY <2>1
<1>4. ASSUME NEW n \in Nat, n \in G PROVE n + 1 \in G
  <2> SUFFICES ASSUME NEW s \in SUBSET S, Cardinality(s) = n + 1, NEW x \in s
               PROVE  SumIt(v)[s] = v[x] + SumIt(v)[s \ {x}]
    OBVIOUS
  <2> DEFINE p == Pick(s)
  <2>1. p \in s /\ IsFiniteSet(s) /\ SumIt(v)[s] = v[p] + SumIt(v)[s \ {p}]
    BY <1>1, Picked, FS_Subset
  <2>2. CASE x = p
    BY <2>1, <2>2
  <2>3. CASE x # p
    <3>0. n + 1 - 1 = n
      OBVIOUS
    <3>1. Cardinality(s \ {p}) = n /\ Cardinality(s \ {x}) = n
      <4> HIDE DEF p
      <4>1. Cardinality(s \ {p}) = Cardinality(s) - 1 /\ Cardinality(s \ {x}) = Cardinality(s) - 1
        BY <2>1, FS_RemoveElement
      <4> QED BY <3>0, <4>1
    <3> HIDE DEF p
    <3>2. SumIt(v)[s \ {p}] = v[x] + SumIt(v)[(s \ {p}) \ {x}]
      BY <1>4, <2>3, <3>1
    <3>3. SumIt(v)[s \ {x}] = v[p] + SumIt(v)[(s \ {x}) \ {p}]
      BY <1>4, <2>1, <2>3, <3>1
    <3>4. (s \ {p}) \ {x} = (s \ {x}) \ {p}
      OBVIOUS
    <3>5. v[p] \in Nat /\ v[x] \in Nat /\ (s \ {x}) \ {p} \in SUBSET S
      BY <2>1
    <3>6. SumIt(v)[(s \ {x}) \ {p}] \in Nat
      BY <1>2, <3>5
    <3>7. \A i, j, k \in Nat : i + (j + k) = j + (i + k)
      OBVIOUS
    <3>8. v[p] + (v[x] + SumIt(v)[(s \ {x}) \ {p}]) = v[x] + (v[p] + SumIt(v)[(s \ {x}) \ {p}])
      BY <3>5, <3>6, <3>7
    <3> QED BY <2>1, <3>2, <3>3, <3>4, <3>8, Zenon
  <2> QED BY <2>2, <2>3
<1> HIDE DEF G
<1>5. ASSUME NEW s \in SUBSET S PROVE Any(s)
  <2>1. Cardinality(s) \in Nat
    BY FS_Subset, FS_CardinalityType
  <2>2. Cardinality(s) \in G
    BY <1>3, <1>4, <2>1, Naturally
  <2> QED BY <2>2 DEF G
<1> QED BY <1>5

\* A sum is one of its values and the sum of the others.
LEMMA SumRemoves ==
  ASSUME NEW S, IsFiniteSet(S), NEW v \in [S -> Nat]
  PROVE  /\ Flusher!SumFunction(v) \in Nat
         /\ S = {} => Flusher!SumFunction(v) = 0
         /\ \A x \in S : Flusher!SumFunction(v) = v[x] + Flusher!SumFunction([y \in S \ {x} |-> v[y]])
<1>1. Flusher!SumFunction(v) = SumIt(v)[S]
  BY SumIs
<1>2. Flusher!SumFunction(v) \in Nat
  BY <1>1, SumsAgree
<1>3. ASSUME S = {} PROVE Flusher!SumFunction(v) = 0
  <2>1. Adds(SumIt(v), v) /\ DOMAIN v = S
    BY SumItAdds
  <2> QED BY <1>1, <1>3, <2>1 DEF Adds
<1>4. ASSUME NEW x \in S PROVE Flusher!SumFunction(v) = v[x] + Flusher!SumFunction([y \in S \ {x} |-> v[y]])
  <2> DEFINE T == S \ {x}
             w == [y \in T |-> v[y]]
  <2>1. IsFiniteSet(T) /\ w \in [T -> Nat] /\ DOMAIN w = T /\ T \in SUBSET (S \cap T)
    BY FS_RemoveElement
  <2>2. \A y \in T : v[y] = w[y]
    OBVIOUS
  <2> HIDE DEF w
  <2>3. SumIt(v)[T] = SumIt(w)[T]
    BY <2>1, <2>2, SumsAgree
  <2>4. Flusher!SumFunction(w) = SumIt(w)[T]
    BY <2>1, SumIs
  <2>5. SumIt(v)[S] = v[x] + SumIt(v)[T]
    BY SumItRemoves
  <2>6. Flusher!SumFunction(v) = v[x] + Flusher!SumFunction(w)
    BY <1>1, <2>3, <2>4, <2>5
  <2> QED BY <2>6 DEF w
<1> QED BY <1>2, <1>3, <1>4

\* A sum of zeros.
LEMMA SumZero ==
  ASSUME NEW S, IsFiniteSet(S), NEW v \in [S -> Nat], \A x \in S : v[x] = 0
  PROVE  Flusher!SumFunction(v) = 0
<1> DEFINE G == {s \in SUBSET S : SumIt(v)[s] = 0}
<1>1. \A s \in SUBSET S : SumIt(v)[s] = IF s = {} THEN 0 ELSE v[Pick(s)] + SumIt(v)[s \ {Pick(s)}]
  <2>1. Adds(SumIt(v), v) /\ DOMAIN v = S
    BY SumItAdds
  <2> QED BY <2>1 DEF Adds
<1>2. {} \in G
  BY <1>1
<1>3. ASSUME NEW s \in SUBSET S, s # {}, s \ {Pick(s)} \in G PROVE s \in G
  <2>1. Pick(s) \in S
    BY <1>3, Picked
  <2> QED BY <1>1, <1>3, <2>1
<1>4. S \in G
  <2> HIDE DEF G
  <2> QED BY <1>2, <1>3, Peeled
<1> QED BY <1>4, SumIs

\* A sum of zeros and one more is that one.
LEMMA SumOne ==
  ASSUME NEW S, IsFiniteSet(S), NEW v \in [S -> Nat], NEW x \in S, \A y \in S \ {x} : v[y] = 0
  PROVE  Flusher!SumFunction(v) = v[x]
<1> DEFINE w == [y \in S \ {x} |-> v[y]]
<1>1. IsFiniteSet(S \ {x}) /\ w \in [S \ {x} -> Nat] /\ \A y \in S \ {x} : w[y] = 0
  BY FS_RemoveElement
<1>2. Flusher!SumFunction(w) = 0
  <2> HIDE DEF w
  <2> QED BY <1>1, SumZero
<1>3. Flusher!SumFunction(v) = v[x] + Flusher!SumFunction(w)
  BY SumRemoves
<1> QED BY <1>2, <1>3

\* A sum with one of its values changed.
LEMMA SumChanges ==
  ASSUME NEW S, IsFiniteSet(S), NEW v \in [S -> Nat], NEW w \in [S -> Nat],
         NEW x \in S, \A y \in S \ {x} : v[y] = w[y]
  PROVE  Flusher!SumFunction(v) + w[x] = Flusher!SumFunction(w) + v[x]
<1> DEFINE rest(u) == [y \in S \ {x} |-> u[y]]
<1>1. rest(v) = rest(w)
  OBVIOUS
<1>2. Flusher!SumFunction(v) = v[x] + Flusher!SumFunction(rest(v))
  BY SumRemoves
<1>3. Flusher!SumFunction(w) = w[x] + Flusher!SumFunction(rest(w))
  BY SumRemoves
<1>4. Flusher!SumFunction(rest(v)) \in Nat
  <2>1. IsFiniteSet(S \ {x}) /\ rest(v) \in [S \ {x} -> Nat]
    BY FS_RemoveElement
  <2> HIDE DEF rest
  <2> QED BY <2>1, SumRemoves
<1> HIDE DEF rest
<1> QED BY <1>1, <1>2, <1>3, <1>4

\* A sum over other indices.
LEMMA SumReindexes ==
  ASSUME NEW S, IsFiniteSet(S), NEW v \in [S -> Nat],
         NEW T, IsFiniteSet(T), NEW w \in [T -> Nat], NEW f \in Bijection(S, T),
         \A x \in S : v[x] = w[f[x]]
  PROVE  Flusher!SumFunction(v) = Flusher!SumFunction(w)
<1> DEFINE Im(s) == {f[x] : x \in s}
           G == {s \in SUBSET S : SumIt(v)[s] = SumIt(w)[Im(s)]}
<1>1. /\ \A s \in SUBSET S : SumIt(v)[s] = IF s = {} THEN 0 ELSE v[Pick(s)] + SumIt(v)[s \ {Pick(s)}]
      /\ SumIt(w)[{}] = 0
  <2>1. Adds(SumIt(v), v) /\ DOMAIN v = S /\ Adds(SumIt(w), w) /\ DOMAIN w = T
    BY SumItAdds
  <2> QED BY <2>1 DEF Adds
<1>2. /\ f \in [S -> T] /\ \A y \in T : \E x \in S : f[x] = y
      /\ \A x, y \in S : f[x] = f[y] => x = y
  BY DEF Bijection, Injection, Surjection, IsInjective
<1>3. {} \in G
  <2>1. Im({}) = {}
    OBVIOUS
  <2> QED BY <1>1, <2>1
<1>4. ASSUME NEW s \in SUBSET S, s # {}, s \ {Pick(s)} \in G PROVE s \in G
  <2> DEFINE p == Pick(s)
  <2>0. p \in s
    BY <1>4, Picked
  <2>1. p \in s /\ f[p] \in Im(s) /\ Im(s) \in SUBSET T
    <3> HIDE DEF p
    <3> QED BY <1>2, <2>0
  <2>2. Im(s) \ {f[p]} = Im(s \ {p})
    <3> HIDE DEF p
    <3> QED BY <1>2, <2>1
  <2>3. SumIt(w)[Im(s)] = w[f[p]] + SumIt(w)[Im(s) \ {f[p]}]
    BY <2>1, SumItRemoves
  <2>4. SumIt(v)[s] = v[p] + SumIt(v)[s \ {p}]
    BY <1>1, <1>4
  <2>5. SumIt(v)[s \ {p}] = SumIt(w)[Im(s \ {p})]
    BY <1>4
  <2>6. v[p] = w[f[p]]
    BY <2>1
  <2>7. SumIt(v)[s] = SumIt(w)[Im(s)]
    <3> HIDE DEF p, Im
    <3> QED BY <2>2, <2>3, <2>4, <2>5, <2>6
  <2> QED BY <2>7
<1>5. S \in G
  <2> HIDE DEF G
  <2> QED BY <1>3, <1>4, Peeled
<1>6. Im(S) = T
  BY <1>2
<1> QED BY <1>5, <1>6, SumIs

------------------------------------------------------------------------------
(* The flusher's counts *)
Counts == [Flusher!Rows -> Nat]
Chunks == [at : Flusher!Seconds, of : Counts]

LEMMA FlusherSets ==
  /\ IsFiniteSet(Flusher!Rows) /\ IsFiniteSet(Flusher!Seconds)
  /\ 0 \in Flusher!Seconds /\ Flusher!Nothing \in Counts
<1>1. IsFiniteSet(Flusher!Rows)
  BY FlusherAssumption, FS_Union DEF Flusher!Rows
<1>2. IsFiniteSet(Flusher!Seconds) /\ 0 \in Flusher!Seconds
  BY FlusherAssumption, FS_Interval DEF Flusher!Seconds
<1> QED BY <1>1, <1>2 DEF Flusher!Nothing, Counts

LEMMA Intervals ==
  ASSUME NEW n \in Nat
  PROVE  IsFiniteSet(1..n) /\ Cardinality(1..n) = n /\ IsFiniteSet((1..n) \ {1})
<1>1. IsFiniteSet(1..n) /\ Cardinality(1..n) = IF 1 > n THEN 0 ELSE n - 1 + 1
  BY FS_Interval, 1 \in Int, n \in Int
<1>2. (IF 1 > n THEN 0 ELSE n - 1 + 1) = n
  OBVIOUS
<1>3. IsFiniteSet((1..n) \ {1})
  BY <1>1, FS_Subset
<1> QED BY <1>1, <1>2, <1>3

\* What a flush holds, with its first chunk or none.
LEMMA AloftCounts ==
  ASSUME NEW chunks \in Seq(Chunks)
  PROVE  Flusher!Aloft(chunks) \in Counts
<1> SUFFICES ASSUME NEW r \in Flusher!Rows
             PROVE  Flusher!SumFunction([i \in DOMAIN chunks |-> chunks[i].of[r]]) \in Nat
  BY DEF Flusher!Aloft, Counts
<1> DEFINE v == [i \in DOMAIN chunks |-> chunks[i].of[r]]
<1>1. IsFiniteSet(DOMAIN chunks)
  BY Intervals, DOMAIN chunks = 1..Len(chunks), Len(chunks) \in Nat
<1>2. \A i \in DOMAIN chunks : chunks[i].of[r] \in Nat
  <2>1. \A i \in DOMAIN chunks : chunks[i] \in Chunks
    OBVIOUS
  <2> QED BY <2>1 DEF Chunks, Counts
<1>3. v \in [DOMAIN chunks -> Nat]
  BY <1>2
<1> HIDE DEF v
<1>4. Flusher!SumFunction(v) \in Nat
  BY <1>1, <1>3, SumRemoves
<1> QED BY <1>4 DEF v

LEMMA AloftNone == Flusher!Aloft(<<>>) = Flusher!Nothing
<1>1. ASSUME NEW r \in Flusher!Rows
      PROVE  Flusher!SumFunction([i \in DOMAIN <<>> |-> <<>>[i].of[r]]) = 0
  <2> DEFINE v == [i \in DOMAIN <<>> |-> <<>>[i].of[r]]
  <2>1. v \in [{} -> Nat] /\ IsFiniteSet({})
    BY FS_EmptySet
  <2> HIDE DEF v
  <2>2. Flusher!SumFunction(v) = 0
    BY <2>1, SumRemoves
  <2> QED BY <2>2 DEF v
<1> QED BY <1>1 DEF Flusher!Aloft, Flusher!Nothing

LEMMA AloftFirst ==
  ASSUME NEW chunks \in Seq(Chunks), chunks # <<>>
  PROVE  /\ Tail(chunks) \in Seq(Chunks) /\ Head(chunks) \in Chunks
         /\ Flusher!Aloft(chunks) = Flusher!Plus(Head(chunks).of, Flusher!Aloft(Tail(chunks)))
<1>1. Tail(chunks) \in Seq(Chunks) /\ Head(chunks) \in Chunks /\ Head(chunks) = chunks[1]
  OBVIOUS
<1> DEFINE n == Len(chunks)
           rest == Tail(chunks)
<1>2. /\ n \in Nat /\ n >= 1 /\ DOMAIN chunks = 1..n /\ DOMAIN rest = 1..(n - 1)
      /\ \A i \in 1..(n - 1) : rest[i] = chunks[i + 1]
  OBVIOUS
<1> HIDE DEF n, rest
<1>3. ASSUME NEW r \in Flusher!Rows
      PROVE  Flusher!SumFunction([i \in DOMAIN chunks |-> chunks[i].of[r]])
             = chunks[1].of[r] + Flusher!SumFunction([i \in DOMAIN rest |-> rest[i].of[r]])
  <2> DEFINE v == [i \in DOMAIN chunks |-> chunks[i].of[r]]
             w == [i \in DOMAIN rest |-> rest[i].of[r]]
             u == [i \in (1..n) \ {1} |-> v[i]]
             f == [i \in 1..(n - 1) |-> i + 1]
  <2>1. v \in [1..n -> Nat] /\ w \in [1..(n - 1) -> Nat] /\ u \in [(1..n) \ {1} -> Nat]
    <3>1. \A i \in DOMAIN chunks : chunks[i] \in Chunks
      OBVIOUS
    <3>2. \A i \in DOMAIN rest : rest[i] \in Chunks
      BY <1>1 DEF rest
    <3>3. \A c \in Chunks : c.of[r] \in Nat
      BY DEF Chunks, Counts
    <3>4. v \in [1..n -> Nat]
      BY <1>2, <3>1, <3>3
    <3>5. w \in [1..(n - 1) -> Nat]
      BY <1>2, <3>2, <3>3
    <3>6. u \in [(1..n) \ {1} -> Nat]
      <4> HIDE DEF v
      <4> QED BY <3>4
    <3> QED BY <3>4, <3>5, <3>6
  <2>2. IsFiniteSet(1..n) /\ IsFiniteSet(1..(n - 1)) /\ IsFiniteSet((1..n) \ {1})
    BY <1>2, Intervals, n - 1 \in Nat
  <2>3. Flusher!SumFunction(v) = v[1] + Flusher!SumFunction(u)
    <3>1. 1 \in 1..n
      BY <1>2
    <3> HIDE DEF v
    <3>2. \A x \in 1..n :
            Flusher!SumFunction(v) = v[x] + Flusher!SumFunction([y \in (1..n) \ {x} |-> v[y]])
      <4> DEFINE D == 1..n
      <4>1. IsFiniteSet(D) /\ v \in [D -> Nat]
        BY <2>1, <2>2
      <4> HIDE DEF D
      <4>2. \A x \in D :
              Flusher!SumFunction(v) = v[x] + Flusher!SumFunction([y \in D \ {x} |-> v[y]])
        BY <4>1, SumRemoves
      <4> QED BY <4>2 DEF D
    <3> QED BY <3>1, <3>2
  <2>4. f \in Bijection(1..(n - 1), (1..n) \ {1})
    <3>1. f \in [1..(n - 1) -> (1..n) \ {1}] /\ \A i, j \in 1..(n - 1) : f[i] = f[j] => i = j
      BY <1>2
    <3>2. ASSUME NEW j \in (1..n) \ {1} PROVE \E i \in 1..(n - 1) : f[i] = j
      <4>1. j - 1 \in 1..(n - 1) /\ f[j - 1] = j
        BY <1>2
      <4> QED BY <4>1
    <3> QED BY <3>1, <3>2 DEF Bijection, Injection, Surjection, IsInjective
  <2>5. \A i \in 1..(n - 1) : w[i] = u[f[i]]
    BY <1>2
  <2>6. Flusher!SumFunction(w) = Flusher!SumFunction(u)
    <3> DEFINE D == 1..(n - 1)
               E == (1..n) \ {1}
    <3> HIDE DEF u, w, f
    <3>1. /\ IsFiniteSet(D) /\ w \in [D -> Nat] /\ IsFiniteSet(E) /\ u \in [E -> Nat]
          /\ f \in Bijection(D, E) /\ \A i \in D : w[i] = u[f[i]]
      BY <2>1, <2>2, <2>4, <2>5
    <3> HIDE DEF D, E
    <3> QED BY <3>1, SumReindexes
  <2>7. v[1] = chunks[1].of[r]
    BY <1>2
  <2>8. Flusher!SumFunction(v) = chunks[1].of[r] + Flusher!SumFunction(w)
    BY <2>3, <2>6, <2>7
  <2> QED BY <2>8
<1>4. Flusher!Aloft(chunks) = Flusher!Plus(Head(chunks).of, Flusher!Aloft(rest))
  BY <1>1, <1>3 DEF Flusher!Aloft, Flusher!Plus
<1> QED BY <1>1, <1>4 DEF rest

------------------------------------------------------------------------------
(* The daemon's table *)
Tables == [Flusher!Seconds -> Counts]

LEMMA TableCounts == stored \in Tables => Flusher!InTable \in Counts
<1> SUFFICES ASSUME stored \in Tables, NEW r \in Flusher!Rows
             PROVE  Flusher!SumFunction([s \in Flusher!Seconds |-> stored[s][r]]) \in Nat
  BY DEF Flusher!InTable, Counts
<1> DEFINE v == [s \in Flusher!Seconds |-> stored[s][r]]
<1>1. v \in [Flusher!Seconds -> Nat]
  BY DEF Tables, Counts
<1> HIDE DEF v
<1>2. Flusher!SumFunction(v) \in Nat
  BY <1>1, FlusherSets, SumRemoves
<1> QED BY <1>2 DEF v

\* What a store of a count adds, and for an edge takes the place of.
LEMMA TableGains ==
  ASSUME stored \in Tables, NEW took \in Counts, NEW at \in Flusher!Seconds,
         stored' = Flusher!Upserted(took, at)
  PROVE  /\ stored' \in Tables
         /\ \A r \in Flusher!Rows :
              Flusher!InTable'[r] + (IF r \in Edges /\ took[r] > 0 THEN stored[at][r] ELSE 0)
              = Flusher!InTable[r] + took[r]
<1>1. stored' \in Tables
  BY DEF Tables, Counts, Flusher!Upserted
<1>2. ASSUME NEW r \in Flusher!Rows
      PROVE  Flusher!InTable'[r] + (IF r \in Edges /\ took[r] > 0 THEN stored[at][r] ELSE 0)
             = Flusher!InTable[r] + took[r]
  <2> DEFINE v == [s \in Flusher!Seconds |-> stored'[s][r]]
             w == [s \in Flusher!Seconds |-> stored[s][r]]
  <2>1. v \in [Flusher!Seconds -> Nat] /\ w \in [Flusher!Seconds -> Nat]
    BY <1>1 DEF Tables, Counts
  <2>2. \A s \in Flusher!Seconds \ {at} : v[s] = w[s]
    BY DEF Tables, Counts, Flusher!Upserted
  <2>3. /\ w[at] = stored[at][r]
        /\ v[at] = IF r \in Edges /\ took[r] > 0 THEN took[r] ELSE w[at] + took[r]
    BY DEF Tables, Counts, Flusher!Upserted
  <2>4. Flusher!InTable'[r] = Flusher!SumFunction(v) /\ Flusher!InTable[r] = Flusher!SumFunction(w)
    BY DEF Flusher!InTable
  <2>5. took[r] \in Nat /\ stored[at][r] \in Nat
    BY DEF Tables, Counts
  <2> HIDE DEF v, w
  <2>6. /\ Flusher!SumFunction(v) + w[at] = Flusher!SumFunction(w) + v[at]
        /\ Flusher!SumFunction(v) \in Nat /\ Flusher!SumFunction(w) \in Nat
    BY <2>1, <2>2, FlusherSets, SumChanges, SumRemoves
  <2>7. CASE r \in Edges /\ took[r] > 0
    BY <2>3, <2>4, <2>5, <2>6, <2>7
  <2>8. CASE ~(r \in Edges /\ took[r] > 0)
    BY <2>3, <2>4, <2>5, <2>6, <2>8
  <2> QED BY <2>7, <2>8
<1> QED BY <1>1, <1>2

------------------------------------------------------------------------------
(* The wire's count is never above the count. *)
LEMMA Quotient ==
  ASSUME NEW n \in Nat, NEW c \in Nat, NEW d \in Nat \ {0}
  PROVE  /\ c \div d \in Nat
         /\ n * d > c => c \div d <= n
<1>1. c = d * (c \div d) + (c % d) /\ c % d \in Nat /\ c \div d \in Int
  OBVIOUS
<1> QED BY <1>1

LEMMA WireNotAbove ==
  ASSUME lang \in Flusher!Collectors, NEW chunk \in Counts
  PROVE  /\ Flusher!Wire(chunk) \in Counts
         /\ \A r \in Flusher!Rows : Flusher!Wire(chunk)[r] <= chunk[r]
<1>1. ASSUME NEW n \in Nat
      PROVE  /\ Flusher!Least(n, Ceiling) \in Nat /\ Flusher!Least(n, Ceiling) <= n
             /\ Flusher!ClampBun(n) \in Nat /\ Flusher!ClampBun(n) <= n
             /\ Flusher!ClampGo(n) \in Nat /\ Flusher!ClampGo(n) <= n
             /\ Flusher!ClampBrowser(n) \in Nat /\ Flusher!ClampBrowser(n) <= n
  <2>1. /\ Ceiling \in Nat /\ Rates["bun"] \in Nat \ {0} /\ Rates["go"] \in Nat \ {0}
        /\ Rates["browser"] \in Nat \ {0}
    BY FlusherAssumption DEF Flusher!Collectors
  <2>2. Flusher!Least(n, Ceiling) \in Nat /\ Flusher!Least(n, Ceiling) <= n
    BY <2>1 DEF Flusher!Least
  <2>3. Flusher!ClampBun(n) \in Nat /\ Flusher!ClampBun(n) <= n
    <3>1. Ceiling \div Rates["bun"] \in Nat
      BY <2>1, Quotient
    <3> QED BY <3>1 DEF Flusher!ClampBun, Flusher!Least
  <2>4. Flusher!ClampGo(n) \in Nat /\ Flusher!ClampGo(n) <= n
    <3> DEFINE m == Flusher!Least(n, Ceiling)
    <3> HIDE DEF m
    <3>1. m \in Nat /\ m <= n
      BY <2>2 DEF m
    <3>2. Ceiling \div Rates["go"] \in Nat /\ (m * Rates["go"] > Ceiling => Ceiling \div Rates["go"] <= m)
      BY <2>1, <3>1, Quotient
    <3>3. Flusher!ClampGo(n) = IF m * Rates["go"] > Ceiling THEN Ceiling \div Rates["go"] ELSE m
      BY DEF Flusher!ClampGo, m
    <3> QED BY <3>1, <3>2, <3>3
  <2>5. Flusher!ClampBrowser(n) \in Nat /\ Flusher!ClampBrowser(n) <= n
    <3> DEFINE m == Flusher!Least(n, Ceiling)
    <3> HIDE DEF m
    <3>1. m \in Nat /\ m <= n
      BY <2>2 DEF m
    <3>2. /\ Ceiling \div Rates["browser"] \in Nat
          /\ m * Rates["browser"] > Ceiling => Ceiling \div Rates["browser"] <= m
      BY <2>1, <3>1, Quotient
    <3>3. Flusher!ClampBrowser(n)
          = IF m * Rates["browser"] > Ceiling THEN Ceiling \div Rates["browser"] ELSE m
      BY DEF Flusher!ClampBrowser, m
    <3> QED BY <3>1, <3>2, <3>3
  <2> QED BY <2>2, <2>3, <2>4, <2>5
<1>2. \A r \in Flusher!Rows : chunk[r] \in Nat /\ chunk[r] <= chunk[r]
  BY DEF Counts
<1>3. ASSUME NEW r \in Flusher!Rows
      PROVE  Flusher!Wire(chunk)[r] \in Nat /\ Flusher!Wire(chunk)[r] <= chunk[r]
  BY <1>1, <1>2 DEF Flusher!Wire
<1>4. Flusher!Wire(chunk) = [r \in Flusher!Rows |-> Flusher!Wire(chunk)[r]]
  BY DEF Flusher!Wire
<1> QED BY <1>3, <1>4 DEF Counts

------------------------------------------------------------------------------
(* What is drained is all that was buffered, however it is cut *)

\* TraceFlush counts as everything else does.
LEMMA CountedAlike == \A S : Flusher!Cardinality(S) = Cardinality(S)
  BY DEF Flusher!Cardinality, Cardinality

LEMMA InOrder ==
  ASSUME NEW rows, IsFiniteSet(rows)
  PROVE  LET s == Flusher!SetToSeq(rows)
         IN  /\ Cardinality(rows) \in Nat /\ Len(s) = Cardinality(rows)
             /\ \A j \in 1..Len(s) : s[j] \in rows
             /\ \A j, k \in 1..Len(s) : s[j] = s[k] => j = k
             /\ \A r \in rows : \E j \in 1..Len(s) : s[j] = r
<1> DEFINE n == Cardinality(rows)
           s == Flusher!SetToSeq(rows)
<1>1. n \in Nat /\ ExistsBijection(1..n, rows)
  BY FS_CardinalityType
<1>2. s \in Injection(1..n, rows)
  <2>1. \E f \in [1..n -> rows] : IsInjective(f)
    BY <1>1 DEF ExistsBijection, Bijection, Injection
  <2>2. \A f : Flusher!IsInjective(f) <=> IsInjective(f)
    BY DEF Flusher!IsInjective, IsInjective
  <2>3. s = CHOOSE f \in [1..n -> rows] : Flusher!IsInjective(f)
    BY CountedAlike DEF Flusher!SetToSeq
  <2> HIDE DEF s, n
  <2> QED BY <2>1, <2>2, <2>3 DEF Injection
<1>3. IsFiniteSet(1..n) /\ Cardinality(1..n) = n
  <2> HIDE DEF n
  <2> QED BY <1>1, Intervals
<1>4. s \in Surjection(1..n, rows)
  <2> HIDE DEF s, n
  <2>1. Cardinality(1..n) = Cardinality(rows)
    BY <1>3 DEF n
  <2> QED BY <1>2, <2>1, FS_Injection
<1> HIDE DEF s, n
<1>5. s \in [1..n -> rows] /\ Len(s) = n
  BY <1>1, <1>2 DEF Injection
<1>6. \A j, k \in 1..n : s[j] = s[k] => j = k
  BY <1>2, <1>5 DEF Injection, IsInjective
<1>7. \A r \in rows : \E j \in 1..n : s[j] = r
  BY <1>4 DEF Surjection
<1> QED BY <1>1, <1>5, <1>6, <1>7 DEF s, n

\* The batch an index lies in.
LEMMA Batches ==
  ASSUME NEW j \in Nat \ {0}
  PROVE  /\ \E i \in 1..j : (i - 1) * Batch < j /\ j <= i * Batch
         /\ \A i, k \in Nat : (i - 1) * Batch < j /\ j <= i * Batch /\ (k - 1) * Batch < j /\ j <= k * Batch
                               => i = k
<1>1. Batch \in Nat \ {0}
  BY FlusherAssumption
<1>2. \A i, k \in Int : i <= k => i * Batch <= k * Batch
  BY <1>1
<1> DEFINE q == (j - 1) \div Batch
<1>3. /\ q \in Int /\ (j - 1) % Batch \in Int
      /\ j - 1 = Batch * q + ((j - 1) % Batch) /\ 0 <= (j - 1) % Batch /\ (j - 1) % Batch < Batch
  BY <1>1
<1> HIDE DEF q
<1>4. q * Batch < j /\ j <= (q + 1) * Batch
  BY <1>1, <1>3
<1>5. 0 <= q
  BY <1>1, <1>2, <1>3, <1>4
<1>6. q <= q * Batch
  BY <1>1, <1>3, <1>5
<1>7. q + 1 \in 1..j /\ (q + 1) - 1 = q
  <2> DEFINE p == q * Batch
  <2>1. p \in Int /\ p < j /\ q <= p
    BY <1>1, <1>3, <1>4, <1>6
  <2> HIDE DEF p
  <2>2. q < j
    BY <1>3, <2>1
  <2> QED BY <1>3, <1>5, <2>2
<1>8. ASSUME NEW i \in Nat, NEW k \in Nat,
             (i - 1) * Batch < j, j <= i * Batch, (k - 1) * Batch < j, j <= k * Batch
      PROVE  i = k
  <2>1. ~(i <= k - 1)
    BY <1>1, <1>2, <1>8
  <2>2. ~(k <= i - 1)
    BY <1>1, <1>2, <1>8
  <2> QED BY <2>1, <2>2
<1> QED BY <1>4, <1>7, <1>8

\* Every row is in one batch, and no batch is empty that has one after it.
LEMMA CutsPart ==
  ASSUME NEW rows, IsFiniteSet(rows)
  PROVE  /\ \A i \in Nat : Flusher!Cut(rows, i) \subseteq rows
         /\ \A r \in rows : \E i \in 1..Cardinality(rows) :
              r \in Flusher!Cut(rows, i) /\ \A k \in Nat : r \in Flusher!Cut(rows, k) => k = i
         /\ \A i \in Nat : i > 1 /\ Flusher!Cut(rows, i) # {} => Flusher!Cut(rows, i - 1) # {}
<1> DEFINE s == Flusher!SetToSeq(rows)
<1>1. /\ Cardinality(rows) \in Nat /\ Len(s) = Cardinality(rows)
      /\ \A j \in 1..Len(s) : s[j] \in rows
      /\ \A j, k \in 1..Len(s) : s[j] = s[k] => j = k
      /\ \A r \in rows : \E j \in 1..Len(s) : s[j] = r
  BY InOrder
<1>2. \A i : Flusher!Cut(rows, i)
             = {s[j] : j \in {k \in 1..Len(s) : (i - 1) * Batch < k /\ k <= i * Batch}}
  BY DEF Flusher!Cut
<1> HIDE DEF s
<1>3. \A i \in Nat : Flusher!Cut(rows, i) \subseteq rows
  BY <1>1, <1>2
<1>4. ASSUME NEW r \in rows
      PROVE  \E i \in 1..Cardinality(rows) :
               r \in Flusher!Cut(rows, i) /\ \A k \in Nat : r \in Flusher!Cut(rows, k) => k = i
  <2>1. PICK j \in 1..Len(s) : s[j] = r
    BY <1>1
  <2>2. j \in Nat \ {0}
    BY <1>1
  <2>3. PICK i \in 1..j : (i - 1) * Batch < j /\ j <= i * Batch
    BY <2>2, Batches
  <2>4. r \in Flusher!Cut(rows, i)
    BY <1>2, <2>1, <2>3
  <2>5. ASSUME NEW k \in Nat, r \in Flusher!Cut(rows, k) PROVE k = i
    <3>1. (k - 1) * Batch < j /\ j <= k * Batch
      BY <1>1, <1>2, <2>1, <2>5
    <3>2. i \in Nat
      OBVIOUS
    <3> QED BY <2>2, <2>3, <3>1, <3>2, Batches
  <2>6. i \in 1..Cardinality(rows)
    BY <1>1
  <2> QED BY <2>4, <2>5, <2>6
<1>5. ASSUME NEW i \in Nat, i > 1, Flusher!Cut(rows, i) # {} PROVE Flusher!Cut(rows, i - 1) # {}
  <2>1. PICK j \in 1..Len(s) : (i - 1) * Batch < j /\ j <= i * Batch
    BY <1>2, <1>5
  <2> DEFINE k == (i - 1) * Batch
  <2>2. Batch \in Nat \ {0}
    BY FlusherAssumption
  <2>3. k \in Nat /\ k >= 1 /\ k <= Len(s)
    BY <1>1, <1>5, <2>1, <2>2
  <2>4. (i - 1 - 1) * Batch < k /\ k <= (i - 1) * Batch
    BY <1>5, <2>2
  <2>5. s[k] \in Flusher!Cut(rows, i - 1)
    <3> HIDE DEF k
    <3> QED BY <1>1, <1>2, <2>3, <2>4
  <2> QED BY <2>5
<1> QED BY <1>3, <1>4, <1>5

\* A set of numbers from 1 on that leaves none out.
LEMMA Unbroken ==
  ASSUME NEW N \in Nat, NEW P \in SUBSET (1..N), \A i \in P : i > 1 => i - 1 \in P
  PROVE  P = 1..Cardinality(P) /\ Cardinality(P) \in Nat
<1>1. CASE P = {}
  BY <1>1, FS_EmptySet
<1>2. CASE P # {}
  <2>1. PICK m \in P : \A n \in P : n <= m
    <3>1. P \in SUBSET Nat /\ \A n \in P : n <= N
      OBVIOUS
    <3> QED BY <1>2, <3>1, BoundedMaximum
  <2>2. m \in Nat /\ m >= 1 /\ P \subseteq 1..m
    BY <2>1
  <2>3. 1..m \subseteq P
    <3> DEFINE out == (1..m) \ P
    <3> SUFFICES ASSUME out # {} PROVE FALSE
      OBVIOUS
    <3>1. out \in SUBSET Nat /\ \A n \in out : n <= m
      BY <2>2
    <3>2. PICK k \in out : \A n \in out : n <= k
      <4> HIDE DEF out
      <4> QED BY <2>2, <3>1, BoundedMaximum
    <3>3. k + 1 \in 1..m /\ k + 1 \notin out
      BY <2>1, <2>2, <3>2
    <3>4. k + 1 \in P /\ k + 1 > 1 /\ (k + 1) - 1 = k
      BY <3>3
    <3> QED BY <3>2, <3>4
  <2>4. P = 1..m
    BY <2>2, <2>3
  <2>5. Cardinality(1..m) = m
    BY <2>2, Intervals
  <2> QED BY <2>2, <2>4, <2>5
<1> QED BY <1>1, <1>2

\* Chunks of one count each row of which is in one of them.
LEMMA ChunksHold ==
  ASSUME NEW m \in Counts
  PROVE  LET chunks == Flusher!InChunks(m)
         IN  /\ chunks \in Seq(Counts)
             /\ \A r \in Flusher!Rows :
                  Flusher!SumFunction([i \in DOMAIN chunks |-> chunks[i][r]]) = m[r]
<1> DEFINE some == Flusher!Counted(m)
           pair(i) == Flusher!Cut(some \cap Edges, i) \cup Flusher!Cut(some \cap Tests, i)
           pairs == {i \in 1..Cardinality(Flusher!Rows) : pair(i) # {}}
           n == Cardinality(pairs)
           chunks == Flusher!InChunks(m)
<1>1. /\ some \in SUBSET Flusher!Rows /\ IsFiniteSet(some \cap Edges) /\ IsFiniteSet(some \cap Tests)
      /\ Cardinality(Flusher!Rows) \in Nat
      /\ Cardinality(some \cap Edges) <= Cardinality(Flusher!Rows)
      /\ Cardinality(some \cap Tests) <= Cardinality(Flusher!Rows)
      /\ Cardinality(some \cap Edges) \in Nat /\ Cardinality(some \cap Tests) \in Nat
  <2>1. some \in SUBSET Flusher!Rows
    BY DEF Flusher!Counted
  <2> HIDE DEF some
  <2>2. some \cap Edges \in SUBSET Flusher!Rows /\ some \cap Tests \in SUBSET Flusher!Rows
    BY <2>1
  <2>3. IsFiniteSet(Flusher!Rows)
    BY FlusherSets
  <2>4. IsFiniteSet(some \cap Edges) /\ Cardinality(some \cap Edges) <= Cardinality(Flusher!Rows)
    BY <2>2, <2>3, FS_Subset
  <2>5. IsFiniteSet(some \cap Tests) /\ Cardinality(some \cap Tests) <= Cardinality(Flusher!Rows)
    BY <2>2, <2>3, FS_Subset
  <2> QED BY <2>1, <2>3, <2>4, <2>5, FS_CardinalityType
<1>2. chunks = [i \in 1..n |-> Flusher!Of(m, pair(i))]
  BY CountedAlike, Zenon DEF Flusher!InChunks
<1>3. \A i \in Nat : Flusher!Cut(some \cap Edges, i) \subseteq some \cap Edges
                     /\ Flusher!Cut(some \cap Tests, i) \subseteq some \cap Tests
  <2> HIDE DEF some
  <2> QED BY <1>1, CutsPart
<1>4. pairs = 1..n /\ n \in Nat
  <2>1. \A i \in pairs : i > 1 => i - 1 \in pairs
    <3> SUFFICES ASSUME NEW i \in pairs, i > 1 PROVE i - 1 \in pairs
      OBVIOUS
    <3>0. i > 1
      OBVIOUS
    <3>1. i \in Nat /\ i - 1 \in 1..Cardinality(Flusher!Rows) /\ pair(i) # {}
      <4> DEFINE N == Cardinality(Flusher!Rows)
      <4>1. i \in 1..N /\ N \in Nat
        BY <1>1
      <4> HIDE DEF pair
      <4>2. pair(i) # {}
        OBVIOUS
      <4> HIDE DEF N
      <4>3. i \in Nat /\ i - 1 \in 1..N
        BY <3>0, <4>1
      <4> QED BY <4>2, <4>3 DEF N
    <3>2. pair(i - 1) # {}
      <4> DEFINE edges == some \cap Edges
                 tests == some \cap Tests
      <4>1. /\ IsFiniteSet(edges) /\ IsFiniteSet(tests)
            /\ Flusher!Cut(edges, i) # {} \/ Flusher!Cut(tests, i) # {}
        BY <1>1, <3>1
      <4> HIDE DEF edges, tests
      <4>2. CASE Flusher!Cut(edges, i) # {}
        <5>1. Flusher!Cut(edges, i - 1) # {}
          BY <3>0, <3>1, <4>1, <4>2, CutsPart
        <5> QED BY <5>1 DEF edges
      <4>3. CASE Flusher!Cut(tests, i) # {}
        <5>1. Flusher!Cut(tests, i - 1) # {}
          BY <3>0, <3>1, <4>1, <4>3, CutsPart
        <5> QED BY <5>1 DEF tests
      <4> QED BY <4>1, <4>2, <4>3
    <3> QED BY <3>1, <3>2
  <2>2. pairs \in SUBSET (1..Cardinality(Flusher!Rows))
    OBVIOUS
  <2> HIDE DEF pairs
  <2> QED BY <1>1, <2>1, <2>2, Unbroken
<1>5. chunks \in Seq(Counts)
  <2>1. \A i : Flusher!Of(m, pair(i)) \in Counts
    BY DEF Flusher!Of, Counts
  <2> HIDE DEF pair, n, chunks
  <2> QED BY <1>2, <1>4, <2>1
<1>6. ASSUME NEW r \in Flusher!Rows
      PROVE  Flusher!SumFunction([i \in DOMAIN chunks |-> chunks[i][r]]) = m[r]
  <2> DEFINE v == [i \in 1..n |-> IF r \in pair(i) THEN m[r] ELSE 0]
  <2>1. [i \in DOMAIN chunks |-> chunks[i][r]] = v
    <3> HIDE DEF pair, n, chunks
    <3> QED BY <1>2, <1>4 DEF Flusher!Of
  <2>2. m[r] \in Nat
    BY DEF Counts
  <2>3. IsFiniteSet(1..n) /\ v \in [1..n -> Nat]
    <3> HIDE DEF pair, n
    <3> QED BY <1>4, <2>2, Intervals
  <2>4. CASE r \notin some
    <3>1. m[r] = 0
      BY <2>2, <2>4 DEF Flusher!Counted
    <3>2. \A i \in 1..n : v[i] = 0
      BY <3>1
    <3>3. Flusher!SumFunction(v) = 0
      <4> HIDE DEF v, n
      <4> QED BY <2>3, <3>2, SumZero
    <3> QED BY <2>1, <3>1, <3>3
  <2>5. CASE r \in some
    <3>1. PICK i \in 1..Cardinality(Flusher!Rows) :
            r \in pair(i) /\ \A k \in Nat : r \in pair(k) => k = i
      <4> HIDE DEF some
      <4>1. CASE r \in Edges
        <5>1. PICK i \in 1..Cardinality(some \cap Edges) :
                r \in Flusher!Cut(some \cap Edges, i)
                /\ \A k \in Nat : r \in Flusher!Cut(some \cap Edges, k) => k = i
          BY <1>1, <2>5, <4>1, CutsPart
        <5>2. \A k \in Nat : r \notin Flusher!Cut(some \cap Tests, k)
          BY <1>3, <4>1, FlusherAssumption
        <5>3. i \in 1..Cardinality(Flusher!Rows)
          BY <1>1
        <5> QED BY <5>1, <5>2, <5>3
      <4>2. CASE r \in Tests
        <5>1. PICK i \in 1..Cardinality(some \cap Tests) :
                r \in Flusher!Cut(some \cap Tests, i)
                /\ \A k \in Nat : r \in Flusher!Cut(some \cap Tests, k) => k = i
          BY <1>1, <2>5, <4>2, CutsPart
        <5>2. \A k \in Nat : r \notin Flusher!Cut(some \cap Edges, k)
          BY <1>3, <4>2, FlusherAssumption
        <5>3. i \in 1..Cardinality(Flusher!Rows)
          BY <1>1
        <5> QED BY <5>1, <5>2, <5>3
      <4> QED BY <4>1, <4>2 DEF Flusher!Rows
    <3>2. i \in 1..n
      <4>1. i \in pairs
        BY <3>1
      <4> QED BY <1>4, <4>1
    <3>3. v[i] = m[r] /\ \A k \in (1..n) \ {i} : v[k] = 0
      <4> HIDE DEF pair, n
      <4> QED BY <1>4, <3>1, <3>2
    <3>4. Flusher!SumFunction(v) = v[i]
      <4> HIDE DEF v, n
      <4> QED BY <2>3, <3>2, <3>3, SumOne
    <3> QED BY <2>1, <3>3, <3>4
  <2> QED BY <2>4, <2>5
<1> QED BY <1>5, <1>6

\* Between a buffer and a flush nothing is dropped or doubled (drain).
LEMMA DrainedHolds ==
  ASSUME buf \in Counts, second \in Flusher!Seconds
  PROVE  Flusher!Drained \in Seq(Chunks) /\ Flusher!Aloft(Flusher!Drained) = buf
<1>1. ASSUME NEW cs \in Seq(Counts),
             \A r \in Flusher!Rows : Flusher!SumFunction([i \in DOMAIN cs |-> cs[i][r]]) = buf[r]
      PROVE  Flusher!Stamped(cs) \in Seq(Chunks) /\ Flusher!Aloft(Flusher!Stamped(cs)) = buf
  <2> DEFINE st == Flusher!Stamped(cs)
  <2>1. DOMAIN st = DOMAIN cs /\ \A i \in DOMAIN cs : st[i] = [at |-> second, of |-> cs[i]]
    BY DEF Flusher!Stamped
  <2>2. st \in Seq(Chunks)
    <3>1. \A i \in DOMAIN cs : [at |-> second, of |-> cs[i]] \in Chunks
      BY DEF Chunks
    <3>2. Len(cs) \in Nat /\ DOMAIN cs = 1..Len(cs)
      OBVIOUS
    <3>3. st = [i \in 1..Len(cs) |-> [at |-> second, of |-> cs[i]]]
      BY <3>2 DEF Flusher!Stamped
    <3> HIDE DEF st
    <3> QED BY <3>1, <3>2, <3>3
  <2>3. ASSUME NEW r \in Flusher!Rows
        PROVE  Flusher!SumFunction([i \in DOMAIN st |-> st[i].of[r]]) = buf[r]
    <3>1. [i \in DOMAIN st |-> st[i].of[r]] = [i \in DOMAIN cs |-> cs[i][r]]
      <4> HIDE DEF st
      <4> QED BY <2>1
    <3> QED BY <1>1, <3>1
  <2>4. buf = [r \in Flusher!Rows |-> buf[r]]
    BY DEF Counts
  <2> HIDE DEF st
  <2>5. Flusher!Aloft(st) = buf
    BY <2>3, <2>4 DEF Flusher!Aloft
  <2> QED BY <2>2, <2>5 DEF st
<1>2. CASE buf = Flusher!Nothing
  <2>1. Flusher!Drained = <<>>
    BY <1>2 DEF Flusher!Drained, Flusher!Stamped
  <2> QED BY <1>2, <2>1, AloftNone
<1>3. CASE buf # Flusher!Nothing /\ lang \in {"bun", "python"}
  <2>1. Flusher!Drained = Flusher!Stamped(Flusher!InChunks(buf))
    BY <1>3 DEF Flusher!Drained
  <2> QED BY <1>1, <2>1, ChunksHold
<1>4. CASE buf # Flusher!Nothing /\ lang \notin {"bun", "python"}
  <2>1. Flusher!Drained = Flusher!Stamped(<<buf>>)
    BY <1>4 DEF Flusher!Drained
  <2>2. <<buf>> \in Seq(Counts)
    OBVIOUS
  <2>3. ASSUME NEW r \in Flusher!Rows
        PROVE  Flusher!SumFunction([i \in DOMAIN <<buf>> |-> <<buf>>[i][r]]) = buf[r]
    <3> DEFINE v == [i \in DOMAIN <<buf>> |-> <<buf>>[i][r]]
    <3>0. buf[r] \in Nat /\ IsFiniteSet({1})
      BY FS_Singleton DEF Counts
    <3>1. v \in [{1} -> Nat] /\ v[1] = buf[r]
      <4>1. DOMAIN <<buf>> = {1} /\ <<buf>>[1] = buf
        OBVIOUS
      <4>2. v = [i \in {1} |-> buf[r]]
        BY <4>1
      <4> QED BY <3>0, <4>2
    <3> HIDE DEF v
    <3>2. Flusher!SumFunction(v) = v[1]
      BY <3>0, <3>1, SumOne
    <3> QED BY <3>1, <3>2 DEF v
  <2> QED BY <1>1, <2>1, <2>2, <2>3
<1> QED BY <1>2, <1>3, <1>4

------------------------------------------------------------------------------
(* A flusher, a step at a time *)
Flying == Flusher!Plus(Flusher!Aloft(flight["timer"]), Flusher!Aloft(flight["caller"]))

\* A collector that lost what it will not get back.
Losing ==
  \/ trouble \cap {"refused", "clamped", "uncovered", "overwritten"} # {}
  \/ ~Flusher!Puts /\ trouble \cap {"unsent", "halved"} # {}

\* The log is not ahead of what is still on its way, and is of calls only.
LogCovers ==
  /\ ~Flusher!Puts \/ trouble \cap {"unanswered", "halved"} = {} =>
       \A r \in Edges : log[r] + (buf[r] + Flying[r]) <= records[r]
  /\ \A r \in Flusher!Rows \ Edges : log[r] = 0

\* Where what was recorded before stop() is as stop() goes on.
StopInv ==
  /\ phase = "stopping" => flight["caller"] = <<>>
  /\ phase = "flushing" => flight["timer"] = <<>>
  /\ trouble = {} =>
       /\ phase = "on" => due = records
       /\ phase = "stopping" => Flusher!AtMost(due, Flusher!Held)
       /\ phase = "flushing" =>
            Flusher!AtMost(due, Flusher!Plus(Flusher!InTable, Flusher!Aloft(flight["caller"])))
       /\ phase = "off" => Flusher!AtMost(due, Flusher!InTable)

FlusherInv ==
  /\ Flusher!TypeOK /\ Flusher!NothingLost /\ Flusher!CountedOnce /\ LogCovers /\ StopInv

LEMMA FlusherTypes ==
  ASSUME Flusher!TypeOK
  PROVE  /\ lang \in Flusher!Collectors /\ second \in Flusher!Seconds
         /\ buf \in Counts /\ records \in Counts /\ log \in Counts /\ due \in Counts
         /\ stored \in Tables /\ flight \in [Flusher!Flushes -> Seq(Chunks)]
         /\ flight["timer"] \in Seq(Chunks) /\ flight["caller"] \in Seq(Chunks)
         /\ Flusher!InTable \in Counts /\ Flying \in Counts
         /\ Flusher!Aloft(flight["timer"]) \in Counts /\ Flusher!Aloft(flight["caller"]) \in Counts
<1>1. /\ lang \in Flusher!Collectors /\ second \in Flusher!Seconds
      /\ buf \in Counts /\ records \in Counts /\ log \in Counts /\ due \in Counts
      /\ stored \in Tables /\ flight \in [Flusher!Flushes -> Seq(Chunks)]
  BY DEF Flusher!TypeOK, Counts, Chunks, Tables
<1>2. flight["timer"] \in Seq(Chunks) /\ flight["caller"] \in Seq(Chunks)
  BY <1>1 DEF Flusher!Flushes
<1>3. Flusher!Aloft(flight["timer"]) \in Counts /\ Flusher!Aloft(flight["caller"]) \in Counts
  BY <1>2, AloftCounts
<1>4. Flying \in Counts
  BY <1>3 DEF Flying, Flusher!Plus, Counts
<1> QED BY <1>1, <1>2, <1>3, <1>4, TableCounts

\* All there is of a row, in one sum.
LEMMA HeldIs ==
  \A r \in Flusher!Rows : Flusher!Held[r] = Flusher!InTable[r] + (buf[r] + Flying[r])
  BY DEF Flusher!Held, Flusher!Plus, Flying

\* A flush takes over the buffer.
LEMMA FlushFills ==
  ASSUME Flusher!TypeOK, NEW k \in Flusher!Flushes, flight[k] = <<>>,
         flight' = [flight EXCEPT ![k] = Flusher!Drained], buf' = Flusher!Nothing
  PROVE  /\ flight' \in [Flusher!Flushes -> Seq(Chunks)]
         /\ \A r \in Flusher!Rows : buf'[r] = 0 /\ Flying'[r] = buf[r] + Flying[r]
         /\ Flusher!Aloft(flight'[k]) = buf
<1>1. Flusher!Drained \in Seq(Chunks) /\ Flusher!Aloft(Flusher!Drained) = buf
  BY FlusherTypes, DrainedHolds
<1>2. flight' \in [Flusher!Flushes -> Seq(Chunks)] /\ flight'[k] = Flusher!Drained
  BY <1>1, FlusherTypes
<1>3. \A j \in Flusher!Flushes : j # k => flight'[j] = flight[j]
  BY FlusherTypes
<1>4. Flusher!Aloft(flight[k]) = Flusher!Nothing
  BY AloftNone
<1>5. ASSUME NEW r \in Flusher!Rows PROVE buf'[r] = 0 /\ Flying'[r] = buf[r] + Flying[r]
  <2>1. buf'[r] = 0 /\ Flusher!Aloft(flight[k])[r] = 0
    BY <1>4 DEF Flusher!Nothing
  <2>2. /\ buf[r] \in Nat /\ Flusher!Aloft(flight["timer"])[r] \in Nat
        /\ Flusher!Aloft(flight["caller"])[r] \in Nat
    BY FlusherTypes DEF Counts
  <2>3. /\ Flying'[r] = Flusher!Aloft(flight'["timer"])[r] + Flusher!Aloft(flight'["caller"])[r]
        /\ Flying[r] = Flusher!Aloft(flight["timer"])[r] + Flusher!Aloft(flight["caller"])[r]
    BY DEF Flying, Flusher!Plus
  <2>4. CASE k = "timer"
    <3>1. flight'["caller"] = flight["caller"] /\ Flusher!Aloft(flight'["timer"]) = buf
      BY <1>1, <1>2, <1>3, <2>4 DEF Flusher!Flushes
    <3>2. Flusher!Aloft(flight["timer"])[r] = 0
      BY <2>1, <2>4
    <3> QED BY <2>1, <2>2, <2>3, <3>1, <3>2
  <2>5. CASE k = "caller"
    <3>1. flight'["timer"] = flight["timer"] /\ Flusher!Aloft(flight'["caller"]) = buf
      BY <1>1, <1>2, <1>3, <2>5 DEF Flusher!Flushes
    <3>2. Flusher!Aloft(flight["caller"])[r] = 0
      BY <2>1, <2>5
    <3> QED BY <2>1, <2>2, <2>3, <3>1, <3>2
  <2> QED BY <2>4, <2>5 DEF Flusher!Flushes
<1> QED BY <1>1, <1>2, <1>5

\* A chunk that is sent is in flight no more.
LEMMA SendLands ==
  ASSUME Flusher!TypeOK, NEW k \in Flusher!Flushes, flight[k] # <<>>,
         flight' = [flight EXCEPT ![k] = Tail(@)]
  PROVE  /\ flight' \in [Flusher!Flushes -> Seq(Chunks)] /\ Head(flight[k]) \in Chunks
         /\ \A r \in Flusher!Rows : Flying[r] = Head(flight[k]).of[r] + Flying'[r]
         /\ \A r \in Flusher!Rows :
              Flusher!Aloft(flight[k])[r] = Head(flight[k]).of[r] + Flusher!Aloft(flight'[k])[r]
<1>1. flight[k] \in Seq(Chunks)
  BY FlusherTypes
<1>2. /\ Tail(flight[k]) \in Seq(Chunks) /\ Head(flight[k]) \in Chunks
      /\ Flusher!Aloft(flight[k]) = Flusher!Plus(Head(flight[k]).of, Flusher!Aloft(Tail(flight[k])))
  BY <1>1, AloftFirst
<1>3. /\ flight' \in [Flusher!Flushes -> Seq(Chunks)] /\ flight'[k] = Tail(flight[k])
      /\ \A j \in Flusher!Flushes : j # k => flight'[j] = flight[j]
  BY <1>2, FlusherTypes
<1>4. ASSUME NEW r \in Flusher!Rows
      PROVE  Flusher!Aloft(flight[k])[r] = Head(flight[k]).of[r] + Flusher!Aloft(flight'[k])[r]
  BY <1>2, <1>3 DEF Flusher!Plus
<1>5. ASSUME NEW r \in Flusher!Rows
      PROVE  Flying[r] = Head(flight[k]).of[r] + Flying'[r]
  <2> DEFINE c == Head(flight[k]).of[r]
             timer == Flusher!Aloft(flight["timer"])[r]
             caller == Flusher!Aloft(flight["caller"])[r]
             timer2 == Flusher!Aloft(flight'["timer"])[r]
             caller2 == Flusher!Aloft(flight'["caller"])[r]
  <2>1. c \in Nat /\ timer \in Nat /\ caller \in Nat
    BY <1>2, FlusherTypes DEF Chunks, Counts
  <2>2. timer2 \in Nat /\ caller2 \in Nat
    <3>1. flight'["timer"] \in Seq(Chunks) /\ flight'["caller"] \in Seq(Chunks)
      BY <1>3 DEF Flusher!Flushes
    <3>2. Flusher!Aloft(flight'["timer"]) \in Counts /\ Flusher!Aloft(flight'["caller"]) \in Counts
      BY <3>1, AloftCounts
    <3> QED BY <3>2 DEF Counts
  <2>3. Flying'[r] = timer2 + caller2 /\ Flying[r] = timer + caller
    BY DEF Flying, Flusher!Plus
  <2>4. \/ timer = c + timer2 /\ caller2 = caller
        \/ caller = c + caller2 /\ timer2 = timer
    BY <1>3, <1>4 DEF Flusher!Flushes
  <2> HIDE DEF c, timer, caller, timer2, caller2
  <2>5. Flying[r] = c + Flying'[r]
    BY <2>1, <2>2, <2>3, <2>4
  <2> QED BY <2>5 DEF c
<1> QED BY <1>2, <1>3, <1>4, <1>5

LEMMA RecordKeeps ==
  ASSUME FlusherInv, NEW row \in Flusher!Rows, Flusher!Record(row)
  PROVE  FlusherInv'
<1>1. Flusher!TypeOK
  BY DEF FlusherInv
<1>2. PICK n \in 1..2 :
        /\ buf' = [buf EXCEPT ![row] = @ + n] /\ records' = [records EXCEPT ![row] = @ + n]
        /\ due' = IF phase = "on" THEN records' ELSE due
  BY DEF Flusher!Record
<1>3. UNCHANGED <<lang, flight, over, phase, second, stored, log, faults, trouble>>
  BY DEF Flusher!Record
<1>4. Flusher!InTable' = Flusher!InTable /\ Flying' = Flying /\ (Flusher!Puts' <=> Flusher!Puts)
  BY <1>3 DEF Flusher!InTable, Flying, Flusher!Plus, Flusher!Aloft, Flusher!Puts
<1>5. buf' \in Counts /\ records' \in Counts /\ due' \in Counts
  <2>1. /\ buf \in [Flusher!Rows -> Nat] /\ records \in [Flusher!Rows -> Nat]
        /\ due \in [Flusher!Rows -> Nat] /\ n \in Nat
    BY <1>1, FlusherTypes DEF Counts
  <2>2. buf[row] + n \in Nat /\ records[row] + n \in Nat
    BY <2>1
  <2>3. buf' \in [Flusher!Rows -> Nat] /\ records' \in [Flusher!Rows -> Nat]
    BY <1>2, <2>1, <2>2
  <2> QED BY <1>2, <2>1, <2>3 DEF Counts
<1>6. \A r \in Flusher!Rows : \E m \in Nat :
        buf'[r] = buf[r] + m /\ records'[r] = records[r] + m
  <2> SUFFICES ASSUME NEW r \in Flusher!Rows
               PROVE  \E m \in Nat : buf'[r] = buf[r] + m /\ records'[r] = records[r] + m
    OBVIOUS
  <2>1. buf[r] \in Nat /\ records[r] \in Nat /\ n \in Nat
    BY <1>1, FlusherTypes DEF Counts
  <2>0. DOMAIN buf = Flusher!Rows /\ DOMAIN records = Flusher!Rows
    BY <1>1, FlusherTypes DEF Counts
  <2>2. CASE r = row
    <3>1. buf'[r] = buf[r] + n /\ records'[r] = records[r] + n
      BY <1>2, <2>0, <2>2
    <3> QED BY <2>1, <3>1
  <2>3. CASE r # row
    <3>1. buf'[r] = buf[r] + 0 /\ records'[r] = records[r] + 0
      BY <1>2, <2>0, <2>1, <2>3
    <3> QED BY <3>1
  <2> QED BY <2>2, <2>3
<1>7. \A r \in Flusher!Rows :
        /\ Flusher!InTable[r] \in Nat /\ buf[r] \in Nat /\ Flying[r] \in Nat
        /\ records[r] \in Nat /\ log[r] \in Nat /\ due[r] \in Nat
  BY <1>1, FlusherTypes DEF Counts
<1>8. \A r \in Flusher!Rows : \E m \in Nat :
        /\ Flusher!Held'[r] = Flusher!Held[r] + m /\ records'[r] = records[r] + m
        /\ buf'[r] = buf[r] + m /\ Flusher!Held[r] \in Nat
  <2> SUFFICES ASSUME NEW r \in Flusher!Rows
               PROVE  \E m \in Nat :
                        /\ Flusher!Held'[r] = Flusher!Held[r] + m /\ records'[r] = records[r] + m
                        /\ buf'[r] = buf[r] + m /\ Flusher!Held[r] \in Nat
    OBVIOUS
  <2>1. PICK m \in Nat : buf'[r] = buf[r] + m /\ records'[r] = records[r] + m
    BY <1>6
  <2>2. Flusher!Held[r] = Flusher!InTable[r] + (buf[r] + Flying[r])
    BY HeldIs
  <2>3. Flusher!Held'[r] = Flusher!InTable[r] + (buf'[r] + Flying[r])
    BY <1>4 DEF Flusher!Held, Flusher!Plus, Flying
  <2> QED BY <1>7, <2>1, <2>2, <2>3
<1>9. Flusher!TypeOK'
  <2>1. /\ buf' \in [Flusher!Rows -> Nat] /\ records' \in [Flusher!Rows -> Nat]
        /\ due' \in [Flusher!Rows -> Nat]
    BY <1>5 DEF Counts
  <2> QED BY <1>1, <1>3, <2>1 DEF Flusher!TypeOK
<1>10. Flusher!NothingLost'
  <2> SUFFICES ASSUME Flusher!NothingLost, NEW r \in Flusher!Rows,
                      records[r] <= Flusher!Held[r]
               PROVE  records'[r] <= Flusher!Held'[r]
    BY <1>3, <1>4 DEF FlusherInv, Flusher!NothingLost, Flusher!AtMost
  <2> QED BY <1>7, <1>8
<1>11. Flusher!CountedOnce'
  <2>1. ASSUME NEW r \in Flusher!Rows, Flusher!Held[r] <= records[r]
        PROVE  Flusher!Held'[r] <= records'[r]
    BY <1>7, <1>8, <2>1
  <2>2. ASSUME NEW r \in Flusher!Rows, log[r] <= records[r]
        PROVE  log[r] <= records'[r]
    BY <1>6, <1>7, <2>2
  <2> QED BY <1>3, <1>4, <2>1, <2>2 DEF FlusherInv, Flusher!CountedOnce, Flusher!AtMost
<1>12. LogCovers'
  <2>1. ASSUME NEW r \in Edges, log[r] + (buf[r] + Flying[r]) <= records[r]
        PROVE  log[r] + (buf'[r] + Flying[r]) <= records'[r]
    <3>1. r \in Flusher!Rows
      BY DEF Flusher!Rows
    <3>2. PICK m \in Nat : buf'[r] = buf[r] + m /\ records'[r] = records[r] + m
      BY <1>6, <3>1
    <3> QED BY <1>7, <2>1, <3>1, <3>2
  <2> QED BY <1>3, <1>4, <2>1 DEF FlusherInv, LogCovers
<1>13. StopInv'
  <2>1. CASE phase = "on"
    BY <1>2, <1>3, <2>1 DEF FlusherInv, StopInv
  <2>2. CASE phase # "on"
    <3>1. due' = due
      BY <1>2, <2>2
    <3>2. ASSUME NEW r \in Flusher!Rows, due[r] <= Flusher!Held[r]
          PROVE  due[r] <= Flusher!Held'[r]
      BY <1>7, <1>8, <3>2
    <3>3. Flusher!Aloft(flight["caller"])' = Flusher!Aloft(flight["caller"])
      BY <1>3 DEF Flusher!Aloft
    <3> QED BY <1>3, <1>4, <2>2, <3>1, <3>2, <3>3 DEF FlusherInv, StopInv, Flusher!AtMost, Flusher!Plus
  <2> QED BY <2>1, <2>2
<1> QED BY <1>9, <1>10, <1>11, <1>12, <1>13 DEF FlusherInv

\* A step that moves counts from the buffer to a flush, or none.
LEMMA CountsStay ==
  ASSUME FlusherInv, Flusher!TypeOK',
         UNCHANGED <<lang, stored, log, records, trouble>>,
         \A r \in Flusher!Rows : buf'[r] + Flying'[r] = buf[r] + Flying[r]
  PROVE  /\ Flusher!NothingLost' /\ Flusher!CountedOnce' /\ LogCovers'
         /\ Flusher!InTable' = Flusher!InTable
         /\ \A r \in Flusher!Rows : Flusher!Held'[r] = Flusher!Held[r]
<1>1. Flusher!InTable' = Flusher!InTable /\ (Flusher!Puts' <=> Flusher!Puts)
  BY DEF Flusher!InTable, Flusher!Puts
<1>2. \A r \in Flusher!Rows : Flusher!Held'[r] = Flusher!Held[r]
  <2>1. \A r \in Flusher!Rows : Flusher!Held'[r] = Flusher!InTable'[r] + (buf'[r] + Flying'[r])
    BY DEF Flusher!Held, Flusher!Plus, Flying
  <2> QED BY <1>1, <2>1, HeldIs
<1>3. Flusher!NothingLost'
  BY <1>1, <1>2 DEF FlusherInv, Flusher!NothingLost, Flusher!AtMost
<1>4. Flusher!CountedOnce'
  BY <1>1, <1>2 DEF FlusherInv, Flusher!CountedOnce, Flusher!AtMost
<1>5. LogCovers'
  <2>1. \A r \in Edges : r \in Flusher!Rows
    BY DEF Flusher!Rows
  <2> QED BY <1>1, <2>1 DEF FlusherInv, LogCovers
<1> QED BY <1>1, <1>2, <1>3, <1>4, <1>5

LEMMA FlushKeeps ==
  ASSUME FlusherInv, NEW k \in Flusher!Flushes, Flusher!Flush(k)
  PROVE  FlusherInv'
<1>1. Flusher!TypeOK
  BY DEF FlusherInv
<1>2. /\ flight[k] = <<>> /\ flight' = [flight EXCEPT ![k] = Flusher!Drained] /\ buf' = Flusher!Nothing
      /\ phase = "on" \/ (phase = "stopping" /\ k = "timer")
      /\ UNCHANGED <<lang, over, phase, second, stored, log, records, faults, due, trouble>>
  BY DEF Flusher!Flush
<1>3. /\ flight' \in [Flusher!Flushes -> Seq(Chunks)]
      /\ \A r \in Flusher!Rows : buf'[r] = 0 /\ Flying'[r] = buf[r] + Flying[r]
  BY <1>1, <1>2, FlushFills
<1>4. Flusher!TypeOK'
  <2>1. flight' \in [Flusher!Flushes -> Seq([at : Flusher!Seconds, of : [Flusher!Rows -> Nat]])]
    BY <1>3 DEF Chunks, Counts
  <2>2. buf' \in [Flusher!Rows -> Nat]
    BY <1>2, FlusherSets DEF Counts
  <2> QED BY <1>1, <1>2, <2>1, <2>2 DEF Flusher!TypeOK
<1>5. \A r \in Flusher!Rows : buf'[r] + Flying'[r] = buf[r] + Flying[r]
  <2> SUFFICES ASSUME NEW r \in Flusher!Rows PROVE buf'[r] + Flying'[r] = buf[r] + Flying[r]
    OBVIOUS
  <2>1. buf[r] \in Nat /\ Flying[r] \in Nat
    BY <1>1, FlusherTypes DEF Counts
  <2> QED BY <1>3, <2>1
<1>6. /\ Flusher!NothingLost' /\ Flusher!CountedOnce' /\ LogCovers'
      /\ \A r \in Flusher!Rows : Flusher!Held'[r] = Flusher!Held[r]
  BY <1>2, <1>4, <1>5, CountsStay
<1>7. StopInv'
  <2>1. CASE phase = "on"
    BY <1>2, <2>1 DEF FlusherInv, StopInv
  <2>2. CASE phase = "stopping" /\ k = "timer"
    <3>1. flight'["caller"] = flight["caller"]
      BY <1>1, <1>2, <2>2, FlusherTypes DEF Flusher!Flushes
    <3> QED BY <1>2, <1>6, <2>2, <3>1 DEF FlusherInv, StopInv, Flusher!AtMost
  <2> QED BY <1>2, <2>1, <2>2
<1> QED BY <1>4, <1>6, <1>7 DEF FlusherInv

LEMMA StopKeeps ==
  ASSUME FlusherInv, Flusher!Stop
  PROVE  FlusherInv'
<1>1. /\ phase = "on" /\ flight["caller"] = <<>> /\ phase' = "stopping"
      /\ UNCHANGED <<lang, buf, flight, over, second, stored, log, records, faults, due, trouble>>
  BY DEF Flusher!Stop
<1>2. Flusher!TypeOK'
  BY <1>1 DEF FlusherInv, Flusher!TypeOK
<1>3. Flying' = Flying
  BY <1>1 DEF Flying, Flusher!Plus, Flusher!Aloft
<1>4. /\ Flusher!NothingLost' /\ Flusher!CountedOnce' /\ LogCovers'
      /\ \A r \in Flusher!Rows : Flusher!Held'[r] = Flusher!Held[r]
  BY <1>1, <1>2, <1>3, CountsStay
<1>5. StopInv'
  <2> SUFFICES ASSUME trouble = {} PROVE Flusher!AtMost(due, Flusher!Held')
    BY <1>1 DEF StopInv, Flusher!AtMost
  <2>1. due = records /\ Flusher!AtMost(records, Flusher!Held)
    BY <1>1 DEF FlusherInv, StopInv, Flusher!NothingLost
  <2> QED BY <1>4, <2>1 DEF Flusher!AtMost
<1> QED BY <1>2, <1>4, <1>5 DEF FlusherInv

LEMMA LastFlushKeeps ==
  ASSUME FlusherInv, Flusher!LastFlush
  PROVE  FlusherInv'
<1>1. Flusher!TypeOK
  BY DEF FlusherInv
<1>2. /\ phase = "stopping" /\ phase' = "flushing" /\ flight["timer"] = <<>>
      /\ flight' = [flight EXCEPT !["caller"] = Flusher!Drained] /\ buf' = Flusher!Nothing
      /\ over' \in BOOLEAN
      /\ UNCHANGED <<lang, second, stored, log, records, faults, due, trouble>>
  BY DEF Flusher!LastFlush, Flusher!Joined
<1>3. flight["caller"] = <<>> /\ "caller" \in Flusher!Flushes
  BY <1>2 DEF FlusherInv, StopInv, Flusher!Flushes
<1>4. /\ flight' \in [Flusher!Flushes -> Seq(Chunks)]
      /\ \A r \in Flusher!Rows : buf'[r] = 0 /\ Flying'[r] = buf[r] + Flying[r]
      /\ Flusher!Aloft(flight'["caller"]) = buf
  BY <1>1, <1>2, <1>3, FlushFills
<1>5. Flusher!TypeOK'
  <2>1. flight' \in [Flusher!Flushes -> Seq([at : Flusher!Seconds, of : [Flusher!Rows -> Nat]])]
    BY <1>4 DEF Chunks, Counts
  <2>2. buf' \in [Flusher!Rows -> Nat]
    BY <1>2, FlusherSets DEF Counts
  <2> QED BY <1>1, <1>2, <2>1, <2>2 DEF Flusher!TypeOK
<1>6. \A r \in Flusher!Rows : buf'[r] + Flying'[r] = buf[r] + Flying[r]
  <2> SUFFICES ASSUME NEW r \in Flusher!Rows PROVE buf'[r] + Flying'[r] = buf[r] + Flying[r]
    OBVIOUS
  <2>1. buf[r] \in Nat /\ Flying[r] \in Nat
    BY <1>1, FlusherTypes DEF Counts
  <2> QED BY <1>4, <2>1
<1>7. /\ Flusher!NothingLost' /\ Flusher!CountedOnce' /\ LogCovers'
      /\ Flusher!InTable' = Flusher!InTable
  BY <1>2, <1>5, <1>6, CountsStay
<1>8. StopInv'
  <2>1. flight'["timer"] = <<>>
    BY <1>1, <1>2, FlusherTypes DEF Flusher!Flushes
  <2>2. ASSUME trouble = {}, NEW r \in Flusher!Rows
        PROVE  due[r] <= Flusher!InTable[r] + Flusher!Aloft(flight'["caller"])[r]
    <3>1. due[r] <= Flusher!InTable[r] + (buf[r] + Flying[r])
      BY <1>2, <2>2, HeldIs DEF FlusherInv, StopInv, Flusher!AtMost
    <3>2. Flying[r] = 0
      <4>1. Flusher!Aloft(flight["timer"])[r] = 0 /\ Flusher!Aloft(flight["caller"])[r] = 0
        BY <1>2, <1>3, AloftNone DEF Flusher!Nothing
      <4> QED BY <4>1 DEF Flying, Flusher!Plus
    <3>3. buf[r] \in Nat /\ Flusher!InTable[r] \in Nat /\ due[r] \in Nat
      BY <1>1, FlusherTypes DEF Counts
    <3> QED BY <1>4, <3>1, <3>2, <3>3
  <2> QED BY <1>2, <1>7, <2>1, <2>2 DEF StopInv, Flusher!AtMost, Flusher!Plus, Flusher!Aloft
<1> QED BY <1>5, <1>7, <1>8 DEF FlusherInv

LEMMA StoppedKeeps ==
  ASSUME FlusherInv, Flusher!Stopped
  PROVE  FlusherInv'
<1>1. /\ phase = "flushing" /\ flight["caller"] = <<>> /\ phase' \in {"stopping", "off"}
      /\ UNCHANGED <<lang, buf, flight, over, second, stored, log, records, faults, due, trouble>>
  BY DEF Flusher!Stopped
<1>2. Flusher!TypeOK'
  BY <1>1 DEF FlusherInv, Flusher!TypeOK
<1>3. Flying' = Flying
  BY <1>1 DEF Flying, Flusher!Plus, Flusher!Aloft
<1>4. /\ Flusher!NothingLost' /\ Flusher!CountedOnce' /\ LogCovers'
      /\ Flusher!InTable' = Flusher!InTable
      /\ \A r \in Flusher!Rows : Flusher!Held'[r] = Flusher!Held[r]
  BY <1>1, <1>2, <1>3, CountsStay
<1>5. ASSUME trouble = {}, NEW r \in Flusher!Rows
      PROVE  due[r] <= Flusher!InTable[r] /\ due[r] <= Flusher!Held[r]
  <2>1. Flusher!Aloft(flight["caller"])[r] = 0
    BY <1>1, AloftNone DEF Flusher!Nothing
  <2>2. due[r] <= Flusher!InTable[r] + Flusher!Aloft(flight["caller"])[r]
    BY <1>1, <1>5 DEF FlusherInv, StopInv, Flusher!AtMost, Flusher!Plus
  <2>3. /\ due[r] \in Nat /\ Flusher!InTable[r] \in Nat /\ buf[r] \in Nat /\ Flying[r] \in Nat
    BY FlusherTypes DEF FlusherInv, Counts
  <2>4. Flusher!Held[r] = Flusher!InTable[r] + (buf[r] + Flying[r])
    BY HeldIs
  <2> QED BY <2>1, <2>2, <2>3, <2>4
<1>6. StopInv'
  BY <1>1, <1>4, <1>5 DEF StopInv, Flusher!AtMost
<1> QED BY <1>2, <1>4, <1>6 DEF FlusherInv

LEMMA SecondKeeps ==
  ASSUME FlusherInv, Flusher!Second \/ UNCHANGED flusherVars
  PROVE  FlusherInv'
<1>1. /\ UNCHANGED <<lang, buf, flight, over, phase, stored, log, records, due, trouble>>
      /\ second' \in Flusher!Seconds
  <2>1. CASE Flusher!Second
    BY <2>1, FlusherAssumption DEF FlusherInv, Flusher!TypeOK, Flusher!Second, Flusher!Seconds
  <2>2. CASE UNCHANGED flusherVars
    BY <2>2 DEF FlusherInv, Flusher!TypeOK, flusherVars
  <2> QED BY <2>1, <2>2
<1>2. Flusher!TypeOK'
  BY <1>1 DEF FlusherInv, Flusher!TypeOK
<1>3. Flying' = Flying
  BY <1>1 DEF Flying, Flusher!Plus, Flusher!Aloft
<1>4. /\ Flusher!NothingLost' /\ Flusher!CountedOnce' /\ LogCovers'
      /\ Flusher!InTable' = Flusher!InTable
      /\ \A r \in Flusher!Rows : Flusher!Held'[r] = Flusher!Held[r]
  BY <1>1, <1>2, <1>3, CountsStay
<1>5. StopInv'
  BY <1>1, <1>4 DEF FlusherInv, StopInv, Flusher!AtMost, Flusher!Plus, Flusher!Aloft
<1> QED BY <1>2, <1>4, <1>5 DEF FlusherInv

\* Which collectors put a chunk back, and after which answers.
LEMMA SettledIs ==
  ASSUME lang \in Flusher!Collectors, NEW chunk
  PROVE  /\ Flusher!Settled(0, chunk) = IF Flusher!Puts THEN chunk ELSE Flusher!Nothing
         /\ Flusher!Settled(500, chunk) = IF Flusher!Puts THEN chunk ELSE Flusher!Nothing
         /\ Flusher!Settled(200, chunk) = Flusher!Nothing
         /\ Flusher!Settled(400, chunk) = Flusher!Nothing
<1> USE DEF Flusher!Settled, Flusher!Puts, Flusher!SettleBun, Flusher!SettlePython, Flusher!PutBack,
            Flusher!SettleBrowser, Flusher!SettleGo, Flusher!SettleRust
<1>1. CASE lang = "bun"
  BY <1>1
<1>2. CASE lang = "python"
  BY <1>2
<1>3. CASE lang = "browser"
  BY <1>3
<1>4. CASE lang = "go"
  BY <1>4
<1>5. CASE lang = "rust"
  BY <1>5
<1> QED BY <1>1, <1>2, <1>3, <1>4, <1>5 DEF Flusher!Collectors

\* What a send does with its chunk: `took' goes to the table, `logs' to the log,
\* `put' back to the buffer.
Settles(chunk, took, logs, put) ==
  /\ stored' \in Tables /\ Flusher!InTable' \in Counts
  /\ buf' = Flusher!Plus(buf, put) /\ log' = Flusher!Plus(log, logs)
  /\ trouble \subseteq trouble'
  /\ \A r \in Flusher!Rows :
       /\ took[r] <= chunk[r] /\ logs[r] <= chunk[r] /\ put[r] <= chunk[r]
       /\ Flusher!InTable'[r] <= Flusher!InTable[r] + took[r]
       /\ r \notin Edges => logs[r] = 0
  /\ \/ put = Flusher!Nothing \/ took = Flusher!Nothing
     \/ Flusher!Puts /\ "unanswered" \in trouble'
  /\ \/ put = Flusher!Nothing \/ logs = Flusher!Nothing
     \/ Flusher!Puts /\ trouble' \cap {"unanswered", "halved"} # {}
  /\ \/ Losing'
     \/ put = chunk /\ \A r \in Flusher!Rows : Flusher!InTable[r] <= Flusher!InTable'[r]
     \/ \A r \in Flusher!Rows : Flusher!InTable'[r] = Flusher!InTable[r] + chunk[r]
  /\ trouble' = {} =>
       /\ put = Flusher!Nothing
       /\ \A r \in Flusher!Rows : Flusher!InTable'[r] = Flusher!InTable[r] + chunk[r]

\* A store of what the wire says, or of part of it.
LEMMA StoreSettles ==
  ASSUME Flusher!TypeOK, NEW chunk \in Counts, NEW at \in Flusher!Seconds,
         NEW took \in Counts, Flusher!Stores(Flusher!Wire(chunk), took, at),
         \A r \in Flusher!Rows : took[r] <= Flusher!Wire(chunk)[r]
  PROVE  /\ stored' \in Tables /\ Flusher!InTable' \in Counts
         /\ Flusher!Of(Flusher!Wire(chunk), Edges) \in Counts
         /\ log' = Flusher!Plus(log, Flusher!Of(Flusher!Wire(chunk), Edges))
         /\ \A r \in Flusher!Rows :
              /\ took[r] <= chunk[r] /\ Flusher!Of(Flusher!Wire(chunk), Edges)[r] <= chunk[r]
              /\ r \notin Edges => Flusher!Of(Flusher!Wire(chunk), Edges)[r] = 0
              /\ Flusher!InTable'[r] <= Flusher!InTable[r] + took[r]
              /\ took[r] = 0 => Flusher!InTable'[r] = Flusher!InTable[r]
              /\ Flusher!Over(took, at) = {} => Flusher!InTable'[r] = Flusher!InTable[r] + took[r]
<1>1. /\ stored \in Tables /\ stored' = Flusher!Upserted(took, at)
      /\ log' = Flusher!Plus(log, Flusher!Of(Flusher!Wire(chunk), Edges))
  BY FlusherTypes DEF Flusher!Stores
<1>2. /\ Flusher!Wire(chunk) \in Counts
      /\ \A r \in Flusher!Rows : Flusher!Wire(chunk)[r] <= chunk[r]
  BY FlusherTypes, WireNotAbove
<1>3. Flusher!Of(Flusher!Wire(chunk), Edges) \in Counts
  BY <1>2 DEF Flusher!Of, Counts
<1>4. /\ stored' \in Tables
      /\ \A r \in Flusher!Rows :
           Flusher!InTable'[r] + (IF r \in Edges /\ took[r] > 0 THEN stored[at][r] ELSE 0)
           = Flusher!InTable[r] + took[r]
  BY <1>1, TableGains
<1>5. Flusher!InTable \in Counts /\ Flusher!InTable' \in Counts
  <2>1. stored' \in Tables => Flusher!InTable' \in Counts
    <3> SUFFICES ASSUME stored' \in Tables, NEW r \in Flusher!Rows
                 PROVE  Flusher!SumFunction([s \in Flusher!Seconds |-> stored'[s][r]]) \in Nat
      BY DEF Flusher!InTable, Counts
    <3> DEFINE v == [s \in Flusher!Seconds |-> stored'[s][r]]
    <3>1. v \in [Flusher!Seconds -> Nat]
      BY DEF Tables, Counts
    <3> HIDE DEF v
    <3>2. Flusher!SumFunction(v) \in Nat
      BY <3>1, FlusherSets, SumRemoves
    <3> QED BY <3>2 DEF v
  <2> QED BY <1>4, <2>1, FlusherTypes
<1>6. ASSUME NEW r \in Flusher!Rows
      PROVE  /\ took[r] <= chunk[r] /\ Flusher!Of(Flusher!Wire(chunk), Edges)[r] <= chunk[r]
             /\ r \notin Edges => Flusher!Of(Flusher!Wire(chunk), Edges)[r] = 0
             /\ Flusher!InTable'[r] <= Flusher!InTable[r] + took[r]
             /\ took[r] = 0 => Flusher!InTable'[r] = Flusher!InTable[r]
             /\ Flusher!Over(took, at) = {} => Flusher!InTable'[r] = Flusher!InTable[r] + took[r]
  <2> DEFINE w == Flusher!Wire(chunk)[r]
             t == Flusher!InTable[r]
             t2 == Flusher!InTable'[r]
             x == stored[at][r]
             o == Flusher!Of(Flusher!Wire(chunk), Edges)[r]
  <2>1. /\ w \in Nat /\ t \in Nat /\ t2 \in Nat /\ x \in Nat /\ chunk[r] \in Nat /\ took[r] \in Nat
        /\ w <= chunk[r] /\ took[r] <= w
    BY <1>1, <1>2, <1>5 DEF Counts, Tables
  <2>2. o = IF r \in Edges THEN w ELSE 0
    BY DEF Flusher!Of
  <2>3. t2 + (IF r \in Edges /\ took[r] > 0 THEN x ELSE 0) = t + took[r]
    BY <1>4
  <2>4. Flusher!Over(took, at) = {} /\ r \in Edges /\ took[r] > 0 => x = 0
    <3>1. Flusher!Over(took, at) = {} /\ r \in Edges /\ took[r] > 0 => ~(x > 0)
      BY DEF Flusher!Over
    <3> HIDE DEF x
    <3> QED BY <2>1, <3>1
  <2> HIDE DEF w, t, t2, x, o
  <2>5. /\ took[r] <= chunk[r] /\ o <= chunk[r] /\ (r \notin Edges => o = 0)
    BY <2>1, <2>2
  <2>6. CASE r \in Edges /\ took[r] > 0
    <3>1. t2 <= t + took[r] /\ (Flusher!Over(took, at) = {} => t2 = t + took[r])
      BY <2>1, <2>3, <2>4, <2>6
    <3>2. took[r] # 0
      BY <2>6
    <3> QED BY <2>5, <3>1, <3>2 DEF t, t2, o
  <2>7. CASE ~(r \in Edges /\ took[r] > 0)
    <3>1. t2 = t + took[r]
      BY <2>1, <2>3, <2>7
    <3>2. t2 <= t + took[r] /\ (took[r] = 0 => t2 = t)
      BY <2>1, <3>1
    <3> QED BY <2>5, <3>1, <3>2 DEF t, t2, o
  <2> QED BY <2>6, <2>7
<1> QED BY <1>1, <1>3, <1>4, <1>5, <1>6

\* A send that the table does not take anything of.
LEMMA TableStays ==
  ASSUME Flusher!TypeOK, stored' = stored
  PROVE  stored' \in Tables /\ Flusher!InTable' = Flusher!InTable /\ Flusher!InTable' \in Counts
<1>1. Flusher!InTable' = Flusher!InTable
  BY DEF Flusher!InTable
<1> QED BY <1>1, FlusherTypes

LEMMA NoneIs ==
  ASSUME NEW m \in Counts
  PROVE  /\ Flusher!Plus(m, Flusher!Nothing) = m
         /\ \A r \in Flusher!Rows : m[r] \in Nat /\ m[r] + 0 = m[r] /\ m[r] <= m[r] + 0
                                    /\ m[r] <= m[r] /\ 0 <= m[r] /\ Flusher!Nothing[r] = 0
<1>1. \A r \in Flusher!Rows : m[r] \in Nat /\ m[r] + 0 = m[r] /\ m[r] <= m[r] + 0 /\ m[r] <= m[r]
                              /\ 0 <= m[r] /\ Flusher!Nothing[r] = 0
  BY DEF Counts, Flusher!Nothing
<1>2. m = [r \in Flusher!Rows |-> m[r]]
  BY DEF Counts
<1>3. Flusher!Plus(m, Flusher!Nothing) = [r \in Flusher!Rows |-> m[r]]
  BY <1>1 DEF Flusher!Plus
<1> QED BY <1>1, <1>2, <1>3

LEMMA SendSettles ==
  ASSUME Flusher!TypeOK, NEW k \in Flusher!Flushes, Flusher!Send(k)
  PROVE  \E took, logs, put \in Counts : Settles(Head(flight[k]).of, took, logs, put)
<1> DEFINE chunk == Head(flight[k]).of
           at == Head(flight[k]).at
           wire == Flusher!Wire(chunk)
           cut == trouble \cup (IF wire # chunk THEN {"clamped"} ELSE {})
           none == Flusher!Nothing
           back == IF Flusher!Puts THEN chunk ELSE none
           calls == Flusher!Of(wire, Edges)
<1>1. /\ lang \in Flusher!Collectors /\ buf \in Counts /\ log \in Counts /\ none \in Counts
      /\ flight[k] # <<>> /\ flight[k] \in Seq(Chunks) /\ lang' = lang
  BY FlusherTypes, FlusherSets DEF Flusher!Send
<1>2. chunk \in Counts /\ at \in Flusher!Seconds
  <2>1. Head(flight[k]) \in Chunks
    BY <1>1, AloftFirst
  <2> QED BY <2>1 DEF Chunks
<1>3. /\ wire \in Counts /\ (\A r \in Flusher!Rows : wire[r] <= chunk[r])
      /\ back \in Counts /\ calls \in Counts
  <2>1. wire \in Counts /\ (\A r \in Flusher!Rows : wire[r] <= chunk[r])
    BY <1>1, <1>2, WireNotAbove
  <2>2. Flusher!Of(wire, Edges) \in Counts
    BY <2>1 DEF Flusher!Of, Counts
  <2> QED BY <1>1, <1>2, <2>1, <2>2
<1>4. /\ Flusher!Settled(0, chunk) = back /\ Flusher!Settled(500, chunk) = back
      /\ Flusher!Settled(200, chunk) = none /\ Flusher!Settled(400, chunk) = none
  BY <1>1, SettledIs
<1>5. /\ \A r \in Flusher!Rows : chunk[r] \in Nat /\ 0 <= chunk[r] /\ chunk[r] <= chunk[r] /\ none[r] = 0
      /\ Flusher!Plus(buf, none) = buf /\ Flusher!Plus(log, none) = log
  BY <1>1, <1>2, NoneIs
<1>6. \A r \in Flusher!Rows : none[r] <= chunk[r] /\ back[r] <= chunk[r]
  BY <1>5
<1>7. \A answer : Flusher!Answered(answer, chunk, k) => buf' = Flusher!Plus(buf, Flusher!Settled(answer, chunk))
  BY DEF Flusher!Answered
<1>8. \/ /\ trouble' = trouble \cup {"unsent"}
         /\ Flusher!Answered(0, chunk, k) /\ UNCHANGED <<stored, log>>
      \/ /\ trouble' = trouble \cup {"refused"}
         /\ Flusher!Answered(400, chunk, k) /\ UNCHANGED <<stored, log>>
      \/ /\ trouble' = cut \cup Flusher!Over(wire, at)
         /\ Flusher!Answered(200, chunk, k) /\ Flusher!Stores(wire, wire, at)
      \/ /\ trouble' = cut \cup Flusher!Over(wire, at) \cup {"unanswered"}
         /\ Flusher!Answered(0, chunk, k) /\ Flusher!Stores(wire, wire, at)
      \/ /\ trouble' = cut \cup {"halved"}
         /\ Flusher!Answered(500, chunk, k) /\ Flusher!Stores(wire, none, at)
      \/ /\ trouble' = cut \cup Flusher!Over(wire, at) \cup {"uncovered"}
         /\ Flusher!Answered(200, chunk, k) /\ Flusher!Stores(wire, calls, at)
  BY DEF Flusher!Send
<1>9. \A w : Flusher!Over(w, at) = {} \/ Flusher!Over(w, at) = {"overwritten"}
  BY DEF Flusher!Over
<1>10. Flusher!InTable \in Counts /\ \A r \in Flusher!Rows :
         Flusher!InTable[r] \in Nat /\ Flusher!InTable[r] <= Flusher!InTable[r]
         /\ Flusher!InTable[r] <= Flusher!InTable[r] + none[r]
  <2>1. Flusher!InTable \in Counts
    BY FlusherTypes
  <2> QED BY <1>5, <2>1, NoneIs
<1>11. Flusher!Puts' <=> Flusher!Puts
  BY <1>1 DEF Flusher!Puts
<1> HIDE DEF chunk, at, wire, none, back, calls
<1>12. CASE /\ trouble' = trouble \cup {"unsent"}
            /\ Flusher!Answered(0, chunk, k) /\ UNCHANGED <<stored, log>>
  <2>1. buf' = Flusher!Plus(buf, back) /\ log' = Flusher!Plus(log, none)
    BY <1>4, <1>5, <1>7, <1>12
  <2>2. stored' \in Tables /\ Flusher!InTable' = Flusher!InTable /\ Flusher!InTable' \in Counts
    BY <1>12, TableStays
  <2>3. Losing' \/ back = chunk
    BY <1>11, <1>12 DEF Losing, back
  <2>4. trouble \subseteq trouble' /\ trouble' # {}
    BY <1>12
  <2>5. Settles(chunk, none, none, back)
    BY <1>5, <1>6, <1>10, <2>1, <2>2, <2>3, <2>4 DEF Settles, none
  <2> QED BY <1>1, <1>3, <2>5 DEF chunk
<1>13. CASE /\ trouble' = trouble \cup {"refused"}
            /\ Flusher!Answered(400, chunk, k) /\ UNCHANGED <<stored, log>>
  <2>1. buf' = Flusher!Plus(buf, none) /\ log' = Flusher!Plus(log, none)
    BY <1>4, <1>5, <1>7, <1>13
  <2>2. stored' \in Tables /\ Flusher!InTable' = Flusher!InTable /\ Flusher!InTable' \in Counts
    BY <1>13, TableStays
  <2>3. Losing'
    BY <1>13 DEF Losing
  <2>4. trouble \subseteq trouble' /\ trouble' # {}
    BY <1>13
  <2>5. Settles(chunk, none, none, none)
    BY <1>5, <1>6, <1>10, <2>1, <2>2, <2>3, <2>4 DEF Settles, none
  <2> QED BY <1>1, <2>5 DEF chunk
<1>14. CASE /\ trouble' = cut \cup Flusher!Over(wire, at)
            /\ Flusher!Answered(200, chunk, k) /\ Flusher!Stores(wire, wire, at)
  <2>1. buf' = Flusher!Plus(buf, none)
    BY <1>4, <1>7, <1>14
  <2>2. /\ stored' \in Tables /\ Flusher!InTable' \in Counts /\ log' = Flusher!Plus(log, calls)
        /\ \A r \in Flusher!Rows :
             /\ wire[r] <= chunk[r] /\ calls[r] <= chunk[r] /\ (r \notin Edges => calls[r] = 0)
             /\ Flusher!InTable'[r] <= Flusher!InTable[r] + wire[r]
             /\ Flusher!Over(wire, at) = {} => Flusher!InTable'[r] = Flusher!InTable[r] + wire[r]
    <3>1. \A r \in Flusher!Rows : wire[r] <= wire[r]
      BY <1>3, NoneIs
    <3> QED BY <1>2, <1>3, <1>14, <3>1, StoreSettles DEF wire, calls
  <2>3. (wire = chunk /\ Flusher!Over(wire, at) = {}) \/ (Losing' /\ trouble' # {})
    BY <1>9, <1>14 DEF Losing
  <2>4. trouble \subseteq trouble'
    BY <1>14
  <2>5. Settles(chunk, wire, calls, none)
    BY <1>6, <2>1, <2>2, <2>3, <2>4 DEF Settles, none
  <2> QED BY <1>1, <1>3, <2>5 DEF chunk
<1>15. CASE /\ trouble' = cut \cup Flusher!Over(wire, at) \cup {"unanswered"}
            /\ Flusher!Answered(0, chunk, k) /\ Flusher!Stores(wire, wire, at)
  <2>1. buf' = Flusher!Plus(buf, back)
    BY <1>4, <1>7, <1>15
  <2>2. /\ stored' \in Tables /\ Flusher!InTable' \in Counts /\ log' = Flusher!Plus(log, calls)
        /\ \A r \in Flusher!Rows :
             /\ wire[r] <= chunk[r] /\ calls[r] <= chunk[r] /\ (r \notin Edges => calls[r] = 0)
             /\ Flusher!InTable'[r] <= Flusher!InTable[r] + wire[r]
             /\ Flusher!Over(wire, at) = {} => Flusher!InTable'[r] = Flusher!InTable[r] + wire[r]
    <3>1. \A r \in Flusher!Rows : wire[r] <= wire[r]
      BY <1>3, NoneIs
    <3> QED BY <1>2, <1>3, <1>15, <3>1, StoreSettles DEF wire, calls
  <2>3. (wire = chunk /\ Flusher!Over(wire, at) = {}) \/ Losing'
    BY <1>9, <1>15 DEF Losing
  <2>4. trouble \subseteq trouble' /\ trouble' # {} /\ "unanswered" \in trouble'
    BY <1>15
  <2>5. back = none \/ Flusher!Puts
    BY DEF back
  <2>6. Settles(chunk, wire, calls, back)
    BY <1>6, <2>1, <2>2, <2>3, <2>4, <2>5 DEF Settles, none
  <2> QED BY <1>3, <2>6 DEF chunk
<1>16. CASE /\ trouble' = cut \cup {"halved"}
            /\ Flusher!Answered(500, chunk, k) /\ Flusher!Stores(wire, none, at)
  <2>1. buf' = Flusher!Plus(buf, back)
    BY <1>4, <1>7, <1>16
  <2>2. /\ stored' \in Tables /\ Flusher!InTable' \in Counts /\ log' = Flusher!Plus(log, calls)
        /\ \A r \in Flusher!Rows :
             /\ calls[r] <= chunk[r] /\ (r \notin Edges => calls[r] = 0)
             /\ Flusher!InTable'[r] = Flusher!InTable[r]
    <3>1. \A r \in Flusher!Rows : none[r] <= wire[r] /\ none[r] = 0
      BY <1>3, <1>5, NoneIs
    <3> QED BY <1>1, <1>2, <1>16, <3>1, StoreSettles DEF wire, calls
  <2>3. Losing' \/ back = chunk
    BY <1>11, <1>16 DEF Losing, back
  <2>4. trouble \subseteq trouble' /\ trouble' # {} /\ "halved" \in trouble'
    BY <1>16
  <2>5. back = none \/ Flusher!Puts
    BY DEF back
  <2>6. Settles(chunk, none, calls, back)
    BY <1>6, <1>10, <2>1, <2>2, <2>3, <2>4, <2>5 DEF Settles, none
  <2> QED BY <1>1, <1>3, <2>6 DEF chunk
<1>17. CASE /\ trouble' = cut \cup Flusher!Over(wire, at) \cup {"uncovered"}
            /\ Flusher!Answered(200, chunk, k) /\ Flusher!Stores(wire, calls, at)
  <2>1. buf' = Flusher!Plus(buf, none)
    BY <1>4, <1>7, <1>17
  <2>2. /\ stored' \in Tables /\ Flusher!InTable' \in Counts /\ log' = Flusher!Plus(log, calls)
        /\ \A r \in Flusher!Rows :
             /\ calls[r] <= chunk[r] /\ (r \notin Edges => calls[r] = 0)
             /\ Flusher!InTable'[r] <= Flusher!InTable[r] + calls[r]
    <3>1. \A r \in Flusher!Rows : calls[r] <= wire[r]
      BY <1>3, NoneIs DEF calls, Flusher!Of
    <3> QED BY <1>2, <1>3, <1>17, <3>1, StoreSettles DEF wire, calls
  <2>3. Losing'
    BY <1>17 DEF Losing
  <2>4. trouble \subseteq trouble' /\ trouble' # {}
    BY <1>17
  <2>5. Settles(chunk, calls, calls, none)
    BY <1>6, <2>1, <2>2, <2>3, <2>4 DEF Settles, none
  <2> QED BY <1>1, <1>3, <2>5 DEF chunk
<1> QED BY <1>8, <1>12, <1>13, <1>14, <1>15, <1>16, <1>17

LEMMA SendKeeps ==
  ASSUME FlusherInv, NEW k \in Flusher!Flushes, Flusher!Send(k)
  PROVE  FlusherInv'
<1>1. Flusher!TypeOK
  BY DEF FlusherInv
<1>2. PICK took, logs, put \in Counts : Settles(Head(flight[k]).of, took, logs, put)
  BY <1>1, SendSettles
<1>3. /\ UNCHANGED <<lang, phase, second, records, due>> /\ over' \in BOOLEAN
      /\ flight[k] # <<>> /\ flight' = [flight EXCEPT ![k] = Tail(@)]
      /\ trouble' \subseteq
           {"unsent", "unanswered", "halved", "refused", "clamped", "uncovered", "overwritten"}
  <2>1. /\ UNCHANGED <<lang, phase, second, records, due>>
        /\ flight[k] # <<>> /\ flight' = [flight EXCEPT ![k] = Tail(@)]
    BY DEF Flusher!Send
  <2>2. over' \in BOOLEAN
    BY <1>1 DEF Flusher!Send, Flusher!Answered, Flusher!TypeOK
  <2>3. trouble' \subseteq trouble \cup
           {"unsent", "unanswered", "halved", "refused", "clamped", "uncovered", "overwritten"}
    <3>1. \A w, at : Flusher!Over(w, at) \subseteq {"overwritten"}
      BY DEF Flusher!Over
    <3> QED BY <3>1 DEF Flusher!Send
  <2> QED BY <1>1, <2>1, <2>2, <2>3 DEF Flusher!TypeOK
<1> DEFINE chunk == Head(flight[k]).of
<1>4. /\ flight' \in [Flusher!Flushes -> Seq(Chunks)] /\ chunk \in Counts
      /\ \A r \in Flusher!Rows : Flying[r] = chunk[r] + Flying'[r]
      /\ \A r \in Flusher!Rows :
           Flusher!Aloft(flight[k])[r] = chunk[r] + Flusher!Aloft(flight'[k])[r]
  BY <1>1, <1>3, SendLands DEF Chunks
<1>5. Flusher!Puts' <=> Flusher!Puts
  BY <1>3 DEF Flusher!Puts
<1>6. Settles(chunk, took, logs, put)
  BY <1>2
<1> HIDE DEF chunk
<1>7. buf' \in Counts /\ log' \in Counts
  <2>1. buf' = Flusher!Plus(buf, put) /\ log' = Flusher!Plus(log, logs)
    BY <1>6 DEF Settles
  <2>2. \A m, n \in Counts : Flusher!Plus(m, n) \in Counts
    BY DEF Flusher!Plus, Counts
  <2> QED BY <1>1, <2>1, <2>2, FlusherTypes
<1>8. Flusher!TypeOK'
  <2>1. flight' \in [Flusher!Flushes -> Seq([at : Flusher!Seconds, of : [Flusher!Rows -> Nat]])]
    BY <1>4 DEF Chunks, Counts
  <2>2. /\ buf' \in [Flusher!Rows -> Nat] /\ log' \in [Flusher!Rows -> Nat]
        /\ stored' \in [Flusher!Seconds -> [Flusher!Rows -> Nat]]
    BY <1>6, <1>7 DEF Counts, Tables, Settles
  <2> QED BY <1>1, <1>3, <2>1, <2>2 DEF Flusher!TypeOK
<1>9. Flying' \in Counts
  <2>1. flight'["timer"] \in Seq(Chunks) /\ flight'["caller"] \in Seq(Chunks)
    BY <1>4 DEF Flusher!Flushes
  <2>2. Flusher!Aloft(flight'["timer"]) \in Counts /\ Flusher!Aloft(flight'["caller"]) \in Counts
    BY <2>1, AloftCounts
  <2> QED BY <2>2 DEF Flying, Flusher!Plus, Counts
\* All of a row before and after, as numbers.
<1>10. ASSUME NEW r \in Flusher!Rows
       PROVE  /\ Flusher!InTable[r] \in Nat /\ buf[r] \in Nat /\ Flying[r] \in Nat
              /\ Flusher!InTable'[r] \in Nat /\ Flying'[r] \in Nat /\ chunk[r] \in Nat
              /\ took[r] \in Nat /\ logs[r] \in Nat /\ put[r] \in Nat
              /\ log[r] \in Nat /\ records[r] \in Nat /\ due[r] \in Nat
              /\ buf'[r] = buf[r] + put[r] /\ log'[r] = log[r] + logs[r]
              /\ Flying[r] = chunk[r] + Flying'[r]
              /\ took[r] <= chunk[r] /\ logs[r] <= chunk[r] /\ put[r] <= chunk[r]
              /\ Flusher!InTable'[r] <= Flusher!InTable[r] + took[r]
              /\ Flusher!Held[r] = Flusher!InTable[r] + (buf[r] + Flying[r])
              /\ Flusher!Held'[r] = Flusher!InTable'[r] + (buf'[r] + Flying'[r])
  <2>1. /\ Flusher!InTable[r] \in Nat /\ buf[r] \in Nat /\ Flying[r] \in Nat
        /\ log[r] \in Nat /\ records[r] \in Nat /\ due[r] \in Nat
    BY <1>1, FlusherTypes DEF Counts
  <2>2. /\ Flusher!InTable'[r] \in Nat /\ Flying'[r] \in Nat /\ chunk[r] \in Nat
        /\ took[r] \in Nat /\ logs[r] \in Nat /\ put[r] \in Nat
    BY <1>4, <1>6, <1>9 DEF Counts, Settles
  <2>3. buf'[r] = buf[r] + put[r] /\ log'[r] = log[r] + logs[r]
    BY <1>6 DEF Settles, Flusher!Plus
  <2>4. /\ took[r] <= chunk[r] /\ logs[r] <= chunk[r] /\ put[r] <= chunk[r]
        /\ Flusher!InTable'[r] <= Flusher!InTable[r] + took[r]
    BY <1>6 DEF Settles
  <2>5. /\ Flusher!Held[r] = Flusher!InTable[r] + (buf[r] + Flying[r])
        /\ Flusher!Held'[r] = Flusher!InTable'[r] + (buf'[r] + Flying'[r])
    BY HeldIs DEF Flusher!Held, Flusher!Plus, Flying
  <2> QED BY <1>4, <2>1, <2>2, <2>3, <2>4, <2>5
<1>11. trouble \subseteq trouble'
  BY <1>6 DEF Settles
<1>12. Flusher!NothingLost'
  <2> SUFFICES ASSUME ~Losing', NEW r \in Flusher!Rows PROVE records[r] <= Flusher!Held'[r]
    BY <1>3 DEF Flusher!NothingLost, Flusher!AtMost, Losing
  <2>1. records[r] <= Flusher!Held[r]
    BY <1>5, <1>11 DEF FlusherInv, Flusher!NothingLost, Flusher!AtMost, Losing
  <2>2. \/ put = chunk /\ Flusher!InTable[r] <= Flusher!InTable'[r]
        \/ Flusher!InTable'[r] = Flusher!InTable[r] + chunk[r]
    BY <1>6 DEF Settles
  <2>3. CASE put = chunk /\ Flusher!InTable[r] <= Flusher!InTable'[r]
    <3>1. put[r] = chunk[r]
      BY <2>3
    <3> QED BY <1>10, <2>1, <2>3, <3>1
  <2>4. CASE Flusher!InTable'[r] = Flusher!InTable[r] + chunk[r]
    BY <1>10, <2>1, <2>4
  <2> QED BY <2>2, <2>3, <2>4
<1>13. Flusher!CountedOnce' /\ LogCovers'
  <2>1. ASSUME ~Flusher!Puts \/ "unanswered" \notin trouble', NEW r \in Flusher!Rows
        PROVE  Flusher!Held'[r] <= records[r]
    <3>1. Flusher!Held[r] <= records[r]
      BY <1>11, <2>1 DEF FlusherInv, Flusher!CountedOnce, Flusher!AtMost
    <3>2. put[r] = 0 \/ took[r] = 0
      BY <1>6, <2>1 DEF Settles, Flusher!Nothing
    <3> QED BY <1>10, <3>1, <3>2
  <2>2. ASSUME ~Flusher!Puts \/ trouble' \cap {"unanswered", "halved"} = {}, NEW r \in Edges
        PROVE  log'[r] + (buf'[r] + Flying'[r]) <= records[r]
    <3>1. r \in Flusher!Rows
      BY DEF Flusher!Rows
    <3>2. log[r] + (buf[r] + Flying[r]) <= records[r]
      BY <1>11, <2>2 DEF FlusherInv, LogCovers
    <3>3. put[r] = 0 \/ logs[r] = 0
      BY <1>6, <2>2, <3>1 DEF Settles, Flusher!Nothing
    <3> QED BY <1>10, <3>1, <3>2, <3>3
  <2>3. ASSUME NEW r \in Flusher!Rows \ Edges PROVE log'[r] = 0
    <3>1. log[r] = 0
      BY DEF FlusherInv, LogCovers
    <3>2. logs[r] = 0 /\ log'[r] = log[r] + logs[r]
      BY <1>6 DEF Settles, Flusher!Plus
    <3> QED BY <3>1, <3>2
  <2>4. ASSUME ~Flusher!Puts \/ trouble' \cap {"unanswered", "halved"} = {}, NEW r \in Flusher!Rows
        PROVE  log'[r] <= records[r]
    <3>1. CASE r \in Edges
      <4>1. log'[r] + (buf'[r] + Flying'[r]) <= records[r]
        BY <2>2, <2>4, <3>1
      <4>2. log'[r] \in Nat /\ buf'[r] \in Nat
        BY <1>7 DEF Counts
      <4> QED BY <1>10, <4>1, <4>2
    <3>2. CASE r \notin Edges
      BY <1>10, <2>3, <3>2
    <3> QED BY <3>1, <3>2
  <2>5. Flusher!CountedOnce'
    BY <1>3, <1>5, <2>1, <2>4 DEF Flusher!CountedOnce, Flusher!AtMost
  <2>6. LogCovers'
    BY <1>3, <1>5, <2>2, <2>3 DEF LogCovers
  <2> QED BY <2>5, <2>6
<1>14. StopInv'
  <2>1. ASSUME NEW j \in Flusher!Flushes, flight[j] = <<>> PROVE flight'[j] = <<>>
    BY <1>1, <1>3, <2>1, FlusherTypes
  <2>2. /\ phase = "stopping" => flight'["caller"] = <<>>
        /\ phase = "flushing" => flight'["timer"] = <<>>
    BY <2>1 DEF FlusherInv, StopInv, Flusher!Flushes
  <2>3. ASSUME trouble' = {}, phase = "on" PROVE due = records
    BY <1>11, <2>3 DEF FlusherInv, StopInv
  <2>4. ASSUME trouble' = {}, NEW r \in Flusher!Rows
        PROVE  /\ put[r] = 0 /\ trouble = {}
               /\ Flusher!InTable'[r] = Flusher!InTable[r] + chunk[r]
               /\ Flusher!Held'[r] = Flusher!Held[r]
    <3>1. put[r] = 0 /\ trouble = {} /\ Flusher!InTable'[r] = Flusher!InTable[r] + chunk[r]
      BY <1>6, <1>11, <2>4 DEF Settles, Flusher!Nothing
    <3> DEFINE t == Flusher!InTable[r]
               t2 == Flusher!InTable'[r]
               b == buf[r]
               b2 == buf'[r]
               f == Flying[r]
               f2 == Flying'[r]
               h == Flusher!Held[r]
               h2 == Flusher!Held'[r]
    <3>2. /\ t \in Nat /\ b \in Nat /\ f2 \in Nat /\ chunk[r] \in Nat
          /\ b2 = b + put[r] /\ f = chunk[r] + f2 /\ h = t + (b + f) /\ h2 = t2 + (b2 + f2)
      BY <1>10
    <3>3. t2 = t + chunk[r]
      BY <3>1
    <3> HIDE DEF t, t2, b, b2, f, f2, h, h2
    <3>4. h2 = h
      BY <3>1, <3>2, <3>3
    <3> QED BY <3>1, <3>4 DEF h, h2
  <2>5. ASSUME trouble' = {}, phase = "stopping", NEW r \in Flusher!Rows
        PROVE  due[r] <= Flusher!Held'[r]
    <3>1. due[r] <= Flusher!Held[r]
      BY <2>4, <2>5 DEF FlusherInv, StopInv, Flusher!AtMost
    <3> QED BY <2>4, <2>5, <3>1
  <2>6. ASSUME trouble' = {}, phase = "flushing", NEW r \in Flusher!Rows
        PROVE  due[r] <= Flusher!InTable'[r] + Flusher!Aloft(flight'["caller"])[r]
    <3>1. due[r] <= Flusher!InTable[r] + Flusher!Aloft(flight["caller"])[r]
      BY <2>4, <2>6 DEF FlusherInv, StopInv, Flusher!AtMost, Flusher!Plus
    <3>2. k = "caller"
      BY <1>3, <2>6 DEF FlusherInv, StopInv, Flusher!Flushes
    <3>3. Flusher!Aloft(flight["caller"])[r] = chunk[r] + Flusher!Aloft(flight'["caller"])[r]
      BY <1>4, <3>2
    <3>4. Flusher!Aloft(flight'["caller"])[r] \in Nat
      <4>1. flight'["caller"] \in Seq(Chunks)
        BY <1>4 DEF Flusher!Flushes
      <4>2. Flusher!Aloft(flight'["caller"]) \in Counts
        BY <4>1, AloftCounts
      <4> QED BY <4>2 DEF Counts
    <3> QED BY <1>10, <2>4, <2>6, <3>1, <3>3, <3>4
  <2>7. ASSUME trouble' = {}, phase = "off", NEW r \in Flusher!Rows
        PROVE  due[r] <= Flusher!InTable'[r]
    <3>1. due[r] <= Flusher!InTable[r]
      BY <2>4, <2>7 DEF FlusherInv, StopInv, Flusher!AtMost
    <3> QED BY <1>10, <2>4, <2>7, <3>1
  <2>8. trouble' = {} =>
          /\ phase = "on" => due = records
          /\ phase = "stopping" => \A r \in Flusher!Rows : due[r] <= Flusher!Held'[r]
          /\ phase = "flushing" => \A r \in Flusher!Rows :
               due[r] <= Flusher!Plus(Flusher!InTable, Flusher!Aloft(flight["caller"]))'[r]
          /\ phase = "off" => \A r \in Flusher!Rows : due[r] <= Flusher!InTable'[r]
    BY <2>3, <2>5, <2>6, <2>7 DEF Flusher!Plus
  <2> QED BY <1>3, <2>2, <2>8 DEF StopInv, Flusher!AtMost
<1> QED BY <1>8, <1>12, <1>13, <1>14 DEF FlusherInv

------------------------------------------------------------------------------
LEMMA FlusherStarts ==
  ASSUME Flusher!Init
  PROVE  FlusherInv
<1>1. Flusher!TypeOK
  <2>1. Flusher!Nothing \in [Flusher!Rows -> Nat] /\ 0 \in Flusher!Seconds
    BY FlusherSets DEF Counts
  <2>2. stored \in [Flusher!Seconds -> [Flusher!Rows -> Nat]]
    BY <2>1 DEF Flusher!Init
  <2>3. flight \in [Flusher!Flushes -> Seq([at : Flusher!Seconds, of : [Flusher!Rows -> Nat]])]
    BY DEF Flusher!Init
  <2> QED BY <2>1, <2>2, <2>3 DEF Flusher!Init, Flusher!TypeOK
<1>2. ASSUME NEW r \in Flusher!Rows
      PROVE  /\ buf[r] = 0 /\ Flying[r] = 0 /\ Flusher!InTable[r] = 0 /\ records[r] = 0 /\ log[r] = 0
             /\ Flusher!Held[r] = 0
  <2>1. buf[r] = 0 /\ records[r] = 0 /\ log[r] = 0
    BY DEF Flusher!Init, Flusher!Nothing
  <2>2. Flying[r] = 0
    <3>1. flight["timer"] = <<>> /\ flight["caller"] = <<>>
      BY DEF Flusher!Init, Flusher!Flushes
    <3>2. Flusher!Aloft(flight["timer"])[r] = 0 /\ Flusher!Aloft(flight["caller"])[r] = 0
      BY <3>1, AloftNone DEF Flusher!Nothing
    <3> QED BY <3>2 DEF Flying, Flusher!Plus
  <2>3. Flusher!InTable[r] = 0
    <3> DEFINE v == [s \in Flusher!Seconds |-> stored[s][r]]
    <3>1. v \in [Flusher!Seconds -> Nat] /\ \A s \in Flusher!Seconds : v[s] = 0
      BY DEF Flusher!Init, Flusher!Nothing
    <3> HIDE DEF v
    <3>2. Flusher!SumFunction(v) = 0
      BY <3>1, FlusherSets, SumZero
    <3> QED BY <3>2 DEF v, Flusher!InTable
  <2>4. Flusher!Held[r] = 0
    BY <2>1, <2>2, <2>3, HeldIs
  <2> QED BY <2>1, <2>2, <2>3, <2>4
<1>3. Flusher!NothingLost /\ Flusher!CountedOnce
  BY <1>2 DEF Flusher!NothingLost, Flusher!CountedOnce, Flusher!AtMost
<1>4. LogCovers
  <2>1. \A r \in Edges : r \in Flusher!Rows
    BY DEF Flusher!Rows
  <2> QED BY <1>2, <2>1 DEF LogCovers
<1>5. StopInv
  BY DEF Flusher!Init, StopInv
<1> QED BY <1>1, <1>3, <1>4, <1>5 DEF FlusherInv

\* A behaviour that is of a flusher begins and goes on as TraceFlush says.
FlusherHolds == kind = "flusher" => FlusherInv

LEMMA FlusherAlwaysHolds == FaultySpec => []FlusherHolds
<1>1. FaultyInit => FlusherHolds
  BY FlusherStarts DEF FaultyInit, FlusherHolds
<1>2. FlusherHolds /\ [FaultyNext]_everything => FlusherHolds'
  <2> SUFFICES ASSUME FlusherHolds, [FaultyNext]_everything, kind' = "flusher"
               PROVE  FlusherInv'
    BY DEF FlusherHolds
  <2>1. kind = "flusher" /\ FlusherInv
    BY DEF FaultyNext, LogStep, FlusherStep, FlusherHolds, everything
  <2>2. Flusher!Next \/ UNCHANGED flusherVars
    BY <2>1 DEF FaultyNext, LogStep, FlusherStep, everything
  <2>3. CASE \E r \in Flusher!Rows : Flusher!Record(r)
    BY <2>1, <2>3, RecordKeeps
  <2>4. CASE \E k \in Flusher!Flushes : Flusher!Flush(k)
    BY <2>1, <2>4, FlushKeeps
  <2>5. CASE \E k \in Flusher!Flushes : Flusher!Send(k)
    BY <2>1, <2>5, SendKeeps
  <2>6. CASE Flusher!Stop \/ Flusher!LastFlush \/ Flusher!Stopped
    BY <2>1, <2>6, StopKeeps, LastFlushKeeps, StoppedKeeps
  <2>7. CASE Flusher!Second \/ UNCHANGED flusherVars
    BY <2>1, <2>7, SecondKeeps
  <2> QED BY <2>2, <2>3, <2>4, <2>5, <2>6, <2>7 DEF Flusher!Next
<1> QED BY <1>1, <1>2, PTL DEF FaultySpec

(***************************************************************************)
(* Whatever sends fail, for any rows, batches, rates and number of faults, *)
(* no recorded call gets lost, but where NothingLost says so (flushOnce,   *)
(* rebuffer, tracesRoutes).                                                *)
(***************************************************************************)
THEOREM NothingEverLost == FaultySpec => []NothingLost
<1>1. FlusherHolds => NothingLost
  BY DEF FlusherHolds, FlusherInv, NothingLost
<1> QED BY <1>1, FlusherAlwaysHolds, PTL

(***************************************************************************)
(* Nor is one counted twice, in the table or in the log, but where an      *)
(* answer was lost or a table failed (rebuffer, tracesRoutes).             *)
(***************************************************************************)
THEOREM AlwaysCountedOnce == FaultySpec => []CountedOnce
<1>1. FlusherHolds => CountedOnce
  BY DEF FlusherHolds, FlusherInv, CountedOnce
<1> QED BY <1>1, FlusherAlwaysHolds, PTL

(***************************************************************************)
(* And a stop that returned with nothing gone wrong has left nothing       *)
(* recorded before it out of the table, whatever flushes were under way    *)
(* (stop, Stop, Drop).                                                     *)
(***************************************************************************)
THEOREM StopAlwaysSendsAll == FaultySpec => []StopSendsAll
<1>1. FlusherHolds => StopSendsAll
  BY DEF FlusherHolds, FlusherInv, StopInv, StopSendsAll, Flusher!StopSendsAll
<1> QED BY <1>1, FlusherAlwaysHolds, PTL
=============================================================================
