------------------------- MODULE IngestControlProofs -------------------------
(***************************************************************************)
(* What the supervisor, the guard and the poller keep for any files,       *)
(* branches, caps and any number of failures.                              *)
(*   ControlInv: the slots' shape is what OneRunWaits rests on, the count  *)
(*     of throws what TrackerAgrees rests on.                              *)
(*   AnswerInv: every promise of a re-ingest belongs to a run that is      *)
(*     asleep or in the chain, and every run in the chain to a promise.    *)
(*   The changes: each file the served index is stale for is in somebody's *)
(*     plans, step by step, while nothing has failed.                      *)
(***************************************************************************)
EXTENDS IngestControl, FiniteSetTheorems, TLAPS

SlotStates == Waiting \cup {"free", "running", "done"}

\* Only the slot of the published promise waits for its run.
WaitingIsQueued ==
  /\ full \in [Slots -> SlotStates]
  /\ \A s \in Slots : full[s] \in Waiting => queued = s

ThrowsCounted == left \in [Events -> Nat] /\ left["throw"] <= Budget["throw"]

ControlInv == BufferedWillFlush /\ TrackerAgrees /\ WaitingIsQueued /\ ThrowsCounted

\* The daemon starts untripped, tracking what it serves, with nothing buffered.
LEMMA InitControl == Init => ControlInv
BY ControlAssumption DEF Init, ControlInv, BufferedWillFlush, TrackerAgrees, WaitingIsQueued,
   SlotStates, Waiting, ThrowsCounted, Events

\* No event of the environment or of chance gives throws back.
LEMMA HappensKeeps ==
  ASSUME ThrowsCounted, NEW e \in Events, Happens(e)
  PROVE  /\ ThrowsCounted'
         /\ Thrown => Thrown'
         /\ e = "throw" => Thrown'
<1>1. left' \in [Events -> Nat] BY DEF ThrowsCounted, Happens
<1>2. left'["throw"] = IF e = "throw" THEN left["throw"] - 1 ELSE left["throw"]
  BY DEF ThrowsCounted, Happens, Events
<1>3. left["throw"] \in Nat /\ Budget["throw"] \in Nat
  BY ControlAssumption DEF ThrowsCounted, Events
<1> QED BY <1>1, <1>2, <1>3 DEF ThrowsCounted, Thrown

\* The slots after an answer that was given from the slots `was'.
SlotsKept(was) ==
  /\ full' \in [Slots -> SlotStates]
  /\ \A s \in Slots : full'[s] \in Waiting => queued' = s

\* What requestFull and onOverflow are given: no slot but the published one waits.
SlotsShape(was) ==
  /\ was \in [Slots -> SlotStates]
  /\ \A s \in Slots : was[s] \in Waiting => queued = s

\* No slot but the one of the new run is touched, and that one is published, or
\* answered behind the trip.
LEMMA NewRunKeepsSlots ==
  ASSUME NEW was, NEW on \in Slots, SlotsShape(was), queued = 0, NewRun(on, was)
  PROVE  SlotsKept(was)
<1>0. \A s \in Slots : was[s] \notin Waiting
  BY DEF SlotsShape, Slots
<1>1. CASE full' = [was EXCEPT ![on] = "done"]
  BY <1>0, <1>1 DEF SlotsShape, SlotsKept, SlotStates, Waiting
<1>2. CASE full' = [was EXCEPT ![on] = "asleep"] /\ queued' = on
  BY <1>0, <1>2 DEF SlotsShape, SlotsKept, SlotStates, Waiting
<1>3. CASE full' = [was EXCEPT ![on] = "chained"] /\ queued' = on
  BY <1>0, <1>3 DEF SlotsShape, SlotsKept, SlotStates, Waiting
<1> QED BY <1>1, <1>2, <1>3 DEF NewRun

\* A request that joins the waiting run changes no slot.
LEMMA RequestKeepsSlots ==
  ASSUME NEW was, NEW on \in Slots, SlotsShape(was), RequestFull(on, was)
  PROVE  SlotsKept(was)
<1>1. CASE queued # 0 /\ full' = was /\ UNCHANGED queued
  BY <1>1 DEF SlotsShape, SlotsKept
<1>2. CASE queued = 0 /\ NewRun(on, was)
  BY <1>2, NewRunKeepsSlots
<1> QED BY <1>1, <1>2 DEF RequestFull

\* onOverflow asks for one run or, behind the trip, for none.
LEMMA OverflowKeepsSlots ==
  ASSUME NEW was, SlotsShape(was), CallOverflow(was)
  PROVE  SlotsKept(was)
<1>1. CASE full' = was /\ UNCHANGED queued
  BY <1>1 DEF SlotsShape, SlotsKept
<1>2. CASE \E s \in Slots : RequestFull(s, was)
  BY <1>2, RequestKeepsSlots
<1> QED BY <1>1, <1>2 DEF CallOverflow

\* With the invariant before and the slots kept, it holds after.
LEMMA KeptIsQueued ==
  ASSUME WaitingIsQueued, SlotsKept(full)
  PROVE  WaitingIsQueued'
BY DEF WaitingIsQueued, SlotsKept

\* A change that overflows, or is buffered, keeps the slots.
LEMMA OverflowsKeeps ==
  ASSUME WaitingIsQueued, Overflows \/ NoRequest
  PROVE  WaitingIsQueued'
<1>1. SlotsShape(full) BY DEF WaitingIsQueued, SlotsShape
<1>2. CASE NoRequest
  BY <1>1, <1>2, KeptIsQueued DEF NoRequest, SlotsShape, SlotsKept
<1>3. CASE CallOverflow(full)
  BY <1>1, <1>3, OverflowKeepsSlots, KeptIsQueued
<1> QED BY <1>2, <1>3 DEF Overflows

\* The buffer that overflows is empty after, or the rescan in flight goes on.
LEMMA OverflowsEmpties == Overflows => pending' = {}
BY DEF Overflows

\* Every handler that keeps a flush from running arms one when it ends; the
\* served branch and the tracked one change together between re-points; a slot
\* waits only once it is published.
LEMMA ControlStep ==
  ASSUME ControlInv, Next
  PROVE  ControlInv'
<1> USE ControlAssumption DEF ControlInv, BufferedWillFlush, TrackerAgrees,
      WaitingIsQueued, SlotStates, Waiting, Slots, Events,
      index, poller, watch, breaker, rate, guard, work
<1>1. ASSUME NEW f \in Files, Edit(f) PROVE ControlInv'
  <2>1. BufferedWillFlush'
    <3>1. CASE Overflows BY <3>1, OverflowsEmpties
    <3>2. CASE ~Overflows BY <1>1, <3>2 DEF Edit
    <3> QED BY <3>1, <3>2
  <2>2. TrackerAgrees' /\ ThrowsCounted' BY <1>1, HappensKeeps DEF Edit
  <2>3. WaitingIsQueued'
    <3>1. Overflows \/ NoRequest BY <1>1 DEF Edit
    <3>2. WaitingIsQueued OBVIOUS
    <3> HIDE DEF WaitingIsQueued
    <3> QED BY <3>1, <3>2, OverflowsKeeps
  <2> QED BY <2>1, <2>2, <2>3
<1>2. ASSUME NEW files \in SUBSET Files, Overflow(files) PROVE ControlInv'
  <2>1. BufferedWillFlush' BY <1>2, OverflowsEmpties DEF Overflow
  <2>2. TrackerAgrees' /\ ThrowsCounted' BY <1>2, HappensKeeps DEF Overflow
  <2>3. WaitingIsQueued'
    <3>1. Overflows BY <1>2 DEF Overflow
    <3>2. WaitingIsQueued OBVIOUS
    <3> HIDE DEF WaitingIsQueued
    <3> QED BY <3>1, <3>2, OverflowsKeeps
  <2> QED BY <2>1, <2>2, <2>3
<1>3. ASSUME NEW b \in Branches, Checkout(b) PROVE ControlInv'
  BY <1>3, HappensKeeps DEF Checkout
<1>4. CASE HeadUnreadable
  BY <1>4, HappensKeeps DEF HeadUnreadable
<1>5. CASE Manual
  BY <1>5, HappensKeeps DEF Manual
<1>6. CASE Reset
  BY <1>6, HappensKeeps DEF Reset
<1>7. CASE WindowRolls
  BY <1>7, HappensKeeps DEF WindowRolls
<1>8. CASE BatchFails
  BY <1>8, HappensKeeps DEF BatchFails, BatchDone, Rearmed, Ended, NotedErr
<1>9. CASE FullFails
  BY <1>9, HappensKeeps DEF FullFails, FullAnswered, ClearSlot, Ended, NotedErr
<1>10. CASE RepointUnfreshened
  BY <1>10, HappensKeeps DEF RepointUnfreshened, RepointDone, Ended, NoFailure, NotedOk, Wiped
<1>11. CASE RepointAborts
  BY <1>11, HappensKeeps DEF RepointAborts, RepointDone, Ended, Failed, NotedErr
<1>12. CASE RepointThrows
  BY <1>12, HappensKeeps DEF RepointThrows, RepointDone, Ended, Failed, NotedErr
<1>13. CASE CoolDown
  BY <1>13 DEF CoolDown, ThrowsCounted, Thrown
<1>14. CASE FlushDeferred
  BY <1>14 DEF FlushDeferred, ThrowsCounted, Thrown
<1>15. CASE Flush
  <2>1. BufferedWillFlush' BY <1>15 DEF Flush
  <2>2. TrackerAgrees' /\ ThrowsCounted' BY <1>15 DEF Flush, ThrowsCounted, Thrown
  <2>3. WaitingIsQueued'
    <3>1. WaitingIsQueued OBVIOUS
    <3> HIDE DEF WaitingIsQueued
    <3>2. SlotsShape(full) BY <3>1 DEF WaitingIsQueued, SlotsShape
    <3>3. CASE UNCHANGED <<queued, full>>
      BY <3>2, <3>3, <3>1, KeptIsQueued DEF SlotsShape, SlotsKept
    <3>4. CASE \E s \in Slots : RequestFull(s, full)
      BY <3>1, <3>2, <3>4, RequestKeepsSlots, KeptIsQueued
    <3> QED BY <1>15, <3>3, <3>4 DEF Flush, NoRequest
  <2> QED BY <2>1, <2>2, <2>3
<1>16. ASSUME NEW s \in Slots, Wake(s) PROVE ControlInv'
  BY <1>16 DEF Wake, ClearSlot, ThrowsCounted, Thrown
<1>17. ASSUME NEW s \in Slots, Settle(s) PROVE ControlInv'
  <2>1. BufferedWillFlush' BY <1>17 DEF Settle, Rearmed
  <2>2. TrackerAgrees' /\ ThrowsCounted' BY <1>17 DEF Settle, ThrowsCounted, Thrown
  <2>3. WaitingIsQueued'
    <3> DEFINE freed == [full EXCEPT ![s] = "free"]
    <3>1. SlotsShape(freed) BY DEF SlotsShape
    <3>3. SlotsKept(freed)
      <4>1. CASE CallOverflow(freed)
        <5> HIDE DEF freed
        <5> QED BY <3>1, <4>1, OverflowKeepsSlots
      <4>2. CASE full' = freed /\ UNCHANGED queued
        BY <3>1, <4>2 DEF SlotsShape, SlotsKept
      <4> QED BY <1>17, <4>1, <4>2 DEF Settle
    <3> HIDE DEF freed
    <3> QED BY <3>3 DEF SlotsKept
  <2> QED BY <2>1, <2>2, <2>3
<1>18. CASE ReadTree
  BY <1>18 DEF ReadTree, ThrowsCounted, Thrown
<1>19. CASE BatchStarts
  BY <1>19 DEF BatchStarts, Begun, ThrowsCounted, Thrown
<1>20. CASE BatchOk
  BY <1>20 DEF BatchOk, BatchDone, Rearmed, Ended, NotedOk, ThrowsCounted, Thrown
<1>21. CASE FullStarts
  BY <1>21 DEF FullStarts, Begun, ClearSlot, Counted, Wiped, Admitted, ThrowsCounted, Thrown
<1>22. CASE FullRefused
  BY <1>22 DEF FullRefused, FullAnswered, ClearSlot, Ended, ThrowsCounted, Thrown
<1>23. CASE FullOk
  BY <1>23 DEF FullOk, FullAnswered, ClearSlot, Ended, NotedOk, ThrowsCounted, Thrown
<1>24. CASE ManualStarts
  BY <1>24 DEF ManualStarts, Begun, Wiped, ThrowsCounted, Thrown
<1>25. CASE ManualEnds
  <2>1. BufferedWillFlush' BY <1>25 DEF ManualEnds, Ended
  <2>2. TrackerAgrees' /\ ThrowsCounted' BY <1>25, HappensKeeps DEF ManualEnds, Ended, ThrowsCounted, Thrown
  <2>3. WaitingIsQueued' BY <1>25 DEF ManualEnds, Ended
  <2> QED BY <2>1, <2>2, <2>3
<1>26. CASE PollClaims
  BY <1>26 DEF PollClaims, Due, Counted, ThrowsCounted, Thrown
<1>27. CASE PollNoKey
  BY <1>27 DEF PollNoKey, Due, Counted, NoFailure, NotedOk, ThrowsCounted, Thrown
<1>28. CASE PollTrips
  BY <1>28 DEF PollTrips, Due, ThrowsCounted, Thrown
<1>29. CASE BackoffEnds
  BY <1>29 DEF BackoffEnds, ThrowsCounted, Thrown
<1>30. CASE RepointStarts
  BY <1>30 DEF RepointStarts, Begun, Wiped, ThrowsCounted, Thrown
<1>31. CASE RepointSwaps
  BY <1>31 DEF RepointSwaps, RepointDone, Ended, NoFailure, NotedOk, ThrowsCounted, Thrown
<1> QED
  BY <1>1, <1>2, <1>3, <1>4, <1>5, <1>6, <1>7, <1>8, <1>9, <1>10, <1>11, <1>12, <1>13, <1>14, <1>15, <1>16, <1>17, <1>18, <1>19, <1>20, <1>21, <1>22, <1>23, <1>24, <1>25, <1>26, <1>27, <1>28, <1>29, <1>30, <1>31
     DEF Next, Environment, Failing, Daemon

\* The supervisor, guard and poller keep their invariant whatever fails.
THEOREM ControlInvariant == Spec => []ControlInv
<1>1. ControlInv /\ UNCHANGED vars => ControlInv'
  BY DEF ControlInv, BufferedWillFlush, TrackerAgrees, Thrown, WaitingIsQueued, ThrowsCounted,
         vars, index, poller, watch, guard
<1> QED BY <1>1, InitControl, ControlStep, PTL DEF Spec

\* Changes in the supervisor's buffer are never stranded, whatever fails.
THEOREM BufferedAlwaysFlushes == Spec => []BufferedWillFlush
<1>1. ControlInv => BufferedWillFlush BY DEF ControlInv
<1> QED BY <1>1, ControlInvariant, PTL

\* Until a re-point throws, the poller tracks the branch that is served, through
\* aborts, unreadable heads and checkouts during a re-point.
THEOREM TrackerAlwaysAgrees == Spec => []TrackerAgrees
<1>1. ControlInv => TrackerAgrees BY DEF ControlInv
<1> QED BY <1>1, ControlInvariant, PTL

\* However often they are asked for, at most one full re-ingest waits to run.
THEOREM OneRunAlwaysWaits == Spec => []OneRunWaits
<1>1. ControlInv => OneRunWaits
  <2> DEFINE W == {s \in Slots : full[s] \in Waiting}
  <2> SUFFICES ASSUME WaitingIsQueued PROVE Cardinality(W) <= 1
    BY DEF OneRunWaits, ControlInv
  <2>1. W \subseteq {queued} BY DEF WaitingIsQueued
  <2>2. IsFiniteSet({queued}) /\ Cardinality({queued}) = 1 BY FS_Singleton
  <2> HIDE DEF W
  <2>3. Cardinality(W) <= Cardinality({queued}) BY <2>1, <2>2, FS_Subset
  <2> QED BY <2>2, <2>3
<1> QED BY <1>1, ControlInvariant, PTL

-----------------------------------------------------------------------------
(* Promises: the slots of requestFull, the chain and the handlers that wait.   *)

Busy == {"chained", "running"}
Run(s) == [kind |-> "full", slot |-> s]

\* A run in the chain c has a slot of its own, which says whether its turn has
\* come; and a slot that says so has its run in the chain.
SlotOfRun(was, c, ph) ==
  \A i \in 1 .. Len(c) : c[i].kind = "full" =>
    /\ was[c[i].slot] = IF i = 1 /\ ph # "wait" THEN "running" ELSE "chained"
    /\ \A j \in 1 .. Len(c) : c[j].kind = "full" /\ c[j].slot = c[i].slot => i = j
RunOfSlot(was, c) ==
  \A s \in Slots : was[s] \in Busy => \E i \in 1 .. Len(c) : c[i] = Run(s)
RunsMatch(was, c, ph) == SlotOfRun(was, c, ph) /\ RunOfSlot(was, c)

\* The batch in the chain is the one the supervisor's handler waits for.
BatchMatches(c, waits) ==
  /\ \A i, j \in 1 .. Len(c) : c[i].kind = "batch" /\ c[j].kind = "batch" => i = j
  /\ waits <=> \E i \in 1 .. Len(c) : c[i].kind = "batch"

Phases == {"wait", "unread", "read"}
ChainShape == chain \in Seq(Jobs) /\ phase \in Phases /\ (phase # "wait" => chain # <<>>)

\* Handlers wait for slots that are taken, requests join a run that waits.
HandlersWait ==
  /\ queued \in 0 .. 3 /\ overOn \in 0 .. 3 /\ batchOn \in 0 .. 3
  /\ over => overOn # 0 /\ full[overOn] # "free"
  /\ batchOn # 0 => batch /\ full[batchOn] # "free"
JoinedWaits(was) == queued # 0 => was[queued] \in Waiting

\* What comes from outside: records of files, and keys read from HEAD.
InputShape == pending \in SUBSET Files /\ head \in Branches \cup {NoKey}

AnswerInv ==
  /\ ChainShape /\ SlotsShape(full) /\ JoinedWaits(full) /\ RunsMatch(full, chain, phase)
  /\ BatchMatches(chain, batch /\ batchOn = 0) /\ HandlersWait

\* Positions in a chain to which a job was added.
LEMMA AppendAt ==
  ASSUME NEW c \in Seq(Jobs), NEW j \in Jobs
  PROVE  /\ Append(c, j) \in Seq(Jobs) /\ Len(c) \in Nat /\ Len(Append(c, j)) = Len(c) + 1
         /\ \A i \in 1 .. Len(c) : Append(c, j)[i] = c[i] /\ i \in 1 .. Len(c) + 1
         /\ Append(c, j)[Len(c) + 1] = j
         /\ \A i \in 1 .. Len(c) + 1 : i \in 1 .. Len(c) \/ i = Len(c) + 1
OBVIOUS

\* Positions in a chain whose first job has ended.
LEMMA TailAt ==
  ASSUME NEW c \in Seq(Jobs), c # <<>>
  PROVE  /\ Tail(c) \in Seq(Jobs) /\ Len(c) \in Nat /\ Len(c) >= 1 /\ Len(Tail(c)) = Len(c) - 1
         /\ \A i \in 1 .. Len(c) - 1 : Tail(c)[i] = c[i + 1] /\ i + 1 \in 1 .. Len(c) /\ i + 1 # 1
         /\ \A i \in 1 .. Len(c) : i = 1 \/ (i - 1 \in 1 .. Len(c) - 1 /\ Tail(c)[i - 1] = c[i])
         /\ 1 \in 1 .. Len(c)
OBVIOUS

\* A run of the chain has a slot.
LEMMA FullIsRun ==
  ASSUME NEW c \in Seq(Jobs), NEW i \in 1 .. Len(c), c[i].kind = "full"
  PROVE  c[i].slot \in Slots /\ c[i] = Run(c[i].slot)
<1>1. c[i] \in Jobs OBVIOUS
<1> QED BY <1>1 DEF Jobs, Run

\* Jobs of other kinds come and go without a slot.
LEMMA MatchAppend ==
  ASSUME NEW c \in Seq(Jobs), NEW j \in Jobs, NEW was, NEW ph, j.kind # "full",
         RunsMatch(was, c, ph)
  PROVE  RunsMatch(was, Append(c, j), ph)
<1> USE AppendAt
<1>1. SlotOfRun(was, Append(c, j), ph)
  BY DEF RunsMatch, SlotOfRun
<1>2. RunOfSlot(was, Append(c, j))
  BY DEF RunsMatch, RunOfSlot
<1> QED BY <1>1, <1>2 DEF RunsMatch

\* A run that enters the chain takes its slot.
LEMMA MatchAppendRun ==
  ASSUME NEW c \in Seq(Jobs), NEW s \in Slots, NEW was \in [Slots -> SlotStates], NEW ph,
         was[s] \notin Busy, c = <<>> => ph = "wait", RunsMatch(was, c, ph)
  PROVE  RunsMatch([was EXCEPT ![s] = "chained"], Append(c, Run(s)), ph)
<1> DEFINE w == [was EXCEPT ![s] = "chained"]
           d == Append(c, Run(s))
<1>1. Run(s) \in Jobs /\ Run(s).kind = "full" /\ Run(s).slot = s BY DEF Run, Jobs
<1>2. /\ Len(d) = Len(c) + 1 /\ d[Len(c) + 1] = Run(s) /\ Len(c) \in Nat
      /\ \A i \in 1 .. Len(c) : d[i] = c[i] /\ i \in 1 .. Len(c) + 1
      /\ \A i \in 1 .. Len(c) + 1 : i \in 1 .. Len(c) \/ i = Len(c) + 1
  BY <1>1, AppendAt
<1>3. \A i \in 1 .. Len(c) : c[i].kind = "full" => c[i].slot \in Slots /\ c[i].slot # s
  BY FullIsRun DEF RunsMatch, SlotOfRun, Busy
<1>4. w[s] = "chained" /\ \A x \in Slots : x # s => w[x] = was[x]
  BY DEF SlotStates, Waiting
<1>5. Len(c) + 1 = 1 => ph = "wait" BY <1>2
<1> HIDE DEF w, d
<1>6. SlotOfRun(w, d, ph)
  <2> SUFFICES ASSUME NEW i \in 1 .. Len(d), d[i].kind = "full"
               PROVE  /\ w[d[i].slot] = IF i = 1 /\ ph # "wait" THEN "running" ELSE "chained"
                      /\ \A j \in 1 .. Len(d) : d[j].kind = "full" /\ d[j].slot = d[i].slot => i = j
    BY DEF SlotOfRun
  <2>1. CASE i \in 1 .. Len(c)
    BY <1>1, <1>2, <1>3, <1>4, <2>1 DEF RunsMatch, SlotOfRun
  <2>2. CASE i = Len(c) + 1
    BY <1>1, <1>2, <1>3, <1>4, <1>5, <2>2
  <2> QED BY <1>2, <2>1, <2>2
<1>7. RunOfSlot(w, d)
  <2> SUFFICES ASSUME NEW x \in Slots, w[x] \in Busy
               PROVE  \E i \in 1 .. Len(d) : d[i] = Run(x)
    BY DEF RunOfSlot
  <2>1. CASE x = s BY <1>2, <2>1
  <2>2. CASE x # s BY <1>2, <1>4, <2>2 DEF RunsMatch, RunOfSlot
  <2> QED BY <2>1, <2>2
<1> QED BY <1>6, <1>7 DEF RunsMatch, w, d

\* A job of another kind leaves the head.
LEMMA MatchTail ==
  ASSUME NEW c \in Seq(Jobs), c # <<>>, NEW was, NEW ph, c[1].kind # "full",
         RunsMatch(was, c, ph)
  PROVE  RunsMatch(was, Tail(c), "wait")
<1> DEFINE d == Tail(c)
<1>1. /\ Len(c) \in Nat /\ Len(d) = Len(c) - 1 /\ 1 \in 1 .. Len(c)
      /\ \A i \in 1 .. Len(c) - 1 : d[i] = c[i + 1] /\ i + 1 \in 1 .. Len(c) /\ i + 1 # 1
      /\ \A i \in 1 .. Len(c) : i = 1 \/ (i - 1 \in 1 .. Len(c) - 1 /\ d[i - 1] = c[i])
  BY TailAt
<1> HIDE DEF d
<1>2. SlotOfRun(was, d, "wait")
  BY <1>1 DEF RunsMatch, SlotOfRun
<1>3. RunOfSlot(was, d)
  <2> SUFFICES ASSUME NEW x \in Slots, was[x] \in Busy
               PROVE  \E i \in 1 .. Len(d) : d[i] = Run(x)
    BY DEF RunOfSlot
  <2>1. PICK i \in 1 .. Len(c) : c[i] = Run(x)
    BY DEF RunsMatch, RunOfSlot
  <2>2. i # 1 BY <2>1 DEF Run
  <2> QED BY <1>1, <2>1, <2>2
<1> QED BY <1>2, <1>3 DEF RunsMatch, d

\* A run leaves the head, and is answered.
LEMMA MatchTailRun ==
  ASSUME NEW c \in Seq(Jobs), c # <<>>, NEW was \in [Slots -> SlotStates], NEW ph,
         c[1].kind = "full", RunsMatch(was, c, ph)
  PROVE  RunsMatch([was EXCEPT ![c[1].slot] = "done"], Tail(c), "wait")
<1> DEFINE s == c[1].slot
           w == [was EXCEPT ![s] = "done"]
           d == Tail(c)
<1>1. /\ Len(c) \in Nat /\ Len(d) = Len(c) - 1 /\ 1 \in 1 .. Len(c)
      /\ \A i \in 1 .. Len(c) - 1 : d[i] = c[i + 1] /\ i + 1 \in 1 .. Len(c) /\ i + 1 # 1
      /\ \A i \in 1 .. Len(c) : i = 1 \/ (i - 1 \in 1 .. Len(c) - 1 /\ d[i - 1] = c[i])
  BY TailAt
<1>2. s \in Slots /\ c[1] = Run(s) BY <1>1, FullIsRun
<1>3. \A i \in 1 .. Len(c) : c[i].kind = "full" /\ i # 1 => c[i].slot \in Slots /\ c[i].slot # s
  BY <1>1, FullIsRun DEF RunsMatch, SlotOfRun
<1>4. w[s] = "done" /\ \A x \in Slots : x # s => w[x] = was[x]
  BY <1>2
<1> HIDE DEF s, w, d
<1>5. SlotOfRun(w, d, "wait")
  BY <1>1, <1>3, <1>4 DEF RunsMatch, SlotOfRun
<1>6. RunOfSlot(w, d)
  <2> SUFFICES ASSUME NEW x \in Slots, w[x] \in Busy
               PROVE  \E i \in 1 .. Len(d) : d[i] = Run(x)
    BY DEF RunOfSlot
  <2>1. x # s BY <1>4 DEF Busy
  <2>2. PICK i \in 1 .. Len(c) : c[i] = Run(x)
    BY <1>4, <2>1 DEF RunsMatch, RunOfSlot
  <2>3. i # 1 BY <1>2, <2>1, <2>2 DEF Run
  <2> QED BY <1>1, <2>2, <2>3
<1> QED BY <1>5, <1>6 DEF RunsMatch, s, w, d

\* The turn of a run has come.
LEMMA MatchBegin ==
  ASSUME NEW c \in Seq(Jobs), c # <<>>, NEW was \in [Slots -> SlotStates],
         c[1].kind = "full", RunsMatch(was, c, "wait")
  PROVE  RunsMatch([was EXCEPT ![c[1].slot] = "running"], c, "unread")
<1> DEFINE s == c[1].slot
           w == [was EXCEPT ![s] = "running"]
<1>1. 1 \in 1 .. Len(c) BY TailAt
<1>2. s \in Slots /\ c[1] = Run(s) BY <1>1, FullIsRun
<1>3. \A i \in 1 .. Len(c) : c[i].kind = "full" /\ i # 1 => c[i].slot \in Slots /\ c[i].slot # s
  BY <1>1, FullIsRun DEF RunsMatch, SlotOfRun
<1>4. w[s] = "running" /\ \A x \in Slots : x # s => w[x] = was[x]
  BY <1>2
<1>5. SlotOfRun(w, c, "unread")
  <2> HIDE DEF w
  <2> QED BY <1>1, <1>3, <1>4 DEF RunsMatch, SlotOfRun
<1>6. RunOfSlot(w, c)
  <2> HIDE DEF w, s
  <2> QED BY <1>1, <1>2, <1>4 DEF RunsMatch, RunOfSlot
<1> QED BY <1>5, <1>6 DEF RunsMatch

\* The chain says nothing of slots that sleep, are due, answered or free.
LEMMA MatchSame ==
  ASSUME NEW c \in Seq(Jobs), NEW was, NEW w, NEW ph, NEW p,
         RunsMatch(was, c, ph), ph = "wait" <=> p = "wait",
         \A s \in Slots : was[s] \in Busy \/ w[s] \in Busy => was[s] = w[s]
  PROVE  RunsMatch(w, c, p)
<1>1. \A i \in 1 .. Len(c) : c[i].kind = "full" => c[i].slot \in Slots /\ was[c[i].slot] \in Busy
  BY FullIsRun DEF RunsMatch, SlotOfRun, Busy
<1>2. SlotOfRun(w, c, p) BY <1>1 DEF RunsMatch, SlotOfRun
<1>3. RunOfSlot(w, c) BY DEF RunsMatch, RunOfSlot
<1> QED BY <1>2, <1>3 DEF RunsMatch

\* A head of another kind may begin or read: no slot tells.
LEMMA MatchTurn ==
  ASSUME NEW c \in Seq(Jobs), c # <<>>, NEW was, NEW ph, NEW p, c[1].kind # "full",
         RunsMatch(was, c, ph)
  PROVE  RunsMatch(was, c, p)
BY DEF RunsMatch, SlotOfRun

\* The batch of the supervisor enters the chain, and leaves it.
LEMMA BatchMatchAppend ==
  ASSUME NEW c \in Seq(Jobs), NEW j \in Jobs, NEW b, BatchMatches(c, b), b \in BOOLEAN,
         j.kind = "batch" => ~b
  PROVE  BatchMatches(Append(c, j), b \/ j.kind = "batch")
<1> DEFINE d == Append(c, j)
<1>1. /\ Len(c) \in Nat /\ Len(d) = Len(c) + 1
      /\ \A i \in 1 .. Len(c) : d[i] = c[i] /\ i \in 1 .. Len(c) + 1
      /\ d[Len(c) + 1] = j
      /\ \A i \in 1 .. Len(c) + 1 : i \in 1 .. Len(c) \/ i = Len(c) + 1
  BY AppendAt
<1> HIDE DEF d
<1>2. \A i \in 1 .. Len(d) : d[i].kind = "batch" =>
        (i \in 1 .. Len(c) /\ c[i].kind = "batch" /\ b) \/ (i = Len(c) + 1 /\ j.kind = "batch")
  BY <1>1 DEF BatchMatches
<1>3. \A i, k \in 1 .. Len(d) : d[i].kind = "batch" /\ d[k].kind = "batch" => i = k
  BY <1>2 DEF BatchMatches
<1>4. b => \E i \in 1 .. Len(d) : d[i].kind = "batch"
  BY <1>1 DEF BatchMatches
<1>5. j.kind = "batch" => \E i \in 1 .. Len(d) : d[i].kind = "batch"
  BY <1>1
<1> QED BY <1>2, <1>3, <1>4, <1>5 DEF BatchMatches, d

\* The head of the chain leaves, and with it the batch if it was one.
LEMMA BatchMatchTail ==
  ASSUME NEW c \in Seq(Jobs), c # <<>>, NEW b, BatchMatches(c, b), b \in BOOLEAN
  PROVE  BatchMatches(Tail(c), b /\ c[1].kind # "batch")
<1> DEFINE d == Tail(c)
<1>1. /\ Len(c) \in Nat /\ Len(d) = Len(c) - 1 /\ 1 \in 1 .. Len(c)
      /\ \A i \in 1 .. Len(c) - 1 : d[i] = c[i + 1] /\ i + 1 \in 1 .. Len(c) /\ i + 1 # 1
      /\ \A i \in 1 .. Len(c) : i = 1 \/ (i - 1 \in 1 .. Len(c) - 1 /\ d[i - 1] = c[i])
  BY TailAt
<1> HIDE DEF d
<1>2. \A i \in 1 .. Len(d) : d[i].kind = "batch" => b /\ c[1].kind # "batch"
  BY <1>1 DEF BatchMatches
<1>3. ASSUME NEW i \in 1 .. Len(d), NEW k \in 1 .. Len(d), d[i].kind = "batch", d[k].kind = "batch"
      PROVE  i = k
  <2>1. i + 1 = k + 1 BY <1>1, <1>3 DEF BatchMatches
  <2> QED BY <2>1
<1>4. b /\ c[1].kind # "batch" => \E i \in 1 .. Len(d) : d[i].kind = "batch"
  BY <1>1 DEF BatchMatches
<1> QED BY <1>2, <1>3, <1>4 DEF BatchMatches, d

\* When no answer is to be heard and no run waits, some slot is free: only the
\* head of the chain runs.
LEMMA FreeSlot ==
  ASSUME AnswerInv, NewTurn, queued = 0
  PROVE  \E s \in Slots : full[s] = "free"
<1> SUFFICES ASSUME \A s \in Slots : full[s] # "free"
             PROVE  FALSE
  OBVIOUS
<1>1. \A s \in Slots : full[s] = "running"
  BY DEF AnswerInv, NewTurn, SlotsShape, SlotStates, Slots
<1>2. \A s \in Slots : \E i \in 1 .. Len(chain) : chain[i] = Run(s) /\ i = 1
  <2> TAKE s \in Slots
  <2>1. PICK i \in 1 .. Len(chain) : chain[i] = Run(s)
    BY <1>1 DEF AnswerInv, RunsMatch, RunOfSlot, Busy
  <2>2. chain[i].kind = "full" /\ chain[i].slot = s BY <2>1 DEF Run
  <2>3. i = 1 BY <1>1, <2>2 DEF AnswerInv, RunsMatch, SlotOfRun
  <2> QED BY <2>1, <2>3
<1>3. chain[1] = Run(1) /\ chain[1] = Run(2) BY <1>2 DEF Slots
<1> QED BY <1>3 DEF Run

\* The slots, the chain and the promise of the waiting run, with the slots as `was'.
Answers(was) ==
  /\ ChainShape /\ SlotsShape(was) /\ JoinedWaits(was) /\ queued \in 0 .. 3
  /\ RunsMatch(was, chain, phase) /\ BatchMatches(chain, batch /\ batchOn = 0)

\* A request is answered by a slot that is taken, and takes none away.
LEMMA RequestAnswers ==
  ASSUME NEW was, Answers(was), NEW on \in Slots, RequestFull(on, was), phase' = phase,
         queued = 0 => \E s \in Slots : was[s] = "free"
  PROVE  /\ ChainShape' /\ SlotsShape(full)' /\ JoinedWaits(full)' /\ queued' \in 0 .. 3
         /\ RunsMatch(full', chain', phase') /\ BatchMatches(chain', batch /\ batchOn = 0)
         /\ full'[on] # "free" /\ \A s \in Slots : was[s] # "free" => full'[s] # "free"
<1>1. CASE queued # 0 /\ on = queued /\ full' = was /\ UNCHANGED <<queued, chain>>
  BY <1>1 DEF Answers, ChainShape, SlotsShape, JoinedWaits, Waiting
<1>2. CASE queued = 0 /\ NewRun(on, was)
  <2>1. was[on] = "free" BY <1>2 DEF NewRun
  <2>2. was \in [Slots -> SlotStates] /\ \A s \in Slots : was[s] \notin Waiting
    BY <1>2 DEF Answers, SlotsShape, Slots
  <2>3. CASE full' = [was EXCEPT ![on] = "done"] /\ queued' = 0 /\ UNCHANGED chain
    <3>1. RunsMatch(full', chain, phase)
      BY <2>1, <2>2, <2>3, MatchSame DEF Answers, ChainShape, Busy
    <3> QED BY <2>2, <2>3, <3>1 DEF Answers, ChainShape, SlotsShape, JoinedWaits, SlotStates, Waiting
  <2>4. CASE full' = [was EXCEPT ![on] = "asleep"] /\ queued' = on /\ UNCHANGED chain
    <3>1. RunsMatch(full', chain, phase)
      BY <2>1, <2>2, <2>4, MatchSame DEF Answers, ChainShape, Busy
    <3> QED BY <2>2, <2>4, <3>1 DEF Answers, ChainShape, SlotsShape, JoinedWaits, SlotStates, Waiting, Slots
  <2>5. CASE full' = [was EXCEPT ![on] = "chained"] /\ queued' = on /\ chain' = Append(chain, Run(on))
    <3>1. RunsMatch(full', chain', phase)
      BY <2>1, <2>2, <2>5, MatchAppendRun DEF Answers, ChainShape, Busy
    <3>2. Run(on) \in Jobs /\ Run(on).kind # "batch" BY DEF Run, Jobs
    <3>3. BatchMatches(chain', (batch /\ batchOn = 0) \/ Run(on).kind = "batch")
      BY <2>5, <3>2, BatchMatchAppend DEF Answers, ChainShape
    <3>4. ((batch /\ batchOn = 0) \/ Run(on).kind = "batch") <=> (batch /\ batchOn = 0) BY <3>2
    <3>5. BatchMatches(chain', batch /\ batchOn = 0) BY <3>3, <3>4 DEF BatchMatches
    <3>6. ChainShape' BY <2>5, <3>2, AppendAt DEF Answers, ChainShape
    <3> QED BY <2>2, <2>5, <3>1, <3>5, <3>6 DEF SlotsShape, JoinedWaits, SlotStates, Waiting, Slots
  <2> QED BY <1>2, <2>3, <2>4, <2>5 DEF NewRun, Run
<1> QED BY <1>1, <1>2 DEF RequestFull

\* And so is an overflow, unless the breaker has tripped: then nobody waits.
LEMMA OverflowAnswers ==
  ASSUME NEW was, Answers(was), CallOverflow(was), phase' = phase,
         queued = 0 => \E s \in Slots : was[s] = "free"
  PROVE  /\ ChainShape' /\ SlotsShape(full)' /\ JoinedWaits(full)' /\ queued' \in 0 .. 3
         /\ RunsMatch(full', chain', phase') /\ BatchMatches(chain', batch /\ batchOn = 0)
         /\ over' => overOn' # 0 /\ full'[overOn'] # "free"
         /\ overOn' \in 0 .. 3
         /\ \A s \in Slots : was[s] # "free" => full'[s] # "free"
<1>1. CASE full' = was /\ over' = FALSE /\ overOn' = 0 /\ UNCHANGED <<queued, chain>>
  BY <1>1 DEF Answers, ChainShape, SlotsShape, JoinedWaits
<1>2. CASE \E s \in Slots : RequestFull(s, was) /\ overOn' = s
  <2>1. PICK s \in Slots : RequestFull(s, was) /\ overOn' = s BY <1>2
  <2>2. s # 0 /\ s \in 0 .. 3 BY DEF Slots
  <2> QED BY <2>1, <2>2, RequestAnswers
<1> QED BY <1>1, <1>2 DEF CallOverflow

promises == <<full, queued, batch, batchOn, over, overOn>>

\* The head of the chain begins, or reads the tree, and no slot tells.
LEMMA AnswerSame ==
  ASSUME AnswerInv, UNCHANGED <<chain, promises>>, phase' \in Phases,
         \/ phase' = phase
         \/ chain # <<>> /\ phase' # "wait" /\ (phase # "wait" \/ Job.kind # "full")
  PROVE  AnswerInv'
<1>1. RunsMatch(full, chain, phase')
  BY MatchSame, MatchTurn DEF AnswerInv, ChainShape, Job
<1> QED BY <1>1 DEF AnswerInv, promises, ChainShape, SlotsShape, JoinedWaits, HandlersWait

\* A manual run or a re-point enters the chain.
LEMMA AnswerAppend ==
  ASSUME AnswerInv, UNCHANGED <<phase, promises>>, NEW j \in Jobs, j.kind \in {"manual", "repoint"},
         chain' = Append(chain, j)
  PROVE  AnswerInv'
<1>1. RunsMatch(full, chain', phase) BY MatchAppend DEF AnswerInv, ChainShape
<1>2. ChainShape' BY AppendAt DEF AnswerInv, ChainShape
<1>3. BatchMatches(chain', (batch /\ batchOn = 0) \/ j.kind = "batch")
  BY BatchMatchAppend DEF AnswerInv, ChainShape
<1>4. BatchMatches(chain', batch /\ batchOn = 0) BY <1>3 DEF BatchMatches
<1> QED BY <1>1, <1>2, <1>4 DEF AnswerInv, promises, SlotsShape, JoinedWaits, HandlersWait

\* A job that is no run of the guard ends; of a batch the handler is told.
LEMMA AnswerEnded ==
  ASSUME AnswerInv, chain # <<>>, Job.kind # "full", Ended,
         UNCHANGED <<full, queued, batchOn, over, overOn>>,
         batch' <=> (batch /\ Job.kind # "batch")
  PROVE  AnswerInv'
<1>1. RunsMatch(full, chain', phase') BY MatchTail DEF AnswerInv, ChainShape, Ended, Job
<1>2. ChainShape' BY TailAt DEF AnswerInv, ChainShape, Ended, Phases
<1>3. BatchMatches(chain', (batch /\ batchOn = 0) /\ Job.kind # "batch")
  BY BatchMatchTail DEF AnswerInv, ChainShape, Ended, Job
<1>4. BatchMatches(chain', batch' /\ batchOn' = 0) BY <1>3 DEF BatchMatches
<1>5. Job.kind = "batch" => batch /\ batchOn = 0
  BY TailAt DEF AnswerInv, ChainShape, BatchMatches, Job
<1>6. HandlersWait' BY <1>5 DEF AnswerInv, HandlersWait
<1> QED BY <1>1, <1>2, <1>4, <1>6 DEF AnswerInv, SlotsShape, JoinedWaits

\* A run of the guard ends, or is refused: its slot says so.
LEMMA AnswerFull ==
  ASSUME AnswerInv, chain # <<>>, Job.kind = "full", FullAnswered,
         UNCHANGED <<batch, batchOn, over, overOn>>
  PROVE  AnswerInv'
<1> USE DEF FullAnswered, Ended, Job
<1>1. RunsMatch(full', chain', phase')
  BY MatchTailRun DEF AnswerInv, ChainShape, SlotsShape
<1>2. ChainShape' BY TailAt DEF AnswerInv, ChainShape, Phases
<1>3. BatchMatches(chain', (batch /\ batchOn = 0) /\ Job.kind # "batch")
  BY BatchMatchTail DEF AnswerInv, ChainShape
<1>4. BatchMatches(chain', batch' /\ batchOn' = 0) BY <1>3 DEF BatchMatches
<1>5. Job.slot \in Slots BY TailAt, FullIsRun DEF AnswerInv, ChainShape
<1>6. HandlersWait' BY <1>5 DEF AnswerInv, HandlersWait, ClearSlot, SlotsShape, Slots
<1>7. SlotsShape(full)' /\ JoinedWaits(full)'
  BY <1>5 DEF AnswerInv, SlotsShape, JoinedWaits, ClearSlot, SlotStates, Waiting, HandlersWait, Slots
<1> QED BY <1>1, <1>2, <1>4, <1>6, <1>7 DEF AnswerInv

\* The turn of a run of the guard: its slot is running, and published no more.
LEMMA AnswerStarts ==
  ASSUME AnswerInv, FullStarts
  PROVE  AnswerInv'
<1> USE DEF FullStarts, Begun, Turn, Job, watch
<1>1. RunsMatch(full', chain', phase')
  BY MatchBegin DEF AnswerInv, ChainShape, SlotsShape
<1>2. ChainShape' BY DEF AnswerInv, ChainShape, Phases
<1>3. Job.slot \in Slots BY TailAt, FullIsRun DEF AnswerInv, ChainShape
<1>4. HandlersWait' BY <1>3 DEF AnswerInv, HandlersWait, ClearSlot, SlotsShape, Slots
<1>5. SlotsShape(full)' /\ JoinedWaits(full)'
  BY <1>3 DEF AnswerInv, SlotsShape, JoinedWaits, ClearSlot, SlotStates, Waiting, HandlersWait, Slots
<1> QED BY <1>1, <1>2, <1>4, <1>5 DEF AnswerInv

\* The sleepers wake.
LEMMA AnswerDue ==
  ASSUME AnswerInv, UNCHANGED <<chain, phase, queued, batch, batchOn, over, overOn>>,
         full' = [s \in Slots |-> IF full[s] = "asleep" THEN "due" ELSE full[s]]
  PROVE  AnswerInv'
<1>1. RunsMatch(full', chain, phase)
  BY MatchSame DEF AnswerInv, ChainShape, Busy
<1>2. HandlersWait' BY DEF AnswerInv, HandlersWait, Slots
<1>3. SlotsShape(full)' /\ JoinedWaits(full)'
  BY DEF AnswerInv, SlotsShape, JoinedWaits, SlotStates, Waiting, HandlersWait, Slots
<1> QED BY <1>1, <1>2, <1>3 DEF AnswerInv, ChainShape

\* A sleeper enters the chain, or is answered behind the trip.
LEMMA AnswerWake ==
  ASSUME AnswerInv, NEW s \in Slots, Wake(s)
  PROVE  AnswerInv'
<1> USE DEF Wake, watch
<1>0. full[s] = "due" /\ queued = s BY DEF AnswerInv, SlotsShape, Waiting
<1>1. CASE full' = [full EXCEPT ![s] = "done"] /\ queued' = ClearSlot(s) /\ UNCHANGED chain
  <2>1. RunsMatch(full', chain, phase)
    BY <1>0, <1>1, MatchSame DEF AnswerInv, ChainShape, SlotsShape, Busy
  <2>2. HandlersWait' BY <1>1 DEF AnswerInv, HandlersWait, ClearSlot, SlotsShape, Slots
  <2>3. SlotsShape(full)' /\ JoinedWaits(full)'
    BY <1>0, <1>1 DEF AnswerInv, SlotsShape, JoinedWaits, ClearSlot, SlotStates, Waiting, Slots
  <2> QED BY <1>1, <2>1, <2>2, <2>3 DEF AnswerInv, ChainShape
<1>2. CASE full' = [full EXCEPT ![s] = "chained"] /\ UNCHANGED queued /\ chain' = Append(chain, Run(s))
  <2>1. RunsMatch(full', chain', phase)
    BY <1>0, <1>2, MatchAppendRun DEF AnswerInv, ChainShape, SlotsShape, Busy
  <2>2. Run(s) \in Jobs /\ Run(s).kind # "batch" BY DEF Run, Jobs
  <2>3. BatchMatches(chain', (batch /\ batchOn = 0) \/ Run(s).kind = "batch")
    BY <1>2, <2>2, BatchMatchAppend DEF AnswerInv, ChainShape
  <2>4. BatchMatches(chain', batch /\ batchOn = 0) BY <2>2, <2>3 DEF BatchMatches
  <2>5. ChainShape' BY <1>2, <2>2, AppendAt DEF AnswerInv, ChainShape
  <2>6. HandlersWait' BY <1>2 DEF AnswerInv, HandlersWait, SlotsShape, Slots
  <2>7. SlotsShape(full)' /\ JoinedWaits(full)'
    BY <1>0, <1>2 DEF AnswerInv, SlotsShape, JoinedWaits, SlotStates, Waiting, Slots
  <2> QED BY <2>1, <2>4, <2>5, <2>6, <2>7 DEF AnswerInv
<1> QED BY <1>1, <1>2 DEF Run

\* The buffer overflows: a rescan is asked for, or is in flight already.
LEMMA AnswerOverflows ==
  ASSUME AnswerInv, NewTurn, Overflows, phase' = phase
  PROVE  AnswerInv'
<1>1. Answers(full) BY DEF Answers, AnswerInv, HandlersWait
<1>2. CASE UNCHANGED <<over, overOn>> /\ NoRequest
  BY <1>2, AnswerSame DEF Overflows, NoRequest, promises, AnswerInv, ChainShape
<1>3. CASE CallOverflow(full)
  <2>1. /\ ChainShape' /\ SlotsShape(full)' /\ JoinedWaits(full)' /\ queued' \in 0 .. 3
        /\ RunsMatch(full', chain', phase') /\ BatchMatches(chain', batch /\ batchOn = 0)
        /\ over' => overOn' # 0 /\ full'[overOn'] # "free"
        /\ overOn' \in 0 .. 3
        /\ \A s \in Slots : full[s] # "free" => full'[s] # "free"
    BY <1>1, <1>3, FreeSlot, OverflowAnswers
  <2>2. HandlersWait' BY <2>1 DEF Overflows, AnswerInv, HandlersWait, Slots
  <2> QED BY <2>1, <2>2 DEF Overflows, AnswerInv
<1> QED BY <1>2, <1>3 DEF Overflows

\* A change is buffered, or overflows.
LEMMA AnswerChange ==
  ASSUME AnswerInv, (\E f \in Files : Edit(f)) \/ (\E files \in SUBSET Files : Overflow(files))
  PROVE  AnswerInv'
<1>1. CASE NewTurn /\ Overflows /\ phase' = phase
  BY <1>1, AnswerOverflows
<1>2. CASE NoRequest /\ UNCHANGED <<phase, batch, batchOn, over, overOn>>
  BY <1>2, AnswerSame DEF NoRequest, promises, AnswerInv, ChainShape
<1> QED BY <1>1, <1>2 DEF Edit, Overflow

\* A flush drops the buffer behind a trip, asks for a run or becomes a batch.
LEMMA AnswerFlush ==
  ASSUME AnswerInv, InputShape, Flush
  PROVE  AnswerInv'
<1> USE DEF Flush
<1>0. batchOn = 0 /\ ~batch BY DEF AnswerInv, HandlersWait
<1>1. CASE NoRequest /\ UNCHANGED <<batch, batchOn>>
  BY <1>1, AnswerSame DEF NoRequest, promises, AnswerInv, ChainShape
<1>2. CASE batch' = TRUE /\ \E s \in Slots : RequestFull(s, full) /\ batchOn' = s
  <2>1. PICK s \in Slots : RequestFull(s, full) /\ batchOn' = s BY <1>2
  <2>2. Answers(full) BY DEF Answers, AnswerInv, HandlersWait
  <2>3. /\ ChainShape' /\ SlotsShape(full)' /\ JoinedWaits(full)' /\ queued' \in 0 .. 3
        /\ RunsMatch(full', chain', phase') /\ BatchMatches(chain', batch /\ batchOn = 0)
        /\ full'[s] # "free" /\ \A x \in Slots : full[x] # "free" => full'[x] # "free"
    BY <2>1, <2>2, FreeSlot, RequestAnswers
  <2>4. s # 0 /\ s \in 0 .. 3 BY DEF Slots
  <2>5. BatchMatches(chain', batch' /\ batchOn' = 0)
    BY <1>0, <2>1, <2>3, <2>4 DEF BatchMatches
  <2>6. HandlersWait' BY <1>2, <2>1, <2>3, <2>4 DEF AnswerInv, HandlersWait, Slots
  <2> QED BY <2>3, <2>5, <2>6 DEF AnswerInv
<1>3. CASE /\ batch' = TRUE /\ chain' = Append(chain, [kind |-> "batch", files |-> pending])
           /\ UNCHANGED <<batchOn, queued, full>> /\ pending \in SUBSET Files
  <2> DEFINE j == [kind |-> "batch", files |-> pending]
  <2>1. j \in Jobs /\ j.kind = "batch" BY <1>3 DEF Jobs
  <2>2. RunsMatch(full, chain', phase) BY <1>3, <2>1, MatchAppend DEF AnswerInv, ChainShape
  <2>3. ChainShape' BY <1>3, <2>1, AppendAt DEF AnswerInv, ChainShape
  <2>4. BatchMatches(chain', (batch /\ batchOn = 0) \/ j.kind = "batch")
    BY <1>0, <1>3, <2>1, BatchMatchAppend DEF AnswerInv, ChainShape
  <2>5. BatchMatches(chain', batch' /\ batchOn' = 0)
    BY <1>0, <1>3, <2>1, <2>4 DEF BatchMatches
  <2>6. HandlersWait' BY <1>0, <1>3 DEF AnswerInv, HandlersWait
  <2> QED BY <1>3, <2>2, <2>3, <2>5, <2>6 DEF AnswerInv, SlotsShape, JoinedWaits
<1> QED BY <1>1, <1>2, <1>3 DEF InputShape

\* Only records of changed files are buffered, and only keys of branches tracked.
LEMMA InputStep ==
  ASSUME InputShape, Next
  PROVE  InputShape'
<1>1. ASSUME NEW f \in Files, Edit(f) PROVE InputShape'
  BY <1>1 DEF Edit, Overflows, InputShape
<1>2. ASSUME NEW files \in SUBSET Files, Overflow(files) PROVE InputShape'
  BY <1>2 DEF Overflow, Overflows, InputShape
<1>3. CASE Flush BY <1>3 DEF Flush, InputShape
<1>4. CASE UNCHANGED <<pending, head>> BY <1>4 DEF InputShape
<1>5. ASSUME NEW s \in Slots, Wake(s) \/ Settle(s) PROVE UNCHANGED <<pending, head>>
  BY <1>5 DEF Wake, Settle, watch
<1>6. ASSUME Failing PROVE UNCHANGED <<pending, head>>
  BY <1>6 DEF Failing, BatchFails, BatchDone, FullFails, RepointUnfreshened, RepointAborts,
         RepointThrows, RepointDone, watch
<1>7. ASSUME ManualStarts \/ ManualEnds \/ PollClaims \/ PollNoKey \/ PollTrips \/ BackoffEnds
               \/ RepointStarts \/ RepointSwaps
      PROVE UNCHANGED <<pending, head>>
  BY <1>7 DEF ManualStarts, ManualEnds, PollClaims, PollNoKey, PollTrips, BackoffEnds,
         RepointStarts, RepointSwaps, RepointDone, watch
<1>8. ASSUME CoolDown \/ FlushDeferred \/ ReadTree \/ BatchStarts \/ BatchOk \/ FullStarts
               \/ FullRefused \/ FullOk
      PROVE UNCHANGED <<pending, head>>
  BY <1>8 DEF CoolDown, FlushDeferred, ReadTree, BatchStarts, BatchOk, BatchDone, FullStarts,
         FullRefused, FullOk, watch
<1>9. ASSUME Manual \/ Reset \/ WindowRolls PROVE UNCHANGED <<pending, head>>
  BY <1>9 DEF Manual, Reset, WindowRolls, watch
<1>10. ASSUME (\E b \in Branches : Checkout(b)) \/ HeadUnreadable PROVE InputShape'
  BY <1>10 DEF Checkout, HeadUnreadable, watch, InputShape
<1> QED BY <1>1, <1>2, <1>3, <1>4, <1>5, <1>6, <1>7, <1>8, <1>9, <1>10 DEF Next, Environment, Daemon

\* An answer frees its slot and tells those who waited for it; one of them may
\* ask for another run.
LEMMA AnswerSettle ==
  ASSUME AnswerInv, NEW s \in Slots, Settle(s)
  PROVE  AnswerInv'
<1> DEFINE freed == [full EXCEPT ![s] = "free"]
<1> USE DEF Settle
<1>1. s # 0 /\ full[s] = "done" /\ full \in [Slots -> SlotStates] /\ queued # s
  BY DEF AnswerInv, SlotsShape, Slots, JoinedWaits, Waiting
<1>2. freed[s] = "free" /\ \A x \in Slots : x # s => freed[x] = full[x]
  BY <1>1
<1>3. SlotsShape(freed) BY <1>1 DEF AnswerInv, SlotsShape, SlotStates, Waiting
<1>4. JoinedWaits(freed) BY <1>1 DEF AnswerInv, JoinedWaits, HandlersWait, Slots
<1> HIDE DEF freed
<1>5. RunsMatch(freed, chain, phase) BY <1>1, <1>2, MatchSame DEF AnswerInv, ChainShape, Busy
<1>6. Answers(freed) BY <1>3, <1>4, <1>5 DEF Answers, AnswerInv, HandlersWait
<1>7. /\ batch' <=> (batch /\ batchOn # s)
      /\ batchOn' = IF batchOn = s THEN 0 ELSE batchOn
      /\ phase' = phase
  OBVIOUS
<1>8. ASSUME NEW c, BatchMatches(c, batch /\ batchOn = 0)
      PROVE  BatchMatches(c, batch' /\ batchOn' = 0)
  <2>1. (batch /\ batchOn = 0) <=> (batch' /\ batchOn' = 0)
    BY <1>1, <1>7 DEF AnswerInv, HandlersWait
  <2> QED BY <1>8, <2>1 DEF BatchMatches
<1>9. CASE CallOverflow(freed)
  <2>1. /\ ChainShape' /\ SlotsShape(full)' /\ JoinedWaits(full)' /\ queued' \in 0 .. 3
        /\ RunsMatch(full', chain', phase') /\ BatchMatches(chain', batch /\ batchOn = 0)
        /\ over' => overOn' # 0 /\ full'[overOn'] # "free"
        /\ overOn' \in 0 .. 3
        /\ \A x \in Slots : freed[x] # "free" => full'[x] # "free"
    BY <1>2, <1>6, <1>7, <1>9, OverflowAnswers
  <2>2. HandlersWait' BY <1>2, <1>7, <2>1 DEF AnswerInv, HandlersWait, Slots
  <2> QED BY <1>8, <2>1, <2>2 DEF AnswerInv
<1>10. CASE /\ over' <=> (over /\ overOn # s)
            /\ overOn' = IF overOn = s THEN 0 ELSE overOn
            /\ full' = freed /\ UNCHANGED <<queued, chain>>
  <2>1. HandlersWait' BY <1>2, <1>7, <1>10 DEF AnswerInv, HandlersWait, Slots
  <2>2. BatchMatches(chain', batch' /\ batchOn' = 0) BY <1>8, <1>10 DEF AnswerInv
  <2>3. ChainShape' BY <1>7, <1>10 DEF AnswerInv, ChainShape
  <2>4. SlotsShape(full)' /\ JoinedWaits(full)' BY <1>3, <1>4, <1>10 DEF SlotsShape, JoinedWaits
  <2> QED BY <1>5, <1>7, <1>10, <2>1, <2>2, <2>3, <2>4 DEF AnswerInv
<1> QED BY <1>9, <1>10 DEF freed

\* Every step answers what it takes, and takes only what will be answered.
LEMMA AnswerStep ==
  ASSUME AnswerInv, InputShape, Next
  PROVE  AnswerInv'
<1> USE DEF watch, guard, breaker, rate, work, promises
<1>0. phase \in Phases BY DEF AnswerInv, ChainShape
<1>1. ASSUME (\E f \in Files : Edit(f)) \/ (\E files \in SUBSET Files : Overflow(files))
      PROVE AnswerInv'
  BY <1>1, AnswerChange
<1>2. ASSUME \/ \E b \in Branches : Checkout(b)
             \/ HeadUnreadable \/ WindowRolls \/ FlushDeferred \/ PollNoKey \/ PollTrips \/ BackoffEnds
      PROVE AnswerInv'
  <2>1. UNCHANGED <<chain, promises, phase>>
    BY <1>2 DEF Checkout, HeadUnreadable, WindowRolls, FlushDeferred, PollNoKey, PollTrips, BackoffEnds
  <2> QED BY <1>0, <2>1, AnswerSame
<1>3. CASE Manual
  <2>1. [kind |-> "manual"] \in Jobs BY DEF Jobs
  <2> QED BY <1>3, <2>1, AnswerAppend DEF Manual
<1>4. CASE PollClaims
  <2>1. head \in Branches BY <1>4 DEF PollClaims, InputShape
  <2>2. [kind |-> "repoint", key |-> head] \in Jobs BY <2>1 DEF Jobs
  <2> QED BY <1>4, <2>2, AnswerAppend DEF PollClaims
<1>5. CASE Reset \/ CoolDown
  BY <1>5, AnswerDue DEF Reset, CoolDown
<1>6. CASE BatchFails \/ BatchOk
  BY <1>6, AnswerEnded DEF BatchFails, BatchOk, BatchDone, Running, Finishing
<1>7. CASE FullFails \/ FullOk \/ FullRefused
  BY <1>7, AnswerFull DEF FullFails, FullOk, FullRefused, Running, Finishing, Turn
<1>8. CASE ManualEnds
  <2>1. chain # <<>> /\ Job.kind = "manual" /\ Ended /\ UNCHANGED promises
    BY <1>8 DEF ManualEnds, Running, Finishing
  <2> QED BY <2>1, AnswerEnded
<1>9. CASE RepointUnfreshened \/ RepointAborts \/ RepointThrows \/ RepointSwaps
  <2>1. chain # <<>> /\ Job.kind = "repoint" /\ Ended /\ UNCHANGED promises
    BY <1>9 DEF RepointUnfreshened, RepointAborts, RepointThrows, RepointSwaps, RepointDone, Running,
           Finishing, Turn
  <2> QED BY <2>1, AnswerEnded
<1>10. CASE Flush BY <1>10, AnswerFlush
<1>11. ASSUME NEW s \in Slots, Wake(s) PROVE AnswerInv' BY <1>11, AnswerWake
<1>12. ASSUME NEW s \in Slots, Settle(s) PROVE AnswerInv' BY <1>12, AnswerSettle
<1>13. CASE ReadTree
  <2>1. chain # <<>> BY <1>13 DEF ReadTree, AnswerInv, ChainShape
  <2> QED BY <1>13, <2>1, AnswerSame DEF ReadTree, Phases
<1>14. CASE BatchStarts \/ ManualStarts \/ RepointStarts
  <2>1. chain # <<>> /\ Job.kind # "full" /\ phase' = "unread" /\ UNCHANGED <<chain, promises>>
    BY <1>14 DEF BatchStarts, ManualStarts, RepointStarts, Begun, Turn
  <2> QED BY <2>1, AnswerSame DEF Phases
<1>15. CASE FullStarts BY <1>15, AnswerStarts
<1> QED
  BY <1>1, <1>2, <1>3, <1>4, <1>5, <1>6, <1>7, <1>8, <1>9, <1>10, <1>11, <1>12, <1>13, <1>14, <1>15
     DEF Next, Environment, Failing, Daemon

\* At the start nobody waits, and nothing runs.
LEMMA InitAnswers ==
  ASSUME Init
  PROVE  AnswerInv /\ InputShape
<1> USE DEF Init
<1>1. ChainShape BY DEF ChainShape, Phases
<1>2. SlotsShape(full) /\ JoinedWaits(full)
  BY DEF SlotsShape, JoinedWaits, SlotStates, Waiting
<1>3. RunsMatch(full, chain, phase) BY DEF RunsMatch, SlotOfRun, RunOfSlot, Busy
<1>4. BatchMatches(chain, batch /\ batchOn = 0) BY DEF BatchMatches
<1>5. HandlersWait /\ InputShape BY DEF HandlersWait, InputShape
<1> QED BY <1>1, <1>2, <1>3, <1>4, <1>5 DEF AnswerInv

\* Every promise requestFull handed out belongs to a run that will answer it, and
\* a handler in flight waits for such a run, for any files, caps and failures.
THEOREM NobodyEverWaitsForNothing == Spec => []NobodyWaitsForNothing
<1> DEFINE I == AnswerInv /\ InputShape
<1>1. Init => I BY InitAnswers
<1>2. I /\ [Next]_vars => I'
  <2>1. I /\ Next => I' BY AnswerStep, InputStep
  <2>2. ASSUME I, UNCHANGED vars PROVE I'
    <3>1. UNCHANGED <<chain, promises, phase, pending, head>>
      BY <2>2 DEF vars, watch, guard, work, promises
    <3> QED BY <2>2, <3>1, AnswerSame DEF InputShape, AnswerInv, ChainShape
  <2> QED BY <2>1, <2>2
<1>3. I => NobodyWaitsForNothing
  <2> SUFFICES ASSUME I PROVE NobodyWaitsForNothing OBVIOUS
  <2>1. batch /\ batchOn = 0 => \E i \in 1 .. Len(chain) : chain[i].kind = "batch"
    BY DEF AnswerInv, BatchMatches
  <2>2. \A s \in Slots : full[s] \in {"chained", "running"} =>
          \E i \in 1 .. Len(chain) : chain[i] = [kind |-> "full", slot |-> s]
    BY DEF AnswerInv, RunsMatch, RunOfSlot, Busy, Run
  <2> QED BY <2>1, <2>2 DEF AnswerInv, HandlersWait, NobodyWaitsForNothing
<1> QED BY <1>1, <1>2, <1>3, PTL DEF Spec

-----------------------------------------------------------------------------
(* Changes: nothing that the served index is stale for is forgotten.          *)

StaleShape == stale \in [Branches -> SUBSET Files] /\ served \in Branches

\* What changed after a parse read the tree is stale in the served index.
MissedIsStale ==
  /\ phase # "read" => missed = {}
  /\ missed \subseteq stale[served]

\* The chain holds at most the re-point that the poller has claimed, and that
\* is to another branch than the served one.
RepointMatches(c, claimed, b) ==
  /\ \A i \in 1 .. Len(c) : c[i].kind = "repoint" => claimed /\ c[i].key # b
  /\ \A i, j \in 1 .. Len(c) : c[i].kind = "repoint" /\ c[j].kind = "repoint" => i = j

LeftIsLeft == left \in [Events -> Nat] /\ \A e \in Events : left[e] <= Budget[e]

\* What a step leaves of the events still to come.
LEMMA LeftStep ==
  ASSUME LeftIsLeft, UNCHANGED left \/ \E e \in Events : Happens(e)
  PROVE  LeftIsLeft' /\ (Disturbed => Disturbed')
<1>1. CASE UNCHANGED left BY <1>1 DEF LeftIsLeft, Disturbed
<1>2. ASSUME NEW e \in Events, Happens(e) PROVE LeftIsLeft' /\ (Disturbed => Disturbed')
  <2>1. left' \in [Events -> Nat] BY <1>2 DEF LeftIsLeft, Happens
  <2>2. \A x \in Events : left'[x] \in Nat /\ left[x] \in Nat /\ Budget[x] \in Nat /\ left'[x] <= left[x]
    BY <1>2, <2>1, ControlAssumption DEF LeftIsLeft, Happens
  <2>3. \A x \in Events : left'[x] <= Budget[x] BY <2>2 DEF LeftIsLeft
  <2>4. Disturbed => Disturbed' BY <2>2 DEF Disturbed, Events
  <2> QED BY <2>1, <2>3, <2>4 DEF LeftIsLeft
<1> QED BY <1>1, <1>2

\* A failure shows.
LEMMA FailureShows ==
  ASSUME LeftIsLeft, NEW e \in {"fail", "abort", "throw", "reset"}, Happens(e)
  PROVE  Disturbed'
<1>1. e \in Events BY DEF Events
<1>2. left'[e] = left[e] - 1 /\ left[e] \in Nat /\ Budget[e] \in Nat /\ left[e] <= Budget[e]
  BY <1>1, ControlAssumption DEF LeftIsLeft, Happens
<1> QED BY <1>2 DEF Disturbed

\* A step leaves the chain, adds a job, or ends the first.
RepointsKept == chain' = chain /\ UNCHANGED <<repointing, served>>
RepointsJoined ==
  \E j \in Jobs : /\ chain' = Append(chain, j) /\ UNCHANGED served
                  /\ \/ j.kind # "repoint" /\ UNCHANGED repointing
                     \/ ~repointing /\ repointing' /\ j.kind = "repoint" /\ j.key # served
RepointsEnded ==
  /\ chain # <<>> /\ chain' = Tail(chain)
  /\ Job.kind = "repoint" \/ UNCHANGED <<repointing, served>>

\* The chain holds a re-point only while the poller has claimed it.
LEMMA RepointStep ==
  ASSUME chain \in Seq(Jobs), RepointMatches(chain, repointing, served),
         RepointsKept \/ RepointsJoined \/ RepointsEnded
  PROVE  RepointMatches(chain', repointing', served')
<1>1. CASE RepointsKept BY <1>1 DEF RepointsKept, RepointMatches
<1>2. CASE RepointsJoined
  <2>1. PICK j \in Jobs : /\ chain' = Append(chain, j) /\ UNCHANGED served
                          /\ \/ j.kind # "repoint" /\ UNCHANGED repointing
                             \/ ~repointing /\ repointing' /\ j.kind = "repoint" /\ j.key # served
    BY <1>2 DEF RepointsJoined
  <2>2. /\ Len(chain) \in Nat /\ Len(chain') = Len(chain) + 1
        /\ \A i \in 1 .. Len(chain) : chain'[i] = chain[i] /\ i \in 1 .. Len(chain) + 1
        /\ chain'[Len(chain) + 1] = j
        /\ \A i \in 1 .. Len(chain) + 1 : i \in 1 .. Len(chain) \/ i = Len(chain) + 1
    BY <2>1, AppendAt
  <2>3. \A i \in 1 .. Len(chain') : chain'[i].kind = "repoint" => repointing' /\ chain'[i].key # served'
    BY <2>1, <2>2 DEF RepointMatches
  <2>4. \A i, k \in 1 .. Len(chain') : chain'[i].kind = "repoint" /\ chain'[k].kind = "repoint" => i = k
    BY <2>1, <2>2 DEF RepointMatches
  <2> QED BY <2>3, <2>4 DEF RepointMatches
<1>3. CASE RepointsEnded
  <2>1. /\ Len(chain) \in Nat /\ Len(chain') = Len(chain) - 1 /\ 1 \in 1 .. Len(chain)
        /\ \A i \in 1 .. Len(chain) - 1 : chain'[i] = chain[i + 1] /\ i + 1 \in 1 .. Len(chain) /\ i + 1 # 1
    BY <1>3, TailAt DEF RepointsEnded
  <2>2. \A i \in 1 .. Len(chain') : chain'[i].kind = "repoint" => Job.kind # "repoint"
    BY <2>1 DEF RepointMatches, Job
  <2>3. \A i \in 1 .. Len(chain') : chain'[i].kind = "repoint" => repointing' /\ chain'[i].key # served'
    BY <1>3, <2>1, <2>2 DEF RepointMatches, RepointsEnded
  <2>4. ASSUME NEW i \in 1 .. Len(chain'), NEW k \in 1 .. Len(chain'),
               chain'[i].kind = "repoint", chain'[k].kind = "repoint"
        PROVE  i = k
    <3>1. i + 1 = k + 1 BY <2>1, <2>4 DEF RepointMatches
    <3> QED BY <3>1
  <2> QED BY <2>3, <2>4 DEF RepointMatches
<1> QED BY <1>1, <1>2, <1>3

\* What a parse may have missed is noted until it ends.
LEMMA MissedStep ==
  ASSUME StaleShape, MissedIsStale, served' \in Branches,
         \/ Ended
         \/ Begun /\ phase = "wait"
         \/ ReadTree
         \/ UNCHANGED <<phase, missed, stale, served>>
         \/ UNCHANGED <<phase, served>> /\ \E files \in SUBSET Files : Changed(files)
  PROVE  MissedIsStale'
<1>1. CASE Ended \/ (Begun /\ phase = "wait") BY <1>1 DEF Ended, Begun, MissedIsStale
<1>2. CASE ReadTree BY <1>2 DEF ReadTree, MissedIsStale, index
<1>3. CASE UNCHANGED <<phase, missed, stale, served>> BY <1>3 DEF MissedIsStale
<1>4. ASSUME UNCHANGED <<phase, served>>, NEW files \in SUBSET Files, Changed(files)
      PROVE  MissedIsStale'
  BY <1>4 DEF Changed, MissedIsStale, StaleShape
<1> QED BY <1>1, <1>2, <1>3, <1>4

\* A change is in somebody's plans.
Read(f) == \E i \in 1 .. Len(chain) : WillRead(i, f)
Sleeps == \E s \in Slots : full[s] \in {"asleep", "due"}
Planned(f) == f \in pending \/ again \/ Read(f) \/ Sleeps \/ tripped # "no"

\* A job that reads f goes on doing so while others join the chain.
LEMMA ReadStays ==
  ASSUME chain \in Seq(Jobs), NEW f, Read(f), served' = served, f \in missed' => f \in missed,
         chain' = chain \/ \E j \in Jobs : chain' = Append(chain, j),
         phase' = phase \/ f \notin missed'
  PROVE  Read(f)'
<1>1. PICK i \in 1 .. Len(chain) : WillRead(i, f) BY DEF Read
<1>2. i \in 1 .. Len(chain') /\ chain'[i] = chain[i] BY AppendAt
<1>3. WillRead(i, f)' BY <1>1, <1>2 DEF WillRead
<1> QED BY <1>2, <1>3 DEF Read

\* A job further back reads f when the head has ended; a re-point at the head is
\* the only one.
LEMMA ReadEnds ==
  ASSUME chain \in Seq(Jobs), NEW f, NEW i \in 1 .. Len(chain), i # 1, WillRead(i, f), Ended,
         RepointMatches(chain, repointing, served),
         served' = served \/ Job.kind = "repoint"
  PROVE  Read(f)'
<1>0. chain # <<>> OBVIOUS
<1>1. /\ Len(chain) \in Nat /\ Len(chain') = Len(chain) - 1 /\ 1 \in 1 .. Len(chain)
      /\ i - 1 \in 1 .. Len(chain) - 1 /\ chain'[i - 1] = chain[i]
  BY <1>0, TailAt DEF Ended
<1>2. chain[i].kind = "repoint" => served' = served
  BY <1>1 DEF RepointMatches, Job
<1>3. phase' = "wait" BY DEF Ended
<1>4. WillRead(i - 1, f)' BY <1>1, <1>2, <1>3 DEF WillRead
<1> QED BY <1>1, <1>4 DEF Read

\* A head that has still to read reads everything, or the files of its batch.
LEMMA HeadReads ==
  ASSUME chain' \in Seq(Jobs), chain' # <<>>, phase' # "read", NEW f,
         \/ chain'[1].kind \in {"full", "manual"}
         \/ chain'[1].kind = "batch" /\ f \in chain'[1].files
  PROVE  Read(f)'
<1>1. 1 \in 1 .. Len(chain') BY TailAt
<1>2. WillRead(1, f)' BY DEF WillRead
<1> QED BY <1>1, <1>2 DEF Read

\* A job that joins the chain reads its files, or all of them.
LEMMA JoinedReads ==
  ASSUME ChainShape, NEW j \in Jobs, chain' = Append(chain, j), phase' = phase, NEW f,
         j.kind \in {"full", "manual"} \/ (j.kind = "batch" /\ f \in j.files)
  PROVE  Read(f)'
<1>1. PICK n \in Nat : n = Len(chain) + 1 BY DEF ChainShape
<1>2. n \in 1 .. Len(chain') /\ chain'[n] = j BY <1>1, AppendAt DEF ChainShape
<1>3. n = 1 => phase = "wait" BY <1>1 DEF ChainShape
<1>4. WillRead(n, f)' BY <1>2, <1>3 DEF WillRead
<1> QED BY <1>2, <1>4 DEF Read

\* A request for a run is in the plans for every file.
LEMMA RequestPlans ==
  ASSUME NEW was, Answers(was), NEW on \in Slots, RequestFull(on, was), phase' = phase,
         tripped' = tripped, NEW f, queued = 0 => \E s \in Slots : was[s] = "free"
  PROVE  Planned(f)'
<1>1. CASE queued # 0 /\ on = queued /\ full' = was /\ chain' = chain
  <2>1. full'[on] \in {"asleep", "due"} \/ full'[on] = "chained"
    BY <1>1 DEF Answers, JoinedWaits, Waiting
  <2>2. CASE full'[on] = "chained"
    <3>1. PICK i \in 1 .. Len(chain) : chain[i] = Run(on)
      BY <1>1, <2>2 DEF Answers, RunsMatch, RunOfSlot, Busy
    <3>2. chain[i].kind = "full" /\ chain[i].slot = on BY <3>1 DEF Run
    <3>3. i > 1 \/ phase = "wait" BY <1>1, <2>2, <3>2 DEF Answers, RunsMatch, SlotOfRun
    <3>4. WillRead(i, f)' BY <1>1, <3>2, <3>3 DEF WillRead
    <3> QED BY <1>1, <3>4 DEF Planned, Read
  <2> QED BY <2>1, <2>2 DEF Planned, Sleeps
<1>2. CASE queued = 0 /\ NewRun(on, was)
  <2>1. was[on] = "free" /\ was \in [Slots -> SlotStates] BY <1>2 DEF NewRun, Answers, SlotsShape
  <2>2. CASE tripped # "no" BY <2>2 DEF Planned
  <2>3. CASE full' = [was EXCEPT ![on] = "asleep"]
    BY <2>1, <2>3 DEF Planned, Sleeps
  <2>4. CASE chain' = Append(chain, Run(on))
    <3>1. Run(on) \in Jobs /\ Run(on).kind = "full" BY DEF Run, Jobs
    <3> QED BY <2>4, <3>1, JoinedReads DEF Answers, Planned
  <2> QED BY <1>2, <2>2, <2>3, <2>4 DEF NewRun, Run
<1> QED BY <1>1, <1>2 DEF RequestFull

\* And so is an overflow that asks for one.
LEMMA OverflowPlans ==
  ASSUME NEW was, Answers(was), CallOverflow(was), phase' = phase,
         tripped' = tripped, NEW f, queued = 0 => \E s \in Slots : was[s] = "free"
  PROVE  Planned(f)'
<1>1. CASE tripped # "no" BY <1>1 DEF Planned
<1>2. CASE \E s \in Slots : RequestFull(s, was) BY <1>2, RequestPlans
<1> QED BY <1>1, <1>2 DEF CallOverflow

AllPlanned == \A f \in stale[served] : Planned(f)

\* What a step starts from while nothing has failed.
Steady == /\ AnswerInv /\ InputShape /\ StaleShape /\ MissedIsStale
          /\ RepointMatches(chain, repointing, served)
          /\ AllPlanned

\* Nothing the plans are made of has changed, but a trip.
LEMMA PlansSame ==
  ASSUME Steady, UNCHANGED <<pending, again, chain, phase, missed, served, full>>,
         stale'[served] = stale[served], tripped # "no" => tripped' # "no"
  PROVE  AllPlanned'
<1> SUFFICES ASSUME NEW f \in stale[served] PROVE Planned(f)'
  BY DEF AllPlanned
<1>1. Planned(f) BY DEF Steady, AllPlanned
<1>2. Read(f) => Read(f)' BY ReadStays DEF Steady, AnswerInv, ChainShape
<1> QED BY <1>1, <1>2 DEF Planned, Sleeps

\* A job joins the chain.
LEMMA PlansJoined ==
  ASSUME Steady, UNCHANGED <<pending, again, phase, missed, stale, served, full, tripped>>,
         \E j \in Jobs : chain' = Append(chain, j)
  PROVE  AllPlanned'
<1> SUFFICES ASSUME NEW f \in stale[served] PROVE Planned(f)'
  BY DEF AllPlanned
<1>1. Planned(f) BY DEF Steady, AllPlanned
<1>2. Read(f) => Read(f)' BY ReadStays DEF Steady, AnswerInv, ChainShape
<1> QED BY <1>1, <1>2 DEF Planned, Sleeps

\* A change that is not lost in an overflow is buffered.
LEMMA PlansChange ==
  ASSUME Steady, NewTurn, NEW files \in SUBSET Files, Changed(files), phase' = phase,
         served' = served, tripped' = tripped,
         \/ Overflows
         \/ pending' = pending \cup files /\ NoRequest /\ UNCHANGED again
  PROVE  AllPlanned'
<1> SUFFICES ASSUME NEW f \in stale'[served'] PROVE Planned(f)'
  BY DEF AllPlanned
<1>1. f \in stale[served] \cup files BY DEF Changed, Steady, StaleShape
<1>2. CASE Overflows /\ over BY <1>2 DEF Overflows, Planned
<1>3. CASE CallOverflow(full)
  <2>1. Answers(full) BY DEF Answers, Steady, AnswerInv, HandlersWait
  <2>2. queued = 0 => \E s \in Slots : full[s] = "free" BY FreeSlot DEF Steady
  <2> QED BY <1>3, <2>1, <2>2, OverflowPlans
<1>4. CASE pending' = pending \cup files /\ NoRequest /\ UNCHANGED again
  <2>1. CASE f \in files BY <1>4, <2>1 DEF Planned
  <2>2. CASE f \notin files
    <3>1. Planned(f) BY <1>1, <2>2 DEF Steady, AllPlanned
    <3>2. Read(f) => Read(f)'
      BY <1>4, <2>2, ReadStays DEF Steady, AnswerInv, ChainShape, Changed, NoRequest
    <3> QED BY <1>4, <3>1, <3>2 DEF Planned, Sleeps, NoRequest
  <2> QED BY <2>1, <2>2
<1> QED BY <1>2, <1>3, <1>4 DEF Overflows

\* Buffered paths are dropped behind a trip, or for a run, or for their batch.
LEMMA PlansFlush ==
  ASSUME Steady, Flush
  PROVE  AllPlanned'
<1> USE DEF Flush, breaker
<1> SUFFICES ASSUME NEW f \in stale[served] PROVE Planned(f)'
  BY DEF AllPlanned, index
<1>1. CASE tripped # "no" BY <1>1 DEF Planned
<1>2. CASE \E s \in Slots : RequestFull(s, full)
  <2>1. Answers(full) BY DEF Answers, Steady, AnswerInv, HandlersWait
  <2>2. queued = 0 => \E s \in Slots : full[s] = "free" BY FreeSlot DEF Steady
  <2> QED BY <1>2, <2>1, <2>2, RequestPlans
<1>3. CASE chain' = Append(chain, [kind |-> "batch", files |-> pending]) /\ UNCHANGED full
  <2> DEFINE j == [kind |-> "batch", files |-> pending]
  <2>1. j \in Jobs /\ j.kind = "batch" /\ j.files = pending BY DEF Jobs, Steady, InputShape
  <2>2. Planned(f) BY DEF Steady, AllPlanned
  <2>3. CASE f \in pending BY <1>3, <2>1, <2>3, JoinedReads DEF Planned, Steady, AnswerInv
  <2>4. Read(f) => Read(f)' BY <1>3, <2>1, ReadStays DEF Steady, AnswerInv, ChainShape, index
  <2> QED BY <1>3, <2>2, <2>3, <2>4 DEF Planned, Sleeps
<1> QED BY <1>1, <1>2, <1>3

\* Sleepers become due, then join the chain, or are answered behind a trip.
LEMMA PlansDue ==
  ASSUME Steady, CoolDown
  PROVE  AllPlanned'
<1> USE DEF CoolDown, index, watch, breaker, work
<1> SUFFICES ASSUME NEW f \in stale[served] PROVE Planned(f)'
  BY DEF AllPlanned
<1>1. Planned(f) BY DEF Steady, AllPlanned
<1>2. Read(f) => Read(f)' BY ReadStays DEF Steady, AnswerInv, ChainShape
<1> QED BY <1>1, <1>2 DEF Planned, Sleeps

\* A sleeper that wakes joins the chain, or is answered behind a trip.
LEMMA PlansWake ==
  ASSUME Steady, NEW s \in Slots, Wake(s)
  PROVE  AllPlanned'
<1> USE DEF Wake, breaker
<1>1. CASE tripped # "no" BY <1>1 DEF AllPlanned, Planned
<1>2. CASE chain' = Append(chain, [kind |-> "full", slot |-> s])
  <2>1. [kind |-> "full", slot |-> s] \in Jobs BY DEF Jobs
  <2> QED BY <1>2, <2>1, JoinedReads DEF AllPlanned, Planned, Steady, AnswerInv
<1> QED BY <1>1, <1>2

\* An answer drops nothing: an overflow that came meanwhile asks again.
LEMMA PlansSettle ==
  ASSUME Steady, NEW s \in Slots, Settle(s)
  PROVE  AllPlanned'
<1> DEFINE freed == [full EXCEPT ![s] = "free"]
<1> USE DEF Settle, breaker, index
<1> SUFFICES ASSUME NEW f \in stale[served] PROVE Planned(f)'
  BY DEF AllPlanned
<1>1. s # 0 /\ full[s] = "done" /\ full \in [Slots -> SlotStates] /\ queued # s
  BY DEF Steady, AnswerInv, SlotsShape, Slots, JoinedWaits, Waiting
<1>2. freed[s] = "free" /\ \A x \in Slots : x # s => freed[x] = full[x]
  BY <1>1
<1>3. SlotsShape(freed) BY <1>1 DEF Steady, AnswerInv, SlotsShape, SlotStates, Waiting
<1>4. JoinedWaits(freed) BY <1>1 DEF Steady, AnswerInv, JoinedWaits, HandlersWait, Slots
<1> HIDE DEF freed
<1>5. RunsMatch(freed, chain, phase) BY <1>1, <1>2, MatchSame DEF Steady, AnswerInv, ChainShape, Busy
<1>6. Answers(freed) BY <1>3, <1>4, <1>5 DEF Answers, Steady, AnswerInv, HandlersWait
<1>7. CASE CallOverflow(freed) BY <1>2, <1>6, <1>7, OverflowPlans
<1>8. CASE full' = freed /\ UNCHANGED <<again, chain>>
  <2>1. Planned(f) BY DEF Steady, AllPlanned
  <2>2. Read(f) => Read(f)' BY <1>8, ReadStays DEF Steady, AnswerInv, ChainShape
  <2> QED BY <1>1, <1>2, <1>8, <2>1, <2>2 DEF Planned, Sleeps
<1> QED BY <1>7, <1>8 DEF freed

\* The head begins, and will read what it wipes or purges.
LEMMA PlansBegin ==
  ASSUME Steady, BatchStarts \/ FullStarts \/ ManualStarts \/ RepointStarts
  PROVE  AllPlanned'
<1> USE DEF Turn, Begun, Job, watch, breaker, guard
<1>0. chain # <<>> /\ chain \in Seq(Jobs) /\ chain' = chain /\ phase' = "unread" /\ served' = served
      /\ phase = "wait" /\ missed' = missed /\ missed = {}
  BY DEF BatchStarts, FullStarts, ManualStarts, RepointStarts, Steady, AnswerInv, ChainShape, MissedIsStale
<1>1. CASE FullStarts \/ ManualStarts
  <2>1. chain'[1].kind \in {"full", "manual"} BY <1>0, <1>1 DEF FullStarts, ManualStarts
  <2> QED BY <1>0, <2>1, HeadReads DEF AllPlanned, Planned
<1>2. CASE BatchStarts \/ RepointStarts
  <2> SUFFICES ASSUME NEW f \in stale'[served] PROVE Planned(f)'
    BY <1>0 DEF AllPlanned
  <2>1. f \in stale[served] \/ (chain[1].kind = "batch" /\ f \in chain[1].files)
    BY <1>2 DEF BatchStarts, RepointStarts, Steady, StaleShape, Wiped
  <2>2. CASE f \in stale[served]
    <3>1. Planned(f) BY <2>2 DEF Steady, AllPlanned
    <3>2. Read(f) => Read(f)' BY <1>0, ReadStays
    <3> QED BY <1>2, <3>1, <3>2 DEF BatchStarts, RepointStarts, Planned, Sleeps
  <2>3. CASE chain[1].kind = "batch" /\ f \in chain[1].files
    BY <1>0, <2>3, HeadReads DEF Planned
  <2> QED BY <2>1, <2>2, <2>3
<1> QED BY <1>1, <1>2

\* The parse has read the tree: what it missed is only what changes from now on.
LEMMA PlansRead ==
  ASSUME Steady, ReadTree
  PROVE  AllPlanned'
<1> USE DEF ReadTree, index, watch, guard, breaker
<1>0. missed' = {} BY DEF Steady, MissedIsStale
<1> SUFFICES ASSUME NEW f \in stale[served] PROVE Planned(f)'
  BY DEF AllPlanned
<1>1. Planned(f) BY DEF Steady, AllPlanned
<1>2. Read(f) => Read(f)' BY <1>0, ReadStays DEF Steady, AnswerInv, ChainShape
<1> QED BY <1>1, <1>2 DEF Planned, Sleeps

\* The head ends, and what it did not bring up to date is planned further back.
LEMMA PlansEnd ==
  ASSUME Steady, chain # <<>>, Ended, UNCHANGED <<pending, again, tripped>>,
         \A s \in Slots : full[s] \in {"asleep", "due"} => full'[s] = full[s],
         served' = served \/ Job.kind = "repoint",
         stale'[served'] \subseteq stale[served],
         \A f \in stale'[served'] : ~WillRead(1, f)
  PROVE  AllPlanned'
<1> SUFFICES ASSUME NEW f \in stale'[served'] PROVE Planned(f)'
  BY DEF AllPlanned
<1>1. Planned(f) BY DEF Steady, AllPlanned
<1>2. Read(f) => Read(f)'
  <2>1. ASSUME NEW i \in 1 .. Len(chain), WillRead(i, f) PROVE Read(f)'
    <3>1. i # 1 BY <2>1
    <3> QED BY <2>1, <3>1, ReadEnds DEF Steady, AnswerInv, ChainShape
  <2> QED BY <2>1 DEF Read
<1> QED BY <1>1, <1>2 DEF Planned, Sleeps

\* A batch has brought its files up to date, but for what it missed.
LEMMA PlansBatchOk ==
  ASSUME Steady, BatchOk
  PROVE  AllPlanned'
<1> USE DEF BatchOk, BatchDone, Finishing, Running, NotedOk
<1>1. stale'[served'] = stale[served] \ (Job.files \ missed) BY DEF Steady, StaleShape
<1>2. \A f \in stale'[served'] : ~WillRead(1, f) BY <1>1 DEF WillRead, Job
<1> QED BY <1>1, <1>2, PlansEnd

\* A rebuild has brought all files up to date, but for what it missed.
LEMMA PlansFullOk ==
  ASSUME Steady, FullOk \/ (ManualEnds /\ UNCHANGED left /\ Finishing("manual")
                              /\ stale' = [stale EXCEPT ![served] = missed])
  PROVE  AllPlanned'
<1> USE DEF Finishing, Running
<1>0. chain # <<>> /\ Ended /\ phase = "read" /\ served' = served /\ UNCHANGED <<pending, again, tripped>>
  BY DEF FullOk, FullAnswered, ManualEnds, NotedOk, watch, breaker
<1>1. stale'[served'] = missed /\ missed \subseteq stale[served]
  BY <1>0 DEF FullOk, Steady, StaleShape, MissedIsStale
<1>2. \A f \in stale'[served'] : ~WillRead(1, f) BY <1>0, <1>1 DEF WillRead
<1>3. \A s \in Slots : full[s] \in {"asleep", "due"} => full'[s] = full[s]
  <2>1. CASE FullOk
    <3>1. 1 \in 1 .. Len(chain) BY <1>0, TailAt DEF Steady, AnswerInv, ChainShape
    <3>2. full[Job.slot] = "running"
      BY <2>1, <1>0, <3>1 DEF FullOk, Job, Steady, AnswerInv, RunsMatch, SlotOfRun
    <3> QED BY <2>1, <3>2 DEF FullOk, FullAnswered, Steady, AnswerInv, SlotsShape
  <2>2. CASE ManualEnds BY <2>2 DEF ManualEnds
  <2> QED BY <2>1, <2>2
<1> QED BY <1>0, <1>1, <1>2, <1>3, PlansEnd

\* The index that is swapped in lacks only what its parse missed.
LEMMA PlansSwap ==
  ASSUME Steady, RepointSwaps
  PROVE  AllPlanned'
<1> USE DEF RepointSwaps, RepointDone, Finishing, Running, NotedOk, watch
<1>0. chain # <<>> /\ Ended /\ Job.kind = "repoint" /\ chain[1] \in Jobs /\ 1 \in 1 .. Len(chain)
  BY TailAt DEF Turn, Steady, AnswerInv, ChainShape
<1>1. Job.key # served /\ Job.key \in Branches
  BY <1>0 DEF Steady, RepointMatches, Job, Jobs
<1>2. phase = "read" /\ stale' = [stale EXCEPT ![Job.key] = missed] /\ served' = Job.key
  BY <1>1
<1>3. stale'[served'] = missed /\ missed \subseteq stale[served]
  BY <1>1, <1>2 DEF Steady, StaleShape, MissedIsStale
<1>4. \A f \in stale'[served'] : ~WillRead(1, f) BY <1>2, <1>3 DEF WillRead
<1> QED BY <1>0, <1>2, <1>3, <1>4, PlansEnd

\* A run that is refused is stood in for, or is known to be dropped.
LEMMA PlansRefused ==
  ASSUME Steady, FullRefused, ~dropped'
  PROVE  AllPlanned'
<1> USE DEF FullRefused, Turn, FullAnswered
<1>1. CASE tripped # "no" BY <1>1 DEF AllPlanned, Planned, TooMany
<1>2. CASE TooMany /\ tripped' = "rate" BY <1>2 DEF AllPlanned, Planned
<1>3. CASE tripped = "no" /\ ~TooMany
  <2>1. PICK i \in 2 .. Len(chain) : chain[i].kind \in {"manual", "repoint"}
    BY <1>3 DEF ReadLater
  <2>2. i \in 1 .. Len(chain) /\ i # 1 /\ i > 1 /\ chain \in Seq(Jobs)
    BY <2>1 DEF Steady, AnswerInv, ChainShape
  <2> SUFFICES ASSUME NEW f PROVE Read(f)'
    BY DEF AllPlanned, Planned
  <2>3. WillRead(i, f) BY <2>1, <2>2 DEF WillRead, Steady, RepointMatches
  <2> QED BY <2>2, <2>3, ReadEnds DEF Steady, index
<1>4. ~(TooMany /\ Refused) BY ControlAssumption DEF TooMany, Refused
<1> QED BY <1>1, <1>2, <1>3, <1>4

\* A step without a failure keeps the plans.
LEMMA PlansStep ==
  ASSUME Steady, LeftIsLeft, Next, ~Disturbed', ~dropped'
  PROVE  AllPlanned'
<1> USE DEF index, watch, guard, breaker, rate, work
<1>0. \A e \in {"fail", "abort", "throw", "reset"} : ~Happens(e) BY FailureShows
<1>1. ASSUME NEW f \in Files, Edit(f) PROVE AllPlanned'
  <2>1. {f} \in SUBSET Files OBVIOUS
  <2>2. Overflows \/ (pending' = pending \cup {f} /\ NoRequest /\ UNCHANGED again)
    BY <1>1 DEF Edit
  <2> QED BY <1>1, <2>1, <2>2, PlansChange DEF Edit
<1>2. ASSUME NEW files \in SUBSET Files, Overflow(files) PROVE AllPlanned'
  BY <1>2, PlansChange DEF Overflow
<1>3. CASE \/ \E b \in Branches : Checkout(b)
           \/ HeadUnreadable \/ WindowRolls \/ FlushDeferred \/ PollNoKey \/ PollTrips \/ BackoffEnds
  <2>1. /\ UNCHANGED <<pending, again, chain, phase, missed, served, full, stale>>
        /\ tripped # "no" => tripped' # "no"
    BY <1>3 DEF Checkout, HeadUnreadable, WindowRolls, FlushDeferred, PollNoKey, PollTrips, BackoffEnds,
           NotedOk
  <2> QED BY <2>1, PlansSame
<1>4. CASE Manual
  <2>1. [kind |-> "manual"] \in Jobs BY DEF Jobs
  <2> QED BY <1>4, <2>1, PlansJoined DEF Manual
<1>5. CASE PollClaims
  <2>1. head \in Branches BY <1>5 DEF PollClaims, Steady, InputShape
  <2>2. [kind |-> "repoint", key |-> head] \in Jobs BY <2>1 DEF Jobs
  <2> QED BY <1>5, <2>2, PlansJoined DEF PollClaims
<1>6. ~Reset /\ ~Failing
  BY <1>0 DEF Reset, Failing, BatchFails, FullFails, RepointUnfreshened, RepointAborts, RepointThrows
<1>7. CASE ManualEnds
  <2>1. UNCHANGED left /\ Finishing("manual") /\ stale' = [stale EXCEPT ![served] = missed]
    BY <1>0, <1>7 DEF ManualEnds
  <2> QED BY <1>7, <2>1, PlansFullOk
<1>8. CASE Flush BY <1>8, PlansFlush
<1>9. CASE CoolDown BY <1>9, PlansDue
<1>10. ASSUME NEW s \in Slots, Wake(s) PROVE AllPlanned' BY <1>10, PlansWake
<1>11. ASSUME NEW s \in Slots, Settle(s) PROVE AllPlanned' BY <1>11, PlansSettle
<1>12. CASE ReadTree BY <1>12, PlansRead
<1>13. CASE BatchStarts \/ FullStarts \/ ManualStarts \/ RepointStarts BY <1>13, PlansBegin
<1>14. CASE BatchOk BY <1>14, PlansBatchOk
<1>15. CASE FullOk BY <1>15, PlansFullOk
<1>16. CASE FullRefused BY <1>16, PlansRefused
<1>17. CASE RepointSwaps BY <1>17, PlansSwap
<1> QED
  BY <1>1, <1>2, <1>3, <1>4, <1>5, <1>6, <1>7, <1>8, <1>9, <1>10, <1>11, <1>12, <1>13, <1>14, <1>15, <1>16, <1>17
     DEF Next, Environment, Daemon

\* Only the environment and chance spend what is left; what was dropped stays dropped.
LEMMA LeftMoves ==
  ASSUME Next
  PROVE  /\ UNCHANGED left \/ \E e \in Events : Happens(e)
         /\ dropped => dropped'
<1> USE DEF Events
<1>1. CASE Environment
  <2>1. ASSUME NEW f \in Files, Edit(f) PROVE Happens("edit") /\ UNCHANGED dropped BY <2>1 DEF Edit
  <2>2. ASSUME NEW files \in SUBSET Files, Overflow(files) PROVE Happens("overflow") /\ UNCHANGED dropped
    BY <2>2 DEF Overflow
  <2>3. ASSUME NEW b \in Branches, Checkout(b) PROVE Happens("checkout") /\ UNCHANGED dropped
    BY <2>3 DEF Checkout
  <2>4. CASE HeadUnreadable \/ Manual \/ Reset \/ WindowRolls
    BY <2>4 DEF HeadUnreadable, Manual, Reset, WindowRolls
  <2> QED BY <1>1, <2>1, <2>2, <2>3, <2>4 DEF Environment
<1>2. CASE Failing
  BY <1>2 DEF Failing, BatchFails, BatchDone, FullFails, RepointUnfreshened, RepointAborts,
         RepointThrows, RepointDone
<1>3. ASSUME NEW s \in Slots, Wake(s) \/ Settle(s) PROVE UNCHANGED <<left, dropped>>
  BY <1>3 DEF Wake, Settle
<1>4. CASE CoolDown \/ FlushDeferred \/ Flush \/ ReadTree \/ BatchStarts \/ BatchOk
  BY <1>4 DEF CoolDown, FlushDeferred, Flush, ReadTree, BatchStarts, BatchOk, BatchDone
<1>5. CASE FullStarts \/ FullRefused \/ FullOk \/ ManualStarts \/ ManualEnds
  <2>1. FullRefused => UNCHANGED left /\ (dropped => dropped') BY DEF FullRefused
  <2>3. FullStarts \/ FullOk \/ ManualStarts => UNCHANGED <<left, dropped>>
    BY DEF FullStarts, FullOk, ManualStarts
  <2>2. CASE ManualEnds
    <3>1. UNCHANGED left \/ Happens("fail") BY <2>2 DEF ManualEnds
    <3>2. UNCHANGED dropped BY <2>2 DEF ManualEnds
    <3>3. UNCHANGED left \/ \E e \in Events : Happens(e) BY <3>1
    <3> QED BY <3>2, <3>3
  <2> QED BY <1>5, <2>1, <2>2, <2>3
<1>6. CASE PollClaims \/ PollNoKey \/ PollTrips \/ BackoffEnds \/ RepointStarts \/ RepointSwaps
  BY <1>6 DEF PollClaims, PollNoKey, PollTrips, BackoffEnds, RepointStarts, RepointSwaps, RepointDone
<1> QED BY <1>1, <1>2, <1>3, <1>4, <1>5, <1>6 DEF Next, Daemon

\* The head of the chain, and the key of a re-point there.
LEMMA HeadIsJob ==
  ASSUME ChainShape, chain # <<>>
  PROVE  /\ Job \in Jobs
         /\ Job.kind = "repoint" => Job.key \in Branches
         /\ Job.kind = "batch" => Job.files \in SUBSET Files
<1>1. Job \in Jobs BY TailAt DEF ChainShape, Job
<1> QED BY <1>1 DEF Jobs

\* Whether the chain goes on, ends its head or says nothing of the tree.
IndexRests == UNCHANGED <<phase, missed, stale, served>>
IndexMoves ==
  \/ Ended
  \/ Begun /\ phase = "wait"
  \/ ReadTree
  \/ IndexRests
  \/ UNCHANGED <<phase, served>> /\ \E files \in SUBSET Files : Changed(files)

\* What a step does to the indexes and to the head of the chain.
LEMMA IndexStep ==
  ASSUME ChainShape, StaleShape, missed \in SUBSET Files, Next
  PROVE  StaleShape' /\ IndexMoves
<1> USE DEF index, watch, guard, breaker, rate, work, StaleShape, IndexMoves, IndexRests
<1>1. ASSUME \/ \E f \in Files : Edit(f)
             \/ \E files \in SUBSET Files : Overflow(files)
      PROVE  StaleShape' /\ IndexMoves
  <2>1. PICK files \in SUBSET Files : Changed(files) /\ UNCHANGED <<phase, served>>
    <3>1. ASSUME NEW f \in Files, Edit(f) PROVE {f} \in SUBSET Files /\ Changed({f}) /\ UNCHANGED <<phase, served>>
      BY <3>1 DEF Edit
    <3>2. ASSUME NEW files \in SUBSET Files, Overflow(files) PROVE Changed(files) /\ UNCHANGED <<phase, served>>
      BY <3>2 DEF Overflow
    <3> QED BY <1>1, <3>1, <3>2
  <2>2. StaleShape' BY <2>1 DEF Changed
  <2> QED BY <2>1, <2>2
<1>2. CASE (\E b \in Branches : Checkout(b)) \/ HeadUnreadable \/ Manual \/ Reset \/ WindowRolls
  BY <1>2 DEF Checkout, HeadUnreadable, Manual, Reset, WindowRolls
<1>3. CASE BatchFails \/ FullFails
  BY <1>3 DEF BatchFails, BatchDone, FullFails, FullAnswered
<1>4. CASE RepointUnfreshened \/ RepointAborts \/ RepointThrows
  <2>1. Ended BY <1>4 DEF RepointUnfreshened, RepointAborts, RepointThrows, RepointDone
  <2>2. RepointUnfreshened => Job.key \in Branches
    BY HeadIsJob DEF RepointUnfreshened, Turn
  <2>3. StaleShape' BY <1>4, <2>2 DEF RepointUnfreshened, RepointAborts, RepointThrows, RepointDone, Wiped
  <2> QED BY <2>1, <2>3
<1>5. ASSUME NEW s \in Slots, Wake(s) \/ Settle(s) PROVE IndexRests
  BY <1>5 DEF Wake, Settle
<1>6. CASE CoolDown \/ FlushDeferred \/ Flush
  BY <1>6 DEF CoolDown, FlushDeferred, Flush
<1>7. CASE ReadTree BY <1>7 DEF ReadTree
<1>8. CASE BatchStarts
  BY <1>8, HeadIsJob DEF BatchStarts, Turn
<1>9. CASE BatchOk
  <2>1. Ended BY <1>9 DEF BatchOk, BatchDone
  <2>2. StaleShape' BY <1>9 DEF BatchOk, BatchDone
  <2> QED BY <2>1, <2>2
<1>10. CASE FullStarts \/ ManualStarts
  BY <1>10 DEF FullStarts, ManualStarts, Turn, Wiped
<1>11. CASE FullRefused \/ FullOk \/ ManualEnds
  <2>1. Ended BY <1>11 DEF FullRefused, FullOk, ManualEnds, FullAnswered
  <2>2. StaleShape' BY <1>11 DEF FullRefused, FullOk, ManualEnds
  <2> QED BY <2>1, <2>2
<1>12. CASE PollClaims \/ PollNoKey \/ PollTrips \/ BackoffEnds
  BY <1>12 DEF PollClaims, PollNoKey, PollTrips, BackoffEnds
<1>13. CASE RepointStarts
  BY <1>13, HeadIsJob DEF RepointStarts, Turn, Wiped
<1>14. CASE RepointSwaps
  <2>1. Ended BY <1>14 DEF RepointSwaps, RepointDone
  <2>2. Job.key \in Branches BY <1>14, HeadIsJob DEF RepointSwaps, Turn, Finishing, Running
  <2>3. StaleShape' BY <1>14, <2>2 DEF RepointSwaps, RepointDone
  <2> QED BY <2>1, <2>3
<1> QED
  BY <1>1, <1>2, <1>3, <1>4, <1>5, <1>6, <1>7, <1>8, <1>9, <1>10, <1>11, <1>12, <1>13, <1>14
     DEF Next, Environment, Failing, Daemon

\* A request adds a run to the chain, or nothing.
LEMMA RequestChain ==
  ASSUME NEW was, NEW on \in Slots, RequestFull(on, was)
  PROVE  Run(on) \in Jobs /\ Run(on).kind = "full" /\ (chain' = chain \/ chain' = Append(chain, Run(on)))
BY DEF RequestFull, NewRun, Run, Jobs

\* A request, or an overflow that asks for a run, queues no re-point.
LEMMA RequestJoins ==
  ASSUME NEW was, UNCHANGED <<repointing, served>>,
         chain' = chain \/ CallOverflow(was) \/ \E s \in Slots : RequestFull(s, was)
  PROVE  RepointsKept \/ RepointsJoined
BY RequestChain DEF CallOverflow, RepointsKept, RepointsJoined

\* Only the poller claims a re-point, and only to a branch that is not served.
LEMMA RepointMoves ==
  ASSUME ChainShape, InputShape, TrackerAgrees, ~Thrown, Next
  PROVE  RepointsKept \/ RepointsJoined \/ RepointsEnded
<1> USE DEF index, poller, watch, guard, breaker, rate, work
<1>1. ASSUME \/ \E f \in Files : Edit(f)
             \/ \E files \in SUBSET Files : Overflow(files)
      PROVE  RepointsKept \/ RepointsJoined
  <2>1. UNCHANGED <<repointing, served>> BY <1>1 DEF Edit, Overflow
  <2>2. chain' = chain \/ CallOverflow(full)
    BY <1>1 DEF Edit, Overflow, Overflows, NoRequest
  <2> QED BY <2>1, <2>2, RequestJoins
<1>2. CASE (\E b \in Branches : Checkout(b)) \/ HeadUnreadable \/ Reset \/ WindowRolls
  BY <1>2 DEF Checkout, HeadUnreadable, Reset, WindowRolls, RepointsKept
<1>3. CASE Manual
  <2>1. [kind |-> "manual"] \in Jobs /\ [kind |-> "manual"].kind # "repoint" BY DEF Jobs
  <2> QED BY <1>3, <2>1 DEF Manual, RepointsJoined
<1>4. CASE BatchFails \/ FullFails \/ BatchOk \/ FullOk \/ FullRefused \/ ManualEnds
  BY <1>4 DEF BatchFails, BatchDone, FullFails, BatchOk, FullOk, FullRefused, FullAnswered, ManualEnds, Ended,
         Running, Finishing, Turn, RepointsEnded
<1>5. CASE RepointUnfreshened \/ RepointAborts \/ RepointThrows \/ RepointSwaps
  BY <1>5 DEF RepointUnfreshened, RepointAborts, RepointThrows, RepointSwaps, RepointDone, Ended,
         Running, Finishing, Turn, RepointsEnded
<1>6. ASSUME NEW s \in Slots, Wake(s) PROVE RepointsKept \/ RepointsJoined
  <2>1. [kind |-> "full", slot |-> s] \in Jobs /\ [kind |-> "full", slot |-> s].kind # "repoint" BY DEF Jobs
  <2> QED BY <1>6, <2>1 DEF Wake, RepointsKept, RepointsJoined
<1>7. ASSUME NEW s \in Slots, Settle(s) PROVE RepointsKept \/ RepointsJoined
  <2>1. UNCHANGED <<repointing, served>> BY <1>7 DEF Settle
  <2>2. \/ chain' = chain \/ CallOverflow([full EXCEPT ![s] = "free"])
    BY <1>7 DEF Settle
  <2> QED BY <2>1, <2>2, RequestJoins
<1>8. CASE Flush
  <2>1. UNCHANGED <<repointing, served>> BY <1>8 DEF Flush
  <2>2. CASE chain' = chain \/ \E s \in Slots : RequestFull(s, full)
    BY <2>1, <2>2, RequestJoins
  <2>3. CASE chain' = Append(chain, [kind |-> "batch", files |-> pending])
    <3>1. [kind |-> "batch", files |-> pending] \in Jobs /\ [kind |-> "batch", files |-> pending].kind # "repoint"
      BY DEF Jobs, InputShape
    <3> QED BY <2>1, <2>3, <3>1 DEF RepointsJoined
  <2> QED BY <1>8, <2>2, <2>3 DEF Flush, NoRequest
<1>9. CASE CoolDown \/ FlushDeferred \/ ReadTree \/ BatchStarts \/ FullStarts \/ ManualStarts \/ RepointStarts
  BY <1>9 DEF CoolDown, FlushDeferred, ReadTree, BatchStarts, FullStarts, ManualStarts, RepointStarts, Begun,
         RepointsKept
<1>10. CASE PollClaims
  <2> DEFINE j == [kind |-> "repoint", key |-> head]
  <2>1. head \in Branches /\ head # lastKey /\ ~repointing BY <1>10 DEF PollClaims, Due, InputShape
  <2>2. j \in Jobs /\ j.kind = "repoint" /\ j.key = head BY <2>1 DEF Jobs
  <2>3. head # served BY <2>1 DEF TrackerAgrees
  <2> QED BY <1>10, <2>1, <2>2, <2>3 DEF PollClaims, RepointsJoined
<1>11. CASE PollNoKey \/ PollTrips \/ BackoffEnds
  BY <1>11 DEF PollNoKey, PollTrips, BackoffEnds, RepointsKept
<1> QED
  BY <1>1, <1>2, <1>3, <1>4, <1>5, <1>6, <1>7, <1>8, <1>9, <1>10, <1>11
     DEF Next, Environment, Failing, Daemon

\* No change is lost between the supervisor, the guard, the chain and the poller,
\* until something fails or a run is dropped: for any files, branches and caps.
THEOREM StaleAlwaysComes == Spec => []StaleIsComing
<1> DEFINE I == /\ AnswerInv /\ InputShape /\ StaleShape /\ LeftIsLeft /\ MissedIsStale
                /\ Disturbed \/ RepointMatches(chain, repointing, served)
                /\ StaleIsComing
<1>1. Init => I
  <2> SUFFICES ASSUME Init PROVE I OBVIOUS
  <2>1. AnswerInv /\ InputShape BY InitAnswers
  <2>2. StaleShape /\ MissedIsStale BY DEF Init, StaleShape, MissedIsStale
  <2>3. LeftIsLeft
    <3>1. left = Budget /\ \A e \in Events : Budget[e] \in Nat BY ControlAssumption DEF Init
    <3> QED BY <3>1, ControlAssumption DEF LeftIsLeft
  <2>4. RepointMatches(chain, repointing, served) BY DEF Init, RepointMatches
  <2>5. StaleIsComing BY DEF Init, StaleIsComing
  <2> QED BY <2>1, <2>2, <2>3, <2>4, <2>5
<1>2. I /\ TrackerAgrees /\ [Next]_vars => I'
  <2> SUFFICES ASSUME I, TrackerAgrees, [Next]_vars PROVE I' OBVIOUS
  <2>1. CASE UNCHANGED vars
    BY <2>1 DEF vars, index, poller, watch, guard, breaker, rate, work, AnswerInv, ChainShape, SlotsShape,
           JoinedWaits, HandlersWait, InputShape, StaleShape, LeftIsLeft, MissedIsStale, Disturbed,
           StaleIsComing, WillRead
  <2>2. CASE Next
    <3>1. AnswerInv' /\ InputShape' BY <2>2, AnswerStep, InputStep
    <3>2. LeftIsLeft' /\ (Disturbed => Disturbed') /\ (dropped => dropped')
      BY <2>2, LeftMoves, LeftStep
    <3>3. ChainShape BY DEF AnswerInv
    <3>4. missed \in SUBSET Files BY DEF MissedIsStale, StaleShape
    <3>5. StaleShape' /\ IndexMoves BY <2>2, <3>3, <3>4, IndexStep
    <3>6. MissedIsStale' BY <3>5, MissedStep DEF IndexMoves, IndexRests, StaleShape
    <3>7. Thrown => Disturbed BY DEF Thrown, Disturbed
    <3>8. Disturbed' \/ RepointMatches(chain', repointing', served')
      BY <2>2, <3>2, <3>3, <3>7, RepointMoves, RepointStep DEF ChainShape
    <3>9. StaleIsComing'
      <4>1. CASE Disturbed' \/ dropped' BY <4>1 DEF StaleIsComing
      <4>2. CASE ~Disturbed' /\ ~dropped'
        <5>1. AllPlanned
          BY <3>2, <4>2 DEF StaleIsComing, AllPlanned, Planned, Read, Sleeps
        <5>2. Steady BY <3>2, <4>2, <5>1 DEF Steady
        <5>3. AllPlanned' BY <2>2, <4>2, <5>2, PlansStep
        <5> QED BY <5>3 DEF StaleIsComing, AllPlanned, Planned, Read, Sleeps
      <4> QED BY <4>1, <4>2
    <3> QED BY <3>1, <3>2, <3>5, <3>6, <3>8, <3>9
  <2> QED BY <2>1, <2>2
<1>3. I => StaleIsComing OBVIOUS
<1> QED BY <1>1, <1>2, <1>3, TrackerAlwaysAgrees, PTL DEF Spec
=============================================================================
