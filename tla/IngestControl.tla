---------------------------- MODULE IngestControl ----------------------------
(***************************************************************************)
(* How one project's daemon keeps the served index up with the working     *)
(* tree: the watch supervisor (native/watcher.ts), the ingest guard, the   *)
(* serialized ingest chain and the branch poller (cli/daemon.ts).          *)
(*                                                                         *)
(*   working tree --records--> supervisor --batches--> chain --> index     *)
(*                                 |                     ^                 *)
(*                              overflows --> guard -----+                 *)
(*   .git/HEAD <--polled-- branch poller ----------------+                 *)
(*                                                                         *)
(* An index is abstracted to the files it is stale for: rows missing or    *)
(* read before the file's last change.  A record reaches the supervisor in *)
(* the step that changes the file.  The daemon is one event loop: a timer,  *)
(* a record or a request is handled when the promises have settled.        *)
(***************************************************************************)
EXTENDS Naturals, Sequences, FiniteSets

CONSTANTS
  Files, Branches,
  NoKey,         \* activeBranchKey's answer when HEAD cannot be read
  MaxPending,    \* maxPendingEvents: buffered paths before a rescan
  MaxBatch,      \* WATCH_INCREMENTAL_FILE_CAP: files before a full rebuild
  Threshold,     \* consecutive failures that trip the breaker
  MaxRuns,       \* automatic whole-repo runs allowed per window
  Budget         \* how often each event of the environment may happen

Events == {"edit", "overflow", "checkout", "unreadable", "manual", "reset",
           "fail", "abort", "throw", "roll"}

ASSUME ControlAssumption ==
  /\ NoKey \notin Branches
  /\ {MaxPending, MaxBatch, Threshold, MaxRuns} \subseteq Nat \ {0}
  /\ Budget \in [Events -> Nat]

Slots == 1 .. 3     \* full re-ingests asked for and not yet answered
Waiting == {"asleep", "due", "chained"}

VARIABLES
  head,              \* the branch key read from .git/HEAD
  served, stale,     \* dbRef.branchKey; what each branch's index is stale for
  lastKey, repointing, failKey, backing,                    \* branch poller
  pending, armed, batch, batchOn, over, overOn, again,      \* supervisor
  tripped, fails, starts, cooling, queued, full,            \* guard
  chain, phase, missed,                                     \* ingest chain
  left,              \* what is left of Budget
  dropped            \* history: a run was refused for an interval that a re-point
                     \* had taken, and nothing in the chain stood in for it
index == <<served, stale>>
poller == <<lastKey, repointing, failKey, backing>>
watch == <<pending, armed, batch, batchOn, over, overOn, again>>
breaker == <<tripped, fails>>
rate == <<starts, cooling>>
guard == <<breaker, rate, queued, full>>
work == <<chain, phase, missed>>
vars == <<head, index, poller, watch, guard, work, left, dropped>>

Jobs == [kind : {"batch"}, files : SUBSET Files] \cup [kind : {"full"}, slot : Slots]
          \cup [kind : {"manual"}] \cup [kind : {"repoint"}, key : Branches]

TypeOK ==
  /\ head \in Branches \cup {NoKey} /\ served \in Branches
  /\ stale \in [Branches -> SUBSET Files]
  /\ lastKey \in Branches \cup {NoKey} /\ repointing \in BOOLEAN
  /\ failKey \in Branches \cup {NoKey} /\ backing \in BOOLEAN
  /\ pending \subseteq Files /\ Cardinality(pending) < MaxPending
  /\ armed \in BOOLEAN /\ batch \in BOOLEAN /\ batchOn \in 0 .. 3
  /\ over \in BOOLEAN /\ overOn \in 0 .. 3 /\ again \in BOOLEAN
  /\ tripped \in {"no", "failures", "rate"} /\ fails \in Nat
  /\ starts \in 0 .. MaxRuns /\ cooling \in BOOLEAN
  /\ queued \in 0 .. 3
  /\ full \in [Slots -> Waiting \cup {"free", "running", "done"}]
  /\ chain \in Seq(Jobs) /\ phase \in {"wait", "unread", "read"}
  /\ missed \subseteq Files
  /\ left \in [Events -> Nat] /\ dropped \in BOOLEAN

Init ==
  /\ head \in Branches /\ served = head /\ lastKey = head
  /\ stale = [b \in Branches |-> IF b = head THEN {} ELSE Files]
  /\ repointing = FALSE /\ failKey = NoKey /\ backing = FALSE
  /\ pending = {} /\ armed = FALSE /\ batch = FALSE /\ batchOn = 0
  /\ over = FALSE /\ overOn = 0 /\ again = FALSE
  /\ tripped = "no" /\ fails = 0 /\ starts = 0 /\ cooling = FALSE
  /\ queued = 0 /\ full = [s \in Slots |-> "free"]
  /\ chain = <<>> /\ phase = "wait" /\ missed = {}
  /\ left = Budget /\ dropped = FALSE

Happens(e) == left[e] > 0 /\ left' = [left EXCEPT ![e] = @ - 1]

\* A timer, a record or a request comes in only when the promises of earlier
\* turns have settled: the head of the chain has begun, answers were heard.
NewTurn == (chain # <<>> => phase # "wait") /\ \A s \in Slots : full[s] # "done"

-----------------------------------------------------------------------------
\* The guard.

\* A failed automatic run counts; a success forgets the count, never the trip.
NotedErr ==
  /\ fails' = fails + 1
  /\ tripped' = IF tripped = "no" /\ fails + 1 >= Threshold THEN "failures" ELSE tripped
NotedOk == fails' = 0 /\ UNCHANGED tripped

\* requestFull, with the slots as `was': a new run in slot `on' sleeps out the
\* minimum interval before it enters the chain.
NewRun(on, was) ==
  /\ on = CHOOSE x \in Slots : was[x] = "free"
  /\ \/ tripped # "no" /\ full' = [was EXCEPT ![on] = "done"]
        /\ queued' = 0 /\ UNCHANGED chain
     \/ tripped = "no" /\ cooling /\ full' = [was EXCEPT ![on] = "asleep"]
        /\ queued' = on /\ UNCHANGED chain
     \/ tripped = "no" /\ ~cooling /\ full' = [was EXCEPT ![on] = "chained"]
        /\ queued' = on /\ chain' = Append(chain, [kind |-> "full", slot |-> on])

\* A request joins the run that has not begun.
RequestFull(on, was) ==
  \/ queued # 0 /\ on = queued /\ full' = was /\ UNCHANGED <<queued, chain>>
  \/ queued = 0 /\ NewRun(on, was)

NoRequest == UNCHANGED <<queued, full, chain>>

\* Slip: the slot is held until the run ends.
ClearSlotNever(s) == queued

\* A run that is refused or has started leaves the slot to the next request;
\* a slot taken since by another run is not its own to clear.
ClearSlot(s) == IF queued = s THEN 0 ELSE queued

\* The interval since the last start has passed, for the guard and for the
\* run that slept through it.
CoolDown ==
  /\ cooling \/ \E s \in Slots : full[s] = "asleep"
  /\ cooling' = FALSE
  /\ full' = [s \in Slots |-> IF full[s] = "asleep" THEN "due" ELSE full[s]]
  /\ UNCHANGED <<dropped, head, index, poller, watch, breaker, starts, queued, work, left>>

Wake(s) ==
  /\ NewTurn /\ full[s] = "due"
  /\ IF tripped # "no"
       THEN /\ full' = [full EXCEPT ![s] = "done"] /\ queued' = ClearSlot(s)
            /\ UNCHANGED chain
       ELSE /\ full' = [full EXCEPT ![s] = "chained"]
            /\ chain' = Append(chain, [kind |-> "full", slot |-> s]) /\ UNCHANGED queued
  /\ UNCHANGED <<dropped, head, index, poller, watch, breaker, rate, phase, missed, left>>

\* admitWholeRepoRun: refused, tripped for the rate, or admitted and counted.
Refused == tripped # "no" \/ (starts < MaxRuns /\ cooling)
TooMany == tripped = "no" /\ starts = MaxRuns
Admitted == tripped = "no" /\ starts < MaxRuns /\ ~cooling
Counted == starts' = starts + 1 /\ cooling' = TRUE

\* The oldest start leaves the rate window.
WindowRolls ==
  /\ starts > 0 /\ Happens("roll")
  /\ starts' = starts - 1
  /\ UNCHANGED <<dropped, head, index, poller, watch, breaker, cooling, queued, full, work>>

Reset ==
  /\ NewTurn /\ Happens("reset")
  /\ tripped' = "no" /\ fails' = 0 /\ starts' = 0 /\ cooling' = FALSE
  /\ full' = [s \in Slots |-> IF full[s] = "asleep" THEN "due" ELSE full[s]]
  /\ UNCHANGED <<dropped, head, index, poller, watch, queued, work>>

-----------------------------------------------------------------------------
\* The supervisor.

\* onOverflow: ask for a rescan and stay in flight until it is answered, or
\* do nothing behind a tripped breaker.
CallOverflow(was) ==
  \/ /\ tripped # "no"
     /\ full' = was /\ over' = FALSE /\ overOn' = 0 /\ UNCHANGED <<queued, chain>>
  \/ /\ tripped = "no"
     /\ \E s \in Slots : RequestFull(s, was) /\ overOn' = s
     /\ over' = TRUE

\* Slip: the rescan in flight is thought to cover what overflows meanwhile.
OverflowsAbsorbed ==
  /\ pending' = {} /\ armed' = FALSE
  /\ IF over THEN UNCHANGED <<over, overOn>> /\ NoRequest ELSE CallOverflow(full)
  /\ UNCHANGED <<batch, batchOn, again>>

\* The buffer is dropped; a rescan in flight is followed by one more.
Overflows ==
  /\ pending' = {} /\ armed' = FALSE
  /\ IF over THEN again' = TRUE /\ UNCHANGED <<over, overOn>> /\ NoRequest
             ELSE CallOverflow(full) /\ UNCHANGED again
  /\ UNCHANGED <<batch, batchOn>>

\* A file changes: every index is behind it, a parse in progress may have read
\* it already.
Changed(files) ==
  /\ stale' = [b \in Branches |-> stale[b] \cup files]
  /\ missed' = IF phase = "read" THEN missed \cup files ELSE missed

\* The buffer is at its cap, and is given up for a rescan.
AtCap(paths) == Cardinality(paths) >= MaxPending

Edit(f) ==
  /\ NewTurn /\ Happens("edit") /\ Changed({f})
  /\ IF AtCap(pending \cup {f})
       THEN Overflows
       ELSE /\ pending' = pending \cup {f}
            /\ armed' = (armed \/ ~over)
            /\ NoRequest /\ UNCHANGED <<batch, batchOn, over, overOn, again>>
  /\ UNCHANGED <<dropped, head, served, poller, breaker, rate, phase>>

\* The operating system drops events: changes nobody will hear of by name.
Overflow(files) ==
  /\ NewTurn /\ Happens("overflow") /\ Changed(files) /\ Overflows
  /\ UNCHANGED <<dropped, head, served, poller, breaker, rate, phase>>

\* The debounce timer fires while a handler runs: the paths stay buffered.
FlushDeferred ==
  /\ NewTurn /\ armed /\ (batch \/ over)
  /\ armed' = FALSE
  /\ UNCHANGED <<dropped, head, index, poller, pending, batch, batchOn, over, overOn, again, guard, work, left>>

\* Behind a tripped breaker the batch is dropped; above the cap it becomes a
\* full rebuild.
Flush ==
  /\ NewTurn /\ armed /\ ~batch /\ ~over /\ pending # {}
  /\ armed' = FALSE /\ pending' = {}
  /\ \/ /\ tripped # "no"
        /\ NoRequest /\ UNCHANGED <<batch, batchOn>>
     \/ /\ tripped = "no" /\ Cardinality(pending) > MaxBatch
        /\ batch' = TRUE /\ \E s \in Slots : RequestFull(s, full) /\ batchOn' = s
     \/ /\ tripped = "no" /\ Cardinality(pending) <= MaxBatch
        /\ batch' = TRUE /\ chain' = Append(chain, [kind |-> "batch", files |-> pending])
        /\ UNCHANGED <<batchOn, queued, full>>
  /\ UNCHANGED <<dropped, head, index, poller, over, overOn, again, breaker, rate, phase, missed, left>>

\* rearmIfPending, at the end of every handler.
Rearmed == armed' = (armed \/ pending # {})

\* A full re-ingest is answered; those who waited for it go on, an overflow
\* that came meanwhile with one more rescan.
Settle(s) ==
  /\ full[s] = "done"
  /\ batch' = (batch /\ batchOn # s) /\ batchOn' = IF batchOn = s THEN 0 ELSE batchOn
  /\ LET freed == [full EXCEPT ![s] = "free"] IN
     \/ /\ overOn = s /\ again
        /\ again' = FALSE /\ CallOverflow(freed)
     \/ /\ overOn # s \/ ~again
        /\ over' = (over /\ overOn # s) /\ overOn' = IF overOn = s THEN 0 ELSE overOn
        /\ full' = freed /\ UNCHANGED <<again, queued, chain>>
  /\ Rearmed
  /\ UNCHANGED <<dropped, head, index, poller, pending, breaker, rate, phase, missed, left>>

-----------------------------------------------------------------------------
\* The ingest chain.  A run wipes or purges, then the native parse reads the
\* tree, then its rows are written.

Job == chain[1]
Turn(kind) == chain # <<>> /\ phase = "wait" /\ Job.kind = kind
Running(kind) == chain # <<>> /\ phase # "wait" /\ Job.kind = kind
Finishing(kind) == Running(kind) /\ phase = "read"
Begun == phase' = "unread" /\ UNCHANGED <<chain, missed>>
Ended == chain' = Tail(chain) /\ phase' = "wait" /\ missed' = {}
Wiped(b) == stale' = [stale EXCEPT ![b] = Files]

ReadTree ==
  /\ phase = "unread" /\ phase' = "read"
  /\ UNCHANGED <<dropped, head, index, poller, watch, guard, chain, missed, left>>

\* onBatch's turn: the rows of its files are purged before the parse.
BatchStarts ==
  /\ Turn("batch") /\ Begun
  /\ stale' = [stale EXCEPT ![served] = @ \cup Job.files]
  /\ UNCHANGED <<dropped, head, served, poller, watch, guard, left>>

BatchDone ==
  /\ batch' = FALSE /\ Rearmed /\ Ended
  /\ UNCHANGED <<dropped, head, served, poller, pending, batchOn, over, overOn, again, rate, queued, full>>

BatchOk ==
  /\ Finishing("batch") /\ NotedOk
  /\ stale' = [stale EXCEPT ![served] = @ \ (Job.files \ missed)]
  /\ BatchDone /\ UNCHANGED left

BatchFails ==
  /\ Running("batch") /\ Happens("fail") /\ NotedErr
  /\ BatchDone /\ UNCHANGED stale

\* Slip: an early return that settles no promise.
FullUnanswered == queued' = ClearSlot(Job.slot) /\ UNCHANGED full /\ Ended

\* runFull's turn: the slot is free for the next request, then the run is
\* admitted, or answered without having run.
FullStarts ==
  /\ Turn("full") /\ Admitted /\ Counted /\ Begun
  /\ queued' = ClearSlot(Job.slot) /\ full' = [full EXCEPT ![Job.slot] = "running"]
  /\ Wiped(served)
  /\ UNCHANGED <<dropped, head, served, poller, watch, breaker, left>>

FullAnswered == queued' = ClearSlot(Job.slot) /\ full' = [full EXCEPT ![Job.slot] = "done"] /\ Ended

\* A later job of the chain reads the whole tree.
ReadLater == \E i \in 2 .. Len(chain) : chain[i].kind \in {"manual", "repoint"}

FullRefused ==
  /\ Turn("full")
  /\ \/ Refused /\ UNCHANGED tripped
     \/ TooMany /\ tripped' = "rate"
  /\ FullAnswered
  /\ dropped' = (dropped \/ (tripped = "no" /\ ~TooMany /\ ~ReadLater))
  /\ UNCHANGED <<head, index, poller, watch, fails, rate, left>>

FullOk ==
  /\ Finishing("full") /\ NotedOk
  /\ stale' = [stale EXCEPT ![served] = missed]
  /\ FullAnswered
  /\ UNCHANGED <<dropped, head, served, poller, watch, rate, left>>

FullFails ==
  /\ Running("full") /\ Happens("fail") /\ NotedErr
  /\ FullAnswered
  /\ UNCHANGED <<dropped, head, index, poller, watch, rate>>

\* ingest.start: never gated, never counted, its outcome never noted.
Manual ==
  /\ NewTurn /\ Happens("manual") /\ chain' = Append(chain, [kind |-> "manual"])
  /\ UNCHANGED <<dropped, head, index, poller, watch, breaker, rate, queued, full, phase, missed>>

ManualStarts ==
  /\ Turn("manual") /\ Begun /\ Wiped(served)
  /\ UNCHANGED <<dropped, head, served, poller, watch, guard, left>>

ManualEnds ==
  /\ \/ Finishing("manual") /\ stale' = [stale EXCEPT ![served] = missed] /\ UNCHANGED left
     \/ Running("manual") /\ Happens("fail") /\ UNCHANGED stale
  /\ Ended
  /\ UNCHANGED <<dropped, head, served, poller, watch, breaker, rate, queued, full>>

-----------------------------------------------------------------------------
\* The branch poller and repointToBranch.

Checkout(b) ==
  /\ Happens("checkout") /\ b # head /\ head' = b
  /\ UNCHANGED <<dropped, index, poller, watch, guard, work>>

HeadUnreadable ==
  /\ Happens("unreadable") /\ head' = NoKey
  /\ UNCHANGED <<dropped, index, poller, watch, guard, work>>

\* A tick sees a key it does not track and is not backing off from.
Due == NewTurn /\ ~repointing /\ head # lastKey /\ ~(head = failKey /\ backing)
NoFailure == failKey' = NoKey /\ backing' = FALSE
Failed(key) == failKey' = key /\ backing' = TRUE

\* The run is counted and the transition claimed before the re-point queues.
PollClaims ==
  /\ Due /\ head # NoKey /\ Admitted /\ Counted
  /\ lastKey' = head /\ repointing' = TRUE
  /\ chain' = Append(chain, [kind |-> "repoint", key |-> head])
  /\ UNCHANGED <<dropped, head, index, failKey, backing, watch, breaker, queued, full, phase, missed, left>>

\* Without a key repointToBranch returns at once, the run counted all the same.
PollNoKey ==
  /\ Due /\ head = NoKey /\ Admitted /\ Counted
  /\ lastKey' = served /\ NoFailure /\ NotedOk
  /\ UNCHANGED <<dropped, head, index, repointing, watch, queued, full, work, left>>

PollTrips ==
  /\ Due /\ TooMany /\ tripped' = "rate"
  /\ UNCHANGED <<dropped, head, index, poller, watch, fails, rate, queued, full, work, left>>

BackoffEnds ==
  /\ backing /\ backing' = FALSE
  /\ UNCHANGED <<dropped, head, index, lastKey, repointing, failKey, watch, guard, work, left>>

RepointStarts ==
  /\ Turn("repoint") /\ Job.key # served /\ Begun /\ Wiped(Job.key)
  /\ UNCHANGED <<dropped, head, served, poller, watch, guard, left>>

RepointDone ==
  /\ repointing' = FALSE /\ Ended
  /\ UNCHANGED <<dropped, head, watch, rate, queued, full>>

\* The freshened index is swapped in; one served already is left as it is.
RepointSwaps ==
  /\ \/ Finishing("repoint") /\ stale' = [stale EXCEPT ![Job.key] = missed]
     \/ Turn("repoint") /\ Job.key = served /\ UNCHANGED stale
  /\ served' = Job.key /\ lastKey' = Job.key
  /\ NoFailure /\ NotedOk /\ RepointDone /\ UNCHANGED left

\* The freshen could not start and the seeded copy has content: it is served
\* as it was copied.
RepointUnfreshened ==
  /\ Turn("repoint") /\ Job.key # served /\ Happens("fail")
  /\ Wiped(Job.key) /\ served' = Job.key /\ lastKey' = Job.key
  /\ NoFailure /\ NotedOk /\ RepointDone

\* Slip: an aborted re-point does not give its claim back.
RepointAbortsClaimed ==
  /\ Turn("repoint") \/ Running("repoint")
  /\ Job.key # served /\ Happens("abort")
  /\ UNCHANGED lastKey /\ Failed(Job.key) /\ NotedErr
  /\ RepointDone /\ UNCHANGED index

\* The index is too new, or empty after a freshen that failed.
RepointAborts ==
  /\ Turn("repoint") \/ Running("repoint")
  /\ Job.key # served /\ Happens("abort")
  /\ lastKey' = served /\ Failed(Job.key) /\ NotedErr
  /\ RepointDone /\ UNCHANGED index

\* Resolving, opening or migrating the new index throws.
RepointThrows ==
  /\ Turn("repoint") /\ Happens("throw")
  /\ Failed(Job.key) /\ NotedErr
  /\ RepointDone /\ UNCHANGED <<index, lastKey>>

-----------------------------------------------------------------------------
Environment ==
  \/ \E f \in Files : Edit(f)
  \/ \E files \in SUBSET Files : Overflow(files)
  \/ \E b \in Branches : Checkout(b)
  \/ HeadUnreadable \/ Manual \/ Reset \/ WindowRolls

Failing == BatchFails \/ FullFails \/ RepointUnfreshened \/ RepointAborts \/ RepointThrows

Daemon ==
  \/ CoolDown \/ FlushDeferred \/ Flush
  \/ \E s \in Slots : Wake(s) \/ Settle(s)
  \/ ReadTree
  \/ BatchStarts \/ BatchOk
  \/ FullStarts \/ FullRefused \/ FullOk
  \/ ManualStarts \/ ManualEnds
  \/ PollClaims \/ PollNoKey \/ PollTrips \/ BackoffEnds
  \/ RepointStarts \/ RepointSwaps

Next == Environment \/ Failing \/ Daemon
Spec == Init /\ [][Next]_vars

\* Timers fire and promises settle: the daemon keeps taking steps.
FairSpec == Spec /\ WF_vars(Daemon)

-----------------------------------------------------------------------------
\* A job of the chain will still read f for the index it writes, or for the
\* index about to be served.
WillRead(i, f) ==
  LET job == chain[i]
      unread == i > 1 \/ phase # "read" \/ f \notin missed IN
  /\ unread
  /\ \/ job.kind \in {"full", "manual"}
     \/ job.kind = "batch" /\ f \in job.files
     \/ job.kind = "repoint" /\ job.key # served

\* Something failed, or the user reset the breaker: a batch that fails is not
\* tried again, and a reset forgets what the trip dropped.
Disturbed == \E e \in {"fail", "abort", "throw", "reset"} : left[e] < Budget[e]

\* No change is lost between the supervisor, the guard, the chain and the
\* poller: a file the served index is stale for is buffered, or a run that will
\* still read it is queued, asleep or due, or the breaker has announced that
\* automatic work stopped; until something fails or a re-point takes the
\* interval of a run that nothing stands in for.
StaleIsComing ==
  Disturbed \/ dropped \/
  \A f \in stale[served] :
    \/ f \in pending \/ again
    \/ \E i \in 1 .. Len(chain) : WillRead(i, f)
    \/ \E s \in Slots : full[s] \in {"asleep", "due"}
    \/ tripped # "no"

\* Opening or migrating an index has thrown, which leaves the claim unreconciled.
Thrown == left["throw"] < Budget["throw"]

\* Between re-points the poller's lastBranchKey is the branch that is served, so
\* a checkout is noticed and an unreached branch is tried again: through aborts,
\* unreadable heads and checkouts during a re-point, until one throws.
TrackerAgrees == Thrown \/ (~repointing => lastKey = served)

\* Buffered changes are never stranded in `pending': a flush is armed, or a handler is
\* running that arms one when it ends.
BufferedWillFlush == pending # {} => armed \/ batch \/ over

\* A handler in flight waits for a run that is still to answer: every promise
\* requestFull handed out belongs to a run that is asleep, chained or running.
NobodyWaitsForNothing ==
  /\ batch /\ batchOn = 0 => \E i \in 1 .. Len(chain) : chain[i].kind = "batch"
  /\ \A s \in Slots : full[s] \in {"chained", "running"} =>
       \E i \in 1 .. Len(chain) : chain[i] = [kind |-> "full", slot |-> s]
  /\ over => overOn # 0 /\ full[overOn] # "free"
  /\ batchOn # 0 => batch /\ full[batchOn] # "free"

\* However many overflows and large batches ask, requestFull lets at most one
\* full re-ingest wait to run.
OneRunWaits == Cardinality({s \in Slots : full[s] \in Waiting}) <= 1

\* When the tree is left alone, the served index ends up the checked-out
\* branch's and stale for nothing, unless the breaker stopped the work or a run
\* was dropped.
CatchesUp ==
  <>[](tripped # "no" \/ dropped \/ (stale[served] = {} /\ served = head))
=============================================================================
