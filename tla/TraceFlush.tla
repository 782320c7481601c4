------------------------------ MODULE TraceFlush ------------------------------
(***************************************************************************)
(* The flusher of a trace collector (flusher.ts, .py, .go and .rs under    *)
(* trace/) and the daemon's route it posts to (routes/traces.ts).  The     *)
(* traced program records calls and per-test coverage; a timer and the     *)
(* program itself drain the counts and send them; a send can fail before,  *)
(* while or after the daemon stores it; stop() sends what is left.         *)
(*                                                                         *)
(* A row is a call edge or a (test, entity) pair and is its count.  Calls  *)
(* are stamped with the second of the drain: the daemon keeps one count of *)
(* an edge for a second, the last it was sent.                             *)
(***************************************************************************)
EXTENDS Naturals, Sequences, FiniteSets, SequencesExt, Functions

CONSTANTS
  Edges, Tests,           \* the rows there are
  Rates,                  \* the sample_rate of each collector
  Batch,                  \* FLUSH_BATCH_SIZE
  Ceiling,                \* UINT16_MAX
  MaxRecords, MaxFaults, MaxSeconds  \* bounds: calls recorded, faults of sends, the clock

Collectors == {"bun", "browser", "python", "go", "rust"}
Flushes == {"timer", "caller"}
Rows == Edges \cup Tests
Nothing == [r \in Rows |-> 0]
Seconds == 0..MaxSeconds

VARIABLES
  lang,                   \* the collector
  buf,                    \* its aggregators
  flight,                 \* what each flush has drained and not sent, in chunks
  last,                   \* no reason for Python's stop() to go on after this flush
  phase,                  \* where stop() is
  now,                    \* the clock of the program, in seconds
  stored, log,            \* the daemon's tables, by second, and its operation log
  records, faults,
  due, trouble            \* history: recorded in all, before stop(); what went wrong
vars == <<lang, buf, flight, last, phase, now, stored, log, records, faults, due, trouble>>

Plus(m, n) == [r \in Rows |-> m[r] + n[r]]
InTable == [r \in Rows |-> SumFunction([s \in Seconds |-> stored[s][r]])]
AtMost(m, n) == \A r \in Rows : m[r] <= n[r]
Of(m, rows) == [r \in Rows |-> IF r \in rows THEN m[r] ELSE 0]
Counted(m) == {r \in Rows : m[r] > 0}
Least(x, y) == IF x <= y THEN x ELSE y

TypeOK ==
  /\ lang \in Collectors /\ buf \in [Rows -> Nat] /\ records \in [Rows -> Nat]
  /\ stored \in [Seconds -> [Rows -> Nat]] /\ log \in [Rows -> Nat] /\ due \in [Rows -> Nat]
  /\ now \in Seconds /\ flight \in [Flushes -> Seq([at : Seconds, of : [Rows -> Nat]])]
  /\ phase \in {"on", "stopping", "flushing", "off"} /\ last \in BOOLEAN
  /\ trouble \subseteq
       {"unsent", "unanswered", "halved", "refused", "clamped", "uncovered", "overwritten"}

Init ==
  /\ lang \in Collectors /\ buf = Nothing /\ flight = [k \in Flushes |-> <<>>] /\ last = FALSE
  /\ phase = "on" /\ now = 0 /\ stored = [s \in Seconds |-> Nothing] /\ log = Nothing
  /\ records = Nothing /\ faults = 0 /\ due = Nothing /\ trouble = {}

-----------------------------------------------------------------------------
\* The wire's `observed' of a count; only these two check it against the ceiling.
ClampBun(n) == Least(n, Ceiling \div Rates["bun"])
ClampGo(n) == IF Least(n, Ceiling) * Rates["go"] > Ceiling THEN Ceiling \div Rates["go"] ELSE Least(n, Ceiling)
ClampBrowser(n) ==
  IF Least(n, Ceiling) * Rates["browser"] > Ceiling THEN Ceiling \div Rates["browser"] ELSE Least(n, Ceiling)
Wire(chunk) ==
  [r \in Rows |->
     IF r \in Tests THEN IF lang = "go" THEN Least(chunk[r], Ceiling) ELSE chunk[r]
     ELSE IF lang = "bun" THEN ClampBun(chunk[r])
     ELSE IF lang = "go" THEN ClampGo(chunk[r])
     ELSE IF lang = "browser" THEN ClampBrowser(chunk[r])
     ELSE chunk[r]]

\* validate: one row over the ceiling refuses the batch.
Valid(wire) == \A r \in Edges : wire[r] <= Ceiling /\ wire[r] * Rates[lang] <= Ceiling

\* Bun and Python cut both kinds of rows into batches and send them in pairs.
Cut(rows, i) ==
  LET s == SetToSeq(rows)
  IN  {s[j] : j \in {k \in 1..Len(s) : (i - 1) * Batch < k /\ k <= i * Batch}}
InChunks(m) ==
  LET pair(i) == Cut(Counted(m) \cap Edges, i) \cup Cut(Counted(m) \cap Tests, i)
      pairs == {i \in 1..Cardinality(Rows) : pair(i) # {}}
  IN  [i \in 1..Cardinality(pairs) |-> Of(m, pair(i))]
Stamped(chunks) == [i \in DOMAIN chunks |-> [at |-> now, of |-> chunks[i]]]
Drained ==
  Stamped(IF buf = Nothing THEN <<>> ELSE IF lang \in {"bun", "python"} THEN InChunks(buf) ELSE <<buf>>)

Second ==
  /\ now < MaxSeconds /\ now' = now + 1
  /\ UNCHANGED <<lang, buf, flight, last, phase, stored, log, records, faults, due, trouble>>

\* The browser and the Rust collector keep no coverage.
Record(r) ==
  /\ lang \in {"browser", "rust"} => r \in Edges
  /\ \E n \in 1..2 :
       /\ SumFunction(records) + n <= MaxRecords
       /\ buf' = [buf EXCEPT ![r] = @ + n] /\ records' = [records EXCEPT ![r] = @ + n]
       /\ due' = IF phase = "on" THEN records' ELSE due
  /\ UNCHANGED <<lang, flight, last, phase, now, stored, log, faults, trouble>>

\* flushOnce: where flushes are serialized one begins when the other is over.  One
\* that was queued, or chosen as the stop came, begins yet.
Serialized == lang \in {"bun", "browser", "python"}
Flush(k) ==
  /\ flight[k] = <<>> /\ (Serialized => \A j \in Flushes : flight[j] = <<>>)
  /\ phase = "on" \/ (phase = "stopping" /\ k = "timer")
  /\ buf # Nothing
  /\ flight' = [flight EXCEPT ![k] = Drained] /\ buf' = Nothing
  /\ UNCHANGED <<lang, last, phase, now, stored, log, records, faults, due, trouble>>

\* stop: the timer is off, and its flush waited for.
Stop ==
  /\ phase = "on" /\ flight["caller"] = <<>> /\ phase' = "stopping"
  /\ UNCHANGED <<lang, buf, flight, last, now, stored, log, records, faults, due, trouble>>

\* Slip: the last flush does not wait for the timer's.
JoinedAlways == TRUE
Joined == flight["timer"] = <<>>
LastFlush ==
  /\ phase = "stopping" /\ Joined
  /\ flight' = [flight EXCEPT !["caller"] = Drained] /\ buf' = Nothing
  /\ last' = (Counted(buf) \cap Edges = {}) /\ phase' = "flushing"
  /\ UNCHANGED <<lang, now, stored, log, records, faults, due, trouble>>

\* Python's goes on for as long as there is more, calls were drained and nothing failed.
Stopped ==
  /\ phase = "flushing" /\ flight["caller"] = <<>>
  /\ phase' = IF lang = "python" /\ buf # Nothing /\ ~last THEN "stopping" ELSE "off"
  /\ UNCHANGED <<lang, buf, flight, last, now, stored, log, records, faults, due, trouble>>

-----------------------------------------------------------------------------
\* Slip: what is put back is the estimate, not the count.
PutBackWeight(chunk) == [r \in Rows |-> IF r \in Edges THEN chunk[r] * Rates[lang] ELSE chunk[r]]

\* rebuffer, which adds to the counts that are there.
PutBack(chunk) == chunk

\* Slip: every failure is for good.
SettleBunDrops(answer, chunk) == Nothing

\* What becomes of a chunk that was answered 200, 400, 500 or not at all (0).
SettleBun(answer, chunk) == IF answer \in {200, 400} THEN Nothing ELSE PutBack(chunk)
SettlePython(answer, chunk) == IF answer \in {200, 400} THEN Nothing ELSE PutBack(chunk)
SettleBrowser == Nothing
SettleGo == Nothing
SettleRust == Nothing
Settled(answer, chunk) ==
  CASE lang = "bun" -> SettleBun(answer, chunk)
    [] lang = "python" -> SettlePython(answer, chunk)
    [] lang = "browser" -> SettleBrowser
    [] lang = "go" -> SettleGo
    [] lang = "rust" -> SettleRust

\* insertObservations: a second count of an edge for one second takes the place of
\* the first.  insertTestCoverage adds to what is there.
Upserted(took, at) ==
  [stored EXCEPT ![at] = [r \in Rows |-> IF r \in Edges /\ took[r] > 0 THEN took[r] ELSE @[r] + took[r]]]
Over(took, at) ==
  IF \E r \in Edges : took[r] > 0 /\ stored[at][r] > 0 THEN {"overwritten"} ELSE {}

\* tracesRoutes: the operations first, then the tables; coverage that the table does
\* not take is not an error.
Fault == faults < MaxFaults /\ faults' = faults + 1
Stores(wire, took, at) == stored' = Upserted(took, at) /\ log' = Plus(log, Of(wire, Edges))
Answered(answer, chunk, k) ==
  /\ buf' = Plus(buf, Settled(answer, chunk))
  /\ last' = (last \/ (k = "caller" /\ answer # 200))
Send(k) ==
  /\ flight[k] # <<>> /\ flight' = [flight EXCEPT ![k] = Tail(@)]
  /\ LET chunk == Head(flight[k]).of
         at == Head(flight[k]).at
         wire == Wire(chunk)
         cut == trouble \cup (IF wire # chunk THEN {"clamped"} ELSE {})
     IN  \/ /\ Fault /\ trouble' = trouble \cup {"unsent"}
            /\ Answered(0, chunk, k) /\ UNCHANGED <<stored, log>>
         \/ /\ ~Valid(wire) /\ trouble' = trouble \cup {"refused"} /\ UNCHANGED faults
            /\ Answered(400, chunk, k) /\ UNCHANGED <<stored, log>>
         \/ /\ Valid(wire) /\ trouble' = cut \cup Over(wire, at) /\ UNCHANGED faults
            /\ Answered(200, chunk, k) /\ Stores(wire, wire, at)
         \/ /\ Valid(wire) /\ Fault /\ trouble' = cut \cup Over(wire, at) \cup {"unanswered"}
            /\ Answered(0, chunk, k) /\ Stores(wire, wire, at)
         \/ /\ Valid(wire) /\ Fault /\ trouble' = cut \cup {"halved"}
            /\ Answered(500, chunk, k) /\ Stores(wire, Nothing, at)
         \/ /\ Valid(wire) /\ Counted(wire) \cap Tests # {}
            /\ Fault /\ trouble' = cut \cup Over(wire, at) \cup {"uncovered"}
            /\ Answered(200, chunk, k) /\ Stores(wire, Of(wire, Edges), at)
  /\ UNCHANGED <<lang, phase, now, records, due>>

Next ==
  \/ \E r \in Rows : Record(r)
  \/ \E k \in Flushes : Flush(k) \/ Send(k)
  \/ Stop \/ LastFlush \/ Stopped \/ Second
Spec == Init /\ [][Next]_vars

-----------------------------------------------------------------------------
Aloft(chunks) == [r \in Rows |-> SumFunction([i \in DOMAIN chunks |-> chunks[i].of[r]])]
Held == Plus(InTable, Plus(buf, Plus(Aloft(flight["timer"]), Aloft(flight["caller"]))))
Puts == lang \in {"bun", "python"}

(***************************************************************************)
(* No call that was recorded gets lost between the program, the buffer,    *)
(* the flushes and the daemon's table: whatever fails, where the collector *)
(* puts failed chunks back (Bun, Python), and while nothing fails where it *)
(* does not; but for a batch the daemon refused, a count cut at the        *)
(* ceiling, coverage its table did not take, and calls of an edge drained  *)
(* twice within one second (flushOnce, doFlush).                           *)
(***************************************************************************)
NothingLost ==
  /\ trouble \cap {"refused", "clamped", "uncovered", "overwritten"} = {}
  /\ Puts \/ trouble \cap {"unsent", "halved"} = {}
  => AtMost(records, Held)

(***************************************************************************)
(* No call is counted twice in the daemon's table, by overlapping flushes, *)
(* retries or stop(), unless an answer was lost on a collector that        *)
(* retries; nor in the log unless the table failed after it.               *)
(***************************************************************************)
CountedOnce ==
  /\ ~Puts \/ "unanswered" \notin trouble => AtMost(Held, records)
  /\ ~Puts \/ trouble \cap {"unanswered", "halved"} = {} => AtMost(log, records)

(***************************************************************************)
(* When stop() returns, everything recorded before it was called is in the *)
(* daemon's table, a flush of the timer that was under way included, as    *)
(* long as nothing went wrong (stop, Stop, Drop).                          *)
(***************************************************************************)
StopSendsAll == phase = "off" /\ trouble = {} => AtMost(due, InTable)
=============================================================================
