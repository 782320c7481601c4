---------------------------- MODULE IngestMarker ----------------------------
(***************************************************************************)
(* The ingest-in-progress marker of one index file, and the ingests that   *)
(* write that file.                                                        *)
(*                                                                         *)
(* An ingest removes rows and puts them back over minutes, so it cannot be *)
(* one SQLite transaction.  Every ingest therefore leaves a token in the   *)
(* `stats` table while it runs (db/queries.ts), and a reader trusts the    *)
(* index only when no token is left (db/index_health.ts).  The writers are *)
(*   - the command line: one process, one handle, one ingest               *)
(*     (cli/ingest.ts);                                                    *)
(*   - the daemon: one process, one open handle at a time, many ingests    *)
(*     (cli/daemon.ts: fullIngest, the watcher's batches, the freshen of   *)
(*     a branch re-point).                                                 *)
(* Nothing keeps two writers apart: their transactions interleave.         *)
(*                                                                         *)
(* A handle's token is named by the handle: a handle mints a new token for *)
(* every ingest it declares, but holds one at a time.                      *)
(***************************************************************************)
EXTENDS FiniteSets

CONSTANTS
  Files,        \* source files of the project
  CliHandles,   \* handles of command-line ingests, a process each
  DaemonHandles,\* handles the daemon opens on this index, one after another
  Life,         \* handle of the daemon -> the daemon process that opens it
  Foreign,      \* token this build did not write (LEGACY_TOKEN, MALFORMED_TOKEN)
  Starts,       \* how the index may begin: "new", "whole", "legacy"
  Refusals,     \* may a run be refused because the project is over a cap?
  Crashes,      \* may a process be killed?
  FailingJobs,  \* jobs whose parse may fail
  BatchSets,    \* sets of files a watcher batch may hold
  IncSets       \* sets of files an incremental command may find changed

Jobs == {"full", "inc", "freshen", "batch"}
Handles == CliHandles \cup DaemonHandles
Procs == CliHandles \cup {Life[h] : h \in DaemonHandles}
Proc(h) == IF h \in CliHandles THEN h ELSE Life[h]

ASSUME MarkerAssumption ==
  /\ CliHandles \cap DaemonHandles = {} /\ CliHandles \cap {Life[h] : h \in DaemonHandles} = {}
  /\ Foreign \notin Handles
  /\ Starts \subseteq {"new", "whole", "legacy"}
  /\ Refusals \in BOOLEAN /\ Crashes \in BOOLEAN
  /\ FailingJobs \subseteq Jobs
  /\ BatchSets \subseteq SUBSET Files /\ {} \notin BatchSets
  /\ IncSets \subseteq SUBSET Files

VARIABLES
  nodes,    \* files whose node rows are in the index
  edges,    \* files whose edge and call-site rows are in the index
  claimed,  \* last_ingest_nodes > 0: the last success left rows
  marker,   \* tokens in stats.ingest_in_progress
  held,     \* handles whose ingestToken is set
  dead,     \* processes that are gone
  pc, job, scope, todo, declared   \* the run of each handle
vars == <<nodes, edges, claimed, marker, held, dead, pc, job, scope, todo, declared>>

rows == <<nodes, edges, claimed>>
run == <<job, scope, todo, declared>>

Running == {"chosen", "begun", "parse", "start", "flush", "edges", "commit"}
Steps == Running \cup {"shut", "idle", "closed"}

TypeOK ==
  /\ nodes \subseteq Files /\ edges \subseteq Files /\ claimed \in BOOLEAN
  /\ marker \subseteq Handles \cup {Foreign} /\ held \subseteq Handles
  /\ dead \subseteq Procs
  /\ pc \in [Handles -> Steps] /\ job \in [Handles -> Jobs]
  /\ scope \in [Handles -> SUBSET Files] /\ todo \in [Handles -> SUBSET Files]
  /\ declared \in [Handles -> BOOLEAN]
  /\ \A h \in held : pc[h] \in Running \cup {"idle"}

\* What a reader is told (readIndexIntegrity).
Ok == marker = {} /\ ~(nodes = {} /\ claimed)
Whole == nodes = Files /\ edges = Files

-----------------------------------------------------------------------------
\* The marker's own operations.

\* Tokens nobody will retract: an unknown one is adopted by whoever declares
\* an ingest, a dead process's one is reaped by whoever clears the graph.
Adopted(toks) == toks \ {Foreign}
Reaped(toks) == {t \in Adopted(toks) : Proc(t) \notin dead}

Begun(h) == Adopted(marker) \cup {h}
Cleared(h) == Reaped(marker) \cup {h}
\* Slip: the mark as it used to be, one flag, which any success removed.
EndedForAll(h) == {}
Ended(h) == marker \ {h}

\* A new index, a healthy one, or one that an older build left half-written.
Init ==
  /\ \/ "new" \in Starts /\ nodes = {} /\ edges = {} /\ claimed = FALSE /\ marker = {}
     \/ "whole" \in Starts /\ Whole /\ claimed = TRUE /\ marker = {}
     \/ "legacy" \in Starts /\ nodes \in SUBSET Files /\ edges \in SUBSET nodes
        /\ claimed \in BOOLEAN /\ marker = {Foreign}
  /\ held = {} /\ dead = {}
  /\ pc = [h \in Handles |-> "shut"] /\ job = [h \in Handles |-> "full"]
  /\ scope = [h \in Handles |-> {}] /\ todo = [h \in Handles |-> {}]
  /\ declared = [h \in Handles |-> FALSE]

\* The handle's run begins: its kind, its files.
Runs(h, kind, files) ==
  /\ job' = [job EXCEPT ![h] = kind]
  /\ scope' = [scope EXCEPT ![h] = files]
  /\ UNCHANGED <<todo, declared>>

To(h, step) == pc' = [pc EXCEPT ![h] = step]

Wipe(h) ==
  /\ nodes' = {} /\ edges' = {} /\ UNCHANGED claimed
  /\ marker' = Cleared(h) /\ held' = held \cup {h}

Purge(files) == nodes' = nodes \ files /\ edges' = edges \ files /\ UNCHANGED claimed

\* The daemon has one process at a time and one handle on this index.
MayOpen(h) ==
  /\ pc[h] = "shut" /\ Proc(h) \notin dead
  /\ h \in DaemonHandles =>
       \A g \in DaemonHandles \ {h} :
          pc[g] \in {"shut", "closed"} /\ (pc[g] = "closed" /\ Life[g] # Life[h] => Life[g] \in dead)

\* A handle is opened: a command, or the daemon starting to serve the index.
Open(h) ==
  /\ MayOpen(h) /\ To(h, "idle")
  /\ UNCHANGED <<rows, marker, held, dead, run>>

\* The command chooses a full rebuild: --full, or the index is not eligible.
ChooseFull(h) ==
  /\ h \in CliHandles /\ pc[h] = "idle"
  /\ To(h, "parse") /\ Runs(h, "full", Files)
  /\ UNCHANGED <<rows, marker, held, dead>>

\* The command finds the index healthy and asks git what changed; the mark
\* comes only after git has answered.
ChooseInc(h, files) ==
  /\ h \in CliHandles /\ pc[h] = "idle"
  /\ nodes # {} /\ Ok
  /\ To(h, "chosen") /\ Runs(h, "inc", files)
  /\ UNCHANGED <<rows, marker, held, dead>>

BeginInc(h) ==
  /\ pc[h] = "chosen"
  /\ marker' = Begun(h) /\ held' = held \cup {h}
  /\ To(h, IF scope[h] = {} THEN "commit" ELSE "begun")
  /\ UNCHANGED <<rows, dead, run>>

PurgeInc(h) ==
  /\ pc[h] = "begun"
  /\ Purge(scope[h]) /\ To(h, "parse")
  /\ UNCHANGED <<marker, held, dead, run>>

\* The daemon re-parses the whole project.  The parser has been started; the
\* graph is cleared before the first record is read.
DaemonFull(h) ==
  /\ h \in DaemonHandles /\ pc[h] = "idle"
  /\ Wipe(h) /\ To(h, "parse") /\ Runs(h, "full", Files)
  /\ UNCHANGED dead

\* A branch re-point opens this index and rebuilds it before it is served.
Freshen(h) ==
  /\ h \in DaemonHandles /\ MayOpen(h)
  /\ Wipe(h) /\ To(h, "parse") /\ Runs(h, "freshen", Files)
  /\ UNCHANGED dead

\* A watcher batch removes the rows of its files and starts the parser; the
\* drain will mark the index.
DaemonBatch(h, files) ==
  /\ h \in DaemonHandles /\ pc[h] = "idle"
  /\ Purge(files) /\ To(h, "parse") /\ Runs(h, "batch", files)
  /\ UNCHANGED <<marker, held, dead>>

-----------------------------------------------------------------------------
\* The drain of the parser's output, the same for every run (graph/ingest.ts).

Mark(h) ==
  /\ pc[h] = "parse"
  /\ marker' = Begun(h) /\ held' = held \cup {h}
  /\ declared' = [declared EXCEPT ![h] = h \in held]
  /\ To(h, "start") /\ UNCHANGED <<rows, dead, job, scope, todo>>

\* The run is over: a command's process exits, a failed freshen closes its
\* handle, the daemon goes on serving with the handle and what it holds.
Over(h, mine, failed) ==
  LET closes == h \in CliHandles \/ (failed /\ job[h] = "freshen") IN
  /\ To(h, IF closes THEN "closed" ELSE "idle")
  /\ held' = IF closes THEN mine \ {h} ELSE mine
  /\ dead' = IF h \in CliHandles THEN dead \cup {h} ELSE dead

\* Over the cap before anything is written.  The run takes back its own mark,
\* unless its caller had declared the ingest.
RefuseAlways(h) ==
  /\ Refusals /\ pc[h] = "start"
  /\ marker' = Ended(h)
  /\ Over(h, held \ {h}, TRUE) /\ UNCHANGED <<rows, run>>

Refuse(h) ==
  /\ Refusals /\ pc[h] = "start"
  /\ marker' = IF declared[h] THEN marker ELSE Ended(h)
  /\ Over(h, IF declared[h] THEN held ELSE held \ {h}, TRUE)
  /\ UNCHANGED <<rows, run>>

\* The parser's start record is within the cap; a command's full rebuild
\* clears the graph now.
StartRecord(h) ==
  /\ pc[h] = "start"
  /\ IF h \in CliHandles /\ job[h] = "full"
       THEN Wipe(h)
       ELSE UNCHANGED <<rows, marker, held>>
  /\ todo' = [todo EXCEPT ![h] = scope[h]]
  /\ To(h, "flush") /\ UNCHANGED <<dead, job, scope, declared>>

Flush(h, f) ==
  /\ pc[h] = "flush" /\ f \in todo[h]
  /\ nodes' = nodes \cup {f}
  /\ todo' = [todo EXCEPT ![h] = @ \ {f}]
  /\ UNCHANGED <<edges, claimed, marker, held, dead, pc, job, scope, declared>>

\* The parser exited with 0: the last node batch is in, edges may be resolved.
Exited(h) ==
  /\ pc[h] = "flush" /\ todo[h] = {}
  /\ To(h, "edges") /\ UNCHANGED <<rows, marker, held, dead, run>>

WriteEdges(h) ==
  /\ pc[h] = "edges"
  /\ edges' = edges \cup scope[h]
  /\ To(h, "commit") /\ UNCHANGED <<nodes, claimed, marker, held, dead, run>>

\* Success: the watermark, which only a full rebuild may lower, and this
\* handle's token, in one transaction.
Commit(h) ==
  /\ pc[h] = "commit"
  /\ claimed' = (nodes # {} \/ (job[h] \in {"inc", "batch"} /\ claimed))
  /\ marker' = Ended(h)
  /\ Over(h, held \ {h}, FALSE)
  /\ UNCHANGED <<nodes, edges, run>>

\* The parse fails or is killed: whatever was written stays, and so does the mark.
Fail(h) ==
  /\ pc[h] \in Running \ {"chosen"} /\ job[h] \in FailingJobs
  /\ Over(h, held, TRUE) /\ UNCHANGED <<rows, marker, run>>

\* The daemon serves another branch and closes its handle on this index.
Close(h) ==
  /\ h \in DaemonHandles /\ pc[h] = "idle"
  /\ To(h, "closed") /\ held' = held \ {h}
  /\ UNCHANGED <<rows, marker, dead, run>>

Crash(p) ==
  /\ Crashes /\ p \notin dead
  /\ \E h \in Handles : Proc(h) = p /\ pc[h] # "shut"
  /\ dead' = dead \cup {p}
  /\ held' = {h \in held : Proc(h) # p}
  /\ pc' = [h \in Handles |-> IF Proc(h) = p /\ pc[h] # "shut" THEN "closed" ELSE pc[h]]
  /\ UNCHANGED <<rows, marker, run>>

Step(h) ==
  \/ Open(h) \/ ChooseFull(h) \/ BeginInc(h) \/ PurgeInc(h)
  \/ \E files \in IncSets : ChooseInc(h, files)
  \/ DaemonFull(h) \/ Freshen(h)
  \/ \E files \in BatchSets : DaemonBatch(h, files)
  \/ Mark(h) \/ Refuse(h) \/ StartRecord(h)
  \/ \E f \in Files : Flush(h, f)
  \/ Exited(h) \/ WriteEdges(h) \/ Commit(h) \/ Fail(h) \/ Close(h)

Next == \/ \E h \in Handles : Step(h)
        \/ \E p \in Procs : Crash(p)

Spec == Init /\ [][Next]_vars

-----------------------------------------------------------------------------
\* An index that reads healthy and has content is whole: no run that removed
\* rows has lost its mark before the rows were back (db/index_health.ts,
\* readIndexIntegrity; what branch seeding, re-points and incremental
\* ingests all rely on).
HealthyIsWhole == Ok /\ nodes # {} => Whole

\* The same, asked only when nobody is writing.
QuietHealthyIsWhole ==
  (\A h \in Handles : pc[h] \notin Running) => HealthyIsWhole

\* While a handle holds a declared ingest its token is in the marker: no other
\* writer's success, clear or refusal takes it away (Db.endIngest).
HeldIsMarked == held \subseteq marker

-----------------------------------------------------------------------------
\* Why HealthyIsWhole holds: whoever removed rows that are not back yet has a
\* token in the marker, and will not take it away before they are.

\* No run will take this token away, short of a rebuild of everything.
Lost(t) == t = Foreign \/ pc[t] \in {"idle", "closed"}

\* A refusal of this run would leave its token.
Firm(t) == declared[t] \/ ~Refusals

WillFlush(t, f) ==
  \/ pc[t] \in {"begun", "parse"} /\ f \in scope[t]
  \/ pc[t] = "start" /\ f \in scope[t] /\ Firm(t)
  \/ pc[t] = "flush" /\ f \in todo[t]

WillWrite(t, f) ==
  \/ pc[t] \in {"begun", "parse", "flush", "edges"} /\ f \in scope[t]
  \/ pc[t] = "start" /\ f \in scope[t] /\ Firm(t)

NodesGuarded ==
  \A f \in Files \ nodes : \E t \in marker : Lost(t) \/ WillFlush(t, f)

EdgesGuarded ==
  \A f \in Files \ edges : \E t \in marker : Lost(t) \/ WillWrite(t, f)

\* Nothing was ever written.
Blank ==
  /\ nodes = {} /\ edges = {}
  /\ \A h \in Handles :
       \/ pc[h] \in {"shut", "idle", "closed"}
       \/ pc[h] \in {"parse", "start"} /\ h \in CliHandles /\ job[h] = "full"

\* What a handle's step says about its token.
Declares(h) ==
  /\ pc[h] \in {"begun", "start", "flush", "edges", "commit"} => h \in held
  /\ pc[h] = "parse" => (h \in held <=> ~(h \in CliHandles /\ job[h] = "full"))
  /\ pc[h] \in {"shut", "chosen"} => h \notin held
  /\ pc[h] = "idle" /\ h \in CliHandles => h \notin held
  /\ h \in marker => h \in held \/ pc[h] = "closed"
  /\ pc[h] \in Running =>
       \/ job[h] = "inc" /\ h \in CliHandles
       \/ job[h] \in {"full", "freshen"} /\ scope[h] = Files /\ pc[h] \notin {"chosen", "begun"}

MarkerInv ==
  /\ HeldIsMarked
  /\ \A h \in Handles : pc[h] \in Running \cup {"idle"} => Proc(h) \notin dead
  /\ \A h \in Handles : Declares(h)
  /\ Foreign \in marker =>
       /\ "legacy" \in Starts /\ held = {}
       /\ \A h \in Handles : pc[h] # "chosen"
  /\ Blank \/ (NodesGuarded /\ EdgesGuarded)
=============================================================================
