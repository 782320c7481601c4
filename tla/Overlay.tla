-------------------------------- MODULE Overlay --------------------------------
(***************************************************************************)
(* The index of a linked worktree: a copy of the main checkout's index     *)
(* that is amended to the worktree's files when somebody reads it          *)
(* (worktree/overlay.ts, worktree/git.ts, db/ingest_dirty.ts,              *)
(* db/branch_index.ts).  The main checkout is edited and ingested          *)
(* meanwhile, the worktree is edited and moved to other commits, and a     *)
(* refresh may be killed anywhere.  One refresh goes on at a time, which   *)
(* is what FileLock says of refresh.lock.                                  *)
(*                                                                         *)
(* An index is the content each file's rows were read from.  The main      *)
(* checkout stays at one commit.  A parse reads its files at once, and so  *)
(* does a fingerprint.                                                     *)
(***************************************************************************)
EXTENDS Naturals, FiniteSets

CONSTANTS
  Files, Texts, Gone,      \* what is written into files; Gone for no file
  Commits, Tree,           \* the files of each commit
  Base,                    \* the main checkout's commit
  Ancestors,               \* pairs of a commit and one that comes after it
  Cap,                     \* OVERLAY_INCREMENTAL_CAP
  MaxMoves, MaxMainMoves, MaxIngests, MaxKills,    \* bounds
  None, Unknown

VARIABLES
  wt,            \* the worktree: its commit, its files and when each was written
  main,          \* the main checkout's files
  index,         \* its index: rows, the dirty record, an ingest's mark
  ingest,        \* the ingest of the main checkout that goes on, or None
  ov,            \* the overlay's file, or None
  seed,          \* the temporary copy, or None
  pc,            \* where the refresh is
  fp, plan, seeded,    \* its locals: fingerprint, change set, "has been seeded"
  seen, moved,   \* history: the files at the fingerprint, those changed since
  misled,        \* history: files whose rows are not what the overlay records of them
  moves, mainMoves, ingests, kills
mains == <<main, index, ingest, mainMoves, ingests>>
history == <<seen, moved, misled>>
vars == <<wt, moves, mains, ov, seed, pc, fp, plan, seeded, history, kills>>

Contents == Texts \cup {Gone} \cup {Tree[c][f] : c \in Commits, f \in Files}
Rows == [Files -> Contents]
Empty == [f \in Files |-> Gone]

\* git status: what differs from the commit.
Dirty(files, commit) == {f \in Files : files[f] # Tree[commit][f]}

\* worktreeFingerprint: the commit and the mtimes of what is dirty.
Fingerprint ==
  [head |-> wt.head, times |-> [f \in Dirty(wt.files, wt.head) |-> wt.times[f]]]

\* What a fingerprint, the main index and an overlay may be, and where a refresh.
Fingerprints == [head : Commits, times : UNION {[dirty -> 0 .. MaxMoves] : dirty \in SUBSET Files}]
Indexes == [rows : Rows, record : (SUBSET Files) \cup {None, Unknown}, marked : BOOLEAN]
Overlays ==
  [rows : Rows, head : Commits \cup {None}, dirty : SUBSET Files,
   stamp : Fingerprints \cup {None}, mark : {"no", "seed", "other"}, pending : BOOLEAN,
   claims : BOOLEAN]      \* last_ingest_nodes is not zero

Stages ==
  {"seed", "copy", "check", "plan", "amend", "purge", "parse", "full", "clear", "parseAll", "stamp"}

TypeOK ==
  /\ wt \in [head : Commits, files : Rows, times : [Files -> 0 .. MaxMoves]]
  /\ moves \in 0 .. MaxMoves /\ main \in Rows /\ index \in Indexes
  /\ ov \in Overlays \cup {None} /\ (pc = "check" => seed \in Indexes)
  /\ pc \in Stages \cup {"idle"}
  /\ pc # "idle" => fp \in Fingerprints /\ seen \in Rows
  /\ misled \subseteq Files /\ moved \subseteq Files

AtRest == pc = "idle" /\ fp = None /\ plan = None /\ seeded = FALSE /\ seen = None /\ moved = {}

\* A worktree of main's commit; a main checkout with at most one file edited, and its
\* index with its record or from before there was one.
Init ==
  /\ wt = [head |-> Base, files |-> Tree[Base], times |-> [f \in Files |-> 0]]
  /\ main \in {Tree[Base]} \cup {[Tree[Base] EXCEPT ![f] = t] : f \in Files, t \in Texts}
  /\ \E record \in {Dirty(main, Base), None} : index = [rows |-> main, record |-> record, marked |-> FALSE]
  /\ ingest = None /\ ov = None /\ seed = None /\ AtRest /\ misled = {}
  /\ moves = 0 /\ mainMoves = 0 /\ ingests = 0 /\ kills = 0

-----------------------------------------------------------------------------
\* The worktree's files are written, or it is moved to a commit.
MoveTo(files, commit) ==
  /\ moves < MaxMoves /\ moves' = moves + 1
  /\ <<files, commit>> # <<wt.files, wt.head>>
  /\ wt' = [head |-> commit, files |-> files,
            times |-> [f \in Files |->
              CASE files[f] \in {Gone, Tree[commit][f]} -> 0
                [] files[f] = wt.files[f] -> wt.times[f]
                [] OTHER -> moves']]
  /\ moved' = IF pc = "idle" THEN {} ELSE moved \cup {f \in Files : files[f] # wt.files[f]}
  /\ UNCHANGED <<mains, ov, seed, pc, fp, plan, seeded, seen, misled, kills>>
Edit == \E f \in Files, t \in Texts \cup {Gone} : MoveTo([wt.files EXCEPT ![f] = t], wt.head)
Checkout == \E c \in Commits : MoveTo(Tree[c], c)

\* The main checkout is edited, or its edits are stashed.
EditMain ==
  /\ mainMoves < MaxMainMoves /\ mainMoves' = mainMoves + 1
  /\ main' \in {[main EXCEPT ![f] = t] : f \in Files, t \in Texts} \cup {Tree[Base]}
  /\ main' # main
  /\ UNCHANGED <<wt, moves, index, ingest, ingests, ov, seed, pc, fp, plan, seeded, history, kills>>

\* nextIngestDirty: only a full rebuild may start a list of paths.
NextDirty(prior, full) ==
  IF full THEN Dirty(main, Base)
  ELSE IF prior \in {None, Unknown} THEN Unknown ELSE prior \cup Dirty(main, Base)

\* A full ingest of the main checkout, or a batch of its watcher, which purges
\* before the index is marked.  Its record is made after its parse.
Ingesting == UNCHANGED <<wt, moves, main, mainMoves, ov, seed, pc, fp, plan, seeded, history, kills>>
Without(rows, files) == [f \in Files |-> IF f \in files THEN Gone ELSE rows[f]]
BeginIngest ==
  /\ ingest = None /\ ingests < MaxIngests /\ ingests' = ingests + 1
  /\ \/ /\ ingest' = [full |-> TRUE, files |-> Files, step |-> "parse"]
        /\ index' = [index EXCEPT !.rows = Empty, !.marked = TRUE]
     \/ LET late == {f \in Files : index.rows[f] # main[f]}
        IN  /\ late # {} /\ ingest' = [full |-> FALSE, files |-> late, step |-> "parse"]
            /\ index' = [index EXCEPT !.rows = Without(@, late)]
  /\ Ingesting
ParseMain ==
  /\ ingest # None /\ ingest.step = "parse" /\ ingest' = [ingest EXCEPT !.step = "end"]
  /\ index' = [index EXCEPT !.rows = [f \in Files |-> IF f \in ingest.files THEN main[f] ELSE @[f]],
                            !.marked = TRUE]
  /\ UNCHANGED ingests /\ Ingesting
EndIngest ==
  /\ ingest # None /\ ingest.step = "end" /\ ingest' = None
  /\ index' = [index EXCEPT !.record = NextDirty(@, ingest.full), !.marked = FALSE]
  /\ UNCHANGED ingests /\ Ingesting

-----------------------------------------------------------------------------
\* readOverlayState, readIndexIntegrity.  Rows that an ingest counted must still be
\* there; a pending seed is one whose only mark is the seed's own.
HasNodes(rows) == rows # Empty
Emptied(o) == ~HasNodes(o.rows) /\ o.claims
Healthy(o) == o # None /\ o.mark = "no" /\ ~Emptied(o)
Pending(o) == o # None /\ o.pending /\ o.mark = "seed" /\ ~Emptied(o)
Usable(o) == (Healthy(o) \/ Pending(o)) /\ o.head # None /\ HasNodes(o.rows)

\* overlayStatus: what a reader is told.
Status ==
  IF ov = None THEN "missing"
  ELSE IF Pending(ov) THEN "stale"
  ELSE IF ~Healthy(ov) THEN "broken"
  ELSE IF ov.stamp = Fingerprint THEN "fresh" ELSE "stale"

\* refreshOverlay under the lock: a lazy refresh of a fresh overlay is over.
Look(asked) ==
  /\ pc = "idle" /\ ~(asked = "lazy" /\ Status = "fresh")
  /\ fp' = Fingerprint /\ seen' = wt.files
  /\ pc' = IF asked = "full" THEN "full" ELSE IF Usable(ov) THEN "plan" ELSE "seed"
  /\ UNCHANGED <<wt, moves, mains, ov, seed, plan, seeded, moved, misled, kills>>

Goto(step) == pc' = step /\ UNCHANGED <<wt, moves, mains, fp, seen, moved, kills>>

\* seedFromMain: the source is looked at, copied, and the copy looked at.
Seedable(i) == ~i.marked /\ HasNodes(i.rows)
SeedChosen ==
  /\ pc = "seed" /\ Goto(IF Seedable(index) THEN "copy" ELSE "full")
  /\ UNCHANGED <<ov, seed, plan, seeded, misled>>
SeedCopied ==
  /\ pc = "copy" /\ seed' = index /\ Goto("check")
  /\ UNCHANGED <<ov, plan, seeded, misled>>

\* Slip: the copy is taken for what the source was.
SourceTrusted(copy) == copy.record \notin {None, Unknown}

\* What a copy must be to start from: whole, and with a list of the files that
\* were not as committed when it was made.
CopyTrusted(copy) == Seedable(copy) /\ copy.record \notin {None, Unknown}

SeedAbandoned ==
  /\ pc = "check" /\ ~CopyTrusted(seed)
  /\ seed' = None /\ Goto("full")
  /\ UNCHANGED <<ov, plan, seeded, misled>>

\* What the seed must re-parse.
SeedDirty(copy) == copy.record \cup Dirty(main, Base)

\* The rows of the copy were counted by the ingest that wrote them.
Seeded(copy) ==
  [rows |-> copy.rows, head |-> Base, dirty |-> SeedDirty(copy), stamp |-> None,
   mark |-> "seed", pending |-> TRUE, claims |-> TRUE]
Misdescribed(o) == {f \in Files : o.rows[f] # Tree[o.head][f] /\ f \notin o.dirty}

\* History: what the copied index says nothing of, and main's files do not show.
Hidden(copy) ==
  {f \in Files : /\ ~copy.marked /\ copy.rows[f] # Tree[Base][f]
                 /\ f \notin copy.record /\ main[f] = Tree[Base][f]}

\* The copy is marked before it takes the overlay's name; a kill in between leaves
\* a temporary file that the next copy overwrites.
SeedRenamed ==
  /\ pc = "check" /\ CopyTrusted(seed)
  /\ ov' = Seeded(seed) /\ seed' = None /\ misled' = Hidden(seed)
  /\ seeded' = TRUE /\ Goto("plan")
  /\ UNCHANGED plan

-----------------------------------------------------------------------------
\* computeChangeSet: the files that may not be as the overlay's rows say.
Untracked == {f \in Files : Tree[wt.head][f] = Gone /\ wt.files[f] # Gone}
ChangeSet(o) == Dirty(wt.files, o.head) \cup Untracked \cup o.dirty
OverCap(files) == Cardinality(files) > Cap

\* The overlay's commit may be far from the worktree's, or unknown to git by now:
\* then the main index is copied, once, and after that all is parsed.
Diverged(o, files, forgotten) ==
  forgotten \/ (OverCap(files) /\ ~(o.head = fp.head \/ <<o.head, fp.head>> \in Ancestors))

Plan ==
  /\ pc = "plan"
  /\ \E forgotten \in {FALSE, ov.head \notin {Base, wt.head}} :
       LET files == ChangeSet(ov)
           there == {f \in files : wt.files[f] # Gone}
       IN  IF Diverged(ov, files, forgotten) /\ ~seeded THEN Goto("seed") /\ UNCHANGED plan
           ELSE IF forgotten \/ OverCap(files) THEN Goto("full") /\ UNCHANGED plan
           ELSE Goto("amend") /\ plan' = [changed |-> there, deleted |-> files \ there]
  /\ UNCHANGED <<ov, seed, seeded, misled>>

\* Slip: the ingest's mark goes beside the seed's.
MarkedBeside(o) == [o EXCEPT !.mark = IF @ = "seed" THEN @ ELSE "other", !.stamp = None, !.pending = FALSE]

\* The mark is taken, a seed's adopted, and the stamp withdrawn, in one transaction.
Begun(o) == [o EXCEPT !.mark = "other", !.stamp = None, !.pending = FALSE]
\* Only the ingest's own mark is retracted, and only a full parse may lower the count.
Ended(o, full) ==
  [o EXCEPT !.mark = IF @ = "other" THEN "no" ELSE @,
            !.claims = HasNodes(o.rows) \/ (@ /\ ~full)]

Amend ==
  /\ pc = "amend" /\ ov' = Begun(ov) /\ Goto("purge")
  /\ UNCHANGED <<seed, plan, seeded, misled>>
Purge ==
  /\ pc = "purge"
  /\ ov' = [ov EXCEPT !.rows = Without(@, plan.changed \cup plan.deleted)]
  /\ Goto("parse")
  /\ UNCHANGED <<seed, plan, seeded, misled>>

\* The changed files are parsed and the ingest ends, at the worktree's commit if
\* there was something to parse.  If the parser found none of them, all is parsed.
Parse ==
  /\ pc = "parse"
  /\ LET read == [ov EXCEPT !.rows = [f \in Files |-> IF f \in plan.changed THEN wt.files[f] ELSE @[f]]]
         head == IF plan.changed = {} THEN ov.head ELSE wt.head
     IN  ov' = Ended([read EXCEPT !.head = head], FALSE)
  /\ Goto(IF plan.changed # {} /\ \A f \in plan.changed : wt.files[f] = Gone THEN "full" ELSE "stamp")
  /\ misled' = misled \ (plan.changed \cup plan.deleted)
  /\ UNCHANGED <<seed, plan, seeded>>

\* A parse of everything, over an empty file if the overlay was found broken.
NewFile ==
  [rows |-> Empty, head |-> None, dirty |-> {}, stamp |-> None, mark |-> "no",
   pending |-> FALSE, claims |-> FALSE]
Withdraw ==
  /\ pc = "full"
  /\ ov' = IF ov = None \/ (plan = None /\ ~Healthy(ov) /\ ~Pending(ov)) THEN NewFile
           ELSE [ov EXCEPT !.stamp = None, !.pending = FALSE]
  /\ Goto("clear")
  /\ UNCHANGED <<seed, plan, seeded, misled>>
ClearAll ==
  /\ pc = "clear" /\ ov' = [Begun(ov) EXCEPT !.rows = Empty] /\ Goto("parseAll")
  /\ UNCHANGED <<seed, plan, seeded, misled>>
ParseAll ==
  /\ pc = "parseAll"
  /\ ov' = Ended([ov EXCEPT !.rows = wt.files, !.head = wt.head], TRUE)
  /\ misled' = {} /\ Goto("stamp")
  /\ UNCHANGED <<seed, plan, seeded>>

\* The refreshing process ends or dies; what is on disk stays.
Leave ==
  /\ pc' = "idle" /\ fp' = None /\ plan' = None /\ seeded' = FALSE /\ seen' = None /\ moved' = {}
  /\ seed' = None /\ UNCHANGED <<wt, moves, mains>>

\* writeStamp: the overlay is as the worktree was at the fingerprint.
Stamped(o) == [o EXCEPT !.head = fp.head, !.dirty = DOMAIN fp.times, !.stamp = fp, !.pending = FALSE]
Stamp ==
  /\ pc = "stamp" /\ ov' = Stamped(ov)
  /\ misled' = misled \cup {f \in moved : ov.rows[f] # seen[f]}
  /\ Leave /\ UNCHANGED kills
Kill ==
  /\ pc # "idle" /\ kills < MaxKills /\ kills' = kills + 1
  /\ misled' = IF pc \in {"stamp", "full", "clear"} /\ Usable(ov) THEN misled \cup Misdescribed(ov) ELSE misled
  /\ Leave /\ UNCHANGED ov

Refresh ==
  \/ SeedChosen \/ SeedCopied \/ SeedAbandoned \/ SeedRenamed
  \/ Plan \/ Amend \/ Purge \/ Parse \/ Withdraw \/ ClearAll \/ ParseAll \/ Stamp
Next ==
  \/ Edit \/ Checkout \/ EditMain \/ BeginIngest \/ ParseMain \/ EndIngest
  \/ \E asked \in {"lazy", "force", "full"} : Look(asked)
  \/ Refresh \/ Kill

\* A refresh goes on once begun, and somebody reads again what was not fresh.
Read == Refresh \/ Look("lazy")
Spec == Init /\ [][Next]_vars /\ WF_vars(Read)

-----------------------------------------------------------------------------
(***************************************************************************)
(* What a reader is told is fresh holds exactly the worktree's files       *)
(* (refreshOverlay's stamp, overlayStatus): through copies made while the  *)
(* main index is rebuilt, edits of main that were indexed and stashed, and *)
(* deaths of the refresh.  Three ways remain in which the code stamps rows *)
(* it does not know of, and their files are in misled: a main index that   *)
(* misdescribes itself when it is copied, an edit made and taken back      *)
(* around the parse, and a death between the ingest's end and the stamp.   *)
(***************************************************************************)
FreshIsWorktree == Status = "fresh" => \A f \in Files \ misled : ov.rows[f] = wt.files[f]

(***************************************************************************)
(* Read again and again, the overlay is fresh again after every edit, move *)
(* and death: no mark is left that nobody may take, no copy refused for    *)
(* ever (beginIngest adopting the seed's mark, the empty file under a      *)
(* broken overlay).  Only of a worktree in which nothing is left to index  *)
(* the overlay may stay broken: a refresh that purges the last rows does   *)
(* not lower the count of the rows there were, the next one copies the     *)
(* main index and purges it again (recordNodeWatermark), though nothing    *)
(* died: overlay.ts says of a broken overlay "a refresh died mid-way".     *)
(***************************************************************************)
FreshAgain == []<>(Status = "fresh" \/ (Status = "broken" /\ wt.files = Empty))
=============================================================================
