----------------------------- MODULE BranchIndexes -----------------------------
(***************************************************************************)
(* One index for each branch of a checkout (db/branch_index.ts): a branch  *)
(* first ingested is seeded with a copy of another branch's index and only *)
(* the files git says differ are parsed again (cli/ingest.ts).  A read     *)
(* opens the index of the branch that is checked out, or the one from      *)
(* before there were branches, and says so when it seems out of date       *)
(* (db/freshness.ts, db/index_health.ts).  No daemon is running.           *)
(*                                                                         *)
(* A commit is its files.  The clock counts the events an mtime or         *)
(* last_ingest_at can show; no two happen within one tick.                 *)
(***************************************************************************)
EXTENDS Naturals, FiniteSets

CONSTANTS
  Files, Texts, Gone,     \* what a file may hold; Gone for no file
  Nested,                 \* the files that are in a directory of their own
  Branches, Tips,         \* the branches and the commits they start at
  Legacy,                 \* the index from before there were branches
  MaxBranches,            \* index.maxBranches
  MaxMoves, MaxIngests, MaxKills,    \* bounds
  None

VARIABLES
  files, tips, branch,    \* the checkout: its files, the branches' commits, HEAD
  newest,                 \* the newest mtime the freshness probe finds
  store,                  \* the index of each branch and the legacy one, or None
  pc, key, full, todo, purged,    \* the ingest: where it is, its branch, its files
  moved,                  \* history: files changed and not parsed since its diff
  now, moves, ingests, kills
checkout == <<files, tips, branch, newest, moves>>
run == <<pc, key, full, todo, purged, moved>>
vars == <<checkout, store, run, now, ingests, kills>>

Contents == Texts \cup {Gone}
Rows == [Files -> Contents]
Empty == [f \in Files |-> Gone]
Head == tips[branch]
Tick == now' = now + 1

\* An index; tainted holds, as history, the files whose rows are not known to be
\* those of its commit: uncommitted when it was made, or changed meanwhile.
Indexes ==
  [rows : Rows, head : Rows \cup {None}, at : Nat, claims : BOOLEAN, marked : BOOLEAN,
   mtime : Nat, tainted : SUBSET Files]
New == [rows |-> Empty, head |-> None, at |-> 0, claims |-> FALSE, marked |-> FALSE,
        mtime |-> now, tainted |-> {}]

TypeOK ==
  /\ files \in Rows /\ tips \in [Branches -> Rows] /\ branch \in Branches
  /\ store \in [Branches \cup {Legacy} -> Indexes \cup {None}]

Init ==
  /\ tips = Tips /\ branch \in Branches /\ files = Tips[branch] /\ newest = 0 /\ now = 1
  /\ \E legacy \in {None, [New EXCEPT !.rows = files, !.head = files, !.at = 1, !.claims = TRUE]} :
       store = [k \in Branches \cup {Legacy} |-> IF k = Legacy THEN legacy ELSE None]
  /\ pc = "idle" /\ key = branch /\ full = FALSE /\ todo = {} /\ purged = {} /\ moved = {}
  /\ moves = 0 /\ ingests = 0 /\ kills = 0

-----------------------------------------------------------------------------
\* The checkout changes.  The probe stats what is at the top, git's own files, and
\* every tracked file that is there.
Moved(after) ==
  /\ moves < MaxMoves /\ moves' = moves + 1 /\ Tick /\ files' = after
  /\ moved' = IF pc = "idle" THEN {} ELSE moved \cup {f \in Files : after[f] # files[f]}
  /\ UNCHANGED <<store, pc, key, full, todo, purged, ingests, kills>>
Edit == \E f \in Files : \E t \in Contents \ {files[f]} :
  /\ Moved([files EXCEPT ![f] = t])
  /\ newest' = IF f \in Nested /\ Gone \in {t, Head[f]} THEN newest ELSE now'
  /\ UNCHANGED <<tips, branch>>
Commit ==
  /\ files # Head /\ Moved(files)
  /\ tips' = [tips EXCEPT ![branch] = files] /\ newest' = now' /\ UNCHANGED branch
Stash ==
  /\ files # Head /\ Moved(Head) /\ newest' = now' /\ UNCHANGED <<tips, branch>>
Switch == \E b \in Branches \ {branch} :
  LET dirty == {f \in Files : files[f] # Head[f]}
  IN  /\ \A f \in dirty : tips[b][f] = Head[f]
      /\ Moved([f \in Files |-> IF f \in dirty THEN files[f] ELSE tips[b][f]])
      /\ branch' = b /\ newest' = now' /\ UNCHANGED tips

-----------------------------------------------------------------------------
\* readIndexIntegrity: a graph emptied since it was last counted, or one half written.
Sound(i) == ~(i.rows = Empty /\ i.claims) /\ ~i.marked

\* isSeedableIndex.
Seedable(i) == i.rows # Empty /\ Sound(i)

\* freshestSeed: the branch index written last, the legacy one if there is none.
Seeds ==
  LET good == {b \in Branches \ {branch} : store[b] # None /\ Seedable(store[b])}
  IN  IF good # {} THEN {b \in good : \A c \in good : store[c].mtime <= store[b].mtime}
      ELSE {k \in {Legacy} : store[k] # None /\ Seedable(store[k])}

\* evictBranchesLru: beyond the limit, those that were written longest ago.
Evicted(st, kept) ==
  LET present == {b \in Branches : st[b] # None}
      others == present \ kept
      room == LET held == Cardinality(present \cap kept) IN IF held < MaxBranches THEN MaxBranches - held ELSE 0
      newer(b) == {c \in others : st[c].mtime > st[b].mtime}
  IN  [k \in DOMAIN st |-> IF k \in others /\ Cardinality(newer(k)) >= room THEN None ELSE st[k]]

\* resolveWriteIndex, and the index is opened.
Resolve(wanted) ==
  /\ pc = "idle" /\ ingests < MaxIngests /\ ingests' = ingests + 1 /\ Tick
  /\ LET copy == IF store[branch] # None THEN {store[branch]}
                 ELSE IF wanted \/ Seeds = {} THEN {None}
                 ELSE {[store[k] EXCEPT !.mtime = now'] : k \in Seeds}
     IN  \E i \in copy :
           LET st == Evicted([store EXCEPT ![branch] = i], {branch})
           IN  store' = IF i = None THEN [st EXCEPT ![branch] = [New EXCEPT !.mtime = now']] ELSE st
  /\ key' = branch /\ full' = wanted /\ pc' = "open" /\ todo' = {} /\ purged' = {} /\ moved' = {}
  /\ UNCHANGED <<checkout, kills>>

Put(i) == store' = [store EXCEPT ![key] = i]
Ingesting == UNCHANGED <<checkout, key, now, ingests, kills>>
Tracked == {f \in Files : Head[f] # Gone}
Untracked == {f \in Files \ Tracked : files[f] # Gone}

\* Slip: what is committed since is asked for, not what is in the files.
ChangedSinceCommit(ref) == {f \in Tracked : files[f] # Gone /\ Head[f] # ref[f]} \cup Untracked

\* git diff of the files with the commit the index was made at, and untracked files.
ChangedSince(ref) == {f \in Tracked : files[f] # Gone /\ files[f] # ref[f]} \cup Untracked
DeletedSince(ref) == {f \in Files : ref[f] # Gone /\ (files[f] = Gone \/ f \notin Tracked)}

\* Only a sound index with a commit is amended.
Amendable(i) == ~full /\ i.head # None /\ i.rows # Empty /\ Sound(i)
Purge ==
  /\ pc = "open" /\ Amendable(store[key])
  /\ LET i == store[key]
         late == ChangedSince(i.head)
         gone == late \cup DeletedSince(i.head)
     IN  /\ Put([i EXCEPT !.rows = [f \in Files |-> IF f \in gone THEN Gone ELSE @[f]],
                          !.marked = TRUE, !.tainted = @ \ gone])
         /\ todo' = late /\ purged' = gone /\ pc' = IF late = {} THEN "end" ELSE "parse"
  /\ moved' = {} /\ UNCHANGED full /\ Ingesting
Clear ==
  /\ pc = "open" /\ ~Amendable(store[key])
  /\ Put([store[key] EXCEPT !.rows = Empty, !.marked = TRUE, !.tainted = {}])
  /\ full' = TRUE /\ todo' = Files /\ purged' = Files /\ pc' = "parse" /\ moved' = {}
  /\ Ingesting
Parse ==
  /\ pc = "parse"
  /\ Put([store[key] EXCEPT !.rows = [f \in Files |-> IF f \in todo THEN files[f] ELSE @[f]]])
  /\ moved' = moved \ todo /\ pc' = "end" /\ UNCHANGED <<full, todo, purged>> /\ Ingesting

\* Slip: the count is never lowered.
Raised(i) == i.rows # Empty \/ i.claims

\* recordNodeWatermark: only a full ingest may say there is nothing.
Claims(i) == i.rows # Empty \/ (~full /\ i.claims)
End ==
  /\ pc = "end" /\ Tick
  /\ LET i == store[key]
     IN  Put([i EXCEPT !.head = Head, !.at = now', !.mtime = now', !.marked = FALSE,
                       !.claims = Claims(i),
                       !.tainted = @ \cup moved \cup {f \in Files : files[f] # Head[f]}])
  /\ pc' = "idle" /\ UNCHANGED <<checkout, key, full, todo, purged, moved, ingests, kills>>
Kill ==
  /\ pc # "idle" /\ kills < MaxKills /\ kills' = kills + 1 /\ pc' = "idle"
  /\ UNCHANGED <<checkout, store, key, full, todo, purged, moved, now, ingests>>

\* pruneBranches: all but the active branch's and some written last.
Prune == \E keep \in 0..1 :
  /\ pc = "idle"
  /\ LET others == {b \in Branches \ {branch} : store[b] # None}
         newer(b) == {c \in others : store[c].mtime > store[b].mtime}
     IN  /\ Cardinality(others) > keep
         /\ store' = [k \in DOMAIN store |->
                        IF k \in others /\ Cardinality(newer(k)) >= keep THEN None ELSE store[k]]
  /\ UNCHANGED <<checkout, run, now, ingests, kills>>

Next ==
  \/ Edit \/ Commit \/ Stash \/ Switch
  \/ \E wanted \in BOOLEAN : Resolve(wanted)
  \/ Purge \/ Clear \/ Parse \/ End \/ Kill \/ Prune
Spec == Init /\ [][Next]_vars

-----------------------------------------------------------------------------
\* resolveReadIndex.
Read == IF store[branch] # None THEN store[branch] ELSE store[Legacy]

\* gitSourceContentUnchanged: at the same commit, and no tracked file differs from it.
ContentUnchanged(head) == head = Head /\ \A f \in Tracked : files[f] = Head[f]

\* evaluateStaleness has nothing to say.
Quiet(i) == Sound(i) /\ (i.at = 0 \/ newest <= i.at \/ ContentUnchanged(i.head))

\* What neither the probe nor git's diff shows.
Unseen == Untracked \cup {f \in Nested : files[f] = Gone}

(***************************************************************************)
(* A read that warns of nothing answers from the files as they are         *)
(* (evaluateStaleness, resolveReadIndex): a copied index was amended to    *)
(* its own branch, an emptied or half-written one was never copied, an     *)
(* index of another commit is not taken for this one's.  Not asked of an   *)
(* index never filled, of a file that git does not track or that is gone   *)
(* from a directory, and of rows read uncommitted or during a change.      *)
(***************************************************************************)
QuietIsRight ==
  Read # None /\ Read.at > 0 /\ Quiet(Read)
    => \A f \in Files \ (Unseen \cup Read.tainted) : Read.rows[f] = files[f]

(***************************************************************************)
(* What the warning tells the user to do ends it: after an ingest of the   *)
(* branch during which nothing changed, a read is quiet (runIngest,        *)
(* evaluateStaleness), be the index it began with broken, seeded, or of    *)
(* a killed ingest; a checkout with nothing to parse needs --full.         *)
(***************************************************************************)
IngestQuiets ==
  [][End /\ moved = {} /\ branch = key /\ (full \/ store[key].rows # Empty) /\ newest <= now
       => Quiet(store[key])']_vars
=============================================================================
