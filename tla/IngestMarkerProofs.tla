------------------------- MODULE IngestMarkerProofs -------------------------
(***************************************************************************)
(* The marker of IngestMarker never lets a half-written index read         *)
(* healthy, for any set of files, commands and daemon handles, as long as  *)
(* the watcher's batches stay away and a project whose index carries an    *)
(* older build's marker is not refused for its size.  Neither condition    *)
(* can be dropped: MarkerBatchHeals is a run that breaks the first, and a  *)
(* refused run retracts the older build's marker with its own token.       *)
(* With batches it holds at rest, while only commands and freshens fail.   *)
(***************************************************************************)
EXTENDS IngestMarker, TLAPS

Settled == BatchSets = {} /\ ~("legacy" \in Starts /\ Refusals)

\* The part of the invariant that speaks of tokens alone.
Tokens ==
  /\ HeldIsMarked
  /\ \A h \in Handles : pc[h] \in Running \cup {"idle"} => Proc(h) \notin dead
  /\ \A h \in Handles : Declares(h)
  /\ Foreign \in marker =>
       /\ "legacy" \in Starts /\ held = {}
       /\ \A h \in Handles : pc[h] # "chosen"

\* Every variable keeps its type, and a token is held by an open handle only.
LEMMA InitTypes == Init => TypeOK
  BY MarkerAssumption DEF Init, TypeOK, Handles, Steps, Running, Whole, Jobs

\* Every step of a run, a batch or a re-point keeps the types.
LEMMA NextTypes == TypeOK /\ [Next]_vars => TypeOK'
<1> SUFFICES ASSUME TypeOK, [Next]_vars PROVE TypeOK'
  OBVIOUS
<1> USE MarkerAssumption DEF TypeOK, Handles, Procs, Proc, Steps, Running, Jobs, To, Runs, rows, run
<1>1. ASSUME NEW h \in Handles, Open(h) \/ ChooseFull(h) PROVE TypeOK'
  BY <1>1 DEF Open, ChooseFull, MayOpen
<1>2. ASSUME NEW h \in Handles, NEW files \in IncSets, ChooseInc(h, files) PROVE TypeOK'
  BY <1>2 DEF ChooseInc
<1>3. ASSUME NEW h \in Handles, BeginInc(h) PROVE TypeOK'
  BY <1>3 DEF BeginInc, Begun, Adopted
<1>4. ASSUME NEW h \in Handles, PurgeInc(h) PROVE TypeOK'
  BY <1>4 DEF PurgeInc, Purge
<1>5. ASSUME NEW h \in Handles, DaemonFull(h) PROVE TypeOK'
  BY <1>5 DEF DaemonFull, Wipe, Cleared, Reaped, Adopted
<1>6. ASSUME NEW h \in Handles, Freshen(h) PROVE TypeOK'
  BY <1>6 DEF Freshen, Wipe, Cleared, Reaped, Adopted, MayOpen
<1>7. ASSUME NEW h \in Handles, NEW files \in BatchSets, DaemonBatch(h, files) PROVE TypeOK'
  BY <1>7 DEF DaemonBatch, Purge
<1>8. ASSUME NEW h \in Handles, Mark(h) PROVE TypeOK'
  BY <1>8 DEF Mark, Begun, Adopted
<1>9. ASSUME NEW h \in Handles, Refuse(h) PROVE TypeOK'
  BY <1>9 DEF Refuse, Over, Ended
<1>10. ASSUME NEW h \in Handles, StartRecord(h) PROVE TypeOK'
  BY <1>10 DEF StartRecord, Wipe, Cleared, Reaped, Adopted
<1>11. ASSUME NEW h \in Handles, NEW f \in Files, Flush(h, f) PROVE TypeOK'
  BY <1>11 DEF Flush
<1>12. ASSUME NEW h \in Handles, Exited(h) \/ WriteEdges(h) PROVE TypeOK'
  BY <1>12 DEF Exited, WriteEdges
<1>13. ASSUME NEW h \in Handles, Commit(h) PROVE TypeOK'
  BY <1>13 DEF Commit, Over, Ended
<1>14. ASSUME NEW h \in Handles, Fail(h) PROVE TypeOK'
  BY <1>14 DEF Fail, Over
<1>15. ASSUME NEW h \in Handles, Close(h) PROVE TypeOK'
  BY <1>15 DEF Close
<1>16. ASSUME NEW p \in Procs, Crash(p) PROVE TypeOK'
  BY <1>16 DEF Crash
<1>17. CASE UNCHANGED vars
  BY <1>17 DEF vars
<1> QED
  BY <1>1, <1>2, <1>3, <1>4, <1>5, <1>6, <1>7, <1>8, <1>9, <1>10, <1>11, <1>12, <1>13,
     <1>14, <1>15, <1>16, <1>17 DEF Next, Step

\* The tokens at the start.
LEMMA InitTokens == Init => Tokens
  BY MarkerAssumption DEF Init, Tokens, HeldIsMarked, Declares, Running, Handles

\* No step breaks what is said of the tokens.
LEMMA NextTokens ==
  ASSUME Settled, TypeOK, Tokens, [Next]_vars
  PROVE  Tokens'
<1> USE MarkerAssumption DEF Settled, TypeOK, Tokens, HeldIsMarked, Declares, Handles, Procs, Proc,
        Running, To, Runs, rows, run
<1>1. ASSUME NEW h \in Handles, Open(h) \/ ChooseFull(h) PROVE Tokens'
  BY <1>1 DEF Open, ChooseFull, MayOpen
<1>2. ASSUME NEW h \in Handles, NEW files \in IncSets, ChooseInc(h, files) PROVE Tokens'
  BY <1>2 DEF ChooseInc, Ok
<1>3. ASSUME NEW h \in Handles, BeginInc(h) PROVE Tokens'
  BY <1>3 DEF BeginInc, Begun, Adopted
<1>4. ASSUME NEW h \in Handles, PurgeInc(h) PROVE Tokens'
  BY <1>4 DEF PurgeInc, Purge
<1>5. ASSUME NEW h \in Handles, DaemonFull(h) PROVE Tokens'
  BY <1>5 DEF DaemonFull, Wipe, Cleared, Reaped, Adopted
<1>6. ASSUME NEW h \in Handles, Freshen(h) PROVE Tokens'
  BY <1>6 DEF Freshen, Wipe, Cleared, Reaped, Adopted, MayOpen
<1>8. ASSUME NEW h \in Handles, Mark(h) PROVE Tokens'
  BY <1>8 DEF Mark, Begun, Adopted
<1>9. ASSUME NEW h \in Handles, Refuse(h) PROVE Tokens'
  BY <1>9 DEF Refuse, Over, Ended
<1>10. ASSUME NEW h \in Handles, StartRecord(h) PROVE Tokens'
  BY <1>10 DEF StartRecord, Wipe, Cleared, Reaped, Adopted
<1>11. ASSUME NEW h \in Handles, NEW f \in Files, Flush(h, f) PROVE Tokens'
  BY <1>11 DEF Flush
<1>12. ASSUME NEW h \in Handles, Exited(h) \/ WriteEdges(h) PROVE Tokens'
  BY <1>12 DEF Exited, WriteEdges
<1>13. ASSUME NEW h \in Handles, Commit(h) PROVE Tokens'
  BY <1>13 DEF Commit, Over, Ended
<1>14. ASSUME NEW h \in Handles, Fail(h) PROVE Tokens'
  BY <1>14 DEF Fail, Over
<1>15. ASSUME NEW h \in Handles, Close(h) PROVE Tokens'
  BY <1>15 DEF Close
<1>16. ASSUME NEW p \in Procs, Crash(p) PROVE Tokens'
  BY <1>16 DEF Crash
<1>17. CASE UNCHANGED vars
  BY <1>17 DEF vars
<1> QED
  BY <1>1, <1>2, <1>3, <1>4, <1>5, <1>6, <1>8, <1>9, <1>10, <1>11, <1>12, <1>13,
     <1>14, <1>15, <1>16, <1>17 DEF Next, Step

-----------------------------------------------------------------------------
Guarded == Blank \/ (NodesGuarded /\ EdgesGuarded)

\* At the start nothing was written, or nothing is missing, or the older
\* build's marker stands for what is missing.
LEMMA InitGuarded == Init => Guarded
  BY MarkerAssumption DEF Init, Guarded, Blank, NodesGuarded, EdgesGuarded, Lost, Whole, Handles

\* A handle that wiped the index will put back every file.
LEMMA WipeGuards ==
  ASSUME TypeOK, NEW h \in Handles, Wipe(h),
         \A f \in Files : WillFlush(h, f)' /\ WillWrite(h, f)'
  PROVE  Guarded'
  BY DEF TypeOK, Wipe, Guarded, NodesGuarded, EdgesGuarded, Cleared

\* A step of one handle that removes no rows keeps the guards, if no token
\* is taken away whose handle had rows to put back and what the handle will
\* put back stays the same, or its token will stay for good.
LEMMA KeepsGuards ==
  ASSUME Guarded, ~Blank, NEW h \in Handles,
         nodes \subseteq nodes', edges \subseteq edges', Files' = Files,
         \A t \in marker : Lost(t) => t \in marker' /\ Lost(t)',
         \A t \in marker, f \in Files \ nodes' :
            WillFlush(t, f) => t \in marker' /\ (WillFlush(t, f)' \/ Lost(t)'),
         \A t \in marker, f \in Files \ edges' :
            WillWrite(t, f) => t \in marker' /\ (WillWrite(t, f)' \/ Lost(t)')
  PROVE  Guarded'
  BY DEF Guarded, NodesGuarded, EdgesGuarded

\* No step leaves a missing row without a token that stands for it.
LEMMA NextGuarded ==
  ASSUME Settled, TypeOK, Tokens, Guarded, [Next]_vars
  PROVE  Guarded'
<1> USE MarkerAssumption DEF Settled, TypeOK, Handles, Procs, Proc, To, Runs, rows, run, Running
<1> DEFINE Kept ==
      /\ nodes \subseteq nodes' /\ edges \subseteq edges'
      /\ \A t \in marker : Lost(t) => t \in marker' /\ Lost(t)'
      /\ \A t \in marker, f \in Files \ nodes' :
            WillFlush(t, f) => t \in marker' /\ (WillFlush(t, f)' \/ Lost(t)')
      /\ \A t \in marker, f \in Files \ edges' :
            WillWrite(t, f) => t \in marker' /\ (WillWrite(t, f)' \/ Lost(t)')
<1>0. ASSUME NEW h \in Handles, Kept, ~Blank PROVE Guarded'
  BY <1>0, KeepsGuards
<1> USE DEF Tokens, HeldIsMarked, Declares
<1>1. ASSUME NEW h \in Handles, Open(h) \/ ChooseFull(h) PROVE Guarded'
  <2>1. Blank => Blank'
    BY <1>1 DEF Open, ChooseFull, MayOpen, Blank
  <2>2. Kept
    BY <1>1 DEF Open, ChooseFull, MayOpen, Lost, WillFlush, WillWrite, Firm
  <2> QED
    BY <2>1, <2>2, <1>0 DEF Guarded
<1>2. ASSUME NEW h \in Handles, NEW files \in IncSets, ChooseInc(h, files) PROVE Guarded'
  <2>1. ~Blank
    BY <1>2 DEF ChooseInc, Blank
  <2>2. Kept
    BY <1>2 DEF ChooseInc, Ok
  <2> QED
    BY <2>1, <2>2, <1>0
<1>3. ASSUME NEW h \in Handles, BeginInc(h) PROVE Guarded'
  <2>1. ~Blank
    BY <1>3 DEF BeginInc, Blank
  <2>2. Kept
    BY <1>3 DEF BeginInc, Begun, Adopted, Lost, WillFlush, WillWrite, Firm
  <2> QED
    BY <2>1, <2>2, <1>0
<1>4. ASSUME NEW h \in Handles, PurgeInc(h) PROVE Guarded'
  <2>1. ~Blank /\ h \in marker
    BY <1>4 DEF PurgeInc, Blank
  <2>2. ASSUME NEW t \in marker PROVE Lost(t) => Lost(t)'
    BY <1>4, <2>2 DEF PurgeInc, Lost
  <2>3. ASSUME NEW t \in marker, NEW f \in Files
        PROVE (WillFlush(t, f) => WillFlush(t, f)') /\ (WillWrite(t, f) => WillWrite(t, f)')
    BY <1>4, <2>3 DEF PurgeInc, WillFlush, WillWrite, Firm
  <2>4. ASSUME NEW f \in scope[h] PROVE WillFlush(h, f)' /\ WillWrite(h, f)'
    BY <1>4, <2>4 DEF PurgeInc, WillFlush, WillWrite
  <2>5. NodesGuarded' /\ EdgesGuarded'
    BY <1>4, <2>1, <2>2, <2>3, <2>4 DEF PurgeInc, Purge, Guarded, NodesGuarded, EdgesGuarded
  <2> QED
    BY <2>5 DEF Guarded
<1>5. ASSUME NEW h \in Handles, DaemonFull(h) PROVE Guarded'
  <2>1. \A f \in Files : WillFlush(h, f)' /\ WillWrite(h, f)'
    BY <1>5 DEF DaemonFull, WillFlush, WillWrite
  <2> QED
    BY <1>5, <2>1, WipeGuards DEF DaemonFull
<1>6. ASSUME NEW h \in Handles, Freshen(h) PROVE Guarded'
  <2>1. \A f \in Files : WillFlush(h, f)' /\ WillWrite(h, f)'
    BY <1>6 DEF Freshen, WillFlush, WillWrite
  <2> QED
    BY <1>6, <2>1, WipeGuards DEF Freshen
<1>8. ASSUME NEW h \in Handles, Mark(h) PROVE Guarded'
  <2>1. Blank => Blank'
    BY <1>8 DEF Mark, Blank
  <2>2. CASE h \in held
    <3>1. Kept
      BY <1>8, <2>2 DEF Mark, Begun, Adopted, Lost, WillFlush, WillWrite, Firm
    <3> QED
      BY <2>1, <3>1, <1>0 DEF Guarded
  <2>3. CASE h \notin held /\ Foreign \notin marker
    <3>1. Kept
      BY <1>8, <2>3 DEF Mark, Begun, Adopted, Lost, WillFlush, WillWrite, Firm
    <3> QED
      BY <2>1, <3>1, <1>0 DEF Guarded
  <2>4. CASE h \notin held /\ Foreign \in marker
    <3>1. \A f \in Files : WillFlush(h, f)' /\ WillWrite(h, f)'
      BY <1>8, <2>4 DEF Mark, WillFlush, WillWrite, Firm
    <3>2. h \in marker'
      BY <1>8 DEF Mark, Begun
    <3> QED
      BY <3>1, <3>2 DEF Guarded, NodesGuarded, EdgesGuarded
  <2> QED
    BY <2>2, <2>3, <2>4
<1>9. ASSUME NEW h \in Handles, Refuse(h) PROVE Guarded'
  <2>1. Blank => Blank'
    BY <1>9 DEF Refuse, Over, Blank
  <2>2. Kept
    BY <1>9 DEF Refuse, Over, Ended, Lost, WillFlush, WillWrite, Firm
  <2> QED
    BY <2>1, <2>2, <1>0 DEF Guarded
<1>10. ASSUME NEW h \in Handles, StartRecord(h) PROVE Guarded'
  <2>1. CASE h \in CliHandles /\ job[h] = "full"
    <3>1. \A f \in Files : WillFlush(h, f)' /\ WillWrite(h, f)'
      BY <1>10, <2>1 DEF StartRecord, WillFlush, WillWrite
    <3> QED
      BY <1>10, <2>1, <3>1, WipeGuards DEF StartRecord
  <2>2. CASE ~(h \in CliHandles /\ job[h] = "full")
    <3>1. ~Blank
      BY <1>10, <2>2 DEF StartRecord, Blank
    <3>2. Kept
      BY <1>10, <2>2 DEF StartRecord, Lost, WillFlush, WillWrite, Firm
    <3> QED
      BY <3>1, <3>2, <1>0
  <2> QED
    BY <2>1, <2>2
<1>11. ASSUME NEW h \in Handles, NEW g \in Files, Flush(h, g) PROVE Guarded'
  <2>1. ~Blank
    BY <1>11 DEF Flush, Blank
  <2>2. Kept
    BY <1>11 DEF Flush, Lost, WillFlush, WillWrite, Firm
  <2> QED
    BY <2>1, <2>2, <1>0
<1>12. ASSUME NEW h \in Handles, Exited(h) \/ WriteEdges(h) PROVE Guarded'
  <2>1. ~Blank
    BY <1>12 DEF Exited, WriteEdges, Blank
  <2>2. Kept
    BY <1>12 DEF Exited, WriteEdges, Lost, WillFlush, WillWrite, Firm
  <2> QED
    BY <2>1, <2>2, <1>0
<1>13. ASSUME NEW h \in Handles, Commit(h) PROVE Guarded'
  <2>1. ~Blank
    BY <1>13 DEF Commit, Blank
  <2>2. Kept
    BY <1>13 DEF Commit, Over, Ended, Lost, WillFlush, WillWrite, Firm
  <2> QED
    BY <2>1, <2>2, <1>0
<1>14. ASSUME NEW h \in Handles, Fail(h) PROVE Guarded'
  <2>1. Blank => Blank'
    BY <1>14 DEF Fail, Over, Blank
  <2>2. Kept
    BY <1>14 DEF Fail, Over, Lost, WillFlush, WillWrite, Firm
  <2> QED
    BY <2>1, <2>2, <1>0 DEF Guarded
<1>15. ASSUME NEW h \in Handles, Close(h) PROVE Guarded'
  <2>1. Blank => Blank'
    BY <1>15 DEF Close, Blank
  <2>2. Kept
    BY <1>15 DEF Close, Lost, WillFlush, WillWrite, Firm
  <2> QED
    BY <2>1, <2>2, <1>0 DEF Guarded
<1>16. ASSUME NEW p \in Procs, Crash(p) PROVE Guarded'
  <2>1. Blank => Blank'
    BY <1>16 DEF Crash, Blank
  <2>2. Kept
    BY <1>16 DEF Crash, Lost, WillFlush, WillWrite, Firm
  <2>3. PICK h \in Handles : Proc(h) = p
    BY <1>16 DEF Crash
  <2> QED
    BY <2>1, <2>2, <1>0 DEF Guarded
<1>17. CASE UNCHANGED vars
  BY <1>17 DEF vars, Guarded, Blank, NodesGuarded, EdgesGuarded, Lost, WillFlush, WillWrite, Firm
<1> QED
  BY <1>1, <1>2, <1>3, <1>4, <1>5, <1>6, <1>8, <1>9, <1>10, <1>11, <1>12, <1>13,
     <1>14, <1>15, <1>16, <1>17 DEF Next, Step

\* MarkerInv is its two halves.
LEMMA Halves == MarkerInv <=> Tokens /\ Guarded
  BY DEF MarkerInv, Tokens, Guarded

\* The types and MarkerInv are an invariant of the marker's protocol.
THEOREM MarkerInvariant == Settled /\ Spec => [](TypeOK /\ MarkerInv)
<1>1. Init => TypeOK /\ MarkerInv
  BY InitTypes, InitTokens, InitGuarded, Halves
<1>2. Settled /\ (TypeOK /\ MarkerInv) /\ [Next]_vars => (TypeOK /\ MarkerInv)'
  <2> SUFFICES ASSUME Settled, TypeOK, MarkerInv, [Next]_vars PROVE (TypeOK /\ MarkerInv)'
    OBVIOUS
  <2>1. TypeOK'
    BY NextTypes
  <2>2. Tokens'
    BY NextTokens, Halves
  <2>3. Guarded'
    BY NextGuarded, Halves
  <2>4. MarkerInv'
    BY <2>2, <2>3 DEF MarkerInv, Tokens, Guarded
  <2> QED
    BY <2>1, <2>4
<1>3. CASE Settled
  BY <1>1, <1>2, <1>3, PTL DEF Spec
<1> QED
  BY <1>3

\* An index that reads healthy and has content is whole.
THEOREM HealthyAlwaysWhole == Settled /\ Spec => []HealthyIsWhole
<1>1. TypeOK /\ MarkerInv => HealthyIsWhole
  BY DEF TypeOK, MarkerInv, HealthyIsWhole, Ok, Whole, Blank, NodesGuarded, EdgesGuarded
<1> QED
  BY <1>1, MarkerInvariant, PTL

\* No other writer ever takes away the token of a run that has declared itself.
THEOREM DeclaredStaysMarked == Settled /\ Spec => []HeldIsMarked
<1>1. MarkerInv => HeldIsMarked
  BY DEF MarkerInv
<1> QED
  BY <1>1, MarkerInvariant, PTL

-----------------------------------------------------------------------------
(* With the watcher's batches: an index that was whole, no process killed, no *)
(* project over its cap, and only incremental commands and freshens that     *)
(* fail.  A killed, refused or failed batch has removed rows without a mark,  *)
(* a failed rebuild leaves its mark to the next batch (MarkerBatchHeals), and *)
(* a batch into a new or half-written index ends up healthy by itself.        *)
Undisturbed ==
  /\ Starts \subseteq {"whole"} /\ ~Refusals /\ ~Crashes
  /\ FailingJobs \subseteq {"inc", "freshen"}

\* A run has a mark from its first flush to its end; the one a closed handle
\* left is nobody's to take but a rebuild's.
Marked ==
  /\ \A h \in held : h \in marker /\ pc[h] # "idle"
  /\ \A h \in Handles : pc[h] \in Running \cup {"idle"} => Proc(h) \notin dead
  /\ \A h \in Handles :
       /\ pc[h] \in {"begun", "start", "flush", "edges", "commit"} => h \in held
       /\ pc[h] = "parse" /\ job[h] \in {"inc", "freshen"} => h \in held
  /\ \A h \in Handles :
       pc[h] \in Running /\ job[h] \in {"full", "freshen"} => scope[h] = Files
  /\ \A h \in Handles : pc[h] = "flush" => todo[h] \subseteq scope[h]
  /\ \A h \in DaemonHandles : pc[h] \in Running => job[h] # "inc"

\* A run that goes on will put the row back, or a closed handle left its mark.
Abandoned == \E t \in marker \cap Handles : pc[t] = "closed"
BringsNodes(h, f) ==
  \/ pc[h] \in {"begun", "parse", "start"} /\ f \in scope[h]
  \/ pc[h] = "flush" /\ f \in todo[h]
BringsEdges(h, f) == pc[h] \in {"begun", "parse", "start", "flush", "edges"} /\ f \in scope[h]
NodesReturn == \A f \in Files \ nodes : Abandoned \/ \E h \in Handles : BringsNodes(h, f)
EdgesReturn == \A f \in Files \ edges : Abandoned \/ \E h \in Handles : BringsEdges(h, f)

QuietInv == Marked /\ NodesReturn /\ EdgesReturn

\* A whole index, and nothing runs.
LEMMA InitQuiet == Undisturbed /\ Init => QuietInv
  BY MarkerAssumption DEF Undisturbed, Init, QuietInv, Marked, NodesReturn, EdgesReturn, Abandoned, Whole, Running, Handles

\* What a step does to handles, steps and marks keeps the marks where they are due.
LEMMA NextMarked ==
  ASSUME Undisturbed, TypeOK, Marked, [Next]_vars
  PROVE  Marked'
<1> USE MarkerAssumption DEF Undisturbed, TypeOK, Marked, Handles, Procs, Proc, Running, To, Runs, rows, run
<1>1. ASSUME NEW h \in Handles, Open(h) \/ ChooseFull(h) PROVE Marked'
  BY <1>1 DEF Open, ChooseFull, MayOpen
<1>2. ASSUME NEW h \in Handles, NEW files \in IncSets, ChooseInc(h, files) PROVE Marked'
  BY <1>2 DEF ChooseInc
<1>3. ASSUME NEW h \in Handles, BeginInc(h) PROVE Marked'
  BY <1>3 DEF BeginInc, Begun, Adopted
<1>4. ASSUME NEW h \in Handles, PurgeInc(h) PROVE Marked'
  BY <1>4 DEF PurgeInc, Purge
<1>5. ASSUME NEW h \in Handles, DaemonFull(h) PROVE Marked'
  BY <1>5 DEF DaemonFull, Wipe, Cleared, Reaped, Adopted
<1>6. ASSUME NEW h \in Handles, Freshen(h) PROVE Marked'
  BY <1>6 DEF Freshen, Wipe, Cleared, Reaped, Adopted, MayOpen
<1>7. ASSUME NEW h \in Handles, NEW files \in BatchSets, DaemonBatch(h, files) PROVE Marked'
  BY <1>7 DEF DaemonBatch, Purge
<1>8. ASSUME NEW h \in Handles, Mark(h) PROVE Marked'
  BY <1>8 DEF Mark, Begun, Adopted
<1>10. ASSUME NEW h \in Handles, StartRecord(h) PROVE Marked'
  BY <1>10 DEF StartRecord, Wipe, Cleared, Reaped, Adopted
<1>11. ASSUME NEW h \in Handles, NEW f \in Files, Flush(h, f) PROVE Marked'
  BY <1>11 DEF Flush
<1>12. ASSUME NEW h \in Handles, Exited(h) \/ WriteEdges(h) PROVE Marked'
  BY <1>12 DEF Exited, WriteEdges
<1>13. ASSUME NEW h \in Handles, Commit(h) PROVE Marked'
  BY <1>13 DEF Commit, Over, Ended
<1>14. ASSUME NEW h \in Handles, Fail(h) PROVE Marked'
  <2>1. h \in CliHandles \/ job[h] = "freshen" BY <1>14 DEF Fail
  <2>2. /\ pc' = [pc EXCEPT ![h] = "closed"] /\ held' = held \ {h}
        /\ dead' = IF h \in CliHandles THEN dead \cup {h} ELSE dead
    BY <1>14, <2>1 DEF Fail, Over
  <2>3. UNCHANGED <<marker, job, scope, todo>> BY <1>14 DEF Fail
  <2> QED BY <2>2, <2>3
<1>15. ASSUME NEW h \in Handles, Close(h) PROVE Marked'
  BY <1>15 DEF Close
<1>17. CASE UNCHANGED vars
  BY <1>17 DEF vars
<1> QED
  BY <1>1, <1>2, <1>3, <1>4, <1>5, <1>6, <1>7, <1>8, <1>10, <1>11, <1>12, <1>13,
     <1>14, <1>15, <1>17 DEF Next, Step, Refuse, Crash

\* Rows come back if no abandoned mark is taken away, every handle goes on to
\* bring what it would have, and the one that moves brings what it removed.
LEMMA RowsReturn ==
  ASSUME NodesReturn, EdgesReturn, NEW h \in Handles,
         Abandoned => Abandoned',
         \A g \in Handles, f \in Files :
           /\ BringsNodes(g, f) => f \in nodes' \/ BringsNodes(g, f)' \/ Abandoned'
           /\ BringsEdges(g, f) => f \in edges' \/ BringsEdges(g, f)' \/ Abandoned',
         \A f \in Files :
           /\ f \in nodes => f \in nodes' \/ BringsNodes(h, f)'
           /\ f \in edges => f \in edges' \/ BringsEdges(h, f)'
  PROVE  NodesReturn' /\ EdgesReturn'
  BY DEF NodesReturn, EdgesReturn

\* A rebuild brings everything.
LEMMA WipeReturns ==
  ASSUME NEW h \in Handles, \A f \in Files : BringsNodes(h, f)' /\ BringsEdges(h, f)'
  PROVE  NodesReturn' /\ EdgesReturn'
  BY DEF NodesReturn, EdgesReturn

\* No step loses sight of a missing row.
LEMMA NextReturn ==
  ASSUME Undisturbed, TypeOK, QuietInv, [Next]_vars
  PROVE  NodesReturn' /\ EdgesReturn'
<1> USE MarkerAssumption DEF Undisturbed, TypeOK, QuietInv, Marked, Handles, Procs, Proc, Running,
        To, Runs, rows, run
<1> DEFINE Goes(h) ==
      /\ Abandoned => Abandoned'
      /\ \A g \in Handles, f \in Files :
           /\ BringsNodes(g, f) => f \in nodes' \/ BringsNodes(g, f)' \/ Abandoned'
           /\ BringsEdges(g, f) => f \in edges' \/ BringsEdges(g, f)' \/ Abandoned'
      /\ \A f \in Files :
           /\ f \in nodes => f \in nodes' \/ BringsNodes(h, f)'
           /\ f \in edges => f \in edges' \/ BringsEdges(h, f)'
<1>0. ASSUME NEW h \in Handles, Goes(h) PROVE NodesReturn' /\ EdgesReturn'
  BY <1>0, RowsReturn
<1>1. ASSUME NEW h \in Handles, Open(h) \/ ChooseFull(h) PROVE Goes(h)
  BY <1>1 DEF Open, ChooseFull, MayOpen, Abandoned, BringsNodes, BringsEdges
<1>2. ASSUME NEW h \in Handles, NEW files \in IncSets, ChooseInc(h, files) PROVE Goes(h)
  BY <1>2 DEF ChooseInc, Abandoned, BringsNodes, BringsEdges
<1>3. ASSUME NEW h \in Handles, BeginInc(h) PROVE Goes(h)
  BY <1>3 DEF BeginInc, Begun, Adopted, Abandoned, BringsNodes, BringsEdges
<1>4. ASSUME NEW h \in Handles, PurgeInc(h) PROVE Goes(h)
  BY <1>4 DEF PurgeInc, Purge, Abandoned, BringsNodes, BringsEdges
<1>5. ASSUME NEW h \in Handles, DaemonFull(h) \/ Freshen(h) PROVE NodesReturn' /\ EdgesReturn'
  <2>1. \A f \in Files : BringsNodes(h, f)' /\ BringsEdges(h, f)'
    BY <1>5 DEF DaemonFull, Freshen, BringsNodes, BringsEdges
  <2> QED BY <2>1, WipeReturns
<1>7. ASSUME NEW h \in Handles, NEW files \in BatchSets, DaemonBatch(h, files) PROVE Goes(h)
  BY <1>7 DEF DaemonBatch, Purge, Abandoned, BringsNodes, BringsEdges
<1>8. ASSUME NEW h \in Handles, Mark(h) PROVE Goes(h)
  BY <1>8 DEF Mark, Begun, Adopted, Abandoned, BringsNodes, BringsEdges
<1>10. ASSUME NEW h \in Handles, StartRecord(h) PROVE NodesReturn' /\ EdgesReturn'
  <2>1. CASE h \in CliHandles /\ job[h] = "full"
    <3>1. \A f \in Files : BringsNodes(h, f)' /\ BringsEdges(h, f)'
      BY <1>10, <2>1 DEF StartRecord, BringsNodes, BringsEdges
    <3> QED BY <3>1, WipeReturns
  <2>2. CASE ~(h \in CliHandles /\ job[h] = "full")
    <3>1. Goes(h) BY <1>10, <2>2 DEF StartRecord, Abandoned, BringsNodes, BringsEdges
    <3> QED BY <3>1, <1>0
  <2> QED BY <2>1, <2>2
<1>11. ASSUME NEW h \in Handles, NEW g \in Files, Flush(h, g) PROVE Goes(h)
  BY <1>11 DEF Flush, Abandoned, BringsNodes, BringsEdges
<1>12. ASSUME NEW h \in Handles, Exited(h) \/ WriteEdges(h) PROVE Goes(h)
  BY <1>12 DEF Exited, WriteEdges, Abandoned, BringsNodes, BringsEdges
<1>13. ASSUME NEW h \in Handles, Commit(h) PROVE Goes(h)
  BY <1>13 DEF Commit, Over, Ended, Abandoned, BringsNodes, BringsEdges
<1>14. ASSUME NEW h \in Handles, Fail(h) PROVE Goes(h)
  BY <1>14 DEF Fail, Over, Abandoned, BringsNodes, BringsEdges
<1>15. ASSUME NEW h \in Handles, Close(h) PROVE Goes(h)
  BY <1>15 DEF Close, Abandoned, BringsNodes, BringsEdges
<1>17. CASE UNCHANGED vars
  BY <1>17 DEF vars, NodesReturn, EdgesReturn, Abandoned, BringsNodes, BringsEdges
<1> QED
  BY <1>0, <1>1, <1>2, <1>3, <1>4, <1>5, <1>7, <1>8, <1>10, <1>11, <1>12, <1>13,
     <1>14, <1>15, <1>17 DEF Next, Step, Refuse, Crash

(* While nobody writes, an index that reads healthy has every row, though    *)
(* batches purge before they mark, if it began whole and only commands and   *)
(* freshens fail.                                                             *)
THEOREM QuietAlwaysWhole == Undisturbed /\ Spec => []QuietHealthyIsWhole
<1>1. Undisturbed /\ Init => TypeOK /\ QuietInv
  BY InitTypes, InitQuiet
<1>2. Undisturbed /\ (TypeOK /\ QuietInv) /\ [Next]_vars => (TypeOK /\ QuietInv)'
  <2> SUFFICES ASSUME Undisturbed, TypeOK, QuietInv, [Next]_vars PROVE (TypeOK /\ QuietInv)'
    OBVIOUS
  <2>1. TypeOK' BY NextTypes
  <2>2. Marked' BY NextMarked DEF QuietInv
  <2>3. NodesReturn' /\ EdgesReturn' BY NextReturn
  <2> QED BY <2>1, <2>2, <2>3 DEF QuietInv
<1>3. TypeOK /\ QuietInv => QuietHealthyIsWhole
  <2> SUFFICES ASSUME TypeOK, QuietInv, \A h \in Handles : pc[h] \notin Running, marker = {} PROVE Whole
    BY DEF QuietHealthyIsWhole, HealthyIsWhole, Ok
  <2>1. ~Abandoned BY DEF Abandoned
  <2>2. \A h \in Handles, f \in Files : ~BringsNodes(h, f) /\ ~BringsEdges(h, f)
    BY DEF BringsNodes, BringsEdges, Running
  <2> QED BY <2>1, <2>2 DEF QuietInv, NodesReturn, EdgesReturn, TypeOK, Whole
<1>4. CASE Undisturbed
  BY <1>1, <1>2, <1>3, <1>4, PTL DEF Spec
<1> QED BY <1>4
=============================================================================
