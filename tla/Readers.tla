-------------------------------- MODULE Readers --------------------------------
(***************************************************************************)
(* The index and who reads from it.  A question carries the rows and files *)
(* it is asked of, so that ranges older than their files, files that are   *)
(* gone and ties are among them, whatever the runs of ingest make of the   *)
(* tree; asked holds the question, its answer is a function of it.         *)
(***************************************************************************)
EXTENDS GraphReads, ContextPacks

CONSTANTS Changes, Ladders   \* questions about regions of a file, about an entity
VARIABLE asked

ReadersInit == Init /\ asked = None

\* Asked in one state, for the answer depends on nothing else.
Ask ==
  /\ asked = None /\ runs = 0 /\ tree = [f \in Files |-> CHOOSE c \in Versions[f] : TRUE]
  /\ asked' \in Changes \cup Ladders
  /\ UNCHANGED vars

Maintain == asked = None /\ Next /\ UNCHANGED asked
ReadersNext == Maintain \/ Ask
ReadersSpec == ReadersInit /\ [][ReadersNext]_<<vars, asked>>

AskedOf(questions) == asked # None /\ asked \in questions
Answer(q) == PackForChange(q.rows, q.edges, q.lines, q.file, q.regions, q.caps)

\* Every line of a changed region that is in the file is in the answer, however old
\* the rows; and the answer costs no more than the file, if that is not empty and the
\* rows' ranges begin in it.
ChangeIsShown ==
  AskedOf(Changes) =>
    LET q == asked
        lines == q.lines[q.file]
    IN \A slices \in {Answer(q)} :
        /\ slices # None
        /\ \A g \in q.regions : \A l \in DOMAIN lines \cap g[1] .. g[2] : Shows(slices, q.file, l)
        /\ \/ PackTokens(q.lines, slices) <= FileTokens(q.lines, q.file)
           \/ FileTokens(q.lines, q.file) = 0
           \/ \E n \in Entitled(q.rows, q.file) : n.from > Len(lines)

\* A richer rung shows what a poorer one shows, of the files that are still there;
\* the recommended one shows something if any does; and with all files there a
\* budget is answered with everything that any rung within it shows.
RungsGrow ==
  AskedOf(Ladders) =>
    LET q == asked
        Shown(r) == UNION {{<<s.file, l>> : l \in {k \in s.from .. s.to :
                              q.later[s.file] # Unreadable /\ q.later[s.file][k].chars > 0}} : s \in r.slices}
        Afforded(rungs, budget) == {r \in ToSet(rungs) : r.tokens <= budget}
    IN \A rungs \in {Rungs(q.rows, q.edges, q.lines, q.later, q.root, q.caps)} :
        /\ \A i, j \in DOMAIN rungs : i < j => Shown(rungs[i]) \subseteq Shown(rungs[j])
        /\ (\E r \in ToSet(rungs) : r.slices # {}) => Recommended(rungs).slices # {}
        /\ q.later = q.lines => \A budget \in {r.tokens : r \in ToSet(rungs)} :
             UNION {Shown(r) : r \in Afforded(rungs, budget)} = Shown(SelectRungForBudget(rungs, budget))
=============================================================================
