----------------------------- MODULE ContextPacks -----------------------------
(***************************************************************************)
(* What a reader who is going to change something is given to read         *)
(* (db/context_pack, pack_slicing, pack_neighbors, context_escalation):    *)
(* slices of files cut by the line ranges of the index's rows.  The rows   *)
(* are as old as the last ingest, the lines as the files are now, so a     *)
(* range may reach past the end of its file.  Pure functions of rows N,    *)
(* edges E and lines L (a sequence per file, or Gone for a file that       *)
(* cannot be read).  Ids and files are numbers in the order they sort in.  *)
(* The declarations found by text in imported files (opt-in) are left out. *)
(***************************************************************************)
EXTENDS GraphQueries, SequencesExt

CONSTANTS
  MaxRefLines,   \* a referenced type longer than this is left out
  Unreadable     \* a file that is deleted, denied, binary or too large

\* A row of the index; a line, with the names it mentions; the caps of a query.
PackRows == [id : Nat, file : Nat, kind : {"module", "function", "class"},
             from : Nat, to : Nat, name : Names]
Lines == [chars : Nat, blank : BOOLEAN, decoration : BOOLEAN, mentions : SUBSET Names]
Caps == [neighbors : Nat, refLines : Nat, callers : Nat, header : Nat]

Least(k, n) == IF k < n THEN k ELSE n
Most(k, n) == IF k > n THEN k ELSE n
Entitled(N, f) == {n \in N : n.file = f /\ n.kind # "module"}
FirstOf(S) == CHOOSE n \in S : \A m \in S : n.id <= m.id

\* How long a text is, its line breaks included; four characters are a token.
Chars(lines, from, to) == MapThenSumSet(LAMBDA i : lines[i].chars, from .. to) + to - from
EstimateTokens(chars) == (chars + 3) \div 4
FileTokens(L, f) == EstimateTokens(Chars(L[f], 1, Len(L[f])))
PackTokens(L, slices) == EstimateTokens(MapThenSumSet(LAMBDA s : Chars(L[s.file], s.from, s.to), slices))

Slice(role, id, f, from, to) == [role |-> role, id |-> id, file |-> f, from |-> from, to |-> to]
Key(s) == <<s.file, s.from, s.to>>
Keys(slices) == {Key(s) : s \in slices}
Shows(slices, f, l) == \E s \in slices : s.file = f /\ s.from <= l /\ l <= s.to

\* sliceNode: the part of the range that is in the file now, if any is.
SliceNode(L, n, role) ==
  IF L[n.file] = Unreadable \/ Least(Len(L[n.file]), n.to) < Most(1, n.from) THEN {}
  ELSE {Slice(role, n.id, n.file, Most(1, n.from), Least(Len(L[n.file]), n.to))}

\* The maximal runs of consecutive numbers in a set.
RunsOf(S) == {r \in S \X S : /\ r[1] <= r[2] /\ r[1] .. r[2] \subseteq S
                             /\ r[1] - 1 \notin S /\ r[2] + 1 \notin S}

-----------------------------------------------------------------------------
\* The comments, decorators and blank lines above an entity go with it, up to a
\* line an earlier row has taken; a line beyond the end reads as blank.
WithLeadingDecoration(lines, covered, start) ==
  Min({s \in 1 .. start : \A l \in s .. start - 1 :
         l \notin covered /\ (l > Len(lines) \/ lines[l].decoration)})

EntityLines(N, f, lines) ==
  LET Mark(covered, n) ==
        covered \cup {l \in WithLeadingDecoration(lines, covered, n.from) .. n.to : l <= Len(lines)}
  IN  FoldLeft(Mark, {}, SetToSortSeq(Entitled(N, f), LAMBDA n, m : n.id < m.id))

\* How far a run is from the nearest of the ranges it is kept for.
Distance(run, anchors) ==
  IF anchors = {} THEN run[1]
  ELSE Min({IF run[2] < a[1] THEN a[1] - run[2] ELSE IF run[1] > a[2] THEN run[1] - a[2] ELSE 0 :
              a \in anchors})

\* computeModuleScope: the runs of lines that belong to no entity; of too many
\* lines the farthest runs are dropped first.
ModuleScope(N, L, f, anchors, maxLines) ==
  LET lines == L[f]
      runs == {r \in RunsOf(DOMAIN lines \ EntityLines(N, f, lines)) :
                 \E l \in r[1] .. r[2] : ~lines[l].blank}
      Size(S) == MapThenSumSet(LAMBDA r : r[2] - r[1] + 1, S)
      Farther(r, s) == \/ Distance(r, anchors) > Distance(s, anchors)
                       \/ Distance(r, anchors) = Distance(s, anchors) /\ r[1] < s[1]
      Drop(kept, r) == IF Size(kept) <= maxLines THEN kept ELSE kept \ {r}
  IN  FoldLeft(Drop, runs, SetToSortSeq(runs, Farther))

Framed(runs, role, f) == {Slice(role, None, f, r[1], r[2]) : r \in runs}

-----------------------------------------------------------------------------
Overlaps(n, m) == n.file = m.file /\ n.from <= m.to /\ n.to >= m.from
Body(L, slices) == UNION {UNION {L[s.file][l].mentions : l \in s.from .. s.to} : s \in slices}

\* A neighbor that is an entity, is not inside a root and is no test, unless a
\* root is one.
Presentable(L, n, roots) ==
  /\ n.kind # "module"
  /\ \A r \in roots : ~Overlaps(n, r)
  /\ n.file \in TestFiles => \E r \in roots : r.file \in TestFiles
  /\ SliceNode(L, n, "neighbor") # {}

\* The rows at the other end of the calls into or out of the roots, the heaviest
\* first, no more than cap of them.
Heaviest(N, L, roots, weight, taken, cap) ==
  LET found == {n \in N : weight[n.id] > 0 /\ n \notin roots /\ n.id \notin taken /\ Presentable(L, n, roots)}
      Before(n, m) == weight[n.id] > weight[m.id] \/ (weight[n.id] = weight[m.id] /\ n.id < m.id)
      ranked == SetToSortSeq(found, Before)
  IN  SubSeq(ranked, 1, Least(cap, Len(ranked)))

IdsIn(rows) == {r.id : r \in rows}
CalleeWeight(E, roots, id) == Sum({e \in Calls(E) : e.src \in IdsIn(roots) /\ e.dst = id})
CallerWeight(E, roots, id) == Sum({e \in Calls(E) : e.dst \in IdsIn(roots) /\ e.src = id})

\* addRefNeighbors: the types a root's body names, those of the roots' files
\* first, then those of the files they import.
Refs(N, E, L, roots, taken, caps) ==
  LET files == {r.file : r \in roots}
      modules == {m.id : m \in {n \in N : n.kind = "module" /\ n.file \in files}}
      imported == {n.file : n \in {m \in N : \E e \in E : e.kind = "import" /\ e.src \in modules /\ e.dst = m.id}}
      named == Body(L, UNION {SliceNode(L, r, "target") : r \in roots})
      found == {n \in N : /\ n.file \in files \cup imported /\ n.kind = "class"
                          /\ n \notin roots /\ n.id \notin taken /\ n.name \in named
                          /\ n.to - n.from < MaxRefLines /\ Presentable(L, n, roots)}
      Far(n) == IF n.file \in files THEN 0 ELSE 1
      Before(n, m) == \/ Far(n) < Far(m)
                      \/ Far(n) = Far(m) /\ (n.file < m.file \/ (n.file = m.file /\ n.id < m.id))
      ranked == SetToSortSeq(found, Before)
  IN  SubSeq(ranked, 1, Least(caps.neighbors, Len(ranked)))

\* A type is cut to its first lines.
Cut(slices, n) == {[s EXCEPT !.to = Least(@, s.from + n - 1)] : s \in slices}

\* buildContextPackForSymbols, and with one root buildContextPack: the lines of
\* the roots' files outside entities, the roots, and their neighbors.
PackFor(N, E, L, roots, caps) ==
  LET asCallee == [id \in IdsIn(N) |-> CalleeWeight(E, roots, id)]
      asCaller == [id \in IdsIn(N) |-> CallerWeight(E, roots, id)]
      callees == Heaviest(N, L, roots, asCallee, {}, caps.neighbors)
      refs == Refs(N, E, L, roots, {n.id : n \in ToSet(callees)}, caps)
      callers == Heaviest(N, L, roots, asCaller, {n.id : n \in ToSet(callees) \cup ToSet(refs)},
                          caps.callers)
      readable == {r.file : r \in {m \in roots : L[m.file] # Unreadable}}
      Anchors(f) == {<<r.from, r.to>> : r \in {m \in roots : m.file = f}}
      Bodies(seq) == UNION {SliceNode(L, n, "neighbor") : n \in ToSet(seq)}
  IN  [own |-> UNION {Framed(ModuleScope(N, L, f, Anchors(f), caps.header), "header", f) : f \in readable}
                 \cup UNION {SliceNode(L, r, "target") : r \in roots},
       called |-> Bodies(callees), others |-> Cut(Bodies(refs), caps.refLines) \cup Bodies(callers),
       ahead |-> callees \o refs \o callers]

SlicesOf(pack) == pack.own \cup pack.called \cup pack.others

-----------------------------------------------------------------------------
\* The entities a changed region makes roots: the smallest that contains it, or
\* all it overlaps.
Containing(N, f, region) == {n \in Entitled(N, f) : n.from <= region[1] /\ n.to >= region[2]}
RootsOf(N, f, region) ==
  LET around == Containing(N, f, region)
      smallest == {n \in around : \A m \in around : n.to - n.from <= m.to - m.from}
  IN  IF around # {} THEN {FirstOf(smallest)}
      ELSE {n \in Entitled(N, f) : n.from <= region[2] /\ n.to >= region[1]}

\* A region that no entity contains and that has a line outside them all.
TouchesModuleScope(N, f, region) ==
  /\ Containing(N, f, region) = {}
  /\ \E l \in region[1] .. region[2] : \A n \in Entitled(N, f) : l \notin n.from .. n.to

\* Slip: no filling of the lines that are decoration of an entity.
GapsLeft(f, lines, regions, slices) == {}

\* The changed lines that are in no slice yet.
Gaps(f, lines, regions, slices) ==
  RunsOf({l \in DOMAIN lines : (\E g \in regions : g[1] <= l /\ l <= g[2]) /\ ~Shows(slices, f, l)})

\* Slices of the same lines are given once, the first that came.
PerKey(slices) == {CHOOSE s \in slices : Key(s) = k : k \in Keys(slices)}
OncePerKey(first, second) == first \cup {s \in PerKey(second) : Key(s) \notin Keys(first)}

\* What the pack of the roots shows, the lines outside entities, and what is still
\* missing of the change.
ChangeSlices(N, L, f, regions, caps, roots, pack) ==
  LET framed == \E g \in regions : TouchesModuleScope(N, f, g)
      frame == IF framed /\ L[f] # Unreadable
                 THEN Framed(ModuleScope(N, L, f, regions, caps.header), "module-frame", f) ELSE {}
      merged == OncePerKey(IF roots = {} THEN {} ELSE PerKey(SlicesOf(pack)), frame)
  IN  IF roots = {} /\ ~(framed /\ L[f] # Unreadable) THEN None
      ELSE merged \cup (IF L[f] = Unreadable THEN {}
                        ELSE Framed(Gaps(f, L[f], regions, merged), "module-frame", f))

\* The whole file where the slices are not less.
NoLargerThanFile(L, f, roots, pack, slices) ==
  LET anchor == IF roots = {} \/ pack.own # {} \/ pack.ahead = <<>> THEN f ELSE Head(pack.ahead).file
      fits == L[anchor] = Unreadable \/ FileTokens(L, anchor) = 0
              \/ PackTokens(L, slices) < FileTokens(L, anchor)
  IN  IF slices = None \/ L[f] = Unreadable \/ fits THEN slices
      ELSE {Slice("target", None, f, 1, Len(L[f]))}

\* buildContextPackForChange.
SlicesForChange(N, L, f, regions, caps, roots, pack) ==
  NoLargerThanFile(L, f, roots, pack, ChangeSlices(N, L, f, regions, caps, roots, pack))
PackForRoots(N, E, L, f, regions, caps, roots) ==
  SlicesForChange(N, L, f, regions, caps, roots, PackFor(N, E, L, roots, caps))
PackForChange(N, E, L, f, regions, caps) ==
  PackForRoots(N, E, L, f, regions, caps, UNION {RootsOf(N, f, g) : g \in regions})

-----------------------------------------------------------------------------
\* The whole-file rung: every file of the slices that can still be read; an empty
\* last line is not counted.
WholeFiles(L, files) ==
  {Slice("target", None, f, 1, IF L[f][Len(L[f])].chars = 0 THEN Len(L[f]) - 1 ELSE Len(L[f])) :
     f \in {g \in files : L[g] # Unreadable}}
WholeTokens(L, whole) == EstimateTokens(MapThenSumSet(LAMBDA s : Chars(L[s.file], 1, Len(L[s.file])), whole))

\* buildEscalatingContext: the pack; with the packs of what it calls; and the files
\* they touch, read again (Later).  A rung that adds nothing is left out.
FarSlices(N, E, L, caps, pack) ==
  LET Merge(slices, s) == OncePerKey(slices, SlicesOf(PackFor(N, E, L, {CHOOSE n \in N : n.id = s.id}, caps)))
  IN  FoldLeft(Merge, SlicesOf(pack), SetToSeq(pack.called))
WholeRung(Later, whole) == [level |-> "whole-file", slices |-> whole, tokens |-> WholeTokens(Later, whole)]
RungsOver(L, Later, near, far) ==
  <<[level |-> "pack", slices |-> near, tokens |-> PackTokens(L, near)]>>
  \o (IF far = near THEN <<>> ELSE <<[level |-> "pack-2hop", slices |-> far, tokens |-> PackTokens(L, far)]>>)
  \o <<WholeRung(Later, WholeFiles(Later, {s.file : s \in far}))>>
RungsFrom(N, E, L, Later, caps, pack) ==
  RungsOver(L, Later, SlicesOf(pack), FarSlices(N, E, L, caps, pack))
Rungs(N, E, L, Later, root, caps) == RungsFrom(N, E, L, Later, caps, PackFor(N, E, L, {root}, caps))

\* Slip: the whole-file rung is the yardstick even when none of it could be read.
RecommendedBlindly(rungs) ==
  LET whole == rungs[Len(rungs)]
      cheaper == {i \in 1 .. Len(rungs) - 1 : rungs[i].tokens < whole.tokens}
  IN  IF cheaper = {} THEN whole ELSE rungs[Min(cheaper)]

\* The cheapest rung below the whole files; if none of them could be read, the
\* cheapest that shows anything.
Recommended(rungs) ==
  LET whole == rungs[Len(rungs)]
      cheaper == {i \in 1 .. Len(rungs) - 1 : rungs[i].tokens < whole.tokens}
      filled == {i \in DOMAIN rungs : rungs[i].slices # {}}
  IN  IF whole.slices # {} THEN (IF cheaper = {} THEN whole ELSE rungs[Min(cheaper)])
      ELSE rungs[IF filled = {} THEN 1 ELSE Min(filled)]

\* selectRungForBudget: the richest rung that fits, or else the first.
SelectRungForBudget(rungs, budget) ==
  LET fitting == {i \in DOMAIN rungs : rungs[i].tokens <= budget}
  IN  IF fitting = {} THEN rungs[1] ELSE rungs[Max(fitting)]
=============================================================================
