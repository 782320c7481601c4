------------------------------ MODULE GraphReads ------------------------------
(***************************************************************************)
(* The answers an index gives at any moment between its ingest runs.  The  *)
(* tables observations and test_coverage hold what the collectors posted,  *)
(* by name; no ingest touches them, and names resolve when they are read.  *)
(***************************************************************************)
EXTENDS GraphIndex, GraphQueries

CONSTANTS Observations, Coverage   \* rows of the two tables

Everything == [traceOnly |-> FALSE, fallback |-> TRUE, rollup |-> FALSE, depth |-> MaxImpactDepth]
Precise == [Everything EXCEPT !.traceOnly = TRUE]

TracedCalls == TraceEdges(nodes, Observations)
CoveredBy == Covered(nodes, Coverage)
StaticLinks == {<<e.src, e.dst>> : e \in edges}

\* The reference: everything from which links lead into the set.
RECURSIVE Above(_, _)
Above(links, ids) ==
  LET more == ids \cup {l[1] : l \in {k \in links : k[2] \in ids}}
  IN  IF more = ids THEN ids ELSE Above(links, more)

TestsIn(ids) == {n.id : n \in {m \in nodes : m.id \in ids /\ IsTest(m)}}
Chosen(tests) == {t.id : t \in tests}
Entities(files) == {n.id : n \in {m \in nodes : m.file \in files}}

\* The tests a change of files affects are those that lead to an entity of the
\* files along calls, imports and traced calls, or that covered one, except the
\* changed ones; the minimal answer holds all of them for each changed entity that
\* no test covered, and rolling up classes changes nobody's tier.
NoTestMissed ==
  LET traced == TracedCalls
      covered == CoveredBy
  IN \A files \in SUBSET Files \ {{}} :
    LET roots == Entities(files)
        links == StaticLinks \cup {<<t.src, t.dst>> : t \in traced}
        all == AffectedTestsForFiles(nodes, edges, traced, covered, files, Everything)
        rolled == AffectedTestsForFiles(nodes, edges, traced, covered, files, [Everything EXCEPT !.rollup = TRUE])
        minimal == AffectedTestsForFiles(nodes, edges, traced, covered, files, Precise)
        covering == {c.test : c \in {x \in covered.rows : x.entity \in roots}}
        uncovered == {r \in roots : ~\E c \in covered.rows : c.entity = r}
    IN  /\ Chosen(all) = TestsIn(Above(links, roots) \cup covering) \ roots
        /\ TestsIn(Above(links, uncovered)) \ roots \subseteq Chosen(minimal)
        /\ {t.id : t \in {x \in rolled : x.observed}} = {t.id : t \in {x \in all : x.observed}}

\* The impact of an entity is what leads to it, cut at the depth asked for and
\* called cut exactly when something is missing; every call site of it is found
\* among its direct dependents, unless it calls itself: its own call sites are
\* counted, and it is no dependent of its own.
ImpactIsExact ==
  \A n \in nodes : \A depth \in 1 .. MaxImpactDepth :
    LET preview == PreviewImpact(edges, n.id, depth)
        found == {d.id : d \in preview.direct \cup preview.transitive}
    IN  /\ found \subseteq Above(StaticLinks, {n.id}) \ {n.id}
        /\ preview.capped <=> found # Above(StaticLinks, {n.id}) \ {n.id}
        /\ ~(\E e \in edges : e.src = n.id /\ e.dst = n.id) =>
             MapThenSumSet(LAMBDA d : d.callSites, preview.direct)
               = RefsSummary(edges, n.id).callSites

\* Lanes share no entity and no file, so that what depends on a seed, and what
\* is defined beside that, is in no other lane; short of hubs.
LanesApart ==
  \A files \in SUBSET Files \ {{}}, maxHub \in {1, Cardinality(edges)} :
    LET seeds == Entities(files)
        lanes == PlanLanes(nodes, edges, seeds, MaxImpactDepth, maxHub)
    IN  /\ UNION {l.seeds : l \in lanes} = seeds
        /\ \A k, l \in lanes :
             k # l => k.symbols \cap l.symbols = {} /\ k.files \cap l.files = {}
        /\ maxHub > 1 =>
             \A l \in lanes : TestsIn(Above(StaticLinks, l.seeds)) \subseteq l.symbols
=============================================================================
