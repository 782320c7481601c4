----------------------------- MODULE GraphQueries -----------------------------
(***************************************************************************)
(* What is asked of an index: who depends on an entity and how far the     *)
(* dependence reaches (db/graph_walk, db/impact_preview), which tests a    *)
(* change affects (db/affected_tests, db/test_coverage,                    *)
(* graph/traceResolve), how a change falls into lanes (db/lane_planner)    *)
(* and what goes into a context pack (db/pack_neighbors).  Pure functions  *)
(* of the rows N of nodes and E of edges.  A name that is not an entity is *)
(* looked up by full text in the code; here a query names an entity.       *)
(* Ranks only order an answer and are left out, limits with them.          *)
(***************************************************************************)
EXTENDS EdgeResolver, FiniteSetsExt

CONSTANTS
  TestFiles, TestNames,   \* what looks like a test, by path and by name
  MaxImpactDepth          \* a query's depth is cut to this

Incoming(E, id) == {e \in E : e.dst = id}
Outgoing(E, id) == {e \in E : e.src = id}
Calls(E) == {e \in E : e.kind = "static_call"}
Sum(rows) == MapThenSumSet(LAMBDA e : e.weight, rows)
Greatest(numbers) == IF numbers = {} THEN 0 ELSE Max(numbers)

\* refsSummary: how many callers and importers, at how many places.
RefsSummary(E, id) ==
  LET calls == Incoming(Calls(E), id)
      imports == Incoming(E, id) \ calls
  IN  [callers |-> Cardinality(calls), importers |-> Cardinality(imports),
       callSites |-> Sum(calls), importSites |-> Sum(imports)]

-----------------------------------------------------------------------------
\* The breadth-first walk against the edges, level by level.
Balls(E, root, cap) ==
  LET ball[d \in 0 .. cap] ==
        IF d = 0 THEN {root}
        ELSE LET near == ball[d - 1] IN near \cup {e.src : e \in {g \in E : g.dst \in near}}
  IN  [d \in 0 .. cap |-> ball[d]]

DepthIn(balls, id) == Min({d \in DOMAIN balls : id \in balls[d]})
DepthCap(depth) == IF depth > MaxImpactDepth THEN MaxImpactDepth ELSE IF depth < 1 THEN 1 ELSE depth

\* Slip: the walk is called cut off whenever it used its whole depth.
ImpactOfEager(E, root, depth) ==
  LET cap == DepthCap(depth)
      balls == Balls(E, root, cap)
  IN  [hits |-> {[id |-> x, depth |-> DepthIn(balls, x)] : x \in balls[cap] \ {root}},
       capped |-> balls[cap] # balls[cap - 1]]

\* Everything that depends on root, and whether something lies beyond the cap.
ImpactOf(E, root, depth) ==
  LET cap == DepthCap(depth)
      balls == Balls(E, root, cap)
      frontier == balls[cap] \ balls[cap - 1]
  IN  [hits |-> {[id |-> x, depth |-> DepthIn(balls, x)] : x \in balls[cap] \ {root}},
       capped |-> \E e \in E : e.dst \in frontier /\ e.src \notin balls[cap]]

\* How many hits hang below each hit, inside the radius.
SubtreeSizes(E, root, hits) ==
  LET within == {e \in E : e.src \in hits \cup {root}}
  IN  [h \in hits |-> Cardinality(Balls(within, h, Cardinality(hits) + 1)[Cardinality(hits) + 1]) - 1]

\* previewImpact: the direct dependents, with the call sites a change of the
\* signature touches, and the ones behind them.
PreviewImpact(E, root, depth) ==
  LET impact == ImpactOf(E, root, depth)
      sizes == SubtreeSizes(E, root, {h.id : h \in impact.hits})
      From(id) == {e \in Incoming(E, root) : e.src = id}
      Via(id) == {e.kind : e \in From(id)}
  IN  [direct |-> {[id |-> h.id, via |-> Via(h.id), callSites |-> Sum(Calls(From(h.id))),
                    subtree |-> sizes[h.id]] : h \in {x \in impact.hits : x.depth = 1}},
       transitive |-> {[id |-> h.id, depth |-> h.depth, subtree |-> sizes[h.id]] :
                         h \in {x \in impact.hits : x.depth > 1}},
       capped |-> impact.capped]

-----------------------------------------------------------------------------
\* A name as a tracer reports it: the file it hints at and the qualified name.
\* One candidate is taken, of several the only one in the hinted file.
Hinted(candidates, raw) ==
  IF Cardinality(candidates) <= 1 THEN Only({n.id : n \in candidates})
  ELSE Only({n.id : n \in {m \in candidates : m.file = raw.file}})

\* A class and a name first, then the bare name.
ResolveTraced(N, raw) ==
  LET leaf == raw.name[Len(raw.name)]
      qualified == {n \in N : Len(raw.name) >= 2 /\ Tail(n.id) = raw.name}
      named == {n \in N : ~IsModule(n) /\ Name(n) = leaf}
      joined == Hinted(qualified, raw)
  IN  IF joined # None THEN joined ELSE Hinted(named, raw)

\* resolvedTraceEdges: the observations whose two ends resolve.
TraceEdges(N, observations) ==
  {[src |-> ResolveTraced(N, o.src), dst |-> ResolveTraced(N, o.dst), weight |-> o.weight] :
     o \in {x \in observations : ResolveTraced(N, x.src) # None /\ ResolveTraced(N, x.dst) # None}}

\* buildTestCoverageIndex: what each test ran by itself, and whether any row was
\* posted, resolved or not.
Covered(N, coverage) ==
  [any |-> coverage # {}, rows |-> {[entity |-> ResolveTraced(N, c.entity), test |-> ResolveTraced(N, c.test)] :
     c \in {x \in coverage : ResolveTraced(N, x.test) # None /\ ResolveTraced(N, x.entity) # None}}]

\* What makes a node a test.
IsTest(n) == n.file \in TestFiles \/ (~IsModule(n) /\ Name(n) \in TestNames)

-----------------------------------------------------------------------------
\* reverseWalk from one root, over rows and traced calls: how each dependent
\* was come by.
ReverseWalk(E, T, root, cap) ==
  LET links == {[src |-> e.src, dst |-> e.dst] : e \in E \cup T}
      balls == Balls(links, root, cap)
      Into(rows, x) == {e \in rows : e.src = x /\ e.dst \in balls[cap - 1]}
  IN  [x \in balls[cap] \ {root} |->
         [depth |-> DepthIn(balls, x), viaTrace |-> Into(T, x) # {}, observed |-> FALSE,
          static |-> Greatest({e.weight : e \in Into(E, x)}),
          trace |-> Greatest({e.weight : e \in Into(T, x)})]]

\* The walks of several roots together: a dependent keeps its best.
Merged(walks) ==
  [x \in UNION {DOMAIN w : w \in walks} |->
     LET found == {w[x] : w \in {v \in walks : x \in DOMAIN v}} IN
     [depth |-> Min({r.depth : r \in found}), viaTrace |-> \E r \in found : r.viaTrace,
      observed |-> \E r \in found : r.observed,
      static |-> Max({r.static : r \in found}), trace |-> Max({r.trace : r \in found})]]

Seen == [depth |-> 1, viaTrace |-> TRUE, observed |-> TRUE, static |-> 0, trace |-> 1]

\* injectCoverage: a test that ran a root is observed; a root is not its own
\* dependent.
InjectCoverage(reach, C, roots) ==
  Merged({reach, [t \in {c.test : c \in {x \in C.rows : x.entity \in roots}} \ roots |-> Seen]})

\* The other methods of a method's class.
ClassSiblings(N, root) ==
  {n.id : n \in {m \in N : Len(m.id) = 3 /\ Len(root) = 3 /\ m.id # root
                           /\ m.id[1] = root[1] /\ m.id[2] = root[2]}}

\* injectClassRollup: tests that ran a sibling are reachable, never observed.
InjectClassRollup(reach, N, C, roots) ==
  LET siblings == UNION {ClassSiblings(N, r) : r \in roots} \ roots
      tests == {c.test : c \in {x \in C.rows : x.entity \in siblings}} \ roots
  IN  [t \in DOMAIN reach \cup tests |->
         IF t \notin tests THEN reach[t]
         ELSE IF t \in DOMAIN reach
           THEN [reach[t] EXCEPT !.viaTrace = TRUE, !.trace = Greatest({@, 1})]
           ELSE [Seen EXCEPT !.observed = FALSE]]

\* rankReached without the order: the dependents that are tests, all of them or
\* the tier traceOnly leaves; dispatchOnly are the ones no row leads to.
RankReached(N, reach, traceOnly, precise, static) ==
  {[id |-> n.id, observed |-> reach[n.id].observed, viaTrace |-> reach[n.id].viaTrace,
    depth |-> reach[n.id].depth, dispatchOnly |-> reach[n.id].viaTrace /\ n.id \notin static] :
     n \in {m \in N : /\ m.id \in DOMAIN reach /\ IsTest(m)
                      /\ traceOnly => IF precise THEN reach[m.id].observed ELSE reach[m.id].viaTrace}}

StaticReach(E, roots, cap) == UNION {DOMAIN ReverseWalk(E, {}, r, cap) : r \in roots}

Without(reach, ids) == [x \in DOMAIN reach \ ids |-> reach[x]]

\* What a query is asked with.
Options == [traceOnly : BOOLEAN, fallback : BOOLEAN, rollup : BOOLEAN, depth : Nat]

\* affectedTests: a single entity.  With coverage the walk is the safety net and
\* coverage the precise tier; a precise tier that is empty may fall back.
AffectedTests(N, E, T, C, root, opts) ==
  LET cap == DepthCap(opts.depth)
      precise == C.any
      walk == ReverseWalk(E, T, root, cap)
      covered == IF precise THEN InjectCoverage(walk, C, {root}) ELSE walk
      reach == IF precise /\ opts.rollup THEN InjectClassRollup(covered, N, C, {root}) ELSE covered
      static == StaticReach(E, {root}, cap)
      tests == RankReached(N, reach, opts.traceOnly, precise, static)
  IN  IF precise /\ opts.traceOnly /\ opts.fallback /\ tests = {}
        THEN RankReached(N, reach, FALSE, precise, static) ELSE tests

\* Slip: the precise tier falls back only as a whole.
AffectedTestsForFilesAtOnce(N, E, T, C, files, opts) ==
  LET cap == DepthCap(opts.depth)
      roots == {n.id : n \in {m \in N : m.file \in files}}
      reach == Without(InjectCoverage(Merged({ReverseWalk(E, T, r, cap) : r \in roots}), C, roots), roots)
      static == StaticReach(E, roots, cap)
      ranked == RankReached(N, reach, opts.traceOnly, C.any, static)
  IN  IF C.any /\ opts.traceOnly /\ opts.fallback /\ ranked = {}
        THEN RankReached(N, reach, FALSE, TRUE, static) ELSE ranked

\* affectedTestsForFiles: every entity of the files is a root; each root without
\* coverage falls back by itself.
AffectedTestsForFiles(N, E, T, C, files, opts) ==
  LET cap == DepthCap(opts.depth)
      precise == C.any
      roots == {n.id : n \in {m \in N : m.file \in files}}
      walk == Merged({ReverseWalk(E, T, r, cap) : r \in roots})
      covered == IF precise THEN InjectCoverage(walk, C, roots) ELSE walk
      rolled == IF precise /\ opts.rollup THEN InjectClassRollup(covered, N, C, roots) ELSE covered
      static == StaticReach(E, roots, cap)
      ranked == RankReached(N, Without(rolled, roots), opts.traceOnly, precise, static)
      uncovered == {r \in roots : ~\E c \in C.rows : c.entity = r}
      Fallback(r) == RankReached(N, Without(ReverseWalk(E, T, r, cap), roots), FALSE, precise, static)
      net == {t \in UNION {Fallback(r) : r \in uncovered} : ~\E u \in ranked : u.id = t.id}
  IN  ranked \cup (IF precise /\ opts.traceOnly /\ opts.fallback THEN net ELSE {})

-----------------------------------------------------------------------------
\* Slip: only seeds that share an entity are joined.
OverlapBySymbol(r, s) == r.symbols \cap s.symbols # {}

\* Two seeds that share an entity or a file cannot be changed apart.
Overlap(r, s) == r.symbols \cap s.symbols # {} \/ r.files \cap s.files # {}

\* planLanes: a seed and all that depends on it, what too many depend on left
\* out, grouped by overlap.
Radius(N, E, seed, depth, maxHub) ==
  LET hits == {h.id : h \in ImpactOf(E, seed, depth).hits}
      symbols == {seed} \cup {x \in hits : Cardinality(Incoming(E, x)) <= maxHub}
  IN  [seed |-> seed, symbols |-> symbols,
       files |-> {n.file : n \in {m \in N : m.id \in symbols}}]

PlanLanes(N, E, seeds, depth, maxHub) ==
  LET radii == {Radius(N, E, s, depth, maxHub) : s \in seeds}
      group[k \in 0 .. Cardinality(radii), r \in radii] ==
        IF k = 0 THEN {r}
        ELSE LET lane == group[k - 1, r] IN {s \in radii : \E t \in lane : Overlap(s, t)}
      lanes == {group[Cardinality(radii), r] : r \in radii}
  IN  {[seeds |-> {r.seed : r \in lane}, symbols |-> UNION {r.symbols : r \in lane},
        files |-> UNION {r.files : r \in lane}] : lane \in lanes}
=============================================================================
