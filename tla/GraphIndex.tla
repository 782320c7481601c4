------------------------------ MODULE GraphIndex ------------------------------
(***************************************************************************)
(* The rows an index keeps of a tree through full ingests, path-scoped     *)
(* ingests, the command's incremental runs and the watcher's batches       *)
(* (graph/ingest.ts, cli/ingest.ts, cli/daemon.ts, db/queries.ts).  A run  *)
(* is one step: what is half-written while it goes on is IngestMarker's    *)
(* subject.  A parse sees only the files it is handed.                     *)
(***************************************************************************)
EXTENDS EdgeResolver

CONSTANTS
  Versions,     \* what each file may contain
  Gone,         \* no such file
  Shared,       \* does another index write markdown into the same directory?
  MaxRuns       \* bound: ingest runs

\* A version of a file is what a parse makes of it, which is finite, and no file
\* is called "?".
ASSUME TreeAssumption ==
  /\ \A f \in Files : Versions[f] \subseteq Contents
  /\ \A f \in Files : \A c \in Versions[f] : IsFiniteSet(c.calls) /\ IsFiniteSet(c.imports)
  /\ "?" \notin Files
ASSUME RunsAssumption == MaxRuns \in Nat

VARIABLES
  tree,                 \* the working tree
  nodes, edges, sites,  \* tables nodes, edges, call_sites
  rejected, flagged,    \* files in merge_rejections; files whose nodes are flagged
  docs,                 \* ids that have a markdown file in nodesDir
  built,                \* history: the content each file's rows were last read from
  scoped,               \* history: files parsed over without a purge since
  runs
verdicts == <<rejected, flagged>>
vars == <<tree, nodes, edges, sites, verdicts, docs, built, scoped, runs>>

Present(files) == {f \in files : tree[f] # Gone}
Ids(N) == {n.id : n \in N}

TypeOK ==
  /\ tree \in [Files -> (UNION {Versions[f] : f \in Files}) \cup {Gone}]
  /\ \A n, m \in nodes : n.id = m.id => n = m
  /\ \A e, g \in edges : SameKey(e, g) => e = g
  /\ rejected \subseteq Files /\ flagged \subseteq Files
  /\ scoped \subseteq Files /\ runs \in 0 .. MaxRuns

Init ==
  /\ tree \in {t \in [Files -> UNION {Versions[f] : f \in Files}] : \A f \in Files : t[f] \in Versions[f]}
  /\ nodes = {} /\ edges = {} /\ sites = {}
  /\ rejected = {} /\ flagged = {} /\ docs = {}
  /\ built = [f \in Files |-> Gone] /\ scoped = {} /\ runs = 0

\* Nobody reads the tree after the last run.
Edit(f) ==
  /\ runs < MaxRuns
  /\ tree' \in {[tree EXCEPT ![f] = c] : c \in (Versions[f] \cup {Gone}) \ {tree[f]}}
  /\ UNCHANGED <<nodes, edges, sites, verdicts, docs, built, scoped, runs>>

-----------------------------------------------------------------------------
\* What a run reads from the files it is handed: their nodes, and what their
\* names resolve to among these nodes alone.
Parsed(files) == UNION {NodesOf(f, tree[f]) : f \in Present(files)}
Emitted(files) == UNION {Occurrences(Parsed(files), f, tree[f]) : f \in Present(files)}

\* drainIntoIndex on rows N, E, S: nodes are upserted, the call sites of the
\* parsed files replaced, edges written over rows of the same key.
Upserted(N, files) == {n \in N : n.id \notin Ids(Parsed(files))} \cup Parsed(files)
Written(E, files) == Replaced(E, Folded(Emitted(files)))

SitesReplaced(S, files) == {s \in S : s.file \notin Present(files)} \cup SitesOf(Emitted(files))

\* deleteNodesByFile: the rows of the files, and the edges out of their nodes.
PurgedEdges(files) == {e \in edges : e.src \notin Ids({n \in nodes : n.file \in files})}
PurgedNodes(files) == {n \in nodes : n.file \notin files}

\* Slip: the call sites of a purged file stay.
SitesKept(files) == sites

PurgedSites(files) == {s \in sites : s.file \notin files}

Run == runs < MaxRuns /\ runs' = runs + 1 /\ UNCHANGED tree

\* A whole-repo rebuild, or with --full one of the files under a path: the graph
\* is cleared first, verdicts of the verify gate go with the nodes they flag.
\* Markdown is swept when no other index shares the directory.
Full(files) ==
  /\ Run
  /\ nodes' = Upserted({}, files) /\ edges' = Written({}, files)
  /\ sites' = SitesReplaced({}, files)
  /\ docs' = IF Shared THEN docs \cup Ids(nodes') ELSE Ids(nodes')
  /\ flagged' = {} /\ UNCHANGED rejected
  /\ built' = [f \in Files |-> IF f \in files THEN tree[f] ELSE Gone] /\ scoped' = {}

\* A path-scoped ingest: nothing is cleared or purged, and nothing re-resolved.
Scoped(files) ==
  /\ Run
  /\ nodes' = Upserted(nodes, files) /\ edges' = Written(edges, files)
  /\ sites' = SitesReplaced(sites, files)
  /\ docs' = docs \cup Ids(Parsed(files))
  /\ built' = [f \in Files |-> IF f \in Present(files) THEN tree[f] ELSE built[f]]
  /\ scoped' = scoped \cup Present(files)
  /\ UNCHANGED verdicts

\* A batch of the watcher, or an incremental run of the command: its files are
\* purged; the present ones, if any, are parsed, and every unresolved call is
\* then looked up among all nodes.
Reconciled(files) ==
  /\ Run
  /\ nodes' = PurgedNodes(files) \cup Parsed(files)
  /\ edges' = IF Present(files) = {} THEN PurgedEdges(files)
                ELSE Reresolved(nodes', Written(PurgedEdges(files), files))
  /\ sites' = PurgedSites(files) \cup SitesOf(Emitted(files))
  /\ built' = [f \in Files |-> IF f \in files THEN tree[f] ELSE built[f]]
  /\ scoped' = scoped \ files

\* The command amends an index that has nodes, and takes the markdown of purged
\* ones away before it writes.
Incremental(files) ==
  /\ nodes # {}
  /\ Reconciled(files)
  /\ docs' = (docs \ Ids({n \in nodes : n.file \in files})) \cup Ids(Parsed(files))
  /\ flagged' = flagged \ files /\ UNCHANGED rejected

\* The watcher forgets earlier verdicts on the files and verifies the merge.
Batch(files) ==
  /\ Reconciled(files)
  /\ docs' = docs \cup Ids(Parsed(files))
  /\ \E failed \in {{}, Present(files)} :
       /\ rejected' = (rejected \ files) \cup failed
       /\ flagged' = (flagged \ files) \cup failed

Next ==
  \/ \E f \in Files : Edit(f)
  \/ Full(Files)
  \/ \E files \in (SUBSET Files) \ {{}} :
       \/ files # Files /\ Full(files)
       \/ Scoped(files) \/ Incremental(files) \/ Batch(files)
Spec == Init /\ [][Next]_vars

-----------------------------------------------------------------------------
Content(f) == IF built[f] = Gone THEN [defs |-> {}, imports |-> {}, calls |-> {}] ELSE built[f]

\* Outside path-scoped runs, the rows of a file are the nodes of the content it
\* was last read with; every node has its markdown; a call site belongs to an
\* edge of the same file and to a call in the content read; a flagged node has a verdict behind it.
RowsAreBuilt ==
  /\ \A f \in Files \ scoped :
       {n \in nodes : n.file = f} = IF built[f] = Gone THEN {} ELSE NodesOf(f, built[f])
  /\ Ids(nodes) \subseteq docs
  /\ \A s \in sites : \E e \in edges : e.src = s.src /\ e.dst = s.dst /\ e.src[1] = s.file
  /\ \A s \in {x \in sites : x.file \notin scoped} :
       \E c \in Content(s.file).calls : s.src = <<s.file>> \o c.by /\ s.line = c.line
  /\ flagged \subseteq rejected

\* An edge stands for as many occurrences as it weighs.
Units(E) == UNION {{e} \X (1 .. e.weight) : e \in E}

\* However a file's edges were resolved, re-resolved and merged, their weights add
\* up to the occurrences in the file: none is lost, none counted twice.
OccurrencesCounted ==
  \A f \in Files \ scoped :
    LET read == Content(f)
        calls == {c \in read.calls : c.by \in read.defs \cup {<<>>}}
        specs == {b.spec : b \in read.imports}
    IN  Cardinality(Units({e \in edges : e.src[1] = f})) = Cardinality(calls) + Cardinality(specs)

\* A call resolved into another workspace package has an import of its file that
\* leads into that package.
PackagesNeedWitness ==
  \A e \in edges :
    e.kind = "static_call" /\ IsResolved(e.dst) /\ e.src[1] \notin scoped
      /\ Pkg[e.dst[1]] # Pkg[e.src[1]]
    => \E b \in Content(e.src[1]).imports :
         Points[b.spec] # External /\ Pkg[Points[b.spec]] = Pkg[e.dst[1]]

=============================================================================
