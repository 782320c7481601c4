----------------------------- MODULE EdgeResolver -----------------------------
(***************************************************************************)
(* How the names of a parse become edges of the graph (graph/edgeResolver, *)
(* nameIndex, specifierResolve): pure functions of the nodes they are      *)
(* given.  An entity's id is its file followed by its qualified name, a    *)
(* module's its file alone.  A module specifier is a model value with the  *)
(* file it points at; that two files never derive one id and that the      *)
(* definitions of a file have different bare names is assumed.             *)
(***************************************************************************)
EXTENDS Naturals, Sequences, FiniteSets

CONSTANTS
  Files, Names, Specs,
  Points,        \* the file a specifier leads to, or External
  External,
  Pkg,           \* the workspace package of a file
  None

\* A parsed file: definitions by qualified name; imports that bind a local name
\* to a specifier and to the name it is exported under; calls from a definition,
\* or <<>> for the module's scope, with the receiver if there is one.
Contents ==
  [defs : SUBSET (Seq(Names) \ {<<>>}),
   imports : SUBSET [local : Names, spec : Specs, imported : Names],
   calls : SUBSET [by : Seq(Names), recv : Names \cup {None}, dst : Names, line : Nat]]

Module(f) == <<f>>
Name(n) == n.id[Len(n.id)]
IsModule(n) == Len(n.id) = 1
NodesOf(f, c) == {[id |-> <<f>> \o qn, file |-> f] : qn \in c.defs \cup {<<>>}}

\* What an edge points at until its name is resolved.
Unresolved(name) == <<"?", name>>
IsResolved(dst) == dst[1] # "?"

Only(S) == IF Cardinality(S) = 1 THEN CHOOSE x \in S : TRUE ELSE None

\* The package-scoped index: an unambiguous qualified name, then an unambiguous
\* bare name; modules are not found by name.
InPackage(N, pkg) == {n \in N : Pkg[n.file] = pkg /\ ~IsModule(n)}
ByQualified(N, pkg, name) == {n.id : n \in {m \in InPackage(N, pkg) : Tail(m.id) = <<name>>}}
ByName(N, pkg, name) == {n.id : n \in {m \in InPackage(N, pkg) : Name(m) = name}}
Lookup(N, pkg, name) ==
  LET qualified == ByQualified(N, pkg, name) IN
  Only(IF Cardinality(qualified) = 1 THEN qualified ELSE ByName(N, pkg, name))

\* A specifier resolves to the module of the file it points at, if that is
\* among the nodes.
ResolveSpec(N, spec) ==
  IF Points[spec] # External /\ \E n \in N : n.id = Module(Points[spec])
    THEN Module(Points[spec]) ELSE None

\* Same file first, then the package.
ResolveByName(N, f, name) ==
  LET here == {n.id : n \in {m \in N : m.file = f /\ Name(m) = name /\ ~IsModule(m)}} IN
  IF here # {} THEN Only(here) ELSE Lookup(N, Pkg[f], name)

\* The ids a call through a binding may mean under the imported module, the
\* most specific first.
Ladder(module, binding, call) ==
  IF call.recv = None
    THEN <<module \o <<binding.imported>>>>
    ELSE <<module \o <<call.recv, call.dst>>, module \o <<binding.imported, call.dst>>,
           module \o <<call.dst>>>>
         \o (IF call.recv = call.dst THEN <<module>> ELSE <<>>)

\* A rung that is an entity, then the name within the imported module's package.
Witnessed(N, module, binding, call) ==
  LET ladder == Ladder(module, binding, call)
      rungs == {i \in 1 .. Len(ladder) : \E n \in N : n.id = ladder[i]}
      exported == IF call.recv = None THEN binding.imported ELSE call.dst
  IN  IF rungs # {} THEN ladder[CHOOSE i \in rungs : \A j \in rungs : i <= j]
                    ELSE Lookup(N, Pkg[module[1]], exported)

\* The import of the file that binds the callee, or its receiver.
Binds(binding, call) == binding.local = (IF call.recv = None THEN call.dst ELSE call.recv)

\* Slip: a name bound by an import from outside is looked up like any other.
ResolveCallLoosely(N, f, c, call) ==
  LET bindings == {b \in c.imports : Binds(b, call)}
      binding == CHOOSE b \in bindings : TRUE
      module == IF bindings = {} THEN None ELSE ResolveSpec(N, binding.spec)
      witnessed == IF module = None THEN None ELSE Witnessed(N, module, binding, call)
  IN  IF witnessed # None THEN witnessed
      ELSE Only({n.id : n \in {m \in N : Name(m) = call.dst /\ ~IsModule(m)}})

\* A callee bound by an import that leads outside is never looked up by name.
ResolveCall(N, f, c, call) ==
  LET bindings == {b \in c.imports : Binds(b, call)}
      binding == CHOOSE b \in bindings : TRUE
      module == IF bindings = {} THEN None ELSE ResolveSpec(N, binding.spec)
      witnessed == IF module = None THEN None ELSE Witnessed(N, module, binding, call)
  IN  CASE witnessed # None -> witnessed
        [] bindings # {} /\ module = None -> None
        [] OTHER -> ResolveByName(N, f, call.dst)

OrUnresolved(id, name) == IF id = None THEN Unresolved(name) ELSE id

\* The occurrences of edges in file f, each of a specifier or a call: its imports,
\* and its calls, those from a scope that is not an entity dropped.
Occurrences(N, f, c) ==
  {[src |-> Module(f), dst |-> OrUnresolved(ResolveSpec(N, b.spec), b.spec),
    kind |-> "import", of |-> b.spec] : b \in c.imports}
  \cup
  {[src |-> <<f>> \o call.by, dst |-> OrUnresolved(ResolveCall(N, f, c, call), call.dst),
    kind |-> "static_call", of |-> call] :
      call \in {x \in c.calls : x.by \in c.defs \cup {<<>>}}}

\* Slip: each occurrence is a row, the last one written stays.
FoldedLast(occurrences) ==
  {[src |-> o.src, dst |-> o.dst, kind |-> o.kind, weight |-> 1] : o \in occurrences}

\* One row per source, target and kind, its weight the number of occurrences.
Folded(occurrences) ==
  {[src |-> o.src, dst |-> o.dst, kind |-> o.kind,
    weight |-> Cardinality({p \in occurrences :
                              p.src = o.src /\ p.dst = o.dst /\ p.kind = o.kind})] :
     o \in occurrences}

\* Resolved calls keep where they are.
SitesOf(occurrences) ==
  {[file |-> o.src[1], src |-> o.src, dst |-> o.dst, line |-> o.of.line] :
     o \in {p \in occurrences : p.kind = "static_call" /\ IsResolved(p.dst)}}

SameKey(e, g) == e.src = g.src /\ e.dst = g.dst /\ e.kind = g.kind

\* replaceEdges: a row of the same key is overwritten.
Replaced(rows, new) == {e \in rows : ~\E g \in new : SameKey(e, g)} \cup new

\* The id an unresolved row's name has now, in the package of its source; an
\* edge is not turned onto its own source.
Found(N, e) ==
  LET id == Lookup(N, Pkg[e.src[1]], e.dst[2]) IN IF id = e.src THEN None ELSE id

\* reresolveAllEdges: every unresolved row but an import's is looked up by name;
\* a rewritten row is added to one that is there already.
Reresolved(N, rows) ==
  LET open == {e \in rows : e.kind # "import" /\ ~IsResolved(e.dst) /\ Found(N, e) # None}
      kept == rows \ open
      moved == {[e EXCEPT !.dst = Found(N, e)] : e \in open}
      Weight(e) == LET there == {g \in kept : SameKey(e, g)}
                   IN  IF there = {} THEN 0 ELSE (CHOOSE g \in there : TRUE).weight
  IN  Replaced(kept, {[e EXCEPT !.weight = @ + Weight(e)] : e \in moved})
=============================================================================
