--------------------------- MODULE GraphIndexProofs ---------------------------
(***************************************************************************)
(* The rows of an index, for any tree and any runs: no id has two, a       *)
(* file's are those of the content it was last read with, what left its    *)
(* package has an import that leads there, and the weights of a file's     *)
(* edges add up to its calls and imports.                                  *)
(***************************************************************************)
EXTENDS GraphIndex, FiniteSetTheorems, FunctionTheorems, SequenceTheorems, TLAPS

------------------------------------------------------------------------------
(* Ids and nodes *)

EntityIds == {<<f>> \o qn : f \in Files, qn \in Seq(Names)}

\* Nodes whose ids begin with their files.
AreNodes(N) ==
  \A n \in N : n.id \in EntityIds /\ n.id[1] = n.file /\ n = [id |-> n.id, file |-> n.file]

\* An id begins with a file, and its qualified name ends it.
LEMMA IdOfEntity ==
  ASSUME NEW f \in Files, NEW qn \in Seq(Names)
  PROVE  /\ <<f>> \o qn \in EntityIds
         /\ (<<f>> \o qn)[1] = f
         /\ Len(<<f>> \o qn) = 1 + Len(qn)
         /\ \A i \in 1 .. Len(qn) : (<<f>> \o qn)[1 + i] = qn[i]
<1>1. <<f>> \in Seq(Files \cup Names) /\ qn \in Seq(Files \cup Names)
  <2>1. qn \in Seq(Files \cup Names)
    BY SeqMonotonic
  <2> QED BY <2>1
<1> QED BY <1>1 DEF EntityIds

\* The parts of an id.
LEMMA EntityParts ==
  ASSUME NEW id \in EntityIds
  PROVE  id[1] \in Files /\ id \in Seq(Files \cup Names) /\ Len(id) >= 1
<1>1. PICK f \in Files, qn \in Seq(Names) : id = <<f>> \o qn
  BY DEF EntityIds
<1>2. <<f>> \in Seq(Files \cup Names) /\ qn \in Seq(Files \cup Names)
  BY SeqMonotonic
<1>3. <<f>> \o qn \in Seq(Files \cup Names)
  BY <1>2, ConcatProperties
<1>4. (<<f>> \o qn)[1] = f /\ Len(<<f>> \o qn) = 1 + Len(qn) /\ Len(qn) \in Nat
  BY IdOfEntity
<1> QED BY <1>1, <1>3, <1>4

\* The nodes of a content are nodes of its file.
LEMMA NodesOfFile ==
  ASSUME NEW f \in Files, NEW c \in Contents
  PROVE  AreNodes(NodesOf(f, c)) /\ \A n \in NodesOf(f, c) : n.file = f
<1>1. c.defs \subseteq Seq(Names)
  BY DEF Contents
<1>2. <<>> \in Seq(Names)
  BY EmptySeq
<1>3. ASSUME NEW n \in NodesOf(f, c)
      PROVE  n.id \in EntityIds /\ n.id[1] = n.file /\ n = [id |-> n.id, file |-> n.file] /\ n.file = f
  <2>1. PICK qn \in c.defs \cup {<<>>} : n = [id |-> <<f>> \o qn, file |-> f]
    BY DEF NodesOf
  <2>2. qn \in Seq(Names)
    BY <1>1, <1>2
  <2>3. <<f>> \o qn \in EntityIds /\ (<<f>> \o qn)[1] = f
    BY <2>2, IdOfEntity
  <2> QED BY <2>1, <2>3
<1> QED BY <1>3 DEF AreNodes

------------------------------------------------------------------------------
(* What a lookup finds *)

\* The one member of a set, if it is one.
LEMMA OnlyMember ==
  ASSUME NEW S, Only(S) # None
  PROVE  Only(S) \in S
<1>1. Cardinality(S) = 1
  BY DEF Only
<1>2. S # {}
  BY <1>1, FS_EmptySet
<1> QED BY <1>1, <1>2 DEF Only

\* What is left of an id of two parts.
LEMMA TailOfTwo ==
  ASSUME NEW S, NEW id \in Seq(S), id # <<>>, NEW x, Tail(id) = <<x>>
  PROVE  Len(id) = 2 /\ id[2] = x
<1> DEFINE q == Tail(id)
<1>1. Len(q) = Len(id) - 1 /\ \A i \in 1 .. Len(q) : q[i] = id[i+1]
  BY HeadTailProperties
<1>2. q = <<x>>
  OBVIOUS
<1>3. Len(id) \in Nat
  OBVIOUS
<1> HIDE DEF q
<1>4. Len(q) = 1 /\ q[1] = x
  BY <1>2
<1>5. Len(id) = 2
  BY <1>1, <1>3, <1>4
<1>6. 1 \in 1 .. Len(q)
  BY <1>4
<1>7. q[1] = id[1+1]
  BY <1>6, <1>1
<1>8. q[1] = id[2]
  BY <1>7
<1> QED BY <1>4, <1>5, <1>8

\* The package-scoped index answers with a node of the package that has the name.
LEMMA LookupFinds ==
  ASSUME NEW N, AreNodes(N), NEW pkg, NEW name, Lookup(N, pkg, name) # None
  PROVE  \E n \in N : n.id = Lookup(N, pkg, name) /\ Pkg[n.file] = pkg /\ Name(n) = name
<1>1. Lookup(N, pkg, name) \in ByQualified(N, pkg, name) \cup ByName(N, pkg, name)
  BY OnlyMember DEF Lookup
<1>2. ASSUME NEW n \in N, Tail(n.id) = <<name>>
      PROVE  Name(n) = name
  <2>1. n.id \in Seq(Files \cup Names) /\ Len(n.id) >= 1
    BY EntityParts DEF AreNodes
  <2>2. n.id # <<>>
    BY <2>1
  <2>3. Len(n.id) = 2 /\ n.id[2] = name
    BY <2>1, <2>2, <1>2, TailOfTwo
  <2> QED BY <2>3 DEF Name
<1>3. CASE Lookup(N, pkg, name) \in ByQualified(N, pkg, name)
  BY <1>2, <1>3 DEF ByQualified, InPackage
<1>4. CASE Lookup(N, pkg, name) \in ByName(N, pkg, name)
  BY <1>4 DEF ByName, InPackage
<1> QED BY <1>1, <1>3, <1>4

\* A name is found in the file itself, or in its package.
LEMMA ByNameFinds ==
  ASSUME NEW N, AreNodes(N), NEW f \in Files, NEW name, ResolveByName(N, f, name) # None
  PROVE  \E n \in N : n.id = ResolveByName(N, f, name) /\ Pkg[n.file] = Pkg[f]
<1> DEFINE here == {n.id : n \in {m \in N : m.file = f /\ Name(m) = name /\ ~IsModule(m)}}
<1>1. CASE here # {}
  <2>1. ResolveByName(N, f, name) = Only(here)
    BY <1>1 DEF ResolveByName
  <2>2. ResolveByName(N, f, name) \in here
    BY <2>1, OnlyMember
  <2> QED BY <2>2
<1>2. CASE here = {}
  <2>1. ResolveByName(N, f, name) = Lookup(N, Pkg[f], name)
    BY <1>2 DEF ResolveByName
  <2> QED BY <2>1, LookupFinds
<1> QED BY <1>1, <1>2

\* A specifier resolves to a module among the nodes.
LEMMA SpecFinds ==
  ASSUME NEW N, AreNodes(N), NEW spec, ResolveSpec(N, spec) # None
  PROVE  /\ Points[spec] # External /\ Points[spec] \in Files
         /\ ResolveSpec(N, spec) = <<Points[spec]>> /\ <<Points[spec]>> \in Ids(N)
<1>1. Points[spec] # External /\ ResolveSpec(N, spec) = <<Points[spec]>>
  BY DEF ResolveSpec, Module
<1>2. PICK n \in N : n.id = <<Points[spec]>>
  BY DEF ResolveSpec, Module
<1>3. n.id[1] \in Files
  BY EntityParts DEF AreNodes
<1> QED BY <1>1, <1>2, <1>3 DEF Ids

Bindings == [local : Names, spec : Specs, imported : Names]
Calls == [by : Seq(Names), recv : Names \cup {None}, dst : Names, line : Nat]

\* The rungs of a ladder are ids in the file of the module.
LEMMA LadderLeads ==
  ASSUME NEW p \in Files, NEW binding \in Bindings, NEW call \in Calls
  PROVE  /\ Ladder(<<p>>, binding, call) \in Seq({id \in EntityIds : id[1] = p})
         /\ Len(Ladder(<<p>>, binding, call)) \in 0 .. 4
<1> DEFINE ladder == Ladder(<<p>>, binding, call)
           S == {id \in EntityIds : id[1] = p}
<1>1. ASSUME NEW qn \in Seq(Names)
      PROVE  <<p>> \o qn \in S
  BY IdOfEntity
<1>2. ASSUME NEW x \in Names, NEW y \in Names
      PROVE  <<p>> \o <<x>> \in S /\ <<p>> \o <<x, y>> \in S
  <2>1. <<x>> \in Seq(Names) /\ <<x, y>> \in Seq(Names)
    OBVIOUS
  <2> QED BY <2>1, <1>1
<1>3. <<p>> \in S
  <2>1. <<>> \in Seq(Names) /\ <<p>> \o <<>> = <<p>>
    BY EmptySeq, ConcatEmptySeq
  <2> QED BY <2>1, <1>1
<1> SUFFICES ladder \in Seq(S) /\ Len(ladder) \in 0 .. 4
  OBVIOUS
<1> HIDE DEF S
<1>4. CASE call.recv = None
  <2>1. binding.imported \in Names
    BY DEF Bindings
  <2>2. <<p>> \o <<binding.imported>> \in S
    BY <2>1, <1>2
  <2>3. ladder = <<<<p>> \o <<binding.imported>>>>
    BY <1>4 DEF Ladder
  <2> DEFINE rung == <<p>> \o <<binding.imported>>
  <2> HIDE DEF rung
  <2>4. <<rung>> \in Seq(S) /\ Len(<<rung>>) = 1
    BY <2>2 DEF rung
  <2>5. ladder = <<rung>>
    BY <2>3 DEF rung
  <2> HIDE DEF ladder
  <2> QED BY <2>4, <2>5
<1>5. CASE call.recv # None
  <2>1. binding.imported \in Names /\ call.recv \in Names /\ call.dst \in Names
    BY <1>5 DEF Bindings, Calls
  <2> DEFINE r1 == <<p>> \o <<call.recv, call.dst>>
             r2 == <<p>> \o <<binding.imported, call.dst>>
             r3 == <<p>> \o <<call.dst>>
             last == IF call.recv = call.dst THEN <<<<p>>>> ELSE <<>>
  <2>2. r1 \in S /\ r2 \in S /\ r3 \in S
    BY <2>1, <1>2
  <2>3. ladder = <<r1, r2, r3>> \o last
    BY <1>5 DEF Ladder
  <2> HIDE DEF r1, r2, r3
  <2>4. <<r1, r2, r3>> \in Seq(S) /\ Len(<<r1, r2, r3>>) = 3
    BY <2>2
  <2>5. last \in Seq(S) /\ Len(last) \in 0 .. 1
    <3> DEFINE q == <<p>>
    <3> HIDE DEF q
    <3>1. <<q>> \in Seq(S) /\ Len(<<q>>) = 1
      BY <1>3 DEF q
    <3>2. <<>> \in Seq(S) /\ Len(<<>>) = 0
      BY EmptySeq
    <3> QED BY <3>1, <3>2 DEF q
  <2> HIDE DEF last
  <2>6. <<r1, r2, r3>> \o last \in Seq(S)
        /\ Len(<<r1, r2, r3>> \o last) = 3 + Len(last)
    BY <2>4, <2>5, ConcatProperties
  <2> DEFINE whole == <<r1, r2, r3>> \o last
  <2>7. ladder = whole /\ whole \in Seq(S) /\ Len(whole) = 3 + Len(last)
    BY <2>3, <2>6
  <2> DEFINE n == Len(last)
             m == Len(whole)
  <2>8. m = 3 + n /\ n \in 0 .. 1
    BY <2>5, <2>7
  <2> HIDE DEF n, m
  <2>9. m \in 0 .. 4
    BY <2>8
  <2> HIDE DEF ladder, whole
  <2> QED BY <2>7, <2>9 DEF m
<1> QED BY <1>4, <1>5

\* The least of some numbers up to four is one of them.
LEMMA LeastRung ==
  ASSUME NEW R \in SUBSET (1 .. 4), R # {}
  PROVE  (CHOOSE i \in R : \A j \in R : i <= j) \in R
<1>1. \E i \in R : \A j \in R : i <= j
  <2>1. \A i \in R : i = 1 \/ i = 2 \/ i = 3 \/ i = 4
    OBVIOUS
  <2>2. CASE 1 \in R
    BY <2>1, <2>2
  <2>3. CASE 1 \notin R /\ 2 \in R
    BY <2>1, <2>3
  <2>4. CASE 1 \notin R /\ 2 \notin R /\ 3 \in R
    BY <2>1, <2>4
  <2>5. CASE 1 \notin R /\ 2 \notin R /\ 3 \notin R
    <3>1. \A i \in R : i = 4
      BY <2>1, <2>5
    <3>2. PICK i \in R : TRUE
      OBVIOUS
    <3> QED BY <3>1, <3>2
  <2> QED BY <2>2, <2>3, <2>4, <2>5
<1> QED BY <1>1

\* A call through an import goes to a node in the package of the imported file.
LEMMA WitnessedLeads ==
  ASSUME NEW N, AreNodes(N), NEW p \in Files, NEW binding \in Bindings, NEW call \in Calls,
         Witnessed(N, <<p>>, binding, call) # None
  PROVE  /\ Witnessed(N, <<p>>, binding, call) \in Ids(N)
         /\ Pkg[Witnessed(N, <<p>>, binding, call)[1]] = Pkg[p]
<1> DEFINE ladder == Ladder(<<p>>, binding, call)
           rungs == {i \in 1 .. Len(ladder) : \E n \in N : n.id = ladder[i]}
           exported == IF call.recv = None THEN binding.imported ELSE call.dst
           least == CHOOSE i \in rungs : \A j \in rungs : i <= j
<1>1. CASE rungs # {}
  <2>1. Witnessed(N, <<p>>, binding, call) = ladder[least]
    BY <1>1 DEF Witnessed
  <2>2. rungs \in SUBSET (1 .. 4)
    <3>1. Len(ladder) \in 0 .. 4
      BY LadderLeads
    <3> HIDE DEF ladder
    <3> QED BY <3>1
  <2>3. least \in rungs
    BY <2>2, <1>1, LeastRung
  <2>4. ladder[least] \in {id \in EntityIds : id[1] = p}
    <3>1. least \in 1 .. Len(ladder)
      BY <2>3
    <3> HIDE DEF least
    <3> QED BY <3>1, LadderLeads, ElementOfSeq
  <2>5. \E n \in N : n.id = ladder[least]
    BY <2>3
  <2> QED BY <2>1, <2>4, <2>5 DEF Ids
<1>2. CASE rungs = {}
  <2>1. Witnessed(N, <<p>>, binding, call) = Lookup(N, Pkg[<<p>>[1]], exported)
    BY <1>2 DEF Witnessed
  <2>2. <<p>>[1] = p
    OBVIOUS
  <2>3. \E n \in N : n.id = Witnessed(N, <<p>>, binding, call) /\ Pkg[n.file] = Pkg[p]
    BY <2>1, <2>2, LookupFinds
  <2> QED BY <2>3 DEF AreNodes, Ids
<1> QED BY <1>1, <1>2

\* A call is resolved to a node, one of its package or one of a package that an
\* import of its file leads into.
LEMMA CallLeads ==
  ASSUME NEW N, AreNodes(N), NEW f \in Files, NEW c \in Contents, NEW call \in c.calls,
         ResolveCall(N, f, c, call) # None
  PROVE  /\ ResolveCall(N, f, c, call) \in Ids(N)
         /\ \/ Pkg[ResolveCall(N, f, c, call)[1]] = Pkg[f]
            \/ \E b \in c.imports : /\ Points[b.spec] # External
                                    /\ Pkg[Points[b.spec]] = Pkg[ResolveCall(N, f, c, call)[1]]
<1> DEFINE bindings == {b \in c.imports : Binds(b, call)}
           binding == CHOOSE b \in bindings : TRUE
           module == IF bindings = {} THEN None ELSE ResolveSpec(N, binding.spec)
           witnessed == IF module = None THEN None ELSE Witnessed(N, module, binding, call)
<1>1. call \in Calls /\ c.imports \subseteq Bindings
  BY DEF Contents, Calls, Bindings
<1>2. ResolveCall(N, f, c, call) =
        CASE witnessed # None -> witnessed
          [] bindings # {} /\ module = None -> None
          [] OTHER -> ResolveByName(N, f, call.dst)
  BY DEF ResolveCall
<1>3. CASE witnessed # None
  <2>1. ResolveCall(N, f, c, call) = witnessed
    BY <1>2, <1>3
  <2>2. bindings # {} /\ module # None /\ module = ResolveSpec(N, binding.spec)
        /\ witnessed = Witnessed(N, module, binding, call)
    BY <1>3
  <2>3. binding \in bindings
    BY <2>2
  <2>4. binding \in c.imports /\ binding \in Bindings
    BY <2>3, <1>1
  <2> HIDE DEF binding, bindings, module, witnessed
  <2>5. /\ Points[binding.spec] # External /\ Points[binding.spec] \in Files
        /\ module = <<Points[binding.spec]>>
    BY <2>2, SpecFinds
  <2>6. witnessed \in Ids(N) /\ Pkg[witnessed[1]] = Pkg[Points[binding.spec]]
    BY <2>2, <2>4, <2>5, <1>1, <1>3, WitnessedLeads
  <2> QED BY <2>1, <2>4, <2>5, <2>6
<1>4. CASE witnessed = None
  <2>1. ResolveCall(N, f, c, call) = ResolveByName(N, f, call.dst)
    BY <1>2, <1>4
  <2>2. \E n \in N : n.id = ResolveCall(N, f, c, call) /\ Pkg[n.file] = Pkg[f]
    BY <2>1, ByNameFinds
  <2> QED BY <2>2 DEF AreNodes, Ids
<1> QED BY <1>3, <1>4
------------------------------------------------------------------------------
(* Occurrences and edges *)

\* Where an occurrence or an edge may lead from and to.
Leads(e) ==
  /\ e.src \in EntityIds
  /\ IsResolved(e.dst) => e.dst \in EntityIds
  /\ ~IsResolved(e.dst) => \E name : e.dst = Unresolved(name)

\* A resolved call stays in its package, or an import of the content leads there.
Witnesses(e, c) ==
  e.kind = "static_call" /\ IsResolved(e.dst) =>
    \/ Pkg[e.dst[1]] = Pkg[e.src[1]]
    \/ \E b \in c.imports : Points[b.spec] # External /\ Pkg[Points[b.spec]] = Pkg[e.dst[1]]

\* An edge row, one for each key.
IsRow(e) == e = [src |-> e.src, dst |-> e.dst, kind |-> e.kind, weight |-> e.weight]
AreRows(E) ==
  /\ \A e \in E : IsRow(e) /\ Leads(e)
  /\ \A e, g \in E : SameKey(e, g) => e = g

\* The id of a node is resolved, an unresolved name is not.
LEMMA ResolvedOrNot ==
  /\ \A id \in EntityIds : IsResolved(id)
  /\ \A name : ~IsResolved(Unresolved(name)) /\ Unresolved(name)[2] = name
<1>1. \A id \in EntityIds : IsResolved(id)
  BY EntityParts, TreeAssumption DEF IsResolved
<1> QED BY <1>1 DEF IsResolved, Unresolved

LEMMA NodeIds ==
  ASSUME NEW N, AreNodes(N)
  PROVE  Ids(N) \subseteq EntityIds
  BY DEF Ids, AreNodes

\* The name a call or an import is left with, or the node it leads to.
LEMMA OrUnresolvedLeads ==
  ASSUME NEW N, AreNodes(N), NEW id, id # None => id \in Ids(N), NEW name
  PROVE  /\ IsResolved(OrUnresolved(id, name)) =>
              OrUnresolved(id, name) = id /\ id # None /\ id \in EntityIds
         /\ ~IsResolved(OrUnresolved(id, name)) => OrUnresolved(id, name) = Unresolved(name)
<1>1. CASE id = None
  BY <1>1, ResolvedOrNot DEF OrUnresolved
<1>2. CASE id # None
  <2>1. id \in EntityIds
    BY <1>2, NodeIds
  <2> QED BY <1>2, <2>1, ResolvedOrNot DEF OrUnresolved
<1> QED BY <1>1, <1>2

\* What a parse emits for a file.
LEMMA OccurrencesLead ==
  ASSUME NEW N, AreNodes(N), NEW f \in Files, NEW c \in Contents, NEW o \in Occurrences(N, f, c)
  PROVE  /\ Leads(o) /\ Witnesses(o, c)
         /\ o.src \in Ids(NodesOf(f, c)) /\ o.src[1] = f
         /\ o.kind = "static_call" =>
              \E call \in c.calls : o.src = <<f>> \o call.by /\ o.of = call
<1>1. c.defs \subseteq Seq(Names) /\ <<>> \in Seq(Names)
  BY EmptySeq DEF Contents
<1>2. ASSUME NEW qn \in c.defs \cup {<<>>}
      PROVE  /\ <<f>> \o qn \in EntityIds /\ (<<f>> \o qn)[1] = f
             /\ <<f>> \o qn \in Ids(NodesOf(f, c))
  <2>1. qn \in Seq(Names)
    BY <1>1
  <2>2. <<f>> \o qn \in EntityIds /\ (<<f>> \o qn)[1] = f
    BY <2>1, IdOfEntity
  <2>3. [id |-> <<f>> \o qn, file |-> f] \in NodesOf(f, c)
    BY DEF NodesOf
  <2> QED BY <2>2, <2>3 DEF Ids
<1>3. CASE \E b \in c.imports :
             o = [src |-> Module(f), dst |-> OrUnresolved(ResolveSpec(N, b.spec), b.spec),
                  kind |-> "import", of |-> b.spec]
  <2>1. PICK b \in c.imports :
          o = [src |-> Module(f), dst |-> OrUnresolved(ResolveSpec(N, b.spec), b.spec),
               kind |-> "import", of |-> b.spec]
    BY <1>3
  <2> DEFINE id == ResolveSpec(N, b.spec)
  <2>2. id # None => id \in Ids(N)
    BY SpecFinds
  <2>3. o.src = Module(f) /\ o.dst = OrUnresolved(id, b.spec) /\ o.kind = "import"
    BY <2>1
  <2>4. o.src = <<f>> \o <<>>
    BY <2>3, ConcatEmptySeq DEF Module
  <2> HIDE DEF id
  <2>5. o.src \in EntityIds /\ o.src[1] = f /\ o.src \in Ids(NodesOf(f, c))
    BY <2>4, <1>2
  <2>6. /\ IsResolved(o.dst) => o.dst \in EntityIds
        /\ ~IsResolved(o.dst) => o.dst = Unresolved(b.spec)
    BY <2>2, <2>3, OrUnresolvedLeads
  <2> QED BY <2>3, <2>5, <2>6 DEF Leads, Witnesses
<1>4. CASE \E call \in {x \in c.calls : x.by \in c.defs \cup {<<>>}} :
             o = [src |-> <<f>> \o call.by, dst |-> OrUnresolved(ResolveCall(N, f, c, call), call.dst),
                  kind |-> "static_call", of |-> call]
  <2>1. PICK call \in {x \in c.calls : x.by \in c.defs \cup {<<>>}} :
          o = [src |-> <<f>> \o call.by, dst |-> OrUnresolved(ResolveCall(N, f, c, call), call.dst),
               kind |-> "static_call", of |-> call]
    BY <1>4
  <2> DEFINE id == ResolveCall(N, f, c, call)
  <2>2. id # None =>
          /\ id \in Ids(N)
          /\ \/ Pkg[id[1]] = Pkg[f]
             \/ \E b \in c.imports : Points[b.spec] # External /\ Pkg[Points[b.spec]] = Pkg[id[1]]
    BY <2>1, CallLeads
  <2>3. /\ o.src = <<f>> \o call.by /\ o.dst = OrUnresolved(id, call.dst)
        /\ o.kind = "static_call" /\ o.of = call
    BY <2>1
  <2>4. o.src \in EntityIds /\ o.src[1] = f /\ o.src \in Ids(NodesOf(f, c))
    BY <2>1, <2>3, <1>2
  <2> HIDE DEF id
  <2>5. /\ IsResolved(o.dst) => o.dst = id /\ id # None /\ id \in EntityIds
        /\ ~IsResolved(o.dst) => o.dst = Unresolved(call.dst)
    <3>1. id # None => id \in Ids(N)
      BY <2>2
    <3> DEFINE name == call.dst
    <3> HIDE DEF name
    <3>2. /\ IsResolved(OrUnresolved(id, name)) =>
               OrUnresolved(id, name) = id /\ id # None /\ id \in EntityIds
          /\ ~IsResolved(OrUnresolved(id, name)) => OrUnresolved(id, name) = Unresolved(name)
      BY <3>1, OrUnresolvedLeads
    <3> QED BY <2>3, <3>2 DEF name
  <2>6. Leads(o)
    BY <2>4, <2>5 DEF Leads
  <2>7. Witnesses(o, c)
    BY <2>2, <2>4, <2>5 DEF Witnesses
  <2> QED BY <2>1, <2>3, <2>4, <2>6, <2>7
<1> QED BY <1>3, <1>4 DEF Occurrences

\* Folding makes one row of each key there is, and of no other.
LEMMA FoldedRows ==
  ASSUME NEW O, \A o \in O : Leads(o)
  PROVE  /\ AreRows(Folded(O))
         /\ \A e \in Folded(O) : \E o \in O : SameKey(e, o)
         /\ \A o \in O : \E e \in Folded(O) : SameKey(e, o)
<1> DEFINE Weight(o) == Cardinality({p \in O : p.src = o.src /\ p.dst = o.dst /\ p.kind = o.kind})
           Row(o) == [src |-> o.src, dst |-> o.dst, kind |-> o.kind, weight |-> Weight(o)]
<1>1. Folded(O) = {Row(o) : o \in O}
  BY DEF Folded
<1>2. ASSUME NEW o \in O, NEW p \in O, SameKey(Row(o), Row(p))
      PROVE  Row(o) = Row(p)
  <2>1. o.src = p.src /\ o.dst = p.dst /\ o.kind = p.kind
    BY <1>2 DEF SameKey
  <2>2. Weight(o) = Weight(p)
    BY <2>1
  <2> HIDE DEF Weight
  <2> QED BY <2>1, <2>2
<1>3. ASSUME NEW o \in O
      PROVE  SameKey(Row(o), o) /\ IsRow(Row(o)) /\ Leads(Row(o))
  <2> HIDE DEF Weight
  <2>1. Row(o).src = o.src /\ Row(o).dst = o.dst /\ Row(o).kind = o.kind /\ Row(o).weight = Weight(o)
    OBVIOUS
  <2>2. IsRow(Row(o))
    BY <2>1 DEF IsRow
  <2> QED BY <2>1, <2>2 DEF SameKey, Leads
<1> HIDE DEF Row
<1> QED BY <1>1, <1>2, <1>3 DEF AreRows

\* Rows that replace others of their keys.
LEMMA ReplacedRows ==
  ASSUME NEW E, NEW G, AreRows(E), AreRows(G)
  PROVE  /\ AreRows(Replaced(E, G)) /\ Replaced(E, G) \subseteq E \cup G
         /\ \A e \in E \cup G : \E g \in Replaced(E, G) : SameKey(g, e)
<1>1. AreRows(Replaced(E, G))
  BY DEF AreRows, Replaced, SameKey
<1> QED BY <1>1 DEF Replaced, SameKey

\* The node an unresolved name is found at.
LEMMA FoundLeads ==
  ASSUME NEW N, AreNodes(N), NEW e, Found(N, e) # None
  PROVE  /\ Found(N, e) \in EntityIds /\ Pkg[Found(N, e)[1]] = Pkg[e.src[1]]
         /\ Found(N, e)[Len(Found(N, e))] = e.dst[2]
<1>1. Found(N, e) = Lookup(N, Pkg[e.src[1]], e.dst[2])
  BY DEF Found
<1>2. PICK n \in N :
        n.id = Found(N, e) /\ Pkg[n.file] = Pkg[e.src[1]] /\ Name(n) = e.dst[2]
  BY <1>1, LookupFinds
<1> QED BY <1>2 DEF AreNodes, Name

\* The rows that looking names up again turns, and those it leaves.
Open(N, E) == {e \in E : e.kind # "import" /\ ~IsResolved(e.dst) /\ Found(N, e) # None}
Kept(N, E) == E \ Open(N, E)
\* The row of E whose key a turned one has, and what becomes of that.
Turned(N, e) == [e EXCEPT !.dst = Found(N, e)]
There(N, E, e) == {g \in Kept(N, E) : SameKey(Turned(N, e), g)}
Had(N, E, e) == IF There(N, E, e) = {} THEN 0 ELSE (CHOOSE g \in There(N, E, e) : TRUE).weight
Merged(N, E, e) ==
  [src |-> e.src, dst |-> Found(N, e), kind |-> e.kind, weight |-> e.weight + Had(N, E, e)]

LEMMA TurnedRow ==
  ASSUME NEW N, AreNodes(N), NEW E, AreRows(E), NEW e \in Open(N, E)
  PROVE  /\ Turned(N, e) = [src |-> e.src, dst |-> Found(N, e), kind |-> e.kind, weight |-> e.weight]
         /\ Found(N, e) \in EntityIds /\ Pkg[Found(N, e)[1]] = Pkg[e.src[1]]
         /\ Found(N, e)[Len(Found(N, e))] = e.dst[2]
         /\ e.dst = Unresolved(e.dst[2]) /\ e.src \in EntityIds /\ e \in E
<1>1. IsRow(e) /\ Leads(e) /\ ~IsResolved(e.dst) /\ Found(N, e) # None /\ e \in E
  BY DEF AreRows, Open
<1>2. Turned(N, e) = [src |-> e.src, dst |-> Found(N, e), kind |-> e.kind, weight |-> e.weight]
  BY <1>1 DEF IsRow, Turned
<1>3. e.dst = Unresolved(e.dst[2])
  BY <1>1, ResolvedOrNot DEF Leads
<1> QED BY <1>1, <1>2, <1>3, FoundLeads DEF Leads

\* Looking names up again merges the turned rows into those that are there.
LEMMA ReresolvedMerges ==
  ASSUME NEW N, AreNodes(N), NEW E, AreRows(E)
  PROVE  Reresolved(N, E) = Replaced(Kept(N, E), {Merged(N, E, e) : e \in Open(N, E)})
<1> DEFINE Weight(e) == LET there == {g \in Kept(N, E) : SameKey(e, g)}
                        IN  IF there = {} THEN 0 ELSE (CHOOSE g \in there : TRUE).weight
           Added(e) == [e EXCEPT !.weight = @ + Weight(e)]
           moved == {Turned(N, e) : e \in Open(N, E)}
           summed == {Added(e) : e \in moved}
<1>1. Reresolved(N, E) = Replaced(Kept(N, E), summed)
  BY DEF Reresolved, Kept, Open, Turned
<1>2. ASSUME NEW e \in Open(N, E)
      PROVE  Added(Turned(N, e)) = Merged(N, E, e)
  <2> DEFINE w == Had(N, E, e)
             turned == Turned(N, e)
  <2>1. Weight(turned) = w
    BY DEF Had, There
  <2>2. turned = [src |-> e.src, dst |-> Found(N, e), kind |-> e.kind, weight |-> e.weight]
    BY TurnedRow
  <2>3. Merged(N, E, e) = [src |-> e.src, dst |-> Found(N, e), kind |-> e.kind, weight |-> e.weight + w]
    BY DEF Merged
  <2>4. Added(turned) = [turned EXCEPT !.weight = turned.weight + Weight(turned)]
    OBVIOUS
  <2> HIDE DEF w, turned, Added, Weight
  <2>5. Added(turned) = Merged(N, E, e)
    BY <2>1, <2>2, <2>3, <2>4
  <2> QED BY <2>5 DEF turned
<1>3. summed = {Merged(N, E, e) : e \in Open(N, E)}
  <2> HIDE DEF Added
  <2> QED BY <1>2
<1> QED BY <1>1, <1>3

\* No two turned rows come to one.
LEMMA MergedApart ==
  ASSUME NEW N, AreNodes(N), NEW E, AreRows(E), NEW e \in Open(N, E), NEW g \in Open(N, E),
         SameKey(Merged(N, E, e), Merged(N, E, g))
  PROVE  e = g
<1>1. e.src = g.src /\ Found(N, e) = Found(N, g) /\ e.kind = g.kind
  BY DEF SameKey, Merged
<1>2. Found(N, e)[Len(Found(N, e))] = e.dst[2] /\ e.dst = Unresolved(e.dst[2]) /\ e \in E
  BY TurnedRow
<1>3. Found(N, g)[Len(Found(N, g))] = g.dst[2] /\ g.dst = Unresolved(g.dst[2]) /\ g \in E
  BY TurnedRow
<1>4. e.dst[2] = g.dst[2]
  BY <1>1, <1>2, <1>3
<1>5. e.dst = g.dst
  BY <1>2, <1>3, <1>4
<1> QED BY <1>1, <1>2, <1>3, <1>5 DEF AreRows, SameKey

\* Looking names up again keeps one row of each key, and the source and kind of
\* every row; what it turns stays in the package of its source.
LEMMA ReresolvedRows ==
  ASSUME NEW N, AreNodes(N), NEW E, AreRows(E)
  PROVE  /\ AreRows(Reresolved(N, E))
         /\ \A e \in Reresolved(N, E) : \E g \in E :
              /\ e.src = g.src /\ e.kind = g.kind
              /\ e.dst = g.dst \/ Pkg[e.dst[1]] = Pkg[e.src[1]]
         /\ \A g \in E : IsResolved(g.dst) => \E e \in Reresolved(N, E) : SameKey(e, g)
<1> DEFINE kept == Kept(N, E)
           summed == {Merged(N, E, e) : e \in Open(N, E)}
<1>1. Reresolved(N, E) = Replaced(kept, summed)
  BY ReresolvedMerges
<1>2. AreRows(kept) /\ kept \subseteq E
  BY DEF AreRows, Kept
<1>3. ASSUME NEW e \in Open(N, E)
      PROVE  /\ IsRow(Merged(N, E, e)) /\ Leads(Merged(N, E, e))
             /\ Merged(N, E, e).src = e.src /\ Merged(N, E, e).kind = e.kind
             /\ Merged(N, E, e).dst = Found(N, e) /\ e \in E
             /\ Pkg[Found(N, e)[1]] = Pkg[e.src[1]]
  <2> DEFINE w == e.weight + Had(N, E, e)
  <2>1. Merged(N, E, e) = [src |-> e.src, dst |-> Found(N, e), kind |-> e.kind, weight |-> w]
    BY DEF Merged
  <2> HIDE DEF w
  <2>2. IsRow(Merged(N, E, e))
    BY <2>1 DEF IsRow
  <2> QED BY <2>1, <2>2, TurnedRow, ResolvedOrNot DEF Leads
<1>4. AreRows(summed)
  <2>1. \A e, g \in Open(N, E) : SameKey(Merged(N, E, e), Merged(N, E, g)) => e = g
    BY MergedApart
  <2> QED BY <1>3, <2>1 DEF AreRows
<1>5. /\ AreRows(Replaced(kept, summed)) /\ Replaced(kept, summed) \subseteq kept \cup summed
      /\ \A e \in kept \cup summed : \E g \in Replaced(kept, summed) : SameKey(g, e)
  BY <1>2, <1>4, ReplacedRows
<1>6. ASSUME NEW e \in summed
      PROVE  \E g \in E : e.src = g.src /\ e.kind = g.kind /\ Pkg[e.dst[1]] = Pkg[e.src[1]]
  BY <1>3
<1>7. \A g \in E : IsResolved(g.dst) => g \in kept
  BY DEF Kept, Open
<1> HIDE DEF kept, summed
<1> QED BY <1>1, <1>2, <1>5, <1>6, <1>7

------------------------------------------------------------------------------
(* How often an edge counts *)

\* One to one and onto.
LEMMA AsMany ==
  ASSUME NEW S, IsFiniteSet(S), NEW T, NEW m \in [S -> T],
         \A x, y \in S : m[x] = m[y] => x = y, \A y \in T : \E x \in S : m[x] = y
  PROVE  IsFiniteSet(T) /\ Cardinality(T) = Cardinality(S)
<1>1. m \in Bijection(S, T)
  BY Fun_IsBij
<1>2. ExistsBijection(S, T)
  BY <1>1, Fun_ExistsBij
<1> QED BY <1>2, FS_Bijection

\* What a file's text is read for: the specifiers it imports, and the calls from
\* its scopes.
SpecsOf(c) == {b.spec : b \in c.imports}
CallsOf(c) == {call \in c.calls : call.by \in c.defs \cup {<<>>}}

\* A parse emits one occurrence of each.
LEMMA OccurrencesCount ==
  ASSUME NEW N, NEW f \in Files, NEW c \in Contents, IsFiniteSet(c.calls), IsFiniteSet(c.imports)
  PROVE  /\ IsFiniteSet(Occurrences(N, f, c))
         /\ Cardinality(Occurrences(N, f, c)) = Cardinality(CallsOf(c)) + Cardinality(SpecsOf(c))
<1> DEFINE Import(spec) == [src |-> Module(f), dst |-> OrUnresolved(ResolveSpec(N, spec), spec),
                            kind |-> "import", of |-> spec]
           Call(call) == [src |-> <<f>> \o call.by,
                          dst |-> OrUnresolved(ResolveCall(N, f, c, call), call.dst),
                          kind |-> "static_call", of |-> call]
           imports == {Import(spec) : spec \in SpecsOf(c)}
           calls == {Call(call) : call \in CallsOf(c)}
<1>1. Occurrences(N, f, c) = imports \cup calls
  <2>1. imports = {Import(b.spec) : b \in c.imports}
    BY DEF SpecsOf
  <2> QED BY <2>1 DEF Occurrences, CallsOf
<1>2. IsFiniteSet(SpecsOf(c))
  <2> DEFINE m == [b \in c.imports |-> b.spec]
  <2>1. m \in Surjection(c.imports, SpecsOf(c))
    BY DEF SpecsOf, Surjection
  <2> QED BY <2>1, FS_Surjection
<1>3. IsFiniteSet(CallsOf(c))
  BY FS_Subset DEF CallsOf
<1>4. \A spec : Import(spec).of = spec /\ Import(spec).kind = "import"
  OBVIOUS
<1>5. \A call : Call(call).of = call /\ Call(call).kind = "static_call"
  OBVIOUS
<1> HIDE DEF Import, Call
<1>6. IsFiniteSet(imports) /\ Cardinality(imports) = Cardinality(SpecsOf(c))
  <2> DEFINE m == [spec \in SpecsOf(c) |-> Import(spec)]
  <2>1. m \in [SpecsOf(c) -> imports] /\ \A o \in imports : \E spec \in SpecsOf(c) : m[spec] = o
    OBVIOUS
  <2>2. \A x, y \in SpecsOf(c) : m[x] = m[y] => x = y
    BY <1>4
  <2> HIDE DEF m, imports
  <2> QED BY <1>2, <2>1, <2>2, AsMany
<1>7. IsFiniteSet(calls) /\ Cardinality(calls) = Cardinality(CallsOf(c))
  <2> DEFINE m == [call \in CallsOf(c) |-> Call(call)]
  <2>1. m \in [CallsOf(c) -> calls] /\ \A o \in calls : \E call \in CallsOf(c) : m[call] = o
    OBVIOUS
  <2>2. \A x, y \in CallsOf(c) : m[x] = m[y] => x = y
    BY <1>5
  <2> HIDE DEF m, calls
  <2> QED BY <1>3, <2>1, <2>2, AsMany
<1>8. imports \cap calls = {}
  BY <1>4, <1>5
<1> HIDE DEF imports, calls
<1>9. /\ IsFiniteSet(imports \cup calls)
      /\ Cardinality(imports \cup calls)
           = Cardinality(imports) + Cardinality(calls) - Cardinality(imports \cap calls)
  BY <1>6, <1>7, FS_Union
<1>10. Cardinality(imports \cap calls) = 0
  BY <1>8, FS_EmptySet
<1>11. Cardinality(CallsOf(c)) \in Nat /\ Cardinality(SpecsOf(c)) \in Nat
  BY <1>2, <1>3, FS_CardinalityType
<1> QED BY <1>1, <1>6, <1>7, <1>9, <1>10, <1>11

Weighed(E) == \A e \in E : e.weight \in Nat
From(E, f) == {e \in E : e.src[1] = f}

\* Folding counts every occurrence once.
LEMMA FoldedUnits ==
  ASSUME NEW O, \A g : IsFiniteSet(From(O, g)), NEW f
  PROVE  /\ Weighed(Folded(O))
         /\ IsFiniteSet(Units(From(Folded(O), f)))
         /\ Cardinality(Units(From(Folded(O), f))) = Cardinality(From(O, f))
<1> DEFINE Class(e) == {p \in O : p.src = e.src /\ p.dst = e.dst /\ p.kind = e.kind}
           Row(o) == [src |-> o.src, dst |-> o.dst, kind |-> o.kind, weight |-> Cardinality(Class(o))]
           R == Folded(O)
<1>1. R = {Row(o) : o \in O}
  BY DEF Folded
<1>2. \A o : /\ Row(o).src = o.src /\ Row(o).dst = o.dst /\ Row(o).kind = o.kind
             /\ Row(o).weight = Cardinality(Class(o))
  OBVIOUS
<1>3. ASSUME NEW o \in O, NEW p \in O, p \in Class(o)
      PROVE  Row(p) = Row(o)
  <2>1. p.src = o.src /\ p.dst = o.dst /\ p.kind = o.kind
    BY <1>3
  <2>2. Class(p) = Class(o)
    BY <2>1
  <2> HIDE DEF Class
  <2> QED BY <2>1, <2>2
<1>4. ASSUME NEW e \in R
      PROVE  /\ IsFiniteSet(Class(e)) /\ e.weight \in Nat
             /\ e.weight = Cardinality(Class(e))
             /\ \A p \in Class(e) : Row(p) = e /\ p.src = e.src
             /\ Class(e) \subseteq O
  <2>1. PICK o \in O : e = Row(o)
    BY <1>1
  <2>2. e.src = o.src /\ e.dst = o.dst /\ e.kind = o.kind /\ e.weight = Cardinality(Class(o))
    BY <1>2, <2>1
  <2>3. Class(e) = Class(o) /\ Class(e) \subseteq O
    BY <2>2
  <2>4. IsFiniteSet(Class(e))
    <3>1. Class(e) \subseteq From(O, e.src[1])
      BY DEF From
    <3> HIDE DEF Class
    <3> QED BY <3>1, FS_Subset
  <2>5. \A p \in Class(e) : Row(p) = e
    <3> HIDE DEF Class, Row
    <3> QED BY <1>3, <2>1, <2>3
  <2>6. \A p \in Class(e) : p.src = e.src
    OBVIOUS
  <2> HIDE DEF Class, Row
  <2> QED BY <2>2, <2>3, <2>4, <2>5, <2>6, FS_CardinalityType
<1>5. \A o \in O : o \in Class(Row(o)) /\ Row(o) \in R
  BY <1>1, <1>2
<1> HIDE DEF Class, Row, R
<1> DEFINE Number(e) == CHOOSE b : b \in Bijection(Class(e), 1 .. e.weight)
<1>6. ASSUME NEW e \in R PROVE Number(e) \in Bijection(Class(e), 1 .. e.weight)
  <2>1. ExistsBijection(1 .. e.weight, Class(e))
    BY <1>4, FS_CardinalityType
  <2>2. Bijection(Class(e), 1 .. e.weight) # {}
    BY <2>1, Fun_ExistsBijSymmetric, Fun_ExistsBij
  <2> QED BY <2>2
<1>7. ASSUME NEW e \in R
      PROVE  /\ \A p \in Class(e) : Number(e)[p] \in 1 .. e.weight
             /\ \A p, q \in Class(e) : Number(e)[p] = Number(e)[q] => p = q
             /\ \A i \in 1 .. e.weight : \E p \in Class(e) : Number(e)[p] = i
  <2> DEFINE b == Number(e)
             w == e.weight
  <2>1. b \in Bijection(Class(e), 1 .. w)
    BY <1>6
  <2> HIDE DEF b, w
  <2>2. /\ b \in [Class(e) -> 1 .. w]
        /\ \A p, q \in Class(e) : b[p] = b[q] => p = q
        /\ \A i \in 1 .. w : \E p \in Class(e) : b[p] = i
    BY <2>1 DEF Bijection, Injection, Surjection, IsInjective
  <2>3. \A p \in Class(e) : b[p] \in 1 .. w
    BY <2>2
  <2> QED BY <2>2, <2>3 DEF b, w
<1> HIDE DEF Number
<1> DEFINE S == From(O, f)
           T == Units(From(R, f))
           m == [o \in S |-> <<Row(o), Number(Row(o))[o]>>]
<1>8. \A u : u \in T <=> \E e \in R : e.src[1] = f /\ \E i \in 1 .. e.weight : u = <<e, i>>
  BY DEF Units, From
<1>9. \A o \in S : o \in O /\ o.src[1] = f /\ Row(o) \in R /\ o \in Class(Row(o)) /\ Row(o).src = o.src
  BY <1>4, <1>5 DEF From
<1>10. m \in [S -> T]
  <2> HIDE DEF S, T
  <2>1. ASSUME NEW o \in S PROVE <<Row(o), Number(Row(o))[o]>> \in T
    BY <1>7, <1>8, <1>9
  <2> QED BY <2>1
<1>11. ASSUME NEW x \in S, NEW y \in S, m[x] = m[y] PROVE x = y
  <2> HIDE DEF S, T
  <2>1. Row(x) = Row(y) /\ Number(Row(x))[x] = Number(Row(y))[y]
    BY <1>11
  <2> QED BY <2>1, <1>7, <1>9
<1>12. ASSUME NEW u \in T PROVE \E o \in S : m[o] = u
  <2>0. PICK e \in R : e.src[1] = f /\ \E i \in 1 .. e.weight : u = <<e, i>>
    BY <1>8
  <2>1. PICK i \in 1 .. e.weight : u = <<e, i>>
    BY <2>0
  <2>2. PICK o \in Class(e) : Number(e)[o] = i
    BY <1>7
  <2>3. Row(o) = e /\ o \in S
    BY <1>4, <2>0 DEF From
  <2> HIDE DEF S, T
  <2> QED BY <2>1, <2>2, <2>3
<1>13. IsFiniteSet(S)
  OBVIOUS
<1>14. IsFiniteSet(T) /\ Cardinality(T) = Cardinality(S)
  <2> HIDE DEF S, T, m
  <2> QED BY <1>10, <1>11, <1>12, <1>13, AsMany
<1>15. Weighed(R)
  BY <1>4 DEF Weighed
<1> QED BY <1>14, <1>15 DEF R

\* The row that a turned one is merged into, if there is one.
LEMMA HadRow ==
  ASSUME NEW N, NEW E, AreRows(E), Weighed(E), NEW e \in Open(N, E)
  PROVE  /\ Had(N, E, e) \in Nat
         /\ Had(N, E, e) # 0 => \E g \in There(N, E, e) : TRUE
         /\ \A g \in There(N, E, e) : g \in E /\ Had(N, E, e) = g.weight
         /\ \A g, h \in There(N, E, e) : g = h
<1>1. \A g \in There(N, E, e) : g \in E
  BY DEF There, Kept
<1>2. \A g, h \in There(N, E, e) : g = h
  BY <1>1 DEF There, AreRows, SameKey
<1>3. \A g \in There(N, E, e) : Had(N, E, e) = g.weight
  BY <1>2 DEF Had
<1> QED BY <1>1, <1>2, <1>3 DEF Had, Weighed

\* Looking names up again moves what a file's edges stand for, and keeps all of it.
LEMMA ReresolvedUnits ==
  ASSUME NEW N, AreNodes(N), NEW E, AreRows(E), Weighed(E), NEW f
  PROVE  /\ Weighed(Reresolved(N, E))
         /\ IsFiniteSet(Units(From(E, f))) =>
              /\ IsFiniteSet(Units(From(Reresolved(N, E), f)))
              /\ Cardinality(Units(From(Reresolved(N, E), f))) = Cardinality(Units(From(E, f)))
<1> DEFINE open == Open(N, E)
           kept == Kept(N, E)
           Row(e) == Merged(N, E, e)
           R == Reresolved(N, E)
           S == Units(From(E, f))
           T == Units(From(R, f))
           Into(g) == {e \in open : g \in There(N, E, e)}
           Host(g) == CHOOSE e \in Into(g) : TRUE
           Moves(g, i) == IF g \in open THEN <<Row(g), i>>
                          ELSE IF Into(g) = {} THEN <<g, i>>
                          ELSE <<Row(Host(g)), Host(g).weight + i>>
           m == [u \in S |-> Moves(u[1], u[2])]
<1>1. ASSUME NEW e \in open
      PROVE  /\ Row(e).src = e.src /\ Row(e).dst = Found(N, e) /\ Row(e).kind = e.kind
             /\ Row(e).weight = e.weight + Had(N, E, e)
             /\ e \in E /\ e.weight \in Nat /\ Row(e).weight \in Nat
             /\ \A g : g \in There(N, E, e) <=> g \in kept /\ SameKey(Row(e), g)
             /\ Row(e) \in R
  <2>1. /\ Row(e).src = e.src /\ Row(e).dst = Found(N, e) /\ Row(e).kind = e.kind
        /\ Row(e).weight = e.weight + Had(N, E, e)
    BY DEF Merged
  <2>2. e \in E /\ e.weight \in Nat
    BY DEF Open, Weighed
  <2>3. Turned(N, e).src = e.src /\ Turned(N, e).dst = Found(N, e) /\ Turned(N, e).kind = e.kind
    BY TurnedRow
  <2>4. \A g : g \in There(N, E, e) <=> g \in kept /\ SameKey(Row(e), g)
    BY <2>1, <2>3 DEF There, SameKey
  <2>5. Row(e) \in R
    BY ReresolvedMerges DEF Replaced
  <2>6. Had(N, E, e) \in Nat
    BY HadRow
  <2> QED BY <2>1, <2>2, <2>4, <2>5, <2>6
<1>2. \A r : r \in R <=>
        \/ r \in kept /\ \A e \in open : r \notin There(N, E, e)
        \/ \E e \in open : r = Row(e)
  <2>1. R = Replaced(kept, {Row(e) : e \in open})
    BY ReresolvedMerges
  <2>2. \A r \in kept, e \in open : SameKey(r, Row(e)) <=> r \in There(N, E, e)
    BY <1>1 DEF SameKey
  <2> HIDE DEF R, kept, open, Row
  <2> QED BY <2>1, <2>2 DEF Replaced
<1>3. ASSUME NEW g \in kept, Into(g) # {}
      PROVE  Host(g) \in open /\ g \in There(N, E, Host(g))
  BY <1>3
<1>4. ASSUME NEW e \in open, NEW h \in open, Row(e) = Row(h)
      PROVE  e = h
  BY <1>4, MergedApart DEF SameKey
<1>5. ASSUME NEW e \in open, NEW h \in open, NEW g \in kept, g \in There(N, E, e), g \in There(N, E, h)
      PROVE  e = h
  <2>1. SameKey(Row(e), g) /\ SameKey(Row(h), g)
    BY <1>1, <1>5
  <2>2. SameKey(Row(e), Row(h))
    BY <2>1 DEF SameKey
  <2> QED BY <2>2, MergedApart
<1>6. \A g \in E : g \in open \/ g \in kept
  BY DEF Kept
<1>7. \A g \in kept : g \in E /\ g \notin open /\ g.weight \in Nat
  BY DEF Kept, Weighed
<1>8. ASSUME NEW e \in open, NEW g \in There(N, E, e)
      PROVE  g \in kept /\ Had(N, E, e) = g.weight /\ g.src = e.src /\ \A h \in There(N, E, e) : h = g
  <2>1. g \in kept /\ SameKey(Row(e), g)
    BY <1>1
  <2>2. Had(N, E, e) = g.weight /\ \A h \in There(N, E, e) : h = g
    BY HadRow
  <2> QED BY <2>1, <2>2, <1>1 DEF SameKey
<1>9. \A e \in open : There(N, E, e) = {} => Had(N, E, e) = 0
  BY DEF Had
<1>10. /\ \A u : u \in S <=> \E e \in E : e.src[1] = f /\ \E i \in 1 .. e.weight : u = <<e, i>>
       /\ \A u : u \in T <=> \E e \in R : e.src[1] = f /\ \E i \in 1 .. e.weight : u = <<e, i>>
  BY DEF Units, From
<1> HIDE DEF open, kept, Row, R, S, T
<1>11. Weighed(R)
  BY <1>1, <1>2, <1>7 DEF Weighed
\* Where a unit goes: a turned row's come first in the merged one, then those of
\* the row that was there.
<1>12. ASSUME NEW e \in open, NEW i PROVE Moves(e, i) = <<Row(e), i>>
  OBVIOUS
<1>13. ASSUME NEW g \in kept, NEW i, \A e \in open : g \notin There(N, E, e)
       PROVE  Moves(g, i) = <<g, i>>
  BY <1>7, <1>13
<1>14. ASSUME NEW e \in open, NEW g \in There(N, E, e), NEW i
       PROVE  Moves(g, i) = <<Row(e), e.weight + i>>
  <2>1. g \in kept /\ g \notin open /\ Into(g) # {}
    BY <1>7, <1>8
  <2>2. Host(g) = e
    <3>1. Host(g) \in open /\ g \in There(N, E, Host(g))
      BY <2>1, <1>3
    <3> HIDE DEF Host
    <3> QED BY <2>1, <3>1, <1>5
  <2> HIDE DEF Host, Into
  <2> QED BY <2>1, <2>2
<1> HIDE DEF Moves
<1>15. ASSUME NEW g \in E, g.src[1] = f, NEW i \in 1 .. g.weight PROVE Moves(g, i) \in T
  <2>1. CASE g \in open
    <3>1. Row(g) \in R /\ Row(g).src[1] = f /\ Row(g).weight \in Nat /\ g.weight \in Nat
      BY <2>1, <1>1, <1>15
    <3>2. i \in 1 .. Row(g).weight
      <4>1. Had(N, E, g) \in Nat /\ Row(g).weight = g.weight + Had(N, E, g)
        BY <2>1, <1>1, HadRow DEF open
      <4> QED BY <3>1, <4>1
    <3> QED BY <2>1, <3>1, <3>2, <1>10, <1>12
  <2>2. CASE g \in kept /\ \A e \in open : g \notin There(N, E, e)
    BY <2>2, <1>2, <1>10, <1>13, <1>15
  <2>3. CASE g \in kept /\ \E e \in open : g \in There(N, E, e)
    <3>1. PICK e \in open : g \in There(N, E, e)
      BY <2>3
    <3>2. Row(e) \in R /\ Row(e).src[1] = f /\ e.weight \in Nat /\ g.weight \in Nat
          /\ Row(e).weight = e.weight + g.weight
      BY <2>3, <3>1, <1>1, <1>7, <1>8, <1>15
    <3>3. e.weight + i \in 1 .. Row(e).weight
      BY <3>2
    <3> QED BY <3>1, <3>2, <3>3, <1>10, <1>14
  <2> QED BY <2>1, <2>2, <2>3, <1>6
<1>16. m \in [S -> T]
  <2>1. ASSUME NEW u \in S PROVE Moves(u[1], u[2]) \in T
    <3>1. PICK g \in E : g.src[1] = f /\ \E i \in 1 .. g.weight : u = <<g, i>>
      BY <1>10
    <3>2. PICK i \in 1 .. g.weight : u = <<g, i>>
      BY <3>1
    <3> QED BY <3>1, <3>2, <1>15
  <2> QED BY <2>1
\* No two units go to one: there are three kinds of rows.
<1> DEFINE Alone(g) == g \in kept /\ \A e \in open : g \notin There(N, E, e)
           Joins(g, e) == g \in kept /\ e \in open /\ g \in There(N, E, e)
<1>17. \A g \in E : g \in open \/ Alone(g) \/ \E e : Joins(g, e)
  BY <1>6
<1>18. /\ \A g : Alone(g) => g \in E /\ \A e \in open : Row(e) # g
       /\ \A g, e : Joins(g, e) => /\ g \in E /\ e \in open /\ e.weight \in Nat
                                   /\ \A h : Joins(h, e) => h = g
  <2>1. \A g : Alone(g) => g \in E /\ \A e \in open : Row(e) # g
    BY <1>1, <1>7 DEF SameKey
  <2> QED BY <2>1, <1>1, <1>7, <1>8
<1>19. /\ \A g, i : g \in open => Moves(g, i) = <<Row(g), i>>
       /\ \A g, i : Alone(g) => Moves(g, i) = <<g, i>>
       /\ \A g, e, i : Joins(g, e) => Moves(g, i) = <<Row(e), e.weight + i>>
  BY <1>12, <1>13, <1>14
<1>20. \A g \in E : g.weight \in Nat /\ \A i \in 1 .. g.weight : i \in Nat /\ i >= 1 /\ i <= g.weight
  BY DEF Weighed
<1> HIDE DEF Alone, Joins
<1>21. ASSUME NEW g \in open, NEW i \in 1 .. g.weight, NEW h \in E, NEW j \in 1 .. h.weight,
              Moves(g, i) = Moves(h, j)
       PROVE  g = h /\ i = j
  <2>1. Moves(g, i) = <<Row(g), i>> /\ g \in E /\ g.weight \in Nat /\ i \in Nat /\ j \in Nat
        /\ i <= g.weight /\ j >= 1
    BY <1>1, <1>19, <1>20
  <2>2. CASE h \in open
    <3>1. Moves(h, j) = <<Row(h), j>>
      BY <2>2, <1>19
    <3> QED BY <2>1, <2>2, <3>1, <1>4, <1>21
  <2>3. CASE Alone(h)
    <3>1. Moves(h, j) = <<h, j>> /\ Row(g) # h
      BY <2>3, <1>18, <1>19
    <3> QED BY <2>1, <3>1, <1>21
  <2>4. CASE \E e : Joins(h, e)
    <3>1. PICK e : Joins(h, e)
      BY <2>4
    <3>2. Moves(h, j) = <<Row(e), e.weight + j>> /\ e \in open
      BY <3>1, <1>18, <1>19
    <3>3. Row(g) = Row(e) /\ i = e.weight + j
      BY <2>1, <3>2, <1>21
    <3>4. g = e
      BY <3>2, <3>3, <1>4
    <3> QED BY <2>1, <3>3, <3>4
  <2> QED BY <2>2, <2>3, <2>4, <1>17
<1>22. ASSUME NEW g \in E, Alone(g), NEW i \in 1 .. g.weight, NEW h \in E, NEW j \in 1 .. h.weight,
              Moves(g, i) = Moves(h, j), h \notin open
       PROVE  g = h /\ i = j
  <2>1. Moves(g, i) = <<g, i>> /\ \A e \in open : Row(e) # g
    BY <1>18, <1>19, <1>22
  <2>2. CASE Alone(h)
    <3>1. Moves(h, j) = <<h, j>>
      BY <2>2, <1>19
    <3> QED BY <2>1, <3>1, <1>22
  <2>3. CASE \E e : Joins(h, e)
    <3>1. PICK e : Joins(h, e)
      BY <2>3
    <3>2. Moves(h, j) = <<Row(e), e.weight + j>> /\ e \in open
      BY <3>1, <1>18, <1>19
    <3> QED BY <2>1, <3>2, <1>22
  <2> QED BY <2>2, <2>3, <1>17, <1>22
<1>23. ASSUME NEW g \in E, NEW e, Joins(g, e), NEW i \in 1 .. g.weight,
              NEW h \in E, NEW d, Joins(h, d), NEW j \in 1 .. h.weight,
              Moves(g, i) = Moves(h, j)
       PROVE  g = h /\ i = j
  <2>1. Moves(g, i) = <<Row(e), e.weight + i>> /\ Moves(h, j) = <<Row(d), d.weight + j>>
    BY <1>19, <1>23
  <2>2. e \in open /\ d \in open /\ e.weight \in Nat
    BY <1>18, <1>23
  <2>3. Row(e) = Row(d) /\ e.weight + i = d.weight + j
    BY <2>1, <1>23
  <2>4. e = d
    BY <2>2, <2>3, <1>4
  <2>5. g = h
    BY <2>4, <1>18, <1>23
  <2>6. i \in Nat /\ j \in Nat
    BY <1>20
  <2> QED BY <2>2, <2>3, <2>4, <2>5, <2>6
<1>24. ASSUME NEW x \in S, NEW y \in S, m[x] = m[y]
       PROVE  x = y
  <2>1. PICK g \in E : g.src[1] = f /\ \E i \in 1 .. g.weight : x = <<g, i>>
    BY <1>10
  <2>2. PICK i \in 1 .. g.weight : x = <<g, i>>
    BY <2>1
  <2>3. PICK h \in E : h.src[1] = f /\ \E j \in 1 .. h.weight : y = <<h, j>>
    BY <1>10
  <2>4. PICK j \in 1 .. h.weight : y = <<h, j>>
    BY <2>3
  <2>5. Moves(g, i) = Moves(h, j)
    BY <2>2, <2>4, <1>24
  <2>6. CASE g \in open
    BY <2>2, <2>4, <2>5, <2>6, <1>21
  <2>7. CASE h \in open
    BY <2>2, <2>4, <2>5, <2>7, <1>21
  <2>8. CASE g \notin open /\ h \notin open /\ (Alone(g) \/ Alone(h))
    BY <2>2, <2>4, <2>5, <2>8, <1>22
  <2>9. CASE (\E e : Joins(g, e)) /\ \E d : Joins(h, d)
    BY <2>2, <2>4, <2>5, <2>9, <1>23
  <2> QED BY <2>6, <2>7, <2>8, <2>9, <1>17
\* And to every unit one goes.
<1>25. ASSUME NEW g \in E, g.src[1] = f, NEW i \in 1 .. g.weight
       PROVE  \E u \in S : m[u] = Moves(g, i)
  <2>1. <<g, i>> \in S
    BY <1>10, <1>25
  <2> QED BY <2>1
<1>26. ASSUME NEW t \in T PROVE \E u \in S : m[u] = t
  <2>1. PICK r \in R : r.src[1] = f /\ \E k \in 1 .. r.weight : t = <<r, k>>
    BY <1>10
  <2>2. PICK k \in 1 .. r.weight : t = <<r, k>>
    BY <2>1
  <2> HIDE DEF m
  <2>3. CASE r \in kept /\ \A e \in open : r \notin There(N, E, e)
    BY <2>1, <2>2, <2>3, <1>7, <1>13, <1>25
  <2>4. CASE \E e \in open : r = Row(e)
    <3>1. PICK e \in open : r = Row(e)
      BY <2>4
    <3>2. e \in E /\ e.src[1] = f /\ e.weight \in Nat /\ r.weight = e.weight + Had(N, E, e)
      BY <2>1, <3>1, <1>1
    <3>3. Had(N, E, e) \in Nat
      BY <3>1, HadRow DEF open
    <3>4. CASE k <= e.weight
      <4>1. k \in 1 .. e.weight /\ Moves(e, k) = t
        BY <2>2, <3>1, <3>2, <3>3, <3>4, <1>12
      <4> QED BY <3>2, <4>1, <1>25
    <3>5. CASE k > e.weight
      <4>1. Had(N, E, e) # 0
        BY <3>2, <3>3, <3>5
      <4>2. PICK g \in There(N, E, e) : TRUE
        BY <4>1, <3>1, <1>9
      <4>3. g \in E /\ g.src[1] = f /\ g.weight = Had(N, E, e)
        BY <3>1, <3>2, <4>2, <1>7, <1>8
      <4>4. k - e.weight \in 1 .. g.weight /\ e.weight + (k - e.weight) = k
        BY <3>2, <3>3, <3>5, <4>3
      <4>5. Moves(g, k - e.weight) = t
        <5>1. Moves(g, k - e.weight) = <<Row(e), e.weight + (k - e.weight)>>
          BY <3>1, <4>2, <1>14
        <5> QED BY <5>1, <4>4, <3>1, <2>2
      <4> QED BY <4>3, <4>4, <4>5, <1>25
    <3>6. k \in Nat
      BY <3>2, <3>3
    <3> QED BY <3>2, <3>4, <3>5, <3>6
  <2> QED BY <2>3, <2>4, <1>2
<1>27. ASSUME IsFiniteSet(S) PROVE IsFiniteSet(T) /\ Cardinality(T) = Cardinality(S)
  <2> HIDE DEF m
  <2> QED BY <1>27, <1>16, <1>24, <1>26, AsMany
<1> QED BY <1>11, <1>27 DEF R, S, T

\* What is written over rows none of which is of the files read: those of a file
\* that is read are new, those of any other file stay.
LEMMA ReplacedFrom ==
  ASSUME NEW E, NEW G, NEW f
  PROVE  /\ From(E, f) = {} => From(Replaced(E, G), f) = From(G, f)
         /\ From(G, f) = {} => From(Replaced(E, G), f) = From(E, f)
  BY DEF From, Replaced, SameKey

------------------------------------------------------------------------------
(* What one run reads *)

TreeOK == \A f \in Files : tree[f] \in Versions[f] \cup {Gone}

\* The nodes a run parses are those of the present files it is handed.
LEMMA ParsedNodes ==
  ASSUME TreeOK, NEW files \in SUBSET Files
  PROVE  /\ AreNodes(Parsed(files))
         /\ \A n \in Parsed(files) : n.file \in Present(files)
         /\ \A f \in Present(files) : NodesOf(f, tree[f]) = {n \in Parsed(files) : n.file = f}
<1>1. \A f \in Present(files) : f \in Files /\ f \in files /\ tree[f] \in Contents
  BY TreeAssumption DEF Present, TreeOK
<1>2. \A f \in Present(files) : AreNodes(NodesOf(f, tree[f])) /\ \A n \in NodesOf(f, tree[f]) : n.file = f
  BY <1>1, NodesOfFile
<1>3. \A n \in Parsed(files) : \E f \in Present(files) : n \in NodesOf(f, tree[f])
  BY DEF Parsed
<1>4. \A f \in Present(files) : NodesOf(f, tree[f]) \subseteq Parsed(files)
  BY DEF Parsed
<1>5. AreNodes(Parsed(files))
  BY <1>2, <1>3 DEF AreNodes
<1> QED BY <1>2, <1>3, <1>4, <1>5

\* An edge a run emits, and a call site, come from the content of their file.
Emits(e, files) ==
  /\ e.src[1] \in Present(files) /\ e.src \in Ids(Parsed(files))
  /\ Witnesses(e, tree[e.src[1]])
SiteRead(s, c) == \E call \in c.calls : s.src = <<s.file>> \o call.by /\ s.line = call.line

LEMMA EmittedLead ==
  ASSUME TreeOK, NEW files \in SUBSET Files, NEW o \in Emitted(files)
  PROVE  /\ Leads(o) /\ Emits(o, files)
         /\ o.kind = "static_call" =>
              \E call \in tree[o.src[1]].calls : o.src = <<o.src[1]>> \o call.by /\ o.of = call
<1>1. PICK f \in Present(files) : o \in Occurrences(Parsed(files), f, tree[f])
  BY DEF Emitted
<1>2. f \in Files /\ f \in files /\ tree[f] \in Contents
  BY TreeAssumption DEF Present, TreeOK
<1>3. AreNodes(Parsed(files)) /\ NodesOf(f, tree[f]) \subseteq Parsed(files)
  BY ParsedNodes
<1>4. /\ Leads(o) /\ Witnesses(o, tree[f])
      /\ o.src \in Ids(NodesOf(f, tree[f])) /\ o.src[1] = f
      /\ o.kind = "static_call" =>
           \E call \in tree[f].calls : o.src = <<f>> \o call.by /\ o.of = call
  BY <1>1, <1>2, <1>3, OccurrencesLead
<1>5. o.src \in Ids(Parsed(files))
  BY <1>3, <1>4 DEF Ids
<1> QED BY <1>4, <1>5 DEF Emits

LEMMA EmittedSites ==
  ASSUME TreeOK, NEW files \in SUBSET Files, NEW s \in SitesOf(Emitted(files))
  PROVE  /\ s.file \in Present(files) /\ s.src[1] = s.file /\ IsResolved(s.dst)
         /\ SiteRead(s, tree[s.file])
         /\ \E o \in Emitted(files) : o.src = s.src /\ o.dst = s.dst
<1>1. PICK o \in Emitted(files) :
        /\ o.kind = "static_call" /\ IsResolved(o.dst)
        /\ s = [file |-> o.src[1], src |-> o.src, dst |-> o.dst, line |-> o.of.line]
  BY DEF SitesOf
<1>2. s.file = o.src[1] /\ s.src = o.src /\ s.dst = o.dst /\ s.line = o.of.line
  BY <1>1
<1>3. /\ Emits(o, files)
      /\ \E call \in tree[o.src[1]].calls : o.src = <<o.src[1]>> \o call.by /\ o.of = call
  BY <1>1, EmittedLead
<1> QED BY <1>1, <1>2, <1>3 DEF SiteRead, Emits

\* What is written over rows E: E's keys stay, the others are of the run.
LEMMA WrittenRows ==
  ASSUME TreeOK, NEW files \in SUBSET Files, NEW E, AreRows(E)
  PROVE  /\ AreRows(Written(E, files))
         /\ \A e \in Written(E, files) : e \in E \/ Emits(e, files)
         /\ \A e \in E : \E g \in Written(E, files) : SameKey(g, e)
         /\ \A s \in SitesOf(Emitted(files)) : \E e \in Written(E, files) :
              e.src = s.src /\ e.dst = s.dst
<1> DEFINE new == Folded(Emitted(files))
<1>1. \A o \in Emitted(files) : Leads(o) /\ Emits(o, files)
  BY EmittedLead
<1>2. /\ AreRows(new) /\ \A e \in new : \E o \in Emitted(files) : SameKey(e, o)
      /\ \A o \in Emitted(files) : \E e \in new : SameKey(e, o)
  BY <1>1, FoldedRows
<1>3. \A e \in new : Emits(e, files)
  BY <1>1, <1>2 DEF Emits, SameKey, Witnesses
<1> HIDE DEF new
<1>4. Written(E, files) = Replaced(E, new)
  BY DEF Written, new
<1>5. /\ AreRows(Replaced(E, new)) /\ Replaced(E, new) \subseteq E \cup new
      /\ \A e \in E \cup new : \E g \in Replaced(E, new) : SameKey(g, e)
  BY <1>2, ReplacedRows
<1>6. ASSUME NEW s \in SitesOf(Emitted(files))
      PROVE  \E e \in Replaced(E, new) : e.src = s.src /\ e.dst = s.dst
  <2>1. PICK o \in Emitted(files) : o.src = s.src /\ o.dst = s.dst
    BY EmittedSites
  <2>2. PICK e \in new : SameKey(e, o)
    BY <1>2
  <2>3. PICK g \in Replaced(E, new) : SameKey(g, e)
    BY <1>5
  <2> QED BY <2>1, <2>2, <2>3 DEF SameKey
<1> QED BY <1>3, <1>4, <1>5, <1>6

\* Of a file, a run emits what its content is read for, and of no other anything.
LEMMA EmittedFrom ==
  ASSUME TreeOK, NEW files \in SUBSET Files
  PROVE  /\ \A f : IsFiniteSet(From(Emitted(files), f))
         /\ \A f \in Present(files) :
              Cardinality(From(Emitted(files), f))
                = Cardinality(CallsOf(tree[f])) + Cardinality(SpecsOf(tree[f]))
         /\ \A f : f \notin Present(files) => From(Emitted(files), f) = {}
<1>1. AreNodes(Parsed(files)) /\ \A f \in Present(files) : NodesOf(f, tree[f]) \subseteq Parsed(files)
  BY ParsedNodes
<1>2. \A f \in Present(files) :
        /\ f \in Files /\ tree[f] \in Contents
        /\ IsFiniteSet(tree[f].calls) /\ IsFiniteSet(tree[f].imports)
  BY TreeAssumption DEF Present, TreeOK
<1>3. \A f \in Present(files) : \A o \in Occurrences(Parsed(files), f, tree[f]) : o.src[1] = f
  <2> SUFFICES ASSUME NEW f \in Present(files), NEW o \in Occurrences(Parsed(files), f, tree[f])
               PROVE  o.src[1] = f
    OBVIOUS
  <2> DEFINE N == Parsed(files)
             c == tree[f]
  <2>1. AreNodes(N) /\ f \in Files /\ c \in Contents /\ o \in Occurrences(N, f, c)
    BY <1>1, <1>2
  <2> HIDE DEF N, c
  <2>2. /\ Leads(o) /\ Witnesses(o, c)
        /\ o.src \in Ids(NodesOf(f, c)) /\ o.src[1] = f
        /\ o.kind = "static_call" =>
             \E call \in c.calls : o.src = <<f>> \o call.by /\ o.of = call
    BY <2>1, OccurrencesLead
  <2> QED BY <2>2
<1>4. \A f : f \notin Present(files) => From(Emitted(files), f) = {}
  BY <1>3 DEF From, Emitted
<1>5. \A f \in Present(files) : From(Emitted(files), f) = Occurrences(Parsed(files), f, tree[f])
  BY <1>3 DEF From, Emitted
<1>6. ASSUME NEW f \in Present(files)
      PROVE  /\ IsFiniteSet(From(Emitted(files), f))
             /\ Cardinality(From(Emitted(files), f))
                  = Cardinality(CallsOf(tree[f])) + Cardinality(SpecsOf(tree[f]))
  BY <1>2, <1>5, OccurrencesCount
<1>7. ASSUME NEW f PROVE IsFiniteSet(From(Emitted(files), f))
  BY <1>4, <1>6, FS_EmptySet
<1> QED BY <1>4, <1>6, <1>7

\* The edges of f stand for what c is read for.
Stand(E, f, c) ==
  /\ IsFiniteSet(Units(From(E, f)))
  /\ Cardinality(Units(From(E, f))) = Cardinality(CallsOf(c)) + Cardinality(SpecsOf(c))

LEMMA NothingStands ==
  ASSUME NEW E, NEW f, From(E, f) = {}
  PROVE  Stand(E, f, [defs |-> {}, imports |-> {}, calls |-> {}])
<1> DEFINE c == [defs |-> {}, imports |-> {}, calls |-> {}]
<1>1. CallsOf(c) = {} /\ SpecsOf(c) = {} /\ Units({}) = {}
  BY DEF CallsOf, SpecsOf, Units
<1> HIDE DEF c
<1>2. Stand(E, f, c)
  BY <1>1, FS_EmptySet DEF Stand
<1> QED BY <1>2 DEF c

LEMMA WrittenStands ==
  ASSUME TreeOK, NEW files \in SUBSET Files, NEW E, Weighed(E)
  PROVE  /\ Weighed(Written(E, files))
         /\ \A f \in Present(files) : From(E, f) = {} => Stand(Written(E, files), f, tree[f])
         /\ \A f : f \notin Present(files) => From(Written(E, files), f) = From(E, f)
<1> DEFINE O == Emitted(files)
           G == Folded(O)
<1>1. /\ \A f : IsFiniteSet(From(O, f))
      /\ \A f \in Present(files) :
           Cardinality(From(O, f)) = Cardinality(CallsOf(tree[f])) + Cardinality(SpecsOf(tree[f]))
      /\ \A f : f \notin Present(files) => From(O, f) = {}
  BY EmittedFrom
<1>2. Written(E, files) = Replaced(E, G)
  BY DEF Written
<1> HIDE DEF O
<1>3. ASSUME NEW f
      PROVE  /\ Weighed(G) /\ IsFiniteSet(Units(From(G, f)))
             /\ Cardinality(Units(From(G, f))) = Cardinality(From(O, f))
  BY <1>1, FoldedUnits
<1>4. \A f : From(O, f) = {} => From(G, f) = {}
  <2> DEFINE Weight(o) == Cardinality({p \in O : p.src = o.src /\ p.dst = o.dst /\ p.kind = o.kind})
             Row(o) == [src |-> o.src, dst |-> o.dst, kind |-> o.kind, weight |-> Weight(o)]
  <2>1. G = {Row(o) : o \in O}
    BY DEF Folded
  <2>2. \A o : Row(o).src = o.src
    OBVIOUS
  <2> HIDE DEF G, Row
  <2> QED BY <2>1, <2>2 DEF From
<1> HIDE DEF G
<1>5. Weighed(Written(E, files))
  BY <1>2, <1>3 DEF Weighed, Replaced
<1>6. ASSUME NEW f \in Present(files), From(E, f) = {} PROVE Stand(Written(E, files), f, tree[f])
  <2>1. From(Written(E, files), f) = From(G, f)
    BY <1>2, <1>6, ReplacedFrom
  <2> QED BY <2>1, <1>1, <1>3 DEF Stand
<1>7. ASSUME NEW f, f \notin Present(files) PROVE From(Written(E, files), f) = From(E, f)
  <2>1. From(G, f) = {}
    BY <1>1, <1>4, <1>7
  <2> QED BY <2>1, <1>2, ReplacedFrom
<1> QED BY <1>5, <1>6, <1>7

------------------------------------------------------------------------------
(* The inductive invariant *)

\* The rows are what the files were last read with, and lead where they should.
NodesBuilt ==
  \A f \in Files \ scoped :
    {n \in nodes : n.file = f} = IF built[f] = Gone THEN {} ELSE NodesOf(f, built[f])
EdgesOut == \A e \in edges : e.src \in Ids(nodes)
EdgesWitnessed == \A e \in edges : e.src[1] \notin scoped => Witnesses(e, Content(e.src[1]))
SitesLead ==
  \A s \in sites :
    /\ s.file \in Files /\ s.src[1] = s.file /\ IsResolved(s.dst)
    /\ \E e \in edges : e.src = s.src /\ e.dst = s.dst
SitesBuilt == \A s \in sites : s.file \notin scoped => SiteRead(s, Content(s.file))

RowsInv ==
  /\ AreNodes(nodes) /\ AreRows(edges)
  /\ NodesBuilt /\ EdgesOut /\ EdgesWitnessed /\ SitesLead /\ SitesBuilt

VerdictsOK == flagged \subseteq rejected /\ rejected \subseteq Files
IndexInv ==
  /\ tree \in [Files -> (UNION {Versions[f] : f \in Files}) \cup {Gone}] /\ TreeOK
  /\ RowsInv /\ Ids(nodes) \subseteq docs
  /\ VerdictsOK
  /\ scoped \subseteq Files /\ runs \in 0 .. MaxRuns

\* The content a file that is there was read with.
LEMMA ContentRead ==
  ASSUME NEW f, built'[f] = tree[f], tree[f] # Gone
  PROVE  Content(f)' = tree[f]
  BY DEF Content

\* A full run has the rows of the files it is handed and no others.
LEMMA FullKeeps ==
  ASSUME TreeOK, NEW files \in SUBSET Files, Full(files)
  PROVE  RowsInv'
<1>1. nodes' = Parsed(files)
  BY DEF Full, Upserted
<1>2. /\ AreNodes(Parsed(files))
      /\ \A n \in Parsed(files) : n.file \in Present(files)
      /\ \A f \in Present(files) : NodesOf(f, tree[f]) = {n \in Parsed(files) : n.file = f}
  BY ParsedNodes
<1>3. AreRows({})
  BY DEF AreRows
<1>4. /\ AreRows(edges') /\ \A e \in edges' : Emits(e, files)
      /\ \A s \in SitesOf(Emitted(files)) : \E e \in edges' : e.src = s.src /\ e.dst = s.dst
  <2>1. edges' = Written({}, files)
    BY DEF Full
  <2> QED BY <2>1, <1>3, WrittenRows
<1>5. sites' = SitesOf(Emitted(files))
  BY DEF Full, SitesReplaced
<1>6. \A f \in Files : built'[f] = IF f \in files THEN tree[f] ELSE Gone
  BY DEF Full
<1>7. \A f \in Present(files) : f \in Files /\ f \in files /\ tree[f] # Gone
  BY DEF Present
<1>8. \A f \in Present(files) : Content(f)' = tree[f]
  BY <1>6, <1>7, ContentRead
<1>9. NodesBuilt'
  <2> SUFFICES ASSUME NEW f \in Files
               PROVE  {n \in nodes' : n.file = f} = IF built'[f] = Gone THEN {} ELSE NodesOf(f, built'[f])
    BY DEF NodesBuilt
  <2>1. CASE f \in Present(files)
    BY <2>1, <1>1, <1>2, <1>6, <1>7
  <2>2. CASE f \notin Present(files)
    <3>1. built'[f] = Gone
      BY <2>2, <1>6 DEF Present
    <3>2. {n \in nodes' : n.file = f} = {}
      BY <2>2, <1>1, <1>2
    <3> QED BY <3>1, <3>2
  <2> QED BY <2>1, <2>2
<1>10. EdgesOut'
  BY <1>1, <1>4 DEF EdgesOut, Emits, Ids
<1>11. EdgesWitnessed'
  BY <1>4, <1>8 DEF EdgesWitnessed, Emits
<1>12. SitesLead' /\ SitesBuilt'
  <2> SUFFICES ASSUME NEW s \in sites'
               PROVE  /\ s.file \in Files /\ s.src[1] = s.file /\ IsResolved(s.dst)
                      /\ \E e \in edges' : e.src = s.src /\ e.dst = s.dst
                      /\ SiteRead(s, Content(s.file)')
    BY DEF SitesLead, SitesBuilt, SiteRead
  <2>1. /\ s.file \in Present(files) /\ s.src[1] = s.file /\ IsResolved(s.dst)
        /\ SiteRead(s, tree[s.file])
    BY <1>5, EmittedSites
  <2> QED BY <2>1, <1>4, <1>5, <1>7, <1>8
<1> QED BY <1>1, <1>2, <1>4, <1>9, <1>10, <1>11, <1>12 DEF RowsInv

\* A path-scoped run writes over rows of its files only, which are from then on scoped.
LEMMA ScopedKeeps ==
  ASSUME TreeOK, RowsInv, NEW files \in SUBSET Files, Scoped(files)
  PROVE  RowsInv'
<1>1. nodes' = Upserted(nodes, files) /\ edges' = Written(edges, files)
      /\ sites' = SitesReplaced(sites, files) /\ scoped' = scoped \cup Present(files)
  BY DEF Scoped
<1>2. /\ AreNodes(Parsed(files)) /\ \A n \in Parsed(files) : n.file \in Present(files)
  BY ParsedNodes
<1>3. AreNodes(nodes) /\ AreRows(edges)
  BY DEF RowsInv
<1>4. AreNodes(nodes') /\ Ids(nodes) \subseteq Ids(nodes') /\ Ids(Parsed(files)) \subseteq Ids(nodes')
  BY <1>1, <1>2, <1>3 DEF AreNodes, Upserted, Ids
<1>5. /\ AreRows(edges')
      /\ \A e \in edges' : e \in edges \/ Emits(e, files)
      /\ \A e \in edges : \E g \in edges' : SameKey(g, e)
      /\ \A s \in SitesOf(Emitted(files)) : \E e \in edges' : e.src = s.src /\ e.dst = s.dst
  BY <1>1, <1>3, WrittenRows
<1>6. \A f \in Files : f \notin Present(files) => built'[f] = built[f]
  BY DEF Scoped
<1>7. \A f \in Files : f \notin scoped' => f \notin scoped /\ f \notin Present(files) /\ Content(f)' = Content(f)
  BY <1>1, <1>6 DEF Content
<1>8. NodesBuilt'
  <2> SUFFICES ASSUME NEW f \in Files, f \notin scoped'
               PROVE  {n \in nodes' : n.file = f} = IF built'[f] = Gone THEN {} ELSE NodesOf(f, built'[f])
    BY DEF NodesBuilt
  <2>1. f \notin scoped /\ f \notin Present(files) /\ built'[f] = built[f]
    BY <1>6, <1>7
  <2>2. {n \in nodes' : n.file = f} = {n \in nodes : n.file = f}
    <3>1. \A n \in nodes : n.file = f => n.id \notin Ids(Parsed(files))
      BY <2>1, <1>2, <1>3 DEF AreNodes, Ids
    <3> QED BY <3>1, <2>1, <1>1, <1>2 DEF Upserted
  <2> QED BY <2>1, <2>2 DEF RowsInv, NodesBuilt
<1>9. EdgesOut'
  BY <1>4, <1>5 DEF RowsInv, EdgesOut, Emits
<1>10. EdgesWitnessed'
  <2> SUFFICES ASSUME NEW e \in edges', e.src[1] \notin scoped'
               PROVE  Witnesses(e, Content(e.src[1])')
    BY DEF EdgesWitnessed, Witnesses
  <2>1. e.src[1] \in Files
    BY <1>5, EntityParts DEF AreRows, Leads
  <2>2. e \in edges
    BY <2>1, <1>5, <1>7 DEF Emits
  <2> QED BY <2>1, <2>2, <1>7 DEF RowsInv, EdgesWitnessed
<1>11. SitesLead' /\ SitesBuilt'
  <2> SUFFICES ASSUME NEW s \in sites'
               PROVE  /\ s.file \in Files /\ s.src[1] = s.file /\ IsResolved(s.dst)
                      /\ \E e \in edges' : e.src = s.src /\ e.dst = s.dst
                      /\ s.file \notin scoped' => SiteRead(s, Content(s.file)')
    BY DEF SitesLead, SitesBuilt, SiteRead
  <2>1. CASE s \in SitesOf(Emitted(files))
    <3>1. s.file \in Present(files) /\ s.src[1] = s.file /\ IsResolved(s.dst)
      BY <2>1, EmittedSites
    <3>2. s.file \in Files /\ s.file \in scoped'
      BY <3>1, <1>1 DEF Present
    <3> QED BY <2>1, <3>1, <3>2, <1>5
  <2>2. CASE s \in sites
    <3>1. /\ s.file \in Files /\ s.src[1] = s.file /\ IsResolved(s.dst)
          /\ \E e \in edges : e.src = s.src /\ e.dst = s.dst
          /\ s.file \notin scoped => SiteRead(s, Content(s.file))
      BY <2>2 DEF RowsInv, SitesLead, SitesBuilt
    <3>2. \E e \in edges' : e.src = s.src /\ e.dst = s.dst
      BY <3>1, <1>5 DEF SameKey
    <3> QED BY <3>1, <3>2, <1>7
  <2> QED BY <2>1, <2>2, <1>1 DEF SitesReplaced
<1> QED BY <1>4, <1>5, <1>8, <1>9, <1>10, <1>11 DEF RowsInv

\* The edges a purge leaves are those out of other files.
LEMMA PurgedRows ==
  ASSUME RowsInv, NEW files \in SUBSET Files
  PROVE  /\ AreRows(PurgedEdges(files)) /\ PurgedEdges(files) \subseteq edges
         /\ \A e \in PurgedEdges(files) : e.src[1] \notin files /\ e.src \in Ids(PurgedNodes(files))
         /\ \A e \in edges : e.src[1] \notin files => e \in PurgedEdges(files)
<1>1. PurgedEdges(files) \subseteq edges /\ AreRows(PurgedEdges(files))
  BY DEF RowsInv, PurgedEdges, AreRows
<1>2. \A n \in nodes : n.id[1] = n.file
  BY DEF RowsInv, AreNodes
<1>3. ASSUME NEW e \in PurgedEdges(files)
      PROVE  e.src[1] \notin files /\ e.src \in Ids(PurgedNodes(files))
  <2>1. e.src \in Ids(nodes) /\ e.src \notin Ids({n \in nodes : n.file \in files})
    BY DEF RowsInv, EdgesOut, PurgedEdges
  <2>2. PICK n \in nodes : e.src = n.id
    BY <2>1 DEF Ids
  <2>3. n.file \notin files
    BY <2>1, <2>2 DEF Ids
  <2> QED BY <2>2, <2>3, <1>2 DEF Ids, PurgedNodes
<1>4. ASSUME NEW e \in edges, e.src[1] \notin files
      PROVE  e \in PurgedEdges(files)
  BY <1>2, <1>4 DEF PurgedEdges, Ids
<1> QED BY <1>1, <1>3, <1>4

\* What a batch or an incremental run makes of the edges: those of other files,
\* which may be turned within the package of their source, and those it emits.
LEMMA ReconciledEdges ==
  ASSUME TreeOK, RowsInv, NEW files \in SUBSET Files, Reconciled(files)
  PROVE  /\ AreNodes(nodes') /\ AreRows(edges')
         /\ \A e \in edges' : \E g :
              /\ g \in PurgedEdges(files) \/ Emits(g, files)
              /\ e.src = g.src /\ e.kind = g.kind
              /\ e.dst = g.dst \/ Pkg[e.dst[1]] = Pkg[e.src[1]]
         /\ \A g \in PurgedEdges(files) : IsResolved(g.dst) => \E e \in edges' : SameKey(e, g)
         /\ \A s \in SitesOf(Emitted(files)) : \E e \in edges' : e.src = s.src /\ e.dst = s.dst
<1> DEFINE old == PurgedEdges(files)
           written == Written(old, files)
<1>1. AreRows(old)
  BY PurgedRows
<1>2. AreNodes(nodes')
  <2>1. nodes' = PurgedNodes(files) \cup Parsed(files) /\ AreNodes(Parsed(files))
    BY ParsedNodes DEF Reconciled
  <2> QED BY <2>1 DEF PurgedNodes, RowsInv, AreNodes
<1> HIDE DEF old
<1>3. /\ AreRows(written) /\ \A e \in written : e \in old \/ Emits(e, files)
      /\ \A e \in old : \E g \in written : SameKey(g, e)
      /\ \A s \in SitesOf(Emitted(files)) : \E e \in written : e.src = s.src /\ e.dst = s.dst
  BY <1>1, WrittenRows
<1>4. CASE Present(files) = {}
  <2>1. edges' = old
    BY <1>4 DEF Reconciled, old
  <2>2. SitesOf(Emitted(files)) = {}
    BY <1>4 DEF Emitted, SitesOf
  <2> QED BY <1>1, <1>2, <2>1, <2>2 DEF SameKey, old
<1>5. CASE Present(files) # {}
  <2> HIDE DEF written
  <2>1. edges' = Reresolved(nodes', written)
    BY <1>5 DEF Reconciled, written, old
  <2>2. /\ AreRows(edges')
        /\ \A e \in edges' : \E g \in written :
             /\ e.src = g.src /\ e.kind = g.kind
             /\ e.dst = g.dst \/ Pkg[e.dst[1]] = Pkg[e.src[1]]
        /\ \A g \in written : IsResolved(g.dst) => \E e \in edges' : SameKey(e, g)
    BY <1>2, <1>3, <2>1, ReresolvedRows
  <2>3. ASSUME NEW g \in old, IsResolved(g.dst)
        PROVE  \E e \in edges' : SameKey(e, g)
    <3>1. PICK h \in written : SameKey(h, g)
      BY <1>3
    <3>2. PICK e \in edges' : SameKey(e, h)
      BY <2>2, <2>3, <3>1 DEF SameKey
    <3> QED BY <3>1, <3>2 DEF SameKey
  <2>4. ASSUME NEW s \in SitesOf(Emitted(files))
        PROVE  \E e \in edges' : e.src = s.src /\ e.dst = s.dst
    <3>1. PICK h \in written : h.src = s.src /\ h.dst = s.dst
      BY <1>3
    <3>2. IsResolved(h.dst)
      BY <3>1, EmittedSites
    <3>3. PICK e \in edges' : SameKey(e, h)
      BY <2>2, <3>2
    <3> QED BY <3>1, <3>3 DEF SameKey
  <2>5. ASSUME NEW e \in edges'
        PROVE  \E g : /\ g \in old \/ Emits(g, files)
                      /\ e.src = g.src /\ e.kind = g.kind
                      /\ e.dst = g.dst \/ Pkg[e.dst[1]] = Pkg[e.src[1]]
    BY <1>3, <2>2
  <2> QED BY <1>2, <2>2, <2>3, <2>4, <2>5 DEF old
<1> QED BY <1>4, <1>5

\* A batch, or an incremental run, makes the rows of its files anew.
LEMMA ReconciledKeeps ==
  ASSUME TreeOK, RowsInv, NEW files \in SUBSET Files, Reconciled(files)
  PROVE  RowsInv'
<1>1. /\ nodes' = PurgedNodes(files) \cup Parsed(files)
      /\ sites' = PurgedSites(files) \cup SitesOf(Emitted(files))
      /\ scoped' = scoped \ files
  BY DEF Reconciled
<1>2. /\ AreNodes(Parsed(files)) /\ \A n \in Parsed(files) : n.file \in Present(files)
      /\ \A f \in Present(files) : NodesOf(f, tree[f]) = {n \in Parsed(files) : n.file = f}
  BY ParsedNodes
<1>3. /\ AreNodes(nodes') /\ AreRows(edges')
      /\ \A e \in edges' : \E g :
           /\ g \in PurgedEdges(files) \/ Emits(g, files)
           /\ e.src = g.src /\ e.kind = g.kind
           /\ e.dst = g.dst \/ Pkg[e.dst[1]] = Pkg[e.src[1]]
      /\ \A g \in PurgedEdges(files) : IsResolved(g.dst) => \E e \in edges' : SameKey(e, g)
      /\ \A s \in SitesOf(Emitted(files)) : \E e \in edges' : e.src = s.src /\ e.dst = s.dst
  BY ReconciledEdges
<1>4. /\ PurgedEdges(files) \subseteq edges
      /\ \A e \in PurgedEdges(files) : e.src[1] \notin files /\ e.src \in Ids(PurgedNodes(files))
      /\ \A e \in edges : e.src[1] \notin files => e \in PurgedEdges(files)
  BY PurgedRows
<1>5. \A f \in Files : built'[f] = IF f \in files THEN tree[f] ELSE built[f]
  BY DEF Reconciled
<1>6. \A f \in Present(files) : f \in Files /\ f \in files /\ Content(f)' = tree[f] /\ tree[f] # Gone
  BY <1>5, ContentRead DEF Present
<1>7. \A f \in Files : f \notin files => Content(f)' = Content(f)
  BY <1>5 DEF Content
<1>8. NodesBuilt'
  <2> SUFFICES ASSUME NEW f \in Files, f \notin scoped'
               PROVE  {n \in nodes' : n.file = f} = IF built'[f] = Gone THEN {} ELSE NodesOf(f, built'[f])
    BY DEF NodesBuilt
  <2>1. CASE f \notin files
    <3>1. {n \in nodes' : n.file = f} = {n \in nodes : n.file = f}
      BY <2>1, <1>1, <1>2 DEF PurgedNodes, Present
    <3>2. f \notin scoped /\ built'[f] = built[f]
      BY <2>1, <1>1, <1>5
    <3> QED BY <3>1, <3>2 DEF RowsInv, NodesBuilt
  <2>2. CASE f \in files
    <3>1. {n \in nodes' : n.file = f} = {n \in Parsed(files) : n.file = f}
      BY <2>2, <1>1 DEF PurgedNodes
    <3>2. CASE f \in Present(files)
      BY <3>1, <3>2, <1>2, <1>5, <1>6
    <3>3. CASE f \notin Present(files)
      <4>1. built'[f] = Gone
        BY <2>2, <3>3, <1>5 DEF Present
      <4>2. {n \in Parsed(files) : n.file = f} = {}
        BY <3>3, <1>2
      <4> QED BY <3>1, <4>1, <4>2
    <3> QED BY <3>2, <3>3
  <2> QED BY <2>1, <2>2
<1>9. EdgesOut'
  <2> SUFFICES ASSUME NEW e \in edges' PROVE e.src \in Ids(nodes')
    BY DEF EdgesOut
  <2>1. e.src \in Ids(PurgedNodes(files)) \/ e.src \in Ids(Parsed(files))
    BY <1>3, <1>4 DEF Emits
  <2> QED BY <2>1, <1>1 DEF Ids
<1>10. EdgesWitnessed'
  <2> SUFFICES ASSUME NEW e \in edges', e.src[1] \notin scoped'
               PROVE  Witnesses(e, Content(e.src[1])')
    BY DEF EdgesWitnessed, Witnesses
  <2>1. PICK g : /\ g \in PurgedEdges(files) \/ Emits(g, files)
                 /\ e.src = g.src /\ e.kind = g.kind
                 /\ e.dst = g.dst \/ Pkg[e.dst[1]] = Pkg[e.src[1]]
    BY <1>3
  <2>2. e.src[1] \in Files
    BY <1>3, EntityParts DEF AreRows, Leads
  <2>3. Witnesses(g, Content(e.src[1])')
    <3>1. CASE g \in PurgedEdges(files)
      <4>1. g \in edges /\ e.src[1] \notin files /\ g.src[1] \notin scoped
        BY <3>1, <2>1, <1>1, <1>4
      <4> QED BY <4>1, <2>1, <2>2, <1>7 DEF RowsInv, EdgesWitnessed
    <3>2. CASE Emits(g, files)
      BY <3>2, <2>1, <1>6 DEF Emits
    <3> QED BY <2>1, <3>1, <3>2
  <2> QED BY <2>1, <2>3 DEF Witnesses
<1>11. SitesLead' /\ SitesBuilt'
  <2> SUFFICES ASSUME NEW s \in sites'
               PROVE  /\ s.file \in Files /\ s.src[1] = s.file /\ IsResolved(s.dst)
                      /\ \E e \in edges' : e.src = s.src /\ e.dst = s.dst
                      /\ s.file \notin scoped' => SiteRead(s, Content(s.file)')
    BY DEF SitesLead, SitesBuilt, SiteRead
  <2>1. CASE s \in SitesOf(Emitted(files))
    <3>1. /\ s.file \in Present(files) /\ s.src[1] = s.file /\ IsResolved(s.dst)
          /\ SiteRead(s, tree[s.file])
      BY <2>1, EmittedSites
    <3> QED BY <2>1, <3>1, <1>3, <1>6
  <2>2. CASE s \in PurgedSites(files)
    <3>1. s \in sites /\ s.file \notin files
      BY <2>2 DEF PurgedSites
    <3>2. /\ s.file \in Files /\ s.src[1] = s.file /\ IsResolved(s.dst)
          /\ \E e \in edges : e.src = s.src /\ e.dst = s.dst
          /\ s.file \notin scoped => SiteRead(s, Content(s.file))
      BY <3>1 DEF RowsInv, SitesLead, SitesBuilt
    <3>3. PICK g \in edges : g.src = s.src /\ g.dst = s.dst
      BY <3>2
    <3>4. g \in PurgedEdges(files)
      BY <3>1, <3>2, <3>3, <1>4
    <3>5. \E e \in edges' : SameKey(e, g)
      BY <3>2, <3>3, <3>4, <1>3
    <3>6. \E e \in edges' : e.src = s.src /\ e.dst = s.dst
      BY <3>3, <3>5 DEF SameKey
    <3> QED BY <3>1, <3>2, <3>6, <1>1, <1>7
  <2> QED BY <2>1, <2>2, <1>1
<1> QED BY <1>3, <1>8, <1>9, <1>10, <1>11 DEF RowsInv

\* A run that only edits leaves what the rows were read from.
LEMMA RowsInvStays ==
  ASSUME RowsInv, UNCHANGED <<nodes, edges, sites, built, scoped>>
  PROVE  RowsInv'
<1>1. \A f : Content(f)' = Content(f)
  BY DEF Content
<1>2. NodesBuilt' /\ EdgesOut' /\ SitesLead'
  BY DEF RowsInv, NodesBuilt, EdgesOut, SitesLead, Ids
<1>3. EdgesWitnessed' /\ SitesBuilt'
  BY <1>1 DEF RowsInv, EdgesWitnessed, SitesBuilt
<1> QED BY <1>2, <1>3 DEF RowsInv

------------------------------------------------------------------------------
(* Every step keeps the invariant *)

LEMMA InitOK == Init => IndexInv
<1> SUFFICES ASSUME Init PROVE IndexInv
  OBVIOUS
<1>1. /\ tree \in [Files -> UNION {Versions[f] : f \in Files}]
      /\ \A f \in Files : tree[f] \in Versions[f]
  BY DEF Init
<1>2. tree \in [Files -> (UNION {Versions[f] : f \in Files}) \cup {Gone}] /\ TreeOK
  BY <1>1 DEF TreeOK
<1>3. nodes = {} /\ edges = {} /\ sites = {}
  BY DEF Init
<1>4. NodesBuilt
  BY <1>3 DEF Init, NodesBuilt
<1>5. AreNodes(nodes) /\ AreRows(edges) /\ EdgesOut /\ EdgesWitnessed /\ SitesLead /\ SitesBuilt
  BY <1>3 DEF AreNodes, AreRows, EdgesOut, EdgesWitnessed, SitesLead, SitesBuilt
<1>6. Ids(nodes) \subseteq docs /\ VerdictsOK /\ scoped \subseteq Files
  BY <1>3 DEF Init, Ids, VerdictsOK
<1>7. runs \in 0 .. MaxRuns
  BY RunsAssumption DEF Init
<1> QED BY <1>2, <1>4, <1>5, <1>6, <1>7 DEF IndexInv, RowsInv

LEMMA EditOK ==
  ASSUME IndexInv, NEW f \in Files, Edit(f)
  PROVE  IndexInv'
<1>1. PICK c \in Versions[f] \cup {Gone} : tree' = [tree EXCEPT ![f] = c]
  BY DEF Edit
<1>2. UNCHANGED <<nodes, edges, sites, rejected, flagged, docs, built, scoped, runs>>
  BY DEF Edit, verdicts
<1>3. tree' \in [Files -> (UNION {Versions[g] : g \in Files}) \cup {Gone}] /\ TreeOK'
  <2>1. \A g \in Files : tree'[g] \in Versions[g] \cup {Gone}
    BY <1>1 DEF IndexInv, TreeOK
  <2>2. tree' \in [Files -> (UNION {Versions[g] : g \in Files}) \cup {Gone}]
    BY <1>1 DEF IndexInv
  <2> QED BY <2>1, <2>2 DEF TreeOK
<1>4. RowsInv'
  BY <1>2, RowsInvStays DEF IndexInv
<1> QED BY <1>2, <1>3, <1>4 DEF IndexInv, VerdictsOK, Ids

\* What any run leaves alone, and counts.
LEMMA RunOK ==
  ASSUME IndexInv, Run
  PROVE  /\ tree' \in [Files -> (UNION {Versions[g] : g \in Files}) \cup {Gone}] /\ TreeOK'
         /\ runs' \in 0 .. MaxRuns
<1>1. tree' = tree /\ runs < MaxRuns /\ runs' = runs + 1
  BY DEF Run
<1>2. runs' \in 0 .. MaxRuns
  BY <1>1, RunsAssumption DEF IndexInv
<1> QED BY <1>1, <1>2 DEF IndexInv, TreeOK

LEMMA FullOK ==
  ASSUME IndexInv, NEW files \in SUBSET Files, Full(files)
  PROVE  IndexInv'
<1>1. Run
  BY DEF Full
<1>2. RowsInv'
  BY FullKeeps DEF IndexInv
<1>3. Ids(nodes)' \subseteq docs'
  BY DEF Full, Ids
<1>4. VerdictsOK' /\ scoped' \subseteq Files
  BY DEF Full, IndexInv, VerdictsOK
<1> QED BY <1>1, <1>2, <1>3, <1>4, RunOK DEF IndexInv

LEMMA ScopedOK ==
  ASSUME IndexInv, NEW files \in SUBSET Files, Scoped(files)
  PROVE  IndexInv'
<1>1. Run
  BY DEF Scoped
<1>2. RowsInv'
  BY ScopedKeeps DEF IndexInv
<1>3. Ids(nodes)' \subseteq docs'
  BY DEF Scoped, Upserted, Ids, IndexInv
<1>4. VerdictsOK' /\ scoped' \subseteq Files
  BY DEF Scoped, verdicts, Present, IndexInv, VerdictsOK
<1> QED BY <1>1, <1>2, <1>3, <1>4, RunOK DEF IndexInv

LEMMA IncrementalOK ==
  ASSUME IndexInv, NEW files \in SUBSET Files, Incremental(files)
  PROVE  IndexInv'
<1>1. Reconciled(files) /\ Run
  BY DEF Incremental, Reconciled
<1>2. RowsInv'
  BY <1>1, ReconciledKeeps DEF IndexInv
<1>3. Ids(nodes)' \subseteq docs'
  <2> SUFFICES ASSUME NEW n \in PurgedNodes(files) \cup Parsed(files)
               PROVE  n.id \in docs'
    BY <1>1 DEF Reconciled, Ids
  <2>1. docs' = (docs \ Ids({m \in nodes : m.file \in files})) \cup Ids(Parsed(files))
    BY DEF Incremental
  <2>2. CASE n \in PurgedNodes(files)
    <3>1. n \in nodes /\ n.file \notin files
      BY <2>2 DEF PurgedNodes
    <3>2. n.id \in docs
      BY <3>1 DEF IndexInv, Ids
    <3>3. \A m \in nodes : m.id = n.id => m.file = n.file
      BY <3>1 DEF IndexInv, RowsInv, AreNodes
    <3>4. n.id \notin Ids({m \in nodes : m.file \in files})
      BY <3>1, <3>3 DEF Ids
    <3> QED BY <2>1, <3>2, <3>4
  <2>3. CASE n \in Parsed(files)
    BY <2>1, <2>3 DEF Ids
  <2> QED BY <2>2, <2>3
<1>4. VerdictsOK' /\ scoped' \subseteq Files
  <2>1. flagged' = flagged \ files /\ rejected' = rejected
    BY DEF Incremental
  <2>2. scoped' = scoped \ files
    BY <1>1 DEF Reconciled
  <2> QED BY <2>1, <2>2 DEF IndexInv, VerdictsOK
<1> QED BY <1>1, <1>2, <1>3, <1>4, RunOK DEF IndexInv

LEMMA BatchOK ==
  ASSUME IndexInv, NEW files \in SUBSET Files, Batch(files)
  PROVE  IndexInv'
<1>1. Reconciled(files) /\ Run
  BY DEF Batch, Reconciled
<1>2. RowsInv'
  BY <1>1, ReconciledKeeps DEF IndexInv
<1>3. Ids(nodes)' \subseteq docs'
  <2>1. nodes' = PurgedNodes(files) \cup Parsed(files) /\ docs' = docs \cup Ids(Parsed(files))
    BY <1>1 DEF Batch, Reconciled
  <2> QED BY <2>1 DEF PurgedNodes, Ids, IndexInv
<1>4. VerdictsOK' /\ scoped' \subseteq Files
  <2>1. PICK failed \in {{}, Present(files)} :
          rejected' = (rejected \ files) \cup failed /\ flagged' = (flagged \ files) \cup failed
    BY DEF Batch
  <2>2. failed \subseteq Files
    BY <2>1 DEF Present
  <2>3. scoped' = scoped \ files
    BY <1>1 DEF Reconciled
  <2> QED BY <2>1, <2>2, <2>3 DEF IndexInv, VerdictsOK
<1> QED BY <1>1, <1>2, <1>3, <1>4, RunOK DEF IndexInv

LEMMA NextOK == IndexInv /\ [Next]_vars => IndexInv'
<1> SUFFICES ASSUME IndexInv, [Next]_vars PROVE IndexInv'
  OBVIOUS
<1>1. CASE \E f \in Files : Edit(f)
  BY <1>1, EditOK
<1>2. CASE Full(Files)
  BY <1>2, FullOK
<1>3. CASE \E files \in (SUBSET Files) \ {{}} :
             Full(files) \/ Scoped(files) \/ Incremental(files) \/ Batch(files)
  BY <1>3, FullOK, ScopedOK, IncrementalOK, BatchOK
<1>4. CASE UNCHANGED vars
  <2>1. UNCHANGED <<tree, nodes, edges, sites, rejected, flagged, docs, built, scoped, runs>>
    BY <1>4 DEF vars, verdicts
  <2>2. RowsInv'
    BY <2>1, RowsInvStays DEF IndexInv
  <2> QED BY <2>1, <2>2 DEF IndexInv, TreeOK, VerdictsOK, Ids
<1> QED BY <1>1, <1>2, <1>3, <1>4 DEF Next

LEMMA IndexAlways == Spec => []IndexInv
  BY InitOK, NextOK, PTL DEF Spec

------------------------------------------------------------------------------
(* What edges stand for, through every run *)

CountsOK ==
  /\ Weighed(edges)
  /\ \A f \in Files \ scoped : Stand(edges, f, Content(f))

LEMMA FullCounts ==
  ASSUME TreeOK, NEW files \in SUBSET Files, Full(files)
  PROVE  CountsOK'
<1>1. edges' = Written({}, files)
  BY DEF Full
<1>2. Weighed({}) /\ \A f : From({}, f) = {}
  BY DEF Weighed, From
<1>3. /\ Weighed(edges') /\ \A f \in Present(files) : Stand(edges', f, tree[f])
      /\ \A f : f \notin Present(files) => From(edges', f) = {}
  BY <1>1, <1>2, WrittenStands
<1>4. \A f \in Files : built'[f] = IF f \in files THEN tree[f] ELSE Gone
  BY DEF Full
<1>5. ASSUME NEW f \in Files PROVE Stand(edges', f, Content(f)')
  <2>1. CASE f \in Present(files)
    <3>1. Content(f)' = tree[f]
      BY <2>1, <1>4, ContentRead DEF Present
    <3> QED BY <2>1, <3>1, <1>3
  <2>2. CASE f \notin Present(files)
    <3>1. built'[f] = Gone
      BY <2>2, <1>4 DEF Present
    <3>2. Content(f)' = [defs |-> {}, imports |-> {}, calls |-> {}]
      BY <3>1 DEF Content
    <3> QED BY <2>2, <3>2, <1>3, NothingStands
  <2> QED BY <2>1, <2>2
<1>6. \A f \in Files \ scoped' : Stand(edges', f, Content(f)')
  BY <1>5
<1> QED BY <1>3, <1>6 DEF CountsOK, Stand, Weighed

LEMMA ScopedCounts ==
  ASSUME TreeOK, CountsOK, NEW files \in SUBSET Files, Scoped(files)
  PROVE  CountsOK'
<1>1. edges' = Written(edges, files) /\ scoped' = scoped \cup Present(files)
  BY DEF Scoped
<1>2. /\ Weighed(edges')
      /\ \A f : f \notin Present(files) => From(edges', f) = From(edges, f)
  BY <1>1, WrittenStands DEF CountsOK
<1>3. ASSUME NEW f \in Files \ scoped' PROVE Stand(edges', f, Content(f)')
  <2>1. f \in Files \ scoped /\ f \notin Present(files)
    BY <1>1
  <2>2. Content(f)' = Content(f)
    BY <2>1 DEF Scoped, Content
  <2> QED BY <2>1, <2>2, <1>2 DEF CountsOK, Stand
<1> QED BY <1>2, <1>3 DEF CountsOK, Stand, Weighed

LEMMA ReconciledCounts ==
  ASSUME TreeOK, RowsInv, CountsOK, NEW files \in SUBSET Files, Reconciled(files)
  PROVE  CountsOK'
<1> DEFINE old == PurgedEdges(files)
           written == Written(old, files)
<1>1. /\ AreRows(old) /\ old \subseteq edges
      /\ \A e \in old : e.src[1] \notin files
      /\ \A e \in edges : e.src[1] \notin files => e \in old
  BY PurgedRows
<1>2. scoped' = scoped \ files /\ \A f \in Files : built'[f] = IF f \in files THEN tree[f] ELSE built[f]
  BY DEF Reconciled
<1> HIDE DEF old
<1>3. /\ Weighed(old)
      /\ \A f \in files : From(old, f) = {}
      /\ \A f : f \notin files => From(old, f) = From(edges, f)
  BY <1>1 DEF CountsOK, Weighed, From
<1>4. Present(files) \subseteq files /\ \A f \in files : f \in Present(files) <=> tree[f] # Gone
  BY DEF Present
\* Before names are looked up again.
<1>5. ASSUME NEW f \in Files \ scoped', f \in Present(files) PROVE Stand(written, f, Content(f)')
  <2>1. Content(f)' = tree[f]
    BY <1>2, <1>4, <1>5, ContentRead
  <2> HIDE DEF written
  <2>2. Stand(written, f, tree[f])
    BY <1>3, <1>4, <1>5, WrittenStands DEF written
  <2> QED BY <2>1, <2>2
<1>6. ASSUME NEW f \in Files \ scoped', f \notin Present(files) PROVE Stand(old, f, Content(f)')
  <2>1. CASE f \in files
    <3>1. Content(f)' = [defs |-> {}, imports |-> {}, calls |-> {}]
      BY <2>1, <1>2, <1>4, <1>6 DEF Content
    <3> QED BY <2>1, <3>1, <1>3, NothingStands
  <2>2. CASE f \notin files
    <3>1. f \in Files \ scoped /\ Content(f)' = Content(f)
      BY <2>2, <1>2 DEF Content
    <3> QED BY <2>2, <3>1, <1>3 DEF CountsOK, Stand
  <2> QED BY <2>1, <2>2
<1>7. /\ Weighed(written)
      /\ \A f : f \notin Present(files) => From(written, f) = From(old, f)
  BY <1>3, WrittenStands
<1>8. AreRows(written) /\ AreNodes(nodes')
  BY <1>1, WrittenRows, ReconciledEdges
<1>9. CASE Present(files) = {}
  <2>1. edges' = old
    BY <1>9 DEF Reconciled, old
  <2> QED BY <2>1, <1>3, <1>6, <1>9 DEF CountsOK, Stand, Weighed
<1>10. CASE Present(files) # {}
  <2>1. edges' = Reresolved(nodes', written)
    BY <1>10 DEF Reconciled, old
  <2> HIDE DEF written
  <2>2. ASSUME NEW f \in Files \ scoped' PROVE Stand(written, f, Content(f)')
    BY <1>5, <1>6, <1>7 DEF Stand
  <2>3. ASSUME NEW f \in Files \ scoped' PROVE Stand(edges', f, Content(f)')
    <3>1. IsFiniteSet(Units(From(written, f)))
      BY <2>2 DEF Stand
    <3>2. /\ IsFiniteSet(Units(From(edges', f)))
          /\ Cardinality(Units(From(edges', f))) = Cardinality(Units(From(written, f)))
      BY <2>1, <3>1, <1>7, <1>8, ReresolvedUnits
    <3> QED BY <2>2, <3>2 DEF Stand
  <2>4. Weighed(edges')
    BY <2>1, <1>7, <1>8, ReresolvedUnits
  <2> QED BY <2>3, <2>4 DEF CountsOK, Stand, Weighed
<1> QED BY <1>9, <1>10

\* What no run touches stays as it is.
LEMMA CountsStay ==
  ASSUME CountsOK, UNCHANGED <<edges, built, scoped>>
  PROVE  CountsOK'
<1>1. \A f : Content(f)' = Content(f)
  BY DEF Content
<1> QED BY <1>1 DEF CountsOK, Stand, Weighed

LEMMA CountsAlways == Spec => []CountsOK
<1>1. Init => CountsOK
  <2> SUFFICES ASSUME Init PROVE CountsOK
    OBVIOUS
  <2>1. edges = {} /\ \A f \in Files : built[f] = Gone
    BY DEF Init
  <2>2. \A f \in Files : Content(f) = [defs |-> {}, imports |-> {}, calls |-> {}]
    BY <2>1 DEF Content
  <2>3. \A f : From(edges, f) = {}
    BY <2>1 DEF From
  <2> QED BY <2>1, <2>2, <2>3, NothingStands DEF CountsOK, Weighed
<1>2. IndexInv /\ CountsOK /\ [Next]_vars => CountsOK'
  <2> SUFFICES ASSUME IndexInv, CountsOK, [Next]_vars PROVE CountsOK'
    OBVIOUS
  <2>1. TreeOK /\ RowsInv
    BY DEF IndexInv
  <2>2. CASE \E f \in Files : Edit(f)
    BY <2>2, CountsStay DEF Edit
  <2>3. ASSUME NEW files \in SUBSET Files, Full(files) PROVE CountsOK'
    BY <2>1, <2>3, FullCounts
  <2>4. ASSUME NEW files \in SUBSET Files, Scoped(files) PROVE CountsOK'
    BY <2>1, <2>4, ScopedCounts
  <2>5. ASSUME NEW files \in SUBSET Files, Incremental(files) \/ Batch(files) PROVE CountsOK'
    <3>1. Reconciled(files)
      BY <2>5 DEF Incremental, Batch
    <3> QED BY <2>1, <3>1, ReconciledCounts
  <2>6. CASE UNCHANGED vars
    BY <2>6, CountsStay DEF vars
  <2> QED BY <2>2, <2>3, <2>4, <2>5, <2>6 DEF Next
<1> QED BY <1>1, <1>2, IndexAlways, PTL DEF Spec

------------------------------------------------------------------------------
(* An id is one node's and a source, target and kind one edge's, through     *)
(* every upsert, replacement and re-resolution (the keys of tables nodes and *)
(* edges): no two unresolved names of a source come to one row.              *)
THEOREM RowKeysUnique == Spec => []TypeOK
<1>1. IndexInv => TypeOK
  BY DEF IndexInv, RowsInv, AreNodes, AreRows, VerdictsOK, TypeOK
<1> QED BY <1>1, IndexAlways, PTL

(* Through any sequence of full, path-scoped and incremental ingests and     *)
(* batches: the rows of a file are those of the content it was last read     *)
(* with, every node has its markdown, a call site its edge and its call, and *)
(* a flagged node its verdict (drainIntoIndex, deleteNodesByFile).           *)
THEOREM RowsAlwaysBuilt == Spec => []RowsAreBuilt
<1>1. IndexInv => RowsAreBuilt
  <2> SUFFICES ASSUME IndexInv PROVE RowsAreBuilt
    OBVIOUS
  <2>1. \A f \in Files \ scoped :
          {n \in nodes : n.file = f} = IF built[f] = Gone THEN {} ELSE NodesOf(f, built[f])
    BY DEF IndexInv, RowsInv, NodesBuilt
  <2>2. \A s \in sites : \E e \in edges : e.src = s.src /\ e.dst = s.dst /\ e.src[1] = s.file
    BY DEF IndexInv, RowsInv, SitesLead
  <2>3. \A s \in sites : s.file \notin scoped =>
          \E c \in Content(s.file).calls : s.src = <<s.file>> \o c.by /\ s.line = c.line
    BY DEF IndexInv, RowsInv, SitesBuilt, SiteRead
  <2> QED BY <2>1, <2>2, <2>3 DEF IndexInv, VerdictsOK, RowsAreBuilt
<1> QED BY <1>1, IndexAlways, PTL

(* However names were resolved, by a parse or when they were looked up again *)
(* later: a call that left its package has an import of its file that leads  *)
(* there (resolveFileEdges, reresolveAllEdges).                              *)
THEOREM PackagesAlwaysWitnessed == Spec => []PackagesNeedWitness
<1>1. IndexInv => PackagesNeedWitness
  BY DEF IndexInv, RowsInv, EdgesWitnessed, Witnesses, PackagesNeedWitness
<1> QED BY <1>1, IndexAlways, PTL

(* Through any ingests, and however names were resolved, folded, looked up   *)
(* again and merged: the weights of a file's edges add up to the calls and   *)
(* the specifiers of the content it was last read with; no call is lost, and *)
(* none counted twice (drainIntoIndex, replaceEdges, reresolveAllEdges).     *)
THEOREM OccurrencesAlwaysCounted == Spec => []OccurrencesCounted
<1>1. CountsOK => OccurrencesCounted
  BY DEF CountsOK, Stand, From, CallsOf, SpecsOf, OccurrencesCounted
<1> QED BY <1>1, CountsAlways, PTL
==============================================================================
