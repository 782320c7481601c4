------------------------------- MODULE MCReaders -------------------------------
\* Two files of one package and one of another.
EXTENDS Readers, TLC
CONSTANTS a, b, c, f, g, h, C, toA, toB, indexB, npm, app, lib, gone, T
Tree == {a, b, c}
Suites == {c, 3}
Paths == (toA :> a) @@ (toB :> b) @@ (indexB :> b) @@ (npm :> External)
Workspaces == (a :> app) @@ (b :> app) @@ (c :> lib)
Import(name, spec, exported) == [local |-> name, spec |-> spec, imported |-> exported]
Call(by, recv, dst, line) == [by |-> by, recv |-> recv, dst |-> dst, line |-> line]
File(defs, imports, calls) == [defs |-> defs, imports |-> imports, calls |-> calls]
\* The module of b under two specifiers, and two calls of one line that come to one edge.
A1 == File({<<f>>}, {Import(g, toB, g), Import(C, indexB, C), Import(h, npm, h)},
           {Call(<<f>>, None, g, 1), Call(<<f>>, None, g, 2), Call(<<f>>, None, h, 3), Call(<<>>, None, g, 4)})
A2 == File({<<f>>, <<h>>}, {}, {Call(<<f>>, None, g, 1), Call(<<f>>, C, g, 1), Call(<<h>>, C, g, 2)})
B1 == File({<<g>>}, {}, {Call(<<g>>, None, f, 1)})
B2 == File({<<h>>, <<C, g>>}, {Import(f, toA, f)}, {Call(<<C, g>>, f, f, 1), Call(<<h>>, None, h, 2)})
C1 == File({<<h>>, <<f>>}, {Import(C, toB, g)}, {Call(<<h>>, C, g, 1), Call(<<f>>, None, h, 2)})
Texts == (a :> {A1, A2}) @@ (b :> {B1, B2}) @@ (c :> {C1})
\* A call into b that was traced, one whose name two files define, a covered one.
Raw(file, name) == [file |-> file, name |-> name]
Posted == {[src |-> Raw(c, <<h>>), dst |-> Raw(b, <<g>>), weight |-> 2],
           [src |-> Raw(None, <<C, g>>), dst |-> Raw(None, <<h>>), weight |-> 1]}
Ran == {[test |-> Raw(c, <<h>>), entity |-> Raw(b, <<C, g>>)], [test |-> Raw(c, <<f>>), entity |-> Raw(a, <<f>>)]}

\* Questions about a file of three lines.
Code == [chars |-> 6, blank |-> FALSE, decoration |-> FALSE, mentions |-> {T}]
Note == [chars |-> 3, blank |-> FALSE, decoration |-> TRUE, mentions |-> {}]
Blank == [chars |-> 0, blank |-> TRUE, decoration |-> TRUE, mentions |-> {}]
Emptied == <<Blank>>
Texts1 == {<<Code, Note, Code>>, <<Note, Code, Blank>>, <<Code, Note, Blank>>, <<Note, Blank, Code>>, <<Code>>, Emptied}
\* Line ranges, some of which begin or end behind the last line.
Ranges == {r \in (1 .. 4) \X (1 .. 4) : r[1] <= r[2]}
Row(id, file, kind, r) == [id |-> id, file |-> file, kind |-> kind, from |-> r[1], to |-> r[2], name |-> T]
Entities1 == {{Row(1, 1, "function", r), Row(2, 1, "class", s)} : r \in Ranges, s \in {<<1, 1>>, <<1, 3>>, <<2, 3>>, <<3, 4>>}}
               \cup {{Row(1, 1, "function", r)} : r \in Ranges}
\* A file that is called and imported, and a test that calls.
Rest == {Row(3, 1, "module", <<1, 3>>), Row(4, 2, "module", <<1, 3>>), Row(5, 2, "function", <<1, 1>>),
         Row(6, 2, "class", <<2, 3>>), Row(7, 3, "function", <<1, 1>>)}
Edge(s, d, k) == [src |-> s, dst |-> d, kind |-> k, weight |-> 1]
Calling == {Edge(1, 5, "static_call"), Edge(5, 6, "static_call"), Edge(3, 4, "import"), Edge(7, 1, "static_call")}
Two == <<Code, Code, Blank>>
Lengths(text) == (1 :> text) @@ (2 :> Two) @@ (3 :> <<Code>>)
Few == [neighbors |-> 1, refLines |-> 1, callers |-> 0, header |-> 1]
Many == [neighbors |-> 2, refLines |-> 2, callers |-> 1, header |-> 9]
RegionSets == {{r} : r \in Ranges} \cup {{<<1, 1>>, <<3, 3>>}}
ChangesAsked ==
  {[rows |-> n \cup Rest, edges |-> Calling, lines |-> Lengths(t), file |-> 1, regions |-> changed, caps |-> caps] :
     n \in Entities1, t \in Texts1, changed \in RegionSets, caps \in {Few, Many}}
LaddersAsked ==
  {[rows |-> n \cup Rest, edges |-> Calling, lines |-> Lengths(t),
    later |-> [i \in 1 .. 3 |-> IF i \in left THEN Lengths(t)[i] ELSE gone], root |-> CHOOSE x \in n : x.id = 1, caps |-> caps] :
     n \in Entities1, t \in {<<Code, Note, Code>>, <<Code, Code, Blank>>, Emptied}, left \in {{}, {1}, {1, 2, 3}}, caps \in {Few, Many}}
===============================================================================
