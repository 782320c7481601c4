--------------------------- MODULE MCIngestMarker ---------------------------
\* Two files, two commands and the daemon.
EXTENDS IngestMarker, TLC
CONSTANTS f1, f2, c1, c2, d1, d2, life1, life2
Sources == {f1, f2}
NoBatches == {}
OneFile == {{f1}}
Changed == {{}, {f1}}
Restarted == [h \in {d1, d2} |-> IF h = d1 THEN life1 ELSE life2]
OneDaemon == [h \in {d1} |-> life1]
NewOrWhole == {"new", "whole"}
WholeOnly == {"whole"}
IncFails == {"inc"}
\* The two commands do the same.
EitherCommand == Permutations({c1, c2})
FullFails == {"full"}
=============================================================================
