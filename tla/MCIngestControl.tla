-------------------------- MODULE MCIngestControl --------------------------
\* Three files, two branches; each run spends its own events.
EXTENDS IngestControl
CONSTANTS f1, f2, f3, main, topic
Nothing == [e \in Events |-> 0]
SteadyBudget == [Nothing EXCEPT !["edit"] = 3, !["overflow"] = 2, !["checkout"] = 1,
                                !["roll"] = 1]
FailingBudget == [Nothing EXCEPT !["edit"] = 1, !["overflow"] = 1, !["checkout"] = 2, !["manual"] = 1, !["unreadable"] = 1,
                                 !["fail"] = 2, !["abort"] = 1, !["throw"] = 1, !["reset"] = 1]
=============================================================================
