-------------------------- MODULE MCIngestPipeline --------------------------
(* Small instances of IngestPipeline.                                      *)
EXTENDS IngestPipeline

CONSTANTS p1, p2, d1, d2, stopper

Feeds == {p1, p2}
Poppers == {d1, d2, stopper}
OneEach == [feeds |-> {p1}, drain_threads |-> {d1}, ticks |-> 5]
TwoFeeds == [feeds |-> {p1, p2}, drain_threads |-> {d1}, ticks |-> 3]
TwoDrainThreads == [feeds |-> {p1}, drain_threads |-> {d1, d2}, ticks |-> 4]
EachSetup == {OneEach, TwoFeeds, TwoDrainThreads}
OnlyOneEach == {OneEach}
=============================================================================
