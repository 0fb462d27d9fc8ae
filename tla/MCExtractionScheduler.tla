----------------------- MODULE MCExtractionScheduler -----------------------
(* Small instances of ExtractionScheduler for TLC. *)
EXTENDS ExtractionScheduler

CONSTANTS p1, p2, w1, w2, w3, main

TwoProducers == {p1, p2}
TwoWorkers == {w1, w2}
ThreeWorkers == {w1, w2, w3}
FirstThree == {1, 2, 3}
=============================================================================
