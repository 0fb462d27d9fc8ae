----------------------------- MODULE MCPipeline -----------------------------
(* Small instances of Pipeline for TLC. *)
EXTENDS Pipeline, TLC

CONSTANTS d1, d2, e1, e2, u1, u2

OneDownloader == {d1}
TwoDownloaders == {d1, d2}
OneExtractor == {e1}
TwoExtractors == {e1, e2}
OneUploader == {u1}
TwoUploaders == {u1, u2}

None == {}
First == {1}
Second == {2}
Third == {3}
FirstTwo == {1, 2}

\* Workers of one stage are interchangeable (safety runs only).
Symmetry == Permutations(Downloaders) \cup Permutations(Extractors)
            \cup Permutations(Uploaders)
=============================================================================
