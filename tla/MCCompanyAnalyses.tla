-------------------------- MODULE MCCompanyAnalyses --------------------------
(* Values of the constants for TLC. *)
EXTENDS CompanyAnalyses

CONSTANTS j1, j2, j3, w1

OneJob == {j1}
ThreeJobs == {j1, j2, j3}
OneWorker == {w1}
=============================================================================
