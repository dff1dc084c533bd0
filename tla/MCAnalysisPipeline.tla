------------------------- MODULE MCAnalysisPipeline -------------------------
(* Values of the constants for TLC, and what a run may leave unexplored. *)
EXTENDS AnalysisPipeline, TLC

CONSTANTS w1, w2, j1, m1, m2, c1, o1

OneJob == {j1}
TwoWorkers == {w1, w2}
TwoMessages == {m1, m2}
OneCompany == {c1}
OneOrg == {o1}

Owner == [c \in Companies |-> o1]

AllFaults == FaultKinds
DefiniteFaults == FaultKinds \ {"ambiguous"}
CrashFaults == {"crash"}
ProviderFaults == {"provider"}

Symmetry == Permutations(Workers) \cup Permutations(Messages)
=============================================================================
