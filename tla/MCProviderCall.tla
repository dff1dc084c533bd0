--------------------------- MODULE MCProviderCall ---------------------------
(* Values of the constants for TLC. *)
EXTENDS ProviderCall

CONSTANTS w1, w2, j1, m1, m2, c1, c2, o1, o2

OneJob == {j1}
TwoWorkers == {w1, w2}
TwoMessages == {m1, m2}
TwoCompanies == {c1, c2}
TwoOrgs == {o1, o2}

\* The first company belongs to the first tenant, the second to the second.
Owner == [c \in Companies |-> IF c = c1 THEN o1 ELSE o2]

CalmFaults == {"provider", "stop"}
AllBackends == BackendKinds
=============================================================================
