---------------------------- MODULE MCCompanyList ----------------------------
(* Values of the constants for TLC. *)
EXTENDS CompanyList

CONSTANTS c1, c2, any, some

TwoCompanies == {c1, c2}
ByName == [c \in Companies |-> IF c = c1 THEN 1 ELSE 2]
TwoKeywords == {any, some}

\* The second keyword leaves one page.
Narrowing == [k \in Keywords |-> IF k = Any THEN Companies ELSE {c2}]
=============================================================================
