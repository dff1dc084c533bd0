---------------------------- MODULE MCAccessPath ----------------------------
(* Values of the constants for TLC. *)
EXTENDS AccessPath, TLC

CONSTANTS r1, r2, s1, u1, o1, o2, c1, lower, upper

OneRequest == {r1}
TwoRequests == {r1, r2}
OneSession == {s1}
OneUser == {u1}
OneOrg == {o1}
TwoOrgs == {o1, o2}
OneCompany == {c1}
EditorAndViewer == {"editor", "viewer"}
EditorAndPartner == {"editor", "partner_member"}

AllOperations == Ops
DeleteOnly == {"delete"}

OwnerOf == [c \in Companies |-> o1]

\* The company's id, in lower and in upper case.
InLowerCase == {lower}
InBothCases == {lower, upper}
NamedC1 == [id \in Ids |-> c1]
AllKeys == SessionKeys \cup MemberKeys
AllEntries == SessionRows \cup MemberRows

Symmetry == Permutations(Readers)
=============================================================================
