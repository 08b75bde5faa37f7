--------------------------- MODULE MCActiveDirectory ---------------------------
(* Instances of ActiveDirectory for TLC: two accounts, the number of the first *)
(* being part of the number of the second.                                     *)
EXTENDS ActiveDirectory

CONSTANTS short, long, r1, r12, c1, c2, c3

MCAccounts      == {short, long}
MCRegistrations == {r1, r12}
MCEmployeeID    == [a \in MCAccounts |-> IF a = short THEN r1 ELSE r12]
MCContains      == {<<r1, r1>>, <<r12, r12>>, <<r1, r12>>}
ThreeCalls      == {c1, c2, c3}
OneManual       == {c3}
TwoCalls        == {c1, c2}
NoManual        == {}
=============================================================================
