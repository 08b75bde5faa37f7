----------------------------- MODULE MCOffboarding -----------------------------
(* Instances of Offboarding for TLC. *)
EXTENDS Offboarding

CONSTANTS r1, r2, a1, a2

MCRequests == {r1, r2}
OneRequest == {r1}

NoAssets    == {}
TwoAssets   == {a1, a2}
SecondAsset == {a2}

\* Employees with accounts in the systems most have, in all, in none.
AccessHolds == {NETWORK, INTOUCH, ACCESS}
NoHolds     == {}
AllHolds    == Accounts

Finds       == {TRUE}
MayNotFind  == BOOLEAN
=============================================================================
