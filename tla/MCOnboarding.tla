------------------------------ MODULE MCOnboarding ------------------------------
(* Instances of Onboarding for TLC: two items, three or two calls. *)
EXTENDS Onboarding

CONSTANTS i1, i2, c1, c2, c3

MCItems    == {i1, i2}
ThreeCalls == {c1, c2, c3}
TwoCalls   == {c1, c2}
=============================================================================
