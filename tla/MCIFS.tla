--------------------------------- MODULE MCIFS ---------------------------------
(* An instance of IFS for TLC: two persons share a registration, as after a    *)
(* second hiring, one has another, and one registration is nobody's.           *)
EXTENDS IFS

CONSTANTS first, second, other, r1, r2, r3, c1, c2

MCAccounts        == {first, second, other}
MCCalls           == {c1, c2}
MCRegistrations   == {r1, r2, r3}
MCAlternativeName == [a \in MCAccounts |-> IF a = other THEN r2 ELSE r1]
=============================================================================
