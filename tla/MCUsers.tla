--------------------------------- MODULE MCUsers -------------------------------
(* Instances of Users for TLC: one user at the start, whose name a .cfg may say is *)
(* the empty one, two names and addresses.                                      *)
EXTENDS Users

CONSTANTS u1, c1, c2, p1, p2, n1, n2, e1, e2

OneUser    == {u1}
OneCreate  == {c1}
TwoCreates == {c1, c2}
TwoUpdates == {p1, p2}
NoUpdates  == {}
TwoNames   == {n1, n2}
TwoEmails  == {e1, e2}
FirstName  == [i \in OneUser |-> n1]
FirstEmail == [i \in OneUser |-> e1]
=============================================================================
