------------------------------ MODULE MCEquipment ------------------------------
(* An instance of Equipment for TLC: the number of one employee is mentioned by *)
(* three users, of whom an answer shows two.                                    *)
EXTENDS Equipment

CONSTANTS run1, run2, manual, laptop, phone, cable, ana, bia, caio, n1, n2

MCRuns     == {run1, run2}
MCManual   == {manual}
MCAssets   == {laptop, phone, cable}
MCUntagged == {cable}
MCPeople   == {ana, bia, caio}
MCNumber   == [p \in MCPeople |-> IF p = ana THEN n1 ELSE n2]
MCMentions == [n \in {n1, n2} |-> IF n = n1 THEN MCPeople ELSE {bia}]

\* One execution with three assets, against a manual check-in; two executions for
\* two employees, with two assets; two for one employee, with one.
MCInit ==
    /\ Init
    /\ asset = [c \in Calls |-> laptop]
    /\ wants[run1] = n1 /\ pc[run1] = "idle"
    /\ holder[laptop] = ana /\ holder[cable] \in {ana, STOCK}
    /\ \/ /\ pc[run2] = "none" /\ pc[manual] = "idle"
          /\ wants[run2] = n2 /\ holder[cable] = ana /\ holder[phone] \in {ana, bia}
       \/ /\ pc[run2] = "idle" /\ pc[manual] = "none"
          /\ wants[run2] = n2 /\ holder[cable] = ana /\ holder[phone] = STOCK
       \/ /\ pc[run2] = "idle" /\ pc[manual] = "none"
          /\ wants[run2] = n1 /\ holder[cable] = STOCK /\ holder[phone] = STOCK

MCSpec == MCInit /\ [][Next]_vars /\ Fairness
=============================================================================
