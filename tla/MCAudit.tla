-------------------------------- MODULE MCAudit --------------------------------
(* An instance of Audit for TLC: a row with a retention, one without, an export *)
(* with and one without a window; the clock advances by exactly one retention.  *)
EXTENDS Audit

CONSTANTS e1, e2

MCExports == {e1, e2}
MCActions == {"system_login", "disable_intouch_user"}
MCTicks   == {90 * Day}
MCFilters == {[action |-> ANY, from |-> NoDate, to |-> NoDate],
              [action |-> ANY, from |-> 0, to |-> 90 * Day],
              [action |-> ANY, from |-> 0, to |-> 91 * Day]}

\* Exports and a walk share nothing but the rows, which both only read: each is
\* checked without the other, and of the two exports one with a window, one without.
MCInit == /\ Init
          /\ \/ walk.at = "idle" /\ \A e \in Exports : ~Accepted(filter[e])
             \/ /\ walk.at = "none"
                /\ Accepted(filter[e1]) /\ filter[e1].from # NoDate /\ filter[e2].from = NoDate
MCSpec == MCInit /\ [][Next]_vars /\ Fairness
=============================================================================
