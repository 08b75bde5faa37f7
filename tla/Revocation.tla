------------------------------ MODULE Revocation -------------------------------
(***************************************************************************)
(* What an execution of the offboarding endpoint promises HR: how its      *)
(* claims, its audit rows, its record, its answer and its notification     *)
(* relate to each other and to the systems, however the work is done.      *)
(* Offboarding implements it.                                              *)
(***************************************************************************)
CONSTANTS Requests,   \* executions of the endpoint
          Systems,    \* what the employee can be out of
          Reversible, \* systems that somebody may let the employee into again
          Piecewise,  \* systems left piece by piece: equipment, returned asset by asset
          Unchecked,  \* systems that may refuse in a way that passes for success
          Rechecked   \* systems where an account found disabled is claimed without a row

VARIABLES out,     \* the systems the employee is out of
          misled,  \* the requests such a refusal misled, with the system
          phase,   \* how far each request is
          seen,    \* the systems each request found the employee in
          claimed, \* the systems each request says it revoked
          trail,   \* the audit rows of each request, <<system, status>>
          history, \* the systems in the record of each request, {} without a record
          mail     \* the notification of each request

vars == <<out, misled, phase, seen, claimed, trail, history, mail>>

progress == <<misled, phase, seen, claimed, trail, history, mail>>

Init ==
    /\ out \in SUBSET Systems
    /\ misled = {}
    /\ phase = [r \in Requests |-> "verifying"]
    /\ seen = [r \in Requests |-> {}]
    /\ claimed = [r \in Requests |-> {}]
    /\ trail = [r \in Requests |-> {}]
    /\ history = [r \in Requests |-> {}]
    /\ mail = [r \in Requests |-> "none"]

\* Requests and others take the employee out of systems at any time ...
Leave == /\ \E s \in Systems : out' = out \cup {s}
         /\ UNCHANGED progress

\* ... and let him in again where that can be done.
ComeBack == /\ \E s \in Reversible : out' = out \ {s}
            /\ UNCHANGED progress

\* The systems to revoke are found out first, and not again.
See(r, s) ==
    /\ phase[r] = "verifying"
    /\ seen' = [seen EXCEPT ![r] = @ \cup {s}]
    /\ UNCHANGED <<out, misled, phase, claimed, trail, history, mail>>

Begin(r) ==
    /\ phase[r] = "verifying"
    /\ phase' = [phase EXCEPT ![r] = "revoking"]
    /\ UNCHANGED <<out, misled, seen, claimed, trail, history, mail>>

\* A refusal is not seen as one.
Mislead(r, s) ==
    /\ s \in Unchecked
    /\ phase[r] = "revoking"
    /\ misled' = misled \cup {<<r, s>>}
    /\ UNCHANGED <<out, phase, seen, claimed, trail, history, mail>>

\* What a request may say.
Warranted(r, s) == s \in out \/ <<r, s>> \in misled

\* The request has said nothing of the system yet.
Unreported(r, s) == s \notin claimed[r] /\ \A row \in trail[r] : row[1] # s

\* A system may be reported once, and one that is left in pieces once a piece.
Open(r, s) == phase[r] = "revoking" /\ s \in seen[r] /\ (s \in Piecewise \/ Unreported(r, s))

Claim(r, s) == claimed' = [claimed EXCEPT ![r] = @ \cup {s}]

\* A system is reported with one row.  SUCCESS is said, and the system claimed, only
\* while the employee is out of it or the request is misled.  The claim goes with the
\* SUCCESS row; of equipment, it goes with the row of the last piece.
Report(r, s, status) ==
    /\ Open(r, s)
    /\ trail' = [trail EXCEPT ![r] = @ \cup {<<s, status>>}]
    /\ status = "success" => Warranted(r, s)
    /\ \/ status = "success" /\ s \notin Piecewise /\ Claim(r, s)
       \/ status = "failed" /\ s \notin Piecewise /\ UNCHANGED claimed
       \/ s \in Piecewise /\ Warranted(r, s) /\ Claim(r, s)
       \/ s \in Piecewise /\ UNCHANGED claimed
    /\ UNCHANGED <<out, misled, phase, seen, history, mail>>

\* An account that is found disabled is claimed and leaves no row.
FindRevoked(r, s) ==
    /\ s \in Rechecked \cap out
    /\ Open(r, s)
    /\ Claim(r, s)
    /\ UNCHANGED <<out, misled, phase, seen, trail, history, mail>>

\* Claims are recorded, all or none of them, and nothing is claimed any more.
Record(r) ==
    /\ phase[r] = "revoking"
    /\ claimed[r] # {}
    /\ history' \in {history, [history EXCEPT ![r] = claimed[r]]}
    /\ \E next \in {"recorded", "failed"} : phase' = [phase EXCEPT ![r] = next]
    /\ UNCHANGED <<out, misled, seen, claimed, trail, mail>>

\* The answer leaves out no system that was seen, except equipment of which no
\* piece was found.  Who claimed something notifies.
Answer(r) ==
    /\ phase[r] = IF claimed[r] = {} THEN "revoking" ELSE "recorded"
    /\ \A s \in seen[r] \ Piecewise : s \in claimed[r] \/ <<s, "failed">> \in trail[r]
    /\ phase' = [phase EXCEPT ![r] = "answered"]
    /\ mail' = IF claimed[r] = {} THEN mail ELSE [mail EXCEPT ![r] = "queued"]
    /\ UNCHANGED <<out, misled, seen, claimed, trail, history>>

Deliver(r) ==
    /\ mail[r] = "queued"
    /\ \E outcome \in {"sent", "lost"} : mail' = [mail EXCEPT ![r] = outcome]
    /\ UNCHANGED <<out, misled, phase, seen, claimed, trail, history>>

\* Requests may fail before they answer, together when the process stops, and with
\* them notifications: what they wrote stays.
Fail ==
    /\ \E R \in SUBSET {r \in Requests : phase[r] \notin {"answered", "failed"}} :
          phase' = [r \in Requests |-> IF r \in R THEN "failed" ELSE phase[r]]
    /\ \E M \in SUBSET {r \in Requests : mail[r] = "queued"} :
          mail' = [r \in Requests |-> IF r \in M THEN "lost" ELSE mail[r]]
    /\ UNCHANGED <<out, misled, seen, claimed, trail, history>>

Next ==
    \/ Leave \/ ComeBack \/ Fail
    \/ \E r \in Requests :
          \/ Begin(r) \/ Record(r) \/ Answer(r) \/ Deliver(r)
          \/ \E s \in Systems :
                \/ See(r, s) \/ Mislead(r, s) \/ FindRevoked(r, s)
                \/ \E status \in {"success", "failed"} : Report(r, s, status)

Spec == Init /\ [][Next]_vars
=============================================================================
