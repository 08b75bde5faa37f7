--------------------------- MODULE AccountRevocation ---------------------------
(***************************************************************************)
(* What the deactivation of an account promises its callers: the promise   *)
(* that the orchestrator (Offboarding: AdSearch, AdWrite, AdAudit and      *)
(* IfsDisable, IfsAudit) relies on, and that ActiveDirectory and IFS       *)
(* implement.                                                              *)
(***************************************************************************)
CONSTANTS Accounts,      \* the accounts of the system
          Calls,         \* calls that deactivate
          Registrations, \* registration numbers
          EmployeeID,    \* the registration of each account
          Contains       \* <<r, s>>: a search for r finds the accounts of s

VARIABLES wants,   \* the registration each call is for
          enabled, \* external: is each account enabled?
          noted,   \* has the call noted that it disabled an account itself?
          answer   \* what each call answered, "none" so far

vars == <<wants, enabled, noted, answer>>

\* The accounts that a search for the registration finds.
Matching(registration) == {a \in Accounts : <<registration, EmployeeID[a]>> \in Contains}

Init ==
    /\ wants \in [Calls -> Registrations]
    /\ enabled \in [Accounts -> BOOLEAN]
    /\ noted = [c \in Calls |-> FALSE]
    /\ answer = [c \in Calls |-> "none"]

\* Before it answers, a call may disable an account that matches its registration,
\* and may take note of it ...
Disable(c) ==
    /\ answer[c] = "none"
    /\ \E a \in Matching(wants[c]) : enabled' = [enabled EXCEPT ![a] = FALSE]
    /\ noted' \in {noted, [noted EXCEPT ![c] = TRUE]}
    /\ UNCHANGED <<wants, answer>>

\* ... it answers with success only when such an account is disabled, or was by
\* the call's own doing ...
Succeed(c) ==
    /\ answer[c] = "none"
    /\ noted[c] \/ \E a \in Matching(wants[c]) : ~enabled[a]
    /\ \E action \in {"disabled", "already_disabled"} :
          answer' = [answer EXCEPT ![c] = action]
    /\ UNCHANGED <<wants, enabled, noted>>

\* ... and an error says nothing of the account.
Refuse(c) ==
    /\ answer[c] = "none"
    /\ answer' = [answer EXCEPT ![c] = "error"]
    /\ UNCHANGED <<wants, enabled, noted>>

\* Nobody else disables an account, but one who administers the system may enable it.
Enable ==
    /\ \E a \in Accounts : enabled' = [enabled EXCEPT ![a] = TRUE]
    /\ UNCHANGED <<wants, noted, answer>>

Next ==
    \/ \E c \in Calls : Disable(c) \/ Succeed(c) \/ Refuse(c)
    \/ Enable

Spec == Init /\ [][Next]_vars
=============================================================================
