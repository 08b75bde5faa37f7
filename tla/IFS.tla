---------------------------------- MODULE IFS ----------------------------------
(***************************************************************************)
(* IFSService.disable_employee (src/app/integrations/ifs) on one of the    *)
(* two installations: a request finds the person, one reads the user with  *)
(* its ETag, one sets Active to FALSE if the ETag still holds.  Other      *)
(* calls and the administrators of IFS come between any two of them, each  *)
(* may fail, and the answer to the last may be lost after it took effect.  *)
(* use_cases/disable_ifs_access runs one call on each installation.        *)
(***************************************************************************)
EXTENDS Naturals

CONSTANTS Accounts,        \* the users of the installation, each a person
          Calls,           \* calls of disable_employee
          Registrations,   \* registration numbers
          AlternativeName, \* the registration of each person
          MaxSaves         \* bound on what administrators save

ASSUME PersonsAssumption == AlternativeName \in [Accounts -> Registrations]
ASSUME SavesAssumption   == MaxSaves \in Nat

VARIABLES
    enabled,   \* external: Active is TRUE
    etag,      \* external: the version of the user
    activated, \* history: the version that an administrator last activated
    saves,     \* how often administrators saved
    pc,        \* where each call is
    wants,     \* the registration it is for
    person,    \* the person it found
    seen,      \* the ETag it read
    took,      \* history: the call's PATCH took effect
    answer     \* what the call answered, "none" so far

users == <<enabled, etag, activated, saves>>
vars  == <<users, pc, wants, person, seen, took, answer>>

Running == {"person", "user", "patch", "return"}

Init ==
    /\ enabled \in [Accounts -> BOOLEAN]
    /\ etag = [a \in Accounts |-> 0]
    /\ activated = [a \in Accounts |-> 0]
    /\ saves = 0
    /\ pc = [c \in Calls |-> "person"]
    /\ wants \in [Calls -> Registrations]
    /\ person \in [Calls -> Accounts]
    /\ seen = [c \in Calls |-> 0]
    /\ took = [c \in Calls |-> FALSE]
    /\ answer = [c \in Calls |-> "none"]

\* Fault: the call stays under the name of its answer.
AnswerAsState(c, success) ==
    /\ answer' = [answer EXCEPT ![c] = success]
    /\ pc' = [pc EXCEPT ![c] = success]

Answer(c, success) ==
    /\ answer' = [answer EXCEPT ![c] = success]
    /\ pc' = [pc EXCEPT ![c] = "end"]

\* Fault: the request has no filter.
AnyPerson(registration) == Accounts

\* The filter AlternativeName eq 'registration'.
Persons(registration) == {a \in Accounts : AlternativeName[a] = registration}

-----------------------------------------------------------------------------
\* _get_person_user_ifs: the first of the persons, or none.
GetPerson(c) ==
    /\ pc[c] = "person"
    /\ \/ \E a \in Persons(wants[c]) :
             /\ person' = [person EXCEPT ![c] = a]
             /\ pc' = [pc EXCEPT ![c] = "user"]
             /\ UNCHANGED answer
       \/ /\ Persons(wants[c]) = {}
          /\ Answer(c, "false")
          /\ UNCHANGED person
    /\ UNCHANGED <<users, wants, seen, took>>

\* _get_user_ifs: whether the user is active is not asked.
GetUser(c) ==
    /\ pc[c] = "user"
    /\ seen' = [seen EXCEPT ![c] = etag[person[c]]]
    /\ pc' = [pc EXCEPT ![c] = "patch"]
    /\ UNCHANGED <<users, wants, person, took, answer>>

\* Fault: the PATCH is unconditional.
NoCondition(c) == TRUE

\* If-Match
IfMatch(c) == seen[c] = etag[person[c]]

\* _patch_user_ifs; every change gives the user a new version.
Patch(c) ==
    /\ pc[c] = "patch"
    /\ IfMatch(c)
    /\ enabled' = [enabled EXCEPT ![person[c]] = FALSE]
    /\ etag' = [etag EXCEPT ![person[c]] = @ + 1]
    /\ took' = [took EXCEPT ![c] = TRUE]
    /\ pc' = [pc EXCEPT ![c] = "return"]
    /\ UNCHANGED <<activated, saves, wants, person, seen, answer>>

\* The user is not the one that was read any more.
Refused(c) ==
    /\ pc[c] = "patch"
    /\ ~IfMatch(c)
    /\ Answer(c, "false")
    /\ UNCHANGED <<users, wants, person, seen, took>>

Return(c) ==
    /\ pc[c] = "return"
    /\ Answer(c, "true")
    /\ UNCHANGED <<users, wants, person, seen, took>>

\* Any exception, of the token's request too: a refusal, a timeout, an answer that
\* does not parse.  One whose answer was lost is the PATCH followed by Fail.
Fail(c) ==
    /\ pc[c] \in Running
    /\ Answer(c, "false")
    /\ UNCHANGED <<users, wants, person, seen, took>>

\* The process ends, and with it every call.
Crash ==
    /\ \E c \in Calls : pc[c] \in Running
    /\ pc' = [c \in Calls |-> IF pc[c] \in Running THEN "lost" ELSE pc[c]]
    /\ UNCHANGED <<users, wants, person, seen, took, answer>>

-----------------------------------------------------------------------------
(* External: the administrators of IFS *)

Save(a) ==
    /\ saves < MaxSaves
    /\ saves' = saves + 1
    /\ etag' = [etag EXCEPT ![a] = @ + 1]
    /\ UNCHANGED <<pc, wants, person, seen, took, answer>>

\* A change of something else, the description say.
Edit(a) ==
    /\ Save(a)
    /\ UNCHANGED <<enabled, activated>>

\* The employee is back, or was never to leave.
Activate(a) ==
    /\ Save(a)
    /\ enabled' = [enabled EXCEPT ![a] = TRUE]
    /\ activated' = [activated EXCEPT ![a] = etag'[a]]

Next ==
    \/ \E c \in Calls : GetPerson(c) \/ GetUser(c) \/ Patch(c) \/ Refused(c) \/ Return(c) \/ Fail(c)
    \/ Crash
    \/ \E a \in Accounts : Edit(a) \/ Activate(a)

Spec == Init /\ [][Next]_vars

-----------------------------------------------------------------------------
(* Properties *)

\* Every variable keeps its shape.
TypeOK ==
    /\ enabled \in [Accounts -> BOOLEAN]
    /\ etag \in [Accounts -> Nat]
    /\ activated \in [Accounts -> Nat]
    /\ saves \in 0..MaxSaves
    /\ pc \in [Calls -> {"end", "lost"} \cup Running]
    /\ wants \in [Calls -> Registrations]
    /\ person \in [Calls -> Accounts]
    /\ seen \in [Calls -> Nat]
    /\ took \in [Calls -> BOOLEAN]
    /\ answer \in [Calls -> {"none", "true", "false"}]

\* An offboarding does not undo, unseen, what an administrator decides while it runs:
\* an account that is activated is disabled again only by a call that read it since.
ActivationsStand ==
    [][\A a \in Accounts : enabled[a] /\ ~enabled'[a] =>
          \E c \in Calls : /\ person[c] = a /\ took'[c] /\ ~took[c]
                           /\ seen[c] >= activated[a]]_vars

\* disable_employee implements what its callers rely on: it touches no user but one
\* of the registration, and True means that its own request was carried out, even if
\* the user has been activated since.
Promise == INSTANCE AccountRevocation
           WITH Accounts <- Accounts, Calls <- Calls, Registrations <- Registrations,
                EmployeeID <- AlternativeName,
                Contains <- {<<r, r>> : r \in Registrations},
                wants <- wants, enabled <- enabled, noted <- took,
                answer <- [c \in Calls |->
                             CASE answer[c] = "true"  -> "disabled"
                               [] answer[c] = "false" -> "error"
                               [] OTHER               -> "none"]
Promised == Promise!Spec
=============================================================================
