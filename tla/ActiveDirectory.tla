---------------------------- MODULE ActiveDirectory ----------------------------
(***************************************************************************)
(* ADService.disable_user (src/app/integrations/active_directory): a       *)
(* search for the one account of a registration, then three writes, each   *)
(* on an LDAP connection of its own.  Nothing makes the four a unit: calls *)
(* interleave between any two of them, and each may fail, with or without  *)
(* having taken effect.                                                    *)
(*                                                                         *)
(* The orchestrator runs a call in a worker thread.  POST /aduser/disable  *)
(* (Manual) runs it on the thread of the event loop, which starts nothing  *)
(* else until it ends; the threads already started go on.                  *)
(***************************************************************************)
CONSTANTS Accounts,         \* the entries of the directory
          Calls,            \* calls of disable_user
          Manual,           \* those made by POST /aduser/disable
          Registrations,    \* registration numbers
          EmployeeID,       \* the registration of each account
          Contains,         \* <<r, s>>: the number r occurs in the number s
          DisabledOuInBase  \* DISABLED_OU lies under AD_BASE_DN

ASSUME DirectoryAssumption ==
    /\ EmployeeID \in [Accounts -> Registrations]
    /\ Contains \subseteq Registrations \X Registrations
ASSUME DeploymentAssumption == Manual \subseteq Calls /\ DisabledOuInBase \in BOOLEAN

VARIABLES
    enabled,    \* external: ACCOUNTDISABLE is not set in userAccountControl
    described,  \* external: the calls whose suffix is in the description
    moved,      \* external: the entry is in DISABLED_OU
    pc,         \* where each call is
    wants,      \* the registration it is for
    user,       \* the account get_unique_user found
    old,        \* the description read with it
    answer      \* what the call answered, "none" so far

directory == <<enabled, described, moved>>
vars      == <<directory, pc, wants, user, old, answer>>

Writing == {"description", "disable", "move"}
Running == {"search", "return"} \cup Writing

\* An entry moved to DISABLED_OU is a disabled one: who enables it moves it back.
Init ==
    /\ enabled \in [Accounts -> BOOLEAN]
    /\ described = [a \in Accounts |-> {}]
    /\ moved \in [Accounts -> BOOLEAN]
    /\ \A a \in Accounts : moved[a] => ~enabled[a]
    /\ pc = [c \in Calls |-> "idle"]
    /\ wants \in [Calls -> Registrations]
    /\ user \in [Calls -> Accounts]
    /\ old = [c \in Calls |-> {}]
    /\ answer = [c \in Calls |-> "none"]

Matching(registration) == {a \in Accounts : <<registration, EmployeeID[a]>> \in Contains}

\* Fault: the filter looks for a part of the registration.
FoundPart(registration) ==
    {a \in Accounts : /\ <<EmployeeID[a], registration>> \in Contains
                      /\ moved[a] => DisabledOuInBase}

\* What the search of AD_BASE_DN finds.
Found(registration) == {a \in Matching(registration) : moved[a] => DisabledOuInBase}


LoopFree == \A m \in Manual : pc[m] \notin Running

\* Fault: the call stays under the name of its answer.
AnswerAsState(c, action) ==
    /\ answer' = [answer EXCEPT ![c] = action]
    /\ pc' = [pc EXCEPT ![c] = action]

Answer(c, action) ==
    /\ answer' = [answer EXCEPT ![c] = action]
    /\ pc' = [pc EXCEPT ![c] = "end"]

-----------------------------------------------------------------------------
Start(c) ==
    /\ pc[c] = "idle"
    /\ LoopFree
    /\ pc' = [pc EXCEPT ![c] = "search"]
    /\ UNCHANGED <<directory, wants, user, old, answer>>

\* Fault: a call ends without the move.
NeverMove == [description |-> "disable", disable |-> "return", move |-> "return"]

\* The order of the three writes, the first of which is FirstWrite.
After == [description |-> "disable", disable |-> "move", move |-> "return"]

\* Fault: the description is left to a later write, as in src/README.md:142-144.
DisableFirst == "disable"

FirstWrite == "description"

\* get_unique_user, and the end of a call whose user is already disabled.  No
\* match or several are errors (Fail).
GetUniqueUser(c) ==
    /\ pc[c] = "search"
    /\ \E a \in Accounts :
          /\ Found(wants[c]) = {a}
          /\ user' = [user EXCEPT ![c] = a]
          /\ old' = [old EXCEPT ![c] = described[a]]
          /\ \/ /\ enabled[a]
                /\ pc' = [pc EXCEPT ![c] = FirstWrite]
                /\ UNCHANGED answer
             \/ /\ ~enabled[a]
                /\ Answer(c, "already_disabled")
    /\ UNCHANGED <<directory, wants>>

\* Fault: the writes address the entry by its account name.
AddressesByName(c) == TRUE

\* The distinguished name that was read still names the entry.
Addresses(c) == ~moved[user[c]]

\* A write that the directory accepts.
Write(c, step) ==
    /\ pc[c] = step
    /\ Addresses(c)
    /\ pc' = [pc EXCEPT ![c] = After[step]]
    /\ UNCHANGED <<wants, user, old, answer>>

\* The new description is the one that was read, with a suffix.
UpdateDescription(c) ==
    /\ Write(c, "description")
    /\ described' = [described EXCEPT ![user[c]] = old[c] \cup {c}]
    /\ UNCHANGED <<enabled, moved>>

DisableAccount(c) ==
    /\ Write(c, "disable")
    /\ enabled' = [enabled EXCEPT ![user[c]] = FALSE]
    /\ UNCHANGED <<described, moved>>

MoveToOu(c) ==
    /\ Write(c, "move")
    /\ moved' = [moved EXCEPT ![user[c]] = TRUE]
    /\ UNCHANGED <<enabled, described>>

Return(c) ==
    /\ pc[c] = "return"
    /\ Answer(c, "disabled")
    /\ UNCHANGED <<directory, wants, user, old>>

\* Any exception: a registration that is refused, no entry or several, an entry
\* that is not where it was, a refused write or connection.  One whose answer was
\* lost after the write took effect is the write followed by Fail.
Fail(c) ==
    /\ pc[c] \in Running
    /\ Answer(c, "error")
    /\ UNCHANGED <<directory, wants, user, old>>

\* The process ends, and with it every call.
Crash ==
    /\ \E c \in Calls : pc[c] \in Running
    /\ pc' = [c \in Calls |-> IF pc[c] \in Running THEN "lost" ELSE pc[c]]
    /\ UNCHANGED <<directory, wants, user, old, answer>>

Next ==
    \/ \E c \in Calls :
          \/ Start(c) \/ GetUniqueUser(c)
          \/ UpdateDescription(c) \/ DisableAccount(c) \/ MoveToOu(c)
          \/ Return(c) \/ Fail(c)
    \/ Crash

Spec == Init /\ [][Next]_vars

-----------------------------------------------------------------------------
(* Properties *)

\* Every variable keeps its shape.
TypeOK ==
    /\ enabled \in [Accounts -> BOOLEAN]
    /\ described \in [Accounts -> SUBSET Calls]
    /\ moved \in [Accounts -> BOOLEAN]
    /\ pc \in [Calls -> {"idle", "end", "lost"} \cup Running]
    /\ wants \in [Calls -> Registrations]
    /\ user \in [Calls -> Accounts]
    /\ old \in [Calls -> SUBSET Calls]
    /\ answer \in [Calls -> {"none", "disabled", "already_disabled", "error"}]

\* An answer is true whatever other calls do meanwhile: "disabled" means that the
\* account carries all three changes of a deactivation, not necessarily this one's.
AnswersAreTrue == \A c \in Calls :
    /\ answer[c] = "disabled" => moved[user[c]] /\ described[user[c]] # {}
    /\ answer[c] \in {"disabled", "already_disabled"} => ~enabled[user[c]]

\* No account is ever disabled without a description that says by whom, although
\* concurrent calls overwrite each other's, and calls stop between their writes.  That
\* is what the order of the writes in the docstring (service.py:99-103) is good for;
\* src/README.md:142-144 documents userAccountControl first, which would not give it.
DisabledIsDescribed ==
    [][\A a \in Accounts : enabled[a] /\ ~enabled'[a] => described[a] # {}]_vars

\* A deactivated account is final: once it is in DISABLED_OU, a call that had read
\* it before changes nothing of it any more.
MovedIsFinal ==
    [][\A a \in Accounts : moved[a] => /\ moved'[a]
                                       /\ enabled'[a] = enabled[a]
                                       /\ described'[a] = described[a]]_vars

\* disable_user implements what its callers rely on.  It takes note of nothing: its
\* success means that an account of the registration is disabled when it answers.
Promise == INSTANCE AccountRevocation
           WITH Accounts <- Accounts, Calls <- Calls, Registrations <- Registrations,
                EmployeeID <- EmployeeID, Contains <- Contains,
                wants <- wants, enabled <- enabled,
                noted <- [c \in Calls |-> FALSE], answer <- answer
Promised == Promise!Spec

\* A deactivation is of the employee whose registration was given ("Search for
\* unique user by registration number", service.py:100).
OwnAccountOnly ==
    \A c \in Calls : answer[c] = "disabled" => EmployeeID[user[c]] = wants[c]
=============================================================================
