---------------------------------- MODULE Users --------------------------------
(***************************************************************************)
(* POST /users/ and PUT /users/{id} (src/app/modules/users/user_router.py):*)
(* the accounts of the application and the audit rows of their changes.    *)
(*                                                                         *)
(* The endpoints are plain `def's: each call has a thread and a session of *)
(* its own.  They look for a taken name or address with SELECTs that open  *)
(* no transaction; only the unique constraints of the table hold at the    *)
(* moment of the write.                                                    *)
(***************************************************************************)
CONSTANTS Creates,  \* calls of create_user; the user a call inserts has its identity
          Updates,  \* calls of update_user
          Existing, \* the users at the start
          Names, Emails,
          InitialName, InitialEmail, \* theirs
          Blank,    \* the empty username
          Unset     \* an attribute the body of an update leaves out

Calls == Creates \cup Updates
Ids   == Existing \cup Creates

ASSUME CallsAssumption == Creates \cap Updates = {} /\ Existing \cap Creates = {}
ASSUME ValuesAssumption ==
    /\ InitialName \in [Existing -> Names] /\ InitialEmail \in [Existing -> Emails]
    /\ Unset \notin Names \cup Emails
    /\ \A i, j \in Existing : i # j => /\ InitialName[i] # InitialName[j]
                                    /\ InitialEmail[i] # InitialEmail[j]

CREATE_USER == "create_user"
UPDATE_USER == "update_user"

VARIABLES
    users,      \* stored: the users there are
    username,   \* stored: their names; of no meaning for the others
    email,      \* stored: their addresses, likewise
    audit,      \* stored: the calls with an audit row, <<call, action, status>>
    pc,         \* where each call is
    target,     \* the user of an update
    wantName,   \* the username in the body of the call
    wantEmail,  \* the email in it
    oldName,    \* the username an update read
    oldEmail,   \* the email it read
    answer      \* what the call answered, "none" so far

stored == <<users, username, email, audit>>
asked  == <<target, wantName, wantEmail>>
loaded == <<oldName, oldEmail>>
vars   == <<stored, pc, asked, loaded, answer>>

Init ==
    /\ users = Existing
    /\ audit = {}
    /\ pc = [c \in Calls |-> "idle"]
    /\ target \in [Calls -> Ids]
    /\ \A c \in Creates : target[c] = c
    /\ wantName \in [Calls -> Names \cup {Unset}]
    /\ wantEmail \in [Calls -> Emails \cup {Unset}]
    /\ \A c \in Creates : wantName[c] # Unset /\ wantEmail[c] # Unset
    /\ username = [i \in Ids |-> IF i \in Existing THEN InitialName[i] ELSE wantName[i]]
    /\ email = [i \in Ids |-> IF i \in Existing THEN InitialEmail[i] ELSE wantEmail[i]]
    /\ oldName = [c \in Calls |-> username[target[c]]]
    /\ oldEmail = [c \in Calls |-> email[target[c]]]
    /\ answer = [c \in Calls |-> "none"]

Taken(value, column) == \E i \in users : column[i] = value

\* Fault: the address has no unique constraint.
UniqueNameOnly(id, name, address) ==
    \A i \in users \ {id} : username[i] # name

\* The constraints of the table admit the row <<name, address>> for the user id.
Unique(id, name, address) ==
    \A i \in users \ {id} : username[i] # name /\ email[i] # address

Goto(c, point) == pc' = [pc EXCEPT ![c] = point]

Answer(c, result) ==
    /\ answer' = [answer EXCEPT ![c] = result]
    /\ Goto(c, "end")

Log(c, action, status) == audit' = audit \cup {<<c, action, status>>}

-----------------------------------------------------------------------------
(* create_user *)

CheckUsername(c) ==
    /\ pc[c] = "idle"
    /\ \/ Taken(wantName[c], username) /\ Answer(c, "conflict")
       \/ ~Taken(wantName[c], username) /\ Goto(c, "email") /\ UNCHANGED answer
    /\ UNCHANGED <<stored, asked, loaded>>

\* Fault: the row is left to be written after the insertion.
InsertFirst == "insert"

\* The row that says SUCCESS comes before the insertion.
AfterChecks == "log"

CheckEmail(c) ==
    /\ pc[c] = "email"
    /\ \/ Taken(wantEmail[c], email) /\ Answer(c, "conflict")
       \/ ~Taken(wantEmail[c], email) /\ Goto(c, AfterChecks) /\ UNCHANGED answer
    /\ UNCHANGED <<stored, asked, loaded>>

LogCreation(c) ==
    /\ pc[c] = "log"
    /\ Log(c, CREATE_USER, "SUCCESS")
    /\ Goto(c, "insert")
    /\ UNCHANGED <<users, username, email, asked, loaded, answer>>

\* An insertion that the constraints refuse is an error (Fail).
Insert(c) ==
    /\ pc[c] = "insert"
    /\ Unique(c, wantName[c], wantEmail[c])
    /\ users' = users \cup {c}
    /\ username' = [username EXCEPT ![c] = wantName[c]]
    /\ email' = [email EXCEPT ![c] = wantEmail[c]]
    /\ Goto(c, "respond")
    /\ UNCHANGED <<audit, asked, loaded, answer>>

-----------------------------------------------------------------------------
(* update_user *)

GetUser(c) ==
    /\ pc[c] = "idle"
    /\ \/ /\ target[c] \notin users
          /\ Log(c, UPDATE_USER, "FAILED")
          /\ Answer(c, "missing")
          /\ UNCHANGED loaded
       \/ /\ target[c] \in users
          /\ oldName' = [oldName EXCEPT ![c] = username[target[c]]]
          /\ oldEmail' = [oldEmail EXCEPT ![c] = email[target[c]]]
          /\ Goto(c, "check name")
          /\ UNCHANGED <<audit, answer>>
    /\ UNCHANGED <<users, username, email, asked>>

\* Fault: the value is not compared with the one the user has.
ChangesIfSet(want, read) == want # Unset

\* An attribute that is asked for and differs from the one that was read.
Changes(want, read) == want \notin {Unset, read}

\* `if user.username and ...': nobody looks for the empty username, which only the
\* constraint refuses.  (An address is never empty.)
CheckNewName(c) ==
    /\ pc[c] = "check name"
    /\ LET taken == /\ wantName[c] # Blank /\ Changes(wantName[c], oldName[c])
                    /\ Taken(wantName[c], username)
       IN  \/ taken /\ Answer(c, "conflict")
           \/ ~taken /\ Goto(c, "check email") /\ UNCHANGED answer
    /\ UNCHANGED <<stored, asked, loaded>>

CheckNewEmail(c) ==
    /\ pc[c] = "check email"
    /\ LET taken == Changes(wantEmail[c], oldEmail[c]) /\ Taken(wantEmail[c], email)
       IN  \/ taken /\ Answer(c, "conflict")
           \/ ~taken /\ Goto(c, "commit") /\ UNCHANGED answer
    /\ UNCHANGED <<stored, asked, loaded>>

\* Faults: attributes that are not set are written; the UPDATE covers the whole row.
WriteUnset(current, read, want) == want
WriteRow(current, read, want) == IF want = Unset THEN read ELSE want

\* The UPDATE of a session holds the attributes whose value differs from the one read.
Write(current, read, want) == IF Changes(want, read) THEN want ELSE current

\* A change that the constraints refuse, or a null, is rolled back and an error (Fail).
CommitUpdate(c) ==
    /\ pc[c] = "commit"
    /\ LET id      == target[c]
           name    == Write(username[id], oldName[c], wantName[c])
           address == Write(email[id], oldEmail[c], wantEmail[c])
       IN  /\ Unique(id, name, address)
           /\ username' = [username EXCEPT ![id] = name]
           /\ email' = [email EXCEPT ![id] = address]
    /\ Goto(c, "log update")
    /\ UNCHANGED <<users, audit, asked, loaded, answer>>

LogUpdate(c) ==
    /\ pc[c] = "log update"
    /\ Log(c, UPDATE_USER, "SUCCESS")
    /\ Goto(c, "respond")
    /\ UNCHANGED <<users, username, email, asked, loaded, answer>>

-----------------------------------------------------------------------------
Respond(c) ==
    /\ pc[c] = "respond"
    /\ Answer(c, "ok")
    /\ UNCHANGED <<stored, asked, loaded>>

\* A constraint, a locked database, the end of the process: the step that raises
\* changes nothing, what is committed stays.
Fail(c) ==
    /\ pc[c] # "end"
    /\ Answer(c, "error")
    /\ UNCHANGED <<stored, asked, loaded>>

CreateStep(c) == CheckUsername(c) \/ CheckEmail(c) \/ LogCreation(c) \/ Insert(c)
UpdateStep(c) == GetUser(c) \/ CheckNewName(c) \/ CheckNewEmail(c) \/ CommitUpdate(c) \/ LogUpdate(c)

Next == \/ \E c \in Creates : CreateStep(c)
        \/ \E c \in Updates : UpdateStep(c)
        \/ \E c \in Calls : Respond(c) \/ Fail(c)

Spec == Init /\ [][Next]_vars

-----------------------------------------------------------------------------
(* Properties *)

CreatePoints == {"email", "log", "insert"}
UpdatePoints == {"check name", "check email", "commit", "log update"}

\* Every variable keeps its shape: no attribute of a user is ever unset.
TypeOK ==
    /\ users \subseteq Ids
    /\ username \in [Ids -> Names]
    /\ email \in [Ids -> Emails]
    /\ audit \subseteq Calls \X {CREATE_USER, UPDATE_USER} \X {"SUCCESS", "FAILED"}
    /\ pc \in [Calls -> {"idle", "respond", "end"} \cup CreatePoints \cup UpdatePoints]
    /\ target \in [Calls -> Ids]
    /\ wantName \in [Calls -> Names \cup {Unset}]
    /\ wantEmail \in [Calls -> Emails \cup {Unset}]
    /\ oldName \in [Calls -> Names]
    /\ oldEmail \in [Calls -> Emails]
    /\ answer \in [Calls -> {"none", "conflict", "missing", "error", "ok"}]

\* No two users share a name or an address, in any interleaving of the checks and
\* writes of creations and renamings.
UniqueUsers == \A i, j \in users : i # j => username[i] # username[j] /\ email[i] # email[j]

\* No user appears without a row of the audit trail that says who created it, not
\* even when the process stops in the middle of the creation.
CreatedIsLogged == \A c \in users \cap Creates : <<c, CREATE_USER, "SUCCESS">> \in audit

Committed(c) == pc[c] \in {"log update", "respond"} \/ answer[c] = "ok"

\* c is the only update that sets the attribute of its user.
OnlySetter(c, want) ==
    \A d \in Updates \ {c} : target[d] = target[c] => want[d] = Unset

\* Concurrent updates of different attributes of a user do not undo each other: what
\* an update set and no other update sets stays, whatever it had read of the rest.
PartialUpdatesSurvive == \A c \in Updates : Committed(c) =>
    /\ wantName[c] # Unset /\ OnlySetter(c, wantName) => username[target[c]] = wantName[c]
    /\ wantEmail[c] # Unset /\ OnlySetter(c, wantEmail) => email[target[c]] = wantEmail[c]

\* The attributes that have been as a call wants them: a creation sets both, an
\* update those it does not find so when it reads its user.
Met(c) ==
    IF Committed(c) THEN {"username", "email"}
    ELSE IF pc[c] \in UpdatePoints
    THEN {a \in {"username", "email"} :
            IF a = "username" THEN wantName[c] \in {Unset, oldName[c]}
            ELSE wantEmail[c] \in {Unset, oldEmail[c]}}
    ELSE {}

\* Racing calls look to their callers as Registry says: whoever is told "ok" has had
\* each attribute as he wanted it, whoever is refused had a reason, and nobody's
\* attributes are written by a call that does not set them.
Promise == INSTANCE Registry
           WITH Creates <- Creates, Updates <- Updates, Unset <- Unset,
                Attributes <- {"username", "email"},
                users <- users, rows <- audit, target <- target, answer <- answer,
                value <- [a \in {"username", "email"} |-> IF a = "username" THEN username ELSE email],
                want <- [a \in {"username", "email"} |-> IF a = "username" THEN wantName ELSE wantEmail],
                met <- [c \in Calls |-> Met(c)]
Promised == Promise!Spec

\* A row that says SUCCESS, "User '...' created by ..." (user_router.py:123), is of
\* a user that was created.
CreationRowTrue == \A c \in Creates :
    <<c, CREATE_USER, "SUCCESS">> \in audit /\ pc[c] = "end" => c \in users
=============================================================================
