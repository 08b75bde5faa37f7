------------------------------- MODULE UsersProofs -----------------------------
(* What concurrent creations and updates of users keep, for any number of them. *)
EXTENDS Users, TLAPS

-----------------------------------------------------------------------------
(* Types *)

\* The attributes an update writes are names and addresses, never unset.
LEMMA WriteType ==
    ASSUME NEW Values, NEW current \in Values, NEW read, NEW want \in Values \cup {Unset}
    PROVE  /\ Write(current, read, want) \in Values
           /\ want = Unset => Write(current, read, want) = current
           /\ want # Unset /\ current = read => Write(current, read, want) = want
           /\ Write(current, read, want) \in {current, want}
BY DEF Write, Changes

\* The body of a creation has both attributes.
Shaped == TypeOK /\ \A c \in Creates : wantName[c] # Unset /\ wantEmail[c] # Unset

\* The steps of a creation keep the shapes.
LEMMA CreateType == ASSUME Shaped, NEW c \in Creates, CreateStep(c) PROVE TypeOK'
<1>1. c \in Calls /\ c \in Ids /\ TypeOK
  BY DEF Calls, Ids, Shaped
<1>2. CASE CheckUsername(c)
  BY <1>1, <1>2 DEF CheckUsername, Answer, Goto, TypeOK, CreatePoints, stored, asked, loaded
<1>3. CASE CheckEmail(c)
  BY <1>1, <1>3 DEF CheckEmail, AfterChecks, Answer, Goto, TypeOK, CreatePoints, stored, asked, loaded
<1>4. CASE LogCreation(c)
  BY <1>1, <1>4 DEF LogCreation, Log, Goto, TypeOK, CreatePoints, asked, loaded
<1>5. CASE Insert(c)
  <2>1. wantName[c] \in Names /\ wantEmail[c] \in Emails
    BY <1>1 DEF Shaped, TypeOK
  <2> QED
    BY <1>1, <1>5, <2>1 DEF Insert, Goto, TypeOK, asked, loaded
<1> QED
  BY <1>2, <1>3, <1>4, <1>5 DEF CreateStep

\* The steps of an update keep the shapes.
LEMMA UpdateType == ASSUME TypeOK, NEW c \in Updates, UpdateStep(c) PROVE TypeOK'
<1>1. c \in Calls /\ target[c] \in Ids
  BY DEF Calls, TypeOK
<1>2. CASE GetUser(c)
  <2>1. CASE oldName' = [oldName EXCEPT ![c] = username[target[c]]]
             /\ oldEmail' = [oldEmail EXCEPT ![c] = email[target[c]]]
             /\ Goto(c, "check name") /\ UNCHANGED <<audit, answer>>
    BY <1>1, <1>2, <2>1 DEF GetUser, Goto, TypeOK, UpdatePoints, asked
  <2>2. CASE Log(c, UPDATE_USER, "FAILED") /\ Answer(c, "missing") /\ UNCHANGED loaded
    <3>1. audit' \subseteq Calls \X {CREATE_USER, UPDATE_USER} \X {"SUCCESS", "FAILED"}
      BY <1>1, <2>2 DEF Log, TypeOK
    <3> QED
      BY <1>1, <1>2, <2>2, <3>1 DEF GetUser, Answer, Goto, TypeOK, asked, loaded
  <2> QED
    BY <1>2, <2>1, <2>2 DEF GetUser
<1>3. CASE CheckNewName(c)
  BY <1>1, <1>3 DEF CheckNewName, Answer, Goto, TypeOK, UpdatePoints, stored, asked, loaded
<1>4. CASE CheckNewEmail(c)
  BY <1>1, <1>4 DEF CheckNewEmail, Answer, Goto, TypeOK, UpdatePoints, stored, asked, loaded
<1>5. CASE CommitUpdate(c)
  <2>1. /\ Write(username[target[c]], oldName[c], wantName[c]) \in Names
        /\ Write(email[target[c]], oldEmail[c], wantEmail[c]) \in Emails
    BY <1>1, WriteType DEF TypeOK
  <2> QED
    BY <1>1, <1>5, <2>1 DEF CommitUpdate, Goto, TypeOK, UpdatePoints, asked, loaded
<1>6. CASE LogUpdate(c)
  <2>1. audit' \subseteq Calls \X {CREATE_USER, UPDATE_USER} \X {"SUCCESS", "FAILED"}
    <3>1. audit' = audit \cup {<<c, UPDATE_USER, "SUCCESS">>}
      BY <1>6 DEF LogUpdate, Log
    <3> QED
      BY <1>1, <3>1 DEF TypeOK
  <2>2. pc' = [pc EXCEPT ![c] = "respond"]
        /\ UNCHANGED <<users, username, email, asked, loaded, answer>>
    BY <1>6 DEF LogUpdate, Goto
  <2> QED
    BY <1>1, <2>1, <2>2 DEF TypeOK, asked, loaded
<1> QED
  BY <1>2, <1>3, <1>4, <1>5, <1>6 DEF UpdateStep

\* Nothing changes what the calls ask for.
LEMMA AskedStay == [Next]_vars => UNCHANGED asked
BY DEF Next, vars, CreateStep, CheckUsername, CheckEmail, LogCreation, Insert,
       UpdateStep, GetUser, CheckNewName, CheckNewEmail, CommitUpdate, LogUpdate,
       Respond, Fail

\* Before any call starts, everything has its shape.
LEMMA ShapedInit == Init => Shaped
<1> SUFFICES ASSUME Init
             PROVE  Shaped
  OBVIOUS
<1>1. \A c \in Creates : wantName[c] \in Names /\ wantEmail[c] \in Emails
  BY DEF Init, Calls
<1>2. username \in [Ids -> Names] /\ email \in [Ids -> Emails]
  BY <1>1, ValuesAssumption DEF Init, Ids
<1>3. oldName \in [Calls -> Names] /\ oldEmail \in [Calls -> Emails]
  BY <1>2 DEF Init
<1> QED
  BY <1>2, <1>3 DEF Init, Shaped, TypeOK, Ids

\* Every step keeps the shapes.
LEMMA ShapedStep == Shaped /\ [Next]_vars => Shaped'
<1> SUFFICES ASSUME Shaped, [Next]_vars
             PROVE  Shaped'
  OBVIOUS
<1>1. TypeOK /\ (TypeOK' => Shaped')
  BY AskedStay DEF Shaped, asked
<1>2. ASSUME NEW c \in Calls, Respond(c) \/ Fail(c)
      PROVE  TypeOK'
  BY <1>1, <1>2 DEF Respond, Fail, Answer, Goto, TypeOK, stored, asked, loaded
<1>3. CASE UNCHANGED vars
  BY <1>1, <1>3 DEF vars, stored, asked, loaded, TypeOK
<1> QED
  BY <1>1, <1>2, <1>3, CreateType, UpdateType DEF Next

\* Every variable keeps its shape; no attribute is ever unset.
THEOREM TypeCorrect == Spec => []TypeOK
<1>1. Spec => []Shaped
  BY ShapedInit, ShapedStep, PTL DEF Spec
<1> QED
  BY <1>1, PTL DEF Shaped

-----------------------------------------------------------------------------
(* Unique names and addresses *)

\* A step that writes no column keeps the table as it is.
LEMMA OnlyWriters ==
    ASSUME [Next]_vars
    PROVE  \/ UNCHANGED <<users, username, email>>
           \/ \E c \in Creates : Insert(c)
           \/ \E c \in Updates : CommitUpdate(c)
BY DEF Next, vars, stored, CreateStep, CheckUsername, CheckEmail, LogCreation,
       UpdateStep, GetUser, CheckNewName, CheckNewEmail, LogUpdate, Respond, Fail

\* No two users share a name or an address, however creations and updates race:
\* the checks of the code are not enough, the constraints are.
THEOREM UsersAreUnique == Spec => []UniqueUsers
<1>1. Init => UniqueUsers
  BY ValuesAssumption DEF Init, UniqueUsers, Ids
<1>2. Shaped /\ UniqueUsers /\ [Next]_vars => UniqueUsers'
  <2> SUFFICES ASSUME TypeOK, UniqueUsers, [Next]_vars
               PROVE  UniqueUsers'
    BY DEF Shaped
  <2>1. CASE UNCHANGED <<users, username, email>>
    BY <2>1 DEF UniqueUsers
  <2>2. ASSUME NEW c \in Creates, Insert(c)
        PROVE  UniqueUsers'
    <3>1. \A i \in users \ {c} : username[i] # wantName[c] /\ email[i] # wantEmail[c]
      BY <2>2 DEF Insert, Unique
    <3>2. /\ c \in Ids /\ username'[c] = wantName[c] /\ email'[c] = wantEmail[c]
          /\ users' = users \cup {c}
          /\ \A i \in users \ {c} : username'[i] = username[i] /\ email'[i] = email[i]
      BY <2>2 DEF Insert, TypeOK, Ids
    <3> QED
      BY <3>1, <3>2 DEF UniqueUsers
  <2>3. ASSUME NEW c \in Updates, CommitUpdate(c)
        PROVE  UniqueUsers'
    <3> DEFINE id      == target[c]
               name    == Write(username[id], oldName[c], wantName[c])
               address == Write(email[id], oldEmail[c], wantEmail[c])
    <3>1. \A i \in users \ {id} : username[i] # name /\ email[i] # address
      BY <2>3 DEF CommitUpdate, Unique
    <3>2. /\ id \in Ids /\ username'[id] = name /\ email'[id] = address /\ users' = users
          /\ \A i \in users \ {id} : username'[i] = username[i] /\ email'[i] = email[i]
      BY <2>3 DEF CommitUpdate, TypeOK, Calls
    <3> HIDE DEF id, name, address
    <3> QED
      BY <3>1, <3>2 DEF UniqueUsers
  <2> QED
    BY <2>1, <2>2, <2>3, OnlyWriters
<1> QED
  BY <1>1, <1>2, ShapedInit, ShapedStep, PTL DEF Spec

-----------------------------------------------------------------------------
(* The trail of creations *)

\* The row is written before the user.
LoggedFirst == CreatedIsLogged
    /\ \A c \in Creates : pc[c] = "insert" => <<c, CREATE_USER, "SUCCESS">> \in audit

\* Rows stay, and every step keeps them first.
LEMMA LoggedStep == Shaped /\ LoggedFirst /\ [Next]_vars => LoggedFirst'
<1> SUFFICES ASSUME TypeOK, LoggedFirst, [Next]_vars
             PROVE  LoggedFirst'
  BY DEF Shaped
<1>1. audit \subseteq audit'
  BY DEF Next, vars, stored, CreateStep, CheckUsername, CheckEmail, LogCreation, Insert, Log,
         UpdateStep, GetUser, CheckNewName, CheckNewEmail, CommitUpdate, LogUpdate, Respond, Fail
<1>2. \A c \in users' \ users : c \in Creates => pc[c] = "insert"
  BY OnlyWriters DEF Insert, CommitUpdate
<1>3. ASSUME NEW c \in Creates, pc'[c] = "insert", pc[c] # "insert"
      PROVE  <<c, CREATE_USER, "SUCCESS">> \in audit'
  <2>1. c \in Calls /\ c \notin Updates
    BY CallsAssumption DEF Calls
  <2>2. ASSUME NEW d \in Calls, Respond(d) \/ Fail(d)
        PROVE  FALSE
    BY <1>3, <2>1, <2>2 DEF Respond, Fail, Answer, Goto, TypeOK
  <2>3. ASSUME NEW d \in Updates, UpdateStep(d)
        PROVE  FALSE
    BY <1>3, <2>1, <2>3 DEF UpdateStep, GetUser, CheckNewName, CheckNewEmail, CommitUpdate,
                            LogUpdate, Answer, Goto, TypeOK
  <2>4. ASSUME NEW d \in Creates, CreateStep(d)
        PROVE  d = c /\ LogCreation(c)
    BY <1>3, <2>1, <2>4 DEF CreateStep, CheckUsername, CheckEmail, LogCreation, Insert,
                            AfterChecks, Answer, Goto, TypeOK
  <2>5. LogCreation(c)
    BY <1>3, <2>2, <2>3, <2>4 DEF Next, vars
  <2> QED
    BY <2>5 DEF LogCreation, Log
<1> QED
  BY <1>1, <1>2, <1>3 DEF LoggedFirst, CreatedIsLogged

\* No user is created without its row, wherever the creation stops.
THEOREM CreationsAreLogged == Spec => []CreatedIsLogged
<1>1. Init => LoggedFirst
  BY CallsAssumption DEF Init, LoggedFirst, CreatedIsLogged, Calls
<1>2. LoggedFirst => CreatedIsLogged
  BY DEF LoggedFirst
<1> QED
  BY <1>1, <1>2, LoggedStep, ShapedInit, ShapedStep, PTL DEF Spec

-----------------------------------------------------------------------------
(* Concurrent updates *)

\* Between the read and the commit of the only update that sets an attribute, the
\* attribute is the one it read; after the commit it is the one it set.
Keeps(c, old, want, column) ==
    want[c] # Unset /\ OnlySetter(c, want) =>
        /\ pc[c] \in {"check name", "check email", "commit"} => column[target[c]] = old[c]
        /\ Committed(c) => column[target[c]] = want[c]

\* Users are never deleted, and a creation that has not inserted its user yet has
\* not created it.
Present ==
    /\ \A c \in Updates : pc[c] \in UpdatePoints \/ Committed(c) => target[c] \in users
    /\ \A c \in Calls : answer[c] = "ok" => pc[c] = "end"
    /\ \A c \in Creates : pc[c] \in {"idle"} \cup CreatePoints => c \notin users

UpdateInv ==
    /\ Present
    /\ \A c \in Updates : /\ Keeps(c, oldName, wantName, username)
                          /\ Keeps(c, oldEmail, wantEmail, email)

\* Every step keeps it so.
LEMMA PresentStep == Shaped /\ Present /\ [Next]_vars => Present'
<1> SUFFICES ASSUME TypeOK, Present, [Next]_vars
             PROVE  Present'
  BY DEF Shaped
<1>0. UNCHANGED <<target, wantName, wantEmail>>
  BY AskedStay DEF asked
<1>1. users \subseteq users' /\ Creates \subseteq Calls /\ Updates \subseteq Calls
  BY OnlyWriters DEF Insert, CommitUpdate, Calls
<1>2. ASSUME NEW c \in Calls, Respond(c) \/ Fail(c)
      PROVE  Present'
  <2>1. /\ \A d \in Calls \ {c} : pc'[d] = pc[d] /\ answer'[d] = answer[d]
        /\ pc'[c] = "end" /\ users' = users
        /\ answer'[c] = "ok" => pc[c] = "respond"
    BY <1>2 DEF Respond, Fail, Answer, Goto, TypeOK, stored
  <2> QED
    BY <1>0, <1>1, <2>1 DEF Present, Committed, UpdatePoints, CreatePoints
<1>3. ASSUME NEW c \in Creates, CreateStep(c)
      PROVE  Present'
  <2>1. /\ \A d \in Calls \ {c} : pc'[d] = pc[d] /\ answer'[d] = answer[d]
        /\ answer'[c] = "ok" => answer[c] = "ok" /\ pc[c] # "end"
        /\ users' \subseteq users \cup {c}
        /\ pc'[c] \in {"idle"} \cup CreatePoints =>
              users' = users /\ pc[c] \in {"idle"} \cup CreatePoints
    BY <1>1, <1>3 DEF CreateStep, CheckUsername, CheckEmail, LogCreation, Insert, AfterChecks,
                      Answer, Goto, TypeOK, CreatePoints, stored
  <2>2. c \notin Updates
    BY CallsAssumption
  <2> QED
    BY <1>0, <1>1, <2>1, <2>2 DEF Present, Committed, UpdatePoints, CreatePoints
<1>4. ASSUME NEW c \in Updates, UpdateStep(c)
      PROVE  Present'
  <2>1. /\ \A d \in Calls \ {c} : pc'[d] = pc[d] /\ answer'[d] = answer[d]
        /\ answer'[c] = "ok" => answer[c] = "ok" /\ pc[c] # "end"
        /\ users' = users
        /\ pc[c] \in {"idle"} \cup UpdatePoints
        /\ pc'[c] # "end" /\ pc[c] = "idle" => target[c] \in users
    BY <1>1, <1>4 DEF UpdateStep, GetUser, CheckNewName, CheckNewEmail, CommitUpdate, LogUpdate,
                      Answer, Goto, TypeOK, UpdatePoints, stored
  <2>2. c \notin Creates
    BY CallsAssumption
  <2> QED
    BY <1>0, <1>1, <2>1, <2>2 DEF Present, Committed, UpdatePoints, CreatePoints
<1>5. CASE UNCHANGED vars
  BY <1>5 DEF vars, stored, asked, Present, Committed
<1> QED
  BY <1>2, <1>3, <1>4, <1>5 DEF Next

\* A committed update writes what it asks for, and leaves what it does not set.
LEMMA CommitKeeps ==
    ASSUME TypeOK, UpdateInv, NEW c \in Updates, CommitUpdate(c), UNCHANGED asked
    PROVE  \A d \in Updates : /\ Keeps(d, oldName, wantName, username)'
                              /\ Keeps(d, oldEmail, wantEmail, email)'
<1>1. c \in Calls /\ target[c] \in Ids /\ pc[c] = "commit"
  BY DEF CommitUpdate, Calls, TypeOK
<1>2. /\ username' = [username EXCEPT ![target[c]] =
                        Write(username[target[c]], oldName[c], wantName[c])]
      /\ email' = [email EXCEPT ![target[c]] =
                     Write(email[target[c]], oldEmail[c], wantEmail[c])]
      /\ pc' = [pc EXCEPT ![c] = "log update"] /\ UNCHANGED <<answer, loaded>>
  BY DEF CommitUpdate, Goto
<1>3. /\ wantName[c] = Unset => username'[target[c]] = username[target[c]]
      /\ wantEmail[c] = Unset => email'[target[c]] = email[target[c]]
      /\ wantName[c] # Unset /\ OnlySetter(c, wantName) => username'[target[c]] = wantName[c]
      /\ wantEmail[c] # Unset /\ OnlySetter(c, wantEmail) => email'[target[c]] = wantEmail[c]
  <2>1. Keeps(c, oldName, wantName, username) /\ Keeps(c, oldEmail, wantEmail, email)
    BY DEF UpdateInv
  <2> QED
    BY <1>1, <1>2, <2>1 DEF Keeps, Write, Changes, TypeOK
<1>4. Keeps(c, oldName, wantName, username)' /\ Keeps(c, oldEmail, wantEmail, email)'
  BY <1>1, <1>2, <1>3 DEF Keeps, OnlySetter, asked, TypeOK
<1>5. ASSUME NEW d \in Updates, d # c
      PROVE  Keeps(d, oldName, wantName, username)' /\ Keeps(d, oldEmail, wantEmail, email)'
  <2>1. d \in Calls /\ target[d] \in Ids /\ pc'[d] = pc[d] /\ answer'[d] = answer[d]
    BY <1>1, <1>2, <1>5 DEF Calls, TypeOK
  <2>2. Keeps(d, oldName, wantName, username) /\ Keeps(d, oldEmail, wantEmail, email)
    BY DEF UpdateInv
  <2>3. OnlySetter(d, wantName) => username'[target[d]] = username[target[d]]
    BY <1>1, <1>2, <1>3, <1>5, <2>1 DEF OnlySetter, TypeOK
  <2>4. OnlySetter(d, wantEmail) => email'[target[d]] = email[target[d]]
    BY <1>1, <1>2, <1>3, <1>5, <2>1 DEF OnlySetter, TypeOK
  <2> QED
    BY <1>2, <2>1, <2>2, <2>3, <2>4 DEF Keeps, OnlySetter, Committed, asked, loaded
<1> QED
  BY <1>4, <1>5

\* Every step keeps what the updates rely on.
LEMMA UpdateStepKeeps == Shaped /\ UpdateInv /\ [Next]_vars => UpdateInv'
<1> SUFFICES ASSUME TypeOK, UpdateInv, Present', [Next]_vars, UNCHANGED asked
             PROVE  \A d \in Updates : /\ Keeps(d, oldName, wantName, username)'
                                       /\ Keeps(d, oldEmail, wantEmail, email)'
  BY PresentStep, AskedStay DEF Shaped, UpdateInv
<1>0. Updates \subseteq Calls /\ Creates \subseteq Calls /\ Creates \cap Updates = {}
  BY CallsAssumption DEF Calls
<1>1. ASSUME NEW c \in Calls, Respond(c) \/ Fail(c), NEW d \in Updates
      PROVE  Keeps(d, oldName, wantName, username)' /\ Keeps(d, oldEmail, wantEmail, email)'
  <2>1. /\ \A q \in Calls \ {c} : pc'[q] = pc[q] /\ answer'[q] = answer[q]
        /\ UNCHANGED <<username, email, oldName, oldEmail>>
        /\ pc'[c] = "end" /\ (answer'[c] = "ok" => pc[c] = "respond")
    BY <1>1 DEF Respond, Fail, Answer, Goto, TypeOK, stored, loaded
  <2> QED
    BY <1>0, <2>1 DEF UpdateInv, Keeps, OnlySetter, Committed, asked
<1>2. ASSUME NEW c \in Creates, CreateStep(c), NEW d \in Updates
      PROVE  Keeps(d, oldName, wantName, username)' /\ Keeps(d, oldEmail, wantEmail, email)'
  <2>1. pc'[d] = pc[d] /\ answer'[d] = answer[d] /\ UNCHANGED loaded
    BY <1>0, <1>2 DEF CreateStep, CheckUsername, CheckEmail, LogCreation, Insert, Answer, Goto, TypeOK
  <2>2. \A i \in Ids \ {c} : username'[i] = username[i] /\ email'[i] = email[i]
    BY <1>2 DEF CreateStep, CheckUsername, CheckEmail, LogCreation, Insert, TypeOK, stored
  <2>3. CASE target[d] # c
    BY <1>0, <2>1, <2>2, <2>3 DEF UpdateInv, Keeps, OnlySetter, Committed, asked, loaded, TypeOK
  <2>4. CASE target[d] = c /\ UNCHANGED <<username, email>>
    BY <1>0, <2>1, <2>4 DEF UpdateInv, Keeps, OnlySetter, Committed, asked, loaded, TypeOK
  <2>5. CASE target[d] = c /\ Insert(c)
    <3>1. c \notin users
      BY <2>5, <1>2 DEF Insert, UpdateInv, Present, CreatePoints
    <3>2. pc[d] \notin UpdatePoints /\ ~Committed(d)
      BY <2>5, <3>1 DEF UpdateInv, Present
    <3> QED
      BY <2>1, <3>2 DEF Keeps, Committed, UpdatePoints
  <2> QED
    BY <1>2, <2>3, <2>4, <2>5 DEF CreateStep, CheckUsername, CheckEmail, LogCreation, stored
<1>3. ASSUME NEW c \in Updates, UpdateStep(c), NEW d \in Updates
      PROVE  Keeps(d, oldName, wantName, username)' /\ Keeps(d, oldEmail, wantEmail, email)'
  <2>1. CASE CommitUpdate(c)
    BY <2>1, CommitKeeps
  <2>2. CASE ~CommitUpdate(c) /\ d # c
    <3>1. UNCHANGED <<username, email>>
      BY <1>3, <2>2 DEF UpdateStep, GetUser, CheckNewName, CheckNewEmail, LogUpdate, stored
    <3>2. /\ pc'[d] = pc[d] /\ answer'[d] = answer[d]
          /\ oldName'[d] = oldName[d] /\ oldEmail'[d] = oldEmail[d]
      BY <1>0, <1>3, <2>2 DEF UpdateStep, GetUser, CheckNewName, CheckNewEmail, LogUpdate,
                              Answer, Goto, TypeOK, loaded
    <3> QED
      BY <3>1, <3>2 DEF UpdateInv, Keeps, OnlySetter, Committed, asked
  <2>3. CASE ~CommitUpdate(c) /\ d = c
    <3>1. UNCHANGED <<username, email>>
      BY <1>3, <2>3 DEF UpdateStep, GetUser, CheckNewName, CheckNewEmail, LogUpdate, stored
    <3>2. CASE GetUser(c)
      <4>1. \/ pc'[c] = "end" /\ answer'[c] = "missing"
            \/ /\ pc'[c] = "check name" /\ answer'[c] # "ok"
               /\ oldName'[c] = username[target[c]] /\ oldEmail'[c] = email[target[c]]
        BY <1>0, <3>2 DEF GetUser, Answer, Goto, TypeOK, UpdateInv, Present
      <4> QED
        BY <2>3, <3>1, <4>1 DEF Keeps, Committed, asked
    <3>3. CASE CheckNewName(c) \/ CheckNewEmail(c) \/ LogUpdate(c)
      <4>1. /\ UNCHANGED <<oldName, oldEmail>>
            /\ pc'[c] \in {"check name", "check email", "commit"} =>
                  pc[c] \in {"check name", "check email", "commit"}
            /\ Committed(c)' => Committed(c)
        BY <1>0, <3>3 DEF CheckNewName, CheckNewEmail, LogUpdate, Answer, Goto, TypeOK,
                          Committed, loaded
      <4> QED
        BY <2>3, <3>1, <4>1 DEF UpdateInv, Keeps, OnlySetter, asked
    <3> QED
      BY <1>3, <2>3, <3>2, <3>3 DEF UpdateStep
  <2> QED
    BY <2>1, <2>2, <2>3
<1>4. CASE UNCHANGED vars
  BY <1>4 DEF vars, stored, loaded, asked, UpdateInv, Keeps, OnlySetter, Committed
<1> QED
  BY <1>1, <1>2, <1>3, <1>4 DEF Next

\* What an update sets and no other update sets stays: a concurrent update writes
\* the attributes it changes and not the row it read.
THEOREM UpdatesSurvive == Spec => []PartialUpdatesSurvive
<1>1. Init => UpdateInv
  BY CallsAssumption DEF Init, UpdateInv, Present, Keeps, Committed, UpdatePoints, Calls
<1>2. UpdateInv => PartialUpdatesSurvive
  BY DEF UpdateInv, Keeps, PartialUpdatesSurvive
<1> QED
  BY <1>1, <1>2, ShapedInit, ShapedStep, UpdateStepKeeps, PTL DEF Spec

-----------------------------------------------------------------------------
(* What the constraints refuse *)

\* Another call asks for the same name or the same address.
Rival(c) ==
    \E d \in Calls \ {c} : \/ wantName[c] # Unset /\ wantName[d] = wantName[c]
                           \/ wantEmail[c] # Unset /\ wantEmail[d] = wantEmail[c]

\* A creation is past its check of the name, of the address, ...
Creating(c) == /\ pc[c] \in CreatePoints => ~Taken(wantName[c], username)
               /\ pc[c] \in {"log", "insert"} => ~Taken(wantEmail[c], email)

\* An update sets the empty username, for which there is no check.
Blanks(c) == wantName[c] = Blank /\ Changes(wantName[c], oldName[c])

\* ... an update past the checks of what it changes: nobody has got it since.
Updating(c) ==
    /\ pc[c] \in {"check email", "commit"} /\ Changes(wantName[c], oldName[c]) /\ ~Blanks(c)
          => ~Taken(wantName[c], username)
    /\ pc[c] = "commit" /\ Changes(wantEmail[c], oldEmail[c]) => ~Taken(wantEmail[c], email)

Fresh == /\ \A c \in Creates : Rival(c) \/ Creating(c)
         /\ \A c \in Updates : Rival(c) \/ Updating(c)

\* What a call without a rival is about to write, the constraints admit, unless it
\* is the empty username.
Admitted ==
    /\ \A c \in Creates : pc[c] = "insert" => Rival(c) \/ Unique(c, wantName[c], wantEmail[c])
    /\ \A c \in Updates : pc[c] = "commit" =>
          \/ Rival(c)
          \/ Blanks(c)
          \/ Unique(target[c], Write(username[target[c]], oldName[c], wantName[c]),
                               Write(email[target[c]], oldEmail[c], wantEmail[c]))

\* A step gives a value to a user only if it is one of a call that asks for it.
LEMMA TakenBy ==
    ASSUME Shaped, [Next]_vars
    PROVE  /\ \A v : Taken(v, username)' => Taken(v, username)
                                             \/ \E d \in Calls : wantName[d] = v /\ pc'[d] # pc[d]
           /\ \A v : Taken(v, email)' => Taken(v, email)
                                             \/ \E d \in Calls : wantEmail[d] = v /\ pc'[d] # pc[d]
<1>0. TypeOK /\ Creates \subseteq Calls /\ Updates \subseteq Calls /\ Creates \subseteq Ids
  BY DEF Shaped, Calls, Ids
<1>1. CASE UNCHANGED <<users, username, email>>
  BY <1>1 DEF Taken
<1>2. ASSUME NEW c \in Creates, Insert(c)
      PROVE  /\ users' = users \cup {c} /\ pc'[c] # pc[c]
             /\ username'[c] = wantName[c] /\ email'[c] = wantEmail[c]
             /\ \A i \in Ids \ {c} : username'[i] = username[i] /\ email'[i] = email[i]
  BY <1>0, <1>2 DEF Insert, Goto, TypeOK
<1>3. ASSUME NEW c \in Updates, CommitUpdate(c)
      PROVE  /\ users' = users /\ pc'[c] # pc[c] /\ target[c] \in Ids
             /\ username'[target[c]] \in {username[target[c]], wantName[c]}
             /\ email'[target[c]] \in {email[target[c]], wantEmail[c]}
             /\ \A i \in Ids \ {target[c]} : username'[i] = username[i] /\ email'[i] = email[i]
  BY <1>0, <1>3 DEF CommitUpdate, Goto, Write, TypeOK
<1>4. users \subseteq Ids
  BY <1>0 DEF TypeOK
<1> QED
  BY <1>0, <1>1, <1>2, <1>3, <1>4, OnlyWriters DEF Taken

\* A call goes on by a step of its own.
LEMMA OnlyOwnSteps ==
    ASSUME TypeOK, [Next]_vars, NEW c \in Calls, pc'[c] # pc[c]
    PROVE  \/ c \in Creates /\ c \notin Updates /\ CreateStep(c)
           \/ c \in Updates /\ c \notin Creates /\ UpdateStep(c)
           \/ Respond(c) \/ Fail(c)
<1>0. Creates \subseteq Calls /\ Updates \subseteq Calls /\ Creates \cap Updates = {}
  BY CallsAssumption DEF Calls
<1>1. ASSUME NEW d \in Calls, Respond(d) \/ Fail(d) PROVE d = c
  BY <1>1 DEF Respond, Fail, Answer, Goto, TypeOK
<1>2. ASSUME NEW d \in Creates, CreateStep(d) PROVE d = c
  BY <1>0, <1>2 DEF CreateStep, CheckUsername, CheckEmail, LogCreation, Insert, Answer, Goto, TypeOK
<1>3. ASSUME NEW d \in Updates, UpdateStep(d) PROVE d = c
  BY <1>0, <1>3 DEF UpdateStep, GetUser, CheckNewName, CheckNewEmail, CommitUpdate, LogUpdate,
                    Answer, Goto, TypeOK
<1> QED
  BY <1>0, <1>1, <1>2, <1>3 DEF Next, vars

\* Every step keeps fresh what the checks found so.
LEMMA FreshStep == ASSUME Shaped, Fresh, [Next]_vars PROVE Fresh'
<1>0. /\ TypeOK /\ UNCHANGED <<target, wantName, wantEmail>>
      /\ Creates \subseteq Calls /\ Updates \subseteq Calls
      /\ \A c \in Creates : wantName[c] # Unset /\ wantEmail[c] # Unset
  BY AskedStay DEF Shaped, asked, Calls
<1>1. \A c \in Calls : Rival(c)' <=> Rival(c)
  BY <1>0 DEF Rival
<1>2. ASSUME NEW c \in Calls, ~Rival(c), pc'[c] = pc[c]
      PROVE  /\ wantName[c] # Unset /\ ~Taken(wantName[c], username)
                  => ~Taken(wantName[c], username)'
             /\ wantEmail[c] # Unset /\ ~Taken(wantEmail[c], email)
                  => ~Taken(wantEmail[c], email)'
  BY <1>0, <1>2, TakenBy DEF Rival
<1>3. ASSUME NEW c \in Creates, ~Rival(c) PROVE Creating(c)'
  <2>1. CASE pc'[c] = pc[c]
    BY <1>0, <1>2, <1>3, <2>1 DEF Fresh, Creating, Taken
  <2>2. CASE pc'[c] # pc[c]
    <3>1. \/ CheckUsername(c) \/ CheckEmail(c) \/ LogCreation(c)
          \/ pc'[c] \notin CreatePoints
      BY <1>0, <2>2, OnlyOwnSteps DEF CreateStep, Insert, Respond, Fail, Answer, Goto, TypeOK,
                                      CreatePoints
    <3> QED
      BY <1>0, <1>3, <3>1 DEF Fresh, Creating, Taken, CheckUsername, CheckEmail, LogCreation,
            AfterChecks, Answer, Goto, TypeOK, CreatePoints, stored
  <2> QED
    BY <2>1, <2>2
<1>4. ASSUME NEW c \in Updates, ~Rival(c) PROVE Updating(c)'
  <2>1. CASE pc'[c] = pc[c]
    <3>1. oldName'[c] = oldName[c] /\ oldEmail'[c] = oldEmail[c]
      BY <1>0, <2>1 DEF Next, vars, CreateStep, CheckUsername, CheckEmail, LogCreation, Insert,
             UpdateStep, GetUser, CheckNewName, CheckNewEmail, CommitUpdate, LogUpdate,
             Respond, Fail, Answer, Goto, TypeOK, loaded
    <3> QED
      BY <1>0, <1>2, <1>4, <2>1, <3>1 DEF Fresh, Updating, Blanks, Changes, Taken
  <2>2. CASE pc'[c] # pc[c]
    <3>1. CheckNewName(c) \/ CheckNewEmail(c) \/ pc'[c] \notin {"check email", "commit"}
      BY <1>0, <2>2, OnlyOwnSteps DEF UpdateStep, GetUser, CommitUpdate, LogUpdate, Respond, Fail,
                                      Answer, Goto, TypeOK
    <3> QED
      BY <1>0, <1>4, <3>1 DEF Fresh, Updating, Blanks, Changes, Taken, CheckNewName, CheckNewEmail,
            Answer, Goto, TypeOK, stored, loaded
  <2> QED
    BY <2>1, <2>2
<1> QED
  BY <1>0, <1>1, <1>3, <1>4 DEF Fresh

\* The constraints refuse only what another call asks for as well, and the empty
\* username, for which update_user does not look (user_router.py:178): whatever else is
\* going on, any other creation or update that passed its checks fails at its write for
\* no other reason than a stop or a locked database.
THEOREM OnlyRivalsRefuse == Spec => []Admitted
<1>1. Init => Fresh
  BY DEF Init, Fresh, Creating, Updating, CreatePoints, Calls
<1>2. Shaped /\ Present /\ UniqueUsers /\ Fresh => Admitted
  <2> SUFFICES ASSUME Shaped, Present, UniqueUsers, Fresh PROVE Admitted
    OBVIOUS
  <2>1. ASSUME NEW c \in Updates, pc[c] = "commit", ~Rival(c), ~Blanks(c)
        PROVE  Unique(target[c], Write(username[target[c]], oldName[c], wantName[c]),
                                 Write(email[target[c]], oldEmail[c], wantEmail[c]))
    <3>1. target[c] \in users
      BY <2>1 DEF Present, UpdatePoints
    <3>2. \A i \in users \ {target[c]} :
             username[i] # Write(username[target[c]], oldName[c], wantName[c])
      BY <2>1, <3>1 DEF Fresh, Updating, Taken, Write, UniqueUsers
    <3>3. \A i \in users \ {target[c]} :
             email[i] # Write(email[target[c]], oldEmail[c], wantEmail[c])
      BY <2>1, <3>1 DEF Fresh, Updating, Taken, Write, UniqueUsers
    <3> QED
      BY <3>2, <3>3 DEF Unique
  <2> QED
    BY <2>1 DEF Admitted, Fresh, Creating, CreatePoints, Taken, Unique
<1>3. Init => Present
  BY CallsAssumption DEF Init, Present, Committed, UpdatePoints, CreatePoints, Calls
<1> QED
  BY <1>1, <1>2, <1>3, ShapedInit, ShapedStep, PresentStep, FreshStep, UsersAreUnique, PTL DEF Spec

-----------------------------------------------------------------------------
(* Refinement *)

\* A call is at its end when it has answered, and comes to its answer over its row.
Answering ==
    \A c \in Calls :
        /\ pc[c] # "end" => answer[c] = "none"
        /\ pc[c] = "respond" => \E action \in {CREATE_USER, UPDATE_USER} :
                                   <<c, action, "SUCCESS">> \in audit

\* Every step keeps it so, and the rows there are.
LEMMA AnsweringStep ==
    ASSUME Shaped, LoggedFirst, Answering, [Next]_vars
    PROVE  Answering'
<1>0. TypeOK /\ Creates \subseteq Calls /\ Updates \subseteq Calls
  BY DEF Shaped, Calls
<1>1. audit \subseteq audit'
  BY DEF Next, vars, stored, CreateStep, CheckUsername, CheckEmail, LogCreation, Insert, Log,
         UpdateStep, GetUser, CheckNewName, CheckNewEmail, CommitUpdate, LogUpdate, Respond, Fail
<1>2. ASSUME NEW c \in Calls, Respond(c) \/ Fail(c) PROVE Answering'
  <2>1. /\ \A d \in Calls \ {c} : pc'[d] = pc[d] /\ answer'[d] = answer[d]
        /\ pc'[c] = "end"
    BY <1>0, <1>2 DEF Respond, Fail, Answer, Goto, TypeOK
  <2> QED
    BY <1>1, <2>1 DEF Answering
<1>3. ASSUME NEW c \in Creates, CreateStep(c) PROVE Answering'
  <2>1. /\ \A d \in Calls \ {c} : pc'[d] = pc[d] /\ answer'[d] = answer[d]
        /\ pc'[c] = "end" \/ answer'[c] = answer[c]
        /\ pc[c] # "end"
        /\ pc'[c] = "respond" => pc[c] = "insert"
    BY <1>0, <1>3 DEF CreateStep, CheckUsername, CheckEmail, LogCreation, Insert, AfterChecks,
                      Answer, Goto, TypeOK
  <2> QED
    BY <1>0, <1>1, <2>1 DEF Answering, LoggedFirst
<1>4. ASSUME NEW c \in Updates, UpdateStep(c) PROVE Answering'
  <2>1. /\ \A d \in Calls \ {c} : pc'[d] = pc[d] /\ answer'[d] = answer[d]
        /\ pc'[c] = "end" \/ answer'[c] = answer[c]
        /\ pc[c] # "end"
        /\ pc'[c] = "respond" => LogUpdate(c)
    BY <1>0, <1>4 DEF UpdateStep, GetUser, CheckNewName, CheckNewEmail, CommitUpdate, LogUpdate,
                      Answer, Goto, TypeOK
  <2>2. LogUpdate(c) => <<c, UPDATE_USER, "SUCCESS">> \in audit'
    BY DEF LogUpdate, Log
  <2> QED
    BY <1>0, <1>1, <2>1, <2>2 DEF Answering
<1>5. CASE UNCHANGED vars
  BY <1>5 DEF vars, stored, Answering
<1> QED
  BY <1>2, <1>3, <1>4, <1>5 DEF Next

\* A step of one call changes what that call has met, and nothing else.
LEMMA MetMoves ==
    ASSUME NEW c \in Calls, UNCHANGED asked,
           \A d \in Calls \ {c} : /\ pc'[d] = pc[d] /\ answer'[d] = answer[d]
                                  /\ oldName'[d] = oldName[d] /\ oldEmail'[d] = oldEmail[d]
    PROVE  [d \in Calls |-> Met(d)]' = [[d \in Calls |-> Met(d)] EXCEPT ![c] = Met(c)']
<1>1. \A d \in Calls \ {c} : Met(d)' = Met(d)
  BY DEF Met, Committed, asked
<1> QED
  BY <1>1

\* The steps of a creation are those of Registry.
LEMMA CreateRefines ==
    ASSUME TypeOK, Present, LoggedFirst, Answering, UNCHANGED asked,
           NEW c \in Creates, CreateStep(c)
    PROVE  [Promise!Next]_(Promise!vars)
<1> c \in Calls /\ answer[c] = "none" /\ pc[c] # "end" /\ c \in Promise!Calls
  BY DEF Calls, Promise!Calls, Answering, CreateStep, CheckUsername, CheckEmail, LogCreation, Insert
<1>0. pc[c] \in {"idle"} \cup CreatePoints /\ Met(c) = {}
  BY DEF CreateStep, CheckUsername, CheckEmail, LogCreation, Insert, CreatePoints, UpdatePoints,
         Met, Committed
<1>1. [d \in Calls |-> Met(d)]' = [[d \in Calls |-> Met(d)] EXCEPT ![c] = Met(c)']
  <2>1. \A d \in Calls \ {c} : /\ pc'[d] = pc[d] /\ answer'[d] = answer[d]
                                /\ oldName'[d] = oldName[d] /\ oldEmail'[d] = oldEmail[d]
    BY DEF CreateStep, CheckUsername, CheckEmail, LogCreation, Insert, Answer, Goto, TypeOK, loaded
  <2> QED
    BY <2>1, MetMoves
<1>2. CASE CheckUsername(c) \/ CheckEmail(c)
  <2>1. CASE Answer(c, "conflict")
    <3>1. Met(c)' = {}
      BY <2>1 DEF Answer, Goto, Met, Committed, UpdatePoints, TypeOK
    <3>2. \E a \in {"username", "email"}, i \in users :
             [b \in {"username", "email"} |-> IF b = "username" THEN username ELSE email][a][i]
           = [b \in {"username", "email"} |-> IF b = "username" THEN wantName ELSE wantEmail][a][c]
      BY <1>2, <2>1 DEF CheckUsername, CheckEmail, Taken, Answer, Goto, AfterChecks, TypeOK
    <3>3. Promise!Refuse(c, "conflict")
      BY <1>0, <1>1, <1>2, <2>1, <3>1, <3>2
         DEF Promise!Refuse, Promise!Answer, CheckUsername, CheckEmail, Answer, stored, asked
    <3> QED
      BY <3>3 DEF Promise!Next
  <2>2. CASE UNCHANGED answer /\ pc' = [pc EXCEPT ![c] = pc'[c]] /\ pc'[c] \in CreatePoints
    <3>1. Met(c)' = {}
      BY <2>2 DEF Met, Committed, CreatePoints, UpdatePoints, TypeOK
    <3>2. [d \in Calls |-> Met(d)]' = [d \in Calls |-> Met(d)]
      BY <1>0, <1>1, <3>1
    <3> QED
      BY <1>2, <2>2, <3>2 DEF Promise!vars, CheckUsername, CheckEmail, stored, asked
  <2> QED
    BY <1>2, <2>1, <2>2 DEF CheckUsername, CheckEmail, AfterChecks, Goto, CreatePoints, TypeOK
<1>3. CASE LogCreation(c)
  <2>1. Met(c)' = {}
    BY <1>3 DEF LogCreation, Goto, Met, Committed, UpdatePoints, TypeOK
  <2>2. [d \in Calls |-> Met(d)]' = [d \in Calls |-> Met(d)]
    BY <1>0, <1>1, <2>1
  <2>3. c \notin Updates
    BY CallsAssumption
  <2>4. Promise!Log(c, "create_user")
    BY <1>3, <2>2, <2>3 DEF Promise!Log, LogCreation, Log, CREATE_USER, asked
  <2> QED
    BY <2>4 DEF Promise!Next
<1>4. CASE Insert(c)
  <2>1. Met(c)' = {"username", "email"}
    BY <1>4 DEF Insert, Goto, Met, Committed, TypeOK
  <2>2. <<c, "create_user", "SUCCESS">> \in audit /\ c \notin users
    BY <1>0, <1>4 DEF Insert, LoggedFirst, Present, CREATE_USER
  <2>3. Promise!Create(c)
    BY <1>1, <1>4, <2>1, <2>2 DEF Promise!Create, Promise!Free, Insert, Unique, asked
  <2> QED
    BY <2>3 DEF Promise!Next
<1> QED
  BY <1>2, <1>3, <1>4 DEF CreateStep

\* What an update has met when it has read its user.
LEMMA MetRead ==
    ASSUME NEW c \in Calls, pc[c] \in UpdatePoints \ {"log update"}, answer[c] = "none"
    PROVE  /\ "username" \in Met(c) <=> ~Changes(wantName[c], oldName[c])
           /\ "email" \in Met(c) <=> ~Changes(wantEmail[c], oldEmail[c])
           /\ Met(c) \subseteq {"username", "email"}
BY DEF Met, Committed, Changes, UpdatePoints

\* The steps of an update are those of Registry.
LEMMA UpdateRefines ==
    ASSUME TypeOK, Present, Answering, UNCHANGED asked, NEW c \in Updates, UpdateStep(c)
    PROVE  [Promise!Next]_(Promise!vars)
<1> c \in Calls /\ answer[c] = "none" /\ pc[c] # "end" /\ c \in Promise!Calls
  BY DEF Calls, Promise!Calls, Answering, UpdateStep, GetUser, CheckNewName, CheckNewEmail,
         CommitUpdate, LogUpdate
<1> target[c] \in Ids
  BY DEF TypeOK
<1>1. [d \in Calls |-> Met(d)]' = [[d \in Calls |-> Met(d)] EXCEPT ![c] = Met(c)']
  <2>1. \A d \in Calls \ {c} : /\ pc'[d] = pc[d] /\ answer'[d] = answer[d]
                                /\ oldName'[d] = oldName[d] /\ oldEmail'[d] = oldEmail[d]
    BY DEF UpdateStep, GetUser, CheckNewName, CheckNewEmail, CommitUpdate, LogUpdate, Answer, Goto,
           TypeOK, loaded
  <2> QED
    BY <2>1, MetMoves
<1>2. CASE GetUser(c)
  <2>0. Met(c) = {}
    BY <1>2 DEF GetUser, Met, Committed, UpdatePoints
  <2>1. CASE target[c] \notin users
    <3>1. Met(c)' = {}
      BY <1>2, <2>1 DEF GetUser, Answer, Goto, Met, Committed, UpdatePoints, TypeOK
    <3>2. Promise!Refuse(c, "missing")
      BY <1>1, <1>2, <2>1, <3>1
         DEF Promise!Refuse, Promise!Answer, GetUser, Answer, Log, UPDATE_USER, asked
    <3> QED
      BY <3>2 DEF Promise!Next
  <2>2. CASE target[c] \in users
    <3>1. Met(c)' = {a \in {"username", "email"} :
                       IF a = "username" THEN wantName[c] \in {Unset, username[target[c]]}
                       ELSE wantEmail[c] \in {Unset, email[target[c]]}}
      BY <1>2, <2>2 DEF GetUser, Goto, Met, Committed, UpdatePoints, TypeOK, asked
    <3>2. Promise!Find(c)
      BY <1>1, <1>2, <2>0, <2>2, <3>1 DEF Promise!Find, GetUser, asked
    <3> QED
      BY <3>2 DEF Promise!Next
  <2> QED
    BY <2>1, <2>2
<1>3. CASE CheckNewName(c) \/ CheckNewEmail(c)
  <2>0. pc[c] \in UpdatePoints \ {"log update"} /\ UNCHANGED <<stored, asked, loaded>>
    BY <1>3 DEF CheckNewName, CheckNewEmail, UpdatePoints
  <2>1. CASE Answer(c, "conflict")
    <3>1. Met(c)' = {}
      BY <2>1 DEF Answer, Goto, Met, Committed, UpdatePoints, TypeOK
    <3>2. \E a \in {"username", "email"} \ Met(c), i \in users :
             [b \in {"username", "email"} |-> IF b = "username" THEN username ELSE email][a][i]
           = [b \in {"username", "email"} |-> IF b = "username" THEN wantName ELSE wantEmail][a][c]
      <4>1. CASE CheckNewName(c)
        <5>1. Changes(wantName[c], oldName[c]) /\ Taken(wantName[c], username)
          BY <2>1, <4>1 DEF CheckNewName, Answer, Goto, TypeOK
        <5> QED
          BY <2>0, <5>1, MetRead DEF Taken
      <4>2. CASE CheckNewEmail(c)
        <5>1. Changes(wantEmail[c], oldEmail[c]) /\ Taken(wantEmail[c], email)
          BY <2>1, <4>2 DEF CheckNewEmail, Answer, Goto, TypeOK
        <5> QED
          BY <2>0, <5>1, MetRead DEF Taken
      <4> QED
        BY <1>3, <4>1, <4>2
    <3>3. Promise!Refuse(c, "conflict")
      BY <1>1, <2>0, <2>1, <3>1, <3>2
         DEF Promise!Refuse, Promise!Answer, Answer, stored, asked
    <3> QED
      BY <3>3 DEF Promise!Next
  <2>2. CASE UNCHANGED answer /\ pc'[c] \in {"check email", "commit"}
    <3>1. Met(c)' = Met(c)
      BY <2>0, <2>2 DEF Met, Committed, UpdatePoints, asked, loaded
    <3>2. [d \in Calls |-> Met(d)]' = [d \in Calls |-> Met(d)]
      BY <1>1, <3>1
    <3> QED
      BY <2>0, <2>2, <3>2 DEF Promise!vars, stored, asked
  <2> QED
    BY <1>3, <2>1, <2>2 DEF CheckNewName, CheckNewEmail, Goto, TypeOK
<1>4. CASE CommitUpdate(c)
  <2> DEFINE id      == target[c]
             name    == Write(username[id], oldName[c], wantName[c])
             address == Write(email[id], oldEmail[c], wantEmail[c])
  <2>0. pc[c] \in UpdatePoints \ {"log update"} /\ id \in users
    BY <1>4 DEF CommitUpdate, UpdatePoints, Present
  <2>1. /\ \A i \in users \ {id} : username[i] # name /\ email[i] # address
        /\ username' = [username EXCEPT ![id] = name] /\ email' = [email EXCEPT ![id] = address]
        /\ UNCHANGED <<users, audit, answer>> /\ pc' = [pc EXCEPT ![c] = "log update"]
    BY <1>4 DEF CommitUpdate, Unique, Goto
  <2>2. /\ name = IF "username" \in Met(c) THEN username[id] ELSE wantName[c]
        /\ address = IF "email" \in Met(c) THEN email[id] ELSE wantEmail[c]
    BY <2>0, MetRead DEF Write
  <2> HIDE DEF id, name, address
  <2>3. /\ username' = IF "username" \in Met(c) THEN username
                       ELSE [username EXCEPT ![id] = wantName[c]]
        /\ email' = IF "email" \in Met(c) THEN email ELSE [email EXCEPT ![id] = wantEmail[c]]
    BY <2>1, <2>2 DEF TypeOK
  <2>4. Met(c)' = {"username", "email"}
    BY <2>1 DEF Met, Committed, TypeOK
  <2> DEFINE column == [a \in {"username", "email"} |-> IF a = "username" THEN username ELSE email]
             sets   == [a \in {"username", "email"} |-> IF a = "username" THEN wantName ELSE wantEmail]
  <2>5. \A a \in {"username", "email"} \ Met(c) : \A i \in users \ {id} : column[a][i] # sets[a][c]
    BY <2>1, <2>2
  <2>6. column' = [a \in {"username", "email"} |->
                     IF a \in Met(c) THEN column[a] ELSE [column[a] EXCEPT ![id] = sets[a][c]]]
    BY <2>3
  <2>7. sets' = sets
    BY DEF asked
  <2> HIDE DEF column, sets
  <2>8. Promise!Set(c)
    BY <1>1, <2>0, <2>1, <2>4, <2>5, <2>6, <2>7 DEF Promise!Set, Promise!Free, asked, id, column, sets
  <2> QED
    BY <2>8 DEF Promise!Next
<1>5. CASE LogUpdate(c)
  <2>1. Met(c) = {"username", "email"} /\ Met(c)' = {"username", "email"}
    BY <1>5 DEF LogUpdate, Goto, Met, Committed, TypeOK
  <2>2. [d \in Calls |-> Met(d)]' = [d \in Calls |-> Met(d)]
    BY <1>1, <2>1
  <2>3. c \notin Creates
    BY CallsAssumption
  <2>4. Promise!Log(c, "update_user")
    BY <1>5, <2>1, <2>2, <2>3 DEF Promise!Log, LogUpdate, Log, UPDATE_USER, asked
  <2> QED
    BY <2>4 DEF Promise!Next
<1> QED
  BY <1>2, <1>3, <1>4, <1>5 DEF UpdateStep

\* To their callers, racing creations and updates look as Registry says: each
\* attribute a successful call sets has been as it wants it at one moment of the call.
THEOREM KeepsItsPromise == Spec => Promised
<1> DEFINE Inv == Shaped /\ Present /\ LoggedFirst /\ Answering
<1>1. Init => Inv
  BY ShapedInit, CallsAssumption
     DEF Init, Present, LoggedFirst, CreatedIsLogged, Answering, Committed, UpdatePoints,
         CreatePoints, Calls
<1>2. Inv /\ [Next]_vars => Inv'
  BY ShapedStep, PresentStep, LoggedStep, AnsweringStep
<1>3. Init => Promise!Init
  <2> SUFFICES ASSUME Init PROVE Promise!Init
    OBVIOUS
  <2>1. \A c \in Calls : Met(c) = {}
    BY DEF Init, Met, Committed, UpdatePoints
  <2>2. \A i, j \in users : i # j => username[j] # username[i] /\ email[j] # email[i]
    BY ValuesAssumption DEF Init, Ids
  <2>3. users \cap Creates = {} /\ audit = {} /\ \A c \in Creates : target[c] = c
    BY CallsAssumption DEF Init
  <2>4. \A a \in {"username", "email"}, i \in users : \A j \in users \ {i} :
          LET column == [b \in {"username", "email"} |-> IF b = "username" THEN username ELSE email]
          IN  column[a][j] # column[a][i]
    BY <2>2
  <2>5. [c \in Calls |-> Met(c)] = [c \in Promise!Calls |-> {}]
        /\ answer = [c \in Promise!Calls |-> "none"]
    BY <2>1 DEF Init, Calls, Promise!Calls
  <2> QED
    BY <2>3, <2>4, <2>5 DEF Promise!Init, Promise!Free
<1>4. Inv /\ [Next]_vars => [Promise!Next]_(Promise!vars)
  <2> SUFFICES ASSUME TypeOK, Present, LoggedFirst, Answering, [Next]_vars, UNCHANGED asked
               PROVE  [Promise!Next]_(Promise!vars)
    BY AskedStay DEF Shaped
  <2>1. ASSUME NEW c \in Calls, Respond(c) \/ Fail(c)
        PROVE  [Promise!Next]_(Promise!vars)
    <3> c \in Promise!Calls /\ answer[c] = "none"
      BY <2>1 DEF Calls, Promise!Calls, Answering, Respond, Fail
    <3>1. [d \in Calls |-> Met(d)]' = [[d \in Calls |-> Met(d)] EXCEPT ![c] = Met(c)']
      <4>1. \A d \in Calls \ {c} : /\ pc'[d] = pc[d] /\ answer'[d] = answer[d]
                                    /\ oldName'[d] = oldName[d] /\ oldEmail'[d] = oldEmail[d]
        BY <2>1 DEF Respond, Fail, Answer, Goto, TypeOK, loaded
      <4> QED
        BY <4>1, MetMoves
    <3>2. CASE Respond(c)
      <4>1. Met(c) = {"username", "email"} /\ Met(c)' = {"username", "email"}
        BY <3>2 DEF Respond, Answer, Goto, Met, Committed, TypeOK
      <4>2. [d \in Calls |-> Met(d)]' = [d \in Calls |-> Met(d)]
        BY <3>1, <4>1
      <4>3. \E action \in {"create_user", "update_user"} : <<c, action, "SUCCESS">> \in audit
        BY <3>2 DEF Answering, Respond, CREATE_USER, UPDATE_USER
      <4>4. Promise!Confirm(c)
        BY <3>2, <4>1, <4>2, <4>3 DEF Promise!Confirm, Promise!Answer, Respond, Answer, stored, asked
      <4> QED
        BY <4>4 DEF Promise!Next
    <3>3. CASE Fail(c)
      <4>1. Met(c)' = {}
        BY <3>3 DEF Fail, Answer, Goto, Met, Committed, UpdatePoints, TypeOK
      <4>2. Promise!Refuse(c, "error")
        BY <3>1, <3>3, <4>1 DEF Promise!Refuse, Promise!Answer, Fail, Answer, stored, asked
      <4> QED
        BY <4>2 DEF Promise!Next
    <3> QED
      BY <2>1, <3>2, <3>3
  <2>2. CASE UNCHANGED vars
    BY <2>2 DEF vars, stored, asked, loaded, Promise!vars, Met, Committed
  <2> QED
    BY <2>1, <2>2, CreateRefines, UpdateRefines DEF Next
<1> HIDE DEF Inv
<1> QED
  BY <1>1, <1>2, <1>3, <1>4, PTL DEF Spec, Promised, Promise!Spec
=============================================================================
