------------------------- MODULE ActiveDirectoryProofs -------------------------
(* What disable_user keeps for any number of calls and accounts, and that it    *)
(* implements the promise of AccountRevocation.                                 *)
EXTENDS ActiveDirectory, TLAPS

-----------------------------------------------------------------------------
(* Types *)

\* The writes follow one another to the return of the call.
LEMMA AfterType == \A step \in Writing : After[step] \in Running
BY DEF After, Writing, Running

\* Every step of a call keeps the shapes.
LEMMA TypeStep == TypeOK /\ [Next]_vars => TypeOK'
<1> SUFFICES ASSUME TypeOK, [Next]_vars
             PROVE  TypeOK'
  OBVIOUS
<1> USE DEF TypeOK, directory
<1>1. ASSUME NEW c \in Calls, Start(c)
      PROVE  TypeOK'
  BY <1>1 DEF Start, Running
<1>2. ASSUME NEW c \in Calls, GetUniqueUser(c)
      PROVE  TypeOK'
  <2>1. PICK a \in Accounts :
           /\ user' = [user EXCEPT ![c] = a]
           /\ old' = [old EXCEPT ![c] = described[a]]
           /\ \/ pc' = [pc EXCEPT ![c] = FirstWrite] /\ UNCHANGED answer
              \/ Answer(c, "already_disabled")
    BY <1>2 DEF GetUniqueUser
  <2> QED
    BY <1>2, <2>1 DEF GetUniqueUser, Answer, FirstWrite, Running, Writing
<1>3. ASSUME NEW c \in Calls, UpdateDescription(c) \/ DisableAccount(c) \/ MoveToOu(c)
      PROVE  TypeOK'
  <2>1. \E step \in Writing : pc' = [pc EXCEPT ![c] = After[step]]
    BY <1>3 DEF UpdateDescription, DisableAccount, MoveToOu, Write, Writing
  <2>2. pc' \in [Calls -> {"idle", "end", "lost"} \cup Running]
    BY <2>1, AfterType
  <2>3. CASE UpdateDescription(c)
    BY <2>2, <2>3 DEF UpdateDescription, Write
  <2>4. CASE DisableAccount(c)
    BY <2>2, <2>4 DEF DisableAccount, Write
  <2>5. CASE MoveToOu(c)
    BY <2>2, <2>5 DEF MoveToOu, Write
  <2> QED
    BY <1>3, <2>3, <2>4, <2>5
<1>4. ASSUME NEW c \in Calls, Return(c) \/ Fail(c)
      PROVE  TypeOK'
  BY <1>4 DEF Return, Fail, Answer
<1>5. CASE Crash
  BY <1>5 DEF Crash
<1>6. CASE UNCHANGED vars
  BY <1>6 DEF vars
<1> QED
  BY <1>1, <1>2, <1>3, <1>4, <1>5, <1>6 DEF Next

\* Every variable keeps its shape.
THEOREM TypeCorrect == Spec => []TypeOK
<1>1. Init => TypeOK
  BY DEF Init, TypeOK
<1> QED
  BY <1>1, TypeStep, PTL DEF Spec

-----------------------------------------------------------------------------
(* What a call knows of its account between two writes *)

\* The call has an account.
Located(c) == \/ pc[c] \in Writing \cup {"return"}
              \/ answer[c] \in {"disabled", "already_disabled"}

\* Each write a call is past has left its mark, and nobody has taken it away.
Knows(c) ==
    /\ pc[c] \in {"idle"} \cup Running => answer[c] = "none"
    /\ Located(c) => user[c] \in Matching(wants[c])
    /\ pc[c] \in {"disable", "move", "return"} => described[user[c]] # {}
    /\ pc[c] \in {"move", "return"} => ~enabled[user[c]]
    /\ pc[c] = "return" => moved[user[c]]

MovedIsDisabled == \A a \in Accounts : moved[a] => ~enabled[a]

Inv == TypeOK /\ AnswersAreTrue /\ MovedIsDisabled /\ \A c \in Calls : Knows(c)

\* The marks of a deactivation are never taken away.
MarksStay == \A a \in Accounts : /\ described[a] # {} => described'[a] # {}
                                 /\ ~enabled[a] => ~enabled'[a]
                                 /\ moved[a] => moved'[a]

\* What a call knows, and what it answered if it did.
Sound(c) ==
    /\ Knows(c)
    /\ answer[c] = "disabled" => moved[user[c]] /\ described[user[c]] # {}
    /\ answer[c] \in {"disabled", "already_disabled"} => ~enabled[user[c]]

\* A step that keeps the marks keeps what the calls it does not touch know.
LEMMA OthersKnow ==
    ASSUME Inv, MarksStay, wants' = wants, NEW d \in Calls,
           user'[d] = user[d], answer'[d] = answer[d],
           pc'[d] = pc[d] \/ pc'[d] = "lost"
    PROVE  Sound(d)'
<1>1. user[d] \in Accounts /\ Knows(d) /\ Sound(d)
  BY DEF Inv, TypeOK, AnswersAreTrue, Sound
<1> QED
  BY <1>1 DEF MarksStay, Sound, Knows, Located, Matching, Writing, Running

\* A call that is alone in changing the directory need only be looked at itself.
LEMMA OneCall ==
    ASSUME Inv, TypeOK', MarksStay, MovedIsDisabled', wants' = wants, NEW c \in Calls,
           \A d \in Calls \ {c} : pc'[d] = pc[d] /\ user'[d] = user[d] /\ answer'[d] = answer[d],
           Sound(c)'
    PROVE  Inv'
<1>1. \A d \in Calls : Sound(d)'
  BY OthersKnow
<1> QED
  BY <1>1 DEF Inv, AnswersAreTrue, Sound

\* Before any call starts nothing has to be known.
LEMMA InvInit == Init => Inv
BY DEF Init, Inv, TypeOK, AnswersAreTrue, MovedIsDisabled, Knows, Located, Running, Writing

\* The marks stay, and every call goes on knowing what it knew.
LEMMA InvStep == Inv /\ [Next]_vars => Inv' /\ MarksStay
<1> SUFFICES ASSUME Inv, [Next]_vars
             PROVE  Inv' /\ MarksStay
  OBVIOUS
<1>t. TypeOK /\ TypeOK' /\ MovedIsDisabled
  BY TypeStep DEF Inv
<1>1. ASSUME NEW c \in Calls, Start(c) \/ Return(c) \/ Fail(c)
      PROVE  Inv' /\ MarksStay
  <2>1. MarksStay /\ MovedIsDisabled' /\ wants' = wants /\ user' = user
    BY <1>1, <1>t DEF Start, Return, Fail, directory, MarksStay, MovedIsDisabled, TypeOK
  <2>2. \A d \in Calls \ {c} : pc'[d] = pc[d] /\ user'[d] = user[d] /\ answer'[d] = answer[d]
    BY <1>1, <1>t DEF Start, Return, Fail, Answer, TypeOK
  <2>3. Knows(c) /\ user[c] \in Accounts
    BY <1>t DEF Inv, TypeOK
  <2>4. CASE Start(c)
    <3>1. pc'[c] = "search" /\ answer'[c] = "none"
      BY <2>3, <2>4, <1>t DEF Start, Knows, TypeOK
    <3>2. Sound(c)'
      BY <3>1 DEF Sound, Knows, Located, Writing
    <3> QED
      BY <1>t, <2>1, <2>2, <3>2, OneCall
  <2>5. CASE Return(c)
    <3>1. /\ pc[c] = "return" /\ pc'[c] = "end" /\ answer'[c] = "disabled"
          /\ UNCHANGED directory
      BY <2>5, <1>t DEF Return, Answer, TypeOK
    <3>2. Sound(c)'
      BY <2>1, <2>3, <3>1 DEF Sound, Knows, Located, Writing, Running, Matching, directory
    <3> QED
      BY <1>t, <2>1, <2>2, <3>2, OneCall
  <2>6. CASE Fail(c)
    <3>1. pc'[c] = "end" /\ answer'[c] = "error"
      BY <2>6, <1>t DEF Fail, Answer, TypeOK
    <3>2. Sound(c)'
      BY <3>1 DEF Sound, Knows, Located, Writing, Running
    <3> QED
      BY <1>t, <2>1, <2>2, <3>2, OneCall
  <2> QED
    BY <1>1, <2>4, <2>5, <2>6
<1>2. ASSUME NEW c \in Calls, GetUniqueUser(c)
      PROVE  Inv' /\ MarksStay
  <2>1. MarksStay /\ MovedIsDisabled' /\ wants' = wants /\ UNCHANGED directory
    BY <1>2, <1>t DEF GetUniqueUser, directory, MarksStay, MovedIsDisabled
  <2>2. PICK a \in Accounts :
           /\ Found(wants[c]) = {a}
           /\ user' = [user EXCEPT ![c] = a]
           /\ \/ enabled[a] /\ pc' = [pc EXCEPT ![c] = FirstWrite] /\ UNCHANGED answer
              \/ ~enabled[a] /\ Answer(c, "already_disabled")
    BY <1>2 DEF GetUniqueUser
  <2>3. \A d \in Calls \ {c} : pc'[d] = pc[d] /\ user'[d] = user[d] /\ answer'[d] = answer[d]
    BY <2>2, <1>t DEF Answer, TypeOK
  <2>4. a \in Matching(wants[c]) /\ user'[c] = a /\ pc[c] = "search" /\ answer[c] = "none"
    BY <1>2, <1>t, <2>2 DEF Found, GetUniqueUser, TypeOK, Inv, Knows, Running
  <2>5. CASE pc' = [pc EXCEPT ![c] = FirstWrite] /\ UNCHANGED answer
    <3>1. Sound(c)'
      BY <1>t, <2>1, <2>4, <2>5 DEF Sound, Knows, Located, Writing, FirstWrite, Matching, TypeOK
    <3> QED
      BY <1>t, <2>1, <2>3, <3>1, OneCall
  <2>6. CASE ~enabled[a] /\ Answer(c, "already_disabled")
    <3>1. pc'[c] = "end" /\ answer'[c] = "already_disabled"
      BY <1>t, <2>6 DEF Answer, TypeOK
    <3>2. Sound(c)'
      BY <2>1, <2>4, <2>6, <3>1 DEF Sound, Knows, Located, Writing, Running, Matching, directory
    <3> QED
      BY <1>t, <2>1, <2>3, <3>2, OneCall
  <2> QED
    BY <2>2, <2>5, <2>6
<1>3. ASSUME NEW c \in Calls, UpdateDescription(c) \/ DisableAccount(c) \/ MoveToOu(c)
      PROVE  Inv' /\ MarksStay
  <2>0. /\ Knows(c) /\ user[c] \in Accounts
        /\ pc[c] \in Writing /\ pc'[c] = After[pc[c]] /\ UNCHANGED <<wants, user, answer>>
        /\ \A d \in Calls \ {c} : pc'[d] = pc[d] /\ user'[d] = user[d] /\ answer'[d] = answer[d]
    BY <1>3, <1>t DEF UpdateDescription, DisableAccount, MoveToOu, Write, Writing, Inv, TypeOK
  <2>1. answer'[c] = "none" /\ user'[c] \in Matching(wants'[c])
    BY <2>0 DEF Knows, Located, Running, Matching
  <2>2. CASE UpdateDescription(c)
    <3>1. MarksStay /\ MovedIsDisabled'
      BY <2>2, <1>t DEF UpdateDescription, MarksStay, MovedIsDisabled, TypeOK
    <3>2. pc'[c] = "disable" /\ described'[user[c]] # {}
      BY <2>0, <2>2, <1>t DEF UpdateDescription, Write, After, TypeOK
    <3>3. Sound(c)'
      BY <2>0, <2>1, <3>2 DEF Sound, Knows, Located, Matching
    <3> QED
      BY <1>t, <2>0, <3>1, <3>3, OneCall
  <2>3. CASE DisableAccount(c)
    <3>1. MarksStay /\ MovedIsDisabled'
      BY <2>3, <1>t DEF DisableAccount, MarksStay, MovedIsDisabled, TypeOK
    <3>2. /\ pc[c] = "disable" /\ pc'[c] = "move" /\ ~enabled'[user[c]]
          /\ described' = described
      BY <2>0, <2>3, <1>t DEF DisableAccount, Write, After, TypeOK
    <3>3. Sound(c)'
      BY <2>0, <2>1, <3>2 DEF Sound, Knows, Located, Matching
    <3> QED
      BY <1>t, <2>0, <3>1, <3>3, OneCall
  <2>4. CASE MoveToOu(c)
    <3>1. /\ pc[c] = "move" /\ pc'[c] = "return" /\ moved'[user[c]]
          /\ UNCHANGED <<enabled, described>>
      BY <2>0, <2>4, <1>t DEF MoveToOu, Write, After, TypeOK
    <3>2. MarksStay /\ MovedIsDisabled'
      BY <2>0, <2>4, <1>t, <3>1 DEF MoveToOu, MarksStay, MovedIsDisabled, Knows, TypeOK
    <3>3. Sound(c)'
      BY <2>0, <2>1, <3>1 DEF Sound, Knows, Located, Matching
    <3> QED
      BY <1>t, <2>0, <3>2, <3>3, OneCall
  <2> QED
    BY <1>3, <2>2, <2>3, <2>4
<1>4. CASE Crash \/ UNCHANGED vars
  <2>1. MarksStay /\ MovedIsDisabled' /\ UNCHANGED <<wants, user, answer>>
    BY <1>4, <1>t DEF Crash, vars, directory, MarksStay, MovedIsDisabled
  <2>2. \A d \in Calls : pc'[d] = pc[d] \/ pc'[d] = "lost"
    BY <1>4, <1>t DEF Crash, vars, TypeOK
  <2>3. \A d \in Calls : Sound(d)'
    BY <2>1, <2>2, OthersKnow
  <2> QED
    BY <1>t, <2>1, <2>3 DEF Inv, AnswersAreTrue, Sound
<1> QED
  BY <1>1, <1>2, <1>3, <1>4 DEF Next

\* The invariant that the theorems rest on.
LEMMA Invariance == Spec => []Inv
BY InvInit, InvStep, PTL DEF Spec

\* Answers are true for good: "disabled" of an account with all three marks.
THEOREM AnswersHold == Spec => []AnswersAreTrue
BY Invariance, PTL DEF Inv

\* Where no registration number occurs in another, a deactivation is of the employee
\* asked for: OwnAccountOnly fails by the substring search and by nothing else.
THEOREM NumbersApartOwnAccount ==
    ASSUME \A pair \in Contains : pair[1] = pair[2]
    PROVE  Spec => []OwnAccountOnly
<1>1. Inv => OwnAccountOnly
  <2> SUFFICES ASSUME Inv, NEW c \in Calls, answer[c] = "disabled"
               PROVE  EmployeeID[user[c]] = wants[c]
    BY DEF OwnAccountOnly
  <2>1. user[c] \in Matching(wants[c])
    BY DEF Inv, Knows, Located
  <2>2. <<wants[c], EmployeeID[user[c]]>> \in Contains
    BY <2>1 DEF Matching
  <2> QED
    BY <2>2
<1> QED
  BY <1>1, Invariance, PTL

-----------------------------------------------------------------------------
(* What a step may never do *)

Described == \A a \in Accounts : enabled[a] /\ ~enabled'[a] => described[a] # {}

\* No account is disabled without a description, whatever other calls overwrite.
THEOREM NoneDisabledUndescribed == Spec => DisabledIsDescribed
<1>1. Inv /\ [Next]_vars => [Described]_vars
  <2> SUFFICES ASSUME Inv, [Next]_vars, NEW a \in Accounts, enabled[a], ~enabled'[a]
               PROVE  described[a] # {}
    BY DEF Described
  <2>1. PICK c \in Calls : DisableAccount(c)
    BY DEF Next, vars, directory, Start, GetUniqueUser, UpdateDescription, MoveToOu,
           Return, Fail, Crash
  <2>2. a = user[c] /\ Knows(c) /\ pc[c] = "disable"
    BY <2>1 DEF DisableAccount, Write, Inv, TypeOK
  <2> QED
    BY <2>2 DEF Knows
<1>2. []Inv /\ [][Next]_vars => [][Described]_vars
  BY <1>1, PTL
<1> QED
  BY <1>2, Invariance, PTL DEF Spec, DisabledIsDescribed, Described

Final == \A a \in Accounts : moved[a] => /\ moved'[a]
                                         /\ enabled'[a] = enabled[a]
                                         /\ described'[a] = described[a]

\* An account that was moved is final: the name under which the calls that are still
\* at it read it no longer exists.
THEOREM MovedStays == Spec => MovedIsFinal
<1>1. Inv /\ [Next]_vars => [Final]_vars
  <2> SUFFICES ASSUME TypeOK, [Next]_vars, NEW a \in Accounts, moved[a]
               PROVE  moved'[a] /\ enabled'[a] = enabled[a] /\ described'[a] = described[a]
    BY DEF Final, Inv
  <2>1. CASE UNCHANGED directory
    BY <2>1 DEF directory
  <2>2. ASSUME NEW c \in Calls, UpdateDescription(c) \/ DisableAccount(c) \/ MoveToOu(c)
        PROVE  moved'[a] /\ enabled'[a] = enabled[a] /\ described'[a] = described[a]
    <3>1. user[c] # a
      BY <2>2 DEF UpdateDescription, DisableAccount, MoveToOu, Write, Addresses
    <3> QED
      BY <2>2, <3>1 DEF UpdateDescription, DisableAccount, MoveToOu, TypeOK
  <2> QED
    BY <2>1, <2>2 DEF Next, vars, Start, GetUniqueUser, Return, Fail, Crash
<1>2. []Inv /\ [][Next]_vars => [][Final]_vars
  BY <1>1, PTL
<1> QED
  BY <1>2, Invariance, PTL DEF Spec, MovedIsFinal, Final

-----------------------------------------------------------------------------
(* Refinement *)

\* disable_user keeps the promise of AccountRevocation: of its many steps, the
\* callers see that an account of the registration may become disabled, and an
\* answer that is true.
THEOREM KeepsItsPromise == Spec => Promised
<1>1. Init => Promise!Init
  BY DEF Init, Promise!Init
<1>2. Inv /\ [Next]_vars => [Promise!Next]_(Promise!vars)
  <2> SUFFICES ASSUME Inv, TypeOK, [Next]_vars
               PROVE  [Promise!Next]_(Promise!vars)
    BY DEF Inv
  <2>m. \A r \in Registrations : Promise!Matching(r) = Matching(r)
    BY DEF Promise!Matching, Matching
  <2>k. \A c \in Calls : Knows(c) /\ wants[c] \in Registrations
    BY DEF Inv, TypeOK
  <2>1. CASE UNCHANGED <<wants, enabled, answer>>
    BY <2>1 DEF Promise!vars
  <2>2. ASSUME NEW c \in Calls, GetUniqueUser(c)
        PROVE  Promise!Succeed(c) \/ UNCHANGED <<wants, enabled, answer>>
    <3>1. PICK a \in Accounts :
             /\ Found(wants[c]) = {a}
             /\ \/ UNCHANGED answer
                \/ ~enabled[a] /\ Answer(c, "already_disabled")
      BY <2>2 DEF GetUniqueUser
    <3>2. a \in Matching(wants[c]) /\ answer[c] = "none" /\ UNCHANGED <<wants, enabled>>
      BY <2>2, <2>k, <3>1 DEF GetUniqueUser, Found, Knows, Running, directory
    <3> QED
      BY <2>k, <2>m, <3>1, <3>2 DEF Promise!Succeed, Answer
  <2>3. ASSUME NEW c \in Calls, DisableAccount(c)
        PROVE  Promise!Disable(c)
    <3>1. answer[c] = "none" /\ user[c] \in Matching(wants[c])
      BY <2>3, <2>k DEF DisableAccount, Write, Knows, Located, Running, Writing
    <3> QED
      BY <2>3, <2>k, <2>m, <3>1 DEF Promise!Disable, DisableAccount, Write
  <2>4. ASSUME NEW c \in Calls, Return(c)
        PROVE  Promise!Succeed(c)
    <3>1. answer[c] = "none" /\ user[c] \in Matching(wants[c]) /\ ~enabled[user[c]]
      BY <2>4, <2>k DEF Return, Knows, Located, Running, Writing
    <3> QED
      BY <2>4, <2>k, <2>m, <3>1 DEF Promise!Succeed, Return, Answer, directory
  <2>5. ASSUME NEW c \in Calls, Fail(c)
        PROVE  Promise!Refuse(c)
    BY <2>5, <2>k DEF Promise!Refuse, Fail, Answer, Knows, directory
  <2> QED
    BY <2>1, <2>2, <2>3, <2>4, <2>5
    DEF Next, vars, directory, Start, UpdateDescription, MoveToOu, Write, Crash,
        Promise!Next, Promise!vars
<1> QED
  BY <1>1, <1>2, Invariance, PTL DEF Spec, Promised, Promise!Spec
=============================================================================
