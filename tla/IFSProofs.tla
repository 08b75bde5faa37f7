------------------------------- MODULE IFSProofs -------------------------------
(* What disable_employee keeps for any number of calls, users and saves, and    *)
(* that it implements the promise of AccountRevocation.                         *)
EXTENDS IFS, TLAPS

\* What a call knows while it runs: it has not answered, its person has the
\* registration, and what it is about to report has happened.
Knows(c) ==
    /\ pc[c] \in Running => answer[c] = "none"
    /\ pc[c] \in {"user", "patch", "return"} => person[c] \in Persons(wants[c])
    /\ pc[c] = "return" => took[c]

\* An activation is a version of the user.
Versioned == \A a \in Accounts : activated[a] <= etag[a]

Inv == TypeOK /\ Versioned /\ \A c \in Calls : Knows(c)

-----------------------------------------------------------------------------
(* Types *)

\* Every step keeps the shapes.
LEMMA TypeStep == TypeOK /\ [Next]_vars => TypeOK'
<1> SUFFICES ASSUME TypeOK, [Next]_vars
             PROVE  TypeOK'
  OBVIOUS
<1> USE DEF TypeOK, users, Running
<1>1. ASSUME NEW c \in Calls, GetPerson(c)
      PROVE  TypeOK'
  <2>1. CASE UNCHANGED answer
    BY <1>1, <2>1 DEF GetPerson, Persons, Answer
  <2>2. CASE Answer(c, "false") /\ UNCHANGED person
    BY <1>1, <2>2 DEF GetPerson, Answer
  <2> QED
    BY <1>1, <2>1, <2>2 DEF GetPerson
<1>2. ASSUME NEW c \in Calls, GetUser(c)
      PROVE  TypeOK'
  BY <1>2 DEF GetUser
<1>3. ASSUME NEW c \in Calls, Patch(c)
      PROVE  TypeOK'
  BY <1>3 DEF Patch
<1>4. ASSUME NEW c \in Calls, Refused(c) \/ Return(c) \/ Fail(c)
      PROVE  TypeOK'
  BY <1>4 DEF Refused, Return, Fail, Answer
<1>5. CASE Crash
  BY <1>5 DEF Crash
<1>6. ASSUME NEW a \in Accounts, Edit(a) \/ Activate(a)
      PROVE  TypeOK'
  <2>1. etag' \in [Accounts -> Nat] /\ etag'[a] \in Nat /\ saves' \in 0..MaxSaves
    BY <1>6, SavesAssumption DEF Edit, Activate, Save
  <2>2. enabled' \in [Accounts -> BOOLEAN] /\ activated' \in [Accounts -> Nat]
    BY <1>6, <2>1 DEF Edit, Activate
  <2> QED
    BY <1>6, <2>1, <2>2 DEF Edit, Activate, Save
<1>7. CASE UNCHANGED vars
  BY <1>7 DEF vars
<1> QED
  BY <1>1, <1>2, <1>3, <1>4, <1>5, <1>6, <1>7 DEF Next

\* Every variable keeps its shape.
THEOREM TypeCorrect == Spec => []TypeOK
<1>1. Init => TypeOK
  BY SavesAssumption DEF Init, TypeOK, Running
<1> QED
  BY <1>1, TypeStep, PTL DEF Spec

-----------------------------------------------------------------------------
(* The inductive invariant *)

\* Nothing but the administrators' and the calls' writes changes a version, and
\* they only raise it.
LEMMA VersionStep == TypeOK /\ Versioned /\ [Next]_vars => Versioned'
<1> SUFFICES ASSUME TypeOK, Versioned, [Next]_vars
             PROVE  Versioned'
  OBVIOUS
<1> USE DEF TypeOK, Versioned
<1>1. ASSUME NEW c \in Calls, Patch(c)
      PROVE  Versioned'
  BY <1>1 DEF Patch
<1>2. ASSUME NEW a \in Accounts, Edit(a) \/ Activate(a)
      PROVE  Versioned'
  BY <1>2 DEF Edit, Activate, Save
<1>3. CASE UNCHANGED users
  BY <1>3 DEF users
<1> QED
  BY <1>1, <1>2, <1>3
  DEF Next, vars, GetPerson, GetUser, Refused, Return, Fail, Crash

\* What a call knows stays true: no other call and no administrator changes it.
LEMMA KnowsStep ==
    ASSUME Inv, [Next]_vars, NEW d \in Calls
    PROVE  Knows(d)'
<1> USE DEF Inv, TypeOK, Knows, Running, Persons
<1>1. ASSUME NEW c \in Calls, GetPerson(c)
      PROVE  Knows(d)'
  <2>1. CASE UNCHANGED answer
    BY <1>1, <2>1 DEF GetPerson, Answer, users
  <2>2. CASE Answer(c, "false") /\ UNCHANGED person
    BY <1>1, <2>2 DEF GetPerson, Answer
  <2> QED
    BY <1>1, <2>1, <2>2 DEF GetPerson
<1>2. ASSUME NEW c \in Calls, GetUser(c)
      PROVE  Knows(d)'
  BY <1>2 DEF GetUser
<1>3. ASSUME NEW c \in Calls, Patch(c)
      PROVE  Knows(d)'
  BY <1>3 DEF Patch
<1>4. ASSUME NEW c \in Calls, Refused(c) \/ Return(c) \/ Fail(c)
      PROVE  Knows(d)'
  BY <1>4 DEF Refused, Return, Fail, Answer
<1>5. CASE Crash
  BY <1>5 DEF Crash
<1>6. ASSUME NEW a \in Accounts, Edit(a) \/ Activate(a)
      PROVE  Knows(d)'
  BY <1>6 DEF Edit, Activate, Save
<1>7. CASE UNCHANGED vars
  BY <1>7 DEF vars
<1> QED
  BY <1>1, <1>2, <1>3, <1>4, <1>5, <1>6, <1>7 DEF Next

\* The three parts hold together in every state.
LEMMA Invariance == Spec => []Inv
<1>1. Init => Inv
  BY SavesAssumption DEF Init, Inv, TypeOK, Versioned, Knows, Running
<1>2. Inv /\ [Next]_vars => Inv'
  BY TypeStep, VersionStep, KnowsStep DEF Inv
<1> QED
  BY <1>1, <1>2, PTL DEF Spec

-----------------------------------------------------------------------------
(* Activations *)

Stand == \A a \in Accounts : enabled[a] /\ ~enabled'[a] =>
            \E c \in Calls : /\ person[c] = a /\ took'[c] /\ ~took[c]
                             /\ seen[c] >= activated[a]

\* A call that has not carried out its request yet has not noted it either.
Fresh == \A c \in Calls : pc[c] \in {"person", "user", "patch"} => ~took[c]

\* The request is carried out once.
LEMMA FreshStep == Inv /\ Fresh /\ [Next]_vars => Fresh'
<1> SUFFICES ASSUME Inv, Fresh, [Next]_vars
             PROVE  Fresh'
  OBVIOUS
<1> USE DEF Inv, TypeOK, Fresh, Running
<1>1. ASSUME NEW c \in Calls, GetPerson(c)
      PROVE  Fresh'
  <2>1. pc' = [pc EXCEPT ![c] = "user"] \/ pc' = [pc EXCEPT ![c] = "end"]
    BY <1>1 DEF GetPerson, Answer
  <2> QED
    BY <1>1, <2>1 DEF GetPerson
<1>2. ASSUME NEW c \in Calls, GetUser(c)
      PROVE  Fresh'
  BY <1>2 DEF GetUser
<1>3. ASSUME NEW c \in Calls, Patch(c)
      PROVE  Fresh'
  BY <1>3 DEF Patch
<1>4. ASSUME NEW c \in Calls, Refused(c) \/ Return(c) \/ Fail(c)
      PROVE  Fresh'
  BY <1>4 DEF Refused, Return, Fail, Answer
<1>5. CASE Crash
  BY <1>5 DEF Crash
<1>6. ASSUME NEW a \in Accounts, Edit(a) \/ Activate(a)
      PROVE  Fresh'
  BY <1>6 DEF Edit, Activate, Save
<1>7. CASE UNCHANGED vars
  BY <1>7 DEF vars
<1> QED
  BY <1>1, <1>2, <1>3, <1>4, <1>5, <1>6, <1>7 DEF Next

\* An activation is undone only by a call that read the user after it: the version
\* that the call read is the present one, and that is not before the activation.
THEOREM ActivationsHold == Spec => ActivationsStand
<1>1. Inv /\ Fresh /\ [Next]_vars => [Stand]_vars
  <2> SUFFICES ASSUME Inv, Fresh, [Next]_vars,
                      NEW a \in Accounts, enabled[a], ~enabled'[a]
               PROVE  \E c \in Calls : /\ person[c] = a /\ took'[c] /\ ~took[c]
                                       /\ seen[c] >= activated[a]
    BY DEF Stand
  <2>1. ASSUME NEW b \in Accounts, Edit(b) \/ Activate(b)
        PROVE  FALSE
    BY <2>1 DEF Inv, TypeOK, Edit, Activate
  <2>2. PICK c \in Calls : Patch(c)
    BY <2>1 DEF Next, vars, users, GetPerson, GetUser, Refused, Return, Fail, Crash
  <2>3. person[c] = a /\ took'[c]
    BY <2>2 DEF Patch, Inv, TypeOK
  <2>4. ~took[c]
    BY <2>2 DEF Patch, Fresh
  <2>5. seen[c] >= activated[a]
    BY <2>2, <2>3 DEF Patch, IfMatch, Inv, TypeOK, Versioned
  <2> QED
    BY <2>3, <2>4, <2>5
<1>2. Init => Fresh
  BY DEF Init, Fresh
<1>3. Spec => []Fresh
  BY <1>2, FreshStep, Invariance, PTL DEF Spec
<1>4. []Inv /\ []Fresh /\ [][Next]_vars => [][Stand]_vars
  BY <1>1, PTL
<1> QED
  BY <1>3, <1>4, Invariance, PTL DEF Spec, ActivationsStand, Stand

-----------------------------------------------------------------------------
(* Refinement *)

\* disable_employee keeps the promise of AccountRevocation, in its weaker form: the
\* success it answers is about what it did, not about how the user is now.
THEOREM KeepsItsPromise == Spec => Promised
<1>1. Init => Promise!Init
  BY DEF Init, Promise!Init
<1>2. Inv /\ [Next]_vars => [Promise!Next]_(Promise!vars)
  <2> SUFFICES ASSUME Inv, [Next]_vars
               PROVE  [Promise!Next]_(Promise!vars)
    OBVIOUS
  <2>m. \A r \in Registrations : Promise!Matching(r) = Persons(r)
    BY PersonsAssumption DEF Promise!Matching, Persons
  <2>k. \A c \in Calls : Knows(c) /\ wants[c] \in Registrations
    BY DEF Inv, TypeOK
  <2>r. ASSUME NEW c \in Calls, pc[c] \in Running, Answer(c, "false"), UNCHANGED <<wants, enabled, took>>
        PROVE  Promise!Refuse(c)
    BY <2>r, <2>k DEF Promise!Refuse, Answer, Knows, Inv, TypeOK
  <2>1. CASE UNCHANGED <<wants, enabled, took, answer>>
    BY <2>1 DEF Promise!vars
  <2>2. ASSUME NEW c \in Calls, GetPerson(c) \/ Refused(c) \/ Fail(c)
        PROVE  Promise!Refuse(c) \/ UNCHANGED <<wants, enabled, took, answer>>
    BY <2>2, <2>r DEF GetPerson, Refused, Fail, Running, users
  <2>3. ASSUME NEW c \in Calls, Patch(c)
        PROVE  Promise!Disable(c)
    <3>1. answer[c] = "none" /\ person[c] \in Persons(wants[c])
      BY <2>3, <2>k DEF Patch, Knows, Running
    <3> QED
      BY <2>3, <2>k, <2>m, <3>1 DEF Promise!Disable, Patch
  <2>4. ASSUME NEW c \in Calls, Return(c)
        PROVE  Promise!Succeed(c)
    <3>1. answer[c] = "none" /\ took[c]
      BY <2>4, <2>k DEF Return, Knows, Running
    <3> QED
      BY <2>4, <3>1 DEF Promise!Succeed, Return, Answer, users, Inv, TypeOK
  <2>5. ASSUME NEW a \in Accounts, Activate(a)
        PROVE  Promise!Enable
    BY <2>5 DEF Promise!Enable, Activate, Save
  <2> QED
    BY <2>1, <2>2, <2>3, <2>4, <2>5
    DEF Next, vars, users, GetUser, Crash, Edit, Save, Promise!Next
<1> QED
  BY <1>1, <1>2, Invariance, PTL DEF Spec, Promised, Promise!Spec
=============================================================================
