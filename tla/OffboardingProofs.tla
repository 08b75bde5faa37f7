--------------------------- MODULE OffboardingProofs ---------------------------
(* What a request of the offboarding endpoint guarantees for any number of     *)
(* concurrent requests, any equipment and any set of accounts.                 *)
EXTENDS Offboarding, TLAPS

USE DEF NETWORK, INTOUCH, EQUIPMENT, ACCESS, IFS, SUCCESS, FAILED

-----------------------------------------------------------------------------
(* The order of the blocks *)

\* Where the request goes after each block: only to a later one.
LEMMA BlockOrder ==
    ASSUME NEW map, NEW claimed
    PROVE  /\ AfterNetwork(claimed) \in {"record", "reply"}
           /\ AfterIfs(map, claimed) \in {NETWORK, "record", "reply"}
           /\ AfterInTouch(map, claimed) \in {IFS, NETWORK, "record", "reply"}
           /\ AfterEquipment(map, claimed) \in {INTOUCH, IFS, NETWORK, "record", "reply"}
           /\ FirstBlock(map) \in {EQUIPMENT, INTOUCH, IFS, NETWORK, "record", "reply"}
BY DEF AfterNetwork, AfterIfs, AfterInTouch, AfterEquipment, FirstBlock

\* The row of a use case has one of the two statuses; SUCCESS only if it succeeded.
LEMMA StatusesSound ==
    ASSUME NEW r, NEW success \in BOOLEAN
    PROVE  /\ Statuses(r, success) \subseteq {SUCCESS, FAILED}
           /\ SUCCESS \in Statuses(r, success) => success
BY DEF Statuses

-----------------------------------------------------------------------------
(* Types *)

Claimable == Systems \ {ACCESS}

\* What the steps that claim or log have in common.
StepTyped == /\ pc' \in [Requests -> Points]
             /\ revoked' \in [Requests -> SUBSET Claimable]
             /\ audit' \in [Requests -> SUBSET (Claimable \X {SUCCESS, FAILED})]

\* Going to a point of the program keeps pc's type.
LEMMA GotoType ==
    ASSUME TypeOK, NEW r \in Requests, NEW point \in Points, Goto(r, point)
    PROVE  pc' \in [Requests -> Points]
BY DEF TypeOK, Goto

\* A row of a use case keeps the type of the audit trail.
LEMMA LogType ==
    ASSUME TypeOK, NEW r \in Requests, NEW s \in Claimable, NEW status \in {SUCCESS, FAILED},
           Log(r, s, status)
    PROVE  audit' \in [Requests -> SUBSET (Claimable \X {SUCCESS, FAILED})]
<1>1. audit[r] \cup {<<s, status>>} \in SUBSET (Claimable \X {SUCCESS, FAILED})
  BY DEF TypeOK, Claimable
<1> QED
  BY <1>1 DEF TypeOK, Log, Claimable

\* successfully_revoked, extended or not.
LEMMA ClaimType ==
    ASSUME TypeOK, NEW r \in Requests, NEW s \in Claimable, NEW success \in BOOLEAN,
           revoked' = [revoked EXCEPT ![r] = Claimed(r, s, success)]
    PROVE  revoked' \in [Requests -> SUBSET Claimable]
<1>1. Claimed(r, s, success) \in SUBSET Claimable
  BY DEF TypeOK, Claimed, Claimable
<1> QED
  BY <1>1 DEF TypeOK, Claimable

\* The end of an iteration of checkin_assets keeps the types it touches.
LEMMA NextAssetType ==
    ASSUME TypeOK, NEW r \in Requests, NEW left, NEW any \in BOOLEAN, NextAsset(r, left, any)
    PROVE  /\ pc' \in [Requests -> Points]
           /\ revoked' \in [Requests -> SUBSET Claimable]
<1> USE DEF Points, Running, Busy
<1>1. CASE left # {}
  BY <1>1, GotoType DEF NextAsset, TypeOK, Claimable
<1>2. CASE left = {}
  <2>1. /\ revoked' = [revoked EXCEPT ![r] = Claimed(r, EQUIPMENT, any)]
        /\ Goto(r, AfterEquipment(servicesMap[r], Claimed(r, EQUIPMENT, any)))
    BY <1>2 DEF NextAsset
  <2>2. EQUIPMENT \in Claimable
    BY DEF Claimable, Systems
  <2>3. AfterEquipment(servicesMap[r], Claimed(r, EQUIPMENT, any)) \in Points
    BY BlockOrder
  <2> QED
    BY <2>1, <2>2, <2>3, ClaimType, GotoType
<1> QED
  BY <1>1, <1>2

\* Every step keeps the types.
LEMMA TypeStep == TypeOK /\ [Next]_vars => TypeOK'
<1> SUFFICES ASSUME TypeOK, [Next]_vars PROVE TypeOK'
  OBVIOUS
<1>h. hung' \in BOOLEAN
  BY DEF Next, DirectoryHangs, Crash, vars, TypeOK
<1> USE <1>h
<1>1. ASSUME NEW r \in Requests, Locate(r)
     PROVE  TypeOK'
  <2>1. found' \in [Requests -> BOOLEAN]
    BY <1>1, ConstantsAssumption DEF Locate, TypeOK
  <2>2. pc' \in [Requests -> Points]
    BY <1>1, GotoType DEF Locate, Points, Running, Ended
  <2> QED
    BY <1>1, <2>1, <2>2 DEF Locate, external, stored, TypeOK
<1>2. ASSUME NEW r \in Requests, NEW s \in LookedUp, Lookup(r, s)
     PROVE  TypeOK'
  <2>1. servicesMap[r] \cup {s} \in SUBSET (Systems \ {ACCESS})
    BY DEF TypeOK, LookedUp, Systems
  <2>2. servicesMap' \in [Requests -> SUBSET (Systems \ {ACCESS})]
    BY <1>2, <2>1 DEF Lookup, TypeOK
  <2> QED
    BY <1>2, <2>2 DEF Lookup, external, stored, TypeOK
<1>3. ASSUME NEW r \in Requests, VerifyTimeout(r)
     PROVE  TypeOK'
  BY <1>3 DEF VerifyTimeout, Goto, local, external, stored, TypeOK, Points, Running, Busy, Ended
<1>4. ASSUME NEW r \in Requests, VerifyDone(r)
     PROVE  TypeOK'
  <2>1. pc' \in [Requests -> Points]
    BY <1>4, BlockOrder, GotoType DEF VerifyDone, Points, Running, Busy
  <2> QED
    BY <1>4, <2>1 DEF VerifyDone, local, external, stored, TypeOK
<1>5. ASSUME NEW r \in Requests, EquipSearch(r)
     PROVE  TypeOK'
  <2>1. pc' \in [Requests -> Points]
    BY <1>5, BlockOrder, GotoType DEF EquipSearch, Points, Running, Busy
  <2>2. todo' \in [Requests -> SUBSET Assets]
    <3>1. todo \in [Requests -> SUBSET Assets] /\ assets \ Untagged \in SUBSET Assets
      BY DEF TypeOK
    <3>2. todo' = [todo EXCEPT ![r] = assets \ Untagged] \/ todo' = todo
      BY <1>5 DEF EquipSearch
    <3> QED
      BY <3>1, <3>2
  <2> QED
    BY <1>5, <2>1, <2>2 DEF EquipSearch, external, stored, TypeOK
<1>6. ASSUME NEW r \in Requests, TemplateFetch(r)
     PROVE  TypeOK'
  <2>1. pc' \in [Requests -> Points] /\ revoked' \in [Requests -> SUBSET Claimable]
    BY <1>6, NextAssetType, GotoType
    DEF TemplateFetch, Abort, TypeOK, Claimable, Points, Running, Ended
  <2>2. audit' = audit
    BY <1>6 DEF TemplateFetch, Abort
  <2> QED
    BY <1>6, <2>1, <2>2 DEF TemplateFetch, local, external, StepTyped, TypeOK, Claimable
<1>7. ASSUME NEW r \in Requests, NEW a \in Assets, CheckinCall(r, a)
     PROVE  TypeOK'
  BY <1>7 DEF CheckinCall, Goto, local, external, stored, TypeOK, Points, Running, Busy, Ended
<1>8. ASSUME NEW r \in Requests, CheckinAudit(r)
     PROVE  TypeOK'
  <2> DEFINE ok  == answer[r] = "ok"
             any == anyReturned[r] \/ ok
  <2>1. anyReturned' \in [Requests -> BOOLEAN]
    BY <1>8 DEF CheckinAudit, TypeOK
  <2>2. StepTyped
    <3>1. CASE Abort(r)
      BY <3>1, GotoType DEF StepTyped, Abort, TypeOK, Claimable, Points, Ended
    <3>2. ASSUME NEW status \in Statuses(r, ok), Log(r, EQUIPMENT, status),
                 NextAsset(r, todo[r], any)
          PROVE  StepTyped
      <4>1. ok \in BOOLEAN /\ any \in BOOLEAN /\ EQUIPMENT \in Claimable
        BY DEF TypeOK, Claimable, Systems
      <4>2. status \in {SUCCESS, FAILED}
        BY <4>1, StatusesSound
      <4> HIDE DEF ok, any
      <4> QED
        BY <3>2, <4>1, <4>2, NextAssetType, LogType DEF StepTyped
    <3> QED
      BY <1>8, <3>1, <3>2 DEF CheckinAudit
  <2> QED
    BY <1>8, <2>1, <2>2 DEF CheckinAudit, external, StepTyped, TypeOK, Claimable
<1>9. ASSUME NEW r \in Requests, InTouchCall(r)
     PROVE  TypeOK'
  <2>1. /\ active' \in [Accounts -> BOOLEAN]
        /\ answer' \in [Requests -> {"none", "ok", "fail", "already"}]
    BY <1>9 DEF InTouchCall, TypeOK
  <2>2. pc' \in [Requests -> Points]
    BY <1>9, GotoType DEF InTouchCall, Points, Running, Busy
  <2> QED
    BY <1>9, <2>1, <2>2 DEF InTouchCall, stored, TypeOK
<1>10. ASSUME NEW r \in Requests, InTouchAudit(r)
     PROVE  TypeOK'
  <2>1. StepTyped
    <3>1. CASE Abort(r)
      BY <3>1, GotoType DEF StepTyped, Abort, TypeOK, Claimable, Points, Ended
    <3>2. ASSUME NEW status \in Statuses(r, answer[r] = "ok"), Log(r, INTOUCH, status),
                 revoked' = [revoked EXCEPT ![r] = Claimed(r, INTOUCH, status = SUCCESS)],
                 Goto(r, AfterInTouch(servicesMap[r], Claimed(r, INTOUCH, status = SUCCESS)))
          PROVE  StepTyped
      <4>1. INTOUCH \in Claimable /\ status \in {SUCCESS, FAILED}
        BY StatusesSound DEF Claimable, Systems
      <4>2. AfterInTouch(servicesMap[r], Claimed(r, INTOUCH, status = SUCCESS)) \in Points
        BY BlockOrder DEF Points, Running, Busy
      <4> QED
        BY <3>2, <4>1, <4>2, GotoType, LogType, ClaimType DEF StepTyped
    <3> QED
      BY <1>10, <3>1, <3>2 DEF InTouchAudit
  <2> QED
    BY <1>10, <2>1 DEF InTouchAudit, local, external, StepTyped, TypeOK, Claimable
<1>11. ASSUME NEW r \in Requests, NEW e \in Envs, IfsDisable(r, e)
     PROVE  TypeOK'
  <2>1. active' \in [Accounts -> BOOLEAN]
    BY <1>11 DEF IfsDisable, TypeOK
  <2>2. ifsAnswer' \in [Requests -> [Envs -> {"none", "ok", "fail"}]]
    <3>1. PICK reply \in {"ok", "fail"} : ifsAnswer' = [ifsAnswer EXCEPT ![r][e] = reply]
      BY <1>11 DEF IfsDisable
    <3>2. [ifsAnswer[r] EXCEPT ![e] = reply] \in [Envs -> {"none", "ok", "fail"}]
      BY DEF TypeOK
    <3> QED
      BY <3>1, <3>2 DEF TypeOK
  <2> QED
    BY <1>11, <2>1, <2>2 DEF IfsDisable, stored, TypeOK
<1>12. ASSUME NEW r \in Requests, IfsAudit(r)
     PROVE  TypeOK'
  <2>1. StepTyped
    <3>1. CASE Abort(r)
      BY <3>1, GotoType DEF StepTyped, Abort, TypeOK, Claimable, Points, Ended
    <3>2. ASSUME NEW status \in Statuses(r, IfsSuccess(r)), Log(r, IFS, status),
                 revoked' = [revoked EXCEPT ![r] = Claimed(r, IFS, status = SUCCESS)],
                 Goto(r, AfterIfs(servicesMap[r], Claimed(r, IFS, status = SUCCESS)))
          PROVE  StepTyped
      <4>1. IFS \in Claimable /\ status \in {SUCCESS, FAILED}
        BY StatusesSound DEF IfsSuccess, Claimable, Systems
      <4>2. AfterIfs(servicesMap[r], Claimed(r, IFS, status = SUCCESS)) \in Points
        BY BlockOrder DEF Points, Running, Busy
      <4> QED
        BY <3>2, <4>1, <4>2, GotoType, LogType, ClaimType DEF StepTyped
    <3> QED
      BY <1>12, <3>1, <3>2 DEF IfsAudit
  <2> QED
    BY <1>12, <2>1 DEF IfsAudit, local, external, StepTyped, TypeOK, Claimable
<1>13. ASSUME NEW r \in Requests, AdSearch(r)
     PROVE  TypeOK'
  BY <1>13 DEF AdSearch, Goto, local, external, stored, TypeOK, Points, Running, Busy, Ended
<1>14. ASSUME NEW r \in Requests, AdWrite(r)
     PROVE  TypeOK'
  <2>1. /\ active' \in [Accounts -> BOOLEAN]
        /\ answer' \in [Requests -> {"none", "ok", "fail", "already"}]
    BY <1>14 DEF AdWrite, TypeOK
  <2>2. pc' \in [Requests -> Points]
    BY <1>14, GotoType DEF AdWrite, Points, Running, Busy
  <2> QED
    BY <1>14, <2>1, <2>2 DEF AdWrite, stored, TypeOK
<1>15. ASSUME NEW r \in Requests, AdAudit(r)
     PROVE  TypeOK'
  <2>1. StepTyped
    <3>1. CASE Abort(r)
      BY <3>1, GotoType DEF StepTyped, Abort, TypeOK, Claimable, Points, Ended
    <3>2. ASSUME NEW status \in Statuses(r, answer[r] = "ok"), Log(r, NETWORK, status),
                 revoked' = [revoked EXCEPT ![r] = Claimed(r, NETWORK, status = SUCCESS)],
                 Goto(r, AfterNetwork(Claimed(r, NETWORK, status = SUCCESS)))
          PROVE  StepTyped
      <4>1. NETWORK \in Claimable /\ status \in {SUCCESS, FAILED}
        BY StatusesSound DEF Claimable, Systems
      <4>2. AfterNetwork(Claimed(r, NETWORK, status = SUCCESS)) \in Points
        BY BlockOrder DEF Points, Running, Busy
      <4> QED
        BY <3>2, <4>1, <4>2, GotoType, LogType, ClaimType DEF StepTyped
    <3>3. CASE /\ revoked' = [revoked EXCEPT ![r] = @ \cup {NETWORK}]
               /\ Goto(r, "record")
               /\ UNCHANGED audit
      <4>1. revoked[r] \cup {NETWORK} \in SUBSET Claimable
        BY DEF TypeOK, Claimable, Systems
      <4> QED
        BY <3>3, <4>1, GotoType DEF StepTyped, TypeOK, Claimable, Points, Running, Busy
    <3> QED
      BY <1>15, <3>1, <3>2, <3>3 DEF AdAudit
  <2> QED
    BY <1>15, <2>1 DEF AdAudit, local, external, StepTyped, TypeOK, Claimable
<1>16. ASSUME NEW r \in Requests, PersistRecord(r)
     PROVE  TypeOK'
  <2>1. pc' \in [Requests -> Points]
    BY <1>16, GotoType DEF PersistRecord, Points, Running, Busy, Ended
  <2>2. records' \in [Requests -> SUBSET (Systems \ {ACCESS})]
    BY <1>16 DEF PersistRecord, TypeOK
  <2> QED
    BY <1>16, <2>1, <2>2 DEF PersistRecord, local, external, TypeOK
<1>17. ASSUME NEW r \in Requests, Reply(r)
     PROVE  TypeOK'
  BY <1>17 DEF Reply, Goto, local, external, stored, TypeOK, Points, Running, Busy, Ended
<1>18. ASSUME NEW r \in Requests, SendEmail(r)
     PROVE  TypeOK'
  BY <1>18 DEF SendEmail, Goto, local, external, stored, TypeOK, Points, Running, Busy, Ended
<1>19. ASSUME Crash
     PROVE  TypeOK'
  BY <1>19 DEF Crash, Goto, local, external, stored, TypeOK, Points, Running, Busy, Ended
<1>20. ASSUME ManualActivateInTouch
     PROVE  TypeOK'
  BY <1>20 DEF ManualActivateInTouch, Goto, local, external, stored, TypeOK, Points, Running, Busy, Ended
<1>21. ASSUME NEW a \in {INTOUCH, NETWORK}, ManualDisable(a)
     PROVE  TypeOK'
  BY <1>21 DEF ManualDisable, Goto, local, external, stored, TypeOK, Points, Running, Busy, Ended
<1>22. ASSUME NEW a \in Assets, ManualCheckin(a)
     PROVE  TypeOK'
  BY <1>22 DEF ManualCheckin, Goto, local, external, stored, TypeOK, Points, Running, Busy, Ended
<1>23. CASE UNCHANGED served
  BY <1>23 DEF served, local, external, stored, TypeOK
<1> QED
  BY <1>1, <1>2, <1>3, <1>4, <1>5, <1>6, <1>7, <1>8, <1>9, <1>10, <1>11,
     <1>12, <1>13, <1>14, <1>15, <1>16, <1>17, <1>18, <1>19, <1>20, <1>21,
     <1>22, <1>23
  DEF Next, RequestStep, LoopStep, HttpStep, LdapStep, Environment, DirectoryHangs, vars

\* No request, database row or external account leaves its type, for any constants.
THEOREM TypeCorrect == Spec => []TypeOK
<1>1. Init => TypeOK
  <2> SUFFICES ASSUME Init PROVE TypeOK
    OBVIOUS
  <2>1. active \in [Accounts -> BOOLEAN]
    <3>1. \A a \in Accounts : (a \in Holds) \in BOOLEAN
      OBVIOUS
    <3> QED
      BY <3>1 DEF Init
  <2>2. LookedUp \in SUBSET (Systems \ {ACCESS})
    BY DEF LookedUp, Systems
  <2> QED
    BY <2>1, <2>2 DEF Init, TypeOK, Points
<1> QED
  BY <1>1, TypeStep, PTL DEF Spec

-----------------------------------------------------------------------------
(* What requests know of the external systems *)

\* Equipment only leaves the employee, refusals are not forgotten, and only InTouch
\* accounts come back, when no coroutine holds the event loop.
LEMMA OnlyInTouchReturns ==
    ASSUME TypeOK, [Next]_vars
    PROVE  /\ assets' \subseteq assets
           /\ refused \subseteq refused'
           /\ \A a \in Accounts : active'[a] /\ ~active[a] => a = INTOUCH /\ LoopIdle
<1> DEFINE Kept == /\ assets' \subseteq assets
                   /\ refused \subseteq refused'
                   /\ \A a \in Accounts : active'[a] /\ ~active[a] => a = INTOUCH /\ LoopIdle
<1>1. CASE UNCHANGED external
  BY <1>1 DEF external
<1>2. ASSUME NEW r \in Requests, NEW a \in Assets, CheckinCall(r, a) PROVE Kept
  BY <1>2 DEF CheckinCall
<1>3. ASSUME NEW r \in Requests, InTouchCall(r) PROVE Kept
  BY <1>3 DEF InTouchCall, TypeOK
<1>4. ASSUME NEW r \in Requests, NEW e \in Envs, IfsDisable(r, e) PROVE Kept
  BY <1>4 DEF IfsDisable, TypeOK
<1>5. ASSUME NEW r \in Requests, AdWrite(r) PROVE Kept
  BY <1>5 DEF AdWrite, TypeOK
<1>6. CASE ManualActivateInTouch
  BY <1>6 DEF ManualActivateInTouch, TypeOK
<1>7. ASSUME NEW a \in {INTOUCH, NETWORK}, ManualDisable(a) PROVE Kept
  BY <1>7 DEF ManualDisable, TypeOK
<1>8. ASSUME NEW a \in Assets, ManualCheckin(a) PROVE Kept
  BY <1>8 DEF ManualCheckin
<1> QED
  BY <1>1, <1>2, <1>3, <1>4, <1>5, <1>6, <1>7, <1>8
  DEF Next, RequestStep, LoopStep, HttpStep, LdapStep, Environment, vars, served, external,
      DirectoryHangs, Locate, Lookup, VerifyTimeout, VerifyDone, EquipSearch, TemplateFetch, CheckinAudit,
      InTouchAudit, IfsAudit, AdSearch, AdAudit, PersistRecord, Reply, SendEmail, Crash

\* Who is out of the equipment, of IFS or of the network stays out, whatever step is taken.
LEMMA OutStays ==
    ASSUME TypeOK, [Next]_vars, NEW s \in {EQUIPMENT, IFS, NETWORK}, Out(s)
    PROVE  Out(s)'
<1>1. CASE s = EQUIPMENT
  BY <1>1, OnlyInTouchReturns DEF Out
<1>2. CASE s = IFS
  BY <1>2, OnlyInTouchReturns DEF Out, Accounts, Envs
<1>3. CASE s = NETWORK
  BY <1>3, OnlyInTouchReturns DEF Out, Accounts, TypeOK
<1> QED
  BY <1>1, <1>2, <1>3

\* And what a request may say of them, it may say from then on.
LEMMA WarrantStays ==
    ASSUME TypeOK, [Next]_vars, NEW r \in Requests, NEW s \in {EQUIPMENT, IFS, NETWORK},
           Warranted(r, s)
    PROVE  Warranted(r, s)'
BY OutStays, OnlyInTouchReturns DEF Warranted

Replies == {"checkin_reply", "intouch_reply", "ad_reply"}

\* An external call that answered well did put the employee out, and he is out
\* still when the request comes to use the answer; of equipment, unless Snipe-IT
\* refused the request a check-in with status 200.
Knows(r) ==
    /\ todo[r] \subseteq Assets \ Untagged
    /\ pc[r] = "checkin_reply" /\ answer[r] = "ok" => Warranted(r, EQUIPMENT)
    /\ anyReturned[r] => Warranted(r, EQUIPMENT)
    /\ pc[r] = "intouch_reply" /\ answer[r] = "ok" => Out(INTOUCH)
    /\ \A e \in Envs : ifsAnswer[r][e] = "ok" => ~active[e]
    /\ pc[r] = "ad_reply" /\ answer[r] \in {"ok", "already"} => Out(NETWORK)

\* A step that gives q no new answer.
Quiet(q) ==
    /\ pc'[q] # pc[q] \/ answer'[q] # answer[q] => pc'[q] \notin Replies
    /\ todo'[q] \subseteq todo[q]
    /\ anyReturned'[q] = anyReturned[q]
    /\ ifsAnswer'[q] = ifsAnswer[q]

\* Request r goes to a point where no reply is awaited.
MovesOn(r) == \E point \in Points \ Replies : Goto(r, point)

\* So do the steps of the event loop that follow a block or an answer.
LEMMA LoopMovesOn ==
    ASSUME NEW r \in Requests,
           \/ VerifyTimeout(r) \/ VerifyDone(r) \/ TemplateFetch(r) \/ CheckinAudit(r)
           \/ InTouchAudit(r) \/ IfsAudit(r) \/ AdAudit(r) \/ PersistRecord(r) \/ Reply(r)
    PROVE  MovesOn(r)
<1> USE DEF MovesOn, Points, Replies, Running, Busy, Ended
<1>b. /\ \A map, claimed : AfterEquipment(map, claimed) \in Points \ Replies
      /\ \A map, claimed : AfterInTouch(map, claimed) \in Points \ Replies
      /\ \A map, claimed : AfterIfs(map, claimed) \in Points \ Replies
      /\ \A claimed : AfterNetwork(claimed) \in Points \ Replies
      /\ \A map : FirstBlock(map) \in Points \ Replies
  BY BlockOrder
<1>n. /\ "checkin" \in Points \ Replies /\ "error" \in Points \ Replies
      /\ "record" \in Points \ Replies /\ "reply" \in Points \ Replies
      /\ "timeout" \in Points \ Replies /\ "responded" \in Points \ Replies
  OBVIOUS
<1> USE <1>b, <1>n
<1> HIDE DEF Points, Replies, Running, Busy, Ended
<1>1. CASE VerifyTimeout(r)
  BY <1>1 DEF VerifyTimeout
<1>2. CASE VerifyDone(r)
  BY <1>2 DEF VerifyDone
<1>3. CASE TemplateFetch(r)
  BY <1>3 DEF TemplateFetch, NextAsset, Abort
<1>4. CASE CheckinAudit(r)
  BY <1>4 DEF CheckinAudit, NextAsset, Abort
<1>5. CASE InTouchAudit(r)
  BY <1>5 DEF InTouchAudit, Abort
<1>6. CASE IfsAudit(r)
  BY <1>6 DEF IfsAudit, Abort
<1>7. CASE AdAudit(r)
  BY <1>7 DEF AdAudit, Abort
<1>8. CASE PersistRecord(r)
  BY <1>8 DEF PersistRecord
<1>9. CASE Reply(r)
  BY <1>9 DEF Reply
<1> QED
  BY <1>1, <1>2, <1>3, <1>4, <1>5, <1>6, <1>7, <1>8, <1>9

\* Such a step that leaves the request's answers alone is quiet for every request.
LEMMA MovesOnQuiet ==
    ASSUME TypeOK, NEW r \in Requests, NEW q \in Requests, MovesOn(r), UNCHANGED local
    PROVE  Quiet(q)
<1>1. PICK point \in Points \ Replies : pc' = [pc EXCEPT ![r] = point]
  BY DEF MovesOn, Goto
<1>2. pc'[q] # pc[q] => pc'[q] \notin Replies
  BY <1>1 DEF TypeOK
<1> QED
  BY <1>2 DEF Quiet, local

\* A request knows after a quiet step, its own or another's, what it knew before.
\* An InTouch answer survives because the request that holds it holds the event loop.
LEMMA QuietKnows ==
    ASSUME TypeOK, [Next]_vars, NEW q \in Requests, Knows(q), Quiet(q)
    PROVE  Knows(q)'
<1>1. todo'[q] \subseteq Assets \ Untagged
  BY DEF Quiet, Knows
<1>2. pc'[q] = "checkin_reply" /\ answer'[q] = "ok" => Warranted(q, EQUIPMENT)'
  BY WarrantStays DEF Quiet, Knows, Replies
<1>3. anyReturned'[q] => Warranted(q, EQUIPMENT)'
  BY WarrantStays DEF Quiet, Knows
<1>4. pc'[q] = "intouch_reply" /\ answer'[q] = "ok" => Out(INTOUCH)'
  <2> SUFFICES ASSUME pc'[q] = "intouch_reply", answer'[q] = "ok" PROVE Out(INTOUCH)'
    OBVIOUS
  <2>1. pc[q] = "intouch_reply" /\ answer[q] = "ok"
    BY DEF Quiet, Replies
  <2>2. ~active[INTOUCH] /\ ~LoopIdle
    BY <2>1 DEF Knows, Out, LoopIdle, Busy
  <2>3. ~active'[INTOUCH]
    BY <2>2, OnlyInTouchReturns DEF Accounts
  <2> QED
    BY <2>3 DEF Out
<1>5. \A e \in Envs : ifsAnswer'[q][e] = "ok" => ~active'[e]
  BY OnlyInTouchReturns DEF Quiet, Knows, Accounts, Envs
<1>6. pc'[q] = "ad_reply" /\ answer'[q] \in {"ok", "already"} => Out(NETWORK)'
  BY OutStays DEF Quiet, Knows, Replies
<1> QED
  BY <1>1, <1>2, <1>3, <1>4, <1>5, <1>6 DEF Knows

AllKnow == \A q \in Requests : Knows(q)

\* A request that has not started claims to know nothing.
LEMMA KnowsInit == Init => AllKnow
BY DEF Init, AllKnow, Knows

\* Every step keeps what every request knows true.
LEMMA KnowsStep == TypeOK /\ AllKnow /\ [Next]_vars => AllKnow'
<1> SUFFICES ASSUME TypeOK, AllKnow, [Next]_vars, NEW q \in Requests
             PROVE  Knows(q)'
  BY DEF AllKnow
<1>q. Knows(q)
  BY DEF AllKnow
<1>k. Quiet(q) => Knows(q)'
  BY <1>q, QuietKnows
<1>s. /\ Warranted(q, EQUIPMENT) => Warranted(q, EQUIPMENT)'
      /\ Out(NETWORK) => Out(NETWORK)'
      /\ \A e \in Envs : ~active[e] => ~active'[e]
  BY OutStays, WarrantStays, OnlyInTouchReturns DEF Accounts, Envs
<1>1. ASSUME NEW r \in Requests, Locate(r)
     PROVE  Knows(q)'
  BY <1>k, <1>1 DEF Locate, Quiet, Replies, Goto, local, TypeOK
<1>2. ASSUME NEW r \in Requests, NEW s \in LookedUp, Lookup(r, s)
     PROVE  Knows(q)'
  BY <1>k, <1>2 DEF Lookup, Quiet, Replies, Goto, local, TypeOK
<1>3. ASSUME NEW r \in Requests, VerifyTimeout(r)
     PROVE  Knows(q)'
  BY <1>k, <1>3, LoopMovesOn, MovesOnQuiet DEF VerifyTimeout
<1>4. ASSUME NEW r \in Requests, VerifyDone(r)
     PROVE  Knows(q)'
  BY <1>k, <1>4, LoopMovesOn, MovesOnQuiet DEF VerifyDone
<1>5. ASSUME NEW r \in Requests, EquipSearch(r)
     PROVE  Knows(q)'
  <2>1. CASE q = r /\ todo' = [todo EXCEPT ![r] = assets \ Untagged]
    <3>1. todo'[q] \subseteq Assets \ Untagged
      BY <2>1 DEF TypeOK
    <3>2. anyReturned' = anyReturned /\ ifsAnswer' = ifsAnswer
      BY <1>5 DEF EquipSearch
    <3>3. \/ pc'[q] = "template"
          \/ pc'[q] = AfterEquipment(servicesMap[q], revoked[q])
      BY <1>5, <2>1 DEF EquipSearch, Goto, TypeOK
    <3>4. pc'[q] \notin Replies
      BY <3>3, BlockOrder DEF Replies
    <3> QED
      BY <1>q, <1>s, <3>1, <3>2, <3>4 DEF Knows, Replies
  <2>2. CASE ~(q = r /\ todo' = [todo EXCEPT ![r] = assets \ Untagged])
    <3>1. /\ answer' = answer /\ anyReturned' = anyReturned /\ ifsAnswer' = ifsAnswer
          /\ todo'[q] = todo[q]
      BY <1>5, <2>2 DEF EquipSearch, TypeOK
    <3>2. pc'[q] # pc[q] => pc'[q] \notin Replies
      BY <1>5, BlockOrder DEF EquipSearch, Goto, Replies, TypeOK
    <3> QED
      BY <1>k, <3>1, <3>2 DEF Quiet
  <2> QED
    BY <2>1, <2>2
<1>6. ASSUME NEW r \in Requests, TemplateFetch(r)
     PROVE  Knows(q)'
  BY <1>k, <1>6, LoopMovesOn, MovesOnQuiet DEF TemplateFetch
<1>7. ASSUME NEW r \in Requests, NEW a \in Assets, CheckinCall(r, a)
     PROVE  Knows(q)'
  <2>1. CASE q = r
    <3>1. /\ pc'[q] = "checkin_reply" /\ todo'[q] \subseteq todo[q] /\ a \in todo[q]
          /\ anyReturned' = anyReturned /\ ifsAnswer' = ifsAnswer
      BY <1>7, <2>1 DEF CheckinCall, Goto, TypeOK
    <3>2. answer'[q] = "ok" => Warranted(q, EQUIPMENT)'
      BY <1>q, <1>7, <2>1, <3>1 DEF CheckinCall, Knows, Warranted, Out, TypeOK
    <3>3. /\ todo'[q] \subseteq Assets \ Untagged
          /\ anyReturned'[q] => Warranted(q, EQUIPMENT)'
          /\ \A e \in Envs : ifsAnswer'[q][e] = "ok" => ~active'[e]
      BY <1>q, <1>s, <3>1 DEF Knows
    <3> QED
      BY <3>1, <3>2, <3>3 DEF Knows
  <2>2. CASE q # r
    <3>1. /\ pc'[q] = pc[q] /\ answer'[q] = answer[q] /\ todo'[q] = todo[q]
          /\ anyReturned' = anyReturned /\ ifsAnswer' = ifsAnswer
      BY <1>7, <2>2 DEF CheckinCall, Goto, TypeOK
    <3> QED
      BY <1>k, <3>1 DEF Quiet
  <2> QED
    BY <2>1, <2>2
<1>8. ASSUME NEW r \in Requests, CheckinAudit(r)
     PROVE  Knows(q)'
  <2>1. PICK point \in Points \ Replies : pc' = [pc EXCEPT ![r] = point]
    BY <1>8, LoopMovesOn DEF MovesOn, Goto
  <2>2. todo' = todo /\ ifsAnswer' = ifsAnswer /\ answer' = answer /\ external' = external
    BY <1>8 DEF CheckinAudit
  <2>3. CASE q = r
    <3>1. pc'[q] \notin Replies
      BY <2>1, <2>3 DEF TypeOK
    <3>2. anyReturned'[q] => Warranted(q, EQUIPMENT)
      BY <1>q, <1>8, <2>3 DEF CheckinAudit, Knows, TypeOK
    <3> QED
      BY <1>q, <1>s, <2>2, <3>1, <3>2 DEF Knows, Replies
  <2>4. CASE q # r
    <3>1. pc'[q] = pc[q] /\ anyReturned'[q] = anyReturned[q]
      BY <1>8, <2>1, <2>4 DEF CheckinAudit, TypeOK
    <3> QED
      BY <1>k, <2>2, <3>1 DEF Quiet
  <2> QED
    BY <2>3, <2>4
<1>9. ASSUME NEW r \in Requests, InTouchCall(r)
     PROVE  Knows(q)'
  <2>1. CASE q = r
    <3>1. /\ pc'[q] = "intouch_reply" /\ todo' = todo
          /\ anyReturned' = anyReturned /\ ifsAnswer' = ifsAnswer
      BY <1>9, <2>1 DEF InTouchCall, Goto, TypeOK
    <3>2. answer'[q] = "ok" => Out(INTOUCH)'
      BY <1>9, <2>1 DEF InTouchCall, Out, TypeOK, Accounts
    <3> QED
      BY <1>q, <1>s, <3>1, <3>2 DEF Knows
  <2>2. CASE q # r
    <3>1. /\ pc'[q] = pc[q] /\ answer'[q] = answer[q] /\ todo'[q] = todo[q]
          /\ anyReturned' = anyReturned /\ ifsAnswer' = ifsAnswer
      BY <1>9, <2>2 DEF InTouchCall, Goto, TypeOK
    <3> QED
      BY <1>k, <3>1 DEF Quiet
  <2> QED
    BY <2>1, <2>2
<1>10. ASSUME NEW r \in Requests, InTouchAudit(r)
     PROVE  Knows(q)'
  BY <1>k, <1>10, LoopMovesOn, MovesOnQuiet DEF InTouchAudit
<1>11. ASSUME NEW r \in Requests, NEW e \in Envs, IfsDisable(r, e)
     PROVE  Knows(q)'
  <2>1. CASE q = r
    <3>1. /\ pc' = pc /\ pc[q] = IFS /\ todo' = todo /\ anyReturned' = anyReturned
      BY <1>11, <2>1 DEF IfsDisable
    <3>2. \A f \in Envs : ifsAnswer'[q][f] = "ok" => ~active'[f]
      <4>1. PICK reply \in {"ok", "fail"} : ifsAnswer' = [ifsAnswer EXCEPT ![r][e] = reply]
        BY <1>11 DEF IfsDisable
      <4>2. \A f \in Envs \ {e} : ifsAnswer'[q][f] = ifsAnswer[q][f]
        BY <2>1, <4>1 DEF TypeOK
      <4>3. ifsAnswer'[q][e] = "ok" => ~active'[e]
        BY <1>11, <2>1 DEF IfsDisable, TypeOK, Accounts
      <4> QED
        BY <1>q, <1>s, <4>2, <4>3 DEF Knows
    <3> QED
      BY <1>q, <1>s, <3>1, <3>2 DEF Knows
  <2> QED
    BY <1>k, <1>11, <2>1 DEF IfsDisable, Quiet, Replies, Goto, TypeOK
<1>12. ASSUME NEW r \in Requests, IfsAudit(r)
     PROVE  Knows(q)'
  BY <1>k, <1>12, LoopMovesOn, MovesOnQuiet DEF IfsAudit
<1>13. ASSUME NEW r \in Requests, AdSearch(r)
     PROVE  Knows(q)'
  <2>1. CASE q = r /\ pc'[q] = "ad_reply"
    <3>1. /\ todo' = todo /\ anyReturned' = anyReturned /\ ifsAnswer' = ifsAnswer
      BY <1>13, <2>1 DEF AdSearch
    <3>2. answer'[q] \in {"ok", "already"} => Out(NETWORK)
      BY <1>13, <2>1 DEF AdSearch, Goto, Out, TypeOK
    <3> QED
      BY <1>q, <1>s, <2>1, <3>1, <3>2 DEF Knows
  <2> QED
    BY <1>k, <1>13, <2>1 DEF AdSearch, Quiet, Replies, Goto, TypeOK
<1>14. ASSUME NEW r \in Requests, AdWrite(r)
     PROVE  Knows(q)'
  <2>1. CASE q = r
    <3>1. /\ pc'[q] = "ad_reply" /\ todo' = todo
          /\ anyReturned' = anyReturned /\ ifsAnswer' = ifsAnswer
      BY <1>14, <2>1 DEF AdWrite, Goto, TypeOK
    <3>2. answer'[q] \in {"ok", "already"} => Out(NETWORK)'
      BY <1>14, <2>1 DEF AdWrite, Out, TypeOK, Accounts
    <3> QED
      BY <1>q, <1>s, <3>1, <3>2 DEF Knows
  <2>2. CASE q # r
    <3>1. /\ pc'[q] = pc[q] /\ answer'[q] = answer[q] /\ todo'[q] = todo[q]
          /\ anyReturned' = anyReturned /\ ifsAnswer' = ifsAnswer
      BY <1>14, <2>2 DEF AdWrite, Goto, TypeOK
    <3> QED
      BY <1>k, <3>1 DEF Quiet
  <2> QED
    BY <2>1, <2>2
<1>15. ASSUME NEW r \in Requests, AdAudit(r)
     PROVE  Knows(q)'
  BY <1>k, <1>15, LoopMovesOn, MovesOnQuiet DEF AdAudit
<1>16. ASSUME NEW r \in Requests, PersistRecord(r)
     PROVE  Knows(q)'
  BY <1>k, <1>16, LoopMovesOn, MovesOnQuiet DEF PersistRecord
<1>17. ASSUME NEW r \in Requests, Reply(r)
     PROVE  Knows(q)'
  BY <1>k, <1>17, LoopMovesOn, MovesOnQuiet DEF Reply
<1>18. ASSUME NEW r \in Requests, SendEmail(r)
     PROVE  Knows(q)'
  BY <1>k, <1>18 DEF SendEmail, Quiet, Replies, Goto, local, TypeOK
<1>19. ASSUME Crash
     PROVE  Knows(q)'
  BY <1>k, <1>19 DEF Crash, Quiet, Replies, local, TypeOK
<1>20. ASSUME ManualActivateInTouch
     PROVE  Knows(q)'
  BY <1>k, <1>20 DEF ManualActivateInTouch, Quiet, Replies, Goto, local, TypeOK
<1>21. ASSUME NEW a \in {INTOUCH, NETWORK}, ManualDisable(a)
     PROVE  Knows(q)'
  BY <1>k, <1>21 DEF ManualDisable, Quiet, Replies, Goto, local, TypeOK
<1>22. ASSUME NEW a \in Assets, ManualCheckin(a)
     PROVE  Knows(q)'
  BY <1>k, <1>22 DEF ManualCheckin, Quiet, Replies, Goto, local, TypeOK
<1>23. CASE UNCHANGED served
  BY <1>k, <1>23 DEF served, external, Quiet, local
<1> QED
  BY <1>1, <1>2, <1>3, <1>4, <1>5, <1>6, <1>7, <1>8, <1>9, <1>10, <1>11,
   <1>12, <1>13, <1>14, <1>15, <1>16, <1>17, <1>18, <1>19, <1>20, <1>21,
   <1>22, <1>23
  DEF Next, RequestStep, LoopStep, HttpStep, LdapStep, Environment, DirectoryHangs, vars

-----------------------------------------------------------------------------
(* Claims and rows *)

\* The terms' template is no reason to claim or to write anything.
LEMMA TemplateWrites ==
    ASSUME TypeOK, NEW r \in Requests, TemplateFetch(r)
    PROVE  UNCHANGED <<revoked, audit>>
BY DEF TemplateFetch, NextAsset, Claimed, Abort, TypeOK

\* Only the end of a use case claims a system or writes a row.
LEMMA WhoWrites ==
    ASSUME TypeOK, [Next]_vars
    PROVE  \/ UNCHANGED <<revoked, audit>>
           \/ \E r \in Requests : CheckinAudit(r) \/ InTouchAudit(r) \/ IfsAudit(r) \/ AdAudit(r)
BY TemplateWrites
DEF Next, RequestStep, LoopStep, HttpStep, LdapStep, Environment, vars, served, stored,
    DirectoryHangs, Locate, Lookup, VerifyTimeout, VerifyDone, EquipSearch, CheckinCall, InTouchCall,
    IfsDisable, AdSearch, AdWrite, PersistRecord, Reply, SendEmail, Crash,
    ManualActivateInTouch, ManualDisable, ManualCheckin

\* What request r claims of system s and writes about it in one step.
Writes(r, s, claims, rows) ==
    /\ revoked' = [revoked EXCEPT ![r] = @ \cup claims]
    /\ audit' = [audit EXCEPT ![r] = @ \cup rows]
    /\ claims \subseteq {s}
    /\ rows \subseteq {<<s, SUCCESS>>, <<s, FAILED>>}
    /\ s \in claims \/ <<s, SUCCESS>> \in rows => Warranted(r, s)

WritesSound(r) ==
    \E s \in Claimable : \E claims, rows : Writes(r, s, claims, rows)

\* A use case whose success flag is true only if the employee is out writes what is so.
LEMMA UseCaseSound ==
    ASSUME TypeOK, NEW r \in Requests, NEW s \in Claimable, NEW success \in BOOLEAN,
           success => Warranted(r, s), NEW status \in Statuses(r, success), Log(r, s, status),
           revoked' = [revoked EXCEPT ![r] = Claimed(r, s, status = SUCCESS)]
    PROVE  WritesSound(r)
<1>1. status \in {SUCCESS, FAILED} /\ (status = SUCCESS => Warranted(r, s))
  BY StatusesSound
<1>2. CASE status = SUCCESS
  <2>1. Writes(r, s, {s}, {<<s, status>>})
    BY <1>1, <1>2 DEF Writes, Claimed, Log, TypeOK
  <2> QED
    BY <2>1 DEF WritesSound
<1>3. CASE status = FAILED
  <2>1. Writes(r, s, {}, {<<s, status>>})
    BY <1>3 DEF Writes, Claimed, Log, TypeOK
  <2> QED
    BY <2>1 DEF WritesSound
<1> QED
  BY <1>1, <1>2, <1>3

\* A step that ends in an exception claims nothing and writes nothing.
LEMMA NothingWritten ==
    ASSUME TypeOK, NEW r \in Requests, UNCHANGED <<revoked, audit>>
    PROVE  WritesSound(r)
<1>1. NETWORK \in Claimable /\ Writes(r, NETWORK, {}, {})
  BY DEF Claimable, Systems, Writes, TypeOK
<1> QED
  BY <1>1 DEF WritesSound

\* What the end of a use case claims and writes is true at that moment.
LEMMA UseCasesSound ==
    ASSUME TypeOK, AllKnow, NEW r \in Requests,
           CheckinAudit(r) \/ InTouchAudit(r) \/ IfsAudit(r) \/ AdAudit(r)
    PROVE  WritesSound(r)
<1>k. Knows(r)
  BY DEF AllKnow
<1>c. {EQUIPMENT, INTOUCH, IFS, NETWORK} \subseteq Claimable
  BY DEF Claimable, Systems
<1>0. CASE Abort(r)
  BY <1>0, NothingWritten DEF Abort
<1>1. CASE CheckinAudit(r)
  <2> DEFINE ok  == answer[r] = "ok"
             any == anyReturned[r] \/ ok
  <2>1. ASSUME NEW status \in Statuses(r, ok), Log(r, EQUIPMENT, status),
               NextAsset(r, todo[r], any), pc[r] = "checkin_reply"
        PROVE  WritesSound(r)
    <3>1. /\ ok \in BOOLEAN /\ (ok => Warranted(r, EQUIPMENT))
          /\ any \in BOOLEAN /\ (any => Warranted(r, EQUIPMENT))
      BY <1>k, <2>1 DEF Knows, TypeOK
    <3> HIDE DEF ok, any
    <3>2. status \in {SUCCESS, FAILED} /\ (status = SUCCESS => Warranted(r, EQUIPMENT))
      BY <2>1, <3>1, StatusesSound
    <3>3. PICK claims \in SUBSET {EQUIPMENT} :
             /\ revoked' = [revoked EXCEPT ![r] = @ \cup claims]
             /\ claims # {} => any
      <4>1. CASE revoked' = revoked
        BY <4>1 DEF TypeOK
      <4>2. CASE revoked' = [revoked EXCEPT ![r] = Claimed(r, EQUIPMENT, any)] /\ any
        BY <4>2 DEF Claimed
      <4>3. CASE revoked' = [revoked EXCEPT ![r] = Claimed(r, EQUIPMENT, any)] /\ ~any
        BY <4>1, <4>3 DEF Claimed, TypeOK
      <4> QED
        BY <2>1, <4>1, <4>2, <4>3 DEF NextAsset
    <3>4. Writes(r, EQUIPMENT, claims, {<<EQUIPMENT, status>>})
      BY <2>1, <3>1, <3>2, <3>3 DEF Writes, Log
    <3> QED
      BY <1>c, <3>4 DEF WritesSound
  <2> QED
    BY <1>0, <1>1, <2>1 DEF CheckinAudit
<1>2. CASE InTouchAudit(r)
  BY <1>0, <1>2, <1>k, <1>c, UseCaseSound DEF InTouchAudit, Knows, Warranted
<1>3. CASE IfsAudit(r)
  <2>1. IfsSuccess(r) \in BOOLEAN /\ (IfsSuccess(r) => Warranted(r, IFS))
    BY <1>k DEF IfsSuccess, Knows, Out, Warranted
  <2> QED
    BY <1>0, <1>3, <1>c, <2>1, UseCaseSound DEF IfsAudit
<1>4. CASE AdAudit(r)
  <2>1. answer[r] \in {"ok", "already"} => Warranted(r, NETWORK)
    BY <1>4, <1>k DEF AdAudit, Knows, Warranted
  <2>2. CASE /\ answer[r] = "already"
             /\ revoked' = [revoked EXCEPT ![r] = @ \cup {NETWORK}]
             /\ UNCHANGED audit
    <3>1. Writes(r, NETWORK, {NETWORK}, {})
      BY <2>1, <2>2 DEF Writes, TypeOK
    <3> QED
      BY <1>c, <3>1 DEF WritesSound
  <2>3. ASSUME NEW status \in Statuses(r, answer[r] = "ok"), Log(r, NETWORK, status),
               revoked' = [revoked EXCEPT ![r] = Claimed(r, NETWORK, status = SUCCESS)]
        PROVE  WritesSound(r)
    BY <1>c, <2>1, <2>3, UseCaseSound
  <2> QED
    BY <1>0, <1>4, <2>2, <2>3 DEF AdAudit
<1> QED
  BY <1>1, <1>2, <1>3, <1>4

Claims == \A r \in Requests : \A s \in revoked'[r] \ revoked[r] : Warranted(r, s)

\* A system enters successfully_revoked only while the employee is out of it,
\* whatever the other requests, the manual endpoints and crashes do; equipment also
\* when Snipe-IT refused the very request a check-in with status 200.
THEOREM ClaimsAreJustified == Spec => ClaimJustified
<1>1. TypeOK /\ AllKnow /\ [Next]_vars => [Claims]_vars
  <2> SUFFICES ASSUME TypeOK, AllKnow, [Next]_vars,
                      NEW q \in Requests, NEW s \in revoked'[q] \ revoked[q]
               PROVE  Warranted(q, s)
    BY DEF Claims
  <2>1. PICK r \in Requests : CheckinAudit(r) \/ InTouchAudit(r) \/ IfsAudit(r) \/ AdAudit(r)
    BY WhoWrites
  <2>2. PICK t \in Claimable : \E claims, rows : Writes(r, t, claims, rows)
    BY <2>1, UseCasesSound DEF WritesSound
  <2>3. PICK claims, rows : Writes(r, t, claims, rows)
    BY <2>2
  <2>4. q = r /\ s = t /\ t \in claims
    BY <2>3 DEF Writes, TypeOK
  <2> QED
    BY <2>3, <2>4 DEF Writes
<1>2. Spec => [](TypeOK /\ AllKnow)
  BY TypeCorrect, KnowsInit, KnowsStep, PTL DEF Spec
<1>3. [](TypeOK /\ AllKnow) /\ [][Next]_vars => [][Claims]_vars
  BY <1>1, PTL
<1> QED
  BY <1>2, <1>3, PTL DEF Spec, ClaimJustified, Claims

\* The audit trail never says SUCCESS of a system the employee is still in, and
\* no later step makes it say so; only the equipment rows of a request that was
\* refused a check-in with status 200 may be false.
THEOREM AuditIsTrue == Spec => []AuditTruth
<1>1. Init => AuditTruth
  BY DEF Init, AuditTruth
<1>2. TypeOK /\ AllKnow /\ AuditTruth /\ [Next]_vars => AuditTruth'
  <2> SUFFICES ASSUME TypeOK, AllKnow, AuditTruth, [Next]_vars, TypeOK', NEW q \in Requests,
                      NEW s \in Systems \ {INTOUCH}, <<s, SUCCESS>> \in audit'[q]
               PROVE  Warranted(q, s)'
    BY TypeStep DEF AuditTruth
  <2>1. s \in {EQUIPMENT, IFS, NETWORK}
    BY DEF TypeOK, Systems
  <2>2. Warranted(q, s)
    <3>1. CASE <<s, SUCCESS>> \in audit[q]
      BY <3>1 DEF AuditTruth
    <3>2. CASE <<s, SUCCESS>> \notin audit[q]
      <4>1. PICK r \in Requests :
               CheckinAudit(r) \/ InTouchAudit(r) \/ IfsAudit(r) \/ AdAudit(r)
        BY <3>2, WhoWrites
      <4>2. PICK t \in Claimable : \E claims, rows : Writes(r, t, claims, rows)
        BY <4>1, UseCasesSound DEF WritesSound
      <4>3. PICK claims, rows : Writes(r, t, claims, rows)
        BY <4>2
      <4>4. q = r /\ <<s, SUCCESS>> \in rows
        BY <3>2, <4>3 DEF Writes, TypeOK
      <4>5. s = t
        BY <4>3, <4>4 DEF Writes
      <4> QED
        BY <4>3, <4>4, <4>5 DEF Writes
    <3> QED
      BY <3>1, <3>2
  <2> QED
    BY <2>1, <2>2, WarrantStays
<1>3. Spec => [](TypeOK /\ AllKnow)
  BY TypeCorrect, KnowsInit, KnowsStep, PTL DEF Spec
<1> QED
  BY <1>1, <1>2, <1>3, PTL DEF Spec

-----------------------------------------------------------------------------
(* Nothing is dropped silently *)

\* Claims and audit rows only accumulate.
LEMMA Accumulates ==
    ASSUME TypeOK, AllKnow, [Next]_vars, NEW q \in Requests
    PROVE  revoked[q] \subseteq revoked'[q] /\ audit[q] \subseteq audit'[q]
<1>1. CASE UNCHANGED <<revoked, audit>>
  BY <1>1
<1>2. ASSUME NEW r \in Requests,
             CheckinAudit(r) \/ InTouchAudit(r) \/ IfsAudit(r) \/ AdAudit(r)
      PROVE  revoked[q] \subseteq revoked'[q] /\ audit[q] \subseteq audit'[q]
  <2>1. PICK s \in Claimable : \E claims, rows : Writes(r, s, claims, rows)
    BY <1>2, UseCasesSound DEF WritesSound
  <2>2. PICK claims, rows : Writes(r, s, claims, rows)
    BY <2>1
  <2> QED
    BY <2>2 DEF Writes, TypeOK
<1> QED
  BY <1>1, <1>2, WhoWrites

\* The points a request reaches only after the block of a system, if it had one.
PastNetwork == {"record", "reply", "responded"}
PastIfs     == {NETWORK, "ad_write", "ad_reply"} \cup PastNetwork
PastInTouch == {IFS} \cup PastIfs

\* System s is accounted for by request r.
Done(r, s) == s \in revoked[r] \/ <<s, FAILED>> \in audit[r]

\* Every block behind a request has left its system accounted for.
Accounted(r) ==
    /\ pc[r] \in PastInTouch /\ INTOUCH \in servicesMap[r] => Done(r, INTOUCH)
    /\ pc[r] \in PastIfs /\ IFS \in servicesMap[r] => Done(r, IFS)
    /\ pc[r] \in PastNetwork /\ NETWORK \in servicesMap[r] => Done(r, NETWORK)

\* Going to `point' passes no block of a system of the map.
PassesNone(point, map) ==
    /\ point \in PastInTouch => INTOUCH \notin map
    /\ point \in PastIfs => IFS \notin map
    /\ point \in PastNetwork => NETWORK \notin map

\* The chain of blocks passes over a system only if the map does not hold it.
LEMMA ChainPassesNone ==
    ASSUME NEW map, NEW claimed
    PROVE  /\ PassesNone(FirstBlock(map), map)
           /\ PassesNone(AfterEquipment(map, claimed), map)
           /\ LET p == AfterInTouch(map, claimed)
              IN  /\ p \in PastIfs => IFS \notin map
                  /\ p \in PastNetwork => NETWORK \notin map
           /\ AfterIfs(map, claimed) \in PastNetwork => NETWORK \notin map
<1> USE DEF PastNetwork, PastIfs, PastInTouch, AfterNetwork
<1>1. AfterIfs(map, claimed) \in PastNetwork => NETWORK \notin map
  BY DEF AfterIfs
<1>2. LET p == AfterInTouch(map, claimed)
      IN  /\ p \in PastIfs => IFS \notin map
          /\ p \in PastNetwork => NETWORK \notin map
  BY DEF AfterInTouch, AfterIfs
<1>3. ASSUME NEW c PROVE PassesNone(AfterEquipment(map, c), map)
  BY DEF PassesNone, AfterEquipment, AfterInTouch, AfterIfs
<1>4. PassesNone(FirstBlock(map), map)
  BY <1>3 DEF PassesNone, FirstBlock
<1> QED
  BY <1>1, <1>2, <1>3, <1>4

\* A use case that writes its row leaves its system accounted for.
LEMMA UseCaseDone ==
    ASSUME TypeOK, NEW r \in Requests, NEW s, NEW status \in {SUCCESS, FAILED},
           Log(r, s, status), revoked' = [revoked EXCEPT ![r] = Claimed(r, s, status = SUCCESS)]
    PROVE  Done(r, s)'
BY DEF Done, Log, Claimed, TypeOK

\* A step that takes q past no block keeps what q has accounted for.
LEMMA StayAccounted ==
    ASSUME TypeOK, AllKnow, [Next]_vars, NEW q \in Requests, Accounted(q),
           servicesMap'[q] = servicesMap[q],
           \/ PassesNone(pc'[q], servicesMap[q])
           \/ /\ pc'[q] \in PastInTouch => pc[q] \in PastInTouch
              /\ pc'[q] \in PastIfs => pc[q] \in PastIfs
              /\ pc'[q] \in PastNetwork => pc[q] \in PastNetwork
    PROVE  Accounted(q)'
<1>1. \A s : Done(q, s) => Done(q, s)'
  BY Accumulates DEF Done
<1> QED
  BY <1>1 DEF Accounted, PassesNone

\* The same, of a step of r that goes to `point'.
LEMMA GotoAccounted ==
    ASSUME TypeOK, AllKnow, [Next]_vars, NEW r \in Requests, NEW q \in Requests,
           Accounted(q), servicesMap' = servicesMap, NEW point, Goto(r, point),
           \/ PassesNone(point, servicesMap[r])
           \/ /\ point \in PastInTouch => pc[r] \in PastInTouch
              /\ point \in PastIfs => pc[r] \in PastIfs
              /\ point \in PastNetwork => pc[r] \in PastNetwork
    PROVE  Accounted(q)'
<1>1. CASE q = r
  <2>1. pc'[q] = point
    BY <1>1 DEF Goto, TypeOK
  <2> QED
    BY <1>1, <2>1, StayAccounted
<1>2. CASE q # r
  <2>1. pc'[q] = pc[q]
    BY <1>2 DEF Goto, TypeOK
  <2> QED
    BY <2>1, StayAccounted
<1> QED
  BY <1>1, <1>2

\* An exception passes no block.
LEMMA AbortAccounted ==
    ASSUME TypeOK, AllKnow, [Next]_vars, NEW r \in Requests, NEW q \in Requests,
           Accounted(q), servicesMap' = servicesMap, Abort(r)
    PROVE  Accounted(q)'
<1>1. PassesNone("error", servicesMap[r])
  BY DEF PassesNone, PastNetwork, PastIfs, PastInTouch
<1> QED
  BY <1>1, GotoAccounted DEF Abort

AllAccounted == \A q \in Requests : Accounted(q)

\* Every step keeps every request's account.
LEMMA AccountedStep == TypeOK /\ AllKnow /\ AllAccounted /\ [Next]_vars => AllAccounted'
<1> SUFFICES ASSUME TypeOK, AllKnow, AllAccounted, [Next]_vars, NEW q \in Requests
             PROVE  Accounted(q)'
  BY DEF AllAccounted
<1>q. Accounted(q)
  BY DEF AllAccounted
<1>1. ASSUME NEW r \in Requests, Locate(r)
     PROVE  Accounted(q)'
  <2>1. PICK point \in {"verify", "error"} : Goto(r, point)
    BY <1>1 DEF Locate
  <2>2. PassesNone(point, servicesMap[r])
    BY DEF PassesNone, PastNetwork, PastIfs, PastInTouch
  <2> QED
    BY <1>q, <1>1, <2>1, <2>2, GotoAccounted DEF Locate
<1>2. ASSUME NEW r \in Requests, NEW s \in LookedUp, Lookup(r, s)
     PROVE  Accounted(q)'
  <2>1. CASE q = r
    BY <1>2, <2>1 DEF Lookup, Accounted, PastNetwork, PastIfs, PastInTouch
  <2>2. CASE q # r
    <3>1. servicesMap'[q] = servicesMap[q] /\ pc' = pc
      BY <1>2, <2>2 DEF Lookup, TypeOK
    <3> QED
      BY <1>q, <3>1, StayAccounted
  <2> QED
    BY <2>1, <2>2
<1>3. ASSUME NEW r \in Requests, VerifyTimeout(r)
     PROVE  Accounted(q)'
  <2>1. PassesNone("timeout", servicesMap[r])
    BY DEF PassesNone, PastNetwork, PastIfs, PastInTouch
  <2> QED
    BY <1>q, <1>3, <2>1, GotoAccounted DEF VerifyTimeout, local
<1>4. ASSUME NEW r \in Requests, VerifyDone(r)
     PROVE  Accounted(q)'
  BY <1>q, <1>4, ChainPassesNone, GotoAccounted DEF VerifyDone, local
<1>5. ASSUME NEW r \in Requests, EquipSearch(r)
     PROVE  Accounted(q)'
  <2>1. PassesNone("template", servicesMap[r])
    BY DEF PassesNone, PastNetwork, PastIfs, PastInTouch
  <2> QED
    BY <1>q, <1>5, <2>1, ChainPassesNone, GotoAccounted DEF EquipSearch
<1>6. ASSUME NEW r \in Requests, TemplateFetch(r)
     PROVE  Accounted(q)'
  <2>1. PassesNone("checkin", servicesMap[r])
    BY DEF PassesNone, PastNetwork, PastIfs, PastInTouch
  <2>2. servicesMap' = servicesMap
    BY <1>6 DEF TemplateFetch, local
  <2>3. CASE Abort(r)
    BY <1>q, <2>2, <2>3, AbortAccounted
  <2>4. CASE NextAsset(r, todo[r], FALSE)
    BY <1>q, <2>1, <2>2, <2>4, ChainPassesNone, GotoAccounted DEF NextAsset
  <2> QED
    BY <1>6, <2>3, <2>4 DEF TemplateFetch
<1>7. ASSUME NEW r \in Requests, NEW a \in Assets, CheckinCall(r, a)
     PROVE  Accounted(q)'
  <2>1. PassesNone("checkin_reply", servicesMap[r])
    BY DEF PassesNone, PastNetwork, PastIfs, PastInTouch
  <2> QED
    BY <1>q, <1>7, <2>1, GotoAccounted DEF CheckinCall, local
<1>8. ASSUME NEW r \in Requests, CheckinAudit(r)
     PROVE  Accounted(q)'
  <2>1. PassesNone("checkin", servicesMap[r])
    BY DEF PassesNone, PastNetwork, PastIfs, PastInTouch
  <2>2. servicesMap' = servicesMap
    BY <1>8 DEF CheckinAudit
  <2>3. CASE Abort(r)
    BY <1>q, <2>2, <2>3, AbortAccounted
  <2>4. ASSUME NEW any, NextAsset(r, todo[r], any) PROVE Accounted(q)'
    BY <1>q, <2>1, <2>2, <2>4, ChainPassesNone, GotoAccounted DEF NextAsset
  <2> QED
    BY <1>8, <2>3, <2>4 DEF CheckinAudit
<1>9. ASSUME NEW r \in Requests, InTouchCall(r)
     PROVE  Accounted(q)'
  <2>1. PassesNone("intouch_reply", servicesMap[r])
    BY DEF PassesNone, PastNetwork, PastIfs, PastInTouch
  <2> QED
    BY <1>q, <1>9, <2>1, GotoAccounted DEF InTouchCall, local
<1>10. ASSUME NEW r \in Requests, InTouchAudit(r)
     PROVE  Accounted(q)'
  <2>1. servicesMap' = servicesMap
    BY <1>10 DEF InTouchAudit, local
  <2>2. CASE Abort(r)
    BY <1>q, <2>1, <2>2, AbortAccounted
  <2>3. ASSUME NEW status \in Statuses(r, answer[r] = "ok"), Log(r, INTOUCH, status),
               revoked' = [revoked EXCEPT ![r] = Claimed(r, INTOUCH, status = SUCCESS)],
               Goto(r, AfterInTouch(servicesMap[r], Claimed(r, INTOUCH, status = SUCCESS)))
        PROVE  Accounted(q)'
    <3>1. status \in {SUCCESS, FAILED}
      BY StatusesSound
    <3>2. Done(r, INTOUCH)'
      BY <2>3, <3>1, UseCaseDone
    <3>3. CASE q = r
      <4>1. pc'[q] = AfterInTouch(servicesMap[r], Claimed(r, INTOUCH, status = SUCCESS))
        BY <2>3, <3>3 DEF Goto, TypeOK
      <4>2. \A s : Done(q, s) => Done(q, s)'
        BY Accumulates DEF Done
      <4> QED
        BY <1>q, <2>1, <3>2, <3>3, <4>1, <4>2, ChainPassesNone DEF Accounted
    <3>4. CASE q # r
      <4>1. pc'[q] = pc[q]
        BY <2>3, <3>4 DEF Goto, TypeOK
      <4> QED
        BY <1>q, <2>1, <4>1, StayAccounted
    <3> QED
      BY <3>3, <3>4
  <2> QED
    BY <1>10, <2>2, <2>3 DEF InTouchAudit
<1>11. ASSUME NEW r \in Requests, NEW e \in Envs, IfsDisable(r, e)
     PROVE  Accounted(q)'
  BY <1>q, <1>11, StayAccounted DEF IfsDisable
<1>12. ASSUME NEW r \in Requests, IfsAudit(r)
     PROVE  Accounted(q)'
  <2>1. servicesMap' = servicesMap
    BY <1>12 DEF IfsAudit, local
  <2>2. CASE Abort(r)
    BY <1>q, <2>1, <2>2, AbortAccounted
  <2>3. ASSUME NEW status \in Statuses(r, IfsSuccess(r)), Log(r, IFS, status),
               revoked' = [revoked EXCEPT ![r] = Claimed(r, IFS, status = SUCCESS)],
               Goto(r, AfterIfs(servicesMap[r], Claimed(r, IFS, status = SUCCESS)))
        PROVE  Accounted(q)'
    <3>1. status \in {SUCCESS, FAILED}
      BY StatusesSound DEF IfsSuccess
    <3>2. Done(r, IFS)'
      BY <2>3, <3>1, UseCaseDone
    <3>3. CASE q = r
      <4>1. pc'[q] = AfterIfs(servicesMap[r], Claimed(r, IFS, status = SUCCESS))
        BY <2>3, <3>3 DEF Goto, TypeOK
      <4>2. \A s : Done(q, s) => Done(q, s)'
        BY Accumulates DEF Done
      <4>3. pc[r] \in PastInTouch
        BY <1>12 DEF IfsAudit, PastNetwork, PastIfs, PastInTouch
      <4> QED
        BY <1>q, <2>1, <3>2, <3>3, <4>1, <4>2, <4>3, ChainPassesNone DEF Accounted
    <3>4. CASE q # r
      <4>1. pc'[q] = pc[q]
        BY <2>3, <3>4 DEF Goto, TypeOK
      <4> QED
        BY <1>q, <2>1, <4>1, StayAccounted
    <3> QED
      BY <3>3, <3>4
  <2> QED
    BY <1>12, <2>2, <2>3 DEF IfsAudit
<1>13. ASSUME NEW r \in Requests, AdSearch(r)
     PROVE  Accounted(q)'
  <2>1. PICK point \in {"ad_reply", "ad_write"} : Goto(r, point)
    BY <1>13 DEF AdSearch
  <2>2. /\ point \in PastInTouch => pc[r] \in PastInTouch
        /\ point \in PastIfs => pc[r] \in PastIfs
        /\ point \in PastNetwork => pc[r] \in PastNetwork
    BY <1>13 DEF AdSearch, PastNetwork, PastIfs, PastInTouch
  <2> QED
    BY <1>q, <1>13, <2>1, <2>2, GotoAccounted DEF AdSearch
<1>14. ASSUME NEW r \in Requests, AdWrite(r)
     PROVE  Accounted(q)'
  <2>1. PICK point \in {"ad_reply"} : Goto(r, point)
    BY <1>14 DEF AdWrite
  <2>2. /\ point \in PastInTouch => pc[r] \in PastInTouch
        /\ point \in PastIfs => pc[r] \in PastIfs
        /\ point \in PastNetwork => pc[r] \in PastNetwork
    BY <1>14 DEF AdWrite, PastNetwork, PastIfs, PastInTouch
  <2> QED
    BY <1>q, <1>14, <2>1, <2>2, GotoAccounted DEF AdWrite
<1>15. ASSUME NEW r \in Requests, AdAudit(r)
     PROVE  Accounted(q)'
  <2>1. servicesMap' = servicesMap
    BY <1>15 DEF AdAudit, local
  <2>2. CASE Abort(r)
    BY <1>q, <2>1, <2>2, AbortAccounted
  <2>3. ASSUME NEW status \in Statuses(r, answer[r] = "ok"), Log(r, NETWORK, status),
               revoked' = [revoked EXCEPT ![r] = Claimed(r, NETWORK, status = SUCCESS)],
               Goto(r, AfterNetwork(Claimed(r, NETWORK, status = SUCCESS)))
        PROVE  Accounted(q)'
    <3>1. status \in {SUCCESS, FAILED}
      BY StatusesSound
    <3>2. Done(r, NETWORK)'
      BY <2>3, <3>1, UseCaseDone
    <3>3. CASE q = r
      <4>1. pc'[q] = AfterNetwork(Claimed(r, NETWORK, status = SUCCESS))
        BY <2>3, <3>3 DEF Goto, TypeOK
      <4>2. \A s : Done(q, s) => Done(q, s)'
        BY Accumulates DEF Done
      <4>3. pc[r] \in PastIfs /\ pc[r] \in PastInTouch
        BY <1>15 DEF AdAudit, PastNetwork, PastIfs, PastInTouch
      <4> QED
        BY <1>q, <2>1, <3>2, <3>3, <4>1, <4>2, <4>3, ChainPassesNone DEF Accounted
    <3>4. CASE q # r
      <4>1. pc'[q] = pc[q]
        BY <2>3, <3>4 DEF Goto, TypeOK
      <4> QED
        BY <1>q, <2>1, <4>1, StayAccounted
    <3> QED
      BY <3>3, <3>4
  <2>4. CASE /\ revoked' = [revoked EXCEPT ![r] = @ \cup {NETWORK}]
             /\ Goto(r, "record")
    <3>1. CASE q = r
      <4>1. Done(q, NETWORK)' /\ pc[q] \in PastIfs /\ pc[q] \in PastInTouch
        BY <1>15, <2>4, <3>1 DEF AdAudit, Done, PastIfs, PastInTouch, TypeOK
      <4>2. \A s : Done(q, s) => Done(q, s)'
        BY Accumulates DEF Done
      <4> QED
        BY <1>q, <2>1, <4>1, <4>2 DEF Accounted
    <3>2. CASE q # r
      <4>1. pc'[q] = pc[q]
        BY <2>4, <3>2 DEF Goto, TypeOK
      <4> QED
        BY <1>q, <2>1, <4>1, StayAccounted
    <3> QED
      BY <3>1, <3>2
  <2> QED
    BY <1>15, <2>2, <2>3, <2>4 DEF AdAudit
<1>16. ASSUME NEW r \in Requests, PersistRecord(r)
     PROVE  Accounted(q)'
  <2>1. PICK point \in {"reply", "error"} : Goto(r, point)
    BY <1>16 DEF PersistRecord
  <2>2. /\ point \in PastInTouch => pc[r] \in PastInTouch
        /\ point \in PastIfs => pc[r] \in PastIfs
        /\ point \in PastNetwork => pc[r] \in PastNetwork
    BY <1>16 DEF PersistRecord, PastNetwork, PastIfs, PastInTouch
  <2> QED
    BY <1>q, <1>16, <2>1, <2>2, GotoAccounted DEF PersistRecord, local
<1>17. ASSUME NEW r \in Requests, Reply(r)
     PROVE  Accounted(q)'
  <2>1. PICK point \in {"responded"} : Goto(r, point)
    BY <1>17 DEF Reply
  <2>2. /\ point \in PastInTouch => pc[r] \in PastInTouch
        /\ point \in PastIfs => pc[r] \in PastIfs
        /\ point \in PastNetwork => pc[r] \in PastNetwork
    BY <1>17 DEF Reply, PastNetwork, PastIfs, PastInTouch
  <2> QED
    BY <1>q, <1>17, <2>1, <2>2, GotoAccounted DEF Reply, local
<1>18. ASSUME NEW r \in Requests, SendEmail(r)
     PROVE  Accounted(q)'
  BY <1>q, <1>18, StayAccounted DEF SendEmail, local
<1>19. ASSUME Crash
     PROVE  Accounted(q)'
  <2>1. pc'[q] = pc[q] \/ pc'[q] = "lost"
    BY <1>19 DEF Crash
  <2>2. PassesNone("lost", servicesMap[q])
    BY DEF PassesNone, PastNetwork, PastIfs, PastInTouch
  <2> QED
    BY <1>q, <1>19, <2>1, <2>2, StayAccounted DEF Crash, local
<1>20. ASSUME ManualActivateInTouch
     PROVE  Accounted(q)'
  BY <1>q, <1>20, StayAccounted DEF ManualActivateInTouch, local
<1>21. ASSUME NEW a \in {INTOUCH, NETWORK}, ManualDisable(a)
     PROVE  Accounted(q)'
  BY <1>q, <1>21, StayAccounted DEF ManualDisable, local
<1>22. ASSUME NEW a \in Assets, ManualCheckin(a)
     PROVE  Accounted(q)'
  BY <1>q, <1>22, StayAccounted DEF ManualCheckin, local
<1>23. CASE UNCHANGED served
  BY <1>q, <1>23, StayAccounted DEF served, local
<1> QED
  BY <1>1, <1>2, <1>3, <1>4, <1>5, <1>6, <1>7, <1>8, <1>9, <1>10, <1>11,
     <1>12, <1>13, <1>14, <1>15, <1>16, <1>17, <1>18, <1>19, <1>20, <1>21,
     <1>22, <1>23
  DEF Next, RequestStep, LoopStep, HttpStep, LdapStep, Environment, DirectoryHangs, vars

\* A request that answered has every account its verification saw active among
\* the revoked ones or in a FAILED row, for any number of concurrent requests.
THEOREM NothingIsDropped == Spec => []NoSilentDrop
<1>1. Init => AllAccounted
  BY DEF Init, AllAccounted, Accounted, PastNetwork, PastIfs, PastInTouch
<1>2. TypeOK /\ AllAccounted => NoSilentDrop
  <2> SUFFICES ASSUME TypeOK, AllAccounted, NEW q \in Requests, pc[q] = "responded",
                      NEW s \in servicesMap[q] \ {EQUIPMENT}
               PROVE  Done(q, s)
    BY DEF NoSilentDrop, Done
  <2>1. s \in {NETWORK, INTOUCH, IFS}
    BY DEF TypeOK, Systems
  <2> QED
    BY <2>1 DEF AllAccounted, Accounted, PastNetwork, PastIfs, PastInTouch
<1>3. Spec => [](TypeOK /\ AllKnow)
  BY TypeCorrect, KnowsInit, KnowsStep, PTL DEF Spec
<1> QED
  BY <1>1, <1>2, <1>3, AccountedStep, PTL DEF Spec

-----------------------------------------------------------------------------
(* The record says no more than the audit trail *)

\* The points after the last use case.
Finishing == {"record", "reply"} \cup Ended

\* Every claim has its rows, and the record lists claims only.
Backed(r) ==
    /\ records[r] \subseteq revoked[r]
    /\ \A s \in {INTOUCH, IFS} : s \in revoked[r] => <<s, SUCCESS>> \in audit[r]
    /\ EQUIPMENT \in revoked[r] \/ (anyReturned[r] /\ pc[r] \notin Ended) =>
           \E status \in {SUCCESS, FAILED} : <<EQUIPMENT, status>> \in audit[r]
    /\ NETWORK \in revoked[r] =>
           /\ pc[r] \in Finishing
           /\ answer[r] = "already" \/ <<NETWORK, SUCCESS>> \in audit[r]

\* A step that claims nothing for q keeps its claims backed.
LEMMA StayBacked ==
    ASSUME TypeOK, AllKnow, [Next]_vars, NEW q \in Requests, Backed(q),
           revoked'[q] = revoked[q], records'[q] = records[q] \/ records'[q] = revoked[q],
           anyReturned'[q] = anyReturned[q],
           pc[q] \in Ended => pc'[q] \in Ended,
           pc[q] \in Finishing => pc'[q] \in Finishing /\ answer'[q] = answer[q]
    PROVE  Backed(q)'
<1>1. audit[q] \subseteq audit'[q]
  BY Accumulates
<1> QED
  BY <1>1 DEF Backed

\* The same, of a step of r at a point before the last.
LEMMA GotoBacked ==
    ASSUME TypeOK, AllKnow, [Next]_vars, NEW r \in Requests, NEW q \in Requests, Backed(q),
           NEW point, Goto(r, point), pc[r] \in Finishing => point \in Finishing,
           pc[r] \notin Ended,
           UNCHANGED <<revoked, records, anyReturned>>,
           answer' = answer \/ (pc[r] \notin Finishing /\ \A o \in Requests \ {r} : answer'[o] = answer[o])
    PROVE  Backed(q)'
<1>1. CASE q = r
  <2>1. pc'[q] = point
    BY <1>1 DEF Goto, TypeOK
  <2> QED
    BY <1>1, <2>1, StayBacked
<1>2. CASE q # r
  <2>1. pc'[q] = pc[q] /\ answer'[q] = answer[q]
    BY <1>2 DEF Goto, TypeOK
  <2> QED
    BY <2>1, StayBacked
<1> QED
  BY <1>1, <1>2

\* The end of a use case of s with its row written keeps the claims of r backed
\* (of the equipment's, see CheckinAudit).
LEMMA UseCaseBacked ==
    ASSUME TypeOK, AllKnow, [Next]_vars, NEW r \in Requests, NEW q \in Requests, Backed(q),
           NEW s \in {INTOUCH, IFS, NETWORK}, NEW status \in {SUCCESS, FAILED},
           Log(r, s, status), revoked' = [revoked EXCEPT ![r] = Claimed(r, s, status = SUCCESS)],
           NEW point \in Points, Goto(r, point), s = NETWORK => point \in Finishing,
           pc[r] \notin Finishing, UNCHANGED <<records, anyReturned, answer>>
    PROVE  Backed(q)'
<1>1. CASE q # r
  <2>1. pc'[q] = pc[q] /\ revoked'[q] = revoked[q]
    BY <1>1 DEF Goto, TypeOK
  <2> QED
    BY <2>1, StayBacked
<1>2. CASE q = r
  <2>1. /\ pc'[q] = point /\ <<s, status>> \in audit'[q] /\ audit[q] \subseteq audit'[q]
        /\ revoked'[q] \subseteq revoked[q] \cup {s}
        /\ revoked[q] \subseteq revoked'[q]
        /\ s \in revoked'[q] => s \in revoked[q] \/ status = SUCCESS
    BY <1>2 DEF Goto, Log, Claimed, TypeOK
  <2>2. NETWORK \notin revoked[q] /\ pc[q] \notin Ended
    BY <1>2 DEF Backed, Finishing
  <2>3. records'[q] \subseteq revoked'[q]
    BY <2>1 DEF Backed
  <2>4. \A t \in {INTOUCH, IFS} : t \in revoked'[q] => <<t, SUCCESS>> \in audit'[q]
    BY <2>1 DEF Backed
  <2>5. EQUIPMENT \in revoked'[q] \/ (anyReturned'[q] /\ pc'[q] \notin Ended) =>
           \E st \in {SUCCESS, FAILED} : <<EQUIPMENT, st>> \in audit'[q]
    BY <2>1, <2>2 DEF Backed
  <2>6. NETWORK \in revoked'[q] => pc'[q] \in Finishing /\ <<NETWORK, SUCCESS>> \in audit'[q]
    BY <2>1, <2>2
  <2> QED
    BY <2>3, <2>4, <2>5, <2>6 DEF Backed
<1> QED
  BY <1>1, <1>2

AllBacked == \A q \in Requests : Backed(q)

\* Every step keeps every request's claims backed.
LEMMA BackedStep == TypeOK /\ AllKnow /\ AllBacked /\ [Next]_vars => AllBacked'
<1> SUFFICES ASSUME TypeOK, AllKnow, AllBacked, [Next]_vars, NEW q \in Requests
             PROVE  Backed(q)'
  BY DEF AllBacked
<1>q. Backed(q)
  BY DEF AllBacked
<1>1. ASSUME NEW r \in Requests, Locate(r)
     PROVE  Backed(q)'
  <2>1. PICK point \in {"verify", "error"} : Goto(r, point)
    BY <1>1, BlockOrder DEF Locate
  <2>2. /\ pc[r] \notin Ended
        /\ pc[r] \in Finishing => point \in Finishing
    BY <1>1 DEF Locate, Finishing, Ended
  <2> QED
    BY <1>q, <1>1, <2>1, <2>2, GotoBacked DEF Locate, stored
<1>2. ASSUME NEW r \in Requests, NEW s \in LookedUp, Lookup(r, s)
     PROVE  Backed(q)'
  <2>1. pc' = pc /\ UNCHANGED <<revoked, records, anyReturned, answer>>
    BY <1>2 DEF Lookup, stored
  <2> QED
    BY <1>q, <2>1, StayBacked
<1>3. ASSUME NEW r \in Requests, VerifyTimeout(r)
     PROVE  Backed(q)'
  <2>1. PICK point \in {"timeout"} : Goto(r, point)
    BY <1>3, BlockOrder DEF VerifyTimeout
  <2>2. /\ pc[r] \notin Ended
        /\ pc[r] \in Finishing => point \in Finishing
    BY <1>3 DEF VerifyTimeout, Finishing, Ended
  <2> QED
    BY <1>q, <1>3, <2>1, <2>2, GotoBacked DEF VerifyTimeout, local, stored
<1>4. ASSUME NEW r \in Requests, VerifyDone(r)
     PROVE  Backed(q)'
  <2>1. PICK point \in {EQUIPMENT, INTOUCH, IFS, NETWORK, "record", "reply"} : Goto(r, point)
    BY <1>4, BlockOrder DEF VerifyDone
  <2>2. /\ pc[r] \notin Ended
        /\ pc[r] \in Finishing => point \in Finishing
    BY <1>4 DEF VerifyDone, Finishing, Ended
  <2> QED
    BY <1>q, <1>4, <2>1, <2>2, GotoBacked DEF VerifyDone, local, stored
<1>5. ASSUME NEW r \in Requests, EquipSearch(r)
     PROVE  Backed(q)'
  <2>1. PICK point \in {"template", INTOUCH, IFS, NETWORK, "record", "reply"} : Goto(r, point)
    BY <1>5, BlockOrder DEF EquipSearch
  <2>2. /\ pc[r] \notin Ended
        /\ pc[r] \in Finishing => point \in Finishing
    BY <1>5 DEF EquipSearch, Finishing, Ended
  <2> QED
    BY <1>q, <1>5, <2>1, <2>2, GotoBacked DEF EquipSearch, stored
<1>6. ASSUME NEW r \in Requests, TemplateFetch(r)
     PROVE  Backed(q)'
  <2>1. UNCHANGED <<revoked, records, anyReturned, answer>>
    BY <1>6, TemplateWrites DEF TemplateFetch, local
  <2>2. PICK point \in Points \ Replies : Goto(r, point)
    BY <1>6, LoopMovesOn DEF MovesOn
  <2>3. pc[r] \notin Ended /\ pc[r] \notin Finishing
    BY <1>6 DEF TemplateFetch, Finishing, Ended
  <2> QED
    BY <1>q, <2>1, <2>2, <2>3, GotoBacked
<1>7. ASSUME NEW r \in Requests, NEW a \in Assets, CheckinCall(r, a)
     PROVE  Backed(q)'
  <2>1. /\ Goto(r, "checkin_reply") /\ pc[r] \notin Ended /\ pc[r] \notin Finishing
        /\ \A o \in Requests \ {r} : answer'[o] = answer[o]
    BY <1>7 DEF CheckinCall, Finishing, Ended, TypeOK
  <2> QED
    BY <1>q, <1>7, <2>1, GotoBacked DEF CheckinCall, stored
<1>8. ASSUME NEW r \in Requests, CheckinAudit(r)
     PROVE  Backed(q)'
  <2>1. PICK point \in Points \ Replies : Goto(r, point)
    BY <1>8, LoopMovesOn DEF MovesOn
  <2>2. CASE q # r
    <3>1. /\ pc'[q] = pc[q] /\ answer' = answer /\ records' = records
          /\ anyReturned'[q] = anyReturned[q]
      BY <1>8, <2>1, <2>2 DEF CheckinAudit, Goto, TypeOK
    <3>2. revoked'[q] = revoked[q]
      BY <1>8, <2>2 DEF CheckinAudit, NextAsset, Abort, TypeOK
    <3> QED
      BY <1>q, <3>1, <3>2, StayBacked
  <2>3. CASE q = r
    <3>1. NETWORK \notin revoked[q] /\ records'[q] = records[q] /\ audit[q] \subseteq audit'[q]
          /\ pc[q] \notin Ended
      BY <1>q, <1>8, <2>3, Accumulates DEF CheckinAudit, Backed, Finishing, Ended
    <3>2. CASE Abort(r)
      <4>1. pc'[q] = "error" /\ revoked' = revoked
        BY <2>3, <3>2 DEF Abort, Goto, TypeOK
      <4> QED
        BY <1>q, <3>1, <4>1 DEF Backed, Ended
    <3>3. ASSUME NEW status \in {SUCCESS, FAILED}, Log(r, EQUIPMENT, status), NEW any,
                 NextAsset(r, todo[r], any)
          PROVE  Backed(q)'
      <4>1. <<EQUIPMENT, status>> \in audit'[q]
        BY <2>3, <3>3 DEF Log, TypeOK
      <4>2. revoked[q] \subseteq revoked'[q] /\ revoked'[q] \subseteq revoked[q] \cup {EQUIPMENT}
        BY <2>3, <3>3 DEF NextAsset, Claimed, TypeOK
      <4> QED
        BY <1>q, <3>1, <4>1, <4>2 DEF Backed
    <3>4. \A status \in Statuses(r, answer[r] = "ok") : status \in {SUCCESS, FAILED}
      BY StatusesSound
    <3> QED
      BY <1>8, <3>2, <3>3, <3>4 DEF CheckinAudit
  <2> QED
    BY <2>2, <2>3
<1>9. ASSUME NEW r \in Requests, InTouchCall(r)
     PROVE  Backed(q)'
  <2>1. /\ Goto(r, "intouch_reply") /\ pc[r] \notin Ended /\ pc[r] \notin Finishing
        /\ \A o \in Requests \ {r} : answer'[o] = answer[o]
    BY <1>9 DEF InTouchCall, Finishing, Ended, TypeOK
  <2> QED
    BY <1>q, <1>9, <2>1, GotoBacked DEF InTouchCall, stored
<1>10. ASSUME NEW r \in Requests, InTouchAudit(r)
     PROVE  Backed(q)'
  <2>1. /\ UNCHANGED <<records, anyReturned, answer>>
        /\ pc[r] \notin Ended /\ pc[r] \notin Finishing
    BY <1>10 DEF InTouchAudit, local, Finishing, Ended
  <2>2. CASE Abort(r)
    BY <1>q, <2>1, <2>2, GotoBacked DEF Abort
  <2>3. ASSUME NEW status \in Statuses(r, answer[r] = "ok"), Log(r, INTOUCH, status),
               revoked' = [revoked EXCEPT ![r] = Claimed(r, INTOUCH, status = SUCCESS)],
               Goto(r, AfterInTouch(servicesMap[r], Claimed(r, INTOUCH, status = SUCCESS)))
        PROVE  Backed(q)'
    <3>1. status \in {SUCCESS, FAILED}
      BY StatusesSound
    <3>2. AfterInTouch(servicesMap[r], Claimed(r, INTOUCH, status = SUCCESS)) \in Points
      BY BlockOrder DEF Points, Running, Busy, Finishing
    <3> QED
      BY <1>q, <2>1, <2>3, <3>1, <3>2, UseCaseBacked
  <2> QED
    BY <1>10, <2>2, <2>3 DEF InTouchAudit
<1>11. ASSUME NEW r \in Requests, NEW e \in Envs, IfsDisable(r, e)
     PROVE  Backed(q)'
  BY <1>q, <1>11, StayBacked DEF IfsDisable, local, stored
<1>12. ASSUME NEW r \in Requests, IfsAudit(r)
     PROVE  Backed(q)'
  <2>1. /\ UNCHANGED <<records, anyReturned, answer>>
        /\ pc[r] \notin Ended /\ pc[r] \notin Finishing
    BY <1>12 DEF IfsAudit, local, Finishing, Ended
  <2>2. CASE Abort(r)
    BY <1>q, <2>1, <2>2, GotoBacked DEF Abort
  <2>3. ASSUME NEW status \in Statuses(r, IfsSuccess(r)), Log(r, IFS, status),
               revoked' = [revoked EXCEPT ![r] = Claimed(r, IFS, status = SUCCESS)],
               Goto(r, AfterIfs(servicesMap[r], Claimed(r, IFS, status = SUCCESS)))
        PROVE  Backed(q)'
    <3>1. status \in {SUCCESS, FAILED}
      BY StatusesSound DEF IfsSuccess
    <3>2. AfterIfs(servicesMap[r], Claimed(r, IFS, status = SUCCESS)) \in Points
      BY BlockOrder DEF Points, Running, Busy, Finishing
    <3> QED
      BY <1>q, <2>1, <2>3, <3>1, <3>2, UseCaseBacked
  <2> QED
    BY <1>12, <2>2, <2>3 DEF IfsAudit
<1>13. ASSUME NEW r \in Requests, AdSearch(r)
     PROVE  Backed(q)'
  <2>1. /\ pc[r] \notin Ended /\ pc[r] \notin Finishing
        /\ \A o \in Requests \ {r} : answer'[o] = answer[o]
    BY <1>13 DEF AdSearch, Finishing, Ended, TypeOK
  <2>2. PICK point \in {"ad_reply", "ad_write"} : Goto(r, point)
    BY <1>13 DEF AdSearch
  <2> QED
    BY <1>q, <1>13, <2>1, <2>2, GotoBacked DEF AdSearch, stored
<1>14. ASSUME NEW r \in Requests, AdWrite(r)
     PROVE  Backed(q)'
  <2>1. /\ Goto(r, "ad_reply") /\ pc[r] \notin Ended /\ pc[r] \notin Finishing
        /\ \A o \in Requests \ {r} : answer'[o] = answer[o]
    BY <1>14 DEF AdWrite, Finishing, Ended, TypeOK
  <2> QED
    BY <1>q, <1>14, <2>1, GotoBacked DEF AdWrite, stored
<1>15. ASSUME NEW r \in Requests, AdAudit(r)
     PROVE  Backed(q)'
  <2>1. /\ UNCHANGED <<records, anyReturned, answer>>
        /\ pc[r] \notin Ended /\ pc[r] \notin Finishing
    BY <1>15 DEF AdAudit, local, Finishing, Ended
  <2>2. CASE Abort(r)
    BY <1>q, <2>1, <2>2, GotoBacked DEF Abort
  <2>3. ASSUME NEW status \in Statuses(r, answer[r] = "ok"), Log(r, NETWORK, status),
               revoked' = [revoked EXCEPT ![r] = Claimed(r, NETWORK, status = SUCCESS)],
               Goto(r, AfterNetwork(Claimed(r, NETWORK, status = SUCCESS)))
        PROVE  Backed(q)'
    <3>1. status \in {SUCCESS, FAILED}
      BY StatusesSound
    <3>2. AfterNetwork(Claimed(r, NETWORK, status = SUCCESS)) \in Points \cap Finishing
      BY BlockOrder DEF Points, Running, Busy, Finishing
    <3> QED
      BY <1>q, <2>1, <2>3, <3>1, <3>2, UseCaseBacked
  <2>4. CASE /\ answer[r] = "already" /\ UNCHANGED audit
             /\ revoked' = [revoked EXCEPT ![r] = @ \cup {NETWORK}]
             /\ Goto(r, "record")
    <3>1. CASE q = r
      <4>1. /\ pc'[q] = "record" /\ pc[q] \notin Ended
            /\ revoked'[q] = revoked[q] \cup {NETWORK}
        BY <2>1, <2>4, <3>1 DEF Goto, TypeOK
      <4> QED
        BY <1>q, <2>1, <2>4, <3>1, <4>1 DEF Backed, Finishing, Ended
    <3>2. CASE q # r
      <4>1. pc'[q] = pc[q] /\ revoked'[q] = revoked[q]
        BY <2>4, <3>2 DEF Goto, TypeOK
      <4> QED
        BY <1>q, <2>1, <4>1, StayBacked
    <3> QED
      BY <3>1, <3>2
  <2> QED
    BY <1>15, <2>2, <2>3, <2>4 DEF AdAudit
<1>16. ASSUME NEW r \in Requests, PersistRecord(r)
     PROVE  Backed(q)'
  <2>1. PICK point \in {"reply", "error"} : Goto(r, point)
    BY <1>16 DEF PersistRecord
  <2>2. /\ UNCHANGED <<revoked, anyReturned, answer>>
        /\ records'[q] = records[q] \/ records'[q] = revoked[q]
    BY <1>16 DEF PersistRecord, local, TypeOK
  <2>3. /\ pc[q] \in Ended => pc'[q] \in Ended
        /\ pc[q] \in Finishing => pc'[q] \in Finishing
    BY <1>16, <2>1 DEF PersistRecord, Goto, Finishing, Ended, TypeOK
  <2> QED
    BY <1>q, <2>2, <2>3, StayBacked
<1>17. ASSUME NEW r \in Requests, Reply(r)
     PROVE  Backed(q)'
  <2>1. PICK point \in {"responded"} : Goto(r, point)
    BY <1>17, BlockOrder DEF Reply
  <2>2. /\ pc[r] \notin Ended
        /\ pc[r] \in Finishing => point \in Finishing
    BY <1>17 DEF Reply, Finishing, Ended
  <2> QED
    BY <1>q, <1>17, <2>1, <2>2, GotoBacked DEF Reply, local, stored
<1>18. ASSUME NEW r \in Requests, SendEmail(r)
     PROVE  Backed(q)'
  BY <1>q, <1>18, StayBacked DEF SendEmail, local, stored
<1>19. ASSUME Crash
     PROVE  Backed(q)'
  <2>1. /\ pc[q] \in Ended => pc'[q] \in Ended
        /\ pc[q] \in Finishing => pc'[q] \in Finishing
    BY <1>19 DEF Crash, Finishing, Ended
  <2> QED
    BY <1>q, <1>19, <2>1, StayBacked DEF Crash, local, stored
<1>20. ASSUME ManualActivateInTouch
     PROVE  Backed(q)'
  BY <1>q, <1>20, StayBacked DEF ManualActivateInTouch, local, stored
<1>21. ASSUME NEW a \in {INTOUCH, NETWORK}, ManualDisable(a)
     PROVE  Backed(q)'
  BY <1>q, <1>21, StayBacked DEF ManualDisable, local, stored
<1>22. ASSUME NEW a \in Assets, ManualCheckin(a)
     PROVE  Backed(q)'
  BY <1>q, <1>22, StayBacked DEF ManualCheckin, local, stored
<1>23. CASE UNCHANGED served
  BY <1>q, <1>23, StayBacked DEF served, local, stored
<1> QED
  BY <1>1, <1>2, <1>3, <1>4, <1>5, <1>6, <1>7, <1>8, <1>9, <1>10, <1>11,
     <1>12, <1>13, <1>14, <1>15, <1>16, <1>17, <1>18, <1>19, <1>20, <1>21,
     <1>22, <1>23
  DEF Next, RequestStep, LoopStep, HttpStep, LdapStep, Environment, DirectoryHangs, vars

\* What a record lists was claimed by its request and has its rows in the audit
\* trail: the history of the system never says more than the trail.
THEOREM RecordsAreSound == Spec => []RecordSound
<1>1. Init => AllBacked
  BY DEF Init, AllBacked, Backed
<1>2. TypeOK /\ AllBacked => RecordSound
  <2> SUFFICES ASSUME TypeOK, AllBacked, NEW r \in Requests
               PROVE  /\ records[r] \subseteq revoked[r]
                      /\ \A s \in records[r] \ {EQUIPMENT, NETWORK} : <<s, SUCCESS>> \in audit[r]
                      /\ EQUIPMENT \in records[r] =>
                             \E status \in {SUCCESS, FAILED} : <<EQUIPMENT, status>> \in audit[r]
                      /\ NETWORK \in records[r] =>
                             answer[r] = "already" \/ <<NETWORK, SUCCESS>> \in audit[r]
    BY DEF RecordSound
  <2>1. Backed(r)
    BY DEF AllBacked
  <2>2. records[r] \ {EQUIPMENT, NETWORK} \subseteq {INTOUCH, IFS}
    BY DEF TypeOK, Systems
  <2> QED
    BY <2>1, <2>2 DEF Backed
<1>3. Spec => [](TypeOK /\ AllKnow)
  BY TypeCorrect, KnowsInit, KnowsStep, PTL DEF Spec
<1> QED
  BY <1>1, <1>2, <1>3, BackedStep, PTL DEF Spec
=============================================================================
