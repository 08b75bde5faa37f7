------------------------- MODULE OffboardingRefinement -------------------------
(* Offboarding implements Revocation, for any number of concurrent requests,   *)
(* any equipment and any set of accounts.                                      *)
EXTENDS OffboardingProofs

USE DEF NETWORK, INTOUCH, EQUIPMENT, ACCESS, IFS, SUCCESS, FAILED

-----------------------------------------------------------------------------
(* Every block is entered once, when its system is in the map *)

AtEquipment == {EQUIPMENT, "template", "checkin", "checkin_reply"}
AtInTouch   == {INTOUCH, "intouch_reply"}
AtNetwork   == {NETWORK, "ad_write", "ad_reply"}

\* The points up to the end of a block.
Verifying    == {"idle", "verify"}
UntilInTouch == Verifying \cup AtEquipment \cup AtInTouch
UntilIfs     == UntilInTouch \cup {IFS}
UntilNetwork == UntilIfs \cup AtNetwork

\* A request may be at the point with this map and these claims.
Entered(point, map, claimed) ==
    /\ point \in AtEquipment => EQUIPMENT \in map
    /\ point \in AtInTouch => INTOUCH \in map
    /\ point = IFS => IFS \in map
    /\ point \in AtNetwork => NETWORK \in map
    /\ point = "record" => claimed # {}

\* The request has said nothing of the system.
Silent(r, s) == s \notin revoked[r] /\ \A status \in {SUCCESS, FAILED} : <<s, status>> \notin audit[r]

\* A request says something of a system only in its block.
InOrder(r) ==
    /\ pc[r] \in Verifying => revoked[r] = {}
    /\ pc[r] \in UntilInTouch => Silent(r, INTOUCH)
    /\ pc[r] \in UntilIfs => Silent(r, IFS)
    /\ pc[r] \in UntilNetwork => Silent(r, NETWORK)

Staged(r) == Entered(pc[r], servicesMap[r], revoked[r]) /\ InOrder(r)

\* The chain of blocks leads to blocks of the map, to the record when something is
\* claimed and straight to the answer when nothing is.
LEMMA ChainEnters ==
    ASSUME NEW map, NEW claimed, NEW point,
           \/ point = FirstBlock(map) /\ claimed = {}
           \/ point = AfterEquipment(map, claimed)
           \/ point = AfterInTouch(map, claimed)
           \/ point = AfterIfs(map, claimed)
           \/ point = AfterNetwork(claimed)
    PROVE  /\ Entered(point, map, claimed)
           /\ point = "reply" => claimed = {}
           /\ point \in {EQUIPMENT, INTOUCH, IFS, NETWORK, "record", "reply"}
<1> USE DEF Entered, AtEquipment, AtInTouch, AtNetwork, AfterNetwork
<1>1. CASE point \in {AfterIfs(map, claimed), AfterNetwork(claimed)}
  BY <1>1 DEF AfterIfs
<1>2. CASE point \in {AfterEquipment(map, claimed), AfterInTouch(map, claimed)}
  BY <1>2 DEF AfterEquipment, AfterInTouch, AfterIfs
<1>3. CASE point = FirstBlock(map) /\ claimed = {}
  BY <1>3 DEF FirstBlock, AfterEquipment, AfterInTouch, AfterIfs
<1> QED
  BY <1>1, <1>2, <1>3

\* What is of request q alone changes in a step of q only; a crash ends q.
LEMMA OthersApart ==
    ASSUME TypeOK, [Next]_vars, NEW q \in Requests
    PROVE  \/ RequestStep(q)
           \/ /\ pc'[q] \in {pc[q], "lost"}
              /\ revoked'[q] = revoked[q]
              /\ audit'[q] = audit[q]
              /\ servicesMap'[q] = servicesMap[q]
<1> DEFINE Apart == /\ pc'[q] \in {pc[q], "lost"}
                    /\ revoked'[q] = revoked[q]
                    /\ audit'[q] = audit[q]
                    /\ servicesMap'[q] = servicesMap[q]
<1>1. ASSUME NEW r \in Requests, r # q, RequestStep(r)
      PROVE  Apart
  <2> USE DEF TypeOK, Goto
  <2>1. CASE Locate(r) \/ \E s \in LookedUp : Lookup(r, s)
    BY <1>1, <2>1 DEF Locate, Lookup, stored
  <2>2. CASE VerifyTimeout(r) \/ VerifyDone(r) \/ EquipSearch(r)
    BY <1>1, <2>2 DEF VerifyTimeout, VerifyDone, EquipSearch, local, stored
  <2>3. CASE TemplateFetch(r) \/ CheckinAudit(r)
    BY <1>1, <2>3 DEF TemplateFetch, CheckinAudit, NextAsset, Abort, Log, local
  <2>4. CASE InTouchAudit(r) \/ IfsAudit(r) \/ AdAudit(r)
    BY <1>1, <2>4 DEF InTouchAudit, IfsAudit, AdAudit, Abort, Log, local
  <2>5. CASE HttpStep(r) \/ LdapStep(r) \/ InTouchCall(r)
    BY <1>1, <2>5 DEF HttpStep, LdapStep, CheckinCall, IfsDisable, AdSearch, AdWrite,
                      InTouchCall, stored
  <2>6. CASE PersistRecord(r) \/ Reply(r) \/ SendEmail(r)
    BY <1>1, <2>6 DEF PersistRecord, Reply, SendEmail, local, stored
  <2> QED
    BY <1>1, <2>1, <2>2, <2>3, <2>4, <2>5, <2>6 DEF RequestStep, LoopStep
<1>2. CASE Environment \/ Crash
  BY <1>2 DEF Environment, Crash, ManualActivateInTouch, ManualDisable, ManualCheckin,
              local, stored
<1>3. CASE UNCHANGED served
  BY <1>3 DEF served, local, stored
<1> QED
  BY <1>1, <1>2, <1>3 DEF Next, DirectoryHangs, vars

\* A step after which q is where it was, or at its end, with the same claims and rows.
LEMMA StageKept ==
    ASSUME NEW q \in Requests, Staged(q),
           pc'[q] \in {pc[q], "reply"} \cup Ended,
           revoked'[q] = revoked[q], audit'[q] = audit[q],
           servicesMap[q] \subseteq servicesMap'[q]
    PROVE  Staged(q)'
BY DEF Staged, Entered, InOrder, Silent, Ended, Verifying, UntilInTouch, UntilIfs, UntilNetwork,
       AtEquipment, AtInTouch, AtNetwork

\* A step of r that enters a point and reports no system whose block comes later.
LEMMA StageEntered ==
    ASSUME TypeOK, NEW r \in Requests, InOrder(r),
           NEW point, Goto(r, point), servicesMap' = servicesMap,
           Entered(point, servicesMap[r], revoked'[r]),
           point \notin Verifying,
           point \in UntilInTouch => pc[r] \in UntilInTouch,
           point \in UntilIfs => pc[r] \in UntilIfs,
           point \in UntilNetwork => pc[r] \in UntilNetwork,
           \A s \in {INTOUCH, IFS, NETWORK} :
              \/ Silent(r, s) => Silent(r, s)'
              \/ s = INTOUCH /\ point \notin UntilInTouch
              \/ s = IFS /\ point \notin UntilIfs
              \/ s = NETWORK /\ point \notin UntilNetwork
    PROVE  Staged(r)'
<1>1. pc'[r] = point
  BY DEF Goto, TypeOK
<1> QED
  BY <1>1 DEF Staged, InOrder

\* A use case of s that logs and claims leaves the other systems as silent as they were.
LEMMA OthersSilent ==
    ASSUME TypeOK, NEW r \in Requests, NEW s, NEW status, Log(r, s, status), NEW success,
           revoked' = [revoked EXCEPT ![r] = Claimed(r, s, success)],
           NEW t, t # s, Silent(r, t)
    PROVE  Silent(r, t)'
BY DEF Silent, Log, Claimed, TypeOK

\* The end of the use case of InTouch, IFS or the network, with its row.
LEMMA UseCaseStaged ==
    ASSUME TypeOK, NEW r \in Requests, Staged(r), servicesMap' = servicesMap,
           NEW s \in {INTOUCH, IFS, NETWORK}, NEW status, Log(r, s, status),
           NEW claimed, claimed = Claimed(r, s, status = SUCCESS),
           revoked' = [revoked EXCEPT ![r] = claimed], NEW point, Goto(r, point),
           \/ s = INTOUCH /\ point = AfterInTouch(servicesMap[r], claimed) /\ pc[r] \in AtInTouch
           \/ s = IFS /\ point = AfterIfs(servicesMap[r], claimed) /\ pc[r] = IFS
           \/ s = NETWORK /\ point = AfterNetwork(claimed) /\ pc[r] \in AtNetwork
    PROVE  Staged(r)'
<1> USE DEF UntilNetwork, UntilIfs, UntilInTouch, Verifying, AtEquipment, AtInTouch, AtNetwork
<1>1. revoked'[r] = claimed /\ InOrder(r)
  BY DEF TypeOK, Staged
<1>2. /\ Entered(point, servicesMap[r], revoked'[r])
      /\ s = INTOUCH => point \in {IFS, NETWORK, "record", "reply"}
      /\ s = IFS => point \in {NETWORK, "record", "reply"}
      /\ s = NETWORK => point \in {"record", "reply"}
  BY <1>1, ChainEnters, BlockOrder
<1>3. \A t \in {INTOUCH, IFS, NETWORK} : t # s /\ Silent(r, t) => Silent(r, t)'
  BY OthersSilent
<1> QED
  BY <1>1, <1>2, <1>3, StageEntered

AllStaged == \A r \in Requests : Staged(r)

\* Every step keeps every request in order.
LEMMA StagedStep == TypeOK /\ AllStaged /\ [Next]_vars => AllStaged'
<1> SUFFICES ASSUME TypeOK, AllStaged, [Next]_vars, NEW r \in Requests
             PROVE  Staged(r)'
  BY DEF AllStaged
<1>s. Staged(r) /\ InOrder(r) /\ Entered(pc[r], servicesMap[r], revoked[r])
  BY DEF AllStaged, Staged
<1>e. ASSUME Abort(r), servicesMap' = servicesMap
      PROVE  Staged(r)'
  BY <1>s, <1>e, StageKept DEF Abort, Goto, Ended, TypeOK
\* A step that goes on in a block, or to the next ones, and reports nothing.
<1>g. ASSUME NEW point, Goto(r, point), UNCHANGED <<servicesMap, audit>>,
             revoked'[r] = revoked[r],
             Entered(point, servicesMap[r], revoked[r]), point \notin Verifying,
             point \in UntilInTouch => pc[r] \in UntilInTouch,
             point \in UntilIfs => pc[r] \in UntilIfs,
             point \in UntilNetwork => pc[r] \in UntilNetwork
      PROVE  Staged(r)'
  <2>1. \A s : Silent(r, s) => Silent(r, s)'
    BY <1>g DEF Silent
  <2> QED
    BY <1>s, <1>g, <2>1, StageEntered
<1>a. /\ UntilNetwork = UntilIfs \cup AtNetwork
      /\ UntilIfs = UntilInTouch \cup {IFS}
      /\ UntilInTouch = Verifying \cup AtEquipment \cup AtInTouch
  BY DEF UntilNetwork, UntilIfs, UntilInTouch
<1> USE DEF Verifying, AtEquipment, AtInTouch, AtNetwork
<1>1. CASE Locate(r)
  BY <1>s, <1>1 DEF Locate, Goto, stored, TypeOK, Staged, Entered, InOrder, Silent,
                    UntilNetwork, UntilIfs, UntilInTouch
<1>2. ASSUME NEW s \in LookedUp, Lookup(r, s)
      PROVE  Staged(r)'
  BY <1>s, <1>2, StageKept DEF Lookup, stored, TypeOK
<1>3. CASE VerifyTimeout(r)
  BY <1>s, <1>3, StageKept DEF VerifyTimeout, Goto, local, stored, Ended, TypeOK
<1>4. CASE VerifyDone(r)
  <2>1. revoked[r] = {} /\ pc[r] \in Verifying
    BY <1>s, <1>4 DEF VerifyDone, InOrder
  <2>2. Entered(FirstBlock(servicesMap[r]), servicesMap[r], revoked[r])
    BY <2>1, ChainEnters
  <2>3. FirstBlock(servicesMap[r]) \notin Verifying
    BY BlockOrder
  <2> QED
    BY <1>4, <1>a, <1>g, <2>1, <2>2, <2>3 DEF VerifyDone, local, stored
<1>5. CASE EquipSearch(r)
  <2>1. pc[r] \in AtEquipment
    BY <1>5 DEF EquipSearch
  <2>2. ASSUME NEW point \in {"template", AfterEquipment(servicesMap[r], revoked[r])}
        PROVE  Entered(point, servicesMap[r], revoked[r]) /\ point \notin Verifying
    BY <1>s, <2>1, <2>2, ChainEnters DEF Entered
  <2> QED
    BY <1>5, <1>a, <1>g, <2>1, <2>2 DEF EquipSearch, stored
<1>6. CASE TemplateFetch(r)
  <2>1. pc[r] \in AtEquipment /\ UNCHANGED <<servicesMap, revoked, audit>>
    BY <1>6, TemplateWrites DEF TemplateFetch, local
  <2>2. ASSUME NEW point \in {"checkin", AfterEquipment(servicesMap[r], revoked[r])}
        PROVE  Entered(point, servicesMap[r], revoked[r]) /\ point \notin Verifying
    BY <1>s, <2>1, <2>2, ChainEnters DEF Entered
  <2>3. Abort(r) \/ Goto(r, "checkin") \/ Goto(r, AfterEquipment(servicesMap[r], revoked[r]))
    BY <1>6 DEF TemplateFetch, NextAsset, Claimed
  <2> QED
    BY <1>a, <1>e, <1>g, <2>1, <2>2, <2>3
<1>7. ASSUME NEW a \in Assets, CheckinCall(r, a)
      PROVE  Staged(r)'
  <2>1. pc[r] \in AtEquipment
    BY <1>7 DEF CheckinCall
  <2>2. Entered("checkin_reply", servicesMap[r], revoked[r])
    BY <1>s, <2>1 DEF Entered
  <2> QED
    BY <1>7, <1>a, <1>g, <2>1, <2>2 DEF CheckinCall, stored
<1>8. CASE CheckinAudit(r)
  <2>1. pc[r] \in AtEquipment /\ servicesMap' = servicesMap
    BY <1>8 DEF CheckinAudit
  <2>2. ASSUME NEW status, Log(r, EQUIPMENT, status), NEW any, NextAsset(r, todo[r], any)
        PROVE  Staged(r)'
    <3>1. PICK point : /\ Goto(r, point)
                       /\ Entered(point, servicesMap[r], revoked'[r])
                       /\ point \in {"checkin", INTOUCH, IFS, NETWORK, "record", "reply"}
      <4>1. CASE todo[r] # {}
        <5>1. Entered("checkin", servicesMap[r], revoked'[r])
          BY <1>s, <2>1 DEF Entered
        <5> QED
          BY <2>2, <4>1, <5>1 DEF NextAsset
      <4>2. CASE todo[r] = {}
        <5>1. revoked'[r] = Claimed(r, EQUIPMENT, any)
          BY <2>2, <4>2 DEF NextAsset, TypeOK
        <5> QED
          BY <2>2, <4>2, <5>1, ChainEnters, BlockOrder DEF NextAsset
      <4> QED
        BY <4>1, <4>2
    <3>2. \A s \in {INTOUCH, IFS, NETWORK} : Silent(r, s) => Silent(r, s)'
      BY <2>2 DEF Silent, Log, NextAsset, Claimed, TypeOK
    <3> QED
      BY <1>s, <1>a, <2>1, <3>1, <3>2, StageEntered
  <2> QED
    BY <1>8, <1>e, <2>1, <2>2 DEF CheckinAudit
<1>9. CASE InTouchCall(r)
  <2>1. pc[r] \in AtInTouch /\ Entered("intouch_reply", servicesMap[r], revoked[r])
    BY <1>s, <1>9 DEF InTouchCall, Entered
  <2> QED
    BY <1>9, <1>a, <1>g, <2>1 DEF InTouchCall, stored
<1>10. CASE InTouchAudit(r)
  BY <1>s, <1>e, <1>10, UseCaseStaged DEF InTouchAudit, local
<1>11. ASSUME NEW e \in Envs, IfsDisable(r, e)
       PROVE  Staged(r)'
  BY <1>s, <1>11, StageKept DEF IfsDisable, stored
<1>12. CASE IfsAudit(r)
  BY <1>s, <1>e, <1>12, UseCaseStaged DEF IfsAudit, local
<1>13. CASE AdSearch(r)
  <2>1. PICK point \in {"ad_reply", "ad_write"} : Goto(r, point)
    BY <1>13 DEF AdSearch
  <2>2. pc[r] \in AtNetwork /\ Entered(point, servicesMap[r], revoked[r])
    BY <1>s, <1>13 DEF AdSearch, Entered
  <2> QED
    BY <1>13, <1>a, <1>g, <2>1, <2>2 DEF AdSearch, stored
<1>14. CASE AdWrite(r)
  <2>1. pc[r] \in AtNetwork /\ Entered("ad_reply", servicesMap[r], revoked[r])
    BY <1>s, <1>14 DEF AdWrite, Entered
  <2> QED
    BY <1>14, <1>a, <1>g, <2>1 DEF AdWrite, stored
<1>15. CASE AdAudit(r)
  <2>1. CASE /\ revoked' = [revoked EXCEPT ![r] = @ \cup {NETWORK}]
             /\ Goto(r, "record") /\ UNCHANGED audit
    <3>1. revoked'[r] = revoked[r] \cup {NETWORK} /\ servicesMap' = servicesMap
      BY <1>15, <2>1 DEF AdAudit, local, TypeOK
    <3>2. Entered("record", servicesMap[r], revoked'[r])
      BY <3>1 DEF Entered
    <3>3. \A s \in {INTOUCH, IFS} : Silent(r, s) => Silent(r, s)'
      BY <2>1, <3>1 DEF Silent
    <3> QED
      BY <1>s, <1>a, <2>1, <3>1, <3>2, <3>3, StageEntered
  <2> QED
    BY <1>s, <1>e, <1>15, <2>1, UseCaseStaged DEF AdAudit, local
<1>16. CASE PersistRecord(r)
  BY <1>s, <1>16, StageKept DEF PersistRecord, Goto, local, Ended, TypeOK
<1>17. CASE Reply(r) \/ SendEmail(r)
  BY <1>s, <1>17, StageKept DEF Reply, SendEmail, Goto, local, stored, Ended, TypeOK
<1>18. CASE ~RequestStep(r)
  BY <1>s, <1>18, OthersApart, StageKept DEF Ended
<1> QED
  BY <1>1, <1>2, <1>3, <1>4, <1>5, <1>6, <1>7, <1>8, <1>9, <1>10, <1>11, <1>12, <1>13,
     <1>14, <1>15, <1>16, <1>17, <1>18
  DEF RequestStep, LoopStep, HttpStep, LdapStep

-----------------------------------------------------------------------------
(* What the steps are to HR *)

OutSet == {s \in Systems : Out(s)}

\* Accounts and assets matter to HR only through the systems the employee is out of.
LEMMA OutIsExternal ==
    ASSUME UNCHANGED external
    PROVE  OutSet' = OutSet
BY DEF OutSet, Out, external

\* A deactivation of an account takes the employee out of its system.
LEMMA AccountLeaves ==
    ASSUME TypeOK, NEW a \in {INTOUCH, NETWORK} \cup Envs, UNCHANGED assets,
           active' = [active EXCEPT ![a] = FALSE],
           NEW s, s = IF a \in Envs THEN IFS ELSE a
    PROVE  s \in Systems /\ OutSet' = OutSet \cup {s}
<1>1. \A b \in Accounts : active'[b] = IF b = a THEN FALSE ELSE active[b]
  BY DEF TypeOK
<1>2. a \in Accounts /\ s \in Systems
  BY DEF Accounts, Systems, Envs
<1>3. ASSUME NEW t \in Systems
      PROVE  Out(t)' <=> Out(t) \/ t = s
  BY <1>1, <1>2 DEF Out, Accounts, Systems, Envs
<1> QED
  BY <1>2, <1>3 DEF OutSet

\* A check-in of a tagged asset takes the employee out of the equipment.
LEMMA AssetLeaves ==
    ASSUME TypeOK, NEW a \in Assets \ Untagged, UNCHANGED active, assets' = assets \ {a}
    PROVE  EQUIPMENT \in Systems /\ OutSet' = OutSet \cup {EQUIPMENT}
<1>1. ASSUME NEW t \in Systems
      PROVE  Out(t)' <=> Out(t) \/ t = EQUIPMENT
  BY DEF Out
<1>2. EQUIPMENT \in Systems
  BY DEF Systems
<1> QED
  BY <1>1, <1>2 DEF OutSet

Phases == [r \in Requests |-> Phase(r)]

\* What HR sees of the progress of requests.
PhasesKept == Phases' = Phases
PhaseSet(r, next) == Phases' = [Phases EXCEPT ![r] = next]

\* A step of r that goes to `point' and claims for r only changes the phase of r only.
LEMMA PhaseMoves ==
    ASSUME TypeOK, NEW r \in Requests, NEW point, Goto(r, point),
           \A q \in Requests \ {r} : revoked'[q] = revoked[q]
    PROVE  /\ PhaseSet(r, Phase(r)')
           /\ Phase(r)' = Phase(r) => PhasesKept
<1>1. \A q \in Requests \ {r} : pc'[q] = pc[q]
  BY DEF Goto, TypeOK
<1>2. \A q \in Requests \ {r} : Phase(q)' = Phase(q)
  BY <1>1 DEF Phase
<1>3. Phases' = [q \in Requests |-> Phase(q)']
  BY DEF Phases
<1> QED
  BY <1>2, <1>3 DEF Phases, PhaseSet, PhasesKept

\* A request at a block works, whatever point of it it goes to, and after it unless
\* it goes straight to the answer with claims, which it never does.
LEMMA PhaseWorking ==
    ASSUME TypeOK, NEW r \in Requests, Phase(r) = "revoking", NEW point, Goto(r, point),
           point \notin Verifying, point \notin Ended,
           point = "reply" => revoked'[r] = {},
           \A q \in Requests \ {r} : revoked'[q] = revoked[q]
    PROVE  PhasesKept
<1>1. pc'[r] = point
  BY DEF Goto, TypeOK
<1>2. Phase(r)' = "revoking"
  BY <1>1 DEF Phase, Verifying, Ended
<1> QED
  BY <1>2, PhaseMoves

\* The phase of each point.
LEMMA PhaseOf ==
    ASSUME NEW r \in Requests
    PROVE  /\ pc[r] \in Verifying => Phase(r) = "verifying"
           /\ pc[r] \in AtEquipment \cup AtInTouch \cup {IFS, "record"} \cup AtNetwork =>
                 Phase(r) = "revoking"
           /\ pc[r] = "reply" => Phase(r) = IF revoked[r] = {} THEN "revoking" ELSE "recorded"
           /\ pc[r] = "responded" => Phase(r) = "answered"
           /\ pc[r] \in {"timeout", "error", "lost"} => Phase(r) = "failed"
BY DEF Phase, Verifying, AtEquipment, AtInTouch, AtNetwork, Ended

Told == <<servicesMap, revoked, audit, records, mail, refused>>

\* A step that HR does not see.
LEMMA StepStutters ==
    ASSUME UNCHANGED external, PhasesKept, UNCHANGED Told
    PROVE  UNCHANGED Promise!vars
BY OutIsExternal DEF PhasesKept, Phases, OutSet, Told, Promise!vars

\* A step that takes the employee out of a system and tells nobody.
LEMMA StepLeaves ==
    ASSUME NEW s \in Systems, OutSet' = OutSet \cup {s}, PhasesKept, UNCHANGED Told
    PROVE  Promise!Leave
BY DEF PhasesKept, Phases, OutSet, Told, Promise!Leave, Promise!progress

\* An exception or a timeout.
LEMMA StepFails ==
    ASSUME TypeOK, NEW r \in Requests, pc[r] \notin Ended,
           NEW point \in {"timeout", "error"}, Goto(r, point),
           UNCHANGED external, UNCHANGED Told
    PROVE  Promise!Fail
<1>1. Phase(r) \notin {"answered", "failed"}
  BY DEF Phase, Ended
<1>2. Phase(r)' = "failed"
  BY DEF Phase, Goto, Ended, TypeOK
<1>3. PhaseSet(r, "failed")
  BY <1>2, PhaseMoves DEF Told
<1>4. \E R \in SUBSET {q \in Requests : Phases[q] \notin {"answered", "failed"}} :
         Phases' = [q \in Requests |-> IF q \in R THEN "failed" ELSE Phases[q]]
  <2>1. {r} \in SUBSET {q \in Requests : Phases[q] \notin {"answered", "failed"}}
    BY <1>1 DEF Phases
  <2>2. Phases' = [q \in Requests |-> IF q \in {r} THEN "failed" ELSE Phases[q]]
    BY <1>3 DEF PhaseSet, Phases
  <2> QED
    BY <2>1, <2>2
<1>5. \E M \in SUBSET {q \in Requests : mail[q] = "queued"} :
         mail' = [q \in Requests |-> IF q \in M THEN "lost" ELSE mail[q]]
  <2>1. mail' = [q \in Requests |-> IF q \in {} THEN "lost" ELSE mail[q]]
    BY DEF Told, TypeOK
  <2>2. {} \in SUBSET {q \in Requests : mail[q] = "queued"}
    OBVIOUS
  <2> QED
    BY ONLY <2>1, <2>2
<1>6. OutSet' = OutSet /\ UNCHANGED <<servicesMap, revoked, audit, records, refused>>
  BY OutIsExternal DEF Told
<1> QED
  BY <1>4, <1>5, <1>6 DEF Promise!Fail, Phases, OutSet

\* The end of a use case that writes a row for system s.
LEMMA StepReports ==
    ASSUME TypeOK, NEW r \in Requests, Phase(r) = "revoking", PhasesKept,
           NEW s \in servicesMap[r], s # EQUIPMENT => Silent(r, s),
           NEW status \in {SUCCESS, FAILED}, Log(r, s, status),
           status = SUCCESS => Warranted(r, s),
           \/ /\ s # EQUIPMENT
              /\ revoked' = [revoked EXCEPT ![r] = Claimed(r, s, status = SUCCESS)]
           \/ /\ s = EQUIPMENT /\ Warranted(r, s)
              /\ revoked' = [revoked EXCEPT ![r] = @ \cup {s}]
           \/ s = EQUIPMENT /\ UNCHANGED revoked,
           UNCHANGED <<external, servicesMap, records, mail>>
    PROVE  Promise!Report(r, s, status)
<1>1. s \in Systems
  BY DEF TypeOK
<1>2. Promise!Open(r, s)
  <2>1. \A row \in audit[r] : row = <<row[1], row[2]>> /\ row[2] \in {SUCCESS, FAILED}
    BY DEF TypeOK
  <2>2. Silent(r, s) => Promise!Unreported(r, s)
    BY <2>1 DEF Promise!Unreported, Silent
  <2> QED
    BY <2>2 DEF Promise!Open
<1>3. Warranted(r, s) => Promise!Warranted(r, s)
  BY <1>1 DEF Warranted, Promise!Warranted
<1>4. \/ status = SUCCESS /\ s \notin {EQUIPMENT} /\ Promise!Claim(r, s)
      \/ status = FAILED /\ s \notin {EQUIPMENT} /\ UNCHANGED revoked
      \/ s \in {EQUIPMENT} /\ Promise!Warranted(r, s) /\ Promise!Claim(r, s)
      \/ s \in {EQUIPMENT} /\ UNCHANGED revoked
  BY <1>3 DEF Promise!Claim, Claimed, TypeOK
<1>5. OutSet' = OutSet /\ refused' = refused
  BY OutIsExternal DEF external
<1> QED
  BY <1>2, <1>3, <1>4, <1>5
  DEF Promise!Report, PhasesKept, Phases, OutSet, Log

\* The end of the use case of InTouch, IFS or the network, with its row.
LEMMA UseCaseReports ==
    ASSUME TypeOK, NEW r \in Requests, Staged(r), NEW success \in BOOLEAN,
           NEW s \in {INTOUCH, IFS, NETWORK}, success => Warranted(r, s),
           NEW status \in Statuses(r, success), Log(r, s, status),
           NEW claimed, claimed = Claimed(r, s, status = SUCCESS),
           revoked' = [revoked EXCEPT ![r] = claimed], NEW point, Goto(r, point),
           \/ s = INTOUCH /\ point = AfterInTouch(servicesMap[r], claimed) /\ pc[r] \in AtInTouch
           \/ s = IFS /\ point = AfterIfs(servicesMap[r], claimed) /\ pc[r] = IFS
           \/ s = NETWORK /\ point = AfterNetwork(claimed) /\ pc[r] \in AtNetwork,
           UNCHANGED <<external, servicesMap, records, mail>>
    PROVE  \E st \in {SUCCESS, FAILED} : Promise!Report(r, s, st)
<1>1. status \in {SUCCESS, FAILED} /\ (status = SUCCESS => Warranted(r, s))
  BY StatusesSound
<1>2. Phase(r) = "revoking" /\ s \in servicesMap[r] /\ Silent(r, s)
  BY PhaseOf DEF Staged, Entered, InOrder, UntilNetwork, UntilIfs, UntilInTouch
<1>3. revoked'[r] = claimed /\ \A q \in Requests \ {r} : revoked'[q] = revoked[q]
  BY DEF TypeOK
<1>4. /\ point \notin Verifying /\ point \notin Ended
      /\ point = "reply" => claimed = {}
  <2>1. \/ point = AfterInTouch(servicesMap[r], claimed)
        \/ point = AfterIfs(servicesMap[r], claimed)
        \/ point = AfterNetwork(claimed)
    OBVIOUS
  <2>2. /\ point \in {EQUIPMENT, INTOUCH, IFS, NETWORK, "record", "reply"}
        /\ point = "reply" => claimed = {}
    BY ONLY <2>1, ChainEnters
  <2> QED
    BY <2>2 DEF Verifying, Ended
<1>5. PhasesKept
  BY <1>2, <1>3, <1>4, PhaseWorking
<1> QED
  BY <1>1, <1>2, <1>5, StepReports

\* Each step of a request is a step of Revocation or does not show.
LEMMA RequestRefines ==
    ASSUME TypeOK, AllKnow, AllAccounted, AllStaged, NEW r \in Requests, RequestStep(r)
    PROVE  Promise!Next \/ UNCHANGED Promise!vars
<1>s. Staged(r) /\ Knows(r) /\ Accounted(r)
  BY DEF AllStaged, AllKnow, AllAccounted
<1>n. /\ Promise!Leave \/ Promise!Fail => Promise!Next
      /\ Promise!Begin(r) \/ Promise!Record(r) \/ Promise!Answer(r) \/ Promise!Deliver(r) => Promise!Next
      /\ \A s \in Systems : Promise!See(r, s) \/ Promise!Mislead(r, s) \/ Promise!FindRevoked(r, s)
                             => Promise!Next
      /\ \A s \in Systems : \A status \in {SUCCESS, FAILED} : Promise!Report(r, s, status) => Promise!Next
  <2>1. Promise!Leave \/ Promise!Fail => Promise!Next
    BY DEF Promise!Next
  <2>2. Promise!Begin(r) \/ Promise!Record(r) \/ Promise!Answer(r) \/ Promise!Deliver(r) => Promise!Next
    BY DEF Promise!Next
  <2>3. ASSUME NEW s \in Systems,
               Promise!See(r, s) \/ Promise!Mislead(r, s) \/ Promise!FindRevoked(r, s)
        PROVE  Promise!Next
    BY <2>3 DEF Promise!Next
  <2>4. ASSUME NEW s \in Systems, NEW status \in {SUCCESS, FAILED}, Promise!Report(r, s, status)
        PROVE  Promise!Next
    BY <2>4 DEF Promise!Next
  <2> QED
    BY <2>1, <2>2, <2>3, <2>4
<1>e. ASSUME Abort(r), pc[r] \notin Ended, UNCHANGED <<external, servicesMap, records, mail>>
      PROVE  Promise!Fail
  BY <1>e, StepFails DEF Abort, Told, external
\* A step within the blocks, or from one to the next, that tells HR nothing.
<1>w. ASSUME NEW point, Goto(r, point), Phase(r) = "revoking", point \notin Verifying,
             point \notin Ended, point = "reply" => revoked[r] = {}, UNCHANGED Told
      PROVE  PhasesKept
  BY <1>w, PhaseWorking DEF Told
<1> USE DEF Verifying, AtEquipment, AtInTouch, AtNetwork, Ended
<1>1. CASE Locate(r)
  <2>1. CASE Goto(r, "verify")
    <3>1. PhasesKept
      BY <1>1, <2>1, PhaseMoves DEF Locate, Phase, Goto, TypeOK
    <3> QED
      BY <1>1, <3>1, StepStutters DEF Locate, Told, stored, external
  <2>2. CASE Goto(r, "error")
    BY <1>1, <1>n, <2>2, StepFails DEF Locate, Told, stored, external
  <2> QED
    BY <1>1, <2>1, <2>2 DEF Locate
<1>2. ASSUME NEW s \in LookedUp, Lookup(r, s)
      PROVE  Promise!Next \/ UNCHANGED Promise!vars
  <2>1. PhasesKept /\ s \in Systems
    BY <1>2 DEF Lookup, PhasesKept, Phases, Phase, LookedUp, Systems
  <2>2. CASE servicesMap' = servicesMap
    BY <1>2, <2>1, <2>2, StepStutters DEF Lookup, Told, stored, external
  <2>3. CASE servicesMap' = [servicesMap EXCEPT ![r] = @ \cup {s}]
    <3>1. Promise!See(r, s)
      BY <1>2, <2>1, <2>3, OutIsExternal, PhaseOf
      DEF Promise!See, Lookup, PhasesKept, Phases, OutSet, stored, external
    <3> QED
      BY <1>n, <2>1, <3>1
  <2> QED
    BY <1>2, <2>2, <2>3 DEF Lookup
<1>3. CASE VerifyTimeout(r)
  BY <1>3, <1>n, StepFails DEF VerifyTimeout, Told, local, stored, external
<1>4. CASE VerifyDone(r)
  <2>1. revoked[r] = {} /\ Phase(r) = "verifying"
    BY <1>4, <1>s, PhaseOf DEF VerifyDone, Staged, InOrder
  <2>2. pc'[r] \in {EQUIPMENT, INTOUCH, IFS, NETWORK, "record", "reply"} /\ revoked'[r] = {}
    BY <1>4, <2>1, BlockOrder DEF VerifyDone, Goto, TypeOK
  <2>3. Phase(r)' = "revoking"
    BY <2>2 DEF Phase
  <2>4. PhaseSet(r, "revoking")
    BY <1>4, <2>3, PhaseMoves DEF VerifyDone
  <2>5. Promise!Begin(r)
    BY <1>4, <2>1, <2>4, OutIsExternal
    DEF Promise!Begin, VerifyDone, PhaseSet, Phases, OutSet, local, stored, external
  <2> QED
    BY <1>n, <2>5
<1>5. CASE EquipSearch(r)
  <2>1. Phase(r) = "revoking" /\ UNCHANGED Told /\ UNCHANGED external
    BY <1>5, PhaseOf DEF EquipSearch, Told, stored, external
  <2>2. PICK point \in {"template", AfterEquipment(servicesMap[r], revoked[r])} : Goto(r, point)
    BY <1>5 DEF EquipSearch
  <2>3. point \notin Verifying /\ point \notin Ended /\ (point = "reply" => revoked[r] = {})
    BY ChainEnters
  <2> QED
    BY <1>w, <2>1, <2>2, <2>3, StepStutters
<1>6. CASE TemplateFetch(r)
  <2>1. Phase(r) = "revoking" /\ UNCHANGED Told /\ UNCHANGED external /\ pc[r] \notin Ended
    BY <1>6, TemplateWrites, PhaseOf DEF TemplateFetch, Told, local, external
  <2>2. CASE Abort(r)
    BY <1>e, <1>n, <2>1, <2>2 DEF Told
  <2>3. ASSUME NEW point \in {"checkin", AfterEquipment(servicesMap[r], revoked[r])}, Goto(r, point)
        PROVE  UNCHANGED Promise!vars
    <3>1. point \notin Verifying /\ point \notin Ended /\ (point = "reply" => revoked[r] = {})
      BY <2>3, ChainEnters
    <3> QED
      BY <1>w, <2>1, <2>3, <3>1, StepStutters
  <2>4. Abort(r) \/ Goto(r, "checkin") \/ Goto(r, AfterEquipment(servicesMap[r], revoked[r]))
    BY <1>6 DEF TemplateFetch, NextAsset, Claimed
  <2> QED
    BY <2>2, <2>3, <2>4
<1>7. ASSUME NEW a \in Assets, CheckinCall(r, a)
      PROVE  Promise!Next \/ UNCHANGED Promise!vars
  <2>1. /\ Phase(r) = "revoking" /\ PhasesKept
        /\ UNCHANGED <<servicesMap, revoked, audit, records, mail>>
    BY <1>7, PhaseOf, PhaseWorking DEF CheckinCall, stored
  <2>2. a \in Assets \ Untagged /\ active' = active
    BY <1>7, <1>s DEF CheckinCall, Knows
  <2>3. CASE assets' = assets \ {a} /\ refused' = refused
    BY <1>n, <2>1, <2>2, <2>3, AssetLeaves, StepLeaves DEF Told
  <2>4. CASE UNCHANGED <<assets, refused>>
    BY <2>1, <2>2, <2>4, StepStutters DEF external, Told
  <2>5. CASE assets' = assets /\ refused' = refused \cup {r}
    <3>1. OutSet' = OutSet
      BY <2>2, <2>5 DEF OutSet, Out
    <3>2. refused' \X {EQUIPMENT} = (refused \X {EQUIPMENT}) \cup {<<r, EQUIPMENT>>}
      BY <2>5
    <3>3. Promise!Mislead(r, EQUIPMENT)
      BY <2>1, <3>1, <3>2 DEF Promise!Mislead, PhasesKept, Phases, OutSet
    <3> QED
      BY <1>n, <3>3 DEF Systems
  <2> QED
    BY <1>7, <2>3, <2>4, <2>5 DEF CheckinCall
<1>8. CASE CheckinAudit(r)
  <2>1. /\ pc[r] \in AtEquipment /\ Phase(r) = "revoking" /\ EQUIPMENT \in servicesMap[r]
        /\ UNCHANGED <<external, servicesMap, records, mail>>
    BY <1>8, <1>s, PhaseOf DEF CheckinAudit, Staged, Entered
  <2>2. CASE Abort(r)
    BY <1>e, <1>n, <2>1, <2>2
  <2> DEFINE ok  == answer[r] = "ok"
             any == anyReturned[r] \/ ok
  <2>3. /\ ok \in BOOLEAN /\ (ok => Warranted(r, EQUIPMENT))
        /\ any \in BOOLEAN /\ (any => Warranted(r, EQUIPMENT))
    BY <1>8, <1>s DEF CheckinAudit, Knows, TypeOK
  <2>4. ASSUME NEW status \in Statuses(r, ok), Log(r, EQUIPMENT, status), NextAsset(r, todo[r], any)
        PROVE  Promise!Next
    <3> HIDE DEF ok, any
    <3>1. status \in {SUCCESS, FAILED} /\ (status = SUCCESS => Warranted(r, EQUIPMENT))
      BY <2>3, <2>4, StatusesSound
    <3>2. \/ Warranted(r, EQUIPMENT) /\ revoked' = [revoked EXCEPT ![r] = @ \cup {EQUIPMENT}]
          \/ UNCHANGED revoked
      <4>1. CASE any
        BY <2>3, <2>4, <4>1 DEF NextAsset, Claimed
      <4>2. CASE ~any
        BY <2>4, <4>2 DEF NextAsset, Claimed, TypeOK
      <4> QED
        BY <4>1, <4>2
    <3>3. \A q \in Requests \ {r} : revoked'[q] = revoked[q]
      BY <3>2 DEF TypeOK
    <3>4. PICK point : /\ Goto(r, point) /\ point \notin Verifying /\ point \notin Ended
                       /\ point = "reply" => revoked'[r] = {}
      <4>1. CASE todo[r] # {}
        BY <2>4, <4>1 DEF NextAsset
      <4>2. CASE todo[r] = {}
        <5>1. revoked'[r] = Claimed(r, EQUIPMENT, any)
          BY <2>4, <4>2 DEF NextAsset, TypeOK
        <5>2. PICK point : /\ Goto(r, point)
                           /\ point = AfterEquipment(servicesMap[r], revoked'[r])
          BY <2>4, <4>2, <5>1 DEF NextAsset
        <5>3. /\ point \in {EQUIPMENT, INTOUCH, IFS, NETWORK, "record", "reply"}
              /\ point = "reply" => revoked'[r] = {}
          BY ONLY <5>2, ChainEnters
        <5> QED
          BY <5>2, <5>3
      <4> QED
        BY <4>1, <4>2
    <3>5. PhasesKept
      BY <2>1, <3>3, <3>4, PhaseWorking
    <3>6. Promise!Report(r, EQUIPMENT, status)
      BY <2>1, <2>4, <3>1, <3>2, <3>5, StepReports
    <3> QED
      BY <1>n, <3>1, <3>6 DEF Systems
  <2> QED
    BY <1>8, <2>2, <2>4 DEF CheckinAudit
<1>9. CASE InTouchCall(r)
  <2>1. PhasesKept /\ UNCHANGED Told /\ UNCHANGED <<assets, refused>>
    BY <1>9, <1>w, PhaseOf DEF InTouchCall, Told, stored
  <2>2. CASE active' = [active EXCEPT ![INTOUCH] = FALSE]
    BY <1>n, <2>1, <2>2, AccountLeaves, StepLeaves DEF Envs
  <2>3. CASE active' = active
    BY <2>1, <2>3, StepStutters DEF external
  <2> QED
    BY <1>9, <2>2, <2>3 DEF InTouchCall
<1>10. CASE InTouchAudit(r)
  <2>1. answer[r] = "ok" => Warranted(r, INTOUCH)
    BY <1>10, <1>s DEF InTouchAudit, Knows, Warranted
  <2> QED
    BY <1>10, <1>e, <1>n, <1>s, <2>1, UseCaseReports DEF InTouchAudit, local, Systems
<1>11. ASSUME NEW e \in Envs, IfsDisable(r, e)
       PROVE  Promise!Next \/ UNCHANGED Promise!vars
  <2>1. PhasesKept /\ UNCHANGED Told /\ UNCHANGED <<assets, refused>>
    BY <1>11 DEF IfsDisable, PhasesKept, Phases, Phase, Told, stored
  <2>2. CASE active' = [active EXCEPT ![e] = FALSE]
    BY <1>n, <2>1, <2>2, AccountLeaves, StepLeaves
  <2>3. CASE active' = active
    BY <2>1, <2>3, StepStutters DEF external
  <2> QED
    BY <1>11, <2>2, <2>3 DEF IfsDisable
<1>12. CASE IfsAudit(r)
  <2>1. IfsSuccess(r) \in BOOLEAN /\ (IfsSuccess(r) => Warranted(r, IFS))
    BY <1>s DEF IfsSuccess, Knows, Out, Warranted
  <2> QED
    BY <1>12, <1>e, <1>n, <1>s, <2>1, UseCaseReports DEF IfsAudit, local, Systems
<1>13. CASE AdSearch(r)
  <2>1. PhasesKept /\ UNCHANGED Told
    BY <1>13, <1>w, PhaseOf DEF AdSearch, Told, stored, external
  <2> QED
    BY <1>13, <2>1, StepStutters DEF AdSearch
<1>14. CASE AdWrite(r)
  <2>1. PhasesKept /\ UNCHANGED Told /\ UNCHANGED <<assets, refused>>
    BY <1>14, <1>w, PhaseOf DEF AdWrite, Told, stored
  <2>2. CASE active' = [active EXCEPT ![NETWORK] = FALSE]
    BY <1>n, <2>1, <2>2, AccountLeaves, StepLeaves DEF Envs
  <2>3. CASE active' = active
    BY <2>1, <2>3, StepStutters DEF external
  <2> QED
    BY <1>14, <2>2, <2>3 DEF AdWrite
<1>15. CASE AdAudit(r)
  <2>1. /\ answer[r] \in {"ok", "already"} => Out(NETWORK)
        /\ UNCHANGED <<external, servicesMap, records, mail>>
        /\ pc[r] = "ad_reply"
    BY <1>15, <1>s DEF AdAudit, Knows, local
  <2>2. CASE Abort(r)
    BY <1>e, <1>n, <2>1, <2>2
  <2>3. CASE /\ answer[r] = "already"
             /\ revoked' = [revoked EXCEPT ![r] = @ \cup {NETWORK}]
             /\ Goto(r, "record") /\ UNCHANGED audit
    <3>1. Phase(r) = "revoking" /\ NETWORK \in servicesMap[r] /\ Silent(r, NETWORK)
      BY <1>s, <2>1, PhaseOf DEF Staged, Entered, InOrder, UntilNetwork
    <3>2. PhasesKept
      BY <2>3, <3>1, PhaseWorking DEF TypeOK
    <3>3. \A row \in audit[r] : row = <<row[1], row[2]>> /\ row[2] \in {SUCCESS, FAILED}
      BY DEF TypeOK
    <3>4. Promise!Unreported(r, NETWORK)
      BY <3>1, <3>3 DEF Promise!Unreported, Silent
    <3>5. NETWORK \in {NETWORK} \cap OutSet
      BY <2>1, <2>3 DEF OutSet, Systems
    <3>6. Promise!FindRevoked(r, NETWORK)
      BY <2>1, <2>3, <3>1, <3>2, <3>4, <3>5, OutIsExternal
      DEF Promise!FindRevoked, Promise!Open, Promise!Claim, PhasesKept, Phases, OutSet, external
    <3> QED
      BY <1>n, <3>6 DEF Systems
  <2>4. ASSUME NEW status \in Statuses(r, answer[r] = "ok"), Log(r, NETWORK, status),
               revoked' = [revoked EXCEPT ![r] = Claimed(r, NETWORK, status = SUCCESS)],
               Goto(r, AfterNetwork(Claimed(r, NETWORK, status = SUCCESS)))
        PROVE  Promise!Next
    BY <1>n, <1>s, <2>1, <2>4, UseCaseReports DEF Systems, Warranted
  <2> QED
    BY <1>15, <2>2, <2>3, <2>4 DEF AdAudit
<1>16. CASE PersistRecord(r)
  <2>1. revoked[r] # {} /\ Phase(r) = "revoking"
    BY <1>16, <1>s, PhaseOf DEF PersistRecord, Staged, Entered
  <2>2. PICK point \in {"reply", "error"} : Goto(r, point)
    BY <1>16 DEF PersistRecord
  <2>3. Phase(r)' = IF point = "reply" THEN "recorded" ELSE "failed"
    BY <1>16, <2>1, <2>2 DEF PersistRecord, Phase, Goto, TypeOK
  <2>4. \E next \in {"recorded", "failed"} : PhaseSet(r, next)
    BY <1>16, <2>2, <2>3, PhaseMoves DEF PersistRecord
  <2>5. Promise!Record(r)
    BY <1>16, <2>1, <2>4, OutIsExternal
    DEF Promise!Record, PersistRecord, PhaseSet, Phases, OutSet, local, external
  <2> QED
    BY <1>n, <2>5
<1>17. CASE Reply(r)
  <2>1. Phase(r) = IF revoked[r] = {} THEN "revoking" ELSE "recorded"
    BY <1>17, PhaseOf DEF Reply
  <2>2. Phase(r)' = "answered"
    BY <1>17 DEF Reply, Phase, Goto, TypeOK
  <2>3. PhaseSet(r, "answered")
    BY <1>17, <2>2, PhaseMoves DEF Reply
  <2>4. \A s \in servicesMap[r] \ {EQUIPMENT} : Done(r, s)
    <3>1. servicesMap[r] \ {EQUIPMENT} \subseteq {INTOUCH, IFS, NETWORK}
      BY DEF TypeOK, Systems
    <3> QED
      BY <1>17, <1>s, <3>1 DEF Reply, Accounted, PastNetwork, PastIfs, PastInTouch
  <2>5. Promise!Answer(r)
    BY <1>17, <2>1, <2>3, <2>4, OutIsExternal
    DEF Promise!Answer, Reply, Done, PhaseSet, Phases, OutSet, local, stored, external
  <2> QED
    BY <1>n, <2>5
<1>18. CASE SendEmail(r)
  <2>1. PhasesKept
    BY <1>18 DEF SendEmail, PhasesKept, Phases, Phase
  <2>2. Promise!Deliver(r)
    BY <1>18, <2>1, OutIsExternal
    DEF Promise!Deliver, SendEmail, PhasesKept, Phases, OutSet, local, stored, external
  <2> QED
    BY <1>n, <2>2
<1> QED
  BY <1>1, <1>2, <1>3, <1>4, <1>5, <1>6, <1>7, <1>8, <1>9, <1>10, <1>11, <1>12, <1>13,
     <1>14, <1>15, <1>16, <1>17, <1>18
  DEF RequestStep, LoopStep, HttpStep, LdapStep

\* The end of the process and the manual endpoints are steps of Revocation too.
LEMMA EnvironmentRefines ==
    ASSUME TypeOK, Environment \/ Crash
    PROVE  Promise!Next \/ UNCHANGED Promise!vars
<1>n. Promise!Leave \/ Promise!ComeBack \/ Promise!Fail => Promise!Next
  BY DEF Promise!Next
<1>k. ASSUME UNCHANGED <<pc, revoked>>
      PROVE  PhasesKept
  BY <1>k DEF PhasesKept, Phases, Phase
<1>1. CASE Crash
  <2>1. \E R \in SUBSET {r \in Requests : Phases[r] \notin {"answered", "failed"}} :
           Phases' = [r \in Requests |-> IF r \in R THEN "failed" ELSE Phases[r]]
    <3> DEFINE R == {r \in Requests : Live(r)}
    <3>1. \A r \in R : Phase(r) \notin {"answered", "failed"}
      BY DEF Live, Running, Busy, Phase, Ended
    <3>2. \A r \in Requests : Phase(r)' = IF r \in R THEN "failed" ELSE Phase(r)
      BY <1>1 DEF Crash, Phase, Ended
    <3>3. R \in SUBSET {r \in Requests : Phases[r] \notin {"answered", "failed"}}
      BY <3>1 DEF Phases
    <3>4. Phases' = [r \in Requests |-> IF r \in R THEN "failed" ELSE Phases[r]]
      BY <3>2 DEF Phases
    <3> HIDE DEF R
    <3> QED
      BY <3>3, <3>4
  <2>2. \E M \in SUBSET {r \in Requests : mail[r] = "queued"} :
           mail' = [r \in Requests |-> IF r \in M THEN "lost" ELSE mail[r]]
    <3> DEFINE M == {r \in Requests : mail[r] = "queued"}
    <3>1. mail' = [r \in Requests |-> IF r \in M THEN "lost" ELSE mail[r]]
      BY <1>1 DEF Crash
    <3> QED
      BY <3>1
  <2>3. OutSet' = OutSet /\ UNCHANGED <<servicesMap, revoked, audit, records, refused>>
    BY <1>1, OutIsExternal DEF Crash, local, stored, external
  <2> QED
    BY <1>n, <2>1, <2>2, <2>3 DEF Promise!Fail, Phases, OutSet
<1>2. CASE ManualActivateInTouch
  <2>1. PhasesKept /\ UNCHANGED Told
    BY <1>2, <1>k DEF ManualActivateInTouch, Told, local, stored
  <2>2. \A a \in Accounts : active'[a] = IF a = INTOUCH THEN TRUE ELSE active[a]
    BY <1>2 DEF ManualActivateInTouch, TypeOK
  <2>3. OutSet' = OutSet \ {INTOUCH}
    <3>1. ASSUME NEW t \in Systems
          PROVE  Out(t)' <=> Out(t) /\ t # INTOUCH
      BY <1>2, <2>2 DEF ManualActivateInTouch, Out, Accounts, Systems, Envs
    <3> QED
      BY <3>1 DEF OutSet
  <2>4. Promise!ComeBack
    BY <2>1, <2>3 DEF Promise!ComeBack, Promise!progress, PhasesKept, Phases, OutSet, Told
  <2> QED
    BY <1>n, <2>4
<1>3. ASSUME NEW a \in {INTOUCH, NETWORK}, ManualDisable(a)
      PROVE  Promise!Next
  <2>1. PhasesKept /\ UNCHANGED Told
    BY <1>3, <1>k DEF ManualDisable, Told, local, stored
  <2> QED
    BY <1>3, <1>n, <2>1, AccountLeaves, StepLeaves DEF ManualDisable, Envs
<1>4. ASSUME NEW a \in Assets, ManualCheckin(a)
      PROVE  Promise!Next
  <2>1. PhasesKept /\ UNCHANGED Told
    BY <1>4, <1>k DEF ManualCheckin, Told, local, stored
  <2> QED
    BY <1>4, <1>n, <2>1, AssetLeaves, StepLeaves DEF ManualCheckin
<1> QED
  BY <1>1, <1>2, <1>3, <1>4 DEF Environment

\* Before any request, Revocation has not begun either.
LEMMA InitRefines == Init => Promise!Init /\ AllStaged
<1> SUFFICES ASSUME Init PROVE Promise!Init /\ AllStaged
  OBVIOUS
<1>1. \A r \in Requests : Phase(r) = "verifying"
  BY DEF Init, Phase
<1>2. Promise!Init
  BY <1>1 DEF Init, Promise!Init
<1>3. AllStaged
  BY DEF Init, AllStaged, Staged, Entered, InOrder, Silent, AtEquipment, AtInTouch, AtNetwork
<1> QED
  BY <1>2, <1>3

\* What the offboarding endpoint promises HR holds of any number of concurrent
\* executions, through crashes, failures of every step and manual interventions.
THEOREM KeepsItsPromise == Spec => Promised
<1>1. TypeOK /\ AllKnow /\ AllAccounted /\ AllStaged /\ [Next]_vars => [Promise!Next]_(Promise!vars)
  <2> SUFFICES ASSUME TypeOK, AllKnow, AllAccounted, AllStaged, [Next]_vars
               PROVE  Promise!Next \/ UNCHANGED Promise!vars
    OBVIOUS
  <2>1. CASE UNCHANGED served
    <3>1. PhasesKept
      BY <2>1 DEF served, PhasesKept, Phases, Phase
    <3> QED
      BY <2>1, <3>1, StepStutters DEF served, Told, local, stored, external
  <2> QED
    BY <2>1, RequestRefines, EnvironmentRefines DEF Next, DirectoryHangs, vars
<1>2. Init => AllAccounted
  BY DEF Init, AllAccounted, Accounted, PastNetwork, PastIfs, PastInTouch
<1>3. Spec => [](TypeOK /\ AllKnow)
  BY TypeCorrect, KnowsInit, KnowsStep, PTL DEF Spec
<1>4. Spec => []AllAccounted
  BY <1>2, <1>3, AccountedStep, PTL DEF Spec
<1>5. Spec => []AllStaged
  BY <1>3, InitRefines, StagedStep, PTL DEF Spec
<1> QED
  BY <1>1, <1>3, <1>4, <1>5, InitRefines, PTL DEF Spec, Promised, Promise!Spec
=============================================================================
