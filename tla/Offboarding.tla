------------------------------ MODULE Offboarding ------------------------------
(***************************************************************************)
(* The offboarding orchestrator: POST /offboarding/execute/{registration}  *)
(* (src/app/modules/offboarding) running for ONE employee, any number of   *)
(* times and concurrently, against the external systems it revokes.        *)
(*                                                                         *)
(* A request is a coroutine on the single event loop of the process.  It   *)
(* gives the loop up at each await.  Its synchronous stretches (the        *)
(* InTouch call made with the blocking `requests' library, the audit       *)
(* commits, the persistence of the record) are never interleaved with      *)
(* another coroutine: CanRun.  What happens in a worker thread (LDAP) or   *)
(* on a remote server (httpx calls) interleaves with everything.           *)
(***************************************************************************)

CONSTANTS Requests,   \* executions of the endpoint; a client's retry is another one
          Assets,     \* the equipment assigned to the employee in Snipe-IT at the start
          Untagged,   \* the assets that carry no asset_tag
          Holds,      \* the accounts of the employee that are active at the start
          FirstSearch \* whether the search that names the employee may find one, or not

\* OffboardingSystem
NETWORK   == "Network"
INTOUCH   == "InTouch"
EQUIPMENT == "Equipamentos"
ACCESS    == "Acesso"
IFS       == "IFS"

Systems == {NETWORK, INTOUCH, EQUIPMENT, ACCESS, IFS}

\* The two IFS installations are separate accounts.
Envs     == {"IFS_PRD", "IFS_TST"}
Accounts == {NETWORK, INTOUCH, ACCESS} \cup Envs

ASSUME ConstantsAssumption == /\ Untagged \subseteq Assets
                              /\ Holds \subseteq Accounts
                              /\ FirstSearch \subseteq BOOLEAN

SUCCESS == "success"
FAILED  == "failed"

VARIABLES
    pc,           \* where each request is
    found,        \* what the first InTouch search answered
    pending,      \* lookups of verify_services still unanswered
    servicesMap,  \* the systems verify_services saw active
    todo,         \* assets checkin_assets has still to process
    anyReturned,  \* any_success of checkin_assets
    answer,       \* the outcome of the last external call
    ifsAnswer,    \* the outcome of disable_employee in each installation
    revoked,      \* successfully_revoked
    active,       \* external: is each account active?
    assets,       \* external: equipment assigned to the employee in Snipe-IT
    refused,      \* history: the requests with a check-in refused with status 200
    hung,         \* whether Active Directory hangs a manual call that holds the loop
    audit,        \* database: audit rows of each request, <<system, status>>
    records,      \* database: systems in the offboarding record, {} if none
    mail          \* the notification of each request

local    == <<found, pending, servicesMap, todo, anyReturned, answer, ifsAnswer>>
external == <<active, assets, refused>>
stored   == <<audit, records>>
served   == <<pc, local, revoked, external, stored, mail>>
vars     == <<served, hung>>

LookedUp == {NETWORK, INTOUCH, EQUIPMENT, IFS}

\* Points where a coroutine holds the loop: no await before its next step.
Busy == {INTOUCH, "intouch_reply", "record", "reply"}

\* Points of a request that has started and has not ended.
Running == {"verify", EQUIPMENT, "template", "checkin", "checkin_reply",
            IFS, NETWORK, "ad_write", "ad_reply"} \cup Busy

Ended == {"responded", "timeout", "error", "lost"}

Live(r)   == pc[r] \in Running
CanRun(r) == ~hung /\ \A q \in Requests \ {r} : pc[q] \notin Busy

\* Fault: a second worker process, or a blocking call moved to a thread.
LoopNeverHeld == TRUE

LoopIdle == ~hung /\ \A q \in Requests : pc[q] \notin Busy

Init ==
    /\ pc = [r \in Requests |-> "idle"]
    /\ found = [r \in Requests |-> FALSE]
    /\ pending = [r \in Requests |-> LookedUp]
    /\ servicesMap = [r \in Requests |-> {}]
    /\ todo = [r \in Requests |-> {}]
    /\ anyReturned = [r \in Requests |-> FALSE]
    /\ answer = [r \in Requests |-> "none"]
    /\ ifsAnswer = [r \in Requests |-> [e \in Envs |-> "none"]]
    /\ revoked = [r \in Requests |-> {}]
    /\ active = [a \in Accounts |-> a \in Holds]
    /\ assets = Assets
    /\ refused = {}
    /\ hung = FALSE
    /\ audit = [r \in Requests |-> {}]
    /\ records = [r \in Requests |-> {}]
    /\ mail = [r \in Requests |-> "none"]

-----------------------------------------------------------------------------
(* The sequence of blocks of execute_offboarding: each is entered when the *)
(* services map says so, in this order.                                    *)

AfterNetwork(claimed) == IF claimed = {} THEN "reply" ELSE "record"

\* Fault: `elif' chains of the blocks.
AfterIfsElif(map, claimed) ==
    IF NETWORK \in map /\ claimed = {} THEN NETWORK ELSE AfterNetwork(claimed)

AfterIfs(map, claimed) == IF NETWORK \in map THEN NETWORK ELSE AfterNetwork(claimed)

AfterInTouchElif(map, claimed) ==
    IF IFS \in map /\ claimed = {} THEN IFS ELSE AfterIfs(map, claimed)

AfterInTouch(map, claimed) == IF IFS \in map THEN IFS ELSE AfterIfs(map, claimed)

AfterEquipment(map, claimed) ==
    IF INTOUCH \in map THEN INTOUCH ELSE AfterInTouch(map, claimed)

FirstBlock(map) == IF EQUIPMENT \in map THEN EQUIPMENT ELSE AfterEquipment(map, {})

\* Faults: the wrong enum member appended; the returned flag not tested.
ClaimedAsAccess(r, s, success) == IF success THEN revoked[r] \cup {ACCESS} ELSE revoked[r]
ClaimedAnyway(r, s, success)   == revoked[r] \cup {s}

\* successfully_revoked after a use case of system s returned `success'.
Claimed(r, s, success) == IF success THEN revoked[r] \cup {s} ELSE revoked[r]

Goto(r, point) == pc' = [pc EXCEPT ![r] = point]

\* An exception nobody catches: the request ends with status 500.
Abort(r) == /\ Goto(r, "error")
            /\ UNCHANGED <<revoked, audit>>

\* Fault: the row is written before the outcome is known.
StatusesOptimistic(r, success) == {SUCCESS}

\* The status the row written for a use case can carry.  After an earlier
\* commit of the same session `current_user' is expired: when its reload fails
\* once, the exception handler of the use case writes a FAILED row instead.
Statuses(r, success) ==
    {IF success THEN SUCCESS ELSE FAILED} \cup (IF audit[r] = {} THEN {} ELSE {FAILED})

Log(r, s, status) == audit' = [audit EXCEPT ![r] = @ \cup {<<s, status>>}]

-----------------------------------------------------------------------------
(* execute_offboarding, up to the services map *)

\* The InTouch search that names the employee.  Its result object is truthy
\* whether or not the employee was found, so both continue; only an exception
\* (a body that is not JSON) ends the request here.
Locate(r) ==
    /\ pc[r] = "idle"
    /\ CanRun(r)
    /\ \/ /\ \E b \in FirstSearch : found' = [found EXCEPT ![r] = b]
          /\ Goto(r, "verify")
       \/ /\ Goto(r, "error")
          /\ UNCHANGED found
    /\ UNCHANGED <<pending, servicesMap, todo, anyReturned, answer, ifsAnswer,
                   revoked, external, stored, mail>>

\* What a lookup of system s sees.  IFS is looked up in production only.
SeenActive(s) ==
    \/ s = EQUIPMENT /\ assets # {}
    \/ s = IFS /\ active["IFS_PRD"]
    \/ s \in {NETWORK, INTOUCH} /\ active[s]

\* One of the concurrent lookups ends: with an answer, or with an error that
\* verify_services treats like "not active".
Lookup(r, s) ==
    /\ pc[r] = "verify"
    /\ s \in pending[r]
    /\ pending' = [pending EXCEPT ![r] = @ \ {s}]
    /\ \/ /\ SeenActive(s)
          /\ servicesMap' = [servicesMap EXCEPT ![r] = @ \cup {s}]
       \/ UNCHANGED servicesMap
    /\ UNCHANGED <<pc, found, todo, anyReturned, answer, ifsAnswer,
                   revoked, external, stored, mail>>

\* Fault: gather without wait_for.
VerifyNoTimeout(r) == FALSE

\* asyncio.wait_for expires: 504.
VerifyTimeout(r) ==
    /\ pc[r] = "verify"
    /\ CanRun(r)
    /\ pending[r] # {}
    /\ Goto(r, "timeout")
    /\ UNCHANGED <<local, revoked, external, stored, mail>>

VerifyDone(r) ==
    /\ pc[r] = "verify"
    /\ CanRun(r)
    /\ pending[r] = {}
    /\ Goto(r, FirstBlock(servicesMap[r]))
    /\ UNCHANGED <<local, revoked, external, stored, mail>>

-----------------------------------------------------------------------------
(* checkin_assets *)

\* The end of an iteration over the assets: the next one, or the end of the use
\* case, which succeeded if any asset was returned.
NextAsset(r, left, any) ==
    IF left # {}
    THEN Goto(r, "checkin") /\ UNCHANGED revoked
    ELSE LET claimed == Claimed(r, EQUIPMENT, any)
         IN  /\ revoked' = [revoked EXCEPT ![r] = claimed]
             /\ Goto(r, AfterEquipment(servicesMap[r], claimed))

\* The assets are searched again.  An error or an empty list ends the use case
\* with False and without an audit row.
EquipSearch(r) ==
    /\ pc[r] = EQUIPMENT
    /\ CanRun(r)
    /\ \/ /\ assets # {}
          /\ todo' = [todo EXCEPT ![r] = assets \ Untagged]
          /\ Goto(r, "template")
       \/ /\ Goto(r, AfterEquipment(servicesMap[r], revoked[r]))
          /\ UNCHANGED todo
    /\ UNCHANGED <<found, pending, servicesMap, anyReturned, answer, ifsAnswer,
                   revoked, external, stored, mail>>

\* The template of the terms: one found or none (ValueError) go on; an HTTP
\* error is not caught.
TemplateFetch(r) ==
    /\ pc[r] = "template"
    /\ CanRun(r)
    /\ \/ NextAsset(r, todo[r], FALSE) /\ UNCHANGED audit
       \/ Abort(r)
    /\ UNCHANGED <<local, external, records, mail>>

\* The check-in of an asset in Snipe-IT: done and acknowledged, done with the
\* acknowledgement lost, not done, or refused with status 200 and an error in the
\* body: only the status is tested, so that this is success too.
CheckinCall(r, a) ==
    /\ pc[r] = "checkin"
    /\ a \in todo[r]
    /\ todo' = [todo EXCEPT ![r] = @ \ {a}]
    /\ \/ /\ assets' = assets \ {a}
          /\ \E reply \in {"ok", "fail"} : answer' = [answer EXCEPT ![r] = reply]
          /\ UNCHANGED refused
       \/ /\ answer' = [answer EXCEPT ![r] = "fail"]
          /\ UNCHANGED <<assets, refused>>
       \/ /\ answer' = [answer EXCEPT ![r] = "ok"]
          /\ refused' = refused \cup {r}
          /\ UNCHANGED assets
    /\ Goto(r, "checkin_reply")
    /\ UNCHANGED <<found, pending, servicesMap, anyReturned, ifsAnswer,
                   revoked, active, stored, mail>>

\* any_success is set before the row is written, so it stays set when the row
\* that is finally written says FAILED.
CheckinAudit(r) ==
    /\ pc[r] = "checkin_reply"
    /\ CanRun(r)
    /\ LET ok  == answer[r] = "ok"
           any == anyReturned[r] \/ ok
       IN  /\ anyReturned' = [anyReturned EXCEPT ![r] = any]
           /\ \/ /\ \E status \in Statuses(r, ok) : Log(r, EQUIPMENT, status)
                 /\ NextAsset(r, todo[r], any)
              \/ Abort(r)
    /\ UNCHANGED <<found, pending, servicesMap, todo, answer, ifsAnswer,
                   external, records, mail>>

-----------------------------------------------------------------------------
(* disable_intouch_access *)

\* deactivate_user_intouch: search and PUT block the loop.  A user found
\* deactivated already is a success.
InTouchCall(r) ==
    /\ pc[r] = INTOUCH
    /\ CanRun(r)
    /\ \/ /\ active' = [active EXCEPT ![INTOUCH] = FALSE]
          /\ \E reply \in {"ok", "fail"} : answer' = [answer EXCEPT ![r] = reply]
       \/ /\ answer' = [answer EXCEPT ![r] = "fail"]
          /\ UNCHANGED active
    /\ Goto(r, "intouch_reply")
    /\ UNCHANGED <<found, pending, servicesMap, todo, anyReturned, ifsAnswer,
                   revoked, assets, refused, stored, mail>>

InTouchAudit(r) ==
    /\ pc[r] = "intouch_reply"
    /\ CanRun(r)
    /\ \/ \E status \in Statuses(r, answer[r] = "ok") :
             LET claimed == Claimed(r, INTOUCH, status = SUCCESS)
             IN  /\ Log(r, INTOUCH, status)
                 /\ revoked' = [revoked EXCEPT ![r] = claimed]
                 /\ Goto(r, AfterInTouch(servicesMap[r], claimed))
       \/ Abort(r)
    /\ UNCHANGED <<local, external, records, mail>>

-----------------------------------------------------------------------------
(* disable_ifs_access *)

\* disable_employee in one installation: person, user with its ETag, PATCH.
IfsDisable(r, e) ==
    /\ pc[r] = IFS
    /\ ifsAnswer[r][e] = "none"
    /\ \/ /\ active' = [active EXCEPT ![e] = FALSE]
          /\ \E reply \in {"ok", "fail"} : ifsAnswer' = [ifsAnswer EXCEPT ![r][e] = reply]
       \/ /\ ifsAnswer' = [ifsAnswer EXCEPT ![r][e] = "fail"]
          /\ UNCHANGED active
    /\ UNCHANGED <<pc, found, pending, servicesMap, todo, anyReturned, answer,
                   revoked, assets, refused, stored, mail>>

\* overall_success
IfsSuccess(r) == \E e \in Envs : ifsAnswer[r][e] = "ok"

IfsAudit(r) ==
    /\ pc[r] = IFS
    /\ CanRun(r)
    /\ \A e \in Envs : ifsAnswer[r][e] # "none"
    /\ \/ \E status \in Statuses(r, IfsSuccess(r)) :
             LET claimed == Claimed(r, IFS, status = SUCCESS)
             IN  /\ Log(r, IFS, status)
                 /\ revoked' = [revoked EXCEPT ![r] = claimed]
                 /\ Goto(r, AfterIfs(servicesMap[r], claimed))
       \/ Abort(r)
    /\ UNCHANGED <<local, external, records, mail>>

-----------------------------------------------------------------------------
(* disable_ad_account: ADService.disable_user runs in a worker thread *)

\* get_unique_user and the test of the account it returns.
AdSearch(r) ==
    /\ pc[r] = NETWORK
    /\ \/ /\ answer' = [answer EXCEPT ![r] = "fail"]
          /\ Goto(r, "ad_reply")
       \/ /\ ~active[NETWORK]
          /\ answer' = [answer EXCEPT ![r] = "already"]
          /\ Goto(r, "ad_reply")
       \/ /\ active[NETWORK]
          /\ Goto(r, "ad_write")
          /\ UNCHANGED answer
    /\ UNCHANGED <<found, pending, servicesMap, todo, anyReturned, ifsAnswer,
                   revoked, external, stored, mail>>

\* Description, userAccountControl and move: all done, or the account disabled
\* and an error afterwards, or an error before.
AdWrite(r) ==
    /\ pc[r] = "ad_write"
    /\ \/ /\ active' = [active EXCEPT ![NETWORK] = FALSE]
          /\ \E reply \in {"ok", "fail"} : answer' = [answer EXCEPT ![r] = reply]
       \/ /\ answer' = [answer EXCEPT ![r] = "fail"]
          /\ UNCHANGED active
    /\ Goto(r, "ad_reply")
    /\ UNCHANGED <<found, pending, servicesMap, todo, anyReturned, ifsAnswer,
                   revoked, assets, refused, stored, mail>>

\* "already_disabled" is claimed and writes no row.
AdAudit(r) ==
    /\ pc[r] = "ad_reply"
    /\ CanRun(r)
    /\ \/ /\ answer[r] = "already"
          /\ revoked' = [revoked EXCEPT ![r] = @ \cup {NETWORK}]
          /\ Goto(r, "record")
          /\ UNCHANGED audit
       \/ /\ answer[r] # "already"
          /\ \E status \in Statuses(r, answer[r] = "ok") :
                LET claimed == Claimed(r, NETWORK, status = SUCCESS)
                IN  /\ Log(r, NETWORK, status)
                    /\ revoked' = [revoked EXCEPT ![r] = claimed]
                    /\ Goto(r, AfterNetwork(claimed))
       \/ /\ answer[r] # "already"
          /\ Abort(r)
    /\ UNCHANGED <<local, external, records, mail>>

-----------------------------------------------------------------------------
(* The record, the answer and the notification *)

\* create_offboarding_record.  A failed COMMIT is swallowed; a failed flush
\* expires current_user, whose next use raises; after a good commit current_user
\* is expired too and its reload may fail.
PersistRecord(r) ==
    /\ pc[r] = "record"
    /\ CanRun(r)
    /\ \/ /\ records' = [records EXCEPT ![r] = revoked[r]]
          /\ \E point \in {"reply", "error"} : Goto(r, point)
       \/ /\ \E point \in {"reply", "error"} : Goto(r, point)
          /\ UNCHANGED records
    /\ UNCHANGED <<local, revoked, external, audit, mail>>

\* Fault: the notification is dispatched outside of `if successfully_revoked'.
ReplyAndMail(r) ==
    /\ pc[r] = "reply"
    /\ CanRun(r)
    /\ Goto(r, "responded")
    /\ mail' = [mail EXCEPT ![r] = "queued"]
    /\ UNCHANGED <<local, revoked, external, stored>>

Reply(r) ==
    /\ pc[r] = "reply"
    /\ CanRun(r)
    /\ Goto(r, "responded")
    /\ mail' = IF revoked[r] = {} THEN mail ELSE [mail EXCEPT ![r] = "queued"]
    /\ UNCHANGED <<local, revoked, external, stored>>

\* A background task of the response; an SMTP error is nobody's business.
SendEmail(r) ==
    /\ mail[r] = "queued"
    /\ CanRun(r)
    /\ \E outcome \in {"sent", "lost"} : mail' = [mail EXCEPT ![r] = outcome]
    /\ UNCHANGED <<pc, local, revoked, external, stored>>

-----------------------------------------------------------------------------
(* The environment *)

\* The process stops (`restart: always'): what was in memory is gone.
Crash ==
    /\ hung \/ \E r \in Requests : Live(r) \/ mail[r] = "queued"
    /\ pc' = [r \in Requests |-> IF Live(r) THEN "lost" ELSE pc[r]]
    /\ mail' = [r \in Requests |-> IF mail[r] = "queued" THEN "lost" ELSE mail[r]]
    /\ hung' = FALSE
    /\ UNCHANGED <<local, revoked, external, stored>>

\* POST /intouch/activate: blocks the loop from its search to its PUT.
ManualActivateInTouch ==
    /\ LoopIdle
    /\ INTOUCH \in Holds
    /\ ~active[INTOUCH]
    /\ active' = [active EXCEPT ![INTOUCH] = TRUE]
    /\ UNCHANGED <<pc, local, revoked, assets, refused, stored, mail>>

\* POST /intouch/disable and POST /aduser/disable block the loop too.
ManualDisable(a) ==
    /\ LoopIdle
    /\ active[a]
    /\ active' = [active EXCEPT ![a] = FALSE]
    /\ UNCHANGED <<pc, local, revoked, assets, refused, stored, mail>>

\* GET /aduser/ and POST /aduser/disable wait for the directory on the loop thread
\* and without a timeout: one that never answers ends everything but the threads
\* and the servers that are at work already.
DirectoryHangs ==
    /\ LoopIdle
    /\ hung' = TRUE
    /\ UNCHANGED served

\* POST /offboarding/checkin
ManualCheckin(a) ==
    /\ a \in assets \ Untagged
    /\ assets' = assets \ {a}
    /\ UNCHANGED <<pc, local, revoked, active, refused, stored, mail>>

-----------------------------------------------------------------------------
\* Steps the event loop takes for r.
LoopStep(r) ==
    \/ VerifyTimeout(r) \/ VerifyDone(r)
    \/ EquipSearch(r) \/ TemplateFetch(r) \/ CheckinAudit(r)
    \/ InTouchCall(r) \/ InTouchAudit(r)
    \/ IfsAudit(r) \/ AdAudit(r)
    \/ PersistRecord(r) \/ Reply(r)

\* Effects of r's HTTP calls; each call has a timeout.
HttpStep(r) ==
    \/ \E a \in Assets : CheckinCall(r, a)
    \/ \E e \in Envs : IfsDisable(r, e)

\* Effects of r's LDAP calls; they have none.
LdapStep(r) == AdSearch(r) \/ AdWrite(r)

RequestStep(r) ==
    \/ Locate(r)
    \/ \E s \in LookedUp : Lookup(r, s)
    \/ LoopStep(r) \/ HttpStep(r) \/ LdapStep(r) \/ SendEmail(r)

Environment ==
    \/ ManualActivateInTouch
    \/ \E a \in {INTOUCH, NETWORK} : ManualDisable(a)
    \/ \E a \in Assets : ManualCheckin(a)

Next ==
    \/ UNCHANGED hung /\ ((\E r \in Requests : RequestStep(r)) \/ Environment)
    \/ DirectoryHangs
    \/ Crash

Spec == Init /\ [][Next]_vars

\* While no call hangs on it, the loop runs every ready coroutine and gives up every
\* HTTP call after a while; an LDAP call need not end.
Fairness == \A r \in Requests : /\ WF_vars(UNCHANGED hung /\ LoopStep(r))
                                /\ WF_vars(~hung /\ UNCHANGED hung /\ HttpStep(r))
                                /\ WF_vars(UNCHANGED hung /\ SendEmail(r))

FairSpec == Spec /\ Fairness

-----------------------------------------------------------------------------
(* Properties *)

Points == {"idle"} \cup Running \cup Ended

\* Every variable keeps its shape; ACCESS is never among the systems of a map, a
\* claim or a record (verify_services does not look the turnstiles up).
TypeOK ==
    /\ pc \in [Requests -> Points]
    /\ found \in [Requests -> BOOLEAN]
    /\ pending \in [Requests -> SUBSET (Systems \ {ACCESS})]
    /\ servicesMap \in [Requests -> SUBSET (Systems \ {ACCESS})]
    /\ todo \in [Requests -> SUBSET Assets]
    /\ anyReturned \in [Requests -> BOOLEAN]
    /\ answer \in [Requests -> {"none", "ok", "fail", "already"}]
    /\ ifsAnswer \in [Requests -> [Envs -> {"none", "ok", "fail"}]]
    /\ revoked \in [Requests -> SUBSET (Systems \ {ACCESS})]
    /\ active \in [Accounts -> BOOLEAN]
    /\ assets \in SUBSET Assets
    /\ refused \in SUBSET Requests
    /\ hung \in BOOLEAN
    /\ audit \in [Requests -> SUBSET ((Systems \ {ACCESS}) \X {SUCCESS, FAILED})]
    /\ records \in [Requests -> SUBSET (Systems \ {ACCESS})]
    /\ mail \in [Requests -> {"none", "queued", "sent", "lost"}]

\* The employee is out of system s (out of one IFS installation, rid of one
\* tagged asset).
Out(s) ==
    \/ s = EQUIPMENT /\ \E a \in Assets \ Untagged : a \notin assets
    \/ s = IFS /\ \E e \in Envs : ~active[e]
    \/ s \in {NETWORK, INTOUCH, ACCESS} /\ ~active[s]

\* A request may say that the employee is out of s: he is, or Snipe-IT refused the
\* request a check-in in a way that the code takes for a success.
Warranted(r, s) == Out(s) \/ (s = EQUIPMENT /\ r \in refused)

\* A system enters successfully_revoked only while the employee is out of it,
\* whatever other requests and the manual endpoints did since the call: for
\* InTouch, which can be activated again, this rests on the event loop not being
\* released between the call and the claim.  Equipment that Snipe-IT refused with
\* status 200 is the one exception.
ClaimJustified ==
    [][\A r \in Requests : \A s \in revoked'[r] \ revoked[r] : Warranted(r, s)]_vars

\* A request that answered accounts for every account the verification saw
\* active: it is in `details', or a FAILED row says it was attempted in vain.
\* No block of execute_offboarding is skipped by the outcome of an earlier one.
NoSilentDrop ==
    \A r \in Requests : pc[r] = "responded" =>
        \A s \in servicesMap[r] \ {EQUIPMENT} :
            s \in revoked[r] \/ <<s, FAILED>> \in audit[r]

\* A SUCCESS row of the audit trail is true from then on, of requests that
\* crashed or failed too (InTouch excepted: users can be activated again; and
\* equipment that Snipe-IT refused to take back with status 200).
AuditTruth ==
    \A r \in Requests : \A s \in Systems \ {INTOUCH} :
        <<s, SUCCESS>> \in audit[r] => Warranted(r, s)

\* The history never says more than the audit trail: what a record lists was
\* claimed by its request, InTouch and IFS with a SUCCESS row, equipment with a
\* row, the network with a SUCCESS row unless it was disabled already.
RecordSound ==
    \A r \in Requests :
        /\ records[r] \subseteq revoked[r]
        /\ \A s \in records[r] \ {EQUIPMENT, NETWORK} : <<s, SUCCESS>> \in audit[r]
        /\ EQUIPMENT \in records[r] =>
               \E status \in {SUCCESS, FAILED} : <<EQUIPMENT, status>> \in audit[r]
        /\ NETWORK \in records[r] =>
               answer[r] = "already" \/ <<NETWORK, SUCCESS>> \in audit[r]

\* Where a request is, as HR sees it.
Phase(r) ==
    IF pc[r] \in {"idle", "verify"} THEN "verifying"
    ELSE IF pc[r] = "responded" THEN "answered"
    ELSE IF pc[r] \in Ended THEN "failed"
    ELSE IF pc[r] = "reply" /\ revoked[r] # {} THEN "recorded"
    ELSE "revoking"

\* An execution keeps what Revocation promises: each system it saw is reported
\* once, in time and truthfully, recorded with all the others or not at all, and
\* answered for; whatever other requests, the manual endpoints and crashes do.
Promise == INSTANCE Revocation
           WITH Requests <- Requests, Systems <- Systems, Reversible <- {INTOUCH},
                Piecewise <- {EQUIPMENT}, Unchecked <- {EQUIPMENT}, Rechecked <- {NETWORK},
                out <- {s \in Systems : Out(s)}, misled <- refused \X {EQUIPMENT},
                phase <- [r \in Requests |-> Phase(r)],
                seen <- servicesMap, claimed <- revoked, trail <- audit,
                history <- records, mail <- mail
Promised == Promise!Spec

\* Every request that started ends, or waits for Active Directory, whose connections
\* have no timeout, in its own block or behind a manual call that holds the loop;
\* everything else a request waits for has a timeout.  And a queued notification is
\* delivered or lost, unless the loop is held for ever.
Progress ==
    \A r \in Requests :
        /\ Live(r) ~> (pc[r] \in Ended \cup {NETWORK, "ad_write"} \/ hung)
        /\ (mail[r] = "queued") ~> (mail[r] # "queued" \/ hung)

-----------------------------------------------------------------------------
(* What a docstring says and the code does not do, see the README.         *)

\* "Each step is independent - a failure in one does not abort the others":
\* no step of the revocation ends the request with an exception.
StepsIndependent ==
    [][\A r \in Requests : pc[r] \in Running \ {"verify"} => pc'[r] # "error"]_vars
=============================================================================
