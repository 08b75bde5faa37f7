------------------------------- MODULE Equipment -------------------------------
(***************************************************************************)
(* The equipment of several employees in Snipe-IT: the executions of       *)
(* checkin_assets (src/app/modules/offboarding/use_cases) for them, the    *)
(* notes that update_user_notes leaves, the manual check-ins, and the IT   *)
(* staff, who hand equipment over in Snipe-IT itself.                      *)
(*                                                                         *)
(* Every request of SnipeItService is awaited: between any two of them     *)
(* other executions and other people change who holds what.  Offboarding   *)
(* sees one employee, and of this module the outcome of each check-in.     *)
(***************************************************************************)
EXTENDS Integers, FiniteSets

CONSTANTS Runs,       \* executions of checkin_assets
          Manual,     \* calls of POST /offboarding/checkin
          Assets,     \* the equipment
          Untagged,   \* that of it without an asset_tag
          People,     \* the users of Snipe-IT
          STOCK,      \* the holder of equipment that nobody holds
          NOBODY,     \* the performer of no offboarding
          Number,     \* the employee_num of each
          Mentions,   \* the users that a search for a number finds
          PageSize,   \* the limit of that search
          MaxHandOvers

Calls   == Runs \cup Manual
Numbers == DOMAIN Mentions

ASSUME PeopleAssumption ==
    /\ STOCK \notin People
    /\ NOBODY \notin Runs
    /\ Mentions \in [Numbers -> SUBSET People]
    /\ Number \in [People -> Numbers]
ASSUME EquipmentAssumption ==
    /\ IsFiniteSet(Assets)
    /\ Untagged \subseteq Assets
    /\ Runs \cap Manual = {}
    /\ PageSize \in Nat \ {0} /\ MaxHandOvers \in Nat

SUCCESS == "success"
FAILED  == "failed"

VARIABLES
    pc,         \* where each call is
    wants,      \* the registration each run is about
    page,       \* the users its search answered
    owner,      \* the one of them it takes for the employee
    listed,     \* the assets it found with that user
    todo,       \* those it has still to process
    asset,      \* the asset it is about
    anySuccess, \* any_success
    rows,       \* database: how many audit rows of each status it wrote
    holder,     \* external: who has each asset
    note,       \* external: the run that wrote the notes of each user
    moved,      \* history: the listed assets that left their holder since
    refused,    \* history: its check-ins that Snipe-IT refused with status 200
    handed,     \* how often the IT staff handed something over
    hung        \* whether a call of another router holds the event loop for good

search  == <<wants, page, owner, listed>>
loop    == <<todo, asset, anySuccess>>
snipe   == <<holder, note>>
history == <<moved, refused, handed>>
served  == <<pc, search, loop, rows, snipe, history>>
vars    == <<served, hung>>

\* "none": the call is not made.
Ended == {"done", "error", "lost", "none"}

Init ==
    /\ pc \in [Calls -> {"idle", "none"}]
    /\ wants \in [Runs -> Numbers]
    /\ page = [c \in Runs |-> {}]
    /\ owner = [c \in Runs |-> STOCK]
    /\ listed = [c \in Runs |-> {}]
    /\ todo = [c \in Runs |-> {}]
    /\ asset \in [Calls -> Assets]
    /\ anySuccess = [c \in Runs |-> FALSE]
    /\ rows = [c \in Runs |-> [s \in {SUCCESS, FAILED} |-> 0]]
    /\ holder \in [Assets -> People \cup {STOCK}]
    /\ note = [p \in People |-> NOBODY]
    /\ moved = [c \in Runs |-> {}]
    /\ refused = [c \in Runs |-> 0]
    /\ handed = 0
    /\ hung = FALSE

Goto(c, point) == pc' = [pc EXCEPT ![c] = point]

-----------------------------------------------------------------------------
(* Who the employee is *)

\* The first `limit' of the users that mention the number somewhere.
Answers(n) == {P \in SUBSET Mentions[n] :
                  /\ P # {} /\ Cardinality(P) <= PageSize
                  /\ P = Mentions[n] \/ Cardinality(P) = PageSize}

Exact(P, n) == {p \in P : Number[p] = n}

\* Fault: the first user that is found.
EmployeeFirst(P, n) == P

\* _get_user_by_registration: a row with the number, or else the first row.
Employee(P, n) == IF Exact(P, n) # {} THEN Exact(P, n) ELSE P

\* The search of the user, in search_assets_by_user.
SearchUser(c) ==
    /\ pc[c] = "idle"
    /\ \E P \in Answers(wants[c]) : \E p \in Employee(P, wants[c]) :
          /\ page' = [page EXCEPT ![c] = P]
          /\ owner' = [owner EXCEPT ![c] = p]
    /\ Goto(c, "assets")
    /\ UNCHANGED <<wants, listed, loop, rows, snipe, history>>

\* Nobody found, or no answer, in either of the two requests: False, and no row.
FailSearch(c) ==
    /\ pc[c] \in {"idle", "assets"}
    /\ Goto(c, "done")
    /\ UNCHANGED <<search, loop, rows, snipe, history>>

\* The assets of that user.
ListAssets(c) ==
    LET found == {a \in Assets : holder[a] = owner[c]} IN
    /\ pc[c] = "assets"
    /\ listed' = [listed EXCEPT ![c] = found]
    /\ todo' = [todo EXCEPT ![c] = found]
    /\ Goto(c, IF found = {} THEN "done" ELSE "template")
    /\ UNCHANGED <<wants, page, owner, asset, anySuccess, rows, snipe, history>>

-----------------------------------------------------------------------------
(* The loop over the assets *)

\* Fault: the notes are written whatever was returned.
ContinueToNotes(c, left, any) == Goto(c, IF left # {} THEN "next" ELSE "note")

\* What follows an asset, or the template: the next asset, or the end of
\* checkin_assets, after which the orchestrator writes the notes if it succeeded.
Continue(c, left, any) ==
    Goto(c, IF left # {} THEN "next" ELSE IF any THEN "note" ELSE "done")

\* A template, or none (ValueError); the error of an answer is not caught.
FetchTemplate(c) ==
    /\ pc[c] = "template"
    /\ \E point \in {"next", "error"} : Goto(c, point)
    /\ UNCHANGED <<search, loop, rows, snipe, history>>

\* Fault: an asset without a tag stays the next one.
SkipNothing(c) ==
    /\ pc[c] = "next"
    /\ todo[c] \cap Untagged # {}
    /\ UNCHANGED served

\* "Asset without asset_tag ignored"
SkipUntagged(c) ==
    /\ pc[c] = "next"
    /\ \E a \in todo[c] \cap Untagged : todo' = [todo EXCEPT ![c] = @ \ {a}]
    /\ Continue(c, todo'[c], anySuccess[c])
    /\ UNCHANGED <<search, asset, anySuccess, rows, snipe, history>>

\* Fault: an asset whose term cannot be generated is left out.
AfterTerm(c) == \E point \in {"tag", "next"} : Goto(c, point)

\* A failing term does not stop the check-in.
TermDone(c) == Goto(c, "tag")

\* The term of the next asset, if there is a template.
GenerateTerm(c) ==
    /\ pc[c] = "next"
    /\ \E a \in todo[c] \ Untagged :
          /\ asset' = [asset EXCEPT ![c] = a]
          /\ todo' = [todo EXCEPT ![c] = @ \ {a}]
    /\ TermDone(c)
    /\ UNCHANGED <<search, anySuccess, rows, snipe, history>>

\* checkin_asset: the identifier that belongs to the tag ...
GetAsset(c) ==
    /\ pc[c] = "tag"
    /\ \E point \in {"checkin", "failed"} : Goto(c, point)
    /\ UNCHANGED <<search, loop, rows, snipe, history>>

\* An asset that changes hands does so for every run that listed it.
Moved(a) == moved' = [q \in Runs |-> IF a \in listed[q] THEN moved[q] \cup {a} ELSE moved[q]]

\* ... and the check-in, with the answer lost or not.  Who holds the asset is
\* not part of the request.
CheckIn(c) ==
    /\ pc[c] = "checkin"
    /\ holder[asset[c]] # STOCK
    /\ holder' = [holder EXCEPT ![asset[c]] = STOCK]
    /\ Moved(asset[c])
    /\ \E point \in {"returned", "failed"} : Goto(c, point)
    /\ UNCHANGED <<search, loop, rows, note, refused, handed>>

\* Snipe-IT answers an error with status 200, which the code takes for a check-in:
\* the asset is in stock already, or there is some other reason.
Refuse(c) ==
    /\ pc[c] = "checkin"
    /\ Goto(c, "returned")
    /\ refused' = IF c \in Manual \/ holder[asset[c]] = STOCK THEN refused
                  ELSE [refused EXCEPT ![c] = @ + 1]
    /\ UNCHANGED <<search, loop, rows, snipe, moved, handed>>

\* No answer, or one with another status: raise_for_status
FailCheckIn(c) ==
    /\ pc[c] = "checkin"
    /\ Goto(c, "failed")
    /\ UNCHANGED <<search, loop, rows, snipe, history>>

\* Fault: the row does not depend on the answer.
StatusesAlways(c) == {SUCCESS}

\* The status of the row of an asset.  Once a row was committed, current_user has
\* to be loaded again; when that fails, the exception handler writes FAILED.
Statuses(c) ==
    {IF pc[c] = "returned" THEN SUCCESS ELSE FAILED}
        \cup (IF rows[c][SUCCESS] + rows[c][FAILED] = 0 THEN {} ELSE {FAILED})

\* any_success is set before the row is written.
WriteRow(c) ==
    LET any == anySuccess[c] \/ pc[c] = "returned" IN
    /\ pc[c] \in {"returned", "failed"}
    /\ anySuccess' = [anySuccess EXCEPT ![c] = any]
    /\ \E s \in Statuses(c) : rows' = [rows EXCEPT ![c][s] = @ + 1]
    /\ Continue(c, todo[c], any)
    /\ UNCHANGED <<search, todo, asset, snipe, history>>

\* The row cannot be committed, and neither can that of the handler: 500.
FailRow(c) ==
    /\ pc[c] \in {"returned", "failed"}
    /\ Goto(c, "error")
    /\ UNCHANGED <<search, loop, rows, snipe, history>>

\* Fault: registration and performed_by are swapped.
SignedByNumber(c) == wants[c]

\* The notes name the performer, and so the run.
Signed(c) == c

\* update_user_notes searches the user a second time and replaces the notes; an
\* error of any kind is a warning.
UpdateNotes(c) ==
    /\ pc[c] = "note"
    /\ Goto(c, "done")
    /\ \/ \E P \in Answers(wants[c]) : \E p \in Employee(P, wants[c]) :
             /\ page' = [page EXCEPT ![c] = P]
             /\ note' = [note EXCEPT ![p] = Signed(c)]
       \/ UNCHANGED <<page, note>>
    /\ UNCHANGED <<wants, owner, listed, loop, rows, holder, history>>

-----------------------------------------------------------------------------
(* Others *)

\* POST /offboarding/checkin: the registration of the payload is not used.
StartManual(m) ==
    /\ pc[m] = "idle"
    /\ \E a \in Assets \ Untagged : asset' = [asset EXCEPT ![m] = a]
    /\ Goto(m, "tag")
    /\ UNCHANGED <<search, todo, anySuccess, rows, snipe, history>>

AnswerManual(m) ==
    /\ pc[m] \in {"returned", "failed"}
    /\ Goto(m, IF pc[m] = "returned" THEN "done" ELSE "error")
    /\ UNCHANGED <<search, loop, rows, snipe, history>>

\* The IT staff check an asset in and out to somebody.
HandOver(a, p) ==
    /\ handed < MaxHandOvers
    /\ handed' = handed + 1
    /\ holder[a] # p
    /\ holder' = [holder EXCEPT ![a] = p]
    /\ Moved(a)
    /\ UNCHANGED <<pc, search, loop, rows, note, refused>>

\* GET /aduser/ and POST /aduser/disable wait for the directory on the loop thread,
\* without a timeout: when it never answers, no call goes on.
DirectoryHangs ==
    /\ ~hung
    /\ hung' = TRUE
    /\ UNCHANGED served

\* The process stops; nothing of its executions is left but rows and effects.
Crash ==
    /\ hung \/ \E c \in Calls : pc[c] \notin Ended \cup {"idle"}
    /\ pc' = [c \in Calls |-> IF pc[c] \in Ended \cup {"idle"} THEN pc[c] ELSE "lost"]
    /\ hung' = FALSE
    /\ UNCHANGED <<search, loop, rows, snipe, history>>

Request(c) == GetAsset(c) \/ CheckIn(c) \/ Refuse(c) \/ FailCheckIn(c)

Run(c) ==
    \/ SearchUser(c) \/ FailSearch(c) \/ ListAssets(c) \/ FetchTemplate(c)
    \/ SkipUntagged(c) \/ GenerateTerm(c) \/ Request(c)
    \/ WriteRow(c) \/ FailRow(c) \/ UpdateNotes(c)

\* The loop is free, or it is Snipe-IT's turn.
CanGoOn(c) == ~hung \/ pc[c] = "checkin"

Next ==
    \/ /\ UNCHANGED hung
       /\ \/ \E c \in Runs : CanGoOn(c) /\ Run(c)
          \/ \E m \in Manual : CanGoOn(m) /\ (StartManual(m) \/ Request(m) \/ AnswerManual(m))
          \/ \E a \in Assets, p \in People : HandOver(a, p)
    \/ DirectoryHangs
    \/ Crash

\* While nothing holds it for good, the event loop runs what is ready, and httpx
\* gives a request up after a while.
Fairness ==
    /\ \A c \in Runs : WF_vars(~hung /\ UNCHANGED hung /\ pc[c] # "idle" /\ Run(c))
    /\ \A m \in Manual : WF_vars(~hung /\ UNCHANGED hung /\ (Request(m) \/ AnswerManual(m)))

Spec == Init /\ [][Next]_vars /\ Fairness

-----------------------------------------------------------------------------
(* Properties *)

Points == {"idle", "assets", "template", "next", "tag", "checkin", "returned", "failed",
           "note"} \cup Ended

\* Executions, rows and equipment keep their shape.
TypeOK ==
    /\ pc \in [Calls -> Points]
    /\ wants \in [Runs -> Numbers]
    /\ page \in [Runs -> SUBSET People]
    /\ owner \in [Runs -> People \cup {STOCK}]
    /\ listed \in [Runs -> SUBSET Assets]
    /\ todo \in [Runs -> SUBSET Assets]
    /\ asset \in [Calls -> Assets]
    /\ anySuccess \in [Runs -> BOOLEAN]
    /\ rows \in [Runs -> [{SUCCESS, FAILED} -> Nat]]
    /\ holder \in [Assets -> People \cup {STOCK}]
    /\ note \in [People -> Runs \cup {NOBODY}]
    /\ moved \in [Runs -> SUBSET Assets]
    /\ refused \in [Runs -> Nat]
    /\ handed \in Nat
    /\ hung \in BOOLEAN

\* The answer to the search of a run contained nobody with the number.
Guessed(c) == Exact(page[c], wants[c]) = {}

\* A run takes equipment from somebody with another number only if its search, cut
\* off at the page size, did not show the employee, or if the asset changed hands
\* since the run listed it.
OwnEquipmentOnly ==
    [][\A c \in Runs :
         (pc[c] = "checkin" /\ pc'[c] # "checkin" /\ holder'[asset[c]] # holder[asset[c]])
           => \/ Number[holder[asset[c]]] = wants[c]
              \/ Guessed(c)
              \/ asset[c] \in moved[c]]_vars

\* A run that comes to its end has written one row for every asset with a tag that
\* it found: none is forgotten, whatever failed, and none is reported twice.
RowPerAsset ==
    \A c \in Runs : pc[c] \in {"note", "done"} =>
        rows[c][SUCCESS] + rows[c][FAILED] = Cardinality(listed[c] \ Untagged)

\* A run has no more SUCCESS rows than assets that left their holder since it listed
\* them, and claims success only if there is one; check-ins that Snipe-IT refused
\* with status 200 excepted.
ReturnsAreTrue ==
    \A c \in Runs :
        /\ rows[c][SUCCESS] <= Cardinality(moved[c]) + refused[c]
        /\ anySuccess[c] => moved[c] # {} \/ refused[c] > 0

\* The notes say "disabled" only of somebody with the number of a run that
\* succeeded, or of the first user found when the answer had no such user.
NotesAreEarned ==
    \A p \in People : note[p] # NOBODY =>
        LET c == note[p] IN anySuccess[c] /\ (Number[p] = wants[c] \/ Guessed(c))

\* Whatever is slow or fails in Snipe-IT or the database, a run that began ends; only
\* a manual call that Active Directory never answers can keep it, as everything else.
RunsEnd == \A c \in Runs : (pc[c] = "assets") ~> (pc[c] \in Ended \/ hung)
=============================================================================
