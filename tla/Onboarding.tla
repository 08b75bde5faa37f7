------------------------------- MODULE Onboarding -------------------------------
(***************************************************************************)
(* ONE onboarding checklist (src/app/modules/onboarding): its creation, and *)
(* the concurrent calls of PATCH /onboarding/checklists/items/{id}/complete *)
(* that resolve its items.                                                 *)
(*                                                                         *)
(* The endpoint is a plain `def', so each call runs in a thread of its own *)
(* with a session of its own.  pysqlite opens no transaction for a SELECT: *)
(* the three reads of a call see three different states of the database,   *)
(* and only its UPDATEs and the COMMIT are atomic.                         *)
(***************************************************************************)
CONSTANTS Items,   \* the items the checklist was created with
          Calls,   \* calls of the endpoint
          Wanted,  \* the statuses the clients send
          NOBODY   \* who completed an item that nobody completed

\* ItemStatus and OnboardingStatus
PENDING     == "pending"
DONE        == "done"
SKIPPED     == "skipped"
IN_PROGRESS == "in_progress"
COMPLETED   == "completed"

ItemStatus       == {PENDING, DONE, SKIPPED}
OnboardingStatus == {PENDING, IN_PROGRESS, COMPLETED}
Resolving        == {DONE, SKIPPED}

ASSUME WantedAssumption == Wanted \subseteq ItemStatus
ASSUME NobodyAssumption == NOBODY \notin Calls

VARIABLES
    item,       \* stored: the status of each item
    by,         \* stored: completed_by_id and completed_at, as the call that set them
    checklist,  \* stored: the status of the checklist
    created,    \* stored: whether the checklist and its items are there
    logged,     \* stored: whether the SUCCESS row of the creation is
    creator,    \* where the creation is
    pc,         \* where each call is
    target,     \* the item of the call
    want,       \* the status it asks for
    loaded,     \* the status its item had when it was read
    parent,     \* the status the checklist had when it was read
    seen        \* the statuses of all items when they were read

memory == <<target, want, loaded, parent, seen>>
rows   == <<item, by, checklist>>
stored == <<rows, created, logged>>
vars   == <<stored, creator, pc, memory>>

Init ==
    /\ item = [i \in Items |-> PENDING]
    /\ by = [i \in Items |-> NOBODY]
    /\ checklist = PENDING
    /\ created = FALSE
    /\ logged = FALSE
    /\ creator = "idle"
    /\ pc = [c \in Calls |-> "idle"]
    /\ target \in [Calls -> Items]
    /\ want \in [Calls -> Wanted]
    /\ loaded = [c \in Calls |-> PENDING]
    /\ parent = [c \in Calls |-> PENDING]
    /\ seen = [c \in Calls |-> item]

\* Fault: every item that is not done blocks the checklist.
ResolvedDoneOnly(statuses) == {i \in Items : statuses[i] = DONE}

Resolved(statuses) == {i \in Items : statuses[i] \in Resolving}

\* Faults: the completion tests the wrong bound; progress is not recorded; the
\* status comes from the wrong enum.
NewStatusAny(statuses, old) ==
    IF Resolved(statuses) # {} THEN COMPLETED ELSE old
NewStatusLate(statuses, old) ==
    IF Resolved(statuses) = Items THEN COMPLETED ELSE old
NewStatusOfItem(statuses, old) ==
    IF Resolved(statuses) = Items THEN DONE ELSE IN_PROGRESS

\* The status complete_item gives the checklist: no branch is taken, and the old
\* one stays, when nothing is resolved.
NewStatus(statuses, old) ==
    IF Resolved(statuses) = Items THEN COMPLETED
    ELSE IF Resolved(statuses) # {} THEN IN_PROGRESS ELSE old

\* The items as the session sees them: its own unflushed change over the rows read.
InSession(c) == [seen[c] EXCEPT ![target[c]] = want[c]]

-----------------------------------------------------------------------------
(* The creation *)

\* Checklist, fields and items, in one transaction.
CreateChecklist ==
    /\ creator = "idle"
    /\ creator' = "stored"
    /\ created' = TRUE
    /\ UNCHANGED <<rows, logged, pc, memory>>

LogCreation ==
    /\ creator = "stored"
    /\ creator' = "answered"
    /\ logged' = TRUE
    /\ UNCHANGED <<rows, created, pc, memory>>

\* Fault: the handler logs the error and goes on.
FailureSwallowed == "answered"

\* An exception: the handler of a failing row writes another one through the session
\* that the first failure made unusable.
Failure == "failed"

FailCreation ==
    /\ creator \in {"idle", "stored"}
    /\ creator' = Failure
    /\ UNCHANGED <<stored, pc, memory>>

-----------------------------------------------------------------------------
(* The completion of an item *)

\* 404: there is no such item (yet).
NotFound(c) ==
    /\ pc[c] = "idle"
    /\ ~created
    /\ pc' = [pc EXCEPT ![c] = "not_found"]
    /\ UNCHANGED <<stored, creator, memory>>

\* session.get(OnboardingItem, item_id)
ReadItem(c) ==
    /\ pc[c] = "idle"
    /\ created
    /\ pc' = [pc EXCEPT ![c] = "item"]
    /\ loaded' = [loaded EXCEPT ![c] = item[target[c]]]
    /\ UNCHANGED <<stored, creator, target, want, parent, seen>>

\* item.checklist: the row of the checklist ...
ReadChecklist(c) ==
    /\ pc[c] = "item"
    /\ pc' = [pc EXCEPT ![c] = "checklist"]
    /\ parent' = [parent EXCEPT ![c] = checklist]
    /\ UNCHANGED <<stored, creator, target, want, loaded, seen>>

\* ... and, in a second SELECT, its items.
ReadItems(c) ==
    /\ pc[c] = "checklist"
    /\ pc' = [pc EXCEPT ![c] = "items"]
    /\ seen' = [seen EXCEPT ![c] = item]
    /\ UNCHANGED <<stored, creator, target, want, loaded, parent>>

\* An attribute set to the value that was read is not part of the UPDATE.
Write(current, read, new) == IF new = read THEN current ELSE new

\* Fault: the first completion stays on record.
StampOnce(c) == by' = [by EXCEPT ![target[c]] = IF @ = NOBODY THEN c ELSE @]

\* Time and user differ from what was read, and so are always written.
Stamp(c) == by' = [by EXCEPT ![target[c]] = c]

Commit(c) ==
    /\ pc[c] = "items"
    /\ pc' = [pc EXCEPT ![c] = "committed"]
    /\ item' = [item EXCEPT ![target[c]] = Write(@, loaded[c], want[c])]
    /\ Stamp(c)
    /\ checklist' = Write(checklist, parent[c], NewStatus(InSession(c), parent[c]))
    /\ UNCHANGED <<created, logged, creator, memory>>

\* "database is locked", or the process stops: the call changes nothing.
Fail(c) ==
    /\ pc[c] \in {"item", "checklist", "items"}
    /\ pc' = [pc EXCEPT ![c] = "failed"]
    /\ UNCHANGED <<stored, creator, memory>>

Next ==
    \/ CreateChecklist \/ LogCreation \/ FailCreation
    \/ \E c \in Calls :
          NotFound(c) \/ ReadItem(c) \/ ReadChecklist(c) \/ ReadItems(c) \/ Commit(c) \/ Fail(c)

Spec == Init /\ [][Next]_vars

-----------------------------------------------------------------------------
(* Properties *)

Ended == {"not_found", "committed", "failed"}

\* The stored rows and what each complete_item call holds in its session keep their
\* shape.
TypeOK ==
    /\ item \in [Items -> ItemStatus]
    /\ by \in [Items -> Calls \cup {NOBODY}]
    /\ checklist \in OnboardingStatus
    /\ created \in BOOLEAN /\ logged \in BOOLEAN
    /\ creator \in {"idle", "stored", "answered", "failed"}
    /\ pc \in [Calls -> {"idle", "item", "checklist", "items"} \cup Ended]
    /\ target \in [Calls -> Items]
    /\ want \in [Calls -> Wanted]
    /\ loaded \in [Calls -> ItemStatus]
    /\ parent \in [Calls -> OnboardingStatus]
    /\ seen \in [Calls -> [Items -> ItemStatus]]

\* What the docstring asks of the clients and ItemComplete does not enforce.
OnlyResolving == \A c \in Calls : want[c] \in Resolving

\* A completed checklist has no open item, whatever the interleaving, as long as
\* clients send DONE or SKIPPED only: HR never sees an onboarding finished early.
CompletedMeansResolved ==
    OnlyResolving /\ checklist = COMPLETED => Resolved(item) = Items

\* A checklist that still says pending has no resolved item: the first
\* completion is never lost, also when it races another one.
PendingMeansUntouched == checklist = PENDING => Resolved(item) = {}

\* An item says who completed it: an item nobody completed is pending, and the
\* status of any other is the one its last completion asked for, unless the item
\* had that status already when the call read it, which then wrote its name only.
StampsTell ==
    \A i \in Items :
        LET c == by[i] IN
        IF c = NOBODY THEN item[i] = PENDING
        ELSE target[c] = i /\ want[c] \in {item[i], loaded[c]}

\* A creation that was answered is stored and has its row, and no row is about a
\* checklist that is not stored; only a creation that failed leaves one without.
CreationOnRecord ==
    /\ creator = "answered" => created /\ logged
    /\ logged => created

\* What a call read is still so.
Current(c) == /\ loaded[c] = item[target[c]]
              /\ parent[c] = checklist
              /\ seen[c] = item

\* A call that nobody overtook leaves the status that the items call for: only
\* a race, and nothing in the computation, can make the two disagree.
UndisturbedCommitAgrees ==
    [][\A c \in Calls :
         (pc[c] = "items" /\ pc'[c] = "committed" /\ Current(c) /\ want[c] \in Resolving)
           => checklist' = IF \A i \in Items : item'[i] # PENDING
                           THEN COMPLETED ELSE IN_PROGRESS]_vars

\* "to COMPLETED when all items are resolved", once no call is under way.  Two
\* calls that each miss the item of the other violate it.
AllResolvedMeansCompleted ==
    /\ \A c \in Calls : pc[c] \in {"idle"} \cup Ended
    /\ Resolved(item) = Items
    => checklist = COMPLETED
=============================================================================
