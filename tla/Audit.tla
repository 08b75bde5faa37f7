--------------------------------- MODULE Audit ---------------------------------
(***************************************************************************)
(* The audit trail (src/app/modules/audit) and those who work on it at the *)
(* same time: the endpoints that append rows, the administrators who walk  *)
(* its pages, the exports that a background task writes to a file after    *)
(* the answer, and the nightly cleanup.  A download only reads a file.     *)
(*                                                                         *)
(* All of them run in threads of their own (the cleanup in the one of the  *)
(* BackgroundScheduler) with sessions of their own; a                      *)
(* SELECT sees what is committed at that moment, and two SELECTs of one    *)
(* session may see different rows.  Times are hours.                       *)
(***************************************************************************)
EXTENDS Integers, FiniteSets

CONSTANTS Exports,  \* requests of POST /logs/export, each with its file name
          Filters,  \* the filters their clients send
          Actions,  \* the actions other endpoints append rows about
          Limit,    \* the page size of the walk over GET /logs
          Ticks,    \* how far the clock advances in a step
          MaxTime,  \* bound on the clock
          MaxRows   \* bound on the rows ever appended

NoDate == -1
Day    == 24
ANY    == "any"
NO_FILE == "no file" \* what rows that name no export have for a resource
EXPORT_AUDIT_LOGS == "export_audit_logs"

ASSUME FiltersAssumption ==
    /\ Filters \subseteq [action : STRING, from : Int, to : Int]
    /\ Actions \subseteq STRING
ASSUME SizesAssumption ==
    /\ Limit \in Nat \ {0}
    /\ Ticks \subseteq Nat
    /\ MaxTime \in Nat /\ MaxRows \in Nat

RETENTION_POLICY ==
    [action \in {EXPORT_AUDIT_LOGS, "system_login", "system_logout", "create_user",
                 "list_users", "search_ad_user", "disable_ad_user"} |->
        CASE action \in {EXPORT_AUDIT_LOGS, "create_user"} -> 180 * Day
          [] action = "disable_ad_user" -> 365 * Day
          [] OTHER -> 90 * Day]

VARIABLES
    now,      \* the clock
    rows,     \* stored: the rows of audit_logs
    last,     \* the number of the last row
    pc,       \* where each export is
    filter,   \* its filters
    owed,     \* history: the rows there were when it was answered, its own included
    content,  \* the rows its task read
    file,     \* stored: its file, "absent", "partial" or "whole"
    cutoff,   \* the time the running cleanup took for now, NoDate when none runs
    walk      \* the walk of an administrator over the pages, if there is one

exports == <<pc, filter, owed, content, file>>
vars    == <<now, rows, last, exports, cutoff, walk>>

Tasks == {"processing", "read", "writing"}

Init ==
    /\ now = 0
    /\ rows = {}
    /\ last = 0
    /\ pc = [e \in Exports |-> "idle"]
    /\ filter \in [Exports -> Filters]
    /\ owed = [e \in Exports |-> {}]
    /\ content = [e \in Exports |-> {}]
    /\ file = [e \in Exports |-> "absent"]
    /\ cutoff = NoDate
    /\ \E at \in {"idle", "none"} :
          walk = [at |-> at, page |-> 1, total |-> 0, seen |-> {}, start |-> {},
                  late |-> FALSE, purged |-> FALSE]

-----------------------------------------------------------------------------
(* Appending rows *)

\* Fault: the row is stored without a time.
AppendUnstamped(action, resource) ==
    /\ last < MaxRows
    /\ last' = last + 1
    /\ rows' = rows \cup {[id |-> last + 1, action |-> action, resource |-> resource, at |-> NoDate]}
    /\ walk' = [walk EXCEPT !.late = @ \/ walk.at = "select"]

\* create_audit_log: one INSERT, which the server stamps, and its commit.  An
\* insertion between the two queries of a page is remembered.
Append(action, resource) ==
    /\ last < MaxRows
    /\ last' = last + 1
    /\ rows' = rows \cup {[id |-> last + 1, action |-> action, resource |-> resource, at |-> now]}
    /\ walk' = [walk EXCEPT !.late = @ \/ walk.at = "select"]

RecordAction(action) ==
    /\ Append(action, NO_FILE)
    /\ UNCHANGED <<now, exports, cutoff>>

Tick(d) ==
    /\ now + d <= MaxTime
    /\ now' = now + d
    /\ UNCHANGED <<rows, last, exports, cutoff, walk>>

-----------------------------------------------------------------------------
(* Exports *)

\* The endpoint refuses reversed ranges and those of more than 90 (whole) days.
Accepted(f) ==
    f.from # NoDate /\ f.to # NoDate => /\ f.to >= f.from
                                        /\ (f.to - f.from) \div Day <= 90

\* A first date without a second one stands for one day.
Until(f) == IF f.from # NoDate /\ f.to = NoDate THEN f.from + Day ELSE f.to

\* Fault: the window excludes its last moment.
MatchesBefore(r, f) ==
    /\ f.action \in {ANY, r.action}
    /\ f.from # NoDate => r.at >= f.from
    /\ Until(f) # NoDate => r.at < Until(f)

Matches(r, f) ==
    /\ f.action \in {ANY, r.action}
    /\ f.from # NoDate => r.at >= f.from
    /\ Until(f) # NoDate => r.at <= Until(f)

RefuseExport(e) ==
    /\ pc[e] = "idle"
    /\ ~Accepted(filter[e])
    /\ pc' = [pc EXCEPT ![e] = "refused"]
    /\ UNCHANGED <<now, rows, last, filter, owed, content, file, cutoff, walk>>

\* Fault: the row does not say which export was started.
AppendNameless(e) ==
    /\ Append(EXPORT_AUDIT_LOGS, NO_FILE)
    /\ owed' = [owed EXCEPT ![e] = rows']

\* The row "export started", with the name of the file (router.py:101).
AppendStarted(e) ==
    /\ Append(EXPORT_AUDIT_LOGS, e)
    /\ owed' = [owed EXCEPT ![e] = rows']

\* The task is added before the row and runs after the answer.
RequestExport(e) ==
    /\ pc[e] = "idle"
    /\ Accepted(filter[e])
    /\ AppendStarted(e)
    /\ pc' = [pc EXCEPT ![e] = "processing"]
    /\ UNCHANGED <<now, filter, content, file, cutoff>>

\* The row cannot be committed: the answer is 500, and its task is dropped.
FailRequest(e) ==
    /\ pc[e] = "idle"
    /\ Accepted(filter[e])
    /\ pc' = [pc EXCEPT ![e] = "error"]
    /\ UNCHANGED <<now, rows, last, filter, owed, content, file, cutoff, walk>>

\* fetch_all_logs_for_export
ReadRows(e) ==
    /\ pc[e] = "processing"
    /\ pc' = [pc EXCEPT ![e] = "read"]
    /\ content' = [content EXCEPT ![e] = {r \in rows : Matches(r, filter[e])}]
    /\ UNCHANGED <<now, rows, last, filter, owed, file, cutoff, walk>>

\* write_bytes opens (creates, truncates) the file ...
OpenFile(e) ==
    /\ pc[e] = "read"
    /\ pc' = [pc EXCEPT ![e] = "writing"]
    /\ file' = [file EXCEPT ![e] = "partial"]
    /\ UNCHANGED <<now, rows, last, filter, owed, content, cutoff, walk>>

\* ... and has written all of it when it closes it.
CloseFile(e) ==
    /\ pc[e] = "writing"
    /\ pc' = [pc EXCEPT ![e] = "done"]
    /\ file' = [file EXCEPT ![e] = "whole"]
    /\ UNCHANGED <<now, rows, last, filter, owed, content, cutoff, walk>>

\* A locked database, an exporter that raises, a full disk: logged and raised, to
\* nobody who could answer it.
FailTask(e) ==
    /\ pc[e] \in Tasks
    /\ pc' = [pc EXCEPT ![e] = "failed"]
    /\ UNCHANGED <<now, rows, last, filter, owed, content, file, cutoff, walk>>

-----------------------------------------------------------------------------
(* The nightly cleanup *)

\* Faults: one retention, the shortest or that of the exports, for every row.
ExpiredAlike(r, t) == r.at < t - 90 * Day
ExpiredLate(r, t) ==
    /\ r.action \in DOMAIN RETENTION_POLICY
    /\ r.at < t - 180 * Day

\* What the cleanup that starts at t deletes.
Expired(r, t) ==
    /\ r.action \in DOMAIN RETENTION_POLICY
    /\ r.at < t - RETENTION_POLICY[r.action]

\* The scheduled job is cleanup_audit_logs_db alone: the files of the exports stay.
CleanupStart ==
    /\ cutoff = NoDate
    /\ cutoff' = now
    /\ UNCHANGED <<now, rows, last, exports, walk>>

\* One transaction with a DELETE per action.  Whether it takes a row away from
\* under a walk is remembered.
CleanupCommit ==
    LET gone == {r \in rows : Expired(r, cutoff)} IN
    /\ cutoff # NoDate
    /\ cutoff' = NoDate
    /\ rows' = rows \ gone
    /\ walk' = [walk EXCEPT !.purged = @ \/ (gone # {} /\ walk.at \in {"count", "select"})]
    /\ UNCHANGED <<now, last, exports>>

\* "database is locked": nothing is deleted until the next night.
CleanupFail ==
    /\ cutoff # NoDate
    /\ cutoff' = NoDate
    /\ UNCHANGED <<now, rows, last, exports, walk>>

-----------------------------------------------------------------------------
(* A walk over the pages of the list *)

\* ORDER BY created_at DESC; SQLite leaves equal times in the order of insertion.
Before(r, s) == r.at > s.at \/ (r.at = s.at /\ r.id < s.id)

Page(p) ==
    {r \in rows : LET rank == Cardinality({s \in rows : Before(s, r)})
                  IN  (p - 1) * Limit <= rank /\ rank < p * Limit}

\* Fault: the last page, not full, is not counted.
FullPages(total) == total \div Limit

Pages(total) == (total \div Limit) + (IF total % Limit # 0 THEN 1 ELSE 0)

StartWalk ==
    /\ walk.at = "idle"
    /\ walk' = [walk EXCEPT !.at = "count", !.start = rows]
    /\ UNCHANGED <<now, rows, last, exports, cutoff>>

\* fetch_audit_logs: the total ...
CountRows ==
    /\ walk.at = "count"
    /\ walk' = [walk EXCEPT !.at = "select", !.total = Cardinality(rows), !.late = FALSE]
    /\ UNCHANGED <<now, rows, last, exports, cutoff>>

\* ... and, in a second query, the page.  The reader goes on to the last page of
\* which the latest answer tells.
SelectPage ==
    /\ walk.at = "select"
    /\ walk' = IF walk.page < Pages(walk.total)
               THEN [walk EXCEPT !.seen = @ \cup Page(walk.page), !.at = "count", !.page = @ + 1]
               ELSE [walk EXCEPT !.seen = @ \cup Page(walk.page), !.at = "end"]
    /\ UNCHANGED <<now, rows, last, exports, cutoff>>

-----------------------------------------------------------------------------
\* The process ends; rows and files stay as they are.
Crash ==
    /\ cutoff # NoDate \/ \E e \in Exports : pc[e] \in Tasks
    /\ pc' = [e \in Exports |-> IF pc[e] \in Tasks THEN "lost" ELSE pc[e]]
    /\ cutoff' = NoDate
    /\ UNCHANGED <<now, rows, last, filter, owed, content, file, walk>>

Next ==
    \/ \E action \in Actions : RecordAction(action)
    \/ \E d \in Ticks : Tick(d)
    \/ \E e \in Exports :
          \/ RefuseExport(e) \/ RequestExport(e) \/ FailRequest(e)
          \/ ReadRows(e) \/ OpenFile(e) \/ CloseFile(e) \/ FailTask(e)
    \/ CleanupStart \/ CleanupCommit \/ CleanupFail
    \/ StartWalk \/ CountRows \/ SelectPage
    \/ Crash

\* The scheduler starts the job every night, in a thread of its own that nothing on
\* the event loop can stop, and the lock that makes a night's job fail is held for a
\* commit only.
Fairness == WF_vars(CleanupStart) /\ SF_vars(CleanupCommit)

Spec == Init /\ [][Next]_vars /\ Fairness

-----------------------------------------------------------------------------
(* Properties *)

Row  == [id : Nat, action : Actions \cup {EXPORT_AUDIT_LOGS}, resource : Exports \cup {NO_FILE},
         at : Nat]
Walk == [at : {"none", "idle", "count", "select", "end"}, page : Nat \ {0}, total : Nat,
         seen : SUBSET Row, start : SUBSET Row, late : BOOLEAN, purged : BOOLEAN]

\* Rows, exports, cleanup and walk keep their shape.
TypeOK ==
    /\ now \in Nat /\ last \in Nat
    /\ rows \subseteq Row
    /\ pc \in [Exports -> {"idle", "refused", "error", "done", "failed", "lost"} \cup Tasks]
    /\ filter \in [Exports -> Filters]
    /\ owed \in [Exports -> SUBSET Row]
    /\ content \in [Exports -> SUBSET Row]
    /\ file \in [Exports -> {"absent", "partial", "whole"}]
    /\ cutoff \in Nat \cup {NoDate}
    /\ walk \in Walk

\* A row may go when its action has a retention and it is older than that.
Due(r) == /\ r.action \in DOMAIN RETENTION_POLICY
          /\ now - r.at > RETENTION_POLICY[r.action]

\* The cleanup, whose date was taken before it got to delete, takes no row before
\* its time, and none about an action that has no retention.
OnlyDueRowsGo == [][\A r \in rows \ rows' : Due(r)]_vars

\* No file without the row that says who made it: an export that is written, or was
\* written in part, has the row that names its file as long as such rows are kept.
FilesAreOnRecord ==
    \A e \in Exports : file[e] # "absent" =>
        \E r \in owed[e] : /\ r.action = EXPORT_AUDIT_LOGS /\ r.resource = e
                           /\ r \in rows \/ Due(r)

\* The rows that an export was asked for and that were there when it was answered are
\* in its file, or past their retention: what happens between the answer and the end
\* of the task takes nothing away.  (A first date alone stands for one day.)
ExportsAreComplete ==
    \A e \in Exports :
        pc[e] = "done" => \A r \in owed[e] :
            LET f == filter[e] IN
            (f.action \in {ANY, r.action} /\ f.from <= r.at /\ (f.to = NoDate \/ r.at <= f.to))
               => r \in content[e] \/ Due(r) \/ (f.from # NoDate /\ f.to = NoDate)

\* A walk over the pages misses no row that was there when it began and is there
\* still, unless a cleanup deleted newer rows, which moves it to a page already read,
\* or a row came between the two queries of the last page.
WalksMissNothing ==
    walk.at = "end" /\ ~walk.purged /\ ~walk.late => walk.start \cap rows \subseteq walk.seen

\* A row past its retention does not stay for ever.
DueRowsGo ==
    \A i \in 1..MaxRows : (\E r \in rows : r.id = i /\ Due(r)) ~> (\A r \in rows : r.id # i)
=============================================================================
