------------------------------- MODULE AuditProofs -------------------------------
(* What the audit trail keeps and what its exports contain, for any number of *)
(* exports and rows, any filters, and a clock that advances in any steps.     *)
EXTENDS Audit, FiniteSetTheorems, TLAPS

-----------------------------------------------------------------------------
(* Types *)

\* Every retention is a duration.
LEMMA RetentionType ==
    ASSUME NEW action \in DOMAIN RETENTION_POLICY
    PROVE  RETENTION_POLICY[action] \in Nat
BY DEF RETENTION_POLICY, Day, EXPORT_AUDIT_LOGS

\* An appended row is a row of the trail, with the time of the clock.
LEMMA AppendType ==
    ASSUME TypeOK, NEW action \in Actions \cup {EXPORT_AUDIT_LOGS},
           NEW resource \in Exports \cup {NO_FILE}, Append(action, resource)
    PROVE  rows' \subseteq Row /\ last' \in Nat /\ walk' \in Walk
<1>1. [id |-> last + 1, action |-> action, resource |-> resource, at |-> now] \in Row
  BY DEF TypeOK, Row
<1>2. (walk.late \/ walk.at = "select") \in BOOLEAN
  OBVIOUS
<1>3. walk' \in Walk
  BY <1>2 DEF Append, TypeOK, Walk
<1> QED
  BY <1>1, <1>3 DEF Append, TypeOK

\* The steps of an export keep the shapes.
LEMMA ExportType ==
    ASSUME TypeOK, NEW e \in Exports,
           \/ RefuseExport(e) \/ RequestExport(e) \/ FailRequest(e) \/ ReadRows(e)
           \/ OpenFile(e) \/ CloseFile(e) \/ FailTask(e)
    PROVE  TypeOK'
<1>1. CASE RefuseExport(e)
  BY <1>1 DEF RefuseExport, TypeOK
<1>2. CASE RequestExport(e)
  <2>1. rows' \subseteq Row /\ last' \in Nat /\ walk' \in Walk
    <3>1. Append(EXPORT_AUDIT_LOGS, e)
      BY <1>2, Zenon DEF RequestExport, AppendStarted
    <3> QED
      BY <3>1, AppendType, Zenon
  <2>2. owed' \in [Exports -> SUBSET Row]
    <3>1. owed' = [owed EXCEPT ![e] = rows']
      BY <1>2, Zenon DEF RequestExport, AppendStarted
    <3>2. owed \in [Exports -> SUBSET Row] /\ rows' \in SUBSET Row
      BY <2>1 DEF TypeOK
    <3> QED
      BY <3>1, <3>2
  <2> QED
    BY <1>2, <2>1, <2>2 DEF RequestExport, TypeOK, Tasks
<1>3. CASE FailRequest(e)
  BY <1>3 DEF FailRequest, TypeOK
<1>4. CASE ReadRows(e)
  BY <1>4 DEF ReadRows, TypeOK, Tasks
<1>5. CASE OpenFile(e)
  BY <1>5 DEF OpenFile, TypeOK, Tasks
<1>6. CASE CloseFile(e)
  BY <1>6 DEF CloseFile, TypeOK
<1>7. CASE FailTask(e)
  BY <1>7 DEF FailTask, TypeOK
<1> QED
  BY <1>1, <1>2, <1>3, <1>4, <1>5, <1>6, <1>7

\* The steps of the cleanup keep the shapes.
LEMMA CleanupType ==
    ASSUME TypeOK, CleanupStart \/ CleanupCommit \/ CleanupFail
    PROVE  TypeOK'
<1>1. CASE CleanupStart
  BY <1>1 DEF CleanupStart, exports, TypeOK
<1>2. CASE CleanupCommit
  <2> DEFINE gone == {r \in rows : Expired(r, cutoff)}
             cut  == walk.purged \/ (gone # {} /\ walk.at \in {"count", "select"})
  <2>1. walk' = [walk EXCEPT !.purged = cut]
    BY <1>2, Zenon DEF CleanupCommit
  <2>2. cut \in BOOLEAN
    OBVIOUS
  <2> HIDE DEF cut
  <2>3. walk' \in Walk
    BY <2>1, <2>2 DEF TypeOK, Walk
  <2> QED
    BY <1>2, <2>3 DEF CleanupCommit, exports, TypeOK
<1>3. CASE CleanupFail
  BY <1>3 DEF CleanupFail, exports, TypeOK
<1> QED
  BY <1>1, <1>2, <1>3

\* The steps of a walk keep the shapes.
LEMMA WalkType ==
    ASSUME TypeOK, IsFiniteSet(rows), StartWalk \/ CountRows \/ SelectPage
    PROVE  TypeOK'
<1>1. CASE StartWalk
  BY <1>1 DEF StartWalk, exports, TypeOK, Walk
<1>2. CASE CountRows
  <2>1. Cardinality(rows) \in Nat
    BY FS_CardinalityType
  <2> QED
    BY <1>2, <2>1 DEF CountRows, exports, TypeOK, Walk
<1>3. CASE SelectPage
  <2>1. Page(walk.page) \subseteq Row
    BY DEF Page, TypeOK
  <2>2. [walk EXCEPT !.seen = @ \cup Page(walk.page), !.at = "count", !.page = @ + 1] \in Walk
    <3>1. walk.page + 1 \in Nat \ {0}
      BY DEF TypeOK, Walk
    <3>2. walk.seen \cup Page(walk.page) \in SUBSET Row
      BY <2>1 DEF TypeOK, Walk
    <3> QED
      BY <3>1, <3>2 DEF TypeOK, Walk
  <2>3. [walk EXCEPT !.seen = @ \cup Page(walk.page), !.at = "end"] \in Walk
    BY <2>1 DEF TypeOK, Walk
  <2>4. walk' \in Walk
    <3> DEFINE next == [walk EXCEPT !.seen = @ \cup Page(walk.page), !.at = "count", !.page = @ + 1]
               end  == [walk EXCEPT !.seen = @ \cup Page(walk.page), !.at = "end"]
    <3>1. walk' = IF walk.page < Pages(walk.total) THEN next ELSE end
      BY <1>3, Zenon DEF SelectPage
    <3>2. next \in Walk /\ end \in Walk
      BY <2>2, <2>3
    <3> HIDE DEF next, end
    <3> QED
      BY <3>1, <3>2
  <2> QED
    BY <1>3, <2>4 DEF SelectPage, exports, TypeOK
<1> QED
  BY <1>1, <1>2, <1>3

\* Rows are appended one at a time: there are finitely many of them.
Shaped == TypeOK /\ IsFiniteSet(rows)

\* Every step keeps the shapes.
LEMMA StepType == ASSUME Shaped, [Next]_vars PROVE Shaped'
<1> USE DEF Shaped
<1>1. TypeOK'
  <2>1. ASSUME NEW action \in Actions, RecordAction(action) PROVE TypeOK'
    <3>1. rows' \subseteq Row /\ last' \in Nat /\ walk' \in Walk
      BY <2>1, AppendType DEF RecordAction
    <3> QED
      BY <2>1, <3>1 DEF RecordAction, exports, TypeOK
  <2>2. ASSUME NEW d \in Ticks, Tick(d) PROVE TypeOK'
    BY <2>2, SizesAssumption DEF Tick, exports, TypeOK
  <2>3. CASE Crash
    BY <2>3 DEF Crash, TypeOK, Tasks
  <2>4. CASE UNCHANGED vars
    BY <2>4 DEF vars, exports, TypeOK
  <2> QED
    BY <2>1, <2>2, <2>3, <2>4, ExportType, CleanupType, WalkType DEF Next
<1>2. IsFiniteSet(rows')
  <2>1. ASSUME NEW action, NEW resource, Append(action, resource) PROVE IsFiniteSet(rows')
    <3>1. rows' = rows \cup {[id |-> last + 1, action |-> action, resource |-> resource, at |-> now]}
      BY <2>1 DEF Append
    <3> QED
      BY <3>1, FS_AddElement
  <2>2. CASE CleanupCommit
    BY <2>2, FS_Subset DEF CleanupCommit
  <2>3. CASE UNCHANGED rows
    BY <2>3
  <2> QED
    BY <2>1, <2>2, <2>3 DEF Next, vars, exports, RecordAction, Tick, RefuseExport,
       RequestExport, AppendStarted, FailRequest, ReadRows, OpenFile, CloseFile, FailTask, CleanupStart, CleanupFail, StartWalk, CountRows, SelectPage, Crash
<1> QED
  BY <1>1, <1>2

\* Rows, exports, cleanup and walk keep their shape in every behaviour of the trail.
THEOREM TypeCorrect == Spec => []TypeOK
<1>1. Init => Shaped
  <2> SUFFICES ASSUME Init PROVE Shaped
    OBVIOUS
  <2>1. walk \in Walk
    BY DEF Init, Walk
  <2> QED
    BY <2>1, FS_EmptySet DEF Init, Shaped, TypeOK, NoDate
<1>2. Shaped => TypeOK
  BY DEF Shaped
<1> QED
  BY <1>1, <1>2, StepType, PTL DEF Spec

-----------------------------------------------------------------------------
(* Time and the rows that go *)

\* The clock does not go back.
LEMMA ClockAdvances ==
    ASSUME TypeOK, [Next]_vars
    PROVE  now' \in Nat /\ now <= now'
<1>1. ASSUME NEW d \in Ticks, Tick(d) PROVE now' \in Nat /\ now <= now'
  BY <1>1, SizesAssumption DEF Tick, TypeOK
<1>2. CASE UNCHANGED now
  BY <1>2 DEF TypeOK
<1> QED
  BY <1>1, <1>2 DEF Next, vars, RecordAction, RefuseExport, RequestExport, FailRequest,
     ReadRows, OpenFile, CloseFile, FailTask, CleanupStart, CleanupCommit,
     CleanupFail, StartWalk, CountRows, SelectPage, Crash

\* A row past its retention stays so.
LEMMA DueStays ==
    ASSUME TypeOK, [Next]_vars, NEW r \in Row, Due(r)
    PROVE  Due(r)'
<1>1. now' \in Nat /\ now <= now'
  BY ClockAdvances
<1>2. RETENTION_POLICY[r.action] \in Nat
  BY RetentionType DEF Due
<1> QED
  BY <1>1, <1>2 DEF Due, Row, TypeOK

\* The running cleanup took its date in the past.
CutoffPast == cutoff <= now

\* Every step keeps the date of the cleanup in the past.
LEMMA StepCutoff == ASSUME TypeOK, CutoffPast, [Next]_vars PROVE CutoffPast'
<1>1. now' \in Nat /\ now <= now'
  BY ClockAdvances
<1>2. CASE cutoff' = NoDate
  BY <1>1, <1>2 DEF CutoffPast, NoDate
<1>3. CASE CleanupStart
  BY <1>3 DEF CleanupStart, CutoffPast, TypeOK
<1>4. CASE UNCHANGED cutoff
  BY <1>1, <1>4 DEF CutoffPast, TypeOK, NoDate
<1> QED
  BY <1>2, <1>3, <1>4 DEF Next, vars, RecordAction, Tick, RefuseExport, RequestExport,
     FailRequest, ReadRows, OpenFile, CloseFile, FailTask, CleanupCommit,
     CleanupFail, StartWalk, CountRows, SelectPage, Crash

\* What the cleanup deletes is past its retention.
LEMMA ExpiredIsDue ==
    ASSUME TypeOK, CutoffPast, cutoff # NoDate, NEW r \in Row, Expired(r, cutoff)
    PROVE  Due(r)
<1>1. r.action \in DOMAIN RETENTION_POLICY /\ r.at < cutoff - RETENTION_POLICY[r.action]
  BY DEF Expired
<1>2. RETENTION_POLICY[r.action] \in Nat /\ r.at \in Nat
  BY <1>1, RetentionType DEF Row
<1>3. cutoff \in Nat /\ now \in Nat /\ cutoff <= now
  BY DEF TypeOK, CutoffPast
<1>4. now - r.at > RETENTION_POLICY[r.action]
  BY <1>1, <1>2, <1>3
<1> QED
  BY <1>1, <1>4 DEF Due

\* A step removes only rows that are past their retention.
LEMMA OnlyDueGo ==
    ASSUME TypeOK, CutoffPast, [Next]_vars, NEW r \in rows, r \notin rows'
    PROVE  Due(r)
<1>1. CASE CleanupCommit
  <2>1. cutoff # NoDate /\ Expired(r, cutoff)
    BY <1>1 DEF CleanupCommit
  <2>2. r \in Row
    BY DEF TypeOK
  <2> QED
    BY <2>1, <2>2, ExpiredIsDue
<1>2. CASE rows \subseteq rows'
  BY <1>2
<1> QED
  BY <1>1, <1>2 DEF Next, vars, RecordAction, Append, Tick, RefuseExport, RequestExport,
     AppendStarted, FailRequest, ReadRows, OpenFile, CloseFile, FailTask,
     CleanupStart, CleanupFail, StartWalk, CountRows, SelectPage, Crash

\* Rows, exports and cleanup at any moment.
Timed == Shaped /\ CutoffPast

\* The shapes and the date of the cleanup hold at first and are kept.
LEMMA TimedInvariant == Spec => []Timed
<1>1. Init => Timed
  <2> SUFFICES ASSUME Init PROVE Timed
    OBVIOUS
  <2>1. walk \in Walk
    BY DEF Init, Walk
  <2> QED
    BY <2>1, FS_EmptySet DEF Init, Timed, Shaped, CutoffPast, TypeOK, NoDate
<1>2. Timed /\ [Next]_vars => Timed'
  BY StepType, StepCutoff DEF Timed, Shaped
<1> QED
  BY <1>1, <1>2, PTL DEF Spec

\* A cleanup that overlaps with the clock and with new rows takes no row before its time.
THEOREM OnlyDueRowsLeave == Spec => OnlyDueRowsGo
<1>1. Timed /\ [Next]_vars => [\A r \in rows \ rows' : Due(r)]_vars
  BY OnlyDueGo DEF Timed, Shaped
<1> QED
  BY <1>1, TimedInvariant, PTL DEF Spec, OnlyDueRowsGo

-----------------------------------------------------------------------------
(* Exports *)

\* What an export owes is stored as long as it has to be.
Owed == \A e \in Exports : \A r \in owed[e] : r \in rows \/ Due(r)

\* The row of an export is among those it owes.
HasRow(e) == \E r \in owed[e] : r.action = EXPORT_AUDIT_LOGS /\ r.resource = e

\* An export that was accepted has a row of its own; one that was not has no file.
Logged ==
    \A e \in Exports :
        \/ pc[e] \in {"idle", "refused", "error"} /\ file[e] = "absent"
        \/ HasRow(e)

\* A task that has read its rows has all of those it owes, or they were past
\* their retention by then.
Loaded ==
    \A e \in Exports : pc[e] \in {"read", "writing", "done"} =>
        \A r \in owed[e] : Matches(r, filter[e]) => r \in content[e] \/ Due(r)

\* A row that a step leaves or takes is stored or past its retention.
LEMMA RowsStay ==
    ASSUME Timed, [Next]_vars, NEW r \in Row, r \in rows \/ Due(r)
    PROVE  r \in rows' \/ Due(r)'
BY OnlyDueGo, DueStays DEF Timed, Shaped

\* Only the request of an export sets what it owes.
LEMMA OwedChanges ==
    ASSUME TypeOK, [Next]_vars, NEW e \in Exports
    PROVE  \/ owed'[e] = owed[e]
           \/ /\ RequestExport(e)
              /\ owed'[e] = rows'
<1>1. ASSUME NEW d \in Exports, RequestExport(d)
      PROVE  owed'[e] = owed[e] \/ (RequestExport(e) /\ owed'[e] = rows')
  <2>1. owed' = [owed EXCEPT ![d] = rows']
    BY <1>1, Zenon DEF RequestExport, AppendStarted
  <2> QED
    BY <1>1, <2>1 DEF TypeOK
<1>2. CASE UNCHANGED owed
  BY <1>2
<1> QED
  BY <1>1, <1>2 DEF Next, vars, exports, RecordAction, Tick, RefuseExport, FailRequest,
     ReadRows, OpenFile, CloseFile, FailTask, CleanupStart, CleanupCommit,
     CleanupFail, StartWalk, CountRows, SelectPage, Crash

\* Every step keeps what exports owe.
LEMMA StepOwed == ASSUME Timed, Owed, [Next]_vars PROVE Owed'
<1> SUFFICES ASSUME NEW e \in Exports, NEW r \in owed'[e] PROVE r \in rows' \/ Due(r)'
  BY DEF Owed
<1>1. CASE owed'[e] = owed[e]
  <2>1. r \in Row /\ (r \in rows \/ Due(r))
    BY <1>1 DEF Owed, Timed, Shaped, TypeOK
  <2> QED
    BY <2>1, RowsStay
<1>2. CASE owed'[e] = rows'
  BY <1>2
<1> QED
  BY <1>1, <1>2, OwedChanges DEF Timed, Shaped

\* Every step keeps the row of each export that has a file.
LEMMA StepLogged == ASSUME Timed, Logged, [Next]_vars PROVE Logged'
<1> SUFFICES ASSUME NEW e \in Exports
             PROVE  \/ pc'[e] \in {"idle", "refused", "error"} /\ file'[e] = "absent"
                    \/ HasRow(e)'
  BY DEF Logged
<1> USE DEF Timed, Shaped
<1>1. CASE RequestExport(e)
  <2>1. Append(EXPORT_AUDIT_LOGS, e) /\ owed' = [owed EXCEPT ![e] = rows']
    BY <1>1, Zenon DEF RequestExport, AppendStarted
  <2>2. owed'[e] = rows'
    BY <2>1 DEF TypeOK
  <2> DEFINE own == [id |-> last + 1, action |-> EXPORT_AUDIT_LOGS, resource |-> e, at |-> now]
  <2>3. own \in rows' /\ own.action = EXPORT_AUDIT_LOGS /\ own.resource = e
    BY <2>1 DEF Append
  <2> QED
    BY <2>2, <2>3 DEF HasRow
<1>2. ASSUME owed'[e] = owed[e], HasRow(e)
      PROVE  HasRow(e)'
  BY <1>2 DEF HasRow
<1>3. ASSUME pc[e] \in {"idle", "refused", "error"}, file[e] = "absent", ~RequestExport(e)
      PROVE  pc'[e] \in {"idle", "refused", "error"} /\ file'[e] = "absent"
  <2>1. ASSUME NEW d \in Exports, d # e,
               \/ RefuseExport(d) \/ RequestExport(d) \/ FailRequest(d) \/ ReadRows(d)
               \/ OpenFile(d) \/ CloseFile(d) \/ FailTask(d)
        PROVE  pc'[e] = pc[e] /\ file'[e] = file[e]
    BY <2>1, Zenon DEF RefuseExport, RequestExport, FailRequest, ReadRows, OpenFile, CloseFile,
       FailTask, exports, TypeOK
  <2>2. CASE RefuseExport(e) \/ FailRequest(e)
    BY <1>3, <2>2 DEF RefuseExport, FailRequest, TypeOK
  <2>3. CASE ReadRows(e) \/ OpenFile(e) \/ CloseFile(e) \/ FailTask(e)
    BY <1>3, <2>3 DEF ReadRows, OpenFile, CloseFile, FailTask, exports, Tasks
  <2>4. CASE Crash
    BY <1>3, <2>4 DEF Crash, TypeOK, Tasks
  <2>5. CASE UNCHANGED <<pc, file>>
    BY <1>3, <2>5
  <2> QED
    BY <1>3, <2>1, <2>2, <2>3, <2>4, <2>5 DEF Next, vars, exports, RecordAction, Tick,
       CleanupStart, CleanupCommit, CleanupFail, StartWalk, CountRows, SelectPage
<1> QED
  BY <1>1, <1>2, <1>3, OwedChanges DEF Logged

\* Every step keeps what the tasks have read.
LEMMA StepLoaded == ASSUME Timed, Owed, Loaded, [Next]_vars PROVE Loaded'
<1> SUFFICES ASSUME NEW e \in Exports, pc'[e] \in {"read", "writing", "done"},
                    NEW r \in owed'[e], Matches(r, filter'[e])
             PROVE  r \in content'[e] \/ Due(r)'
  BY DEF Loaded, Matches, Until
<1> USE DEF Timed, Shaped
<1>1. owed'[e] = owed[e]
  <2>1. ~RequestExport(e)
    BY DEF RequestExport, TypeOK
  <2> QED
    BY <2>1, OwedChanges
<1>2. r \in Row
  BY <1>1 DEF TypeOK
<1>3. filter' = filter
  BY DEF Next, vars, exports, RecordAction, Tick, RefuseExport, RequestExport, FailRequest,
     ReadRows, OpenFile, CloseFile, FailTask, CleanupStart, CleanupCommit,
     CleanupFail, StartWalk, CountRows, SelectPage, Crash
<1>4. CASE ReadRows(e)
  <2>1. content'[e] = {s \in rows : Matches(s, filter[e])}
    BY <1>4 DEF ReadRows, TypeOK
  <2>2. r \in rows \/ Due(r)
    BY <1>1 DEF Owed
  <2> QED
    BY <1>2, <1>3, <2>1, <2>2, DueStays
<1>5. ASSUME pc[e] \in {"read", "writing", "done"}, content'[e] = content[e]
      PROVE  r \in content'[e] \/ Due(r)'
  BY <1>1, <1>2, <1>3, <1>5, DueStays DEF Loaded
<1>6. ASSUME ~ReadRows(e)
      PROVE  pc[e] \in {"read", "writing", "done"} /\ content'[e] = content[e]
  <2>1. ASSUME NEW d \in Exports, d # e,
               \/ RefuseExport(d) \/ RequestExport(d) \/ FailRequest(d) \/ ReadRows(d)
               \/ OpenFile(d) \/ CloseFile(d) \/ FailTask(d)
        PROVE  pc'[e] = pc[e] /\ content'[e] = content[e]
    BY <2>1, Zenon DEF RefuseExport, RequestExport, FailRequest, ReadRows, OpenFile, CloseFile,
       FailTask, exports, TypeOK
  <2>2. CASE RefuseExport(e) \/ RequestExport(e) \/ FailRequest(e) \/ FailTask(e)
    BY <2>2 DEF RefuseExport, RequestExport, FailRequest, FailTask, TypeOK
  <2>3. CASE OpenFile(e) \/ CloseFile(e)
    BY <2>3 DEF OpenFile, CloseFile, exports, TypeOK
  <2>4. CASE Crash
    BY <2>4 DEF Crash, TypeOK, Tasks
  <2>5. CASE UNCHANGED <<pc, content>>
    BY <2>5
  <2> QED
    BY <1>6, <2>1, <2>2, <2>3, <2>4, <2>5 DEF Next, vars, exports, RecordAction, Tick,
       CleanupStart, CleanupCommit, CleanupFail, StartWalk, CountRows, SelectPage
<1> QED
  BY <1>4, <1>5, <1>6

\* What is known of every export at any moment.
ExportsSound == Timed /\ Owed /\ Logged /\ Loaded

\* It holds at first and is kept.
LEMMA ExportsInvariant == Spec => []ExportsSound
<1>1. Init => Owed /\ Logged /\ Loaded
  BY DEF Init, Owed, Logged, Loaded
<1>2. ExportsSound /\ Timed' /\ [Next]_vars => ExportsSound'
  BY StepOwed, StepLogged, StepLoaded DEF ExportsSound, Timed, Shaped
<1>3. ExportsSound <=> Timed /\ Owed /\ Logged /\ Loaded
  BY DEF ExportsSound
<1> QED
  BY <1>1, <1>2, <1>3, TimedInvariant, PTL DEF Spec

\* Every file, also one that a crash left half written, has the row that names it, and
\* not only that of another export.
THEOREM FilesHaveRows == Spec => []FilesAreOnRecord
<1>1. ExportsSound => FilesAreOnRecord
  BY DEF ExportsSound, Owed, Logged, HasRow, FilesAreOnRecord
<1> QED
  BY <1>1, ExportsInvariant, PTL

\* An export contains what it owes, whatever is appended and deleted while it runs.
THEOREM ExportsContainAll == Spec => []ExportsAreComplete
<1>1. ExportsSound => ExportsAreComplete
  <2> SUFFICES ASSUME ExportsSound, NEW e \in Exports, pc[e] = "done", NEW r \in owed[e],
                      filter[e].action \in {ANY, r.action}, filter[e].from <= r.at,
                      filter[e].to = NoDate \/ r.at <= filter[e].to,
                      ~(filter[e].from # NoDate /\ filter[e].to = NoDate)
               PROVE  r \in content[e] \/ Due(r)
    BY DEF ExportsAreComplete
  <2>1. Until(filter[e]) = filter[e].to
    BY DEF Until
  <2>2. filter[e] \in [action : STRING, from : Int, to : Int] /\ r \in Row
    BY FiltersAssumption DEF ExportsSound, Timed, Shaped, TypeOK
  <2>3. Matches(r, filter[e])
    BY <2>1, <2>2 DEF Matches, Row
  <2> QED
    BY <2>3 DEF ExportsSound, Loaded
<1> QED
  BY <1>1, ExportsInvariant, PTL

-----------------------------------------------------------------------------
(* Walks over the pages *)

\* The pages that the answers tell of have room for every row.
LEMMA PagesCover ==
    ASSUME NEW total \in Nat
    PROVE  Pages(total) \in Nat /\ total <= Pages(total) * Limit
<1>1. total \div Limit \in Nat /\ total % Limit \in 0..(Limit - 1)
  BY SizesAssumption
<1>2. total = Limit * (total \div Limit) + (total % Limit)
  BY SizesAssumption
<1> DEFINE whole == total \div Limit
           rest  == total % Limit
<1>3. whole \in Nat /\ rest \in 0..(Limit - 1) /\ total = Limit * whole + rest
  BY <1>1, <1>2
<1>4. Pages(total) = whole + (IF rest # 0 THEN 1 ELSE 0)
  BY DEF Pages
<1> HIDE DEF whole, rest
<1>5. (whole + 1) * Limit = Limit * whole + Limit /\ (whole + 0) * Limit = Limit * whole
  BY <1>3, SizesAssumption
<1>6. ASSUME rest # 0 PROVE total <= (whole + 1) * Limit
  BY <1>3, <1>5, <1>6, SizesAssumption
<1>7. ASSUME rest = 0 PROVE total <= (whole + 0) * Limit
  BY <1>3, <1>5, <1>7, SizesAssumption
<1> QED
  BY <1>3, <1>4, <1>6, <1>7

\* Later pages start later.
LEMMA PagesGrow ==
    ASSUME NEW p \in Nat, NEW q \in Nat, p <= q
    PROVE  p * Limit <= q * Limit
BY SizesAssumption

\* The place of a row in the order of the list.
Rank(r) == Cardinality({s \in rows : Before(s, r)})

\* Every row has a place before the number of rows.
LEMMA RankBound ==
    ASSUME Shaped, NEW r \in rows
    PROVE  Rank(r) \in Nat /\ Rank(r) < Cardinality(rows)
<1> DEFINE newer == {s \in rows : Before(s, r)}
<1>1. newer \subseteq rows \ {r}
  BY DEF Before, Shaped, TypeOK, Row
<1>2. IsFiniteSet(rows) /\ Cardinality(rows) \in Nat
  BY FS_CardinalityType DEF Shaped
<1>3. IsFiniteSet(rows \ {r}) /\ Cardinality(rows \ {r}) = Cardinality(rows) - 1
  BY <1>2, FS_RemoveElement
<1>4. IsFiniteSet(newer) /\ Cardinality(newer) <= Cardinality(rows \ {r})
  BY <1>1, <1>3, FS_Subset
<1>5. Cardinality(newer) \in Nat
  BY <1>4, FS_CardinalityType
<1> QED
  BY <1>2, <1>3, <1>4, <1>5 DEF Rank

\* Rows that are added move no row to an earlier place.
LEMMA RankGrows ==
    ASSUME Shaped, Shaped', rows \subseteq rows', NEW r \in rows
    PROVE  Rank(r) <= Rank(r)' /\ Rank(r)' \in Nat
<1> DEFINE newer == {s \in rows : Before(s, r)}
           later == {s \in rows' : Before(s, r)}
<1>1. newer \subseteq later /\ later \subseteq rows'
  OBVIOUS
<1>2. IsFiniteSet(later)
  BY <1>1, FS_Subset DEF Shaped
<1>3. Cardinality(newer) <= Cardinality(later) /\ Cardinality(later) \in Nat
  BY <1>1, <1>2, FS_Subset, FS_CardinalityType
<1>4. Rank(r) = Cardinality(newer) /\ Rank(r)' = Cardinality(later)
  BY DEF Rank, Before
<1> QED
  BY <1>3, <1>4

\* Rows are numbered, and so are those a walk started with.
Numbered == /\ \A r \in rows : r.id <= last
            /\ \A r \in walk.start : r.id <= last

\* The rows of the pages that a walk has behind it were seen by it: unless
\* somebody deleted rows, they are those of the lowest places.
Behind ==
    walk.at \in {"count", "select"} /\ ~walk.purged =>
        /\ walk.start \subseteq rows
        /\ \A r \in walk.start : Rank(r) < (walk.page - 1) * Limit => r \in walk.seen

\* The total of an answer is that of its page, unless a row came in between.
Counted ==
    walk.at = "select" /\ ~walk.purged /\ ~walk.late => walk.total = Cardinality(rows)

WalkSound == /\ walk.at = "idle" => walk.page = 1
             /\ Numbered /\ Behind /\ Counted /\ WalksMissNothing

\* An appended row takes nothing away from a walk.
LEMMA AppendWalk ==
    ASSUME Shaped, Shaped', WalkSound, NEW action, NEW resource, Append(action, resource)
    PROVE  WalkSound'
<1> DEFINE new == [id |-> last + 1, action |-> action, resource |-> resource, at |-> now]
<1>1. rows' = rows \cup {new} /\ last' = last + 1
  BY DEF Append
<1>2. /\ walk'.at = walk.at /\ walk'.page = walk.page /\ walk'.seen = walk.seen
      /\ walk'.start = walk.start /\ walk'.purged = walk.purged /\ walk'.total = walk.total
      /\ walk'.late = (walk.late \/ walk.at = "select")
  BY DEF Append, Shaped, TypeOK, Walk
<1>3. Numbered'
  BY <1>1, <1>2 DEF WalkSound, Numbered, Shaped, TypeOK, Row, Walk
<1>4. Behind'
  <2> SUFFICES ASSUME walk.at \in {"count", "select"}, ~walk.purged
               PROVE  /\ walk.start \subseteq rows'
                      /\ \A r \in walk.start : Rank(r)' < (walk.page - 1) * Limit => r \in walk.seen
    BY <1>2 DEF Behind
  <2>1. walk.start \subseteq rows
    BY DEF WalkSound, Behind
  <2>2. ASSUME NEW r \in walk.start, Rank(r)' < (walk.page - 1) * Limit PROVE r \in walk.seen
    <3>1. Rank(r) <= Rank(r)' /\ Rank(r)' \in Nat /\ Rank(r) \in Nat
      BY <1>1, <2>1, RankGrows, RankBound
    <3>2. (walk.page - 1) * Limit \in Int
      BY SizesAssumption DEF Shaped, TypeOK, Walk
    <3>3. Rank(r) < (walk.page - 1) * Limit
      BY <2>2, <3>1, <3>2
    <3> QED
      BY <3>3 DEF WalkSound, Behind
  <2> QED
    BY <1>1, <2>1, <2>2
<1>5. Counted'
  BY <1>2 DEF Counted
<1>6. WalksMissNothing'
  <2>1. new \notin walk.start
    BY DEF WalkSound, Numbered, Shaped, TypeOK, Walk, Row
  <2> QED
    BY <1>1, <1>2, <2>1 DEF WalkSound, WalksMissNothing
<1> QED
  BY <1>2, <1>3, <1>4, <1>5, <1>6 DEF WalkSound

\* A cleanup is remembered by the walks it can disturb.
LEMMA CleanupWalk == ASSUME Shaped, WalkSound, CleanupCommit PROVE WalkSound'
<1> DEFINE gone == {r \in rows : Expired(r, cutoff)}
           cut  == walk.purged \/ (gone # {} /\ walk.at \in {"count", "select"})
<1>1. rows' = rows \ gone /\ last' = last /\ walk' = [walk EXCEPT !.purged = cut]
  BY Zenon DEF CleanupCommit
<1>2. /\ walk'.at = walk.at /\ walk'.page = walk.page /\ walk'.seen = walk.seen
      /\ walk'.start = walk.start /\ walk'.total = walk.total /\ walk'.late = walk.late
      /\ walk'.purged = cut
  <2>1. cut \in BOOLEAN
    OBVIOUS
  <2> HIDE DEF cut
  <2> QED
    BY <1>1, <2>1 DEF Shaped, TypeOK, Walk
<1>3. Numbered'
  BY <1>1, <1>2 DEF WalkSound, Numbered
<1>4. WalksMissNothing'
  BY <1>1, <1>2 DEF WalkSound, WalksMissNothing
<1>5. Behind' /\ Counted'
  <2>1. CASE cut
    BY <1>2, <2>1 DEF Behind, Counted
  <2>2. CASE ~cut /\ walk.at \in {"count", "select"}
    <3>1. rows' = rows /\ ~walk.purged
      BY <1>1, <2>2
    <3>2. \A r : Rank(r)' = Rank(r)
      BY <3>1 DEF Rank, Before
    <3> QED
      BY <1>2, <3>1, <3>2 DEF WalkSound, Behind, Counted
  <2>3. CASE walk.at \notin {"count", "select"}
    BY <1>2, <2>3 DEF Behind, Counted
  <2> QED
    BY <2>1, <2>2, <2>3
<1> QED
  BY <1>2, <1>3, <1>4, <1>5 DEF WalkSound

\* The queries of a walk put the rows of its page behind it.
LEMMA QueryWalk ==
    ASSUME Shaped, WalkSound, StartWalk \/ CountRows \/ SelectPage
    PROVE  WalkSound'
<1>1. rows' = rows /\ last' = last
  BY DEF StartWalk, CountRows, SelectPage
<1>2. \A r : Rank(r)' = Rank(r)
  BY <1>1 DEF Rank, Before
<1>3. \A r \in rows : Rank(r) \in Nat /\ Rank(r) < Cardinality(rows)
  BY RankBound
<1>4. CASE StartWalk
  <2>1. /\ walk.at = "idle" /\ walk.page = 1
        /\ walk'.at = "count" /\ walk'.start = rows /\ walk'.page = 1
    BY <1>4 DEF StartWalk, WalkSound, Shaped, TypeOK, Walk
  <2>2. (1 - 1) * Limit = 0
    BY SizesAssumption
  <2>3. Behind'
    BY <1>1, <1>2, <1>3, <2>1, <2>2 DEF Behind
  <2> QED
    BY <1>1, <2>1, <2>3 DEF WalkSound, Numbered, Counted, WalksMissNothing
<1>5. CASE CountRows
  <2>1. /\ walk.at = "count" /\ walk'.at = "select" /\ walk'.total = Cardinality(rows)
        /\ walk'.page = walk.page /\ walk'.seen = walk.seen /\ walk'.start = walk.start
        /\ walk'.purged = walk.purged
    BY <1>5 DEF CountRows, Shaped, TypeOK, Walk
  <2>2. Behind'
    BY <1>1, <1>2, <2>1 DEF WalkSound, Behind
  <2>3. Counted'
    BY <1>1, <2>1 DEF Counted
  <2> QED
    BY <1>1, <2>1, <2>2, <2>3 DEF WalkSound, Numbered, WalksMissNothing
<1>6. CASE SelectPage
  <2>1. /\ walk.at = "select" /\ walk'.at \in {"count", "end"}
        /\ walk'.seen = walk.seen \cup Page(walk.page) /\ walk'.start = walk.start
        /\ walk'.purged = walk.purged /\ walk'.late = walk.late
        /\ walk.page < Pages(walk.total) => walk'.at = "count" /\ walk'.page = walk.page + 1
        /\ ~(walk.page < Pages(walk.total)) => walk'.at = "end"
    BY <1>6 DEF SelectPage, Shaped, TypeOK, Walk
  <2>2. walk.page \in Nat \ {0} /\ walk.total \in Nat
    BY DEF Shaped, TypeOK, Walk
  <2>3. (walk.page - 1) * Limit \in Int /\ walk.page * Limit \in Int
    BY <2>2, SizesAssumption
  <2>4. ASSUME ~walk.purged, NEW r \in walk.start, r \in rows, Rank(r) < walk.page * Limit
        PROVE  r \in walk'.seen
    <3>1. CASE Rank(r) < (walk.page - 1) * Limit
      BY <2>1, <2>4, <3>1 DEF WalkSound, Behind
    <3>2. CASE (walk.page - 1) * Limit <= Rank(r)
      BY <2>1, <2>4, <3>2 DEF Page, Rank
    <3> QED
      BY <1>3, <2>3, <2>4, <3>1, <3>2
  <2>5. Behind'
    BY <1>1, <1>2, <2>1, <2>2, <2>4 DEF WalkSound, Behind
  <2>6. WalksMissNothing'
    <3> SUFFICES ASSUME walk'.at = "end", ~walk.purged, ~walk.late,
                        NEW r \in walk.start, r \in rows
                 PROVE  r \in walk'.seen
      BY <1>1, <2>1 DEF WalksMissNothing
    <3>1. walk.total = Cardinality(rows) /\ ~(walk.page < Pages(walk.total))
      BY <2>1 DEF WalkSound, Counted
    <3>2. Pages(walk.total) \in Nat /\ walk.total <= Pages(walk.total) * Limit
      BY <2>2, PagesCover
    <3>3. Pages(walk.total) * Limit <= walk.page * Limit
      BY <2>2, <3>1, <3>2, PagesGrow
    <3>4. Pages(walk.total) * Limit \in Int
      BY <3>2, SizesAssumption
    <3>5. Rank(r) < walk.page * Limit
      BY <1>3, <2>2, <2>3, <3>1, <3>2, <3>3, <3>4
    <3> QED
      BY <2>4, <3>5
  <2> QED
    BY <1>1, <2>1, <2>5, <2>6 DEF WalkSound, Numbered, Counted
<1> QED
  BY <1>4, <1>5, <1>6

\* A walk ends having seen what it started with, whatever is appended meanwhile.
THEOREM WalksAreComplete == Spec => []WalksMissNothing
<1>1. Init => WalkSound
  BY SizesAssumption DEF Init, WalkSound, Numbered, Behind, Counted, WalksMissNothing
<1>2. Timed /\ Timed' /\ WalkSound /\ [Next]_vars => WalkSound'
  <2> SUFFICES ASSUME Timed, Timed', WalkSound, [Next]_vars PROVE WalkSound'
    OBVIOUS
  <2>1. ASSUME NEW action, NEW resource, Append(action, resource) PROVE WalkSound'
    BY <2>1, AppendWalk DEF Timed
  <2>2. CASE CleanupCommit
    BY <2>2, CleanupWalk DEF Timed
  <2>3. CASE StartWalk \/ CountRows \/ SelectPage
    BY <2>3, QueryWalk DEF Timed
  <2>4. CASE UNCHANGED <<rows, last, walk>>
    <3>1. \A r : Rank(r)' = Rank(r)
      BY <2>4 DEF Rank, Before
    <3> QED
      BY <2>4, <3>1 DEF WalkSound, Numbered, Behind, Counted, WalksMissNothing
  <2> QED
    BY <2>1, <2>2, <2>3, <2>4 DEF Next, vars, exports, RecordAction, Tick, RefuseExport,
       RequestExport, AppendStarted, FailRequest, ReadRows, OpenFile, CloseFile, FailTask, CleanupStart, CleanupFail, Crash
<1>3. WalkSound => WalksMissNothing
  BY DEF WalkSound
<1> QED
  BY <1>1, <1>2, <1>3, TimedInvariant, PTL DEF Spec
=============================================================================
