---------------------------- MODULE OnboardingProofs ----------------------------
(* What the concurrent completions of a checklist preserve, for any number of *)
(* items and calls.                                                           *)
EXTENDS Onboarding, TLAPS

-----------------------------------------------------------------------------
(* Types *)

\* What recomputing the parent from its items' statuses yields is always a status.
LEMMA NewStatusType ==
    ASSUME NEW statuses, NEW old \in OnboardingStatus
    PROVE  NewStatus(statuses, old) \in OnboardingStatus
BY DEF NewStatus, OnboardingStatus

\* Everything complete_item stores and holds keeps its shape, for any items and calls.
THEOREM TypeCorrect == Spec => []TypeOK
<1>1. Init => TypeOK
  <2> SUFFICES ASSUME Init PROVE TypeOK
    OBVIOUS
  <2>1. item \in [Items -> ItemStatus] /\ by \in [Items -> Calls \cup {NOBODY}]
    BY DEF Init, ItemStatus
  <2>2. seen \in [Calls -> [Items -> ItemStatus]]
    BY <2>1 DEF Init
  <2> QED
    BY <2>1, <2>2 DEF Init, TypeOK, ItemStatus, OnboardingStatus
<1>2. TypeOK /\ [Next]_vars => TypeOK'
  <2> SUFFICES ASSUME TypeOK, [Next]_vars PROVE TypeOK'
    OBVIOUS
  <2>1. ASSUME NEW c \in Calls, ReadItem(c) PROVE TypeOK'
    BY <2>1 DEF ReadItem, TypeOK, stored, rows
  <2>2. ASSUME NEW c \in Calls, ReadChecklist(c) PROVE TypeOK'
    BY <2>2 DEF ReadChecklist, TypeOK, stored, rows
  <2>3. ASSUME NEW c \in Calls, ReadItems(c) PROVE TypeOK'
    BY <2>3 DEF ReadItems, TypeOK, stored, rows
  <2>4. ASSUME NEW c \in Calls, Commit(c) PROVE TypeOK'
    <3>1. NewStatus(InSession(c), parent[c]) \in OnboardingStatus
      BY NewStatusType DEF TypeOK
    <3>2. checklist' \in OnboardingStatus
      BY <2>4, <3>1 DEF Commit, Write, TypeOK
    <3>3. item' \in [Items -> ItemStatus]
      BY <2>4, WantedAssumption DEF Commit, Write, TypeOK
    <3> QED
      BY <2>4, <3>2, <3>3 DEF Commit, Stamp, Ended, memory, TypeOK
  <2>5. ASSUME NEW c \in Calls, Fail(c) PROVE TypeOK'
    BY <2>5 DEF Fail, TypeOK, Ended, stored, rows, memory
  <2>6. ASSUME NEW c \in Calls, NotFound(c) PROVE TypeOK'
    BY <2>6 DEF NotFound, TypeOK, Ended, stored, rows, memory
  <2>7. ASSUME CreateChecklist \/ LogCreation \/ FailCreation PROVE TypeOK'
    BY <2>7 DEF CreateChecklist, LogCreation, FailCreation, Failure, TypeOK, stored, rows, memory
  <2>8. CASE UNCHANGED vars
    BY <2>8 DEF vars, stored, rows, memory, TypeOK
  <2> QED
    BY <2>1, <2>2, <2>3, <2>4, <2>5, <2>6, <2>7, <2>8 DEF Next
<1> QED
  BY <1>1, <1>2, PTL DEF Spec

-----------------------------------------------------------------------------
(* A pending checklist is untouched *)

\* The status of a checklist never goes back to pending, so a call that read
\* another status knows that it is not pending now.
ParentNotPending ==
    \A c \in Calls : pc[c] \in {"checklist", "items"} /\ parent[c] # PENDING
                       => checklist # PENDING

PendingInv == PendingMeansUntouched /\ ParentNotPending

\* A commit leaves the checklist pending only if it was, and only when the item it
\* stores stays open: complete_item never takes a started checklist back.
LEMMA CommitNeverPends ==
    ASSUME TypeOK, ParentNotPending, NEW c \in Calls, Commit(c),
           checklist' = PENDING
    PROVE  /\ checklist = PENDING
           /\ want[c] \notin Resolving
<1> DEFINE new == NewStatus(InSession(c), parent[c])
<1>1. checklist' = IF new = parent[c] THEN checklist ELSE new
  BY DEF Commit, Write
<1>2. new # parent[c] => new \in {COMPLETED, IN_PROGRESS}
  BY DEF NewStatus
<1>3. checklist = PENDING /\ new = parent[c]
  BY <1>1, <1>2 DEF COMPLETED, IN_PROGRESS, PENDING
<1>4. parent[c] = PENDING
  BY <1>3 DEF Commit, ParentNotPending
<1>5. Resolved(InSession(c)) = {}
  BY <1>3, <1>4 DEF NewStatus, COMPLETED, IN_PROGRESS, PENDING
<1>6. target[c] \in Items /\ InSession(c)[target[c]] = want[c]
  BY DEF TypeOK, InSession
<1> QED
  BY <1>3, <1>5, <1>6 DEF Resolved

\* The first completion is never lost: a checklist that says pending has no
\* resolved item, in every interleaving of complete_item.
THEOREM PendingIsUntouched == Spec => []PendingMeansUntouched
<1>1. Init => PendingInv
  BY DEF Init, PendingInv, PendingMeansUntouched, ParentNotPending, Resolved,
         Resolving, PENDING, DONE, SKIPPED
<1>2. TypeOK /\ PendingInv /\ [Next]_vars => PendingInv'
  <2> SUFFICES ASSUME TypeOK, PendingInv, [Next]_vars PROVE PendingInv'
    OBVIOUS
  <2> USE DEF PendingInv
  <2>1. ASSUME NEW c \in Calls, ReadItem(c) PROVE PendingInv'
    BY <2>1 DEF ReadItem, stored, rows, PendingMeansUntouched, ParentNotPending, Resolved, TypeOK
  <2>2. ASSUME NEW c \in Calls, ReadChecklist(c) PROVE PendingInv'
    BY <2>2 DEF ReadChecklist, stored, rows, PendingMeansUntouched, ParentNotPending, Resolved, TypeOK
  <2>3. ASSUME NEW c \in Calls, ReadItems(c) PROVE PendingInv'
    BY <2>3 DEF ReadItems, stored, rows, PendingMeansUntouched, ParentNotPending, Resolved, TypeOK
  <2>4. ASSUME NEW c \in Calls, Commit(c) PROVE PendingInv'
    <3>1. PendingMeansUntouched'
      <4> SUFFICES ASSUME checklist' = PENDING, NEW i \in Items PROVE item'[i] \notin Resolving
        BY DEF PendingMeansUntouched, Resolved
      <4>1. checklist = PENDING /\ want[c] \notin Resolving
        BY <2>4, CommitNeverPends
      <4>2. item[i] \notin Resolving
        BY <4>1 DEF PendingMeansUntouched, Resolved
      <4> QED
        BY <2>4, <4>1, <4>2 DEF Commit, Write, TypeOK
    <3>2. ParentNotPending'
      <4> SUFFICES ASSUME NEW d \in Calls, pc'[d] \in {"checklist", "items"}, parent'[d] # PENDING
                   PROVE  checklist' # PENDING
        BY DEF ParentNotPending
      <4>1. pc[d] \in {"checklist", "items"} /\ parent[d] # PENDING
        BY <2>4 DEF Commit, memory, TypeOK
      <4> QED
        BY <2>4, <4>1, CommitNeverPends DEF ParentNotPending
    <3> QED
      BY <3>1, <3>2
  <2>5. ASSUME NEW c \in Calls, Fail(c) PROVE PendingInv'
    BY <2>5 DEF Fail, stored, rows, memory, PendingMeansUntouched, ParentNotPending, Resolved, TypeOK
  <2>6. ASSUME NEW c \in Calls, NotFound(c) PROVE PendingInv'
    BY <2>6 DEF NotFound, stored, rows, memory, PendingMeansUntouched, ParentNotPending,
                Resolved, TypeOK
  <2>7. ASSUME CreateChecklist \/ LogCreation \/ FailCreation PROVE PendingInv'
    BY <2>7 DEF CreateChecklist, LogCreation, FailCreation, stored, rows, memory,
                PendingMeansUntouched, ParentNotPending, Resolved
  <2>8. CASE UNCHANGED vars
    BY <2>8 DEF vars, stored, rows, memory, PendingMeansUntouched, ParentNotPending, Resolved
  <2> QED
    BY <2>1, <2>2, <2>3, <2>4, <2>5, <2>6, <2>7, <2>8 DEF Next
<1>3. PendingInv => PendingMeansUntouched
  BY DEF PendingInv
<1> QED
  BY <1>1, <1>2, <1>3, TypeCorrect, PTL DEF Spec

-----------------------------------------------------------------------------
(* A completed checklist is resolved *)

\* What a call read resolved is resolved still: with clients that only resolve,
\* no item is opened again.
SeenStays ==
    \A c \in Calls :
        /\ pc[c] \in {"item", "checklist", "items"} /\ loaded[c] \in Resolving
             => item[target[c]] \in Resolving
        /\ pc[c] = "items"
             => \A i \in Items : seen[c][i] \in Resolving => item[i] \in Resolving

CompletedInv == OnlyResolving => SeenStays /\ CompletedMeansResolved

\* A commit of such a client resolves its own item and opens no other.
LEMMA CommitResolves ==
    ASSUME TypeOK, OnlyResolving, SeenStays, NEW c \in Calls, Commit(c)
    PROVE  /\ item'[target[c]] \in Resolving
           /\ \A i \in Items : item[i] \in Resolving => item'[i] \in Resolving
<1>1. want[c] \in Resolving /\ target[c] \in Items
  BY DEF OnlyResolving, TypeOK
<1>2. item'[target[c]] = Write(item[target[c]], loaded[c], want[c])
  BY <1>1 DEF Commit, TypeOK
<1>3. item'[target[c]] \in Resolving
  BY <1>1, <1>2 DEF Write, Commit, SeenStays
<1> QED
  BY <1>3 DEF Commit, TypeOK

\* The invariant behind it: with such clients, no resolved item is opened again.
LEMMA ResolvedStays == Spec => []CompletedInv
<1>1. Init => CompletedInv
  BY DEF Init, CompletedInv, CompletedMeansResolved, SeenStays, PENDING, COMPLETED
<1>2. TypeOK /\ CompletedInv /\ [Next]_vars => CompletedInv'
  <2> SUFFICES ASSUME TypeOK, [Next]_vars, CompletedInv, OnlyResolving'
               PROVE  (SeenStays /\ CompletedMeansResolved)'
    BY DEF CompletedInv
  <2>0. OnlyResolving /\ SeenStays /\ CompletedMeansResolved
    <3>1. want' = want
      BY DEF Next, CreateChecklist, LogCreation, FailCreation, NotFound, ReadItem,
             ReadChecklist, ReadItems, Commit, Fail, memory, vars
    <3> QED
      BY <3>1 DEF OnlyResolving, CompletedInv
  <2>1. ASSUME NEW c \in Calls, ReadItem(c) PROVE (SeenStays /\ CompletedMeansResolved)'
    BY <2>0, <2>1 DEF ReadItem, stored, rows, SeenStays, CompletedMeansResolved, Resolved,
                      OnlyResolving, TypeOK
  <2>2. ASSUME NEW c \in Calls, ReadChecklist(c) PROVE (SeenStays /\ CompletedMeansResolved)'
    BY <2>0, <2>2 DEF ReadChecklist, stored, rows, SeenStays, CompletedMeansResolved, Resolved,
                      OnlyResolving, TypeOK
  <2>3. ASSUME NEW c \in Calls, ReadItems(c) PROVE (SeenStays /\ CompletedMeansResolved)'
    BY <2>0, <2>3 DEF ReadItems, stored, rows, SeenStays, CompletedMeansResolved, Resolved,
                      OnlyResolving, TypeOK
  <2>4. ASSUME NEW c \in Calls, Commit(c) PROVE (SeenStays /\ CompletedMeansResolved)'
    <3>1. /\ item'[target[c]] \in Resolving
          /\ \A i \in Items : item[i] \in Resolving => item'[i] \in Resolving
      BY <2>0, <2>4, CommitResolves
    <3>2. SeenStays'
      BY <2>0, <2>4, <3>1 DEF SeenStays, Commit, memory, TypeOK
    <3>3. CompletedMeansResolved'
      <4> SUFFICES ASSUME checklist' = COMPLETED, NEW i \in Items PROVE item'[i] \in Resolving
        BY DEF CompletedMeansResolved, Resolved
      <4>1. CASE checklist = COMPLETED
        BY <2>0, <3>1, <4>1 DEF CompletedMeansResolved, Resolved
      <4>2. CASE checklist # COMPLETED
        <5>1. NewStatus(InSession(c), parent[c]) = COMPLETED /\ parent[c] # COMPLETED
          BY <2>4, <4>2 DEF Commit, Write
        <5>2. Resolved(InSession(c)) = Items
          BY <5>1 DEF NewStatus, IN_PROGRESS, COMPLETED
        <5>3. i = target[c] \/ seen[c][i] \in Resolving
          BY <5>2 DEF Resolved, InSession, TypeOK
        <5> QED
          BY <2>0, <2>4, <3>1, <5>3 DEF SeenStays, Commit
      <4> QED
        BY <4>1, <4>2
    <3> QED
      BY <3>2, <3>3
  <2>5. ASSUME NEW c \in Calls, Fail(c) PROVE (SeenStays /\ CompletedMeansResolved)'
    BY <2>0, <2>5 DEF Fail, stored, rows, memory, SeenStays, CompletedMeansResolved, Resolved,
                      OnlyResolving, TypeOK
  <2>6. ASSUME NEW c \in Calls, NotFound(c) PROVE (SeenStays /\ CompletedMeansResolved)'
    BY <2>0, <2>6 DEF NotFound, stored, rows, memory, SeenStays, CompletedMeansResolved,
                      Resolved, OnlyResolving, TypeOK
  <2>7. ASSUME CreateChecklist \/ LogCreation \/ FailCreation
        PROVE  (SeenStays /\ CompletedMeansResolved)'
    BY <2>0, <2>7 DEF CreateChecklist, LogCreation, FailCreation, stored, rows, memory,
                      SeenStays, CompletedMeansResolved, Resolved, OnlyResolving
  <2>8. CASE UNCHANGED vars
    BY <2>0, <2>8 DEF vars, stored, rows, memory, SeenStays, CompletedMeansResolved, Resolved,
                      OnlyResolving
  <2> QED
    BY <2>1, <2>2, <2>3, <2>4, <2>5, <2>6, <2>7, <2>8 DEF Next
<1> QED
  BY <1>1, <1>2, TypeCorrect, PTL DEF Spec

\* No onboarding finishes early: while every client sends DONE or SKIPPED, a
\* checklist is COMPLETED only with all its items resolved.
THEOREM CompletedIsResolved == Spec => []CompletedMeansResolved
<1>1. CompletedInv => CompletedMeansResolved
  BY DEF CompletedInv, CompletedMeansResolved
<1> QED
  BY <1>1, ResolvedStays, PTL

-----------------------------------------------------------------------------
(* Without interference, the statuses agree *)

\* A call that nobody overtook leaves the status its items call for: the race is
\* the only way to a checklist that is resolved and not completed.
THEOREM UndisturbedAgrees == Spec => UndisturbedCommitAgrees
<1> DEFINE Agrees(c) ==
      (pc[c] = "items" /\ pc'[c] = "committed" /\ Current(c) /\ want[c] \in Resolving)
        => checklist' = IF \A i \in Items : item'[i] # PENDING THEN COMPLETED ELSE IN_PROGRESS
<1>1. TypeOK /\ [Next]_vars => \A c \in Calls : Agrees(c)
  <2> SUFFICES ASSUME TypeOK, [Next]_vars, NEW c \in Calls, Current(c),
                      pc[c] = "items", pc'[c] = "committed", want[c] \in Resolving
               PROVE  checklist' = IF \A i \in Items : item'[i] # PENDING
                                   THEN COMPLETED ELSE IN_PROGRESS
    OBVIOUS
  <2>1. Commit(c)
    BY DEF Next, vars, CreateChecklist, LogCreation, FailCreation, NotFound, ReadItem,
           ReadChecklist, ReadItems, Commit, Fail, TypeOK
  <2>2. /\ target[c] \in Items /\ seen[c] = item
        /\ Write(item[target[c]], loaded[c], want[c]) = want[c]
    BY DEF Current, Write, TypeOK
  <2>3. InSession(c) = [item EXCEPT ![target[c]] = want[c]]
    BY <2>2, Zenon DEF InSession
  <2>4. item' = [item EXCEPT ![target[c]] = want[c]]
    <3>1. item' = [item EXCEPT ![target[c]] = Write(item[target[c]], loaded[c], want[c])]
      BY <2>1, Zenon DEF Commit
    <3> QED
      BY <2>2, <3>1, Zenon
  <2>5. item' \in [Items -> ItemStatus] /\ item'[target[c]] = want[c]
    <3>1. item \in [Items -> ItemStatus] /\ want[c] \in ItemStatus
      BY WantedAssumption DEF TypeOK
    <3> QED
      BY <2>2, <2>4, <3>1
  <2>6. \A i \in Items : item'[i] \in Resolving <=> item'[i] # PENDING
    BY <2>5 DEF ItemStatus, Resolving, PENDING, DONE, SKIPPED
  <2>7. Resolved(item') # {}
    BY <2>2, <2>5 DEF Resolved
  <2>8. Resolved(item') = Items <=> \A i \in Items : item'[i] # PENDING
    BY <2>6 DEF Resolved
  <2>9. checklist' = NewStatus(item', checklist)
    BY <2>1, <2>3, <2>4 DEF Commit, Write, Current
  <2> QED
    BY <2>7, <2>8, <2>9 DEF NewStatus
<1> HIDE DEF Agrees
<1>2. Spec => [][\A c \in Calls : Agrees(c)]_vars
  BY <1>1, TypeCorrect, PTL DEF Spec
<1> QED
  BY <1>2 DEF UndisturbedCommitAgrees, Agrees

-----------------------------------------------------------------------------
(* What a lock around the read of the items would give *)

\* No two calls are between their read of the items and their commit.
OneReader == \A c, d \in Calls : pc[c] = "items" /\ pc[d] = "items" => c = d

Agree == Resolved(item) = Items => checklist = COMPLETED

\* A call that read a completed checklist knows it is completed still, and the only
\* call that read the items knows what they are.
ReadersKnow ==
    \A c \in Calls :
        /\ pc[c] \in {"checklist", "items"} /\ parent[c] = COMPLETED => checklist = COMPLETED
        /\ pc[c] = "items" => seen[c] = item

\* The only reader stores a status that agrees with the items it leaves, and takes
\* no completed checklist back.
LEMMA OnlyReaderAgrees ==
    ASSUME TypeOK, OnlyResolving, SeenStays, CompletedMeansResolved, ReadersKnow,
           NEW c \in Calls, Commit(c)
    PROVE  /\ Agree'
           /\ checklist = COMPLETED => checklist' = COMPLETED
<1>1. /\ item'[target[c]] \in Resolving
      /\ \A i \in Items : item[i] \in Resolving => item'[i] \in Resolving
  BY CommitResolves
<1>2. target[c] \in Items /\ want[c] \in Resolving /\ seen[c] = item
  BY DEF TypeOK, OnlyResolving, ReadersKnow, Commit
<1>3. \A i \in Items : InSession(c)[i] = IF i = target[c] THEN want[c] ELSE item'[i]
  BY <1>2 DEF InSession, Commit, TypeOK
<1>4. Resolved(InSession(c)) = Resolved(item')
  BY <1>1, <1>2, <1>3 DEF Resolved
<1>5. Resolved(item') = Items => checklist' = COMPLETED
  <2> SUFFICES ASSUME Resolved(item') = Items PROVE checklist' = COMPLETED
    OBVIOUS
  <2>1. NewStatus(InSession(c), parent[c]) = COMPLETED
    BY <1>4 DEF NewStatus
  <2> QED
    BY <2>1 DEF Commit, Write, ReadersKnow
<1>6. checklist = COMPLETED => Resolved(item') = Items
  BY <1>1 DEF CompletedMeansResolved, Resolved
<1> QED
  BY <1>5, <1>6 DEF Agree

\* The docstring's promise fails by one race only: if no two calls were between their
\* read of the items and their commit at once, and clients only resolve, a checklist
\* with all items resolved would be completed, however else the calls overlap.
THEOREM OneReaderCompletes ==
    ASSUME Items # {}
    PROVE  Spec /\ []OneReader /\ []OnlyResolving => []AllResolvedMeansCompleted
<1> DEFINE RInv == Agree /\ ReadersKnow
           Known == TypeOK /\ OneReader /\ OnlyResolving /\ SeenStays /\ CompletedMeansResolved
<1>1. Init => RInv
  BY DEF Init, Agree, ReadersKnow, Resolved, Resolving, PENDING, DONE, SKIPPED
<1>2. Known /\ RInv /\ [Next]_vars => RInv'
  <2> SUFFICES ASSUME TypeOK, OneReader, OnlyResolving, SeenStays, CompletedMeansResolved,
                      Agree, ReadersKnow, [Next]_vars
               PROVE  Agree' /\ ReadersKnow'
    OBVIOUS
  <2>1. ASSUME NEW c \in Calls, ReadItem(c) PROVE Agree' /\ ReadersKnow'
    BY <2>1 DEF ReadItem, stored, rows, Agree, ReadersKnow, Resolved, TypeOK
  <2>2. ASSUME NEW c \in Calls, ReadChecklist(c) PROVE Agree' /\ ReadersKnow'
    BY <2>2 DEF ReadChecklist, stored, rows, Agree, ReadersKnow, Resolved, TypeOK
  <2>3. ASSUME NEW c \in Calls, ReadItems(c) PROVE Agree' /\ ReadersKnow'
    BY <2>3 DEF ReadItems, stored, rows, Agree, ReadersKnow, Resolved, TypeOK
  <2>4. ASSUME NEW c \in Calls, Commit(c) PROVE Agree' /\ ReadersKnow'
    <3>1. Agree' /\ (checklist = COMPLETED => checklist' = COMPLETED)
      BY <2>4, OnlyReaderAgrees
    <3>2. \A d \in Calls : pc'[d] # "items"
      BY <2>4 DEF Commit, OneReader, TypeOK
    <3>3. ReadersKnow'
      BY <2>4, <3>1, <3>2 DEF ReadersKnow, Commit, memory, TypeOK
    <3> QED
      BY <3>1, <3>3
  <2>5. ASSUME NEW c \in Calls, Fail(c) \/ NotFound(c) PROVE Agree' /\ ReadersKnow'
    BY <2>5 DEF Fail, NotFound, stored, rows, memory, Agree, ReadersKnow, Resolved, TypeOK
  <2>6. CASE CreateChecklist \/ LogCreation \/ FailCreation \/ UNCHANGED vars
    BY <2>6 DEF CreateChecklist, LogCreation, FailCreation, vars, stored, rows, memory,
                Agree, ReadersKnow, Resolved
  <2> QED
    BY <2>1, <2>2, <2>3, <2>4, <2>5, <2>6 DEF Next
<1> HIDE DEF RInv, Known
<1>3. TypeOK /\ CompletedInv /\ OneReader /\ OnlyResolving => Known
  BY DEF Known, CompletedInv
<1>4. RInv => AllResolvedMeansCompleted
  BY DEF RInv, Agree, AllResolvedMeansCompleted
<1> QED
  BY <1>1, <1>2, <1>3, <1>4, TypeCorrect, ResolvedStays, PTL DEF Spec

-----------------------------------------------------------------------------
(* Stamps, and the creation *)

\* A call that has not committed yet is the completion of no item, so that what it
\* reads is not what a stamp that is there already stands for.
StampedByCommitted == \A i \in Items : by[i] # NOBODY => pc[by[i]] = "committed"

\* The item of a committing call gets its name and the status it asks for, or keeps
\* another one if this status was read; the other items keep both.
LEMMA CommitStamps ==
    ASSUME TypeOK, NEW c \in Calls, Commit(c), NEW i \in Items
    PROVE  IF i = target[c]
           THEN by'[i] = c /\ want[c] \in {item'[i], loaded[c]}
           ELSE by'[i] = by[i] /\ item'[i] = item[i]
BY DEF Commit, Stamp, Write, TypeOK

\* An item that somebody completed says who, and has the status that call asked
\* for or had read, for any number of racing completions.
THEOREM StampsAreTrue == Spec => []StampsTell
<1> DEFINE SInv == StampedByCommitted /\ StampsTell
<1>1. Init => SInv
  BY DEF Init, StampedByCommitted, StampsTell
<1>2. TypeOK /\ SInv /\ [Next]_vars => SInv'
  <2> SUFFICES ASSUME TypeOK, SInv, [Next]_vars PROVE SInv'
    OBVIOUS
  <2>1. ASSUME NEW c \in Calls, Commit(c) PROVE SInv'
    <3>1. StampedByCommitted'
      <4> SUFFICES ASSUME NEW i \in Items, by'[i] # NOBODY PROVE pc'[by'[i]] = "committed"
        BY DEF StampedByCommitted
      <4>1. by'[i] = c \/ by'[i] = by[i]
        BY <2>1, CommitStamps
      <4>2. by[i] \in Calls \cup {NOBODY} /\ pc' = [pc EXCEPT ![c] = "committed"]
        BY <2>1 DEF Commit, TypeOK
      <4>3. by[i] # NOBODY => pc[by[i]] = "committed"
        BY DEF StampedByCommitted
      <4> QED
        BY <4>1, <4>2, <4>3 DEF TypeOK
    <3>2. StampsTell'
      <4> SUFFICES ASSUME NEW i \in Items
                   PROVE  IF by'[i] = NOBODY THEN item'[i] = PENDING
                          ELSE target[by'[i]] = i /\ want[by'[i]] \in {item'[i], loaded[by'[i]]}
        BY <2>1 DEF StampsTell, Commit, memory
      <4>1. CASE i = target[c]
        BY <2>1, <4>1, CommitStamps, NobodyAssumption
      <4>2. CASE i # target[c]
        BY <2>1, <4>2, CommitStamps DEF StampsTell
      <4> QED
        BY <4>1, <4>2
    <3> QED
      BY <3>1, <3>2
  <2>2. ASSUME NEW c \in Calls, ReadItem(c) PROVE SInv'
    <3>1. \A i \in Items : by[i] # c
      BY <2>2, NobodyAssumption DEF ReadItem, StampedByCommitted
    <3> QED
      BY <2>2, <3>1 DEF ReadItem, stored, rows, StampedByCommitted, StampsTell, TypeOK
  <2>3. ASSUME NEW c \in Calls, ReadChecklist(c) \/ ReadItems(c) \/ Fail(c) \/ NotFound(c)
        PROVE  SInv'
    BY <2>3 DEF ReadChecklist, ReadItems, Fail, NotFound, stored, rows, memory,
                StampedByCommitted, StampsTell, TypeOK
  <2>4. CASE CreateChecklist \/ LogCreation \/ FailCreation \/ UNCHANGED vars
    BY <2>4 DEF CreateChecklist, LogCreation, FailCreation, vars, stored, rows, memory,
                StampedByCommitted, StampsTell
  <2> QED
    BY <2>1, <2>2, <2>3, <2>4 DEF Next
<1> HIDE DEF SInv
<1>3. Spec => []SInv
  BY <1>1, <1>2, TypeCorrect, PTL DEF Spec
<1>4. SInv => StampsTell
  BY DEF SInv
<1> QED
  BY <1>3, <1>4, PTL

\* A creation that was answered is stored and has its row; a row is about a stored
\* checklist: what goes wrong in between is answered with an error.
THEOREM CreationsAreOnRecord == Spec => []CreationOnRecord
<1> DEFINE CInv == /\ CreationOnRecord
                   /\ creator = "stored" => created
<1>1. Init => CInv
  BY DEF Init, CreationOnRecord
<1>2. CInv /\ [Next]_vars => CInv'
  BY DEF Next, vars, CreateChecklist, LogCreation, FailCreation, Failure, NotFound, ReadItem,
         ReadChecklist, ReadItems, Commit, Fail, stored, rows, CreationOnRecord
<1> HIDE DEF CInv
<1>3. Spec => []CInv
  BY <1>1, <1>2, PTL DEF Spec
<1>4. CInv => CreationOnRecord
  BY DEF CInv
<1> QED
  BY <1>3, <1>4, PTL
=============================================================================
