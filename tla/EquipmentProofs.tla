---------------------------- MODULE EquipmentProofs ----------------------------
(* Whose equipment the executions of checkin_assets return and what they say   *)
(* about it, for any number of executions, people and assets.                  *)
EXTENDS Equipment, FiniteSetTheorems, TLAPS

-----------------------------------------------------------------------------
(* Types *)

\* Whoever is taken for the employee was in the answer.
LEMMA EmployeeFound ==
    ASSUME NEW n \in Numbers, NEW P \in Answers(n), NEW p \in Employee(P, n)
    PROVE  P \subseteq People /\ p \in P /\ (Exact(P, n) = {} \/ Number[p] = n)
BY PeopleAssumption DEF Answers, Employee, Exact

\* The search and the list keep the shapes.
LEMMA SearchType ==
    ASSUME TypeOK, hung' \in BOOLEAN, NEW c \in Runs,
           SearchUser(c) \/ FailSearch(c) \/ ListAssets(c) \/ FetchTemplate(c)
    PROVE  TypeOK'
<1> c \in Calls
  BY DEF Calls
<1>1. CASE SearchUser(c)
  <2>1. PICK P \in Answers(wants[c]) : \E p \in Employee(P, wants[c]) :
           page' = [page EXCEPT ![c] = P] /\ owner' = [owner EXCEPT ![c] = p]
    BY <1>1, Zenon DEF SearchUser
  <2>2. PICK p \in Employee(P, wants[c]) :
           page' = [page EXCEPT ![c] = P] /\ owner' = [owner EXCEPT ![c] = p]
    BY <2>1
  <2>3. P \subseteq People /\ p \in People
    BY <2>2, EmployeeFound DEF TypeOK
  <2> QED
    BY <1>1, <2>2, <2>3
       DEF SearchUser, Goto, Points, Ended, TypeOK, loop, snipe, history
<1>2. CASE FailSearch(c)
  BY <1>2 DEF FailSearch, Goto, Points, Ended, TypeOK, search, loop, snipe, history
<1>3. CASE ListAssets(c)
  BY <1>3 DEF ListAssets, Goto, Points, Ended, TypeOK, snipe, history
<1>4. CASE FetchTemplate(c)
  BY <1>4 DEF FetchTemplate, Goto, Points, Ended, TypeOK, search, loop, snipe, history
<1> QED
  BY <1>1, <1>2, <1>3, <1>4

\* The requests of a check-in keep the shapes, for runs and manual calls.
LEMMA RequestType ==
    ASSUME TypeOK, hung' \in BOOLEAN, NEW c \in Calls, Request(c)
    PROVE  TypeOK'
<1>1. CASE GetAsset(c)
  BY <1>1 DEF GetAsset, Goto, Points, Ended, TypeOK, search, loop, snipe, history
<1>2. CASE CheckIn(c)
  BY <1>2 DEF CheckIn, Moved, Goto, Points, Ended, TypeOK, search, loop
<1>3. CASE Refuse(c)
  <2>1. refused' \in [Runs -> Nat]
    BY <1>3 DEF Refuse, TypeOK, Calls
  <2> QED
    BY <1>3, <2>1 DEF Refuse, Goto, Points, Ended, TypeOK, search, loop, snipe
<1>4. CASE FailCheckIn(c)
  BY <1>4 DEF FailCheckIn, Goto, Points, Ended, TypeOK, search, loop, snipe, history
<1> QED
  BY <1>1, <1>2, <1>3, <1>4 DEF Request

\* The other steps of the loop keep the shapes.
LEMMA LoopType ==
    ASSUME TypeOK, hung' \in BOOLEAN, NEW c \in Runs,
           \/ SkipUntagged(c) \/ GenerateTerm(c) \/ WriteRow(c) \/ FailRow(c) \/ UpdateNotes(c)
    PROVE  TypeOK'
<1> c \in Calls
  BY DEF Calls
<1>1. CASE SkipUntagged(c)
  BY <1>1 DEF SkipUntagged, Continue, Goto, Points, Ended, TypeOK, search, snipe, history
<1>2. CASE GenerateTerm(c)
  <2>1. PICK a \in Assets : asset' = [asset EXCEPT ![c] = a] /\ todo' = [todo EXCEPT ![c] = @ \ {a}]
    BY <1>2 DEF GenerateTerm, TypeOK
  <2>2. asset' \in [Calls -> Assets] /\ todo' \in [Runs -> SUBSET Assets]
    BY <2>1 DEF TypeOK
  <2> QED
    BY <1>2, <2>2 DEF GenerateTerm, TermDone, Goto, Points, Ended, TypeOK, search, snipe, history
<1>3. CASE WriteRow(c)
  <2>1. PICK s \in Statuses(c) : rows' = [rows EXCEPT ![c][s] = @ + 1]
    BY <1>3, Zenon DEF WriteRow
  <2>2. s \in {SUCCESS, FAILED}
    BY DEF Statuses
  <2>3. rows' \in [Runs -> [{SUCCESS, FAILED} -> Nat]]
    <3> DEFINE row == [rows[c] EXCEPT ![s] = @ + 1]
    <3>1. rows[c] \in [{SUCCESS, FAILED} -> Nat] /\ rows[c][s] \in Nat
      BY <2>2 DEF TypeOK
    <3>2. row \in [{SUCCESS, FAILED} -> Nat]
      BY <2>2, <3>1
    <3>3. rows' = [rows EXCEPT ![c] = row]
      BY <2>1
    <3> HIDE DEF row
    <3> QED
      BY <3>2, <3>3 DEF TypeOK
  <2>4. pc' \in [Calls -> Points]
    <3> DEFINE any == anySuccess[c] \/ pc[c] = "returned"
    <3>1. Continue(c, todo[c], any)
      BY <1>3, Zenon DEF WriteRow
    <3> HIDE DEF any
    <3> QED
      BY <3>1 DEF Continue, Goto, Points, Ended, TypeOK
  <2>5. anySuccess' \in [Runs -> BOOLEAN]
    <3> DEFINE any == anySuccess[c] \/ pc[c] = "returned"
    <3>1. anySuccess' = [anySuccess EXCEPT ![c] = any] /\ any \in BOOLEAN
      BY <1>3, Zenon DEF WriteRow
    <3> HIDE DEF any
    <3> QED
      BY <3>1 DEF TypeOK
  <2> QED
    BY <1>3, <2>3, <2>4, <2>5 DEF WriteRow, TypeOK, search, snipe, history
<1>4. CASE FailRow(c)
  BY <1>4 DEF FailRow, Goto, Points, Ended, TypeOK, search, loop, snipe, history
<1>5. CASE UpdateNotes(c)
  <2>1. page' \in [Runs -> SUBSET People] /\ note' \in [People -> Runs \cup {NOBODY}]
    <3>1. ASSUME NEW P \in Answers(wants[c]), NEW p \in Employee(P, wants[c]),
                 page' = [page EXCEPT ![c] = P], note' = [note EXCEPT ![p] = Signed(c)]
          PROVE  page' \in [Runs -> SUBSET People] /\ note' \in [People -> Runs \cup {NOBODY}]
      <4>1. P \subseteq People /\ p \in People
        BY EmployeeFound DEF TypeOK
      <4> QED
        BY <3>1, <4>1 DEF TypeOK, Signed
    <3>2. CASE UNCHANGED <<page, note>>
      BY <3>2 DEF TypeOK
    <3> QED
      BY <1>5, <3>1, <3>2 DEF UpdateNotes
  <2> QED
    BY <1>5, <2>1 DEF UpdateNotes, Goto, Points, Ended, TypeOK, loop, history
<1> QED
  BY <1>1, <1>2, <1>3, <1>4, <1>5

\* Every step keeps the shapes.
LEMMA StepType == ASSUME TypeOK, [Next]_vars PROVE TypeOK'
<1>h. hung' \in BOOLEAN
  BY DEF Next, DirectoryHangs, Crash, vars, TypeOK
<1> USE <1>h
<1>1. ASSUME NEW c \in Runs, Run(c) PROVE TypeOK'
  BY <1>1, SearchType, RequestType, LoopType DEF Run, Calls
<1>2. ASSUME NEW m \in Manual, Request(m) PROVE TypeOK'
  BY <1>2, RequestType DEF Calls
<1>3. ASSUME NEW m \in Manual, StartManual(m) \/ AnswerManual(m) PROVE TypeOK'
  <2>1. m \in Calls
    BY DEF Calls
  <2>2. CASE StartManual(m)
    BY <2>1, <2>2 DEF StartManual, Goto, Points, Ended, TypeOK, search, snipe, history
  <2>3. CASE AnswerManual(m)
    BY <2>1, <2>3 DEF AnswerManual, Goto, Points, Ended, TypeOK, search, loop, snipe, history
  <2> QED
    BY <1>3, <2>2, <2>3
<1>4. ASSUME NEW a \in Assets, NEW p \in People, HandOver(a, p) PROVE TypeOK'
  <2>1. holder' \in [Assets -> People \cup {STOCK}] /\ handed' \in Nat
    BY <1>4 DEF HandOver, TypeOK
  <2>2. moved' \in [Runs -> SUBSET Assets]
    BY <1>4 DEF HandOver, Moved, TypeOK
  <2> QED
    BY <1>4, <2>1, <2>2 DEF HandOver, TypeOK, search, loop
<1>5. CASE Crash
  BY <1>5 DEF Crash, Points, Ended, TypeOK, search, loop, snipe, history
<1>6. CASE UNCHANGED served
  BY <1>6 DEF served, search, loop, snipe, history, TypeOK
<1> QED
  BY <1>1, <1>2, <1>3, <1>4, <1>5, <1>6 DEF Next, DirectoryHangs, vars

\* They have it at the start.
LEMMA InitType == ASSUME Init PROVE TypeOK
<1>1. hung \in BOOLEAN
  BY DEF Init
<1>2. anySuccess \in [Runs -> BOOLEAN]
  BY DEF Init
<1> QED
  BY <1>1, <1>2 DEF Init, TypeOK, Points, Ended

\* Executions, rows and equipment keep their shape in every behaviour.
THEOREM TypeCorrect == Spec => []TypeOK
BY InitType, StepType, PTL DEF Spec

-----------------------------------------------------------------------------
(* What others do to a run *)

\* The part of the state that only its own steps and a crash change.
Same(c) ==
    /\ pc'[c] = pc[c] /\ wants'[c] = wants[c] /\ page'[c] = page[c] /\ owner'[c] = owner[c]
    /\ listed'[c] = listed[c] /\ todo'[c] = todo[c] /\ asset'[c] = asset[c]
    /\ anySuccess'[c] = anySuccess[c] /\ rows'[c] = rows[c] /\ refused'[c] = refused[c]

\* A step of another run leaves it alone.
LEMMA RunsApart ==
    ASSUME TypeOK, NEW c \in Runs, NEW d \in Runs, d # c, Run(d)
    PROVE  Same(c)
<1> c \in Calls /\ d \in Calls
  BY DEF Calls
<1>1. CASE SearchUser(d)
  BY <1>1, Zenon DEF SearchUser, Same, Goto, TypeOK, loop, snipe, history
<1>2. CASE FailSearch(d) \/ FetchTemplate(d) \/ GetAsset(d) \/ FailCheckIn(d) \/ FailRow(d)
  BY <1>2 DEF FailSearch, FetchTemplate, GetAsset, FailCheckIn, FailRow, Same, Goto, TypeOK,
     search, loop, snipe, history
<1>3. CASE ListAssets(d)
  BY <1>3 DEF ListAssets, Same, Goto, TypeOK, snipe, history
<1>4. CASE SkipUntagged(d)
  BY <1>4, Zenon DEF SkipUntagged, Continue, Same, Goto, TypeOK, search, snipe, history
<1>5. CASE GenerateTerm(d)
  BY <1>5, Zenon DEF GenerateTerm, TermDone, Same, Goto, TypeOK, search, snipe, history
<1>6. CASE CheckIn(d)
  BY <1>6 DEF CheckIn, Same, Goto, TypeOK, search, loop
<1>7. CASE Refuse(d)
  BY <1>7 DEF Refuse, Same, Goto, TypeOK, search, loop, snipe
<1>8. CASE WriteRow(d)
  BY <1>8, Zenon DEF WriteRow, Continue, Same, Goto, TypeOK, search, snipe, history
<1>9. CASE UpdateNotes(d)
  BY <1>9, Zenon DEF UpdateNotes, Same, Goto, TypeOK, loop, history
<1> QED
  BY <1>1, <1>2, <1>3, <1>4, <1>5, <1>6, <1>7, <1>8, <1>9 DEF Run, Request

\* So do manual calls and the IT staff.
LEMMA ManualApart ==
    ASSUME TypeOK, NEW c \in Runs,
           \/ \E m \in Manual : StartManual(m) \/ Request(m) \/ AnswerManual(m)
           \/ \E a \in Assets, p \in People : HandOver(a, p)
           \/ UNCHANGED served
    PROVE  Same(c)
<1>1. ASSUME NEW m \in Manual, StartManual(m) \/ Request(m) \/ AnswerManual(m)
      PROVE  Same(c)
  <2> m # c /\ m \in Calls /\ c \in Calls /\ m \in Manual
    BY EquipmentAssumption DEF Calls
  <2>1. CASE StartManual(m)
    BY <2>1, Zenon DEF StartManual, Same, Goto, TypeOK, search, snipe, history
  <2>2. CASE GetAsset(m) \/ FailCheckIn(m) \/ AnswerManual(m)
    BY <2>2 DEF GetAsset, FailCheckIn, AnswerManual, Same, Goto, TypeOK, search, loop,
       snipe, history
  <2>3. CASE CheckIn(m)
    BY <2>3 DEF CheckIn, Same, Goto, TypeOK, search, loop
  <2>4. CASE Refuse(m)
    BY <2>4 DEF Refuse, Same, Goto, TypeOK, search, loop, snipe
  <2> QED
    BY <1>1, <2>1, <2>2, <2>3, <2>4 DEF Request
<1>2. CASE \E a \in Assets, p \in People : HandOver(a, p)
  BY <1>2 DEF HandOver, Same, search, loop
<1>3. CASE UNCHANGED served
  BY <1>3 DEF served, Same, search, loop, snipe, history
<1> QED
  BY <1>1, <1>2, <1>3

\* An asset that changes hands is marked for every run that listed it before.
LEMMA StepMoves ==
    ASSUME TypeOK, [Next]_vars, NEW c \in Runs
    PROVE  /\ moved[c] \subseteq moved'[c]
           /\ \A a \in listed[c] : holder'[a] = holder[a] \/ a \in moved'[c]
<1>1. ASSUME NEW a \in Assets, NEW h, Moved(a), holder' = [holder EXCEPT ![a] = h]
      PROVE  /\ moved[c] \subseteq moved'[c]
             /\ \A b \in listed[c] : holder'[b] = holder[b] \/ b \in moved'[c]
  <2>1. moved'[c] = IF a \in listed[c] THEN moved[c] \cup {a} ELSE moved[c]
    BY <1>1 DEF Moved
  <2>2. \A b \in listed[c] : b # a => holder'[b] = holder[b]
    BY <1>1 DEF TypeOK
  <2> QED
    BY <2>1, <2>2
<1>2. CASE UNCHANGED <<moved, holder>>
  BY <1>2
<1>3. ASSUME NEW d \in Calls, CheckIn(d)
      PROVE  /\ moved[c] \subseteq moved'[c]
             /\ \A b \in listed[c] : holder'[b] = holder[b] \/ b \in moved'[c]
  <2>1. asset[d] \in Assets
    BY DEF TypeOK
  <2> QED
    BY <1>1, <1>3, <2>1 DEF CheckIn
<1> QED
  BY <1>1, <1>2, <1>3 DEF Next, DirectoryHangs, Run, Request, Calls, vars, served, snipe, history, SearchUser,
     FailSearch, ListAssets, FetchTemplate, SkipUntagged, GenerateTerm, GetAsset, Refuse,
     FailCheckIn, WriteRow, FailRow, UpdateNotes, StartManual, AnswerManual, HandOver, Crash

-----------------------------------------------------------------------------
(* What a run knows *)

Handling == {"tag", "checkin", "returned", "failed"}

\* While a run is under way, it has the employee or had nobody better.
Found(c) ==
    pc[c] \notin {"idle"} \cup Ended =>
        owner[c] \in People /\ (Guessed(c) \/ Number[owner[c]] = wants[c])

\* What it listed is where it was, or marked.
Held(c) == \A a \in listed[c] : holder[a] = owner[c] \/ a \in moved[c]

\* Before the list there is nothing.
Fresh(c) ==
    pc[c] \in {"idle", "none", "assets"} =>
        /\ listed[c] = {} /\ todo[c] = {} /\ ~anySuccess[c]
        /\ rows[c][SUCCESS] = 0 /\ rows[c][FAILED] = 0

\* What is to do was listed, and the asset under way is no longer to do.
Ordered(c) ==
    /\ todo[c] \subseteq listed[c]
    /\ pc[c] \in Handling => asset[c] \in (listed[c] \ Untagged) \ todo[c]
    /\ pc[c] \in {"note", "done"} => todo[c] = {}

Oriented(c) == Found(c) /\ Held(c) /\ Fresh(c) /\ Ordered(c)

\* The search and the list of a run orient it.
LEMMA SearchOriented ==
    ASSUME TypeOK, NEW c \in Runs, Oriented(c),
           SearchUser(c) \/ FailSearch(c) \/ ListAssets(c) \/ FetchTemplate(c)
    PROVE  Oriented(c)'
<1> c \in Calls
  BY DEF Calls
<1>1. CASE SearchUser(c)
  <2>1. PICK P \in Answers(wants[c]) : \E p \in Employee(P, wants[c]) :
           page' = [page EXCEPT ![c] = P] /\ owner' = [owner EXCEPT ![c] = p]
    BY <1>1, Zenon DEF SearchUser
  <2>2. PICK p \in Employee(P, wants[c]) :
           page' = [page EXCEPT ![c] = P] /\ owner' = [owner EXCEPT ![c] = p]
    BY <2>1
  <2>3. p \in People /\ (Exact(P, wants[c]) = {} \/ Number[p] = wants[c])
    BY <2>2, EmployeeFound DEF TypeOK
  <2>4. page'[c] = P /\ owner'[c] = p /\ wants' = wants
    BY <1>1, <2>2 DEF SearchUser, TypeOK
  <2>5. Found(c)'
    BY <2>3, <2>4 DEF Found, Guessed, Exact
  <2>6. Held(c)' /\ Fresh(c)' /\ Ordered(c)'
    BY <1>1 DEF SearchUser, Oriented, Held, Fresh, Ordered, Goto, TypeOK, Handling, loop,
       snipe, history
  <2> QED
    BY <2>5, <2>6 DEF Oriented
<1>2. CASE FailSearch(c)
  BY <1>2 DEF FailSearch, Oriented, Found, Held, Fresh, Ordered, Guessed, Goto, TypeOK,
     Handling, Ended, search, loop, snipe, history
<1>3. CASE ListAssets(c)
  <2>1. /\ listed'[c] = {a \in Assets : holder[a] = owner[c]} /\ todo'[c] = listed'[c]
        /\ pc[c] = "assets" /\ pc'[c] = (IF listed'[c] = {} THEN "done" ELSE "template")
        /\ wants' = wants /\ page' = page /\ owner' = owner /\ anySuccess' = anySuccess
        /\ rows' = rows /\ holder' = holder /\ moved' = moved
    BY <1>3 DEF ListAssets, Goto, TypeOK, snipe, history
  <2> QED
    BY <2>1 DEF Oriented, Found, Held, Fresh, Ordered, Guessed, Exact, Handling, Ended
<1>4. CASE FetchTemplate(c)
  BY <1>4 DEF FetchTemplate, Oriented, Found, Held, Fresh, Ordered, Guessed, Exact, Goto,
     TypeOK, Handling, Ended, search, loop, snipe, history
<1> QED
  BY <1>1, <1>2, <1>3, <1>4

\* The loop keeps the run oriented.
LEMMA LoopOriented ==
    ASSUME TypeOK, [Next]_vars, NEW c \in Runs, Oriented(c),
           \/ SkipUntagged(c) \/ GenerateTerm(c) \/ Request(c)
           \/ WriteRow(c) \/ FailRow(c) \/ UpdateNotes(c)
    PROVE  Oriented(c)'
<1> c \in Calls
  BY DEF Calls
<1>1. listed' = listed /\ owner' = owner /\ wants' = wants
  BY DEF SkipUntagged, GenerateTerm, Request, GetAsset, CheckIn, Refuse, FailCheckIn, WriteRow,
     FailRow, UpdateNotes, search
<1>2. Held(c)'
  BY <1>1, StepMoves DEF Oriented, Held
<1>3. Fresh(c)'
  <2>1. pc'[c] \notin {"idle", "none", "assets"}
    BY DEF SkipUntagged, GenerateTerm, TermDone, Request, GetAsset, CheckIn, Refuse,
       FailCheckIn, WriteRow, FailRow, UpdateNotes, Continue, Goto, TypeOK
  <2> QED
    BY <2>1 DEF Fresh
<1>4. CASE UpdateNotes(c)
  <2>1. pc[c] = "note" /\ pc'[c] = "done" /\ todo' = todo
    BY <1>4 DEF UpdateNotes, Goto, TypeOK, loop
  <2> QED
    BY <1>1, <1>2, <1>3, <2>1 DEF Oriented, Found, Ordered, Handling, Ended
<1>5. ASSUME ~UpdateNotes(c) PROVE Found(c)'
  <2>1. page' = page /\ pc[c] \notin {"idle"} \cup Ended
    BY <1>5 DEF SkipUntagged, GenerateTerm, Request, GetAsset, CheckIn, Refuse, FailCheckIn,
       WriteRow, FailRow, search, Ended
  <2> QED
    BY <1>1, <2>1 DEF Oriented, Found, Guessed, Exact
<1>6. CASE SkipUntagged(c)
  <2>1. /\ todo'[c] \subseteq todo[c] /\ asset' = asset
        /\ pc'[c] \in {"next", "note", "done"} /\ (pc'[c] # "next" => todo'[c] = {})
    BY <1>6 DEF SkipUntagged, Continue, Goto, TypeOK
  <2>2. Ordered(c)'
    BY <1>1, <2>1 DEF Oriented, Ordered, Handling
  <2> QED
    BY <1>2, <1>3, <1>5, <1>6, <2>2 DEF Oriented, UpdateNotes, SkipUntagged
<1>7. CASE GenerateTerm(c)
  <2>1. PICK a \in todo[c] \ Untagged :
           asset' = [asset EXCEPT ![c] = a] /\ todo' = [todo EXCEPT ![c] = @ \ {a}]
    BY <1>7, Zenon DEF GenerateTerm
  <2>2. asset'[c] = a /\ todo'[c] = todo[c] \ {a} /\ pc'[c] = "tag"
    BY <1>7, <2>1 DEF GenerateTerm, TermDone, Goto, TypeOK
  <2>3. Ordered(c)'
    BY <1>1, <2>1, <2>2 DEF Oriented, Ordered
  <2> QED
    BY <1>2, <1>3, <1>5, <1>7, <2>3 DEF Oriented, UpdateNotes, GenerateTerm
<1>8. CASE Request(c) \/ FailRow(c)
  <2>1. pc[c] \in Handling /\ pc'[c] \in Handling \cup {"error"} /\ todo' = todo /\ asset' = asset
    BY <1>8 DEF Request, GetAsset, CheckIn, Refuse, FailCheckIn, FailRow, Goto, TypeOK,
       Handling, loop
  <2>2. Ordered(c)'
    BY <1>1, <2>1 DEF Oriented, Ordered, Handling
  <2> QED
    BY <1>2, <1>3, <1>5, <2>1, <2>2 DEF Oriented, UpdateNotes, Handling
<1>9. CASE WriteRow(c)
  <2>1. /\ todo' = todo /\ pc'[c] \in {"next", "note", "done"} /\ pc[c] # "note"
        /\ pc'[c] # "next" => todo[c] = {}
    BY <1>9 DEF WriteRow, Continue, Goto, TypeOK
  <2>2. Ordered(c)'
    BY <1>1, <2>1 DEF Oriented, Ordered, Handling
  <2> QED
    BY <1>2, <1>3, <1>5, <2>1, <2>2 DEF Oriented, UpdateNotes
<1> QED
  BY <1>4, <1>6, <1>7, <1>8, <1>9

\* Nobody disorients a run: what moves under it is marked.
LEMMA StepOriented ==
    ASSUME TypeOK, [Next]_vars, NEW c \in Runs, Oriented(c)
    PROVE  Oriented(c)'
<1>1. CASE Run(c)
  BY <1>1, SearchOriented, LoopOriented DEF Run
<1>2. CASE Crash
  <2>1. /\ pc'[c] = pc[c] \/ pc'[c] = "lost"
        /\ wants' = wants /\ page' = page /\ owner' = owner /\ listed' = listed
        /\ todo' = todo /\ asset' = asset /\ anySuccess' = anySuccess /\ rows' = rows
        /\ holder' = holder /\ moved' = moved
    BY <1>2 DEF Crash, Calls, TypeOK, search, loop, snipe, history
  <2> QED
    BY <2>1 DEF Oriented, Found, Held, Fresh, Ordered, Guessed, Exact, Handling, Ended
<1>3. CASE Same(c)
  <2>1. Held(c)'
    BY <1>3, StepMoves DEF Same, Oriented, Held
  <2>2. Found(c)' /\ Fresh(c)' /\ Ordered(c)'
    BY <1>3 DEF Same, Oriented, Found, Fresh, Ordered, Guessed, Exact
  <2> QED
    BY <2>1, <2>2 DEF Oriented
<1> QED
  BY <1>1, <1>2, <1>3, RunsApart, ManualApart DEF Next, DirectoryHangs, vars

\* All of it, for every run.
Aware == TypeOK /\ \A c \in Runs : Oriented(c)

\* Runs start oriented and stay so.
LEMMA AwareInvariant == Spec => []Aware
<1>1. Init => Aware
  <2> SUFFICES ASSUME Init PROVE Aware
    OBVIOUS
  <2>1. TypeOK
    BY InitType
  <2>2. \A c \in Runs : Oriented(c)
    BY DEF Init, Oriented, Points, Ended, Found, Held, Fresh, Ordered, Handling, Calls
  <2> QED
    BY <2>1, <2>2 DEF Aware
<1>2. Aware /\ [Next]_vars => Aware'
  BY StepType, StepOriented DEF Aware
<1> QED
  BY <1>1, <1>2, PTL DEF Spec

\* A run takes only what its employee holds, what it has seen nobody better for, or
\* what changed hands under it.
THEOREM TakesOwnOnly == Spec => OwnEquipmentOnly
<1>1. ASSUME Aware, [Next]_vars, NEW c \in Runs, pc[c] = "checkin"
      PROVE  Number[holder[asset[c]]] = wants[c] \/ Guessed(c) \/ asset[c] \in moved[c]
  BY <1>1 DEF Aware, Oriented, Found, Held, Ordered, Handling, Ended
<1>2. Aware /\ [Next]_vars =>
        [\A c \in Runs :
            (pc[c] = "checkin" /\ pc'[c] # "checkin" /\ holder'[asset[c]] # holder[asset[c]])
              => \/ Number[holder[asset[c]]] = wants[c]
                 \/ Guessed(c)
                 \/ asset[c] \in moved[c]]_vars
  BY <1>1
<1> QED
  BY <1>2, AwareInvariant, PTL DEF Spec, OwnEquipmentOnly

-----------------------------------------------------------------------------
(* Rows *)

\* What there was to return, without what is still to do.
Begun(c) == (listed[c] \ Untagged) \ todo[c]

\* The assets that have their row.
Past(c) == Begun(c) \ (IF pc[c] \in Handling THEN {asset[c]} ELSE {})

\* The assets whose check-in was answered, one way or other.
Answered(c) == Begun(c) \ (IF pc[c] \in {"tag", "checkin"} THEN {asset[c]} ELSE {})

Written(c) == rows[c][SUCCESS] + rows[c][FAILED]

\* As long as a run works it has a row for each asset behind it.
Counted(c) == pc[c] \notin {"error", "lost"} => Written(c) = Cardinality(Past(c))

\* The answers taken for a check-in, with or without their row yet.
Believed(c) == rows[c][SUCCESS] + (IF pc[c] = "returned" THEN 1 ELSE 0)

\* They are at most the assets that left and the refusals.
Truthful(c) ==
    /\ Believed(c) <= Cardinality(moved[c] \cap Answered(c)) + refused[c]
    /\ anySuccess[c] \/ pc[c] = "returned" => moved[c] # {} \/ refused[c] > 0

\* Sets of assets are finite.
LEMMA AssetsFinite ==
    ASSUME NEW S \in SUBSET Assets
    PROVE  IsFiniteSet(S) /\ Cardinality(S) \in Nat
BY EquipmentAssumption, FS_Subset, FS_CardinalityType

\* A row is one more of its status.
LEMMA RowWritten ==
    ASSUME TypeOK, NEW c \in Runs, WriteRow(c)
    PROVE  /\ Written(c)' = Written(c) + 1
           /\ rows'[c][SUCCESS] <= rows[c][SUCCESS] + (IF pc[c] = "returned" THEN 1 ELSE 0)
<1>1. PICK s \in Statuses(c) : rows' = [rows EXCEPT ![c][s] = @ + 1]
  BY Zenon DEF WriteRow
<1>2. s \in {SUCCESS, FAILED} /\ (s = SUCCESS => pc[c] = "returned")
  BY DEF Statuses, SUCCESS, FAILED
<1>3. rows[c] \in [{SUCCESS, FAILED} -> Nat] /\ SUCCESS # FAILED
  BY DEF TypeOK, SUCCESS, FAILED
<1>4. rows'[c] = [rows[c] EXCEPT ![s] = @ + 1]
  BY <1>1 DEF TypeOK
<1>5. rows[c][SUCCESS] \in Nat /\ rows[c][FAILED] \in Nat
  BY <1>3
<1>6. \/ s = SUCCESS /\ rows'[c][SUCCESS] = rows[c][SUCCESS] + 1 /\ rows'[c][FAILED] = rows[c][FAILED]
      \/ s = FAILED /\ rows'[c][SUCCESS] = rows[c][SUCCESS] /\ rows'[c][FAILED] = rows[c][FAILED] + 1
  BY <1>2, <1>3, <1>4
<1> QED
  BY <1>2, <1>5, <1>6 DEF Written

\* The row that is written is that of the asset under way.
LEMMA StepCounted ==
    ASSUME Aware, Aware', [Next]_vars, NEW c \in Runs, Counted(c)
    PROVE  Counted(c)'
<1> c \in Calls
  BY DEF Calls
<1> USE DEF Aware
<1>1. SUFFICES ASSUME pc'[c] \notin {"error", "lost"}
               PROVE  Written(c)' = Cardinality(Past(c)')
  BY DEF Counted
<1>2. ASSUME Past(c)' = Past(c), rows'[c] = rows[c], pc[c] \notin {"error", "lost"}
      PROVE  Written(c)' = Cardinality(Past(c)')
  BY <1>2 DEF Counted, Written
<1>3. CASE SearchUser(c) \/ FailSearch(c) \/ ListAssets(c)
  <2>1. Past(c)' = {} /\ Past(c) = {}
    BY <1>3 DEF SearchUser, FailSearch, ListAssets, Oriented, Fresh, Past, Begun, Goto, TypeOK,
       Handling, search, loop
  <2>2. rows' = rows /\ pc[c] \in {"idle", "assets"}
    BY <1>3 DEF SearchUser, FailSearch, ListAssets
  <2> QED
    BY <1>2, <2>1, <2>2
<1>4. CASE FetchTemplate(c) \/ SkipUntagged(c)
  <2>1. Past(c)' = Past(c)
    BY <1>4 DEF FetchTemplate, SkipUntagged, Continue, Past, Begun, Goto, TypeOK, Handling,
       search, loop
  <2>2. rows' = rows /\ pc[c] \in {"template", "next"}
    BY <1>4 DEF FetchTemplate, SkipUntagged
  <2> QED
    BY <1>2, <2>1, <2>2
<1>5. CASE GenerateTerm(c)
  <2>1. PICK a \in todo[c] \ Untagged :
           asset' = [asset EXCEPT ![c] = a] /\ todo' = [todo EXCEPT ![c] = @ \ {a}]
    BY <1>5, Zenon DEF GenerateTerm
  <2>2. /\ asset'[c] = a /\ todo'[c] = todo[c] \ {a} /\ pc'[c] = "tag" /\ pc[c] = "next"
        /\ listed' = listed /\ rows' = rows
    BY <1>5, <2>1 DEF GenerateTerm, TermDone, Goto, TypeOK, search
  <2>3. Past(c)' = Past(c)
    BY <2>1, <2>2 DEF Past, Begun, Handling
  <2> QED
    BY <1>2, <2>2, <2>3
<1>6. CASE Request(c)
  <2>1. /\ pc[c] \in Handling /\ pc'[c] \in Handling
        /\ asset' = asset /\ todo' = todo /\ listed' = listed /\ rows' = rows
    BY <1>6 DEF Request, GetAsset, CheckIn, Refuse, FailCheckIn, Goto, TypeOK, Handling, loop,
       search
  <2>2. Past(c)' = Past(c)
    BY <2>1 DEF Past, Begun
  <2> QED
    BY <1>2, <2>1, <2>2 DEF Handling
<1>7. CASE WriteRow(c)
  <2>1. /\ pc[c] \in Handling /\ pc[c] \notin {"error", "lost"} /\ pc'[c] \notin Handling
        /\ todo' = todo /\ listed' = listed
    BY <1>7 DEF WriteRow, Continue, Goto, TypeOK, Handling, search
  <2>2. asset[c] \in Begun(c)
    BY <2>1 DEF Oriented, Ordered, Begun
  <2>3. Past(c) = Begun(c) \ {asset[c]} /\ Past(c)' = Begun(c)
    BY <2>1 DEF Past, Begun
  <2>4. IsFiniteSet(Begun(c))
    BY AssetsFinite DEF Begun, TypeOK
  <2>5. Cardinality(Begun(c)) \in Nat /\ Cardinality(Past(c)) = Cardinality(Begun(c)) - 1
    BY <2>2, <2>3, <2>4, FS_RemoveElement, FS_CardinalityType
  <2> QED
    BY <1>7, <2>1, <2>3, <2>5, RowWritten DEF Counted
<1>8. CASE UpdateNotes(c)
  <2>1. /\ pc[c] = "note" /\ pc'[c] = "done" /\ todo' = todo /\ listed' = listed /\ rows' = rows
    BY <1>8 DEF UpdateNotes, Goto, TypeOK, loop
  <2>2. Past(c)' = Past(c)
    BY <2>1 DEF Past, Begun, Handling
  <2> QED
    BY <1>2, <2>1, <2>2
<1>9. CASE FailRow(c) \/ Crash
  <2>1. Crash
    BY <1>1, <1>9 DEF FailRow, Goto, TypeOK
  <2>2. pc'[c] = pc[c] /\ UNCHANGED <<todo, listed, asset, rows>>
    BY <1>1, <2>1 DEF Crash, search, loop
  <2>3. Past(c)' = Past(c)
    BY <2>2 DEF Past, Begun
  <2> QED
    BY <1>1, <1>2, <2>2, <2>3
<1>10. CASE Same(c)
  <2>1. Past(c)' = Past(c)
    BY <1>10 DEF Same, Past, Begun
  <2> QED
    BY <1>1, <1>2, <1>10, <2>1 DEF Same
<1> QED
  BY <1>3, <1>4, <1>5, <1>6, <1>7, <1>8, <1>9, <1>10, RunsApart, ManualApart DEF Next, DirectoryHangs, Run, vars

\* A run that ends on its own terms has reported each asset with a tag once.
THEOREM EveryAssetReported == Spec => []RowPerAsset
<1> DEFINE Inv == \A c \in Runs : Counted(c)
<1>1. Init => Inv
  <2> SUFFICES ASSUME Init, NEW c \in Runs PROVE Counted(c)
    OBVIOUS
  <2>1. Past(c) = {} /\ Written(c) = 0
    BY DEF Init, Past, Begun, Written
  <2> QED
    BY <2>1, FS_EmptySet DEF Counted
<1>2. Aware /\ Aware' /\ Inv /\ [Next]_vars => Inv'
  BY StepCounted
<1>3. Aware /\ Inv => RowPerAsset
  <2> SUFFICES ASSUME Aware, Inv, NEW c \in Runs, pc[c] \in {"note", "done"}
               PROVE  rows[c][SUCCESS] + rows[c][FAILED] = Cardinality(listed[c] \ Untagged)
    BY DEF RowPerAsset
  <2>1. Past(c) = listed[c] \ Untagged
    BY DEF Aware, Oriented, Ordered, Past, Begun, Handling
  <2> QED
    BY <2>1 DEF Counted, Written
<1> HIDE DEF Inv
<1> QED
  BY <1>1, <1>2, <1>3, AwareInvariant, PTL DEF Spec

\* More assets have left, or more were answered.
LEMMA MoreLeft ==
    ASSUME TypeOK, TypeOK', NEW c \in Runs,
           moved[c] \cap Answered(c) \subseteq moved'[c] \cap Answered(c)'
    PROVE  Cardinality(moved[c] \cap Answered(c)) <= Cardinality(moved'[c] \cap Answered(c)')
BY AssetsFinite, FS_Subset DEF TypeOK, Answered, Begun

\* An answer that is believed is one more asset that left, or a refusal.
LEMMA RequestTruthful ==
    ASSUME Aware, Aware', [Next]_vars, NEW c \in Runs, Truthful(c), Request(c)
    PROVE  Truthful(c)'
<1> c \in Calls /\ c \notin Manual
  BY EquipmentAssumption DEF Calls
<1> USE DEF Aware
<1>1. /\ UNCHANGED <<listed, todo, asset, rows, anySuccess>> /\ rows[c][SUCCESS] \in Nat
      /\ moved[c] \subseteq moved'[c] /\ refused[c] \in Nat /\ refused'[c] \in Nat
  BY StepMoves DEF Request, GetAsset, CheckIn, Refuse, FailCheckIn, search, loop, TypeOK,
     SUCCESS, FAILED
<1>2. Cardinality(moved[c] \cap Answered(c)) \in Nat
      /\ Cardinality(moved'[c] \cap Answered(c)') \in Nat
  BY AssetsFinite DEF TypeOK
<1>3. CASE GetAsset(c)
  <2>1. pc[c] = "tag" /\ pc'[c] \in {"checkin", "failed"} /\ refused' = refused
    BY <1>3 DEF GetAsset, Goto, TypeOK, history
  <2>2. Cardinality(moved[c] \cap Answered(c)) <= Cardinality(moved'[c] \cap Answered(c)')
    BY <1>1, <2>1, MoreLeft DEF Answered, Begun
  <2> QED
    BY <1>1, <1>2, <2>1, <2>2 DEF Truthful, Believed
<1>4. CASE FailCheckIn(c)
  <2>1. pc[c] = "checkin" /\ pc'[c] = "failed" /\ refused' = refused
    BY <1>4 DEF FailCheckIn, Goto, TypeOK, history
  <2>2. Cardinality(moved[c] \cap Answered(c)) <= Cardinality(moved'[c] \cap Answered(c)')
    BY <1>1, <2>1, MoreLeft DEF Answered, Begun
  <2> QED
    BY <1>1, <1>2, <2>1, <2>2 DEF Truthful, Believed
<1>5. CASE CheckIn(c) \/ Refuse(c)
  <2>1. /\ pc[c] = "checkin" /\ pc'[c] \in {"returned", "failed"}
        /\ asset[c] \in (listed[c] \ Untagged) \ todo[c]
    BY <1>5 DEF CheckIn, Refuse, Goto, TypeOK, Oriented, Ordered, Handling
  <2>2. /\ Answered(c)' = Answered(c) \cup {asset[c]} /\ asset[c] \notin Answered(c)
    BY <1>1, <2>1 DEF Answered, Begun
  <2>3. Believed(c)' <= Believed(c) + 1 /\ Believed(c) \in Nat /\ Believed(c)' \in Nat
    BY <1>1, <2>1 DEF Believed
  <2>4. ASSUME asset[c] \in moved'[c], refused' = refused PROVE Truthful(c)'
    <3> DEFINE left == moved[c] \cap Answered(c)
               more == left \cup {asset[c]}
    <3>1. IsFiniteSet(left) /\ asset[c] \notin left
      BY <2>2, AssetsFinite DEF TypeOK
    <3>2. Cardinality(more) = Cardinality(left) + 1
      BY <3>1, FS_AddElement
    <3>3. more \subseteq moved'[c] \cap Answered(c)' /\ IsFiniteSet(moved'[c] \cap Answered(c)')
      BY <1>1, <2>2, <2>4, AssetsFinite DEF TypeOK
    <3>4. Cardinality(more) <= Cardinality(moved'[c] \cap Answered(c)')
      BY <3>3, FS_Subset
    <3>5. moved'[c] # {}
      BY <2>4
    <3> QED
      BY <1>1, <1>2, <2>3, <2>4, <3>2, <3>4, <3>5 DEF Truthful
  <2>5. ASSUME refused'[c] = refused[c] + 1 PROVE Truthful(c)'
    <3>1. Cardinality(moved[c] \cap Answered(c)) <= Cardinality(moved'[c] \cap Answered(c)')
      BY <1>1, <2>2, MoreLeft
    <3>2. refused'[c] > 0
      BY <1>1, <2>5
    <3> QED
      BY <1>1, <1>2, <2>3, <2>5, <3>1, <3>2 DEF Truthful
  <2>6. CASE CheckIn(c)
    <3>1. asset[c] \in moved'[c] /\ refused' = refused
      BY <2>1, <2>6 DEF CheckIn, Moved
    <3> QED
      BY <2>4, <3>1
  <2>7. CASE Refuse(c) /\ holder[asset[c]] # STOCK
    <3>1. refused'[c] = refused[c] + 1
      BY <2>7 DEF Refuse, TypeOK
    <3> QED
      BY <2>5, <3>1
  <2>8. CASE Refuse(c) /\ holder[asset[c]] = STOCK
    <3>1. owner[c] # STOCK
      BY <2>1, PeopleAssumption DEF Oriented, Found, Ended
    <3>2. asset[c] \in moved[c]
      BY <2>1, <2>8, <3>1 DEF Oriented, Held
    <3>3. refused' = refused
      BY <2>8 DEF Refuse
    <3> QED
      BY <1>1, <2>4, <3>2, <3>3
  <2> QED
    BY <1>5, <2>6, <2>7, <2>8
<1> QED
  BY <1>3, <1>4, <1>5 DEF Request

\* Every other step believes no more than before.
LEMMA StepTruthful ==
    ASSUME Aware, Aware', [Next]_vars, NEW c \in Runs, Truthful(c)
    PROVE  Truthful(c)'
<1> c \in Calls
  BY DEF Calls
<1> USE DEF Aware
<1>1. moved[c] \subseteq moved'[c]
  BY StepMoves
<1>2. Cardinality(moved[c] \cap Answered(c)) \in Nat
      /\ Cardinality(moved'[c] \cap Answered(c)') \in Nat /\ refused[c] \in Nat
      /\ Believed(c) \in Nat
  BY AssetsFinite DEF TypeOK, Believed, SUCCESS, FAILED
<1>3. ASSUME Answered(c) \subseteq Answered(c)', Believed(c)' <= Believed(c), Believed(c)' \in Nat,
             refused'[c] = refused[c],
             anySuccess'[c] \/ pc'[c] = "returned" => anySuccess[c] \/ pc[c] = "returned"
      PROVE  Truthful(c)'
  <2>1. Cardinality(moved[c] \cap Answered(c)) <= Cardinality(moved'[c] \cap Answered(c)')
    BY <1>1, <1>3, MoreLeft
  <2> QED
    BY <1>1, <1>2, <1>3, <2>1 DEF Truthful
<1>4. ASSUME pc'[c] # "returned", rows' = rows
      PROVE  Believed(c)' <= Believed(c) /\ Believed(c)' \in Nat
  BY <1>4 DEF Believed, TypeOK, SUCCESS, FAILED
<1>5. CASE SearchUser(c) \/ FailSearch(c) \/ ListAssets(c)
  <2>1. /\ pc'[c] # "returned" /\ UNCHANGED <<rows, anySuccess, refused>>
        /\ pc[c] \in {"idle", "assets"}
    BY <1>5 DEF SearchUser, FailSearch, ListAssets, Goto, TypeOK, loop, history
  <2>2. Answered(c) = {}
    BY <2>1 DEF Oriented, Fresh, Answered, Begun
  <2> QED
    BY <1>3, <1>4, <2>1, <2>2
<1>6. CASE FetchTemplate(c) \/ SkipUntagged(c) \/ FailRow(c) \/ UpdateNotes(c)
  <2>1. /\ pc'[c] \notin {"tag", "checkin", "returned"} /\ UNCHANGED <<rows, anySuccess, refused>>
        /\ todo'[c] \subseteq todo[c] /\ listed' = listed
    BY <1>6 DEF FetchTemplate, SkipUntagged, FailRow, UpdateNotes, Continue, Goto, TypeOK,
       search, loop, history
  <2>2. Answered(c) \subseteq Answered(c)'
    BY <2>1 DEF Answered, Begun
  <2> QED
    BY <1>3, <1>4, <2>1, <2>2
<1>7. CASE GenerateTerm(c)
  <2>1. PICK a \in todo[c] \ Untagged :
           asset' = [asset EXCEPT ![c] = a] /\ todo' = [todo EXCEPT ![c] = @ \ {a}]
    BY <1>7, Zenon DEF GenerateTerm
  <2>2. /\ asset'[c] = a /\ todo'[c] = todo[c] \ {a} /\ pc'[c] = "tag" /\ pc[c] = "next"
        /\ UNCHANGED <<listed, rows, anySuccess, refused>>
    BY <1>7, <2>1 DEF GenerateTerm, TermDone, Goto, TypeOK, search, history
  <2>3. Answered(c) \subseteq Answered(c)'
    BY <2>1, <2>2 DEF Answered, Begun
  <2> QED
    BY <1>3, <1>4, <2>2, <2>3
<1>8. CASE WriteRow(c)
  <2> DEFINE any == anySuccess[c] \/ pc[c] = "returned"
  <2>1. /\ pc[c] \in {"returned", "failed"} /\ UNCHANGED <<listed, todo, asset, refused>>
    BY <1>8 DEF WriteRow, search, history
  <2>2. pc'[c] \in {"next", "note", "done"}
    <3>1. Continue(c, todo[c], any)
      BY <1>8, Zenon DEF WriteRow
    <3> HIDE DEF any
    <3> QED
      BY <3>1 DEF Continue, Goto, TypeOK
  <2>3. anySuccess'[c] = any
    BY <1>8, Zenon DEF WriteRow, TypeOK
  <2>4. rows'[c][SUCCESS] <= Believed(c) /\ rows'[c][SUCCESS] \in Nat
    BY <1>8, RowWritten DEF Believed, TypeOK, SUCCESS, FAILED
  <2>5. Believed(c)' <= Believed(c) /\ Believed(c)' \in Nat
    BY <2>2, <2>4 DEF Believed
  <2>6. Answered(c) \subseteq Answered(c)'
    BY <2>1, <2>2 DEF Answered, Begun
  <2> QED
    BY <1>3, <2>1, <2>2, <2>3, <2>5, <2>6
<1>9. CASE Crash
  <2>1. /\ pc'[c] \in {pc[c], "lost"} /\ UNCHANGED <<listed, todo, asset, rows, anySuccess, refused>>
    BY <1>9 DEF Crash, search, loop, history
  <2>2. Answered(c) \subseteq Answered(c)'
    BY <2>1 DEF Answered, Begun
  <2>3. Believed(c)' <= Believed(c) /\ Believed(c)' \in Nat
    BY <1>2, <2>1 DEF Believed, TypeOK, SUCCESS, FAILED
  <2> QED
    BY <1>3, <2>1, <2>2, <2>3
<1>10. CASE Same(c)
  <2>1. Answered(c) = Answered(c)' /\ Believed(c)' = Believed(c)
    BY <1>10 DEF Same, Answered, Begun, Believed
  <2> QED
    BY <1>2, <1>3, <1>10, <2>1 DEF Same
<1> QED
  BY <1>5, <1>6, <1>7, <1>8, <1>9, <1>10, RequestTruthful, RunsApart, ManualApart DEF Next, DirectoryHangs, Run, vars

\* What rows and result of a run say was returned has left its holder, or was refused in
\* a way that the code does not look at.
THEOREM ReturnsHold == Spec => []ReturnsAreTrue
<1> DEFINE Inv == \A c \in Runs : Truthful(c)
<1>1. Init => Inv
  <2> SUFFICES ASSUME Init, NEW c \in Runs PROVE Truthful(c)
    OBVIOUS
  <2>1. moved[c] \cap Answered(c) = {} /\ Believed(c) = 0 /\ refused[c] = 0
        /\ ~anySuccess[c] /\ pc[c] # "returned"
    BY DEF Init, Believed, Calls
  <2> QED
    BY <2>1, FS_EmptySet DEF Truthful
<1>2. Aware /\ Aware' /\ Inv /\ [Next]_vars => Inv'
  BY StepTruthful
<1>3. Aware /\ Inv => ReturnsAreTrue
  <2> SUFFICES ASSUME Aware, Inv, NEW c \in Runs
               PROVE  /\ rows[c][SUCCESS] <= Cardinality(moved[c]) + refused[c]
                      /\ anySuccess[c] => moved[c] # {} \/ refused[c] > 0
    BY DEF ReturnsAreTrue
  <2>1. Cardinality(moved[c] \cap Answered(c)) <= Cardinality(moved[c])
        /\ Cardinality(moved[c] \cap Answered(c)) \in Nat /\ Cardinality(moved[c]) \in Nat
    BY AssetsFinite, FS_Subset DEF Aware, TypeOK
  <2>2. rows[c][SUCCESS] \in Nat /\ refused[c] \in Nat
    BY DEF Aware, TypeOK, SUCCESS, FAILED
  <2> QED
    BY <2>1, <2>2 DEF Truthful, Believed
<1> HIDE DEF Inv
<1> QED
  BY <1>1, <1>2, <1>3, AwareInvariant, PTL DEF Spec

-----------------------------------------------------------------------------
(* Notes *)

\* A run that is over, succeeded, and had nobody better than p to note.
Deserved(c, p) == pc[c] \in Ended /\ anySuccess[c] /\ (Number[p] = wants[c] \/ Guessed(c))

\* Only a run that succeeded comes to the notes, and the notes are by such runs.
Noted ==
    /\ \A c \in Runs : pc[c] = "note" => anySuccess[c]
    /\ \A p \in People, c \in Runs : note[p] = c => Deserved(c, p)

\* Every step keeps the notes earned.
LEMMA StepNoted == ASSUME Aware, Aware', Noted, [Next]_vars PROVE Noted'
<1> USE DEF Aware
<1>1. ASSUME NEW c \in Runs, pc'[c] = "note" PROVE anySuccess'[c]
  <2>1. CASE WriteRow(c)
    <3> DEFINE any == anySuccess[c] \/ pc[c] = "returned"
    <3>1. Continue(c, todo[c], any) /\ anySuccess' = [anySuccess EXCEPT ![c] = any]
      BY <2>1, Zenon DEF WriteRow
    <3>2. anySuccess'[c] = any
      BY <3>1, Zenon DEF TypeOK
    <3> HIDE DEF any
    <3> QED
      BY <1>1, <3>1, <3>2 DEF Continue, Goto, TypeOK, Calls
  <2>2. CASE SkipUntagged(c)
    BY <1>1, <2>2 DEF SkipUntagged, Continue, Goto, TypeOK, Calls
  <2>3. CASE SearchUser(c) \/ FailSearch(c) \/ ListAssets(c) \/ FetchTemplate(c)
    BY <1>1, <2>3 DEF SearchUser, FailSearch, ListAssets, FetchTemplate, Goto, TypeOK, Calls
  <2>4. CASE GenerateTerm(c) \/ Request(c) \/ FailRow(c) \/ UpdateNotes(c)
    BY <1>1, <2>4 DEF GenerateTerm, TermDone, Request, GetAsset, CheckIn, Refuse, FailCheckIn,
       FailRow, UpdateNotes, Goto, TypeOK, Calls
  <2>5. CASE Crash
    BY <1>1, <2>5 DEF Crash, Noted, loop, Calls
  <2>6. CASE Same(c)
    BY <1>1, <2>6 DEF Same, Noted
  <2> QED
    BY <2>1, <2>2, <2>3, <2>4, <2>5, <2>6, RunsApart, ManualApart DEF Next, DirectoryHangs, Run, vars
<1>2. ASSUME NEW c \in Runs, pc[c] \in Ended
      PROVE  pc'[c] \in Ended /\ anySuccess'[c] = anySuccess[c] /\ wants'[c] = wants[c]
             /\ page'[c] = page[c]
  <2>1. ~Run(c)
    BY <1>2 DEF Run, Request, SearchUser, FailSearch, ListAssets, FetchTemplate, SkipUntagged,
       GenerateTerm, GetAsset, CheckIn, Refuse, FailCheckIn, WriteRow, FailRow, UpdateNotes, Ended
  <2>2. CASE Crash
    BY <1>2, <2>2 DEF Crash, Calls, search, loop
  <2>3. CASE Same(c)
    BY <1>2, <2>3 DEF Same
  <2> QED
    BY <2>1, <2>2, <2>3, RunsApart, ManualApart DEF Next, DirectoryHangs, vars
<1>3. ASSUME NEW p \in People, NEW c \in Runs, note[p] = c
      PROVE  Deserved(c, p)'
  BY <1>2, <1>3 DEF Noted, Deserved, Guessed, Exact
<1>4. ASSUME NEW d \in Runs, UpdateNotes(d), NEW p \in People, note'[p] # note[p]
      PROVE  note'[p] = d /\ Deserved(d, p)'
  <2>1. PICK P \in Answers(wants[d]) : \E q \in Employee(P, wants[d]) :
           page' = [page EXCEPT ![d] = P] /\ note' = [note EXCEPT ![q] = Signed(d)]
    BY <1>4 DEF UpdateNotes
  <2>2. PICK q \in Employee(P, wants[d]) :
           page' = [page EXCEPT ![d] = P] /\ note' = [note EXCEPT ![q] = Signed(d)]
    BY <2>1
  <2>3. q = p /\ note'[p] = d /\ page'[d] = P
    BY <1>4, <2>2 DEF TypeOK, Signed
  <2>4. Exact(P, wants[d]) = {} \/ Number[p] = wants[d]
    BY <2>2, <2>3, EmployeeFound DEF TypeOK
  <2>5. pc'[d] = "done" /\ wants' = wants /\ anySuccess'[d] = anySuccess[d] /\ anySuccess[d]
    BY <1>4 DEF UpdateNotes, Goto, TypeOK, Calls, loop, Noted
  <2> QED
    BY <2>3, <2>4, <2>5 DEF Deserved, Guessed, Exact, Ended
<1>5. CASE UNCHANGED note
  BY <1>1, <1>3, <1>5 DEF Noted
<1>6. CASE \E d \in Runs : UpdateNotes(d)
  BY <1>1, <1>3, <1>4, <1>6 DEF Noted
<1> QED
  BY <1>5, <1>6 DEF Next, DirectoryHangs, Run, Request, vars, served, snipe, SearchUser, FailSearch, ListAssets,
     FetchTemplate, SkipUntagged, GenerateTerm, GetAsset, CheckIn, Refuse, FailCheckIn,
     WriteRow, FailRow, StartManual, AnswerManual, HandOver, Crash

\* Nobody is noted as disabled by a run that returned nothing, or in the place of an
\* employee whom the search had found.
THEOREM NotesAreDeserved == Spec => []NotesAreEarned
<1>1. Init => Noted
  BY PeopleAssumption DEF Init, Noted, Calls
<1>2. Aware /\ Noted => NotesAreEarned
  BY DEF Aware, TypeOK, Noted, Deserved, NotesAreEarned
<1> QED
  BY <1>1, <1>2, StepNoted, AwareInvariant, PTL DEF Spec

-----------------------------------------------------------------------------
(* When the page is long enough *)

\* Each number belongs to somebody in Snipe-IT, and a page holds all who mention it.
PageSuffices ==
    \A n \in Numbers : /\ IsFiniteSet(Mentions[n]) /\ Cardinality(Mentions[n]) <= PageSize
                       /\ Exact(Mentions[n], n) # {}

\* Then every answer shows the employee.
LEMMA NobodyMissed ==
    ASSUME PageSuffices, NEW n \in Numbers, NEW P \in Answers(n)
    PROVE  P # {} /\ Exact(P, n) # {}
<1>1. P \subseteq Mentions[n] /\ P # {}
  BY DEF Answers
<1>2. CASE Cardinality(P) = PageSize
  <2>1. /\ IsFiniteSet(Mentions[n]) /\ Cardinality(Mentions[n]) <= PageSize
        /\ Cardinality(P) <= Cardinality(Mentions[n])
        /\ Cardinality(Mentions[n]) = Cardinality(P) => Mentions[n] = P
    BY <1>1, FS_Subset DEF PageSuffices
  <2>2. Cardinality(Mentions[n]) \in Nat /\ PageSize \in Nat
    BY <2>1, FS_CardinalityType, EquipmentAssumption
  <2> QED
    BY <1>1, <1>2, <2>1, <2>2 DEF PageSuffices
<1>3. CASE P = Mentions[n]
  BY <1>1, <1>3 DEF PageSuffices
<1> QED
  BY <1>2, <1>3 DEF Answers

\* Whoever searched has seen the employee.
Searched(c) ==
    /\ pc[c] \notin {"idle"} \cup Ended => page[c] # {}
    /\ \A p \in People : note[p] = c => page[c] # {}
    /\ page[c] # {} => ~Guessed(c)

\* A step leaves a run with the page it had, or with an answer to its search.
LEMMA StepSearched ==
    ASSUME PageSuffices, TypeOK, [Next]_vars, NEW c \in Runs, Searched(c)
    PROVE  Searched(c)'
<1> c \in Calls
  BY DEF Calls
<1>1. ASSUME NEW P \in Answers(wants[c]), page' = [page EXCEPT ![c] = P], wants' = wants
      PROVE  Searched(c)'
  <2>1. page'[c] = P /\ wants'[c] = wants[c] /\ wants[c] \in Numbers
    BY <1>1 DEF TypeOK
  <2>2. P # {} /\ Exact(P, wants[c]) # {}
    BY <2>1, NobodyMissed
  <2> QED
    BY <2>1, <2>2 DEF Searched, Guessed, Exact
<1>2. ASSUME page'[c] = page[c], wants'[c] = wants[c],
             pc'[c] \in {"idle"} \cup Ended \/ pc[c] \notin {"idle"} \cup Ended,
             \A p \in People : note'[p] = c => note[p] = c
      PROVE  Searched(c)'
  BY <1>2 DEF Searched, Guessed, Exact
<1>3. CASE SearchUser(c)
  BY <1>1, <1>3 DEF SearchUser
<1>4. CASE UpdateNotes(c)
  <2>1. CASE UNCHANGED <<page, note>>
    BY <1>2, <1>4, <2>1 DEF UpdateNotes, Goto, TypeOK, Ended
  <2>2. CASE ~UNCHANGED <<page, note>>
    BY <1>1, <1>4, <2>2 DEF UpdateNotes
  <2> QED
    BY <2>1, <2>2
<1>5. CASE FailSearch(c) \/ ListAssets(c) \/ FetchTemplate(c) \/ SkipUntagged(c)
           \/ GenerateTerm(c) \/ Request(c) \/ WriteRow(c) \/ FailRow(c)
  <2>1. UNCHANGED <<page, wants, note>>
    BY <1>5 DEF FailSearch, ListAssets, FetchTemplate, SkipUntagged, GenerateTerm, Request,
       GetAsset, CheckIn, Refuse, FailCheckIn, WriteRow, FailRow, search, snipe
  <2>2. pc'[c] \in Ended \/ pc[c] \notin {"idle"} \cup Ended
    BY <1>5 DEF FailSearch, ListAssets, FetchTemplate, SkipUntagged, GenerateTerm, Request,
       GetAsset, CheckIn, Refuse, FailCheckIn, WriteRow, FailRow, Goto, TypeOK, Ended
  <2> QED
    BY <1>2, <2>1, <2>2
<1>6. CASE Crash
  BY <1>2, <1>6 DEF Crash, search, snipe, Ended
<1>7. CASE Same(c) /\ \A p \in People : note'[p] = c => note[p] = c
  BY <1>2, <1>7 DEF Same
<1>8. ASSUME NEW d \in Runs, d # c, Run(d)
      PROVE  \A p \in People : note'[p] = c => note[p] = c
  <2>1. CASE UpdateNotes(d)
    BY <1>8, <2>1, Zenon DEF UpdateNotes, Signed, TypeOK
  <2>2. CASE ~UpdateNotes(d)
    BY <1>8, <2>2 DEF Run, Request, SearchUser, FailSearch, ListAssets, FetchTemplate,
       SkipUntagged, GenerateTerm, GetAsset, CheckIn, Refuse, FailCheckIn, WriteRow, FailRow, snipe
  <2> QED
    BY <2>1, <2>2
<1>9. CASE \/ \E m \in Manual : StartManual(m) \/ Request(m) \/ AnswerManual(m)
           \/ \E a \in Assets, p \in People : HandOver(a, p)
           \/ UNCHANGED served
  <2>1. note' = note
    BY <1>9 DEF StartManual, Request, GetAsset, CheckIn, Refuse, FailCheckIn, AnswerManual,
       HandOver, served, snipe
  <2> QED
    BY <1>7, <1>9, <2>1, ManualApart
<1> QED
  BY <1>3, <1>4, <1>5, <1>6, <1>7, <1>8, <1>9, RunsApart DEF Next, DirectoryHangs, Run, vars

LastHolder(c) == Number[holder[asset[c]]] = wants[c] \/ asset[c] \in moved[c]

\* OwnEquipmentOnly with one exception, and NotesAreEarned with none.
OwnOrHandedOver ==
    [][\A c \in Runs :
         (pc[c] = "checkin" /\ pc'[c] # "checkin" /\ holder'[asset[c]] # holder[asset[c]])
           => LastHolder(c)]_vars
NotesAreOwn ==
    \A p \in People : note[p] # NOBODY => anySuccess[note[p]] /\ Number[p] = wants[note[p]]

\* With a page that is long enough, and for registrations that Snipe-IT knows, a run
\* takes nobody's equipment by its search and writes nobody else's notes: the length
\* of the page is the only way to a colleague, besides assets handed over meanwhile.
THEOREM PageIsTheOnlyGuess ==
    ASSUME PageSuffices
    PROVE  Spec => OwnOrHandedOver /\ []NotesAreOwn
<1> DEFINE Inv == \A c \in Runs : Searched(c)
<1>1. Init => Inv
  BY PeopleAssumption DEF Init, Searched, Ended, Calls
<1>2. Aware /\ Inv /\ [Next]_vars => Inv'
  BY StepSearched DEF Aware
<1>3. ASSUME Aware, Inv, NEW c \in Runs, pc[c] = "checkin"
      PROVE  LastHolder(c)
  BY <1>3 DEF Aware, Oriented, Found, Held, Ordered, Handling, Ended, Searched, LastHolder
<1>4. Aware /\ Inv /\ [Next]_vars =>
        [\A c \in Runs :
           (pc[c] = "checkin" /\ pc'[c] # "checkin" /\ holder'[asset[c]] # holder[asset[c]])
             => LastHolder(c)]_vars
  BY <1>3
<1>5. Aware /\ Inv /\ NotesAreEarned => NotesAreOwn
  <2> SUFFICES ASSUME Aware, Inv, NotesAreEarned, NEW p \in People, note[p] # NOBODY
               PROVE  anySuccess[note[p]] /\ Number[p] = wants[note[p]]
    BY DEF NotesAreOwn
  <2>1. note[p] \in Runs
    BY DEF Aware, TypeOK
  <2> QED
    BY <2>1 DEF NotesAreEarned, Searched
<1> HIDE DEF Inv
<1> QED
  BY <1>1, <1>2, <1>4, <1>5, AwareInvariant, NotesAreDeserved, PTL DEF Spec, OwnOrHandedOver
=============================================================================
