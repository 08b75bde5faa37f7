-------------------------------- MODULE Registry -------------------------------
(***************************************************************************)
(* What the endpoints of the users promise their callers.  A user appears  *)
(* as a whole.  Each attribute that an update sets has its value at some   *)
(* moment of the call: it is found so, or it is set, all that were not     *)
(* found at once.  A refusal has its reason at that moment.  Values are    *)
(* unique at every moment.  Users implements it.                           *)
(***************************************************************************)
CONSTANTS Creates,    \* calls that create a user, which has their identity
          Updates,    \* calls that update one
          Attributes, \* its attributes, all of them unique
          Unset       \* an attribute that a call does not set

VARIABLES users,  \* the users there are
          value,  \* the values of each attribute, by user
          rows,   \* the rows in the audit trail, <<call, action, status>>
          target, \* the user of each call
          want,   \* the values of each attribute, by call that sets them
          met,    \* the attributes that have been as the call wants them
          answer  \* what each call answered, "none" so far

vars == <<users, value, rows, target, want, met, answer>>

Calls == Creates \cup Updates

\* No other user than i has the value.
Free(attribute, v, i) == \A j \in users \ {i} : value[attribute][j] # v

Init ==
    /\ users \cap Creates = {}
    /\ \A a \in Attributes, i \in users : Free(a, value[a][i], i)
    /\ rows = {}
    /\ \A c \in Creates : target[c] = c
    /\ met = [c \in Calls |-> {}]
    /\ answer = [c \in Calls |-> "none"]

\* A creation is on record before there is a user.
Create(c) ==
    /\ answer[c] = "none"
    /\ c \notin users
    /\ <<c, "create_user", "SUCCESS">> \in rows
    /\ \A a \in Attributes : Free(a, want[a][c], c)
    /\ users' = users \cup {c}
    /\ value' = [a \in Attributes |-> [value[a] EXCEPT ![c] = want[a][c]]]
    /\ met' = [met EXCEPT ![c] = Attributes]
    /\ UNCHANGED <<rows, target, want, answer>>

\* An update need not set what it finds as it wants it, ...
Find(c) ==
    /\ answer[c] = "none"
    /\ target[c] \in users
    /\ met' = [met EXCEPT ![c] =
                 @ \cup {a \in Attributes : want[a][c] \in {Unset, value[a][target[c]]}}]
    /\ UNCHANGED <<users, value, rows, target, want, answer>>

\* ... and sets the rest, and only the rest, at once.
Set(c) ==
    /\ answer[c] = "none"
    /\ target[c] \in users
    /\ \A a \in Attributes \ met[c] : Free(a, want[a][c], target[c])
    /\ value' = [a \in Attributes |->
                   IF a \in met[c] THEN value[a]
                   ELSE [value[a] EXCEPT ![target[c]] = want[a][c]]]
    /\ met' = [met EXCEPT ![c] = Attributes]
    /\ UNCHANGED <<users, rows, target, want, answer>>

\* Creations are announced, updates reported.
Log(c, action) ==
    /\ answer[c] = "none"
    /\ IF c \in Creates THEN action = "create_user" ELSE action = "update_user"
    /\ c \in Updates => met[c] = Attributes
    /\ rows' = rows \cup {<<c, action, "SUCCESS">>}
    /\ UNCHANGED <<users, value, target, want, met, answer>>

Answer(c, result) ==
    /\ answer[c] = "none"
    /\ answer' = [answer EXCEPT ![c] = result]
    /\ UNCHANGED <<users, value, target, want>>

Confirm(c) ==
    /\ met[c] = Attributes
    /\ \E action \in {"create_user", "update_user"} : <<c, action, "SUCCESS">> \in rows
    /\ Answer(c, "ok")
    /\ UNCHANGED <<rows, met>>

\* A call that does not succeed keeps no promise but that its answer is true; an
\* error may come at any time.
Refuse(c, result) ==
    /\ result = "conflict" => \E a \in Attributes \ met[c], i \in users : value[a][i] = want[a][c]
    /\ result = "missing" => target[c] \notin users
    /\ Answer(c, result)
    /\ rows' = IF result = "missing" THEN rows \cup {<<c, "update_user", "FAILED">>} ELSE rows
    /\ met' = [met EXCEPT ![c] = {}]

Next ==
    \/ \E c \in Creates : Create(c)
    \/ \E c \in Updates : Find(c) \/ Set(c) \/ Refuse(c, "missing")
    \/ \E c \in Calls :
          \/ Log(c, "create_user") \/ Log(c, "update_user") \/ Confirm(c)
          \/ Refuse(c, "conflict") \/ Refuse(c, "error")

Spec == Init /\ [][Next]_vars
=============================================================================
