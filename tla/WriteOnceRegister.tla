-------------------------- MODULE WriteOnceRegister --------------------------
(***************************************************************************)
(* What a store of results promises: for each RID a value written once.    *)
(* One put is accepted at most and the value stays that put's; the others  *)
(* are rejected, and a get returns the value or nothing.  A put may end    *)
(* without an answer whether or not its value was stored.  The promise is  *)
(* given up for the RIDs that are broken, and for these alone.             *)
(***************************************************************************)
CONSTANTS Rid, Value, None

VARIABLES
  value,    \* value[r]: the result stored for r, or None
  owed,     \* the RIDs whose put is stored and still to be accepted
  broken,   \* the RIDs nothing is promised of any more
  answer    \* what the last call returned, or None

vars == <<value, owed, broken, answer>>

Answer ==
  [op : {"put"}, rid : Rid, val : Value, ok : BOOLEAN]
    \cup [op : {"get"}, rid : Rid, val : Value \cup {None}, ok : {TRUE}]

Init ==
  /\ value = [r \in Rid |-> None]
  /\ owed = {}
  /\ broken = {}
  /\ answer = None

\* A value is stored, for a put that waits for its answer or for one that ended.
Store(r, v) ==
  /\ value[r] = None
  /\ value' = [value EXCEPT ![r] = v]
  /\ owed' \in {owed, owed \cup {r}}
  /\ answer' = None
  /\ UNCHANGED broken

\* The put of the value is accepted, once; it may store it in the same step.
Accept(r, v) ==
  /\ \/ value[r] = None
     \/ value[r] = v /\ r \in owed
  /\ value' = [value EXCEPT ![r] = v]
  /\ owed' = owed \ {r}
  /\ answer' = [op |-> "put", rid |-> r, val |-> v, ok |-> TRUE]
  /\ UNCHANGED broken

Reject(r, v) ==
  /\ value[r] # None
  /\ answer' = [op |-> "put", rid |-> r, val |-> v, ok |-> FALSE]
  /\ UNCHANGED <<value, owed, broken>>

Read(r) ==
  /\ answer' \in {[op |-> "get", rid |-> r, val |-> v, ok |-> TRUE] : v \in {value[r], None}}
  /\ UNCHANGED <<value, owed, broken>>

\* A call is made, works on, or ends in an exception.
Internal ==
  /\ answer' = None
  /\ owed' \subseteq owed
  /\ UNCHANGED <<value, broken>>

\* Anything may happen to the RIDs that are broken, nothing to the others.
Break ==
  /\ value' \in [Rid -> Value \cup {None}]
  /\ broken' \in SUBSET Rid
  /\ broken \subseteq broken'
  /\ \A r \in Rid \ broken' : value'[r] = value[r]
  /\ owed' \subseteq owed \cup broken'
  /\ answer' = None \/ (answer' \in Answer /\ answer'.rid \in broken')

Next ==
  \/ Internal
  \/ Break
  \/ \E r \in Rid : Read(r)
  \/ \E r \in Rid, v \in Value : Store(r, v) \/ Accept(r, v) \/ Reject(r, v)

Spec == Init /\ [][Next]_vars
=============================================================================
