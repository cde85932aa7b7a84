----------------------------- MODULE ResultStore -----------------------------
(***************************************************************************)
(* The invoker's store of results                                          *)
(* (openwhisk_extensions/invoker/confidential_invoker.py): ResultStore, a  *)
(* dictionary under a lock, and CouchDBResultStore, which asks CouchDB and *)
(* falls back to the dictionary when the connection fails.  Threads put    *)
(* and get results concurrently, and the invoker may restart.  CouchDB     *)
(* carries a PUT out in one step and answers it in another, so a call may  *)
(* end in between without learning what became of its document.            *)
(*                                                                         *)
(* Each execution of an activation encrypts its output afresh, so a result *)
(* is the name of the thread that puts it; a duplicate dispatch is two     *)
(* threads with one RID.                                                   *)
(***************************************************************************)
CONSTANTS
  Thread,
  Rid,
  None

ASSUME StoreAssumption == None \notin Thread

VARIABLES
  use_mock,   \* _use_mock
  docs,       \* the documents of the CouchDB database
  store,      \* _store
  late,       \* the PUTs on their way to CouchDB that no thread waits for
  call,       \* call[t]: the operation and the RID of thread t
  at,         \* at[t]: the step thread t is about to take
  answer,     \* what the last call returned
  \* What follows is history: the code keeps none of it.
  cut,        \* the RIDs the store lost its hold on: a connection that failed in
              \* a call on them, or a restart that emptied the mock
  winners,    \* winners[r]: the results whose put for r returned True
  served      \* served[r]: the results a get of r returned

history == <<cut, winners, served>>
vars == <<use_mock, docs, store, late, call, at, answer, history>>

Step == {"idle", "memory", "head", "put", "created", "conflict", "fetch"}
Call == [op : {"put", "get"}, rid : Rid]
Answer ==
  [op : {"put"}, rid : Rid, val : Thread, ok : BOOLEAN]
    \cup [op : {"get"}, rid : Rid, val : Thread \cup {None}, ok : {TRUE}]

TypeOK ==
  /\ use_mock \in BOOLEAN
  /\ docs \in [Rid -> Thread \cup {None}]
  /\ store \in [Rid -> Thread \cup {None}]
  /\ late \subseteq [rid : Rid, val : Thread]
  /\ call \in [Thread -> Call \cup {None}]
  /\ at \in [Thread -> Step]
  /\ \A t \in Thread : at[t] # "idle" => call[t] \in Call
  /\ answer \in Answer \cup {None}
  /\ cut \subseteq Rid
  /\ winners \in [Rid -> SUBSET Thread]
  /\ served \in [Rid -> SUBSET Thread]

Init ==
  /\ use_mock \in BOOLEAN
  /\ docs = [r \in Rid |-> None]
  /\ store = [r \in Rid |-> None]
  /\ late = {}
  /\ call = [t \in Thread |-> None]
  /\ at = [t \in Thread |-> "idle"]
  /\ answer = None
  /\ cut = {}
  /\ winners = [r \in Rid |-> {}]
  /\ served = [r \in Rid |-> {}]

-----------------------------------------------------------------------------
(* Calls and returns. *)

Invoke(t, op, r, step) ==
  /\ at[t] = "idle"
  /\ call' = [call EXCEPT ![t] = [op |-> op, rid |-> r]]
  /\ at' = [at EXCEPT ![t] = IF use_mock THEN "memory" ELSE step]
  /\ answer' = None
  /\ UNCHANGED <<use_mock, docs, store, late, history>>

put_if_absent(t, r) == Invoke(t, "put", r, "head")
get(t, r) == Invoke(t, "get", r, "fetch")

Goto(t, step) ==
  /\ at' = [at EXCEPT ![t] = step]
  /\ answer' = None
  /\ UNCHANGED <<use_mock, docs, store, late, call, history>>

Leave(t) == at' = [at EXCEPT ![t] = "idle"] /\ UNCHANGED <<use_mock, late, call, cut>>

\* put_if_absent returns ok.
ReturnPut(t, ok) ==
  LET r == call[t].rid IN
    /\ answer' = [op |-> "put", rid |-> r, val |-> t, ok |-> ok]
    /\ winners' = IF ok THEN [winners EXCEPT ![r] = @ \cup {t}] ELSE winners
    /\ UNCHANGED served
    /\ Leave(t)

\* get returns v.
ReturnGet(t, v) ==
  LET r == call[t].rid IN
    /\ answer' = [op |-> "get", rid |-> r, val |-> v, ok |-> TRUE]
    /\ served' = [served EXCEPT ![r] = @ \cup ({v} \ {None})]
    /\ UNCHANGED winners
    /\ Leave(t)

-----------------------------------------------------------------------------
(* The dictionary, under its lock: the mock, and the fall-back. *)

\* An entry that is there is overwritten.
InsertAlways(r) == TRUE

Insert(r) == store[r] = None

Stored(t) == t

MemoryPut(t) ==
  LET r == call[t].rid IN
    /\ at[t] = "memory" /\ call[t].op = "put"
    /\ \/ /\ Insert(r)
          /\ store' = [store EXCEPT ![r] = Stored(t)]
          /\ ReturnPut(t, TRUE)
       \/ ~Insert(r) /\ ReturnPut(t, FALSE) /\ UNCHANGED store
    /\ UNCHANGED docs

MemoryGet(t) ==
  /\ at[t] = "memory" /\ call[t].op = "get"
  /\ ReturnGet(t, store[call[t].rid])
  /\ UNCHANGED <<docs, store>>

-----------------------------------------------------------------------------
(* CouchDB: HEAD, PUT and GET of the document of a RID. *)

\* A HEAD whose status is read the wrong way round.
FoundInverted(r) == docs[r] = None

Found(r) == docs[r] # None

\* 200 rejects; every other status, an error included, goes on to the PUT.
Head(t) ==
  /\ at[t] = "head"
  /\ \/ Found(call[t].rid) /\ ReturnPut(t, FALSE) /\ UNCHANGED <<docs, store>>
     \/ Goto(t, "put")

\* A PUT that the database applies whatever is there.
CreatedAlways(r) == TRUE

\* A document is created only where there is none.
Created(r) == docs[r] = None

\* The database carries the PUT out, or refuses it for the document that is there.
PutDoc(t) ==
  LET r == call[t].rid IN
    /\ at[t] = "put"
    /\ \/ /\ Created(r)
          /\ docs' = [docs EXCEPT ![r] = t]
          /\ at' = [at EXCEPT ![t] = "created"]
       \/ ~Created(r) /\ UNCHANGED docs /\ at' = [at EXCEPT ![t] = "conflict"]
    /\ answer' = None
    /\ UNCHANGED <<use_mock, store, late, call, history>>

\* What is on its way when thread t stops waiting for it.
OnTheWay(t) == IF at[t] = "put" THEN {[rid |-> call[t].rid, val |-> t]} ELSE {}

\* 201, 409, or another status, which raises an exception whatever became of the PUT:
\* 202, or an error from a node, or of a proxy, that carried it out or still will.
PutAnswered(t) ==
  \/ at[t] = "created" /\ ReturnPut(t, TRUE) /\ UNCHANGED <<docs, store>>
  \/ at[t] = "conflict" /\ ReturnPut(t, FALSE) /\ UNCHANGED <<docs, store>>
  \/ /\ at[t] \in {"put", "created", "conflict"}
     /\ late' = late \cup OnTheWay(t)
     /\ at' = [at EXCEPT ![t] = "idle"]
     /\ answer' = None
     /\ UNCHANGED <<use_mock, docs, store, call, history>>

\* The database carries out a PUT whose sender has given up or is gone.
LatePut(m) ==
  /\ Created(m.rid)
  /\ docs' = [docs EXCEPT ![m.rid] = m.val]
  /\ late' = late \ {m}
  /\ answer' = None
  /\ UNCHANGED <<use_mock, store, call, at, history>>

\* 200 returns the document, every other status nothing.
FetchDoc(t) ==
  /\ at[t] = "fetch"
  /\ \E v \in {docs[call[t].rid], None} : ReturnGet(t, v)
  /\ UNCHANGED <<docs, store>>

\* requests raises ConnectionError: the database may have carried out the request, or
\* may do so yet, and only the answer be lost.  The call goes on in memory.
ConnectionError(t) ==
  LET r == call[t].rid IN
    /\ at[t] \in {"head", "put", "created", "conflict", "fetch"}
    /\ late' = late \cup OnTheWay(t)
    /\ at' = [at EXCEPT ![t] = "memory"]
    /\ cut' = cut \cup {r}
    /\ answer' = None
    /\ UNCHANGED <<use_mock, docs, store, call, winners, served>>

\* The invoker's process ends, its dictionary and its calls with it; a PUT it sent
\* does not.
Restart ==
  /\ store' = [r \in Rid |-> None]
  /\ late' = late \cup UNION {OnTheWay(t) : t \in Thread}
  /\ at' = [t \in Thread |-> "idle"]
  /\ cut' = IF use_mock THEN Rid ELSE cut
  /\ answer' = None
  /\ UNCHANGED <<use_mock, docs, call, winners, served>>

-----------------------------------------------------------------------------
Next ==
  \/ Restart
  \/ \E m \in late : LatePut(m)
  \/ \E t \in Thread :
       \/ \E r \in Rid : put_if_absent(t, r) \/ get(t, r)
       \/ MemoryPut(t)
       \/ MemoryGet(t)
       \/ Head(t)
       \/ PutDoc(t)
       \/ PutAnswered(t)
       \/ FetchDoc(t)
       \/ ConnectionError(t)

Spec == Init /\ [][Next]_vars

-----------------------------------------------------------------------------
(* Properties. *)

OneResultFor(r) == \A x, y \in winners[r] \cup served[r] : x = y

\* First writer wins: of a RID the connection did not fail on, one put at most is
\* told that it stored its result and every get that finds one returns that one,
\* whatever duplicates race between HEAD and PUT, whenever the invoker restarts, and
\* also when a result is stored whose put ended in an exception.
OneResult == \A r \in Rid \ cut : OneResultFor(r)

\* "CouchDB-backed result store with put-if-absent semantics": the same of every
\* RID of the CouchDB store, the ones the fall-back served included.
CouchDBWriteOnce == ~use_mock => \A r \in Rid : OneResultFor(r)

\* A writer that is turned away is turned away by a result that is there to be
\* fetched, even when the connection failed in between.
RejectedForAResult ==
  answer # None /\ ~answer.ok => docs[answer.rid] # None \/ store[answer.rid] # None

\* The RIDs whose document was created by a put that has not had its answer.
Owed == {call[t].rid : t \in {u \in Thread : at[u] = "created"}}

\* The store implements the write-once register, but for the RIDs it was cut off
\* from.
Register == INSTANCE WriteOnceRegister WITH
  Value <- Thread,
  value <- IF use_mock THEN store ELSE docs,
  owed <- Owed,
  broken <- cut
ImplementsRegister == Register!Spec
=============================================================================
