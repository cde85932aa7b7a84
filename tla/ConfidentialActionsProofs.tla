---------------------- MODULE ConfidentialActionsProofs ----------------------
(***************************************************************************)
(* The result store, for every number of threads and RIDs, and that it     *)
(* implements the write-once register; then what clients, controller and   *)
(* invoker promise together, for every number of them: each behaviour is   *)
(* one of the result store, so that the theorems about the store hold of   *)
(* it, and a client fetches results of its own request only.  The store's  *)
(* invariant says which steps lead to the dictionary, and that what was    *)
(* ever accepted or read of a RID the store has a hold on is what it holds *)
(* now.                                                                    *)
(***************************************************************************)
EXTENDS ConfidentialActions, TLAPS

(* The store. *)
Current == IF use_mock THEN store ELSE docs

\* The mock never leaves the dictionary, CouchDB reaches it when cut off.
Paths ==
  \A t \in Thread :
    /\ use_mock => at[t] \in {"idle", "memory"}
    /\ ~use_mock /\ at[t] = "memory" => call[t].rid \in cut

\* What a thread whose PUT was carried out waits to hear is what became of it.
CarriedOut ==
  \A t \in Thread :
    /\ at[t] = "created" => docs[call[t].rid] = t
    /\ at[t] = "conflict" => docs[call[t].rid] # None

HeldResults == \A r \in Rid \ cut : winners[r] \cup served[r] \subseteq {Current[r]} \ {None}

IInv == TypeOK /\ Paths /\ CarriedOut /\ HeldResults /\ RejectedForAResult

\* Nothing is stored and nobody has called.
LEMMA InitIInv == Init => IInv
  BY DEF Init, IInv, TypeOK, Step, Paths, CarriedOut, HeldResults, RejectedForAResult

\* A thread that is not idle works on a call.
LEMMA AtWork ==
  ASSUME IInv, NEW t \in Thread, at[t] # "idle"
  PROVE  call[t] \in Call /\ call[t].rid \in Rid
  BY DEF IInv, TypeOK, Call

\* What a thread that stops waiting leaves on the way is a PUT of its own.
LEMMA OnTheWayTyped ==
  ASSUME IInv, NEW t \in Thread
  PROVE  OnTheWay(t) \subseteq [rid : Rid, val : Thread]
<1>1. CASE at[t] = "put"
  <2>1. call[t].rid \in Rid
    BY <1>1, AtWork
  <2> QED
    BY <2>1 DEF OnTheWay
<1>2. CASE at[t] # "put"
  BY <1>2 DEF OnTheWay
<1> QED
  BY <1>1, <1>2

\* A step of thread t that returns nothing and stores nothing.
LEMMA MoveStep ==
  ASSUME IInv, NEW t \in Thread, NEW step \in {"idle", "memory", "head", "put", "fetch"},
         at' = [at EXCEPT ![t] = step], answer' = None,
         UNCHANGED <<use_mock, docs, store, history>>,
         late' \subseteq [rid : Rid, val : Thread],
         call' \in [Thread -> Call \cup {None}],
         \A u \in Thread \ {t} : call'[u] = call[u],
         step # "idle" => call'[t] \in Call,
         use_mock => step \in {"idle", "memory"},
         ~use_mock => step # "memory"
  PROVE  IInv' /\ Owed' \subseteq Owed
<1>0. at \in [Thread -> Step] /\ at'[t] = step /\ \A u \in Thread \ {t} : at'[u] = at[u]
  BY DEF IInv, TypeOK
<1>1. TypeOK'
  BY <1>0 DEF IInv, TypeOK, Step, history
<1>2. Paths'
  BY <1>0 DEF IInv, Paths, history
<1>3. CarriedOut'
  BY <1>0 DEF IInv, CarriedOut
<1>4. HeldResults' /\ RejectedForAResult'
  BY DEF IInv, HeldResults, Current, RejectedForAResult, history
<1>5. Owed' \subseteq Owed
  BY <1>0 DEF Owed
<1> QED
  BY <1>1, <1>2, <1>3, <1>4, <1>5 DEF IInv

\* A thread that returns owes nothing; what the others are owed stays.
LEMMA OwedOthers ==
  ASSUME IInv, NEW t \in Thread, at' = [at EXCEPT ![t] = "idle"], call' = call
  PROVE  /\ Owed' \subseteq Owed
         /\ at[t] # "created" => Owed' = Owed
         /\ at[t] = "created" => Owed' = Owed \ {call[t].rid}
<1>0. at \in [Thread -> Step] /\ at'[t] = "idle" /\ \A u \in Thread \ {t} : at'[u] = at[u]
  BY DEF IInv, TypeOK
<1>1. Owed' = {call[u].rid : u \in {u \in Thread \ {t} : at[u] = "created"}}
  BY <1>0 DEF Owed
<1>2. at[t] # "created" => Owed' = Owed
  BY <1>1 DEF Owed
<1>3. at[t] = "created" => \A u \in Thread \ {t} : at[u] = "created" => call[u].rid # call[t].rid
  BY DEF IInv, CarriedOut
<1>4. at[t] = "created" => Owed' = Owed \ {call[t].rid}
  BY <1>1, <1>3 DEF Owed
<1> QED
  BY <1>2, <1>4

\* put_if_absent returns: TRUE when its result is now the one the store holds, or the
\* store was cut off from the RID; FALSE when there is a result.
LEMMA PutReturns ==
  ASSUME IInv, NEW t \in Thread, at[t] # "idle", NEW ok \in BOOLEAN,
         ReturnPut(t, ok), docs' = docs, store' \in [Rid -> Thread \cup {None}],
         \A r \in Rid : Current[r] # None => Current'[r] = Current[r],
         ok => Current'[call[t].rid] = t \/ call[t].rid \in cut,
         ~ok => docs[call[t].rid] # None \/ store'[call[t].rid] # None
  PROVE  IInv'
<1> DEFINE r == call[t].rid
<1>1. r \in Rid
  BY AtWork
<1>2. UNCHANGED <<use_mock, late, call, cut, served>> /\ at' = [at EXCEPT ![t] = "idle"]
  BY DEF ReturnPut, Leave
<1>3. answer' = [op |-> "put", rid |-> r, val |-> t, ok |-> ok]
  BY DEF ReturnPut
<1>4. winners' = IF ok THEN [winners EXCEPT ![r] = @ \cup {t}] ELSE winners
  BY DEF ReturnPut
<1>5. winners \in [Rid -> SUBSET Thread] /\ None \notin Thread
  BY StoreAssumption DEF StoreAssumption, IInv, TypeOK
<1> HIDE DEF r
<1>6. TypeOK'
  <2>1. answer' \in Answer
    BY <1>1, <1>3 DEF Answer
  <2>2. winners' \in [Rid -> SUBSET Thread]
    BY <1>1, <1>4, <1>5
  <2> QED
    BY <1>2, <2>1, <2>2 DEF IInv, TypeOK, Step
<1>7. Paths' /\ CarriedOut'
  BY <1>2 DEF IInv, TypeOK, Paths, CarriedOut
<1>8. HeldResults'
  <2> SUFFICES ASSUME NEW q \in Rid \ cut, NEW x \in winners'[q] \cup served[q]
               PROVE  x = Current'[q] /\ x # None
    BY <1>2 DEF HeldResults
  <2>1. CASE x \in winners[q] \cup served[q]
    BY <2>1 DEF IInv, HeldResults
  <2>2. CASE x \notin winners[q] \cup served[q]
    <3>1. ok /\ q = r /\ x = t
      BY <2>2, <1>1, <1>4, <1>5
    <3> QED
      BY <3>1, <1>5 DEF r
  <2> QED
    BY <2>1, <2>2
<1>9. RejectedForAResult'
  BY <1>3 DEF RejectedForAResult, r
<1> QED
  BY <1>6, <1>7, <1>8, <1>9 DEF IInv

\* get returns nothing, or what the store holds.
LEMMA GetReturns ==
  ASSUME IInv, NEW t \in Thread, at[t] # "idle", NEW v \in Thread \cup {None},
         ReturnGet(t, v), UNCHANGED <<docs, store>>,
         v \in {None, Current[call[t].rid]} \/ call[t].rid \in cut
  PROVE  IInv'
<1> DEFINE r == call[t].rid
<1>1. r \in Rid
  BY AtWork
<1>2. UNCHANGED <<use_mock, late, call, cut, winners>> /\ at' = [at EXCEPT ![t] = "idle"]
  BY DEF ReturnGet, Leave
<1>3. answer' = [op |-> "get", rid |-> r, val |-> v, ok |-> TRUE]
  BY DEF ReturnGet
<1>4. served' = [served EXCEPT ![r] = @ \cup ({v} \ {None})]
  BY DEF ReturnGet
<1>5. served \in [Rid -> SUBSET Thread] /\ None \notin Thread
  BY StoreAssumption DEF StoreAssumption, IInv, TypeOK
<1> HIDE DEF r
<1>6. TypeOK'
  <2>1. answer' \in Answer
    BY <1>1, <1>3 DEF Answer
  <2>2. served' \in [Rid -> SUBSET Thread]
    BY <1>1, <1>4, <1>5
  <2> QED
    BY <1>2, <2>1, <2>2 DEF IInv, TypeOK, Step
<1>7. Paths' /\ CarriedOut'
  BY <1>2 DEF IInv, TypeOK, Paths, CarriedOut
<1>8. HeldResults'
  <2> SUFFICES ASSUME NEW q \in Rid \ cut, NEW x \in winners[q] \cup served'[q]
               PROVE  x = Current[q] /\ x # None
    BY <1>2 DEF HeldResults, Current
  <2>1. CASE x \in winners[q] \cup served[q]
    BY <2>1 DEF IInv, HeldResults
  <2>2. CASE x \notin winners[q] \cup served[q]
    <3>1. q = r /\ x = v /\ v # None
      BY <2>2, <1>1, <1>4, <1>5
    <3> QED
      BY <3>1 DEF r
  <2> QED
    BY <2>1, <2>2
<1>9. RejectedForAResult'
  BY <1>3 DEF RejectedForAResult
<1> QED
  BY <1>6, <1>7, <1>8, <1>9 DEF IInv

-----------------------------------------------------------------------------
\* Every step keeps the invariant and is a step, or a stutter, of the register.
Good == IInv' /\ [Register!Next]_(Register!vars)

\* Steps that neither return nor store are internal to the register.
LEMMA SilentStep ==
  ASSUME IInv', answer' = None, UNCHANGED <<use_mock, docs, store, cut>>,
         Owed' \subseteq Owed
  PROVE  Good
  BY DEF Good, Register!Next, Register!Internal

\* A call is made.
LEMMA InvokeStep ==
  ASSUME IInv, NEW t \in Thread, NEW r \in Rid, put_if_absent(t, r) \/ get(t, r)
  PROVE  Good
<1>1. PICK op \in {"put", "get"}, step \in {"head", "fetch"} : Invoke(t, op, r, step)
  BY DEF put_if_absent, get
<1> DEFINE next == IF use_mock THEN "memory" ELSE step
<1>2. /\ call' = [call EXCEPT ![t] = [op |-> op, rid |-> r]]
      /\ answer' = None
      /\ UNCHANGED <<use_mock, docs, store, late, history>>
      /\ at' = [at EXCEPT ![t] = next]
  BY <1>1 DEF Invoke
<1>3. [op |-> op, rid |-> r] \in Call
  BY DEF Call
<1>4. /\ call' \in [Thread -> Call \cup {None}]
      /\ \A u \in Thread \ {t} : call'[u] = call[u]
      /\ call'[t] \in Call
  BY <1>2, <1>3 DEF IInv, TypeOK
<1>5. late' \subseteq [rid : Rid, val : Thread]
  BY <1>2 DEF IInv, TypeOK
<1>6. IInv' /\ Owed' \subseteq Owed
  BY <1>2, <1>4, <1>5, MoveStep
<1> QED
  BY <1>2, <1>6, SilentStep DEF history

\* A step of a call that neither returns nor stores.
LEMMA GotoStep ==
  ASSUME IInv, NEW t \in Thread, NEW step \in {"idle", "put"},
         at' = [at EXCEPT ![t] = step], answer' = None,
         UNCHANGED <<use_mock, docs, store, call, history>>,
         late' \subseteq [rid : Rid, val : Thread],
         at[t] # "idle", ~use_mock \/ step = "idle"
  PROVE  Good
<1>1. /\ call' \in [Thread -> Call \cup {None}]
      /\ \A u \in Thread \ {t} : call'[u] = call[u]
      /\ call'[t] \in Call
  BY AtWork DEF IInv, TypeOK
<1>2. IInv' /\ Owed' \subseteq Owed
  BY <1>1, MoveStep
<1> QED
  BY <1>2, SilentStep DEF history

\* What a return from put_if_absent or get is to the register.
LEMMA PutIsRegister ==
  ASSUME IInv, IInv', NEW t \in Thread, at[t] # "idle", NEW ok \in BOOLEAN,
         ReturnPut(t, ok),
         \/ call[t].rid \in cut /\ \A r \in Rid \ cut : Current'[r] = Current[r]
         \/ /\ ok /\ at[t] # "created" /\ Owed = {}
            /\ Current[call[t].rid] = None
            /\ Current' = [Current EXCEPT ![call[t].rid] = t]
         \/ /\ ok /\ at[t] = "created"
            /\ Current[call[t].rid] = t
            /\ Current' = Current
         \/ /\ ~ok /\ at[t] # "created"
            /\ Current[call[t].rid] # None
            /\ Current' = Current
  PROVE  Good
<1> DEFINE r == call[t].rid
<1>1. r \in Rid
  BY AtWork
<1>2. /\ UNCHANGED <<use_mock, cut>>
      /\ answer' = [op |-> "put", rid |-> r, val |-> t, ok |-> ok]
  BY DEF ReturnPut, Leave
<1>o. /\ Owed' \subseteq Owed
      /\ at[t] # "created" => Owed' = Owed
      /\ at[t] = "created" => Owed' = Owed \ {r} /\ r \in Owed
  <2>1. at' = [at EXCEPT ![t] = "idle"] /\ call' = call
    BY DEF ReturnPut, Leave
  <2>2. at[t] = "created" => r \in Owed
    BY DEF Owed
  <2> QED
    BY <2>1, <2>2, OwedOthers
<1> HIDE DEF r
<1>3. /\ Current' \in [Rid -> Thread \cup {None}]
      /\ Current \in [Rid -> Thread \cup {None}]
      /\ cut \subseteq Rid
  BY DEF IInv, TypeOK, Current
<1>4. CASE r \in cut /\ \A q \in Rid \ cut : Current'[q] = Current[q]
  <2>1. answer' \in Register!Answer /\ answer'.rid \in cut'
    BY <1>1, <1>2, <1>4 DEF Register!Answer
  <2>2. Register!Break
    BY <1>2, <1>3, <1>4, <1>o, <2>1 DEF Register!Break, Current
  <2> QED
    BY <2>2 DEF Good, Register!Next
<1>5. CASE /\ ok /\ at[t] # "created" /\ Owed = {}
           /\ Current[r] = None
           /\ Current' = [Current EXCEPT ![r] = t]
  <2>1. Owed' = Owed \ {r}
    BY <1>5, <1>o
  <2>2. Register!Accept(r, t)
    BY <1>2, <1>5, <2>1 DEF Register!Accept, Current
  <2> QED
    BY <1>1, <2>2 DEF Good, Register!Next
<1>6. CASE ok /\ at[t] = "created" /\ Current[r] = t /\ Current' = Current
  <2>1. Current' = [Current EXCEPT ![r] = t]
    BY <1>3, <1>6
  <2>2. Register!Accept(r, t)
    BY <1>2, <1>6, <1>o, <2>1 DEF Register!Accept, Current
  <2> QED
    BY <1>1, <2>2 DEF Good, Register!Next
<1>7. CASE ~ok /\ at[t] # "created" /\ Current[r] # None /\ Current' = Current
  <2>1. Register!Reject(r, t)
    BY <1>2, <1>7, <1>o DEF Register!Reject, Current
  <2> QED
    BY <1>1, <2>1 DEF Good, Register!Next
<1> QED
  BY <1>4, <1>5, <1>6, <1>7 DEF r

LEMMA GetIsRegister ==
  ASSUME IInv, IInv', NEW t \in Thread, at[t] \notin {"idle", "created"},
         NEW v \in Thread \cup {None},
         ReturnGet(t, v), UNCHANGED <<docs, store>>,
         v \in {None, Current[call[t].rid]} \/ call[t].rid \in cut
  PROVE  Good
<1> DEFINE r == call[t].rid
<1>1. r \in Rid
  BY AtWork
<1>2. /\ UNCHANGED <<use_mock, cut>>
      /\ answer' = [op |-> "get", rid |-> r, val |-> v, ok |-> TRUE]
  BY DEF ReturnGet, Leave
<1>o. Owed' = Owed
  <2>1. at' = [at EXCEPT ![t] = "idle"] /\ call' = call
    BY DEF ReturnGet, Leave
  <2> QED
    BY <2>1, OwedOthers
<1> HIDE DEF r
<1>3. CASE r \in cut
  <2>1. answer' \in Register!Answer /\ answer'.rid \in cut'
    BY <1>1, <1>2, <1>3 DEF Register!Answer
  <2>2. Register!Break
    BY <1>2, <1>o, <2>1 DEF Register!Break, IInv, TypeOK
  <2> QED
    BY <2>2 DEF Good, Register!Next
<1>4. CASE v \in {None, Current[r]}
  <2>1. Register!Read(r)
    BY <1>2, <1>4, <1>o DEF Register!Read, Current
  <2> QED
    BY <1>1, <2>1 DEF Good, Register!Next
<1> QED
  BY <1>3, <1>4 DEF r

-----------------------------------------------------------------------------
(* The actions. *)

LEMMA MemoryPutStep == ASSUME IInv, NEW t \in Thread, MemoryPut(t) PROVE Good
<1> DEFINE r == call[t].rid
<1>1. at[t] = "memory" /\ at[t] # "idle" /\ r \in Rid /\ docs' = docs
  BY AtWork DEF MemoryPut
<1>2. /\ ~use_mock => r \in cut
      /\ use_mock => Owed = {}
  BY <1>1 DEF IInv, Paths, Owed
<1>3. docs \in [Rid -> Thread \cup {None}] /\ store \in [Rid -> Thread \cup {None}]
  BY DEF IInv, TypeOK
<1>4. CASE Insert(r) /\ store' = [store EXCEPT ![r] = Stored(t)] /\ ReturnPut(t, TRUE)
  <2>1. store' = [store EXCEPT ![r] = t] /\ store[r] = None
    BY <1>4 DEF Insert, Stored
  <2>2. use_mock' = use_mock
    BY <1>4 DEF ReturnPut, Leave
  <2>3. /\ store' \in [Rid -> Thread \cup {None}]
        /\ \A q \in Rid : Current[q] # None => Current'[q] = Current[q]
        /\ Current'[r] = t \/ r \in cut
    BY <1>1, <1>2, <1>3, <2>1, <2>2 DEF Current
  <2>4. IInv'
    BY <1>1, <1>3, <1>4, <2>3, PutReturns
  <2>5. \/ r \in cut /\ \A q \in Rid \ cut : Current'[q] = Current[q]
        \/ /\ at[t] # "created" /\ Owed = {}
           /\ Current[r] = None
           /\ Current' = [Current EXCEPT ![r] = t]
    BY <1>1, <1>2, <2>1, <2>2 DEF Current
  <2> QED
    BY <1>1, <1>4, <2>4, <2>5, PutIsRegister
<1>5. CASE ~Insert(r) /\ ReturnPut(t, FALSE) /\ UNCHANGED store
  <2>1. store[r] # None
    BY <1>5 DEF Insert
  <2>2. use_mock' = use_mock
    BY <1>5 DEF ReturnPut, Leave
  <2>3. IInv'
    BY <1>1, <1>3, <1>5, <2>1, <2>2, PutReturns DEF Current
  <2>4. \/ r \in cut /\ \A q \in Rid \ cut : Current'[q] = Current[q]
        \/ at[t] # "created" /\ Current[r] # None /\ Current' = Current
    BY <1>1, <1>2, <1>5, <2>1, <2>2 DEF Current
  <2> QED
    BY <1>1, <1>5, <2>3, <2>4, PutIsRegister
<1> QED
  BY <1>4, <1>5 DEF MemoryPut

LEMMA MemoryGetStep == ASSUME IInv, NEW t \in Thread, MemoryGet(t) PROVE Good
<1> DEFINE r == call[t].rid
           v == store[r]
<1>1. at[t] = "memory" /\ at[t] \notin {"idle", "created"} /\ r \in Rid
  BY AtWork DEF MemoryGet
<1>2. v \in Thread \cup {None}
  BY <1>1 DEF IInv, TypeOK
<1>3. v \in {None, Current[r]} \/ r \in cut
  BY <1>1 DEF IInv, Paths, Current
<1>4. ReturnGet(t, v) /\ UNCHANGED <<docs, store>>
  BY DEF MemoryGet
<1> QED
  BY <1>1, <1>2, <1>3, <1>4, GetReturns, GetIsRegister

\* A put that finds a document is turned away by it.
LEMMA PutTurnedAway ==
  ASSUME IInv, NEW t \in Thread, at[t] \in {"head", "conflict"}, ~use_mock,
         docs[call[t].rid] # None, ReturnPut(t, FALSE), UNCHANGED <<docs, store>>
  PROVE  Good
<1>1. use_mock' = use_mock /\ at[t] \notin {"idle", "created"}
  BY DEF ReturnPut, Leave
<1>2. IInv'
  BY <1>1, PutReturns DEF Current, IInv, TypeOK
<1> QED
  BY <1>1, <1>2, PutIsRegister DEF Current

LEMMA HeadStep == ASSUME IInv, NEW t \in Thread, Head(t) PROVE Good
<1> DEFINE r == call[t].rid
<1>1. at[t] = "head" /\ at[t] # "idle" /\ r \in Rid /\ ~use_mock
  BY AtWork DEF Head, IInv, Paths
<1>2. CASE Found(r) /\ ReturnPut(t, FALSE) /\ UNCHANGED <<docs, store>>
  BY <1>1, <1>2, PutTurnedAway DEF Found
<1>3. CASE Goto(t, "put")
  BY <1>1, <1>3, GotoStep DEF Goto, IInv, TypeOK
<1> QED
  BY <1>2, <1>3 DEF Head

\* A document is created, for t or for a put that has ended: for the register a value
\* is stored, or anything happens to a RID that is given up.
LEMMA CreatedIsRegister ==
  ASSUME IInv, IInv', ~use_mock, NEW r \in Rid, NEW t \in Thread, docs[r] = None,
         docs' = [docs EXCEPT ![r] = t], answer' = None,
         UNCHANGED <<use_mock, store, cut>>, Owed' \in {Owed, Owed \cup {r}}
  PROVE  Good
<1>1. Register!Store(r, t)
  BY DEF Register!Store, Current
<1> QED
  BY <1>1 DEF Good, Register!Next

\* Where there was no document nothing was won, served or carried out.
LEMMA CreatedIsHeld ==
  ASSUME IInv, ~use_mock, NEW r \in Rid, NEW t \in Thread, docs[r] = None,
         docs' = [docs EXCEPT ![r] = t], answer' = None,
         UNCHANGED <<use_mock, store, history>>
  PROVE  HeldResults' /\ RejectedForAResult'
<1>1. \A q \in Rid : docs[q] # None => docs'[q] = docs[q]
  BY DEF IInv, TypeOK
<1> QED
  BY <1>1 DEF IInv, HeldResults, Current, RejectedForAResult, history

LEMMA PutDocStep == ASSUME IInv, NEW t \in Thread, PutDoc(t) PROVE Good
<1> DEFINE r == call[t].rid
<1>1. at[t] = "put" /\ at[t] # "idle" /\ r \in Rid /\ ~use_mock /\ call[t] \in Call
  BY AtWork DEF PutDoc, IInv, Paths
<1>2. /\ docs \in [Rid -> Thread \cup {None}]
      /\ at \in [Thread -> Step]
      /\ None \notin Thread
  BY StoreAssumption DEF StoreAssumption, IInv, TypeOK
<1>3. answer' = None /\ UNCHANGED <<use_mock, store, late, call, history>>
  BY DEF PutDoc
<1>4. CASE /\ Created(r)
           /\ docs' = [docs EXCEPT ![r] = t]
           /\ at' = [at EXCEPT ![t] = "created"]
  <2>1. docs[r] = None
    BY <1>4 DEF Created
  <2>2. TypeOK'
    BY <1>1, <1>2, <1>3, <1>4 DEF IInv, TypeOK, Step, history
  <2>3. Paths'
    BY <1>1, <1>2, <1>3, <1>4 DEF IInv, Paths, history
  <2>4. CarriedOut'
    BY <1>1, <1>2, <1>3, <1>4, <2>1 DEF IInv, CarriedOut
  <2>5. IInv'
    BY <1>1, <1>3, <1>4, <2>1, <2>2, <2>3, <2>4, CreatedIsHeld DEF IInv
  <2>6. Owed' = Owed \cup {r}
    BY <1>1, <1>2, <1>3, <1>4 DEF Owed
  <2> QED
    BY <1>1, <1>3, <1>4, <2>1, <2>5, <2>6, CreatedIsRegister DEF history
<1>5. CASE ~Created(r) /\ UNCHANGED docs /\ at' = [at EXCEPT ![t] = "conflict"]
  <2>1. docs[r] # None
    BY <1>5 DEF Created
  <2>2. TypeOK'
    BY <1>1, <1>2, <1>3, <1>5 DEF IInv, TypeOK, Step, history
  <2>3. Paths' /\ CarriedOut'
    BY <1>1, <1>2, <1>3, <1>5, <2>1 DEF IInv, Paths, CarriedOut, history
  <2>4. HeldResults' /\ RejectedForAResult'
    BY <1>3, <1>5 DEF IInv, HeldResults, Current, RejectedForAResult, history
  <2>5. Owed' \subseteq Owed
    BY <1>1, <1>2, <1>3, <1>5 DEF Owed
  <2> QED
    BY <1>3, <1>5, <2>2, <2>3, <2>4, <2>5, SilentStep DEF IInv, history
<1> QED
  BY <1>4, <1>5 DEF PutDoc

\* The answer to a PUT: what it says is what became of the document; without one the
\* call ends, and the document may be there or come.
LEMMA PutAnsweredStep == ASSUME IInv, NEW t \in Thread, PutAnswered(t) PROVE Good
<1> DEFINE r == call[t].rid
<1>1. /\ at[t] \in {"put", "created", "conflict"} /\ at[t] # "idle"
      /\ r \in Rid /\ ~use_mock
  BY AtWork DEF PutAnswered, IInv, Paths
<1>2. CASE at[t] = "created" /\ ReturnPut(t, TRUE) /\ UNCHANGED <<docs, store>>
  <2>1. docs[r] = t
    BY <1>2 DEF IInv, CarriedOut
  <2>2. use_mock' = use_mock
    BY <1>2 DEF ReturnPut, Leave
  <2>3. IInv'
    BY <1>1, <1>2, <2>1, <2>2, PutReturns DEF Current, IInv, TypeOK
  <2> QED
    BY <1>1, <1>2, <2>1, <2>2, <2>3, PutIsRegister DEF Current
<1>3. CASE at[t] = "conflict" /\ ReturnPut(t, FALSE) /\ UNCHANGED <<docs, store>>
  <2>1. docs[r] # None
    BY <1>3 DEF IInv, CarriedOut
  <2> QED
    BY <1>1, <1>3, <2>1, PutTurnedAway
<1>4. CASE /\ late' = late \cup OnTheWay(t)
           /\ at' = [at EXCEPT ![t] = "idle"]
           /\ answer' = None
           /\ UNCHANGED <<use_mock, docs, store, call, history>>
  <2>1. late' \subseteq [rid : Rid, val : Thread]
    BY <1>4, OnTheWayTyped DEF IInv, TypeOK
  <2> QED
    BY <1>1, <1>4, <2>1, GotoStep
<1> QED
  BY <1>2, <1>3, <1>4 DEF PutAnswered

\* A document of a put that has ended: nobody is told.
LEMMA LatePutStep == ASSUME IInv, NEW m \in late, LatePut(m) PROVE Good
<1> DEFINE r == m.rid  t == m.val
<1>1. r \in Rid /\ t \in Thread
  BY DEF IInv, TypeOK
<1>2. /\ docs[r] = None
      /\ docs' = [docs EXCEPT ![r] = t]
      /\ late' \subseteq late
      /\ answer' = None
      /\ UNCHANGED <<use_mock, store, call, at, history>>
  BY DEF LatePut, Created
<1> HIDE DEF r, t
<1>3. TypeOK' /\ Paths'
  BY <1>1, <1>2 DEF IInv, TypeOK, Paths, history
<1>4. /\ \A q \in Rid : docs[q] # None => docs'[q] = docs[q]
      /\ docs \in [Rid -> Thread \cup {None}]
      /\ None \notin Thread
  BY <1>1, <1>2, StoreAssumption DEF StoreAssumption, IInv, TypeOK
<1>5. CarriedOut'
  <2> SUFFICES ASSUME NEW u \in Thread
               PROVE  /\ at[u] = "created" => docs'[call[u].rid] = u
                      /\ at[u] = "conflict" => docs'[call[u].rid] # None
    BY <1>2 DEF CarriedOut
  <2>1. at[u] \in {"created", "conflict"} => call[u].rid \in Rid
    BY AtWork
  <2> QED
    BY <1>4, <2>1 DEF IInv, CarriedOut
<1>6. Owed' = Owed
  BY <1>2 DEF Owed
<1>7. CASE ~use_mock
  BY <1>1, <1>2, <1>3, <1>5, <1>6, <1>7, CreatedIsHeld, CreatedIsRegister DEF IInv, history
<1>8. CASE use_mock
  <2>1. HeldResults' /\ RejectedForAResult'
    BY <1>2, <1>8 DEF IInv, HeldResults, Current, RejectedForAResult, history
  <2>2. Register!Internal
    BY <1>2, <1>6, <1>8 DEF Register!Internal, history
  <2> QED
    BY <1>3, <1>5, <2>1, <2>2 DEF Good, IInv, Register!Next
<1> QED
  BY <1>7, <1>8

LEMMA FetchDocStep == ASSUME IInv, NEW t \in Thread, FetchDoc(t) PROVE Good
<1> DEFINE r == call[t].rid
<1>1. /\ at[t] = "fetch" /\ at[t] \notin {"idle", "created"}
      /\ r \in Rid /\ ~use_mock
  BY AtWork DEF FetchDoc, IInv, Paths
<1>2. PICK v \in {docs[r], None} : ReturnGet(t, v)
  BY DEF FetchDoc
<1>3. v \in Thread \cup {None} /\ v \in {None, Current[r]}
  BY <1>1, <1>2 DEF Current, IInv, TypeOK
<1>4. UNCHANGED <<docs, store>>
  BY DEF FetchDoc
<1> QED
  BY <1>1, <1>2, <1>3, <1>4, GetReturns, GetIsRegister

\* The RID of the call is given up, the documents stay.
LEMMA ConnectionErrorStep == ASSUME IInv, NEW t \in Thread, ConnectionError(t) PROVE Good
<1> DEFINE r == call[t].rid
<1>1. at[t] # "idle" /\ r \in Rid /\ ~use_mock
  BY AtWork DEF ConnectionError, IInv, Paths
<1>2. late' \subseteq [rid : Rid, val : Thread]
  BY OnTheWayTyped DEF ConnectionError, IInv, TypeOK
<1>3. /\ at' = [at EXCEPT ![t] = "memory"]
      /\ cut' = cut \cup {r}
      /\ answer' = None
      /\ UNCHANGED <<use_mock, docs, store, call, winners, served>>
  BY DEF ConnectionError
<1>0. at \in [Thread -> Step] /\ at'[t] = "memory" /\ \A u \in Thread \ {t} : at'[u] = at[u]
  BY <1>3 DEF IInv, TypeOK
<1>4. TypeOK'
  BY <1>0, <1>1, <1>2, <1>3, AtWork DEF IInv, TypeOK, Step
<1>5. Paths' /\ CarriedOut'
  BY <1>0, <1>1, <1>3 DEF IInv, Paths, CarriedOut
<1>6. HeldResults' /\ RejectedForAResult'
  BY <1>1, <1>3 DEF IInv, HeldResults, Current, RejectedForAResult
<1>7. Owed' \subseteq Owed
  BY <1>0, <1>3 DEF Owed
<1>8. Register!Break
  BY <1>1, <1>3, <1>4, <1>7 DEF Register!Break, TypeOK
<1> QED
  BY <1>4, <1>5, <1>6, <1>8 DEF Good, IInv, Register!Next

\* The mock is given up altogether, the documents stay.
LEMMA RestartStep == ASSUME IInv, Restart PROVE Good
<1>1. /\ store' = [r \in Rid |-> None]
      /\ at' = [t \in Thread |-> "idle"]
      /\ cut' = IF use_mock THEN Rid ELSE cut
      /\ answer' = None
      /\ UNCHANGED <<use_mock, docs, call, winners, served>>
  BY DEF Restart
<1>l. late' \subseteq [rid : Rid, val : Thread]
  BY OnTheWayTyped DEF Restart, IInv, TypeOK
<1>2. TypeOK'
  BY <1>1, <1>l DEF IInv, TypeOK, Step
<1>3. Paths' /\ CarriedOut' /\ HeldResults' /\ RejectedForAResult'
  BY <1>1 DEF IInv, Paths, CarriedOut, HeldResults, Current, RejectedForAResult
<1>o. Owed' = {}
  BY <1>1 DEF Owed
<1>4. Register!Break
  BY <1>1, <1>2, <1>o DEF Register!Break, IInv, TypeOK
<1> QED
  BY <1>2, <1>3, <1>4 DEF Good, IInv, Register!Next

LEMMA NextStep == IInv /\ [Next]_vars => Good
<1> SUFFICES ASSUME IInv, [Next]_vars PROVE Good
  OBVIOUS
<1>1. CASE Next
  BY <1>1, RestartStep, LatePutStep, InvokeStep, MemoryPutStep, MemoryGetStep, HeadStep,
     PutDocStep, PutAnsweredStep, FetchDocStep, ConnectionErrorStep
  DEF Next
<1>2. CASE UNCHANGED vars
  <2>1. IInv'
    BY <1>2
    DEF vars, history, IInv, TypeOK, Paths, CarriedOut, HeldResults, Current,
        RejectedForAResult
  <2>2. Owed' = Owed
    BY <1>2 DEF vars, Owed
  <2> QED
    BY <1>2, <2>1, <2>2 DEF vars, history, Good, Register!vars
<1> QED
  BY <1>1, <1>2

-----------------------------------------------------------------------------
\* Every reachable state of the store satisfies the invariant.
THEOREM StoreInvariance == Spec => []IInv
<1>1. IInv /\ [Next]_vars => IInv'
  BY NextStep DEF Good
<1> QED
  BY InitIInv, <1>1, PTL DEF Spec

\* The variables keep their types.
THEOREM StoreTypeCorrect == Spec => []TypeOK
<1>1. IInv => TypeOK
  BY DEF IInv
<1> QED
  BY StoreInvariance, <1>1, PTL

\* First writer wins for every RID the store was not cut off from, whoever raced.
THEOREM FirstWriterWins == Spec => []OneResult
<1>1. IInv => OneResult
  BY DEF IInv, HeldResults, OneResult, OneResultFor
<1> QED
  BY StoreInvariance, <1>1, PTL

\* A writer that is turned away leaves behind a result to be fetched.
THEOREM RejectionsAreFounded == Spec => []RejectedForAResult
<1>1. IInv => RejectedForAResult
  BY DEF IInv
<1> QED
  BY StoreInvariance, <1>1, PTL

\* HEAD, PUT and fall-back together are a write-once register that loses its hold on
\* the RIDs it was cut off from and on no other.
THEOREM StoreImplementsRegister == Spec => ImplementsRegister
<1>1. Init => Register!Init
  BY DEF Init, Register!Init, Owed
<1>2. IInv /\ [Next]_vars => [Register!Next]_(Register!vars)
  BY NextStep DEF Good
<1> QED
  BY StoreInvariance, <1>1, <1>2, PTL DEF Spec, ImplementsRegister, Register!Spec

-----------------------------------------------------------------------------
(* The actions over it. *)

\* The executions whose result belongs under r.
Results(r) == {t \in Execution : phase[t] = "stored" /\ OwnRid(job[t]) = r}

\* Executions put the result of their activation, clients get.
Roles ==
  /\ \A t \in Execution : at[t] # "idle" =>
       at[t] # "fetch" /\ call[t] = [op |-> "put", rid |-> OwnRid(job[t])]
  /\ \A c \in Client : at[c] # "idle" =>
       at[c] \in {"memory", "fetch"} /\ call[c].op = "get"

\* An execution that shared the adapter with no other and found nothing left there ran
\* alone, on its own request.
Alone ==
  \A t \in Execution \ crossed :
    /\ phase[t] = "running" => Running = {t} /\ left = {}
    /\ phase[t] \in {"ran", "stored"} => sealed[t] = job[t]

\* What is stored or on its way there, and what was fetched, belongs under its RID.
Holdings ==
  \A r \in Rid :
    /\ {docs[r], store[r]} \subseteq Results(r) \cup {None}
    /\ served[r] \subseteq Results(r)
    /\ \A m \in late : m.rid = r => m.val \in Results(r)

ActionsInv == IInv /\ ActionsTypeOK /\ Roles /\ Alone /\ Holdings

-----------------------------------------------------------------------------
\* RIDs of the clients are RIDs, and differ.
LEMMA OwnRids ==
  /\ \A c \in Client : OwnRid(c) \in Rid
  /\ \A c, d \in Client : OwnRid(c) = OwnRid(d) => c = d
  BY ActionsAssumption DEF ActionsAssumption, OwnRid

LEMMA InitActionsInv == InitActions => ActionsInv
  BY InitIInv, ActionsAssumption
  DEF InitActions, ActionsInv, Init, ActionsTypeOK, Roles, Alone, Holdings, ActionsAssumption

\* A step of the invocation is a step of the store or leaves it alone.
LEMMA StoreMoves ==
  ASSUME ActionsInv, [NextActions]_allvars
  PROVE  [Next]_vars
<1>1. ASSUME NEW t \in Execution, store_result(t) PROVE Next
  <2>1. job[t] \in Client
    BY <1>1 DEF store_result, ActionsInv, ActionsTypeOK
  <2>2. t \in Thread /\ OwnRid(job[t]) \in Rid
    BY <2>1, OwnRids, ActionsAssumption DEF ActionsAssumption
  <2> QED
    BY <1>1, <2>2 DEF store_result, Next, compute_rid, OwnRid
<1>2. ASSUME NEW c \in Client, fetch_result(c) PROVE Next
  <2>1. c \in Thread /\ OwnRid(c) \in Rid
    BY OwnRids, ActionsAssumption DEF ActionsAssumption
  <2> QED
    BY <1>2, <2>1 DEF fetch_result, Next
<1>3. ASSUME NEW t \in Thread, StoreStep(t) PROVE Next
  BY <1>3 DEF StoreStep, Next
<1>4. CASE RestartInvoker
  BY <1>4 DEF RestartInvoker, Next
<1> QED
  BY <1>1, <1>2, <1>3, <1>4
  DEF NextActions, invoke_confidential_action, receive_activation, Execute, ExecuteFails,
      AdapterDone, StoreLate, Next, allvars

-----------------------------------------------------------------------------
(* The actions keep the invariant. *)

\* The steps of the client, the controller and the executions that leave the store alone.
LEMMA ReceiveStep ==
  ASSUME ActionsInv, NEW t \in Execution, receive_activation(t)
  PROVE  ActionsTypeOK' /\ Roles' /\ Alone' /\ Holdings'
<1> USE DEF ActionsInv, receive_activation
<1>1. phase[t] = "free" /\ phase' = [phase EXCEPT ![t] = "running"]
  OBVIOUS
<1>2. PICK c \in Client : job' = [job EXCEPT ![t] = c]
  BY DEF ActionsTypeOK
<1>3. UNCHANGED <<at, call, docs, store, late, served, sealed, left>>
  BY DEF vars, history
<1>4. Running' = Running \cup {t}
  BY <1>1 DEF Running, ActionsTypeOK
<1>5. crossed' = IF Running = {} /\ left = {}
                  THEN crossed ELSE crossed \cup Running \cup {t}
  OBVIOUS
<1>6. ActionsTypeOK'
  <2>1. Running \subseteq Execution /\ None \notin Client
    BY ActionsAssumption, StoreAssumption DEF Running, ActionsAssumption, StoreAssumption
  <2> QED
    BY <1>1, <1>2, <1>3, <1>5, <2>1 DEF ActionsTypeOK
<1>7. \A u \in Execution : at[u] # "idle" => u # t
  BY <1>1 DEF ActionsTypeOK
<1>8. Roles'
  BY <1>2, <1>3, <1>7 DEF Roles, ActionsTypeOK
<1>9. Alone'
  <2> SUFFICES ASSUME NEW u \in Execution \ crossed'
               PROVE  /\ phase'[u] = "running" => Running' = {u} /\ left' = {}
                      /\ phase'[u] \in {"ran", "stored"} => sealed'[u] = job'[u]
    BY DEF Alone
  <2>1. u \in Execution \ crossed
    BY <1>5
  <2>2. CASE u = t
    BY <1>1, <1>3, <1>4, <1>5, <2>2 DEF ActionsTypeOK
  <2>3. CASE u # t
    <3>1. phase'[u] = phase[u] /\ job'[u] = job[u]
      BY <1>1, <1>2, <2>3 DEF ActionsTypeOK
    <3>2. phase[u] # "running"
      BY <1>5, <2>1, <2>3 DEF Running, Alone
    <3> QED
      BY <1>3, <2>1, <3>1, <3>2 DEF Alone
  <2> QED
    BY <2>2, <2>3
<1>10. Holdings'
  <2>1. \A r \in Rid : Results(r) \subseteq Results(r)'
    BY <1>1, <1>2 DEF Results, ActionsTypeOK, OwnRid
  <2> QED
    BY <1>3, <2>1 DEF Holdings
<1> QED
  BY <1>6, <1>8, <1>9, <1>10

\* Whatever the adapter answers is the answer to a request.
LEMMA AnswersAreRequests ==
  ASSUME ActionsInv
  PROVE  Answers \subseteq Client
<1>1. \A u \in Execution : phase[u] = "running" => job[u] \in Client
  BY DEF ActionsInv, ActionsTypeOK
<1> QED
  BY <1>1 DEF Answers, Running, ActionsInv, ActionsTypeOK

LEMMA ExecuteStep ==
  ASSUME ActionsInv, NEW t \in Execution, Execute(t)
  PROVE  ActionsTypeOK' /\ Roles' /\ Alone' /\ Holdings'
<1> USE DEF ActionsInv, Execute
<1>1. phase[t] = "running" /\ phase' = [phase EXCEPT ![t] = "ran"]
  OBVIOUS
<1>2. PICK c \in Answers : sealed' = [sealed EXCEPT ![t] = c]
  OBVIOUS
<1>3. UNCHANGED <<at, call, docs, store, late, served, topic, job, crossed>>
  BY DEF vars, history
<1>4. left' = IF left = {} THEN {} ELSE Answers
  OBVIOUS
<1>5. c \in Client /\ None \notin Client /\ left' \subseteq Client
  BY <1>2, <1>4, AnswersAreRequests, ActionsAssumption, StoreAssumption
  DEF ActionsAssumption, StoreAssumption
<1>6. ActionsTypeOK'
  BY <1>1, <1>2, <1>3, <1>5 DEF ActionsTypeOK
<1>7. Roles'
  BY <1>3 DEF Roles
<1>8. Alone'
  <2>1. t \notin crossed => c = job[t]
    BY <1>1, <1>2 DEF Alone, Answers
  <2>2. Running' \subseteq Running
    BY <1>1 DEF Running, ActionsTypeOK
  <2> QED
    BY <1>1, <1>2, <1>3, <1>4, <2>1, <2>2 DEF Alone, ActionsTypeOK, Running
<1>9. Holdings'
  <2>1. \A r \in Rid : Results(r)' = Results(r)
    BY <1>1, <1>3 DEF Results, ActionsTypeOK, OwnRid
  <2> QED
    BY <1>3, <2>1 DEF Holdings
<1> QED
  BY <1>6, <1>7, <1>8, <1>9

LEMMA ExecuteFailsStep ==
  ASSUME ActionsInv, NEW t \in Execution, ExecuteFails(t)
  PROVE  ActionsTypeOK' /\ Roles' /\ Alone' /\ Holdings'
<1> USE DEF ActionsInv, ExecuteFails, Release
<1>1. /\ phase[t] = "running" /\ phase' = [phase EXCEPT ![t] = "free"]
      /\ job' = [job EXCEPT ![t] = None]
      /\ crossed' = crossed \ {t}
  OBVIOUS
<1>2. UNCHANGED <<at, call, docs, store, late, served, topic, sealed>>
  BY DEF vars, history
<1>3. at[t] = "idle" /\ sealed[t] = None /\ left' \subseteq Client
  BY <1>1, AnswersAreRequests DEF ActionsTypeOK
<1>4. ActionsTypeOK'
  BY <1>1, <1>2, <1>3 DEF ActionsTypeOK
<1>5. Roles'
  BY <1>1, <1>2, <1>3 DEF Roles, ActionsTypeOK, OwnRid
<1>6. Alone'
  <2>1. Running' = Running \ {t}
    BY <1>1 DEF Running, ActionsTypeOK
  <2>2. \A u \in Execution \ crossed : u # t => phase[u] # "running"
    BY <1>1 DEF Alone, Running
  <2> QED
    BY <1>1, <1>2, <2>1, <2>2 DEF Alone, ActionsTypeOK
<1>7. Holdings'
  <2>1. \A r \in Rid : Results(r)' = Results(r)
    BY <1>1 DEF Results, ActionsTypeOK, OwnRid
  <2> QED
    BY <1>2, <2>1 DEF Holdings
<1> QED
  BY <1>4, <1>5, <1>6, <1>7

\* A call to the store begins.
LEMMA StoreResultStep ==
  ASSUME ActionsInv, NEW t \in Execution, store_result(t)
  PROVE  ActionsTypeOK' /\ Roles' /\ Alone' /\ Holdings'
<1> USE DEF ActionsInv, store_result, put_if_absent, Invoke, compute_rid
<1>1. phase[t] = "ran" /\ phase' = [phase EXCEPT ![t] = "stored"]
  OBVIOUS
<1>2. /\ call' = [call EXCEPT ![t] = [op |-> "put", rid |-> OwnRid(job[t])]]
      /\ at' = [at EXCEPT ![t] = IF use_mock THEN "memory" ELSE "head"]
  BY DEF OwnRid
<1>3. UNCHANGED <<docs, store, late, served, topic, job, sealed, left, crossed>>
  BY DEF history
<1>4. /\ t \in Thread /\ \A c \in Client : c # t /\ c \in Thread
      /\ Execution \subseteq Thread
      /\ at \in [Thread -> Step]
      /\ call \in [Thread -> Call \cup {None}]
  BY ActionsAssumption DEF ActionsAssumption, IInv, TypeOK
<1>5. ActionsTypeOK'
  BY <1>1, <1>2, <1>3, <1>4 DEF ActionsTypeOK
<1>6. Roles'
  BY <1>2, <1>3, <1>4 DEF Roles
<1>7. Alone'
  BY <1>1, <1>3 DEF Alone, ActionsTypeOK, Running
<1>8. Holdings'
  <2>1. \A r \in Rid : Results(r) \subseteq Results(r)'
    BY <1>1, <1>3 DEF Results, ActionsTypeOK, OwnRid
  <2> QED
    BY <1>3, <2>1 DEF Holdings
<1> QED
  BY <1>5, <1>6, <1>7, <1>8

LEMMA FetchResultStep ==
  ASSUME ActionsInv, NEW c \in Client, fetch_result(c)
  PROVE  ActionsTypeOK' /\ Roles' /\ Alone' /\ Holdings'
<1> USE DEF ActionsInv, fetch_result, get, Invoke, activations
<1>1. /\ call' = [call EXCEPT ![c] = [op |-> "get", rid |-> OwnRid(c)]]
      /\ at' = [at EXCEPT ![c] = IF use_mock THEN "memory" ELSE "fetch"]
  OBVIOUS
<1>2. UNCHANGED <<docs, store, late, served, topic, job, phase, sealed, left, crossed>>
  BY DEF history
<1>3. /\ \A t \in Execution : t # c /\ t \in Thread
      /\ Client \subseteq Thread
      /\ at \in [Thread -> Step]
      /\ call \in [Thread -> Call \cup {None}]
  BY ActionsAssumption DEF ActionsAssumption, IInv, TypeOK
<1>4. ActionsTypeOK'
  BY <1>1, <1>2, <1>3 DEF ActionsTypeOK
<1>5. Roles'
  BY <1>1, <1>2, <1>3 DEF Roles, OwnRid
<1>6. Alone'
  BY <1>2 DEF Alone, Running
<1>7. Holdings'
  BY <1>2 DEF Holdings, Results, OwnRid
<1> QED
  BY <1>4, <1>5, <1>6, <1>7

\* Who is at work on a put is an execution, with the result of its activation.
LEMMA CallsAreOwn ==
  ASSUME ActionsInv, NEW t \in Thread, at[t] # "idle"
  PROVE  /\ call[t].op = "put" => t \in Results(call[t].rid)
         /\ at[t] = "put" => t \in Results(call[t].rid)
<1>1. CASE t \in Client
  BY <1>1 DEF ActionsInv, Roles
<1>2. CASE t \in Execution
  <2>1. call[t] = [op |-> "put", rid |-> OwnRid(job[t])]
    BY <1>2 DEF ActionsInv, Roles
  <2>2. phase[t] = "stored"
    BY <1>2 DEF ActionsInv, ActionsTypeOK
  <2>3. call[t].rid = OwnRid(job[t])
    BY <2>1
  <2> QED
    BY <1>2, <2>2, <2>3 DEF Results
<1> QED
  BY <1>1, <1>2, ActionsAssumption DEF ActionsAssumption

LEMMA PutsOnTheWay ==
  ASSUME ActionsInv
  PROVE  \A t \in Thread : \A m \in OnTheWay(t) : m.val \in Results(m.rid)
  BY CallsAreOwn DEF OnTheWay

\* A call to the store goes on or returns: what is stored is the result of an execution
\* under the RID of its activation, what is fetched was stored there.
LEMMA StoreStepStep ==
  ASSUME ActionsInv, NEW t \in Thread, StoreStep(t)
  PROVE  ActionsTypeOK' /\ Roles' /\ Alone' /\ Holdings'
<1> DEFINE r == call[t].rid
           step == at'[t]
<1>1. UNCHANGED <<topic, job, phase, sealed, left, crossed>>
  BY DEF StoreStep, activations
<1>2. /\ at \in [Thread -> Step]
      /\ Thread = Execution \cup Client /\ Execution \cap Client = {}
      /\ None \notin Thread
      /\ docs \in [Rid -> Thread \cup {None}] /\ store \in [Rid -> Thread \cup {None}]
      /\ served \in [Rid -> SUBSET Thread]
  BY ActionsAssumption, StoreAssumption
  DEF ActionsAssumption, StoreAssumption, ActionsInv, IInv, TypeOK
<1>3. at[t] # "idle"
  BY DEF StoreStep, MemoryPut, MemoryGet, Head, PutDoc, PutAnswered, FetchDoc,
         ConnectionError
<1>4. UNCHANGED call
  BY DEF StoreStep, MemoryPut, MemoryGet, Head, PutDoc, PutAnswered, FetchDoc,
         ConnectionError,
         ReturnPut, ReturnGet, Leave, Goto
<1>5. /\ at' = [at EXCEPT ![t] = step]
      /\ \/ step \in {"idle", "memory"}
         \/ at[t] = "head" /\ step = "put"
         \/ at[t] = "put" /\ step \in {"created", "conflict"}
  BY <1>2 DEF StoreStep, MemoryPut, MemoryGet, Head, PutDoc, PutAnswered, FetchDoc,
         ConnectionError,
         ReturnPut, ReturnGet, Leave, Goto
<1>6. r \in Rid
  BY <1>3, AtWork DEF ActionsInv
<1>7. /\ call[t].op = "put" => t \in Results(r)
      /\ at[t] = "put" => t \in Results(r)
  BY <1>3, CallsAreOwn
<1>8. \/ UNCHANGED <<docs, store>>
      \/ docs' = [docs EXCEPT ![r] = t] /\ UNCHANGED store /\ at[t] = "put"
      \/ store' = [store EXCEPT ![r] = t] /\ UNCHANGED docs /\ call[t].op = "put"
  BY DEF StoreStep, MemoryPut, MemoryGet, Head, PutDoc, PutAnswered, FetchDoc,
         ConnectionError, Stored, Goto
<1>9. \/ UNCHANGED served
      \/ \E v \in {docs[r], store[r], None} :
           served' = [served EXCEPT ![r] = @ \cup ({v} \ {None})]
  BY DEF StoreStep, MemoryPut, MemoryGet, Head, PutDoc, PutAnswered, FetchDoc,
         ConnectionError,
         ReturnPut, ReturnGet, Goto, history
<1>m. late' \subseteq late \cup OnTheWay(t)
  BY DEF StoreStep, MemoryPut, MemoryGet, Head, PutDoc, PutAnswered, FetchDoc,
         ConnectionError, ReturnPut, ReturnGet, Leave, Goto
<1>w. \A m \in OnTheWay(t) : m.rid = r /\ m.val \in Results(r)
  BY <1>7 DEF OnTheWay
<1> HIDE DEF r, step
<1>10. ActionsTypeOK'
  BY <1>1, <1>2, <1>3, <1>5 DEF ActionsInv, ActionsTypeOK
<1>11. Roles'
  BY <1>1, <1>2, <1>3, <1>4, <1>5 DEF ActionsInv, Roles, OwnRid
<1>12. Alone'
  BY <1>1 DEF ActionsInv, Alone, Running
<1>13. Holdings'
  <2>1. \A q \in Rid : Results(q)' = Results(q)
    BY <1>1 DEF Results, OwnRid
  <2>2. \A q \in Rid : {docs'[q], store'[q]} \subseteq Results(q) \cup {None}
    BY <1>2, <1>6, <1>7, <1>8 DEF ActionsInv, Holdings
  <2>3. \A q \in Rid : served'[q] \subseteq Results(q)
    BY <1>2, <1>6, <1>9 DEF ActionsInv, Holdings
  <2>4. \A q \in Rid : \A m \in late' : m.rid = q => m.val \in Results(q)
    BY <1>m, <1>w DEF ActionsInv, Holdings
  <2> QED
    BY <2>1, <2>2, <2>3, <2>4 DEF Holdings
<1> QED
  BY <1>10, <1>11, <1>12, <1>13

\* A PUT that was on its way brings what its execution computed.
LEMMA StoreLateStep ==
  ASSUME ActionsInv, StoreLate
  PROVE  ActionsTypeOK' /\ Roles' /\ Alone' /\ Holdings'
<1>1. PICK m \in late : LatePut(m)
  BY DEF StoreLate
<1>2. /\ docs' = [docs EXCEPT ![m.rid] = m.val]
      /\ late' \subseteq late
      /\ UNCHANGED <<store, call, at, served, topic, job, phase, sealed, left, crossed>>
  BY <1>1 DEF LatePut, StoreLate, activations, history
<1>3. m.rid \in Rid /\ docs \in [Rid -> Thread \cup {None}]
  BY DEF ActionsInv, IInv, TypeOK
<1>4. ActionsTypeOK' /\ Roles' /\ Alone'
  BY <1>2 DEF ActionsInv, ActionsTypeOK, Roles, OwnRid, Alone, Running
<1>5. \A q \in Rid : Results(q)' = Results(q)
  BY <1>2 DEF Results, OwnRid
<1>6. m.val \in Results(m.rid)
  BY <1>3 DEF ActionsInv, Holdings
<1>7. Holdings'
  BY <1>2, <1>3, <1>5, <1>6 DEF ActionsInv, Holdings
<1> QED
  BY <1>4, <1>7

\* The invoker restarts: calls and executions under way are lost, what was stored stays.
LEMMA RestartInvokerStep ==
  ASSUME ActionsInv, RestartInvoker
  PROVE  ActionsTypeOK' /\ Roles' /\ Alone' /\ Holdings'
<1> DEFINE kept(t) == phase[t] \in {"free", "stored"}
<1>1. /\ phase' = [t \in Execution |-> IF kept(t) THEN phase[t] ELSE "free"]
      /\ job' = [t \in Execution |-> IF kept(t) THEN job[t] ELSE None]
      /\ sealed' = [t \in Execution |-> IF kept(t) THEN sealed[t] ELSE None]
      /\ crossed' = {t \in crossed : kept(t)}
      /\ left' = Answers
      /\ UNCHANGED <<topic, docs, call, served>>
  BY DEF RestartInvoker, Restart
<1>a. left' \subseteq Client
  BY <1>1, AnswersAreRequests
<1>2. store' = [r \in Rid |-> None] /\ at' = [t \in Thread |-> "idle"]
  BY DEF RestartInvoker, Restart
<1>3. Execution \subseteq Thread /\ Client \subseteq Thread
  BY ActionsAssumption DEF ActionsAssumption
<1>4. ActionsTypeOK'
  BY <1>1, <1>2, <1>3, <1>a DEF ActionsInv, ActionsTypeOK
<1>5. Roles'
  BY <1>2, <1>3 DEF Roles
<1>6. Alone'
  BY <1>1 DEF ActionsInv, Alone, ActionsTypeOK
<1>7. Holdings'
  <2>1. \A r \in Rid : Results(r)' = Results(r)
    BY <1>1 DEF Results, OwnRid
  <2>2. \A t \in Thread : \A m \in OnTheWay(t) : m.val \in Results(m.rid)
    BY PutsOnTheWay
  <2>3. late' = late \cup UNION {OnTheWay(t) : t \in Thread}
    BY DEF RestartInvoker, Restart
  <2>4. \A q \in Rid : \A m \in late' : m.rid = q => m.val \in Results(q)
    BY <2>2, <2>3 DEF ActionsInv, Holdings
  <2> QED
    BY <1>1, <1>2, <2>1, <2>4 DEF ActionsInv, Holdings
<1> QED
  BY <1>4, <1>5, <1>6, <1>7

LEMMA ActionsStep == ActionsInv /\ [NextActions]_allvars => ActionsInv'
<1> SUFFICES ASSUME ActionsInv, [NextActions]_allvars PROVE ActionsInv'
  OBVIOUS
<1>1. IInv'
  BY StoreMoves, NextStep DEF Good, ActionsInv
<1> SUFFICES ActionsTypeOK' /\ Roles' /\ Alone' /\ Holdings'
  BY <1>1 DEF ActionsInv
<1>2. ASSUME NEW c \in Client, invoke_confidential_action(c)
      PROVE  ActionsTypeOK' /\ Roles' /\ Alone' /\ Holdings'
  BY <1>2
  DEF invoke_confidential_action, vars, history, ActionsInv, ActionsTypeOK, Roles, Alone,
      Holdings, Results, OwnRid, Running
<1>4. CASE AdapterDone
  BY <1>4
  DEF AdapterDone, vars, history, ActionsInv, ActionsTypeOK, Roles, Alone, Holdings, Results,
      OwnRid, Running
<1>3. CASE UNCHANGED allvars
  BY <1>3
  DEF allvars, activations, vars, history, ActionsInv, ActionsTypeOK, Roles, Alone,
      Holdings, Results, OwnRid, Running
<1> QED
  BY <1>2, <1>3, FetchResultStep, ReceiveStep, ExecuteStep, ExecuteFailsStep, StoreResultStep,
     StoreStepStep, StoreLateStep, RestartInvokerStep, <1>4
  DEF NextActions

-----------------------------------------------------------------------------
\* Every reachable state satisfies the invariant.
THEOREM ActionsInvariance == SpecActions => []ActionsInv
  BY InitActionsInv, ActionsStep, PTL DEF SpecActions

\* The variables of the activations and of the store under them keep their types.
THEOREM ActionsTypeCorrect == SpecActions => []SystemTypeOK
<1>1. ActionsInv => SystemTypeOK
  BY DEF ActionsInv, IInv, SystemTypeOK
<1> QED
  BY ActionsInvariance, <1>1, PTL

\* Clients, controller and invoker use the result store as it is meant to be used, so that
\* first writer wins whatever is delivered twice.
THEOREM ActionsUseTheStore == SpecActions => Spec
<1>1. InitActions => Init
  BY DEF InitActions
<1>2. ActionsInv /\ [NextActions]_allvars => [Next]_vars
  BY StoreMoves
<1> QED
  BY ActionsInvariance, <1>1, <1>2, PTL DEF SpecActions, Spec

\* A client fetches results of its own request, which open for it unless their execution
\* shared the runtime adapter with another.
THEOREM ClientsFetchTheirOwn == SpecActions => []FetchedIsOwn
<1>1. ASSUME ActionsInv PROVE FetchedIsOwn
  <2> SUFFICES ASSUME NEW c \in Client, NEW t \in served[OwnRid(c)]
               PROVE  job[t] = c /\ (t \notin crossed => Opens(c, t))
    BY DEF FetchedIsOwn
  <2>1. t \in Execution /\ phase[t] = "stored" /\ OwnRid(job[t]) = OwnRid(c)
    BY <1>1, OwnRids DEF ActionsInv, Holdings, Results
  <2>2. job[t] = c
    BY <1>1, <2>1, OwnRids DEF ActionsInv, ActionsTypeOK
  <2> QED
    BY <1>1, <2>1, <2>2 DEF ActionsInv, Alone, Opens
<1> QED
  BY ActionsInvariance, <1>1, PTL
=============================================================================
