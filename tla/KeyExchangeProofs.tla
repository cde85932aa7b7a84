-------------------------- MODULE KeyExchangeProofs --------------------------
(***************************************************************************)
(* Sockets of the KMS server and of its workers, for any number of workers *)
(* and descriptors: every descriptor the server loses is paid for by a     *)
(* connection that was spoiled, and by that one alone.                     *)
(***************************************************************************)
EXTENDS KeyExchange, FiniteSetTheorems, TLAPS

\* A worker has one connection at the server at most, and does not leave it while it
\* lives and the server has not closed it.
Connections ==
  /\ \A i, j \in DOMAIN backlog : backlog[i] = backlog[j] => i = j
  /\ \A i \in DOMAIN backlog : backlog[i] # client
  /\ \A w \in Worker : AtServer(w) =>
       \/ step[w] \in {"send", "wait"} /\ link[w] = "open"
       \/ step[w] = "dead"

\* How far each side is with the request.
Progress ==
  /\ server = "down" => backlog = <<>> /\ leaked = 0
  /\ server \in {"read", "verify", "release"} => leaked < MaxFds
  /\ server = "read" => received < Len(Field)
  /\ \A w \in Worker :
       /\ step[w] = "send" => sent[w] < Len(Field)
       /\ step[w] \notin {"send", "wait", "dead"} => sent[w] = 0

\* The connections that handle_client will leave open, or would if it got to them.
Doomed ==
  {w \in Worker :
     AtServer(w) /\ (misfit[w] # "none" \/ (step[w] = "dead" /\ sent[w] < Len(Field)))}

\* Each of them is among the spoiled ones, as each that was left open was.
Accounted ==
  /\ IsFiniteSet(Doomed)
  /\ spoiled < MaxFds => leaked + Cardinality(Doomed) <= spoiled

IInv == TypeOK /\ Connections /\ Progress /\ Accounted

-----------------------------------------------------------------------------
(* Facts about the request, the backlog and what is doomed. *)

LEMMA FieldFacts == Len(Field) = 5 /\ \A i \in 1 .. 5 : Field[i] # "none"
BY DEF Field

\* The first connection not accepted yet becomes the client's.
LEMMA HeadOfBacklog ==
  ASSUME backlog \in Seq(Worker), backlog # <<>>
  PROVE  /\ Head(backlog) \in Worker /\ Head(backlog) = backlog[1] /\ 1 \in DOMAIN backlog
         /\ Tail(backlog) \in Seq(Worker) /\ Len(Tail(backlog)) = Len(backlog) - 1
         /\ \A i \in DOMAIN Tail(backlog) :
              i + 1 \in DOMAIN backlog /\ i + 1 # 1 /\ Tail(backlog)[i] = backlog[i + 1]
         /\ \A i \in DOMAIN backlog :
              i = 1 \/ (i - 1 \in DOMAIN Tail(backlog) /\ Tail(backlog)[i - 1] = backlog[i])
OBVIOUS

\* Nothing more is doomed, and nothing is leaked or spoiled.
LEMMA KeepAccount ==
  ASSUME Accounted, Doomed' \subseteq Doomed, UNCHANGED <<leaked, spoiled>>, TypeOK
  PROVE  Accounted'
<1>1. /\ IsFiniteSet(Doomed') /\ Cardinality(Doomed') <= Cardinality(Doomed)
      /\ Cardinality(Doomed) \in Nat /\ Cardinality(Doomed') \in Nat
  BY FS_Subset, FS_CardinalityType DEF Accounted
<1>2. leaked \in Nat /\ spoiled \in Nat /\ MaxFds \in Nat
  BY KeyExchangeAssumption DEF TypeOK
<1> QED
  BY <1>1, <1>2 DEF Accounted

\* A doomed connection is left open.
LEMMA LeakAccount ==
  ASSUME Accounted, TypeOK, NEW w \in Doomed, Doomed' \subseteq Doomed \ {w},
         leaked' = leaked + 1, UNCHANGED spoiled
  PROVE  Accounted'
<1>1. /\ IsFiniteSet(Doomed \ {w}) /\ Cardinality(Doomed \ {w}) = Cardinality(Doomed) - 1
      /\ Cardinality(Doomed) \in Nat
  BY FS_RemoveElement, FS_CardinalityType DEF Accounted
<1>2. /\ IsFiniteSet(Doomed') /\ Cardinality(Doomed') <= Cardinality(Doomed \ {w})
      /\ Cardinality(Doomed') \in Nat
  BY <1>1, FS_Subset, FS_CardinalityType
<1>3. leaked \in Nat /\ spoiled \in Nat /\ MaxFds \in Nat
  BY KeyExchangeAssumption DEF TypeOK
<1> QED
  BY <1>1, <1>2, <1>3 DEF Accounted

\* A connection is spoiled.
LEMMA SpoilAccount ==
  ASSUME Accounted, TypeOK, NEW w, Doomed' \subseteq Doomed \cup {w}, UNCHANGED leaked, Spoil
  PROVE  Accounted' /\ spoiled' \in 0 .. MaxFds
<1>1. /\ IsFiniteSet(Doomed \cup {w}) /\ Cardinality(Doomed \cup {w}) <= Cardinality(Doomed) + 1
      /\ Cardinality(Doomed) \in Nat
  BY FS_AddElement, FS_CardinalityType DEF Accounted
<1>2. /\ IsFiniteSet(Doomed') /\ Cardinality(Doomed') <= Cardinality(Doomed \cup {w})
      /\ Cardinality(Doomed') \in Nat /\ Cardinality(Doomed \cup {w}) \in Nat
  BY <1>1, FS_Subset, FS_CardinalityType
<1>3. leaked \in Nat /\ spoiled \in 0 .. MaxFds /\ MaxFds \in Nat
  BY KeyExchangeAssumption DEF TypeOK
<1> QED
  BY <1>1, <1>2, <1>3 DEF Accounted, Spoil

\* While the server's side does not change a connection is doomed by its worker only.
LEMMA DoomedByWorker ==
  ASSUME NEW w \in Worker, UNCHANGED <<client, backlog>>, Connections,
         \A v \in Worker \ {w} : step'[v] = step[v] /\ misfit'[v] = misfit[v] /\ sent'[v] = sent[v]
  PROVE  /\ Doomed' \subseteq Doomed \cup {w}
         /\ (AtServer(w) => w \in Doomed \/ w \notin Doomed') => Doomed' \subseteq Doomed
BY DEF Doomed, AtServer, Connections

-----------------------------------------------------------------------------
(* The server. *)

LEMMA StartIInv == ASSUME IInv, Start PROVE IInv'
<1>1. UNCHANGED <<client, received, backlog, leaked, step, keys, attempt, misfit, sent, link>>
  BY DEF Start, onWorker
<1>2. server = "down" /\ server' = "accept" /\ spoiled' = 0
  BY DEF Start
<1>3. TypeOK'
  BY <1>1, <1>2, KeyExchangeAssumption DEF IInv, TypeOK
<1>4. Connections' /\ Progress'
  BY <1>1, <1>2 DEF IInv, Connections, Progress, AtServer
<1>5. Doomed' = {} /\ leaked' = 0
  BY <1>1, <1>2, KeyExchangeAssumption DEF IInv, Progress, Doomed, AtServer, TypeOK
<1>6. IsFiniteSet(Doomed') /\ Cardinality(Doomed') = 0
  BY <1>5, FS_EmptySet
<1>7. Accounted'
  BY <1>2, <1>5, <1>6 DEF Accounted
<1> QED
  BY <1>3, <1>4, <1>7 DEF IInv

LEMMA ExitIInv == ASSUME IInv, Exit PROVE IInv'
<1>1. TypeOK'
  BY KeyExchangeAssumption DEF IInv, Exit, TypeOK
<1>2. Connections' /\ Progress'
  BY KeyExchangeAssumption DEF IInv, Exit, Connections, Progress, AtServer, TypeOK
<1>3. Doomed' = {}
  BY KeyExchangeAssumption DEF Exit, Doomed, AtServer
<1>4. Accounted'
  BY <1>3, FS_EmptySet DEF IInv, TypeOK, Exit, Accounted
<1> QED
  BY <1>1, <1>2, <1>4 DEF IInv

LEMMA AcceptIInv == ASSUME IInv, accept PROVE IInv'
<1>1. /\ server' = "read" /\ client' = Head(backlog) /\ received' = 0 /\ backlog' = Tail(backlog)
      /\ leaked < MaxFds /\ UNCHANGED <<leaked, spoiled>>
      /\ UNCHANGED <<step, keys, attempt, misfit, sent, link>>
      /\ client = Nobody
  BY DEF accept, onWorker, IInv, TypeOK
<1>2. backlog \in Seq(Worker) /\ backlog # <<>>
  BY DEF IInv, TypeOK, accept
<1>3. \A w \in Worker : AtServer(w)' => AtServer(w)
  BY <1>1, <1>2, HeadOfBacklog DEF AtServer
<1>4. TypeOK'
  BY <1>1, <1>2, HeadOfBacklog, FieldFacts, KeyExchangeAssumption DEF IInv, TypeOK
<1>5. Connections'
  <2>1. \A i, j \in DOMAIN backlog' : backlog'[i] = backlog'[j] => i = j
    BY <1>1, <1>2, HeadOfBacklog DEF IInv, Connections
  <2>2. \A i \in DOMAIN backlog' : backlog'[i] # client'
    BY <1>1, <1>2, HeadOfBacklog DEF IInv, Connections
  <2> QED
    BY <1>1, <1>3, <2>1, <2>2 DEF IInv, Connections
<1>6. Progress'
  BY <1>1, FieldFacts DEF IInv, Progress
<1>7. Doomed' \subseteq Doomed
  BY <1>1, <1>3 DEF Doomed
<1> QED
  BY <1>1, <1>4, <1>5, <1>6, <1>7, KeepAccount DEF IInv

\* The client's connection is dealt with; what becomes of its socket is up to the caller.
LEMMA ReturnFacts ==
  ASSUME IInv, client # Nobody, Return,
         link' \in [Worker -> {"none", "open", "closed", "keys"}],
         \A w \in Worker \ {client} : link'[w] = link[w],
         leaked' \in 0 .. MaxFds
  PROVE  TypeOK' /\ Connections' /\ Progress' /\ Doomed' \subseteq Doomed \ {client}
<1>1. /\ server' = "accept" /\ client' = Nobody /\ received' = 0
      /\ UNCHANGED <<backlog, step, keys, attempt, misfit, sent, spoiled>>
  BY DEF Return
<1>2. TypeOK'
  BY <1>1, FieldFacts DEF IInv, TypeOK
<1>3. \A w \in Worker : AtServer(w)' => AtServer(w) /\ w # client
  BY <1>1, KeyExchangeAssumption DEF IInv, Connections, AtServer
<1>4. Connections'
  <2>1. \A i \in DOMAIN backlog : backlog[i] \in Worker
    BY DEF IInv, TypeOK
  <2> QED
    BY <1>1, <1>3, <2>1, KeyExchangeAssumption DEF IInv, Connections
<1>5. Progress'
  BY <1>1 DEF IInv, Progress
<1>6. Doomed' \subseteq Doomed \ {client}
  BY <1>1, <1>3 DEF Doomed
<1> QED
  BY <1>2, <1>4, <1>5, <1>6

LEMMA LeaveIInv ==
  ASSUME IInv, server = "read", Return, Leave, client \in Doomed
  PROVE  IInv'
<1>1. leaked' = leaked + 1 /\ UNCHANGED <<link, spoiled>>
  BY DEF Leave, Return
<1>2. leaked < MaxFds /\ client \in Worker /\ client # Nobody
  BY KeyExchangeAssumption DEF IInv, Progress, Doomed
<1>3. leaked' \in 0 .. MaxFds
  BY <1>1, <1>2, KeyExchangeAssumption DEF IInv, TypeOK
<1>4. TypeOK' /\ Connections' /\ Progress' /\ Doomed' \subseteq Doomed \ {client}
  BY <1>1, <1>2, <1>3, ReturnFacts DEF IInv, TypeOK
<1> QED
  BY <1>1, <1>4, LeakAccount DEF IInv

LEMMA CloseIInv ==
  ASSUME IInv, client # Nobody, Return, NEW answer \in {"closed", "keys"}, Close(answer)
  PROVE  IInv'
<1>1. /\ link' = [link EXCEPT ![client] = IF @ = "open" THEN answer ELSE @]
      /\ UNCHANGED <<leaked, spoiled>>
  BY DEF Close, Return
<1>2. client \in Worker
  BY DEF IInv, TypeOK
<1>3. /\ link' \in [Worker -> {"none", "open", "closed", "keys"}]
      /\ \A w \in Worker \ {client} : link'[w] = link[w]
  BY <1>1, <1>2 DEF IInv, TypeOK
<1>4. TypeOK' /\ Connections' /\ Progress' /\ Doomed' \subseteq Doomed \ {client}
  BY <1>1, <1>3, ReturnFacts DEF IInv, TypeOK
<1> QED
  BY <1>1, <1>4, KeepAccount DEF IInv

LEMMA ReadIInv == ASSUME IInv, ReadField \/ ReadFails PROVE IInv'
<1>1. /\ server = "read" /\ client \in Worker /\ received < 5 /\ received \in Nat
      /\ sent[client] \in 0 .. 5
  BY FieldFacts DEF ReadField, ReadFails, IInv, TypeOK, Progress
<1>2. AtServer(client)
  BY DEF AtServer
<1>3. CASE ReadField /\ misfit[client] = Field[received + 1]
  <2>1. misfit[client] # "none"
    BY <1>1, <1>3, FieldFacts
  <2>2. client \in Doomed
    BY <1>1, <1>2, <2>1 DEF Doomed
  <2> QED
    BY <1>1, <1>3, <2>2, LeaveIInv DEF ReadField
<1>4. CASE ReadFails
  <2>1. client \in Doomed
    BY <1>1, <1>2, <1>4, FieldFacts DEF ReadFails, Doomed
  <2> QED
    BY <1>1, <1>4, <2>1, LeaveIInv DEF ReadFails
<1>5. CASE ReadField /\ misfit[client] # Field[received + 1]
  <2>1. /\ received' = received + 1
        /\ server' = IF received' = 5 THEN "verify" ELSE "read"
        /\ UNCHANGED <<client, backlog, leaked, spoiled>>
        /\ UNCHANGED <<step, keys, attempt, misfit, sent, link>>
    BY <1>5, FieldFacts DEF ReadField, onWorker
  <2>2. TypeOK'
    BY <1>1, <2>1, FieldFacts DEF IInv, TypeOK
  <2>3. Connections' /\ Doomed' = Doomed
    BY <2>1 DEF IInv, Connections, Doomed, AtServer
  <2>4. Progress'
    BY <1>1, <2>1, FieldFacts DEF IInv, Progress
  <2> QED
    BY <2>1, <2>2, <2>3, <2>4, KeepAccount DEF IInv
<1> QED
  BY <1>3, <1>4, <1>5

LEMMA AnswerIInv == ASSUME IInv, Verify \/ Release PROVE IInv'
<1>1. server \in {"verify", "release"} /\ client # Nobody
  BY DEF Verify, Release, IInv, TypeOK
<1>2. CASE Return
  BY <1>1, <1>2, CloseIInv DEF Verify, VerifyFailed, Release, Return
<1>3. CASE ~Return
  <2>1. /\ server = "verify" /\ server' = "release"
        /\ UNCHANGED <<client, received, backlog, leaked, spoiled>>
        /\ UNCHANGED <<step, keys, attempt, misfit, sent, link>>
    BY <1>3 DEF Verify, Release, onWorker
  <2>2. TypeOK'
    BY <2>1 DEF IInv, TypeOK
  <2>3. Connections' /\ Doomed' = Doomed /\ Progress'
    BY <2>1 DEF IInv, Connections, Doomed, AtServer, Progress
  <2> QED
    BY <2>1, <2>2, <2>3, KeepAccount DEF IInv
<1> QED
  BY <1>2, <1>3

-----------------------------------------------------------------------------
(* The workers. *)

\* Steps that leave the server alone: what has to be looked at is the worker that takes it.
LEMMA WorkerFacts ==
  ASSUME IInv, NEW w \in Worker, UNCHANGED <<server, client, received, backlog, leaked>>,
         \A v \in Worker \ {w} : /\ step'[v] = step[v] /\ misfit'[v] = misfit[v]
                                 /\ sent'[v] = sent[v] /\ link'[v] = link[v]
  PROVE  /\ (AtServer(w) => \/ step'[w] \in {"send", "wait"} /\ link'[w] = "open"
                            \/ step'[w] = "dead") => Connections'
         /\ (/\ step'[w] = "send" => sent'[w] < Len(Field)
             /\ step'[w] \notin {"send", "wait", "dead"} => sent'[w] = 0) => Progress'
         /\ (AtServer(w) => w \in Doomed \/ w \notin Doomed') => Doomed' \subseteq Doomed
<1>1. \A v : AtServer(v)' = AtServer(v)
  BY DEF AtServer
<1>2. ASSUME AtServer(w) => (step'[w] \in {"send", "wait"} /\ link'[w] = "open") \/ step'[w] = "dead"
      PROVE  Connections'
  BY <1>1, <1>2 DEF IInv, Connections
<1>3. ASSUME step'[w] = "send" => sent'[w] < Len(Field),
             step'[w] \notin {"send", "wait", "dead"} => sent'[w] = 0
      PROVE  Progress'
  BY <1>3 DEF IInv, Progress
<1>4. (AtServer(w) => w \in Doomed \/ w \notin Doomed') => Doomed' \subseteq Doomed
  BY DoomedByWorker DEF IInv
<1> QED
  BY <1>2, <1>3, <1>4

\* A worker that is neither sending nor waiting has no connection at the server.
LEMMA Elsewhere ==
  ASSUME IInv, NEW w \in Worker, step[w] \notin {"send", "wait", "dead"}
  PROVE  ~AtServer(w) /\ w \notin Doomed /\ sent[w] = 0
BY DEF IInv, Connections, Progress, Doomed

\* A worker whose socket the server has closed has no connection there either.
LEMMA Closed ==
  ASSUME IInv, NEW w \in Worker, step[w] \in {"send", "wait"}, link[w] # "open"
  PROVE  ~AtServer(w) /\ w \notin Doomed
BY DEF IInv, Connections, Doomed

LEMMA BeginIInv ==
  ASSUME IInv, NEW w \in Worker, do_invoke(w) \/ generate_quote(w) \/ Run(w)
  PROVE  IInv'
<1>1. /\ UNCHANGED <<server, client, received, backlog, leaked, spoiled>>
      /\ UNCHANGED <<keys, attempt, sent, link>>
  BY DEF do_invoke, generate_quote, Run, onServer
<1>2. /\ step[w] \in {"idle", "quote", "run"}
      /\ \E s \in {"idle", "quote", "connect", "run"} : step' = [step EXCEPT ![w] = s]
      /\ \E f \in Misfit \cup {"none"} : misfit' = [misfit EXCEPT ![w] = f]
  BY DEF do_invoke, generate_quote, Run, Goto, IInv, TypeOK
<1>3. TypeOK'
  BY <1>1, <1>2 DEF IInv, TypeOK
<1>4. /\ step'[w] \in {"idle", "quote", "connect", "run"}
      /\ \A v \in Worker \ {w} : step'[v] = step[v] /\ misfit'[v] = misfit[v]
  BY <1>2 DEF IInv, TypeOK
<1>5. ~AtServer(w) /\ w \notin Doomed /\ sent[w] = 0
  BY <1>2, Elsewhere
<1>6. Connections' /\ Progress' /\ Doomed' \subseteq Doomed
  BY <1>1, <1>4, <1>5, WorkerFacts
<1> QED
  BY <1>1, <1>3, <1>6, KeepAccount DEF IInv

LEMMA ConnectIInv == ASSUME IInv, NEW w \in Worker, Connect(w) PROVE IInv'
<1>1. /\ step[w] = "connect" /\ server # "down" /\ Len(backlog) < Backlog
      /\ backlog' = Append(backlog, w)
      /\ step' = [step EXCEPT ![w] = "send"]
      /\ attempt' = [attempt EXCEPT ![w] = 0]
      /\ link' = [link EXCEPT ![w] = "open"]
      /\ UNCHANGED <<server, client, received, leaked, keys, misfit, sent>>
      /\ \/ misfit[w] = "none" /\ UNCHANGED spoiled
         \/ misfit[w] # "none" /\ Spoil
  BY DEF Connect
<1>2. ~AtServer(w) /\ w \notin Doomed /\ sent[w] = 0
  BY <1>1, Elsewhere
<1>3. /\ backlog \in Seq(Worker)
      /\ step'[w] = "send" /\ link'[w] = "open"
      /\ \A v \in Worker \ {w} : step'[v] = step[v] /\ link'[v] = link[v]
  BY <1>1 DEF IInv, TypeOK
<1>4. \A v \in Worker : AtServer(v)' <=> (AtServer(v) \/ v = w)
  BY <1>1, <1>3 DEF AtServer
<1>5. Doomed' \subseteq Doomed \cup {w} /\ (misfit[w] = "none" => Doomed' \subseteq Doomed)
  BY <1>1, <1>3, <1>4 DEF Doomed
<1>6. spoiled' \in 0 .. MaxFds /\ Accounted'
  <2>1. CASE misfit[w] = "none"
    BY <1>1, <1>5, <2>1, KeepAccount DEF IInv, TypeOK
  <2>2. CASE misfit[w] # "none"
    BY <1>1, <1>5, <2>2, SpoilAccount DEF IInv
  <2> QED
    BY <2>1, <2>2
<1>7. TypeOK'
  <2>1. backlog' \in Seq(Worker) /\ Len(backlog') = Len(backlog) + 1 /\ Len(backlog) \in Nat
    BY <1>1, <1>3
  <2> QED
    BY <1>1, <1>6, <2>1, KeyExchangeAssumption DEF IInv, TypeOK
<1>8. Connections'
  <2>1. \A i \in DOMAIN backlog : backlog[i] # w
    BY <1>2 DEF AtServer
  <2>2. client # w
    BY <1>2 DEF AtServer
  <2>3. \A i \in DOMAIN backlog' :
          IF i = Len(backlog) + 1 THEN backlog'[i] = w
          ELSE i \in DOMAIN backlog /\ backlog'[i] = backlog[i]
    BY <1>1, <1>3
  <2>4. /\ \A i, j \in DOMAIN backlog' : backlog'[i] = backlog'[j] => i = j
        /\ \A i \in DOMAIN backlog' : backlog'[i] # client'
    BY <1>1, <2>1, <2>2, <2>3 DEF IInv, Connections
  <2>5. \A v \in Worker : AtServer(v)' =>
          \/ step'[v] \in {"send", "wait"} /\ link'[v] = "open"
          \/ step'[v] = "dead"
    BY <1>1, <1>3, <1>4 DEF IInv, Connections
  <2> QED
    BY <2>4, <2>5 DEF Connections
<1>9. Progress'
  BY <1>1, <1>2, <1>3, FieldFacts DEF IInv, Progress
<1> QED
  BY <1>6, <1>7, <1>8, <1>9 DEF IInv

\* A worker that leaves connect_to_kms without a connection at the server.
LEMMA LeavesIInv ==
  ASSUME IInv, NEW w \in Worker, Leaves(w), ~AtServer(w), UNCHANGED <<onServer, spoiled>>,
         keys' \in [Worker -> BOOLEAN], attempt' \in [Worker -> 0 .. Attempts - 1]
  PROVE  IInv'
<1>1. /\ UNCHANGED <<server, client, received, backlog, leaked, spoiled>>
      /\ step' = [step EXCEPT ![w] = "run"] /\ misfit' = [misfit EXCEPT ![w] = "none"]
      /\ sent' = [sent EXCEPT ![w] = 0] /\ link' = [link EXCEPT ![w] = "none"]
  BY DEF Leaves, Goto, onServer
<1>2. TypeOK'
  BY <1>1, FieldFacts DEF IInv, TypeOK
<1>3. /\ step'[w] = "run" /\ sent'[w] = 0
      /\ \A v \in Worker \ {w} : /\ step'[v] = step[v] /\ misfit'[v] = misfit[v]
                                 /\ sent'[v] = sent[v] /\ link'[v] = link[v]
  BY <1>1 DEF IInv, TypeOK
<1>4. Connections' /\ Progress' /\ Doomed' \subseteq Doomed
  BY <1>1, <1>3, WorkerFacts
<1> QED
  BY <1>1, <1>2, <1>4, KeepAccount DEF IInv

LEMMA ConnectFailsIInv == ASSUME IInv, NEW w \in Worker, ConnectFails(w) PROVE IInv'
<1>1. step[w] = "connect" /\ UNCHANGED <<onServer, keys, spoiled>>
  BY DEF ConnectFails
<1>2. ~AtServer(w) /\ w \notin Doomed /\ sent[w] = 0
  BY <1>1, Elsewhere
<1>3. CASE TriesAgain(w)
  <2>1. attempt' = [attempt EXCEPT ![w] = @ + 1] /\ UNCHANGED <<step, misfit, sent, link>>
    BY <1>3 DEF ConnectFails
  <2>2. attempt' \in [Worker -> 0 .. Attempts - 1]
    BY <1>3, <2>1, KeyExchangeAssumption DEF TriesAgain, IInv, TypeOK
  <2>3. UNCHANGED <<server, client, received, backlog, leaked>>
    BY <1>1 DEF onServer
  <2>4. TypeOK'
    BY <1>1, <2>1, <2>2, <2>3 DEF IInv, TypeOK
  <2>5. Connections' /\ Progress' /\ Doomed' = Doomed
    BY <2>1, <2>3 DEF IInv, Connections, Progress, Doomed, AtServer
  <2> QED
    BY <1>1, <2>3, <2>4, <2>5, KeepAccount DEF IInv
<1>4. CASE ~TriesAgain(w)
  <2>1. attempt' = [attempt EXCEPT ![w] = 0] /\ Leaves(w)
    BY <1>4 DEF ConnectFails
  <2>2. attempt' \in [Worker -> 0 .. Attempts - 1]
    BY <2>1, KeyExchangeAssumption DEF IInv, TypeOK
  <2> QED
    BY <1>1, <1>2, <2>1, <2>2, LeavesIInv DEF IInv, TypeOK
<1> QED
  BY <1>3, <1>4

LEMMA EndIInv ==
  ASSUME IInv, NEW w \in Worker, SendFails(w) \/ read_kms_response(w)
  PROVE  IInv'
<1>1. /\ step[w] \in {"send", "wait"} /\ link[w] # "open" /\ Leaves(w)
      /\ UNCHANGED <<onServer, attempt, spoiled>>
      /\ keys' = keys \/ keys' = [keys EXCEPT ![w] = TRUE]
  BY DEF SendFails, read_kms_response, LoadKeys
<1>2. keys' \in [Worker -> BOOLEAN]
  BY <1>1 DEF IInv, TypeOK
<1>3. attempt' \in [Worker -> 0 .. Attempts - 1]
  BY <1>1 DEF IInv, TypeOK
<1> QED
  BY <1>1, <1>2, <1>3, Closed, LeavesIInv

LEMMA SendIInv == ASSUME IInv, NEW w \in Worker, Send(w) PROVE IInv'
<1>1. /\ step[w] = "send" /\ sent' = [sent EXCEPT ![w] = @ + 1]
      /\ step' = [step EXCEPT ![w] = IF sent'[w] = Len(Field) THEN "wait" ELSE "send"]
      /\ UNCHANGED <<server, client, received, backlog, leaked>>
      /\ UNCHANGED <<keys, attempt, misfit, link, spoiled>>
  BY DEF Send, Goto, onServer
<1>2. sent[w] \in 0 .. 4
  BY <1>1, FieldFacts DEF IInv, TypeOK, Progress
<1>3. /\ sent'[w] = sent[w] + 1 /\ step'[w] = IF sent'[w] = 5 THEN "wait" ELSE "send"
      /\ \A v \in Worker \ {w} : step'[v] = step[v] /\ sent'[v] = sent[v]
  BY <1>1, FieldFacts DEF IInv, TypeOK
<1>4. TypeOK'
  <2>1. sent' \in [Worker -> 0 .. Len(Field)]
    BY <1>1, <1>2, FieldFacts DEF IInv, TypeOK
  <2>2. step' \in [Worker -> {"idle", "quote", "connect", "send", "wait", "run", "dead"}]
    BY <1>1 DEF IInv, TypeOK
  <2>3. \A v \in Worker : step'[v] = "wait" => sent'[v] = Len(Field)
    BY <1>3, FieldFacts DEF IInv, TypeOK
  <2> QED
    BY <1>1, <2>1, <2>2, <2>3 DEF IInv, TypeOK
<1>5. AtServer(w) => link'[w] = "open"
  BY <1>1 DEF IInv, Connections
<1>6. AtServer(w) => w \in Doomed \/ w \notin Doomed'
  BY <1>1, <1>3 DEF Doomed, AtServer
<1>7. Connections' /\ Progress' /\ Doomed' \subseteq Doomed
  BY <1>1, <1>2, <1>3, <1>5, <1>6, WorkerFacts, FieldFacts
<1> QED
  BY <1>1, <1>4, <1>7, KeepAccount DEF IInv

LEMMA DieIInv == ASSUME IInv, NEW w \in Worker, Die(w) PROVE IInv'
<1>1. /\ step[w] # "dead" /\ step' = [step EXCEPT ![w] = "dead"]
      /\ keys' = [keys EXCEPT ![w] = FALSE]
      /\ attempt' = [attempt EXCEPT ![w] = 0]
      /\ link' = [link EXCEPT ![w] = "none"]
      /\ UNCHANGED <<server, client, received, backlog, leaked, misfit, sent>>
  BY DEF Die, Goto, onServer
<1>2. /\ step'[w] = "dead"
      /\ \A v \in Worker \ {w} : step'[v] = step[v] /\ link'[v] = link[v]
  BY <1>1 DEF IInv, TypeOK
<1>3. Connections' /\ Progress'
  BY <1>1, <1>2, WorkerFacts
<1>4. Accounted' /\ spoiled' \in 0 .. MaxFds
  <2>1. CASE step[w] = "send" /\ AtServer(w) /\ misfit[w] = "none"
    <3>1. Spoil
      BY <2>1 DEF Die
    <3>2. Doomed' \subseteq Doomed \cup {w}
      BY <1>1, <1>2, DoomedByWorker DEF IInv
    <3> QED
      BY <1>1, <3>1, <3>2, SpoilAccount DEF IInv
  <2>2. CASE ~(step[w] = "send" /\ AtServer(w) /\ misfit[w] = "none")
    <3>1. UNCHANGED spoiled
      BY <2>2 DEF Die
    <3>2. AtServer(w) => w \in Doomed \/ w \notin Doomed'
      <4>1. CASE step[w] = "wait"
        BY <1>1, <4>1 DEF Doomed, AtServer, IInv, TypeOK
      <4>2. CASE step[w] = "send"
        BY <1>1, <2>2, <4>2 DEF Doomed
      <4> QED
        BY <1>1, <4>1, <4>2, Elsewhere
    <3>3. Doomed' \subseteq Doomed
      BY <1>1, <1>2, <3>2, WorkerFacts
    <3> QED
      BY <1>1, <3>1, <3>3, KeepAccount DEF IInv, TypeOK
  <2> QED
    BY <2>1, <2>2
<1>5. TypeOK'
  <2>1. keys' \in [Worker -> BOOLEAN]
    BY <1>1 DEF IInv, TypeOK
  <2> QED
    BY <1>1, <1>4, <2>1, KeyExchangeAssumption DEF IInv, TypeOK
<1> QED
  BY <1>3, <1>4, <1>5 DEF IInv

LEMMA RestartIInv == ASSUME IInv, NEW w \in Worker, Restart(w) PROVE IInv'
<1>1. /\ ~AtServer(w) /\ step' = [step EXCEPT ![w] = "idle"]
      /\ misfit' = [misfit EXCEPT ![w] = "none"] /\ sent' = [sent EXCEPT ![w] = 0]
      /\ UNCHANGED <<server, client, received, backlog, leaked, keys, attempt, link, spoiled>>
  BY DEF Restart, Goto, onServer
<1>2. TypeOK'
  BY <1>1, FieldFacts DEF IInv, TypeOK
<1>3. /\ step'[w] = "idle" /\ sent'[w] = 0
      /\ \A v \in Worker \ {w} : /\ step'[v] = step[v] /\ misfit'[v] = misfit[v]
                                 /\ sent'[v] = sent[v]
  BY <1>1 DEF IInv, TypeOK
<1>4. Connections' /\ Progress' /\ Doomed' \subseteq Doomed
  BY <1>1, <1>3, WorkerFacts
<1> QED
  BY <1>1, <1>2, <1>4, KeepAccount DEF IInv

-----------------------------------------------------------------------------
(* The theorems. *)

LEMMA InitIInv == Init => IInv
<1> SUFFICES ASSUME Init PROVE IInv
  OBVIOUS
<1>1. TypeOK
  BY KeyExchangeAssumption, FieldFacts DEF Init, TypeOK
<1>2. ~\E w \in Worker : AtServer(w)
  BY KeyExchangeAssumption DEF Init, AtServer
<1>3. Connections /\ Progress
  BY <1>2 DEF Init, Connections, Progress
<1>4. Doomed = {}
  BY <1>2 DEF Doomed
<1>5. Accounted
  BY <1>4, FS_EmptySet DEF Init, Accounted
<1> QED
  BY <1>1, <1>3, <1>5 DEF IInv

LEMMA NextIInv == IInv /\ [Next]_vars => IInv'
<1> SUFFICES ASSUME IInv, [Next]_vars PROVE IInv'
  OBVIOUS
<1>1. CASE Start
  BY <1>1, StartIInv
<1>2. CASE Crash \/ AcceptFails
  BY <1>2, ExitIInv DEF Crash, AcceptFails
<1>3. CASE accept
  BY <1>3, AcceptIInv
<1>4. CASE ReadField \/ ReadFails
  BY <1>4, ReadIInv
<1>5. CASE Verify \/ Release
  BY <1>5, AnswerIInv
<1>6. ASSUME NEW w \in Worker, do_invoke(w) \/ generate_quote(w) \/ Run(w) PROVE IInv'
  BY <1>6, BeginIInv
<1>7. ASSUME NEW w \in Worker, Connect(w) \/ ConnectFails(w) PROVE IInv'
  BY <1>7, ConnectIInv, ConnectFailsIInv
<1>8. ASSUME NEW w \in Worker, Send(w) \/ SendFails(w) \/ read_kms_response(w) PROVE IInv'
  BY <1>8, SendIInv, EndIInv
<1>9. ASSUME NEW w \in Worker, Die(w) \/ Restart(w) PROVE IInv'
  BY <1>9, DieIInv, RestartIInv
<1>10. CASE UNCHANGED vars
  <2>1. UNCHANGED <<server, client, received, backlog, leaked, spoiled>>
        /\ UNCHANGED <<step, keys, attempt, misfit, sent, link>>
    BY <1>10 DEF vars, onServer, onWorker
  <2> QED
    BY <2>1 DEF IInv, TypeOK, Connections, Progress, Accounted, Doomed, AtServer
<1> QED
  BY <1>1, <1>2, <1>3, <1>4, <1>5, <1>6, <1>7, <1>8, <1>9, <1>10 DEF Next

\* The invariant: a worker has one connection at most, and every connection that the server
\* has left open or will leave open was spoiled by its worker.
THEOREM ExchangeInvariance == Spec => []IInv
BY InitIInv, NextIInv, PTL DEF Spec

\* Type correctness: the server is about a client just while it is between accept and
\* return, and a worker that waits has sent its whole request.
THEOREM ExchangeTypeCorrect == Spec => []TypeOK
<1>1. IInv => TypeOK
  BY DEF IInv
<1> QED
  BY ExchangeInvariance, <1>1, PTL

\* No answer costs the server a descriptor, nor does a worker that dies while it waits for
\* one: only a request with a bad length, or one whose worker died before it was sent.
THEOREM NoDescriptorLost == Spec => []DescriptorsAccountedFor
<1>1. IInv => DescriptorsAccountedFor
  <2> SUFFICES ASSUME IInv PROVE leaked <= spoiled
    BY DEF DescriptorsAccountedFor
  <2>1. leaked \in 0 .. MaxFds /\ spoiled \in 0 .. MaxFds /\ MaxFds \in Nat
    BY KeyExchangeAssumption DEF IInv, TypeOK
  <2>2. Cardinality(Doomed) \in Nat
    BY FS_CardinalityType DEF IInv, Accounted
  <2> QED
    BY <2>1, <2>2 DEF IInv, Accounted
<1> QED
  BY ExchangeInvariance, <1>1, PTL
=============================================================================
