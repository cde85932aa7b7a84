------------------------- MODULE ConfidentialActions -------------------------
(***************************************************************************)
(* An invocation from the client to its result: ClientSDK                  *)
(* (client_sdk/sdk.py) prepares a request, ConfidentialActionsController   *)
(* (openwhisk_extensions/controller/confidential_actions.py) publishes an  *)
(* activation for it, ConfidentialActionsInvoker                           *)
(* (openwhisk_extensions/invoker/confidential_invoker.py) receives it and  *)
(* stores the result of its execution under a RID that client, controller  *)
(* and invoker each compute for themselves, and the client fetches what is *)
(* stored there.  The store is ResultStore's.                              *)
(*                                                                         *)
(* prepare_invocation draws k_req, nonce and key pair afresh, so a request *)
(* is the name of its client.  The activation id is not used for anything  *)
(* but logs, and the receipt tells the client nothing it does not compute. *)
(***************************************************************************)
EXTENDS ResultStore

CONSTANTS
  Execution,  \* the threads of the invoker that execute an activation each
  Client,     \* the threads of the invoker that fetch results, by their client
  FID,
  FidOf       \* the function each client invokes

ASSUME ActionsAssumption ==
  /\ Thread = Execution \cup Client
  /\ Execution \cap Client = {}
  /\ FidOf \in [Client -> FID]
  /\ Rid = [fid : FID, c_req : Client]

VARIABLES
  topic,   \* the requests of which an activation was published
  job,     \* job[t]: the request of the activation t received, or None
  phase,   \* phase[t]: "free", "running", "ran", or "stored" when t has called store_result
  sealed,  \* sealed[t]: the request whose output the result of t is, or None
  left,    \* the requests the runtime adapter is not done with although nobody waits:
           \* a response left in the worker's pipe, an execution the invoker lost
  crossed  \* history: the executions that shared the runtime adapter with another, or
           \* found it not done with an earlier one

activations == <<topic, job, phase, sealed, left, crossed>>
allvars == <<vars, activations>>

ActionsTypeOK ==
  /\ topic \subseteq Client
  /\ job \in [Execution -> Client \cup {None}]
  /\ phase \in [Execution -> {"free", "running", "ran", "stored"}]
  /\ sealed \in [Execution -> Client \cup {None}]
  /\ left \subseteq Client
  /\ crossed \subseteq Execution
  /\ \A t \in Execution :
       /\ (phase[t] = "free") <=> (job[t] = None)
       /\ (phase[t] \in {"free", "running"}) <=> (sealed[t] = None)
       /\ phase[t] # "stored" => at[t] = "idle"

SystemTypeOK == TypeOK /\ ActionsTypeOK

InitActions ==
  /\ Init
  /\ topic = {}
  /\ job = [t \in Execution |-> None]
  /\ phase = [t \in Execution |-> "free"]
  /\ sealed = [t \in Execution |-> None]
  /\ left = {}
  /\ crossed = {}

-----------------------------------------------------------------------------
(* The identity of a request: RID = H(FID || C_req). *)

\* A RID of the function alone.
RidOfFunction(fid, c_req) == [fid |-> fid, c_req |-> CHOOSE c \in Client : FidOf[c] = fid]

\* FIDs are digests of one length, so the hash determines both its parts.
compute_rid(fid, c_req) == [fid |-> fid, c_req |-> c_req]

\* prepare_invocation: the client's own computation, and the one decrypt_result uses.
OwnRid(c) == [fid |-> FidOf[c], c_req |-> c]

-----------------------------------------------------------------------------
\* The controller publishes an activation; a client that saw no receipt calls again, and
\* the second activation is executed as a second delivery of the first would be.
invoke_confidential_action(c) ==
  /\ topic' = topic \cup {c}
  /\ UNCHANGED <<vars, job, phase, sealed, left, crossed>>

Running == {t \in Execution : phase[t] = "running"}

\* A message is delivered at least once.
receive_activation(t) ==
  /\ phase[t] = "free"
  /\ \E c \in topic : job' = [job EXCEPT ![t] = c]
  /\ phase' = [phase EXCEPT ![t] = "running"]
  /\ crossed' = IF Running = {} /\ left = {} THEN crossed ELSE crossed \cup Running \cup {t}
  /\ UNCHANGED <<vars, topic, sealed, left>>

\* The enclave's output is for the sender of the request in the adapter's files: that is
\* the request of the activation or of another the adapter is not done with; and what is
\* read from the worker's pipe may be the response to an earlier request.
Answers == {job[u] : u \in Running} \cup left

\* A worker that answers one request behind stays one behind.
Execute(t) ==
  /\ phase[t] = "running"
  /\ \E c \in Answers : sealed' = [sealed EXCEPT ![t] = c]
  /\ phase' = [phase EXCEPT ![t] = "ran"]
  /\ left' = IF left = {} THEN {} ELSE Answers
  /\ UNCHANGED <<vars, topic, job, crossed>>

\* The thread is done with an activation it keeps.
KeepJob(t) == phase' = [phase EXCEPT ![t] = "free"] /\ UNCHANGED job

Release(t) == phase' = [phase EXCEPT ![t] = "free"] /\ job' = [job EXCEPT ![t] = None]

\* An execution that fails leaves no result; its message may be delivered again.  When
\* reading the response raised, the worker stays, and the response in its pipe.
ExecuteFails(t) ==
  /\ phase[t] = "running"
  /\ Release(t)
  /\ \E c \in Answers : left' \in {left, left \cup {c}}
  /\ crossed' = crossed \ {t}
  /\ UNCHANGED <<vars, topic, sealed>>

\* The adapter starts another worker, and what it still had to do is done or gone.
AdapterDone == left' = {} /\ UNCHANGED <<vars, topic, job, phase, sealed, crossed>>

\* The invoker computes the RID from the activation.
store_result(t) ==
  /\ phase[t] = "ran"
  /\ put_if_absent(t, compute_rid(FidOf[job[t]], job[t]))
  /\ phase' = [phase EXCEPT ![t] = "stored"]
  /\ UNCHANGED <<topic, job, sealed, left, crossed>>

fetch_result(c) == get(c, OwnRid(c)) /\ UNCHANGED activations

\* What store_result and fetch_result do from there on.
StoreStep(t) ==
  /\ \/ MemoryPut(t)
     \/ MemoryGet(t)
     \/ Head(t)
     \/ PutDoc(t)
     \/ PutAnswered(t)
     \/ FetchDoc(t)
     \/ ConnectionError(t)
  /\ UNCHANGED activations

\* What CouchDB still carries out of an earlier call.
StoreLate == (\E m \in late : LatePut(m)) /\ UNCHANGED activations

\* The executions that were under way are lost to the invoker, though not yet to the
\* adapter, and their messages delivered again.
RestartInvoker ==
  /\ Restart
  /\ LET kept(t) == phase[t] \in {"free", "stored"} IN
       /\ phase' = [t \in Execution |-> IF kept(t) THEN phase[t] ELSE "free"]
       /\ job' = [t \in Execution |-> IF kept(t) THEN job[t] ELSE None]
       /\ sealed' = [t \in Execution |-> IF kept(t) THEN sealed[t] ELSE None]
       /\ crossed' = {t \in crossed : kept(t)}
  /\ left' = Answers
  /\ UNCHANGED topic

NextActions ==
  \/ RestartInvoker
  \/ AdapterDone
  \/ StoreLate
  \/ \E c \in Client : invoke_confidential_action(c) \/ fetch_result(c)
  \/ \E t \in Execution :
       receive_activation(t) \/ Execute(t) \/ ExecuteFails(t) \/ store_result(t)
  \/ \E t \in Thread : StoreStep(t)

SpecActions == InitActions /\ [][NextActions]_allvars

-----------------------------------------------------------------------------
(* Properties. *)

\* decrypt_result: the key pair, the FID and the RID of the client open what was sealed
\* for its own request.
Opens(c, t) == sealed[t] = c

\* What a client finds under the RID it computed is the result of an execution of its own
\* request, through duplicates, restarts and failed connections, and opens for it unless
\* that execution shared the runtime adapter with another or came after one that left
\* its response there.
FetchedIsOwn ==
  \A c \in Client : \A t \in served[OwnRid(c)] :
    job[t] = c /\ (t \notin crossed => Opens(c, t))
=============================================================================
