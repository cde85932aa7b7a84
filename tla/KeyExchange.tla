----------------------------- MODULE KeyExchange -----------------------------
(***************************************************************************)
(* The invocations of worker processes and their key requests to the KMS:  *)
(* main's accept loop and handle_client in sgx_kms/App/App.cpp, do_invoke, *)
(* generate_quote and connect_to_kms in sgx_worker/App/App.cpp, and the    *)
(* connections between them.                                               *)
(*                                                                         *)
(* The server handles one connection at a time.  It reads the fields of a  *)
(* request in order, checks their lengths as they come, and answers.  A    *)
(* worker sends its fields and then reads until the server closes.  Either *)
(* side may end at any point, and be started again.  What a connection     *)
(* that handle_client leaves open does to both sides is the point of this  *)
(* module; the checks behind the answer are KmsEnclave's, and what the     *)
(* enclave makes of an invocation is WorkerEnclave's.  The invocations of  *)
(* a worker are for one FID; a process that serves one invocation and ends *)
(* (--invoke) is a worker that dies after it.  The server's malloc does    *)
(* not fail, and the KMS's name resolves.                                  *)
(***************************************************************************)
EXTENDS Naturals, Sequences, FiniteSets

CONSTANTS
  Worker,
  Nobody,
  Backlog,   \* kms_listen_backlog()
  MaxFds,    \* the connections for which the server has descriptors
  Attempts,  \* kms_connect_attempts()
  Misfit     \* the fields of which a worker may be given one that does not fit

ASSUME KeyExchangeAssumption ==
  /\ Nobody \notin Worker
  /\ Backlog \in Nat \ {0}
  /\ MaxFds \in Nat \ {0}
  /\ Attempts \in Nat \ {0}
  \* They come from its command line and environment.
  /\ Misfit \subseteq {"fid", "label", "crypto_profile"}

\* What a request consists of, in the order of the stream.
Field == <<"quote", "fid", "label", "public_key", "crypto_profile">>

VARIABLES
  server,    \* "down", or what the server is about: "accept", "read", "verify", "release"
  client,    \* the worker at the other end of client_socket
  received,  \* how many fields handle_client has read
  backlog,   \* the connections not accepted yet
  leaked,    \* the descriptors handle_client returned without closing
  step,      \* step[w]: "idle", where do_invoke is, or "dead"
  keys,      \* keys[w]: ecall_has_key answers 1
  attempt,   \* attempt[w]: the attempts to connect that failed
  misfit,    \* misfit[w]: the field of w's request that has a bad length, or "none"
  sent,      \* sent[w]: how many fields w has sent
  link,      \* link[w]: w's socket: "none", "open", or closed by the server: "closed",
             \* or "keys" when the keys were sent before
  spoiled    \* history: the connections, since the server started, of a request with
             \* a bad length or of a worker that died before its request was sent;
             \* counted up to MaxFds, more than which the server cannot leak

onServer == <<server, client, received, backlog, leaked>>
onWorker == <<step, keys, attempt, misfit, sent, link>>
vars == <<onServer, onWorker, spoiled>>

TypeOK ==
  /\ server \in {"down", "accept", "read", "verify", "release"}
  /\ client \in Worker \cup {Nobody}
  /\ (client = Nobody) <=> (server \in {"down", "accept"})
  /\ received \in 0 .. Len(Field)
  /\ server \in {"verify", "release"} => received = Len(Field)
  /\ backlog \in Seq(Worker) /\ Len(backlog) <= Backlog
  /\ leaked \in 0 .. MaxFds
  /\ step \in [Worker -> {"idle", "quote", "connect", "send", "wait", "run", "dead"}]
  /\ keys \in [Worker -> BOOLEAN]
  /\ attempt \in [Worker -> 0 .. Attempts - 1]
  /\ misfit \in [Worker -> Misfit \cup {"none"}]
  /\ sent \in [Worker -> 0 .. Len(Field)]
  /\ link \in [Worker -> {"none", "open", "closed", "keys"}]
  /\ \A w \in Worker : step[w] = "wait" => sent[w] = Len(Field)
  /\ spoiled \in 0 .. MaxFds

Init ==
  /\ server = "down"
  /\ client = Nobody
  /\ received = 0
  /\ backlog = <<>>
  /\ leaked = 0
  /\ step = [w \in Worker |-> "idle"]
  /\ keys = [w \in Worker |-> FALSE]
  /\ attempt = [w \in Worker |-> 0]
  /\ misfit = [w \in Worker |-> "none"]
  /\ sent = [w \in Worker |-> 0]
  /\ link = [w \in Worker |-> "none"]
  /\ spoiled = 0

-----------------------------------------------------------------------------
(* The server. *)

\* The server listens, with a fresh process's descriptors.
Start ==
  /\ server = "down"
  /\ server' = "accept"
  /\ spoiled' = 0
  /\ UNCHANGED <<client, received, backlog, leaked, onWorker>>

\* The kernel closes what the process had open, connections not accepted included.
Exit ==
  /\ server' = "down"
  /\ client' = Nobody
  /\ received' = 0
  /\ backlog' = <<>>
  /\ leaked' = 0
  /\ link' = [w \in Worker |-> IF link[w] = "open" THEN "closed" ELSE link[w]]
  /\ UNCHANGED <<step, keys, attempt, misfit, sent, spoiled>>

\* The server is killed.
Crash == server # "down" /\ Exit

accept ==
  /\ server = "accept"
  /\ leaked < MaxFds
  /\ backlog # <<>>
  /\ server' = "read"
  /\ client' = Head(backlog)
  /\ received' = 0
  /\ backlog' = Tail(backlog)
  /\ UNCHANGED <<leaked, onWorker, spoiled>>

\* Without a descriptor accept fails at once, and main exits.
AcceptFails == server = "accept" /\ leaked = MaxFds /\ Exit

\* handle_client returns and main accepts again.
Return ==
  /\ server' = "accept"
  /\ client' = Nobody
  /\ received' = 0
  /\ UNCHANGED <<backlog, step, keys, attempt, misfit, sent, spoiled>>

\* The early returns do not close client_socket.
Leave ==
  /\ leaked' = leaked + 1
  /\ UNCHANGED link

\* A return that forgets the socket.
KeepOpen(answer) == Leave

\* close(client_socket): the worker reads end of file after the answer.
Close(answer) ==
  /\ link' = [link EXCEPT ![client] = IF @ = "open" THEN answer ELSE @]
  /\ UNCHANGED leaked

ReadField ==
  /\ server = "read"
  /\ received < sent[client]
  /\ IF misfit[client] = Field[received + 1]
       THEN Return /\ Leave
       ELSE /\ received' = received + 1
            /\ server' = IF received' = Len(Field) THEN "verify" ELSE "read"
            /\ UNCHANGED <<client, backlog, leaked, onWorker, spoiled>>

\* read_exact fails on the connection of a worker that is gone.
ReadFails ==
  /\ server = "read"
  /\ received = sent[client]
  /\ step[client] = "dead"
  /\ Return /\ Leave

\* DCAP_VERIFY_FAILED and POLICY_DENIED fall through to the end of handle_client;
\* ENCLAVE_VERIFY_FAILED has a return of its own.
VerifyFailed == Close("closed")

Verify ==
  /\ server = "verify"
  /\ \/ VerifyFailed /\ Return
     \/ server' = "release" /\ UNCHANGED <<client, received, backlog, leaked, onWorker, spoiled>>

\* The keys of the profile, KEY_GEN_ERROR, BFIBE_KEY_RELEASE_ERROR or
\* UNSUPPORTED_CRYPTO_PROFILE: the answer differs, what becomes of the socket does not.
Release == server = "release" /\ (Close("keys") \/ Close("closed")) /\ Return

-----------------------------------------------------------------------------
(* The workers. *)

\* The connection of w still is with the server: not accepted, or in handle_client.
AtServer(w) == client = w \/ \E i \in DOMAIN backlog : backlog[i] = w

Spoil == spoiled' = IF spoiled < MaxFds THEN spoiled + 1 ELSE spoiled

Goto(w, s) == step' = [step EXCEPT ![w] = s]

\* With the keys of its FID loaded the worker does not ask the KMS.
do_invoke(w) ==
  /\ step[w] = "idle"
  /\ \/ keys[w] /\ Goto(w, "run") /\ UNCHANGED misfit
     \/ /\ ~keys[w]
        /\ Goto(w, "quote")
        /\ \E f \in Misfit \cup {"none"} : misfit' = [misfit EXCEPT ![w] = f]
  /\ UNCHANGED <<onServer, keys, attempt, sent, link, spoiled>>

\* A quote, or a dummy where that is allowed; without a report or a quote do_invoke goes
\* on as it does after an exchange.
generate_quote(w) ==
  /\ step[w] = "quote"
  /\ \/ Goto(w, "connect") /\ UNCHANGED misfit
     \/ Goto(w, "run") /\ misfit' = [misfit EXCEPT ![w] = "none"]
  /\ UNCHANGED <<onServer, keys, attempt, sent, link, spoiled>>

\* The kernel completes the connection, whatever the server is doing.
Connect(w) ==
  /\ step[w] = "connect"
  /\ server # "down"
  /\ Len(backlog) < Backlog
  /\ backlog' = Append(backlog, w)
  /\ step' = [step EXCEPT ![w] = "send"]
  /\ attempt' = [attempt EXCEPT ![w] = 0]
  /\ link' = [link EXCEPT ![w] = "open"]
  /\ IF misfit[w] = "none" THEN UNCHANGED spoiled ELSE Spoil
  /\ UNCHANGED <<server, client, received, leaked, keys, misfit, sent>>

\* The socket is closed and connect_to_kms returns: whatever came of it, do_invoke goes
\* on to the run.
Leaves(w) ==
  /\ Goto(w, "run")
  /\ misfit' = [misfit EXCEPT ![w] = "none"]
  /\ sent' = [sent EXCEPT ![w] = 0]
  /\ link' = [link EXCEPT ![w] = "none"]

\* One attempt more than there are.
TriesOnceMore(w) == attempt[w] + 1 <= Attempts

TriesAgain(w) == attempt[w] + 1 < Attempts

\* Connection refused, or timed out with the backlog full.
ConnectFails(w) ==
  /\ step[w] = "connect"
  /\ server = "down" \/ Len(backlog) = Backlog
  /\ IF TriesAgain(w)
       THEN /\ attempt' = [attempt EXCEPT ![w] = @ + 1]
            /\ UNCHANGED <<step, misfit, sent, link>>
       ELSE /\ attempt' = [attempt EXCEPT ![w] = 0]
            /\ Leaves(w)
  /\ UNCHANGED <<onServer, keys, spoiled>>

\* What is sent to a socket the other side closed may still go unnoticed.
Send(w) ==
  /\ step[w] = "send"
  /\ sent' = [sent EXCEPT ![w] = @ + 1]
  /\ Goto(w, IF sent'[w] = Len(Field) THEN "wait" ELSE "send")
  /\ UNCHANGED <<onServer, keys, attempt, misfit, link, spoiled>>

SendFails(w) ==
  /\ step[w] = "send"
  /\ link[w] = "closed"
  /\ Leaves(w)
  /\ UNCHANGED <<onServer, keys, attempt, spoiled>>

\* The enclave opens the keys of an answer, or fails to; an error leaves it as it was.
LoadKeys(w) ==
  \/ UNCHANGED keys
  \/ link[w] = "keys" /\ keys' = [keys EXCEPT ![w] = TRUE]

\* read_kms_response reads on until end of file, or an error.  An answer that fills its
\* buffer is followed by the end of file at once.
read_kms_response(w) ==
  /\ step[w] = "wait"
  /\ link[w] \in {"closed", "keys"}
  /\ Leaves(w)
  /\ LoadKeys(w)
  /\ UNCHANGED <<onServer, attempt, spoiled>>

\* The files are read, the ECALL returns, and the return code is printed: without the
\* keys it is an error.
Run(w) ==
  /\ step[w] = "run"
  /\ Goto(w, "idle")
  /\ UNCHANGED <<onServer, keys, attempt, misfit, sent, link, spoiled>>

\* A worker dies: it is stopped, writes to a closed socket, or exits because it cannot
\* attest.
Die(w) ==
  /\ step[w] # "dead"
  /\ Goto(w, "dead")
  /\ keys' = [keys EXCEPT ![w] = FALSE]
  /\ attempt' = [attempt EXCEPT ![w] = 0]
  /\ link' = [link EXCEPT ![w] = "none"]
  /\ IF step[w] = "send" /\ AtServer(w) /\ misfit[w] = "none"
       THEN Spoil
       ELSE UNCHANGED spoiled
  /\ UNCHANGED <<onServer, misfit, sent>>

\* Another process takes its place.  (It need not wait for the server to have dealt
\* with the connection; that only keeps one connection a worker.)
Restart(w) ==
  /\ step[w] = "dead"
  /\ ~AtServer(w)
  /\ Goto(w, "idle")
  /\ misfit' = [misfit EXCEPT ![w] = "none"]
  /\ sent' = [sent EXCEPT ![w] = 0]
  /\ UNCHANGED <<onServer, keys, attempt, link, spoiled>>

-----------------------------------------------------------------------------
Serve == accept \/ AcceptFails \/ ReadField \/ ReadFails \/ Verify \/ Release

Proceed(w) ==
  \/ generate_quote(w)
  \/ Connect(w)
  \/ ConnectFails(w)
  \/ Send(w)
  \/ SendFails(w)
  \/ read_kms_response(w)
  \/ Run(w)

Next ==
  \/ Start
  \/ Crash
  \/ accept
  \/ AcceptFails
  \/ ReadField
  \/ ReadFails
  \/ Verify
  \/ Release
  \/ \E w \in Worker :
       \/ do_invoke(w)
       \/ generate_quote(w)
       \/ Connect(w)
       \/ ConnectFails(w)
       \/ Send(w)
       \/ SendFails(w)
       \/ read_kms_response(w)
       \/ Run(w)
       \/ Die(w)
       \/ Restart(w)

\* A server that runs keeps running, and a worker in do_invoke does: neither waits for
\* anything but the other, and the functions it runs end.  Nobody need start a server,
\* invoke or die.
Fairness == WF_vars(Serve) /\ \A w \in Worker : WF_vars(Proceed(w))

Spec == Init /\ [][Next]_vars /\ Fairness

-----------------------------------------------------------------------------
(* Properties. *)

\* The server runs out of descriptors only by connections whose worker sent a length
\* the server does not take or died in the middle of its request: no answer, good or
\* bad, costs a descriptor, and no worker that dies while it waits for one.
DescriptorsAccountedFor == leaked <= spoiled

\* An invocation whose request has the right lengths ends with a return code, with keys
\* or without, whatever other workers send and whoever dies: also when the worker is
\* refused, when a server that had run out of descriptors exits under it, and when it
\* waits behind another worker.
InvocationEnds ==
  \A w \in Worker :
    (step[w] \notin {"idle", "dead"} /\ misfit[w] = "none") ~> (step[w] \in {"idle", "dead"})
=============================================================================
