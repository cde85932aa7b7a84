# A TLA+ model of AsynCS

AsynCS runs encrypted functions in SGX enclaves under OpenWhisk. A client encrypts its
function and its request; a key management service (KMS) in an enclave of its own
releases the keys to attested workers only; a worker decrypts and runs the function in
its enclave and encrypts the result for the client, who fetches it later. This directory
holds TLA+ modules of the parts that keep state, the TLC configurations that check them,
and TLAPS proofs of their main safety properties. `PROJECT.json` maps each definition to
the lines it models.

    tlc -workers 2 -config MCKmsEnclave.cfg MCKmsEnclave     # a run
    tlapm KmsEnclaveProofs.tla                               # a proof module

## 1. The system

| Part | Source | State | Operations |
|---|---|---|---|
| KMS enclave | `sgx_kms/Enclave/Enclave.cpp` | master secret, registry of policies and bound labels, one cached attestation | init, register policy, bind label, verify quote, reset verification, three key releases |
| KMS host | `sgx_kms/App/App.cpp` | `kms_data.sealed`, command line, listening and client sockets | start, one-shot export, accept, `handle_client` |
| Worker enclave | `sgx_worker/Enclave/Enclave.cpp` | key pair, dkf and FID, dklabel, BF-IBE keys, cached function code | create report, load keys (three ways), has key, clear cache, run (two ways) |
| Worker host | `sgx_worker/App/App.cpp` | one command at a time, a socket to the KMS | `run_server_loop`, `do_invoke`, `connect_to_kms`, `generate_quote` |
| Runtime adapter | `openwhisk_runtime/proxy.py` | worker process and its pipes, lock, request files | `/init`, `/run`, `/reset`, prestart |
| Result store | `openwhisk_extensions/invoker/confidential_invoker.py` | dictionary or CouchDB documents | put if absent, get |
| Controller extension | `openwhisk_extensions/controller/confidential_actions.py` | pending activations | `invoke_confidential_action` |
| Invoker extension | `openwhisk_extensions/invoker/confidential_invoker.py` | executions in progress | `receive_activation`, `store_result`, `fetch_result` |
| OpenWhisk integration | `third-party/openwhisk/asynccs-openwhisk.patch` | queue of an action, pending dispatches, pulls, target bindings, containers, results | enqueue, pull, dispatch, re-encrypt, recover, bind, drain, destroy, run, finalise |
| Client SDK | `client_sdk/sdk.py` | the key pair and nonce of a request | prepare an invocation, compute the RID, decrypt the result |
| Crypto library, BF-IBE module | `crypto_lib`, `trusted` | none, or one-time initialisation | encrypt, decrypt, extract |
| Workloads, scripts, test enclave, WAMR patch, mcl | | none of AsynCS's | |

How they interact. An invoker posts `/run` to the adapter, which writes the request into
five files and sends their names as one line to its worker; the worker answers in lines
between `BEGIN_RESPONSE` and `END_RESPONSE`. If the worker's enclave does not have the
keys of the FID (`ecall_has_key`) the worker creates a key pair and a quote, sends both
to the KMS over TCP, and loads the answer. The KMS verifies the quote, asks its enclave
for the keys, wrapped to the public key of the quote, and closes the connection. The
worker then runs the function, and the adapter returns the encrypted result, which the
invoker stores under the RID of the activation, once. Client, controller and invoker each
compute that RID from the FID and the encrypted request, and the client fetches the
result under the one it computed.

With target-bound activations (the OpenWhisk patch) a container registers a binding at a
Gateway before it serves. It pulls activations from the scheduler's queue; the scheduler
takes one out of the queue and has the Gateway re-encrypt its input, and its code if the
container has none, to the binding of the pull. What fails goes back to the head of the
queue. An activation whose run fails on the container's health is sent to the scheduler
again, as it was handed out. The result returns to the controller, which has the Gateway
re-encrypt it to the source. A container that is removed finishes its activations and
closes its binding first.

What is hard:

- *Order of calls.* The hosts are not trusted and call the ECALLs in any order; each
  release repeats the gates (policy, report data, label) and each load of keys replaces
  a part of what the enclave has, under the FID the host names.
- *Steps that fail half way.* A key batch whose second key cannot be decrypted, a
  private-key set with a bad record, a label key refused after dkf was written.
- *Concurrency.* HTTP threads around one worker and fixed file names, invokers around
  one result, KMS processes around one file, workers in the backlog of one server.
- *Processes that end.* A worker in the middle of a response or a request, a KMS between
  generating a secret and having written it, an invoker with results in memory.
- *Answers that are lost or late.* A CouchDB PUT carried out whose answer is lost, a KMS
  answer for an earlier key pair, a response left in a pipe. A PUT answered with another
  status, or whose sender is gone, may be carried out now, later or never.
- *Custody.* An activation that has left the queue for a dispatch races the time limit of
  the pull it is for, the cancellation of that pull, and the removal of the container; one
  that a container sends back passes through all of that again.
- *Limits.* 128 registry entries with four labels each, names cut to their field,
  descriptors, the listen backlog, connection attempts, and buffers of four programs that
  the same FID, label and key have to fit.

`PROJECT.json` lists each of these as a hazard at its line, with the properties that
would notice it going wrong.

What makes each part correct: the KMS enclave releases keys only to attested workers
that the policy of the FID admits, and label keys only under a FID they are bound to;
the KMS host never loses a secret in use, and answers whoever asks properly; the worker
enclave runs what was asked for, and answers the one who asked; the adapter gives each
request its own answer and leaves nothing behind; the result store keeps the first
result of an activation, and a client finds there a result of its own request only; what
the KMS has room to release the worker has room to load; the scheduler has every
activation in one place, and hands it to a container it was re-encrypted for.

## 2. The modules

| Module | What it is |
|---|---|
| `KeyReleasePolicy` | abstract: policies set once, labels, one session, grants |
| `KmsEnclave` | the KMS enclave; implements `KeyReleasePolicy` |
| `KmsServer` | the life of KMS processes around `kms_data.sealed` |
| `KeyExchange` | composition of the KMS's accept loop with the invocations of workers |
| `KeyRelease` | composition of KMS and worker by the bytes of the KMS's answer |
| `WorkerEnclave` | the worker enclave |
| `RuntimeProxy` | composition of the adapter's threads with the worker's server loop |
| `WriteOnceRegister` | abstract: a value per RID, written once |
| `ResultStore` | both result stores; implements `WriteOnceRegister` |
| `ConfidentialActions` | composition of clients, controller and invoker with `ResultStore` |
| `ProtectedEnvelope` | the envelopes of target-bound activations and their checks |
| `TargetBinding` | the life of a target-bound container |
| `ActivationDispatch` | the scheduler's queue with its pending dispatches and pulls |
| `ActivationCustody` | abstract: at most one party has an activation |
| `TargetBoundDispatch` | composition of the three with the containers' runs and the result; implements `ActivationCustody` |
| `KmsEnclaveProofs`, `KmsServerProofs`, `KeyExchangeProofs`, `KeyReleaseProofs`, `WorkerEnclaveProofs`, `RuntimeProxyProofs`, `ConfidentialActionsProofs`, `TargetBoundDispatchProofs` | theorems about the modules they extend (`ConfidentialActionsProofs` also about `ResultStore`, `TargetBoundDispatchProofs` also about the three modules below it) |
| `MC...` | instances for TLC of the modules they extend |

Each action is one ECALL (an enclave serves one call at a time), one step of a process
between two points at which another may act, or one event of the environment (a death, a
failed connection). Variables have the names of the globals they stand for; variables
marked *history* are kept only to state properties.

**KmsEnclave.** `registry` is `g_policy_registry` as a sequence, so that search order,
capacity and the entry found are the code's. `KeptFid` and `KeptLabel` are what `strncpy`
keeps of a name: a name too long for its field is a value they map to another one. `ra`
is the cached attestation. Keys are symbolic: a key is the pair of master secret and
identity it is derived from, and `grant` is what the last call wrote to its key buffers,
also when it failed after writing one (`ecall_derive_keys_batch`). A call that is refused
leaves everything as it was. The history `attested` remembers the quote last accepted
under each stored name, `policies` and `bindings` the registrations that returned 0.
`KeyReleasePolicy` says the same with a map, sets and a session; the refinement mapping
reads the map off the linear search.

**WorkerEnclave.** One action per ECALL. `worker`, `dklabel` and `bfibe` are the keys
loaded under either profile, each field set where the code sets it, so that a load that
fails half way is the state the code leaves. Packages and requests are the records of
what their associated data binds them to, and decryption succeeds when the key loaded is
the one they were encrypted for. The wrapped keys of the ECC-IBE profile do not say which
they are, so a load is any pair of released keys under any FID name the host gives
(`Loads`); the FID of a BF-IBE release is in its associated data. The parts of a call
(function, its key, request, its key) are chosen independently: the host reads each from a
file. A C_k_func or C_key is an envelope closed for one identity, and `DecKey` takes the
private key that this identity asks for: `BfibeDecKey` by the purpose in the envelope,
whether it was given as C_k_func or C_key, and `DecKeyFunc` with the label key received, or,
when none was, with one derived from the loaded key (the legacy branch, 1652 and 2074). The
cache is looked up by FID and C_func, as in `function_cache_lookup`. A load that fails keeps
the cache, as in the code: `CacheOwned` says that the FID of cached code is one
`ecall_has_key` still answers for, and that a hit never replaces the key of the request.
`FunctionKeyReleased` says that a released key opens one of the package's C_k_func,
whichever identity its maker chose; for a package whose C_k_func are closed for its label,
as the SDK closes them, that is the label key (`SdkPackageNeedsLabelKey`).

**RuntimeProxy.** A `/run` thread writes its files one at a time without the lock, takes
the lock, starts, replaces or reuses the worker, sends the command, reads lines until
`END_RESPONSE` and removes its files. The worker reads the files when it works on the
command, so what it computes is what the files hold then. Pipes are sequences; the worker
may die at any time, and a `readline` may raise an exception. A start has three outcomes:
a ready worker; none, or one that ended; and one that the thread gives up on, after 200
lines or one that cannot be decoded, and that stays alive with startup output unread, to be
taken for a ready one by the next thread. The requests are for the
container's one function; `/init` comes before.

**ResultStore.** Threads of one or several invokers call `put_if_absent` and `get`.
HEAD, PUT and GET are separate steps, and so are the database's handling of a PUT
(`PutDoc`) and the thread's of its answer (`PutAnswered`): 201, 409, or another status,
which raises an exception whether or not the document was stored. A PUT that nobody waits
for any more is in `late`, and the database may carry it out at any time (`LatePut`).
`ConnectionError` at any of the steps moves the call to the dictionary. `Restart` ends all
calls, those between a PUT and its answer too, and empties the dictionary. `cut` is the
history of RIDs for which a connection failed or the mock was emptied; `WriteOnceRegister`
promises nothing of these. Of the others it promises that a value stays, and that a put
whose value was stored is accepted once or not at all (`owed`), never rejected for itself.

**KmsServer.** Each `Proc` goes through `main`: parse, read the file, `ecall_init_kms`,
bind labels, save (truncation and write are two steps), then publish and end, or serve.
A secret is its number in the order of generation. `trouble` is set by the events after
which nothing can be promised: two processes that generate at once, a seal that fails, an
unseal that fails on a whole file, a file that cannot be opened or written, an end
between truncation and write.

**KeyExchange.** The server's steps are those of `accept` and of `handle_client`: a read
of each field with the check of its length, the verification, the release, and for each
way out whether the socket is closed (`Close`) or not (`Leave`). A worker's steps are
those of `do_invoke`: the check of the enclave's keys, `generate_quote`, which ends the
process when it fails, the connection with its attempts, the fields, the answer until the
server closes, and the run. Sockets close when their process ends. Which checks the
answer rests on is left to `KmsEnclave`, and what an invocation computes to
`WorkerEnclave`: here each may fail or not.

**KeyRelease.** The same exchange, one request at a time, by its sizes. A FID or label is
the length of its string, so the cut of a FID is another FID of the model. The KMS makes
two wrapped keys, a BF-IBE release or an error message; the connection delivers any
beginning of it; `connect_to_kms` tells from length and header what to load; the enclave
loads it into fields of its own. The lengths of sets, releases and associated data are
sums of the parts the code appends, against the sizes of the arrays they are built in.

**ConfidentialActions.** Extends `ResultStore`: the store's threads are the executions of
the invoker and the fetches of clients. A client publishes its request, which the
controller may be made to publish again; the invoker receives an activation, computes its
RID, runs it in the adapter and calls `put_if_absent`. Two executions that share the
adapter may get each other's result, and so may one that finds the adapter not done with
an earlier one (`left`: a response in the worker's pipe, or an execution that the invoker
lost in a restart, while the adapter works on). `crossed` has both kinds; it is what
`RuntimeProxy` allows of calls that overlap or read what another left. Restarts and failed
connections are the store's.

**ProtectedEnvelope** has no variables: the header of an envelope, its checks at the
scheduler, the container and the controller, and the Gateway's answer to a re-encryption,
right or wrong: of another correlation, binding, direction or kind, or none. A value that a
check refuses is `Failed`.

**TargetBinding.** A container gets an endpoint at the bridge, registers its target at the
Gateway until a deadline, is activated, and serves. Its removal waits until its client
has no activation left, resumes it if it is paused, closes the target, gives the endpoint
back and destroys the container. Each of these calls may fail before it takes effect, or
with only its answer lost. A failure in a removal is reported (`unhealthy`); a failure of
`awaitReady`, and of its own cleanup, is only logged (`unready`), so `NothingLeftInSilence`
is about containers that were ready.

**ActivationDispatch.** `queue` is the memory queue; `pending` the dispatches begun by
`beginActivationDispatch`, each for a pull; a dispatch goes through `prepare` and the
re-encryption and ends in `completeActivationDispatch`, which answers the pull or returns
the activation to the head of the queue. `ask` is the pull as its sender sees it, `poll`
the queue's timer for it, with the `CancelPoll` message that may be on its way. A message
arrives from a client (`NewArrives`) or again (`Rearrives`), with the content its container
was handed, which is no protected input and which each dispatch refuses. Lost activations
are those whose answer nobody heard.

**TargetBoundDispatch.** Adds what containers do with what they are handed
(`RunActivation`, with the check of its preconditions; `HealthError`, after which the
activation is on its way back to the scheduler, and `Rescheduled`, which takes or refuses
it), and `finalizeResult`. `ActivationCustody` says of the whole that an activation is with
one of six custodians (client, queue, a dispatch, a pull, a container, the reschedule
request) or with none, what moves are possible between these, that it is the answer to one
pull at most, also after it was sent back, and that what was lost or whose run ended does
not come back.

## 3. The runs

| Run | Asks | Bounds |
|---|---|---|
| `kms_enclave` | types, the three release properties, that labels are bound and registered policies and bindings hold, and refinement of `KeyReleasePolicy` | three FIDs (one ordinary, one cut down to it, `default_fid`), two labels (one cut down to the other), two measurements, two public keys, a registry of two entries with one label each |
| `kms_write_once` | *violated:* `PolicyWriteOnce` for every FID a caller may name | the same |
| `worker_enclave` | types, `RunsAsRequested`, `ResultForSender`, `CacheOwned`, `FunctionKeyReleased` | two FIDs, three packages (two of one FID, one of them unbound; two with the same code), four requests (one without payload), five C_k_func (for a label under both profiles, for a FID, for a locally derived key), five C_key, any released keys under any FID name, two key pairs |
| `worker_has_key` | *violated:* `HasKeyTruthful` | the same, with a host that names each key's own FID |
| `result_store` | types, `OneResult`, `RejectedForAResult`, `FetchedIsOwn`, refinement of `WriteOnceRegister` | `ConfidentialActions`: two clients of one function, two executions |
| `result_store_couchdb` | *violated:* `CouchDBWriteOnce` | two threads, one RID |
| `runtime_proxy` | types, `WorkerIdle`, `FilesRemoved`, `OwnAnswer`, and that each call is answered | three calls, two of them at once, two profiles, three of the files, one failed read |
| `kms_server` | types, `SecretKept` | three processes, three secrets, one label |
| `key_exchange` | types, `DescriptorsAccountedFor`, `InvocationEnds` | two workers, two descriptors, a backlog of one, two attempts |
| `key_release` | types, `LoadedWhole`, `ReleasedIsLoaded` | FIDs of 1, 54, 55, 64, 127 and 128 characters, labels of 63, 64 and 65, keys of 96 bytes |
| `key_release_digest` | *violated:* `BoundIsReleased` | a FID of 64 characters |
| `target_bound_dispatch` | types, `RunsOwnInput`, `ServesWhileBound`, `OwnResult`, `LostOnlyUnanswered`, `WaitsOnlyBesideReturned`, `QueueInOrder`, `NothingLeftInSilence`, refinement of `ActivationCustody`, and that dispatches and removals come to an end | two containers with three pulls, two activations of which one is malformed, three targets, one mishap in all: a call that fails, a run that fails on the container's health, or a timer that goes off |

Why the bounds are enough. *KMS enclave:* each entry is treated alike and the properties
speak of one FID at a time and of one that interferes; two entries make the registry
overflow and let a truncated name collide, one label fills an entry. *Worker enclave:* a
stale key or cache entry is one of the other FID or of the other package of the same FID;
a second key pair makes the first stale; one package with every kind of C_k_func beside
one with a label key's only tells the branches of `DecKey` apart. *Results:* two requests
of one function differ in nothing but what RIDs are computed from; two executions make a
duplicate of one race with the other, or two duplicates with each other. *Runtime
adapter:* threads interact in pairs, over the lock and over the files; the third call sees
what two that overlapped left in a file or a pipe; the files are the first one written,
the one that stays and the last. *KMS processes:* one generates, one races it, one comes
later. *Key exchange:* one worker uses the descriptors up under the other's request. *Key
release:* one length on each side of every limit of the four programs, and the SDK's own.
*Dispatch:* one container is removed or fails while the other takes over what it gave
back; a container with two pulls makes an answer late for one of them; a third target is
that of a container that binds again; with one mishap a dispatch, a recovery or a removal
fails at each of its steps in turn, and what a container sends back is dispatched, refused
and returned once more. That every dispatch and removal ends is checked for one mishap in
a behaviour only; the invariants and the refinement are proved for any number of each
kind. Where the proofs reach (section 4) the bounds do not matter.

Symmetry is used where only invariants and step properties are checked and the values are
interchangeable: measurements and public keys, clients, executions, threads, processes.
Runs with liveness use none. `CHECK_DEADLOCK FALSE` is in `runtime_proxy` and
`target_bound_dispatch`, whose calls and activations come to an end; in the others some
step is always possible.

**Fairness.** `RuntimeProxy`: a thread goes on with its request, and the worker with its
command or ends; both run unless stopped, and neither waits for anybody but the other.
That the worker's enclave returns from a call is an assumption: the code has no timeout.
`KeyExchange`: a server that runs goes on, a worker in `do_invoke` goes on or dies, and
the functions it runs end. `TargetBoundDispatch`: some step of dispatches, containers and
removals is taken while one is possible; calls to the Gateway, the bridge and the database
have time limits, an activation has its own, and actors handle what is in their
mailboxes. There is no fairness for calls, pulls, deaths, restarts or failures. A worker
that stops in the middle of its request without dying would hold the KMS for ever; that,
too, is for want of a timeout.

**What the violations show** (`findings` in `PROJECT.json`):

- `kms_write_once`: a FID of 128 bytes or more is stored cut and never found again, so
  two registrations for it both return 0 and neither policy is enforced, where
  `Enclave.cpp:48` says a policy is write-once.
- `worker_has_key`: a batch that fails after its first key, or a BF-IBE import that
  fails, leaves the old FID without its keys while `ecall_has_key` still says they are
  present; the host then no longer asks the KMS.
- `result_store_couchdb`: after a connection that fails, two writers of one RID may both
  be told that they stored their result.
- `key_release_digest`: a BF-IBE release for a FID of more than 54 characters does not
  fit the 256 bytes of its associated data, so a verified worker with a bound label is
  refused; the SDK's FIDs have 64 characters.

Some things the runs had to allow for are no findings, because the repository says
nothing else of them. `handle_client` returns without closing the socket of a request
whose length it refuses, so such a worker waits until the server ends, and
`InvocationEnds` leaves it out. An activation that failed in its dispatch is back in the
queue and offered to the next pull, but not to those that already wait
(`WaitsOnlyBesideReturned`). An answer whose ask has timed out takes its activation along
(`LostOnlyUnanswered` bounds how many). What a failed `awaitReady` leaves at the bridge or
the Gateway is only logged (`NothingLeftInSilence` leaves it out). A request without payload
is not authenticated (`RunsAsRequested`, `ResultForSender` and `CacheOwned` leave it out).

## 4. What is proved

For every value of the constants allowed by the named assumptions of each module
(`KmsAssumption`, `WorkerAssumption`, `StoreAssumption`, `ActionsAssumption`,
`KmsServerAssumption`, `KeyExchangeAssumption`, `KeyReleaseAssumption`, `ProxyAssumption`,
`NoneIsNoValue`, `NoneIsNoMessage`, `DispatchConstants`, `BindingBounds`,
`PullsOfContainers`). They say that the special values differ from the others, that
truncation is idempotent, that bounds and lengths are numbers, that the store's threads
are the executions and the clients, that the adapter has files besides the function key,
that an absent `Option` is none of its values, that finitely many containers are warmed
at first and the Gateway gave each a target, that activations and the code have
correlations, and that a pull is one of a container.

| Module | Theorems | Inductive invariant |
|---|---|---|
| `KmsEnclaveProofs` | `TypeOK`, `ReleaseAttested`, `ReleaseToAttestedKey`, `PolicyEnforced` | stored names are ones `strncpy` produced, the search finds a first entry, the cached attestation is the one last accepted under its name, the last grant satisfies the gates |
| the same | `LabelKeyBound`, `BindingsHold`, and that `KmsEnclave` implements `KeyReleasePolicy` | in addition: every label the search finds under a FID stems from a registration whose names `strncpy` cuts to these |
| `WorkerEnclaveProofs` | `TypeOK`, `RunsAsRequested`, `ResultForSender`, `CacheOwned`, `FunctionKeyReleased`, `SdkPackageNeedsLabelKey` | cached code is the code of its C_func under the FID of its package, a FID `ecall_has_key` answers for, and a key that opens one of its C_k_func was received; every loaded key was received |
| `ConfidentialActionsProofs` | `TypeOK`, `OneResult`, `RejectedForAResult`, and that `ResultStore` implements `WriteOnceRegister` | the mock never leaves the dictionary and CouchDB reaches it only when cut off; whatever was accepted or read of a RID not cut off, and whatever was stored and awaits its answer, is what the store holds now |
| the same | `SystemTypeOK`, `FetchedIsOwn`, and that every behaviour of the composition is one of `ResultStore` | what is stored or was fetched under a RID is the result of an execution of a request with that RID; executions only put, clients only get; what ran without sharing the adapter was sealed for its own request |
| `KmsServerProofs` | `TypeOK`, `SecretKept` | without trouble: while no secret is on disk one process at most generates and the others have not begun; once there is one everybody has it |
| `KeyExchangeProofs` | `TypeOK`, `DescriptorsAccountedFor` | a worker has one connection at most, and stays with it until the server closes it or it dies; every socket that was left open, or will be when the server gets to it, is one a worker spoiled, and none is counted twice |
| `KeyReleaseProofs` | `ReleaseFitsWorker`, `NoReleaseForDigests`, `TypeOK`, `LoadedWhole`, `ReleasedIsLoaded` | an answer is one the KMS makes for the request under way, so its length says which; what is loaded was released, hence fits |
| `RuntimeProxyProofs` | `TypeOK`, `WorkerIdle`, `FilesRemoved`, `OwnAnswer` | who is between start and response holds the lock; each file has a writer that will remove it; at most one command is in the pipes, the holder's, with nothing before it but startup output, and its "end" is the last line |
| `TargetBoundDispatchProofs` | `TypeOK`, `RunsOwnInput`, `ServesWhileBound`, `OwnResult`, `LostOnlyUnanswered`, `WaitsOnlyBesideReturned`, `QueueInOrder`, `NothingLeftInSilence`, and that the queue implements `ActivationCustody` | see below |

Each proof has the same shape: `Init => IInv`, a lemma for each action, `IInv =>` the
property, and PTL. Why a strengthening is needed: `ReleaseAttested` is about the last
grant and says nothing of the cache the next one rests on; `RunsAsRequested` is about the
last result and says nothing of the cached code that the next call runs; `OneResult`
compares past answers and has to know that they are the current content; `FetchedIsOwn`
is about what was fetched and rests on what is still to be written; `SecretKept` is about
processes that run and has to know what those that do not run yet will find; `OwnAnswer`
is about answers, and nothing in an answer says whose it is, so the invariant has to
follow a command through both pipes.

The invariant of `TargetBoundDispatch` has a part for each of the modules it is composed
of, and one that ties them together:

- *bindings* (`Bindings`): a container has its endpoint from `Bind` to `Unbind` and its
  target from `Register` to `CloseTarget`; any other ACTIVE target it registered is one
  whose answer was lost.
- *queue* (`QueueInv`): a dispatch has its activation and its pull to itself, and its pull
  is one the queue cannot serve again; its caller waits or has given up; where the promise
  of a pull in dispatch is completed already, a `CancelPoll` did it. What is dispatched
  arrived before what is queued, unless that came back.
- *losses* (`LossInv`): `LostOnlyUnanswered` compares two numbers, and the pulls counted
  include some that may still be given an activation. The invariant counts the others
  (`Spent`), each of which has had its one chance: a loss adds a pull to them, and no step
  takes one away.
- *contents* (`Contents`): at each step of the dispatcher, what it has is re-encrypted for
  the request of its pull, whatever the Gateway answered before.
- *containers* (`Proxies`): `Contents` speaks of what a container asked for, and
  `RunsOwnInput` of what it is when it runs. They agree because a container has one pull
  out at a time, only while it serves, and a container without code has one pull or one
  activation, so that nothing it asked for as a cold one arrives when it is warm.
- *results* (`Results`): what was reported of an activation carries its correlation.

- *what was sent back* (`Resends`): what a container runs, and what it sent back, was
  answered to one of its pulls and heard; what was sent back runs nowhere. With `Contents`,
  by which no dispatch of it gets past `prepare`, this excludes a second answer and a second
  run.

Each step of the queue, the dispatcher or a caller is a `Passage`: nobody's activation
moves, or one goes one way. From that both the losses and the refinement of
`ActivationCustody` follow without looking at the actions again; that an activation has
one custodian is a lemma of its own (`SoleCustodian`).

Because the composition is proved to be a behaviour of the store, the store's theorems
hold of it. The `result_store` run therefore checks them on the composition only.
`ReleaseFitsWorker` is arithmetic: the sums of the lengths on the worker's side stay
within its buffers whenever those of the KMS do.

Every invariant and every refinement that a passing run checks is proved. Model-checked
only are the liveness properties (`InvocationEnds` of `KeyExchange`, `EventuallyAnswered`
of `RuntimeProxy`, `EventuallyOver` of `TargetBoundDispatch`), which are out of the
prover's reach.

## 5. What is not modelled

*Everywhere.* Cryptography (keys, ciphertexts and quotes are names of what they stand
for), timing measurements, formatting and logging. The DCAP libraries and the MRENCLAVE
allow list of the KMS host appear as verifications that may fail. Memory exhaustion,
except where it is one of the ways a call may fail.

*Without state of AsynCS.* WAMR and the WASI natives: the result is named by the code and
the request it was computed from. The crypto libraries, the workloads and the scripts.
The deployment half of the SDK, receipts and activation ids, the decoding of messages.
More than half of the repository's lines are the vendored headers of mcl and cybozu.

*Worker host.* The plain-WASM commands and the one-shot modes, which touch none of the
state above. (`run_wasm` writes an input to a pipe before anyone reads it, so an input
larger than the pipe blocks it: `sgx_worker/App/App.cpp:1368`.) *Runtime adapter:* `/init`,
one write before the first call. *KeyRelease:* names with white space or line breaks,
which the adapter's command line would split.

*OpenWhisk patch.* Pulls without a target, for which the queue does what it did before;
the removal of a container's pulls from the request buffer while one is out
(`removeDeletedContainerFromRequestBuffer`); message metadata, the window of backend
pressure, timing events, and the Kafka path of the confidential invoker. Of what is
upstream's: the state timeout of `when(Removing, unusedTimeout)` (line 3317 of the patch);
several pulls out at a time for one container, which `maxConcurrent` above 1 allows (3597,
3653): the model has one out at a time and several activations running, and the proof of
`RunsOwnInput` rests on that; and a reschedule request that was taken while its answer is
lost, so that the activation is also reported as failed. That a run which failed on the
container's health had not begun is upstream's to ensure; the model takes it for granted.

*Seen and not made a run.* The label key the worker received survives the load of the
function, where `Enclave.edl:167` says it should be destroyed immediately:
`ecall_zeroize_label_key` wipes the copy used for the load, and `g_worker_dklabel`, from
which the next cold load takes it again (`Enclave.cpp:1648-1651`, 2071-2073), stays. The
model has it stay. `FunctionKeyReleased` holds all the same, because the key was released
to this enclave before. `ecall_init_kms` does not look at what `sgx_read_rand`
returns. An activation that a container sends back is refused by each later dispatch and
ends each container that pulls it, like one that was malformed from the start; the code
has no way out of that, and no line promises one.

## 6. Plan

Done: the KMS enclave with its policy, the worker enclave, the result store and its
clients, the adapter, KMS processes, the key exchange, the sizes of a release and
target-bound dispatch, all with proofs. What would come next:

1. `FunctionRun`: the inner steps of the run ECALLs, with the WASI natives that read the
   input and write the output, and the ways out of them.
2. `KeyAvailability`: KMS enclave, KMS processes and worker enclave together: a request
   encrypted under a published key is opened by every later worker that the KMS admits.
3. `TargetBoundDispatch` with the request buffer's removals and several pulls out for one
   container.
