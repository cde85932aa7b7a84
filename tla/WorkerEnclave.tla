---------------------------- MODULE WorkerEnclave ----------------------------
(***************************************************************************)
(* The enclave of the worker (sgx_worker/Enclave/Enclave.cpp): the ECDH    *)
(* key pair it is attested with, the capabilities it received from the KMS *)
(* under either profile, the one-entry cache of decrypted function code,   *)
(* and the ECALLs that load keys and run functions.  The host serves one   *)
(* request at a time, so each ECALL is one action.                         *)
(*                                                                         *)
(* Cryptography is symbolic.  A C_func is the record of the FID in its     *)
(* associated data and the code it hides; it stands for its own label,     *)
(* H(C_func).  A request is the record of the FID and the sender (nonce    *)
(* and pkU) in its associated data, and of whether its payload is empty;   *)
(* it stands for C_req.  A key of the KMS is named by the identity it is   *)
(* for: a dkf or request key by its FID, a label key by its label.  The    *)
(* wrapped answers of the ECC-IBE profile say neither which key they hold  *)
(* nor for which FID: the FID is the host's word.  A C_k_func or C_key is  *)
(* an envelope with the key of a function or request, closed for one       *)
(* identity; whoever made it chose that identity.  The parts of a call     *)
(* need not come from the same request: the host reads each from a file of *)
(* its own.                                                                *)
(***************************************************************************)
EXTENDS Naturals

CONSTANTS
  FID,
  Code,        \* plaintext functions
  Sender,      \* the (nonce, pkU) of a request
  NoSender,    \* the zero nonce and pkU of the invocation without KEM
  Func,        \* the packages in circulation
  Request,     \* the requests in circulation
  FuncKey,     \* the C_k_func in circulation
  ReqKey,      \* the C_key in circulation
  Bound,       \* the <<FID, label>> the KMS has bound
  Loads,       \* keys and the FID the host names for them, in one load
  MaxReports,  \* bound on the reports (hence key pairs) created
  None

Profile == {"eccibe", "bfibe"}
Identity == FID \cup Func

\* What the KMS hands out: keys of the FIDs and labels it has bound.
Released == {b[1] : b \in Bound} \cup {b[2] : b \in Bound}

\* A label is bound to the FID its package was made for.  A C_k_func is local when
\* it was closed for the label key that derive_dklabelfunc makes of the key "to".
ASSUME WorkerAssumption ==
  /\ Func \subseteq [fid : FID, code : Code]
  /\ Request \subseteq [fid : FID, sender : Sender, empty : BOOLEAN]
  /\ NoSender \in Sender
  /\ FuncKey \subseteq
       [profile : Profile, func : Func, to : Identity, local : BOOLEAN]
  /\ ReqKey \subseteq [profile : Profile, req : Request, to : Identity]
  /\ Bound \subseteq {<<c.fid, c>> : c \in Func}
  /\ Loads \subseteq [key : Released, label : Released, fid : FID]
  /\ FID \cap Func = {}
  /\ MaxReports \in Nat
  /\ None \notin FID \cup Func \cup [fid : FID, func : Func, code : Code]

VARIABLES
  keypair,   \* g_private_key, numbered as created; 0 before the first
  ready,     \* g_worker_keypair_ready
  worker,    \* g_worker_key and g_worker_fid; g_key_loaded is fid # None
  dklabel,   \* g_worker_dklabel; g_dklabel_from_kms is dklabel # None
  bfibe,     \* g_bfibe_request_sk, _function_sk, _fid; g_bfibe_key_loaded is fid # None
  cache,     \* g_cached_function_code
  result,    \* the encrypted result written by the last ECALL
  \* What follows is history: the code keeps none of it.
  quoted,    \* the key pairs whose public key was returned with a report
  held       \* the keys that ever reached this enclave

keys == <<keypair, ready, worker, dklabel, bfibe, quoted, held>>
vars == <<keys, cache, result>>

Cached == [fid : FID, func : Func, code : Code]
Result ==
  [fid : FID, func : Func, code : Code, req : Request, sealedFor : Sender]

TypeOK ==
  /\ keypair \in 0 .. MaxReports
  /\ ready \in BOOLEAN
  /\ worker \in [key : Identity \cup {None}, fid : FID \cup {None}]
  /\ dklabel \in Identity \cup {None}
  /\ bfibe \in [req : FID \cup {None}, fn : Func \cup {None}, fid : FID \cup {None}]
  /\ cache \in Cached \cup {None}
  /\ result \in Result \cup {None}
  /\ quoted \subseteq 1 .. MaxReports
  /\ held \subseteq Identity

Init ==
  /\ keypair = 0
  /\ ready = FALSE
  /\ worker = [key |-> None, fid |-> None]
  /\ dklabel = None
  /\ bfibe = [req |-> None, fn |-> None, fid |-> None]
  /\ cache = None
  /\ result = None
  /\ quoted = {}
  /\ held = {}

-----------------------------------------------------------------------------
(* Attestation and the loading of keys.  blob is the number of the public  *)
(* key the KMS wrapped its answer to.                                      *)

\* A new key pair replaces the old one; when hashing the public key fails the
\* call returns before it hands out the report.
ecall_create_report ==
  /\ keypair < MaxReports
  /\ keypair' = keypair + 1
  /\ \/ ready' = TRUE /\ quoted' = quoted \cup {keypair + 1}
     \/ UNCHANGED <<ready, quoted>>
  /\ result' = None
  /\ UNCHANGED <<worker, dklabel, bfibe, cache, held>>

Opens(blob) == blob = keypair

\* A load that keeps the cached code.
CacheKept(loadedFid, f) == cache

\* A function_cache_clear that wipes the hash and leaves the entry valid.
CacheHalfCleared(loadedFid, f) ==
  IF loadedFid = f \/ cache = None THEN cache ELSE [cache EXCEPT !.func = None]

\* Function code cached for another FID goes before the FID is replaced.
CacheOnLoad(loadedFid, f) == IF loadedFid = f THEN cache ELSE None

\* One key, whatever it is, is taken as the dkf of the FID the host names; a
\* dklabel received earlier stays.
ecall_decrypt_key(blob, k, f) ==
  /\ Opens(blob)
  /\ worker' = [key |-> k, fid |-> f]
  /\ held' = held \cup {k}
  /\ cache' = CacheOnLoad(worker.fid, f)
  /\ result' = None
  /\ UNCHANGED <<keypair, ready, dklabel, bfibe, quoted>>

\* The dkf is in place before the dklabel is decrypted: if that fails, the call
\* returns with the new key under the old FID.
ecall_decrypt_keys_batch(blob, k, l, f) ==
  /\ Opens(blob)
  /\ \/ /\ worker' = [key |-> k, fid |-> f]
        /\ dklabel' = l
        /\ held' = held \cup {k, l}
        /\ cache' = CacheOnLoad(worker.fid, f)
     \/ /\ worker' = [worker EXCEPT !.key = k]
        /\ held' = held \cup {k}
        /\ UNCHANGED <<dklabel, cache>>
  /\ result' = None
  /\ UNCHANGED <<keypair, ready, bfibe, quoted>>

\* Importing the private-key set first zeroes both keys.  A set with a bad or a
\* missing record, or with bytes left over, returns before FID and flag are set.
\* The FID is part of the associated data of the release; the label key in it is
\* the one the KMS put there.
ecall_load_bfibe_key_release(blob, f, l) ==
  /\ ready
  /\ Opens(blob)
  /\ \/ /\ bfibe' = [req |-> f, fn |-> l, fid |-> f]
        /\ cache' = CacheOnLoad(bfibe.fid, f)
     \/ /\ \E r \in {None, f}, n \in {None, l} :
             bfibe' = [bfibe EXCEPT !.req = r, !.fn = n]
        /\ UNCHANGED cache
  /\ held' = held \cup ({bfibe'.req, bfibe'.fn} \ {None})
  /\ result' = None
  /\ UNCHANGED <<keypair, ready, worker, dklabel, quoted>>

\* An answer for another key pair, a malformed one, a request for a function run
\* that fails before its code is decrypted: nothing changes.
Fail == result' = None /\ UNCHANGED <<keys, cache>>

ecall_has_key(f) == f \in {worker.fid, bfibe.fid}

-----------------------------------------------------------------------------
(* Running a function: c is the C_func, kf the C_k_func, kr the C_key, r   *)
(* the C_req, s the nonce and pkU of the call.                             *)

uses_bfibe(kf, kr) == "bfibe" \in {kf.profile, kr.profile}
invocation_fid(kf, kr) == IF uses_bfibe(kf, kr) THEN bfibe.fid ELSE worker.fid

\* A cache that only looks at the FID.
lookup_by_fid(fid, c) == cache # None /\ cache.fid = fid

function_cache_lookup(fid, c) ==
  cache # None /\ cache.fid = fid /\ cache.func = c

\* DecKey of a BF-IBE envelope takes the private key its purpose names: a
\* request-key envelope must be for g_bfibe_fid, a function-key one may be for any
\* label; which of C_key and C_k_func it is does not matter.
BfibeDecKey(envelope) ==
  \/ envelope.to \in FID /\ envelope.to = bfibe.fid /\ bfibe.req = envelope.to
  \/ envelope.to \in Func /\ bfibe.fn = envelope.to

\* DecKey(C_key).  A BF-IBE envelope carries the associated data of its request,
\* which are compared; an ECC-IBE one finds no capability in a BF-IBE call.
DecKeyReq(kf, kr, s) ==
  IF uses_bfibe(kf, kr)
    THEN /\ kr.profile = "bfibe"
         /\ kr.req.fid = bfibe.fid /\ kr.req.sender = s
         /\ BfibeDecKey(kr)
    ELSE kr.to = worker.key

\* A DecKey that opens with whatever label key is loaded.
DecKeyFuncUnlabelled(kf, kr) == TRUE

\* DecKey(C_k_func).  Without a dklabel from the KMS the label key is derived from
\* g_worker_key and the label of the C_func of the call, which is kf.func if
\* anything is to be decrypted with it.
DecKeyFunc(kf, kr) ==
  \/ /\ uses_bfibe(kf, kr)
     /\ kf.profile = "bfibe"
     /\ kf.func.fid = bfibe.fid
     /\ BfibeDecKey(kf)
  \/ /\ ~uses_bfibe(kf, kr) /\ dklabel # None
     /\ ~kf.local /\ kf.to = dklabel
  \/ /\ ~uses_bfibe(kf, kr) /\ dklabel = None
     /\ kf.local /\ kf.to = worker.key

\* k_func is the key of kf.func; the associated data are those of the FID.
DecryptFunc(fid, c, kf) == kf.func = c /\ c.fid = fid

\* Decryption of C_req that leaves nonce and pkU out of the associated data.
DecryptReqAnySender(fid, r, kr, s) == r.empty \/ (kr.req = r /\ r.fid = fid)

\* A C_req without payload (nonce and tag alone) is not decrypted, so neither its
\* tag nor its associated data are checked.
DecryptReq(fid, r, kr, s) ==
  r.empty \/ (kr.req = r /\ r.fid = fid /\ r.sender = s)

\* The code to run: from the cache, or from C_func, which is then cached unless
\* memory runs out.
LoadFunction(c, kf, kr) ==
  LET fid == invocation_fid(kf, kr) IN
    \/ function_cache_lookup(fid, c) /\ UNCHANGED cache
    \/ /\ ~function_cache_lookup(fid, c)
       /\ DecKeyFunc(kf, kr)
       /\ DecryptFunc(fid, c, kf)
       /\ \/ cache' = [fid |-> fid, func |-> c, code |-> c.code]
          \/ UNCHANGED cache

CodeToRun(c, kf, kr) ==
  IF function_cache_lookup(invocation_fid(kf, kr), c) THEN cache.code ELSE c.code

\* ecall_run_encrypted_wasm_kem and, for the zero nonce and pkU, the ECALL
\* without KEM.  A run that fails once the code is loaded keeps it cached.
ecall_run_encrypted_wasm(c, kf, kr, r, s) ==
  LET fid == invocation_fid(kf, kr) IN
    /\ fid # None
    /\ DecKeyReq(kf, kr, s)
    /\ LoadFunction(c, kf, kr)
    /\ \/ /\ DecryptReq(fid, r, kr, s)
          /\ result' = [fid |-> fid, func |-> c, code |-> CodeToRun(c, kf, kr),
                        req |-> r, sealedFor |-> s]
       \/ result' = None
    /\ UNCHANGED keys

-----------------------------------------------------------------------------
DecryptKey == \E blob \in quoted, x \in Loads : ecall_decrypt_key(blob, x.key, x.fid)
DecryptKeysBatch ==
  \E blob \in quoted, x \in Loads :
    ecall_decrypt_keys_batch(blob, x.key, x.label, x.fid)
LoadBfibe ==
  \E blob \in quoted, b \in Bound : ecall_load_bfibe_key_release(blob, b[1], b[2])
Run ==
  \E kf \in FuncKey, kr \in ReqKey, c \in Func, r \in Request, s \in Sender :
    ecall_run_encrypted_wasm(c, kf, kr, r, s)

Next ==
  \/ ecall_create_report
  \/ DecryptKey
  \/ DecryptKeysBatch
  \/ LoadBfibe
  \/ Run
  \/ Fail

Spec == Init /\ [][Next]_vars

-----------------------------------------------------------------------------
(* Properties. *)

\* What runs is what was asked for: the code is that of the very C_func of the
\* call, and package, loaded keys and any request with a payload are of one FID,
\* whether the code was decrypted now or cached by an earlier call, under either
\* profile, and whatever loads failed half way in between.
RunsAsRequested ==
  result # None =>
    /\ result.code = result.func.code
    /\ result.func.fid = result.fid
    /\ result.req.empty \/ result.req.fid = result.fid

\* The result goes to the sender of the request whose payload it was computed
\* from, even when the host mixes the files of two requests.
ResultForSender ==
  result # None /\ ~result.req.empty => result.sealedFor = result.req.sender

\* Cached code never stands in for a key.  It stays only under a FID that
\* ecall_has_key still answers for (a load that fails may have wiped or replaced
\* that FID's keys: the code stays then, and so does the answer); and a payload is
\* computed on only if a key loaded at that moment opens a C_key of its request,
\* also when the code comes from the cache.
CacheOwned ==
  /\ cache # None => ecall_has_key(cache.fid)
  /\ result # None /\ ~result.req.empty =>
       \E kr \in ReqKey : /\ kr.req = result.req
                         /\ kr.to \in {worker.key, bfibe.req, bfibe.fn}

\* The key this C_k_func was closed for, or derived from, reached the enclave.
KeyReached(c) == \E kf \in FuncKey : kf.func = c /\ kf.to \in held

\* Code runs only when the KMS released a key that opens one of its C_k_func to this
\* enclave, now or before the code was cached.  For a package whose C_k_func is
\* closed for its label, as the SDK closes it, that is its label key.
FunctionKeyReleased == result # None => KeyReached(result.func)

\* What ecall_has_key answers is what the host relies on to skip the KMS: "Keys for
\* FID %s are present in Enclave".  Stated of a host that names every key truthfully.
HasKeyTruthful ==
  \A f \in FID : ecall_has_key(f) =>
    \/ worker.fid = f /\ worker.key = f
    \/ bfibe.fid = f /\ bfibe.req = f /\ bfibe.fn # None
=============================================================================
