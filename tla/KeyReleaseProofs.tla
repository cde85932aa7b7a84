-------------------------- MODULE KeyReleaseProofs --------------------------
(***************************************************************************)
(* The invariants of KeyRelease hold for FIDs, labels and private keys of  *)
(* every length.  The heart of it is arithmetic: what there is room for in *)
(* the KMS's enclave, the worker's has room for (ReleaseFitsWorker).       *)
(***************************************************************************)
EXTENDS KeyRelease, TLAPS

\* The sizes, which every bound below is computed from.
USE DEF KMS_MAX_FID_LEN, KMS_MAX_LABEL_LEN, MAX_FID_LEN, LABEL_LEN,
        BFIBE_MAX_PRIVATE_KEY_SET_SIZE, BFIBE_MAX_RELEASE_LEN, KMS_AAD_SIZE, KEY_SIZE,
        Trailer, ErrorLen, ProfileLen, WorkerIdentityLen, WrapKeyLen, NonceLen, TagLen,
        ReleaseHeader, KEY_LEN, KMS_KEYS_LEN, KMS_RESPONSE_MAX_LEN, WORKER_AAD_SIZE,
        ENVELOPE_AAD_SIZE, IDENTITY_SIZE, Part, request_identity, function_identity

(***************************************************************************)
(* Arithmetic of the lengths.                                              *)
(***************************************************************************)

\* What fits the KMS fits the worker: the associated data, the import of the key set,
\* the FID with its zero, and both envelopes of the client.
THEOREM ReleaseFitsWorker ==
  ASSUME NEW f \in Nat, NEW l \in Nat, ReleaseFits(f, l)
  PROVE  /\ build_bfibe_key_release_aad(f) <= WORKER_AAD_SIZE
         /\ ImportFits(f)
         /\ f <= 54
         /\ DecKeyFits(f, l)
<1>1. f <= 54 /\ l <= 65 /\ build_bfibe_key_release_aad(f) <= WORKER_AAD_SIZE
  BY DEF ReleaseFits, build_bfibe_key_release_aad
<1>2. ImportFits(f)
  BY <1>1 DEF ReleaseFits, ImportFits
<1>3. fid_to_bytes_or_str(f) \in Nat /\ fid_to_bytes_or_str(f) <= 54
  BY <1>1 DEF fid_to_bytes_or_str
<1>4. DecKeyFits(f, l)
  BY <1>1, <1>3 DEF DecKeyFits, build_bfibe_envelope_aad, build_aad_req, build_aad_pkg
<1> QED
  BY <1>1, <1>2, <1>4

\* No FID of the SDK's, 64 characters long, ever has a BF-IBE release, whatever label,
\* binding or private key.
THEOREM NoReleaseForDigests == \A l \in Nat : ~ReleaseFits(64, l)
BY DEF ReleaseFits, build_bfibe_key_release_aad

\* A release that is made fits the host's buffer along with the timing.
LEMMA ReleaseLength ==
  ASSUME NEW f \in Nat, NEW l \in Nat, ReleaseFits(f, l)
  PROVE  /\ build_bfibe_key_release(f, l) \in Nat
         /\ build_bfibe_key_release(f, l) >= ReleaseHeader
         /\ build_bfibe_key_release(f, l) + Trailer <= KMS_RESPONSE_MAX_LEN
<1>1. KeyLen \in Nat
  BY KeyReleaseAssumption
<1> QED
  BY <1>1 DEF ReleaseFits, build_bfibe_key_release, build_bfibe_private_key_set, Record

-----------------------------------------------------------------------------
(* The inductive invariant. *)

\* An answer is on its way only for a request, and no more of it arrives than there is.
Exchanges ==
  /\ response # None => request # None
  /\ arrived # None => response # None /\ arrived <= response.len

\* Keys answer a request whose names fit, and the length of an answer tells its kind.
Answers ==
  response # None =>
    /\ response.kind = "keys" =>
         /\ response.len = 2 * KEY_LEN + Trailer
         /\ is_label_bound_to_fid(request.fid, request.label)
    /\ response.kind = "release" =>
         /\ response.len = build_bfibe_key_release(request.fid, request.label) + Trailer
         /\ ReleaseFits(request.fid, request.label)
    /\ response.kind \in {"key_error", "denied"} => response.len = ErrorLen

\* The keys loaded are those of the FID they are kept under, which had room at the KMS.
Loaded ==
  /\ worker.key = worker.fid
  /\ bfibe.fid = bfibe.req
  /\ bfibe.fid # None => bfibe.fn # None /\ ReleaseFits(bfibe.req, bfibe.fn)

IInv == TypeOK /\ Exchanges /\ Answers /\ Loaded

LEMMA InitIInv == Init => IInv
BY DEF Init, Fresh, IInv, TypeOK, Exchanges, Answers, Loaded

LEMMA AskIInv == ASSUME IInv, NEW q \in Request, Ask(q) PROVE IInv'
BY DEF IInv, TypeOK, Exchanges, Answers, Loaded, Ask, loaded

LEMMA ServerIInv == ASSUME IInv, handle_client PROVE IInv'
<1> DEFINE f == request.fid
           l == request.label
<1> USE DEF Answer
<1>1. /\ request \in Request /\ request # None /\ f \in Nat /\ l \in Nat
      /\ response = None /\ arrived = None
      /\ UNCHANGED <<request, arrived, worker, dklabel, bfibe>>
  <2>1. request \in Request /\ response = None
    BY DEF IInv, TypeOK, handle_client
  <2>2. arrived = None
    BY <2>1 DEF IInv, Exchanges
  <2>3. f \in Nat /\ l \in Nat
    BY <2>1, KeyReleaseAssumption DEF Request
  <2> QED
    BY <2>1, <2>2, <2>3 DEF handle_client, loaded
<1>2. CASE Deny
  <2>1. response' = [kind |-> "denied", len |-> 26]
    BY <1>2 DEF Deny
  <2> QED
    BY <1>1, <2>1 DEF IInv, TypeOK, Exchanges, Answers, Loaded, Response
<1>3. CASE ecall_derive_keys_batch
  <2>1. CASE is_label_bound_to_fid(f, l)
    <3>1. response' = [kind |-> "keys", len |-> 272]
      BY <1>3, <2>1 DEF ecall_derive_keys_batch
    <3> QED
      BY <1>1, <2>1, <3>1 DEF IInv, TypeOK, Exchanges, Answers, Loaded, Response
  <2>2. CASE ~is_label_bound_to_fid(f, l)
    <3>1. response' = [kind |-> "key_error", len |-> 26]
      BY <1>3, <2>2 DEF ecall_derive_keys_batch
    <3> QED
      BY <1>1, <3>1 DEF IInv, TypeOK, Exchanges, Answers, Loaded, Response
  <2> QED
    BY <2>1, <2>2
<1>4. CASE ecall_get_bfibe_key_release
  <2>1. CASE is_label_bound_to_fid(f, l) /\ ReleaseFits(f, l)
    <3>1. response' = [kind |-> "release", len |-> build_bfibe_key_release(f, l) + 24]
      BY <1>4, <2>1 DEF ecall_get_bfibe_key_release
    <3>2. build_bfibe_key_release(f, l) + 24 \in Nat
      BY <1>1, <2>1, ReleaseLength
    <3> QED
      BY <1>1, <2>1, <3>1, <3>2 DEF IInv, TypeOK, Exchanges, Answers, Loaded, Response
  <2>2. CASE ~(is_label_bound_to_fid(f, l) /\ ReleaseFits(f, l))
    <3>1. response' = [kind |-> "key_error", len |-> 26]
      BY <1>4, <2>2 DEF ecall_get_bfibe_key_release
    <3> QED
      BY <1>1, <3>1 DEF IInv, TypeOK, Exchanges, Answers, Loaded, Response
  <2> QED
    BY <2>1, <2>2
<1> QED
  BY <1>2, <1>3, <1>4 DEF handle_client

LEMMA UpTo == ASSUME NEW n \in Nat, NEW k \in 0 .. n PROVE k \in Nat /\ k <= n
OBVIOUS

LEMMA ReadIInv == ASSUME IInv, read_kms_response PROVE IInv'
<1> DEFINE top == CutTo(response.len, KMS_RESPONSE_MAX_LEN)
<1>1. response \in Response /\ response.len \in Nat
  <2>1. response \in Response
    BY DEF IInv, TypeOK, read_kms_response
  <2> QED
    BY <2>1 DEF Response
<1>2. top \in Nat /\ top <= response.len
  BY <1>1 DEF CutTo
<1>3. arrived' \in 0 .. top
  BY DEF read_kms_response
<1>4. arrived' \in Nat /\ arrived' <= response.len
  <2> HIDE DEF top
  <2>1. arrived' \in Nat /\ arrived' <= top
    BY <1>2, <1>3, UpTo
  <2> QED
    BY <1>1, <1>2, <2>1
<1>5. response # None /\ UNCHANGED <<request, response, worker, dklabel, bfibe>>
  BY DEF read_kms_response, loaded
<1> QED
  BY <1>4, <1>5 DEF IInv, TypeOK, Exchanges, Answers, Loaded

-----------------------------------------------------------------------------
(* What Load makes of an answer. *)

\* Keys that arrived whole are loaded.
KeysLoaded ==
  /\ worker' = [key |-> request.fid, fid |-> request.fid]
  /\ dklabel' = request.label
  /\ UNCHANGED bfibe

ReleaseLoaded ==
  /\ bfibe' = [req |-> request.fid, fn |-> request.label, fid |-> request.fid]
  /\ UNCHANGED <<worker, dklabel>>

\* A single key of an answer that was cut behind it.
OneKeyLoaded ==
  /\ worker' = [key |-> request.fid, fid |-> request.fid]
  /\ UNCHANGED <<dklabel, bfibe>>

LEMMA LoadIs ==
  ASSUME IInv, Load
  PROVE  /\ request \in Request /\ response \in Response /\ arrived \in Nat
         /\ \/ /\ response.kind = "keys" /\ arrived >= 248
               /\ KeysLoaded /\ request.fid < MAX_FID_LEN
            \/ /\ response.kind = "keys" /\ arrived < 248
               /\ OneKeyLoaded /\ request.fid < MAX_FID_LEN
            \/ /\ response.kind = "release" /\ arrived >= response.len - Trailer
               /\ ReleaseLoaded /\ ReleaseFits(request.fid, request.label)
            \/ /\ response.kind = "keys" => arrived < 248
               /\ response.kind = "release" => arrived < response.len - Trailer
               /\ UNCHANGED <<worker, dklabel, bfibe>>
<1> DEFINE f == request.fid
           l == request.label
<1>1. /\ request \in Request /\ f \in FID /\ l \in Label /\ f \in Nat /\ l \in Nat
      /\ response \in Response /\ response.kind \in {"keys", "release", "key_error", "denied"}
      /\ response.len \in Nat
      /\ arrived \in Nat /\ arrived <= response.len
  <2>1. arrived # None /\ response # None /\ request # None
    BY DEF Load, IInv, Exchanges
  <2>2. request \in Request /\ response \in Response /\ arrived \in Nat
    BY <2>1 DEF IInv, TypeOK
  <2>3. f \in FID /\ l \in Label
    BY <2>2 DEF Request
  <2>4. response.kind \in {"keys", "release", "key_error", "denied"} /\ response.len \in Nat
    BY <2>2 DEF Response
  <2> QED
    BY <2>1, <2>2, <2>3, <2>4, KeyReleaseAssumption DEF IInv, Exchanges
<1>2. CASE response.kind = "release"
  <2>1. /\ response.len = build_bfibe_key_release(f, l) + 24
        /\ ReleaseFits(f, l)
    BY <1>1, <1>2 DEF IInv, Answers, Exchanges, Load
  <2>2. build_bfibe_key_release(f, l) \in Nat /\ build_bfibe_key_release(f, l) >= 33
    BY <1>1, <2>1, ReleaseLength
  <2>3. payload_len = build_bfibe_key_release(f, l)
    BY <2>1, <2>2 DEF payload_len
  <2>4. CASE arrived >= response.len - 24
    <3>1. is_bfibe_key_release_response /\ bfibe_key_release_payload_len
      BY <1>1, <1>2, <2>1, <2>2, <2>3, <2>4
         DEF is_bfibe_key_release_response, bfibe_key_release_payload_len
    <3>2. ecall_load_bfibe_key_release(f, l)
      BY <3>1 DEF Load
    <3>3. /\ build_bfibe_key_release_aad(f) <= WORKER_AAD_SIZE /\ ImportFits(f) /\ f <= 54
      BY <1>1, <2>1, ReleaseFitsWorker
    <3>4. build_bfibe_key_release_aad(f) \in Nat /\ CutTo(f, 127) = f
      BY <1>1, <3>3 DEF build_bfibe_key_release_aad, CutTo
    <3>5. ReleaseLoaded
      BY <3>2, <3>3, <3>4 DEF ecall_load_bfibe_key_release, ReleaseLoaded
    <3> QED
      BY <1>1, <1>2, <2>1, <2>4, <3>5
  <2>5. CASE arrived < response.len - 24
    <3>1. ~bfibe_key_release_payload_len
      BY <1>1, <2>1, <2>2, <2>3, <2>5 DEF bfibe_key_release_payload_len
    <3>2. CASE is_bfibe_key_release_response
      <4>1. UNCHANGED <<worker, dklabel, bfibe>>
        BY <3>1, <3>2 DEF Load, loaded
      <4> QED
        BY <1>1, <1>2, <2>5, <4>1
    <3>3. CASE ~is_bfibe_key_release_response
      <4>1. arrived < 9
        BY <1>1, <1>2, <3>3 DEF is_bfibe_key_release_response
      <4>2. UNCHANGED <<worker, dklabel, bfibe>>
        BY <1>1, <3>3, <4>1 DEF Load, loaded
      <4> QED
        BY <1>1, <1>2, <2>5, <4>2
    <3> QED
      BY <3>2, <3>3
  <2> QED
    BY <1>1, <2>1, <2>2, <2>4, <2>5
<1>3. CASE response.kind = "keys"
  <2>1. f < 128
    BY <1>1, <1>3 DEF IInv, Answers, Exchanges, Load, is_label_bound_to_fid
  <2>2. ~is_bfibe_key_release_response /\ CutTo(f, 128) = f
    BY <1>3, <2>1 DEF is_bfibe_key_release_response, CutTo
  <2>3. CASE arrived >= 248
    <3>1. ecall_decrypt_keys_batch(f, l)
      BY <2>2, <2>3 DEF Load
    <3>2. KeysLoaded
      BY <2>2, <2>3, <3>1 DEF ecall_decrypt_keys_batch, KeysLoaded
    <3> QED
      BY <1>1, <1>3, <2>1, <2>3, <3>2
  <2>4. CASE arrived = 124
    <3>1. ecall_decrypt_key(f)
      BY <2>2, <2>4 DEF Load
    <3>2. OneKeyLoaded
      BY <2>2, <3>1 DEF ecall_decrypt_key, OneKeyLoaded
    <3> QED
      BY <1>1, <1>3, <2>1, <2>4, <3>2
  <2>5. CASE arrived < 248 /\ arrived # 124
    <3>1. UNCHANGED <<worker, dklabel, bfibe>>
      BY <1>1, <2>2, <2>5 DEF Load, loaded
    <3> QED
      BY <1>1, <1>3, <2>5, <3>1
  <2> QED
    BY <1>1, <2>3, <2>4, <2>5
<1>4. CASE response.kind \in {"key_error", "denied"}
  <2>1. arrived <= 26
    BY <1>1, <1>4 DEF IInv, Answers, Exchanges, Load
  <2>2. UNCHANGED <<worker, dklabel, bfibe>>
    BY <1>1, <1>4, <2>1 DEF Load, loaded, is_bfibe_key_release_response
  <2> QED
    BY <1>1, <1>4, <2>2
<1> QED
  BY <1>1, <1>2, <1>3, <1>4

LEMMA LoadIInv == ASSUME IInv, Load PROVE IInv'
<1>1. request' = None /\ response' = None /\ arrived' = None
  BY DEF Load
<1>2. request.fid \in FID /\ request.label \in Label /\ request.fid # None /\ request.label # None
  BY LoadIs, KeyReleaseAssumption DEF Request
<1>3. CASE KeysLoaded /\ request.fid < MAX_FID_LEN
  BY <1>1, <1>2, <1>3 DEF KeysLoaded, IInv, TypeOK, Terminated, Exchanges, Answers, Loaded
<1>4. CASE OneKeyLoaded /\ request.fid < MAX_FID_LEN
  BY <1>1, <1>2, <1>4 DEF OneKeyLoaded, IInv, TypeOK, Terminated, Exchanges, Answers, Loaded
<1>5. CASE ReleaseLoaded /\ ReleaseFits(request.fid, request.label)
  <2>1. request.fid \in Nat /\ request.label \in Nat
    BY <1>2, KeyReleaseAssumption
  <2>2. request.fid <= 54
    BY <1>5, <2>1, ReleaseFitsWorker
  <2>3. request.fid \in Terminated
    BY <1>2, <2>1, <2>2 DEF Terminated
  <2> QED
    BY <1>1, <1>2, <1>5, <2>3 DEF ReleaseLoaded, IInv, TypeOK, Exchanges, Answers, Loaded
<1>6. CASE UNCHANGED <<worker, dklabel, bfibe>>
  BY <1>1, <1>6 DEF IInv, TypeOK, Exchanges, Answers, Loaded
<1> QED
  BY <1>3, <1>4, <1>5, <1>6, LoadIs

LEMMA RestartIInv == ASSUME IInv, Restart PROVE IInv'
BY DEF IInv, TypeOK, Exchanges, Answers, Loaded, Restart, Fresh, exchange

LEMMA StepIInv == IInv /\ [Next]_vars => IInv'
<1> SUFFICES ASSUME IInv, [Next]_vars PROVE IInv'
  OBVIOUS
<1>1. ASSUME NEW q \in Request, Ask(q) PROVE IInv'
  BY <1>1, AskIInv
<1>2. CASE handle_client
  BY <1>2, ServerIInv
<1>3. CASE read_kms_response
  BY <1>3, ReadIInv
<1>4. CASE Load
  BY <1>4, LoadIInv
<1>5. CASE Restart
  BY <1>5, RestartIInv
<1>6. CASE UNCHANGED vars
  BY <1>6 DEF vars, exchange, loaded, IInv, TypeOK, Exchanges, Answers, Loaded
<1> QED
  BY <1>1, <1>2, <1>3, <1>4, <1>5, <1>6 DEF Next

(***************************************************************************)
(* The theorems.                                                           *)
(***************************************************************************)

\* The invariant: what is loaded is whole and had room at the KMS.
THEOREM KeyReleaseInvariance == Spec => []IInv
<1> QED
  BY InitIInv, StepIInv, PTL DEF Spec

\* Type correctness; in particular every FID is kept with its zero.
THEOREM KeyReleaseTypeCorrect == Spec => []TypeOK
<1>1. IInv => TypeOK
  BY DEF IInv
<1> QED
  BY <1>1, KeyReleaseInvariance, PTL

\* The keys of a FID are whole, and there is room to open its envelopes.
THEOREM LoadedKeysAreWhole == Spec => []LoadedWhole
<1>1. IInv => LoadedWhole
  <2> SUFFICES ASSUME IInv, bfibe.fid # None PROVE DecKeyFits(bfibe.req, bfibe.fn)
    BY DEF IInv, Loaded, LoadedWhole
  <2>1. bfibe.req \in Nat /\ bfibe.fn \in Nat
    BY KeyReleaseAssumption DEF IInv, TypeOK, Loaded
  <2> QED
    BY <2>1, ReleaseFitsWorker DEF IInv, Loaded
<1> QED
  BY <1>1, KeyReleaseInvariance, PTL

\* Released keys that arrive are loaded.
THEOREM WhatIsReleasedIsLoaded == Spec => ReleasedIsLoaded
<1> DEFINE Taken ==
      Load =>
        /\ (response.kind = "keys" /\ arrived >= 2 * KEY_LEN) =>
             worker'.fid = request.fid /\ dklabel' = request.label
        /\ (response.kind = "release" /\ arrived >= response.len - Trailer) =>
             bfibe' = [req |-> request.fid, fn |-> request.label, fid |-> request.fid]
<1>1. IInv => [Taken]_vars
  <2> SUFFICES ASSUME IInv, Load PROVE Taken
    OBVIOUS
  <2>1. response \in Response /\ arrived \in Nat /\ response.len \in Nat
    BY LoadIs DEF Response
  <2> QED
    BY <2>1, LoadIs DEF KeysLoaded, OneKeyLoaded, ReleaseLoaded
<1>2. Spec => [][Taken]_vars
  BY <1>1, KeyReleaseInvariance, PTL
<1> QED
  BY <1>2 DEF ReleasedIsLoaded
=============================================================================
