----------------------------- MODULE KeyRelease -----------------------------
(***************************************************************************)
(* The answer of the KMS to a key request, by its bytes: handle_client and *)
(* ecall_get_bfibe_key_release make it, the connection may lose any end of *)
(* it, connect_to_kms tells from what is left what to load, and the        *)
(* worker's enclave loads it to open the envelopes of the client.  Each of *)
(* the four has buffers of its own; what fits one need not fit the next.   *)
(*                                                                         *)
(* A FID or a label is the length of its string: of two FIDs one is the    *)
(* beginning of the other, so a FID that is cut is another FID.  A key is  *)
(* the name of what it was derived for.  Whether the worker is attested is *)
(* KmsEnclave's; SGX's cryptography and malloc do not fail here (what a    *)
(* load that fails leaves is WorkerEnclave's).                             *)
(***************************************************************************)
EXTENDS Naturals

CONSTANTS
  FID,
  Label,
  Binding,  \* the <<FID, label>> bound at the KMS
  KeyLen,   \* bfibe_mcl_extract: the length of a private key
  None

ASSUME KeyReleaseAssumption ==
  /\ FID \subseteq Nat \ {0}
  /\ Label \subseteq Nat \ {0}
  /\ Binding \subseteq FID \X Label
  /\ KeyLen \in Nat \ {0}
  /\ None \notin FID \cup Label

Profile == {"eccibe", "bfibe"}

-----------------------------------------------------------------------------
(* Sizes of the KMS. *)

KMS_MAX_FID_LEN == 4096
KMS_MAX_LABEL_LEN == 128
MAX_FID_LEN == 128
LABEL_LEN == 65
BFIBE_MAX_PRIVATE_KEY_SET_SIZE == 2048
BFIBE_MAX_RELEASE_LEN == 4096
KMS_AAD_SIZE == 256
KEY_SIZE == 256

Trailer == 24      \* KmsTimingTrailer
ErrorLen == 26     \* the longest of the error messages
ProfileLen == 18   \* "bfibe-mcl-bls12381"
WorkerIdentityLen == 74  \* "mrenclave:" and 64 digits
WrapKeyLen == 64
NonceLen == 12
TagLen == 16

\* append_part_for_aad: a length and as many bytes.
Part(n) == 4 + n

\* A record of the private-key set: three lengths, purpose, identity and key.
Record(purpose, identity) == 12 + purpose + identity + KeyLen

request_identity(f) == 4 + f    \* "fid:"
function_identity(l) == 6 + l   \* "label:"

build_bfibe_private_key_set(f, l) ==
  8 + 1 + 4 + 4 + ProfileLen
    + Record(11, request_identity(f)) + Record(12, function_identity(l))

\* The worker builds the same from the fields of the release.
build_bfibe_key_release_aad(f) ==
  30 + Part(ProfileLen) + Part(f) + Part(WorkerIdentityLen) + Part(WrapKeyLen)

ReleaseHeader == 8 + 1 + 6 * 4

build_bfibe_key_release(f, l) ==
  ReleaseHeader + ProfileLen + f + WorkerIdentityLen + WrapKeyLen + NonceLen
    + build_bfibe_private_key_set(f, l) + TagLen

\* A registry that finds what it stored whole or cut.
FoundCut(f, l) == <<f, l>> \in Binding

\* A name that does not fit its entry is stored cut, and not found again.
is_label_bound_to_fid(f, l) ==
  <<f, l>> \in Binding /\ f < MAX_FID_LEN /\ l < LABEL_LEN

\* What ecall_get_bfibe_key_release has room for.
ReleaseFits(f, l) ==
  /\ request_identity(f) < MAX_FID_LEN + 5
  /\ function_identity(l) < LABEL_LEN + 7
  /\ KeyLen <= KEY_SIZE
  /\ build_bfibe_private_key_set(f, l) <= BFIBE_MAX_PRIVATE_KEY_SET_SIZE
  /\ build_bfibe_key_release_aad(f) <= KMS_AAD_SIZE
  /\ build_bfibe_key_release(f, l) <= BFIBE_MAX_RELEASE_LEN

-----------------------------------------------------------------------------
(* Sizes of the worker: host, then enclave. *)

KEY_LEN == 124  \* a wrapped ECC-IBE key

\* The host takes a single key for both.
OneKey == KEY_LEN

KMS_KEYS_LEN == 248

KMS_RESPONSE_MAX_LEN == BFIBE_MAX_RELEASE_LEN + Trailer

\* The associated data in a smaller buffer than the KMS has for them.
SmallAad == 224

WORKER_AAD_SIZE == 256

ENVELOPE_AAD_SIZE == 512
IDENTITY_SIZE == 160  \* expected_identity

\* Records of the set that ecall_load_bfibe_key_release imports.
ImportFits(f) == request_identity(f) < IDENTITY_SIZE /\ KeyLen <= KEY_SIZE

\* 64 characters are a digest in hexadecimal.
fid_to_bytes_or_str(f) == IF f = 64 THEN 32 ELSE f

build_aad_pkg(f) == 3 + fid_to_bytes_or_str(f)
build_aad_req(f) == 3 + fid_to_bytes_or_str(f) + 16 + 32

build_bfibe_envelope_aad(purpose, identity, context) ==
  19 + Part(ProfileLen) + Part(purpose) + Part(identity) + Part(context)

\* DecKey has room for the client's envelopes of a request and of its function.
DecKeyFits(f, l) ==
  /\ request_identity(f) < IDENTITY_SIZE
  /\ build_bfibe_envelope_aad(11, request_identity(f), build_aad_req(f)) <= ENVELOPE_AAD_SIZE
  /\ build_bfibe_envelope_aad(12, function_identity(l), build_aad_pkg(f)) <= ENVELOPE_AAD_SIZE

-----------------------------------------------------------------------------
VARIABLES
  request,   \* what the worker asks the KMS for, or None
  response,  \* what handle_client answered, or None
  arrived,   \* how many bytes of it the host has read, or None
  worker,    \* g_worker_key and g_worker_fid; g_key_loaded is fid # None
  dklabel,   \* g_worker_dklabel; g_dklabel_from_kms is dklabel # None
  bfibe      \* g_bfibe_request_sk, _function_sk, _fid; g_bfibe_key_loaded is fid # None

exchange == <<request, response, arrived>>
loaded == <<worker, dklabel, bfibe>>
vars == <<exchange, loaded>>

Request == [fid : FID, label : Label, profile : Profile]
Response == [kind : {"keys", "release", "key_error", "denied"}, len : Nat]

\* Every FID is kept with its terminating zero.
Terminated == {f \in FID : f < MAX_FID_LEN}

TypeOK ==
  /\ request \in Request \cup {None}
  /\ response \in Response \cup {None}
  /\ arrived \in Nat \cup {None}
  /\ worker \in [key : FID \cup {None}, fid : Terminated \cup {None}]
  /\ dklabel \in Label \cup {None}
  /\ bfibe \in [req : FID \cup {None}, fn : Label \cup {None}, fid : Terminated \cup {None}]

Fresh ==
  [worker |-> [key |-> None, fid |-> None],
   bfibe |-> [req |-> None, fn |-> None, fid |-> None]]

Init ==
  /\ request = None
  /\ response = None
  /\ arrived = None
  /\ worker = Fresh.worker
  /\ dklabel = None
  /\ bfibe = Fresh.bfibe

ecall_has_key(f) == f \in {worker.fid, bfibe.fid}

\* do_invoke asks for the keys of a FID it has none of.
Ask(q) ==
  /\ request = None
  /\ ~ecall_has_key(q.fid)
  /\ request' = q
  /\ UNCHANGED <<response, arrived, loaded>>

-----------------------------------------------------------------------------
(* The KMS. *)

Answer(kind, len) == response' = [kind |-> kind, len |-> len]

\* A length the server does not take, a quote that is not verified or a policy that
\* denies the worker.
Deny == Answer("denied", ErrorLen)

ecall_derive_keys_batch ==
  IF is_label_bound_to_fid(request.fid, request.label)
    THEN Answer("keys", 2 * KEY_LEN + Trailer)
    ELSE Answer("key_error", ErrorLen)

ecall_get_bfibe_key_release ==
  IF /\ is_label_bound_to_fid(request.fid, request.label)
     /\ ReleaseFits(request.fid, request.label)
    THEN Answer("release", build_bfibe_key_release(request.fid, request.label) + Trailer)
    ELSE Answer("key_error", ErrorLen)

handle_client ==
  /\ request # None
  /\ response = None
  /\ \/ Deny
     \/ /\ request.fid <= KMS_MAX_FID_LEN
        /\ request.label <= KMS_MAX_LABEL_LEN
        /\ \/ request.profile = "eccibe" /\ ecall_derive_keys_batch
           \/ request.profile = "bfibe" /\ ecall_get_bfibe_key_release
  /\ UNCHANGED <<request, arrived, loaded>>

-----------------------------------------------------------------------------
(* The worker. *)

CutTo(n, size) == IF n < size THEN n ELSE size

\* Up to the end of the stream, wherever the connection ended, or of the buffer.
read_kms_response ==
  /\ response # None
  /\ arrived = None
  /\ arrived' \in 0 .. CutTo(response.len, KMS_RESPONSE_MAX_LEN)
  /\ UNCHANGED <<request, response, loaded>>

is_bfibe_key_release_response == response.kind = "release" /\ arrived >= 8 + 1

\* The sum of the lengths in the header, all of which must have arrived.
payload_len == response.len - Trailer
bfibe_key_release_payload_len == arrived >= ReleaseHeader /\ payload_len <= arrived

\* The set that is imported replaces both keys, and wipes them if it does not fit.
ecall_load_bfibe_key_release(f, l) ==
  /\ IF build_bfibe_key_release_aad(f) > WORKER_AAD_SIZE
       THEN UNCHANGED bfibe
       ELSE bfibe' = IF ImportFits(f)
                       THEN [req |-> f, fn |-> l, fid |-> CutTo(f, MAX_FID_LEN - 1)]
                       ELSE [bfibe EXCEPT !.req = None, !.fn = None]
  /\ UNCHANGED <<worker, dklabel>>

\* The dkf is in place before the dklabel is opened; what did not arrive does not open.
ecall_decrypt_keys_batch(f, l) ==
  /\ IF arrived >= 2 * KEY_LEN
       THEN worker' = [key |-> f, fid |-> CutTo(f, MAX_FID_LEN)] /\ dklabel' = l
       ELSE worker' = [worker EXCEPT !.key = f] /\ UNCHANGED dklabel
  /\ UNCHANGED bfibe

\* The path of an older KMS, which sent one key.
ecall_decrypt_key(f) ==
  /\ worker' = [key |-> f, fid |-> CutTo(f, MAX_FID_LEN)]
  /\ UNCHANGED <<dklabel, bfibe>>

\* connect_to_kms goes by the magic and the length, and do_invoke on to the run.
Load ==
  /\ arrived # None
  /\ IF is_bfibe_key_release_response
       THEN IF bfibe_key_release_payload_len
              THEN ecall_load_bfibe_key_release(request.fid, request.label)
              ELSE UNCHANGED loaded
       ELSE IF arrived >= KMS_KEYS_LEN
              THEN ecall_decrypt_keys_batch(request.fid, request.label)
              ELSE IF arrived = KEY_LEN
                     THEN ecall_decrypt_key(request.fid)
                     ELSE UNCHANGED loaded
  /\ request' = None
  /\ response' = None
  /\ arrived' = None

\* Another process takes the worker's place.
Restart ==
  /\ request = None
  /\ worker' = Fresh.worker
  /\ dklabel' = None
  /\ bfibe' = Fresh.bfibe
  /\ UNCHANGED exchange

Next ==
  \/ \E q \in Request : Ask(q)
  \/ handle_client
  \/ read_kms_response
  \/ Load
  \/ Restart

Spec == Init /\ [][Next]_vars

-----------------------------------------------------------------------------
(* Properties. *)

\* The keys the enclave says it has for a FID are those of that FID and there is room
\* to open the client's envelopes with them, whatever the byte at which earlier answers
\* were cut, whatever was loaded before, and however long the FID is.
LoadedWhole ==
  /\ worker.key = worker.fid
  /\ bfibe.fid = None \/ (bfibe.fid = bfibe.req /\ DecKeyFits(bfibe.req, bfibe.fn))

\* Keys the KMS has released reach the enclave if they arrive, with or without the
\* timing behind them: no buffer on the worker's side is too small for what the KMS
\* makes, and no answer is taken for one of another kind.
ReleasedIsLoaded ==
  [][Load =>
       /\ (response.kind = "keys" /\ arrived >= 2 * KEY_LEN) =>
            worker'.fid = request.fid /\ dklabel' = request.label
       /\ (response.kind = "release" /\ arrived >= response.len - Trailer) =>
            bfibe' = [req |-> request.fid, fn |-> request.label, fid |-> request.fid]
    ]_vars

\* A verified worker gets the keys of a FID and a label that are bound: "The final
\* bfibe-mcl-bls12381 path will return a variable-length, worker-bound ASBFREL1
\* envelope".
BoundIsReleased ==
  (response # None /\ response.kind = "key_error") =>
    <<request.fid, request.label>> \notin Binding
=============================================================================
