----------------------------- MODULE KmsEnclave -----------------------------
(***************************************************************************)
(* The enclave of the key management service                               *)
(* (sgx_kms/Enclave/Enclave.cpp): the policy registry, the one-entry cache *)
(* of the last remote attestation, and the ECALLs that read and write      *)
(* them.  The host calls the ECALLs in any order with any arguments, one   *)
(* at a time, so each ECALL is one action.                                 *)
(*                                                                         *)
(* Cryptography is symbolic: a derived key is the pair <<msk, identity>>,  *)
(* a wrapped key is a record naming the worker public key it was wrapped   *)
(* to, a quote is the pair (MRENCLAVE, public key hashed in report_data).  *)
(* Strings are values of FID and Label; what strncpy keeps of a string is  *)
(* KeptFid and KeptLabel, so that a string too long for its field is one   *)
(* that KeptFid maps to another string.                                    *)
(***************************************************************************)
EXTENDS Naturals, Sequences

CONSTANTS
  FID,          \* function identities a caller may name
  Label,        \* function labels a caller may name
  MRE,          \* MRENCLAVE measurements
  PK,           \* worker public keys
  MSK,          \* master secrets that sgx_read_rand may produce
  DefaultFid,   \* "default_fid", the one with a fixed key
  KeptFid,      \* what strncpy(.., MAX_FID_LEN - 1) keeps of a FID
  KeptLabel,    \* what strncpy(.., LABEL_LEN - 1) keeps of a label
  MaxEntries,   \* MAX_POLICY_ENTRIES
  MaxLabels,    \* the size of PolicyEntry.bound_labels
  None          \* an empty or absent value

Quote == [mr : MRE, rd : PK]
Session == [fid : FID, mr : MRE, rd : PK]

\* The truncations are idempotent, the registry has room for something, and
\* None is none of the values.
ASSUME KmsAssumption ==
  /\ DefaultFid \in FID
  /\ KeptFid \in [FID -> FID]
  /\ \A f \in FID : KeptFid[KeptFid[f]] = KeptFid[f]
  /\ KeptFid[DefaultFid] = DefaultFid
  /\ KeptLabel \in [Label -> Label]
  /\ \A l \in Label : KeptLabel[KeptLabel[l]] = KeptLabel[l]
  /\ MaxEntries \in Nat \ {0}
  /\ MaxLabels \in Nat \ {0}
  /\ None \notin FID \cup Label \cup MRE \cup PK \cup MSK \cup Quote \cup Session

VARIABLES
  msk,        \* g_msk, None until g_msk_initialized
  registry,   \* g_policy_registry[0 .. g_num_policies - 1]
  ra,         \* g_ra_verified, g_verified_mrenclave, _fid, _report_data
  grant,      \* what the last ECALL wrote to its key output buffers
  \* What follows is history: the code keeps none of it.
  policies,   \* policies[f]: the policies whose registration for f returned 0
  bindings,   \* the <<fid, label>> whose binding returned 0
  attested    \* attested[f]: the quote last accepted under the stored name f

state == <<msk, registry, ra>>
history == <<policies, bindings, attested>>
vars == <<state, grant, history>>

Entry == [fid : FID, policy : MRE \cup {None}, labels : Seq(Label)]
Attestation ==
  [ok : BOOLEAN, fid : FID \cup {None}, mr : MRE \cup {None}, rd : PK \cup {None}]
Key == (MSK \cup {None}) \X (FID \cup Label)
Grant ==
  [profile : {"eccibe", "bfibe"}, fid : FID, label : Label \cup {None}, pk : PK,
   dkf : Key, dklabel : Key \cup {None}]

TypeOK ==
  /\ msk \in MSK \cup {None}
  /\ registry \in Seq(Entry)
  /\ Len(registry) <= MaxEntries
  /\ ra \in Attestation
  /\ grant \in Grant \cup {None}
  /\ policies \in [FID -> SUBSET MRE]
  /\ bindings \in SUBSET (FID \X Label)
  /\ attested \in [FID -> Quote \cup {None}]

\* The cache after its memsets.
NoAttestation == [ok |-> FALSE, fid |-> None, mr |-> None, rd |-> None]

Init ==
  /\ msk = None
  /\ registry = <<>>
  /\ ra = NoAttestation
  /\ grant = None
  /\ policies = [f \in FID |-> {}]
  /\ bindings = {}
  /\ attested = [f \in FID |-> None]

-----------------------------------------------------------------------------
(* The registry: an array searched from its start by the exact string. *)

Matching(f) == {i \in DOMAIN registry : registry[i].fid = f}
Known(f) == Matching(f) # {}

\* A search from the end of the array.
find_policy_last(f) == CHOOSE i \in Matching(f) : \A j \in Matching(f) : i >= j

find_policy(f) == CHOOSE i \in Matching(f) : \A j \in Matching(f) : i <= j

PolicyOf(f) == IF Known(f) THEN registry[find_policy(f)].policy ELSE None
BoundLabels(f) ==
  IF Known(f)
    THEN {registry[find_policy(f)].labels[k] : k \in DOMAIN registry[find_policy(f)].labels}
    ELSE {}

\* register_policy_fid that overwrites a policy that is set.
RegisterOverwrites(f) == Known(f) \/ Len(registry) < MaxEntries

\* A capacity check that lets one entry too many in.
RegisterOneTooMany(f) ==
  IF Known(f) THEN PolicyOf(f) = None ELSE Len(registry) <= MaxEntries

\* register_policy_fid returns 0: the policy of an entry is written once.
RegisterAccepts(f) ==
  IF Known(f) THEN PolicyOf(f) = None ELSE Len(registry) < MaxEntries

\* bind_label_to_fid returns 0.
BindAccepts(f, l) ==
  IF Known(f)
    THEN l \in BoundLabels(f) \/ Len(registry[find_policy(f)].labels) < MaxLabels
    ELSE Len(registry) < MaxEntries

StorePolicy(f, m) ==
  IF Known(f)
    THEN [registry EXCEPT ![find_policy(f)].policy = m]
    ELSE Append(registry, [fid |-> KeptFid[f], policy |-> m, labels |-> <<>>])

StoreLabel(f, l) ==
  IF ~Known(f)
    THEN Append(registry,
                [fid |-> KeptFid[f], policy |-> None, labels |-> <<KeptLabel[l]>>])
    ELSE IF l \in BoundLabels(f)
      THEN registry
      ELSE [registry EXCEPT ![find_policy(f)].labels = Append(@, KeptLabel[l])]

-----------------------------------------------------------------------------
(* The gates of a key release. *)

\* verify_ra_for_fid that trusts a verification done for any FID.
verify_ra_any_fid(f) == PolicyOf(f) = None \/ (ra.ok /\ ra.mr = PolicyOf(f))

verify_ra_for_fid(f) ==
  \/ PolicyOf(f) = None
  \/ /\ ra.ok
     /\ ra.fid = f
     /\ ra.mr = PolicyOf(f)

\* verify_report_data_binding that only asks for some verification.
verify_report_data_any(pk) == ra.ok

verify_report_data_binding(pk) == ra.ok /\ ra.rd = pk

\* A lookup that forgets which FID the label was bound to.
is_label_bound_anywhere(f, l) == \E i \in DOMAIN registry : l \in BoundLabels(registry[i].fid)

is_label_bound_to_fid(f, l) == l \in BoundLabels(f)

\* ecall_get_key that leaves VerifyRA to the host.
KeyGateBindingOnly(f, pk) ==
  msk # None /\ (f = DefaultFid \/ verify_report_data_binding(pk))

\* What ecall_get_key checks before it derives; default_fid skips the binding
\* of report_data.
KeyGate(f, pk) ==
  /\ msk # None
  /\ verify_ra_for_fid(f)
  /\ f = DefaultFid \/ verify_report_data_binding(pk)

\* derive_key_pair: a fixed key for default_fid, H(msk || fid) for the others.
derive_key_pair(f) == <<IF f = DefaultFid THEN None ELSE msk, f>>
derive_label_key(l) == <<msk, l>>

-----------------------------------------------------------------------------
(* The ECALLs.  One that is refused, or whose SGX calls fail, leaves the   *)
(* enclave as it was and writes no key.                                    *)

Refuse == grant' = None /\ UNCHANGED <<state, history>>

\* Unseals the blob it is given or, failing that, draws a new master secret.
ecall_init_kms(blob, fresh) ==
  /\ msk' = IF blob \in MSK THEN blob ELSE fresh
  /\ grant' = None
  /\ UNCHANGED <<registry, ra, history>>

ecall_register_policy_fid(f, m) ==
  \/ /\ RegisterAccepts(f)
     /\ registry' = StorePolicy(f, m)
     /\ policies' = [policies EXCEPT ![f] = @ \cup {m}]
     /\ grant' = None
     /\ UNCHANGED <<msk, ra, bindings, attested>>
  \/ ~RegisterAccepts(f) /\ Refuse

ecall_bind_label_to_fid(f, l) ==
  \/ /\ BindAccepts(f, l)
     /\ registry' = StoreLabel(f, l)
     /\ bindings' = bindings \cup {<<f, l>>}
     /\ grant' = None
     /\ UNCHANGED <<msk, ra, policies, attested>>
  \/ ~BindAccepts(f, l) /\ Refuse

\* q is a quote of full size.  The cache is filled before the policy check and
\* cleared again when the measurement is not the one the policy asks for.
ecall_verify_quote_for_fid(f, q) ==
  /\ \/ /\ PolicyOf(f) \in {None, q.mr}
        /\ ra' = [ok |-> TRUE, fid |-> KeptFid[f], mr |-> q.mr, rd |-> q.rd]
        /\ attested' = [attested EXCEPT ![KeptFid[f]] = q]
     \/ /\ PolicyOf(f) \notin {None, q.mr}
        /\ ra' = NoAttestation
        /\ UNCHANGED attested
  /\ grant' = None
  /\ UNCHANGED <<msk, registry, policies, bindings>>

\* A missing FID or a quote shorter than header and report body: the cache has
\* already been reset when the size is looked at.
ecall_verify_malformed_quote ==
  /\ ra' = NoAttestation
  /\ grant' = None
  /\ UNCHANGED <<msk, registry, history>>

\* The host may not set the result; the call only clears it.  report_data stays.
ecall_set_ra_result ==
  /\ ra' = [ra EXCEPT !.ok = FALSE, !.mr = None, !.fid = None]
  /\ grant' = None
  /\ UNCHANGED <<msk, registry, history>>

Release(g) == grant' = g /\ UNCHANGED <<state, history>>

EccGrant(f, pk, l, dklabel) ==
  [profile |-> "eccibe", fid |-> f, label |-> l, pk |-> pk,
   dkf |-> derive_key_pair(f), dklabel |-> dklabel]

ecall_get_key(f, pk) ==
  \/ KeyGate(f, pk) /\ Release(EccGrant(f, pk, None, None))
  \/ Refuse

\* dkf is wrapped before the label is looked at: when the label is not bound (or
\* wrapping its key fails) the call returns -1 with dkf in its output buffer.
ecall_derive_keys_batch(f, l, pk) ==
  \/ /\ KeyGate(f, pk)
     /\ is_label_bound_to_fid(f, l)
     /\ Release(EccGrant(f, pk, l, derive_label_key(l)))
  \/ KeyGate(f, pk) /\ Release(EccGrant(f, pk, None, None))
  \/ Refuse

\* BF-IBE extracts both private keys from the master secret, default_fid too,
\* and always binds the release to the attested public key.
ecall_get_bfibe_key_release(f, l, pk) ==
  \/ /\ msk # None
     /\ verify_ra_for_fid(f)
     /\ verify_report_data_binding(pk)
     /\ is_label_bound_to_fid(f, l)
     /\ Release([profile |-> "bfibe", fid |-> f, label |-> l, pk |-> pk,
                 dkf |-> <<msk, f>>, dklabel |-> <<msk, l>>])
  \/ Refuse

-----------------------------------------------------------------------------
InitStep == \E blob \in MSK \cup {None}, fresh \in MSK : ecall_init_kms(blob, fresh)
RegisterStep == \E f \in FID, m \in MRE : ecall_register_policy_fid(f, m)
BindStep == \E f \in FID, l \in Label : ecall_bind_label_to_fid(f, l)
VerifyStep == \E f \in FID, q \in Quote : ecall_verify_quote_for_fid(f, q)
GetKeyStep == \E f \in FID, pk \in PK : ecall_get_key(f, pk)
BatchStep == \E f \in FID, l \in Label, pk \in PK : ecall_derive_keys_batch(f, l, pk)
BfibeStep == \E f \in FID, l \in Label, pk \in PK : ecall_get_bfibe_key_release(f, l, pk)

Next ==
  \/ InitStep
  \/ RegisterStep
  \/ BindStep
  \/ VerifyStep
  \/ ecall_verify_malformed_quote
  \/ ecall_set_ra_result
  \/ GetKeyStep
  \/ BatchStep
  \/ BfibeStep

Spec == Init /\ [][Next]_vars

-----------------------------------------------------------------------------
(* Properties. *)

Fits(f) == KeptFid[f] = f

\* A key of a FID that has a policy leaves the enclave only on the strength of the
\* quote last accepted for that very FID, with the measurement the policy asks for
\* and wrapped to the public key the quote carries: no order of verifications for
\* other FIDs, registrations and host resets gets round verify_ra_for_fid.
ReleaseAttested ==
  grant # None /\ PolicyOf(grant.fid) # None =>
    LET q == attested[grant.fid] IN
      /\ q # None
      /\ q.mr = PolicyOf(grant.fid)
      /\ grant.profile = "bfibe" \/ grant.fid # DefaultFid => q.rd = grant.pk

\* With or without a policy, keys (but for default_fid's) are wrapped to a public
\* key that an accepted quote carried: verify_report_data_binding.
ReleaseToAttestedKey ==
  grant # None /\ (grant.profile = "bfibe" \/ grant.fid # DefaultFid) =>
    \E f \in FID : attested[f] # None /\ attested[f].rd = grant.pk

\* A label key leaves the enclave only under a FID it was bound to by a binding the
\* KMS accepted (under the names the registry stores): BindLabelToFID.
LabelKeyBound ==
  grant # None /\ grant.dklabel # None =>
    \E b \in bindings : KeptFid[b[1]] = grant.fid /\ KeptLabel[b[2]] = grant.label

\* The policy whose registration returned 0 stays the one in force, whatever is
\* registered and bound afterwards, for every FID that fits its field.
PolicyEnforced == \A f \in FID : Fits(f) => policies[f] \subseteq {PolicyOf(f)}

\* "policyFID is write-once (first-writer-wins)", of every FID a caller may name:
\* no two registrations that ask for different measurements both return 0.
PolicyWriteOnce == \A f \in FID : \A m, n \in policies[f] : m = n

\* A label whose binding returned 0 is found bound ever after, when the FID and the
\* label fit their fields.
BindingsHold ==
  \A b \in bindings :
    Fits(b[1]) /\ KeptLabel[b[2]] = b[2] => is_label_bound_to_fid(b[1], b[2])

\* The enclave implements the key-release policy: the array with its truncated
\* names, its capacity and its linear search is a map from FIDs to policies and
\* label sets, the cache is a session, every release is one the policy allows.
Policy == INSTANCE KeyReleasePolicy WITH
  policy <- [f \in FID |-> PolicyOf(f)],
  bound <- [f \in FID |-> BoundLabels(f)],
  session <- IF ra.ok THEN [fid |-> ra.fid, mr |-> ra.mr, rd |-> ra.rd] ELSE None,
  granted <- IF grant = None THEN None
             ELSE [profile |-> grant.profile, fid |-> grant.fid, label |-> grant.label,
                   pk |-> grant.pk]
ImplementsKeyReleasePolicy == Policy!Spec
=============================================================================
