-------------------------- MODULE KmsEnclaveProofs --------------------------
(***************************************************************************)
(* Proofs about the KMS enclave, for every set of FIDs, labels, quotes and *)
(* keys, every truncation and every capacity: what is released, then the   *)
(* labels of the registry, and that it implements KeyReleasePolicy, the    *)
(* look-ups in the array being a map of policies and a map of label sets.  *)
(***************************************************************************)
EXTENDS KmsEnclave, TLAPS

\* Every name in the registry is one strncpy produced.
StoredNames == \A i \in DOMAIN registry : KeptFid[registry[i].fid] = registry[i].fid

\* The linear search finds a first entry whenever there is one.
FirstEntryExists ==
  \A f \in FID : Known(f) => \E i \in Matching(f) : \A j \in Matching(f) : i <= j

\* A cached verification is the quote last accepted under the cached name.
CacheIsAttested ==
  ra.ok =>
    /\ ra.fid \in FID /\ ra.mr \in MRE /\ ra.rd \in PK
    /\ attested[ra.fid] = [mr |-> ra.mr, rd |-> ra.rd]

IInv ==
  /\ TypeOK
  /\ StoredNames
  /\ FirstEntryExists
  /\ CacheIsAttested
  /\ PolicyEnforced
  /\ ReleaseAttested
  /\ ReleaseToAttestedKey

-----------------------------------------------------------------------------
(* The registry as an array searched from its start. *)

LEMMA Lookup ==
  ASSUME FirstEntryExists, NEW f \in FID, Known(f)
  PROVE  /\ find_policy(f) \in Matching(f)
         /\ \A j \in Matching(f) : find_policy(f) <= j
BY DEF FirstEntryExists, find_policy

LEMMA PolicyType ==
  ASSUME TypeOK, FirstEntryExists, NEW f \in FID
  PROVE  PolicyOf(f) \in MRE \cup {None}
<1>1. CASE Known(f)
  <2>1. find_policy(f) \in DOMAIN registry
    BY <1>1, Lookup DEF Matching
  <2>2. registry[find_policy(f)] \in Entry
    BY <2>1 DEF TypeOK
  <2>3. QED
    BY <1>1, <2>2 DEF PolicyOf, Entry
<1>2. CASE ~Known(f)
  BY <1>2 DEF PolicyOf
<1>3. QED
  BY <1>1, <1>2

\* Appending an entry changes only the look-up of its own name, and only when that
\* name was unknown.
LEMMA AppendedEntry ==
  ASSUME TypeOK, FirstEntryExists, NEW e \in Entry, registry' = Append(registry, e),
         NEW g \in FID
  PROVE  /\ Known(g) => Known(g)' /\ find_policy(g)' = find_policy(g)
                        /\ registry'[find_policy(g)] = registry[find_policy(g)]
         /\ ~Known(g) /\ e.fid = g =>
              Known(g)' /\ find_policy(g)' = Len(registry) + 1 /\ registry'[find_policy(g)'] = e
         /\ ~Known(g) /\ e.fid # g => ~Known(g)'
         /\ Known(g)' => \E i \in Matching(g)' : \A j \in Matching(g)' : i <= j
<1> DEFINE n == Len(registry)
<1>1. /\ n \in Nat
      /\ DOMAIN registry = 1 .. n
      /\ DOMAIN registry' = 1 .. n + 1
      /\ \A i \in 1 .. n : registry'[i] = registry[i]
      /\ registry'[n + 1] = e
  BY DEF TypeOK
<1>2. Matching(g)' = IF e.fid = g THEN Matching(g) \cup {n + 1} ELSE Matching(g)
  BY <1>1 DEF Matching
<1>3. CASE Known(g)
  <2>1. find_policy(g) \in Matching(g) /\ \A j \in Matching(g) : find_policy(g) <= j
    BY <1>3, Lookup
  <2>2. find_policy(g) \in 1 .. n
    BY <1>1, <2>1 DEF Matching
  <2>3. find_policy(g) \in Matching(g)' /\ \A j \in Matching(g)' : find_policy(g) <= j
    BY <1>1, <1>2, <2>1, <2>2
  <2>4. \A i \in Matching(g)' : (\A j \in Matching(g)' : i <= j) => i = find_policy(g)
    <3>1. Matching(g)' \subseteq Nat
      BY <1>1 DEF Matching
    <3>2. QED
      BY <2>2, <2>3, <3>1
  <2>5. find_policy(g)' = find_policy(g)
    BY <2>3, <2>4 DEF find_policy
  <2>6. QED
    BY <1>1, <1>3, <2>2, <2>3, <2>5 DEF Known
<1>4. CASE ~Known(g) /\ e.fid = g
  <2>1. Matching(g)' = {n + 1}
    BY <1>2, <1>4 DEF Known
  <2>2. find_policy(g)' = n + 1
    BY <1>1, <2>1 DEF find_policy
  <2>3. QED
    BY <1>1, <1>4, <2>1, <2>2 DEF Known
<1>5. CASE ~Known(g) /\ e.fid # g
  BY <1>2, <1>5 DEF Known
<1>6. QED
  BY <1>3, <1>4, <1>5

LEMMA AppendedPolicy ==
  ASSUME TypeOK, FirstEntryExists, NEW e \in Entry, registry' = Append(registry, e),
         NEW g \in FID
  PROVE  PolicyOf(g)' = IF ~Known(g) /\ e.fid = g THEN e.policy ELSE PolicyOf(g)
<1>1. CASE Known(g)
  <2>1. Known(g)' /\ find_policy(g)' = find_policy(g)
        /\ registry'[find_policy(g)] = registry[find_policy(g)]
    BY <1>1, AppendedEntry
  <2>2. QED
    BY <1>1, <2>1 DEF PolicyOf
<1>2. CASE ~Known(g) /\ e.fid = g
  <2>1. Known(g)' /\ find_policy(g)' = Len(registry) + 1 /\ registry'[find_policy(g)'] = e
    BY <1>2, AppendedEntry
  <2>2. QED
    BY <1>2, <2>1 DEF PolicyOf
<1>3. CASE ~Known(g) /\ e.fid # g
  <2>1. ~Known(g)'
    BY <1>3, AppendedEntry
  <2>2. QED
    BY <1>3, <2>1 DEF PolicyOf
<1>4. QED
  BY <1>1, <1>2, <1>3

\* Rewriting an entry under the same name changes no look-up.
LEMMA RewrittenEntry ==
  ASSUME TypeOK, NEW i \in DOMAIN registry, NEW e \in Entry, e.fid = registry[i].fid,
         registry' = [registry EXCEPT ![i] = e], NEW g \in FID
  PROVE  Matching(g)' = Matching(g) /\ find_policy(g)' = find_policy(g)
                      /\ (Known(g)' <=> Known(g))
<1>1. Matching(g)' = Matching(g)
  BY DEF TypeOK, Matching
<1>2. QED
  BY <1>1 DEF find_policy, Known

-----------------------------------------------------------------------------
(* The steps that write the registry keep the look-ups in order. *)

RegistryInv == TypeOK /\ StoredNames /\ FirstEntryExists

\* Storing a policy where register_policy_fid accepts it puts it in force for the
\* stored name and disturbs no other FID.
LEMMA PolicyStored ==
  ASSUME KmsAssumption, RegistryInv, NEW f \in FID, NEW m \in MRE, RegisterAccepts(f),
         registry' = StorePolicy(f, m)
  PROVE  /\ registry' \in Seq(Entry) /\ Len(registry') <= MaxEntries
         /\ StoredNames' /\ FirstEntryExists'
         /\ \A g \in FID : PolicyOf(g)' = IF PolicyOf(g) = None /\ g = KeptFid[f]
                                              /\ (Known(f) \/ ~Known(g))
                                           THEN m ELSE PolicyOf(g)
<1> USE DEF RegistryInv
<1>1. CASE Known(f)
  <2> DEFINE i == find_policy(f)
             e == [registry[i] EXCEPT !.policy = m]
  <2>1. i \in DOMAIN registry /\ registry[i].fid = f
    BY <1>1, Lookup DEF Matching
  <2>2. registry[i] \in Entry
    BY <2>1 DEF TypeOK
  <2>3. e \in Entry /\ e.fid = f /\ e.policy = m
    BY <2>1, <2>2 DEF Entry
  <2>4. registry' = [registry EXCEPT ![i] = e]
    BY <1>1 DEF StorePolicy
  <2>5. registry' \in Seq(Entry) /\ Len(registry') = Len(registry)
    BY <2>1, <2>3, <2>4 DEF TypeOK
  <2>6. KeptFid[f] = f
    BY <2>1 DEF StoredNames
  <2>7. StoredNames'
    BY <2>1, <2>3, <2>4, <2>6 DEF StoredNames, TypeOK
  <2>8. \A g \in FID : Matching(g)' = Matching(g) /\ find_policy(g)' = find_policy(g)
                       /\ (Known(g)' <=> Known(g))
    BY <2>1, <2>3, <2>4, RewrittenEntry
  <2>9. FirstEntryExists'
    BY <2>8 DEF FirstEntryExists
  <2>10. PolicyOf(f) = None
    BY <1>1 DEF RegisterAccepts
  <2>11. ASSUME NEW g \in FID
         PROVE  PolicyOf(g)' = IF g = f THEN m ELSE PolicyOf(g)
    <3>1. CASE ~Known(g)
      BY <1>1, <2>8, <3>1 DEF PolicyOf
    <3>2. CASE Known(g) /\ g = f
      BY <2>1, <2>3, <2>4, <2>8, <3>2 DEF PolicyOf, TypeOK
    <3>3. CASE Known(g) /\ g # f
      <4>1. find_policy(g) \in DOMAIN registry /\ registry[find_policy(g)].fid = g
        BY <3>3, Lookup DEF Matching
      <4>2. registry'[find_policy(g)] = registry[find_policy(g)]
        BY <2>1, <2>4, <3>3, <4>1 DEF TypeOK
      <4>3. QED
        BY <2>8, <3>3, <4>2 DEF PolicyOf
    <3>4. QED
      BY <3>1, <3>2, <3>3
  <2>12. QED
    BY <1>1, <2>5, <2>6, <2>7, <2>9, <2>10, <2>11 DEF TypeOK
<1>2. CASE ~Known(f)
  <2> DEFINE e == [fid |-> KeptFid[f], policy |-> m, labels |-> <<>>]
  <2>1. e \in Entry /\ KeptFid[f] \in FID /\ KeptFid[KeptFid[f]] = KeptFid[f]
    BY DEF Entry, KmsAssumption
  <2>2. registry' = Append(registry, e) /\ Len(registry) < MaxEntries
    BY <1>2 DEF StorePolicy, RegisterAccepts
  <2>3. registry' \in Seq(Entry) /\ Len(registry') <= MaxEntries
    BY <2>1, <2>2 DEF TypeOK, KmsAssumption
  <2>4. StoredNames'
    BY <2>1, <2>2 DEF StoredNames, TypeOK
  <2>5. FirstEntryExists'
    BY <2>1, <2>2, AppendedEntry DEF FirstEntryExists
  <2>6. ASSUME NEW g \in FID
        PROVE  PolicyOf(g)' = IF ~Known(g) /\ g = KeptFid[f] THEN m ELSE PolicyOf(g)
    <3>1. PolicyOf(g)' = IF ~Known(g) /\ e.fid = g THEN e.policy ELSE PolicyOf(g)
      BY <2>1, <2>2, AppendedPolicy
    <3>2. QED
      BY <3>1
  <2>7. \A g \in FID : ~Known(g) => PolicyOf(g) = None
    BY DEF PolicyOf
  <2>8. QED
    BY <1>2, <2>3, <2>4, <2>5, <2>6, <2>7
<1>3. QED
  BY <1>1, <1>2

\* Storing a label leaves every policy as it is.
LEMMA LabelStored ==
  ASSUME KmsAssumption, RegistryInv, NEW f \in FID, NEW l \in Label, BindAccepts(f, l),
         registry' = StoreLabel(f, l)
  PROVE  /\ registry' \in Seq(Entry) /\ Len(registry') <= MaxEntries
         /\ StoredNames' /\ FirstEntryExists'
         /\ \A g \in FID : PolicyOf(g)' = PolicyOf(g)
<1> USE DEF RegistryInv
<1>1. KeptLabel[l] \in Label
  BY DEF KmsAssumption
<1>2. CASE ~Known(f)
  <2> DEFINE e == [fid |-> KeptFid[f], policy |-> None, labels |-> <<KeptLabel[l]>>]
  <2>1. e \in Entry /\ KeptFid[f] \in FID /\ KeptFid[KeptFid[f]] = KeptFid[f]
    BY <1>1 DEF Entry, KmsAssumption
  <2>2. registry' = Append(registry, e) /\ Len(registry) < MaxEntries
    BY <1>2 DEF StoreLabel, BindAccepts
  <2>3. registry' \in Seq(Entry) /\ Len(registry') <= MaxEntries
    BY <2>1, <2>2 DEF TypeOK, KmsAssumption
  <2>4. StoredNames'
    BY <2>1, <2>2 DEF StoredNames, TypeOK
  <2>5. FirstEntryExists'
    BY <2>1, <2>2, AppendedEntry DEF FirstEntryExists
  <2>6. ASSUME NEW g \in FID
        PROVE  PolicyOf(g)' = PolicyOf(g)
    <3>1. PolicyOf(g)' = IF ~Known(g) /\ e.fid = g THEN e.policy ELSE PolicyOf(g)
      BY <2>1, <2>2, AppendedPolicy
    <3>2. ~Known(g) => PolicyOf(g) = None
      BY DEF PolicyOf
    <3>3. QED
      BY <3>1, <3>2
  <2>7. QED
    BY <2>3, <2>4, <2>5, <2>6
<1>3. CASE Known(f) /\ l \in BoundLabels(f)
  <2>1. registry' = registry
    BY <1>3 DEF StoreLabel
  <2>2. QED
    BY <2>1 DEF TypeOK, StoredNames, FirstEntryExists, PolicyOf, Known, Matching, find_policy
<1>4. CASE Known(f) /\ l \notin BoundLabels(f)
  <2> DEFINE i == find_policy(f)
             e == [registry[i] EXCEPT !.labels = Append(@, KeptLabel[l])]
  <2>1. i \in DOMAIN registry /\ registry[i].fid = f
    BY <1>4, Lookup DEF Matching
  <2>2. registry[i] \in Entry
    BY <2>1 DEF TypeOK
  <2>3. e \in Entry /\ e.fid = f /\ e.policy = registry[i].policy
    <3>1. Append(registry[i].labels, KeptLabel[l]) \in Seq(Label)
      BY <1>1, <2>2 DEF Entry
    <3>2. QED
      BY <2>1, <2>2, <3>1 DEF Entry
  <2>4. registry' = [registry EXCEPT ![i] = e]
    BY <1>4 DEF StoreLabel
  <2>5. registry' \in Seq(Entry) /\ Len(registry') = Len(registry)
    BY <2>1, <2>3, <2>4 DEF TypeOK
  <2>6. StoredNames'
    BY <2>1, <2>3, <2>4 DEF StoredNames, TypeOK
  <2>7. \A g \in FID : Matching(g)' = Matching(g) /\ find_policy(g)' = find_policy(g)
                       /\ (Known(g)' <=> Known(g))
    BY <2>1, <2>3, <2>4, RewrittenEntry
  <2>8. FirstEntryExists'
    BY <2>7 DEF FirstEntryExists
  <2>9. ASSUME NEW g \in FID
        PROVE  PolicyOf(g)' = PolicyOf(g)
    <3>1. CASE ~Known(g)
      BY <2>7, <3>1 DEF PolicyOf
    <3>2. CASE Known(g)
      <4>1. find_policy(g) \in DOMAIN registry
        BY <3>2, Lookup DEF Matching
      <4>2. registry'[find_policy(g)].policy = registry[find_policy(g)].policy
        BY <2>1, <2>3, <2>4, <4>1 DEF TypeOK
      <4>3. QED
        BY <2>7, <3>2, <4>2 DEF PolicyOf
    <3>3. QED
      BY <3>1, <3>2
  <2>10. QED
    BY <2>5, <2>6, <2>8, <2>9 DEF TypeOK
<1>5. QED
  BY <1>2, <1>3, <1>4

-----------------------------------------------------------------------------
(* The inductive invariant. *)

LEMMA InitIInv == ASSUME KmsAssumption PROVE Init => IInv
<1> SUFFICES ASSUME Init PROVE IInv
  OBVIOUS
<1>1. \A f \in FID : Matching(f) = {} /\ ~Known(f) /\ PolicyOf(f) = None
  <2>1. DOMAIN registry = {}
    BY DEF Init
  <2>2. QED
    BY <2>1 DEF Matching, Known, PolicyOf
<1>2. TypeOK
  BY DEF Init, TypeOK, NoAttestation, Attestation, KmsAssumption
<1>3. QED
  BY <1>1, <1>2 DEF Init, IInv, StoredNames, FirstEntryExists, CacheIsAttested,
     NoAttestation, PolicyEnforced, ReleaseAttested, ReleaseToAttestedKey

\* Calls that leave the registry and the histories alone and write no key.
LEMMA QuietStep ==
  ASSUME KmsAssumption, IInv, registry' = registry, grant' = None,
         UNCHANGED <<policies, bindings, attested>>,
         msk' \in MSK \cup {None}, ra' \in Attestation, CacheIsAttested'
  PROVE  IInv'
<1>1. TypeOK'
  BY DEF IInv, TypeOK
<1>2. \A f \in FID : Matching(f)' = Matching(f) /\ Known(f)' = Known(f) /\ PolicyOf(f)' = PolicyOf(f)
  BY DEF Matching, Known, PolicyOf, find_policy
<1>3. QED
  BY <1>1, <1>2 DEF IInv, StoredNames, FirstEntryExists, PolicyEnforced,
     ReleaseAttested, ReleaseToAttestedKey

\* A release leaves everything but its output alone; what it may output is what the
\* gates let through.
LEMMA ReleaseStep ==
  ASSUME KmsAssumption, IInv, NEW g \in Grant, Release(g), verify_ra_for_fid(g.fid),
         g.profile = "bfibe" \/ g.fid # DefaultFid => verify_report_data_binding(g.pk)
  PROVE  IInv'
<1>1. UNCHANGED <<msk, registry, ra, policies, bindings, attested>> /\ grant' = g
  BY DEF Release, state, history
<1>2. TypeOK' /\ StoredNames' /\ FirstEntryExists' /\ CacheIsAttested' /\ PolicyEnforced'
  BY <1>1 DEF IInv, TypeOK, StoredNames, FirstEntryExists, CacheIsAttested, PolicyEnforced,
     PolicyOf, Known, Matching, find_policy
<1>3. PolicyOf(g.fid)' = PolicyOf(g.fid) /\ g.fid \in FID
  BY <1>1 DEF PolicyOf, Known, Matching, find_policy, Grant
<1>4. ReleaseAttested'
  <2>1. CASE PolicyOf(g.fid) = None
    BY <1>1, <1>3, <2>1 DEF ReleaseAttested
  <2>2. CASE PolicyOf(g.fid) # None
    <3>1. ra.ok /\ ra.fid = g.fid /\ ra.mr = PolicyOf(g.fid)
      BY <2>2 DEF verify_ra_for_fid
    <3>2. attested[g.fid] = [mr |-> ra.mr, rd |-> ra.rd] /\ attested[g.fid] # None
      <4>1. [mr |-> ra.mr, rd |-> ra.rd] \in Quote
        BY <3>1 DEF IInv, CacheIsAttested, Quote
      <4>2. QED
        BY <3>1, <4>1 DEF IInv, CacheIsAttested, KmsAssumption
    <3>3. QED
      BY <1>1, <1>3, <3>1, <3>2 DEF ReleaseAttested, verify_report_data_binding
  <2>3. QED
    BY <2>1, <2>2
<1>5. ReleaseToAttestedKey'
  <2>1. ASSUME verify_report_data_binding(g.pk)
        PROVE  \E f \in FID : attested[f] # None /\ attested[f].rd = g.pk
    <3>1. ra.ok /\ ra.rd = g.pk
      BY <2>1 DEF verify_report_data_binding
    <3>2. [mr |-> ra.mr, rd |-> ra.rd] \in Quote /\ ra.fid \in FID
          /\ attested[ra.fid] = [mr |-> ra.mr, rd |-> ra.rd]
      BY <3>1 DEF IInv, CacheIsAttested, Quote
    <3>3. attested[ra.fid] # None /\ attested[ra.fid].rd = g.pk
      BY <3>1, <3>2 DEF KmsAssumption
    <3>4. QED
      BY <3>2, <3>3
  <2>2. QED
    BY <1>1, <2>1 DEF ReleaseToAttestedKey
<1>6. QED
  BY <1>2, <1>4, <1>5 DEF IInv

LEMMA EccRelease ==
  ASSUME KmsAssumption, IInv, NEW f \in FID, NEW pk \in PK, NEW l \in Label \cup {None},
         NEW k \in Key \cup {None}, KeyGate(f, pk), Release(EccGrant(f, pk, l, k))
  PROVE  IInv'
<1>1. EccGrant(f, pk, l, k) \in Grant
  BY DEF EccGrant, Grant, Key, derive_key_pair, IInv, TypeOK
<1>2. QED
  BY <1>1, ReleaseStep DEF EccGrant, KeyGate

LEMMA NextIInv == ASSUME KmsAssumption, IInv, [Next]_vars PROVE IInv'
<1> USE DEF IInv
<1>1. CASE UNCHANGED vars
  <2>1. UNCHANGED <<msk, registry, ra, grant, policies, bindings, attested>>
    BY <1>1 DEF vars, state, history
  <2>2. \A f : Matching(f)' = Matching(f) /\ Known(f)' = Known(f) /\ PolicyOf(f)' = PolicyOf(f)
    BY <2>1 DEF Matching, Known, PolicyOf, find_policy
  <2>3. TypeOK' /\ StoredNames' /\ FirstEntryExists' /\ CacheIsAttested'
    BY <2>1, <2>2 DEF TypeOK, StoredNames, FirstEntryExists, CacheIsAttested
  <2>4. PolicyEnforced' /\ ReleaseAttested' /\ ReleaseToAttestedKey'
    BY <2>1, <2>2 DEF PolicyEnforced, ReleaseAttested, ReleaseToAttestedKey
  <2>5. QED
    BY <2>3, <2>4
<1>2. ASSUME Refuse PROVE IInv'
  BY <1>2, QuietStep DEF Refuse, state, history, TypeOK, CacheIsAttested
<1>3. CASE InitStep
  BY <1>3, QuietStep DEF InitStep, ecall_init_kms, history, TypeOK, CacheIsAttested
<1>4. CASE RegisterStep
  <2> SUFFICES ASSUME NEW f \in FID, NEW m \in MRE, ecall_register_policy_fid(f, m)
               PROVE  IInv'
    BY <1>4 DEF RegisterStep
  <2>1. CASE ~RegisterAccepts(f) /\ Refuse
    BY <1>2, <2>1
  <2>2. CASE RegisterAccepts(f) /\ ~Refuse
    <3>1. /\ registry' = StorePolicy(f, m)
          /\ policies' = [policies EXCEPT ![f] = @ \cup {m}]
          /\ grant' = None
          /\ UNCHANGED <<msk, ra, bindings, attested>>
      BY <2>2 DEF ecall_register_policy_fid
    <3>2. /\ registry' \in Seq(Entry) /\ Len(registry') <= MaxEntries
          /\ StoredNames' /\ FirstEntryExists'
      BY <2>2, <3>1, PolicyStored DEF RegistryInv
    <3>3. \A g \in FID : PolicyOf(g)' = IF PolicyOf(g) = None /\ g = KeptFid[f]
                                            /\ (Known(f) \/ ~Known(g))
                                         THEN m ELSE PolicyOf(g)
      BY <2>2, <3>1, PolicyStored DEF RegistryInv
    <3>4. PolicyOf(f) = None
      BY <2>2 DEF RegisterAccepts, PolicyOf
    <3>5. ASSUME NEW g \in FID, Fits(g)
          PROVE  policies'[g] \subseteq {PolicyOf(g)'}
      <4>1. policies[g] \subseteq {PolicyOf(g)} /\ policies[g] \subseteq MRE /\ None \notin MRE
        BY <3>5 DEF PolicyEnforced, TypeOK, KmsAssumption
      <4>2. CASE g = f
        <5>1. policies[f] = {} /\ policies'[f] = {m}
          BY <3>1, <3>4, <4>1, <4>2 DEF TypeOK
        <5>2. PolicyOf(f)' = m
          BY <3>3, <3>4, <3>5, <4>2 DEF Fits
        <5>3. QED
          BY <4>2, <5>1, <5>2
      <4>3. CASE g # f
        <5>1. policies'[g] = policies[g]
          BY <3>1, <4>3 DEF TypeOK
        <5>2. QED
          BY <3>3, <4>1, <5>1
      <4>4. QED
        BY <4>2, <4>3
    <3>6. QED
      BY <3>1, <3>2, <3>5 DEF TypeOK, CacheIsAttested, PolicyEnforced, ReleaseAttested,
         ReleaseToAttestedKey, Fits
  <2>3. QED
    BY <1>2, <2>1, <2>2 DEF ecall_register_policy_fid
<1>5. CASE BindStep
  <2> SUFFICES ASSUME NEW f \in FID, NEW l \in Label, ecall_bind_label_to_fid(f, l)
               PROVE  IInv'
    BY <1>5 DEF BindStep
  <2>1. CASE ~BindAccepts(f, l) /\ Refuse
    BY <1>2, <2>1
  <2>2. CASE BindAccepts(f, l) /\ ~Refuse
    <3>1. /\ registry' = StoreLabel(f, l)
          /\ bindings' = bindings \cup {<<f, l>>}
          /\ grant' = None
          /\ UNCHANGED <<msk, ra, policies, attested>>
      BY <2>2 DEF ecall_bind_label_to_fid
    <3>2. /\ registry' \in Seq(Entry) /\ Len(registry') <= MaxEntries
          /\ StoredNames' /\ FirstEntryExists'
          /\ \A g \in FID : PolicyOf(g)' = PolicyOf(g)
      BY <2>2, <3>1, LabelStored DEF RegistryInv
    <3>3. QED
      BY <3>1, <3>2 DEF TypeOK, CacheIsAttested, PolicyEnforced, ReleaseAttested,
         ReleaseToAttestedKey, Fits
  <2>3. QED
    BY <1>2, <2>1, <2>2 DEF ecall_bind_label_to_fid
<1>6. CASE VerifyStep
  <2> SUFFICES ASSUME NEW f \in FID, NEW q \in Quote, ecall_verify_quote_for_fid(f, q)
               PROVE  IInv'
    BY <1>6 DEF VerifyStep
  <2>1. CASE PolicyOf(f) \notin {None, q.mr}
    <3>1. ra' = NoAttestation /\ UNCHANGED attested
      BY <2>1 DEF ecall_verify_quote_for_fid
    <3>2. QED
      BY <3>1, QuietStep DEF ecall_verify_quote_for_fid, NoAttestation, Attestation, TypeOK,
         CacheIsAttested
  <2>2. CASE PolicyOf(f) \in {None, q.mr}
    <3>1. /\ ra' = [ok |-> TRUE, fid |-> KeptFid[f], mr |-> q.mr, rd |-> q.rd]
          /\ attested' = [attested EXCEPT ![KeptFid[f]] = q]
          /\ UNCHANGED <<msk, registry, policies, bindings>> /\ grant' = None
      BY <2>2 DEF ecall_verify_quote_for_fid
    <3>2. KeptFid[f] \in FID /\ q.mr \in MRE /\ q.rd \in PK
          /\ q = [mr |-> q.mr, rd |-> q.rd]
      BY DEF KmsAssumption, Quote
    <3>3. TypeOK' /\ CacheIsAttested'
      BY <3>1, <3>2 DEF TypeOK, Attestation, CacheIsAttested
    <3>4. \A g \in FID : Matching(g)' = Matching(g) /\ Known(g)' = Known(g)
                         /\ PolicyOf(g)' = PolicyOf(g)
      BY <3>1 DEF Matching, Known, PolicyOf, find_policy
    <3>5. QED
      BY <3>1, <3>3, <3>4 DEF StoredNames, FirstEntryExists, PolicyEnforced, ReleaseAttested,
         ReleaseToAttestedKey, Fits
  <2>3. QED
    BY <2>1, <2>2
<1>7. CASE ecall_verify_malformed_quote
  BY <1>7, QuietStep DEF ecall_verify_malformed_quote, history, NoAttestation, Attestation,
     TypeOK, CacheIsAttested
<1>8. CASE ecall_set_ra_result
  <2>1. ra' \in Attestation /\ ra'.ok = FALSE
    BY <1>8 DEF ecall_set_ra_result, TypeOK, Attestation
  <2>2. QED
    BY <1>8, <2>1, QuietStep DEF ecall_set_ra_result, history, TypeOK, CacheIsAttested
<1>9. CASE GetKeyStep
  <2> SUFFICES ASSUME NEW f \in FID, NEW pk \in PK, ecall_get_key(f, pk)
               PROVE  IInv'
    BY <1>9 DEF GetKeyStep
  <2>1. CASE KeyGate(f, pk) /\ Release(EccGrant(f, pk, None, None))
    BY <2>1, EccRelease
  <2>2. QED
    BY <1>2, <2>1 DEF ecall_get_key
<1>10. CASE BatchStep
  <2> SUFFICES ASSUME NEW f \in FID, NEW l \in Label, NEW pk \in PK,
                      ecall_derive_keys_batch(f, l, pk)
               PROVE  IInv'
    BY <1>10 DEF BatchStep
  <2>1. CASE KeyGate(f, pk) /\ Release(EccGrant(f, pk, l, derive_label_key(l)))
    <3>1. derive_label_key(l) \in Key
      BY DEF derive_label_key, Key, TypeOK
    <3>2. QED
      BY <2>1, <3>1, EccRelease
  <2>2. CASE KeyGate(f, pk) /\ Release(EccGrant(f, pk, None, None))
    BY <2>2, EccRelease
  <2>3. QED
    BY <1>2, <2>1, <2>2 DEF ecall_derive_keys_batch
<1>11. CASE BfibeStep
  <2> SUFFICES ASSUME NEW f \in FID, NEW l \in Label, NEW pk \in PK,
                      ecall_get_bfibe_key_release(f, l, pk)
               PROVE  IInv'
    BY <1>11 DEF BfibeStep
  <2> DEFINE g == [profile |-> "bfibe", fid |-> f, label |-> l, pk |-> pk,
                   dkf |-> <<msk, f>>, dklabel |-> <<msk, l>>]
  <2>1. CASE msk # None /\ verify_ra_for_fid(f) /\ verify_report_data_binding(pk) /\ Release(g)
    <3>1. g \in Grant
      BY DEF Grant, Key, TypeOK
    <3>2. QED
      BY <2>1, <3>1, ReleaseStep
  <2>2. QED
    BY <1>2, <2>1 DEF ecall_get_bfibe_key_release
<1>12. QED
  BY <1>1, <1>3, <1>4, <1>5, <1>6, <1>7, <1>8, <1>9, <1>10, <1>11 DEF Next

\* The enclave's invariant holds in every reachable state.
THEOREM Invariance == Spec => []IInv
<1>1. Init => IInv
  BY InitIInv, KmsAssumption
<1>2. IInv /\ [Next]_vars => IInv'
  BY NextIInv, KmsAssumption
<1>3. QED
  BY <1>1, <1>2, PTL DEF Spec

\* The registry never outgrows its array and every cell holds what its C type says.
THEOREM TypeCorrect == Spec => []TypeOK
<1>1. IInv => TypeOK
  BY DEF IInv
<1>2. QED
  BY <1>1, Invariance, PTL

\* Keys of a FID under policy are released only on the strength of the quote last
\* accepted for that FID, whatever ECALLs the host makes in between.
THEOREM ReleaseIsAttested == Spec => []ReleaseAttested
<1>1. IInv => ReleaseAttested
  BY DEF IInv
<1>2. QED
  BY <1>1, Invariance, PTL

\* Keys other than default_fid's are wrapped only to attested public keys.
THEOREM ReleaseIsToAttestedKey == Spec => []ReleaseToAttestedKey
<1>1. IInv => ReleaseToAttestedKey
  BY DEF IInv
<1>2. QED
  BY <1>1, Invariance, PTL

\* A registered policy stays in force, for every FID that fits its field.
THEOREM PolicyIsEnforced == Spec => []PolicyEnforced
<1>1. IInv => PolicyEnforced
  BY DEF IInv
<1>2. QED
  BY <1>1, Invariance, PTL

-----------------------------------------------------------------------------
(* The labels in force, and the policy the registry implements. *)

\* A label that is found bound to a stored name got there by a binding that was accepted.
BoundByBinding ==
  \A f \in FID : \A l \in BoundLabels(f) :
    \E b \in bindings : KeptFid[b[1]] = f /\ KeptLabel[b[2]] = l

LabelInv == IInv /\ BoundByBinding /\ LabelKeyBound /\ BindingsHold

-----------------------------------------------------------------------------
(* What the writes to the registry do to the labels. *)

LEMMA LabelsType ==
  ASSUME RegistryInv, NEW f \in FID
  PROVE  BoundLabels(f) \subseteq Label
<1>1. CASE Known(f)
  <2>1. find_policy(f) \in DOMAIN registry
    BY <1>1, Lookup DEF RegistryInv, Matching
  <2>2. registry[find_policy(f)] \in Entry
    BY <2>1 DEF RegistryInv, TypeOK
  <2>3. registry[find_policy(f)].labels \in Seq(Label)
    BY <2>2 DEF Entry
  <2> QED
    BY <1>1, <2>3 DEF BoundLabels
<1>2. CASE ~Known(f)
  BY <1>2 DEF BoundLabels
<1> QED
  BY <1>1, <1>2

\* An entry that is appended brings its labels to its name, when the name is new.
LEMMA AppendedLabels ==
  ASSUME RegistryInv, NEW e \in Entry, registry' = Append(registry, e), NEW g \in FID
  PROVE  BoundLabels(g)' = IF ~Known(g) /\ e.fid = g
                             THEN {e.labels[k] : k \in DOMAIN e.labels}
                             ELSE BoundLabels(g)
<1>1. TypeOK /\ FirstEntryExists
  BY DEF RegistryInv
<1>2. CASE Known(g)
  <2>1. Known(g)' /\ find_policy(g)' = find_policy(g)
        /\ registry'[find_policy(g)] = registry[find_policy(g)]
    BY <1>1, <1>2, AppendedEntry
  <2> QED
    BY <1>2, <2>1 DEF BoundLabels
<1>3. CASE ~Known(g) /\ e.fid = g
  <2>1. Known(g)' /\ registry'[find_policy(g)'] = e
    BY <1>1, <1>3, AppendedEntry
  <2> QED
    BY <1>3, <2>1 DEF BoundLabels
<1>4. CASE ~Known(g) /\ e.fid # g
  <2>1. ~Known(g)'
    BY <1>1, <1>4, AppendedEntry
  <2> QED
    BY <1>4, <2>1 DEF BoundLabels
<1> QED
  BY <1>2, <1>3, <1>4

\* An entry that is rewritten under its name has the labels written.
LEMMA RewrittenLabels ==
  ASSUME RegistryInv, NEW f \in FID, Known(f), NEW e \in Entry, e.fid = f,
         registry' = [registry EXCEPT ![find_policy(f)] = e], NEW g \in FID
  PROVE  BoundLabels(g)' = IF g = f THEN {e.labels[k] : k \in DOMAIN e.labels}
                                    ELSE BoundLabels(g)
<1> DEFINE i == find_policy(f)
<1>1. TypeOK /\ FirstEntryExists
  BY DEF RegistryInv
<1>2. i \in DOMAIN registry /\ registry[i].fid = f
  BY <1>1, Lookup DEF Matching
<1>3. find_policy(g)' = find_policy(g) /\ (Known(g)' <=> Known(g))
  BY <1>1, <1>2, RewrittenEntry
<1>4. CASE g = f
  <2>1. registry'[i] = e
    BY <1>1, <1>2 DEF TypeOK
  <2> QED
    BY <1>3, <1>4, <2>1 DEF BoundLabels
<1>5. CASE g # f /\ Known(g)
  <2>1. find_policy(g) \in DOMAIN registry /\ registry[find_policy(g)].fid = g
    BY <1>1, <1>5, Lookup DEF Matching
  <2>2. registry'[find_policy(g)] = registry[find_policy(g)]
    BY <1>1, <1>2, <1>5, <2>1 DEF TypeOK
  <2> QED
    BY <1>3, <1>5, <2>2 DEF BoundLabels
<1>6. CASE g # f /\ ~Known(g)
  BY <1>3, <1>6 DEF BoundLabels
<1> QED
  BY <1>4, <1>5, <1>6

\* register_policy_fid binds and unbinds nothing.
LEMMA PolicyKeepsLabels ==
  ASSUME RegistryInv, NEW f \in FID, NEW m \in MRE, registry' = StorePolicy(f, m), NEW g \in FID
  PROVE  BoundLabels(g)' = BoundLabels(g)
<1>1. CASE Known(f)
  <2> DEFINE i == find_policy(f)
             e == [registry[i] EXCEPT !.policy = m]
  <2>1. i \in DOMAIN registry /\ registry[i].fid = f
    BY <1>1, Lookup DEF Matching, RegistryInv
  <2>2. registry[i] \in Entry
    BY <2>1 DEF RegistryInv, TypeOK
  <2>3. e \in Entry /\ e.fid = f /\ e.labels = registry[i].labels
    BY <2>1, <2>2 DEF Entry
  <2>4. registry' = [registry EXCEPT ![i] = e]
    BY <1>1 DEF StorePolicy
  <2>5. BoundLabels(f) = {e.labels[k] : k \in DOMAIN e.labels}
    BY <1>1, <2>3 DEF BoundLabels
  <2> QED
    BY <1>1, <2>3, <2>4, <2>5, RewrittenLabels
<1>2. CASE ~Known(f)
  <2> DEFINE e == [fid |-> KeptFid[f], policy |-> m, labels |-> <<>>]
  <2>1. e \in Entry /\ {e.labels[k] : k \in DOMAIN e.labels} = {}
    BY KmsAssumption DEF KmsAssumption, Entry
  <2>2. registry' = Append(registry, e)
    BY <1>2 DEF StorePolicy
  <2>3. ~Known(g) => BoundLabels(g) = {}
    BY DEF BoundLabels
  <2> QED
    BY <2>1, <2>2, <2>3, AppendedLabels
<1> QED
  BY <1>1, <1>2

\* bind_label_to_fid adds what it kept of the label to what it kept of the FID, unless it
\* appended an entry under a name that is there already.
LEMMA LabelBound ==
  ASSUME RegistryInv, NEW f \in FID, NEW l \in Label, registry' = StoreLabel(f, l), NEW g \in FID
  PROVE  BoundLabels(g)' =
           IF /\ g = KeptFid[f] /\ (Known(g) <=> Known(f))
              /\ l \notin BoundLabels(f)
             THEN BoundLabels(g) \cup {KeptLabel[l]}
             ELSE BoundLabels(g)
<1>1. KeptLabel[l] \in Label /\ KeptFid[f] \in FID
  BY KmsAssumption DEF KmsAssumption
<1>2. CASE ~Known(f)
  <2> DEFINE e == [fid |-> KeptFid[f], policy |-> None, labels |-> <<KeptLabel[l]>>]
  <2>1. e \in Entry /\ {e.labels[k] : k \in DOMAIN e.labels} = {KeptLabel[l]}
    BY <1>1 DEF Entry
  <2>2. registry' = Append(registry, e)
    BY <1>2 DEF StoreLabel
  <2>3. \A h : ~Known(h) => BoundLabels(h) = {}
    BY DEF BoundLabels
  <2>4. BoundLabels(g)' = IF ~Known(g) /\ g = KeptFid[f] THEN {KeptLabel[l]} ELSE BoundLabels(g)
    BY <2>1, <2>2, AppendedLabels
  <2> QED
    BY <1>2, <2>3, <2>4
<1>3. CASE Known(f)
  <2> DEFINE i == find_policy(f)
             e == [registry[i] EXCEPT !.labels = Append(@, KeptLabel[l])]
  <2>1. i \in DOMAIN registry /\ registry[i].fid = f
    BY <1>3, Lookup DEF Matching, RegistryInv
  <2>2. registry[i] \in Entry
    BY <2>1 DEF RegistryInv, TypeOK
  <2>3. registry[i].labels \in Seq(Label)
    BY <2>2 DEF Entry
  <2>4. Append(registry[i].labels, KeptLabel[l]) \in Seq(Label)
    BY <1>1, <2>3
  <2>5. e \in Entry /\ e.fid = f /\ e.labels = Append(registry[i].labels, KeptLabel[l])
    BY <2>1, <2>2, <2>4 DEF Entry
  <2>6. {e.labels[k] : k \in DOMAIN e.labels} = BoundLabels(f) \cup {KeptLabel[l]}
    <3> DEFINE s == registry[i].labels
    <3>1. e.labels = Append(s, KeptLabel[l]) /\ s \in Seq(Label)
      BY <2>3, <2>5
    <3>2. BoundLabels(f) = {s[k] : k \in DOMAIN s}
      BY <1>3 DEF BoundLabels
    <3> HIDE DEF s, e
    <3>3. DOMAIN s = 1 .. Len(s) /\ DOMAIN e.labels = 1 .. Len(s) + 1 /\ Len(s) \in Nat
          /\ e.labels[Len(s) + 1] = KeptLabel[l] /\ \A k \in 1 .. Len(s) : e.labels[k] = s[k]
      BY <3>1
    <3> QED
      BY <3>2, <3>3
  <2>7. KeptFid[f] = f
    BY <2>1 DEF RegistryInv, StoredNames
  <2>8. CASE l \in BoundLabels(f)
    <3>1. registry' = registry
      BY <1>3, <2>8 DEF StoreLabel
    <3>2. BoundLabels(g)' = BoundLabels(g)
      BY <3>1 DEF BoundLabels, Known, Matching, find_policy
    <3> QED
      BY <2>8, <3>2
  <2>9. CASE l \notin BoundLabels(f)
    <3>1. registry' = [registry EXCEPT ![i] = e]
      BY <1>3, <2>9 DEF StoreLabel
    <3>2. BoundLabels(g)' = IF g = f THEN {e.labels[k] : k \in DOMAIN e.labels}
                                     ELSE BoundLabels(g)
      BY <1>3, <2>5, <3>1, RewrittenLabels
    <3> QED
      BY <1>3, <2>6, <2>7, <2>9, <3>2
  <2> QED
    BY <2>8, <2>9
<1> QED
  BY <1>2, <1>3

-----------------------------------------------------------------------------
(* The invariant of the labels. *)

\* Calls that leave the registry and the accepted bindings alone and write no key.
LEMMA LabelsUntouched ==
  ASSUME LabelInv, registry' = registry, bindings' = bindings
  PROVE  BoundByBinding' /\ BindingsHold' /\ (grant' = None => LabelKeyBound')
<1>1. \A f : BoundLabels(f)' = BoundLabels(f)
  BY DEF BoundLabels, Known, Matching, find_policy
<1> QED
  BY <1>1 DEF LabelInv, BoundByBinding, BindingsHold, LabelKeyBound, is_label_bound_to_fid, Fits

\* A release under a label that is found bound.
LEMMA LabelReleased ==
  ASSUME LabelInv, NEW f \in FID, NEW l \in Label \cup {None}, NEW g, Release(g),
         g.fid = f, g.label = l, g.dklabel = None \/ l \in BoundLabels(f)
  PROVE  BoundByBinding' /\ BindingsHold' /\ LabelKeyBound'
<1>1. UNCHANGED <<registry, bindings>> /\ grant' = g
  BY DEF Release, state, history
<1>2. BoundByBinding' /\ BindingsHold'
  BY <1>1, LabelsUntouched
<1>3. LabelKeyBound'
  BY <1>1 DEF LabelKeyBound, LabelInv, BoundByBinding
<1> QED
  BY <1>2, <1>3

LEMMA NextLabelInv == LabelInv /\ [Next]_vars => LabelInv'
<1> SUFFICES ASSUME LabelInv, [Next]_vars
             PROVE  BoundByBinding' /\ BindingsHold' /\ LabelKeyBound'
  BY NextIInv, KmsAssumption DEF LabelInv
<1> DEFINE Goal == BoundByBinding' /\ BindingsHold' /\ LabelKeyBound'
<1>0. RegistryInv
  BY DEF LabelInv, IInv, RegistryInv
<1>1. CASE UNCHANGED vars
  <2>1. UNCHANGED <<registry, bindings, grant>>
    BY <1>1 DEF vars, state, history
  <2> QED
    BY <2>1, LabelsUntouched DEF LabelInv, LabelKeyBound
<1>2. ASSUME Refuse PROVE Goal
  BY <1>2, LabelsUntouched DEF Refuse, state, history
<1>3. CASE InitStep \/ VerifyStep \/ ecall_verify_malformed_quote \/ ecall_set_ra_result
  <2>1. UNCHANGED <<registry, bindings>> /\ grant' = None
    BY <1>3 DEF InitStep, VerifyStep, ecall_init_kms, ecall_verify_quote_for_fid,
       ecall_verify_malformed_quote, ecall_set_ra_result, history
  <2> QED
    BY <2>1, LabelsUntouched
<1>4. CASE RegisterStep
  <2> SUFFICES ASSUME NEW f \in FID, NEW m \in MRE, ecall_register_policy_fid(f, m), ~Refuse
               PROVE  Goal
    BY <1>2, <1>4 DEF RegisterStep
  <2>1. registry' = StorePolicy(f, m) /\ UNCHANGED bindings /\ grant' = None
    BY DEF ecall_register_policy_fid
  <2>2. \A g \in FID : BoundLabels(g)' = BoundLabels(g)
    BY <1>0, <2>1, PolicyKeepsLabels
  <2>3. \A b \in bindings : b[1] \in FID /\ b[2] \in Label
    BY DEF LabelInv, IInv, TypeOK
  <2> QED
    BY <2>1, <2>2, <2>3 DEF LabelInv, BoundByBinding, BindingsHold, LabelKeyBound,
       is_label_bound_to_fid, Fits
<1>5. CASE BindStep
  <2> SUFFICES ASSUME NEW f \in FID, NEW l \in Label, ecall_bind_label_to_fid(f, l), ~Refuse
               PROVE  Goal
    BY <1>2, <1>5 DEF BindStep
  <2>1. registry' = StoreLabel(f, l) /\ bindings' = bindings \cup {<<f, l>>} /\ grant' = None
    BY DEF ecall_bind_label_to_fid
  <2>2. \A g \in FID :
          BoundLabels(g)' =
            IF /\ g = KeptFid[f] /\ (Known(g) <=> Known(f))
               /\ l \notin BoundLabels(f)
              THEN BoundLabels(g) \cup {KeptLabel[l]}
              ELSE BoundLabels(g)
    BY <1>0, <2>1, LabelBound
  <2>3. BoundByBinding'
    <3> SUFFICES ASSUME NEW g \in FID, NEW k \in BoundLabels(g)'
                 PROVE  \E b \in bindings' : KeptFid[b[1]] = g /\ KeptLabel[b[2]] = k
      BY DEF BoundByBinding
    <3>1. CASE k \in BoundLabels(g)
      BY <2>1, <3>1 DEF LabelInv, BoundByBinding
    <3>2. CASE k \notin BoundLabels(g)
      <4>1. g = KeptFid[f] /\ k = KeptLabel[l]
        BY <2>2, <3>2
      <4>2. <<f, l>> \in bindings'
        BY <2>1
      <4>3. KeptFid[<<f, l>>[1]] = g /\ KeptLabel[<<f, l>>[2]] = k
        BY <4>1
      <4> QED
        BY <4>2, <4>3
    <3> QED
      BY <3>1, <3>2
  <2>4. BindingsHold'
    <3> SUFFICES ASSUME NEW b \in bindings', Fits(b[1]), KeptLabel[b[2]] = b[2]
                 PROVE  b[2] \in BoundLabels(b[1])'
      BY DEF BindingsHold, is_label_bound_to_fid, Fits
    <3>1. b \in bindings => b[1] \in FID /\ b[2] \in BoundLabels(b[1])
      BY DEF LabelInv, IInv, TypeOK, BindingsHold, is_label_bound_to_fid
    <3>2. CASE b \in bindings
      BY <2>2, <3>1, <3>2
    <3>3. CASE b = <<f, l>>
      <4>1. KeptFid[f] = f /\ KeptLabel[l] = l
        BY <3>3 DEF Fits
      <4> QED
        BY <2>2, <3>3, <4>1
    <3> QED
      BY <2>1, <3>2, <3>3
  <2> QED
    BY <2>1, <2>3, <2>4 DEF LabelKeyBound
<1>6. CASE GetKeyStep
  <2> SUFFICES ASSUME NEW f \in FID, NEW pk \in PK, Release(EccGrant(f, pk, None, None))
               PROVE  Goal
    BY <1>2, <1>6 DEF GetKeyStep, ecall_get_key
  <2> QED
    BY LabelReleased DEF EccGrant
<1>7. CASE BatchStep
  <2> SUFFICES ASSUME NEW f \in FID, NEW l \in Label, NEW pk \in PK,
                      ecall_derive_keys_batch(f, l, pk), ~Refuse
               PROVE  Goal
    BY <1>2, <1>7 DEF BatchStep
  <2>1. CASE is_label_bound_to_fid(f, l) /\ Release(EccGrant(f, pk, l, derive_label_key(l)))
    BY <2>1, LabelReleased DEF EccGrant, is_label_bound_to_fid
  <2>2. CASE Release(EccGrant(f, pk, None, None))
    BY <2>2, LabelReleased DEF EccGrant
  <2> QED
    BY <2>1, <2>2 DEF ecall_derive_keys_batch
<1>8. CASE BfibeStep
  <2> SUFFICES ASSUME NEW f \in FID, NEW l \in Label, NEW pk \in PK,
                      ecall_get_bfibe_key_release(f, l, pk), ~Refuse
               PROVE  Goal
    BY <1>2, <1>8 DEF BfibeStep
  <2> DEFINE g == [profile |-> "bfibe", fid |-> f, label |-> l, pk |-> pk,
                   dkf |-> <<msk, f>>, dklabel |-> <<msk, l>>]
  <2>1. l \in BoundLabels(f) /\ Release(g)
    BY DEF ecall_get_bfibe_key_release, is_label_bound_to_fid
  <2> QED
    BY <2>1, LabelReleased
<1> QED
  BY <1>1, <1>3, <1>4, <1>5, <1>6, <1>7, <1>8 DEF Next

\* The labels' invariant holds in every reachable state.
THEOREM LabelInvariance == Spec => []LabelInv
<1>1. Init => LabelInv
  <2> SUFFICES ASSUME Init PROVE LabelInv
    OBVIOUS
  <2>1. \A f : BoundLabels(f) = {}
    <3>1. DOMAIN registry = {}
      BY DEF Init
    <3> QED
      BY <3>1 DEF BoundLabels, Known, Matching
  <2> QED
    BY <2>1, InitIInv, KmsAssumption DEF Init, LabelInv, BoundByBinding, LabelKeyBound, BindingsHold
<1> QED
  BY <1>1, NextLabelInv, PTL DEF Spec

\* Label keys are released under the FIDs a binding named only.
THEOREM LabelKeysAreBound == Spec => []LabelKeyBound
<1>1. LabelInv => LabelKeyBound
  BY DEF LabelInv
<1> QED
  BY LabelInvariance, <1>1, PTL

\* A binding that was accepted is found, for every FID and label that fit their fields.
THEOREM BindingsAreKept == Spec => []BindingsHold
<1>1. LabelInv => BindingsHold
  BY DEF LabelInv
<1> QED
  BY LabelInvariance, <1>1, PTL

-----------------------------------------------------------------------------
(* The refinement. *)

\* What the cache stands for.
InSession == IF ra.ok THEN [fid |-> ra.fid, mr |-> ra.mr, rd |-> ra.rd] ELSE None
Granted ==
  IF grant = None THEN None
  ELSE [profile |-> grant.profile, fid |-> grant.fid, label |-> grant.label, pk |-> grant.pk]

\* A call that leaves the registry and writes no key idles or attests.
LEMMA QuietRefines ==
  ASSUME LabelInv, registry' = registry, grant' = None, CacheIsAttested'
  PROVE  Policy!Attest
<1>1. \A f : PolicyOf(f)' = PolicyOf(f) /\ BoundLabels(f)' = BoundLabels(f)
  BY DEF PolicyOf, BoundLabels, Known, Matching, find_policy
<1>2. InSession' \in Session \cup {None}
  BY DEF InSession, CacheIsAttested, Session
<1> QED
  BY <1>1, <1>2 DEF Policy!Attest, Policy!Session, Session, InSession

\* A release that passes the gates is a grant the policy allows.
LEMMA ReleaseRefines ==
  ASSUME LabelInv, NEW g \in Grant, Release(g), verify_ra_for_fid(g.fid),
         g.profile = "bfibe" \/ g.fid # DefaultFid => verify_report_data_binding(g.pk),
         g.label # None => is_label_bound_to_fid(g.fid, g.label)
  PROVE  Policy!Next
<1>1. UNCHANGED <<registry, ra>> /\ grant' = g
  BY DEF Release, state, history
<1>2. \A f : PolicyOf(f)' = PolicyOf(f) /\ BoundLabels(f)' = BoundLabels(f)
  BY <1>1 DEF PolicyOf, BoundLabels, Known, Matching, find_policy
<1>3. UNCHANGED <<[f \in FID |-> PolicyOf(f)], [f \in FID |-> BoundLabels(f)], InSession>>
  BY <1>1, <1>2 DEF InSession
<1>4. CASE g = None
  BY <1>1, <1>3, <1>4 DEF Policy!Next, Policy!Idle, InSession
<1>5. CASE g # None
  <2> DEFINE r == [profile |-> g.profile, fid |-> g.fid, label |-> g.label, pk |-> g.pk]
  <2>1. Granted' = r
    BY <1>1, <1>5 DEF Granted
  <2>2. r \in Policy!Request
    BY DEF Grant, Policy!Request
  <2>3. r.fid \in FID /\ r.fid = g.fid /\ r.label = g.label /\ r.pk = g.pk /\ r.profile = g.profile
    BY DEF Grant
  <2>4. ra.ok => InSession = [fid |-> ra.fid, mr |-> ra.mr, rd |-> ra.rd] /\ InSession # None
    BY KmsAssumption DEF InSession, LabelInv, IInv, CacheIsAttested, KmsAssumption, Session
  <2>5. PolicyOf(r.fid) # None =>
          InSession # None /\ InSession.fid = r.fid /\ InSession.mr = PolicyOf(r.fid)
    BY <2>3, <2>4 DEF verify_ra_for_fid
  <2>6. \/ r.fid = DefaultFid /\ r.profile = "eccibe"
        \/ InSession # None /\ InSession.rd = r.pk
    <3>1. g.profile \in {"eccibe", "bfibe"}
      BY DEF Grant
    <3> QED
      BY <2>3, <2>4, <3>1 DEF verify_report_data_binding
  <2>7. r.label # None => r.label \in BoundLabels(r.fid)
    BY <2>3 DEF is_label_bound_to_fid
  <2> HIDE DEF r
  <2>8. Policy!Allowed(r)
    BY <2>3, <2>5, <2>6, <2>7 DEF Policy!Allowed, InSession
  <2>9. Policy!Grant
    BY <1>3, <2>1, <2>2, <2>8 DEF Policy!Grant, Granted, InSession
  <2> QED
    BY <2>9 DEF Policy!Next
<1> QED
  BY <1>4, <1>5

LEMMA NextRefines == LabelInv /\ LabelInv' /\ [Next]_vars => [Policy!Next]_(Policy!vars)
<1> SUFFICES ASSUME LabelInv, LabelInv', [Next]_vars PROVE [Policy!Next]_(Policy!vars)
  OBVIOUS
<1>0. RegistryInv /\ CacheIsAttested'
  BY DEF LabelInv, IInv, RegistryInv
<1>1. CASE UNCHANGED vars
  <2>1. UNCHANGED <<registry, ra, grant>>
    BY <1>1 DEF vars, state
  <2>2. \A f : PolicyOf(f)' = PolicyOf(f) /\ BoundLabels(f)' = BoundLabels(f)
    BY <2>1 DEF PolicyOf, BoundLabels, Known, Matching, find_policy
  <2> QED
    BY <2>1, <2>2 DEF Policy!vars
<1>2. ASSUME registry' = registry, grant' = None PROVE Policy!Next
  BY <1>0, <1>2, QuietRefines DEF Policy!Next
<1>3. ASSUME Refuse PROVE Policy!Next
  BY <1>2, <1>3 DEF Refuse, state
<1>4. CASE InitStep \/ VerifyStep \/ ecall_verify_malformed_quote \/ ecall_set_ra_result
  <2>1. registry' = registry /\ grant' = None
    BY <1>4 DEF InitStep, VerifyStep, ecall_init_kms, ecall_verify_quote_for_fid,
       ecall_verify_malformed_quote, ecall_set_ra_result
  <2> QED
    BY <1>2, <2>1
<1>5. CASE RegisterStep
  <2> SUFFICES ASSUME NEW f \in FID, NEW m \in MRE, ecall_register_policy_fid(f, m), ~Refuse
               PROVE  Policy!Next
    BY <1>3, <1>5 DEF RegisterStep
  <2>1. registry' = StorePolicy(f, m) /\ UNCHANGED ra /\ grant' = None /\ RegisterAccepts(f)
    BY DEF ecall_register_policy_fid
  <2>2. \A g \in FID : BoundLabels(g)' = BoundLabels(g)
    BY <1>0, <2>1, PolicyKeepsLabels
  <2>3. \A g \in FID : PolicyOf(g)' = IF PolicyOf(g) = None /\ g = KeptFid[f]
                                          /\ (Known(f) \/ ~Known(g))
                                       THEN m ELSE PolicyOf(g)
    BY <1>0, <2>1, PolicyStored, KmsAssumption
  <2>4. KeptFid[f] \in FID
    BY KmsAssumption DEF KmsAssumption
  <2> DEFINE h == KeptFid[f]
             pol == [g \in FID |-> PolicyOf(g)]
  <2>5. UNCHANGED <<[g \in FID |-> BoundLabels(g)], InSession>> /\ Granted' = None
    BY <2>1, <2>2 DEF InSession, Granted
  <2>6. CASE PolicyOf(h) = None /\ (Known(f) \/ ~Known(h))
    <3>1. pol[h] = None /\ pol' = [pol EXCEPT ![h] = m]
      BY <2>3, <2>4, <2>6
    <3>2. Policy!SetPolicy(h, m)
      BY <2>4, <2>5, <3>1 DEF Policy!SetPolicy, InSession, Granted
    <3> QED
      BY <2>4, <3>2 DEF Policy!Next
  <2>7. CASE ~(PolicyOf(h) = None /\ (Known(f) \/ ~Known(h)))
    <3>1. pol' = pol
      BY <2>3, <2>7
    <3>2. Policy!Idle
      BY <2>5, <3>1 DEF Policy!Idle, InSession, Granted
    <3> QED
      BY <3>2 DEF Policy!Next
  <2> QED
    BY <2>6, <2>7
<1>6. CASE BindStep
  <2> SUFFICES ASSUME NEW f \in FID, NEW l \in Label, ecall_bind_label_to_fid(f, l), ~Refuse
               PROVE  Policy!Next
    BY <1>3, <1>6 DEF BindStep
  <2>1. registry' = StoreLabel(f, l) /\ UNCHANGED ra /\ grant' = None /\ BindAccepts(f, l)
    BY DEF ecall_bind_label_to_fid
  <2>2. \A g \in FID :
          BoundLabels(g)' =
            IF /\ g = KeptFid[f] /\ (Known(g) <=> Known(f))
               /\ l \notin BoundLabels(f)
              THEN BoundLabels(g) \cup {KeptLabel[l]}
              ELSE BoundLabels(g)
    BY <1>0, <2>1, LabelBound
  <2>3. \A g \in FID : PolicyOf(g)' = PolicyOf(g)
    BY <1>0, <2>1, LabelStored, KmsAssumption
  <2>4. KeptFid[f] \in FID /\ KeptLabel[l] \in Label
    BY KmsAssumption DEF KmsAssumption
  <2> DEFINE h == KeptFid[f]
             new == (Known(h) <=> Known(f)) /\ l \notin BoundLabels(f)
             lab == [g \in FID |-> BoundLabels(g)]
  <2>5. UNCHANGED <<[g \in FID |-> PolicyOf(g)], InSession>> /\ Granted' = None
    BY <2>1, <2>3 DEF InSession, Granted
  <2>6. CASE new
    <3>1. lab' = [lab EXCEPT ![h] = @ \cup {KeptLabel[l]}]
      BY <2>2, <2>4, <2>6
    <3>2. Policy!Bind(h, KeptLabel[l])
      BY <2>5, <3>1 DEF Policy!Bind, InSession, Granted
    <3> QED
      BY <2>4, <3>2 DEF Policy!Next
  <2>7. CASE ~new
    <3>1. lab' = lab
      BY <2>2, <2>7
    <3>2. Policy!Idle
      BY <2>5, <3>1 DEF Policy!Idle, InSession, Granted
    <3> QED
      BY <3>2 DEF Policy!Next
  <2> QED
    BY <2>6, <2>7
<1>7. ASSUME NEW f \in FID, NEW pk \in PK, NEW l \in Label \cup {None}, NEW k \in Key \cup {None},
             KeyGate(f, pk), Release(EccGrant(f, pk, l, k)),
             l # None => is_label_bound_to_fid(f, l)
      PROVE  Policy!Next
  <2>1. EccGrant(f, pk, l, k) \in Grant
    BY DEF EccGrant, Grant, Key, derive_key_pair, LabelInv, IInv, TypeOK
  <2> QED
    BY <1>7, <2>1, ReleaseRefines DEF EccGrant, KeyGate
<1>8. CASE GetKeyStep
  BY <1>3, <1>7, <1>8 DEF GetKeyStep, ecall_get_key
<1>9. CASE BatchStep
  <2> SUFFICES ASSUME NEW f \in FID, NEW l \in Label, NEW pk \in PK,
                      ecall_derive_keys_batch(f, l, pk), ~Refuse
               PROVE  Policy!Next
    BY <1>3, <1>9 DEF BatchStep
  <2>1. derive_label_key(l) \in Key
    BY DEF derive_label_key, Key, LabelInv, IInv, TypeOK
  <2> QED
    BY <1>7, <2>1 DEF ecall_derive_keys_batch
<1>10. CASE BfibeStep
  <2> SUFFICES ASSUME NEW f \in FID, NEW l \in Label, NEW pk \in PK,
                      ecall_get_bfibe_key_release(f, l, pk), ~Refuse
               PROVE  Policy!Next
    BY <1>3, <1>10 DEF BfibeStep
  <2> DEFINE g == [profile |-> "bfibe", fid |-> f, label |-> l, pk |-> pk,
                   dkf |-> <<msk, f>>, dklabel |-> <<msk, l>>]
  <2>1. g \in Grant
    BY DEF Grant, Key, LabelInv, IInv, TypeOK
  <2>2. /\ verify_ra_for_fid(f) /\ verify_report_data_binding(pk)
        /\ is_label_bound_to_fid(f, l) /\ Release(g)
    BY DEF ecall_get_bfibe_key_release
  <2> QED
    BY <2>1, <2>2, ReleaseRefines
<1> QED
  BY <1>1, <1>4, <1>5, <1>6, <1>8, <1>9, <1>10 DEF Next

\* The enclave, with its array, its truncated names and its cache, is a map from FIDs to
\* policies and label sets with one session: every release is one the policy allows.
THEOREM KmsImplementsPolicy == Spec => ImplementsKeyReleasePolicy
<1>1. Init => Policy!Init
  <2> SUFFICES ASSUME Init PROVE Policy!Init
    OBVIOUS
  <2>1. DOMAIN registry = {}
    BY DEF Init
  <2>2. \A f : BoundLabels(f) = {} /\ PolicyOf(f) = None
    BY <2>1 DEF BoundLabels, PolicyOf, Known, Matching
  <2> QED
    BY <2>2 DEF Init, Policy!Init, NoAttestation
<1> QED
  BY <1>1, LabelInvariance, NextRefines, PTL DEF Spec, ImplementsKeyReleasePolicy, Policy!Spec
=============================================================================
