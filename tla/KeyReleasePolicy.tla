-------------------------- MODULE KeyReleasePolicy --------------------------
(***************************************************************************)
(* What the KMS enclave promises about the release of keys, free of arrays,*)
(* truncation and caches.  Each FID may have a policy, set once, and a     *)
(* growing set of labels.  At most one attestation, the session, is        *)
(* remembered.  Keys are granted when policy, session and labels allow it. *)
(***************************************************************************)
CONSTANTS FID, Label, MRE, PK, DefaultFid, None

VARIABLES
  policy,    \* policy[f]: the measurement f requires, None when it is open
  bound,     \* bound[f]: the labels whose keys may be released under f
  session,   \* the attestation in force, or None
  granted    \* the request granted by the last call, or None

vars == <<policy, bound, session, granted>>

Session == [fid : FID, mr : MRE, rd : PK]
Request == [profile : {"eccibe", "bfibe"}, fid : FID, label : Label \cup {None}, pk : PK]

Init ==
  /\ policy = [f \in FID |-> None]
  /\ bound = [f \in FID |-> {}]
  /\ session = None
  /\ granted = None

SetPolicy(f, m) ==
  /\ policy[f] = None
  /\ policy' = [policy EXCEPT ![f] = m]
  /\ granted' = None
  /\ UNCHANGED <<bound, session>>

Bind(f, l) ==
  /\ bound' = [bound EXCEPT ![f] = @ \cup {l}]
  /\ granted' = None
  /\ UNCHANGED <<policy, session>>

\* An attestation replaces the one before it, or is refused and leaves none.
Attest ==
  /\ session' \in Session \cup {None}
  /\ granted' = None
  /\ UNCHANGED <<policy, bound>>

Idle == granted' = None /\ UNCHANGED <<policy, bound, session>>

Allowed(r) ==
  /\ policy[r.fid] # None =>
       session # None /\ session.fid = r.fid /\ session.mr = policy[r.fid]
  /\ \/ r.fid = DefaultFid /\ r.profile = "eccibe"
     \/ session # None /\ session.rd = r.pk
  /\ r.label # None => r.label \in bound[r.fid]

Grant ==
  /\ granted' \in Request
  /\ Allowed(granted')
  /\ UNCHANGED <<policy, bound, session>>

Next ==
  \/ Idle
  \/ Attest
  \/ Grant
  \/ \E f \in FID, m \in MRE : SetPolicy(f, m)
  \/ \E f \in FID, l \in Label : Bind(f, l)

Spec == Init /\ [][Next]_vars
=============================================================================
