--------------------------- MODULE KmsServerProofs ---------------------------
(***************************************************************************)
(* That no master secret in use is lost, for every number of processes and *)
(* of secrets.  The inductive invariant says, as long as there was no      *)
(* trouble: while there is no secret on disk at most one process generates *)
(* one and the others have not begun; once there is one everybody has it.  *)
(***************************************************************************)
EXTENDS KmsServer, TLAPS

\* With a secret on disk every process has that one and none generates another.
OneSecret ==
  sealed_file \in Secret =>
    /\ used \subseteq {sealed_file}
    /\ \A p \in Proc :
         /\ ~Generating(p)
         /\ pc[p] # "write"
         /\ pc[p] = "init" => sealed_data[p] = sealed_file
         /\ pc[p] \in {"bind", "run"} => msk[p] = sealed_file

\* With none on disk nothing was used, and one process generates at most.
NoSecret ==
  sealed_file \notin Secret =>
    /\ used = {}
    /\ \A p \in Proc : pc[p] \in {"off", "load"} \/ Generating(p)
    /\ \A p, q \in Proc : Generating(p) /\ Generating(q) => p = q

IInv == TypeOK /\ (~trouble => OneSecret /\ NoSecret)

\* What is in the file when it is missing or torn is no secret.
LEMMA NoSecretThere == Missing \notin Secret /\ Torn \notin Secret
  BY KmsServerAssumption DEF KmsServerAssumption, Secret

\* Nothing runs and nothing is on disk.
LEMMA InitIInv == Init => IInv
<1> SUFFICES ASSUME Init PROVE IInv
  OBVIOUS
<1>1. TypeOK
  <2>1. generated \in 0 .. MaxSecrets /\ 0 \in 0 .. MaxLabels /\ 0 \in 0 .. generated
    BY KmsServerAssumption DEF KmsServerAssumption, Init
  <2> QED
    BY <2>1 DEF Init, TypeOK
<1>2. sealed_file \notin Secret /\ used = {} /\ \A p \in Proc : pc[p] = "off"
  BY NoSecretThere DEF Init
<1>3. OneSecret /\ NoSecret
  BY <1>2 DEF OneSecret, NoSecret, Generating
<1> QED
  BY <1>1, <1>3 DEF IInv

-----------------------------------------------------------------------------
\* What the end of a process keeps.
LEMMA EndKeeps ==
  ASSUME IInv, NEW p \in Proc, pc[p] # "off", End(p),
         UNCHANGED <<sealed_file, generated>>,
         trouble' \in BOOLEAN, trouble => trouble',
         used' \subseteq 1 .. generated,
         ~trouble' => used' \subseteq used \cup {sealed_file},
         ~trouble' /\ sealed_file \notin Secret => used' = {}
  PROVE  IInv'
<1>1. TypeOK'
  BY KmsServerAssumption DEF KmsServerAssumption, IInv, TypeOK, End, Goto
<1>2. ASSUME ~trouble' PROVE OneSecret'
  BY <1>2, KmsServerAssumption DEF KmsServerAssumption, IInv, TypeOK, OneSecret, Generating, End, Goto, Secret
<1>3. ASSUME ~trouble' PROVE NoSecret'
  BY <1>3, KmsServerAssumption DEF KmsServerAssumption, IInv, TypeOK, NoSecret, Generating, End, Goto, Secret
<1> QED
  BY <1>1, <1>2, <1>3 DEF IInv

LEMMA MainStep == ASSUME IInv, NEW p \in Proc, main(p) PROVE IInv'
<1>1. TypeOK'
  BY KmsServerAssumption DEF KmsServerAssumption, IInv, TypeOK, main, Accepts, Goto
<1>2. ASSUME ~trouble' PROVE OneSecret' /\ NoSecret'
  BY <1>2 DEF IInv, TypeOK, OneSecret, NoSecret, Generating, main, Goto, Secret
<1> QED
  BY <1>1, <1>2 DEF IInv

LEMMA LoadStep == ASSUME IInv, NEW p \in Proc, Load(p) PROVE IInv'
<1>1. TypeOK'
  BY DEF IInv, TypeOK, Load, Goto
<1>2. ASSUME ~trouble' PROVE OneSecret'
  BY <1>2 DEF IInv, TypeOK, OneSecret, Generating, Load, Goto, Secret
<1>3. ASSUME NEW q \in Proc, q # p PROVE Generating(q)' <=> Generating(q)
  BY <1>3 DEF IInv, TypeOK, Generating, Load, Goto
<1>4. ASSUME ~trouble', sealed_file \notin Secret PROVE ~trouble /\ \A q \in Proc : ~Generating(q)
  BY <1>4 DEF IInv, TypeOK, Load
<1>5. ASSUME ~trouble', sealed_file \notin Secret PROVE Generating(p)'
  BY <1>5 DEF IInv, TypeOK, Generating, Load, Goto
<1>6. ASSUME NEW q \in Proc, q # p PROVE pc'[q] = pc[q]
  BY <1>6 DEF IInv, TypeOK, Load, Goto
<1>7. ASSUME ~trouble' PROVE NoSecret'
  BY <1>3, <1>4, <1>5, <1>6, <1>7 DEF IInv, NoSecret, Load, Secret
<1> QED
  BY <1>1, <1>2, <1>7 DEF IInv

LEMMA InitKmsStep == ASSUME IInv, NEW p \in Proc, ecall_init_kms(p) PROVE IInv'
<1>1. CASE /\ sealed_data[p] \in Secret
           /\ msk' = [msk EXCEPT ![p] = sealed_data[p]]
           /\ unsaved' = [unsaved EXCEPT ![p] = FALSE]
           /\ UNCHANGED <<generated, trouble>>
  <2>1. TypeOK'
    <3>1. /\ generated \in Nat
          /\ sealed_data[p] \in 1 .. generated \/ sealed_data[p] \in {Missing, Torn}
      BY KmsServerAssumption DEF KmsServerAssumption, IInv, TypeOK
    <3>2. sealed_data[p] \in 1 .. generated
      BY <1>1, <3>1, NoSecretThere
    <3>3. sealed_data[p] \in 0 .. generated /\ sealed_data[p] # 0
      BY <3>1, <3>2
    <3> QED
      BY <1>1, <3>3 DEF IInv, TypeOK, ecall_init_kms, Goto
  <2>2. ASSUME ~trouble PROVE sealed_file \in Secret /\ sealed_data[p] = sealed_file
    BY <1>1, <2>2 DEF IInv, OneSecret, NoSecret, Generating, ecall_init_kms
  <2>3. ASSUME ~trouble PROVE OneSecret'
    BY <1>1, <2>2, <2>3 DEF IInv, TypeOK, OneSecret, Generating, ecall_init_kms, Goto, Secret
  <2>4. ASSUME ~trouble PROVE NoSecret'
    BY <2>2, <2>4 DEF NoSecret, ecall_init_kms, Secret
  <2> QED
    BY <1>1, <2>1, <2>3, <2>4 DEF IInv
<1>2. CASE /\ generated < MaxSecrets
           /\ generated' = generated + 1
           /\ msk' = [msk EXCEPT ![p] = generated']
           /\ \E sealing \in BOOLEAN :
                /\ unsaved' = [unsaved EXCEPT ![p] = sealing]
                /\ trouble' = (trouble \/ ~sealing \/ sealed_data[p] \in Secret)
  <2>1. generated' \in Secret /\ generated' \in 0 .. MaxSecrets
    BY <1>2, KmsServerAssumption DEF KmsServerAssumption, IInv, TypeOK, Secret
  <2>2. used' \subseteq 1 .. generated'
    BY <1>2, KmsServerAssumption DEF KmsServerAssumption, IInv, TypeOK, ecall_init_kms
  <2>3. TypeOK'
    BY <1>2, <2>1, <2>2 DEF IInv, TypeOK, ecall_init_kms, Goto
  <2>4. ASSUME ~trouble' PROVE ~trouble /\ Generating(p) /\ Generating(p)'
    BY <1>2, <2>4 DEF IInv, TypeOK, Generating, ecall_init_kms, Goto
  <2>5. ASSUME ~trouble' PROVE sealed_file \notin Secret
    BY <2>4, <2>5 DEF IInv, OneSecret
  <2>6. ASSUME NEW q \in Proc, q # p
        PROVE  (Generating(q)' <=> Generating(q)) /\ pc'[q] = pc[q]
    BY <1>2, <2>6 DEF IInv, TypeOK, Generating, ecall_init_kms, Goto
  <2>7. ASSUME ~trouble' PROVE OneSecret' /\ NoSecret'
    BY <2>4, <2>5, <2>6, <2>7 DEF IInv, OneSecret, NoSecret, ecall_init_kms, Secret
  <2> QED
    BY <2>3, <2>7 DEF IInv
<1> QED
  BY <1>1, <1>2 DEF ecall_init_kms

LEMMA BindLabelStep == ASSUME IInv, NEW p \in Proc, BindLabel(p) PROVE IInv'
<1>1. CASE End(p)
  BY <1>1, EndKeeps DEF BindLabel, IInv, TypeOK, NoSecret
<1>2. CASE /\ unbound' = [unbound EXCEPT ![p] = @ - 1]
           /\ UNCHANGED <<pc, one_shot, sealed_data, msk, unsaved>>
  <2>1. TypeOK'
    BY <1>2, KmsServerAssumption DEF KmsServerAssumption, IInv, TypeOK, BindLabel
  <2>2. ASSUME ~trouble' PROVE OneSecret' /\ NoSecret'
    BY <1>2, <2>2 DEF IInv, OneSecret, NoSecret, Generating, BindLabel
  <2> QED
    BY <2>1, <2>2 DEF IInv
<1> QED
  BY <1>1, <1>2 DEF BindLabel

-----------------------------------------------------------------------------
\* Truncation takes no secret away: the process that saves is the one that generates.
LEMMA OpenSealedStep == ASSUME IInv, NEW p \in Proc, OpenSealed(p) PROVE IInv'
<1>1. TypeOK'
  BY DEF IInv, TypeOK, OpenSealed, Saves, Goto
<1>2. CASE Saves(p) /\ sealed_file' = Torn /\ Goto(p, "write") /\ UNCHANGED trouble
  <2>1. Torn \notin Secret
    BY KmsServerAssumption DEF KmsServerAssumption, Secret
  <2>2. ASSUME ~trouble' PROVE Generating(p) /\ sealed_file \notin Secret
    BY <1>2, <2>2 DEF IInv, OneSecret, Generating, OpenSealed, Saves
  <2>3. Generating(p)'
    BY <1>2 DEF IInv, TypeOK, Generating, OpenSealed, Saves, Goto
  <2>4. ASSUME NEW q \in Proc, q # p
        PROVE  (Generating(q)' <=> Generating(q)) /\ pc'[q] = pc[q]
    BY <1>2, <2>4 DEF IInv, TypeOK, Generating, OpenSealed, Goto
  <2>5. ASSUME ~trouble' PROVE OneSecret' /\ NoSecret'
    BY <1>2, <2>1, <2>2, <2>3, <2>4, <2>5 DEF IInv, OneSecret, NoSecret, OpenSealed, Secret
  <2> QED
    BY <1>1, <2>5 DEF IInv
<1>3. CASE Saves(p) /\ trouble' = TRUE /\ Goto(p, "run") /\ UNCHANGED sealed_file
  BY <1>1, <1>3 DEF IInv
<1>4. CASE ~Saves(p) /\ Goto(p, "run") /\ UNCHANGED <<sealed_file, trouble>>
  <2>1. ASSUME ~trouble PROVE sealed_file \in Secret /\ msk[p] = sealed_file
    BY <1>4, <2>1 DEF IInv, OneSecret, NoSecret, Generating, OpenSealed, Saves
  <2>2. ASSUME ~trouble PROVE OneSecret' /\ NoSecret'
    BY <1>4, <2>1, <2>2
    DEF IInv, TypeOK, OneSecret, NoSecret, Generating, OpenSealed, Goto, Secret
  <2> QED
    BY <1>1, <1>4, <2>2 DEF IInv
<1> QED
  BY <1>2, <1>3, <1>4 DEF OpenSealed

\* The writer was the only one to generate, so everybody else has yet to read.
LEMMA WriteSealedStep == ASSUME IInv, NEW p \in Proc, WriteSealed(p) PROVE IInv'
<1>1. TypeOK'
  <2>1. generated \in Nat /\ msk[p] \in 0 .. generated /\ msk[p] # 0
    BY KmsServerAssumption DEF KmsServerAssumption, IInv, TypeOK, WriteSealed
  <2>2. msk[p] \in 1 .. generated
    BY <2>1
  <2> QED
    BY <2>2 DEF IInv, TypeOK, WriteSealed, Goto
<1>2. ASSUME ~trouble' PROVE sealed_file' = msk[p] /\ msk[p] \in Secret /\ ~trouble
  BY <1>2, KmsServerAssumption
  DEF KmsServerAssumption, IInv, TypeOK, WriteSealed, Secret
<1>3. ASSUME ~trouble' PROVE sealed_file \notin Secret /\ Generating(p)
  BY <1>2, <1>3 DEF IInv, OneSecret, NoSecret, WriteSealed
<1>4. ASSUME ~trouble', NEW q \in Proc, q # p PROVE pc[q] \in {"off", "load"}
  BY <1>2, <1>3, <1>4 DEF IInv, NoSecret
<1>5. ASSUME ~trouble' PROVE OneSecret'
  BY <1>2, <1>3, <1>4, <1>5 DEF IInv, TypeOK, OneSecret, NoSecret, Generating, WriteSealed, Goto
<1>6. ASSUME ~trouble' PROVE NoSecret'
  BY <1>2, <1>6 DEF NoSecret, Secret
<1> QED
  BY <1>1, <1>5, <1>6 DEF IInv

\* A process that runs uses the secret on disk.
LEMMA RunsOnDisk ==
  ASSUME IInv, ~trouble, NEW p \in Proc, pc[p] = "run"
  PROVE  sealed_file \in Secret /\ msk[p] = sealed_file
  BY DEF IInv, OneSecret, NoSecret, Generating

\* A secret in use was generated and is the one on disk.
LEMMA UsesSecret ==
  ASSUME IInv, NEW p \in Proc, pc[p] = "run", used' = used \cup {msk[p]}
  PROVE  /\ used' \subseteq 1 .. generated
         /\ ~trouble => sealed_file \in Secret /\ used' \subseteq {sealed_file}
<1>1. msk[p] \in 1 .. generated
  BY KmsServerAssumption DEF KmsServerAssumption, IInv, TypeOK
<1> QED
  BY <1>1, RunsOnDisk DEF IInv, TypeOK, OneSecret

LEMMA PublishStep == ASSUME IInv, NEW p \in Proc, Publish(p) PROVE IInv'
  BY UsesSecret, EndKeeps DEF Publish, IInv, TypeOK

LEMMA ReleaseStep == ASSUME IInv, NEW p \in Proc, Release(p) PROVE IInv'
<1>1. /\ used' \subseteq 1 .. generated
      /\ ~trouble => sealed_file \in Secret /\ used' \subseteq {sealed_file}
  BY UsesSecret DEF Release
<1>2. TypeOK'
  BY <1>1 DEF Release, process, IInv, TypeOK
<1>3. ASSUME ~trouble PROVE OneSecret' /\ NoSecret'
  BY <1>1, <1>3 DEF Release, process, IInv, OneSecret, NoSecret, Generating, Secret
<1> QED
  BY <1>2, <1>3 DEF Release, IInv

\* A process that is ended between truncation and write makes trouble.
LEMMA ExitStep == ASSUME IInv, NEW p \in Proc, Exit(p) PROVE IInv'
  BY EndKeeps DEF Exit, IInv, TypeOK, NoSecret

-----------------------------------------------------------------------------
\* Every reachable state of the KMS processes satisfies the invariant.
THEOREM KmsServerInvariance == Spec => []IInv
<1>1. IInv /\ [Next]_vars => IInv'
  <2> SUFFICES ASSUME IInv, [Next]_vars PROVE IInv'
    OBVIOUS
  <2>1. CASE Next
    BY <2>1, MainStep, LoadStep, InitKmsStep, BindLabelStep, OpenSealedStep, WriteSealedStep,
       PublishStep, ReleaseStep, ExitStep
    DEF Next
  <2>2. CASE UNCHANGED vars
    BY <2>2 DEF vars, process, IInv, TypeOK, OneSecret, NoSecret, Generating
  <2> QED
    BY <2>1, <2>2
<1> QED
  BY InitIInv, <1>1, PTL DEF Spec

\* The variables of main keep their types.
THEOREM KmsServerTypeCorrect == Spec => []TypeOK
<1>1. IInv => TypeOK
  BY DEF IInv
<1> QED
  BY KmsServerInvariance, <1>1, PTL

\* Without one of the troubles, no secret under which a key was published or released
\* is lost: main saves before it publishes and before it serves.
THEOREM NoSecretLost == Spec => []SecretKept
<1>1. IInv => SecretKept
  <2> SUFFICES ASSUME IInv, ~trouble PROVE SecretKept
    BY DEF SecretKept
  <2>1. \A m \in used : sealed_file = m
    BY DEF IInv, OneSecret, NoSecret
  <2> QED
    BY <2>1, RunsOnDisk DEF SecretKept
<1> QED
  BY KmsServerInvariance, <1>1, PTL
=============================================================================
