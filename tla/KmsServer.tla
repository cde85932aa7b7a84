------------------------------ MODULE KmsServer ------------------------------
(***************************************************************************)
(* The life of a KMS process (main in sgx_kms/App/App.cpp, ecall_init_kms  *)
(* in sgx_kms/Enclave/Enclave.cpp): where the master secret comes from and *)
(* whether it outlives the process.  A process reads kms_data.sealed,      *)
(* unseals it or generates a secret, binds the labels of its command line, *)
(* saves a secret it generated, and then serves, or publishes a public key *)
(* or the public parameters and ends.  Processes run one after another or  *)
(* at once and may end at any point.                                       *)
(*                                                                         *)
(* A master secret is its number in the order of generation, and stands    *)
(* for its sealed form.                                                    *)
(***************************************************************************)
EXTENDS Naturals

CONSTANTS
  Proc,
  MaxSecrets,  \* bound on the secrets generated
  MaxLabels,   \* bound on the labels bound on a command line
  Missing,     \* no kms_data.sealed
  Torn         \* a kms_data.sealed without its contents, or a part of them

Secret == 1 .. MaxSecrets

ASSUME KmsServerAssumption ==
  /\ MaxSecrets \in Nat \ {0}
  /\ MaxLabels \in Nat
  /\ Missing # Torn
  /\ {Missing, Torn} \cap Nat = {}

VARIABLES
  sealed_file,  \* the contents of kms_data.sealed
  pc,           \* pc[p]: the step of main process p is about to take
  one_shot,     \* one_shot[p]: p was asked to publish and end
  unbound,      \* unbound[p]: the labels p has yet to bind
  sealed_data,  \* sealed_data[p]: what p read of the file
  msk,          \* msk[p]: g_msk of p's enclave
  unsaved,      \* unsaved[p]: actual_sealed_size > 0
  generated,    \* the number of secrets generated
  \* What follows is history: the code keeps none of it.
  used,         \* the secrets under which a key was published or released
  trouble       \* something happened that may lose a secret

process == <<pc, one_shot, unbound, sealed_data, msk, unsaved>>
vars == <<sealed_file, process, generated, used, trouble>>

TypeOK ==
  /\ sealed_file \in (1 .. generated) \cup {Missing, Torn}
  /\ pc \in [Proc -> {"off", "load", "init", "bind", "write", "run"}]
  /\ one_shot \in [Proc -> BOOLEAN]
  /\ unbound \in [Proc -> 0 .. MaxLabels]
  /\ \A p \in Proc : one_shot[p] => unbound[p] = 0
  /\ sealed_data \in [Proc -> (1 .. generated) \cup {Missing, Torn}]
  /\ msk \in [Proc -> 0 .. generated]
  /\ \A p \in Proc : pc[p] \in {"bind", "write", "run"} => msk[p] # 0
  /\ unsaved \in [Proc -> BOOLEAN]
  /\ generated \in 0 .. MaxSecrets
  /\ used \subseteq 1 .. generated
  /\ trouble \in BOOLEAN

Init ==
  /\ sealed_file = Missing
  /\ pc = [p \in Proc |-> "off"]
  /\ one_shot = [p \in Proc |-> FALSE]
  /\ unbound = [p \in Proc |-> 0]
  /\ sealed_data = [p \in Proc |-> Missing]
  /\ msk = [p \in Proc |-> 0]
  /\ unsaved = [p \in Proc |-> FALSE]
  /\ generated = 0
  /\ used = {}
  /\ trouble = FALSE

-----------------------------------------------------------------------------
Goto(p, step) == pc' = [pc EXCEPT ![p] = step]

\* The process ends, its memory and its enclave with it.
End(p) ==
  /\ Goto(p, "off")
  /\ one_shot' = [one_shot EXCEPT ![p] = FALSE]
  /\ unbound' = [unbound EXCEPT ![p] = 0]
  /\ sealed_data' = [sealed_data EXCEPT ![p] = Missing]
  /\ msk' = [msk EXCEPT ![p] = 0]
  /\ unsaved' = [unsaved EXCEPT ![p] = FALSE]

\* A command line that is taken as it comes.
AcceptsAny(o, n) == TRUE

\* A one-shot command cannot be combined with a binding.
Accepts(o, n) == o => n = 0

main(p) ==
  /\ pc[p] = "off"
  /\ \E o \in BOOLEAN, n \in 0 .. MaxLabels :
       /\ Accepts(o, n)
       /\ one_shot' = [one_shot EXCEPT ![p] = o]
       /\ unbound' = [unbound EXCEPT ![p] = n]
  /\ Goto(p, "load")
  /\ UNCHANGED <<sealed_file, sealed_data, msk, unsaved, generated, used, trouble>>

\* p found no secret and has not saved, or not failed to save, its own yet.
Generating(p) ==
  \/ pc[p] = "init" /\ sealed_data[p] \notin Secret
  \/ pc[p] \in {"bind", "write"} /\ unsaved[p]

\* The file is read whole.  Two processes that generate at once are trouble.
Load(p) ==
  /\ pc[p] = "load"
  /\ sealed_data' = [sealed_data EXCEPT ![p] = sealed_file]
  /\ Goto(p, "init")
  /\ trouble' = (trouble \/ (sealed_file \notin Secret /\ \E q \in Proc : Generating(q)))
  /\ UNCHANGED <<sealed_file, one_shot, unbound, msk, unsaved, generated, used>>

\* Unsealing fails on a torn file, and may fail on a whole one; so may sealing, and
\* then actual_sealed_size stays 0 as it does when nothing is generated.
ecall_init_kms(p) ==
  /\ pc[p] = "init"
  /\ \/ /\ sealed_data[p] \in Secret
        /\ msk' = [msk EXCEPT ![p] = sealed_data[p]]
        /\ unsaved' = [unsaved EXCEPT ![p] = FALSE]
        /\ UNCHANGED <<generated, trouble>>
     \/ /\ generated < MaxSecrets
        /\ generated' = generated + 1
        /\ msk' = [msk EXCEPT ![p] = generated']
        /\ \E sealing \in BOOLEAN :
             /\ unsaved' = [unsaved EXCEPT ![p] = sealing]
             /\ trouble' = (trouble \/ ~sealing \/ sealed_data[p] \in Secret)
  /\ Goto(p, "bind")
  /\ UNCHANGED <<sealed_file, one_shot, unbound, sealed_data, used>>

\* A label that cannot be bound ends the process, before anything is saved.
BindLabel(p) ==
  /\ pc[p] = "bind"
  /\ unbound[p] > 0
  /\ \/ /\ unbound' = [unbound EXCEPT ![p] = @ - 1]
        /\ UNCHANGED <<pc, one_shot, sealed_data, msk, unsaved>>
     \/ End(p)
  /\ UNCHANGED <<sealed_file, generated, used, trouble>>

\* A process that leaves the saving to the server.
SavesAsServer(p) == unsaved[p] /\ ~one_shot[p]

Saves(p) == unsaved[p]

\* fopen truncates the file.  When it fails main goes on without a word.
OpenSealed(p) ==
  /\ pc[p] = "bind"
  /\ unbound[p] = 0
  /\ \/ Saves(p) /\ sealed_file' = Torn /\ Goto(p, "write") /\ UNCHANGED trouble
     \/ Saves(p) /\ trouble' = TRUE /\ Goto(p, "run") /\ UNCHANGED sealed_file
     \/ ~Saves(p) /\ Goto(p, "run") /\ UNCHANGED <<sealed_file, trouble>>
  /\ UNCHANGED <<one_shot, unbound, sealed_data, msk, unsaved, generated, used>>

\* What fwrite returns is not looked at.
WriteSealed(p) ==
  /\ pc[p] = "write"
  /\ \/ sealed_file' = msk[p] /\ UNCHANGED trouble
     \/ trouble' = TRUE /\ UNCHANGED sealed_file
  /\ Goto(p, "run")
  /\ UNCHANGED <<one_shot, unbound, sealed_data, msk, unsaved, generated, used>>

\* --print-pubkey or --bfibe-public-params, on an output file that can be written.
Publish(p) ==
  /\ pc[p] = "run" /\ one_shot[p]
  /\ used' = used \cup {msk[p]}
  /\ End(p)
  /\ UNCHANGED <<sealed_file, generated, trouble>>

\* A server releases keys to a worker.
Release(p) ==
  /\ pc[p] = "run" /\ ~one_shot[p]
  /\ used' = used \cup {msk[p]}
  /\ UNCHANGED <<sealed_file, process, generated, trouble>>

\* A process is ended.  That is trouble only between truncation and write.
Exit(p) ==
  /\ pc[p] # "off"
  /\ End(p)
  /\ trouble' = (trouble \/ pc[p] = "write")
  /\ UNCHANGED <<sealed_file, generated, used>>

-----------------------------------------------------------------------------
Next ==
  \E p \in Proc :
    \/ main(p)
    \/ Load(p)
    \/ ecall_init_kms(p)
    \/ BindLabel(p)
    \/ OpenSealed(p)
    \/ WriteSealed(p)
    \/ Publish(p)
    \/ Release(p)
    \/ Exit(p)

Spec == Init /\ [][Next]_vars

-----------------------------------------------------------------------------
(* Properties. *)

\* Whatever was encrypted to a published key, and whatever was opened with a released
\* one, stays so: the secret behind it is the one on disk, which every process that
\* runs has and every later one will find.  Ends of processes do not change that,
\* also right after a secret was generated, nor do bindings that fail.
SecretKept ==
  ~trouble =>
    /\ \A m \in used : sealed_file = m
    /\ \A p \in Proc : pc[p] = "run" => sealed_file = msk[p]
=============================================================================
