------------------------- MODULE ActivationCustody -------------------------
(***************************************************************************)
(* What queue and containers promise of an activation: at every moment at  *)
(* most one party has it.  The queue has it until a dispatch takes it, the *)
(* dispatch until it is the answer to a pull, or returns to the queue, or  *)
(* its answer reaches nobody; the container that hears the answer has it   *)
(* until its run ends, or sends it back to the queue.  It is the answer to *)
(* one pull at most, also when it was sent back; and what was lost, or     *)
(* whose run ended, never comes back.                                      *)
(***************************************************************************)
CONSTANTS
    Activation,
    Pull

VARIABLES
    custodians,     \* who has each activation
    receivers       \* the pulls each was the answer to

vars == <<custodians, receivers>>

Init ==
    /\ custodians = [a \in Activation |-> {"client"}]
    /\ receivers = [a \in Activation |-> {}]

Passes(a, from, to) ==
    /\ custodians[a] = {from}
    /\ custodians' = [custodians EXCEPT ![a] = to]

\* From a client, or from a container that sent it back
Arrives(a) ==
    \E from \in {"client", "reschedule"}, to \in {"queue", "dispatch"} : Passes(a, from, {to})

Taken(a) == Passes(a, "queue", {"dispatch"})

ComesBack(a) == Passes(a, "dispatch", {"queue"})

Answers(a, p) ==
    /\ receivers[a] = {} /\ Passes(a, "dispatch", {"pull"})
    /\ receivers' = [receivers EXCEPT ![a] = {p}]

IsLost(a) == receivers[a] = {} /\ Passes(a, "dispatch", {})

IsHeard(a) == Passes(a, "pull", {"container"})

Ends(a) == \E from \in {"container", "reschedule"} : Passes(a, from, {})

SentBack(a) == Passes(a, "container", {"reschedule"})

Next == \E a \in Activation :
    \/ \E p \in Pull : Answers(a, p)
    \/ /\ \/ Arrives(a) \/ Taken(a) \/ ComesBack(a) \/ IsLost(a)
          \/ IsHeard(a) \/ Ends(a) \/ SentBack(a)
       /\ UNCHANGED receivers

Spec == Init /\ [][Next]_vars
=============================================================================
