--------------------------- MODULE TargetBinding ---------------------------
(***************************************************************************)
(* The life of a target-bound container: GatewayTargetBindingProvider and  *)
(* the parts of FunctionPullingContainerProxy that wait for a binding,     *)
(* give it up and remove the container (the OpenWhisk patch).  Bridge,     *)
(* Gateway and container are reached by calls that can fail, before they   *)
(* take effect or with only the answer lost.                               *)
(***************************************************************************)
EXTENDS Integers, FiniteSets

CONSTANTS
    Container,
    NoContainer,
    Warmed,         \* containers that served a queue of the action before
    MaxTargets,     \* bound on the registrations the Gateway accepts
    MaxFaults       \* bound on the calls that fail

ASSUME BindingBounds ==
    /\ MaxTargets \in Nat /\ MaxFaults \in Nat /\ NoContainer \notin Container
    /\ Warmed \subseteq Container /\ IsFiniteSet(Warmed) /\ Cardinality(Warmed) <= MaxTargets

VARIABLES
    stage,      \* where each container is, from when it was created
    bridge,     \* containers with an endpoint at the bridge
    owner,      \* the container each target of the Gateway was registered for
    active,     \* targets the Gateway holds ACTIVE
    target,     \* the binding id the container proxy knows, 0 for none
    paused,     \* containers that are paused
    unready,    \* containers whose awaitReady failed
    unhealthy,  \* containers whose proxy reported a failure
    lost,       \* targets whose registration was never answered
    faults      \* calls that failed so far

bindingVars == <<stage, bridge, owner, active, target, paused, unready, unhealthy, lost, faults>>

Target == 1..MaxTargets
Stage == {"binding", "registering", "activating", "ready", "removing",
          "closing", "unbinding", "destroyed"}

\* The warmed containers were given the first targets
BindingInit ==
    /\ stage = [c \in Container |-> IF c \in Warmed THEN "ready" ELSE "binding"]
    /\ target \in [Container -> 0..Cardinality(Warmed)]
    /\ \A c \in Container : target[c] # 0 <=> c \in Warmed
    /\ \A b, c \in Warmed : target[b] = target[c] => b = c
    /\ bridge = Warmed
    /\ active = {target[c] : c \in Warmed}
    /\ owner = [t \in Target |->
                   IF t \in active THEN CHOOSE c \in Warmed : target[c] = t ELSE NoContainer]
    /\ paused = {} /\ unready = {} /\ unhealthy = {} /\ lost = {}
    /\ faults = 0

BindingTypeOK ==
    /\ stage \in [Container -> Stage]
    /\ bridge \subseteq Container /\ paused \subseteq Container
    /\ unready \subseteq Container /\ unhealthy \subseteq Container
    /\ owner \in [Target -> Container \cup {NoContainer}]
    /\ active \subseteq Target /\ lost \subseteq Target
    /\ target \in [Container -> 0..MaxTargets]
    /\ faults \in 0..MaxFaults

\* A call of container c fails; the proxy hears of it, or gives up waiting
Fault == faults < MaxFaults /\ faults' = faults + 1

GoTo(c, s) == stage' = [stage EXCEPT ![c] = s]

\* A failure that is only logged
Silent(c) == UNCHANGED unhealthy

\* HealthMessage(state = false): the scheduler hears of a removal that failed
Report(c) == unhealthy' = unhealthy \cup {c}

\* awaitTargetBindingOrDestroy: that awaitReady failed is only logged
NotReady(c) == unready' = unready \cup {c} /\ Silent(c)

\* closeBinding fails: in the cleanup of awaitReady it is only logged as well
CloseFails(c) == IF c \in unready THEN Silent(c) ELSE Report(c)

-----------------------------------------------------------------------------
(* awaitReady: bind, register until the deadline, activate                 *)

Bind(c) ==
    /\ stage[c] = "binding"
    /\ bridge' = bridge \cup {c}
    /\ GoTo(c, "registering")
    /\ UNCHANGED <<owner, active, target, paused, unready, unhealthy, lost, faults>>

\* The request failed, at the bridge or on the way back: nothing is undone, and
\* the container is destroyed
BindFails(c) ==
    /\ stage[c] = "binding" /\ Fault
    /\ bridge' \in {bridge, bridge \cup {c}}
    /\ GoTo(c, "destroyed") /\ NotReady(c)
    /\ UNCHANGED <<owner, active, target, paused, lost>>

\* The answer cannot be parsed: the endpoint is given back
BindUnparsed(c) ==
    /\ stage[c] = "binding" /\ Fault
    /\ bridge' = bridge \cup {c}
    /\ GoTo(c, "unbinding") /\ NotReady(c)
    /\ UNCHANGED <<owner, active, target, paused, lost>>

\* Targets the Gateway has not given out yet; it gives out the first of them
Unused == {t \in Target : owner[t] = NoContainer}
FirstUnused(t) == t \in Unused /\ \A u \in Unused : t <= u

Register(c) ==
    /\ stage[c] = "registering"
    /\ \E t \in Target :
           /\ FirstUnused(t)
           /\ owner' = [owner EXCEPT ![t] = c]
           /\ active' = active \cup {t}
           /\ target' = [target EXCEPT ![c] = t]
    /\ GoTo(c, "activating")
    /\ UNCHANGED <<bridge, paused, unready, unhealthy, lost, faults>>

\* Refused, or registered and the answer lost; tried again before the deadline
RegisterFails(c) ==
    /\ stage[c] = "registering" /\ Fault
    /\ \/ UNCHANGED <<owner, active, lost>>
       \/ \E t \in Target :
              /\ FirstUnused(t)
              /\ owner' = [owner EXCEPT ![t] = c]
              /\ active' = active \cup {t}
              /\ lost' = lost \cup {t}
    /\ \/ GoTo(c, "registering") /\ UNCHANGED <<unready, unhealthy>>
       \/ GoTo(c, "unbinding") /\ NotReady(c)
    /\ UNCHANGED <<bridge, target, paused>>

Activate(c) ==
    /\ stage[c] = "activating"
    /\ GoTo(c, "ready")
    /\ UNCHANGED <<bridge, owner, active, target, paused, unready, unhealthy, lost, faults>>

ActivateFails(c) ==
    /\ stage[c] = "activating" /\ Fault
    /\ GoTo(c, "closing") /\ NotReady(c)
    /\ UNCHANGED <<bridge, owner, active, target, paused, lost>>

-----------------------------------------------------------------------------
(* The end of a container                                                  *)

\* cleanUp: the removal is recorded, with whether the container is paused, and
\* waits for the client to close
cleanUp(c, isPaused) ==
    /\ stage[c] = "ready"
    /\ GoTo(c, "removing")
    /\ paused' = IF isPaused THEN paused \cup {c} ELSE paused
    /\ UNCHANGED <<bridge, owner, active, target, unready, unhealthy, lost, faults>>

\* beginTargetBoundRemoval; a container that does not resume keeps its binding
NextRemoval(resumed) == IF resumed THEN "closing" ELSE "destroyed"

beginTargetBoundRemoval(c) ==
    /\ stage[c] = "removing"
    /\ \/ /\ paused' = paused \ {c}
          /\ GoTo(c, NextRemoval(TRUE))
          /\ UNCHANGED <<unhealthy, faults>>
       \/ /\ c \in paused /\ Fault
          /\ GoTo(c, NextRemoval(FALSE)) /\ Report(c)
          /\ UNCHANGED paused
    /\ UNCHANGED <<bridge, owner, active, target, unready, lost>>

\* closeGateway: whatever comes of it, the endpoint is given back next
CloseTarget(c) ==
    /\ stage[c] = "closing"
    /\ \/ active' = active \ {target[c]} /\ UNCHANGED <<unhealthy, faults>>
       \/ Fault /\ active' \in {active, active \ {target[c]}} /\ CloseFails(c)
    /\ GoTo(c, "unbinding")
    /\ UNCHANGED <<bridge, owner, target, paused, unready, lost>>

\* The last call before destroyContainer, which follows whatever comes of it
Unbind(c) ==
    /\ stage[c] = "unbinding"
    /\ \/ bridge' = bridge \ {c} /\ UNCHANGED <<unhealthy, faults>>
       \/ Fault /\ bridge' \in {bridge, bridge \ {c}} /\ CloseFails(c)
    /\ GoTo(c, "destroyed")
    /\ UNCHANGED <<owner, active, target, paused, unready, lost>>

\* The steps of a container that is not serving activations
Lifecycle(c) ==
    \/ Bind(c) \/ BindFails(c) \/ BindUnparsed(c)
    \/ Register(c) \/ RegisterFails(c) \/ Activate(c) \/ ActivateFails(c)
    \/ CloseTarget(c) \/ Unbind(c)

-----------------------------------------------------------------------------
(* What the life of a container promises                                   *)

\* A container that was ready leaves no ACTIVE target and no endpoint at the bridge
\* behind in silence: its proxy reported the failure, or the registration was one
\* whose answer it never saw (beginTargetBoundRemoval).  Of what a failed awaitReady
\* leaves nothing is promised: that failure is only logged.
NothingLeftInSilence ==
    \A c \in Container : stage[c] = "destroyed" /\ c \notin unready \cup unhealthy =>
        c \notin bridge /\ \A t \in active : owner[t] = c => t \in lost
=============================================================================
