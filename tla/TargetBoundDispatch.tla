------------------------ MODULE TargetBoundDispatch ------------------------
(***************************************************************************)
(* Target-bound activations from the queue to the client: containers with  *)
(* a binding at the Gateway pull from the queue, run what they are handed, *)
(* and report the result, which the controller has the Gateway re-encrypt  *)
(* to the source (the OpenWhisk patch: ActivationClientProxy,              *)
(* FunctionPullingContainerProxy, P1GatewayResultFinalizer).  The Gateway  *)
(* accepts an envelope for a target it holds ACTIVE.                       *)
(***************************************************************************)
EXTENDS ActivationDispatch, TargetBinding

CONSTANTS
    MaxConcurrent,  \* activations a warmed container runs at a time
    MaxMishaps      \* bound on failed calls and timers taken together

\* The pulls of each container are numbered
ASSUME PullsOfContainers == Pull \subseteq Container \X Nat

VARIABLES
    heard,      \* pulls whose answer the container proxy has heard
    running,    \* runningActivations of each container, with their contents
    warm,       \* containers whose code is initialized
    rescheduling,   \* activations on their way back to the scheduler
    report,     \* the result each activation's container sent to the controller
    outcome     \* what the client of each activation gets

proxyVars == <<heard, running, warm, rescheduling, report, outcome>>
vars == <<dispatchVars, bindingVars, proxyVars>>

Init ==
    /\ DispatchInit /\ BindingInit
    /\ heard = {} /\ warm = Warmed /\ rescheduling = {}
    /\ running = [c \in Container |-> {}]
    /\ report = [a \in Activation |-> None]
    /\ outcome = [a \in Activation |-> None]

-----------------------------------------------------------------------------
(* ActivationClientProxy                                                   *)

PullsOf(c) == {p \in Pull : p[1] = c}
Outstanding(c) == {p \in PullsOf(c) : ask[p] # "unused" /\ p \notin heard}
RoomFor(c) == running[c] = {} \/ (c \in warm /\ Cardinality(running[c]) < MaxConcurrent)

\* A container asks for an activation, one pull at a time
requestActivation(p) ==
    LET c == p[1] IN
    /\ stage[c] = "ready" /\ Outstanding(c) = {} /\ RoomFor(c)
    /\ \A q \in PullsOf(c) : q[2] < p[2] => ask[q] # "unused"
    /\ fetchActivation(p, [warmed |-> c \in warm, targetBindingId |-> target[c]])
    /\ UNCHANGED <<bindingVars, proxyVars>>

\* An activation is run; a target-bound error ends the
\* container; anything else is asked for again
HearAnswer(p) ==
    LET c == p[1]
        value == answer[p]
    IN
    /\ p \in Outstanding(c) /\ ask[p] # "asking"
    /\ heard' = heard \cup {p}
    /\ CASE value.kind = "ActivationMessage" ->
               /\ running' = [running EXCEPT ![c] = @ \cup {value}]
               /\ UNCHANGED <<stage, paused>>
         [] value.kind = "TargetReencryptionError" ->
               cleanUp(c, FALSE) /\ UNCHANGED running
         [] OTHER ->
               UNCHANGED <<running, stage, paused>>
    /\ UNCHANGED <<dispatchVars, warm, rescheduling, report, outcome,
                   bridge, owner, active, target, unready, unhealthy, lost, faults>>

-----------------------------------------------------------------------------
(* FunctionPullingContainerProxy.initializeAndRunActivation                *)

\* targetPreconditions
MayRun(c, m) ==
    /\ parseTargetDispatch(m.content)
    /\ m.content.exactRevision = Revision
    /\ m.content.targetBindingId = target[c]
    /\ m.content.warmed = (c \in warm)

\* The executor's answer to an input: a result of the same request
RuntimeResponse(d) ==
    [targetBindingId |-> d.targetBindingId, requestIdHash |-> d.targetInput.correlation,
     envelope |-> [d.targetInput EXCEPT !.kind = "Result", !.direction = "TargetToGateway",
                                        !.iv = ivDomain["TargetToGateway"]]]

\* What else it can answer: an error, the result of something else or for another
\* binding, or the input as it came
WrongResponses(d) ==
    LET right == RuntimeResponse(d) IN
    {[right EXCEPT !.requestIdHash = k, !.envelope.correlation = k] :
        k \in Correlation \ {d.targetInput.correlation}}
        \cup {[right EXCEPT !.targetBindingId = b, !.envelope.bindingId = b] :
                   b \in {d.sourceBindingId, d.targetBindingId + 1} \ {d.targetBindingId}}
        \cup {[right EXCEPT !.envelope = d.targetInput], Failed}

\* After an error upstream may remove the container.  Here as below it does so only
\* while no pull of the container is out: what it makes of a late answer is not in
\* this repository.
MayEnd(c) ==
    \/ UNCHANGED stage
    \/ stage[c] = "ready" /\ Outstanding(c) = {} /\ GoTo(c, "removing")

\* The run ends with a target result, or an error; an activation that may not run
\* ends at once
RunActivation(c, m) ==
    /\ m \in running[c]
    /\ running' = [running EXCEPT ![c] = @ \ {m}]
    /\ IF MayRun(c, m)
       THEN /\ warm' = warm \cup {c}
            /\ LET Reports(response) == report' = [report EXCEPT ![m.activation] =
                       targetBoundRuntimeResponse(m.content, response)]
               IN \/ Reports(RuntimeResponse(m.content)) /\ UNCHANGED <<faults, stage>>
                  \/ /\ Fault /\ MayEnd(c)
                     /\ \E response \in WrongResponses(m.content) : Reports(response)
       ELSE /\ report' = [report EXCEPT ![m.activation] = Failed]
            /\ MayEnd(c)
            /\ UNCHANGED <<warm, faults>>
    /\ UNCHANGED <<dispatchVars, heard, rescheduling, outcome,
                   bridge, owner, active, target, paused, unready, unhealthy, lost>>

\* ContainerHealthErrorWithResumedRun: the call to run failed before it took effect, and
\* the activation is sent to the scheduler again, with the content it came with
HealthError(c, m) ==
    /\ m \in running[c] /\ MayRun(c, m) /\ Fault
    /\ running' = [running EXCEPT ![c] = @ \ {m}]
    /\ rescheduling' = rescheduling \cup {m.activation}
    /\ warm' = warm \cup {c} /\ MayEnd(c)
    /\ UNCHANGED <<dispatchVars, heard, report, outcome,
                   bridge, owner, active, target, paused, unready, unhealthy, lost>>

\* The scheduler takes it for an arriving one, or refuses it: that is reported
Rescheduled(a) ==
    /\ a \in rescheduling
    /\ rescheduling' = rescheduling \ {a}
    /\ \/ Rearrives(a) /\ UNCHANGED report
       \/ report' = [report EXCEPT ![a] = Failed] /\ UNCHANGED dispatchVars
    /\ UNCHANGED <<bindingVars, heard, running, warm, outcome>>

\* An idle container, which may have been paused, is removed
RemoveIdle(c) ==
    /\ Outstanding(c) = {} /\ running[c] = {}
    /\ \E isPaused \in BOOLEAN : cleanUp(c, isPaused)
    /\ UNCHANGED <<dispatchVars, proxyVars>>

\* A MayClose that waits for nothing
ClosesAtOnce(c) == TRUE

\* A MayClose that leaves a paused container alone
SparesPaused(c) == running[c] = {} /\ c \notin paused

\* ClientClosed: the binding is kept until the activations of the container end
MayClose(c) == running[c] = {}

ClientClosed(c) ==
    /\ MayClose(c) /\ beginTargetBoundRemoval(c)
    /\ UNCHANGED <<dispatchVars, proxyVars>>

LifecycleStep(c) == Lifecycle(c) /\ UNCHANGED <<dispatchVars, proxyVars>>

-----------------------------------------------------------------------------
(* The dispatcher and the Gateway                                          *)

\* The Gateway, or the database, answers as it should, or a fault answers instead
Answers(e, direction, bindingId, accepts, Takes(_)) ==
    \/ Takes(GatewayAnswer(e, direction, bindingId, accepts)) /\ UNCHANGED faults
    \/ Fault /\ \E reply \in WrongAnswers(e, direction, bindingId) : Takes(reply)

Prepare(d) ==
    \/ prepare(d, TRUE) /\ UNCHANGED faults
    \/ ~request[d.pull].warmed /\ Fault /\ prepare(d, FALSE)
    \/ /\ d.step = "code"
       /\ LET b == request[d.pull].targetBindingId
              Takes(reply) == reencryptCode(d, reply)
          IN Answers(SourceProtectedCode, "GatewayToTarget", b, b \in active, Takes)
    \/ /\ d.step = "input"
       /\ LET b == request[d.pull].targetBindingId
              Takes(reply) == reencryptInput(d, reply)
          IN Answers(Content(d.entry), "GatewayToTarget", b, b \in active, Takes)

DispatchStep(d) ==
    /\ Prepare(d)
    /\ UNCHANGED <<proxyVars, stage, bridge, owner, active, target, paused, unready, unhealthy, lost>>

CompleteStep(d) == completeActivationDispatch(d) /\ UNCHANGED <<bindingVars, proxyVars>>

QueueStep ==
    /\ \/ NewArrives
       \/ \E p \in Pull : \/ handleActivationRequest(p) \/ TimerFires(p)
                          \/ CancelPoll(p) \/ AskTimesOut(p)
    /\ UNCHANGED <<bindingVars, proxyVars>>

-----------------------------------------------------------------------------
(* P1GatewayResultFinalizer                                                *)

\* What the client is answered: the result for the source, or a system error
finalizeResult(a) ==
    /\ report[a] # None /\ outcome[a] = None
    /\ LET r == report[a] IN
       IF r = Failed \/ ~parseTargetResult(r)
       THEN outcome' = [outcome EXCEPT ![a] = Failed] /\ UNCHANGED faults
       ELSE LET Takes(reply) == outcome' = [outcome EXCEPT ![a] =
                    reencryptResultToSource(r.sourceBindingId, r.targetBindingId, r.targetEnvelope, reply)]
            IN Answers(r.targetEnvelope, "GatewayToSource", r.sourceBindingId,
                       r.targetBindingId \in active, Takes)
    /\ UNCHANGED <<dispatchVars, heard, running, warm, rescheduling, report,
                   stage, bridge, owner, active, target, paused, unready, unhealthy, lost>>

Next ==
    /\ \/ \E p \in Pull : requestActivation(p) \/ HearAnswer(p)
       \/ \E c \in Container : \/ \E m \in running[c] : RunActivation(c, m) \/ HealthError(c, m)
                               \/ RemoveIdle(c) \/ ClientClosed(c) \/ LifecycleStep(c)
       \/ \E d \in pending : DispatchStep(d) \/ CompleteStep(d)
       \/ QueueStep
       \/ \E a \in Activation : Rescheduled(a) \/ finalizeResult(a)
    /\ faults' + timeouts' <= MaxMishaps

\* Calls to the Gateway, the bridge and the database have time limits, and an
\* activation its own; the actors handle what is in their mailboxes.  That some
\* step of these is taken while one can be is all that is needed of them.
SystemStep ==
    \/ \E d \in pending : DispatchStep(d) \/ CompleteStep(d)
    \/ \E c \in Container : \/ \E m \in running[c] : RunActivation(c, m)
                            \/ ClientClosed(c) \/ LifecycleStep(c)

Spec == Init /\ [][Next]_vars /\ WF_vars(SystemStep)

-----------------------------------------------------------------------------
(* Properties                                                              *)

ProxyTypeOK ==
    /\ heard \subseteq Pull /\ warm \subseteq Container /\ rescheduling \subseteq Activation
    /\ running \in [Container -> SUBSET ActivationMessage]
    /\ report \in [Activation -> TargetResult \cup {None, Failed}]
    /\ outcome \in [Activation -> ProtectedEnvelopeV1 \cup {None, Failed}]

TypeOK == BindingTypeOK /\ DispatchTypeOK /\ ProxyTypeOK

\* The pulls activation a was the answer to; whether one of them is not heard yet;
\* whether a runs; and everyone who has it
Receivers(a) == {p \in Answered : answer[p].activation = a}
Unheard(a) == ~(Receivers(a) \subseteq heard)
Runs(a) == \E c \in Container : \E m \in running[c] : m.activation = a
Custodians(a) ==
    {who \in {"client", "queue", "dispatch", "pull", "container", "reschedule"} :
        \/ who = "client" /\ a > arrived
        \/ who = "queue" /\ a \in Queued
        \/ who = "dispatch" /\ a \in Dispatching
        \/ who = "pull" /\ Unheard(a)
        \/ who = "container" /\ Runs(a)
        \/ who = "reschedule" /\ a \in rescheduling}

\* At every moment at most one party has an activation, it is the answer to one pull at
\* most and runs once at most, though a container may send it back
\* (MemoryQueue, GatewayTargetBoundActivationDispatcher, initializeAndRunActivation).
Custody == INSTANCE ActivationCustody WITH
    custodians <- [a \in Activation |-> Custodians(a)],
    receivers <- [a \in Activation |-> Receivers(a)]
CustodyKept == Custody!Spec

\* No dispatch keeps an activation for ever, and a container whose removal is decided
\* drains and is destroyed, whichever of the calls to the database, the Gateway, the
\* bridge and the container fail (prepare, recover; beginTargetBoundRemoval).
EventuallyOver ==
    /\ \A a \in Activation : a \in Dispatching ~> a \notin Dispatching
    /\ \A c \in Container : stage[c] = "removing" ~> stage[c] = "destroyed"

\* A container runs what was re-encrypted to it: the input it holds is the one of
\* the activation, under a binding registered for that container, and with the code
\* just when the container has none, so none of what it is handed is refused
\* (decodeReencryptResponse, targetPreconditions).
RunsOwnInput ==
    \A c \in Container : \A m \in running[c] :
        /\ MayRun(c, m) /\ m.content.targetInput.correlation = m.activation
        /\ m.content.targetInput.bindingId = target[c] /\ owner[target[c]] = c

\* A container that serves activations, or still has one running, has its binding
\* ACTIVE at the Gateway and its endpoint at the bridge (awaitReady, ClientClosed).
ServesWhileBound ==
    \A c \in Container : stage[c] \in {"ready", "removing"} \/ running[c] # {} =>
        c \in bridge /\ target[c] \in active /\ owner[target[c]] = c

\* What a client gets is the result of its own request, for its own binding,
\* or an error (targetBoundRuntimeResponse, parseTargetResult, decodeReencryptResponse).
OwnResult ==
    \A a \in Activation : outcome[a] \notin {None, Failed} =>
        /\ outcome[a].correlation = a
        /\ outcome[a].direction = "GatewayToSource" /\ outcome[a].bindingId = SourceBinding
=============================================================================
