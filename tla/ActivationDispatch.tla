------------------------- MODULE ActivationDispatch -------------------------
(***************************************************************************)
(* The scheduler's queue of one action, as the OpenWhisk patch changes it: *)
(* an activation leaves the queue for a dispatch, the dispatcher has the   *)
(* Gateway re-encrypt its input, and for a cold container its code, to the *)
(* target of the pull, and the queue hears of it later                     *)
(* (MemoryQueue.beginActivationDispatch, completeActivationDispatch,       *)
(* GatewayTargetBoundActivationDispatcher).  Activations are numbered in   *)
(* the order they first arrive.  The poll timer, its CancelPoll message    *)
(* and the time limit of the ask are upstream's.                           *)
(***************************************************************************)
EXTENDS ProtectedEnvelope, Sequences, FiniteSets

CONSTANTS
    Activations,    \* how many activations arrive
    Malformed,      \* those whose content is not a protected input
    Pull,           \* pulls, each a GetActivation of one container
    SourceBinding,  \* the source's binding id
    CodeId,         \* the correlation of the action's code
    MaxTimeouts     \* bound on the timers that go off

Activation == 1..Activations

ASSUME DispatchConstants ==
    /\ Activations \in Nat /\ Malformed \subseteq Activation
    /\ Activation \subseteq Correlation /\ CodeId \in Correlation
    /\ SourceBinding \in Nat \ {0}

\* What a pull asks for, and what it is answered
Request == [warmed : BOOLEAN, targetBindingId : Nat]
Message(a, content) == [kind |-> "ActivationMessage", activation |-> a, content |-> content]
NoActivationMessage == [kind |-> "NoActivationMessage"]
TargetReencryptionError == [kind |-> "TargetReencryptionError"]
ActivationMessage == [kind : {"ActivationMessage"}, activation : Activation, content : TargetDispatch]

\* The absence of one is neither
ASSUME NoneIsNoMessage ==
    /\ None \notin Request /\ None \notin ActivationMessage
    /\ None \notin {NoActivationMessage, TargetReencryptionError}

VARIABLES
    arrived,        \* activations that arrived
    queue,          \* activations, the oldest first
    pending,        \* dispatches in progress
    requestBuffer,  \* pulls that wait for an activation
    request,        \* each pull: what it asks for, None before it is sent
    completed,      \* pulls whose promise is completed
    poll,           \* each pull at the queue: its message, then its poll timer
    ask,            \* the caller's side of each pull
    answer,         \* what the caller was answered
    returned,       \* activations that came back from a dispatch
    rescheduled,    \* activations that came back from a container
    timeouts        \* timers that went off so far

dispatchVars == <<arrived, queue, pending, requestBuffer, request, completed, poll,
                  ask, answer, returned, rescheduled, timeouts>>

\* The content each activation arrives with, and its action's code.  What comes back
\* from a container has the content it was handed there, which is no protected input.
Content(a) ==
    IF a \in Malformed \cup rescheduled THEN None
    ELSE [kind |-> "Input", direction |-> "SourceToGateway", iv |-> 0,
          bindingId |-> SourceBinding, correlationKind |-> "RequestId", correlation |-> a]
SourceProtectedCode ==
    [kind |-> "Code", direction |-> "SourceToGateway", iv |-> 0,
     bindingId |-> SourceBinding, correlationKind |-> "CodeObject", correlation |-> CodeId]

\* A dispatch on its way: of which activation, to which pull, and whether that waited
Dispatch ==
    [entry : Activation, pull : Pull, waiting : BOOLEAN,
     step : {"prepare", "code", "input", "completed"},
     code : ProtectedEnvelopeV1 \cup {None}, result : TargetDispatch \cup {None, Failed}]

DispatchTypeOK ==
    /\ arrived \in 0..Activations /\ queue \in Seq(1..arrived)
    /\ pending \subseteq Dispatch
    /\ requestBuffer \subseteq Pull /\ completed \subseteq Pull
    /\ request \in [Pull -> Request \cup {None}]
    /\ poll \in [Pull -> {"none", "sent", "set", "fired", "off"}]
    /\ ask \in [Pull -> {"unused", "asking", "answered", "expired"}]
    /\ answer \in [Pull -> ActivationMessage \cup {NoActivationMessage, TargetReencryptionError, None}]
    /\ returned \subseteq Activation /\ rescheduled \subseteq Activation /\ timeouts \in Nat
    /\ \A p \in Pull : answer[p] # None <=> ask[p] \in {"answered", "expired"}
    /\ \A d \in pending : request[d.pull] # None

DispatchInit ==
    /\ arrived = 0 /\ queue = <<>> /\ pending = {} /\ requestBuffer = {} /\ completed = {}
    /\ request = [p \in Pull |-> None]
    /\ poll = [p \in Pull |-> "none"]
    /\ ask = [p \in Pull |-> "unused"]
    /\ answer = [p \in Pull |-> None]
    /\ returned = {} /\ rescheduled = {} /\ timeouts = 0

-----------------------------------------------------------------------------
(* Answers                                                                 *)

\* replyTo ! ...: the caller hears it unless its ask timed out
Reply(p, value) ==
    IF ask[p] = "asking"
    THEN /\ ask' = [ask EXCEPT ![p] = "answered"]
         /\ answer' = [answer EXCEPT ![p] = value]
    ELSE UNCHANGED <<ask, answer>>

\* promise.trySuccess: only the first completion of a promise is sent on
TrySuccess(p, value) ==
    IF p \in completed
    THEN UNCHANGED <<completed, ask, answer>>
    ELSE completed' = completed \cup {p} /\ Reply(p, value)

completeDispatchRecipient(d, value) ==
    IF d.waiting THEN TrySuccess(d.pull, value)
    ELSE Reply(d.pull, value) /\ UNCHANGED completed

-----------------------------------------------------------------------------
(* The queue                                                               *)

beginActivationDispatch(a, p, waiting) ==
    pending' = pending \cup {[entry |-> a, pull |-> p, waiting |-> waiting,
                              step |-> "prepare", code |-> None, result |-> None]}

Uncompleted == requestBuffer \ completed

\* A FirstRequests that overlooks the cold containers
OnlyWarmed == {p \in Uncompleted : request[p].warmed}

\* Pulls in the buffer that may be taken: the warmed ones first
FirstRequests ==
    {p \in Uncompleted : request[p].warmed \/ \A q \in Uncompleted : ~request[q].warmed}

\* cancelPoll.cancel(): a timer that went off has sent its message already
CancelTimer(p) == IF poll[p] = "set" THEN [poll EXCEPT ![p] = "off"] ELSE poll

\* A takeUncompletedRequest that leaves the pull in the buffer
LeavesRequest(p) ==
    /\ p \in FirstRequests
    /\ requestBuffer' = Uncompleted
    /\ poll' = CancelTimer(p)

takeUncompletedRequest(p) ==
    /\ p \in FirstRequests
    /\ requestBuffer' = Uncompleted \ {p}
    /\ poll' = CancelTimer(p)

handleActivationMessage(a) ==
    /\ \/ /\ FirstRequests = {}
          /\ queue' = Append(queue, a)
          /\ requestBuffer' = Uncompleted
          /\ UNCHANGED <<pending, poll>>
       \/ \E p \in FirstRequests :
             /\ takeUncompletedRequest(p)
             /\ beginActivationDispatch(a, p, TRUE)
             /\ UNCHANGED queue
    /\ UNCHANGED <<request, completed, ask, answer, returned, timeouts>>

\* The message comes from a client, or again: a container sent it back
NewArrives ==
    /\ arrived < Activations
    /\ arrived' = arrived + 1
    /\ handleActivationMessage(arrived + 1) /\ UNCHANGED rescheduled

Rearrives(a) ==
    /\ rescheduled' = rescheduled \cup {a}
    /\ handleActivationMessage(a) /\ UNCHANGED arrived

\* A dequeue that leaves the activation in the queue
Peeked == queue

Dequeued == Tail(queue)

\* The request of a pull reaches the queue's actor
handleActivationRequest(p) ==
    /\ request[p] # None /\ poll[p] = "sent"
    /\ IF queue # <<>>
       THEN /\ queue' = Dequeued
            /\ beginActivationDispatch(Head(queue), p, FALSE)
            /\ poll' = [poll EXCEPT ![p] = "off"]
            /\ UNCHANGED requestBuffer
       ELSE /\ requestBuffer' = requestBuffer \cup {p}    \* pollForActivation
            /\ poll' = [poll EXCEPT ![p] = "set"]
            /\ UNCHANGED <<queue, pending>>
    /\ UNCHANGED <<arrived, request, completed, ask, answer, returned, rescheduled, timeouts>>

TimeOut == timeouts < MaxTimeouts /\ timeouts' = timeouts + 1

\* The poll timer goes off, and the queue's actor gets its CancelPoll later
TimerFires(p) ==
    /\ poll[p] = "set"
    /\ poll' = [poll EXCEPT ![p] = "fired"] /\ TimeOut
    /\ UNCHANGED <<arrived, queue, pending, requestBuffer, request, completed, ask, answer, returned,
                   rescheduled>>

CancelPoll(p) ==
    /\ poll[p] = "fired"
    /\ poll' = [poll EXCEPT ![p] = "off"]
    /\ TrySuccess(p, NoActivationMessage)
    /\ UNCHANGED <<arrived, queue, pending, requestBuffer, request, returned, rescheduled, timeouts>>

\* A Returned that puts the activation at the end
ReturnedLast(a) == Append(queue, a)

\* Left(error): the activation goes back to the head of the queue
Returned(a) == <<a>> \o queue

completeActivationDispatch(d) ==
    /\ d \in pending /\ d.step = "completed"
    /\ pending' = pending \ {d}
    /\ IF d.result # Failed
       THEN /\ completeDispatchRecipient(d, Message(d.entry, d.result))
            /\ UNCHANGED <<queue, returned>>
       ELSE /\ queue' = Returned(d.entry)
            /\ returned' = returned \cup {d.entry}
            /\ completeDispatchRecipient(d, TargetReencryptionError)
    /\ UNCHANGED <<arrived, requestBuffer, request, poll, rescheduled, timeouts>>

-----------------------------------------------------------------------------
(* GatewayTargetBoundActivationDispatcher                                  *)

Advance(d, e) ==
    /\ pending' = (pending \ {d}) \cup {e}
    /\ UNCHANGED <<arrived, queue, requestBuffer, request, completed, poll, ask, answer, returned,
                   rescheduled, timeouts>>

Finish(d, result) == Advance(d, [d EXCEPT !.step = "completed", !.result = result])

\* What prepare refuses before anything is asked of anyone
Refused(d) == request[d.pull].targetBindingId = 0 \/ sourceInput(Content(d.entry)) = Failed

\* prepare: a warmed container needs no code; for a cold one it is looked up in
\* the database (codeProvider.load), which can fail
prepare(d, found) ==
    /\ d \in pending /\ d.step = "prepare"
    /\ IF Refused(d) THEN Finish(d, Failed)
       ELSE IF request[d.pull].warmed THEN Advance(d, [d EXCEPT !.step = "input"])
       ELSE IF found /\ requireEnvelope(SourceProtectedCode, "Code", "CodeObject")
       THEN Advance(d, [d EXCEPT !.step = "code"])
       ELSE Finish(d, Failed)

reencryptCode(d, reply) ==
    /\ d \in pending /\ d.step = "code"
    /\ LET targetCode == reencryptToTarget(request[d.pull].targetBindingId, SourceProtectedCode, reply)
       IN IF targetCode = Failed THEN Finish(d, Failed)
          ELSE Advance(d, [d EXCEPT !.step = "input", !.code = targetCode])

reencryptInput(d, reply) ==
    /\ d \in pending /\ d.step = "input"
    /\ LET r == request[d.pull]
           targetInput == reencryptToTarget(r.targetBindingId, Content(d.entry), reply)
       IN IF targetInput = Failed THEN Finish(d, Failed)
          ELSE Finish(d, targetDispatch(r.targetBindingId, Content(d.entry).bindingId, Revision,
                                        r.warmed, targetInput, d.code))

-----------------------------------------------------------------------------
(* The callers: ActivationServiceImpl.fetchActivation                      *)

fetchActivation(p, r) ==
    /\ ask[p] = "unused"
    /\ ask' = [ask EXCEPT ![p] = "asking"]
    /\ request' = [request EXCEPT ![p] = r]
    /\ poll' = [poll EXCEPT ![p] = "sent"]
    /\ UNCHANGED <<arrived, queue, pending, requestBuffer, completed, answer, returned, rescheduled, timeouts>>

\* An ask that times out and is not recovered
NotRecovered(p) == answer

\* recover: an ask that times out is answered NoActivationMessage
Recovered(p) == [answer EXCEPT ![p] = NoActivationMessage]

AskTimesOut(p) ==
    /\ ask[p] = "asking"
    /\ ask' = [ask EXCEPT ![p] = "expired"]
    /\ answer' = Recovered(p) /\ TimeOut
    /\ UNCHANGED <<arrived, queue, pending, requestBuffer, request, completed, poll, returned, rescheduled>>

-----------------------------------------------------------------------------
(* Where each activation is                                                *)

Queued == {queue[i] : i \in DOMAIN queue}
Dispatching == {d.entry : d \in pending}
Answered == {p \in Pull : ask[p] = "answered" /\ answer[p].kind = "ActivationMessage"}
Handed == {answer[p].activation : p \in Answered}
Lost == (1..arrived) \ (Queued \cup Dispatching \cup Handed)

\* An answer that reaches nobody takes its activation with it, and an activation is
\* lost in no other way: there are no more lost than pulls answered NoActivationMessage
\* (completeDispatchRecipient, trySuccess, recover).
LostOnlyUnanswered ==
    Cardinality(Lost) <= Cardinality({p \in Pull : answer[p] = NoActivationMessage})

\* A pull waits beside a queue that is not empty only when what is queued came
\* back from a failed dispatch: then nobody offers it to the pulls that wait.
WaitsOnlyBesideReturned == Uncompleted # {} => Queued \subseteq returned

\* Activations overtake each other in the queue only by coming back to it, from a
\* dispatch or from a container
QueueInOrder ==
    \A i, j \in DOMAIN queue : i < j =>
        \/ queue[i] < queue[j] \/ {queue[i], queue[j]} \subseteq returned
        \/ queue[i] \in rescheduled \/ queue[j] \in rescheduled
=============================================================================
