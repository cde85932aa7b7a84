------------------------- MODULE ProtectedEnvelope -------------------------
(***************************************************************************)
(* The protected envelopes of target-bound activations and the JSON        *)
(* contract they travel in, as the OpenWhisk patch checks them             *)
(* (third-party/openwhisk/asynccs-openwhisk.patch).  An envelope is what   *)
(* its header says: the bytes it protects, and their encoding in base64,   *)
(* are left out.  A value that a check refuses is Failed.                  *)
(***************************************************************************)
EXTENDS Integers

CONSTANTS
    Failed,         \* Left(...)
    None,           \* an Option without a value
    Correlation     \* request ids and code ids, as their hashes

ProtectedObjectKind == {"Code", "Input", "Result"}
ProtectedCorrelationKind == {"CodeObject", "RequestId"}

\* ProtectedEnvelopeDirection, each with its ivDomain
ivDomain == [SourceToGateway |-> 0, GatewayToTarget |-> 0,
             TargetToGateway |-> 1, GatewayToSource |-> 1]

ProtectedEnvelopeV1 ==
    [kind : ProtectedObjectKind, direction : DOMAIN ivDomain, iv : {0, 1},
     bindingId : Nat, correlationKind : ProtectedCorrelationKind, correlation : Correlation]

\* The action has one revision
Revision == "revision"

\* What a container is handed, and what it reports
TargetDispatch ==
    [targetBindingId : Nat, sourceBindingId : Nat, exactRevision : {Revision}, warmed : BOOLEAN,
     targetInput : ProtectedEnvelopeV1, targetCode : ProtectedEnvelopeV1 \cup {None}]
TargetResult ==
    [sourceBindingId : Nat, targetBindingId : Nat,
     requestIdHash : Correlation, targetEnvelope : ProtectedEnvelopeV1]

\* The absence of a value is none of the values
ASSUME NoneIsNoValue ==
    /\ None \notin {Failed, Revision}
    /\ None \notin ProtectedEnvelopeV1 \cup TargetDispatch \cup TargetResult

\* ProtectedEnvelopeV1.decode of an envelope whose lengths and ids are right
decodes(e) == e.bindingId > 0 /\ e.iv = ivDomain[e.direction]

requireEnvelope(e, kind, correlationKind) ==
    /\ e.direction = "SourceToGateway"
    /\ e.kind = kind
    /\ e.correlationKind = correlationKind

requireTargetEnvelope(e, kind, targetBindingId) ==
    /\ e.direction = IF kind = "Result" THEN "TargetToGateway" ELSE "GatewayToTarget"
    /\ e.kind = kind
    /\ e.bindingId = targetBindingId
    /\ e.correlationKind = IF kind = "Code" THEN "CodeObject" ELSE "RequestId"

-----------------------------------------------------------------------------
(* P1GatewayControlClient: what it sends, and which answer it accepts      *)

validateToTarget(targetBindingId, e) ==
    targetBindingId > 0 /\ e.direction = "SourceToGateway" /\ e.kind \in {"Code", "Input"}

validateToSource(sourceBindingId, targetBindingId, e) ==
    /\ sourceBindingId > 0 /\ targetBindingId > 0
    /\ e.direction = "TargetToGateway" /\ e.bindingId = targetBindingId /\ e.kind = "Result"

\* A decodeReencryptResponse that does not ask for whom the answer is
TrustsBinding(answer, e, direction, bindingId) ==
    /\ answer # Failed /\ decodes(answer)
    /\ answer.direction = direction
    /\ answer.kind = e.kind
    /\ answer.correlationKind = e.correlationKind /\ answer.correlation = e.correlation

\* The Gateway's output envelope must preserve what the input was bound to
decodeReencryptResponse(answer, e, direction, bindingId) ==
    /\ answer # Failed /\ decodes(answer)
    /\ answer.direction = direction /\ answer.bindingId = bindingId
    /\ answer.kind = e.kind
    /\ answer.correlationKind = e.correlationKind /\ answer.correlation = e.correlation

reencryptToTarget(targetBindingId, e, answer) ==
    IF /\ validateToTarget(targetBindingId, e)
       /\ decodeReencryptResponse(answer, e, "GatewayToTarget", targetBindingId)
    THEN answer ELSE Failed

reencryptResultToSource(sourceBindingId, targetBindingId, e, answer) ==
    IF /\ validateToSource(sourceBindingId, targetBindingId, e)
       /\ decodeReencryptResponse(answer, e, "GatewayToSource", sourceBindingId)
    THEN answer ELSE Failed

\* What the Gateway makes of an envelope: the same object under another binding
Rebound(e, direction, bindingId) ==
    [e EXCEPT !.direction = direction, !.iv = ivDomain[direction], !.bindingId = bindingId]

\* The Gateway's answer: refused, or what was asked for
GatewayAnswer(e, direction, bindingId, accepts) ==
    IF accepts THEN Rebound(e, direction, bindingId) ELSE Failed

\* What else can arrive: nothing at all, or an answer to something else: of another
\* request, for the binding the envelope came from or another one, in another
\* direction or of another kind
WrongAnswers(e, direction, bindingId) ==
    LET right == Rebound(e, direction, bindingId) IN
    {[right EXCEPT !.correlation = k] : k \in Correlation \ {e.correlation}}
        \cup {[right EXCEPT !.bindingId = b] : b \in {0, e.bindingId, bindingId + 1} \ {bindingId}}
        \cup {Rebound(e, other, bindingId) : other \in DOMAIN ivDomain \ {direction}}
        \cup {[right EXCEPT !.kind = kind] : kind \in ProtectedObjectKind \ {e.kind}}
        \cup {Failed}

-----------------------------------------------------------------------------
(* TargetBoundActivationContent                                            *)

\* The content of an activation before dispatch: its protected input alone
sourceInput(content) ==
    IF content # None /\ decodes(content) /\ requireEnvelope(content, "Input", "RequestId")
    THEN content ELSE Failed

targetDispatch(targetBindingId, sourceBindingId, exactRevision, warmed, targetInput, targetCode) ==
    [targetBindingId |-> targetBindingId, sourceBindingId |-> sourceBindingId,
     exactRevision |-> exactRevision, warmed |-> warmed,
     targetInput |-> targetInput, targetCode |-> targetCode]

\* Whether the container accepts the content it was handed
parseTargetDispatch(d) ==
    /\ d.targetBindingId > 0 /\ d.sourceBindingId > 0 /\ d.exactRevision # None
    /\ decodes(d.targetInput) /\ requireTargetEnvelope(d.targetInput, "Input", d.targetBindingId)
    /\ d.targetCode # None =>
           /\ decodes(d.targetCode)
           /\ requireTargetEnvelope(d.targetCode, "Code", d.targetBindingId)
    /\ d.warmed = (d.targetCode = None)

targetResult(dispatch, response) ==
    [sourceBindingId |-> dispatch.sourceBindingId, targetBindingId |-> dispatch.targetBindingId,
     requestIdHash |-> response.requestIdHash, targetEnvelope |-> response.envelope]

\* A targetBoundRuntimeResponse that leaves the correlation to the Gateway
TrustsRuntime(dispatch, response) ==
    IF /\ response # Failed /\ decodes(response.envelope)
       /\ response.envelope.bindingId = dispatch.targetBindingId
       /\ response.envelope.kind = "Result"
    THEN targetResult(dispatch, response) ELSE Failed

\* FunctionPullingContainerProxy: what the runtime answered must belong to the dispatch
targetBoundRuntimeResponse(dispatch, response) ==
    IF /\ response # Failed /\ decodes(response.envelope)
       /\ response.targetBindingId = dispatch.targetBindingId
       /\ response.envelope.bindingId = dispatch.targetBindingId
       /\ response.envelope.kind = "Result"
       /\ response.envelope.direction = "TargetToGateway"
       /\ response.requestIdHash = dispatch.targetInput.correlation
       /\ response.envelope.correlation = dispatch.targetInput.correlation
    THEN targetResult(dispatch, response) ELSE Failed

\* Whether the controller accepts the result the container reported
parseTargetResult(r) ==
    /\ r.sourceBindingId > 0 /\ r.targetBindingId > 0
    /\ decodes(r.targetEnvelope)
    /\ requireTargetEnvelope(r.targetEnvelope, "Result", r.targetBindingId)
    /\ r.targetEnvelope.correlation = r.requestIdHash
=============================================================================
