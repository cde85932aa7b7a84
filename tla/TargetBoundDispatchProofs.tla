---------------------- MODULE TargetBoundDispatchProofs ----------------------
(***************************************************************************)
(* Target-bound activations, for any number of containers, pulls,          *)
(* activations, failed calls and timers: who has each activation, how many *)
(* can be lost, what a container runs and what a client gets, that a       *)
(* binding is kept while it is needed, and that queue and containers       *)
(* implement ActivationCustody.                                            *)
(***************************************************************************)
EXTENDS TargetBoundDispatch, FiniteSetTheorems, TLAPS

\* Containers that may leave something behind: never ready, or reported.
Excused == unready \cup unhealthy

\* A binding is there from registration to removal, and what is left behind was reported.
Bindings ==
  \A c \in Container :
    /\ stage[c] \notin {"binding", "destroyed"} => c \in bridge
    /\ stage[c] \in {"binding", "registering"} => target[c] = 0
    /\ stage[c] \in {"activating", "ready", "removing", "closing"} => target[c] \in active
    /\ target[c] # 0 => owner[target[c]] = c
    /\ \A t \in active : owner[t] = c => t = target[c] \/ t \in lost
    /\ stage[c] \in {"unbinding", "destroyed"} /\ c \notin Excused => target[c] \notin active
    /\ stage[c] = "destroyed" /\ c \notin Excused => c \notin bridge

\* A pull that was sent and whose caller waits, or has given up.
Unanswered(p) == ask[p] = "asking" \/ answer[p] = NoActivationMessage

\* A pull the queue may still answer with an activation.
Unserved(p) == poll[p] = "sent" \/ p \in Uncompleted

\* What queue and caller know of a pull.
Pulls ==
  \A p \in Pull :
    /\ (request[p] = None) = (ask[p] = "unused")
    /\ (poll[p] = "none") = (ask[p] = "unused")
    /\ ask[p] = "expired" => answer[p] = NoActivationMessage
    /\ p \in requestBuffer => poll[p] \in {"set", "fired", "off"}
    /\ Unserved(p) => Unanswered(p)

\* A dispatch has its pull and its activation to itself; when it waited and its promise is
\* completed, a CancelPoll was first.  It ends with a result or an error, and with an error when
\* its activation comes from a container.
Dispatches ==
  /\ \A d, e \in pending : d.entry = e.entry \/ d.pull = e.pull => d = e
  /\ \A d \in pending :
       /\ ~Unserved(d.pull) /\ Unanswered(d.pull)
       /\ poll[d.pull] \in (IF d.waiting THEN {"fired", "off"} ELSE {"off"})
       /\ d.waiting /\ d.pull \in completed => answer[d.pull] = NoActivationMessage
       /\ d.step = "completed" => d.result # None
       /\ d.entry \in rescheduled => d.result \in {None, Failed}

\* Queue, dispatches and callers have different activations, which arrived, and none twice,
\* but for those that came back from a container.
Separate ==
  /\ \A i, j \in DOMAIN queue : queue[i] = queue[j] => i = j
  /\ \A d \in pending : d.entry \in 1..arrived \ Queued
  /\ \A p \in Answered : answer[p].activation \in 1..arrived
  /\ \A p \in Answered :
       answer[p].activation \in Queued \cup Dispatching => answer[p].activation \in rescheduled
  /\ \A p, q \in Answered : answer[p].activation = answer[q].activation => p = q

\* What is dispatched arrived before what is queued, unless that came back, or either came
\* from a container.
Precedence ==
  \A d \in pending : \A i \in DOMAIN queue :
    \/ d.entry < queue[i] \/ queue[i] \in returned
    \/ d.entry \in rescheduled \/ queue[i] \in rescheduled

QueueInv ==
  /\ DispatchTypeOK /\ Pulls /\ Dispatches /\ Separate
  /\ WaitsOnlyBesideReturned /\ Precedence /\ QueueInOrder

\* The pulls that an activation has been lost for, if any was: they were answered without
\* one, and will not be given one.
Spent ==
  {p \in Pull : answer[p] = NoActivationMessage /\ ~Unserved(p) /\ \A d \in pending : d.pull # p}

Sent == {p \in Pull : ask[p] # "unused"}

LossInv ==
  /\ IsFiniteSet(Sent)
  /\ Cardinality(Lost) <= Cardinality(Spent)

\* What a step of queue, dispatcher or caller makes of an activation.
AnswersKept == Answered' = Answered /\ \A p \in Answered : answer'[p] = answer[p]

Stays == UNCHANGED <<arrived, Queued, Dispatching>> /\ AnswersKept

Arrival(a) ==
  /\ arrived' = a /\ a = arrived + 1 /\ AnswersKept
  /\ \/ Queued' = Queued \cup {a} /\ UNCHANGED Dispatching
     \/ UNCHANGED Queued /\ Dispatching' = Dispatching \cup {a}

Taking(a) ==
  /\ a \in Queued /\ Queued' = Queued \ {a} /\ Dispatching' = Dispatching \cup {a}
  /\ UNCHANGED arrived /\ AnswersKept

Return(a) ==
  /\ a \in Dispatching /\ Dispatching' = Dispatching \ {a} /\ Queued' = Queued \cup {a}
  /\ UNCHANGED arrived /\ AnswersKept

Handing(a, p) ==
  /\ a \in Dispatching /\ Dispatching' = Dispatching \ {a} /\ UNCHANGED <<arrived, Queued>>
  /\ a \notin Handed /\ answer[p] = None
  /\ p \notin Answered /\ Answered' = Answered \cup {p} /\ answer'[p].activation = a
  /\ \A q \in Answered : answer'[q] = answer[q]

Loss(a, p) ==
  /\ a \in Dispatching /\ Dispatching' = Dispatching \ {a} /\ UNCHANGED <<arrived, Queued>>
  /\ a \notin Handed /\ AnswersKept /\ p \in Spent' \ Spent

\* No answer is taken back.
Settled == \A p \in Pull : answer[p] # None => answer'[p] = answer[p]

Passage ==
  /\ Spent \subseteq Spent' /\ Settled /\ UNCHANGED rescheduled
  /\ \/ Stays
     \/ \E a \in Activation :
          \/ Arrival(a) \/ Taking(a) \/ Return(a)
          \/ \E p \in Pull : Handing(a, p) \/ Loss(a, p)

\* What a container sent back arrives again.
Resending(a) ==
  /\ a \in Handed /\ a \notin Queued \cup Dispatching
  /\ \/ Queued' = Queued \cup {a} /\ UNCHANGED Dispatching
     \/ UNCHANGED Queued /\ Dispatching' = Dispatching \cup {a}
  /\ UNCHANGED arrived /\ AnswersKept /\ Settled
  /\ Spent \subseteq Spent' /\ rescheduled' = rescheduled \cup {a}

\* Code a pull can be answered with: none when its container has it.
FitCode(code, r) ==
  IF r.warmed THEN code = None
  ELSE code \in ProtectedEnvelopeV1 /\ decodes(code)
       /\ requireTargetEnvelope(code, "Code", r.targetBindingId)

\* The content of activation a, re-encrypted for a request.
FitContent(content, a, r) ==
  /\ content \in TargetDispatch
  /\ content.targetBindingId = r.targetBindingId /\ content.sourceBindingId = SourceBinding
  /\ content.exactRevision = Revision /\ content.warmed = r.warmed
  /\ decodes(content.targetInput)
  /\ requireTargetEnvelope(content.targetInput, "Input", r.targetBindingId)
  /\ content.targetInput.correlation = a
  /\ FitCode(content.targetCode, r)

\* A dispatch has what its step needs, and ends with what its pull asked for.
FitDispatch(d) ==
  LET r == request[d.pull] IN
  /\ d.step = "prepare" => d.code = None
  /\ d.step \in {"code", "input"} => /\ r.targetBindingId # 0
                                   /\ d.entry \notin Malformed \cup rescheduled
  /\ d.step = "code" => ~r.warmed
  /\ d.step = "input" => FitCode(d.code, r)
  /\ d.step = "completed" => d.result = Failed \/ FitContent(d.result, d.entry, r)

Contents ==
  /\ \A d \in pending : FitDispatch(d)
  /\ \A p \in Answered : FitContent(answer[p].content, answer[p].activation, request[p])

\* What container c asks for.
Asked(c) == [warmed |-> c \in warm, targetBindingId |-> target[c]]

IsOut(p) == ask[p] # "unused" /\ p \notin heard

\* One pull at a time is out, of a container that serves and has not changed since; before
\* it is warm a container has one activation or one pull at most.
Proxies ==
  /\ \A p \in Pull : IsOut(p) => stage[p[1]] = "ready" /\ request[p] = Asked(p[1])
  /\ \A p, q \in Pull : IsOut(p) /\ IsOut(q) /\ p[1] = q[1] => p = q
  /\ \A c \in Container : running[c] # {} => stage[c] \in {"ready", "removing"}
  /\ \A c \in Container \ warm :
       /\ \A p \in Pull : p[1] = c /\ IsOut(p) => running[c] = {}
       /\ \A m, n \in running[c] : m = n
  /\ \A c \in Container : \A m \in running[c] : FitContent(m.content, m.activation, Asked(c))

\* What was reported of an activation is its own result.
Results ==
  \A a \in Activation : report[a] \notin {None, Failed} =>
    report[a].targetEnvelope.correlation = a /\ report[a].sourceBindingId = SourceBinding

\* What runs, or ran and was sent back, is what a pull of the container was answered with
\* and heard; it is sent back once.
Resends ==
  /\ \A p \in heard : answer[p] # None
  /\ \A c \in Container : \A m \in running[c] :
       /\ m.activation \notin rescheduling \cup rescheduled
       /\ \E p \in Answered \cap heard : p[1] = c /\ answer[p] = m
  /\ \A a \in rescheduling \cup rescheduled :
       \E p \in Answered \cap heard : answer[p].activation = a
  /\ rescheduling \cap rescheduled = {}

BindInv == BindingTypeOK /\ Bindings

ProxyInv == ProxyTypeOK /\ Proxies /\ Results /\ OwnResult

IInv == BindInv /\ QueueInv /\ LossInv /\ Contents /\ ProxyInv /\ Resends

-----------------------------------------------------------------------------
(* The life of a binding. *)

LEMMA BindsIInv ==
  ASSUME BindInv, NEW c \in Container, Bind(c) \/ BindFails(c) \/ BindUnparsed(c)
  PROVE  BindInv'
<1>1. /\ stage[c] = "binding" /\ bridge' \in {bridge, bridge \cup {c}}
      /\ \/ /\ stage' = [stage EXCEPT ![c] = "registering"]
            /\ bridge' = bridge \cup {c} /\ UNCHANGED <<unready, unhealthy, faults>>
         \/ /\ stage' = [stage EXCEPT ![c] = "destroyed"]
            /\ unready' = unready \cup {c} /\ UNCHANGED unhealthy /\ faults < MaxFaults /\ faults' = faults + 1
         \/ /\ stage' = [stage EXCEPT ![c] = "unbinding"] /\ bridge' = bridge \cup {c}
            /\ unready' = unready \cup {c} /\ UNCHANGED unhealthy /\ faults < MaxFaults /\ faults' = faults + 1
      /\ UNCHANGED <<owner, active, target, paused, lost>>
  BY DEF Bind, BindFails, BindUnparsed, GoTo, NotReady, Silent, Fault
<1>2. BindingTypeOK'
  BY <1>1, BindingBounds DEF BindInv, BindingTypeOK, Stage
<1>3. Bindings'
  BY <1>1 DEF BindInv, BindingTypeOK, Bindings, Excused
<1> QED
  BY <1>2, <1>3 DEF BindInv

LEMMA RegistersIInv ==
  ASSUME BindInv, NEW c \in Container, Register(c) \/ RegisterFails(c)
  PROVE  BindInv'
<1>1. /\ stage[c] = "registering" /\ UNCHANGED <<bridge, paused>>
      /\ faults' \in 0..MaxFaults /\ unready' \subseteq Container /\ unhealthy' \subseteq Container
      /\ \/ UNCHANGED <<owner, active, target, lost>>
         \/ \E t \in Target :
              /\ owner[t] = NoContainer
              /\ owner' = [owner EXCEPT ![t] = c] /\ active' = active \cup {t}
              /\ \/ lost' = lost \cup {t} /\ UNCHANGED target
                 \/ target' = [target EXCEPT ![c] = t] /\ UNCHANGED lost
      /\ \/ /\ stage' = [stage EXCEPT ![c] = "activating"] /\ UNCHANGED Excused
            /\ target'[c] \in active'
         \/ /\ stage' = [stage EXCEPT ![c] = "registering"] /\ UNCHANGED <<Excused, target>>
         \/ /\ stage' = [stage EXCEPT ![c] = "unbinding"] /\ UNCHANGED target
            /\ Excused' = Excused \cup {c}
  <2>1. CASE Register(c)
    <3>1. /\ stage[c] = "registering" /\ UNCHANGED <<bridge, paused, faults, unready, unhealthy, lost>>
          /\ stage' = [stage EXCEPT ![c] = "activating"]
          /\ \E t \in Target : /\ owner[t] = NoContainer
                               /\ owner' = [owner EXCEPT ![t] = c] /\ active' = active \cup {t}
                               /\ target' = [target EXCEPT ![c] = t]
      BY <2>1 DEF Register, GoTo, FirstUnused, Unused
    <3>2. /\ target'[c] \in active' /\ faults' \in 0..MaxFaults /\ UNCHANGED Excused
          /\ unready' \subseteq Container /\ unhealthy' \subseteq Container
      BY <3>1 DEF BindInv, BindingTypeOK, Excused
    <3> QED
      BY <3>1, <3>2
  <2>2. CASE RegisterFails(c)
    BY <2>2, BindingBounds
       DEF RegisterFails, GoTo, FirstUnused, Unused, Fault, NotReady, Silent, Excused, BindInv,
           BindingTypeOK
  <2> QED
    BY <2>1, <2>2
<1>2. BindingTypeOK'
  <2>1. stage' \in [Container -> Stage]
    BY <1>1 DEF BindInv, BindingTypeOK, Stage
  <2>2. /\ owner' \in [Target -> Container \cup {NoContainer}]
        /\ active' \subseteq Target /\ lost' \subseteq Target
    BY <1>1 DEF BindInv, BindingTypeOK
  <2>3. target' \in [Container -> 0..MaxTargets]
    BY <1>1, BindingBounds DEF BindInv, BindingTypeOK, Target
  <2> QED
    BY <1>1, <2>1, <2>2, <2>3 DEF BindInv, BindingTypeOK
<1>3. target[c] = 0
  BY <1>1 DEF BindInv, Bindings
<1>4. CASE UNCHANGED <<owner, active, target, lost>>
  <2>1. /\ stage'[c] \in {"registering", "unbinding"} /\ c \in bridge
        /\ (stage'[c] = "unbinding") => (c \in Excused')
        /\ UNCHANGED <<bridge, owner, active, target, lost>>
        /\ \A b \in Container \ {c} : stage'[b] = stage[b] /\ (b \in Excused' <=> b \in Excused)
    BY <1>1, <1>3, <1>4 DEF BindInv, BindingTypeOK, Bindings, Target
  <2>2. target[c] \notin active
    BY <1>3 DEF BindInv, BindingTypeOK, Target
  <2> QED
    BY <1>2, <1>3, <2>1, <2>2 DEF BindInv, Bindings
<1>5. ASSUME NEW t \in Target, owner[t] = NoContainer,
             owner' = [owner EXCEPT ![t] = c], active' = active \cup {t},
             \/ lost' = lost \cup {t} /\ UNCHANGED target
             \/ target' = [target EXCEPT ![c] = t] /\ UNCHANGED lost
      PROVE  Bindings'
  <2>1. \A b \in Container : target[b] # 0 => target[b] \in Target /\ target[b] # t
    BY <1>5, BindingBounds DEF BindInv, BindingTypeOK, Bindings, Target
  <2>2. \A b \in Container \ {c} : target'[b] = target[b] /\ stage'[b] = stage[b]
    BY <1>1, <1>5 DEF BindInv, BindingTypeOK
  <2>3. stage'[c] \in {"activating", "registering", "unbinding"}
    BY <1>1 DEF BindInv, BindingTypeOK
  <2> QED
    BY <1>1, <1>3, <1>5, <2>1, <2>2, <2>3, BindingBounds DEF BindInv, BindingTypeOK, Bindings, Target
<1> QED
  BY <1>1, <1>2, <1>4, <1>5 DEF BindInv

\* A container that closes its target takes no other container's.
LEMMA ClosesIInv ==
  ASSUME BindInv, NEW c \in Container,
         Activate(c) \/ ActivateFails(c) \/ CloseTarget(c) \/ Unbind(c)
  PROVE  BindInv'
<1> DEFINE Complains == unhealthy' = IF c \in unready THEN unhealthy ELSE unhealthy \cup {c}
<1>1. /\ UNCHANGED <<owner, target, paused, lost>> /\ faults' \in 0..MaxFaults
      /\ \/ /\ stage[c] = "activating" /\ UNCHANGED <<bridge, active>>
            /\ unhealthy' = unhealthy /\ unready' \in {unready, unready \cup {c}}
            /\ \/ stage' = [stage EXCEPT ![c] = "ready"]
               \/ stage' = [stage EXCEPT ![c] = "closing"]
         \/ /\ stage[c] = "closing" /\ UNCHANGED <<bridge, unready>>
            /\ stage' = [stage EXCEPT ![c] = "unbinding"]
            /\ \/ active' = active \ {target[c]} /\ UNCHANGED unhealthy
               \/ active' \in {active, active \ {target[c]}} /\ Complains
         \/ /\ stage[c] = "unbinding" /\ UNCHANGED <<active, unready>>
            /\ stage' = [stage EXCEPT ![c] = "destroyed"]
            /\ \/ bridge' = bridge \ {c} /\ UNCHANGED unhealthy
               \/ bridge' \in {bridge, bridge \ {c}} /\ Complains
  BY BindingBounds DEF Activate, ActivateFails, CloseTarget, Unbind, GoTo, Fault, NotReady, CloseFails,
        Silent, Report, BindInv, BindingTypeOK
<1>2. BindingTypeOK'
  BY <1>1 DEF BindInv, BindingTypeOK, Stage
<1>3. \A b \in Container : b # c /\ target[b] # 0 => target[b] # target[c]
  BY DEF BindInv, Bindings
<1>4. \A b \in Container \ {c} :
        /\ stage'[b] = stage[b] /\ (b \in Excused' <=> b \in Excused)
        /\ (b \in bridge' <=> b \in bridge)
        /\ target[b] \in active' <=> target[b] \in active
  BY <1>1, <1>3 DEF BindInv, BindingTypeOK, Bindings, Target, Excused
<1>5. \/ /\ stage'[c] \in {"ready", "closing"} /\ stage[c] = "activating"
         /\ UNCHANGED <<bridge, active>>
      \/ /\ stage'[c] = "unbinding" /\ stage[c] = "closing" /\ UNCHANGED bridge
         /\ c \in Excused' \/ target[c] \notin active'
      \/ /\ stage'[c] = "destroyed" /\ stage[c] = "unbinding" /\ UNCHANGED active
         /\ c \in Excused' \/ (c \notin bridge' /\ c \notin Excused)
  BY <1>1 DEF BindInv, BindingTypeOK, Excused
<1>6. active' \subseteq active
  BY <1>1
<1>7. Bindings'
  BY <1>1, <1>4, <1>5, <1>6 DEF BindInv, Bindings
<1> QED
  BY <1>2, <1>7 DEF BindInv

LEMMA RemovesIInv ==
  ASSUME BindInv, NEW c \in Container,
         (\E isPaused \in BOOLEAN : cleanUp(c, isPaused)) \/ beginTargetBoundRemoval(c)
  PROVE  BindInv'
<1>1. /\ UNCHANGED <<bridge, owner, active, target, unready, lost>> /\ faults' \in 0..MaxFaults
      /\ paused' \in {paused, paused \cup {c}, paused \ {c}}
      /\ \/ /\ stage[c] = "ready" /\ stage' = [stage EXCEPT ![c] = "removing"]
            /\ UNCHANGED unhealthy
         \/ /\ stage[c] = "removing" /\ stage' = [stage EXCEPT ![c] = "closing"]
            /\ UNCHANGED unhealthy
         \/ /\ stage[c] = "removing" /\ stage' = [stage EXCEPT ![c] = "destroyed"]
            /\ unhealthy' = unhealthy \cup {c}
  BY BindingBounds
     DEF cleanUp, beginTargetBoundRemoval, NextRemoval, GoTo, Fault, Report, BindInv, BindingTypeOK
<1>2. BindingTypeOK'
  BY <1>1 DEF BindInv, BindingTypeOK, Stage
<1>3. Bindings'
  BY <1>1 DEF BindInv, BindingTypeOK, Bindings, Excused
<1> QED
  BY <1>2, <1>3 DEF BindInv

LEMMA LifecycleIInv ==
  ASSUME BindInv, NEW c \in Container, Lifecycle(c)
  PROVE  BindInv'
BY BindsIInv, RegistersIInv, ClosesIInv DEF Lifecycle

\* Elsewhere a stage changes from ready to removing only.
LEMMA OtherBindIInv ==
  ASSUME BindInv, UNCHANGED <<bridge, owner, active, target, paused, unready, unhealthy, lost>>,
         faults' = faults \/ Fault,
         \/ UNCHANGED stage
         \/ \E c \in Container : stage[c] = "ready" /\ stage' = [stage EXCEPT ![c] = "removing"]
  PROVE  BindInv'
<1>1. faults' \in 0..MaxFaults
  BY BindingBounds DEF Fault, BindInv, BindingTypeOK
<1>2. BindingTypeOK'
  BY <1>1 DEF BindInv, BindingTypeOK, Stage
<1>3. Bindings'
  BY DEF BindInv, BindingTypeOK, Bindings, Excused
<1> QED
  BY <1>2, <1>3 DEF BindInv

\* The targets of the warmed containers are different ones of the first.
LEMMA InitBindIInv == ASSUME BindingInit PROVE BindInv
<1>1. Cardinality(Warmed) \in Nat
  BY FS_CardinalityType, BindingBounds
<1>2. \A c \in Container : target[c] \in 0..Cardinality(Warmed)
  BY DEF BindingInit
<1>3. active \subseteq Target
  BY <1>1, <1>2, BindingBounds DEF BindingInit, Target
<1>4. \A t \in active : \E c \in Warmed : target[c] = t
  BY DEF BindingInit
<1>5. \A c \in Warmed : target[c] \in active /\ owner[target[c]] = c
  BY <1>3, <1>4 DEF BindingInit
<1>6. \A t \in active : owner[t] \in Warmed /\ target[owner[t]] = t
  BY <1>3, <1>4 DEF BindingInit
<1>7. BindingTypeOK
  <2>1. owner \in [Target -> Container \cup {NoContainer}]
    BY <1>6, BindingBounds DEF BindingInit
  <2>2. target \in [Container -> 0..MaxTargets]
    BY <1>1, BindingBounds DEF BindingInit
  <2> QED
    BY <1>3, <2>1, <2>2, BindingBounds DEF BindingInit, BindingTypeOK, Stage
<1>8. Bindings
  BY <1>5, <1>6, BindingBounds DEF BindingInit, Bindings
<1> QED
  BY <1>7, <1>8 DEF BindInv

-----------------------------------------------------------------------------
(* The queue. *)

\* The three ways the queue changes, place by place.
LEMMA Appended ==
  ASSUME NEW S, queue \in Seq(S), NEW x \in S, queue' = Append(queue, x)
  PROVE  /\ queue' \in Seq(S) /\ Queued' = Queued \cup {x}
         /\ \A i \in DOMAIN queue' : i \in Nat /\ \/ i \in DOMAIN queue /\ queue'[i] = queue[i]
                                                  \/ i = Len(queue) + 1 /\ queue'[i] = x
         /\ \A i \in DOMAIN queue : i \in Nat /\ i < Len(queue) + 1
<1>1. /\ DOMAIN queue = 1..Len(queue) /\ Len(queue) \in Nat
      /\ queue' \in Seq(S) /\ DOMAIN queue' = 1..(Len(queue) + 1)
      /\ \A i \in DOMAIN queue : queue'[i] = queue[i]
      /\ queue'[Len(queue) + 1] = x
  OBVIOUS
<1>2. Queued' = Queued \cup {x}
  BY <1>1 DEF Queued
<1> QED
  BY <1>1, <1>2

LEMMA Shortened ==
  ASSUME NEW S, queue \in Seq(S), queue # <<>>, queue' = Tail(queue)
  PROVE  /\ queue' \in Seq(S) /\ Queued = Queued' \cup {Head(queue)}
         /\ 1 \in DOMAIN queue /\ queue[1] = Head(queue) /\ Head(queue) \in S
         /\ \A i \in DOMAIN queue' : /\ i \in Nat /\ 1 <= i
                                     /\ i + 1 \in DOMAIN queue /\ queue'[i] = queue[i + 1]
<1>1. /\ DOMAIN queue = 1..Len(queue) /\ Len(queue) \in Nat /\ 1 <= Len(queue)
      /\ queue' \in Seq(S) /\ DOMAIN queue' = 1..(Len(queue) - 1)
      /\ \A i \in 1..(Len(queue) - 1) : queue'[i] = queue[i + 1]
      /\ queue[1] = Head(queue) /\ Head(queue) \in S
  OBVIOUS
<1>2. ASSUME NEW i \in DOMAIN queue
      PROVE  i = 1 \/ (i - 1 \in DOMAIN queue' /\ queue'[i - 1] = queue[i])
  BY <1>1
<1>3. Queued = Queued' \cup {Head(queue)}
  BY <1>1, <1>2 DEF Queued
<1> QED
  BY <1>1, <1>3

LEMMA Prepended ==
  ASSUME NEW S, queue \in Seq(S), NEW x \in S, queue' = Returned(x)
  PROVE  /\ queue' \in Seq(S) /\ Queued' = Queued \cup {x}
         /\ \A i \in DOMAIN queue' : /\ i \in Nat /\ 1 <= i
                                     /\ \/ i = 1 /\ queue'[i] = x
                                        \/ i - 1 \in DOMAIN queue /\ queue'[i] = queue[i - 1]
<1>1. /\ DOMAIN queue = 1..Len(queue) /\ Len(queue) \in Nat
      /\ queue' \in Seq(S) /\ DOMAIN queue' = 1..(Len(queue) + 1)
      /\ queue'[1] = x
      /\ \A i \in 2..(Len(queue) + 1) : queue'[i] = queue[i - 1]
  BY DEF Returned
<1>2. \A i \in DOMAIN queue : i + 1 \in DOMAIN queue' /\ queue'[i + 1] = queue[i]
  BY <1>1
<1>3. \A i \in DOMAIN queue' : i = 1 \/ (i - 1 \in DOMAIN queue /\ queue'[i] = queue[i - 1])
  BY <1>1
<1>4. Queued' = Queued \cup {x}
  <2>1. 1 \in DOMAIN queue' /\ queue'[1] = x
    BY <1>1
  <2>2. Queued \cup {x} \subseteq Queued'
    BY <1>2, <2>1 DEF Queued
  <2>3. Queued' \subseteq Queued \cup {x}
    BY <1>3, <2>1 DEF Queued
  <2> QED
    BY <2>2, <2>3
<1> QED
  BY <1>1, <1>3, <1>4

\* With no first request there is none to take at all.
LEMMA NoFirst ==
  ASSUME DispatchTypeOK, Pulls, FirstRequests = {}
  PROVE  Uncompleted = {}
BY DEF FirstRequests

\* A step of the callers, by which no activation is handed over.
LEMMA CallersQueueInv ==
  ASSUME QueueInv, UNCHANGED <<arrived, queue, pending, requestBuffer, returned, rescheduled>>,
         completed \subseteq completed', Answered' = Answered, Settled,
         \A p \in Answered : answer'[p] = answer[p],
         DispatchTypeOK', Pulls', Dispatches', Spent \subseteq Spent'
  PROVE  QueueInv' /\ Passage
<1>1. Queued' = Queued /\ Dispatching' = Dispatching /\ Uncompleted' \subseteq Uncompleted
  BY DEF Queued, Dispatching, Uncompleted
<1>2. Separate'
  BY <1>1 DEF QueueInv, Separate
<1>3. WaitsOnlyBesideReturned' /\ Precedence' /\ QueueInOrder'
  BY <1>1 DEF QueueInv, WaitsOnlyBesideReturned, Precedence, QueueInOrder
<1>4. Passage
  BY <1>1 DEF Passage, Stays, AnswersKept
<1> QED
  BY <1>2, <1>3, <1>4 DEF QueueInv

LEMMA fetchQueueInv ==
  ASSUME QueueInv, NEW p \in Pull, NEW r \in Request, fetchActivation(p, r)
  PROVE  QueueInv' /\ Passage /\ Sent' \subseteq Sent \cup {p}
<1>1. /\ ask[p] = "unused" /\ ask' = [ask EXCEPT ![p] = "asking"]
      /\ request' = [request EXCEPT ![p] = r] /\ poll' = [poll EXCEPT ![p] = "sent"]
      /\ UNCHANGED <<arrived, queue, pending, requestBuffer, completed, answer, returned, rescheduled,
                     timeouts>>
  BY DEF fetchActivation
<1>2. answer[p] = None /\ request[p] = None /\ poll[p] = "none" /\ r # None
  BY <1>1, NoneIsNoMessage DEF QueueInv, DispatchTypeOK, Pulls
<1>3. \A d \in pending : d.pull \in Pull \ {p}
  BY <1>1, <1>2 DEF QueueInv, DispatchTypeOK, Dispatch
<1>4. DispatchTypeOK'
  <2>1. /\ ask' \in [Pull -> {"unused", "asking", "answered", "expired"}]
        /\ poll' \in [Pull -> {"none", "sent", "set", "fired", "off"}]
        /\ request' \in [Pull -> Request \cup {None}]
    BY <1>1 DEF QueueInv, DispatchTypeOK
  <2>2. \A q \in Pull : answer'[q] # None <=> ask'[q] \in {"answered", "expired"}
    BY <1>1, <1>2 DEF QueueInv, DispatchTypeOK
  <2>3. \A d \in pending : request'[d.pull] # None
    BY <1>1, <1>3 DEF QueueInv, DispatchTypeOK
  <2> QED
    BY <1>1, <2>1, <2>2, <2>3 DEF QueueInv, DispatchTypeOK
<1>5. \A q \in Pull \ {p} : ask'[q] = ask[q] /\ request'[q] = request[q] /\ poll'[q] = poll[q]
  BY <1>1 DEF QueueInv, DispatchTypeOK
<1>6. ask'[p] = "asking" /\ request'[p] = r /\ poll'[p] = "sent"
  BY <1>1 DEF QueueInv, DispatchTypeOK
<1>7. Pulls'
  BY <1>1, <1>2, <1>5, <1>6 DEF QueueInv, Pulls, Unserved, Unanswered, Uncompleted
<1>8. Dispatches'
  BY <1>1, <1>3, <1>5 DEF QueueInv, Dispatches, Unserved, Unanswered, Uncompleted
<1>9. Answered' = Answered
  BY <1>1, <1>5, <1>6 DEF Answered
<1>10. Spent \subseteq Spent'
  BY <1>1, <1>2, <1>5, NoneIsNoMessage DEF Spent, Unserved, Uncompleted
<1>11. Sent' \subseteq Sent \cup {p}
  BY <1>5 DEF Sent
<1>12. Settled
  BY <1>1 DEF Settled
<1> QED
  BY <1>1, <1>4, <1>7, <1>8, <1>9, <1>10, <1>11, <1>12, CallersQueueInv

LEMMA TimerQueueInv ==
  ASSUME QueueInv, NEW p \in Pull, TimerFires(p)
  PROVE  QueueInv' /\ Passage /\ Sent' \subseteq Sent
<1>1. /\ poll[p] = "set" /\ poll' = [poll EXCEPT ![p] = "fired"] /\ timeouts' = timeouts + 1
      /\ UNCHANGED <<arrived, queue, pending, requestBuffer, request, completed, ask, answer, returned,
                     rescheduled>>
  BY DEF TimerFires, TimeOut
<1>2. DispatchTypeOK'
  BY <1>1 DEF QueueInv, DispatchTypeOK
<1>3. poll'[p] = "fired" /\ \A q \in Pull \ {p} : poll'[q] = poll[q]
  BY <1>1 DEF QueueInv, DispatchTypeOK
<1>4. Pulls'
  BY <1>1, <1>3 DEF QueueInv, Pulls, Unserved, Unanswered, Uncompleted
<1>5. \A d \in pending : d.pull \in Pull \ {p}
  BY <1>1 DEF QueueInv, DispatchTypeOK, Dispatch, Dispatches
<1>6. Dispatches'
  BY <1>1, <1>3, <1>5 DEF QueueInv, Dispatches, Unserved, Unanswered, Uncompleted
<1>7. Answered' = Answered
  BY <1>1 DEF Answered
<1>8. Spent \subseteq Spent' /\ Sent' \subseteq Sent
  BY <1>1, <1>3 DEF Spent, Sent, Unserved, Uncompleted
<1>9. Settled
  BY <1>1 DEF Settled
<1> QED
  BY <1>1, <1>2, <1>4, <1>6, <1>7, <1>8, <1>9, CallersQueueInv

\* NoActivationMessage for a caller that still waits.
LEMMA Unavailing ==
  ASSUME DispatchTypeOK, NEW p \in Pull, ask[p] = "asking",
         ask' \in {[ask EXCEPT ![p] = "answered"], [ask EXCEPT ![p] = "expired"]},
         answer' = [answer EXCEPT ![p] = NoActivationMessage]
  PROVE  /\ ask' \in [Pull -> {"unused", "asking", "answered", "expired"}]
         /\ answer' \in [Pull -> ActivationMessage
                            \cup {NoActivationMessage, TargetReencryptionError, None}]
         /\ \A q \in Pull : answer'[q] # None <=> ask'[q] \in {"answered", "expired"}
         /\ \A q \in Pull \ {p} : ask'[q] = ask[q] /\ answer'[q] = answer[q]
         /\ ask'[p] \in {"answered", "expired"} /\ answer'[p] = NoActivationMessage
         /\ Answered' = Answered /\ p \notin Answered
<1>1. /\ ask' \in [Pull -> {"unused", "asking", "answered", "expired"}]
      /\ answer' \in [Pull -> ActivationMessage
                            \cup {NoActivationMessage, TargetReencryptionError, None}]
  BY DEF DispatchTypeOK
<1>2. /\ \A q \in Pull \ {p} : ask'[q] = ask[q] /\ answer'[q] = answer[q]
      /\ ask'[p] \in {"answered", "expired"} /\ answer'[p] = NoActivationMessage
  BY DEF DispatchTypeOK
<1>3. \A q \in Pull : answer'[q] # None <=> ask'[q] \in {"answered", "expired"}
  BY <1>2, NoneIsNoMessage DEF DispatchTypeOK
<1>4. NoActivationMessage.kind # "ActivationMessage"
  BY DEF NoActivationMessage
<1>5. Answered' = Answered /\ p \notin Answered
  BY <1>2, <1>4 DEF Answered
<1> QED
  BY <1>1, <1>2, <1>3, <1>5

LEMMA ExpireQueueInv ==
  ASSUME QueueInv, NEW p \in Pull, AskTimesOut(p)
  PROVE  QueueInv' /\ Passage /\ Sent' \subseteq Sent
<1>1. /\ ask[p] = "asking" /\ ask' = [ask EXCEPT ![p] = "expired"]
      /\ answer' = [answer EXCEPT ![p] = NoActivationMessage] /\ timeouts' = timeouts + 1
      /\ UNCHANGED <<arrived, queue, pending, requestBuffer, request, completed, poll, returned,
                     rescheduled>>
  BY DEF AskTimesOut, TimeOut, Recovered
<1>2. DispatchTypeOK
  BY DEF QueueInv
<1>3. /\ ask' \in [Pull -> {"unused", "asking", "answered", "expired"}]
      /\ answer' \in [Pull -> ActivationMessage
                            \cup {NoActivationMessage, TargetReencryptionError, None}]
      /\ \A q \in Pull : answer'[q] # None <=> ask'[q] \in {"answered", "expired"}
      /\ \A q \in Pull \ {p} : ask'[q] = ask[q] /\ answer'[q] = answer[q]
      /\ ask'[p] \in {"answered", "expired"} /\ answer'[p] = NoActivationMessage
      /\ Answered' = Answered /\ p \notin Answered
  BY <1>1, <1>2, Unavailing
<1>4. DispatchTypeOK'
  BY <1>1, <1>2, <1>3 DEF DispatchTypeOK
<1>5. Pulls'
  BY <1>1, <1>3 DEF QueueInv, Pulls, Unserved, Unanswered, Uncompleted
<1>6. Dispatches'
  BY <1>1, <1>3 DEF QueueInv, DispatchTypeOK, Dispatch, Dispatches, Unserved, Unanswered, Uncompleted
<1>7. \A q \in Answered : answer'[q] = answer[q]
  BY <1>3 DEF Answered
<1>8. Spent \subseteq Spent' /\ Sent' \subseteq Sent
  BY <1>1, <1>3 DEF Spent, Sent, Unserved, Uncompleted
<1>9. Settled
  BY <1>1, <1>2, <1>3 DEF DispatchTypeOK, Settled
<1> QED
  BY <1>1, <1>3, <1>4, <1>5, <1>6, <1>7, <1>8, <1>9, CallersQueueInv

LEMMA CancelQueueInv ==
  ASSUME QueueInv, NEW p \in Pull, CancelPoll(p)
  PROVE  QueueInv' /\ Passage /\ Sent' \subseteq Sent
<1>1. /\ poll[p] = "fired" /\ poll' = [poll EXCEPT ![p] = "off"]
      /\ UNCHANGED <<arrived, queue, pending, requestBuffer, request, returned, rescheduled, timeouts>>
      /\ TrySuccess(p, NoActivationMessage)
  BY DEF CancelPoll
<1>2. /\ completed' = completed \cup {p}
      /\ \/ UNCHANGED <<ask, answer>> /\ (p \in completed \/ ask[p] # "asking")
         \/ /\ ask[p] = "asking" /\ ask' = [ask EXCEPT ![p] = "answered"]
            /\ answer' = [answer EXCEPT ![p] = NoActivationMessage]
  BY <1>1 DEF TrySuccess, Reply
<1>3. DispatchTypeOK
  BY DEF QueueInv
<1>4. /\ ask' \in [Pull -> {"unused", "asking", "answered", "expired"}]
      /\ answer' \in [Pull -> ActivationMessage
                            \cup {NoActivationMessage, TargetReencryptionError, None}]
      /\ \A q \in Pull : answer'[q] # None <=> ask'[q] \in {"answered", "expired"}
      /\ \A q \in Pull \ {p} : ask'[q] = ask[q] /\ answer'[q] = answer[q]
      /\ Answered' = Answered
      /\ \/ /\ ask'[p] = ask[p] /\ answer'[p] = answer[p]
            /\ p \in completed \/ ask[p] # "asking"
         \/ ask[p] = "asking" /\ ask'[p] = "answered" /\ answer'[p] = NoActivationMessage
  <2>1. CASE UNCHANGED <<ask, answer>>
    BY <1>2, <1>3, <2>1 DEF DispatchTypeOK, Answered
  <2>2. CASE ~UNCHANGED <<ask, answer>>
    <3>1. ask'[p] = "answered"
      BY <1>2, <1>3, <2>2 DEF DispatchTypeOK
    <3> QED
      BY <1>2, <1>3, <2>2, <3>1, Unavailing
  <2> QED
    BY <2>1, <2>2
<1>5. poll'[p] = "off" /\ \A q \in Pull \ {p} : poll'[q] = poll[q]
  BY <1>1, <1>3 DEF DispatchTypeOK
<1>6. DispatchTypeOK'
  <2>1. poll' \in [Pull -> {"none", "sent", "set", "fired", "off"}] /\ completed' \subseteq Pull
    BY <1>1, <1>2, <1>3 DEF DispatchTypeOK
  <2> QED
    BY <1>1, <1>3, <1>4, <2>1 DEF DispatchTypeOK
<1>7. Pulls'
  BY <1>1, <1>2, <1>4, <1>5 DEF QueueInv, Pulls, Unserved, Unanswered, Uncompleted
<1>8. Dispatches'
  <2> SUFFICES ASSUME NEW d \in pending
               PROVE  /\ ~Unserved(d.pull)' /\ Unanswered(d.pull)'
                      /\ poll'[d.pull] \in (IF d.waiting THEN {"fired", "off"} ELSE {"off"})
                      /\ d.waiting /\ d.pull \in completed' => answer'[d.pull] = NoActivationMessage
    BY <1>1 DEF QueueInv, Dispatches
  <2>1. d.pull \in Pull /\ ~Unserved(d.pull) /\ Unanswered(d.pull)
    BY <1>3 DEF DispatchTypeOK, Dispatch, QueueInv, Dispatches
  <2>2. CASE d.pull # p
    BY <1>1, <1>2, <1>4, <1>5, <2>1, <2>2
       DEF QueueInv, Dispatches, Unserved, Unanswered, Uncompleted
  <2>3. CASE d.pull = p
    <3>1. ~Unserved(d.pull)'
      BY <1>1, <1>2, <1>5, <2>3 DEF Unserved, Uncompleted
    <3>2. answer'[p] = NoActivationMessage
      BY <1>1, <1>4, <2>1, <2>3 DEF QueueInv, Dispatches, Unanswered
    <3> QED
      BY <1>5, <2>3, <3>1, <3>2 DEF Unanswered
  <2> QED
    BY <2>2, <2>3
<1>9. \A q \in Answered : answer'[q] = answer[q]
  BY <1>4 DEF Answered
<1>10. Spent \subseteq Spent' /\ Sent' \subseteq Sent
  BY <1>1, <1>2, <1>4, <1>5 DEF Spent, Sent, Unserved, Uncompleted
<1>11. Settled
  BY <1>3, <1>4 DEF DispatchTypeOK, Settled
<1> QED
  BY <1>1, <1>2, <1>4, <1>6, <1>7, <1>8, <1>9, <1>10, <1>11, CallersQueueInv

\* An activation leaves for a pull that may be served.
LEMMA BeginDispatches ==
  ASSUME QueueInv, NEW a \in Activation, NEW p \in Pull, NEW waiting \in BOOLEAN,
         beginActivationDispatch(a, p, waiting), a \notin Dispatching,
         Unserved(p), waiting => p \notin completed,
         UNCHANGED <<request, completed, ask, answer, returned, timeouts>>,
         \A d \in pending : d.entry \in rescheduled' => d.entry \in rescheduled,
         ~Unserved(p)', \A q \in Pull \ {p} : poll'[q] = poll[q] /\ (Unserved(q)' => Unserved(q)),
         poll'[p] \in (IF waiting THEN {"fired", "off"} ELSE {"off"}), requestBuffer' \subseteq requestBuffer
  PROVE  /\ Pulls' /\ Dispatches' /\ pending' \subseteq Dispatch
         /\ \A d \in pending' : request'[d.pull] # None
         /\ Dispatching' = Dispatching \cup {a}
         /\ \A d \in pending' : d.entry = a \/ d \in pending
         /\ Spent \subseteq Spent'
<1> DEFINE n == [entry |-> a, pull |-> p, waiting |-> waiting,
                 step |-> "prepare", code |-> None, result |-> None]
<1>1. /\ pending' = pending \cup {n}
      /\ n.entry = a /\ n.pull = p /\ n.waiting = waiting /\ n.step = "prepare" /\ n.result = None
  BY DEF beginActivationDispatch
<1>2. n \in Dispatch
  BY DEF Dispatch
<1> HIDE DEF n
<1>3. Dispatching' = Dispatching \cup {a}
  BY <1>1 DEF Dispatching
<1>4. \A d \in pending : d \in Dispatch /\ d.entry # a /\ d.pull \in Pull \ {p}
  <2>1. \A d \in pending : d \in Dispatch /\ ~Unserved(d.pull)
    BY DEF QueueInv, DispatchTypeOK, Dispatches
  <2> QED
    BY <2>1 DEF Dispatching, Dispatch
<1>5. ask[p] # "unused" /\ request[p] # None /\ Unanswered(p)
  BY DEF QueueInv, DispatchTypeOK, Pulls, Unserved, Uncompleted
<1>6. Pulls'
  <2>1. \A q \in Pull : Unserved(q)' => Unserved(q)
    OBVIOUS
  <2>2. poll'[p] # "none"
    OBVIOUS
  <2>3. \A q \in Pull : q \in requestBuffer' => poll'[q] \in {"set", "fired", "off"}
    BY DEF QueueInv, Pulls
  <2>4. \A q \in Pull : (poll'[q] = "none") = (ask'[q] = "unused")
    BY <1>5, <2>2 DEF QueueInv, Pulls
  <2> QED
    BY <2>1, <2>3, <2>4 DEF QueueInv, Pulls, Unanswered
<1>7. Dispatches'
  <2>1. \A d, e \in pending' : d.entry = e.entry \/ d.pull = e.pull => d = e
    BY <1>1, <1>4 DEF QueueInv, Dispatches
  <2>2. ASSUME NEW d \in pending
        PROVE  /\ ~Unserved(d.pull)' /\ Unanswered(d.pull)'
               /\ poll'[d.pull] \in (IF d.waiting THEN {"fired", "off"} ELSE {"off"})
               /\ d.waiting /\ d.pull \in completed' => answer'[d.pull] = NoActivationMessage
               /\ d.step = "completed" => d.result # None
               /\ d.entry \in rescheduled' => d.result \in {None, Failed}
    BY <1>4 DEF QueueInv, Dispatches, Unanswered
  <2>3. /\ ~Unserved(n.pull)' /\ Unanswered(n.pull)'
        /\ poll'[n.pull] \in (IF n.waiting THEN {"fired", "off"} ELSE {"off"})
        /\ n.waiting /\ n.pull \in completed' => answer'[n.pull] = NoActivationMessage
        /\ n.step = "completed" => n.result # None
        /\ n.result \in {None, Failed}
    BY <1>1, <1>5 DEF Unanswered
  <2> QED
    BY <1>1, <2>1, <2>2, <2>3 DEF Dispatches
<1>8. pending' \subseteq Dispatch /\ \A d \in pending' : request'[d.pull] # None
  BY <1>1, <1>2, <1>4, <1>5 DEF QueueInv, DispatchTypeOK
<1>9. Spent \subseteq Spent'
  BY <1>1 DEF Spent
<1> QED
  BY <1>1, <1>3, <1>4, <1>6, <1>7, <1>8, <1>9

LEMMA AnsweredKept ==
  ASSUME UNCHANGED <<ask, answer>>
  PROVE  /\ Answered' = Answered /\ \A p \in Answered : answer'[p] = answer[p]
         /\ AnswersKept /\ Settled /\ Sent' = Sent
BY DEF Answered, AnswersKept, Settled, Sent

\* An activation arrives, for the first time, or sent back by a container.
LEMMA EnqueueQueueInv ==
  ASSUME QueueInv, NEW a \in Activation, handleActivationMessage(a), a \notin Queued \cup Dispatching,
         \/ a = arrived + 1 /\ arrived' = a /\ UNCHANGED rescheduled
         \/ UNCHANGED arrived /\ a \in Handed /\ rescheduled' = rescheduled \cup {a}
  PROVE  /\ QueueInv' /\ AnswersKept /\ Settled /\ Sent' = Sent /\ Spent \subseteq Spent'
         /\ \/ Queued' = Queued \cup {a} /\ UNCHANGED Dispatching
            \/ UNCHANGED Queued /\ Dispatching' = Dispatching \cup {a}
<1>1. UNCHANGED <<request, completed, ask, answer, returned, timeouts>>
  BY DEF handleActivationMessage
<1>2. /\ arrived \in Nat /\ arrived' \in 0..Activations /\ a \in 1..arrived'
      /\ 1..arrived \subseteq 1..arrived' /\ queue \in Seq(1..arrived')
      /\ \A i \in DOMAIN queue : queue[i] \in 1..arrived
      /\ rescheduled' \subseteq Activation /\ rescheduled \subseteq rescheduled'
      /\ (\A b \in 1..arrived : b < a) \/ a \in rescheduled'
  <2>1. arrived \in 0..Activations /\ rescheduled \subseteq Activation /\ queue \in Seq(1..arrived)
    BY DEF QueueInv, DispatchTypeOK
  <2>2. CASE a = arrived + 1 /\ arrived' = a /\ UNCHANGED rescheduled
    BY <2>1, <2>2, DispatchConstants DEF Activation
  <2>3. CASE UNCHANGED arrived /\ a \in Handed /\ rescheduled' = rescheduled \cup {a}
    <3>1. a \in 1..arrived
      BY <2>3 DEF Handed, QueueInv, Separate
    <3> QED
      BY <2>1, <2>3, <3>1, DispatchConstants DEF Activation
  <2> QED
    BY <2>2, <2>3
<1>3. /\ Answered' = Answered /\ \A p \in Answered : answer'[p] = answer[p]
      /\ AnswersKept /\ Settled /\ Sent' = Sent
  BY <1>1, AnsweredKept
<1>4. \A i \in DOMAIN queue : queue[i] # a
  BY DEF Queued
<1>5. \A d \in pending : /\ d.entry # a /\ d.entry \in 1..arrived /\ d.entry \notin Queued
                         /\ d.entry \in rescheduled' => d.entry \in rescheduled
  BY DEF Dispatching, QueueInv, Separate
<1>6. \A p \in Answered :
        /\ answer[p].activation \in 1..arrived
        /\ answer[p].activation = a => a \in rescheduled'
        /\ answer[p].activation \in Queued \cup Dispatching => answer[p].activation \in rescheduled
  BY <1>2 DEF QueueInv, Separate
<1>7. CASE FirstRequests = {}
  <2>1. /\ queue' = Append(queue, a) /\ requestBuffer' = Uncompleted
        /\ UNCHANGED <<pending, poll>>
    BY <1>7 DEF handleActivationMessage
  <2>2. /\ queue' \in Seq(1..arrived') /\ Queued' = Queued \cup {a}
        /\ \A i \in DOMAIN queue' : i \in Nat /\ \/ i \in DOMAIN queue /\ queue'[i] = queue[i]
                                                 \/ i = Len(queue) + 1 /\ queue'[i] = a
        /\ \A i \in DOMAIN queue : i \in Nat /\ i < Len(queue) + 1
    BY <1>2, <2>1, Appended
  <2>3. \A i \in DOMAIN queue' :
           \/ /\ i \in DOMAIN queue /\ i < Len(queue) + 1 /\ queue'[i] = queue[i]
              /\ queue'[i] \in 1..arrived /\ queue'[i] # a
           \/ i = Len(queue) + 1 /\ queue'[i] = a
    BY <1>2, <1>4, <2>2
  <2>4. requestBuffer' = {} /\ Uncompleted' = {} /\ Uncompleted = {}
    BY <1>7, <2>1, NoFirst DEF QueueInv, Uncompleted
  <2>5. DispatchTypeOK'
    BY <1>1, <1>2, <2>1, <2>2, <2>4 DEF QueueInv, DispatchTypeOK
  <2>6. Pulls' /\ Dispatches'
    BY <1>1, <1>5, <2>1, <2>4 DEF QueueInv, Pulls, Dispatches, Unserved, Unanswered
  <2>7. Dispatching' = Dispatching
    BY <2>1 DEF Dispatching
  <2>8. Separate'
    <3>1. \A i, j \in DOMAIN queue' : queue'[i] = queue'[j] => i = j
      BY <2>3 DEF QueueInv, Separate
    <3>2. \A d \in pending' : d.entry \in 1..arrived' \ Queued'
      BY <1>2, <1>5, <2>1, <2>2
    <3>3. ASSUME NEW p \in Answered'
         PROVE  /\ answer'[p].activation \in 1..arrived'
                /\ answer'[p].activation \in Queued' \cup Dispatching' =>
                     answer'[p].activation \in rescheduled'
      <4>1. p \in Answered /\ answer'[p].activation = answer[p].activation
        BY <1>3
      <4>2. Queued' \cup Dispatching' = Queued \cup Dispatching \cup {a}
        BY <2>2, <2>7
      <4>3. /\ answer[p].activation \in 1..arrived
            /\ answer[p].activation = a => a \in rescheduled'
            /\ answer[p].activation \in Queued \cup Dispatching => answer[p].activation \in rescheduled
        BY <1>6, <4>1
      <4> QED
        BY <1>2, <4>1, <4>2, <4>3
    <3>4. \A p, q \in Answered' : answer'[p].activation = answer'[q].activation => p = q
      BY <1>3 DEF QueueInv, Separate
    <3> QED
      BY <3>1, <3>2, <3>3, <3>4 DEF Separate
  <2>9. WaitsOnlyBesideReturned'
    BY <2>4 DEF WaitsOnlyBesideReturned
  <2>10. Precedence'
    BY <1>1, <1>2, <1>5, <2>1, <2>3 DEF QueueInv, Precedence
  <2>11. QueueInOrder'
    <3> SUFFICES ASSUME NEW i \in DOMAIN queue', NEW j \in DOMAIN queue', i < j
                 PROVE  \/ queue'[i] < queue'[j] \/ {queue'[i], queue'[j]} \subseteq returned
                        \/ queue'[i] \in rescheduled' \/ queue'[j] \in rescheduled'
      BY <1>1 DEF QueueInOrder
    <3>1. i \in DOMAIN queue /\ queue'[i] = queue[i] /\ queue'[i] \in 1..arrived
      BY <2>2, <2>3
    <3>2. CASE j \in DOMAIN queue
      BY <1>2, <2>3, <3>1, <3>2 DEF QueueInv, QueueInOrder
    <3>3. CASE queue'[j] = a
      BY <1>2, <3>1, <3>3
    <3> QED
      BY <2>3, <3>2, <3>3
  <2>12. Spent \subseteq Spent'
    BY <1>1, <2>1, <2>4 DEF Spent, Unserved
  <2> QED
    BY <1>3, <2>2, <2>5, <2>6, <2>7, <2>8, <2>9, <2>10, <2>11, <2>12 DEF QueueInv
<1>8. ASSUME NEW p \in FirstRequests, takeUncompletedRequest(p),
             beginActivationDispatch(a, p, TRUE), UNCHANGED queue
      PROVE  /\ QueueInv' /\ Spent \subseteq Spent'
             /\ UNCHANGED Queued /\ Dispatching' = Dispatching \cup {a}
  <2>1. p \in Uncompleted /\ p \in Pull /\ p \notin completed /\ Unserved(p)
    BY <1>8 DEF FirstRequests, QueueInv, DispatchTypeOK, Uncompleted, Unserved
  <2>2. /\ requestBuffer' = Uncompleted \ {p} /\ poll' \in [Pull -> {"none", "sent", "set", "fired", "off"}]
        /\ poll'[p] \in {"fired", "off"} /\ \A q \in Pull \ {p} : poll'[q] = poll[q]
    BY <1>8, <2>1 DEF takeUncompletedRequest, CancelTimer, QueueInv, DispatchTypeOK, Pulls, Uncompleted
  <2>3. /\ ~Unserved(p)' /\ \A q \in Pull \ {p} : Unserved(q)' => Unserved(q)
        /\ Uncompleted' \subseteq Uncompleted /\ requestBuffer' \subseteq requestBuffer
    BY <1>1, <2>2 DEF Unserved, Uncompleted
  <2>4. /\ Pulls' /\ Dispatches' /\ pending' \subseteq Dispatch
        /\ \A d \in pending' : request'[d.pull] # None
        /\ Dispatching' = Dispatching \cup {a}
        /\ \A d \in pending' : d.entry = a \/ d \in pending
        /\ Spent \subseteq Spent'
    BY <1>1, <1>5, <1>8, <2>1, <2>2, <2>3, BeginDispatches
  <2>5. DispatchTypeOK'
    BY <1>1, <1>2, <1>8, <2>2, <2>3, <2>4 DEF QueueInv, DispatchTypeOK
  <2>6. Queued' = Queued
    BY <1>8 DEF Queued
  <2>7. Separate'
    <3>1. \A d \in pending' : d.entry \in 1..arrived' \ Queued'
      BY <1>2, <1>5, <2>4, <2>6
    <3>2. ASSUME NEW q \in Answered'
         PROVE  /\ answer'[q].activation \in 1..arrived'
                /\ answer'[q].activation \in Queued' \cup Dispatching' =>
                     answer'[q].activation \in rescheduled'
      <4>1. q \in Answered /\ answer'[q].activation = answer[q].activation
        BY <1>3
      <4>2. Queued' \cup Dispatching' = Queued \cup Dispatching \cup {a}
        BY <2>4, <2>6
      <4>3. /\ answer[q].activation \in 1..arrived
            /\ answer[q].activation = a => a \in rescheduled'
            /\ answer[q].activation \in Queued \cup Dispatching => answer[q].activation \in rescheduled
        BY <1>6, <4>1
      <4> QED
        BY <1>2, <4>1, <4>2, <4>3
    <3>3. \A q, r \in Answered' : answer'[q].activation = answer'[r].activation => q = r
      BY <1>3 DEF QueueInv, Separate
    <3> QED
      BY <1>8, <3>1, <3>2, <3>3 DEF QueueInv, Separate
  <2>8. Queued \subseteq returned
    BY <2>1 DEF QueueInv, WaitsOnlyBesideReturned
  <2>9. WaitsOnlyBesideReturned' /\ QueueInOrder'
    BY <1>1, <1>2, <1>8, <2>6, <2>8 DEF QueueInv, WaitsOnlyBesideReturned, QueueInOrder
  <2>10. Precedence'
    BY <1>1, <1>8, <2>8 DEF Precedence, Queued
  <2> QED
    BY <2>4, <2>5, <2>6, <2>7, <2>9, <2>10 DEF QueueInv
<1> QED
  BY <1>3, <1>7, <1>8 DEF handleActivationMessage

LEMMA ArriveQueueInv ==
  ASSUME QueueInv, NewArrives
  PROVE  QueueInv' /\ Passage /\ Sent' \subseteq Sent
<1> DEFINE a == arrived + 1
<1>1. /\ arrived < Activations /\ arrived' = a /\ handleActivationMessage(a) /\ UNCHANGED rescheduled
  BY DEF NewArrives
<1>2. arrived \in 0..Activations /\ a \in Activation /\ a \notin 1..arrived
  BY <1>1, DispatchConstants DEF QueueInv, DispatchTypeOK, Activation
<1>3. \A i \in DOMAIN queue : queue[i] \in 1..arrived
  BY DEF QueueInv, DispatchTypeOK
<1>4. a \notin Queued \cup Dispatching
  BY <1>2, <1>3 DEF QueueInv, Separate, Queued, Dispatching
<1>5. a = arrived + 1
  OBVIOUS
<1> HIDE DEF a
<1>6. /\ QueueInv' /\ AnswersKept /\ Settled /\ Sent' = Sent /\ Spent \subseteq Spent'
      /\ \/ Queued' = Queued \cup {a} /\ UNCHANGED Dispatching
         \/ UNCHANGED Queued /\ Dispatching' = Dispatching \cup {a}
  BY <1>1, <1>2, <1>4, <1>5, EnqueueQueueInv
<1>7. Arrival(a)
  BY <1>1, <1>5, <1>6 DEF Arrival
<1> QED
  BY <1>1, <1>2, <1>6, <1>7 DEF Passage

\* What a container was handed and runs no more arrives again.
LEMMA RearriveQueueInv ==
  ASSUME QueueInv, NEW a \in Activation, Rearrives(a), a \in Handed, a \notin rescheduled
  PROVE  QueueInv' /\ Resending(a) /\ Sent' \subseteq Sent
<1>1. handleActivationMessage(a) /\ UNCHANGED arrived /\ rescheduled' = rescheduled \cup {a}
  BY DEF Rearrives
<1>2. a \notin Queued \cup Dispatching
  BY DEF Handed, QueueInv, Separate
<1>3. /\ QueueInv' /\ AnswersKept /\ Settled /\ Sent' = Sent /\ Spent \subseteq Spent'
      /\ \/ Queued' = Queued \cup {a} /\ UNCHANGED Dispatching
         \/ UNCHANGED Queued /\ Dispatching' = Dispatching \cup {a}
  BY <1>1, <1>2, EnqueueQueueInv
<1> QED
  BY <1>1, <1>2, <1>3 DEF Resending

LEMMA RequestQueueInv ==
  ASSUME QueueInv, NEW p \in Pull, handleActivationRequest(p)
  PROVE  QueueInv' /\ Passage /\ Sent' \subseteq Sent
<1>1. /\ poll[p] = "sent" /\ request[p] # None
      /\ UNCHANGED <<arrived, request, completed, ask, answer, returned, rescheduled, timeouts>>
  BY DEF handleActivationRequest
<1>2. /\ Answered' = Answered /\ \A q \in Answered : answer'[q] = answer[q]
      /\ AnswersKept /\ Settled /\ Sent' = Sent
  BY <1>1, AnsweredKept
<1>3. Unserved(p) /\ p \notin requestBuffer
  BY <1>1 DEF Unserved, QueueInv, Pulls
<1>4. CASE queue = <<>>
  <2>1. /\ requestBuffer' = requestBuffer \cup {p} /\ poll' = [poll EXCEPT ![p] = "set"]
        /\ UNCHANGED <<queue, pending>>
    BY <1>4 DEF handleActivationRequest
  <2>2. DispatchTypeOK'
    BY <1>1, <2>1 DEF QueueInv, DispatchTypeOK
  <2>3. poll'[p] = "set" /\ \A q \in Pull \ {p} : poll'[q] = poll[q]
    BY <2>1 DEF QueueInv, DispatchTypeOK
  <2>4. Uncompleted' \subseteq Uncompleted \cup {p}
    BY <1>1, <2>1 DEF Uncompleted
  <2>5. \A q \in Pull : Unserved(q)' => Unserved(q)
    BY <1>3, <2>3, <2>4 DEF Unserved
  <2>6. Pulls'
    BY <1>1, <2>1, <2>3, <2>5 DEF QueueInv, Pulls, Unanswered
  <2>7. Dispatches'
    <3>1. \A d \in pending : d.pull \in Pull \ {p}
      BY <1>3 DEF QueueInv, DispatchTypeOK, Dispatch, Dispatches
    <3> QED
      BY <1>1, <2>1, <2>3, <2>5, <3>1 DEF QueueInv, Dispatches, Unanswered
  <2>8. Queued = {} /\ Queued' = {} /\ Dispatching' = Dispatching
    BY <1>4, <2>1 DEF Queued, Dispatching
  <2>9. Separate'
    BY <1>1, <1>2, <2>1, <2>8 DEF QueueInv, Separate
  <2>10. WaitsOnlyBesideReturned' /\ Precedence' /\ QueueInOrder'
    BY <1>1, <2>1, <2>8 DEF QueueInv, WaitsOnlyBesideReturned, Precedence, QueueInOrder
  <2>11. Spent \subseteq Spent'
    BY <1>1, <2>1, <2>5 DEF Spent
  <2>12. Passage
    BY <1>1, <1>2, <2>8, <2>11 DEF Passage, Stays
  <2> QED
    BY <1>2, <2>2, <2>6, <2>7, <2>9, <2>10, <2>12 DEF QueueInv
<1>5. CASE queue # <<>>
  <2> DEFINE a == Head(queue)
  <2>1. /\ queue' = Tail(queue) /\ beginActivationDispatch(a, p, FALSE)
        /\ poll' = [poll EXCEPT ![p] = "off"] /\ UNCHANGED requestBuffer
    BY <1>5 DEF handleActivationRequest, Dequeued
  <2>2. queue \in Seq(1..arrived)
    BY DEF QueueInv, DispatchTypeOK
  <2>3. /\ queue' \in Seq(1..arrived) /\ Queued = Queued' \cup {a}
        /\ 1 \in DOMAIN queue /\ queue[1] = a /\ a \in 1..arrived
        /\ \A i \in DOMAIN queue' : /\ i \in Nat /\ 1 <= i
                                    /\ i + 1 \in DOMAIN queue /\ queue'[i] = queue[i + 1]
    BY <1>5, <2>1, <2>2, Shortened
  <2> HIDE DEF a
  <2>4. a \in Activation
    BY <2>3, DispatchConstants DEF QueueInv, DispatchTypeOK, Activation
  <2>5. poll'[p] = "off" /\ \A q \in Pull \ {p} : poll'[q] = poll[q]
    BY <2>1 DEF QueueInv, DispatchTypeOK
  <2>6. Uncompleted' = Uncompleted
    BY <1>1, <2>1 DEF Uncompleted
  <2>7. ~Unserved(p)' /\ \A q \in Pull \ {p} : Unserved(q)' => Unserved(q)
    BY <1>3, <2>5, <2>6 DEF Unserved, Uncompleted
  <2>8. a \in Queued /\ a \notin Dispatching
    BY <2>3 DEF QueueInv, Separate, Dispatching
  <2>9. /\ Pulls' /\ Dispatches' /\ pending' \subseteq Dispatch
        /\ \A d \in pending' : request'[d.pull] # None
        /\ Dispatching' = Dispatching \cup {a}
        /\ \A d \in pending' : d.entry = a \/ d \in pending
        /\ Spent \subseteq Spent'
    <3>1. UNCHANGED <<request, completed, ask, answer, returned, timeouts>>
      BY <1>1
    <3>2. poll'[p] \in (IF FALSE THEN {"fired", "off"} ELSE {"off"})
      BY <2>5
    <3>3. requestBuffer' \subseteq requestBuffer /\ (FALSE => p \notin completed) /\ FALSE \in BOOLEAN
      BY <2>1
    <3>4. \A d \in pending : d.entry \in rescheduled' => d.entry \in rescheduled
      BY <1>1
    <3> QED
      BY <1>3, <2>1, <2>4, <2>5, <2>7, <2>8, <3>1, <3>2, <3>3, <3>4, BeginDispatches
  <2>10. poll' \in [Pull -> {"none", "sent", "set", "fired", "off"}]
    BY <2>1 DEF QueueInv, DispatchTypeOK
  <2>11. DispatchTypeOK'
    BY <1>1, <2>1, <2>3, <2>9, <2>10 DEF QueueInv, DispatchTypeOK
  <2>12. \A i \in DOMAIN queue' : queue'[i] # a
    BY <2>3 DEF QueueInv, Separate
  <2>13. Separate'
    <3>1. \A i, j \in DOMAIN queue' : queue'[i] = queue'[j] => i = j
      BY <2>3 DEF QueueInv, Separate
    <3>2. a \notin Queued'
      BY <2>12 DEF Queued
    <3>3. \A d \in pending' : d.entry \in 1..arrived \ Queued'
      BY <2>3, <2>9, <3>2 DEF QueueInv, Separate
    <3>4. \A q \in Answered :
            /\ answer[q].activation \in 1..arrived
            /\ answer[q].activation \in Queued' \cup Dispatching' =>
                 answer[q].activation \in rescheduled
      BY <2>3, <2>8, <2>9 DEF QueueInv, Separate
    <3> QED
      BY <1>1, <1>2, <3>1, <3>3, <3>4 DEF QueueInv, Separate
  <2>14. WaitsOnlyBesideReturned'
    BY <1>1, <2>3, <2>6 DEF QueueInv, WaitsOnlyBesideReturned
  <2>15. \A i \in DOMAIN queue' : \/ a < queue'[i] \/ queue'[i] \in returned
                                  \/ a \in rescheduled \/ queue'[i] \in rescheduled
    BY <2>3 DEF QueueInv, QueueInOrder
  <2>16. Precedence'
    BY <1>1, <2>3, <2>9, <2>15 DEF QueueInv, Precedence
  <2>17. QueueInOrder'
    BY <1>1, <2>3 DEF QueueInv, QueueInOrder
  <2>18. Passage
    <3>1. Queued' = Queued \ {a}
      BY <2>3, <2>12 DEF Queued
    <3>2. Taking(a)
      BY <1>1, <1>2, <2>8, <2>9, <3>1 DEF Taking
    <3> QED
      BY <1>1, <1>2, <2>4, <2>9, <3>2 DEF Passage
  <2> QED
    BY <1>2, <2>9, <2>11, <2>13, <2>14, <2>16, <2>17, <2>18 DEF QueueInv
<1> QED
  BY <1>4, <1>5

\* What becomes of the answer of a dispatch: it reaches its caller, or the caller was
\* answered NoActivationMessage before.
LEMMA Recipient ==
  ASSUME QueueInv, NEW d \in pending, NEW value, completeDispatchRecipient(d, value)
  PROVE  /\ completed' \in {completed, completed \cup {d.pull}}
         /\ \/ /\ ask[d.pull] = "asking" /\ ask' = [ask EXCEPT ![d.pull] = "answered"]
               /\ answer' = [answer EXCEPT ![d.pull] = value]
            \/ UNCHANGED <<ask, answer>> /\ answer[d.pull] = NoActivationMessage
<1>1. d.waiting /\ d.pull \in completed => answer[d.pull] = NoActivationMessage
  BY DEF QueueInv, Dispatches
<1>2. ask[d.pull] # "asking" => answer[d.pull] = NoActivationMessage
  BY DEF QueueInv, Dispatches, Unanswered
<1> QED
  BY <1>1, <1>2 DEF completeDispatchRecipient, TrySuccess, Reply

\* What the end of a dispatch leaves as it was, for pulls and for the other dispatches.
LEMMA EndedDispatch ==
  ASSUME QueueInv, NEW d \in pending, pending' = pending \ {d},
         NEW value \in ActivationMessage \cup {NoActivationMessage, TargetReencryptionError},
         UNCHANGED <<requestBuffer, request, poll, rescheduled>>, completeDispatchRecipient(d, value)
  PROVE  /\ completed' \subseteq Pull /\ completed \subseteq completed' /\ Settled
         /\ ask' \in [Pull -> {"unused", "asking", "answered", "expired"}]
         /\ answer' \in [Pull -> ActivationMessage
                            \cup {NoActivationMessage, TargetReencryptionError, None}]
         /\ \A p \in Pull : answer'[p] # None <=> ask'[p] \in {"answered", "expired"}
         /\ Pulls' /\ Dispatches' /\ Uncompleted' \subseteq Uncompleted
         /\ Spent \subseteq Spent' /\ Sent' \subseteq Sent
         /\ Dispatching' = Dispatching \ {d.entry} /\ d.entry \in Dispatching
         /\ \A p \in Pull \ {d.pull} : ask'[p] = ask[p] /\ answer'[p] = answer[p]
         /\ d.pull \in Pull /\ d.pull \notin Answered
         /\ \/ answer[d.pull] = None /\ ask'[d.pull] = "answered" /\ answer'[d.pull] = value
            \/ /\ UNCHANGED <<ask, answer>> /\ answer[d.pull] = NoActivationMessage
               /\ d.pull \in Spent' \ Spent
<1>1. /\ completed' \in {completed, completed \cup {d.pull}}
      /\ \/ /\ ask[d.pull] = "asking" /\ ask' = [ask EXCEPT ![d.pull] = "answered"]
            /\ answer' = [answer EXCEPT ![d.pull] = value]
         \/ UNCHANGED <<ask, answer>> /\ answer[d.pull] = NoActivationMessage
  BY Recipient
<1>2. d.pull \in Pull /\ ~Unserved(d.pull)
  BY DEF QueueInv, DispatchTypeOK, Dispatch, Dispatches
<1>3. completed' \subseteq Pull /\ completed \subseteq completed' /\ completed' \subseteq completed \cup {d.pull}
  BY <1>1, <1>2 DEF QueueInv, DispatchTypeOK
<1>4. \A e \in pending' : e \in pending /\ e.pull \in Pull \ {d.pull} /\ e.entry # d.entry
  BY DEF QueueInv, DispatchTypeOK, Dispatch, Dispatches
<1>5. Dispatching' = Dispatching \ {d.entry} /\ d.entry \in Dispatching
  BY <1>4 DEF Dispatching
<1>6. /\ \A p \in Pull \ {d.pull} : ask'[p] = ask[p] /\ answer'[p] = answer[p]
      /\ \/ ask[d.pull] = "asking" /\ ask'[d.pull] = "answered" /\ answer'[d.pull] = value
         \/ UNCHANGED <<ask, answer>> /\ answer[d.pull] = NoActivationMessage
  BY <1>1, <1>2 DEF QueueInv, DispatchTypeOK
<1>7. /\ ask' \in [Pull -> {"unused", "asking", "answered", "expired"}]
      /\ answer' \in [Pull -> ActivationMessage
                            \cup {NoActivationMessage, TargetReencryptionError, None}]
  BY <1>1 DEF QueueInv, DispatchTypeOK
<1>8. value # None
  BY NoneIsNoMessage
<1>9. \A p \in Pull : answer'[p] # None <=> ask'[p] \in {"answered", "expired"}
  BY <1>6, <1>8 DEF QueueInv, DispatchTypeOK
<1>10. Uncompleted' \subseteq Uncompleted
  BY <1>3 DEF Uncompleted
<1>11. Pulls'
  BY <1>2, <1>6, <1>10 DEF QueueInv, Pulls, Unserved, Unanswered
<1>12. Dispatches'
  BY <1>3, <1>4, <1>6, <1>10 DEF QueueInv, Dispatches, Unserved, Unanswered
<1>13. d.pull \notin Answered
  <2>1. NoActivationMessage.kind # "ActivationMessage"
    BY DEF NoActivationMessage
  <2> QED
    BY <1>6, <2>1 DEF Answered
<1>14. /\ d.pull \notin Spent
       /\ answer[d.pull] = NoActivationMessage /\ UNCHANGED answer => d.pull \in Spent'
  BY <1>2, <1>4, <1>10 DEF Spent, Unserved
<1>15. Spent \subseteq Spent' /\ Sent' \subseteq Sent
  BY <1>4, <1>6, <1>10, <1>14 DEF Spent, Sent, Unserved
<1>16. ask[d.pull] = "asking" => answer[d.pull] = None
  BY <1>2 DEF QueueInv, DispatchTypeOK
<1>17. Settled
  BY <1>6, <1>16 DEF Settled
<1> QED
  BY <1>2, <1>3, <1>5, <1>6, <1>7, <1>9, <1>10, <1>11, <1>12, <1>13, <1>14, <1>15, <1>16, <1>17

LEMMA MessageType ==
  ASSUME NEW a \in Activation, NEW content \in TargetDispatch
  PROVE  /\ Message(a, content) \in ActivationMessage
         /\ Message(a, content).kind = "ActivationMessage"
         /\ Message(a, content).activation = a /\ Message(a, content).content = content
BY DEF Message, ActivationMessage

\* The activation is handed to the caller, or lost with an answer nobody takes.
LEMMA SucceedQueueInv ==
  ASSUME QueueInv, NEW d \in pending, completeActivationDispatch(d), d.result # Failed
  PROVE  /\ QueueInv'
         /\ UNCHANGED <<arrived, queue, requestBuffer, request, poll, returned, rescheduled, timeouts>>
         /\ Passage /\ Sent' \subseteq Sent
         /\ pending' = pending \ {d} /\ d.pull \in Pull /\ d.pull \notin Answered
         /\ \A p \in Pull \ {d.pull} : ask'[p] = ask[p] /\ answer'[p] = answer[p]
         /\ \/ /\ answer'[d.pull] = Message(d.entry, d.result)
               /\ Answered' = Answered \cup {d.pull}
            \/ UNCHANGED <<ask, answer>> /\ answer[d.pull] = NoActivationMessage
<1> DEFINE value == Message(d.entry, d.result)
<1>1. /\ d.step = "completed" /\ pending' = pending \ {d}
      /\ completeDispatchRecipient(d, value)
      /\ UNCHANGED <<arrived, queue, requestBuffer, request, poll, returned, rescheduled, timeouts>>
  BY DEF completeActivationDispatch
<1>2. /\ d.entry \in Activation /\ d.result \in TargetDispatch
      /\ d.entry \notin rescheduled /\ d.entry \notin Handed
  <2>1. d.entry \in Activation /\ d.result \in TargetDispatch /\ d.entry \notin rescheduled
    BY <1>1 DEF QueueInv, DispatchTypeOK, Dispatch, Dispatches
  <2> QED
    BY <2>1 DEF QueueInv, Separate, Dispatching, Handed
<1>3. /\ value \in ActivationMessage
      /\ value.kind = "ActivationMessage" /\ value.activation = d.entry
  BY <1>2, MessageType
<1> HIDE DEF value
<1>4. /\ completed' \subseteq Pull /\ completed \subseteq completed' /\ Settled
      /\ ask' \in [Pull -> {"unused", "asking", "answered", "expired"}]
      /\ answer' \in [Pull -> ActivationMessage
                            \cup {NoActivationMessage, TargetReencryptionError, None}]
      /\ \A p \in Pull : answer'[p] # None <=> ask'[p] \in {"answered", "expired"}
      /\ Pulls' /\ Dispatches' /\ Uncompleted' \subseteq Uncompleted
      /\ Spent \subseteq Spent' /\ Sent' \subseteq Sent
      /\ Dispatching' = Dispatching \ {d.entry} /\ d.entry \in Dispatching
      /\ \A p \in Pull \ {d.pull} : ask'[p] = ask[p] /\ answer'[p] = answer[p]
      /\ d.pull \in Pull /\ d.pull \notin Answered
      /\ \/ answer[d.pull] = None /\ ask'[d.pull] = "answered" /\ answer'[d.pull] = value
         \/ /\ UNCHANGED <<ask, answer>> /\ answer[d.pull] = NoActivationMessage
            /\ d.pull \in Spent' \ Spent
  BY <1>1, <1>3, EndedDispatch
<1>5. DispatchTypeOK'
  BY <1>1, <1>4 DEF QueueInv, DispatchTypeOK
<1>6. Queued' = Queued
  BY <1>1 DEF Queued
<1>7. \/ /\ answer[d.pull] = None /\ answer'[d.pull] = value
         /\ Answered' = Answered \cup {d.pull}
      \/ /\ UNCHANGED <<ask, answer>> /\ answer[d.pull] = NoActivationMessage
         /\ d.pull \in Spent' \ Spent
  BY <1>3, <1>4 DEF Answered
<1>8. \A p \in Answered : p \in Pull \ {d.pull} /\ answer'[p] = answer[p]
  BY <1>4 DEF Answered
<1>9. Separate'
  <2>1. \A e \in pending' : e.entry \in 1..arrived' \ Queued'
    BY <1>1, <1>6 DEF QueueInv, Separate
  <2>2. d.entry \in 1..arrived \ Queued
    BY DEF QueueInv, Separate
  <2>3. CASE answer'[d.pull] = value /\ Answered' = Answered \cup {d.pull}
    <3>1. \A p \in Answered : answer[p].activation # d.entry
      BY <1>2 DEF Handed
    <3>2. \A p \in Answered' :
            /\ answer'[p].activation \in 1..arrived'
            /\ answer'[p].activation \in Queued' \cup Dispatching' =>
                 answer'[p].activation \in rescheduled'
      BY <1>1, <1>3, <1>4, <1>6, <1>8, <2>2, <2>3 DEF QueueInv, Separate
    <3>3. \A p, q \in Answered' : answer'[p].activation = answer'[q].activation => p = q
      BY <1>3, <1>8, <2>3, <3>1 DEF QueueInv, Separate
    <3> QED
      BY <1>1, <2>1, <3>2, <3>3 DEF QueueInv, Separate
  <2>4. CASE UNCHANGED <<ask, answer>>
    <3>1. Answered' = Answered
      BY <2>4, AnsweredKept
    <3> QED
      BY <1>1, <1>4, <1>6, <2>1, <2>4, <3>1 DEF QueueInv, Separate
  <2> QED
    BY <1>7, <2>3, <2>4
<1>10. WaitsOnlyBesideReturned' /\ Precedence' /\ QueueInOrder'
  BY <1>1, <1>4, <1>6 DEF QueueInv, WaitsOnlyBesideReturned, Precedence, QueueInOrder
<1>11. QueueInv'
  BY <1>4, <1>5, <1>9, <1>10 DEF QueueInv
<1>12. Passage
  <2>1. CASE /\ answer[d.pull] = None /\ answer'[d.pull] = value
             /\ Answered' = Answered \cup {d.pull}
    <3>1. Handing(d.entry, d.pull)
      BY <1>1, <1>2, <1>3, <1>4, <1>6, <1>8, <2>1 DEF Handing
    <3> QED
      BY <1>1, <1>2, <1>4, <3>1 DEF Passage
  <2>2. CASE UNCHANGED <<ask, answer>> /\ d.pull \in Spent' \ Spent
    <3>1. Loss(d.entry, d.pull)
      BY <1>1, <1>2, <1>4, <1>6, <2>2, AnsweredKept DEF Loss
    <3> QED
      BY <1>1, <1>2, <1>4, <3>1 DEF Passage
  <2> QED
    BY <1>4, <1>7, <2>1, <2>2
<1> QED
  BY <1>1, <1>4, <1>7, <1>11, <1>12 DEF value

\* The activation comes back to the head of the queue.
LEMMA FailQueueInv ==
  ASSUME QueueInv, NEW d \in pending, completeActivationDispatch(d), d.result = Failed
  PROVE  /\ QueueInv'
         /\ UNCHANGED <<arrived, requestBuffer, request, poll, rescheduled, timeouts>>
         /\ Passage /\ Sent' \subseteq Sent
         /\ pending' = pending \ {d} /\ d.pull \in Pull /\ Answered' = Answered
         /\ \A p \in Pull \ {d.pull} : ask'[p] = ask[p] /\ answer'[p] = answer[p]
         /\ answer'[d.pull] = TargetReencryptionError \/ UNCHANGED <<ask, answer>>
<1>1. /\ pending' = pending \ {d} /\ queue' = Returned(d.entry)
      /\ returned' = returned \cup {d.entry}
      /\ completeDispatchRecipient(d, TargetReencryptionError)
      /\ UNCHANGED <<arrived, requestBuffer, request, poll, rescheduled, timeouts>>
  BY DEF completeActivationDispatch
<1>2. /\ d.entry \in Activation /\ d.entry \in 1..arrived \ Queued /\ queue \in Seq(1..arrived)
      /\ \A i \in DOMAIN queue : queue[i] # d.entry
  BY DEF QueueInv, DispatchTypeOK, Dispatch, Separate, Queued
<1>3. /\ completed' \subseteq Pull /\ completed \subseteq completed' /\ Settled
      /\ ask' \in [Pull -> {"unused", "asking", "answered", "expired"}]
      /\ answer' \in [Pull -> ActivationMessage
                            \cup {NoActivationMessage, TargetReencryptionError, None}]
      /\ \A p \in Pull : answer'[p] # None <=> ask'[p] \in {"answered", "expired"}
      /\ Pulls' /\ Dispatches' /\ Uncompleted' \subseteq Uncompleted
      /\ Spent \subseteq Spent' /\ Sent' \subseteq Sent
      /\ Dispatching' = Dispatching \ {d.entry} /\ d.entry \in Dispatching
      /\ \A p \in Pull \ {d.pull} : ask'[p] = ask[p] /\ answer'[p] = answer[p]
      /\ d.pull \in Pull /\ d.pull \notin Answered
      /\ \/ answer[d.pull] = None /\ ask'[d.pull] = "answered" /\ answer'[d.pull] = TargetReencryptionError
         \/ /\ UNCHANGED <<ask, answer>> /\ answer[d.pull] = NoActivationMessage
            /\ d.pull \in Spent' \ Spent
  BY <1>1, EndedDispatch
<1>4. /\ queue' \in Seq(1..arrived) /\ Queued' = Queued \cup {d.entry}
      /\ \A i \in DOMAIN queue' : /\ i \in Nat /\ 1 <= i
                                  /\ \/ i = 1 /\ queue'[i] = d.entry
                                     \/ i - 1 \in DOMAIN queue /\ queue'[i] = queue[i - 1]
  BY <1>1, <1>2, Prepended
<1>5. Answered' = Answered /\ \A p \in Answered : answer'[p] = answer[p]
  <2>1. TargetReencryptionError.kind # "ActivationMessage"
    BY DEF TargetReencryptionError
  <2> QED
    BY <1>3, <2>1 DEF Answered
<1>6. DispatchTypeOK'
  BY <1>1, <1>2, <1>3, <1>4 DEF QueueInv, DispatchTypeOK
<1>7. Separate'
  <2>1. \A i, j \in DOMAIN queue' : queue'[i] = queue'[j] => i = j
    BY <1>2, <1>4 DEF QueueInv, Separate
  <2>2. \A e \in pending' : e.entry # d.entry
    BY <1>1 DEF QueueInv, Dispatches
  <2>3. \A e \in pending' : e.entry \in 1..arrived' \ Queued'
    BY <1>1, <1>4, <2>2 DEF QueueInv, Separate
  <2>4. \A p \in Answered' :
          /\ answer'[p].activation \in 1..arrived'
          /\ answer'[p].activation \in Queued' \cup Dispatching' =>
               answer'[p].activation \in rescheduled'
    BY <1>1, <1>3, <1>4, <1>5 DEF QueueInv, Separate
  <2>5. \A p, q \in Answered' : answer'[p].activation = answer'[q].activation => p = q
    BY <1>5 DEF QueueInv, Separate
  <2> QED
    BY <2>1, <2>3, <2>4, <2>5 DEF Separate
<1>8. WaitsOnlyBesideReturned'
  BY <1>1, <1>3, <1>4 DEF QueueInv, WaitsOnlyBesideReturned
<1>9. Precedence'
  BY <1>1, <1>4 DEF QueueInv, Precedence
<1>10. QueueInOrder'
  <2>1. \A i \in DOMAIN queue : \/ d.entry < queue[i] \/ queue[i] \in returned
                                \/ d.entry \in rescheduled \/ queue[i] \in rescheduled
    BY DEF QueueInv, Precedence
  <2> SUFFICES ASSUME NEW i \in DOMAIN queue', NEW j \in DOMAIN queue', i < j
               PROVE  \/ queue'[i] < queue'[j] \/ {queue'[i], queue'[j]} \subseteq returned'
                      \/ queue'[i] \in rescheduled' \/ queue'[j] \in rescheduled'
    BY DEF QueueInOrder
  <2>2. j - 1 \in DOMAIN queue /\ queue'[j] = queue[j - 1]
    BY <1>4
  <2>3. CASE i = 1 /\ queue'[i] = d.entry
    BY <1>1, <2>1, <2>2, <2>3
  <2>4. CASE i - 1 \in DOMAIN queue /\ queue'[i] = queue[i - 1]
    <3>1. i \in Nat /\ j \in Nat /\ i - 1 < j - 1
      BY <1>4
    <3> QED
      BY <1>1, <2>2, <2>4, <3>1 DEF QueueInv, QueueInOrder
  <2> QED
    BY <1>4, <2>3, <2>4
<1>11. QueueInv'
  BY <1>3, <1>6, <1>7, <1>8, <1>9, <1>10 DEF QueueInv
<1>12. Return(d.entry)
  BY <1>1, <1>3, <1>4, <1>5 DEF Return, AnswersKept
<1>13. Passage
  BY <1>1, <1>2, <1>3, <1>12 DEF Passage
<1> QED
  BY <1>1, <1>3, <1>4, <1>5, <1>11, <1>13

\* A step of the dispatcher changes one dispatch, not what it is of and for.
LEMMA AdvanceQueueInv ==
  ASSUME QueueInv, NEW d \in pending, NEW e \in Dispatch, Advance(d, e),
         e.entry = d.entry, e.pull = d.pull, e.waiting = d.waiting,
         e.step = "completed" => e.result # None,
         e.entry \in rescheduled => e.result \in {None, Failed}
  PROVE  QueueInv' /\ Passage /\ Sent' \subseteq Sent
<1>1. /\ pending' = (pending \ {d}) \cup {e}
      /\ UNCHANGED <<arrived, queue, requestBuffer, request, completed, poll, ask, answer,
                     returned, rescheduled, timeouts>>
  BY DEF Advance
<1>2. Dispatching' = Dispatching
  BY <1>1 DEF Dispatching
<1>3. DispatchTypeOK'
  BY <1>1 DEF QueueInv, DispatchTypeOK
<1>4. Pulls'
  BY <1>1 DEF QueueInv, Pulls, Unserved, Unanswered, Uncompleted
<1>5. Dispatches'
  <2>1. \A f, g \in pending' : f.entry = g.entry \/ f.pull = g.pull => f = g
    BY <1>1 DEF QueueInv, Dispatches
  <2>2. ASSUME NEW f \in pending
        PROVE  /\ ~Unserved(f.pull)' /\ Unanswered(f.pull)'
               /\ poll'[f.pull] \in (IF f.waiting THEN {"fired", "off"} ELSE {"off"})
               /\ f.waiting /\ f.pull \in completed' => answer'[f.pull] = NoActivationMessage
               /\ f.step = "completed" => f.result # None
               /\ f.entry \in rescheduled' => f.result \in {None, Failed}
    BY <1>1 DEF QueueInv, Dispatches, Unserved, Unanswered, Uncompleted
  <2> QED
    BY <1>1, <2>1, <2>2 DEF Dispatches
<1>6. Queued' = Queued /\ Answered' = Answered /\ Uncompleted' = Uncompleted
  BY <1>1 DEF Queued, Answered, Uncompleted
<1>7. Separate' /\ Precedence'
  BY <1>1, <1>2, <1>6 DEF QueueInv, Separate, Precedence
<1>8. WaitsOnlyBesideReturned' /\ QueueInOrder'
  BY <1>1, <1>6 DEF QueueInv, WaitsOnlyBesideReturned, QueueInOrder
<1>9. Spent \subseteq Spent' /\ Sent' \subseteq Sent
  BY <1>1, <1>6 DEF Spent, Sent, Unserved
<1>10. Passage
  BY <1>1, <1>2, <1>6, <1>9 DEF Passage, Stays, AnswersKept, Settled
<1> QED
  BY <1>3, <1>4, <1>5, <1>7, <1>8, <1>9, <1>10 DEF QueueInv

\* The steps that leave the queue, its dispatches and its callers alone.
LEMMA StutterQueueInv ==
  ASSUME QueueInv, UNCHANGED dispatchVars
  PROVE  QueueInv' /\ Passage /\ Sent' \subseteq Sent
BY DEF dispatchVars, QueueInv, DispatchTypeOK, Pulls, Dispatches, Separate, Precedence,
       WaitsOnlyBesideReturned, QueueInOrder, Unserved, Unanswered, Uncompleted, Queued,
       Dispatching, Answered, Passage, Stays, AnswersKept, Settled, Spent, Sent

LEMMA InitQueueInv == ASSUME DispatchInit PROVE QueueInv
<1>1. DispatchTypeOK
  BY DispatchConstants DEF DispatchInit, DispatchTypeOK
<1>2. Queued = {} /\ Dispatching = {} /\ Answered = {} /\ Uncompleted = {}
  BY DEF DispatchInit, Queued, Dispatching, Answered, Uncompleted
<1>3. Pulls /\ Dispatches /\ Precedence
  BY <1>2 DEF DispatchInit, Pulls, Dispatches, Precedence, Unserved
<1>4. Separate /\ WaitsOnlyBesideReturned /\ QueueInOrder
  BY <1>2 DEF DispatchInit, Separate, WaitsOnlyBesideReturned, QueueInOrder
<1> QED
  BY <1>1, <1>3, <1>4 DEF QueueInv

-----------------------------------------------------------------------------
(* How many activations are lost. *)

\* A loss is paid for by a pull; nothing else costs an activation.
LEMMA PassageLossInv ==
  ASSUME QueueInv, LossInv, QueueInv', Passage \/ \E a \in Activation : Resending(a),
         Sent' \subseteq Sent \/ \E p \in Pull : Sent' \subseteq Sent \cup {p}
  PROVE  LossInv'
<1>1. IsFiniteSet(Sent')
  <2>1. CASE Sent' \subseteq Sent
    BY <2>1, FS_Subset DEF LossInv
  <2>2. ASSUME NEW p \in Pull, Sent' \subseteq Sent \cup {p} PROVE IsFiniteSet(Sent')
    <3>1. IsFiniteSet(Sent \cup {p})
      BY FS_AddElement DEF LossInv
    <3> QED
      BY <2>2, <3>1, FS_Subset
  <2> QED
    BY <2>1, <2>2
<1>2. Spent \subseteq Sent /\ Spent' \subseteq Sent'
  BY NoneIsNoMessage DEF Spent, Sent, QueueInv, DispatchTypeOK
<1>3. IsFiniteSet(Spent) /\ IsFiniteSet(Spent')
  <2>1. IsFiniteSet(Sent)
    BY DEF LossInv
  <2> QED
    BY <1>1, <1>2, <2>1, FS_Subset
<1>4. arrived \in Nat /\ arrived' \in Nat
  BY DispatchConstants DEF QueueInv, DispatchTypeOK
<1>5. IsFiniteSet(Lost)
  <2>1. IsFiniteSet(1..arrived)
    BY <1>4, FS_Interval
  <2>2. Lost \subseteq 1..arrived
    BY DEF Lost
  <2> QED
    BY <2>1, <2>2, FS_Subset
<1>6. /\ Cardinality(Lost) \in Nat /\ Cardinality(Spent) \in Nat /\ Cardinality(Spent') \in Nat
      /\ Cardinality(Spent) <= Cardinality(Spent')
      /\ Cardinality(Lost) <= Cardinality(Spent)
  <2>1. Spent \subseteq Spent'
    BY DEF Passage, Resending
  <2> QED
    BY <1>3, <1>5, <2>1, FS_CardinalityType, FS_Subset DEF LossInv
<1>7. ASSUME Lost' \subseteq Lost PROVE LossInv'
  <2>1. Cardinality(Lost') <= Cardinality(Lost) /\ Cardinality(Lost') \in Nat
    BY <1>5, <1>7, FS_Subset, FS_CardinalityType
  <2> QED
    BY <1>1, <1>6, <2>1 DEF LossInv
<1>8. AnswersKept => Handed' = Handed
  BY DEF AnswersKept, Handed
<1>13. ASSUME NEW a \in Activation, Resending(a) PROVE LossInv'
  BY <1>7, <1>8, <1>13 DEF Resending, Lost
<1>9. CASE Stays
  BY <1>7, <1>8, <1>9 DEF Stays, Lost
<1>10. ASSUME NEW a \in Activation, Arrival(a) \/ Taking(a) \/ Return(a) PROVE LossInv'
  <2>1. Lost' \subseteq Lost
    <3>1. CASE Arrival(a)
      <4>1. 1..arrived' = 1..arrived \cup {a}
        BY <1>4, <3>1 DEF Arrival
      <4> QED
        BY <1>8, <3>1, <4>1 DEF Arrival, Lost
    <3>2. CASE Taking(a) \/ Return(a)
      BY <1>8, <3>2 DEF Taking, Return, Lost
    <3> QED
      BY <1>10, <3>1, <3>2
  <2> QED
    BY <1>7, <2>1
<1>11. ASSUME NEW a \in Activation, NEW p \in Pull, Handing(a, p) PROVE LossInv'
  <2>1. Handed \cup {a} \subseteq Handed'
    BY <1>11 DEF Handing, Handed
  <2>2. Lost' \subseteq Lost
    BY <1>11, <2>1 DEF Handing, Lost
  <2> QED
    BY <1>7, <2>2
<1>12. ASSUME NEW a \in Activation, NEW p \in Pull, Loss(a, p) PROVE LossInv'
  <2>1. Lost' \subseteq Lost \cup {a}
    BY <1>8, <1>12 DEF Loss, Lost
  <2>2. /\ IsFiniteSet(Lost \cup {a}) /\ Cardinality(Lost \cup {a}) <= Cardinality(Lost) + 1
        /\ Cardinality(Lost \cup {a}) \in Nat
    <3>1. /\ IsFiniteSet(Lost \cup {a})
          /\ Cardinality(Lost \cup {a}) = IF a \in Lost THEN Cardinality(Lost)
                                         ELSE Cardinality(Lost) + 1
      BY <1>5, FS_AddElement
    <3> QED
      BY <1>6, <3>1
  <2>3. Cardinality(Lost') <= Cardinality(Lost \cup {a}) /\ Cardinality(Lost') \in Nat
    BY <2>1, <2>2, FS_Subset, FS_CardinalityType
  <2>4. p \in Spent' /\ p \notin Spent
    BY <1>12 DEF Loss
  <2>5. /\ IsFiniteSet(Spent' \ {p}) /\ Cardinality(Spent' \ {p}) = Cardinality(Spent') - 1
        /\ Cardinality(Spent' \ {p}) \in Nat
    BY <1>3, <2>4, FS_RemoveElement, FS_CardinalityType
  <2>6. Spent \subseteq Spent' \ {p}
    BY <2>4 DEF Passage, Resending
  <2>7. Cardinality(Spent) <= Cardinality(Spent' \ {p})
    BY <2>5, <2>6, FS_Subset
  <2> QED
    BY <1>1, <1>6, <2>2, <2>3, <2>5, <2>7 DEF LossInv
<1> QED
  BY <1>9, <1>10, <1>11, <1>12, <1>13 DEF Passage

LEMMA LossBounded == ASSUME QueueInv, LossInv PROVE LostOnlyUnanswered
<1> DEFINE Unhelped == {p \in Pull : answer[p] = NoActivationMessage}
<1>1. Spent \subseteq Unhelped /\ Unhelped \subseteq Sent
  BY NoneIsNoMessage DEF Spent, Sent, QueueInv, DispatchTypeOK
<1>2. IsFiniteSet(Unhelped) /\ IsFiniteSet(Spent)
  BY <1>1, FS_Subset DEF LossInv
<1>3. /\ Cardinality(Spent) <= Cardinality(Unhelped)
      /\ Cardinality(Spent) \in Nat /\ Cardinality(Unhelped) \in Nat
  BY <1>1, <1>2, FS_Subset, FS_CardinalityType
<1>4. Cardinality(Lost) \in Nat
  <2>1. arrived \in Nat /\ Lost \subseteq 1..arrived
    BY DispatchConstants DEF QueueInv, DispatchTypeOK, Lost
  <2>2. IsFiniteSet(1..arrived)
    BY <2>1, FS_Interval
  <2> QED
    BY <2>1, <2>2, FS_Subset, FS_CardinalityType
<1>5. Cardinality(Lost) <= Cardinality(Spent)
  BY DEF LossInv
<1>6. Cardinality(Lost) <= Cardinality(Unhelped)
  <2> HIDE DEF Unhelped
  <2> QED
    BY <1>3, <1>4, <1>5
<1> QED
  BY <1>6 DEF LostOnlyUnanswered

LEMMA InitLossInv == ASSUME DispatchInit PROVE LossInv
<1>1. Sent = {} /\ Spent = {} /\ Lost = {}
  BY NoneIsNoMessage DEF DispatchInit, Sent, Spent, Lost
<1>2. IsFiniteSet({}) /\ Cardinality({}) = 0
  BY FS_EmptySet
<1> QED
  BY <1>1, <1>2 DEF LossInv

-----------------------------------------------------------------------------
(* The custody of activations. *)

\* Whoever has an activation is the only one.
Sole(a) ==
  /\ a > arrived => Custodians(a) = {"client"}
  /\ a \in Queued => Custodians(a) = {"queue"}
  /\ a \in Dispatching => Custodians(a) = {"dispatch"}
  /\ Unheard(a) => Custodians(a) = {"pull"}
  /\ Runs(a) => Custodians(a) = {"container"}
  /\ a \in rescheduling => Custodians(a) = {"reschedule"}

LEMMA SoleCustodian == QueueInv /\ Resends => \A a \in Activation : Sole(a)
<1> SUFFICES ASSUME QueueInv, Resends, NEW a \in Activation PROVE Sole(a)
  OBVIOUS
<1>1. arrived \in Nat /\ a \in Nat
  BY DispatchConstants DEF QueueInv, DispatchTypeOK, Activation
<1>2. \A b \in Queued \cup Dispatching \cup Handed : b \in 1..arrived
  BY DEF QueueInv, DispatchTypeOK, Separate, Queued, Dispatching, Handed
<1>3. Queued \cap Dispatching = {}
  BY DEF QueueInv, Separate, Dispatching
<1>4. a \in Handed /\ a \in Queued \cup Dispatching => a \in rescheduled
  BY DEF QueueInv, Separate, Handed
<1>5. ASSUME Unheard(a)
      PROVE  a \in Handed /\ a \notin rescheduling \cup rescheduled /\ ~Runs(a)
  <2>1. PICK p \in Answered : answer[p].activation = a /\ p \notin heard
    BY <1>5 DEF Unheard, Receivers
  <2>2. \A q \in Answered \cap heard : answer[q].activation # a
    BY <2>1 DEF QueueInv, Separate
  <2> QED
    BY <2>1, <2>2 DEF Resends, Handed, Runs
<1>6. Runs(a) => a \in Handed /\ a \notin rescheduling \cup rescheduled
  BY DEF Resends, Handed, Runs
<1>7. a \in rescheduling => a \in Handed /\ a \notin rescheduled
  BY DEF Resends, Handed
<1> HIDE DEF Unheard, Runs
<1> QED
  BY <1>1, <1>2, <1>3, <1>4, <1>5, <1>6, <1>7 DEF Sole, Custodians

LEMMA SoleCustodianAfter == (QueueInv /\ Resends => \A a \in Activation : Sole(a))'
BY SoleCustodian, PTL

LEMMA InitCustody ==
  ASSUME DispatchInit, heard = {}, rescheduling = {}, \A c \in Container : running[c] = {}
  PROVE  Custody!Init
<1>1. arrived = 0 /\ Queued = {} /\ Dispatching = {} /\ Answered = {}
  BY DEF DispatchInit, Queued, Dispatching, Answered
<1>2. \A a \in Activation : Custodians(a) = {"client"} /\ Receivers(a) = {}
  <2> SUFFICES ASSUME NEW a \in Activation
               PROVE  Custodians(a) = {"client"} /\ Receivers(a) = {}
    OBVIOUS
  <2>1. Receivers(a) = {} /\ ~Unheard(a) /\ ~Runs(a) /\ a > arrived
    BY <1>1, DispatchConstants DEF Receivers, Unheard, Runs, Activation
  <2> QED
    BY <1>1, <2>1 DEF Custodians
<1> QED
  BY <1>2 DEF Custody!Init

\* A step by which one activation passes from one party to another, or to none.
LEMMA PassedOn ==
  ASSUME NEW a \in Activation, NEW from, NEW to,
         Custodians(a) = {from}, Custodians(a)' = to,
         \A b \in Activation \ {a} : Custodians(b)' = Custodians(b)
  PROVE  Custody!Passes(a, from, to)
BY DEF Custody!Passes

\* The pulls and places of an activation that no answer goes to.
LEMMA SameReceivers ==
  ASSUME AnswersKept
  PROVE  \A a : Receivers(a)' = Receivers(a)
BY DEF AnswersKept, Receivers

LEMMA SamePlace ==
  ASSUME NEW a \in Activation, (a > arrived)' <=> a > arrived, (a \in Queued)' = (a \in Queued),
         (a \in Dispatching)' = (a \in Dispatching), Unheard(a)' = Unheard(a), Runs(a)' = Runs(a),
         (a \in rescheduling)' = (a \in rescheduling)
  PROVE  Custodians(a)' = Custodians(a)
BY DEF Custodians

LEMMA NoPlace ==
  ASSUME NEW a \in Activation, ~(a > arrived)', ~(a \in Queued)', ~(a \in Dispatching)',
         ~Unheard(a)', ~Runs(a)', ~(a \in rescheduling)'
  PROVE  Custodians(a)' = {}
BY DEF Custodians

\* A step of the queue passes one activation on, or none.
LEMMA PassageCustody ==
  ASSUME QueueInv, Resends, QueueInv', Resends', Passage, UNCHANGED <<heard, running, rescheduling>>
  PROVE  [Custody!Next]_Custody!vars
<1>1. /\ \A a \in Activation : Sole(a) /\ Sole(a)'
      /\ arrived \in Nat /\ \A a \in Activation : a \in Nat
      /\ Queued \cap Dispatching = {} /\ (\A a \in Queued \cup Dispatching : ~(a > arrived))
  <2>1. \A a \in Queued \cup Dispatching : a \in 1..arrived
    BY DEF QueueInv, DispatchTypeOK, Separate, Queued, Dispatching
  <2>2. arrived \in Nat /\ Queued \cap Dispatching = {}
    BY DispatchConstants DEF QueueInv, DispatchTypeOK, Separate, Dispatching
  <2> QED
    BY <2>1, <2>2, SoleCustodian, SoleCustodianAfter, DispatchConstants DEF Activation
<1>2. \A a \in Activation : Runs(a)' = Runs(a)
  BY DEF Runs
<1>3. \A a \in Activation : Receivers(a)' = Receivers(a) => Unheard(a)' = Unheard(a)
  BY DEF Unheard
<1>4. ASSUME AnswersKept
      PROVE  /\ [a \in Activation |-> Receivers(a)]' = [a \in Activation |-> Receivers(a)]
             /\ \A a \in Activation : Unheard(a)' = Unheard(a)
  BY <1>3, <1>4, SameReceivers
<1>5. CASE Stays
  <2>1. \A a \in Activation : Custodians(a)' = Custodians(a)
    BY <1>2, <1>4, <1>5, SamePlace DEF Stays
  <2>2. [a \in Activation |-> Custodians(a)]' = [a \in Activation |-> Custodians(a)]
    BY <2>1
  <2> QED
    BY <1>4, <1>5, <2>2 DEF Stays, Custody!vars
<1>6. ASSUME NEW a \in Activation, Arrival(a) PROVE Custody!Next
  <2>1. Custodians(a) = {"client"}
    BY <1>1, <1>6 DEF Arrival, Sole
  <2>2. \E to \in {"queue", "dispatch"} : Custodians(a)' = {to}
    BY <1>1, <1>6 DEF Arrival, Sole
  <2>3. \A b \in Activation \ {a} : Custodians(b)' = Custodians(b)
    <3>1. ASSUME NEW b \in Activation \ {a} PROVE b > arrived' <=> b > arrived
      <4>1. arrived' = arrived + 1 /\ b # arrived + 1 /\ b \in Nat /\ arrived \in Nat
        BY <1>1, <1>6 DEF Arrival
      <4> QED
        BY <4>1
    <3> QED
      BY <1>2, <1>4, <1>6, <3>1, SamePlace DEF Arrival
  <2>4. PICK to \in {"queue", "dispatch"} : Custody!Passes(a, "client", {to})
    BY <2>1, <2>2, <2>3, PassedOn
  <2>5. [b \in Activation |-> Receivers(b)]' = [b \in Activation |-> Receivers(b)]
    BY <1>4, <1>6 DEF Arrival
  <2> QED
    BY <2>4, <2>5 DEF Custody!Next, Custody!Arrives
<1>7. ASSUME NEW a \in Activation, Taking(a) PROVE Custody!Next
  <2>1. Custodians(a) = {"queue"} /\ Custodians(a)' = {"dispatch"}
    BY <1>1, <1>7 DEF Taking, Sole
  <2>2. \A b \in Activation \ {a} : Custodians(b)' = Custodians(b)
    BY <1>2, <1>4, <1>7, SamePlace DEF Taking
  <2>3. Custody!Passes(a, "queue", {"dispatch"})
    BY <2>1, <2>2, PassedOn
  <2>4. [b \in Activation |-> Receivers(b)]' = [b \in Activation |-> Receivers(b)]
    BY <1>4, <1>7 DEF Taking
  <2> QED
    BY <2>3, <2>4 DEF Custody!Next, Custody!Taken
<1>8. ASSUME NEW a \in Activation, Return(a) PROVE Custody!Next
  <2>1. Custodians(a) = {"dispatch"} /\ Custodians(a)' = {"queue"}
    BY <1>1, <1>8 DEF Return, Sole
  <2>2. \A b \in Activation \ {a} : Custodians(b)' = Custodians(b)
    BY <1>2, <1>4, <1>8, SamePlace DEF Return
  <2>3. Custody!Passes(a, "dispatch", {"queue"})
    BY <2>1, <2>2, PassedOn
  <2>4. [b \in Activation |-> Receivers(b)]' = [b \in Activation |-> Receivers(b)]
    BY <1>4, <1>8 DEF Return
  <2> QED
    BY <2>3, <2>4 DEF Custody!Next, Custody!ComesBack
<1>9. ASSUME NEW a \in Activation, a \in Dispatching, a \notin Handed
      PROVE  /\ Custodians(a) = {"dispatch"} /\ Receivers(a) = {} /\ ~(a > arrived)
             /\ a \notin Queued /\ ~Runs(a) /\ a \notin rescheduling
  <2>1. Custodians(a) = {"dispatch"}
    BY <1>1, <1>9 DEF Sole
  <2>2. Receivers(a) = {}
    BY <1>9 DEF Receivers, Handed
  <2>3. ~Runs(a) /\ a \notin rescheduling
    BY <1>1, <2>1 DEF Sole
  <2> QED
    BY <1>1, <1>9, <2>1, <2>2, <2>3
<1>10. ASSUME NEW a \in Activation, NEW p \in Pull, Handing(a, p) PROVE Custody!Next
  <2>1. Custodians(a) = {"dispatch"} /\ Receivers(a) = {}
    BY <1>9, <1>10 DEF Handing
  <2>2. Receivers(a)' = {p} /\ \A b \in Activation \ {a} : Receivers(b)' = Receivers(b)
    BY <1>10, <2>1 DEF Handing, Receivers
  <2>3. Unheard(a)'
    BY <1>10, <2>2 DEF Handing, Resends, Unheard
  <2>4. Custodians(a)' = {"pull"}
    BY <1>1, <2>3 DEF Sole
  <2>5. \A b \in Activation \ {a} : Custodians(b)' = Custodians(b)
    BY <1>2, <1>3, <1>10, <2>2, SamePlace DEF Handing
  <2>6. Custody!Passes(a, "dispatch", {"pull"})
    BY <2>1, <2>4, <2>5, PassedOn
  <2>7. [b \in Activation |-> Receivers(b)]' = [[b \in Activation |-> Receivers(b)] EXCEPT ![a] = {p}]
    BY <2>2
  <2> QED
    BY <2>1, <2>6, <2>7 DEF Custody!Next, Custody!Answers
<1>11. ASSUME NEW a \in Activation, NEW p \in Pull, Loss(a, p) PROVE Custody!Next
  <2>1. /\ Custodians(a) = {"dispatch"} /\ Receivers(a) = {} /\ ~(a > arrived)
        /\ a \notin Queued /\ ~Runs(a) /\ a \notin rescheduling
    BY <1>9, <1>11 DEF Loss
  <2>2. ~Unheard(a)
    BY <2>1 DEF Unheard
  <2>3. Custodians(a)' = {}
    BY <1>2, <1>4, <1>11, <2>1, <2>2, NoPlace DEF Loss
  <2>4. \A b \in Activation \ {a} : Custodians(b)' = Custodians(b)
    BY <1>2, <1>4, <1>11, SamePlace DEF Loss
  <2>5. Custody!Passes(a, "dispatch", {})
    BY <2>1, <2>3, <2>4, PassedOn
  <2>6. [b \in Activation |-> Receivers(b)]' = [b \in Activation |-> Receivers(b)]
    BY <1>4, <1>11 DEF Loss
  <2> QED
    BY <2>1, <2>5, <2>6 DEF Custody!Next, Custody!IsLost
<1> QED
  BY <1>5, <1>6, <1>7, <1>8, <1>10, <1>11 DEF Passage

\* A container sent an activation back: it arrives again, or the scheduler refuses it.
LEMMA ResendCustody ==
  ASSUME QueueInv, Resends, QueueInv', Resends', NEW a \in Activation,
         a \in rescheduling, rescheduling' = rescheduling \ {a}, UNCHANGED <<heard, running>>,
         Resending(a) \/ UNCHANGED dispatchVars
  PROVE  [Custody!Next]_Custody!vars
<1>1. Sole(a) /\ Sole(a)'
  BY SoleCustodian, SoleCustodianAfter
<1>2. Custodians(a) = {"reschedule"}
  BY <1>1 DEF Sole
<1>3. \A b \in Activation : Runs(b)' = Runs(b)
  BY DEF Runs
<1>4. UNCHANGED arrived /\ AnswersKept
  BY AnsweredKept DEF Resending, dispatchVars
<1>5. /\ [b \in Activation |-> Receivers(b)]' = [b \in Activation |-> Receivers(b)]
      /\ \A b \in Activation : Unheard(b)' = Unheard(b)
  BY <1>4, SameReceivers DEF Unheard
<1>6. \A b \in Activation \ {a} : (b \in rescheduling)' = (b \in rescheduling)
  OBVIOUS
<1>7. CASE Resending(a)
  <2>1. \E to \in {"queue", "dispatch"} : Custodians(a)' = {to}
    BY <1>1, <1>7 DEF Resending, Sole
  <2>2. \A b \in Activation \ {a} : Custodians(b)' = Custodians(b)
    BY <1>3, <1>4, <1>5, <1>6, <1>7, SamePlace DEF Resending
  <2>3. PICK to \in {"queue", "dispatch"} : Custody!Passes(a, "reschedule", {to})
    BY <1>2, <2>1, <2>2, PassedOn
  <2> QED
    BY <1>5, <2>3 DEF Custody!Next, Custody!Arrives
<1>8. CASE UNCHANGED dispatchVars
  <2>1. /\ UNCHANGED <<Queued, Dispatching>>
        /\ ~(a > arrived) /\ a \notin Queued \cup Dispatching /\ ~Unheard(a) /\ ~Runs(a)
    BY <1>1, <1>2, <1>8 DEF Sole, dispatchVars, Queued, Dispatching
  <2>2. Custodians(a)' = {}
    BY <1>3, <1>4, <1>5, <2>1, NoPlace
  <2>3. \A b \in Activation \ {a} : Custodians(b)' = Custodians(b)
    BY <1>3, <1>4, <1>5, <1>6, <2>1, SamePlace
  <2>4. Custody!Passes(a, "reschedule", {})
    BY <1>2, <2>2, <2>3, PassedOn
  <2> QED
    BY <1>5, <2>4 DEF Custody!Next, Custody!Ends
<1> QED
  BY <1>7, <1>8

LEMMA AnsweredType ==
  ASSUME DispatchTypeOK
  PROVE  \A p \in Answered : answer[p] \in ActivationMessage /\ answer[p].activation \in Activation
<1>1. /\ NoActivationMessage.kind # "ActivationMessage"
      /\ TargetReencryptionError.kind # "ActivationMessage"
  BY DEF NoActivationMessage, TargetReencryptionError
<1> QED
  BY <1>1 DEF DispatchTypeOK, Answered, ActivationMessage

\* A container hears an answer.
LEMMA HearCustody ==
  ASSUME ProxyTypeOK, QueueInv, Resends, QueueInv', Resends', NEW p \in Pull, HearAnswer(p)
  PROVE  [Custody!Next]_Custody!vars
<1> DEFINE c == p[1]
<1>1. /\ p \in Outstanding(c) /\ ask[p] # "asking" /\ heard' = heard \cup {p}
      /\ UNCHANGED <<dispatchVars, rescheduling>>
      /\ \/ /\ answer[p].kind = "ActivationMessage"
            /\ running' = [running EXCEPT ![c] = @ \cup {answer[p]}]
         \/ answer[p].kind # "ActivationMessage" /\ UNCHANGED running
  BY DEF HearAnswer
<1>2. /\ ask[p] # "unused" /\ ask[p] # "asking" /\ p \notin heard /\ c \in Container
  BY <1>1, PullsOfContainers DEF Outstanding, PullsOf
<1>3. NoActivationMessage.kind # "ActivationMessage"
  BY DEF NoActivationMessage
<1>4. answer[p].kind = "ActivationMessage" <=> p \in Answered
  BY <1>2, <1>3 DEF QueueInv, DispatchTypeOK, Pulls, Answered
<1>5. /\ UNCHANGED <<arrived, Queued, Dispatching>> /\ AnswersKept
  BY <1>1, AnsweredKept DEF dispatchVars, Queued, Dispatching
<1>6. /\ [b \in Activation |-> Receivers(b)]' = [b \in Activation |-> Receivers(b)]
      /\ \A b \in Activation : Receivers(b)' = Receivers(b)
  BY <1>5, SameReceivers
<1>7. CASE p \notin Answered
  <2>1. \A b \in Activation : Unheard(b)' = Unheard(b) /\ Runs(b)' = Runs(b)
    BY <1>1, <1>4, <1>6, <1>7 DEF Unheard, Runs, Receivers
  <2>2. \A b \in Activation : Custodians(b)' = Custodians(b)
    BY <1>1, <1>5, <2>1, SamePlace
  <2>3. [b \in Activation |-> Custodians(b)]' = [b \in Activation |-> Custodians(b)]
    BY <2>2
  <2> QED
    BY <1>6, <2>3 DEF Custody!vars
<1>8. CASE p \in Answered
  <2>1. PICK a \in Activation : a = answer[p].activation
    BY <1>8, AnsweredType DEF QueueInv
  <2>2. Unheard(a) /\ \A b \in Activation \ {a} : p \notin Receivers(b)
    BY <1>2, <1>8, <2>1 DEF Unheard, Receivers
  <2>3. Custodians(a) = {"pull"}
    BY <2>1, <2>2, SoleCustodian DEF Sole
  <2>4. Runs(a)' /\ \A b \in Activation \ {a} : Runs(b)' = Runs(b)
    <3>1. running' = [running EXCEPT ![c] = @ \cup {answer[p]}]
      BY <1>1, <1>4, <1>8
    <3> QED
      BY <1>2, <2>1, <3>1 DEF ProxyTypeOK, Runs
  <2>5. Custodians(a)' = {"container"}
    BY <2>1, <2>4, SoleCustodianAfter DEF Sole
  <2>6. \A b \in Activation \ {a} : Unheard(b)' = Unheard(b)
    BY <1>1, <1>6, <2>2 DEF Unheard
  <2>7. \A b \in Activation \ {a} : Custodians(b)' = Custodians(b)
    BY <1>1, <1>5, <2>4, <2>6, SamePlace
  <2>8. Custody!Passes(a, "pull", {"container"})
    BY <2>1, <2>3, <2>5, <2>7, PassedOn
  <2> QED
    BY <1>6, <2>1, <2>8 DEF Custody!Next, Custody!IsHeard
<1> QED
  BY <1>7, <1>8

\* A run ends, or its activation is sent back.
LEMMA RunCustody ==
  ASSUME ProxyTypeOK, QueueInv, Resends, QueueInv', Resends', NEW c \in Container, NEW m \in running[c],
         RunActivation(c, m) \/ HealthError(c, m)
  PROVE  [Custody!Next]_Custody!vars
<1> DEFINE a == m.activation
<1>1. /\ UNCHANGED <<dispatchVars, heard>> /\ running' = [running EXCEPT ![c] = @ \ {m}]
      /\ rescheduling' \in {rescheduling, rescheduling \cup {a}}
  BY DEF RunActivation, HealthError
<1>2. /\ UNCHANGED <<arrived, Queued, Dispatching>> /\ AnswersKept
  BY <1>1, AnsweredKept DEF dispatchVars, Queued, Dispatching
<1>3. /\ [b \in Activation |-> Receivers(b)]' = [b \in Activation |-> Receivers(b)]
      /\ \A b \in Activation : Unheard(b)' = Unheard(b)
  BY <1>1, <1>2, SameReceivers DEF Unheard
<1>4. PICK p \in Answered \cap heard : p[1] = c /\ answer[p] = m
  BY DEF Resends
<1>5. a \in Activation /\ Sole(a) /\ Sole(a)'
  BY <1>4, AnsweredType, SoleCustodian, SoleCustodianAfter DEF QueueInv
<1>6. ASSUME NEW d \in Container, NEW n \in running[d], n.activation = a
      PROVE  d = c /\ n = m
  <2>1. PICK q \in Answered \cap heard : q[1] = d /\ answer[q] = n
    BY <1>6 DEF Resends
  <2>2. p = q
    BY <1>4, <1>6, <2>1 DEF QueueInv, Separate
  <2> QED
    BY <1>4, <2>1, <2>2
<1>7. ~Runs(a)' /\ \A b \in Activation \ {a} : Runs(b)' = Runs(b)
  BY <1>1, <1>6 DEF ProxyTypeOK, Runs
<1>8. Custodians(a) = {"container"}
  <2>1. Runs(a)
    BY DEF Runs
  <2> QED
    BY <1>5, <2>1 DEF Sole
<1>9. \A b \in Activation \ {a} : Custodians(b)' = Custodians(b)
  BY <1>1, <1>2, <1>3, <1>7, SamePlace
<1>10. CASE RunActivation(c, m)
  <2>1. ~(a > arrived) /\ a \notin Queued \cup Dispatching \cup rescheduling /\ ~Unheard(a)
    BY <1>5, <1>8 DEF Sole
  <2>2. UNCHANGED rescheduling
    BY <1>10 DEF RunActivation
  <2>3. Custodians(a)' = {}
    BY <1>2, <1>3, <1>5, <1>7, <2>1, <2>2, NoPlace
  <2>4. Custody!Passes(a, "container", {})
    BY <1>5, <1>8, <1>9, <2>3, PassedOn
  <2> QED
    BY <1>3, <1>5, <2>4 DEF Custody!Next, Custody!Ends
<1>11. CASE HealthError(c, m)
  <2>1. a \in rescheduling'
    BY <1>11 DEF HealthError
  <2>2. Custodians(a)' = {"reschedule"}
    BY <1>5, <2>1 DEF Sole
  <2>3. Custody!Passes(a, "container", {"reschedule"})
    BY <1>5, <1>8, <1>9, <2>2, PassedOn
  <2> QED
    BY <1>3, <1>5, <2>3 DEF Custody!Next, Custody!SentBack
<1> QED
  BY <1>10, <1>11

-----------------------------------------------------------------------------
(* Envelopes. *)

LEMMA ReboundType ==
  ASSUME NEW e \in ProtectedEnvelopeV1, NEW direction \in DOMAIN ivDomain, NEW b \in Nat
  PROVE  Rebound(e, direction, b) \in ProtectedEnvelopeV1
<1>1. ivDomain[direction] \in {0, 1}
  BY DEF ivDomain
<1> QED
  BY <1>1 DEF Rebound, ProtectedEnvelopeV1

\* The Gateway's answers are envelopes, the wrong ones too.
LEMMA AnswersType ==
  ASSUME NEW e \in ProtectedEnvelopeV1, NEW direction \in DOMAIN ivDomain, NEW b \in Nat,
         NEW accepts \in BOOLEAN
  PROVE  /\ GatewayAnswer(e, direction, b, accepts) \in ProtectedEnvelopeV1 \cup {Failed}
         /\ WrongAnswers(e, direction, b) \subseteq ProtectedEnvelopeV1 \cup {Failed}
<1>1. /\ Rebound(e, direction, b) \in ProtectedEnvelopeV1
      /\ \A other \in DOMAIN ivDomain : Rebound(e, other, b) \in ProtectedEnvelopeV1
  BY ReboundType
<1>2. ASSUME NEW k \in Correlation
      PROVE  [Rebound(e, direction, b) EXCEPT !.correlation = k] \in ProtectedEnvelopeV1
  BY <1>1 DEF ProtectedEnvelopeV1
<1>3. ASSUME NEW n \in {0, e.bindingId, b + 1}
      PROVE  [Rebound(e, direction, b) EXCEPT !.bindingId = n] \in ProtectedEnvelopeV1
  <2>1. n \in Nat
    BY <1>3 DEF ProtectedEnvelopeV1
  <2> QED
    BY <1>1, <2>1 DEF ProtectedEnvelopeV1
<1>4. ASSUME NEW kind \in ProtectedObjectKind
      PROVE  [Rebound(e, direction, b) EXCEPT !.kind = kind] \in ProtectedEnvelopeV1
  BY <1>1 DEF ProtectedEnvelopeV1
<1> QED
  BY <1>1, <1>2, <1>3, <1>4 DEF GatewayAnswer, WrongAnswers

\* What gets past decodeReencryptResponse.
LEMMA ToTarget ==
  ASSUME NEW b \in Nat, NEW e, NEW reply, reencryptToTarget(b, e, reply) # Failed
  PROVE  /\ reencryptToTarget(b, e, reply) = reply /\ decodes(reply)
         /\ reply.direction = "GatewayToTarget" /\ reply.bindingId = b /\ reply.kind = e.kind
         /\ reply.correlationKind = e.correlationKind /\ reply.correlation = e.correlation
BY DEF reencryptToTarget, decodeReencryptResponse

LEMMA SourceTypes ==
  /\ SourceProtectedCode \in ProtectedEnvelopeV1
  /\ SourceProtectedCode.kind = "Code" /\ SourceProtectedCode.correlationKind = "CodeObject"
  /\ \A a \in Activation \ (Malformed \cup rescheduled) :
       /\ Content(a) \in ProtectedEnvelopeV1 /\ Content(a).bindingId = SourceBinding
       /\ Content(a).kind = "Input" /\ Content(a).correlationKind = "RequestId"
       /\ Content(a).correlation = a
  /\ \A a \in Malformed \cup rescheduled : Content(a) = None
<1>1. {"SourceToGateway", "GatewayToTarget", "TargetToGateway", "GatewayToSource"} = DOMAIN ivDomain
  BY DEF ivDomain
<1>2. SourceProtectedCode \in ProtectedEnvelopeV1
  BY <1>1, DispatchConstants
     DEF SourceProtectedCode, ProtectedEnvelopeV1, ProtectedObjectKind, ProtectedCorrelationKind
<1>3. \A a \in Activation \ (Malformed \cup rescheduled) : Content(a) \in ProtectedEnvelopeV1
  BY <1>1, DispatchConstants
     DEF Content, ProtectedEnvelopeV1, ProtectedObjectKind, ProtectedCorrelationKind
<1> QED
  BY <1>2, <1>3 DEF SourceProtectedCode, Content

\* The reply a dispatch waits for.
LEMMA CodeReply ==
  ASSUME QueueInv, Contents, NEW d \in pending, d.step = "code", Prepare(d)
  PROVE  \E reply \in ProtectedEnvelopeV1 \cup {Failed} : reencryptCode(d, reply)
<1> DEFINE b == request[d.pull].targetBindingId
<1>1. b \in Nat
  BY DEF QueueInv, DispatchTypeOK, Dispatch, Request
<1>2. "GatewayToTarget" \in DOMAIN ivDomain
  BY DEF ivDomain
<1>3. /\ GatewayAnswer(SourceProtectedCode, "GatewayToTarget", b, b \in active)
            \in ProtectedEnvelopeV1 \cup {Failed}
      /\ WrongAnswers(SourceProtectedCode, "GatewayToTarget", b)
            \subseteq ProtectedEnvelopeV1 \cup {Failed}
  <2>1. (b \in active) \in BOOLEAN
    OBVIOUS
  <2> HIDE DEF b
  <2> QED
    BY <1>1, <1>2, <2>1, SourceTypes, AnswersType
<1>4. \/ reencryptCode(d, GatewayAnswer(SourceProtectedCode, "GatewayToTarget", b, b \in active))
      \/ \E reply \in WrongAnswers(SourceProtectedCode, "GatewayToTarget", b) : reencryptCode(d, reply)
  BY DEF Prepare, prepare, Answers
<1> QED
  BY <1>3, <1>4

LEMMA InputReply ==
  ASSUME QueueInv, Contents, NEW d \in pending, d.step = "input", Prepare(d)
  PROVE  \E reply \in ProtectedEnvelopeV1 \cup {Failed} : reencryptInput(d, reply)
<1> DEFINE b == request[d.pull].targetBindingId
           e == Content(d.entry)
<1>1. b \in Nat
  BY DEF QueueInv, DispatchTypeOK, Dispatch, Request
<1>2. e \in ProtectedEnvelopeV1
  <2>1. d.entry \in Activation \ (Malformed \cup rescheduled)
    BY DEF QueueInv, DispatchTypeOK, Dispatch, Contents, FitDispatch
  <2> QED
    BY <2>1, SourceTypes
<1>3. "GatewayToTarget" \in DOMAIN ivDomain
  BY DEF ivDomain
<1>4. /\ GatewayAnswer(e, "GatewayToTarget", b, b \in active) \in ProtectedEnvelopeV1 \cup {Failed}
      /\ WrongAnswers(e, "GatewayToTarget", b) \subseteq ProtectedEnvelopeV1 \cup {Failed}
  <2>1. (b \in active) \in BOOLEAN
    OBVIOUS
  <2> HIDE DEF b, e
  <2> QED
    BY <1>1, <1>2, <1>3, <2>1, AnswersType
<1>5. \/ reencryptInput(d, GatewayAnswer(e, "GatewayToTarget", b, b \in active))
      \/ \E reply \in WrongAnswers(e, "GatewayToTarget", b) : reencryptInput(d, reply)
  BY DEF Prepare, prepare, Answers
<1> QED
  BY <1>4, <1>5

\* A dispatch that ends.
LEMMA FinishType ==
  ASSUME QueueInv, NEW d \in pending, NEW result \in TargetDispatch \cup {Failed},
         Finish(d, result),
         \/ result = Failed
         \/ FitContent(result, d.entry, request[d.pull]) /\ d.entry \notin rescheduled
  PROVE  \E e \in Dispatch :
           /\ Advance(d, e) /\ e.entry = d.entry /\ e.pull = d.pull /\ e.waiting = d.waiting
           /\ (e.step = "completed" => e.result # None) /\ FitDispatch(e)
           /\ (e.entry \in rescheduled => e.result \in {None, Failed})
<1> DEFINE e == [d EXCEPT !.step = "completed", !.result = result]
<1>1. d \in Dispatch /\ Advance(d, e)
  BY DEF QueueInv, DispatchTypeOK, Finish
<1>2. result # None
  BY NoneIsNoValue
<1>3. e \in Dispatch
  BY <1>1 DEF Dispatch
<1>4. /\ e.entry = d.entry /\ e.pull = d.pull /\ e.waiting = d.waiting
      /\ e.step = "completed" /\ e.result = result
  BY <1>1 DEF Dispatch
<1> HIDE DEF e
<1>5. FitDispatch(e) /\ (e.entry \in rescheduled => e.result \in {None, Failed})
  BY <1>4 DEF FitDispatch
<1> QED
  BY <1>1, <1>2, <1>3, <1>4, <1>5

\* What a dispatch hands out is of its type.
LEMMA DispatchType ==
  ASSUME NEW b \in Nat, NEW s \in Nat, NEW warmed \in BOOLEAN,
         NEW input \in ProtectedEnvelopeV1, NEW code \in ProtectedEnvelopeV1 \cup {None}
  PROVE  targetDispatch(b, s, Revision, warmed, input, code) \in TargetDispatch
BY DEF targetDispatch, TargetDispatch

\* Each step of the dispatcher ends the dispatch or moves it on, with what it needs.
LEMMA PrepareAdvances ==
  ASSUME QueueInv, Contents, NEW d \in pending, Prepare(d)
  PROVE  \E e \in Dispatch :
           /\ Advance(d, e) /\ e.entry = d.entry /\ e.pull = d.pull /\ e.waiting = d.waiting
           /\ (e.step = "completed" => e.result # None) /\ FitDispatch(e)
           /\ (e.entry \in rescheduled => e.result \in {None, Failed})
<1>1. /\ d \in Dispatch /\ d.entry \in Activation /\ d.pull \in Pull
      /\ request[d.pull] \in Request /\ FitDispatch(d)
      /\ d.entry \in rescheduled => d.result \in {None, Failed}
  BY DEF QueueInv, DispatchTypeOK, Dispatch, Dispatches, Contents
<1>2. CASE d.step = "prepare"
  <2>1. \E found \in BOOLEAN : prepare(d, found)
    BY <1>2 DEF Prepare
  <2>2. d.code = None
    BY <1>1, <1>2 DEF FitDispatch
  <2>3. CASE Finish(d, Failed)
    BY <2>3, FinishType
  <2>4. CASE ~Refused(d) /\ request[d.pull].warmed /\ Advance(d, [d EXCEPT !.step = "input"])
    <3> DEFINE e == [d EXCEPT !.step = "input"]
    <3>1. e \in Dispatch
      BY <1>1 DEF Dispatch
    <3>2. /\ e.entry = d.entry /\ e.pull = d.pull /\ e.waiting = d.waiting
          /\ e.step = "input" /\ e.code = None /\ e.result = d.result
      BY <1>1, <2>2 DEF Dispatch
    <3>3. Advance(d, e)
      BY <2>4
    <3>4. request[d.pull].targetBindingId # 0 /\ d.entry \notin Malformed \cup rescheduled
      BY <2>4, SourceTypes DEF Refused, sourceInput
    <3> HIDE DEF e
    <3>5. FitDispatch(e)
      BY <2>4, <3>2, <3>4 DEF FitDispatch, FitCode
    <3> QED
      BY <1>1, <3>1, <3>2, <3>3, <3>5
  <2>5. CASE ~Refused(d) /\ ~request[d.pull].warmed /\ Advance(d, [d EXCEPT !.step = "code"])
    <3> DEFINE e == [d EXCEPT !.step = "code"]
    <3>1. e \in Dispatch
      BY <1>1 DEF Dispatch
    <3>2. /\ e.entry = d.entry /\ e.pull = d.pull /\ e.waiting = d.waiting
          /\ e.step = "code" /\ e.result = d.result
      BY <1>1 DEF Dispatch
    <3>3. Advance(d, e)
      BY <2>5
    <3>4. request[d.pull].targetBindingId # 0 /\ d.entry \notin Malformed \cup rescheduled
      BY <2>5, SourceTypes DEF Refused, sourceInput
    <3> HIDE DEF e
    <3>5. FitDispatch(e)
      BY <2>5, <3>2, <3>4 DEF FitDispatch
    <3> QED
      BY <1>1, <3>1, <3>2, <3>3, <3>5
  <2> QED
    BY <2>1, <2>3, <2>4, <2>5 DEF prepare
<1>3. CASE d.step = "code"
  <2>1. PICK reply \in ProtectedEnvelopeV1 \cup {Failed} : reencryptCode(d, reply)
    BY <1>3, CodeReply
  <2> DEFINE r == request[d.pull]
             code == reencryptToTarget(r.targetBindingId, SourceProtectedCode, reply)
  <2>2. CASE code = Failed
    BY <2>1, <2>2, FinishType DEF reencryptCode
  <2>3. CASE code # Failed
    <3> DEFINE e == [d EXCEPT !.step = "input", !.code = code]
    <3>1. /\ code \in ProtectedEnvelopeV1 /\ decodes(code) /\ code.direction = "GatewayToTarget"
          /\ code.bindingId = r.targetBindingId
          /\ code.kind = "Code" /\ code.correlationKind = "CodeObject"
      <4>1. r.targetBindingId \in Nat
        BY <1>1 DEF Request
      <4>2. /\ code = reply /\ decodes(reply) /\ reply.direction = "GatewayToTarget"
            /\ reply.bindingId = r.targetBindingId
            /\ reply.kind = SourceProtectedCode.kind
            /\ reply.correlationKind = SourceProtectedCode.correlationKind
        BY <2>3, <4>1, ToTarget
      <4> QED
        BY <2>3, <4>2, SourceTypes
    <3>2. Advance(d, e)
      BY <2>1, <2>3 DEF reencryptCode
    <3>3. /\ r.targetBindingId # 0 /\ ~r.warmed /\ d.entry \notin Malformed \cup rescheduled
      BY <1>1, <1>3 DEF FitDispatch
    <3> HIDE DEF code
    <3>4. e \in Dispatch
      BY <1>1, <3>1 DEF Dispatch
    <3>5. /\ e.entry = d.entry /\ e.pull = d.pull /\ e.waiting = d.waiting
          /\ e.step = "input" /\ e.code = code /\ e.result = d.result
      BY <1>1 DEF Dispatch
    <3> HIDE DEF e
    <3>6. FitCode(code, r)
      BY <3>1, <3>3 DEF FitCode, requireTargetEnvelope
    <3>7. FitDispatch(e)
      BY <3>3, <3>5, <3>6 DEF FitDispatch
    <3> QED
      BY <1>1, <3>2, <3>4, <3>5, <3>7
  <2> QED
    BY <2>2, <2>3
<1>4. CASE d.step = "input"
  <2>1. PICK reply \in ProtectedEnvelopeV1 \cup {Failed} : reencryptInput(d, reply)
    BY <1>4, InputReply
  <2> DEFINE r == request[d.pull]
             input == reencryptToTarget(r.targetBindingId, Content(d.entry), reply)
             content == targetDispatch(r.targetBindingId, Content(d.entry).bindingId, Revision,
                                       r.warmed, input, d.code)
  <2>2. CASE input = Failed
    BY <2>1, <2>2, FinishType DEF reencryptInput
  <2>3. CASE input # Failed
    <3>1. Finish(d, content)
      BY <2>1, <2>3 DEF reencryptInput
    <3>2. d.entry \in Activation \ (Malformed \cup rescheduled) /\ r.targetBindingId \in Nat /\ r.warmed \in BOOLEAN
      BY <1>1, <1>4 DEF FitDispatch, Request
    <3>3. FitCode(d.code, r) /\ d.code \in ProtectedEnvelopeV1 \cup {None}
      BY <1>1, <1>4 DEF FitDispatch, Dispatch
    <3>4. /\ input \in ProtectedEnvelopeV1 /\ decodes(input) /\ input.direction = "GatewayToTarget"
          /\ input.bindingId = r.targetBindingId /\ input.correlation = d.entry
          /\ input.kind = "Input" /\ input.correlationKind = "RequestId"
      <4>1. /\ input = reply /\ decodes(reply) /\ reply.direction = "GatewayToTarget"
            /\ reply.bindingId = r.targetBindingId
            /\ reply.kind = Content(d.entry).kind
            /\ reply.correlationKind = Content(d.entry).correlationKind
            /\ reply.correlation = Content(d.entry).correlation
        BY <2>3, <3>2, ToTarget
      <4> QED
        BY <2>3, <3>2, <4>1, SourceTypes
    <3> HIDE DEF input
    <3>5. Content(d.entry).bindingId = SourceBinding /\ SourceBinding \in Nat
      BY <3>2, SourceTypes, DispatchConstants
    <3>6. content \in TargetDispatch
      <4>1. /\ r.targetBindingId \in Nat /\ Content(d.entry).bindingId \in Nat
            /\ r.warmed \in BOOLEAN
        BY <3>2, <3>5
      <4>2. input \in ProtectedEnvelopeV1 /\ d.code \in ProtectedEnvelopeV1 \cup {None}
        BY <3>3, <3>4
      <4> QED
        BY <4>1, <4>2, DispatchType
    <3>7. /\ content.targetBindingId = r.targetBindingId /\ content.sourceBindingId = SourceBinding
          /\ content.exactRevision = Revision /\ content.warmed = r.warmed
          /\ content.targetInput = input /\ content.targetCode = d.code
      BY <3>5 DEF targetDispatch
    <3> HIDE DEF content
    <3>8. FitContent(content, d.entry, r)
      BY <3>3, <3>4, <3>6, <3>7 DEF FitContent, requireTargetEnvelope
    <3> QED
      BY <3>1, <3>2, <3>6, <3>8, FinishType
  <2> QED
    BY <2>2, <2>3
<1>5. d.step # "completed"
  BY DEF Prepare, prepare
<1> QED
  BY <1>1, <1>2, <1>3, <1>4, <1>5 DEF Dispatch

-----------------------------------------------------------------------------
(* What is handed out fits what was asked for. *)

LEMMA KeepContents ==
  ASSUME Contents, \A d \in pending : d.entry \in rescheduled' => d.entry \in rescheduled,
         \A d \in pending : request'[d.pull] = request[d.pull],
         \A p \in Answered : request'[p] = request[p],
         \A d \in pending' : d \in pending \/ FitDispatch(d)',
         \A p \in Answered' :
           \/ p \in Answered /\ answer'[p] = answer[p]
           \/ FitContent(answer'[p].content, answer'[p].activation, request'[p])
  PROVE  Contents'
<1>1. \A d \in pending' : FitDispatch(d)'
  BY DEF Contents, FitDispatch
<1>2. \A p \in Answered' : FitContent(answer'[p].content, answer'[p].activation, request'[p])
  BY DEF Contents
<1> QED
  BY <1>1, <1>2 DEF Contents

LEMMA ArriveContents ==
  ASSUME Contents, NEW a \in Activation, handleActivationMessage(a),
         \A d \in pending : d.entry \in rescheduled' => d.entry \in rescheduled
  PROVE  Contents'
<1>1. UNCHANGED <<request, ask, answer>>
  BY DEF handleActivationMessage
<1>2. \A d \in pending' : d \in pending \/ (d.step = "prepare" /\ d.code = None)
  BY DEF handleActivationMessage, beginActivationDispatch
<1>3. \A d \in pending' : d \in pending \/ FitDispatch(d)'
  BY <1>2 DEF FitDispatch
<1> QED
  BY <1>1, <1>3, AnsweredKept, KeepContents

LEMMA RearriveContents ==
  ASSUME QueueInv, Contents, NEW a \in Activation, Rearrives(a), a \in Handed, a \notin rescheduled
  PROVE  Contents' /\ QueueInv' /\ Resending(a) /\ Sent' \subseteq Sent
<1>1. QueueInv' /\ Resending(a) /\ Sent' \subseteq Sent
  BY RearriveQueueInv
<1>2. \A d \in pending : d.entry \in rescheduled' => d.entry \in rescheduled
  BY <1>1 DEF Resending, Dispatching
<1> QED
  BY <1>1, <1>2, ArriveContents DEF Rearrives

LEMMA QueueStepContents ==
  ASSUME QueueInv, Contents,
         \/ NewArrives
         \/ \E p \in Pull : \/ handleActivationRequest(p) \/ TimerFires(p)
                            \/ CancelPoll(p) \/ AskTimesOut(p)
  PROVE  Contents' /\ QueueInv' /\ Passage /\ Sent' \subseteq Sent
<1>1. QueueInv' /\ Passage /\ Sent' \subseteq Sent
  BY ArriveQueueInv, RequestQueueInv, TimerQueueInv, CancelQueueInv, ExpireQueueInv
<1>2. CASE NewArrives
  <2>1. handleActivationMessage(arrived + 1) /\ UNCHANGED rescheduled
    BY <1>2 DEF NewArrives
  <2>2. arrived + 1 \in Activation
    BY <1>2, DispatchConstants DEF NewArrives, QueueInv, DispatchTypeOK, Activation
  <2> QED
    BY <1>1, <2>1, <2>2, ArriveContents
<1>3. ASSUME NEW p \in Pull, \/ handleActivationRequest(p) \/ TimerFires(p)
                             \/ CancelPoll(p) \/ AskTimesOut(p)
      PROVE  Contents'
  <2>1. UNCHANGED <<request, rescheduled>>
    BY <1>3 DEF handleActivationRequest, TimerFires, CancelPoll, AskTimesOut
  <2>2. \A d \in pending' : d \in pending \/ (d.step = "prepare" /\ d.code = None)
    BY <1>3 DEF handleActivationRequest, TimerFires, CancelPoll, AskTimesOut, beginActivationDispatch
  <2>3. \A d \in pending' : d \in pending \/ FitDispatch(d)'
    BY <2>2 DEF FitDispatch
  <2>4. \A q \in Answered' : q \in Answered /\ answer'[q] = answer[q]
    <3>1. CASE TimerFires(p) \/ handleActivationRequest(p)
      BY <3>1, AnsweredKept DEF TimerFires, handleActivationRequest
    <3>2. CASE CancelPoll(p) \/ AskTimesOut(p)
      <4>1. \/ UNCHANGED <<ask, answer>>
            \/ /\ ask[p] = "asking" /\ answer' = [answer EXCEPT ![p] = NoActivationMessage]
               /\ ask' \in {[ask EXCEPT ![p] = "answered"], [ask EXCEPT ![p] = "expired"]}
        BY <3>2 DEF CancelPoll, AskTimesOut, Recovered, TrySuccess, Reply
      <4>2. CASE UNCHANGED <<ask, answer>>
        BY <4>2, AnsweredKept
      <4>3. CASE ~UNCHANGED <<ask, answer>>
        <5>1. /\ Answered' = Answered /\ p \notin Answered
              /\ \A q \in Pull \ {p} : answer'[q] = answer[q]
          BY <4>1, <4>3, Unavailing DEF QueueInv
        <5> QED
          BY <5>1 DEF Answered
      <4> QED
        BY <4>2, <4>3
    <3> QED
      BY <1>3, <3>1, <3>2
  <2> QED
    BY <2>1, <2>3, <2>4, KeepContents
<1> QED
  BY <1>1, <1>2, <1>3

LEMMA fetchContents ==
  ASSUME QueueInv, Contents, NEW p \in Pull, NEW r \in Request, fetchActivation(p, r)
  PROVE  Contents'
<1>1. /\ ask[p] = "unused" /\ request' = [request EXCEPT ![p] = r]
      /\ UNCHANGED <<pending, answer, rescheduled>>
      /\ ask' = [ask EXCEPT ![p] = "asking"]
  BY DEF fetchActivation
<1>2. request[p] = None
  BY <1>1 DEF QueueInv, Pulls
<1>3. \A q \in Pull \ {p} : request'[q] = request[q]
  BY <1>1 DEF QueueInv, DispatchTypeOK
<1>4. \A d \in pending : d.pull \in Pull \ {p}
  BY <1>2 DEF QueueInv, DispatchTypeOK, Dispatch
<1>5. Answered' = Answered /\ p \notin Answered
  BY <1>1 DEF Answered, QueueInv, DispatchTypeOK
<1>6. \A q \in Answered : q \in Pull \ {p}
  BY <1>5 DEF Answered
<1> QED
  BY <1>1, <1>3, <1>4, <1>5, <1>6, KeepContents

LEMMA PrepareContents ==
  ASSUME QueueInv, Contents, NEW d \in pending, Prepare(d)
  PROVE  Contents' /\ QueueInv' /\ Passage /\ Sent' \subseteq Sent
<1>1. PICK e \in Dispatch :
         /\ Advance(d, e) /\ e.entry = d.entry /\ e.pull = d.pull /\ e.waiting = d.waiting
         /\ (e.step = "completed" => e.result # None) /\ FitDispatch(e)
         /\ (e.entry \in rescheduled => e.result \in {None, Failed})
  BY PrepareAdvances
<1>2. QueueInv' /\ Passage /\ Sent' \subseteq Sent
  BY <1>1, AdvanceQueueInv
<1>3. pending' = (pending \ {d}) \cup {e} /\ UNCHANGED <<request, ask, answer, rescheduled>>
  BY <1>1 DEF Advance
<1>4. \A f \in pending' : f \in pending \/ FitDispatch(f)'
  BY <1>1, <1>3 DEF FitDispatch
<1> QED
  BY <1>2, <1>3, <1>4, AnsweredKept, KeepContents

LEMMA CompleteContents ==
  ASSUME QueueInv, Contents, NEW d \in pending, completeActivationDispatch(d)
  PROVE  Contents' /\ QueueInv' /\ Passage /\ Sent' \subseteq Sent
<1>1. CASE d.result # Failed
  <2>1. /\ QueueInv' /\ Passage /\ Sent' \subseteq Sent
        /\ UNCHANGED <<request, rescheduled>> /\ pending' = pending \ {d}
        /\ \A p \in Pull \ {d.pull} : ask'[p] = ask[p] /\ answer'[p] = answer[p]
        /\ d.pull \notin Answered
        /\ \/ /\ answer'[d.pull] = Message(d.entry, d.result)
              /\ Answered' = Answered \cup {d.pull}
           \/ UNCHANGED <<ask, answer>>
    BY <1>1, SucceedQueueInv
  <2>2. FitContent(d.result, d.entry, request[d.pull])
    BY <1>1 DEF completeActivationDispatch, Contents, FitDispatch
  <2>3. /\ Message(d.entry, d.result).activation = d.entry
        /\ Message(d.entry, d.result).content = d.result
    BY DEF Message
  <2>4. \A p \in Answered' :
          \/ p \in Answered /\ answer'[p] = answer[p]
          \/ FitContent(answer'[p].content, answer'[p].activation, request'[p])
    <3>1. CASE UNCHANGED <<ask, answer>>
      BY <3>1, AnsweredKept
    <3>2. CASE answer'[d.pull] = Message(d.entry, d.result) /\ Answered' = Answered \cup {d.pull}
      <4>1. \A p \in Answered : p \in Pull \ {d.pull}
        BY <2>1 DEF Answered
      <4> QED
        BY <2>1, <2>2, <2>3, <3>2, <4>1
    <3> QED
      BY <2>1, <3>1, <3>2
  <2> QED
    BY <2>1, <2>4, KeepContents
<1>2. CASE d.result = Failed
  <2>1. /\ QueueInv' /\ Passage /\ Sent' \subseteq Sent
        /\ UNCHANGED <<request, rescheduled>> /\ pending' = pending \ {d} /\ Answered' = Answered
        /\ \A p \in Pull \ {d.pull} : ask'[p] = ask[p] /\ answer'[p] = answer[p]
        /\ answer'[d.pull] = TargetReencryptionError \/ UNCHANGED <<ask, answer>>
    BY <1>2, FailQueueInv
  <2>2. \A p \in Answered' : p \in Answered /\ answer'[p] = answer[p]
    <3>1. TargetReencryptionError.kind # "ActivationMessage"
      BY DEF TargetReencryptionError
    <3>2. CASE answer'[d.pull] = TargetReencryptionError
      <4>1. \A p \in Answered' : p \in Pull \ {d.pull}
        BY <3>1, <3>2 DEF Answered
      <4> QED
        BY <2>1, <4>1
    <3> QED
      BY <2>1, <3>2, AnsweredKept
  <2> QED
    BY <2>1, <2>2, KeepContents
<1> QED
  BY <1>1, <1>2

-----------------------------------------------------------------------------
(* The containers. *)

LEMMA PullContainer == ASSUME NEW p \in Pull PROVE p[1] \in Container
BY PullsOfContainers

LEMMA OutstandingIsOut ==
  ASSUME NEW c \in Container
  PROVE  Outstanding(c) = {p \in Pull : p[1] = c /\ IsOut(p)}
BY DEF Outstanding, PullsOf, IsOut

\* A step that the containers do not take.
LEMMA OthersProxyInv ==
  ASSUME ProxyInv, UNCHANGED <<heard, running, warm, rescheduling, report, outcome, stage, target>>,
         Sent' \subseteq Sent, \A p \in Pull : request'[p] = request[p]
  PROVE  ProxyInv'
<1>1. \A p \in Pull : IsOut(p)' => IsOut(p)
  BY DEF Sent, IsOut
<1>2. \A c \in Container : Asked(c)' = Asked(c)
  BY DEF Asked
<1>3. \A c \in Container : \A m \in running[c] :
        FitContent(m.content, m.activation, Asked(c)) => FitContent(m.content, m.activation, Asked(c))'
  BY <1>2 DEF FitContent, FitCode
<1>4. Proxies'
  <2>1. \A p \in Pull : IsOut(p)' => stage'[p[1]] = "ready" /\ request'[p] = Asked(p[1])'
    BY <1>1, <1>2, PullContainer DEF ProxyInv, Proxies
  <2>2. /\ \A p, q \in Pull : IsOut(p)' /\ IsOut(q)' /\ p[1] = q[1] => p = q
        /\ \A c \in Container : running'[c] # {} => stage'[c] \in {"ready", "removing"}
        /\ \A c \in Container \ warm' :
             /\ \A p \in Pull : p[1] = c /\ IsOut(p)' => running'[c] = {}
             /\ \A m, n \in running'[c] : m = n
    BY <1>1 DEF ProxyInv, Proxies
  <2>3. \A c \in Container : \A m \in running'[c] : FitContent(m.content, m.activation, Asked(c))'
    BY <1>3 DEF ProxyInv, Proxies
  <2> QED
    BY <2>1, <2>2, <2>3 DEF Proxies
<1> QED
  BY <1>4 DEF ProxyInv, ProxyTypeOK, Results, OwnResult

\* A step of a container that does nothing else and waits for nothing.
LEMMA IdleProxyInv ==
  ASSUME ProxyInv, NEW c \in Container, running[c] = {}, \A p \in Pull : p[1] = c => ~IsOut(p),
         UNCHANGED <<heard, running, warm, rescheduling, report, outcome, ask, request>>,
         \A b \in Container \ {c} : stage'[b] = stage[b] /\ target'[b] = target[b]
  PROVE  ProxyInv'
<1>1. \A p \in Pull : IsOut(p)' <=> IsOut(p)
  BY DEF IsOut
<1>2. \A b \in Container \ {c} : Asked(b)' = Asked(b)
  BY DEF Asked
<1>3. \A p \in Pull : IsOut(p)' => stage'[p[1]] = "ready" /\ request'[p] = Asked(p[1])'
  BY <1>1, <1>2, PullContainer DEF ProxyInv, Proxies
<1>4. /\ \A p, q \in Pull : IsOut(p)' /\ IsOut(q)' /\ p[1] = q[1] => p = q
      /\ \A b \in Container : running'[b] # {} => stage'[b] \in {"ready", "removing"}
      /\ \A b \in Container \ warm' :
           /\ \A p \in Pull : p[1] = b /\ IsOut(p)' => running'[b] = {}
           /\ \A m, n \in running'[b] : m = n
  BY <1>1 DEF ProxyInv, Proxies
<1>5. ASSUME NEW b \in Container, NEW m \in running'[b]
      PROVE  FitContent(m.content, m.activation, Asked(b))'
  <2>1. b # c /\ Asked(b)' = Asked(b) /\ FitContent(m.content, m.activation, Asked(b))
    BY <1>2, <1>5 DEF ProxyInv, Proxies
  <2> QED
    BY <2>1 DEF FitContent, FitCode
<1> QED
  BY <1>3, <1>4, <1>5 DEF ProxyInv, Proxies, ProxyTypeOK, Results, OwnResult

LEMMA RemoveProxyInv ==
  ASSUME BindInv, ProxyInv, NEW c \in Container, RemoveIdle(c) \/ ClientClosed(c) \/ LifecycleStep(c)
  PROVE  ProxyInv' /\ BindInv' /\ UNCHANGED dispatchVars
<1>1. BindInv'
  BY RemovesIInv, LifecycleIInv DEF RemoveIdle, ClientClosed, LifecycleStep
<1>2. UNCHANGED dispatchVars /\ UNCHANGED <<heard, running, warm, rescheduling, report, outcome, ask, request>>
  BY DEF RemoveIdle, ClientClosed, LifecycleStep, dispatchVars, proxyVars
<1>3. running[c] = {} /\ \A p \in Pull : p[1] = c => ~IsOut(p)
  <2>1. CASE RemoveIdle(c)
    BY <2>1, OutstandingIsOut DEF RemoveIdle
  <2>2. CASE ClientClosed(c)
    BY <2>2 DEF ClientClosed, MayClose, beginTargetBoundRemoval, ProxyInv, Proxies
  <2>3. CASE LifecycleStep(c)
    <3>1. stage[c] \notin {"ready", "removing"}
      BY <2>3 DEF LifecycleStep, Lifecycle, Bind, BindFails, BindUnparsed, Register, RegisterFails,
                  Activate, ActivateFails, CloseTarget, Unbind
    <3> QED
      BY <3>1 DEF ProxyInv, Proxies
  <2> QED
    BY <2>1, <2>2, <2>3
<1>4. \A b \in Container \ {c} : stage'[b] = stage[b] /\ target'[b] = target[b]
  <2>1. CASE RemoveIdle(c)
    BY <2>1 DEF RemoveIdle, cleanUp, GoTo, BindInv, BindingTypeOK
  <2>2. CASE ClientClosed(c)
    BY <2>2 DEF ClientClosed, beginTargetBoundRemoval, GoTo, BindInv, BindingTypeOK
  <2>3. CASE LifecycleStep(c)
    BY <2>3 DEF LifecycleStep, Lifecycle, Bind, BindFails, BindUnparsed, Register, RegisterFails,
                Activate, ActivateFails, CloseTarget, Unbind, GoTo, BindInv, BindingTypeOK
  <2> QED
    BY <2>1, <2>2, <2>3
<1> QED
  BY <1>1, <1>2, <1>3, <1>4, IdleProxyInv

LEMMA requestProxyInv ==
  ASSUME BindInv, QueueInv, ProxyInv, NEW p \in Pull, requestActivation(p)
  PROVE  /\ ProxyInv'
         /\ \E r \in Request : fetchActivation(p, r)
         /\ UNCHANGED bindingVars
<1> DEFINE c == p[1]
<1>1. c \in Container
  BY PullContainer
<1>2. /\ stage[c] = "ready" /\ \A q \in Pull : q[1] = c => ~IsOut(q)
      /\ running[c] = {} \/ c \in warm
      /\ fetchActivation(p, Asked(c)) /\ UNCHANGED <<bindingVars, proxyVars>>
  BY <1>1, OutstandingIsOut DEF requestActivation, RoomFor, Asked
<1>3. Asked(c) \in Request
  <2>1. target[c] \in Nat /\ (c \in warm) \in BOOLEAN
    BY <1>1, BindingBounds DEF BindInv, BindingTypeOK
  <2> QED
    BY <2>1 DEF Asked, Request
<1>4. /\ ask' = [ask EXCEPT ![p] = "asking"] /\ request' = [request EXCEPT ![p] = Asked(c)]
      /\ UNCHANGED <<heard, running, warm, rescheduling, report, outcome, stage, target>>
  BY <1>2 DEF fetchActivation, bindingVars, proxyVars
<1>5. \A q \in Pull \ {p} : (IsOut(q)' <=> IsOut(q)) /\ request'[q] = request[q]
  BY <1>4 DEF QueueInv, DispatchTypeOK, IsOut
<1>6. request'[p] = Asked(c)
  BY <1>4 DEF QueueInv, DispatchTypeOK
<1>7. \A b \in Container : Asked(b)' = Asked(b)
  BY <1>4 DEF Asked
<1>8. Proxies'
  <2>1. \A q \in Pull : IsOut(q)' => stage'[q[1]] = "ready" /\ request'[q] = Asked(q[1])'
    BY <1>1, <1>2, <1>4, <1>5, <1>6, <1>7, PullContainer DEF ProxyInv, Proxies
  <2>2. \A q, s \in Pull : IsOut(q)' /\ IsOut(s)' /\ q[1] = s[1] => q = s
    BY <1>2, <1>5 DEF ProxyInv, Proxies
  <2>3. /\ \A b \in Container : running'[b] # {} => stage'[b] \in {"ready", "removing"}
        /\ \A b \in Container \ warm' :
             /\ \A q \in Pull : q[1] = b /\ IsOut(q)' => running'[b] = {}
             /\ \A m, n \in running'[b] : m = n
    BY <1>2, <1>4, <1>5 DEF ProxyInv, Proxies
  <2>4. \A b \in Container : \A m \in running'[b] : FitContent(m.content, m.activation, Asked(b))'
    BY <1>4, <1>7 DEF ProxyInv, Proxies, FitContent, FitCode
  <2> QED
    BY <2>1, <2>2, <2>3, <2>4 DEF Proxies
<1> QED
  BY <1>2, <1>3, <1>4, <1>8 DEF ProxyInv, ProxyTypeOK, Results, OwnResult

\* What a container hears is for it, as it is.
LEMMA HearProxyInv ==
  ASSUME BindInv, QueueInv, Contents, ProxyInv, NEW p \in Pull, HearAnswer(p)
  PROVE  ProxyInv' /\ BindInv' /\ UNCHANGED dispatchVars
<1> DEFINE c == p[1]
           value == answer[p]
<1>1. c \in Container
  BY PullContainer
<1>2. IsOut(p) /\ ask[p] # "asking" /\ heard' = heard \cup {p}
  BY <1>1, OutstandingIsOut DEF HearAnswer
<1>3. stage[c] = "ready" /\ request[p] = Asked(c) /\ (c \notin warm => running[c] = {})
  BY <1>1, <1>2 DEF ProxyInv, Proxies
<1>4. \/ /\ value.kind = "ActivationMessage"
         /\ running' = [running EXCEPT ![c] = @ \cup {value}] /\ UNCHANGED stage
      \/ /\ UNCHANGED running
         /\ UNCHANGED stage \/ stage' = [stage EXCEPT ![c] = "removing"]
  BY DEF HearAnswer, cleanUp, GoTo
<1>5. /\ UNCHANGED <<dispatchVars, warm, rescheduling, report, outcome,
                     bridge, owner, active, target, paused, unready, unhealthy, lost, faults>>
  BY DEF HearAnswer, cleanUp
<1>6. BindInv'
  BY <1>1, <1>3, <1>4, <1>5, OtherBindIInv
<1>7. value.kind = "ActivationMessage" =>
        value \in ActivationMessage /\ FitContent(value.content, value.activation, Asked(c))
  <2> SUFFICES ASSUME value.kind = "ActivationMessage"
               PROVE  value \in ActivationMessage /\ FitContent(value.content, value.activation, Asked(c))
    OBVIOUS
  <2>1. ask[p] \in {"answered", "expired"}
    BY <1>2 DEF IsOut, QueueInv, DispatchTypeOK
  <2>2. /\ value # None
        /\ value \in ActivationMessage \cup {NoActivationMessage, TargetReencryptionError, None}
    BY <2>1 DEF QueueInv, DispatchTypeOK
  <2>3. value # NoActivationMessage /\ value # TargetReencryptionError
    BY DEF NoActivationMessage, TargetReencryptionError
  <2>4. p \in Answered
    BY <2>1, <2>3 DEF QueueInv, Pulls, Answered
  <2> QED
    BY <1>3, <2>2, <2>3, <2>4 DEF Contents
<1> HIDE DEF value
<1>8. /\ \A q \in Pull : IsOut(q)' => IsOut(q) /\ q[1] # c
      /\ UNCHANGED <<ask, request>>
  BY <1>2, <1>5 DEF dispatchVars, IsOut, ProxyInv, Proxies
<1>9. \A b \in Container : Asked(b)' = Asked(b)
  BY <1>5 DEF Asked
<1>10. \A b \in Container \ {c} : stage'[b] = stage[b] /\ running'[b] = running[b]
  BY <1>4 DEF BindInv, BindingTypeOK, ProxyInv, ProxyTypeOK
<1>11. /\ stage'[c] \in {"ready", "removing"}
       /\ \/ running'[c] = running[c]
          \/ running'[c] = running[c] \cup {value} /\ value.kind = "ActivationMessage"
  BY <1>1, <1>3, <1>4 DEF BindInv, BindingTypeOK, ProxyInv, ProxyTypeOK
<1>12. ProxyTypeOK'
  <2>1. running' \in [Container -> SUBSET ActivationMessage]
    BY <1>1, <1>4, <1>7 DEF ProxyInv, ProxyTypeOK
  <2> QED
    BY <1>2, <1>5, <2>1 DEF ProxyInv, ProxyTypeOK
<1>13. Proxies'
  <2>1. \A q \in Pull : IsOut(q)' => stage'[q[1]] = "ready" /\ request'[q] = Asked(q[1])'
    BY <1>8, <1>9, <1>10, PullContainer DEF ProxyInv, Proxies
  <2>2. \A q, s \in Pull : IsOut(q)' /\ IsOut(s)' /\ q[1] = s[1] => q = s
    BY <1>8 DEF ProxyInv, Proxies
  <2>3. \A b \in Container : running'[b] # {} => stage'[b] \in {"ready", "removing"}
    BY <1>10, <1>11 DEF ProxyInv, Proxies
  <2>4. \A b \in Container \ warm' :
           /\ \A q \in Pull : q[1] = b /\ IsOut(q)' => running'[b] = {}
           /\ \A m, n \in running'[b] : m = n
    BY <1>3, <1>5, <1>8, <1>10, <1>11 DEF ProxyInv, Proxies
  <2>5. ASSUME NEW b \in Container, NEW m \in running'[b]
        PROVE  FitContent(m.content, m.activation, Asked(b))'
    <3>1. FitContent(m.content, m.activation, Asked(b))
      BY <1>7, <1>10, <1>11, <2>5 DEF ProxyInv, Proxies
    <3> QED
      BY <1>9, <3>1 DEF FitContent, FitCode
  <2> QED
    BY <2>1, <2>2, <2>3, <2>4, <2>5 DEF Proxies
<1> QED
  BY <1>5, <1>6, <1>12, <1>13 DEF ProxyInv, Results, OwnResult

-----------------------------------------------------------------------------
(* Runs and results. *)

\* What gets past targetBoundRuntimeResponse.
LEMMA ResultOfRun ==
  ASSUME NEW d \in TargetDispatch,
         NEW response \in {RuntimeResponse(d)} \cup WrongResponses(d)
  PROVE  LET r == targetBoundRuntimeResponse(d, response) IN
         /\ r \in TargetResult \cup {Failed}
         /\ r # Failed => /\ r.targetEnvelope.correlation = d.targetInput.correlation
                          /\ r.sourceBindingId = d.sourceBindingId
<1>1. CASE response = Failed
  BY <1>1 DEF targetBoundRuntimeResponse
<1>2. CASE response # Failed
  <2> DEFINE e == [d.targetInput EXCEPT !.kind = "Result", !.direction = "TargetToGateway",
                                        !.iv = ivDomain["TargetToGateway"]]
  <2>1. /\ d.targetInput \in ProtectedEnvelopeV1 /\ d.targetInput.correlation \in Correlation
        /\ d.sourceBindingId \in Nat /\ d.targetBindingId \in Nat
    BY DEF TargetDispatch, ProtectedEnvelopeV1
  <2>2. e \in ProtectedEnvelopeV1
    <3>1. /\ "TargetToGateway" \in DOMAIN ivDomain /\ ivDomain["TargetToGateway"] \in {0, 1}
          /\ "Result" \in ProtectedObjectKind
      BY DEF ivDomain, ProtectedObjectKind
    <3> QED
      BY <2>1, <3>1 DEF ProtectedEnvelopeV1
  <2>3. RuntimeResponse(d) = [targetBindingId |-> d.targetBindingId,
                              requestIdHash |-> d.targetInput.correlation, envelope |-> e]
    BY DEF RuntimeResponse
  <2> HIDE DEF e
  <2>4. response.requestIdHash \in Correlation /\ response.envelope \in ProtectedEnvelopeV1
    <3>1. CASE response = RuntimeResponse(d)
      BY <2>1, <2>2, <2>3, <3>1
    <3>3. ASSUME NEW b \in {d.sourceBindingId, d.targetBindingId + 1},
                 response = [RuntimeResponse(d) EXCEPT !.targetBindingId = b, !.envelope.bindingId = b]
          PROVE  response.requestIdHash \in Correlation /\ response.envelope \in ProtectedEnvelopeV1
      <4>1. /\ response.requestIdHash = d.targetInput.correlation
            /\ response.envelope = [e EXCEPT !.bindingId = b]
        BY <2>3, <3>3
      <4>2. b \in Nat
        BY <2>1
      <4>3. [e EXCEPT !.bindingId = b] \in ProtectedEnvelopeV1
        BY <2>2, <4>2 DEF ProtectedEnvelopeV1
      <4> QED
        BY <2>1, <4>1, <4>3
    <3>4. ASSUME response = [RuntimeResponse(d) EXCEPT !.envelope = d.targetInput]
          PROVE  response.requestIdHash \in Correlation /\ response.envelope \in ProtectedEnvelopeV1
      BY <2>1, <2>3, <3>4
    <3>2. ASSUME NEW k \in Correlation,
                 response = [RuntimeResponse(d) EXCEPT !.requestIdHash = k,
                                                       !.envelope.correlation = k]
          PROVE  response.requestIdHash \in Correlation /\ response.envelope \in ProtectedEnvelopeV1
      <4>1. response.requestIdHash = k /\ response.envelope = [e EXCEPT !.correlation = k]
        BY <2>3, <3>2
      <4>2. [e EXCEPT !.correlation = k] \in ProtectedEnvelopeV1
        BY <2>2 DEF ProtectedEnvelopeV1
      <4> QED
        BY <4>1, <4>2
    <3> QED
      BY <1>2, <3>1, <3>2, <3>3, <3>4 DEF WrongResponses
  <2>5. targetResult(d, response) \in TargetResult
    BY <2>1, <2>4 DEF targetResult, TargetResult
  <2>6. /\ targetResult(d, response).targetEnvelope = response.envelope
        /\ targetResult(d, response).sourceBindingId = d.sourceBindingId
    BY DEF targetResult
  <2> QED
    BY <2>5, <2>6 DEF targetBoundRuntimeResponse
<1> QED
  BY <1>1, <1>2

LEMMA RunProxyInv ==
  ASSUME BindInv, QueueInv, ProxyInv, NEW c \in Container, NEW m \in running[c],
         RunActivation(c, m) \/ HealthError(c, m)
  PROVE  ProxyInv' /\ BindInv' /\ UNCHANGED dispatchVars
<1>1. /\ running' = [running EXCEPT ![c] = @ \ {m}]
      /\ warm' \in {warm, warm \cup {c}}
      /\ \/ UNCHANGED stage
         \/ /\ stage[c] = "ready" /\ \A p \in Pull : p[1] = c => ~IsOut(p)
            /\ stage' = [stage EXCEPT ![c] = "removing"]
      /\ UNCHANGED <<dispatchVars, heard, outcome,
                     bridge, owner, active, target, paused, unready, unhealthy, lost>>
      /\ rescheduling' \in {rescheduling, rescheduling \cup {m.activation}}
      /\ faults' = faults \/ Fault
  BY OutstandingIsOut DEF RunActivation, HealthError, MayEnd, GoTo
<1>2. BindInv'
  BY <1>1, OtherBindIInv
<1>3. /\ m \in ActivationMessage /\ m.content \in TargetDispatch /\ m.activation \in Activation
      /\ m.content.targetInput.correlation = m.activation
      /\ m.content.sourceBindingId = SourceBinding
  <2>1. m \in ActivationMessage /\ FitContent(m.content, m.activation, Asked(c))
    BY DEF ProxyInv, ProxyTypeOK, Proxies
  <2>2. m.activation \in Activation
    BY <2>1 DEF ActivationMessage
  <2> QED
    BY <2>1, <2>2 DEF FitContent
<1>4. \/ UNCHANGED report
      \/ \E r \in TargetResult \cup {Failed} :
           /\ report' = [report EXCEPT ![m.activation] = r]
           /\ r # Failed => /\ r.targetEnvelope.correlation = m.activation
                            /\ r.sourceBindingId = SourceBinding
  <2>3. CASE HealthError(c, m)
    BY <2>3 DEF HealthError
  <2>1. CASE report' = [report EXCEPT ![m.activation] = Failed]
    BY <2>1
  <2>2. ASSUME NEW response \in {RuntimeResponse(m.content)} \cup WrongResponses(m.content),
               report' = [report EXCEPT ![m.activation] =
                            targetBoundRuntimeResponse(m.content, response)]
        PROVE  \E r \in TargetResult \cup {Failed} :
                 /\ report' = [report EXCEPT ![m.activation] = r]
                 /\ r # Failed => /\ r.targetEnvelope.correlation = m.activation
                                  /\ r.sourceBindingId = SourceBinding
    <3> DEFINE d == m.content
               r == targetBoundRuntimeResponse(d, response)
    <3>1. /\ r \in TargetResult \cup {Failed}
          /\ r # Failed => /\ r.targetEnvelope.correlation = d.targetInput.correlation
                           /\ r.sourceBindingId = d.sourceBindingId
      <4>1. d \in TargetDispatch /\ response \in {RuntimeResponse(d)} \cup WrongResponses(d)
        BY <1>3, <2>2
      <4> HIDE DEF d
      <4> QED
        BY <4>1, ResultOfRun
    <3>2. report' = [report EXCEPT ![m.activation] = r]
      BY <2>2
    <3> HIDE DEF r
    <3> QED
      BY <1>3, <3>1, <3>2
  <2> QED
    BY <2>1, <2>2, <2>3 DEF RunActivation
<1>5. ProxyTypeOK' /\ Results' /\ OwnResult'
  <2>1. report' \in [Activation -> TargetResult \cup {None, Failed}] /\ Results'
    BY <1>3, <1>4 DEF ProxyInv, ProxyTypeOK, Results
  <2>2. running' \in [Container -> SUBSET ActivationMessage] /\ warm' \subseteq Container
    BY <1>1 DEF ProxyInv, ProxyTypeOK
  <2>3. rescheduling' \subseteq Activation
    BY <1>1, <1>3 DEF ProxyInv, ProxyTypeOK
  <2> QED
    BY <1>1, <2>1, <2>2, <2>3 DEF ProxyInv, ProxyTypeOK, OwnResult
<1>6. \A b \in Container \ {c} :
        /\ stage'[b] = stage[b] /\ running'[b] = running[b] /\ Asked(b)' = Asked(b)
  BY <1>1 DEF BindInv, BindingTypeOK, ProxyInv, ProxyTypeOK, Asked
<1>7. /\ \A p \in Pull : IsOut(p)' <=> IsOut(p)
      /\ UNCHANGED request
  BY <1>1 DEF dispatchVars, IsOut
<1>8. running'[c] = running[c] \ {m} /\ stage[c] \in {"ready", "removing"}
  BY <1>1 DEF ProxyInv, ProxyTypeOK, Proxies
<1>9. \/ stage'[c] = stage[c]
      \/ stage'[c] = "removing" /\ \A p \in Pull : p[1] = c => ~IsOut(p)
  BY <1>1 DEF BindInv, BindingTypeOK
<1>10. c \notin warm => running'[c] = {} /\ \A p \in Pull : p[1] = c => ~IsOut(p)
  BY <1>8 DEF ProxyInv, Proxies
<1>11. c \in warm => Asked(c)' = Asked(c)
  BY <1>1 DEF Asked
<1>12. Proxies'
  <2>1. \A p \in Pull : IsOut(p)' => stage'[p[1]] = "ready" /\ request'[p] = Asked(p[1])'
    BY <1>6, <1>7, <1>9, <1>10, <1>11, PullContainer DEF ProxyInv, Proxies
  <2>2. \A p, q \in Pull : IsOut(p)' /\ IsOut(q)' /\ p[1] = q[1] => p = q
    BY <1>7 DEF ProxyInv, Proxies
  <2>3. \A b \in Container : running'[b] # {} => stage'[b] \in {"ready", "removing"}
    BY <1>6, <1>8, <1>9 DEF ProxyInv, Proxies
  <2>4. \A b \in Container \ warm' :
           /\ \A p \in Pull : p[1] = b /\ IsOut(p)' => running'[b] = {}
           /\ \A k, n \in running'[b] : k = n
    BY <1>1, <1>6, <1>7, <1>8 DEF ProxyInv, Proxies
  <2>5. ASSUME NEW b \in Container, NEW k \in running'[b]
        PROVE  FitContent(k.content, k.activation, Asked(b))'
    <3>1. Asked(b)' = Asked(b) /\ FitContent(k.content, k.activation, Asked(b))
      BY <1>6, <1>8, <1>10, <1>11, <2>5 DEF ProxyInv, Proxies
    <3> QED
      BY <3>1 DEF FitContent, FitCode
  <2> QED
    BY <2>1, <2>2, <2>3, <2>4, <2>5 DEF Proxies
<1> QED
  BY <1>1, <1>2, <1>5, <1>12 DEF ProxyInv

\* What a client gets past decodeReencryptResponse.
LEMMA finalizeProxyInv ==
  ASSUME BindInv, QueueInv, ProxyInv, NEW a \in Activation, finalizeResult(a)
  PROVE  ProxyInv' /\ BindInv' /\ UNCHANGED dispatchVars
<1> DEFINE r == report[a]
<1>1. /\ UNCHANGED <<dispatchVars, heard, running, warm, rescheduling, report,
                     stage, bridge, owner, active, target, paused, unready, unhealthy, lost>>
      /\ faults' = faults \/ Fault
  BY DEF finalizeResult, Answers
<1>2. BindInv'
  BY <1>1, OtherBindIInv
<1>3. \E reply \in ProtectedEnvelopeV1 \cup {Failed} :
        /\ outcome' = [outcome EXCEPT ![a] = reply]
        /\ reply # Failed => /\ reply.correlation = a /\ reply.direction = "GatewayToSource"
                             /\ reply.bindingId = SourceBinding
  <2>1. CASE outcome' = [outcome EXCEPT ![a] = Failed]
    BY <2>1
  <2>2. CASE r # Failed /\ parseTargetResult(r)
    <3> DEFINE e == r.targetEnvelope
               s == r.sourceBindingId
               accepts == r.targetBindingId \in active
    <3>1. r \in TargetResult
      BY <2>2 DEF finalizeResult, ProxyInv, ProxyTypeOK
    <3>2. e \in ProtectedEnvelopeV1 /\ s = SourceBinding /\ s \in Nat /\ e.correlation = a
      BY <2>2, <3>1, DispatchConstants DEF finalizeResult, ProxyInv, Results, TargetResult
    <3>3. "GatewayToSource" \in DOMAIN ivDomain
      BY DEF ivDomain
    <3>4. accepts \in BOOLEAN
      OBVIOUS
    <3>5. \/ outcome' = [outcome EXCEPT ![a] = reencryptResultToSource(s, r.targetBindingId, e,
                           GatewayAnswer(e, "GatewayToSource", s, accepts))]
          \/ \E reply \in WrongAnswers(e, "GatewayToSource", s) :
               outcome' = [outcome EXCEPT ![a] = reencryptResultToSource(s, r.targetBindingId, e, reply)]
      BY <2>2 DEF finalizeResult, Answers
    <3> HIDE DEF e, s, accepts
    <3>6. /\ GatewayAnswer(e, "GatewayToSource", s, accepts) \in ProtectedEnvelopeV1 \cup {Failed}
          /\ WrongAnswers(e, "GatewayToSource", s) \subseteq ProtectedEnvelopeV1 \cup {Failed}
      BY <3>2, <3>3, <3>4, AnswersType
    <3>7. PICK reply \in ProtectedEnvelopeV1 \cup {Failed} :
            outcome' = [outcome EXCEPT ![a] = reencryptResultToSource(s, r.targetBindingId, e, reply)]
      BY <3>5, <3>6
    <3>8. \/ reencryptResultToSource(s, r.targetBindingId, e, reply) = Failed
          \/ /\ reencryptResultToSource(s, r.targetBindingId, e, reply) = reply
             /\ reply.correlation = e.correlation /\ reply.direction = "GatewayToSource"
             /\ reply.bindingId = s
      BY DEF reencryptResultToSource, decodeReencryptResponse
    <3> QED
      BY <3>2, <3>7, <3>8
  <2> QED
    BY <2>1, <2>2 DEF finalizeResult
<1>4. ProxyTypeOK' /\ OwnResult'
  BY <1>1, <1>3 DEF ProxyInv, ProxyTypeOK, OwnResult
<1>5. Proxies' /\ Results'
  <2>1. \A p \in Pull : IsOut(p)' <=> IsOut(p)
    BY <1>1 DEF dispatchVars, IsOut
  <2>2. \A b \in Container : Asked(b)' = Asked(b)
    BY <1>1 DEF Asked
  <2>3. Results' /\ UNCHANGED request
    BY <1>1 DEF ProxyInv, Results, dispatchVars
  <2>4. \A c \in Container : \A m \in running'[c] : FitContent(m.content, m.activation, Asked(c))'
    BY <1>1, <2>2 DEF ProxyInv, Proxies, FitContent, FitCode
  <2> QED
    BY <1>1, <2>1, <2>2, <2>3, <2>4, PullContainer DEF ProxyInv, Proxies
<1> QED
  BY <1>1, <1>2, <1>4, <1>5 DEF ProxyInv

\* What was sent back arrives again, or is refused and reported.
LEMMA RescheduleProxyInv ==
  ASSUME BindInv, ProxyInv, NEW a \in Activation, Rescheduled(a),
         Sent' \subseteq Sent, UNCHANGED request
  PROVE  ProxyInv' /\ BindInv'
<1>1. /\ UNCHANGED <<heard, running, warm, outcome>> /\ UNCHANGED bindingVars
      /\ rescheduling' = rescheduling \ {a}
      /\ report' = [report EXCEPT ![a] = Failed] \/ UNCHANGED report
  BY DEF Rescheduled
<1>2. BindInv'
  BY <1>1, OtherBindIInv DEF bindingVars
<1>3. /\ \A p \in Pull : IsOut(p)' => IsOut(p)
      /\ \A c \in Container : Asked(c)' = Asked(c)
  BY <1>1 DEF Sent, IsOut, Asked, bindingVars
<1>4. Proxies'
  <2>1. \A c \in Container : \A m \in running'[c] : FitContent(m.content, m.activation, Asked(c))'
    BY <1>1, <1>3 DEF ProxyInv, Proxies, FitContent, FitCode
  <2>2. \A p \in Pull : IsOut(p)' => stage'[p[1]] = "ready" /\ request'[p] = Asked(p[1])'
    BY <1>1, <1>3, PullContainer DEF ProxyInv, Proxies, bindingVars
  <2>3. /\ \A p, q \in Pull : IsOut(p)' /\ IsOut(q)' /\ p[1] = q[1] => p = q
        /\ \A c \in Container : running'[c] # {} => stage'[c] \in {"ready", "removing"}
        /\ \A c \in Container \ warm' :
             /\ \A p \in Pull : p[1] = c /\ IsOut(p)' => running'[c] = {}
             /\ \A m, n \in running'[c] : m = n
    BY <1>1, <1>3 DEF ProxyInv, Proxies, bindingVars
  <2> QED
    BY <2>1, <2>2, <2>3 DEF Proxies
<1> QED
  BY <1>1, <1>2, <1>4 DEF ProxyInv, ProxyTypeOK, Results, OwnResult

-----------------------------------------------------------------------------
(* What is sent back. *)

LEMMA AnsweredSettled ==
  ASSUME QueueInv, QueueInv', Settled
  PROVE  \A p \in Answered : p \in Answered' /\ answer'[p] = answer[p]
<1> SUFFICES ASSUME NEW p \in Answered
             PROVE  p \in Answered' /\ answer'[p] = answer[p]
  OBVIOUS
<1>1. p \in Pull /\ answer[p] # None /\ answer[p].kind = "ActivationMessage"
  BY DEF Answered, QueueInv, DispatchTypeOK
<1>2. answer'[p] = answer[p]
  BY <1>1 DEF Settled
<1>3. ask'[p] \in {"answered", "expired"}
  BY <1>1, <1>2 DEF QueueInv, DispatchTypeOK
<1>4. NoActivationMessage.kind # "ActivationMessage"
  BY DEF NoActivationMessage
<1>5. ask'[p] # "expired"
  BY <1>1, <1>2, <1>4 DEF QueueInv, Pulls
<1> QED
  BY <1>1, <1>2, <1>3, <1>5 DEF Answered

\* A step that no container takes.
LEMMA KeepResends ==
  ASSUME Resends, QueueInv, QueueInv', Settled, UNCHANGED <<heard, running>>,
         rescheduling' \cup rescheduled' \subseteq rescheduling \cup rescheduled,
         rescheduling' \cap rescheduled' = {}, heard \subseteq Pull
  PROVE  Resends'
<1>1. \A p \in Answered : p \in Answered' /\ answer'[p] = answer[p]
  BY AnsweredSettled
<1>2. \A p \in heard' : answer'[p] # None
  BY DEF Resends, Settled
<1>3. \A c \in Container : \A m \in running'[c] :
        /\ m.activation \notin rescheduling' \cup rescheduled'
        /\ \E p \in Answered' \cap heard' : p[1] = c /\ answer'[p] = m
  BY <1>1 DEF Resends
<1>4. \A a \in rescheduling' \cup rescheduled' :
        \E p \in Answered' \cap heard' : answer'[p].activation = a
  BY <1>1 DEF Resends
<1> QED
  BY <1>2, <1>3, <1>4 DEF Resends

LEMMA HearResends ==
  ASSUME QueueInv, ProxyTypeOK, Resends, NEW p \in Pull, HearAnswer(p)
  PROVE  Resends'
<1> DEFINE c == p[1]
<1>1. /\ p \in Outstanding(c) /\ ask[p] # "asking" /\ heard' = heard \cup {p}
      /\ UNCHANGED <<dispatchVars, rescheduling>>
      /\ \/ /\ answer[p].kind = "ActivationMessage"
            /\ running' = [running EXCEPT ![c] = @ \cup {answer[p]}]
         \/ UNCHANGED running
  BY DEF HearAnswer
<1>2. /\ ask[p] # "unused" /\ ask[p] # "asking" /\ p \notin heard /\ c \in Container
  BY <1>1, PullsOfContainers DEF Outstanding, PullsOf
<1>3. NoActivationMessage.kind # "ActivationMessage"
  BY DEF NoActivationMessage
<1>4. answer[p].kind = "ActivationMessage" => p \in Answered
  BY <1>2, <1>3 DEF QueueInv, DispatchTypeOK, Pulls, Answered
<1>5. UNCHANGED <<ask, answer, rescheduled>> /\ Answered' = Answered
  BY <1>1 DEF dispatchVars, Answered
<1>6. \A q \in heard' : answer'[q] # None
  BY <1>1, <1>2, <1>5 DEF QueueInv, DispatchTypeOK, Resends
<1>7. ASSUME p \in Answered PROVE answer[p].activation \notin rescheduling \cup rescheduled
  <2>1. \A q \in Answered \cap heard : answer[q].activation # answer[p].activation
    BY <1>2, <1>7 DEF QueueInv, Separate
  <2> QED
    BY <2>1 DEF Resends
<1>8. ASSUME NEW d \in Container, NEW m \in running'[d]
      PROVE  /\ m.activation \notin rescheduling' \cup rescheduled'
             /\ \E q \in Answered' \cap heard' : q[1] = d /\ answer'[q] = m
  <2>1. CASE m \in running[d]
    BY <1>1, <1>5, <2>1 DEF Resends
  <2>2. CASE m \notin running[d]
    <3>1. d = c /\ m = answer[p] /\ p \in Answered
      BY <1>1, <1>2, <1>4, <2>2 DEF ProxyTypeOK
    <3> QED
      BY <1>1, <1>5, <1>7, <3>1
  <2> QED
    BY <2>1, <2>2
<1>9. \A a \in rescheduling' \cup rescheduled' :
        \E q \in Answered' \cap heard' : answer'[q].activation = a
  BY <1>1, <1>5 DEF Resends
<1> QED
  BY <1>1, <1>5, <1>6, <1>8, <1>9 DEF Resends

LEMMA RunResends ==
  ASSUME QueueInv, ProxyTypeOK, Resends, NEW c \in Container, NEW m \in running[c],
         RunActivation(c, m) \/ HealthError(c, m)
  PROVE  Resends'
<1>1. /\ UNCHANGED <<dispatchVars, heard>> /\ running' = [running EXCEPT ![c] = @ \ {m}]
      /\ rescheduling' \in {rescheduling, rescheduling \cup {m.activation}}
  BY DEF RunActivation, HealthError
<1>2. UNCHANGED <<ask, answer, rescheduled>> /\ Answered' = Answered
  BY <1>1 DEF dispatchVars, Answered
<1>3. PICK p \in Answered \cap heard : p[1] = c /\ answer[p] = m
  BY DEF Resends
<1>4. m.activation \notin rescheduling \cup rescheduled
  BY DEF Resends
<1>5. ASSUME NEW d \in Container, NEW n \in running'[d]
      PROVE  /\ n.activation \notin rescheduling' \cup rescheduled'
             /\ \E q \in Answered' \cap heard' : q[1] = d /\ answer'[q] = n
  <2>1. n \in running[d] /\ (d = c => n # m)
    BY <1>1 DEF ProxyTypeOK
  <2>2. PICK q \in Answered \cap heard : q[1] = d /\ answer[q] = n
    BY <2>1 DEF Resends
  <2>3. n.activation # m.activation
    BY <1>3, <2>1, <2>2 DEF QueueInv, Separate
  <2>4. n.activation \notin rescheduling \cup rescheduled
    BY <2>1 DEF Resends
  <2> QED
    BY <1>1, <1>2, <2>2, <2>3, <2>4
<1>6. \A a \in rescheduling' \cup rescheduled' :
        \E q \in Answered' \cap heard' : answer'[q].activation = a
  BY <1>1, <1>2, <1>3 DEF Resends
<1> QED
  BY <1>1, <1>2, <1>4, <1>5, <1>6 DEF Resends

LEMMA StutterResends ==
  ASSUME Resends, UNCHANGED <<dispatchVars, heard, running, rescheduling>>
  PROVE  Resends'
BY DEF Resends, dispatchVars, Answered

-----------------------------------------------------------------------------
(* The inductive invariant. *)

LEMMA StutterContents ==
  ASSUME Contents, UNCHANGED dispatchVars
  PROVE  Contents'
<1>1. UNCHANGED <<pending, request, ask, answer, rescheduled>>
  BY DEF dispatchVars
<1> QED
  BY <1>1 DEF Contents, FitDispatch, FitContent, FitCode, Answered

\* Who hands an activation over: the queue, a container, or one that was sent back.
Handover ==
  \/ Passage /\ UNCHANGED <<heard, running, rescheduling>>
  \/ \E p \in Pull : HearAnswer(p)
  \/ \E c \in Container : \E m \in running[c] : RunActivation(c, m) \/ HealthError(c, m)
  \/ \E a \in Activation :
       /\ a \in rescheduling /\ rescheduling' = rescheduling \ {a} /\ UNCHANGED <<heard, running>>
       /\ Resending(a) \/ UNCHANGED dispatchVars

\* A step by which nothing changes that the queue knows.
LEMMA QuietIInv ==
  ASSUME IInv, UNCHANGED dispatchVars, BindInv', ProxyInv', Resends'
  PROVE  IInv' /\ Passage
<1>1. QueueInv' /\ Passage /\ Sent' \subseteq Sent
  BY StutterQueueInv DEF IInv
<1>2. LossInv'
  BY <1>1, PassageLossInv DEF IInv
<1>3. Contents'
  BY StutterContents DEF IInv
<1> QED
  BY <1>1, <1>2, <1>3 DEF IInv

\* A step of the dispatcher or the queue.
LEMMA BusyIInv ==
  ASSUME IInv, Contents', QueueInv', Passage, Sent' \subseteq Sent,
         UNCHANGED <<heard, running, warm, rescheduling, report, outcome, stage, bridge, owner,
                     active, target, paused, unready, unhealthy, lost, request>>,
         faults' = faults \/ Fault
  PROVE  IInv' /\ Handover
<1>1. LossInv'
  BY PassageLossInv DEF IInv
<1>2. BindInv'
  BY OtherBindIInv DEF IInv
<1>3. ProxyInv'
  BY OthersProxyInv DEF IInv
<1>4. Resends'
  <2>1. Settled /\ UNCHANGED rescheduled
    BY DEF Passage
  <2>2. heard \subseteq Pull /\ rescheduling \cap rescheduled = {}
    BY DEF IInv, ProxyInv, ProxyTypeOK, Resends
  <2> QED
    BY <2>1, <2>2, KeepResends DEF IInv
<1> QED
  BY <1>1, <1>2, <1>3, <1>4 DEF IInv, Handover

LEMMA NextIInv ==
  ASSUME IInv, [Next]_vars
  PROVE  IInv' /\ Handover
<1>1. ASSUME NEW p \in Pull, requestActivation(p)
      PROVE  IInv' /\ Handover
  <2>1. ProxyInv' /\ UNCHANGED bindingVars
    BY <1>1, requestProxyInv DEF IInv
  <2>2. PICK r \in Request : fetchActivation(p, r)
    BY <1>1, requestProxyInv DEF IInv
  <2>3. QueueInv' /\ Passage /\ Sent' \subseteq Sent \cup {p}
    BY <2>2, fetchQueueInv DEF IInv
  <2>4. LossInv'
    BY <2>3, PassageLossInv DEF IInv
  <2>5. Contents'
    BY <2>2, fetchContents DEF IInv
  <2>6. BindInv'
    BY <2>1, OtherBindIInv DEF IInv, bindingVars
  <2>7. UNCHANGED <<heard, running, rescheduling>>
    BY <1>1 DEF requestActivation, proxyVars
  <2>8. Resends'
    <3>1. Settled /\ UNCHANGED rescheduled
      BY <2>3 DEF Passage
    <3>2. heard \subseteq Pull /\ rescheduling \cap rescheduled = {}
      BY DEF IInv, ProxyInv, ProxyTypeOK, Resends
    <3> QED
      BY <2>3, <2>7, <3>1, <3>2, KeepResends DEF IInv
  <2> QED
    BY <2>1, <2>3, <2>4, <2>5, <2>6, <2>7, <2>8 DEF IInv, Handover
<1>2. ASSUME NEW p \in Pull, HearAnswer(p)
      PROVE  IInv' /\ Handover
  <2>1. Resends'
    BY <1>2, HearResends DEF IInv, ProxyInv
  <2>2. ProxyInv' /\ BindInv' /\ UNCHANGED dispatchVars
    BY <1>2, HearProxyInv DEF IInv
  <2> QED
    BY <1>2, <2>1, <2>2, QuietIInv DEF Handover
<1>3. ASSUME NEW c \in Container, NEW m \in running[c], RunActivation(c, m) \/ HealthError(c, m)
      PROVE  IInv' /\ Handover
  <2>1. Resends'
    BY <1>3, RunResends DEF IInv, ProxyInv
  <2>2. ProxyInv' /\ BindInv' /\ UNCHANGED dispatchVars
    BY <1>3, RunProxyInv DEF IInv
  <2> QED
    BY <1>3, <2>1, <2>2, QuietIInv DEF Handover
<1>4. ASSUME NEW c \in Container, RemoveIdle(c) \/ ClientClosed(c) \/ LifecycleStep(c)
      PROVE  IInv' /\ Handover
  <2>1. ProxyInv' /\ BindInv' /\ UNCHANGED <<dispatchVars, heard, running, rescheduling>>
    BY <1>4, RemoveProxyInv DEF IInv, RemoveIdle, ClientClosed, LifecycleStep, proxyVars
  <2>2. Resends'
    BY <2>1, StutterResends DEF IInv
  <2> QED
    BY <2>1, <2>2, QuietIInv DEF Handover
<1>5. ASSUME NEW d \in pending, DispatchStep(d)
      PROVE  IInv' /\ Handover
  <2>1. Contents' /\ QueueInv' /\ Passage /\ Sent' \subseteq Sent
    BY <1>5, PrepareContents DEF IInv, DispatchStep
  <2>2. /\ UNCHANGED <<heard, running, warm, rescheduling, report, outcome, stage, bridge,
                       owner, active, target, paused, unready, unhealthy, lost>>
        /\ faults' = faults \/ Fault
    BY <1>5 DEF DispatchStep, Prepare, Answers, proxyVars
  <2>3. UNCHANGED request
    <3>1. PICK e \in Dispatch : Advance(d, e)
      BY <1>5, PrepareAdvances DEF IInv, DispatchStep
    <3> QED
      BY <3>1 DEF Advance
  <2> QED
    BY <2>1, <2>2, <2>3, BusyIInv
<1>6. ASSUME NEW d \in pending, CompleteStep(d)
      PROVE  IInv' /\ Handover
  <2>1. Contents' /\ QueueInv' /\ Passage /\ Sent' \subseteq Sent
    BY <1>6, CompleteContents DEF IInv, CompleteStep
  <2>2. /\ UNCHANGED <<heard, running, warm, rescheduling, report, outcome, stage, bridge,
                       owner, active, target, paused, unready, unhealthy, lost, request>>
        /\ faults' = faults
    BY <1>6 DEF CompleteStep, completeActivationDispatch, proxyVars, bindingVars
  <2> QED
    BY <2>1, <2>2, BusyIInv
<1>7. ASSUME QueueStep
      PROVE  IInv' /\ Handover
  <2>1. Contents' /\ QueueInv' /\ Passage /\ Sent' \subseteq Sent
    BY <1>7, QueueStepContents DEF IInv, QueueStep
  <2>2. /\ UNCHANGED <<heard, running, warm, rescheduling, report, outcome, stage, bridge,
                       owner, active, target, paused, unready, unhealthy, lost>>
        /\ faults' = faults
    BY <1>7 DEF QueueStep, proxyVars, bindingVars
  <2>3. UNCHANGED request
    BY <1>7 DEF QueueStep, NewArrives, handleActivationMessage, handleActivationRequest, TimerFires, CancelPoll,
                AskTimesOut
  <2> QED
    BY <2>1, <2>2, <2>3, BusyIInv
<1>8. ASSUME NEW a \in Activation, finalizeResult(a)
      PROVE  IInv' /\ Handover
  <2>1. ProxyInv' /\ BindInv' /\ UNCHANGED <<dispatchVars, heard, running, rescheduling>>
    BY <1>8, finalizeProxyInv DEF IInv, finalizeResult
  <2>2. Resends'
    BY <2>1, StutterResends DEF IInv
  <2> QED
    BY <2>1, <2>2, QuietIInv DEF Handover
<1>10. ASSUME NEW a \in Activation, Rescheduled(a)
       PROVE  IInv' /\ Handover
  <2>1. /\ a \in rescheduling /\ rescheduling' = rescheduling \ {a}
        /\ UNCHANGED <<heard, running>>
        /\ Rearrives(a) \/ UNCHANGED dispatchVars
    BY <1>10 DEF Rescheduled
  <2>2. a \in Handed /\ a \notin rescheduled /\ heard \subseteq Pull
    BY <2>1 DEF IInv, Resends, Handed, ProxyInv, ProxyTypeOK
  <2>3. CASE Rearrives(a)
    <3>1. Contents' /\ QueueInv' /\ Resending(a) /\ Sent' \subseteq Sent
      BY <2>2, <2>3, RearriveContents DEF IInv
    <3>2. UNCHANGED request
      BY <2>3 DEF Rearrives, handleActivationMessage
    <3>3. ProxyInv' /\ BindInv'
      BY <1>10, <3>1, <3>2, RescheduleProxyInv DEF IInv
    <3>4. LossInv'
      BY <3>1, PassageLossInv DEF IInv
    <3>5. Resends'
      <4>1. Settled /\ rescheduled' = rescheduled \cup {a}
        BY <3>1 DEF Resending
      <4>2. /\ rescheduling' \cup rescheduled' \subseteq rescheduling \cup rescheduled
            /\ rescheduling' \cap rescheduled' = {}
        BY <2>1, <4>1 DEF IInv, Resends
      <4> QED
        BY <2>1, <2>2, <3>1, <4>1, <4>2, KeepResends DEF IInv
    <3> QED
      BY <2>1, <3>1, <3>3, <3>4, <3>5 DEF IInv, Handover
  <2>4. CASE UNCHANGED dispatchVars
    <3>1. UNCHANGED <<ask, request, rescheduled>> /\ Sent' \subseteq Sent
      BY <2>4 DEF dispatchVars, Sent
    <3>2. ProxyInv' /\ BindInv'
      BY <1>10, <3>1, RescheduleProxyInv DEF IInv
    <3>3. Resends'
      <4>1. Settled /\ QueueInv'
        BY <2>4, StutterQueueInv DEF IInv, Passage
      <4>2. /\ rescheduling' \cup rescheduled' \subseteq rescheduling \cup rescheduled
            /\ rescheduling' \cap rescheduled' = {}
        BY <2>1, <3>1 DEF IInv, Resends
      <4> QED
        BY <2>1, <2>2, <4>1, <4>2, KeepResends DEF IInv
    <3> QED
      BY <2>1, <2>4, <3>2, <3>3, QuietIInv DEF Handover
  <2> QED
    BY <2>1, <2>3, <2>4
<1>9. CASE UNCHANGED vars
  <2>1. /\ UNCHANGED dispatchVars /\ faults' = faults
        /\ UNCHANGED <<heard, running, warm, rescheduling, report, outcome, stage, bridge,
                       owner, active, target, paused, unready, unhealthy, lost, request>>
    BY <1>9 DEF vars, dispatchVars, proxyVars, bindingVars
  <2>2. QueueInv' /\ Passage /\ Sent' \subseteq Sent
    BY <2>1, StutterQueueInv DEF IInv
  <2>3. Contents'
    BY <2>1, StutterContents DEF IInv
  <2> QED
    BY <2>1, <2>2, <2>3, BusyIInv
<1> QED
  BY <1>1, <1>2, <1>3, <1>4, <1>5, <1>6, <1>7, <1>8, <1>9, <1>10 DEF Next

LEMMA InitIInv == ASSUME Init PROVE IInv
<1>1. BindInv /\ QueueInv /\ LossInv
  BY InitBindIInv, InitQueueInv, InitLossInv DEF Init
<1>2. Contents
  BY DEF Init, DispatchInit, Contents, Answered
<1>3. ProxyTypeOK
  BY BindingBounds DEF Init, ProxyTypeOK
<1>4. Proxies
  BY DEF Init, DispatchInit, Proxies, IsOut
<1>5. Results /\ OwnResult
  BY DEF Init, Results, OwnResult
<1>6. Resends
  BY DEF Init, DispatchInit, Resends
<1> QED
  BY <1>1, <1>2, <1>3, <1>4, <1>5, <1>6 DEF IInv, ProxyInv

\* What the invariant says of the properties that the runs check.
LEMMA TypesHold == ASSUME IInv PROVE TypeOK
BY DEF IInv, BindInv, QueueInv, ProxyInv, TypeOK

LEMMA BindingsHold == ASSUME IInv PROVE ServesWhileBound /\ NothingLeftInSilence
<1>1. Bindings /\ BindingTypeOK
  BY DEF IInv, BindInv
<1>2. ServesWhileBound
  <2>1. ASSUME NEW c \in Container, stage[c] \in {"ready", "removing"} \/ running[c] # {}
        PROVE  c \in bridge /\ target[c] \in active /\ owner[target[c]] = c
    <3>1. stage[c] \in {"ready", "removing"}
      BY <2>1 DEF IInv, ProxyInv, Proxies
    <3>2. c \in bridge /\ target[c] \in active
      BY <1>1, <3>1 DEF Bindings
    <3>3. target[c] # 0
      BY <1>1, <3>2 DEF BindingTypeOK, Target
    <3> QED
      BY <1>1, <3>2, <3>3 DEF Bindings
  <2> QED
    BY <2>1 DEF ServesWhileBound
<1>3. NothingLeftInSilence
  BY <1>1 DEF Bindings, NothingLeftInSilence, Excused
<1> QED
  BY <1>2, <1>3

LEMMA InputsHold == ASSUME IInv PROVE RunsOwnInput
<1> SUFFICES ASSUME NEW c \in Container, NEW m \in running[c]
             PROVE  /\ MayRun(c, m) /\ m.content.targetInput.correlation = m.activation
                    /\ m.content.targetInput.bindingId = target[c] /\ owner[target[c]] = c
  BY DEF RunsOwnInput
<1>1. FitContent(m.content, m.activation, Asked(c))
  BY DEF IInv, ProxyInv, Proxies
<1>2. target[c] \in active /\ owner[target[c]] = c /\ active \subseteq Target
  BY BindingsHold DEF ServesWhileBound, IInv, BindInv, BindingTypeOK
<1>3. target[c] > 0
  <2>1. \A t \in Target : t > 0
    BY BindingBounds DEF Target
  <2> QED
    BY <1>2, <2>1
<1> DEFINE d == m.content
<1>4. /\ d.targetBindingId = target[c] /\ d.sourceBindingId = SourceBinding
      /\ d.exactRevision = Revision /\ d.warmed = (c \in warm)
      /\ decodes(d.targetInput) /\ requireTargetEnvelope(d.targetInput, "Input", target[c])
      /\ d.targetInput.correlation = m.activation /\ d.targetInput.bindingId = target[c]
      /\ FitCode(d.targetCode, Asked(c))
  BY <1>1 DEF FitContent, Asked, requireTargetEnvelope
<1> HIDE DEF d
<1>5. /\ d.warmed = (d.targetCode = None)
      /\ d.targetCode # None => /\ decodes(d.targetCode)
                                /\ requireTargetEnvelope(d.targetCode, "Code", target[c])
  <2>1. (c \in warm) \in BOOLEAN
    OBVIOUS
  <2>2. CASE c \in warm
    BY <1>4, <2>2 DEF FitCode, Asked
  <2>3. CASE c \notin warm
    <3>1. d.targetCode # None
      BY <1>4, <2>3, NoneIsNoValue DEF FitCode, Asked
    <3> QED
      BY <1>4, <2>3, <3>1 DEF FitCode, Asked
  <2> QED
    BY <2>2, <2>3
<1>6. Revision # None /\ SourceBinding > 0
  BY NoneIsNoValue, DispatchConstants
<1>7. MayRun(c, m)
  BY <1>3, <1>4, <1>5, <1>6 DEF MayRun, parseTargetDispatch, d
<1> QED
  BY <1>2, <1>4, <1>7 DEF d

-----------------------------------------------------------------------------
(* The theorems. *)

\* Everything below rests on one invariant of queue, dispatches, pulls, bindings and
\* containers together (the whole path of a target-bound activation in the patch).
THEOREM DispatchInvariance == Spec => []IInv
<1>1. Init => IInv
  BY InitIInv
<1>2. IInv /\ [Next]_vars => IInv'
  BY NextIInv
<1> QED
  BY <1>1, <1>2, PTL DEF Spec

\* Queue, dispatches, bindings, containers and results are what they should be
\* (MemoryQueue, P1GatewayControlClient, FunctionPullingContainerProxy).
THEOREM DispatchTypeCorrect == Spec => []TypeOK
<1>1. IInv => TypeOK
  BY TypesHold
<1> QED
  BY <1>1, DispatchInvariance, PTL

\* As long as a container takes pulls, or an activation runs in it, its binding is
\* ACTIVE at the Gateway and its endpoint is at the bridge (awaitReady, ClientClosed).
THEOREM ServedWhileBound == Spec => []ServesWhileBound
<1>1. IInv => ServesWhileBound
  BY BindingsHold
<1> QED
  BY <1>1, DispatchInvariance, PTL

\* A container that was ready and is gone left nothing at the Gateway or the bridge but
\* what its proxy reported or never heard of; of one whose awaitReady failed, which is
\* only logged, nothing is said (beginTargetBoundRemoval, closeGateway, unbind).
THEOREM LeavesNothingInSilence == Spec => []NothingLeftInSilence
<1>1. IInv => NothingLeftInSilence
  BY BindingsHold
<1> QED
  BY <1>1, DispatchInvariance, PTL

\* A container never has to refuse what it is handed: the input is its activation's,
\* under its own binding, with code just when it has none
\* (decodeReencryptResponse, targetPreconditions).
THEOREM InputIsItsOwn == Spec => []RunsOwnInput
<1>1. IInv => RunsOwnInput
  BY InputsHold
<1> QED
  BY <1>1, DispatchInvariance, PTL

\* A client gets the result of its own request for its own binding, or an error,
\* whatever runtime and Gateway answer
\* (targetBoundRuntimeResponse, parseTargetResult, decodeReencryptResponse).
THEOREM ResultIsItsOwn == Spec => []OwnResult
<1>1. IInv => OwnResult
  BY DEF IInv, ProxyInv
<1> QED
  BY <1>1, DispatchInvariance, PTL

\* No more activations are lost than pulls were answered without one: a dispatch that
\* succeeds into an ask that timed out, or a promise that CancelPoll completed, takes one
\* activation with it, and no pull does so twice (completeDispatchRecipient).
THEOREM LossIsBounded == Spec => []LostOnlyUnanswered
<1>1. IInv => LostOnlyUnanswered
  BY LossBounded DEF IInv
<1> QED
  BY <1>1, DispatchInvariance, PTL

\* A pull is left waiting beside a queue only when what is queued came back from a
\* dispatch that failed (handleActivationMessage, completeActivationDispatch).
THEOREM WaitingBesideReturned == Spec => []WaitsOnlyBesideReturned
<1>1. IInv => WaitsOnlyBesideReturned
  BY DEF IInv, QueueInv
<1> QED
  BY <1>1, DispatchInvariance, PTL

\* An activation is overtaken in the queue only by one that came back to its head, or when
\* it came back itself, from a dispatch or from a container (completeActivationDispatch).
THEOREM QueueKeepsOrder == Spec => []QueueInOrder
<1>1. IInv => QueueInOrder
  BY DEF IInv, QueueInv
<1> QED
  BY <1>1, DispatchInvariance, PTL

\* Queue and containers implement ActivationCustody: an activation has one custodian at
\* most and is the answer to one pull at most, also when a container sends it back, and
\* what was lost or ended never comes back
\* (MemoryQueue, completeDispatchRecipient, initializeAndRunActivation).
THEOREM CustodyIsKept == Spec => CustodyKept
<1>1. Init => Custody!Init
  BY InitCustody DEF Init
<1>2. IInv /\ IInv' /\ [Next]_vars => [Custody!Next]_Custody!vars
  <2> SUFFICES ASSUME IInv, IInv', [Next]_vars
               PROVE  [Custody!Next]_Custody!vars
    OBVIOUS
  <2>1. Handover
    BY NextIInv
  <2>2. ProxyTypeOK /\ QueueInv /\ Resends /\ QueueInv' /\ Resends'
    BY DEF IInv, ProxyInv
  <2> QED
    BY <2>1, <2>2, PassageCustody, HearCustody, RunCustody, ResendCustody DEF Handover
<1> QED
  BY <1>1, <1>2, DispatchInvariance, PTL DEF Spec, CustodyKept, Custody!Spec
=============================================================================
