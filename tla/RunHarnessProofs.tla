-------------------------- MODULE RunHarnessProofs --------------------------
(***************************************************************************)
(* Proofs about the run harness, for any commands, answers and candidates. *)
(*                                                                         *)
(* The harness drives a kernel and a broker, and each keeps what it        *)
(* promises on its own: every run of the harness is a run of the broker    *)
(* and a run of the kernel.  The first is read off the actions.  The       *)
(* second needs to know what the harness gives the kernel, and so what     *)
(* each job carries between two awaits.                                    *)
(***************************************************************************)
EXTENDS RunHarness, RunKernelProofs

B == INSTANCE EffectBrokerProofs
    WITH Commands <- ToolCommands, PreflightIds <- {}, DecisionTimes <- {}, EffectIds <- {Null}

\* ------------------------------------------------------------------------
\* The broker of the harness is the one the broker's theorems are about.

\* The two instances of the broker agree, definition by definition.
LEMMA SameChecks ==
    /\ \A checks : Broker!FirstError(checks) = B!FirstError(checks)
    /\ \A a, b : Broker!FirstOf(a, b) = B!FirstOf(a, b)
    /\ \A t, p, e : Broker!Registered(t, p, e) = B!Registered(t, p, e)
    /\ \A c : Broker!AdapterKey(c) = B!AdapterKey(c)
    /\ \A c : Broker!IdempotencyFingerprint(c) = B!IdempotencyFingerprint(c)
    /\ \A e : Broker!EvidenceIsPending(e) <=> B!EvidenceIsPending(e)
    /\ \A c, id : Broker!EffectRequest(c, id) = B!EffectRequest(c, id)
<1>1. \A checks : Broker!FirstError(checks) = B!FirstError(checks)
  BY DEF Broker!FirstError, B!FirstError
<1>2. \A a, b : Broker!FirstOf(a, b) = B!FirstOf(a, b)
  BY DEF Broker!FirstOf, B!FirstOf
<1>3. \A t, p, e : Broker!Registered(t, p, e) = B!Registered(t, p, e)
  BY DEF Broker!Registered, B!Registered
<1>4. \A c : Broker!AdapterKey(c) = B!AdapterKey(c)
  BY DEF Broker!AdapterKey, B!AdapterKey
<1>5. \A c : Broker!IdempotencyFingerprint(c) = B!IdempotencyFingerprint(c)
  BY DEF Broker!IdempotencyFingerprint, B!IdempotencyFingerprint
<1>6. \A e : Broker!EvidenceIsPending(e) <=> B!EvidenceIsPending(e)
  BY DEF Broker!EvidenceIsPending, B!EvidenceIsPending
<1>7. \A c, id : Broker!EffectRequest(c, id) = B!EffectRequest(c, id)
  BY DEF Broker!EffectRequest, B!EffectRequest
<1> QED BY <1>1, <1>2, <1>3, <1>4, <1>5, <1>6, <1>7

\* So do they on the certification of an adapter.
LEMMA SameCertification ==
    ASSUME NEW adapter
    PROVE  Broker!CertificationError(adapter) = B!CertificationError(adapter)
<1>1. Broker!LifecycleError(adapter.certification) = B!LifecycleError(adapter.certification)
  BY SameChecks DEF Broker!LifecycleError, B!LifecycleError, Broker!GovernedWrites, B!GovernedWrites
<1>2. Broker!KindMatchesClass(adapter.certification) = B!KindMatchesClass(adapter.certification)
  BY DEF Broker!KindMatchesClass, B!KindMatchesClass, Broker!GovernedWrites, B!GovernedWrites,
     Broker!ReadKinds, B!ReadKinds, Broker!WriteCapable, B!WriteCapable
<1> DEFINE cert == adapter.certification
           checks(lifecycle, kind) == <<
            <<cert.wellFormed, "adapter_certification_invalid">>,
            <<cert.adapterKind \in AllowedAdapterKinds, "adapter_certification_kind_forbidden">>,
            <<cert.adapterId = adapter.adapterId /\ cert.capabilityId = adapter.capabilityId
                /\ cert.toolId = adapter.toolId, "adapter_certification_mismatch">>,
            <<cert.sideEffectClass # "critical_write", "critical_write_requires_approval">>,
            <<kind, "adapter_certification_invalid">>,
            <<lifecycle = Null, lifecycle>> >>
<1>3. checks(Broker!LifecycleError(cert), Broker!KindMatchesClass(cert))
         = checks(B!LifecycleError(cert), B!KindMatchesClass(cert))
  BY <1>1, <1>2, Zenon
<1>4. Broker!FirstError(checks(Broker!LifecycleError(cert), Broker!KindMatchesClass(cert)))
         = B!FirstError(checks(B!LifecycleError(cert), B!KindMatchesClass(cert)))
  <2> HIDE DEF checks
  <2> QED BY <1>3, SameChecks
<1> QED BY <1>4, Zenon DEF Broker!CertificationError, B!CertificationError

\* So do they on what is registered for a command.
LEMMA SameRegistration ==
    ASSUME NEW command
    PROVE  Broker!RegistrationError(command) = B!RegistrationError(command)
<1>1. Broker!LookupError(command) = B!LookupError(command)
  BY SameChecks DEF Broker!LookupError, B!LookupError
<1>2. \A a, c : Broker!CapabilityError(a, c) = B!CapabilityError(a, c)
  BY SameChecks DEF Broker!CapabilityError, B!CapabilityError
<1> QED BY <1>1, <1>2, SameChecks, SameCertification DEF Broker!RegistrationError, B!RegistrationError

\* A dispatch is the same step in both.
LEMMA SameDispatch ==
    ASSUME NEW d, NEW command
    PROVE  Broker!DirectDispatch(d, command, Null) <=> B!DirectDispatch(d, command, Null)
<1>1. Broker!DirectError(command) = B!DirectError(command)
  BY DEF Broker!DirectError, B!DirectError, Broker!GovernedWrites, B!GovernedWrites, Broker!WriteCapable, B!WriteCapable
<1>2. Broker!FromCache(command) = B!FromCache(command)
  BY SameChecks DEF Broker!FromCache, B!FromCache, Broker!Threw, B!Threw, Broker!Returned, B!Returned
<1>3. Broker!Execute(d, command, Null, Null) <=> B!Execute(d, command, Null, Null)
  BY SameChecks DEF Broker!Execute, B!Execute, Broker!OpenWith, B!OpenWith
<1> DEFINE error == Broker!FirstOf(Broker!RegistrationError(command), Broker!DirectError(command))
<1>4. error = B!FirstOf(B!RegistrationError(command), B!DirectError(command))
  BY <1>1, SameChecks, SameRegistration
<1> HIDE DEF error
<1>5. Broker!Dispatch(d, command, Null, Null, error) <=> B!Dispatch(d, command, Null, Null, error)
  BY <1>2, <1>3 DEF Broker!Dispatch, B!Dispatch, Broker!Known, B!Known, Broker!Idle, B!Idle,
     Broker!Threw, B!Threw, Broker!registry, B!registry
<1> QED BY <1>4, <1>5 DEF Broker!DirectDispatch, B!DirectDispatch, error

\* So is an adapter's answer.
LEMMA SameAnswers ==
    ASSUME NEW d
    PROVE  Broker!AdapterAnswers(d) <=> B!AdapterAnswers(d)
<1>1. ASSUME NEW answer, NEW e
      PROVE  Broker!AnswerError(answer, e) = B!AnswerError(answer, e)
  <2>1. Broker!ReceiptError(answer.receipt, e) = B!ReceiptError(answer.receipt, e)
    BY SameChecks DEF Broker!ReceiptError, B!ReceiptError, Broker!ReadKinds, B!ReadKinds
  <2>2. Broker!ObservationError(answer.observation, answer.receipt, e)
           = B!ObservationError(answer.observation, answer.receipt, e)
    BY SameChecks DEF Broker!ObservationError, B!ObservationError, Broker!ReadKinds, B!ReadKinds
  <2> QED BY <2>1, <2>2 DEF Broker!AnswerError, B!AnswerError
<1>2. ASSUME NEW key, NEW entry
      PROVE  Broker!Remembered(key, entry) = B!Remembered(key, entry)
  BY SameChecks DEF Broker!Remembered, B!Remembered
<1>3. ASSUME NEW e, NEW result
      PROVE  Broker!Accept(d, e, result) <=> B!Accept(d, e, result)
  BY <1>2, SameChecks DEF Broker!Accept, B!Accept, Broker!Returned, B!Returned
<1>4. ASSUME NEW e, NEW error
      PROVE  Broker!Refuse(d, e, error) <=> B!Refuse(d, e, error)
  BY <1>2, SameChecks DEF Broker!Refuse, B!Refuse, Broker!Threw, B!Threw, Broker!QuarantineState, B!QuarantineState
<1>5. ASSUME NEW answer
      PROVE  Broker!Answered(d, answer) <=> B!Answered(d, answer)
  BY <1>1, <1>3, <1>4 DEF Broker!Answered, B!Answered, Broker!registry, B!registry
<1> QED BY <1>5 DEF Broker!AdapterAnswers, B!AdapterAnswers

\* So is the pick-up of a result.
LEMMA SamePickUp ==
    ASSUME NEW d
    PROVE  Broker!PickUp(d) <=> B!PickUp(d)
BY DEF Broker!PickUp, B!PickUp, Broker!Idle, B!Idle, Broker!registry, B!registry

\* Both start alike.
LEMMA SameStart == Broker!Init <=> B!Init
BY SameCertification DEF Broker!Init, B!Init, Broker!Idle, B!Idle

\* What the broker's theorems take for granted.
LEMMA BrokerContracts ==
    /\ Null \notin B!ErrorCodes
    /\ \A command \in ToolCommands, id \in {Null} :
          \A answer \in AnswersTo(B!EffectRequest(command, id)) :
            /\ ~answer.throws
            /\ answer.wellFormed
            /\ answer.receipt # Null
            /\ answer.receipt.wellFormed
            => answer.receipt.status \in {"succeeded", "failed", "unknown"}
<1>1. Null \notin B!ErrorCodes
  BY HarnessContracts DEF Broker!ErrorCodes, B!ErrorCodes
<1>2. \A command \in ToolCommands, id \in {Null} :
          \A answer \in AnswersTo(B!EffectRequest(command, id)) :
            /\ ~answer.throws
            /\ answer.wellFormed
            /\ answer.receipt # Null
            /\ answer.receipt.wellFormed
            => answer.receipt.status \in {"succeeded", "failed", "unknown"}
  <2> SUFFICES ASSUME NEW command \in ToolCommands,
                      NEW answer \in AnswersTo(B!EffectRequest(command, Null)),
                      ~answer.throws, answer.wellFormed, answer.receipt # Null,
                      answer.receipt.wellFormed
               PROVE  answer.receipt.status \in {"succeeded", "failed", "unknown"}
    OBVIOUS
  <2>1. Broker!EffectRequest(command, Null) = B!EffectRequest(command, Null)
    BY SameChecks
  <2> QED BY <2>1, HarnessContracts
<1> QED BY <1>1, <1>2

\* Every step of the harness is one of its broker, or leaves it alone.
LEMMA BrokerStep ==
    ASSUME [HarnessNext]_allVars
    PROVE  [B!Next]_B!brokerVars
<1>1. ASSUME UNCHANGED brokerVars PROVE UNCHANGED B!brokerVars
  BY <1>1 DEF brokerVars, B!brokerVars, B!registry
<1>2. CASE UNCHANGED allVars
  BY <1>1, <1>2 DEF allVars
<1>3. ASSUME NEW d \in Callers, NEW c \in ToolCommands, NEW f, DispatchToolCommand(d, c, f)
      PROVE  B!Next
  <2>1. B!DirectDispatch(d, c, Null)
    BY <1>3, SameDispatch DEF DispatchToolCommand
  <2> QED BY <2>1 DEF B!Next
<1>4. ASSUME NEW d \in Callers, AdapterAnswers(d)
      PROVE  B!Next
  <2>1. B!AdapterAnswers(d)
    BY <1>4, SameAnswers DEF AdapterAnswers
  <2> QED BY <2>1 DEF B!Next
<1>5. ASSUME NEW d \in Callers, DispatchFailed(d) \/ ReturnRecorded(d) \/ RecordRequest(d)
      PROVE  B!Next
  <2>1. B!PickUp(d)
    BY <1>5, SamePickUp DEF DispatchFailed, ReturnRecorded, RecordRequest
  <2> QED BY <2>1 DEF B!Next
<1>6. ASSUME StartHarness PROVE UNCHANGED brokerVars
  BY <1>6 DEF StartHarness
<1>7. ASSUME NEW d \in Callers, RecordReceipt(d) \/ RecordObservation(d) \/ Continue(d)
      PROVE  UNCHANGED brokerVars
  BY <1>7 DEF RecordReceipt, RecordObservation, Continue
<1>8. ASSUME NEW f \in FinalCandidates, SubmitCandidate(f) PROVE UNCHANGED brokerVars
  BY <1>8 DEF SubmitCandidate
<1> QED BY <1>1, <1>2, <1>3, <1>4, <1>5, <1>6, <1>7, <1>8 DEF HarnessNext

\* The harness uses its broker as anyone may (dispatchToolCommand, runToRelease).
THEOREM HarnessDrivesBroker == HarnessSpec => B!Spec
<1>1. HarnessInit => B!Init
  BY SameStart DEF HarnessInit
<1> QED BY <1>1, BrokerStep, PTL DEF HarnessSpec, B!Spec

\* So what the broker promises of its calls and results holds here.
LEMMA BrokerInvariants == HarnessSpec => [](B!KeyInv /\ B!ResultInv)
BY HarnessDrivesBroker, BrokerContracts, B!KeysHold, B!ResultsHold, PTL

\* ------------------------------------------------------------------------
\* What the harness knows between two steps.

\* An event of the log l carries this body.
Carries(l, type, body) == \E i \in DOMAIN l : l[i].type = type /\ l[i].body = body

SameCommand(a, b) == B!IdempotencyFingerprint(a) = B!IdempotencyFingerprint(b)

\* What the harness records of a call the broker accepted.
ReceiptOf(e) == Admitted(e.result.receipt, ReceiptEventId(e.command.commandId))
ObservationOf(e) == Admitted(e.result.observation, ObservationEventId(e.command.commandId))

EffectOf(e) ==
    [receipt |-> ReceiptOf(e),
     observation |-> IF e.result.observation = Null THEN Null ELSE ObservationOf(e),
     event |-> IF e.result.observation = Null THEN ReceiptEventId(e.command.commandId)
               ELSE ObservationEventId(e.command.commandId)]

IsLogged(l, effect) ==
    /\ Carries(l, "EffectReceiptRecorded", effect.receipt)
    /\ effect.observation # Null =>
          \E i \in DOMAIN l : /\ l[i].type = "ExternalStateObserved" /\ l[i].id = effect.event
                              /\ l[i].body = effect.observation

Accepted == {e \in DOMAIN executions : executions[e].outcome = "accepted"}

\* The kernel's own ids of the proposals and requests of a run.
EventIds(type) == (1..MaxEvents) \X {type}

\* A dispatch under way is the broker's dispatch of the command proposed.
IsAsked(d) ==
    /\ jobs[d].command \in ToolCommands
    /\ jobs[d].proposal \in EventIds("ProposalReceived")
    /\ B!Engaged(d) => B!AskedBy(d) = jobs[d].command

\* A result being recorded is that of an accepted call of the command, or of one
\* the broker takes for the same.
IsAnswered(d) ==
    /\ jobs[d].request \in EventIds("EffectRequested")
    /\ \E e \in Accepted : /\ executions[e].result = jobs[d].result
                           /\ SameCommand(executions[e].command, jobs[d].command)
    /\ jobs[d] = [at |-> jobs[d].at, command |-> jobs[d].command, candidate |-> jobs[d].candidate,
                  result |-> jobs[d].result, request |-> jobs[d].request]

\* The receipt went first.
IsHalfRecorded(d) ==
    /\ jobs[d].result.observation # Null
    /\ Carries(log, "EffectReceiptRecorded",
               Admitted(jobs[d].result.receipt, ReceiptEventId(jobs[d].result.request.commandId)))

\* What a dispatch resolves with is logged, and of an accepted call.
IsResolved(d) ==
    /\ IsLogged(log, jobs[d].effect)
    /\ \E e \in Accepted : /\ jobs[d].effect = EffectOf(executions[e])
                           /\ ~EffectIdReused => SameCommand(executions[e].command, jobs[d].command)

JobHolds(d) ==
    /\ jobs[d].at # "waiting" => jobs[d].candidate \in FinalCandidates \cup {Null}
    /\ jobs[d].at = "dispatched" => IsAsked(d)
    /\ jobs[d].at \in {"receipt", "observation"} => IsAnswered(d)
    /\ jobs[d].at = "observation" => IsHalfRecorded(d)
    /\ jobs[d].at = "resolved" => IsResolved(d)

\* What is remembered under an effect id is logged, and of an accepted call of that id.
RecordedHolds ==
    \A id \in DOMAIN recorded :
        /\ IsLogged(log, recorded[id])
        /\ \E e \in Accepted : /\ executions[e].request.effectId = id
                               /\ recorded[id] = EffectOf(executions[e])

\* No adapter is called but for a command in the log.
CallsWereProposed ==
    \A e \in DOMAIN executions : Carries(log, "ProposalReceived", executions[e].command)

\* The evidence at i of a log l is of a call the broker accepted, its command proposed
\* before.
ReceiptHolds(l, i) ==
    \E e \in Accepted :
        /\ l[i].id = ReceiptEventId(executions[e].command.commandId)
        /\ l[i].body = ReceiptOf(executions[e])
        /\ \E j \in 1..(i - 1) : /\ l[j].type = "ProposalReceived"
                                 /\ l[j].body = executions[e].command

ObservationHolds(l, i) ==
    \E e \in Accepted : /\ executions[e].result.observation # Null
                        /\ l[i].body = ObservationOf(executions[e])

EvidenceHolds ==
    \A i \in DOMAIN log :
        /\ log[i].type = "EffectReceiptRecorded" => ReceiptHolds(log, i)
        /\ log[i].type = "ExternalStateObserved" => ObservationHolds(log, i)

HarnessInv ==
    /\ TypeOK
    /\ jobs = [d \in Callers |-> jobs[d]]
    /\ \A d \in Callers : JobHolds(d)
    /\ RecordedHolds
    /\ CallsWereProposed
    /\ EvidenceHolds

\* ------------------------------------------------------------------------
\* What stays true as the log and the history of calls grow.

\* What the log carries it goes on carrying.
LEMMA CarriedStays ==
    ASSUME Grows, NEW type, NEW body, Carries(log, type, body)
    PROVE  Carries(log', type, body)
BY Kept DEF Carries

\* An effect that is logged stays so.
LEMMA LoggedStays ==
    ASSUME Grows, NEW effect, IsLogged(log, effect)
    PROVE  IsLogged(log', effect)
<1>1. Carries(log', "EffectReceiptRecorded", effect.receipt)
  BY CarriedStays DEF IsLogged
<1>2. \A i \in DOMAIN log : i \in DOMAIN log' /\ log'[i] = log[i]
  BY Kept
<1> QED BY <1>1, <1>2 DEF IsLogged

\* An accepted call keeps its command, its request and its result.
LEMMA AcceptedStays ==
    ASSUME B!CallsKeep, NEW e \in Accepted
    PROVE  /\ e \in Accepted'
           /\ executions'[e].command = executions[e].command
           /\ executions'[e].request = executions[e].request
           /\ executions'[e].result = executions[e].result
           /\ EffectOf(executions'[e]) = EffectOf(executions[e])
           /\ ReceiptOf(executions'[e]) = ReceiptOf(executions[e])
           /\ ObservationOf(executions'[e]) = ObservationOf(executions[e])
<1>1. /\ e \in DOMAIN executions' /\ executions'[e].outcome = "accepted"
      /\ executions'[e].command = executions[e].command
      /\ executions'[e].request = executions[e].request
      /\ executions'[e].result = executions[e].result
  BY DEF B!CallsKeep, Accepted
<1>2. e \in Accepted'
  BY <1>1 DEF Accepted
<1>3. /\ ReceiptOf(executions'[e]) = ReceiptOf(executions[e])
      /\ ObservationOf(executions'[e]) = ObservationOf(executions[e])
  BY <1>1 DEF ReceiptOf, ObservationOf
<1>4. EffectOf(executions'[e]) = EffectOf(executions[e])
  BY <1>1, <1>3 DEF EffectOf
<1> QED BY <1>1, <1>2, <1>3, <1>4

\* An effect id that was used twice stays so.
LEMMA ReuseStays ==
    ASSUME B!CallsKeep, EffectIdReused
    PROVE  EffectIdReused'
BY DEF B!CallsKeep, EffectIdReused

\* What the broker is at work on for a caller, while it leaves that dispatch alone.
LEMMA AskedStays ==
    ASSUME B!CallsAreListed, B!CallsKeep, NEW d \in Callers, dispatches'[d] = dispatches[d]
    PROVE  /\ B!Engaged(d)' <=> B!Engaged(d)
           /\ B!AskedBy(d)' = B!AskedBy(d)
BY DEF B!CallsAreListed, B!CallsKeep, B!Engaged, B!AskedBy, B!Executing

\* A job that is left alone holds on.
LEMMA JobStays ==
    ASSUME Grows, B!CallsAreListed, B!CallsKeep, NEW d \in Callers, JobHolds(d),
           jobs'[d] = jobs[d],
           jobs[d].at = "dispatched" => dispatches'[d] = dispatches[d]
    PROVE  JobHolds(d)'
<1>1. ASSUME jobs[d].at = "dispatched" PROVE IsAsked(d)'
  BY <1>1, AskedStays DEF JobHolds, IsAsked
<1>2. ASSUME IsAnswered(d) PROVE IsAnswered(d)'
  BY <1>2, AcceptedStays DEF IsAnswered
<1>3. ASSUME IsHalfRecorded(d) PROVE IsHalfRecorded(d)'
  BY <1>3, CarriedStays DEF IsHalfRecorded
<1>4. ASSUME IsResolved(d) PROVE IsResolved(d)'
  BY <1>4, LoggedStays, AcceptedStays, ReuseStays DEF IsResolved
<1> QED BY <1>1, <1>2, <1>3, <1>4 DEF JobHolds

\* What is remembered stays logged, and of an accepted call.
LEMMA RecordedStays ==
    ASSUME Grows, B!CallsKeep, RecordedHolds, recorded' = recorded
    PROVE  RecordedHolds'
BY LoggedStays, AcceptedStays DEF RecordedHolds

\* The evidence of the log stays backed while none is added.
NoNewEvidence ==
    \A i \in DOMAIN log' :
        i \in 1..Len(log)
        \/ log'[i].type \notin {"EffectReceiptRecorded", "ExternalStateObserved"}

\* Evidence that was backed stays backed.
LEMMA OldEvidenceHolds ==
    ASSUME Grows, B!CallsKeep, EvidenceHolds, NEW i \in 1..Len(log)
    PROVE  /\ log'[i].type = "EffectReceiptRecorded" => ReceiptHolds(log, i)' 
           /\ log'[i].type = "ExternalStateObserved" => ObservationHolds(log, i)'
<1>1. i \in DOMAIN log /\ log'[i] = log[i] /\ \A j \in 1..(i - 1) : log'[j] = log[j]
  BY Kept
<1>2. ASSUME ReceiptHolds(log, i) PROVE ReceiptHolds(log, i)'
  BY <1>1, <1>2, AcceptedStays DEF ReceiptHolds
<1>3. ASSUME ObservationHolds(log, i) PROVE ObservationHolds(log, i)'
  BY <1>1, <1>3, AcceptedStays DEF ObservationHolds
<1> QED BY <1>1, <1>2, <1>3 DEF EvidenceHolds

\* All evidence stays backed while none is added.
LEMMA EvidenceStays ==
    ASSUME Grows, B!CallsKeep, EvidenceHolds, NoNewEvidence
    PROVE  EvidenceHolds'
BY OldEvidenceHolds DEF NoNewEvidence, EvidenceHolds

\* No new call, no new proposal needed.
LEMMA ProposedStays ==
    ASSUME Grows, B!CallsKeep, CallsWereProposed, DOMAIN executions' = DOMAIN executions
    PROVE  CallsWereProposed'
BY CarriedStays DEF CallsWereProposed, B!CallsKeep

\* ------------------------------------------------------------------------
\* What the harness takes from its broker.

\* A call the broker accepted: what was asked, what was answered, and what the
\* harness records of it.
LEMMA AcceptedIsSound ==
    ASSUME B!KeyInv, B!ResultInv, NEW e \in Accepted
    PROVE  LET x == executions[e]
           IN  /\ x.command \in ToolCommands
               /\ x.request = Broker!EffectRequest(x.command, Null)
               /\ x.result.request = x.request
               /\ x.request.commandId = x.command.commandId
               /\ x.request.effectId = <<"effect", SanitizeId(x.command.commandId)>>
               /\ x.result.receipt.capabilityId = x.command.capabilityId
               /\ x.result.receipt.effectId = x.request.effectId
               /\ \E answer \in AnswersTo(x.request) :
                     /\ Proper(answer) /\ x.result.receipt = answer.receipt
                     /\ x.result.observation = answer.observation
<1> DEFINE x == executions[e]
<1>1. e \in DOMAIN executions /\ x.outcome = "accepted"
  BY DEF Accepted
<1>2. x.command \in ToolCommands /\ x.request = B!EffectRequest(x.command, Null)
  BY <1>1 DEF B!KeyInv, B!CallsAreListed
<1>3. B!IsSound(x)
  BY <1>1 DEF B!ResultInv
<1> HIDE DEF x
<1>4. x.request = Broker!EffectRequest(x.command, Null)
  BY <1>2, SameChecks
<1>5. /\ x.request.commandId = x.command.commandId
      /\ x.request.capabilityId = x.command.capabilityId
      /\ x.request.effectId = <<"effect", SanitizeId(x.command.commandId)>>
  BY <1>4 DEF Broker!EffectRequest
<1>6. PICK answer \in AnswersTo(x.request) :
         /\ B!Proper(answer)
         /\ x.result = [request |-> x.request, receipt |-> answer.receipt,
                        observation |-> answer.observation]
  BY <1>3 DEF B!IsSound
<1>7. /\ x.result.request = x.request /\ x.result.receipt = answer.receipt
      /\ x.result.observation = answer.observation
  BY <1>6
<1>8. Proper(answer)
  BY <1>6 DEF Proper, B!Proper
<1>9. /\ x.result.receipt.capabilityId = x.request.capabilityId
      /\ x.result.receipt.effectId = x.request.effectId
  BY <1>3 DEF B!IsSound
<1> QED BY <1>2, <1>4, <1>5, <1>6, <1>7, <1>8, <1>9 DEF x

\* Admission changes the evidence of a record and nothing else.
LEMMA AdmittedKeeps ==
    ASSUME NEW record, NEW id, NEW f \in DOMAIN record, f # "evidence"
    PROVE  Admitted(record, id)[f] = record[f]
BY DEF Admitted

\* What the harness records is what it may, and says what the adapter said.
LEMMA RecordsAreInputs ==
    ASSUME B!KeyInv, B!ResultInv, NEW e \in Accepted
    PROVE  LET x == executions[e]
           IN  /\ ReceiptOf(x) \in EffectReceipts
               /\ \A f \in {"effectId", "runId", "capabilityId", "status", "receiptType", "payload"} :
                     ReceiptOf(x)[f] = x.result.receipt[f]
               /\ x.result.observation # Null =>
                     /\ ObservationOf(x) \in Observations
                     /\ ObservationOf(x).subject = x.result.observation.subject
                     /\ ObservationOf(x).state = x.result.observation.state
<1> DEFINE x == executions[e]
<1>1. x.command \in ToolCommands
  BY AcceptedIsSound
<1>2. PICK answer \in AnswersTo(Broker!EffectRequest(x.command, Null)) :
         /\ Proper(answer) /\ x.result.receipt = answer.receipt
         /\ x.result.observation = answer.observation
  BY AcceptedIsSound
<1> HIDE DEF x
<1>3. /\ Admitted(answer.receipt, ReceiptEventId(x.command.commandId)) \in EffectReceipts
      /\ answer.observation # Null =>
            Admitted(answer.observation, ObservationEventId(x.command.commandId)) \in Observations
  BY <1>1, <1>2, HarnessInputs
<1>4. /\ {"effectId", "runId", "capabilityId", "status", "receiptType", "payload", "evidence"}
            \subseteq DOMAIN answer.receipt
      /\ answer.observation # Null =>
            {"subject", "state", "evidence"} \subseteq DOMAIN answer.observation
  BY <1>1, <1>2, HarnessContracts
<1>5. \A f \in {"effectId", "runId", "capabilityId", "status", "receiptType", "payload"} :
         ReceiptOf(x)[f] = x.result.receipt[f]
  BY <1>2, <1>4, AdmittedKeeps DEF ReceiptOf
<1>6. x.result.observation # Null =>
         /\ ObservationOf(x).subject = x.result.observation.subject
         /\ ObservationOf(x).state = x.result.observation.state
  BY <1>2, <1>4, AdmittedKeeps DEF ObservationOf
<1> QED BY <1>2, <1>3, <1>5, <1>6 DEF ReceiptOf, ObservationOf, x

\* What the broker has ready for a dispatch is the result of an accepted call of the
\* command, or of one it takes for the same.
LEMMA ReturnedIsAccepted ==
    ASSUME B!KeyInv, B!ResultInv, NEW d \in Callers, JobHolds(d),
           jobs[d].at = "dispatched", dispatches[d].at = "returned"
    PROVE  \E e \in Accepted : /\ executions[e].result = dispatches[d].result
                              /\ SameCommand(executions[e].command, jobs[d].command)
<1>1. PICK e \in DOMAIN executions :
         /\ executions[e].outcome = "accepted" /\ executions[e].result = dispatches[d].result
         /\ B!IdempotencyFingerprint(executions[e].command)
               = B!IdempotencyFingerprint(dispatches[d].command)
  BY DEF B!ResultInv, B!Backed
<1>2. dispatches[d].command = jobs[d].command
  BY DEF JobHolds, IsAsked, B!Engaged, B!AskedBy, B!Executing
<1> QED BY <1>1, <1>2 DEF Accepted, SameCommand

\* ------------------------------------------------------------------------
\* What the harness does to the log.

\* One event, of this type and body, under the id the kernel chose or was given.
Appended(type, body, id) ==
    /\ Grows /\ Len(log') = Len(log) + 1
    /\ log'[Len(log) + 1].type = type
    /\ log'[Len(log) + 1].body = body
    /\ log'[Len(log) + 1].id = id

\* A record the kernel takes is one event more.
LEMMA RecordAppends ==
    ASSUME TypeOK, NEW type, NEW body, NEW cause, NEW id, Defaults(cause, id) \in EventOptions,
           RecordEvent(type, body, Defaults(cause, id))
    PROVE  /\ Appended(type, body, Given(id, NextEventId(type)))
           /\ Len(log) < MaxEvents
<1> DEFINE o == Defaults(cause, id)
<1>1. IsList(log)
  BY DEF TypeOK, IsList
<1>2. Len(log) < MaxEvents
  BY DEF RecordEvent, CanRecord
<1>3. o.eventId = id
  BY DEF Defaults
<1> HIDE DEF o
<1>4. /\ Grows /\ Len(log') = Len(log) + 1
      /\ Newest = NewEvent(type, body, o, Given(o.causationId, started))
  BY <1>1, RecordStep DEF o
<1>5. Newest.id = Given(id, NextEventId(type)) /\ Newest.type = type /\ Newest.body = body
  BY <1>3, <1>4 DEF NewEvent
<1> QED BY <1>2, <1>4, <1>5 DEF Appended, Newest

\* What an appended event carries, the log carries.
LEMMA AppendedIsCarried ==
    ASSUME NEW type, NEW body, NEW id, Appended(type, body, id)
    PROVE  /\ Len(log) + 1 \in DOMAIN log' /\ log'[Len(log')] = log'[Len(log) + 1]
           /\ Carries(log', type, body)
           /\ \A i \in DOMAIN log' : i \in 1..Len(log) \/ i = Len(log) + 1
           /\ type \notin {"EffectReceiptRecorded", "ExternalStateObserved"} => NoNewEvidence
<1>1. /\ Grows /\ Len(log') = Len(log) + 1 /\ log'[Len(log) + 1].type = type
      /\ log'[Len(log) + 1].body = body
  BY DEF Appended
<1>2. /\ Len(log) + 1 \in DOMAIN log' /\ log'[Len(log')] = log'[Len(log) + 1]
      /\ \A i \in DOMAIN log' : i \in 1..Len(log) \/ i = Len(log) + 1
  BY <1>1 DEF Grows
<1> QED BY <1>1, <1>2 DEF Carries, NoNewEvidence

\* A step that leaves the log alone.
LEMMA SilenceGrows ==
    ASSUME TypeOK, log' = log
    PROVE  Grows /\ NoNewEvidence
<1>1. log \in Seq(Elements(log))
  BY DEF TypeOK
<1>2. Len(log) \in Nat /\ DOMAIN log = 1..Len(log)
  BY <1>1
<1>3. IsList(log')
  BY <1>1 DEF IsList, Elements
<1> QED BY <1>2, <1>3 DEF Grows, NoNewEvidence

\* A final candidate brings no evidence.
LEMMA CandidateGrows ==
    ASSUME TypeOK, NEW c \in FinalCandidates, NEW o \in FinalOptions, NEW t,
           SubmitFinalCandidate(c, o, t)
    PROVE  Grows /\ NoNewEvidence
<1>1. FinalStep(c, o)
  BY FinalStepHolds DEF TypeOK, IsList
<1>2. /\ Grows /\ Len(log') >= Len(log) + 1
      /\ log'[Len(log) + 1].type = "ProposalReceived"
      /\ \A i \in (Len(log) + 2)..Len(log') : log'[i].type \in FinalTypes
  BY <1>1 DEF FinalStep, Newest, NewEvent
<1>3. ASSUME NEW i \in DOMAIN log', i \notin 1..Len(log)
      PROVE  i = Len(log) + 1 \/ i \in (Len(log) + 2)..Len(log')
  BY <1>2, <1>3 DEF Grows
<1> QED BY <1>2, <1>3 DEF NoNewEvidence, FinalTypes
\* ------------------------------------------------------------------------
\* The steps of the harness

\* A step is the kernel's own, or leaves it alone.
LEMMA KernelMoves ==
    ASSUME TypeOK, [Next]_vars
    PROVE  TypeOK' /\ Grows
<1>1. CASE Next
  BY <1>1, StepsKeepTypes, StepsExtend DEF Extends
<1>2. CASE UNCHANGED vars
  <2>1. TypeOK'
    BY <1>2 DEF TypeOK, vars
  <2> QED BY <1>2, <2>1, SilenceGrows DEF vars
<1> QED BY <1>1, <1>2

\* What is known before a step, and of what the broker does in it.
Ready == HarnessInv /\ B!KeyInv /\ B!ResultInv /\ B!CallsKeep

\* The dispatches of the callers other than d go on.
LeavesOthers(d) == \A o \in Callers : o # d => dispatches'[o] = dispatches[o]

\* A step of one caller keeps the invariant when its own job does.
LEMMA OneJobMoves ==
    ASSUME Ready, [Next]_vars, NEW d \in Callers, LeavesOthers(d), NEW job,
           jobs' = [jobs EXCEPT ![d] = job], jobs'[d] = job => JobHolds(d)',
           RecordedHolds', CallsWereProposed', EvidenceHolds'
    PROVE  HarnessInv'
<1>1. TypeOK' /\ Grows
  BY KernelMoves DEF Ready, HarnessInv
<1>2. jobs = [o \in Callers |-> jobs[o]] /\ \A o \in Callers : JobHolds(o)
  BY DEF Ready, HarnessInv
<1>3. /\ jobs' = [o \in Callers |-> jobs'[o]]
      /\ jobs'[d] = job
      /\ \A o \in Callers : o # d => jobs'[o] = jobs[o]
  BY <1>2
<1>4. ASSUME NEW o \in Callers PROVE JobHolds(o)'
  <2>1. CASE o = d
    BY <1>3, <2>1
  <2>2. CASE o # d
    BY <1>1, <1>2, <1>3, <2>2, JobStays DEF LeavesOthers, Ready, B!KeyInv
  <2> QED BY <2>1, <2>2
<1> QED BY <1>1, <1>3, <1>4 DEF HarnessInv

\* So does a step of no job.
LEMMA NoJobMoves ==
    ASSUME Ready, [Next]_vars, jobs' = jobs, recorded' = recorded, executions' = executions,
           dispatches' = dispatches, NoNewEvidence
    PROVE  HarnessInv'
<1>1. TypeOK' /\ Grows
  BY KernelMoves DEF Ready, HarnessInv
<1>2. \A o \in Callers : JobHolds(o)'
  BY <1>1, JobStays DEF Ready, HarnessInv, B!KeyInv
<1>3. RecordedHolds' /\ CallsWereProposed' /\ EvidenceHolds'
  BY <1>1, RecordedStays, ProposedStays, EvidenceStays DEF Ready, HarnessInv
<1> QED BY <1>1, <1>2, <1>3 DEF Ready, HarnessInv

\* A caller whose call threw is as before it called.
LEMMA WaitingHolds ==
    ASSUME NEW d, jobs'[d] = Waiting
    PROVE  JobHolds(d)'
BY DEF JobHolds, Waiting

\* startRun
LEMMA StartHarnessStep ==
    ASSUME Ready, StartHarness
    PROVE  [Next]_vars /\ HarnessInv'
<1> DEFINE o == Defaults(Default, Default)
<1>1. o \in EventOptions /\ StartRun(o)
  BY HarnessInputs DEF StartHarness
<1> HIDE DEF o
<1>2. Next
  BY <1>1 DEF Next
<1>3. IsList(log)
  BY DEF Ready, HarnessInv, TypeOK, IsList
<1>4. /\ Grows /\ Len(log') = Len(log) + 1
      /\ Newest = NewEvent("RunStarted", [runId |-> RunId], o, Given(o.causationId, Null))
  BY <1>1, <1>3, StartStep
<1>5. Newest.type = "RunStarted"
  BY <1>4 DEF NewEvent
<1>6. NoNewEvidence
  BY <1>4, <1>5 DEF NoNewEvidence, Grows, Newest
<1>7. UNCHANGED <<jobs, recorded, executions, dispatches>>
  BY DEF StartHarness, brokerVars, harnessVars
<1> QED BY <1>2, <1>6, <1>7, NoJobMoves

\* A new adapter call is of the command dispatched.
LEMMA NewCallIsAsked ==
    ASSUME B!CallsAreListed, NEW d \in Callers, NEW c \in ToolCommands, B!DirectDispatch(d, c, Null)
    PROVE  \A e \in DOMAIN executions' : e \in DOMAIN executions \/ executions'[e].command = c
<1> DEFINE error == B!FirstOf(B!RegistrationError(c), B!DirectError(c))
<1>1. B!Dispatch(d, c, Null, Null, error)
  BY DEF B!DirectDispatch
<1> HIDE DEF error
<1>2. executions' = executions \/ B!Execute(d, c, Null, Null)
  BY <1>1, BrokerContracts, B!DispatchStep
<1>3. CASE B!Execute(d, c, Null, Null)
  <2>1. /\ DOMAIN executions = 1..Len(executions) /\ Len(executions) \in Nat
        /\ DOMAIN executions' = 1..(Len(executions) + 1)
        /\ executions'[Len(executions) + 1] =
              [command |-> c, request |-> B!EffectRequest(c, Null), preflight |-> Null,
               overlapped |-> B!OpenWith(c.idempotencyKey) # {}, outcome |-> "open",
               result |-> Null, capability |-> capabilities[c.capabilityId],
               adapter |-> adapters[B!AdapterKey(c)]]
    BY <1>3, BrokerContracts, B!ExecuteStep, ZenonT(30)
  <2>2. executions'[Len(executions) + 1].command = c
    BY <2>1
  <2> QED BY <2>1, <2>2
<1> QED BY <1>2, <1>3

\* The proposal is recorded before the broker hears of the command.
LEMMA DispatchToolCommandStep ==
    ASSUME Ready, NEW d \in Callers, NEW c \in ToolCommands, NEW f \in FinalCandidates \cup {Null},
           DispatchToolCommand(d, c, f)
    PROVE  [Next]_vars /\ HarnessInv'
<1> DEFINE o == Defaults(Default, Default)
           job == [at |-> "dispatched", command |-> c, candidate |-> f,
                   proposal |-> log'[Len(log')].id]
<1>1. /\ o \in EventOptions /\ SubmitToolCommand(c, o)
      /\ jobs' = [jobs EXCEPT ![d] = job] /\ recorded' = recorded
  BY HarnessInputs DEF DispatchToolCommand
<1>2. Next
  BY <1>1 DEF Next
<1>3. B!DirectDispatch(d, c, Null)
  BY SameDispatch DEF DispatchToolCommand
<1>4. Given(Default, NextEventId("ProposalReceived")) = NextEventId("ProposalReceived")
  BY DEF Given
<1>5. TypeOK
  BY DEF Ready, HarnessInv
<1>6. /\ Appended("ProposalReceived", c, NextEventId("ProposalReceived"))
      /\ Len(log) < MaxEvents
  BY <1>1, <1>4, <1>5, RecordAppends DEF SubmitToolCommand
<1>7. /\ Grows /\ Carries(log', "ProposalReceived", c) /\ NoNewEvidence
      /\ log'[Len(log')].id = <<Len(log) + 1, "ProposalReceived">>
  BY <1>6, AppendedIsCarried DEF Appended, NextEventId
<1>8. log'[Len(log')].id \in EventIds("ProposalReceived")
  BY <1>6, <1>7, HarnessInputs DEF EventIds, Grows
<1>9. /\ B!Engaged(d)' => B!AskedBy(d)' = c
      /\ LeavesOthers(d)
  BY <1>3, BrokerContracts, B!DispatchIsOwn DEF Ready, B!KeyInv, LeavesOthers
<1>10. ASSUME jobs'[d] = job PROVE JobHolds(d)'
  BY <1>8, <1>9, <1>10 DEF JobHolds, IsAsked
<1>11. CallsWereProposed'
  <2>1. \A e \in DOMAIN executions' : e \in DOMAIN executions \/ executions'[e].command = c
    BY <1>3, NewCallIsAsked DEF Ready, B!KeyInv
  <2>2. \A e \in DOMAIN executions :
           /\ executions'[e].command = executions[e].command
           /\ Carries(log', "ProposalReceived", executions[e].command)
    BY <1>7, CarriedStays DEF Ready, HarnessInv, CallsWereProposed, B!CallsKeep
  <2> QED BY <1>7, <2>1, <2>2 DEF CallsWereProposed
<1>12. RecordedHolds' /\ EvidenceHolds'
  BY <1>1, <1>7, RecordedStays, EvidenceStays DEF Ready, HarnessInv
<1> HIDE DEF job
<1> QED BY <1>1, <1>2, <1>9, <1>10, <1>11, <1>12, OneJobMoves
\* An answer is the broker's affair: the dispatch stays that of its command.
LEMMA AdapterAnswersStep ==
    ASSUME Ready, NEW d \in Callers, AdapterAnswers(d)
    PROVE  [Next]_vars /\ HarnessInv'
<1>1. UNCHANGED <<vars, harnessVars>> /\ B!AdapterAnswers(d)
  BY SameAnswers DEF AdapterAnswers
<1>2. /\ B!Engaged(d)' => B!AskedBy(d)' = B!AskedBy(d)
      /\ B!Engaged(d) /\ LeavesOthers(d)
  BY <1>1, BrokerContracts, B!AnswerIsOwn DEF Ready, B!KeyInv, LeavesOthers
<1>3. DOMAIN executions' = DOMAIN executions
  <2>1. PICK answer : B!Executing(d) /\ B!Answered(d, answer)
    BY <1>1 DEF B!AdapterAnswers, B!Executing
  <2> QED BY <2>1, BrokerContracts, B!AnswerStep DEF Ready, B!KeyInv
<1>4. Grows /\ NoNewEvidence
  BY <1>1, SilenceGrows DEF Ready, HarnessInv, vars
<1>5. jobs = [o \in Callers |-> jobs[o]] /\ jobs' = jobs /\ recorded' = recorded /\ JobHolds(d)
  BY <1>1 DEF harnessVars, Ready, HarnessInv
<1>6. jobs' = [jobs EXCEPT ![d] = jobs[d]]
  BY <1>5
<1>7. ASSUME jobs'[d] = jobs[d] PROVE JobHolds(d)'
  <2>1. CASE jobs[d].at = "dispatched"
    BY <1>2, <1>5, <2>1 DEF JobHolds, IsAsked
  <2>2. CASE jobs[d].at # "dispatched"
    BY <1>4, <1>5, <2>2, JobStays DEF Ready, B!KeyInv
  <2> QED BY <2>1, <2>2
<1>8. RecordedHolds' /\ CallsWereProposed' /\ EvidenceHolds'
  BY <1>3, <1>4, <1>5, RecordedStays, ProposedStays, EvidenceStays DEF Ready, HarnessInv
<1> QED BY <1>1, <1>2, <1>6, <1>7, <1>8, OneJobMoves

\* What picking up a result leaves of the broker.
LEMMA PickUpStep ==
    ASSUME B!CallsAreListed, NEW d \in Callers, Broker!PickUp(d)
    PROVE  LeavesOthers(d) /\ executions' = executions
<1>1. dispatches = [o \in Callers |-> dispatches[o]]
  BY DEF B!CallsAreListed
<1> QED BY <1>1 DEF Broker!PickUp, LeavesOthers

\* A rejected dispatch leaves what it had recorded.
LEMMA DispatchFailedStep ==
    ASSUME Ready, NEW d \in Callers, DispatchFailed(d)
    PROVE  [Next]_vars /\ HarnessInv'
<1>1. /\ UNCHANGED vars /\ recorded' = recorded
      /\ jobs' = [jobs EXCEPT ![d] = Waiting]
      /\ LeavesOthers(d) /\ executions' = executions
  BY PickUpStep DEF DispatchFailed, CallThrows, Ready, B!KeyInv
<1>2. Grows /\ NoNewEvidence
  BY <1>1, SilenceGrows DEF Ready, HarnessInv, vars
<1>3. RecordedHolds' /\ CallsWereProposed' /\ EvidenceHolds'
  BY <1>1, <1>2, RecordedStays, ProposedStays, EvidenceStays DEF Ready, HarnessInv
<1> QED BY <1>1, <1>3, WaitingHolds, OneJobMoves

\* A remembered effect is that of a call of the same fingerprint, or an effect id is
\* shared by two.
LEMMA ReturnRecordedStep ==
    ASSUME Ready, NEW d \in Callers, ReturnRecorded(d)
    PROVE  [Next]_vars /\ HarnessInv'
<1> DEFINE id == dispatches[d].result.request.effectId
           job == [at |-> "resolved", command |-> jobs[d].command,
                   candidate |-> jobs[d].candidate, effect |-> recorded[id]]
<1>1. /\ UNCHANGED vars /\ recorded' = recorded
      /\ jobs' = [jobs EXCEPT ![d] = job]
      /\ LeavesOthers(d) /\ executions' = executions
      /\ jobs[d].at = "dispatched" /\ dispatches[d].at = "returned" /\ id \in DOMAIN recorded
  BY PickUpStep DEF ReturnRecorded, Resolve, AlreadyRecorded, Ready, B!KeyInv
<1>2. Grows /\ NoNewEvidence
  BY <1>1, SilenceGrows DEF Ready, HarnessInv, vars
<1>3. RecordedHolds' /\ CallsWereProposed' /\ EvidenceHolds'
  BY <1>1, <1>2, RecordedStays, ProposedStays, EvidenceStays DEF Ready, HarnessInv
<1>4. JobHolds(d) /\ jobs[d].candidate \in FinalCandidates \cup {Null}
  BY <1>1 DEF Ready, HarnessInv, JobHolds
<1>5. PICK e \in Accepted : /\ executions[e].result = dispatches[d].result
                            /\ SameCommand(executions[e].command, jobs[d].command)
  BY <1>1, <1>4, ReturnedIsAccepted DEF Ready
<1>6. executions[e].request.effectId = id
  BY <1>5, AcceptedIsSound DEF Ready
<1>7. PICK x \in Accepted : /\ executions[x].request.effectId = id
                            /\ recorded[id] = EffectOf(executions[x])
  BY <1>1 DEF Ready, HarnessInv, RecordedHolds
<1>8. ~EffectIdReused => SameCommand(executions[x].command, jobs[d].command)
  <2>1. e \in DOMAIN executions /\ x \in DOMAIN executions
    BY DEF Accepted
  <2> QED BY <1>5, <1>6, <1>7, <2>1, SameChecks DEF EffectIdReused, SameCommand
<1>9. IsLogged(log, recorded[id])
  BY <1>1 DEF Ready, HarnessInv, RecordedHolds
<1>10. ASSUME jobs'[d] = job PROVE JobHolds(d)'
  <2>1. x \in Accepted' /\ EffectOf(executions'[x]) = EffectOf(executions[x])
        /\ executions'[x].command = executions[x].command
    BY AcceptedStays DEF Ready
  <2>2. IsLogged(log', recorded[id])
    BY <1>2, <1>9, LoggedStays
  <2>3. EffectIdReused => EffectIdReused'
    BY ReuseStays DEF Ready
  <2> HIDE DEF id
  <2>4. /\ jobs'[d].at = "resolved" /\ jobs'[d].command = jobs[d].command
        /\ jobs'[d].candidate = jobs[d].candidate /\ jobs'[d].effect = recorded[id]
    BY <1>10
  <2> HIDE DEF job
  <2>5. IsResolved(d)'
    BY <1>7, <1>8, <2>1, <2>2, <2>3, <2>4 DEF IsResolved
  <2> QED BY <1>4, <2>4, <2>5 DEF JobHolds
<1> HIDE DEF job
<1> QED BY <1>1, <1>3, <1>10, OneJobMoves

\* The request is the one the adapter was given.
LEMMA RecordRequestStep ==
    ASSUME Ready, NEW d \in Callers, RecordRequest(d)
    PROVE  [Next]_vars /\ HarnessInv'
<1> DEFINE result == dispatches[d].result
           o == Defaults(jobs[d].proposal, Default)
           job == [at |-> "receipt", command |-> jobs[d].command, candidate |-> jobs[d].candidate,
                   result |-> result, request |-> log'[Len(log')].id]
<1>1. /\ RecordEffectRequest(result.request, o)
      /\ recorded' = recorded /\ jobs' = [jobs EXCEPT ![d] = job]
      /\ LeavesOthers(d) /\ executions' = executions
      /\ jobs[d].at = "dispatched" /\ dispatches[d].at = "returned"
  BY PickUpStep DEF RecordRequest, Ready, B!KeyInv
<1>2. /\ JobHolds(d) /\ jobs[d].candidate \in FinalCandidates \cup {Null}
      /\ jobs[d].proposal \in EventIds("ProposalReceived") /\ TypeOK
  BY <1>1 DEF Ready, HarnessInv, JobHolds, IsAsked
<1>3. PICK e \in Accepted : /\ executions[e].result = result
                            /\ SameCommand(executions[e].command, jobs[d].command)
  BY <1>1, <1>2, ReturnedIsAccepted DEF Ready
<1>4. result.request \in EffectRequests
  BY <1>3, AcceptedIsSound, HarnessInputs DEF Ready
<1>5. o \in EventOptions
  BY <1>2, HarnessInputs DEF EventIds
<1>6. Next
  <2> HIDE DEF o
  <2> QED BY <1>1, <1>4, <1>5 DEF Next
<1>7. Given(Default, NextEventId("EffectRequested")) = NextEventId("EffectRequested")
  BY DEF Given
<1>8. /\ Appended("EffectRequested", result.request, NextEventId("EffectRequested"))
      /\ Len(log) < MaxEvents
  BY <1>1, <1>2, <1>5, <1>7, RecordAppends DEF RecordEffectRequest
<1>9. /\ Grows /\ NoNewEvidence
      /\ log'[Len(log')].id = <<Len(log) + 1, "EffectRequested">>
  BY <1>8, AppendedIsCarried DEF Appended, NextEventId
<1>10. log'[Len(log')].id \in EventIds("EffectRequested")
  BY <1>8, <1>9, HarnessInputs DEF EventIds, Grows
<1>11. RecordedHolds' /\ CallsWereProposed' /\ EvidenceHolds'
  BY <1>1, <1>9, RecordedStays, ProposedStays, EvidenceStays DEF Ready, HarnessInv
<1>12. ASSUME jobs'[d] = job PROVE JobHolds(d)'
  <2>1. e \in Accepted' /\ executions'[e] = executions[e]
    BY <1>1, AcceptedStays DEF Ready
  <2> HIDE DEF result
  <2>2. IsAnswered(d)'
    BY <1>3, <1>10, <1>12, <2>1 DEF IsAnswered
  <2> QED BY <1>2, <1>12, <2>2 DEF JobHolds
<1> HIDE DEF job
<1> QED BY <1>1, <1>6, <1>11, <1>12, OneJobMoves
\* What is recorded of an accepted call joins what was.
LEMMA RecordedGrows ==
    ASSUME Ready, Grows, NEW e \in Accepted, IsLogged(log', EffectOf(executions[e])),
           recorded' = Broker!Registered(recorded, executions[e].request.effectId,
                                         EffectOf(executions[e]))
    PROVE  RecordedHolds'
<1> DEFINE id == executions[e].request.effectId
           effect == EffectOf(executions[e])
<1>1. /\ \A p \in DOMAIN recorded' :
            \/ p = id /\ recorded'[p] = effect
            \/ p \in DOMAIN recorded /\ recorded'[p] = recorded[p]
  <2> HIDE DEF id, effect
  <2>1. recorded' = Broker!Registered(recorded, id, effect)
    BY DEF id, effect
  <2> QED BY <2>1 DEF Broker!Registered
<1>2. /\ e \in Accepted' /\ executions'[e].request.effectId = id
      /\ EffectOf(executions'[e]) = effect
  BY AcceptedStays DEF Ready
<1>3. ASSUME NEW p \in DOMAIN recorded'
      PROVE  /\ IsLogged(log', recorded'[p])
             /\ \E x \in Accepted' : /\ executions'[x].request.effectId = p
                                     /\ recorded'[p] = EffectOf(executions'[x])
  <2> HIDE DEF id, effect
  <2>1. CASE p = id /\ recorded'[p] = effect
    BY <1>2, <2>1 DEF effect
  <2>2. CASE p \in DOMAIN recorded /\ recorded'[p] = recorded[p]
    <3>1. IsLogged(log', recorded[p])
      BY <2>2, LoggedStays DEF Ready, HarnessInv, RecordedHolds
    <3>2. PICK x \in Accepted : /\ executions[x].request.effectId = p
                                /\ recorded[p] = EffectOf(executions[x])
      BY <2>2 DEF Ready, HarnessInv, RecordedHolds
    <3>3. /\ x \in Accepted' /\ executions'[x].request.effectId = p
          /\ EffectOf(executions'[x]) = recorded[p]
      BY <3>2, AcceptedStays DEF Ready
    <3> QED BY <2>2, <3>1, <3>3
  <2> QED BY <1>1, <2>1, <2>2
<1> QED BY <1>3 DEF RecordedHolds

\* A dispatch that resolves with the effect of an accepted call of its command.
LEMMA ResolveHolds ==
    ASSUME Ready, Grows, NEW d \in Callers, NEW e \in Accepted,
           jobs[d].candidate \in FinalCandidates \cup {Null},
           SameCommand(executions[e].command, jobs[d].command),
           IsLogged(log', EffectOf(executions[e])),
           jobs'[d] = [at |-> "resolved", command |-> jobs[d].command,
                       candidate |-> jobs[d].candidate, effect |-> EffectOf(executions[e])]
    PROVE  JobHolds(d)'
<1>1. /\ e \in Accepted' /\ EffectOf(executions'[e]) = EffectOf(executions[e])
      /\ executions'[e].command = executions[e].command
  BY AcceptedStays DEF Ready
<1>2. /\ jobs'[d].at = "resolved" /\ jobs'[d].command = jobs[d].command
      /\ jobs'[d].candidate = jobs[d].candidate
      /\ jobs'[d].effect = EffectOf(executions[e])
  OBVIOUS
<1>3. IsResolved(d)'
  BY <1>1, <1>2 DEF IsResolved
<1> QED BY <1>2, <1>3 DEF JobHolds

\* A refused record ends the call and nothing else.
LEMMA ThrowHolds ==
    ASSUME Ready, NEW d \in Callers, CallThrows(d), UNCHANGED <<vars, recorded>>,
           UNCHANGED brokerVars
    PROVE  [Next]_vars /\ HarnessInv'
<1>1. /\ jobs' = [jobs EXCEPT ![d] = Waiting] /\ executions' = executions
      /\ LeavesOthers(d) /\ recorded' = recorded
  BY DEF CallThrows, brokerVars, LeavesOthers
<1>2. Grows /\ NoNewEvidence
  BY SilenceGrows DEF Ready, HarnessInv, vars
<1>3. RecordedHolds' /\ CallsWereProposed' /\ EvidenceHolds'
  BY <1>1, <1>2, RecordedStays, ProposedStays, EvidenceStays DEF Ready, HarnessInv
<1> QED BY <1>1, <1>3, WaitingHolds, OneJobMoves

\* The cases of RecordReceipt.
LEMMA ReceiptCases ==
    ASSUME NEW d, RecordReceipt(d)
    PROVE  LET result  == jobs[d].result
               eventId == ReceiptEventId(result.request.commandId)
               receipt == Admitted(result.receipt, eventId)
               effect  == [receipt |-> receipt, observation |-> Null, event |-> eventId]
           IN  /\ jobs[d].at = "receipt"
               /\ UNCHANGED brokerVars
               /\ \/ /\ RecordEffectReceipt(receipt, Defaults(jobs[d].request, eventId))
                     /\ \/ /\ result.observation = Null
                           /\ Resolve(d, effect)
                           /\ recorded' = Broker!Registered(recorded, result.request.effectId, effect)
                        \/ /\ result.observation # Null
                           /\ jobs' = [jobs EXCEPT ![d].at = "observation"]
                           /\ recorded' = recorded
                  \/ CallThrows(d) /\ UNCHANGED <<vars, recorded>>
BY Zenon DEF RecordReceipt

\* The cases of RecordObservation.
LEMMA ObservationCases ==
    ASSUME NEW d, RecordObservation(d)
    PROVE  LET result      == jobs[d].result
               eventId     == ObservationEventId(result.request.commandId)
               receiptId   == ReceiptEventId(result.request.commandId)
               observation == Admitted(result.observation, eventId)
               effect      == [receipt |-> Admitted(result.receipt, receiptId),
                               observation |-> observation, event |-> eventId]
           IN  /\ jobs[d].at = "observation"
               /\ UNCHANGED brokerVars
               /\ \/ /\ RecordExternalStateObservation(observation, Defaults(receiptId, eventId))
                     /\ Resolve(d, effect)
                     /\ recorded' = Broker!Registered(recorded, result.request.effectId, effect)
                  \/ CallThrows(d) /\ UNCHANGED <<vars, recorded>>
BY Zenon DEF RecordObservation
\* What a job that records has in hand: an accepted call of its command.
LEMMA AnsweredCall ==
    ASSUME Ready, NEW d \in Callers, jobs[d].at \in {"receipt", "observation"}
    PROVE  \E e \in Accepted :
              /\ SameCommand(executions[e].command, jobs[d].command)
              /\ executions[e].command \in ToolCommands
              /\ jobs[d].result = executions[e].result
              /\ jobs[d].result.request.commandId = executions[e].command.commandId
              /\ jobs[d].result.request.effectId = executions[e].request.effectId
<1>1. IsAnswered(d)
  BY DEF Ready, HarnessInv, JobHolds
<1>2. PICK e \in Accepted : /\ executions[e].result = jobs[d].result
                            /\ SameCommand(executions[e].command, jobs[d].command)
  BY <1>1 DEF IsAnswered
<1>3. /\ executions[e].command \in ToolCommands
      /\ executions[e].result.request = executions[e].request
      /\ executions[e].request.commandId = executions[e].command.commandId
  BY AcceptedIsSound DEF Ready
<1> QED BY <1>2, <1>3

\* New evidence of an accepted call is backed.
LEMMA NewEvidenceHolds ==
    ASSUME Ready, Grows, NEW n, n = Len(log) + 1, Len(log') = n,
           log'[n].type = "EffectReceiptRecorded" => ReceiptHolds(log, n)',
           log'[n].type = "ExternalStateObserved" => ObservationHolds(log, n)'
    PROVE  EvidenceHolds'
<1> SUFFICES ASSUME NEW i \in DOMAIN log'
             PROVE  /\ log'[i].type = "EffectReceiptRecorded" => ReceiptHolds(log, i)'
                    /\ log'[i].type = "ExternalStateObserved" => ObservationHolds(log, i)'
  BY DEF EvidenceHolds
<1>1. CASE i \in 1..Len(log)
  BY <1>1, OldEvidenceHolds DEF Ready, HarnessInv
<1>2. CASE i \notin 1..Len(log)
  <2>1. i = n
    BY <1>2 DEF Grows
  <2> QED BY <2>1
<1> QED BY <1>1, <1>2

\* The receipt is that of the accepted call, its command proposed before.
LEMMA RecordReceiptStep ==
    ASSUME Ready, NEW d \in Callers, RecordReceipt(d)
    PROVE  [Next]_vars /\ HarnessInv'
<1> DEFINE result == jobs[d].result
           id(e) == ReceiptEventId(executions[e].command.commandId)
           receipt(e) == ReceiptOf(executions[e])
           o(e) == Defaults(jobs[d].request, id(e))
           effect(e) == [receipt |-> receipt(e), observation |-> Null, event |-> id(e)]
<1>1. jobs[d].at = "receipt" /\ executions' = executions /\ LeavesOthers(d) /\ UNCHANGED brokerVars
  BY ReceiptCases DEF brokerVars, LeavesOthers
<1>2. PICK e \in Accepted :
         /\ SameCommand(executions[e].command, jobs[d].command)
         /\ executions[e].command \in ToolCommands
         /\ result = executions[e].result
         /\ result.request.commandId = executions[e].command.commandId
         /\ result.request.effectId = executions[e].request.effectId
  BY <1>1, AnsweredCall
<1>3. \/ /\ RecordEffectReceipt(receipt(e), o(e))
         /\ \/ /\ result.observation = Null
               /\ Resolve(d, effect(e))
               /\ recorded' = Broker!Registered(recorded, executions[e].request.effectId, effect(e))
            \/ /\ result.observation # Null
               /\ jobs' = [jobs EXCEPT ![d].at = "observation"]
               /\ recorded' = recorded
      \/ CallThrows(d) /\ UNCHANGED <<vars, recorded>>
  BY <1>2, ReceiptCases DEF ReceiptOf
<1>4. CASE CallThrows(d) /\ UNCHANGED <<vars, recorded>>
  BY <1>1, <1>4, ThrowHolds
<1>5. ASSUME RecordEffectReceipt(receipt(e), o(e))
      PROVE  /\ [Next]_vars
             /\ Appended("EffectReceiptRecorded", receipt(e), id(e))
  <2>1. receipt(e) \in EffectReceipts
    BY RecordsAreInputs DEF Ready
  <2>2. jobs[d].request \in EventIds("EffectRequested") /\ TypeOK
    BY <1>1 DEF Ready, HarnessInv, JobHolds, IsAnswered
  <2>3. o(e) \in EventOptions /\ id(e) # Default
    BY <1>2, <2>2, HarnessInputs DEF EventIds
  <2>4. Next
    <3> HIDE DEF o, receipt
    <3> QED BY <1>5, <2>1, <2>3 DEF Next
  <2>5. Given(id(e), NextEventId("EffectReceiptRecorded")) = id(e)
    BY <2>3 DEF Given
  <2> HIDE DEF id, receipt
  <2>6. Appended("EffectReceiptRecorded", receipt(e),
                 Given(id(e), NextEventId("EffectReceiptRecorded")))
    BY <1>5, <2>2, <2>3, RecordAppends DEF RecordEffectReceipt
  <2> QED BY <2>4, <2>5, <2>6
<1>6. ASSUME RecordEffectReceipt(receipt(e), o(e))
      PROVE  /\ Grows /\ Carries(log', "EffectReceiptRecorded", receipt(e))
             /\ CallsWereProposed' /\ EvidenceHolds'
  <2>1. Appended("EffectReceiptRecorded", receipt(e), id(e))
    BY <1>5, <1>6
  <2>2. Grows /\ Carries(log', "EffectReceiptRecorded", receipt(e)) /\ Len(log') = Len(log) + 1
    BY <2>1, AppendedIsCarried DEF Appended
  <2>3. CallsWereProposed'
    BY <1>1, <2>2, ProposedStays DEF Ready, HarnessInv
  <2> PICK n : n = Len(log) + 1
    OBVIOUS
  <2>4. /\ log'[n].type = "EffectReceiptRecorded" /\ log'[n].id = id(e)
        /\ log'[n].body = receipt(e)
    BY <2>1 DEF Appended
  <2>5. PICK j \in 1..Len(log) : log[j].type = "ProposalReceived" /\ log[j].body = executions[e].command
    BY <2>2 DEF Ready, HarnessInv, CallsWereProposed, Carries, Accepted, Grows
  <2>6. j \in 1..(n - 1) /\ log'[j] = log[j]
    BY <2>2, <2>5, Kept
  <2>7. e \in Accepted'
    BY AcceptedStays DEF Ready
  <2>8. ReceiptHolds(log, n)'
    BY <1>1, <2>4, <2>5, <2>6, <2>7 DEF ReceiptHolds
  <2>9. EvidenceHolds'
    BY <2>2, <2>4, <2>8, NewEvidenceHolds
  <2> QED BY <2>2, <2>3, <2>9
<1>7. jobs[d].candidate \in FinalCandidates \cup {Null} /\ IsAnswered(d)
  BY <1>1 DEF Ready, HarnessInv, JobHolds
<1>8. CASE /\ RecordEffectReceipt(receipt(e), o(e)) /\ result.observation = Null
           /\ Resolve(d, effect(e))
           /\ recorded' = Broker!Registered(recorded, executions[e].request.effectId, effect(e))
  <2>1. effect(e) = EffectOf(executions[e])
    BY <1>2, <1>8 DEF EffectOf
  <2>2. effect(e).receipt = receipt(e) /\ effect(e).observation = Null
    OBVIOUS
  <2> HIDE DEF effect, receipt
  <2>3. IsLogged(log', EffectOf(executions[e]))
    BY <1>6, <1>8, <2>1, <2>2 DEF IsLogged
  <2>4. RecordedHolds'
    BY <1>6, <1>8, <2>1, <2>3, RecordedGrows
  <2> DEFINE job == [at |-> "resolved", command |-> jobs[d].command,
                     candidate |-> jobs[d].candidate, effect |-> EffectOf(executions[e])]
  <2>5. jobs' = [jobs EXCEPT ![d] = job]
    BY <1>8, <2>1 DEF Resolve
  <2>6. jobs'[d] = job => JobHolds(d)'
    BY <1>2, <1>6, <1>7, <1>8, <2>3, ResolveHolds
  <2> HIDE DEF job
  <2> QED BY <1>1, <1>5, <1>6, <1>8, <2>4, <2>5, <2>6, OneJobMoves
<1>9. CASE /\ RecordEffectReceipt(receipt(e), o(e)) /\ result.observation # Null
           /\ jobs' = [jobs EXCEPT ![d].at = "observation"]
           /\ recorded' = recorded
  <2> DEFINE job == [jobs[d] EXCEPT !.at = "observation"]
  <2>1. jobs' = [jobs EXCEPT ![d] = job]
    BY <1>9
  <2>2. job = [at |-> "observation", command |-> jobs[d].command, candidate |-> jobs[d].candidate,
               result |-> jobs[d].result, request |-> jobs[d].request]
    BY <1>7 DEF IsAnswered
  <2> HIDE DEF job
  <2>3. ASSUME jobs'[d] = job PROVE JobHolds(d)'
    <3>1. /\ jobs'[d].at = "observation" /\ jobs'[d].candidate = jobs[d].candidate
          /\ jobs'[d].result = result /\ jobs'[d].request = jobs[d].request
          /\ jobs'[d].command = jobs[d].command
      BY <2>2, <2>3
    <3>2. jobs'[d] = [at |-> jobs'[d].at, command |-> jobs'[d].command,
                      candidate |-> jobs'[d].candidate, result |-> jobs'[d].result,
                      request |-> jobs'[d].request]
      BY <2>2, <2>3, <3>1
    <3>3. e \in Accepted'
      BY AcceptedStays DEF Ready
    <3>4. IsAnswered(d)'
      BY <1>1, <1>2, <1>7, <3>1, <3>2, <3>3 DEF IsAnswered
    <3>5. Carries(log', "EffectReceiptRecorded",
                  Admitted(jobs'[d].result.receipt, ReceiptEventId(jobs'[d].result.request.commandId)))
      BY <1>2, <1>6, <1>9, <3>1 DEF ReceiptOf
    <3>6. IsHalfRecorded(d)'
      BY <1>9, <3>1, <3>5 DEF IsHalfRecorded
    <3> QED BY <1>7, <3>1, <3>4, <3>6 DEF JobHolds
  <2>4. RecordedHolds'
    BY <1>6, <1>9, RecordedStays DEF Ready, HarnessInv
  <2> QED BY <1>1, <1>5, <1>6, <1>9, <2>1, <2>3, <2>4, OneJobMoves
<1> QED BY <1>3, <1>4, <1>8, <1>9
\* The observation is that of the same call.
LEMMA RecordObservationStep ==
    ASSUME Ready, NEW d \in Callers, RecordObservation(d)
    PROVE  [Next]_vars /\ HarnessInv'
<1> DEFINE result == jobs[d].result
           receiptId(e) == ReceiptEventId(executions[e].command.commandId)
           id(e) == ObservationEventId(executions[e].command.commandId)
           observation(e) == ObservationOf(executions[e])
           o(e) == Defaults(receiptId(e), id(e))
           effect(e) == [receipt |-> ReceiptOf(executions[e]), observation |-> observation(e),
                         event |-> id(e)]
<1>1. jobs[d].at = "observation" /\ executions' = executions /\ LeavesOthers(d) /\ UNCHANGED brokerVars
  BY ObservationCases DEF brokerVars, LeavesOthers
<1>2. PICK e \in Accepted :
         /\ SameCommand(executions[e].command, jobs[d].command)
         /\ executions[e].command \in ToolCommands
         /\ result = executions[e].result
         /\ result.request.commandId = executions[e].command.commandId
         /\ result.request.effectId = executions[e].request.effectId
  BY <1>1, AnsweredCall
<1>3. \/ /\ RecordExternalStateObservation(observation(e), o(e))
         /\ Resolve(d, effect(e))
         /\ recorded' = Broker!Registered(recorded, executions[e].request.effectId, effect(e))
      \/ CallThrows(d) /\ UNCHANGED <<vars, recorded>>
  BY <1>2, ObservationCases DEF ReceiptOf, ObservationOf
<1>4. CASE CallThrows(d) /\ UNCHANGED <<vars, recorded>>
  BY <1>1, <1>4, ThrowHolds
<1>5. /\ jobs[d].candidate \in FinalCandidates \cup {Null} /\ TypeOK
      /\ result.observation # Null
      /\ Carries(log, "EffectReceiptRecorded", ReceiptOf(executions[e]))
  BY <1>1, <1>2 DEF Ready, HarnessInv, JobHolds, IsHalfRecorded, ReceiptOf
<1>6. effect(e) = EffectOf(executions[e])
  BY <1>2, <1>5 DEF EffectOf
<1>7. CASE /\ RecordExternalStateObservation(observation(e), o(e))
           /\ Resolve(d, effect(e))
           /\ recorded' = Broker!Registered(recorded, executions[e].request.effectId, effect(e))
  <2>1. observation(e) \in Observations
    BY <1>2, <1>5, RecordsAreInputs DEF Ready
  <2>2. o(e) \in EventOptions /\ id(e) # Default
    BY <1>2, HarnessInputs
  <2>3. Next
    <3> HIDE DEF o, observation
    <3> QED BY <1>7, <2>1, <2>2 DEF Next
  <2>4. Given(id(e), NextEventId("ExternalStateObserved")) = id(e)
    BY <2>2 DEF Given
  <2>5. /\ effect(e).receipt = ReceiptOf(executions[e]) /\ effect(e).observation = observation(e)
        /\ effect(e).event = id(e)
    OBVIOUS
  <2> HIDE DEF id, observation, effect, receiptId
  <2>6. Appended("ExternalStateObserved", observation(e), id(e))
    BY <1>5, <1>7, <2>2, <2>4, RecordAppends DEF RecordExternalStateObservation
  <2> PICK n : n = Len(log) + 1
    OBVIOUS
  <2>7. /\ log'[n].type = "ExternalStateObserved" /\ log'[n].id = id(e)
        /\ log'[n].body = observation(e)
        /\ Grows /\ Len(log') = n /\ n \in DOMAIN log'
    BY <2>6, AppendedIsCarried DEF Appended
  <2>8. CallsWereProposed'
    BY <1>1, <2>7, ProposedStays DEF Ready, HarnessInv
  <2>9. /\ e \in Accepted' /\ executions'[e] = executions[e]
    BY <1>1, AcceptedStays DEF Ready
  <2>10. EvidenceHolds'
    <3>1. ObservationHolds(log, n)'
      BY <1>2, <1>5, <2>7, <2>9 DEF ObservationHolds, observation
    <3> QED BY <2>7, <3>1, NewEvidenceHolds
  <2>11. IsLogged(log', EffectOf(executions[e]))
    <3>1. Carries(log', "EffectReceiptRecorded", ReceiptOf(executions[e]))
      BY <1>5, <2>7, CarriedStays
    <3> QED BY <1>6, <2>5, <2>7, <3>1 DEF IsLogged
  <2>12. RecordedHolds'
    BY <1>6, <1>7, <2>7, <2>11, RecordedGrows
  <2> DEFINE job == [at |-> "resolved", command |-> jobs[d].command,
                     candidate |-> jobs[d].candidate, effect |-> EffectOf(executions[e])]
  <2>13. jobs' = [jobs EXCEPT ![d] = job]
    BY <1>6, <1>7 DEF Resolve
  <2>14. jobs'[d] = job => JobHolds(d)'
    BY <1>2, <1>5, <2>7, <2>11, ResolveHolds
  <2> HIDE DEF job
  <2> QED BY <1>1, <2>3, <2>8, <2>10, <2>12, <2>13, <2>14, OneJobMoves
<1> QED BY <1>3, <1>4, <1>7

\* A candidate is among what the kernel may be given.
LEMMA CandidateStep ==
    ASSUME Ready, NEW c \in FinalCandidates, NEW o \in FinalOptions, SubmitFinalCandidate(c, o, Now)
    PROVE  Next /\ Grows /\ NoNewEvidence
<1>1. Now \in Times
  BY HarnessContracts DEF Now
<1>2. Next
  BY <1>1 DEF Next
<1> QED BY <1>2, CandidateGrows DEF Ready, HarnessInv

\* runToRelease submits its candidate after the effect's event.
LEMMA ContinueStep ==
    ASSUME Ready, NEW d \in Callers, Continue(d)
    PROVE  [Next]_vars /\ HarnessInv'
<1>1. /\ jobs[d].at = "resolved"
      /\ jobs' = [jobs EXCEPT ![d] = Waiting]
      /\ \/ UNCHANGED vars
         \/ /\ jobs[d].candidate # Null
            /\ SubmitFinalCandidate(jobs[d].candidate, FinalDefaults(jobs[d].effect.event), Now)
      /\ UNCHANGED brokerVars /\ recorded' = recorded
  BY DEF Continue
<1>2. executions' = executions /\ LeavesOthers(d)
  BY <1>1 DEF brokerVars, LeavesOthers
<1>3. [Next]_vars /\ Grows /\ NoNewEvidence
  <2>1. CASE UNCHANGED vars
    BY <2>1, SilenceGrows DEF Ready, HarnessInv, vars
  <2>2. CASE /\ jobs[d].candidate # Null
             /\ SubmitFinalCandidate(jobs[d].candidate, FinalDefaults(jobs[d].effect.event), Now)
    <3>1. jobs[d].candidate \in FinalCandidates /\ IsResolved(d)
      BY <1>1, <2>2 DEF Ready, HarnessInv, JobHolds
    <3>2. PICK e \in Accepted : jobs[d].effect = EffectOf(executions[e])
      BY <3>1 DEF IsResolved
    <3>3. executions[e].command \in ToolCommands
      BY AcceptedIsSound DEF Ready
    <3>4. jobs[d].effect.event \in {ReceiptEventId(executions[e].command.commandId),
                                    ObservationEventId(executions[e].command.commandId)}
      BY <3>2 DEF EffectOf
    <3>5. FinalDefaults(jobs[d].effect.event) \in FinalOptions
      BY <3>3, <3>4, HarnessInputs
    <3> QED BY <2>2, <3>1, <3>5, CandidateStep
  <2> QED BY <1>1, <2>1, <2>2
<1>4. RecordedHolds' /\ CallsWereProposed' /\ EvidenceHolds'
  BY <1>1, <1>2, <1>3, RecordedStays, ProposedStays, EvidenceStays DEF Ready, HarnessInv
<1> QED BY <1>1, <1>2, <1>3, <1>4, WaitingHolds, OneJobMoves

\* A candidate on its own.
LEMMA SubmitCandidateStep ==
    ASSUME Ready, NEW c \in FinalCandidates, SubmitCandidate(c)
    PROVE  [Next]_vars /\ HarnessInv'
<1>1. /\ SubmitFinalCandidate(c, FinalDefaults(Default), Now)
      /\ UNCHANGED <<jobs, recorded, executions, dispatches>>
  BY DEF SubmitCandidate, brokerVars
<1>2. Next /\ NoNewEvidence
  BY <1>1, HarnessInputs, CandidateStep
<1> QED BY <1>1, <1>2, NoJobMoves

\* Every step of the harness is one of its kernel, or leaves it alone, and keeps the
\* invariant.
LEMMA HarnessStep ==
    ASSUME HarnessInv, B!KeyInv, B!ResultInv, [HarnessNext]_allVars
    PROVE  [Next]_vars /\ HarnessInv'
<1>1. Ready
  BY BrokerStep, BrokerContracts, B!CallsAreKept DEF Ready, B!KeyInv
<1>2. CASE UNCHANGED allVars
  <2>1. /\ UNCHANGED vars /\ UNCHANGED <<jobs, recorded, executions, dispatches>>
    BY <1>2 DEF allVars, brokerVars, harnessVars
  <2>2. NoNewEvidence
    BY <2>1, SilenceGrows DEF HarnessInv, vars
  <2> QED BY <1>1, <2>1, <2>2, NoJobMoves
<1>3. CASE HarnessNext
  BY <1>1, <1>3, StartHarnessStep, DispatchToolCommandStep, AdapterAnswersStep, DispatchFailedStep,
     ReturnRecordedStep, RecordRequestStep, RecordReceiptStep, RecordObservationStep, ContinueStep,
     SubmitCandidateStep DEF HarnessNext
<1> QED BY <1>2, <1>3

\* The harness starts with nothing in the log and nobody calling.
LEMMA HarnessStarts ==
    ASSUME HarnessInit
    PROVE  HarnessInv
<1>1. TypeOK
  BY InitHasTypes DEF HarnessInit
<1>2. /\ log = <<>> /\ jobs = [d \in Callers |-> Waiting] /\ recorded = <<>> /\ executions = <<>>
  BY DEF HarnessInit, Init, Broker!Init
<1>3. \A d \in Callers : JobHolds(d)
  BY <1>2 DEF JobHolds, Waiting
<1>4. jobs = [d \in Callers |-> jobs[d]]
  BY <1>2
<1> QED BY <1>1, <1>2, <1>3, <1>4
        DEF HarnessInv, RecordedHolds, CallsWereProposed, EvidenceHolds

\* What the harness knows between two awaits, for every run of it.
THEOREM HarnessHolds == HarnessSpec => [](HarnessInv /\ B!KeyInv /\ B!ResultInv)
<1>1. HarnessInit => HarnessInv
  BY HarnessStarts
<1>2. HarnessInv /\ B!KeyInv /\ B!ResultInv /\ [HarnessNext]_allVars => HarnessInv'
  BY HarnessStep
<1> QED BY <1>1, <1>2, BrokerInvariants, PTL DEF HarnessSpec

\* The harness uses its kernel as any caller may: LocalRunHarness has no way in but
\* the kernel's methods, and gives them what they take.
THEOREM HarnessDrivesKernel == HarnessSpec => Spec
<1>1. HarnessInit => Init
  BY DEF HarnessInit
<1>2. HarnessInv /\ B!KeyInv /\ B!ResultInv /\ [HarnessNext]_allVars => [Next]_vars
  BY HarnessStep
<1> QED BY <1>1, <1>2, HarnessHolds, PTL DEF HarnessSpec, Spec
\* ------------------------------------------------------------------------
\* What the harness promises.

\* No receipt is admitted that an adapter did not give, none twice
\* (#recordEffectLifecycle).
THEOREM ReceiptsAreExecuted == HarnessSpec => []ReceiptsWereExecuted
<1>1. HarnessInv /\ B!KeyInv /\ B!ResultInv /\ LogIntegrity => ReceiptsWereExecuted
  <2> SUFFICES ASSUME HarnessInv, B!KeyInv, B!ResultInv, LogIntegrity,
                      NEW i \in EventsOf("EffectReceiptRecorded")
               PROVE  /\ Executed(log[i].body)
                      /\ \E j \in EventsOf("ProposalReceived") :
                            /\ j < i
                            /\ log[j].body.kind = "tool_command_request"
                            /\ \E e \in DOMAIN executions :
                                  /\ executions[e].command = log[j].body
                                  /\ executions[e].request.effectId = log[i].body.effectId
                      /\ \A j \in EventsOf("EffectReceiptRecorded") :
                            log[j].body.effectId = log[i].body.effectId => j = i
    BY DEF ReceiptsWereExecuted
  <2>1. DOMAIN log = 1..Len(log) /\ Len(log) \in Nat
    BY DEF HarnessInv, TypeOK
  <2>2. ASSUME NEW k \in EventsOf("EffectReceiptRecorded")
        PROVE  \E e \in Accepted :
                  /\ Executed(log[k].body)
                  /\ log[k].id = ReceiptEventId(executions[e].command.commandId)
                  /\ log[k].body.effectId = executions[e].request.effectId
                  /\ log[k].body.effectId = <<"effect", SanitizeId(executions[e].command.commandId)>>
                  /\ \E j \in 1..(k - 1) : /\ log[j].type = "ProposalReceived"
                                           /\ log[j].body = executions[e].command
    <3>1. PICK e \in Accepted :
             /\ log[k].id = ReceiptEventId(executions[e].command.commandId)
             /\ log[k].body = ReceiptOf(executions[e])
             /\ \E j \in 1..(k - 1) : /\ log[j].type = "ProposalReceived"
                                      /\ log[j].body = executions[e].command
      BY DEF HarnessInv, EvidenceHolds, ReceiptHolds, EventsOf
    <3>2. \A f \in {"effectId", "runId", "capabilityId", "status", "receiptType", "payload"} :
             ReceiptOf(executions[e])[f] = executions[e].result.receipt[f]
      BY RecordsAreInputs
    <3>3. Executed(log[k].body)
      BY <3>1, <3>2 DEF Executed, Accepted
    <3>4. log[k].body.effectId = executions[e].result.receipt.effectId
      BY <3>1, <3>2
    <3>5. /\ executions[e].result.receipt.effectId = executions[e].request.effectId
          /\ executions[e].request.effectId =
                <<"effect", SanitizeId(executions[e].command.commandId)>>
      BY AcceptedIsSound
    <3> QED BY <3>1, <3>3, <3>4, <3>5
  <2>3. PICK e \in Accepted :
           /\ Executed(log[i].body)
           /\ log[i].id = ReceiptEventId(executions[e].command.commandId)
           /\ log[i].body.effectId = executions[e].request.effectId
           /\ log[i].body.effectId = <<"effect", SanitizeId(executions[e].command.commandId)>>
           /\ \E j \in 1..(i - 1) : /\ log[j].type = "ProposalReceived"
                                    /\ log[j].body = executions[e].command
    BY <2>2
  <2>4. PICK j \in 1..(i - 1) : /\ log[j].type = "ProposalReceived"
                                /\ log[j].body = executions[e].command
    BY <2>3
  <2>5. j \in EventsOf("ProposalReceived") /\ j < i
    BY <2>1, <2>4 DEF EventsOf
  <2>6. log[j].body.kind = "tool_command_request"
    <3>1. executions[e].command \in ToolCommands
      BY AcceptedIsSound
    <3> QED BY <2>4, <3>1, HarnessContracts
  <2>7. ASSUME NEW k \in EventsOf("EffectReceiptRecorded"),
               log[k].body.effectId = log[i].body.effectId
        PROVE  k = i
    <3>1. PICK x \in Accepted :
             /\ log[k].id = ReceiptEventId(executions[x].command.commandId)
             /\ log[k].body.effectId = <<"effect", SanitizeId(executions[x].command.commandId)>>
      BY <2>2
    <3>2. SanitizeId(executions[x].command.commandId) = SanitizeId(executions[e].command.commandId)
      BY <2>3, <2>7, <3>1
    <3>3. log[k].id = log[i].id
      BY <2>3, <3>1, <3>2 DEF ReceiptEventId
    <3> QED BY <3>3 DEF LogIntegrity, EventsOf
  <2> QED BY <2>3, <2>4, <2>5, <2>6, <2>7 DEF Accepted
<1> QED BY <1>1, HarnessHolds, HarnessDrivesKernel, LogStaysIntact, PTL

\* What is released happened: the log shows each claim, and what the log shows an
\* adapter said (runToRelease, from the tool to the final message).
THEOREM ReleasedHappened == HarnessSpec => []ReleasedClaimsHappened
<1>1. HarnessInv /\ B!KeyInv /\ B!ResultInv /\ ReleasesAreProven => ReleasedClaimsHappened
  <2> SUFFICES ASSUME HarnessInv, B!KeyInv, B!ResultInv, ReleasesAreProven,
                      NEW i \in EventsOf("FinalReleased"),
                      NEW c \in DOMAIN log[i].body.candidate.claims
               PROVE  LET predicate == log[i].body.candidate.claims[c].predicate
                      IN  \E e \in {x \in DOMAIN executions : executions[x].outcome = "accepted"} :
                            LET result == executions[e].result
                            IN  IF predicate.kind = "current_state"
                                THEN /\ result.observation # Null
                                     /\ result.observation.subject = predicate.subject
                                     /\ StateSatisfies(result.observation, predicate)
                                ELSE /\ result.receipt.status = "succeeded"
                                     /\ executions[e].command.capabilityId = predicate.capabilityId
                                     /\ result.receipt.receiptType = predicate.receiptType
                                     /\ PayloadMatches(result.receipt.payload, predicate.fields)
    BY DEF ReleasedClaimsHappened
  <2> DEFINE claim == log[i].body.candidate.claims[c]
             predicate == claim.predicate
  <2>0. PICK d \in DecisionOf(i) : \E p \in ProofOf(d) : ShownBefore(claim, p)
    BY DEF ReleasesAreProven, EventsOf, Is
  <2>1. PICK p \in ProofOf(d) : ShownBefore(claim, p)
    BY <2>0
  <2>2. 1..(p - 1) \subseteq DOMAIN log
    BY DEF DecisionOf, ProofOf, EventsOf, HarnessInv, TypeOK
  <2> HIDE DEF claim
  <2>3. CASE predicate.kind = "current_state"
    <3>1. PICK e \in 1..(p - 1) :
             /\ log[e].type = "ExternalStateObserved"
             /\ log[e].body.subject = predicate.subject
             /\ StateSatisfies(log[e].body, predicate)
      BY <2>1, <2>3 DEF ShownBefore, Is
    <3>2. PICK x \in Accepted : /\ executions[x].result.observation # Null
                                /\ log[e].body = ObservationOf(executions[x])
      BY <2>2, <3>1 DEF HarnessInv, EvidenceHolds, ObservationHolds
    <3>3. /\ log[e].body.subject = executions[x].result.observation.subject
          /\ log[e].body.state = executions[x].result.observation.state
      BY <3>2, RecordsAreInputs
    <3>4. StateSatisfies(executions[x].result.observation, predicate)
      BY <3>1, <3>3 DEF StateSatisfies
    <3> QED BY <2>3, <3>1, <3>2, <3>3, <3>4 DEF Accepted, claim
  <2>4. CASE predicate.kind # "current_state"
    <3>1. PICK e \in 1..(p - 1) :
             /\ log[e].type = "EffectReceiptRecorded" /\ log[e].body.status = "succeeded"
             /\ log[e].body.capabilityId = predicate.capabilityId
             /\ log[e].body.receiptType = predicate.receiptType
             /\ PayloadMatches(log[e].body.payload, predicate.fields)
      BY <2>1, <2>4 DEF ShownBefore, Is
    <3>2. PICK x \in Accepted : log[e].body = ReceiptOf(executions[x])
      BY <2>2, <3>1 DEF HarnessInv, EvidenceHolds, ReceiptHolds
    <3>3. \A f \in {"effectId", "runId", "capabilityId", "status", "receiptType", "payload"} :
             log[e].body[f] = executions[x].result.receipt[f]
      BY <3>2, RecordsAreInputs
    <3>4. executions[x].result.receipt.capabilityId = executions[x].command.capabilityId
      BY AcceptedIsSound
    <3>5. /\ executions[x].result.receipt.status = "succeeded"
          /\ executions[x].command.capabilityId = predicate.capabilityId
          /\ executions[x].result.receipt.receiptType = predicate.receiptType
          /\ PayloadMatches(executions[x].result.receipt.payload, predicate.fields)
      BY <3>1, <3>3, <3>4
    <3> QED BY <2>4, <3>5 DEF Accepted, claim
  <2> QED BY <2>3, <2>4
<1> QED BY <1>1, HarnessHolds, HarnessDrivesKernel, ReleasesAreSound, PTL

\* A dispatch hands out what the log holds, and an answer to its own command
\* (dispatchToolCommand).
THEOREM ResolvedStaysRecorded == HarnessSpec => []ResolvedIsRecorded
<1>1. HarnessInv /\ ReceiptsAnswerRequests => ResolvedIsRecorded
  <2> SUFFICES ASSUME HarnessInv, ReceiptsAnswerRequests, NEW d \in Callers, jobs[d].at = "resolved"
               PROVE  LET effect == jobs[d].effect
                          Holds(type, body) == {i \in EventsOf(type) : log[i].body = body}
                      IN  /\ \E i \in Holds("EffectReceiptRecorded", effect.receipt) :
                                \E j \in EventsOf("EffectRequested") :
                                    j < i /\ log[j].body.effectId = effect.receipt.effectId
                          /\ effect.observation # Null =>
                                \E i \in Holds("ExternalStateObserved", effect.observation) :
                                    log[i].id = effect.event
                          /\ ~EffectIdReused =>
                                \E e \in DOMAIN executions :
                                    /\ executions[e].outcome = "accepted"
                                    /\ effect.receipt = Admitted(executions[e].result.receipt,
                                          ReceiptEventId(executions[e].command.commandId))
                                    /\ Broker!IdempotencyFingerprint(executions[e].command)
                                          = Broker!IdempotencyFingerprint(jobs[d].command)
    BY DEF ResolvedIsRecorded
  <2> DEFINE effect == jobs[d].effect
  <2>1. IsResolved(d) /\ TypeOK
    BY DEF HarnessInv, JobHolds
  <2>2. PICK i \in DOMAIN log : log[i].type = "EffectReceiptRecorded" /\ log[i].body = effect.receipt
    BY <2>1 DEF IsResolved, IsLogged, Carries
  <2>3. PICK j \in 1..(i - 1) : /\ log[j].type = "EffectRequested"
                                /\ log[j].body.effectId = effect.receipt.effectId
    BY <2>2 DEF ReceiptsAnswerRequests, Is
  <2>4. j \in DOMAIN log /\ j < i
    BY <2>1, <2>2, <2>3 DEF TypeOK
  <2>5. effect.observation # Null =>
           \E k \in DOMAIN log : /\ log[k].type = "ExternalStateObserved" /\ log[k].id = effect.event
                                 /\ log[k].body = effect.observation
    BY <2>1 DEF IsResolved, IsLogged
  <2>6. ASSUME ~EffectIdReused
        PROVE  \E e \in DOMAIN executions :
                  /\ executions[e].outcome = "accepted"
                  /\ effect.receipt = Admitted(executions[e].result.receipt,
                                               ReceiptEventId(executions[e].command.commandId))
                  /\ Broker!IdempotencyFingerprint(executions[e].command)
                        = Broker!IdempotencyFingerprint(jobs[d].command)
    <3>1. PICK e \in Accepted : /\ effect = EffectOf(executions[e])
                                /\ SameCommand(executions[e].command, jobs[d].command)
      BY <2>1, <2>6 DEF IsResolved
    <3>2. effect.receipt = ReceiptOf(executions[e])
      BY <3>1 DEF EffectOf
    <3> QED BY <3>1, <3>2, SameChecks DEF Accepted, SameCommand, ReceiptOf
  <2> QED BY <2>2, <2>3, <2>4, <2>5, <2>6 DEF EventsOf
<1> QED BY <1>1, HarnessHolds, HarnessDrivesKernel, ReceiptsAreRequested, PTL
=============================================================================
