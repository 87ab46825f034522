---------------------------- MODULE EffectBroker ----------------------------
(***************************************************************************)
(* InMemoryEffectBroker (packages/effect-broker): registered capabilities  *)
(* and adapters, write preflight, and dispatch, which awaits the adapter   *)
(* between reading and writing the idempotency cache.                      *)
(*                                                                         *)
(*   capabilities  #capabilities by capability id                          *)
(*   adapters      #adapters by <<capability id, tool id>>                 *)
(*   decisions     #writePreflightDecisions by preflight id:               *)
(*                 [decision, fingerprint]                                 *)
(*   cache         #idempotencyCache by key: [fingerprint, quarantine,     *)
(*                 result], one of the last two Null                       *)
(*   dispatches    per caller the dispatch it has running, or what it      *)
(*                 ended with and the caller has not picked up yet         *)
(*   executions    history: every call of an adapter, with what preflight  *)
(*                 had last decided, who overlapped it and how it ended    *)
(*                                                                         *)
(* Data is abstracted to what the broker tells apart.  A hash of a command *)
(* is the record of the fields it covers.  "wellFormed" of a certification,*)
(* receipt, observation or evidence list: an object of the right fields    *)
(* with values of the right form.  "raw": it holds a raw-content field.    *)
(* "lifecycle" of a certification: Null, "governed" when it declares all   *)
(* that write adapters must, "deficient" otherwise.                        *)
(***************************************************************************)
EXTENDS Checks, Integers, Sequences, FiniteSets

\* EffectBrokerErrorCode, and what an adapter threw.
ErrorCodes ==
    {"adapter_certification_invalid", "adapter_certification_kind_forbidden",
     "adapter_certification_missing", "adapter_certification_mismatch",
     "adapter_certification_undeclared_observation", "adapter_certification_undeclared_receipt",
     "adapter_write_lifecycle_invalid", "adapter_write_lifecycle_missing",
     "adapter_observation_invalid", "adapter_observation_receipt_failed",
     "adapter_observation_undeclared", "adapter_receipt_invalid", "adapter_receipt_missing",
     "adapter_receipt_unknown", "adapter_write_quarantined", "capability_not_registered",
     "critical_write_requires_approval", "duplicate_idempotency_key_conflict",
     "idempotency_key_required", "receipt_effect_mismatch", "side_effect_class_mismatch",
     "tool_not_registered", "write_preflight_denied", "write_preflight_mismatch",
     "write_preflight_required", "write_preflight_not_applicable", "write_preflight_quarantined",
     "adapter_error"}

ASSUME NullIsNoError == Null \notin ErrorCodes

CONSTANTS
    CanonicalHash(_),
    SanitizeId(_),       \* replaces what is not a letter, digit, _ or -
    Callers,
    Commands,            \* [commandId, runId, capabilityId, toolId, args,
                         \*  sideEffectClass, idempotencyKey]
    InitialCapabilities, InitialAdapters,   \* what the constructor registers
    Capabilities, Adapters,                 \* what may be registered later
    AllowedAdapterKinds,
    PreflightIds,        \* ids callers choose; Null for the default
    DecisionTimes,
    EffectIds,           \* ids callers choose; Null for the default
    AnswersTo(_),        \* what an adapter may answer an effect request
    MaxExecutions        \* bound: no adapter call after this many

VARIABLES capabilities, adapters, decisions, cache, dispatches, executions

registry == <<capabilities, adapters>>
brokerVars == <<registry, decisions, cache, dispatches, executions>>

GovernedWrites == {"idempotent_write", "reversible_write", "irreversible_write"}
WriteCapable == GovernedWrites \cup {"critical_write"}
ReadKinds == {"external_read", "local_readonly"}

\* ------------------------------------------------------------------------
\* Certification

\* assertWriteLifecycleCertification
LifecycleError(cert) ==
    FirstError(IF cert.sideEffectClass \in GovernedWrites
               THEN << <<cert.lifecycle # Null, "adapter_write_lifecycle_missing">>,
                       <<cert.lifecycle = "governed" /\ cert.idempotency = "required_for_writes",
                         "adapter_write_lifecycle_invalid">> >>
               ELSE << <<cert.lifecycle = Null, "adapter_write_lifecycle_invalid">> >>)

\* assertAdapterKindMatchesSideEffect
KindMatchesClass(cert) ==
    /\ cert.adapterKind \in ReadKinds => cert.sideEffectClass \notin WriteCapable
    /\ cert.adapterKind = "external_write" => cert.sideEffectClass \in WriteCapable

\* assertAdapterCertificationIsValid
CertificationError(adapter) ==
    LET cert == adapter.certification
    IN  IF adapter.claimsAuthority THEN "adapter_certification_invalid"
        ELSE IF cert = Null THEN "adapter_certification_missing"
        ELSE FirstError(<<
            <<cert.wellFormed, "adapter_certification_invalid">>,
            <<cert.adapterKind \in AllowedAdapterKinds, "adapter_certification_kind_forbidden">>,
            <<cert.adapterId = adapter.adapterId /\ cert.capabilityId = adapter.capabilityId
                /\ cert.toolId = adapter.toolId, "adapter_certification_mismatch">>,
            <<cert.sideEffectClass # "critical_write", "critical_write_requires_approval">>,
            <<KindMatchesClass(cert), "adapter_certification_invalid">>,
            <<LifecycleError(cert) = Null, LifecycleError(cert)>> >>)

\* assertAdapterCertificationMatchesCapability
CapabilityError(adapter, capability) ==
    LET cert == adapter.certification
    IN  FirstError(<<
            <<cert.sideEffectClass = capability.sideEffectClass, "adapter_certification_mismatch">>,
            <<cert.receiptTypes \subseteq capability.receiptTypes,
              "adapter_certification_undeclared_receipt">>,
            <<cert.observationTypes \subseteq capability.observationTypes,
              "adapter_certification_undeclared_observation">> >>)

AdapterKey(command) == <<command.capabilityId, command.toolId>>

\* #capabilityFor, #adapterFor
LookupError(command) ==
    FirstError(<<
        <<command.capabilityId \in DOMAIN capabilities, "capability_not_registered">>,
        <<AdapterKey(command) \in DOMAIN adapters, "tool_not_registered">> >>)

\* The checks preflight and dispatch share: a capability, an adapter for it, and
\* that both still are what the command says.
RegistrationError(command) ==
    IF LookupError(command) # Null THEN LookupError(command)
        ELSE LET capability == capabilities[command.capabilityId]
                 adapter    == adapters[AdapterKey(command)]
             IN  IF CertificationError(adapter) # Null THEN CertificationError(adapter)
                 ELSE FirstError(<<
                    <<capability.sideEffectClass = command.sideEffectClass,
                      "side_effect_class_mismatch">>,
                    <<adapter.certification.sideEffectClass = command.sideEffectClass,
                      "adapter_certification_mismatch">>,
                    <<CapabilityError(adapter, capability) = Null,
                      CapabilityError(adapter, capability)>> >>)

\* A later registration replaces an earlier one.
Registered(table, place, entry) ==
    [p \in (DOMAIN table) \cup {place} |-> IF p = place THEN entry ELSE table[p]]

RegisterCapability(capability) ==
    /\ capabilities' = Registered(capabilities, capability.capabilityId, capability)
    /\ UNCHANGED <<adapters, decisions, cache, dispatches, executions>>

RegisterAdapter(adapter) ==
    /\ CertificationError(adapter) = Null
    /\ adapters' = Registered(adapters, <<adapter.capabilityId, adapter.toolId>>, adapter)
    /\ UNCHANGED <<capabilities, decisions, cache, dispatches, executions>>

\* ------------------------------------------------------------------------
\* Write preflight

PreflightIdOf(command, id) ==
    IF id = Null THEN <<"preflight", SanitizeId(command.commandId)>> ELSE id

\* preflightBlockReasonForBrokerError
BlockReason(error) ==
    CASE error \in {"capability_not_registered", "tool_not_registered"} -> error
      [] error = "critical_write_requires_approval" -> "critical_approval_required"
      [] error = "side_effect_class_mismatch" -> "policy_denied"
      [] OTHER -> "adapter_not_certified"

\* What preflightWrite makes of a command: a status and its reason.
PreflightVerdict(command) ==
    CASE command.sideEffectClass = "critical_write" ->
            <<"quarantined", "critical_approval_required">>
      [] command.sideEffectClass # "critical_write" /\ command.idempotencyKey = Null ->
            <<"denied", "missing_idempotency_key">>
      [] OTHER -> LET error == RegistrationError(command)
                  IN  IF error = Null THEN <<"allowed", Null>> ELSE <<"denied", BlockReason(error)>>

\* The decision names the command, not its arguments.
Decision(command, id, verdict, at) ==
    [status |-> verdict[1], reason |-> verdict[2], preflightId |-> PreflightIdOf(command, id),
     runId |-> command.runId, commandId |-> command.commandId,
     capabilityId |-> command.capabilityId, toolId |-> command.toolId,
     sideEffectClass |-> command.sideEffectClass,
     idempotencyKey |-> command.idempotencyKey, decidedAt |-> at]

\* writePreflightFingerprint covers every field of a command, arguments included.
PreflightFingerprint(command) == command

\* A later decision with the same preflight id replaces an earlier one.
PreflightWrite(command, id, at) ==
    LET decision == Decision(command, id, PreflightVerdict(command), at)
    IN  /\ command.sideEffectClass \in WriteCapable
        /\ decisions' = Registered(decisions, decision.preflightId,
                                   [decision |-> decision,
                                    fingerprint |-> PreflightFingerprint(command)])
        /\ UNCHANGED <<registry, cache, dispatches, executions>>

\* Mutant: a decision is not compared with the one the broker last made.
PreflightError_AnyDecision(command, decision) ==
    FirstError(<<
        <<decision.status = "allowed", "write_preflight_denied">>,
        <<decision = Decision(command, decision.preflightId, <<"allowed", Null>>,
                              decision.decidedAt), "write_preflight_mismatch">> >>)

\* assertWritePreflightAllowsDispatch
PreflightError(command, decision) ==
    LET known == decision.preflightId \in DOMAIN decisions
    IN  FirstError(<<
            <<command.sideEffectClass \in WriteCapable, "write_preflight_not_applicable">>,
            <<decision.status # "denied", "write_preflight_denied">>,
            <<decision.status # "quarantined", "write_preflight_quarantined">>,
            <<known, "write_preflight_mismatch">>,
            <<known => decision = decisions[decision.preflightId].decision,
              "write_preflight_mismatch">>,
            <<decision = Decision(command, decision.preflightId, <<"allowed", Null>>,
                                  decision.decidedAt), "write_preflight_mismatch">>,
            <<known => decisions[decision.preflightId].fingerprint = PreflightFingerprint(command),
              "write_preflight_mismatch">> >>)

\* ------------------------------------------------------------------------
\* Dispatch, up to the call of the adapter

Idle == [at |-> "idle"]
Threw(code) == [at |-> "threw", code |-> code]
Returned(command, status, result) ==
    [at |-> "returned", command |-> command, status |-> status, result |-> result]

\* assertDirectDispatchAllowed
DirectError(command) ==
    IF command.sideEffectClass \notin WriteCapable THEN Null
    ELSE IF command.idempotencyKey = Null THEN "idempotency_key_required"
    ELSE "write_preflight_required"

\* assertSideEffectIsDispatchable
DispatchableError(command) ==
    FirstError(<<
        <<command.sideEffectClass # "critical_write", "critical_write_requires_approval">>,
        <<command.sideEffectClass \in GovernedWrites => command.idempotencyKey # Null,
          "idempotency_key_required">> >>)

\* Mutant: the fingerprint forgets the arguments.
IdempotencyFingerprint_AnyArgs(command) ==
    [capabilityId |-> command.capabilityId, runId |-> command.runId,
     sideEffectClass |-> command.sideEffectClass, toolId |-> command.toolId,
     idempotencyKey |-> command.idempotencyKey]

\* idempotencyFingerprint: not the command id.
IdempotencyFingerprint(command) ==
    [args |-> command.args, capabilityId |-> command.capabilityId, runId |-> command.runId,
     sideEffectClass |-> command.sideEffectClass, toolId |-> command.toolId,
     idempotencyKey |-> command.idempotencyKey]

\* Mutant: a quarantined key counts as unknown.
Known_Results(key) == key # Null /\ key \in DOMAIN cache /\ cache[key].result # Null

Known(key) == key # Null /\ key \in DOMAIN cache

\* What the cache says of a key it knows.
FromCache(command) ==
    LET entry == cache[command.idempotencyKey]
    IN  IF entry.fingerprint # IdempotencyFingerprint(command)
        THEN Threw("duplicate_idempotency_key_conflict")
        ELSE IF entry.result = Null THEN Threw("adapter_write_quarantined")
        ELSE Returned(command, "cached", entry.result)

EffectRequest(command, effectId) ==
    [effectId |-> IF effectId = Null THEN <<"effect", SanitizeId(command.commandId)>> ELSE effectId,
     commandId |-> command.commandId, runId |-> command.runId,
     capabilityId |-> command.capabilityId, toolId |-> command.toolId, args |-> command.args,
     sideEffectClass |-> command.sideEffectClass, idempotencyKey |-> command.idempotencyKey]

\* A well-formed receipt has one of the statuses of the contract.
ASSUME AnswerShape ==
    \A command \in Commands, id \in EffectIds :
        \A answer \in AnswersTo(EffectRequest(command, id)) :
            /\ ~answer.throws
            /\ answer.wellFormed
            /\ answer.receipt # Null
            /\ answer.receipt.wellFormed
            => answer.receipt.status \in {"succeeded", "failed", "unknown"}

\* Adapter calls with the key that have not been answered.
OpenWith(key) ==
    {i \in DOMAIN executions : /\ executions[i].outcome = "open"
                               /\ key # Null
                               /\ executions[i].command.idempotencyKey = key}

Execute(d, command, effectId, preflight) ==
    LET met == OpenWith(command.idempotencyKey)
    IN  /\ Len(executions) < MaxExecutions
        /\ executions' = Append(
              [i \in DOMAIN executions |->
                  IF i \in met THEN [executions[i] EXCEPT !.overlapped = TRUE] ELSE executions[i]],
              [command |-> command, request |-> EffectRequest(command, effectId),
               preflight |-> preflight, overlapped |-> met # {}, outcome |-> "open", result |-> Null,
               capability |-> capabilities[command.capabilityId],
               adapter |-> adapters[AdapterKey(command)]])
        /\ dispatches' = [dispatches EXCEPT ![d] = [at |-> "executing",
                                                    execution |-> Len(executions) + 1]]

\* #dispatch up to its await.  Everything it throws before is thrown at once.
Dispatch(d, command, effectId, preflight, error) ==
    /\ dispatches[d] = Idle
    /\ IF error # Null \/ Known(command.idempotencyKey)
       THEN /\ dispatches' = [dispatches EXCEPT ![d] =
                                IF error # Null THEN Threw(error) ELSE FromCache(command)]
            /\ UNCHANGED executions
       ELSE Execute(d, command, effectId, preflight)
    /\ UNCHANGED <<registry, decisions, cache>>

FirstOf(a, b) == IF a # Null THEN a ELSE b

DirectDispatch(d, command, effectId) ==
    Dispatch(d, command, effectId, Null,
             FirstOf(RegistrationError(command), DirectError(command)))

DispatchWithPreflight(d, command, effectId, decision) ==
    Dispatch(d, command, effectId, decision,
             FirstOf(PreflightError(command, decision),
                     FirstOf(RegistrationError(command), DispatchableError(command))))

\* ------------------------------------------------------------------------
\* The adapter's answer

\* validatePendingEvidenceRefs: an adapter proposes evidence and admits none.
EvidenceIsPending(evidence) == \A ref \in evidence : ref.admissionStatus = "pending"

\* validateReceiptCandidate
ReceiptError(receipt, e) ==
    LET cert == e.adapter.certification
    IN  FirstError(<<
            <<receipt.wellFormed, "adapter_receipt_invalid">>,
            <<EvidenceIsPending(receipt.evidence), "adapter_receipt_invalid">>,
            <<cert.adapterKind \in ReadKinds => ~receipt.raw, "adapter_receipt_invalid">>,
            <<receipt.effectId = e.request.effectId /\ receipt.runId = e.request.runId
                /\ receipt.capabilityId = e.request.capabilityId, "receipt_effect_mismatch">>,
            <<receipt.status # "unknown", "adapter_receipt_unknown">>,
            <<CanonicalHash(receipt.payload) = receipt.payloadHash, "adapter_receipt_invalid">>,
            <<receipt.receiptType \in cert.receiptTypes, "adapter_receipt_invalid">>,
            <<receipt.receiptType \in e.capability.receiptTypes, "adapter_receipt_invalid">> >>)

\* validateExternalStateObservationCandidate
ObservationError(observation, receipt, e) ==
    LET cert == e.adapter.certification
    IN  FirstError(<<
            <<receipt.status = "succeeded", "adapter_observation_receipt_failed">>,
            <<observation.wellFormed, "adapter_observation_invalid">>,
            <<EvidenceIsPending(observation.evidence), "adapter_observation_invalid">>,
            <<cert.adapterKind \in ReadKinds => ~observation.raw, "adapter_observation_invalid">>,
            <<observation.runId = e.request.runId, "adapter_observation_invalid">>,
            <<CanonicalHash(observation.state) = observation.payloadHash,
              "adapter_observation_invalid">>,
            <<observation.expiresAt > observation.observedAt, "adapter_observation_invalid">>,
            <<observation.evidence # {}
                /\ \A ref \in observation.evidence :
                      ref.kind = "external_observation" /\ ref.hash = observation.payloadHash,
              "adapter_observation_invalid">>,
            <<observation.observationType \in e.capability.observationTypes,
              "adapter_observation_undeclared">>,
            <<observation.observationType \in cert.observationTypes,
              "adapter_observation_undeclared">> >>)

\* An answer is [throws] or [throws, wellFormed, receipt, observation].
AnswerError(answer, e) ==
    IF answer.throws THEN "adapter_error"
    ELSE IF ~answer.wellFormed THEN "adapter_receipt_invalid"
    ELSE IF answer.receipt = Null THEN "adapter_receipt_missing"
    ELSE IF ReceiptError(answer.receipt, e) # Null THEN ReceiptError(answer.receipt, e)
    ELSE IF answer.observation = Null THEN Null
    ELSE ObservationError(answer.observation, answer.receipt, e)

Remembered(key, entry) == IF key = Null THEN cache ELSE Registered(cache, key, entry)

\* writeDispatchQuarantineState
QuarantineState(e) ==
    [preflightId |-> e.preflight.preflightId, commandId |-> e.command.commandId,
     idempotencyKey |-> e.command.idempotencyKey, effectId |-> e.request.effectId,
     reason |-> "uncertain_external_effect"]

\* Mutant: an uncertain write is not remembered.
Refuse_Forgets(d, e, error) ==
    /\ dispatches' = [dispatches EXCEPT ![d] =
                         Threw(IF e.preflight # Null THEN "adapter_write_quarantined" ELSE error)]
    /\ executions' = [executions EXCEPT ![dispatches[d].execution].outcome = "refused"]
    /\ UNCHANGED cache

\* The catch block: a preflighted write is quarantined under its key, anything
\* else leaves no trace.
Refuse(d, e, error) ==
    /\ executions' = [executions EXCEPT ![dispatches[d].execution].outcome = "refused"]
    /\ IF e.preflight # Null
       THEN /\ cache' = Remembered(e.command.idempotencyKey,
                                   [fingerprint |-> IdempotencyFingerprint(e.command),
                                    quarantine |-> QuarantineState(e), result |-> Null])
            /\ dispatches' = [dispatches EXCEPT ![d] = Threw("adapter_write_quarantined")]
       ELSE /\ dispatches' = [dispatches EXCEPT ![d] = Threw(error)]
            /\ UNCHANGED cache

Accept(d, e, result) ==
    /\ executions' = [executions EXCEPT ![dispatches[d].execution].outcome = "accepted",
                                        ![dispatches[d].execution].result = result]
    /\ cache' = Remembered(e.command.idempotencyKey,
                           [fingerprint |-> IdempotencyFingerprint(e.command),
                            quarantine |-> Null, result |-> result])
    /\ dispatches' = [dispatches EXCEPT ![d] = Returned(e.command, "dispatched", result)]

\* The await resolves.  The cache is written without another look at it.
Answered(d, answer) ==
    LET e     == executions[dispatches[d].execution]
        error == AnswerError(answer, e)
    IN  /\ IF error = Null
           THEN Accept(d, e, [request |-> e.request, receipt |-> answer.receipt,
                              observation |-> answer.observation])
           ELSE Refuse(d, e, error)
        /\ UNCHANGED <<registry, decisions>>

AdapterAnswers(d) ==
    /\ dispatches[d].at = "executing"
    /\ \E answer \in AnswersTo(executions[dispatches[d].execution].request) : Answered(d, answer)

\* The caller gets the result or the error and may dispatch again.
PickUp(d) ==
    /\ dispatches[d].at \in {"returned", "threw"}
    /\ dispatches' = [dispatches EXCEPT ![d] = Idle]
    /\ UNCHANGED <<registry, decisions, cache, executions>>

\* ------------------------------------------------------------------------
\* The constructor; like a registration it refuses an adapter that is not certified.
Init ==
    /\ capabilities = [id \in {c.capabilityId : c \in InitialCapabilities} |->
                         CHOOSE c \in InitialCapabilities : c.capabilityId = id]
    /\ adapters = [p \in {<<a.capabilityId, a.toolId>> :
                            a \in {x \in InitialAdapters : CertificationError(x) = Null}} |->
                     CHOOSE a \in InitialAdapters : <<a.capabilityId, a.toolId>> = p]
    /\ decisions = <<>>
    /\ cache = <<>>
    /\ dispatches = [d \in Callers |-> Idle]
    /\ executions = <<>>

\* The decisions callers present: broker-issued or made up.
PresentedDecisions ==
    {Decision(c, id, <<"allowed", Null>>, t) :
        c \in {k \in Commands : k.sideEffectClass \in WriteCapable},
        id \in PreflightIds, t \in DecisionTimes}

Next ==
    \/ \E c \in Capabilities : RegisterCapability(c)
    \/ \E a \in Adapters : RegisterAdapter(a)
    \/ \E c \in Commands, id \in PreflightIds, t \in DecisionTimes : PreflightWrite(c, id, t)
    \/ \E d \in Callers, c \in Commands, id \in EffectIds : DirectDispatch(d, c, id)
    \/ \E d \in Callers, c \in Commands, id \in EffectIds, p \in PresentedDecisions :
          DispatchWithPreflight(d, c, id, p)
    \/ \E d \in Callers : AdapterAnswers(d) \/ PickUp(d)

Spec == Init /\ [][Next]_brokerVars

\* ------------------------------------------------------------------------
KeyOf(e) == e.command.idempotencyKey

\* No write reaches an adapter but on the decision the broker made last under its
\* preflight id, and that decision allowed this very command, arguments included;
\* whatever was registered since, adapter and capability still are what the command
\* says (dispatchWithPreflight, #dispatch).
WritesAreCleared ==
    [][\A i \in (DOMAIN executions') \ (DOMAIN executions) :
          LET e == executions'[i]
          IN  e.command.sideEffectClass \in WriteCapable =>
                /\ \E p \in DOMAIN decisions :
                      /\ decisions[p].decision = e.preflight
                      /\ decisions[p].fingerprint = e.command
                      /\ e.preflight.status = "allowed"
                /\ e.command.idempotencyKey # Null
                /\ {e.command.sideEffectClass, e.capability.sideEffectClass,
                    e.adapter.certification.sideEffectClass} \in {{c} : c \in GovernedWrites}
                /\ e.adapter.certification.receiptTypes \subseteq e.capability.receiptTypes
      ]_brokerVars

\* An idempotency key reaches an adapter twice only while the first call is still
\* unanswered (the cache is read before the await and written after it), or when
\* the first was a read that failed.  A write is never repeated after its answer,
\* however that answer was judged.
KeysRunOnce ==
    \A i, j \in DOMAIN executions :
        i < j /\ KeyOf(executions[i]) = KeyOf(executions[j]) /\ KeyOf(executions[i]) # Null =>
            \/ executions[i].overlapped /\ executions[j].overlapped
            \/ executions[i].outcome = "refused" /\ executions[i].preflight = Null

\* What a dispatch returns, cached or not, is what an adapter answered to an effect
\* of the same run, capability, tool, class, key and arguments; its receipt is of
\* that effect, intact and decided, an observation comes with success only, and
\* whatever evidence they carry is still to be admitted.
ResultsAreBacked ==
    \A d \in Callers : dispatches[d].at = "returned" =>
        LET result == dispatches[d].result
        IN  \E i \in DOMAIN executions :
              LET e == executions[i]
              IN  /\ e.outcome = "accepted" /\ e.result = result
                  /\ \A f \in {"runId", "capabilityId", "toolId", "sideEffectClass", "args",
                                "idempotencyKey"} :
                        e.command[f] = dispatches[d].command[f]
                  /\ result.request = e.request
                  /\ result.receipt.effectId = e.request.effectId
                  /\ result.receipt.status \in {"succeeded", "failed"}
                  /\ result.receipt.payloadHash = CanonicalHash(result.receipt.payload)
                  /\ result.receipt.receiptType \in e.capability.receiptTypes
                  /\ EvidenceIsPending(result.receipt.evidence)
                  /\ result.observation # Null =>
                        /\ result.receipt.status = "succeeded"
                        /\ EvidenceIsPending(result.observation.evidence)

\* What the broker remembers of a key, a quarantine above all, is replaced only by
\* the answer to a call that overlapped another one with the key.
CacheEntriesStay ==
    [][\A key \in DOMAIN cache :
          cache'[key] # cache[key] =>
              \E i \in DOMAIN executions :
                  /\ executions[i].outcome = "open" /\ executions'[i].outcome # "open"
                  /\ KeyOf(executions[i]) = key
                  /\ executions[i].overlapped
      ]_brokerVars
=============================================================================
