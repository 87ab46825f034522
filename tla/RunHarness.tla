----------------------------- MODULE RunHarness -----------------------------
(***************************************************************************)
(* LocalRunHarness (packages/harness): a run kernel and an effect broker   *)
(* put together.  dispatchToolCommand records a proposal, awaits the       *)
(* broker and records what came back; runToRelease goes on to submit a     *)
(* final candidate; candidates may also be submitted on their own.         *)
(*                                                                         *)
(*   jobs      per caller, where its call of the harness is                *)
(*   recorded  #recordedEffectsByEffectId: effect id -> recorded receipt   *)
(*             and the id of the event that came last                      *)
(*   busy      the caller whose code runs between two awaits; Null when    *)
(*             the event loop is free to pick any                          *)
(*                                                                         *)
(* What one caller does without awaiting is several kernel calls, any of   *)
(* which may throw; each is a step here, and "busy" keeps the others from  *)
(* coming between.  The broker names its callers as the harness does.      *)
(***************************************************************************)
EXTENDS RunKernel

CONSTANTS
    SanitizeId(_), Callers, InitialCapabilities, InitialAdapters, Capabilities, Adapters,
    AllowedAdapterKinds, AnswersTo(_), MaxExecutions,
    MaxCalls             \* bound: calls of the harness

VARIABLES capabilities, adapters, decisions, cache, dispatches, executions
VARIABLES jobs, recorded, busy, calls

Broker == INSTANCE EffectBroker
    WITH Commands <- ToolCommands, PreflightIds <- {}, DecisionTimes <- {}, EffectIds <- {Null}

brokerVars == <<capabilities, adapters, decisions, cache, dispatches, executions>>
harnessVars == <<jobs, recorded, busy, calls>>
allVars == <<vars, brokerVars, harnessVars>>

Waiting == [at |-> "waiting"]
Now == CHOOSE t \in Times : TRUE

Defaults(cause, id) == [eventId |-> id, causationId |-> cause, wellFormed |-> TRUE]

\* Mutant: the command id is taken as it is.
ReceiptEventId_Raw(commandId) == <<"receipt_recorded", commandId, 0>>

\* The ids under which evidence is admitted; unlike the kernel's own they can be
\* told in advance, so that a candidate can cite them.
ReceiptEventId(commandId) == <<"receipt_recorded", SanitizeId(commandId), 0>>
ObservationEventId(commandId) == <<"external_state_observed", SanitizeId(commandId), 0>>

\* admitReceiptEvidence and admitObservationEvidence: pending refs become admitted
\* ones that cite the event they are about to be recorded by.
Admitted(record, eventId) ==
    [record EXCEPT !.evidence =
        {[evidenceId |-> r.evidenceId, kind |-> r.kind, hash |-> r.hash,
          sourceEventId |-> eventId] : r \in record.evidence}]

\* ------------------------------------------------------------------------
StartHarness ==
    /\ busy = Null
    /\ StartRun(Defaults(Default, Default))
    /\ UNCHANGED <<brokerVars, harnessVars>>

\* The proposal and the broker's part up to its await, in one go.  "candidate" is
\* Null for dispatchToolCommand, or what runToRelease submits afterwards.
DispatchToolCommand(d, command, candidate) ==
    /\ busy = Null
    /\ jobs[d] = Waiting
    /\ calls < MaxCalls
    /\ SubmitToolCommand(command, Defaults(Default, Default))
    /\ Broker!DirectDispatch(d, command, Null)
    /\ jobs' = [jobs EXCEPT ![d] = [at |-> "dispatched", command |-> command,
                                    candidate |-> candidate, proposal |-> log'[Len(log')].id]]
    /\ calls' = calls + 1
    /\ UNCHANGED <<recorded, busy>>

AdapterAnswers(d) ==
    /\ busy = Null
    /\ Broker!AdapterAnswers(d)
    /\ UNCHANGED <<vars, harnessVars>>

\* The call of the harness throws; what it recorded stays.
CallThrows(d) ==
    /\ jobs' = [jobs EXCEPT ![d] = Waiting]
    /\ busy' = Null

\* The promise of dispatchToolCommand resolves with a recorded effect.
Resolve(d, effect) ==
    jobs' = [jobs EXCEPT ![d] = [at |-> "resolved", command |-> jobs[d].command,
                                 candidate |-> jobs[d].candidate, effect |-> effect]]

\* The broker rejected.
DispatchFailed(d) ==
    /\ busy = Null
    /\ jobs[d].at = "dispatched" /\ dispatches[d].at = "threw"
    /\ Broker!PickUp(d)
    /\ CallThrows(d)
    /\ UNCHANGED <<vars, recorded, calls>>

\* A cached effect this harness has recorded before.
AlreadyRecorded(d) ==
    dispatches[d].status = "cached" /\ dispatches[d].result.request.effectId \in DOMAIN recorded

ReturnRecorded(d) ==
    /\ busy = Null
    /\ jobs[d].at = "dispatched" /\ dispatches[d].at = "returned" /\ AlreadyRecorded(d)
    /\ Broker!PickUp(d)
    /\ Resolve(d, recorded[dispatches[d].result.request.effectId])
    /\ UNCHANGED <<vars, recorded, busy, calls>>

\* #recordEffectLifecycle begins: the request.
RecordRequest(d) ==
    /\ busy = Null
    /\ jobs[d].at = "dispatched" /\ dispatches[d].at = "returned" /\ ~AlreadyRecorded(d)
    /\ RecordEffectRequest(dispatches[d].result.request, Defaults(jobs[d].proposal, Default))
    /\ Broker!PickUp(d)
    /\ jobs' = [jobs EXCEPT ![d] = [at |-> "receipt", command |-> @.command,
                    candidate |-> @.candidate, result |-> dispatches[d].result,
                    request |-> log'[Len(log')].id]]
    /\ busy' = d
    /\ UNCHANGED <<recorded, calls>>

\* Mutant: a receipt the kernel refuses is handed out all the same.
RecordReceipt_Swallows(d) ==
    LET result  == jobs[d].result
        eventId == ReceiptEventId(result.request.commandId)
        receipt == Admitted(result.receipt, eventId)
        effect  == [receipt |-> receipt, observation |-> Null, event |-> eventId]
    IN  /\ jobs[d].at = "receipt"
        /\ \/ RecordEffectReceipt(receipt, Defaults(jobs[d].request, eventId))
           \/ /\ ~ENABLED RecordEffectReceipt(receipt, Defaults(jobs[d].request, eventId))
              /\ UNCHANGED vars
        /\ Resolve(d, effect)
        /\ busy' = Null
        /\ UNCHANGED <<brokerVars, recorded, calls>>

\* The receipt, with its pending evidence admitted.  Without an observation this
\* ends the lifecycle and the effect is remembered.
RecordReceipt(d) ==
    LET result  == jobs[d].result
        eventId == ReceiptEventId(result.request.commandId)
        receipt == Admitted(result.receipt, eventId)
        admit   == RecordEffectReceipt(receipt, Defaults(jobs[d].request, eventId))
        effect  == [receipt |-> receipt, observation |-> Null, event |-> eventId]
    IN  /\ jobs[d].at = "receipt"
        /\ \/ /\ admit
              /\ IF result.observation = Null
                 THEN /\ Resolve(d, effect)
                      /\ recorded' = Broker!Registered(recorded, result.request.effectId, effect)
                      /\ busy' = Null
                 ELSE /\ jobs' = [jobs EXCEPT ![d].at = "observation"]
                      /\ UNCHANGED <<recorded, busy>>
           \/ /\ ~ENABLED admit
              /\ CallThrows(d)
              /\ UNCHANGED <<vars, recorded>>
        /\ UNCHANGED <<brokerVars, calls>>

\* #recordExternalStateObservation
RecordObservation(d) ==
    LET result      == jobs[d].result
        eventId     == ObservationEventId(result.request.commandId)
        receiptId   == ReceiptEventId(result.request.commandId)
        observation == Admitted(result.observation, eventId)
        admit       == RecordExternalStateObservation(observation, Defaults(receiptId, eventId))
        effect      == [receipt |-> Admitted(result.receipt, receiptId),
                        observation |-> observation, event |-> eventId]
    IN  /\ jobs[d].at = "observation"
        /\ \/ /\ admit
              /\ Resolve(d, effect)
              /\ recorded' = Broker!Registered(recorded, result.request.effectId, effect)
              /\ busy' = Null
           \/ /\ ~ENABLED admit
              /\ CallThrows(d)
              /\ UNCHANGED <<vars, recorded>>
        /\ UNCHANGED <<brokerVars, calls>>

FinalDefaults(cause) ==
    [eventId |-> Default, causationId |-> cause, wellFormed |-> TRUE, proofEventId |-> Default,
     mismatchEventIds |-> Default, releaseEventId |-> Default, finalReleasedEventId |-> Default]

\* The caller's await resolves: a dispatch ends, runToRelease submits its candidate.
Continue(d) ==
    /\ busy = Null
    /\ jobs[d].at = "resolved"
    /\ jobs' = [jobs EXCEPT ![d] = Waiting]
    /\ IF jobs[d].candidate = Null THEN UNCHANGED vars
       ELSE SubmitFinalCandidate(jobs[d].candidate, FinalDefaults(jobs[d].effect.event), Now)
    /\ UNCHANGED <<brokerVars, recorded, busy, calls>>

\* submitFinalCandidate and reevaluateFinalCandidate
SubmitCandidate(candidate) ==
    /\ busy = Null
    /\ calls < MaxCalls
    /\ SubmitFinalCandidate(candidate, FinalDefaults(Default), Now)
    /\ calls' = calls + 1
    /\ UNCHANGED <<brokerVars, jobs, recorded, busy>>

\* ------------------------------------------------------------------------
\* The parsers of both sides accept an adapter's answer.
Proper(answer) ==
    /\ ~answer.throws /\ answer.wellFormed
    /\ answer.receipt # Null /\ answer.receipt.wellFormed
    /\ answer.observation # Null => answer.observation.wellFormed

\* What the contract parsers guarantee of commands and answers.
ASSUME HarnessContracts ==
    /\ Null \notin Broker!ErrorCodes
    /\ Times # {}
    /\ \A command \in ToolCommands :
          /\ command.kind = "tool_command_request"
          /\ \A answer \in AnswersTo(Broker!EffectRequest(command, Null)) :
                /\ ~answer.throws /\ answer.wellFormed /\ answer.receipt # Null
                      /\ answer.receipt.wellFormed =>
                         answer.receipt.status \in {"succeeded", "failed", "unknown"}
                /\ Proper(answer) =>
                      /\ {"effectId", "runId", "capabilityId", "status", "receiptType", "payload",
                          "evidence"} \subseteq DOMAIN answer.receipt
                      /\ answer.observation # Null =>
                            {"subject", "state", "evidence"} \subseteq DOMAIN answer.observation

\* The inputs of the kernel include those the harness gives it.
ASSUME HarnessInputs ==
    /\ MaxEvents \in Nat
    /\ Defaults(Default, Default) \in EventOptions
    /\ FinalDefaults(Default) \in FinalOptions
    /\ \A n \in 1..MaxEvents : Defaults(<<n, "ProposalReceived">>, Default) \in EventOptions
    /\ \A command \in ToolCommands :
          LET receiptId     == ReceiptEventId(command.commandId)
              observationId == ObservationEventId(command.commandId)
          IN  /\ Default \notin {receiptId, observationId}
              /\ \A n \in 1..MaxEvents :
                    Defaults(<<n, "EffectRequested">>, receiptId) \in EventOptions
              /\ Defaults(receiptId, observationId) \in EventOptions
              /\ FinalDefaults(receiptId) \in FinalOptions
              /\ FinalDefaults(observationId) \in FinalOptions
              /\ Broker!EffectRequest(command, Null) \in EffectRequests
              /\ \A answer \in AnswersTo(Broker!EffectRequest(command, Null)) : Proper(answer) =>
                    /\ Admitted(answer.receipt, receiptId) \in EffectReceipts
                    /\ answer.observation # Null =>
                          Admitted(answer.observation, observationId) \in Observations

HarnessInit ==
    /\ Init
    /\ Broker!Init
    /\ jobs = [d \in Callers |-> Waiting]
    /\ recorded = <<>>
    /\ busy = Null
    /\ calls = 0

HarnessNext ==
    \/ StartHarness
    \/ \E d \in Callers :
          \/ \E c \in ToolCommands, f \in FinalCandidates \cup {Null} : DispatchToolCommand(d, c, f)
          \/ AdapterAnswers(d) \/ DispatchFailed(d) \/ ReturnRecorded(d) \/ RecordRequest(d)
          \/ RecordReceipt(d) \/ RecordObservation(d) \/ Continue(d)
    \/ \E f \in FinalCandidates : SubmitCandidate(f)

HarnessSpec == HarnessInit /\ [][HarnessNext]_allVars

\* ------------------------------------------------------------------------
\* The log: what happened is what is recorded.

EventsOf(type) == {i \in DOMAIN log : log[i].type = type}

\* An adapter call the broker accepted that ended with this receipt.
Executed(receipt) ==
    \E i \in DOMAIN executions :
        /\ executions[i].outcome = "accepted"
        /\ \A f \in {"effectId", "runId", "capabilityId", "status", "receiptType", "payload"} :
              executions[i].result.receipt[f] = receipt[f]

\* The harness admits no receipt that an adapter did not give it: every receipt in
\* the log was the answer of an adapter call the broker accepted, to a command that
\* the log shows as proposed before, and no effect has two.
ReceiptsWereExecuted ==
    \A i \in EventsOf("EffectReceiptRecorded") :
        /\ Executed(log[i].body)
        /\ \E j \in EventsOf("ProposalReceived") :
              /\ j < i
              /\ log[j].body.kind = "tool_command_request"
              /\ \E e \in DOMAIN executions :
                    /\ executions[e].command = log[j].body
                    /\ executions[e].request.effectId = log[i].body.effectId
        /\ \A j \in EventsOf("EffectReceiptRecorded") :
              log[j].body.effectId = log[i].body.effectId => j = i

\* What the whole system is for: each claim of a released candidate happened.  For
\* a test result, some adapter call was accepted whose receipt reports success, of
\* the claim's capability and type, with the fields the claim pins; for a current
\* state, one that observed it.
ReleasedClaimsHappened ==
    \A i \in EventsOf("FinalReleased") :
        \A c \in DOMAIN log[i].body.candidate.claims :
            LET predicate == log[i].body.candidate.claims[c].predicate
            IN  \E e \in {x \in DOMAIN executions : executions[x].outcome = "accepted"} :
                  LET result == executions[e].result
                  IN  IF predicate.kind = "current_state"
                      THEN /\ result.observation # Null
                           /\ result.observation.subject = predicate.subject
                           /\ StateSatisfies(result.observation, predicate)
                      ELSE /\ result.receipt.status = "succeeded"
                           /\ executions[e].command.capabilityId = predicate.capabilityId
                           /\ result.receipt.receiptType = predicate.receiptType
                           /\ PayloadMatches(result.receipt.payload, predicate.fields)

\* Two adapter calls had different commands and the same effect id.
EffectIdReused ==
    \E i, j \in DOMAIN executions :
        /\ executions[i].request.effectId = executions[j].request.effectId
        /\ Broker!IdempotencyFingerprint(executions[i].command)
              # Broker!IdempotencyFingerprint(executions[j].command)

\* A dispatch that resolves hands out what the log holds: its receipt and its
\* observation are there, under the events it names, the receipt after a request
\* of the effect; and while no two different commands share an effect id (command
\* ids that differ only in replaced characters do) the receipt is an adapter's
\* answer to this very command, arguments and key included.
ResolvedIsRecorded ==
    \A d \in Callers : jobs[d].at = "resolved" =>
        LET effect == jobs[d].effect
            Holds(type, body) == {i \in EventsOf(type) : log[i].body = body}
        IN  /\ \E i \in Holds("EffectReceiptRecorded", effect.receipt) :
                  \E j \in EventsOf("EffectRequested") :
                      j < i /\ log[j].body.effectId = effect.receipt.effectId
            /\ effect.observation # Null =>
                  \E i \in Holds("ExternalStateObserved", effect.observation) :
                      log[i].id = effect.event
            /\ ~EffectIdReused =>
                  \E e \in DOMAIN executions :
                      /\ executions[e].outcome = "accepted"
                      /\ effect.receipt = Admitted(executions[e].result.receipt,
                                            ReceiptEventId(executions[e].command.commandId))
                      /\ Broker!IdempotencyFingerprint(executions[e].command)
                            = Broker!IdempotencyFingerprint(jobs[d].command)
=============================================================================
