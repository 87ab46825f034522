----------------------------- MODULE RunKernel -----------------------------
(***************************************************************************)
(* InMemoryRunKernel (packages/kernel/src/run-kernel.ts) over its          *)
(* InMemoryLedger: one run, one event log, and the private lists from      *)
(* which the kernel decides what it admits next.                           *)
(*                                                                         *)
(*   log       the ledger: a sequence of                                   *)
(*             [id, type, cause, body, wellFormed]; the position is the    *)
(*             sequence number                                             *)
(*   kept      one private list per event type that has one                *)
(*   started   #startedEventId, Null when undefined                        *)
(*   revision  #stateRevisions                                             *)
(*                                                                         *)
(* Every method is synchronous, so it is one action.  A call that throws   *)
(* before it changes anything is no step.  A call that throws later is a   *)
(* step, with what it had changed by then.                                 *)
(*                                                                         *)
(* The input sets are the objects callers pass, after the contract         *)
(* parsers accepted them.  An EventOptions record is the KernelEventOptions*)
(* of a call: "wellFormed" is whether its occurredAt is a date the RunEvent*)
(* contract accepts.                                                       *)
(***************************************************************************)
EXTENDS ProofEngine, FiniteSets

CONSTANTS
    RunId,               \* the kernel's run
    Default,             \* an option the caller left out
    StateRefs,
    Times,
    EventOptions,        \* [eventId, causationId, wellFormed]
    FinalOptions,        \* EventOptions plus proofEventId, mismatchEventIds,
                         \* releaseEventId, finalReleasedEventId
    ToolCommands, MutationCommands, FinalCandidates,
    EffectRequests, EffectReceipts, Observations,
    WritePreflightCandidates, WritePreflightDecisions, WriteQuarantines,
    ApprovalRequests, ApprovalGrants, ApprovalDenials, ApprovalExpiries,
    MaxEvents            \* bound: no call starts on a longer log

\* What the contract parsers guarantee of the inputs.
ASSUME InputContracts ==
    /\ \A c \in MutationCommands : c.stateRef \in StateRefs
    /\ \A c \in FinalCandidates : c.claims \in Seq({c.claims[i] : i \in DOMAIN c.claims})
    /\ \A c \in FinalCandidates : \A i \in DOMAIN c.claims :
          LET predicate == c.claims[i].predicate
          IN  \/ predicate.kind \in ReceiptClaimKinds
              \/ predicate.kind = "current_state" /\ predicate.freshness \in Int
    /\ \A o \in Observations : o.observedAt \in Int
    /\ Times \subseteq Int
    /\ \A o \in EventOptions \cup FinalOptions : o.wellFormed \in BOOLEAN

\* Event ids are strings, and never the value that stands for "no event".
ASSUME NullIsNoEventId ==
    /\ \A o \in EventOptions : o.eventId # Null
    /\ MaxEvents \in Nat
    /\ \A n \in 1..MaxEvents : <<n, "RunStarted">> # Null

VARIABLES log, kept, started, revision

vars == <<log, kept, started, revision>>

\* The private lists, each named by the event type that feeds it.
Inputs ==
    [ProposalReceived        |-> ToolCommands \cup MutationCommands \cup FinalCandidates,
     EffectRequested         |-> EffectRequests,
     EffectReceiptRecorded   |-> EffectReceipts,
     ExternalStateObserved   |-> Observations,
     WritePreflightRequested |-> WritePreflightCandidates,
     WritePreflightDecided   |-> WritePreflightDecisions,
     WriteQuarantined        |-> WriteQuarantines,
     ApprovalRequested       |-> ApprovalRequests,
     ApprovalGranted         |-> ApprovalGrants,
     ApprovalDenied          |-> ApprovalDenials,
     ApprovalExpired         |-> ApprovalExpiries,
     MutationCommitted       |->
        [mutationId : {c.mutationId : c \in MutationCommands},
         commandId : {c.commandId : c \in MutationCommands},
         runId : {RunId}, stateRef : StateRefs,
         previousRevision : Nat, newRevision : Nat]]

KeptTypes == DOMAIN Inputs

EventTypes == KeptTypes \cup
    {"RunStarted", "ProofGenerated", "MismatchDetected", "ReleaseDecided", "FinalReleased"}

\* ------------------------------------------------------------------------
\* The ledger

IdsOf(events) == {events[i].id : i \in DOMAIN events}

NextEventId(type) == <<Len(log) + 1, type>>

Given(option, default) == IF option = Default THEN default ELSE option

\* Mutant: an event id a caller chose is not looked up.
Accepts_AnyId(events, e) == e.cause = Null \/ e.cause \in IdsOf(events)

\* InMemoryLedger.append and the kernel's own reference checks.
Accepts(events, e) ==
    /\ e.id \notin IdsOf(events)
    /\ e.cause = Null \/ e.cause \in IdsOf(events)

NewEvent(type, body, options, cause) ==
    [id |-> Given(options.eventId, NextEventId(type)), type |-> type,
     cause |-> cause, body |-> body, wellFormed |-> options.wellFormed]

\* assertStarted, assertInputRunId and the checks of appendEvent pass.
CanRecord(type, body, options) ==
    /\ started # Null
    /\ Len(log) < MaxEvents
    /\ body.runId = RunId
    /\ Accepts(log, NewEvent(type, body, options, Given(options.causationId, started)))

\* Mutant: the private list is pushed before the event is parsed.
RecordEvent_PushesFirst(type, body, options) ==
    LET e == NewEvent(type, body, options, Given(options.causationId, started))
    IN  /\ CanRecord(type, body, options)
        /\ log' = Append(log, e)
        /\ kept' = [kept EXCEPT ![type] = Append(@, body)]
        /\ UNCHANGED started

\* appendEvent appends and only then parses the event it appended: with a
\* malformed date it throws with the event already in the log, and the caller
\* never reaches its push onto the private list.
RecordEvent(type, body, options) ==
    LET e == NewEvent(type, body, options, Given(options.causationId, started))
    IN  /\ CanRecord(type, body, options)
        /\ log' = Append(log, e)
        /\ kept' = IF e.wellFormed
                   THEN [kept EXCEPT ![type] = Append(@, body)]
                   ELSE kept
        /\ UNCHANGED started

Elements(list) == {list[i] : i \in DOMAIN list}

\* Array.find: the first element with the property, in a set, or no element.
FirstWith(list, P(_)) ==
    {list[i] : i \in {j \in DOMAIN list :
                        P(list[j]) /\ \A k \in 1..(j - 1) : ~P(list[k])}}

SomeWith(list, P(_)) == \E i \in DOMAIN list : P(list[i])

\* ------------------------------------------------------------------------
\* Start, proposals, effects and evidence

StartEvent(options) ==
    NewEvent("RunStarted", [runId |-> RunId], options, Given(options.causationId, Null))

CanStart(options) ==
    /\ started = Null
    /\ Len(log) < MaxEvents
    /\ Accepts(log, StartEvent(options))

StartRun(options) ==
    LET e == StartEvent(options)
    IN  /\ CanStart(options)
        /\ log' = Append(log, e)
        /\ started' = IF e.wellFormed THEN e.id ELSE Null
        /\ UNCHANGED <<kept, revision>>

SubmitToolCommand(command, options) ==
    RecordEvent("ProposalReceived", command, options) /\ UNCHANGED revision

\* The fields of a mutation command its payloadHash covers.
CommandPayload(command) ==
    [f \in (DOMAIN command) \ {"payloadHash"} |-> command[f]]

HasPayloadHash(command) == command.payloadHash = CanonicalHash(CommandPayload(command))

SubmitMutationCommand(command, options) ==
    /\ HasPayloadHash(command)
    /\ RecordEvent("ProposalReceived", command, options)
    /\ UNCHANGED revision

RecordEffectRequest(request, options) ==
    RecordEvent("EffectRequested", request, options) /\ UNCHANGED revision

\* Mutant: a record may cite any event.
EvidenceIsOwn_AnyEvent(evidence, eventId, kind, hash) ==
    \A ref \in evidence : ref.kind = kind /\ ref.hash = hash

\* A record may only cite the event that admits it.
EvidenceIsOwn(evidence, eventId, kind, hash) ==
    \A ref \in evidence : ref.sourceEventId = eventId /\ ref.kind = kind /\ ref.hash = hash

\* Mutant: any request of the effect will do, whatever its capability.
RecordEffectReceipt_AnyCapability(receipt, options) ==
    /\ SomeWith(kept["EffectRequested"], LAMBDA r : r.effectId = receipt.effectId)
    /\ receipt.payloadHash = CanonicalHash(receipt.payload)
    /\ EvidenceIsOwn(receipt.evidence,
                     Given(options.eventId, NextEventId("EffectReceiptRecorded")),
                     "effect_receipt", receipt.payloadHash)
    /\ RecordEvent("EffectReceiptRecorded", receipt, options)
    /\ UNCHANGED revision

\* assertEffectRequestForReceipt, assertPayloadHash and assertAdmittedEvidenceRefs, for
\* the event that would admit the receipt.  Here and below, "lists" is what the kernel
\* keeps when it asks.
ReceiptMayBeRecorded(lists, receipt, eventId) ==
    /\ \E request \in FirstWith(lists["EffectRequested"],
                                LAMBDA r : r.effectId = receipt.effectId) :
          request.capabilityId = receipt.capabilityId
    /\ receipt.payloadHash = CanonicalHash(receipt.payload)
    /\ EvidenceIsOwn(receipt.evidence, eventId, "effect_receipt", receipt.payloadHash)

RecordEffectReceipt(receipt, options) ==
    /\ ReceiptMayBeRecorded(kept, receipt,
                            Given(options.eventId, NextEventId("EffectReceiptRecorded")))
    /\ RecordEvent("EffectReceiptRecorded", receipt, options)
    /\ UNCHANGED revision

ObservationMayBeRecorded(observation, eventId) ==
    /\ observation.payloadHash = CanonicalHash(observation.state)
    /\ EvidenceIsOwn(observation.evidence, eventId, "external_observation",
                     observation.payloadHash)

RecordExternalStateObservation(observation, options) ==
    /\ ObservationMayBeRecorded(observation,
                                Given(options.eventId, NextEventId("ExternalStateObserved")))
    /\ RecordEvent("ExternalStateObserved", observation, options)
    /\ UNCHANGED revision

\* ------------------------------------------------------------------------
\* Write preflight.  "identity" stands for the command, capability, tool and
\* idempotency key, which the kernel always compares together.

SameWrite(a, b) ==
    /\ a.runId = b.runId
    /\ a.identity = b.identity
    /\ a.sideEffectClass = b.sideEffectClass

PreflightRequest(lists, preflightId) ==
    FirstWith(lists["WritePreflightRequested"], LAMBDA c : c.preflightId = preflightId)

RecordWritePreflightRequested(candidate, options) ==
    RecordEvent("WritePreflightRequested", candidate, options) /\ UNCHANGED revision

WriteScope(decision) ==
    [kind |-> "write_preflight", preflightId |-> decision.preflightId,
     identity |-> decision.identity, sideEffectClass |-> decision.sideEffectClass]

IsCriticalWrite(decision) ==
    decision.status = "allowed" /\ decision.sideEffectClass = "critical_write"

\* Mutant: a denial that follows the grant is not looked for.
CriticalWriteApproved_Undenied(lists, decision) ==
    /\ decision.approvalId # Null
    /\ \E grant \in FirstWith(lists["ApprovalGranted"],
                              LAMBDA g : g.approvalId = decision.approvalId) :
          /\ grant.scope = WriteScope(decision)
          /\ decision.decidedAt <= grant.expiresAt
    /\ ~SomeWith(lists["ApprovalExpired"], LAMBDA x : x.approvalId = decision.approvalId)

\* assertCriticalWriteApproval
CriticalWriteApproved(lists, decision) ==
    /\ decision.approvalId # Null
    /\ \E grant \in FirstWith(lists["ApprovalGranted"],
                              LAMBDA g : g.approvalId = decision.approvalId) :
          /\ grant.scope = WriteScope(decision)
          /\ decision.decidedAt <= grant.expiresAt
    /\ ~SomeWith(lists["ApprovalDenied"], LAMBDA d : d.approvalId = decision.approvalId)
    /\ ~SomeWith(lists["ApprovalExpired"], LAMBDA x : x.approvalId = decision.approvalId)

\* assertWritePreflightDecisionMatchesRequest and assertCriticalWriteApproval
DecisionMayBeRecorded(lists, decision) ==
    /\ \E candidate \in PreflightRequest(lists, decision.preflightId) :
          SameWrite(candidate, decision)
    /\ decision.status = "quarantined" =>
          /\ SameWrite(decision.quarantine, decision)
          /\ decision.quarantine.preflightId = decision.preflightId
    /\ IsCriticalWrite(decision) => CriticalWriteApproved(lists, decision)

RecordWritePreflightDecided(decision, options) ==
    /\ DecisionMayBeRecorded(kept, decision)
    /\ RecordEvent("WritePreflightDecided", decision, options)
    /\ UNCHANGED revision

\* Mutant: a quarantine need not have been decided.
RecordWriteQuarantined_Undecided(quarantine, options) ==
    /\ \E candidate \in PreflightRequest(kept, quarantine.preflightId) :
          SameWrite(candidate, quarantine)
    /\ RecordEvent("WriteQuarantined", quarantine, options)
    /\ UNCHANGED revision

\* assertWriteQuarantineMatchesDecision
QuarantineMayBeRecorded(lists, quarantine) ==
    /\ \E candidate \in PreflightRequest(lists, quarantine.preflightId) :
          SameWrite(candidate, quarantine)
    /\ \E decision \in FirstWith(lists["WritePreflightDecided"],
            LAMBDA d : /\ d.status = "quarantined"
                       /\ d.preflightId = quarantine.preflightId
                       /\ d.quarantine.quarantineId = quarantine.quarantineId) :
          decision.quarantine = quarantine

RecordWriteQuarantined(quarantine, options) ==
    /\ QuarantineMayBeRecorded(kept, quarantine)
    /\ RecordEvent("WriteQuarantined", quarantine, options)
    /\ UNCHANGED revision

\* ------------------------------------------------------------------------
\* Approvals

ApprovalRequest(lists, approval) ==
    FirstWith(lists["ApprovalRequested"], LAMBDA r : r.approvalId = approval.approvalId)

\* assertApprovalMatchesRequest
AnswersRequest(lists, approval) ==
    \E request \in ApprovalRequest(lists, approval) : request.scope = approval.scope

GrantMayBeRecorded(lists, grant) ==
    \E request \in ApprovalRequest(lists, grant) :
        request.scope = grant.scope /\ grant.grantedAt <= request.expiresAt

RecordApprovalRequested(request, options) ==
    RecordEvent("ApprovalRequested", request, options) /\ UNCHANGED revision

RecordApprovalGranted(grant, options) ==
    /\ GrantMayBeRecorded(kept, grant)
    /\ RecordEvent("ApprovalGranted", grant, options)
    /\ UNCHANGED revision

RecordApprovalDenied(denial, options) ==
    /\ AnswersRequest(kept, denial)
    /\ RecordEvent("ApprovalDenied", denial, options)
    /\ UNCHANGED revision

RecordApprovalExpired(expiry, options) ==
    /\ AnswersRequest(kept, expiry)
    /\ RecordEvent("ApprovalExpired", expiry, options)
    /\ UNCHANGED revision

\* ------------------------------------------------------------------------
\* Mutations

IsMutationCommand(proposal) == proposal.kind = "mutation_command_request"

\* Mutant: the revision is counted before instead of after the commit.
MutationOf_Early(command, current) ==
    [mutationId |-> command.mutationId, commandId |-> command.commandId,
     runId |-> command.runId, stateRef |-> command.stateRef,
     previousRevision |-> current - 1, newRevision |-> current]

MutationOf(command, current) ==
    [mutationId |-> command.mutationId, commandId |-> command.commandId,
     runId |-> command.runId, stateRef |-> command.stateRef,
     previousRevision |-> current, newRevision |-> current + 1]

\* Mutant: a proposal with the same ids is enough.
WasProposed_ById(lists, command) ==
    SomeWith(lists["ProposalReceived"],
             LAMBDA p : /\ IsMutationCommand(p)
                        /\ p.commandId = command.commandId
                        /\ p.mutationId = command.mutationId)

\* assertMutationWasProposed: the first proposal with these command and mutation
\* ids is this very command.
WasProposed(lists, command) ==
    FirstWith(lists["ProposalReceived"],
              LAMBDA p : /\ IsMutationCommand(p)
                         /\ p.commandId = command.commandId
                         /\ p.mutationId = command.mutationId) = {command}

\* The revision must be the one the command expects.
MayBeCommitted(lists, current, command) ==
    /\ HasPayloadHash(command)
    /\ WasProposed(lists, command)
    /\ current[command.stateRef] = command.expectedRevision

\* Mutant: the new revision is not remembered.
CommitMutation_Forgets(command, options) ==
    /\ MayBeCommitted(kept, revision, command)
    /\ options.wellFormed
    /\ RecordEvent("MutationCommitted", MutationOf(command, revision[command.stateRef]), options)
    /\ UNCHANGED revision

\* The mutation is parsed before it is appended, so here a malformed date throws
\* early.
CommitMutation(command, options) ==
    LET ref     == command.stateRef
        current == revision[ref]
    IN  /\ MayBeCommitted(kept, revision, command)
        /\ options.wellFormed
        /\ RecordEvent("MutationCommitted", MutationOf(command, current), options)
        /\ revision' = [revision EXCEPT ![ref] = current + 1]

\* ------------------------------------------------------------------------
\* Final candidates

\* The one listing of a proof's mismatches in claim order.
InClaimOrder(mismatches) ==
    {list \in [1..Cardinality(mismatches) -> mismatches] :
        \A i, j \in DOMAIN list : i < j => list[i].index < list[j].index}

\* The n-th event submitFinalCandidate appends after the proposal.
PlannedEvent(n, id, type, cause, body) ==
    [id |-> Given(id, <<Len(log) + 1 + n, type>>), type |-> type,
     cause |-> cause, body |-> body, wellFormed |-> TRUE]

\* A mismatch for which the caller's mismatchEventIds has no id gets Null: the
\* call throws there.
MismatchId(options, i) ==
    IF options.mismatchEventIds = Default THEN Default
    ELSE IF i <= Len(options.mismatchEventIds) THEN options.mismatchEventIds[i]
    ELSE Null

MismatchEvents(options, mismatches, proofId) ==
    [i \in 1..Len(mismatches) |->
        PlannedEvent(1 + i, MismatchId(options, i), "MismatchDetected", proofId, mismatches[i])]

\* The events after the proposal, whose id is proposalId: the proof, an event
\* per mismatch, the decision, and FinalReleased when the decision releases.
FinalPlan(candidate, options, proof, mismatches, proposalId) ==
    LET count    == Len(mismatches)
        decision == DecideRelease(candidate, proof)
        proofEvent == PlannedEvent(1, options.proofEventId, "ProofGenerated", proposalId, proof)
        releaseEvent == PlannedEvent(2 + count, options.releaseEventId, "ReleaseDecided",
                                     proofEvent.id, decision)
        finalEvent == PlannedEvent(3 + count, options.finalReleasedEventId, "FinalReleased",
                                   releaseEvent.id,
                                   [decision |-> decision, candidate |-> candidate])
    IN  <<proofEvent>>
        \o MismatchEvents(options, mismatches, proofEvent.id)
        \o <<releaseEvent>>
        \o (IF decision.status = "released" THEN <<finalEvent>> ELSE <<>>)

\* A planned event that will be appended: it has an id nobody took before it.
Appendable(events, plan, i) ==
    plan[i].id \notin IdsOf(events) \cup {plan[j].id : j \in 1..(i - 1)} \cup {Null}

\* The calls' appends go on until the first that throws, or to the end.
AppendPlan(events, plan) ==
    \E n \in 0..Len(plan) :
        /\ \A i \in 1..n : Appendable(events, plan, i)
        /\ n < Len(plan) => ~Appendable(events, plan, n + 1)
        /\ log' = events \o SubSeq(plan, 1, n)

\* generatedAt is the time "now"; Null when the caller passes a malformed one,
\* and then the proof is rejected by its contract before it is appended.
SubmitFinalCandidate(candidate, options, now) ==
    LET proposal == NewEvent("ProposalReceived", candidate, options,
                             Given(options.causationId, started))
        proof == EvaluateProof(candidate, Elements(kept["EffectReceiptRecorded"]),
                               Elements(kept["ExternalStateObserved"]), now)
        before == Append(log, proposal)
    IN  /\ CanRecord("ProposalReceived", candidate, options)
        /\ IF proposal.wellFormed /\ now # Null
           THEN \E mismatches \in InClaimOrder(proof.mismatches) :
                   AppendPlan(before, FinalPlan(candidate, options, proof, mismatches, proposal.id))
           ELSE log' = before
        /\ kept' = IF proposal.wellFormed
                   THEN [kept EXCEPT !["ProposalReceived"] = Append(@, candidate)]
                   ELSE kept
        /\ UNCHANGED <<started, revision>>

\* ------------------------------------------------------------------------
Init ==
    /\ log = <<>>
    /\ kept = [t \in KeptTypes |-> <<>>]
    /\ started = Null
    /\ revision = [r \in StateRefs |-> 0]

Next ==
    \/ \E o \in EventOptions :
          \/ StartRun(o)
          \/ \E x \in ToolCommands : SubmitToolCommand(x, o)
          \/ \E x \in MutationCommands : SubmitMutationCommand(x, o)
          \/ \E x \in MutationCommands : CommitMutation(x, o)
          \/ \E x \in EffectRequests : RecordEffectRequest(x, o)
          \/ \E x \in EffectReceipts : RecordEffectReceipt(x, o)
          \/ \E x \in Observations : RecordExternalStateObservation(x, o)
          \/ \E x \in WritePreflightCandidates : RecordWritePreflightRequested(x, o)
          \/ \E x \in WritePreflightDecisions : RecordWritePreflightDecided(x, o)
          \/ \E x \in WriteQuarantines : RecordWriteQuarantined(x, o)
          \/ \E x \in ApprovalRequests : RecordApprovalRequested(x, o)
          \/ \E x \in ApprovalGrants : RecordApprovalGranted(x, o)
          \/ \E x \in ApprovalDenials : RecordApprovalDenied(x, o)
          \/ \E x \in ApprovalExpiries : RecordApprovalExpired(x, o)
    \/ \E x \in FinalCandidates, o \in FinalOptions, t \in Times \cup {Null} :
          SubmitFinalCandidate(x, o, t)

Spec == Init /\ [][Next]_vars
=============================================================================
