------------------------ MODULE RunKernelProperties ------------------------
(***************************************************************************)
(* What the run kernel promises, stated over the event log: the log is what*)
(* is persisted, replayed, projected and audited, so each promise must be  *)
(* readable from it without the kernel's private lists.                    *)
(***************************************************************************)
EXTENDS RunKernel

EventFields == {"id", "type", "cause", "body", "wellFormed"}

\* The log is a sequence of events with no gap, every private list holds
\* accepted inputs of its own kind, and revisions are natural numbers.
TypeOK ==
    /\ log \in Seq(Elements(log))
    /\ \A i \in DOMAIN log :
          /\ DOMAIN log[i] = EventFields
          /\ log[i].type \in EventTypes
          /\ log[i].wellFormed \in BOOLEAN
    /\ DOMAIN kept = KeptTypes
    /\ \A t \in KeptTypes : kept[t] \in Seq(Inputs[t])
    /\ revision \in [StateRefs -> Nat]

Is(i, type) == log[i].type = type

\* Append-only audit trail (InMemoryLedger.append, appendEvent): no two events
\* share an id, whoever chose it, and an event is only ever caused by one that
\* precedes it, so the causal chain read back from the log is well founded.
LogIntegrity ==
    /\ \A i, j \in DOMAIN log : log[i].id = log[j].id => i = j
    /\ \A i \in DOMAIN log :
          log[i].cause = Null \/ \E j \in 1..(i - 1) : log[j].id = log[i].cause

\* The positions of the accepted events of a type.
AcceptedEvents(type) == {i \in DOMAIN log : Is(i, type) /\ log[i].wellFormed}

\* What the kernel keeps for itself is exactly what its accepted events carry, in
\* log order: the n-th entry of a list is the body of the n-th accepted event of
\* its type, so a kernel rebuilt from the log would decide the same (every record*
\* method pushes what it appended, and only that).  The run starts once: the log
\* begins with RunStarted, and the one accepted is the one the kernel remembers.
PrivateStateFollowsLog ==
    /\ \A t \in KeptTypes :
          /\ Len(kept[t]) = Cardinality(AcceptedEvents(t))
          /\ \A i \in AcceptedEvents(t) :
                kept[t][Cardinality({j \in AcceptedEvents(t) : j <= i})] = log[i].body
    /\ log # <<>> => Is(1, "RunStarted")
    /\ started # Null => \E i \in DOMAIN log : log[i].id = started
    /\ \A i \in DOMAIN log :
          Is(i, "RunStarted") /\ log[i].wellFormed <=> started # Null /\ log[i].id = started

\* A call that throws leaves no event: what the kernel tests of malformed event
\* metadata expect of the log.
RejectedCallsLeaveNoEvent == \A i \in DOMAIN log : log[i].wellFormed

\* No receipt without an effect the run asked for, of the same capability, at
\* an earlier position of the log (assertEffectRequestForReceipt).
ReceiptsAnswerRequests ==
    \A i \in DOMAIN log : Is(i, "EffectReceiptRecorded") =>
        \E j \in 1..(i - 1) :
            /\ Is(j, "EffectRequested") /\ log[j].wellFormed
            /\ log[j].body.effectId = log[i].body.effectId
            /\ log[j].body.capabilityId = log[i].body.capabilityId

CarriesEvidence(i) == Is(i, "EffectReceiptRecorded") \/ Is(i, "ExternalStateObserved")

\* An evidence ref names one record only: two admitted records never share a
\* ref, even when callers choose event ids and reuse evidence ids
\* (assertAdmittedEvidenceRefs with the uniqueness of event ids).
EvidenceResolvesUniquely ==
    \A i, j \in DOMAIN log :
        i # j /\ CarriesEvidence(i) /\ CarriesEvidence(j) =>
            log[i].body.evidence \cap log[j].body.evidence = {}

\* ------------------------------------------------------------------------
CommitsTo(i, ref) == Is(i, "MutationCommitted") /\ log[i].body.stateRef = ref

\* Optimistic concurrency of commitMutation: the commits of a state reference
\* form one chain in log order, one commit for each revision below the current
\* one and none beyond: no gap, no fork, no commit repeated.
MutationsAreSerial ==
    \A ref \in StateRefs :
        /\ \A i \in DOMAIN log : CommitsTo(i, ref) =>
              /\ log[i].body.previousRevision < revision[ref]
              /\ log[i].body.newRevision = log[i].body.previousRevision + 1
              /\ \A j \in 1..(i - 1) : CommitsTo(j, ref) =>
                    log[j].body.previousRevision < log[i].body.previousRevision
        /\ \A n \in 0..(revision[ref] - 1) :
              \E i \in DOMAIN log : CommitsTo(i, ref) /\ log[i].body.previousRevision = n

\* Every commit carries out a command proposed earlier, on the state and at the
\* revision that command named, and no command is carried out twice.
CommitsWereProposed ==
    \A i \in DOMAIN log : Is(i, "MutationCommitted") =>
        /\ \E j \in 1..(i - 1) :
              /\ Is(j, "ProposalReceived") /\ log[j].wellFormed
              /\ IsMutationCommand(log[j].body)
              /\ log[j].body.commandId = log[i].body.commandId
              /\ log[j].body.mutationId = log[i].body.mutationId
              /\ log[j].body.stateRef = log[i].body.stateRef
              /\ log[j].body.expectedRevision = log[i].body.previousRevision
        /\ \A j \in 1..(i - 1) : Is(j, "MutationCommitted") =>
              \/ log[j].body.commandId # log[i].body.commandId
              \/ log[j].body.mutationId # log[i].body.mutationId

\* ------------------------------------------------------------------------
\* A critical write is allowed only under an approval that was requested and
\* granted for exactly this write, had not run out when the decision was made,
\* and had been neither denied nor expired before it in the log
\* (assertApprovalMatchesRequest, assertCriticalWriteApproval).
CriticalWritesAreApproved ==
    \A i \in DOMAIN log :
        Is(i, "WritePreflightDecided") /\ IsCriticalWrite(log[i].body) =>
            /\ \E r, g \in 1..(i - 1) :
                  /\ r < g
                  /\ Is(r, "ApprovalRequested") /\ Is(g, "ApprovalGranted")
                  /\ log[r].body.approvalId = log[i].body.approvalId
                  /\ log[g].body.approvalId = log[i].body.approvalId
                  /\ log[r].body.scope = WriteScope(log[i].body)
                  /\ log[g].body.scope = WriteScope(log[i].body)
                  /\ log[g].body.grantedAt <= log[r].body.expiresAt
                  /\ log[i].body.decidedAt <= log[g].body.expiresAt
            /\ \A j \in 1..(i - 1) :
                  /\ Is(j, "ApprovalDenied") \/ Is(j, "ApprovalExpired")
                  /\ log[j].wellFormed
                  => log[j].body.approvalId # log[i].body.approvalId

\* A quarantine in the log is the one an earlier quarantined decision embeds,
\* and that decision and the quarantine are about the write first requested
\* under their preflight id (assertWriteQuarantineMatchesDecision).
QuarantinesWereDecided ==
    \A i \in DOMAIN log : Is(i, "WriteQuarantined") =>
        \E r, d \in 1..(i - 1) :
            /\ r < d
            /\ Is(r, "WritePreflightRequested") /\ Is(d, "WritePreflightDecided")
            /\ log[r].body.preflightId = log[i].body.preflightId
            /\ SameWrite(log[r].body, log[i].body)
            /\ log[d].body.status = "quarantined"
            /\ log[d].body.quarantine = log[i].body

\* ------------------------------------------------------------------------
\* The decision and the proof behind the event at i.
DecisionOf(i) == {d \in 1..(i - 1) : Is(d, "ReleaseDecided") /\ log[d].id = log[i].cause}
ProofOf(d) == {p \in 1..(d - 1) : Is(p, "ProofGenerated") /\ log[p].id = log[d].cause}

\* The log itself shows, before the proof at p, evidence for the claim: an event
\* the claim cites, whose content is what the cited hash says, and which says
\* what the claim says.  None of the receipts it cites reports anything but
\* success.
ShownBefore(claim, p) ==
    LET cites(ref, e) == /\ log[e].wellFormed
                         /\ ref \in log[e].body.evidence
                         /\ ref.sourceEventId = log[e].id
                         /\ ref.hash = log[e].body.payloadHash
        now == log[p].body.generatedAt
    IN  IF claim.predicate.kind = "current_state"
        THEN \E e \in 1..(p - 1), n \in DOMAIN claim.refs :
                /\ Is(e, "ExternalStateObserved") /\ cites(claim.refs[n], e)
                /\ log[e].body.subject = claim.predicate.subject
                /\ log[e].body.observedAt \in (now - claim.predicate.freshness)..now
                /\ StateSatisfies(log[e].body, claim.predicate)
        ELSE /\ \E e \in 1..(p - 1), n \in DOMAIN claim.refs :
                   /\ Is(e, "EffectReceiptRecorded") /\ cites(claim.refs[n], e)
                   /\ log[e].body.capabilityId = claim.predicate.capabilityId
                   /\ log[e].body.receiptType = claim.predicate.receiptType
                   /\ PayloadMatches(log[e].body.payload, claim.predicate.fields)
             /\ \A e \in 1..(p - 1), n \in DOMAIN claim.refs :
                   Is(e, "EffectReceiptRecorded") /\ cites(claim.refs[n], e) =>
                       log[e].body.status = "succeeded"

\* The system's purpose: a final message is released only after a released
\* decision on a passing proof of this very candidate, every claim of which the
\* log shows to be true, and never when that proof reported a mismatch
\* (submitFinalCandidate, evaluateProof, decideRelease).
ReleasesAreProven ==
    \A i \in DOMAIN log : Is(i, "FinalReleased") =>
        \E d \in DecisionOf(i) : \E p \in ProofOf(d) :
            /\ log[d].body = log[i].body.decision
            /\ log[d].body.status = "released"
            /\ log[p].body.verdict = "pass"
            /\ \E c \in 1..(p - 1) :
                  log[c].id = log[p].cause /\ log[c].body = log[i].body.candidate
            /\ \A n \in DOMAIN log[i].body.candidate.claims :
                  ShownBefore(log[i].body.candidate.claims[n], p)
            /\ \A m \in DOMAIN log : Is(m, "MismatchDetected") => log[m].cause # log[p].id
=============================================================================
