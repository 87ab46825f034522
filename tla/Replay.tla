------------------------------- MODULE Replay -------------------------------
(***************************************************************************)
(* replayRunEvents (packages/replay): a stored event stream is fed to a    *)
(* fresh run kernel, up to its last final candidate; the candidate is      *)
(* submitted with the stored ids and time, and what comes out is compared  *)
(* with what is stored.                                                    *)
(*                                                                         *)
(*   log, kept, started, revision          the kernel the run was made by  *)
(*   copyLog, copyKept, copyStarted,                                       *)
(*   copyRevision                          the kernel it is replayed in    *)
(*   replay                                how far the replay is           *)
(*                                                                         *)
(* A stored event is [runId, id, type, cause, body, sequence, intact].     *)
(* Every call of the fresh kernel is a step; one that throws is one that   *)
(* is not enabled, and ends the replay.  Deciding to replay freezes the    *)
(* run: what it goes on to record is not in the stream that was read.      *)
(***************************************************************************)
EXTENDS RunKernel

CONSTANTS
    CallerIds,           \* the event ids callers choose
    Forgeries(_),        \* the bodies someone with access to the store may give an event
    Explored(_)          \* bound: the logs the kernel is let go on to

EventIds == CallerIds \cup (Nat \X EventTypes)

\* An option left out is no event id, no list of them, and not "no cause".
ASSUME IdsAreTold ==
    /\ \A o \in EventOptions : o.eventId \in CallerIds \cup {Default}
    /\ \A o \in FinalOptions :
          /\ {o.eventId, o.proofEventId, o.releaseEventId, o.finalReleasedEventId}
                \subseteq CallerIds \cup {Default}
          /\ o.mismatchEventIds \in Seq(CallerIds) \cup {Default}
    /\ Default # Null /\ Default \notin EventIds /\ Default \notin Seq(EventIds)

VARIABLES copyLog, copyKept, copyStarted, copyRevision, replay

Contract == INSTANCE LedgerContract

Copy == INSTANCE RunKernel
    WITH log <- copyLog, kept <- copyKept, started <- copyStarted, revision <- copyRevision

copyVars == <<copyLog, copyKept, copyStarted, copyRevision>>
historyVars == <<vars, copyVars, replay>>

Stored(events) ==
    [i \in DOMAIN events |->
        [runId |-> RunId, id |-> events[i].id, type |-> events[i].type,
         cause |-> events[i].cause, body |-> events[i].body, sequence |-> i,
         intact |-> events[i].wellFormed]]

\* ------------------------------------------------------------------------
\* Reading the stream

ReplayFailed(events, code) == [at |-> "failed", events |-> events, code |-> code]

FinalProposals(events) ==
    {i \in DOMAIN events : /\ events[i].type = "ProposalReceived"
                           /\ events[i].body.kind = "final_candidate"}

EventsAfter(events, n, type) == {i \in DOMAIN events : events[i].type = type /\ i > n}

Earliest(positions) == CHOOSE i \in positions : \A j \in positions : i <= j

Latest(positions) == CHOOSE i \in positions : \A j \in positions : j <= i

\* 0 when there is none.
FirstEventAfter(events, n, type) ==
    LET found == EventsAfter(events, n, type) IN IF found = {} THEN 0 ELSE Earliest(found)

\* The four events of the run's last submission, by position.
LastSubmission(events) ==
    LET final   == Latest(FinalProposals(events))
        proof   == FirstEventAfter(events, final, "ProofGenerated")
        release == FirstEventAfter(events, proof, "ReleaseDecided")
    IN  [final |-> final, proof |-> proof, release |-> release,
         released |-> FirstEventAfter(events, release, "FinalReleased")]

\* assertStreamOrder and orderAndValidateRunEvents, then the search for the events
\* of the last submission: the first thing missing ends the replay.
ReplayRunEvents(events) ==
    /\ replay.at = "idle"
    /\ replay' =
          IF events = <<>> \/ ~Contract!IsRunStream(events, RunId)
             THEN ReplayFailed(events, "event_stream_integrity_failed")
          ELSE IF FinalProposals(events) = {} THEN ReplayFailed(events, "final_candidate_missing")
          ELSE IF LastSubmission(events).proof = 0 THEN ReplayFailed(events, "proof_event_missing")
          ELSE IF LastSubmission(events).release = 0 THEN ReplayFailed(events, "release_event_missing")
          ELSE [at |-> "replaying", events |-> events, next |-> 1, last |-> LastSubmission(events)]
    /\ UNCHANGED <<vars, copyVars>>

\* ------------------------------------------------------------------------
\* The accepted inputs before the final candidate

EventOptionsFrom(e) ==
    [eventId |-> e.id, causationId |-> e.cause, wellFormed |-> e.intact]

\* The first proposal with the mutation's id, in a set, or no proposal.
MutationProposalBefore(events, n) ==
    LET proposals == {i \in 1..(n - 1) : /\ events[i].type = "ProposalReceived"
                                         /\ IsMutationCommand(events[i].body)
                                         /\ events[i].body.mutationId = events[n].body.mutationId}
    IN  IF proposals = {} THEN {} ELSE {events[Earliest(proposals)].body}

ReplayProposal(proposal, options) ==
    \/ proposal.kind = "tool_command_request" /\ Copy!SubmitToolCommand(proposal, options)
    \/ IsMutationCommand(proposal) /\ Copy!SubmitMutationCommand(proposal, options)
    \/ proposal.kind = "final_candidate" /\ UNCHANGED copyVars

\* The fresh kernel's call for the n-th event.  A proof, a mismatch or a decision
\* before the final candidate has none.
Readmit(events, n) ==
    LET type    == events[n].type
        body    == events[n].body
        options == EventOptionsFrom(events[n])
    IN  \/ type = "RunStarted" /\ Copy!StartRun(options)
        \/ type = "ProposalReceived" /\ ReplayProposal(body, options)
        \/ type = "EffectRequested" /\ Copy!RecordEffectRequest(body, options)
        \/ type = "WritePreflightRequested" /\ Copy!RecordWritePreflightRequested(body, options)
        \/ type = "WritePreflightDecided" /\ Copy!RecordWritePreflightDecided(body, options)
        \/ type = "WriteQuarantined" /\ Copy!RecordWriteQuarantined(body, options)
        \/ type = "ApprovalRequested" /\ Copy!RecordApprovalRequested(body, options)
        \/ type = "ApprovalGranted" /\ Copy!RecordApprovalGranted(body, options)
        \/ type = "ApprovalDenied" /\ Copy!RecordApprovalDenied(body, options)
        \/ type = "ApprovalExpired" /\ Copy!RecordApprovalExpired(body, options)
        \/ /\ type = "MutationCommitted"
           /\ \E proposal \in MutationProposalBefore(events, n) :
                 Copy!CommitMutation(proposal, options)
        \/ type = "EffectReceiptRecorded" /\ Copy!RecordEffectReceipt(body, options)
        \/ type = "ExternalStateObserved" /\ Copy!RecordExternalStateObservation(body, options)

\* The fresh kernel has a call for the n-th event, and the call does not throw.
ProposalMayReturn(proposal, options) ==
    \/ proposal.kind = "final_candidate"
    \/ /\ \/ proposal.kind = "tool_command_request"
          \/ IsMutationCommand(proposal) /\ HasPayloadHash(proposal)
       /\ Copy!CanRecord("ProposalReceived", proposal, options)

CommitMayReturn(proposal, options) ==
    /\ MayBeCommitted(copyKept, copyRevision, proposal)
    /\ options.wellFormed
    /\ Copy!CanRecord("MutationCommitted",
                      MutationOf(proposal, copyRevision[proposal.stateRef]), options)

MayBeRecorded(lists, type, body, eventId) ==
    \/ type \in {"EffectRequested", "WritePreflightRequested", "ApprovalRequested"}
    \/ type = "WritePreflightDecided" /\ DecisionMayBeRecorded(lists, body)
    \/ type = "WriteQuarantined" /\ QuarantineMayBeRecorded(lists, body)
    \/ type = "ApprovalGranted" /\ GrantMayBeRecorded(lists, body)
    \/ type \in {"ApprovalDenied", "ApprovalExpired"} /\ AnswersRequest(lists, body)
    \/ type = "EffectReceiptRecorded" /\ ReceiptMayBeRecorded(lists, body, eventId)
    \/ type = "ExternalStateObserved" /\ ObservationMayBeRecorded(body, eventId)

MayBeReadmitted(events, n) ==
    LET type    == events[n].type
        body    == events[n].body
        options == EventOptionsFrom(events[n])
    IN  \/ type = "RunStarted" /\ Copy!CanStart(options)
        \/ type = "ProposalReceived" /\ ProposalMayReturn(body, options)
        \/ /\ type = "MutationCommitted"
           /\ \E proposal \in MutationProposalBefore(events, n) : CommitMayReturn(proposal, options)
        \/ /\ MayBeRecorded(copyKept, type, body,
                            Given(options.eventId, Copy!NextEventId(type)))
           /\ Copy!CanRecord(type, body, options)

ReplayInput ==
    /\ replay.at = "replaying"
    /\ replay.next < replay.last.final
    /\ \/ /\ Readmit(replay.events, replay.next)
          /\ replay' = [replay EXCEPT !.next = @ + 1]
       \/ /\ ~MayBeReadmitted(replay.events, replay.next)
          /\ replay' = ReplayFailed(replay.events, "event_stream_integrity_failed")
          /\ UNCHANGED copyVars
    /\ UNCHANGED vars

\* ------------------------------------------------------------------------
\* The final candidate

\* The mismatches between the proof and the decision.
StoredMismatches(events, at) ==
    {i \in (at.proof + 1)..(at.release - 1) : events[i].type = "MismatchDetected"}

\* The k-th of some positions.
Kth(positions, k) == CHOOSE i \in positions : Cardinality({j \in positions : j <= i}) = k

StoredFinalOptions(events, at) ==
    LET mismatches == StoredMismatches(events, at)
    IN  [eventId |-> events[at.final].id, causationId |-> events[at.final].cause,
         wellFormed |-> events[at.final].intact, proofEventId |-> events[at.proof].id,
         mismatchEventIds |-> [k \in 1..Cardinality(mismatches) |-> events[Kth(mismatches, k)].id],
         releaseEventId |-> events[at.release].id,
         finalReleasedEventId |->
            IF at.released = 0 THEN Default ELSE events[at.released].id]

\* submitFinalCandidate returned: its plan was carried out to the end.
Submitted(events) ==
    LET e == events[Len(events)]
    IN  e.type = "FinalReleased" \/ (e.type = "ReleaseDecided" /\ e.body.status # "released")

BodyOfLast(events, type) == events[Latest(EventsAfter(events, 0, type))].body

\* The types of a proof's mismatches, in claim order.
MismatchTypes(proof) ==
    {[i \in DOMAIN list |-> list[i].type] : list \in InClaimOrder(BlockingMismatches(proof))}

\* Mutant: the decision is not compared.
SameOutcome_TypesOnly(events, at, replayed) ==
    /\ Len(replayed) <= Len(events)
    /\ \A i \in DOMAIN replayed : replayed[i].type = events[i].type

\* replayDivergenceNotes is empty.
SameOutcome(events, at, replayed) ==
    LET proof    == BodyOfLast(replayed, "ProofGenerated")
        decision == BodyOfLast(replayed, "ReleaseDecided")
    IN  /\ Len(replayed) <= Len(events)
        /\ \A i \in DOMAIN replayed : replayed[i].type = events[i].type
        /\ decision.status = events[at.release].body.status
        /\ MismatchTypes(proof) = MismatchTypes(events[at.proof].body)
        /\ decision.approved = events[at.release].body.approved

SubmitStored(events, at) ==
    \E options \in {StoredFinalOptions(events, at)} :
        Copy!SubmitFinalCandidate(events[at.final].body, options, events[at.proof].body.generatedAt)

\* The call does not throw before it changes anything.
MayBeSubmitted(events, at) ==
    Copy!CanRecord("ProposalReceived", events[at.final].body, StoredFinalOptions(events, at))

ReplayFinalCandidate ==
    /\ replay.at = "replaying"
    /\ replay.next = replay.last.final
    /\ \E events \in {replay.events}, at \in {replay.last} :
        \/ /\ SubmitStored(events, at)
           /\ replay' = IF ~Submitted(copyLog') THEN ReplayFailed(events, "event_stream_integrity_failed")
                        ELSE IF SameOutcome(events, at, copyLog')
                        THEN [at |-> "passed", events |-> events]
                        ELSE ReplayFailed(events, "replay_diverged")
        \/ /\ ~MayBeSubmitted(events, at)
           /\ replay' = ReplayFailed(events, "event_stream_integrity_failed")
           /\ UNCHANGED copyVars
    /\ UNCHANGED vars

\* ------------------------------------------------------------------------
\* What is read: the log, a log cut off by a crash, one that lost an event, or one
\* in which an event was rewritten and its hash computed anew.  The rewritten event is
\* one that parses: replayRunEvents fails at once on another.
Without(events, n) == SubSeq(events, 1, n - 1) \o SubSeq(events, n + 1, Len(events))

Rewritten(events, n) ==
    {[events EXCEPT ![n].body = b] :
        b \in {body \in Forgeries(events[n]) :
                 events[n].type \in KeptTypes => body \in Inputs[events[n].type]}}

Readable(events) ==
    {SubSeq(events, 1, n) : n \in 1..Len(events)}
        \cup {Without(events, n) : n \in DOMAIN events}
        \cup UNION {Rewritten(events, n) : n \in DOMAIN events}

HistoryInit ==
    /\ Init
    /\ Copy!Init
    /\ replay = [at |-> "idle"]

HistoryNext ==
    \/ replay.at = "idle" /\ Next /\ Explored(log') /\ UNCHANGED <<copyVars, replay>>
    \/ \E events \in Readable(Stored(log)) : ReplayRunEvents(events)
    \/ ReplayInput
    \/ ReplayFinalCandidate

HistorySpec == HistoryInit /\ [][HistoryNext]_historyVars
=============================================================================
