---------------------------- MODULE RunProjection ----------------------------
(***************************************************************************)
(* rebuildRunProjection (packages/projections/src/run-projection.ts): what *)
(* a stored event stream says of its run, as operators over streams of     *)
(* stored events.  Event times, the profile and the metadata are left out; *)
(* so are the write, approval and mutation events, of which a projection   *)
(* keeps the ids only.                                                     *)
(***************************************************************************)
EXTENDS LedgerContract

\* validateAcceptedEventSequence does not throw: the run is the first event's.
ValidateAcceptedEventSequence(events) ==
    events # <<>> => IsRunStream(events, events[1].runId)

\* rebuildRunProjection does not throw.
CanBeRebuilt(events) ==
    /\ ValidateAcceptedEventSequence(events)
    /\ events # <<>>
    /\ events[1].type = "RunStarted"

PositionsOf(events, type) == {i \in DOMAIN events : events[i].type = type}

\* What "apply" pushes, event by event, for those at some positions.
BodiesAt(events, positions) ==
    LET pushed[n \in 0..Len(events)] ==
            IF n = 0 THEN <<>>
            ELSE IF n \in positions THEN Append(pushed[n - 1], events[n].body)
            ELSE pushed[n - 1]
    IN  pushed[Len(events)]

BodiesOf(events, type) == BodiesAt(events, PositionsOf(events, type))

FinalCandidatesOf(events) ==
    BodiesAt(events, {i \in PositionsOf(events, "ProposalReceived") :
                         events[i].body.kind = "final_candidate"})

\* Mutant: the first, not the last.
LastOf_First(list) == IF list = <<>> THEN Null ELSE list[1]

LastOf(list) == IF list = <<>> THEN Null ELSE list[Len(list)]

RunStatus(events) ==
    LET decisions == BodiesOf(events, "ReleaseDecided")
    IN  IF decisions # <<>> THEN LastOf(decisions).status
        ELSE IF Len(events) = 1 THEN "started" ELSE "running"

RebuildRunProjection(events) ==
    LET finalCandidates == FinalCandidatesOf(events)
        releases        == BodiesOf(events, "FinalReleased")
    IN  [runId                  |-> events[1].runId,
         status                 |-> RunStatus(events),
         eventIds               |-> [i \in DOMAIN events |-> events[i].id],
         proposals              |-> BodiesOf(events, "ProposalReceived"),
         effectRequests         |-> BodiesOf(events, "EffectRequested"),
         receipts               |-> BodiesOf(events, "EffectReceiptRecorded"),
         observations           |-> BodiesOf(events, "ExternalStateObserved"),
         finalCandidates        |-> finalCandidates,
         finalCandidate         |-> LastOf(finalCandidates),
         proof                  |-> LastOf(BodiesOf(events, "ProofGenerated")),
         releaseDecision        |-> LastOf(BodiesOf(events, "ReleaseDecided")),
         mismatches             |-> BodiesOf(events, "MismatchDetected"),
         finalReleased          |-> releases # <<>>,
         finalReleasedCandidate |-> IF releases = <<>> THEN Null ELSE LastOf(releases).candidate]
=============================================================================
