----------------------------- MODULE RunHistory -----------------------------
(***************************************************************************)
(* The readers of a run's stored history, over the kernel that makes it:   *)
(* replay steps, and the projection and the reconciliation of every        *)
(* history the kernel can leave.                                           *)
(***************************************************************************)
EXTENDS Replay

CONSTANTS
    FreshObservations,   \* what may be observed of the world later
    StatusSummaries,     \* what others may say of receipts
    ExtraEvidence,       \* [receipts, observations] passed beside the events
    Checks               \* [checkedAt, freshness]

ReportedStatuses == {"succeeded", "failed", "unknown"}

\* Proposals say what they are in their kind.
ASSUME ProposalKinds ==
    /\ \A c \in ToolCommands : c.kind = "tool_command_request"
    /\ \A c \in MutationCommands : IsMutationCommand(c)
    /\ \A c \in FinalCandidates : c.kind = "final_candidate"

\* What the parsers guarantee of what is reconciled: arrays of records of their
\* types, whose dates are numbers.
ASSUME EvidenceContracts ==
    /\ IsFiniteSet(FreshObservations) /\ IsFiniteSet(StatusSummaries)
    /\ \A o \in FreshObservations :
          o.observationId \in Int /\ o.observedAt \in Int /\ o.expiresAt \in Int
    /\ \A s \in StatusSummaries : s.observedAt \in Int
    /\ \A c \in Checks : c.checkedAt \in Int /\ (c.freshness # Null => c.freshness \in Int)
    /\ \A x \in ExtraEvidence : /\ x.receipts \in Seq(Elements(x.receipts))
                                /\ x.observations \in Seq(Elements(x.observations))
    /\ \A r \in EffectReceipts \cup UNION {Elements(x.receipts) : x \in ExtraEvidence} :
          r.status \in ReportedStatuses

\* States of equal canonical hash are equal.
ASSUME HashesTellStatesApart ==
    LET states == {o.state : o \in Observations \cup FreshObservations
                                 \cup UNION {Elements(x.observations) : x \in ExtraEvidence}}
    IN  \A s, t \in states : CanonicalHash(s) = CanonicalHash(t) => s = t

Projections == INSTANCE RunProjection
Reconciler == INSTANCE Reconciliation

Bodies(events, type) == Projections!BodiesOf(events, type)

\* ------------------------------------------------------------------------
\* Histories

IsCutOf(events, history) ==
    Len(events) <= Len(history) /\ events = SubSeq(history, 1, Len(events))

\* No two different mutation commands were proposed under one mutation id.
MutationIdsAreDistinct(events) ==
    LET proposals == {p \in Elements(Bodies(events, "ProposalReceived")) : IsMutationCommand(p)}
    IN  \A p, q \in proposals : p.mutationId = q.mutationId => p = q

\* The last submission in the stream was carried through.
IsDecided(events) ==
    LET at == LastSubmission(events)
    IN  /\ FinalProposals(events) # {}
        /\ at.proof # 0 /\ at.release # 0
        /\ events[at.release].body.status = "released" => at.released # 0

\* ------------------------------------------------------------------------
\* Replay.

\* The stored decision is the one that the evidence stored before the candidate,
\* judged anew at the stored time, leads to.
DecisionIsRight(events) ==
    LET at       == LastSubmission(events)
        before   == SubSeq(events, 1, at.final - 1)
        decision == DecideRelease(events[at.final].body,
                        EvaluateProof(events[at.final].body,
                            Elements(Bodies(before, "EffectReceiptRecorded")),
                            Elements(Bodies(before, "ExternalStateObserved")),
                            events[at.proof].body.generatedAt))
    IN  /\ events[at.release].body.status = decision.status
        /\ events[at.release].body.approved = decision.approved

\* A replay that passes vouches for the stored decision, even in a stream someone
\* rewrote.
PassesVouch == replay.at = "passed" => DecisionIsRight(replay.events)

\* Of a stream nobody touched in which no mutation id is used twice, a replay that
\* passes has repeated the run, event by event.
PassesRepeat ==
    replay.at = "passed" =>
        LET events == replay.events
        IN  IsCutOf(events, Stored(log)) /\ MutationIdsAreDistinct(events) =>
                IsCutOf(Stored(copyLog), events)

\* And if such a stream holds one submission, carried through, its replay passes.
ReplayDecidesRightly ==
    /\ PassesVouch
    /\ PassesRepeat
    /\ replay.at = "failed" =>
          LET events == replay.events
          IN  ~ /\ IsCutOf(events, Stored(log))
                /\ Contract!IsRunStream(events, RunId)
                /\ MutationIdsAreDistinct(events)
                /\ Cardinality(FinalProposals(events)) = 1
                /\ IsDecided(events)

\* ------------------------------------------------------------------------
\* A projection does not tell another story than the run.  At every cut: only what
\* a decision in it released is shown as released, with every claim approved.
\* While the last submission is carried through, a run that shows as released has
\* released its latest candidate on a passing proof, and one that made a single
\* submission shows a release exactly when it is released.  A projection of the
\* whole log lists what the kernel itself keeps.
ProjectionIsCoherent ==
    replay.at = "idle" =>
        \A n \in 1..Len(log) :
            LET events == SubSeq(Stored(log), 1, n)
                shown  == Projections!RebuildRunProjection(events)
            IN  Projections!CanBeRebuilt(events) =>
                  /\ shown.finalReleased =>
                        /\ shown.finalReleasedCandidate \in Elements(shown.finalCandidates)
                        /\ SomeWith(Bodies(events, "ReleaseDecided"),
                               LAMBDA d : /\ d.status = "released"
                                          /\ d.approved =
                                                {c.claimId : c \in Elements(shown.finalReleasedCandidate.claims)})
                  /\ IsDecided(events) =>
                        /\ shown.status = "released" =>
                              /\ shown.finalReleasedCandidate = shown.finalCandidate
                              /\ shown.proof.verdict = "pass"
                        /\ Len(shown.finalCandidates) = 1 =>
                              (shown.finalReleased <=> shown.status = "released")
                  /\ n = Len(log) =>
                        /\ shown.proposals = kept["ProposalReceived"]
                        /\ shown.effectRequests = kept["EffectRequested"]
                        /\ shown.receipts = kept["EffectReceiptRecorded"]
                        /\ shown.observations = kept["ExternalStateObserved"]

\* ------------------------------------------------------------------------
IdsAreDistinct(list, field) ==
    \A i, j \in DOMAIN list : list[i][field] = list[j][field] => i = j

\* The world still is as it was observed: someone saw so, recently enough.
StillSo(accepted, fresh, check) ==
    \E o \in fresh :
        /\ o.subject = accepted.subject /\ o.state = accepted.state
        /\ o.observedAt <= check.checkedAt /\ check.checkedAt <= o.expiresAt
        /\ check.freshness # Null => check.checkedAt <= o.observedAt + check.freshness

Contradicts(summary, receipt) ==
    /\ summary.effectId = receipt.effectId
    /\ summary.receiptId \in {Null, receipt.receiptId}
    /\ summary.status # receipt.status \/ summary.certainty = "uncertain"

EvidenceTypes == {"EffectRequested", "EffectReceiptRecorded", "ExternalStateObserved"}

\* A report is right about the evidence it was given.  "consistent" is never said
\* over an effect without a receipt, a receipt of unknown outcome, an observation the
\* world has moved on from or nobody repeated in time, or a lone summary that
\* contradicts.  And it is said when none of this is so: when all that was passed
\* agrees and is timely.
ReportIsSound(requests, receipts, observations, fresh, summaries, check) ==
    LET report == Reconciler!ReconcileAcceptedEvidence(requests, receipts, observations,
                                                       fresh, summaries, check)
        Intact(record, content) == record.payloadHash = CanonicalHash(content)
        receipted == \A q \in Elements(requests) : \E r \in Elements(receipts) : r.effectId = q.effectId
        known == \A r \in Elements(receipts) : r.status # "unknown" /\ Intact(r, r.payload)
        unmoved == \A o \in Elements(observations) : StillSo(o, fresh, check) /\ Intact(o, o.state)
        uncontradicted == ~\E s \in summaries, r \in Elements(receipts) : Contradicts(s, r)
        agreed ==
            \A o \in fresh : /\ Intact(o, o.state)
                             /\ StillSo(o, {o}, check)
                             /\ \A p \in Elements(observations) :
                                   p.subject = o.subject => p.state = o.state
    IN  /\ report.outcome = "consistent" =>
              /\ receipted /\ known /\ unmoved
              /\ Cardinality(summaries) = 1 => uncontradicted
        /\ receipted /\ known /\ unmoved /\ uncontradicted /\ agreed =>
              report.outcome = "consistent"

\* Every report of a history in which no record id is used twice is sound.  (A
\* report reads the evidence events only, so it is enough to ask after each of these.)
ReconciliationIsSound ==
    (replay.at = "idle" /\ log # <<>> /\ log[Len(log)].type \in EvidenceTypes) =>
        \A fresh \in SUBSET FreshObservations, summaries \in SUBSET StatusSummaries,
           extra \in ExtraEvidence, check \in Checks :
            LET requests     == Bodies(log, "EffectRequested")
                receipts     == Bodies(log, "EffectReceiptRecorded") \o extra.receipts
                observations == Bodies(log, "ExternalStateObserved") \o extra.observations
            IN  IdsAreDistinct(receipts, "receiptId") /\ IdsAreDistinct(observations, "observationId") =>
                    ReportIsSound(requests, receipts, observations, fresh, summaries, check)
=============================================================================
