---------------------------- MODULE MCRunHistory ----------------------------
(***************************************************************************)
(* Small histories: the stories of MCRunKernel, shorter, with the ids and  *)
(* times reconciliation reads, each ending in final candidates.            *)
(***************************************************************************)
EXTENDS MCRunKernel, RunHistory

CONSTANTS rc1, rc2

HistoryOptions == {PlainOption, Option(e1, Default, TRUE), Option(e2, Default, TRUE), MalformedOption}

\* The defaults; ids that cut the submission short, after its proposal or later; a
\* submission caused by the one that got no further than its proposal.
HistoryFinalOptions ==
    {Final(Default, TRUE, Default, Default, Default, Default),
     Final(Default, TRUE, Default, <<e2>>, Default, e1),
     Final(e1, TRUE, e1, Default, Default, Default),
     [Final(Default, TRUE, Default, Default, Default, Default) EXCEPT !.causationId = e1]}

With(record, field, value) ==
    [f \in DOMAIN record \cup {field} |-> IF f = field THEN value ELSE record[f]]

HistoryReceipts ==
    {With(Receipt("tests", "succeeded", Passed, e1, "effect_receipt"), "receiptId", rc1),
     With(Receipt("tests", "failed", Passed, e2, "effect_receipt"), "receiptId", rc2),
     With(Receipt("tests", "unknown", Passed, e2, "effect_receipt"), "receiptId", rc1)}

Moved == [status |-> [primitive |-> TRUE, is |-> "closed", holds |-> {"closed"}]]

Observed(id, state, at, cited) ==
    [runId |-> RunId, observationId |-> id, subject |-> v1, state |-> state, observedAt |-> at,
     expiresAt |-> at + 1, payloadHash |-> MCHash(state),
     evidence |-> {Ref(x2, "external_observation", cited, state)}]

HistoryObservations == {Observed(1, State, 1, e2), Observed(2, State, 2, e1), Observed(1, Moved, 2, e1)}

\* Seen later: the same, something else, the same at a time yet to come, a mishashed one.
HistoryFresh ==
    {Observed(3, State, 2, Null), Observed(4, Moved, 2, Null), Observed(5, State, 4, Null),
     [Observed(6, State, 3, Null) EXCEPT !.payloadHash = badHash]}

Summary(receiptId, status, certainty, at) ==
    [effectId |-> w1, receiptId |-> receiptId, status |-> status, certainty |-> certainty, observedAt |-> at]

HistorySummaries ==
    {Summary(Null, "succeeded", "confirmed", 2), Summary(rc1, "missing", "confirmed", 2),
     Summary(rc1, "succeeded", "uncertain", 1)}

HistoryExtra ==
    {[receipts |-> <<>>, observations |-> <<>>],
     [receipts |-> <<[effectId |-> w1, receiptId |-> "other", status |-> "succeeded",
                      payload |-> Passed, payloadHash |-> badHash]>>,
      observations |-> <<[Observed(7, State, 1, Null) EXCEPT !.payloadHash = badHash]>>]}

HistoryChecks == {[checkedAt |-> 3, freshness |-> Null], [checkedAt |-> 3, freshness |-> 0]}

\* A receipt that reports otherwise, a decision turned round, a proof without its
\* mismatches.
HistoryForgeries(e) ==
    CASE e.type = "EffectReceiptRecorded" -> {r \in HistoryReceipts : r.evidence = e.body.evidence} \ {e.body}
      [] e.type = "ReleaseDecided" ->
            {[e.body EXCEPT !.status = IF @ = "released" THEN "blocked" ELSE "released"],
             [e.body EXCEPT !.approved = {"c2"}]}
      [] e.type = "ProofGenerated" -> {[e.body EXCEPT !.mismatches = {}], [e.body EXCEPT !.generatedAt = 3]} \ {e.body}
      [] OTHER -> {}

Unfounded == {Candidate("unfounded", <<TestClaim("c1", <<PassedRef(e1)>>), TestClaim("c2", <<>>)>>)}
HistoryCandidates == MCReceiptCandidates \cup MCObservationCandidates

\* ------------------------------------------------------------------------
HistoryStories ==
    {Story({Command(k1, m1, s1, 0), Command(k2, m1, s1, 0), Command(k2, m2, s2, 0)} \cup Unfounded, {}, 5),
     Story(MCEffectRequests \cup HistoryReceipts \cup MCReceiptCandidates, {e1, e2}, 5),
     Story(HistoryObservations \cup MCObservationCandidates, {e1, e2}, 4),
     Story({Write(p1, w1, "critical_write")} \cup MCApprovalRequests \cup MCApprovalGrants
              \cup MCApprovalDenials \cup MCApprovalExpiries \cup Unfounded, {}, 4),
     Story({Write(p1, w1, "critical_write"), Quarantine(w1)} \cup MCQuarantineDecisions \cup Unfounded, {}, 5)}

\* Only the start may be malformed, the chosen ids are taken in one order, and what is
\* said to be caused by e1 stands in a log without e2.
ShortStory(events) ==
    /\ \E story \in HistoryStories : TellsIn(events, story)
    /\ \A i \in DOMAIN events : ~events[i].wellFormed => events[i].type = "RunStarted"
    /\ \A i, j \in DOMAIN events : i < j /\ events[i].id = e2 => events[j].id # e1
    /\ \A i, j \in DOMAIN events : events[i].cause = e1 /\ events[j].id = e2 => events[i].type \in Derived
=============================================================================
