--------------------------- MODULE MCEvidencePool ---------------------------
(***************************************************************************)
(* Records a lying or careless caller could hand over, for TLC.            *)
(***************************************************************************)
EXTENDS EvidencePool

CONSTANTS run, otherRun, x1, x2, e1, e2, badHash

MCHash(content) == <<"sha256", content>>

Ref(x, kind, event, content) ==
    [evidenceId |-> x, kind |-> kind, sourceEventId |-> event, hash |-> MCHash(content)]

\* The test suite is left out of one payload, and is another in a third.
Passed == [result |-> "passed", suite |-> "unit"]
Bare   == [result |-> "passed"]

Receipt(id, status, payload, hash, evidence) ==
    [runId |-> id, effectId |-> "effect", capabilityId |-> "tests", receiptType |-> "test_run",
     status |-> status, payload |-> payload, payloadHash |-> hash, evidence |-> evidence]

R1 == Ref(x1, "effect_receipt", e1, Passed)
R2 == Ref(x2, "effect_receipt", e2, Bare)
Forged == [R1 EXCEPT !.hash = badHash]

\* Genuine; genuine without the suite; a failure under the first one's ref; of
\* another run; one whose payload is not what its hash and its ref say; citing an observation; of another capability.
MCReceipts ==
    {Receipt(run, "succeeded", Passed, MCHash(Passed), {R1}),
     Receipt(run, "succeeded", Bare, MCHash(Bare), {R2}),
     Receipt(run, "failed", Passed, MCHash(Passed), {R1}),
     Receipt(otherRun, "failed", Passed, MCHash(Passed), {R1}),
     Receipt(run, "succeeded", Passed, badHash, {Forged}),
     Receipt(run, "succeeded", Passed, MCHash(Passed),
             {R1, Ref(x2, "external_observation", e2, Passed)}),
     [Receipt(run, "succeeded", Passed, MCHash(Passed), {R1}) EXCEPT !.capabilityId = "deploy"]}

Open == [status |-> [primitive |-> TRUE, is |-> "open", holds |-> {"open"}]]
Tags == [status |-> [primitive |-> FALSE, is |-> "tags", holds |-> {"open", "urgent"}]]

Observation(id, subject, state, at, hash) ==
    [runId |-> id, subject |-> subject, state |-> state, observedAt |-> at, payloadHash |-> hash,
     evidence |-> {Ref(x1, "external_observation", e1, state)}]

MCObservations ==
    {Observation(run, "ticket", Open, 0, MCHash(Open)),
     Observation(run, "ticket", Open, 2, MCHash(Open)),
     Observation(run, "ticket", Tags, 1, MCHash(Tags)),
     Observation(run, "mailbox", Open, 1, MCHash(Open)),
     Observation(run, "ticket", Open, 1, badHash)}

TestClaim(id, fields, refs) ==
    [claimId |-> id, refs |-> refs,
     predicate |-> [kind |-> "test_result", capabilityId |-> "tests",
                    receiptType |-> "test_run", fields |-> fields]]

StateClaim(id, operator, value, refs) ==
    [claimId |-> id, refs |-> refs,
     predicate |-> [kind |-> "current_state", subject |-> "ticket", property |-> "status",
                    operator |-> operator, value |-> value, freshness |-> 1]]

O1(state) == Ref(x1, "external_observation", e1, state)

Candidate(claims) == [runId |-> run, candidateId |-> "candidate", claims |-> claims]

\* Two claims under one id; operators that need a primitive; no usable ref.
MCCandidates ==
    {Candidate(<<TestClaim("c", Passed, <<R1>>)>>),
     Candidate(<<TestClaim("c", Bare, <<R1, R2>>), TestClaim("c", Passed, <<R2, Forged>>)>>),
     Candidate(<<StateClaim("c", "equals", "open", <<O1(Open), R1>>)>>),
     Candidate(<<StateClaim("c", "not_equals", "closed", <<O1(Open), O1(Tags)>>)>>),
     Candidate(<<StateClaim("c", "contains", "urgent", <<O1(Tags)>>),
                 TestClaim("d", Passed, <<R1>>)>>),
     Candidate(<<TestClaim("c", Passed, <<O1(Open)>>)>>)}

Mismatch(blocking) == [index |-> 1, claimId |-> "c", type |-> "unsupported_claim",
                       blocking |-> blocking]

MCForeignProofs ==
    {[runId |-> run, generatedAt |-> 0, verdict |-> v, approved |-> {"c"}, rejected |-> {},
      mismatches |-> m] :
        v \in {"pass", "fail", "needs_repair", "quarantine"},
        m \in {{}, {Mismatch(TRUE)}, {Mismatch(FALSE)}}}
=============================================================================
