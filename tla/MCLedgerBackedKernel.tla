------------------------ MODULE MCLedgerBackedKernel ------------------------
(***************************************************************************)
(* A run with a tool call, a receipt and two final candidates, small enough*)
(* to let every interleaving of its calls' appends happen.                 *)
(***************************************************************************)
EXTENDS LedgerBackedKernel

CONSTANTS x1, w1, c1, c2

MCHash(content) == <<"sha256", content>>

MCOptions ==
    {[eventId |-> Default, causationId |-> Default, wellFormed |-> ok] : ok \in BOOLEAN}

MCTool == {[kind |-> "tool_command_request", runId |-> RunId, commandId |-> w1]}

MCEffectRequests == {[runId |-> RunId, effectId |-> w1, capabilityId |-> "tests"]}

Passed == [result |-> "passed"]

\* The receipt cites the event it gets as the third of the log.
Evidence ==
    [evidenceId |-> x1, kind |-> "effect_receipt",
     sourceEventId |-> <<3, "EffectReceiptRecorded">>, hash |-> MCHash(Passed)]

MCReceipts ==
    {[runId |-> RunId, effectId |-> w1, capabilityId |-> "tests", receiptType |-> "test_run",
      status |-> "succeeded", payload |-> Passed, payloadHash |-> MCHash(Passed),
      evidence |-> {Evidence}]}

TestClaim(refs) ==
    [claimId |-> "c1", refs |-> refs,
     predicate |-> [kind |-> "test_result", capabilityId |-> "tests",
                    receiptType |-> "test_run", fields |-> Passed]]

Candidate(id, refs) ==
    [kind |-> "final_candidate", runId |-> RunId, candidateId |-> id,
     claims |-> <<TestClaim(refs)>>]

\* A claim without evidence: a proposal, a proof, a mismatch and a decision.  The
\* second choice of ids has none for the mismatch, and the kernel throws there.
MCUnfounded == {Candidate("unfounded", <<>>)}

\* A claim with evidence: a proposal, a proof, a decision and the release.
MCFounded == {Candidate("founded", <<Evidence>>)}

MCCandidates == MCUnfounded \cup MCFounded

MCFinalOptions ==
    {[eventId |-> Default, causationId |-> Default, wellFormed |-> TRUE,
      proofEventId |-> Default, mismatchEventIds |-> m, releaseEventId |-> Default,
      finalReleasedEventId |-> Default] : m \in {Default, <<>>}}
=============================================================================
