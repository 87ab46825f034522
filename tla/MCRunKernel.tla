---------------------------- MODULE MCRunKernel ----------------------------
(***************************************************************************)
(* Small inputs for TLC's runs of the run kernel.  A run of the program    *)
(* tells one of four stories: mutations, approved writes, quarantined      *)
(* writes, or evidence and release.  OneStory keeps TLC to runs that mix   *)
(* no two of them, each to its own length.                                 *)
(***************************************************************************)
EXTENDS RunKernelProperties

CONSTANTS e1, e2, k1, k2, m1, m2, s1, s2, p1, p2, w1, w2, a1, x1, x2, q1, v1, badHash

MCHash(content) == <<"sha256", content>>


Option(id, cause, ok) == [eventId |-> id, causationId |-> cause, wellFormed |-> ok]
PlainOption == Option(Default, Default, TRUE)
MalformedOption == Option(Default, Default, FALSE)

\* Defaults, a date the contract rejects, a chosen id, and a chosen id with a
\* chosen cause.
MCOptions ==
    {PlainOption, MalformedOption, Option(e2, Default, TRUE), Option(e1, e2, TRUE)}

MCTool == {[kind |-> "tool_command_request", runId |-> RunId, commandId |-> k2]}

\* ------------------------------------------------------------------------
\* Mutations: two commands race for revision 0 of s1, a third follows one of
\* them, a fourth reuses the ids of the first for s2, a fifth is mishashed.
Command(k, m, s, r) ==
    LET c == [kind |-> "mutation_command_request", runId |-> RunId,
              commandId |-> k, mutationId |-> m, stateRef |-> s, expectedRevision |-> r]
    IN  [f \in DOMAIN c \cup {"payloadHash"} |->
            IF f = "payloadHash" THEN MCHash(c) ELSE c[f]]

MCMutations ==
    {Command(k1, m1, s1, 0), Command(k2, m1, s1, 0), Command(k1, m2, s1, 1),
     Command(k1, m1, s2, 0),
     [Command(k1, m1, s1, 0) EXCEPT !.payloadHash = badHash]}

\* ------------------------------------------------------------------------
\* Write preflight and approvals
Write(p, w, class) ==
    [runId |-> RunId, preflightId |-> p, identity |-> w, sideEffectClass |-> class]

Quarantine(w) ==
    [runId |-> RunId, preflightId |-> p1, identity |-> w,
     sideEffectClass |-> "critical_write", quarantineId |-> q1]

Decision(write, status, approval, at, quarantine) ==
    [runId |-> RunId, preflightId |-> write.preflightId, identity |-> write.identity,
     sideEffectClass |-> write.sideEffectClass, status |-> status,
     approvalId |-> approval, decidedAt |-> at, quarantine |-> quarantine]

MCPreflights == {Write(p1, w1, "critical_write"), Write(p1, w2, "critical_write")}

MCApprovedDecisions ==
    {Decision(Write(p1, w1, "critical_write"), "allowed", a1, t, Null) : t \in 1..2}

MCQuarantineDecisions ==
    {Decision(Write(p1, w1, "critical_write"), "allowed", Null, 1, Null),
     Decision(Write(p1, w1, "critical_write"), "denied", Null, 1, Null),
     Decision(Write(p1, w1, "critical_write"), "quarantined", Null, 1, Quarantine(w1)),
     Decision(Write(p1, w1, "critical_write"), "quarantined", Null, 1, Quarantine(w2)),
     Decision(Write(p1, w1, "write"), "allowed", Null, 1, Null),
     Decision(Write(p2, w1, "critical_write"), "quarantined", Null, 1, Quarantine(w1))}

MCDecisions == MCApprovedDecisions \cup MCQuarantineDecisions

MCQuarantines == {Quarantine(w1), Quarantine(w2)}

Scope(w) == [kind |-> "write_preflight", preflightId |-> p1, identity |-> w,
             sideEffectClass |-> "critical_write"]

MCApprovalRequests ==
    {[runId |-> RunId, approvalId |-> a1, scope |-> Scope(w), requestedAt |-> 0, expiresAt |-> 1] :
        w \in {w1, w2}}
MCApprovalGrants ==
    {[runId |-> RunId, approvalId |-> a1, scope |-> Scope(w), grantedAt |-> t, expiresAt |-> t] :
        w \in {w1, w2}, t \in 1..2}
MCApprovalDenials == {[runId |-> RunId, approvalId |-> a1, scope |-> Scope(w1), deniedAt |-> 1]}
MCApprovalExpiries == {[runId |-> RunId, approvalId |-> a1, scope |-> Scope(w1), expiredAt |-> 1]}

\* ------------------------------------------------------------------------
\* Evidence and release.  One effect; a receipt that shows x1 passed, one that
\* failed under the same evidence id, one of another capability, and one whose
\* evidence cites another event; an observation of v1.
Ref(x, kind, event, content) ==
    [evidenceId |-> x, kind |-> kind, sourceEventId |-> event, hash |-> MCHash(content)]

Passed == [result |-> "passed"]
Failed == [result |-> "failed"]

Receipt(capability, status, payload, cited, kind) ==
    [runId |-> RunId, effectId |-> w1, capabilityId |-> capability,
     receiptType |-> "test_run", status |-> status, payload |-> payload,
     payloadHash |-> MCHash(payload), evidence |-> {Ref(x1, kind, cited, payload)}]

MCEffectRequests ==
    {[runId |-> RunId, effectId |-> w1, capabilityId |-> "tests"]}

MCReceipts ==
    {Receipt("tests", "succeeded", Passed, e1, "effect_receipt"),
     Receipt("tests", "succeeded", Passed, e2, "effect_receipt"),
     Receipt("tests", "failed", Passed, e2, "effect_receipt"),
     Receipt("deploy", "succeeded", Passed, e1, "effect_receipt")}

Open == [primitive |-> TRUE, is |-> "open", holds |-> {"open"}]
State == [status |-> Open]

MCObservations ==
    {[runId |-> RunId, subject |-> v1, state |-> State, observedAt |-> t,
      payloadHash |-> MCHash(State),
      evidence |-> {Ref(x2, "external_observation", e2, State)}] : t \in {0, 1, 3}}

TestClaim(n, refs) ==
    [claimId |-> n, refs |-> refs,
     predicate |-> [kind |-> "test_result", capabilityId |-> "tests",
                    receiptType |-> "test_run", fields |-> Passed]]

StateClaim(n, refs) ==
    [claimId |-> n, refs |-> refs,
     predicate |-> [kind |-> "current_state", subject |-> v1, property |-> "status",
                    operator |-> "equals", value |-> "open", freshness |-> 1]]

Candidate(id, claims) ==
    [kind |-> "final_candidate", runId |-> RunId, candidateId |-> id, claims |-> claims]

PassedRef(e) == Ref(x1, "effect_receipt", e, Passed)
StateRef(e) == Ref(x2, "external_observation", e, State)

MCReceiptCandidates ==
    {Candidate("tests", <<TestClaim("c1", <<PassedRef(e1), PassedRef(e2)>>)>>),
     Candidate("unfounded", <<TestClaim("c1", <<PassedRef(e1)>>), TestClaim("c2", <<>>)>>)}

MCObservationCandidates ==
    {Candidate("state", <<StateClaim("c1", <<StateRef(e2)>>)>>)}

MCCandidates == MCReceiptCandidates \cup MCObservationCandidates

Final(id, ok, proof, mismatches, release, final) ==
    [eventId |-> id, causationId |-> Default, wellFormed |-> ok, proofEventId |-> proof,
     mismatchEventIds |-> mismatches, releaseEventId |-> release,
     finalReleasedEventId |-> final]

\* Ids left out; ids that may collide with the evidence events; too few
\* mismatch ids; a malformed date.
MCFinalOptions ==
    {Final(Default, TRUE, Default, Default, Default, Default),
     Final(Default, TRUE, Default, <<e2>>, Default, e1),
     Final(Default, FALSE, Default, Default, Default, Default)}

\* ------------------------------------------------------------------------
\* The stories: the records callers pass in them, the ids they choose, and how
\* many calls they make.
Story(records, ids, calls) == [records |-> records, ids |-> ids, calls |-> calls]

Derived == {"RunStarted", "MutationCommitted", "ProofGenerated", "MismatchDetected",
            "ReleaseDecided", "FinalReleased"}

MutationStory == Story(MCTool \cup MCMutations, {}, 5)
ApprovalStory ==
    Story({Write(p1, w1, "critical_write")} \cup MCApprovalRequests \cup MCApprovalGrants \cup MCApprovalDenials
              \cup MCApprovalExpiries \cup MCApprovedDecisions, {}, 6)
QuarantineStory == Story(MCPreflights \cup MCQuarantineDecisions \cup MCQuarantines, {}, 5)
ReceiptStory == Story(MCEffectRequests \cup MCReceipts \cup MCReceiptCandidates, {e1, e2}, 5)
ObservationStory == Story(MCObservations \cup MCObservationCandidates, {e1, e2}, 4)

TellsIn(events, story) ==
    /\ Cardinality({i \in DOMAIN events : events[i].type \notin Derived \ {"RunStarted", "MutationCommitted"}})
          <= story.calls
    /\ \A i \in DOMAIN events :
          /\ events[i].type \in Derived \/ events[i].body \in story.records
          /\ events[i].id \notin {e1, e2} \ story.ids

OneStory ==
    \E story \in {MutationStory, ApprovalStory, QuarantineStory, ReceiptStory, ObservationStory} :
        TellsIn(log, story)
=============================================================================
