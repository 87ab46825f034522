---------------------------- MODULE ProofEngine ----------------------------
(***************************************************************************)
(* The proof engine (packages/proof) and the release gate                  *)
(* (packages/kernel/src/release-gate.ts) as operators: evaluateProof turns *)
(* a final candidate, the receipts and observations a run admitted and a   *)
(* time into a proof; decideRelease turns the proof into a decision.       *)
(*                                                                         *)
(* Data is abstracted to what the evaluation tells apart:                  *)
(*   evidence ref  [evidenceId, kind, sourceEventId, hash]                 *)
(*   receipt       [runId, effectId, capabilityId, receiptType, status,    *)
(*                  payload, payloadHash, evidence]   (evidence: a set)    *)
(*   observation   [runId, subject, state, observedAt, payloadHash,        *)
(*                  evidence]                                              *)
(*   claim         [claimId, predicate, refs]         (refs: a sequence)   *)
(*   predicate     [kind, capabilityId, receiptType, fields]  for          *)
(*                  test_result and historical_action: "fields" maps the   *)
(*                  payload fields the predicate pins to their values, or  *)
(*                 [kind, subject, property, operator, value, freshness]   *)
(*                  for current_state                                      *)
(* A payload maps field names to values.  An observed state maps property  *)
(* names to [primitive, is, holds]: whether it is a string, number or      *)
(* boolean, its value, and what it contains (items of an array, substrings *)
(* of a string).                                                           *)
(***************************************************************************)
EXTENDS Checks

CONSTANT CanonicalHash(_)   \* canonicalObjectHash of a JSON object

ReceiptClaimKinds == {"test_result", "historical_action"}

\* ------------------------------------------------------------------------
\* Evidence resolution

RefsOfKind(refs, kind) == {i \in DOMAIN refs : refs[i].kind = kind}

\* Mutant: the payload is not hashed again.
Believed_Unhashed(record, content, kind, runId) ==
    /\ record.runId = runId
    /\ \A ref \in record.evidence :
          ref.kind = kind /\ ref.hash = record.payloadHash

\* Mutant: records of another run are believed.
Believed_AnyRun(record, content, kind, runId) ==
    /\ record.payloadHash = CanonicalHash(content)
    /\ \A ref \in record.evidence :
          ref.kind = kind /\ ref.hash = record.payloadHash

\* A record is believed only when its own evidence is of the expected kind
\* and carries the hash of the payload it was admitted with.
Believed(record, content, kind, runId) ==
    /\ record.runId = runId
    /\ record.payloadHash = CanonicalHash(content)
    /\ \A ref \in record.evidence :
          ref.kind = kind /\ ref.hash = record.payloadHash

BelievedReceipts(receipts, runId) ==
    {r \in receipts : Believed(r, r.payload, "effect_receipt", runId)}

BelievedObservations(observations, runId) ==
    {o \in observations : Believed(o, o.state, "external_observation", runId)}

\* The records that the i-th refs resolve to: all four fields of a ref agree.
Resolved(refs, indices, records) ==
    {p \in indices \X records : refs[p[1]] \in p[2].evidence}

\* ------------------------------------------------------------------------
\* Predicates

PayloadMatches(payload, fields) ==
    \A f \in DOMAIN fields : f \in DOMAIN payload /\ payload[f] = fields[f]

ReceiptMatches(receipt, predicate) ==
    /\ receipt.receiptType = predicate.receiptType
    /\ receipt.status = "succeeded"
    /\ receipt.capabilityId = predicate.capabilityId
    /\ PayloadMatches(receipt.payload, predicate.fields)

\* Mutant: an observation of exactly the freshness limit is stale.
IsFresh_Strict(observation, predicate, now) ==
    LET age == now - observation.observedAt
    IN  age >= 0 /\ age < predicate.freshness

IsFresh(observation, predicate, now) ==
    LET age == now - observation.observedAt
    IN  age >= 0 /\ age <= predicate.freshness

ValueSatisfies(value, operator, expected) ==
    \/ operator = "equals" /\ value.primitive /\ value.is = expected
    \/ operator = "not_equals" /\ value.primitive /\ value.is # expected
    \/ operator = "contains" /\ expected \in value.holds

StateSatisfies(observation, predicate) ==
    /\ predicate.property \in DOMAIN observation.state
    /\ ValueSatisfies(observation.state[predicate.property],
                      predicate.operator, predicate.value)

\* ------------------------------------------------------------------------
\* Claims.  A verdict on a claim is "supported" or the type of the one
\* blocking mismatch that rejects it.

\* Mutant: one good receipt is enough, whatever the others report.
ReceiptClaimVerdict_AnyGood(claim, receipts, runId) ==
    LET wanted   == RefsOfKind(claim.refs, "effect_receipt")
        resolved == Resolved(claim.refs, wanted,
                             BelievedReceipts(receipts, runId))
    IN  CASE wanted = {} -> "missing_evidence"
          [] wanted # {} /\ resolved = {} -> "unverified_receipt"
          [] OTHER -> IF \E p \in resolved : ReceiptMatches(p[2], claim.predicate)
                      THEN "supported" ELSE "unsupported_claim"

\* Mutant: a receipt that resolves is support enough.
ReceiptClaimVerdict_AnyResolved(claim, receipts, runId) ==
    LET wanted == RefsOfKind(claim.refs, "effect_receipt")
    IN  IF Resolved(claim.refs, wanted, BelievedReceipts(receipts, runId)) = {}
        THEN "unverified_receipt" ELSE "supported"

ReceiptClaimVerdict(claim, receipts, runId) ==
    LET wanted   == RefsOfKind(claim.refs, "effect_receipt")
        resolved == Resolved(claim.refs, wanted,
                             BelievedReceipts(receipts, runId))
    IN  CASE wanted = {} -> "missing_evidence"
          [] wanted # {} /\ resolved = {} -> "unverified_receipt"
          [] \E p \in resolved : p[2].status # "succeeded" -> "unverified_receipt"
          [] OTHER -> IF \E p \in resolved : ReceiptMatches(p[2], claim.predicate)
                      THEN "supported" ELSE "unsupported_claim"

CurrentStateVerdict(claim, observations, now, runId) ==
    LET wanted   == RefsOfKind(claim.refs, "external_observation")
        resolved == Resolved(claim.refs, wanted,
                             BelievedObservations(observations, runId))
        sameSubject == {p \in resolved : p[2].subject = claim.predicate.subject}
        fresh == {p \in sameSubject : IsFresh(p[2], claim.predicate, now)}
    IN  CASE wanted = {} -> "missing_evidence"
          [] wanted # {} /\ sameSubject = {} -> "unsupported_claim"
          [] sameSubject # {} /\ fresh = {} -> "stale_external_state"
          [] OTHER -> IF \E p \in fresh : StateSatisfies(p[2], claim.predicate)
                      THEN "supported" ELSE "unsupported_claim"

\* The contract's ClaimSchema makes a claim's type its predicate's kind, so that the
\* check of the two cannot fail and a claim has a predicate only.
ClaimVerdict(claim, receipts, observations, now, runId) ==
    IF claim.predicate.kind \in ReceiptClaimKinds
    THEN ReceiptClaimVerdict(claim, receipts, runId)
    ELSE CurrentStateVerdict(claim, observations, now, runId)

\* ------------------------------------------------------------------------
\* evaluateProof.  A mismatch is named by its claim, type and claim index; the
\* code lists them in claim order.  The proof's own id, a label nothing reads
\* back, is left out.

EvaluateProof(candidate, receipts, observations, now) ==
    LET claims  == candidate.claims
        verdict == [i \in DOMAIN claims |->
                      ClaimVerdict(claims[i], receipts, observations, now,
                                   candidate.runId)]
        supported == {i \in DOMAIN claims : verdict[i] = "supported"}
        unsupported == (DOMAIN claims) \ supported
    IN  [runId        |-> candidate.runId,
         generatedAt  |-> now,
         verdict      |-> IF unsupported = {} THEN "pass" ELSE "fail",
         approved     |-> {claims[i].claimId : i \in supported},
         rejected     |-> {claims[i].claimId : i \in unsupported},
         mismatches   |-> {[index |-> i, claimId |-> claims[i].claimId,
                            type |-> verdict[i], blocking |-> TRUE] : i \in unsupported}]

\* ------------------------------------------------------------------------
\* decideRelease

BlockingMismatches(proof) == {m \in proof.mismatches : m.blocking}

\* A proof that does not pass and names no blocking mismatch is still blocked,
\* by a mismatch of the gate's own.
InconsistentProof == [index |-> 0, claimId |-> Null,
                      type |-> "inconsistent_proof", blocking |-> TRUE]

BlockingForDecision(proof) ==
    IF BlockingMismatches(proof) # {} \/ proof.verdict = "pass"
    THEN BlockingMismatches(proof)
    ELSE {InconsistentProof}

DecisionStatus(proof) ==
    CASE proof.verdict = "pass" -> IF BlockingForDecision(proof) = {}
                                   THEN "released" ELSE "blocked"
      [] proof.verdict = "fail" -> "blocked"
      [] proof.verdict = "needs_repair" -> "needs_repair"
      [] proof.verdict = "quarantine" -> "quarantined"

\* Mutant: the message is rendered whatever the decision.
DecideRelease_Talks(candidate, proof) ==
    [runId    |-> proof.runId,
     status   |-> DecisionStatus(proof),
     approved |-> proof.approved,
     blocking |-> BlockingForDecision(proof),
     message  |-> {i \in DOMAIN candidate.claims :
                      candidate.claims[i].claimId \in proof.approved}]

\* "message": the claims whose predicates are rendered into the final message.
DecideRelease(candidate, proof) ==
    [runId    |-> proof.runId,
     status   |-> DecisionStatus(proof),
     approved |-> proof.approved,
     blocking |-> BlockingForDecision(proof),
     message  |-> IF DecisionStatus(proof) = "released"
                  THEN {i \in DOMAIN candidate.claims :
                          candidate.claims[i].claimId \in proof.approved}
                  ELSE {}]
=============================================================================
