--------------------------- MODULE Reconciliation ---------------------------
(***************************************************************************)
(* reconcileAcceptedEvidence (packages/reconciliation): the evidence a run *)
(* accepted, held against fresh observations and against what others say   *)
(* of its receipts.  Pure operators; a report is its outcome and the set   *)
(* of its mismatches, without their numbered ids and messages.             *)
(*                                                                         *)
(*   observation  [observationId, subject, state, payloadHash, observedAt, *)
(*                 expiresAt]; subject: the observation type, subject type *)
(*                 and subject id, which are always compared together; the *)
(*                 id: a number, as only the order of ids matters          *)
(*   summary      [effectId, receiptId, status, certainty, observedAt]     *)
(*   check        [checkedAt, freshness]; Null: no observationFreshnessMs  *)
(*                                                                         *)
(* Run ids are not compared by the code, and so not here.                  *)
(***************************************************************************)
EXTENDS Integers, Sequences

CONSTANTS CanonicalHash(_), Null

\* The target is the accepted record, also where the code names the fresh one.
Mismatch(type, target) == [type |-> type, target |-> target]

\* The mismatches that come with a quarantine recommendation: addMismatch and
\* addQuarantineRecommendation are called together for these.
CriticalTypes == {"receipt_missing", "receipt_status_drift", "uncertain_external_effect"}

\* uniqueBy: the first of every id wins.
UniqueBy(list, field) ==
    {list[i] : i \in {j \in DOMAIN list : \A k \in 1..(j - 1) : list[k][field] # list[j][field]}}

\* ------------------------------------------------------------------------
\* Observations

\* compareObservationFreshness: the latest comes first, then the lowest id.
ComesFirst(a, b) ==
    \/ a.observedAt > b.observedAt
    \/ a.observedAt = b.observedAt /\ a.observationId <= b.observationId

LatestMatchingObservation(accepted, fresh) ==
    LET matching == {o \in fresh : o.subject = accepted.subject}
    IN  {o \in matching : \A p \in matching : ComesFirst(o, p)}

\* Mutant: an observation from after the check is fresh.
ObservationIsFresh_Future(observation, check) == observation.expiresAt >= check.checkedAt

ObservationIsFresh(observation, check) ==
    /\ observation.observedAt <= check.checkedAt
    /\ observation.expiresAt >= check.checkedAt
    /\ check.freshness # Null => check.checkedAt - observation.observedAt <= check.freshness

\* What the latest matching observation says of the accepted one: "same", or the
\* type of the mismatch.
Comparison(accepted, latest, check) ==
    CASE latest.payloadHash # CanonicalHash(latest.state) -> "input_payload_hash_mismatch"
      [] ~ObservationIsFresh(latest, check) -> "stale_observation"
      [] accepted.payloadHash # latest.payloadHash -> "external_state_drift"
      [] OTHER -> "same"

ObservationMismatches(accepted, fresh, check) ==
    LET latest == LatestMatchingObservation(accepted, fresh)
    IN  CASE accepted.payloadHash # CanonicalHash(accepted.state) ->
               {Mismatch("input_payload_hash_mismatch", accepted)}
          [] latest = {} -> {Mismatch("missing_observation", accepted)}
          [] OTHER -> {Mismatch(Comparison(accepted, o, check), accepted) : o \in latest}

\* ------------------------------------------------------------------------
\* Receipts

\* reconcileReceiptRequests
RequestMismatches(request, receipts) ==
    IF \E r \in receipts : r.effectId = request.effectId THEN {}
    ELSE {Mismatch("receipt_missing", request.effectId)}

\* receiptSummarySortKey: summaries of the effect at large before those of one
\* receipt, then the oldest.  Two summaries of one key are one here.
SortsBefore(a, b) ==
    \/ a.receiptId = Null /\ b.receiptId # Null
    \/ (a.receiptId = Null <=> b.receiptId = Null) /\ a.observedAt <= b.observedAt

MatchingReceiptStatusSummary(receipt, summaries) ==
    LET matching == {s \in summaries : /\ s.effectId = receipt.effectId
                                       /\ s.receiptId \in {Null, receipt.receiptId}}
    IN  {s \in matching : \A t \in matching : SortsBefore(s, t)}

StatusComparison(receipt, summary) ==
    CASE summary.status = "missing" -> "receipt_missing"
      [] summary.status = "unknown" \/ summary.certainty = "uncertain" -> "uncertain_external_effect"
      [] receipt.status # summary.status -> "receipt_status_drift"
      [] OTHER -> "same"

ReceiptMismatches(receipt, summaries) ==
    CASE receipt.payloadHash # CanonicalHash(receipt.payload) ->
            {Mismatch("input_payload_hash_mismatch", receipt)}
      [] receipt.status = "unknown" -> {Mismatch("uncertain_external_effect", receipt)}
      [] OTHER -> {Mismatch(StatusComparison(receipt, s), receipt) :
                      s \in MatchingReceiptStatusSummary(receipt, summaries)}

\* ------------------------------------------------------------------------
OutcomeFor(mismatches) ==
    LET types == {m.type : m \in mismatches}
    IN  IF types \cap CriticalTypes # {} THEN "quarantine_recommended"
        ELSE IF "external_state_drift" \in types THEN "drift_detected"
        ELSE IF types # {} THEN "reconciliation_needed"
        ELSE "consistent"

\* requests, receipts, observations: the accepted ones, in the order of the events.
ReconcileAcceptedEvidence(requests, receipts, observations, fresh, summaries, check) ==
    LET accepted == UniqueBy(receipts, "receiptId")
        seen == UNION {ObservationMismatches(o, fresh, check) : o \in UniqueBy(observations, "observationId")}
        asked == UNION {RequestMismatches(r, accepted) : r \in UniqueBy(requests, "effectId")}
        done == UNION {ReceiptMismatches(r, summaries) : r \in accepted}
        found == seen \cup asked \cup done
        mismatches == {m \in found : m.type # "same"}
    IN  [outcome |-> OutcomeFor(mismatches), mismatches |-> mismatches]
=============================================================================
