--------------------------- MODULE EvidenceProofs ---------------------------
(***************************************************************************)
(* How evidence comes about and what it is worth.                          *)
(*                                                                         *)
(* The proof engine, proved right for every set of candidates, receipts    *)
(* and observations: what it judges is what genuine, cited, fresh evidence *)
(* witnesses (ProofsAreRight, MessagesAreTrue), and how that changes as    *)
(* evidence arrives and time passes (EvidenceRetractsOnlyByFailure,        *)
(* TimeOnlyAges).  One equivalence carries all four: the engine calls a    *)
(* claim supported exactly when it is witnessed.  The engine starts from   *)
(* the claim's refs of the right kind and pairs each with the records it   *)
(* resolves to; the reference definition starts from the records and asks  *)
(* which are cited.                                                        *)
(*                                                                         *)
(* And the tool adapters, whose receipts and observations these records    *)
(* are: for any options, request and world, a receipt says what happened   *)
(* and what the checks refuse is not done (ReceiptsTellTheTruth,           *)
(* NothingRefusedIsDone).  One inductive invariant per adapter says what   *)
(* its call has seen of the world at each of its awaits.                   *)
(***************************************************************************)
EXTENDS EvidencePool, ToolAdapters, TLAPS, WellFoundedInduction

\* The records of a pool the claim cites, and what they witness at a time t:
\* CitedReceipts, CitedObservations and Witnessed over any pool.
Receipted(R, claim, runId) ==
    {r \in R : CitedBy(claim, r, r.payload, "effect_receipt", runId)}

Observed(O, claim, runId) ==
    {o \in O : CitedBy(claim, o, o.state, "external_observation", runId)}

Attests(r, p) ==
    /\ r.capabilityId = p.capabilityId
    /\ r.receiptType = p.receiptType
    /\ \A f \in DOMAIN p.fields : f \in DOMAIN r.payload /\ r.payload[f] = p.fields[f]

Shows(o, p) ==
    /\ o.subject = p.subject
    /\ p.property \in DOMAIN o.state
    /\ Says(o.state[p.property], p.operator, p.value)

ReceiptWitness(R, claim, runId) ==
    /\ \A r \in Receipted(R, claim, runId) : r.status = "succeeded"
    /\ \E r \in Receipted(R, claim, runId) : Attests(r, claim.predicate)

StateWitness(O, t, claim, runId) ==
    \E o \in Observed(O, claim, runId) :
        Shows(o, claim.predicate) /\ o.observedAt \in (t - claim.predicate.freshness)..t

Witness(R, O, t, claim, runId) ==
    IF claim.predicate.kind = "current_state"
    THEN StateWitness(O, t, claim, runId)
    ELSE ReceiptWitness(R, claim, runId)

\* ------------------------------------------------------------------------
\* Resolution.

\* What the engine resolves of the receipts of a pool are the cited ones.
LEMMA ResolvedReceipts ==
    ASSUME NEW claim, NEW R, NEW runId
    PROVE  LET resolved == Resolved(claim.refs, RefsOfKind(claim.refs, "effect_receipt"),
                                    BelievedReceipts(R, runId))
           IN  /\ \A p \in resolved : p[2] \in Receipted(R, claim, runId)
               /\ \A r \in Receipted(R, claim, runId) : \E p \in resolved : p[2] = r
               /\ RefsOfKind(claim.refs, "effect_receipt") = {} => resolved = {}
<1> DEFINE wanted == RefsOfKind(claim.refs, "effect_receipt")
           resolved == Resolved(claim.refs, wanted, BelievedReceipts(R, runId))
<1>1. ASSUME NEW p \in resolved PROVE p[2] \in Receipted(R, claim, runId)
  BY DEF Resolved, BelievedReceipts, Receipted, CitedBy, Believed, RefsOfKind
<1>2. ASSUME NEW r \in Receipted(R, claim, runId) PROVE \E p \in resolved : p[2] = r
  <2>1. PICK n \in DOMAIN claim.refs : claim.refs[n] \in r.evidence
    BY DEF Receipted, CitedBy
  <2>2. /\ r \in BelievedReceipts(R, runId) /\ n \in wanted
    BY <2>1 DEF Receipted, CitedBy, Believed, BelievedReceipts, RefsOfKind
  <2>3. <<n, r>> \in resolved
    BY <2>1, <2>2 DEF Resolved
  <2> HIDE DEF resolved
  <2> QED BY <2>3
<1>3. wanted = {} => resolved = {}
  BY DEF Resolved
<1> HIDE DEF resolved
<1> QED BY <1>1, <1>2, <1>3 DEF resolved

\* What the engine resolves of the observations of a pool are the cited ones.
LEMMA ResolvedObservations ==
    ASSUME NEW claim, NEW O, NEW runId
    PROVE  LET resolved == Resolved(claim.refs,
                                    RefsOfKind(claim.refs, "external_observation"),
                                    BelievedObservations(O, runId))
           IN  /\ \A p \in resolved : p[2] \in Observed(O, claim, runId)
               /\ \A o \in Observed(O, claim, runId) : \E p \in resolved : p[2] = o
               /\ RefsOfKind(claim.refs, "external_observation") = {} => resolved = {}
<1> DEFINE wanted == RefsOfKind(claim.refs, "external_observation")
           resolved == Resolved(claim.refs, wanted, BelievedObservations(O, runId))
<1>1. ASSUME NEW p \in resolved PROVE p[2] \in Observed(O, claim, runId)
  BY DEF Resolved, BelievedObservations, Observed, CitedBy, Believed, RefsOfKind
<1>2. ASSUME NEW o \in Observed(O, claim, runId) PROVE \E p \in resolved : p[2] = o
  <2>1. PICK n \in DOMAIN claim.refs : claim.refs[n] \in o.evidence
    BY DEF Observed, CitedBy
  <2>2. /\ o \in BelievedObservations(O, runId) /\ n \in wanted
    BY <2>1 DEF Observed, CitedBy, Believed, BelievedObservations, RefsOfKind
  <2>3. <<n, o>> \in resolved
    BY <2>1, <2>2 DEF Resolved
  <2> HIDE DEF resolved
  <2> QED BY <2>3
<1>3. wanted = {} => resolved = {}
  BY DEF Resolved
<1> HIDE DEF resolved
<1> QED BY <1>1, <1>2, <1>3 DEF resolved

\* ------------------------------------------------------------------------
\* The verdicts.

\* A receipt claim is supported exactly when its cited receipts witness it.
LEMMA ReceiptVerdict ==
    ASSUME NEW claim, NEW R, NEW runId
    PROVE  ReceiptClaimVerdict(claim, R, runId) = "supported" <=>
              ReceiptWitness(R, claim, runId)
<1> DEFINE wanted == RefsOfKind(claim.refs, "effect_receipt")
           resolved == Resolved(claim.refs, wanted, BelievedReceipts(R, runId))
           failed == \E p \in resolved : p[2].status # "succeeded"
           matched == \E p \in resolved : ReceiptMatches(p[2], claim.predicate)
<1>1. /\ \A p \in resolved : p[2] \in Receipted(R, claim, runId)
      /\ \A r \in Receipted(R, claim, runId) : \E p \in resolved : p[2] = r
      /\ wanted = {} => resolved = {}
  BY ResolvedReceipts
<1>2. ReceiptClaimVerdict(claim, R, runId) =
         CASE wanted = {} -> "missing_evidence"
           [] wanted # {} /\ resolved = {} -> "unverified_receipt"
           [] failed -> "unverified_receipt"
           [] OTHER -> IF matched THEN "supported" ELSE "unsupported_claim"
  BY DEF ReceiptClaimVerdict
<1> HIDE DEF wanted, resolved
<1>3. failed <=> \E r \in Receipted(R, claim, runId) : r.status # "succeeded"
  BY <1>1
<1>4. ~failed => (matched <=> \E r \in Receipted(R, claim, runId) : Attests(r, claim.predicate))
  BY <1>1 DEF ReceiptMatches, PayloadMatches, Attests
<1>5. matched => resolved # {}
  OBVIOUS
<1> HIDE DEF failed, matched
<1>6. ReceiptClaimVerdict(claim, R, runId) = "supported" <=> ~failed /\ matched
  BY <1>1, <1>2, <1>5
<1> QED BY <1>3, <1>4, <1>6 DEF ReceiptWitness

\* A claim about the current state is supported exactly when an observation it
\* cites, fresh at that time, says so.
LEMMA StateVerdict ==
    ASSUME NEW claim, NEW O \in SUBSET Observations, NEW t \in Int, NEW runId,
           claim.predicate.freshness \in Int,
           claim.predicate.operator \in {"equals", "not_equals", "contains"}
    PROVE  CurrentStateVerdict(claim, O, t, runId) = "supported" <=>
              StateWitness(O, t, claim, runId)
<1> DEFINE pred == claim.predicate
           wanted == RefsOfKind(claim.refs, "external_observation")
           resolved == Resolved(claim.refs, wanted, BelievedObservations(O, runId))
           sameSubject == {p \in resolved : p[2].subject = claim.predicate.subject}
           fresh == {p \in sameSubject : IsFresh(p[2], claim.predicate, t)}
           matched == \E p \in fresh : StateSatisfies(p[2], claim.predicate)
<1>1. /\ \A p \in resolved : p[2] \in Observed(O, claim, runId)
      /\ \A o \in Observed(O, claim, runId) : \E p \in resolved : p[2] = o
      /\ wanted = {} => resolved = {}
  BY ResolvedObservations
<1>2. CurrentStateVerdict(claim, O, t, runId) =
         CASE wanted = {} -> "missing_evidence"
           [] wanted # {} /\ sameSubject = {} -> "unsupported_claim"
           [] sameSubject # {} /\ fresh = {} -> "stale_external_state"
           [] OTHER -> IF matched THEN "supported" ELSE "unsupported_claim"
  BY DEF CurrentStateVerdict
<1>3. /\ sameSubject # {} => wanted # {}
      /\ fresh # {} => sameSubject # {}
      /\ matched => fresh # {}
  <2> HIDE DEF wanted, resolved
  <2> QED BY <1>1
<1> HIDE DEF wanted, resolved
<1>4. ASSUME NEW o \in Observed(O, claim, runId)
      PROVE  /\ IsFresh(o, pred, t) <=> o.observedAt \in (t - pred.freshness)..t
             /\ StateSatisfies(o, pred) <=>
                   /\ pred.property \in DOMAIN o.state
                   /\ Says(o.state[pred.property], pred.operator, pred.value)
  <2>1. o.observedAt \in Int
    BY PoolContracts DEF Observed
  <2>2. IsFresh(o, pred, t) <=> o.observedAt \in (t - pred.freshness)..t
    BY <2>1 DEF IsFresh
  <2>3. ASSUME NEW v PROVE ValueSatisfies(v, pred.operator, pred.value) <=>
                              Says(v, pred.operator, pred.value)
    <3>1. CASE pred.operator = "equals"
      BY <3>1 DEF ValueSatisfies, Says
    <3>2. CASE pred.operator = "not_equals"
      BY <3>2 DEF ValueSatisfies, Says
    <3>3. CASE pred.operator = "contains"
      BY <3>3 DEF ValueSatisfies, Says
    <3> QED BY <3>1, <3>2, <3>3
  <2> QED BY <2>2, <2>3 DEF StateSatisfies
<1>5. matched <=> StateWitness(O, t, claim, runId)
  <2>1. ASSUME matched PROVE StateWitness(O, t, claim, runId)
    <3>1. PICK p \in resolved : /\ p[2].subject = pred.subject /\ IsFresh(p[2], pred, t)
                                /\ StateSatisfies(p[2], pred)
      BY <2>1
    <3> QED BY <1>1, <1>4, <3>1 DEF StateWitness, Shows
  <2>2. ASSUME StateWitness(O, t, claim, runId) PROVE matched
    <3>1. PICK o \in Observed(O, claim, runId) :
             Shows(o, pred) /\ o.observedAt \in (t - pred.freshness)..t
      BY <2>2 DEF StateWitness
    <3>2. PICK p \in resolved : p[2] = o
      BY <1>1
    <3>3. p \in fresh /\ StateSatisfies(p[2], pred)
      BY <1>4, <3>1, <3>2 DEF Shows
    <3> QED BY <3>3
  <2> QED BY <2>1, <2>2
<1> HIDE DEF matched, fresh, sameSubject
<1>6. CurrentStateVerdict(claim, O, t, runId) = "supported" <=> matched
  BY <1>2, <1>3
<1> QED BY <1>5, <1>6

\* The engine calls a claim supported exactly when the pool witnesses it.
LEMMA SupportedIsWitnessed ==
    ASSUME NEW c \in Candidates, NEW i \in DOMAIN c.claims,
           NEW R, NEW O \in SUBSET Observations, NEW t \in Int
    PROVE  ClaimVerdict(c.claims[i], R, O, t, c.runId) = "supported" <=>
              Witness(R, O, t, c.claims[i], c.runId)
<1> DEFINE claim == c.claims[i]
<1>1. \/ claim.predicate.kind \in ReceiptClaimKinds
      \/ /\ claim.predicate.kind = "current_state" /\ claim.predicate.freshness \in Int
         /\ claim.predicate.operator \in {"equals", "not_equals", "contains"}
  BY PoolContracts
<1> HIDE DEF claim
<1>2. CASE claim.predicate.kind \in ReceiptClaimKinds
  <2>1. claim.predicate.kind # "current_state"
    BY <1>2 DEF ReceiptClaimKinds
  <2> QED BY <1>2, <2>1, ReceiptVerdict DEF ClaimVerdict, Witness, claim
<1>3. CASE /\ claim.predicate.kind = "current_state" /\ claim.predicate.freshness \in Int
           /\ claim.predicate.operator \in {"equals", "not_equals", "contains"}
  <2>1. claim.predicate.kind \notin ReceiptClaimKinds
    BY <1>3 DEF ReceiptClaimKinds
  <2> QED BY <1>3, <2>1, StateVerdict DEF ClaimVerdict, Witness, claim
<1> QED BY <1>1, <1>2, <1>3

\* What a proof says, in terms of the claims the pool witnesses.
LEMMA ProofSays ==
    ASSUME NEW c \in Candidates, NEW R, NEW O \in SUBSET Observations, NEW t \in Int
    PROVE  LET proof == EvaluateProof(c, R, O, t)
               witnessed == {i \in DOMAIN c.claims : Witness(R, O, t, c.claims[i], c.runId)}
           IN  /\ proof.verdict = IF witnessed = DOMAIN c.claims THEN "pass" ELSE "fail"
               /\ proof.approved = {c.claims[i].claimId : i \in witnessed}
               /\ \A m \in proof.mismatches : m.blocking
               /\ \A i \in DOMAIN c.claims :
                     (\A m \in proof.mismatches : m.index # i) <=> i \in witnessed
               /\ witnessed = DOMAIN c.claims => proof.mismatches = {}
<1> DEFINE claims == c.claims
           proof == EvaluateProof(c, R, O, t)
           witnessed == {i \in DOMAIN c.claims : Witness(R, O, t, c.claims[i], c.runId)}
           verdict == [i \in DOMAIN claims |-> ClaimVerdict(claims[i], R, O, t, c.runId)]
           supported == {i \in DOMAIN claims : verdict[i] = "supported"}
           unsupported == (DOMAIN claims) \ supported
           Mismatched(i) == [index |-> i, claimId |-> claims[i].claimId,
                             type |-> verdict[i], blocking |-> TRUE]
<1>1. /\ proof.verdict = IF unsupported = {} THEN "pass" ELSE "fail"
      /\ proof.approved = {claims[i].claimId : i \in supported}
      /\ proof.mismatches = {Mismatched(i) : i \in unsupported}
  BY DEF EvaluateProof
<1>2. ASSUME NEW i \in DOMAIN claims PROVE i \in supported <=> i \in witnessed
  <2>1. verdict[i] = ClaimVerdict(c.claims[i], R, O, t, c.runId)
    OBVIOUS
  <2> QED BY <2>1, SupportedIsWitnessed
<1>3. supported = witnessed /\ witnessed \subseteq DOMAIN claims
  BY <1>2
<1>4. \A i : Mismatched(i).index = i /\ Mismatched(i).blocking
  OBVIOUS
<1> HIDE DEF supported, witnessed, verdict, proof, Mismatched
<1>5. \A m \in proof.mismatches : m.blocking
  BY <1>1, <1>4
<1>6. \A i \in DOMAIN claims : (\A m \in proof.mismatches : m.index # i) <=> i \in witnessed
  BY <1>1, <1>3, <1>4
<1>7. unsupported = {} <=> witnessed = DOMAIN claims
  BY <1>3
<1>8. witnessed = DOMAIN claims => proof.mismatches = {}
  BY <1>1, <1>7
<1> QED BY <1>1, <1>3, <1>5, <1>6, <1>7, <1>8 DEF witnessed, proof

\* ------------------------------------------------------------------------
\* The pool.

\* Witnessed is Witness of the pool, and Supported says so, before and after a step.
LEMMA WitnessedNow ==
    ASSUME NEW c, NEW i
    PROVE  Witnessed(c, i) <=> Witness(receipts, observations, now, c.claims[i], c.runId)
BY DEF Witnessed, Witness, StateWitness, ReceiptWitness, CitedObservations, CitedReceipts,
       Observed, Receipted, Attests, Shows

\* What the engine says of a claim now.
LEMMA SupportedNow ==
    ASSUME TypeOK, NEW c \in Candidates, NEW i \in DOMAIN c.claims
    PROVE  Supported(c, i) <=> Witness(receipts, observations, now, c.claims[i], c.runId)
<1>1. observations \in SUBSET Observations /\ now \in Int
  BY PoolContracts DEF TypeOK
<1> QED BY <1>1, ProofSays DEF Supported, Proof

\* And after a step.
LEMMA SupportedNext ==
    ASSUME TypeOK', NEW c \in Candidates, NEW i \in DOMAIN c.claims
    PROVE  Supported(c, i)' <=> Witness(receipts', observations', now', c.claims[i], c.runId)
<1>1. observations' \in SUBSET Observations /\ now' \in Int
  BY PoolContracts DEF TypeOK
<1> QED BY <1>1, ProofSays DEF Supported, Proof

\* The proof of a candidate now, in the terms of the properties.
LEMMA ProofSaysNow ==
    ASSUME TypeOK, NEW c \in Candidates
    PROVE  LET witnessed == {i \in DOMAIN c.claims : Witnessed(c, i)}
           IN  /\ Proof(c).verdict = IF witnessed = DOMAIN c.claims THEN "pass" ELSE "fail"
               /\ Proof(c).approved = {c.claims[i].claimId : i \in witnessed}
               /\ witnessed = DOMAIN c.claims => Proof(c).mismatches = {}
<1> DEFINE witnessed == {i \in DOMAIN c.claims : Witnessed(c, i)}
           seen == {i \in DOMAIN c.claims :
                       Witness(receipts, observations, now, c.claims[i], c.runId)}
           proof == EvaluateProof(c, receipts, observations, now)
<1>1. observations \in SUBSET Observations /\ now \in Int
  BY PoolContracts DEF TypeOK
<1>2. /\ proof.verdict = IF seen = DOMAIN c.claims THEN "pass" ELSE "fail"
      /\ proof.approved = {c.claims[i].claimId : i \in seen}
      /\ seen = DOMAIN c.claims => proof.mismatches = {}
  BY <1>1, ProofSays
<1>3. witnessed = seen
  BY WitnessedNow
<1>4. Proof(c) = proof
  BY DEF Proof
<1> HIDE DEF witnessed, seen, proof
<1> QED BY <1>2, <1>3, <1>4 DEF witnessed

\* The pool holds records of the given ones, and the clock is within its bound.
THEOREM PoolTypes == Spec => []TypeOK
<1>1. Init => TypeOK
  BY PoolContracts DEF Init, TypeOK
<1>2. ASSUME TypeOK, [Next]_pool PROVE TypeOK'
  BY <1>2, PoolContracts DEF TypeOK, Next, AdmitReceipt, AdmitObservation, Tick, pool
<1> QED BY <1>1, <1>2, PTL DEF Spec

\* evaluateProof is right for every candidate and every pool: it passes a candidate
\* exactly when every claim is witnessed and approves exactly the witnessed claims.
THEOREM ProofsHold == Spec => []ProofsAreRight
<1>1. TypeOK => ProofsAreRight
  <2> SUFFICES ASSUME TypeOK, NEW c \in Candidates
               PROVE  LET witnessed == {i \in DOMAIN c.claims : Witnessed(c, i)}
                      IN  /\ Proof(c).verdict = "pass" <=> witnessed = DOMAIN c.claims
                          /\ Proof(c).approved = {c.claims[i].claimId : i \in witnessed}
    BY DEF ProofsAreRight
  <2> DEFINE witnessed == {i \in DOMAIN c.claims : Witnessed(c, i)}
  <2>1. /\ Proof(c).verdict = IF witnessed = DOMAIN c.claims THEN "pass" ELSE "fail"
        /\ Proof(c).approved = {c.claims[i].claimId : i \in witnessed}
    BY ProofSaysNow
  <2> HIDE DEF witnessed
  <2> QED BY <2>1 DEF witnessed
<1> QED BY <1>1, PoolTypes, PTL

\* decideRelease writes witnessed claims only and, when it releases, all of them;
\* a proof of another maker is released only when it passes and nothing blocks it.
THEOREM MessagesHold == Spec => []MessagesAreTrue
<1>1. ASSUME TypeOK, NEW c \in Candidates
      PROVE  LET decision == DecideRelease(c, Proof(c))
             IN  /\ \A i \in decision.message : Witnessed(c, i)
                 /\ decision.status = "released" <=> decision.message = DOMAIN c.claims
  <2> DEFINE proof == Proof(c)
             decision == DecideRelease(c, proof)
             witnessed == {i \in DOMAIN c.claims : Witnessed(c, i)}
  <2>3. /\ proof.verdict = IF witnessed = DOMAIN c.claims THEN "pass" ELSE "fail"
        /\ proof.approved = {c.claims[i].claimId : i \in witnessed}
        /\ witnessed = DOMAIN c.claims => proof.mismatches = {}
    BY <1>1, ProofSaysNow
  <2> HIDE DEF witnessed, proof
  <2>4. CASE witnessed = DOMAIN c.claims
    <3>1. BlockingMismatches(proof) = {}
      BY <2>3, <2>4 DEF BlockingMismatches
    <3>2. DecisionStatus(proof) = "released"
      BY <2>3, <2>4, <3>1 DEF DecisionStatus, BlockingForDecision
    <3>3. /\ decision.status = "released"
          /\ decision.message = {i \in DOMAIN c.claims : c.claims[i].claimId \in proof.approved}
      BY <3>2 DEF DecideRelease
    <3>4. decision.message = DOMAIN c.claims
      BY <2>3, <2>4, <3>3
    <3> HIDE DEF decision
    <3> QED BY <2>4, <3>3, <3>4 DEF witnessed, proof, decision
  <2>5. CASE witnessed # DOMAIN c.claims
    <3>1. DecisionStatus(proof) = "blocked"
      BY <2>3, <2>5 DEF DecisionStatus
    <3>2. decision.status = "blocked" /\ decision.message = {}
      BY <3>1 DEF DecideRelease
    <3>3. DOMAIN c.claims # {}
      BY <2>5 DEF witnessed
    <3> HIDE DEF decision
    <3> QED BY <3>2, <3>3 DEF proof, decision
  <2> QED BY <2>4, <2>5
<1>2. ASSUME NEW c \in Candidates, NEW p \in ForeignProofs
      PROVE  LET decision == DecideRelease(c, p)
             IN  IF decision.status = "released"
                 THEN p.verdict = "pass" /\ BlockingMismatches(p) = {}
                 ELSE decision.message = {} /\ decision.blocking # {}
  <2> DEFINE decision == DecideRelease(c, p)
  <2>1. /\ decision.status = DecisionStatus(p) /\ decision.blocking = BlockingForDecision(p)
        /\ DecisionStatus(p) # "released" => decision.message = {}
    BY DEF DecideRelease
  <2> HIDE DEF decision
  <2>2. p.verdict \in {"pass", "fail", "needs_repair", "quarantine"}
    BY PoolContracts
  <2>3. CASE p.verdict = "pass"
    <3>1. BlockingForDecision(p) = BlockingMismatches(p)
      BY <2>3 DEF BlockingForDecision
    <3>2. DecisionStatus(p) = IF BlockingMismatches(p) = {} THEN "released" ELSE "blocked"
      BY <2>3, <3>1 DEF DecisionStatus
    <3> QED BY <2>1, <2>3, <3>1, <3>2 DEF decision
  <2>4. CASE p.verdict # "pass"
    <3>1. DecisionStatus(p) # "released"
      BY <2>2, <2>4 DEF DecisionStatus
    <3>2. BlockingForDecision(p) # {}
      BY <2>4 DEF BlockingForDecision
    <3> QED BY <2>1, <3>1, <3>2 DEF decision
  <2> QED BY <2>3, <2>4
<1>3. TypeOK => MessagesAreTrue
  BY <1>1, <1>2 DEF MessagesAreTrue
<1> QED BY <1>3, PoolTypes, PTL


\* ------------------------------------------------------------------------
\* How judgements change.

\* What a step does to the pool: the evidence never shrinks, and the clock moves
\* by one, alone, or not at all.
LEMMA PoolSteps ==
    ASSUME TypeOK, [Next]_pool
    PROVE  /\ receipts \subseteq receipts' /\ observations \subseteq observations'
           /\ TypeOK'
           /\ \/ now' = now
              \/ now' = now + 1 /\ receipts' = receipts /\ observations' = observations
BY PoolContracts DEF TypeOK, Next, AdmitReceipt, AdmitObservation, Tick, pool

\* The cited records of the pool, before and after a step.
LEMMA CitedNow ==
    ASSUME NEW c, NEW i
    PROVE  /\ CitedReceipts(c, i) = Receipted(receipts, c.claims[i], c.runId)
           /\ CitedReceipts(c, i)' = Receipted(receipts', c.claims[i], c.runId)
           /\ CitedObservations(c, i) = Observed(observations, c.claims[i], c.runId)
BY DEF CitedReceipts, CitedObservations, Receipted, Observed

\* More evidence unsays a claim only when the new evidence is a cited receipt
\* that reports no success.
LEMMA WitnessGrows ==
    ASSUME NEW R, NEW O, NEW R2, NEW O2, R \subseteq R2, O \subseteq O2,
           NEW t, NEW claim, NEW runId, Witness(R, O, t, claim, runId)
    PROVE  ~Witness(R2, O2, t, claim, runId) <=>
              /\ claim.predicate.kind # "current_state"
              /\ \E r \in Receipted(R2, claim, runId) \ Receipted(R, claim, runId) :
                    r.status # "succeeded"
<1>1. /\ Receipted(R, claim, runId) \subseteq Receipted(R2, claim, runId)
      /\ Observed(O, claim, runId) \subseteq Observed(O2, claim, runId)
  BY DEF Receipted, Observed
<1>2. CASE claim.predicate.kind = "current_state"
  BY <1>1, <1>2 DEF Witness, StateWitness
<1>3. CASE claim.predicate.kind # "current_state"
  <2>1. ReceiptWitness(R, claim, runId)
    BY <1>3 DEF Witness
  <2>2. ReceiptWitness(R2, claim, runId) <=>
           \A r \in Receipted(R2, claim, runId) : r.status = "succeeded"
    BY <1>1, <2>1 DEF ReceiptWitness
  <2>3. (\A r \in Receipted(R2, claim, runId) : r.status = "succeeded") <=>
           \A r \in Receipted(R2, claim, runId) \ Receipted(R, claim, runId) :
              r.status = "succeeded"
    BY <2>1 DEF ReceiptWitness
  <2> QED BY <1>3, <2>2, <2>3 DEF Witness
<1> QED BY <1>2, <1>3

\* A tick of the clock changes what is witnessed only through an observation whose
\* time was ahead of the clock, or that was at the limit of its freshness.
LEMMA WitnessAges ==
    ASSUME NEW R, NEW O \in SUBSET Observations, NEW t \in Int, NEW claim, NEW runId,
           claim.predicate.kind = "current_state" => claim.predicate.freshness \in Int
    PROVE  /\ (Witness(R, O, t + 1, claim, runId) /\ ~Witness(R, O, t, claim, runId)) =>
                 /\ claim.predicate.kind = "current_state"
                 /\ \E o \in Observed(O, claim, runId) : o.observedAt > t
           /\ (~Witness(R, O, t + 1, claim, runId) /\ Witness(R, O, t, claim, runId)) =>
                 /\ claim.predicate.kind = "current_state"
                 /\ \E o \in Observed(O, claim, runId) :
                       o.observedAt = t - claim.predicate.freshness
<1>1. CASE claim.predicate.kind = "current_state"
  <2> DEFINE f == claim.predicate.freshness
  <2>1. f \in Int
    BY <1>1
  <2>2. \A o \in Observed(O, claim, runId) : o.observedAt \in Int
    BY PoolContracts DEF Observed
  <2> HIDE DEF f
  <2>3. /\ Witness(R, O, t, claim, runId) <=>
              \E o \in Observed(O, claim, runId) :
                 Shows(o, claim.predicate) /\ o.observedAt \in (t - f)..t
        /\ Witness(R, O, t + 1, claim, runId) <=>
              \E o \in Observed(O, claim, runId) :
                 Shows(o, claim.predicate) /\ o.observedAt \in (t + 1 - f)..(t + 1)
    BY <1>1 DEF Witness, StateWitness, f
  <2>4. ASSUME Witness(R, O, t + 1, claim, runId), ~Witness(R, O, t, claim, runId)
        PROVE  \E o \in Observed(O, claim, runId) : o.observedAt > t
    <3>1. PICK o \in Observed(O, claim, runId) :
             Shows(o, claim.predicate) /\ o.observedAt \in (t + 1 - f)..(t + 1)
      BY <2>3, <2>4
    <3>2. o.observedAt \notin (t - f)..t
      BY <2>3, <2>4, <3>1
    <3> QED BY <2>1, <2>2, <3>1, <3>2
  <2>5. ASSUME ~Witness(R, O, t + 1, claim, runId), Witness(R, O, t, claim, runId)
        PROVE  \E o \in Observed(O, claim, runId) : o.observedAt = t - f
    <3>1. PICK o \in Observed(O, claim, runId) :
             Shows(o, claim.predicate) /\ o.observedAt \in (t - f)..t
      BY <2>3, <2>5
    <3>2. o.observedAt \notin (t + 1 - f)..(t + 1)
      BY <2>3, <2>5, <3>1
    <3>3. o.observedAt = t - f
      BY <2>1, <2>2, <3>1, <3>2
    <3> QED BY <3>3
  <2> QED BY <1>1, <2>4, <2>5 DEF f
<1>2. CASE claim.predicate.kind # "current_state"
  <2>1. Witness(R, O, t + 1, claim, runId) <=> Witness(R, O, t, claim, runId)
    BY <1>2 DEF Witness
  <2> QED BY <2>1
<1> QED BY <1>1, <1>2

\* A record admitted later unsays a claim exactly when it is a receipt the claim
\* cites and reports something other than success: late evidence never helps a
\* lie nor hurts a truth in any other way.
THEOREM EvidenceNeverUnsays == Spec => EvidenceRetractsOnlyByFailure
<1>1. ASSUME TypeOK, [Next]_pool PROVE EvidenceRetracts
  <2> SUFFICES ASSUME NEW c \in Candidates, NEW i \in DOMAIN c.claims,
                      Supported(c, i), now' = now
               PROVE  ~Supported(c, i)' <=>
                         /\ c.claims[i].predicate.kind # "current_state"
                         /\ \E r \in CitedReceipts(c, i)' \ CitedReceipts(c, i) :
                               r.status # "succeeded"
    BY DEF EvidenceRetracts
  <2> DEFINE claim == c.claims[i]
  <2>1. receipts \subseteq receipts' /\ observations \subseteq observations' /\ TypeOK'
    BY <1>1, PoolSteps
  <2>2. Witness(receipts, observations, now, claim, c.runId)
    BY <1>1, SupportedNow
  <2>3. Supported(c, i)' <=> Witness(receipts', observations', now, claim, c.runId)
    BY <2>1, SupportedNext
  <2> HIDE DEF claim
  <2>4. ~Witness(receipts', observations', now, claim, c.runId) <=>
           /\ claim.predicate.kind # "current_state"
           /\ \E r \in Receipted(receipts', claim, c.runId) \ Receipted(receipts, claim, c.runId) :
                 r.status # "succeeded"
    BY <2>1, <2>2, WitnessGrows
  <2> QED BY <2>3, <2>4, CitedNow DEF claim
<1>2. EvidenceRetractsOnlyByFailure <=> [][EvidenceRetracts]_pool
  BY PTL DEF EvidenceRetractsOnlyByFailure
<1> QED BY <1>1, <1>2, PoolTypes, PTL DEF Spec

\* The clock alone changes current-state claims only: a claim comes true only
\* through an observation from a clock ahead of this one, and ceases to be true
\* only when an observation reaches its freshness limit.
THEOREM TimeOnlyAgesHolds == Spec => TimeOnlyAges
<1>1. ASSUME TypeOK, [Next]_pool PROVE TimeAges
  <2> SUFFICES ASSUME NEW c \in Candidates, NEW i \in DOMAIN c.claims, now' > now
               PROVE  LET p == c.claims[i].predicate
                      IN  /\ Supported(c, i)' # Supported(c, i) => p.kind = "current_state"
                          /\ Supported(c, i)' /\ ~Supported(c, i) =>
                                \E o \in CitedObservations(c, i) : o.observedAt > now
                          /\ ~Supported(c, i)' /\ Supported(c, i) =>
                                \E o \in CitedObservations(c, i) :
                                   o.observedAt = now - p.freshness
    BY DEF TimeAges
  <2> DEFINE claim == c.claims[i]
             before == Witness(receipts, observations, now, claim, c.runId)
             after == Witness(receipts, observations, now + 1, claim, c.runId)
  <2>1. now \in Int /\ observations \in SUBSET Observations
    BY <1>1, PoolContracts DEF TypeOK
  <2>2. /\ now' = now + 1 /\ receipts' = receipts /\ observations' = observations
        /\ TypeOK'
    BY <1>1, <2>1, PoolSteps
  <2>3. claim.predicate.kind = "current_state" => claim.predicate.freshness \in Int
    BY PoolContracts DEF ReceiptClaimKinds
  <2>4. /\ Supported(c, i) <=> before
        /\ Supported(c, i)' <=> after
    BY <1>1, <2>2, SupportedNow, SupportedNext
  <2> HIDE DEF claim
  <2>5. /\ after /\ ~before =>
              /\ claim.predicate.kind = "current_state"
              /\ \E o \in Observed(observations, claim, c.runId) : o.observedAt > now
        /\ ~after /\ before =>
              /\ claim.predicate.kind = "current_state"
              /\ \E o \in Observed(observations, claim, c.runId) :
                    o.observedAt = now - claim.predicate.freshness
    BY <2>1, <2>3, WitnessAges
  <2>6. Supported(c, i) \in BOOLEAN /\ Supported(c, i)' \in BOOLEAN
    BY DEF Supported
  <2> HIDE DEF before, after
  <2>7. Supported(c, i)' # Supported(c, i) => claim.predicate.kind = "current_state"
    BY <2>4, <2>5, <2>6
  <2> QED BY <2>4, <2>5, <2>7, CitedNow DEF claim
<1>2. TimeOnlyAges <=> [][TimeAges]_pool
  BY PTL DEF TimeOnlyAges
<1> QED BY <1>1, <1>2, PoolTypes, PTL DEF Spec

\* ------------------------------------------------------------------------
\* The tool adapters: what their checks find

\* Every non-empty set of natural numbers has a least element.
LEMMA LeastOf ==
    ASSUME NEW S, S \subseteq Nat, S # {}
    PROVE  \E i \in S : \A j \in S : i <= j
<1> DEFINE less == {p \in Nat \X Nat : p[1] < p[2]}
<1>1. less = OpToRel(<, Nat)
  BY Zenon DEF OpToRel
<1>2. IsWellFoundedOn(less, Nat)
  BY <1>1, NatLessThanWellFounded
<1> HIDE DEF less
<1>3. PICK i \in S : \A j \in S : ~(<<j, i>> \in less)
  BY <1>2, WFMin
<1>4. ASSUME NEW j \in S PROVE i <= j
  <2>1. <<j, i>> \notin less
    BY <1>3
  <2> QED  BY <2>1 DEF less
<1> QED  BY <1>4

\* A list of checks either holds throughout, or its error is that of the first
\* check that does not.
LEMMA FirstErrorIs ==
    ASSUME NEW checks, DOMAIN checks \subseteq Nat
    PROVE  \/ /\ FirstError(checks) = Null
              /\ \A i \in DOMAIN checks : checks[i][1] = TRUE
           \/ \E i \in DOMAIN checks :
                 /\ ~checks[i][1]
                 /\ FirstError(checks) = checks[i][2]
                 /\ \A j \in DOMAIN checks : j < i => checks[j][1] = TRUE
<1> DEFINE failing == {i \in DOMAIN checks : ~checks[i][1]}
           first == CHOOSE i \in failing : \A j \in failing : i <= j
<1>1. CASE failing = {}
  BY <1>1, Zenon DEF FirstError
<1>2. CASE failing # {}
  <2>1. failing \subseteq Nat
    OBVIOUS
  <2>2. \E i \in failing : \A j \in failing : i <= j
    <3> HIDE DEF failing
    <3> QED  BY <1>2, <2>1, LeastOf
  <2>3. first \in failing /\ \A j \in failing : first <= j
    <3> HIDE DEF failing
    <3> QED  BY <2>2, Zenon
  <2>4. FirstError(checks) = checks[first][2]
    BY <1>2, Zenon DEF FirstError
  <2> HIDE DEF first
  <2>5. \A j \in DOMAIN checks : j < first => checks[j][1] = TRUE
    <3> SUFFICES ASSUME NEW j \in DOMAIN checks, j < first, ~checks[j][1] PROVE FALSE
      OBVIOUS
    <3>1. j \in failing
      OBVIOUS
    <3> QED  BY <3>1, <2>3, <2>1
  <2> QED  BY <2>3, <2>4, <2>5
<1> QED  BY <1>1, <1>2

\* ------------------------------------------------------------------------
\* Processes

ProcessFields == {"tool", "options", "request", "step", "receipt", "observation",
                  "kept", "truncated", "timedOut", "limited"}
WorldFields == {"state", "exitCode", "signal", "killed", "killable", "holder", "written", "read"}

\* What is kept of a stream is what was read, cut at the limit, and what was read
\* is what the process wrote, or less.
OutputIsCounted(c, w) ==
    /\ w.read \in [Streams -> Nat] /\ w.written \in [Streams -> Nat]
    /\ c.kept \in [Streams -> Nat] /\ c.truncated \in [Streams -> BOOLEAN]
    /\ \A s \in Streams :
          /\ w.read[s] <= w.written[s]
          /\ c.kept[s] = IF w.read[s] <= MaxOutputBytes THEN w.read[s] ELSE MaxOutputBytes
          /\ c.truncated[s] <=> w.read[s] > MaxOutputBytes

\* A process exists once it was spawned, and it ends in one way only.
ProcessIsSpawned(c, w) ==
    /\ w.state \in {"none", "unstarted", "running", "exited"}
    /\ c.step \in {"create", "not_created", "idle"} => w.state = "none"
    /\ w.state # "exited" => w.exitCode = Null /\ w.signal = Null
    /\ w.signal # Null => w.exitCode = Null

ProcessInv ==
    /\ DOMAIN call = ProcessFields /\ DOMAIN world = WorldFields
    /\ call.timedOut \in BOOLEAN
    /\ call.step # "answered" => call.receipt = Null
    /\ OutputIsCounted(call, world)
    /\ ProcessIsSpawned(call, world)
    /\ ProcessReceiptIsTrue /\ ProcessSuccessNeedsAnExit /\ ProcessRefusalRanNothing

\* A call without a receipt claims nothing.
LEMMA NoReceiptIsTrue ==
    ASSUME call'.receipt = Null
    PROVE  ProcessReceiptIsTrue' /\ ProcessSuccessNeedsAnExit' /\ ProcessRefusalRanNothing'
BY DEF ProcessReceiptIsTrue, ProcessSuccessNeedsAnExit, ProcessRefusalRanNothing, Succeeded, Failed

\* boundedOutput's append.
LEMMA KeptCounts ==
    ASSUME DOMAIN call = ProcessFields, OutputIsCounted(call, world), NEW s \in Streams,
           NEW bytes \in 1..(world.written[s] - world.read[s]),
           NEW w, w.written = world.written, w.read = [world.read EXCEPT ![s] = @ + bytes]
    PROVE  LET c == Kept(call, s, bytes)
           IN  /\ OutputIsCounted(c, w)
               /\ DOMAIN c = ProcessFields
               /\ \A f \in ProcessFields \ {"kept", "truncated"} : c[f] = call[f]
<1> DEFINE c == Kept(call, s, bytes)
<1>1. /\ DOMAIN c = ProcessFields
      /\ \A f \in ProcessFields \ {"kept", "truncated"} : c[f] = call[f]
      /\ c.kept = [call.kept EXCEPT ![s] = Min({call.kept[s] + bytes, MaxOutputBytes})]
      /\ c.truncated = [call.truncated EXCEPT ![s] =
                           call.truncated[s] \/ call.kept[s] + bytes > MaxOutputBytes]
  BY DEF Kept, ProcessFields
<1>2. /\ bytes \in Nat /\ bytes >= 1 /\ bytes <= world.written[s] - world.read[s]
      /\ world.read[s] \in Nat /\ world.written[s] \in Nat /\ call.kept[s] \in Nat
  BY DEF OutputIsCounted
<1>3. Min({call.kept[s] + bytes, MaxOutputBytes})
        = IF call.kept[s] + bytes <= MaxOutputBytes THEN call.kept[s] + bytes ELSE MaxOutputBytes
  BY <1>2, OutputLimit DEF Min
<1> HIDE DEF c
<1>4. ASSUME NEW t \in Streams
      PROVE  /\ w.read[t] \in Nat /\ c.kept[t] \in Nat /\ c.truncated[t] \in BOOLEAN
             /\ w.read[t] <= w.written[t]
             /\ c.kept[t] = IF w.read[t] <= MaxOutputBytes THEN w.read[t] ELSE MaxOutputBytes
             /\ c.truncated[t] <=> w.read[t] > MaxOutputBytes
  <2>1. CASE t = s
    <3>1. w.read[t] = world.read[s] + bytes
      BY <2>1 DEF OutputIsCounted
    <3>2. c.kept[t] = IF call.kept[s] + bytes <= MaxOutputBytes THEN call.kept[s] + bytes ELSE MaxOutputBytes
      BY <2>1, <1>1, <1>3 DEF OutputIsCounted
    <3>3. c.truncated[t] = (call.truncated[s] \/ call.kept[s] + bytes > MaxOutputBytes)
      BY <2>1, <1>1 DEF OutputIsCounted
    <3>4. /\ call.kept[s] = IF world.read[s] <= MaxOutputBytes THEN world.read[s] ELSE MaxOutputBytes
          /\ call.truncated[s] <=> world.read[s] > MaxOutputBytes
      BY DEF OutputIsCounted
    <3>5. /\ w.read[t] \in Nat /\ c.kept[t] \in Nat /\ w.read[t] <= w.written[t]
          /\ c.kept[t] = IF w.read[t] <= MaxOutputBytes THEN w.read[t] ELSE MaxOutputBytes
      BY <3>1, <3>2, <3>4, <1>2, <2>1, OutputLimit
    <3>6. (world.read[s] > MaxOutputBytes \/ call.kept[s] + bytes > MaxOutputBytes)
             <=> w.read[t] > MaxOutputBytes
      BY <3>1, <3>4, <1>2, OutputLimit
    <3>7. c.truncated[t] \in BOOLEAN /\ (c.truncated[t] <=> w.read[t] > MaxOutputBytes)
      BY <3>3, <3>4, <3>6, Zenon
    <3> QED  BY <3>5, <3>7
  <2>2. CASE t # s
    BY <2>2, <1>1 DEF OutputIsCounted
  <2> QED  BY <2>1, <2>2
<1>5. /\ w.read = [t \in Streams |-> w.read[t]] /\ c.kept = [t \in Streams |-> c.kept[t]]
      /\ c.truncated = [t \in Streams |-> c.truncated[t]] /\ w.written \in [Streams -> Nat]
  BY <1>1 DEF OutputIsCounted
<1>6. OutputIsCounted(c, w)
  BY <1>4, <1>5 DEF OutputIsCounted
<1> QED  BY <1>1, <1>6 DEF c

\* What answering leaves of the call.
LEMMA AnswerFields ==
    ASSUME NEW c, NEW receipt, NEW observation,
           {"step", "receipt", "observation"} \subseteq DOMAIN c
    PROVE  LET a == Answer(c, receipt, observation)
           IN  /\ DOMAIN a = DOMAIN c
               /\ a.step = "answered" /\ a.receipt = receipt /\ a.observation = observation
               /\ \A f \in (DOMAIN c) \ {"step", "receipt", "observation"} : a[f] = c[f]
BY DEF Answer

\* An "error" event fails the call, and its receipt claims nothing of a process
\* that has not exited.
LEMMA ErrorTells ==
    ASSUME NEW c, DOMAIN c = ProcessFields, c.tool \in {"shell", "compute"},
           call' = ErrorEvent(c), world'.state # "exited"
    PROVE  /\ DOMAIN call' = ProcessFields /\ call'.step = "answered"
           /\ \A f \in ProcessFields \ {"step", "receipt", "observation"} : call'[f] = c[f]
           /\ ProcessReceiptIsTrue' /\ ProcessSuccessNeedsAnExit' /\ ProcessRefusalRanNothing'
<1> DEFINE ending == EndingOf(c, Null, Null, FALSE)
           receipt == IF c.tool = "shell" THEN ShellOutcome(ending, TRUE) ELSE ComputeOutcome(ending)
<1>1. ending.exitCode = Null /\ ending.timedOut = FALSE
  BY DEF EndingOf
<1>2. receipt.status = "failed" /\ receipt.payload.reason \in {Null, "execution_error"}
  <2> HIDE DEF ending
  <2>1. CASE c.tool = "shell"
    BY <2>1 DEF ShellOutcome, ProcessReceipt
  <2>2. CASE c.tool # "shell"
    BY <1>1, <2>2, NullIsNoValue DEF ComputeOutcome, ProcessReceipt
  <2> QED  BY <2>1, <2>2
<1>3. call' = Answer(c, receipt, Null)
  BY DEF ErrorEvent, Outcome
<1> HIDE DEF receipt
<1>4. /\ DOMAIN call' = ProcessFields /\ call'.step = "answered" /\ call'.receipt = receipt
      /\ \A f \in ProcessFields \ {"step", "receipt", "observation"} : call'[f] = c[f]
  BY <1>3, AnswerFields DEF ProcessFields
<1>5. ProcessReceiptIsTrue'
  BY DEF ProcessReceiptIsTrue
<1>6. ProcessSuccessNeedsAnExit'
  BY <1>2, <1>4 DEF ProcessSuccessNeedsAnExit, Succeeded
<1>7. ProcessRefusalRanNothing'
  BY <1>2, <1>4 DEF ProcessRefusalRanNothing, Failed
<1> QED  BY <1>4, <1>5, <1>6, <1>7

\* The receipt of a "close" event says how the process ended and what was kept.
LEMMA CloseTells ==
    ASSUME ProcessInv, call.tool \in {"shell", "compute"}, Close
    PROVE  /\ DOMAIN call' = ProcessFields /\ call'.step = "answered"
           /\ \A f \in ProcessFields \ {"step", "receipt", "observation"} : call'[f] = call[f]
           /\ ProcessReceiptIsTrue' /\ ProcessSuccessNeedsAnExit' /\ ProcessRefusalRanNothing'
<1> DEFINE ending == EndingOf(call, world.exitCode, world.signal, call.timedOut)
           receipt == IF call.tool = "shell" THEN ShellOutcome(ending, FALSE) ELSE ComputeOutcome(ending)
           all == \A s \in Streams : call.kept[s] = world.written[s]
           ended == world.exitCode = 0 /\ ~call.timedOut
<1>1. /\ ending.exitCode = world.exitCode /\ ending.signal = world.signal
      /\ ending.timedOut = call.timedOut
      /\ ending.truncated <=> \E s \in Streams : call.truncated[s]
  BY DEF EndingOf
<1>2. ending.truncated <=> ~all
  <2>1. \A s \in Streams : /\ world.written[s] = world.read[s] /\ world.read[s] \in Nat
                           /\ call.kept[s] = IF world.read[s] <= MaxOutputBytes
                                             THEN world.read[s] ELSE MaxOutputBytes
                           /\ call.truncated[s] <=> world.read[s] > MaxOutputBytes
    BY DEF Close, ProcessInv, OutputIsCounted
  <2>2. \A s \in Streams : call.truncated[s] <=> call.kept[s] # world.written[s]
    BY <2>1, OutputLimit
  <2> HIDE DEF ending
  <2> QED  BY <1>1, <2>2
<1>3. world.exitCode = 0 => world.signal = Null
  BY NullIsNoValue DEF ProcessInv, ProcessIsSpawned
<1> HIDE DEF ending, all
<1>4. ASSUME call.tool = "shell"
      PROVE  /\ receipt.status = "succeeded" <=> ended /\ all
             /\ receipt.payload.reason \in {Null, "timed_out", "output_limit_exceeded"}
  <2>1. receipt.status = "succeeded" <=> ended /\ all
    BY <1>1, <1>2, <1>3, <1>4 DEF ShellOutcome, ProcessReceipt
  <2>2. receipt.payload.reason \in {Null, "timed_out", "output_limit_exceeded"}
    BY <1>4 DEF ShellOutcome, ProcessReceipt
  <2> QED  BY <2>1, <2>2
<1>5. ASSUME call.tool # "shell"
      PROVE  /\ receipt.status = "succeeded" <=> ended
             /\ receipt.payload.reason \in {Null, "timed_out"} /\ receipt.payload.ending = ending
  <2>1. receipt.status = "succeeded" <=> ended
    BY <1>1, <1>5 DEF ComputeOutcome, ProcessReceipt
  <2>2. receipt.payload.reason \in {Null, "timed_out"} /\ receipt.payload.ending = ending
    BY <1>5 DEF ComputeOutcome, ProcessReceipt
  <2> QED  BY <2>1, <2>2
<1>6. call' = Answer(call, receipt, Null) /\ world' = world
  BY DEF Close, CloseEvent, Outcome, ending
<1>7. world.state = "exited" /\ DOMAIN call = ProcessFields
  BY DEF Close, ProcessInv
<1> HIDE DEF receipt
<1>8. /\ DOMAIN call' = ProcessFields /\ call'.step = "answered" /\ call'.receipt = receipt
      /\ \A f \in ProcessFields \ {"step", "receipt", "observation"} : call'[f] = call[f]
  BY <1>6, <1>7, AnswerFields DEF ProcessFields
<1>9. call'.kept = call.kept /\ call'.timedOut = call.timedOut /\ call'.tool = call.tool
  BY <1>8 DEF ProcessFields
<1>10. ProcessReceiptIsTrue'
  <2>1. CASE call.tool = "shell"
    BY <1>4, <1>6, <1>8, <1>9, <2>1 DEF ProcessReceiptIsTrue, Succeeded, all
  <2>2. CASE call.tool # "shell"
    BY <1>2, <1>5, <1>6, <1>8, <1>9, <2>2 DEF ProcessReceiptIsTrue, Succeeded, all
  <2> QED  BY <2>1, <2>2
<1>11. ProcessSuccessNeedsAnExit'
  BY <1>6, <1>7 DEF ProcessSuccessNeedsAnExit
<1>12. ProcessRefusalRanNothing'
  BY <1>4, <1>5, <1>8 DEF ProcessRefusalRanNothing
<1> QED  BY <1>8, <1>10, <1>11, <1>12

\* An action that leaves the output and the receipt alone.
LEMMA ProcessIdles ==
    ASSUME ProcessInv, DOMAIN call' = ProcessFields, DOMAIN world' = WorldFields,
           \A f \in ProcessFields \ {"step", "timedOut"} : call'[f] = call[f],
           call'.timedOut \in BOOLEAN, call'.step # "answered", call.receipt = Null,
           OutputIsCounted(call', world'), ProcessIsSpawned(call', world')
    PROVE  ProcessInv'
<1>1. call'.receipt = Null
  BY DEF ProcessFields
<1> QED  BY <1>1, NoReceiptIsTrue DEF ProcessInv

\* The call's answer, once its receipt is known to be true.
LEMMA ProcessAnswers ==
    ASSUME ProcessInv, NEW c, OutputIsCounted(c, world'), DOMAIN c = ProcessFields,
           c.timedOut \in BOOLEAN,
           DOMAIN call' = ProcessFields, DOMAIN world' = WorldFields, call'.step = "answered",
           \A f \in ProcessFields \ {"step", "receipt", "observation"} : call'[f] = c[f],
           ProcessIsSpawned(call', world'),
           ProcessReceiptIsTrue', ProcessSuccessNeedsAnExit', ProcessRefusalRanNothing'
    PROVE  ProcessInv' /\ call'.tool = c.tool
<1>1. /\ call'.kept = c.kept /\ call'.truncated = c.truncated
      /\ call'.timedOut = c.timedOut /\ call'.tool = c.tool
  BY DEF ProcessFields
<1>2. OutputIsCounted(call', world')
  BY <1>1 DEF OutputIsCounted
<1> QED  BY <1>1, <1>2 DEF ProcessInv

LEMMA ProcessSteps ==
    ASSUME ProcessInv, call.tool \in {"shell", "compute"}, ProcessNext
    PROVE  ProcessInv' /\ call'.tool = call.tool
<1>0. DOMAIN call = ProcessFields /\ DOMAIN world = WorldFields
  BY DEF ProcessInv
<1>1. ASSUME NEW tool, NEW valid, Created(tool, valid) PROVE ProcessInv' /\ call'.tool = call.tool
  <2>1. world' = world /\ call.step = "create" /\ call'.step \in {"idle", "not_created"}
    BY <1>0, <1>1 DEF Created, ProcessFields
  <2>2. /\ DOMAIN call' = ProcessFields
        /\ \A f \in ProcessFields \ {"step"} : call'[f] = call[f]
    BY <1>0, <1>1 DEF Created, ProcessFields
  <2>3. OutputIsCounted(call', world') /\ ProcessIsSpawned(call', world')
    BY <2>1, <2>2 DEF ProcessInv, OutputIsCounted, ProcessIsSpawned, ProcessFields
  <2>4. call'.timedOut \in BOOLEAN /\ call.receipt = Null /\ call'.tool = call.tool
    BY <2>1, <2>2 DEF ProcessInv, ProcessFields
  <2> QED  BY <1>0, <2>1, <2>2, <2>3, <2>4, ProcessIdles
<1>2. CASE ExecuteProfile
  <2>0. /\ call.step = "idle" /\ call.receipt = Null /\ world.state = "none"
        /\ world.exitCode = Null /\ world.signal = Null
    BY <1>2 DEF ExecuteProfile, ProcessInv, ProcessIsSpawned
  <2>1. ASSUME NEW refusal, refusal # Null, world' = world,
               call' = Answer(call, ProcessReceipt(FALSE, refusal, NothingRan), Null)
        PROVE  ProcessInv' /\ call'.tool = call.tool
    <3> DEFINE receipt == ProcessReceipt(FALSE, refusal, NothingRan)
    <3>1. receipt.status = "failed"
      BY DEF ProcessReceipt
    <3>0. call' = Answer(call, receipt, Null)
      BY <2>1
    <3> HIDE DEF receipt
    <3>2. /\ DOMAIN call' = ProcessFields /\ call'.step = "answered" /\ call'.receipt = receipt
          /\ \A f \in ProcessFields \ {"step", "receipt", "observation"} : call'[f] = call[f]
      BY <1>0, <3>0, AnswerFields DEF ProcessFields
    <3>3. ProcessReceiptIsTrue' /\ ProcessSuccessNeedsAnExit' /\ ProcessRefusalRanNothing'
      BY <2>0, <2>1, <3>1, <3>2
         DEF ProcessReceiptIsTrue, ProcessSuccessNeedsAnExit, ProcessRefusalRanNothing, Succeeded
    <3>4. ProcessIsSpawned(call', world') /\ OutputIsCounted(call, world')
      BY <2>0, <2>1, <3>2 DEF ProcessInv, ProcessIsSpawned
    <3> QED  BY <1>0, <2>1, <3>2, <3>3, <3>4, ProcessAnswers DEF ProcessInv
  <2>2. ASSUME Spawn PROVE ProcessInv' /\ call'.tool = call.tool
    <3>1. /\ DOMAIN call' = ProcessFields /\ DOMAIN world' = WorldFields
          /\ call'.step = "running" /\ world'.state \in {"running", "unstarted"}
          /\ \A f \in ProcessFields \ {"step"} : call'[f] = call[f]
          /\ \A f \in WorldFields \ {"state"} : world'[f] = world[f]
      BY <1>0, <2>2 DEF Spawn, ProcessFields, WorldFields
    <3>2. OutputIsCounted(call', world') /\ ProcessIsSpawned(call', world')
      BY <2>0, <3>1 DEF ProcessInv, OutputIsCounted, ProcessIsSpawned, ProcessFields, WorldFields
    <3>3. call'.timedOut \in BOOLEAN /\ call'.tool = call.tool
      BY <3>1 DEF ProcessInv, ProcessFields
    <3> QED  BY <2>0, <3>1, <3>2, <3>3, ProcessIdles
  <2> QED  BY <1>2, <2>1, <2>2 DEF ExecuteProfile
<1>3. ASSUME Running PROVE call.receipt = Null
  BY <1>3 DEF Running, ProcessInv
<1>4. CASE TimerFires
  <2> DEFINE c == [call EXCEPT !.timedOut = TRUE]
  <2>1. /\ DOMAIN c = ProcessFields /\ c.timedOut = TRUE
        /\ \A f \in ProcessFields \ {"timedOut"} : c[f] = call[f]
    BY <1>0 DEF ProcessFields
  <2>2. Running /\ Kill(c)
    BY <1>4 DEF TimerFires
  <2> HIDE DEF c
  <2>3. c.tool = call.tool /\ c.step = "running" /\ c.receipt = Null
    BY <1>3, <2>1, <2>2 DEF Running, ProcessFields
  <2>4. ASSUME call' = c, DOMAIN world' = WorldFields,
               \A f \in WorldFields \ {"killed"} : world'[f] = world[f]
        PROVE  ProcessInv' /\ call'.tool = call.tool
    <3>1. OutputIsCounted(call', world') /\ ProcessIsSpawned(call', world')
      BY <2>1, <2>2, <2>3, <2>4
         DEF ProcessInv, OutputIsCounted, ProcessIsSpawned, ProcessFields, WorldFields, Running
    <3> QED  BY <1>3, <2>1, <2>2, <2>3, <2>4, <3>1, ProcessIdles
  <2>5. ASSUME call' = ErrorEvent(c), world' = world, world.state = "running"
        PROVE  ProcessInv' /\ call'.tool = call.tool
    <3>1. /\ DOMAIN call' = ProcessFields /\ call'.step = "answered"
          /\ \A f \in ProcessFields \ {"step", "receipt", "observation"} : call'[f] = c[f]
          /\ ProcessReceiptIsTrue' /\ ProcessSuccessNeedsAnExit' /\ ProcessRefusalRanNothing'
      BY <2>1, <2>3, <2>5, ErrorTells
    <3>2. OutputIsCounted(c, world')
      BY <2>1, <2>5 DEF ProcessInv, OutputIsCounted, ProcessFields
    <3>3. ProcessIsSpawned(call', world')
      BY <2>5, <3>1 DEF ProcessInv, ProcessIsSpawned
    <3> QED  BY <1>0, <2>1, <2>3, <2>5, <3>1, <3>2, <3>3, ProcessAnswers
  <2>6. CASE world.state # "running"
    BY <1>0, <2>2, <2>4, <2>6 DEF Kill
  <2>7. CASE world.state = "running" /\ world.killable
    <3>1. world' = [world EXCEPT !.killed = TRUE] /\ call' = c
      BY <2>2, <2>7 DEF Kill
    <3> QED  BY <1>0, <2>4, <3>1 DEF WorldFields
  <2>8. CASE world.state = "running" /\ ~world.killable
    BY <2>2, <2>5, <2>8 DEF Kill
  <2> QED  BY <2>6, <2>7, <2>8

<1>5. ASSUME NEW s \in Streams, DataArrives(s) PROVE ProcessInv' /\ call'.tool = call.tool
  <2>1. PICK bytes \in 1..(world.written[s] - world.read[s]) :
          LET appended == Kept(call, s, bytes)
              limited == call.tool = "shell" /\ ~call.limited
                            /\ \E t \in Streams : appended.truncated[t]
              after == [appended EXCEPT !.limited = @ \/ limited]
              read == [world EXCEPT !.read[s] = @ + bytes]
          IN  IF ~limited \/ world.state # "running"
              THEN call' = after /\ world' = read
              ELSE IF world.killable
              THEN call' = after /\ world' = [read EXCEPT !.killed = TRUE]
              ELSE call' = ErrorEvent(after) /\ world' = read
    BY <1>5 DEF DataArrives
  <2> DEFINE appended == Kept(call, s, bytes)
             limited == call.tool = "shell" /\ ~call.limited
                           /\ \E t \in Streams : appended.truncated[t]
             after == [appended EXCEPT !.limited = @ \/ limited]
             read == [world EXCEPT !.read[s] = @ + bytes]
  <2>2. Running /\ call.step = "running"
    BY <1>5 DEF DataArrives, Running
  <2>3. /\ DOMAIN read = WorldFields /\ read.written = world.written
        /\ read.read = [world.read EXCEPT ![s] = @ + bytes]
        /\ \A f \in WorldFields \ {"read"} : read[f] = world[f]
    BY <1>0 DEF WorldFields
  <2> HIDE DEF read
  <2>4. /\ OutputIsCounted(appended, read) /\ DOMAIN appended = ProcessFields
        /\ \A f \in ProcessFields \ {"kept", "truncated"} : appended[f] = call[f]
    <3>1. OutputIsCounted(call, world) /\ read.written = world.written
          /\ read.read = [world.read EXCEPT ![s] = @ + bytes]
      BY <2>3 DEF ProcessInv
    <3> QED  BY <1>0, <3>1, KeptCounts
  <2>5. \/ call' = after /\ world' = read
        \/ call' = after /\ world' = [read EXCEPT !.killed = TRUE]
        \/ call' = ErrorEvent(after) /\ world' = read /\ world.state = "running"
    BY <2>1 DEF read
  <2> HIDE DEF appended, limited
  <2>6. /\ DOMAIN after = ProcessFields
        /\ \A f \in ProcessFields \ {"limited"} : after[f] = appended[f]
    BY <2>4 DEF ProcessFields
  <2> HIDE DEF after
  <2>7. /\ OutputIsCounted(after, read)
        /\ after.tool = call.tool /\ after.step = "running" /\ after.receipt = Null
        /\ after.timedOut \in BOOLEAN /\ DOMAIN after = ProcessFields
    BY <1>3, <2>2, <2>4, <2>6 DEF OutputIsCounted, ProcessFields, ProcessInv
  <2>8. ASSUME call' = after, DOMAIN world' = WorldFields,
               \A f \in WorldFields \ {"killed"} : world'[f] = read[f]
        PROVE  ProcessInv' /\ call'.tool = call.tool
    <3>1. OutputIsCounted(call', world')
      BY <2>7, <2>8 DEF OutputIsCounted, WorldFields
    <3>2. ProcessIsSpawned(call', world')
      BY <2>2, <2>3, <2>7, <2>8 DEF ProcessIsSpawned, ProcessInv, WorldFields
    <3> QED  BY <2>7, <2>8, <3>1, <3>2, NoReceiptIsTrue DEF ProcessInv
  <2>9. ASSUME call' = ErrorEvent(after), world' = read, world.state = "running"
        PROVE  ProcessInv' /\ call'.tool = call.tool
    <3>1. world'.state = "running"
      BY <2>3, <2>9 DEF WorldFields
    <3>2. /\ DOMAIN call' = ProcessFields /\ call'.step = "answered"
          /\ \A f \in ProcessFields \ {"step", "receipt", "observation"} : call'[f] = after[f]
          /\ ProcessReceiptIsTrue' /\ ProcessSuccessNeedsAnExit' /\ ProcessRefusalRanNothing'
      BY <2>7, <2>9, <3>1, ErrorTells
    <3>3. ProcessIsSpawned(call', world')
      BY <2>3, <2>9, <3>1, <3>2 DEF ProcessInv, ProcessIsSpawned, WorldFields
    <3> QED  BY <2>3, <2>7, <2>9, <3>2, <3>3, ProcessAnswers
  <2>10. CASE call' = after /\ world' = [read EXCEPT !.killed = TRUE]
    <3>1. /\ DOMAIN world' = WorldFields
          /\ \A f \in WorldFields \ {"killed"} : world'[f] = read[f]
      BY <2>3, <2>10 DEF WorldFields
    <3> QED  BY <2>8, <2>10, <3>1
  <2> QED  BY <2>3, <2>5, <2>8, <2>9, <2>10
<1>6. CASE SpawnFails
  <2>1. Running /\ world.state = "unstarted" /\ world' = world /\ call' = ErrorEvent(call)
    BY <1>6 DEF SpawnFails
  <2>2. /\ DOMAIN call' = ProcessFields /\ call'.step = "answered"
        /\ \A f \in ProcessFields \ {"step", "receipt", "observation"} : call'[f] = call[f]
        /\ ProcessReceiptIsTrue' /\ ProcessSuccessNeedsAnExit' /\ ProcessRefusalRanNothing'
    BY <1>0, <2>1, ErrorTells
  <2>3. ProcessIsSpawned(call', world') /\ OutputIsCounted(call, world')
    BY <2>1, <2>2 DEF ProcessInv, ProcessIsSpawned
  <2> QED  BY <1>0, <2>1, <2>2, <2>3, ProcessAnswers DEF ProcessInv
<1>7. CASE Close
  <2>1. /\ DOMAIN call' = ProcessFields /\ call'.step = "answered"
        /\ \A f \in ProcessFields \ {"step", "receipt", "observation"} : call'[f] = call[f]
        /\ ProcessReceiptIsTrue' /\ ProcessSuccessNeedsAnExit' /\ ProcessRefusalRanNothing'
    BY <1>7, CloseTells
  <2>2. world' = world /\ world.state = "exited"
    BY <1>7 DEF Close
  <2>3. ProcessIsSpawned(call', world') /\ OutputIsCounted(call, world')
    BY <2>1, <2>2 DEF ProcessInv, ProcessIsSpawned
  <2> QED  BY <1>0, <2>1, <2>2, <2>3, ProcessAnswers DEF ProcessInv
<1>8. ASSUME Running, call' = call, DOMAIN world' = WorldFields,
             world'.read = world.read, world'.written \in [Streams -> Nat],
             \A s \in Streams : world'.written[s] >= world.written[s],
             ProcessIsSpawned(call, world')
      PROVE  ProcessInv' /\ call'.tool = call.tool
  <2>1. OutputIsCounted(call', world')
    BY <1>8 DEF ProcessInv, OutputIsCounted
  <2> QED  BY <1>0, <1>3, <1>8, <2>1, NoReceiptIsTrue DEF ProcessInv
<1>9. ASSUME NEW s \in Streams, ProcessWrites(s) PROVE ProcessInv' /\ call'.tool = call.tool
  <2>1. /\ Running /\ call' = call
        /\ world' = [world EXCEPT !.written[s] = @ + 1]
    BY <1>9 DEF ProcessWrites
  <2>2. world.written \in [Streams -> Nat]
    BY DEF ProcessInv, OutputIsCounted
  <2>3. /\ DOMAIN world' = WorldFields /\ world'.written = [world.written EXCEPT ![s] = @ + 1]
        /\ \A f \in WorldFields \ {"written"} : world'[f] = world[f]
    BY <1>0, <2>1 DEF WorldFields
  <2>4. /\ world'.written \in [Streams -> Nat]
        /\ \A t \in Streams : world'.written[t] >= world.written[t]
    BY <2>2, <2>3
  <2>5. ProcessIsSpawned(call, world') /\ world'.read = world.read
    BY <2>3 DEF ProcessInv, ProcessIsSpawned, WorldFields
  <2> QED  BY <1>8, <2>1, <2>3, <2>4, <2>5
<1>10. ASSUME Running, call' = call, DOMAIN world' = WorldFields,
              world'.read = world.read, world'.written = world.written,
              ProcessIsSpawned(call, world')
       PROVE  ProcessInv' /\ call'.tool = call.tool
  <2>1. /\ world'.written \in [Streams -> Nat]
        /\ \A s \in Streams : world'.written[s] >= world.written[s]
    BY <1>10 DEF ProcessInv, OutputIsCounted
  <2> QED  BY <1>8, <1>10, <2>1
<1>11. CASE ProcessExits
  <2>1. PICK holder \in BOOLEAN, code \in {0, 1} :
          world' = [world EXCEPT !.state = "exited", !.exitCode = code, !.holder = holder]
    BY <1>11 DEF ProcessExits
  <2>2. Running /\ call' = call /\ world.state = "running"
    BY <1>11 DEF ProcessExits
  <2>3. /\ DOMAIN world' = WorldFields /\ world'.state = "exited"
        /\ \A f \in WorldFields \ {"state", "exitCode", "holder"} : world'[f] = world[f]
    BY <1>0, <2>1 DEF WorldFields
  <2>4. /\ ProcessIsSpawned(call, world')
        /\ world'.read = world.read /\ world'.written = world.written
    BY <2>2, <2>3 DEF ProcessInv, ProcessIsSpawned, WorldFields, Running
  <2> QED  BY <1>10, <2>2, <2>3, <2>4
<1>12. CASE SignalLands
  <2>1. PICK holder \in BOOLEAN :
          world' = [world EXCEPT !.state = "exited", !.signal = "SIGKILL", !.holder = holder]
    BY <1>12 DEF SignalLands
  <2>2. Running /\ call' = call /\ world.state = "running"
    BY <1>12 DEF SignalLands
  <2>3. /\ DOMAIN world' = WorldFields /\ world'.state = "exited"
        /\ \A f \in WorldFields \ {"state", "signal", "holder"} : world'[f] = world[f]
    BY <1>0, <2>1 DEF WorldFields
  <2>4. /\ ProcessIsSpawned(call, world')
        /\ world'.read = world.read /\ world'.written = world.written
    BY <2>2, <2>3 DEF ProcessInv, ProcessIsSpawned, WorldFields, Running
  <2> QED  BY <1>10, <2>2, <2>3, <2>4
<1>13. CASE DescendantEnds
  <2>1. Running /\ call' = call /\ world' = [world EXCEPT !.holder = FALSE]
    BY <1>13 DEF DescendantEnds
  <2>2. /\ DOMAIN world' = WorldFields
        /\ \A f \in WorldFields \ {"holder"} : world'[f] = world[f]
    BY <1>0, <2>1 DEF WorldFields
  <2>3. /\ ProcessIsSpawned(call, world')
        /\ world'.read = world.read /\ world'.written = world.written
    BY <2>2 DEF ProcessInv, ProcessIsSpawned, WorldFields
  <2> QED  BY <1>10, <2>1, <2>2, <2>3
<1> QED
  BY <1>1, <1>2, <1>4, <1>5, <1>6, <1>7, <1>9, <1>11, <1>12, <1>13
     DEF ProcessNext, CreateShellCommandAdapter, CreateControlledComputeAdapter

\* ------------------------------------------------------------------------
\* The filesystem reader

\* What a list of two checks finds, and one of three.
LEMMA FirstOfTwo ==
    ASSUME NEW checks, DOMAIN checks = 1..2
    PROVE  FirstError(checks) = IF ~checks[1][1] THEN checks[1][2]
                                ELSE IF ~checks[2][1] THEN checks[2][2]
                                ELSE Null
<1>1. DOMAIN checks \subseteq Nat
  OBVIOUS
<1>2. \/ FirstError(checks) = Null /\ \A i \in DOMAIN checks : checks[i][1] = TRUE
      \/ \E i \in DOMAIN checks :
           /\ ~checks[i][1] /\ FirstError(checks) = checks[i][2]
           /\ \A j \in DOMAIN checks : j < i => checks[j][1] = TRUE
  BY <1>1, FirstErrorIs
<1> QED  BY <1>2

LEMMA FirstOfThree ==
    ASSUME NEW checks, DOMAIN checks = 1..3
    PROVE  FirstError(checks) = IF ~checks[1][1] THEN checks[1][2]
                                ELSE IF ~checks[2][1] THEN checks[2][2]
                                ELSE IF ~checks[3][1] THEN checks[3][2]
                                ELSE Null
<1>1. DOMAIN checks \subseteq Nat
  OBVIOUS
<1>2. \/ FirstError(checks) = Null /\ \A i \in DOMAIN checks : checks[i][1] = TRUE
      \/ \E i \in DOMAIN checks :
           /\ ~checks[i][1] /\ FirstError(checks) = checks[i][2]
           /\ \A j \in DOMAIN checks : j < i => checks[j][1] = TRUE
  BY <1>1, FirstErrorIs
<1> QED  BY <1>2

FilesystemFields == {"tool", "options", "request", "step", "receipt", "observation",
                     "place", "file", "read"}
SmallFiles == {f \in Contents : Len(f) <= MaxBytes}

\* The path led into the root and, no earlier, to a small enough file.
SmallFileSeen(i, j) ==
    /\ i \in DOMAIN world /\ j \in DOMAIN world /\ i <= j
    /\ Realpath(world[i]) = "inside" /\ ContentAt(world[j], "inside") \in SmallFiles

\* The file was opened in moment k, and what is read of it was in it since.
FileIsOpen(c, k) ==
    LET at == c.file.at
    IN  /\ DOMAIN c.file = {"at", "since", "size"}
        /\ at = Location(world[k], "inside") /\ world[k][at] \in Contents
        /\ c.file.size = Len(world[k][at])
        /\ c.file.since \in k..Len(world)
        /\ c.read \in Seq(Chunks)
        /\ \A n \in DOMAIN c.read : \E m \in k..Len(world) :
              /\ world[m][at] \in Contents
              /\ n <= Len(world[m][at]) /\ world[m][at][n] = c.read[n]

\* What each await relies on was seen, in moments that follow each other.
FilesystemInv ==
    /\ DOMAIN call = FilesystemFields
    /\ world \in Seq(Disks) /\ Len(world) >= 1
    /\ call.step # "answered" => call.receipt = Null
    /\ call.step = "stat" =>
          call.place = "inside" /\ \E i \in DOMAIN world : Realpath(world[i]) = "inside"
    /\ call.step = "open" => call.place = "inside" /\ \E i, j : SmallFileSeen(i, j)
    /\ call.step = "waiting" =>
          \E i, j : \E k \in DOMAIN world :
              SmallFileSeen(i, j) /\ j <= k /\ ContentAt(world[k], "inside") = Special
    /\ call.step = "read" =>
          \E i, j : \E k \in DOMAIN world : SmallFileSeen(i, j) /\ j <= k /\ FileIsOpen(call, k)
    /\ ReadReceiptIsTrue /\ ReadFailureWasSeen

\* What is at a place, links followed, is a file or nothing.
LEMMA ContentsAreFiles ==
    ASSUME NEW disk \in Disks, NEW place
    PROVE  /\ ContentAt(disk, place) \in Files
           /\ Location(disk, place) \in {"inside", "outside"}
BY DEF Disks, Parts, ContentAt, Location, Files

\* What ReadFailureWasSeen asks of a reason.
ReasonWasSeen(reason) ==
    /\ reason = "not_found" => \E k \in DOMAIN world : ~Resolves(world[k])
    /\ reason = "outside_root" =>
          \/ ~LexicallyWithinRoot(call.request.path)
          \/ \E k \in DOMAIN world : Resolves(world[k]) /\ Realpath(world[k]) = "outside"
    /\ reason = "directory_not_allowed" =>
          \E k \in DOMAIN world : ContentAt(world[k], "inside") \in {Directory, Special}
    /\ reason = "file_too_large" =>
          \E k \in DOMAIN world, f \in Contents :
              ContentAt(world[k], "inside") = f /\ Len(f) > MaxBytes

\* What ReadReceiptIsTrue asks of what was read.
ReadWasSeen(read) ==
    \E i, j, k \in DOMAIN world :
        /\ i <= j /\ j <= k
        /\ Realpath(world[i]) = "inside"
        /\ ContentAt(world[j], "inside") \in {f \in Contents : Len(f) <= MaxBytes}
        /\ \/ ContentAt(world[k], "inside") = Special
           \/ LET at == Location(world[k], "inside")
                  after == {m \in k..Len(world) : world[m][at] \in Contents}
              IN  /\ \A n \in DOMAIN read : \E m \in after :
                        n <= Len(world[m][at]) /\ world[m][at][n] = read[n]
                  /\ \E m \in after : Len(world[m][at]) <= Len(read)

LEMMA WhatWasReadIsTrue ==
    ReadReceiptIsTrue <=>
        (Succeeded => LET read == call.receipt.payload.content
                      IN  /\ call.observation # Null => call.observation.content = read
                          /\ ReadWasSeen(read))
BY DEF ReadReceiptIsTrue, ReadWasSeen

\* A check that fails answers with its reason.
LEMMA RefusalIsTrue ==
    ASSUME FilesystemInv, world' = world, NEW c, DOMAIN c = FilesystemFields, NEW reason,
           reason # Null, call' = Answer(c, ReadReceipt(reason, Null), Null),
           c.tool = call.tool, c.request = call.request, ReasonWasSeen(reason)
    PROVE  FilesystemInv' /\ call'.tool = call.tool
<1> DEFINE receipt == ReadReceipt(reason, Null)
<1>1. receipt.status = "failed" /\ receipt.payload.reason = reason
  BY DEF ReadReceipt
<1>2. call' = Answer(c, receipt, Null)
  OBVIOUS
<1> HIDE DEF receipt
<1>3. /\ DOMAIN call' = FilesystemFields /\ call'.step = "answered" /\ call'.receipt = receipt
      /\ \A f \in FilesystemFields \ {"step", "receipt", "observation"} : call'[f] = c[f]
  BY <1>2, AnswerFields DEF FilesystemFields
<1>4. call'.tool = call.tool /\ call'.request = call.request
  BY <1>3 DEF FilesystemFields
<1>5. ReadReceiptIsTrue'
  BY <1>1, <1>3 DEF ReadReceiptIsTrue, Succeeded
<1>6. ReadFailureWasSeen'
  BY <1>1, <1>3, <1>4 DEF ReadFailureWasSeen, ReasonWasSeen
<1> QED  BY <1>3, <1>4, <1>5, <1>6 DEF FilesystemInv

\* A reason that says nothing of the disk.
LEMMA OtherReasons ==
    ASSUME NEW reason \in {"invalid_path", "dotfile_not_allowed", "read_error"}
    PROVE  ReasonWasSeen(reason) /\ reason # Null
BY NullIsNoValue DEF ReasonWasSeen, ErrorCodes

\* A call that goes on to its next await, having seen what that await relies on.
LEMMA ReadGoesOn ==
    ASSUME FilesystemInv, world' = world, call.step # "answered", NEW c, NEW next,
           call' = [c EXCEPT !.step = next], DOMAIN c = FilesystemFields, next # "answered",
           \A f \in FilesystemFields \ {"place", "file", "read"} : c[f] = call[f],
           next = "stat" =>
              c.place = "inside" /\ \E i \in DOMAIN world : Realpath(world[i]) = "inside",
           next = "open" => c.place = "inside" /\ \E i, j : SmallFileSeen(i, j),
           next = "waiting" =>
              \E i, j : \E k \in DOMAIN world :
                  SmallFileSeen(i, j) /\ j <= k /\ ContentAt(world[k], "inside") = Special,
           next = "read" =>
              \E i, j : \E k \in DOMAIN world : SmallFileSeen(i, j) /\ j <= k /\ FileIsOpen(c, k)
    PROVE  FilesystemInv' /\ call'.tool = call.tool
<1>1. /\ DOMAIN call' = FilesystemFields /\ call'.step = next /\ call'.receipt = call.receipt
      /\ call'.place = c.place /\ call'.file = c.file /\ call'.read = c.read
      /\ call'.tool = call.tool
  BY DEF FilesystemFields
<1>2. call.receipt = Null
  BY DEF FilesystemInv
<1>3. ReadReceiptIsTrue' /\ ReadFailureWasSeen'
  BY <1>1, <1>2 DEF ReadReceiptIsTrue, ReadFailureWasSeen, Succeeded, Failed
<1>4. \A i, j : SmallFileSeen(i, j) => SmallFileSeen(i, j)'
  BY DEF SmallFileSeen
<1>5. \A k : FileIsOpen(c, k) => FileIsOpen(call, k)'
  BY <1>1 DEF FileIsOpen
<1>6. next = "read" =>
        \E i, j : \E k \in DOMAIN world' :
            SmallFileSeen(i, j)' /\ j <= k /\ FileIsOpen(call, k)'
  BY <1>4, <1>5
<1>7. next = "waiting" =>
        \E i, j : \E k \in DOMAIN world' :
            SmallFileSeen(i, j)' /\ j <= k /\ ContentAt(world'[k], "inside") = Special
  BY <1>4
<1>8. next = "open" => \E i, j : SmallFileSeen(i, j)'
  BY <1>4
<1> QED  BY <1>1, <1>2, <1>3, <1>6, <1>7, <1>8 DEF FilesystemInv

\* The reasons the four awaits may leave with.
LEMMA PathReason ==
    ASSUME NEW path
    PROVE  PathRefusal(path) \in {Null, "invalid_path", "dotfile_not_allowed"}
<1> DEFINE checks == << <<path \notin {"blank", "invalid"}, "invalid_path">>,
              <<call.options.allowDotfiles \/ ~HasDotfileSegment(path), "dotfile_not_allowed">> >>
<1>1. DOMAIN checks = 1..2
  OBVIOUS
<1>2. FirstError(checks) = IF ~checks[1][1] THEN checks[1][2]
                           ELSE IF ~checks[2][1] THEN checks[2][2]
                           ELSE Null
  BY <1>1, FirstOfTwo
<1>3. checks[1][2] = "invalid_path" /\ checks[2][2] = "dotfile_not_allowed"
  OBVIOUS
<1> HIDE DEF checks
<1>4. FirstError(checks) \in {Null, "invalid_path", "dotfile_not_allowed"}
  BY <1>2, <1>3
<1> QED  BY <1>4 DEF checks, PathRefusal

RootReason(disk) ==
    FirstError(<< <<disk.root, "read_error">>,
                  <<LexicallyWithinRoot(call.request.path), "outside_root">> >>)

LEMMA RootReasonIs ==
    ASSUME NEW disk
    PROVE  RootReason(disk) = IF ~disk.root THEN "read_error"
                              ELSE IF ~LexicallyWithinRoot(call.request.path) THEN "outside_root"
                              ELSE Null
<1> DEFINE checks == << <<disk.root, "read_error">>,
                        <<LexicallyWithinRoot(call.request.path), "outside_root">> >>
<1>1. DOMAIN checks = 1..2
  OBVIOUS
<1>2. FirstError(checks) = IF ~checks[1][1] THEN checks[1][2]
                           ELSE IF ~checks[2][1] THEN checks[2][2]
                           ELSE Null
  BY <1>1, FirstOfTwo
<1> QED  BY <1>2 DEF RootReason

TargetReason(disk) ==
    FirstError(<< <<Resolves(disk), "not_found">>,
                  <<Realpath(disk) = "inside", "outside_root">> >>)

LEMMA TargetReasonIs ==
    ASSUME NEW disk
    PROVE  TargetReason(disk) = IF ~Resolves(disk) THEN "not_found"
                                ELSE IF Realpath(disk) # "inside" THEN "outside_root"
                                ELSE Null
<1> DEFINE checks == << <<Resolves(disk), "not_found">>,
                        <<Realpath(disk) = "inside", "outside_root">> >>
<1>1. DOMAIN checks = 1..2
  OBVIOUS
<1>2. FirstError(checks) = IF ~checks[1][1] THEN checks[1][2]
                           ELSE IF ~checks[2][1] THEN checks[2][2]
                           ELSE Null
  BY <1>1, FirstOfTwo
<1> QED  BY <1>2 DEF TargetReason

StatReason(file) ==
    FirstError(<< <<file # Missing, "read_error">>,
                  <<file \in Contents, "directory_not_allowed">>,
                  <<file \in Contents /\ Len(file) <= MaxBytes, "file_too_large">> >>)

LEMMA StatReasonIs ==
    ASSUME NEW file
    PROVE  StatReason(file) = IF file = Missing THEN "read_error"
                              ELSE IF file \notin Contents THEN "directory_not_allowed"
                              ELSE IF ~(Len(file) <= MaxBytes) THEN "file_too_large"
                              ELSE Null
<1> DEFINE checks == << <<file # Missing, "read_error">>,
                        <<file \in Contents, "directory_not_allowed">>,
                        <<file \in Contents /\ Len(file) <= MaxBytes, "file_too_large">> >>
<1>1. DOMAIN checks = 1..3
  OBVIOUS
<1>2. FirstError(checks) = IF ~checks[1][1] THEN checks[1][2]
                           ELSE IF ~checks[2][1] THEN checks[2][2]
                           ELSE IF ~checks[3][1] THEN checks[3][2]
                           ELSE Null
  BY <1>1, FirstOfThree
<1> QED  BY <1>2 DEF StatReason

LEMMA FilesystemSteps ==
    ASSUME FilesystemInv, call.tool = "filesystem", FilesystemNext
    PROVE  FilesystemInv' /\ call'.tool = call.tool
<1> DEFINE latest == Len(world)
<1>0. /\ DOMAIN call = FilesystemFields /\ latest \in DOMAIN world /\ latest \in Nat
      /\ DOMAIN world = 1..latest /\ Disk = world[latest] /\ Disk \in Disks
  BY DEF FilesystemInv, Disk
<1>1. CASE CreateFilesystemReadAdapter
  <2>1. world' = world /\ call' = [call EXCEPT !.step = "idle"] /\ call.step = "create"
    BY <1>1 DEF CreateFilesystemReadAdapter, Created
  <2> QED  BY <1>0, <2>1, ReadGoesOn
<1>2. CASE ExecuteRead
  <2> DEFINE reason == PathRefusal(call.request.path)
  <2>1. reason \in {Null, "invalid_path", "dotfile_not_allowed"}
    BY PathReason
  <2>2. Proceed(call, reason, "root") /\ call.step = "idle" /\ world' = world
    BY <1>2 DEF ExecuteRead, Reads, At
  <2> HIDE DEF reason
  <2>3. CASE reason = Null
    <3>1. call' = [call EXCEPT !.step = "root"]
      BY <2>2, <2>3 DEF Proceed
    <3> QED  BY <1>0, <2>2, <3>1, ReadGoesOn
  <2>4. CASE reason # Null
    <3>1. ReasonWasSeen(reason)
      BY <2>1, <2>4, OtherReasons
    <3> QED  BY <1>0, <2>2, <2>4, <3>1, RefusalIsTrue DEF Proceed
  <2> QED  BY <2>3, <2>4
<1>3. CASE RealpathRoot
  <2> DEFINE reason == RootReason(Disk)
  <2>1. reason = IF ~Disk.root THEN "read_error"
                 ELSE IF ~LexicallyWithinRoot(call.request.path) THEN "outside_root"
                 ELSE Null
    BY RootReasonIs
  <2>2. Proceed(call, reason, "target") /\ call.step = "root" /\ world' = world
    BY <1>3 DEF RealpathRoot, Reads, At, RootReason
  <2> HIDE DEF reason
  <2>3. CASE reason = Null
    <3>1. call' = [call EXCEPT !.step = "target"]
      BY <2>2, <2>3 DEF Proceed
    <3> QED  BY <1>0, <2>2, <3>1, ReadGoesOn
  <2>4. CASE reason # Null
    <3>1. ReasonWasSeen(reason)
      BY <2>1, <2>4 DEF ReasonWasSeen
    <3> QED  BY <1>0, <2>2, <2>4, <3>1, RefusalIsTrue DEF Proceed
  <2> QED  BY <2>3, <2>4
<1>4. CASE RealpathTarget
  <2> DEFINE reason == TargetReason(Disk)
             c == [call EXCEPT !.place = Realpath(Disk)]
  <2>1. reason = IF ~Resolves(Disk) THEN "not_found"
                 ELSE IF Realpath(Disk) # "inside" THEN "outside_root" ELSE Null
    BY TargetReasonIs
  <2>2. Proceed(c, reason, "stat") /\ call.step = "target" /\ world' = world
    BY <1>4 DEF RealpathTarget, Reads, At, TargetReason
  <2>3. /\ DOMAIN c = FilesystemFields /\ c.place = Realpath(Disk)
        /\ \A f \in FilesystemFields \ {"place"} : c[f] = call[f]
        /\ c.tool = call.tool /\ c.request = call.request
    BY <1>0 DEF FilesystemFields
  <2> HIDE DEF reason, c
  <2>4. CASE reason = Null
    <3>1. Realpath(Disk) = "inside"
      BY <2>1, <2>4, NullIsNoValue DEF ErrorCodes
    <3>2. call' = [c EXCEPT !.step = "stat"]
      BY <2>2, <2>4 DEF Proceed
    <3>3. \E i \in DOMAIN world : Realpath(world[i]) = "inside"
      BY <1>0, <3>1
    <3> QED  BY <2>2, <2>3, <3>1, <3>2, <3>3, ReadGoesOn
  <2>5. CASE reason # Null
    <3>1. Realpath(Disk) \in {"inside", "outside"}
      BY <1>0, ContentsAreFiles DEF Realpath
    <3>2. ReasonWasSeen(reason)
      BY <1>0, <2>1, <2>5, <3>1 DEF ReasonWasSeen
    <3>3. call' = Answer(c, ReadReceipt(reason, Null), Null)
      BY <2>2, <2>5 DEF Proceed
    <3> QED  BY <2>2, <2>3, <2>5, <3>2, <3>3, RefusalIsTrue
  <2> QED  BY <2>4, <2>5
<1>5. CASE StatTarget
  <2> DEFINE file == ContentAt(Disk, call.place)
             seen == StatReason(file)
  <2>1. seen = IF file = Missing THEN "read_error"
               ELSE IF file \notin Contents THEN "directory_not_allowed"
               ELSE IF ~(Len(file) <= MaxBytes) THEN "file_too_large"
               ELSE Null
    BY StatReasonIs
  <2>2. PICK reason \in {seen, "read_error"} : Proceed(call, reason, "open")
    BY <1>5 DEF StatTarget, StatReason
  <2>3. /\ call.step = "stat" /\ world' = world /\ call.place = "inside"
        /\ \E i \in DOMAIN world : Realpath(world[i]) = "inside"
    BY <1>5 DEF StatTarget, Reads, At, FilesystemInv
  <2>4. file = ContentAt(world[latest], "inside") /\ file \in Files
    BY <1>0, <2>3, ContentsAreFiles
  <2> HIDE DEF seen, file
  <2>5. CASE reason = Null
    <3>1. file \in SmallFiles
      BY <2>1, <2>2, <2>5, NullIsNoValue DEF ErrorCodes, SmallFiles
    <3>2. call' = [call EXCEPT !.step = "open"]
      BY <2>2, <2>5 DEF Proceed
    <3>3. PICK i \in DOMAIN world : Realpath(world[i]) = "inside"
      BY <2>3
    <3>4. SmallFileSeen(i, latest)
      BY <1>0, <2>4, <3>1, <3>3 DEF SmallFileSeen
    <3> QED  BY <1>0, <2>3, <3>2, <3>4, ReadGoesOn
  <2>6. CASE reason # Null
    <3>1. call' = Answer(call, ReadReceipt(reason, Null), Null)
      BY <2>2, <2>6 DEF Proceed
    <3>2. reason = "file_too_large" => file \in Contents /\ Len(file) > MaxBytes
      BY <2>1, <2>2, <2>6, FilesAreChunks
    <3>3. reason = "directory_not_allowed" => file \in {Directory, Special}
      BY <2>1, <2>2, <2>4, <2>6 DEF Files
    <3>4. reason \in {"read_error", "directory_not_allowed", "file_too_large"}
      BY <2>1, <2>2, <2>6
    <3>5. ReasonWasSeen(reason)
      BY <1>0, <2>4, <3>2, <3>3, <3>4 DEF ReasonWasSeen
    <3> QED  BY <1>0, <2>3, <2>6, <3>1, <3>5, RefusalIsTrue
  <2> QED  BY <2>5, <2>6
<1>6. ASSUME call' = Answer(call, ReadReceipt("read_error", Null), Null), world' = world
      PROVE  FilesystemInv' /\ call'.tool = call.tool
  BY <1>0, <1>6, OtherReasons, RefusalIsTrue
<1>7. CASE OpenTarget
  <2> DEFINE at == Location(Disk, call.place)
             file == Disk[at]
             opened == [call EXCEPT !.read = <<>>,
                                    !.file = [at |-> at, since |-> latest, size |-> Len(file)]]
  <2>1. call.step = "open" /\ world' = world /\ call.place = "inside"
    BY <1>7 DEF OpenTarget, Reads, At, FilesystemInv
  <2>2. PICK i, j : SmallFileSeen(i, j)
    BY <2>1 DEF FilesystemInv
  <2>3. j <= latest
    BY <1>0, <2>2 DEF SmallFileSeen
  <2>4. file = ContentAt(world[latest], "inside") /\ at = Location(world[latest], "inside")
    BY <1>0, <2>1 DEF ContentAt
  <2>5. CASE file \in Contents /\ call' = [opened EXCEPT !.step = "read"]
    <3>1. /\ DOMAIN opened = FilesystemFields /\ opened.read = <<>>
          /\ opened.file = [at |-> at, since |-> latest, size |-> Len(file)]
          /\ \A f \in FilesystemFields \ {"place", "file", "read"} : opened[f] = call[f]
      BY <1>0 DEF FilesystemFields
    <3>2. file = world[latest][at]
      BY <1>0
    <3> HIDE DEF opened, at, file
    <3>3. FileIsOpen(opened, latest)
      BY <1>0, <2>4, <2>5, <3>1, <3>2 DEF FileIsOpen
    <3> QED  BY <1>0, <2>1, <2>2, <2>3, <2>5, <3>1, <3>3, ReadGoesOn
  <2>6. CASE file = Special /\ call' = [call EXCEPT !.step = "waiting"]
    <3> HIDE DEF at, file
    <3>1. ContentAt(world[latest], "inside") = Special
      BY <2>4, <2>6
    <3> QED  BY <1>0, <2>1, <2>2, <2>3, <2>6, <3>1, ReadGoesOn
  <2>7. CASE call' = Answer(call, ReadReceipt("read_error", Null), Null)
    BY <1>6, <2>1, <2>7
  <2>8. \/ file \in Contents /\ call' = [opened EXCEPT !.step = "read"]
        \/ file = Special /\ call' = [call EXCEPT !.step = "waiting"]
        \/ call' = Answer(call, ReadReceipt("read_error", Null), Null)
    <3>1. /\ file \in Contents
          /\ call' = [call EXCEPT !.step = "read", !.read = <<>>,
                                  !.file = [at |-> at, since |-> latest, size |-> Len(file)]]
          => call' = [opened EXCEPT !.step = "read"]
      BY <1>0 DEF FilesystemFields
    <3> QED  BY <1>7, <3>1 DEF OpenTarget
  <2> QED  BY <2>5, <2>6, <2>7, <2>8
<1>8. ASSUME world' = world, NEW content,
             call' = Answer(call, ReadReceipt(Null, content), FileObservation(content)),
             \E i, j : \E k \in DOMAIN world :
                /\ SmallFileSeen(i, j) /\ j <= k
                /\ \/ ContentAt(world[k], "inside") = Special
                   \/ LET at == Location(world[k], "inside")
                          after == {m \in k..latest : world[m][at] \in Contents}
                      IN  /\ \A n \in DOMAIN content : \E m \in after :
                                n <= Len(world[m][at]) /\ world[m][at][n] = content[n]
                          /\ \E m \in after : Len(world[m][at]) <= Len(content)
      PROVE  FilesystemInv' /\ call'.tool = call.tool
  <2> DEFINE receipt == ReadReceipt(Null, content)
             observation == FileObservation(content)
  <2>1. receipt.status = "succeeded" /\ receipt.payload.content = content
    BY DEF ReadReceipt
  <2>2. observation # Null => observation.content = content
    BY DEF FileObservation
  <2>3. call' = Answer(call, receipt, observation)
    BY <1>8
  <2> HIDE DEF receipt, observation
  <2>4. /\ DOMAIN call' = FilesystemFields /\ call'.step = "answered" /\ call'.receipt = receipt
        /\ call'.observation = observation
        /\ \A f \in FilesystemFields \ {"step", "receipt", "observation"} : call'[f] = call[f]
    BY <1>0, <2>3, AnswerFields DEF FilesystemFields
  <2>5. ReadWasSeen(content)
    BY <1>8, Zenon DEF SmallFileSeen, SmallFiles, ReadWasSeen
  <2>6. ReadReceiptIsTrue'
    <3>1. ReadWasSeen(content)'
      BY <1>8, <2>5 DEF ReadWasSeen
    <3>2. call'.receipt.payload.content = content
      BY <2>1, <2>4
    <3>3. (Succeeded => LET read == call.receipt.payload.content
                        IN  /\ call.observation # Null => call.observation.content = read
                            /\ ReadWasSeen(read))'
      BY <2>2, <2>4, <3>1, <3>2
    <3> QED  BY <3>3, WhatWasReadIsTrue, PTL
  <2>7. ReadFailureWasSeen'
    BY <2>1, <2>4 DEF ReadFailureWasSeen, Failed
  <2> QED  BY <1>8, <2>4, <2>6, <2>7 DEF FilesystemInv, FilesystemFields
<1>9. CASE SpecialGives
  <2>1. call.step = "waiting" /\ world' = world
    BY <1>9 DEF SpecialGives, Reads, At
  <2>2. CASE call' = Answer(call, ReadReceipt("read_error", Null), Null)
    BY <1>6, <2>1, <2>2
  <2>3. CASE \E content \in Contents :
               call' = Answer(call, ReadReceipt(Null, content), FileObservation(content))
    <3>1. PICK content :
            call' = Answer(call, ReadReceipt(Null, content), FileObservation(content))
      BY <2>3
    <3>2. \E i, j : \E k \in DOMAIN world :
              SmallFileSeen(i, j) /\ j <= k /\ ContentAt(world[k], "inside") = Special
      BY <2>1 DEF FilesystemInv
    <3> QED  BY <1>8, <2>1, <3>1, <3>2
  <2> QED  BY <1>9, <2>2, <2>3 DEF SpecialGives
<1>10. ASSUME call.step = "read"
       PROVE  \E i, j : \E k \in DOMAIN world : SmallFileSeen(i, j) /\ j <= k /\ FileIsOpen(call, k)
  BY <1>10 DEF FilesystemInv
<1>11. CASE ReadChunk
  <2>1. call.step = "read" /\ world' = world
    BY <1>11 DEF ReadChunk, Reads, At
  <2>2. PICK i, j : \E k \in DOMAIN world : SmallFileSeen(i, j) /\ j <= k /\ FileIsOpen(call, k)
    BY <1>10, <2>1
  <2>3. PICK k \in DOMAIN world : SmallFileSeen(i, j) /\ j <= k /\ FileIsOpen(call, k)
    BY <2>2
  <2> DEFINE at == call.file.at
  <2>4. PICK m \in MomentsOfFile :
          /\ Len(call.read) < Len(world[m][at])
          /\ call' = [call EXCEPT !.step = "read",
                                  !.read = Append(@, world[m][at][Len(@) + 1]),
                                  !.file.since = m]
    <3>1. PICK m \in MomentsOfFile :
            /\ Len(call.read) < Len(world[m][at])
            /\ call' = [call EXCEPT !.read = Append(@, world[m][at][Len(@) + 1]),
                                    !.file.since = m]
      BY <1>11 DEF ReadChunk
    <3> QED  BY <1>0, <2>1, <3>1 DEF FilesystemFields
  <2> DEFINE content == world[m][at]
             c == [call EXCEPT !.read = Append(@, content[Len(@) + 1]), !.file.since = m]
  <2>5. /\ call.file.since \in k..latest /\ m \in k..latest /\ k \in Nat
        /\ DOMAIN call.file = {"at", "since", "size"} /\ call.read \in Seq(Chunks)
    BY <1>0, <2>3 DEF MomentsOfFile, FileIsOpen
  <2>6. content \in Contents /\ content \in Seq(Chunks)
    BY FilesAreChunks DEF MomentsOfFile
  <2>7. Len(call.read) \in Nat /\ Len(call.read) + 1 \in 1..Len(content)
    BY <2>4, <2>5, <2>6
  <2> DEFINE chunk == content[Len(call.read) + 1]
  <2>8. chunk \in Chunks
    BY <2>6, <2>7
  <2>9. /\ DOMAIN c = FilesystemFields
        /\ c.read = Append(call.read, chunk) /\ c.file = [call.file EXCEPT !.since = m]
        /\ \A f \in FilesystemFields \ {"place", "file", "read"} : c[f] = call[f]
    BY <1>0 DEF FilesystemFields
  <2>10. call' = [c EXCEPT !.step = "read"]
    BY <1>0, <2>4 DEF FilesystemFields
  <2> HIDE DEF c
  <2>11. FileIsOpen(c, k)
    <3>1. /\ DOMAIN c.file = {"at", "since", "size"} /\ c.file.at = at
          /\ c.file.since = m /\ c.file.size = call.file.size
      BY <2>5, <2>9
    <3> HIDE DEF chunk
    <3>2. /\ c.read \in Seq(Chunks) /\ DOMAIN c.read = 1..(Len(call.read) + 1)
          /\ c.read[Len(call.read) + 1] = chunk
          /\ \A n \in 1..Len(call.read) : c.read[n] = call.read[n]
      BY <2>5, <2>8, <2>9
    <3>3. \A n \in DOMAIN c.read : \E o \in k..latest :
              /\ world[o][at] \in Contents
              /\ n <= Len(world[o][at]) /\ world[o][at][n] = c.read[n]
      <4> SUFFICES ASSUME NEW n \in DOMAIN c.read
                   PROVE  \E o \in k..latest :
                             /\ world[o][at] \in Contents
                             /\ n <= Len(world[o][at]) /\ world[o][at][n] = c.read[n]
        OBVIOUS
      <4>1. CASE n = Len(call.read) + 1
        BY <2>5, <2>6, <2>7, <3>2, <4>1 DEF chunk
      <4>2. CASE n # Len(call.read) + 1
        <5>1. n \in 1..Len(call.read) /\ n \in DOMAIN call.read /\ c.read[n] = call.read[n]
          BY <2>5, <2>7, <3>2, <4>2
        <5> QED  BY <2>3, <5>1 DEF FileIsOpen
      <4> QED  BY <4>1, <4>2
    <3> HIDE DEF at
    <3>4. /\ at = Location(world[k], "inside") /\ world[k][at] \in Contents
          /\ call.file.size = Len(world[k][at])
      BY <2>3 DEF FileIsOpen, at
    <3> QED  BY <2>5, <3>1, <3>2, <3>3, <3>4 DEF FileIsOpen
  <2> QED  BY <2>1, <2>3, <2>9, <2>10, <2>11, ReadGoesOn
<1>12. CASE ReadTarget
  <2>1. /\ call.step = "read" /\ world' = world
        /\ call' = Answer(call, ReadReceipt(Null, call.read), FileObservation(call.read))
    BY <1>12 DEF ReadTarget, Reads, At
  <2>2. PICK i, j : \E k \in DOMAIN world : SmallFileSeen(i, j) /\ j <= k /\ FileIsOpen(call, k)
    BY <1>10, <2>1
  <2>3. PICK k \in DOMAIN world : SmallFileSeen(i, j) /\ j <= k /\ FileIsOpen(call, k)
    BY <2>2
  <2> DEFINE at == Location(world[k], "inside")
             after == {m \in k..latest : world[m][at] \in Contents}
  <2>4. /\ call.file.at = at /\ call.file.since \in k..latest /\ call.file.size = Len(world[k][at])
        /\ k \in after /\ k \in Nat
    BY <1>0, <2>3 DEF FileIsOpen
  <2>5. \A n \in DOMAIN call.read : \E m \in after :
            n <= Len(world[m][at]) /\ world[m][at][n] = call.read[n]
    BY <2>3 DEF FileIsOpen
  <2>6. \E m \in after : Len(world[m][at]) <= Len(call.read)
    <3>1. CASE Len(call.read) = call.file.size
      BY <2>3, <2>4, <3>1 DEF FileIsOpen
    <3>2. CASE \E m \in MomentsOfFile : Len(call.read) >= Len(world[m][call.file.at])
      <4>1. PICK m \in MomentsOfFile : Len(call.read) >= Len(world[m][at])
        BY <2>4, <3>2
      <4>2. m \in after /\ world[m][at] \in Seq(Chunks) /\ call.read \in Seq(Chunks)
        BY <1>0, <2>3, <2>4, FilesAreChunks DEF MomentsOfFile, FileIsOpen
      <4> QED  BY <4>1, <4>2
    <3> QED  BY <1>12, <3>1, <3>2 DEF ReadTarget
  <2> QED  BY <1>8, <2>1, <2>3, <2>5, <2>6
<1>13. CASE ReadFails
  BY <1>6, <1>13 DEF ReadFails, Reads
<1>14. CASE DiskChanges
  <2>1. PICK part \in DOMAIN Parts : \E value \in Parts[part] \ {Disk[part]} :
            world' = Append(world, [Disk EXCEPT ![part] = value])
    BY <1>14 DEF DiskChanges
  <2>2. PICK value \in Parts[part] : world' = Append(world, [Disk EXCEPT ![part] = value])
    BY <2>1
  <2>3. [Disk EXCEPT ![part] = value] \in Disks
    <3>1. part \in {"root", "leadsTo", "inside", "outside"}
      BY DEF Parts
    <3> QED  BY <1>0, <3>1 DEF Disks, Parts
  <2>4. call' = call /\ call.step \in Awaits
    BY <1>14 DEF DiskChanges
  <2>5. /\ world' \in Seq(Disks) /\ Len(world') = latest + 1
        /\ \A i \in DOMAIN world : i \in DOMAIN world' /\ world'[i] = world[i]
    BY <2>2, <2>3 DEF FilesystemInv
  <2>6. call.receipt = Null /\ call.step # "answered"
    BY <2>4 DEF Awaits, FilesystemInv
  <2>7. ReadReceiptIsTrue' /\ ReadFailureWasSeen'
    BY <2>4, <2>6 DEF ReadReceiptIsTrue, ReadFailureWasSeen, Succeeded, Failed
  <2>8. \A i, j : SmallFileSeen(i, j) => SmallFileSeen(i, j)'
    BY <2>5 DEF SmallFileSeen
  <2>9. \A k \in DOMAIN world : FileIsOpen(call, k) => FileIsOpen(call, k)'
    <3> SUFFICES ASSUME NEW k \in DOMAIN world, FileIsOpen(call, k)
                 PROVE  FileIsOpen(call, k)'
      OBVIOUS
    <3> DEFINE at == call.file.at
    <3>1. \A m \in k..latest : m \in k..Len(world') /\ world'[m] = world[m]
      BY <1>0, <2>5
    <3>2. \A n \in DOMAIN call.read : \E m \in k..Len(world') :
              /\ world'[m][at] \in Contents
              /\ n <= Len(world'[m][at]) /\ world'[m][at][n] = call.read[n]
      BY <3>1, Zenon DEF FileIsOpen
    <3>3. k \in k..latest /\ call.file.since \in k..Len(world')
      BY <1>0, <3>1 DEF FileIsOpen
    <3> QED  BY <2>4, <3>1, <3>2, <3>3 DEF FileIsOpen
  <2>10. /\ call.step = "stat" => \E i \in DOMAIN world' : Realpath(world'[i]) = "inside"
         /\ call.step = "open" => \E i, j : SmallFileSeen(i, j)'
    BY <2>5, <2>8 DEF FilesystemInv
  <2>11. call.step = "waiting" =>
           \E i, j : \E k \in DOMAIN world' :
               SmallFileSeen(i, j)' /\ j <= k /\ ContentAt(world'[k], "inside") = Special
    BY <2>5, <2>8 DEF FilesystemInv
  <2>12. call.step = "read" =>
           \E i, j : \E k \in DOMAIN world' :
               SmallFileSeen(i, j)' /\ j <= k /\ FileIsOpen(call, k)'
    BY <2>5, <2>8, <2>9 DEF FilesystemInv
  <2> QED  BY <1>0, <2>4, <2>5, <2>6, <2>7, <2>10, <2>11, <2>12 DEF FilesystemInv
<1> QED
  BY <1>1, <1>2, <1>3, <1>4, <1>5, <1>7, <1>9, <1>11, <1>12, <1>13, <1>14 DEF FilesystemNext

\* ------------------------------------------------------------------------
\* The HTTP reader

\* Checks that found nothing all hold, when what a failing one returns is a code.
LEMMA FirstErrorNull ==
    ASSUME NEW checks, DOMAIN checks \subseteq Nat, FirstError(checks) = Null,
           \A i \in DOMAIN checks : ~checks[i][1] => checks[i][2] # Null
    PROVE  \A i \in DOMAIN checks : checks[i][1] = TRUE
BY FirstErrorIs

HttpFields == {"tool", "options", "request", "step", "receipt", "observation",
               "url", "redirects", "bytes", "timedOut"}
HttpWorld == {"hops", "response", "sent", "broken"}

\* The hops are those the redirects led over, and all of one allowed origin.
HopsAreAsked ==
    /\ \E S : world.hops \in Seq(S)
    /\ call.redirects \in Nat
    /\ call.step \in {"create", "not_created", "idle"} => world.hops = <<>> /\ call.redirects = 0
    /\ call.step \in {"fetching", "reading"} =>
          /\ Len(world.hops) = call.redirects + 1
          /\ world.hops[Len(world.hops)] = call.url
    /\ \A i \in DOMAIN world.hops :
          /\ i <= call.options.maxRedirects + 1
          /\ world.hops[i].origin = call.request.url.origin
          /\ world.hops[i].origin \in AllowedOrigins

\* What is read of is a 2xx response, and it is within the limit so far.
BodyIsAccepted ==
    /\ world.sent \in Nat /\ call.bytes \in Nat
    /\ call.step \in {"create", "not_created", "idle", "fetching"} => call.bytes = 0
    /\ call.step = "reading" =>
          /\ world.response.status \in 200..299
          /\ call.request.method # "HEAD"
          /\ call.bytes <= call.options.maxResponseBytes

HttpInv ==
    /\ DOMAIN call = HttpFields /\ DOMAIN world = HttpWorld
    /\ call.step # "answered" => call.receipt = Null
    /\ call.options.limitsValid =>
          call.options.maxRedirects \in Nat /\ call.options.maxResponseBytes \in Nat
    /\ call.step \notin {"create", "not_created"} => call.options.limitsValid
    /\ HopsAreAsked /\ BodyIsAccepted
    /\ HttpReceiptIsTrue

\* parseAdapterArgs found nothing.
LEMMA ArgsErrorNull ==
    ASSUME NEW args, ArgsError(args) = Null
    PROVE  args.url.origin \in AllowedOrigins
<1>1. ASSUME NEW url, DestinationError(url) = Null PROVE url.origin \in AllowedOrigins
  <2> DEFINE checks == <<
            <<url.origin \in AllowedOrigins, "url_not_allowed">>,
            <<call.options.allowLocalNetwork \/ url.origin \notin UnsafeOrigins, "unsafe_destination">> >>
  <2>1. DOMAIN checks = 1..2 /\ DOMAIN checks \subseteq Nat
    OBVIOUS
  <2>2. FirstError(checks) = Null
    BY <1>1 DEF DestinationError
  <2>3. \A i \in 1..2 : ~checks[i][1] => checks[i][2] # Null
    BY NullIsNoValue DEF ErrorCodes
  <2>4. \A i \in DOMAIN checks : checks[i][1] = TRUE
    <3> HIDE DEF checks
    <3> QED  BY <2>1, <2>2, <2>3, FirstErrorNull
  <2>5. checks[1][1] = TRUE
    <3> HIDE DEF checks
    <3> QED  BY <2>1, <2>4
  <2> QED  BY <2>5, Zenon
<1> DEFINE checks == <<
        <<~args.rawBody, "raw_body_not_allowed">>,
        <<args.keysKnown, "invalid_input">>,
        <<UrlError(args.url) = Null, UrlError(args.url)>>,
        <<DestinationError(args.url) = Null, DestinationError(args.url)>>,
        <<args.method \in {"GET", "HEAD"}, "invalid_method">>,
        <<HeadersError(args.headers) = Null, "unsafe_header">>,
        <<args.limitsValid, "invalid_input">> >>
<1>2. DOMAIN checks = 1..7 /\ DOMAIN checks \subseteq Nat
  OBVIOUS
<1>3. FirstError(checks) = Null
  BY DEF ArgsError
<1>4. /\ \A i \in {1, 2, 5, 6, 7} : checks[i][2] \in ErrorCodes
      /\ \A i \in {3, 4} : ~checks[i][1] => checks[i][2] # Null
  <2>1. \A i \in {1, 2, 5, 6, 7} : checks[i][2] \in ErrorCodes
    BY DEF ErrorCodes
  <2>2. (~checks[3][1] => checks[3][2] # Null) /\ (~checks[4][1] => checks[4][2] # Null)
    OBVIOUS
  <2> HIDE DEF checks
  <2> QED  BY <2>1, <2>2
<1>5. \A i \in DOMAIN checks : checks[i][1] = TRUE
  <2> HIDE DEF checks
  <2>1. \A i \in DOMAIN checks : ~checks[i][1] => checks[i][2] # Null
    BY <1>2, <1>4, NullIsNoValue
  <2> QED  BY <1>2, <1>3, <2>1, FirstErrorNull
<1>6. checks[4][1] = TRUE
  <2> HIDE DEF checks
  <2> QED  BY <1>2, <1>5
<1>7. DestinationError(args.url) = Null
  BY <1>6, Zenon
<1> QED  BY <1>1, <1>7

\* A redirect that is followed.
LEMMA RedirectErrorNull ==
    ASSUME NEW response, RedirectError(response) = Null
    PROVE  /\ call.redirects < call.options.maxRedirects
           /\ response.location.origin = call.url.origin
<1> DEFINE next == response.location
           checks == <<
            <<next # Null, "unsafe_redirect">>,
            <<call.redirects < call.options.maxRedirects, "redirect_limit_exceeded">>,
            <<next # Null /\ UrlError(next) = Null /\ next.origin = call.url.origin
                /\ DestinationError(next) = Null, "unsafe_redirect">> >>
<1>1. DOMAIN checks = 1..3 /\ DOMAIN checks \subseteq Nat
  OBVIOUS
<1>2. FirstError(checks) = Null
  BY DEF RedirectError
<1>3. \A i \in 1..3 : ~checks[i][1] => checks[i][2] # Null
  BY NullIsNoValue DEF ErrorCodes
<1>4. \A i \in DOMAIN checks : checks[i][1] = TRUE
  <2> HIDE DEF checks
  <2> QED  BY <1>1, <1>2, <1>3, FirstErrorNull
<1>5. checks[2][1] = TRUE /\ checks[3][1] = TRUE
  <2> HIDE DEF checks
  <2> QED  BY <1>1, <1>4
<1> QED  BY <1>5, Zenon

\* A response whose body is read.
LEMMA ResponseErrorNull ==
    ASSUME NEW response, ResponseError(response) = Null
    PROVE  response.status \in 200..299
<1> DEFINE checks == <<
        <<response.status \in 200..299, "non_success_status">>,
        <<call.request.method = "HEAD" \/ response.declared = Null
            \/ response.declared <= call.options.maxResponseBytes, "response_too_large">> >>
<1>1. DOMAIN checks = 1..2 /\ DOMAIN checks \subseteq Nat
  OBVIOUS
<1>2. FirstError(checks) = Null
  BY DEF ResponseError
<1>3. \A i \in 1..2 : ~checks[i][1] => checks[i][2] # Null
  BY NullIsNoValue DEF ErrorCodes
<1>4. \A i \in DOMAIN checks : checks[i][1] = TRUE
  <2> HIDE DEF checks
  <2> QED  BY <1>1, <1>2, <1>3, FirstErrorNull
<1>5. checks[1][1] = TRUE
  <2> HIDE DEF checks
  <2> QED  BY <1>1, <1>4
<1> QED  BY <1>5, Zenon

\* The observation of a 2xx response within the limit is not thrown away.
LEMMA ObservationIsMade ==
    ASSUME NEW status \in 200..299, NEW bytes \in Nat, bytes <= call.options.maxResponseBytes
    PROVE  ResponseMetadataError(status, bytes) = Null
<1> DEFINE checks == <<
        <<status \in 100..599, "invalid_response_metadata">>,
        <<bytes <= call.options.maxResponseBytes, "response_too_large">> >>
<1>1. DOMAIN checks = 1..2
  OBVIOUS
<1>2. FirstError(checks) = IF ~checks[1][1] THEN checks[1][2]
                           ELSE IF ~checks[2][1] THEN checks[2][2]
                           ELSE Null
  BY <1>1, FirstOfTwo
<1>3. status \in 100..599
  OBVIOUS
<1> QED  BY <1>2, <1>3 DEF ResponseMetadataError

\* An answer, once it is known to be of what was read.
LEMMA HttpAnswers ==
    ASSUME HttpInv, call.step \in {"idle", "fetching", "reading"}, world' = world,
           NEW receipt, NEW observation, call' = Answer(call, receipt, observation),
           receipt.status = "succeeded" =>
               LET payload == receipt.payload
                   last == world.hops[Len(world.hops)]
               IN  /\ world.response.status \in 200..299 /\ payload.statusCode = world.response.status
                   /\ payload.resource = UrlIdentity(last) /\ last.origin = call.request.url.origin
                   /\ payload.byteLength =
                         (IF call.request.method = "HEAD" THEN 0 ELSE world.response.size)
                   /\ payload.byteLength <= call.options.maxResponseBytes
                   /\ observation.subject = payload.resource
    PROVE  HttpInv' /\ call'.tool = call.tool
<1>1. /\ DOMAIN call' = HttpFields /\ call'.step = "answered" /\ call'.receipt = receipt
      /\ call'.observation = observation
      /\ \A f \in HttpFields \ {"step", "receipt", "observation"} : call'[f] = call[f]
  BY AnswerFields DEF HttpInv, HttpFields
<1>2. /\ call'.options = call.options /\ call'.request = call.request /\ call'.tool = call.tool
      /\ call'.redirects = call.redirects /\ call'.bytes = call.bytes
  BY <1>1 DEF HttpFields
<1>3. HopsAreAsked' /\ BodyIsAccepted'
  BY <1>1, <1>2 DEF HttpInv, HopsAreAsked, BodyIsAccepted, AllowedOrigins
<1>4. HttpReceiptIsTrue'
  BY <1>1, <1>2 DEF HttpReceiptIsTrue, Succeeded
<1> QED  BY <1>1, <1>2, <1>3, <1>4 DEF HttpInv

\* A call that goes on waiting for the same hop.
LEMMA HttpWaits ==
    ASSUME HttpInv, call.step \in {"fetching", "reading"},
           DOMAIN call' = HttpFields, DOMAIN world' = HttpWorld,
           \A f \in HttpFields \ {"step", "bytes", "timedOut"} : call'[f] = call[f],
           call'.step \in {"fetching", "reading"},
           world'.hops = world.hops, world'.sent \in Nat, call'.bytes \in Nat,
           call'.step = "fetching" => call'.bytes = 0,
           call'.step = "reading" =>
               /\ world'.response.status \in 200..299 /\ call.request.method # "HEAD"
               /\ call'.bytes <= call.options.maxResponseBytes
    PROVE  HttpInv' /\ call'.tool = call.tool
<1>1. /\ call'.options = call.options /\ call'.request = call.request /\ call'.tool = call.tool
      /\ call'.redirects = call.redirects /\ call'.url = call.url /\ call'.receipt = call.receipt
  BY DEF HttpFields
<1>2. call.receipt = Null
  BY DEF HttpInv
<1>3. HopsAreAsked'
  BY <1>1 DEF HttpInv, HopsAreAsked, AllowedOrigins
<1>4. BodyIsAccepted'
  BY <1>1 DEF HttpInv, BodyIsAccepted
<1>5. HttpReceiptIsTrue'
  BY <1>1, <1>2 DEF HttpReceiptIsTrue, Succeeded
<1> QED  BY <1>1, <1>2, <1>3, <1>4, <1>5 DEF HttpInv

\* The answer that fetchHashOnly's success becomes.
LEMMA HttpObserves ==
    ASSUME HttpInv, call.step \in {"fetching", "reading"}, world' = world,
           world.response.status \in 200..299, NEW bytes \in Nat,
           bytes <= call.options.maxResponseBytes,
           bytes = (IF call.request.method = "HEAD" THEN 0 ELSE world.response.size),
           call' = HttpObserved(call, world.response.status, bytes)
    PROVE  HttpInv' /\ call'.tool = call.tool
<1> DEFINE status == world.response.status
           receipt == HttpReceipt(call, status, bytes)
           observation == HttpObservationOf(call, status, bytes)
<1>1. call' = Answer(call, receipt, observation)
  BY ObservationIsMade DEF HttpObserved
<1>2. /\ receipt.payload.statusCode = status /\ receipt.payload.resource = UrlIdentity(call.url)
      /\ receipt.payload.byteLength = bytes /\ observation.subject = UrlIdentity(call.url)
  BY DEF HttpReceipt, HttpObservationOf
<1>3. /\ Len(world.hops) \in DOMAIN world.hops
      /\ world.hops[Len(world.hops)] = call.url
  BY DEF HttpInv, HopsAreAsked
<1>4. call.url.origin = call.request.url.origin
  BY <1>3 DEF HttpInv, HopsAreAsked
<1> HIDE DEF receipt, observation
<1> QED  BY <1>1, <1>2, <1>3, <1>4, HttpAnswers

LEMMA HttpSteps ==
    ASSUME HttpInv, call.tool = "http", HttpNext
    PROVE  HttpInv' /\ call'.tool = call.tool
<1>0. DOMAIN call = HttpFields /\ DOMAIN world = HttpWorld /\ world.sent \in Nat /\ call.bytes \in Nat
  BY DEF HttpInv, BodyIsAccepted
<1>1. CASE CreateHttpReadonlyObservationAdapter
  <2> DEFINE valid == /\ call.options.allowedOrigins # {}
                      /\ \A url \in call.options.allowedOrigins :
                            UrlError(url) = Null /\ url.path = "/" /\ url.query = <<>>
                      /\ call.options.limitsValid
  <2>1. /\ call.step = "create" /\ world' = world
        /\ call' = [call EXCEPT !.step = IF valid THEN "idle" ELSE "not_created"]
    BY <1>1 DEF CreateHttpReadonlyObservationAdapter, Created
  <2>2. valid => call.options.limitsValid
    OBVIOUS
  <2> HIDE DEF valid
  <2>3. /\ DOMAIN call' = HttpFields
        /\ \A f \in HttpFields \ {"step"} : call'[f] = call[f]
        /\ call'.step \in {"idle", "not_created"}
        /\ call'.step = "idle" => valid
    BY <1>0, <2>1 DEF HttpFields
  <2>4. /\ call'.options = call.options /\ call'.request = call.request /\ call'.tool = call.tool
        /\ call'.redirects = call.redirects /\ call'.bytes = call.bytes
        /\ call'.receipt = call.receipt
    BY <2>3 DEF HttpFields
  <2>5. call.receipt = Null
    BY <2>1 DEF HttpInv
  <2>6. HopsAreAsked' /\ BodyIsAccepted'
    BY <2>1, <2>3, <2>4 DEF HttpInv, HopsAreAsked, BodyIsAccepted, AllowedOrigins
  <2>7. HttpReceiptIsTrue'
    BY <2>3, <2>4, <2>5 DEF HttpReceiptIsTrue, Succeeded
  <2> QED  BY <1>0, <2>1, <2>2, <2>3, <2>4, <2>5, <2>6, <2>7 DEF HttpInv
<1>2. ASSUME NEW url, \/ call' = Fetching(call, url)
                       \/ call' = [Fetching(call, url) EXCEPT !.redirects = @ + 1],
             world' = Asked(url), call.step \in {"idle", "fetching"},
             Len(world.hops) = call'.redirects, call'.redirects \in Nat,
             call'.redirects <= call.options.maxRedirects,
             url.origin = call.request.url.origin, url.origin \in AllowedOrigins
      PROVE  HttpInv' /\ call'.tool = call.tool
  <2>1. /\ DOMAIN call' = HttpFields /\ call'.step = "fetching" /\ call'.url = url
        /\ \A f \in HttpFields \ {"step", "url", "timedOut", "redirects"} : call'[f] = call[f]
    BY <1>0, <1>2 DEF Fetching, HttpFields
  <2>2. /\ DOMAIN world' = HttpWorld /\ world'.sent = 0 /\ world'.hops = Append(world.hops, url)
    BY <1>2 DEF Asked, HttpWorld
  <2>3. /\ call'.options = call.options /\ call'.request = call.request /\ call'.tool = call.tool
        /\ call'.bytes = call.bytes /\ call'.receipt = call.receipt
    BY <2>1 DEF HttpFields
  <2>4. PICK S : world.hops \in Seq(S)
    BY DEF HttpInv, HopsAreAsked
  <2>5. /\ world'.hops \in Seq(S \cup {url}) /\ Len(world'.hops) = Len(world.hops) + 1
        /\ DOMAIN world'.hops = 1..(Len(world.hops) + 1)
        /\ world'.hops[Len(world.hops) + 1] = url
        /\ \A i \in DOMAIN world.hops : world'.hops[i] = world.hops[i]
        /\ DOMAIN world.hops = 1..Len(world.hops) /\ Len(world.hops) \in Nat
    BY <2>2, <2>4
  <2>6. call.options.maxRedirects \in Nat
    BY <1>2 DEF HttpInv
  <2>7. ASSUME NEW i \in DOMAIN world'.hops
        PROVE  /\ i <= call.options.maxRedirects + 1
               /\ world'.hops[i].origin = call.request.url.origin
               /\ world'.hops[i].origin \in AllowedOrigins
    <3>1. CASE i = Len(world.hops) + 1
      BY <1>2, <2>5, <2>6, <3>1
    <3>2. CASE i # Len(world.hops) + 1
      <4>1. i \in DOMAIN world.hops
        BY <2>5, <3>2
      <4> QED  BY <2>5, <4>1 DEF HttpInv, HopsAreAsked
    <3> QED  BY <3>1, <3>2
  <2>8. HopsAreAsked'
    <3>1. \E T : world'.hops \in Seq(T)
      BY <2>5
    <3>2. AllowedOrigins' = AllowedOrigins
      BY <2>3 DEF AllowedOrigins
    <3>3. Len(world'.hops) = call'.redirects + 1 /\ world'.hops[Len(world'.hops)] = call'.url
      BY <1>2, <2>1, <2>5
    <3> QED  BY <1>2, <2>1, <2>3, <2>7, <3>1, <3>2, <3>3 DEF HopsAreAsked
  <2>9. BodyIsAccepted' /\ call.receipt = Null
    BY <1>2, <2>1, <2>2, <2>3 DEF HttpInv, BodyIsAccepted
  <2>10. HttpReceiptIsTrue'
    BY <2>1, <2>3, <2>9 DEF HttpReceiptIsTrue, Succeeded
  <2> QED  BY <1>2, <2>1, <2>2, <2>3, <2>8, <2>9, <2>10 DEF HttpInv
<1>3. ASSUME NEW receipt, receipt.status = "failed", world' = world,
             call' = Answer(call, receipt, Null), call.step \in {"idle", "fetching", "reading"}
      PROVE  HttpInv' /\ call'.tool = call.tool
  BY <1>3, HttpAnswers
<1>4. ASSUME NEW reason, NEW status, world' = world, call' = HttpFailed(call, reason, status),
             call.step \in {"fetching", "reading"}
      PROVE  HttpInv' /\ call'.tool = call.tool
  BY <1>3, <1>4 DEF HttpFailed
<1>5. CASE ExecuteHttp
  <2> DEFINE args == call.request
             error == ArgsError(args)
  <2>1. /\ call.step = "idle"
        /\ IF error # Null
           THEN call' = ArgsRefused(call, error) /\ world' = world
           ELSE call' = Fetching(call, args.url) /\ world' = Asked(args.url)
    BY <1>5 DEF ExecuteHttp, At
  <2>2. CASE error # Null
    BY <1>3, <2>1, <2>2 DEF ArgsRefused
  <2>3. CASE error = Null
    <3>1. /\ args.url.origin \in AllowedOrigins /\ call' = Fetching(call, args.url)
          /\ world' = Asked(args.url)
      BY <2>1, <2>3, ArgsErrorNull
    <3>2. /\ world.hops = <<>> /\ call.redirects = 0 /\ call.options.maxRedirects \in Nat
      BY <2>1 DEF HttpInv, HopsAreAsked
    <3>3. call'.redirects = call.redirects
      BY <1>0, <3>1 DEF Fetching, HttpFields
    <3>4. /\ Len(world.hops) = call'.redirects /\ call'.redirects \in Nat
          /\ call'.redirects <= call.options.maxRedirects
      BY <3>2, <3>3
    <3>5. call.step \in {"idle", "fetching"} /\ args.url.origin = call.request.url.origin
      BY <2>1
    <3> HIDE DEF error, args
    <3> QED  BY <1>2, <3>1, <3>4, <3>5
  <2> QED  BY <2>2, <2>3
<1>6. CASE ResponseArrives
  <2> DEFINE response == world.response
  <2>1. call.step = "fetching" /\ response # Null
    BY <1>6 DEF ResponseArrives, At
  <2>2. CASE IsRedirect(response)
    <3>1. IF RedirectError(response) # Null
          THEN call' = HttpFailed(call, RedirectError(response), response.status) /\ world' = world
          ELSE /\ call' = [Fetching(call, response.location) EXCEPT !.redirects = @ + 1]
               /\ world' = Asked(response.location)
      BY <1>6, <2>2 DEF ResponseArrives
    <3>2. CASE RedirectError(response) # Null
      BY <1>4, <2>1, <3>1, <3>2
    <3>3. CASE RedirectError(response) = Null
      <4>1. /\ call.redirects < call.options.maxRedirects
            /\ response.location.origin = call.url.origin
        BY <3>3, RedirectErrorNull
      <4>2. /\ Len(world.hops) = call.redirects + 1 /\ Len(world.hops) \in DOMAIN world.hops
            /\ world.hops[Len(world.hops)] = call.url /\ call.redirects \in Nat
        BY <2>1 DEF HttpInv, HopsAreAsked
      <4>3. call.url.origin = call.request.url.origin /\ call.url.origin \in AllowedOrigins
        BY <4>2 DEF HttpInv, HopsAreAsked
      <4>4. call.options.maxRedirects \in Nat
        BY <2>1 DEF HttpInv
      <4>5. call'.redirects = call.redirects + 1
        BY <1>0, <3>1, <3>3 DEF Fetching, HttpFields
      <4> QED  BY <1>2, <2>1, <3>1, <3>3, <4>1, <4>2, <4>3, <4>4, <4>5
    <3> QED  BY <3>2, <3>3
  <2>3. CASE ~IsRedirect(response)
    <3>1. /\ world' = world
          /\ call' = IF ResponseError(response) # Null
                     THEN HttpFailed(call, ResponseError(response), response.status)
                     ELSE IF call.request.method = "HEAD"
                     THEN HttpObserved(call, response.status, 0)
                     ELSE [call EXCEPT !.step = "reading"]
      BY <1>6, <2>3 DEF ResponseArrives
    <3>2. CASE ResponseError(response) # Null
      BY <1>4, <2>1, <3>1, <3>2
    <3>3. ASSUME ResponseError(response) = Null
          PROVE  response.status \in 200..299 /\ call.options.maxResponseBytes \in Nat /\ call.bytes = 0
      BY <2>1, <3>3, ResponseErrorNull DEF HttpInv, BodyIsAccepted
    <3>4. CASE ResponseError(response) = Null /\ call.request.method = "HEAD"
      <4>1. call' = HttpObserved(call, world.response.status, 0)
        BY <3>1, <3>4
      <4> QED  BY <2>1, <3>1, <3>3, <3>4, <4>1, HttpObserves
    <3>5. CASE ResponseError(response) = Null /\ call.request.method # "HEAD"
      <4>1. /\ DOMAIN call' = HttpFields /\ call'.step = "reading" /\ call'.bytes = call.bytes
            /\ \A f \in HttpFields \ {"step"} : call'[f] = call[f]
        BY <1>0, <3>1, <3>5 DEF HttpFields
      <4> QED  BY <1>0, <2>1, <3>1, <3>3, <3>5, <4>1, HttpWaits
    <3> QED  BY <3>2, <3>4, <3>5
  <2> QED  BY <2>2, <2>3
<1>7. ASSUME call.step = "reading"
      PROVE  /\ world.response.status \in 200..299 /\ call.request.method # "HEAD"
             /\ call.bytes <= call.options.maxResponseBytes
             /\ call.options.maxResponseBytes \in Nat
  BY <1>7 DEF HttpInv, BodyIsAccepted
<1>8. CASE ChunkArrives
  <2>1. PICK bytes \in 1..(world.sent - call.bytes) :
          call' = IF call.bytes + bytes > call.options.maxResponseBytes
                  THEN HttpFailed(call, "response_too_large", world.response.status)
                  ELSE [call EXCEPT !.bytes = @ + bytes]
    BY <1>8 DEF ChunkArrives
  <2>2. call.step = "reading" /\ world' = world
    BY <1>8 DEF ChunkArrives, At
  <2>3. CASE call.bytes + bytes > call.options.maxResponseBytes
    BY <1>4, <2>1, <2>2, <2>3
  <2>4. CASE ~(call.bytes + bytes > call.options.maxResponseBytes)
    <3>1. /\ DOMAIN call' = HttpFields /\ call'.bytes = call.bytes + bytes
          /\ \A f \in HttpFields \ {"bytes"} : call'[f] = call[f]
      BY <1>0, <2>1, <2>4 DEF HttpFields
    <3>2. call'.bytes \in Nat /\ call'.bytes <= call.options.maxResponseBytes
      BY <1>0, <1>7, <2>2, <2>4, <3>1
    <3>3. call'.step = "reading"
      BY <2>2, <3>1 DEF HttpFields
    <3> QED  BY <1>0, <1>7, <2>2, <3>1, <3>2, <3>3, HttpWaits
  <2> QED  BY <2>3, <2>4
<1>9. CASE BodyEnds
  <2>1. /\ call.step = "reading" /\ world' = world /\ call.bytes = world.response.size
        /\ call' = HttpObserved(call, world.response.status, call.bytes)
    BY <1>9 DEF BodyEnds, At
  <2> QED  BY <1>0, <1>7, <2>1, HttpObserves
<1>10. ASSUME call.step \in {"fetching", "reading"}, DOMAIN call' = HttpFields,
              DOMAIN world' = HttpWorld, \A f \in HttpFields \ {"timedOut"} : call'[f] = call[f],
              world'.hops = world.hops, world'.sent \in Nat,
              call.step = "reading" => world'.response = world.response
       PROVE  HttpInv' /\ call'.tool = call.tool
  <2>1. call'.step = call.step /\ call'.bytes = call.bytes
    BY <1>10 DEF HttpFields
  <2>2. call.step = "fetching" => call.bytes = 0
    BY DEF HttpInv, BodyIsAccepted
  <2> QED  BY <1>0, <1>7, <1>10, <2>1, <2>2, HttpWaits
<1>11. CASE TimeoutFires
  <2>1. /\ call.step \in {"fetching", "reading"} /\ world' = world
        /\ call' = [call EXCEPT !.timedOut = TRUE]
    BY <1>11 DEF TimeoutFires
  <2>2. /\ DOMAIN call' = HttpFields
        /\ \A f \in HttpFields \ {"timedOut"} : call'[f] = call[f]
    BY <1>0, <2>1 DEF HttpFields
  <2> QED  BY <1>0, <1>10, <2>1, <2>2
<1>12. CASE Rejected
  <2>1. call.step \in {"fetching", "reading"} /\ world' = world /\ call' = Caught(call)
    BY <1>12 DEF Rejected
  <2> QED  BY <1>4, <2>1 DEF Caught
<1>13. CASE ServerResponds
  <2>1. /\ call.step = "fetching" /\ call' = call
        /\ \E response \in Responses : world' = [world EXCEPT !.response = response]
    BY <1>13 DEF ServerResponds, At
  <2>2. /\ DOMAIN world' = HttpWorld /\ world'.hops = world.hops /\ world'.sent = world.sent
    BY <1>0, <2>1 DEF HttpWorld
  <2> QED  BY <1>0, <1>10, <2>1, <2>2
<1>14. CASE ServerSends
  <2>1. call.step = "reading" /\ call' = call /\ world' = [world EXCEPT !.sent = @ + 1]
    BY <1>14 DEF ServerSends, At
  <2>2. /\ DOMAIN world' = HttpWorld /\ world'.hops = world.hops /\ world'.sent = world.sent + 1
        /\ world'.response = world.response
    BY <1>0, <2>1 DEF HttpWorld
  <2>3. world'.sent \in Nat
    BY <1>0, <2>2
  <2> QED  BY <1>0, <1>10, <2>1, <2>2, <2>3
<1>15. CASE ConnectionBreaks
  <2>1. /\ call.step \in {"fetching", "reading"} /\ call' = call
        /\ world' = [world EXCEPT !.broken = TRUE]
    BY <1>15 DEF ConnectionBreaks
  <2>2. /\ DOMAIN world' = HttpWorld /\ world'.hops = world.hops /\ world'.sent = world.sent
        /\ world'.response = world.response
    BY <1>0, <2>1 DEF HttpWorld
  <2> QED  BY <1>0, <1>10, <2>1, <2>2
<1> QED
  BY <1>1, <1>5, <1>6, <1>8, <1>9, <1>11, <1>12, <1>13, <1>14, <1>15 DEF HttpNext

\* ------------------------------------------------------------------------
\* GitHub REST

GithubFields == {"tool", "options", "request", "step", "receipt", "observation"}
GithubWorld == {"sent", "done", "answer", "body"}

\* Nothing is done before it is asked for, and what the server answers is so.
AnswersAreTrue ==
    /\ world.done \in BOOLEAN
    /\ call.step \in {"create", "not_created", "idle"} => ~world.done /\ world.answer = Null
    /\ call.step = "reading" => world.answer \notin {Null, Lost} /\ call.request.method # "HEAD"
    /\ world.answer \notin {Null, Lost} =>
          /\ world.answer.status \in 200..599
          /\ world.answer.status \in 200..299 => world.done
          /\ world.answer.status \in 400..499 => ~world.done

\* A write waits for the answer to what was sent with the broker's key.
KeyIsSent ==
    (call.step \in {"fetching", "reading"} /\ call.options.mode = "write") =>
        world.sent["idempotency-key"] = call.request.idempotencyKey

GithubInv ==
    /\ DOMAIN call = GithubFields /\ DOMAIN world = GithubWorld
    /\ call.step # "answered" => call.receipt = Null
    /\ DOMAIN call.options.scopes \subseteq Nat
    /\ AnswersAreTrue /\ KeyIsSent
    /\ GithubReceiptIsTrue /\ GithubSendsInScope

\* parseScopedUrl found nothing.
LEMMA ScopedUrlErrorNull ==
    ASSUME NEW args, ScopedUrlError(args) = Null
    PROVE  \E i \in DOMAIN call.options.allowedBases :
              ScopedUrl(args).host = call.options.allowedBases[i].host
<1> DEFINE url == ScopedUrl(args)
           allowed == \E i \in DOMAIN call.options.allowedBases :
                  LET base == call.options.allowedBases[i]
                  IN  url.host = base.host /\ IsPrefix(base.path, url.path)
           checks == <<
            <<Cardinality(args.given) = 1, "invalid_url">>,
            <<args.given = {"path"} => "relative" \notin url.faults, "invalid_url">>,
            <<UrlError(url) = Null, UrlError(url)>>,
            <<allowed, "base_url_not_allowed">> >>
<1> HIDE DEF allowed, url
<1>1. DOMAIN checks = 1..4 /\ DOMAIN checks \subseteq Nat
  OBVIOUS
<1>2. FirstError(checks) = Null
  BY DEF ScopedUrlError, allowed, url
<1>3. \A i \in 1..4 : ~checks[i][1] => checks[i][2] # Null
  <2>1. \A i \in {1, 2, 4} : checks[i][2] \in ErrorCodes
    BY DEF ErrorCodes
  <2>2. ~checks[3][1] => checks[3][2] # Null
    OBVIOUS
  <2> HIDE DEF checks
  <2> QED  BY <2>1, <2>2, NullIsNoValue
<1>4. \A i \in DOMAIN checks : checks[i][1] = TRUE
  <2> HIDE DEF checks
  <2> QED  BY <1>1, <1>2, <1>3, FirstErrorNull
<1>5. checks[4][1] = TRUE
  <2> HIDE DEF checks
  <2> QED  BY <1>1, <1>4
<1>6. allowed
  BY <1>5, Zenon
<1> QED  BY <1>6 DEF allowed, url

\* assertCreatePullRequestBranchScope found nothing.
LEMMA BranchErrorNull ==
    ASSUME NEW scope, NEW args, BranchError(scope, args) = Null
    PROVE  args.body.base \in scope.baseBranches /\ args.body.head \in scope.headBranches
<1> DEFINE base == RequestBranch(args.body, "base")
           head == RequestBranch(args.body, "head")
           scoped == Null \notin {scope.baseBranches, scope.headBranches}
           inScope == base \in scope.baseBranches /\ head \in scope.headBranches
           checks == <<
            <<scoped, "branch_scope_required">>,
            <<Null \notin {base, head}, "branch_scope_required">>,
            <<scoped => inScope, "branch_not_allowed">> >>
<1> HIDE DEF scoped, base, head, inScope
<1>1. DOMAIN checks = 1..3 /\ DOMAIN checks \subseteq Nat
  OBVIOUS
<1>2. FirstError(checks) = Null
  BY DEF BranchError, scoped, base, head, inScope
<1>3. \A i \in 1..3 : ~checks[i][1] => checks[i][2] # Null
  BY NullIsNoValue DEF ErrorCodes
<1>4. \A i \in DOMAIN checks : checks[i][1] = TRUE
  <2> HIDE DEF checks
  <2> QED  BY <1>1, <1>2, <1>3, FirstErrorNull
<1>5. checks[1][1] = TRUE /\ checks[2][1] = TRUE /\ checks[3][1] = TRUE
  <2> HIDE DEF checks
  <2> QED  BY <1>1, <1>4
<1>6. scoped /\ Null \notin {base, head} /\ (scoped => inScope)
  BY <1>5, Zenon
<1>7. base = args.body.base /\ head = args.body.head
  BY <1>6 DEF base, head, RequestBranch
<1> QED  BY <1>6, <1>7 DEF inScope

\* validateGithubResourceScope found nothing.
LEMMA ScopeErrorNull ==
    ASSUME NEW owner, NEW repo, NEW operation, NEW args,
           DOMAIN call.options.scopes \subseteq Nat,
           ScopeError(owner, repo, operation, args) = Null
    PROVE  \E i \in DOMAIN call.options.scopes :
              LET scope == call.options.scopes[i]
              IN  /\ scope.owner = owner /\ scope.repo = repo
                  /\ operation \in scope.allowedOperations
                  /\ operation = "create_pull_request" =>
                        args.body.base \in scope.baseBranches /\ args.body.head \in scope.headBranches
<1> DEFINE scopes == call.options.scopes
           ofOwner == {i \in DOMAIN scopes : scopes[i].owner = owner}
           ofRepo == {i \in ofOwner : scopes[i].repo = repo}
           allowing == {i \in ofRepo : operation \in scopes[i].allowedOperations}
           first == CHOOSE i \in allowing : \A j \in allowing : i <= j
<1>1. \A i \in allowing : /\ i \in DOMAIN scopes /\ i \in Nat
                          /\ scopes[i].owner = owner /\ scopes[i].repo = repo
                          /\ operation \in scopes[i].allowedOperations
  OBVIOUS
<1>2. "owner_not_allowed" # Null /\ "repo_not_allowed" # Null /\ "endpoint_not_allowed" # Null
  BY NullIsNoValue DEF ErrorCodes
<1>3. /\ allowing # {}
      /\ operation = "create_pull_request" => BranchError(scopes[first], args) = Null
  <2>1. ScopeError(owner, repo, operation, args)
          = IF ofOwner = {} THEN "owner_not_allowed"
            ELSE IF ofRepo = {} THEN "repo_not_allowed"
            ELSE IF allowing = {} THEN "endpoint_not_allowed"
            ELSE IF operation = "create_pull_request" THEN BranchError(scopes[first], args)
            ELSE Null
    BY DEF ScopeError
  <2> HIDE DEF ofOwner, ofRepo, allowing, first
  <2> QED  BY <1>2, <2>1
<1>4. first \in allowing
  <2>1. allowing \subseteq Nat
    BY <1>1
  <2> HIDE DEF allowing
  <2> QED  BY <1>3, <2>1, LeastOf
<1>5. operation = "create_pull_request" =>
         args.body.base \in scopes[first].baseBranches /\ args.body.head \in scopes[first].headBranches
  <2> HIDE DEF first
  <2> QED  BY <1>3, BranchErrorNull
<1> HIDE DEF first, allowing
<1> QED  BY <1>1, <1>4, <1>5

\* parseArgs found nothing.
LEMMA GithubArgsErrorNull ==
    ASSUME NEW args, DOMAIN call.options.scopes \subseteq Nat, GithubArgsError(args) = Null
    PROVE  LET url == ScopedUrl(args)
           IN  /\ ScopedUrlError(args) = Null
               /\ ScopeError(url.path[2], url.path[3], OperationOf(url.path, args.method), args) = Null
<1> DEFINE url == ScopedUrl(args)
           segments == url.path
           operation == OperationOf(segments, args.method)
           checks == <<
            <<args.keysKnown, "invalid_input">>,
            <<args.method \in Methods, "invalid_method">>,
            <<ScopedUrlError(args) = Null, ScopedUrlError(args)>>,
            <<HeadersError(args.headers) = Null, "unsafe_header">>,
            <<BodyError(args) = Null, "invalid_body">>,
            <<SegmentsError(url) = Null, "invalid_url">>,
            <<operation # Null, "endpoint_not_allowed">> >>
           error == FirstError(checks)
           scopeError == IF error # Null THEN error
                         ELSE ScopeError(segments[2], segments[3], operation, args)
<1>1. GithubArgsError(args) = IF scopeError # Null THEN scopeError
                              ELSE IF args.limitsValid THEN Null ELSE "invalid_input"
  BY DEF GithubArgsError
<1>2. error = Null /\ ScopeError(segments[2], segments[3], operation, args) = Null
  <2> HIDE DEF error
  <2> QED  BY <1>1
<1> HIDE DEF url, operation
<1>3. DOMAIN checks = 1..7 /\ DOMAIN checks \subseteq Nat
  OBVIOUS
<1>4. \A i \in DOMAIN checks : ~checks[i][1] => checks[i][2] # Null
  <2>1. \A i \in {1, 2, 4, 5, 6, 7} : checks[i][2] \in ErrorCodes
    BY DEF ErrorCodes
  <2>2. ~checks[3][1] => checks[3][2] # Null
    OBVIOUS
  <2> HIDE DEF checks
  <2> QED  BY <1>3, <2>1, <2>2, NullIsNoValue
<1>5. \A i \in DOMAIN checks : checks[i][1] = TRUE
  <2>1. FirstError(checks) = Null
    BY <1>2
  <2> HIDE DEF checks
  <2> QED  BY <1>3, <1>4, <2>1, FirstErrorNull
<1>6. checks[3][1] = TRUE
  <2> HIDE DEF checks
  <2> QED  BY <1>3, <1>5
<1>7. ScopedUrlError(args) = Null
  BY <1>6, Zenon
<1> QED  BY <1>2, <1>7 DEF url, operation

\* execute sends a request.
LEMMA GithubRefusalNull ==
    ASSUME NEW args, GithubRefusal(args) = Null
    PROVE  /\ GithubArgsError(args) = Null
           /\ call.options.mode = "write" => args.idempotencyKey # Null /\ call.options.token # Null
<1> DEFINE write == call.options.mode = "write"
           keyed == write => args.idempotencyKey # Null
           tokened == write => call.options.token # Null
           checks == <<
            <<args.forThisTool, "capability_scope_mismatch">>,
            <<GithubArgsError(args) = Null, GithubArgsError(args)>>,
            <<keyed, "missing_idempotency_key">>,
            <<tokened, "missing_token">> >>
<1> HIDE DEF keyed, tokened
<1>1. DOMAIN checks = 1..4 /\ DOMAIN checks \subseteq Nat
  OBVIOUS
<1>2. FirstError(checks) = Null
  BY DEF GithubRefusal, keyed, tokened
<1>3. \A i \in 1..4 : ~checks[i][1] => checks[i][2] # Null
  <2>1. \A i \in {1, 3, 4} : checks[i][2] \in ErrorCodes
    BY DEF ErrorCodes
  <2>2. ~checks[2][1] => checks[2][2] # Null
    OBVIOUS
  <2> HIDE DEF checks
  <2> QED  BY <2>1, <2>2, NullIsNoValue
<1>4. \A i \in DOMAIN checks : checks[i][1] = TRUE
  <2> HIDE DEF checks
  <2> QED  BY <1>1, <1>2, <1>3, FirstErrorNull
<1>5. checks[2][1] = TRUE /\ checks[3][1] = TRUE /\ checks[4][1] = TRUE
  <2> HIDE DEF checks
  <2> QED  BY <1>1, <1>4
<1>6. GithubArgsError(args) = Null /\ keyed /\ tokened
  BY <1>5, Zenon
<1> QED  BY <1>6 DEF keyed, tokened

\* What is set last is what is sent.
LEMMA OverIs ==
    ASSUME NEW f, NEW g, NEW key
    PROVE  /\ key \in DOMAIN f => key \in DOMAIN Over(f, g) /\ Over(f, g)[key] = f[key]
           /\ key \notin DOMAIN f /\ key \in DOMAIN g =>
                 key \in DOMAIN Over(f, g) /\ Over(f, g)[key] = g[key]
BY DEF Over

LEMMA HeaderIs ==
    ASSUME NEW name, NEW value
    PROVE  /\ DOMAIN Header(name, value) \subseteq {name}
           /\ value # Null => name \in DOMAIN Header(name, value) /\ Header(name, value)[name] = value
<1>1. CASE value = Null
  <2>1. DOMAIN <<>> = {}
    OBVIOUS
  <2> QED  BY <1>1, <2>1 DEF Header
<1>2. CASE value # Null
  BY <1>2 DEF Header
<1> QED  BY <1>1, <1>2

LEMMA HeadersAreSent ==
    ASSUME NEW args, call.options.mode = "write", args.idempotencyKey # Null, call.options.token # Null
    PROVE  /\ RequestHeadersForFetch(args)["idempotency-key"] = args.idempotencyKey
           /\ RequestHeadersForFetch(args)["authorization"] = call.options.token
<1> DEFINE key == Header("idempotency-key", args.idempotencyKey)
           token == Header("authorization", call.options.token)
           rest == Over(Header("content-type", IF args.body = Null THEN Null ELSE "json"),
                   Over(args.headers, Header("accept", "github json")))
<1>1. RequestHeadersForFetch(args) = Over(key, Over(token, rest))
  BY DEF RequestHeadersForFetch
<1>2. /\ DOMAIN key \subseteq {"idempotency-key"} /\ "idempotency-key" \in DOMAIN key
      /\ key["idempotency-key"] = args.idempotencyKey
  BY HeaderIs
<1>3. "authorization" \in DOMAIN token /\ token["authorization"] = call.options.token
  BY HeaderIs
<1> HIDE DEF key, token, rest
<1>4. /\ "authorization" \in DOMAIN Over(token, rest)
      /\ Over(token, rest)["authorization"] = call.options.token
  BY <1>3, OverIs
<1>5. "authorization" \notin DOMAIN key
  BY <1>2
<1>6. Over(key, Over(token, rest))["idempotency-key"] = args.idempotencyKey
  BY <1>2, OverIs
<1>7. Over(key, Over(token, rest))["authorization"] = call.options.token
  BY <1>4, <1>5, OverIs
<1> QED  BY <1>1, <1>6, <1>7

\* A call that fails before its answer is in, or ends with it.
LEMMA GithubAnswersTruly ==
    ASSUME GithubInv, call.tool = "github", call.step \in {"idle", "fetching", "reading"},
           world' = world, NEW receipt, NEW observation,
           call' = Answer(call, receipt, observation),
           call.options.mode = "write" /\ receipt.status = "failed" => ~world.done,
           receipt.status = "succeeded" =>
              /\ receipt.payload.statusCode = world.answer.status
              /\ receipt.payload.byteLength =
                    (IF call.request.method = "HEAD" THEN 0 ELSE world.answer.size)
              /\ call.options.mode = "write" =>
                    /\ world.done \/ receipt.payload.statusCode \in 300..399
                    /\ receipt.payload.idempotencyKey = world.sent["idempotency-key"]
    PROVE  GithubInv' /\ call'.tool = call.tool
<1>1. /\ DOMAIN call' = GithubFields /\ call'.step = "answered" /\ call'.receipt = receipt
      /\ \A f \in GithubFields \ {"step", "receipt", "observation"} : call'[f] = call[f]
  BY AnswerFields DEF GithubInv, GithubFields
<1>2. /\ call'.options = call.options /\ call'.request = call.request /\ call'.tool = call.tool
  BY <1>1 DEF GithubFields
<1>3. AnswersAreTrue' /\ KeyIsSent'
  BY <1>1, <1>2 DEF GithubInv, AnswersAreTrue, KeyIsSent
<1>4. GithubReceiptIsTrue'
  BY <1>1, <1>2 DEF GithubReceiptIsTrue, Succeeded, Failed
<1>5. GithubSendsInScope'
  <2>1. ScopedUrl(call.request)' = ScopedUrl(call.request)
    BY <1>2 DEF ScopedUrl
  <2> QED  BY <1>2, <2>1 DEF GithubInv, GithubSendsInScope
<1> QED  BY <1>1, <1>2, <1>3, <1>4, <1>5 DEF GithubInv

\* A call that waits, or throws, with nothing new sent.
LEMMA GithubGoesOn ==
    ASSUME GithubInv, DOMAIN call' = GithubFields, DOMAIN world' = GithubWorld,
           \A f \in GithubFields \ {"step"} : call'[f] = call[f],
           call.step # "answered", call'.step # "answered", world'.sent = world.sent,
           call'.step \in {"fetching", "reading"} => call.step \in {"fetching", "reading"},
           AnswersAreTrue'
    PROVE  GithubInv' /\ call'.tool = call.tool
<1>1. /\ call'.options = call.options /\ call'.request = call.request /\ call'.tool = call.tool
      /\ call'.receipt = call.receipt /\ call.receipt = Null
  BY DEF GithubFields, GithubInv
<1>2. KeyIsSent'
  BY <1>1 DEF GithubInv, KeyIsSent
<1>3. GithubReceiptIsTrue'
  BY <1>1 DEF GithubReceiptIsTrue
<1>4. GithubSendsInScope'
  <2>1. ScopedUrl(call.request)' = ScopedUrl(call.request)
    BY <1>1 DEF ScopedUrl
  <2> QED  BY <1>1, <2>1 DEF GithubInv, GithubSendsInScope
<1> QED  BY <1>1, <1>2, <1>3, <1>4 DEF GithubInv

\* A request that is sent.
LEMMA GithubAsks ==
    ASSUME GithubInv, call.tool = "github", call.step = "idle", GithubRefusal(call.request) = Null,
           call' = [call EXCEPT !.step = "fetching"],
           world' = [world EXCEPT !.sent = RequestHeadersForFetch(call.request)]
    PROVE  GithubInv' /\ call'.tool = call.tool
<1> DEFINE args == call.request
           url == ScopedUrl(args)
           headers == RequestHeadersForFetch(args)
<1>1. /\ DOMAIN call' = GithubFields /\ call'.step = "fetching"
      /\ call'.options = call.options /\ call'.request = call.request /\ call'.tool = call.tool
      /\ call'.receipt = call.receipt /\ call.receipt = Null
  BY DEF GithubInv, GithubFields
<1>2. /\ DOMAIN world' = GithubWorld /\ world'.sent = headers
      /\ world'.done = world.done /\ world'.answer = world.answer
  BY DEF GithubInv, GithubWorld
<1>3. AnswersAreTrue'
  BY <1>1, <1>2 DEF GithubInv, AnswersAreTrue
<1>4. /\ GithubArgsError(args) = Null
      /\ call.options.mode = "write" => args.idempotencyKey # Null /\ call.options.token # Null
  BY GithubRefusalNull
<1>5. /\ ScopedUrlError(args) = Null
      /\ ScopeError(url.path[2], url.path[3], OperationOf(url.path, args.method), args) = Null
  BY <1>4, GithubArgsErrorNull DEF GithubInv
<1>6. call.options.mode = "write" =>
         headers["idempotency-key"] = args.idempotencyKey /\ headers["authorization"] = call.options.token
  BY <1>4, HeadersAreSent
<1> HIDE DEF headers
<1>7. KeyIsSent'
  BY <1>1, <1>2, <1>6 DEF KeyIsSent
<1>8. GithubReceiptIsTrue'
  BY <1>1 DEF GithubReceiptIsTrue
<1>9. url.host \in {call.options.allowedBases[i].host : i \in DOMAIN call.options.allowedBases}
  BY <1>5, ScopedUrlErrorNull
<1>10. \E i \in DOMAIN call.options.scopes :
          LET scope == call.options.scopes[i]
              operation == OperationOf(url.path, args.method)
          IN  /\ scope.owner = url.path[2] /\ scope.repo = url.path[3]
              /\ operation \in scope.allowedOperations
              /\ operation = "create_pull_request" =>
                    args.body.base \in scope.baseBranches /\ args.body.head \in scope.headBranches
  <2> HIDE DEF url
  <2> QED  BY <1>5, ScopeErrorNull DEF GithubInv
<1>11. ScopedUrl(call.request)' = url
  BY <1>1 DEF ScopedUrl
<1> HIDE DEF url
<1>12. call.options.mode = "write" =>
          /\ Null \notin {args.idempotencyKey, call.options.token}
          /\ headers["idempotency-key"] = args.idempotencyKey
          /\ headers["authorization"] = call.options.token
  BY <1>4, <1>6
<1>13. GithubSendsInScope'
  BY <1>1, <1>2, <1>9, <1>10, <1>11, <1>12 DEF GithubSendsInScope
<1> QED  BY <1>1, <1>2, <1>3, <1>7, <1>8, <1>13 DEF GithubInv

\* fetchGithubHashOnly throws.
LEMMA FetchThrowsIsTrue ==
    ASSUME GithubInv, call.tool = "github", call.step \in {"fetching", "reading"},
           world' = world, NEW code, FetchThrows(code)
    PROVE  GithubInv' /\ call'.tool = call.tool
<1>1. CASE call.options.mode = "write"
  <2>1. call' = [call EXCEPT !.step = "thrown"]
    BY <1>1 DEF FetchThrows
  <2>2. /\ DOMAIN call' = GithubFields /\ call'.step = "thrown"
        /\ \A f \in GithubFields \ {"step"} : call'[f] = call[f]
    BY <2>1 DEF GithubInv, GithubFields
  <2>3. AnswersAreTrue'
    BY <2>2 DEF GithubInv, AnswersAreTrue
  <2> QED  BY <2>2, <2>3, GithubGoesOn DEF GithubInv
<1>2. CASE call.options.mode # "write"
  <2> DEFINE receipt == [status |-> "failed", payload |-> [reason |-> code, statusCode |-> Null]]
  <2>1. call' = Answer(call, receipt, Null)
    BY <1>2 DEF FetchThrows, GithubFailed
  <2>2. receipt.status = "failed"
    OBVIOUS
  <2> HIDE DEF receipt
  <2> QED  BY <1>2, <2>1, <2>2, GithubAnswersTruly
<1> QED  BY <1>1, <1>2

\* execute has the response.
LEMMA GithubAnswersIsTrue ==
    ASSUME GithubInv, call.tool = "github", call.step \in {"fetching", "reading"},
           world' = world, world.answer \notin {Null, Lost}, NEW bytes,
           bytes = (IF call.request.method = "HEAD" THEN 0 ELSE world.answer.size),
           GithubAnswers(world.answer.status, bytes)
    PROVE  GithubInv' /\ call'.tool = call.tool
<1> DEFINE status == world.answer.status
           write == call.options.mode = "write"
           observation == IF write THEN Null ELSE GithubObservation(status, bytes)
<1>1. /\ status \in 200..599
      /\ status \in 200..299 => world.done
      /\ status \in 400..499 => ~world.done
  BY DEF GithubInv, AnswersAreTrue
<1>2. CASE write /\ status >= 500
  <2>1. call' = [call EXCEPT !.step = "thrown"]
    BY <1>2 DEF GithubAnswers
  <2>2. /\ DOMAIN call' = GithubFields /\ call'.step = "thrown"
        /\ \A f \in GithubFields \ {"step"} : call'[f] = call[f]
    BY <2>1 DEF GithubInv, GithubFields
  <2>3. AnswersAreTrue'
    BY <2>2 DEF GithubInv, AnswersAreTrue
  <2> QED  BY <2>2, <2>3, GithubGoesOn DEF GithubInv
<1>3. CASE ~(write /\ status >= 500) /\ status \in 200..399
  <2> DEFINE receipt == GithubReceipt(status, bytes)
  <2>1. call' = Answer(call, receipt, observation)
    BY <1>3 DEF GithubAnswers
  <2>2. /\ receipt.status = "succeeded" /\ receipt.payload.statusCode = status
        /\ receipt.payload.byteLength = bytes
        /\ write => receipt.payload.idempotencyKey = call.request.idempotencyKey
    BY DEF GithubReceipt, SuccessPayload
  <2>3. write => world.sent["idempotency-key"] = call.request.idempotencyKey
    BY DEF GithubInv, KeyIsSent
  <2>4. world.done \/ status \in 300..399
    BY <1>1, <1>3
  <2> HIDE DEF receipt, observation
  <2> QED  BY <2>1, <2>2, <2>3, <2>4, GithubAnswersTruly
<1>4. CASE ~(write /\ status >= 500) /\ status \notin 200..399
  <2> DEFINE receipt == [status |-> "failed", payload |-> [reason |-> "fetch_error", statusCode |-> status]]
  <2>1. call' = Answer(call, receipt, Null)
    BY <1>4 DEF GithubAnswers, GithubFailed
  <2>2. receipt.status = "failed"
    OBVIOUS
  <2>3. write => ~world.done
    BY <1>1, <1>4
  <2> HIDE DEF receipt
  <2> QED  BY <2>1, <2>2, <2>3, GithubAnswersTruly
<1> QED  BY <1>2, <1>3, <1>4

LEMMA GithubSteps ==
    ASSUME GithubInv, call.tool = "github", GithubNext
    PROVE  GithubInv' /\ call'.tool = call.tool
<1>0. DOMAIN call = GithubFields /\ DOMAIN world = GithubWorld /\ AnswersAreTrue
  BY DEF GithubInv
<1>1. ASSUME NEW step \in {"idle", "not_created", "reading"}, call' = [call EXCEPT !.step = step],
             world' = world, call.step # "answered",
             step = "reading" => /\ call.step = "fetching" /\ world.answer \notin {Null, Lost}
                                 /\ call.request.method # "HEAD",
             step # "reading" => call.step = "create"
      PROVE  GithubInv' /\ call'.tool = call.tool
  <2>1. /\ DOMAIN call' = GithubFields /\ call'.step = step
        /\ \A f \in GithubFields \ {"step"} : call'[f] = call[f]
    BY <1>0, <1>1 DEF GithubFields
  <2>2. AnswersAreTrue'
    BY <1>0, <1>1, <2>1 DEF AnswersAreTrue, GithubFields
  <2> QED  BY <1>0, <1>1, <2>1, <2>2, GithubGoesOn
<1>2. CASE CreateGithubRestAdapter
  <2>1. /\ call.step = "create" /\ world' = world
        /\ \E valid \in BOOLEAN : call' = [call EXCEPT !.step = IF valid THEN "idle" ELSE "not_created"]
    BY <1>2 DEF CreateGithubRestAdapter, Created
  <2> QED  BY <1>1, <2>1
<1>3. CASE ExecuteGithub
  <2> DEFINE refusal == GithubRefusal(call.request)
  <2>1. /\ call.step = "idle"
        /\ IF refusal # Null
           THEN call' = GithubFailed(refusal, Null) /\ world' = world
           ELSE /\ call' = [call EXCEPT !.step = "fetching"]
                /\ world' = [world EXCEPT !.sent = RequestHeadersForFetch(call.request)]
    BY <1>3 DEF ExecuteGithub, At
  <2>2. CASE refusal # Null
    <3> DEFINE receipt == [status |-> "failed", payload |-> [reason |-> refusal, statusCode |-> Null]]
    <3>1. call' = Answer(call, receipt, Null) /\ world' = world
      BY <2>1, <2>2 DEF GithubFailed
    <3>2. receipt.status = "failed"
      OBVIOUS
    <3>3. ~world.done
      BY <1>0, <2>1 DEF AnswersAreTrue
    <3> HIDE DEF receipt
    <3> QED  BY <2>1, <3>1, <3>2, <3>3, GithubAnswersTruly
  <2>3. CASE refusal = Null
    BY <2>1, <2>3, GithubAsks
  <2> QED  BY <2>2, <2>3
<1>4. CASE FetchFails
  <2>1. call.step = "fetching" /\ world' = world /\ FetchThrows("fetch_error")
    BY <1>4 DEF FetchFails, At
  <2> QED  BY <2>1, FetchThrowsIsTrue
<1>5. CASE GithubResponseArrives
  <2>1. /\ call.step = "fetching" /\ world' = world /\ world.answer \notin {Null, Lost}
        /\ \/ FetchThrows("response_too_large")
           \/ call.request.method = "HEAD" /\ GithubAnswers(world.answer.status, 0)
           \/ call.request.method # "HEAD" /\ call' = [call EXCEPT !.step = "reading"]
    BY <1>5 DEF GithubResponseArrives, At
  <2>2. CASE FetchThrows("response_too_large")
    BY <2>1, <2>2, FetchThrowsIsTrue
  <2>3. CASE call.request.method = "HEAD" /\ GithubAnswers(world.answer.status, 0)
    BY <2>1, <2>3, GithubAnswersIsTrue
  <2>4. CASE call.request.method # "HEAD" /\ call' = [call EXCEPT !.step = "reading"]
    BY <1>1, <2>1, <2>4
  <2> QED  BY <2>1, <2>2, <2>3, <2>4
<1>6. CASE GithubBodyRead
  <2>1. /\ call.step = "reading" /\ world' = world
        /\ \/ FetchThrows("fetch_error")
           \/ FetchThrows("response_too_large")
           \/ GithubAnswers(world.answer.status, world.answer.size)
    BY <1>6 DEF GithubBodyRead, At
  <2>2. world.answer \notin {Null, Lost} /\ call.request.method # "HEAD"
    BY <1>0, <2>1 DEF AnswersAreTrue
  <2>3. CASE FetchThrows("fetch_error")
    BY <2>1, <2>3, FetchThrowsIsTrue
  <2>4. CASE FetchThrows("response_too_large")
    BY <2>1, <2>4, FetchThrowsIsTrue
  <2>5. CASE GithubAnswers(world.answer.status, world.answer.size)
    BY <2>1, <2>2, <2>5, GithubAnswersIsTrue
  <2> QED  BY <2>1, <2>3, <2>4, <2>5
<1>7. ASSUME call' = call, DOMAIN world' = GithubWorld, world'.sent = world.sent, AnswersAreTrue',
             call.step # "answered"
      PROVE  GithubInv' /\ call'.tool = call.tool
  BY <1>0, <1>7, GithubGoesOn
<1>8. CASE ServerCarriesOut
  <2>1. /\ call.step = "fetching" /\ call' = call /\ world.answer \in {Null, Lost}
        /\ world' = [world EXCEPT !.done = TRUE]
    BY <1>8 DEF ServerCarriesOut, At
  <2>2. /\ DOMAIN world' = GithubWorld /\ world'.sent = world.sent
        /\ world'.answer = world.answer /\ world'.done = TRUE
    BY <1>0, <2>1 DEF GithubWorld
  <2>3. AnswersAreTrue'
    BY <2>1, <2>2 DEF AnswersAreTrue
  <2> QED  BY <1>7, <2>1, <2>2, <2>3
<1>9. CASE ServerAnswers
  <2>1. PICK answer \in GithubResponses \cup {Lost} :
          /\ answer # Lost =>
                /\ answer.status \in 200..299 => world.done
                /\ answer.status \in 400..499 => ~world.done
          /\ world' = [world EXCEPT !.answer = answer]
    BY <1>9 DEF ServerAnswers
  <2>2. call.step = "fetching" /\ call' = call
    BY <1>9 DEF ServerAnswers, At
  <2>3. /\ DOMAIN world' = GithubWorld /\ world'.sent = world.sent
        /\ world'.answer = answer /\ world'.done = world.done
    BY <1>0, <2>1 DEF GithubWorld
  <2>4. answer # Lost => answer.status \in 200..599
    BY GithubStatuses
  <2>5. AnswersAreTrue'
    BY <1>0, <2>1, <2>2, <2>3, <2>4 DEF AnswersAreTrue
  <2> QED  BY <1>7, <2>2, <2>3, <2>5
<1>10. CASE BodyStops
  <2>1. /\ call.step = "reading" /\ call' = call
        /\ \E body \in {"ended", "broken"} : world' = [world EXCEPT !.body = body]
    BY <1>10 DEF BodyStops, At
  <2>2. /\ DOMAIN world' = GithubWorld /\ world'.sent = world.sent
        /\ world'.answer = world.answer /\ world'.done = world.done
    BY <1>0, <2>1 DEF GithubWorld
  <2>3. AnswersAreTrue'
    BY <1>0, <2>1, <2>2 DEF AnswersAreTrue
  <2> QED  BY <1>7, <2>1, <2>2, <2>3
<1> QED  BY <1>2, <1>3, <1>4, <1>5, <1>6, <1>8, <1>9, <1>10 DEF GithubNext

\* ------------------------------------------------------------------------
\* One adapter per call

ToolInv ==
    CASE call.tool \in {"shell", "compute"} -> ProcessInv
      [] call.tool = "filesystem" -> FilesystemInv
      [] call.tool = "http" -> HttpInv
      [] call.tool = "github" -> GithubInv

Tools == {"shell", "compute", "filesystem", "http", "github"}

\* What a new call has.
LEMMA NewCallFields ==
    ASSUME NEW tool, NEW options, NEW request, NEW more, NEW new,
           new = Over(NewCall(tool, options, request), more)
    PROVE  DOMAIN new = {"tool", "options", "request", "step", "receipt", "observation"} \cup DOMAIN more
BY DEF NewCall, Over

LEMMA NewCallIs ==
    ASSUME NEW tool, NEW options, NEW request, NEW more, NEW new,
           new = Over(NewCall(tool, options, request), more)
    PROVE  /\ new.tool = tool /\ new.options = options /\ new.request = request
           /\ new.step = "create" /\ new.receipt = Null
           /\ \A f \in DOMAIN more \ {"tool", "options", "request", "step", "receipt", "observation"} :
                 new[f] = more[f]
<1> DEFINE blank == NewCall(tool, options, request)
<1>1. /\ DOMAIN blank = {"tool", "options", "request", "step", "receipt", "observation"}
      /\ blank.tool = tool /\ blank.options = options /\ blank.request = request
      /\ blank.step = "create" /\ blank.receipt = Null
  BY DEF NewCall
<1>2. new = Over(blank, more)
  OBVIOUS
<1> HIDE DEF blank
<1>3. /\ \A f \in DOMAIN blank : new[f] = blank[f]
      /\ \A f \in DOMAIN more \ DOMAIN blank : new[f] = more[f]
  BY <1>2 DEF Over
<1>4. new.tool = tool /\ new.options = options /\ new.request = request
  BY <1>1, <1>3
<1>5. new.step = "create" /\ new.receipt = Null
  BY <1>1, <1>3
<1> QED  BY <1>1, <1>3, <1>4, <1>5

LEMMA ToolsStart == ToolsInit => ToolInv /\ call.tool \in Tools
<1>1. ASSUME NEW c \in ProcessCases, call = ProcessCall(c.tool, c.options, c.request),
             NEW killable \in BOOLEAN, world = [NoProcess EXCEPT !.killable = killable]
      PROVE  ToolInv /\ call.tool \in Tools
  <2> DEFINE more == [kept |-> OnNoStream(0), truncated |-> OnNoStream(FALSE),
                      timedOut |-> FALSE, limited |-> FALSE]
  <2>1. c.tool \in {"shell", "compute"}
    BY ToolContracts
  <2>2. call = Over(NewCall(c.tool, c.options, c.request), more)
    BY <1>1 DEF ProcessCall
  <2>3. /\ DOMAIN more = {"kept", "truncated", "timedOut", "limited"}
        /\ more.kept = OnNoStream(0) /\ more.truncated = OnNoStream(FALSE)
        /\ more.timedOut = FALSE /\ more.limited = FALSE
    OBVIOUS
  <2> HIDE DEF more
  <2>4. /\ DOMAIN call = ProcessFields /\ call.tool = c.tool /\ call.step = "create"
        /\ call.receipt = Null /\ call.kept = OnNoStream(0) /\ call.truncated = OnNoStream(FALSE)
        /\ call.timedOut = FALSE
    <3>1. DOMAIN call = {"tool", "options", "request", "step", "receipt", "observation"} \cup DOMAIN more
      BY <2>2, NewCallFields
    <3>2. /\ call.tool = c.tool /\ call.step = "create" /\ call.receipt = Null
          /\ \A f \in DOMAIN more \ {"tool", "options", "request", "step", "receipt", "observation"} :
                call[f] = more[f]
      BY <2>2, NewCallIs
    <3> QED  BY <2>3, <3>1, <3>2 DEF ProcessFields
  <2>5. /\ DOMAIN world = WorldFields /\ world.state = "none" /\ world.exitCode = Null
        /\ world.signal = Null /\ world.written = OnNoStream(0) /\ world.read = OnNoStream(0)
    BY <1>1 DEF NoProcess, WorldFields
  <2>6. OutputIsCounted(call, world)
    BY <2>4, <2>5, OutputLimit DEF OutputIsCounted, OnNoStream
  <2>7. ProcessIsSpawned(call, world)
    BY <2>4, <2>5 DEF ProcessIsSpawned
  <2>8. ProcessReceiptIsTrue /\ ProcessSuccessNeedsAnExit /\ ProcessRefusalRanNothing
    BY <2>4 DEF ProcessReceiptIsTrue, ProcessSuccessNeedsAnExit, ProcessRefusalRanNothing, Succeeded, Failed
  <2> QED  BY <2>1, <2>4, <2>5, <2>6, <2>7, <2>8 DEF ToolInv, ProcessInv, Tools
<1>2. ASSUME NEW c \in FilesystemCases, NEW disk \in FirstDisks,
             call = FilesystemCall(c.options, c.request), world = <<disk>>
      PROVE  ToolInv /\ call.tool \in Tools
  <2> DEFINE more == [place |-> Null, file |-> Null, read |-> <<>>]
  <2>1. call = Over(NewCall("filesystem", c.options, c.request), more)
    BY <1>2 DEF FilesystemCall
  <2>2. DOMAIN more = {"place", "file", "read"}
    OBVIOUS
  <2> HIDE DEF more
  <2>3. /\ DOMAIN call = FilesystemFields /\ call.tool = "filesystem" /\ call.step = "create"
        /\ call.receipt = Null
    <3>1. DOMAIN call = {"tool", "options", "request", "step", "receipt", "observation"} \cup DOMAIN more
      BY <2>1, NewCallFields
    <3>2. /\ call.tool = "filesystem" /\ call.step = "create" /\ call.receipt = Null
      BY <2>1, NewCallIs
    <3> QED  BY <2>2, <3>1, <3>2 DEF FilesystemFields
  <2>4. world \in Seq(Disks) /\ Len(world) = 1
    BY <1>2, ToolContracts
  <2>5. ReadReceiptIsTrue /\ ReadFailureWasSeen
    BY <2>3 DEF ReadReceiptIsTrue, ReadFailureWasSeen, Succeeded, Failed
  <2> QED  BY <2>3, <2>4, <2>5 DEF ToolInv, FilesystemInv, Tools
<1>3. ASSUME NEW c \in HttpCases, call = HttpCall(c.options, c.request), world = Idling
      PROVE  ToolInv /\ call.tool \in Tools
  <2> DEFINE more == [url |-> Null, redirects |-> 0, bytes |-> 0, timedOut |-> FALSE]
  <2>1. call = Over(NewCall("http", c.options, c.request), more)
    BY <1>3 DEF HttpCall
  <2>2. DOMAIN more = {"url", "redirects", "bytes", "timedOut"} /\ more.redirects = 0 /\ more.bytes = 0
    OBVIOUS
  <2> HIDE DEF more
  <2>3. /\ DOMAIN call = HttpFields /\ call.tool = "http" /\ call.step = "create"
        /\ call.receipt = Null /\ call.redirects = 0 /\ call.bytes = 0 /\ call.options = c.options
    <3>1. DOMAIN call = {"tool", "options", "request", "step", "receipt", "observation"} \cup DOMAIN more
      BY <2>1, NewCallFields
    <3>2. /\ call.tool = "http" /\ call.step = "create" /\ call.receipt = Null
          /\ call.options = c.options
          /\ \A f \in DOMAIN more \ {"tool", "options", "request", "step", "receipt", "observation"} :
                call[f] = more[f]
      BY <2>1, NewCallIs
    <3> QED  BY <2>2, <3>1, <3>2 DEF HttpFields
  <2>4. DOMAIN world = HttpWorld /\ world.sent = 0 /\ world.hops = <<>>
    BY <1>3 DEF Idling, HttpWorld
  <2>5. HopsAreAsked /\ BodyIsAccepted
    BY <2>3, <2>4 DEF HopsAreAsked, BodyIsAccepted
  <2>6. HttpReceiptIsTrue
    BY <2>3 DEF HttpReceiptIsTrue, Succeeded
  <2>7. call.options.limitsValid =>
           call.options.maxRedirects \in Nat /\ call.options.maxResponseBytes \in Nat
    BY <2>3, ToolContracts
  <2> QED  BY <2>3, <2>4, <2>5, <2>6, <2>7 DEF ToolInv, HttpInv, Tools
<1>4. ASSUME NEW c \in GithubCases, call = GithubCall(c.options, c.request), world = NotAsked
      PROVE  ToolInv /\ call.tool \in Tools
  <2>1. /\ DOMAIN call = GithubFields /\ call.tool = "github" /\ call.step = "create"
        /\ call.receipt = Null /\ call.options = c.options
    BY <1>4 DEF GithubCall, NewCall, GithubFields
  <2>2. /\ DOMAIN world = GithubWorld /\ world.sent = Null /\ world.done = FALSE /\ world.answer = Null
    BY <1>4 DEF NotAsked, GithubWorld
  <2>3. AnswersAreTrue /\ KeyIsSent
    BY <2>1, <2>2 DEF AnswersAreTrue, KeyIsSent
  <2>4. GithubReceiptIsTrue /\ GithubSendsInScope
    BY <2>1, <2>2 DEF GithubReceiptIsTrue, GithubSendsInScope
  <2>5. DOMAIN call.options.scopes \subseteq Nat
    BY <2>1, ToolContracts
  <2> QED  BY <2>1, <2>2, <2>3, <2>4, <2>5 DEF ToolInv, GithubInv, Tools
<1> QED  BY <1>1, <1>2, <1>3, <1>4 DEF ToolsInit

\* The actions of one adapter are not another's.
LEMMA StepsAreTheTools ==
    /\ ProcessNext => call.tool \in {"shell", "compute"}
    /\ FilesystemNext => call.tool = "filesystem"
    /\ HttpNext => call.tool = "http"
    /\ GithubNext => call.tool = "github"
<1>1. ProcessNext => call.tool \in {"shell", "compute"}
  BY DEF ProcessNext, CreateShellCommandAdapter, CreateControlledComputeAdapter, Created,
         ExecuteProfile, TimerFires, DataArrives, ProcessWrites, SpawnFails, Close, ProcessExits,
         SignalLands, DescendantEnds, Running
<1>2. FilesystemNext => call.tool = "filesystem"
  BY DEF FilesystemNext, CreateFilesystemReadAdapter, Created, ExecuteRead, RealpathRoot,
         RealpathTarget, StatTarget, OpenTarget, SpecialGives, ReadChunk, ReadTarget, ReadFails,
         DiskChanges, Reads, At
<1>3. HttpNext => call.tool = "http"
  BY DEF HttpNext, CreateHttpReadonlyObservationAdapter, Created, ExecuteHttp, ResponseArrives,
         ChunkArrives, BodyEnds, TimeoutFires, Rejected, ServerResponds, ServerSends,
         ConnectionBreaks, At
<1>4. GithubNext => call.tool = "github"
  BY DEF GithubNext, CreateGithubRestAdapter, Created, ExecuteGithub, FetchFails,
         GithubResponseArrives, GithubBodyRead, ServerCarriesOut, ServerAnswers, BodyStops, At
<1> QED  BY <1>1, <1>2, <1>3, <1>4

LEMMA ToolsStep == ToolInv /\ call.tool \in Tools /\ [ToolsNext]_toolVars => ToolInv' /\ call'.tool \in Tools
<1> SUFFICES ASSUME ToolInv, call.tool \in Tools, [ToolsNext]_toolVars
             PROVE  ToolInv' /\ call'.tool \in Tools
  OBVIOUS
<1>1. CASE ProcessNext
  BY <1>1, StepsAreTheTools, ProcessSteps DEF ToolInv
<1>2. CASE FilesystemNext
  BY <1>2, StepsAreTheTools, FilesystemSteps DEF ToolInv
<1>3. CASE HttpNext
  BY <1>3, StepsAreTheTools, HttpSteps DEF ToolInv
<1>4. CASE GithubNext
  BY <1>4, StepsAreTheTools, GithubSteps DEF ToolInv
<1>5. CASE UNCHANGED toolVars
  <2> USE <1>5 DEF toolVars
  <2>1. ProcessInv => ProcessInv'
    BY DEF ProcessInv, OutputIsCounted, ProcessIsSpawned, ProcessReceiptIsTrue,
           ProcessSuccessNeedsAnExit, ProcessRefusalRanNothing, Succeeded, Failed
  <2>2. FilesystemInv => FilesystemInv'
    <3>1. ReadReceiptIsTrue => ReadReceiptIsTrue'
      BY DEF ReadReceiptIsTrue, Succeeded
    <3>2. ReadFailureWasSeen => ReadFailureWasSeen'
      BY DEF ReadFailureWasSeen, Failed
    <3>3. /\ \A i, j : SmallFileSeen(i, j)' <=> SmallFileSeen(i, j)
          /\ \A k : FileIsOpen(call, k)' <=> FileIsOpen(call, k)
      BY DEF SmallFileSeen, FileIsOpen
    <3> QED  BY <3>1, <3>2, <3>3 DEF FilesystemInv
  <2>3. HttpInv => HttpInv'
    BY DEF HttpInv, HopsAreAsked, BodyIsAccepted, HttpReceiptIsTrue, Succeeded, AllowedOrigins
  <2>4. GithubInv => GithubInv'
    <3>1. ScopedUrl(call.request)' = ScopedUrl(call.request)
      BY DEF ScopedUrl
    <3> QED  BY <3>1 DEF GithubInv, AnswersAreTrue, KeyIsSent, GithubReceiptIsTrue,
                         GithubSendsInScope, Succeeded, Failed
  <2>5. call' = call
    OBVIOUS
  <2>6. CASE call.tool \in {"shell", "compute"}
    BY <2>1, <2>5, <2>6 DEF ToolInv
  <2>7. CASE call.tool = "filesystem"
    BY <2>2, <2>5, <2>7 DEF ToolInv
  <2>8. CASE call.tool = "http"
    BY <2>3, <2>5, <2>8 DEF ToolInv
  <2>9. CASE call.tool = "github"
    BY <2>4, <2>5, <2>9 DEF ToolInv
  <2> QED  BY <2>6, <2>7, <2>8, <2>9 DEF Tools
<1> QED  BY <1>1, <1>2, <1>3, <1>4, <1>5 DEF ToolsNext

\* The inductive invariant of the adapters, for every call of every one of them:
\* the locals of a call agree with what it has done to the world so far.
THEOREM ToolsHold == ToolsSpec => [](ToolInv /\ call.tool \in Tools)
<1>1. ToolsInit => ToolInv /\ call.tool \in Tools
  BY ToolsStart
<1>2. ToolInv /\ call.tool \in Tools /\ [ToolsNext]_toolVars => (ToolInv /\ call.tool \in Tools)'
  BY ToolsStep
<1> QED  BY <1>1, <1>2, PTL DEF ToolsSpec

\* Whatever the modelled process, disk and servers do, a receipt stands for something
\* of the call: "succeeded" for an exit with code 0 and all output counted, for a file
\* in the root every part of which was there (a mixture of moments, or what a pipe in
\* its place gave, included), for a response read whole, for a GitHub write that was
\* carried out or answered with a 3xx; a reason for what the adapter means by it; the
\* failure of a GitHub write for one that was not carried out, the server's 2xx and
\* 4xx answers meaning what HTTP says (ServerAnswers).
THEOREM ToolsTellTheTruth == ToolsSpec => []ReceiptsTellTheTruth
<1>1. ToolInv /\ call.tool \in Tools => ReceiptsTellTheTruth
  BY DEF ToolInv, Tools, ReceiptsTellTheTruth, ProcessInv, FilesystemInv, HttpInv, GithubInv
<1> QED  BY <1>1, ToolsHold, PTL

\* What the checks of an adapter refuse is not done: no process is started, no
\* request sent, no redirect followed beyond the limit or away from the origin.
THEOREM ToolsDoNothingRefused == ToolsSpec => []NothingRefusedIsDone
<1>1. HttpInv => HopsAreBounded
  BY DEF HttpInv, HopsAreAsked, HopsAreBounded
<1>2. ToolInv /\ call.tool \in Tools => NothingRefusedIsDone
  BY <1>1 DEF ToolInv, Tools, NothingRefusedIsDone, ProcessInv, GithubInv
<1> QED  BY <1>2, ToolsHold, PTL
=============================================================================
