---------------------------- MODULE EvidencePool ----------------------------
(***************************************************************************)
(* The proof engine over time.  A run admits receipts and observations one *)
(* by one, the clock moves, and at any moment evaluateProof may be asked   *)
(* about any candidate: the proof it would give is a function of the state.*)
(* Records are what a caller of evaluateProof may hand over, also ones the *)
(* kernel would have refused.                                              *)
(***************************************************************************)
EXTENDS ProofEngine

CONSTANTS Candidates, Receipts, Observations,
          ForeignProofs,   \* proofs of other makers given to decideRelease
          MaxTime          \* bound on the clock

\* What the contracts accept of a claim, an observation and a proof.
ASSUME PoolContracts ==
    /\ MaxTime \in Nat
    /\ \A c \in Candidates : \A i \in DOMAIN c.claims :
          LET p == c.claims[i].predicate
          IN  \/ p.kind \in ReceiptClaimKinds
              \/ /\ p.kind = "current_state" /\ p.freshness \in Int
                 /\ p.operator \in {"equals", "not_equals", "contains"}
    /\ \A o \in Observations : o.observedAt \in Int
    /\ \A p \in ForeignProofs : p.verdict \in {"pass", "fail", "needs_repair", "quarantine"}

VARIABLES receipts, observations, now

pool == <<receipts, observations, now>>

AdmitReceipt(r) == receipts' = receipts \cup {r} /\ UNCHANGED <<observations, now>>

AdmitObservation(o) == observations' = observations \cup {o} /\ UNCHANGED <<receipts, now>>

Tick == now < MaxTime /\ now' = now + 1 /\ UNCHANGED <<receipts, observations>>

Init == receipts = {} /\ observations = {} /\ now = 0

Next == \/ \E r \in Receipts : AdmitReceipt(r)
        \/ \E o \in Observations : AdmitObservation(o)
        \/ Tick

Spec == Init /\ [][Next]_pool

Proof(candidate) == EvaluateProof(candidate, receipts, observations, now)

Supported(candidate, i) == \A m \in Proof(candidate).mismatches : m.index # i

\* ------------------------------------------------------------------------
\* Reference definitions, written from what a claim means and not from the
\* order in which the engine looks.

\* The record is genuine and the claim cites it.
CitedBy(claim, record, content, kind, runId) ==
    /\ record.runId = runId
    /\ record.payloadHash = CanonicalHash(content)
    /\ \A ref \in record.evidence : ref.kind = kind /\ ref.hash = CanonicalHash(content)
    /\ \E n \in DOMAIN claim.refs : claim.refs[n] \in record.evidence

CitedReceipts(candidate, i) ==
    {r \in receipts : CitedBy(candidate.claims[i], r, r.payload, "effect_receipt", candidate.runId)}

CitedObservations(candidate, i) ==
    {o \in observations :
        CitedBy(candidate.claims[i], o, o.state, "external_observation", candidate.runId)}

Says(value, operator, expected) ==
    CASE operator = "equals"     -> value.primitive /\ value.is = expected
      [] operator = "not_equals" -> value.primitive /\ value.is # expected
      [] operator = "contains"   -> expected \in value.holds

Witnessed(candidate, i) ==
    LET p == candidate.claims[i].predicate
    IN  IF p.kind = "current_state"
        THEN \E o \in CitedObservations(candidate, i) :
                /\ o.subject = p.subject
                /\ o.observedAt \in (now - p.freshness)..now
                /\ p.property \in DOMAIN o.state
                /\ Says(o.state[p.property], p.operator, p.value)
        ELSE /\ \A r \in CitedReceipts(candidate, i) : r.status = "succeeded"
             /\ \E r \in CitedReceipts(candidate, i) :
                   /\ r.capabilityId = p.capabilityId
                   /\ r.receiptType = p.receiptType
                   /\ \A f \in DOMAIN p.fields :
                         f \in DOMAIN r.payload /\ r.payload[f] = p.fields[f]

\* ------------------------------------------------------------------------
\* Properties

TypeOK == /\ receipts \subseteq Receipts
          /\ observations \subseteq Observations
          /\ now \in 0..MaxTime

\* evaluateProof passes a candidate exactly when genuine evidence that the claim
\* itself cites witnesses every claim, and approves exactly the ids of witnessed
\* claims: neither a lie nor a true claim is judged wrongly, whatever other
\* records lie about.
ProofsAreRight ==
    \A c \in Candidates :
        LET witnessed == {i \in DOMAIN c.claims : Witnessed(c, i)}
        IN  /\ Proof(c).verdict = "pass" <=> witnessed = DOMAIN c.claims
            /\ Proof(c).approved = {c.claims[i].claimId : i \in witnessed}

\* The final message states witnessed claims only, and all of them
\* (decideRelease over evaluateProof): a claim id shared by two claims cannot
\* smuggle one of them in.  A proof made elsewhere gets a message only when it
\* passes and nothing in it blocks, and what is refused names what blocks it.
MessagesAreTrue ==
    \A c \in Candidates :
        /\ LET decision == DecideRelease(c, Proof(c))
           IN  /\ \A i \in decision.message : Witnessed(c, i)
               /\ decision.status = "released" <=> decision.message = DOMAIN c.claims
        /\ \A p \in ForeignProofs :
              LET decision == DecideRelease(c, p)
              IN  IF decision.status = "released"
                  THEN p.verdict = "pass" /\ BlockingMismatches(p) = {}
                  ELSE decision.message = {} /\ decision.blocking # {}

\* Evidence admitted later never unsays a claim, except a receipt that the claim
\* itself cites and that reports something other than success: then it must.
EvidenceRetracts ==
    \A c \in Candidates : \A i \in DOMAIN c.claims :
        Supported(c, i) /\ now' = now =>
            (~Supported(c, i)' <=>
                /\ c.claims[i].predicate.kind # "current_state"
                /\ \E r \in CitedReceipts(c, i)' \ CitedReceipts(c, i) : r.status # "succeeded")

\* Time alone changes only current-state claims: it makes one true only if the
\* observation came from a clock ahead of the proof's, and false only when the
\* last fresh observation ages out.
TimeAges ==
    \A c \in Candidates : \A i \in DOMAIN c.claims :
        now' > now =>
            LET p == c.claims[i].predicate
            IN  /\ Supported(c, i)' # Supported(c, i) => p.kind = "current_state"
                /\ Supported(c, i)' /\ ~Supported(c, i) =>
                      \E o \in CitedObservations(c, i) : o.observedAt > now
                /\ ~Supported(c, i)' /\ Supported(c, i) =>
                      \E o \in CitedObservations(c, i) : o.observedAt = now - p.freshness

EvidenceRetractsOnlyByFailure == [][EvidenceRetracts]_pool
TimeOnlyAges == [][TimeAges]_pool
=============================================================================
