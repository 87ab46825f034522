------------------------- MODULE EffectBrokerProofs -------------------------
(***************************************************************************)
(* Proofs about the effect broker, for any callers, commands,              *)
(* registrations and answers of adapters.                                  *)
(***************************************************************************)
EXTENDS EffectBroker, TLAPS, WellFoundedInduction

\* Every non-empty set of natural numbers has a least element.
LEMMA LeastOf ==
    ASSUME NEW S, S \subseteq Nat, S # {}
    PROVE  \E i \in S : \A j \in S : i <= j
<1> DEFINE less == {p \in Nat \X Nat : p[1] < p[2]}
<1>1. less = OpToRel(<, Nat)
  BY Zenon DEF OpToRel
<1>2. IsWellFoundedOn(less, Nat)
  BY <1>1, NatLessThanWellFounded
<1> HIDE DEF less
<1>3. PICK i \in S : \A j \in S : ~(<<j, i>> \in less)
  BY <1>2, WFMin
<1>4. ASSUME NEW j \in S PROVE i <= j
  <2>1. <<j, i>> \notin less
    BY <1>3
  <2> QED  BY <2>1 DEF less
<1> QED  BY <1>4

\* A list of checks that finds no error holds throughout.
LEMMA FirstErrorNull ==
    ASSUME NEW checks, DOMAIN checks \subseteq Nat,
           \A i \in DOMAIN checks : ~checks[i][1] => checks[i][2] # Null,
           FirstError(checks) = Null
    PROVE  \A i \in DOMAIN checks : checks[i][1] = TRUE
<1> DEFINE failing == {i \in DOMAIN checks : ~checks[i][1]}
           first == CHOOSE i \in failing : \A j \in failing : i <= j
<1>1. ASSUME failing # {} PROVE FALSE
  <2>1. \E i \in failing : \A j \in failing : i <= j
    <3>1. failing \subseteq Nat
      OBVIOUS
    <3> HIDE DEF failing
    <3> QED  BY <1>1, <3>1, LeastOf
  <2>2. first \in failing
    <3> HIDE DEF failing
    <3> QED  BY <2>1, Zenon
  <2>3. FirstError(checks) = checks[first][2]
    BY <1>1, Zenon DEF FirstError
  <2> HIDE DEF first
  <2> QED  BY <2>2, <2>3
<1> QED  BY <1>1

\* assertAdapterCertificationMatchesCapability found nothing.
LEMMA CapabilityErrorNull ==
    ASSUME NEW adapter, NEW capability, CapabilityError(adapter, capability) = Null
    PROVE  /\ adapter.certification.sideEffectClass = capability.sideEffectClass
           /\ adapter.certification.receiptTypes \subseteq capability.receiptTypes
<1> DEFINE cert == adapter.certification
           checks == <<
            <<cert.sideEffectClass = capability.sideEffectClass, "adapter_certification_mismatch">>,
            <<cert.receiptTypes \subseteq capability.receiptTypes,
              "adapter_certification_undeclared_receipt">>,
            <<cert.observationTypes \subseteq capability.observationTypes,
              "adapter_certification_undeclared_observation">> >>
<1>1. FirstError(checks) = Null
  BY DEF CapabilityError
<1>2. DOMAIN checks = 1..3 /\ DOMAIN checks \subseteq Nat
  OBVIOUS
<1>3. \A i \in 1..3 : ~checks[i][1] => checks[i][2] # Null
  BY NullIsNoError DEF ErrorCodes
<1>4. \A i \in DOMAIN checks : checks[i][1] = TRUE
  <2> HIDE DEF checks
  <2> QED  BY <1>1, <1>2, <1>3, FirstErrorNull
<1>5. checks[1][1] = TRUE /\ checks[2][1] = TRUE
  <2> HIDE DEF checks
  <2> QED  BY <1>2, <1>4
<1> QED  BY <1>5, Zenon

\* assertWritePreflightAllowsDispatch found nothing.
LEMMA PreflightErrorNull ==
    ASSUME NEW command, NEW decision, PreflightError(command, decision) = Null
    PROVE  /\ command.sideEffectClass \in WriteCapable
           /\ decision.preflightId \in DOMAIN decisions
           /\ decisions[decision.preflightId].decision = decision
           /\ decision = Decision(command, decision.preflightId, <<"allowed", Null>>,
                                  decision.decidedAt)
           /\ decisions[decision.preflightId].fingerprint = PreflightFingerprint(command)
<1> DEFINE known == decision.preflightId \in DOMAIN decisions
           checks == <<
            <<command.sideEffectClass \in WriteCapable, "write_preflight_not_applicable">>,
            <<decision.status # "denied", "write_preflight_denied">>,
            <<decision.status # "quarantined", "write_preflight_quarantined">>,
            <<known, "write_preflight_mismatch">>,
            <<known => decision = decisions[decision.preflightId].decision,
              "write_preflight_mismatch">>,
            <<decision = Decision(command, decision.preflightId, <<"allowed", Null>>,
                                  decision.decidedAt), "write_preflight_mismatch">>,
            <<known => decisions[decision.preflightId].fingerprint = PreflightFingerprint(command),
              "write_preflight_mismatch">> >>
<1>1. FirstError(checks) = Null
  BY DEF PreflightError
<1>2. DOMAIN checks = 1..7 /\ DOMAIN checks \subseteq Nat
  OBVIOUS
<1>3. \A i \in 1..7 : ~checks[i][1] => checks[i][2] # Null
  BY NullIsNoError DEF ErrorCodes
<1>4. \A i \in DOMAIN checks : checks[i][1] = TRUE
  <2> HIDE DEF checks
  <2> QED  BY <1>1, <1>2, <1>3, FirstErrorNull
<1>5. /\ checks[1][1] = TRUE
      /\ checks[4][1] = TRUE
      /\ checks[5][1] = TRUE
      /\ checks[6][1] = TRUE
      /\ checks[7][1] = TRUE
  <2> HIDE DEF checks
  <2> QED  BY <1>2, <1>4
<1> QED  BY <1>5, Zenon

\* assertSideEffectIsDispatchable found nothing.
LEMMA DispatchableErrorNull ==
    ASSUME NEW command, DispatchableError(command) = Null
    PROVE  /\ command.sideEffectClass # "critical_write"
           /\ command.sideEffectClass \in GovernedWrites => command.idempotencyKey # Null
<1> DEFINE checks == <<
            <<command.sideEffectClass # "critical_write", "critical_write_requires_approval">>,
            <<command.sideEffectClass \in GovernedWrites => command.idempotencyKey # Null,
              "idempotency_key_required">> >>
<1>1. FirstError(checks) = Null
  BY DEF DispatchableError
<1>2. DOMAIN checks = 1..2 /\ DOMAIN checks \subseteq Nat
  OBVIOUS
<1>3. \A i \in 1..2 : ~checks[i][1] => checks[i][2] # Null
  BY NullIsNoError DEF ErrorCodes
<1>4. \A i \in DOMAIN checks : checks[i][1] = TRUE
  <2> HIDE DEF checks
  <2> QED  BY <1>1, <1>2, <1>3, FirstErrorNull
<1>5. checks[1][1] = TRUE /\ checks[2][1] = TRUE
  <2> HIDE DEF checks
  <2> QED  BY <1>2, <1>4
<1> QED  BY <1>5, Zenon

\* validateReceiptCandidate found nothing.
LEMMA ReceiptErrorNull ==
    ASSUME NEW receipt, NEW e, ReceiptError(receipt, e) = Null
    PROVE  /\ receipt.wellFormed
           /\ EvidenceIsPending(receipt.evidence)
           /\ receipt.effectId = e.request.effectId
           /\ receipt.capabilityId = e.request.capabilityId
           /\ receipt.status # "unknown"
           /\ receipt.payloadHash = CanonicalHash(receipt.payload)
           /\ receipt.receiptType \in e.capability.receiptTypes
<1> DEFINE cert == e.adapter.certification
           checks == <<
            <<receipt.wellFormed, "adapter_receipt_invalid">>,
            <<EvidenceIsPending(receipt.evidence), "adapter_receipt_invalid">>,
            <<cert.adapterKind \in ReadKinds => ~receipt.raw, "adapter_receipt_invalid">>,
            <<receipt.effectId = e.request.effectId /\ receipt.runId = e.request.runId
                /\ receipt.capabilityId = e.request.capabilityId, "receipt_effect_mismatch">>,
            <<receipt.status # "unknown", "adapter_receipt_unknown">>,
            <<CanonicalHash(receipt.payload) = receipt.payloadHash, "adapter_receipt_invalid">>,
            <<receipt.receiptType \in cert.receiptTypes, "adapter_receipt_invalid">>,
            <<receipt.receiptType \in e.capability.receiptTypes, "adapter_receipt_invalid">> >>
<1>1. FirstError(checks) = Null
  BY DEF ReceiptError
<1>2. DOMAIN checks = 1..8 /\ DOMAIN checks \subseteq Nat
  OBVIOUS
<1>3. \A i \in 1..8 : ~checks[i][1] => checks[i][2] # Null
  BY NullIsNoError DEF ErrorCodes
<1>4. \A i \in DOMAIN checks : checks[i][1] = TRUE
  <2> HIDE DEF checks
  <2> QED  BY <1>1, <1>2, <1>3, FirstErrorNull
<1>5. /\ checks[1][1] = TRUE
      /\ checks[2][1] = TRUE
      /\ checks[4][1] = TRUE
      /\ checks[5][1] = TRUE
      /\ checks[6][1] = TRUE
      /\ checks[8][1] = TRUE
  <2> HIDE DEF checks
  <2> QED  BY <1>2, <1>4
<1> QED  BY <1>5, Zenon

\* validateExternalStateObservationCandidate found nothing.
LEMMA ObservationErrorNull ==
    ASSUME NEW observation, NEW receipt, NEW e, ObservationError(observation, receipt, e) = Null
    PROVE  /\ receipt.status = "succeeded"
           /\ observation.wellFormed
           /\ EvidenceIsPending(observation.evidence)
<1> DEFINE cert == e.adapter.certification
           checks == <<
            <<receipt.status = "succeeded", "adapter_observation_receipt_failed">>,
            <<observation.wellFormed, "adapter_observation_invalid">>,
            <<EvidenceIsPending(observation.evidence), "adapter_observation_invalid">>,
            <<cert.adapterKind \in ReadKinds => ~observation.raw, "adapter_observation_invalid">>,
            <<observation.runId = e.request.runId, "adapter_observation_invalid">>,
            <<CanonicalHash(observation.state) = observation.payloadHash,
              "adapter_observation_invalid">>,
            <<observation.expiresAt > observation.observedAt, "adapter_observation_invalid">>,
            <<observation.evidence # {}
                /\ \A ref \in observation.evidence :
                      ref.kind = "external_observation" /\ ref.hash = observation.payloadHash,
              "adapter_observation_invalid">>,
            <<observation.observationType \in e.capability.observationTypes,
              "adapter_observation_undeclared">>,
            <<observation.observationType \in cert.observationTypes,
              "adapter_observation_undeclared">> >>
<1>1. FirstError(checks) = Null
  BY DEF ObservationError
<1>2. DOMAIN checks = 1..10 /\ DOMAIN checks \subseteq Nat
  OBVIOUS
<1>3. \A i \in 1..10 : ~checks[i][1] => checks[i][2] # Null
  BY NullIsNoError DEF ErrorCodes
<1>4. \A i \in DOMAIN checks : checks[i][1] = TRUE
  <2> HIDE DEF checks
  <2> QED  BY <1>1, <1>2, <1>3, FirstErrorNull
<1>5. /\ checks[1][1] = TRUE
      /\ checks[2][1] = TRUE
      /\ checks[3][1] = TRUE
  <2> HIDE DEF checks
  <2> QED  BY <1>2, <1>4
<1> QED  BY <1>5, Zenon

\* The checks of a registration found nothing.
LEMMA RegistrationErrorNull ==
    ASSUME NEW command, RegistrationError(command) = Null
    PROVE  LET capability == capabilities[command.capabilityId]
               adapter    == adapters[AdapterKey(command)]
           IN  /\ capability.sideEffectClass = command.sideEffectClass
               /\ adapter.certification.sideEffectClass = command.sideEffectClass
               /\ adapter.certification.receiptTypes \subseteq capability.receiptTypes
<1> DEFINE capability == capabilities[command.capabilityId]
           adapter == adapters[AdapterKey(command)]
           checks == <<
                    <<capability.sideEffectClass = command.sideEffectClass,
                      "side_effect_class_mismatch">>,
                    <<adapter.certification.sideEffectClass = command.sideEffectClass,
                      "adapter_certification_mismatch">>,
                    <<CapabilityError(adapter, capability) = Null,
                      CapabilityError(adapter, capability)>> >>
<1>1. FirstError(checks) = Null
  <2>1. LookupError(command) = Null
    BY DEF RegistrationError
  <2>2. CertificationError(adapter) = Null
    BY <2>1 DEF RegistrationError
  <2> HIDE DEF capability, adapter
  <2> QED  BY <2>1, <2>2, Zenon DEF RegistrationError, capability, adapter
<1>2. DOMAIN checks = 1..3 /\ DOMAIN checks \subseteq Nat
  OBVIOUS
<1>3. \A i \in 1..3 : ~checks[i][1] => checks[i][2] # Null
  <2>1. \A i \in 1..2 : checks[i][2] # Null
    BY NullIsNoError DEF ErrorCodes
  <2>2. ~checks[3][1] => checks[3][2] # Null
    BY Zenon
  <2> HIDE DEF checks
  <2> QED  BY <2>1, <2>2
<1>4. \A i \in DOMAIN checks : checks[i][1] = TRUE
  <2> HIDE DEF checks
  <2> QED  BY <1>1, <1>2, <1>3, FirstErrorNull
<1>5. /\ checks[1][1] = TRUE
      /\ checks[2][1] = TRUE
      /\ checks[3][1] = TRUE
  <2> HIDE DEF checks
  <2> QED  BY <1>2, <1>4
<1>6. /\ capability.sideEffectClass = command.sideEffectClass
      /\ adapter.certification.sideEffectClass = command.sideEffectClass
      /\ CapabilityError(adapter, capability) = Null
  BY <1>5, Zenon
<1> QED  BY <1>6, CapabilityErrorNull, Zenon

\* ------------------------------------------------------------------------
\* The inductive invariant

IsCall(e) ==
    e = [command |-> e.command, request |-> e.request, preflight |-> e.preflight,
         overlapped |-> e.overlapped, outcome |-> e.outcome, result |-> e.result,
         capability |-> e.capability, adapter |-> e.adapter]

Calls == {executions[i] : i \in DOMAIN executions}

Executing(d) == dispatches[d].at = "executing"

\* The history lists calls, and every dispatch that waits for its adapter waits for
\* an open call of its own.
CallsAreListed ==
    /\ executions \in Seq(Calls)
    /\ \A i \in DOMAIN executions :
          /\ IsCall(executions[i])
          /\ executions[i].command \in Commands
          /\ \E id \in EffectIds :
                executions[i].request = EffectRequest(executions[i].command, id)
          /\ executions[i].outcome \in {"open", "accepted", "refused"}
    /\ dispatches = [d \in Callers |-> dispatches[d]]
    /\ \A d \in Callers : Executing(d) =>
          /\ dispatches[d].execution \in DOMAIN executions
          /\ executions[dispatches[d].execution].outcome = "open"
    /\ \A d, o \in Callers :
          Executing(d) /\ Executing(o) /\ dispatches[d].execution = dispatches[o].execution
             => d = o

\* An answer is remembered under the key of its call, but for a read that failed.
KeysAreRemembered ==
    \A i \in DOMAIN executions :
        /\ KeyOf(executions[i]) # Null
        /\ \/ executions[i].outcome = "accepted"
           \/ executions[i].outcome = "refused" /\ executions[i].preflight # Null
        => KeyOf(executions[i]) \in DOMAIN cache

\* A call is marked as overlapped as soon as a second one with its key is open, and
\* so before the broker remembers anything under the key while the call is open.
OverlapsAreSeen ==
    /\ \A i, j \in DOMAIN executions :
          /\ i # j
          /\ executions[i].outcome = "open" /\ executions[j].outcome = "open"
          /\ KeyOf(executions[i]) = KeyOf(executions[j]) /\ KeyOf(executions[i]) # Null
          => executions[i].overlapped
    /\ \A i \in DOMAIN executions :
          /\ executions[i].outcome = "open"
          /\ KeyOf(executions[i]) # Null
          /\ KeyOf(executions[i]) \in DOMAIN cache
          => executions[i].overlapped

KeyInv == CallsAreListed /\ KeysAreRemembered /\ OverlapsAreSeen /\ KeysRunOnce

\* ------------------------------------------------------------------------
\* The steps of a dispatch

\* What an adapter call does to the history.
LEMMA ExecuteStep ==
    ASSUME CallsAreListed, NEW d \in Callers, NEW command \in Commands, NEW effectId \in EffectIds,
           NEW preflight, Execute(d, command, effectId, preflight)
    PROVE  LET n == Len(executions) + 1
               met == OpenWith(command.idempotencyKey)
           IN  /\ executions' \in Seq(Calls')
               /\ Len(executions) \in Nat
               /\ DOMAIN executions = 1..Len(executions)
               /\ DOMAIN executions' = 1..n
               /\ \A i \in 1..Len(executions) :
                     executions'[i] = IF i \in met
                                      THEN [executions[i] EXCEPT !.overlapped = TRUE]
                                      ELSE executions[i]
               /\ executions'[n] =
                     [command |-> command, request |-> EffectRequest(command, effectId),
                      preflight |-> preflight, overlapped |-> met # {}, outcome |-> "open",
                      result |-> Null, capability |-> capabilities[command.capabilityId],
                      adapter |-> adapters[AdapterKey(command)]]
<1> DEFINE N == Len(executions)
           met == OpenWith(command.idempotencyKey)
           marked(i) == IF i \in met THEN [executions[i] EXCEPT !.overlapped = TRUE]
                        ELSE executions[i]
           new == [command |-> command, request |-> EffectRequest(command, effectId),
                   preflight |-> preflight, overlapped |-> met # {}, outcome |-> "open",
                   result |-> Null, capability |-> capabilities[command.capabilityId],
                   adapter |-> adapters[AdapterKey(command)]]
           before == [i \in DOMAIN executions |-> marked(i)]
           S == {marked(i) : i \in 1..N} \cup {new}
<1>1. executions' = Append(before, new)
  BY Zenon DEF Execute
<1>2. N \in Nat /\ DOMAIN executions = 1..N
  BY DEF CallsAreListed
<1> HIDE DEF marked, new
<1>3. before \in Seq(S) /\ Len(before) = N /\ \A i \in 1..N : before[i] = marked(i)
  <2>1. before = [i \in 1..N |-> marked(i)]
    BY <1>2
  <2>2. \A i \in 1..N : marked(i) \in S
    OBVIOUS
  <2> HIDE DEF S, before, N
  <2>3. before \in Seq(S)
    BY <1>2, <2>1, <2>2
  <2> QED  BY <1>2, <2>1, <2>3
<1>4. /\ executions' \in Seq(S)
      /\ Len(executions') = N + 1
      /\ DOMAIN executions' = 1..(N + 1)
      /\ \A i \in 1..N : executions'[i] = marked(i)
      /\ executions'[N + 1] = new
  <2> HIDE DEF before, N
  <2>1. new \in S
    OBVIOUS
  <2> HIDE DEF S
  <2> QED  BY <1>1, <1>2, <1>3, <2>1
<1>5. executions' \in Seq(Calls')
  <2>1. \A i \in 1..Len(executions') : executions'[i] \in Calls'
    BY <1>2, <1>4 DEF Calls
  <2> HIDE DEF S
  <2> QED  BY <1>4, <2>1
<1> QED  BY <1>2, <1>4, <1>5 DEF marked, new

\* What a step leaves of the calls made so far: what was asked, and every answer.
CallsKeep ==
    \A i \in DOMAIN executions :
        /\ i \in DOMAIN executions'
        /\ executions'[i].command = executions[i].command
        /\ executions'[i].request = executions[i].request
        /\ executions'[i].preflight = executions[i].preflight
        /\ executions'[i].capability = executions[i].capability
        /\ executions'[i].adapter = executions[i].adapter
        /\ executions[i].outcome # "open" =>
              /\ executions'[i].outcome = executions[i].outcome
              /\ executions'[i].result = executions[i].result
        /\ executions[i].overlapped => executions'[i].overlapped

\* A new call leaves the others as they were, but for the mark on those it overlaps.
LEMMA ExecuteMarks ==
    ASSUME CallsAreListed, NEW d \in Callers, NEW command \in Commands, NEW effectId \in EffectIds,
           NEW preflight, Execute(d, command, effectId, preflight)
    PROVE  /\ CallsKeep
           /\ \A i \in DOMAIN executions :
                 /\ IsCall(executions'[i])
                 /\ executions'[i].outcome = executions[i].outcome
                 /\ i \in OpenWith(command.idempotencyKey) => executions'[i].overlapped
<1> DEFINE met == OpenWith(command.idempotencyKey)
<1>1. /\ DOMAIN executions = 1..Len(executions)
      /\ DOMAIN executions' = 1..(Len(executions) + 1)
      /\ Len(executions) \in Nat
      /\ \A i \in 1..Len(executions) :
            executions'[i] = IF i \in met THEN [executions[i] EXCEPT !.overlapped = TRUE]
                             ELSE executions[i]
  BY ExecuteStep
<1> SUFFICES ASSUME NEW i \in DOMAIN executions
             PROVE  /\ i \in DOMAIN executions'
                    /\ IsCall(executions'[i])
                    /\ executions'[i].command = executions[i].command
                    /\ executions'[i].request = executions[i].request
                    /\ executions'[i].preflight = executions[i].preflight
                    /\ executions'[i].capability = executions[i].capability
                    /\ executions'[i].adapter = executions[i].adapter
                    /\ executions'[i].outcome = executions[i].outcome
                    /\ executions'[i].result = executions[i].result
                    /\ executions[i].overlapped => executions'[i].overlapped
                    /\ i \in met => executions'[i].overlapped
  BY DEF CallsKeep
<1>2. IsCall(executions[i])
  BY DEF CallsAreListed
<1>3. i \in DOMAIN executions'
  BY <1>1
<1>4. CASE i \notin met
  <2>1. executions'[i] = executions[i]
    BY <1>1, <1>4
  <2> QED  BY <1>2, <1>3, <1>4, <2>1
<1>5. CASE i \in met
  <2> DEFINE e == executions[i]
  <2>1. executions'[i] = [e EXCEPT !.overlapped = TRUE]
    BY <1>1, <1>5
  <2>2. executions'[i] =
           [command |-> e.command, request |-> e.request, preflight |-> e.preflight,
            overlapped |-> TRUE, outcome |-> e.outcome, result |-> e.result,
            capability |-> e.capability, adapter |-> e.adapter]
    BY <1>2, <2>1 DEF IsCall
  <2> QED  BY <1>3, <2>2 DEF IsCall
<1> QED  BY <1>4, <1>5

\* A call under a key the broker does not know keeps the invariant.
LEMMA ExecuteKeepsKeys ==
    ASSUME KeyInv, NEW d \in Callers, NEW command \in Commands, NEW effectId \in EffectIds,
           NEW preflight, ~Known(command.idempotencyKey), dispatches[d] = Idle,
           Execute(d, command, effectId, preflight), cache' = cache
    PROVE  KeyInv'
<1> DEFINE N == Len(executions)
           n == N + 1
           met == OpenWith(command.idempotencyKey)
<1>1. /\ executions' \in Seq(Calls')
      /\ N \in Nat
      /\ DOMAIN executions = 1..N
      /\ DOMAIN executions' = 1..n
      /\ executions'[n] =
            [command |-> command, request |-> EffectRequest(command, effectId),
             preflight |-> preflight, overlapped |-> met # {}, outcome |-> "open",
             result |-> Null, capability |-> capabilities[command.capabilityId],
             adapter |-> adapters[AdapterKey(command)]]
  BY ExecuteStep DEF KeyInv
<1>2. /\ CallsKeep
      /\ \A i \in 1..N :
            /\ IsCall(executions'[i])
            /\ executions'[i].outcome = executions[i].outcome
            /\ i \in met => executions'[i].overlapped
  BY <1>1, ExecuteMarks DEF KeyInv
<1>3. dispatches' = [dispatches EXCEPT ![d] = [at |-> "executing", execution |-> n]]
  BY DEF Execute
<1>4. /\ IsCall(executions'[n])
      /\ executions'[n].command = command
      /\ executions'[n].request = EffectRequest(command, effectId)
      /\ executions'[n].outcome = "open"
      /\ met # {} => executions'[n].overlapped
  <2>1. executions'[n].overlapped = (met # {})
    BY <1>1
  <2>2. met # {} => executions'[n].overlapped
    BY <2>1, Zenon
  <2> QED  BY <1>1, <2>2 DEF IsCall
<1>5. ASSUME NEW i \in 1..n PROVE i \in 1..N \/ i = n
  BY <1>1
<1> HIDE DEF N, n, met
<1>6. CallsAreListed'
  <2>1. ASSUME NEW i \in 1..n
        PROVE  /\ IsCall(executions'[i])
               /\ executions'[i].command \in Commands
               /\ \E id \in EffectIds :
                     executions'[i].request = EffectRequest(executions'[i].command, id)
               /\ executions'[i].outcome \in {"open", "accepted", "refused"}
    <3>1. CASE i = n
      BY <1>4, <3>1
    <3>2. CASE i \in 1..N
      <4>1. /\ executions[i].command \in Commands
            /\ executions[i].outcome \in {"open", "accepted", "refused"}
        BY <1>1, <3>2 DEF KeyInv, CallsAreListed
      <4>2. PICK id \in EffectIds : executions[i].request = EffectRequest(executions[i].command, id)
        BY <1>1, <3>2 DEF KeyInv, CallsAreListed
      <4>3. /\ executions'[i].command = executions[i].command
            /\ executions'[i].request = executions[i].request
            /\ executions'[i].outcome = executions[i].outcome
            /\ IsCall(executions'[i])
        BY <1>1, <1>2, <3>2 DEF CallsKeep
      <4>4. executions'[i].request = EffectRequest(executions'[i].command, id)
        BY <4>2, <4>3
      <4> QED  BY <4>1, <4>3, <4>4
    <3> QED  BY <1>5, <3>1, <3>2
  <2>2. /\ dispatches' = [o \in Callers |-> dispatches'[o]]
        /\ dispatches'[d] = [at |-> "executing", execution |-> n]
        /\ \A o \in Callers : o # d => dispatches'[o] = dispatches[o]
    BY <1>3 DEF KeyInv, CallsAreListed
  <2>3. ASSUME NEW o \in Callers, Executing(o)'
        PROVE  /\ dispatches'[o].execution \in 1..n
               /\ executions'[dispatches'[o].execution].outcome = "open"
               /\ o # d => dispatches'[o].execution # n
    <3>1. CASE o = d
      BY <1>1, <1>4, <2>2, <3>1 DEF n
    <3>2. CASE o # d
      BY <1>1, <1>2, <2>2, <2>3, <3>2 DEF KeyInv, CallsAreListed, Executing, n
    <3> QED  BY <3>1, <3>2
  <2>4. ASSUME NEW o \in Callers, NEW q \in Callers, Executing(o)', Executing(q)',
               dispatches'[o].execution = dispatches'[q].execution
        PROVE  o = q
    BY <2>2, <2>3, <2>4 DEF KeyInv, CallsAreListed, Executing
  <2> QED  BY <1>1, <2>1, <2>2, <2>3, <2>4 DEF CallsAreListed
<1>7. KeysAreRemembered'
  BY <1>1, <1>2, <1>4, <1>5 DEF KeyInv, KeysAreRemembered, CallsKeep, KeyOf
<1>8. ASSUME NEW i \in 1..N, executions[i].outcome = "open",
             KeyOf(executions[i]) = command.idempotencyKey, command.idempotencyKey # Null
      PROVE  executions'[i].overlapped /\ executions'[n].overlapped
  <2>1. i \in met
    BY <1>1, <1>8 DEF met, OpenWith, KeyOf
  <2> QED  BY <1>2, <1>4, <2>1
<1>9. OverlapsAreSeen'
  <2>1. ASSUME NEW i \in 1..n, NEW j \in 1..n, i # j,
               executions'[i].outcome = "open", executions'[j].outcome = "open",
               KeyOf(executions'[i]) = KeyOf(executions'[j]), KeyOf(executions'[i]) # Null
        PROVE  executions'[i].overlapped
    <3>1. CASE i \in 1..N /\ j \in 1..N
      BY <1>1, <1>2, <2>1, <3>1 DEF KeyInv, OverlapsAreSeen, CallsKeep, KeyOf
    <3>2. CASE i \in 1..N /\ j = n
      BY <1>1, <1>2, <1>4, <1>8, <2>1, <3>2 DEF CallsKeep, KeyOf
    <3>3. CASE i = n /\ j \in 1..N
      BY <1>1, <1>2, <1>4, <1>8, <2>1, <3>3 DEF CallsKeep, KeyOf
    <3> QED  BY <1>5, <2>1, <3>1, <3>2, <3>3
  <2>2. ASSUME NEW i \in 1..n, executions'[i].outcome = "open", KeyOf(executions'[i]) # Null,
               KeyOf(executions'[i]) \in DOMAIN cache
        PROVE  executions'[i].overlapped
    <3>1. CASE i \in 1..N
      BY <1>1, <1>2, <2>2, <3>1 DEF KeyInv, OverlapsAreSeen, CallsKeep, KeyOf
    <3>2. CASE i = n
      BY <1>4, <2>2, <3>2 DEF Known, KeyOf
    <3> QED  BY <1>5, <3>1, <3>2
  <2> QED  BY <1>1, <2>1, <2>2 DEF OverlapsAreSeen
<1>10. KeysRunOnce'
  <2>1. ASSUME NEW i \in 1..n, NEW j \in 1..n, i < j,
               KeyOf(executions'[i]) = KeyOf(executions'[j]), KeyOf(executions'[i]) # Null
        PROVE  \/ executions'[i].overlapped /\ executions'[j].overlapped
               \/ executions'[i].outcome = "refused" /\ executions'[i].preflight = Null
    <3>1. i \in 1..N
      BY <1>1, <2>1 DEF n
    <3>2. CASE j \in 1..N
      BY <1>1, <1>2, <2>1, <3>1, <3>2 DEF KeyInv, KeysRunOnce, CallsKeep, KeyOf
    <3>3. CASE j = n
      <4>1. KeyOf(executions[i]) = command.idempotencyKey /\ command.idempotencyKey # Null
        BY <1>1, <1>2, <1>4, <2>1, <3>1, <3>3 DEF CallsKeep, KeyOf
      <4>2. CASE executions[i].outcome = "open"
        BY <1>8, <3>1, <3>3, <4>1, <4>2
      <4>3. CASE executions[i].outcome # "open"
        <5>1. executions[i].outcome = "refused" /\ executions[i].preflight = Null
          BY <1>1, <3>1, <4>1, <4>3
             DEF KeyInv, CallsAreListed, KeysAreRemembered, Known, KeyOf
        <5> QED  BY <1>1, <1>2, <3>1, <5>1 DEF CallsKeep
      <4> QED  BY <4>2, <4>3
    <3> QED  BY <1>5, <3>2, <3>3
  <2> QED  BY <1>1, <2>1 DEF KeysRunOnce
<1> QED  BY <1>6, <1>7, <1>9, <1>10 DEF KeyInv

\* What an answer does: it closes the call it is for, leaves all others alone, and
\* changes the cache under the key of the call at most.
LEMMA AnswerStep ==
    ASSUME CallsAreListed, NEW d \in Callers, Executing(d), NEW answer, Answered(d, answer)
    PROVE  LET i == dispatches[d].execution
               e == executions[i]
           IN  /\ i \in DOMAIN executions /\ e.outcome = "open"
               /\ DOMAIN executions' = DOMAIN executions
               /\ executions' \in Seq(Calls')
               /\ \A j \in DOMAIN executions : j # i => executions'[j] = executions[j]
               /\ IsCall(executions'[i])
               /\ executions'[i].overlapped = e.overlapped
               /\ executions'[i].outcome \in {"accepted", "refused"}
               /\ CallsKeep
               /\ dispatches' = [o \in Callers |-> dispatches'[o]]
               /\ \A o \in Callers : o # d => dispatches'[o] = dispatches[o]
               /\ ~Executing(d)'
               /\ \A key \in DOMAIN cache :
                     /\ key \in DOMAIN cache'
                     /\ key # KeyOf(e) \/ key = Null => cache'[key] = cache[key]
               /\ \A key \in DOMAIN cache' : key # KeyOf(e) => key \in DOMAIN cache
               /\ /\ KeyOf(e) # Null
                  /\ executions'[i].outcome = "accepted" \/ e.preflight # Null
                  => KeyOf(e) \in DOMAIN cache'
<1> DEFINE i == dispatches[d].execution
           e == executions[i]
           error == AnswerError(answer, e)
           given == [request |-> e.request, receipt |-> answer.receipt,
                     observation |-> answer.observation]
<1>1. /\ i \in DOMAIN executions /\ e.outcome = "open"
      /\ IsCall(e)
      /\ executions \in Seq(Calls)
      /\ dispatches = [o \in Callers |-> dispatches[o]]
  BY DEF CallsAreListed
<1>2. /\ \A key, entry, k : /\ k \in DOMAIN cache => k \in DOMAIN Remembered(key, entry)
                            /\ k \in DOMAIN cache /\ (k # key \/ k = Null)
                                  => Remembered(key, entry)[k] = cache[k]
                            /\ k \in DOMAIN Remembered(key, entry) /\ k # key => k \in DOMAIN cache
      /\ \A key, entry : key # Null => key \in DOMAIN Remembered(key, entry)
  BY DEF Remembered, Registered
<1>3. ASSUME NEW call, executions' = [executions EXCEPT ![i] = call], IsCall(call),
             call.command = e.command, call.request = e.request, call.preflight = e.preflight,
             call.capability = e.capability, call.adapter = e.adapter,
             call.overlapped = e.overlapped, call.outcome \in {"accepted", "refused"}
      PROVE  /\ DOMAIN executions' = DOMAIN executions
             /\ executions' \in Seq(Calls')
             /\ \A j \in DOMAIN executions : j # i => executions'[j] = executions[j]
             /\ executions'[i] = call
             /\ CallsKeep
  <2>1. /\ DOMAIN executions' = DOMAIN executions
        /\ \A j \in DOMAIN executions : j # i => executions'[j] = executions[j]
        /\ executions'[i] = call
    BY <1>1, <1>3
  <2>2. CallsKeep
    BY <1>1, <1>3, <2>1 DEF CallsKeep
  <2>3. executions' \in Seq(Calls')
    <3>1. Len(executions) \in Nat /\ DOMAIN executions = 1..Len(executions)
      BY <1>1
    <3>2. executions' = [j \in 1..Len(executions) |-> executions'[j]]
      BY <1>3, <2>1, <3>1
    <3>3. \A j \in 1..Len(executions) : executions'[j] \in Calls'
      BY <2>1, <3>1 DEF Calls
    <3> QED  BY <3>1, <3>2, <3>3
  <2> QED  BY <2>1, <2>2, <2>3
<1>4. CASE error = Null
  <2> DEFINE call == [command |-> e.command, request |-> e.request, preflight |-> e.preflight,
                      overlapped |-> e.overlapped, outcome |-> "accepted", result |-> given,
                      capability |-> e.capability, adapter |-> e.adapter]
  <2>1. Accept(d, e, given)
    BY <1>4, Zenon DEF Answered
  <2>2. executions' = [executions EXCEPT ![i] = call]
    <3>1. executions' = [executions EXCEPT ![i] =
                           [[e EXCEPT !.outcome = "accepted"] EXCEPT !.result = given]]
      BY <1>1, <2>1 DEF Accept
    <3> DEFINE closed == [e EXCEPT !.outcome = "accepted"]
    <3> HIDE DEF e, given
    <3>2. closed =
             [command |-> e.command, request |-> e.request, preflight |-> e.preflight,
              overlapped |-> e.overlapped, outcome |-> "accepted", result |-> e.result,
              capability |-> e.capability, adapter |-> e.adapter]
      BY <1>1 DEF IsCall
    <3>3. [closed EXCEPT !.result = given] = call
      <4> HIDE DEF closed
      <4> QED  BY <3>2
    <3> QED  BY <3>1, <3>3
  <2>3. /\ cache' = Remembered(KeyOf(e), [fingerprint |-> IdempotencyFingerprint(e.command),
                                          quarantine |-> Null, result |-> given])
        /\ dispatches' = [dispatches EXCEPT ![d] = Returned(e.command, "dispatched", given)]
    BY <2>1 DEF Accept, KeyOf
  <2>4. /\ dispatches' = [o \in Callers |-> dispatches'[o]]
        /\ \A o \in Callers : o # d => dispatches'[o] = dispatches[o]
        /\ ~Executing(d)'
    BY <1>1, <2>3 DEF Returned, Executing
  <2>5. /\ DOMAIN executions' = DOMAIN executions
        /\ executions' \in Seq(Calls')
        /\ \A j \in DOMAIN executions : j # i => executions'[j] = executions[j]
        /\ executions'[i] = call
        /\ CallsKeep
    <3>1. /\ IsCall(call)
          /\ call.command = e.command /\ call.request = e.request
          /\ call.preflight = e.preflight /\ call.capability = e.capability
          /\ call.adapter = e.adapter /\ call.overlapped = e.overlapped
          /\ call.outcome \in {"accepted", "refused"}
      BY DEF IsCall
    <3> HIDE DEF call, e, i
    <3> QED  BY <1>3, <2>2, <3>1
  <2> QED  BY <1>1, <1>2, <2>3, <2>4, <2>5 DEF IsCall
<1>5. CASE error # Null
  <2> DEFINE call == [command |-> e.command, request |-> e.request, preflight |-> e.preflight,
                      overlapped |-> e.overlapped, outcome |-> "refused", result |-> e.result,
                      capability |-> e.capability, adapter |-> e.adapter]
  <2>1. Refuse(d, e, error)
    BY <1>5, Zenon DEF Answered
  <2>2. executions' = [executions EXCEPT ![i] = call]
    <3>1. executions' = [executions EXCEPT ![i] = [e EXCEPT !.outcome = "refused"]]
      BY <1>1, <2>1 DEF Refuse
    <3>2. [e EXCEPT !.outcome = "refused"] = call
      BY <1>1 DEF IsCall
    <3> QED  BY <3>1, <3>2
  <2>3. \/ cache' = cache /\ e.preflight = Null
        \/ \E entry : cache' = Remembered(KeyOf(e), entry)
    BY <2>1 DEF Refuse, KeyOf
  <2>4. /\ dispatches' = [o \in Callers |-> dispatches'[o]]
        /\ \A o \in Callers : o # d => dispatches'[o] = dispatches[o]
        /\ ~Executing(d)'
    BY <1>1, <2>1 DEF Refuse, Threw, Executing
  <2>5. /\ DOMAIN executions' = DOMAIN executions
        /\ executions' \in Seq(Calls')
        /\ \A j \in DOMAIN executions : j # i => executions'[j] = executions[j]
        /\ executions'[i] = call
        /\ CallsKeep
    <3>1. /\ IsCall(call)
          /\ call.command = e.command /\ call.request = e.request
          /\ call.preflight = e.preflight /\ call.capability = e.capability
          /\ call.adapter = e.adapter /\ call.overlapped = e.overlapped
          /\ call.outcome \in {"accepted", "refused"}
      BY DEF IsCall
    <3> HIDE DEF call, e, i
    <3> QED  BY <1>3, <2>2, <3>1
  <2> QED  BY <1>1, <1>2, <2>3, <2>4, <2>5 DEF IsCall
<1> QED  BY <1>4, <1>5

\* An answer keeps the invariant.
LEMMA AnswerKeepsKeys ==
    ASSUME KeyInv, NEW d \in Callers, Executing(d), NEW answer, Answered(d, answer)
    PROVE  KeyInv'
<1> DEFINE i == dispatches[d].execution
           e == executions[i]
<1>1. /\ i \in DOMAIN executions /\ e.outcome = "open"
      /\ DOMAIN executions' = DOMAIN executions
      /\ executions' \in Seq(Calls')
      /\ \A j \in DOMAIN executions : j # i => executions'[j] = executions[j]
      /\ IsCall(executions'[i])
      /\ executions'[i].overlapped = e.overlapped
      /\ executions'[i].outcome \in {"accepted", "refused"}
      /\ CallsKeep
      /\ dispatches' = [o \in Callers |-> dispatches'[o]]
      /\ \A o \in Callers : o # d => dispatches'[o] = dispatches[o]
      /\ ~Executing(d)'
      /\ \A key \in DOMAIN cache : key \in DOMAIN cache'
      /\ \A key \in DOMAIN cache' : key # KeyOf(e) => key \in DOMAIN cache
      /\ /\ KeyOf(e) # Null
         /\ executions'[i].outcome = "accepted" \/ e.preflight # Null
         => KeyOf(e) \in DOMAIN cache'
  BY AnswerStep DEF KeyInv
<1>2. /\ executions'[i].command = e.command
      /\ executions'[i].request = e.request
      /\ executions'[i].preflight = e.preflight
  BY <1>1 DEF CallsKeep
<1>3. \A o \in Callers : Executing(o) /\ o # d => dispatches[o].execution # i
  BY DEF KeyInv, CallsAreListed
<1> HIDE DEF i, e
<1>4. CallsAreListed'
  <2>1. ASSUME NEW j \in DOMAIN executions
        PROVE  /\ IsCall(executions'[j])
               /\ executions'[j].command \in Commands
               /\ \E id \in EffectIds :
                     executions'[j].request = EffectRequest(executions'[j].command, id)
               /\ executions'[j].outcome \in {"open", "accepted", "refused"}
    <3>1. /\ IsCall(executions[j])
          /\ executions[j].command \in Commands
          /\ executions[j].outcome \in {"open", "accepted", "refused"}
      BY DEF KeyInv, CallsAreListed
    <3>2. PICK id \in EffectIds : executions[j].request = EffectRequest(executions[j].command, id)
      BY DEF KeyInv, CallsAreListed
    <3>3. CASE j # i
      BY <1>1, <3>1, <3>2, <3>3
    <3>4. CASE j = i
      <4>1. executions'[j].request = EffectRequest(executions'[j].command, id)
        BY <1>2, <3>2, <3>4 DEF e
      <4> QED  BY <1>1, <1>2, <3>1, <3>4, <4>1 DEF e
    <3> QED  BY <3>3, <3>4
  <2>2. ASSUME NEW o \in Callers, Executing(o)'
        PROVE  /\ o # d /\ Executing(o)
               /\ dispatches'[o] = dispatches[o]
               /\ dispatches'[o].execution \in DOMAIN executions'
               /\ executions'[dispatches'[o].execution].outcome = "open"
    BY <1>1, <1>3, <2>2 DEF KeyInv, CallsAreListed, Executing
  <2>3. \A o, q \in Callers :
           Executing(o)' /\ Executing(q)' /\ dispatches'[o].execution = dispatches'[q].execution
              => o = q
    BY <2>2 DEF KeyInv, CallsAreListed
  <2> QED  BY <1>1, <2>1, <2>2, <2>3 DEF CallsAreListed
<1>5. KeysAreRemembered'
  <2> SUFFICES ASSUME NEW j \in DOMAIN executions, KeyOf(executions'[j]) # Null,
                      \/ executions'[j].outcome = "accepted"
                      \/ executions'[j].outcome = "refused" /\ executions'[j].preflight # Null
               PROVE  KeyOf(executions'[j]) \in DOMAIN cache'
    BY <1>1 DEF KeysAreRemembered
  <2>1. CASE j # i
    BY <1>1, <2>1 DEF KeyInv, KeysAreRemembered
  <2>2. CASE j = i
    BY <1>1, <1>2, <2>2 DEF KeyOf
  <2> QED  BY <2>1, <2>2
<1>6. OverlapsAreSeen'
  <2>1. ASSUME NEW j \in DOMAIN executions, executions'[j].outcome = "open"
        PROVE  j # i /\ executions'[j] = executions[j]
    BY <1>1, <2>1
  <2>2. ASSUME NEW j \in DOMAIN executions, NEW k \in DOMAIN executions, j # k,
               executions'[j].outcome = "open", executions'[k].outcome = "open",
               KeyOf(executions'[j]) = KeyOf(executions'[k]), KeyOf(executions'[j]) # Null
        PROVE  executions'[j].overlapped
    <3>1. executions'[j] = executions[j] /\ executions'[k] = executions[k]
      BY <2>1, <2>2
    <3> QED  BY <2>2, <3>1 DEF KeyInv, OverlapsAreSeen
  <2>3. ASSUME NEW j \in DOMAIN executions, executions'[j].outcome = "open",
               KeyOf(executions'[j]) # Null, KeyOf(executions'[j]) \in DOMAIN cache'
        PROVE  executions'[j].overlapped
    <3>1. j # i /\ executions'[j] = executions[j]
      BY <2>1, <2>3
    <3>2. CASE KeyOf(executions[j]) = KeyOf(e)
      BY <1>1, <2>3, <3>1, <3>2 DEF KeyInv, OverlapsAreSeen, e
    <3>3. CASE KeyOf(executions[j]) # KeyOf(e)
      BY <1>1, <2>3, <3>1, <3>3 DEF KeyInv, OverlapsAreSeen
    <3> QED  BY <3>2, <3>3
  <2> QED  BY <1>1, <2>2, <2>3 DEF OverlapsAreSeen
<1>7. KeysRunOnce'
  <2> SUFFICES ASSUME NEW j \in DOMAIN executions, NEW k \in DOMAIN executions, j < k,
                      KeyOf(executions'[j]) = KeyOf(executions'[k]), KeyOf(executions'[j]) # Null
               PROVE  \/ executions'[j].overlapped /\ executions'[k].overlapped
                      \/ executions'[j].outcome = "refused" /\ executions'[j].preflight = Null
    BY <1>1 DEF KeysRunOnce
  <2>1. KeyOf(executions[j]) = KeyOf(executions[k]) /\ KeyOf(executions[j]) # Null
    BY <1>1 DEF CallsKeep, KeyOf
  <2>2. \/ executions[j].overlapped /\ executions[k].overlapped
        \/ executions[j].outcome = "refused" /\ executions[j].preflight = Null
    BY <2>1 DEF KeyInv, KeysRunOnce
  <2> QED  BY <1>1, <2>2 DEF CallsKeep
<1> QED  BY <1>4, <1>5, <1>6, <1>7 DEF KeyInv

\* ------------------------------------------------------------------------
\* Every step keeps the invariant.

\* A step that makes and answers no call.
LEMMA QuietKeepsKeys ==
    ASSUME KeyInv, executions' = executions, cache' = cache,
           dispatches' = [o \in Callers |-> dispatches'[o]],
           \A o \in Callers : Executing(o)' => dispatches'[o] = dispatches[o]
    PROVE  KeyInv'
<1>1. CallsAreListed'
  BY DEF KeyInv, CallsAreListed, Calls, Executing
<1>2. KeysAreRemembered' /\ OverlapsAreSeen' /\ KeysRunOnce'
  BY DEF KeyInv, KeysAreRemembered, OverlapsAreSeen, KeysRunOnce
<1> QED  BY <1>1, <1>2 DEF KeyInv

\* What #dispatch does: it answers at once, or it calls the adapter when no check
\* failed and the key is unknown.
LEMMA DispatchStep ==
    ASSUME NEW d, NEW command, NEW effectId, NEW preflight, NEW error,
           Dispatch(d, command, effectId, preflight, error)
    PROVE  /\ dispatches[d] = Idle
           /\ UNCHANGED <<registry, decisions, cache>>
           /\ \/ /\ executions' = executions
                 /\ dispatches' = [dispatches EXCEPT ![d] = IF error # Null THEN Threw(error)
                                                            ELSE FromCache(command)]
                 /\ error = Null => Known(command.idempotencyKey)
              \/ /\ error = Null
                 /\ ~Known(command.idempotencyKey)
                 /\ Execute(d, command, effectId, preflight)
BY DEF Dispatch, registry

\* A dispatch keeps the invariant, whether it is answered from the cache or calls.
LEMMA DispatchKeepsKeys ==
    ASSUME KeyInv, NEW d \in Callers, NEW command \in Commands, NEW effectId \in EffectIds,
           NEW preflight, NEW error, Dispatch(d, command, effectId, preflight, error)
    PROVE  KeyInv'
<1>1. cache' = cache /\ dispatches[d] = Idle
  BY DispatchStep DEF registry
<1>2. CASE ~Known(command.idempotencyKey) /\ Execute(d, command, effectId, preflight)
  BY <1>1, <1>2, ExecuteKeepsKeys
<1>3. ASSUME executions' = executions, NEW outcome, outcome.at # "executing",
             dispatches' = [dispatches EXCEPT ![d] = outcome]
      PROVE  KeyInv'
  <2>1. dispatches = [o \in Callers |-> dispatches[o]]
    BY DEF KeyInv, CallsAreListed
  <2>2. /\ dispatches' = [o \in Callers |-> dispatches'[o]]
        /\ \A o \in Callers : Executing(o)' => dispatches'[o] = dispatches[o]
    BY <1>3, <2>1 DEF Executing
  <2> QED  BY <1>1, <1>3, <2>2, QuietKeepsKeys
<1>4. Threw(error).at # "executing" /\ FromCache(command).at # "executing"
  BY DEF Threw, FromCache, Returned
<1> QED  BY <1>2, <1>3, <1>4, DispatchStep

\* The calls of adapters and their answers are what changes history and cache.
LEMMA OtherSteps ==
    ASSUME CallsAreListed, Next,
           ~(\E d \in Callers, c \in Commands, id \in EffectIds : DirectDispatch(d, c, id)),
           ~(\E d \in Callers, c \in Commands, id \in EffectIds, p \in PresentedDecisions :
                DispatchWithPreflight(d, c, id, p)),
           ~(\E d \in Callers : AdapterAnswers(d))
    PROVE  /\ executions' = executions /\ cache' = cache
           /\ dispatches' = [o \in Callers |-> dispatches'[o]]
           /\ \A o \in Callers : dispatches'[o] = dispatches[o] \/ dispatches'[o] = Idle
<1>1. dispatches = [o \in Callers |-> dispatches[o]]
  BY DEF CallsAreListed
<1>2. ASSUME NEW c \in Capabilities, RegisterCapability(c)
      PROVE  UNCHANGED <<executions, cache, dispatches>>
  BY <1>2 DEF RegisterCapability
<1>3. ASSUME NEW a \in Adapters, RegisterAdapter(a)
      PROVE  UNCHANGED <<executions, cache, dispatches>>
  BY <1>3 DEF RegisterAdapter
<1>4. ASSUME NEW c \in Commands, NEW id \in PreflightIds, NEW t \in DecisionTimes,
             PreflightWrite(c, id, t)
      PROVE  UNCHANGED <<executions, cache, dispatches>>
  BY <1>4 DEF PreflightWrite
<1>5. ASSUME NEW d \in Callers, PickUp(d)
      PROVE  /\ UNCHANGED <<executions, cache>>
             /\ dispatches' = [dispatches EXCEPT ![d] = Idle]
  BY <1>5 DEF PickUp
<1> QED  BY <1>1, <1>2, <1>3, <1>4, <1>5 DEF Next

\* Every step of the broker keeps the invariant.
LEMMA KeysStep ==
    ASSUME KeyInv, Next
    PROVE  KeyInv'
<1>1. CASE \E d \in Callers, c \in Commands, id \in EffectIds : DirectDispatch(d, c, id)
  BY <1>1, DispatchKeepsKeys DEF DirectDispatch
<1>2. CASE \E d \in Callers, c \in Commands, id \in EffectIds, p \in PresentedDecisions :
              DispatchWithPreflight(d, c, id, p)
  BY <1>2, DispatchKeepsKeys DEF DispatchWithPreflight
<1>3. CASE \E d \in Callers : AdapterAnswers(d)
  BY <1>3, AnswerKeepsKeys DEF AdapterAnswers, Executing
<1>4. CASE /\ executions' = executions /\ cache' = cache
           /\ dispatches' = [o \in Callers |-> dispatches'[o]]
           /\ \A o \in Callers : dispatches'[o] = dispatches[o] \/ dispatches'[o] = Idle
  <2>1. \A o \in Callers : Executing(o)' => dispatches'[o] = dispatches[o]
    BY <1>4 DEF Executing, Idle
  <2> QED  BY <1>4, <2>1, QuietKeepsKeys
<1> QED  BY <1>1, <1>2, <1>3, <1>4, OtherSteps DEF KeyInv

\* The invariant about keys, for every run of the broker.
THEOREM KeysHold == Spec => []KeyInv
<1>1. Init => KeyInv
  <2> SUFFICES ASSUME Init PROVE KeyInv
    OBVIOUS
  <2>1. executions = <<>> /\ DOMAIN executions = {} /\ executions \in Seq(Calls)
    BY DEF Init
  <2>2. /\ dispatches = [d \in Callers |-> dispatches[d]]
        /\ \A d \in Callers : ~Executing(d)
    BY DEF Init, Executing, Idle
  <2> QED  BY <2>1, <2>2
           DEF KeyInv, CallsAreListed, KeysAreRemembered, OverlapsAreSeen, KeysRunOnce
<1>2. KeyInv /\ [Next]_brokerVars => KeyInv'
  <2> SUFFICES ASSUME KeyInv, [Next]_brokerVars PROVE KeyInv'
    OBVIOUS
  <2>1. CASE Next
    BY <2>1, KeysStep
  <2>2. CASE UNCHANGED brokerVars
    <3>1. executions' = executions /\ cache' = cache /\ dispatches' = dispatches
      BY <2>2 DEF brokerVars
    <3>2. dispatches = [o \in Callers |-> dispatches[o]]
      BY DEF KeyInv, CallsAreListed
    <3> QED  BY <3>1, <3>2, QuietKeepsKeys
  <2> QED  BY <2>1, <2>2
<1> QED  BY <1>1, <1>2, PTL DEF Spec

\* An idempotency key reaches an adapter twice only while its first call is open, or
\* after a read that failed; a write is never repeated after its answer.
THEOREM KeysReachAdaptersOnce == Spec => []KeysRunOnce
<1>1. KeyInv => KeysRunOnce
  BY DEF KeyInv
<1> QED  BY <1>1, KeysHold, PTL

\* ------------------------------------------------------------------------
\* What is remembered stays.

\* What the broker remembers of a key, a quarantine above all, is replaced only by
\* the answer to a call that overlapped another one with the key.
THEOREM RememberedStays == Spec => CacheEntriesStay
<1> DEFINE Kept ==
        \A key \in DOMAIN cache :
            cache'[key] # cache[key] =>
                \E i \in DOMAIN executions :
                    /\ executions[i].outcome = "open" /\ executions'[i].outcome # "open"
                    /\ KeyOf(executions[i]) = key
                    /\ executions[i].overlapped
<1>1. KeyInv /\ [Next]_brokerVars => [Kept]_brokerVars
  <2> SUFFICES ASSUME KeyInv, Next, NEW key \in DOMAIN cache, cache'[key] # cache[key]
               PROVE  \E i \in DOMAIN executions :
                          /\ executions[i].outcome = "open" /\ executions'[i].outcome # "open"
                          /\ KeyOf(executions[i]) = key
                          /\ executions[i].overlapped
    OBVIOUS
  <2>1. PICK d \in Callers : AdapterAnswers(d)
    <3>1. cache' # cache
      OBVIOUS
    <3>2. ASSUME NEW d \in Callers, NEW c \in Commands, NEW id \in EffectIds, NEW p, NEW error,
                 Dispatch(d, c, id, p, error)
          PROVE  cache' = cache
      BY <3>2 DEF Dispatch
    <3> QED  BY <3>1, <3>2, OtherSteps DEF KeyInv, DirectDispatch, DispatchWithPreflight
  <2> DEFINE i == dispatches[d].execution
  <2>2. PICK answer : Answered(d, answer)
    BY <2>1 DEF AdapterAnswers
  <2>3. /\ i \in DOMAIN executions /\ executions[i].outcome = "open"
        /\ executions'[i].outcome # "open"
        /\ key = KeyOf(executions[i]) /\ key # Null
    BY <2>1, <2>2, AnswerStep DEF KeyInv, AdapterAnswers, Executing
  <2>4. executions[i].overlapped
    BY <2>3 DEF KeyInv, OverlapsAreSeen
  <2> QED  BY <2>3, <2>4
<1>2. CacheEntriesStay <=> [][Kept]_brokerVars
  BY PTL DEF CacheEntriesStay
<1> QED  BY <1>1, <1>2, KeysHold, PTL DEF Spec

\* ------------------------------------------------------------------------
\* Writes are cleared.

\* No write reaches an adapter but on the decision the broker made last under its
\* preflight id, for this very command, with capability and adapter as it says.
THEOREM WritesReachAdaptersCleared == Spec => WritesAreCleared
<1> DEFINE Cleared ==
        \A i \in (DOMAIN executions') \ (DOMAIN executions) :
          LET e == executions'[i]
          IN  e.command.sideEffectClass \in WriteCapable =>
                /\ \E p \in DOMAIN decisions :
                      /\ decisions[p].decision = e.preflight
                      /\ decisions[p].fingerprint = e.command
                      /\ e.preflight.status = "allowed"
                /\ e.command.idempotencyKey # Null
                /\ {e.command.sideEffectClass, e.capability.sideEffectClass,
                    e.adapter.certification.sideEffectClass} \in {{c} : c \in GovernedWrites}
                /\ e.adapter.certification.receiptTypes \subseteq e.capability.receiptTypes
<1>1. ASSUME KeyInv, NEW i \in (DOMAIN executions') \ (DOMAIN executions),
             NEW d \in Callers, NEW command \in Commands, NEW effectId \in EffectIds,
             NEW preflight, NEW error, Dispatch(d, command, effectId, preflight, error)
      PROVE  /\ error = Null
             /\ executions'[i].command = command
             /\ executions'[i].preflight = preflight
             /\ executions'[i].capability = capabilities[command.capabilityId]
             /\ executions'[i].adapter = adapters[AdapterKey(command)]
  <2>1. error = Null /\ Execute(d, command, effectId, preflight)
    BY <1>1, DispatchStep
  <2> DEFINE n == Len(executions) + 1
  <2>2. CallsAreListed
    BY <1>1 DEF KeyInv
  <2>3. /\ Len(executions) \in Nat
        /\ DOMAIN executions = 1..Len(executions)
        /\ DOMAIN executions' = 1..n
        /\ executions'[n] =
              [command |-> command, request |-> EffectRequest(command, effectId),
               preflight |-> preflight,
               overlapped |-> OpenWith(command.idempotencyKey) # {}, outcome |-> "open",
               result |-> Null, capability |-> capabilities[command.capabilityId],
               adapter |-> adapters[AdapterKey(command)]]
    BY <2>1, <2>2, ExecuteStep
  <2>4. i = n
    BY <2>3
  <2> QED  BY <2>1, <2>3, <2>4
<1>2. ASSUME KeyInv, NEW i \in (DOMAIN executions') \ (DOMAIN executions),
             NEW d \in Callers, NEW command \in Commands, NEW effectId \in EffectIds,
             DirectDispatch(d, command, effectId)
      PROVE  executions'[i].command.sideEffectClass \notin WriteCapable
  <2>1. FirstOf(RegistrationError(command), DirectError(command)) = Null
    BY <1>1, <1>2 DEF DirectDispatch
  <2>2. DirectError(command) = Null
    BY <2>1 DEF FirstOf
  <2>3. command.sideEffectClass \notin WriteCapable
    BY <2>2, NullIsNoError DEF DirectError, ErrorCodes
  <2> QED  BY <1>1, <1>2, <2>3 DEF DirectDispatch
<1>3. ASSUME KeyInv, NEW i \in (DOMAIN executions') \ (DOMAIN executions),
             NEW d \in Callers, NEW command \in Commands, NEW effectId \in EffectIds,
             NEW decision, DispatchWithPreflight(d, command, effectId, decision)
      PROVE  LET e == executions'[i]
             IN  /\ \E p \in DOMAIN decisions :
                       /\ decisions[p].decision = e.preflight
                       /\ decisions[p].fingerprint = e.command
                       /\ e.preflight.status = "allowed"
                 /\ e.command.idempotencyKey # Null
                 /\ {e.command.sideEffectClass, e.capability.sideEffectClass,
                     e.adapter.certification.sideEffectClass} \in {{c} : c \in GovernedWrites}
                 /\ e.adapter.certification.receiptTypes \subseteq e.capability.receiptTypes
  <2> DEFINE e == executions'[i]
             class == command.sideEffectClass
  <2>1. /\ e.command = command /\ e.preflight = decision
        /\ e.capability = capabilities[command.capabilityId]
        /\ e.adapter = adapters[AdapterKey(command)]
        /\ FirstOf(PreflightError(command, decision),
                   FirstOf(RegistrationError(command), DispatchableError(command))) = Null
    BY <1>1, <1>3 DEF DispatchWithPreflight
  <2>2. /\ PreflightError(command, decision) = Null
        /\ RegistrationError(command) = Null
        /\ DispatchableError(command) = Null
    BY <2>1 DEF FirstOf
  <2>3. /\ class \in WriteCapable
        /\ decision.preflightId \in DOMAIN decisions
        /\ decisions[decision.preflightId].decision = decision
        /\ decisions[decision.preflightId].fingerprint = command
        /\ decision.status = "allowed"
    <3>1. decision = Decision(command, decision.preflightId, <<"allowed", Null>>,
                              decision.decidedAt)
      BY <2>2, PreflightErrorNull
    <3>2. Decision(command, decision.preflightId, <<"allowed", Null>>, decision.decidedAt).status
            = "allowed"
      BY DEF Decision
    <3> QED  BY <2>2, <3>1, <3>2, PreflightErrorNull DEF PreflightFingerprint
  <2>4. class \in GovernedWrites /\ command.idempotencyKey # Null
    BY <2>2, <2>3, DispatchableErrorNull DEF WriteCapable
  <2>5. /\ e.capability.sideEffectClass = class
        /\ e.adapter.certification.sideEffectClass = class
        /\ e.adapter.certification.receiptTypes \subseteq e.capability.receiptTypes
    BY <2>1, <2>2, RegistrationErrorNull
  <2>6. {e.command.sideEffectClass, e.capability.sideEffectClass,
         e.adapter.certification.sideEffectClass} = {class}
    BY <2>1, <2>5
  <2> HIDE DEF e
  <2> QED  BY <2>1, <2>3, <2>4, <2>5, <2>6 DEF e
<1>4. ASSUME KeyInv, NEW d \in Callers, AdapterAnswers(d)
      PROVE  DOMAIN executions' = DOMAIN executions
  BY <1>4, AnswerStep DEF KeyInv, AdapterAnswers, Executing
<1>5. KeyInv /\ [Next]_brokerVars => [Cleared]_brokerVars
  <2> SUFFICES ASSUME KeyInv, Next, NEW i \in (DOMAIN executions') \ (DOMAIN executions),
                      executions'[i].command.sideEffectClass \in WriteCapable
               PROVE  LET e == executions'[i]
                      IN  /\ \E p \in DOMAIN decisions :
                                /\ decisions[p].decision = e.preflight
                                /\ decisions[p].fingerprint = e.command
                                /\ e.preflight.status = "allowed"
                          /\ e.command.idempotencyKey # Null
                          /\ {e.command.sideEffectClass, e.capability.sideEffectClass,
                              e.adapter.certification.sideEffectClass}
                                \in {{c} : c \in GovernedWrites}
                          /\ e.adapter.certification.receiptTypes \subseteq e.capability.receiptTypes
    OBVIOUS
  <2>1. \E d \in Callers, c \in Commands, id \in EffectIds, p \in PresentedDecisions :
           DispatchWithPreflight(d, c, id, p)
    BY <1>2, <1>4, OtherSteps DEF KeyInv
  <2> QED  BY <1>3, <2>1
<1>6. WritesAreCleared <=> [][Cleared]_brokerVars
  BY PTL DEF WritesAreCleared
<1> QED  BY <1>5, <1>6, KeysHold, PTL DEF Spec

\* ------------------------------------------------------------------------
\* Results are backed.

\* An answer with a receipt, and perhaps an observation, of the right form.
Proper(answer) ==
    /\ ~answer.throws /\ answer.wellFormed
    /\ answer.receipt # Null /\ answer.receipt.wellFormed
    /\ answer.observation # Null => answer.observation.wellFormed

\* The result of an accepted call: what an adapter answered, of its request, intact
\* and decided.
IsSound(e) ==
    /\ \E answer \in AnswersTo(e.request) :
          /\ Proper(answer)
          /\ e.result = [request |-> e.request, receipt |-> answer.receipt,
                         observation |-> answer.observation]
    /\ e.result.receipt.capabilityId = e.request.capabilityId
    /\ e.result.receipt.effectId = e.request.effectId
    /\ e.result.receipt.status \in {"succeeded", "failed"}
    /\ e.result.receipt.payloadHash = CanonicalHash(e.result.receipt.payload)
    /\ e.result.receipt.receiptType \in e.capability.receiptTypes
    /\ EvidenceIsPending(e.result.receipt.evidence)
    /\ e.result.observation # Null =>
          /\ e.result.receipt.status = "succeeded"
          /\ EvidenceIsPending(e.result.observation.evidence)

\* Some call, accepted with this result, was of a command with this fingerprint.
Backed(calls, result, fingerprint) ==
    \E i \in DOMAIN calls :
        /\ calls[i].outcome = "accepted"
        /\ calls[i].result = result
        /\ IdempotencyFingerprint(calls[i].command) = fingerprint

ResultInv ==
    /\ \A i \in DOMAIN executions : executions[i].outcome = "accepted" => IsSound(executions[i])
    /\ \A key \in DOMAIN cache :
          cache[key].result # Null => Backed(executions, cache[key].result, cache[key].fingerprint)
    /\ \A d \in Callers :
          dispatches[d].at = "returned" =>
             Backed(executions, dispatches[d].result, IdempotencyFingerprint(dispatches[d].command))

\* An answer the broker accepts is sound.
LEMMA AcceptedIsSound ==
    ASSUME NEW e, NEW id \in EffectIds, e.command \in Commands,
           e.request = EffectRequest(e.command, id),
           NEW answer \in AnswersTo(e.request), AnswerError(answer, e) = Null,
           NEW r, r.request = e.request, r.capability = e.capability,
           r.result = [request |-> e.request, receipt |-> answer.receipt,
                       observation |-> answer.observation]
    PROVE  IsSound(r)
<1>1. /\ ~answer.throws /\ answer.wellFormed /\ answer.receipt # Null
      /\ ReceiptError(answer.receipt, e) = Null
      /\ answer.observation # Null => ObservationError(answer.observation, answer.receipt, e) = Null
  BY NullIsNoError DEF AnswerError, ErrorCodes
<1>2. /\ answer.receipt.wellFormed
      /\ EvidenceIsPending(answer.receipt.evidence)
      /\ answer.receipt.effectId = e.request.effectId
      /\ answer.receipt.capabilityId = e.request.capabilityId
      /\ answer.receipt.status # "unknown"
      /\ answer.receipt.payloadHash = CanonicalHash(answer.receipt.payload)
      /\ answer.receipt.receiptType \in e.capability.receiptTypes
  BY <1>1, ReceiptErrorNull
<1>3. answer.receipt.status \in {"succeeded", "failed", "unknown"}
  BY <1>1, <1>2, AnswerShape
<1>4. answer.observation # Null =>
         /\ answer.receipt.status = "succeeded"
         /\ answer.observation.wellFormed
         /\ EvidenceIsPending(answer.observation.evidence)
  BY <1>1, ObservationErrorNull
<1>5. Proper(answer)
  BY <1>1, <1>2, <1>4 DEF Proper
<1>6. \E a \in AnswersTo(r.request) :
         /\ Proper(a)
         /\ r.result = [request |-> r.request, receipt |-> a.receipt, observation |-> a.observation]
  BY <1>5
<1>7. /\ r.result.request = e.request /\ r.result.receipt = answer.receipt
      /\ r.result.observation = answer.observation
  OBVIOUS
<1> QED  BY <1>2, <1>3, <1>4, <1>6, <1>7 DEF IsSound

\* What an answer ends with.
LEMMA AnswerEnds ==
    ASSUME CallsAreListed, NEW d \in Callers, Executing(d), NEW answer, Answered(d, answer)
    PROVE  LET i == dispatches[d].execution
               e == executions[i]
               given == [request |-> e.request, receipt |-> answer.receipt,
                         observation |-> answer.observation]
           IN  \/ /\ AnswerError(answer, e) = Null
                  /\ executions'[i].outcome = "accepted" /\ executions'[i].result = given
                  /\ \A key \in DOMAIN cache' :
                        \/ key \in DOMAIN cache /\ cache'[key] = cache[key]
                        \/ /\ cache'[key].result = given
                           /\ cache'[key].fingerprint = IdempotencyFingerprint(e.command)
                  /\ dispatches'[d].result = given /\ dispatches'[d].command = e.command
               \/ /\ executions'[i].outcome = "refused"
                  /\ \A key \in DOMAIN cache' :
                        \/ key \in DOMAIN cache /\ cache'[key] = cache[key]
                        \/ cache'[key].result = Null
                  /\ dispatches'[d].at = "threw"
<1> DEFINE i == dispatches[d].execution
           e == executions[i]
           error == AnswerError(answer, e)
           given == [request |-> e.request, receipt |-> answer.receipt,
                     observation |-> answer.observation]
<1>1. /\ i \in DOMAIN executions /\ IsCall(e)
      /\ dispatches = [o \in Callers |-> dispatches[o]]
  BY DEF CallsAreListed
<1>2. \A key, entry : \A k \in DOMAIN Remembered(key, entry) :
         \/ k \in DOMAIN cache /\ Remembered(key, entry)[k] = cache[k]
         \/ Remembered(key, entry)[k] = entry
  BY DEF Remembered, Registered
<1>3. /\ "outcome" \in DOMAIN e /\ "result" \in DOMAIN e
  BY <1>1 DEF IsCall
<1>4. CASE error = Null
  <2>1. Accept(d, e, given)
    BY <1>4, Zenon DEF Answered
  <2>2. /\ executions' = [executions EXCEPT ![i] =
                            [[e EXCEPT !.outcome = "accepted"] EXCEPT !.result = given]]
        /\ cache' = Remembered(e.command.idempotencyKey,
                               [fingerprint |-> IdempotencyFingerprint(e.command),
                                quarantine |-> Null, result |-> given])
        /\ dispatches' = [dispatches EXCEPT ![d] = Returned(e.command, "dispatched", given)]
    BY <1>1, <2>1 DEF Accept
  <2>3. executions'[i].outcome = "accepted" /\ executions'[i].result = given
    <3> HIDE DEF given
    <3> QED  BY <1>1, <1>3, <2>2
  <2>4. dispatches'[d].result = given /\ dispatches'[d].command = e.command
    <3> HIDE DEF given, e
    <3> QED  BY <1>1, <2>2 DEF Returned
  <2>5. ASSUME NEW key \in DOMAIN cache'
        PROVE  \/ key \in DOMAIN cache /\ cache'[key] = cache[key]
               \/ /\ cache'[key].result = given
                  /\ cache'[key].fingerprint = IdempotencyFingerprint(e.command)
    <3> HIDE DEF given, e
    <3> QED  BY <1>2, <2>2
  <2> QED  BY <1>4, <2>3, <2>4, <2>5
<1>5. CASE error # Null
  <2>1. Refuse(d, e, error)
    BY <1>5, Zenon DEF Answered
  <2>2. executions'[i].outcome = "refused"
    BY <1>1, <1>3, <2>1 DEF Refuse
  <2>3. dispatches'[d].at = "threw"
    BY <1>1, <2>1 DEF Refuse, Threw
  <2>4. ASSUME NEW key \in DOMAIN cache'
        PROVE  \/ key \in DOMAIN cache /\ cache'[key] = cache[key]
               \/ cache'[key].result = Null
    <3> HIDE DEF e
    <3> QED  BY <1>2, <2>1 DEF Refuse
  <2> QED  BY <2>2, <2>3, <2>4
<1> QED  BY <1>4, <1>5

\* What was backed stays so.
LEMMA BackedStays ==
    ASSUME CallsKeep, NEW result, NEW fingerprint, Backed(executions, result, fingerprint)
    PROVE  Backed(executions', result, fingerprint)
<1>1. PICK i \in DOMAIN executions :
         /\ executions[i].outcome = "accepted"
         /\ executions[i].result = result
         /\ IdempotencyFingerprint(executions[i].command) = fingerprint
  BY DEF Backed
<1>2. /\ i \in DOMAIN executions'
      /\ executions'[i].outcome = "accepted"
      /\ executions'[i].result = result
      /\ executions'[i].command = executions[i].command
  BY <1>1 DEF CallsKeep
<1> QED  BY <1>1, <1>2 DEF Backed

\* An answer keeps all results backed.
LEMMA AnswerKeepsResults ==
    ASSUME KeyInv, ResultInv, NEW d \in Callers, AdapterAnswers(d)
    PROVE  ResultInv'
<1> DEFINE i == dispatches[d].execution
           e == executions[i]
<1>1. Executing(d) /\ CallsAreListed
  BY DEF AdapterAnswers, Executing, KeyInv
<1>2. PICK answer \in AnswersTo(e.request) : Answered(d, answer)
  BY DEF AdapterAnswers
<1> DEFINE given == [request |-> e.request, receipt |-> answer.receipt,
                     observation |-> answer.observation]
<1>3. /\ i \in DOMAIN executions
      /\ DOMAIN executions' = DOMAIN executions
      /\ \A j \in DOMAIN executions : j # i => executions'[j] = executions[j]
      /\ CallsKeep
      /\ \A o \in Callers : o # d => dispatches'[o] = dispatches[o]
  BY <1>1, <1>2, AnswerStep
<1>4. /\ executions'[i].command = e.command
      /\ executions'[i].request = e.request
      /\ executions'[i].capability = e.capability
  BY <1>3 DEF CallsKeep
<1>5. \/ /\ AnswerError(answer, e) = Null
         /\ executions'[i].outcome = "accepted" /\ executions'[i].result = given
         /\ \A key \in DOMAIN cache' :
               \/ key \in DOMAIN cache /\ cache'[key] = cache[key]
               \/ /\ cache'[key].result = given
                  /\ cache'[key].fingerprint = IdempotencyFingerprint(e.command)
         /\ dispatches'[d].result = given /\ dispatches'[d].command = e.command
      \/ /\ executions'[i].outcome = "refused"
         /\ \A key \in DOMAIN cache' :
               \/ key \in DOMAIN cache /\ cache'[key] = cache[key]
               \/ cache'[key].result = Null
         /\ dispatches'[d].at = "threw"
  BY <1>1, <1>2, AnswerEnds
<1>6. executions'[i].outcome = "accepted" => IsSound(executions'[i])
  <2>1. e.command \in Commands /\ \E id \in EffectIds : e.request = EffectRequest(e.command, id)
    BY <1>1, <1>3 DEF CallsAreListed
  <2>2. executions'[i].outcome = "accepted" =>
           AnswerError(answer, e) = Null /\ executions'[i].result = given
    BY <1>5
  <2> HIDE DEF e
  <2> QED  BY <1>2, <1>4, <2>1, <2>2, AcceptedIsSound
<1>7. executions'[i].outcome = "accepted" =>
         Backed(executions', given, IdempotencyFingerprint(e.command))
  BY <1>3, <1>4, <1>5 DEF Backed
<1> HIDE DEF i, e, given
<1>8. \A j \in DOMAIN executions' : executions'[j].outcome = "accepted" => IsSound(executions'[j])
  BY <1>3, <1>6 DEF ResultInv
<1>9. ASSUME NEW key \in DOMAIN cache', cache'[key].result # Null
      PROVE  Backed(executions', cache'[key].result, cache'[key].fingerprint)
  <2>1. CASE key \in DOMAIN cache /\ cache'[key] = cache[key]
    BY <1>3, <1>9, <2>1, BackedStays DEF ResultInv
  <2>2. CASE /\ executions'[i].outcome = "accepted"
             /\ cache'[key].result = given
             /\ cache'[key].fingerprint = IdempotencyFingerprint(e.command)
    BY <1>7, <2>2
  <2> QED  BY <1>5, <1>9, <2>1, <2>2
<1>10. ASSUME NEW o \in Callers, dispatches'[o].at = "returned"
       PROVE  Backed(executions', dispatches'[o].result,
                   IdempotencyFingerprint(dispatches'[o].command))
  <2>1. CASE o # d
    BY <1>3, <1>10, <2>1, BackedStays DEF ResultInv
  <2>2. CASE o = d
    BY <1>5, <1>7, <1>10, <2>2
  <2> QED  BY <2>1, <2>2
<1> QED  BY <1>8, <1>9, <1>10 DEF ResultInv

\* So does a dispatch: what it takes from the cache was backed there.
LEMMA DispatchKeepsResults ==
    ASSUME KeyInv, ResultInv, NEW d \in Callers, NEW command \in Commands,
           NEW effectId \in EffectIds, NEW preflight, NEW error,
           Dispatch(d, command, effectId, preflight, error)
    PROVE  ResultInv'
<1>1. cache' = cache /\ dispatches = [o \in Callers |-> dispatches[o]] /\ CallsAreListed
  BY DispatchStep DEF registry, KeyInv, CallsAreListed
<1>2. CASE Execute(d, command, effectId, preflight)
  <2> DEFINE n == Len(executions) + 1
  <2>1. CallsKeep /\ \A i \in DOMAIN executions : executions'[i].outcome = executions[i].outcome
    BY <1>1, <1>2, ExecuteMarks
  <2>2. /\ Len(executions) \in Nat
        /\ DOMAIN executions = 1..Len(executions) /\ DOMAIN executions' = 1..n
        /\ executions'[n] =
              [command |-> command, request |-> EffectRequest(command, effectId),
               preflight |-> preflight,
               overlapped |-> OpenWith(command.idempotencyKey) # {}, outcome |-> "open",
               result |-> Null, capability |-> capabilities[command.capabilityId],
               adapter |-> adapters[AdapterKey(command)]]
    BY <1>1, <1>2, ExecuteStep
  <2>3. \A o \in Callers : dispatches'[o].at = "returned" => dispatches'[o] = dispatches[o]
    BY <1>1, <1>2 DEF Execute
  <2>4. ASSUME NEW i \in DOMAIN executions', executions'[i].outcome = "accepted"
        PROVE  IsSound(executions'[i])
    <3>1. i \in DOMAIN executions
      <4>1. executions'[n].outcome = "open"
        BY <2>2
      <4> QED  BY <2>2, <2>4, <4>1
    <3>2. IsSound(executions[i])
      BY <2>1, <2>4, <3>1 DEF ResultInv
    <3> QED  BY <2>1, <2>4, <3>1, <3>2 DEF CallsKeep, IsSound
  <2> QED  BY <1>1, <2>1, <2>3, <2>4, BackedStays DEF ResultInv
<1>3. CASE /\ executions' = executions
           /\ dispatches' = [dispatches EXCEPT ![d] = IF error # Null THEN Threw(error)
                                                      ELSE FromCache(command)]
           /\ error = Null => Known(command.idempotencyKey)
  <2>1. \A result, fingerprint : Backed(executions, result, fingerprint) => Backed(executions', result, fingerprint)
    BY <1>3
  <2>2. ASSUME NEW o \in Callers, dispatches'[o].at = "returned"
        PROVE  Backed(executions', dispatches'[o].result,
                   IdempotencyFingerprint(dispatches'[o].command))
    <3>1. CASE o # d
      BY <1>1, <1>3, <2>2, <3>1 DEF ResultInv
    <3>2. CASE o = d
      <4>1. error = Null /\ dispatches'[d] = FromCache(command)
        BY <1>1, <1>3, <2>2, <3>2 DEF Threw
      <4> DEFINE entry == cache[command.idempotencyKey]
      <4>2. /\ entry.fingerprint = IdempotencyFingerprint(command)
            /\ entry.result # Null
            /\ dispatches'[d] = Returned(command, "cached", entry.result)
        BY <2>2, <3>2, <4>1 DEF FromCache, Threw
      <4>3. Backed(executions, entry.result, entry.fingerprint)
        BY <1>3, <4>1, <4>2 DEF Known, ResultInv
      <4> HIDE DEF entry
      <4> QED  BY <1>3, <3>2, <4>2, <4>3 DEF Returned
    <3> QED  BY <3>1, <3>2
  <2> QED  BY <1>1, <1>3, <2>1, <2>2 DEF ResultInv
<1> QED  BY <1>2, <1>3, DispatchStep

\* Every accepted result is sound, and everything cached or returned is one.
THEOREM ResultsHold == Spec => []ResultInv
<1>1. Init => ResultInv
  BY DEF Init, ResultInv, Idle
<1>2. KeyInv /\ ResultInv /\ [Next]_brokerVars => ResultInv'
  <2> SUFFICES ASSUME KeyInv, ResultInv, [Next]_brokerVars PROVE ResultInv'
    OBVIOUS
  <2>1. CASE \E d \in Callers, c \in Commands, id \in EffectIds : DirectDispatch(d, c, id)
    BY <2>1, DispatchKeepsResults DEF DirectDispatch
  <2>2. CASE \E d \in Callers, c \in Commands, id \in EffectIds, p \in PresentedDecisions :
                DispatchWithPreflight(d, c, id, p)
    BY <2>2, DispatchKeepsResults DEF DispatchWithPreflight
  <2>3. CASE \E d \in Callers : AdapterAnswers(d)
    BY <2>3, AnswerKeepsResults
  <2>4. CASE /\ executions' = executions /\ cache' = cache
             /\ \A o \in Callers : dispatches'[o] = dispatches[o] \/ dispatches'[o] = Idle
    <3>1. \A result, fingerprint : Backed(executions, result, fingerprint) <=> Backed(executions', result, fingerprint)
      BY <2>4
    <3>2. \A o \in Callers : dispatches'[o].at = "returned" => dispatches'[o] = dispatches[o]
      BY <2>4 DEF Idle
    <3> QED  BY <2>4, <3>1, <3>2 DEF ResultInv
  <2>5. CASE UNCHANGED brokerVars
    BY <2>4, <2>5 DEF brokerVars
  <2> QED  BY <2>1, <2>2, <2>3, <2>4, <2>5, OtherSteps DEF KeyInv
<1> QED  BY <1>1, <1>2, KeysHold, PTL DEF Spec

\* What a dispatch returns, cached or not, an adapter answered to an effect of the
\* same run, capability, tool, class, key and arguments, intact and decided.
THEOREM ReturnsAreBacked == Spec => []ResultsAreBacked
<1>1. ResultInv => ResultsAreBacked
  <2> SUFFICES ASSUME ResultInv, NEW d \in Callers, dispatches[d].at = "returned"
               PROVE  LET result == dispatches[d].result
                      IN  \E i \in DOMAIN executions :
                            LET e == executions[i]
                            IN  /\ e.outcome = "accepted" /\ e.result = result
                                /\ \A f \in {"runId", "capabilityId", "toolId", "sideEffectClass",
                                              "args", "idempotencyKey"} :
                                      e.command[f] = dispatches[d].command[f]
                                /\ result.request = e.request
                                /\ result.receipt.effectId = e.request.effectId
                                /\ result.receipt.status \in {"succeeded", "failed"}
                                /\ result.receipt.payloadHash = CanonicalHash(result.receipt.payload)
                                /\ result.receipt.receiptType \in e.capability.receiptTypes
                                /\ EvidenceIsPending(result.receipt.evidence)
                                /\ result.observation # Null =>
                                      /\ result.receipt.status = "succeeded"
                                      /\ EvidenceIsPending(result.observation.evidence)
    BY DEF ResultsAreBacked
  <2>1. PICK i \in DOMAIN executions :
           /\ executions[i].outcome = "accepted"
           /\ executions[i].result = dispatches[d].result
           /\ IdempotencyFingerprint(executions[i].command)
                = IdempotencyFingerprint(dispatches[d].command)
    BY DEF ResultInv, Backed
  <2>2. IsSound(executions[i])
    BY <2>1 DEF ResultInv
  <2>3. \A a, b : IdempotencyFingerprint(a) = IdempotencyFingerprint(b) =>
           \A f \in {"runId", "capabilityId", "toolId", "sideEffectClass", "args",
                      "idempotencyKey"} : a[f] = b[f]
    BY DEF IdempotencyFingerprint
  <2>4. \A f \in {"runId", "capabilityId", "toolId", "sideEffectClass", "args",
                   "idempotencyKey"} : executions[i].command[f] = dispatches[d].command[f]
    BY <2>1, <2>3
  <2> QED  BY <2>1, <2>2, <2>4 DEF IsSound
<1> QED  BY <1>1, ResultsHold, PTL

\* ------------------------------------------------------------------------
\* Whose dispatch it is: for who builds on the broker.

\* What a caller waits for, or has the result of.
AskedBy(d) ==
    IF Executing(d) THEN executions[dispatches[d].execution].command ELSE dispatches[d].command

Engaged(d) == dispatches[d].at \in {"executing", "returned"}

\* No step takes back a call, what was asked, or an answer.
LEMMA CallsAreKept ==
    ASSUME CallsAreListed, [Next]_brokerVars
    PROVE  CallsKeep
<1>1. CASE executions' = executions
  BY <1>1 DEF CallsKeep
<1>2. ASSUME NEW d \in Callers, NEW c \in Commands, NEW id \in EffectIds, NEW preflight, NEW error,
             Dispatch(d, c, id, preflight, error)
      PROVE  CallsKeep
  BY <1>1, <1>2, DispatchStep, ExecuteMarks
<1>3. ASSUME NEW d \in Callers, AdapterAnswers(d) PROVE CallsKeep
  BY <1>3, AnswerStep DEF AdapterAnswers, Executing
<1> QED  BY <1>1, <1>2, <1>3, OtherSteps DEF DirectDispatch, DispatchWithPreflight, brokerVars

\* A dispatch is about the command it was called with.
LEMMA DispatchIsOwn ==
    ASSUME CallsAreListed, NEW d \in Callers, NEW command \in Commands, NEW effectId \in EffectIds,
           DirectDispatch(d, command, effectId)
    PROVE  /\ Engaged(d)' => AskedBy(d)' = command
           /\ \A o \in Callers : o # d => dispatches'[o] = dispatches[o]
<1> DEFINE error == FirstOf(RegistrationError(command), DirectError(command))
<1>1. Dispatch(d, command, effectId, Null, error)
  BY DEF DirectDispatch
<1>2. dispatches = [o \in Callers |-> dispatches[o]]
  BY DEF CallsAreListed
<1> HIDE DEF error
<1>3. CASE /\ executions' = executions
           /\ dispatches' = [dispatches EXCEPT ![d] = IF error # Null THEN Threw(error)
                                                      ELSE FromCache(command)]
  <2>1. dispatches'[d] = IF error # Null THEN Threw(error) ELSE FromCache(command)
    BY <1>2, <1>3
  <2>2. Threw(error).at = "threw"
    BY DEF Threw
  <2>3. \/ FromCache(command).at = "threw"
        \/ FromCache(command).at = "returned" /\ FromCache(command).command = command
    BY DEF FromCache, Threw, Returned
  <2> QED  BY <1>2, <1>3, <2>1, <2>2, <2>3 DEF Engaged, AskedBy, Executing
<1>4. CASE Execute(d, command, effectId, Null)
  <2>1. /\ dispatches' = [dispatches EXCEPT ![d] = [at |-> "executing",
                                                    execution |-> Len(executions) + 1]]
        /\ executions'[Len(executions) + 1].command = command
    BY <1>4, ExecuteStep DEF Execute
  <2>2. dispatches'[d].at = "executing" /\ dispatches'[d].execution = Len(executions) + 1
    BY <1>2, <2>1
  <2> QED  BY <1>2, <2>1, <2>2 DEF AskedBy, Executing
<1> QED  BY <1>1, <1>3, <1>4, DispatchStep

\* An answer is about the command of the call it ends.
LEMMA AnswerIsOwn ==
    ASSUME CallsAreListed, NEW d \in Callers, AdapterAnswers(d)
    PROVE  /\ Engaged(d)' => AskedBy(d)' = AskedBy(d)
           /\ Engaged(d)
           /\ \A o \in Callers : o # d => dispatches'[o] = dispatches[o]
<1>1. Executing(d)
  BY DEF AdapterAnswers, Executing
<1>2. PICK answer \in AnswersTo(executions[dispatches[d].execution].request) : Answered(d, answer)
  BY DEF AdapterAnswers
<1>3. /\ ~Executing(d)'
      /\ \A o \in Callers : o # d => dispatches'[o] = dispatches[o]
  BY <1>1, <1>2, AnswerStep
<1>4. dispatches'[d].at = "threw" \/ dispatches'[d].command = AskedBy(d)
  BY <1>1, <1>2, AnswerEnds DEF AskedBy
<1> QED  BY <1>1, <1>3, <1>4 DEF Engaged, AskedBy, Executing
=============================================================================
