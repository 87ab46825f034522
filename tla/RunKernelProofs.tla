-------------------------- MODULE RunKernelProofs --------------------------
(***************************************************************************)
(* Proofs, for every choice of the constants, about the run kernel.        *)
(***************************************************************************)
EXTENDS RunKernelProperties, TLAPS, FiniteSetTheorems, SequenceTheorems

IsList(s) == s \in Seq(Elements(s))

\* ------------------------------------------------------------------------
\* Lists that grow.

\* Every sequence is a list of its own elements.
LEMMA SequencesAreLists ==
    ASSUME NEW S, NEW s \in Seq(S)
    PROVE  IsList(s)
<1>1. Len(s) \in Nat /\ s \in [1..Len(s) -> S]
  OBVIOUS
<1>2. s \in [1..Len(s) -> Elements(s)]
  BY <1>1 DEF Elements
<1> QED BY <1>1, <1>2, SeqDef DEF IsList

\* Appending to a list leaves what was there and adds one element at the end.
LEMMA AppendToList ==
    ASSUME NEW s, NEW e, IsList(s)
    PROVE  /\ IsList(Append(s, e))
           /\ Len(s) \in Nat /\ DOMAIN s = 1..Len(s)
           /\ Len(Append(s, e)) = Len(s) + 1
           /\ DOMAIN Append(s, e) = 1..(Len(s) + 1)
           /\ \A i \in 1..Len(s) : Append(s, e)[i] = s[i]
           /\ Append(s, e)[Len(s) + 1] = e
<1> DEFINE S == Elements(s) \cup {e}
           t == Append(s, e)
<1>1. s \in Seq(S)
  <2>1. s \in Seq(Elements(s)) BY DEF IsList
  <2>2. Elements(s) \subseteq S OBVIOUS
  <2> QED BY <2>1, <2>2
<1>2. /\ t \in Seq(S) /\ Len(t) = Len(s) + 1 /\ Len(s) \in Nat
      /\ DOMAIN s = 1..Len(s) /\ DOMAIN t = 1..(Len(s) + 1)
      /\ \A i \in 1..Len(s) : t[i] = s[i]
      /\ t[Len(s) + 1] = e
  BY <1>1
<1>3. IsList(t)
  BY <1>2, SequencesAreLists
<1> QED BY <1>2, <1>3

\* The same for a prefix of a second list.
Joined(s, p, n) == s \o SubSeq(p, 1, n)

IsJoined(t, s, p, n) ==
    /\ IsList(t) /\ Len(t) = Len(s) + n /\ DOMAIN t = 1..(Len(s) + n)
    /\ \A i \in 1..Len(s) : t[i] = s[i]
    /\ \A i \in 1..n : t[Len(s) + i] = p[i]

\* What joining them makes.
LEMMA ConcatToList ==
    ASSUME NEW s, NEW p, IsList(s), IsList(p), NEW n \in 0..Len(p)
    PROVE  IsJoined(Joined(s, p, n), s, p, n)
<1> DEFINE S == Elements(s) \cup Elements(p)
           q == SubSeq(p, 1, n)
           t == s \o q
<1>1. s \in Seq(S) /\ p \in Seq(S)
  <2>1. s \in Seq(Elements(s)) /\ p \in Seq(Elements(p)) BY DEF IsList
  <2>2. Elements(s) \subseteq S /\ Elements(p) \subseteq S OBVIOUS
  <2> QED BY <2>1, <2>2
<1>2. Len(s) \in Nat /\ Len(p) \in Nat /\ n \in Nat /\ DOMAIN s = 1..Len(s)
  BY <1>1
<1>3. q \in Seq(S) /\ Len(q) = n /\ \A i \in 1..n : q[i] = p[i]
  BY <1>1, <1>2
<1>4. /\ t \in Seq(S) /\ Len(t) = Len(s) + n /\ DOMAIN t = 1..(Len(s) + n)
      /\ \A i \in 1..Len(s) : t[i] = s[i]
      /\ \A i \in 1..n : t[Len(s) + i] = p[i]
  BY <1>1, <1>2, <1>3
<1>5. IsList(t)
  BY <1>4, SequencesAreLists
<1> HIDE DEF t
<1>6. IsJoined(t, s, p, n)
  BY <1>4, <1>5 DEF IsJoined
<1> QED BY <1>6 DEF Joined, t

\* ------------------------------------------------------------------------
\* What a step does to the log.

\* The log only grows: it is a list before and after, and what it held stays.
Grows ==
    /\ IsList(log') /\ Len(log) \in Nat /\ Len(log') \in Nat /\ Len(log) <= Len(log')
    /\ DOMAIN log = 1..Len(log) /\ DOMAIN log' = 1..Len(log')
    /\ \A i \in 1..Len(log) : log'[i] = log[i]

\* The event a one-event step appended.
Newest == log'[Len(log) + 1]

\* RecordEvent appends one accepted event of the type and body it is given.
LEMMA RecordStep ==
    ASSUME IsList(log), NEW type, NEW body, NEW o \in EventOptions, RecordEvent(type, body, o)
    PROVE  /\ Grows /\ Len(log') = Len(log) + 1
           /\ Newest = NewEvent(type, body, o, Given(o.causationId, started))
           /\ Accepts(log, Newest)
           /\ started # Null /\ body.runId = RunId /\ started' = started
           /\ kept' = IF o.wellFormed THEN [kept EXCEPT ![type] = Append(@, body)] ELSE kept
<1> DEFINE e == NewEvent(type, body, o, Given(o.causationId, started))
<1>1. /\ log' = Append(log, e) /\ Accepts(log, e)
      /\ started # Null /\ body.runId = RunId /\ started' = started
      /\ kept' = IF e.wellFormed THEN [kept EXCEPT ![type] = Append(@, body)] ELSE kept
  BY DEF RecordEvent, CanRecord
<1>2. e.wellFormed = o.wellFormed
  BY DEF NewEvent
<1>3. Grows /\ Len(log') = Len(log) + 1 /\ Newest = e
  <2> HIDE DEF e
  <2> QED BY <1>1, AppendToList DEF Grows, Newest
<1> QED BY <1>1, <1>2, <1>3

\* StartRun appends one accepted RunStarted event.
LEMMA StartStep ==
    ASSUME IsList(log), NEW o \in EventOptions, StartRun(o)
    PROVE  /\ Grows /\ Len(log') = Len(log) + 1
           /\ Newest = NewEvent("RunStarted", [runId |-> RunId], o, Given(o.causationId, Null))
           /\ Accepts(log, Newest)
           /\ started = Null /\ kept' = kept /\ revision' = revision
           /\ started' = IF o.wellFormed THEN Newest.id ELSE Null
<1> DEFINE e == NewEvent("RunStarted", [runId |-> RunId], o, Given(o.causationId, Null))
<1>1. /\ log' = Append(log, e) /\ Accepts(log, e)
      /\ started = Null /\ kept' = kept /\ revision' = revision
      /\ started' = IF e.wellFormed THEN e.id ELSE Null
  BY DEF StartRun, CanStart, StartEvent
<1>2. e.wellFormed = o.wellFormed
  BY DEF NewEvent
<1>3. Grows /\ Len(log') = Len(log) + 1 /\ Newest = e
  <2> HIDE DEF e
  <2> QED BY <1>1, AppendToList DEF Grows, Newest
<1> QED BY <1>1, <1>2, <1>3

\* What the kernel has checked against its private lists when it records an
\* input, and what becomes of the revisions.
CapabilityWasRequested(receipt) ==
    \E i \in DOMAIN kept["EffectRequested"] :
        /\ kept["EffectRequested"][i].effectId = receipt.effectId
        /\ kept["EffectRequested"][i].capabilityId = receipt.capabilityId

GrantWasRequested(grant) ==
    \E i \in DOMAIN kept["ApprovalRequested"] :
        /\ kept["ApprovalRequested"][i].approvalId = grant.approvalId
        /\ kept["ApprovalRequested"][i].scope = grant.scope
        /\ grant.grantedAt <= kept["ApprovalRequested"][i].expiresAt

WriteWasApproved(decision) ==
    /\ \E i \in DOMAIN kept["ApprovalGranted"] :
          /\ kept["ApprovalGranted"][i].approvalId = decision.approvalId
          /\ kept["ApprovalGranted"][i].scope = WriteScope(decision)
          /\ decision.decidedAt <= kept["ApprovalGranted"][i].expiresAt
    /\ \A i \in DOMAIN kept["ApprovalDenied"] :
          kept["ApprovalDenied"][i].approvalId # decision.approvalId
    /\ \A i \in DOMAIN kept["ApprovalExpired"] :
          kept["ApprovalExpired"][i].approvalId # decision.approvalId

\* A command as CommitMutation finds it: the first proposal with the ids of the
\* mutation, on its state and at the revision it commits over.
CarriedOut(mutation, command) ==
    /\ command.stateRef = mutation.stateRef
    /\ command.expectedRevision = mutation.previousRevision

HasIdsOf(mutation, proposal) ==
    /\ IsMutationCommand(proposal)
    /\ proposal.commandId = mutation.commandId
    /\ proposal.mutationId = mutation.mutationId

FirstCommand(list, mutation, n) ==
    /\ HasIdsOf(mutation, list[n])
    /\ CarriedOut(mutation, list[n])
    /\ \A k \in 1..(n - 1) : ~HasIdsOf(mutation, list[k])

CommandWasFirst(mutation) ==
    \E n \in DOMAIN kept["ProposalReceived"] :
        FirstCommand(kept["ProposalReceived"], mutation, n)

\* The write a decision is about was requested, and an embedded quarantine is
\* about that write too.
Answers(request, decision) ==
    /\ request.preflightId = decision.preflightId
    /\ SameWrite(request, decision)
    /\ decision.status = "quarantined" =>
          /\ SameWrite(decision.quarantine, decision)
          /\ decision.quarantine.preflightId = decision.preflightId

WriteWasRequested(decision) ==
    \E n \in DOMAIN kept["WritePreflightRequested"] :
        Answers(kept["WritePreflightRequested"][n], decision)

QuarantineWasDecided(quarantine) ==
    \E n \in DOMAIN kept["WritePreflightDecided"] :
        /\ kept["WritePreflightDecided"][n].status = "quarantined"
        /\ kept["WritePreflightDecided"][n].quarantine = quarantine

CommitsNextRevision(mutation) ==
    /\ mutation.stateRef \in StateRefs
    /\ mutation.previousRevision = revision[mutation.stateRef]
    /\ mutation.newRevision = mutation.previousRevision + 1
    /\ revision' = [revision EXCEPT ![mutation.stateRef] = mutation.newRevision]

\* What the kernel has checked of a receipt or an observation that the event
\* with the given id admits.
ReceiptIsSound(receipt, id) ==
    /\ receipt.runId = RunId
    /\ receipt.payloadHash = CanonicalHash(receipt.payload)
    /\ EvidenceIsOwn(receipt.evidence, id, "effect_receipt", receipt.payloadHash)

ObservationIsSound(observation, id) ==
    /\ observation.runId = RunId
    /\ observation.payloadHash = CanonicalHash(observation.state)
    /\ EvidenceIsOwn(observation.evidence, id, "external_observation", observation.payloadHash)

Checked(type, body) ==
    /\ type = "EffectReceiptRecorded" => CapabilityWasRequested(body)
    /\ type = "ApprovalGranted" => GrantWasRequested(body)
    /\ type = "WritePreflightDecided" /\ IsCriticalWrite(body) => WriteWasApproved(body)
    /\ type = "WritePreflightDecided" => WriteWasRequested(body)
    /\ type = "WriteQuarantined" => QuarantineWasDecided(body)
    /\ type = "MutationCommitted" => CommandWasFirst(body) /\ CommitsNextRevision(body)
    /\ type # "MutationCommitted" => revision' = revision
    /\ type = "EffectReceiptRecorded" => ReceiptIsSound(body, Newest.id)
    /\ type = "ExternalStateObserved" => ObservationIsSound(body, Newest.id)

\* A critical write is recorded only when the lists show its approval.
LEMMA ApprovalChecked ==
    ASSUME NEW decision, CriticalWriteApproved(kept, decision)
    PROVE  WriteWasApproved(decision)
BY DEF CriticalWriteApproved, WriteWasApproved, FirstWith, SomeWith

\* The event a record is admitted by has the id the kernel compared refs with.
LEMMA RecordedUnderItsId ==
    ASSUME TypeOK, NEW type, NEW body, NEW o \in EventOptions, RecordEvent(type, body, o)
    PROVE  Newest.id = Given(o.eventId, NextEventId(type)) /\ body.runId = RunId
BY RecordStep DEF TypeOK, IsList, NewEvent

\* Every step that is not StartRun or a final candidate records one checked
\* input on the list of its type, and only a mutation moves a revision.
LEMMA StepKinds ==
    ASSUME TypeOK, Next
    PROVE  \/ \E o \in EventOptions : StartRun(o)
           \/ \E type \in KeptTypes : \E body \in Inputs[type], o \in EventOptions :
                 /\ RecordEvent(type, body, o)
                 /\ revision' \in [StateRefs -> Nat]
                 /\ Checked(type, body)
           \/ \E c \in FinalCandidates, o \in FinalOptions, t \in Times \cup {Null} :
                 SubmitFinalCandidate(c, o, t)
<1> DEFINE Goal(type, body, o) ==
              /\ RecordEvent(type, body, o)
              /\ revision' \in [StateRefs -> Nat]
              /\ Checked(type, body)
           Recorded == \E type \in KeptTypes : \E body \in Inputs[type], o \in EventOptions :
                          Goal(type, body, o)
<1>r. revision \in [StateRefs -> Nat]
  BY DEF TypeOK
<1>g. ASSUME NEW type \in KeptTypes, NEW body \in Inputs[type], NEW o \in EventOptions,
             RecordEvent(type, body, o), revision' = revision, Checked(type, body)
      PROVE  Recorded
  BY <1>g, <1>r
<1> HIDE DEF Recorded
<1> SUFFICES ASSUME NEW o \in EventOptions,
                 \/ \E x \in ToolCommands : SubmitToolCommand(x, o)
                 \/ \E x \in MutationCommands : SubmitMutationCommand(x, o)
                 \/ \E x \in MutationCommands : CommitMutation(x, o)
                 \/ \E x \in EffectRequests : RecordEffectRequest(x, o)
                 \/ \E x \in EffectReceipts : RecordEffectReceipt(x, o)
                 \/ \E x \in Observations : RecordExternalStateObservation(x, o)
                 \/ \E x \in WritePreflightCandidates : RecordWritePreflightRequested(x, o)
                 \/ \E x \in WritePreflightDecisions : RecordWritePreflightDecided(x, o)
                 \/ \E x \in WriteQuarantines : RecordWriteQuarantined(x, o)
                 \/ \E x \in ApprovalRequests : RecordApprovalRequested(x, o)
                 \/ \E x \in ApprovalGrants : RecordApprovalGranted(x, o)
                 \/ \E x \in ApprovalDenials : RecordApprovalDenied(x, o)
                 \/ \E x \in ApprovalExpiries : RecordApprovalExpired(x, o)
             PROVE  Recorded
  BY DEF Next, Recorded
<1>1. CASE \E x \in ToolCommands : SubmitToolCommand(x, o)
  BY <1>1, <1>g DEF SubmitToolCommand, Inputs, KeptTypes, Checked
<1>2. CASE \E x \in MutationCommands : SubmitMutationCommand(x, o)
  BY <1>2, <1>g DEF SubmitMutationCommand, Inputs, KeptTypes, Checked
<1>3. ASSUME NEW x \in MutationCommands, CommitMutation(x, o) PROVE Recorded
  <2> DEFINE m == MutationOf(x, revision[x.stateRef])
  <2>1. /\ RecordEvent("MutationCommitted", m, o)
        /\ revision' = [revision EXCEPT ![x.stateRef] = revision[x.stateRef] + 1]
        /\ x.runId = RunId
    BY <1>3 DEF CommitMutation, RecordEvent, CanRecord, MutationOf
  <2>2. x.stateRef \in StateRefs /\ revision[x.stateRef] \in Nat
    BY <1>r, InputContracts
  <2>3. m \in Inputs["MutationCommitted"] /\ "MutationCommitted" \in KeptTypes
    BY <2>1, <2>2 DEF Inputs, KeptTypes, MutationOf
  <2>4. revision' \in [StateRefs -> Nat]
    BY <2>1, <2>2, <1>r
  <2>5. /\ m.stateRef = x.stateRef /\ m.previousRevision = revision[x.stateRef]
        /\ m.newRevision = revision[x.stateRef] + 1
        /\ m.commandId = x.commandId /\ m.mutationId = x.mutationId
    BY DEF MutationOf
  <2>6. WasProposed(kept, x) /\ revision[x.stateRef] = x.expectedRevision
    BY <1>3 DEF CommitMutation, MayBeCommitted
  <2> HIDE DEF m
  <2>7. CommitsNextRevision(m)
    BY <2>1, <2>2, <2>5 DEF CommitsNextRevision
  <2>8. CommandWasFirst(m)
    <3>1. x \in FirstWith(kept["ProposalReceived"],
                         LAMBDA p : /\ IsMutationCommand(p)
                                    /\ p.commandId = x.commandId
                                    /\ p.mutationId = x.mutationId)
      BY <2>6 DEF WasProposed
    <3>2. PICK n \in DOMAIN kept["ProposalReceived"] :
             /\ kept["ProposalReceived"][n] = x
             /\ HasIdsOf(m, x)
             /\ \A k \in 1..(n - 1) : ~HasIdsOf(m, kept["ProposalReceived"][k])
      BY <3>1, <2>5 DEF FirstWith, HasIdsOf
    <3>3. CarriedOut(m, x)
      BY <2>5, <2>6 DEF CarriedOut
    <3> QED BY <3>2, <3>3 DEF CommandWasFirst, FirstCommand
  <2>9. Checked("MutationCommitted", m)
    BY <2>7, <2>8 DEF Checked
  <2> QED BY <2>1, <2>3, <2>4, <2>9 DEF Recorded
<1>4. CASE \E x \in EffectRequests : RecordEffectRequest(x, o)
  BY <1>4, <1>g DEF RecordEffectRequest, Inputs, KeptTypes, Checked
<1>5. CASE \E x \in EffectReceipts : RecordEffectReceipt(x, o)
  <2>1. PICK x \in EffectReceipts : RecordEffectReceipt(x, o)
    BY <1>5
  <2>2. CapabilityWasRequested(x)
    BY <2>1 DEF RecordEffectReceipt, ReceiptMayBeRecorded, CapabilityWasRequested, FirstWith
  <2>3. ReceiptIsSound(x, Newest.id)
    BY <2>1, RecordedUnderItsId DEF RecordEffectReceipt, ReceiptMayBeRecorded, ReceiptIsSound
  <2> QED BY <2>1, <2>2, <2>3, <1>g DEF RecordEffectReceipt, Inputs, KeptTypes, Checked
<1>6. CASE \E x \in Observations : RecordExternalStateObservation(x, o)
  <2>1. PICK x \in Observations : RecordExternalStateObservation(x, o)
    BY <1>6
  <2>2. ObservationIsSound(x, Newest.id)
    BY <2>1, RecordedUnderItsId DEF RecordExternalStateObservation, ObservationMayBeRecorded, ObservationIsSound
  <2> QED BY <2>1, <2>2, <1>g DEF RecordExternalStateObservation, Inputs, KeptTypes, Checked
<1>7. CASE \E x \in WritePreflightCandidates : RecordWritePreflightRequested(x, o)
  BY <1>7, <1>g DEF RecordWritePreflightRequested, Inputs, KeptTypes, Checked
<1>8. CASE \E x \in WritePreflightDecisions : RecordWritePreflightDecided(x, o)
  <2>1. PICK x \in WritePreflightDecisions : RecordWritePreflightDecided(x, o)
    BY <1>8
  <2>2. IsCriticalWrite(x) => WriteWasApproved(x)
    BY <2>1, ApprovalChecked DEF RecordWritePreflightDecided, DecisionMayBeRecorded
  <2>3. WriteWasRequested(x)
    BY <2>1 DEF RecordWritePreflightDecided, DecisionMayBeRecorded, WriteWasRequested, Answers, PreflightRequest, FirstWith
  <2> QED BY <2>1, <2>2, <2>3, <1>g
          DEF RecordWritePreflightDecided, Inputs, KeptTypes, Checked
<1>9. CASE \E x \in WriteQuarantines : RecordWriteQuarantined(x, o)
  <2>1. PICK x \in WriteQuarantines : RecordWriteQuarantined(x, o)
    BY <1>9
  <2>2. QuarantineWasDecided(x)
    BY <2>1 DEF RecordWriteQuarantined, QuarantineMayBeRecorded, QuarantineWasDecided, FirstWith
  <2> QED BY <2>1, <2>2, <1>g
          DEF RecordWriteQuarantined, Inputs, KeptTypes, Checked
<1>10. CASE \E x \in ApprovalRequests : RecordApprovalRequested(x, o)
  BY <1>10, <1>g DEF RecordApprovalRequested, Inputs, KeptTypes, Checked
<1>11. CASE \E x \in ApprovalGrants : RecordApprovalGranted(x, o)
  <2>1. PICK x \in ApprovalGrants : RecordApprovalGranted(x, o)
    BY <1>11
  <2>2. GrantWasRequested(x)
    BY <2>1 DEF RecordApprovalGranted, GrantMayBeRecorded, GrantWasRequested, ApprovalRequest, FirstWith
  <2> QED BY <2>1, <2>2, <1>g DEF RecordApprovalGranted, Inputs, KeptTypes, Checked
<1>12. CASE \E x \in ApprovalDenials : RecordApprovalDenied(x, o)
  BY <1>12, <1>g DEF RecordApprovalDenied, Inputs, KeptTypes, Checked
<1>13. CASE \E x \in ApprovalExpiries : RecordApprovalExpired(x, o)
  BY <1>13, <1>g DEF RecordApprovalExpired, Inputs, KeptTypes, Checked
<1> QED BY <1>1, <1>2, <1>3, <1>4, <1>5, <1>6, <1>7, <1>8, <1>9, <1>10, <1>11, <1>12, <1>13

\* ------------------------------------------------------------------------
\* Final candidates.

\* A head, a middle, one more and perhaps a last one, laid end to end.
Laid(a, f, b, d, c) == <<a>> \o f \o <<b>> \o (IF c THEN <<d>> ELSE <<>>)

\* Where each event of a plan is.
LEMMA PlanLayout ==
    ASSUME NEW a, NEW f, IsList(f), NEW b, NEW d, NEW c \in BOOLEAN
    PROVE  /\ IsList(Laid(a, f, b, d, c))
           /\ DOMAIN Laid(a, f, b, d, c) = 1..Len(Laid(a, f, b, d, c))
           /\ Len(f) \in Nat
           /\ Len(Laid(a, f, b, d, c)) = IF c THEN Len(f) + 3 ELSE Len(f) + 2
           /\ Laid(a, f, b, d, c)[1] = a
           /\ \A i \in 2..(Len(f) + 1) : Laid(a, f, b, d, c)[i] = f[i - 1]
           /\ Laid(a, f, b, d, c)[Len(f) + 2] = b
           /\ c => Laid(a, f, b, d, c)[Len(f) + 3] = d
<1> DEFINE n == Len(f)
           p == Laid(a, f, b, d, c)
           S == Elements(f)
           T == S \cup {a, b, d}
           x == <<a>>
           y == <<b>>
           z == IF c THEN <<d>> ELSE <<>>
           q == x \o f
           r == q \o y
<1>1. x \in Seq(T) /\ Len(x) = 1 /\ x[1] = a /\ y \in Seq(T) /\ Len(y) = 1 /\ y[1] = b
  OBVIOUS
<1>2. z \in Seq(T) /\ Len(z) = (IF c THEN 1 ELSE 0) /\ (c => z[1] = d)
  <2>1. CASE c BY <2>1
  <2>2. CASE ~c BY <2>2
  <2> QED BY <2>1, <2>2
<1>3. f \in Seq(T) /\ Len(f) = n
  <2>1. f \in Seq(S) /\ S \subseteq T
    BY DEF IsList
  <2> HIDE DEF S, T
  <2> QED BY <2>1
<1>n. n \in Nat
  BY <1>3
<1>p. p = r \o z
  BY DEF Laid
<1> HIDE DEF T, x, y, z, n, p, S
<1>4. /\ q \in Seq(T) /\ Len(q) = n + 1 /\ q[1] = a
      /\ \A i \in 2..(n + 1) : q[i] = f[i - 1]
  <2>1. /\ x \o f \in Seq(T) /\ Len(x \o f) = Len(x) + Len(f)
        /\ \A i \in 1..(Len(x) + Len(f)) :
              (x \o f)[i] = IF i <= Len(x) THEN x[i] ELSE f[i - Len(x)]
    BY <1>1, <1>3, ConcatProperties
  <2> QED BY <1>1, <1>3, <1>n, <2>1
<1> HIDE DEF q
<1>5. /\ r \in Seq(T) /\ Len(r) = n + 2 /\ r[n + 2] = b
      /\ \A i \in 1..(n + 1) : r[i] = q[i]
  <2>1. /\ q \o y \in Seq(T) /\ Len(q \o y) = Len(q) + Len(y)
        /\ \A i \in 1..(Len(q) + Len(y)) :
              (q \o y)[i] = IF i <= Len(q) THEN q[i] ELSE y[i - Len(q)]
    BY <1>1, <1>4, ConcatProperties
  <2>2. Len(q \o y) = n + 2
    BY <1>1, <1>4, <1>n, <2>1
  <2>3. (q \o y)[n + 2] = b
    BY <1>1, <1>4, <1>n, <2>1
  <2> QED BY <1>1, <1>4, <1>n, <2>1, <2>2, <2>3
<1> HIDE DEF r
<1>6. /\ p \in Seq(T) /\ Len(p) = n + 2 + (IF c THEN 1 ELSE 0)
      /\ \A i \in 1..(n + 2) : p[i] = r[i]
      /\ c => p[n + 3] = d
  <2>1. /\ r \o z \in Seq(T) /\ Len(r \o z) = Len(r) + Len(z)
        /\ \A i \in 1..(Len(r) + Len(z)) :
              (r \o z)[i] = IF i <= Len(r) THEN r[i] ELSE z[i - Len(r)]
    BY <1>2, <1>5, ConcatProperties
  <2>2. Len(r) = n + 2 /\ Len(z) \in Nat
    BY <1>2, <1>5, <1>n
  <2>3. \A i \in 1..(n + 2) : p[i] = r[i]
    BY <1>p, <1>n, <2>1, <2>2
  <2>4. ASSUME c PROVE p[n + 3] = d
    <3>1. Len(r) = n + 2 /\ Len(z) = 1 /\ z[1] = d
      BY <1>2, <1>5, <1>n, <2>4
    <3>2. /\ n + 3 \in 1..(Len(r) + Len(z)) /\ ~(n + 3 <= Len(r))
          /\ (n + 3) - Len(r) = 1
      BY <3>1, <1>n
    <3>3. (r \o z)[n + 3] = z[(n + 3) - Len(r)]
      BY <2>1, <3>2
    <3> QED BY <1>p, <3>1, <3>2, <3>3
  <2> QED BY <1>p, <1>n, <1>2, <2>1, <2>2, <2>3, <2>4
<1>7. IsList(p)
  BY <1>6, SequencesAreLists
<1>8. DOMAIN p = 1..Len(p)
  BY <1>6
<1>9. p[1] = a /\ p[n + 2] = b
  <2>1. 1 \in 1..(n + 1) /\ 1 \in 1..(n + 2) /\ n + 2 \in 1..(n + 2)
    BY <1>n
  <2> QED BY <2>1, <1>n, <1>4, <1>5, <1>6
<1>10. \A i \in 2..(n + 1) : p[i] = f[i - 1]
  <2> TAKE i \in 2..(n + 1)
  <2>1. i \in 1..(n + 1) /\ i \in 1..(n + 2)
    BY <1>n
  <2> QED BY <2>1, <1>n, <1>4, <1>5, <1>6
<1>11. Len(p) = IF c THEN n + 3 ELSE n + 2
  BY <1>6, <1>n
<1> QED BY <1>n, <1>6, <1>7, <1>8, <1>9, <1>10, <1>11 DEF n, p

FinalTypes == {"ProofGenerated", "MismatchDetected", "ReleaseDecided", "FinalReleased"}

\* The events a final candidate leads to: a proof caused by the proposal, the
\* mismatches and the decision caused by the proof, and after a released
\* decision the release it causes.
PlanShape(p, n, candidate, proof, proposalId) ==
    LET decision == DecideRelease(candidate, proof)
    IN  /\ IsList(p) /\ Len(p) \in {n + 2, n + 3} /\ DOMAIN p = 1..Len(p)
        /\ \A i \in DOMAIN p : /\ DOMAIN p[i] = EventFields /\ p[i].wellFormed = TRUE
                               /\ p[i].type \in FinalTypes
        /\ p[1].type = "ProofGenerated" /\ p[1].cause = proposalId /\ p[1].body = proof
        /\ \A i \in 2..(n + 1) : p[i].type = "MismatchDetected" /\ p[i].cause = p[1].id
        /\ p[n + 2].type = "ReleaseDecided" /\ p[n + 2].cause = p[1].id
        /\ p[n + 2].body = decision
        /\ Len(p) = n + 3 =>
              /\ decision.status = "released"
              /\ p[n + 3].type = "FinalReleased" /\ p[n + 3].cause = p[n + 2].id
              /\ p[n + 3].body = [decision |-> decision, candidate |-> candidate]

\* The events submitFinalCandidate plans have this shape.
LEMMA FinalPlanShape ==
    ASSUME NEW c, NEW o, NEW proof, NEW m, NEW id, Len(m) \in Nat
    PROVE  PlanShape(FinalPlan(c, o, proof, m, id), Len(m), c, proof, id)
<1> DEFINE n == Len(m)
           decision == DecideRelease(c, proof)
           a == PlannedEvent(1, o.proofEventId, "ProofGenerated", id, proof)
           f == MismatchEvents(o, m, a.id)
           b == PlannedEvent(2 + n, o.releaseEventId, "ReleaseDecided", a.id, decision)
           d == PlannedEvent(3 + n, o.finalReleasedEventId, "FinalReleased", b.id,
                             [decision |-> decision, candidate |-> c])
           released == decision.status = "released"
           p == FinalPlan(c, o, proof, m, id)
<1>1. p = Laid(a, f, b, d, released)
  BY DEF FinalPlan, Laid
<1>2. /\ DOMAIN a = EventFields /\ a.wellFormed = TRUE
      /\ a.type = "ProofGenerated" /\ a.cause = id /\ a.body = proof
  BY DEF PlannedEvent, EventFields
<1>3. /\ DOMAIN b = EventFields /\ b.wellFormed = TRUE
      /\ b.type = "ReleaseDecided" /\ b.cause = a.id /\ b.body = decision
  BY DEF PlannedEvent, EventFields
<1>4. /\ DOMAIN d = EventFields /\ d.wellFormed = TRUE
      /\ d.type = "FinalReleased" /\ d.cause = b.id
      /\ d.body = [decision |-> decision, candidate |-> c]
  BY DEF PlannedEvent, EventFields
<1> HIDE DEF a, b, d, p
<1>5. \A i \in 1..n : /\ DOMAIN f[i] = EventFields /\ f[i].wellFormed = TRUE
                        /\ f[i].type = "MismatchDetected" /\ f[i].cause = a.id
  <2> SUFFICES ASSUME NEW i \in 1..n
               PROVE  /\ DOMAIN f[i] = EventFields /\ f[i].wellFormed = TRUE
                      /\ f[i].type = "MismatchDetected" /\ f[i].cause = a.id
    OBVIOUS
  <2>1. f[i] = [id |-> Given(MismatchId(o, i), <<Len(log) + 1 + (1 + i), "MismatchDetected">>),
                type |-> "MismatchDetected", cause |-> a.id, body |-> m[i], wellFormed |-> TRUE]
    BY DEF MismatchEvents, PlannedEvent
  <2> HIDE DEF f
  <2> QED BY <2>1 DEF EventFields
<1>6. IsList(f) /\ Len(f) = n
  <2>1. f \in [1..n -> Elements(f)]
    BY DEF MismatchEvents, Elements
  <2> HIDE DEF f
  <2>2. f \in Seq(Elements(f))
    BY <2>1, SeqDef
  <2> QED BY <2>1, <2>2 DEF IsList
<1> DEFINE rel == released
<1>7. rel \in BOOLEAN /\ n \in Nat
  OBVIOUS
<1> HIDE DEF f, n, released, rel, decision
<1>8. /\ IsList(p) /\ DOMAIN p = 1..Len(p)
      /\ Len(p) = IF rel THEN n + 3 ELSE n + 2
      /\ p[1] = a
      /\ \A i \in 2..(n + 1) : p[i] = f[i - 1]
      /\ p[n + 2] = b
      /\ rel => p[n + 3] = d
  <2>1. p = Laid(a, f, b, d, rel)
    BY <1>1 DEF rel
  <2>2. IsList(f) /\ Len(f) = n /\ rel \in BOOLEAN
    BY <1>6, <1>7
  <2> DEFINE l == Laid(a, f, b, d, rel)
  <2>3. /\ IsList(l) /\ DOMAIN l = 1..Len(l)
        /\ Len(l) = IF rel THEN Len(f) + 3 ELSE Len(f) + 2
        /\ l[1] = a
        /\ \A i \in 2..(Len(f) + 1) : l[i] = f[i - 1]
        /\ l[Len(f) + 2] = b
        /\ rel => l[Len(f) + 3] = d
    BY <2>2, PlanLayout
  <2> HIDE DEF l
  <2>4. p = l
    BY <2>1 DEF l
  <2> QED BY <2>2, <2>3, <2>4
<1>9. \A i \in 1..Len(p) : i = 1 \/ i \in 2..(n + 1) \/ i = n + 2 \/ (i = n + 3 /\ rel)
  BY <1>7, <1>8
<1>10. \A i \in 2..(n + 1) : i - 1 \in 1..n
  BY <1>7
<1>11. \A i \in DOMAIN p : /\ DOMAIN p[i] = EventFields /\ p[i].wellFormed = TRUE
                           /\ p[i].type \in FinalTypes
  <2> SUFFICES ASSUME NEW i \in 1..Len(p)
               PROVE  /\ DOMAIN p[i] = EventFields /\ p[i].wellFormed = TRUE
                      /\ p[i].type \in FinalTypes
    BY <1>8
  <2>1. CASE i = 1
    BY <2>1, <1>2, <1>8 DEF FinalTypes
  <2>2. CASE i \in 2..(n + 1)
    BY <2>2, <1>5, <1>8, <1>10 DEF FinalTypes
  <2>3. CASE i = n + 2
    BY <2>3, <1>3, <1>8 DEF FinalTypes
  <2>4. CASE i = n + 3 /\ rel
    BY <2>4, <1>4, <1>8 DEF FinalTypes
  <2> QED BY <1>9, <2>1, <2>2, <2>3, <2>4
<1>12. Len(p) \in {n + 2, n + 3} /\ (Len(p) = n + 3 => rel)
  BY <1>7, <1>8
<1>13. Len(p) = n + 3 =>
              /\ decision.status = "released"
              /\ p[n + 3].type = "FinalReleased" /\ p[n + 3].cause = p[n + 2].id
              /\ p[n + 3].body = [decision |-> decision, candidate |-> c]
  BY <1>4, <1>8, <1>12 DEF rel, released
<1>14. \A i \in 2..(n + 1) : p[i].type = "MismatchDetected" /\ p[i].cause = p[1].id
  BY <1>5, <1>8, <1>10
<1> QED
  BY <1>2, <1>3, <1>8, <1>11, <1>12, <1>13, <1>14 DEF PlanShape, p, n, decision

\* ------------------------------------------------------------------------
\* What a final candidate appends: its proposal, accepted like any event, and
\* then events of the release, each with a new id and caused by an earlier one.
FinalStep(c, o) ==
    /\ Grows /\ Len(log') >= Len(log) + 1
    /\ Newest = NewEvent("ProposalReceived", c, o, Given(o.causationId, started))
    /\ Accepts(log, Newest)
    /\ started # Null /\ started' = started /\ revision' = revision
    /\ kept' = IF o.wellFormed THEN [kept EXCEPT !["ProposalReceived"] = Append(@, c)] ELSE kept
    /\ \A i \in (Len(log) + 2)..Len(log') :
          /\ DOMAIN log'[i] = EventFields /\ log'[i].wellFormed = TRUE
          /\ log'[i].type \in FinalTypes
          /\ \A j \in 1..(i - 1) : log'[j].id # log'[i].id
          /\ \E j \in 1..(i - 1) : log'[j].id = log'[i].cause

\* A proof reports finitely many mismatches.
LEMMA FiniteMismatches ==
    ASSUME NEW c \in FinalCandidates, NEW R, NEW O, NEW t
    PROVE  IsFiniteSet(EvaluateProof(c, R, O, t).mismatches)
<1> DEFINE claims == c.claims
           verdict == [i \in DOMAIN claims |-> ClaimVerdict(claims[i], R, O, t, c.runId)]
           supported == {i \in DOMAIN claims : verdict[i] = "supported"}
           unsupported == (DOMAIN claims) \ supported
           F(i) == [index |-> i, claimId |-> claims[i].claimId,
                    type |-> verdict[i], blocking |-> TRUE]
           M == {F(i) : i \in unsupported}
<1>1. EvaluateProof(c, R, O, t).mismatches = M
  BY DEF EvaluateProof
<1>2. claims \in Seq(Elements(claims))
  BY InputContracts DEF Elements
<1> HIDE DEF claims, verdict
<1>3. DOMAIN claims = 1..Len(claims) /\ Len(claims) \in Nat
  BY <1>2
<1>4. IsFiniteSet(DOMAIN claims)
  BY <1>3, FS_Interval
<1>5. IsFiniteSet(unsupported)
  BY <1>4, FS_Subset
<1> HIDE DEF unsupported
<1> DEFINE f == [i \in unsupported |-> F(i)]
<1>6. f \in Surjection(unsupported, M)
  BY DEF Surjection
<1>7. IsFiniteSet(M)
  <2> HIDE DEF f, M
  <2> QED BY <1>5, <1>6, FS_Surjection
<1> QED BY <1>1, <1>7

\* How far a final candidate's plan p, with n mismatches, got: its first k
\* events are in the log, behind the proposal.
PlanLogged(p, n, k, c, proof) ==
    /\ n = Cardinality(proof.mismatches) /\ PlanShape(p, n, c, proof, Newest.id)
    /\ k <= Len(p)
    /\ \A i \in 1..k : Appendable(Append(log, Newest), p, i)
    /\ Len(log') = Len(log) + 1 + k
    /\ \A i \in 1..k : log'[Len(log) + 1 + i] = p[i]

\* The proof of a candidate at a time, from what the kernel has kept.
ProofNow(c, t) == EvaluateProof(c, Elements(kept["EffectReceiptRecorded"]),
                                Elements(kept["ExternalStateObserved"]), t)

\* SubmitFinalCandidate logs the proposal and, if that and the time are well
\* formed, events of the plan.
LEMMA FinalPlanLogged ==
    ASSUME IsList(log), NEW c \in FinalCandidates, NEW o \in FinalOptions, NEW t,
           SubmitFinalCandidate(c, o, t)
    PROVE  /\ Grows /\ Len(log') >= Len(log) + 1
           /\ Newest = NewEvent("ProposalReceived", c, o, Given(o.causationId, started))
           /\ \/ Len(log') = Len(log) + 1
              \/ /\ o.wellFormed /\ t # Null
                 /\ \E p : \E n, k \in Nat : PlanLogged(p, n, k, c, ProofNow(c, t))
<1> DEFINE e == NewEvent("ProposalReceived", c, o, Given(o.causationId, started))
           proof == ProofNow(c, t)
           before == Append(log, e)
           N == Len(log) + 1
           M == proof.mismatches
<1>1. IF e.wellFormed /\ t # Null
      THEN \E m \in InClaimOrder(M) : AppendPlan(before, FinalPlan(c, o, proof, m, e.id))
      ELSE log' = before
  BY DEF SubmitFinalCandidate, CanRecord, ProofNow
<1>2. e.wellFormed = o.wellFormed
  BY DEF NewEvent
<1>3. IsFiniteSet(M)
  BY FiniteMismatches DEF ProofNow
<1> HIDE DEF e, proof, M
<1>4. /\ IsList(before) /\ Len(log) \in Nat /\ DOMAIN log = 1..Len(log)
      /\ Len(before) = N /\ DOMAIN before = 1..N
      /\ \A i \in 1..Len(log) : before[i] = log[i]
      /\ before[N] = e
  BY AppendToList
<1>5. CASE ~(e.wellFormed /\ t # Null)
  <2>1. log' = before
    BY <1>1, <1>5
  <2> HIDE DEF before
  <2>2. Grows /\ Len(log') >= Len(log) + 1 /\ Newest = e /\ Len(log') = N
    BY <2>1, <1>4 DEF Grows, Newest
  <2> QED BY <2>2 DEF e
<1>6. CASE e.wellFormed /\ t # Null
  <2>1. PICK m \in InClaimOrder(M) : AppendPlan(before, FinalPlan(c, o, proof, m, e.id))
    BY <1>1, <1>6
  <2> DEFINE p == FinalPlan(c, o, proof, m, e.id)
             n == Len(m)
  <2>2. n \in Nat /\ n = Cardinality(M)
    <3>1. Cardinality(M) \in Nat
      BY <1>3, FS_CardinalityType
    <3>2. m \in [1..Cardinality(M) -> M]
      BY <2>1 DEF InClaimOrder
    <3> QED BY <3>1, <3>2
  <2>3. PlanShape(p, n, c, proof, e.id)
    BY <2>2, FinalPlanShape
  <2> HIDE DEF p
  <2>4. PICK k \in 0..Len(p) : /\ \A i \in 1..k : Appendable(before, p, i)
                               /\ log' = Joined(before, p, k)
    BY <2>1 DEF AppendPlan, Joined, p
  <2> HIDE DEF n
  <2>5. IsList(p) /\ (Len(p) = n + 2 \/ Len(p) = n + 3)
    BY <2>3 DEF PlanShape
  <2>6. k \in Nat /\ k <= Len(p) /\ Len(p) \in Nat /\ N \in Nat
    BY <1>4, <2>2, <2>5
  <2>7. /\ IsList(log') /\ Len(log') = N + k /\ DOMAIN log' = 1..(N + k)
        /\ \A i \in 1..N : log'[i] = before[i]
        /\ \A i \in 1..k : log'[N + i] = p[i]
    <3>1. IsJoined(Joined(before, p, k), before, p, k)
      <4>1. IsList(before) /\ IsList(p) /\ k \in 0..Len(p)
        BY <2>5, <1>4
      <4> HIDE DEF before
      <4> QED BY <4>1, ConcatToList, Zenon
    <3> HIDE DEF N, before
    <3> QED BY <3>1, <2>4, <1>4 DEF IsJoined
  <2>8. Grows /\ Len(log') >= Len(log) + 1 /\ Newest = e
    <3> HIDE DEF before
    <3> QED BY <1>4, <2>6, <2>7 DEF Grows, Newest
  <2>9. PlanLogged(p, n, k, c, proof)
    <3>1. \A i \in 1..k : Appendable(Append(log, Newest), p, i)
      BY <2>4, <2>8
    <3> HIDE DEF before
    <3> QED BY <2>2, <2>3, <2>6, <2>7, <2>8, <3>1 DEF PlanLogged, M
  <2> QED BY <1>2, <1>6, <2>2, <2>6, <2>8, <2>9 DEF e, proof
<1> QED BY <1>5, <1>6

\* SubmitFinalCandidate is such a step.
LEMMA FinalStepHolds ==
    ASSUME IsList(log), NEW c \in FinalCandidates, NEW o \in FinalOptions, NEW t,
           SubmitFinalCandidate(c, o, t)
    PROVE  FinalStep(c, o)
<1> DEFINE proof == ProofNow(c, t)
           N == Len(log) + 1
           Appended(i) == /\ DOMAIN log'[i] = EventFields /\ log'[i].wellFormed = TRUE
                          /\ log'[i].type \in FinalTypes
                          /\ \A j \in 1..(i - 1) : log'[j].id # log'[i].id
                          /\ \E j \in 1..(i - 1) : log'[j].id = log'[i].cause
<1>1. /\ started # Null /\ started' = started /\ revision' = revision
      /\ Accepts(log, NewEvent("ProposalReceived", c, o, Given(o.causationId, started)))
      /\ kept' = IF o.wellFormed THEN [kept EXCEPT !["ProposalReceived"] = Append(@, c)] ELSE kept
  BY DEF SubmitFinalCandidate, CanRecord, NewEvent
<1>2. /\ Grows /\ Len(log') >= N
      /\ Newest = NewEvent("ProposalReceived", c, o, Given(o.causationId, started))
      /\ \/ Len(log') = N
         \/ \E p : \E n, k \in Nat : PlanLogged(p, n, k, c, proof)
  BY FinalPlanLogged
<1> HIDE DEF proof
<1>3. /\ Len(log) \in Nat /\ N \in Nat /\ DOMAIN log = 1..Len(log)
      /\ \A i \in 1..Len(log) : log'[i] = log[i]
      /\ log'[N] = Newest
  <2>1. Grows
    BY <1>2
  <2> QED BY <2>1 DEF Grows, Newest
<1>4. IdsOf(Append(log, Newest)) = IdsOf(log) \cup {Newest.id}
  BY AppendToList, <1>3 DEF IdsOf
<1>5. ASSUME NEW p, NEW n \in Nat, NEW k \in Nat, PlanLogged(p, n, k, c, proof)
      PROVE  \A i \in (Len(log) + 2)..Len(log') : Appended(i)
  <2>d. DOMAIN p = 1..Len(p)
    BY <1>5 DEF PlanLogged, PlanShape
  <2>k. k <= Len(p)
    BY <1>5 DEF PlanLogged
  <2>l. Len(p) = n + 2 \/ Len(p) = n + 3
    BY <1>5 DEF PlanLogged, PlanShape
  <2>1. /\ \A i \in DOMAIN p : /\ DOMAIN p[i] = EventFields /\ p[i].wellFormed = TRUE
                               /\ p[i].type \in FinalTypes
        /\ p[1].cause = Newest.id
        /\ \A i \in 2..(n + 1) : p[i].cause = p[1].id
        /\ p[n + 2].cause = p[1].id
        /\ Len(p) = n + 3 => p[n + 3].cause = p[n + 2].id
    BY <1>5 DEF PlanLogged, PlanShape
  <2>2. Len(log') = N + k /\ \A i \in 1..k : log'[N + i] = p[i]
    BY <1>5 DEF PlanLogged
  <2>3. ASSUME NEW i \in 1..k
        PROVE  /\ DOMAIN p[i] = EventFields /\ p[i].wellFormed = TRUE
               /\ p[i].type \in FinalTypes
               /\ \A j \in 1..(N + i - 1) : log'[j].id # p[i].id
               /\ \E j \in 1..(N + i - 1) : log'[j].id = p[i].cause
    <3>1. i \in 1..Len(p)
      BY <2>k, <2>l
    <3>d. i \in DOMAIN p
      BY <3>1, <2>d, Zenon
    <3>2. DOMAIN p[i] = EventFields /\ p[i].wellFormed = TRUE /\ p[i].type \in FinalTypes
      BY <2>1, <3>d
    <3>3. ASSUME NEW j \in 1..(N + i - 1) PROVE log'[j].id # p[i].id
      <4>1. /\ p[i].id \notin IdsOf(log) \cup {Newest.id}
            /\ \A h \in 1..(i - 1) : p[h].id # p[i].id
        BY <1>4, <1>5 DEF PlanLogged, Appendable
      <4>2. CASE j \in 1..N
        BY <4>1, <4>2, <1>3 DEF IdsOf
      <4>3. CASE j \notin 1..N
        <5>1. j - N \in 1..(i - 1) /\ j - N \in 1..k /\ N + (j - N) = j
          BY <4>3, <1>3
        <5> QED BY <5>1, <4>1, <2>2
      <4> QED BY <4>2, <4>3
    <3>4. \E j \in 1..(N + i - 1) : log'[j].id = p[i].cause
      <4>1. CASE i = 1
        <5>1. N \in 1..(N + i - 1)
          BY <4>1, <1>3
        <5> QED BY <5>1, <4>1, <1>3, <2>1
      <4>2. CASE i \in 2..(n + 2)
        <5>1. p[i].cause = p[1].id
          <6>1. i \in 2..(n + 1) \/ i = n + 2
            BY <4>2
          <6> QED BY <6>1, <2>1
        <5>2. 1 \in 1..k /\ N + 1 \in 1..(N + i - 1)
          BY <4>2, <1>3
        <5> QED BY <5>1, <5>2, <2>2
      <4>3. CASE i = n + 3
        <5>1. p[i].cause = p[n + 2].id
          <6>1. Len(p) = n + 3
            BY <4>3, <2>l, <3>1
          <6> QED BY <4>3, <6>1, <2>1
        <5>2. n + 2 \in 1..k /\ N + (n + 2) \in 1..(N + i - 1)
          BY <4>3, <1>3
        <5> QED BY <5>1, <5>2, <2>2
      <4> QED BY <4>1, <4>2, <4>3, <2>l, <3>1
    <3> QED BY <3>2, <3>3, <3>4
  <2>4. ASSUME NEW i \in (Len(log) + 2)..Len(log') PROVE Appended(i)
    <3>1. i - N \in 1..k /\ N + (i - N) = i
      BY <1>3, <2>2
    <3>2. PICK h \in 1..k : N + h = i
      BY <3>1
    <3>3. log'[i] = p[h]
      BY <3>2, <2>2
    <3>4. 1..(i - 1) = 1..(N + h - 1)
      BY <3>2
    <3>5. /\ DOMAIN p[h] = EventFields /\ p[h].wellFormed = TRUE
          /\ p[h].type \in FinalTypes
          /\ \A j \in 1..(N + h - 1) : log'[j].id # p[h].id
          /\ \E j \in 1..(N + h - 1) : log'[j].id = p[h].cause
      BY <2>3, Zenon
    <3> QED BY <3>3, <3>4, <3>5, Zenon
  <2> QED BY <2>4
<1>6. \A i \in (Len(log) + 2)..Len(log') : Appended(i)
  <2>1. CASE Len(log') = N
    BY <2>1, <1>3
  <2> QED BY <2>1, <1>2, <1>5
<1> QED BY <1>1, <1>2, <1>6 DEF FinalStep

\* ------------------------------------------------------------------------
\* What every step does to the log: it appends events of the kernel's types,
\* each with an id nothing before it has and caused by something before it.
Extends ==
    /\ Grows
    /\ \A i \in (Len(log) + 1)..Len(log') :
          /\ DOMAIN log'[i] = EventFields /\ log'[i].type \in EventTypes
          /\ log'[i].wellFormed \in BOOLEAN
          /\ \A j \in 1..(i - 1) : log'[j].id # log'[i].id
          /\ log'[i].cause = Null \/ \E j \in 1..(i - 1) : log'[j].id = log'[i].cause

\* An accepted event has a new id and a cause in the log.
LEMMA AcceptedIsNew ==
    ASSUME NEW type \in EventTypes, NEW body, NEW o \in EventOptions \cup FinalOptions, NEW cause,
           Grows, Len(log') >= Len(log) + 1, Newest = NewEvent(type, body, o, cause),
           Accepts(log, Newest)
    PROVE  LET N == Len(log) + 1
           IN  /\ DOMAIN log'[N] = EventFields /\ log'[N].type \in EventTypes
               /\ log'[N].wellFormed \in BOOLEAN
               /\ \A j \in 1..(N - 1) : log'[j].id # log'[N].id
               /\ log'[N].cause = Null \/ \E j \in 1..(N - 1) : log'[j].id = log'[N].cause
<1> DEFINE N == Len(log) + 1
           e == log'[N]
<1>1. /\ DOMAIN e = EventFields /\ e.type = type
      /\ e.wellFormed = o.wellFormed
  BY DEF Newest, NewEvent, EventFields
<1>2. o.wellFormed \in BOOLEAN
  BY InputContracts
<1>3. N - 1 = Len(log) /\ DOMAIN log = 1..Len(log) /\ \A i \in 1..Len(log) : log'[i] = log[i]
  BY DEF Grows
<1>4. e.id \notin IdsOf(log) /\ (e.cause = Null \/ e.cause \in IdsOf(log))
  BY DEF Newest, Accepts
<1> HIDE DEF e, N
<1>5. \A j \in 1..(N - 1) : log'[j].id # e.id
  BY <1>3, <1>4 DEF IdsOf
<1>6. e.cause = Null \/ \E j \in 1..(N - 1) : log'[j].id = e.cause
  BY <1>3, <1>4 DEF IdsOf
<1>7. e.type \in EventTypes /\ e.wellFormed \in BOOLEAN
  BY <1>1, <1>2
<1> QED BY <1>1, <1>5, <1>6, <1>7 DEF e, N

\* A step that appends one accepted event extends the log.
LEMMA OneEventExtends ==
    ASSUME NEW type \in EventTypes, NEW body, NEW o \in EventOptions, NEW cause,
           Grows, Len(log') = Len(log) + 1, Newest = NewEvent(type, body, o, cause),
           Accepts(log, Newest)
    PROVE  Extends
<1>1. Len(log') >= Len(log) + 1 /\ (Len(log) + 1)..Len(log') = {Len(log) + 1}
  BY DEF Grows
<1> QED BY <1>1, AcceptedIsNew DEF Extends

\* Every step extends the log.
LEMMA StepsExtend ==
    ASSUME TypeOK, Next
    PROVE  Extends
<1>1. IsList(log)
  BY DEF TypeOK, IsList
<1>2. CASE \E o \in EventOptions : StartRun(o)
  <2>1. PICK o \in EventOptions : StartRun(o)
    BY <1>2
  <2>2. "RunStarted" \in EventTypes
    BY DEF EventTypes
  <2> QED BY <1>1, <2>1, <2>2, StartStep, OneEventExtends
<1>3. CASE \E type \in KeptTypes : \E body \in Inputs[type], o \in EventOptions :
                RecordEvent(type, body, o)
  <2>0. PICK type \in KeptTypes : \E body \in Inputs[type], o \in EventOptions :
                                     RecordEvent(type, body, o)
    BY <1>3
  <2>1. PICK body \in Inputs[type], o \in EventOptions : RecordEvent(type, body, o)
    BY <2>0
  <2>2. type \in EventTypes
    BY DEF EventTypes
  <2> QED BY <1>1, <2>1, <2>2, RecordStep, OneEventExtends
<1>4. CASE \E c \in FinalCandidates, o \in FinalOptions, t \in Times \cup {Null} :
                SubmitFinalCandidate(c, o, t)
  <2>1. PICK c \in FinalCandidates, o \in FinalOptions : FinalStep(c, o)
    BY <1>1, <1>4, FinalStepHolds
  <2>2. "ProposalReceived" \in EventTypes /\ FinalTypes \subseteq EventTypes
    BY DEF EventTypes, FinalTypes, KeptTypes, Inputs
  <2>3. Grows /\ Len(log') >= Len(log) + 1
    BY <2>1 DEF FinalStep
  <2>4. ASSUME NEW i \in (Len(log) + 1)..Len(log')
        PROVE  /\ DOMAIN log'[i] = EventFields /\ log'[i].type \in EventTypes
               /\ log'[i].wellFormed \in BOOLEAN
               /\ \A j \in 1..(i - 1) : log'[j].id # log'[i].id
               /\ log'[i].cause = Null \/ \E j \in 1..(i - 1) : log'[j].id = log'[i].cause
    <3>1. CASE i = Len(log) + 1
      BY <2>1, <2>2, <3>1, AcceptedIsNew DEF FinalStep
    <3>2. CASE i # Len(log) + 1
      <4>1. i \in (Len(log) + 2)..Len(log')
        BY <2>3, <3>2 DEF Grows
      <4> QED BY <4>1, <2>1, <2>2 DEF FinalStep
    <3> QED BY <3>1, <3>2
  <2> QED BY <2>3, <2>4 DEF Extends
<1> QED BY <1>2, <1>3, <1>4, StepKinds

\* ------------------------------------------------------------------------
\* Every step keeps the types.
LEMMA StepsKeepTypes ==
    ASSUME TypeOK, Next
    PROVE  TypeOK'
<1>1. Extends
  BY StepsExtend
<1>2. log' \in Seq(Elements(log'))
  BY <1>1 DEF Extends, Grows, IsList
<1>3. ASSUME NEW i \in DOMAIN log'
      PROVE  /\ DOMAIN log'[i] = EventFields /\ log'[i].type \in EventTypes
             /\ log'[i].wellFormed \in BOOLEAN
  <2>1. CASE i \in 1..Len(log)
    BY <2>1, <1>1 DEF Extends, Grows, TypeOK
  <2>2. CASE i \notin 1..Len(log)
    <3>1. i \in (Len(log) + 1)..Len(log')
      BY <2>2, <1>1 DEF Extends, Grows
    <3> QED BY <3>1, <1>1 DEF Extends
  <2> QED BY <2>1, <2>2
<1>4. /\ DOMAIN kept' = KeptTypes /\ \A t \in KeptTypes : kept'[t] \in Seq(Inputs[t])
      /\ revision' \in [StateRefs -> Nat]
  <2>k. /\ DOMAIN kept = KeptTypes /\ \A t \in KeptTypes : kept[t] \in Seq(Inputs[t])
        /\ revision \in [StateRefs -> Nat]
    BY DEF TypeOK
  <2>l. IsList(log)
    BY DEF TypeOK, IsList
  <2>p. ASSUME NEW type \in KeptTypes, NEW body \in Inputs[type],
               kept' = [kept EXCEPT ![type] = Append(@, body)]
        PROVE  DOMAIN kept' = KeptTypes /\ \A t \in KeptTypes : kept'[t] \in Seq(Inputs[t])
    <3>1. Append(kept[type], body) \in Seq(Inputs[type])
      BY <2>k
    <3> QED BY <2>k, <2>p, <3>1
  <2>1. CASE \E o \in EventOptions : StartRun(o)
    BY <2>1, <2>k, <2>l, StartStep
  <2>2. CASE \E type \in KeptTypes : \E body \in Inputs[type], o \in EventOptions :
                RecordEvent(type, body, o) /\ revision' \in [StateRefs -> Nat]
    <3>1. PICK type \in KeptTypes : \E body \in Inputs[type], o \in EventOptions :
              RecordEvent(type, body, o) /\ revision' \in [StateRefs -> Nat]
      BY <2>2
    <3>2. PICK body \in Inputs[type], o \in EventOptions :
              RecordEvent(type, body, o) /\ revision' \in [StateRefs -> Nat]
      BY <3>1
    <3>3. \/ kept' = kept
          \/ kept' = [kept EXCEPT ![type] = Append(@, body)]
      BY <3>2, <2>l, RecordStep
    <3> QED BY <3>2, <3>3, <2>k, <2>p
  <2>3. CASE \E c \in FinalCandidates, o \in FinalOptions, t \in Times \cup {Null} :
                SubmitFinalCandidate(c, o, t)
    <3>1. PICK c \in FinalCandidates, o \in FinalOptions : FinalStep(c, o)
      BY <2>3, <2>l, FinalStepHolds
    <3>2. "ProposalReceived" \in KeptTypes /\ c \in Inputs["ProposalReceived"]
      BY DEF KeptTypes, Inputs
    <3>3. \/ kept' = kept
          \/ kept' = [kept EXCEPT !["ProposalReceived"] = Append(@, c)]
      BY <3>1 DEF FinalStep
    <3>4. revision' = revision
      BY <3>1 DEF FinalStep
    <3> QED BY <3>2, <3>3, <3>4, <2>k, <2>p
  <2> QED BY <2>1, <2>2, <2>3, StepKinds
<1> QED BY <1>2, <1>3, <1>4 DEF TypeOK

\* A kernel that was just created has the types it should.
LEMMA InitHasTypes ==
    ASSUME Init
    PROVE  TypeOK
<1>1. log \in Seq(Elements(log)) /\ DOMAIN log = {}
  BY DEF Init
<1>2. DOMAIN kept = KeptTypes /\ \A t \in KeptTypes : kept[t] \in Seq(Inputs[t])
  BY DEF Init
<1>3. revision \in [StateRefs -> Nat]
  BY DEF Init
<1> QED BY <1>1, <1>2, <1>3 DEF TypeOK

\* Type correctness: whatever callers send, the log stays a gapless sequence of
\* events of the kernel's types, and the private lists hold inputs of their kind.
THEOREM TypeCorrect == Spec => []TypeOK
<1>1. Init => TypeOK
  BY InitHasTypes
<1>2. TypeOK /\ [Next]_vars => TypeOK'
  <2> SUFFICES ASSUME TypeOK, [Next]_vars PROVE TypeOK'
    OBVIOUS
  <2>1. CASE UNCHANGED vars
    BY <2>1 DEF TypeOK, vars, Elements
  <2>2. CASE Next
    BY <2>2, StepsKeepTypes
  <2> QED BY <2>1, <2>2
<1> QED BY <1>1, <1>2, PTL DEF Spec

\* The audit trail is well founded in every run: event ids are unique and every
\* cause precedes its effect, for any choice of ids by the callers.
THEOREM LogStaysIntact == Spec => []LogIntegrity
<1>1. Init => LogIntegrity
  BY DEF Init, LogIntegrity
<1>2. TypeOK /\ LogIntegrity /\ [Next]_vars => LogIntegrity'
  <2> SUFFICES ASSUME TypeOK, LogIntegrity, [Next]_vars PROVE LogIntegrity'
    OBVIOUS
  <2>1. CASE UNCHANGED vars
    BY <2>1 DEF LogIntegrity, vars
  <2>2. CASE Next
    <3>1. Extends
      BY <2>2, StepsExtend
    <3>2. /\ Len(log) \in Nat /\ Len(log') \in Nat
          /\ DOMAIN log = 1..Len(log) /\ DOMAIN log' = 1..Len(log')
          /\ \A i \in 1..Len(log) : log'[i] = log[i]
      BY <3>1 DEF Extends, Grows
    <3>3. ASSUME NEW i \in DOMAIN log', NEW j \in 1..(i - 1)
          PROVE  log'[j].id # log'[i].id
      <4>1. CASE i \in 1..Len(log)
        <5>1. j \in 1..Len(log) /\ j # i
          BY <4>1, <3>2
        <5> QED BY <4>1, <5>1, <3>2 DEF LogIntegrity
      <4>2. CASE i \notin 1..Len(log)
        <5>1. i \in (Len(log) + 1)..Len(log')
          BY <4>2, <3>2
        <5> QED BY <5>1, <3>1 DEF Extends
      <4> QED BY <4>1, <4>2
    <3>4. ASSUME NEW i \in DOMAIN log', NEW j \in DOMAIN log', log'[i].id = log'[j].id
          PROVE  i = j
      <4>1. i \in Nat /\ j \in Nat /\ i >= 1 /\ j >= 1
        BY <3>2
      <4>2. j \notin 1..(i - 1) /\ i \notin 1..(j - 1)
        BY <3>3, <3>4
      <4> QED BY <4>1, <4>2
    <3>5. ASSUME NEW i \in DOMAIN log'
          PROVE  log'[i].cause = Null \/ \E j \in 1..(i - 1) : log'[j].id = log'[i].cause
      <4>1. CASE i \in 1..Len(log)
        <5>1. log[i].cause = Null \/ \E j \in 1..(i - 1) : log[j].id = log[i].cause
          BY <4>1, <3>2 DEF LogIntegrity
        <5>2. \A j \in 1..(i - 1) : log'[j] = log[j]
          BY <4>1, <3>2
        <5> QED BY <4>1, <5>1, <5>2, <3>2
      <4>2. CASE i \notin 1..Len(log)
        <5>1. i \in (Len(log) + 1)..Len(log')
          BY <4>2, <3>2
        <5> QED BY <5>1, <3>1 DEF Extends
      <4> QED BY <4>1, <4>2
    <3> QED BY <3>4, <3>5 DEF LogIntegrity
  <2> QED BY <2>1, <2>2
<1> QED BY <1>1, <1>2, TypeCorrect, PTL DEF Spec

\* ------------------------------------------------------------------------
\* The private lists and the log.

\* A step that records an input: the first event it appends carries the input,
\* the list of its type gets it if the call did not throw, and whatever else it
\* appends belongs to a release.
Records(type, body, ok) ==
    /\ Grows /\ Len(log') >= Len(log) + 1
    /\ Newest.type = type /\ Newest.body = body /\ Newest.wellFormed = ok
    /\ kept' = IF ok THEN [kept EXCEPT ![type] = Append(@, body)] ELSE kept
    /\ \A i \in (Len(log) + 2)..Len(log') : log'[i].type \in FinalTypes

Starts ==
    /\ Grows /\ Len(log') = Len(log) + 1
    /\ Newest.type = "RunStarted" /\ kept' = kept /\ revision' = revision

\* Every step starts the run or records a checked input.
LEMMA StepsRecord ==
    ASSUME TypeOK, Next
    PROVE  \/ Starts
           \/ \E type \in KeptTypes : \E body \in Inputs[type], ok \in BOOLEAN :
                 Records(type, body, ok) /\ Checked(type, body)
<1>1. IsList(log)
  BY DEF TypeOK, IsList
<1>2. CASE \E o \in EventOptions : StartRun(o)
  <2>1. PICK o \in EventOptions : StartRun(o)
    BY <1>2
  <2>2. Starts
    BY <1>1, <2>1, StartStep DEF Starts, NewEvent
  <2> QED BY <2>2
<1>3. CASE \E type \in KeptTypes : \E body \in Inputs[type], o \in EventOptions :
                RecordEvent(type, body, o) /\ Checked(type, body)
  <2>1. PICK type \in KeptTypes : \E body \in Inputs[type], o \in EventOptions :
                RecordEvent(type, body, o) /\ Checked(type, body)
    BY <1>3
  <2>2. PICK body \in Inputs[type], o \in EventOptions :
                RecordEvent(type, body, o) /\ Checked(type, body)
    BY <2>1
  <2>3. o.wellFormed \in BOOLEAN
    BY InputContracts
  <2>4. /\ Grows /\ Len(log') = Len(log) + 1
        /\ Newest = NewEvent(type, body, o, Given(o.causationId, started))
        /\ kept' = IF o.wellFormed THEN [kept EXCEPT ![type] = Append(@, body)] ELSE kept
    BY <1>1, <2>2, RecordStep
  <2>5. (Len(log) + 2)..Len(log') = {} /\ Len(log') >= Len(log) + 1
    BY <2>4 DEF Grows
  <2>6. Newest.type = type /\ Newest.body = body /\ Newest.wellFormed = o.wellFormed
    BY <2>4 DEF NewEvent
  <2>7. Records(type, body, o.wellFormed)
    BY <2>4, <2>5, <2>6 DEF Records
  <2> QED BY <2>2, <2>3, <2>7
<1>4. CASE \E c \in FinalCandidates, o \in FinalOptions, t \in Times \cup {Null} :
                SubmitFinalCandidate(c, o, t)
  <2>1. PICK c \in FinalCandidates, o \in FinalOptions : FinalStep(c, o)
    BY <1>1, <1>4, FinalStepHolds
  <2>2. "ProposalReceived" \in KeptTypes /\ c \in Inputs["ProposalReceived"]
    BY DEF KeptTypes, Inputs
  <2>3. o.wellFormed \in BOOLEAN
    BY InputContracts
  <2>4. /\ Newest.type = "ProposalReceived" /\ Newest.body = c
        /\ Newest.wellFormed = o.wellFormed
    BY <2>1 DEF FinalStep, NewEvent
  <2>5. Records("ProposalReceived", c, o.wellFormed)
    BY <2>1, <2>4 DEF Records, FinalStep
  <2>6. Checked("ProposalReceived", c)
    BY <2>1 DEF Checked, FinalStep
  <2> QED BY <2>2, <2>3, <2>5, <2>6
<1> QED BY <1>2, <1>3, <1>4, StepKinds

\* Events the kernel keeps no list for.
LEMMA UnkeptTypes ==
    /\ "RunStarted" \notin KeptTypes
    /\ \A type \in FinalTypes : type \notin KeptTypes
BY DEF KeptTypes, Inputs, FinalTypes

\* A kept event a step appends is the first one it appends, and was checked.
LEMMA NewKeptEvent ==
    ASSUME TypeOK, Next, NEW i \in DOMAIN log', i \notin 1..Len(log), log'[i].type \in KeptTypes
    PROVE  /\ i = Len(log) + 1 /\ Grows
           /\ Checked(log'[i].type, log'[i].body)
           /\ log'[i].body \in Inputs[log'[i].type]
<1>1. CASE Starts
  <2>1. i = Len(log) + 1
    BY <1>1 DEF Starts, Grows
  <2> QED BY <1>1, <2>1, UnkeptTypes DEF Starts, Newest
<1>2. ASSUME NEW type \in KeptTypes, NEW body \in Inputs[type], NEW ok \in BOOLEAN,
             Records(type, body, ok), Checked(type, body)
      PROVE  /\ i = Len(log) + 1 /\ Grows
             /\ Checked(log'[i].type, log'[i].body)
             /\ log'[i].body \in Inputs[log'[i].type]
  <2>1. i \notin (Len(log) + 2)..Len(log')
    BY <1>2, UnkeptTypes DEF Records
  <2>2. i = Len(log) + 1 /\ Grows
    BY <1>2, <2>1 DEF Records, Grows
  <2>3. log'[i].type = type /\ log'[i].body = body
    BY <1>2, <2>2 DEF Records, Newest
  <2> QED BY <1>2, <2>2, <2>3
<1> QED BY <1>1, <1>2, StepsRecord

\* The lists mirror the log: what is on a list was logged by an accepted event of
\* its type, and what such an event carries is on the list.  Logged inputs are
\* of their kind.
Mirrored ==
    /\ \A t \in KeptTypes : \A n \in DOMAIN kept[t] :
          \E i \in DOMAIN log : log[i].type = t /\ log[i].wellFormed /\ log[i].body = kept[t][n]
    /\ \A i \in DOMAIN log : log[i].type \in KeptTypes /\ log[i].wellFormed =>
          \E n \in DOMAIN kept[log[i].type] : kept[log[i].type][n] = log[i].body
    /\ \A i \in DOMAIN log : log[i].type \in KeptTypes => log[i].body \in Inputs[log[i].type]

\* Recording keeps the lists a mirror of the log.
LEMMA RecordingMirrors ==
    ASSUME TypeOK, Mirrored, NEW type \in KeptTypes, NEW body \in Inputs[type],
           NEW ok \in BOOLEAN, Records(type, body, ok)
    PROVE  Mirrored'
<1> DEFINE N == Len(log) + 1
<1>1. /\ Len(log) \in Nat /\ Len(log') \in Nat /\ N <= Len(log')
      /\ DOMAIN log = 1..Len(log) /\ DOMAIN log' = 1..Len(log')
      /\ \A i \in 1..Len(log) : log'[i] = log[i]
  BY DEF Records, Grows
<1>2. log'[N].type = type /\ log'[N].body = body /\ log'[N].wellFormed = ok /\ N \in DOMAIN log'
  BY <1>1 DEF Records, Newest
<1>3. \A i \in DOMAIN log' : i \in 1..Len(log) \/ i = N \/ log'[i].type \in FinalTypes
  BY <1>1 DEF Records
<1>4. /\ DOMAIN kept = KeptTypes /\ kept[type] \in Seq(Inputs[type])
      /\ \A t \in KeptTypes : kept[t] \in Seq(Inputs[t])
  BY DEF TypeOK
<1> DEFINE list == kept[type]
<1>5. /\ \A n \in DOMAIN Append(list, body) :
            \/ n \in DOMAIN list /\ Append(list, body)[n] = list[n]
            \/ Append(list, body)[n] = body
      /\ \A n \in DOMAIN list : n \in DOMAIN Append(list, body) /\ Append(list, body)[n] = list[n]
      /\ Len(list) + 1 \in DOMAIN Append(list, body) /\ Append(list, body)[Len(list) + 1] = body
  BY <1>4
<1>6. kept' = IF ok THEN [kept EXCEPT ![type] = Append(list, body)] ELSE kept
  BY DEF Records
<1>7. \A t \in KeptTypes : kept'[t] = IF ok /\ t = type THEN Append(list, body) ELSE kept[t]
  BY <1>4, <1>6
<1> HIDE DEF N
<1>8. ASSUME NEW t \in KeptTypes, NEW n \in DOMAIN kept'[t]
      PROVE  \E i \in DOMAIN log' : /\ log'[i].type = t /\ log'[i].wellFormed
                                    /\ log'[i].body = kept'[t][n]
  <2>1. CASE n \in DOMAIN kept[t] /\ kept'[t][n] = kept[t][n]
    <3>1. PICK i \in DOMAIN log : /\ log[i].type = t /\ log[i].wellFormed
                                  /\ log[i].body = kept[t][n]
      BY <2>1 DEF Mirrored
    <3>2. i \in DOMAIN log' /\ log'[i] = log[i]
      BY <1>1 DEF N
    <3> QED BY <2>1, <3>1, <3>2
  <2>2. CASE ok /\ t = type /\ kept'[t][n] = body
    BY <2>2, <1>2
  <2> QED BY <2>1, <2>2, <1>5, <1>7
<1>9. ASSUME NEW i \in DOMAIN log', log'[i].type \in KeptTypes, log'[i].wellFormed
      PROVE  \E n \in DOMAIN kept'[log'[i].type] : kept'[log'[i].type][n] = log'[i].body
  <2>1. CASE i \in 1..Len(log)
    <3>1. PICK n \in DOMAIN kept[log[i].type] : kept[log[i].type][n] = log[i].body
      BY <2>1, <1>1, <1>9 DEF Mirrored
    <3>2. n \in DOMAIN kept'[log[i].type] /\ kept'[log[i].type][n] = kept[log[i].type][n]
      BY <3>1, <2>1, <1>1, <1>5, <1>7, <1>9
    <3> QED BY <3>1, <3>2, <2>1, <1>1
  <2>2. CASE i = N
    BY <2>2, <1>2, <1>5, <1>7, <1>9
  <2>3. CASE log'[i].type \in FinalTypes
    BY <2>3, <1>9, UnkeptTypes
  <2> QED BY <2>1, <2>2, <2>3, <1>3
<1>10. ASSUME NEW i \in DOMAIN log', log'[i].type \in KeptTypes
       PROVE  log'[i].body \in Inputs[log'[i].type]
  <2>1. CASE i \in 1..Len(log)
    BY <2>1, <1>1, <1>10 DEF Mirrored
  <2>2. CASE i = N
    BY <2>2, <1>2
  <2>3. CASE log'[i].type \in FinalTypes
    BY <2>3, <1>10, UnkeptTypes
  <2> QED BY <2>1, <2>2, <2>3, <1>3
<1> QED BY <1>8, <1>9, <1>10 DEF Mirrored

\* Starting the run changes no list.
LEMMA StartingMirrors ==
    ASSUME Mirrored, Starts
    PROVE  Mirrored'
<1>1. /\ DOMAIN log = 1..Len(log) /\ \A i \in 1..Len(log) : log'[i] = log[i]
      /\ \A i \in DOMAIN log : i \in DOMAIN log'
      /\ \A i \in DOMAIN log' : i \in 1..Len(log) \/ log'[i].type \notin KeptTypes
      /\ kept' = kept
  <2>1. Grows /\ Len(log') = Len(log) + 1 /\ Newest.type = "RunStarted" /\ kept' = kept
    BY DEF Starts
  <2> QED BY <2>1, UnkeptTypes DEF Grows, Newest
<1> QED BY <1>1 DEF Mirrored

\* The private lists mirror the log in every run.
THEOREM ListsMirrorLog == Spec => []Mirrored
<1>1. Init => Mirrored
  BY DEF Init, Mirrored
<1>2. TypeOK /\ Mirrored /\ [Next]_vars => Mirrored'
  <2> SUFFICES ASSUME TypeOK, Mirrored, [Next]_vars PROVE Mirrored'
    OBVIOUS
  <2>1. CASE UNCHANGED vars
    BY <2>1 DEF Mirrored, vars
  <2>2. CASE Next
    BY <2>2, StepsRecord, RecordingMirrors, StartingMirrors
  <2> QED BY <2>1, <2>2
<1> QED BY <1>1, <1>2, TypeCorrect, PTL DEF Spec

\* ------------------------------------------------------------------------
\* The private state is the log's.

\* Counting the members of a set up to one of them.
LEMMA RankInGrowingSet ==
    ASSUME NEW n \in Nat, NEW S, S \subseteq 1..n
    PROVE  /\ Cardinality(S) \in Nat
           /\ \A i \in S : Cardinality({j \in S : j <= i}) \in 1..Cardinality(S)
           /\ Cardinality(S \cup {n + 1}) = Cardinality(S) + 1
           /\ {j \in S \cup {n + 1} : j <= n + 1} = S \cup {n + 1}
           /\ \A i \in S : {j \in S \cup {n + 1} : j <= i} = {j \in S : j <= i}
<1>1. IsFiniteSet(S) /\ Cardinality(S) \in Nat
  <2>1. IsFiniteSet(1..n)
    BY FS_Interval
  <2>2. IsFiniteSet(S)
    BY <2>1, FS_Subset
  <2> QED BY <2>2, FS_CardinalityType
<1>2. ASSUME NEW i \in S
      PROVE  Cardinality({j \in S : j <= i}) \in 1..Cardinality(S)
  <2> DEFINE T == {j \in S : j <= i}
  <2>1. T \subseteq S /\ i \in T
    BY <1>2
  <2> HIDE DEF T
  <2>2. IsFiniteSet(T) /\ Cardinality(T) \in Nat /\ Cardinality(T) <= Cardinality(S)
    BY <1>1, <2>1, FS_Subset, FS_CardinalityType
  <2>3. Cardinality(T) # 0
    BY <2>1, <2>2, FS_EmptySet
  <2> QED BY <1>1, <2>2, <2>3 DEF T
<1>3. n + 1 \notin S
  OBVIOUS
<1>4. Cardinality(S \cup {n + 1}) = Cardinality(S) + 1
  BY <1>1, <1>3, FS_AddElement
<1>5. {j \in S \cup {n + 1} : j <= n + 1} = S \cup {n + 1}
  <2>1. \A j \in S \cup {n + 1} : j <= n + 1
    OBVIOUS
  <2> QED BY <2>1, Zenon
<1>6. \A i \in S : {j \in S \cup {n + 1} : j <= i} = {j \in S : j <= i}
  OBVIOUS
<1> QED BY <1>1, <1>2, <1>4, <1>5, <1>6

\* The first part of PrivateStateFollowsLog: each list holds the bodies of the
\* accepted events of its type in log order.
ListsInOrder ==
    \A t \in KeptTypes :
        /\ Len(kept[t]) = Cardinality(AcceptedEvents(t))
        /\ \A i \in AcceptedEvents(t) :
              kept[t][Cardinality({j \in AcceptedEvents(t) : j <= i})] = log[i].body

\* A step adds at most the position it recorded at to the accepted ones.
LEMMA NewAccepted ==
    ASSUME TypeOK, NEW type \in KeptTypes, NEW body, NEW ok \in BOOLEAN,
           Records(type, body, ok), NEW t \in KeptTypes
    PROVE  AcceptedEvents(t)' = IF ok /\ t = type THEN AcceptedEvents(t) \cup {Len(log) + 1} ELSE AcceptedEvents(t)
<1>1. /\ Len(log) \in Nat /\ Len(log') \in Nat /\ Len(log) + 1 <= Len(log')
      /\ DOMAIN log = 1..Len(log) /\ DOMAIN log' = 1..Len(log')
      /\ \A i \in 1..Len(log) : log'[i] = log[i]
  BY DEF Records, Grows
<1>2. /\ log'[Len(log) + 1].type = type /\ log'[Len(log) + 1].wellFormed = ok
      /\ \A i \in (Len(log) + 2)..Len(log') : log'[i].type # t
  BY UnkeptTypes DEF Records, Newest
<1>3. AcceptedEvents(t)' = {i \in 1..Len(log') : log'[i].type = t /\ log'[i].wellFormed}
  BY <1>1 DEF AcceptedEvents, Is
<1>4. AcceptedEvents(t) = {i \in 1..Len(log) : log[i].type = t /\ log[i].wellFormed}
  BY <1>1 DEF AcceptedEvents, Is
<1>5. \A i \in 1..Len(log') : i \in 1..Len(log) \/ i = Len(log) + 1 \/ i \in (Len(log) + 2)..Len(log')
  BY <1>1
<1>6. Len(log) + 1 \in 1..Len(log') /\ \A i \in 1..Len(log) : i \in 1..Len(log')
  BY <1>1
<1> QED BY <1>1, <1>2, <1>3, <1>4, <1>5, <1>6

\* Recording keeps the lists in the order of the log.
LEMMA RecordingKeepsOrder ==
    ASSUME TypeOK, ListsInOrder, NEW type \in KeptTypes, NEW body \in Inputs[type],
           NEW ok \in BOOLEAN, Records(type, body, ok)
    PROVE  ListsInOrder'
<1> SUFFICES ASSUME NEW t \in KeptTypes
             PROVE  /\ Len(kept'[t]) = Cardinality(AcceptedEvents(t)')
                    /\ \A i \in AcceptedEvents(t)' :
                          kept'[t][Cardinality({j \in AcceptedEvents(t)' : j <= i})] = log'[i].body
  BY DEF ListsInOrder
<1>1. PICK n \in Nat : n = Len(log)
  BY DEF Records, Grows
<1>2. PICK S : S = AcceptedEvents(t)
  OBVIOUS
<1>3. PICK list : list = kept[t]
  OBVIOUS
<1>4. S \subseteq 1..n /\ \A i \in S : log'[i] = log[i]
  BY <1>1, <1>2 DEF Records, Grows, AcceptedEvents
<1>5. list \in Seq(Inputs[t]) /\ DOMAIN kept = KeptTypes
  BY <1>3 DEF TypeOK
<1>6. /\ Len(list) = Cardinality(S)
      /\ \A i \in S : list[Cardinality({j \in S : j <= i})] = log[i].body
  BY <1>2, <1>3 DEF ListsInOrder
<1>7. CASE ok /\ t = type
  <2>1. AcceptedEvents(t)' = S \cup {n + 1}
    BY <1>1, <1>2, <1>7, NewAccepted
  <2>2. kept'[t] = Append(list, body) /\ log'[n + 1].body = body
    BY <1>1, <1>3, <1>5, <1>7 DEF Records, Newest
  <2>3. /\ Len(Append(list, body)) = Len(list) + 1
        /\ Append(list, body)[Len(list) + 1] = body
        /\ \A k \in 1..Len(list) : Append(list, body)[k] = list[k]
    BY <1>5, <1>7
  <2>4. Len(kept'[t]) = Cardinality(AcceptedEvents(t)')
    BY <2>1, <2>2, <2>3, <1>4, <1>6, RankInGrowingSet
  <2>5. ASSUME NEW i \in S \cup {n + 1}
        PROVE  Append(list, body)[Cardinality({j \in S \cup {n + 1} : j <= i})] = log'[i].body
    <3>1. CASE i \in S
      <4>1. {j \in S \cup {n + 1} : j <= i} = {j \in S : j <= i}
        BY <1>4, <3>1, RankInGrowingSet
      <4>2. Cardinality({j \in S : j <= i}) \in 1..Len(list)
        BY <1>4, <1>6, <3>1, RankInGrowingSet
      <4> QED BY <4>1, <4>2, <3>1, <2>3, <1>4, <1>6
    <3>2. CASE i = n + 1
      <4>1. Cardinality({j \in S \cup {n + 1} : j <= n + 1}) = Len(list) + 1
        BY <1>4, <1>6, RankInGrowingSet
      <4> QED BY <4>1, <3>2, <2>2, <2>3
    <3> QED BY <3>1, <3>2
  <2> QED BY <2>1, <2>2, <2>4, <2>5
<1>8. CASE ~(ok /\ t = type)
  <2>1. AcceptedEvents(t)' = S
    BY <1>2, <1>8, NewAccepted
  <2>2. kept'[t] = list
    BY <1>3, <1>5, <1>8 DEF Records
  <2> QED BY <2>1, <2>2, <1>4, <1>6
<1> QED BY <1>7, <1>8

\* Starting the run accepts nothing the kernel keeps a list of.
LEMMA StartingKeepsOrder ==
    ASSUME ListsInOrder, Starts
    PROVE  ListsInOrder'
<1>1. /\ DOMAIN log = 1..Len(log) /\ Len(log) \in Nat /\ DOMAIN log' = 1..(Len(log) + 1)
      /\ \A i \in 1..Len(log) : log'[i] = log[i]
      /\ log'[Len(log) + 1].type = "RunStarted" /\ kept' = kept
  BY DEF Starts, Grows, Newest
<1>2. \A i \in 1..(Len(log) + 1) : i \in 1..Len(log) \/ i = Len(log) + 1
  BY <1>1
<1>3. \A i \in 1..Len(log) : i \in 1..(Len(log) + 1)
  BY <1>1
<1>4. \A t \in KeptTypes : AcceptedEvents(t)' = AcceptedEvents(t)
  BY <1>1, <1>2, <1>3, UnkeptTypes DEF AcceptedEvents, Is
<1>5. \A t \in KeptTypes : \A i \in AcceptedEvents(t) : log'[i] = log[i]
  BY <1>1 DEF AcceptedEvents
<1> QED BY <1>1, <1>4, <1>5 DEF ListsInOrder

\* A step starts a run that is not started, or finds it started.
LEMMA StartedOnce ==
    ASSUME TypeOK, Next
    PROVE  \/ /\ Newest.type = "RunStarted" /\ started = Null /\ Newest.id # Null
              /\ started' = IF Newest.wellFormed THEN Newest.id ELSE Null
           \/ /\ Newest.type # "RunStarted" /\ started # Null /\ started' = started
<1>1. IsList(log) /\ Len(log) \in Nat
  BY DEF TypeOK, IsList
<1>2. CASE \E o \in EventOptions : StartRun(o)
  <2>1. PICK o \in EventOptions : StartRun(o)
    BY <1>2
  <2>2. Len(log) + 1 \in 1..MaxEvents
    BY <1>1, <2>1, NullIsNoEventId DEF StartRun, CanStart, StartEvent
  <2>3. Given(o.eventId, NextEventId("RunStarted")) # Null
    BY <2>2, NullIsNoEventId DEF Given, NextEventId
  <2>4. /\ Newest = NewEvent("RunStarted", [runId |-> RunId], o, Given(o.causationId, Null))
        /\ started = Null /\ started' = IF o.wellFormed THEN Newest.id ELSE Null
    BY <1>1, <2>1, StartStep
  <2>5. /\ Newest.type = "RunStarted" /\ Newest.wellFormed = o.wellFormed
        /\ Newest.id = Given(o.eventId, NextEventId("RunStarted"))
    BY <2>4 DEF NewEvent
  <2> QED BY <2>3, <2>4, <2>5
<1>3. ASSUME NEW type \in KeptTypes, NEW body \in Inputs[type], NEW o \in EventOptions,
             RecordEvent(type, body, o)
      PROVE  Newest.type # "RunStarted" /\ started # Null /\ started' = started
  <2>1. Newest = NewEvent(type, body, o, Given(o.causationId, started)) /\ started # Null
        /\ started' = started
    BY <1>1, <1>3, RecordStep
  <2> QED BY <2>1, UnkeptTypes DEF NewEvent
<1>4. ASSUME NEW c \in FinalCandidates, NEW o \in FinalOptions, FinalStep(c, o)
      PROVE  Newest.type # "RunStarted" /\ started # Null /\ started' = started
  BY <1>4 DEF FinalStep, NewEvent
<1> QED BY <1>1, <1>2, <1>3, <1>4, StepKinds, FinalStepHolds

\* The start of the run as the log and the kernel know it: the other parts of
\* PrivateStateFollowsLog.
StartIsKnown ==
    /\ log # <<>> => Is(1, "RunStarted")
    /\ started # Null => \E i \in DOMAIN log : log[i].id = started
    /\ \A i \in DOMAIN log :
          Is(i, "RunStarted") /\ log[i].wellFormed <=> started # Null /\ log[i].id = started

\* Every step keeps what is known of the start.
LEMMA StepsKnowTheStart ==
    ASSUME TypeOK, StartIsKnown, Next
    PROVE  StartIsKnown'
<1>1. PICK n \in Nat : n = Len(log)
  BY DEF TypeOK
<1>2. /\ Len(log') \in Nat /\ n + 1 <= Len(log')
      /\ DOMAIN log = 1..n /\ DOMAIN log' = 1..Len(log')
      /\ \A i \in 1..n : log'[i] = log[i]
  BY <1>1, StepsRecord DEF Starts, Records, Grows
<1>3. \A i \in (n + 1)..Len(log') : \A j \in 1..(i - 1) : log'[j].id # log'[i].id
  BY <1>1, StepsExtend DEF Extends
<1>4. Newest = log'[n + 1]
  BY <1>1 DEF Newest
<1>5. \A i \in (n + 2)..Len(log') : log'[i].type # "RunStarted"
  <2>1. CASE Starts
    BY <2>1, <1>1 DEF Starts
  <2>2. CASE \E type \in KeptTypes : \E body \in Inputs[type], ok \in BOOLEAN : Records(type, body, ok)
    BY <2>2, <1>1 DEF Records, FinalTypes
  <2> QED BY <2>1, <2>2, StepsRecord
<1>6. \A i \in 1..Len(log') : i \in 1..n \/ i = n + 1 \/ i \in (n + 2)..Len(log')
  BY <1>2
<1>7. /\ log = <<>> => n = 0
      /\ log # <<>> => n # 0
  BY <1>1 DEF TypeOK
<1>8. CASE /\ log'[n + 1].type = "RunStarted" /\ started = Null /\ log'[n + 1].id # Null
           /\ started' = IF log'[n + 1].wellFormed THEN log'[n + 1].id ELSE Null
           /\ Len(log') = n + 1
  <2>1. log'[1].type = "RunStarted"
    BY <1>2, <1>7, <1>8 DEF StartIsKnown, Is
  <2>2. started' # Null => n + 1 \in DOMAIN log' /\ log'[n + 1].id = started'
    BY <1>2, <1>8
  <2>3. \A i \in 1..n : ~(log'[i].type = "RunStarted" /\ log'[i].wellFormed)
    BY <1>2, <1>8 DEF StartIsKnown, Is
  <2>4. \A i \in 1..n : log'[i].id # log'[n + 1].id
    BY <1>3, <1>8
  <2>5. ASSUME NEW i \in DOMAIN log'
        PROVE  log'[i].type = "RunStarted" /\ log'[i].wellFormed
                  <=> started' # Null /\ log'[i].id = started'
    <3>1. i \in 1..n \/ i = n + 1
      BY <1>2, <1>8
    <3> QED BY <3>1, <2>3, <2>4, <1>8
  <2> QED BY <2>1, <2>2, <2>5 DEF StartIsKnown, Is
<1>9. CASE log'[n + 1].type # "RunStarted" /\ started # Null /\ started' = started
  <2>1. PICK s \in 1..n : log[s].id = started
    BY <1>2, <1>9 DEF StartIsKnown
  <2>2. log # <<>> /\ 1 \in 1..n
    BY <2>1, <1>7
  <2>3. log'[1].type = "RunStarted" /\ log'[s].id = started' /\ s \in DOMAIN log'
    BY <2>1, <2>2, <1>2, <1>9 DEF StartIsKnown, Is
  <2>4. \A i \in (n + 1)..Len(log') : log'[i].id # started'
    BY <1>2, <1>3, <2>1, <2>3
  <2>5. ASSUME NEW i \in DOMAIN log'
        PROVE  log'[i].type = "RunStarted" /\ log'[i].wellFormed
                  <=> started' # Null /\ log'[i].id = started'
    <3>1. CASE i \in 1..n
      BY <3>1, <1>2, <1>9 DEF StartIsKnown, Is
    <3>2. CASE i \notin 1..n
      <4>1. i \in (n + 1)..Len(log') /\ log'[i].type # "RunStarted"
        BY <3>2, <1>2, <1>5, <1>6, <1>9
      <4> QED BY <4>1, <2>4
    <3> QED BY <3>1, <3>2
  <2> QED BY <2>3, <2>5 DEF StartIsKnown, Is
<1>10. Newest.type = "RunStarted" => Len(log') = n + 1
  <2>1. ASSUME NEW type \in KeptTypes, NEW body, NEW ok, Records(type, body, ok)
        PROVE  Newest.type # "RunStarted"
    BY <2>1, UnkeptTypes DEF Records
  <2> QED BY <1>1, <2>1, StepsRecord DEF Starts
<1> QED BY <1>4, <1>8, <1>9, <1>10, StartedOnce

\* The kernel's private state is what the accepted events of its log carry, in
\* their order, and the run it remembers is the one the log starts with.
THEOREM PrivateStateIsTheLogs == Spec => []PrivateStateFollowsLog
<1> DEFINE Inv == ListsInOrder /\ StartIsKnown
<1>1. Init => Inv
  <2> SUFFICES ASSUME Init PROVE Inv
    OBVIOUS
  <2>1. \A t \in KeptTypes : AcceptedEvents(t) = {} /\ kept[t] = <<>>
    BY DEF Init, AcceptedEvents
  <2>2. Cardinality({}) = 0
    BY FS_EmptySet, Zenon
  <2>3. Len(<<>>) = 0
    OBVIOUS
  <2>4. ListsInOrder
    BY <2>1, <2>2, <2>3 DEF ListsInOrder
  <2>5. log = <<>> /\ started = Null /\ DOMAIN log = {}
    BY DEF Init
  <2>6. StartIsKnown
    BY <2>5 DEF StartIsKnown
  <2> QED BY <2>4, <2>6
<1>2. TypeOK /\ Inv /\ [Next]_vars => Inv'
  <2> SUFFICES ASSUME TypeOK, Inv, [Next]_vars PROVE Inv'
    OBVIOUS
  <2>1. CASE UNCHANGED vars
    BY <2>1 DEF ListsInOrder, StartIsKnown, AcceptedEvents, Is, vars
  <2>2. CASE Next
    <3>1. ListsInOrder'
      BY <2>2, StepsRecord, RecordingKeepsOrder, StartingKeepsOrder
    <3>2. StartIsKnown'
      BY <2>2, StepsKnowTheStart
    <3> QED BY <3>1, <3>2
  <2> QED BY <2>1, <2>2
<1>3. Inv => PrivateStateFollowsLog
  BY DEF ListsInOrder, StartIsKnown, PrivateStateFollowsLog
<1> QED BY <1>1, <1>2, <1>3, TypeCorrect, PTL DEF Spec

\* ------------------------------------------------------------------------
\* Safety.

\* What was logged stays where it was.
LEMMA Kept ==
    ASSUME Grows
    PROVE  /\ Len(log) \in Nat /\ DOMAIN log = 1..Len(log)
           /\ \A i \in DOMAIN log : i \in DOMAIN log' /\ log'[i] = log[i] /\ i \in Nat
           /\ \A i \in 1..Len(log) : \A j \in 1..(i - 1) : j \in DOMAIN log /\ log'[j] = log[j]
           /\ \A j \in 1..Len(log) : log'[j] = log[j]
BY DEF Grows

\* Every receipt in the log answers an earlier request for the same effect by the
\* same capability (assertEffectRequestForReceipt).
THEOREM ReceiptsAreRequested == Spec => []ReceiptsAnswerRequests
<1>1. Init => ReceiptsAnswerRequests
  BY DEF Init, ReceiptsAnswerRequests
<1>2. TypeOK /\ Mirrored /\ ReceiptsAnswerRequests /\ [Next]_vars => ReceiptsAnswerRequests'
  <2> SUFFICES ASSUME TypeOK, Mirrored, ReceiptsAnswerRequests, [Next]_vars
               PROVE  ReceiptsAnswerRequests'
    OBVIOUS
  <2>1. CASE UNCHANGED vars
    BY <2>1 DEF ReceiptsAnswerRequests, Is, vars
  <2>2. CASE Next
    <3>1. Grows
      BY <2>2, StepsExtend DEF Extends
    <3> SUFFICES ASSUME NEW i \in DOMAIN log', log'[i].type = "EffectReceiptRecorded"
                 PROVE  \E j \in 1..(i - 1) :
                           /\ log'[j].type = "EffectRequested" /\ log'[j].wellFormed
                           /\ log'[j].body.effectId = log'[i].body.effectId
                           /\ log'[j].body.capabilityId = log'[i].body.capabilityId
      BY DEF ReceiptsAnswerRequests, Is
    <3>2. CASE i \in 1..Len(log)
      BY <3>1, <3>2, Kept DEF ReceiptsAnswerRequests, Is
    <3>3. CASE i \notin 1..Len(log)
      <4>1. "EffectReceiptRecorded" \in KeptTypes /\ "EffectRequested" \in KeptTypes
        BY DEF KeptTypes, Inputs
      <4>2. i = Len(log) + 1 /\ CapabilityWasRequested(log'[i].body)
        BY <2>2, <3>3, <4>1, NewKeptEvent DEF Checked
      <4>3. PICK n \in DOMAIN kept["EffectRequested"] :
               /\ kept["EffectRequested"][n].effectId = log'[i].body.effectId
               /\ kept["EffectRequested"][n].capabilityId = log'[i].body.capabilityId
        BY <4>2 DEF CapabilityWasRequested
      <4>4. PICK j \in DOMAIN log : /\ log[j].type = "EffectRequested" /\ log[j].wellFormed
                                    /\ log[j].body = kept["EffectRequested"][n]
        BY <4>1, <4>3 DEF Mirrored
      <4>5. j \in 1..(i - 1) /\ log'[j] = log[j]
        BY <3>1, <4>2, <4>4, Kept
      <4> QED BY <4>3, <4>4, <4>5
    <3> QED BY <3>2, <3>3
  <2> QED BY <2>1, <2>2
<1> QED BY <1>1, <1>2, TypeCorrect, ListsMirrorLog, PTL DEF Spec

\* ------------------------------------------------------------------------
\* Every grant in the log answers an earlier request, in its scope and in time.
GrantsAnswerRequests ==
    \A g \in DOMAIN log : Is(g, "ApprovalGranted") =>
        \E r \in 1..(g - 1) :
            /\ Is(r, "ApprovalRequested")
            /\ log[r].body.approvalId = log[g].body.approvalId
            /\ log[r].body.scope = log[g].body.scope
            /\ log[g].body.grantedAt <= log[r].body.expiresAt

\* Grants are requested (assertApprovalMatchesRequest).
THEOREM GrantsAreRequested == Spec => []GrantsAnswerRequests
<1>1. Init => GrantsAnswerRequests
  BY DEF Init, GrantsAnswerRequests
<1>2. TypeOK /\ Mirrored /\ GrantsAnswerRequests /\ [Next]_vars => GrantsAnswerRequests'
  <2> SUFFICES ASSUME TypeOK, Mirrored, GrantsAnswerRequests, [Next]_vars
               PROVE  GrantsAnswerRequests'
    OBVIOUS
  <2>1. CASE UNCHANGED vars
    BY <2>1 DEF GrantsAnswerRequests, Is, vars
  <2>2. CASE Next
    <3>1. Grows
      BY <2>2, StepsExtend DEF Extends
    <3> SUFFICES ASSUME NEW i \in DOMAIN log', log'[i].type = "ApprovalGranted"
                 PROVE  \E r \in 1..(i - 1) :
                           /\ log'[r].type = "ApprovalRequested"
                           /\ log'[r].body.approvalId = log'[i].body.approvalId
                           /\ log'[r].body.scope = log'[i].body.scope
                           /\ log'[i].body.grantedAt <= log'[r].body.expiresAt
      BY DEF GrantsAnswerRequests, Is
    <3>2. CASE i \in 1..Len(log)
      BY <3>1, <3>2, Kept DEF GrantsAnswerRequests, Is
    <3>3. CASE i \notin 1..Len(log)
      <4>1. "ApprovalGranted" \in KeptTypes /\ "ApprovalRequested" \in KeptTypes
        BY DEF KeptTypes, Inputs
      <4>2. i = Len(log) + 1 /\ GrantWasRequested(log'[i].body)
        BY <2>2, <3>3, <4>1, NewKeptEvent DEF Checked
      <4>3. PICK n \in DOMAIN kept["ApprovalRequested"] :
               /\ kept["ApprovalRequested"][n].approvalId = log'[i].body.approvalId
               /\ kept["ApprovalRequested"][n].scope = log'[i].body.scope
               /\ log'[i].body.grantedAt <= kept["ApprovalRequested"][n].expiresAt
        BY <4>2 DEF GrantWasRequested
      <4>4. PICK j \in DOMAIN log : /\ log[j].type = "ApprovalRequested" /\ log[j].wellFormed
                                    /\ log[j].body = kept["ApprovalRequested"][n]
        BY <4>1, <4>3 DEF Mirrored
      <4>5. j \in 1..(i - 1) /\ log'[j] = log[j]
        BY <3>1, <4>2, <4>4, Kept
      <4> QED BY <4>3, <4>4, <4>5
    <3> QED BY <3>2, <3>3
  <2> QED BY <2>1, <2>2
<1> QED BY <1>1, <1>2, TypeCorrect, ListsMirrorLog, PTL DEF Spec

\* No critical write is allowed without a live approval of that very write: one
\* requested, granted in time for its scope, not run out at the decision, and
\* neither denied nor expired before it (assertCriticalWriteApproval).
THEOREM CriticalWritesAreSafe == Spec => []CriticalWritesAreApproved
<1>1. Init => CriticalWritesAreApproved
  BY DEF Init, CriticalWritesAreApproved
<1>2. TypeOK /\ Mirrored /\ GrantsAnswerRequests /\ CriticalWritesAreApproved /\ [Next]_vars
      => CriticalWritesAreApproved'
  <2> DEFINE Allowed(l, i, r, g) ==
                  /\ r < g
                  /\ l[r].type = "ApprovalRequested" /\ l[g].type = "ApprovalGranted"
                  /\ l[r].body.approvalId = l[i].body.approvalId
                  /\ l[g].body.approvalId = l[i].body.approvalId
                  /\ l[r].body.scope = WriteScope(l[i].body)
                  /\ l[g].body.scope = WriteScope(l[i].body)
                  /\ l[g].body.grantedAt <= l[r].body.expiresAt
                  /\ l[i].body.decidedAt <= l[g].body.expiresAt
             Clear(l, i, j) == (/\ l[j].type = "ApprovalDenied" \/ l[j].type = "ApprovalExpired"
                                /\ l[j].wellFormed)
                               => l[j].body.approvalId # l[i].body.approvalId
             Safe(l, i) == /\ \E r, g \in 1..(i - 1) : Allowed(l, i, r, g)
                           /\ \A j \in 1..(i - 1) : Clear(l, i, j)
             Critical(l, i) == l[i].type = "WritePreflightDecided" /\ IsCriticalWrite(l[i].body)
  <2> SUFFICES ASSUME TypeOK, Mirrored, GrantsAnswerRequests, CriticalWritesAreApproved, [Next]_vars
               PROVE  CriticalWritesAreApproved'
    OBVIOUS
  <2>1. CASE UNCHANGED vars
    BY <2>1 DEF CriticalWritesAreApproved, Is, vars
  <2>2. CASE Next
    <3>1. Grows
      BY <2>2, StepsExtend DEF Extends
    <3> SUFFICES ASSUME NEW i \in DOMAIN log', Critical(log', i)
                 PROVE  Safe(log', i)
      BY DEF CriticalWritesAreApproved, Is
    <3>2. CASE i \in 1..Len(log)
      <4>1. log'[i] = log[i] /\ i \in DOMAIN log /\ \A j \in 1..(i - 1) : log'[j] = log[j]
        BY <3>1, <3>2, Kept
      <4>2. Safe(log, i)
        BY <4>1 DEF CriticalWritesAreApproved, Is
      <4>3. PICK r \in 1..(i - 1), g \in 1..(i - 1) : Allowed(log, i, r, g)
        BY <4>2
      <4>4. Allowed(log', i, r, g)
        BY <4>1, <4>3
      <4>5. \A j \in 1..(i - 1) : Clear(log', i, j)
        BY <4>1, <4>2
      <4> QED BY <4>4, <4>5
    <3>3. CASE i \notin 1..Len(log)
      <4>1. /\ "WritePreflightDecided" \in KeptTypes /\ "ApprovalGranted" \in KeptTypes
            /\ "ApprovalDenied" \in KeptTypes /\ "ApprovalExpired" \in KeptTypes
        BY DEF KeptTypes, Inputs
      <4>2. i = Len(log) + 1 /\ WriteWasApproved(log'[i].body)
        BY <2>2, <3>3, <4>1, NewKeptEvent DEF Checked
      <4>3. DOMAIN log = 1..(i - 1) /\ \A j \in 1..(i - 1) : log'[j] = log[j]
        BY <3>1, <4>2, Kept
      <4>4. PICK n \in DOMAIN kept["ApprovalGranted"] :
               /\ kept["ApprovalGranted"][n].approvalId = log'[i].body.approvalId
               /\ kept["ApprovalGranted"][n].scope = WriteScope(log'[i].body)
               /\ log'[i].body.decidedAt <= kept["ApprovalGranted"][n].expiresAt
        BY <4>2 DEF WriteWasApproved
      <4>5. PICK g \in DOMAIN log : /\ log[g].type = "ApprovalGranted" /\ log[g].wellFormed
                                    /\ log[g].body = kept["ApprovalGranted"][n]
        BY <4>1, <4>4 DEF Mirrored
      <4>6. PICK r \in 1..(g - 1) :
               /\ log[r].type = "ApprovalRequested"
               /\ log[r].body.approvalId = log[g].body.approvalId
               /\ log[r].body.scope = log[g].body.scope
               /\ log[g].body.grantedAt <= log[r].body.expiresAt
        BY <4>5 DEF GrantsAnswerRequests, Is
      <4>7. r \in 1..(i - 1) /\ g \in 1..(i - 1) /\ r < g
        BY <4>2, <4>3, <3>1, Kept
      <4>8. Allowed(log', i, r, g)
        BY <4>3, <4>4, <4>5, <4>6, <4>7
      <4>9. ASSUME NEW j \in 1..(i - 1), log'[j].wellFormed,
                   log'[j].type = "ApprovalDenied" \/ log'[j].type = "ApprovalExpired"
            PROVE  log'[j].body.approvalId # log'[i].body.approvalId
        <5>1. log[j] = log'[j] /\ j \in DOMAIN log
          BY <4>3
        <5>0. log[j].type \in KeptTypes /\ log[j].wellFormed
          BY <4>1, <4>9, <5>1
        <5>2. PICK h \in DOMAIN kept[log[j].type] : kept[log[j].type][h] = log[j].body
          BY <5>0, <5>1 DEF Mirrored
        <5>3. CASE log[j].type = "ApprovalDenied"
          BY <4>2, <5>1, <5>2, <5>3 DEF WriteWasApproved
        <5>4. CASE log[j].type = "ApprovalExpired"
          BY <4>2, <5>1, <5>2, <5>4 DEF WriteWasApproved
        <5> QED BY <4>9, <5>1, <5>3, <5>4
      <4> QED BY <4>7, <4>8, <4>9
    <3> QED BY <3>2, <3>3
  <2> QED BY <2>1, <2>2
<1> QED BY <1>1, <1>2, TypeCorrect, ListsMirrorLog, GrantsAreRequested, PTL DEF Spec

\* ------------------------------------------------------------------------
\* Commits to one state reference form one chain of revisions in log order, with
\* no gap and no fork, whoever races to commit (commitMutation).
THEOREM CommitsAreSerial == Spec => []MutationsAreSerial
<1>1. Init => MutationsAreSerial
  BY DEF Init, MutationsAreSerial
<1>2. TypeOK /\ Mirrored /\ MutationsAreSerial /\ [Next]_vars => MutationsAreSerial'
  <2> DEFINE Commit(l, i, ref) == l[i].type = "MutationCommitted" /\ l[i].body.stateRef = ref
             Prev(l, i) == l[i].body.previousRevision
             Ordered(l, rev, i, ref) ==
                /\ Prev(l, i) < rev[ref]
                /\ l[i].body.newRevision = Prev(l, i) + 1
                /\ \A j \in 1..(i - 1) : Commit(l, j, ref) => Prev(l, j) < Prev(l, i)
  <2> SUFFICES ASSUME TypeOK, Mirrored, MutationsAreSerial, [Next]_vars
               PROVE  MutationsAreSerial'
    OBVIOUS
  <2>1. CASE UNCHANGED vars
    BY <2>1 DEF MutationsAreSerial, CommitsTo, Is, vars
  <2>2. CASE Next
    <3>1. Grows
      BY <2>2, StepsExtend DEF Extends
    <3>2. "MutationCommitted" \in KeptTypes
      BY DEF KeptTypes, Inputs
    <3>3. revision \in [StateRefs -> Nat]
      BY DEF TypeOK
    <3>4. \/ /\ revision' = revision
             /\ \A i \in DOMAIN log' : i \in 1..Len(log) \/ log'[i].type # "MutationCommitted"
          \/ /\ CommitsNextRevision(Newest.body) /\ Newest.type = "MutationCommitted"
             /\ Len(log) + 1 \in DOMAIN log'
             /\ \A i \in DOMAIN log' : /\ i \in 1..Len(log) \/ i = Len(log) + 1
                                             \/ log'[i].type # "MutationCommitted"
      <4>1. ASSUME Starts
            PROVE  /\ revision' = revision
                   /\ \A i \in DOMAIN log' : i \in 1..Len(log) \/ log'[i].type # "MutationCommitted"
        BY <4>1 DEF Starts, Grows, Newest
      <4>2. ASSUME NEW type \in KeptTypes, NEW body \in Inputs[type], NEW ok \in BOOLEAN,
                   Records(type, body, ok), Checked(type, body), type = "MutationCommitted"
            PROVE  /\ CommitsNextRevision(Newest.body) /\ Newest.type = "MutationCommitted"
                   /\ Len(log) + 1 \in DOMAIN log'
                   /\ \A i \in DOMAIN log' : /\ i \in 1..Len(log) \/ i = Len(log) + 1
                                                   \/ log'[i].type # "MutationCommitted"
        <5>1. \A i \in DOMAIN log' : i \in 1..Len(log) \/ i = Len(log) + 1
                                      \/ log'[i].type \in FinalTypes
          BY <4>2 DEF Records, Grows
        <5>2. Len(log) + 1 \in DOMAIN log'
          BY <4>2 DEF Records, Grows
        <5>3. CommitsNextRevision(Newest.body) /\ Newest.type = "MutationCommitted"
          BY <4>2 DEF Records, Checked
        <5> QED BY <5>1, <5>2, <5>3 DEF FinalTypes
      <4>3. ASSUME NEW type \in KeptTypes, NEW body \in Inputs[type], NEW ok \in BOOLEAN,
                   Records(type, body, ok), Checked(type, body), type # "MutationCommitted"
            PROVE  /\ revision' = revision
                   /\ \A i \in DOMAIN log' : i \in 1..Len(log) \/ log'[i].type # "MutationCommitted"
        <5>1. \A i \in DOMAIN log' : i \in 1..Len(log) \/ i = Len(log) + 1
                                      \/ log'[i].type \in FinalTypes
          BY <4>3 DEF Records, Grows
        <5>2. log'[Len(log) + 1].type # "MutationCommitted" /\ revision' = revision
          BY <4>3 DEF Records, Newest, Checked
        <5> QED BY <5>1, <5>2 DEF FinalTypes
      <4> QED BY <2>2, <4>1, <4>2, <4>3, StepsRecord
    <3>5. ASSUME NEW i \in DOMAIN log, log[i].type = "MutationCommitted"
          PROVE  /\ Prev(log, i) \in Nat /\ log[i].body.stateRef \in StateRefs
      <4>1. log[i].body \in Inputs["MutationCommitted"]
        BY <3>2, <3>5 DEF Mirrored
      <4> QED BY <4>1 DEF Inputs
    <3>6. ASSUME NEW ref \in StateRefs, NEW i \in DOMAIN log, Commit(log, i, ref)
          PROVE  Ordered(log, revision, i, ref)
      BY <3>6 DEF MutationsAreSerial, CommitsTo, Is
    <3>7. ASSUME NEW ref \in StateRefs, NEW n \in 0..(revision[ref] - 1)
          PROVE  \E i \in DOMAIN log : Commit(log, i, ref) /\ Prev(log, i) = n
      BY DEF MutationsAreSerial, CommitsTo, Is
    <3> SUFFICES ASSUME NEW ref \in StateRefs
                 PROVE  /\ \A i \in DOMAIN log' : Commit(log', i, ref) => Ordered(log', revision', i, ref)
                        /\ \A n \in 0..(revision'[ref] - 1) :
                              \E i \in DOMAIN log' : Commit(log', i, ref) /\ Prev(log', i) = n
      BY DEF MutationsAreSerial, CommitsTo, Is
    <3>8. CASE /\ revision' = revision
               /\ \A i \in DOMAIN log' : i \in 1..Len(log) \/ log'[i].type # "MutationCommitted"
      <4>1. ASSUME NEW i \in DOMAIN log', Commit(log', i, ref)
            PROVE  Ordered(log', revision', i, ref)
        <5>1. i \in DOMAIN log /\ log'[i] = log[i] /\ \A j \in 1..(i - 1) : log'[j] = log[j]
          BY <3>1, <3>8, <4>1, Kept
        <5>2. Ordered(log, revision, i, ref)
          BY <3>6, <4>1, <5>1
        <5> QED BY <3>8, <5>1, <5>2
      <4>2. ASSUME NEW n \in 0..(revision'[ref] - 1)
            PROVE  \E i \in DOMAIN log' : Commit(log', i, ref) /\ Prev(log', i) = n
        <5>1. PICK i \in DOMAIN log : Commit(log, i, ref) /\ Prev(log, i) = n
          BY <3>7, <3>8
        <5>2. i \in DOMAIN log' /\ log'[i] = log[i]
          BY <3>1, Kept
        <5> QED BY <5>1, <5>2
      <4> QED BY <4>1, <4>2
    <3>9. CASE /\ CommitsNextRevision(Newest.body) /\ Newest.type = "MutationCommitted"
               /\ Len(log) + 1 \in DOMAIN log'
               /\ \A i \in DOMAIN log' : /\ i \in 1..Len(log) \/ i = Len(log) + 1
                                               \/ log'[i].type # "MutationCommitted"
      <4> DEFINE N == Len(log) + 1
                 s == Newest.body.stateRef
      <4>1. /\ s \in StateRefs /\ Prev(log', N) = revision[s]
            /\ log'[N].body.newRevision = Prev(log', N) + 1
            /\ revision' = [revision EXCEPT ![s] = revision[s] + 1]
            /\ log'[N].type = "MutationCommitted" /\ log'[N].body.stateRef = s
        BY <3>9 DEF CommitsNextRevision, Newest
      <4>2. /\ revision[ref] \in Nat /\ revision'[ref] \in Nat /\ revision[ref] <= revision'[ref]
            /\ (ref = s => revision'[ref] = revision[ref] + 1)
            /\ (ref # s => revision'[ref] = revision[ref])
        BY <3>3, <4>1
      <4> HIDE DEF s
      <4>3. ASSUME NEW i \in 1..Len(log), Commit(log', i, ref)
            PROVE  Ordered(log', revision', i, ref)
        <5>1. i \in DOMAIN log /\ log'[i] = log[i] /\ \A j \in 1..(i - 1) : log'[j] = log[j]
          BY <3>1, Kept
        <5>2. Ordered(log, revision, i, ref) /\ Prev(log, i) \in Nat
          BY <3>5, <3>6, <4>3, <5>1
        <5>3. Prev(log', i) < revision'[ref]
          BY <4>2, <5>1, <5>2
        <5> QED BY <5>1, <5>2, <5>3
      <4>4. ASSUME Commit(log', N, ref)
            PROVE  Ordered(log', revision', N, ref)
        <5>1. ref = s
          BY <4>1, <4>4
        <5>2. Prev(log', N) = revision[ref] /\ Prev(log', N) < revision'[ref]
          BY <4>1, <4>2, <5>1
        <5>3. ASSUME NEW j \in 1..(N - 1), Commit(log', j, ref)
              PROVE  Prev(log', j) < Prev(log', N)
          <6>1. j \in DOMAIN log /\ log'[j] = log[j]
            BY <3>1, Kept
          <6>2. Prev(log, j) < revision[ref]
            BY <3>6, <5>3, <6>1
          <6> QED BY <5>2, <6>1, <6>2
        <5> QED BY <4>1, <5>2, <5>3
      <4>5. ASSUME NEW n \in 0..(revision'[ref] - 1)
            PROVE  \E i \in DOMAIN log' : Commit(log', i, ref) /\ Prev(log', i) = n
        <5>1. CASE n \in 0..(revision[ref] - 1)
          <6>1. PICK i \in DOMAIN log : Commit(log, i, ref) /\ Prev(log, i) = n
            BY <3>7, <5>1
          <6>2. i \in DOMAIN log' /\ log'[i] = log[i]
            BY <3>1, Kept
          <6> QED BY <6>1, <6>2
        <5>2. CASE n \notin 0..(revision[ref] - 1)
          <6>1. ref = s /\ n = revision[ref]
            BY <4>2, <5>2
          <6> QED BY <3>9, <4>1, <6>1
        <5> QED BY <5>1, <5>2
      <4>6. ASSUME NEW i \in DOMAIN log', Commit(log', i, ref)
            PROVE  Ordered(log', revision', i, ref)
        <5>1. i \in 1..Len(log) \/ i = N
          BY <3>9, <4>6
        <5> QED BY <4>3, <4>4, <4>6, <5>1
      <4> QED BY <4>5, <4>6
    <3> QED BY <3>4, <3>8, <3>9
  <2> QED BY <2>1, <2>2
<1> QED BY <1>1, <1>2, TypeCorrect, ListsMirrorLog, PTL DEF Spec

\* ------------------------------------------------------------------------
\* Every commit carries out a command.

\* A step leaves what is on the private lists in its place.
LEMMA ListsGrow ==
    ASSUME TypeOK, Next, NEW t \in KeptTypes
    PROVE  \A n \in DOMAIN kept[t] : /\ n \in DOMAIN kept'[t] /\ kept'[t][n] = kept[t][n]
                                    /\ n \in Nat /\ \A k \in 1..(n - 1) : kept'[t][k] = kept[t][k]
<1>1. DOMAIN kept = KeptTypes /\ kept[t] \in Seq(Inputs[t])
  BY DEF TypeOK
<1>2. CASE kept' = kept
  BY <1>1, <1>2
<1>3. ASSUME NEW type \in KeptTypes, NEW body, kept' = [kept EXCEPT ![type] = Append(@, body)]
      PROVE  \A n \in DOMAIN kept[t] :
                /\ n \in DOMAIN kept'[t] /\ kept'[t][n] = kept[t][n]
                /\ n \in Nat /\ \A k \in 1..(n - 1) : kept'[t][k] = kept[t][k]
  <2> DEFINE list == kept[t]
  <2>1. kept'[t] = IF t = type THEN Append(list, body) ELSE list
    BY <1>1, <1>3
  <2>2. DOMAIN list = 1..Len(list) /\ Len(list) \in Nat
    BY <1>1
  <2>3. \A n \in DOMAIN list : /\ n \in DOMAIN Append(list, body)
                               /\ Append(list, body)[n] = list[n]
    BY <1>1
  <2>4. \A n \in DOMAIN list : n \in Nat /\ \A k \in 1..(n - 1) : k \in DOMAIN list
    BY <2>2
  <2> HIDE DEF list
  <2>5. \A n \in DOMAIN list :
           /\ n \in DOMAIN kept'[t] /\ kept'[t][n] = list[n]
           /\ n \in Nat /\ \A k \in 1..(n - 1) : kept'[t][k] = list[k]
    BY <2>1, <2>3, <2>4
  <2> QED BY <2>5 DEF list
<1>4. \/ kept' = kept
      \/ \E type \in KeptTypes : \E body \in Inputs[type] :
            kept' = [kept EXCEPT ![type] = Append(@, body)]
  BY StepsRecord DEF Starts, Records
<1> QED BY <1>2, <1>3, <1>4

\* The command a commit in the log carries out is the first with its ids.
CommitsAreFirst ==
    \A i \in DOMAIN log : Is(i, "MutationCommitted") => CommandWasFirst(log[i].body)

\* The list of proposals only grows at its end, so the first command with a
\* commit's ids stays the one it carried out (assertMutationWasProposed).
THEOREM CommitsCarryFirst == Spec => []CommitsAreFirst
<1>1. Init => CommitsAreFirst
  BY DEF Init, CommitsAreFirst
<1>2. TypeOK /\ CommitsAreFirst /\ [Next]_vars => CommitsAreFirst'
  <2> SUFFICES ASSUME TypeOK, CommitsAreFirst, [Next]_vars PROVE CommitsAreFirst'
    OBVIOUS
  <2>1. CASE UNCHANGED vars
    BY <2>1 DEF CommitsAreFirst, CommandWasFirst, Is, vars
  <2>2. CASE Next
    <3> DEFINE list == kept["ProposalReceived"]
    <3>1. Grows
      BY <2>2, StepsExtend DEF Extends
    <3>2. "MutationCommitted" \in KeptTypes /\ "ProposalReceived" \in KeptTypes
      BY DEF KeptTypes, Inputs
    <3> SUFFICES ASSUME NEW i \in DOMAIN log', log'[i].type = "MutationCommitted"
                 PROVE  \E n \in DOMAIN list' : FirstCommand(list', log'[i].body, n)
      BY DEF CommitsAreFirst, CommandWasFirst, Is
    <3>3. \E n \in DOMAIN list : FirstCommand(list, log'[i].body, n)
      <4>1. CASE i \in 1..Len(log)
        BY <3>1, <4>1, Kept DEF CommitsAreFirst, CommandWasFirst, Is
      <4>2. CASE i \notin 1..Len(log)
        BY <2>2, <3>2, <4>2, NewKeptEvent DEF Checked, CommandWasFirst
      <4> QED BY <4>1, <4>2
    <3>4. PICK n \in DOMAIN list : FirstCommand(list, log'[i].body, n)
      BY <3>3
    <3>5. n \in DOMAIN list' /\ list'[n] = list[n] /\ \A k \in 1..(n - 1) : list'[k] = list[k]
      BY <2>2, <3>2, ListsGrow
    <3>6. FirstCommand(list', log'[i].body, n)
      BY <3>4, <3>5 DEF FirstCommand
    <3> QED BY <3>5, <3>6
  <2> QED BY <2>1, <2>2
<1> QED BY <1>1, <1>2, TypeCorrect, PTL DEF Spec

\* Before every commit the log shows the proposal of its command.
CommandsPrecede ==
    \A i \in DOMAIN log : Is(i, "MutationCommitted") =>
        \E j \in 1..(i - 1) : /\ Is(j, "ProposalReceived") /\ log[j].wellFormed
                              /\ HasIdsOf(log[i].body, log[j].body)
                              /\ CarriedOut(log[i].body, log[j].body)

\* Commands are proposed before they are carried out (commitMutation).
THEOREM CommandsComeFirst == Spec => []CommandsPrecede
<1>1. Init => CommandsPrecede
  BY DEF Init, CommandsPrecede
<1>2. TypeOK /\ Mirrored /\ CommandsPrecede /\ [Next]_vars => CommandsPrecede'
  <2> SUFFICES ASSUME TypeOK, Mirrored, CommandsPrecede, [Next]_vars PROVE CommandsPrecede'
    OBVIOUS
  <2>1. CASE UNCHANGED vars
    BY <2>1 DEF CommandsPrecede, Is, vars
  <2>2. CASE Next
    <3>1. Grows
      BY <2>2, StepsExtend DEF Extends
    <3> SUFFICES ASSUME NEW i \in DOMAIN log', log'[i].type = "MutationCommitted"
                 PROVE  \E j \in 1..(i - 1) :
                           /\ log'[j].type = "ProposalReceived" /\ log'[j].wellFormed
                           /\ HasIdsOf(log'[i].body, log'[j].body)
                           /\ CarriedOut(log'[i].body, log'[j].body)
      BY DEF CommandsPrecede, Is
    <3>2. CASE i \in 1..Len(log)
      BY <3>1, <3>2, Kept DEF CommandsPrecede, Is
    <3>3. CASE i \notin 1..Len(log)
      <4>1. "MutationCommitted" \in KeptTypes /\ "ProposalReceived" \in KeptTypes
        BY DEF KeptTypes, Inputs
      <4>2. i = Len(log) + 1 /\ CommandWasFirst(log'[i].body)
        BY <2>2, <3>3, <4>1, NewKeptEvent DEF Checked
      <4>3. PICK n \in DOMAIN kept["ProposalReceived"] :
               /\ HasIdsOf(log'[i].body, kept["ProposalReceived"][n])
               /\ CarriedOut(log'[i].body, kept["ProposalReceived"][n])
        BY <4>2 DEF CommandWasFirst, FirstCommand
      <4>4. PICK j \in DOMAIN log : /\ log[j].type = "ProposalReceived" /\ log[j].wellFormed
                                    /\ log[j].body = kept["ProposalReceived"][n]
        BY <4>1, <4>3 DEF Mirrored
      <4>5. j \in 1..(i - 1) /\ log'[j] = log[j]
        BY <3>1, <4>2, <4>4, Kept
      <4> QED BY <4>3, <4>4, <4>5
    <3> QED BY <3>2, <3>3
  <2> QED BY <2>1, <2>2
<1> QED BY <1>1, <1>2, TypeCorrect, ListsMirrorLog, PTL DEF Spec

\* A commit carries out a command proposed before it, on the state and at the
\* revision the command named, and none is carried out twice: two commits of
\* one command would be over one revision (assertMutationWasProposed,
\* commitMutation).
THEOREM CommitsAreProposed == Spec => []CommitsWereProposed
<1>1. TypeOK /\ Mirrored /\ CommitsAreFirst /\ CommandsPrecede /\ MutationsAreSerial
      => CommitsWereProposed
  <2> SUFFICES ASSUME TypeOK, Mirrored, CommitsAreFirst, CommandsPrecede, MutationsAreSerial,
                      NEW i \in DOMAIN log, log[i].type = "MutationCommitted"
               PROVE  /\ \E j \in 1..(i - 1) :
                            /\ log[j].type = "ProposalReceived" /\ log[j].wellFormed
                            /\ IsMutationCommand(log[j].body)
                            /\ log[j].body.commandId = log[i].body.commandId
                            /\ log[j].body.mutationId = log[i].body.mutationId
                            /\ log[j].body.stateRef = log[i].body.stateRef
                            /\ log[j].body.expectedRevision = log[i].body.previousRevision
                      /\ \A j \in 1..(i - 1) : log[j].type = "MutationCommitted" =>
                            \/ log[j].body.commandId # log[i].body.commandId
                            \/ log[j].body.mutationId # log[i].body.mutationId
    BY DEF CommitsWereProposed, Is
  <2> DEFINE list == kept["ProposalReceived"]
  <2>1. \E j \in 1..(i - 1) : /\ log[j].type = "ProposalReceived" /\ log[j].wellFormed
                              /\ HasIdsOf(log[i].body, log[j].body)
                              /\ CarriedOut(log[i].body, log[j].body)
    BY DEF CommandsPrecede, Is
  <2>2. ASSUME NEW j \in 1..(i - 1), log[j].type = "MutationCommitted",
               log[j].body.commandId = log[i].body.commandId,
               log[j].body.mutationId = log[i].body.mutationId
        PROVE  FALSE
    <3>1. j \in DOMAIN log
      BY <2>2 DEF TypeOK
    <3>2. PICK m \in DOMAIN list : FirstCommand(list, log[j].body, m)
      BY <2>2, <3>1 DEF CommitsAreFirst, CommandWasFirst, Is
    <3>3. PICK n \in DOMAIN list : FirstCommand(list, log[i].body, n)
      BY DEF CommitsAreFirst, CommandWasFirst, Is
    <3>4. m \in Nat /\ n \in Nat /\ m >= 1 /\ n >= 1
      <4>1. "ProposalReceived" \in KeptTypes
        BY DEF KeptTypes, Inputs
      <4>2. list \in Seq(Inputs["ProposalReceived"])
        BY <4>1 DEF TypeOK
      <4>3. DOMAIN list = 1..Len(list) /\ Len(list) \in Nat
        BY <4>2
      <4> QED BY <4>3
    <3>5. HasIdsOf(log[i].body, list[m]) /\ HasIdsOf(log[j].body, list[n])
      BY <2>2, <3>2, <3>3 DEF FirstCommand, HasIdsOf
    <3>6. m \notin 1..(n - 1) /\ n \notin 1..(m - 1)
      BY <3>2, <3>3, <3>5 DEF FirstCommand
    <3>7. m = n
      BY <3>4, <3>6
    <3>8. /\ log[j].body.stateRef = log[i].body.stateRef
          /\ log[j].body.previousRevision = log[i].body.previousRevision
      BY <3>2, <3>3, <3>7 DEF FirstCommand, CarriedOut
    <3>c. "MutationCommitted" \in KeptTypes
      BY DEF KeptTypes, Inputs
    <3>9. log[i].body \in Inputs["MutationCommitted"]
      BY <3>c DEF Mirrored
    <3>10. log[i].body.stateRef \in StateRefs /\ log[i].body.previousRevision \in Nat
      BY <3>9 DEF Inputs
    <3>11. log[j].body.previousRevision < log[i].body.previousRevision
      BY <2>2, <3>8, <3>10 DEF MutationsAreSerial, CommitsTo, Is
    <3> QED BY <3>8, <3>10, <3>11
  <2> QED BY <2>1, <2>2 DEF HasIdsOf, CarriedOut
<1> QED BY <1>1, TypeCorrect, ListsMirrorLog, CommitsCarryFirst, CommandsComeFirst,
           CommitsAreSerial, PTL

\* ------------------------------------------------------------------------
\* Evidence.

\* Admitted evidence is of this run, carries the hash of its content, and cites
\* the event that admitted it.
EvidenceIsSound ==
    \A i \in DOMAIN log :
        /\ Is(i, "EffectReceiptRecorded") => ReceiptIsSound(log[i].body, log[i].id)
        /\ Is(i, "ExternalStateObserved") => ObservationIsSound(log[i].body, log[i].id)

\* Whatever evidence callers send, what is admitted is sound
\* (assertInputRunId, assertPayloadHash, assertAdmittedEvidenceRefs).
THEOREM EvidenceStaysSound == Spec => []EvidenceIsSound
<1>1. Init => EvidenceIsSound
  BY DEF Init, EvidenceIsSound
<1>2. TypeOK /\ EvidenceIsSound /\ [Next]_vars => EvidenceIsSound'
  <2> SUFFICES ASSUME TypeOK, EvidenceIsSound, [Next]_vars PROVE EvidenceIsSound'
    OBVIOUS
  <2>1. CASE UNCHANGED vars
    BY <2>1 DEF EvidenceIsSound, Is, vars
  <2>2. CASE Next
    <3>1. Grows
      BY <2>2, StepsExtend DEF Extends
    <3>2. "EffectReceiptRecorded" \in KeptTypes /\ "ExternalStateObserved" \in KeptTypes
      BY DEF KeptTypes, Inputs
    <3> SUFFICES ASSUME NEW i \in DOMAIN log'
                 PROVE  /\ log'[i].type = "EffectReceiptRecorded" =>
                              ReceiptIsSound(log'[i].body, log'[i].id)
                        /\ log'[i].type = "ExternalStateObserved" =>
                              ObservationIsSound(log'[i].body, log'[i].id)
      BY DEF EvidenceIsSound, Is
    <3>3. CASE i \in 1..Len(log)
      BY <3>1, <3>3, Kept DEF EvidenceIsSound, Is
    <3>4. CASE i \notin 1..Len(log)
      BY <2>2, <3>2, <3>4, NewKeptEvent DEF Checked, Newest
    <3> QED BY <3>3, <3>4
  <2> QED BY <2>1, <2>2
<1> QED BY <1>1, <1>2, TypeCorrect, PTL DEF Spec

\* An evidence ref resolves to one admitted record, whoever chose the ids: a ref
\* names its own event, and event ids are unique (assertAdmittedEvidenceRefs).
THEOREM EvidenceIsUnambiguous == Spec => []EvidenceResolvesUniquely
<1>1. LogIntegrity /\ EvidenceIsSound => EvidenceResolvesUniquely
  <2> SUFFICES ASSUME LogIntegrity, EvidenceIsSound,
                      NEW i \in DOMAIN log, NEW j \in DOMAIN log,
                      CarriesEvidence(i), CarriesEvidence(j),
                      NEW ref \in log[i].body.evidence, ref \in log[j].body.evidence
               PROVE  i = j
    BY DEF EvidenceResolvesUniquely
  <2>1. ref.sourceEventId = log[i].id /\ ref.sourceEventId = log[j].id
    BY DEF EvidenceIsSound, CarriesEvidence, ReceiptIsSound, ObservationIsSound, EvidenceIsOwn
  <2> QED BY <2>1 DEF LogIntegrity
<1> QED BY <1>1, LogStaysIntact, EvidenceStaysSound, PTL

\* ------------------------------------------------------------------------
\* Quarantines.

\* Every decision in the log answers a request for the same write, and what it
\* quarantines is that write.
DecisionsAnswerRequests ==
    \A d \in DOMAIN log : Is(d, "WritePreflightDecided") =>
        \E r \in 1..(d - 1) : /\ Is(r, "WritePreflightRequested")
                              /\ Answers(log[r].body, log[d].body)

\* Decisions are requested (recordWritePreflightDecided).
THEOREM DecisionsAreRequested == Spec => []DecisionsAnswerRequests
<1>1. Init => DecisionsAnswerRequests
  BY DEF Init, DecisionsAnswerRequests
<1>2. TypeOK /\ Mirrored /\ DecisionsAnswerRequests /\ [Next]_vars => DecisionsAnswerRequests'
  <2> SUFFICES ASSUME TypeOK, Mirrored, DecisionsAnswerRequests, [Next]_vars
               PROVE  DecisionsAnswerRequests'
    OBVIOUS
  <2>1. CASE UNCHANGED vars
    BY <2>1 DEF DecisionsAnswerRequests, Is, vars
  <2>2. CASE Next
    <3>1. Grows
      BY <2>2, StepsExtend DEF Extends
    <3> SUFFICES ASSUME NEW i \in DOMAIN log', log'[i].type = "WritePreflightDecided"
                 PROVE  \E r \in 1..(i - 1) : /\ log'[r].type = "WritePreflightRequested"
                                              /\ Answers(log'[r].body, log'[i].body)
      BY DEF DecisionsAnswerRequests, Is
    <3>2. CASE i \in 1..Len(log)
      BY <3>1, <3>2, Kept DEF DecisionsAnswerRequests, Is
    <3>3. CASE i \notin 1..Len(log)
      <4>1. "WritePreflightDecided" \in KeptTypes /\ "WritePreflightRequested" \in KeptTypes
        BY DEF KeptTypes, Inputs
      <4>2. i = Len(log) + 1 /\ WriteWasRequested(log'[i].body)
        BY <2>2, <3>3, <4>1, NewKeptEvent DEF Checked
      <4>3. PICK n \in DOMAIN kept["WritePreflightRequested"] :
               Answers(kept["WritePreflightRequested"][n], log'[i].body)
        BY <4>2 DEF WriteWasRequested
      <4>4. PICK j \in DOMAIN log : /\ log[j].type = "WritePreflightRequested"
                                    /\ log[j].body = kept["WritePreflightRequested"][n]
        BY <4>1, <4>3 DEF Mirrored
      <4>5. j \in 1..(i - 1) /\ log'[j] = log[j]
        BY <3>1, <4>2, <4>4, Kept
      <4> QED BY <4>3, <4>4, <4>5
    <3> QED BY <3>2, <3>3
  <2> QED BY <2>1, <2>2
<1> QED BY <1>1, <1>2, TypeCorrect, ListsMirrorLog, PTL DEF Spec

\* A recorded quarantine is the one an earlier decision embeds, about the write
\* an earlier request named (assertWriteQuarantineMatchesDecision).
THEOREM QuarantinesAreDecided == Spec => []QuarantinesWereDecided
<1>1. Init => QuarantinesWereDecided
  BY DEF Init, QuarantinesWereDecided
<1>2. TypeOK /\ Mirrored /\ DecisionsAnswerRequests /\ QuarantinesWereDecided /\ [Next]_vars
      => QuarantinesWereDecided'
  <2> DEFINE Decided(l, i, r, d) ==
                /\ r < d
                /\ l[r].type = "WritePreflightRequested" /\ l[d].type = "WritePreflightDecided"
                /\ l[r].body.preflightId = l[i].body.preflightId
                /\ SameWrite(l[r].body, l[i].body)
                /\ l[d].body.status = "quarantined"
                /\ l[d].body.quarantine = l[i].body
  <2> SUFFICES ASSUME TypeOK, Mirrored, DecisionsAnswerRequests, QuarantinesWereDecided, [Next]_vars
               PROVE  QuarantinesWereDecided'
    OBVIOUS
  <2>1. CASE UNCHANGED vars
    BY <2>1 DEF QuarantinesWereDecided, Is, vars
  <2>2. CASE Next
    <3>1. Grows
      BY <2>2, StepsExtend DEF Extends
    <3> SUFFICES ASSUME NEW i \in DOMAIN log', log'[i].type = "WriteQuarantined"
                 PROVE  \E r, d \in 1..(i - 1) : Decided(log', i, r, d)
      BY DEF QuarantinesWereDecided, Is
    <3>2. CASE i \in 1..Len(log)
      <4>1. log'[i] = log[i] /\ i \in DOMAIN log /\ \A j \in 1..(i - 1) : log'[j] = log[j]
        BY <3>1, <3>2, Kept
      <4>2. PICK r \in 1..(i - 1), d \in 1..(i - 1) : Decided(log, i, r, d)
        BY <4>1 DEF QuarantinesWereDecided, Is
      <4> QED BY <4>1, <4>2
    <3>3. CASE i \notin 1..Len(log)
      <4>1. "WriteQuarantined" \in KeptTypes /\ "WritePreflightDecided" \in KeptTypes
        BY DEF KeptTypes, Inputs
      <4>2. i = Len(log) + 1 /\ QuarantineWasDecided(log'[i].body)
        BY <2>2, <3>3, <4>1, NewKeptEvent DEF Checked
      <4>3. PICK n \in DOMAIN kept["WritePreflightDecided"] :
               /\ kept["WritePreflightDecided"][n].status = "quarantined"
               /\ kept["WritePreflightDecided"][n].quarantine = log'[i].body
        BY <4>2 DEF QuarantineWasDecided
      <4>4. PICK d \in DOMAIN log : /\ log[d].type = "WritePreflightDecided"
                                    /\ log[d].body = kept["WritePreflightDecided"][n]
        BY <4>1, <4>3 DEF Mirrored
      <4>5. PICK r \in 1..(d - 1) : /\ log[r].type = "WritePreflightRequested"
                                    /\ Answers(log[r].body, log[d].body)
        BY <4>4 DEF DecisionsAnswerRequests, Is
      <4>6. DOMAIN log = 1..(i - 1) /\ \A j \in 1..(i - 1) : log'[j] = log[j]
        BY <3>1, <4>2, Kept
      <4>7. r \in 1..(i - 1) /\ d \in 1..(i - 1) /\ r < d
        BY <3>1, <4>2, <4>6, Kept
      <4>8. /\ log[r].body.preflightId = log'[i].body.preflightId
            /\ SameWrite(log[r].body, log'[i].body)
        BY <4>3, <4>4, <4>5 DEF Answers, SameWrite
      <4> QED BY <4>3, <4>4, <4>5, <4>6, <4>7, <4>8
    <3> QED BY <3>2, <3>3
  <2> QED BY <2>1, <2>2
<1> QED BY <1>1, <1>2, TypeCorrect, ListsMirrorLog, DecisionsAreRequested, PTL DEF Spec

\* ------------------------------------------------------------------------
(***************************************************************************)
(* The kernel's purpose, proved: a final message is released only when the *)
(* log shows, before the proof, genuine and fresh evidence for every claim *)
(* of the candidate (ReleasesAreProven).                                   *)
(*                                                                         *)
(* The argument has two halves.  The evaluation: a claim the proof engine  *)
(* supports from the private lists is shown by the log, because the lists  *)
(* mirror the log and what it admits is sound.  The release: the events    *)
(* behind a FinalReleased event are those of the one call that appended it,*)
(* and no later call can add a mismatch to its proof.                      *)
(***************************************************************************)

\* ------------------------------------------------------------------------
\* What the first m events of a log l show (ShownBefore, for any log).

Cites(l, ref, e) ==
    /\ l[e].wellFormed
    /\ ref \in l[e].body.evidence
    /\ ref.sourceEventId = l[e].id
    /\ ref.hash = l[e].body.payloadHash

StateShown(l, claim, m, now) ==
    \E e \in 1..m, n \in DOMAIN claim.refs :
        /\ l[e].type = "ExternalStateObserved" /\ Cites(l, claim.refs[n], e)
        /\ l[e].body.subject = claim.predicate.subject
        /\ l[e].body.observedAt \in (now - claim.predicate.freshness)..now
        /\ StateSatisfies(l[e].body, claim.predicate)

ReceiptsShown(l, claim, m) ==
    /\ \E e \in 1..m, n \in DOMAIN claim.refs :
          /\ l[e].type = "EffectReceiptRecorded" /\ Cites(l, claim.refs[n], e)
          /\ l[e].body.capabilityId = claim.predicate.capabilityId
          /\ l[e].body.receiptType = claim.predicate.receiptType
          /\ PayloadMatches(l[e].body.payload, claim.predicate.fields)
    /\ \A e \in 1..m, n \in DOMAIN claim.refs :
          l[e].type = "EffectReceiptRecorded" /\ Cites(l, claim.refs[n], e) =>
              l[e].body.status = "succeeded"

Shown(l, claim, m, now) ==
    IF claim.predicate.kind = "current_state"
    THEN StateShown(l, claim, m, now)
    ELSE ReceiptsShown(l, claim, m)

\* What a log shows, a longer log shows of the same events, and a proposal
\* behind them changes nothing.
LEMMA ShownStays ==
    ASSUME NEW l, NEW k, NEW m \in Nat, NEW claim, NEW now,
           \A e \in 1..m : k[e] = l[e], Shown(l, claim, m, now)
    PROVE  Shown(k, claim, m, now)
BY DEF Shown, StateShown, ReceiptsShown, Cites

\* A proposal behind them shows nothing.
LEMMA ProposalShowsNothing ==
    ASSUME NEW l, NEW m \in Nat, NEW claim, NEW now, Shown(l, claim, m, now),
           l[m + 1].type = "ProposalReceived"
    PROVE  Shown(l, claim, m + 1, now)
<1>1. 1..(m + 1) = (1..m) \cup {m + 1}
  OBVIOUS
<1>2. CASE claim.predicate.kind = "current_state"
  BY <1>1, <1>2 DEF Shown, StateShown
<1>3. CASE claim.predicate.kind # "current_state"
  BY <1>1, <1>3 DEF Shown, ReceiptsShown
<1> QED BY <1>2, <1>3

\* ------------------------------------------------------------------------
\* The evaluation.

\* A receipt the kernel keeps is in the log, sound, under its event's id; and a
\* receipt accepted into the log is kept.
LEMMA KeptReceipts ==
    ASSUME TypeOK, Mirrored, EvidenceIsSound
    PROVE  LET receipts == Elements(kept["EffectReceiptRecorded"])
           IN  /\ \A r \in receipts : \E e \in 1..Len(log) :
                     /\ log[e].type = "EffectReceiptRecorded" /\ log[e].wellFormed
                     /\ log[e].body = r /\ ReceiptIsSound(r, log[e].id)
               /\ \A e \in 1..Len(log) :
                     log[e].type = "EffectReceiptRecorded" /\ log[e].wellFormed =>
                        log[e].body \in receipts /\ ReceiptIsSound(log[e].body, log[e].id)
<1>1. "EffectReceiptRecorded" \in KeptTypes
  BY DEF KeptTypes, Inputs
<1>2. DOMAIN log = 1..Len(log)
  BY DEF TypeOK
<1> QED BY <1>1, <1>2 DEF Mirrored, EvidenceIsSound, Is, Elements

\* An observation the kernel keeps is in the log, sound, under its event's id.
LEMMA KeptObservations ==
    ASSUME TypeOK, Mirrored, EvidenceIsSound
    PROVE  \A s \in Elements(kept["ExternalStateObserved"]) : \E e \in 1..Len(log) :
              /\ log[e].type = "ExternalStateObserved" /\ log[e].wellFormed
              /\ log[e].body = s /\ ObservationIsSound(s, log[e].id)
              /\ s \in Observations
<1>1. "ExternalStateObserved" \in KeptTypes
  BY DEF KeptTypes, Inputs
<1>2. DOMAIN log = 1..Len(log)
  BY DEF TypeOK
<1>3. Inputs["ExternalStateObserved"] = Observations
  BY DEF Inputs
<1> QED BY <1>1, <1>2, <1>3 DEF Mirrored, EvidenceIsSound, Is, Elements

\* A sound receipt is believed, and its evidence refs are of the receipt kind.
LEMMA SoundIsBelieved ==
    ASSUME NEW receipt, NEW id, ReceiptIsSound(receipt, id)
    PROVE  /\ Believed(receipt, receipt.payload, "effect_receipt", RunId)
           /\ \A ref \in receipt.evidence :
                 /\ ref.kind = "effect_receipt" /\ ref.sourceEventId = id
                 /\ ref.hash = receipt.payloadHash
BY DEF ReceiptIsSound, Believed, EvidenceIsOwn

\* A receipt claim the engine supports is shown by the log.
LEMMA ReceiptSupport ==
    ASSUME TypeOK, Mirrored, EvidenceIsSound, NEW claim,
           ReceiptClaimVerdict(claim, Elements(kept["EffectReceiptRecorded"]), RunId) = "supported"
    PROVE  ReceiptsShown(log, claim, Len(log))
<1> DEFINE receipts == Elements(kept["EffectReceiptRecorded"])
           refs     == claim.refs
           wanted   == RefsOfKind(refs, "effect_receipt")
           resolved == Resolved(refs, wanted, BelievedReceipts(receipts, RunId))
<1>1. /\ ~ \E p \in resolved : p[2].status # "succeeded"
      /\ \E p \in resolved : ReceiptMatches(p[2], claim.predicate)
  BY DEF ReceiptClaimVerdict
<1>2. \A p \in resolved : /\ p[1] \in DOMAIN refs /\ p[2] \in receipts
                          /\ refs[p[1]] \in p[2].evidence
  BY DEF Resolved, BelievedReceipts, RefsOfKind
<1>3. ASSUME NEW n \in DOMAIN refs, NEW r \in receipts, refs[n] \in r.evidence,
             refs[n].kind = "effect_receipt", Believed(r, r.payload, "effect_receipt", RunId)
      PROVE  r.status = "succeeded"
  <2>1. <<n, r>> \in resolved
    BY <1>3 DEF Resolved, BelievedReceipts, RefsOfKind
  <2> HIDE DEF resolved
  <2> QED BY <1>1, <2>1
<1> HIDE DEF receipts, wanted, resolved
<1>4. PICK p \in resolved : ReceiptMatches(p[2], claim.predicate)
  BY <1>1
<1>5. PICK e \in 1..Len(log) :
         /\ log[e].type = "EffectReceiptRecorded" /\ log[e].wellFormed
         /\ log[e].body = p[2] /\ ReceiptIsSound(p[2], log[e].id)
  BY <1>2, <1>4, KeptReceipts DEF receipts
<1>6. Cites(log, refs[p[1]], e)
  BY <1>2, <1>4, <1>5, SoundIsBelieved DEF Cites
<1>7. ASSUME NEW f \in 1..Len(log), NEW n \in DOMAIN refs,
             log[f].type = "EffectReceiptRecorded", Cites(log, refs[n], f)
      PROVE  log[f].body.status = "succeeded"
  <2>1. /\ log[f].body \in receipts /\ ReceiptIsSound(log[f].body, log[f].id)
        /\ refs[n] \in log[f].body.evidence
    BY <1>7, KeptReceipts DEF Cites, receipts
  <2>2. /\ Believed(log[f].body, log[f].body.payload, "effect_receipt", RunId)
        /\ refs[n].kind = "effect_receipt"
    BY <2>1, SoundIsBelieved
  <2> QED BY <1>3, <2>1, <2>2
<1>8. /\ p[1] \in DOMAIN refs /\ log[e].body.capabilityId = claim.predicate.capabilityId
      /\ log[e].body.receiptType = claim.predicate.receiptType
      /\ PayloadMatches(log[e].body.payload, claim.predicate.fields)
  BY <1>2, <1>4, <1>5 DEF ReceiptMatches
<1> QED BY <1>5, <1>6, <1>7, <1>8 DEF ReceiptsShown

\* A claim about the current state that the engine supports is shown by the log.
LEMMA StateSupport ==
    ASSUME TypeOK, Mirrored, EvidenceIsSound, NEW claim, NEW now \in Int,
           claim.predicate.freshness \in Int,
           CurrentStateVerdict(claim, Elements(kept["ExternalStateObserved"]), now, RunId)
              = "supported"
    PROVE  StateShown(log, claim, Len(log), now)
<1> DEFINE observations == Elements(kept["ExternalStateObserved"])
           refs     == claim.refs
           wanted   == RefsOfKind(refs, "external_observation")
           resolved == Resolved(refs, wanted, BelievedObservations(observations, RunId))
           sameSubject == {p \in resolved : p[2].subject = claim.predicate.subject}
           fresh == {p \in sameSubject : IsFresh(p[2], claim.predicate, now)}
<1>1. PICK p \in fresh : StateSatisfies(p[2], claim.predicate)
  BY DEF CurrentStateVerdict
<1>2. /\ p[1] \in DOMAIN refs /\ p[2] \in observations /\ refs[p[1]] \in p[2].evidence
      /\ p[2].subject = claim.predicate.subject /\ IsFresh(p[2], claim.predicate, now)
  BY DEF Resolved, BelievedObservations, RefsOfKind
<1> HIDE DEF observations, wanted, resolved, sameSubject, fresh
<1>3. PICK e \in 1..Len(log) :
         /\ log[e].type = "ExternalStateObserved" /\ log[e].wellFormed
         /\ log[e].body = p[2] /\ ObservationIsSound(p[2], log[e].id)
         /\ p[2] \in Observations
  BY <1>2, KeptObservations DEF observations
<1>4. Cites(log, refs[p[1]], e)
  BY <1>2, <1>3 DEF Cites, ObservationIsSound, EvidenceIsOwn
<1>5. p[2].observedAt \in (now - claim.predicate.freshness)..now
  <2>1. p[2].observedAt \in Int
    BY <1>3, InputContracts
  <2> QED BY <1>2, <2>1 DEF IsFresh
<1> QED BY <1>1, <1>2, <1>3, <1>4, <1>5 DEF StateShown

\* A candidate whose proof passes: the proof reports no mismatch, and the log
\* shows every claim.
LEMMA PassIsShown ==
    ASSUME TypeOK, Mirrored, EvidenceIsSound, NEW c \in FinalCandidates, c.runId = RunId,
           NEW t \in Times, ProofNow(c, t).verdict = "pass"
    PROVE  /\ ProofNow(c, t).mismatches = {}
           /\ \A n \in DOMAIN c.claims : Shown(log, c.claims[n], Len(log), t)
<1> DEFINE R == Elements(kept["EffectReceiptRecorded"])
           S == Elements(kept["ExternalStateObserved"])
           claims == c.claims
           verdict == [i \in DOMAIN claims |-> ClaimVerdict(claims[i], R, S, t, c.runId)]
           supported == {i \in DOMAIN claims : verdict[i] = "supported"}
           unsupported == (DOMAIN claims) \ supported
<1>1. /\ ProofNow(c, t).verdict = IF unsupported = {} THEN "pass" ELSE "fail"
      /\ ProofNow(c, t).mismatches =
            {[index |-> i, claimId |-> claims[i].claimId,
              type |-> verdict[i], blocking |-> TRUE] : i \in unsupported}
  BY DEF ProofNow, EvaluateProof
<1>2. unsupported = {}
  <2> HIDE DEF unsupported
  <2> QED BY <1>1
<1>3. ProofNow(c, t).mismatches = {}
  <2> HIDE DEF unsupported
  <2> QED BY <1>1, <1>2
<1>4. ASSUME NEW n \in DOMAIN claims PROVE Shown(log, claims[n], Len(log), t)
  <2> DEFINE claim == claims[n]
  <2>1. ClaimVerdict(claim, R, S, t, RunId) = "supported"
    <3>1. n \in supported
      BY <1>2
    <3>2. verdict[n] = ClaimVerdict(claims[n], R, S, t, c.runId)
      OBVIOUS
    <3> QED BY <3>1, <3>2
  <2>2. \/ claim.predicate.kind \in ReceiptClaimKinds
        \/ claim.predicate.kind = "current_state" /\ claim.predicate.freshness \in Int
    BY InputContracts
  <2>3. t \in Int
    BY InputContracts
  <2> HIDE DEF claim
  <2>4. CASE claim.predicate.kind \in ReceiptClaimKinds
    <3>1. ReceiptClaimVerdict(claim, R, RunId) = "supported"
      BY <2>1, <2>4 DEF ClaimVerdict
    <3>2. claim.predicate.kind # "current_state"
      BY <2>4 DEF ReceiptClaimKinds
    <3> QED BY <3>1, <3>2, ReceiptSupport DEF Shown, claim
  <2>5. CASE claim.predicate.kind = "current_state" /\ claim.predicate.freshness \in Int
    <3>1. claim.predicate.kind \notin ReceiptClaimKinds
      BY <2>5 DEF ReceiptClaimKinds
    <3>2. CurrentStateVerdict(claim, S, t, RunId) = "supported"
      BY <2>1, <3>1 DEF ClaimVerdict
    <3> QED BY <2>3, <2>5, <3>2, StateSupport DEF Shown, claim
  <2> QED BY <2>2, <2>4, <2>5
<1> QED BY <1>3, <1>4

\* ------------------------------------------------------------------------
\* The release.

\* The decision at d and the proof at p are those behind the release at i in a
\* log l, and the proof is right.
Behind(l, i, d, p) ==
    /\ l[d].type = "ReleaseDecided" /\ l[d].id = l[i].cause
    /\ l[p].type = "ProofGenerated" /\ l[p].id = l[d].cause
    /\ l[d].body = l[i].body.decision
    /\ l[d].body.status = "released"
    /\ l[p].body.verdict = "pass"
    /\ \E c \in 1..(p - 1) : l[c].id = l[p].cause /\ l[c].body = l[i].body.candidate
    /\ \A n \in DOMAIN l[i].body.candidate.claims :
          Shown(l, l[i].body.candidate.claims[n], p - 1, l[p].body.generatedAt)

Unmismatched(l, p) ==
    \A m \in DOMAIN l : l[m].type = "MismatchDetected" => l[m].cause # l[p].id

\* The kinds of the events of a plan, and where they are in the log.
LEMMA PlanEvent ==
    ASSUME Grows, NEW p, NEW n \in Nat, NEW k \in Nat, NEW c, NEW proof,
           PlanLogged(p, n, k, c, proof),
           NEW i \in DOMAIN log', i \notin 1..(Len(log) + 1)
    PROVE  LET h == i - (Len(log) + 1)
           IN  /\ h \in 1..k /\ log'[i] = p[h] /\ k <= Len(p)
               /\ \/ h = 1 /\ p[h].type = "ProofGenerated"
                  \/ h \in 2..(n + 1) /\ p[h].type = "MismatchDetected" /\ p[h].cause = p[1].id
                  \/ h = n + 2 /\ p[h].type = "ReleaseDecided"
                  \/ h = n + 3 /\ Len(p) = n + 3 /\ p[h].type = "FinalReleased"
<1> DEFINE N == Len(log) + 1
           h == i - N
<1>1. /\ Len(log) \in Nat /\ DOMAIN log' = 1..Len(log') /\ N \in Nat
  BY DEF Grows
<1>2. /\ k <= Len(p) /\ Len(log') = N + k /\ \A j \in 1..k : log'[N + j] = p[j]
      /\ PlanShape(p, n, c, proof, Newest.id)
  BY DEF PlanLogged
<1>3. h \in 1..k /\ N + h = i
  BY <1>1, <1>2
<1>4. log'[i] = p[h]
  BY <1>2, <1>3
<1>5. Len(p) = n + 2 \/ Len(p) = n + 3
  BY <1>2 DEF PlanShape
<1>6. /\ p[1].type = "ProofGenerated"
      /\ \A j \in 2..(n + 1) : p[j].type = "MismatchDetected" /\ p[j].cause = p[1].id
      /\ p[n + 2].type = "ReleaseDecided"
      /\ Len(p) = n + 3 => p[n + 3].type = "FinalReleased"
  BY <1>2 DEF PlanShape
<1> HIDE DEF h
<1>7. h = 1 \/ h \in 2..(n + 1) \/ h = n + 2 \/ (h = n + 3 /\ Len(p) = n + 3)
  <2>1. k <= Len(p)
    BY <1>2
  <2>2. h \in 1..k
    BY <1>3
  <2> QED BY <1>5, <2>1, <2>2
<1>8. \/ h = 1 /\ p[h].type = "ProofGenerated"
      \/ h \in 2..(n + 1) /\ p[h].type = "MismatchDetected" /\ p[h].cause = p[1].id
      \/ h = n + 2 /\ p[h].type = "ReleaseDecided"
      \/ h = n + 3 /\ Len(p) = n + 3 /\ p[h].type = "FinalReleased"
  BY <1>6, <1>7
<1> QED BY <1>2, <1>3, <1>4, <1>8 DEF h

\* Every step that logs a release, a decision, a proof or a mismatch is a final
\* candidate's.
LEMMA FinalEventsComeFromCandidates ==
    ASSUME TypeOK, Next, NEW i \in DOMAIN log', i \notin 1..Len(log),
           log'[i].type \in FinalTypes
    PROVE  \E c \in FinalCandidates, o \in FinalOptions, t \in Times \cup {Null} :
              SubmitFinalCandidate(c, o, t)
<1>1. IsList(log)
  BY DEF TypeOK, IsList
<1>2. ASSUME NEW o \in EventOptions, StartRun(o) PROVE FALSE
  <2>1. Grows /\ Len(log') = Len(log) + 1 /\ Newest.type = "RunStarted"
    BY <1>1, <1>2, StartStep DEF NewEvent
  <2>2. i = Len(log) + 1
    BY <2>1 DEF Grows
  <2> QED BY <2>1, <2>2 DEF Newest, FinalTypes
<1>3. ASSUME NEW type \in KeptTypes, NEW body \in Inputs[type], NEW o \in EventOptions,
             RecordEvent(type, body, o)
      PROVE  FALSE
  <2>1. /\ Grows /\ Len(log') = Len(log) + 1
        /\ Newest = NewEvent(type, body, o, Given(o.causationId, started))
    BY <1>1, <1>3, RecordStep
  <2>2. Newest.type = type
    BY <2>1 DEF NewEvent
  <2>3. i = Len(log) + 1
    BY <2>1 DEF Grows
  <2> QED BY <2>2, <2>3, UnkeptTypes DEF Newest
<1> QED BY <1>2, <1>3, StepKinds

\* A new mismatch is caused by an event of its own call.
LEMMA NewMismatch ==
    ASSUME TypeOK, Next, NEW i \in DOMAIN log', i \notin 1..Len(log),
           log'[i].type = "MismatchDetected"
    PROVE  \E q \in (Len(log) + 1)..Len(log') : log'[i].cause = log'[q].id
<1>1. PICK c \in FinalCandidates, o \in FinalOptions, t \in Times \cup {Null} :
         SubmitFinalCandidate(c, o, t)
  BY FinalEventsComeFromCandidates DEF FinalTypes
<1>2. /\ Grows /\ Len(log') >= Len(log) + 1
      /\ Newest = NewEvent("ProposalReceived", c, o, Given(o.causationId, started))
      /\ \/ Len(log') = Len(log) + 1
         \/ \E p : \E n, k \in Nat : PlanLogged(p, n, k, c, ProofNow(c, t))
  BY <1>1, FinalPlanLogged DEF TypeOK, IsList
<1>3. i # Len(log) + 1
  BY <1>2 DEF Newest, NewEvent
<1>g. Grows
  BY <1>2
<1>4. i \notin 1..(Len(log) + 1) /\ Len(log') # Len(log) + 1 /\ Len(log) \in Nat
  <2>1. Len(log) \in Nat /\ Len(log') \in Nat /\ i \in 1..Len(log')
    BY <1>g DEF Grows
  <2>2. i \notin 1..(Len(log) + 1)
    BY <1>3, <2>1
  <2> QED BY <2>1, <2>2
<1>5. PICK p : \E n, k \in Nat : PlanLogged(p, n, k, c, ProofNow(c, t))
  BY <1>2, <1>4
<1>6. PICK n \in Nat, k \in Nat : PlanLogged(p, n, k, c, ProofNow(c, t))
  BY <1>5
<1>7. log'[i].cause = p[1].id /\ k >= 1
  <2> DEFINE h == i - (Len(log) + 1)
  <2>1. /\ h \in 1..k /\ log'[i] = p[h]
        /\ p[h].type = "MismatchDetected" => p[h].cause = p[1].id
    BY <1>g, <1>4, <1>6, PlanEvent
  <2> HIDE DEF h
  <2>2. k >= 1
    BY <2>1
  <2> QED BY <2>1, <2>2
<1>8. log'[Len(log) + 2] = p[1] /\ Len(log) + 2 \in (Len(log) + 1)..Len(log')
  <2>1. /\ Len(log') = Len(log) + 1 + k
        /\ \A j \in 1..k : log'[Len(log) + 1 + j] = p[j]
    BY <1>6 DEF PlanLogged
  <2>2. 1 \in 1..k /\ Len(log) + 1 + 1 = Len(log) + 2
    BY <1>4, <1>7
  <2> QED BY <1>4, <2>1, <2>2
<1> QED BY <1>7, <1>8

\* A new release has a passing proof behind it, of claims the log shows, that
\* reports no mismatch.
LEMMA NewRelease ==
    ASSUME TypeOK, Mirrored, LogIntegrity, EvidenceIsSound, Next,
           NEW i \in DOMAIN log', i \notin 1..Len(log), log'[i].type = "FinalReleased"
    PROVE  \E d \in 1..(i - 1) : \E p \in 1..(d - 1) : Behind(log', i, d, p) /\ Unmismatched(log', p)
<1> DEFINE N == Len(log) + 1
<1>1. PICK c \in FinalCandidates, o \in FinalOptions, t \in Times \cup {Null} :
         SubmitFinalCandidate(c, o, t)
  BY FinalEventsComeFromCandidates DEF FinalTypes
<1> DEFINE proof == ProofNow(c, t)
<1>2. /\ Grows /\ Len(log') >= N
      /\ Newest = NewEvent("ProposalReceived", c, o, Given(o.causationId, started))
      /\ \/ Len(log') = N
         \/ t # Null /\ \E p : \E n, k \in Nat : PlanLogged(p, n, k, c, proof)
  BY <1>1, FinalPlanLogged DEF TypeOK, IsList
<1>g. Grows
  BY <1>2
<1>3. /\ Len(log) \in Nat /\ DOMAIN log' = 1..Len(log') /\ DOMAIN log = 1..Len(log)
      /\ \A j \in 1..Len(log) : log'[j] = log[j]
  BY <1>g DEF Grows
<1>4. log'[N].type = "ProposalReceived" /\ log'[N].body = c /\ log'[N] = Newest
  BY <1>2 DEF Newest, NewEvent
<1>5. i \notin 1..N /\ Len(log') # N
  <2>1. i # N
    BY <1>4
  <2>2. i \in 1..Len(log') /\ Len(log) \in Nat
    BY <1>3
  <2> QED BY <2>1, <2>2
<1>6. PICK p : \E n, k \in Nat : PlanLogged(p, n, k, c, proof)
  BY <1>2, <1>5
<1>7. PICK n \in Nat, k \in Nat : PlanLogged(p, n, k, c, proof)
  BY <1>6
<1>8. c.runId = RunId /\ t \in Times
  BY <1>1, <1>2, <1>5 DEF SubmitFinalCandidate, CanRecord
<1> HIDE DEF proof
<1>9. /\ Len(log') = N + k /\ \A j \in 1..k : log'[N + j] = p[j]
      /\ n = Cardinality(proof.mismatches) /\ PlanShape(p, n, c, proof, Newest.id)
  BY <1>7 DEF PlanLogged
<1>10. i - N \in 1..k /\ i - N = n + 3 /\ Len(p) = n + 3 /\ k <= Len(p)
  BY <1>g, <1>5, <1>7, PlanEvent
<1>11. /\ p[1].type = "ProofGenerated" /\ p[1].cause = Newest.id /\ p[1].body = proof
       /\ p[n + 2].type = "ReleaseDecided" /\ p[n + 2].cause = p[1].id
       /\ p[n + 2].body = DecideRelease(c, proof)
       /\ DecideRelease(c, proof).status = "released"
       /\ p[n + 3].cause = p[n + 2].id
       /\ p[n + 3].body = [decision |-> DecideRelease(c, proof), candidate |-> c]
  BY <1>9, <1>10 DEF PlanShape
<1>12. proof.verdict = "pass"
  <2>1. proof.verdict \in {"pass", "fail"}
    BY DEF proof, ProofNow, EvaluateProof
  <2>2. DecisionStatus(proof) = "released"
    BY <1>11 DEF DecideRelease
  <2> QED BY <2>1, <2>2 DEF DecisionStatus
<1>13. /\ proof.mismatches = {}
       /\ \A j \in DOMAIN c.claims : Shown(log, c.claims[j], Len(log), t)
  BY <1>8, <1>12, PassIsShown DEF proof
<1>14. n = 0
  BY <1>9, <1>13, FS_EmptySet
<1>15. proof.generatedAt = t
  BY DEF proof, ProofNow, EvaluateProof
<1>16. /\ k = 3 /\ i = N + 3 /\ Len(log') = N + 3
       /\ log'[N + 1] = p[1] /\ log'[N + 2] = p[2] /\ log'[i] = p[3]
  <2>1. k = 3
    BY <1>10, <1>14
  <2>2. 1 \in 1..k /\ 2 \in 1..k /\ 3 \in 1..k
    BY <2>1
  <2>3. i = N + 3
    BY <1>3, <1>10, <1>14
  <2> QED BY <1>9, <2>1, <2>2, <2>3
<1>17. ASSUME NEW j \in DOMAIN c.claims
       PROVE  Shown(log', c.claims[j], N, t)
  <2>1. Shown(log, c.claims[j], Len(log), t)
    BY <1>13
  <2>2. Shown(log', c.claims[j], Len(log), t)
    BY <1>3, <2>1, ShownStays
  <2> QED BY <1>3, <1>4, <2>2, ProposalShowsNothing
<1>18. Behind(log', i, N + 2, N + 1)
  <2>1. /\ log'[N + 2].type = "ReleaseDecided" /\ log'[N + 2].id = log'[i].cause
        /\ log'[N + 1].type = "ProofGenerated" /\ log'[N + 1].id = log'[N + 2].cause
        /\ log'[N + 2].body = DecideRelease(c, proof)
        /\ log'[i].body = [decision |-> DecideRelease(c, proof), candidate |-> c]
        /\ log'[N + 1].body = proof /\ log'[N + 1].cause = log'[N].id
    BY <1>4, <1>11, <1>14, <1>16
  <2>2. /\ log'[i].body.decision = log'[N + 2].body /\ log'[i].body.candidate = c
        /\ log'[N + 2].body.status = "released"
    BY <1>11, <2>1
  <2>3. N \in 1..N
    BY <1>3
  <2>4. \A j \in DOMAIN log'[i].body.candidate.claims :
           Shown(log', log'[i].body.candidate.claims[j], N, log'[N + 1].body.generatedAt)
    BY <1>15, <1>17, <2>1, <2>2
  <2>5. log'[N + 1].body.verdict = "pass" /\ log'[N].body = log'[i].body.candidate
    BY <1>4, <1>12, <2>1, <2>2
  <2> DEFINE d == N + 2
             q == N + 1
  <2>6. q - 1 = N
    BY <1>3
  <2>7. /\ log'[d].type = "ReleaseDecided" /\ log'[d].id = log'[i].cause
        /\ log'[q].type = "ProofGenerated" /\ log'[q].id = log'[d].cause
        /\ log'[d].body = log'[i].body.decision
        /\ log'[d].body.status = "released"
        /\ log'[q].body.verdict = "pass" /\ log'[q].cause = log'[N].id
    BY <2>1, <2>2, <2>5
  <2>8. \A j \in DOMAIN log'[i].body.candidate.claims :
           Shown(log', log'[i].body.candidate.claims[j], N, log'[q].body.generatedAt)
    BY <2>4
  <2>9. Behind(log', i, d, q)
    <3> HIDE DEF d, q, N
    <3> QED BY <2>3, <2>5, <2>6, <2>7, <2>8 DEF Behind
  <2> QED BY <2>9
<1>19. Unmismatched(log', N + 1)
  <2> SUFFICES ASSUME NEW m \in DOMAIN log', log'[m].type = "MismatchDetected"
               PROVE  log'[m].cause # log'[N + 1].id
    BY DEF Unmismatched
  <2>1. CASE m \in 1..Len(log)
    <3>1. log[m].cause = Null \/ log[m].cause \in IdsOf(log)
      <4>1. m \in DOMAIN log /\ \A j \in 1..(m - 1) : j \in DOMAIN log
        BY <1>3, <2>1
      <4>2. log[m].cause = Null \/ \E j \in 1..(m - 1) : log[j].id = log[m].cause
        BY <4>1, Zenon DEF LogIntegrity
      <4> QED BY <4>1, <4>2, Zenon DEF IdsOf
    <3>2. p[1].id # Null /\ p[1].id \notin IdsOf(Append(log, Newest))
      <4>1. 1 \in 1..k
        BY <1>16
      <4> QED BY <1>7, <4>1 DEF PlanLogged, Appendable
    <3>3. IdsOf(log) \subseteq IdsOf(Append(log, Newest))
      BY AppendToList DEF IdsOf, TypeOK, IsList
    <3> QED BY <1>3, <1>16, <2>1, <3>1, <3>2, <3>3
  <2>2. CASE m \notin 1..Len(log)
    <3>1. m # N
      BY <1>4
    <3>2. m \notin 1..N
      BY <1>3, <2>2, <3>1
    <3>3. m - N \in 2..(n + 1)
      <4>1. \/ p[m - N].type # "MismatchDetected"
            \/ m - N \in 2..(n + 1)
        BY <1>g, <1>7, <3>2, PlanEvent
      <4>2. log'[m] = p[m - N]
        BY <1>g, <1>7, <3>2, PlanEvent
      <4> QED BY <4>1, <4>2
    <3> QED BY <1>14, <3>3
  <2> QED BY <2>1, <2>2
<1>20. N + 2 \in 1..(i - 1) /\ N + 1 \in 1..((N + 2) - 1)
  BY <1>3, <1>16
<1> QED BY <1>18, <1>19, <1>20

\* What is behind a release stays behind it, and no later call reports a
\* mismatch of its proof.
LEMMA OldRelease ==
    ASSUME TypeOK, LogIntegrity, Next, NEW i \in 1..Len(log), NEW d \in 1..(i - 1),
           NEW p \in 1..(d - 1), Behind(log, i, d, p), Unmismatched(log, p)
    PROVE  Behind(log', i, d, p) /\ Unmismatched(log', p)
<1>1. Extends
  BY StepsExtend
<1>2. /\ Len(log) \in Nat /\ DOMAIN log' = 1..Len(log') /\ DOMAIN log = 1..Len(log)
      /\ \A j \in 1..Len(log) : log'[j] = log[j]
  BY <1>1 DEF Extends, Grows
<1>3. /\ i \in Nat /\ d \in Nat /\ p \in Nat /\ p \in 1..Len(log)
      /\ log'[i] = log[i] /\ log'[d] = log[d] /\ log'[p] = log[p] /\ p - 1 \in Nat
      /\ \A j \in 1..(p - 1) : log'[j] = log[j]
  BY <1>2
<1>4. Behind(log', i, d, p)
  BY <1>3, ShownStays DEF Behind
<1>5. ASSUME NEW m \in DOMAIN log', log'[m].type = "MismatchDetected"
      PROVE  log'[m].cause # log'[p].id
  <2>1. CASE m \in 1..Len(log)
    BY <1>2, <1>3, <1>5, <2>1 DEF Unmismatched
  <2>2. CASE m \notin 1..Len(log)
    <3>1. PICK q \in (Len(log) + 1)..Len(log') : log'[m].cause = log'[q].id
      BY <1>5, <2>2, NewMismatch
    <3>2. p \in 1..(q - 1)
      BY <1>2, <1>3
    <3> QED BY <1>1, <3>1, <3>2 DEF Extends
  <2> QED BY <2>1, <2>2
<1> QED BY <1>4, <1>5 DEF Unmismatched

\* The purpose of the system, for every input: a final message is released only
\* after a released decision on a passing proof of this very candidate, every
\* claim of which the log shows, and never when that proof reported a mismatch
\* (submitFinalCandidate, evaluateProof, decideRelease).
THEOREM ReleasesAreSound == Spec => []ReleasesAreProven
<1> DEFINE Proven(l, i) ==
              \E d \in 1..(i - 1) : \E p \in 1..(d - 1) : Behind(l, i, d, p) /\ Unmismatched(l, p)
           Sound == \A i \in DOMAIN log : log[i].type = "FinalReleased" => Proven(log, i)
<1>1. Init => Sound
  BY DEF Init
<1>2. TypeOK /\ Mirrored /\ LogIntegrity /\ EvidenceIsSound /\ Sound /\ [Next]_vars => Sound'
  <2> SUFFICES ASSUME TypeOK, Mirrored, LogIntegrity, EvidenceIsSound, Sound, [Next]_vars
               PROVE  Sound'
    OBVIOUS
  <2>1. CASE UNCHANGED vars
    BY <2>1 DEF vars
  <2>2. CASE Next
    <3>1. Grows
      BY <2>2, StepsExtend DEF Extends
    <3> SUFFICES ASSUME NEW i \in DOMAIN log', log'[i].type = "FinalReleased"
                 PROVE  Proven(log', i)
      OBVIOUS
    <3>2. CASE i \in 1..Len(log)
      <4>1. i \in DOMAIN log /\ log[i].type = "FinalReleased"
        BY <3>1, <3>2, Kept
      <4>2. PICK d \in 1..(i - 1) : \E p \in 1..(d - 1) :
                Behind(log, i, d, p) /\ Unmismatched(log, p)
        BY <4>1
      <4>3. PICK p \in 1..(d - 1) : Behind(log, i, d, p) /\ Unmismatched(log, p)
        BY <4>2
      <4>4. Behind(log', i, d, p) /\ Unmismatched(log', p)
        BY <2>2, <3>2, <4>3, OldRelease
      <4> QED BY <4>4
    <3>3. CASE i \notin 1..Len(log)
      BY <2>2, <3>3, NewRelease
    <3> QED BY <3>2, <3>3
  <2> QED BY <2>1, <2>2
<1>3. Sound => ReleasesAreProven
  <2> SUFFICES ASSUME Sound, NEW i \in DOMAIN log, log[i].type = "FinalReleased"
               PROVE  \E d \in DecisionOf(i) : \E p \in ProofOf(d) :
                        /\ log[d].body = log[i].body.decision
                        /\ log[d].body.status = "released"
                        /\ log[p].body.verdict = "pass"
                        /\ \E c \in 1..(p - 1) :
                              log[c].id = log[p].cause /\ log[c].body = log[i].body.candidate
                        /\ \A n \in DOMAIN log[i].body.candidate.claims :
                              ShownBefore(log[i].body.candidate.claims[n], p)
                        /\ \A m \in DOMAIN log : Is(m, "MismatchDetected") => log[m].cause # log[p].id
    BY DEF ReleasesAreProven, Is
  <2>1. PICK d \in 1..(i - 1) : \E p \in 1..(d - 1) :
            Behind(log, i, d, p) /\ Unmismatched(log, p)
    OBVIOUS
  <2>2. PICK p \in 1..(d - 1) : Behind(log, i, d, p) /\ Unmismatched(log, p)
    BY <2>1
  <2>3. d \in DecisionOf(i) /\ p \in ProofOf(d)
    BY <2>2 DEF Behind, DecisionOf, ProofOf, Is
  <2>4. ASSUME NEW claim, Shown(log, claim, p - 1, log[p].body.generatedAt)
        PROVE  ShownBefore(claim, p)
    BY <2>4 DEF Shown, StateShown, ReceiptsShown, Cites, ShownBefore, Is
  <2> QED BY <2>2, <2>3, <2>4 DEF Behind, Unmismatched, Is
<1> QED
  <2> HIDE DEF Sound
  <2> QED BY <1>1, <1>2, <1>3, TypeCorrect, ListsMirrorLog, LogStaysIntact, EvidenceStaysSound,
             PTL DEF Spec
=============================================================================
