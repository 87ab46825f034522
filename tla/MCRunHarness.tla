---------------------------- MODULE MCRunHarness ----------------------------
(***************************************************************************)
(* A test tool and a look at the world, two callers, and candidates that   *)
(* cite what the tools will have recorded.                                 *)
(***************************************************************************)
EXTENDS RunHarness, TLC

Interchangeable == Permutations(Callers)

MCHash(content) == <<"sha256", content>>

MCSanitizeId(id) == IF id = "cmd.1" THEN "cmd_1" ELSE id

Command(id, capability, args, key) ==
    [kind |-> "tool_command_request", commandId |-> id, runId |-> RunId,
     capabilityId |-> capability, toolId |-> "tool", args |-> args,
     sideEffectClass |-> "compute", idempotencyKey |-> key]

\* The second command's id reads as the first's once sanitized; the third has no
\* key, so that it runs again whenever it is dispatched; the last is not known.
MCCommands ==
    {Command("cmd_1", "tests", "a1", "k1"), Command("cmd.1", "tests", "a2", "k2"),
     Command("cmd_2", "world", "a1", Null), Command("cmd_3", "unknown", "a1", Null)}

Capability(id, observations) ==
    [capabilityId |-> id, sideEffectClass |-> "compute", receiptTypes |-> {"done"},
     observationTypes |-> observations]

MCCapabilities == {Capability("tests", {}), Capability("world", {"seen"})}

MCAdapters ==
    {[adapterId |-> "adapter", capabilityId |-> c.capabilityId, toolId |-> "tool",
      claimsAuthority |-> FALSE,
      certification |->
         [wellFormed |-> TRUE, adapterId |-> "adapter", adapterKind |-> "deterministic_fake",
          capabilityId |-> c.capabilityId, toolId |-> "tool",
          sideEffectClass |-> c.sideEffectClass, receiptTypes |-> c.receiptTypes,
          observationTypes |-> c.observationTypes, idempotency |-> "not_required",
          lifecycle |-> Null]] : c \in MCCapabilities}

Payload(result) == [result |-> result]

Pending(kind, hash) ==
    [evidenceId |-> "e1", kind |-> kind, hash |-> hash, admissionStatus |-> "pending"]

Receipt(request, status, result, hash) ==
    [wellFormed |-> TRUE, raw |-> FALSE, runId |-> request.runId,
     effectId |-> request.effectId, capabilityId |-> request.capabilityId,
     receiptType |-> "done", status |-> status, payload |-> Payload(result),
     payloadHash |-> MCHash(Payload(result)), evidence |-> {Pending("effect_receipt", hash)}]

Level(n) == [level |-> [primitive |-> TRUE, is |-> n, holds |-> {}]]

Seen(request) ==
    [wellFormed |-> TRUE, raw |-> FALSE, runId |-> request.runId, subject |-> "world",
     observationType |-> "seen", state |-> Level(1), payloadHash |-> MCHash(Level(1)),
     observedAt |-> 0, expiresAt |-> 2,
     evidence |-> {Pending("external_observation", MCHash(Level(1)))}]

Answer(receipt, observation) ==
    [throws |-> FALSE, wellFormed |-> TRUE, receipt |-> receipt, observation |-> observation]

\* Tests pass, fail though their payload says passed, or pass with evidence of
\* another payload, which the broker lets through and the kernel does not.  The look
\* succeeds or throws.
MCAnswersTo(request) ==
    IF request.capabilityId = "tests"
    THEN LET good == MCHash(Payload("passed"))
         IN  {Answer(Receipt(request, "succeeded", "passed", good), Null),
              Answer(Receipt(request, "failed", "passed", good), Null),
              Answer(Receipt(request, "succeeded", "passed", MCHash(Payload("failed"))), Null)}
    ELSE {Answer(Receipt(request, "succeeded", "looked", MCHash(Payload("looked"))), Seen(request)),
          [throws |-> TRUE]}

\* What the harness gives the kernel.
MCEventIds(types) == (1..MaxEvents) \X types

MCEventOptions ==
    {Defaults(Default, Default)}
    \cup {Defaults(id, Default) : id \in MCEventIds({"ProposalReceived"})}
    \cup {Defaults(id, ReceiptEventId(c.commandId)) :
             id \in MCEventIds({"EffectRequested"}), c \in MCCommands}
    \cup {Defaults(ReceiptEventId(c.commandId), ObservationEventId(c.commandId)) : c \in MCCommands}

MCFinalOptions ==
    {FinalDefaults(Default)}
    \cup UNION {{FinalDefaults(ReceiptEventId(c.commandId)),
                FinalDefaults(ObservationEventId(c.commandId))} : c \in MCCommands}

MCEffectRequests == {Broker!EffectRequest(c, Null) : c \in MCCommands}

ProperAnswers(c) == {a \in MCAnswersTo(Broker!EffectRequest(c, Null)) : Proper(a)}

MCEffectReceipts ==
    UNION {{Admitted(a.receipt, ReceiptEventId(c.commandId)) : a \in ProperAnswers(c)} : c \in MCCommands}

MCObservations ==
    UNION {{Admitted(a.observation, ObservationEventId(c.commandId)) :
              a \in {x \in ProperAnswers(c) : x.observation # Null}} : c \in MCCommands}

Ref(kind, eventId, hash) ==
    [evidenceId |-> "e1", kind |-> kind, sourceEventId |-> eventId, hash |-> hash]

Candidate(id, predicate, ref) ==
    [kind |-> "final_candidate", runId |-> RunId, candidateId |-> id,
     claims |-> <<[claimId |-> "c1", refs |-> <<ref>>, predicate |-> predicate]>>]

MCCandidates ==
    {Candidate("tests",
        [kind |-> "test_result", capabilityId |-> "tests", receiptType |-> "done",
         fields |-> Payload("passed")],
        Ref("effect_receipt", ReceiptEventId("cmd_1"), MCHash(Payload("passed")))),
     Candidate("world",
        [kind |-> "current_state", subject |-> "world", property |-> "level",
         operator |-> "equals", value |-> 1, freshness |-> 1],
        Ref("external_observation", ObservationEventId("cmd_2"), MCHash(Level(1))))}
=============================================================================
