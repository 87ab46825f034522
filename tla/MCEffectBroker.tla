--------------------------- MODULE MCEffectBroker ---------------------------
(***************************************************************************)
(* One write tool and one read tool.  The commands share an idempotency    *)
(* key: a write, the same write under a command id that reads the same once*)
(* sanitized, the write with other arguments, and a read.  Others have no  *)
(* key, or are critical.                                                   *)
(***************************************************************************)
EXTENDS EffectBroker, TLC

Interchangeable == Permutations(Callers)

MCHash(content) == <<"sha256", content>>

MCSanitizeId(id) == IF id = "cmd.1" THEN "cmd_1" ELSE id

Command(id, capability, class, args, key) ==
    [commandId |-> id, runId |-> "run", capabilityId |-> capability, toolId |-> "tool",
     args |-> args, sideEffectClass |-> class, idempotencyKey |-> key]

MCCommands ==
    {Command("cmd_1", "writes", "reversible_write", "a1", "k1"),
     Command("cmd.1", "writes", "reversible_write", "a1", "k1"),
     Command("cmd_1", "writes", "reversible_write", "a2", "k1"),
     Command("cmd_1", "writes", "reversible_write", "a1", Null),
     Command("cmd_1", "writes", "critical_write", "a1", "k1"),
     Command("cmd_4", "reads", "read", "a1", "k1")}

Capability(id, class, types) ==
    [capabilityId |-> id, sideEffectClass |-> class, receiptTypes |-> types,
     observationTypes |-> IF class = "read" THEN {"seen"} ELSE {}]

MCInitialCapabilities ==
    {Capability("writes", "reversible_write", {"done"}), Capability("reads", "read", {"done"})}

\* The write capability may be registered again with another class.
MCCapabilities == {Capability("writes", "irreversible_write", {"done"})}

Adapter(capability, kind, class, types) ==
    [adapterId |-> "adapter", capabilityId |-> capability, toolId |-> "tool",
     claimsAuthority |-> FALSE,
     certification |->
        [wellFormed |-> TRUE, adapterId |-> "adapter", adapterKind |-> kind,
         capabilityId |-> capability, toolId |-> "tool", sideEffectClass |-> class,
         receiptTypes |-> types,
         observationTypes |-> IF class = "read" THEN {"seen"} ELSE {},
         idempotency |-> IF class = "read" THEN "not_required" ELSE "required_for_writes",
         lifecycle |-> IF class = "read" THEN Null ELSE "governed"]]

MCInitialAdapters ==
    {Adapter("writes", "external_write", "reversible_write", {"done"}),
     Adapter("reads", "external_read", "read", {"done"})}

\* The first certifies a receipt type its capability does not declare; the others
\* cannot be registered.
MCAdapters ==
    {Adapter("writes", "external_write", "reversible_write", {"done", "undeclared"}),
     Adapter("writes", "external_read", "reversible_write", {"done"}),
     [Adapter("reads", "external_read", "read", {"done"}) EXCEPT !.certification = Null]}

\* Bound: either the capability or the adapter drifts, not both.
OneDrift ==
    \/ capabilities["writes"].sideEffectClass = "reversible_write"
    \/ adapters[<<"writes", "tool">>] \in MCInitialAdapters

Pending == [kind |-> "external_observation", hash |-> MCHash("s"), admissionStatus |-> "pending"]

Receipt(request, status) ==
    [wellFormed |-> TRUE, raw |-> FALSE, effectId |-> request.effectId, runId |-> request.runId,
     capabilityId |-> request.capabilityId, receiptType |-> "done", status |-> status,
     payload |-> status, payloadHash |-> MCHash(status),
     evidence |-> {[Pending EXCEPT !.kind = "effect_receipt"]}]

Seen(request) ==
    [wellFormed |-> TRUE, raw |-> FALSE, runId |-> request.runId, observationType |-> "seen",
     state |-> "s", payloadHash |-> MCHash("s"), observedAt |-> 1, expiresAt |-> 2,
     evidence |-> {Pending}]

Admitted(request) == [Seen(request) EXCEPT !.evidence = {[Pending EXCEPT !.admissionStatus = "accepted"]}]

Answer(receipt, observation) ==
    [throws |-> FALSE, wellFormed |-> TRUE, receipt |-> receipt, observation |-> observation]

\* Success; for a write an unknown outcome and a throw, for a read a
\* receipt of another effect, an observation that admits itself, and an observation
\* with a success and with a failure.
MCAnswersTo(request) ==
    {Answer(Receipt(request, "succeeded"), Null)}
    \cup (IF request.sideEffectClass = "read"
          THEN {Answer(Receipt(request, s), Seen(request)) : s \in {"succeeded", "failed"}}
               \cup {Answer(Receipt(request, "succeeded"), Admitted(request)),
                     Answer([Receipt(request, "succeeded")
                               EXCEPT !.effectId = <<"effect", "other">>], Null)}
          ELSE {Answer(Receipt(request, "unknown"), Null), [throws |-> TRUE]})
=============================================================================
