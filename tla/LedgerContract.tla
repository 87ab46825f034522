--------------------------- MODULE LedgerContract ---------------------------
(***************************************************************************)
(* The two validators of packages/ledger/src/semantic-ledger.ts that every *)
(* ledger adapter calls: the check of one append against the stream so far,*)
(* and the check of a whole stream read back.  An event is                 *)
(* [runId, id, sequence, cause, intact]; "intact" is whether its shape is  *)
(* valid and its payloadHash is the hash of its payload.                   *)
(***************************************************************************)
EXTENDS Naturals, Sequences

CONSTANT Null

IdsIn(stream) == {stream[i].id : i \in DOMAIN stream}

\* Mutant: events are taken in whatever order they come.
CanAppend_AnyOrder(stream, e) ==
    /\ e.intact
    /\ e.id \notin IdsIn(stream)
    /\ e.cause = Null \/ e.cause \in IdsIn(stream)

\* InMemorySemanticLedger.appendAcceptedEventSync
CanAppend(stream, e) ==
    /\ e.intact
    /\ e.id \notin IdsIn(stream)
    /\ e.sequence = Len(stream) + 1
    /\ e.cause = Null \/ e.cause \in IdsIn(stream)

\* validateOrderedRunEvents
IsRunStream(stream, runId) ==
    \A i \in DOMAIN stream :
        /\ stream[i].intact
        /\ stream[i].runId = runId
        /\ \A j \in 1..(i - 1) : stream[j].id # stream[i].id
        /\ stream[i].sequence = i
        /\ \/ stream[i].cause = Null
           \/ \E j \in 1..(i - 1) : stream[j].id = stream[i].cause
=============================================================================
