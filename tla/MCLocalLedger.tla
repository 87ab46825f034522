--------------------------- MODULE MCLocalLedger ----------------------------
(***************************************************************************)
(* Callers that race for the places of one run or work on two.             *)
(***************************************************************************)
EXTENDS LocalLedger

CONSTANTS r1, r2, a, b, c, c1, c2

RunEvent(r, id, n, cause) ==
    [runId |-> r, id |-> id, sequence |-> n, cause |-> cause, intact |-> TRUE, parses |-> TRUE]

ParsedEvents ==
    {RunEvent(r1, a, 1, Null), RunEvent(r1, b, 1, Null), RunEvent(r1, c, 2, a),
     RunEvent(r1, b, 3, c), RunEvent(r2, a, 1, Null),
     [RunEvent(r1, c, 2, a) EXCEPT !.intact = FALSE]}

MCEvents == ParsedEvents \cup {[RunEvent(r1, c, 2, a) EXCEPT !.parses = FALSE]}

RequestsFor(events) ==
    {[runId |-> e.runId, event |-> e] : e \in events}
        \cup {[runId |-> r2, event |-> RunEvent(r1, a, 1, Null)]}

MCRequests == RequestsFor(MCEvents)
ParsedRequests == RequestsFor(ParsedEvents)
=============================================================================
