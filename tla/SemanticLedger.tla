--------------------------- MODULE SemanticLedger ---------------------------
(***************************************************************************)
(* What a SemanticLedger promises, as InMemorySemanticLedger keeps it      *)
(* (packages/ledger/src/semantic-ledger.ts): one append-only stream per    *)
(* run.  The adapters for files and for Postgres are checked against it.   *)
(*                                                                         *)
(* An append that throws changes nothing, so it is no step.                *)
(***************************************************************************)
EXTENDS LedgerContract, Integers

CONSTANTS RunIds, Events

VARIABLE streams

AppendAcceptedEvent(runId, e) ==
    /\ e.runId = runId
    /\ CanAppend(streams[runId], e)
    /\ streams' = [streams EXCEPT ![runId] = Append(@, e)]

Init == streams = [r \in RunIds |-> <<>>]

Next == \E r \in RunIds, e \in Events : AppendAcceptedEvent(r, e)

Spec == Init /\ [][Next]_streams

\* ------------------------------------------------------------------------
\* The variable is one stream of events per run.
TypeOK == streams \in [RunIds -> Seq(Events)]

\* What the append check lets in, the reader's check accepts: a run's stream can
\* always be read back (appendAcceptedEventSync against validateOrderedRunEvents).
StreamsReadBack == \A r \in RunIds : IsRunStream(streams[r], r)

\* Accepted history is never rewritten or shortened, whichever run an append is
\* for, and a step adds one event to one run.
AppendOnly ==
    [][ /\ \A r \in RunIds :
              /\ Len(streams'[r]) - Len(streams[r]) \in {0, 1}
              /\ \A i \in 1..Len(streams[r]) : streams'[r][i] = streams[r][i]
        /\ \A r, s \in RunIds :
              streams'[r] # streams[r] /\ streams'[s] # streams[s] => r = s ]_streams
=============================================================================
