----------------------- MODULE PostgresLedgerProperties ---------------------
(***************************************************************************)
(* What the Postgres adapter owes the SemanticLedger contract.             *)
(***************************************************************************)
EXTENDS PostgresLedger

\* The committed rows implement the abstract ledger: each commit appends one event
\* the contract accepts, or is no step of the ledger at all.
Abstract == INSTANCE SemanticLedger WITH streams <- [r \in RunIds |-> RowsOf(rows, r)]
ImplementsLedger == Abstract!Spec

\* An append that returned is stored: what a caller was told is appended can be
\* read back ever after, whatever other calls, errors or lost connections follow.
AckedIsStored == \A e \in Events : acked[e] > 0 => e \in rows

\* Of the calls that race for a place in a run at most one returns
\* ("one success and one deterministic conflict").
OneWinner ==
    \A r \in RunIds, n \in {e.sequence : e \in Events} :
        LET rivals == {e \in Events : e.runId = r /\ e.sequence = n}
        IN  /\ Cardinality({e \in rivals : acked[e] > 0}) <= 1
            /\ \A e \in rivals : acked[e] <= 1

\* Every call of the adapter ends: locks are freed, and nobody waits for ever.
AppendsSettle == \A c \in Callers : pc[c] # "idle" ~> pc[c] = "idle"
=============================================================================
