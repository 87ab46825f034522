-------------------------- MODULE MCPostgresLedger --------------------------
(***************************************************************************)
(* Callers race for the first places of one or two runs: three of them each*)
(* on a client of its own, or two on one client.                           *)
(***************************************************************************)
EXTENDS PostgresLedgerProperties, TLC

CONSTANTS r1, r2, a, b, c, c1, c2, c3, s1, s2, s3

RunEvent(r, id, n, cause) ==
    [runId |-> r, id |-> id, sequence |-> n, cause |-> cause, intact |-> TRUE,
     type |-> "RunStarted"]

First == RunEvent(r1, a, 1, Null)
Rival == RunEvent(r1, b, 1, Null)
Second == RunEvent(r1, c, 2, a)
Other == RunEvent(r2, a, 1, Null)
Mutation == [Second EXCEPT !.type = "MutationCommitted"]
Tampered == [Second EXCEPT !.intact = FALSE]

To(e) == [runId |-> e.runId, event |-> e]

\* Two rivals for one place, their successor, one of a type the table refuses,
\* one whose payload was altered, one for another run, and one for the wrong run.
MCEvents == {First, Rival, Second, Mutation, Other, Tampered}
MCRequests == {To(e) : e \in MCEvents} \cup {[runId |-> r2, event |-> First]}

MCSharedEvents == {First, Second, Other}
MCSharedRequests == {To(First), To(Second), To(Other)}

\* The types of the migration, of those above.
MCAllowedTypes == {"RunStarted"}

MCOwnClients == (c1 :> s1) @@ (c2 :> s2) @@ (c3 :> s3)
MCOneClient == (c1 :> s1) @@ (c2 :> s1)
=============================================================================
