--------------------------- MODULE PostgresLedger ---------------------------
(***************************************************************************)
(* PostgresSemanticLedger (packages/ledger-postgres/src/index.ts) over the *)
(* table of migrations/0001_run_events.sql.  An append is a conversation of*)
(* awaited statements: BEGIN, advisory lock, SELECT, INSERT, COMMIT, and   *)
(* ROLLBACK after an error.                                                *)
(*                                                                         *)
(* A client is one connection.  It sends its callers' statements one at a  *)
(* time in the order they were issued, and a transaction belongs to the    *)
(* connection, not to the call that began it.                              *)
(*                                                                         *)
(*   rows     the committed rows                                           *)
(*   tx       per client: "none", "open" or "aborted"                      *)
(*   staged   per client, the rows its open transaction inserted           *)
(*   lock     per run, the client whose transaction holds the run's lock   *)
(*   queue    per client, the callers whose statements wait for an answer  *)
(*   pc       per caller, the statement it waits for                       *)
(*   request  per caller, the runId and event of its call                  *)
(*   calls    per caller, how many calls it made                           *)
(*   acked    history, per event, how many calls returned it as appended   *)
(*   lost     the clients whose connection broke                           *)
(*                                                                         *)
(* The server is modelled as far as the statements need it: READ COMMITTED *)
(* snapshots, an error aborts the transaction, COMMIT of an aborted        *)
(* transaction answers without error and rolls back, and outside a         *)
(* transaction every statement commits by itself.  The row locks of SELECT *)
(* ... FOR UPDATE are left out: the run's advisory lock comes first.       *)
(***************************************************************************)
EXTENDS Integers, Sequences, FiniteSets

CONSTANTS
    Null,
    RunIds, Events,
    Requests,            \* the [runId, event] arguments callers pass
    AllowedTypes,        \* the types of amca_run_events_type_allowed
    Callers, Clients,
    ClientOf,            \* the client of each caller's ledger
    MaxCalls             \* bound: calls per caller

ASSUME CallersHaveClients == ClientOf \in [Callers -> Clients]
ASSUME NullIsNoClient == Null \notin Clients
ASSUME RequestShape == Requests \subseteq [runId : RunIds, event : Events]

VARIABLES rows, tx, staged, lock, queue, pc, request, calls, acked, lost

dbVars == <<rows, tx, staged, lock>>
pgVars == <<rows, tx, staged, lock, queue, pc, request, calls, acked, lost>>

Contract == INSTANCE LedgerContract

Event(c) == request[c].event

\* ORDER BY sequence ASC: the i-th row has i - 1 rows before it.
InOrder(set) ==
    [i \in 1..Cardinality(set) |->
        CHOOSE e \in set : Cardinality({f \in set : f.sequence < e.sequence}) = i - 1]

RowsOf(set, runId) == InOrder({e \in set : e.runId = runId})

\* ------------------------------------------------------------------------
\* Statements and answers

\* The caller's statement is the one its connection is serving.
Turn(c, statement) ==
    /\ pc[c] = statement
    /\ queue[ClientOf[c]] # <<>>
    /\ Head(queue[ClientOf[c]]) = c

\* The answer arrives and the caller issues its next statement.
GoOn(c, statement) ==
    /\ pc' = [pc EXCEPT ![c] = statement]
    /\ queue' = [queue EXCEPT ![ClientOf[c]] = Append(Tail(@), c)]
    /\ UNCHANGED <<request, calls, acked, lost>>

Return(c) ==
    /\ pc' = [pc EXCEPT ![c] = "idle"]
    /\ queue' = [queue EXCEPT ![ClientOf[c]] = Tail(@)]
    /\ acked' = [acked EXCEPT ![Event(c)] = @ + 1]
    /\ UNCHANGED <<request, calls, lost>>

Throw(c) ==
    /\ pc' = [pc EXCEPT ![c] = "idle"]
    /\ queue' = [queue EXCEPT ![ClientOf[c]] = Tail(@)]
    /\ UNCHANGED <<request, calls, acked, lost>>

\* Mutant: the caller commits after an error.
Fail_Commits(c) ==
    /\ tx' = [tx EXCEPT ![ClientOf[c]] = IF @ = "none" THEN "none" ELSE "aborted"]
    /\ GoOn(c, "commit")
    /\ UNCHANGED <<rows, staged, lock>>

\* An error answer: the transaction is aborted and the caller rolls back.
Fail(c) ==
    /\ tx' = [tx EXCEPT ![ClientOf[c]] = IF @ = "none" THEN "none" ELSE "aborted"]
    /\ GoOn(c, "rollback")
    /\ UNCHANGED <<rows, staged, lock>>

\* Mutant: the lock outlives the transaction (a session lock).
EndTransaction_KeepsLock(s, committed) ==
    /\ rows' = rows \cup committed
    /\ tx' = [tx EXCEPT ![s] = "none"]
    /\ staged' = [staged EXCEPT ![s] = {}]
    /\ UNCHANGED lock

\* The end of a client's transaction, which frees its locks.
EndTransaction(s, committed) ==
    /\ rows' = rows \cup committed
    /\ tx' = [tx EXCEPT ![s] = "none"]
    /\ staged' = [staged EXCEPT ![s] = {}]
    /\ lock' = [r \in RunIds |-> IF lock[r] = s THEN Null ELSE lock[r]]

Committed(s) == IF tx[s] = "open" THEN staged[s] ELSE {}

\* ------------------------------------------------------------------------
\* appendAcceptedEventToRun

Start(c, a) ==
    /\ pc[c] = "idle"
    /\ ClientOf[c] \notin lost
    /\ calls[c] < MaxCalls
    /\ calls' = [calls EXCEPT ![c] = @ + 1]
    /\ request' = [request EXCEPT ![c] = a]
    /\ pc' = [pc EXCEPT ![c] = "begin"]
    /\ queue' = [queue EXCEPT ![ClientOf[c]] = Append(@, c)]
    /\ UNCHANGED <<dbVars, acked, lost>>

\* BEGIN is outside the try block: when it fails nobody rolls back.  In an open
\* transaction it only warns.
Begin(c) ==
    /\ Turn(c, "begin")
    /\ IF tx[ClientOf[c]] = "aborted"
       THEN Throw(c) /\ UNCHANGED tx
       ELSE GoOn(c, "lock") /\ tx' = [tx EXCEPT ![ClientOf[c]] = "open"]
    /\ UNCHANGED <<rows, staged, lock>>

\* pg_advisory_xact_lock waits while another connection holds the lock.
Lock(c) ==
    /\ Turn(c, "lock")
    /\ LET s == ClientOf[c]
           r == request[c].runId
       IN  IF tx[s] = "aborted"
           THEN Fail(c)
           ELSE /\ lock[r] \in {Null, s}
                /\ lock' = [lock EXCEPT ![r] = IF tx[s] = "open" THEN s ELSE @]
                /\ GoOn(c, "select")
                /\ UNCHANGED <<rows, tx, staged>>

\* Mutant: an event that is already stored counts as appended.
Select_Idempotent(c) ==
    /\ Turn(c, "select")
    /\ LET r      == request[c].runId
           stream == RowsOf(rows \cup staged[ClientOf[c]], r)
       IN  GoOn(c, CASE Event(c) \in rows -> "commit"
                     [] Contract!CanAppend(stream, Event(c)) -> "insert"
                     [] OTHER -> "rollback")
    /\ UNCHANGED dbVars

\* Mutant: the table's constraints are relied on instead of the contract.
Select_Unchecked(c) ==
    /\ Turn(c, "select")
    /\ GoOn(c, "insert")
    /\ UNCHANGED dbVars

\* The rows are read and validated, and the event against them, before any other
\* statement is issued.
Select(c) ==
    /\ Turn(c, "select")
    /\ LET s      == ClientOf[c]
           r      == request[c].runId
           stream == RowsOf(rows \cup staged[s], r)
       IN  IF tx[s] = "aborted"
           THEN Fail(c)
           ELSE /\ GoOn(c, IF /\ Contract!IsRunStream(stream, r)
                             /\ Event(c).runId = r
                             /\ Contract!CanAppend(stream, Event(c))
                          THEN "insert" ELSE "rollback")
                /\ UNCHANGED dbVars

\* amca_run_events_pkey and amca_run_events_sequence_unique
Clashes(e, f) == e.runId = f.runId /\ (e.id = f.id \/ e.sequence = f.sequence)

\* A unique violation against a row of another open transaction waits for it.
Insert(c) ==
    /\ Turn(c, "insert")
    /\ LET s == ClientOf[c]
           e == Event(c)
       IN  /\ tx[s] # "aborted" =>
                 \A t \in Clients \ {s} : \A f \in staged[t] : ~Clashes(e, f)
           /\ IF \/ tx[s] = "aborted"
                 \/ \E f \in rows \cup staged[s] : Clashes(e, f)
                 \/ e.type \notin AllowedTypes
              THEN Fail(c)
              ELSE /\ IF tx[s] = "open"
                      THEN staged' = [staged EXCEPT ![s] = @ \cup {e}] /\ UNCHANGED rows
                      ELSE rows' = rows \cup {e} /\ UNCHANGED staged
                   /\ GoOn(c, "commit")
                   /\ UNCHANGED <<tx, lock>>

\* COMMIT answers without error whatever transaction it finds, or finds none.
Commit(c) ==
    /\ Turn(c, "commit")
    /\ EndTransaction(ClientOf[c], Committed(ClientOf[c]))
    /\ Return(c)

\* rollbackQuietly, then the first error is thrown.
Rollback(c) ==
    /\ Turn(c, "rollback")
    /\ EndTransaction(ClientOf[c], {})
    /\ Throw(c)

\* The connection breaks: the server rolls back, or has just committed and the
\* answer is lost.  Every waiting statement is rejected, the ROLLBACKs too.
Disconnect(s) ==
    /\ s \notin lost
    /\ lost' = lost \cup {s}
    /\ \/ EndTransaction(s, {})
       \/ /\ \E c \in Callers : ClientOf[c] = s /\ Turn(c, "commit")
          /\ EndTransaction(s, Committed(s))
    /\ pc' = [c \in Callers |-> IF ClientOf[c] = s THEN "idle" ELSE pc[c]]
    /\ queue' = [queue EXCEPT ![s] = <<>>]
    /\ UNCHANGED <<request, calls, acked>>

\* ------------------------------------------------------------------------
PGInit ==
    /\ rows = {}
    /\ tx = [s \in Clients |-> "none"]
    /\ staged = [s \in Clients |-> {}]
    /\ lock = [r \in RunIds |-> Null]
    /\ queue = [s \in Clients |-> <<>>]
    /\ pc = [c \in Callers |-> "idle"]
    /\ request = [c \in Callers |-> Null]
    /\ calls = [c \in Callers |-> 0]
    /\ acked = [e \in Events |-> 0]
    /\ lost = {}

Statement(c) ==
    Begin(c) \/ Lock(c) \/ Select(c) \/ Insert(c) \/ Commit(c) \/ Rollback(c)

PGNext ==
    \/ \E c \in Callers : Statement(c) \/ \E a \in Requests : Start(c, a)
    \/ \E s \in Clients : Disconnect(s)

PGSpec == PGInit /\ [][PGNext]_pgVars

\* The server answers every statement it can run.
PGFairSpec == PGSpec /\ \A c \in Callers : WF_pgVars(Statement(c))
=============================================================================
