------------------------- MODULE LedgerBackedKernel -------------------------
(***************************************************************************)
(* LedgerBackedRunKernel (packages/kernel/src/ledger-backed-run-kernel.ts) *)
(* composed with the run kernel it wraps and the stream of its run in a    *)
(* SemanticLedger.                                                         *)
(*                                                                         *)
(* Each method checks that the path is open, runs the kernel's synchronous *)
(* method and then awaits the sink once per event.  Several calls may be   *)
(* between two awaits at once, and a sink may serve their requests in any  *)
(* order, fail without appending, or append and lose the answer.           *)
(*                                                                         *)
(*   stored    the run's stream in the ledger                              *)
(*   pending   per caller, the events it still has to persist              *)
(*   applied   per caller, whether the first of them is in the ledger and  *)
(*             only the answer is missing                                  *)
(*   failed    #appendFailure is set                                       *)
(*   fate      history, per event of the kernel's log: its caller while    *)
(*             the call runs, "returned" or "thrown" once it has settled,  *)
(*             "unsent" when the kernel threw after it appended the event  *)
(*   inherited history: the length of the stream when the current kernel   *)
(*             was constructed                                             *)
(***************************************************************************)
EXTENDS RunKernel

CONSTANTS
    Callers,
    MaxRestarts          \* bound: kernels constructed after the first

\* A caller's name is not the name of an outcome.
ASSUME CallerNames == Callers \cap {"returned", "thrown", "unsent"} = {}

VARIABLES stored, pending, applied, failed, fate, inherited, restarts

sinkVars == <<stored, pending, applied, failed, fate>>
lbVars == <<vars, sinkVars, inherited, restarts>>

Ledger == INSTANCE LedgerContract

\* The event at a position of the kernel's log, as the ledger sees it.
LedgerEvent(events, i) ==
    [runId |-> RunId, id |-> events[i].id, sequence |-> i, cause |-> events[i].cause,
     intact |-> TRUE]

\* ------------------------------------------------------------------------
\* The kernel's part of a call

\* The method returned what it appended.  It threw after an append when a lone
\* event is malformed, or when a final candidate's events stop short of the
\* decision or of the release.
KernelReturned(events) ==
    LET last == events[Len(events)]
    IN  IF events[1].type = "ProposalReceived" /\ events[1].body.kind = "final_candidate"
        THEN \/ last.type = "FinalReleased"
             \/ last.type = "ReleaseDecided" /\ last.body.status # "released"
        ELSE last.wellFormed

\* assertLedgerBackedPathOpen and the kernel's method, up to the first await.
Call(c) ==
    /\ pending[c] = <<>>
    /\ ~failed
    /\ Next
    /\ LET new  == SubSeq(log', Len(log) + 1, Len(log'))
           sent == [i \in 1..Len(new) |-> LedgerEvent(log', Len(log) + i)]
       IN  IF KernelReturned(new)
           THEN /\ pending' = [pending EXCEPT ![c] = sent]
                /\ fate' = fate \o [i \in 1..Len(new) |-> c]
           ELSE /\ fate' = fate \o [i \in 1..Len(new) |-> "unsent"]
                /\ UNCHANGED pending
    /\ UNCHANGED <<stored, applied, failed, inherited, restarts>>

\* ------------------------------------------------------------------------
\* persistAcceptedEvents

Waiting(c) == pending[c] # <<>> /\ ~applied[c]

\* All events of a call share its fate, those already persisted too.
Settle(c, outcome) == fate' = [p \in DOMAIN fate |-> IF fate[p] = c THEN outcome ELSE fate[p]]

\* The sink appends the event; the caller has not been answered.
SinkAppends(c) ==
    /\ Waiting(c)
    /\ Ledger!CanAppend(stored, Head(pending[c]))
    /\ stored' = Append(stored, Head(pending[c]))
    /\ applied' = [applied EXCEPT ![c] = TRUE]
    /\ UNCHANGED <<vars, pending, failed, fate, inherited, restarts>>

\* Mutant: the error is swallowed.
AppendFails_Swallowed(c) ==
    /\ failed' = TRUE
    /\ pending' = [pending EXCEPT ![c] = <<>>]
    /\ applied' = [applied EXCEPT ![c] = FALSE]
    /\ Settle(c, "returned")
    /\ UNCHANGED <<vars, stored, inherited, restarts>>

\* Mutant: the kernel stays open after an error.
AppendFails_StaysOpen(c) ==
    /\ pending' = [pending EXCEPT ![c] = <<>>]
    /\ applied' = [applied EXCEPT ![c] = FALSE]
    /\ Settle(c, "thrown")
    /\ UNCHANGED <<vars, stored, failed, inherited, restarts>>

\* Mutant: the same append is tried again after an error.
AppendFails_Retries(c) ==
    /\ failed' = TRUE
    /\ applied' = [applied EXCEPT ![c] = FALSE]
    /\ UNCHANGED <<vars, stored, pending, fate, inherited, restarts>>

\* A rejected await poisons the kernel and throws.
AppendFails(c) ==
    /\ failed' = TRUE
    /\ pending' = [pending EXCEPT ![c] = <<>>]
    /\ applied' = [applied EXCEPT ![c] = FALSE]
    /\ Settle(c, "thrown")
    /\ UNCHANGED <<vars, stored, inherited, restarts>>

\* The ledger rejects the event.
SinkRejects(c) ==
    /\ Waiting(c)
    /\ ~Ledger!CanAppend(stored, Head(pending[c]))
    /\ AppendFails(c)

\* The ledger is unavailable and appends nothing.
SinkUnavailable(c) == Waiting(c) /\ AppendFails(c)

\* The append happened and its answer is an error.
AnswerLost(c) == applied[c] /\ AppendFails(c)

\* The await resolves: on to the next event, or return.  The loop does not look
\* at #appendFailure, which another call may have set meanwhile.
SinkAnswers(c) ==
    /\ applied[c]
    /\ applied' = [applied EXCEPT ![c] = FALSE]
    /\ pending' = [pending EXCEPT ![c] = Tail(@)]
    /\ IF Len(pending[c]) = 1 THEN Settle(c, "returned") ELSE UNCHANGED fate
    /\ UNCHANGED <<vars, stored, failed, inherited, restarts>>

\* ------------------------------------------------------------------------
\* The process dies with its calls in flight and a new one constructs a kernel
\* for the same run: an empty kernel over a stream that may have events.
Restart ==
    /\ restarts < MaxRestarts
    /\ restarts' = restarts + 1
    /\ log' = <<>>
    /\ kept' = [t \in KeptTypes |-> <<>>]
    /\ started' = Null
    /\ revision' = [r \in StateRefs |-> 0]
    /\ pending' = [c \in Callers |-> <<>>]
    /\ applied' = [c \in Callers |-> FALSE]
    /\ failed' = FALSE
    /\ fate' = <<>>
    /\ inherited' = Len(stored)
    /\ UNCHANGED stored

LBInit ==
    /\ Init
    /\ stored = <<>>
    /\ pending = [c \in Callers |-> <<>>]
    /\ applied = [c \in Callers |-> FALSE]
    /\ failed = FALSE
    /\ fate = <<>>
    /\ inherited = 0
    /\ restarts = 0

SinkSettles(c) ==
    \/ SinkAppends(c)
    \/ SinkRejects(c)
    \/ SinkUnavailable(c)
    \/ AnswerLost(c)
    \/ SinkAnswers(c)

LBNext ==
    \/ \E c \in Callers : Call(c) \/ SinkSettles(c)
    \/ Restart

LBSpec == LBInit /\ [][LBNext]_lbVars

\* Every promise of the sink settles, with whatever outcome.
FairSink == \A c \in Callers : WF_lbVars(SinkSettles(c))

LBFairSpec == LBSpec /\ FairSink

\* ------------------------------------------------------------------------
Idle(c) == pending[c] = <<>>

\* A kernel that found the stream empty and the stream itself never disagree: the
\* stream is a prefix of the kernel's log, whatever order concurrent calls reach
\* the sink in and whichever of them fail.
StreamMirrorsLog ==
    inherited = 0 =>
        /\ Len(stored) <= Len(log)
        /\ \A i \in DOMAIN stored : stored[i] = LedgerEvent(log, i)

\* A call that returned is durable: its own events are in the stream where the
\* kernel put them, and so is everything the kernel had accepted before them, the
\* evidence a release rests on included, back to the events that the stream held
\* when the kernel was constructed.  (Over an old stream the kernel's events at
\* those first places are refused while later ones may be stored, so a release may
\* be returned whose evidence never was.)
ReturnedIsDurable ==
    \A p \in DOMAIN fate : fate[p] = "returned" =>
        /\ inherited < p /\ p <= Len(stored)
        /\ \A q \in (inherited + 1)..p : stored[q] = LedgerEvent(log, q)

\* With no call running and no failure seen, what the kernel shows its readers is
\* in the stream, up to an event it never sent.
QuietMeansPersisted ==
    (\A c \in Callers : Idle(c)) /\ ~failed =>
        \A p \in DOMAIN log : p > Len(stored) => \E q \in 1..p : fate[q] = "unsent"

\* A kernel constructed over a stream that has events never reports success for a
\* call whose events take positions the stream already holds: that call is refused.
NoSuccessOverInherited ==
    \A p \in DOMAIN fate : p <= inherited => fate[p] # "returned"

\* A call that waits for the sink ends: persistAcceptedEvents neither stalls nor
\* repeats.
CallsSettle == \A c \in Callers : ~Idle(c) ~> Idle(c)

\* An event the kernel accepted but never sent leaves a gap that closes the kernel
\* as soon as a later call tries to persist something, unless the process dies
\* first.  (A kernel over an older stream may instead fill the gap's place there.)
GapCloses ==
    (inherited = 0 /\ \E p, q \in DOMAIN fate :
        p < q /\ fate[p] = "unsent" /\ fate[q] \in Callers)
        ~> failed \/ log = <<>>
=============================================================================
