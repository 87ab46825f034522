---------------------------- MODULE LocalLedger -----------------------------
(***************************************************************************)
(* LocalJsonlSemanticLedger (packages/ledger-local/src/local-jsonl-ledger  *)
(* .ts): one events.jsonl per run.  An append reads and validates the file,*)
(* and only after further awaits adds a line to it, so that calls of one or*)
(* of several processes interleave between the two.                        *)
(*                                                                         *)
(*   files    per run: whether the file exists, its lines, and whether the *)
(*            last line lacks its newline; a line is an event or Garbage   *)
(*            (an event is LedgerContract's with one field more: "parses",  *)
(*            whether the parser that readers use, parseRunEvent, takes it;*)
(*            one whose occurredAt is no date has the right shape and hash *)
(*            and does not parse)                                          *)
(*   pc       per caller: "idle", "read" or "write"                        *)
(*   request  per caller, the runId and event of its call                  *)
(*   calls    per caller, how many calls it made                           *)
(*   acked    history, the events of the calls that returned               *)
(*   calm     history, per run: no two of its calls ever overlapped, and no*)
(*            interrupted write left part of a line                        *)
(***************************************************************************)
EXTENDS Naturals, Sequences, FiniteSets

CONSTANTS
    Null, Garbage,
    RunIds, Events,
    Requests,            \* the [runId, event] arguments callers pass
    Callers,
    MaxCalls,            \* bound: calls per caller
    Interruptions        \* what an interrupted write may leave behind

ASSUME GarbageIsNoEvent == Garbage \notin Events
ASSUME RequestShape == Requests \subseteq [runId : RunIds, event : Events]
ASSUME InterruptionKinds ==
    Interruptions \subseteq {"nothing", "empty file", "partial line", "no newline", "whole line"}

VARIABLES files, pc, request, calls, acked, calm

jsonlVars == <<files, pc, request, calls, acked, calm>>

Contract == INSTANCE LedgerContract

Missing == [exists |-> FALSE, lines |-> <<>>, unterminated |-> FALSE]

\* ------------------------------------------------------------------------
\* Reading

\* parseEventsJsonl, which parses every line, and validateOrderedRunEvents; a
\* missing file is no run, which an append takes as an empty one.
Parses(file, runId) ==
    /\ file.lines # <<>>
    /\ \A i \in DOMAIN file.lines : file.lines[i] # Garbage /\ file.lines[i].parses
    /\ Contract!IsRunStream(file.lines, runId)

\* ------------------------------------------------------------------------
\* Writing: appendFile adds text at the end, whatever is there by then.

\* Mutant: the file is overwritten.
WithText_Overwrites(file, text, terminated) ==
    [exists |-> TRUE, lines |-> <<text>>, unterminated |-> ~terminated]

WithText(file, text, terminated) ==
    [exists |-> TRUE,
     lines |-> IF file.unterminated
               THEN [file.lines EXCEPT ![Len(file.lines)] = Garbage]
               ELSE Append(file.lines, text),
     unterminated |-> ~terminated]

\* A write that stops short, because the disk is full or the process dies.
Remains(file, e, how) ==
    CASE how = "nothing"      -> file
      [] how = "empty file"   -> [file EXCEPT !.exists = TRUE]
      [] how = "partial line" -> WithText(file, Garbage, FALSE)
      [] how = "no newline"   -> WithText(file, e, FALSE)
      [] how = "whole line"   -> WithText(file, e, TRUE)

\* ------------------------------------------------------------------------
\* appendAcceptedEventToRun

Busy(runId) == \E c \in Callers : pc[c] # "idle" /\ request[c].runId = runId

Start(c, a) ==
    /\ pc[c] = "idle"
    /\ calls[c] < MaxCalls
    /\ pc' = [pc EXCEPT ![c] = "read"]
    /\ request' = [request EXCEPT ![c] = a]
    /\ calls' = [calls EXCEPT ![c] = @ + 1]
    /\ calm' = [calm EXCEPT ![a.runId] = @ /\ ~Busy(a.runId)]
    /\ UNCHANGED <<files, acked>>

\* Mutant: an event of another run is let in.
Read_AnyRun(c) ==
    /\ pc[c] = "read"
    /\ LET r == request[c].runId
           e == request[c].event
       IN  pc' = [pc EXCEPT ![c] =
                    IF /\ files[r].exists => Parses(files[r], r)
                       /\ Contract!CanAppend(files[r].lines, e)
                    THEN "write" ELSE "idle"]
    /\ UNCHANGED <<files, request, calls, acked, calm>>

\* The file is read, parsed and validated, and the event checked against it in
\* memory: its shape, its hash and its place, but it is not parsed.
Read(c) ==
    /\ pc[c] = "read"
    /\ LET r == request[c].runId
           e == request[c].event
       IN  pc' = [pc EXCEPT ![c] =
                    IF /\ files[r].exists => Parses(files[r], r)
                       /\ e.runId = r
                       /\ Contract!CanAppend(files[r].lines, e)
                    THEN "write" ELSE "idle"]
    /\ UNCHANGED <<files, request, calls, acked, calm>>

Write(c) ==
    /\ pc[c] = "write"
    /\ files' = [files EXCEPT ![request[c].runId] = WithText(@, request[c].event, TRUE)]
    /\ acked' = acked \cup {request[c].event}
    /\ pc' = [pc EXCEPT ![c] = "idle"]
    /\ UNCHANGED <<request, calls, calm>>

\* The call ends without an answer: a file operation fails, or the process dies
\* before, in or after the write.
Interrupted(c, how) ==
    /\ pc[c] = "write" \/ (pc[c] = "read" /\ how = "nothing")
    /\ files' = [files EXCEPT ![request[c].runId] = Remains(@, request[c].event, how)]
    /\ calm' = [calm EXCEPT ![request[c].runId] = @ /\ how \notin {"partial line", "no newline"}]
    /\ pc' = [pc EXCEPT ![c] = "idle"]
    /\ UNCHANGED <<request, calls, acked>>

JsonlInit ==
    /\ files = [r \in RunIds |-> Missing]
    /\ pc = [c \in Callers |-> "idle"]
    /\ request = [c \in Callers |-> Null]
    /\ calls = [c \in Callers |-> 0]
    /\ acked = {}
    /\ calm = [r \in RunIds |-> TRUE]

JsonlNext ==
    \E c \in Callers :
        \/ \E a \in Requests : Start(c, a)
        \/ Read(c)
        \/ Write(c)
        \/ \E how \in Interruptions : Interrupted(c, how)

JsonlSpec == JsonlInit /\ [][JsonlNext]_jsonlVars

\* ------------------------------------------------------------------------
\* A read that succeeds shows every append that returned: a torn or doubly written
\* file is refused as a whole, whoever wrote it and whenever it was interrupted.
ReadsHideNothing ==
    \A r \in RunIds : Parses(files[r], r) =>
        \A e \in acked : e.runId = r => \E i \in DOMAIN files[r].lines : files[r].lines[i] = e

ReadsBack(e) ==
    /\ Parses(files[e.runId], e.runId)
    /\ \E i \in DOMAIN files[e.runId].lines : files[e.runId].lines[i] = e

\* What append returned can be read back, whatever else happens
\* (appendAcceptedEventToRun against readRunEvents).
AckedReadsBack == \A e \in acked : ReadsBack(e)

\* As long as calls for a run come one after another, from whichever caller, and
\* interrupted writes leave all of a line or nothing, what append returned for it
\* can be read back exactly when every event it appended parses, whatever happens
\* to other runs: one that does not parse is let in by the checks of append and
\* makes the whole run unreadable.
CalmRunsReadBack ==
    \A e \in acked : calm[e.runId] =>
        LET lines == files[e.runId].lines
        IN  ReadsBack(e) <=> \A i \in DOMAIN lines : lines[i].parses

\* Such a run is an abstract ledger's stream: its file changes only by one event
\* that the contract accepts after the lines already there.
Abstract == INSTANCE SemanticLedger WITH streams <- [r \in RunIds |-> files[r].lines]
CalmRunsImplementLedger ==
    [][ \A r \in RunIds : calm'[r] /\ files'[r].lines # files[r].lines =>
            \E e \in Events : Abstract!AppendAcceptedEvent(r, e) ]_jsonlVars
=============================================================================
