---------------------------- MODULE ToolAdapters ----------------------------
(***************************************************************************)
(* One call of one tool adapter: the shell, controlled compute, the        *)
(* filesystem reader, the HTTP reader or GitHub REST.  The adapters share  *)
(* nothing, so a behaviour picks one of them at the start.                 *)
(***************************************************************************)
EXTENDS ProcessTools, FilesystemRead, HttpObservation, GithubRest

CONSTANTS
    ProcessCases, FilesystemCases, HttpCases, GithubCases,
        \* the options and requests tried: sets of [tool, options, request]
    FirstDisks

\* What the code checks of options, or their types say: limits are natural numbers,
\* scopes a list; and a disk is one.
ASSUME ToolContracts ==
    /\ \A c \in ProcessCases : c.tool \in {"shell", "compute"}
    /\ \A c \in HttpCases : c.options.limitsValid =>
          c.options.maxRedirects \in Nat /\ c.options.maxResponseBytes \in Nat
    /\ \A c \in GithubCases : DOMAIN c.options.scopes \subseteq Nat
    /\ FirstDisks \subseteq Disks

ToolsInit ==
    \/ \E c \in ProcessCases :
          /\ call = ProcessCall(c.tool, c.options, c.request)
          /\ \E killable \in BOOLEAN : world = [NoProcess EXCEPT !.killable = killable]
    \/ \E c \in FilesystemCases, disk \in FirstDisks :
          call = FilesystemCall(c.options, c.request) /\ world = <<disk>>
    \/ \E c \in HttpCases : call = HttpCall(c.options, c.request) /\ world = Idling
    \/ \E c \in GithubCases : call = GithubCall(c.options, c.request) /\ world = NotAsked

ToolsNext == ProcessNext \/ FilesystemNext \/ HttpNext \/ GithubNext

ToolsSpec ==
    /\ ToolsInit /\ [][ToolsNext]_toolVars
    /\ ProcessFairness /\ FilesystemFairness /\ HttpFairness /\ GithubFairness

\* ------------------------------------------------------------------------

\* A receipt says what happened in the world, as far as the adapter can know: "succeeded"
\* of a process that ended by itself with 0 before its timer fired and, in the shell,
\* whose output was kept; of bytes that were in a file, or came from what took its place,
\* while the call ran; of a 2xx response read to its end; of a write that GitHub carried
\* out, or answered with a 3xx which the receipt shows.  The failure of a process or a
\* GitHub write is of what did not happen; a reason for not reading a file was the case,
\* as the adapter means it.  The receipt is the only thing the broker, the kernel and the
\* proof engine ever see.
ReceiptsTellTheTruth ==
    CASE call.tool \in {"shell", "compute"} -> ProcessReceiptIsTrue /\ ProcessSuccessNeedsAnExit
      [] call.tool = "filesystem" -> ReadReceiptIsTrue /\ ReadFailureWasSeen
      [] call.tool = "http" -> HttpReceiptIsTrue
      [] call.tool = "github" -> GithubReceiptIsTrue

\* Nothing is done in the world that the checks before it refuse: a refused request
\* starts no process and sends nothing, a redirect is followed only so often and
\* within an allowed origin, and what GitHub is sent one configured scope covers.
NothingRefusedIsDone ==
    CASE call.tool \in {"shell", "compute"} -> ProcessRefusalRanNothing
      [] call.tool = "http" -> HopsAreBounded
      [] call.tool = "github" -> GithubSendsInScope
      [] OTHER -> TRUE

\* The world keeps a call waiting: a descendant holds the process's pipes, a pipe
\* without a writer took the place of a file, GitHub does not answer or its body does
\* not end.  No timer ends these waits.
Excused ==
    CASE call.tool \in {"shell", "compute"} -> world.state = "exited" /\ world.holder
      [] call.tool = "filesystem" -> call.step = "waiting"
      [] call.tool = "github" -> \/ call.step = "fetching" /\ world.answer = Null
                                 \/ call.step = "reading" /\ world.body = "streaming"
      [] OTHER -> FALSE

\* Every call that was made ends, unless the world keeps it waiting for ever.
CallsEnd == []<>(Ended \/ call.step = "create" \/ Excused)
=============================================================================
