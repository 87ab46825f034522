---------------------------- MODULE ProcessTools ----------------------------
(***************************************************************************)
(* shell-command-adapter.ts and controlled-compute-adapter.ts: a request   *)
(* names a configured profile, its executable is spawned with two pipes, a *)
(* timer and an output limit, and the call ends with the process's "close" *)
(* or "error" event.                                                       *)
(*                                                                         *)
(*   call.kept, .truncated   per stream, the bytes kept of it and whether  *)
(*                           some were dropped (boundedOutput)             *)
(*   call.timedOut, .limited timedOut and outputLimitExceeded              *)
(*   world   the process: state, exitCode, signal, whether it was sent     *)
(*           SIGKILL, may be signalled ("killable"), left a descendant     *)
(*           holding the pipes ("holder"), and per stream the bytes written*)
(*           to and read from the pipe                                     *)
(*                                                                         *)
(* A profile's cwd is Null or [absolute, within, target, targetWithin]:    *)
(* whether the path and what it resolves to lie in the root.               *)
(***************************************************************************)
EXTENDS ToolCall, FiniteSetsExt

CONSTANTS
    MaxOutputBytes,
    MaxWritten      \* bound: a process writes no more to a stream than this

ASSUME OutputLimit == MaxOutputBytes \in Nat

Streams == {"stdout", "stderr"}
OnNoStream(value) == [s \in Streams |-> value]

\* ------------------------------------------------------------------------
\* Creation

\* validateShellCertification
CertificationIsSupported(options) ==
    options.sideEffectClass \in
        CASE options.adapterKind = "controlled_compute" -> {"compute"}
          [] options.adapterKind \in {"local_readonly", "external_read"} -> {"read"}
          [] options.adapterKind = "external_write" ->
                {"idempotent_write", "reversible_write", "irreversible_write"}
          [] OTHER -> {}

\* validateProfileClass and assertProfileClassMatchesCertification, for a
\* supported certification
CertifiedClasses(adapterKind) ==
    CASE adapterKind = "controlled_compute" -> {"read_only_compute"}
      [] adapterKind = "local_readonly" -> {"filesystem_read"}
      [] adapterKind = "external_read" -> {"network_read"}
      [] OTHER -> {"filesystem_write", "network_write"}

\* validateRootDir: an absolute path that resolves to a directory.
RootIsValid(root) == root.absolute /\ root.target = "directory"

\* assertAllowedProfileArg: one flag of each kind it refuses
InteractiveOrDangerous == {"--interactive", "--inspect", "--require", "--allow-child-process", "--listen"}
ArgIsAllowed(arg) == arg \notin InteractiveOrDangerous

\* validateProfileCwd
CwdIsValid(cwd) ==
    cwd # Null => /\ cwd.absolute /\ cwd.within
                  /\ cwd.target = "directory" /\ cwd.targetWithin

\* validateProfile
ProfileIsValid(profile, options) ==
    /\ profile.profileId # Null
    /\ profile.keysKnown
    /\ profile.profileClass \in CertifiedClasses(options.adapterKind)
    /\ profile.absolute
    /\ \A arg \in profile.args : ArgIsAllowed(arg)
    /\ CwdIsValid(profile.cwd)
    /\ profile.limitsPositive

\* createShellCommandAdapter
CreateShellCommandAdapter ==
    LET options == call.options
        profiles == options.profiles
    IN  Created("shell",
            /\ RootIsValid(options.rootDir)
            /\ CertificationIsSupported(options)
            /\ \A i \in DOMAIN profiles :
                  /\ ProfileIsValid(profiles[i], options)
                  /\ \A j \in 1..(i - 1) : profiles[j].profileId # profiles[i].profileId)

\* createControlledComputeAdapter: nothing is checked.
CreateControlledComputeAdapter == Created("compute", TRUE)

\* The profiles of this id: the shell's ids are unique, compute's Map keeps the
\* last of them.
ProfilesFor(profileId) ==
    LET profiles == call.options.profiles
        places == {i \in DOMAIN profiles : profiles[i].profileId = profileId}
    IN  IF places = {} THEN {} ELSE {profiles[Max(places)]}

\* ------------------------------------------------------------------------
\* Receipts

\* receiptCandidateFor: result "succeeded" in the shell is "passed" in compute.
ProcessReceipt(succeeded, reason, ending) ==
    [status |-> IF succeeded THEN "succeeded" ELSE "failed",
     payload |-> [reason |-> reason, ending |-> ending]]

\* failedPayload
NothingRan == [exitCode |-> Null, signal |-> Null, timedOut |-> FALSE,
               truncated |-> FALSE, kept |-> OnNoStream(0)]

\* What executeProfile resolves with.
EndingOf(c, exitCode, signal, timedOut) ==
    [exitCode |-> exitCode, signal |-> signal, timedOut |-> timedOut,
     truncated |-> \E s \in Streams : c.truncated[s], kept |-> c.kept]

\* Mutant: a process that exited with 0 succeeded, whatever became of its output.
ShellOutcome_ExitCodeOnly(ending, error) ==
    ProcessReceipt(ending.exitCode = 0, Null, ending)

\* The shell's execute, once executeProfile has resolved.
ShellOutcome(ending, error) ==
    LET succeeded == /\ ending.exitCode = 0 /\ ending.signal = Null
                     /\ ~ending.timedOut /\ ~ending.truncated /\ ~error
        reason == IF error THEN "execution_error"
                  ELSE IF ending.timedOut THEN "timed_out"
                  ELSE IF ending.truncated THEN "output_limit_exceeded"
                  ELSE Null
    IN  ProcessReceipt(succeeded, reason, ending)

\* Compute's: what was dropped of the output does not fail the test suite.
ComputeOutcome(ending) ==
    ProcessReceipt(ending.exitCode = 0 /\ ~ending.timedOut,
                   IF ending.timedOut THEN "timed_out" ELSE Null, ending)

Outcome(c, ending, error) ==
    Answer(c, IF c.tool = "shell" THEN ShellOutcome(ending, error) ELSE ComputeOutcome(ending), Null)

\* child.on("error")
ErrorEvent(c) == Outcome(c, EndingOf(c, Null, Null, FALSE), TRUE)

\* child.on("close")
CloseEvent(c) == Outcome(c, EndingOf(c, world.exitCode, world.signal, c.timedOut), FALSE)

\* ------------------------------------------------------------------------
\* Execution

\* parseRequestArgs, sanitizedProfileEnv and the checks of execute.  The cwd was
\* resolved at creation and is not looked at on disk again.
ShellRefusal(request) ==
    FirstError(<<
        <<request.keys \subseteq {"profileId"}, "forbidden_request_field">>,
        <<request.profileId # Null, "invalid_profile">>,
        <<ProfilesFor(request.profileId) # {}, "profile_not_found">>,
        <<\A p \in ProfilesFor(request.profileId) : p.env # "secret", "forbidden_profile_env">> >>)

ForbiddenOverrides == {"command", "args", "cwd", "shell"}

ComputeRefusal(request) ==
    FirstError(<<
        <<request.profileId # Null /\ ProfilesFor(request.profileId) # {}, "profile_not_found">>,
        <<request.keys \cap ForbiddenOverrides = {}, "forbidden_request_override">> >>)

\* executeProfile up to the events it waits for: spawn starts a process, or its
\* "error" event is to come.
Spawn ==
    /\ call' = [call EXCEPT !.step = "running"]
    /\ \E state \in {"running", "unstarted"} : world' = [world EXCEPT !.state = state]

\* execute up to spawn
ExecuteProfile ==
    /\ call.tool \in {"shell", "compute"} /\ call.step = "idle"
    /\ LET refusal == IF call.tool = "shell" THEN ShellRefusal(call.request)
                      ELSE ComputeRefusal(call.request)
       IN  \/ /\ refusal # Null
              /\ call' = Answer(call, ProcessReceipt(FALSE, refusal, NothingRan), Null)
              /\ UNCHANGED world
           \/ refusal = Null /\ Spawn

Running == call.tool \in {"shell", "compute"} /\ call.step = "running"

\* child.kill: an "error" event when the signal cannot be sent, nothing when the
\* process has already exited.
Kill(c) ==
    IF world.state # "running" THEN call' = c /\ UNCHANGED world
    ELSE IF world.killable THEN call' = c /\ world' = [world EXCEPT !.killed = TRUE]
    ELSE call' = ErrorEvent(c) /\ UNCHANGED world

\* setTimeout's callback; the timer is cleared when the call settles.
TimerFires ==
    /\ Running /\ ~call.timedOut
    /\ world.state # "unstarted"
    /\ Kill([call EXCEPT !.timedOut = TRUE])

\* boundedOutput's append: no more than MaxOutputBytes of a stream are kept.
Kept(c, s, bytes) ==
    [c EXCEPT !.kept[s] = Min({@ + bytes, MaxOutputBytes}),
              !.truncated[s] = @ \/ c.kept[s] + bytes > MaxOutputBytes]

\* A "data" event: the shell kills the process at the first byte too many.
DataArrives(s) ==
    /\ Running
    /\ \E bytes \in 1..(world.written[s] - world.read[s]) :
          LET appended == Kept(call, s, bytes)
              limited == call.tool = "shell" /\ ~call.limited
                            /\ \E t \in Streams : appended.truncated[t]
              after == [appended EXCEPT !.limited = @ \/ limited]
              read == [world EXCEPT !.read[s] = @ + bytes]
          IN  IF ~limited \/ world.state # "running"
              THEN call' = after /\ world' = read
              ELSE IF world.killable
              THEN call' = after /\ world' = [read EXCEPT !.killed = TRUE]
              ELSE call' = ErrorEvent(after) /\ world' = read

\* "error" after a failed spawn
SpawnFails ==
    /\ Running /\ world.state = "unstarted"
    /\ call' = ErrorEvent(call)
    /\ UNCHANGED world

\* "close" comes when the process has exited and both pipes are at their end.
Close ==
    /\ Running /\ world.state = "exited" /\ ~world.holder
    /\ world.read = world.written
    /\ call' = CloseEvent(call)
    /\ UNCHANGED world

\* ------------------------------------------------------------------------
\* The process

NoProcess == [state |-> "none", exitCode |-> Null, signal |-> Null, killed |-> FALSE,
              killable |-> TRUE, holder |-> FALSE,
              written |-> OnNoStream(0), read |-> OnNoStream(0)]

ProcessWrites(s) ==
    /\ Running
    /\ world.state = "running" \/ world.holder
    /\ world.written[s] < MaxWritten
    /\ world' = [world EXCEPT !.written[s] = @ + 1]
    /\ UNCHANGED call

\* It exits by itself or, once sent, by SIGKILL; a descendant may outlive it.
ProcessExits ==
    /\ Running /\ world.state = "running"
    /\ \E holder \in BOOLEAN, code \in {0, 1} :
          world' = [world EXCEPT !.state = "exited", !.exitCode = code, !.holder = holder]
    /\ UNCHANGED call

SignalLands ==
    /\ Running /\ world.state = "running" /\ world.killed
    /\ \E holder \in BOOLEAN :
          world' = [world EXCEPT !.state = "exited", !.signal = "SIGKILL", !.holder = holder]
    /\ UNCHANGED call

DescendantEnds ==
    /\ Running /\ world.holder
    /\ world' = [world EXCEPT !.holder = FALSE]
    /\ UNCHANGED call

ProcessCall(tool, options, request) ==
    Over(NewCall(tool, options, request),
         [kept |-> OnNoStream(0), truncated |-> OnNoStream(FALSE),
          timedOut |-> FALSE, limited |-> FALSE])

ProcessNext ==
    \/ CreateShellCommandAdapter
    \/ CreateControlledComputeAdapter
    \/ ExecuteProfile
    \/ TimerFires
    \/ \E s \in Streams : DataArrives(s) \/ ProcessWrites(s)
    \/ SpawnFails
    \/ Close
    \/ ProcessExits
    \/ SignalLands
    \/ DescendantEnds

\* Timers fire, signals land, events are delivered; nothing is assumed of the
\* process itself or of its descendants.
ProcessFairness ==
    /\ WF_toolVars(ExecuteProfile) /\ WF_toolVars(TimerFires)
    /\ WF_toolVars(\E s \in Streams : DataArrives(s))
    /\ WF_toolVars(SpawnFails) /\ WF_toolVars(Close) /\ WF_toolVars(SignalLands)

\* ------------------------------------------------------------------------
\* What the receipts mean

\* A receipt says "succeeded" exactly when the process ended by itself with 0
\* before the timer fired, and in the shell when all it wrote was kept; compute
\* says when it kept less than was written.
ProcessReceiptIsTrue ==
    (call.receipt # Null /\ world.state = "exited") =>
        LET all == \A s \in Streams : call.kept[s] = world.written[s]
            ended == world.exitCode = 0 /\ ~call.timedOut
        IN  call.receipt.payload.reason # "execution_error" =>
                IF call.tool = "shell" THEN Succeeded <=> ended /\ all
                ELSE (Succeeded <=> ended) /\ (call.receipt.payload.ending.truncated <=> ~all)

ProcessSuccessNeedsAnExit == Succeeded => world.state = "exited"

\* A refused request started no process.
ProcessRefusalRanNothing ==
    (Failed /\ call.receipt.payload.reason \notin
        {Null, "timed_out", "output_limit_exceeded", "execution_error"}) => world.state = "none"
=============================================================================
