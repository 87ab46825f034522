--------------------------- MODULE FilesystemRead ---------------------------
(***************************************************************************)
(* filesystem-read-adapter.ts: one path is resolved, looked at, opened and *)
(* read chunk by chunk, and the disk may change between any two of these.  *)
(*                                                                         *)
(*   world      the moments of the call so far, each a disk: whether the   *)
(*              root resolves, where the requested path leads ("nowhere":  *)
(*              it does not resolve although a file may be there, as when  *)
(*              a directory of it may not be searched, or links go round), *)
(*              and what is at each place: a content (its bytes by chunks),*)
(*              Missing, Directory, Special (a pipe, a socket, a device),  *)
(*              or for "inside" a Link to "outside"                        *)
(*   call.place what the requested path was resolved to                    *)
(*   call.file  the file opened: where it was, the moment since which it   *)
(*              is read, and its size then                                 *)
(*   call.read  the chunks read of it                                      *)
(*                                                                         *)
(* A request's path is "blank", "invalid" (absolute, a drive, .. or NUL),  *)
(* ".name", "..name" or "name".                                            *)
(***************************************************************************)
EXTENDS ToolCall

CONSTANTS
    Missing, Directory, Special, Link,
    Chunks, Contents,
    MaxBytes,           \* in chunks
    MaxDiskChanges      \* bound: the disk changes no more often in one call

ASSUME FilesAreChunks ==
    /\ Contents \subseteq Seq(Chunks) /\ MaxBytes \in Int
    /\ Contents \cap {Missing, Directory, Special, Link} = {}

Files == {Missing, Directory, Special} \cup Contents
Parts == [root |-> BOOLEAN, leadsTo |-> {"inside", "outside", "nowhere"},
          inside |-> Files \cup {Link}, outside |-> Files]
Disks == [root : Parts.root, leadsTo : Parts.leadsTo,
          inside : Parts.inside, outside : Parts.outside]

Disk == world[Len(world)]

\* Where a place's file is, links followed.
Location(disk, place) ==
    IF place = "outside" \/ disk.inside = Link THEN "outside" ELSE "inside"
ContentAt(disk, place) == disk[Location(disk, place)]

\* realpath: it finds something, and where, links followed.
Resolves(disk) == disk.leadsTo # "nowhere" /\ ContentAt(disk, disk.leadsTo) # Missing
Realpath(disk) == Location(disk, disk.leadsTo)

\* ------------------------------------------------------------------------

CreateFilesystemReadAdapter == Created("filesystem", TRUE)

\* receiptCandidateFor and failureReceiptCandidate
ReadReceipt(reason, content) ==
    [status |-> IF reason = Null THEN "succeeded" ELSE "failed",
     payload |-> [reason |-> reason, content |-> content]]

\* observationCandidateFor: observed when the call began, expiring a minute on.
FileObservation(content) ==
    IF call.options.observationType = Null THEN Null
    ELSE [content |-> content]

\* hasDotfileSegment; isWithinRoot takes any relative path that starts with two
\* dots for one that leaves the root.
HasDotfileSegment(path) == path \in {".name", "..name"}
LexicallyWithinRoot(path) == path # "..name"

\* The checks of execute before its first await.
PathRefusal(path) ==
    FirstError(<< <<path \notin {"blank", "invalid"}, "invalid_path">>,
                  <<call.options.allowDotfiles \/ ~HasDotfileSegment(path), "dotfile_not_allowed">> >>)

\* An await's continuation: leave with the first reason, or wait for the next step.
Proceed(c, reason, next) ==
    call' = IF reason # Null THEN Answer(c, ReadReceipt(reason, Null), Null)
            ELSE [c EXCEPT !.step = next]

Reads(step) ==
    /\ At("filesystem", step)
    /\ UNCHANGED world

ExecuteRead ==
    /\ Reads("idle")
    /\ Proceed(call, PathRefusal(call.request.path), "root")

RealpathRoot ==
    /\ Reads("root")
    /\ Proceed(call,
               FirstError(<< <<Disk.root, "read_error">>,
                             <<LexicallyWithinRoot(call.request.path), "outside_root">> >>),
               "target")

\* Mutant: where the path really leads is not compared with the root.
RealpathTarget_AnyPlace ==
    /\ Reads("target")
    /\ Proceed([call EXCEPT !.place = Realpath(Disk)],
               FirstError(<< <<Resolves(Disk), "not_found">> >>),
               "stat")

\* Whatever realpath fails with is "not_found".
RealpathTarget ==
    /\ Reads("target")
    /\ Proceed([call EXCEPT !.place = Realpath(Disk)],
               FirstError(<< <<Resolves(Disk), "not_found">>,
                             <<Realpath(Disk) = "inside", "outside_root">> >>),
               "stat")

\* stat may fail for other reasons than a missing file; whatever is no regular file
\* is a "directory".
StatTarget ==
    LET file == ContentAt(Disk, call.place)
    IN  /\ Reads("stat")
        /\ \/ Proceed(call,
                      FirstError(<< <<file # Missing, "read_error">>,
                                    <<file \in Contents, "directory_not_allowed">>,
                                    <<file \in Contents /\ Len(file) <= MaxBytes, "file_too_large">> >>),
                      "open")
           \/ Proceed(call, "read_error", "open")

\* readFile opens the file: it may not be there any more, or not to be read, or a
\* pipe or device may have taken its place.
OpenTarget ==
    LET location == Location(Disk, call.place)
        file == Disk[location]
    IN  /\ Reads("open")
        /\ \/ /\ file \in Contents
              /\ call' = [call EXCEPT !.step = "read", !.read = <<>>,
                              !.file = [at |-> location, since |-> Len(world), size |-> Len(file)]]
           \/ file = Special /\ call' = [call EXCEPT !.step = "waiting"]
           \/ call' = Answer(call, ReadReceipt("read_error", Null), Null)

\* A pipe gives what someone writes to it, should they ever.
SpecialGives ==
    /\ Reads("waiting")
    /\ \/ \E content \in Contents :
             call' = Answer(call, ReadReceipt(Null, content), FileObservation(content))
       \/ call' = Answer(call, ReadReceipt("read_error", Null), Null)

\* What the open file may hold by now: overwritten in place it has changed since;
\* replaced or removed it has not.
MomentsOfFile == {k \in call.file.since..Len(world) : world[k][call.file.at] \in Contents}

ReadChunk ==
    /\ Reads("read")
    /\ \E k \in MomentsOfFile :
          LET content == world[k][call.file.at]
          IN  /\ Len(call.read) < Len(content)
              /\ call' = [call EXCEPT !.read = Append(@, content[Len(@) + 1]), !.file.since = k]

\* The end of the file, or as much as its size was.
ReadTarget ==
    /\ Reads("read")
    /\ \/ \E k \in MomentsOfFile : Len(call.read) >= Len(world[k][call.file.at])
       \/ Len(call.read) = call.file.size
    /\ call' = Answer(call, ReadReceipt(Null, call.read), FileObservation(call.read))

ReadFails ==
    /\ Reads("read")
    /\ call' = Answer(call, ReadReceipt("read_error", Null), Null)

Awaits == {"root", "target", "stat", "open", "waiting", "read"}

DiskChanges ==
    /\ call.tool = "filesystem" /\ call.step \in Awaits
    /\ Len(world) <= MaxDiskChanges
    /\ \E part \in DOMAIN Parts : \E value \in Parts[part] \ {Disk[part]} :
          world' = Append(world, [Disk EXCEPT ![part] = value])
    /\ UNCHANGED call

FilesystemCall(options, request) ==
    Over(NewCall("filesystem", options, request), [place |-> Null, file |-> Null, read |-> <<>>])

FilesystemNext ==
    \/ CreateFilesystemReadAdapter
    \/ ExecuteRead \/ RealpathRoot \/ RealpathTarget \/ StatTarget
    \/ OpenTarget \/ SpecialGives \/ ReadChunk \/ ReadTarget \/ ReadFails
    \/ DiskChanges

FilesystemFairness ==
    WF_toolVars(\/ ExecuteRead \/ RealpathRoot \/ RealpathTarget \/ StatTarget
                \/ OpenTarget \/ ReadChunk \/ ReadTarget)

\* ------------------------------------------------------------------------

\* The path led into the root at some moment of the call and to a small enough file
\* no earlier, and later that place was opened.  Every part of what was read was in
\* the opened file at a moment since, and nothing that it held throughout is left
\* out; the whole need never have been there at once.  (What is read may be larger,
\* behind a link made since, or what a pipe gave that took the file's place: none of
\* this is looked at again.)
ReadReceiptIsTrue ==
    Succeeded =>
        LET read == call.receipt.payload.content
        IN  /\ call.observation # Null => call.observation.content = read
            /\ \E i, j, k \in DOMAIN world :
                  /\ i <= j /\ j <= k
                  /\ Realpath(world[i]) = "inside"
                  /\ ContentAt(world[j], "inside") \in {f \in Contents : Len(f) <= MaxBytes}
                  /\ \/ ContentAt(world[k], "inside") = Special
                     \/ LET at == Location(world[k], "inside")
                            after == {m \in k..Len(world) : world[m][at] \in Contents}
                        IN  /\ \A n \in DOMAIN read : \E m \in after :
                                  n <= Len(world[m][at]) /\ world[m][at][n] = read[n]
                            /\ \E m \in after : Len(world[m][at]) <= Len(read)

\* A failure reason was the case at some moment of the call, in the adapter's sense of
\* it: "not_found" that the path did not resolve, missing or not; "outside_root" that
\* it led out of the root, or looks so ("..name"); "directory_not_allowed" that what was
\* there was no regular file; "file_too_large" that it was too large.
ReadFailureWasSeen ==
    Failed =>
        LET reason == call.receipt.payload.reason
        IN  /\ reason = "not_found" => \E k \in DOMAIN world : ~Resolves(world[k])
            /\ reason = "outside_root" =>
                  \/ ~LexicallyWithinRoot(call.request.path)
                  \/ \E k \in DOMAIN world : Resolves(world[k]) /\ Realpath(world[k]) = "outside"
            /\ reason = "directory_not_allowed" =>
                  \E k \in DOMAIN world : ContentAt(world[k], "inside") \in {Directory, Special}
            /\ reason = "file_too_large" =>
                  \E k \in DOMAIN world, f \in Contents :
                      ContentAt(world[k], "inside") = f /\ Len(f) > MaxBytes
=============================================================================
