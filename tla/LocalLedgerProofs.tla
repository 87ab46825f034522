-------------------------- MODULE LocalLedgerProofs --------------------------
(***************************************************************************)
(* Proofs about the JSONL ledger, for any callers, runs, events, number of *)
(* calls and interruptions.                                                *)
(***************************************************************************)
EXTENDS LocalLedger, TLAPS

Stream == INSTANCE SemanticLedgerProofs WITH streams <- [r \in RunIds |-> files[r].lines]

\* One checked append keeps a stream readable.
LEMMA AppendKeepsStream ==
    ASSUME NEW stream \in Seq(Events), NEW e \in Events, NEW runId,
           Contract!IsRunStream(stream, runId), e.runId = runId, Contract!CanAppend(stream, e)
    PROVE  Contract!IsRunStream(Append(stream, e), runId)
<1>1. Stream!IsRunStream(stream, runId) /\ Stream!CanAppend(stream, e)
  BY DEF Contract!IsRunStream, Contract!CanAppend, Contract!IdsIn,
         Stream!IsRunStream, Stream!CanAppend, Stream!IdsIn
<1>2. Stream!IsRunStream(Append(stream, e), runId)
  BY <1>1, Stream!AppendStaysReadable
<1> QED  BY <1>2 DEF Contract!IsRunStream, Stream!IsRunStream

\* ------------------------------------------------------------------------
\* The inductive invariant

Line == Events \cup {Garbage}

File == [exists : BOOLEAN, lines : Seq(Line), unterminated : BOOLEAN]

\* Only a last line can lack its newline.
IsFile(file) == file \in File /\ (file.unterminated => file.lines # <<>>)

FilesAreTyped ==
    files = [r \in RunIds |-> files[r]] /\ \A r \in RunIds : IsFile(files[r])

CallersAreTyped ==
    /\ pc \in [Callers -> {"idle", "read", "write"}]
    /\ request \in [Callers -> Requests \cup {Null}]
    /\ \A c \in Callers : pc[c] # "idle" => request[c] \in Requests
    /\ calm \in [RunIds -> BOOLEAN]
    /\ acked \subseteq Events

\* An event about to be written is of the run it is written to.
WritesAreOfTheRun ==
    \A c \in Callers : pc[c] = "write" => request[c].event.runId = request[c].runId

\* The file holds e on a line no later write can touch.
Holds(file, e) ==
    \E i \in DOMAIN file.lines :
        /\ file.lines[i] = e
        /\ i = Len(file.lines) => ~file.unterminated

Torn(file) == \E i \in DOMAIN file.lines : file.lines[i] = Garbage

\* What append returned stays in the file, or the file is torn for good.
AckedStay ==
    \A e \in acked :
        /\ e.runId \in RunIds
        /\ Torn(files[e.runId]) \/ Holds(files[e.runId], e)

\* The file of a calm run is a stream, its one busy caller's check of it still
\* stands, and it holds what append returned.
CalmRunsAreStreams ==
    \A r \in RunIds : calm[r] =>
        /\ ~files[r].unterminated
        /\ files[r].lines \in Seq(Events)
        /\ Contract!IsRunStream(files[r].lines, r)
        /\ \A c, d \in Callers :
              /\ pc[c] # "idle" /\ request[c].runId = r
              /\ pc[d] # "idle" /\ request[d].runId = r
              => c = d
        /\ \A c \in Callers :
              pc[c] = "write" /\ request[c].runId = r =>
                 Contract!CanAppend(files[r].lines, request[c].event)

JsonlInv ==
    /\ FilesAreTyped /\ CallersAreTyped /\ WritesAreOfTheRun
    /\ AckedStay /\ CalmRunsAreStreams

\* ------------------------------------------------------------------------
\* What a write does to a file: what was torn stays torn, and what was held is
\* held or the file is torn now.
LEMMA WithTextKeeps ==
    ASSUME NEW file, IsFile(file), NEW text \in Line, NEW terminated \in BOOLEAN
    PROVE  LET new == WithText(file, text, terminated)
           IN  /\ IsFile(new)
               /\ Torn(file) => Torn(new)
               /\ \A e : Holds(file, e) => Torn(new) \/ Holds(new, e)
               /\ terminated => Torn(new) \/ Holds(new, text)
               /\ ~file.unterminated => /\ new.lines = Append(file.lines, text)
                                        /\ terminated => ~new.unterminated
<1> DEFINE new == WithText(file, text, terminated)
           n == Len(file.lines)
<1>1. /\ file.lines \in Seq(Line) /\ n \in Nat /\ DOMAIN file.lines = 1..n
      /\ file.unterminated => n # 0
  BY DEF IsFile, File
<1>2. new.unterminated = ~terminated /\ new.exists = TRUE
  BY DEF WithText
<1>3. CASE file.unterminated
  <2>1. /\ new.lines = [file.lines EXCEPT ![n] = Garbage]
        /\ new = [exists |-> TRUE, lines |-> [file.lines EXCEPT ![n] = Garbage],
                  unterminated |-> ~terminated]
    BY <1>3 DEF WithText
  <2>2. /\ new.lines \in Seq(Line) /\ Len(new.lines) = n /\ DOMAIN new.lines = 1..n
        /\ new.lines[n] = Garbage /\ n \in 1..n
    BY <1>1, <1>3, <2>1 DEF Line
  <2>3. Torn(new)
    BY <2>2 DEF Torn
  <2>4. new \in File /\ new.lines # <<>>
    BY <1>1, <1>3, <2>1, <2>2 DEF File
  <2> QED  BY <1>3, <2>3, <2>4 DEF IsFile
<1>4. CASE ~file.unterminated
  <2>1. /\ new.lines = Append(file.lines, text)
        /\ new = [exists |-> TRUE, lines |-> Append(file.lines, text), unterminated |-> ~terminated]
    BY <1>4 DEF WithText
  <2>2. /\ new.lines \in Seq(Line) /\ Len(new.lines) = n + 1 /\ DOMAIN new.lines = 1..(n + 1)
        /\ \A i \in 1..n : new.lines[i] = file.lines[i]
        /\ new.lines[n + 1] = text
    BY <1>1, <2>1
  <2>3. new \in File /\ new.lines # <<>>
    BY <1>1, <2>1, <2>2 DEF File
  <2>4. Torn(file) => Torn(new)
    BY <1>1, <2>2 DEF Torn
  <2>5. ASSUME NEW e, Holds(file, e) PROVE Holds(new, e)
    <3>1. PICK i \in 1..n : file.lines[i] = e
      BY <1>1, <2>5 DEF Holds
    <3>2. i \in 1..(n + 1) /\ i # n + 1 /\ new.lines[i] = e
      BY <1>1, <2>2, <3>1
    <3> QED  BY <2>2, <3>2 DEF Holds
  <2>6. terminated => Holds(new, text)
    <3>1. n + 1 \in 1..(n + 1)
      BY <1>1
    <3> QED  BY <1>2, <2>2, <3>1 DEF Holds
  <2> QED  BY <1>2, <1>4, <2>1, <2>3, <2>4, <2>5, <2>6 DEF IsFile
<1> QED  BY <1>3, <1>4

\* The same of whatever a write leaves behind that stops short.
LEMMA RemainsKeeps ==
    ASSUME NEW file, IsFile(file), NEW e \in Events, NEW how \in Interruptions
    PROVE  LET new == Remains(file, e, how)
           IN  /\ IsFile(new)
               /\ Torn(file) => Torn(new)
               /\ \A x : Holds(file, x) => Torn(new) \/ Holds(new, x)
               /\ ~file.unterminated /\ how \notin {"partial line", "no newline"} =>
                     /\ ~new.unterminated
                     /\ \/ new.lines = file.lines
                        \/ new.lines = Append(file.lines, e)
<1>1. e \in Line /\ Garbage \in Line /\ TRUE \in BOOLEAN /\ FALSE \in BOOLEAN
  BY DEF Line
<1>2. CASE how = "nothing"
  BY <1>2 DEF Remains
<1>3. CASE how = "empty file"
  <2> DEFINE new == [file EXCEPT !.exists = TRUE]
  <2>1. Remains(file, e, how) = new
    BY <1>3 DEF Remains
  <2>2. new \in File /\ new.lines = file.lines /\ new.unterminated = file.unterminated
    BY DEF IsFile, File
  <2> HIDE DEF new
  <2> QED  BY <2>1, <2>2 DEF IsFile, Torn, Holds
<1>4. CASE how = "partial line"
  BY <1>1, <1>4, WithTextKeeps DEF Remains
<1>5. CASE how = "no newline"
  BY <1>1, <1>5, WithTextKeeps DEF Remains
<1>6. CASE how = "whole line"
  BY <1>1, <1>6, WithTextKeeps DEF Remains
<1> QED  BY <1>2, <1>3, <1>4, <1>5, <1>6, InterruptionKinds

\* ------------------------------------------------------------------------
\* The steps

\* e goes to the end of a calm run's file, and the contract lets it.
Appends(r, e) ==
    /\ e \in Events /\ e.runId = r
    /\ Contract!CanAppend(files[r].lines, e)
    /\ files' = [files EXCEPT ![r] = files'[r]]
    /\ files'[r].lines = Append(files[r].lines, e)

CalmStepsAppend ==
    \A r \in RunIds : calm'[r] /\ files'[r].lines # files[r].lines => \E e \in Events : Appends(r, e)

\* The end of a call, whatever it leaves in the file.
LEMMA EndKeeps ==
    ASSUME JsonlInv, NEW c \in Callers, pc[c] # "idle", NEW new, IsFile(new),
           LET r == request[c].runId
               e == request[c].event
           IN  /\ Torn(files[r]) => Torn(new)
               /\ \A x : Holds(files[r], x) => Torn(new) \/ Holds(new, x)
               /\ files' = [files EXCEPT ![r] = new]
               /\ pc' = [pc EXCEPT ![c] = "idle"]
               /\ request' = request
               /\ \/ acked' = acked
                  \/ /\ acked' = acked \cup {e}
                     /\ pc[c] = "write"
                     /\ Torn(new) \/ Holds(new, e)
               /\ calm' \in [RunIds -> BOOLEAN]
               /\ \A q \in RunIds : calm'[q] => calm[q]
               /\ calm'[r] => /\ ~files[r].unterminated => ~new.unterminated
                              /\ \/ ~files[r].unterminated => new.lines = files[r].lines
                                 \/ /\ pc[c] = "write"
                                    /\ ~files[r].unterminated =>
                                          new.lines = Append(files[r].lines, e)
    PROVE  JsonlInv' /\ CalmStepsAppend
<1> DEFINE r == request[c].runId
           e == request[c].event
<1>1. /\ request[c] \in Requests /\ r \in RunIds /\ e \in Events
      /\ pc[c] = "write" => e.runId = r
  BY RequestShape DEF JsonlInv, CallersAreTyped, WritesAreOfTheRun
<1>2. /\ files'[r] = new
      /\ \A q \in RunIds : q # r => files'[q] = files[q]
      /\ files' = [q \in RunIds |-> files'[q]]
  BY <1>1 DEF JsonlInv, FilesAreTyped
<1>3. /\ pc'[c] = "idle"
      /\ \A d \in Callers : d # c => pc'[d] = pc[d]
      /\ pc' \in [Callers -> {"idle", "read", "write"}]
  BY DEF JsonlInv, CallersAreTyped
<1>4. \A q \in RunIds : calm'[q] => calm[q]
  OBVIOUS
<1>5. request' = request
  OBVIOUS
<1>6. calm'[r] => /\ ~files[r].unterminated => ~new.unterminated
                  /\ \/ ~files[r].unterminated => new.lines = files[r].lines
                     \/ /\ pc[c] = "write"
                        /\ ~files[r].unterminated => new.lines = Append(files[r].lines, e)
  OBVIOUS
<1>7. FilesAreTyped'
  BY <1>2 DEF JsonlInv, FilesAreTyped
<1>8. CallersAreTyped'
  BY <1>1, <1>3, <1>5 DEF JsonlInv, CallersAreTyped
<1>9. WritesAreOfTheRun'
  BY <1>3, <1>5 DEF JsonlInv, WritesAreOfTheRun
<1>10. AckedStay'
  <2> SUFFICES ASSUME NEW x \in acked'
               PROVE  /\ x.runId \in RunIds
                      /\ Torn(files'[x.runId]) \/ Holds(files'[x.runId], x)
    BY DEF AckedStay
  <2> DEFINE q == x.runId
  <2>1. CASE x \in acked
    <3>1. q \in RunIds /\ (Torn(files[q]) \/ Holds(files[q], x))
      BY <2>1 DEF JsonlInv, AckedStay
    <3>2. CASE q # r
      BY <1>2, <3>1, <3>2
    <3>3. CASE q = r
      BY <1>2, <3>1, <3>3
    <3> QED  BY <3>2, <3>3
  <2>2. CASE x \notin acked
    BY <1>1, <1>2, <2>2
  <2> QED  BY <2>1, <2>2
<1> HIDE DEF r, e
<1>11. ASSUME calm'[r]
       PROVE  /\ calm[r] /\ ~files[r].unterminated /\ ~new.unterminated
              /\ \/ new.lines = files[r].lines
                 \/ /\ pc[c] = "write"
                    /\ new.lines = Append(files[r].lines, e)
                    /\ Contract!CanAppend(files[r].lines, e)
              /\ new.lines \in Seq(Events)
              /\ Contract!IsRunStream(new.lines, r)
              /\ \A d \in Callers : pc'[d] # "idle" => request[d].runId # r
  <2>1. calm[r] /\ ~files[r].unterminated /\ ~new.unterminated
    BY <1>1, <1>4, <1>6, <1>11 DEF JsonlInv, CalmRunsAreStreams
  <2>2. /\ files[r].lines \in Seq(Events) /\ Contract!IsRunStream(files[r].lines, r)
        /\ pc[c] = "write" => Contract!CanAppend(files[r].lines, e)
        /\ \A d \in Callers : pc[d] # "idle" /\ request[d].runId = r => c = d
    BY <1>1, <2>1 DEF JsonlInv, CalmRunsAreStreams, r, e
  <2>3. \A d \in Callers : pc'[d] # "idle" => request[d].runId # r
    BY <1>3, <2>2
  <2>4. CASE new.lines = files[r].lines
    BY <2>1, <2>2, <2>3, <2>4
  <2>5. CASE pc[c] = "write" /\ new.lines = Append(files[r].lines, e)
    <3>1. Contract!IsRunStream(Append(files[r].lines, e), r)
      BY <1>1, <2>2, <2>5, AppendKeepsStream
    <3>2. Append(files[r].lines, e) \in Seq(Events)
      BY <1>1, <2>2
    <3> QED  BY <2>1, <2>2, <2>3, <2>5, <3>1, <3>2
  <2> QED  BY <1>6, <1>11, <2>1, <2>4, <2>5
<1>12. CalmRunsAreStreams'
  <2> SUFFICES ASSUME NEW q \in RunIds, calm'[q]
               PROVE  /\ ~files'[q].unterminated
                      /\ files'[q].lines \in Seq(Events)
                      /\ Contract!IsRunStream(files'[q].lines, q)
                      /\ \A x, d \in Callers :
                            /\ pc'[x] # "idle" /\ request[x].runId = q
                            /\ pc'[d] # "idle" /\ request[d].runId = q
                            => x = d
                      /\ \A d \in Callers :
                            pc'[d] = "write" /\ request[d].runId = q =>
                               Contract!CanAppend(files'[q].lines, request[d].event)
    BY <1>5 DEF CalmRunsAreStreams
  <2>1. CASE q = r
    BY <1>2, <1>11, <2>1
  <2>2. CASE q # r
    <3>1. files'[q] = files[q] /\ calm[q]
      BY <1>2, <1>4, <2>2
    <3> QED  BY <1>3, <3>1 DEF JsonlInv, CalmRunsAreStreams
  <2> QED  BY <2>1, <2>2
<1>13. CalmStepsAppend
  <2> SUFFICES ASSUME NEW q \in RunIds, calm'[q], files'[q].lines # files[q].lines
               PROVE  Appends(q, e)
    BY <1>1 DEF CalmStepsAppend
  <2>1. q = r
    BY <1>2
  <2>2. files' = [files EXCEPT ![r] = files'[r]]
    BY <1>2 DEF r
  <2> QED  BY <1>1, <1>2, <1>11, <2>1, <2>2 DEF Appends
<1> QED  BY <1>7, <1>8, <1>9, <1>10, <1>12, <1>13 DEF JsonlInv

\* A write keeps the invariant: it only adds to the end of the file.
LEMMA WriteKeeps ==
    ASSUME JsonlInv, NEW c \in Callers, Write(c)
    PROVE  JsonlInv' /\ CalmStepsAppend
<1> DEFINE r == request[c].runId
           e == request[c].event
           new == WithText(files[r], e, TRUE)
<1>1. pc[c] = "write" /\ r \in RunIds /\ e \in Line /\ IsFile(files[r])
  BY RequestShape DEF Write, JsonlInv, CallersAreTyped, FilesAreTyped, Line
<1>2. /\ IsFile(new)
      /\ Torn(files[r]) => Torn(new)
      /\ \A x : Holds(files[r], x) => Torn(new) \/ Holds(new, x)
      /\ Torn(new) \/ Holds(new, e)
      /\ ~files[r].unterminated => new.lines = Append(files[r].lines, e) /\ ~new.unterminated
  BY <1>1, WithTextKeeps
<1>3. /\ files' = [files EXCEPT ![r] = new]
      /\ pc' = [pc EXCEPT ![c] = "idle"]
      /\ request' = request /\ acked' = acked \cup {e} /\ calm' = calm
  BY DEF Write
<1>4. calm \in [RunIds -> BOOLEAN]
  BY DEF JsonlInv, CallersAreTyped
<1> HIDE DEF new
<1> QED  BY <1>1, <1>2, <1>3, <1>4, EndKeeps

\* A torn write keeps it too.
LEMMA InterruptedKeeps ==
    ASSUME JsonlInv, NEW c \in Callers, NEW how \in Interruptions, Interrupted(c, how)
    PROVE  JsonlInv' /\ CalmStepsAppend
<1> DEFINE r == request[c].runId
           e == request[c].event
           new == Remains(files[r], e, how)
<1>1. /\ pc[c] # "idle" /\ (pc[c] = "write" \/ how = "nothing")
      /\ r \in RunIds /\ e \in Events /\ IsFile(files[r])
  BY RequestShape DEF Interrupted, JsonlInv, CallersAreTyped, FilesAreTyped
<1>2. /\ IsFile(new)
      /\ Torn(files[r]) => Torn(new)
      /\ \A x : Holds(files[r], x) => Torn(new) \/ Holds(new, x)
      /\ ~files[r].unterminated /\ how \notin {"partial line", "no newline"} =>
            /\ ~new.unterminated
            /\ new.lines = files[r].lines \/ new.lines = Append(files[r].lines, e)
  BY <1>1, RemainsKeeps
<1>3. /\ files' = [files EXCEPT ![r] = new]
      /\ pc' = [pc EXCEPT ![c] = "idle"]
      /\ request' = request /\ acked' = acked
      /\ calm' = [calm EXCEPT ![r] = calm[r] /\ how \notin {"partial line", "no newline"}]
  BY DEF Interrupted
<1>4. /\ calm' \in [RunIds -> BOOLEAN]
      /\ \A q \in RunIds : calm'[q] => calm[q]
      /\ calm'[r] => how \notin {"partial line", "no newline"}
  BY <1>1, <1>3 DEF JsonlInv, CallersAreTyped
<1>5. how = "nothing" => new = files[r]
  BY DEF Remains
<1> HIDE DEF new
<1> QED  BY <1>1, <1>2, <1>3, <1>4, <1>5, EndKeeps

\* A step that changes no file and no caller's answer.
LEMMA StartKeeps ==
    ASSUME JsonlInv, NEW c \in Callers, NEW a \in Requests, Start(c, a)
    PROVE  JsonlInv'
<1>1. /\ pc[c] = "idle" /\ files' = files /\ acked' = acked
      /\ a.runId \in RunIds
  BY RequestShape DEF Start
<1>2. /\ pc'[c] = "read" /\ request'[c] = a
      /\ pc' \in [Callers -> {"idle", "read", "write"}]
      /\ request' \in [Callers -> Requests \cup {Null}]
      /\ \A d \in Callers : d # c => pc'[d] = pc[d] /\ request'[d] = request[d]
  BY DEF Start, JsonlInv, CallersAreTyped
<1>3. /\ calm' \in [RunIds -> BOOLEAN]
      /\ \A q \in RunIds : calm'[q] => calm[q]
      /\ calm'[a.runId] => ~Busy(a.runId)
  BY <1>1 DEF Start, JsonlInv, CallersAreTyped
<1>4. FilesAreTyped' /\ CallersAreTyped' /\ WritesAreOfTheRun' /\ AckedStay'
  BY <1>1, <1>2, <1>3
     DEF JsonlInv, FilesAreTyped, CallersAreTyped, WritesAreOfTheRun, AckedStay
<1>5. CalmRunsAreStreams'
  <2> SUFFICES ASSUME NEW q \in RunIds, calm'[q]
               PROVE  /\ ~files[q].unterminated
                      /\ files[q].lines \in Seq(Events)
                      /\ Contract!IsRunStream(files[q].lines, q)
                      /\ \A x, d \in Callers :
                            /\ pc'[x] # "idle" /\ request'[x].runId = q
                            /\ pc'[d] # "idle" /\ request'[d].runId = q
                            => x = d
                      /\ \A d \in Callers :
                            pc'[d] = "write" /\ request'[d].runId = q =>
                               Contract!CanAppend(files[q].lines, request'[d].event)
    BY <1>1 DEF CalmRunsAreStreams
  <2>1. calm[q] /\ (a.runId = q => ~Busy(q))
    BY <1>3
  <2>2. ASSUME NEW d \in Callers, d # c, pc'[d] # "idle", request'[d].runId = q
        PROVE  /\ pc'[d] = pc[d] /\ request'[d] = request[d]
               /\ a.runId # q
    BY <1>2, <2>1, <2>2 DEF Busy
  <2>3. /\ ~files[q].unterminated
        /\ files[q].lines \in Seq(Events)
        /\ Contract!IsRunStream(files[q].lines, q)
        /\ \A x, d \in Callers :
              /\ pc[x] # "idle" /\ request[x].runId = q
              /\ pc[d] # "idle" /\ request[d].runId = q
              => x = d
        /\ \A d \in Callers :
              pc[d] = "write" /\ request[d].runId = q =>
                 Contract!CanAppend(files[q].lines, request[d].event)
    BY <2>1 DEF JsonlInv, CalmRunsAreStreams
  <2>4. ASSUME NEW x \in Callers, NEW d \in Callers, pc'[x] # "idle", request'[x].runId = q,
               pc'[d] # "idle", request'[d].runId = q
        PROVE  x = d
    BY <1>2, <2>2, <2>3, <2>4
  <2>5. ASSUME NEW d \in Callers, pc'[d] = "write", request'[d].runId = q
        PROVE  Contract!CanAppend(files[q].lines, request'[d].event)
    BY <1>2, <2>2, <2>3, <2>5
  <2> QED  BY <2>3, <2>4, <2>5
<1> QED  BY <1>4, <1>5 DEF JsonlInv

\* A read keeps the invariant: it leaves the file alone.
LEMMA ReadKeeps ==
    ASSUME JsonlInv, NEW c \in Callers, Read(c)
    PROVE  JsonlInv'
<1> DEFINE r == request[c].runId
           e == request[c].event
<1>1. /\ pc[c] = "read" /\ UNCHANGED <<files, request, acked, calm>>
      /\ r \in RunIds
  BY RequestShape DEF Read, JsonlInv, CallersAreTyped
<1>2. /\ pc'[c] \in {"write", "idle"}
      /\ pc' \in [Callers -> {"idle", "read", "write"}]
      /\ \A d \in Callers : d # c => pc'[d] = pc[d]
  BY DEF Read, JsonlInv, CallersAreTyped
<1>3. pc'[c] = "write" => e.runId = r /\ Contract!CanAppend(files[r].lines, e)
  BY DEF Read, JsonlInv, CallersAreTyped
<1> HIDE DEF r, e
<1>4. FilesAreTyped' /\ CallersAreTyped' /\ WritesAreOfTheRun' /\ AckedStay'
  BY <1>1, <1>2, <1>3
     DEF JsonlInv, FilesAreTyped, CallersAreTyped, WritesAreOfTheRun, AckedStay, r, e
<1>5. CalmRunsAreStreams'
  <2> SUFFICES ASSUME NEW q \in RunIds, calm[q]
               PROVE  /\ ~files[q].unterminated
                      /\ files[q].lines \in Seq(Events)
                      /\ Contract!IsRunStream(files[q].lines, q)
                      /\ \A x, d \in Callers :
                            /\ pc'[x] # "idle" /\ request[x].runId = q
                            /\ pc'[d] # "idle" /\ request[d].runId = q
                            => x = d
                      /\ \A d \in Callers :
                            pc'[d] = "write" /\ request[d].runId = q =>
                               Contract!CanAppend(files[q].lines, request[d].event)
    BY <1>1 DEF CalmRunsAreStreams
  <2>1. \A d \in Callers : pc'[d] # "idle" => pc[d] # "idle"
    BY <1>1, <1>2
  <2>2. \A d \in Callers : pc'[d] = "write" /\ request[d].runId = q =>
           Contract!CanAppend(files[q].lines, request[d].event)
    BY <1>2, <1>3 DEF JsonlInv, CalmRunsAreStreams, r, e
  <2> QED  BY <2>1, <2>2 DEF JsonlInv, CalmRunsAreStreams
<1> QED  BY <1>4, <1>5 DEF JsonlInv

\* The invariant, for every run of the ledger.
THEOREM JsonlInvHolds == JsonlSpec => []JsonlInv
<1>1. JsonlInit => JsonlInv
  <2> SUFFICES ASSUME JsonlInit PROVE JsonlInv
    OBVIOUS
  <2>1. /\ files = [r \in RunIds |-> Missing]
        /\ pc = [c \in Callers |-> "idle"]
        /\ request = [c \in Callers |-> Null]
        /\ acked = {}
        /\ calm = [r \in RunIds |-> TRUE]
    BY DEF JsonlInit
  <2>2. Missing \in File /\ Missing.lines = <<>> /\ ~Missing.unterminated
    BY DEF Missing, File
  <2>3. FilesAreTyped
    BY <2>1, <2>2 DEF FilesAreTyped, IsFile
  <2>4. CallersAreTyped /\ WritesAreOfTheRun /\ AckedStay
    BY <2>1 DEF CallersAreTyped, WritesAreOfTheRun, AckedStay
  <2>5. \A r \in RunIds : Contract!IsRunStream(<<>>, r) /\ <<>> \in Seq(Events)
    BY DEF Contract!IsRunStream
  <2>6. CalmRunsAreStreams
    <3> SUFFICES ASSUME NEW r \in RunIds
                 PROVE  /\ ~files[r].unterminated
                        /\ files[r].lines \in Seq(Events)
                        /\ Contract!IsRunStream(files[r].lines, r)
                        /\ \A c \in Callers : pc[c] = "idle"
      BY DEF CalmRunsAreStreams
    <3>1. files[r] = Missing
      BY <2>1
    <3> QED  BY <2>1, <2>2, <2>5, <3>1
  <2> QED  BY <2>3, <2>4, <2>6 DEF JsonlInv
<1>2. JsonlInv /\ [JsonlNext]_jsonlVars => JsonlInv'
  <2> SUFFICES ASSUME JsonlInv, [JsonlNext]_jsonlVars PROVE JsonlInv'
    OBVIOUS
  <2>1. CASE UNCHANGED jsonlVars
    BY <2>1 DEF jsonlVars, JsonlInv, FilesAreTyped, CallersAreTyped, WritesAreOfTheRun,
                AckedStay, CalmRunsAreStreams
  <2> QED  BY <2>1, StartKeeps, ReadKeeps, WriteKeeps, InterruptedKeeps DEF JsonlNext
<1> QED  BY <1>1, <1>2, PTL DEF JsonlSpec

\* ------------------------------------------------------------------------
\* What follows

\* A read that succeeds shows every append that returned.
THEOREM ReadsShowAllAcked == JsonlSpec => []ReadsHideNothing
<1>1. JsonlInv => ReadsHideNothing
  BY DEF JsonlInv, AckedStay, Torn, Holds, Parses, ReadsHideNothing
<1> QED  BY <1>1, JsonlInvHolds, PTL

\* In a calm run, whatever append returned can be read back exactly when every event
\* appended to it parses: no race, no torn line and no other run can spoil it.
THEOREM CalmAckedReadsBack == JsonlSpec => []CalmRunsReadBack
<1>1. JsonlInv => CalmRunsReadBack
  <2> SUFFICES ASSUME JsonlInv, NEW e \in acked, calm[e.runId]
               PROVE  ReadsBack(e) <=> \A i \in DOMAIN files[e.runId].lines :
                                          files[e.runId].lines[i].parses
    BY DEF CalmRunsReadBack
  <2> DEFINE file == files[e.runId]
  <2>1. /\ e.runId \in RunIds
        /\ Torn(file) \/ Holds(file, e)
        /\ file.lines \in Seq(Events)
        /\ Contract!IsRunStream(file.lines, e.runId)
    BY DEF JsonlInv, AckedStay, CalmRunsAreStreams
  <2>2. \A i \in DOMAIN file.lines : file.lines[i] # Garbage
    BY <2>1, GarbageIsNoEvent
  <2>3. \E i \in DOMAIN file.lines : file.lines[i] = e
    BY <2>1, <2>2 DEF Torn, Holds
  <2> HIDE DEF file
  <2>4. file.lines # <<>>
    BY <2>3
  <2> QED  BY <2>1, <2>2, <2>3, <2>4 DEF ReadsBack, Parses, file
<1> QED  BY <1>1, JsonlInvHolds, PTL

\* A calm run's file grows as the abstract ledger's stream does, by one event that
\* the contract accepts.
THEOREM CalmRunsFollowLedger == JsonlSpec => CalmRunsImplementLedger
<1> DEFINE Follows ==
        \A r \in RunIds : calm'[r] /\ files'[r].lines # files[r].lines =>
            \E e \in Events : Abstract!AppendAcceptedEvent(r, e)
<1>1. ASSUME JsonlInv, NEW r \in RunIds, NEW e, Appends(r, e)
      PROVE  Abstract!AppendAcceptedEvent(r, e)
  <2> DEFINE streams == [q \in RunIds |-> files[q].lines]
  <2>1. streams[r] = files[r].lines
    OBVIOUS
  <2>2. Abstract!CanAppend(streams[r], e)
    BY <1>1 DEF Appends, Contract!CanAppend, Contract!IdsIn, Abstract!CanAppend, Abstract!IdsIn
  <2>3. /\ files = [q \in RunIds |-> files[q]]
        /\ files' = [files EXCEPT ![r] = files'[r]]
        /\ files'[r].lines = Append(files[r].lines, e)
    BY <1>1 DEF JsonlInv, FilesAreTyped, Appends
  <2>4. [q \in RunIds |-> files'[q].lines] = [streams EXCEPT ![r] = Append(streams[r], e)]
    BY <2>3
  <2> QED  BY <1>1, <2>2, <2>4 DEF Appends, Abstract!AppendAcceptedEvent
<1>2. JsonlInv /\ [JsonlNext]_jsonlVars => [Follows]_jsonlVars
  <2> SUFFICES ASSUME JsonlInv, JsonlNext, NEW r \in RunIds, calm'[r],
                      files'[r].lines # files[r].lines
               PROVE  \E e \in Events : Abstract!AppendAcceptedEvent(r, e)
    OBVIOUS
  <2>1. \E e \in Events : Appends(r, e)
    <3>1. \A c \in Callers : ~Read(c) /\ \A a \in Requests : ~Start(c, a)
      BY DEF Read, Start
    <3>2. CalmStepsAppend
      BY <3>1, WriteKeeps, InterruptedKeeps DEF JsonlNext
    <3> QED  BY <3>2 DEF CalmStepsAppend
  <2> QED  BY <1>1, <2>1
<1>3. CalmRunsImplementLedger <=> [][Follows]_jsonlVars
  BY PTL DEF CalmRunsImplementLedger
<1> QED  BY <1>2, <1>3, JsonlInvHolds, PTL DEF JsonlSpec
=============================================================================
