------------------------ MODULE SemanticLedgerProofs ------------------------
(***************************************************************************)
(* Proofs about the ledger contract: for any runs and events, a stream that*)
(* grew by checked appends passes the reader's check, and nothing accepted *)
(* is ever changed.                                                        *)
(***************************************************************************)
EXTENDS SemanticLedger, TLAPS

\* One checked append keeps a stream readable: appendAcceptedEventSync enforces
\* what validateOrderedRunEvents looks for.
LEMMA AppendStaysReadable ==
    ASSUME NEW stream \in Seq(Events), NEW e \in Events, NEW runId,
           IsRunStream(stream, runId), e.runId = runId, CanAppend(stream, e)
    PROVE  IsRunStream(Append(stream, e), runId)
<1> DEFINE longer == Append(stream, e)
<1>1. /\ Len(stream) \in Nat
      /\ DOMAIN stream = 1..Len(stream)
      /\ DOMAIN longer = 1..(Len(stream) + 1)
      /\ \A i \in 1..Len(stream) : longer[i] = stream[i]
      /\ longer[Len(stream) + 1] = e
  OBVIOUS
<1>2. ASSUME NEW i \in 1..Len(stream)
      PROVE  /\ longer[i].intact
             /\ longer[i].runId = runId
             /\ \A j \in 1..(i - 1) : longer[j].id # longer[i].id
             /\ longer[i].sequence = i
             /\ \/ longer[i].cause = Null
                \/ \E j \in 1..(i - 1) : longer[j].id = longer[i].cause
  <2>1. \A j \in 1..(i - 1) : longer[j] = stream[j]
    BY <1>1
  <2>2. longer[i] = stream[i]
    BY <1>1
  <2> HIDE DEF longer
  <2> QED  BY <1>1, <2>1, <2>2 DEF IsRunStream
<1>3. /\ e.intact
      /\ \A j \in 1..Len(stream) : longer[j].id # e.id
      /\ e.sequence = Len(stream) + 1
      /\ e.cause = Null \/ \E j \in 1..Len(stream) : longer[j].id = e.cause
  <2> HIDE DEF longer
  <2> QED  BY <1>1 DEF CanAppend, IdsIn
<1>4. ASSUME NEW i \in 1..(Len(stream) + 1)
      PROVE  i \in 1..Len(stream) \/ (i = Len(stream) + 1 /\ i - 1 = Len(stream))
  BY <1>1
<1> HIDE DEF longer
<1>5. IsRunStream(longer, runId)
  <2> SUFFICES ASSUME NEW i \in 1..(Len(stream) + 1)
               PROVE  /\ longer[i].intact
                      /\ longer[i].runId = runId
                      /\ \A j \in 1..(i - 1) : longer[j].id # longer[i].id
                      /\ longer[i].sequence = i
                      /\ \/ longer[i].cause = Null
                         \/ \E j \in 1..(i - 1) : longer[j].id = longer[i].cause
    BY <1>1 DEF IsRunStream
  <2>1. CASE i \in 1..Len(stream)
    BY <1>2, <2>1
  <2>2. CASE i = Len(stream) + 1 /\ i - 1 = Len(stream)
    BY <1>1, <1>3, <2>2
  <2> QED  BY <1>4, <2>1, <2>2
<1> QED  BY <1>5 DEF longer

\* What one append does to the streams.
LEMMA AppendStep ==
    ASSUME TypeOK, NEW r \in RunIds, NEW e \in Events, AppendAcceptedEvent(r, e)
    PROVE  /\ TypeOK'
           /\ streams'[r] = Append(streams[r], e)
           /\ \A s \in RunIds : s # r => streams'[s] = streams[s]
<1>1. streams[r] \in Seq(Events)
  BY DEF TypeOK
<1>2. Append(streams[r], e) \in Seq(Events)
  BY <1>1
<1>3. /\ streams'[r] = Append(streams[r], e)
      /\ \A s \in RunIds : s # r => streams'[s] = streams[s]
      /\ streams' = [s \in RunIds |-> IF s = r THEN Append(streams[r], e) ELSE streams[s]]
  BY DEF TypeOK, AppendAcceptedEvent
<1>4. \A s \in RunIds : streams[s] \in Seq(Events)
  BY DEF TypeOK
<1>5. TypeOK'
  BY <1>2, <1>3, <1>4 DEF TypeOK
<1> QED  BY <1>3, <1>5

\* The streams are streams of events, for every set of runs and events.
THEOREM StreamsAreTyped == Spec => []TypeOK
<1>1. Init => TypeOK
  BY DEF Init, TypeOK
<1>2. TypeOK /\ [Next]_streams => TypeOK'
  <2> SUFFICES ASSUME TypeOK, [Next]_streams PROVE TypeOK'
    OBVIOUS
  <2>1. CASE Next
    BY <2>1, AppendStep DEF Next
  <2>2. CASE UNCHANGED streams
    BY <2>2 DEF TypeOK
  <2> QED  BY <2>1, <2>2
<1> QED  BY <1>1, <1>2, PTL DEF Spec

\* Every stream can be read back at any time: no sequence of appends the in-memory
\* validator lets through is refused later by the reader's.
THEOREM StreamsAlwaysReadBack == Spec => []StreamsReadBack
<1>1. Init => StreamsReadBack
  BY DEF Init, StreamsReadBack, IsRunStream
<1>2. TypeOK /\ StreamsReadBack /\ [Next]_streams => StreamsReadBack'
  <2> SUFFICES ASSUME TypeOK, StreamsReadBack, [Next]_streams PROVE StreamsReadBack'
    OBVIOUS
  <2>1. ASSUME NEW r \in RunIds, NEW e \in Events, AppendAcceptedEvent(r, e)
        PROVE  StreamsReadBack'
    <3>1. IsRunStream(Append(streams[r], e), r)
      <4>1. streams[r] \in Seq(Events) /\ IsRunStream(streams[r], r)
        BY DEF TypeOK, StreamsReadBack
      <4>2. e.runId = r /\ CanAppend(streams[r], e)
        BY <2>1 DEF AppendAcceptedEvent
      <4> QED  BY <4>1, <4>2, AppendStaysReadable
    <3>2. /\ streams'[r] = Append(streams[r], e)
          /\ \A s \in RunIds : s # r => streams'[s] = streams[s]
      BY <2>1, AppendStep
    <3> SUFFICES ASSUME NEW s \in RunIds PROVE IsRunStream(streams'[s], s)
      BY DEF StreamsReadBack
    <3>3. CASE s = r
      BY <3>1, <3>2, <3>3
    <3>4. CASE s # r
      BY <3>2, <3>4 DEF StreamsReadBack
    <3> QED  BY <3>3, <3>4
  <2>2. CASE UNCHANGED streams
    BY <2>2 DEF StreamsReadBack
  <2> QED  BY <2>1, <2>2 DEF Next
<1> QED  BY <1>1, <1>2, StreamsAreTyped, PTL DEF Spec

\* No step rewrites or drops an accepted event, and each adds at most one, to one
\* run.
THEOREM AcceptedHistoryIsKept == Spec => AppendOnly
<1> DEFINE Kept ==
        /\ \A r \in RunIds :
              /\ Len(streams'[r]) - Len(streams[r]) \in {0, 1}
              /\ \A i \in 1..Len(streams[r]) : streams'[r][i] = streams[r][i]
        /\ \A r, s \in RunIds :
              streams'[r] # streams[r] /\ streams'[s] # streams[s] => r = s
<1>1. TypeOK /\ [Next]_streams => [Kept]_streams
  <2> SUFFICES ASSUME TypeOK, NEW r \in RunIds, NEW e \in Events, AppendAcceptedEvent(r, e)
               PROVE  Kept
    BY DEF Next
  <2>1. /\ streams'[r] = Append(streams[r], e)
        /\ \A s \in RunIds : s # r => streams'[s] = streams[s]
    BY AppendStep
  <2>2. \A s \in RunIds : streams[s] \in Seq(Events)
    BY DEF TypeOK
  <2>3. ASSUME NEW s \in RunIds
        PROVE  /\ Len(streams'[s]) - Len(streams[s]) \in {0, 1}
               /\ \A i \in 1..Len(streams[s]) : streams'[s][i] = streams[s][i]
    <3>1. streams[s] \in Seq(Events) /\ Len(streams[s]) \in Nat
      BY <2>2
    <3>2. CASE s = r
      BY <2>1, <3>1, <3>2
    <3>3. CASE s # r
      BY <2>1, <3>1, <3>3
    <3> QED  BY <3>2, <3>3
  <2> QED  BY <2>1, <2>3
<1>2. AppendOnly <=> [][Kept]_streams
  BY PTL DEF AppendOnly
<1> QED  BY <1>1, <1>2, StreamsAreTyped, PTL DEF Spec
=============================================================================
