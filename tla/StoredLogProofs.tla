-------------------------- MODULE StoredLogProofs --------------------------
(***************************************************************************)
(* Proofs, for every choice of the constants, about the stored log of a    *)
(* run: what the stream holds and what a returned call may rely on while   *)
(* the ledger-backed kernel writes it, however the awaits of concurrent    *)
(* calls interleave, whatever the sink answers, and wherever the process   *)
(* dies; and what the projection, the reconciliation and the replay of a   *)
(* history make of it.                                                     *)
(***************************************************************************)
EXTENDS RunKernelProofs, LedgerBackedKernel, RunHistory, WellFoundedInduction

\* ------------------------------------------------------------------------
\* The ledger-backed kernel: the inductive invariant

LBTypes ==
    /\ TypeOK /\ IsList(stored) /\ IsList(fate) /\ Len(fate) = Len(log)
    /\ DOMAIN pending = Callers /\ \A c \in Callers : IsList(pending[c])
    /\ applied \in [Callers -> BOOLEAN]
    /\ inherited \in 0..Len(stored)

\* The positions of the stream that this kernel filled.
Filled == (inherited + 1)..Len(stored)

\* They hold the kernel's own events, each at its own position.
FilledByKernel ==
    \A p \in Filled : p \in 1..Len(log) /\ stored[p] = LedgerEvent(log, p)

\* Callers wait for the kernel's events only.
Owes(c, p) == \E k \in 1..Len(pending[c]) : pending[c][k].sequence = p

PendingFromLog ==
    \A c \in Callers : \A k \in 1..Len(pending[c]) :
        \E p \in 1..Len(log) : pending[c][k] = LedgerEvent(log, p)

\* What is applied is stored.
AppliedIsStored ==
    \A c \in Callers : applied[c] => pending[c] # <<>> /\ pending[c][1].sequence \in Filled

\* An event of a returned call is stored; one of a running call is stored or owed.
FatesAreKnown ==
    \A p \in 1..Len(fate) :
        /\ fate[p] = "returned" => p \in Filled
        /\ fate[p] \in Callers => p \in Filled \/ Owes(fate[p], p)

LBInv == LBTypes /\ FilledByKernel /\ PendingFromLog /\ AppliedIsStored /\ FatesAreKnown

\* ------------------------------------------------------------------------
\* Lists

\* A list has a length and its positions.
LEMMA ListFacts ==
    ASSUME NEW s, IsList(s)
    PROVE  Len(s) \in Nat /\ DOMAIN s = 1..Len(s)
BY AppendToList

\* A function on an initial segment of the naturals is a list.
LEMMA SegmentsAreLists ==
    ASSUME NEW n \in Nat, NEW f, f = [i \in 1..n |-> f[i]]
    PROVE  IsList(f) /\ Len(f) = n
<1> DEFINE S == {f[i] : i \in 1..n}
<1>1. f \in [1..n -> S]
  OBVIOUS
<1>2. f \in Seq(S) /\ Len(f) = n
  BY <1>1
<1> QED BY <1>2, SequencesAreLists

\* The concatenation of two lists.
LEMMA ConcatOfLists ==
    ASSUME NEW s, NEW t, IsList(s), IsList(t)
    PROVE  /\ IsList(s \o t) /\ Len(s \o t) = Len(s) + Len(t)
           /\ \A i \in 1..Len(s) : (s \o t)[i] = s[i]
           /\ \A i \in 1..Len(t) : (s \o t)[Len(s) + i] = t[i]
<1> DEFINE S == Elements(s) \cup Elements(t)
<1>1. s \in Seq(S) /\ t \in Seq(S)
  <2>1. s \in Seq(Elements(s)) /\ t \in Seq(Elements(t)) BY DEF IsList
  <2>2. Elements(s) \subseteq S /\ Elements(t) \subseteq S OBVIOUS
  <2> QED BY <2>1, <2>2
<1>2. /\ s \o t \in Seq(S) /\ Len(s \o t) = Len(s) + Len(t)
      /\ \A i \in 1..Len(s) : (s \o t)[i] = s[i]
      /\ \A i \in 1..Len(t) : (s \o t)[Len(s) + i] = t[i]
  BY <1>1
<1> QED BY <1>2, SequencesAreLists

\* The tail of a list.
LEMMA TailOfList ==
    ASSUME NEW s, IsList(s), s # <<>>
    PROVE  /\ IsList(Tail(s)) /\ Len(s) \in Nat \ {0} /\ Len(Tail(s)) = Len(s) - 1
           /\ \A i \in 1..(Len(s) - 1) : Tail(s)[i] = s[i + 1]
           /\ Head(s) = s[1]
<1>1. s \in Seq(Elements(s))
  BY DEF IsList
<1>2. /\ Tail(s) \in Seq(Elements(s)) /\ Len(s) \in Nat \ {0}
      /\ Len(Tail(s)) = Len(s) - 1
      /\ \A i \in 1..(Len(s) - 1) : Tail(s)[i] = s[i + 1]
      /\ Head(s) = s[1]
  BY <1>1, HeadTailProperties, EmptySeq
<1> QED BY <1>2, SequencesAreLists

\* The empty list is one.
LEMMA EmptyList == IsList(<<>>) /\ Len(<<>>) = 0
BY DEF IsList

\* A kernel just constructed has the type of its state.
LEMMA FreshKernel ==
    ASSUME log' = <<>>, kept' = [t \in KeptTypes |-> <<>>],
           revision' = [r \in StateRefs |-> 0]
    PROVE  TypeOK'
<1>1. log' \in Seq(Elements(log')) /\ DOMAIN log' = {}
  OBVIOUS
<1>2. DOMAIN kept' = KeptTypes /\ \A t \in KeptTypes : kept'[t] \in Seq(Inputs[t])
  OBVIOUS
<1>3. revision' \in [StateRefs -> Nat]
  OBVIOUS
<1> QED BY <1>1, <1>2, <1>3 DEF TypeOK

\* ------------------------------------------------------------------------
\* Every step keeps the invariant

\* What the steps that leave the kernel alone keep of it.
LEMMA KernelAlone ==
    ASSUME TypeOK, UNCHANGED vars
    PROVE  /\ TypeOK' /\ Len(log') = Len(log)
           /\ \A p : LedgerEvent(log', p) = LedgerEvent(log, p)
BY DEF TypeOK, vars, Elements

\* A call sends the events it appended, each under its own position.
LEMMA CallKeeps ==
    ASSUME LBInv, NEW c \in Callers, Call(c)
    PROVE  LBInv'
<1> DEFINE N == Len(log)
           M == Len(log')
           new == SubSeq(log', N + 1, M)
           sent == [i \in 1..Len(new) |-> LedgerEvent(log', N + i)]
<1>1. /\ pending[c] = <<>> /\ Next
      /\ stored' = stored /\ applied' = applied /\ inherited' = inherited
  BY DEF Call
<1>2. TypeOK' /\ Extends
  BY <1>1, StepsKeepTypes, StepsExtend DEF LBInv, LBTypes
<1>3. /\ N \in Nat /\ M \in Nat /\ N <= M /\ Len(fate) = N
      /\ \A i \in 1..N : log'[i] = log[i]
      /\ IsList(log')
  BY <1>2 DEF Extends, Grows, LBInv, LBTypes
<1>4. Len(new) = M - N
  <2>1. \A i \in (N + 1)..M : log'[i] \in Elements(log')
    BY <1>3, ListFacts DEF Elements
  <2> HIDE DEF N, M
  <2>2. N + 1 \in Int /\ M \in Int
    BY <1>3
  <2>3. Len(SubSeq(log', N + 1, M)) = IF N + 1 <= M THEN M - (N + 1) + 1 ELSE 0
    BY <2>1, <2>2, SubSeqProperties
  <2> QED BY <2>3, <1>3
<1>5. /\ \A p \in 1..N : LedgerEvent(log', p) = LedgerEvent(log, p)
      /\ \A p : LedgerEvent(log', p).sequence = p
  BY <1>3 DEF LedgerEvent
<1>6. PICK mark \in {c, "unsent"} :
        /\ fate' = fate \o [i \in 1..Len(new) |-> mark]
        /\ \/ mark = c /\ pending' = [pending EXCEPT ![c] = sent]
           \/ mark = "unsent" /\ pending' = pending
  BY DEF Call
<1> DEFINE marks == [i \in 1..Len(new) |-> mark]
<1>7. /\ IsList(marks) /\ Len(marks) = M - N
      /\ \A i \in 1..(M - N) : marks[i] = mark
  <2>0. M - N \in Nat
    BY <1>3
  <2>1. /\ IsList([i \in 1..(M - N) |-> mark])
        /\ Len([i \in 1..(M - N) |-> mark]) = M - N
    BY <2>0, SegmentsAreLists
  <2> HIDE DEF N, M, new
  <2> QED BY <1>4, <2>1
<1>8. /\ IsList(sent) /\ Len(sent) = M - N
      /\ \A k \in 1..(M - N) : sent[k] = LedgerEvent(log', N + k)
  <2>0. M - N \in Nat
    BY <1>3
  <2>1. /\ IsList([i \in 1..(M - N) |-> LedgerEvent(log', N + i)])
        /\ Len([i \in 1..(M - N) |-> LedgerEvent(log', N + i)]) = M - N
    BY <2>0, SegmentsAreLists
  <2> HIDE DEF N, M, new
  <2> QED BY <1>4, <2>1
<1>9. /\ IsList(fate') /\ Len(fate') = M
      /\ \A p \in 1..N : fate'[p] = fate[p]
      /\ \A p \in 1..M : p \notin 1..N => fate'[p] = mark
  <2>1. IsList(fate)
    BY DEF LBInv, LBTypes
  <2> HIDE DEF marks, N, M
  <2>2. fate' = fate \o marks
    BY <1>6 DEF marks
  <2>3. /\ IsList(fate') /\ Len(fate') = N + (M - N)
        /\ \A p \in 1..N : fate'[p] = fate[p]
        /\ \A i \in 1..(M - N) : fate'[N + i] = marks[i]
    <3>1. Len(fate) = N /\ Len(marks) = M - N /\ IsList(marks)
      BY <1>3, <1>7
    <3>2. /\ IsList(fate \o marks) /\ Len(fate \o marks) = Len(fate) + Len(marks)
          /\ \A i \in 1..Len(fate) : (fate \o marks)[i] = fate[i]
          /\ \A i \in 1..Len(marks) : (fate \o marks)[Len(fate) + i] = marks[i]
      BY <2>1, <3>1, ConcatOfLists
    <3> QED BY <2>2, <3>1, <3>2
  <2>4. ASSUME NEW p \in 1..M, p \notin 1..N PROVE fate'[p] = mark
    <3>1. p - N \in 1..(M - N) /\ N + (p - N) = p
      BY <2>4, <1>3
    <3> QED BY <3>1, <2>3, <1>7
  <2> QED BY <2>3, <2>4, <1>3
<1> HIDE DEF N, M, new, sent, marks
<1>10. \A d \in Callers : pending'[d] = IF d = c /\ mark = c THEN sent ELSE pending[d]
  BY <1>6, CallerNames DEF LBInv, LBTypes
<1>11. Filled' = Filled /\ \A p : LedgerEvent(log, p).sequence = p
  BY <1>1 DEF Filled, LedgerEvent
<1>12. LBTypes'
  <2>1. DOMAIN pending' = Callers
    BY <1>6 DEF LBInv, LBTypes
  <2>2. \A d \in Callers : IsList(pending'[d])
    BY <1>8, <1>10 DEF LBInv, LBTypes
  <2> QED BY <1>1, <1>2, <1>9, <2>1, <2>2 DEF LBInv, LBTypes, M, IsList, Elements
<1>13. FilledByKernel'
  <2>1. ASSUME NEW p \in Filled
        PROVE  p \in 1..M /\ stored[p] = LedgerEvent(log', p)
    <3>1. p \in 1..N /\ stored[p] = LedgerEvent(log, p)
      BY DEF LBInv, FilledByKernel, N
    <3> QED BY <3>1, <1>3, <1>5
  <2> QED BY <2>1, <1>1, <1>11 DEF FilledByKernel, M
<1>14. PendingFromLog'
  <2>1. ASSUME NEW d \in Callers, NEW k \in 1..Len(pending'[d])
        PROVE  \E p \in 1..M : pending'[d][k] = LedgerEvent(log', p)
    <3>1. CASE d = c /\ mark = c
      <4>1. k \in 1..(M - N) /\ pending'[d][k] = LedgerEvent(log', N + k)
        BY <3>1, <1>8, <1>10
      <4>2. N + k \in 1..M
        BY <4>1, <1>3
      <4> QED BY <4>1, <4>2
    <3>2. CASE ~(d = c /\ mark = c)
      <4>1. PICK p \in 1..N : pending[d][k] = LedgerEvent(log, p)
        BY <3>2, <1>10 DEF LBInv, PendingFromLog, N
      <4>2. p \in 1..M /\ pending'[d][k] = LedgerEvent(log', p)
        BY <4>1, <3>2, <1>3, <1>5, <1>10
      <4> QED BY <4>2
    <3> QED BY <3>1, <3>2
  <2> QED BY <2>1 DEF PendingFromLog, M
<1>15. AppliedIsStored'
  <2>1. ASSUME NEW d \in Callers, applied[d]
        PROVE  pending'[d] # <<>> /\ pending'[d][1].sequence \in Filled
    <3>1. pending[d] # <<>> /\ pending[d][1].sequence \in Filled
      BY <2>1 DEF LBInv, AppliedIsStored
    <3>2. d # c
      BY <3>1, <1>1
    <3> QED BY <3>1, <3>2, <1>10
  <2> QED BY <2>1, <1>1, <1>11 DEF AppliedIsStored
<1>16. FatesAreKnown'
  <2>0. mark # "returned" /\ (mark \in Callers => mark = c)
    BY <1>6, CallerNames
  <2>1. ASSUME NEW p \in 1..N
        PROVE  /\ fate[p] = "returned" => p \in Filled
               /\ fate[p] \in Callers => p \in Filled \/ Owes(fate[p], p)'
    <3>1. /\ fate[p] = "returned" => p \in Filled
          /\ fate[p] \in Callers => p \in Filled \/ Owes(fate[p], p)
      BY <1>3 DEF LBInv, FatesAreKnown
    <3>2. ASSUME fate[p] \in Callers, Owes(fate[p], p)
          PROVE  \E k \in 1..Len(pending'[fate[p]]) : pending'[fate[p]][k].sequence = p
      <4>1. PICK k \in 1..Len(pending[fate[p]]) : pending[fate[p]][k].sequence = p
        BY <3>2 DEF Owes
      <4>2. fate[p] # c
        BY <4>1, <1>1, EmptyList
      <4> QED BY <4>1, <4>2, <3>2, <1>10
    <3>3. fate'[p] = fate[p]
      BY <1>9
    <3> QED BY <3>1, <3>2, <3>3 DEF Owes
  <2>2. ASSUME NEW p \in 1..M, p \notin 1..N, mark \in Callers
        PROVE  \E k \in 1..Len(pending'[mark]) : pending'[mark][k].sequence = p
    <3>1. mark = c /\ pending'[mark] = sent
      BY <2>0, <2>2, <1>10
    <3>2. p - N \in 1..(M - N) /\ N + (p - N) = p
      BY <2>2, <1>3
    <3>3. sent[p - N].sequence = p
      BY <3>2, <1>5, <1>8
    <3> QED BY <3>1, <3>2, <3>3, <1>8
  <2>3. ASSUME NEW p \in 1..M
        PROVE  /\ fate'[p] = "returned" => p \in Filled
               /\ fate'[p] \in Callers =>
                     \/ p \in Filled
                     \/ \E k \in 1..Len(pending'[fate'[p]]) : pending'[fate'[p]][k].sequence = p
    <3>1. CASE p \in 1..N
      BY <3>1, <2>1, <1>9 DEF Owes
    <3>2. CASE p \notin 1..N
      <4>1. fate'[p] = mark
        BY <3>2, <1>9
      <4> QED BY <4>1, <3>2, <2>0, <2>2
    <3> QED BY <3>1, <3>2
  <2> QED BY <2>3, <1>9, <1>11 DEF FatesAreKnown, Owes
<1> QED BY <1>12, <1>13, <1>14, <1>15, <1>16 DEF LBInv

\* The sink only takes the event whose place is next, so what the kernel filled
\* grows by the event at its own position.
LEMMA SinkAppendsKeeps ==
    ASSUME LBInv, NEW c \in Callers, SinkAppends(c)
    PROVE  LBInv'
<1> DEFINE e == Head(pending[c])
<1>1. /\ UNCHANGED vars /\ pending' = pending /\ fate' = fate /\ inherited' = inherited
      /\ stored' = Append(stored, e)
      /\ applied' = [applied EXCEPT ![c] = TRUE]
      /\ pending[c] # <<>>
  BY DEF SinkAppends, Waiting
<1>2. e.sequence = Len(stored) + 1
  BY DEF SinkAppends, Ledger!CanAppend
<1>3. /\ TypeOK' /\ Len(log') = Len(log)
      /\ \A p : LedgerEvent(log', p) = LedgerEvent(log, p)
  BY <1>1, KernelAlone DEF LBInv, LBTypes
<1>4. IsList(pending[c]) /\ IsList(stored) /\ inherited \in 0..Len(stored)
  BY DEF LBInv, LBTypes
<1>5. e = pending[c][1] /\ 1 \in 1..Len(pending[c])
  BY <1>1, <1>4, TailOfList
<1>6. PICK q \in 1..Len(log) : e = LedgerEvent(log, q)
  BY <1>5 DEF LBInv, PendingFromLog
<1>7. q = Len(stored) + 1
  BY <1>2, <1>6 DEF LedgerEvent
<1> HIDE DEF e
<1>8. /\ IsList(stored') /\ Len(stored) \in Nat /\ Len(stored') = Len(stored) + 1
      /\ \A i \in 1..Len(stored) : stored'[i] = stored[i]
      /\ stored'[Len(stored) + 1] = e
  BY <1>1, <1>4, AppendToList
<1>9. Filled' = Filled \cup {q} /\ q \notin Filled
  BY <1>1, <1>4, <1>7, <1>8 DEF Filled
<1>10. LBTypes'
  <2>1. IsList(fate') /\ Len(fate') = Len(log')
    BY <1>1, <1>3 DEF LBInv, LBTypes
  <2>2. DOMAIN pending' = Callers /\ \A d \in Callers : IsList(pending'[d])
    BY <1>1 DEF LBInv, LBTypes
  <2>3. applied' \in [Callers -> BOOLEAN] /\ inherited' \in 0..Len(stored')
    BY <1>1, <1>4, <1>8 DEF LBInv, LBTypes
  <2> QED BY <1>3, <1>8, <2>1, <2>2, <2>3 DEF LBTypes
<1>11. FilledByKernel'
  <2>1. ASSUME NEW p \in Filled'
        PROVE  p \in 1..Len(log) /\ stored'[p] = LedgerEvent(log, p)
    <3>1. CASE p = q
      BY <3>1, <1>6, <1>7, <1>8
    <3>2. CASE p \in Filled
      <4>1. p \in 1..Len(stored)
        BY <3>2, <1>4, <1>8 DEF Filled
      <4> QED BY <3>2, <4>1, <1>8 DEF LBInv, FilledByKernel
    <3> QED BY <3>1, <3>2, <1>9
  <2> QED BY <2>1, <1>3 DEF FilledByKernel
<1>12. PendingFromLog'
  BY <1>1, <1>3 DEF LBInv, PendingFromLog
<1>13. AppliedIsStored'
  <2>1. ASSUME NEW d \in Callers, applied'[d]
        PROVE  pending[d] # <<>> /\ pending[d][1].sequence \in Filled'
    <3>1. CASE d = c
      BY <3>1, <1>1, <1>2, <1>5, <1>7, <1>9
    <3>2. CASE d # c
      BY <3>2, <2>1, <1>1, <1>9 DEF LBInv, LBTypes, AppliedIsStored
    <3> QED BY <3>1, <3>2
  <2> QED BY <2>1, <1>1 DEF AppliedIsStored
<1>14. FatesAreKnown'
  BY <1>1, <1>9 DEF LBInv, FatesAreKnown, Owes
<1> QED BY <1>10, <1>11, <1>12, <1>13, <1>14 DEF LBInv

\* What settling does to the fates.
LEMMA Settled ==
    ASSUME IsList(fate), NEW c, NEW outcome, Settle(c, outcome)
    PROVE  /\ IsList(fate') /\ Len(fate') = Len(fate)
           /\ \A p \in 1..Len(fate) : fate'[p] = IF fate[p] = c THEN outcome ELSE fate[p]
<1>1. Len(fate) \in Nat /\ DOMAIN fate = 1..Len(fate)
  BY ListFacts
<1> DEFINE n == Len(fate)
           f == [p \in 1..n |-> IF fate[p] = c THEN outcome ELSE fate[p]]
<1>2. fate' = f
  BY <1>1 DEF Settle
<1>3. IsList(f) /\ Len(f) = n
  <2> HIDE DEF n
  <2>1. n \in Nat
    BY <1>1 DEF n
  <2> QED BY <2>1, SegmentsAreLists
<1> QED BY <1>2, <1>3

\* A call that fails gives up what it owed, and is no longer running.
LEMMA AppendFailsKeeps ==
    ASSUME LBInv, NEW c \in Callers, AppendFails(c)
    PROVE  LBInv'
<1>1. /\ UNCHANGED vars /\ stored' = stored /\ inherited' = inherited
      /\ pending' = [pending EXCEPT ![c] = <<>>]
      /\ applied' = [applied EXCEPT ![c] = FALSE]
      /\ Settle(c, "thrown")
  BY DEF AppendFails
<1>2. /\ TypeOK' /\ Len(log') = Len(log)
      /\ \A p : LedgerEvent(log', p) = LedgerEvent(log, p)
  BY <1>1, KernelAlone DEF LBInv, LBTypes
<1>3. /\ IsList(fate') /\ Len(fate') = Len(fate)
      /\ \A p \in 1..Len(fate) : fate'[p] = IF fate[p] = c THEN "thrown" ELSE fate[p]
  BY <1>1, Settled DEF LBInv, LBTypes
<1>4. /\ DOMAIN pending' = Callers /\ pending'[c] = <<>>
      /\ \A d \in Callers : d # c => pending'[d] = pending[d]
      /\ \A d \in Callers : applied'[d] => applied[d] /\ d # c
  BY <1>1 DEF LBInv, LBTypes
<1>5. LBTypes'
  <2>1. \A d \in Callers : IsList(pending'[d])
    BY <1>4, EmptyList DEF LBInv, LBTypes
  <2>2. IsList(stored') /\ inherited' \in 0..Len(stored') /\ Len(fate') = Len(log')
    BY <1>1, <1>2, <1>3 DEF LBInv, LBTypes
  <2>3. applied' \in [Callers -> BOOLEAN]
    BY <1>1 DEF LBInv, LBTypes
  <2> QED BY <1>2, <1>3, <1>4, <2>1, <2>2, <2>3 DEF LBTypes
<1>6. FilledByKernel'
  BY <1>1, <1>2 DEF LBInv, FilledByKernel, Filled
<1>7. PendingFromLog'
  <2>1. ASSUME NEW d \in Callers, NEW k \in 1..Len(pending'[d])
        PROVE  \E p \in 1..Len(log) : pending'[d][k] = LedgerEvent(log, p)
    <3>1. d # c
      BY <2>1, <1>4, EmptyList
    <3> QED BY <3>1, <1>4 DEF LBInv, PendingFromLog
  <2> QED BY <2>1, <1>2 DEF PendingFromLog
<1>8. AppliedIsStored'
  BY <1>1, <1>4 DEF LBInv, AppliedIsStored, Filled
<1>9. FatesAreKnown'
  <2>1. ASSUME NEW p \in 1..Len(fate)
        PROVE  /\ fate'[p] = "returned" => p \in Filled
               /\ fate'[p] \in Callers =>
                     \/ p \in Filled
                     \/ \E k \in 1..Len(pending'[fate'[p]]) : pending'[fate'[p]][k].sequence = p
    <3>1. CASE fate[p] = c
      BY <3>1, <1>3, CallerNames
    <3>2. CASE fate[p] # c
      BY <3>2, <1>3, <1>4 DEF LBInv, FatesAreKnown, Owes
    <3> QED BY <3>1, <3>2
  <2> QED BY <2>1, <1>1, <1>3 DEF FatesAreKnown, Owes, Filled
<1> QED BY <1>5, <1>6, <1>7, <1>8, <1>9 DEF LBInv

\* An answered call moves on from an event that is stored: it owes the others, and
\* returns when there are none.
LEMMA SinkAnswersKeeps ==
    ASSUME LBInv, NEW c \in Callers, SinkAnswers(c)
    PROVE  LBInv'
<1> DEFINE rest == Tail(pending[c])
           m == Len(pending[c])
<1>1. /\ UNCHANGED vars /\ stored' = stored /\ inherited' = inherited
      /\ pending' = [pending EXCEPT ![c] = Tail(@)]
      /\ applied' = [applied EXCEPT ![c] = FALSE] /\ applied[c]
      /\ IF m = 1 THEN Settle(c, "returned") ELSE fate' = fate
  BY DEF SinkAnswers
<1>2. /\ TypeOK' /\ Len(log') = Len(log)
      /\ \A p : LedgerEvent(log', p) = LedgerEvent(log, p)
  BY <1>1, KernelAlone DEF LBInv, LBTypes
<1>3. pending[c] # <<>> /\ pending[c][1].sequence \in Filled
  BY <1>1 DEF LBInv, AppliedIsStored
<1>4. /\ IsList(rest) /\ m \in Nat \ {0} /\ Len(rest) = m - 1
      /\ \A k \in 1..(m - 1) : rest[k] = pending[c][k + 1]
  BY <1>3, TailOfList DEF LBInv, LBTypes
<1> HIDE DEF rest, m
<1>5. /\ DOMAIN pending' = Callers /\ pending'[c] = rest
      /\ \A d \in Callers : d # c => pending'[d] = pending[d]
      /\ \A d \in Callers : applied'[d] => applied[d] /\ d # c
      /\ applied' \in [Callers -> BOOLEAN]
  BY <1>1 DEF LBInv, LBTypes, rest
<1>6. /\ IsList(fate') /\ Len(fate') = Len(fate)
      /\ \A p \in 1..Len(fate) :
            fate'[p] = IF fate[p] = c /\ m = 1 THEN "returned" ELSE fate[p]
  BY <1>1, Settled DEF LBInv, LBTypes
<1>7. LBTypes'
  <2>1. \A d \in Callers : IsList(pending'[d])
    BY <1>4, <1>5 DEF LBInv, LBTypes
  <2>2. IsList(stored') /\ inherited' \in 0..Len(stored') /\ Len(fate') = Len(log')
    BY <1>1, <1>2, <1>6 DEF LBInv, LBTypes
  <2> QED BY <1>2, <1>5, <1>6, <2>1, <2>2 DEF LBTypes
<1>8. FilledByKernel' /\ Filled' = Filled
  BY <1>1, <1>2 DEF LBInv, FilledByKernel, Filled
<1>9. PendingFromLog'
  <2>1. ASSUME NEW d \in Callers, NEW k \in 1..Len(pending'[d])
        PROVE  \E p \in 1..Len(log) : pending'[d][k] = LedgerEvent(log, p)
    <3>1. CASE d = c
      <4>1. k \in 1..(m - 1) /\ pending'[d][k] = pending[c][k + 1]
        BY <3>1, <1>4, <1>5
      <4>2. k + 1 \in 1..Len(pending[c])
        BY <4>1, <1>4 DEF m
      <4> QED BY <4>1, <4>2 DEF LBInv, PendingFromLog
    <3>2. CASE d # c
      BY <3>2, <1>5 DEF LBInv, PendingFromLog
    <3> QED BY <3>1, <3>2
  <2> QED BY <2>1, <1>2 DEF PendingFromLog
<1>10. AppliedIsStored'
  BY <1>5, <1>8 DEF LBInv, AppliedIsStored
<1>11. FatesAreKnown'
  <2>1. ASSUME NEW p \in 1..Len(fate), fate[p] = c
        PROVE  \/ p \in Filled
               \/ m # 1 /\ \E k \in 1..Len(rest) : rest[k].sequence = p
    <3>1. p \in Filled \/ \E k \in 1..m : pending[c][k].sequence = p
      BY <2>1 DEF LBInv, FatesAreKnown, Owes, m
    <3>2. ASSUME NEW k \in 1..m, pending[c][k].sequence = p, p \notin Filled
          PROVE  m # 1 /\ \E j \in 1..Len(rest) : rest[j].sequence = p
      <4>1. k # 1
        BY <3>2, <1>3
      <4>2. k - 1 \in 1..(m - 1) /\ (k - 1) + 1 = k /\ m # 1
        BY <4>1, <1>4
      <4>3. rest[k - 1].sequence = p
        BY <4>2, <3>2, <1>4
      <4> QED BY <4>2, <4>3, <1>4
    <3> QED BY <3>1, <3>2
  <2>2. ASSUME NEW p \in 1..Len(fate)
        PROVE  /\ fate'[p] = "returned" => p \in Filled
               /\ fate'[p] \in Callers =>
                     \/ p \in Filled
                     \/ \E k \in 1..Len(pending'[fate'[p]]) : pending'[fate'[p]][k].sequence = p
    <3>1. CASE fate[p] = c
      <4>1. CASE m = 1
        BY <3>1, <4>1, <2>1, <1>6
      <4>2. CASE m # 1
        BY <3>1, <4>2, <2>1, <1>5, <1>6, CallerNames
      <4> QED BY <4>1, <4>2
    <3>2. CASE fate[p] # c
      BY <3>2, <1>5, <1>6 DEF LBInv, FatesAreKnown, Owes
    <3> QED BY <3>1, <3>2
  <2> QED BY <2>2, <1>6, <1>8 DEF FatesAreKnown, Owes
<1> QED BY <1>7, <1>8, <1>9, <1>10, <1>11 DEF LBInv

\* A new kernel over the old stream has filled none of it.
LEMMA RestartKeeps ==
    ASSUME LBInv, Restart
    PROVE  LBInv'
<1>1. /\ stored' = stored /\ inherited' = Len(stored) /\ log' = <<>> /\ fate' = <<>>
      /\ pending' = [c \in Callers |-> <<>>] /\ applied' = [c \in Callers |-> FALSE]
  BY DEF Restart
<1>2. TypeOK'
  BY FreshKernel DEF Restart
<1>3. IsList(stored) /\ Len(stored) \in Nat
  BY ListFacts DEF LBInv, LBTypes
<1>4. LBTypes'
  BY <1>1, <1>2, <1>3, EmptyList DEF LBTypes, IsList, Elements
<1>5. Filled' = {}
  BY <1>1, <1>3 DEF Filled
<1>6. FilledByKernel' /\ AppliedIsStored'
  BY <1>1, <1>5 DEF FilledByKernel, AppliedIsStored
<1>7. PendingFromLog' /\ FatesAreKnown'
  BY <1>1, EmptyList DEF PendingFromLog, FatesAreKnown
<1> QED BY <1>4, <1>6, <1>7 DEF LBInv

\* The invariant holds in every run, whatever fails and whoever runs at once.
THEOREM LBInvHolds == LBSpec => []LBInv
<1>1. LBInit => LBInv
  <2> SUFFICES ASSUME LBInit PROVE LBInv
    OBVIOUS
  <2>1. TypeOK
    <3>1. log \in Seq(Elements(log)) /\ DOMAIN log = {}
      BY DEF LBInit, Init
    <3>2. DOMAIN kept = KeptTypes /\ \A t \in KeptTypes : kept[t] \in Seq(Inputs[t])
      BY DEF LBInit, Init
    <3>3. revision \in [StateRefs -> Nat]
      BY DEF LBInit, Init
    <3> QED BY <3>1, <3>2, <3>3 DEF TypeOK
  <2>2. LBTypes
    BY <2>1, EmptyList DEF LBInit, Init, LBTypes
  <2>3. Filled = {}
    BY EmptyList DEF LBInit, Filled
  <2>4. FilledByKernel /\ AppliedIsStored
    BY <2>3 DEF LBInit, FilledByKernel, AppliedIsStored
  <2>5. PendingFromLog /\ FatesAreKnown
    BY EmptyList DEF LBInit, PendingFromLog, FatesAreKnown
  <2> QED BY <2>2, <2>4, <2>5 DEF LBInv
<1>2. LBInv /\ [LBNext]_lbVars => LBInv'
  <2> SUFFICES ASSUME LBInv, [LBNext]_lbVars PROVE LBInv'
    OBVIOUS
  <2>1. ASSUME NEW c \in Callers, Call(c) PROVE LBInv'
    BY <2>1, CallKeeps
  <2>2. ASSUME NEW c \in Callers, SinkAppends(c) PROVE LBInv'
    BY <2>2, SinkAppendsKeeps
  <2>3. ASSUME NEW c \in Callers, AppendFails(c) PROVE LBInv'
    BY <2>3, AppendFailsKeeps
  <2>4. ASSUME NEW c \in Callers, SinkAnswers(c) PROVE LBInv'
    BY <2>4, SinkAnswersKeeps
  <2>5. CASE Restart
    BY <2>5, RestartKeeps
  <2>6. CASE UNCHANGED lbVars
    <3>1. UNCHANGED vars /\ UNCHANGED <<stored, pending, applied, fate, inherited>>
      BY <2>6 DEF lbVars, sinkVars
    <3>2. TypeOK' /\ log' = log
      BY <3>1, KernelAlone DEF LBInv, LBTypes, vars
    <3>3. LBTypes'
      BY <3>1, <3>2 DEF LBInv, LBTypes, IsList, Elements
    <3>4. FilledByKernel' /\ PendingFromLog' /\ AppliedIsStored' /\ FatesAreKnown'
      BY <3>1, <3>2 DEF LBInv, FilledByKernel, PendingFromLog, AppliedIsStored,
         FatesAreKnown, Owes, Filled
    <3> QED BY <3>3, <3>4 DEF LBInv
  <2> QED BY <2>1, <2>2, <2>3, <2>4, <2>5, <2>6
      DEF LBNext, SinkSettles, SinkRejects, SinkUnavailable, AnswerLost
<1> QED BY <1>1, <1>2, PTL DEF LBSpec

\* The stream is a prefix of the log of a kernel that found it empty, in whatever
\* order concurrent calls reach the sink and whichever of them fail.
THEOREM StreamIsLogPrefix == LBSpec => []StreamMirrorsLog
<1>1. LBInv => StreamMirrorsLog
  <2> SUFFICES ASSUME LBInv, inherited = 0
               PROVE  /\ Len(stored) <= Len(log)
                      /\ \A i \in DOMAIN stored : stored[i] = LedgerEvent(log, i)
    BY DEF StreamMirrorsLog
  <2>1. Len(stored) \in Nat /\ DOMAIN stored = 1..Len(stored) /\ Len(log) \in Nat
    BY ListFacts DEF LBInv, LBTypes, TypeOK
  <2>2. \A p \in 1..Len(stored) : p \in 1..Len(log) /\ stored[p] = LedgerEvent(log, p)
    BY <2>1 DEF LBInv, FilledByKernel, Filled
  <2>3. Len(stored) <= Len(log)
    <3>1. CASE Len(stored) = 0
      BY <3>1, <2>1
    <3>2. CASE Len(stored) # 0
      <4>1. Len(stored) \in 1..Len(stored)
        BY <3>2, <2>1
      <4> QED BY <4>1, <2>1, <2>2
    <3> QED BY <3>1, <3>2
  <2> QED BY <2>1, <2>2, <2>3
<1> QED BY <1>1, LBInvHolds, PTL

\* A call that returned is durable, and so is everything the kernel accepted
\* before it back to the events an older stream held when the kernel was
\* constructed, over any sink that fails, loses answers or serves calls out of order.
THEOREM ReturnsAreDurable == LBSpec => []ReturnedIsDurable
<1>1. LBInv => ReturnedIsDurable
  <2> SUFFICES ASSUME LBInv, NEW p \in DOMAIN fate, fate[p] = "returned"
               PROVE  /\ inherited < p /\ p <= Len(stored)
                      /\ \A q \in (inherited + 1)..p : stored[q] = LedgerEvent(log, q)
    BY DEF ReturnedIsDurable
  <2>1. p \in 1..Len(fate)
    BY ListFacts DEF LBInv, LBTypes
  <2>2. p \in Filled
    BY <2>1 DEF LBInv, FatesAreKnown
  <2>3. inherited \in Nat /\ Len(stored) \in Nat /\ p \in Nat
    BY <2>2, ListFacts DEF Filled, LBInv, LBTypes
  <2>4. inherited < p /\ p <= Len(stored)
    BY <2>2, <2>3 DEF Filled
  <2>5. ASSUME NEW q \in (inherited + 1)..p PROVE q \in Filled
    BY <2>3, <2>4 DEF Filled
  <2> QED BY <2>4, <2>5 DEF LBInv, FilledByKernel
<1> QED BY <1>1, LBInvHolds, PTL

\* A kernel constructed over a stream that has events never reports success for
\* events whose places the stream already held.
THEOREM InheritedIsNeverClaimed == LBSpec => []NoSuccessOverInherited
<1>1. LBInv => NoSuccessOverInherited
  <2> SUFFICES ASSUME LBInv, NEW p \in DOMAIN fate, p <= inherited, fate[p] = "returned"
               PROVE  FALSE
    BY DEF NoSuccessOverInherited
  <2>1. p \in 1..Len(fate) /\ inherited \in Nat /\ Len(stored) \in Nat
    BY ListFacts DEF LBInv, LBTypes
  <2>2. p \in Filled
    BY <2>1 DEF LBInv, FatesAreKnown
  <2> QED BY <2>1, <2>2 DEF Filled
<1> QED BY <1>1, LBInvHolds, PTL

\* ------------------------------------------------------------------------
\* A fate is the name of a running caller or an outcome, and a call that
\* threw has closed its kernel.
FatesAreOutcomes ==
    \A p \in 1..Len(fate) :
        /\ fate[p] \in Callers \cup {"returned", "thrown", "unsent"}
        /\ fate[p] = "thrown" => failed

\* The fates of a call's new events are its caller's name or "unsent".
LEMMA CallMarks ==
    ASSUME LBInv, NEW c \in Callers, Call(c), FatesAreOutcomes
    PROVE  FatesAreOutcomes'
<1>1. IsList(fate) /\ failed' = failed
  BY DEF LBInv, LBTypes, Call
<1> DEFINE n == Len(SubSeq(log', Len(log) + 1, Len(log')))
<1>2. PICK mark \in {c, "unsent"} : fate' = fate \o [i \in 1..n |-> mark]
  BY DEF Call
<1>3. n \in Nat
  <2>1. IsList(log') /\ Len(log) \in Nat /\ Len(log') \in Nat
    <3>1. Extends
      BY StepsExtend DEF Call, LBInv, LBTypes
    <3> QED BY <3>1 DEF Extends, Grows
  <2>2. \A i \in (Len(log) + 1)..Len(log') : log'[i] \in Elements(log')
    BY <2>1, ListFacts DEF Elements
  <2>3. Len(log) + 1 \in Int /\ Len(log') \in Int
    BY <2>1
  <2>4. SubSeq(log', Len(log) + 1, Len(log')) \in Seq(Elements(log'))
    BY <2>2, <2>3, SubSeqProperties
  <2> QED BY <2>4
<1> HIDE DEF n
<1> DEFINE marks == [i \in 1..n |-> mark]
<1>4. IsList(marks) /\ Len(marks) = n /\ \A i \in 1..n : marks[i] = mark
  BY <1>3, SegmentsAreLists
<1>5. fate' = fate \o marks
  BY <1>2
<1> HIDE DEF marks
<1>6. /\ Len(fate \o marks) = Len(fate) + n
      /\ \A i \in 1..Len(fate) : (fate \o marks)[i] = fate[i]
      /\ \A i \in 1..n : (fate \o marks)[Len(fate) + i] = mark
  BY <1>1, <1>4, ConcatOfLists
<1>7. mark \in Callers \cup {"unsent"} /\ mark # "thrown"
  BY <1>2, CallerNames
<1>8. ASSUME NEW p \in 1..Len(fate')
      PROVE  /\ fate'[p] \in Callers \cup {"returned", "thrown", "unsent"}
             /\ fate'[p] = "thrown" => failed
  <2>0. Len(fate) \in Nat
    BY <1>1, ListFacts
  <2>1. CASE p \in 1..Len(fate)
    BY <2>1, <1>5, <1>6 DEF FatesAreOutcomes
  <2>2. CASE p \notin 1..Len(fate)
    <3>1. p - Len(fate) \in 1..n /\ Len(fate) + (p - Len(fate)) = p
      BY <2>0, <2>2, <1>3, <1>5, <1>6
    <3> QED BY <3>1, <1>5, <1>6, <1>7
  <2> QED BY <2>1, <2>2
<1> QED BY <1>1, <1>8 DEF FatesAreOutcomes

\* Every event of every call is where its call's outcome says.
THEOREM FatesHold == LBSpec => []FatesAreOutcomes
<1>1. LBInit => FatesAreOutcomes
  BY EmptyList DEF LBInit, FatesAreOutcomes
<1>2. LBInv /\ FatesAreOutcomes /\ [LBNext]_lbVars => FatesAreOutcomes'
  <2> SUFFICES ASSUME LBInv, FatesAreOutcomes, [LBNext]_lbVars PROVE FatesAreOutcomes'
    OBVIOUS
  <2>0. IsList(fate)
    BY DEF LBInv, LBTypes
  <2>1. ASSUME NEW c \in Callers, Call(c) PROVE FatesAreOutcomes'
    BY <2>1, CallMarks
  <2>2. ASSUME NEW c \in Callers, SinkAppends(c) PROVE FatesAreOutcomes'
    BY <2>2 DEF SinkAppends, FatesAreOutcomes
  <2>3. ASSUME NEW c \in Callers, AppendFails(c) PROVE FatesAreOutcomes'
    <3>1. failed' = TRUE /\ Settle(c, "thrown")
      BY <2>3 DEF AppendFails
    <3> QED BY <2>0, <3>1, Settled DEF FatesAreOutcomes
  <2>4. ASSUME NEW c \in Callers, SinkAnswers(c) PROVE FatesAreOutcomes'
    <3>1. failed' = failed /\ (Settle(c, "returned") \/ fate' = fate)
      BY <2>4 DEF SinkAnswers
    <3>2. CASE fate' = fate
      BY <3>1, <3>2 DEF FatesAreOutcomes
    <3>3. CASE Settle(c, "returned")
      <4>1. /\ Len(fate') = Len(fate)
            /\ \A p \in 1..Len(fate) : fate'[p] = IF fate[p] = c THEN "returned" ELSE fate[p]
        BY <2>0, <3>3, Settled
      <4> QED BY <4>1, <3>1 DEF FatesAreOutcomes
    <3> QED BY <3>1, <3>2, <3>3
  <2>5. CASE Restart
    BY <2>5, EmptyList DEF Restart, FatesAreOutcomes
  <2>6. CASE UNCHANGED lbVars
    BY <2>6 DEF lbVars, sinkVars, FatesAreOutcomes
  <2> QED BY <2>1, <2>2, <2>3, <2>4, <2>5, <2>6
      DEF LBNext, SinkSettles, SinkRejects, SinkUnavailable, AnswerLost
<1> QED BY <1>1, <1>2, LBInvHolds, PTL DEF LBSpec

\* With no call running and no failure seen, the stream lacks nothing readers see
\* but what follows an event the kernel never sent.
THEOREM QuietIsPersisted == LBSpec => []QuietMeansPersisted
<1>1. LBInv /\ FatesAreOutcomes => QuietMeansPersisted
  <2> SUFFICES ASSUME LBInv, FatesAreOutcomes, \A c \in Callers : Idle(c), ~failed,
                      NEW p \in DOMAIN log, p > Len(stored)
               PROVE  \E q \in 1..p : fate[q] = "unsent"
    BY DEF QuietMeansPersisted
  <2>1. p \in 1..Len(fate) /\ p \notin Filled
    BY ListFacts DEF LBInv, LBTypes, TypeOK, IsList, Filled
  <2>2. fate[p] \notin Callers
    <3>1. ASSUME fate[p] \in Callers PROVE ~Owes(fate[p], p)
      BY <3>1, EmptyList DEF Idle, Owes
    <3> QED BY <2>1, <3>1 DEF LBInv, FatesAreKnown
  <2>3. fate[p] = "unsent"
    BY <2>1, <2>2 DEF FatesAreOutcomes, LBInv, FatesAreKnown
  <2> QED BY <2>1, <2>3
<1> QED BY <1>1, LBInvHolds, FatesHold, PTL

\* ------------------------------------------------------------------------
\* The readers of a stored log

\* Every non-empty set of natural numbers has a least element.
LEMMA LeastOf ==
    ASSUME NEW S, S \subseteq Nat, S # {}
    PROVE  \E i \in S : \A j \in S : i <= j
<1> DEFINE less == {p \in Nat \X Nat : p[1] < p[2]}
<1>1. less = OpToRel(<, Nat)
  BY Zenon DEF OpToRel
<1>2. IsWellFoundedOn(less, Nat)
  BY <1>1, NatLessThanWellFounded
<1> HIDE DEF less
<1>3. PICK i \in S : \A j \in S : ~(<<j, i>> \in less)
  BY <1>2, WFMin
<1>4. ASSUME NEW j \in S PROVE i <= j
  <2>1. <<j, i>> \notin less
    BY <1>3
  <2> QED BY <2>1 DEF less
<1> QED BY <1>4

\* ------------------------------------------------------------------------
\* What a projection pushes

Rank(positions, i) == Cardinality({j \in positions : j <= i})

PushedUpTo(events, positions, f, m) ==
    f = [n \in 0..m |-> IF n = 0 THEN <<>>
                        ELSE IF n \in positions THEN Append(f[n - 1], events[n].body)
                        ELSE f[n - 1]]

\* The recursion of BodiesAt has a solution: "apply" can push event after event.
LEMMA PushingGoesOn ==
    ASSUME NEW events, NEW positions, NEW m \in Nat
    PROVE  \E f : PushedUpTo(events, positions, f, m)
<1> DEFINE bad == {k \in Nat : ~ \E f : PushedUpTo(events, positions, f, k)}
<1>1. ASSUME bad # {} PROVE FALSE
  <2>1. PICK k \in bad : \A l \in bad : k <= l
    <3>1. bad \subseteq Nat
      OBVIOUS
    <3> HIDE DEF bad
    <3> QED BY <1>1, <3>1, LeastOf
  <2>2. k \in Nat
    OBVIOUS
  <2>3. CASE k = 0
    <3> DEFINE f == [n \in 0..0 |-> <<>>]
    <3>1. PushedUpTo(events, positions, f, 0)
      BY DEF PushedUpTo
    <3> QED BY <2>3, <3>1
  <2>4. CASE k # 0
    <3>1. k - 1 \in Nat /\ ~(k <= k - 1)
      BY <2>2, <2>4
    <3>2. k - 1 \notin bad
      BY <2>1, <3>1
    <3>3. PICK f : PushedUpTo(events, positions, f, k - 1)
      BY <3>1, <3>2
    <3> DEFINE next == IF k \in positions THEN Append(f[k - 1], events[k].body) ELSE f[k - 1]
               g == [n \in 0..k |-> IF n = k THEN next ELSE f[n]]
    <3>4. /\ g[k] = next
          /\ \A n \in 0..(k - 1) : g[n] = f[n]
      BY <3>1
    <3> HIDE DEF next
    <3>5. ASSUME NEW n \in 0..k
          PROVE  g[n] = IF n = 0 THEN <<>>
                        ELSE IF n \in positions THEN Append(g[n - 1], events[n].body)
                        ELSE g[n - 1]
      <4> HIDE DEF g
      <4>1. CASE n = k
        BY <2>2, <2>4, <3>4, <4>1 DEF next
      <4>2. CASE n # k
        <5>1. n \in 0..(k - 1) /\ g[n] = f[n] /\ (n # 0 => n - 1 \in 0..(k - 1) /\ g[n - 1] = f[n - 1])
          BY <2>2, <3>4, <4>2
        <5>2. f[n] = IF n = 0 THEN <<>>
                     ELSE IF n \in positions THEN Append(f[n - 1], events[n].body)
                     ELSE f[n - 1]
          BY <3>3, <5>1 DEF PushedUpTo
        <5> QED BY <5>1, <5>2
      <4> QED BY <4>1, <4>2
    <3>6. DOMAIN g = 0..k /\ g = [n \in 0..k |-> g[n]]
      OBVIOUS
    <3>7. PushedUpTo(events, positions, g, k)
      <4> HIDE DEF g
      <4> QED BY <3>5, <3>6 DEF PushedUpTo
    <3> QED BY <2>2, <3>7
  <2> QED BY <2>3, <2>4
<1> QED BY <1>1

\* What was pushed up to the n-th event: the bodies at the positions up to it, each
\* at its rank.
PushedInOrder(events, positions, list, n) ==
    LET upTo == positions \cap (1..n)
    IN  /\ list \in Seq({events[i].body : i \in positions})
        /\ Len(list) = Cardinality(upTo)
        /\ \A i \in upTo : list[Rank(upTo, i)] = events[i].body
        /\ \A k \in 1..Len(list) : \E i \in upTo : Rank(upTo, i) = k

\* Pushing the next event keeps what was pushed in order.
LEMMA PushKeepsOrder ==
    ASSUME NEW events, NEW positions, positions \subseteq Nat \ {0}, NEW n \in Nat, NEW list,
           PushedInOrder(events, positions, list, n)
    PROVE  PushedInOrder(events, positions,
               IF n + 1 \in positions THEN Append(list, events[n + 1].body) ELSE list, n + 1)
<1> DEFINE upTo == positions \cap (1..n)
           S == {events[i].body : i \in positions}
<1>0. /\ list \in Seq(S) /\ Len(list) = Cardinality(upTo)
      /\ \A i \in upTo : list[Rank(upTo, i)] = events[i].body
      /\ \A k \in 1..Len(list) : \E i \in upTo : Rank(upTo, i) = k
  BY DEF PushedInOrder
<1>1. CASE n + 1 \notin positions
  <2>1. positions \cap (1..(n + 1)) = upTo
    BY <1>1
  <2> QED BY <1>1, <2>1 DEF PushedInOrder
<1>2. CASE n + 1 \in positions
  <2> DEFINE e == events[n + 1].body
             longer == Append(list, e)
             more == upTo \cup {n + 1}
  <2>1. positions \cap (1..(n + 1)) = more
    BY <1>2
  <2>2. upTo \subseteq 1..n /\ e \in S
    BY <1>2
  <2> HIDE DEF upTo, S
  <2>3. /\ Cardinality(upTo) \in Nat
        /\ \A i \in upTo : Rank(upTo, i) \in 1..Cardinality(upTo)
        /\ Cardinality(more) = Cardinality(upTo) + 1
        /\ Rank(more, n + 1) = Cardinality(more)
        /\ \A i \in upTo : Rank(more, i) = Rank(upTo, i)
    BY <2>2, RankInGrowingSet DEF Rank
  <2> HIDE DEF e
  <2>4. /\ longer \in Seq(S) /\ Len(longer) = Len(list) + 1
        /\ longer[Len(list) + 1] = e
        /\ \A k \in 1..Len(list) : longer[k] = list[k]
    BY <1>0, <2>2
  <2> HIDE DEF longer, more
  <2>5. \A i \in more : longer[Rank(more, i)] = events[i].body
    <3>1. ASSUME NEW i \in upTo PROVE longer[Rank(more, i)] = events[i].body
      BY <1>0, <2>3, <2>4
    <3>2. longer[Rank(more, n + 1)] = events[n + 1].body
      BY <1>0, <2>3, <2>4 DEF e
    <3> QED BY <3>1, <3>2 DEF more
  <2>6. ASSUME NEW k \in 1..Len(longer) PROVE \E i \in more : Rank(more, i) = k
    <3>1. CASE k = Len(longer)
      BY <1>0, <2>3, <2>4, <3>1 DEF more
    <3>2. CASE k # Len(longer)
      <4>1. k \in 1..Len(list)
        BY <1>0, <2>3, <2>4, <3>2
      <4>2. PICK i \in upTo : Rank(upTo, i) = k
        BY <1>0, <4>1
      <4> QED BY <2>3, <4>2 DEF more
    <3> QED BY <3>1, <3>2
  <2>7. Len(longer) = Cardinality(more)
    BY <1>0, <2>3, <2>4
  <2> QED BY <1>2, <2>1, <2>4, <2>5, <2>6, <2>7 DEF PushedInOrder, S, longer, e
<1> QED BY <1>1, <1>2

\* A projection pushes, for the events at some positions, their bodies in their order.
LEMMA BodiesInOrder ==
    ASSUME NEW events, Len(events) \in Nat, NEW positions, positions \subseteq 1..Len(events)
    PROVE  LET list == Projections!BodiesAt(events, positions)
           IN  /\ list \in Seq({events[i].body : i \in positions})
               /\ Len(list) = Cardinality(positions)
               /\ \A i \in positions : Rank(positions, i) \in 1..Len(list)
                                       /\ list[Rank(positions, i)] = events[i].body
               /\ \A k \in 1..Len(list) : \E i \in positions : Rank(positions, i) = k
<1> DEFINE m == Len(events)
           pushed == CHOOSE f : PushedUpTo(events, positions, f, m)
           list == Projections!BodiesAt(events, positions)
<1>1. PushedUpTo(events, positions, pushed, m)
  BY PushingGoesOn
<1>2. list = pushed[m]
  BY Zenon DEF Projections!BodiesAt, PushedUpTo
<1> HIDE DEF pushed, list
<1>3. /\ pushed[0] = <<>>
      /\ \A n \in 1..m : pushed[n] = IF n \in positions THEN Append(pushed[n - 1], events[n].body)
                                     ELSE pushed[n - 1]
  <2>1. \A n \in 0..m : pushed[n] = IF n = 0 THEN <<>>
                                    ELSE IF n \in positions THEN Append(pushed[n - 1], events[n].body)
                                    ELSE pushed[n - 1]
    BY <1>1, Zenon DEF PushedUpTo
  <2> QED BY <2>1
<1> DEFINE Good(n) == PushedInOrder(events, positions, pushed[n], n)
           bad == {n \in 0..m : ~Good(n)}
<1>4. Good(0)
  <2>1. positions \cap (1..0) = {} /\ Cardinality({}) = 0
    BY FS_EmptySet
  <2>2. <<>> \in Seq({events[i].body : i \in positions}) /\ Len(<<>>) = 0
    OBVIOUS
  <2> QED BY <1>3, <2>1, <2>2 DEF PushedInOrder
<1>5. ASSUME bad # {} PROVE FALSE
  <2>1. PICK n \in bad : \A l \in bad : n <= l
    <3>1. bad \subseteq Nat
      OBVIOUS
    <3> HIDE DEF bad
    <3> QED BY <1>5, <3>1, LeastOf
  <2>2. n \in 1..m
    BY <1>4, <2>1
  <2>3. PICK k \in 0..m : n = k + 1 /\ n - 1 = k /\ k \notin bad
    BY <2>1, <2>2
  <2>4. PushedInOrder(events, positions, pushed[k], k)
    BY <2>3
  <2>5. positions \subseteq Nat \ {0} /\ k \in Nat
    OBVIOUS
  <2>6. pushed[n] = IF k + 1 \in positions THEN Append(pushed[k], events[k + 1].body) ELSE pushed[k]
    BY <1>3, <2>2, <2>3
  <2>7. PushedInOrder(events, positions, pushed[n], n)
    <3>1. PushedInOrder(events, positions,
              IF k + 1 \in positions THEN Append(pushed[k], events[k + 1].body) ELSE pushed[k], k + 1)
      BY <2>4, <2>5, PushKeepsOrder, Zenon
    <3> QED BY <2>3, <2>6, <3>1, Zenon
  <2> QED BY <2>1, <2>7
<1>6. PushedInOrder(events, positions, list, m)
  BY <1>2, <1>5
<1>7. positions \cap (1..m) = positions
  OBVIOUS
<1>8. \A i \in positions : Rank(positions, i) \in 1..Cardinality(positions)
  BY RankInGrowingSet DEF Rank
<1> QED BY <1>6, <1>7, <1>8 DEF PushedInOrder, list

\* ------------------------------------------------------------------------
\* Reconciliation

\* compareObservationFreshness orders observations.
LEMMA ComesFirstIsAnOrder ==
    ASSUME NEW x \in FreshObservations, NEW y \in FreshObservations, NEW z \in FreshObservations
    PROVE  /\ Reconciler!ComesFirst(x, y) \/ Reconciler!ComesFirst(y, x)
           /\ Reconciler!ComesFirst(x, y) /\ Reconciler!ComesFirst(y, z) => Reconciler!ComesFirst(x, z)
<1>1. \A o \in {x, y, z} : o.observationId \in Int /\ o.observedAt \in Int
  BY EvidenceContracts
<1> QED BY <1>1 DEF Reconciler!ComesFirst

\* Of any fresh observations some are the latest (compareObservationFreshness).
LEMMA SomeAreLatest ==
    ASSUME NEW found, found \subseteq FreshObservations, found # {}
    PROVE  \E o \in found : \A p \in found : Reconciler!ComesFirst(o, p)
<1> DEFINE HasFirst(T) == \E o \in T : \A p \in T : Reconciler!ComesFirst(o, p)
           bad == {n \in Nat : \E T \in SUBSET FreshObservations :
                                  T # {} /\ Cardinality(T) = n /\ ~HasFirst(T)}
<1>1. \A T \in SUBSET FreshObservations : IsFiniteSet(T) /\ Cardinality(T) \in Nat
  BY EvidenceContracts, FS_Subset, FS_CardinalityType
<1>2. ASSUME bad # {} PROVE FALSE
  <2>1. PICK n \in bad : \A l \in bad : n <= l
    <3>1. bad \subseteq Nat
      OBVIOUS
    <3> HIDE DEF bad
    <3> QED BY <1>2, <3>1, LeastOf
  <2>2. PICK T \in SUBSET FreshObservations : T # {} /\ Cardinality(T) = n /\ ~HasFirst(T)
    BY <2>1
  <2>3. PICK x \in T : TRUE
    BY <2>2
  <2> DEFINE rest == T \ {x}
  <2>4. Cardinality(rest) = n - 1 /\ Cardinality(rest) \in Nat
    BY <1>1, <2>2, <2>3, FS_RemoveElement
  <2>5. rest \in SUBSET FreshObservations /\ n \in Nat /\ x \in FreshObservations
    BY <2>2, <2>3
  <2>6. CASE rest = {}
    <3>1. T = {x}
      BY <2>3, <2>6
    <3>2. Reconciler!ComesFirst(x, x)
      BY <2>5, ComesFirstIsAnOrder
    <3> QED BY <2>2, <3>1, <3>2
  <2>7. CASE rest # {}
    <3>1. ~(n <= n - 1)
      BY <2>5
    <3>2. n - 1 \notin bad
      BY <2>1, <3>1
    <3>3. HasFirst(rest)
      <4> HIDE DEF rest, HasFirst
      <4> QED BY <2>4, <2>5, <2>7, <3>2
    <3>4. PICK y \in rest : \A p \in rest : Reconciler!ComesFirst(y, p)
      BY <3>3
    <3>5. y \in FreshObservations /\ \A p \in T : p \in FreshObservations /\ (p = x \/ p \in rest)
      BY <2>2
    <3>6. CASE Reconciler!ComesFirst(y, x)
      <4>1. \A p \in T : Reconciler!ComesFirst(y, p)
        BY <3>4, <3>5, <3>6
      <4> QED BY <2>2, <4>1
    <3>7. CASE Reconciler!ComesFirst(x, y)
      <4>1. ASSUME NEW p \in T PROVE Reconciler!ComesFirst(x, p)
        <5>1. CASE p = x
          BY <2>5, <5>1, ComesFirstIsAnOrder
        <5>2. CASE p # x
          BY <2>5, <3>4, <3>5, <3>7, <5>2, ComesFirstIsAnOrder
        <5> QED BY <5>1, <5>2
      <4> QED BY <2>2, <2>3, <4>1
    <3> QED BY <2>5, <3>5, <3>6, <3>7, ComesFirstIsAnOrder
  <2> QED BY <2>6, <2>7
<1>3. Cardinality(found) \in Nat /\ Cardinality(found) \notin bad
  BY <1>1, <1>2
<1> HIDE DEF HasFirst
<1>4. HasFirst(found)
  BY <1>3
<1> QED BY <1>4 DEF HasFirst

\* uniqueBy keeps a record of every id, and every record when ids are distinct.
LEMMA UniqueByKeeps ==
    ASSUME NEW list, list \in Seq(Elements(list)), NEW field
    PROVE  /\ Reconciler!UniqueBy(list, field) \subseteq Elements(list)
           /\ \A x \in Elements(list) : \E y \in Reconciler!UniqueBy(list, field) : y[field] = x[field]
           /\ IdsAreDistinct(list, field) => Reconciler!UniqueBy(list, field) = Elements(list)
<1>1. DOMAIN list = 1..Len(list) /\ Len(list) \in Nat
  OBVIOUS
<1>2. Reconciler!UniqueBy(list, field) \subseteq Elements(list)
  BY DEF Reconciler!UniqueBy, Elements
<1>3. ASSUME NEW x \in Elements(list)
      PROVE  \E y \in Reconciler!UniqueBy(list, field) : y[field] = x[field]
  <2> DEFINE same == {i \in DOMAIN list : list[i][field] = x[field]}
  <2>1. same # {} /\ same \subseteq Nat
    BY <1>1, <1>3 DEF Elements
  <2>2. PICK i \in same : \A j \in same : i <= j
    <3> HIDE DEF same
    <3> QED BY <2>1, LeastOf
  <2>3. \A k \in 1..(i - 1) : k \in DOMAIN list /\ ~(i <= k)
    BY <1>1
  <2>4. \A k \in 1..(i - 1) : list[k][field] # list[i][field]
    BY <2>2, <2>3
  <2> QED BY <2>2, <2>4 DEF Reconciler!UniqueBy
<1>4. ASSUME IdsAreDistinct(list, field), NEW x \in Elements(list)
      PROVE  x \in Reconciler!UniqueBy(list, field)
  <2>1. PICK i \in DOMAIN list : x = list[i]
    BY DEF Elements
  <2>2. \A k \in 1..(i - 1) : k \in DOMAIN list /\ k # i
    BY <1>1
  <2>3. \A k \in 1..(i - 1) : list[k][field] # list[i][field]
    BY <1>4, <2>2 DEF IdsAreDistinct
  <2> QED BY <2>1, <2>3 DEF Reconciler!UniqueBy
<1> QED BY <1>2, <1>3, <1>4

\* An accepted observation gives no mismatch only if the world was seen still to be so.
LEMMA QuietObservation ==
    ASSUME NEW o, NEW fresh \in SUBSET FreshObservations, NEW check \in Checks,
           \A p \in fresh : CanonicalHash(o.state) = CanonicalHash(p.state) => o.state = p.state,
           \A m \in Reconciler!ObservationMismatches(o, fresh, check) : m.type = "same"
    PROVE  StillSo(o, fresh, check) /\ o.payloadHash = CanonicalHash(o.state)
<1> DEFINE latest == Reconciler!LatestMatchingObservation(o, fresh)
           matching == {p \in fresh : p.subject = o.subject}
<1>1. o.payloadHash = CanonicalHash(o.state)
  BY DEF Reconciler!ObservationMismatches, Reconciler!Mismatch
<1>2. latest # {}
  <2>1. ASSUME latest = {} PROVE FALSE
    <3>1. Reconciler!Mismatch("missing_observation", o)
             \in Reconciler!ObservationMismatches(o, fresh, check)
      BY <1>1, <2>1 DEF Reconciler!ObservationMismatches
    <3> QED BY <3>1 DEF Reconciler!Mismatch
  <2> QED BY <2>1
<1>3. PICK p \in latest : TRUE
  BY <1>2
<1>4. p \in fresh /\ p.subject = o.subject
  BY <1>3 DEF Reconciler!LatestMatchingObservation
<1>5. Reconciler!Mismatch(Reconciler!Comparison(o, p, check), o)
         \in Reconciler!ObservationMismatches(o, fresh, check)
  BY <1>1, <1>2, <1>3 DEF Reconciler!ObservationMismatches
<1>6. Reconciler!Comparison(o, p, check) = "same"
  BY <1>5 DEF Reconciler!Mismatch
<1>7. /\ p.payloadHash = CanonicalHash(p.state)
      /\ Reconciler!ObservationIsFresh(p, check)
      /\ o.payloadHash = p.payloadHash
  BY <1>6 DEF Reconciler!Comparison
<1>8. p.state = o.state
  BY <1>1, <1>4, <1>7
<1>9. /\ p.observedAt \in Int /\ p.expiresAt \in Int /\ check.checkedAt \in Int
      /\ check.freshness # Null => check.freshness \in Int
  BY <1>4, EvidenceContracts
<1> QED BY <1>1, <1>4, <1>7, <1>8, <1>9 DEF StillSo, Reconciler!ObservationIsFresh

\* And it gives none when all that was seen of its subject is intact, in time and the same.
LEMMA AgreeingObservations ==
    ASSUME NEW o, NEW fresh \in SUBSET FreshObservations, NEW check \in Checks,
           o.payloadHash = CanonicalHash(o.state), StillSo(o, fresh, check),
           \A p \in fresh : /\ p.payloadHash = CanonicalHash(p.state)
                            /\ StillSo(p, {p}, check)
                            /\ o.subject = p.subject => o.state = p.state
    PROVE  \A m \in Reconciler!ObservationMismatches(o, fresh, check) : m.type = "same"
<1> DEFINE latest == Reconciler!LatestMatchingObservation(o, fresh)
           matching == {p \in fresh : p.subject = o.subject}
<1>1. matching # {} /\ matching \subseteq FreshObservations
  BY DEF StillSo
<1>2. latest # {}
  <2> HIDE DEF matching
  <2>1. \E p \in matching : \A q \in matching : Reconciler!ComesFirst(p, q)
    BY <1>1, SomeAreLatest
  <2> QED BY <2>1 DEF Reconciler!LatestMatchingObservation, matching
<1>3. ASSUME NEW p \in latest PROVE Reconciler!Comparison(o, p, check) = "same"
  <2>1. p \in fresh /\ p.subject = o.subject
    BY DEF Reconciler!LatestMatchingObservation
  <2>2. /\ p.observedAt \in Int /\ p.expiresAt \in Int /\ check.checkedAt \in Int
        /\ check.freshness # Null => check.freshness \in Int
    BY <2>1, EvidenceContracts
  <2>3. Reconciler!ObservationIsFresh(p, check)
    BY <2>1, <2>2 DEF StillSo, Reconciler!ObservationIsFresh
  <2> QED BY <2>1, <2>3 DEF Reconciler!Comparison
<1>4. Reconciler!ObservationMismatches(o, fresh, check)
         = {Reconciler!Mismatch(Reconciler!Comparison(o, p, check), o) : p \in latest}
  BY <1>2 DEF Reconciler!ObservationMismatches
<1> QED BY <1>3, <1>4 DEF Reconciler!Mismatch

\* A receipt gives no mismatch only if it is intact, says what happened, and the only
\* summary, if there is one, does not contradict it.
LEMMA QuietReceipt ==
    ASSUME NEW r, NEW summaries \in SUBSET StatusSummaries,
           \A m \in Reconciler!ReceiptMismatches(r, summaries) : m.type = "same"
    PROVE  /\ r.payloadHash = CanonicalHash(r.payload)
           /\ r.status # "unknown"
           /\ \A s : summaries = {s} => ~Contradicts(s, r)
<1>1. r.payloadHash = CanonicalHash(r.payload)
  BY DEF Reconciler!ReceiptMismatches, Reconciler!Mismatch
<1>2. r.status # "unknown"
  BY <1>1 DEF Reconciler!ReceiptMismatches, Reconciler!Mismatch
<1>3. ASSUME NEW s, summaries = {s}, Contradicts(s, r) PROVE FALSE
  <2>1. s.observedAt \in Int
    BY <1>3, EvidenceContracts
  <2>2. s \in Reconciler!MatchingReceiptStatusSummary(r, summaries)
    BY <1>3, <2>1 DEF Contradicts, Reconciler!MatchingReceiptStatusSummary, Reconciler!SortsBefore
  <2>3. Reconciler!Mismatch(Reconciler!StatusComparison(r, s), r)
           \in Reconciler!ReceiptMismatches(r, summaries)
    BY <1>1, <1>2, <2>2 DEF Reconciler!ReceiptMismatches
  <2>4. Reconciler!StatusComparison(r, s) = "same"
    BY <2>3 DEF Reconciler!Mismatch
  <2> QED BY <1>3, <2>4 DEF Reconciler!StatusComparison, Contradicts
<1> QED BY <1>1, <1>2, <1>3

\* And it gives none when no summary contradicts it.
LEMMA UncontradictedReceipt ==
    ASSUME NEW r, r.status \in ReportedStatuses, NEW summaries,
           r.payloadHash = CanonicalHash(r.payload), r.status # "unknown",
           \A s \in summaries : ~Contradicts(s, r)
    PROVE  \A m \in Reconciler!ReceiptMismatches(r, summaries) : m.type = "same"
<1> DEFINE matching == Reconciler!MatchingReceiptStatusSummary(r, summaries)
<1>1. ASSUME NEW s \in matching PROVE Reconciler!StatusComparison(r, s) = "same"
  BY DEF Reconciler!MatchingReceiptStatusSummary, Reconciler!StatusComparison, Contradicts, ReportedStatuses
<1>2. Reconciler!ReceiptMismatches(r, summaries)
         = {Reconciler!Mismatch(Reconciler!StatusComparison(r, s), r) : s \in matching}
  BY DEF Reconciler!ReceiptMismatches
<1> QED BY <1>1, <1>2 DEF Reconciler!Mismatch

\* A report is "consistent" exactly when nothing in it gave a mismatch.
LEMMA ConsistentReports ==
    ASSUME NEW requests, NEW receipts, NEW observations, NEW fresh, NEW summaries, NEW check
    PROVE  LET accepted == Reconciler!UniqueBy(receipts, "receiptId")
           IN  Reconciler!ReconcileAcceptedEvidence(requests, receipts, observations,
                                                    fresh, summaries, check).outcome = "consistent"
               <=> /\ \A o \in Reconciler!UniqueBy(observations, "observationId") :
                         \A m \in Reconciler!ObservationMismatches(o, fresh, check) : m.type = "same"
                   /\ \A q \in Reconciler!UniqueBy(requests, "effectId") :
                         \E r \in accepted : r.effectId = q.effectId
                   /\ \A r \in accepted :
                         \A m \in Reconciler!ReceiptMismatches(r, summaries) : m.type = "same"
<1> DEFINE accepted == Reconciler!UniqueBy(receipts, "receiptId")
           seen == UNION {Reconciler!ObservationMismatches(o, fresh, check) :
                            o \in Reconciler!UniqueBy(observations, "observationId")}
           asked == UNION {Reconciler!RequestMismatches(q, accepted) :
                             q \in Reconciler!UniqueBy(requests, "effectId")}
           done == UNION {Reconciler!ReceiptMismatches(r, summaries) : r \in accepted}
           found == seen \cup asked \cup done
           mismatches == {m \in found : m.type # "same"}
           report == Reconciler!ReconcileAcceptedEvidence(requests, receipts, observations,
                                                          fresh, summaries, check)
<1>1. report.outcome = Reconciler!OutcomeFor(mismatches)
  <2>1. report = [outcome |-> Reconciler!OutcomeFor(mismatches), mismatches |-> mismatches]
    BY Zenon DEF Reconciler!ReconcileAcceptedEvidence
  <2> HIDE DEF report, mismatches
  <2> QED BY <2>1
<1>2. \A list : Reconciler!OutcomeFor(list) = "consistent" <=> list = {}
  <2> TAKE list
  <2> DEFINE types == {m.type : m \in list}
  <2>1. types = {} <=> list = {}
    OBVIOUS
  <2> HIDE DEF types
  <2>2. Reconciler!OutcomeFor(list)
           = IF types \cap Reconciler!CriticalTypes # {} THEN "quarantine_recommended"
             ELSE IF "external_state_drift" \in types THEN "drift_detected"
             ELSE IF types # {} THEN "reconciliation_needed"
             ELSE "consistent"
    BY DEF Reconciler!OutcomeFor, types
  <2> QED BY <2>1, <2>2
<1>3. (\A m \in asked : m.type = "same")
        <=> \A q \in Reconciler!UniqueBy(requests, "effectId") :
               \E r \in accepted : r.effectId = q.effectId
  <2>1. ASSUME NEW q
        PROVE  (\A m \in Reconciler!RequestMismatches(q, accepted) : m.type = "same")
                 <=> \E r \in accepted : r.effectId = q.effectId
    BY DEF Reconciler!RequestMismatches, Reconciler!Mismatch
  <2> HIDE DEF accepted
  <2> QED BY <2>1
<1>4. mismatches = {} <=> /\ \A m \in seen : m.type = "same"
                          /\ \A m \in asked : m.type = "same"
                          /\ \A m \in done : m.type = "same"
  <2> HIDE DEF seen, asked, done
  <2> QED OBVIOUS
<1> HIDE DEF mismatches, found
<1>5. report.outcome = "consistent" <=> /\ \A m \in seen : m.type = "same"
                                        /\ \A m \in asked : m.type = "same"
                                        /\ \A m \in done : m.type = "same"
  BY <1>1, <1>2, <1>4
<1> QED BY <1>3, <1>5

\* reconcileAcceptedEvidence is sound for any evidence with distinct ids.
LEMMA ReportsAreSound ==
    ASSUME NEW requests, requests \in Seq(Elements(requests)),
           NEW receipts, receipts \in Seq(Elements(receipts)),
           NEW observations, observations \in Seq(Elements(observations)),
           NEW fresh \in SUBSET FreshObservations, NEW summaries \in SUBSET StatusSummaries,
           NEW check \in Checks,
           IdsAreDistinct(receipts, "receiptId"), IdsAreDistinct(observations, "observationId"),
           \A r \in Elements(receipts) : r.status \in ReportedStatuses,
           \A o \in Elements(observations), p \in fresh :
              CanonicalHash(o.state) = CanonicalHash(p.state) => o.state = p.state
    PROVE  ReportIsSound(requests, receipts, observations, fresh, summaries, check)
<1> DEFINE report == Reconciler!ReconcileAcceptedEvidence(requests, receipts, observations,
                                                          fresh, summaries, check)
           asked == Elements(requests)
           done == Elements(receipts)
           seen == Elements(observations)
           receipted == \A q \in asked : \E r \in done : r.effectId = q.effectId
           quietReceipts == \A r \in done : \A m \in Reconciler!ReceiptMismatches(r, summaries) : m.type = "same"
           quietObservations == \A o \in seen :
               \A m \in Reconciler!ObservationMismatches(o, fresh, check) : m.type = "same"
<1>1. /\ Reconciler!UniqueBy(receipts, "receiptId") = done
      /\ Reconciler!UniqueBy(observations, "observationId") = seen
  BY UniqueByKeeps
<1>2. /\ Reconciler!UniqueBy(requests, "effectId") \subseteq asked
      /\ \A x \in asked : \E y \in Reconciler!UniqueBy(requests, "effectId") : y.effectId = x.effectId
  BY UniqueByKeeps
<1>3. report.outcome = "consistent" <=> quietObservations /\ receipted /\ quietReceipts
  <2>1. receipted <=> \A q \in Reconciler!UniqueBy(requests, "effectId") : \E r \in done : r.effectId = q.effectId
    <3> HIDE DEF asked, done
    <3> QED BY <1>2
  <2> QED BY <1>1, <2>1, ConsistentReports
<1> HIDE DEF report
<1>4. ASSUME report.outcome = "consistent"
      PROVE  /\ receipted
             /\ \A r \in done : r.status # "unknown" /\ r.payloadHash = CanonicalHash(r.payload)
             /\ \A o \in seen : StillSo(o, fresh, check) /\ o.payloadHash = CanonicalHash(o.state)
             /\ Cardinality(summaries) = 1 => ~\E s \in summaries, r \in done : Contradicts(s, r)
  <2>1. receipted /\ quietReceipts /\ quietObservations
    BY <1>3, <1>4
  <2>2. \A o \in seen : StillSo(o, fresh, check) /\ o.payloadHash = CanonicalHash(o.state)
    BY <2>1, QuietObservation
  <2>3. \A r \in done : /\ r.payloadHash = CanonicalHash(r.payload)
                        /\ r.status # "unknown"
                        /\ \A s : summaries = {s} => ~Contradicts(s, r)
    BY <2>1, QuietReceipt
  <2>4. Cardinality(summaries) = 1 => \E s : summaries = {s}
    <3>1. IsFiniteSet(summaries)
      BY EvidenceContracts, FS_Subset
    <3> QED BY <3>1, FS_Singleton
  <2> QED BY <2>1, <2>2, <2>3, <2>4
<1>5. ASSUME receipted,
             \A r \in done : r.status # "unknown" /\ r.payloadHash = CanonicalHash(r.payload),
             \A o \in seen : StillSo(o, fresh, check) /\ o.payloadHash = CanonicalHash(o.state),
             ~\E s \in summaries, r \in done : Contradicts(s, r),
             \A p \in fresh : /\ p.payloadHash = CanonicalHash(p.state)
                              /\ StillSo(p, {p}, check)
                              /\ \A o \in seen : o.subject = p.subject => o.state = p.state
      PROVE  report.outcome = "consistent"
  <2>1. quietReceipts
    BY <1>5, UncontradictedReceipt
  <2>2. quietObservations
    BY <1>5, AgreeingObservations
  <2> QED BY <1>3, <1>5, <2>1, <2>2
<1> HIDE DEF receipted
<1> QED BY <1>4, <1>5 DEF ReportIsSound, report, receipted

\* ------------------------------------------------------------------------
\* The run that is read is a run of the kernel: its readers change nothing of it.
THEOREM HistoriesAreRuns == HistorySpec => Spec
<1>1. HistoryInit => Init
  BY DEF HistoryInit
<1>2. [HistoryNext]_historyVars => [Next]_vars
  BY DEF HistoryNext, ReplayRunEvents, ReplayInput, ReplayFinalCandidate, historyVars, vars
<1> QED BY <1>1, <1>2, PTL DEF HistorySpec, Spec

\* The bodies of the log's events of a kept type, as a projection reads them.
LEMMA LoggedBodies ==
    ASSUME TypeOK, Mirrored, NEW type \in KeptTypes
    PROVE  LET list == Bodies(log, type)
           IN  list \in Seq(Elements(list)) /\ list \in Seq(Inputs[type])
<1> DEFINE list == Bodies(log, type)
           positions == Projections!PositionsOf(log, type)
           bodies == {log[i].body : i \in positions}
<1>1. Len(log) \in Nat /\ DOMAIN log = 1..Len(log)
  BY DEF TypeOK
<1>2. positions \subseteq 1..Len(log)
  BY <1>1 DEF Projections!PositionsOf
<1>3. list = Projections!BodiesAt(log, positions)
  BY DEF Bodies, Projections!BodiesOf
<1>4. list \in Seq(bodies)
  <2> HIDE DEF positions, list
  <2> QED BY <1>1, <1>2, <1>3, BodiesInOrder
<1>5. bodies \subseteq Inputs[type]
  BY DEF Mirrored, Projections!PositionsOf
<1> HIDE DEF list, bodies
<1>6. list \in Seq(Inputs[type])
  BY <1>4, <1>5
<1>7. list \in Seq(Elements(list))
  BY <1>6, SequencesAreLists DEF IsList
<1> QED BY <1>6, <1>7 DEF list

\* A report on any history, against any fresh evidence, is sound
\* (reconcileAcceptedEvidence).
THEOREM ReconcilingIsSound == HistorySpec => []ReconciliationIsSound
<1>1. TypeOK /\ Mirrored => ReconciliationIsSound
  <2> SUFFICES ASSUME TypeOK, Mirrored,
                      NEW fresh \in SUBSET FreshObservations, NEW summaries \in SUBSET StatusSummaries,
                      NEW extra \in ExtraEvidence, NEW check \in Checks,
                      IdsAreDistinct(Bodies(log, "EffectReceiptRecorded") \o extra.receipts, "receiptId"),
                      IdsAreDistinct(Bodies(log, "ExternalStateObserved") \o extra.observations,
                                     "observationId")
               PROVE  ReportIsSound(Bodies(log, "EffectRequested"),
                          Bodies(log, "EffectReceiptRecorded") \o extra.receipts,
                          Bodies(log, "ExternalStateObserved") \o extra.observations,
                          fresh, summaries, check)
    BY DEF ReconciliationIsSound
  <2> DEFINE requests == Bodies(log, "EffectRequested")
             logged == Bodies(log, "EffectReceiptRecorded")
             watched == Bodies(log, "ExternalStateObserved")
             receipts == logged \o extra.receipts
             observations == watched \o extra.observations
  <2>1. /\ "EffectRequested" \in KeptTypes
        /\ "EffectReceiptRecorded" \in KeptTypes /\ Inputs["EffectReceiptRecorded"] = EffectReceipts
        /\ "ExternalStateObserved" \in KeptTypes /\ Inputs["ExternalStateObserved"] = Observations
    BY DEF KeptTypes, Inputs
  <2>2. /\ requests \in Seq(Elements(requests))
        /\ logged \in Seq(EffectReceipts) /\ watched \in Seq(Observations)
    BY <2>1, LoggedBodies
  <2> HIDE DEF requests, logged, watched
  <2>3. /\ extra.receipts \in Seq(Elements(extra.receipts))
        /\ extra.observations \in Seq(Elements(extra.observations))
    BY EvidenceContracts
  <2>4. /\ receipts \in Seq(EffectReceipts \cup Elements(extra.receipts))
        /\ observations \in Seq(Observations \cup Elements(extra.observations))
    BY <2>2, <2>3
  <2> HIDE DEF receipts, observations
  <2>5. /\ receipts \in Seq(Elements(receipts))
        /\ observations \in Seq(Elements(observations))
        /\ Elements(receipts) \subseteq EffectReceipts \cup Elements(extra.receipts)
        /\ Elements(observations) \subseteq Observations \cup Elements(extra.observations)
    <3>1. ASSUME NEW S, NEW s \in Seq(S) PROVE s \in Seq(Elements(s)) /\ Elements(s) \subseteq S
      BY SequencesAreLists DEF IsList, Elements
    <3> QED BY <2>4, <3>1
  <2>6. \A r \in Elements(receipts) : r.status \in ReportedStatuses
    BY <2>5, EvidenceContracts
  <2>7. ASSUME NEW o \in Elements(observations), NEW p \in fresh,
               CanonicalHash(o.state) = CanonicalHash(p.state)
        PROVE  o.state = p.state
    <3> DEFINE known == Observations \cup FreshObservations
                          \cup UNION {Elements(x.observations) : x \in ExtraEvidence}
               states == {x.state : x \in known}
    <3>1. o \in known /\ p \in known
      BY <2>5
    <3>2. \A s, t \in states : CanonicalHash(s) = CanonicalHash(t) => s = t
      BY HashesTellStatesApart
    <3> HIDE DEF known
    <3>3. o.state \in states /\ p.state \in states
      BY <3>1
    <3> HIDE DEF states
    <3> QED BY <2>7, <3>2, <3>3
  <2>8. IdsAreDistinct(receipts, "receiptId") /\ IdsAreDistinct(observations, "observationId")
    BY DEF receipts, observations, logged, watched
  <2>9. ReportIsSound(requests, receipts, observations, fresh, summaries, check)
    BY <2>2, <2>5, <2>6, <2>7, <2>8, ReportsAreSound
  <2> QED BY <2>9 DEF requests, receipts, observations, logged, watched
<1> QED BY <1>1, HistoriesAreRuns, TypeCorrect, ListsMirrorLog, PTL

\* ------------------------------------------------------------------------
\* Submissions

\* The kind tells final candidates among the proposals.
LEMMA CandidateKind ==
    \A p \in Inputs["ProposalReceived"] : p.kind = "final_candidate" <=> p \in FinalCandidates
BY ProposalKinds DEF Inputs, IsMutationCommand

\* Final candidates say so in their kind.
LEMMA CandidatesAreKnown == \A c \in FinalCandidates : c.kind = "final_candidate"
BY ProposalKinds

\* A proof evaluateProof may give of a candidate.
IsProofOf(proof, candidate) ==
    /\ proof.verdict \in {"pass", "fail"}
    /\ proof.verdict = "pass" => proof.approved = {c.claimId : c \in Elements(candidate.claims)}

\* The event at i of a log l belongs to the submission whose proposal is at s:
\* after it come a proof, mismatches, a decision about this proof, and the release.
Submission(l, s, i) ==
    /\ s \in 1..(i - 1)
    /\ l[s].type = "ProposalReceived" /\ l[s].body \in FinalCandidates
    /\ l[s + 1].type = "ProofGenerated" /\ IsProofOf(l[s + 1].body, l[s].body)
    /\ \A k \in (s + 2)..i :
          \/ l[k].type = "MismatchDetected"
          \/ /\ l[k].type = "ReleaseDecided"
             /\ l[k].body = DecideRelease(l[s].body, l[s + 1].body)
             /\ \A m \in (s + 2)..(k - 1) : l[m].type = "MismatchDetected"
          \/ /\ l[k].type = "FinalReleased"
             /\ k - 1 \in (s + 2)..i
             /\ l[k - 1].type = "ReleaseDecided" /\ l[k - 1].body.status = "released"
             /\ l[k].body.candidate = l[s].body

EventsAreSubmitted ==
    \A i \in DOMAIN log : log[i].type \in FinalTypes => \E s \in 1..(i - 1) : Submission(log, s, i)

\* What evaluateProof gives is a proof of its candidate.
LEMMA EvaluatedProof ==
    ASSUME NEW c, NEW receipts, NEW observations, NEW t
    PROVE  IsProofOf(EvaluateProof(c, receipts, observations, t), c)
<1> DEFINE claims == c.claims
           verdict(i) == ClaimVerdict(claims[i], receipts, observations, t, c.runId)
           supported == {i \in DOMAIN claims : verdict(i) = "supported"}
           unsupported == (DOMAIN claims) \ supported
           proof == EvaluateProof(c, receipts, observations, t)
<1>1. /\ proof.verdict = IF unsupported = {} THEN "pass" ELSE "fail"
      /\ proof.approved = {claims[i].claimId : i \in supported}
  BY DEF EvaluateProof
<1> HIDE DEF verdict, proof
<1>2. ASSUME unsupported = {}
      PROVE  {claims[i].claimId : i \in supported} = {x.claimId : x \in Elements(claims)}
  <2>1. supported = DOMAIN claims
    BY <1>2
  <2> HIDE DEF supported
  <2> QED BY <2>1 DEF Elements
<1> HIDE DEF supported, unsupported
<1> QED BY <1>1, <1>2 DEF IsProofOf, proof

\* Beyond the first place after n, there is a second.
LEMMA AfterNext ==
    ASSUME NEW n \in Nat, NEW m \in Nat, NEW i \in 1..m, i \notin 1..n, i # n + 1
    PROVE  i \notin 1..(n + 1) /\ m # n + 1
<1>1. i > n + 1
  OBVIOUS
<1> QED BY <1>1

\* A step's new release events belong to the submission it makes.
LEMMA NewSubmission ==
    ASSUME TypeOK, Next, NEW i \in DOMAIN log', i \notin 1..Len(log), log'[i].type \in FinalTypes
    PROVE  \E s \in 1..(i - 1) : Submission(log', s, i)
<1> DEFINE N == Len(log) + 1
<1>1. PICK c \in FinalCandidates, o \in FinalOptions, t \in Times \cup {Null} :
         SubmitFinalCandidate(c, o, t)
  BY FinalEventsComeFromCandidates
<1> DEFINE proof == ProofNow(c, t)
<1>2. /\ Grows /\ Len(log') >= N
      /\ Newest = NewEvent("ProposalReceived", c, o, Given(o.causationId, started))
      /\ \/ Len(log') = N
         \/ \E p : \E n, k \in Nat : PlanLogged(p, n, k, c, proof)
  BY <1>1, FinalPlanLogged DEF TypeOK, IsList
<1>g. Grows
  BY <1>2
<1>3. /\ Len(log) \in Nat /\ DOMAIN log' = 1..Len(log') /\ Len(log') \in Nat
  BY <1>g DEF Grows
<1>4. log'[N].type = "ProposalReceived" /\ log'[N].body = c
  BY <1>2 DEF Newest, NewEvent
<1>5. i \notin 1..N /\ Len(log') # N
  <2>1. i # N
    BY <1>4 DEF FinalTypes
  <2>2. Len(log') >= N /\ i \in 1..Len(log')
    BY <1>2, <1>3
  <2> QED BY <1>3, <2>1, <2>2, AfterNext
<1>6. PICK p : \E n, k \in Nat : PlanLogged(p, n, k, c, proof)
  BY <1>2, <1>5
<1>7. PICK n \in Nat, k \in Nat : PlanLogged(p, n, k, c, proof)
  BY <1>6
<1>8. IsProofOf(proof, c)
  BY EvaluatedProof DEF ProofNow
<1> HIDE DEF proof
<1>9. /\ Len(log') = N + k /\ \A j \in 1..k : log'[N + j] = p[j]
      /\ PlanShape(p, n, c, proof, Newest.id)
  BY <1>7 DEF PlanLogged
<1>10. /\ p[1].type = "ProofGenerated" /\ p[1].body = proof
       /\ p[n + 2].type = "ReleaseDecided" /\ p[n + 2].body = DecideRelease(c, proof)
       /\ Len(p) = n + 3 => /\ DecideRelease(c, proof).status = "released"
                            /\ p[n + 3].body = [decision |-> DecideRelease(c, proof), candidate |-> c]
  BY <1>9 DEF PlanShape
<1>11. N \in Nat /\ N >= 1 /\ i \in Nat /\ i >= N + 1 /\ i <= N + k
  BY <1>3, <1>5, <1>9
<1>12. log'[N + 1] = p[1]
  BY <1>9, <1>11
<1>13. \A j \in (N + 2)..i :
          /\ j - N \in 2..k /\ log'[j] = p[j - N]
          /\ \/ j - N \in 2..(n + 1) /\ log'[j].type = "MismatchDetected"
             \/ j - N = n + 2 /\ log'[j].type = "ReleaseDecided"
             \/ j - N = n + 3 /\ Len(p) = n + 3 /\ log'[j].type = "FinalReleased"
  <2> TAKE j \in (N + 2)..i
  <2>1. j \in DOMAIN log' /\ j \notin 1..(Len(log) + 1)
    BY <1>3, <1>9, <1>11
  <2>2. j - N \in 2..k
    BY <1>11
  <2> DEFINE h == j - (Len(log) + 1)
  <2>3. /\ h \in 1..k /\ log'[j] = p[h] /\ k <= Len(p)
        /\ \/ h = 1 /\ p[h].type = "ProofGenerated"
           \/ h \in 2..(n + 1) /\ p[h].type = "MismatchDetected" /\ p[h].cause = p[1].id
           \/ h = n + 2 /\ p[h].type = "ReleaseDecided"
           \/ h = n + 3 /\ Len(p) = n + 3 /\ p[h].type = "FinalReleased"
    BY <1>g, <1>7, <2>1, PlanEvent
  <2>4. h = j - N /\ h # 1
    BY <2>2
  <2> HIDE DEF h
  <2> QED BY <2>2, <2>3, <2>4
<1>14. ASSUME NEW j \in (N + 2)..i
       PROVE  \/ log'[j].type = "MismatchDetected"
              \/ /\ log'[j].type = "ReleaseDecided"
                 /\ log'[j].body = DecideRelease(c, proof)
                 /\ \A m \in (N + 2)..(j - 1) : log'[m].type = "MismatchDetected"
              \/ /\ log'[j].type = "FinalReleased"
                 /\ j - 1 \in (N + 2)..i
                 /\ log'[j - 1].type = "ReleaseDecided" /\ log'[j - 1].body.status = "released"
                 /\ log'[j].body.candidate = c
  <2>1. CASE j - N \in 2..(n + 1)
    BY <1>13, <2>1
  <2>2. CASE j - N = n + 2
    <3>1. log'[j].type = "ReleaseDecided" /\ log'[j].body = DecideRelease(c, proof)
      BY <1>10, <1>13, <2>2
    <3>2. ASSUME NEW m \in (N + 2)..(j - 1) PROVE log'[m].type = "MismatchDetected"
      <4>1. m \in (N + 2)..i /\ m - N # n + 2 /\ m - N # n + 3
        BY <1>11, <2>2
      <4> QED BY <1>13, <4>1
    <3> QED BY <3>1, <3>2
  <2>3. CASE j - N = n + 3
    <3>1. log'[j].type = "FinalReleased" /\ Len(p) = n + 3 /\ log'[j] = p[n + 3]
      BY <1>13, <2>3
    <3>2. log'[j].body.candidate = c /\ DecideRelease(c, proof).status = "released"
      BY <1>10, <3>1
    <3>3. j - 1 \in (N + 2)..i /\ (j - 1) - N = n + 2
      BY <1>11, <2>3
    <3>4. log'[j - 1].type = "ReleaseDecided" /\ log'[j - 1].body = DecideRelease(c, proof)
      BY <1>10, <1>13, <3>3
    <3> QED BY <3>1, <3>2, <3>3, <3>4
  <2> QED BY <1>13, <2>1, <2>2, <2>3
<1> HIDE DEF N
<1>15. Submission(log', N, i)
  BY <1>4, <1>8, <1>10, <1>11, <1>12, <1>14 DEF Submission
<1> QED BY <1>11, <1>15

\* Every proof, mismatch, decision and release in the log is part of a submission.
THEOREM SubmissionsStayWhole == Spec => []EventsAreSubmitted
<1>1. Init => EventsAreSubmitted
  BY DEF Init, EventsAreSubmitted
<1>2. TypeOK /\ EventsAreSubmitted /\ [Next]_vars => EventsAreSubmitted'
  <2> SUFFICES ASSUME TypeOK, EventsAreSubmitted, [Next]_vars PROVE EventsAreSubmitted'
    OBVIOUS
  <2>1. CASE UNCHANGED vars
    BY <2>1 DEF EventsAreSubmitted, vars
  <2>2. CASE Next
    <3>1. Grows
      BY <2>2, StepsExtend DEF Extends
    <3>2. ASSUME NEW i \in DOMAIN log', log'[i].type \in FinalTypes
          PROVE  \E s \in 1..(i - 1) : Submission(log', s, i)
      <4>1. CASE i \in 1..Len(log)
        <5>1. i \in DOMAIN log /\ log[i].type \in FinalTypes /\ i \in Nat
          BY <3>1, <3>2, <4>1 DEF Grows
        <5>2. PICK s \in 1..(i - 1) : Submission(log, s, i)
          BY <5>1 DEF EventsAreSubmitted
        <5>3. \A j \in 1..i : log'[j] = log[j]
          BY <3>1, <4>1 DEF Grows
        <5>4. s \in 1..i /\ s + 1 \in 1..i /\ s \in Nat
          BY <5>1
        <5>5. \A k \in (s + 2)..i : k \in 1..i /\ \A m \in (s + 2)..(k - 1) : m \in 1..i
          BY <5>1, <5>4
        <5>6. \A k \in (s + 2)..i : k - 1 \in (s + 2)..i => k - 1 \in 1..i
          BY <5>1, <5>4
        <5> QED BY <5>2, <5>3, <5>4, <5>5, <5>6 DEF Submission
      <4>2. CASE i \notin 1..Len(log)
        BY <2>2, <3>2, <4>2, NewSubmission
      <4> QED BY <4>1, <4>2
    <3> QED BY <3>2 DEF EventsAreSubmitted
  <2> QED BY <2>1, <2>2
<1> QED BY <1>1, <1>2, TypeCorrect, PTL DEF Spec

\* ------------------------------------------------------------------------
\* Projections

\* A non-empty set of positions has a last one.
LEMMA LastPosition ==
    ASSUME NEW n \in Nat, NEW S, S \subseteq 1..n, S # {}
    PROVE  \E i \in S : \A j \in S : j <= i
<1> DEFINE below == {n - i : i \in S}
<1>1. below \subseteq Nat /\ below # {}
  <2>1. \A i \in S : n - i \in Nat
    <3> TAKE i \in S
    <3>1. i \in 1..n
      OBVIOUS
    <3> QED BY <3>1
  <2> QED BY <2>1
<1> HIDE DEF below
<1>2. PICK b \in below : \A d \in below : b <= d
  BY <1>1, LeastOf
<1> USE DEF below
<1>3. PICK i \in S : b = n - i
  BY <1>2
<1>4. ASSUME NEW j \in S PROVE j <= i
  <2>1. n - i <= n - j
    BY <1>2, <1>3
  <2>2. i \in 1..n /\ j \in 1..n
    OBVIOUS
  <2> QED BY <2>1, <2>2
<1> QED BY <1>4

\* The stream read is a prefix of the log, event by event.
LEMMA CutEvents ==
    ASSUME TypeOK, NEW n \in 1..Len(log)
    PROVE  LET events == SubSeq(Stored(log), 1, n)
           IN  /\ n \in Nat /\ Len(log) \in Nat /\ Len(events) = n /\ DOMAIN events = 1..n
               /\ DOMAIN log = 1..Len(log) /\ 1..n \subseteq 1..Len(log)
               /\ \A i \in 1..n : /\ events[i].type = log[i].type
                                  /\ events[i].body = log[i].body
                                  /\ events[i].intact = log[i].wellFormed
<1> DEFINE entry(i) == [runId |-> RunId, id |-> log[i].id, type |-> log[i].type,
                        cause |-> log[i].cause, body |-> log[i].body, sequence |-> i,
                        intact |-> log[i].wellFormed]
           written == Stored(log)
           events == SubSeq(written, 1, n)
<1>1. Len(log) \in Nat /\ DOMAIN log = 1..Len(log)
  BY DEF TypeOK
<1>2. written = [i \in 1..Len(log) |-> entry(i)]
  BY <1>1 DEF Stored
<1> HIDE DEF entry, written
<1>3. written \in Seq({entry(i) : i \in 1..Len(log)}) /\ Len(written) = Len(log)
  <2>1. written \in [1..Len(log) -> {entry(i) : i \in 1..Len(log)}]
    BY <1>2
  <2>2. written \in Seq({entry(i) : i \in 1..Len(log)})
    BY <1>1, <2>1, SeqDef
  <2>3. DOMAIN written = 1..Len(log)
    BY <1>2
  <2> QED BY <1>1, <2>2, <2>3, LenProperties
<1>4. n \in Nat /\ n >= 1 /\ n <= Len(log) /\ 1..n \subseteq 1..Len(log)
  BY <1>1
<1>5. Len(events) = n /\ DOMAIN events = 1..n /\ \A i \in 1..n : events[i] = written[i]
  BY <1>1, <1>3, <1>4
<1>6. \A i \in 1..n : events[i] = entry(i)
  BY <1>2, <1>4, <1>5
<1>7. \A i \in 1..n : /\ events[i].type = log[i].type
                      /\ events[i].body = log[i].body
                      /\ events[i].intact = log[i].wellFormed
  <2>1. \A i \in 1..n : /\ entry(i).type = log[i].type
                        /\ entry(i).body = log[i].body
                        /\ entry(i).intact = log[i].wellFormed
    BY DEF entry
  <2> QED BY <1>6, <2>1
<1> HIDE DEF events
<1> QED BY <1>1, <1>4, <1>5, <1>7 DEF events, written

\* The bodies a projection lists, and the last of them.
LEMMA ListedBodies ==
    ASSUME NEW events, Len(events) \in Nat, NEW positions, positions \subseteq 1..Len(events)
    PROVE  LET list == Projections!BodiesAt(events, positions)
           IN  /\ Elements(list) = {events[i].body : i \in positions}
               /\ Len(list) = Cardinality(positions)
               /\ list = <<>> <=> positions = {}
               /\ \A m \in positions : (\A j \in positions : j <= m) =>
                     Projections!LastOf(list) = events[m].body
<1> DEFINE list == Projections!BodiesAt(events, positions)
           bodies == {events[i].body : i \in positions}
<1>1. /\ list \in Seq(bodies)
      /\ Len(list) = Cardinality(positions)
      /\ \A i \in positions : Rank(positions, i) \in 1..Len(list)
                              /\ list[Rank(positions, i)] = events[i].body
      /\ \A k \in 1..Len(list) : \E i \in positions : Rank(positions, i) = k
  BY BodiesInOrder
<1> HIDE DEF list
<1>2. Len(list) \in Nat /\ DOMAIN list = 1..Len(list)
  BY <1>1
<1>3. Elements(list) = bodies
  <2>1. \A k \in 1..Len(list) : list[k] \in bodies
    BY <1>1
  <2>2. \A i \in positions : \E k \in 1..Len(list) : list[k] = events[i].body
    BY <1>1
  <2> QED BY <1>2, <2>1, <2>2 DEF Elements
<1>4. list = <<>> <=> positions = {}
  <2>1. list = <<>> <=> Len(list) = 0
    BY <1>1
  <2>2. ASSUME positions # {} PROVE Len(list) # 0
    <3>1. PICK i \in positions : TRUE
      BY <2>2
    <3> QED BY <1>1, <1>2, <3>1
  <2>3. Len(list) # 0 => positions # {}
    BY <1>1, <1>2
  <2> QED BY <2>1, <2>2, <2>3
<1>5. ASSUME NEW m \in positions, \A j \in positions : j <= m
      PROVE  Projections!LastOf(list) = events[m].body
  <2>1. {j \in positions : j <= m} = positions
    BY <1>5
  <2>2. Rank(positions, m) = Len(list)
    BY <1>1, <2>1 DEF Rank
  <2>3. list # <<>>
    BY <1>4
  <2> QED BY <1>1, <2>2, <2>3 DEF Projections!LastOf
<1> QED BY <1>1, <1>3, <1>4, <1>5 DEF list

TypedUpTo(n, type) == {i \in 1..n : log[i].type = type}

ProposedUpTo(n) == {i \in 1..n : log[i].type = "ProposalReceived" /\ log[i].body.kind = "final_candidate"}

IsLastOf(m, positions) == m \in positions /\ \A j \in positions : j <= m

\* The list holds the bodies of the log's events at the positions.
Lists(list, positions) ==
    /\ Elements(list) = {log[i].body : i \in positions}
    /\ Len(list) = Cardinality(positions)
    /\ list = <<>> <=> positions = {}
    /\ \A m : IsLastOf(m, positions) => Projections!LastOf(list) = log[m].body

\* What a projection lists of the log cut at n.
LEMMA ReadBack ==
    ASSUME TypeOK, NEW n \in 1..Len(log)
    PROVE  LET events == SubSeq(Stored(log), 1, n)
           IN  /\ \A type : Lists(Bodies(events, type), TypedUpTo(n, type))
               /\ Lists(Projections!FinalCandidatesOf(events), ProposedUpTo(n))
               /\ FinalProposals(events) = ProposedUpTo(n)
<1> DEFINE events == SubSeq(Stored(log), 1, n)
<1>1. /\ n \in Nat /\ Len(events) = n /\ DOMAIN events = 1..n
      /\ \A i \in 1..n : events[i].type = log[i].type /\ events[i].body = log[i].body
  BY CutEvents
<1> HIDE DEF events
<1>2. ASSUME NEW positions, positions \subseteq 1..n
      PROVE  Lists(Projections!BodiesAt(events, positions), positions)
  <2> DEFINE list == Projections!BodiesAt(events, positions)
  <2>1. /\ Elements(list) = {events[i].body : i \in positions}
        /\ Len(list) = Cardinality(positions)
        /\ list = <<>> <=> positions = {}
        /\ \A m \in positions : (\A j \in positions : j <= m) =>
              Projections!LastOf(list) = events[m].body
    BY <1>1, <1>2, ListedBodies
  <2> HIDE DEF list
  <2>2. \A i \in positions : events[i].body = log[i].body
    BY <1>1, <1>2
  <2>3. {events[i].body : i \in positions} = {log[i].body : i \in positions}
    BY <2>2
  <2>4. \A m : IsLastOf(m, positions) => Projections!LastOf(list) = log[m].body
    BY <2>1, <2>2 DEF IsLastOf
  <2> QED BY <2>1, <2>3, <2>4 DEF Lists, list
<1>3. ASSUME NEW type PROVE Lists(Bodies(events, type), TypedUpTo(n, type))
  <2>1. Projections!PositionsOf(events, type) = TypedUpTo(n, type)
    BY <1>1 DEF Projections!PositionsOf, TypedUpTo
  <2>2. Lists(Projections!BodiesAt(events, TypedUpTo(n, type)), TypedUpTo(n, type))
    <3>1. TypedUpTo(n, type) \subseteq 1..n
      BY DEF TypedUpTo
    <3> QED BY <1>2, <3>1
  <2> QED BY <2>1, <2>2, Zenon DEF Bodies, Projections!BodiesOf
<1>4. Lists(Projections!FinalCandidatesOf(events), ProposedUpTo(n))
  <2>1. {i \in Projections!PositionsOf(events, "ProposalReceived") : events[i].body.kind = "final_candidate"}
           = ProposedUpTo(n)
    BY <1>1 DEF Projections!PositionsOf, ProposedUpTo
  <2>2. Lists(Projections!BodiesAt(events, ProposedUpTo(n)), ProposedUpTo(n))
    <3>1. ProposedUpTo(n) \subseteq 1..n
      BY DEF ProposedUpTo
    <3> QED BY <1>2, <3>1
  <2> QED BY <2>1, <2>2, Zenon DEF Projections!FinalCandidatesOf
<1>5. FinalProposals(events) = ProposedUpTo(n)
  BY <1>1 DEF FinalProposals, ProposedUpTo
<1> QED BY <1>3, <1>4, <1>5 DEF events

\* A decision that releases does so on a passing proof, which approves every claim.
LEMMA ReleasedOnPass ==
    ASSUME NEW c, NEW proof, IsProofOf(proof, c), DecideRelease(c, proof).status = "released"
    PROVE  /\ proof.verdict = "pass"
           /\ DecideRelease(c, proof).approved = {x.claimId : x \in Elements(c.claims)}
<1>1. DecideRelease(c, proof).status = DecisionStatus(proof)
  BY DEF DecideRelease
<1>2. DecideRelease(c, proof).approved = proof.approved
  BY DEF DecideRelease
<1>3. proof.verdict = "fail" => DecisionStatus(proof) = "blocked"
  BY DEF DecisionStatus
<1>4. proof.verdict = "pass"
  BY <1>1, <1>3 DEF IsProofOf
<1> QED BY <1>2, <1>4 DEF IsProofOf

\* What a release event shows: its submission, proposed and decided before.
LEMMA ReleaseShown ==
    ASSUME TypeOK, EventsAreSubmitted, NEW n \in 1..Len(log), NEW f \in TypedUpTo(n, "FinalReleased")
    PROVE  \E s \in ProposedUpTo(n) :
              /\ Submission(log, s, f)
              /\ log[f].body.candidate = log[s].body
              /\ f - 1 \in TypedUpTo(n, "ReleaseDecided")
              /\ log[f - 1].body.status = "released"
              /\ log[f - 1].body = DecideRelease(log[s].body, log[s + 1].body)
              /\ log[f - 1].body.approved = {x.claimId : x \in Elements(log[s].body.claims)}
<1>1. /\ Len(log) \in Nat /\ DOMAIN log = 1..Len(log) /\ n \in Nat /\ 1..n \subseteq 1..Len(log)
      /\ f \in 1..n /\ f \in Nat /\ log[f].type = "FinalReleased"
  <2>1. Len(log) \in Nat /\ DOMAIN log = 1..Len(log)
    BY DEF TypeOK
  <2> QED BY <2>1 DEF TypedUpTo
<1>2. PICK s \in 1..(f - 1) : Submission(log, s, f)
  <2>1. f \in DOMAIN log /\ log[f].type \in FinalTypes
    BY <1>1 DEF FinalTypes
  <2> QED BY <2>1 DEF EventsAreSubmitted
<1>3. /\ log[s].type = "ProposalReceived" /\ log[s].body \in FinalCandidates
      /\ log[s + 1].type = "ProofGenerated" /\ IsProofOf(log[s + 1].body, log[s].body)
      /\ \A k \in (s + 2)..f :
            \/ log[k].type = "MismatchDetected"
            \/ log[k].type = "ReleaseDecided" /\ log[k].body = DecideRelease(log[s].body, log[s + 1].body)
            \/ /\ log[k].type = "FinalReleased"
               /\ k - 1 \in (s + 2)..f
               /\ log[k - 1].type = "ReleaseDecided" /\ log[k - 1].body.status = "released"
               /\ log[k].body.candidate = log[s].body
  BY <1>2 DEF Submission
<1>4. s \in Nat /\ s >= 1 /\ f >= s + 1 /\ f # s + 1
  BY <1>1, <1>3
<1>5. f \in (s + 2)..f
  BY <1>1, <1>4
<1>6. /\ f - 1 \in (s + 2)..f
      /\ log[f - 1].type = "ReleaseDecided" /\ log[f - 1].body.status = "released"
      /\ log[f].body.candidate = log[s].body
  BY <1>1, <1>3, <1>5
<1>7. log[f - 1].body = DecideRelease(log[s].body, log[s + 1].body)
  BY <1>3, <1>6
<1>8. s \in ProposedUpTo(n)
  <2>1. s \in 1..n
    BY <1>1, <1>4
  <2>2. log[s].body.kind = "final_candidate"
    BY <1>3, CandidatesAreKnown
  <2> QED BY <1>3, <2>1, <2>2 DEF ProposedUpTo
<1>9. f - 1 \in TypedUpTo(n, "ReleaseDecided")
  <2>1. f - 1 \in 1..n
    BY <1>1, <1>4
  <2> QED BY <1>6, <2>1 DEF TypedUpTo
<1>10. log[f - 1].body.approved = {x.claimId : x \in Elements(log[s].body.claims)}
  BY <1>3, <1>6, <1>7, ReleasedOnPass
<1> QED BY <1>2, <1>6, <1>7, <1>8, <1>9, <1>10

\* After the last final proposal, every event of a release is of its submission.
LEMMA OfTheLastSubmission ==
    ASSUME TypeOK, EventsAreSubmitted, NEW n \in 1..Len(log), NEW final, IsLastOf(final, ProposedUpTo(n)),
           NEW k \in 1..n, k > final, log[k].type \in FinalTypes
    PROVE  Submission(log, final, k)
<1>1. Len(log) \in Nat /\ DOMAIN log = 1..Len(log) /\ n \in Nat /\ k \in DOMAIN log /\ k \in Nat
  BY DEF TypeOK
<1>2. PICK s \in 1..(k - 1) : Submission(log, s, k)
  BY <1>1 DEF EventsAreSubmitted
<1>3. /\ log[s].type = "ProposalReceived" /\ log[s].body \in FinalCandidates
      /\ log[s + 1].type = "ProofGenerated"
      /\ \A j \in (s + 2)..k : log[j].type \in {"MismatchDetected", "ReleaseDecided", "FinalReleased"}
  BY <1>2 DEF Submission
<1>4. s \in ProposedUpTo(n)
  <2>1. s \in 1..n
    BY <1>1
  <2>2. log[s].body.kind = "final_candidate"
    BY <1>3, CandidatesAreKnown
  <2> QED BY <1>3, <2>1, <2>2 DEF ProposedUpTo
<1>5. s <= final /\ final \in 1..n /\ log[final].type = "ProposalReceived"
  BY <1>4 DEF IsLastOf, ProposedUpTo
<1>6. CASE s = final
  BY <1>2, <1>6
<1>7. CASE s # final
  <2>1. final = s + 1 \/ final \in (s + 2)..k
    BY <1>1, <1>5, <1>7
  <2> QED BY <1>3, <1>5, <2>1
<1> QED BY <1>6, <1>7

\* What a projection's fields hold of the log cut at n.
LEMMA ShownFields ==
    ASSUME TypeOK, NEW n \in 1..Len(log)
    PROVE  LET events == SubSeq(Stored(log), 1, n)
               shown == Projections!RebuildRunProjection(events)
               candidates == ProposedUpTo(n)
               proofs == TypedUpTo(n, "ProofGenerated")
               decisions == TypedUpTo(n, "ReleaseDecided")
               releases == TypedUpTo(n, "FinalReleased")
           IN  /\ Elements(shown.finalCandidates) = {log[i].body : i \in candidates}
               /\ Len(shown.finalCandidates) = Cardinality(candidates)
               /\ \A m : IsLastOf(m, candidates) => shown.finalCandidate = log[m].body
               /\ \A m : IsLastOf(m, proofs) => shown.proof = log[m].body
               /\ \A m : IsLastOf(m, decisions) => shown.status = log[m].body.status
               /\ shown.finalReleased <=> releases # {}
               /\ \A m : IsLastOf(m, releases) => shown.finalReleasedCandidate = log[m].body.candidate
               /\ Elements(Bodies(events, "ReleaseDecided")) = {log[i].body : i \in decisions}
<1> DEFINE events == SubSeq(Stored(log), 1, n)
           shown == Projections!RebuildRunProjection(events)
           candidateList == Projections!FinalCandidatesOf(events)
           proofList == Bodies(events, "ProofGenerated")
           decisionList == Bodies(events, "ReleaseDecided")
           releaseList == Bodies(events, "FinalReleased")
<1>1. /\ Lists(candidateList, ProposedUpTo(n))
      /\ Lists(proofList, TypedUpTo(n, "ProofGenerated"))
      /\ Lists(decisionList, TypedUpTo(n, "ReleaseDecided"))
      /\ Lists(releaseList, TypedUpTo(n, "FinalReleased"))
  BY ReadBack
<1> HIDE DEF events
<1>2. /\ shown.finalCandidates = candidateList
      /\ shown.finalCandidate = Projections!LastOf(candidateList)
      /\ shown.proof = Projections!LastOf(proofList)
      /\ shown.status = Projections!RunStatus(events)
      /\ shown.finalReleased = (releaseList # <<>>)
      /\ shown.finalReleasedCandidate = IF releaseList = <<>> THEN Null
                                        ELSE Projections!LastOf(releaseList).candidate
  BY DEF Projections!RebuildRunProjection, Bodies
<1>3. decisionList # <<>> => shown.status = Projections!LastOf(decisionList).status
  BY <1>2 DEF Projections!RunStatus, Bodies
<1> HIDE DEF shown, candidateList, proofList, decisionList, releaseList
<1>4. \A m : /\ IsLastOf(m, TypedUpTo(n, "ReleaseDecided")) => decisionList # <<>>
             /\ IsLastOf(m, TypedUpTo(n, "FinalReleased")) => releaseList # <<>>
  BY <1>1 DEF Lists, IsLastOf
<1>5. /\ \A m : IsLastOf(m, TypedUpTo(n, "ReleaseDecided")) => shown.status = log[m].body.status
      /\ \A m : IsLastOf(m, TypedUpTo(n, "FinalReleased")) =>
            shown.finalReleasedCandidate = log[m].body.candidate
  <2>1. ASSUME NEW m, IsLastOf(m, TypedUpTo(n, "ReleaseDecided")) PROVE shown.status = log[m].body.status
    BY <1>1, <1>3, <1>4, <2>1 DEF Lists
  <2>2. ASSUME NEW m, IsLastOf(m, TypedUpTo(n, "FinalReleased"))
        PROVE  shown.finalReleasedCandidate = log[m].body.candidate
    BY <1>1, <1>2, <1>4, <2>2 DEF Lists
  <2> QED BY <2>1, <2>2
<1>6. /\ Elements(shown.finalCandidates) = {log[i].body : i \in ProposedUpTo(n)}
      /\ Len(shown.finalCandidates) = Cardinality(ProposedUpTo(n))
      /\ \A m : IsLastOf(m, ProposedUpTo(n)) => shown.finalCandidate = log[m].body
      /\ \A m : IsLastOf(m, TypedUpTo(n, "ProofGenerated")) => shown.proof = log[m].body
      /\ Elements(decisionList) = {log[i].body : i \in TypedUpTo(n, "ReleaseDecided")}
  BY <1>1, <1>2 DEF Lists
<1>7. shown.finalReleased <=> TypedUpTo(n, "FinalReleased") # {}
  BY <1>1, <1>2 DEF Lists
<1> QED BY <1>5, <1>6, <1>7 DEF shown, events, decisionList

\* A last position exists in each list's positions that has any.
LEMMA LastTyped ==
    ASSUME TypeOK, NEW n \in 1..Len(log), NEW positions, positions \subseteq 1..n, positions # {}
    PROVE  \E m : IsLastOf(m, positions)
<1>1. n \in Nat
  BY DEF TypeOK
<1> QED BY <1>1, LastPosition DEF IsLastOf

\* Only what a decision in the stream released is shown as released.
LEMMA ShownWasReleased ==
    ASSUME TypeOK, EventsAreSubmitted, NEW n \in 1..Len(log)
    PROVE  LET events == SubSeq(Stored(log), 1, n)
               shown == Projections!RebuildRunProjection(events)
           IN  shown.finalReleased =>
                  /\ shown.finalReleasedCandidate \in Elements(shown.finalCandidates)
                  /\ \E d \in Elements(Bodies(events, "ReleaseDecided")) :
                        /\ d.status = "released"
                        /\ d.approved = {c.claimId : c \in Elements(shown.finalReleasedCandidate.claims)}
<1> DEFINE events == SubSeq(Stored(log), 1, n)
           shown == Projections!RebuildRunProjection(events)
<1> SUFFICES ASSUME shown.finalReleased
             PROVE  /\ shown.finalReleasedCandidate \in Elements(shown.finalCandidates)
                    /\ \E d \in Elements(Bodies(events, "ReleaseDecided")) :
                          /\ d.status = "released"
                          /\ d.approved = {c.claimId : c \in Elements(shown.finalReleasedCandidate.claims)}
  OBVIOUS
<1>1. /\ TypedUpTo(n, "FinalReleased") # {}
      /\ Elements(shown.finalCandidates) = {log[i].body : i \in ProposedUpTo(n)}
      /\ \A m : IsLastOf(m, TypedUpTo(n, "FinalReleased")) =>
            shown.finalReleasedCandidate = log[m].body.candidate
      /\ Elements(Bodies(events, "ReleaseDecided")) = {log[i].body : i \in TypedUpTo(n, "ReleaseDecided")}
  BY ShownFields
<1> HIDE DEF events, shown
<1>2. PICK f : IsLastOf(f, TypedUpTo(n, "FinalReleased"))
  <2>1. TypedUpTo(n, "FinalReleased") \subseteq 1..n
    BY DEF TypedUpTo
  <2> QED BY <1>1, <2>1, LastTyped
<1>3. PICK s \in ProposedUpTo(n) :
         /\ log[f].body.candidate = log[s].body
         /\ f - 1 \in TypedUpTo(n, "ReleaseDecided")
         /\ log[f - 1].body.status = "released"
         /\ log[f - 1].body.approved = {x.claimId : x \in Elements(log[s].body.claims)}
  BY <1>2, ReleaseShown DEF IsLastOf
<1>4. shown.finalReleasedCandidate = log[s].body
  BY <1>1, <1>2, <1>3
<1>5. log[f - 1].body \in Elements(Bodies(events, "ReleaseDecided"))
  BY <1>1, <1>3
<1> QED BY <1>1, <1>3, <1>4, <1>5

\* The events after a position, up to the cut, that FirstEventAfter looks for.
LEMMA FoundAfter ==
    ASSUME TypeOK, NEW n \in 1..Len(log), NEW i \in Nat, NEW type,
           FirstEventAfter(SubSeq(Stored(log), 1, n), i, type) # 0
    PROVE  LET first == FirstEventAfter(SubSeq(Stored(log), 1, n), i, type)
           IN  first \in TypedUpTo(n, type) /\ first > i
<1> DEFINE events == SubSeq(Stored(log), 1, n)
           found == EventsAfter(events, i, type)
           first == FirstEventAfter(events, i, type)
<1>1. /\ n \in Nat /\ DOMAIN events = 1..n /\ \A j \in 1..n : events[j].type = log[j].type
  BY CutEvents
<1> HIDE DEF events
<1>2. found = {j \in TypedUpTo(n, type) : j > i}
  BY <1>1 DEF EventsAfter, TypedUpTo
<1>3. found # {} /\ first = Earliest(found)
  BY DEF FirstEventAfter, events
<1> HIDE DEF found, first
<1>4. found \subseteq Nat
  BY <1>1, <1>2 DEF TypedUpTo
<1>5. \E j \in found : \A k \in found : j <= k
  BY <1>3, <1>4, LeastOf
<1>6. first \in found
  BY <1>3, <1>5 DEF Earliest
<1> QED BY <1>2, <1>6 DEF first, events

\* The last submission of a decided cut: its proof comes first after its proposal,
\* and every decision and release after that is its own.
LEMMA DecidedSubmission ==
    ASSUME TypeOK, EventsAreSubmitted, NEW n \in 1..Len(log), IsDecided(SubSeq(Stored(log), 1, n))
    PROVE  \E final : LET decision == DecideRelease(log[final].body, log[final + 1].body)
                      IN  /\ IsLastOf(final, ProposedUpTo(n))
                          /\ IsLastOf(final + 1, TypedUpTo(n, "ProofGenerated"))
                          /\ IsProofOf(log[final + 1].body, log[final].body)
                          /\ \E r \in TypedUpTo(n, "ReleaseDecided") : r > final
                          /\ \A k \in TypedUpTo(n, "ReleaseDecided") : k > final => log[k].body = decision
                          /\ decision.status = "released" =>
                                \E f \in TypedUpTo(n, "FinalReleased") : f > final
                          /\ \A k \in TypedUpTo(n, "FinalReleased") :
                                k > final => log[k].body.candidate = log[final].body
<1> DEFINE events == SubSeq(Stored(log), 1, n)
           at == LastSubmission(events)
           final == at.final
           decision == DecideRelease(log[final].body, log[final + 1].body)
<1>1. /\ Len(log) \in Nat /\ DOMAIN log = 1..Len(log) /\ n \in Nat /\ 1..n \subseteq Nat
      /\ FinalProposals(events) = ProposedUpTo(n) /\ ProposedUpTo(n) \subseteq 1..n
      /\ \A i \in 1..n : events[i].body = log[i].body
  BY CutEvents, ReadBack DEF ProposedUpTo
<1>2. /\ ProposedUpTo(n) # {}
      /\ at.proof # 0 /\ at.release # 0
      /\ events[at.release].body.status = "released" => at.released # 0
  BY <1>1 DEF IsDecided
<1>3. /\ final = Latest(ProposedUpTo(n))
      /\ at.proof = FirstEventAfter(events, final, "ProofGenerated")
      /\ at.release = FirstEventAfter(events, at.proof, "ReleaseDecided")
      /\ at.released = FirstEventAfter(events, at.release, "FinalReleased")
  BY <1>1 DEF LastSubmission
<1> HIDE DEF at, final
<1>4. IsLastOf(final, ProposedUpTo(n)) /\ final \in Nat
  <2>1. \E m : IsLastOf(m, ProposedUpTo(n))
    BY <1>1, <1>2, LastTyped
  <2>2. IsLastOf(final, ProposedUpTo(n))
    BY <1>3, <2>1 DEF Latest, IsLastOf
  <2> QED BY <1>1, <2>2 DEF IsLastOf
<1>5. at.proof \in TypedUpTo(n, "ProofGenerated") /\ at.proof > final /\ at.proof \in Nat
  <2>1. at.proof \in TypedUpTo(n, "ProofGenerated") /\ at.proof > final
    BY <1>2, <1>3, <1>4, FoundAfter DEF events
  <2> QED BY <1>1, <2>1 DEF TypedUpTo
<1>6. at.release \in TypedUpTo(n, "ReleaseDecided") /\ at.release > at.proof /\ at.release \in Nat
  <2>1. at.release \in TypedUpTo(n, "ReleaseDecided") /\ at.release > at.proof
    BY <1>2, <1>3, <1>5, FoundAfter DEF events
  <2> QED BY <1>1, <2>1 DEF TypedUpTo
<1>7. at.released # 0 => at.released \in TypedUpTo(n, "FinalReleased") /\ at.released > at.release
  BY <1>3, <1>6, FoundAfter DEF events
<1> HIDE DEF events, decision
<1>8. ASSUME NEW k \in 1..n, k > final, log[k].type \in FinalTypes
      PROVE  /\ k >= final + 1 /\ k \in Nat
             /\ log[final + 1].type = "ProofGenerated"
             /\ IsProofOf(log[final + 1].body, log[final].body)
             /\ k # final + 1 =>
                   \/ log[k].type = "MismatchDetected"
                   \/ log[k].type = "ReleaseDecided" /\ log[k].body = decision
                   \/ log[k].type = "FinalReleased" /\ log[k].body.candidate = log[final].body
  <2>1. Submission(log, final, k)
    BY <1>4, <1>8, OfTheLastSubmission
  <2>2. k \in Nat /\ k >= final + 1 /\ (k # final + 1 => k \in (final + 2)..k)
    BY <1>1, <1>4, <1>8
  <2> QED BY <2>1, <2>2 DEF Submission, decision
<1>9. /\ \A type \in FinalTypes : \A k \in TypedUpTo(n, type) : k \in 1..n /\ log[k].type = type
      /\ {"ProofGenerated", "ReleaseDecided", "FinalReleased"} \subseteq FinalTypes
  BY DEF TypedUpTo, FinalTypes
<1>10. /\ \A k \in TypedUpTo(n, "ProofGenerated") : k > final => k = final + 1
       /\ log[final + 1].type = "ProofGenerated"
       /\ IsProofOf(log[final + 1].body, log[final].body)
  <2>1. ASSUME NEW k \in TypedUpTo(n, "ProofGenerated"), k > final
        PROVE  /\ k = final + 1 /\ log[final + 1].type = "ProofGenerated"
               /\ IsProofOf(log[final + 1].body, log[final].body)
    <3>1. k \in 1..n /\ log[k].type = "ProofGenerated" /\ log[k].type \in FinalTypes
      BY <1>9
    <3> QED BY <1>8, <2>1, <3>1
  <2> QED BY <1>5, <2>1
<1>11. IsLastOf(final + 1, TypedUpTo(n, "ProofGenerated"))
  <2>1. final + 1 \in TypedUpTo(n, "ProofGenerated")
    BY <1>5, <1>10
  <2>2. ASSUME NEW k \in TypedUpTo(n, "ProofGenerated") PROVE k <= final + 1
    <3>1. k \in Nat
      BY <1>1 DEF TypedUpTo
    <3> QED BY <1>4, <1>10, <3>1
  <2> QED BY <2>1, <2>2 DEF IsLastOf
<1>12. ASSUME NEW k \in TypedUpTo(n, "ReleaseDecided"), k > final PROVE log[k].body = decision
  <2>1. k \in 1..n /\ log[k].type = "ReleaseDecided" /\ log[k].type \in FinalTypes
    BY <1>9
  <2> QED BY <1>8, <1>10, <1>12, <2>1
<1>13. ASSUME NEW k \in TypedUpTo(n, "FinalReleased"), k > final
       PROVE  log[k].body.candidate = log[final].body
  <2>1. k \in 1..n /\ log[k].type = "FinalReleased" /\ log[k].type \in FinalTypes
    BY <1>9
  <2> QED BY <1>8, <1>10, <1>13, <2>1
<1>14. at.release > final
  BY <1>4, <1>5, <1>6
<1>15. ASSUME decision.status = "released"
       PROVE  \E f \in TypedUpTo(n, "FinalReleased") : f > final
  <2>1. events[at.release].body = decision
    <3>1. at.release \in 1..n
      BY <1>6 DEF TypedUpTo
    <3> QED BY <1>1, <1>6, <1>12, <1>14, <3>1
  <2>2. at.released \in TypedUpTo(n, "FinalReleased") /\ at.released > at.release
    BY <1>2, <1>7, <1>15, <2>1
  <2>3. at.released > final
    <3>1. at.released \in Nat
      BY <1>1, <2>2 DEF TypedUpTo
    <3> QED BY <1>4, <1>6, <1>14, <2>2, <3>1
  <2> QED BY <2>2, <2>3
<1> QED BY <1>4, <1>6, <1>10, <1>11, <1>12, <1>13, <1>14, <1>15 DEF decision

\* While the last submission is carried through, a release shows as released, and
\* what shows is its candidate and its proof.
LEMMA ShownWhenDecided ==
    ASSUME TypeOK, EventsAreSubmitted, NEW n \in 1..Len(log), IsDecided(SubSeq(Stored(log), 1, n))
    PROVE  LET shown == Projections!RebuildRunProjection(SubSeq(Stored(log), 1, n))
           IN  /\ shown.status = "released" =>
                     /\ shown.finalReleasedCandidate = shown.finalCandidate
                     /\ shown.proof.verdict = "pass"
               /\ Len(shown.finalCandidates) = 1 =>
                     (shown.finalReleased <=> shown.status = "released")
<1> DEFINE shown == Projections!RebuildRunProjection(SubSeq(Stored(log), 1, n))
           candidates == ProposedUpTo(n)
           decisions == TypedUpTo(n, "ReleaseDecided")
           releases == TypedUpTo(n, "FinalReleased")
<1>1. /\ n \in Nat /\ 1..n \subseteq Nat
      /\ candidates \subseteq 1..n /\ decisions \subseteq 1..n /\ releases \subseteq 1..n
  BY CutEvents DEF ProposedUpTo, TypedUpTo
<1>2. PICK final : LET decision == DecideRelease(log[final].body, log[final + 1].body)
                   IN  /\ IsLastOf(final, candidates)
                       /\ IsLastOf(final + 1, TypedUpTo(n, "ProofGenerated"))
                       /\ IsProofOf(log[final + 1].body, log[final].body)
                       /\ \E r \in decisions : r > final
                       /\ \A k \in decisions : k > final => log[k].body = decision
                       /\ decision.status = "released" => \E f \in releases : f > final
                       /\ \A k \in releases : k > final => log[k].body.candidate = log[final].body
  BY DecidedSubmission
<1> DEFINE decision == DecideRelease(log[final].body, log[final + 1].body)
<1>3. /\ Len(shown.finalCandidates) = Cardinality(candidates)
      /\ \A m : IsLastOf(m, candidates) => shown.finalCandidate = log[m].body
      /\ \A m : IsLastOf(m, TypedUpTo(n, "ProofGenerated")) => shown.proof = log[m].body
      /\ \A m : IsLastOf(m, decisions) => shown.status = log[m].body.status
      /\ shown.finalReleased <=> releases # {}
      /\ \A m : IsLastOf(m, releases) => shown.finalReleasedCandidate = log[m].body.candidate
  BY ShownFields
<1>4. final \in Nat /\ final \in candidates
  BY <1>1, <1>2 DEF IsLastOf
<1> HIDE DEF shown, candidates, decisions, releases, decision
<1>5. ASSUME NEW S, S \subseteq 1..n, NEW k \in S, k > final
      PROVE  \E m \in S : IsLastOf(m, S) /\ m > final
  <2>1. PICK m : IsLastOf(m, S)
    BY <1>5, LastTyped
  <2>2. m \in S /\ k <= m /\ m \in Nat /\ k \in Nat
    BY <1>1, <1>5, <2>1 DEF IsLastOf
  <2>3. m > final
    BY <1>4, <1>5, <2>2
  <2> QED BY <2>1, <2>2, <2>3
<1>6. shown.status = decision.status
  <2>1. PICK r \in decisions : r > final
    BY <1>2
  <2>2. PICK m \in decisions : IsLastOf(m, decisions) /\ m > final
    BY <1>1, <1>5, <2>1
  <2>3. log[m].body = decision
    BY <1>2, <2>2 DEF decision
  <2> QED BY <1>3, <2>2, <2>3
<1>7. ASSUME decision.status = "released"
      PROVE  /\ shown.finalReleasedCandidate = shown.finalCandidate
             /\ shown.proof.verdict = "pass"
             /\ shown.finalReleased
  <2>1. PICK f \in releases : f > final
    BY <1>2, <1>7 DEF decision
  <2>2. PICK m \in releases : IsLastOf(m, releases) /\ m > final
    BY <1>1, <1>5, <2>1
  <2>3. log[m].body.candidate = log[final].body
    BY <1>2, <2>2
  <2>4. shown.finalReleasedCandidate = shown.finalCandidate
    BY <1>2, <1>3, <2>2, <2>3
  <2>5. log[final + 1].body.verdict = "pass"
    BY <1>2, <1>7, ReleasedOnPass DEF decision
  <2> QED BY <1>2, <1>3, <2>1, <2>4, <2>5
<1>8. ASSUME Len(shown.finalCandidates) = 1, shown.finalReleased
      PROVE  decision.status = "released"
  <2>1. PICK f \in releases : TRUE
    BY <1>3, <1>8
  <2>2. PICK s \in candidates :
           /\ f - 1 \in decisions
           /\ log[f - 1].body.status = "released"
           /\ log[f - 1].body = DecideRelease(log[s].body, log[s + 1].body)
    BY <2>1, ReleaseShown DEF releases, candidates, decisions
  <2>3. s = final
    <3>1. IsFiniteSet(1..n)
      BY <1>1, FS_Interval
    <3>2. IsFiniteSet(candidates)
      BY <1>1, <3>1, FS_Subset
    <3>3. PICK x : candidates = {x}
      BY <1>3, <1>8, <3>2, FS_Singleton
    <3> QED BY <1>4, <2>2, <3>3
  <2> QED BY <2>2, <2>3 DEF decision
<1> QED BY <1>6, <1>7, <1>8 DEF shown

\* Of a whole log that can be rebuilt, a projection lists what the kernel keeps.
LEMMA ListsShown ==
    ASSUME TypeOK, PrivateStateFollowsLog, NEW type \in KeptTypes, log # <<>>,
           Projections!CanBeRebuilt(SubSeq(Stored(log), 1, Len(log)))
    PROVE  Bodies(SubSeq(Stored(log), 1, Len(log)), type) = kept[type]
<1> DEFINE n == Len(log)
           events == SubSeq(Stored(log), 1, n)
           list == Bodies(events, type)
           positions == Projections!PositionsOf(events, type)
<1>1. /\ n \in Nat /\ Len(events) = n /\ DOMAIN events = 1..n /\ DOMAIN log = 1..n
      /\ \A i \in 1..n : /\ events[i].type = log[i].type
                         /\ events[i].body = log[i].body
                         /\ events[i].intact = log[i].wellFormed
  <2>1. Len(log) \in 1..Len(log)
    BY DEF TypeOK
  <2> QED BY <2>1, CutEvents
<1>2. \A i \in 1..n : log[i].wellFormed
  <2>1. \A i \in DOMAIN events : events[i].intact
    BY DEF Projections!CanBeRebuilt, Projections!ValidateAcceptedEventSequence, Projections!IsRunStream
  <2> HIDE DEF events
  <2> QED BY <1>1, <2>1
<1> HIDE DEF events, n
<1>3. positions = AcceptedEvents(type) /\ positions \subseteq 1..n
  BY <1>1, <1>2 DEF Projections!PositionsOf, AcceptedEvents, Is
<1>4. /\ list = Projections!BodiesAt(events, positions)
      /\ list \in Seq({events[i].body : i \in positions})
      /\ Len(list) = Cardinality(positions)
      /\ \A i \in positions : list[Rank(positions, i)] = events[i].body
      /\ \A k \in 1..Len(list) : \E i \in positions : Rank(positions, i) = k
  <2>1. list = Projections!BodiesAt(events, positions)
    BY DEF Bodies, Projections!BodiesOf
  <2> DEFINE pushed == Projections!BodiesAt(events, positions)
  <2> HIDE DEF list, positions
  <2>2. /\ pushed \in Seq({events[i].body : i \in positions})
        /\ Len(pushed) = Cardinality(positions)
        /\ \A i \in positions : pushed[Rank(positions, i)] = events[i].body
        /\ \A k \in 1..Len(pushed) : \E i \in positions : Rank(positions, i) = k
    <3>1. Len(events) \in Nat /\ positions \subseteq 1..Len(events)
      BY <1>1, <1>3
    <3> QED BY <3>1, BodiesInOrder
  <2> QED BY <2>1, <2>2
<1>5. /\ Len(kept[type]) = Cardinality(positions)
      /\ \A i \in positions : kept[type][Rank(positions, i)] = log[i].body
      /\ kept[type] \in Seq(Inputs[type])
  <2>1. kept[type] \in Seq(Inputs[type])
    BY DEF TypeOK
  <2>2. /\ Len(kept[type]) = Cardinality(AcceptedEvents(type))
        /\ \A i \in AcceptedEvents(type) :
              kept[type][Cardinality({j \in AcceptedEvents(type) : j <= i})] = log[i].body
    BY Zenon DEF PrivateStateFollowsLog
  <2> HIDE DEF positions
  <2> QED BY <1>3, <2>1, <2>2 DEF Rank
<1> HIDE DEF positions, list
<1>6. \A k \in 1..Len(list) : list[k] = kept[type][k]
  BY <1>1, <1>3, <1>4, <1>5
<1>7. Len(list) \in Nat /\ list = [k \in 1..Len(list) |-> list[k]]
  BY <1>4
<1>8. kept[type] = [k \in 1..Len(list) |-> kept[type][k]]
  BY <1>4, <1>5
<1> QED BY <1>6, <1>7, <1>8 DEF list, events, n

\* A projection does not tell another story than the run (rebuildRunProjection over
\* what submitFinalCandidate and the record methods append).
THEOREM ProjectionsAreCoherent == HistorySpec => []ProjectionIsCoherent
<1>1. TypeOK /\ EventsAreSubmitted /\ PrivateStateFollowsLog => ProjectionIsCoherent
  <2> SUFFICES ASSUME TypeOK, EventsAreSubmitted, PrivateStateFollowsLog, NEW n \in 1..Len(log),
                      Projections!CanBeRebuilt(SubSeq(Stored(log), 1, n))
               PROVE  LET events == SubSeq(Stored(log), 1, n)
                          shown  == Projections!RebuildRunProjection(events)
                      IN  /\ shown.finalReleased =>
                                /\ shown.finalReleasedCandidate \in Elements(shown.finalCandidates)
                                /\ SomeWith(Bodies(events, "ReleaseDecided"),
                                       LAMBDA d : /\ d.status = "released"
                                                  /\ d.approved =
                                                        {c.claimId : c \in Elements(shown.finalReleasedCandidate.claims)})
                          /\ IsDecided(events) =>
                                /\ shown.status = "released" =>
                                      /\ shown.finalReleasedCandidate = shown.finalCandidate
                                      /\ shown.proof.verdict = "pass"
                                /\ Len(shown.finalCandidates) = 1 =>
                                      (shown.finalReleased <=> shown.status = "released")
                          /\ n = Len(log) =>
                                /\ shown.proposals = kept["ProposalReceived"]
                                /\ shown.effectRequests = kept["EffectRequested"]
                                /\ shown.receipts = kept["EffectReceiptRecorded"]
                                /\ shown.observations = kept["ExternalStateObserved"]
    BY DEF ProjectionIsCoherent
  <2> DEFINE events == SubSeq(Stored(log), 1, n)
             shown == Projections!RebuildRunProjection(events)
  <2>1. shown.finalReleased =>
           /\ shown.finalReleasedCandidate \in Elements(shown.finalCandidates)
           /\ \E d \in Elements(Bodies(events, "ReleaseDecided")) :
                 /\ d.status = "released"
                 /\ d.approved = {c.claimId : c \in Elements(shown.finalReleasedCandidate.claims)}
    BY ShownWasReleased
  <2>2. IsDecided(events) =>
           /\ shown.status = "released" =>
                 /\ shown.finalReleasedCandidate = shown.finalCandidate
                 /\ shown.proof.verdict = "pass"
           /\ Len(shown.finalCandidates) = 1 =>
                 (shown.finalReleased <=> shown.status = "released")
    BY ShownWhenDecided
  <2>3. ASSUME n = Len(log)
        PROVE  /\ shown.proposals = kept["ProposalReceived"]
               /\ shown.effectRequests = kept["EffectRequested"]
               /\ shown.receipts = kept["EffectReceiptRecorded"]
               /\ shown.observations = kept["ExternalStateObserved"]
    <3>1. {"ProposalReceived", "EffectRequested", "EffectReceiptRecorded", "ExternalStateObserved"}
             \subseteq KeptTypes
      BY DEF KeptTypes, Inputs
    <3>2. \A type \in KeptTypes : Bodies(events, type) = kept[type]
      BY <2>3, ListsShown
    <3> HIDE DEF events
    <3>3. /\ shown.proposals = Bodies(events, "ProposalReceived")
          /\ shown.effectRequests = Bodies(events, "EffectRequested")
          /\ shown.receipts = Bodies(events, "EffectReceiptRecorded")
          /\ shown.observations = Bodies(events, "ExternalStateObserved")
      BY DEF Projections!RebuildRunProjection, Bodies
    <3> HIDE DEF shown
    <3> QED BY <3>1, <3>2, <3>3
  <2> HIDE DEF shown
  <2>4. (\E d \in Elements(Bodies(events, "ReleaseDecided")) :
            /\ d.status = "released"
            /\ d.approved = {c.claimId : c \in Elements(shown.finalReleasedCandidate.claims)})
        => SomeWith(Bodies(events, "ReleaseDecided"),
               LAMBDA d : /\ d.status = "released"
                          /\ d.approved = {c.claimId : c \in Elements(shown.finalReleasedCandidate.claims)})
    <3> DEFINE all == {c.claimId : c \in Elements(shown.finalReleasedCandidate.claims)}
               decisions == Bodies(events, "ReleaseDecided")
    <3> HIDE DEF all, decisions
    <3>1. (\E d \in Elements(decisions) : d.status = "released" /\ d.approved = all)
          => \E i \in DOMAIN decisions : decisions[i].status = "released" /\ decisions[i].approved = all
      BY DEF Elements
    <3> QED BY <3>1, Zenon DEF SomeWith, all, decisions
  <2> QED BY <2>1, <2>2, <2>3, <2>4 DEF shown
<1> QED BY <1>1, HistoriesAreRuns, TypeCorrect, SubmissionsStayWhole, PrivateStateIsTheLogs, PTL

\* ------------------------------------------------------------------------
\* Replays

\* The fresh kernel evaluates and decides as the kernel does.
LEMMA CopyDecides ==
    ASSUME NEW c, NEW R, NEW O, NEW t
    PROVE  /\ Copy!EvaluateProof(c, R, O, t) = EvaluateProof(c, R, O, t)
           /\ \A proof : Copy!DecideRelease(c, proof) = DecideRelease(c, proof)
<1>1. \A claim : Copy!ReceiptClaimVerdict(claim, R, c.runId) = ReceiptClaimVerdict(claim, R, c.runId)
  BY Zenon DEF Copy!ReceiptClaimVerdict, ReceiptClaimVerdict, Copy!RefsOfKind, RefsOfKind,
     Copy!Resolved, Resolved, Copy!BelievedReceipts, BelievedReceipts, Copy!Believed, Believed,
     Copy!ReceiptMatches, ReceiptMatches, Copy!PayloadMatches, PayloadMatches
<1>2. \A claim : Copy!CurrentStateVerdict(claim, O, t, c.runId) = CurrentStateVerdict(claim, O, t, c.runId)
  BY Zenon DEF Copy!CurrentStateVerdict, CurrentStateVerdict, Copy!RefsOfKind, RefsOfKind,
     Copy!Resolved, Resolved, Copy!BelievedObservations, BelievedObservations, Copy!Believed, Believed,
     Copy!IsFresh, IsFresh, Copy!StateSatisfies, StateSatisfies, Copy!ValueSatisfies, ValueSatisfies
<1>3. \A claim : Copy!ClaimVerdict(claim, R, O, t, c.runId) = ClaimVerdict(claim, R, O, t, c.runId)
  BY <1>1, <1>2, Zenon DEF Copy!ClaimVerdict, ClaimVerdict, Copy!ReceiptClaimKinds, ReceiptClaimKinds
<1>4. [i \in DOMAIN c.claims |-> Copy!ClaimVerdict(c.claims[i], R, O, t, c.runId)]
         = [i \in DOMAIN c.claims |-> ClaimVerdict(c.claims[i], R, O, t, c.runId)]
  BY <1>3
<1>5. Copy!EvaluateProof(c, R, O, t) = EvaluateProof(c, R, O, t)
  BY <1>4, Zenon DEF Copy!EvaluateProof, EvaluateProof
<1>6. \A proof : Copy!DecideRelease(c, proof) = DecideRelease(c, proof)
  BY Zenon DEF Copy!DecideRelease, DecideRelease, Copy!DecisionStatus, DecisionStatus,
     Copy!BlockingForDecision, BlockingForDecision, Copy!BlockingMismatches, BlockingMismatches,
     Copy!InconsistentProof, InconsistentProof
<1> QED BY <1>5, <1>6

\* What a call of the fresh kernel for an event does.
Readmitted(type, body, intact) ==
    \/ type = "RunStarted" /\ copyKept' = copyKept /\ \E e : copyLog' = Append(copyLog, e)
    \/ type = "ProposalReceived" /\ copyKept' = copyKept /\ copyLog' = copyLog
    \/ /\ type \in KeptTypes
       /\ \E e : copyLog' = Append(copyLog, e)
       /\ \E b : /\ type # "MutationCommitted" => b = body
                 /\ copyKept' = IF intact THEN [copyKept EXCEPT ![type] = Append(@, b)] ELSE copyKept

\* Recording an event in the fresh kernel.
LEMMA CopyRecords ==
    ASSUME NEW type, NEW b, NEW o, Copy!RecordEvent(type, b, o)
    PROVE  /\ \E e : copyLog' = Append(copyLog, e)
           /\ copyKept' = IF o.wellFormed THEN [copyKept EXCEPT ![type] = Append(@, b)] ELSE copyKept
BY Zenon DEF Copy!RecordEvent, Copy!NewEvent

\* A call for a stored event records what it records, and nothing else.
LEMMA ReadmissionRecords ==
    ASSUME NEW events, NEW n, Readmit(events, n)
    PROVE  Readmitted(events[n].type, events[n].body, events[n].intact)
<1> DEFINE type == events[n].type
           body == events[n].body
           o == EventOptionsFrom(events[n])
<1> SUFFICES Readmitted(type, body, events[n].intact)
  OBVIOUS
<1>1. o.wellFormed = events[n].intact
  BY DEF EventOptionsFrom
<1> HIDE DEF o
<1>2. ASSUME NEW b, type \in KeptTypes, type # "MutationCommitted" => b = body,
             Copy!RecordEvent(type, b, o)
      PROVE  Readmitted(type, body, events[n].intact)
  <2> HIDE DEF type, body
  <2>1. /\ \E e : copyLog' = Append(copyLog, e)
        /\ copyKept' = IF o.wellFormed THEN [copyKept EXCEPT ![type] = Append(@, b)] ELSE copyKept
    BY <1>2, CopyRecords
  <2>2. copyKept' = IF events[n].intact THEN [copyKept EXCEPT ![type] = Append(@, b)] ELSE copyKept
    BY <1>1, <2>1
  <2> QED BY <1>2, <2>1, <2>2, Zenon DEF Readmitted
<1>k. {"ProposalReceived", "EffectRequested", "WritePreflightRequested", "WritePreflightDecided",
       "WriteQuarantined", "ApprovalRequested", "ApprovalGranted", "ApprovalDenied", "ApprovalExpired",
       "MutationCommitted", "EffectReceiptRecorded", "ExternalStateObserved"} \subseteq KeptTypes
  BY DEF KeptTypes, Inputs
<1> HIDE DEF type, body
<1>3. CASE type = "RunStarted" /\ Copy!StartRun(o)
  BY <1>3 DEF Copy!StartRun, Readmitted
<1>4. CASE type = "ProposalReceived" /\ ReplayProposal(body, o)
  <2>1. CASE Copy!SubmitToolCommand(body, o)
    BY <1>2, <1>4, <1>k, <2>1 DEF Copy!SubmitToolCommand
  <2>2. CASE Copy!SubmitMutationCommand(body, o)
    BY <1>2, <1>4, <1>k, <2>2 DEF Copy!SubmitMutationCommand
  <2>3. CASE UNCHANGED copyVars
    BY <1>4, <2>3 DEF copyVars, Readmitted
  <2> QED BY <1>4, <2>1, <2>2, <2>3 DEF ReplayProposal
<1>5. CASE type = "EffectRequested" /\ Copy!RecordEffectRequest(body, o)
  BY <1>2, <1>5, <1>k DEF Copy!RecordEffectRequest
<1>6. CASE type = "WritePreflightRequested" /\ Copy!RecordWritePreflightRequested(body, o)
  BY <1>2, <1>6, <1>k DEF Copy!RecordWritePreflightRequested
<1>7. CASE type = "WritePreflightDecided" /\ Copy!RecordWritePreflightDecided(body, o)
  BY <1>2, <1>7, <1>k DEF Copy!RecordWritePreflightDecided
<1>8. CASE type = "WriteQuarantined" /\ Copy!RecordWriteQuarantined(body, o)
  BY <1>2, <1>8, <1>k DEF Copy!RecordWriteQuarantined
<1>9. CASE type = "ApprovalRequested" /\ Copy!RecordApprovalRequested(body, o)
  BY <1>2, <1>9, <1>k DEF Copy!RecordApprovalRequested
<1>10. CASE type = "ApprovalGranted" /\ Copy!RecordApprovalGranted(body, o)
  BY <1>2, <1>10, <1>k DEF Copy!RecordApprovalGranted
<1>11. CASE type = "ApprovalDenied" /\ Copy!RecordApprovalDenied(body, o)
  BY <1>2, <1>11, <1>k DEF Copy!RecordApprovalDenied
<1>12. CASE type = "ApprovalExpired" /\ Copy!RecordApprovalExpired(body, o)
  BY <1>2, <1>12, <1>k DEF Copy!RecordApprovalExpired
<1>13. CASE /\ type = "MutationCommitted"
            /\ \E proposal \in MutationProposalBefore(events, n) : Copy!CommitMutation(proposal, o)
  <2>1. PICK proposal : Copy!CommitMutation(proposal, o)
    BY <1>13
  <2>2. PICK b : Copy!RecordEvent("MutationCommitted", b, o)
    BY <2>1 DEF Copy!CommitMutation
  <2> QED BY <1>2, <1>13, <1>k, <2>2
<1>14. CASE type = "EffectReceiptRecorded" /\ Copy!RecordEffectReceipt(body, o)
  BY <1>2, <1>14, <1>k DEF Copy!RecordEffectReceipt
<1>15. CASE type = "ExternalStateObserved" /\ Copy!RecordExternalStateObservation(body, o)
  BY <1>2, <1>15, <1>k DEF Copy!RecordExternalStateObservation
<1>16. \/ type = "RunStarted" /\ Copy!StartRun(o)
       \/ type = "ProposalReceived" /\ ReplayProposal(body, o)
       \/ type = "EffectRequested" /\ Copy!RecordEffectRequest(body, o)
       \/ type = "WritePreflightRequested" /\ Copy!RecordWritePreflightRequested(body, o)
       \/ type = "WritePreflightDecided" /\ Copy!RecordWritePreflightDecided(body, o)
       \/ type = "WriteQuarantined" /\ Copy!RecordWriteQuarantined(body, o)
       \/ type = "ApprovalRequested" /\ Copy!RecordApprovalRequested(body, o)
       \/ type = "ApprovalGranted" /\ Copy!RecordApprovalGranted(body, o)
       \/ type = "ApprovalDenied" /\ Copy!RecordApprovalDenied(body, o)
       \/ type = "ApprovalExpired" /\ Copy!RecordApprovalExpired(body, o)
       \/ /\ type = "MutationCommitted"
          /\ \E proposal \in MutationProposalBefore(events, n) : Copy!CommitMutation(proposal, o)
       \/ type = "EffectReceiptRecorded" /\ Copy!RecordEffectReceipt(body, o)
       \/ type = "ExternalStateObserved" /\ Copy!RecordExternalStateObservation(body, o)
  BY Zenon DEF Readmit, type, body, o
<1> QED BY <1>3, <1>4, <1>5, <1>6, <1>7, <1>8, <1>9, <1>10, <1>11, <1>12, <1>13, <1>14, <1>15, <1>16

\* The n-th event planned behind N events.
Planned(N, n, id, type, cause, body) ==
    [id |-> Given(id, <<N + n, type>>), type |-> type, cause |-> cause, body |-> body,
     wellFormed |-> TRUE]

\* What a plan holds, event by event: p is the plan behind N events, the last of
\* which is the proposal, whose id is "id".
IsPlan(p, N, c, o, proof, m, id) ==
    LET n == Len(m)
        decision == DecideRelease(c, proof)
    IN  /\ IsList(p) /\ Len(p) = IF decision.status = "released" THEN n + 3 ELSE n + 2
        /\ p[1] = Planned(N, 1, o.proofEventId, "ProofGenerated", id, proof)
        /\ \A i \in 1..n :
              p[i + 1] = Planned(N, 1 + i, MismatchId(o, i), "MismatchDetected", p[1].id, m[i])
        /\ p[n + 2] = Planned(N, 2 + n, o.releaseEventId, "ReleaseDecided", p[1].id, decision)
        /\ decision.status = "released" =>
              p[n + 3] = Planned(N, 3 + n, o.finalReleasedEventId, "FinalReleased", p[n + 2].id,
                                 [decision |-> decision, candidate |-> c])

\* A function on the first numbers is a list.
LEMMA NumberedIsList ==
    ASSUME NEW n \in Nat, NEW S, NEW f \in [1..n -> S]
    PROVE  IsList(f) /\ Len(f) = n
<1>1. f \in Seq(S) /\ DOMAIN f = 1..n
  BY SeqDef
<1>2. Len(f) = n
  BY <1>1, LenProperties
<1> QED BY <1>1, <1>2, SequencesAreLists

\* Laying the planned events end to end makes the plan.
LEMMA LaidPlan ==
    ASSUME NEW N, NEW c, NEW o, NEW proof, NEW m, NEW id, Len(m) \in Nat,
           NEW f, IsList(f), Len(f) = Len(m),
           \A i \in 1..Len(m) :
               f[i] = Planned(N, 1 + i, MismatchId(o, i), "MismatchDetected",
                              Planned(N, 1, o.proofEventId, "ProofGenerated", id, proof).id, m[i])
    PROVE  LET a == Planned(N, 1, o.proofEventId, "ProofGenerated", id, proof)
               decision == DecideRelease(c, proof)
               b == Planned(N, 2 + Len(m), o.releaseEventId, "ReleaseDecided", a.id, decision)
               d == Planned(N, 3 + Len(m), o.finalReleasedEventId, "FinalReleased", b.id,
                            [decision |-> decision, candidate |-> c])
           IN  IsPlan(Laid(a, f, b, d, decision.status = "released"), N, c, o, proof, m, id)
<1> DEFINE n == Len(m)
           a == Planned(N, 1, o.proofEventId, "ProofGenerated", id, proof)
           decision == DecideRelease(c, proof)
           b == Planned(N, 2 + n, o.releaseEventId, "ReleaseDecided", a.id, decision)
           body == [decision |-> decision, candidate |-> c]
           d == Planned(N, 3 + n, o.finalReleasedEventId, "FinalReleased", b.id, body)
           rel == decision.status = "released"
           g(i) == Planned(N, 1 + i, MismatchId(o, i), "MismatchDetected", a.id, m[i])
           p == Laid(a, f, b, d, rel)
<1>2. rel \in BOOLEAN /\ n \in Nat
  OBVIOUS
<1> HIDE DEF a
<1>3. Len(f) = n /\ \A i \in 1..n : f[i] = g(i)
  BY DEF a
<1> HIDE DEF n, decision, g
<1> HIDE DEF b, d, rel, body
<1>4. /\ IsList(p) /\ Len(p) = IF rel THEN n + 3 ELSE n + 2
      /\ p[1] = a
      /\ \A i \in 2..(n + 1) : p[i] = f[i - 1]
      /\ p[n + 2] = b
      /\ rel => p[n + 3] = d
  <2>1. /\ IsList(p) /\ Len(p) = IF rel THEN Len(f) + 3 ELSE Len(f) + 2
        /\ p[1] = a
        /\ \A i \in 2..(Len(f) + 1) : p[i] = f[i - 1]
        /\ p[Len(f) + 2] = b
        /\ rel => p[Len(f) + 3] = d
    <3>1. IsList(f) /\ rel \in BOOLEAN
      BY <1>2
    <3> DEFINE q == Laid(a, f, b, d, rel)
    <3>2. /\ IsList(q) /\ Len(q) = IF rel THEN Len(f) + 3 ELSE Len(f) + 2
          /\ q[1] = a
          /\ \A i \in 2..(Len(f) + 1) : q[i] = f[i - 1]
          /\ q[Len(f) + 2] = b
          /\ rel => q[Len(f) + 3] = d
      BY <3>1, PlanLayout
    <3> QED BY <3>2 DEF p
  <2> HIDE DEF p
  <2> QED BY <1>3, <2>1
<1>5. \A i \in 1..n : p[i + 1] = g(i)
  <2> TAKE i \in 1..n
  <2>1. i + 1 \in 2..(n + 1) /\ (i + 1) - 1 = i
    BY <1>2
  <2>2. p[i + 1] = f[(i + 1) - 1]
    BY <1>4, <2>1
  <2> HIDE DEF p
  <2> QED BY <1>3, <2>1, <2>2
<1> HIDE DEF p
<1>6. \A i \in 1..n :
         p[i + 1] = Planned(N, 1 + i, MismatchId(o, i), "MismatchDetected", p[1].id, m[i])
  BY <1>4, <1>5, Zenon DEF g
<1>7. p[n + 2] = Planned(N, 2 + n, o.releaseEventId, "ReleaseDecided", p[1].id, decision)
  BY <1>4 DEF b
<1>8. rel => p[n + 3] = Planned(N, 3 + n, o.finalReleasedEventId, "FinalReleased", p[n + 2].id, body)
  BY <1>4 DEF d
<1>9. p[1] = Planned(N, 1, o.proofEventId, "ProofGenerated", id, proof)
  BY <1>4 DEF a
<1>10. IsPlan(p, N, c, o, proof, m, id)
  BY <1>4, <1>6, <1>7, <1>8, <1>9, Zenon DEF IsPlan, n, decision, rel, body
<1> QED BY <1>10, Zenon DEF p, n, a, decision, b, d, rel, body

\* The plans of the kernel and of the fresh one.
LEMMA PlansAreSuch ==
    ASSUME NEW c, NEW o, NEW proof, NEW m, NEW id, Len(m) \in Nat
    PROVE  /\ IsPlan(FinalPlan(c, o, proof, m, id), Len(log) + 1, c, o, proof, m, id)
           /\ IsPlan(Copy!FinalPlan(c, o, proof, m, id), Len(copyLog) + 1, c, o, proof, m, id)
<1> DEFINE n == Len(m)
           Middle(N) ==
               [i \in 1..n |-> Planned(N, 1 + i, MismatchId(o, i), "MismatchDetected",
                                  Planned(N, 1, o.proofEventId, "ProofGenerated", id, proof).id, m[i])]
           Made(N) ==
               LET a == Planned(N, 1, o.proofEventId, "ProofGenerated", id, proof)
                   decision == DecideRelease(c, proof)
                   b == Planned(N, 2 + n, o.releaseEventId, "ReleaseDecided", a.id, decision)
                   d == Planned(N, 3 + n, o.finalReleasedEventId, "FinalReleased", b.id,
                                [decision |-> decision, candidate |-> c])
               IN  Laid(a, Middle(N), b, d, decision.status = "released")
<1>1. ASSUME NEW N PROVE IsPlan(Made(N), N, c, o, proof, m, id)
  <2> DEFINE f == Middle(N)
             e(i) == Planned(N, 1 + i, MismatchId(o, i), "MismatchDetected",
                             Planned(N, 1, o.proofEventId, "ProofGenerated", id, proof).id, m[i])
  <2>1. f = [i \in 1..n |-> e(i)]
    OBVIOUS
  <2> HIDE DEF e, f
  <2>2. f \in [1..n -> {e(i) : i \in 1..n}] /\ \A i \in 1..n : f[i] = e(i)
    BY <2>1
  <2>3. IsList(f) /\ Len(f) = n
    BY <2>2, NumberedIsList
  <2>4. \A i \in 1..n :
           f[i] = Planned(N, 1 + i, MismatchId(o, i), "MismatchDetected",
                          Planned(N, 1, o.proofEventId, "ProofGenerated", id, proof).id, m[i])
    BY <2>2 DEF e
  <2>5. LET a == Planned(N, 1, o.proofEventId, "ProofGenerated", id, proof)
            decision == DecideRelease(c, proof)
            b == Planned(N, 2 + n, o.releaseEventId, "ReleaseDecided", a.id, decision)
            d == Planned(N, 3 + n, o.finalReleasedEventId, "FinalReleased", b.id,
                         [decision |-> decision, candidate |-> c])
        IN  IsPlan(Laid(a, f, b, d, decision.status = "released"), N, c, o, proof, m, id)
    BY <2>3, <2>4, LaidPlan
  <2> QED BY <2>5, Zenon DEF f
<1>2. FinalPlan(c, o, proof, m, id) = Made(Len(log) + 1)
  <2>1. \A k, x, type, cause, body :
           PlannedEvent(k, x, type, cause, body) = Planned(Len(log) + 1, k, x, type, cause, body)
    BY Zenon DEF PlannedEvent, Planned
  <2> QED BY <2>1, Zenon DEF FinalPlan, MismatchEvents, Laid
<1>3. Copy!FinalPlan(c, o, proof, m, id) = Made(Len(copyLog) + 1)
  <2>1. \A k, x, type, cause, body :
           Copy!PlannedEvent(k, x, type, cause, body) = Planned(Len(copyLog) + 1, k, x, type, cause, body)
    BY Zenon DEF Copy!PlannedEvent, Planned, Copy!Given, Given
  <2>2. \A i : Copy!MismatchId(o, i) = MismatchId(o, i)
    BY Zenon DEF Copy!MismatchId, MismatchId
  <2>3. Copy!DecideRelease(c, proof) = DecideRelease(c, proof)
    BY CopyDecides
  <2> QED BY <2>1, <2>2, <2>3, Zenon DEF Copy!FinalPlan, Copy!MismatchEvents, Laid
<1> HIDE DEF Made
<1> QED BY <1>1, <1>2, <1>3

\* The lists of a proof's mismatches are as long as there are mismatches.
LEMMA ClaimOrderLength ==
    ASSUME NEW c \in FinalCandidates, NEW R, NEW O, NEW t,
           NEW m \in InClaimOrder(EvaluateProof(c, R, O, t).mismatches)
    PROVE  Len(m) \in Nat /\ Len(m) = Cardinality(EvaluateProof(c, R, O, t).mismatches)
<1> DEFINE M == EvaluateProof(c, R, O, t).mismatches
<1>1. IsFiniteSet(M)
  BY FiniteMismatches
<1> HIDE DEF M
<1>2. Cardinality(M) \in Nat
  BY <1>1, FS_CardinalityType
<1>3. m \in [1..Cardinality(M) -> M]
  BY DEF InClaimOrder, M
<1> QED BY <1>2, <1>3 DEF M

\* The types of a plan's events.
LEMMA PlanTypes ==
    ASSUME NEW p, NEW N, NEW c, NEW o, NEW proof, NEW m, NEW id, Len(m) \in Nat,
           IsPlan(p, N, c, o, proof, m, id)
    PROVE  LET n == Len(m)
           IN  /\ Len(p) \in {n + 2, n + 3} /\ Len(p) \in Nat
               /\ p[1].type = "ProofGenerated"
               /\ \A i \in 1..n : p[1 + i].type = "MismatchDetected"
               /\ p[n + 2].type = "ReleaseDecided" /\ p[n + 2].body = DecideRelease(c, proof)
               /\ Len(p) = n + 3 => p[n + 3].type = "FinalReleased"
               /\ \A h \in 1..Len(p) : p[h].type \in FinalTypes
<1> DEFINE n == Len(m)
           decision == DecideRelease(c, proof)
           body == [decision |-> decision, candidate |-> c]
<1>1. /\ Len(p) = IF decision.status = "released" THEN n + 3 ELSE n + 2
      /\ p[1] = Planned(N, 1, o.proofEventId, "ProofGenerated", id, proof)
      /\ \A i \in 1..n : p[i + 1] = Planned(N, 1 + i, MismatchId(o, i), "MismatchDetected", p[1].id, m[i])
      /\ p[n + 2] = Planned(N, 2 + n, o.releaseEventId, "ReleaseDecided", p[1].id, decision)
      /\ decision.status = "released" =>
            p[n + 3] = Planned(N, 3 + n, o.finalReleasedEventId, "FinalReleased", p[n + 2].id, body)
  BY Zenon DEF IsPlan, n, decision, body
<1> HIDE DEF decision, body
<1>2. \A j, x, type, cause, b : Planned(N, j, x, type, cause, b).type = type
  BY DEF Planned
<1>3. n \in Nat
  OBVIOUS
<1> HIDE DEF n
<1>4. /\ p[1].type = "ProofGenerated"
      /\ \A i \in 1..n : p[i + 1].type = "MismatchDetected"
      /\ p[n + 2].type = "ReleaseDecided"
      /\ decision.status = "released" => p[n + 3].type = "FinalReleased"
  <2>1. p[1].type = "ProofGenerated"
    BY <1>1, <1>2
  <2>2. \A i \in 1..n : p[i + 1].type = "MismatchDetected"
    BY <1>1, <1>2
  <2>3. p[n + 2].type = "ReleaseDecided"
    BY <1>1, <1>2
  <2>4. decision.status = "released" => p[n + 3].type = "FinalReleased"
    BY <1>1, <1>2
  <2> QED BY <2>1, <2>2, <2>3, <2>4
<1>5. /\ Len(p) \in {n + 2, n + 3} /\ Len(p) \in Nat
      /\ Len(p) = n + 3 => decision.status = "released"
  BY <1>1, <1>3
<1>6. \A i \in 1..n : p[1 + i].type = "MismatchDetected"
  <2> TAKE i \in 1..n
  <2>1. 1 + i = i + 1
    BY <1>3
  <2> QED BY <1>4, <2>1
<1>b. p[n + 2].body = decision
  <2>1. \A j, x, type, cause, b : Planned(N, j, x, type, cause, b).body = b
    BY DEF Planned
  <2> QED BY <1>1, <2>1
<1>7. ASSUME NEW h \in 1..Len(p) PROVE p[h].type \in FinalTypes
  <2>1. h = 1 \/ h \in 2..(n + 1) \/ h = n + 2 \/ (h = n + 3 /\ Len(p) = n + 3)
    BY <1>3, <1>5
  <2>2. CASE h \in 2..(n + 1)
    <3>1. h - 1 \in 1..n /\ 1 + (h - 1) = h
      BY <1>3, <2>2
    <3> QED BY <1>6, <3>1 DEF FinalTypes
  <2> QED BY <1>4, <1>5, <2>1, <2>2 DEF FinalTypes
<1> QED BY <1>4, <1>5, <1>6, <1>7, <1>b DEF n, decision

\* The fresh kernel after a resubmission that came to its end: its proposal e, and
\* behind it the whole plan p of the proof and the mismatches m.
IsResubmission(after, c, o, proof, e, m, p) ==
    LET N == Len(copyLog) + 1
    IN  /\ m \in InClaimOrder(proof.mismatches) /\ Len(m) \in Nat
        /\ IsPlan(p, N, c, o, proof, m, e.id)
        /\ N \in Nat /\ Len(p) \in Nat /\ Len(after) = N + Len(p) /\ DOMAIN after = 1..(N + Len(p))
        /\ \A i \in 1..(N - 1) : after[i] = copyLog[i]
        /\ after[N] = e
        /\ \A i \in 1..Len(p) : after[N + i] = p[i]

\* The proof of the candidate submitted again, from what the fresh kernel kept.
CopyProof(events, at) ==
    EvaluateProof(events[at.final].body, Elements(copyKept["EffectReceiptRecorded"]),
                  Elements(copyKept["ExternalStateObserved"]), events[at.proof].body.generatedAt)

\* The proposal submitted again.
CopyProposal(events, at) ==
    LET o == StoredFinalOptions(events, at)
    IN  Copy!NewEvent("ProposalReceived", events[at.final].body, o, Copy!Given(o.causationId, copyStarted))

\* How far the plan p of the proof and the mismatches m got when the candidate was
\* submitted again: its first k events are behind the proposal e.
ResubmittedUpTo(after, c, o, proof, e, m, p, k) ==
    LET N == Len(copyLog) + 1
    IN  /\ m \in InClaimOrder(proof.mismatches) /\ Len(m) \in Nat
        /\ IsPlan(p, N, c, o, proof, m, e.id)
        /\ N \in Nat /\ Len(p) \in Nat /\ k \in 0..Len(p)
        /\ Len(after) = N + k /\ DOMAIN after = 1..(N + k)
        /\ \A i \in 1..(N - 1) : after[i] = copyLog[i]
        /\ after[N] = e
        /\ \A i \in 1..k : after[N + i] = p[i]
        /\ k < Len(p) => ~Copy!Appendable(Append(copyLog, e), p, k + 1)

\* The candidate submitted again, with a date that parses: its plan gets as far as it can.
LEMMA ResubmissionAppends ==
    ASSUME NEW events, NEW at, SubmitStored(events, at), IsList(copyLog),
           events[at.final].body \in FinalCandidates
    PROVE  \/ /\ copyLog' = Append(copyLog, CopyProposal(events, at))
              /\ ~(events[at.final].intact /\ events[at.proof].body.generatedAt # Null)
           \/ \E m, p, k : ResubmittedUpTo(copyLog', events[at.final].body, StoredFinalOptions(events, at),
                                           CopyProof(events, at), CopyProposal(events, at), m, p, k)
<1> DEFINE c == events[at.final].body
           t == events[at.proof].body.generatedAt
           o == StoredFinalOptions(events, at)
           proof == CopyProof(events, at)
           M == proof.mismatches
           after == copyLog'
           e == CopyProposal(events, at)
           before == Append(copyLog, e)
           N == Len(copyLog) + 1
<1>1. Copy!SubmitFinalCandidate(c, o, t)
  BY DEF SubmitStored
<1>2. IF e.wellFormed /\ t # Null
      THEN \E m \in InClaimOrder(M) : Copy!AppendPlan(before, Copy!FinalPlan(c, o, proof, m, e.id))
      ELSE after = before
  <2>1. /\ Copy!Elements(copyKept["EffectReceiptRecorded"]) = Elements(copyKept["EffectReceiptRecorded"])
        /\ Copy!Elements(copyKept["ExternalStateObserved"]) = Elements(copyKept["ExternalStateObserved"])
    BY Zenon DEF Copy!Elements, Elements
  <2> DEFINE copied == Copy!EvaluateProof(c, Copy!Elements(copyKept["EffectReceiptRecorded"]),
                                          Copy!Elements(copyKept["ExternalStateObserved"]), t)
  <2>2. copied = proof
    BY <2>1, CopyDecides, Zenon DEF CopyProof
  <2>3. Copy!InClaimOrder(M) = InClaimOrder(M)
    <3> HIDE DEF M
    <3>1. Copy!Cardinality(M) = Cardinality(M)
      BY Zenon DEF Copy!Cardinality, Cardinality
    <3> QED BY <3>1, Zenon DEF Copy!InClaimOrder, InClaimOrder
  <2>4. IF e.wellFormed /\ t # Null
        THEN \E m \in Copy!InClaimOrder(copied.mismatches) :
                Copy!AppendPlan(before, Copy!FinalPlan(c, o, copied, m, e.id))
        ELSE after = before
    BY <1>1, Zenon DEF Copy!SubmitFinalCandidate, CopyProposal
  <2> HIDE DEF copied, proof, e, before
  <2>5. copied = proof
    BY <2>2 DEF copied
  <2> QED BY <2>3, <2>4, <2>5
<1>3. e.wellFormed = events[at.final].intact
  BY DEF CopyProposal, Copy!NewEvent, StoredFinalOptions
<1> HIDE DEF e, M
<1>4. CASE ~(e.wellFormed /\ t # Null)
  BY <1>2, <1>3, <1>4 DEF before, e
<1>5. CASE e.wellFormed /\ t # Null
  <2>1. /\ IsList(before) /\ Len(copyLog) \in Nat /\ Len(before) = N /\ DOMAIN before = 1..N
        /\ \A i \in 1..Len(copyLog) : before[i] = copyLog[i]
        /\ before[N] = e
    BY AppendToList
  <2> HIDE DEF N, after
  <2>2. N \in Nat /\ N - 1 = Len(copyLog)
    BY <2>1 DEF N
  <2>3. PICK m \in InClaimOrder(M) : Copy!AppendPlan(before, Copy!FinalPlan(c, o, proof, m, e.id))
    BY <1>2, <1>5
  <2> DEFINE p == Copy!FinalPlan(c, o, proof, m, e.id)
  <2>4. Len(m) \in Nat
    BY <2>3, ClaimOrderLength DEF M, CopyProof
  <2>5. IsPlan(p, N, c, o, proof, m, e.id)
    BY <2>4, PlansAreSuch DEF N
  <2>6. PICK k \in 0..Len(p) : /\ after = Joined(before, p, k)
                               /\ k < Len(p) => ~Copy!Appendable(before, p, k + 1)
    BY <2>3 DEF Copy!AppendPlan, Joined, p, after
  <2> HIDE DEF p, o, c, proof, before
  <2>7. IsList(p) /\ Len(p) \in Nat
    <3>1. IsList(p)
      BY <2>5, Zenon DEF IsPlan
    <3> QED BY <3>1, ListFacts
  <2>8. /\ Len(after) = N + k /\ DOMAIN after = 1..(N + k)
        /\ \A i \in 1..N : after[i] = before[i]
        /\ \A i \in 1..k : after[N + i] = p[i]
    <3>1. IsJoined(Joined(before, p, k), before, p, k)
      BY <2>1, <2>7, ConcatToList
    <3> QED BY <2>1, <2>6, <3>1 DEF IsJoined
  <2>9. after[N] = e /\ \A i \in 1..(N - 1) : after[i] = copyLog[i]
    <3>1. N \in 1..N /\ \A i \in 1..(N - 1) : i \in 1..N /\ i \in 1..Len(copyLog)
      BY <2>1, <2>2 DEF N
    <3> QED BY <2>1, <2>8, <3>1
  <2>10. ResubmittedUpTo(after, c, o, proof, e, m, p, k)
    BY <2>2, <2>3, <2>4, <2>5, <2>6, <2>7, <2>8, <2>9 DEF ResubmittedUpTo, N, M, before
  <2> QED BY <2>10 DEF after, c, o, proof, e
<1> QED BY <1>4, <1>5

\* When submitFinalCandidate returns, the whole plan is there.
LEMMA ResubmissionIsWhole ==
    ASSUME NEW events, NEW at, SubmitStored(events, at), IsList(copyLog),
           events[at.final].body \in FinalCandidates, Submitted(copyLog')
    PROVE  \E m, p : IsResubmission(copyLog', events[at.final].body, StoredFinalOptions(events, at),
                                    CopyProof(events, at), CopyProposal(events, at), m, p)
<1> DEFINE c == events[at.final].body
           o == StoredFinalOptions(events, at)
           proof == CopyProof(events, at)
           after == copyLog'
           e == CopyProposal(events, at)
           N == Len(copyLog) + 1
           decision == DecideRelease(c, proof)
<1>1. e.type = "ProposalReceived"
  BY DEF CopyProposal, Copy!NewEvent
<1>2. \/ after[Len(after)].type = "FinalReleased"
      \/ after[Len(after)].type = "ReleaseDecided" /\ after[Len(after)].body.status # "released"
  BY DEF Submitted
<1>3. \/ after = Append(copyLog, e)
      \/ \E m, p, k : ResubmittedUpTo(after, c, o, proof, e, m, p, k)
  BY ResubmissionAppends
<1> HIDE DEF e, after, c, o, proof, decision
<1>4. after # Append(copyLog, e)
  <2>1. Len(Append(copyLog, e)) = N /\ Append(copyLog, e)[N] = e
    BY AppendToList
  <2> QED BY <1>1, <1>2, <2>1
<1>5. PICK m, p, k : ResubmittedUpTo(after, c, o, proof, e, m, p, k)
  BY <1>3, <1>4
<1> DEFINE n == Len(m)
<1>6. /\ n \in Nat /\ N \in Nat /\ Len(p) \in Nat /\ k \in Nat /\ k <= Len(p)
      /\ Len(after) = N + k /\ after[N] = e
      /\ \A i \in 1..k : after[N + i] = p[i]
      /\ IsPlan(p, N, c, o, proof, m, e.id)
  BY <1>5 DEF ResubmittedUpTo
<1>7. /\ Len(p) = IF decision.status = "released" THEN n + 3 ELSE n + 2
      /\ \A i \in 1..(n + 1) : p[i].type \in {"ProofGenerated", "MismatchDetected"}
      /\ p[n + 2].type = "ReleaseDecided" /\ p[n + 2].body = decision
  <2> HIDE DEF N
  <2>1. /\ p[1].type = "ProofGenerated"
        /\ \A i \in 1..n : p[1 + i].type = "MismatchDetected"
        /\ p[n + 2].type = "ReleaseDecided" /\ p[n + 2].body = decision
    <3> HIDE DEF n
    <3>1. Len(m) \in Nat
      BY <1>6 DEF n
    <3> QED BY <1>6, <3>1, PlanTypes DEF n, decision
  <2>2. ASSUME NEW i \in 1..(n + 1) PROVE p[i].type \in {"ProofGenerated", "MismatchDetected"}
    <3>1. CASE i = 1
      BY <2>1, <3>1
    <3>2. CASE i # 1
      <4>1. i - 1 \in 1..n /\ 1 + (i - 1) = i
        BY <1>6, <3>2
      <4> QED BY <2>1, <4>1
    <3> QED BY <3>1, <3>2
  <2>3. Len(p) = IF decision.status = "released" THEN n + 3 ELSE n + 2
    BY <1>6, Zenon DEF IsPlan, decision
  <2> QED BY <2>1, <2>2, <2>3
<1> HIDE DEF n, N
<1>8. k = Len(p)
  <2>1. k # 0
    BY <1>1, <1>2, <1>6
  <2>2. k \in 1..k /\ after[Len(after)] = p[k]
    BY <1>6, <2>1
  <2>3. k \notin 1..(n + 1)
    BY <1>2, <1>7, <2>2
  <2>4. k >= n + 2
    BY <1>6, <2>1, <2>3
  <2>5. CASE Len(p) = n + 2
    BY <1>6, <2>4, <2>5
  <2>6. CASE Len(p) # n + 2
    <3>1. decision.status = "released" /\ Len(p) = n + 3
      BY <1>7, <2>6
    <3>2. k # n + 2
      BY <1>2, <1>7, <2>2, <3>1
    <3> QED BY <1>6, <2>4, <3>1, <3>2
  <2> QED BY <2>5, <2>6
<1>9. IsResubmission(after, c, o, proof, e, m, p)
  BY <1>5, <1>8 DEF ResubmittedUpTo, IsResubmission
<1> QED BY <1>9 DEF after, c, o, proof, e

\* Its decision is about the proof of the candidate from what the fresh kernel kept.
LEMMA ResubmissionDecides ==
    ASSUME NEW events, NEW at, SubmitStored(events, at), IsList(copyLog),
           events[at.final].body \in FinalCandidates, Submitted(copyLog')
    PROVE  BodyOfLast(copyLog', "ReleaseDecided")
              = DecideRelease(events[at.final].body, CopyProof(events, at))
<1> DEFINE after == copyLog'
           c == events[at.final].body
           proof == CopyProof(events, at)
           o == StoredFinalOptions(events, at)
           e == CopyProposal(events, at)
           N == Len(copyLog) + 1
<1>1. PICK m, p : IsResubmission(after, c, o, proof, e, m, p)
  BY ResubmissionIsWhole
<1> DEFINE n == Len(m)
           decision == DecideRelease(c, proof)
<1>2. /\ n \in Nat /\ N \in Nat /\ Len(p) \in Nat /\ DOMAIN after = 1..(N + Len(p))
      /\ \A h \in 1..Len(p) : after[N + h] = p[h]
      /\ IsPlan(p, N, c, o, proof, m, e.id)
  BY <1>1, Zenon DEF IsResubmission, n, N
<1>3. /\ Len(p) \in {n + 2, n + 3}
      /\ p[n + 2].type = "ReleaseDecided" /\ p[n + 2].body = decision
      /\ Len(p) = n + 3 => p[n + 3].type = "FinalReleased"
  <2> HIDE DEF c, o, proof, e, N
  <2> QED BY <1>2, PlanTypes
<1> HIDE DEF n, N, after, decision, c, o, proof, e
<1> DEFINE found == EventsAfter(after, 0, "ReleaseDecided")
           r == N + (n + 2)
<1>4. r \in found /\ after[r].body = decision
  <2>1. n + 2 \in 1..Len(p) /\ r \in 1..(N + Len(p)) /\ r > 0
    BY <1>2, <1>3
  <2>2. after[r] = p[n + 2]
    BY <1>2, <2>1
  <2> QED BY <1>2, <1>3, <2>1, <2>2 DEF EventsAfter
<1>5. ASSUME NEW j \in found PROVE j <= r
  <2>1. j \in 1..(N + Len(p)) /\ after[j].type = "ReleaseDecided"
    BY <1>2 DEF EventsAfter
  <2>2. ASSUME j > r PROVE FALSE
    <3>1. Len(p) = n + 3 /\ j = N + (n + 3) /\ n + 3 \in 1..Len(p)
      BY <1>2, <1>3, <2>1, <2>2
    <3>2. after[j] = p[n + 3]
      BY <1>2, <3>1
    <3> QED BY <1>3, <2>1, <3>1, <3>2
  <2> QED BY <1>2, <2>1, <2>2
<1>6. Latest(found) = r
  <2>1. ASSUME NEW i \in found, \A j \in found : j <= i PROVE i = r
    <3>1. i <= r /\ r <= i /\ i \in Nat /\ r \in Nat
      BY <1>2, <1>4, <1>5, <2>1 DEF EventsAfter
    <3> QED BY <3>1
  <2> HIDE DEF found, r
  <2> QED BY <1>4, <1>5, <2>1 DEF Latest
<1> QED BY <1>4, <1>6 DEF BodyOfLast, after, decision, c, proof

\* A stream that is parsed: its events' inputs are of their kinds.
Parsed(events) ==
    /\ IsList(events)
    /\ \A i \in DOMAIN events : events[i].type \in KeptTypes => events[i].body \in Inputs[events[i].type]

\* A stream someone took events from, or put one in place of another, is a list of the
\* others.
LEMMA CutsAreLists ==
    ASSUME NEW events, IsList(events)
    PROVE  /\ \A n \in 1..Len(events) :
                /\ IsList(SubSeq(events, 1, n))
                /\ Elements(SubSeq(events, 1, n)) \subseteq Elements(events)
                /\ IsList(Without(events, n))
                /\ Elements(Without(events, n)) \subseteq Elements(events)
           /\ \A n \in DOMAIN events : \A e : IsList([events EXCEPT ![n] = e])
<1> DEFINE S == Elements(events)
           N == Len(events)
<1>1. events \in Seq(S) /\ N \in Nat /\ DOMAIN events = 1..N
  BY ListFacts DEF IsList
<1> HIDE DEF S, N
<1>2. ASSUME NEW s \in Seq(S) PROVE IsList(s) /\ Elements(s) \subseteq S
  BY SequencesAreLists DEF IsList, Elements
<1>3. ASSUME NEW n \in 1..N
      PROVE  SubSeq(events, 1, n) \in Seq(S) /\ Without(events, n) \in Seq(S)
  <2>1. \A m \in 0..N : SubSeq(events, 1, m) \in Seq(S)
    BY <1>1 DEF N
  <2>2. SubSeq(events, n + 1, N) \in Seq(S)
    BY <1>1 DEF N
  <2>3. n - 1 \in 0..N /\ n \in 0..N
    BY <1>1
  <2> QED BY <2>1, <2>2, <2>3 DEF Without, N
<1>4. ASSUME NEW n \in DOMAIN events, NEW e PROVE IsList([events EXCEPT ![n] = e])
  <2> DEFINE t == [events EXCEPT ![n] = e]
  <2>1. t = [i \in 1..N |-> t[i]]
    BY <1>1
  <2> HIDE DEF t
  <2>2. IsList(t)
    BY <1>1, <2>1, SegmentsAreLists
  <2> QED BY <2>2 DEF t
<1> QED BY <1>2, <1>3, <1>4 DEF S, N

\* What is read is parsed.
LEMMA ReadableIsParsed ==
    ASSUME TypeOK, Mirrored, NEW events \in Readable(Stored(log))
    PROVE  Parsed(events)
<1> DEFINE written == Stored(log)
           OfItsKind(e) == e.type \in KeptTypes => e.body \in Inputs[e.type]
<1>1. Len(log) \in Nat /\ DOMAIN log = 1..Len(log)
  BY DEF TypeOK
<1>2. IsList(written) /\ \A i \in DOMAIN written : OfItsKind(written[i])
  <2> DEFINE entry(i) == [runId |-> RunId, id |-> log[i].id, type |-> log[i].type,
                          cause |-> log[i].cause, body |-> log[i].body, sequence |-> i,
                          intact |-> log[i].wellFormed]
  <2>1. written = [i \in 1..Len(log) |-> entry(i)]
    BY <1>1 DEF Stored
  <2>2. \A i \in 1..Len(log) : entry(i).type = log[i].type /\ entry(i).body = log[i].body
    OBVIOUS
  <2> HIDE DEF entry, written
  <2>3. DOMAIN written = 1..Len(log) /\ written = [i \in 1..Len(log) |-> written[i]]
    BY <2>1
  <2>4. IsList(written)
    BY <1>1, <2>3, SegmentsAreLists
  <2>5. ASSUME NEW i \in 1..Len(log) PROVE OfItsKind(written[i])
    <3>1. written[i].type = log[i].type /\ written[i].body = log[i].body
      BY <2>1, <2>2
    <3> QED BY <1>1, <3>1 DEF Mirrored
  <2> QED BY <2>3, <2>4, <2>5
<1>3. Len(written) \in Nat /\ DOMAIN written = 1..Len(written)
  BY <1>2, ListFacts
<1> HIDE DEF written
<1>4. \A e \in Elements(written) : OfItsKind(e)
  BY <1>2 DEF Elements
<1> HIDE DEF OfItsKind
<1>5. ASSUME NEW list, IsList(list), Elements(list) \subseteq Elements(written) PROVE Parsed(list)
  <2>1. \A i \in DOMAIN list : OfItsKind(list[i])
    BY <1>4, <1>5 DEF Elements
  <2> QED BY <1>5, <2>1 DEF Parsed, OfItsKind
<1>6. ASSUME NEW n \in 1..Len(written), events = SubSeq(written, 1, n) PROVE Parsed(events)
  BY <1>2, <1>5, <1>6, CutsAreLists
<1>7. ASSUME NEW n \in DOMAIN written, events = Without(written, n) PROVE Parsed(events)
  BY <1>2, <1>3, <1>5, <1>7, CutsAreLists
<1>8. ASSUME NEW n \in DOMAIN written, events \in Rewritten(written, n) PROVE Parsed(events)
  <2>1. PICK b \in Forgeries(written[n]) :
           /\ written[n].type \in KeptTypes => b \in Inputs[written[n].type]
           /\ events = [written EXCEPT ![n].body = b]
    BY <1>8 DEF Rewritten
  <2> DEFINE e == [written[n] EXCEPT !.body = b]
  <2>2. events = [written EXCEPT ![n] = e]
    BY <2>1
  <2>3. IsList(events)
    <3> HIDE DEF e
    <3> QED BY <1>2, <2>2, CutsAreLists
  <2>4. e.type = written[n].type
    OBVIOUS
  <2>5. e.body = b \/ e.body = written[n].body
    OBVIOUS
  <2> HIDE DEF e
  <2>6. OfItsKind(e)
    BY <1>2, <2>1, <2>4, <2>5 DEF OfItsKind
  <2>7. DOMAIN events = DOMAIN written
        /\ \A i \in DOMAIN events : events[i] = e \/ events[i] = written[i]
    BY <2>2
  <2>8. \A i \in DOMAIN events : OfItsKind(events[i])
    BY <1>2, <2>6, <2>7
  <2> QED BY <2>3, <2>8 DEF Parsed, OfItsKind
<1>9. \/ \E n \in 1..Len(written) : events = SubSeq(written, 1, n)
      \/ \E n \in DOMAIN written : events = Without(written, n)
      \/ \E n \in DOMAIN written : events \in Rewritten(written, n)
  BY DEF Readable, written
<1> QED BY <1>6, <1>7, <1>8, <1>9

EvidenceKept == {"EffectReceiptRecorded", "ExternalStateObserved"}

\* What a stream has to say, before n, in the events of a type.
ToldBefore(events, n, type) == {events[i].body : i \in {j \in 1..(n - 1) : events[j].type = type}}

\* The fresh kernel has kept, of the evidence, what the stream told so far.
ReplayKeepsUp ==
    \A type \in EvidenceKept :
        /\ IsList(copyKept[type])
        /\ Elements(copyKept[type]) = ToldBefore(replay.events, replay.next, type)

ReplayGoesOn ==
    /\ Parsed(replay.events)
    /\ Contract!IsRunStream(replay.events, RunId)
    /\ replay.last = LastSubmission(replay.events)
    /\ replay.last.final \in FinalProposals(replay.events)
    /\ DOMAIN replay = {"at", "events", "next", "last"}
    /\ replay.next \in 1..replay.last.final
    /\ IsList(copyLog) /\ DOMAIN copyKept = KeptTypes
    /\ ReplayKeepsUp

ReplayInv ==
    /\ replay.at \in {"idle", "replaying", "passed", "failed"}
    /\ replay.at = "idle" => copyLog = <<>> /\ copyKept = [t \in KeptTypes |-> <<>>]
    /\ replay.at = "replaying" => ReplayGoesOn
    /\ PassesVouch

\* The numbers up to the next.
LEMMA UpToNext ==
    ASSUME NEW n \in Nat, n >= 1
    PROVE  1..((n + 1) - 1) = 1..(n - 1) \cup {n}
OBVIOUS

\* An element is appended.
LEMMA AppendedElements ==
    ASSUME NEW s, NEW e, IsList(s)
    PROVE  IsList(Append(s, e)) /\ Elements(Append(s, e)) = Elements(s) \cup {e}
<1>1. /\ IsList(Append(s, e))
      /\ Len(s) \in Nat /\ DOMAIN s = 1..Len(s)
      /\ DOMAIN Append(s, e) = 1..(Len(s) + 1)
      /\ \A i \in 1..Len(s) : Append(s, e)[i] = s[i]
      /\ Append(s, e)[Len(s) + 1] = e
  BY AppendToList
<1> DEFINE t == Append(s, e)
<1> HIDE DEF t
<1>2. 1..(Len(s) + 1) = 1..Len(s) \cup {Len(s) + 1}
  BY <1>1
<1> QED BY <1>1, <1>2 DEF Elements, t

\* The last final candidate is one.
LEMMA LastFinalProposal ==
    ASSUME NEW events, IsList(events), FinalProposals(events) # {}
    PROVE  LastSubmission(events).final \in FinalProposals(events)
<1> DEFINE S == FinalProposals(events)
<1>1. Len(events) \in Nat /\ DOMAIN events = 1..Len(events)
  BY ListFacts
<1>2. S \subseteq 1..Len(events)
  BY <1>1 DEF FinalProposals
<1>3. LastSubmission(events).final = Latest(S)
  BY DEF LastSubmission
<1> HIDE DEF S
<1>4. S # {}
  BY DEF S
<1>5. \E i \in S : \A j \in S : j <= i
  BY <1>1, <1>2, <1>4, LastPosition
<1> QED BY <1>3, <1>5 DEF Latest, S

\* Deciding to replay.
LEMMA ReplayStarts ==
    ASSUME ReplayInv, NEW events, Parsed(events), ReplayRunEvents(events)
    PROVE  ReplayInv'
<1>1. /\ replay.at = "idle" /\ copyLog' = copyLog /\ copyKept' = copyKept
      /\ copyLog = <<>> /\ copyKept = [t \in KeptTypes |-> <<>>]
  BY DEF ReplayRunEvents, ReplayInv, copyVars
<1>2. \/ \E code : replay' = ReplayFailed(events, code)
      \/ /\ Contract!IsRunStream(events, RunId) /\ FinalProposals(events) # {}
         /\ replay' = [at |-> "replaying", events |-> events, next |-> 1,
                       last |-> LastSubmission(events)]
  BY DEF ReplayRunEvents
<1>3. CASE \E code : replay' = ReplayFailed(events, code)
  <2>1. replay'.at = "failed"
    BY <1>3 DEF ReplayFailed
  <2> QED BY <2>1 DEF ReplayInv, PassesVouch
<1>4. CASE /\ Contract!IsRunStream(events, RunId) /\ FinalProposals(events) # {}
           /\ replay' = [at |-> "replaying", events |-> events, next |-> 1,
                         last |-> LastSubmission(events)]
  <2>1. /\ replay'.at = "replaying" /\ replay'.events = events /\ replay'.next = 1
        /\ replay'.last = LastSubmission(events)
        /\ DOMAIN replay' = {"at", "events", "next", "last"}
    BY <1>4
  <2> DEFINE final == LastSubmission(events).final
  <2>2. final \in FinalProposals(events)
    BY <1>4, LastFinalProposal DEF Parsed
  <2>3. 1 \in 1..final
    <3>1. final \in 1..Len(events) /\ Len(events) \in Nat
      BY <2>2, ListFacts DEF Parsed, FinalProposals
    <3> HIDE DEF final
    <3> QED BY <3>1
  <2>4. ASSUME NEW type \in EvidenceKept
        PROVE  IsList(copyKept'[type]) /\ Elements(copyKept'[type]) = ToldBefore(events, 1, type)
    <3>1. copyKept'[type] = <<>>
      BY <1>1 DEF EvidenceKept, KeptTypes, Inputs
    <3>2. ToldBefore(events, 1, type) = {}
      BY DEF ToldBefore
    <3> QED BY <3>1, <3>2, EmptyList DEF Elements
  <2>5. ReplayKeepsUp'
    BY <2>1, <2>4 DEF ReplayKeepsUp
  <2>6. IsList(copyLog') /\ DOMAIN copyKept' = KeptTypes
    BY <1>1, EmptyList
  <2>7. ReplayGoesOn'
    BY <1>4, <2>1, <2>2, <2>3, <2>5, <2>6 DEF ReplayGoesOn
  <2> QED BY <2>1, <2>7 DEF ReplayInv, PassesVouch
<1> QED BY <1>2, <1>3, <1>4

\* An input that the fresh kernel is given again.
LEMMA ReplayAdvances ==
    ASSUME ReplayInv, ReplayInput
    PROVE  ReplayInv'
<1> DEFINE events == replay.events
           n == replay.next
           final == replay.last.final
<1>1. replay.at = "replaying" /\ ReplayGoesOn /\ n < final
  BY DEF ReplayInput, ReplayInv
<1>2. CASE replay' = ReplayFailed(events, "event_stream_integrity_failed")
  <2>1. replay'.at = "failed"
    BY <1>2 DEF ReplayFailed
  <2> QED BY <2>1 DEF ReplayInv, PassesVouch
<1>3. CASE Readmit(events, n) /\ replay' = [replay EXCEPT !.next = @ + 1]
  <2>1. /\ final \in DOMAIN events /\ DOMAIN events = 1..Len(events) /\ Len(events) \in Nat
        /\ n \in 1..final
    BY <1>1, ListFacts DEF ReplayGoesOn, Parsed, FinalProposals
  <2>2. n \in Nat /\ n >= 1 /\ n \in DOMAIN events /\ n + 1 \in 1..final
    <3> HIDE DEF n, final, events
    <3> QED BY <1>1, <2>1
  <2>3. events[n].intact
    BY <1>1, <2>2 DEF ReplayGoesOn, Contract!IsRunStream
  <2> DEFINE kind == events[n].type
             body == events[n].body
  <2>4. Readmitted(kind, body, TRUE)
    <3>1. Readmitted(kind, body, events[n].intact)
      BY <1>3, ReadmissionRecords
    <3> QED BY <2>3, <3>1 DEF Readmitted
  <2> DEFINE s == replay'
  <2>5. s.at = replay.at /\ s.events = events /\ s.last = replay.last
    BY <1>3
  <2>6. s.next = n + 1 /\ DOMAIN s = {"at", "events", "next", "last"}
    BY <1>1, <1>3 DEF ReplayGoesOn
  <2> HIDE DEF s
  <2>7. IsList(copyLog') /\ DOMAIN copyKept' = KeptTypes
    <3>1. copyLog' = copyLog \/ \E e : copyLog' = Append(copyLog, e)
      BY <2>4 DEF Readmitted
    <3>2. IsList(copyLog')
      <4>1. IsList(copyLog)
        BY <1>1 DEF ReplayGoesOn
      <4>2. ASSUME NEW e PROVE IsList(Append(copyLog, e))
        BY <4>1, AppendToList
      <4> QED BY <3>1, <4>1, <4>2
    <3>3. \/ copyKept' = copyKept
          \/ \E b : copyKept' = [copyKept EXCEPT ![kind] = Append(@, b)]
      BY <2>4 DEF Readmitted
    <3>4. DOMAIN copyKept' = DOMAIN copyKept
      BY <3>3
    <3> QED BY <1>1, <3>2, <3>4 DEF ReplayGoesOn
  <2>8. ASSUME NEW type \in EvidenceKept
        PROVE  IsList(copyKept'[type]) /\ Elements(copyKept'[type]) = ToldBefore(events, n + 1, type)
    <3>1. type \in KeptTypes
      BY DEF EvidenceKept, KeptTypes, Inputs
    <3>2. IsList(copyKept[type]) /\ Elements(copyKept[type]) = ToldBefore(events, n, type)
      BY <1>1 DEF ReplayGoesOn, ReplayKeepsUp
    <3>3. CASE kind = type
      <4>1. copyKept'[type] = Append(copyKept[type], body)
        BY <1>1, <2>4, <3>1, <3>3 DEF Readmitted, EvidenceKept, ReplayGoesOn
      <4>2. IsList(copyKept'[type]) /\ Elements(copyKept'[type]) = Elements(copyKept[type]) \cup {body}
        BY <3>2, <4>1, AppendedElements
      <4>3. ToldBefore(events, n + 1, type) = ToldBefore(events, n, type) \cup {body}
        <5>1. {j \in 1..((n + 1) - 1) : events[j].type = type}
                 = {j \in 1..(n - 1) : events[j].type = type} \cup {n}
          <6>1. 1..((n + 1) - 1) = 1..(n - 1) \cup {n}
            <7> HIDE DEF n
            <7> QED BY <2>2, UpToNext
          <6> QED BY <3>3, <6>1
        <5> QED BY <5>1 DEF ToldBefore
      <4> QED BY <3>2, <4>2, <4>3
    <3>4. CASE kind # type
      <4>1. copyKept'[type] = copyKept[type]
        BY <1>1, <2>4, <3>1, <3>4 DEF Readmitted, ReplayGoesOn
      <4>2. ToldBefore(events, n + 1, type) = ToldBefore(events, n, type)
        <5>1. {j \in 1..((n + 1) - 1) : events[j].type = type}
                 = {j \in 1..(n - 1) : events[j].type = type}
          <6>1. 1..((n + 1) - 1) = 1..(n - 1) \cup {n}
            <7> HIDE DEF n
            <7> QED BY <2>2, UpToNext
          <6> QED BY <3>4, <6>1
        <5> QED BY <5>1 DEF ToldBefore
      <4> QED BY <3>2, <4>1, <4>2
    <3> QED BY <3>3, <3>4
  <2>9. ReplayKeepsUp'
    BY <2>5, <2>6, <2>8 DEF ReplayKeepsUp, s
  <2>10. ReplayGoesOn'
    BY <1>1, <2>2, <2>5, <2>6, <2>7, <2>9 DEF ReplayGoesOn, s
  <2> QED BY <1>1, <2>5, <2>10 DEF ReplayInv, PassesVouch, s
<1> QED BY <1>2, <1>3 DEF ReplayInput

\* The evidence before the candidate, as the reference definition lists it.
LEMMA ToldIsListed ==
    ASSUME NEW events, IsList(events), NEW final \in DOMAIN events, NEW type
    PROVE  Elements(Bodies(SubSeq(events, 1, final - 1), type)) = ToldBefore(events, final, type)
<1> DEFINE n == final - 1
           before == SubSeq(events, 1, n)
           positions == {j \in 1..n : events[j].type = type}
<1>1. /\ Len(events) \in Nat /\ n \in Nat /\ n <= Len(events)
      /\ Len(before) = n /\ DOMAIN before = 1..n /\ \A i \in 1..n : before[i] = events[i]
  <2>1. DOMAIN events = 1..Len(events) /\ Len(events) \in Nat
    BY ListFacts
  <2>2. n \in Nat /\ n <= Len(events)
    BY <2>1
  <2>3. events \in Seq(Elements(events))
    BY DEF IsList
  <2> HIDE DEF n
  <2>4. Len(before) = n /\ DOMAIN before = 1..n /\ \A i \in 1..n : before[i] = events[i]
    BY <2>1, <2>2, <2>3
  <2> QED BY <2>1, <2>2, <2>4
<1> HIDE DEF n, before
<1>2. Projections!PositionsOf(before, type) = positions
  BY <1>1 DEF Projections!PositionsOf
<1>3. Bodies(before, type) = Projections!BodiesAt(before, positions)
  BY <1>2, Zenon DEF Bodies, Projections!BodiesOf
<1>4. positions \subseteq 1..Len(before) /\ Len(before) \in Nat
  BY <1>1
<1>5. Elements(Projections!BodiesAt(before, positions)) = {before[i].body : i \in positions}
  <2> HIDE DEF positions
  <2> QED BY <1>4, ListedBodies
<1>6. {before[i].body : i \in positions} = {events[i].body : i \in positions}
  BY <1>1
<1> QED BY <1>3, <1>5, <1>6 DEF ToldBefore, before, n

\* The candidate is submitted again, and what comes out is compared.
LEMMA ReplayEnds ==
    ASSUME ReplayInv, ReplayFinalCandidate
    PROVE  ReplayInv'
<1> DEFINE events == replay.events
           at == replay.last
<1>1. replay.at = "replaying" /\ ReplayGoesOn /\ replay.next = at.final
  BY DEF ReplayFinalCandidate, ReplayInv
<1>2. \/ \E code : replay' = ReplayFailed(events, code)
      \/ /\ SubmitStored(events, at) /\ Submitted(copyLog') /\ SameOutcome(events, at, copyLog')
         /\ replay' = [at |-> "passed", events |-> events]
  BY Zenon DEF ReplayFinalCandidate
<1>3. CASE \E code : replay' = ReplayFailed(events, code)
  <2>1. replay'.at = "failed"
    BY <1>3 DEF ReplayFailed
  <2> QED BY <2>1 DEF ReplayInv, PassesVouch
<1>4. CASE /\ SubmitStored(events, at) /\ Submitted(copyLog') /\ SameOutcome(events, at, copyLog')
           /\ replay' = [at |-> "passed", events |-> events]
  <2>1. replay'.at = "passed" /\ replay'.events = events
    BY <1>4
  <2>2. /\ at = LastSubmission(events) /\ at.final \in FinalProposals(events)
        /\ Parsed(events) /\ IsList(copyLog) /\ ReplayKeepsUp
    BY <1>1 DEF ReplayGoesOn
  <2> DEFINE c == events[at.final].body
             R == Elements(copyKept["EffectReceiptRecorded"])
             O == Elements(copyKept["ExternalStateObserved"])
             t == events[at.proof].body.generatedAt
             before == SubSeq(events, 1, at.final - 1)
             decision == DecideRelease(c, EvaluateProof(c, R, O, t))
  <2>3. c \in FinalCandidates
    <3>1. /\ at.final \in DOMAIN events /\ events[at.final].type = "ProposalReceived"
          /\ c.kind = "final_candidate"
      BY <2>2 DEF FinalProposals
    <3>2. "ProposalReceived" \in KeptTypes
      BY DEF KeptTypes, Inputs
    <3>3. c \in Inputs["ProposalReceived"]
      BY <2>2, <3>1, <3>2 DEF Parsed
    <3> HIDE DEF c
    <3> QED BY <3>1, <3>3, CandidateKind
  <2>4. BodyOfLast(copyLog', "ReleaseDecided") = decision
    BY <1>4, <2>2, <2>3, ResubmissionDecides DEF CopyProof
  <2>5. /\ R = Elements(Bodies(before, "EffectReceiptRecorded"))
        /\ O = Elements(Bodies(before, "ExternalStateObserved"))
    <3>1. ASSUME NEW type \in EvidenceKept
          PROVE  Elements(copyKept[type]) = Elements(Bodies(before, type))
      <4>1. Elements(copyKept[type]) = ToldBefore(events, at.final, type)
        BY <1>1, <2>2 DEF ReplayKeepsUp
      <4>2. IsList(events) /\ at.final \in DOMAIN events
        BY <2>2 DEF Parsed, FinalProposals
      <4> QED BY <4>1, <4>2, ToldIsListed
    <3> QED BY <3>1 DEF EvidenceKept
  <2>6. /\ decision.status = events[at.release].body.status
        /\ decision.approved = events[at.release].body.approved
    BY <1>4, <2>4, Zenon DEF SameOutcome
  <2>7. decision = DecideRelease(c, EvaluateProof(c,
                       Elements(Bodies(before, "EffectReceiptRecorded")),
                       Elements(Bodies(before, "ExternalStateObserved")), t))
    BY <2>5
  <2> HIDE DEF decision
  <2>8. DecisionIsRight(events)
    BY <2>2, <2>6, <2>7 DEF DecisionIsRight
  <2> QED BY <2>1, <2>8 DEF ReplayInv, PassesVouch
<1> QED BY <1>2, <1>3, <1>4

\* The replay keeps up with its stream.
LEMMA ReplayHolds == HistorySpec => []ReplayInv
<1>1. HistoryInit => ReplayInv
  BY DEF HistoryInit, Copy!Init, ReplayInv, PassesVouch, Copy!KeptTypes, Copy!Inputs, KeptTypes, Inputs
<1>2. TypeOK /\ Mirrored /\ ReplayInv /\ [HistoryNext]_historyVars => ReplayInv'
  <2> SUFFICES ASSUME TypeOK, Mirrored, ReplayInv, [HistoryNext]_historyVars PROVE ReplayInv'
    OBVIOUS
  <2>1. CASE UNCHANGED <<copyVars, replay>>
    BY <2>1 DEF copyVars, ReplayInv, ReplayGoesOn, ReplayKeepsUp, PassesVouch
  <2>2. CASE \E events \in Readable(Stored(log)) : ReplayRunEvents(events)
    BY <2>2, ReadableIsParsed, ReplayStarts
  <2>3. CASE ReplayInput
    BY <2>3, ReplayAdvances
  <2>4. CASE ReplayFinalCandidate
    BY <2>4, ReplayEnds
  <2> QED BY <2>1, <2>2, <2>3, <2>4 DEF HistoryNext, historyVars
<1> QED BY <1>1, <1>2, HistoriesAreRuns, TypeCorrect, ListsMirrorLog, PTL DEF HistorySpec

\* A replay that passes vouches for the stored decision (replayRunEvents): what the
\* stream says before the candidate, judged anew at the stored time, decides the same.
\* This holds of every stream that is read, cut short or rewritten.
THEOREM PassingReplaysVouch == HistorySpec => []PassesVouch
<1>1. ReplayInv => PassesVouch
  BY DEF ReplayInv
<1> QED BY <1>1, ReplayHolds, PTL

\* ------------------------------------------------------------------------
\* What an event of a submission carries

\* What the accepted events of a type before s tell.
ToldIn(l, s, type) == {l[j].body : j \in {h \in 1..(s - 1) : l[h].type = type /\ l[h].wellFormed}}

\* The proof of the candidate at s at a time, from the evidence before it.
ProofAt(l, s, t) ==
    EvaluateProof(l[s].body, ToldIn(l, s, "EffectReceiptRecorded"),
                  ToldIn(l, s, "ExternalStateObserved"), t)

\* The event at k carries what the submission at s, its proof and the mismatches m make it.
CarriesPlan(l, s, k, proof, m) ==
    LET n == Len(m)
        decision == DecideRelease(l[s].body, proof)
    IN  \/ /\ k = s + 1
           /\ l[k].type = "ProofGenerated" /\ l[k].cause = l[s].id /\ l[k].body = proof
        \/ /\ k \in (s + 2)..(s + n + 1)
           /\ l[k].type = "MismatchDetected" /\ l[k].cause = l[s + 1].id /\ l[k].body = m[k - (s + 1)]
        \/ /\ k = s + n + 2
           /\ l[k].type = "ReleaseDecided" /\ l[k].cause = l[s + 1].id /\ l[k].body = decision
        \/ /\ k = s + n + 3
           /\ decision.status = "released"
           /\ l[k].type = "FinalReleased" /\ l[k].cause = l[s + n + 2].id
           /\ l[k].body = [decision |-> decision, candidate |-> l[s].body]

\* From the proposal at s up to i, a log is one submission.
IsSubmission(l, s, i, t, m) ==
    /\ l[s].type = "ProposalReceived" /\ l[s].body \in FinalCandidates
    /\ m \in InClaimOrder(ProofAt(l, s, t).mismatches)
    /\ \A k \in (s + 1)..i : CarriesPlan(l, s, k, ProofAt(l, s, t), m)

PlansAreCarriedOut ==
    \A i \in DOMAIN log : log[i].type \in FinalTypes =>
        \E s \in 1..(i - 1), t \in Times \ {Null} : \E m \in InClaimOrder(ProofAt(log, s, t).mismatches) :
            IsSubmission(log, s, i, t, m)

\* The lists of the evidence tell what the log does.
LEMMA KeptIsTold ==
    ASSUME TypeOK, Mirrored, NEW type \in KeptTypes
    PROVE  Elements(kept[type]) = ToldIn(log, Len(log) + 1, type)
<1>1. DOMAIN log = 1..Len(log) /\ Len(log) \in Nat /\ 1..((Len(log) + 1) - 1) = 1..Len(log)
  BY DEF TypeOK
<1>2. \A b \in Elements(kept[type]) : \E i \in DOMAIN log :
         log[i].type = type /\ log[i].wellFormed /\ log[i].body = b
  BY DEF Mirrored, Elements
<1>3. \A i \in DOMAIN log : log[i].type = type /\ log[i].wellFormed => log[i].body \in Elements(kept[type])
  BY DEF Mirrored, Elements
<1> QED BY <1>1, <1>2, <1>3 DEF ToldIn

\* How far the plan p, for the mismatches m, got.
PlanAppended(p, c, o, t, m, k) ==
    /\ m \in InClaimOrder(ProofNow(c, t).mismatches)
    /\ Len(m) \in Nat
    /\ IsPlan(p, Len(log) + 1, c, o, ProofNow(c, t), m, Newest.id)
    /\ k \in Nat /\ k <= Len(p)
    /\ DOMAIN log' = 1..(Len(log) + 1 + k)
    /\ \A j \in 1..k : log'[Len(log) + 1 + j] = p[j] /\ p[j].id # Null

\* A submission that gets beyond its proposal appends events of its plan.
LEMMA SubmissionAppends ==
    ASSUME IsList(log), NEW c \in FinalCandidates, NEW o \in FinalOptions, NEW t \in Times \cup {Null},
           SubmitFinalCandidate(c, o, t)
    PROVE  /\ \A j \in 1..Len(log) : log'[j] = log[j]
           /\ Newest = NewEvent("ProposalReceived", c, o, Given(o.causationId, started))
           /\ \/ DOMAIN log' = 1..(Len(log) + 1)
              \/ t \in Times \ {Null} /\ \E p, m, k : PlanAppended(p, c, o, t, m, k)
<1> DEFINE N == Len(log) + 1
           e == NewEvent("ProposalReceived", c, o, Given(o.causationId, started))
           proof == ProofNow(c, t)
           before == Append(log, e)
           M == proof.mismatches
<1>2. IF e.wellFormed /\ t # Null
      THEN \E m \in InClaimOrder(M) : AppendPlan(before, FinalPlan(c, o, proof, m, e.id))
      ELSE log' = before
  BY DEF SubmitFinalCandidate, ProofNow
<1> HIDE DEF e
<1>4. /\ IsList(before) /\ Len(log) \in Nat /\ DOMAIN log = 1..Len(log)
      /\ Len(before) = N /\ DOMAIN before = 1..N
      /\ \A j \in 1..Len(log) : before[j] = log[j]
      /\ before[N] = e
  BY AppendToList
<1>5. CASE log' = before
  BY <1>4, <1>5 DEF Newest, e
<1>6. CASE log' # before
  <2> HIDE DEF proof, M
  <2>6. t \in Times \ {Null} /\ \E m \in InClaimOrder(M) : AppendPlan(before, FinalPlan(c, o, proof, m, e.id))
    BY <1>2, <1>6
  <2>7. PICK m \in InClaimOrder(M) : AppendPlan(before, FinalPlan(c, o, proof, m, e.id))
    BY <2>6
  <2> DEFINE p == FinalPlan(c, o, proof, m, e.id)
  <2>8. Len(m) \in Nat
    BY <2>7, ClaimOrderLength DEF M, proof, ProofNow
  <2>9. IsPlan(p, N, c, o, proof, m, e.id)
    BY <2>8, PlansAreSuch
  <2>10. PICK k \in 0..Len(p) : log' = Joined(before, p, k) /\ \A j \in 1..k : Appendable(before, p, j)
    BY <2>7 DEF AppendPlan, Joined, p
  <2> HIDE DEF p
  <2>11. IsList(p) /\ k \in Nat /\ k <= Len(p)
    <3>1. IsList(p)
      BY <2>9 DEF IsPlan
    <3> QED BY <2>10, <3>1, ListFacts
  <2>12. /\ DOMAIN log' = 1..(N + k)
         /\ \A j \in 1..N : log'[j] = before[j]
         /\ \A j \in 1..k : log'[N + j] = p[j]
    <3>1. IsJoined(Joined(before, p, k), before, p, k)
      <4>1. IsList(before) /\ IsList(p) /\ k \in 0..Len(p)
        BY <1>4, <2>10, <2>11
      <4> HIDE DEF before
      <4> QED BY <4>1, ConcatToList, Zenon
    <3> HIDE DEF N, before
    <3> QED BY <1>4, <2>10, <3>1 DEF IsJoined
  <2>13. N \in Nat /\ N \in 1..N /\ \A j \in 1..Len(log) : j \in 1..N
    BY <1>4
  <2>14. Newest = e /\ \A j \in 1..Len(log) : log'[j] = log[j]
    BY <1>4, <2>12, <2>13 DEF Newest
  <2>15. \A j \in 1..k : p[j].id # Null
    BY <2>10, Zenon DEF Appendable
  <2>16. PlanAppended(p, c, o, t, m, k)
    <3> HIDE DEF before
    <3> QED BY <2>7, <2>8, <2>9, <2>11, <2>12, <2>14, <2>15 DEF PlanAppended, proof, M
  <2> QED BY <2>6, <2>14, <2>16 DEF e
<1> QED BY <1>5, <1>6

\* The events a submission appends carry out its plan.
LEMMA NewPlan ==
    ASSUME TypeOK, Mirrored, Next, NEW i \in DOMAIN log', i \notin 1..Len(log), log'[i].type \in FinalTypes
    PROVE  \E s \in 1..(i - 1), t \in Times \ {Null} : \E m \in InClaimOrder(ProofAt(log', s, t).mismatches) :
              IsSubmission(log', s, i, t, m)
<1> DEFINE N == Len(log) + 1
<1>1. PICK c \in FinalCandidates, o \in FinalOptions, t \in Times \cup {Null} :
         SubmitFinalCandidate(c, o, t)
  BY FinalEventsComeFromCandidates
<1> DEFINE e == NewEvent("ProposalReceived", c, o, Given(o.causationId, started))
           proof == ProofNow(c, t)
<1>l. IsList(log) /\ Len(log) \in Nat
  BY DEF TypeOK, IsList
<1>2. /\ \A j \in 1..Len(log) : log'[j] = log[j]
      /\ Newest = e
      /\ \/ DOMAIN log' = 1..(Len(log) + 1)
         \/ t \in Times \ {Null} /\ \E p, m, k : PlanAppended(p, c, o, t, m, k)
  BY <1>1, <1>l, SubmissionAppends
<1>3. e.type = "ProposalReceived" /\ e.body = c
  BY DEF NewEvent
<1> HIDE DEF e, proof
<1>4. i # N
  BY <1>2, <1>3 DEF Newest, FinalTypes
<1>5. DOMAIN log' # 1..(Len(log) + 1)
  BY <1>l, <1>4
<1>6. t \in Times \ {Null} /\ \E p, m, k : PlanAppended(p, c, o, t, m, k)
  BY <1>2, <1>5
<1>7. PICK p, m, k : PlanAppended(p, c, o, t, m, k)
  BY <1>6
<1> DEFINE n == Len(m)
           decision == DecideRelease(c, proof)
           M == proof.mismatches
<1>8. n \in Nat /\ m \in InClaimOrder(M) /\ IsPlan(p, N, c, o, proof, m, e.id)
  BY <1>2, <1>7 DEF PlanAppended, proof
<1> HIDE DEF n, M
<1>11. /\ IsList(p) /\ k \in Nat /\ k <= Len(p)
       /\ Len(p) = IF decision.status = "released" THEN n + 3 ELSE n + 2
  BY <1>7, <1>8 DEF IsPlan, n, decision, PlanAppended
<1>12. /\ DOMAIN log' = 1..(N + k)
       /\ \A j \in 1..k : log'[N + j] = p[j]
  BY <1>7 DEF PlanAppended
<1>13. N \in Nat /\ N \in 1..N /\ N \in 1..(i - 1) /\ i \in Nat /\ i <= N + k
  BY <1>l, <1>4, <1>11, <1>12
<1>14. log'[N] = e /\ log'[N].body = c
  BY <1>2, <1>3 DEF Newest
<1>15. ProofAt(log', N, t) = proof
  <2>1. ASSUME NEW type \in KeptTypes PROVE Elements(kept[type]) = ToldIn(log', N, type)
    <3>1. Elements(kept[type]) = ToldIn(log, N, type)
      BY KeptIsTold
    <3>2. \A j \in 1..(N - 1) : log'[j] = log[j]
      BY <1>l, <1>2
    <3>3. ToldIn(log', N, type) = ToldIn(log, N, type)
      <4> HIDE DEF N
      <4> QED BY <3>2 DEF ToldIn
    <3> QED BY <3>1, <3>3
  <2>2. {"EffectReceiptRecorded", "ExternalStateObserved"} \subseteq KeptTypes
    BY DEF KeptTypes, Inputs
  <2> HIDE DEF N
  <2> QED BY <1>14, <2>1, <2>2 DEF ProofAt, proof, ProofNow
<1> HIDE DEF N, decision
<1>16. ASSUME NEW j \in (N + 1)..i PROVE CarriesPlan(log', N, j, proof, m)
  <2> DEFINE h == j - N
             d == log'[j]
  <2>1. h \in 1..k /\ d = p[h] /\ j = N + h
    <3>1. h \in 1..k /\ j = N + h
      BY <1>11, <1>13
    <3>2. log'[N + h] = p[h]
      BY <1>12, <3>1
    <3> QED BY <3>1, <3>2
  <2>2. h = 1 \/ h \in 2..(n + 1) \/ h = n + 2 \/ (h = n + 3 /\ decision.status = "released")
    BY <1>8, <1>11, <2>1
  <2>3. /\ p[1].id = log'[N + 1].id
        /\ h = n + 3 => p[n + 2].id = log'[N + n + 2].id
    <3>1. 1 \in 1..k /\ (h = n + 3 => n + 2 \in 1..k /\ N + (n + 2) = N + n + 2)
      <4> HIDE DEF h
      <4> QED BY <1>8, <1>11, <1>13, <2>1
    <3>2. log'[N + 1] = p[1] /\ (h = n + 3 => log'[N + (n + 2)] = p[n + 2])
      BY <1>12, <3>1
    <3> QED BY <3>1, <3>2
  <2> HIDE DEF h
  <2>4. CASE h = 1
    <3>1. d.type = "ProofGenerated" /\ d.cause = e.id /\ d.body = proof
      BY <1>8, <2>1, <2>4 DEF IsPlan, Planned
    <3> QED BY <1>14, <2>1, <2>4, <3>1 DEF CarriesPlan
  <2>5. CASE h \in 2..(n + 1)
    <3>1. h - 1 \in 1..n /\ (h - 1) + 1 = h
      BY <1>8, <2>5
    <3>2. p[h] = Planned(N, 1 + (h - 1), MismatchId(o, h - 1), "MismatchDetected", p[1].id, m[h - 1])
      BY <1>8, <3>1 DEF IsPlan, n
    <3>3. d.type = "MismatchDetected" /\ d.cause = p[1].id /\ d.body = m[h - 1]
      BY <2>1, <3>2 DEF Planned
    <3>4. j \in (N + 2)..(N + n + 1) /\ j - (N + 1) = h - 1
      BY <1>8, <1>13, <2>1, <2>5
    <3> QED BY <2>3, <3>3, <3>4 DEF CarriesPlan, n
  <2>6. CASE h = n + 2
    <3>1. p[n + 2] = Planned(N, 2 + n, o.releaseEventId, "ReleaseDecided", p[1].id, decision)
      BY <1>8 DEF IsPlan, n, decision
    <3>2. d.type = "ReleaseDecided" /\ d.cause = p[1].id /\ d.body = decision
      BY <2>1, <2>6, <3>1 DEF Planned
    <3>3. j = N + n + 2
      BY <1>8, <1>13, <2>1, <2>6
    <3> QED BY <1>14, <2>3, <3>2, <3>3 DEF CarriesPlan, n, decision
  <2>7. CASE h = n + 3 /\ decision.status = "released"
    <3>1. p[n + 3] = Planned(N, 3 + n, o.finalReleasedEventId, "FinalReleased", p[n + 2].id,
                             [decision |-> decision, candidate |-> c])
      BY <1>8, <2>7 DEF IsPlan, n, decision
    <3>2. d.type = "FinalReleased" /\ d.cause = p[n + 2].id /\ d.body = [decision |-> decision, candidate |-> c]
      BY <2>1, <2>7, <3>1 DEF Planned
    <3>3. j = N + n + 3
      BY <1>8, <1>13, <2>1, <2>7
    <3> QED BY <1>14, <2>3, <2>7, <3>2, <3>3 DEF CarriesPlan, n, decision
  <2> QED BY <2>2, <2>4, <2>5, <2>6, <2>7
<1>17. m \in InClaimOrder(ProofAt(log', N, t).mismatches)
  BY <1>8, <1>15 DEF M
<1>18. IsSubmission(log', N, i, t, m)
  BY <1>3, <1>14, <1>15, <1>16, <1>17 DEF IsSubmission
<1> QED BY <1>6, <1>13, <1>17, <1>18

\* Every release event in the log carries out the plan of the submission it belongs to
\* (submitFinalCandidate).
THEOREM SubmissionsFollowPlans == Spec => []PlansAreCarriedOut
<1>1. Init => PlansAreCarriedOut
  BY DEF Init, PlansAreCarriedOut
<1>2. TypeOK /\ Mirrored /\ PlansAreCarriedOut /\ [Next]_vars => PlansAreCarriedOut'
  <2> SUFFICES ASSUME TypeOK, Mirrored, PlansAreCarriedOut, [Next]_vars PROVE PlansAreCarriedOut'
    OBVIOUS
  <2>1. CASE UNCHANGED vars
    BY <2>1 DEF PlansAreCarriedOut, vars
  <2>2. CASE Next
    <3>1. Grows
      BY <2>2, StepsExtend DEF Extends
    <3>2. ASSUME NEW i \in DOMAIN log', log'[i].type \in FinalTypes
          PROVE  \E s \in 1..(i - 1), t \in Times \ {Null} : \E m \in InClaimOrder(ProofAt(log', s, t).mismatches) :
                    IsSubmission(log', s, i, t, m)
      <4>1. CASE i \in 1..Len(log)
        <5>1. i \in DOMAIN log /\ log[i].type \in FinalTypes /\ i \in Nat
          BY <3>1, <3>2, <4>1 DEF Grows
        <5>2. PICK s \in 1..(i - 1), t \in Times \ {Null} : \E m \in InClaimOrder(ProofAt(log, s, t).mismatches) :
                 IsSubmission(log, s, i, t, m)
          BY <5>1 DEF PlansAreCarriedOut
        <5>3. PICK m \in InClaimOrder(ProofAt(log, s, t).mismatches) : IsSubmission(log, s, i, t, m)
          BY <5>2
        <5>4. \A j \in 1..i : log'[j] = log[j]
          BY <3>1, <4>1 DEF Grows
        <5>5. s \in 1..i /\ s + 1 \in 1..i /\ s \in Nat /\ \A h \in 1..(s - 1) : h \in 1..i
          BY <5>1
        <5>6. ProofAt(log', s, t) = ProofAt(log, s, t)
          <6>1. \A type : ToldIn(log', s, type) = ToldIn(log, s, type)
            BY <5>4, <5>5 DEF ToldIn
          <6> QED BY <5>4, <5>5, <6>1 DEF ProofAt
        <5> DEFINE proof == ProofAt(log, s, t)
                   n == Len(m)
        <5>7. n \in Nat
          BY <5>3, ClaimOrderLength DEF IsSubmission, ProofAt
        <5>8. ASSUME NEW k \in (s + 1)..i PROVE CarriesPlan(log', s, k, proof, m)
          <6>1. CarriesPlan(log, s, k, proof, m)
            BY <5>3, <5>8 DEF IsSubmission
          <6> HIDE DEF proof, n
          <6>2. k \in 1..i /\ (k = s + n + 3 => s + n + 2 \in 1..i)
            BY <5>1, <5>5, <5>7, <5>8
          <6> QED BY <5>4, <5>5, <6>1, <6>2 DEF CarriesPlan, n
        <5>9. IsSubmission(log', s, i, t, m)
          BY <5>3, <5>4, <5>5, <5>6, <5>8 DEF IsSubmission
        <5> QED BY <5>3, <5>6, <5>9
      <4>2. CASE i \notin 1..Len(log)
        BY <2>2, <3>2, <4>2, NewPlan
      <4> QED BY <4>1, <4>2
    <3> QED BY <3>2 DEF PlansAreCarriedOut
  <2> QED BY <2>1, <2>2
<1> QED BY <1>1, <1>2, TypeCorrect, ListsMirrorLog, PTL DEF Spec

\* A proof's mismatches can be listed in claim order in one way only.
LEMMA ClaimOrderIsUnique ==
    ASSUME NEW c \in FinalCandidates, NEW R, NEW O, NEW t,
           NEW a \in InClaimOrder(EvaluateProof(c, R, O, t).mismatches),
           NEW b \in InClaimOrder(EvaluateProof(c, R, O, t).mismatches)
    PROVE  a = b
<1> DEFINE M == EvaluateProof(c, R, O, t).mismatches
           n == Cardinality(M)
<1>1. /\ \A x, y \in M : x.index = y.index => x = y
      /\ \A x \in M : x.index \in Nat
  <2> DEFINE claims == c.claims
             verdict == [i \in DOMAIN claims |-> ClaimVerdict(claims[i], R, O, t, c.runId)]
             unsupported == (DOMAIN claims) \ {i \in DOMAIN claims : verdict[i] = "supported"}
             F(i) == [index |-> i, claimId |-> claims[i].claimId, type |-> verdict[i], blocking |-> TRUE]
  <2>1. M = {F(i) : i \in unsupported}
    BY DEF EvaluateProof
  <2>2. claims \in Seq(Elements(claims))
    BY InputContracts DEF Elements
  <2> HIDE DEF claims, verdict, M
  <2>3. DOMAIN claims \subseteq Nat
    BY <2>2
  <2>4. unsupported \subseteq Nat
    BY <2>3
  <2>5. \A i : F(i).index = i
    OBVIOUS
  <2> HIDE DEF F, unsupported
  <2> QED BY <2>1, <2>4, <2>5
<1>3. IsFiniteSet(M)
  BY FiniteMismatches
<1>4. a \in InClaimOrder(M) /\ b \in InClaimOrder(M)
  OBVIOUS
<1> HIDE DEF M
<1>5. n \in Nat
  BY <1>3, FS_CardinalityType
<1> DEFINE Ordered(f) == /\ f \in [1..n -> M]
                         /\ \A i, j \in 1..n : i < j => f[i].index < f[j].index
<1>6. Ordered(a) /\ Ordered(b)
  BY <1>4 DEF InClaimOrder
<1>7. IsFiniteSet(1..n) /\ Cardinality(1..n) = n
  BY <1>5, FS_Interval
<1> HIDE DEF n
<1>8. ASSUME NEW f, Ordered(f) PROVE \A x \in M : \E i \in 1..n : f[i] = x
  <2>1. \A i, j \in 1..n : f[i] = f[j] => i = j
    <3> SUFFICES ASSUME NEW i \in 1..n, NEW j \in 1..n, f[i] = f[j], i # j PROVE FALSE
      OBVIOUS
    <3>1. f[i].index \in Nat /\ f[j].index \in Nat
      BY <1>1, <1>8
    <3>2. i < j \/ j < i
      BY <1>5
    <3>3. f[i].index < f[j].index \/ f[j].index < f[i].index
      BY <1>8, <3>2
    <3> QED BY <3>1, <3>3
  <2>2. f \in Injection(1..n, M)
    BY <1>8, <2>1 DEF Injection, IsInjective
  <2>3. Cardinality(1..n) = Cardinality(M)
    BY <1>7 DEF n
  <2>4. f \in Surjection(1..n, M)
    BY <1>3, <2>2, <2>3, FS_Injection
  <2> QED BY <2>4 DEF Surjection
<1>9. ASSUME NEW f, NEW g, Ordered(f), Ordered(g), NEW k \in 1..n,
             \A j \in 1..(k - 1) : f[j] = g[j]
      PROVE  ~(f[k].index < g[k].index)
  <2> SUFFICES ASSUME f[k].index < g[k].index PROVE FALSE
    OBVIOUS
  <2>1. f[k] \in M
    BY <1>9
  <2>2. PICK l \in 1..n : g[l] = f[k]
    BY <1>8, <1>9, <2>1
  <2>3. /\ f[k].index \in Nat /\ g[k].index \in Nat /\ g[l].index = f[k].index
        /\ \A i, j \in 1..n : i < j => f[i].index < f[j].index /\ g[i].index < g[j].index
    BY <1>1, <1>9, <2>2
  <2>4. l < k \/ l = k \/ k < l
    BY <1>5
  <2>5. l # k /\ ~(k < l)
    BY <2>3
  <2>6. l \in 1..(k - 1) /\ l < k
    BY <1>5, <2>4, <2>5
  <2>7. f[l] = g[l] /\ f[l].index < f[k].index
    BY <1>9, <2>3, <2>6
  <2>8. f[l].index = f[k].index
    BY <2>2, <2>7
  <2> QED BY <2>3, <2>7, <2>8
<1> DEFINE bad == {k \in 1..n : a[k] # b[k]}
<1>10. ASSUME bad # {} PROVE FALSE
  <2>1. bad \subseteq Nat
    OBVIOUS
  <2>2. PICK k \in bad : \A j \in bad : k <= j
    <3> HIDE DEF bad
    <3> QED BY <1>10, <2>1, LeastOf
  <2>3. k \in 1..n /\ a[k] # b[k]
    OBVIOUS
  <2>4. \A j \in 1..(k - 1) : j \in 1..n /\ ~(k <= j)
    BY <1>5, <2>3
  <2>5. \A j \in 1..(k - 1) : a[j] = b[j] /\ b[j] = a[j]
    BY <2>2, <2>4
  <2>6. ~(a[k].index < b[k].index) /\ ~(b[k].index < a[k].index)
    <3> HIDE DEF bad, Ordered
    <3> QED BY <1>6, <1>9, <2>3, <2>5
  <2>7. a[k] \in M /\ b[k] \in M
    BY <1>6, <2>3
  <2>8. a[k].index = b[k].index
    BY <1>1, <2>6, <2>7
  <2> QED BY <1>1, <2>3, <2>7, <2>8
<1>11. a = [k \in 1..n |-> a[k]] /\ b = [k \in 1..n |-> b[k]]
  BY <1>6
<1> QED BY <1>10, <1>11

\* Every event has an id callers choose or the kernel gives, that of a release is never
\* the value that stands for "no event", and a start says which run it starts.
EventsAreNamed ==
    \A i \in DOMAIN log :
        /\ log[i].id \in EventIds
        /\ log[i].type \in FinalTypes => log[i].id # Null
        /\ log[i].type = "RunStarted" => log[i].body = [runId |-> RunId]

\* An id a caller chose or left out makes an event id.
LEMMA GivenIds ==
    ASSUME NEW x \in CallerIds \cup {Default}, NEW n \in Nat, NEW type \in EventTypes
    PROVE  Given(x, <<n, type>>) \in EventIds
BY IdsAreTold DEF Given, EventIds

\* So does an id of the plan of a submission.
LEMMA PlannedIds ==
    ASSUME IsList(log), NEW o \in FinalOptions, NEW p, NEW c, NEW t, NEW m, NEW k,
           PlanAppended(p, c, o, t, m, k), NEW h \in 1..k
    PROVE  p[h].id \in EventIds /\ p[h].id # Null /\ p[h].type \in FinalTypes
<1> DEFINE N == Len(log) + 1
           n == Len(m)
           proof == ProofNow(c, t)
           decision == DecideRelease(c, proof)
<1>1. /\ n \in Nat /\ k \in Nat /\ k <= Len(p) /\ p[h].id # Null
      /\ IsPlan(p, N, c, o, proof, m, Newest.id)
  BY DEF PlanAppended
<1>2. N \in Nat
  BY ListFacts
<1> HIDE DEF N, proof, n
<1>3. Len(p) = IF decision.status = "released" THEN n + 3 ELSE n + 2
  BY <1>1 DEF IsPlan, n, decision
<1> HIDE DEF decision
<1>4. h = 1 \/ h \in 2..(n + 1) \/ h = n + 2 \/ (h = n + 3 /\ decision.status = "released")
  BY <1>1, <1>3
<1>5. FinalTypes \subseteq EventTypes
  BY DEF FinalTypes, EventTypes
<1>6. /\ o.proofEventId \in CallerIds \cup {Default}
      /\ o.releaseEventId \in CallerIds \cup {Default}
      /\ o.finalReleasedEventId \in CallerIds \cup {Default}
      /\ o.mismatchEventIds \in Seq(CallerIds) \cup {Default}
      /\ Default # Null
  BY IdsAreTold
<1>7. ASSUME NEW l \in Nat, NEW x \in CallerIds \cup {Default}, NEW type \in FinalTypes, NEW cause, NEW body,
             p[h] = Planned(N, l, x, type, cause, body)
      PROVE  p[h].id \in EventIds /\ p[h].type \in FinalTypes
  <2>1. p[h].id = Given(x, <<N + l, type>>) /\ p[h].type = type
    BY <1>7 DEF Planned
  <2>2. N + l \in Nat
    BY <1>2
  <2> QED BY <1>5, <2>1, <2>2, GivenIds
<1>8. CASE h = 1
  <2>1. p[h] = Planned(N, 1, o.proofEventId, "ProofGenerated", Newest.id, proof)
    BY <1>1, <1>8 DEF IsPlan
  <2>2. 1 \in Nat /\ "ProofGenerated" \in FinalTypes
    BY DEF FinalTypes
  <2> QED BY <1>1, <1>6, <1>7, <2>1, <2>2
<1>9. CASE h \in 2..(n + 1)
  <2> DEFINE i == h - 1
             x == MismatchId(o, i)
  <2>1. i \in 1..n /\ i + 1 = h /\ i \in Nat
    BY <1>1, <1>9
  <2> HIDE DEF i
  <2>2. p[h] = Planned(N, 1 + i, x, "MismatchDetected", p[1].id, m[i])
    BY <1>1, <2>1 DEF IsPlan, n
  <2>3. x \in CallerIds \cup {Default, Null}
    <3>1. CASE o.mismatchEventIds = Default
      BY <3>1 DEF MismatchId
    <3>2. CASE o.mismatchEventIds # Default
      <4>1. o.mismatchEventIds \in Seq(CallerIds)
        BY <1>6, <3>2
      <4>2. i <= Len(o.mismatchEventIds) => o.mismatchEventIds[i] \in CallerIds
        BY <2>1, <4>1
      <4> QED BY <3>2, <4>2 DEF MismatchId
    <3> QED BY <3>1, <3>2
  <2>4. x # Null
    <3>1. p[h].id = Given(x, <<N + (1 + i), "MismatchDetected">>)
      BY <2>2 DEF Planned
    <3> QED BY <1>1, <1>6, <3>1 DEF Given
  <2>5. x \in CallerIds \cup {Default} /\ 1 + i \in Nat /\ "MismatchDetected" \in FinalTypes
    BY <2>1, <2>3, <2>4 DEF FinalTypes
  <2> HIDE DEF x
  <2> QED BY <1>1, <1>7, <2>2, <2>5
<1>10. CASE h = n + 2
  <2>1. p[h] = Planned(N, 2 + n, o.releaseEventId, "ReleaseDecided", p[1].id, decision)
    BY <1>1, <1>10 DEF IsPlan, n, decision
  <2>2. 2 + n \in Nat /\ "ReleaseDecided" \in FinalTypes
    BY <1>1 DEF FinalTypes
  <2> QED BY <1>1, <1>6, <1>7, <2>1, <2>2
<1>11. CASE h = n + 3 /\ decision.status = "released"
  <2>1. p[h] = Planned(N, 3 + n, o.finalReleasedEventId, "FinalReleased", p[n + 2].id,
                       [decision |-> decision, candidate |-> c])
    BY <1>1, <1>11 DEF IsPlan, n, decision
  <2>2. 3 + n \in Nat /\ "FinalReleased" \in FinalTypes
    BY <1>1 DEF FinalTypes
  <2> QED BY <1>1, <1>6, <1>7, <2>1, <2>2
<1> QED BY <1>4, <1>8, <1>9, <1>10, <1>11

\* A step's new events are named.
LEMMA NewEventsAreNamed ==
    ASSUME TypeOK, Next, NEW i \in DOMAIN log', i \notin 1..Len(log)
    PROVE  /\ log'[i].id \in EventIds
           /\ log'[i].type \in FinalTypes => log'[i].id # Null
           /\ log'[i].type = "RunStarted" => log'[i].body = [runId |-> RunId]
<1> DEFINE N == Len(log) + 1
<1>1. IsList(log) /\ Len(log) \in Nat /\ N \in Nat
  BY DEF TypeOK, IsList
<1>2. ASSUME NEW type \in EventTypes, NEW body, NEW o \in EventOptions \cup FinalOptions, NEW cause,
             Newest = NewEvent(type, body, o, cause)
      PROVE  Newest.id \in EventIds /\ Newest.type = type /\ Newest.body = body
  <2>1. Newest.id = Given(o.eventId, <<Len(log) + 1, type>>) /\ Newest.type = type /\ Newest.body = body
    BY <1>2 DEF NewEvent, NextEventId
  <2>2. o.eventId \in CallerIds \cup {Default}
    BY IdsAreTold
  <2> QED BY <1>1, <2>1, <2>2, GivenIds
<1>t. "RunStarted" \in EventTypes /\ KeptTypes \subseteq EventTypes /\ "ProposalReceived" \in KeptTypes
  BY DEF EventTypes, KeptTypes, Inputs
<1>3. ASSUME NEW o \in EventOptions, StartRun(o)
      PROVE  /\ log'[i].id \in EventIds /\ log'[i].type \notin FinalTypes
             /\ log'[i].body = [runId |-> RunId]
  <2>1. /\ Grows /\ Len(log') = Len(log) + 1
        /\ Newest = NewEvent("RunStarted", [runId |-> RunId], o, Given(o.causationId, Null))
    BY <1>1, <1>3, StartStep
  <2>2. i = N
    BY <2>1 DEF Grows
  <2>3. Newest.id \in EventIds /\ Newest.type = "RunStarted" /\ Newest.body = [runId |-> RunId]
    BY <1>2, <1>t, <2>1
  <2> QED BY <2>2, <2>3 DEF Newest, FinalTypes
<1>4. ASSUME NEW type \in KeptTypes, NEW body, NEW o \in EventOptions, RecordEvent(type, body, o)
      PROVE  log'[i].id \in EventIds /\ log'[i].type \notin FinalTypes /\ log'[i].type # "RunStarted"
  <2>1. /\ Grows /\ Len(log') = Len(log) + 1
        /\ Newest = NewEvent(type, body, o, Given(o.causationId, started))
    BY <1>1, <1>4, RecordStep
  <2>2. i = N
    BY <2>1 DEF Grows
  <2>3. Newest.id \in EventIds /\ Newest.type = type
    BY <1>2, <1>t, <2>1
  <2> QED BY <2>2, <2>3, UnkeptTypes DEF Newest
<1>5. ASSUME NEW c \in FinalCandidates, NEW o \in FinalOptions, NEW t \in Times \cup {Null},
             SubmitFinalCandidate(c, o, t)
      PROVE  /\ log'[i].id \in EventIds /\ log'[i].type # "RunStarted"
             /\ log'[i].type \in FinalTypes => log'[i].id # Null
  <2>1. /\ Newest = NewEvent("ProposalReceived", c, o, Given(o.causationId, started))
        /\ \/ DOMAIN log' = 1..N
           \/ t \in Times /\ \E p, m, k : PlanAppended(p, c, o, t, m, k)
    BY <1>1, <1>5, SubmissionAppends
  <2>2. Newest.id \in EventIds /\ Newest.type = "ProposalReceived"
    BY <1>2, <1>t, <2>1
  <2>3. CASE i = N
    BY <2>2, <2>3, UnkeptTypes DEF Newest, FinalTypes
  <2>4. CASE i # N
    <3>1. PICK p, m, k : PlanAppended(p, c, o, t, m, k)
      BY <1>1, <2>1, <2>4
    <3>2. k \in Nat /\ DOMAIN log' = 1..(N + k) /\ \A j \in 1..k : log'[N + j] = p[j]
      BY <3>1 DEF PlanAppended
    <3> DEFINE h == i - N
    <3>3. h \in 1..k /\ i = N + h
      BY <1>1, <2>4, <3>2
    <3>4. log'[i] = p[h]
      BY <3>2, <3>3
    <3> HIDE DEF h
    <3>5. p[h].id \in EventIds /\ p[h].id # Null /\ p[h].type \in FinalTypes
      BY <1>1, <3>1, <3>3, PlannedIds
    <3> QED BY <3>4, <3>5 DEF FinalTypes
  <2> QED BY <2>3, <2>4
<1> QED BY <1>3, <1>4, <1>5, StepKinds

\* Every event is named (NewEvent, PlannedEvent, startRun).
THEOREM EventsStayNamed == Spec => []EventsAreNamed
<1>1. Init => EventsAreNamed
  BY DEF Init, EventsAreNamed
<1>2. TypeOK /\ EventsAreNamed /\ [Next]_vars => EventsAreNamed'
  <2> SUFFICES ASSUME TypeOK, EventsAreNamed, [Next]_vars PROVE EventsAreNamed'
    OBVIOUS
  <2>1. CASE UNCHANGED vars
    BY <2>1 DEF EventsAreNamed, vars
  <2>2. CASE Next
    <3>1. Grows
      BY <2>2, StepsExtend DEF Extends
    <3>2. ASSUME NEW i \in DOMAIN log'
          PROVE  /\ log'[i].id \in EventIds
                 /\ log'[i].type \in FinalTypes => log'[i].id # Null
                 /\ log'[i].type = "RunStarted" => log'[i].body = [runId |-> RunId]
      <4>1. CASE i \in 1..Len(log)
        BY <3>1, <4>1 DEF Grows, EventsAreNamed
      <4>2. CASE i \notin 1..Len(log)
        BY <2>2, <4>2, NewEventsAreNamed
      <4> QED BY <4>1, <4>2
    <3> QED BY <3>2 DEF EventsAreNamed
  <2> QED BY <2>1, <2>2
<1> QED BY <1>1, <1>2, TypeCorrect, PTL DEF Spec

\* ------------------------------------------------------------------------
\* The stream nobody touched, fed to the fresh kernel

\* What the run's theorems say of its log.
LogIsSound ==
    /\ TypeOK /\ Mirrored /\ LogIntegrity /\ EventsAreNamed /\ PlansAreCarriedOut
    /\ CommitsWereProposed /\ MutationsAreSerial

\* An event of the fresh kernel is the stored one.
IsStored(e, s) ==
    e.id = s.id /\ e.type = s.type /\ e.cause = s.cause /\ e.body = s.body /\ e.wellFormed = s.intact

\* The stream is a cut of the run, and no mutation id in it is used twice.
IsUntouched(events) == IsCutOf(events, Stored(log)) /\ MutationIdsAreDistinct(events)

\* An event as it is stored at i.
Entry(i, e) ==
    [runId |-> RunId, id |-> e.id, type |-> e.type, cause |-> e.cause, body |-> e.body,
     sequence |-> i, intact |-> e.wellFormed]

\* A list of events is stored entry by entry.
LEMMA StoredEntries ==
    ASSUME NEW l, NEW n \in Nat, DOMAIN l = 1..n
    PROVE  /\ IsList(Stored(l)) /\ Len(Stored(l)) = n
           /\ Stored(l) = [i \in 1..n |-> Entry(i, l[i])]
<1> DEFINE written == Stored(l)
           f(i) == Entry(i, l[i])
<1>1. written = [i \in 1..n |-> f(i)]
  BY DEF Stored, Entry
<1> HIDE DEF written, f
<1>2. written \in [1..n -> {f(i) : i \in 1..n}]
  BY <1>1
<1>3. IsList(written) /\ Len(written) = n
  BY <1>2, NumberedIsList
<1> QED BY <1>1, <1>3 DEF written, f

\* The events of a cut are the log's.
LEMMA CutIsStored ==
    ASSUME TypeOK, NEW events, IsList(events), IsCutOf(events, Stored(log))
    PROVE  /\ Len(events) \in Nat /\ DOMAIN events = 1..Len(events) /\ Len(log) \in Nat
           /\ DOMAIN events \subseteq DOMAIN log
           /\ \A i \in DOMAIN events : events[i] = Entry(i, log[i]) /\ IsStored(log[i], events[i])
<1> DEFINE written == Stored(log)
           n == Len(events)
<1>1. Len(log) \in Nat /\ DOMAIN log = 1..Len(log)
  BY DEF TypeOK
<1>2. /\ IsList(written) /\ Len(written) = Len(log)
      /\ written = [i \in 1..Len(log) |-> Entry(i, log[i])]
  BY <1>1, StoredEntries
<1> HIDE DEF written
<1>3. written \in Seq(Elements(written))
  BY <1>2 DEF IsList
<1>4. n \in Nat /\ DOMAIN events = 1..n
  BY ListFacts
<1>5. n <= Len(log) /\ events = SubSeq(written, 1, n)
  BY <1>2 DEF IsCutOf, written
<1> HIDE DEF n
<1>6. \A i \in 1..n : events[i] = written[i]
  BY <1>1, <1>2, <1>3, <1>4, <1>5
<1>7. 1..n \subseteq 1..Len(log)
  BY <1>1, <1>4, <1>5
<1>8. \A i \in 1..n : events[i] = Entry(i, log[i])
  BY <1>2, <1>6, <1>7
<1>9. \A i : IsStored(log[i], Entry(i, log[i]))
  BY DEF IsStored, Entry
<1> QED BY <1>1, <1>4, <1>7, <1>8, <1>9 DEF n

\* The ids and causes of a sound log are never taken for options left out.
LEMMA StoredOptions ==
    ASSUME LogIsSound, NEW i \in DOMAIN log
    PROVE  log[i].id # Default /\ log[i].cause # Default
<1>1. \A j \in DOMAIN log : log[j].id # Default
  BY IdsAreTold DEF LogIsSound, EventsAreNamed
<1>2. log[i].cause = Null \/ \E j \in 1..(i - 1) : log[j].id = log[i].cause
  BY DEF LogIsSound, LogIntegrity
<1>3. \A j \in 1..(i - 1) : j \in DOMAIN log
  BY DEF LogIsSound, TypeOK
<1> QED BY <1>1, <1>2, <1>3, IdsAreTold

\* What the proposals of a stream are.
LEMMA ProposalsOfStream ==
    ASSUME NEW events, IsList(events), MutationIdsAreDistinct(events),
           NEW i \in DOMAIN events, NEW j \in DOMAIN events,
           events[i].type = "ProposalReceived", IsMutationCommand(events[i].body),
           events[j].type = "ProposalReceived", IsMutationCommand(events[j].body),
           events[i].body.mutationId = events[j].body.mutationId
    PROVE  events[i].body = events[j].body
<1> DEFINE positions == Projections!PositionsOf(events, "ProposalReceived")
           list == Bodies(events, "ProposalReceived")
<1>1. Len(events) \in Nat /\ DOMAIN events = 1..Len(events)
  BY ListFacts
<1>2. positions \subseteq 1..Len(events) /\ i \in positions /\ j \in positions
  BY <1>1 DEF Projections!PositionsOf
<1>3. list = Projections!BodiesAt(events, positions)
  BY DEF Bodies, Projections!BodiesOf
<1>4. Elements(list) = {events[k].body : k \in positions}
  <2> HIDE DEF positions, list
  <2> QED BY <1>1, <1>2, <1>3, ListedBodies
<1> HIDE DEF positions
<1>5. events[i].body \in Elements(list) /\ events[j].body \in Elements(list)
  BY <1>2, <1>4
<1> DEFINE P == {p \in Elements(list) : IsMutationCommand(p)}
<1>6. \A p, q \in P : p.mutationId = q.mutationId => p = q
  BY DEF MutationIdsAreDistinct
<1> HIDE DEF list
<1> QED BY <1>5, <1>6

\* Recording a stored event in the fresh kernel.
LEMMA CopyRecordsStored ==
    ASSUME NEW events, NEW n, NEW type, NEW b, Copy!RecordEvent(type, b, EventOptionsFrom(events[n])),
           events[n].id # Default, events[n].cause # Default
    PROVE  copyLog' = Append(copyLog, [id |-> events[n].id, type |-> type, cause |-> events[n].cause,
                                       body |-> b, wellFormed |-> events[n].intact])
<1> DEFINE o == EventOptionsFrom(events[n])
           e == Copy!NewEvent(type, b, o, Copy!Given(o.causationId, copyStarted))
<1>1. copyLog' = Append(copyLog, e)
  BY Zenon DEF Copy!RecordEvent
<1>2. o.eventId = events[n].id /\ o.causationId = events[n].cause /\ o.wellFormed = events[n].intact
  BY DEF EventOptionsFrom
<1> HIDE DEF o
<1>3. e = [id |-> events[n].id, type |-> type, cause |-> events[n].cause,
           body |-> b, wellFormed |-> events[n].intact]
  <2>1. \A x, d : x # Default => Copy!Given(x, d) = x
    BY DEF Copy!Given
  <2>2. e = [id |-> Copy!Given(o.eventId, Copy!NextEventId(type)), type |-> type,
             cause |-> Copy!Given(o.causationId, copyStarted), body |-> b, wellFormed |-> o.wellFormed]
    BY Zenon DEF Copy!NewEvent
  <2> QED BY <1>2, <2>1, <2>2
<1> QED BY <1>1, <1>3

\* A commit of a stream nobody touched commits the stored mutation.
LEMMA CopyCommits ==
    ASSUME LogIsSound, NEW events, IsList(events), IsUntouched(events), NEW n \in DOMAIN events,
           events[n].type = "MutationCommitted",
           NEW proposal \in MutationProposalBefore(events, n), NEW o, Copy!CommitMutation(proposal, o)
    PROVE  Copy!MutationOf(proposal, copyRevision[proposal.stateRef]) = events[n].body
<1>1. /\ Len(events) \in Nat /\ DOMAIN events = 1..Len(events) /\ n \in Nat
      /\ DOMAIN events \subseteq DOMAIN log
      /\ \A i \in DOMAIN events : IsStored(log[i], events[i])
  BY CutIsStored DEF LogIsSound, IsUntouched
<1> DEFINE b == events[n].body
           S == {i \in 1..(n - 1) : /\ events[i].type = "ProposalReceived"
                                    /\ IsMutationCommand(events[i].body)
                                    /\ events[i].body.mutationId = b.mutationId}
<1>2. S # {} /\ proposal = events[Earliest(S)].body
  BY DEF MutationProposalBefore
<1>3. Earliest(S) \in S
  <2>1. S \subseteq Nat
    BY <1>1
  <2> HIDE DEF S
  <2>2. \E i \in S : \A j \in S : i <= j
    BY <1>2, <2>1, LeastOf
  <2> QED BY <2>2 DEF Earliest
<1>4. PICK k \in S : proposal = events[k].body
  BY <1>2, <1>3
<1>5. log[n].body = b /\ log[n].type = "MutationCommitted" /\ n \in DOMAIN log
  BY <1>1 DEF IsStored
<1>6. PICK j \in 1..(n - 1) :
         /\ log[j].type = "ProposalReceived" /\ log[j].wellFormed
         /\ IsMutationCommand(log[j].body)
         /\ log[j].body.commandId = b.commandId
         /\ log[j].body.mutationId = b.mutationId
         /\ log[j].body.stateRef = b.stateRef
         /\ log[j].body.expectedRevision = b.previousRevision
  <2> HIDE DEF b
  <2> QED BY <1>5 DEF LogIsSound, CommitsWereProposed, Is
<1>7. j \in DOMAIN events /\ k \in DOMAIN events
  BY <1>1
<1>8. events[j].type = "ProposalReceived" /\ events[j].body = log[j].body
  BY <1>1, <1>6, <1>7 DEF IsStored
<1>9. proposal = log[j].body
  <2>1. IsMutationCommand(events[j].body) /\ events[j].body.mutationId = events[k].body.mutationId
    BY <1>4, <1>6, <1>8
  <2>2. events[k].body = events[j].body
    BY <1>4, <1>7, <1>8, <2>1, ProposalsOfStream DEF IsUntouched
  <2> QED BY <1>4, <1>8, <2>2
<1>10. b \in Inputs["MutationCommitted"]
  <2>1. "MutationCommitted" \in KeptTypes
    BY DEF KeptTypes, Inputs
  <2>2. log[n].body \in Inputs[log[n].type]
    BY <1>5, <2>1 DEF LogIsSound, Mirrored
  <2> QED BY <1>5, <2>2
<1> HIDE DEF b, S
<1>11. b \in [mutationId : {c.mutationId : c \in MutationCommands},
              commandId : {c.commandId : c \in MutationCommands},
              runId : {RunId}, stateRef : StateRefs,
              previousRevision : Nat, newRevision : Nat]
  BY <1>10 DEF Inputs
<1>12. b.newRevision = b.previousRevision + 1
  <2>1. b.stateRef \in StateRefs
    BY <1>11
  <2> QED BY <1>5, <2>1 DEF LogIsSound, MutationsAreSerial, CommitsTo, Is
<1> DEFINE current == copyRevision[proposal.stateRef]
<1>13. /\ current = proposal.expectedRevision
       /\ Copy!RecordEvent("MutationCommitted", Copy!MutationOf(proposal, current), o)
  BY Zenon DEF Copy!CommitMutation, Copy!MayBeCommitted
<1> HIDE DEF current
<1>14. Copy!MutationOf(proposal, current)
          = [mutationId |-> proposal.mutationId, commandId |-> proposal.commandId,
             runId |-> proposal.runId, stateRef |-> proposal.stateRef,
             previousRevision |-> current, newRevision |-> current + 1]
  BY Zenon DEF Copy!MutationOf
<1>15. Copy!MutationOf(proposal, current).runId = RunId
  BY <1>13, Zenon DEF Copy!RecordEvent, Copy!CanRecord
<1>16. proposal.runId = RunId
  BY <1>14, <1>15
<1>17. Copy!MutationOf(proposal, current)
          = [mutationId |-> b.mutationId, commandId |-> b.commandId,
             runId |-> RunId, stateRef |-> b.stateRef,
             previousRevision |-> b.previousRevision, newRevision |-> b.previousRevision + 1]
  BY <1>6, <1>9, <1>13, <1>14, <1>16
<1>18. b = [mutationId |-> b.mutationId, commandId |-> b.commandId,
            runId |-> RunId, stateRef |-> b.stateRef,
            previousRevision |-> b.previousRevision, newRevision |-> b.newRevision]
  BY <1>11
<1> QED BY <1>12, <1>17, <1>18 DEF current, b

\* A call of the fresh kernel for an event of a stream nobody touched appends that
\* event, or nothing.
LEMMA ReadmissionRepeats ==
    ASSUME LogIsSound, NEW events, IsList(events), IsUntouched(events), NEW n \in DOMAIN events,
           Readmit(events, n)
    PROVE  \/ copyLog' = copyLog
           \/ \E e : copyLog' = Append(copyLog, e) /\ IsStored(e, events[n])
<1> DEFINE type == events[n].type
           body == events[n].body
           o == EventOptionsFrom(events[n])
           Repeats == \E e : copyLog' = Append(copyLog, e) /\ IsStored(e, events[n])
<1>1. /\ n \in DOMAIN log /\ IsStored(log[n], events[n])
  BY CutIsStored DEF LogIsSound, IsUntouched
<1>2. events[n].id # Default /\ events[n].cause # Default
  BY <1>1, StoredOptions DEF IsStored
<1>3. ASSUME Copy!RecordEvent(type, body, o) PROVE Repeats
  <2>1. copyLog' = Append(copyLog, [id |-> events[n].id, type |-> type, cause |-> events[n].cause,
                                    body |-> body, wellFormed |-> events[n].intact])
    BY <1>2, <1>3, CopyRecordsStored
  <2> QED BY <2>1 DEF IsStored
<1>4. CASE type = "RunStarted" /\ Copy!StartRun(o)
  <2> DEFINE e == Copy!NewEvent("RunStarted", [runId |-> RunId], o, Copy!Given(o.causationId, Null))
  <2>1. copyLog' = Append(copyLog, e)
    BY <1>4, Zenon DEF Copy!StartRun, Copy!StartEvent
  <2>2. body = [runId |-> RunId]
    BY <1>1, <1>4 DEF LogIsSound, EventsAreNamed, IsStored
  <2>3. o.eventId = events[n].id /\ o.causationId = events[n].cause /\ o.wellFormed = events[n].intact
    BY DEF EventOptionsFrom
  <2> HIDE DEF o
  <2>4. \A x, d : x # Default => Copy!Given(x, d) = x
    BY DEF Copy!Given
  <2>5. e = [id |-> Copy!Given(o.eventId, Copy!NextEventId("RunStarted")), type |-> "RunStarted",
             cause |-> Copy!Given(o.causationId, Null), body |-> [runId |-> RunId],
             wellFormed |-> o.wellFormed]
    BY Zenon DEF Copy!NewEvent
  <2>6. e = [id |-> events[n].id, type |-> "RunStarted", cause |-> events[n].cause,
             body |-> [runId |-> RunId], wellFormed |-> events[n].intact]
    BY <1>2, <2>3, <2>4, <2>5
  <2> HIDE DEF e
  <2>7. IsStored(e, events[n])
    BY <1>4, <2>2, <2>6 DEF IsStored
  <2> QED BY <2>1, <2>7
<1>13. CASE /\ type = "MutationCommitted"
            /\ \E proposal \in MutationProposalBefore(events, n) : Copy!CommitMutation(proposal, o)
  <2>1. PICK proposal \in MutationProposalBefore(events, n) : Copy!CommitMutation(proposal, o)
    BY <1>13
  <2>2. Copy!RecordEvent("MutationCommitted", Copy!MutationOf(proposal, copyRevision[proposal.stateRef]), o)
    BY <2>1, Zenon DEF Copy!CommitMutation
  <2>3. Copy!MutationOf(proposal, copyRevision[proposal.stateRef]) = body
    BY <1>13, <2>1, CopyCommits
  <2>4. Copy!RecordEvent(type, body, o)
    BY <1>13, <2>2, <2>3
  <2> QED BY <1>3, <2>4
<1> HIDE DEF type, body, o, Repeats
<1>5. CASE type = "ProposalReceived" /\ ReplayProposal(body, o)
  <2>1. CASE Copy!SubmitToolCommand(body, o)
    BY <1>3, <1>5, <2>1 DEF Copy!SubmitToolCommand, Repeats
  <2>2. CASE Copy!SubmitMutationCommand(body, o)
    BY <1>3, <1>5, <2>2 DEF Copy!SubmitMutationCommand, Repeats
  <2>3. CASE UNCHANGED copyVars
    BY <2>3 DEF copyVars
  <2> QED BY <1>5, <2>1, <2>2, <2>3 DEF ReplayProposal
<1>6. CASE \/ type = "EffectRequested" /\ Copy!RecordEffectRequest(body, o)
           \/ type = "WritePreflightRequested" /\ Copy!RecordWritePreflightRequested(body, o)
           \/ type = "WritePreflightDecided" /\ Copy!RecordWritePreflightDecided(body, o)
           \/ type = "WriteQuarantined" /\ Copy!RecordWriteQuarantined(body, o)
  <2>1. Copy!RecordEvent(type, body, o)
    BY <1>6, Zenon DEF Copy!RecordEffectRequest, Copy!RecordWritePreflightRequested,
       Copy!RecordWritePreflightDecided, Copy!RecordWriteQuarantined
  <2> QED BY <1>3, <2>1 DEF Repeats
<1>7. CASE \/ type = "ApprovalRequested" /\ Copy!RecordApprovalRequested(body, o)
           \/ type = "ApprovalGranted" /\ Copy!RecordApprovalGranted(body, o)
           \/ type = "ApprovalDenied" /\ Copy!RecordApprovalDenied(body, o)
           \/ type = "ApprovalExpired" /\ Copy!RecordApprovalExpired(body, o)
  <2>1. Copy!RecordEvent(type, body, o)
    BY <1>7, Zenon DEF Copy!RecordApprovalRequested, Copy!RecordApprovalGranted,
       Copy!RecordApprovalDenied, Copy!RecordApprovalExpired
  <2> QED BY <1>3, <2>1 DEF Repeats
<1>8. CASE \/ type = "EffectReceiptRecorded" /\ Copy!RecordEffectReceipt(body, o)
           \/ type = "ExternalStateObserved" /\ Copy!RecordExternalStateObservation(body, o)
  <2>1. Copy!RecordEvent(type, body, o)
    BY <1>8, Zenon DEF Copy!RecordEffectReceipt, Copy!RecordExternalStateObservation
  <2> QED BY <1>3, <2>1 DEF Repeats
<1>16. \/ type = "RunStarted" /\ Copy!StartRun(o)
       \/ type = "ProposalReceived" /\ ReplayProposal(body, o)
       \/ \/ type = "EffectRequested" /\ Copy!RecordEffectRequest(body, o)
          \/ type = "WritePreflightRequested" /\ Copy!RecordWritePreflightRequested(body, o)
          \/ type = "WritePreflightDecided" /\ Copy!RecordWritePreflightDecided(body, o)
          \/ type = "WriteQuarantined" /\ Copy!RecordWriteQuarantined(body, o)
       \/ \/ type = "ApprovalRequested" /\ Copy!RecordApprovalRequested(body, o)
          \/ type = "ApprovalGranted" /\ Copy!RecordApprovalGranted(body, o)
          \/ type = "ApprovalDenied" /\ Copy!RecordApprovalDenied(body, o)
          \/ type = "ApprovalExpired" /\ Copy!RecordApprovalExpired(body, o)
       \/ /\ type = "MutationCommitted"
          /\ \E proposal \in MutationProposalBefore(events, n) : Copy!CommitMutation(proposal, o)
       \/ \/ type = "EffectReceiptRecorded" /\ Copy!RecordEffectReceipt(body, o)
          \/ type = "ExternalStateObserved" /\ Copy!RecordExternalStateObservation(body, o)
  BY Zenon DEF Readmit, type, body, o
<1> QED BY <1>4, <1>5, <1>6, <1>7, <1>8, <1>13, <1>16 DEF Repeats

\* While the replay goes on: what it has passed over belongs to no release, and if
\* the fresh kernel got an event for each, it got the stored ones.
ReplayRepeats ==
    LET events == replay.events
        n == replay.next
    IN  /\ \A i \in 1..(n - 1) : events[i].type \notin FinalTypes
        /\ Len(copyLog) <= n - 1
        /\ IsUntouched(events) /\ Len(copyLog) = n - 1 =>
              \A i \in 1..(n - 1) : IsStored(copyLog[i], events[i])

\* An input that the fresh kernel is given again.
LEMMA ReplayRepeatsOn ==
    ASSUME LogIsSound, ReplayGoesOn, ReplayRepeats, replay.next < replay.last.final,
           Readmit(replay.events, replay.next), replay' = [replay EXCEPT !.next = @ + 1], UNCHANGED vars
    PROVE  ReplayRepeats'
<1> DEFINE events == replay.events
           n == replay.next
           final == replay.last.final
<1>1. /\ IsList(events) /\ final \in DOMAIN events /\ DOMAIN events = 1..Len(events)
      /\ Len(events) \in Nat /\ n \in 1..final /\ IsList(copyLog)
  BY ListFacts DEF ReplayGoesOn, Parsed, FinalProposals
<1>2. n \in Nat /\ n >= 1 /\ n \in DOMAIN events
  <2> HIDE DEF events, n, final
  <2> QED BY <1>1
<1> DEFINE s == replay'
<1>3. s.events = events /\ s.next = n + 1
  BY DEF ReplayGoesOn
<1> HIDE DEF s
<1>4. Readmitted(events[n].type, events[n].body, events[n].intact)
  BY ReadmissionRecords
<1>5. events[n].type \notin FinalTypes
  <2>1. events[n].type = "RunStarted" \/ events[n].type \in KeptTypes
    BY <1>4 DEF Readmitted, KeptTypes, Inputs
  <2>2. "RunStarted" \notin FinalTypes
    BY DEF FinalTypes
  <2> QED BY <2>1, <2>2, UnkeptTypes
<1>6. copyLog' = copyLog \/ \E e : copyLog' = Append(copyLog, e)
  BY <1>4 DEF Readmitted
<1>7. Len(copyLog) \in Nat /\ Len(copyLog) <= n - 1
  BY <1>1, ListFacts DEF ReplayRepeats
<1>8. ASSUME NEW e, copyLog' = Append(copyLog, e)
      PROVE  /\ Len(copyLog') = Len(copyLog) + 1 /\ copyLog'[Len(copyLog) + 1] = e
             /\ \A i \in 1..Len(copyLog) : copyLog'[i] = copyLog[i]
  BY <1>1, <1>8, AppendToList
<1>9. IsUntouched(replay.events)' <=> IsUntouched(events)
  <2>1. log' = log
    BY DEF vars
  <2>2. replay'.events = events
    BY <1>3 DEF s
  <2> HIDE DEF events
  <2> QED BY <2>1, <2>2 DEF IsUntouched, IsCutOf, Stored
<1> HIDE DEF events, n
<1>10. \A i \in 1..n : events[i].type \notin FinalTypes
  <2>1. \A i \in 1..n : i \in 1..(n - 1) \/ i = n
    BY <1>2
  <2> QED BY <1>5, <2>1 DEF ReplayRepeats, events, n
<1>11. Len(copyLog') <= n
  <2>1. Len(copyLog') = Len(copyLog) \/ Len(copyLog') = Len(copyLog) + 1
    BY <1>6, <1>8
  <2> QED BY <1>2, <1>7, <2>1
<1>12. ASSUME IsUntouched(events), Len(copyLog') = n, NEW i \in 1..n
       PROVE  IsStored(copyLog'[i], events[i])
  <2>1. copyLog' # copyLog
    BY <1>2, <1>7, <1>12
  <2>2. \/ copyLog' = copyLog
        \/ \E e : copyLog' = Append(copyLog, e) /\ IsStored(e, events[n])
    BY <1>1, <1>2, <1>12, ReadmissionRepeats DEF events, n
  <2>3. PICK e : copyLog' = Append(copyLog, e) /\ IsStored(e, events[n])
    BY <2>1, <2>2
  <2>4. Len(copyLog) = n - 1
    BY <1>2, <1>7, <1>8, <1>12, <2>3
  <2>5. CASE i = n
    <3>1. Len(copyLog) + 1 = i
      BY <1>2, <2>4, <2>5
    <3> QED BY <1>8, <2>3, <2>5, <3>1
  <2>6. CASE i # n
    <3>1. i \in 1..(n - 1) /\ i \in 1..Len(copyLog)
      BY <1>2, <2>4, <2>6
    <3>2. IsStored(copyLog[i], events[i])
      BY <1>12, <2>4, <3>1 DEF ReplayRepeats, events, n
    <3> QED BY <1>8, <2>3, <3>1, <3>2
  <2> QED BY <2>5, <2>6
<1>13. (n + 1) - 1 = n
  BY <1>2
<1>14. replay'.events = events /\ replay'.next - 1 = n
  BY <1>3, <1>13 DEF s, events, n
<1>15. /\ \A i \in 1..(replay'.next - 1) : replay'.events[i].type \notin FinalTypes
       /\ Len(copyLog') <= replay'.next - 1
       /\ IsUntouched(replay.events)' /\ Len(copyLog') = replay'.next - 1 =>
             \A i \in 1..(replay'.next - 1) : IsStored(copyLog'[i], replay'.events[i])
  BY <1>9, <1>10, <1>11, <1>12, <1>14
<1> HIDE DEF s
<1> QED BY <1>15, Zenon DEF ReplayRepeats

\* The first event of a type.
LEMMA FirstIs ==
    ASSUME NEW events, IsList(events), NEW i \in Nat, NEW r \in DOMAIN events, NEW type,
           r > i, events[r].type = type,
           \A j \in (i + 1)..(r - 1) : events[j].type # type
    PROVE  FirstEventAfter(events, i, type) = r
<1> DEFINE found == EventsAfter(events, i, type)
<1>1. DOMAIN events = 1..Len(events) /\ Len(events) \in Nat /\ r \in Nat
  BY ListFacts
<1>2. r \in found /\ found \subseteq Nat
  BY <1>1 DEF EventsAfter
<1>3. ASSUME NEW j \in found PROVE r <= j
  <2>1. j \in Nat /\ j > i /\ events[j].type = type
    BY <1>1 DEF EventsAfter
  <2>2. j \notin (i + 1)..(r - 1)
    BY <2>1
  <2> QED BY <1>1, <2>1, <2>2
<1>4. found # {} /\ FirstEventAfter(events, i, type) = Earliest(found)
  BY <1>2 DEF FirstEventAfter
<1> HIDE DEF found
<1>5. ASSUME NEW x \in found, \A j \in found : x <= j PROVE x = r
  <2>1. x <= r /\ r <= x /\ x \in Nat
    BY <1>2, <1>3, <1>5
  <2> QED BY <1>1, <2>1
<1> QED BY <1>2, <1>3, <1>4, <1>5 DEF Earliest

\* The k-th number behind a.
LEMMA KthBehind ==
    ASSUME NEW a \in Nat, NEW n \in Nat
    PROVE  /\ Cardinality((a + 1)..(a + n)) = n
           /\ \A k \in 1..n : Kth((a + 1)..(a + n), k) = a + k
<1> DEFINE S == (a + 1)..(a + n)
<1>1. \A k \in 0..n : Cardinality((a + 1)..(a + k)) = k
  <2> TAKE k \in 0..n
  <2>1. a + 1 \in Int /\ a + k \in Int
    OBVIOUS
  <2>2. Cardinality((a + 1)..(a + k)) = IF a + 1 > a + k THEN 0 ELSE (a + k) - (a + 1) + 1
    BY <2>1, FS_Interval
  <2> QED BY <2>2
<1>2. ASSUME NEW i \in S PROVE Cardinality({j \in S : j <= i}) = i - a /\ i - a \in 1..n
  <2>1. {j \in S : j <= i} = (a + 1)..i /\ i = a + (i - a) /\ i - a \in 1..n /\ i - a \in 0..n
    OBVIOUS
  <2>2. Cardinality((a + 1)..(a + (i - a))) = i - a
    BY <1>1, <2>1
  <2> QED BY <2>1, <2>2
<1>3. ASSUME NEW k \in 1..n PROVE Kth(S, k) = a + k
  <2>1. a + k \in S /\ (a + k) - a = k
    OBVIOUS
  <2>2. ASSUME NEW i \in S, Cardinality({j \in S : j <= i}) = k PROVE i = a + k
    BY <1>2, <2>2
  <2>3. Cardinality({j \in S : j <= a + k}) = k
    BY <1>2, <2>1
  <2> HIDE DEF S
  <2> QED BY <2>1, <2>2, <2>3 DEF Kth
<1>4. Cardinality(S) = n
  BY <1>1
<1> QED BY <1>3, <1>4

\* A whole submission is in the stream, with n mismatches.
HoldsSubmission(events, final, n) ==
    /\ final \in DOMAIN events /\ final + n + 2 \in DOMAIN events
    /\ events[final + 1].type = "ProofGenerated"
    /\ \A i \in 1..n : events[final + 1 + i].type = "MismatchDetected"
    /\ events[final + n + 2].type = "ReleaseDecided"

\* The positions replayRunEvents finds in a stream that holds the whole submission.
LEMMA SubmissionPositions ==
    ASSUME NEW events, IsList(events), NEW at, at = LastSubmission(events),
           NEW final, at.final = final, NEW n \in Nat, HoldsSubmission(events, final, n)
    PROVE  /\ at.proof = final + 1 /\ at.release = final + n + 2
           /\ final + n + 3 \in DOMAIN events /\ events[final + n + 3].type = "FinalReleased" =>
                 at.released = final + n + 3
           /\ Cardinality(StoredMismatches(events, at)) = n
           /\ \A k \in 1..n : Kth(StoredMismatches(events, at), k) = final + 1 + k
<1>1. DOMAIN events = 1..Len(events) /\ Len(events) \in Nat /\ final \in Nat
  BY ListFacts DEF HoldsSubmission
<1>2. final + 1 \in DOMAIN events /\ final + n + 2 \in DOMAIN events
  BY <1>1 DEF HoldsSubmission
<1>t. /\ events[final + 1].type = "ProofGenerated"
      /\ \A i \in 1..n : events[final + 1 + i].type = "MismatchDetected"
      /\ events[final + n + 2].type = "ReleaseDecided"
  BY DEF HoldsSubmission
<1> DEFINE proof == FirstEventAfter(events, final, "ProofGenerated")
           release == FirstEventAfter(events, proof, "ReleaseDecided")
<1>3. /\ at.proof = proof /\ at.release = release
      /\ at.released = FirstEventAfter(events, release, "FinalReleased")
  <2>1. Latest(FinalProposals(events)) = final
    BY DEF LastSubmission
  <2> QED BY <2>1 DEF LastSubmission
<1>4. proof = final + 1
  <2> DEFINE r == final + 1
  <2>1. r > final /\ (final + 1)..(r - 1) = {}
    BY <1>1
  <2> HIDE DEF r
  <2>2. r \in DOMAIN events /\ events[r].type = "ProofGenerated"
    BY <1>2, <1>t DEF r
  <2>3. FirstEventAfter(events, final, "ProofGenerated") = r
    BY <1>1, <2>1, <2>2, FirstIs
  <2> QED BY <2>3 DEF r
<1>5. ASSUME NEW j \in (final + 2)..(final + n + 1) PROVE events[j].type = "MismatchDetected"
  <2>1. j - (final + 1) \in 1..n /\ final + 1 + (j - (final + 1)) = j
    BY <1>1
  <2> QED BY <1>t, <2>1
<1>6. release = final + n + 2
  <2> DEFINE r == final + n + 2
  <2>1. r > final + 1 /\ final + 1 \in Nat /\ (final + 1) + 1 = final + 2 /\ r - 1 = final + n + 1
    BY <1>1
  <2>2. \A j \in ((final + 1) + 1)..(r - 1) : events[j].type # "ReleaseDecided"
    BY <1>5, <2>1
  <2> HIDE DEF r
  <2>3. FirstEventAfter(events, final + 1, "ReleaseDecided") = r
    <3>1. r \in DOMAIN events /\ events[r].type = "ReleaseDecided"
      BY <1>2, <1>t DEF r
    <3> QED BY <2>1, <2>2, <3>1, FirstIs
  <2> QED BY <1>4, <2>3 DEF r
<1>7. ASSUME final + n + 3 \in DOMAIN events, events[final + n + 3].type = "FinalReleased"
      PROVE  at.released = final + n + 3
  <2>1. final + n + 3 > final + n + 2 /\ final + n + 2 \in Nat
        /\ \A j \in ((final + n + 2) + 1)..((final + n + 3) - 1) : events[j].type # "FinalReleased"
    BY <1>1
  <2>2. FirstEventAfter(events, final + n + 2, "FinalReleased") = final + n + 3
    BY <1>7, <2>1, FirstIs
  <2> QED BY <1>3, <1>6, <2>2
<1> HIDE DEF proof, release
<1>8. StoredMismatches(events, at) = ((final + 1) + 1)..((final + 1) + n)
  <2>1. StoredMismatches(events, at)
           = {i \in ((final + 1) + 1)..((final + n + 2) - 1) : events[i].type = "MismatchDetected"}
    BY <1>3, <1>4, <1>6, Zenon DEF StoredMismatches
  <2>2. (final + n + 2) - 1 = (final + 1) + n /\ (final + 1) + 1 = final + 2
        /\ (final + 1) + n = final + n + 1
    BY <1>1
  <2> QED BY <1>5, <2>1, <2>2
<1>9. final + 1 \in Nat
  BY <1>1
<1>10. /\ Cardinality(StoredMismatches(events, at)) = n
       /\ \A k \in 1..n : Kth(StoredMismatches(events, at), k) = (final + 1) + k
  BY <1>8, <1>9, KthBehind
<1> QED BY <1>3, <1>4, <1>6, <1>7, <1>10

\* What the end of a passing replay of a stream nobody touched has to go on.
RepeatsAtTheEnd(events, at, m, p) ==
    /\ LogIsSound /\ ReplayGoesOn /\ ReplayRepeats /\ IsUntouched(events)
    /\ events = replay.events /\ at = replay.last /\ replay.next = at.final
    /\ events[at.final].body \in FinalCandidates
    /\ SameOutcome(events, at, copyLog')
    /\ IsResubmission(copyLog', events[at.final].body, StoredFinalOptions(events, at),
                      CopyProof(events, at), CopyProposal(events, at), m, p)

\* The candidate is submitted again where the stored one is, and what its plan p makes
\* for the mismatches m is of the types stored behind it.
PlanMeetsStored(events, at, m, p) ==
    /\ LogIsSound /\ ReplayGoesOn /\ ReplayRepeats /\ IsUntouched(events)
    /\ events = replay.events /\ at = replay.last /\ replay.next = at.final
    /\ events[at.final].body \in FinalCandidates
    /\ m \in InClaimOrder(CopyProof(events, at).mismatches) /\ Len(m) \in Nat
    /\ IsPlan(p, Len(copyLog) + 1, events[at.final].body, StoredFinalOptions(events, at),
              CopyProof(events, at), m, CopyProposal(events, at).id)
    /\ Len(copyLog) + 1 = at.final
    /\ at.final \in DOMAIN events /\ at.final \in Nat /\ at.final + Len(p) \in DOMAIN events
    /\ \A h \in 1..Len(p) : events[at.final + h].type = p[h].type

\* The fresh kernel had got an event for every one before the candidate, and behind it
\* every event is of the type of the plan.
LEMMA NothingSkipped ==
    ASSUME NEW events, NEW at, NEW m, NEW p, RepeatsAtTheEnd(events, at, m, p)
    PROVE  PlanMeetsStored(events, at, m, p)
<1> DEFINE N == Len(copyLog) + 1
           final == at.final
           after == copyLog'
           n == Len(m)
<1>1. /\ IsList(events) /\ DOMAIN events = 1..Len(events) /\ Len(events) \in Nat
      /\ final \in DOMAIN events /\ final \in Nat
      /\ events[final].type = "ProposalReceived"
  <2>1. IsList(events) /\ final \in FinalProposals(events)
    BY DEF RepeatsAtTheEnd, ReplayGoesOn, Parsed
  <2>2. DOMAIN events = 1..Len(events) /\ Len(events) \in Nat
    BY <2>1, ListFacts
  <2> QED BY <2>1, <2>2 DEF FinalProposals
<1>2. /\ n \in Nat /\ N \in Nat /\ Len(p) \in Nat
      /\ Len(after) = N + Len(p) /\ DOMAIN after = 1..(N + Len(p))
      /\ \A i \in 1..Len(p) : after[N + i] = p[i]
      /\ IsPlan(p, N, events[final].body, StoredFinalOptions(events, at), CopyProof(events, at), m,
                CopyProposal(events, at).id)
  BY Zenon DEF RepeatsAtTheEnd, IsResubmission, N, n, final, after
<1>3. /\ Len(p) >= 2 /\ p[1].type = "ProofGenerated"
  <2>1. Len(p) \in {n + 2, n + 3} /\ p[1].type = "ProofGenerated"
    BY <1>2, PlanTypes
  <2> HIDE DEF n
  <2> QED BY <1>2, <2>1
<1>4. /\ Len(after) <= Len(events)
      /\ \A i \in DOMAIN after : after[i].type = events[i].type
  BY DEF RepeatsAtTheEnd, SameOutcome
<1>5. /\ \A i \in 1..(final - 1) : events[i].type \notin FinalTypes
      /\ Len(copyLog) <= final - 1
  BY DEF RepeatsAtTheEnd, ReplayRepeats
<1>6. N <= final
  <2>1. Len(copyLog) \in Nat
    BY ListFacts DEF RepeatsAtTheEnd, ReplayGoesOn
  <2> QED BY <1>1, <1>5, <2>1
<1> HIDE DEF N, final, after, n
<1>7. events[N + 1].type = "ProofGenerated"
  <2>1. 1 \in 1..Len(p) /\ N + 1 \in 1..(N + Len(p))
    BY <1>2, <1>3
  <2>2. after[N + 1] = p[1] /\ N + 1 \in DOMAIN after
    BY <1>2, <2>1
  <2> QED BY <1>3, <1>4, <2>2
<1>8. N = final
  <2>1. N + 1 \notin 1..(final - 1)
    BY <1>5, <1>7 DEF FinalTypes
  <2>2. N + 1 # final
    BY <1>1, <1>7
  <2> QED BY <1>1, <1>2, <1>6, <2>1, <2>2
<1>9. final + Len(p) \in DOMAIN events
  BY <1>1, <1>2, <1>4, <1>8
<1>10. ASSUME NEW h \in 1..Len(p) PROVE events[final + h].type = p[h].type
  <2>1. final + h \in 1..(final + Len(p))
    BY <1>1, <1>2
  <2>2. final + h \in DOMAIN after /\ after[final + h] = p[h]
    BY <1>2, <1>8, <2>1
  <2> QED BY <1>4, <2>2
<1>11. /\ m \in InClaimOrder(CopyProof(events, at).mismatches) /\ Len(m) \in Nat
       /\ IsPlan(p, Len(copyLog) + 1, events[at.final].body, StoredFinalOptions(events, at),
                 CopyProof(events, at), m, CopyProposal(events, at).id)
  BY Zenon DEF RepeatsAtTheEnd, IsResubmission
<1>12. /\ LogIsSound /\ ReplayGoesOn /\ ReplayRepeats /\ IsUntouched(events)
       /\ events = replay.events /\ at = replay.last /\ replay.next = at.final
       /\ events[at.final].body \in FinalCandidates
  BY Zenon DEF RepeatsAtTheEnd
<1>13. /\ Len(copyLog) + 1 = at.final
       /\ at.final \in DOMAIN events /\ at.final \in Nat /\ at.final + Len(p) \in DOMAIN events
       /\ \A h \in 1..Len(p) : events[at.final + h].type = p[h].type
  BY <1>1, <1>8, <1>9, <1>10 DEF N, final
<1> QED BY <1>11, <1>12, <1>13, Zenon DEF PlanMeetsStored

\* The log carries out this very plan.
LEMMA SamePlanLogged ==
    ASSUME NEW events, NEW at, NEW m, NEW p, PlanMeetsStored(events, at, m, p)
    PROVE  LET final == at.final
               proof == CopyProof(events, at)
           IN  /\ HoldsSubmission(events, final, Len(m))
               /\ at.proof = final + 1 /\ at.release = final + Len(m) + 2
               /\ \A k \in (final + 1)..(final + Len(p)) : CarriesPlan(log, final, k, proof, m)
<1> DEFINE final == at.final
           proof == CopyProof(events, at)
           n == Len(m)
           t == events[at.proof].body.generatedAt
           K == final + Len(p)
           c == events[final].body
<1>1. /\ final \in DOMAIN events /\ final \in Nat /\ K \in DOMAIN events
      /\ \A h \in 1..Len(p) : events[final + h].type = p[h].type
      /\ IsList(events) /\ at = LastSubmission(events)
      /\ events[final].type = "ProposalReceived"
  <2>1. IsList(events) /\ at = LastSubmission(events) /\ final \in FinalProposals(events)
    BY DEF PlanMeetsStored, ReplayGoesOn, Parsed
  <2> QED BY <2>1 DEF FinalProposals, PlanMeetsStored
<1>2. /\ n \in Nat /\ m \in InClaimOrder(proof.mismatches)
      /\ Len(p) \in {n + 2, n + 3} /\ Len(p) \in Nat
      /\ p[1].type = "ProofGenerated"
      /\ \A i \in 1..n : p[1 + i].type = "MismatchDetected"
      /\ p[n + 2].type = "ReleaseDecided"
      /\ Len(p) = n + 3 => p[n + 3].type = "FinalReleased"
      /\ \A h \in 1..Len(p) : p[h].type \in FinalTypes
  <2>1. /\ n \in Nat /\ m \in InClaimOrder(proof.mismatches)
        /\ IsPlan(p, Len(copyLog) + 1, events[final].body, StoredFinalOptions(events, at), proof, m,
                  CopyProposal(events, at).id)
    BY Zenon DEF PlanMeetsStored, n
  <2> HIDE DEF proof
  <2> QED BY <2>1, PlanTypes
<1>3. /\ DOMAIN events \subseteq DOMAIN log /\ Len(events) \in Nat /\ DOMAIN events = 1..Len(events)
      /\ \A i \in DOMAIN events : IsStored(log[i], events[i])
  BY <1>1, CutIsStored DEF PlanMeetsStored, LogIsSound, IsUntouched
<1> HIDE DEF n
<1>a. /\ \A i \in 1..n : 1 + i \in 1..Len(p) /\ final + (1 + i) = final + 1 + i
      /\ 1 \in 1..Len(p) /\ n + 2 \in 1..Len(p) /\ final + (n + 2) = final + n + 2
      /\ final + n + 2 \in 1..K
  <2> DEFINE l == Len(p)
  <2>1. final \in Nat /\ n \in Nat /\ l \in {n + 2, n + 3} /\ K = final + l
    BY <1>1, <1>2
  <2> HIDE DEF l, final, K
  <2> QED BY <2>1 DEF l
<1>4. \A i \in 1..n : events[final + 1 + i].type = "MismatchDetected"
  <2> TAKE i \in 1..n
  <2>1. 1 + i \in 1..Len(p) /\ final + (1 + i) = final + 1 + i
    BY <1>a
  <2>2. events[final + (1 + i)].type = p[1 + i].type
    BY <1>1, <2>1
  <2> QED BY <1>2, <2>1, <2>2
<1>5. HoldsSubmission(events, final, n)
  <2>1. 1 \in 1..Len(p) /\ n + 2 \in 1..Len(p) /\ final + (n + 2) = final + n + 2
        /\ final + n + 2 \in 1..K
    BY <1>a
  <2>2. final + n + 2 \in DOMAIN events
    BY <1>1, <1>3, <2>1
  <2>3. events[final + 1].type = p[1].type /\ events[final + (n + 2)].type = p[n + 2].type
    BY <1>1, <2>1
  <2> QED BY <1>1, <1>2, <1>4, <2>1, <2>2, <2>3 DEF HoldsSubmission
<1>6. at.proof = final + 1 /\ at.release = final + n + 2
  BY <1>1, <1>2, <1>5, SubmissionPositions
<1>7. K \in DOMAIN log /\ log[K].type \in FinalTypes /\ K \in Nat /\ K > final
  <2>1. Len(p) \in 1..Len(p)
    BY <1>2
  <2>2. events[K].type \in FinalTypes
    BY <1>1, <1>2, <2>1
  <2> QED BY <1>1, <1>2, <1>3, <2>2 DEF IsStored
<1>8. PICK s \in 1..(K - 1), u \in Times \ {Null} : \E q \in InClaimOrder(ProofAt(log, s, u).mismatches) :
         IsSubmission(log, s, K, u, q)
  BY <1>7 DEF PlanMeetsStored, LogIsSound, PlansAreCarriedOut
<1>9. PICK q \in InClaimOrder(ProofAt(log, s, u).mismatches) : IsSubmission(log, s, K, u, q)
  BY <1>8
<1> HIDE DEF K
<1>10. /\ log[s].type = "ProposalReceived"
       /\ \A k \in (s + 1)..K : CarriesPlan(log, s, k, ProofAt(log, s, u), q)
  BY <1>9 DEF IsSubmission
<1>11. log[final].type = "ProposalReceived" /\ log[final].body = c
  BY <1>1, <1>3 DEF IsStored
<1>12. s = final
  <2>1. \A k \in (s + 1)..K : log[k].type \in FinalTypes
    BY <1>10 DEF CarriesPlan, FinalTypes
  <2>2. final \notin (s + 1)..K
    BY <1>11, <2>1 DEF FinalTypes
  <2>3. s \notin (final + 1)..K
    <3>1. ASSUME NEW h \in 1..Len(p) PROVE log[final + h].type \in FinalTypes
      <4>1. final + h \in 1..K
        BY <1>1, <1>2 DEF K
      <4>2. final + h \in DOMAIN events
        BY <1>1, <1>3, <4>1
      <4>3. events[final + h].type \in FinalTypes
        BY <1>1, <1>2
      <4>4. IsStored(log[final + h], events[final + h])
        BY <1>3, <4>2
      <4> QED BY <4>3, <4>4 DEF IsStored
    <3>2. s \in (final + 1)..K => s - final \in 1..Len(p) /\ final + (s - final) = s
      <4> DEFINE l == Len(p)
      <4>1. final \in Nat /\ l \in Nat /\ K = final + l
        BY <1>1, <1>2 DEF K
      <4> HIDE DEF l, final
      <4> QED BY <4>1 DEF l
    <3> QED BY <1>10, <3>1, <3>2 DEF FinalTypes
  <2> QED BY <1>1, <1>7, <2>2, <2>3
<1>13. u = t
  <2>1. final + 1 \in (final + 1)..K /\ final + 1 \notin (final + 2)..(final + Len(q) + 1)
    BY <1>1, <1>7
  <2>2. CarriesPlan(log, final, final + 1, ProofAt(log, final, u), q)
    BY <1>10, <1>12, <2>1
  <2>3. log[final + 1].type = "ProofGenerated" /\ log[final + 1].body = events[final + 1].body
    <3>1. final + 1 \in DOMAIN events
      BY <1>1, <1>3, <1>7
    <3> QED BY <1>3, <1>5, <3>1 DEF IsStored, HoldsSubmission
  <2>4. log[final + 1].body = ProofAt(log, final, u)
    BY <2>2, <2>3, Zenon DEF CarriesPlan
  <2>5. ProofAt(log, final, u).generatedAt = u
    BY DEF ProofAt, EvaluateProof
  <2> QED BY <1>6, <2>3, <2>4, <2>5
<1>14. proof = ProofAt(log, final, t)
  <2>1. ASSUME NEW type \in EvidenceKept
        PROVE  Elements(copyKept[type]) = ToldIn(log, final, type)
    <3>1. Elements(copyKept[type]) = ToldBefore(events, final, type)
      BY DEF PlanMeetsStored, ReplayGoesOn, ReplayKeepsUp
    <3>2. \A j \in 1..(final - 1) : j \in DOMAIN events
      BY <1>1, <1>3
    <3>3. \A j \in DOMAIN events : events[j].intact
      BY DEF PlanMeetsStored, ReplayGoesOn, Contract!IsRunStream
    <3>4. \A j \in 1..(final - 1) : /\ log[j].type = events[j].type /\ log[j].body = events[j].body
                                    /\ log[j].wellFormed
      BY <1>3, <3>2, <3>3 DEF IsStored
    <3>5. ToldIn(log, final, type) = ToldBefore(events, final, type)
      BY <3>4 DEF ToldIn, ToldBefore
    <3> QED BY <3>1, <3>5
  <2> QED BY <1>11, <2>1, Zenon DEF ProofAt, CopyProof, EvidenceKept
<1>15. c \in FinalCandidates
  BY DEF PlanMeetsStored
<1>16. q = m
  <2>1. q \in InClaimOrder(proof.mismatches)
    BY <1>9, <1>12, <1>13, <1>14
  <2> HIDE DEF c
  <2> QED BY <1>2, <1>15, <2>1, ClaimOrderIsUnique DEF CopyProof, c
<1>17. \A k \in (final + 1)..K : CarriesPlan(log, final, k, proof, m)
  BY <1>10, <1>12, <1>13, <1>14, <1>16
<1> QED BY <1>5, <1>6, <1>17 DEF n, K

\* The proposal submitted again is the stored one.
LEMMA ProposalIsStored ==
    ASSUME NEW events, NEW at, events[at.final].type = "ProposalReceived",
           events[at.final].id # Default, events[at.final].cause # Default
    PROVE  IsStored(CopyProposal(events, at), events[at.final])
<1> DEFINE o == StoredFinalOptions(events, at)
           e == CopyProposal(events, at)
           s == events[at.final]
<1>1. o.eventId = s.id /\ o.causationId = s.cause /\ o.wellFormed = s.intact
  BY DEF StoredFinalOptions
<1>2. \A x, d : x # Default => Copy!Given(x, d) = x
  BY DEF Copy!Given
<1>3. e = [id |-> Copy!Given(o.eventId, Copy!NextEventId("ProposalReceived")), type |-> "ProposalReceived",
           cause |-> Copy!Given(o.causationId, copyStarted), body |-> s.body, wellFormed |-> o.wellFormed]
  BY Zenon DEF CopyProposal, Copy!NewEvent
<1> HIDE DEF o, e
<1>4. e = [id |-> s.id, type |-> "ProposalReceived", cause |-> s.cause, body |-> s.body,
           wellFormed |-> s.intact]
  BY <1>1, <1>2, <1>3
<1>5. IsStored(e, s)
  BY <1>4 DEF IsStored
<1> QED BY <1>5 DEF e

\* The ids the resubmission gives its events are the stored ones.
LEMMA IdsAreStored ==
    ASSUME NEW events, NEW at, NEW n \in Nat, IsList(events), at = LastSubmission(events),
           HoldsSubmission(events, at.final, n), at.proof = at.final + 1, at.release = at.final + n + 2,
           \A i \in DOMAIN events : events[i].id \in EventIds
    PROVE  LET o == StoredFinalOptions(events, at)
           IN  /\ o.proofEventId = events[at.final + 1].id
               /\ \A i \in 1..n : MismatchId(o, i) = events[at.final + 1 + i].id
               /\ o.releaseEventId = events[at.final + n + 2].id
               /\ at.final + n + 3 \in DOMAIN events /\ events[at.final + n + 3].type = "FinalReleased" =>
                     o.finalReleasedEventId = events[at.final + n + 3].id
<1> DEFINE o == StoredFinalOptions(events, at)
           S == StoredMismatches(events, at)
           final == at.final
<1>1. /\ o.proofEventId = events[at.proof].id /\ o.releaseEventId = events[at.release].id
      /\ o.mismatchEventIds = [k \in 1..Cardinality(S) |-> events[Kth(S, k)].id]
      /\ at.released # 0 => o.finalReleasedEventId = events[at.released].id
  BY DEF StoredFinalOptions
<1> HIDE DEF o, S
<1>2. /\ Cardinality(S) = n /\ \A k \in 1..n : Kth(S, k) = final + 1 + k
      /\ final + n + 3 \in DOMAIN events /\ events[final + n + 3].type = "FinalReleased" =>
            at.released = final + n + 3
  <2>1. HoldsSubmission(events, final, n) /\ at.final = final
    OBVIOUS
  <2> HIDE DEF final
  <2> QED BY <2>1, SubmissionPositions DEF S
<1>3. DOMAIN events = 1..Len(events) /\ Len(events) \in Nat /\ final \in Nat
      /\ final + n + 2 \in DOMAIN events
  BY ListFacts DEF HoldsSubmission
<1>4. \A k \in 1..n : final + 1 + k \in DOMAIN events
  <2> HIDE DEF final
  <2>1. \A k \in 1..n : final + 1 + k \in 1..Len(events)
    BY <1>3
  <2> QED BY <1>3, <2>1
<1> DEFINE ids == o.mismatchEventIds
<1>5. ids = [k \in 1..n |-> events[Kth(S, k)].id]
  BY <1>1, <1>2
<1> HIDE DEF ids
<1>6. \A k \in 1..n : ids[k] = events[final + 1 + k].id
  <2> TAKE k \in 1..n
  <2>1. ids[k] = events[Kth(S, k)].id
    BY <1>5
  <2> QED BY <1>2, <2>1
<1>7. ids \in Seq(EventIds) /\ Len(ids) = n
  <2>1. ids \in [1..n -> EventIds]
    BY <1>4, <1>5, <1>6
  <2>2. ids \in Seq(EventIds)
    BY <2>1, SeqDef
  <2>3. DOMAIN ids = 1..n
    BY <1>5
  <2> QED BY <2>2, <2>3, LenProperties
<1>8. ids # Default
  BY <1>7, IdsAreTold
<1>9. \A i \in 1..n : MismatchId(o, i) = events[final + 1 + i].id
  <2> TAKE i \in 1..n
  <2>1. i <= Len(ids)
    BY <1>7
  <2>2. MismatchId(o, i) = ids[i]
    BY <1>8, <2>1 DEF MismatchId, ids
  <2> QED BY <1>6, <2>2
<1>10. final + n + 3 # 0
  BY <1>3
<1> QED BY <1>1, <1>2, <1>9, <1>10 DEF o

\* The plan carried out again is the stored one, event by event.
LEMMA PlanIsStored ==
    ASSUME NEW events, NEW at, NEW m, NEW p, PlanMeetsStored(events, at, m, p), NEW h \in 1..Len(p)
    PROVE  IsStored(p[h], events[at.final + h])
<1> DEFINE final == at.final
           proof == CopyProof(events, at)
           n == Len(m)
           o == StoredFinalOptions(events, at)
           c == events[final].body
           e == CopyProposal(events, at)
           decision == DecideRelease(c, proof)
           body == [decision |-> decision, candidate |-> c]
           d == log[final + h]
<1>1. /\ final \in DOMAIN events /\ final \in Nat /\ final + Len(p) \in DOMAIN events
      /\ \A k \in 1..Len(p) : events[final + k].type = p[k].type
      /\ Len(copyLog) + 1 = final
  BY DEF PlanMeetsStored
<1>2. /\ HoldsSubmission(events, final, n)
      /\ at.proof = final + 1 /\ at.release = final + n + 2
      /\ \A k \in (final + 1)..(final + Len(p)) : CarriesPlan(log, final, k, proof, m)
  BY SamePlanLogged
<1>3. /\ IsList(events) /\ at = LastSubmission(events)
      /\ events[final].type = "ProposalReceived"
      /\ \A i \in DOMAIN events : events[i].intact
  <2>1. IsList(events) /\ at = LastSubmission(events) /\ final \in FinalProposals(events)
    BY DEF PlanMeetsStored, ReplayGoesOn, Parsed
  <2>2. \A i \in DOMAIN events : events[i].intact
    BY DEF PlanMeetsStored, ReplayGoesOn, Contract!IsRunStream
  <2> QED BY <2>1, <2>2 DEF FinalProposals
<1>4. /\ DOMAIN events \subseteq DOMAIN log /\ Len(events) \in Nat /\ DOMAIN events = 1..Len(events)
      /\ \A i \in DOMAIN events : IsStored(log[i], events[i])
  BY <1>3, CutIsStored DEF PlanMeetsStored, LogIsSound, IsUntouched
<1>5. /\ n \in Nat /\ IsPlan(p, final, c, o, proof, m, e.id)
  BY <1>1, Zenon DEF PlanMeetsStored, n
<1>6. \A i \in DOMAIN events : events[i].id \in EventIds /\ events[i].id # Default /\ events[i].cause # Default
  <2> TAKE i \in DOMAIN events
  <2>1. log[i].id \in EventIds /\ log[i].id # Default /\ log[i].cause # Default
    BY <1>4, StoredOptions DEF PlanMeetsStored, LogIsSound, EventsAreNamed
  <2>2. IsStored(log[i], events[i])
    BY <1>4
  <2> QED BY <2>1, <2>2 DEF IsStored
<1>7. e.id = events[final].id
  BY <1>1, <1>3, <1>6, ProposalIsStored DEF IsStored
<1> HIDE DEF n
<1>8. /\ o.proofEventId = events[final + 1].id
      /\ \A i \in 1..n : MismatchId(o, i) = events[final + 1 + i].id
      /\ o.releaseEventId = events[final + n + 2].id
      /\ final + n + 3 \in DOMAIN events /\ events[final + n + 3].type = "FinalReleased" =>
            o.finalReleasedEventId = events[final + n + 3].id
  BY <1>2, <1>3, <1>5, <1>6, IdsAreStored
<1>9. /\ Len(p) = IF decision.status = "released" THEN n + 3 ELSE n + 2
      /\ p[1] = Planned(final, 1, o.proofEventId, "ProofGenerated", e.id, proof)
      /\ \A i \in 1..n : p[i + 1] = Planned(final, 1 + i, MismatchId(o, i), "MismatchDetected", p[1].id, m[i])
      /\ p[n + 2] = Planned(final, 2 + n, o.releaseEventId, "ReleaseDecided", p[1].id, decision)
      /\ decision.status = "released" =>
            p[n + 3] = Planned(final, 3 + n, o.finalReleasedEventId, "FinalReleased", p[n + 2].id, body)
  BY <1>5, Zenon DEF IsPlan, n, decision, body
<1> HIDE DEF final, proof, o, c, e, decision, body
<1>10. Len(p) \in Nat /\ Len(p) \in {n + 2, n + 3}
       /\ (Len(p) = n + 3 => decision.status = "released")
       /\ 1 \in 1..Len(p) /\ n + 2 \in 1..Len(p)
  <2> DEFINE l == Len(p)
  <2>1. l = IF decision.status = "released" THEN n + 3 ELSE n + 2
    BY <1>9
  <2> HIDE DEF l
  <2> QED BY <1>5, <2>1 DEF l
<1>11. ASSUME NEW k \in 1..Len(p)
       PROVE  /\ final + k \in DOMAIN events /\ final + k \in (final + 1)..(final + Len(p))
              /\ IsStored(log[final + k], events[final + k]) /\ log[final + k].wellFormed
              /\ log[final + k].type = p[k].type /\ log[final + k].id # Default
  <2>1. final + k \in (final + 1)..(final + Len(p)) /\ final + k \in 1..(final + Len(p))
    BY <1>1, <1>10
  <2>2. final + k \in DOMAIN events
    BY <1>1, <1>4, <2>1
  <2>3. IsStored(log[final + k], events[final + k])
    BY <1>4, <2>2
  <2> QED BY <1>1, <1>3, <1>6, <2>1, <2>2, <2>3 DEF IsStored
<1>12. ASSUME NEW j, NEW x, NEW type, NEW cause, NEW b,
              p[h] = Planned(final, j, x, type, cause, b),
              x = events[final + h].id, d.cause = cause, d.body = b
       PROVE  IsStored(p[h], events[final + h])
  <2>1. x # Default /\ IsStored(d, events[final + h]) /\ d.wellFormed /\ d.type = p[h].type
    BY <1>11, <1>12 DEF IsStored
  <2>2. p[h].id = x /\ p[h].type = type /\ p[h].cause = cause /\ p[h].body = b /\ p[h].wellFormed = TRUE
    BY <1>12, <2>1 DEF Planned, Given
  <2>3. events[final + h].intact = TRUE
    BY <1>3, <1>11
  <2> QED BY <1>12, <2>1, <2>2, <2>3 DEF IsStored
<1>13. p[1].id = log[final + 1].id /\ e.id = log[final].id
  <2>1. p[1].id = o.proofEventId
    BY <1>8, <1>9, <1>10, <1>11 DEF Planned, Given, IsStored
  <2>2. log[final + 1].id = events[final + 1].id
    BY <1>10, <1>11 DEF IsStored
  <2>3. log[final].id = events[final].id
    BY <1>1, <1>4 DEF IsStored, final
  <2> QED BY <1>7, <1>8, <2>1, <2>2, <2>3
<1>14. h = 1 \/ h \in 2..(n + 1) \/ h = n + 2 \/ (h = n + 3 /\ Len(p) = n + 3)
  BY <1>5, <1>10
<1>15. CarriesPlan(log, final, final + h, proof, m) /\ d.type = p[h].type
  BY <1>2, <1>11
<1>16. \A j, x, type, cause, b : Planned(final, j, x, type, cause, b).type = type
  BY DEF Planned
<1>17. CASE h = 1
  <2>1. d.type = "ProofGenerated"
    BY <1>9, <1>15, <1>16, <1>17
  <2>2. d.cause = log[final].id /\ d.body = proof
    BY <1>15, <2>1, Zenon DEF CarriesPlan
  <2>3. p[h] = Planned(final, 1, o.proofEventId, "ProofGenerated", e.id, proof)
    BY <1>9, <1>17
  <2>4. o.proofEventId = events[final + h].id /\ d.cause = e.id
    BY <1>8, <1>13, <1>17, <2>2
  <2> QED BY <1>12, <2>2, <2>3, <2>4 DEF final
<1>18. CASE h \in 2..(n + 1)
  <2> DEFINE i == h - 1
  <2>0. final \in Nat /\ n \in Nat /\ h \in 2..(n + 1)
    BY <1>1, <1>5, <1>18
  <2>1. i \in 1..n /\ i + 1 = h /\ final + 1 + i = final + h /\ (final + h) - (final + 1) = i
    BY ONLY <2>0
  <2> HIDE DEF i
  <2>2. p[h] = Planned(final, 1 + i, MismatchId(o, i), "MismatchDetected", p[1].id, m[i])
    BY <1>9, <2>1
  <2>3. d.type = "MismatchDetected"
    BY <1>15, <1>16, <2>2
  <2>4. d.cause = log[final + 1].id /\ d.body = m[(final + h) - (final + 1)]
    BY <1>15, <2>3, Zenon DEF CarriesPlan
  <2>5. MismatchId(o, i) = events[final + h].id
    BY <1>8, <2>1
  <2>6. d.cause = p[1].id /\ d.body = m[i]
    BY <1>13, <2>1, <2>4
  <2> QED BY <1>12, <2>2, <2>5, <2>6 DEF final
<1>19. CASE h = n + 2
  <2>1. p[h] = Planned(final, 2 + n, o.releaseEventId, "ReleaseDecided", p[1].id, decision)
    BY <1>9, <1>19
  <2>2. d.type = "ReleaseDecided"
    BY <1>15, <1>16, <2>1
  <2>3. d.cause = log[final + 1].id /\ d.body = DecideRelease(log[final].body, proof)
    BY <1>15, <2>2, Zenon DEF CarriesPlan
  <2>4. log[final].body = c
    BY <1>1, <1>4 DEF IsStored, final, c
  <2>5. final + h = final + n + 2
    BY <1>1, <1>5, <1>19
  <2>6. o.releaseEventId = events[final + h].id /\ d.cause = p[1].id /\ d.body = decision
    BY <1>8, <1>13, <2>3, <2>4, <2>5 DEF decision
  <2> QED BY <1>12, <2>1, <2>6 DEF final
<1>20. CASE h = n + 3 /\ Len(p) = n + 3
  <2>1. p[h] = Planned(final, 3 + n, o.finalReleasedEventId, "FinalReleased", p[n + 2].id, body)
    BY <1>9, <1>10, <1>20
  <2>2. d.type = "FinalReleased"
    BY <1>15, <1>16, <2>1
  <2>3. /\ d.cause = log[final + n + 2].id
        /\ d.body = [decision |-> DecideRelease(log[final].body, proof), candidate |-> log[final].body]
    BY <1>15, <2>2, Zenon DEF CarriesPlan, n
  <2>4. log[final].body = c
    BY <1>1, <1>4 DEF IsStored, final, c
  <2>5. final + h = final + n + 3 /\ final + (n + 2) = final + n + 2
    BY <1>1, <1>5, <1>20
  <2>6. log[final + n + 2].id = events[final + n + 2].id /\ events[final + n + 2].id # Default
    BY <1>10, <1>11, <2>5 DEF IsStored
  <2>7. p[n + 2].id = log[final + n + 2].id
    BY <1>8, <1>9, <2>6 DEF Planned, Given
  <2>8. final + n + 3 \in DOMAIN events /\ events[final + n + 3].type = "FinalReleased"
    BY <1>11, <2>2, <2>5 DEF IsStored
  <2>9. o.finalReleasedEventId = events[final + h].id
    BY <1>8, <2>5, <2>8
  <2>10. d.cause = p[n + 2].id /\ d.body = body
    BY <2>3, <2>4, <2>7 DEF decision, body
  <2> QED BY <1>12, <2>1, <2>9, <2>10 DEF final
<1> QED BY <1>14, <1>17, <1>18, <1>19, <1>20 DEF final

\* A replay of a stream nobody touched that passes has repeated it.
LEMMA RepeatsTheRun ==
    ASSUME NEW events, NEW at, NEW m, NEW p, RepeatsAtTheEnd(events, at, m, p)
    PROVE  IsCutOf(Stored(copyLog'), events)
<1> DEFINE after == copyLog'
           final == at.final
           K == final + Len(p)
           e == CopyProposal(events, at)
<1>1. /\ final \in DOMAIN events /\ final \in Nat /\ K \in DOMAIN events
      /\ Len(copyLog) + 1 = final
  BY NothingSkipped DEF PlanMeetsStored
<1>2. IsList(events) /\ events[final].type = "ProposalReceived"
  BY DEF RepeatsAtTheEnd, ReplayGoesOn, Parsed, FinalProposals
<1>3. /\ DOMAIN events \subseteq DOMAIN log /\ Len(events) \in Nat /\ DOMAIN events = 1..Len(events)
      /\ \A i \in DOMAIN events : events[i] = Entry(i, log[i]) /\ IsStored(log[i], events[i])
  BY <1>2, CutIsStored DEF RepeatsAtTheEnd, LogIsSound, IsUntouched
<1>4. /\ Len(p) \in Nat /\ DOMAIN after = 1..K
      /\ \A i \in 1..(final - 1) : after[i] = copyLog[i]
      /\ after[final] = e
      /\ \A h \in 1..Len(p) : after[final + h] = p[h]
  <2> DEFINE N == Len(copyLog) + 1
  <2>1. /\ Len(p) \in Nat /\ DOMAIN after = 1..(N + Len(p))
        /\ \A i \in 1..(N - 1) : after[i] = copyLog[i]
        /\ after[N] = e
        /\ \A h \in 1..Len(p) : after[N + h] = p[h]
    BY Zenon DEF RepeatsAtTheEnd, IsResubmission, N
  <2>2. N = final
    BY <1>1
  <2> HIDE DEF N, final, e, after
  <2> QED BY <2>1, <2>2 DEF K
<1>5. events[final].id # Default /\ events[final].cause # Default
  <2>1. log[final].id # Default /\ log[final].cause # Default
    BY <1>1, <1>3, StoredOptions DEF RepeatsAtTheEnd
  <2> QED BY <1>1, <1>3, <2>1 DEF IsStored
<1>6. IsStored(e, events[final])
  BY <1>2, <1>5, ProposalIsStored
<1>7. \A i \in 1..(final - 1) : IsStored(copyLog[i], events[i])
  <2>1. Len(copyLog) = final - 1
    <3>1. Len(copyLog) \in Nat
      BY ListFacts DEF RepeatsAtTheEnd, ReplayGoesOn
    <3> QED BY <1>1, <3>1
  <2> QED BY <2>1 DEF RepeatsAtTheEnd, ReplayRepeats
<1>8. \A h \in 1..Len(p) : IsStored(p[h], events[final + h])
  BY NothingSkipped, PlanIsStored
<1> HIDE DEF after, final, e
<1>9. ASSUME NEW i \in 1..K PROVE IsStored(after[i], events[i])
  <2>1. CASE i \in 1..(final - 1)
    BY <1>4, <1>7, <2>1
  <2>2. CASE i = final
    BY <1>4, <1>6, <2>2
  <2>3. CASE i \notin 1..final
    <3>1. i - final \in 1..Len(p) /\ final + (i - final) = i
      BY <1>1, <1>4, <2>3
    <3>2. after[final + (i - final)] = p[i - final] /\ IsStored(p[i - final], events[final + (i - final)])
      BY <1>4, <1>8, <3>1
    <3> QED BY <3>1, <3>2
  <2> QED BY <1>1, <2>1, <2>2, <2>3
<1> HIDE DEF K
<1>10. K \in Nat /\ K <= Len(events) /\ 1..K \subseteq DOMAIN events
  BY <1>1, <1>3
<1>11. ASSUME NEW i \in 1..K PROVE Entry(i, after[i]) = events[i]
  <2>1. IsStored(after[i], events[i]) /\ events[i] = Entry(i, log[i])
    BY <1>3, <1>9, <1>10
  <2>2. /\ events[i].id = log[i].id /\ events[i].type = log[i].type /\ events[i].cause = log[i].cause
        /\ events[i].body = log[i].body /\ events[i].intact = log[i].wellFormed
    BY <2>1 DEF Entry
  <2> QED BY <2>1, <2>2 DEF IsStored, Entry
<1>12. /\ Len(Stored(after)) = K
       /\ Stored(after) = [i \in 1..K |-> Entry(i, after[i])]
  BY <1>4, <1>10, StoredEntries
<1>13. [i \in 1..K |-> Entry(i, after[i])] = [i \in 1..K |-> events[i]]
  BY <1>11
<1>14. SubSeq(events, 1, K) = [i \in 1..K |-> events[i]]
  <2>1. events \in Seq(Elements(events))
    BY <1>2 DEF IsList
  <2> QED BY <1>10, <2>1
<1>15. IsCutOf(Stored(after), events)
  BY <1>10, <1>12, <1>13, <1>14 DEF IsCutOf
<1> QED BY <1>15 DEF after

RepeatInv == (replay.at = "replaying" => ReplayRepeats) /\ PassesRepeat

\* Deciding to replay.
LEMMA RepetitionStarts ==
    ASSUME ReplayInv, NEW events, ReplayRunEvents(events)
    PROVE  RepeatInv'
<1>1. copyLog' = <<>>
  BY DEF ReplayRunEvents, ReplayInv, copyVars
<1>2. replay'.at = "failed" \/ (replay'.at = "replaying" /\ replay'.next = 1)
  BY DEF ReplayRunEvents, ReplayFailed
<1>3. Len(copyLog') = 0
  BY <1>1, EmptyList
<1>4. replay'.next = 1 => ReplayRepeats'
  <2> SUFFICES ASSUME replay'.next = 1 PROVE ReplayRepeats'
    OBVIOUS
  <2>1. 1..(replay'.next - 1) = {} /\ replay'.next - 1 = 0
    OBVIOUS
  <2> QED BY <1>3, <2>1 DEF ReplayRepeats
<1> QED BY <1>2, <1>4 DEF RepeatInv, PassesRepeat

\* An input, or the end of the inputs.
LEMMA RepetitionGoesOn ==
    ASSUME LogIsSound, ReplayInv, RepeatInv, ReplayInput
    PROVE  RepeatInv'
<1>1. replay.at = "replaying" /\ ReplayGoesOn /\ ReplayRepeats /\ replay.next < replay.last.final
  BY DEF ReplayInput, ReplayInv, RepeatInv
<1>2. CASE replay' = ReplayFailed(replay.events, "event_stream_integrity_failed")
  <2>1. replay'.at = "failed"
    BY <1>2 DEF ReplayFailed
  <2> QED BY <2>1 DEF RepeatInv, PassesRepeat
<1>3. CASE Readmit(replay.events, replay.next) /\ replay' = [replay EXCEPT !.next = @ + 1]
  <2>1. UNCHANGED vars
    BY DEF ReplayInput
  <2>2. ReplayRepeats'
    BY <1>1, <1>3, <2>1, ReplayRepeatsOn
  <2>3. replay'.at = "replaying"
    BY <1>1, <1>3 DEF ReplayGoesOn
  <2> QED BY <2>2, <2>3 DEF RepeatInv, PassesRepeat
<1> QED BY <1>2, <1>3 DEF ReplayInput

\* The end.
LEMMA RepetitionEnds ==
    ASSUME LogIsSound, ReplayInv, RepeatInv, ReplayFinalCandidate
    PROVE  RepeatInv'
<1> DEFINE events == replay.events
           at == replay.last
<1>1. replay.at = "replaying" /\ ReplayGoesOn /\ ReplayRepeats /\ replay.next = at.final
  BY DEF ReplayFinalCandidate, ReplayInv, RepeatInv
<1>2. \/ \E code : replay' = ReplayFailed(events, code)
      \/ /\ SubmitStored(events, at) /\ Submitted(copyLog') /\ SameOutcome(events, at, copyLog')
         /\ replay' = [at |-> "passed", events |-> events]
  BY Zenon DEF ReplayFinalCandidate
<1>3. CASE \E code : replay' = ReplayFailed(events, code)
  <2>1. replay'.at = "failed"
    BY <1>3 DEF ReplayFailed
  <2> QED BY <2>1 DEF RepeatInv, PassesRepeat
<1>4. CASE /\ SubmitStored(events, at) /\ Submitted(copyLog') /\ SameOutcome(events, at, copyLog')
           /\ replay' = [at |-> "passed", events |-> events]
  <2>1. replay'.at = "passed" /\ replay'.events = events
    BY <1>4
  <2>2. log' = log
    BY DEF ReplayFinalCandidate, vars
  <2>3. events[at.final].body \in FinalCandidates
    <3>1. /\ at.final \in DOMAIN events /\ events[at.final].type = "ProposalReceived"
          /\ events[at.final].body.kind = "final_candidate"
      BY <1>1 DEF ReplayGoesOn, FinalProposals
    <3>2. "ProposalReceived" \in KeptTypes
      BY DEF KeptTypes, Inputs
    <3>3. events[at.final].body \in Inputs["ProposalReceived"]
      BY <1>1, <3>1, <3>2 DEF ReplayGoesOn, Parsed
    <3> QED BY <3>1, <3>3, CandidateKind
  <2>4. IsList(copyLog)
    BY <1>1 DEF ReplayGoesOn
  <2>5. \E m, p : IsResubmission(copyLog', events[at.final].body, StoredFinalOptions(events, at),
                                 CopyProof(events, at), CopyProposal(events, at), m, p)
    BY <1>4, <2>3, <2>4, ResubmissionIsWhole
  <2>6. PICK m, p : IsResubmission(copyLog', events[at.final].body, StoredFinalOptions(events, at),
                                   CopyProof(events, at), CopyProposal(events, at), m, p)
    BY <2>5
  <2>7. IsUntouched(events) => IsCutOf(Stored(copyLog'), events)
    <3> SUFFICES ASSUME IsUntouched(events) PROVE IsCutOf(Stored(copyLog'), events)
      OBVIOUS
    <3>1. RepeatsAtTheEnd(events, at, m, p)
      BY <1>1, <1>4, <2>3, <2>6 DEF RepeatsAtTheEnd
    <3> QED BY <3>1, RepeatsTheRun
  <2> HIDE DEF events, at
  <2>8. PassesRepeat'
    <3>1. Stored(log') = Stored(log)
      BY <2>2
    <3> QED BY <2>1, <2>7, <3>1 DEF PassesRepeat, IsUntouched
  <2> QED BY <2>1, <2>8 DEF RepeatInv
<1> QED BY <1>2, <1>3, <1>4

\* The replay repeats the stream.
LEMMA RepetitionHolds == HistorySpec => []RepeatInv
<1>1. HistoryInit => RepeatInv
  BY DEF HistoryInit, RepeatInv, PassesRepeat
<1>2. LogIsSound /\ ReplayInv /\ RepeatInv /\ [HistoryNext]_historyVars => RepeatInv'
  <2> SUFFICES ASSUME LogIsSound, ReplayInv, RepeatInv, [HistoryNext]_historyVars PROVE RepeatInv'
    OBVIOUS
  <2>1. CASE UNCHANGED historyVars
    BY <2>1 DEF historyVars, vars, copyVars, RepeatInv, ReplayRepeats, PassesRepeat, IsUntouched, IsCutOf, Stored
  <2>2. CASE replay.at = "idle" /\ UNCHANGED replay
    BY <2>2 DEF RepeatInv, PassesRepeat
  <2>3. CASE \E events \in Readable(Stored(log)) : ReplayRunEvents(events)
    BY <2>3, RepetitionStarts
  <2>4. CASE ReplayInput
    BY <2>4, RepetitionGoesOn
  <2>5. CASE ReplayFinalCandidate
    BY <2>5, RepetitionEnds
  <2> QED BY <2>1, <2>2, <2>3, <2>4, <2>5 DEF HistoryNext
<1>3. TypeOK /\ Mirrored /\ LogIntegrity /\ EventsAreNamed /\ PlansAreCarriedOut
      /\ CommitsWereProposed /\ MutationsAreSerial => LogIsSound
  BY DEF LogIsSound
<1> QED BY <1>1, <1>2, <1>3, ReplayHolds, HistoriesAreRuns, TypeCorrect, ListsMirrorLog, LogStaysIntact,
           EventsStayNamed, SubmissionsFollowPlans, CommitsAreProposed, CommitsAreSerial, PTL DEF HistorySpec

\* A replay of a stream nobody touched that passes has repeated the run (replayRunEvents):
\* what the fresh kernel holds is the stored stream up to the end of its last submission,
\* event by event.
THEOREM PassingReplaysRepeat == HistorySpec => []PassesRepeat
<1>1. RepeatInv => PassesRepeat
  BY DEF RepeatInv
<1> QED BY <1>1, RepetitionHolds, PTL

\* ------------------------------------------------------------------------
\* What the kernel knew when it recorded what it recorded

\* What the kernel decides by.
Known == [kept |-> kept, started |-> started, revision |-> revision]

NothingKnown ==
    [kept |-> [t \in KeptTypes |-> <<>>], started |-> Null, revision |-> [r \in StateRefs |-> 0]]

\* What is known after an event, to one who knew s before it.
KnownAfter(s, e) ==
    [kept |-> IF e.type \in KeptTypes /\ e.wellFormed
              THEN [s.kept EXCEPT ![e.type] = Append(@, e.body)] ELSE s.kept,
     started |-> IF e.type = "RunStarted" THEN IF e.wellFormed THEN e.id ELSE Null ELSE s.started,
     revision |-> IF e.type = "MutationCommitted"
                  THEN [s.revision EXCEPT ![e.body.stateRef] = e.body.newRevision] ELSE s.revision]

\* The commit in the event at i carries out a command proposed before it.
MayBeCommittedAt(s, l, i) ==
    /\ l[i].wellFormed
    /\ \E c \in MutationCommands :
          /\ MayBeCommitted(s.kept, s.revision, c)
          /\ l[i].body = MutationOf(c, s.revision[c.stateRef])
          /\ \E j \in 1..(i - 1) : l[j].type = "ProposalReceived" /\ l[j].body = c

\* One who knows s may record the input in the event at i of a log l.
IsAllowed(s, l, i) ==
    LET e == l[i]
    IN  /\ s.started # Null /\ i <= MaxEvents /\ e.body.runId = RunId
        /\ \/ e.type = "ProposalReceived" /\ (IsMutationCommand(e.body) => HasPayloadHash(e.body))
           \/ e.type = "MutationCommitted" /\ MayBeCommittedAt(s, l, i)
           \/ MayBeRecorded(s.kept, e.type, e.body, e.id)

MayFollow(s, l, i) ==
    \/ l[i].type = "RunStarted" /\ s.started = Null /\ i <= MaxEvents
    \/ l[i].type \in KeptTypes /\ IsAllowed(s, l, i)
    \/ l[i].type \in FinalTypes

\* What the kernel knew before each event of a log l, and now.
IsHistory(h, l, now) ==
    /\ h[1] = NothingKnown /\ h[Len(l) + 1] = now
    /\ \A i \in DOMAIN l : MayFollow(h[i], l, i) /\ h[i + 1] = KnownAfter(h[i], l[i])

InputsWereAllowed == \E h : IsHistory(h, log, Known)

\* The first event of a step.
FirstMayFollow ==
    LET N == Len(log) + 1
    IN  /\ Grows /\ Len(log') >= N
        /\ MayFollow(Known, log', N) /\ Known' = KnownAfter(Known, log'[N])
        /\ \A i \in (N + 1)..Len(log') : log'[i].type \in FinalTypes

\* Recording an input that is allowed.
LEMMA AllowedRecord ==
    ASSUME TypeOK, NEW type \in KeptTypes, NEW body, NEW o \in EventOptions, RecordEvent(type, body, o),
           IF type = "MutationCommitted"
           THEN /\ revision' = [revision EXCEPT ![body.stateRef] = body.newRevision]
                /\ o.wellFormed
                /\ \E c \in MutationCommands : /\ MayBeCommitted(kept, revision, c)
                                               /\ body = MutationOf(c, revision[c.stateRef])
                                               /\ \E j \in DOMAIN log : log[j].type = "ProposalReceived"
                                                                        /\ log[j].body = c
           ELSE /\ revision' = revision
                /\ \/ type = "ProposalReceived" /\ (IsMutationCommand(body) => HasPayloadHash(body))
                   \/ MayBeRecorded(kept, type, body, Given(o.eventId, NextEventId(type)))
    PROVE  FirstMayFollow
<1> DEFINE N == Len(log) + 1
           e == log'[N]
<1>1. /\ Grows /\ Len(log') = N /\ Accepts(log, Newest)
      /\ Newest = NewEvent(type, body, o, Given(o.causationId, started))
      /\ started # Null /\ body.runId = RunId /\ started' = started
      /\ kept' = IF o.wellFormed THEN [kept EXCEPT ![type] = Append(@, body)] ELSE kept
  BY RecordStep DEF TypeOK, IsList
<1>2. /\ e.type = type /\ e.body = body /\ e.wellFormed = o.wellFormed
      /\ e.id = Given(o.eventId, NextEventId(type))
  BY <1>1 DEF Newest, NewEvent
<1>3. N <= MaxEvents /\ Len(log) \in Nat /\ (N + 1)..Len(log') = {} /\ N - 1 = Len(log)
      /\ DOMAIN log = 1..(N - 1) /\ \A j \in 1..(N - 1) : log'[j] = log[j]
  BY <1>1, NullIsNoEventId DEF RecordEvent, CanRecord, Grows
<1>4. type # "RunStarted" /\ "RunStarted" # "MutationCommitted"
  BY UnkeptTypes
<1> HIDE DEF N, e
<1>5. Known.kept = kept /\ Known.started = started /\ Known.revision = revision
  BY DEF Known
<1>6. IsAllowed(Known, log', N)
  <2>1. CASE type = "MutationCommitted"
    <3>1. MayBeCommittedAt(Known, log', N)
      BY <1>2, <1>3, <1>5, <2>1 DEF MayBeCommittedAt, e
    <3> QED BY <1>1, <1>2, <1>3, <1>5, <2>1, <3>1 DEF IsAllowed, e
  <2>2. CASE type # "MutationCommitted"
    BY <1>1, <1>2, <1>3, <1>5, <2>2 DEF IsAllowed, e
  <2> QED BY <2>1, <2>2
<1>7. Known' = KnownAfter(Known, e)
  <2>1. kept' = IF e.type \in KeptTypes /\ e.wellFormed
                THEN [kept EXCEPT ![e.type] = Append(@, e.body)] ELSE kept
    BY <1>1, <1>2
  <2>2. revision' = IF e.type = "MutationCommitted"
                    THEN [revision EXCEPT ![e.body.stateRef] = e.body.newRevision] ELSE revision
    BY <1>2
  <2>3. started' = IF e.type = "RunStarted" THEN IF e.wellFormed THEN e.id ELSE Null ELSE started
    BY <1>1, <1>2, <1>4
  <2> QED BY <1>5, <2>1, <2>2, <2>3 DEF Known, KnownAfter
<1>8. MayFollow(Known, log', N)
  BY <1>2, <1>6 DEF MayFollow, e
<1> QED BY <1>1, <1>3, <1>7, <1>8 DEF FirstMayFollow, N, e, Grows

\* Every step's first event is allowed, and the others belong to a release.
LEMMA StepsAreAllowed ==
    ASSUME TypeOK, Mirrored, Next
    PROVE  FirstMayFollow
<1>l. IsList(log) /\ Len(log) \in Nat
  BY DEF TypeOK, IsList
<1>k. \A t \in {"ProposalReceived", "MutationCommitted", "EffectRequested", "EffectReceiptRecorded",
                "ExternalStateObserved", "WritePreflightRequested", "WritePreflightDecided",
                "WriteQuarantined", "ApprovalRequested", "ApprovalGranted", "ApprovalDenied",
                "ApprovalExpired"} : t \in KeptTypes
  BY DEF KeptTypes, Inputs
<1>r. ASSUME NEW type \in KeptTypes, NEW body, NEW o \in EventOptions, RecordEvent(type, body, o),
             revision' = revision, type # "MutationCommitted",
             \/ type = "ProposalReceived" /\ (IsMutationCommand(body) => HasPayloadHash(body))
             \/ MayBeRecorded(kept, type, body, Given(o.eventId, NextEventId(type)))
      PROVE  FirstMayFollow
  BY <1>r, AllowedRecord
<1>1. ASSUME NEW o \in EventOptions, StartRun(o) PROVE FirstMayFollow
  <2> DEFINE N == Len(log) + 1
             e == log'[N]
  <2>1. /\ Grows /\ Len(log') = N
        /\ Newest = NewEvent("RunStarted", [runId |-> RunId], o, Given(o.causationId, Null))
        /\ started = Null /\ kept' = kept /\ revision' = revision
        /\ started' = IF o.wellFormed THEN Newest.id ELSE Null
    BY <1>l, <1>1, StartStep
  <2>2. e.type = "RunStarted" /\ e.wellFormed = o.wellFormed /\ Newest = e
    BY <2>1 DEF Newest, NewEvent
  <2>3. N <= MaxEvents /\ (N + 1)..Len(log') = {}
    BY <1>l, <1>1, <2>1, NullIsNoEventId DEF StartRun, CanStart
  <2> HIDE DEF N, e
  <2>4. Known.kept = kept /\ Known.started = started /\ Known.revision = revision
    BY DEF Known
  <2>5. "RunStarted" \notin KeptTypes
    BY UnkeptTypes
  <2>6. Known' = KnownAfter(Known, e)
    BY <2>1, <2>2, <2>4, <2>5 DEF Known, KnownAfter
  <2>7. MayFollow(Known, log', N)
    BY <2>1, <2>2, <2>3, <2>4 DEF MayFollow, e
  <2> QED BY <2>1, <2>3, <2>6, <2>7 DEF FirstMayFollow, N, e, Grows
<1>2. ASSUME NEW o \in EventOptions, NEW x \in MutationCommands, CommitMutation(x, o) PROVE FirstMayFollow
  <2> DEFINE m == MutationOf(x, revision[x.stateRef])
  <2>1. /\ RecordEvent("MutationCommitted", m, o) /\ o.wellFormed
        /\ revision' = [revision EXCEPT ![x.stateRef] = revision[x.stateRef] + 1]
        /\ MayBeCommitted(kept, revision, x)
    BY <1>2 DEF CommitMutation
  <2>2. m.stateRef = x.stateRef /\ m.newRevision = revision[x.stateRef] + 1
    BY DEF MutationOf
  <2>3. \E j \in DOMAIN log : log[j].type = "ProposalReceived" /\ log[j].body = x
    <3>1. \E n \in DOMAIN kept["ProposalReceived"] : kept["ProposalReceived"][n] = x
      BY <2>1 DEF MayBeCommitted, WasProposed, FirstWith
    <3>2. PICK n \in DOMAIN kept["ProposalReceived"] : kept["ProposalReceived"][n] = x
      BY <3>1
    <3> QED BY <1>k, <3>2 DEF Mirrored
  <2>4. revision' = [revision EXCEPT ![m.stateRef] = m.newRevision]
    BY <2>1, <2>2
  <2>5. \E c \in MutationCommands : /\ MayBeCommitted(kept, revision, c)
                                    /\ m = MutationOf(c, revision[c.stateRef])
                                    /\ \E j \in DOMAIN log : log[j].type = "ProposalReceived"
                                                             /\ log[j].body = c
    BY <2>1, <2>3
  <2> HIDE DEF m
  <2> QED BY <1>k, <2>1, <2>4, <2>5, AllowedRecord
<1>3. ASSUME NEW o \in EventOptions, NEW x \in ToolCommands, SubmitToolCommand(x, o) PROVE FirstMayFollow
  <2>1. ~IsMutationCommand(x)
    BY ProposalKinds DEF IsMutationCommand
  <2> QED BY <1>k, <1>r, <1>3, <2>1 DEF SubmitToolCommand
<1>4. ASSUME NEW o \in EventOptions, NEW x \in MutationCommands, SubmitMutationCommand(x, o)
      PROVE  FirstMayFollow
  BY <1>k, <1>r, <1>4 DEF SubmitMutationCommand
<1>5. ASSUME NEW o \in EventOptions,
             \/ \E x \in EffectRequests : RecordEffectRequest(x, o)
             \/ \E x \in WritePreflightCandidates : RecordWritePreflightRequested(x, o)
             \/ \E x \in ApprovalRequests : RecordApprovalRequested(x, o)
      PROVE  FirstMayFollow
  <2>1. PICK type \in {"EffectRequested", "WritePreflightRequested", "ApprovalRequested"} :
           \E x : RecordEvent(type, x, o) /\ revision' = revision
    BY <1>5 DEF RecordEffectRequest, RecordWritePreflightRequested, RecordApprovalRequested
  <2>2. PICK x : RecordEvent(type, x, o) /\ revision' = revision
    BY <2>1
  <2>3. MayBeRecorded(kept, type, x, Given(o.eventId, NextEventId(type)))
    BY DEF MayBeRecorded
  <2>4. type \in KeptTypes /\ type # "MutationCommitted"
    BY <1>k
  <2> QED BY <1>r, <2>2, <2>3, <2>4
<1>6. ASSUME NEW o \in EventOptions, NEW x \in EffectReceipts, RecordEffectReceipt(x, o) PROVE FirstMayFollow
  BY <1>k, <1>r, <1>6 DEF RecordEffectReceipt, MayBeRecorded
<1>7. ASSUME NEW o \in EventOptions, NEW x \in Observations, RecordExternalStateObservation(x, o)
      PROVE  FirstMayFollow
  BY <1>k, <1>r, <1>7 DEF RecordExternalStateObservation, MayBeRecorded
<1>8. ASSUME NEW o \in EventOptions, NEW x \in WritePreflightDecisions, RecordWritePreflightDecided(x, o)
      PROVE  FirstMayFollow
  BY <1>k, <1>r, <1>8 DEF RecordWritePreflightDecided, MayBeRecorded
<1>9. ASSUME NEW o \in EventOptions, NEW x \in WriteQuarantines, RecordWriteQuarantined(x, o)
      PROVE  FirstMayFollow
  BY <1>k, <1>r, <1>9 DEF RecordWriteQuarantined, MayBeRecorded
<1>10. ASSUME NEW o \in EventOptions, NEW x \in ApprovalGrants, RecordApprovalGranted(x, o)
       PROVE  FirstMayFollow
  BY <1>k, <1>r, <1>10 DEF RecordApprovalGranted, MayBeRecorded
<1>11. ASSUME NEW o \in EventOptions, NEW x \in ApprovalDenials, RecordApprovalDenied(x, o)
       PROVE  FirstMayFollow
  BY <1>k, <1>r, <1>11 DEF RecordApprovalDenied, MayBeRecorded
<1>12. ASSUME NEW o \in EventOptions, NEW x \in ApprovalExpiries, RecordApprovalExpired(x, o)
       PROVE  FirstMayFollow
  BY <1>k, <1>r, <1>12 DEF RecordApprovalExpired, MayBeRecorded
<1>13. ASSUME NEW c \in FinalCandidates, NEW o \in FinalOptions, NEW t \in Times \cup {Null},
              SubmitFinalCandidate(c, o, t)
       PROVE  FirstMayFollow
  <2> DEFINE N == Len(log) + 1
             e == log'[N]
  <2>1. PICK d \in FinalCandidates, u \in FinalOptions : FinalStep(d, u) /\ d = c /\ u = o
    BY <1>l, <1>13, FinalStepHolds
  <2>2. /\ Grows /\ Len(log') >= N
        /\ Newest = NewEvent("ProposalReceived", c, o, Given(o.causationId, started))
        /\ started # Null /\ started' = started /\ revision' = revision
        /\ kept' = IF o.wellFormed THEN [kept EXCEPT !["ProposalReceived"] = Append(@, c)] ELSE kept
        /\ \A i \in (N + 1)..Len(log') : log'[i].type \in FinalTypes
    <3>1. N + 1 = Len(log) + 2
      BY <1>l
    <3> QED BY <2>1, <3>1 DEF FinalStep
  <2>3. e.type = "ProposalReceived" /\ e.body = c /\ e.wellFormed = o.wellFormed
    BY <2>2 DEF Newest, NewEvent
  <2>4. N <= MaxEvents /\ c.runId = RunId
    BY <1>l, <1>13, NullIsNoEventId DEF SubmitFinalCandidate, CanRecord
  <2>5. ~IsMutationCommand(c)
    BY ProposalKinds DEF IsMutationCommand
  <2> HIDE DEF N, e
  <2>6. Known.kept = kept /\ Known.started = started /\ Known.revision = revision
    BY DEF Known
  <2>7. Known' = KnownAfter(Known, e)
    BY <1>k, <2>2, <2>3, <2>6 DEF Known, KnownAfter
  <2>8. MayFollow(Known, log', N)
    BY <1>k, <2>2, <2>3, <2>4, <2>5, <2>6 DEF MayFollow, IsAllowed, e
  <2> QED BY <2>2, <2>7, <2>8 DEF FirstMayFollow, N, e
<1> QED BY <1>1, <1>2, <1>3, <1>4, <1>5, <1>6, <1>7, <1>8, <1>9, <1>10, <1>11, <1>12, <1>13 DEF Next

\* Whether an event may follow depends on the log up to it.
LEMMA FollowsAlike ==
    ASSUME NEW s, NEW l, NEW k, NEW i \in Nat, \A j \in 1..i : k[j] = l[j], i >= 1, MayFollow(s, l, i)
    PROVE  MayFollow(s, k, i)
<1>1. k[i] = l[i] /\ \A j \in 1..(i - 1) : k[j] = l[j]
  OBVIOUS
<1>2. MayBeCommittedAt(s, l, i) => MayBeCommittedAt(s, k, i)
  BY <1>1 DEF MayBeCommittedAt
<1>3. IsAllowed(s, l, i) => IsAllowed(s, k, i)
  BY <1>1, <1>2 DEF IsAllowed
<1> QED BY <1>1, <1>3 DEF MayFollow

\* The kernel recorded nothing that it had no reason to (the checks of every record*
\* method): its log has a history, in which each input was allowed by what the kernel
\* knew before it.
THEOREM InputsAreAllowed == Spec => []InputsWereAllowed
<1>1. Init => InputsWereAllowed
  <2> SUFFICES ASSUME Init PROVE InputsWereAllowed
    OBVIOUS
  <2> DEFINE h == [i \in {1} |-> NothingKnown]
  <2>1. h[1] = NothingKnown /\ Known = NothingKnown /\ DOMAIN log = {} /\ Len(log) + 1 = 1
    BY EmptyList DEF Init, Known, NothingKnown
  <2> HIDE DEF h
  <2>2. IsHistory(h, log, Known)
    BY <2>1 DEF IsHistory
  <2> QED BY <2>2 DEF InputsWereAllowed
<1>2. TypeOK /\ Mirrored /\ InputsWereAllowed /\ [Next]_vars => InputsWereAllowed'
  <2> SUFFICES ASSUME TypeOK, Mirrored, InputsWereAllowed, [Next]_vars PROVE InputsWereAllowed'
    OBVIOUS
  <2>1. CASE UNCHANGED vars
    BY <2>1 DEF InputsWereAllowed, IsHistory, Known, vars
  <2>2. CASE Next
    <3> DEFINE n == Len(log)
               N == n + 1
    <3>1. PICK h : IsHistory(h, log, Known)
      BY DEF InputsWereAllowed
    <3>2. FirstMayFollow
      BY <2>2, StepsAreAllowed
    <3>3. /\ n \in Nat /\ Len(log') \in Nat /\ Len(log') >= N
          /\ DOMAIN log = 1..n /\ DOMAIN log' = 1..Len(log')
          /\ \A i \in 1..n : log'[i] = log[i]
          /\ MayFollow(Known, log', N) /\ Known' = KnownAfter(Known, log'[N])
          /\ \A i \in (N + 1)..Len(log') : log'[i].type \in FinalTypes
      BY <3>2 DEF FirstMayFollow, Grows
    <3>4. /\ h[1] = NothingKnown /\ h[N] = Known
          /\ \A i \in 1..n : MayFollow(h[i], log, i) /\ h[i + 1] = KnownAfter(h[i], log[i])
      BY <3>1, <3>3 DEF IsHistory
    <3> DEFINE q == Len(log')
               g == [i \in 1..(q + 1) |-> IF i <= N THEN h[i] ELSE Known']
    <3> HIDE DEF n
    <3>5. g[1] = NothingKnown /\ g[q + 1] = Known' /\ \A i \in 1..N : g[i] = h[i]
      BY <3>3, <3>4
    <3>6. \A i \in (N + 1)..(q + 1) : g[i] = Known'
      BY <3>3
    <3> HIDE DEF g
    <3>7. ASSUME NEW i \in 1..q
          PROVE  MayFollow(g[i], log', i) /\ g[i + 1] = KnownAfter(g[i], log'[i])
      <4>1. CASE i \in 1..n
        <5>1. g[i] = h[i] /\ g[i + 1] = h[i + 1] /\ log'[i] = log[i]
          BY <3>3, <3>5, <4>1
        <5>2. \A j \in 1..i : log'[j] = log[j]
          BY <3>3, <4>1
        <5>3. MayFollow(g[i], log', i)
          BY <3>4, <4>1, <5>1, <5>2, FollowsAlike
        <5> QED BY <3>4, <4>1, <5>1, <5>3
      <4>2. CASE i = N
        <5>1. g[i] = Known /\ g[i + 1] = Known'
          BY <3>3, <3>4, <3>5, <3>6, <4>2
        <5> QED BY <3>3, <4>2, <5>1
      <4>3. CASE i \in (N + 1)..q
        <5>1. g[i] = Known' /\ g[i + 1] = Known' /\ log'[i].type \in FinalTypes
          BY <3>3, <3>6, <4>3
        <5>2. KnownAfter(Known', log'[i]) = Known'
          <6>1. log'[i].type \notin KeptTypes /\ log'[i].type # "RunStarted" /\ log'[i].type # "MutationCommitted"
            BY <5>1, UnkeptTypes DEF FinalTypes
          <6> QED BY <6>1 DEF KnownAfter, Known
        <5> QED BY <5>1, <5>2 DEF MayFollow
      <4> QED BY <3>3, <4>1, <4>2, <4>3
    <3>8. IsHistory(g, log', Known')
      BY <3>3, <3>5, <3>7 DEF IsHistory
    <3> QED BY <3>8 DEF InputsWereAllowed
  <2> QED BY <2>1, <2>2
<1> QED BY <1>1, <1>2, TypeCorrect, ListsMirrorLog, PTL DEF Spec

\* ------------------------------------------------------------------------
\* The stream nobody touched that holds one submission

HoldsOneSubmission(events) == IsUntouched(events) /\ Cardinality(FinalProposals(events)) = 1

\* Its one final candidate comes before every event of the release.
LEMMA BeforeTheCandidate ==
    ASSUME LogIsSound, NEW events, Parsed(events), HoldsOneSubmission(events),
           NEW final \in FinalProposals(events), NEW n \in DOMAIN events
    PROVE  /\ \A i \in FinalProposals(events) : i = final
           /\ n < final => events[n].type \notin FinalTypes /\ n \notin FinalProposals(events)
           /\ events[n].type \in FinalTypes =>
                 \A s \in 1..(n - 1) : log[s].type = "ProposalReceived" /\ log[s].body \in FinalCandidates => s = final
<1>1. /\ Len(events) \in Nat /\ DOMAIN events = 1..Len(events) /\ DOMAIN events \subseteq DOMAIN log
      /\ \A i \in DOMAIN events : IsStored(log[i], events[i])
  BY CutIsStored DEF LogIsSound, HoldsOneSubmission, IsUntouched, Parsed
<1>2. \A i \in FinalProposals(events) : i = final
  <2> DEFINE S == FinalProposals(events)
  <2>1. S \subseteq 1..Len(events)
    BY <1>1 DEF FinalProposals
  <2> HIDE DEF S
  <2>2. IsFiniteSet(S)
    <3>1. Len(events) \in Int /\ 1 \in Int
      BY <1>1
    <3>2. IsFiniteSet(1..Len(events))
      BY <3>1, FS_Interval
    <3> QED BY <2>1, <3>2, FS_Subset
  <2>3. Cardinality(S) = 1 /\ final \in S
    BY DEF HoldsOneSubmission, S
  <2>4. PICK x : S = {x}
    BY <2>2, <2>3, FS_Singleton
  <2> QED BY <2>3, <2>4 DEF S
<1>3. ASSUME NEW s \in 1..(n - 1), log[s].type = "ProposalReceived", log[s].body \in FinalCandidates
      PROVE  s = final
  <2>1. s \in DOMAIN events
    BY <1>1
  <2>2. s \in FinalProposals(events)
    BY <1>1, <1>3, <2>1, CandidatesAreKnown DEF FinalProposals, IsStored
  <2> QED BY <1>2, <2>2
<1>4. ASSUME events[n].type \in FinalTypes PROVE ~(n < final)
  <2>1. n \in DOMAIN log /\ log[n].type \in FinalTypes
    BY <1>1, <1>4 DEF IsStored
  <2>2. PICK s \in 1..(n - 1), t \in Times \ {Null} : \E m \in InClaimOrder(ProofAt(log, s, t).mismatches) :
           IsSubmission(log, s, n, t, m)
    BY <2>1 DEF LogIsSound, PlansAreCarriedOut
  <2>3. s = final
    BY <1>3, <2>2 DEF IsSubmission
  <2>4. s < n
    BY <1>1, <2>2
  <2> QED BY <1>1, <2>3, <2>4
<1>5. n < final => n \notin FinalProposals(events)
  BY <1>1, <1>2
<1> QED BY <1>2, <1>3, <1>4, <1>5

\* ------------------------------------------------------------------------
\* The fresh kernel knows what the kernel knew

CopyKnown == [kept |-> copyKept, started |-> copyStarted, revision |-> copyRevision]

\* The fresh kernel holds the events before n.
HoldsUpTo(events, n) ==
    /\ IsList(copyLog) /\ Len(copyLog) = n - 1
    /\ \A i \in 1..(n - 1) : IsStored(copyLog[i], events[i])

\* An event of the stream is new to the fresh kernel that holds those before it, and
\* its cause is not.
LEMMA CopyAccepts ==
    ASSUME NEW events, IsList(events), Contract!IsRunStream(events, RunId), NEW n \in DOMAIN events,
           HoldsUpTo(events, n), NEW e, e.id = events[n].id, e.cause = events[n].cause
    PROVE  Copy!Accepts(copyLog, e)
<1>1. Len(events) \in Nat /\ DOMAIN events = 1..Len(events) /\ n \in Nat /\ n >= 1
  BY ListFacts
<1>2. DOMAIN copyLog = 1..(n - 1)
  BY <1>1, ListFacts DEF HoldsUpTo
<1>3. /\ \A j \in 1..(n - 1) : events[j].id # events[n].id
      /\ \/ events[n].cause = Null
         \/ \E j \in 1..(n - 1) : events[j].id = events[n].cause
  BY DEF Contract!IsRunStream
<1>4. \A j \in 1..(n - 1) : copyLog[j].id = events[j].id
  BY DEF HoldsUpTo, IsStored
<1>5. Copy!IdsOf(copyLog) = {events[j].id : j \in 1..(n - 1)}
  BY <1>2, <1>4 DEF Copy!IdsOf
<1> QED BY <1>3, <1>5, Zenon DEF Copy!Accepts

\* So the fresh kernel can record it.
LEMMA CopyCanRecord ==
    ASSUME LogIsSound, NEW events, IsList(events), IsUntouched(events),
           Contract!IsRunStream(events, RunId), NEW n \in DOMAIN events, n <= MaxEvents,
           HoldsUpTo(events, n), NEW o, o.eventId = events[n].id, o.causationId = events[n].cause
    PROVE  /\ copyStarted = Null => Copy!CanStart(o)
           /\ \A type, b : copyStarted # Null /\ b.runId = RunId => Copy!CanRecord(type, b, o)
           /\ \A type : Given(o.eventId, Copy!NextEventId(type)) = events[n].id
<1>1. n \in DOMAIN log /\ IsStored(log[n], events[n])
  BY CutIsStored DEF LogIsSound, IsUntouched
<1>2. events[n].id # Default /\ events[n].cause # Default
  BY <1>1, StoredOptions DEF IsStored
<1>3. Len(copyLog) < MaxEvents
  <2>1. n \in Nat
    BY ListFacts
  <2> QED BY <2>1, NullIsNoEventId DEF HoldsUpTo
<1>4. ASSUME NEW type, NEW b, NEW x
      PROVE  Copy!Accepts(copyLog, Copy!NewEvent(type, b, o, Copy!Given(o.causationId, x)))
  <2> DEFINE e == Copy!NewEvent(type, b, o, Copy!Given(o.causationId, x))
  <2>1. \A y, d : y # Default => Copy!Given(y, d) = y
    BY DEF Copy!Given
  <2>2. e = [id |-> Copy!Given(o.eventId, Copy!NextEventId(type)), type |-> type,
             cause |-> Copy!Given(o.causationId, x), body |-> b, wellFormed |-> o.wellFormed]
    BY Zenon DEF Copy!NewEvent
  <2>3. e.id = events[n].id /\ e.cause = events[n].cause
    BY <1>2, <2>1, <2>2
  <2> HIDE DEF e
  <2>4. Copy!Accepts(copyLog, e)
    BY <2>3, CopyAccepts
  <2> QED BY <2>4 DEF e
<1>5. copyStarted = Null => Copy!CanStart(o)
  BY <1>3, <1>4, Zenon DEF Copy!CanStart, Copy!StartEvent
<1>6. ASSUME NEW type, NEW b, copyStarted # Null, b.runId = RunId PROVE Copy!CanRecord(type, b, o)
  BY <1>3, <1>4, <1>6, Zenon DEF Copy!CanRecord
<1> QED BY <1>2, <1>5, <1>6 DEF Given

\* A commit of the stream finds the command it carried out.
LEMMA CommitFindsCommand ==
    ASSUME LogIsSound, NEW events, IsList(events), IsUntouched(events), NEW n \in DOMAIN events,
           events[n].type = "MutationCommitted", NEW s, MayBeCommittedAt(s, log, n)
    PROVE  \E c \in MutationProposalBefore(events, n) :
              c \in MutationCommands /\ MayBeCommitted(s.kept, s.revision, c)
              /\ events[n].body = MutationOf(c, s.revision[c.stateRef])
<1>1. /\ Len(events) \in Nat /\ DOMAIN events = 1..Len(events) /\ n \in Nat
      /\ DOMAIN events \subseteq DOMAIN log
      /\ \A i \in DOMAIN events : IsStored(log[i], events[i])
  BY CutIsStored DEF LogIsSound, IsUntouched
<1> DEFINE b == events[n].body
           S == {i \in 1..(n - 1) : /\ events[i].type = "ProposalReceived"
                                    /\ IsMutationCommand(events[i].body)
                                    /\ events[i].body.mutationId = b.mutationId}
<1>2. PICK c \in MutationCommands :
         /\ MayBeCommitted(s.kept, s.revision, c)
         /\ log[n].body = MutationOf(c, s.revision[c.stateRef])
         /\ \E j \in 1..(n - 1) : log[j].type = "ProposalReceived" /\ log[j].body = c
  BY DEF MayBeCommittedAt
<1>3. PICK j \in 1..(n - 1) : log[j].type = "ProposalReceived" /\ log[j].body = c
  BY <1>2
<1>4. b = MutationOf(c, s.revision[c.stateRef])
  BY <1>1, <1>2 DEF IsStored
<1>5. b.mutationId = c.mutationId
  BY <1>4 DEF MutationOf
<1>6. j \in DOMAIN events /\ events[j].type = "ProposalReceived" /\ events[j].body = c
      /\ IsMutationCommand(c)
  BY <1>1, <1>3, ProposalKinds DEF IsStored
<1> HIDE DEF b
<1>7. j \in S
  BY <1>5, <1>6
<1>8. Earliest(S) \in S
  <2>1. S \subseteq Nat
    BY <1>1
  <2> HIDE DEF S
  <2>2. \E i \in S : \A k \in S : i <= k
    BY <1>7, <2>1, LeastOf
  <2> QED BY <2>2 DEF Earliest
<1>9. PICK k \in S : k = Earliest(S)
  BY <1>8
<1>10. events[k].body = c
  <2>1. /\ k \in DOMAIN events /\ events[k].type = "ProposalReceived"
        /\ IsMutationCommand(events[k].body) /\ events[k].body.mutationId = c.mutationId
    <3>1. k \in 1..(n - 1) => k \in DOMAIN events
      BY <1>1
    <3> QED BY <1>5, <3>1
  <2>2. MutationIdsAreDistinct(events)
    BY DEF IsUntouched
  <2>3. events[k].body = events[j].body
    <3> HIDE DEF S
    <3> QED BY <1>6, <2>1, <2>2, ProposalsOfStream
  <2> QED BY <1>6, <2>3
<1>11. MutationProposalBefore(events, n) = {c}
  BY <1>7, <1>9, <1>10 DEF MutationProposalBefore, b
<1> QED BY <1>2, <1>4, <1>11 DEF b

\* What the kernel was allowed to record, the fresh kernel that knows as much is.
LEMMA MayBeReadmittedAgain ==
    ASSUME LogIsSound, NEW events, Parsed(events), HoldsOneSubmission(events),
           Contract!IsRunStream(events, RunId),
           NEW final \in FinalProposals(events), NEW n \in DOMAIN events, n < final,
           HoldsUpTo(events, n), MayFollow(CopyKnown, log, n)
    PROVE  MayBeReadmitted(events, n)
<1> DEFINE type == events[n].type
           body == events[n].body
           o == EventOptionsFrom(events[n])
<1>1. /\ n \in DOMAIN log /\ IsStored(log[n], events[n])
      /\ IsUntouched(events) /\ IsList(events) /\ events[n].intact
  <2>1. IsUntouched(events) /\ IsList(events)
    BY DEF HoldsOneSubmission, Parsed
  <2> QED BY <2>1, CutIsStored DEF LogIsSound, IsUntouched, Contract!IsRunStream
<1>2. type \notin FinalTypes /\ ~(type = "ProposalReceived" /\ body.kind = "final_candidate")
  BY BeforeTheCandidate DEF FinalProposals
<1>3. log[n].type = type /\ log[n].body = body /\ log[n].id = events[n].id /\ log[n].wellFormed = events[n].intact
  BY <1>1 DEF IsStored
<1>4. o.eventId = events[n].id /\ o.causationId = events[n].cause /\ o.wellFormed = events[n].intact
  BY DEF EventOptionsFrom
<1>5. CopyKnown.kept = copyKept /\ CopyKnown.started = copyStarted /\ CopyKnown.revision = copyRevision
  BY DEF CopyKnown
<1>6. n <= MaxEvents
  BY <1>2, <1>3 DEF MayFollow, IsAllowed
<1>7. /\ copyStarted = Null => Copy!CanStart(o)
      /\ \A t, b : copyStarted # Null /\ b.runId = RunId => Copy!CanRecord(t, b, o)
      /\ Given(o.eventId, Copy!NextEventId(type)) = events[n].id
  <2> HIDE DEF o
  <2> QED BY <1>1, <1>4, <1>6, CopyCanRecord
<1> HIDE DEF type, body, o
<1>m. \/ type = "RunStarted" /\ Copy!CanStart(o)
      \/ type = "ProposalReceived" /\ ProposalMayReturn(body, o)
      \/ /\ type = "MutationCommitted"
         /\ \E proposal \in MutationProposalBefore(events, n) : CommitMayReturn(proposal, o)
      \/ /\ MayBeRecorded(copyKept, type, body, Given(o.eventId, Copy!NextEventId(type)))
         /\ Copy!CanRecord(type, body, o)
      => MayBeReadmitted(events, n)
  BY Zenon DEF MayBeReadmitted, type, body, o
<1>8. CASE type = "RunStarted" /\ copyStarted = Null
  BY <1>7, <1>8, <1>m
<1>9. CASE type \in KeptTypes /\ IsAllowed(CopyKnown, log, n)
  <2>1. /\ copyStarted # Null /\ body.runId = RunId
        /\ \/ type = "ProposalReceived" /\ (IsMutationCommand(body) => HasPayloadHash(body))
           \/ type = "MutationCommitted" /\ MayBeCommittedAt(CopyKnown, log, n)
           \/ MayBeRecorded(copyKept, type, body, events[n].id)
    BY <1>3, <1>5, <1>9 DEF IsAllowed
  <2>2. Copy!CanRecord(type, body, o)
    BY <1>7, <2>1
  <2>3. CASE type = "ProposalReceived" /\ (IsMutationCommand(body) => HasPayloadHash(body))
    <3>1. body \in ToolCommands \cup MutationCommands \cup FinalCandidates
      <4>1. body \in Inputs[type]
        BY <1>9 DEF Parsed, type, body
      <4> QED BY <2>3, <4>1 DEF Inputs
    <3>2. body.kind = "tool_command_request" \/ IsMutationCommand(body)
      BY <1>2, <2>3, <3>1, ProposalKinds
    <3> QED BY <1>m, <2>2, <2>3, <3>2, Zenon DEF ProposalMayReturn
  <2>4. CASE type = "MutationCommitted" /\ MayBeCommittedAt(CopyKnown, log, n)
    <3>1. PICK c \in MutationProposalBefore(events, n) :
             /\ c \in MutationCommands /\ MayBeCommitted(copyKept, copyRevision, c)
             /\ body = MutationOf(c, copyRevision[c.stateRef])
      BY <1>1, <1>5, <2>4, CommitFindsCommand DEF type, body
    <3>2. CommitMayReturn(c, o)
      BY <1>1, <1>4, <2>2, <2>4, <3>1, Zenon DEF CommitMayReturn
    <3> QED BY <1>m, <2>4, <3>2
  <2>5. CASE MayBeRecorded(copyKept, type, body, events[n].id)
    BY <1>7, <1>m, <2>2, <2>5
  <2> QED BY <2>1, <2>3, <2>4, <2>5
<1> QED BY <1>2, <1>3, <1>5, <1>8, <1>9 DEF MayFollow

\* A call of the fresh kernel for an input of the stream appends it, and what the fresh
\* kernel knows then is what one knows after it.
LEMMA ReadmissionFollows ==
    ASSUME LogIsSound, NEW events, Parsed(events), HoldsOneSubmission(events),
           Contract!IsRunStream(events, RunId),
           NEW final \in FinalProposals(events), NEW n \in DOMAIN events, n < final,
           IsList(copyLog), Readmit(events, n)
    PROVE  /\ \E e : copyLog' = Append(copyLog, e) /\ IsStored(e, events[n])
           /\ CopyKnown' = KnownAfter(CopyKnown, log[n])
<1> DEFINE type == events[n].type
           body == events[n].body
           o == EventOptionsFrom(events[n])
           Grown == copyLog' # copyLog
           Follows == CopyKnown' = KnownAfter(CopyKnown, log[n])
<1>1. /\ n \in DOMAIN log /\ IsStored(log[n], events[n])
      /\ IsUntouched(events) /\ IsList(events) /\ events[n].intact = TRUE
  <2>1. IsUntouched(events) /\ IsList(events)
    BY DEF HoldsOneSubmission, Parsed
  <2>2. n \in DOMAIN log /\ IsStored(log[n], events[n]) /\ events[n].intact /\ log[n].wellFormed \in BOOLEAN
    BY <2>1, CutIsStored DEF LogIsSound, IsUntouched, Contract!IsRunStream, TypeOK
  <2>3. events[n].intact \in BOOLEAN
    BY <2>2 DEF IsStored
  <2> QED BY <2>1, <2>2, <2>3
<1>2. /\ log[n].type = type /\ log[n].body = body /\ log[n].id = events[n].id /\ log[n].wellFormed = TRUE
      /\ o.eventId = events[n].id /\ o.causationId = events[n].cause /\ o.wellFormed = TRUE
      /\ o.eventId # Default
  BY <1>1, StoredOptions DEF IsStored, EventOptionsFrom
<1>3. \A e : Append(copyLog, e) # copyLog
  BY AppendToList
<1>4. CopyKnown = [kept |-> copyKept, started |-> copyStarted, revision |-> copyRevision]
  BY DEF CopyKnown
<1> HIDE DEF type, body, o
<1>k. /\ KnownAfter(CopyKnown, log[n]) =
            [kept |-> IF type \in KeptTypes THEN [copyKept EXCEPT ![type] = Append(@, body)] ELSE copyKept,
             started |-> IF type = "RunStarted" THEN events[n].id ELSE copyStarted,
             revision |-> IF type = "MutationCommitted"
                          THEN [copyRevision EXCEPT ![body.stateRef] = body.newRevision] ELSE copyRevision]
      /\ CopyKnown' = [kept |-> copyKept', started |-> copyStarted', revision |-> copyRevision']
  BY <1>2, <1>4 DEF KnownAfter, CopyKnown
<1>r. ASSUME type \in KeptTypes, Copy!RecordEvent(type, body, o),
             copyRevision' = IF type = "MutationCommitted"
                             THEN [copyRevision EXCEPT ![body.stateRef] = body.newRevision] ELSE copyRevision
      PROVE  Grown /\ Follows
  <2> DEFINE e == Copy!NewEvent(type, body, o, Copy!Given(o.causationId, copyStarted))
  <2>1. /\ copyLog' = Append(copyLog, e) /\ copyStarted' = copyStarted
        /\ copyKept' = IF e.wellFormed THEN [copyKept EXCEPT ![type] = Append(@, body)] ELSE copyKept
    BY <1>r, Zenon DEF Copy!RecordEvent
  <2>2. e = [id |-> Copy!Given(o.eventId, Copy!NextEventId(type)), type |-> type,
             cause |-> Copy!Given(o.causationId, copyStarted), body |-> body, wellFormed |-> o.wellFormed]
    BY Zenon DEF Copy!NewEvent
  <2> HIDE DEF e
  <2>3. e.wellFormed = TRUE
    BY <1>2, <2>2
  <2>4. copyKept' = [copyKept EXCEPT ![type] = Append(@, body)]
    BY <2>1, <2>3
  <2>5. type # "RunStarted"
    BY <1>r, UnkeptTypes
  <2>6. Follows
    BY <1>k, <1>r, <2>1, <2>4, <2>5
  <2> QED BY <1>3, <2>1, <2>6
<1>t. \A t \in {"ProposalReceived", "MutationCommitted", "EffectRequested", "EffectReceiptRecorded",
                "ExternalStateObserved", "WritePreflightRequested", "WritePreflightDecided",
                "WriteQuarantined", "ApprovalRequested", "ApprovalGranted", "ApprovalDenied",
                "ApprovalExpired"} : t \in KeptTypes
  BY DEF KeptTypes, Inputs
<1>5. CASE type = "RunStarted" /\ Copy!StartRun(o)
  <2> DEFINE e == Copy!NewEvent("RunStarted", [runId |-> RunId], o, Copy!Given(o.causationId, Null))
  <2>1. /\ copyLog' = Append(copyLog, e) /\ copyKept' = copyKept /\ copyRevision' = copyRevision
        /\ copyStarted' = IF e.wellFormed THEN e.id ELSE Null
    BY <1>5, Zenon DEF Copy!StartRun, Copy!StartEvent
  <2>2. e = [id |-> Copy!Given(o.eventId, Copy!NextEventId("RunStarted")), type |-> "RunStarted",
             cause |-> Copy!Given(o.causationId, Null), body |-> [runId |-> RunId],
             wellFormed |-> o.wellFormed]
    BY Zenon DEF Copy!NewEvent
  <2>3. \A x, d : x # Default => Copy!Given(x, d) = x
    BY DEF Copy!Given
  <2> HIDE DEF e
  <2>4. e.wellFormed = TRUE /\ e.id = events[n].id
    BY <1>2, <2>2, <2>3
  <2>5. type \notin KeptTypes
    BY <1>5, UnkeptTypes
  <2>6. Follows
    BY <1>5, <1>k, <2>1, <2>4, <2>5
  <2> QED BY <1>1, <1>3, <2>1, <2>6, ReadmissionRepeats
<1>6. CASE type = "ProposalReceived" /\ ReplayProposal(body, o)
  <2>1. body.kind # "final_candidate"
    <3>1. n \notin FinalProposals(events)
      BY BeforeTheCandidate
    <3> QED BY <1>6, <3>1 DEF FinalProposals, type, body
  <2>2. Copy!RecordEvent("ProposalReceived", body, o) /\ copyRevision' = copyRevision
    BY <1>6, <2>1, Zenon DEF ReplayProposal, Copy!SubmitToolCommand, Copy!SubmitMutationCommand
  <2> QED BY <1>6, <1>1, <1>r, <1>t, <2>2, ReadmissionRepeats
<1>7. CASE /\ type = "MutationCommitted"
           /\ \E proposal \in MutationProposalBefore(events, n) : Copy!CommitMutation(proposal, o)
  <2>1. PICK proposal \in MutationProposalBefore(events, n) : Copy!CommitMutation(proposal, o)
    BY <1>7
  <2> DEFINE ref == proposal.stateRef
             current == copyRevision[ref]
  <2>2. /\ Copy!RecordEvent("MutationCommitted", Copy!MutationOf(proposal, current), o)
        /\ copyRevision' = [copyRevision EXCEPT ![ref] = current + 1]
    BY <2>1, Zenon DEF Copy!CommitMutation
  <2>3. Copy!MutationOf(proposal, current) = body
    BY <1>1, <1>7, <2>1, CopyCommits DEF type, body
  <2> HIDE DEF current
  <2>4. body.stateRef = ref /\ body.newRevision = current + 1
    BY <2>3 DEF Copy!MutationOf
  <2> HIDE DEF ref
  <2> QED BY <1>1, <1>7, <1>r, <1>t, <2>2, <2>3, <2>4, ReadmissionRepeats
<1>8. CASE \/ type = "EffectRequested" /\ Copy!RecordEffectRequest(body, o)
           \/ type = "WritePreflightRequested" /\ Copy!RecordWritePreflightRequested(body, o)
           \/ type = "WritePreflightDecided" /\ Copy!RecordWritePreflightDecided(body, o)
           \/ type = "WriteQuarantined" /\ Copy!RecordWriteQuarantined(body, o)
  <2>1. Copy!RecordEvent(type, body, o) /\ copyRevision' = copyRevision
    BY <1>8, Zenon DEF Copy!RecordEffectRequest, Copy!RecordWritePreflightRequested,
       Copy!RecordWritePreflightDecided, Copy!RecordWriteQuarantined
  <2> QED BY <1>1, <1>8, <1>r, <1>t, <2>1, ReadmissionRepeats
<1>9. CASE \/ type = "ApprovalRequested" /\ Copy!RecordApprovalRequested(body, o)
           \/ type = "ApprovalGranted" /\ Copy!RecordApprovalGranted(body, o)
           \/ type = "ApprovalDenied" /\ Copy!RecordApprovalDenied(body, o)
           \/ type = "ApprovalExpired" /\ Copy!RecordApprovalExpired(body, o)
  <2>1. Copy!RecordEvent(type, body, o) /\ copyRevision' = copyRevision
    BY <1>9, Zenon DEF Copy!RecordApprovalRequested, Copy!RecordApprovalGranted,
       Copy!RecordApprovalDenied, Copy!RecordApprovalExpired
  <2> QED BY <1>1, <1>9, <1>r, <1>t, <2>1, ReadmissionRepeats
<1>10. CASE \/ type = "EffectReceiptRecorded" /\ Copy!RecordEffectReceipt(body, o)
            \/ type = "ExternalStateObserved" /\ Copy!RecordExternalStateObservation(body, o)
  <2>1. Copy!RecordEvent(type, body, o) /\ copyRevision' = copyRevision
    BY <1>10, Zenon DEF Copy!RecordEffectReceipt, Copy!RecordExternalStateObservation
  <2> QED BY <1>1, <1>10, <1>r, <1>t, <2>1, ReadmissionRepeats
<1>11. \/ type = "RunStarted" /\ Copy!StartRun(o)
       \/ type = "ProposalReceived" /\ ReplayProposal(body, o)
       \/ \/ type = "EffectRequested" /\ Copy!RecordEffectRequest(body, o)
          \/ type = "WritePreflightRequested" /\ Copy!RecordWritePreflightRequested(body, o)
          \/ type = "WritePreflightDecided" /\ Copy!RecordWritePreflightDecided(body, o)
          \/ type = "WriteQuarantined" /\ Copy!RecordWriteQuarantined(body, o)
       \/ \/ type = "ApprovalRequested" /\ Copy!RecordApprovalRequested(body, o)
          \/ type = "ApprovalGranted" /\ Copy!RecordApprovalGranted(body, o)
          \/ type = "ApprovalDenied" /\ Copy!RecordApprovalDenied(body, o)
          \/ type = "ApprovalExpired" /\ Copy!RecordApprovalExpired(body, o)
       \/ /\ type = "MutationCommitted"
          /\ \E proposal \in MutationProposalBefore(events, n) : Copy!CommitMutation(proposal, o)
       \/ \/ type = "EffectReceiptRecorded" /\ Copy!RecordEffectReceipt(body, o)
          \/ type = "ExternalStateObserved" /\ Copy!RecordExternalStateObservation(body, o)
  BY Zenon DEF Readmit, type, body, o
<1> QED BY <1>5, <1>6, <1>7, <1>8, <1>9, <1>10, <1>11

\* The fresh kernel is where the kernel was: it holds what the kernel held before the
\* next event, and knows what it knew.
InStep ==
    HoldsOneSubmission(replay.events) =>
        /\ HoldsUpTo(replay.events, replay.next)
        /\ \E h : IsHistory(h, log, Known) /\ CopyKnown = h[replay.next]

\* A stream that replayRunEvents has no reason to fail.
MustPass(events) ==
    HoldsOneSubmission(events) /\ Contract!IsRunStream(events, RunId) /\ IsDecided(events)

StepInv ==
    /\ replay.at = "idle" => CopyKnown = NothingKnown
    /\ replay.at = "replaying" => InStep
    /\ replay.at = "failed" => ~MustPass(replay.events)

\* Deciding to replay.
LEMMA StartsInStep ==
    ASSUME ReplayInv, StepInv, InputsWereAllowed, NEW events, ReplayRunEvents(events)
    PROVE  StepInv'
<1>1. /\ replay.at = "idle" /\ copyLog = <<>> /\ CopyKnown = NothingKnown
      /\ UNCHANGED <<vars, copyVars>>
  BY DEF ReplayRunEvents, ReplayInv, StepInv
<1>2. \/ \E code : replay' = ReplayFailed(events, code) /\ ~MustPass(events)
      \/ replay' = [at |-> "replaying", events |-> events, next |-> 1, last |-> LastSubmission(events)]
  <2>1. MustPass(events) => /\ events # <<>> /\ Contract!IsRunStream(events, RunId)
                            /\ FinalProposals(events) # {}
                            /\ LastSubmission(events).proof # 0 /\ LastSubmission(events).release # 0
    <3>1. FinalProposals(<<>>) = {}
      BY DEF FinalProposals
    <3> QED BY <3>1 DEF MustPass, IsDecided
  <2> QED BY <2>1 DEF ReplayRunEvents
<1>3. MustPass(events)' <=> MustPass(events)
  BY <1>1 DEF MustPass, HoldsOneSubmission, IsUntouched, IsCutOf, vars
<1>4. CASE \E code : replay' = ReplayFailed(events, code) /\ ~MustPass(events)
  <2>1. replay'.at = "failed" /\ replay'.events = events
    BY <1>4 DEF ReplayFailed
  <2> QED BY <1>3, <1>4, <2>1 DEF StepInv, MustPass, HoldsOneSubmission, IsUntouched
<1>5. CASE replay' = [at |-> "replaying", events |-> events, next |-> 1, last |-> LastSubmission(events)]
  <2>1. replay'.at = "replaying" /\ replay'.events = events /\ replay'.next = 1
    BY <1>5
  <2>2. copyLog' = <<>> /\ CopyKnown' = NothingKnown /\ log' = log /\ Known' = Known
    BY <1>1 DEF copyVars, CopyKnown, vars, Known, NothingKnown
  <2>3. HoldsUpTo(events, 1)'
    <3>1. IsList(copyLog') /\ Len(copyLog') = 0 /\ 1..(1 - 1) = {}
      BY <2>2, EmptyList
    <3> QED BY <3>1 DEF HoldsUpTo
  <2>4. PICK h : IsHistory(h, log, Known)
    BY DEF InputsWereAllowed
  <2>5. h[1] = NothingKnown
    BY <2>4 DEF IsHistory
  <2>6. IsHistory(h, log', Known') /\ CopyKnown' = h[1]
    BY <2>2, <2>4, <2>5
  <2>7. InStep'
    BY <2>1, <2>3, <2>6 DEF InStep, HoldsUpTo
  <2> QED BY <2>1, <2>7 DEF StepInv
<1> QED BY <1>2, <1>4, <1>5

\* An input.
LEMMA StaysInStep ==
    ASSUME LogIsSound, ReplayInv, StepInv, ReplayInput
    PROVE  StepInv'
<1> DEFINE events == replay.events
           n == replay.next
           final == replay.last.final
<1>1. /\ replay.at = "replaying" /\ ReplayGoesOn /\ InStep /\ n < final
      /\ UNCHANGED vars
  BY DEF ReplayInput, ReplayInv, StepInv
<1>2. /\ Parsed(events) /\ IsList(events) /\ Contract!IsRunStream(events, RunId)
      /\ final \in FinalProposals(events) /\ n \in 1..final /\ IsList(copyLog)
      /\ DOMAIN replay = {"at", "events", "next", "last"}
  BY <1>1 DEF ReplayGoesOn, Parsed
<1>3. n \in DOMAIN events /\ n \in Nat /\ n >= 1 /\ final \in DOMAIN events
  <2>1. final \in 1..Len(events) /\ DOMAIN events = 1..Len(events) /\ Len(events) \in Nat
    BY <1>2, ListFacts DEF FinalProposals
  <2> HIDE DEF events, n, final
  <2> QED BY <1>1, <1>2, <2>1
<1>4. Stored(log') = Stored(log) /\ log' = log /\ Known' = Known
  BY <1>1 DEF vars, Known
<1>5. ASSUME HoldsOneSubmission(events)
      PROVE  /\ HoldsUpTo(events, n)
             /\ \E h : IsHistory(h, log, Known) /\ CopyKnown = h[n] /\ MayFollow(CopyKnown, log, n)
                       /\ h[n + 1] = KnownAfter(CopyKnown, log[n])
  <2>1. PICK h : IsHistory(h, log, Known) /\ CopyKnown = h[n]
    BY <1>1, <1>5 DEF InStep
  <2>2. n \in DOMAIN log
    BY <1>2, <1>3, <1>5, CutIsStored DEF LogIsSound, HoldsOneSubmission, IsUntouched
  <2> HIDE DEF n
  <2>3. MayFollow(h[n], log, n) /\ h[n + 1] = KnownAfter(h[n], log[n])
    BY <2>1, <2>2 DEF IsHistory
  <2> QED BY <1>1, <1>5, <2>1, <2>3 DEF InStep, n
<1>6. CASE ~MayBeReadmitted(events, n) /\ replay' = ReplayFailed(events, "event_stream_integrity_failed")
  <2>1. replay'.at = "failed" /\ replay'.events = events
    BY <1>6 DEF ReplayFailed
  <2>2. ~MustPass(events)
    <3> SUFFICES ASSUME HoldsOneSubmission(events) PROVE FALSE
      BY DEF MustPass
    <3>1. HoldsUpTo(events, n) /\ MayFollow(CopyKnown, log, n)
      BY <1>5
    <3> HIDE DEF events, n, final
    <3> QED BY <1>1, <1>2, <1>3, <1>6, <3>1, MayBeReadmittedAgain
  <2> HIDE DEF events
  <2> QED BY <1>4, <2>1, <2>2 DEF StepInv, MustPass, HoldsOneSubmission, IsUntouched
<1>7. CASE Readmit(events, n) /\ replay' = [replay EXCEPT !.next = @ + 1]
  <2> DEFINE r == replay'
  <2>1. r.at = "replaying" /\ r.events = events /\ r.next = n + 1
    BY <1>1, <1>2, <1>7
  <2> HIDE DEF r
  <2>2. ASSUME HoldsOneSubmission(events)
        PROVE  /\ IsList(copyLog') /\ Len(copyLog') = n
               /\ \A i \in 1..n : IsStored(copyLog'[i], events[i])
               /\ \E h : IsHistory(h, log, Known) /\ CopyKnown' = h[n + 1]
    <3> HIDE DEF events, n, final
    <3>1. /\ \E e : copyLog' = Append(copyLog, e) /\ IsStored(e, events[n])
          /\ CopyKnown' = KnownAfter(CopyKnown, log[n])
      BY <1>1, <1>2, <1>3, <1>7, <2>2, ReadmissionFollows
    <3>2. PICK e : copyLog' = Append(copyLog, e) /\ IsStored(e, events[n])
      BY <3>1
    <3>3. /\ Len(copyLog) = n - 1 /\ \A i \in 1..(n - 1) : IsStored(copyLog[i], events[i])
      BY <1>5, <2>2 DEF HoldsUpTo
    <3>4. /\ IsList(copyLog') /\ Len(copyLog') = Len(copyLog) + 1
          /\ \A i \in 1..Len(copyLog) : copyLog'[i] = copyLog[i]
          /\ copyLog'[Len(copyLog) + 1] = e
      BY <1>2, <3>2, AppendToList
    <3>5. Len(copyLog) + 1 = n
      BY <1>3, <3>3
    <3>6. \A i \in 1..n : i = n \/ i \in 1..(n - 1)
      BY <1>3
    <3>7. \A i \in 1..n : IsStored(copyLog'[i], events[i])
      BY <3>2, <3>3, <3>4, <3>5, <3>6
    <3> QED BY <1>5, <2>2, <3>1, <3>4, <3>5, <3>7
  <2>3. (n + 1) - 1 = n
    BY <1>3
  <2>4. InStep'
    <3>1. r.events = events /\ r.next = n + 1 /\ log' = log /\ Known' = Known
      BY <1>4, <2>1
    <3> DEFINE Holds(k) == /\ IsList(copyLog') /\ Len(copyLog') = k - 1
                           /\ \A i \in 1..(k - 1) : IsStored(copyLog'[i], events[i])
               Knows(k) == \E h : IsHistory(h, log, Known) /\ CopyKnown' = h[k]
    <3>2. HoldsOneSubmission(events) => Holds(n + 1) /\ Knows(n + 1)
      BY <2>2, <2>3
    <3> HIDE DEF events, n
    <3>3. HoldsOneSubmission(replay.events)' => HoldsOneSubmission(events)
      BY <1>4, <3>1 DEF HoldsOneSubmission, IsUntouched, r
    <3>4. Holds(n + 1) => HoldsUpTo(replay.events, replay.next)'
      BY <3>1 DEF HoldsUpTo, r
    <3>5. Knows(n + 1) => \E h : IsHistory(h, log', Known') /\ CopyKnown' = h[replay'.next]
      BY <3>1 DEF r
    <3> QED BY <3>2, <3>3, <3>4, <3>5 DEF InStep
  <2> QED BY <2>1, <2>4 DEF StepInv, r
<1> QED BY <1>6, <1>7 DEF ReplayInput

\* The end of the inputs of a stream that must pass.
AtTheCandidate(events, at) ==
    /\ LogIsSound /\ ReplayGoesOn /\ ReplayRepeats /\ MustPass(events)
    /\ events = replay.events /\ at = replay.last /\ replay.next = at.final
    /\ HoldsUpTo(events, at.final)
    /\ MayFollow(CopyKnown, log, at.final)

\* What is known there of the stream.
LEMMA TheCandidate ==
    ASSUME NEW events, NEW at, AtTheCandidate(events, at)
    PROVE  /\ IsList(events) /\ Parsed(events) /\ IsUntouched(events) /\ HoldsOneSubmission(events)
           /\ Len(events) \in Nat /\ DOMAIN events = 1..Len(events)
           /\ at = LastSubmission(events) /\ at.final \in FinalProposals(events)
           /\ at.final \in DOMAIN events /\ at.final \in Nat /\ at.final >= 1
           /\ events[at.final].type = "ProposalReceived"
           /\ events[at.final].body.kind = "final_candidate" /\ events[at.final].body \in FinalCandidates
           /\ DOMAIN events \subseteq DOMAIN log
           /\ \A i \in DOMAIN events : IsStored(log[i], events[i]) /\ events[i].intact = TRUE
           /\ log[at.final].body = events[at.final].body
           /\ Len(copyLog) + 1 = at.final /\ IsList(copyLog) /\ Len(copyLog) \in Nat
<1>1. /\ IsList(events) /\ Parsed(events) /\ IsUntouched(events) /\ HoldsOneSubmission(events)
      /\ at = LastSubmission(events) /\ at.final \in FinalProposals(events)
      /\ IsList(copyLog) /\ Contract!IsRunStream(events, RunId) /\ TypeOK
  BY DEF AtTheCandidate, ReplayGoesOn, Parsed, MustPass, HoldsOneSubmission, LogIsSound
<1>2. /\ Len(events) \in Nat /\ DOMAIN events = 1..Len(events) /\ Len(copyLog) \in Nat
  BY <1>1, ListFacts
<1>3. /\ at.final \in DOMAIN events /\ events[at.final].type = "ProposalReceived"
      /\ events[at.final].body.kind = "final_candidate"
  BY <1>1 DEF FinalProposals
<1>4. at.final \in Nat /\ at.final >= 1
  <2>1. \A x \in 1..Len(events) : x \in Nat /\ x >= 1
    BY <1>2
  <2> QED BY <1>2, <1>3, <2>1
<1>5. events[at.final].body \in FinalCandidates
  <2>1. "ProposalReceived" \in KeptTypes
    BY DEF KeptTypes, Inputs
  <2>2. events[at.final].body \in Inputs["ProposalReceived"]
    BY <1>1, <1>3, <2>1 DEF Parsed
  <2> QED BY <1>3, <2>2, CandidateKind
<1>6. /\ DOMAIN events \subseteq DOMAIN log
      /\ \A i \in DOMAIN events : IsStored(log[i], events[i])
  BY <1>1, CutIsStored DEF IsUntouched
<1>7. ASSUME NEW i \in DOMAIN events PROVE events[i].intact = TRUE
  <2>1. events[i].intact /\ log[i].wellFormed \in BOOLEAN /\ IsStored(log[i], events[i])
    BY <1>1, <1>6 DEF Contract!IsRunStream, TypeOK
  <2>2. events[i].intact \in BOOLEAN
    BY <2>1 DEF IsStored
  <2> QED BY <2>1, <2>2
<1>8. Len(copyLog) + 1 = at.final
  <2>1. Len(copyLog) = at.final - 1
    BY DEF AtTheCandidate, HoldsUpTo
  <2> QED BY <1>4, <2>1
<1>9. log[at.final].body = events[at.final].body
  BY <1>3, <1>6 DEF IsStored
<1> QED BY <1>1, <1>2, <1>3, <1>4, <1>5, <1>6, <1>7, <1>8, <1>9

\* The fresh kernel takes the candidate.
LEMMA CandidateReturns ==
    ASSUME NEW events, NEW at, AtTheCandidate(events, at)
    PROVE  MayBeSubmitted(events, at)
<1> DEFINE final == at.final
           o == StoredFinalOptions(events, at)
           body == events[final].body
<1>1. /\ IsList(events) /\ IsUntouched(events) /\ final \in DOMAIN events
      /\ events[final].type = "ProposalReceived"
      /\ IsStored(log[final], events[final])
  BY TheCandidate
<1>2. /\ LogIsSound /\ Contract!IsRunStream(events, RunId) /\ HoldsUpTo(events, final)
      /\ MayFollow(CopyKnown, log, final)
  BY DEF AtTheCandidate, MustPass
<1>3. log[final].type = "ProposalReceived" /\ log[final].body = body
  BY <1>1 DEF IsStored
<1> HIDE DEF final
<1>4. copyStarted # Null /\ final <= MaxEvents /\ body.runId = RunId
  <2>1. CopyKnown.started = copyStarted
    BY DEF CopyKnown
  <2>2. log[final].type # "RunStarted" /\ log[final].type \notin FinalTypes
    BY <1>3 DEF FinalTypes
  <2> QED BY <1>2, <1>3, <2>1, <2>2 DEF MayFollow, IsAllowed
<1>5. o.eventId = events[final].id /\ o.causationId = events[final].cause
  BY DEF StoredFinalOptions, final
<1> HIDE DEF o, body
<1>6. Copy!CanRecord("ProposalReceived", body, o)
  BY <1>1, <1>2, <1>4, <1>5, CopyCanRecord
<1> QED BY <1>6 DEF MayBeSubmitted, o, body, final

\* The proof of the candidate, from what the fresh kernel kept, at a time, is the kernel's.
LEMMA SameProof ==
    ASSUME NEW events, NEW at, AtTheCandidate(events, at)
    PROVE  CopyProof(events, at) = ProofAt(log, at.final, events[at.proof].body.generatedAt)
<1> DEFINE final == at.final
<1>1. ASSUME NEW type \in EvidenceKept
      PROVE  Elements(copyKept[type]) = ToldIn(log, final, type)
  <2>1. Elements(copyKept[type]) = ToldBefore(events, final, type)
    BY DEF AtTheCandidate, ReplayGoesOn, ReplayKeepsUp
  <2>2. /\ \A j \in DOMAIN events : IsStored(log[j], events[j]) /\ events[j].intact = TRUE
        /\ DOMAIN events = 1..Len(events) /\ Len(events) \in Nat /\ final \in DOMAIN events
    BY TheCandidate
  <2> HIDE DEF final
  <2>3. \A j \in 1..(final - 1) : j \in DOMAIN events
    BY <2>2
  <2>4. \A j \in 1..(final - 1) : /\ log[j].type = events[j].type /\ log[j].body = events[j].body
                                  /\ log[j].wellFormed
    BY <2>2, <2>3 DEF IsStored
  <2>5. ToldIn(log, final, type) = ToldBefore(events, final, type)
    BY <2>4 DEF ToldIn, ToldBefore
  <2> QED BY <2>1, <2>5
<1>2. log[final].body = events[final].body
  BY TheCandidate
<1> QED BY <1>1, <1>2, Zenon DEF ProofAt, CopyProof, EvidenceKept

\* The event at i of the stream, if it belongs to a release, carries out the plan of the
\* candidate for the stored time.
LEMMA StoredPlan ==
    ASSUME NEW events, NEW at, AtTheCandidate(events, at),
           NEW i \in DOMAIN events, events[i].type \in FinalTypes
    PROVE  /\ i >= at.final + 1
           /\ at.proof = at.final + 1 /\ events[at.proof].body.generatedAt # Null
           /\ \A m \in InClaimOrder(CopyProof(events, at).mismatches) :
                 \A k \in (at.final + 1)..i : CarriesPlan(log, at.final, k, CopyProof(events, at), m)
<1> DEFINE final == at.final
           proof == CopyProof(events, at)
           c == events[final].body
<1>1. /\ i \in DOMAIN log /\ log[i].type \in FinalTypes /\ i \in Nat
      /\ final \in Nat /\ log[final].body = c /\ c \in FinalCandidates
      /\ DOMAIN events = 1..Len(events) /\ Len(events) \in Nat
      /\ \A j \in DOMAIN events : IsStored(log[j], events[j])
  <2>1. /\ DOMAIN events \subseteq DOMAIN log /\ IsStored(log[i], events[i])
        /\ final \in Nat /\ log[final].body = c /\ c \in FinalCandidates
        /\ DOMAIN events = 1..Len(events) /\ Len(events) \in Nat
        /\ \A j \in DOMAIN events : IsStored(log[j], events[j])
    BY TheCandidate
  <2> QED BY <2>1 DEF IsStored
<1>2. PICK s \in 1..(i - 1), u \in Times \ {Null} : \E q \in InClaimOrder(ProofAt(log, s, u).mismatches) :
         IsSubmission(log, s, i, u, q)
  BY <1>1 DEF AtTheCandidate, LogIsSound, PlansAreCarriedOut
<1>3. PICK q \in InClaimOrder(ProofAt(log, s, u).mismatches) : IsSubmission(log, s, i, u, q)
  BY <1>2
<1>4. s = final
  <2>1. /\ LogIsSound /\ Parsed(events) /\ HoldsOneSubmission(events) /\ final \in FinalProposals(events)
    BY TheCandidate DEF AtTheCandidate
  <2>2. log[s].type = "ProposalReceived" /\ log[s].body \in FinalCandidates
    BY <1>3 DEF IsSubmission
  <2> HIDE DEF final
  <2> QED BY <2>1, <2>2, BeforeTheCandidate
<1>5. \A k \in (final + 1)..i : CarriesPlan(log, final, k, ProofAt(log, final, u), q)
  BY <1>3, <1>4 DEF IsSubmission
<1> HIDE DEF final
<1>6. i >= final + 1
  BY <1>1, <1>2, <1>4
<1>7. at.proof = final + 1 /\ u = events[at.proof].body.generatedAt
  <2>1. Len(q) \in Nat
    <3> HIDE DEF c
    <3> QED BY <1>1, <1>3, <1>4, ClaimOrderLength DEF ProofAt
  <2>2. /\ final + 1 \in (final + 1)..i /\ final + 1 \notin (final + 2)..(final + Len(q) + 1)
        /\ final + 1 # final + Len(q) + 2 /\ final + 1 # final + Len(q) + 3
    BY <1>1, <1>6, <2>1
  <2>3. CarriesPlan(log, final, final + 1, ProofAt(log, final, u), q)
    BY <1>5, <2>2
  <2>4. log[final + 1].type = "ProofGenerated" /\ log[final + 1].body = ProofAt(log, final, u)
    BY <2>2, <2>3, Zenon DEF CarriesPlan
  <2>5. final + 1 \in DOMAIN events /\ final + 1 > final /\ (final + 1)..((final + 1) - 1) = {}
    BY <1>1, <1>6
  <2>6. events[final + 1].type = "ProofGenerated" /\ log[final + 1].body = events[final + 1].body
    BY <1>1, <2>4, <2>5 DEF IsStored
  <2>7. IsList(events) /\ at.proof = FirstEventAfter(events, final, "ProofGenerated")
    <3>1. IsList(events) /\ at = LastSubmission(events)
      BY TheCandidate
    <3> QED BY <3>1 DEF LastSubmission, final
  <2>8. at.proof = final + 1
    BY <1>1, <2>5, <2>6, <2>7, FirstIs
  <2>9. ProofAt(log, final, u).generatedAt = u
    BY DEF ProofAt, EvaluateProof
  <2> QED BY <2>4, <2>6, <2>8, <2>9
<1>8. ProofAt(log, final, u) = proof
  BY <1>7, SameProof DEF final
<1>9. ASSUME NEW m \in InClaimOrder(proof.mismatches) PROVE q = m
  <2>1. q \in InClaimOrder(proof.mismatches)
    BY <1>3, <1>4, <1>8
  <2> HIDE DEF c
  <2> QED BY <1>1, <1>9, <2>1, ClaimOrderIsUnique DEF CopyProof, c, final
<1> QED BY <1>2, <1>5, <1>6, <1>7, <1>8, <1>9 DEF final

\* What FirstEventAfter finds in a list.
LEMMA FirstIsThere ==
    ASSUME NEW events, IsList(events), NEW i, NEW type, FirstEventAfter(events, i, type) # 0
    PROVE  LET first == FirstEventAfter(events, i, type)
           IN  first \in DOMAIN events /\ events[first].type = type /\ first > i
<1> DEFINE found == EventsAfter(events, i, type)
           first == FirstEventAfter(events, i, type)
<1>1. found # {} /\ first = Earliest(found)
  BY DEF FirstEventAfter
<1>2. found \subseteq Nat
  BY ListFacts DEF EventsAfter
<1> HIDE DEF found, first
<1>3. \E j \in found : \A k \in found : j <= k
  BY <1>1, <1>2, LeastOf
<1>4. first \in found
  BY <1>1, <1>3 DEF Earliest
<1> QED BY <1>4 DEF first, found, EventsAfter

\* The candidate's plan in the fresh kernel is of the types stored behind the candidate.
LEMMA PlanIsMet ==
    ASSUME NEW events, NEW at, AtTheCandidate(events, at),
           NEW m \in InClaimOrder(CopyProof(events, at).mismatches), NEW p,
           IsPlan(p, Len(copyLog) + 1, events[at.final].body, StoredFinalOptions(events, at),
                  CopyProof(events, at), m, CopyProposal(events, at).id)
    PROVE  PlanMeetsStored(events, at, m, p)
<1> DEFINE final == at.final
           proof == CopyProof(events, at)
           c == events[final].body
           n == Len(m)
           decision == DecideRelease(c, proof)
           o == StoredFinalOptions(events, at)
           e == CopyProposal(events, at)
           N == Len(copyLog) + 1
<1>1. /\ IsList(events) /\ final \in Nat /\ c \in FinalCandidates
      /\ at = LastSubmission(events) /\ final \in DOMAIN events
      /\ DOMAIN events = 1..Len(events) /\ Len(events) \in Nat
      /\ \A j \in DOMAIN events : IsStored(log[j], events[j])
      /\ log[final].body = c /\ IsUntouched(events)
      /\ N = final
  BY TheCandidate
<1>2. /\ LogIsSound /\ ReplayGoesOn /\ ReplayRepeats
      /\ events = replay.events /\ at = replay.last /\ replay.next = final
      /\ IsDecided(events)
  BY DEF AtTheCandidate, MustPass
<1>3. n \in Nat
  <2> HIDE DEF c
  <2> QED BY <1>1, ClaimOrderLength DEF CopyProof, c
<1>4. /\ at.proof = FirstEventAfter(events, final, "ProofGenerated")
      /\ at.release = FirstEventAfter(events, at.proof, "ReleaseDecided")
      /\ at.released = FirstEventAfter(events, at.release, "FinalReleased")
  BY <1>1 DEF LastSubmission
<1>5. at.release \in DOMAIN events /\ events[at.release].type = "ReleaseDecided"
  <2>1. at.release # 0
    BY <1>1, <1>2 DEF IsDecided
  <2> QED BY <1>1, <1>4, <2>1, FirstIsThere
<1>6. ASSUME NEW i \in DOMAIN events, events[i].type \in FinalTypes
      PROVE  i \in Nat /\ i >= final + 1 /\ \A k \in (final + 1)..i : CarriesPlan(log, final, k, proof, m)
  <2>1. i \in Nat
    BY <1>1
  <2> QED BY <1>6, <2>1, StoredPlan
<1>7. \A k \in DOMAIN events : events[k].type = log[k].type /\ events[k].body = log[k].body
  BY <1>1 DEF IsStored
<1>8. IsPlan(p, N, c, o, proof, m, e.id)
  OBVIOUS
<1>9. /\ Len(p) = IF decision.status = "released" THEN n + 3 ELSE n + 2
      /\ p[1].type = "ProofGenerated"
      /\ \A i \in 1..n : p[1 + i].type = "MismatchDetected"
      /\ p[n + 2].type = "ReleaseDecided"
      /\ Len(p) = n + 3 => p[n + 3].type = "FinalReleased"
  <2>1. Len(p) = IF decision.status = "released" THEN n + 3 ELSE n + 2
    BY <1>8, Zenon DEF IsPlan, n, decision
  <2> HIDE DEF proof, c, o, e, N
  <2> QED BY <1>3, <1>8, <2>1, PlanTypes
<1> HIDE DEF final, proof, c, n, decision, o, e, N
<1>10. /\ at.release = final + n + 2
       /\ \A k \in (final + 1)..at.release : CarriesPlan(log, final, k, proof, m)
       /\ at.release >= final + 1 /\ at.release \in Nat
  <2>1. "ReleaseDecided" \in FinalTypes
    BY DEF FinalTypes
  <2>2. /\ \A k \in (final + 1)..at.release : CarriesPlan(log, final, k, proof, m)
        /\ at.release >= final + 1 /\ at.release \in Nat
    BY <1>5, <1>6, <2>1
  <2>3. CarriesPlan(log, final, at.release, proof, m)
    BY <1>1, <2>2
  <2>4. log[at.release].type = "ReleaseDecided"
    BY <1>5, <1>7
  <2>5. at.release = final + n + 2
    BY <2>3, <2>4, Zenon DEF CarriesPlan, n
  <2> QED BY <2>2, <2>5
<1>11. \A k \in (final + 1)..(final + n + 2) : k \in DOMAIN events /\ CarriesPlan(log, final, k, proof, m)
  <2>1. final + n + 2 \in 1..Len(events)
    BY <1>1, <1>5, <1>10
  <2> QED BY <1>1, <1>3, <1>10, <2>1
<1>12. events[final + n + 2].body = decision /\ events[final + n + 2].type = "ReleaseDecided"
  <2>1. /\ final + n + 2 \in (final + 1)..(final + n + 2)
    BY <1>1, <1>3
  <2>2. CarriesPlan(log, final, final + n + 2, proof, m) /\ log[final + n + 2].type = "ReleaseDecided"
    BY <1>5, <1>7, <1>10, <1>11, <2>1
  <2>3. log[final + n + 2].body = DecideRelease(log[final].body, proof)
    BY <2>2, Zenon DEF CarriesPlan, n
  <2> QED BY <1>1, <1>7, <1>11, <2>1, <2>2, <2>3 DEF decision
<1>13. events[final + 1].type = "ProofGenerated"
  <2>1. /\ final + 1 \in (final + 1)..(final + n + 2) /\ final + 1 \notin (final + 2)..(final + n + 1)
        /\ final + 1 # final + n + 2 /\ final + 1 # final + n + 3
    BY <1>1, <1>3
  <2>2. CarriesPlan(log, final, final + 1, proof, m) /\ final + 1 \in DOMAIN events
    BY <1>11, <2>1
  <2>3. log[final + 1].type = "ProofGenerated"
    BY <2>1, <2>2, Zenon DEF CarriesPlan, n
  <2> QED BY <1>7, <2>2, <2>3
<1>14. ASSUME NEW i \in 1..n PROVE events[final + (1 + i)].type = "MismatchDetected"
  <2> DEFINE k == final + (1 + i)
  <2>1. /\ k \in (final + 1)..(final + n + 2) /\ k # final + 1
        /\ k # final + n + 2 /\ k # final + n + 3
    BY <1>1, <1>3
  <2> HIDE DEF k
  <2>2. CarriesPlan(log, final, k, proof, m) /\ k \in DOMAIN events
    BY <1>11, <2>1
  <2>3. log[k].type = "MismatchDetected"
    BY <2>1, <2>2, Zenon DEF CarriesPlan, n
  <2> QED BY <1>7, <2>2, <2>3 DEF k
<1>15. ASSUME decision.status = "released"
       PROVE  final + (n + 3) \in DOMAIN events /\ events[final + (n + 3)].type = "FinalReleased"
  <2>1. at.released # 0
    BY <1>1, <1>2, <1>10, <1>12, <1>15 DEF IsDecided
  <2>2. at.released \in DOMAIN events /\ events[at.released].type = "FinalReleased"
    BY <1>1, <1>4, <2>1, FirstIsThere
  <2>3. "FinalReleased" \in FinalTypes
    BY DEF FinalTypes
  <2>4. /\ \A k \in (final + 1)..at.released : CarriesPlan(log, final, k, proof, m)
        /\ at.released >= final + 1 /\ at.released \in Nat
    BY <1>6, <2>2, <2>3
  <2>5. CarriesPlan(log, final, at.released, proof, m) /\ log[at.released].type = "FinalReleased"
    BY <1>1, <1>7, <2>2, <2>4
  <2>6. at.released = final + n + 3
    BY <2>5, Zenon DEF CarriesPlan, n
  <2>7. final + n + 3 = final + (n + 3)
    BY <1>1, <1>3
  <2> QED BY <2>2, <2>6, <2>7
<1>16. Len(p) \in {n + 2, n + 3} /\ (Len(p) = n + 3 => decision.status = "released") /\ Len(p) \in Nat
  <2> DEFINE l == Len(p)
  <2>1. l = IF decision.status = "released" THEN n + 3 ELSE n + 2
    BY <1>9
  <2> HIDE DEF l
  <2> QED BY <1>3, <2>1 DEF l
<1>17. final + (n + 2) = final + n + 2 /\ final + (n + 2) \in DOMAIN events
  <2>1. final + (n + 2) = final + n + 2 /\ final + n + 2 \in (final + 1)..(final + n + 2)
    BY <1>1, <1>3
  <2> QED BY <1>11, <2>1
<1>18. final + Len(p) \in DOMAIN events
  BY <1>15, <1>16, <1>17
<1>19. ASSUME NEW h \in 1..Len(p) PROVE events[final + h].type = p[h].type
  <2>1. h = 1 \/ h - 1 \in 1..n \/ h = n + 2 \/ (h = n + 3 /\ Len(p) = n + 3)
    BY <1>3, <1>16
  <2>2. CASE h = 1
    BY <1>9, <1>13, <2>2
  <2>3. CASE h - 1 \in 1..n
    <3>1. 1 + (h - 1) = h
      BY <1>16
    <3> QED BY <1>9, <1>14, <2>3, <3>1
  <2>4. CASE h = n + 2
    BY <1>9, <1>12, <1>17, <2>4
  <2>5. CASE h = n + 3 /\ Len(p) = n + 3
    BY <1>9, <1>15, <1>16, <2>5
  <2> QED BY <2>1, <2>2, <2>3, <2>4, <2>5
<1>20. /\ events[at.final].body \in FinalCandidates
       /\ m \in InClaimOrder(CopyProof(events, at).mismatches) /\ Len(m) \in Nat
       /\ Len(copyLog) + 1 = at.final
       /\ at.final \in DOMAIN events /\ at.final \in Nat /\ at.final + Len(p) \in DOMAIN events
       /\ \A h \in 1..Len(p) : events[at.final + h].type = p[h].type
  BY <1>1, <1>3, <1>18, <1>19 DEF final, n, c, N, proof
<1>21. IsUntouched(events) /\ replay.next = at.final
  BY <1>1, <1>2 DEF final
<1> QED BY <1>2, <1>20, <1>21, Zenon DEF PlanMeetsStored

\* No id of the plan is taken before it.
LEMMA PlanIsAppendable ==
    ASSUME NEW events, NEW at, AtTheCandidate(events, at), NEW m, NEW p,
           PlanMeetsStored(events, at, m, p), NEW h \in 1..Len(p), Len(p) \in Nat
    PROVE  Copy!Appendable(Append(copyLog, CopyProposal(events, at)), p, h)
<1> DEFINE final == at.final
           e == CopyProposal(events, at)
           before == Append(copyLog, e)
<1>1. /\ IsList(copyLog) /\ final \in Nat /\ Len(copyLog) + 1 = final /\ Len(copyLog) \in Nat
      /\ final \in DOMAIN events /\ events[final].type = "ProposalReceived"
      /\ DOMAIN events \subseteq DOMAIN log
      /\ DOMAIN events = 1..Len(events) /\ Len(events) \in Nat
      /\ \A i \in DOMAIN events : IsStored(log[i], events[i])
  BY TheCandidate
<1>2. \A i \in 1..(final - 1) : copyLog[i].id = events[i].id
  BY DEF AtTheCandidate, HoldsUpTo, IsStored
<1>3. e.id = events[final].id
  <2>1. log[final].id # Default /\ log[final].cause # Default
    BY <1>1, StoredOptions DEF AtTheCandidate
  <2>2. IsStored(e, events[final])
    BY <1>1, <2>1, ProposalIsStored DEF IsStored
  <2> QED BY <2>2 DEF IsStored
<1>4. \A i \in 1..Len(p) : p[i].id = events[final + i].id /\ p[i].type = events[final + i].type
  BY PlanIsStored DEF IsStored
<1>5. final + Len(p) \in DOMAIN events
  BY DEF PlanMeetsStored
<1>6. \A i, j \in DOMAIN events : i < j => events[i].id # events[j].id
  <2>1. Contract!IsRunStream(events, RunId)
    BY DEF AtTheCandidate, MustPass
  <2>2. ASSUME NEW i \in DOMAIN events, NEW j \in DOMAIN events, i < j PROVE events[i].id # events[j].id
    <3>1. i \in 1..(j - 1)
      BY <1>1, <2>2
    <3> QED BY <2>1, <3>1 DEF Contract!IsRunStream
  <2> QED BY <2>2
<1>7. /\ IsList(before) /\ DOMAIN before = 1..final
      /\ \A i \in 1..(final - 1) : before[i] = copyLog[i]
      /\ before[final] = e
  <2>1. /\ IsList(before) /\ DOMAIN before = 1..(Len(copyLog) + 1)
        /\ \A i \in 1..Len(copyLog) : before[i] = copyLog[i]
        /\ before[Len(copyLog) + 1] = e
    BY <1>1, AppendToList
  <2>2. Len(copyLog) = final - 1
    BY <1>1
  <2> QED BY <1>1, <2>1, <2>2
<1> HIDE DEF before, e, final
<1>8. \A i \in 1..final : before[i].id = events[i].id
  <2>1. \A i \in 1..final : i = final \/ i \in 1..(final - 1)
    BY <1>1
  <2> QED BY <1>2, <1>3, <1>7, <2>1
<1>9. \A i \in 1..Len(p) : final + i \in DOMAIN events /\ final + i > final
  BY <1>1, <1>5
<1>10. \A i \in 1..final : i \in DOMAIN events
  BY <1>1
<1>11. p[h].id \notin Copy!IdsOf(before)
  <2>1. ASSUME NEW i \in 1..final PROVE before[i].id # p[h].id
    <3>1. i \in DOMAIN events /\ final + h \in DOMAIN events /\ i < final + h
      BY <1>1, <1>9, <1>10
    <3> QED BY <1>4, <1>6, <1>8, <3>1
  <2> QED BY <1>7, <2>1 DEF Copy!IdsOf
<1>12. \A j \in 1..(h - 1) : p[j].id # p[h].id
  <2>1. ASSUME NEW j \in 1..(h - 1) PROVE p[j].id # p[h].id
    <3>1. j \in 1..Len(p) /\ final + j < final + h
      BY <1>1
    <3>2. final + j \in DOMAIN events /\ final + h \in DOMAIN events
      BY <1>9, <3>1
    <3> QED BY <1>4, <1>6, <3>1, <3>2
  <2> QED BY <2>1
<1>13. p[h].id # Null
  <2>1. final + h \in DOMAIN log /\ IsStored(log[final + h], events[final + h])
    BY <1>1, <1>9
  <2>2. p[h].type \in FinalTypes
    <3>1. /\ Len(m) \in Nat
          /\ IsPlan(p, Len(copyLog) + 1, events[final].body, StoredFinalOptions(events, at),
                    CopyProof(events, at), m, CopyProposal(events, at).id)
      BY Zenon DEF PlanMeetsStored, final
    <3> QED BY <3>1, PlanTypes
  <2>3. log[final + h].id # Null
    BY <1>4, <2>1, <2>2 DEF AtTheCandidate, LogIsSound, EventsAreNamed, IsStored
  <2> QED BY <1>4, <2>1, <2>3 DEF IsStored
<1> QED BY <1>11, <1>12, <1>13 DEF Copy!Appendable, before, e

\* So the whole plan is carried out.
LEMMA CandidateIsCarriedOut ==
    ASSUME NEW events, NEW at, AtTheCandidate(events, at), SubmitStored(events, at)
    PROVE  \E m, p : /\ IsResubmission(copyLog', events[at.final].body, StoredFinalOptions(events, at),
                                       CopyProof(events, at), CopyProposal(events, at), m, p)
                     /\ PlanMeetsStored(events, at, m, p)
<1> DEFINE c == events[at.final].body
           o == StoredFinalOptions(events, at)
           proof == CopyProof(events, at)
           e == CopyProposal(events, at)
           t == events[at.proof].body.generatedAt
           after == copyLog'
<1>1. IsList(copyLog) /\ c \in FinalCandidates /\ events[at.final].intact = TRUE
  BY TheCandidate
<1>2. t # Null
  <2>1. IsList(events) /\ at = LastSubmission(events)
    BY TheCandidate
  <2>2. at.release = FirstEventAfter(events, at.proof, "ReleaseDecided") /\ at.release # 0
    BY <2>1 DEF LastSubmission, AtTheCandidate, MustPass, IsDecided
  <2>3. at.release \in DOMAIN events /\ events[at.release].type = "ReleaseDecided"
    BY <2>1, <2>2, FirstIsThere
  <2>4. "ReleaseDecided" \in FinalTypes
    BY DEF FinalTypes
  <2> QED BY <2>3, <2>4, StoredPlan
<1>3. \/ /\ after = Append(copyLog, e)
         /\ ~(events[at.final].intact /\ t # Null)
      \/ \E m, p, k : ResubmittedUpTo(after, c, o, proof, e, m, p, k)
  BY <1>1, ResubmissionAppends
<1> HIDE DEF c, o, proof, e, t, after
<1>4. PICK m, p, k : ResubmittedUpTo(after, c, o, proof, e, m, p, k)
  BY <1>1, <1>2, <1>3
<1>5. /\ m \in InClaimOrder(proof.mismatches) /\ IsPlan(p, Len(copyLog) + 1, c, o, proof, m, e.id)
      /\ k \in 0..Len(p) /\ Len(p) \in Nat
      /\ k < Len(p) => ~Copy!Appendable(Append(copyLog, e), p, k + 1)
  BY <1>4 DEF ResubmittedUpTo
<1>6. PlanMeetsStored(events, at, m, p)
  BY <1>5, PlanIsMet DEF c, o, proof, e
<1>7. k = Len(p)
  <2>1. k < Len(p) => k + 1 \in 1..Len(p)
    BY <1>5
  <2>2. \A h \in 1..Len(p) : Copy!Appendable(Append(copyLog, e), p, h)
    BY <1>5, <1>6, PlanIsAppendable DEF e
  <2>3. ~(k < Len(p))
    BY <1>5, <2>1, <2>2
  <2> QED BY <1>5, <2>3
<1>8. IsResubmission(after, c, o, proof, e, m, p)
  BY <1>4, <1>7 DEF ResubmittedUpTo, IsResubmission
<1> QED BY <1>6, <1>8 DEF c, o, proof, e, after

\* The resubmission of what must pass returns, with the stored outcome.
LEMMA OutcomeIsStored ==
    ASSUME NEW events, NEW at, AtTheCandidate(events, at), SubmitStored(events, at)
    PROVE  Submitted(copyLog') /\ SameOutcome(events, at, copyLog')
<1> DEFINE after == copyLog'
           final == at.final
           c == events[final].body
           o == StoredFinalOptions(events, at)
           proof == CopyProof(events, at)
           e == CopyProposal(events, at)
           decision == DecideRelease(c, proof)
<1>1. PICK m, p : IsResubmission(after, c, o, proof, e, m, p) /\ PlanMeetsStored(events, at, m, p)
  BY CandidateIsCarriedOut
<1>2. /\ IsList(copyLog) /\ c \in FinalCandidates /\ final \in Nat /\ final >= 1
      /\ events[final].type = "ProposalReceived" /\ final \in DOMAIN events
      /\ DOMAIN events = 1..Len(events) /\ Len(events) \in Nat
      /\ Len(copyLog) + 1 = final
  BY TheCandidate
<1> DEFINE n == Len(m)
           K == final + Len(p)
<1>3. /\ n \in Nat /\ Len(p) \in Nat /\ Len(after) = K /\ DOMAIN after = 1..K
      /\ \A i \in 1..(final - 1) : after[i] = copyLog[i]
      /\ after[final] = e
      /\ \A i \in 1..Len(p) : after[final + i] = p[i]
      /\ IsPlan(p, final, c, o, proof, m, e.id)
  BY <1>1, <1>2, Zenon DEF IsResubmission
<1>4. /\ at.proof = final + 1 /\ at.release = final + n + 2
  BY <1>1, SamePlanLogged
<1>5. \A h \in 1..Len(p) : IsStored(p[h], events[final + h])
  BY <1>1, PlanIsStored
<1>6. K \in DOMAIN events
  BY <1>1 DEF PlanMeetsStored
<1>7. \A i \in 1..(final - 1) : copyLog[i].type = events[i].type /\ events[i].type \notin FinalTypes
  BY DEF AtTheCandidate, HoldsUpTo, ReplayRepeats, IsStored
<1>8. e.type = "ProposalReceived"
  BY DEF CopyProposal, Copy!NewEvent
<1>9. /\ Len(p) = IF decision.status = "released" THEN n + 3 ELSE n + 2
      /\ p[1].type = "ProofGenerated"
      /\ \A i \in 1..n : p[1 + i].type = "MismatchDetected"
      /\ p[n + 2].type = "ReleaseDecided" /\ p[n + 2].body = decision
      /\ Len(p) = n + 3 => p[n + 3].type = "FinalReleased"
  <2>1. Len(p) = IF decision.status = "released" THEN n + 3 ELSE n + 2
    BY <1>3, Zenon DEF IsPlan, decision
  <2> HIDE DEF proof, c, o, e, K, final, after
  <2> QED BY <1>3, <2>1, PlanTypes DEF decision
<1> HIDE DEF decision, o, e, after, n, K
<1>10. /\ Len(p) \in {n + 2, n + 3} /\ (Len(p) = n + 3 <=> decision.status = "released")
       /\ Len(p) \in 1..Len(p) /\ n + 2 \in 1..Len(p) /\ 1 \in 1..Len(p)
  <2> DEFINE l == Len(p)
  <2>1. l = IF decision.status = "released" THEN n + 3 ELSE n + 2
    BY <1>9
  <2> HIDE DEF l
  <2> QED BY <1>3, <2>1 DEF l
<1>11. Submitted(after)
  <2>1. after[Len(after)] = p[Len(p)]
    BY <1>3, <1>10 DEF K
  <2>2. CASE Len(p) = n + 3
    BY <1>9, <2>1, <2>2 DEF Submitted
  <2>3. CASE Len(p) = n + 2
    <3>1. decision.status # "released"
      BY <1>3, <1>10, <2>3
    <3> QED BY <1>9, <2>1, <2>3, <3>1 DEF Submitted
  <2> QED BY <1>10, <2>2, <2>3
<1>12. Len(after) <= Len(events)
  BY <1>2, <1>3, <1>6
<1>13. ASSUME NEW i \in DOMAIN after PROVE after[i].type = events[i].type
  <2>1. CASE i \in 1..(final - 1)
    BY <1>3, <1>7, <2>1
  <2>2. CASE i = final
    BY <1>2, <1>3, <1>8, <2>2
  <2>3. CASE i \notin 1..final
    <3>1. i - final \in 1..Len(p) /\ final + (i - final) = i
      BY <1>2, <1>3, <2>3 DEF K
    <3> QED BY <1>3, <1>5, <3>1 DEF IsStored
  <2> QED BY <1>2, <1>3, <2>1, <2>2, <2>3
<1>14. events[at.release].body = decision
  <2>1. final + (n + 2) = final + n + 2
    BY <1>2, <1>3
  <2> QED BY <1>4, <1>5, <1>9, <1>10, <2>1 DEF IsStored
<1>15. BodyOfLast(after, "ReleaseDecided") = decision
  BY <1>2, <1>11, ResubmissionDecides DEF after, decision
<1>16. BodyOfLast(after, "ProofGenerated") = events[at.proof].body
  <2> DEFINE found == EventsAfter(after, 0, "ProofGenerated")
  <2>1. final + 1 \in DOMAIN after /\ after[final + 1] = p[1] /\ final + 1 > 0
    <3>1. after[final + 1] = p[1]
      BY <1>3, <1>10
    <3>2. final \in Nat /\ n \in Nat /\ K = final + Len(p) /\ Len(p) \in {n + 2, n + 3}
      BY <1>2, <1>3, <1>10 DEF K
    <3> HIDE DEF final
    <3>3. final + 1 \in 1..K /\ final + 1 > 0
      BY <3>2
    <3> QED BY <1>3, <3>1, <3>3
  <2>2. ASSUME NEW j \in found PROVE j = final + 1
    <3>1. j \in 1..K /\ after[j].type = "ProofGenerated" /\ K \in Nat
      BY <1>2, <1>3 DEF EventsAfter, K
    <3>2. j \notin 1..(final - 1)
      BY <1>3, <1>7, <3>1 DEF FinalTypes
    <3>3. j # final
      BY <1>3, <1>8, <3>1
    <3>4. j - final \in 1..Len(p) /\ final + (j - final) = j
      BY <1>2, <1>3, <3>1, <3>2, <3>3 DEF K
    <3> DEFINE h == j - final
    <3>5. p[h].type = "ProofGenerated" /\ h \in 1..Len(p)
      BY <1>3, <3>1, <3>4
    <3> HIDE DEF h
    <3>6. h = 1 \/ h - 1 \in 1..n \/ h = n + 2 \/ (h = n + 3 /\ Len(p) = n + 3)
      BY <1>3, <1>10, <3>5
    <3>7. h - 1 \in 1..n => p[h].type = "MismatchDetected"
      <4>1. 1 + (h - 1) = h
        BY <1>3, <3>5
      <4> QED BY <1>9, <4>1
    <3>8. h = 1
      BY <1>9, <3>5, <3>6, <3>7
    <3> QED BY <3>4, <3>8 DEF h
  <2>3. final + 1 \in found
    BY <1>9, <2>1 DEF EventsAfter
  <2> HIDE DEF found
  <2>4. Latest(found) = final + 1
    <3>1. \A j \in found : j <= final + 1
      BY <1>2, <2>2
    <3> QED BY <2>2, <2>3, <3>1 DEF Latest
  <2>5. p[1].body = events[final + 1].body
    BY <1>5, <1>10 DEF IsStored
  <2> QED BY <1>4, <2>1, <2>4, <2>5 DEF BodyOfLast, found
<1>17. SameOutcome(events, at, after)
  BY <1>12, <1>13, <1>14, <1>15, <1>16 DEF SameOutcome
<1> QED BY <1>11, <1>17 DEF after

\* The end.
LEMMA EndsRightly ==
    ASSUME LogIsSound, ReplayInv, RepeatInv, StepInv, ReplayFinalCandidate
    PROVE  StepInv'
<1> PICK events : events = replay.events
  OBVIOUS
<1> PICK at : at = replay.last
  OBVIOUS
<1>1. /\ replay.at = "replaying" /\ ReplayGoesOn /\ ReplayRepeats /\ InStep
      /\ replay.next = at.final /\ UNCHANGED vars
  BY DEF ReplayFinalCandidate, ReplayInv, RepeatInv, StepInv
<1>2. MustPass(events) => AtTheCandidate(events, at)
  <2> SUFFICES ASSUME MustPass(events) PROVE AtTheCandidate(events, at)
    OBVIOUS
  <2>1. HoldsOneSubmission(events) /\ IsUntouched(events)
    BY DEF MustPass, HoldsOneSubmission
  <2>2. HoldsUpTo(events, at.final)
    BY <1>1, <2>1 DEF InStep
  <2>3. PICK h : IsHistory(h, log, Known) /\ CopyKnown = h[at.final]
    BY <1>1, <2>1 DEF InStep
  <2>4. at.final \in DOMAIN events /\ IsList(events)
    BY <1>1 DEF ReplayGoesOn, FinalProposals, Parsed
  <2>5. at.final \in DOMAIN log
    BY <2>1, <2>4, CutIsStored DEF LogIsSound, IsUntouched
  <2>6. MayFollow(CopyKnown, log, at.final)
    BY <2>3, <2>5 DEF IsHistory
  <2> QED BY <1>1, <2>2, <2>6 DEF AtTheCandidate
<1>3. \/ \E code : replay' = ReplayFailed(events, code) /\ ~(Submitted(copyLog') /\ SameOutcome(events, at, copyLog'))
                   /\ SubmitStored(events, at)
      \/ replay' = [at |-> "passed", events |-> events]
      \/ ~MayBeSubmitted(events, at) /\ \E code : replay' = ReplayFailed(events, code)
  BY Zenon DEF ReplayFinalCandidate
<1>4. CASE replay' = [at |-> "passed", events |-> events]
  <2>1. replay'.at = "passed"
    BY <1>4
  <2> QED BY <2>1 DEF StepInv
<1>5. ASSUME NEW code, replay' = ReplayFailed(events, code), ~MustPass(events) PROVE StepInv'
  <2>1. replay'.at = "failed" /\ replay'.events = events
    BY <1>5 DEF ReplayFailed
  <2>2. log' = log
    BY <1>1 DEF vars
  <2> QED BY <1>5, <2>1, <2>2 DEF StepInv, MustPass, HoldsOneSubmission, IsUntouched, IsCutOf
<1> QED BY <1>2, <1>3, <1>4, <1>5, OutcomeIsStored, CandidateReturns

\* The replay keeps in step with the run.
LEMMA ReplayStaysInStep == HistorySpec => []StepInv
<1>1. HistoryInit => StepInv
  <2> SUFFICES ASSUME HistoryInit PROVE StepInv
    OBVIOUS
  <2>1. replay.at = "idle"
    BY DEF HistoryInit
  <2>2. CopyKnown = NothingKnown
    BY DEF HistoryInit, Copy!Init, CopyKnown, NothingKnown, Copy!KeptTypes, Copy!Inputs, KeptTypes, Inputs
  <2> QED BY <2>1, <2>2 DEF StepInv
<1>2. LogIsSound /\ InputsWereAllowed /\ ReplayInv /\ RepeatInv /\ StepInv /\ [HistoryNext]_historyVars => StepInv'
  <2> SUFFICES ASSUME LogIsSound, InputsWereAllowed, ReplayInv, RepeatInv, StepInv, [HistoryNext]_historyVars
               PROVE  StepInv'
    OBVIOUS
  <2>1. CASE UNCHANGED historyVars
    BY <2>1 DEF historyVars, vars, copyVars, StepInv, InStep, HoldsUpTo, MustPass, HoldsOneSubmission,
                IsUntouched, IsCutOf, Stored, CopyKnown, Known, IsHistory
  <2>2. CASE replay.at = "idle" /\ UNCHANGED <<copyVars, replay>>
    BY <2>2 DEF StepInv, CopyKnown, copyVars, NothingKnown
  <2>3. CASE \E events \in Readable(Stored(log)) : ReplayRunEvents(events)
    BY <2>3, StartsInStep
  <2>4. CASE ReplayInput
    BY <2>4, StaysInStep
  <2>5. CASE ReplayFinalCandidate
    BY <2>5, EndsRightly
  <2> QED BY <2>1, <2>2, <2>3, <2>4, <2>5 DEF HistoryNext
<1>4. TypeOK /\ Mirrored /\ LogIntegrity /\ EventsAreNamed /\ PlansAreCarriedOut
      /\ CommitsWereProposed /\ MutationsAreSerial => LogIsSound
  BY DEF LogIsSound
<1> QED BY <1>1, <1>2, <1>4, ReplayHolds, RepetitionHolds, InputsAreAllowed, HistoriesAreRuns, TypeCorrect,
           ListsMirrorLog, LogStaysIntact, EventsStayNamed, SubmissionsFollowPlans, CommitsAreProposed,
           CommitsAreSerial, PTL DEF HistorySpec

\* Replay decides rightly (replayRunEvents): a replay that passes vouches for the stored
\* decision, in any stream; of a stream nobody touched it has repeated the run; and such
\* a stream that holds one submission, carried through, passes.
THEOREM ReplaysDecideRightly == HistorySpec => []ReplayDecidesRightly
<1>1. PassesVouch /\ PassesRepeat /\ StepInv => ReplayDecidesRightly
  BY DEF ReplayDecidesRightly, StepInv, MustPass, HoldsOneSubmission, IsUntouched
<1> QED BY <1>1, PassingReplaysVouch, PassingReplaysRepeat, ReplayStaysInStep, PTL
=============================================================================
