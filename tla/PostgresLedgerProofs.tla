------------------------ MODULE PostgresLedgerProofs ------------------------
(***************************************************************************)
(* Proofs about the Postgres adapter whose callers each have a client of   *)
(* their own: for any callers, runs and events, and wherever connections   *)
(* break, the table implements the abstract ledger.                        *)
(***************************************************************************)
EXTENDS PostgresLedgerProperties, TLAPS, FiniteSetTheorems, SequenceTheorems

\* No two callers share a connection.
OwnClients == \A c, d \in Callers : ClientOf[c] = ClientOf[d] => c = d

\* ------------------------------------------------------------------------
\* Rows in order

\* The rows of a set, each at the place its sequence number says.
IsListing(f, set) ==
    /\ f \in Seq(set)
    /\ \A i \in 1..Len(f) : f[i].sequence = i
    /\ \A e \in set : \E i \in 1..Len(f) : f[i] = e

\* The SELECT returns such a listing, when there is one.
LEMMA ListingIsInOrder ==
    ASSUME NEW f, NEW set, IsListing(f, set)
    PROVE  InOrder(set) = f
<1> DEFINE n == Len(f)
           before(e) == {g \in set : g.sequence < e.sequence}
<1>1. /\ n \in Nat /\ f \in [1..n -> set]
      /\ \A i \in 1..n : f[i].sequence = i
      /\ \A e \in set : \E i \in 1..n : f[i] = e
  BY DEF IsListing
<1> HIDE DEF n
<1>2. ASSUME NEW m \in 0..n
      PROVE  /\ IsFiniteSet({g \in set : g.sequence < m + 1})
             /\ Cardinality({g \in set : g.sequence < m + 1}) = m
  <2> DEFINE T == {g \in set : g.sequence < m + 1}
             h == [i \in 1..m |-> f[i]]
  <2>1. h \in [1..m -> T]
    BY <1>1
  <2>2. \A i, j \in 1..m : h[i] = h[j] => i = j
    BY <1>1
  <2>3. ASSUME NEW g \in T PROVE \E i \in 1..m : h[i] = g
    <3>1. PICK i \in 1..n : f[i] = g
      BY <1>1
    <3>2. i \in 1..m
      BY <3>1, <1>1
    <3> QED BY <3>1, <3>2
  <2> HIDE DEF h, T
  <2>4. h \in Bijection(1..m, T)
    BY <2>1, <2>2, <2>3 DEF Bijection, Injection, Surjection, IsInjective
  <2>5. ExistsBijection(1..m, T)
    BY <2>4 DEF ExistsBijection
  <2>6. IsFiniteSet(1..m) /\ Cardinality(1..m) = m
    BY <1>1, FS_Interval
  <2>7. IsFiniteSet(T) /\ Cardinality(T) = m
    BY <2>5, <2>6, FS_Bijection
  <2> QED BY <2>7 DEF T
<1>3. Cardinality(set) = n
  <2>1. \A g \in set : g.sequence < n + 1
    BY <1>1
  <2>2. {g \in set : g.sequence < n + 1} = set
    BY <2>1
  <2>3. n \in 0..n
    BY <1>1
  <2>4. Cardinality({g \in set : g.sequence < n + 1}) = n
    BY <2>3, <1>2
  <2> QED BY <2>2, <2>4
<1>4. ASSUME NEW i \in 1..n PROVE Cardinality(before(f[i])) = i - 1
  <2>1. f[i].sequence = (i - 1) + 1 /\ i - 1 \in 0..n
    BY <1>1
  <2> QED BY <2>1, <1>2
<1> HIDE DEF before
<1>5. ASSUME NEW i \in 1..n
      PROVE  (CHOOSE e \in set : Cardinality(before(e)) = i - 1) = f[i]
  <2>1. f[i] \in set /\ Cardinality(before(f[i])) = i - 1
    BY <1>1, <1>4
  <2>2. ASSUME NEW e \in set, Cardinality(before(e)) = i - 1 PROVE e = f[i]
    <3>1. PICK j \in 1..n : f[j] = e
      BY <1>1
    <3>2. i - 1 = j - 1
      BY <3>1, <2>2, <1>4
    <3> QED BY <3>1, <3>2, <1>1
  <2> QED BY <2>1, <2>2
<1>6. InOrder(set) = [i \in 1..n |-> CHOOSE e \in set : Cardinality(before(e)) = i - 1]
  BY <1>3 DEF InOrder, before
<1>7. InOrder(set) = [i \in 1..n |-> f[i]]
  BY <1>5, <1>6
<1> QED BY <1>1, <1>7

\* A row with the next number goes to the end.
LEMMA ListingGrows ==
    ASSUME NEW f, NEW set, IsListing(f, set), NEW e, e.sequence = Len(f) + 1
    PROVE  IsListing(Append(f, e), set \cup {e})
<1> DEFINE all == set \cup {e}
           g == Append(f, e)
<1>1. f \in Seq(all) /\ e \in all /\ f \in Seq(set)
  BY DEF IsListing
<1>2. /\ g \in Seq(all) /\ Len(f) \in Nat /\ Len(g) = Len(f) + 1
      /\ \A i \in 1..Len(f) : g[i] = f[i]
      /\ g[Len(f) + 1] = e
  BY <1>1
<1> HIDE DEF g
<1>3. ASSUME NEW i \in 1..Len(g) PROVE g[i].sequence = i
  <2>1. i \in 1..Len(f) \/ i = Len(f) + 1
    BY <1>2
  <2>2. \A j \in 1..Len(f) : f[j].sequence = j
    BY DEF IsListing
  <2> QED BY <1>2, <2>1, <2>2
<1>4. \A x \in all : \E i \in 1..Len(g) : g[i] = x
  BY <1>2 DEF IsListing
<1>5. IsListing(g, all)
  BY <1>2, <1>3, <1>4 DEF IsListing
<1> QED BY <1>5 DEF g

\* ------------------------------------------------------------------------
\* The inductive invariant

Points == {"idle", "begin", "lock", "select", "insert", "commit", "rollback"}

PGTypes ==
    /\ tx \in [Clients -> {"none", "open", "aborted"}]
    /\ staged \in [Clients -> SUBSET Events]
    /\ lock \in [RunIds -> Clients \cup {Null}]
    /\ queue \in [Clients -> Seq(Callers)]
    /\ pc \in [Callers -> Points]
    /\ DOMAIN request = Callers
    /\ acked \in [Events -> Nat]

\* The event of a call that passed the SELECT is the one its run needs next.
Fits(c) ==
    /\ Event(c).runId = request[c].runId
    /\ Contract!CanAppend(RowsOf(rows, request[c].runId), Event(c))

\* What a caller's connection and the run's lock hold at each point of its call.
Conversation(c) ==
    LET s == ClientOf[c]
    IN  /\ queue[s] = IF pc[c] = "idle" THEN <<>> ELSE <<c>>
        /\ pc[c] # "idle" => request[c] \in Requests
        /\ pc[c] \in {"idle", "begin"} => tx[s] = "none"
        /\ pc[c] \in {"lock", "select", "insert", "commit"} => tx[s] = "open"
        /\ staged[s] = IF pc[c] = "commit" THEN {Event(c)} ELSE {}
        /\ pc[c] \in {"select", "insert", "commit"} => lock[request[c].runId] = s
        /\ pc[c] \in {"insert", "commit"} => Fits(c)

RowsIn(set, r) == {e \in set : e.runId = r}

RunsAreListed == \A r \in RunIds : IsListing(RowsOf(rows, r), RowsIn(rows, r))

AcksAreTrue == \A e \in Events : acked[e] <= 1 /\ (acked[e] > 0 => e \in rows)

PGInv ==
    /\ OwnClients
    /\ PGTypes
    /\ \A c \in Callers : Conversation(c)
    /\ RunsAreListed
    /\ AcksAreTrue

\* ------------------------------------------------------------------------
\* Steps

\* A caller of another client is not disturbed by a step that leaves it its lock
\* and, once it has read them, the rows of its run.
LEMMA OthersGoOn ==
    ASSUME NEW d \in Callers, Conversation(d), pc'[d] = pc[d], request'[d] = request[d],
           queue'[ClientOf[d]] = queue[ClientOf[d]], tx'[ClientOf[d]] = tx[ClientOf[d]],
           staged'[ClientOf[d]] = staged[ClientOf[d]],
           pc[d] \in {"select", "insert", "commit"} =>
               lock'[request[d].runId] = lock[request[d].runId],
           pc[d] \in {"insert", "commit"} =>
               RowsOf(rows', request[d].runId) = RowsOf(rows, request[d].runId)
    PROVE  Conversation(d)'
<1>1. Event(d)' = Event(d)
  BY DEF Event
<1>2. pc[d] \in {"insert", "commit"} => (Fits(d) => Fits(d)')
  BY <1>1 DEF Fits
<1> QED BY <1>1, <1>2 DEF Conversation

\* What a committed event does to the rows.
CommitsNext(r, e) ==
    /\ r \in RunIds /\ e \in Events
    /\ e.runId = r /\ Contract!CanAppend(RowsOf(rows, r), e)
    /\ e \notin rows
    /\ RowsOf(rows', r) = Append(RowsOf(rows, r), e)
    /\ \A q \in RunIds : q # r => RowsOf(rows', q) = RowsOf(rows, q)
    /\ RunsAreListed'

\* A caller at its COMMIT has the next event of its run.
LEMMA CommittedRow ==
    ASSUME PGInv, NEW c \in Callers, pc[c] = "commit",
           rows' = rows \cup {Event(c)}
    PROVE  CommitsNext(request[c].runId, Event(c))
<1> DEFINE r == request[c].runId
           e == Event(c)
           f == RowsOf(rows, r)
<1>1. Conversation(c)
  BY DEF PGInv
<1>2. request[c] \in Requests /\ Fits(c)
  BY <1>1 DEF Conversation
<1>3. r \in RunIds /\ e \in Events
  BY <1>2, RequestShape DEF Event
<1>4. e.runId = r /\ Contract!CanAppend(f, e)
  BY <1>2 DEF Fits
<1>5. IsListing(f, RowsIn(rows, r))
  BY <1>3 DEF PGInv, RunsAreListed
<1>6. e.sequence = Len(f) + 1 /\ \A i \in DOMAIN f : f[i].id # e.id
  BY <1>4 DEF Contract!CanAppend, Contract!IdsIn
<1> HIDE DEF r, e, f
<1>7. e \notin rows
  <2>1. ASSUME e \in rows PROVE FALSE
    <3>1. e \in RowsIn(rows, r)
      BY <2>1, <1>4 DEF RowsIn
    <3>2. PICK i \in 1..Len(f) : f[i] = e
      BY <3>1, <1>5 DEF IsListing
    <3>3. i \in DOMAIN f
      BY <1>5 DEF IsListing
    <3> QED BY <3>2, <3>3, <1>6
  <2> QED BY <2>1
<1>8. rows' = rows \cup {e}
  BY DEF e
<1>9. IsListing(Append(f, e), RowsIn(rows, r) \cup {e})
  BY <1>5, <1>6, ListingGrows
<1>10. RowsIn(rows', r) = RowsIn(rows, r) \cup {e}
  BY <1>4, <1>8 DEF RowsIn
<1>11. RowsOf(rows', r) = Append(f, e)
  <2>1. InOrder(RowsIn(rows', r)) = Append(f, e)
    BY <1>9, <1>10, ListingIsInOrder
  <2> QED BY <2>1 DEF RowsOf, RowsIn
<1>12. ASSUME NEW q \in RunIds, q # r
       PROVE  RowsOf(rows', q) = RowsOf(rows, q) /\ RowsIn(rows', q) = RowsIn(rows, q)
  <2>1. {x \in rows' : x.runId = q} = {x \in rows : x.runId = q}
    BY <1>4, <1>8, <1>12
  <2> QED BY <2>1 DEF RowsOf, RowsIn
<1>13. \A q \in RunIds : IsListing(RowsOf(rows', q), RowsIn(rows', q))
  <2>1. ASSUME NEW q \in RunIds PROVE IsListing(RowsOf(rows', q), RowsIn(rows', q))
    <3>1. CASE q = r
      BY <3>1, <1>9, <1>10, <1>11
    <3>2. CASE q # r
      BY <3>2, <1>12 DEF PGInv, RunsAreListed
    <3> QED BY <3>1, <3>2
  <2> QED BY <2>1
<1>14. RunsAreListed'
  BY <1>13 DEF RunsAreListed
<1>15. /\ r \in RunIds /\ e \in Events
       /\ e.runId = r /\ Contract!CanAppend(RowsOf(rows, r), e)
       /\ e \notin rows
       /\ RowsOf(rows', r) = Append(RowsOf(rows, r), e)
       /\ \A q \in RunIds : q # r => RowsOf(rows', q) = RowsOf(rows, q)
  BY <1>3, <1>4, <1>7, <1>11, <1>12 DEF f
<1> QED BY <1>14, <1>15 DEF CommitsNext, r, e

\* The caller's call moves to a point, and its connection's queue with it.
Moves(c, point) ==
    /\ pc' = [pc EXCEPT ![c] = point]
    /\ queue' = [queue EXCEPT ![ClientOf[c]] = IF point = "idle" THEN <<>> ELSE <<c>>]
    /\ request' = request

\* An answer moves its caller's conversation on.
LEMMA AnswersMove ==
    ASSUME PGInv, NEW c \in Callers, NEW point \in Points \ {"idle"}, Turn(c, point)
    PROVE  /\ pc[c] = point /\ Conversation(c) /\ ClientOf[c] \in Clients
           /\ request[c] \in Requests /\ request[c].runId \in RunIds /\ Event(c) \in Events
           /\ \A next \in Points \ {"idle"} :
                 GoOn(c, next) => Moves(c, next) /\ acked' = acked
           /\ Throw(c) => Moves(c, "idle") /\ acked' = acked
           /\ Return(c) => Moves(c, "idle") /\ acked' = [acked EXCEPT ![Event(c)] = @ + 1]
<1>1. pc[c] = point /\ Conversation(c) /\ ClientOf[c] \in Clients
  BY CallersHaveClients DEF Turn, PGInv
<1>2. request[c] \in Requests /\ queue[ClientOf[c]] = <<c>>
  BY <1>1 DEF Conversation
<1>3. request[c].runId \in RunIds /\ Event(c) \in Events
  BY <1>2, RequestShape DEF Event
<1>4. Tail(<<c>>) = <<>> /\ Append(<<>>, c) = <<c>>
  OBVIOUS
<1>5. queue \in [Clients -> Seq(Callers)]
  BY DEF PGInv, PGTypes
<1>6. ASSUME NEW next \in Points \ {"idle"}, GoOn(c, next)
      PROVE  Moves(c, next) /\ acked' = acked
  BY <1>1, <1>2, <1>4, <1>5, <1>6 DEF GoOn, Moves
<1>7. Throw(c) => Moves(c, "idle") /\ acked' = acked
  BY <1>1, <1>2, <1>4, <1>5 DEF Throw, Moves
<1>8. Return(c) => Moves(c, "idle") /\ acked' = [acked EXCEPT ![Event(c)] = @ + 1]
  BY <1>1, <1>2, <1>4, <1>5 DEF Return, Moves
<1> QED BY <1>1, <1>2, <1>3, <1>6, <1>7, <1>8

\* A call's step keeps the invariant when it keeps its own conversation, touches
\* no other connection and takes no lock another holds.
LEMMA CallKeeps ==
    ASSUME PGInv, NEW c \in Callers, NEW point \in Points, Moves(c, point),
           tx' \in [Clients -> {"none", "open", "aborted"}],
           staged' \in [Clients -> SUBSET Events],
           lock' \in [RunIds -> Clients \cup {Null}],
           acked' \in [Events -> Nat],
           \A s \in Clients \ {ClientOf[c]} : tx'[s] = tx[s] /\ staged'[s] = staged[s],
           \A r \in RunIds : lock[r] \in Clients \ {ClientOf[c]} => lock'[r] = lock[r],
           \A d \in Callers \ {c} :
               pc[d] \in {"insert", "commit"} =>
                   RowsOf(rows', request[d].runId) = RowsOf(rows, request[d].runId),
           RunsAreListed', AcksAreTrue', Conversation(c)'
    PROVE  PGInv'
<1>1. PGTypes
  BY DEF PGInv
<1>2. ClientOf \in [Callers -> Clients] /\ c \in Callers
  BY CallersHaveClients
<1>3. PGTypes'
  <2>1. <<c>> \in Seq(Callers) /\ <<>> \in Seq(Callers)
    OBVIOUS
  <2>2. queue' \in [Clients -> Seq(Callers)]
    BY <1>1, <1>2, <2>1 DEF Moves, PGTypes
  <2>3. pc' \in [Callers -> Points] /\ DOMAIN request' = Callers
    BY <1>1 DEF Moves, PGTypes
  <2> QED BY <2>2, <2>3 DEF PGTypes
<1>4. ASSUME NEW d \in Callers PROVE Conversation(d)'
  <2>1. CASE d = c
    BY <2>1
  <2>2. CASE d # c
    <3>1. ClientOf[d] \in Clients \ {ClientOf[c]}
      BY <2>2, <1>2 DEF PGInv, OwnClients
    <3>2. Conversation(d)
      BY DEF PGInv
    <3>3. pc'[d] = pc[d] /\ request'[d] = request[d] /\ queue'[ClientOf[d]] = queue[ClientOf[d]]
      BY <1>1, <2>2, <3>1 DEF Moves, PGTypes
    <3>4. pc[d] \in {"select", "insert", "commit"} =>
              lock'[request[d].runId] = lock[request[d].runId]
      <4>1. ASSUME pc[d] \in {"select", "insert", "commit"}
            PROVE  request[d].runId \in RunIds /\ lock[request[d].runId] = ClientOf[d]
        BY <3>2, <4>1, RequestShape DEF Conversation
      <4> QED BY <3>1, <4>1
    <3>5. pc[d] \in {"insert", "commit"} =>
              RowsOf(rows', request[d].runId) = RowsOf(rows, request[d].runId)
      BY <2>2
    <3> QED BY <3>1, <3>2, <3>3, <3>4, <3>5, OthersGoOn
  <2> QED BY <2>1, <2>2
<1>5. OwnClients'
  BY DEF PGInv, OwnClients
<1> QED BY <1>3, <1>4, <1>5 DEF PGInv

\* A step that leaves the rows and the acknowledgements alone keeps what is said
\* of them.
LEMMA RowsAlone ==
    ASSUME PGInv, rows' = rows, acked' = acked
    PROVE  /\ RunsAreListed' /\ AcksAreTrue' /\ acked' \in [Events -> Nat]
           /\ \A r : RowsOf(rows', r) = RowsOf(rows, r)
BY DEF PGInv, PGTypes, RunsAreListed, AcksAreTrue

\* The conversation of a caller that moved, from what holds at its new point.
LEMMA MovedConversation ==
    ASSUME PGInv, NEW c \in Callers, NEW point \in Points, Moves(c, point),
           pc[c] # "idle", Conversation(c),
           point \in {"idle", "begin"} => tx'[ClientOf[c]] = "none",
           point \in {"lock", "select", "insert", "commit"} => tx'[ClientOf[c]] = "open",
           staged'[ClientOf[c]] = IF point = "commit" THEN {Event(c)} ELSE {},
           point \in {"select", "insert", "commit"} =>
               lock'[request[c].runId] = ClientOf[c],
           point \in {"insert", "commit"} => Fits(c) /\ rows' = rows
    PROVE  Conversation(c)'
<1>1. pc \in [Callers -> Points] /\ queue \in [Clients -> Seq(Callers)] /\ ClientOf[c] \in Clients
  BY CallersHaveClients DEF PGInv, PGTypes
<1>2. /\ pc'[c] = point /\ request' = request
      /\ queue'[ClientOf[c]] = IF point = "idle" THEN <<>> ELSE <<c>>
  BY <1>1 DEF Moves
<1>3. Event(c)' = Event(c)
  BY <1>2 DEF Event
<1>4. point \in {"insert", "commit"} => Fits(c)'
  BY <1>2, <1>3 DEF Fits
<1> QED BY <1>2, <1>3, <1>4 DEF Conversation

\* An append that starts keeps the invariant.
LEMMA StartKeeps ==
    ASSUME PGInv, NEW c \in Callers, NEW a \in Requests, Start(c, a)
    PROVE  PGInv'
<1> DEFINE s == ClientOf[c]
<1>1. /\ pc[c] = "idle" /\ UNCHANGED dbVars /\ acked' = acked
      /\ request' = [request EXCEPT ![c] = a]
      /\ pc' = [pc EXCEPT ![c] = "begin"]
      /\ queue' = [queue EXCEPT ![s] = Append(@, c)]
  BY DEF Start
<1>2. PGTypes /\ Conversation(c) /\ s \in Clients
  BY CallersHaveClients DEF PGInv
<1>3. queue[s] = <<>> /\ Append(<<>>, c) = <<c>> /\ <<c>> \in Seq(Callers)
  BY <1>1, <1>2 DEF Conversation
<1>4. rows' = rows /\ tx' = tx /\ staged' = staged /\ lock' = lock
  BY <1>1 DEF dbVars
<1>5. PGTypes'
  BY <1>1, <1>2, <1>3, <1>4 DEF PGTypes, Points
<1>6. ASSUME NEW d \in Callers PROVE Conversation(d)'
  <2>1. CASE d = c
    <3>1. pc'[c] = "begin" /\ request'[c] = a /\ queue'[s] = <<c>>
      BY <1>1, <1>2, <1>3 DEF PGTypes
    <3>2. tx'[s] = "none" /\ staged'[s] = {}
      BY <1>1, <1>2, <1>4 DEF Conversation
    <3> QED BY <2>1, <3>1, <3>2 DEF Conversation
  <2>2. CASE d # c
    <3>1. ClientOf[d] \in Clients /\ ClientOf[d] # s /\ Conversation(d)
      BY <2>2, CallersHaveClients DEF PGInv, OwnClients
    <3>2. pc'[d] = pc[d] /\ request'[d] = request[d] /\ queue'[ClientOf[d]] = queue[ClientOf[d]]
      BY <1>1, <1>2, <2>2, <3>1 DEF PGTypes
    <3> QED BY <1>4, <3>1, <3>2, OthersGoOn
  <2> QED BY <2>1, <2>2
<1>7. RunsAreListed' /\ AcksAreTrue'
  BY <1>1, <1>4, RowsAlone
<1>8. OwnClients'
  BY DEF PGInv, OwnClients
<1> QED BY <1>5, <1>6, <1>7, <1>8 DEF PGInv

\* BEGIN keeps it.
LEMMA BeginKeeps ==
    ASSUME PGInv, NEW c \in Callers, Begin(c)
    PROVE  PGInv'
<1> DEFINE s == ClientOf[c]
<1>1. /\ pc[c] = "begin" /\ Conversation(c) /\ s \in Clients
      /\ GoOn(c, "lock") => Moves(c, "lock") /\ acked' = acked
  BY AnswersMove DEF Begin, Points
<1>2. /\ GoOn(c, "lock") /\ tx' = [tx EXCEPT ![s] = "open"]
      /\ rows' = rows /\ staged' = staged /\ lock' = lock
  BY <1>1 DEF Begin, Conversation
<1>3. PGTypes /\ "lock" \in Points
  BY DEF PGInv, Points
<1>4. Conversation(c)'
  <2>1. tx'[s] = "open" /\ staged'[s] = {}
    BY <1>1, <1>2, <1>3 DEF Conversation, PGTypes
  <2> QED BY <1>1, <1>2, <1>3, <2>1, MovedConversation
<1>5. tx' \in [Clients -> {"none", "open", "aborted"}] /\ \A t \in Clients \ {s} : tx'[t] = tx[t]
  BY <1>1, <1>2, <1>3 DEF PGTypes
<1>6. staged' \in [Clients -> SUBSET Events] /\ lock' \in [RunIds -> Clients \cup {Null}]
  BY <1>2, <1>3 DEF PGTypes
<1> QED BY <1>1, <1>2, <1>3, <1>4, <1>5, <1>6, RowsAlone, CallKeeps

\* The advisory lock keeps it.
LEMMA LockKeeps ==
    ASSUME PGInv, NEW c \in Callers, Lock(c)
    PROVE  PGInv'
<1> DEFINE s == ClientOf[c]
           r == request[c].runId
<1>1. /\ pc[c] = "lock" /\ Conversation(c) /\ s \in Clients /\ r \in RunIds
      /\ GoOn(c, "select") => Moves(c, "select") /\ acked' = acked
  BY AnswersMove DEF Lock, Points
<1>2. tx[s] = "open" /\ staged[s] = {}
  BY <1>1 DEF Conversation
<1>3. /\ lock[r] \in {Null, s} /\ lock' = [lock EXCEPT ![r] = s]
      /\ GoOn(c, "select") /\ rows' = rows /\ tx' = tx /\ staged' = staged
  BY <1>2 DEF Lock
<1>4. PGTypes /\ "select" \in Points
  BY DEF PGInv, Points
<1>5. lock' \in [RunIds -> Clients \cup {Null}] /\ lock'[r] = s
  BY <1>1, <1>3, <1>4 DEF PGTypes
<1>6. \A q \in RunIds : lock[q] \in Clients \ {s} => lock'[q] = lock[q]
  BY <1>3, <1>4, NullIsNoClient DEF PGTypes
<1> HIDE DEF s, r
<1>7. Conversation(c)'
  <2>1. lock'[request[c].runId] = ClientOf[c]
    BY <1>5 DEF s, r
  <2> QED BY <1>1, <1>2, <1>3, <1>4, <2>1, MovedConversation DEF s
<1>8. /\ tx' \in [Clients -> {"none", "open", "aborted"}]
      /\ staged' \in [Clients -> SUBSET Events]
  BY <1>3, <1>4 DEF PGTypes
<1> QED BY <1>1, <1>3, <1>4, <1>5, <1>6, <1>7, <1>8, RowsAlone, CallKeeps DEF s

\* Reading the run's rows keeps it.
LEMMA SelectKeeps ==
    ASSUME PGInv, NEW c \in Callers, Select(c)
    PROVE  PGInv'
<1> DEFINE s == ClientOf[c]
           r == request[c].runId
           ok == /\ Event(c).runId = r
                 /\ Contract!CanAppend(RowsOf(rows, r), Event(c))
<1>1. /\ pc[c] = "select" /\ Conversation(c) /\ s \in Clients
      /\ GoOn(c, "insert") => Moves(c, "insert") /\ acked' = acked
      /\ GoOn(c, "rollback") => Moves(c, "rollback") /\ acked' = acked
  BY AnswersMove DEF Select, Points
<1>2. tx[s] = "open" /\ staged[s] = {} /\ lock[r] = s
  BY <1>1 DEF Conversation
<1>3. rows \cup staged[s] = rows
  BY <1>2
<1>4. /\ (GoOn(c, "insert") /\ ok) \/ GoOn(c, "rollback")
      /\ UNCHANGED dbVars
  BY <1>2, <1>3 DEF Select
<1>5. rows' = rows /\ tx' = tx /\ staged' = staged /\ lock' = lock
  BY <1>4 DEF dbVars
<1>6. PGTypes
  BY DEF PGInv
<1>7. ok => Fits(c)
  BY DEF Fits
<1> HIDE DEF ok
<1>8. PICK point \in {"insert", "rollback"} :
          Moves(c, point) /\ acked' = acked /\ (point = "insert" => Fits(c))
  BY <1>1, <1>4, <1>7
<1>9. point \in Points
  BY DEF Points
<1>10. Conversation(c)'
  BY <1>1, <1>2, <1>5, <1>8, <1>9, MovedConversation
<1>11. /\ tx' \in [Clients -> {"none", "open", "aborted"}]
       /\ staged' \in [Clients -> SUBSET Events] /\ lock' \in [RunIds -> Clients \cup {Null}]
  BY <1>5, <1>6 DEF PGTypes
<1> QED BY <1>5, <1>8, <1>9, <1>10, <1>11, RowsAlone, CallKeeps

\* INSERT keeps it: only who holds the run's lock inserts.
LEMMA InsertKeeps ==
    ASSUME PGInv, NEW c \in Callers, Insert(c)
    PROVE  PGInv'
<1> DEFINE s == ClientOf[c]
           e == Event(c)
<1>1. /\ pc[c] = "insert" /\ Conversation(c) /\ s \in Clients /\ e \in Events
      /\ GoOn(c, "commit") => Moves(c, "commit") /\ acked' = acked
      /\ GoOn(c, "rollback") => Moves(c, "rollback") /\ acked' = acked
  BY AnswersMove DEF Insert, Points
<1>2. tx[s] = "open" /\ staged[s] = {} /\ lock[request[c].runId] = s /\ Fits(c)
  BY <1>1 DEF Conversation
<1>3. PGTypes /\ "commit" \in Points /\ "rollback" \in Points
  BY DEF PGInv, Points
<1>4. CASE Fail(c)
  <2>1. /\ tx' = [tx EXCEPT ![s] = "aborted"] /\ GoOn(c, "rollback")
        /\ rows' = rows /\ staged' = staged /\ lock' = lock
    BY <1>2, <1>4 DEF Fail
  <2>2. /\ tx' \in [Clients -> {"none", "open", "aborted"}]
        /\ \A t \in Clients \ {s} : tx'[t] = tx[t]
        /\ staged' \in [Clients -> SUBSET Events] /\ lock' \in [RunIds -> Clients \cup {Null}]
    BY <1>1, <1>3, <2>1 DEF PGTypes
  <2>3. Conversation(c)'
    BY <1>1, <1>2, <1>3, <2>1, MovedConversation
  <2> QED BY <1>1, <1>3, <2>1, <2>2, <2>3, RowsAlone, CallKeeps
<1>5. CASE ~Fail(c)
  <2>1. /\ staged' = [staged EXCEPT ![s] = @ \cup {e}] /\ GoOn(c, "commit")
        /\ rows' = rows /\ tx' = tx /\ lock' = lock
    BY <1>2, <1>5 DEF Insert
  <2>2. staged'[s] = {e} /\ staged' \in [Clients -> SUBSET Events]
    BY <1>1, <1>2, <1>3, <2>1 DEF PGTypes
  <2>3. /\ tx' \in [Clients -> {"none", "open", "aborted"}]
        /\ \A t \in Clients \ {s} : staged'[t] = staged[t]
        /\ lock' \in [RunIds -> Clients \cup {Null}]
    BY <1>3, <2>1 DEF PGTypes
  <2>4. Conversation(c)'
    BY <1>1, <1>2, <1>3, <2>1, <2>2, MovedConversation
  <2> QED BY <1>1, <1>3, <2>1, <2>2, <2>3, <2>4, RowsAlone, CallKeeps
<1> QED BY <1>4, <1>5

\* What the end of a transaction does to its client and to the others.
LEMMA TransactionEnds ==
    ASSUME PGTypes, NEW s \in Clients, NEW committed, EndTransaction(s, committed)
    PROVE  /\ rows' = rows \cup committed
           /\ tx'[s] = "none" /\ staged'[s] = {}
           /\ tx' \in [Clients -> {"none", "open", "aborted"}]
           /\ staged' \in [Clients -> SUBSET Events]
           /\ lock' \in [RunIds -> Clients \cup {Null}]
           /\ \A t \in Clients \ {s} : tx'[t] = tx[t] /\ staged'[t] = staged[t]
           /\ \A r \in RunIds : lock[r] \in Clients \ {s} => lock'[r] = lock[r]
BY DEF EndTransaction, PGTypes

\* A caller past the SELECT waits for no run that another commits to.
LEMMA OthersReadOn ==
    ASSUME PGInv, NEW c \in Callers, pc[c] = "commit", rows' = rows \cup {Event(c)},
           NEW d \in Callers \ {c}, pc[d] \in {"insert", "commit"}
    PROVE  RowsOf(rows', request[d].runId) = RowsOf(rows, request[d].runId)
<1>1. Conversation(c) /\ Conversation(d) /\ ClientOf[c] # ClientOf[d]
  BY DEF PGInv, OwnClients
<1>2. /\ lock[request[c].runId] = ClientOf[c] /\ lock[request[d].runId] = ClientOf[d]
      /\ request[d] \in Requests
  BY <1>1 DEF Conversation
<1>3. request[d].runId \in RunIds /\ request[d].runId # request[c].runId
  BY <1>1, <1>2, RequestShape
<1> QED BY <1>3, CommittedRow DEF CommitsNext

\* COMMIT keeps it: the rows it publishes still follow those that were read.
LEMMA CommitKeeps ==
    ASSUME PGInv, NEW c \in Callers, Commit(c)
    PROVE  PGInv' /\ CommitsNext(request[c].runId, Event(c))
<1> DEFINE s == ClientOf[c]
           e == Event(c)
<1>1. /\ pc[c] = "commit" /\ Conversation(c) /\ s \in Clients /\ e \in Events
      /\ Return(c) => Moves(c, "idle") /\ acked' = [acked EXCEPT ![e] = @ + 1]
  BY AnswersMove DEF Commit, Points
<1>2. Committed(s) = {e}
  BY <1>1 DEF Committed, Conversation
<1>3. PGTypes /\ "idle" \in Points
  BY DEF PGInv, Points
<1>4. EndTransaction(s, {e}) /\ Return(c)
  BY <1>2 DEF Commit
<1>5. /\ rows' = rows \cup {e} /\ tx'[s] = "none" /\ staged'[s] = {}
      /\ tx' \in [Clients -> {"none", "open", "aborted"}]
      /\ staged' \in [Clients -> SUBSET Events]
      /\ lock' \in [RunIds -> Clients \cup {Null}]
      /\ \A t \in Clients \ {s} : tx'[t] = tx[t] /\ staged'[t] = staged[t]
      /\ \A r \in RunIds : lock[r] \in Clients \ {s} => lock'[r] = lock[r]
  BY <1>1, <1>3, <1>4, TransactionEnds
<1>6. CommitsNext(request[c].runId, e)
  BY <1>1, <1>5, CommittedRow
<1>7. RunsAreListed' /\ e \notin rows
  BY <1>6 DEF CommitsNext
<1>8. acked' = [acked EXCEPT ![e] = @ + 1] /\ Moves(c, "idle")
  BY <1>1, <1>4
<1> HIDE DEF e
<1>9. AcksAreTrue' /\ acked' \in [Events -> Nat]
  <2>1. acked \in [Events -> Nat] /\ AcksAreTrue
    BY DEF PGInv, PGTypes
  <2>2. acked[e] = 0
    BY <1>1, <1>7, <2>1 DEF AcksAreTrue
  <2>3. acked' \in [Events -> Nat] /\ acked'[e] = 1
    BY <1>1, <1>8, <2>1, <2>2
  <2>4. ASSUME NEW x \in Events PROVE acked'[x] <= 1 /\ (acked'[x] > 0 => x \in rows')
    <3>1. CASE x = e
      BY <3>1, <1>5, <2>3
    <3>2. CASE x # e
      BY <3>2, <1>5, <1>8, <2>1 DEF AcksAreTrue
    <3> QED BY <3>1, <3>2
  <2> QED BY <2>3, <2>4 DEF AcksAreTrue
<1>10. Conversation(c)'
  BY <1>1, <1>3, <1>5, <1>8, MovedConversation
<1>11. \A d \in Callers \ {c} : pc[d] \in {"insert", "commit"} =>
           RowsOf(rows', request[d].runId) = RowsOf(rows, request[d].runId)
  BY <1>1, <1>5, OthersReadOn DEF e
<1>12. PGInv'
  BY <1>3, <1>5, <1>7, <1>8, <1>9, <1>10, <1>11, CallKeeps
<1> QED BY <1>6, <1>12 DEF e

\* ROLLBACK keeps it.
LEMMA RollbackKeeps ==
    ASSUME PGInv, NEW c \in Callers, Rollback(c)
    PROVE  PGInv' /\ rows' = rows
<1> DEFINE s == ClientOf[c]
<1>1. /\ pc[c] = "rollback" /\ Conversation(c) /\ s \in Clients
      /\ Throw(c) => Moves(c, "idle") /\ acked' = acked
  BY AnswersMove DEF Rollback, Points
<1>2. PGTypes /\ "idle" \in Points
  BY DEF PGInv, Points
<1>3. /\ rows' = rows \cup {} /\ tx'[s] = "none" /\ staged'[s] = {}
      /\ tx' \in [Clients -> {"none", "open", "aborted"}]
      /\ staged' \in [Clients -> SUBSET Events]
      /\ lock' \in [RunIds -> Clients \cup {Null}]
      /\ \A t \in Clients \ {s} : tx'[t] = tx[t] /\ staged'[t] = staged[t]
      /\ \A r \in RunIds : lock[r] \in Clients \ {s} => lock'[r] = lock[r]
  BY <1>1, <1>2, TransactionEnds DEF Rollback
<1>4. Moves(c, "idle") /\ acked' = acked /\ rows' = rows
  BY <1>1, <1>3 DEF Rollback
<1>5. Conversation(c)'
  BY <1>1, <1>2, <1>3, <1>4, MovedConversation
<1> QED BY <1>2, <1>3, <1>4, <1>5, RowsAlone, CallKeeps

\* A broken connection commits what its COMMIT had reached, or nothing.
LEMMA DisconnectKeeps ==
    ASSUME PGInv, NEW s \in Clients, Disconnect(s)
    PROVE  /\ PGInv'
           /\ rows' = rows \/ \E c \in Callers : CommitsNext(request[c].runId, Event(c))
<1> DEFINE Broken(d) == ClientOf[d] = s
<1>1. /\ pc' = [d \in Callers |-> IF Broken(d) THEN "idle" ELSE pc[d]]
      /\ queue' = [queue EXCEPT ![s] = <<>>]
      /\ request' = request /\ acked' = acked
  BY DEF Disconnect
<1>2. PGTypes /\ \A d \in Callers : Conversation(d) /\ ClientOf[d] \in Clients
  BY CallersHaveClients DEF PGInv
<1>3. PICK new : /\ EndTransaction(s, new)
                 /\ \/ new = {}
                    \/ \E c \in Callers : Broken(c) /\ pc[c] = "commit" /\ new = {Event(c)}
  <2>1. CASE EndTransaction(s, {})
    BY <2>1
  <2>2. CASE /\ \E c \in Callers : ClientOf[c] = s /\ Turn(c, "commit")
             /\ EndTransaction(s, Committed(s))
    <3>1. PICK c \in Callers : ClientOf[c] = s /\ pc[c] = "commit"
      BY <2>2 DEF Turn
    <3>2. Committed(s) = {Event(c)}
      BY <1>2, <3>1 DEF Committed, Conversation
    <3> QED BY <2>2, <3>1, <3>2
  <2> QED BY <2>1, <2>2 DEF Disconnect
<1>4. /\ rows' = rows \cup new /\ tx'[s] = "none" /\ staged'[s] = {}
      /\ tx' \in [Clients -> {"none", "open", "aborted"}]
      /\ staged' \in [Clients -> SUBSET Events]
      /\ lock' \in [RunIds -> Clients \cup {Null}]
      /\ \A t \in Clients \ {s} : tx'[t] = tx[t] /\ staged'[t] = staged[t]
      /\ \A r \in RunIds : lock[r] \in Clients \ {s} => lock'[r] = lock[r]
  BY <1>2, <1>3, TransactionEnds
<1>5. \/ rows' = rows
      \/ \E c \in Callers : Broken(c) /\ pc[c] = "commit" /\ rows' = rows \cup {Event(c)}
  BY <1>3, <1>4
<1>6. rows' = rows \/ \E c \in Callers : CommitsNext(request[c].runId, Event(c))
  BY <1>5, CommittedRow
<1>7. ASSUME NEW d \in Callers, ~Broken(d), pc[d] \in {"insert", "commit"}
      PROVE  RowsOf(rows', request[d].runId) = RowsOf(rows, request[d].runId)
  <2>1. CASE rows' = rows
    BY <2>1
  <2>2. CASE \E c \in Callers : Broken(c) /\ pc[c] = "commit" /\ rows' = rows \cup {Event(c)}
    <3>1. PICK c \in Callers : Broken(c) /\ pc[c] = "commit" /\ rows' = rows \cup {Event(c)}
      BY <2>2
    <3>2. d \in Callers \ {c}
      BY <1>7, <3>1
    <3> QED BY <1>7, <3>1, <3>2, OthersReadOn
  <2> QED BY <1>5, <2>1, <2>2
<1>8. ASSUME NEW d \in Callers PROVE Conversation(d)'
  <2>1. CASE Broken(d)
    <3>1. pc'[d] = "idle" /\ queue'[ClientOf[d]] = <<>>
      BY <2>1, <1>1, <1>2 DEF PGTypes
    <3> QED BY <2>1, <3>1, <1>4 DEF Conversation
  <2>2. CASE ~Broken(d)
    <3>1. ClientOf[d] \in Clients \ {s} /\ Conversation(d)
      BY <2>2, <1>2
    <3>2. pc'[d] = pc[d] /\ request'[d] = request[d] /\ queue'[ClientOf[d]] = queue[ClientOf[d]]
      BY <2>2, <3>1, <1>1, <1>2 DEF PGTypes
    <3>3. pc[d] \in {"select", "insert", "commit"} =>
              lock'[request[d].runId] = lock[request[d].runId]
      <4>1. ASSUME pc[d] \in {"select", "insert", "commit"}
            PROVE  request[d].runId \in RunIds /\ lock[request[d].runId] = ClientOf[d]
        BY <3>1, <4>1, RequestShape DEF Conversation
      <4> QED BY <3>1, <4>1, <1>4
    <3> QED BY <2>2, <3>1, <3>2, <3>3, <1>4, <1>7, OthersGoOn
  <2> QED BY <2>1, <2>2
<1>9. PGTypes'
  <2>1. queue' \in [Clients -> Seq(Callers)] /\ pc' \in [Callers -> Points]
    BY <1>1, <1>2 DEF PGTypes, Points
  <2> QED BY <2>1, <1>1, <1>2, <1>4 DEF PGTypes
<1>10. RunsAreListed' /\ AcksAreTrue'
  <2>1. RunsAreListed'
    <3>1. CASE rows' = rows
      BY <3>1, <1>1, RowsAlone
    <3>2. CASE \E c \in Callers : CommitsNext(request[c].runId, Event(c))
      BY <3>2 DEF CommitsNext
    <3> QED BY <1>6, <3>1, <3>2
  <2>2. AcksAreTrue'
    BY <1>1, <1>4 DEF PGInv, AcksAreTrue
  <2> QED BY <2>1, <2>2
<1>11. OwnClients'
  BY DEF PGInv, OwnClients
<1> QED BY <1>6, <1>8, <1>9, <1>10, <1>11 DEF PGInv

\* ------------------------------------------------------------------------
\* The invariant and what follows from it

\* It holds of the empty table.
LEMMA PGInitHolds == ASSUME OwnClients, PGInit PROVE PGInv
<1>1. PGTypes
  BY DEF PGInit, PGTypes, Points
<1>2. \A c \in Callers : Conversation(c)
  BY CallersHaveClients DEF PGInit, Conversation
<1>3. IsListing(<<>>, {})
  BY DEF IsListing
<1>4. \A r : RowsIn(rows, r) = {} /\ RowsOf(rows, r) = <<>>
  BY <1>3, ListingIsInOrder DEF PGInit, RowsIn, RowsOf
<1>5. RunsAreListed
  BY <1>3, <1>4 DEF RunsAreListed
<1>6. AcksAreTrue
  BY DEF PGInit, AcksAreTrue
<1> QED BY <1>1, <1>2, <1>5, <1>6 DEF PGInv

\* Every step keeps the invariant, and changes the rows only by committing the
\* next event of a run.
LEMMA PGSteps ==
    ASSUME PGInv, [PGNext]_pgVars
    PROVE  /\ PGInv'
           /\ rows' = rows \/ \E c \in Callers : CommitsNext(request[c].runId, Event(c))
<1>1. ASSUME NEW c \in Callers, NEW a \in Requests, Start(c, a) PROVE PGInv' /\ rows' = rows
  BY <1>1, StartKeeps DEF Start, dbVars
<1>2. ASSUME NEW c \in Callers, Begin(c) PROVE PGInv' /\ rows' = rows
  BY <1>2, BeginKeeps DEF Begin
<1>3. ASSUME NEW c \in Callers, Lock(c) PROVE PGInv' /\ rows' = rows
  BY <1>3, LockKeeps DEF Lock, Fail
<1>4. ASSUME NEW c \in Callers, Select(c) PROVE PGInv' /\ rows' = rows
  BY <1>4, SelectKeeps DEF Select, Fail, dbVars
<1>5. ASSUME NEW c \in Callers, Insert(c) PROVE PGInv' /\ rows' = rows
  <2>1. PGInv' /\ tx[ClientOf[c]] = "open"
    BY <1>5, InsertKeeps DEF PGInv, Conversation, Insert, Turn
  <2> QED BY <1>5, <2>1 DEF Insert, Fail
<1>6. ASSUME NEW c \in Callers, Commit(c)
      PROVE  PGInv' /\ CommitsNext(request[c].runId, Event(c))
  BY <1>6, CommitKeeps
<1>7. ASSUME NEW c \in Callers, Rollback(c) PROVE PGInv' /\ rows' = rows
  BY <1>7, RollbackKeeps
<1>8. ASSUME NEW s \in Clients, Disconnect(s)
      PROVE  /\ PGInv'
             /\ rows' = rows \/ \E c \in Callers : CommitsNext(request[c].runId, Event(c))
  BY <1>8, DisconnectKeeps
<1>9. CASE UNCHANGED pgVars
  <2>1. /\ rows' = rows /\ tx' = tx /\ staged' = staged /\ lock' = lock /\ queue' = queue
        /\ pc' = pc /\ request' = request /\ acked' = acked
    BY <1>9 DEF pgVars
  <2>2. \A c \in Callers : Conversation(c)'
    BY <2>1, OthersGoOn DEF PGInv
  <2>3. RunsAreListed' /\ AcksAreTrue' /\ PGTypes' /\ OwnClients'
    BY <2>1, RowsAlone DEF PGInv, PGTypes, OwnClients
  <2> QED BY <2>1, <2>2, <2>3 DEF PGInv
<1> QED BY <1>1, <1>2, <1>3, <1>4, <1>5, <1>6, <1>7, <1>8, <1>9 DEF PGNext, Statement

\* The invariant, for every run in which no two callers share a client.
THEOREM PGInvHolds == OwnClients /\ PGSpec => []PGInv
<1>1. OwnClients /\ PGInit => PGInv
  BY PGInitHolds
<1>2. PGInv /\ [PGNext]_pgVars => PGInv'
  BY PGSteps
<1> QED BY <1>1, <1>2, PTL DEF PGSpec

\* An append that returned is stored, whatever other callers do, whatever the
\* server answers, and wherever connections break: for callers that do not share a
\* connection (PostgresSemanticLedger.appendAcceptedEventToRun).
THEOREM AppendsAreDurable == OwnClients /\ PGSpec => []AckedIsStored
<1>1. PGInv => AckedIsStored
  BY DEF PGInv, AcksAreTrue, AckedIsStored
<1> QED BY <1>1, PGInvHolds, PTL

\* Of the calls that race for one place in a run, at most one returns, and no event
\* is acknowledged twice.
THEOREM RacesHaveOneWinner == OwnClients /\ PGSpec => []OneWinner
<1>1. PGInv => OneWinner
  <2> SUFFICES ASSUME PGInv, NEW r \in RunIds, NEW n \in {e.sequence : e \in Events}
               PROVE  LET rivals == {e \in Events : e.runId = r /\ e.sequence = n}
                      IN  /\ Cardinality({e \in rivals : acked[e] > 0}) <= 1
                          /\ \A e \in rivals : acked[e] <= 1
    BY DEF OneWinner
  <2> DEFINE rivals == {e \in Events : e.runId = r /\ e.sequence = n}
             winners == {e \in rivals : acked[e] > 0}
  <2>1. \A e \in rivals : acked[e] <= 1
    BY DEF PGInv, AcksAreTrue
  <2>2. \A e, f \in winners : e = f
    <3>1. ASSUME NEW e \in winners
          PROVE  \E i \in 1..Len(RowsOf(rows, r)) : RowsOf(rows, r)[i] = e /\ i = n
      <4>1. e \in RowsIn(rows, r)
        BY DEF PGInv, AcksAreTrue, RowsIn
      <4>2. IsListing(RowsOf(rows, r), RowsIn(rows, r))
        BY DEF PGInv, RunsAreListed
      <4> QED BY <4>1, <4>2 DEF IsListing
    <3> QED BY <3>1
  <2> HIDE DEF winners
  <2>3. Cardinality(winners) <= 1
    <3>1. CASE winners = {}
      BY <3>1, FS_EmptySet
    <3>2. CASE winners # {}
      <4>1. PICK e : winners = {e}
        BY <2>2, <3>2
      <4>2. Cardinality({e}) = 1
        BY FS_Singleton
      <4> QED BY <4>1, <4>2
    <3> QED BY <3>1, <3>2
  <2> QED BY <2>1, <2>3 DEF winners
<1> QED BY <1>1, PGInvHolds, PTL

\* The table implements the abstract ledger: seen through ORDER BY sequence, every
\* step of the conversations, the errors and the lost connections included, appends
\* one event the contract accepts or leaves every stream alone.
THEOREM TableImplementsLedger == OwnClients /\ PGSpec => ImplementsLedger
<1> DEFINE streams == [r \in RunIds |-> RowsOf(rows, r)]
<1>1. PGInit => Abstract!Init
  <2> SUFFICES ASSUME PGInit PROVE \A r \in RunIds : RowsOf(rows, r) = <<>>
    BY DEF Abstract!Init
  <2>1. IsListing(<<>>, {})
    BY DEF IsListing
  <2> QED BY <2>1, ListingIsInOrder DEF PGInit, RowsOf
<1>2. PGInv /\ [PGNext]_pgVars => [Abstract!Next]_streams
  <2> SUFFICES ASSUME PGInv, [PGNext]_pgVars PROVE [Abstract!Next]_streams
    OBVIOUS
  <2>1. CASE rows' = rows
    BY <2>1
  <2>2. ASSUME NEW c \in Callers, CommitsNext(request[c].runId, Event(c))
        PROVE  Abstract!Next
    <3> DEFINE r == request[c].runId
               e == Event(c)
    <3>1. r \in RunIds /\ e \in Events /\ e.runId = r /\ Contract!CanAppend(streams[r], e)
      BY <2>2 DEF CommitsNext
    <3>2. streams' = [streams EXCEPT ![r] = Append(@, e)]
      BY <2>2 DEF CommitsNext
    <3>3. Abstract!AppendAcceptedEvent(r, e)
      BY <3>1, <3>2 DEF Abstract!AppendAcceptedEvent, Abstract!CanAppend, Contract!CanAppend,
         Abstract!IdsIn, Contract!IdsIn
    <3> QED BY <3>1, <3>3 DEF Abstract!Next
  <2> QED BY <2>1, <2>2, PGSteps
<1> QED BY <1>1, <1>2, PGInvHolds, PTL DEF PGSpec, ImplementsLedger, Abstract!Spec
=============================================================================
