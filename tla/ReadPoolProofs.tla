---------------------------- MODULE ReadPoolProofs ----------------------------
(***************************************************************************)
(* Proofs about ReadPool for any callers, workers, capacities, pauses,     *)
(* file replacements and failing actors.                                   *)
(***************************************************************************)
EXTENDS ReadPool, FiniteSetTheorems, WellFoundedInduction, TLAPS

Controls == {"PAUSE", "STOP"}
Live == {"new", "open", "pausing", "paused"}
Entered == {"waiting", "granted"}
Working == {"begin", "read", "release", "fatal", "failing"}
WaiterStates == {"none", "waiting", "granted", "consumed", "cancelled", "rejected"}
CallerStates == {"idle", "waiting", "admitted", "queued", "ended"}
ThreadStates == {"off", "get", "begin", "read", "release", "fatal", "failing", "drain", "exit", "dead"}

Typed ==
  /\ waiters \in Seq(Callers) /\ wst \in [Callers -> WaiterStates]
  /\ pc \in [Callers -> CallerStates]
  /\ queue \in [Workers -> Seq(Callers \cup Controls)]
  /\ cur \in [Workers -> Callers \cup {NoCall}] /\ wpc \in [Workers -> ThreadStates]
  /\ conn = [w \in Workers |-> conn[w]] /\ next \in Workers /\ capacity \in Nat

\* A request is in one place: with one worker or at one position of one
\* queue, never in both.
At(qs, c, w, i) == i \in 1 .. Len(qs[w]) /\ qs[w][i] = c
Sits(c, w, i) == At(queue, c, w, i)
OnePlace ==
  /\ \A w \in Workers : wpc[w] \in Working <=> cur[w] \in Callers
  /\ \A v, w \in Workers : cur[v] \in Callers /\ cur[v] = cur[w] => v = w
  /\ \A c \in Callers, v, w \in Workers : \A i, j \in Nat : Sits(c, v, i) /\ Sits(c, w, j) => v = w /\ i = j
  /\ \A c \in Callers, v, w \in Workers : \A i \in Nat : Sits(c, v, i) => cur[w] # c

\* Who waits for a slot, or was granted one, has no request yet.
NoRequest(c) == ~InQueue(c) /\ ~Running(c)
Staged ==
  \A c \in Callers :
    /\ pc[c] \in {"idle", "waiting", "admitted"} => NoRequest(c)
    /\ wst[c] \in Entered => pc[c] \in {"waiting", "ended"} /\ NoRequest(c)

\* The counter of slots, while no actor has failed and the pool is not closing.
Counted == IsFiniteSet(Owners) /\ out = Cardinality(Owners) /\ out <= capacity

\* The pause: no control is queued before every slot is free, and afterwards
\* the acknowledgements are the workers that have closed their connection.
Acked == {w \in Workers : queue[w] = <<>>}
Pausing ==
  /\ ~stopSet /\ ~fatal /\ \A w \in Workers : wpc[w] \notin {"failing", "drain", "exit", "dead"}
  /\ ~pauseSet => acks = 0 /\ \A w \in Workers : queue[w] \in Seq(Callers)
  /\ pauseSet => state \in {"pausing", "paused"} /\ Owners = {}
  /\ state = "pausing" /\ pauseSet =>
       /\ \A w \in Workers : queue[w] \in {<<>>, <<"PAUSE">>}
       /\ \A w \in Acked : conn[w] = 0
       /\ acks = Cardinality(Acked)
  /\ state = "paused" => pauseSet /\ \A w \in Workers : queue[w] = <<>> /\ conn[w] = 0

\* The threads run once the pool is open.
Unstarted == state = "new" => \A w \in Workers : wpc[w] = "off"

IInv == Typed /\ OnePlace /\ Staged /\ Unstarted /\ (state \in Live => Counted /\ Pausing)

-----------------------------------------------------------------------------
(* Grants. *)

(* A set of naturals that is not empty has a least element. *)
LEMMA Least ==
  ASSUME NEW S, S \subseteq Nat, S # {}
  PROVE  \E x \in S : \A y \in S : x <= y
<1>1. PICK x \in S : \A y \in S : ~(<<y, x>> \in OpToRel(<, Nat))
  BY WFMin, NatLessThanWellFounded, Zenon
<1>2. \A y \in S : ~(y < x)
  BY <1>1, Zenon DEF OpToRel
<1>3. x \in Nat /\ \A y \in S : y \in Nat
  BY Zenon
<1> QED BY <1>2, <1>3

\* The number of waiting entries grows by at most one from entry to entry.
LEMMA WaitingGrows ==
  ASSUME NEW q, NEW w, NEW k \in Nat
  PROVE  /\ IsFiniteSet(Waiting(q, w, k)) /\ Cardinality(Waiting(q, w, k)) \in Nat
         /\ Cardinality(Waiting(q, w, 0)) = 0
         /\ Cardinality(Waiting(q, w, k + 1)) <= Cardinality(Waiting(q, w, k)) + 1
<1>1. \A n \in Nat : IsFiniteSet(Waiting(q, w, n)) /\ Cardinality(Waiting(q, w, n)) \in Nat
  <2> SUFFICES ASSUME NEW n \in Nat
               PROVE  IsFiniteSet(Waiting(q, w, n)) /\ Cardinality(Waiting(q, w, n)) \in Nat
    OBVIOUS
  <2>1. IsFiniteSet(1 .. n)
    BY FS_Interval
  <2>2. Waiting(q, w, n) \in SUBSET (1 .. n)
    BY Zenon DEF Waiting
  <2> QED BY <2>1, <2>2, FS_Subset, FS_CardinalityType, Zenon
<1>2. Waiting(q, w, 0) = {}
  BY DEF Waiting
<1>3. Waiting(q, w, k + 1) \in SUBSET (Waiting(q, w, k) \cup {k + 1})
  <2>1. \A i \in 1 .. k + 1 : i \in 1 .. k \/ i = k + 1
    OBVIOUS
  <2> QED BY <2>1, Zenon DEF Waiting
<1>4. k + 1 \in Nat
  OBVIOUS
<1> DEFINE X == Waiting(q, w, k)
           Y == X \cup {k + 1}
<1> HIDE DEF X
<1>5. IsFiniteSet(X) /\ Cardinality(X) \in Nat
  BY <1>1, Zenon DEF X
<1>6. IsFiniteSet(Y) /\ (Cardinality(Y) = Cardinality(X) + 1 \/ Cardinality(Y) = Cardinality(X))
  BY <1>5, FS_AddElement, Zenon
<1>7. Cardinality(Waiting(q, w, k + 1)) <= Cardinality(Y)
  BY <1>3, <1>6, FS_Subset, Zenon DEF X
<1>8. Cardinality(Waiting(q, w, k + 1)) \in Nat
  BY <1>1, <1>4, Zenon
<1>9. Cardinality(Waiting(q, w, k + 1)) <= Cardinality(X) + 1
  BY <1>5, <1>6, <1>7, <1>8
<1> QED BY <1>1, <1>2, <1>9, FS_EmptySet, Zenon DEF X

\* _grant_waiters_locked takes entries of the deque and grants no more than the
\* slots that are free.
LEMMA Granting ==
  ASSUME NEW S, NEW q \in Seq(S), NEW w, NEW free \in Nat
  PROVE  /\ Popped(q, w, free) \in 0 .. Len(q)
         /\ Cardinality(Waiting(q, w, Popped(q, w, free))) <= free
<1> DEFINE N(k) == Cardinality(Waiting(q, w, k))
           n == Len(q)
<1>1. n \in Nat
  OBVIOUS
<1> HIDE DEF n
<1>2. N(n) \in Nat
  BY <1>1, WaitingGrows, Zenon
<1>3. CASE N(n) < free
  <2>1. Popped(q, w, free) = n
    BY <1>3, Zenon DEF Popped, n
  <2> QED BY <1>1, <1>2, <1>3, <2>1 DEF n
<1>4. CASE ~(N(n) < free)
  <2> DEFINE A == {k \in 0 .. n : ~(N(k) < free)}
  <2>1. n \in A /\ A \subseteq Nat
    BY <1>1, <1>4
  <2>2. PICK k \in A : \A j \in A : k <= j
    <3> HIDE DEF A
    <3> QED BY <2>1, Least, Zenon
  <2>3. k \in 0 .. n /\ ~(N(k) < free) /\ k \in Nat
    BY <2>1, <2>2, Zenon
  <2>4. \A j \in 0 .. k - 1 : N(j) < free
    <3> SUFFICES ASSUME NEW j \in 0 .. k - 1, ~(N(j) < free) PROVE FALSE
      OBVIOUS
    <3>1. j \in 0 .. n /\ ~(k <= j)
      BY <1>1, <2>3
    <3>2. j \in A
      BY <3>1, Zenon
    <3> QED BY <2>2, <3>1, <3>2, Zenon
  <2>5. N(k) = free
    <3>1. CASE k = 0
      <4>1. N(k) = 0
        BY <3>1, WaitingGrows, <2>3, Zenon
      <4> QED BY <2>3, <4>1
    <3>2. CASE k # 0
      <4> DEFINE p == k - 1
      <4>1. p \in Nat /\ p + 1 = k /\ p \in 0 .. k - 1
        BY <2>3, <3>2
      <4> HIDE DEF p
      <4>2. N(p) \in Nat /\ N(p + 1) <= N(p) + 1
        BY <4>1, WaitingGrows, Zenon
      <4>3. N(p) < free
        BY <2>4, <4>1, Zenon
      <4>4. N(k) \in Nat
        BY <2>3, WaitingGrows, Zenon
      <4>5. N(k) <= N(p) + 1
        BY <4>1, <4>2, Zenon
      <4> HIDE DEF N
      <4> QED BY <2>3, <4>2, <4>3, <4>4, <4>5
    <3> QED BY <3>1, <3>2, Zenon
  <2>6. Popped(q, w, free) = CHOOSE x \in 0 .. n : N(x) = free /\ \A j \in 0 .. x - 1 : N(j) < free
    BY <1>4, Zenon DEF Popped, n
  <2>7. Popped(q, w, free) \in 0 .. n /\ N(Popped(q, w, free)) = free
    BY <2>3, <2>4, <2>5, <2>6, Zenon
  <2> QED BY <2>7 DEF n
<1> QED BY <1>3, <1>4, Zenon

\* _discard_inactive_waiters_locked leaves a tail of the deque.
LEMMA ActiveIsTail ==
  ASSUME NEW S, NEW q \in Seq(S), NEW w
  PROVE  Active(q, w) \in Seq(S)
<1> DEFINE n == Len(q)
           A == {k \in 0 .. n : k < n => w[q[k + 1]] = "waiting"}
           P(k) == (\A i \in 1 .. k : w[q[i]] # "waiting") /\ (k < n => w[q[k + 1]] = "waiting")
<1>1. n \in Nat /\ n \in A /\ A \subseteq Nat
  OBVIOUS
<1>2. PICK k \in A : \A j \in A : k <= j
  <2> HIDE DEF A
  <2> QED BY <1>1, Least, Zenon
<1>3. k \in 0 .. n /\ (k < n => w[q[k + 1]] = "waiting")
  BY <1>2, Zenon
<1>4. \A i \in 1 .. k : w[q[i]] # "waiting"
  <2> SUFFICES ASSUME NEW i \in 1 .. k, w[q[i]] = "waiting" PROVE FALSE
    OBVIOUS
  <2> DEFINE j == i - 1
  <2>1. j \in 0 .. n /\ j + 1 = i /\ ~(k <= j)
    BY <1>1, <1>3
  <2> HIDE DEF j
  <2>2. j \in A
    BY <2>1, Zenon
  <2> QED BY <1>2, <2>1, <2>2, Zenon
<1> HIDE DEF A
<1>5. \E x \in 0 .. n : P(x)
  BY <1>3, <1>4, Zenon
<1> DEFINE x == CHOOSE x \in 0 .. n : P(x)
<1>6. x \in 0 .. n
  BY <1>5, Zenon
<1>7. Active(q, w) = SubSeq(q, x + 1, n)
  BY Zenon DEF Active
<1> HIDE DEF x
<1> QED BY <1>1, <1>6, <1>7

\* Settle from o owned slots and waiters in states w grants to G.
Grants(G, o, w, qs) ==
  /\ IsFiniteSet(G) /\ Cardinality(G) \in Nat
  /\ state = "open" => o + Cardinality(G) <= capacity
  /\ state # "open" => G = {}
  /\ \A c \in G : w[c] = "waiting"
  /\ out' = o + Cardinality(G)
  /\ waiters' \in Seq(Callers)
  /\ wst' = [c \in Callers |-> IF c \in G THEN "granted" ELSE w[c]]
  /\ Advance(state, o + Cardinality(G), qs)

\* What _grant_waiters_locked and _advance_lifecycle_locked do together: the
\* grants go to callers that wait and never exceed the free slots.
LEMMA SettleEffect ==
  ASSUME Typed, NEW o, NEW w, NEW q \in Seq(Callers), NEW mail, NEW qs,
         state = "open" => o \in Nat /\ o <= capacity, Settle(o, w, q, mail, qs)
  PROVE  \E G \in SUBSET Callers : Grants(G, o, w, qs)
<1> DEFINE k == IF state = "open" THEN Popped(q, w, capacity - o) ELSE 0
           I == Waiting(q, w, k)
           G == {q[i] : i \in I}
<1>1. /\ out' = o + Cardinality(G) /\ waiters' = SubSeq(q, k + 1, Len(q))
      /\ wst' = [c \in Callers |-> IF c \in G THEN "granted" ELSE w[c]]
      /\ Advance(state, o + Cardinality(G), qs)
  BY Zenon DEF Settle
<1>2. k \in 0 .. Len(q) /\ (state = "open" => Cardinality(I) <= capacity - o)
  <2>1. CASE state = "open"
    <3>1. capacity - o \in Nat
      BY <2>1 DEF Typed
    <3> QED BY <2>1, <3>1, Granting, Zenon
  <2>2. CASE state # "open"
    <3>1. 0 \in 0 .. Len(q)
      OBVIOUS
    <3> QED BY <2>2, <3>1, Zenon
  <2> QED BY <2>1, <2>2, Zenon
<1>3. state # "open" => I = {}
  BY DEF Waiting
<1> HIDE DEF k
<1>4. k \in Nat /\ \A i \in I : i \in 1 .. Len(q) /\ w[q[i]] = "waiting"
  BY <1>2 DEF Waiting
<1>5. IsFiniteSet(I) /\ Cardinality(I) \in Nat
  BY <1>4, WaitingGrows, Zenon
<1> HIDE DEF I
<1>6. G \in SUBSET Callers /\ \A c \in G : w[c] = "waiting"
  BY <1>4
<1>7. IsFiniteSet(G) /\ Cardinality(G) <= Cardinality(I)
  <2> DEFINE f == [i \in I |-> q[i]]
  <2>1. f \in Surjection(I, G)
    BY DEF Surjection
  <2> HIDE DEF f, G
  <2> QED BY <1>5, <2>1, FS_Surjection, Zenon
<1>8. state # "open" => G = {}
  BY <1>3, Zenon
<1> HIDE DEF G
<1>9. Cardinality(G) \in Nat
  BY <1>7, FS_CardinalityType, Zenon
<1>10. state = "open" => o + Cardinality(G) <= capacity
  BY <1>2, <1>5, <1>7, <1>9 DEF Typed
<1>11. waiters' \in Seq(Callers)
  BY <1>1, <1>2
<1> QED BY <1>1, <1>6, <1>7, <1>8, <1>9, <1>10, <1>11, Zenon DEF Grants

-----------------------------------------------------------------------------
(* Places. *)

\* The controls of a pause or of a close move no request.
LEMMA AdvanceEffect ==
  ASSUME NEW qs \in [Workers -> Seq(Callers \cup Controls)], NEW st, NEW o, Advance(st, o, qs)
  PROVE  /\ queue' \in [Workers -> Seq(Callers \cup Controls)]
         /\ \A c \in Callers, w \in Workers, i \in Nat : At(queue', c, w, i) <=> At(qs, c, w, i)
<1>1. \E x \in Controls : queue' = qs \/ queue' = ToAll(qs, x)
  BY Zenon DEF Advance, Controls
<1>2. CASE queue' = qs
  BY <1>2
<1>3. ASSUME NEW x \in Controls, queue' = ToAll(qs, x)
      PROVE  /\ queue' \in [Workers -> Seq(Callers \cup Controls)]
             /\ \A c \in Callers, w \in Workers, i \in Nat : At(queue', c, w, i) <=> At(qs, c, w, i)
  <2>1. \A c \in Callers : c # x
    BY PoolConstants DEF Controls
  <2>2. queue' \in [Workers -> Seq(Callers \cup Controls)]
    <3>1. \A w \in Workers : Append(qs[w], x) \in Seq(Callers \cup Controls)
      OBVIOUS
    <3> QED BY <1>3, <3>1, Zenon DEF ToAll
  <2>3. ASSUME NEW c \in Callers, NEW w \in Workers, NEW i \in Nat
        PROVE  At(queue', c, w, i) <=> At(qs, c, w, i)
    <3>1. queue'[w] = Append(qs[w], x) /\ qs[w] \in Seq(Callers \cup Controls)
      BY <1>3, Zenon DEF ToAll
    <3>2. c # x
      BY <2>1
    <3> HIDE <1>3
    <3> QED BY <3>1, <3>2 DEF At
  <2> QED BY <2>2, <2>3
<1> QED BY <1>1, <1>2, <1>3, Zenon

\* Taking the head of one queue moves the requests behind it up by one.
LEMMA TailEffect ==
  ASSUME Typed, NEW w \in Workers, queue[w] # <<>>
  PROVE  LET rest == [queue EXCEPT ![w] = Tail(@)]
         IN /\ rest \in [Workers -> Seq(Callers \cup Controls)]
            /\ \A v \in Workers : rest[v] = IF v = w THEN Tail(queue[w]) ELSE queue[v]
            /\ \A c \in Callers, v \in Workers, i \in Nat :
                 At(rest, c, v, i) => Sits(c, v, i + [u \in Workers |-> IF u = w THEN 1 ELSE 0][v])
<1> DEFINE rest == [queue EXCEPT ![w] = Tail(@)]
<1>1. queue \in [Workers -> Seq(Callers \cup Controls)]
  BY DEF Typed
<1>2. Tail(queue[w]) \in Seq(Callers \cup Controls)
  BY <1>1
<1>3. \A v \in Workers : rest[v] = IF v = w THEN Tail(queue[w]) ELSE queue[v]
  BY <1>1
<1>4. rest \in [Workers -> Seq(Callers \cup Controls)]
  BY <1>1, <1>2
<1> HIDE DEF rest
<1>5. ASSUME NEW c \in Callers, NEW v \in Workers, NEW i \in Nat, At(rest, c, v, i)
      PROVE  Sits(c, v, i + [u \in Workers |-> IF u = w THEN 1 ELSE 0][v])
  <2>1. CASE v = w
    <3>1. queue[w] \in Seq(Callers \cup Controls) /\ rest[v] = Tail(queue[w])
      BY <1>1, <1>3, <2>1, Zenon
    <3>2. Sits(c, v, i + 1)
      BY <1>5, <3>1, <2>1 DEF At, Sits
    <3> QED BY <2>1, <3>2
  <2>2. CASE v # w
    <3>1. i + 0 = i
      OBVIOUS
    <3>2. Sits(c, v, i + 0)
      BY <1>3, <1>5, <2>2, <3>1 DEF At, Sits
    <3> QED BY <2>2, <3>2
  <2> QED BY <2>1, <2>2
<1> QED BY <1>3, <1>4, <1>5, Zenon DEF rest

\* Requests leave their place or stay: d says which queues lose their head.
LEMMA PlacesKept ==
  ASSUME OnePlace, NEW d \in [Workers -> {0, 1}],
         \A c \in Callers, v \in Workers, i \in Nat : At(queue', c, v, i) => Sits(c, v, i + d[v]),
         \A v \in Workers : cur'[v] \in Callers => cur'[v] = cur[v],
         \A v \in Workers : wpc'[v] \in Working <=> cur'[v] \in Callers
  PROVE  OnePlace' /\ \A c \in Callers : NoRequest(c) => NoRequest(c)'
<1>1. \A v \in Workers, i \in Nat : i + d[v] \in Nat
  OBVIOUS
<1>2. \A v, w \in Workers : cur'[v] \in Callers /\ cur'[v] = cur'[w] => v = w
  BY Zenon DEF OnePlace
<1>3. ASSUME NEW c \in Callers, NEW v \in Workers, NEW w \in Workers, NEW i \in Nat, NEW j \in Nat,
             At(queue', c, v, i), At(queue', c, w, j)
      PROVE  v = w /\ i = j
  <2>1. Sits(c, v, i + d[v]) /\ Sits(c, w, j + d[w])
    BY <1>3
  <2>2. v = w /\ i + d[v] = j + d[w]
    BY <1>1, <2>1, Zenon DEF OnePlace
  <2>3. d[v] \in {0, 1}
    OBVIOUS
  <2> QED BY <2>2, <2>3
<1>4. ASSUME NEW c \in Callers, NEW v \in Workers, NEW w \in Workers, NEW i \in Nat, At(queue', c, v, i)
      PROVE  cur'[w] # c
  <2>1. Sits(c, v, i + d[v])
    BY <1>4
  <2>2. cur[w] # c
    BY <1>1, <2>1, Zenon DEF OnePlace
  <2> SUFFICES ASSUME cur'[w] = c PROVE FALSE
    OBVIOUS
  <2>3. cur'[w] \in Callers
    BY Zenon
  <2> QED BY <2>2, <2>3, Zenon
<1>5. OnePlace'
  BY <1>2, <1>3, <1>4, Zenon DEF OnePlace, Sits
<1>6. ASSUME NEW c \in Callers, NoRequest(c) PROVE NoRequest(c)'
  <2>1. ~Running(c)'
    BY <1>6, Zenon DEF NoRequest, Running
  <2>2. ASSUME NEW v \in Workers, NEW i \in 1 .. Len(queue'[v]), queue'[v][i] = c PROVE FALSE
    <3>1. i \in Nat /\ At(queue', c, v, i)
      BY <2>2 DEF At
    <3>2. Sits(c, v, i + d[v])
      BY <3>1
    <3> QED BY <1>6, <3>2, Zenon DEF NoRequest, InQueue, Sits, At
  <2> QED BY <2>1, <2>2, Zenon DEF NoRequest, InQueue
<1> QED BY <1>5, <1>6, Zenon

\* Who enters the line, or keeps a place in it, makes no request by that.
LEMMA StagedKept ==
  ASSUME Staged, \A c \in Callers : NoRequest(c) => NoRequest(c)',
         \A c \in Callers : pc'[c] \in {"idle", "waiting", "admitted"} =>
           pc[c] \in {"idle", "waiting", "admitted"},
         \A c \in Callers : wst'[c] \in Entered =>
           /\ wst[c] \in Entered \/ pc[c] = "idle"
           /\ pc'[c] \in {"waiting", "ended"}
  PROVE  Staged'
<1> SUFFICES ASSUME NEW c \in Callers
             PROVE  /\ pc'[c] \in {"idle", "waiting", "admitted"} => NoRequest(c)'
                    /\ wst'[c] \in Entered => pc'[c] \in {"waiting", "ended"} /\ NoRequest(c)'
  BY Zenon DEF Staged
<1>1. pc[c] = "idle" => pc[c] \in {"idle", "waiting", "admitted"}
  BY Zenon
<1>2. pc[c] \in {"idle", "waiting", "admitted"} => NoRequest(c)'
  BY Zenon DEF Staged
<1>3. wst[c] \in Entered => NoRequest(c)'
  BY Zenon DEF Staged
<1>4. wst'[c] \in Entered => NoRequest(c)'
  BY <1>1, <1>2, <1>3, Zenon
<1> QED BY <1>2, <1>4, Zenon

\* A step that keeps the slots of A and grants to G: the counter is right
\* again, and a pause whose last slot is free sends its controls into queues
\* that are empty.
LEMMA CountsAgain ==
  ASSUME IInv, state \in Live,
         state' = state \/ (state = "open" /\ state' = "pausing"), acks' = acks, conn' = conn, fatal' = fatal,
         capacity' = capacity,
         \A w \in Workers : wpc'[w] \notin {"failing", "drain", "exit", "dead"},
         NEW A \in SUBSET Owners, NEW G \in SUBSET Callers, IsFiniteSet(G), A \cap G = {},
         state' = "open" => Cardinality(A) + Cardinality(G) <= capacity,
         state' # "open" => G = {},
         Owners' = A \cup G, out' = Cardinality(A) + Cardinality(G),
         Advance(state', Cardinality(A) + Cardinality(G), queue)
  PROVE  Counted' /\ Pausing'
<1> DEFINE a == Cardinality(A)
           g == Cardinality(G)
<1>1. Counted /\ Pausing /\ Typed
  BY Zenon DEF IInv
<1>2. IsFiniteSet(A) /\ a \in Nat /\ g \in Nat /\ a <= out
  BY <1>1, FS_Subset, FS_CardinalityType, Zenon DEF Counted
<1>3. IsFiniteSet(A \cup G) /\ Cardinality(A \cup G) = a + g
  <2>1. IsFiniteSet(A \cup G) /\ Cardinality(A \cup G) = a + g - Cardinality(A \cap G)
    BY <1>2, FS_Union, Zenon
  <2>2. Cardinality(A \cap G) = 0
    BY FS_EmptySet, Zenon
  <2> QED BY <1>2, <2>1, <2>2
<1>4. a + g <= capacity
  <2>1. CASE state' = "open"
    BY <2>1
  <2>2. CASE state' # "open"
    <3>1. g = 0
      BY <2>2, FS_EmptySet, Zenon
    <3>2. out \in Nat
      BY <1>1, FS_CardinalityType, Zenon DEF Counted
    <3>3. out <= capacity
      BY <1>1 DEF Counted
    <3> HIDE DEF a, g
    <3> QED BY <1>1, <1>2, <3>1, <3>2, <3>3 DEF Typed
  <2> QED BY <2>1, <2>2
<1>5. Counted'
  BY <1>3, <1>4, Zenon DEF Counted
<1>6. state' # "closing" /\ ~stopSet /\ ~stopSet'
  <2>1. state' # "closing" /\ ~stopSet
    BY <1>1, Zenon DEF Pausing, Live
  <2> QED BY <2>1, Zenon DEF Advance
<1>7. CASE pauseSet
  <2>1. state \in {"pausing", "paused"} /\ Owners = {} /\ state' = state
    BY <1>1, <1>7, Zenon DEF Pausing
  <2>2. Owners' = {}
    <3>1. G = {} /\ A = {}
      BY <2>1, Zenon
    <3> QED BY <3>1, Zenon
  <2>3. queue' = queue /\ pauseSet' = TRUE
    BY <1>6, <1>7, Zenon DEF Advance
  <2>4. Acked' = Acked
    BY <2>3, Zenon DEF Acked
  <2> QED BY <1>1, <1>5, <1>6, <1>7, <2>1, <2>2, <2>3, <2>4, Zenon DEF Pausing
<1>8. CASE ~pauseSet /\ a + g = 0 /\ state' = "pausing"
  <2>1. queue' = ToAll(queue, "PAUSE") /\ pauseSet' = TRUE
    BY <1>8, Zenon DEF Advance
  <2>2. Owners' = {}
    BY <1>3, <1>8, FS_EmptySet, Zenon
  <2>3. ASSUME NEW w \in Workers PROVE queue[w] = <<>>
    <3> SUFFICES ASSUME queue[w] # <<>> PROVE FALSE
      OBVIOUS
    <3>1. queue[w] \in Seq(Callers)
      BY <1>1, <1>8, Zenon DEF Pausing
    <3>2. queue'[w] = Append(queue[w], "PAUSE")
      BY <2>1, Zenon DEF ToAll
    <3>3. queue'[w][1] \in Callers /\ 1 \in 1 .. Len(queue'[w])
      BY <3>1, <3>2
    <3> QED BY <2>2, <3>3, Zenon DEF Owners, InQueue
  <2>4. ASSUME NEW w \in Workers PROVE queue'[w] = <<"PAUSE">>
    <3>1. queue'[w] = Append(queue[w], "PAUSE")
      BY <2>1, Zenon DEF ToAll
    <3>2. queue[w] = <<>>
      BY <2>3
    <3>3. Append(<<>>, "PAUSE") = <<"PAUSE">>
      OBVIOUS
    <3> QED BY <3>1, <3>2, <3>3, Zenon
  <2>5. Acked' = {}
    <3>1. <<"PAUSE">> # <<>>
      OBVIOUS
    <3>2. \A w \in Workers : queue'[w] # <<>>
      BY <2>4, <3>1, Zenon
    <3> QED BY <3>2, Zenon DEF Acked
  <2>6. acks = 0
    BY <1>1, <1>8, Zenon DEF Pausing
  <2>7. acks' = Cardinality(Acked')
    BY <2>5, <2>6, FS_EmptySet, Zenon
  <2>8. state' # "paused"
    BY <1>8
  <2> QED BY <1>1, <1>5, <1>6, <1>8, <2>1, <2>2, <2>4, <2>5, <2>7, <2>8, Zenon DEF Pausing
<1>9. CASE ~pauseSet /\ ~(a + g = 0 /\ state' = "pausing")
  <2>1. queue' = queue /\ pauseSet' = FALSE
    <3>1. pauseSet' = FALSE
      BY <1>9, Zenon DEF Advance
    <3> QED BY <1>6, <1>9, <3>1, Zenon DEF Advance
  <2> QED BY <1>1, <1>5, <1>6, <1>9, <2>1, Zenon DEF Pausing
<1> QED BY <1>7, <1>8, <1>9, Zenon

\* The same for a step that leaves the lifecycle state alone.
LEMMA SettleLive ==
  ASSUME IInv, state \in Live, state' = state, acks' = acks, conn' = conn, fatal' = fatal,
         capacity' = capacity,
         \A w \in Workers : wpc'[w] \notin {"failing", "drain", "exit", "dead"},
         NEW A \in SUBSET Owners, NEW G \in SUBSET Callers, IsFiniteSet(G), A \cap G = {},
         state = "open" => Cardinality(A) + Cardinality(G) <= capacity,
         state # "open" => G = {},
         Owners' = A \cup G, out' = Cardinality(A) + Cardinality(G),
         Advance(state, Cardinality(A) + Cardinality(G), queue)
  PROVE  Counted' /\ Pausing'
<1>1. /\ state' = "open" => Cardinality(A) + Cardinality(G) <= capacity
      /\ state' # "open" => G = {}
      /\ Advance(state', Cardinality(A) + Cardinality(G), queue)
  BY Zenon DEF Advance
<1> QED BY <1>1, CountsAgain, Zenon

\* Requests that keep their positions are still queued, and no other is.
LEMMA QueuesKept ==
  ASSUME \A c \in Callers, w \in Workers, i \in Nat : At(queue', c, w, i) <=> Sits(c, w, i)
  PROVE  \A c \in Callers : InQueue(c)' <=> InQueue(c)
<1> SUFFICES ASSUME NEW c \in Callers PROVE InQueue(c)' <=> InQueue(c)
  OBVIOUS
<1>1. \A w \in Workers : \A i \in 1 .. Len(queue[w]) : i \in Nat
  OBVIOUS
<1>2. \A w \in Workers : \A i \in 1 .. Len(queue'[w]) : i \in Nat
  OBVIOUS
<1>3. InQueue(c)' => InQueue(c)
  BY <1>2, Zenon DEF InQueue, Sits, At
<1>4. InQueue(c) => InQueue(c)'
  BY <1>1, Zenon DEF InQueue, Sits, At
<1> QED BY <1>3, <1>4, Zenon

\* The requests stay where they are: what Settle and the workers' reads share.
LEMMA PlacesSame ==
  ASSUME OnePlace, \A c \in Callers, w \in Workers, i \in Nat : At(queue', c, w, i) <=> Sits(c, w, i),
         cur' = cur, \A w \in Workers : wpc'[w] \in Working <=> wpc[w] \in Working
  PROVE  /\ OnePlace' /\ \A c \in Callers : NoRequest(c) => NoRequest(c)'
         /\ \A c \in Callers : (InQueue(c)' <=> InQueue(c)) /\ (Running(c)' <=> Running(c))
<1> DEFINE d == [w \in Workers |-> 0]
<1>1. d \in [Workers -> {0, 1}] /\ \A w \in Workers, i \in Nat : i + d[w] = i
  OBVIOUS
<1> HIDE DEF d
<1>2. \A c \in Callers, w \in Workers, i \in Nat : At(queue', c, w, i) => Sits(c, w, i + d[w])
  BY <1>1, Zenon
<1>3. \A w \in Workers : wpc'[w] \in Working <=> cur'[w] \in Callers
  BY Zenon DEF OnePlace
<1>4. \A w \in Workers : cur'[w] \in Callers => cur'[w] = cur[w]
  BY Zenon
<1>5. OnePlace' /\ \A c \in Callers : NoRequest(c) => NoRequest(c)'
  BY <1>1, <1>2, <1>3, <1>4, PlacesKept, Zenon
<1> QED BY <1>5, QueuesKept, Zenon DEF Running

\* _cancel_admission by a caller that waits or has gone.
LEMMA WithdrawStep ==
  ASSUME IInv, NEW c \in Callers, NEW mail, Withdraw(c, mail), pc[c] \in {"waiting", "ended"},
         pc' = pc \/ pc' = [pc EXCEPT ![c] = "ended"],
         state' = state, acks' = acks, next' = next, wpc' = wpc, cur' = cur, conn' = conn,
         fatal' = fatal, capacity' = capacity
  PROVE  IInv'
<1> DEFINE o == IF wst[c] = "granted" THEN out - 1 ELSE out
           w == [wst EXCEPT ![c] = IF @ \in {"waiting", "granted"} THEN "cancelled" ELSE @]
           A == IF wst[c] = "granted" THEN Owners \ {c} ELSE Owners
<1>1. Typed /\ OnePlace /\ Staged
  BY Zenon DEF IInv
<1>2. /\ \A x \in Callers : x # c => w[x] = wst[x]
      /\ w[c] \notin Entered /\ w \in [Callers -> WaiterStates]
  BY <1>1 DEF Typed, Entered, WaiterStates
<1>3. state \in Live => /\ A \in SUBSET Owners /\ o = Cardinality(A)
                        /\ o \in Nat /\ o <= capacity
  <2> SUFFICES ASSUME state \in Live
               PROVE  A \in SUBSET Owners /\ o = Cardinality(A) /\ o \in Nat /\ o <= capacity
    OBVIOUS
  <2>1. IsFiniteSet(Owners) /\ out = Cardinality(Owners) /\ out <= capacity
    BY Zenon DEF IInv, Counted
  <2>2. out \in Nat
    BY <2>1, FS_CardinalityType, Zenon
  <2>3. CASE wst[c] = "granted"
    <3>1. c \in Owners
      BY <2>3, Zenon DEF Owners
    <3>2. IsFiniteSet(A) /\ Cardinality(A) = out - 1
      BY <2>1, <2>3, <3>1, FS_RemoveElement, Zenon
    <3>3. Cardinality(A) \in Nat
      BY <3>2, FS_CardinalityType, Zenon
    <3>4. o = out - 1 /\ A \in SUBSET Owners
      BY <2>3, Zenon
    <3> HIDE DEF A, o
    <3>5. o \in Nat /\ o <= capacity
      BY <1>1, <2>1, <2>2, <3>2, <3>3, <3>4 DEF Typed
    <3> QED BY <3>2, <3>4, <3>5, Zenon
  <2>4. CASE wst[c] # "granted"
    BY <2>1, <2>2, <2>4, Zenon
  <2> QED BY <2>3, <2>4, Zenon
<1>4. Settle(o, w, waiters, mail, queue)
  BY Zenon DEF Withdraw
<1>5. waiters \in Seq(Callers) /\ queue \in [Workers -> Seq(Callers \cup Controls)]
  BY <1>1, Zenon DEF Typed
<1> HIDE DEF o, w
<1>6. state = "open" => o \in Nat /\ o <= capacity
  BY <1>3, Zenon DEF Live
<1>7a. PICK G \in SUBSET Callers : Grants(G, o, w, queue)
  BY <1>1, <1>4, <1>5, <1>6, SettleEffect, Zenon
<1>7. /\ IsFiniteSet(G) /\ Cardinality(G) \in Nat
      /\ state = "open" => o + Cardinality(G) <= capacity
      /\ state # "open" => G = {}
      /\ \A x \in G : w[x] = "waiting"
      /\ out' = o + Cardinality(G)
      /\ waiters' \in Seq(Callers)
      /\ wst' = [x \in Callers |-> IF x \in G THEN "granted" ELSE w[x]]
      /\ Advance(state, o + Cardinality(G), queue)
  BY <1>7a, Zenon DEF Grants
<1>8. /\ queue' \in [Workers -> Seq(Callers \cup Controls)]
      /\ \A x \in Callers, v \in Workers, i \in Nat : At(queue', x, v, i) <=> Sits(x, v, i)
  BY <1>5, <1>7, AdvanceEffect, Zenon DEF Sits
<1>9. /\ OnePlace' /\ \A x \in Callers : NoRequest(x) => NoRequest(x)'
      /\ \A x \in Callers : (InQueue(x)' <=> InQueue(x)) /\ (Running(x)' <=> Running(x))
  BY <1>1, <1>8, PlacesSame, Zenon
<1>10. \A x \in Callers : wst'[x] = IF x \in G THEN "granted" ELSE w[x]
  BY <1>7, Zenon
<1>11. pc' \in [Callers -> CallerStates] /\ \A x \in Callers : pc'[x] = pc[x] \/ (pc'[x] = "ended" /\ x = c)
  BY <1>1, Zenon DEF Typed, CallerStates
<1>12. Typed'
  <2>1. wst' \in [Callers -> WaiterStates]
    BY <1>2, <1>7, Zenon DEF WaiterStates
  <2> QED BY <1>1, <1>7, <1>8, <1>11, <2>1, Zenon DEF Typed
<1>13. \A x \in G : x # c /\ wst[x] = "waiting" /\ x \notin Owners
  <2> SUFFICES ASSUME NEW x \in G PROVE x # c /\ wst[x] = "waiting" /\ x \notin Owners
    OBVIOUS
  <2>1. x \in Callers /\ w[x] = "waiting"
    BY <1>7, Zenon
  <2>2. x # c /\ wst[x] = "waiting"
    BY <1>2, <2>1, Zenon DEF Entered
  <2>3. pc[x] \in {"waiting", "ended"} /\ NoRequest(x)
    BY <1>1, <2>1, <2>2, Zenon DEF Staged, Entered
  <2> QED BY <2>2, <2>3, Zenon DEF Owners, NoRequest
<1>14. ASSUME NEW x \in Callers, wst'[x] \in Entered
       PROVE  wst[x] \in Entered /\ pc'[x] \in {"waiting", "ended"}
  <2>1. wst[x] \in Entered
    <3>1. CASE x \in G
      BY <1>13, <3>1, Zenon DEF Entered
    <3>2. CASE x \notin G
      BY <1>2, <1>10, <1>14, <3>2, Zenon
    <3> QED BY <3>1, <3>2, Zenon
  <2>2. pc[x] \in {"waiting", "ended"}
    BY <1>1, <2>1, Zenon DEF Staged
  <2> QED BY <1>11, <2>1, <2>2, Zenon
<1>15. Staged'
  <2>1. \A x \in Callers : pc'[x] \in {"idle", "waiting", "admitted"} => pc[x] \in {"idle", "waiting", "admitted"}
    BY <1>11, Zenon
  <2> QED BY <1>1, <1>9, <1>14, <2>1, StagedKept, Zenon
<1>16. ASSUME state \in Live PROVE Counted' /\ Pausing'
  <2>1. A \in SUBSET Owners /\ o = Cardinality(A)
    BY <1>3, <1>16, Zenon
  <2>2. A \cap G = {}
    BY <1>13, <2>1, Zenon
  <2>3. ASSUME NEW x \in Callers PROVE x \in Owners' <=> x \in A \/ x \in G
    <3>1. pc'[x] = "admitted" <=> pc[x] = "admitted"
      BY <1>11, Zenon
    <3>2. wst'[x] = "granted" <=> x \in G \/ (x # c /\ wst[x] = "granted")
      BY <1>2, <1>10, Zenon DEF Entered
    <3>3. x \in Owners' <=> \/ pc[x] = "admitted" \/ InQueue(x) \/ Running(x) 
                            \/ x \in G \/ (x # c /\ wst[x] = "granted")
      BY <1>9, <3>1, <3>2, Zenon DEF Owners
    <3>4. x = c /\ wst[c] = "granted" => ~(pc[x] = "admitted" \/ InQueue(x) \/ Running(x))
      BY <1>1, Zenon DEF Staged, NoRequest, Entered
    <3> QED BY <3>3, <3>4, Zenon DEF Owners
  <2>4. Owners' = A \cup G
    <3>1. Owners' \subseteq Callers /\ Owners \subseteq Callers
      BY Zenon DEF Owners
    <3> QED BY <2>1, <2>3, <3>1, Zenon
  <2>5. \A v \in Workers : wpc'[v] \notin {"failing", "drain", "exit", "dead"}
    BY <1>16, Zenon DEF IInv, Pausing
  <2> HIDE DEF A
  <2> QED BY <1>7, <1>16, <2>1, <2>2, <2>4, <2>5, SettleLive, Zenon
<1> QED BY <1>9, <1>12, <1>15, <1>16, Zenon DEF IInv, Unstarted

\* A worker ends its request and frees the slot (_run_request's finally, and
\* the failing worker's own request).
LEMMA FreeStep ==
  ASSUME IInv, NEW v \in Workers, NEW s \in {"get", "drain"}, wpc[v] \in {"release", "failing"},
         state \in Live => s = "get", NEW mail,
         wpc' = [wpc EXCEPT ![v] = s], cur' = [cur EXCEPT ![v] = NoCall],
         Settle(out - 1, wst, waiters, mail, queue),
         state' = state, pc' = pc, acks' = acks, next' = next, conn' = conn, fatal' = fatal,
         capacity' = capacity
  PROVE  IInv'
<1> DEFINE o == out - 1
           c == cur[v]
           A == Owners \ {c}
<1>1. Typed /\ OnePlace /\ Staged
  BY Zenon DEF IInv
<1>2. c \in Callers
  BY <1>1, Zenon DEF OnePlace, Working
<1>3. Running(c) /\ ~InQueue(c) /\ pc[c] # "admitted" /\ wst[c] # "granted"
  <2>1. Running(c)
    BY Zenon DEF Running
  <2>2. ~NoRequest(c)
    BY <2>1, Zenon DEF NoRequest
  <2>3. ~InQueue(c)
    <3>1. \A x \in Workers : \A i \in 1 .. Len(queue[x]) : i \in Nat
      OBVIOUS
    <3> QED BY <1>1, <1>2, <3>1, Zenon DEF OnePlace, InQueue, Sits, At
  <2> QED BY <1>1, <1>2, <2>1, <2>2, <2>3, Zenon DEF Staged, Entered
<1>4. state \in Live => o = Cardinality(A) /\ o \in Nat /\ o <= capacity
  <2> SUFFICES ASSUME state \in Live PROVE o = Cardinality(A) /\ o \in Nat /\ o <= capacity
    OBVIOUS
  <2>1. IsFiniteSet(Owners) /\ out = Cardinality(Owners) /\ out <= capacity
    BY Zenon DEF IInv, Counted
  <2>2. c \in Owners
    BY <1>2, <1>3, Zenon DEF Owners
  <2>3. IsFiniteSet(A) /\ Cardinality(A) = out - 1
    BY <2>1, <2>2, FS_RemoveElement, Zenon
  <2>4. Cardinality(A) \in Nat /\ out \in Nat
    BY <2>1, <2>3, FS_CardinalityType, Zenon
  <2> HIDE DEF A
  <2> QED BY <1>1, <2>1, <2>3, <2>4 DEF Typed
<1>5. waiters \in Seq(Callers) /\ queue \in [Workers -> Seq(Callers \cup Controls)]
  BY <1>1, Zenon DEF Typed
<1>a. Settle(o, wst, waiters, mail, queue)
  OBVIOUS
<1> HIDE DEF o
<1>6. state = "open" => o \in Nat /\ o <= capacity
  BY <1>4, Zenon DEF Live
<1>7a. PICK G \in SUBSET Callers : Grants(G, o, wst, queue)
  BY <1>1, <1>a, <1>5, <1>6, SettleEffect, Zenon
<1>7. /\ IsFiniteSet(G) /\ Cardinality(G) \in Nat
      /\ state = "open" => o + Cardinality(G) <= capacity
      /\ state # "open" => G = {}
      /\ \A x \in G : wst[x] = "waiting"
      /\ out' = o + Cardinality(G)
      /\ waiters' \in Seq(Callers)
      /\ wst' = [x \in Callers |-> IF x \in G THEN "granted" ELSE wst[x]]
      /\ Advance(state, o + Cardinality(G), queue)
  BY <1>7a, Zenon DEF Grants
<1>8. /\ queue' \in [Workers -> Seq(Callers \cup Controls)]
      /\ \A x \in Callers, u \in Workers, i \in Nat : At(queue', x, u, i) <=> Sits(x, u, i)
  BY <1>5, <1>7, AdvanceEffect, Zenon DEF Sits
<1>9. /\ \A u \in Workers : cur'[u] = IF u = v THEN NoCall ELSE cur[u]
      /\ \A u \in Workers : wpc'[u] = IF u = v THEN s ELSE wpc[u]
      /\ cur' \in [Workers -> Callers \cup {NoCall}] /\ wpc' \in [Workers -> ThreadStates]
  BY <1>1 DEF Typed, ThreadStates
<1>10. OnePlace' /\ \A x \in Callers : NoRequest(x) => NoRequest(x)'
  <2> DEFINE d == [u \in Workers |-> 0]
  <2>1. d \in [Workers -> {0, 1}] /\ \A u \in Workers, i \in Nat : i + d[u] = i
    OBVIOUS
  <2> HIDE DEF d
  <2>2. \A x \in Callers, u \in Workers, i \in Nat : At(queue', x, u, i) => Sits(x, u, i + d[u])
    BY <1>8, <2>1, Zenon
  <2>3. \A u \in Workers : cur'[u] \in Callers => cur'[u] = cur[u]
    BY <1>9, PoolConstants, Zenon
  <2>4. s \notin Working /\ NoCall \notin Callers
    BY PoolConstants, Zenon DEF Working
  <2>5. \A u \in Workers : wpc'[u] \in Working <=> cur'[u] \in Callers
    BY <1>1, <1>9, <2>4, Zenon DEF OnePlace
  <2> QED BY <1>1, <2>1, <2>2, <2>3, <2>5, PlacesKept, Zenon
<1>11. \A x \in Callers : InQueue(x)' <=> InQueue(x)
  BY <1>8, QueuesKept, Zenon
<1>12. ASSUME NEW x \in Callers PROVE Running(x)' <=> Running(x) /\ x # c
  <2>1. NoCall # x
    BY PoolConstants, Zenon
  <2>2. ASSUME NEW u \in Workers PROVE cur'[u] = x <=> cur[u] = x /\ x # c
    <3>1. CASE u = v
      BY <1>9, <2>1, <3>1, Zenon
    <3>2. CASE u # v
      BY <1>1, <1>2, <1>9, <3>2, Zenon DEF OnePlace
    <3> QED BY <3>1, <3>2, Zenon
  <2> QED BY <2>2, Zenon DEF Running
<1>13. \A x \in Callers : wst'[x] = IF x \in G THEN "granted" ELSE wst[x]
  BY <1>7, Zenon
<1>14. Typed'
  <2>1. wst' \in [Callers -> WaiterStates]
    BY <1>1, <1>7, Zenon DEF WaiterStates, Typed
  <2> QED BY <1>1, <1>7, <1>8, <1>9, <2>1, Zenon DEF Typed
<1>15. \A x \in G : x \notin Owners
  BY <1>1, <1>7, Zenon DEF Owners, Staged, NoRequest, Entered
<1>16. Staged'
  <2>1. \A x \in Callers : wst'[x] \in Entered => wst[x] \in Entered
    BY <1>7, <1>13, Zenon DEF Entered
  <2>2. \A x \in Callers : wst[x] \in Entered => pc'[x] \in {"waiting", "ended"}
    BY <1>1, Zenon DEF Staged
  <2>3. \A x \in Callers : pc'[x] \in {"idle", "waiting", "admitted"} => pc[x] \in {"idle", "waiting", "admitted"}
    BY Zenon
  <2> QED BY <1>1, <1>10, <2>1, <2>2, <2>3, StagedKept, Zenon
<1> HIDE DEF c
<1>17. ASSUME state \in Live PROVE Counted' /\ Pausing'
  <2>1. A \in SUBSET Owners /\ o = Cardinality(A) /\ A \cap G = {}
    BY <1>4, <1>15, <1>17, Zenon
  <2>2. ASSUME NEW x \in Callers PROVE x \in Owners' <=> x \in A \/ x \in G
    <3>1. x \in Owners' <=> \/ pc[x] = "admitted" \/ InQueue(x) \/ (Running(x) /\ x # c)
                            \/ x \in G \/ wst[x] = "granted"
      BY <1>11, <1>12, <1>13, Zenon DEF Owners
    <3> QED BY <1>3, <3>1, Zenon DEF Owners
  <2>3. Owners' = A \cup G
    <3>1. Owners' \subseteq Callers /\ Owners \subseteq Callers
      BY Zenon DEF Owners
    <3> QED BY <2>1, <2>2, <3>1, Zenon
  <2>4. \A u \in Workers : wpc'[u] \notin {"failing", "drain", "exit", "dead"}
    BY <1>9, <1>17, Zenon DEF IInv, Pausing
  <2> HIDE DEF A
  <2> QED BY <1>7, <1>17, <2>1, <2>3, <2>4, SettleLive, Zenon
<1>18. state # "new"
  BY Zenon DEF IInv, Unstarted
<1> QED BY <1>10, <1>14, <1>16, <1>17, <1>18, Zenon DEF IInv, Unstarted

\* Steps that move no request and give no slot: a caller ends, or a slot that
\* was granted is taken.  The owners are the same.
LEMMA CallerMoves ==
  ASSUME IInv, NEW c \in Callers, waiters' \in Seq(Callers),
         pc' \in [Callers -> CallerStates], \A x \in Callers : x # c => pc'[x] = pc[x],
         wst' \in [Callers -> WaiterStates], \A x \in Callers : x # c => wst'[x] = wst[x],
         pc'[c] \in {"idle", "waiting", "admitted"} => pc[c] \in {"idle", "waiting", "admitted"},
         wst'[c] \in Entered => wst[c] \in Entered /\ pc'[c] \in {"waiting", "ended"},
         (pc'[c] = "admitted" \/ wst'[c] = "granted") <=> (pc[c] = "admitted" \/ wst[c] = "granted"),
         state' = state, out' = out, queue' = queue, pauseSet' = pauseSet, stopSet' = stopSet,
         acks' = acks, next' = next, wpc' = wpc, cur' = cur, conn' = conn, fatal' = fatal,
         capacity' = capacity
  PROVE  IInv'
<1>1. Typed /\ OnePlace /\ Staged
  BY Zenon DEF IInv
<1>2. Typed'
  BY <1>1, Zenon DEF Typed
<1>3. \A x \in Callers, w \in Workers, i \in Nat : At(queue', x, w, i) <=> Sits(x, w, i)
  BY Zenon DEF Sits
<1>4. /\ OnePlace' /\ \A x \in Callers : NoRequest(x) => NoRequest(x)'
      /\ \A x \in Callers : (InQueue(x)' <=> InQueue(x)) /\ (Running(x)' <=> Running(x))
  BY <1>1, <1>3, PlacesSame, Zenon
<1>5. Staged'
  <2>1. \A x \in Callers : pc'[x] \in {"idle", "waiting", "admitted"} => pc[x] \in {"idle", "waiting", "admitted"}
    BY Zenon
  <2>2. \A x \in Callers : wst'[x] \in Entered => wst[x] \in Entered /\ pc'[x] \in {"waiting", "ended"}
    BY <1>1, Zenon DEF Staged
  <2> QED BY <1>1, <1>4, <2>1, <2>2, StagedKept, Zenon
<1>6. Owners' = Owners
  <2>1. ASSUME NEW x \in Callers
        PROVE (pc'[x] = "admitted" \/ wst'[x] = "granted") <=> (pc[x] = "admitted" \/ wst[x] = "granted")
    <3>1. CASE x = c
      BY <3>1, Zenon
    <3>2. CASE x # c
      BY <3>2, Zenon
    <3> QED BY <3>1, <3>2, Zenon
  <2>2. ASSUME NEW x \in Callers PROVE x \in Owners' <=> x \in Owners
    BY <1>4, <2>1, Zenon DEF Owners
  <2>3. Owners' \subseteq Callers /\ Owners \subseteq Callers
    BY Zenon DEF Owners
  <2> QED BY <2>2, <2>3, Zenon
<1>7. Acked' = Acked
  BY Zenon DEF Acked
<1>8. Counted => Counted'
  BY <1>6, Zenon DEF Counted
<1>9. Pausing => Pausing'
  BY <1>6, <1>7, Zenon DEF Pausing
<1> QED BY <1>2, <1>4, <1>5, <1>8, <1>9, Zenon DEF IInv, Unstarted

\* A free slot and nobody in line: admitted at once.
LEMMA DirectStep ==
  ASSUME IInv, NEW c \in Callers, pc[c] = "idle", state = "open", out < capacity, out' = out + 1,
         waiters' \in Seq(Callers), pc' = [pc EXCEPT ![c] = "admitted"],
         state' = state, wst' = wst, queue' = queue, pauseSet' = pauseSet, stopSet' = stopSet,
         acks' = acks, next' = next, wpc' = wpc, cur' = cur, conn' = conn, fatal' = fatal,
         capacity' = capacity
  PROVE  IInv'
<1>1. Typed /\ OnePlace /\ Staged /\ Counted /\ Pausing
  BY Zenon DEF IInv, Live
<1>2. pc' \in [Callers -> CallerStates] /\ \A x \in Callers : pc'[x] = IF x = c THEN "admitted" ELSE pc[x]
  BY <1>1 DEF Typed, CallerStates
<1>3. Typed'
  BY <1>1, <1>2, Zenon DEF Typed
<1>4. \A x \in Callers, w \in Workers, i \in Nat : At(queue', x, w, i) <=> Sits(x, w, i)
  BY Zenon DEF Sits
<1>5. /\ OnePlace' /\ \A x \in Callers : NoRequest(x) => NoRequest(x)'
      /\ \A x \in Callers : (InQueue(x)' <=> InQueue(x)) /\ (Running(x)' <=> Running(x))
  BY <1>1, <1>4, PlacesSame, Zenon
<1>6. Staged'
  <2>1. \A x \in Callers : pc'[x] \in {"idle", "waiting", "admitted"} => pc[x] \in {"idle", "waiting", "admitted"}
    BY <1>2, Zenon
  <2>2. wst[c] \notin Entered
    BY <1>1, Zenon DEF Staged
  <2>3. \A x \in Callers : wst'[x] \in Entered => wst[x] \in Entered /\ pc'[x] \in {"waiting", "ended"}
    BY <1>1, <1>2, <2>2, Zenon DEF Staged
  <2> QED BY <1>1, <1>5, <2>1, <2>3, StagedKept, Zenon
<1>7. c \notin Owners
  BY <1>1, Zenon DEF Owners, Staged, NoRequest, Entered
<1>8. Owners' = Owners \cup {c}
  <2>1. ASSUME NEW x \in Callers PROVE x \in Owners' <=> x \in Owners \/ x = c
    <3>1. pc'[x] = "admitted" <=> x = c \/ pc[x] = "admitted"
      BY <1>2, Zenon
    <3> QED BY <1>5, <3>1, Zenon DEF Owners
  <2>2. Owners' \subseteq Callers /\ Owners \subseteq Callers
    BY Zenon DEF Owners
  <2> QED BY <2>1, <2>2, Zenon
<1>9. IsFiniteSet(Owners') /\ Cardinality(Owners') = out + 1
  BY <1>1, <1>7, <1>8, FS_AddElement, Zenon DEF Counted
<1>10. out \in Nat
  BY <1>1, FS_CardinalityType, Zenon DEF Counted
<1>11. out + 1 <= capacity
  BY <1>1, <1>10 DEF Typed
<1>12. Counted'
  BY <1>9, <1>11, Zenon DEF Counted
<1>13. ~pauseSet /\ state \notin {"pausing", "paused"}
  BY <1>1, Zenon DEF Pausing
<1>14. Pausing'
  BY <1>1, <1>13, Zenon DEF Pausing
<1> QED BY <1>3, <1>5, <1>6, <1>12, <1>14, Zenon DEF IInv, Unstarted

\* A caller enters the line; the grant that follows may be its own.
LEMMA EnterStep ==
  ASSUME IInv, NEW c \in Callers, pc[c] = "idle", state = "open", NEW q \in Seq(Callers), NEW mail,
         pc' = [pc EXCEPT ![c] = "waiting"],
         Settle(out, [wst EXCEPT ![c] = "waiting"], Append(q, c), mail, queue),
         state' = state, acks' = acks, next' = next, wpc' = wpc, cur' = cur, conn' = conn,
         fatal' = fatal, capacity' = capacity
  PROVE  IInv'
<1> DEFINE w == [wst EXCEPT ![c] = "waiting"]
<1>1. Typed /\ OnePlace /\ Staged /\ Counted
  BY Zenon DEF IInv, Live
<1>2. w \in [Callers -> WaiterStates] /\ \A x \in Callers : w[x] = IF x = c THEN "waiting" ELSE wst[x]
  BY <1>1 DEF Typed, WaiterStates
<1>3. out \in Nat /\ out <= capacity /\ out = Cardinality(Owners)
  BY <1>1, FS_CardinalityType, Zenon DEF Counted
<1>4. Append(q, c) \in Seq(Callers) /\ queue \in [Workers -> Seq(Callers \cup Controls)]
  BY <1>1 DEF Typed
<1>5. Settle(out, w, Append(q, c), mail, queue)
  OBVIOUS
<1> HIDE DEF w
<1>6. PICK G \in SUBSET Callers : Grants(G, out, w, queue)
  BY <1>1, <1>3, <1>4, <1>5, SettleEffect, Zenon
<1>7. /\ IsFiniteSet(G) /\ Cardinality(G) \in Nat
      /\ state = "open" => out + Cardinality(G) <= capacity
      /\ \A x \in G : w[x] = "waiting"
      /\ out' = out + Cardinality(G)
      /\ waiters' \in Seq(Callers)
      /\ wst' = [x \in Callers |-> IF x \in G THEN "granted" ELSE w[x]]
      /\ Advance(state, out + Cardinality(G), queue)
  BY <1>6, Zenon DEF Grants
<1>8. /\ queue' \in [Workers -> Seq(Callers \cup Controls)]
      /\ \A x \in Callers, v \in Workers, i \in Nat : At(queue', x, v, i) <=> Sits(x, v, i)
  BY <1>4, <1>7, AdvanceEffect, Zenon DEF Sits
<1>9. /\ OnePlace' /\ \A x \in Callers : NoRequest(x) => NoRequest(x)'
      /\ \A x \in Callers : (InQueue(x)' <=> InQueue(x)) /\ (Running(x)' <=> Running(x))
  BY <1>1, <1>8, PlacesSame, Zenon
<1>10. \A x \in Callers : wst'[x] = IF x \in G THEN "granted" ELSE w[x]
  BY <1>7, Zenon
<1>11. pc' \in [Callers -> CallerStates] /\ \A x \in Callers : pc'[x] = IF x = c THEN "waiting" ELSE pc[x]
  BY <1>1 DEF Typed, CallerStates
<1>12. Typed'
  <2>1. wst' \in [Callers -> WaiterStates]
    BY <1>2, <1>7, Zenon DEF WaiterStates
  <2> QED BY <1>1, <1>7, <1>8, <1>11, <2>1, Zenon DEF Typed
<1>13. wst[c] \notin Entered
  BY <1>1, Zenon DEF Staged
<1>14. \A x \in G : x \notin Owners
  <2> SUFFICES ASSUME NEW x \in G PROVE x \notin Owners
    OBVIOUS
  <2>1. x \in Callers /\ (x = c \/ wst[x] = "waiting")
    BY <1>2, <1>7, Zenon
  <2>2. CASE x = c
    BY <1>1, <1>13, <2>2, Zenon DEF Owners, Staged, NoRequest, Entered
  <2>3. CASE wst[x] = "waiting"
    BY <1>1, <2>1, <2>3, Zenon DEF Owners, Staged, NoRequest, Entered
  <2> QED BY <2>1, <2>2, <2>3, Zenon
<1>15. ASSUME NEW x \in Callers, wst'[x] \in Entered
       PROVE  (wst[x] \in Entered \/ pc[x] = "idle") /\ pc'[x] \in {"waiting", "ended"}
  <2>1. CASE x = c
    BY <1>11, <2>1, Zenon
  <2>2. CASE x # c
    <3>1. w[x] \in Entered
      BY <1>7, <1>10, <1>15, Zenon DEF Entered
    <3>2. wst[x] \in Entered
      BY <1>2, <2>2, <3>1, Zenon
    <3> QED BY <1>1, <1>11, <2>2, <3>2, Zenon DEF Staged
  <2> QED BY <2>1, <2>2, Zenon
<1>16. Staged'
  <2>1. \A x \in Callers : pc'[x] \in {"idle", "waiting", "admitted"} => pc[x] \in {"idle", "waiting", "admitted"}
    BY <1>11, Zenon
  <2> QED BY <1>1, <1>9, <1>15, <2>1, StagedKept, Zenon
<1>17. Counted' /\ Pausing'
  <2>1. Owners \cap G = {}
    BY <1>14, Zenon
  <2>2. ASSUME NEW x \in Callers PROVE x \in Owners' <=> x \in Owners \/ x \in G
    <3>1. pc'[x] = "admitted" <=> pc[x] = "admitted"
      BY <1>11, Zenon
    <3>2. wst'[x] = "granted" <=> x \in G \/ wst[x] = "granted"
      BY <1>2, <1>10, <1>13, Zenon DEF Entered
    <3> QED BY <1>9, <3>1, <3>2, Zenon DEF Owners
  <2>3. Owners' = Owners \cup G
    <3>1. Owners' \subseteq Callers /\ Owners \subseteq Callers
      BY Zenon DEF Owners
    <3> QED BY <2>2, <3>1, Zenon
  <2>4. \A v \in Workers : wpc'[v] \notin {"failing", "drain", "exit", "dead"}
    BY Zenon DEF IInv, Pausing, Live
  <2>5. state \in Live /\ (state # "open" => G = {}) /\ Owners \in SUBSET Owners
    BY Zenon DEF Live
  <2>6. /\ state = "open" => Cardinality(Owners) + Cardinality(G) <= capacity
        /\ out' = Cardinality(Owners) + Cardinality(G)
        /\ Advance(state, Cardinality(Owners) + Cardinality(G), queue)
    BY <1>3, <1>7, Zenon
  <2> QED BY <1>7, <2>1, <2>3, <2>4, <2>5, <2>6, SettleLive, Zenon
<1> QED BY <1>9, <1>12, <1>16, <1>17, Zenon DEF IInv, Unstarted

\* fetch_all or fetch_one: refused, admitted, turned away or put in line.
LEMMA AcquireStep ==
  ASSUME IInv, NEW c \in Callers, Acquire(c)
  PROVE  IInv'
<1> DEFINE q == Active(waiters, wst)
<1>1. Typed /\ Staged
  BY Zenon DEF IInv
<1>2. q \in Seq(Callers) /\ waiters \in Seq(Callers)
  BY <1>1, ActiveIsTail, Zenon DEF Typed
<1> HIDE DEF q
<1>3. /\ pc[c] = "idle" /\ state' = state /\ acks' = acks /\ next' = next /\ wpc' = wpc /\ cur' = cur
      /\ conn' = conn /\ fatal' = fatal /\ capacity' = capacity
  BY Zenon DEF Acquire, actors, world
<1>4. ASSUME End(c), waiters' \in Seq(Callers), wst' = wst, out' = out, queue' = queue,
             pauseSet' = pauseSet, stopSet' = stopSet
      PROVE  IInv'
  <2>1. wst \in [Callers -> WaiterStates] /\ pc \in [Callers -> CallerStates] /\ wst[c] \notin Entered
    BY <1>1, <1>3, Zenon DEF Typed, Staged
  <2>2. pc' \in [Callers -> CallerStates] /\ pc'[c] = "ended" /\ \A x \in Callers : x # c => pc'[x] = pc[x]
    BY <1>4, <2>1 DEF End, CallerStates
  <2>3. /\ pc'[c] \in {"idle", "waiting", "admitted"} => pc[c] \in {"idle", "waiting", "admitted"}
        /\ wst'[c] \in Entered => wst[c] \in Entered /\ pc'[c] \in {"waiting", "ended"}
        /\ (pc'[c] = "admitted" \/ wst'[c] = "granted") <=> (pc[c] = "admitted" \/ wst[c] = "granted")
    BY <1>3, <1>4, <2>1, <2>2, Zenon
  <2>4. wst' \in [Callers -> WaiterStates] /\ \A x \in Callers : x # c => wst'[x] = wst[x]
    BY <1>4, <2>1, Zenon
  <2> QED BY <1>3, <1>4, <2>2, <2>3, <2>4, CallerMoves, Zenon
<1>5. CASE state # "open" /\ End(c) /\ UNCHANGED <<admission, fut>>
  <2>1. waiters' = waiters /\ wst' = wst /\ out' = out /\ queue' = queue /\ pauseSet' = pauseSet /\ stopSet' = stopSet
    BY <1>5, Zenon DEF admission
  <2> QED BY <1>2, <1>4, <1>5, <2>1, Zenon
<1>6. CASE /\ state = "open" /\ out < capacity /\ out' = out + 1 /\ waiters' = q
           /\ pc' = [pc EXCEPT ![c] = "admitted"]
           /\ UNCHANGED <<wst, posted, queue, pauseSet, stopSet, fut>>
  <2>1. wst' = wst /\ queue' = queue /\ pauseSet' = pauseSet /\ stopSet' = stopSet
    BY <1>6, Zenon
  <2> QED BY <1>2, <1>3, <1>6, <2>1, DirectStep, Zenon
<1>7. CASE End(c) /\ waiters' = q /\ UNCHANGED <<out, wst, posted, queue, pauseSet, stopSet, fut>>
  <2>1. wst' = wst /\ out' = out /\ queue' = queue /\ pauseSet' = pauseSet /\ stopSet' = stopSet
    BY <1>7, Zenon
  <2> QED BY <1>2, <1>4, <1>7, <2>1, Zenon
<1>8. CASE /\ state = "open" /\ pc' = [pc EXCEPT ![c] = "waiting"]
           /\ Settle(out, [wst EXCEPT ![c] = "waiting"], Append(q, c), posted, queue)
  BY <1>2, <1>3, <1>8, EnterStep, Zenon
<1> QED BY <1>5, <1>6, <1>7, <1>8, Zenon DEF Acquire, q

\* A caller that is not admitted ends its call; nothing else changes.
LEMMA EndStep ==
  ASSUME IInv, NEW c \in Callers, pc[c] # "admitted", pc' = pc \/ End(c), waiters' = waiters, wst' = wst,
         state' = state, out' = out, queue' = queue, pauseSet' = pauseSet, stopSet' = stopSet,
         acks' = acks, next' = next, wpc' = wpc, cur' = cur, conn' = conn, fatal' = fatal,
         capacity' = capacity
  PROVE  IInv'
<1>1. /\ wst \in [Callers -> WaiterStates] /\ pc \in [Callers -> CallerStates] /\ waiters \in Seq(Callers)
      /\ wst[c] \in Entered => pc[c] \in {"waiting", "ended"}
  BY Zenon DEF IInv, Typed, Staged
<1>2. /\ pc' \in [Callers -> CallerStates] /\ \A x \in Callers : x # c => pc'[x] = pc[x]
      /\ pc'[c] = pc[c] \/ pc'[c] = "ended"
  <2>1. CASE pc' = pc
    BY <1>1, <2>1, Zenon
  <2>2. CASE End(c)
    BY <1>1, <2>2 DEF End, CallerStates
  <2> QED BY <2>1, <2>2, Zenon
<1>3. /\ pc'[c] \in {"idle", "waiting", "admitted"} => pc[c] \in {"idle", "waiting", "admitted"}
      /\ wst'[c] \in Entered => wst[c] \in Entered /\ pc'[c] \in {"waiting", "ended"}
      /\ (pc'[c] = "admitted" \/ wst'[c] = "granted") <=> (pc[c] = "admitted" \/ wst[c] = "granted")
  <2>1. wst'[c] = wst[c]
    BY Zenon
  <2>2. CASE pc'[c] = pc[c]
    BY <1>1, <2>1, <2>2, Zenon
  <2>3. CASE pc'[c] = "ended"
    BY <1>1, <2>1, <2>3, Zenon
  <2> QED BY <1>2, <2>2, <2>3, Zenon
<1>4. /\ wst' \in [Callers -> WaiterStates] /\ \A x \in Callers : x # c => wst'[x] = wst[x]
      /\ waiters' \in Seq(Callers)
  BY <1>1, Zenon
<1> QED BY <1>2, <1>3, <1>4, CallerMoves, Zenon

\* The steps of a caller in line, of its loop and of a caller with a result.
LEMMA LineStep ==
  ASSUME IInv, NEW c \in Callers,
         \/ LeavesWaiting(c) \/ Resume(c) \/ DeliverGrant(c) \/ DeliverRejection(c) \/ LoopCloses(c)
         \/ GrantToClosedLoop(c) \/ Receive(c) \/ Abandon(c)
  PROVE  IInv'
<1>1. Typed /\ Staged
  BY Zenon DEF IInv
<1>2. /\ state' = state /\ acks' = acks /\ next' = next /\ wpc' = wpc /\ cur' = cur
      /\ conn' = conn /\ fatal' = fatal /\ capacity' = capacity
  BY Zenon DEF LeavesWaiting, Resume, DeliverGrant, DeliverRejection, LoopCloses, GrantToClosedLoop,
               Receive, Abandon, actors, world
<1>3. ASSUME NEW mail, Withdraw(c, mail), pc[c] \in {"waiting", "ended"}, pc' = pc \/ End(c) PROVE IInv'
  BY <1>2, <1>3, WithdrawStep, Zenon DEF End
<1>4. CASE LeavesWaiting(c)
  BY <1>3, <1>4, Zenon DEF LeavesWaiting
<1>5. CASE Resume(c)
  <2>1. pc[c] = "waiting"
    BY <1>5, Zenon DEF Resume
  <2>2. CASE End(c) /\ Withdraw(c, posted)
    BY <1>3, <2>1, <2>2, Zenon
  <2>3. CASE /\ wst[c] = "granted" /\ pc' = [pc EXCEPT ![c] = "admitted"]
             /\ wst' = [wst EXCEPT ![c] = "consumed"]
             /\ UNCHANGED <<out, waiters, posted, queue, pauseSet, stopSet>>
    <3>1. /\ wst \in [Callers -> WaiterStates] /\ pc \in [Callers -> CallerStates]
          /\ waiters \in Seq(Callers)
      BY <1>1, Zenon DEF Typed
    <3>2. /\ pc' \in [Callers -> CallerStates] /\ pc'[c] = "admitted"
          /\ \A x \in Callers : x # c => pc'[x] = pc[x]
      BY <2>3, <3>1 DEF CallerStates
    <3>3. /\ wst' \in [Callers -> WaiterStates] /\ wst'[c] = "consumed"
          /\ \A x \in Callers : x # c => wst'[x] = wst[x]
      BY <2>3, <3>1 DEF WaiterStates
    <3>4. /\ waiters' = waiters /\ out' = out /\ queue' = queue /\ pauseSet' = pauseSet
          /\ stopSet' = stopSet
      BY <2>3, Zenon
    <3>5. /\ pc'[c] \in {"idle", "waiting", "admitted"} => pc[c] \in {"idle", "waiting", "admitted"}
          /\ wst'[c] \in Entered => wst[c] \in Entered /\ pc'[c] \in {"waiting", "ended"}
          /\ (pc'[c] = "admitted" \/ wst'[c] = "granted") <=> (pc[c] = "admitted" \/ wst[c] = "granted")
      BY <2>1, <2>3, <3>2, <3>3, Zenon DEF Entered
    <3>6. waiters' \in Seq(Callers)
      BY <3>1, <3>4, Zenon
    <3> QED BY <1>2, <3>2, <3>3, <3>4, <3>5, <3>6, CallerMoves, Zenon
  <2> QED BY <1>5, <2>2, <2>3, Zenon DEF Resume
<1>6. CASE DeliverGrant(c)
  <2>1. pc' = pc
    BY <1>6, Zenon DEF DeliverGrant
  <2>2. wst[c] = "granted" => pc[c] \in {"waiting", "ended"}
    BY <1>1, Zenon DEF Staged, Entered
  <2>3. CASE wst[c] = "granted" /\ Withdraw(c, posted \ {<<"grant", c>>})
    BY <1>3, <2>1, <2>2, <2>3, Zenon
  <2>4. CASE UNCHANGED <<out, waiters, wst, queue, pauseSet, stopSet>>
    <3>1. /\ waiters' = waiters /\ wst' = wst /\ out' = out /\ queue' = queue /\ pauseSet' = pauseSet
          /\ stopSet' = stopSet
      BY <2>4, Zenon
    <3>2. CASE pc[c] = "admitted"
      <4>1. /\ wst \in [Callers -> WaiterStates] /\ pc \in [Callers -> CallerStates]
            /\ waiters \in Seq(Callers) /\ (wst[c] \in Entered => pc[c] \in {"waiting", "ended"})
        BY <1>1, Zenon DEF Typed, Staged
      <4> QED BY <1>2, <2>1, <3>1, <4>1, CallerMoves, Zenon
    <3>3. CASE pc[c] # "admitted"
      BY <1>2, <2>1, <3>1, <3>3, EndStep, Zenon
    <3> QED BY <3>2, <3>3, Zenon
  <2> QED BY <1>6, <2>3, <2>4, Zenon DEF DeliverGrant
<1>7. CASE GrantToClosedLoop(c)
  <2>1. pc' = pc /\ pc[c] = "ended" /\ Withdraw(c, posted \ {<<"grant", c>>})
    BY <1>7, Zenon DEF GrantToClosedLoop, callVars
  <2> QED BY <1>3, <2>1, Zenon
<1>8. CASE DeliverRejection(c)
  <2>1. /\ waiters' = waiters /\ wst' = wst /\ out' = out /\ queue' = queue /\ pauseSet' = pauseSet
        /\ stopSet' = stopSet /\ pc' = pc
    BY <1>8, Zenon DEF DeliverRejection
  <2>2. /\ wst \in [Callers -> WaiterStates] /\ pc \in [Callers -> CallerStates]
        /\ waiters \in Seq(Callers) /\ (wst[c] \in Entered => pc[c] \in {"waiting", "ended"})
    BY <1>1, Zenon DEF Typed, Staged
  <2> QED BY <1>2, <2>1, <2>2, CallerMoves, Zenon
<1>9. CASE LoopCloses(c) \/ Receive(c) \/ Abandon(c)
  <2>1. /\ waiters' = waiters /\ wst' = wst /\ out' = out /\ queue' = queue /\ pauseSet' = pauseSet
        /\ stopSet' = stopSet /\ End(c) /\ pc[c] # "admitted"
    BY <1>9, Zenon DEF LoopCloses, Receive, Abandon, admission
  <2> QED BY <1>2, <2>1, EndStep, Zenon
<1> QED BY <1>4, <1>5, <1>6, <1>7, <1>8, <1>9, Zenon

\* Outside the state open nothing is granted.
LEMMA SettleIdle ==
  ASSUME Typed, state # "open", NEW o, NEW mail, NEW qs, Settle(o, wst, waiters, mail, qs)
  PROVE  wst' = wst /\ waiters' \in Seq(Callers) /\ \E n : Advance(state, n, qs)
<1>1. waiters \in Seq(Callers) /\ wst \in [Callers -> WaiterStates]
  BY Zenon DEF Typed
<1>2. PICK G \in SUBSET Callers : Grants(G, o, wst, qs)
  BY <1>1, SettleEffect, Zenon
<1>3. /\ G = {} /\ waiters' \in Seq(Callers) /\ Advance(state, o + Cardinality(G), qs)
      /\ wst' = [c \in Callers |-> IF c \in G THEN "granted" ELSE wst[c]]
  BY <1>2, Zenon DEF Grants
<1>4. wst' = wst
  BY <1>1, <1>3
<1> QED BY <1>3, <1>4, Zenon

\* Outside the live states only the places count.
LEMMA OutsideStep ==
  ASSUME IInv, Typed', state' \notin Live, NEW d \in [Workers -> {0, 1}],
         \A c \in Callers, v \in Workers, i \in Nat : At(queue', c, v, i) => Sits(c, v, i + d[v]),
         cur' = cur, \A v \in Workers : wpc'[v] \in Working <=> wpc[v] \in Working,
         pc' = pc \/ \E c \in Callers : End(c),
         \A c \in Callers : wst'[c] \in Entered => wst[c] \in Entered
  PROVE  IInv'
<1>1. Typed /\ OnePlace /\ Staged
  BY Zenon DEF IInv
<1>2. \A v \in Workers : wpc'[v] \in Working <=> cur'[v] \in Callers
  BY <1>1, Zenon DEF OnePlace
<1>3. \A v \in Workers : cur'[v] \in Callers => cur'[v] = cur[v]
  BY Zenon
<1>4. OnePlace' /\ \A c \in Callers : NoRequest(c) => NoRequest(c)'
  BY <1>1, <1>2, <1>3, PlacesKept, Zenon
<1>5. \A c \in Callers : pc'[c] = pc[c] \/ pc'[c] = "ended"
  <2>1. pc \in [Callers -> CallerStates]
    BY <1>1, Zenon DEF Typed
  <2> QED BY <2>1, Zenon DEF End
<1>6. \A c \in Callers : pc'[c] \in {"idle", "waiting", "admitted"} => pc[c] \in {"idle", "waiting", "admitted"}
  BY <1>5, Zenon
<1>7. \A c \in Callers : wst'[c] \in Entered => wst[c] \in Entered /\ pc'[c] \in {"waiting", "ended"}
  BY <1>1, <1>5, Zenon DEF Staged
<1>8. Staged'
  BY <1>1, <1>4, <1>6, <1>7, StagedKept, Zenon
<1> QED BY <1>4, <1>8, Zenon DEF IInv, Unstarted, Live

\* The same, with every request where it was.
LEMMA OutsideSame ==
  ASSUME IInv, Typed', state' \notin Live,
         \A c \in Callers, v \in Workers, i \in Nat : At(queue', c, v, i) <=> Sits(c, v, i),
         cur' = cur, \A v \in Workers : wpc'[v] \in Working <=> wpc[v] \in Working,
         pc' = pc \/ \E c \in Callers : End(c),
         \A c \in Callers : wst'[c] \in Entered => wst[c] \in Entered
  PROVE  IInv'
<1> DEFINE d == [u \in Workers |-> 0]
<1>1. d \in [Workers -> {0, 1}] /\ \A u \in Workers, i \in Nat : i + d[u] = i
  OBVIOUS
<1> HIDE DEF d
<1>2. \A c \in Callers, v \in Workers, i \in Nat : At(queue', c, v, i) => Sits(c, v, i + d[v])
  BY <1>1, Zenon
<1> QED BY <1>1, <1>2, OutsideStep, Zenon

\* _submit: the request takes the place of the slot it was admitted with.
LEMMA DispatchStep ==
  ASSUME IInv, NEW c \in Callers, Dispatch(c)
  PROVE  IInv'
<1>1. Typed /\ OnePlace /\ Staged
  BY Zenon DEF IInv
<1>2. /\ pc[c] = "admitted" /\ state' = state /\ acks' = acks /\ wpc' = wpc /\ cur' = cur
      /\ conn' = conn /\ fatal' = fatal /\ capacity' = capacity
  BY Zenon DEF Dispatch, actors, world
<1>3. CASE fatal \/ state = "closed"
  <2>1. End(c) /\ Settle(out - 1, wst, waiters, posted, queue) /\ next' = next
    BY <1>3, Zenon DEF Dispatch
  <2>2. state \notin Live /\ state # "open"
    BY <1>3, Zenon DEF IInv, Pausing, Live
  <2>3. wst' = wst /\ waiters' \in Seq(Callers) /\ \E n : Advance(state, n, queue)
    BY <1>1, <2>1, <2>2, SettleIdle, Zenon
  <2>4. queue \in [Workers -> Seq(Callers \cup Controls)]
    BY <1>1, Zenon DEF Typed
  <2>5. /\ queue' \in [Workers -> Seq(Callers \cup Controls)]
        /\ \A x \in Callers, v \in Workers, i \in Nat : At(queue', x, v, i) <=> Sits(x, v, i)
    BY <2>3, <2>4, AdvanceEffect, Zenon DEF Sits
  <2>6. pc' \in [Callers -> CallerStates]
    BY <1>1, <2>1 DEF Typed, End, CallerStates
  <2>7. Typed'
    BY <1>1, <1>2, <2>1, <2>3, <2>5, <2>6, Zenon DEF Typed
  <2> QED BY <1>2, <2>1, <2>2, <2>3, <2>5, <2>7, OutsideSame, Zenon
<1>4. CASE ~fatal /\ state # "closed"
  <2> DEFINE n == next
             k == Len(queue[n]) + 1
  <2>1. /\ queue' = [queue EXCEPT ![n] = Append(@, c)]
        /\ next' = (n + 1) % MaxConnections
        /\ pc' = [pc EXCEPT ![c] = "queued"]
        /\ out' = out /\ waiters' = waiters /\ wst' = wst /\ pauseSet' = pauseSet /\ stopSet' = stopSet
    BY <1>4, Zenon DEF Dispatch
  <2>2. n \in Workers /\ queue \in [Workers -> Seq(Callers \cup Controls)] /\ pc \in [Callers -> CallerStates]
    BY <1>1, Zenon DEF Typed
  <2>3. next' \in Workers
    BY <2>1, <2>2, PoolConstants DEF Workers
  <2>4. /\ queue' \in [Workers -> Seq(Callers \cup Controls)]
        /\ \A v \in Workers : queue'[v] = IF v = n THEN Append(queue[n], c) ELSE queue[v]
    BY <2>1, <2>2
  <2>5. /\ pc' \in [Callers -> CallerStates]
        /\ \A x \in Callers : pc'[x] = IF x = c THEN "queued" ELSE pc[x]
    BY <2>1, <2>2 DEF CallerStates
  <2> HIDE <2>1
  <2>6. Typed'
    BY <1>1, <1>2, <2>1, <2>3, <2>4, <2>5, Zenon DEF Typed
  <2>7. ASSUME NEW x \in Callers, NEW v \in Workers, NEW i \in Nat
        PROVE  At(queue', x, v, i) <=> Sits(x, v, i) \/ (x = c /\ v = n /\ i = k)
    <3>1. CASE v = n
      <4>1. queue'[v] = Append(queue[n], c) /\ queue[n] \in Seq(Callers \cup Controls)
        BY <2>2, <2>4, <3>1, Zenon
      <4> QED BY <3>1, <4>1 DEF At, Sits
    <3>2. CASE v # n
      BY <2>4, <3>2, Zenon DEF At, Sits
    <3> QED BY <3>1, <3>2, Zenon
  <2>8. NoRequest(c) /\ wst[c] \notin Entered
    BY <1>1, <1>2, Zenon DEF Staged
  <2>9. (\A v \in Workers, i \in Nat : ~Sits(c, v, i)) /\ \A v \in Workers : cur[v] # c
    BY <2>8, Zenon DEF NoRequest, InQueue, Running, Sits, At
  <2>10. k \in Nat /\ k \in 1 .. Len(queue'[n]) /\ queue'[n][k] = c
    <3>1. queue'[n] = Append(queue[n], c) /\ queue[n] \in Seq(Callers \cup Controls)
      BY <2>2, <2>4, Zenon
    <3> QED BY <3>1
  <2> HIDE DEF n, k
  <2>11. OnePlace'
    <3>1. ASSUME NEW x \in Callers, NEW v \in Workers, NEW w \in Workers, NEW i \in Nat, NEW j \in Nat,
                 At(queue', x, v, i), At(queue', x, w, j)
          PROVE  v = w /\ i = j
      <4>1. /\ Sits(x, v, i) \/ (x = c /\ v = n /\ i = k)
            /\ Sits(x, w, j) \/ (x = c /\ w = n /\ j = k)
        BY <2>7, <3>1, Zenon
      <4>2. CASE x = c
        <5>1. ~Sits(x, v, i) /\ ~Sits(x, w, j)
          BY <2>9, <4>2, Zenon
        <5> QED BY <4>1, <5>1, Zenon
      <4>3. CASE x # c
        <5>1. Sits(x, v, i) /\ Sits(x, w, j)
          BY <4>1, <4>3, Zenon
        <5> QED BY <1>1, <5>1, Zenon DEF OnePlace
      <4> QED BY <4>2, <4>3, Zenon
    <3>2. ASSUME NEW x \in Callers, NEW v \in Workers, NEW w \in Workers, NEW i \in Nat, At(queue', x, v, i)
          PROVE  cur'[w] # x
      BY <1>1, <1>2, <2>7, <2>9, <3>2, Zenon DEF OnePlace
    <3> QED BY <1>1, <1>2, <3>1, <3>2, Zenon DEF OnePlace, Sits
  <2>12. ASSUME NEW x \in Callers PROVE Running(x)' <=> Running(x)
    BY <1>2, Zenon DEF Running
  <2>13. ASSUME NEW x \in Callers PROVE InQueue(x)' <=> InQueue(x) \/ x = c
    <3>1. \A v \in Workers : \A i \in 1 .. Len(queue[v]) : i \in Nat
      OBVIOUS
    <3>2. \A v \in Workers : \A i \in 1 .. Len(queue'[v]) : i \in Nat
      OBVIOUS
    <3>3. ASSUME InQueue(x)' PROVE InQueue(x) \/ x = c
      <4>1. PICK v \in Workers : \E i \in 1 .. Len(queue'[v]) : queue'[v][i] = x
        BY <3>3, Zenon DEF InQueue
      <4>2. PICK i \in 1 .. Len(queue'[v]) : queue'[v][i] = x
        BY <4>1, Zenon
      <4>3. i \in Nat /\ At(queue', x, v, i)
        BY <3>2, <4>2, Zenon DEF At
      <4>4. Sits(x, v, i) \/ x = c
        BY <2>7, <4>3, Zenon
      <4> QED BY <4>4, Zenon DEF Sits, At, InQueue
    <3>4. ASSUME InQueue(x) PROVE InQueue(x)'
      <4>1. PICK v \in Workers : \E i \in 1 .. Len(queue[v]) : queue[v][i] = x
        BY <3>4, Zenon DEF InQueue
      <4>2. PICK i \in 1 .. Len(queue[v]) : queue[v][i] = x
        BY <4>1, Zenon
      <4>3. i \in Nat /\ Sits(x, v, i)
        BY <3>1, <4>2, Zenon DEF At, Sits
      <4>4. At(queue', x, v, i)
        BY <2>7, <4>3, Zenon
      <4> QED BY <4>4, Zenon DEF At, InQueue
    <3>5. x = c => InQueue(x)'
      BY <2>2, <2>10, Zenon DEF InQueue
    <3> QED BY <3>3, <3>4, <3>5, Zenon
  <2>14. Staged'
    <3> SUFFICES ASSUME NEW x \in Callers
                 PROVE  /\ pc'[x] \in {"idle", "waiting", "admitted"} => NoRequest(x)'
                        /\ wst'[x] \in Entered => pc'[x] \in {"waiting", "ended"} /\ NoRequest(x)'
      BY Zenon DEF Staged
    <3>1. CASE x = c
      BY <2>1, <2>5, <2>8, <3>1, Zenon
    <3>2. CASE x # c
      BY <1>1, <2>1, <2>5, <2>12, <2>13, <3>2, Zenon DEF Staged, NoRequest
    <3> QED BY <3>1, <3>2, Zenon
  <2>15. Owners' = Owners
    <3>1. ASSUME NEW x \in Callers PROVE x \in Owners' <=> x \in Owners
      <4>1. CASE x = c
        BY <1>2, <2>13, <4>1, Zenon DEF Owners
      <4>2. CASE x # c
        BY <2>1, <2>5, <2>12, <2>13, <4>2, Zenon DEF Owners
      <4> QED BY <4>1, <4>2, Zenon
    <3>2. Owners' \subseteq Callers /\ Owners \subseteq Callers
      BY Zenon DEF Owners
    <3> QED BY <3>1, <3>2, Zenon
  <2>16. ASSUME state \in Live PROVE Counted' /\ Pausing'
    <3>1. Counted /\ Pausing /\ c \in Owners
      BY <1>2, <2>16, Zenon DEF IInv, Owners
    <3>2. ~pauseSet /\ state # "paused"
      BY <3>1, Zenon DEF Pausing
    <3>3. \A v \in Workers : queue'[v] \in Seq(Callers)
      <4>1. \A v \in Workers : queue[v] \in Seq(Callers)
        BY <3>1, <3>2, Zenon DEF Pausing
      <4>2. Append(queue[n], c) \in Seq(Callers)
        BY <2>2, <4>1
      <4> QED BY <2>4, <4>1, <4>2, Zenon
    <3>4. Counted'
      BY <1>2, <2>1, <2>15, <3>1, Zenon DEF Counted
    <3> QED BY <1>2, <2>1, <3>1, <3>2, <3>3, <3>4, Zenon DEF Pausing
  <2> QED BY <1>2, <2>6, <2>11, <2>14, <2>16, Zenon DEF IInv, Unstarted
<1> QED BY <1>3, <1>4, Zenon

-----------------------------------------------------------------------------
(* Lifecycle. *)

\* Refusing those in line (pause_and_drain, close, _begin_worker_failure)
\* takes no slot from anyone.
LEMMA RejectEffect ==
  ASSUME Typed, RejectWaiters
  PROVE  /\ waiters' \in Seq(Callers) /\ wst' \in [Callers -> WaiterStates]
         /\ \A c \in Callers : wst'[c] \in Entered => wst'[c] = wst[c]
         /\ \A c \in Callers : wst'[c] = "granted" <=> wst[c] = "granted"
<1>1. /\ waiters' = <<>> /\ wst \in [Callers -> WaiterStates]
      /\ wst' = [c \in Callers |-> IF c \in Refused THEN "rejected" ELSE wst[c]]
  BY Zenon DEF Typed, RejectWaiters
<1>2. waiters' \in Seq(Callers)
  BY <1>1
<1>3. \A c \in Callers : wst'[c] = IF c \in Refused THEN "rejected" ELSE wst[c]
  BY <1>1, Zenon
<1>4. wst' \in [Callers -> WaiterStates]
  BY <1>1, Zenon DEF WaiterStates
<1>5. \A c \in Refused : wst[c] = "waiting"
  BY Zenon DEF Refused
<1>6. ASSUME NEW c \in Callers
      PROVE  (wst'[c] \in Entered => wst'[c] = wst[c]) /\ (wst'[c] = "granted" <=> wst[c] = "granted")
  <2>1. CASE c \in Refused
    <3>1. wst[c] = "waiting" /\ wst'[c] = "rejected"
      BY <1>3, <1>5, <2>1, Zenon
    <3> QED BY <3>1, Zenon DEF Entered
  <2>2. CASE c \notin Refused
    BY <1>3, <2>2, Zenon
  <2> QED BY <2>1, <2>2, Zenon
<1> QED BY <1>2, <1>4, <1>6, Zenon

\* start: the threads run, with nothing to do yet.
LEMMA StartStep ==
  ASSUME IInv, Start
  PROVE  IInv'
<1>1. /\ state = "new" /\ state' = "open" /\ wpc' = [w \in Workers |-> "get"]
      /\ out' = out /\ waiters' = waiters /\ wst' = wst /\ queue' = queue /\ pauseSet' = pauseSet
      /\ stopSet' = stopSet /\ pc' = pc /\ acks' = acks /\ next' = next /\ cur' = cur /\ conn' = conn
      /\ fatal' = fatal /\ capacity' = capacity
  BY Zenon DEF Start, admission, callVars, world
<1>2. Typed /\ OnePlace /\ Staged /\ Counted /\ Pausing
  BY <1>1, Zenon DEF IInv, Live
<1>3. \A w \in Workers : wpc'[w] = "get" /\ wpc[w] = "off"
  BY <1>1, Zenon DEF IInv, Unstarted
<1>4. Typed'
  BY <1>1, <1>2, Zenon DEF Typed, ThreadStates
<1>5. \A c \in Callers, w \in Workers, i \in Nat : At(queue', c, w, i) <=> Sits(c, w, i)
  BY <1>1, Zenon DEF Sits
<1>6. \A w \in Workers : wpc'[w] \in Working <=> wpc[w] \in Working
  BY <1>3, Zenon DEF Working
<1>7. OnePlace'
  BY <1>1, <1>2, <1>5, <1>6, PlacesSame, Zenon
<1>8. Staged' /\ Owners' = Owners
  BY <1>1, <1>2, Zenon DEF Staged, NoRequest, InQueue, Running, Owners
<1>9. Counted'
  BY <1>1, <1>2, <1>8, Zenon DEF Counted
<1>10. Pausing'
  BY <1>1, <1>2, <1>3, Zenon DEF Pausing
<1> QED BY <1>1, <1>4, <1>7, <1>8, <1>9, <1>10, Zenon DEF IInv, Unstarted

\* A start that fails, pause_and_drain, resume and close.
LEMMA LifecycleStep ==
  ASSUME IInv, StartFails \/ PauseAndDrain \/ ResumePool \/ Close
  PROVE  IInv'
<1>1. Typed /\ OnePlace /\ Staged
  BY Zenon DEF IInv
<1>2. /\ pc' = pc /\ next' = next /\ wpc' = wpc /\ cur' = cur /\ conn' = conn /\ capacity' = capacity
      /\ out' = out
  BY Zenon DEF StartFails, PauseAndDrain, ResumePool, Close, actors, callVars, world, admission
<1>3. queue \in [Workers -> Seq(Callers \cup Controls)]
  BY <1>1, Zenon DEF Typed
<1>4. CASE state' = "closed" /\ UNCHANGED admission
  <2>1. waiters' = waiters /\ wst' = wst /\ queue' = queue /\ state' \notin Live
    BY <1>4, Zenon DEF admission, Live
  <2>2. Typed'
    BY <1>1, <1>2, <2>1, Zenon DEF Typed
  <2>3. \A c \in Callers, w \in Workers, i \in Nat : At(queue', c, w, i) <=> Sits(c, w, i)
    BY <2>1, Zenon DEF Sits
  <2> QED BY <1>2, <2>1, <2>2, <2>3, OutsideSame, Zenon
<1>5. CASE state' = "closing" /\ RejectWaiters /\ Advance("closing", out, queue)
  <2>1. /\ waiters' \in Seq(Callers) /\ wst' \in [Callers -> WaiterStates]
        /\ \A c \in Callers : wst'[c] \in Entered => wst[c] \in Entered
    <3>1. /\ waiters' \in Seq(Callers) /\ wst' \in [Callers -> WaiterStates]
          /\ \A c \in Callers : wst'[c] \in Entered => wst'[c] = wst[c]
      BY <1>1, <1>5, RejectEffect, Zenon
    <3> QED BY <3>1, Zenon
  <2>2. /\ queue' \in [Workers -> Seq(Callers \cup Controls)]
        /\ \A c \in Callers, w \in Workers, i \in Nat : At(queue', c, w, i) <=> Sits(c, w, i)
    BY <1>3, <1>5, AdvanceEffect, Zenon DEF Sits
  <2>3. Typed'
    BY <1>1, <1>2, <2>1, <2>2, Zenon DEF Typed
  <2>4. state' \notin Live
    BY <1>5, Zenon DEF Live
  <2> QED BY <1>2, <2>1, <2>2, <2>3, <2>4, OutsideSame, Zenon
<1>6. CASE PauseAndDrain
  <2>1. /\ state = "open" /\ state' = "pausing" /\ RejectWaiters /\ Advance("pausing", out, queue)
        /\ acks' = acks /\ fatal' = fatal
    BY <1>6, Zenon DEF PauseAndDrain
  <2>2. /\ waiters' \in Seq(Callers) /\ wst' \in [Callers -> WaiterStates]
        /\ \A c \in Callers : wst'[c] \in Entered => wst'[c] = wst[c]
        /\ \A c \in Callers : wst'[c] = "granted" <=> wst[c] = "granted"
    BY <1>1, <2>1, RejectEffect, Zenon
  <2>3. /\ queue' \in [Workers -> Seq(Callers \cup Controls)]
        /\ \A c \in Callers, w \in Workers, i \in Nat : At(queue', c, w, i) <=> Sits(c, w, i)
    BY <1>3, <2>1, AdvanceEffect, Zenon DEF Sits
  <2>4. Typed'
    BY <1>1, <1>2, <2>2, <2>3, Zenon DEF Typed
  <2>5. /\ OnePlace' /\ \A c \in Callers : NoRequest(c) => NoRequest(c)'
        /\ \A c \in Callers : (InQueue(c)' <=> InQueue(c)) /\ (Running(c)' <=> Running(c))
    BY <1>1, <1>2, <2>3, PlacesSame, Zenon
  <2>6. Staged'
    <3>1. \A c \in Callers : pc'[c] \in {"idle", "waiting", "admitted"} => pc[c] \in {"idle", "waiting", "admitted"}
      BY <1>2, Zenon
    <3>2. \A c \in Callers : wst'[c] \in Entered => wst[c] \in Entered /\ pc'[c] \in {"waiting", "ended"}
      BY <1>1, <1>2, <2>2, Zenon DEF Staged
    <3> QED BY <1>1, <2>5, <3>1, <3>2, StagedKept, Zenon
  <2>7. Owners' = Owners
    <3>1. ASSUME NEW c \in Callers PROVE c \in Owners' <=> c \in Owners
      BY <1>2, <2>2, <2>5, Zenon DEF Owners
    <3>2. Owners' \subseteq Callers /\ Owners \subseteq Callers
      BY Zenon DEF Owners
    <3> QED BY <3>1, <3>2, Zenon
  <2>8. Counted' /\ Pausing'
    <3>1. state \in Live /\ Counted /\ Pausing
      BY <2>1, Zenon DEF IInv, Live
    <3>2. out = Cardinality(Owners) /\ out \in Nat
      BY <3>1, FS_CardinalityType, Zenon DEF Counted
    <3>3. Cardinality({}) = 0 /\ IsFiniteSet({})
      BY FS_EmptySet, Zenon
    <3>4. out = Cardinality(Owners) + Cardinality({})
      BY <3>2, <3>3
    <3>5. /\ Owners \in SUBSET Owners /\ {} \in SUBSET Callers /\ Owners \cap {} = {}
          /\ Owners' = Owners \cup {}
      BY <2>7, Zenon
    <3>6. \A w \in Workers : wpc'[w] \notin {"failing", "drain", "exit", "dead"}
      BY <1>2, <3>1, Zenon DEF Pausing
    <3>7. /\ out' = Cardinality(Owners) + Cardinality({}) /\ state' # "open"
          /\ Advance(state', Cardinality(Owners) + Cardinality({}), queue)
      BY <1>2, <2>1, <3>4, Zenon
    <3> QED BY <1>2, <2>1, <3>1, <3>3, <3>5, <3>6, <3>7, CountsAgain, Zenon
  <2> QED BY <2>1, <2>4, <2>5, <2>6, <2>8, Zenon DEF IInv, Unstarted
<1>7. CASE ResumePool
  <2>1. /\ state = "paused" /\ state' = "open" /\ pauseSet' = FALSE /\ acks' = 0 /\ fatal' = fatal
        /\ waiters' = waiters /\ wst' = wst /\ queue' = queue /\ stopSet' = stopSet
    BY <1>7, Zenon DEF ResumePool
  <2>2. Counted /\ Pausing
    BY <2>1, Zenon DEF IInv, Live
  <2>3. Typed' /\ OnePlace' /\ Staged' /\ Owners' = Owners
    <3>1. Typed'
      BY <1>1, <1>2, <2>1, Zenon DEF Typed
    <3>2. \A c \in Callers, w \in Workers, i \in Nat : At(queue', c, w, i) <=> Sits(c, w, i)
      BY <2>1, Zenon DEF Sits
    <3>3. OnePlace'
      BY <1>1, <1>2, <3>2, PlacesSame, Zenon
    <3>4. Staged'
      BY <1>1, <1>2, <2>1, Zenon DEF Staged, NoRequest, InQueue, Running
    <3>5. Owners' = Owners
      BY <1>2, <2>1, Zenon DEF Owners, InQueue, Running
    <3> QED BY <3>1, <3>3, <3>4, <3>5, Zenon
  <2>4. Counted'
    BY <1>2, <2>1, <2>2, <2>3, Zenon DEF Counted
  <2>5. \A w \in Workers : queue'[w] \in Seq(Callers)
    <3>1. <<>> \in Seq(Callers)
      OBVIOUS
    <3> QED BY <2>1, <2>2, <3>1, Zenon DEF Pausing
  <2>6. Pausing'
    BY <1>2, <2>1, <2>2, <2>5, Zenon DEF Pausing
  <2> QED BY <2>1, <2>3, <2>4, <2>6, Zenon DEF IInv, Unstarted
<1> QED BY <1>4, <1>5, <1>6, <1>7, Zenon DEF StartFails, Close

-----------------------------------------------------------------------------
(* Workers. *)

\* A worker with a request goes on with it.
LEMMA WorkStep ==
  ASSUME IInv, NEW w \in Workers, NEW s \in {"begin", "read", "release", "fatal"},
         wpc[w] \in {"begin", "read"}, wpc' = [wpc EXCEPT ![w] = s],
         state' = state, out' = out, waiters' = waiters, wst' = wst, queue' = queue,
         pauseSet' = pauseSet, stopSet' = stopSet, pc' = pc, acks' = acks, next' = next, cur' = cur,
         conn' = [v \in Workers |-> conn'[v]], fatal' = fatal, capacity' = capacity
  PROVE  IInv'
<1>1. Typed /\ OnePlace /\ Staged
  BY Zenon DEF IInv
<1>2. wpc' \in [Workers -> ThreadStates] /\ \A v \in Workers : wpc'[v] = IF v = w THEN s ELSE wpc[v]
  BY <1>1 DEF Typed, ThreadStates
<1>3. Typed'
  BY <1>1, <1>2, Zenon DEF Typed
<1>4. \A c \in Callers, v \in Workers, i \in Nat : At(queue', c, v, i) <=> Sits(c, v, i)
  BY Zenon DEF Sits
<1>5. \A v \in Workers : wpc'[v] \in Working <=> wpc[v] \in Working
  BY <1>2, Zenon DEF Working
<1>6. OnePlace'
  BY <1>1, <1>4, <1>5, PlacesSame, Zenon
<1>7. Staged' /\ Owners' = Owners
  <2>1. Staged'
    BY <1>1, Zenon DEF Staged, NoRequest, InQueue, Running
  <2>2. Owners' = Owners
    BY Zenon DEF Owners, InQueue, Running
  <2> QED BY <2>1, <2>2, Zenon
<1>8. state # "new"
  BY Zenon DEF IInv, Unstarted
<1>9. ASSUME state \in Live PROVE Counted' /\ Pausing'
  <2>1. Counted /\ Pausing
    BY <1>9, Zenon DEF IInv
  <2>2. cur[w] \in Callers
    BY <1>1, Zenon DEF OnePlace, Working
  <2>3. cur[w] \in Owners
    BY <2>2, Zenon DEF Owners, Running
  <2>4. ~pauseSet /\ state # "paused"
    BY <2>1, <2>3, Zenon DEF Pausing
  <2>5. \A v \in Workers : wpc'[v] \notin {"failing", "drain", "exit", "dead"}
    BY <1>2, <2>1, Zenon DEF Pausing
  <2>6. Counted'
    BY <1>7, <2>1, Zenon DEF Counted
  <2> QED BY <2>1, <2>4, <2>5, <2>6, Zenon DEF Pausing
<1> QED BY <1>3, <1>6, <1>7, <1>8, <1>9, Zenon DEF IInv, Unstarted

\* What a worker takes from its queue while the pool lives.
LEMMA TakenLive ==
  ASSUME IInv, state \in Live, NEW w \in Workers, queue[w] # <<>>
  PROVE  /\ Item(w) # "STOP"
         /\ Item(w) = "PAUSE" => state = "pausing" /\ pauseSet /\ queue[w] = <<"PAUSE">>
<1>1. Pausing
  BY Zenon DEF IInv
<1>2. CASE ~pauseSet
  <2>1. queue[w] \in Seq(Callers)
    BY <1>1, <1>2, Zenon DEF Pausing
  <2>2. Head(queue[w]) \in Callers
    BY <2>1
  <2> QED BY <2>2, PoolConstants, Zenon DEF Item
<1>3. CASE pauseSet
  <2>1. state = "pausing"
    BY <1>1, <1>3, Zenon DEF Pausing
  <2>2. queue[w] = <<"PAUSE">>
    BY <1>1, <1>3, <2>1, Zenon DEF Pausing
  <2>3. Head(<<"PAUSE">>) = "PAUSE" /\ "PAUSE" # "STOP"
    OBVIOUS
  <2> QED BY <1>3, <2>1, <2>2, <2>3, Zenon DEF Item
<1> QED BY <1>2, <1>3, Zenon

\* A worker takes a request: it leaves the queue for the worker's hands.
LEMMA GetRequestStep ==
  ASSUME IInv, NEW w \in Workers, GetRequest(w)
  PROVE  IInv'
<1> DEFINE h == Item(w)
<1>1. Typed /\ OnePlace /\ Staged
  BY Zenon DEF IInv
<1>2. /\ state' = state /\ out' = out /\ waiters' = waiters /\ wst' = wst /\ pauseSet' = pauseSet
      /\ stopSet' = stopSet /\ pc' = pc /\ acks' = acks /\ next' = next /\ conn' = conn /\ fatal' = fatal
      /\ capacity' = capacity
  BY Zenon DEF GetRequest, callVars, world
<1>3. /\ wpc[w] = "get" /\ queue[w] # <<>> /\ h \in Callers
      /\ queue' = [queue EXCEPT ![w] = Tail(@)]
      /\ wpc' = [wpc EXCEPT ![w] = "begin"] /\ cur' = [cur EXCEPT ![w] = h]
  BY Zenon DEF GetRequest, Pops
<1>4. /\ queue' \in [Workers -> Seq(Callers \cup Controls)]
      /\ \A v \in Workers : queue'[v] = IF v = w THEN Tail(queue[w]) ELSE queue[v]
      /\ \A c \in Callers, v \in Workers, i \in Nat :
           At(queue', c, v, i) => Sits(c, v, i + [u \in Workers |-> IF u = w THEN 1 ELSE 0][v])
  BY <1>1, <1>3, TailEffect, Zenon
<1>5. /\ wpc' \in [Workers -> ThreadStates] /\ cur' \in [Workers -> Callers \cup {NoCall}]
      /\ \A v \in Workers : wpc'[v] = IF v = w THEN "begin" ELSE wpc[v]
      /\ \A v \in Workers : cur'[v] = IF v = w THEN h ELSE cur[v]
  BY <1>1, <1>3 DEF Typed, ThreadStates
<1>6. queue[w] \in Seq(Callers \cup Controls)
  BY <1>1, Zenon DEF Typed
<1>7. Sits(h, w, 1) /\ 1 \in Nat
  BY <1>3, <1>6 DEF Sits, At, Item
<1>8. ASSUME NEW c \in Callers, NEW v \in Workers, NEW i \in Nat, At(queue', c, v, i)
      PROVE  \E j \in Nat : Sits(c, v, j) /\ (v = w => j = i + 1 /\ j # 1) /\ (v # w => j = i)
  <2>1. CASE v = w
    <3>1. [u \in Workers |-> IF u = w THEN 1 ELSE 0][v] = 1
      BY <2>1, Zenon
    <3>2. Sits(c, v, i + 1)
      BY <1>4, <1>8, <3>1, Zenon
    <3>3. i + 1 \in Nat /\ i + 1 # 1
      BY <1>8 DEF At
    <3> QED BY <2>1, <3>2, <3>3, Zenon
  <2>2. CASE v # w
    <3>1. queue'[v] = queue[v]
      BY <1>4, <2>2, Zenon
    <3>2. Sits(c, v, i)
      BY <1>8, <3>1, Zenon DEF Sits, At
    <3> QED BY <2>2, <3>2, Zenon
  <2> QED BY <2>1, <2>2, Zenon
<1> HIDE DEF h
<1>9. ASSUME NEW v \in Workers, NEW i \in Nat, At(queue', h, v, i) PROVE FALSE
  <2>1. PICK j \in Nat : Sits(h, v, j) /\ (v = w => j = i + 1 /\ j # 1) /\ (v # w => j = i)
    BY <1>3, <1>8, <1>9, Zenon
  <2> QED BY <1>1, <1>3, <1>7, <2>1, Zenon DEF OnePlace
<1>10. OnePlace'
  <2>1. \A v \in Workers : wpc'[v] \in Working <=> cur'[v] \in Callers
    BY <1>1, <1>3, <1>5, Zenon DEF OnePlace, Working
  <2>a. \A v \in Workers : cur[v] # h
    BY <1>1, <1>3, <1>7, Zenon DEF OnePlace
  <2>2. \A u, v \in Workers : cur'[u] \in Callers /\ cur'[u] = cur'[v] => u = v
    BY <1>1, <1>5, <2>a, Zenon DEF OnePlace
  <2>3. ASSUME NEW c \in Callers, NEW u \in Workers, NEW v \in Workers, NEW i \in Nat, NEW j \in Nat,
               At(queue', c, u, i), At(queue', c, v, j)
        PROVE  u = v /\ i = j
    <3>1. PICK x \in Nat : Sits(c, u, x) /\ (u = w => x = i + 1) /\ (u # w => x = i)
      BY <1>8, <2>3, Zenon
    <3>2. PICK y \in Nat : Sits(c, v, y) /\ (v = w => y = j + 1) /\ (v # w => y = j)
      BY <1>8, <2>3, Zenon
    <3>3. u = v /\ x = y
      BY <1>1, <3>1, <3>2, Zenon DEF OnePlace
    <3> QED BY <3>1, <3>2, <3>3
  <2>4. ASSUME NEW c \in Callers, NEW u \in Workers, NEW v \in Workers, NEW i \in Nat, At(queue', c, u, i)
        PROVE  cur'[v] # c
    <3>1. c # h
      BY <1>9, <2>4, Zenon
    <3>2. cur[v] # c
      BY <1>1, <1>8, <2>4, Zenon DEF OnePlace
    <3> QED BY <1>5, <3>1, <3>2, Zenon
  <2> QED BY <2>1, <2>2, <2>3, <2>4, Zenon DEF OnePlace, Sits
<1>11. Typed'
  BY <1>1, <1>2, <1>4, <1>5, Zenon DEF Typed
<1>12. ASSUME NEW c \in Callers
       PROVE  InQueue(c)' \/ Running(c)' <=> InQueue(c) \/ Running(c)
  <2>0. \A v \in Workers : \A i \in 1 .. Len(queue'[v]) : i \in Nat
    OBVIOUS
  <2>1. InQueue(c)' => InQueue(c)
    <3> SUFFICES ASSUME NEW v \in Workers, NEW i \in 1 .. Len(queue'[v]), queue'[v][i] = c
                 PROVE  InQueue(c)
      BY Zenon DEF InQueue
    <3>1. i \in Nat /\ At(queue', c, v, i)
      BY <2>0, Zenon DEF At
    <3>2. PICK j \in Nat : Sits(c, v, j)
      BY <1>8, <3>1, Zenon
    <3> QED BY <3>2, Zenon DEF InQueue, Sits, At
  <2>2. InQueue(h)
    BY <1>7, Zenon DEF InQueue, Sits, At
  <2>3. Running(c)' => Running(c) \/ InQueue(c)
    BY <1>5, <2>2, Zenon DEF Running
  <2>a. cur[w] \notin Callers
    BY <1>1, <1>3, Zenon DEF OnePlace, Working
  <2>4. Running(c) => Running(c)'
    BY <1>5, <2>a, Zenon DEF Running
  <2>5. CASE c = h
    BY <1>5, <2>2, <2>5, Zenon DEF Running
  <2>6. CASE c # h
    <3>1. InQueue(c) => InQueue(c)'
      <4> SUFFICES ASSUME NEW v \in Workers, NEW i \in 1 .. Len(queue[v]), queue[v][i] = c
                   PROVE  InQueue(c)'
        BY Zenon DEF InQueue
      <4>1. CASE v = w
        <5>1. i # 1
          BY <2>6, <1>7, <4>1, Zenon DEF Sits, At
        <5>2. queue'[w] = Tail(queue[w])
          BY <1>4, Zenon
        <5>3. i - 1 \in 1 .. Len(queue'[w]) /\ queue'[w][i - 1] = c
          <6> DEFINE q == queue[w]
                     t == queue'[w]
          <6>1. q \in Seq(Callers \cup Controls) /\ q # <<>> /\ t = Tail(q) /\ i \in 1 .. Len(q) /\ q[i] = c
            BY <1>3, <1>6, <4>1, <5>2, Zenon
          <6> HIDE DEF q, t
          <6>2. i - 1 \in 1 .. Len(t) /\ t[i - 1] = c
            BY <5>1, <6>1
          <6> QED BY <6>2, Zenon DEF t
        <5> QED BY <5>3, Zenon DEF InQueue
      <4>2. CASE v # w
        <5>1. queue'[v] = queue[v]
          BY <1>4, <4>2, Zenon
        <5> QED BY <5>1, Zenon DEF InQueue
      <4> QED BY <4>1, <4>2, Zenon
    <3> QED BY <2>1, <2>3, <2>4, <3>1, Zenon
  <2> QED BY <2>5, <2>6, Zenon
<1>13. Staged'
  BY <1>1, <1>2, <1>12, Zenon DEF Staged, NoRequest
<1>14. Owners' = Owners
  <2>1. ASSUME NEW c \in Callers PROVE c \in Owners' <=> c \in Owners
    BY <1>2, <1>12, Zenon DEF Owners
  <2>2. Owners' \subseteq Callers /\ Owners \subseteq Callers
    BY Zenon DEF Owners
  <2> QED BY <2>1, <2>2, Zenon
<1>15. ASSUME state \in Live PROVE Counted' /\ Pausing'
  <2>1. Counted /\ Pausing
    BY <1>15, Zenon DEF IInv
  <2>2. h \in Owners
    BY <1>3, <1>7, Zenon DEF Owners, InQueue, Sits, At
  <2>3. ~pauseSet /\ state # "paused"
    BY <2>1, <2>2, Zenon DEF Pausing
  <2>4. \A v \in Workers : queue'[v] \in Seq(Callers)
    <3>1. \A v \in Workers : queue[v] \in Seq(Callers)
      BY <2>1, <2>3, Zenon DEF Pausing
    <3>2. Tail(queue[w]) \in Seq(Callers)
      BY <1>3, <3>1
    <3> QED BY <1>4, <3>1, <3>2, Zenon
  <2>5. \A v \in Workers : wpc'[v] \notin {"failing", "drain", "exit", "dead"}
    BY <1>5, <2>1, Zenon DEF Pausing
  <2>6. Counted'
    BY <1>2, <1>14, <2>1, Zenon DEF Counted
  <2> QED BY <1>2, <2>1, <2>3, <2>4, <2>5, <2>6, Zenon DEF Pausing
<1>16. state # "new"
  BY <1>3, Zenon DEF IInv, Unstarted
<1> QED BY <1>2, <1>10, <1>11, <1>13, <1>15, <1>16, Zenon DEF IInv, Unstarted

\* A control is taken: no request moves but the queue behind it.
LEMMA ControlTaken ==
  ASSUME IInv, NEW w \in Workers, queue[w] # <<>>, queue' = [queue EXCEPT ![w] = Tail(@)],
         Typed', state' \notin Live, cur' = cur, pc' = pc, wst' = wst,
         \A v \in Workers : wpc'[v] \in Working <=> wpc[v] \in Working
  PROVE  IInv'
<1> DEFINE d == [u \in Workers |-> IF u = w THEN 1 ELSE 0]
<1>1. Typed
  BY Zenon DEF IInv
<1>2. \A c \in Callers, v \in Workers, i \in Nat : At(queue', c, v, i) => Sits(c, v, i + d[v])
  BY <1>1, TailEffect, Zenon
<1>3. d \in [Workers -> {0, 1}]
  OBVIOUS
<1> HIDE DEF d
<1> QED BY <1>2, <1>3, OutsideStep, Zenon

\* _acknowledge_pause: with the last acknowledgement every queue is empty
\* and every connection closed.
LEMMA GetPauseStep ==
  ASSUME IInv, NEW w \in Workers, GetPause(w)
  PROVE  IInv'
<1>1. Typed /\ OnePlace /\ Staged
  BY Zenon DEF IInv
<1>2. /\ out' = out /\ waiters' = waiters /\ wst' = wst /\ pauseSet' = pauseSet /\ stopSet' = stopSet
      /\ pc' = pc /\ next' = next /\ wpc' = wpc /\ cur' = cur /\ fatal' = fatal /\ capacity' = capacity
  BY Zenon DEF GetPause, callVars, world
<1>3. /\ wpc[w] = "get" /\ queue[w] # <<>> /\ Item(w) = "PAUSE"
      /\ queue' = [queue EXCEPT ![w] = Tail(@)]
      /\ conn' = [conn EXCEPT ![w] = 0] /\ acks' = acks + 1
      /\ IF acks + 1 = MaxConnections /\ state = "pausing" THEN state' = "paused" ELSE state' = state
  BY Zenon DEF GetPause, Pops
<1>4. /\ queue' \in [Workers -> Seq(Callers \cup Controls)]
      /\ \A v \in Workers : queue'[v] = IF v = w THEN Tail(queue[w]) ELSE queue[v]
      /\ \A c \in Callers, v \in Workers, i \in Nat :
           At(queue', c, v, i) => Sits(c, v, i + [u \in Workers |-> IF u = w THEN 1 ELSE 0][v])
  BY <1>1, <1>3, TailEffect, Zenon
<1>5. Typed'
  <2>1. conn' = [v \in Workers |-> conn'[v]]
    BY <1>1, <1>3, Zenon DEF Typed
  <2> QED BY <1>1, <1>2, <1>4, <2>1, Zenon DEF Typed
<1>6. CASE state \notin Live
  <2>1. state' \notin Live
    BY <1>3, <1>6, Zenon DEF Live
  <2> QED BY <1>2, <1>3, <1>5, <2>1, ControlTaken, Zenon
<1>7. CASE state \in Live
  <2>1. state = "pausing" /\ pauseSet /\ queue[w] = <<"PAUSE">>
    BY <1>3, <1>7, TakenLive, Zenon
  <2>2. Counted /\ Pausing
    BY <1>7, Zenon DEF IInv
  <2>3. /\ Owners = {} /\ acks = Cardinality(Acked) /\ \A v \in Acked : conn[v] = 0
        /\ \A v \in Workers : queue[v] \in {<<>>, <<"PAUSE">>}
    BY <2>1, <2>2, Zenon DEF Pausing
  <2>4. OnePlace' /\ \A c \in Callers : NoRequest(c) => NoRequest(c)'
    <3> DEFINE d == [u \in Workers |-> IF u = w THEN 1 ELSE 0]
    <3>1. d \in [Workers -> {0, 1}]
      OBVIOUS
    <3>2. \A c \in Callers, v \in Workers, i \in Nat : At(queue', c, v, i) => Sits(c, v, i + d[v])
      BY <1>4, Zenon
    <3> HIDE DEF d
    <3>3. /\ \A v \in Workers : cur'[v] \in Callers => cur'[v] = cur[v]
          /\ \A v \in Workers : wpc'[v] \in Working <=> cur'[v] \in Callers
      BY <1>1, <1>2, Zenon DEF OnePlace
    <3> QED BY <1>1, <3>1, <3>2, <3>3, PlacesKept, Zenon
  <2>5. Staged'
    BY <1>1, <1>2, <2>4, Zenon DEF Staged
  <2>6. Owners' = {}
    <3>1. ASSUME NEW c \in Callers PROVE c \notin Owners'
      <4>1. c \notin Owners
        BY <2>3, Zenon
      <4>2. NoRequest(c) /\ pc[c] # "admitted" /\ wst[c] # "granted"
        BY <4>1, Zenon DEF Owners, NoRequest
      <4>3. NoRequest(c)'
        BY <2>4, <4>2, Zenon
      <4> QED BY <1>2, <4>2, <4>3, Zenon DEF Owners, NoRequest
    <3>2. Owners' \subseteq Callers
      BY Zenon DEF Owners
    <3> QED BY <3>1, <3>2, Zenon
  <2>7. Counted'
    BY <1>2, <2>2, <2>3, <2>6, Zenon DEF Counted
  <2>8. queue'[w] = <<>> /\ <<"PAUSE">> # <<>>
    <3>1. Tail(<<"PAUSE">>) = <<>> /\ <<"PAUSE">> # <<>>
      OBVIOUS
    <3> QED BY <1>4, <2>1, <3>1, Zenon
  <2>9. Acked' = Acked \cup {w} /\ w \notin Acked
    <3>1. ASSUME NEW v \in Workers PROVE queue'[v] = <<>> <=> queue[v] = <<>> \/ v = w
      BY <1>4, <2>8, Zenon
    <3>2. Acked' = Acked \cup {w}
      BY <3>1, Zenon DEF Acked
    <3> QED BY <2>1, <2>8, <3>2, Zenon DEF Acked
  <2>10. IsFiniteSet(Workers) /\ Cardinality(Workers) = MaxConnections
    <3>1. 0 \in Int /\ MaxConnections - 1 \in Int /\ ~(0 > MaxConnections - 1)
          /\ MaxConnections - 1 - 0 + 1 = MaxConnections
      BY PoolConstants
    <3>2. IsFiniteSet(0 .. MaxConnections - 1)
          /\ Cardinality(0 .. MaxConnections - 1) = MaxConnections - 1 - 0 + 1
      BY <3>1, FS_Interval, Zenon
    <3> QED BY <3>1, <3>2, Zenon DEF Workers
  <2>11. IsFiniteSet(Acked) /\ Acked' \in SUBSET Workers
    BY <2>10, FS_Subset, Zenon DEF Acked
  <2>12. acks' = Cardinality(Acked')
    BY <1>3, <2>3, <2>9, <2>11, FS_AddElement, Zenon
  <2>13. \A v \in Acked' : conn'[v] = 0
    <3> SUFFICES ASSUME NEW v \in Acked' PROVE conn'[v] = 0
      OBVIOUS
    <3>1. CASE v \in Acked /\ v # w
      BY <1>1, <1>3, <2>3, <3>1 DEF Acked, Typed
    <3>2. CASE v = w
      BY <1>1, <1>3, <3>2 DEF Typed
    <3> QED BY <2>9, <3>1, <3>2, Zenon
  <2>14. \A v \in Workers : queue'[v] \in {<<>>, <<"PAUSE">>}
    BY <1>4, <2>3, <2>8, Zenon
  <2>15. CASE acks + 1 = MaxConnections
    <3>1. state' = "paused"
      BY <1>3, <2>1, <2>15, Zenon
    <3>2. Acked' = Workers
      BY <1>3, <2>10, <2>11, <2>12, <2>15, FS_Subset, Zenon
    <3>3. \A v \in Workers : queue'[v] = <<>> /\ conn'[v] = 0
      BY <2>13, <3>2, Zenon DEF Acked
    <3>4. Pausing'
      BY <1>2, <2>1, <2>2, <2>6, <3>1, <3>3, Zenon DEF Pausing
    <3> QED BY <1>5, <2>4, <2>5, <2>7, <3>1, <3>4, Zenon DEF IInv, Unstarted
  <2>16. CASE acks + 1 # MaxConnections
    <3>1. state' = state /\ state' # "paused" /\ state' # "new"
      BY <1>3, <2>1, <2>16, Zenon
    <3>2. Pausing'
      BY <1>2, <2>1, <2>2, <2>6, <2>12, <2>13, <2>14, <3>1, Zenon DEF Pausing
    <3> QED BY <1>5, <2>4, <2>5, <2>7, <3>1, <3>2, Zenon DEF IInv, Unstarted
  <2> QED BY <2>15, <2>16, Zenon
<1> QED BY <1>6, <1>7, Zenon

\* A worker that fails, drains its queue or exits: the pool is not live.
LEMMA FailingStep ==
  ASSUME IInv, NEW w \in Workers,
         GetStop(w) \/ BeginWorkerFailure(w) \/ FailQueued(w) \/ Drained(w) \/ Stopped(w)
  PROVE  IInv'
<1>1. Typed
  BY Zenon DEF IInv
<1>2. /\ pc' = pc /\ next' = next /\ cur' = cur /\ capacity' = capacity
  BY Zenon DEF GetStop, BeginWorkerFailure, FailQueued, Drained, Stopped, callVars, actors, world
<1>3. /\ queue \in [Workers -> Seq(Callers \cup Controls)] /\ wpc \in [Workers -> ThreadStates]
      /\ conn = [v \in Workers |-> conn[v]]
  BY <1>1, Zenon DEF Typed
<1>4. CASE GetStop(w)
  <2>1. /\ state' = state /\ waiters' = waiters /\ wst' = wst /\ conn' = conn
        /\ wpc[w] = "get" /\ queue[w] # <<>> /\ Item(w) = "STOP"
        /\ queue' = [queue EXCEPT ![w] = Tail(@)] /\ wpc' = [wpc EXCEPT ![w] = "exit"]
    BY <1>4, Zenon DEF GetStop, Pops
  <2>2. state' \notin Live
    BY <2>1, TakenLive, Zenon
  <2>3. queue' \in [Workers -> Seq(Callers \cup Controls)]
    BY <1>1, <2>1, TailEffect, Zenon
  <2>4. wpc' \in [Workers -> ThreadStates] /\ \A v \in Workers : wpc'[v] \in Working <=> wpc[v] \in Working
    BY <1>3, <2>1 DEF ThreadStates, Working
  <2>5. Typed'
    BY <1>1, <1>2, <2>1, <2>3, <2>4, Zenon DEF Typed
  <2> QED BY <1>2, <2>1, <2>2, <2>4, <2>5, ControlTaken, Zenon
<1>5. CASE FailQueued(w)
  <2> DEFINE rest == [queue EXCEPT ![w] = Tail(@)]
             d == [u \in Workers |-> IF u = w THEN 1 ELSE 0]
  <2>1. /\ wpc[w] = "drain" /\ queue[w] # <<>> /\ state' = state /\ wpc' = wpc /\ conn' = conn
        /\ \/ Settle(out - 1, wst, waiters, posted, rest)
           \/ queue' = rest /\ waiters' = waiters /\ wst' = wst
    BY <1>5, Zenon DEF FailQueued
  <2>2. state \notin Live /\ state # "open"
    BY <2>1, Zenon DEF IInv, Pausing, Live
  <2>3. /\ rest \in [Workers -> Seq(Callers \cup Controls)]
        /\ \A c \in Callers, v \in Workers, i \in Nat : At(rest, c, v, i) => Sits(c, v, i + d[v])
    BY <1>1, <2>1, TailEffect, Zenon
  <2>4. d \in [Workers -> {0, 1}]
    OBVIOUS
  <2> HIDE DEF rest, d
  <2>5. /\ wst' = wst /\ waiters' \in Seq(Callers) /\ queue' \in [Workers -> Seq(Callers \cup Controls)]
        /\ \A c \in Callers, v \in Workers, i \in Nat : At(queue', c, v, i) => At(rest, c, v, i)
    <3>1. CASE Settle(out - 1, wst, waiters, posted, rest)
      <4>1. wst' = wst /\ waiters' \in Seq(Callers) /\ \E n : Advance(state, n, rest)
        BY <1>1, <2>2, <3>1, SettleIdle, Zenon
      <4>2. /\ queue' \in [Workers -> Seq(Callers \cup Controls)]
            /\ \A c \in Callers, v \in Workers, i \in Nat : At(queue', c, v, i) <=> At(rest, c, v, i)
        BY <2>3, <4>1, AdvanceEffect, Zenon
      <4> QED BY <4>1, <4>2, Zenon
    <3>2. CASE queue' = rest /\ waiters' = waiters /\ wst' = wst
      BY <1>1, <2>3, <3>2, Zenon DEF Typed
    <3> QED BY <2>1, <3>1, <3>2, Zenon
  <2>6. Typed'
    BY <1>1, <1>2, <2>1, <2>5, Zenon DEF Typed
  <2>7. \A c \in Callers, v \in Workers, i \in Nat : At(queue', c, v, i) => Sits(c, v, i + d[v])
    BY <2>3, <2>5, Zenon
  <2>8. state' \notin Live
    BY <2>1, <2>2, Zenon
  <2> QED BY <1>2, <2>1, <2>4, <2>5, <2>6, <2>7, <2>8, OutsideStep, Zenon
<1>6. CASE BeginWorkerFailure(w)
  <2>1. wpc[w] = "fatal" /\ wpc' = [wpc EXCEPT ![w] = "failing"] /\ conn' = conn
    BY <1>6, Zenon DEF BeginWorkerFailure
  <2>2. wpc' \in [Workers -> ThreadStates] /\ \A v \in Workers : wpc'[v] \in Working <=> wpc[v] \in Working
    BY <1>3, <2>1 DEF ThreadStates, Working
  <2>3. CASE fatal
    <3>1. state' = state /\ waiters' = waiters /\ wst' = wst /\ queue' = queue
      BY <1>6, <2>3, Zenon DEF BeginWorkerFailure
    <3>2. state' \notin Live
      BY <2>3, <3>1, Zenon DEF IInv, Pausing
    <3>3. Typed'
      BY <1>1, <1>2, <2>1, <2>2, <3>1, Zenon DEF Typed
    <3>4. \A c \in Callers, v \in Workers, i \in Nat : At(queue', c, v, i) <=> Sits(c, v, i)
      BY <3>1, Zenon DEF Sits
    <3> QED BY <1>2, <2>2, <3>1, <3>2, <3>3, <3>4, OutsideSame, Zenon
  <2>4. CASE ~fatal
    <3>1. /\ state' = "closing" /\ RejectWaiters
          /\ queue' = IF stopSet THEN queue
                      ELSE [v \in Workers |-> IF v = w THEN queue[v] ELSE Append(queue[v], "STOP")]
      BY <1>6, <2>4, Zenon DEF BeginWorkerFailure
    <3>2. /\ waiters' \in Seq(Callers) /\ wst' \in [Callers -> WaiterStates]
          /\ \A c \in Callers : wst'[c] \in Entered => wst[c] \in Entered
      <4>1. /\ waiters' \in Seq(Callers) /\ wst' \in [Callers -> WaiterStates]
            /\ \A c \in Callers : wst'[c] \in Entered => wst'[c] = wst[c]
        BY <1>1, <3>1, RejectEffect, Zenon
      <4> QED BY <4>1, Zenon
    <3>3. \A v \in Workers : queue'[v] = queue[v] \/ queue'[v] = Append(queue[v], "STOP")
      BY <3>1, Zenon
    <3>4. queue' \in [Workers -> Seq(Callers \cup Controls)]
      <4>1. \A v \in Workers : Append(queue[v], "STOP") \in Seq(Callers \cup Controls)
        BY <1>3 DEF Controls
      <4> QED BY <1>3, <3>1, <4>1, Zenon
    <3>5. ASSUME NEW c \in Callers, NEW v \in Workers, NEW i \in Nat
          PROVE  At(queue', c, v, i) <=> Sits(c, v, i)
      <4>1. c # "STOP" /\ queue[v] \in Seq(Callers \cup Controls)
        BY <1>3, PoolConstants
      <4>2. CASE queue'[v] = queue[v]
        BY <4>2, Zenon DEF Sits, At
      <4>3. CASE queue'[v] = Append(queue[v], "STOP")
        BY <4>1, <4>3 DEF Sits, At
      <4> QED BY <3>3, <4>2, <4>3, Zenon
    <3>6. Typed' /\ state' \notin Live
      BY <1>1, <1>2, <2>1, <2>2, <3>1, <3>2, <3>4, Zenon DEF Typed, Live
    <3> QED BY <1>2, <2>2, <3>2, <3>5, <3>6, OutsideSame, Zenon
  <2> QED BY <2>3, <2>4, Zenon
<1>7. CASE Drained(w) \/ Stopped(w)
  <2>1. /\ wpc[w] \in {"drain", "exit"} /\ waiters' = waiters /\ wst' = wst /\ queue' = queue
        /\ state' = state \/ state' = "closed"
    BY <1>7, Zenon DEF Drained, Stopped, admission
  <2>2. \E s \in {"exit", "dead"} : wpc' = [wpc EXCEPT ![w] = s]
    BY <1>7, Zenon DEF Drained, Stopped
  <2>3. conn' = conn \/ conn' = [conn EXCEPT ![w] = 0]
    BY <1>7, Zenon DEF Drained, Stopped
  <2>4. conn' = [v \in Workers |-> conn'[v]]
    BY <1>3, <2>3, Zenon
  <2>5. wpc' \in [Workers -> ThreadStates] /\ \A v \in Workers : wpc'[v] \in Working <=> wpc[v] \in Working
    BY <1>3, <2>1, <2>2 DEF ThreadStates, Working
  <2>6. state' \notin Live
    BY <2>1, Zenon DEF IInv, Pausing, Live
  <2>7. Typed'
    BY <1>1, <1>2, <2>1, <2>4, <2>5, Zenon DEF Typed
  <2>8. \A c \in Callers, v \in Workers, i \in Nat : At(queue', c, v, i) <=> Sits(c, v, i)
    BY <2>1, Zenon DEF Sits
  <2> QED BY <1>2, <2>1, <2>5, <2>6, <2>7, <2>8, OutsideSame, Zenon
<1> QED BY <1>4, <1>5, <1>6, <1>7, Zenon

\* _run_request and the failure of an actor are such steps.
LEMMA ReadStep ==
  ASSUME IInv, NEW w \in Workers, Begin(w) \/ Finish(w) \/ Fatal(w)
  PROVE  IInv'
<1>1. /\ state' = state /\ out' = out /\ waiters' = waiters /\ wst' = wst /\ queue' = queue
      /\ pauseSet' = pauseSet /\ stopSet' = stopSet /\ pc' = pc /\ acks' = acks /\ next' = next
      /\ cur' = cur /\ fatal' = fatal /\ capacity' = capacity
  BY Zenon DEF Begin, Finish, Fatal, admission, callVars, world
<1>2. wpc[w] \in {"begin", "read"}
  BY Zenon DEF Begin, Finish, Fatal
<1>3. \E s \in {"begin", "read", "release", "fatal"} : wpc' = [wpc EXCEPT ![w] = s]
  BY Zenon DEF Begin, Finish, Fatal, SqliteError, Answer
<1>4. conn' = conn \/ \E x : conn' = [conn EXCEPT ![w] = x]
  BY Zenon DEF Begin, Finish, Fatal, SqliteError
<1>5. conn = [v \in Workers |-> conn[v]]
  BY Zenon DEF IInv, Typed
<1>6. conn' = [v \in Workers |-> conn'[v]]
  BY <1>4, <1>5, Zenon
<1> QED BY <1>1, <1>2, <1>3, <1>6, WorkStep, Zenon

\* A new pool satisfies the invariant.
LEMMA InitInv ==
  ASSUME Init
  PROVE  IInv
<1>1. Typed
  <2>1. 0 \in Workers
    BY PoolConstants DEF Workers
  <2>2. <<>> \in Seq(Callers) /\ <<>> \in Seq(Callers \cup Controls)
    OBVIOUS
  <2>3. capacity \in Nat
    BY PoolConstants, Zenon DEF Init
  <2> QED BY <2>1, <2>2, <2>3, Zenon DEF Init, Typed, WaiterStates, CallerStates, ThreadStates
<1>2. \A w \in Workers : queue[w] = <<>> /\ cur[w] = NoCall /\ wpc[w] = "off" /\ conn[w] = 0
  BY Zenon DEF Init
<1>3. \A c \in Callers : ~InQueue(c) /\ ~Running(c)
  <2>1. \A w \in Workers : 1 .. Len(queue[w]) = {}
    BY <1>2
  <2> QED BY <1>2, <2>1, PoolConstants, Zenon DEF InQueue, Running
<1>4. \A c, w, i : w \in Workers => ~Sits(c, w, i)
  <2>1. \A w \in Workers : 1 .. Len(queue[w]) = {}
    BY <1>2
  <2> QED BY <2>1, Zenon DEF Sits, At
<1>5. OnePlace
  BY <1>2, <1>4, PoolConstants, Zenon DEF OnePlace, Working
<1>6. \A c \in Callers : pc[c] = "idle" /\ wst[c] = "none"
  BY Zenon DEF Init
<1>7. Staged /\ Owners = {}
  BY <1>3, <1>6, Zenon DEF Staged, NoRequest, Owners, Entered
<1>8. Counted
  <2>1. IsFiniteSet({}) /\ Cardinality({}) = 0
    BY FS_EmptySet, Zenon
  <2>2. 0 <= capacity /\ out = 0
    BY <1>1 DEF Init, Typed
  <2> QED BY <1>7, <2>1, <2>2, Zenon DEF Counted
<1>9. Pausing
  <2>1. <<>> \in Seq(Callers)
    OBVIOUS
  <2>2. state = "new" /\ pauseSet = FALSE /\ stopSet = FALSE /\ fatal = FALSE /\ acks = 0
    BY Zenon DEF Init
  <2> QED BY <1>2, <2>1, <2>2, Zenon DEF Pausing
<1> QED BY <1>1, <1>2, <1>5, <1>7, <1>8, <1>9, Zenon DEF IInv, Unstarted

\* A step that touches none of the pool's state.
LEMMA FrameStep ==
  ASSUME IInv, state' = state, out' = out, waiters' = waiters, wst' = wst, queue' = queue,
         pauseSet' = pauseSet, stopSet' = stopSet, pc' = pc, acks' = acks, next' = next, wpc' = wpc,
         cur' = cur, conn' = conn, fatal' = fatal, capacity' = capacity
  PROVE  IInv'
<1>1. Typed' /\ Staged' /\ Unstarted'
  BY Zenon DEF IInv, Typed, Staged, Unstarted, NoRequest, InQueue, Running
<1>2. OnePlace'
  <2>1. \A c \in Callers, w \in Workers, i \in Nat : At(queue', c, w, i) <=> Sits(c, w, i)
    BY Zenon DEF Sits
  <2> QED BY <2>1, PlacesSame, Zenon DEF IInv
<1>3. Owners' = Owners /\ Acked' = Acked
  BY Zenon DEF Owners, InQueue, Running, Acked
<1>4. state \in Live => Counted' /\ Pausing'
  BY <1>3, Zenon DEF IInv, Counted, Pausing
<1> QED BY <1>1, <1>2, <1>4, Zenon DEF IInv

\* Every step keeps the invariant.
LEMMA NextInv ==
  ASSUME IInv, [Next]_vars
  PROVE  IInv'
<1>1. CASE UNCHANGED vars
  <2>1. /\ state' = state /\ out' = out /\ waiters' = waiters /\ wst' = wst /\ queue' = queue
        /\ pauseSet' = pauseSet /\ stopSet' = stopSet /\ pc' = pc /\ acks' = acks /\ next' = next
        /\ wpc' = wpc /\ cur' = cur /\ conn' = conn /\ fatal' = fatal /\ capacity' = capacity
    BY <1>1, Zenon DEF vars, admission, callVars, actors, world
  <2> QED BY <2>1, FrameStep, Zenon
<1>2. CASE Replace
  <2>1. /\ state' = state /\ out' = out /\ waiters' = waiters /\ wst' = wst /\ queue' = queue
        /\ pauseSet' = pauseSet /\ stopSet' = stopSet /\ pc' = pc /\ acks' = acks /\ next' = next
        /\ wpc' = wpc /\ cur' = cur /\ conn' = conn /\ fatal' = fatal /\ capacity' = capacity
    BY <1>2, Zenon DEF Replace, admission, callVars, actors
  <2> QED BY <2>1, FrameStep, Zenon
<1>3. ASSUME NEW c \in Callers, Acquire(c) PROVE IInv'
  BY <1>3, AcquireStep, Zenon
<1>4. ASSUME NEW c \in Callers, Dispatch(c) PROVE IInv'
  BY <1>4, DispatchStep, Zenon
<1>5. ASSUME NEW c \in Callers,
             \/ LeavesWaiting(c) \/ Resume(c) \/ DeliverGrant(c) \/ DeliverRejection(c) \/ LoopCloses(c)
             \/ GrantToClosedLoop(c) \/ Receive(c) \/ Abandon(c)
      PROVE  IInv'
  BY <1>5, LineStep, Zenon
<1>6. CASE Start
  BY <1>6, StartStep, Zenon
<1>7. CASE StartFails \/ PauseAndDrain \/ ResumePool \/ Close
  BY <1>7, LifecycleStep, Zenon
<1>8. ASSUME NEW w \in Workers, GetPause(w) PROVE IInv'
  BY <1>8, GetPauseStep, Zenon
<1>9. ASSUME NEW w \in Workers, GetRequest(w) PROVE IInv'
  BY <1>9, GetRequestStep, Zenon
<1>10. ASSUME NEW w \in Workers, Begin(w) \/ Finish(w) \/ Fatal(w) PROVE IInv'
  BY <1>10, ReadStep, Zenon
<1>11. ASSUME NEW w \in Workers,
              GetStop(w) \/ BeginWorkerFailure(w) \/ FailQueued(w) \/ Drained(w) \/ Stopped(w)
       PROVE  IInv'
  BY <1>11, FailingStep, Zenon
<1>12. ASSUME NEW w \in Workers, Release(w) PROVE IInv'
  <2>1. /\ wpc[w] = "release" /\ wpc' = [wpc EXCEPT ![w] = "get"] /\ cur' = [cur EXCEPT ![w] = NoCall]
        /\ Settle(out - 1, wst, waiters, posted, queue)
        /\ state' = state /\ pc' = pc /\ acks' = acks /\ next' = next /\ conn' = conn
        /\ fatal' = fatal /\ capacity' = capacity
    BY <1>12, Zenon DEF Release, callVars, world
  <2>2. "get" \in {"get", "drain"} /\ wpc[w] \in {"release", "failing"}
    BY <2>1, Zenon
  <2> QED BY <2>1, <2>2, FreeStep, Zenon
<1>13. ASSUME NEW w \in Workers, FailActive(w) PROVE IInv'
  <2>1. /\ wpc[w] = "failing" /\ wpc' = [wpc EXCEPT ![w] = "drain"] /\ cur' = [cur EXCEPT ![w] = NoCall]
        /\ Settle(out - 1, wst, waiters, posted, queue)
        /\ state' = state /\ pc' = pc /\ acks' = acks /\ next' = next /\ conn' = conn
        /\ fatal' = fatal /\ capacity' = capacity
    BY <1>13, Zenon DEF FailActive, callVars, world
  <2>2. state \notin Live
    BY <2>1, Zenon DEF IInv, Pausing
  <2>3. "drain" \in {"get", "drain"} /\ wpc[w] \in {"release", "failing"}
    BY <2>1, Zenon
  <2> QED BY <2>1, <2>2, <2>3, FreeStep, Zenon
<1> QED BY <1>1, <1>2, <1>3, <1>4, <1>5, <1>6, <1>7, <1>8, <1>9, <1>10, <1>11, <1>12, <1>13, Zenon DEF Next

\* Every caller has a result.
Results == result = [c \in Callers |-> result[c]]

\* A result is kept, or one is set, to "ok" only by a worker whose connection
\* is to the file in place.
LEMMA ResultStep ==
  ASSUME [Next]_vars
  PROVE  \/ result' = result
         \/ \E x, r : result' = [result EXCEPT ![x] = r] /\ r # "ok"
         \/ \E v \in Workers : conn[v] = file /\ result' = [result EXCEPT ![cur[v]] = "ok"]
<1> DEFINE Kept == result' = result
           Other == \E x, r : result' = [result EXCEPT ![x] = r] /\ r # "ok"
           Good == \E v \in Workers : conn[v] = file /\ result' = [result EXCEPT ![cur[v]] = "ok"]
<1>1. CASE UNCHANGED vars
  BY <1>1, Zenon DEF vars, actors
<1>2. ASSUME NEW c \in Callers,
             \/ Acquire(c) \/ LeavesWaiting(c) \/ Resume(c) \/ DeliverGrant(c) \/ DeliverRejection(c)
             \/ LoopCloses(c) \/ GrantToClosedLoop(c) \/ Dispatch(c) \/ Receive(c) \/ Abandon(c)
      PROVE  Kept
  BY <1>2, Zenon DEF Acquire, LeavesWaiting, Resume, DeliverGrant, DeliverRejection, LoopCloses,
                     GrantToClosedLoop, Dispatch, Receive, Abandon, actors
<1>3. CASE Start \/ StartFails \/ PauseAndDrain \/ ResumePool \/ Close \/ Replace
  BY <1>3, Zenon DEF Start, StartFails, PauseAndDrain, ResumePool, Close, Replace, actors
<1>4. ASSUME NEW w \in Workers,
             \/ GetStop(w) \/ GetPause(w) \/ GetRequest(w) \/ Release(w) \/ Fatal(w)
             \/ BeginWorkerFailure(w) \/ Drained(w) \/ Stopped(w)
      PROVE  Kept
  BY <1>4, Zenon DEF GetStop, GetPause, GetRequest, Release, Fatal, BeginWorkerFailure, Drained, Stopped
<1>5. ASSUME NEW w \in Workers, FailActive(w) \/ FailQueued(w) PROVE Kept \/ Other
  <2>1. "failed" # "ok"
    OBVIOUS
  <2> QED BY <1>5, <2>1, Zenon DEF FailActive, FailQueued
<1>6. ASSUME NEW w \in Workers, SqliteError(w) PROVE Kept \/ Other
  <2>1. "failed" # "ok"
    OBVIOUS
  <2> QED BY <1>6, <2>1, Zenon DEF SqliteError, Answer
<1>7. ASSUME NEW w \in Workers, Begin(w) PROVE Kept \/ Other
  <2>1. "cancelled" # "ok" /\ "timeout" # "ok"
    OBVIOUS
  <2> QED BY <1>6, <1>7, <2>1, Zenon DEF Begin, Answer
<1>8. ASSUME NEW w \in Workers, Finish(w) PROVE Kept \/ Other \/ Good
  <2>1. CASE conn[w] = file /\ Answer(w, "ok")
    BY <2>1, Zenon DEF Answer
  <2>2. CASE SqliteError(w)
    BY <1>6, <2>2, Zenon
  <2>3. ASSUME NEW r \in {"timeout", "failed"} \cup (IF cur[w] \in left THEN {"cancelled"} ELSE {}),
               Answer(w, r)
        PROVE  Other
    <3>1. r # "ok"
      OBVIOUS
    <3> QED BY <2>3, <3>1, Zenon DEF Answer
  <2> QED BY <1>8, <2>1, <2>2, <2>3, Zenon DEF Finish
<1> QED BY <1>1, <1>2, <1>3, <1>4, <1>5, <1>7, <1>8, Zenon DEF Next

\* The slots are counted and the lifecycle is in order at every moment, for
\* any number of callers and workers (read_pool.py).
THEOREM ReadPoolInvariant == Spec => [](IInv /\ Results)
<1>1. Init => IInv /\ Results
  <2>1. Init => Results
    BY Zenon DEF Init, Results
  <2> QED BY <2>1, InitInv, Zenon
<1>2. IInv /\ Results /\ [Next]_vars => (IInv /\ Results)'
  <2> SUFFICES ASSUME IInv, Results, [Next]_vars PROVE IInv' /\ Results'
    BY Zenon
  <2>1. result' = result \/ \E x, r : result' = [result EXCEPT ![x] = r]
    BY ResultStep, Zenon
  <2>2. Results'
    BY <2>1, Zenon DEF Results
  <2> QED BY <2>2, NextInv, Zenon
<1> QED BY <1>1, <1>2, PTL DEF Spec

\* Whoever awaited pause_and_drain has the file to itself: in the state
\* paused no slot is owned, no worker holds a connection and nothing is queued
\* (_advance_lifecycle_locked and _acknowledge_pause).
THEOREM PausedIsQuietAlways == Spec => []PausedIsQuiet
<1>1. IInv => PausedIsQuiet
  BY Zenon DEF IInv, Pausing, PausedIsQuiet, Live
<1> QED BY <1>1, ReadPoolInvariant, PTL

\* An answer comes from the file that is in place when the read ends: the
\* worker that gives it is the only one that holds the request.
THEOREM AnswersCurrentAlways == Spec => AnswersCurrent
<1> DEFINE Good == \A w \in Workers : cur[w] # NoCall /\ result[cur[w]] = "none" /\ result'[cur[w]] = "ok"
                     => conn[w] = file
<1>1. IInv /\ Results /\ [Next]_vars => [Good]_vars
  <2> SUFFICES ASSUME IInv, Results, [Next]_vars, NEW w \in Workers, cur[w] # NoCall,
                      result[cur[w]] = "none", result'[cur[w]] = "ok"
               PROVE  conn[w] = file
    BY Zenon
  <2> DEFINE c == cur[w]
  <2>1. c \in Callers
    BY Zenon DEF IInv, Typed
  <2>2. result = [x \in Callers |-> result[x]]
    BY Zenon DEF Results
  <2> HIDE DEF c
  <2>3. result[c] = "none" /\ result'[c] = "ok"
    BY Zenon DEF c
  <2>4. "none" # "ok"
    OBVIOUS
  <2>5. ASSUME NEW x, NEW r, result' = [result EXCEPT ![x] = r] PROVE x = c /\ r = "ok"
    <3>1. CASE x = c
      BY <2>1, <2>2, <2>3, <2>5, <3>1, Zenon
    <3>2. CASE x # c
      <4>1. result'[c] = result[c]
        BY <2>1, <2>2, <2>5, <3>2, Zenon
      <4> QED BY <2>3, <2>4, <4>1, Zenon
    <3> QED BY <3>1, <3>2, Zenon
  <2>6. PICK v \in Workers : conn[v] = file /\ result' = [result EXCEPT ![cur[v]] = "ok"]
    <3>1. result' # result
      BY <2>3, <2>4, Zenon
    <3> QED BY <2>5, <3>1, ResultStep, Zenon
  <2>7. cur[v] = c
    BY <2>5, <2>6, Zenon
  <2>8. v = w
    BY <2>1, <2>7, Zenon DEF IInv, OnePlace, c
  <2> QED BY <2>6, <2>8, Zenon
<1>2. Spec => [][Good]_vars
  BY <1>1, ReadPoolInvariant, PTL DEF Spec
<1> QED BY <1>2 DEF AnswersCurrent
=============================================================================
