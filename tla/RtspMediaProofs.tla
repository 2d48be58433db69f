--------------------------- MODULE RtspMediaProofs ---------------------------
(***************************************************************************)
(* The media sessions' bookkeeping, for every number of buffers, any       *)
(* number of callers and any bound: MediaInv is inductive as it stands,    *)
(* and what the copies of cdr_rtsp_send_frame may overwrite follows.  The  *)
(* session queue comes first, by itself.  That the replay's key frames     *)
(* follow their parameter sets needs UnitsInOrder, the place of the replay *)
(* within a picture.                                                       *)
(***************************************************************************)
EXTENDS RtspMedia, SequenceTheorems, TLAPS

-----------------------------------------------------------------------------
(* The session queue (OsalQueue): a bounded FIFO queue of NB_BUFFER - 1    *)
(* pointers, for every NB_BUFFER.                                          *)

(* Walking the ring stays in the ring, and After is qNext repeated.        *)
LEMMA Walk ==
    /\ Nodes \in Nat /\ Nodes >= 1
    /\ \A n \in Node : qNext(n) \in Node
    /\ \A n \in Node, i \in 0..Nodes : After(n, i) \in Node
    /\ \A n \in Node, i \in 0..(Nodes - 1) : After(qNext(n), i) = After(n, i + 1)
    /\ \A n \in Node, i \in 0..(Nodes - 1) : qNext(After(n, i)) = After(n, i + 1)
    /\ \A n \in Node, i, j \in 0..(Nodes - 1) : i # j => After(n, i) # After(n, j)
    /\ \A n \in Node : After(n, 0) = n /\ After(n, Nodes) = n
  BY QueueAssumption DEF Nodes, Node, qNext, After

(* What Append and Tail are, element by element.                           *)
LEMMA AppendIsFunction ==
    ASSUME NEW S, NEW c \in Seq(S), NEW d \in S
    PROVE  Append(c, d) = [i \in 1..(Len(c) + 1) |-> IF i <= Len(c) THEN c[i] ELSE d]
<1> DEFINE t == [i \in 1..(Len(c) + 1) |-> IF i <= Len(c) THEN c[i] ELSE d]
<1>1. t \in Seq(S) /\ Len(t) = Len(c) + 1
  OBVIOUS
<1>2. \A i \in 1..Len(t) : Append(c, d)[i] = t[i]
  BY <1>1, AppendProperties
<1> HIDE DEF t
<1>3. Append(c, d) \in Seq(S) /\ Len(Append(c, d)) = Len(t)
  BY <1>1, AppendProperties
<1>4. Append(c, d) = t
  BY <1>1, <1>2, <1>3, SeqEqual
<1> QED BY <1>4 DEF t

LEMMA TailIsFunction ==
    ASSUME NEW S, NEW c \in Seq(S), c # <<>>
    PROVE  Tail(c) = [i \in 1..(Len(c) - 1) |-> c[i + 1]]
<1> DEFINE t == [i \in 1..(Len(c) - 1) |-> c[i + 1]]
<1>1. t \in Seq(S) /\ Len(t) = Len(c) - 1
  OBVIOUS
<1>2. Tail(c) \in Seq(S) /\ Len(Tail(c)) = Len(t) /\ \A i \in 1..Len(t) : Tail(c)[i] = t[i]
  BY <1>1, HeadTailProperties
<1> HIDE DEF t
<1>3. Tail(c) = t
  BY <1>1, <1>2, SeqEqual
<1> QED BY <1>3 DEF t

(* A new queue is in order and holds nothing.                              *)
THEOREM CreateIsEmpty == IsQueue(OSAL_QueueCreate) /\ Contents(OSAL_QueueCreate) = <<>>
<1> DEFINE q == OSAL_QueueCreate
<1>1. q \in Queue /\ q.numElem = 0 /\ q.first = 0 /\ q.last = 0
      /\ \A n \in Node : q.data[n] = NULL
  BY Walk DEF OSAL_QueueCreate, Queue, Node
<1>2. q.last = After(q.first, q.numElem)
  BY <1>1, Walk DEF Node
<1>3. \A i \in 0..(Nodes - 1) : q.data[After(q.first, i)] = NULL
  BY <1>1, Walk DEF Queue
<1>4. Contents(q) = <<>>
  BY <1>1 DEF Contents
<1> HIDE DEF q
<1>5. IsQueue(q)
  BY <1>1, <1>2, <1>3, Walk DEF IsQueue
<1> QED BY <1>4, <1>5 DEF q

(* A queue refuses exactly when all its elements hold pointers, and finds  *)
(* nothing exactly when none does: the tests of the pointer and of the     *)
(* count never disagree, and numElem >= maxElem is never what refuses.     *)
THEOREM RefusesWhenFull ==
    ASSUME NEW q, IsQueue(q)
    PROVE  /\ Refuses(q) <=> q.numElem = Nodes
           /\ FindsNothing(q) <=> q.numElem = 0
<1>1. /\ q.numElem \in Nat /\ q.numElem <= Nodes /\ q.first \in Node /\ q.last \in Node
      /\ \A i \in 0..(Nodes - 1) : q.data[After(q.first, i)] # NULL <=> i < q.numElem
  BY DEF IsQueue, Queue
<1>2. q.last = After(q.first, q.numElem)
  BY DEF IsQueue
<1>3. q.data[q.first] # NULL <=> 0 < q.numElem
  BY <1>1, Walk
<1>4. q.data[q.last] # NULL <=> q.numElem = Nodes
  <2>1. CASE q.numElem = Nodes
    <3>1. q.last = q.first
      BY <1>1, <1>2, <2>1, Walk
    <3> QED BY <1>1, <1>3, <2>1, <3>1, Walk
  <2>2. CASE q.numElem < Nodes
    BY <1>1, <1>2, <2>2, Walk
  <2> QED BY <1>1, <2>1, <2>2, Walk
<1>5. Nodes < NB_BUFFER
  BY QueueAssumption DEF Nodes
<1> QED BY <1>1, <1>3, <1>4, <1>5, Walk, QueueAssumption DEF Refuses, FindsNothing

(* OSAL_Queue appends to what the queue holds, or leaves it alone.         *)
THEOREM QueueAppends ==
    ASSUME NEW q, IsQueue(q), NEW d \in Slot
    PROVE  /\ IsQueue(OSAL_Queue(q, d))
           /\ OSAL_Queue(q, d).numElem = IF Refuses(q) THEN q.numElem ELSE q.numElem + 1
           /\ Contents(OSAL_Queue(q, d)) =
                  IF Refuses(q) THEN Contents(q) ELSE Append(Contents(q), d)
<1>1. CASE Refuses(q)
  BY <1>1 DEF OSAL_Queue
<1>2. CASE ~Refuses(q)
  <2> DEFINE r == OSAL_Queue(q, d)
  <2>1. /\ q.numElem \in Nat /\ q.numElem < Nodes /\ q.first \in Node /\ q.last \in Node
        /\ q.data \in [Node -> Slot \cup {NULL}] /\ q.last = After(q.first, q.numElem)
        /\ \A i \in 0..(Nodes - 1) : q.data[After(q.first, i)] # NULL <=> i < q.numElem
    <3>1. q.numElem # Nodes
      BY <1>2, RefusesWhenFull
    <3> QED BY <3>1, Walk DEF IsQueue, Queue
  <2>2. /\ r.data = [q.data EXCEPT ![q.last] = d] /\ r.first = q.first
        /\ r.last = qNext(q.last) /\ r.numElem = q.numElem + 1
        /\ r = [data |-> r.data, first |-> r.first, last |-> r.last, numElem |-> r.numElem]
    BY <1>2 DEF OSAL_Queue
  <2> HIDE DEF r
  <2>3. r \in Queue
    <3>1. r.data \in [Node -> Slot \cup {NULL}]
      BY <2>1, <2>2
    <3>2. r.first \in Node /\ r.last \in Node /\ r.numElem \in Nat
      BY <2>1, <2>2, Walk
    <3> QED BY <2>2, <3>1, <3>2 DEF Queue
  <2>4. r.last = After(r.first, r.numElem)
    BY <2>1, <2>2, Walk
  <2>5. \A i \in 0..(Nodes - 1) :
            r.data[After(r.first, i)] = IF i = q.numElem THEN d ELSE q.data[After(q.first, i)]
    <3> SUFFICES ASSUME NEW i \in 0..(Nodes - 1)
                 PROVE  r.data[After(r.first, i)] = IF i = q.numElem THEN d ELSE q.data[After(q.first, i)]
      OBVIOUS
    <3>1. After(q.first, i) \in Node /\ (After(q.first, i) = q.last <=> i = q.numElem)
      BY <2>1, Walk
    <3> QED BY <2>1, <2>2, <3>1
  <2>6. \A i \in 0..(Nodes - 1) : r.data[After(r.first, i)] # NULL <=> i < r.numElem
    BY <2>1, <2>2, <2>5, QueueAssumption
  <2>7. IsQueue(r)
    BY <2>1, <2>2, <2>3, <2>4, <2>6, Walk DEF IsQueue
  <2>8. Contents(r) = Append(Contents(q), d)
    <3>1. /\ Contents(r) = [i \in 1..(q.numElem + 1) |-> r.data[After(r.first, i - 1)]]
          /\ Contents(q) = [i \in 1..q.numElem |-> q.data[After(q.first, i - 1)]]
      BY <2>2 DEF Contents
    <3>2. Contents(q) \in Seq(Slot \cup {NULL}) /\ Len(Contents(q)) = q.numElem
      <4>1. \A i \in 1..q.numElem : q.data[After(q.first, i - 1)] \in Slot \cup {NULL}
        BY <2>1, Walk
      <4> QED BY <2>1, <3>1, <4>1, SMTT(20)
    <3>3. \A i \in 1..(q.numElem + 1) :
              r.data[After(r.first, i - 1)] = IF i <= q.numElem THEN Contents(q)[i] ELSE d
      <4> SUFFICES ASSUME NEW i \in 1..(q.numElem + 1)
                   PROVE  r.data[After(r.first, i - 1)]
                            = IF i <= q.numElem THEN Contents(q)[i] ELSE d
        OBVIOUS
      <4>1. i - 1 \in 0..(Nodes - 1)
        BY <2>1, Walk
      <4>2. r.data[After(r.first, i - 1)]
              = IF i - 1 = q.numElem THEN d ELSE q.data[After(q.first, i - 1)]
        BY <2>5, <4>1
      <4> QED BY <2>1, <3>1, <4>2
    <3>4. Append(Contents(q), d)
            = [i \in 1..(q.numElem + 1) |-> IF i <= q.numElem THEN Contents(q)[i] ELSE d]
      <4> DEFINE c == Contents(q)
      <4>1. c \in Seq(Slot \cup {NULL} \cup {d}) /\ Len(c) = q.numElem
        BY <3>2
      <4> HIDE DEF c
      <4>2. Append(c, d) = [i \in 1..(Len(c) + 1) |-> IF i <= Len(c) THEN c[i] ELSE d]
        BY <4>1, AppendIsFunction
      <4> QED BY <4>1, <4>2 DEF c
    <3> QED BY <3>1, <3>3, <3>4
  <2> QED BY <1>2, <2>2, <2>7, <2>8 DEF r
<1> QED BY <1>1, <1>2

(* OSAL_Dequeue returns the oldest pointer and takes it off.               *)
THEOREM DequeueTakesHead ==
    ASSUME NEW q, IsQueue(q), q.numElem > 0
    PROVE  /\ IsQueue(OSAL_Dequeue(q))
           /\ OSAL_Dequeue(q).numElem = q.numElem - 1
           /\ Dequeued(q) = Head(Contents(q)) /\ Dequeued(q) \in Slot
           /\ Contents(OSAL_Dequeue(q)) = Tail(Contents(q))
<1> DEFINE r == OSAL_Dequeue(q)
<1>1. /\ q.numElem \in Nat /\ q.numElem <= Nodes /\ q.first \in Node /\ q.last \in Node
      /\ q.data \in [Node -> Slot \cup {NULL}]
      /\ q.last = After(q.first, q.numElem)
      /\ \A i \in 0..(Nodes - 1) : q.data[After(q.first, i)] # NULL <=> i < q.numElem
  BY DEF IsQueue, Queue
<1>2. ~FindsNothing(q)
  BY <1>1, RefusesWhenFull
<1>3. /\ r.data = [q.data EXCEPT ![q.first] = NULL] /\ r.first = qNext(q.first)
      /\ r.last = q.last /\ r.numElem = q.numElem - 1
      /\ r = [data |-> r.data, first |-> r.first, last |-> r.last, numElem |-> r.numElem]
  BY <1>2 DEF OSAL_Dequeue
<1> HIDE DEF r
<1>4. r \in Queue
  <2>1. r.data \in [Node -> Slot \cup {NULL}]
    BY <1>1, <1>3
  <2>2. r.first \in Node /\ r.last \in Node /\ r.numElem \in Nat
    BY <1>1, <1>3, Walk
  <2> QED BY <1>3, <2>1, <2>2 DEF Queue
<1>5. r.last = After(r.first, r.numElem)
  <2>1. After(r.first, r.numElem) = After(q.first, q.numElem)
    BY <1>1, <1>3, Walk
  <2> QED BY <1>1, <1>3, <2>1, Walk
<1>6. \A i \in 0..(Nodes - 1) :
          r.data[After(r.first, i)] = IF i = Nodes - 1 THEN NULL ELSE q.data[After(q.first, i + 1)]
  <2> SUFFICES ASSUME NEW i \in 0..(Nodes - 1)
               PROVE  r.data[After(r.first, i)]
                        = IF i = Nodes - 1 THEN NULL ELSE q.data[After(q.first, i + 1)]
    OBVIOUS
  <2>1. After(r.first, i) = After(q.first, i + 1)
    BY <1>1, <1>3, Walk
  <2>2. After(q.first, i + 1) \in Node /\ (After(q.first, i + 1) = q.first <=> i = Nodes - 1)
    BY <1>1, Walk
  <2> QED BY <1>1, <1>3, <2>1, <2>2
<1>7. \A i \in 0..(Nodes - 1) : r.data[After(r.first, i)] # NULL <=> i < r.numElem
  <2> SUFFICES ASSUME NEW i \in 0..(Nodes - 1)
               PROVE  r.data[After(r.first, i)] # NULL <=> i < r.numElem
    OBVIOUS
  <2>1. CASE i = Nodes - 1
    BY <1>1, <1>3, <1>6, <2>1, Walk
  <2>2. CASE i < Nodes - 1
    <3>1. q.data[After(q.first, i + 1)] # NULL <=> i + 1 < q.numElem
      BY <1>1, <2>2, Walk
    <3>2. r.data[After(r.first, i)] = q.data[After(q.first, i + 1)]
      BY <1>6, <2>2
    <3> QED BY <1>1, <1>3, <2>2, <3>1, <3>2
  <2> QED BY <2>1, <2>2, Walk
<1>8. IsQueue(r)
  BY <1>1, <1>3, <1>4, <1>5, <1>7, Walk DEF IsQueue
<1>9. /\ Contents(r) = [i \in 1..(q.numElem - 1) |-> r.data[After(r.first, i - 1)]]
      /\ Contents(q) = [i \in 1..q.numElem |-> q.data[After(q.first, i - 1)]]
  BY <1>3 DEF Contents
<1>10. Contents(q) \in Seq(Slot \cup {NULL}) /\ Len(Contents(q)) = q.numElem
  <2>1. \A i \in 1..q.numElem : q.data[After(q.first, i - 1)] \in Slot \cup {NULL}
    BY <1>1, Walk
  <2> QED BY <1>1, <1>9, <2>1
<1>11. Dequeued(q) = Head(Contents(q)) /\ Dequeued(q) \in Slot
  <2>1. Dequeued(q) = q.data[q.first] /\ q.data[q.first] \in Slot \cup {NULL}
    BY <1>1, <1>2 DEF Dequeued
  <2>2. Contents(q)[1] = q.data[q.first]
    BY <1>1, <1>9, Walk
  <2>3. Contents(q) # <<>>
    BY <1>10
  <2>4. q.data[q.first] # NULL
    BY <1>2 DEF FindsNothing
  <2> QED BY <1>10, <2>1, <2>2, <2>3, <2>4
<1>12. Contents(r) = Tail(Contents(q))
  <2>1. \A i \in 1..(q.numElem - 1) : r.data[After(r.first, i - 1)] = Contents(q)[i + 1]
    BY <1>1, <1>6, <1>9, Walk
  <2>2. Tail(Contents(q)) = [i \in 1..(q.numElem - 1) |-> Contents(q)[i + 1]]
    <3> DEFINE c == Contents(q)
    <3>1. c \in Seq(Slot \cup {NULL}) /\ Len(c) = q.numElem /\ c # <<>>
      BY <1>10
    <3> HIDE DEF c
    <3>2. Tail(c) = [i \in 1..(Len(c) - 1) |-> c[i + 1]]
      BY <3>1, TailIsFunction
    <3> QED BY <3>1, <3>2 DEF c
  <2> QED BY <1>9, <2>1, <2>2
<1> QED BY <1>3, <1>8, <1>11, <1>12 DEF r

-----------------------------------------------------------------------------
(* Positions of the shared index.                                          *)

(* index %= NB_BUFFER takes the position past the last buffer to the       *)
(* first, and leaves the others where they are.                            *)
LEMMA Modulo ==
    /\ \A x \in Nat : x % NB_BUFFER \in Slot
    /\ \A x \in 0..NB_BUFFER : x % NB_BUFFER = IF x = NB_BUFFER THEN 0 ELSE x
<1>1. ASSUME NEW x \in Nat
      PROVE  x % NB_BUFFER \in Slot /\ (x <= NB_BUFFER => x % NB_BUFFER = IF x = NB_BUFFER THEN 0 ELSE x)
  <2> DEFINE n == NB_BUFFER
             d == x \div n
  <2>1. n \in Nat \ {0}
    BY QueueAssumption
  <2> HIDE DEF n
  <2>2. x = n * d + (x % n) /\ (x % n) \in 0..(n - 1) /\ d \in Int
    BY <2>1, Z3
  <2> HIDE DEF d
  <2>3. x < n => d = 0
    <3>1. CASE d > 0
      <4>1. n * d >= n
        BY <2>1, <2>2, <3>1, Z3
      <4> QED BY <2>1, <2>2, <4>1, Z3
    <3>2. CASE d < 0
      <4>1. n * d <= -n
        BY <2>1, <2>2, <3>2, Z3
      <4> QED BY <2>1, <2>2, <4>1, Z3
    <3> QED BY <2>2, <3>1, <3>2, Z3
  <2>4. x = n => d = 1
    <3>1. CASE d > 1
      <4>1. n * d >= n + n
        BY <2>1, <2>2, <3>1, Z3
      <4> QED BY <2>1, <2>2, <4>1, Z3
    <3>2. CASE d < 1
      <4>1. n * d <= 0
        BY <2>1, <2>2, <3>2, Z3
      <4> QED BY <2>1, <2>2, <4>1, Z3
    <3> QED BY <2>2, <3>1, <3>2, Z3
  <2>5. (x < n => x % n = x) /\ (x = n => x % n = 0)
    BY <2>1, <2>2, <2>3, <2>4, Z3
  <2> QED BY <2>1, <2>2, <2>5 DEF n, Slot
<1> QED BY <1>1, QueueAssumption

(* Walking back from a position, and from the one after it.                *)
LEMMA BackFacts ==
    /\ \A p \in 0..NB_BUFFER, k \in 1..NB_BUFFER : Back(p, k) = Back(p % NB_BUFFER, k)
    /\ \A p \in Slot, k \in 1..Nodes : Back(p, k) = Back(p + 1, k + 1)
    /\ \A p \in Slot : Back(p + 1, 1) = p
    /\ \A p \in Slot, k \in 1..Nodes : Back(p, k) # p
    /\ \A p \in Slot, k \in 1..NB_BUFFER : Back(p, k) = p => k = NB_BUFFER
<1>1. \A p \in 0..NB_BUFFER, k \in 1..NB_BUFFER : Back(p, k) = Back(p % NB_BUFFER, k)
  <2> SUFFICES ASSUME NEW p \in 0..NB_BUFFER, NEW k \in 1..NB_BUFFER
               PROVE  Back(p, k) = Back(p % NB_BUFFER, k)
    OBVIOUS
  <2> DEFINE m == p % NB_BUFFER
  <2>1. m = IF p = NB_BUFFER THEN 0 ELSE p
    BY Modulo
  <2> HIDE DEF m
  <2>2. Back(p, k) = Back(m, k)
    BY <2>1, QueueAssumption DEF Back
  <2> QED BY <2>2 DEF m
<1> QED BY <1>1, QueueAssumption DEF Back, Slot, Nodes

(* What a queue in order holds is a sequence of its numElem buffers.       *)
LEMMA ContentsAreSlots ==
    ASSUME NEW q, IsQueue(q)
    PROVE  /\ Contents(q) \in Seq(Slot) /\ Len(Contents(q)) = q.numElem
           /\ q.numElem \in 0..Nodes
<1>1. /\ q.numElem \in Nat /\ q.numElem <= Nodes /\ q.first \in Node
      /\ q.data \in [Node -> Slot \cup {NULL}]
      /\ \A i \in 0..(Nodes - 1) : q.data[After(q.first, i)] # NULL <=> i < q.numElem
  BY DEF IsQueue, Queue
<1>2. \A i \in 1..q.numElem : q.data[After(q.first, i - 1)] \in Slot
  <2> SUFFICES ASSUME NEW i \in 1..q.numElem
               PROVE  q.data[After(q.first, i - 1)] \in Slot
    OBVIOUS
  <2>1. i - 1 \in 0..(Nodes - 1) /\ i - 1 < q.numElem
    BY <1>1, Walk
  <2>2. After(q.first, i - 1) \in Node
    BY <1>1, <2>1, Walk
  <2> QED BY <1>1, <2>1, <2>2
<1> QED BY <1>1, <1>2, Walk DEF Contents

(* What holds of a queue before and after, in the terms of SlotsInOrder.   *)
LEMMA Appended ==
    ASSUME NEW q, IsQueue(q), NEW d \in Slot, ~Refuses(q)
    PROVE  LET r == OSAL_Queue(q, d) IN
           /\ IsQueue(r) /\ r.numElem = q.numElem + 1
           /\ \A i \in 1..q.numElem : Contents(r)[i] = Contents(q)[i]
           /\ Contents(r)[q.numElem + 1] = d
<1> DEFINE c == Contents(q)
<1>1. c \in Seq(Slot) /\ Len(c) = q.numElem /\ q.numElem \in Nat
  BY ContentsAreSlots
<1>2. IsQueue(OSAL_Queue(q, d)) /\ OSAL_Queue(q, d).numElem = q.numElem + 1
      /\ Contents(OSAL_Queue(q, d)) = Append(c, d)
  BY QueueAppends
<1> HIDE DEF c
<1>3. (\A i \in 1..Len(c) : Append(c, d)[i] = c[i]) /\ Append(c, d)[Len(c) + 1] = d
  BY <1>1, AppendProperties
<1> QED BY <1>1, <1>2, <1>3 DEF c

LEMMA TakenOff ==
    ASSUME NEW q, IsQueue(q), Dequeued(q) # NULL
    PROVE  LET r == OSAL_Dequeue(q) IN
           /\ IsQueue(r) /\ q.numElem > 0 /\ r.numElem = q.numElem - 1
           /\ Dequeued(q) \in Slot /\ Dequeued(q) = Contents(q)[1]
           /\ \A i \in 1..r.numElem : Contents(r)[i] = Contents(q)[i + 1]
<1> DEFINE c == Contents(q)
<1>1. c \in Seq(Slot) /\ Len(c) = q.numElem /\ q.numElem \in Nat
  BY ContentsAreSlots
<1>2. q.numElem > 0
  BY <1>1, RefusesWhenFull DEF Dequeued
<1>3. IsQueue(OSAL_Dequeue(q)) /\ OSAL_Dequeue(q).numElem = q.numElem - 1
      /\ Dequeued(q) = Head(c) /\ Dequeued(q) \in Slot /\ Contents(OSAL_Dequeue(q)) = Tail(c)
  BY <1>2, DequeueTakesHead
<1> HIDE DEF c
<1>4. c # <<>>
  BY <1>1, <1>2
<1>5. Head(c) = c[1] /\ \A i \in 1..(Len(c) - 1) : Tail(c)[i] = c[i + 1]
  BY <1>1, <1>4, HeadTailProperties
<1> QED BY <1>1, <1>2, <1>3, <1>5 DEF c

-----------------------------------------------------------------------------
(* The types.                                                              *)

LEMMA PictureType == \A k \in {"I", "P"} : Picture(k) \in Seq(Kind) /\ Picture(k) # <<>>
<1>1. <<"sps", "pps", "I">> \in Seq(Kind) /\ <<"sps", "pps", "I">> # <<>>
  BY DEF Kind
<1>2. <<"P">> \in Seq(Kind) /\ <<"P">> # <<>>
  BY DEF Kind
<1> QED BY <1>1, <1>2 DEF Picture

LEMMA TypeInit == Init => TypeOK
<1> SUFFICES ASSUME Init PROVE TypeOK
  OBVIOUS
<1>1. OSAL_QueueCreate \in Queue
  BY CreateIsEmpty DEF IsQueue
<1>2. /\ todo \in [Session -> Seq(Kind)]
      /\ sendPc \in [Session -> {"idle", "copy", "queue", "next"}]
      /\ queue \in [Session -> Queue]
      /\ sending \in [Session -> Slot \cup {NULL}]
  BY <1>1 DEF Init
<1>3. callPc \in [Caller -> {"idle", "livePlay", "recPlay", "setTime"}]
  BY DEF Init
<1>4. last \in Kind /\ index \in Nat /\ overlaps \in Nat /\ calls \in Nat
  BY DEF Init, Kind
<1> QED BY <1>2, <1>3, <1>4 DEF Init, TypeOK

(* Each queue stays a ring in order, and a producer inside                 *)
(* cdr_rtsp_send_frame has a unit to hand over.                            *)
Rings == \A s \in Session : IsQueue(queue[s]) /\ (sendPc[s] # "idle" => todo[s] # <<>>)

LEMMA TypeStep == TypeOK /\ Rings /\ [Next]_vars => TypeOK'
<1> SUFFICES ASSUME TypeOK, Rings, [Next]_vars PROVE TypeOK'
  OBVIOUS
<1> USE DEF TypeOK, Session
<1>1. CASE UNCHANGED vars
  BY <1>1 DEF vars, control, producers, media
<1>2. ASSUME NEW s \in Session, Copy(s) PROVE TypeOK'
  BY <1>2, ZenonT(30) DEF Copy, control, media
<1>3. ASSUME NEW s \in Session, Enqueue(s) PROVE TypeOK'
  <2>1. OSAL_Queue(queue[s], index) \in Queue
    BY <1>3, QueueAppends DEF Enqueue, Rings, IsQueue
  <2>2. queue' \in [Session -> Queue]
    BY <1>3, <2>1 DEF Enqueue
  <2>3. todo[s] # <<>> /\ todo[s] \in Seq(Kind)
    BY <1>3 DEF Enqueue, Rings
  <2>4. last' \in Kind
    BY <1>3, <2>3 DEF Enqueue
  <2> QED BY <1>3, <2>2, <2>4 DEF Enqueue, control
<1>4. ASSUME NEW s \in Session, EnqueueWild(s) PROVE TypeOK'
  BY <1>4 DEF EnqueueWild, control, media
<1>5. ASSUME NEW s \in Session, Refused(s) \/ Advance(s) PROVE TypeOK'
  <2>1. sendPc[s] # "idle" /\ (todo' = [todo EXCEPT ![s] = Tail(@)] \/ todo' = todo)
    BY <1>5 DEF Refused, Advance
  <2>2. Tail(todo[s]) \in Seq(Kind)
    BY <2>1 DEF Rings
  <2>3. todo' \in [Session -> Seq(Kind)]
    BY <2>1, <2>2
  <2>4. cbFlag' \in BOOLEAN
    BY <1>5, Zenon DEF Refused, Advance
  <2>5. index' \in Nat
    BY <1>5 DEF Refused, Advance, control
  <2> QED BY <1>5, <2>3, <2>4, <2>5 DEF Refused, Advance, control, media
<1>6. CASE LiveSleep
  BY <1>6 DEF LiveSleep, control, media
<1>7. CASE LiveGet
  BY <1>7, PictureType DEF LiveGet, control, media
<1>8. CASE LiveSkip \/ LiveUnwatched
  <2>1. todo["live"] # <<>> /\ todo' = [todo EXCEPT !["live"] = Tail(@)]
    BY <1>8 DEF LiveSkip, LiveUnwatched, InLoop
  <2>2. todo' \in [Session -> Seq(Kind)]
    BY <2>1
  <2>3. thFlag' \in BOOLEAN /\ cbFlag' \in BOOLEAN
    BY <1>8 DEF LiveSkip, LiveUnwatched, SkippedByThread
  <2> QED BY <1>8, <2>2, <2>3 DEF LiveSkip, LiveUnwatched, control, media
<1>9. ASSUME NEW s \in Session, Enter(s), UNCHANGED <<control, cbFlag, todo, wild, media>>,
             thFlag' \in BOOLEAN, fresh' \in BOOLEAN
      PROVE  TypeOK'
  <2>1. index' \in Nat
    BY <1>9, Modulo DEF Enter, Slot
  <2>2. mixed' \in BOOLEAN
    BY <1>9 DEF Enter, Busy
  <2>3. sendPc' \in [Session -> {"idle", "copy", "queue", "next"}] /\ overlaps' \in Nat
    BY <1>9 DEF Enter
  <2> QED BY <1>9, <2>1, <2>2, <2>3 DEF control, media
<1>10. CASE LiveHandOver
  BY <1>9, <1>10 DEF LiveHandOver
<1>11. CASE RecRead
  BY <1>11, PictureType DEF RecRead, control, media
<1>12. CASE RecHandOver
  BY <1>9, <1>12 DEF RecHandOver
<1>13. ASSUME NEW s \in Session, Take(s) PROVE TypeOK'
  <2>1. OSAL_Dequeue(queue[s]) \in Queue /\ Dequeued(queue[s]) \in Slot
    BY <1>13, TakenOff DEF Take, Rings, IsQueue
  <2>2. queue' \in [Session -> Queue] /\ sending' \in [Session -> Slot \cup {NULL}]
    BY <1>13, <2>1, SMTT(20) DEF Take
  <2> QED BY <1>13, <2>2 DEF Take, control, producers
<1>14. ASSUME NEW s \in Session, Packed(s) PROVE TypeOK'
  BY <1>14 DEF Packed, control, producers
<1>15. ASSUME NEW c \in Caller, Callback(c) PROVE TypeOK'
  <2>1. /\ UNCHANGED <<push, producers, media>>
        /\ callPc' \in [Caller -> {"idle", "livePlay", "recPlay", "setTime"}]
        /\ calls' \in Nat
    BY <1>15 DEF Callback, LivePlayStopsRec, LivePlay, LiveStop, RecPlayStarts, RecPlay, RecStop,
       SetTimeStops, SetTime, Begin, End, At, Counted
  <2>2. livePlay' \in BOOLEAN /\ pause' \in BOOLEAN /\ fresh' \in BOOLEAN
    BY <1>15, Zenon DEF Callback, LivePlayStopsRec, LivePlay, LiveStop, RecPlayStarts, RecPlay,
       RecStop, SetTimeStops, SetTime
  <2> QED BY <2>1, <2>2 DEF producers, media
<1>16. CASE PushChange
  BY <1>16 DEF PushChange, Counted, producers, media
<1> QED BY <1>1, <1>2, <1>3, <1>4, <1>5, <1>6, <1>7, <1>8, <1>10, <1>11, <1>12, <1>13, <1>14,
           <1>15, <1>16
        DEF Next, Producer, SendFrame, LiveThread, RecThread, Sender

-----------------------------------------------------------------------------
(* The rings.                                                              *)

LEMMA RingsStep == TypeOK /\ Rings /\ [Next]_vars => Rings'
<1> SUFFICES ASSUME TypeOK, Rings, [Next]_vars, NEW s \in Session
             PROVE  (IsQueue(queue[s]))' /\ (sendPc'[s] # "idle" => todo'[s] # <<>>)
  BY DEF Rings
<1>1. /\ IsQueue(queue[s]) /\ (sendPc[s] # "idle" => todo[s] # <<>>)
      /\ DOMAIN sendPc = Session /\ DOMAIN todo = Session /\ DOMAIN queue = Session
  BY DEF Rings, TypeOK
<1>2. (IsQueue(queue[s]))' <=> IsQueue(queue'[s])
  BY DEF IsQueue, Queue, After, Node, Nodes, Slot
<1>3. CASE UNCHANGED <<sendPc, todo, queue>>
  BY <1>1, <1>2, <1>3
<1>4. ASSUME NEW t \in Session, SendFrame(t), ~Enqueue(t)
      PROVE  IsQueue(queue'[s]) /\ (sendPc'[s] # "idle" => todo'[s] # <<>>)
  BY <1>1, <1>4 DEF SendFrame, Copy, EnqueueWild, Refused, Advance, media
<1>5. ASSUME NEW t \in Session, Enqueue(t)
      PROVE  IsQueue(queue'[s]) /\ (sendPc'[s] # "idle" => todo'[s] # <<>>)
  <2>1. IsQueue(OSAL_Queue(queue[t], index)) /\ sendPc[t] # "idle"
    BY <1>5, QueueAppends DEF Enqueue, Rings
  <2>2. queue'[s] = IF s = t THEN OSAL_Queue(queue[t], index) ELSE queue[s]
    BY <1>1, <1>5 DEF Enqueue
  <2> QED BY <1>1, <1>5, <2>1, <2>2 DEF Enqueue, Rings
<1>6. ASSUME NEW t \in Session, todo[t] = <<>> \/ sendPc[t] = "idle", sendPc' = sendPc, queue' = queue,
             NEW u, todo' = [todo EXCEPT ![t] = u]
      PROVE  IsQueue(queue'[s]) /\ (sendPc'[s] # "idle" => todo'[s] # <<>>)
  BY <1>1, <1>6
<1>7. ASSUME NEW t \in Session, todo[t] # <<>>, Enter(t), todo' = todo, queue' = queue
      PROVE  IsQueue(queue'[s]) /\ (sendPc'[s] # "idle" => todo'[s] # <<>>)
  BY <1>1, <1>7 DEF Enter
<1>8. CASE LiveThread
  <2>1. CASE LiveSleep
    BY <2>1, <1>2, <1>3 DEF LiveSleep, media
  <2>2. CASE LiveGet
    BY <2>2, <1>2, <1>6 DEF LiveGet, AtTop, media, Session
  <2>3. CASE LiveSkip \/ LiveUnwatched
    BY <2>3, <1>2, <1>6 DEF LiveSkip, LiveUnwatched, InLoop, media, Session
  <2>4. CASE LiveHandOver
    BY <2>4, <1>2, <1>7 DEF LiveHandOver, InLoop, media, Session
  <2> QED BY <1>8, <2>1, <2>2, <2>3, <2>4 DEF LiveThread
<1>9. CASE RecThread
  <2>1. CASE RecRead
    BY <2>1, <1>2, <1>6 DEF RecRead, AtTop, media, Session
  <2>2. CASE RecHandOver
    BY <2>2, <1>2, <1>7 DEF RecHandOver, InLoop, media, Session
  <2> QED BY <1>9, <2>1, <2>2 DEF RecThread
<1>10. ASSUME NEW t \in Session, Take(t)
       PROVE  IsQueue(queue'[s]) /\ (sendPc'[s] # "idle" => todo'[s] # <<>>)
  <2>1. IsQueue(OSAL_Dequeue(queue[t]))
    BY <1>10, TakenOff DEF Take, Rings
  <2>2. queue'[s] = IF s = t THEN OSAL_Dequeue(queue[t]) ELSE queue[s]
    BY <1>1, <1>10 DEF Take
  <2> QED BY <1>1, <1>10, <2>1, <2>2 DEF Take, producers
<1>11. ASSUME NEW t \in Session, Packed(t) PROVE UNCHANGED <<sendPc, todo, queue>>
  BY <1>11 DEF Packed, producers
<1>12. ASSUME NEW c \in Caller, Callback(c) PROVE UNCHANGED <<sendPc, todo, queue>>
  BY <1>12 DEF Callback, LivePlayStopsRec, LivePlay, LiveStop, RecPlayStarts, RecPlay, RecStop,
     SetTimeStops, SetTime, producers, media
<1>13. (PushChange \/ UNCHANGED vars) => UNCHANGED <<sendPc, todo, queue>>
  BY DEF PushChange, producers, media, vars
<1> QED BY <1>2, <1>3, <1>4, <1>5, <1>8, <1>9, <1>10, <1>11, <1>12, <1>13 DEF Next, Producer, Sender

-----------------------------------------------------------------------------
(* The slots, while one session is fed at a time.                          *)

Walks == ~mixed => OneIsFed /\ \A s \in Session : SlotsInOrder(s)

(* The part of the state Walks speaks of.                                  *)
books == <<sendPc, index, queue, sending, mixed, wild>>

LEMMA OtherIsOther == \A s \in Session : Other(s) \in Session /\ Other(s) # s
                                          /\ \A t \in Session : t = s \/ t = Other(s)
  BY DEF Session, Other

(* A session that is not busy has nothing to keep in order.                *)
LEMMA QuietIsInOrder ==
    ASSUME TypeOK, NEW s \in Session, ~Busy(s)
    PROVE  queue[s].numElem = 0 /\ sending[s] = NULL /\ sendPc[s] = "idle" /\ SlotsInOrder(s)
<1>1. queue[s].numElem \in Nat
  BY DEF TypeOK, Queue
<1> QED BY <1>1 DEF Busy, SlotsInOrder

LEMMA EnterWalks ==
    ASSUME TypeOK, Rings, Walks, ~wild, NEW s \in Session, sendPc[s] = "idle", Enter(s),
           UNCHANGED <<queue, sending, wild>>
    PROVE  Walks'
<1> SUFFICES ASSUME ~mixed' PROVE OneIsFed' /\ \A t \in Session : SlotsInOrder(t)'
  BY DEF Walks
<1>1. ~Busy(Other(s)) /\ (mixed => ~Busy(s))
  BY DEF Enter
<1>2. index' = index % NB_BUFFER /\ index' \in Slot /\ index \in Nat
  BY Modulo DEF Enter, TypeOK
<1>3. sendPc' = [sendPc EXCEPT ![s] = "copy"] /\ sendPc \in [Session -> {"idle", "copy", "queue", "next"}]
  BY DEF Enter, TypeOK
<1>4. /\ queue[Other(s)].numElem = 0 /\ sending[Other(s)] = NULL /\ sendPc[Other(s)] = "idle"
      /\ Other(s) \in Session
  BY <1>1, QuietIsInOrder, OtherIsOther
<1>5. ~Busy(Other(s))'
  BY <1>1, <1>3, <1>4, OtherIsOther DEF Busy
<1>6. OneIsFed'
  <2>1. index' <= NB_BUFFER
    BY <1>2, QueueAssumption DEF Slot
  <2>2. Other(Other(s)) = s
    BY DEF Other, Session
  <2>3. \A t \in Session : (Busy(t))' => ~(Busy(Other(t)))'
    <3> SUFFICES ASSUME NEW t \in Session PROVE (Busy(t))' => ~(Busy(Other(t)))'
      OBVIOUS
    <3>1. CASE t = s
      BY <1>5, <3>1
    <3>2. CASE t = Other(s)
      BY <1>5, <3>2
    <3> QED BY <3>1, <3>2, OtherIsOther
  <2> QED BY <1>2, <2>1, <2>3 DEF OneIsFed
<1>7. SlotsInOrder(Other(s))'
  BY <1>4 DEF SlotsInOrder
<1>8. SlotsInOrder(s)'
  <2>1. CASE mixed
    <3>1. queue[s].numElem = 0 /\ sending[s] = NULL
      BY <1>1, <2>1, QuietIsInOrder
    <3> QED BY <3>1 DEF SlotsInOrder
  <2>2. CASE ~mixed
    <3>1. SlotsInOrder(s) /\ index \in 0..NB_BUFFER
      BY <1>2, <2>2 DEF Walks, OneIsFed
    <3>2. Position(s) = index /\ Position(s)' = index'
      BY <1>3 DEF Position
    <3>3. queue[s].numElem \in 0..Nodes
      BY ContentsAreSlots DEF Rings
    <3>4. \A k \in 1..(queue[s].numElem + 1) : Back(index', k) = Back(index, k)
      <4>1. \A k \in 1..NB_BUFFER : Back(index', k) = Back(index, k)
        BY <1>2, <3>1, BackFacts
      <4>2. \A k \in 1..(queue[s].numElem + 1) : k \in 1..NB_BUFFER
        BY <3>3, QueueAssumption DEF Nodes
      <4> QED BY <4>1, <4>2
    <3>5. \A i \in 1..queue[s].numElem :
              Contents(queue[s])[i] = Back(index', queue[s].numElem - i + 1)
      BY <3>1, <3>2, <3>3, <3>4 DEF SlotsInOrder
    <3>6. sending[s] # NULL => sending[s] = Back(index', queue[s].numElem + 1)
      BY <3>1, <3>2, <3>3, <3>4 DEF SlotsInOrder
    <3>7. Contents(queue[s])' = Contents(queue[s])
      BY DEF Contents, After, Nodes
    <3> QED BY <3>2, <3>5, <3>6, <3>7 DEF SlotsInOrder, Back
  <2> QED BY <2>1, <2>2
<1> QED BY <1>6, <1>7, <1>8, OtherIsOther
(* Inside cdr_rtsp_send_frame, and in the sender, the other session is     *)
(* quiet and stays so.                                                     *)
LEMMA FedAloneStep ==
    ASSUME TypeOK, OneIsFed, NEW s \in Session, Busy(s), ~wild',
           NEW pc, sendPc' = [sendPc EXCEPT ![s] = pc],
           NEW q, queue' = [queue EXCEPT ![s] = q],
           NEW b, sending' = [sending EXCEPT ![s] = b],
           index' \in 0..NB_BUFFER, pc # "idle" => index' \in Slot
    PROVE  OneIsFed' /\ SlotsInOrder(Other(s))'
<1>1. /\ ~Busy(Other(s)) /\ Other(s) \in Session /\ Other(s) # s
      /\ queue[Other(s)].numElem = 0 /\ sending[Other(s)] = NULL /\ sendPc[Other(s)] = "idle"
  BY OtherIsOther, QuietIsInOrder DEF OneIsFed
<1>2. /\ queue'[Other(s)] = queue[Other(s)] /\ sending'[Other(s)] = NULL
      /\ sendPc'[Other(s)] = "idle" /\ sendPc'[s] = pc
  BY <1>1 DEF TypeOK
<1>3. ~Busy(Other(s))' /\ SlotsInOrder(Other(s))'
  BY <1>1, <1>2 DEF Busy, SlotsInOrder
<1>4. Other(Other(s)) = s
  BY DEF Other, Session
<1>5. \A t \in Session : (Busy(t))' => ~(Busy(Other(t)))'
  <2> SUFFICES ASSUME NEW t \in Session PROVE (Busy(t))' => ~(Busy(Other(t)))'
    OBVIOUS
  <2>1. CASE t = s
    BY <1>3, <2>1
  <2>2. CASE t = Other(s)
    BY <1>3, <2>2
  <2> QED BY <2>1, <2>2, OtherIsOther
<1>6. \A t \in Session : sendPc'[t] # "idle" => index' \in Slot
  BY <1>2, OtherIsOther
<1>7. index' <= NB_BUFFER
  BY QueueAssumption
<1> QED BY <1>3, <1>5, <1>6, <1>7 DEF OneIsFed

(* A step that keeps s's queue, its sender and its position.               *)
LEMMA SameSlots ==
    ASSUME NEW s \in Session, queue'[s] = queue[s], sending'[s] = sending[s],
           Position(s)' = Position(s), SlotsInOrder(s)
    PROVE  SlotsInOrder(s)'
<1>1. Contents(queue[s])' = Contents(queue[s])
  BY DEF Contents, After, Nodes
<1> QED BY <1>1 DEF SlotsInOrder, Back

LEMMA SendWalks ==
    ASSUME TypeOK, Rings, Walks, ~wild, NEW s \in Session, SendFrame(s)
    PROVE  Walks'
<1> SUFFICES ASSUME ~mixed' PROVE OneIsFed' /\ \A t \in Session : SlotsInOrder(t)'
  BY DEF Walks
<1>1. mixed' = mixed /\ sendPc[s] # "idle" /\ Busy(s)
  BY DEF SendFrame, Copy, Enqueue, EnqueueWild, Refused, Advance, Busy
<1>2. OneIsFed /\ SlotsInOrder(s) /\ index \in Slot /\ IsQueue(queue[s])
  BY <1>1 DEF Walks, OneIsFed, Rings
<1>3. \A x \in Slot : x \in 0..NB_BUFFER /\ x + 1 \in 0..NB_BUFFER
  BY QueueAssumption DEF Slot
<1>4. /\ sendPc \in [Session -> {"idle", "copy", "queue", "next"}]
      /\ DOMAIN queue = Session /\ DOMAIN sending = Session
      /\ queue = [queue EXCEPT ![s] = queue[s]] /\ sending = [sending EXCEPT ![s] = sending[s]]
  BY DEF TypeOK
<1>5. SUFFICES OneIsFed' /\ SlotsInOrder(Other(s))' /\ SlotsInOrder(s)'
  BY OtherIsOther
<1>6. CASE Copy(s)
  <2>1. /\ sendPc' = [sendPc EXCEPT ![s] = "queue"] /\ ~wild' /\ index' = index
        /\ queue' = queue /\ sending' = sending /\ sendPc[s] = "copy"
    BY <1>2, <1>6 DEF Copy, media
  <2>2. OneIsFed' /\ SlotsInOrder(Other(s))'
    BY <1>1, <1>2, <1>3, <1>4, <2>1, FedAloneStep
  <2>3. Position(s)' = Position(s)
    BY <1>4, <2>1 DEF Position
  <2> QED BY <1>2, <2>1, <2>2, <2>3, SameSlots
<1>7. CASE EnqueueWild(s)
  BY <1>2, <1>7 DEF EnqueueWild
<1>8. CASE Refused(s)
  <2>1. /\ sendPc' = [sendPc EXCEPT ![s] = "idle"] /\ ~wild' /\ index' = index
        /\ queue' = queue /\ sending' = sending /\ sendPc[s] = "queue"
    BY <1>8 DEF Refused, media
  <2>2. OneIsFed' /\ SlotsInOrder(Other(s))'
    BY <1>1, <1>2, <1>3, <1>4, <2>1, FedAloneStep
  <2>3. Position(s)' = Position(s)
    BY <1>4, <2>1 DEF Position
  <2> QED BY <1>2, <2>1, <2>2, <2>3, SameSlots
<1>9. CASE Advance(s)
  <2>1. /\ sendPc' = [sendPc EXCEPT ![s] = "idle"] /\ ~wild' /\ index' = index + 1
        /\ queue' = queue /\ sending' = sending /\ sendPc[s] = "next"
    BY <1>9 DEF Advance, media
  <2>2. index' \in 0..NB_BUFFER
    BY <1>2, <1>3, <2>1
  <2>3. OneIsFed' /\ SlotsInOrder(Other(s))'
    BY <1>1, <1>2, <1>4, <2>1, <2>2, FedAloneStep
  <2>4. Position(s)' = Position(s)
    BY <1>4, <2>1 DEF Position
  <2> QED BY <1>2, <2>1, <2>3, <2>4, SameSlots
<1>10. CASE Enqueue(s)
  <2> DEFINE q == queue[s]
             r == OSAL_Queue(q, index)
             n == q.numElem
  <2>1. /\ sendPc' = [sendPc EXCEPT ![s] = "next"] /\ ~wild' /\ index' = index
        /\ queue' = [queue EXCEPT ![s] = r] /\ sending' = sending /\ sendPc[s] = "queue"
        /\ ~Refuses(q)
    BY <1>10 DEF Enqueue
  <2>2. OneIsFed' /\ SlotsInOrder(Other(s))'
    BY <1>1, <1>2, <1>3, <1>4, <2>1, FedAloneStep
  <2>3. /\ r.numElem = n + 1 /\ IsQueue(r) /\ Contents(r)[n + 1] = index
        /\ \A i \in 1..n : Contents(r)[i] = Contents(q)[i]
    BY <1>2, <2>1, Appended
  <2>4. n \in 0..Nodes /\ n + 1 \in 0..Nodes
    BY <1>2, <2>3, ContentsAreSlots
  <2>5. Position(s) = index /\ Position(s)' = index + 1 /\ queue'[s] = r
    BY <1>4, <2>1 DEF Position
  <2> HIDE DEF q, r
  <2>6. \A i \in 1..(n + 1) : Contents(r)[i] = Back(index + 1, r.numElem - i + 1)
    <3> SUFFICES ASSUME NEW i \in 1..(n + 1)
                 PROVE  Contents(r)[i] = Back(index + 1, r.numElem - i + 1)
      OBVIOUS
    <3>0. r.numElem - i + 1 = n + 1 - i + 1
      <4>1. r.numElem = n + 1 /\ n \in Nat
        BY <2>3, <2>4
      <4> HIDE DEF n
      <4> QED BY <4>1
    <3>1. CASE i = n + 1
      <4>1. n + 1 - i + 1 = 1
        BY <2>4, <3>1
      <4> QED BY <1>2, <2>3, <3>0, <3>1, <4>1, BackFacts
    <3>2. CASE i \in 1..n
      <4>1. Contents(r)[i] = Back(index, n - i + 1)
        BY <1>2, <2>3, <2>5, <3>2 DEF SlotsInOrder, q
      <4>2. n - i + 1 \in 1..Nodes /\ n - i + 1 + 1 = n + 1 - i + 1
        BY <2>4, <3>2, Walk
      <4>3. Back(index, n - i + 1) = Back(index + 1, n - i + 1 + 1)
        BY <1>2, <4>2, BackFacts
      <4> QED BY <3>0, <4>1, <4>2, <4>3
    <3> QED BY <2>4, <3>1, <3>2
  <2>7. sending[s] # NULL => sending[s] = Back(index + 1, r.numElem + 1)
    <3>1. n + 1 \in 1..Nodes
      BY <2>4
    <3>2. Back(index, n + 1) = Back(index + 1, n + 1 + 1)
      BY <1>2, <3>1, BackFacts
    <3> QED BY <1>2, <2>3, <2>5, <3>2 DEF SlotsInOrder, q
  <2>8. Contents(queue[s])' = Contents(r)
    BY <2>5 DEF Contents, After, Nodes
  <2> QED BY <2>1, <2>2, <2>3, <2>5, <2>6, <2>7, <2>8 DEF SlotsInOrder, Back
<1> QED BY <1>6, <1>7, <1>8, <1>9, <1>10 DEF SendFrame
LEMMA SenderWalks ==
    ASSUME TypeOK, Rings, Walks, ~wild, NEW s \in Session, Sender(s)
    PROVE  Walks'
<1> SUFFICES ASSUME ~mixed' PROVE OneIsFed' /\ SlotsInOrder(Other(s))' /\ SlotsInOrder(s)'
  BY OtherIsOther DEF Walks
<1>1. ~mixed /\ ~wild' /\ index' = index /\ sendPc' = [sendPc EXCEPT ![s] = sendPc[s]]
  BY DEF Sender, Take, Packed, producers, TypeOK
<1>2. OneIsFed /\ SlotsInOrder(s) /\ index \in 0..NB_BUFFER /\ IsQueue(queue[s])
      /\ (sendPc[s] # "idle" => index' \in Slot)
  BY <1>1, QueueAssumption DEF Walks, OneIsFed, Rings, TypeOK
<1>3. DOMAIN queue = Session /\ DOMAIN sending = Session
  BY DEF TypeOK
<1>4. Position(s)' = Position(s)
  BY <1>1 DEF Position, TypeOK
<1>5. CASE Packed(s)
  <2>1. queue' = [queue EXCEPT ![s] = queue[s]] /\ sending' = [sending EXCEPT ![s] = NULL] /\ Busy(s)
    BY <1>3, <1>5 DEF Packed, Busy, TypeOK
  <2>2. OneIsFed' /\ SlotsInOrder(Other(s))'
    BY <1>1, <1>2, <2>1, FedAloneStep
  <2>3. queue'[s] = queue[s] /\ sending'[s] = NULL
    BY <1>3, <2>1
  <2>4. Contents(queue[s])' = Contents(queue[s])
    BY <2>3 DEF Contents, After, Nodes
  <2> QED BY <1>2, <1>4, <2>2, <2>3, <2>4 DEF SlotsInOrder, Back
<1>6. CASE Take(s)
  <2> DEFINE q == queue[s]
             r == OSAL_Dequeue(q)
             n == q.numElem
  <2>1. PICK b \in {Dequeued(q), NULL} :
            /\ queue' = [queue EXCEPT ![s] = r] /\ sending' = [sending EXCEPT ![s] = b]
            /\ Dequeued(q) # NULL
    BY <1>6 DEF Take
  <2>2. /\ IsQueue(r) /\ n > 0 /\ r.numElem = n - 1 /\ Dequeued(q) = Contents(q)[1]
        /\ \A i \in 1..r.numElem : Contents(r)[i] = Contents(q)[i + 1]
    BY <1>2, <2>1, TakenOff
  <2>3. OneIsFed' /\ SlotsInOrder(Other(s))'
    <3>1. Busy(s)
      BY <2>2 DEF Busy
    <3> QED BY <1>1, <1>2, <2>1, <3>1, FedAloneStep
  <2>4. queue'[s] = r /\ sending'[s] = b
    BY <1>3, <2>1
  <2>5. n \in 0..Nodes
    BY <1>2, ContentsAreSlots
  <2>6. Contents(queue[s])' = Contents(r)
    BY <2>4 DEF Contents, After, Nodes
  <2>7. \A i \in 1..n : Contents(q)[i] = Back(Position(s), n - i + 1)
    BY <1>2 DEF SlotsInOrder
  <2> HIDE DEF q, r
  <2>8. \A i \in 1..r.numElem : Contents(r)[i] = Back(Position(s), r.numElem - i + 1)
    <3> SUFFICES ASSUME NEW i \in 1..r.numElem
                 PROVE  Contents(r)[i] = Back(Position(s), r.numElem - i + 1)
      OBVIOUS
    <3>1. i + 1 \in 1..n /\ n - (i + 1) + 1 = r.numElem - i + 1
      BY <2>2, <2>5
    <3> QED BY <2>2, <2>7, <3>1
  <2>9. b # NULL => b = Back(Position(s), r.numElem + 1)
    <3>1. 1 \in 1..n /\ n - 1 + 1 = r.numElem + 1
      BY <2>2, <2>5
    <3>2. Contents(q)[1] = Back(Position(s), r.numElem + 1)
      BY <2>7, <3>1
    <3> QED BY <2>1, <2>2, <3>2
  <2> QED BY <1>4, <2>3, <2>4, <2>6, <2>8, <2>9 DEF SlotsInOrder, Back
<1> QED BY <1>5, <1>6 DEF Sender

LEMMA WalksStep == TypeOK /\ Rings /\ Walks /\ [Next]_vars => Walks'
<1> SUFFICES ASSUME TypeOK, Rings, Walks, [Next]_vars PROVE Walks'
  OBVIOUS
<1>1. CASE UNCHANGED books
  <2>1. \A s \in Session : /\ queue'[s] = queue[s] /\ sending'[s] = sending[s]
                           /\ Position(s)' = Position(s) /\ (Busy(s))' = Busy(s)
                           /\ sendPc'[s] = sendPc[s]
    BY <1>1 DEF books, Position, Busy
  <2>2. \A s \in Session : SlotsInOrder(s) => SlotsInOrder(s)'
    BY <2>1, SameSlots
  <2>3. OneIsFed => OneIsFed'
    BY <1>1, <2>1, OtherIsOther DEF books, OneIsFed
  <2> QED BY <1>1, <2>2, <2>3 DEF books, Walks
<1>2. ~UNCHANGED vars => ~wild /\ Next
  BY DEF Next
<1>3. UNCHANGED vars => UNCHANGED books
  BY DEF vars, producers, media, books
<1>4. ASSUME NEW s \in Session, SendFrame(s), ~wild PROVE Walks'
  BY <1>4, SendWalks
<1>5. ASSUME NEW s \in Session, Sender(s), ~wild PROVE Walks'
  BY <1>5, SenderWalks
<1>6. ASSUME LiveThread, ~wild PROVE Walks'
  <2>1. CASE LiveHandOver
    BY <1>6, <2>1, EnterWalks DEF LiveHandOver, InLoop, media, Session
  <2>2. CASE LiveSleep \/ LiveGet \/ LiveSkip \/ LiveUnwatched
    BY <1>1, <2>2 DEF LiveSleep, LiveGet, LiveSkip, LiveUnwatched, media, books
  <2> QED BY <1>6, <2>1, <2>2 DEF LiveThread
<1>7. ASSUME RecThread, ~wild PROVE Walks'
  <2>1. CASE RecHandOver
    BY <1>7, <2>1, EnterWalks DEF RecHandOver, InLoop, media, Session
  <2>2. CASE RecRead
    BY <1>1, <2>2 DEF RecRead, media, books
  <2> QED BY <1>7, <2>1, <2>2 DEF RecThread
<1>8. ASSUME NEW c \in Caller, Callback(c) PROVE UNCHANGED books
  BY <1>8 DEF Callback, LivePlayStopsRec, LivePlay, LiveStop, RecPlayStarts, RecPlay, RecStop,
     SetTimeStops, SetTime, producers, media, books
<1>9. PushChange => UNCHANGED books
  BY DEF PushChange, producers, media, books
<1> QED BY <1>1, <1>2, <1>3, <1>4, <1>5, <1>6, <1>7, <1>8, <1>9 DEF Next, Producer

-----------------------------------------------------------------------------
LEMMA MediaInvParts == MediaInv <=> TypeOK /\ Rings /\ Walks
  BY DEF MediaInv, Rings, Walks

(* The sessions' bookkeeping holds whatever the producers, the senders and *)
(* the callbacks of any number of threads do in which order.               *)
THEOREM MediaInvariant == Safety => []MediaInv
<1>1. Init => MediaInv
  <2> SUFFICES ASSUME Init PROVE TypeOK /\ Rings /\ Walks
    BY MediaInvParts
  <2>1. TypeOK
    BY TypeInit
  <2>2. Rings
    BY CreateIsEmpty DEF Init, Rings
  <2>3. \A s \in Session : ~Busy(s)
    BY DEF Init, Busy, OSAL_QueueCreate
  <2>4. \A s \in Session : SlotsInOrder(s)
    BY <2>1, <2>3, QuietIsInOrder
  <2>5. OneIsFed
    BY <2>3, QueueAssumption DEF Init, OneIsFed
  <2> QED BY <2>1, <2>2, <2>4, <2>5 DEF Walks
<1>2. MediaInv /\ [Next]_vars => MediaInv'
  <2>1. MediaInv' <=> TypeOK' /\ Rings' /\ Walks'
    BY DEF MediaInv, Rings, Walks
  <2> QED BY <2>1, MediaInvParts, TypeStep, RingsStep, WalksStep
<1> QED BY <1>1, <1>2, PTL DEF Safety

(* While one session is fed at a time, no frame is copied over one that    *)
(* waits in the queue.                                                     *)
THEOREM QueuedFramesStay == Safety => []QueuedFramesIntact
<1>1. MediaInv => QueuedFramesIntact
  <2> SUFFICES ASSUME MediaInv, ~mixed, NEW s \in Session, sendPc[s] = "copy",
                      NEW i \in 1..queue[s].numElem
               PROVE  Contents(queue[s])[i] # index
    BY DEF QueuedFramesIntact
  <2>1. SlotsInOrder(s) /\ index \in Slot /\ queue[s].numElem \in 0..Nodes
    BY ContentsAreSlots DEF MediaInv, OneIsFed
  <2>2. queue[s].numElem - i + 1 \in 1..Nodes
    BY <2>1, Walk
  <2>3. Contents(queue[s])[i] = Back(index, queue[s].numElem - i + 1)
    BY <2>1 DEF SlotsInOrder, Position
  <2> QED BY <2>1, <2>2, <2>3, BackFacts
<1> QED BY <1>1, MediaInvariant, PTL

(* Nor over the frame being packed, unless the queue behind it is full.    *)
THEOREM TornOnlyWhenFull == Safety => []OverwriteOnlyWhenFull
<1>1. MediaInv => OverwriteOnlyWhenFull
  <2> SUFFICES ASSUME MediaInv, ~mixed, NEW s \in Session, sendPc[s] = "copy", sending[s] = index
               PROVE  queue[s].numElem = Nodes
    BY DEF OverwriteOnlyWhenFull
  <2>1. SlotsInOrder(s) /\ index \in Slot /\ queue[s].numElem \in 0..Nodes
    BY ContentsAreSlots DEF MediaInv, OneIsFed
  <2>2. index = Back(index, queue[s].numElem + 1)
    BY <2>1, QueueAssumption DEF SlotsInOrder, Position
  <2>3. queue[s].numElem + 1 \in 1..NB_BUFFER
    BY <2>1, QueueAssumption DEF Nodes
  <2> QED BY <2>1, <2>2, <2>3, BackFacts, QueueAssumption DEF Nodes
<1> QED BY <1>1, MediaInvariant, PTL

-----------------------------------------------------------------------------
(* The replay's units.                                                     *)

(* What rec_stream_callbak may have left of the picture it hands over.     *)
Remainders == {<<>>, <<"P">>, <<"I">>, <<"pps", "I">>, <<"sps", "pps", "I">>}

(* l is a unit that u may be queued behind.                                *)
MayFollow(u, l) ==
    /\ u = "I" => l = "pps"
    /\ u = "pps" => l = "sps"
    /\ u \in {"sps", "P"} => l \in {"I", "P"}

(* Between two pictures the queue took a whole one; within one it took the *)
(* unit before the next, or, with its call about to return, that unit.     *)
UnitsInOrder ==
    /\ todo["rec"] \in Remainders
    /\ todo["rec"] = <<>> => last \in {"I", "P"}
    /\ todo["rec"] # <<>> =>
         IF sendPc["rec"] = "next" THEN last = Head(todo["rec"]) ELSE MayFollow(Head(todo["rec"]), last)

(* The replay's part of the state.                                         *)
replay == <<todo["rec"], sendPc["rec"], last>>

(* A remainder loses its first unit to a shorter one, which that unit may  *)
(* stand before.                                                           *)
LEMMA RemainderLoses ==
    ASSUME NEW u \in Remainders, u # <<>>
    PROVE  /\ Tail(u) \in Remainders
           /\ Tail(u) = <<>> => Head(u) \in {"I", "P"}
           /\ Tail(u) # <<>> => MayFollow(Head(Tail(u)), Head(u))
<1>1. CASE u = <<"P">> \/ u = <<"I">>
  <2>1. \A e : Tail(<<e>>) = <<>> /\ Head(<<e>>) = e
    OBVIOUS
  <2>2. Tail(u) = <<>> /\ Head(u) \in {"I", "P"}
    BY <1>1, <2>1
  <2> QED BY <2>2 DEF Remainders
<1>2. CASE u = <<"pps", "I">>
  <2>1. Tail(u) = <<"I">> /\ Head(u) = "pps" /\ Head(Tail(u)) = "I"
    BY <1>2
  <2> QED BY <2>1 DEF Remainders, MayFollow
<1>3. CASE u = <<"sps", "pps", "I">>
  <2>1. Tail(u) = <<"pps", "I">> /\ Head(u) = "sps" /\ Head(Tail(u)) = "pps"
    BY <1>3
  <2> QED BY <2>1 DEF Remainders, MayFollow
<1> QED BY <1>1, <1>2, <1>3 DEF Remainders

(* A picture begins behind the end of another one.                         *)
LEMMA PictureBegins ==
    ASSUME NEW k \in {"I", "P"}, NEW l \in {"I", "P"}
    PROVE  Picture(k) \in Remainders /\ Picture(k) # <<>> /\ MayFollow(Head(Picture(k)), l)
<1>1. CASE k = "I"
  <2>1. Picture(k) = <<"sps", "pps", "I">> /\ Head(Picture(k)) = "sps"
    BY <1>1 DEF Picture
  <2> QED BY <2>1 DEF Remainders, MayFollow
<1>2. CASE k = "P"
  <2>1. Picture(k) = <<"P">> /\ Head(Picture(k)) = "P"
    BY <1>2 DEF Picture
  <2> QED BY <2>1 DEF Remainders, MayFollow
<1> QED BY <1>1, <1>2

(* What a step does to the replay's part: nothing, or one of five things.  *)
ReadsPicture == /\ todo["rec"] = <<>> /\ last' = last /\ sendPc'["rec"] = sendPc["rec"]
                /\ \E k \in {"I", "P"} : todo'["rec"] = Picture(k)
ChangesPlace == /\ todo'["rec"] = todo["rec"] /\ last' = last
                /\ sendPc["rec"] # "next" /\ sendPc'["rec"] # "next"
QueuesUnit == /\ todo'["rec"] = todo["rec"] /\ last' = Head(todo["rec"])
              /\ sendPc["rec"] = "queue" /\ sendPc'["rec"] = "next"
LosesUnit == /\ sendPc["rec"] = "next" /\ sendPc'["rec"] = "idle"
             /\ todo'["rec"] = Tail(todo["rec"]) /\ last' = last

LEMMA ReplaySteps ==
    TypeOK /\ Next => UNCHANGED replay \/ ReadsPicture \/ ChangesPlace \/ QueuesUnit \/ LosesUnit
<1> SUFFICES ASSUME TypeOK, Next
             PROVE  UNCHANGED replay \/ ReadsPicture \/ ChangesPlace \/ QueuesUnit \/ LosesUnit
  OBVIOUS
<1> USE DEF TypeOK, Session, replay
<1>1. ASSUME SendFrame("rec") PROVE ChangesPlace \/ QueuesUnit \/ LosesUnit \/ UNCHANGED replay
  <2>1. CASE Copy("rec") \/ Refused("rec") \/ EnqueueWild("rec")
    BY <2>1 DEF Copy, Refused, EnqueueWild, ChangesPlace, media
  <2>2. CASE Enqueue("rec")
    BY <2>2 DEF Enqueue, QueuesUnit
  <2>3. CASE Advance("rec")
    BY <2>3 DEF Advance, LosesUnit, media
  <2> QED BY <1>1, <2>1, <2>2, <2>3 DEF SendFrame
<1>2. ASSUME SendFrame("live") PROVE UNCHANGED replay
  BY <1>2 DEF SendFrame, Copy, Enqueue, EnqueueWild, Refused, Advance, media
<1>3. ASSUME LiveThread PROVE UNCHANGED replay
  BY <1>3 DEF LiveThread, LiveSleep, LiveGet, LiveSkip, LiveUnwatched, LiveHandOver, Enter, media
<1>4. ASSUME RecThread PROVE ReadsPicture \/ ChangesPlace
  <2>1. CASE RecRead
    BY <2>1 DEF RecRead, AtTop, ReadsPicture, media
  <2>2. CASE RecHandOver
    BY <2>2 DEF RecHandOver, InLoop, Enter, ChangesPlace, media
  <2> QED BY <1>4, <2>1, <2>2 DEF RecThread
<1>5. ASSUME NEW s \in Session, Sender(s) PROVE UNCHANGED replay
  BY <1>5 DEF Sender, Take, Packed, producers
<1>6. ASSUME NEW c \in Caller, Callback(c) PROVE UNCHANGED replay
  BY <1>6 DEF Callback, LivePlayStopsRec, LivePlay, LiveStop, RecPlayStarts, RecPlay, RecStop,
     SetTimeStops, SetTime, producers, media
<1>7. ASSUME PushChange PROVE UNCHANGED replay
  BY <1>7 DEF PushChange, producers, media
<1> QED BY <1>1, <1>2, <1>3, <1>4, <1>5, <1>6, <1>7 DEF Next, Producer

LEMMA UnitsStep == MediaInv /\ UnitsInOrder /\ [Next]_vars => UnitsInOrder'
<1> SUFFICES ASSUME MediaInv, UnitsInOrder, [Next]_vars PROVE UnitsInOrder'
  OBVIOUS
<1>1. CASE UNCHANGED replay
  BY <1>1 DEF replay, UnitsInOrder
<1>2. CASE ReadsPicture
  <2>1. sendPc["rec"] # "next"
    BY <1>2 DEF ReadsPicture, MediaInv, Session
  <2> QED BY <1>2, <2>1, PictureBegins DEF ReadsPicture, UnitsInOrder
<1>3. CASE ChangesPlace
  BY <1>3 DEF ChangesPlace, UnitsInOrder
<1>4. CASE QueuesUnit
  <2>1. todo["rec"] # <<>>
    BY <1>4 DEF QueuesUnit, MediaInv, Session
  <2> QED BY <1>4, <2>1 DEF QueuesUnit, UnitsInOrder
<1>5. CASE LosesUnit
  <2>1. todo["rec"] # <<>>
    BY <1>5 DEF LosesUnit, MediaInv, Session
  <2> QED BY <1>5, <2>1, RemainderLoses DEF LosesUnit, UnitsInOrder
<1>6. CASE UNCHANGED vars
  BY <1>1, <1>6 DEF vars, producers, media, replay
<1> QED BY <1>1, <1>2, <1>3, <1>4, <1>5, <1>6, ReplaySteps DEF MediaInv

(* The replay's units reach its queue in the order of their pictures,      *)
(* whatever was refused how often, so that a key frame stands right behind *)
(* its parameter sets: mixed or not, for the buffer's contents are not     *)
(* spoken of.                                                              *)
THEOREM KeyFramesStayDecodable == Safety => KeyFrameHasParameters
<1>1. Init => UnitsInOrder
  BY DEF Init, UnitsInOrder, Remainders, Session
<1>2. MediaInv /\ UnitsInOrder /\ [Next]_vars =>
        [last' # last => /\ last' = "I" => last = "pps"
                         /\ last' = "pps" => last = "sps"
                         /\ last' = "P" => last # "sps" /\ last # "pps"]_vars
  <2> SUFFICES ASSUME MediaInv, UnitsInOrder, Next, last' # last
               PROVE  /\ last' = "I" => last = "pps"
                      /\ last' = "pps" => last = "sps"
                      /\ last' = "P" => last # "sps" /\ last # "pps"
    BY DEF vars, media
  <2>1. QueuesUnit
    BY ReplaySteps DEF MediaInv, replay, ReadsPicture, ChangesPlace, LosesUnit
  <2>2. todo["rec"] # <<>>
    BY <2>1 DEF QueuesUnit, MediaInv, Session
  <2>3. MayFollow(last', last)
    BY <2>1, <2>2 DEF QueuesUnit, UnitsInOrder
  <2> QED BY <2>3 DEF MayFollow
<1> QED BY <1>1, <1>2, MediaInvariant, UnitsStep, PTL DEF Safety, KeyFrameHasParameters
-----------------------------------------------------------------------------
(* The sessions' queues as BoundedFifo has it.                             *)

(* What a step of the whole server may do to one session's queue: nothing, *)
(* append the buffer the index names, if there is room, or give its oldest *)
(* pointer to the sender, which drops it or packs it.                      *)
FifoStep(s) ==
    LET c == Contents(queue[s])
    IN \/ Contents(queue'[s]) = c
       \/ Len(c) < Nodes /\ Contents(queue'[s]) = Append(c, index)
       \/ c # <<>> /\ Contents(queue'[s]) = Tail(c) /\ sending'[s] \in {Head(c), NULL}

LEMMA ContentsLength ==
    ASSUME NEW q, IsQueue(q)
    PROVE  Len(Contents(q)) = q.numElem /\ q.numElem \in Nat /\ (q.numElem > 0 => Contents(q) # <<>>)
<1>1. q.numElem \in Nat
  BY DEF IsQueue, Queue
<1>2. Len(Contents(q)) = q.numElem
  BY <1>1 DEF Contents
<1> QED BY <1>1, <1>2

LEMMA QueueStep ==
    ASSUME MediaInv, [Next]_vars, NEW s \in Session
    PROVE  FifoStep(s)
<1>queue. queue \in [Session -> Queue] /\ sending \in [Session -> Slot \cup {NULL}]
          /\ \A t \in Session : IsQueue(queue[t])
  BY DEF MediaInv, TypeOK
<1>1. CASE queue' = queue
  BY <1>1 DEF FifoStep
<1>2. ASSUME NEW t \in Session, Enqueue(t)
      PROVE  FifoStep(s)
  <2>1. queue' = [queue EXCEPT ![t] = OSAL_Queue(@, index)] /\ index \in Slot /\ ~Refuses(queue[t])
    BY <1>2 DEF Enqueue
  <2>2. CASE s # t
    <3>1. queue'[s] = queue[s]
      BY <1>queue, <2>1, <2>2
    <3> QED BY <3>1 DEF FifoStep
  <2>3. CASE s = t
    <3>1. queue'[s] = OSAL_Queue(queue[s], index)
      BY <1>queue, <2>1, <2>3
    <3>2. Contents(queue'[s]) = Append(Contents(queue[s]), index)
      BY <1>queue, <2>1, <2>3, <3>1, QueueAppends
    <3>3. queue[s].numElem # Nodes /\ queue[s].numElem <= Nodes
      BY <1>queue, <2>1, <2>3, RefusesWhenFull DEF IsQueue
    <3>4. Len(Contents(queue[s])) < Nodes
      BY <1>queue, <3>3, ContentsLength, Walk
    <3> QED BY <3>2, <3>4 DEF FifoStep
  <2> QED BY <2>2, <2>3
<1>3. ASSUME NEW t \in Session, Take(t)
      PROVE  FifoStep(s)
  <2>1. queue' = [queue EXCEPT ![t] = OSAL_Dequeue(@)] /\ Dequeued(queue[t]) # NULL
        /\ sending' \in {[sending EXCEPT ![t] = b] : b \in {Dequeued(queue[t]), NULL}}
    BY <1>3 DEF Take
  <2>2. CASE s # t
    <3>1. queue'[s] = queue[s]
      BY <1>queue, <2>1, <2>2
    <3> QED BY <3>1 DEF FifoStep
  <2>3. CASE s = t
    <3>1. queue'[s] = OSAL_Dequeue(queue[s]) /\ sending'[s] \in {Dequeued(queue[s]), NULL}
      BY <1>queue, <2>1, <2>3
    <3>2. queue[s].numElem > 0
      BY <1>queue, <2>1, <2>3, RefusesWhenFull, ContentsLength DEF Dequeued, FindsNothing
    <3>3. Contents(queue[s]) # <<>> /\ Dequeued(queue[s]) = Head(Contents(queue[s]))
          /\ Contents(queue'[s]) = Tail(Contents(queue[s]))
      BY <1>queue, <3>1, <3>2, DequeueTakesHead, ContentsLength
    <3> QED BY <3>1, <3>3 DEF FifoStep
  <2> QED BY <2>2, <2>3
<1>4. queue' = queue \/ \E t \in Session : Enqueue(t) \/ Take(t)
  <2>1. ASSUME NEW t \in Session, SendFrame(t), ~Enqueue(t)
        PROVE  queue' = queue
    BY <2>1 DEF SendFrame, Copy, EnqueueWild, Refused, Advance, media
  <2>2. ASSUME NEW t \in Session, Sender(t), ~Take(t)
        PROVE  queue' = queue
    BY <2>2 DEF Sender, Packed
  <2>3. ASSUME NEW c \in Caller, Callback(c)
        PROVE  queue' = queue
    BY <2>3 DEF Callback, LivePlayStopsRec, LivePlay, LiveStop, RecPlayStarts, RecPlay, RecStop,
                SetTimeStops, SetTime, producers, media
  <2>4. ASSUME LiveThread \/ RecThread
        PROVE  queue' = queue
    BY <2>4 DEF LiveThread, LiveSleep, LiveGet, LiveSkip, LiveUnwatched, LiveHandOver,
                RecThread, RecRead, RecHandOver, media
  <2>5. PushChange \/ UNCHANGED vars => queue' = queue
    BY DEF PushChange, vars, media
  <2> QED BY <2>1, <2>2, <2>3, <2>4, <2>5 DEF Next, Producer
<1> QED BY <1>1, <1>2, <1>3, <1>4

(* OSAL_Queue, OSAL_Dequeue: each session's queue is a FIFO queue of       *)
(* NB_BUFFER - 1 pointers at every step of the server, whoever moves and   *)
(* however often the producers' sections overlap.                          *)
THEOREM SessionsAreFifo == Safety => [][\A s \in Session : FifoStep(s)]_vars
<1>1. MediaInv /\ [Next]_vars => [\A s \in Session : FifoStep(s)]_vars
  BY QueueStep
<1> QED BY <1>1, MediaInvariant, PTL DEF Safety
=============================================================================
