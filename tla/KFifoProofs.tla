---------------------------- MODULE KFifoProofs ----------------------------
(***************************************************************************)
(* Theorems about KFifo for every ring size, counter width and element     *)
(* set: the arithmetic of the free-running counters, the invariant of the  *)
(* two threads, and the refinement of the bounded queue.                   *)
(***************************************************************************)
EXTENDS KFifo, TLAPS

-----------------------------------------------------------------------------
(* Remainders.                                                             *)

(* A quotient and a remainder in range determine the remainder.            *)
LEMMA ModUnique ==
    ASSUME NEW n \in Nat \ {0}, NEW k \in Int, NEW r \in 0..(n - 1)
    PROVE  (k * n + r) % n = r
<1> DEFINE a == k * n + r
<1>1. a \in Int
  OBVIOUS
<1>2. a = n * (a \div n) + (a % n) /\ (a % n) \in 0..(n - 1) /\ (a \div n) \in Int
  BY <1>1, Z3
<1> DEFINE d == (a \div n) - k
<1>3. n * d = r - (a % n)
  BY <1>2, Z3
<1>4. d = 0
  <2>1. CASE d > 0
    <3>1. n * d >= n
      BY <1>2, <2>1, Z3
    <3> QED BY <1>2, <1>3, <3>1, Z3
  <2>2. CASE d < 0
    <3>1. n * d <= -n
      BY <1>2, <2>2, Z3
    <3> QED BY <1>2, <1>3, <3>1, Z3
  <2> QED BY <1>2, <2>1, <2>2, Z3
<1> QED BY <1>2, <1>3, <1>4, Z3

(* Two integers less than n apart that leave the same remainder are equal. *)
LEMMA ModDistinct ==
    ASSUME NEW n \in Nat \ {0}, NEW a \in Int, NEW b \in Int,
           a < b, b < a + n
    PROVE  a % n # b % n
<1>1. SUFFICES ASSUME a % n = b % n PROVE FALSE
  OBVIOUS
<1>2. a = n * (a \div n) + (a % n) /\ b = n * (b \div n) + (b % n)
      /\ (a \div n) \in Int /\ (b \div n) \in Int
  BY Z3
<1> DEFINE d == (b \div n) - (a \div n)
<1>3. n * d = b - a /\ d \in Int
  BY <1>1, <1>2, Z3
<1>4. CASE d > 0
  <2>1. n * d >= n
    BY <1>3, <1>4, Z3
  <2> QED BY <1>3, <2>1, Z3
<1>5. CASE d <= 0
  <2>1. n * d <= 0
    BY <1>3, <1>5, Z3
  <2> QED BY <1>3, <2>1, Z3
<1> QED BY <1>3, <1>4, <1>5, Z3

(* Adding a multiple of the ring's size to a counter leaves its slot.      *)
LEMMA ModShift ==
    ASSUME NEW n \in Nat \ {0}, NEW a \in Int, NEW k \in Int
    PROVE  (a + k * n) % n = a % n
<1>1. a = n * (a \div n) + (a % n) /\ (a % n) \in 0..(n - 1) /\ (a \div n) \in Int
  BY Z3
<1> DEFINE m == (a \div n) + k
           r == a % n
<1>2. a + k * n = m * n + r
  BY <1>1, Z3
<1>3. (m * n + r) % n = r
  <2> HIDE DEF m, r
  <2>1. m \in Int /\ r \in 0..(n - 1)
    BY <1>1 DEF m, r
  <2> QED BY <2>1, ModUnique
<1> QED BY <1>2, <1>3

-----------------------------------------------------------------------------
(* The counters of the ring.                                               *)

(* The ring's size divides the counters' range, so it is not below 1.      *)
LEMMA RingSize ==
    /\ QUEUE_SIZE \in Nat \ {0}
    /\ WORD \in Nat \ {0}
    /\ WORD >= 2 * QUEUE_SIZE
    /\ \E k \in Nat : WORD = k * QUEUE_SIZE
<1>1. PICK k \in 2..WORD : WORD = k * QUEUE_SIZE
  BY RingAssumption
<1>2. QUEUE_SIZE \in Nat \ {0} /\ WORD \in Nat
  BY RingAssumption
<1>3. WORD >= 2 * QUEUE_SIZE
  BY <1>1, <1>2, Z3
<1> QED BY <1>1, <1>2, <1>3

(* The unsigned difference and increment, without the modulus.             *)
LEMMA CounterDifference ==
    ASSUME NEW a \in 0..(WORD - 1), NEW b \in 0..(WORD - 1)
    PROVE  (a - b) % WORD = IF a >= b THEN a - b ELSE a - b + WORD
<1>1. CASE a >= b
  <2>1. a - b \in 0..(WORD - 1)
    BY <1>1, RingSize
  <2>2. (0 * WORD + (a - b)) % WORD = a - b
    BY <2>1, RingSize, ModUnique
  <2> QED BY <1>1, <2>1, <2>2, RingSize
<1>2. CASE a < b
  <2>1. a - b + WORD \in 0..(WORD - 1)
    BY <1>2, RingSize
  <2>2. ((-1) * WORD + (a - b + WORD)) % WORD = a - b + WORD
    BY <2>1, RingSize, ModUnique
  <2>3. (-1) * WORD + (a - b + WORD) = a - b
    BY RingSize
  <2> QED BY <1>2, <2>2, <2>3
<1> QED BY <1>1, <1>2, RingSize

(* The unsigned increment, without the modulus.                            *)
LEMMA CounterSucc ==
    ASSUME NEW a \in 0..(WORD - 1)
    PROVE  Succ(a) = IF a = WORD - 1 THEN 0 ELSE a + 1
<1>1. CASE a = WORD - 1
  <2>1. (1 * WORD + 0) % WORD = 0
    BY RingSize, ModUnique
  <2>2. a + 1 = 1 * WORD + 0
    BY <1>1, RingSize
  <2> QED BY <1>1, <2>1, <2>2 DEF Succ
<1>2. CASE a # WORD - 1
  <2>1. a + 1 \in 0..(WORD - 1)
    BY <1>2, RingSize
  <2>2. (0 * WORD + (a + 1)) % WORD = a + 1
    BY <2>1, RingSize, ModUnique
  <2> QED BY <1>2, <2>1, <2>2, RingSize DEF Succ
<1> QED BY <1>1, <1>2

(* The counters' wrap-around does not move a slot.                         *)
LEMMA SlotWrap ==
    ASSUME NEW a \in Int
    PROVE  Slot(a + WORD) = Slot(a) /\ Slot(a - WORD) = Slot(a) /\ Slot(a) \in Slots
<1>1. PICK k \in Nat : WORD = k * QUEUE_SIZE
  BY RingSize
<1>2. Slot(a + WORD) = Slot(a)
  <2>1. a + WORD = a + k * QUEUE_SIZE
    BY <1>1
  <2>2. (a + k * QUEUE_SIZE) % QUEUE_SIZE = a % QUEUE_SIZE
    <3>1. k \in Int
      OBVIOUS
    <3> QED BY <3>1, RingSize, ModShift
  <2> QED BY <2>1, <2>2 DEF Slot
<1>3. Slot(a - WORD) = Slot(a)
  <2>1. a - WORD = a + (-k) * QUEUE_SIZE
    BY <1>1, RingSize, Z3
  <2>2. (a + (-k) * QUEUE_SIZE) % QUEUE_SIZE = a % QUEUE_SIZE
    <3>1. -k \in Int
      OBVIOUS
    <3> QED BY <3>1, RingSize, ModShift
  <2> QED BY <2>1, <2>2 DEF Slot
<1>4. Slot(a) \in Slots
  BY RingSize, Z3 DEF Slot, Slots
<1> QED BY <1>2, <1>3, <1>4

(* Count, Full and Empty in terms of an exact number of elements.          *)
LEMMA CountFacts ==
    ASSUME TypeOK
    PROVE  /\ Count \in 0..(WORD - 1)
           /\ Count = IF in >= out THEN in - out ELSE in - out + WORD
           /\ Slot(in) = Slot(out + Count)
           /\ Empty <=> Count = 0
           /\ Count <= QUEUE_SIZE => (Full <=> Count = QUEUE_SIZE)
<1>1. in \in 0..(WORD - 1) /\ out \in 0..(WORD - 1)
  BY DEF TypeOK
<1>2. Count = IF in >= out THEN in - out ELSE in - out + WORD
  BY <1>1, CounterDifference DEF Count
<1>3. Count \in 0..(WORD - 1)
  BY <1>1, <1>2, RingSize
<1>4. Slot(in) = Slot(out + Count)
  <2>1. CASE in >= out
    BY <1>1, <1>2, <2>1
  <2>2. CASE in < out
    <3>1. out + Count = in + WORD
      BY <1>1, <1>2, <2>2, RingSize
    <3> QED BY <1>1, <3>1, SlotWrap
  <2> QED BY <1>1, <2>1, <2>2
<1>5. Empty <=> Count = 0
  BY DEF Empty, Count
<1>6. ASSUME Count <= QUEUE_SIZE PROVE Full <=> Count = QUEUE_SIZE
  <2> DEFINE free == QUEUE_SIZE - Count
  <2>1. free \in 0..(WORD - 1)
    BY <1>3, <1>6, RingSize
  <2>2. (QUEUE_SIZE - in + out) % WORD = free
    <3>1. CASE in >= out
      <4>1. QUEUE_SIZE - in + out = 0 * WORD + free
        BY <1>1, <1>2, <3>1, RingSize
      <4> QED BY <2>1, <4>1, RingSize, ModUnique
    <3>2. CASE in < out
      <4>1. QUEUE_SIZE - in + out = 1 * WORD + free
        BY <1>1, <1>2, <3>2, RingSize
      <4> QED BY <2>1, <4>1, RingSize, ModUnique
    <3> QED BY <1>1, <3>1, <3>2
  <2> QED BY <1>3, <2>2, RingSize DEF Full
<1> QED BY <1>2, <1>3, <1>4, <1>5, <1>6

(* The slots of the queued elements, and the next one to be filled, are    *)
(* all different as long as the ring is not full.                          *)
LEMMA FreeSlot ==
    ASSUME TypeOK, Count < QUEUE_SIZE
    PROVE  \A i \in 1..Count : Slot(out + i - 1) # Slot(in)
<1> SUFFICES ASSUME NEW i \in 1..Count PROVE Slot(out + i - 1) # Slot(in)
  OBVIOUS
<1>1. Count \in 0..(WORD - 1) /\ Slot(in) = Slot(out + Count)
  BY CountFacts
<1>2. out \in Int
  BY DEF TypeOK
<1> DEFINE a == out + i - 1
           b == out + Count
<1>3. a \in Int /\ b \in Int /\ a < b /\ b < a + QUEUE_SIZE
  BY <1>1, <1>2, RingSize
<1>4. a % QUEUE_SIZE # b % QUEUE_SIZE
  BY <1>3, RingSize, ModDistinct
<1> QED BY <1>1, <1>4 DEF Slot

-----------------------------------------------------------------------------
(* The invariant of the two threads.                                       *)

(* An empty ring satisfies the invariant.                                  *)
LEMMA RingInvInit == Init => RingInv
<1> SUFFICES ASSUME Init PROVE RingInv
  OBVIOUS
<1>1. TypeOK
  BY RingSize DEF Init, TypeOK
<1>2. Count = 0
  BY <1>1, CountFacts, RingSize DEF Init, TypeOK
<1> QED BY <1>1, <1>2, RingSize DEF Init, RingInv

(* What publishing an element does to the exact number of elements.        *)
LEMMA PublishCounts ==
    ASSUME RingInv, PutPublish
    PROVE  TypeOK' /\ Count' = Count + 1 /\ Slot(in) = Slot(out + Count)
<1>1. TypeOK /\ Count < QUEUE_SIZE /\ Count \in 0..(WORD - 1)
  BY CountFacts DEF RingInv, PutPublish
<1>2. in' = IF in = WORD - 1 THEN 0 ELSE in + 1
  BY <1>1, CounterSucc DEF PutPublish, TypeOK
<1>3. TypeOK'
  BY <1>1, <1>2, RingSize DEF TypeOK, PutPublish, consumer
<1>4. Count = IF in >= out THEN in - out ELSE in - out + WORD
  BY <1>1, CountFacts
<1>5. Count' = IF in' >= out THEN in' - out ELSE in' - out + WORD
  BY <1>3, CounterDifference DEF Count, TypeOK, PutPublish
<1>6. Count' = Count + 1
  BY <1>1, <1>2, <1>4, <1>5, RingSize DEF TypeOK
<1> QED BY <1>1, <1>3, <1>6, CountFacts

(* What releasing a slot does to it: the elements move up by one place.    *)
LEMMA ReleaseCounts ==
    ASSUME RingInv, GetRelease
    PROVE  /\ TypeOK' /\ Count' = Count - 1
           /\ \A i \in Int : Slot(out' + i - 1) = Slot(out + i)
<1>1. TypeOK /\ Count > 0 /\ Count \in 0..(WORD - 1)
  BY CountFacts DEF RingInv, GetRelease
<1>2. out' = IF out = WORD - 1 THEN 0 ELSE out + 1
  BY <1>1, CounterSucc DEF GetRelease, TypeOK
<1>3. TypeOK'
  BY <1>1, <1>2, RingSize DEF TypeOK, GetRelease, producer
<1>4. Count = IF in >= out THEN in - out ELSE in - out + WORD
  BY <1>1, CountFacts
<1>5. Count' = IF in >= out' THEN in - out' ELSE in - out' + WORD
  BY <1>3, CounterDifference DEF Count, TypeOK, GetRelease
<1>6. Count' = Count - 1
  BY <1>1, <1>2, <1>4, <1>5, RingSize DEF TypeOK
<1>7. ASSUME NEW i \in Int PROVE Slot(out' + i - 1) = Slot(out + i)
  <2>1. CASE out = WORD - 1
    <3>1. out + i = (out' + i - 1) + WORD
      BY <1>1, <1>2, <2>1, RingSize DEF TypeOK
    <3> DEFINE a == out' + i - 1
    <3>2. a \in Int
      BY <1>3 DEF TypeOK
    <3>3. Slot(a + WORD) = Slot(a)
      BY <3>2, SlotWrap
    <3> QED BY <3>1, <3>3
  <2>2. CASE out # WORD - 1
    <3>1. out' + i - 1 = out + i
      BY <1>1, <1>2, <2>2 DEF TypeOK
    <3> QED BY <3>1
  <2> QED BY <2>1, <2>2
<1> QED BY <1>3, <1>6, <1>7

(* Every step of the two threads keeps the invariant.                      *)
LEMMA RingInvStep == RingInv /\ [Next]_vars => RingInv'
<1> SUFFICES ASSUME RingInv, [Next]_vars PROVE RingInv'
  OBVIOUS
<1>0. TypeOK /\ Count \in 0..(WORD - 1) /\ Slot(in) = Slot(out + Count)
      /\ (Empty <=> Count = 0) /\ (Full <=> Count = QUEUE_SIZE)
      /\ out \in Int /\ in \in Int
  BY CountFacts DEF RingInv, TypeOK
<1> USE DEF ring, producer, consumer
<1>1. CASE PutRefused
  BY <1>1 DEF PutRefused, RingInv, TypeOK, Count
<1>2. ASSUME NEW e \in Elem, PutEnter(e) PROVE RingInv'
  <2>1. Count < QUEUE_SIZE
    BY <1>0, <1>2, RingSize DEF PutEnter, RingInv
  <2> QED BY <1>2, <2>1 DEF PutEnter, RingInv, TypeOK, Count
<1>3. CASE PutStore
  <2>1. Count < QUEUE_SIZE /\ putElem \in Elem
    BY <1>3 DEF PutStore, RingInv
  <2>2. Slot(in) \in Slots /\ data \in [Slots -> Elem \cup {NoElem}]
    BY <1>0, SlotWrap DEF TypeOK
  <2>3. \A i \in 1..Count : data'[Slot(out + i - 1)] = data[Slot(out + i - 1)]
    <3> SUFFICES ASSUME NEW i \in 1..Count
                 PROVE  data'[Slot(out + i - 1)] = data[Slot(out + i - 1)]
      OBVIOUS
    <3>1. Slot(out + i - 1) # Slot(in)
      BY <1>0, <2>1, FreeSlot
    <3>2. Slot(out + i - 1) \in Slots
      <4>1. out + i - 1 \in Int
        BY <1>0
      <4> QED BY <4>1, SlotWrap
    <3> QED BY <1>3, <2>2, <3>1, <3>2 DEF PutStore
  <2>4. Count' = Count /\ in' = in /\ out' = out
    BY <1>3 DEF PutStore, Count
  <2>5. TypeOK'
    BY <1>0, <1>3, <2>1, <2>2 DEF PutStore, TypeOK
  <2>6. data'[Slot(in)] = putElem
    BY <1>3, <2>2 DEF PutStore
  <2>7. Count > 0 => Slot(out + 1 - 1) = Slot(out) /\ 1 \in 1..Count
    BY <1>0
  <2>8. getPc = "release" => data'[Slot(out)] = data[Slot(out)]
    BY <2>3, <2>7 DEF RingInv
  <2>9. \A i \in 1..Count : data'[Slot(out + i - 1)] \in Elem
    BY <2>3 DEF RingInv
  <2>10. /\ putPc' = "publish" /\ putElem' = putElem
         /\ getPc' = getPc /\ getElem' = getElem
    BY <1>3 DEF PutStore
  <2> QED BY <2>1, <2>4, <2>5, <2>6, <2>8, <2>9, <2>10 DEF RingInv, Slot
<1>4. CASE PutPublish
  <2>1. TypeOK' /\ Count' = Count + 1 /\ Slot(in) = Slot(out + Count)
    BY <1>4, PublishCounts
  <2>2. Count < QUEUE_SIZE /\ data[Slot(in)] \in Elem
    BY <1>4 DEF PutPublish, RingInv
  <2>3. data' = data /\ out' = out /\ putPc' = "idle" /\ getPc' = getPc /\ getElem' = getElem
    BY <1>4 DEF PutPublish
  <2>4. \A i \in 1..(Count + 1) : data[Slot(out + i - 1)] \in Elem
    <3> SUFFICES ASSUME NEW i \in 1..(Count + 1) PROVE data[Slot(out + i - 1)] \in Elem
      OBVIOUS
    <3>1. CASE i = Count + 1
      <4>1. out + i - 1 = out + Count
        BY <1>0, <3>1
      <4> QED BY <2>1, <2>2, <4>1
    <3>2. CASE i # Count + 1
      BY <1>0, <3>2 DEF RingInv
    <3> QED BY <3>1, <3>2
  <2>5. Count' <= QUEUE_SIZE
    BY <1>0, <2>1, <2>2, RingSize
  <2>6. getPc' # "idle" => Count' > 0
    BY <1>0, <2>1, <2>3 DEF RingInv
  <2>7. getPc' = "release" => getElem' = data'[Slot(out')]
    BY <2>3 DEF RingInv
  <2> QED BY <2>1, <2>3, <2>4, <2>5, <2>6, <2>7 DEF RingInv, Slot
<1>5. CASE GetNothing
  BY <1>5 DEF GetNothing, RingInv, TypeOK, Count
<1>6. CASE GetEnter
  <2>1. Count > 0
    BY <1>0, <1>6 DEF GetEnter
  <2> QED BY <1>6, <2>1 DEF GetEnter, RingInv, TypeOK, Count
<1>7. CASE GetLoad
  <2>1. data[Slot(out)] \in Elem \cup {NoElem}
    BY <1>0, SlotWrap DEF TypeOK
  <2> QED BY <1>7, <2>1 DEF GetLoad, RingInv, TypeOK, Count, Slot
<1>8. CASE GetRelease
  <2>1. TypeOK' /\ Count' = Count - 1 /\ \A i \in Int : Slot(out' + i - 1) = Slot(out + i)
    BY <1>8, ReleaseCounts
  <2>2. data' = data /\ in' = in /\ putPc' = putPc /\ putElem' = putElem /\ getPc' = "idle"
    BY <1>8 DEF GetRelease
  <2>3. \A i \in 1..(Count - 1) : data[Slot(out' + i - 1)] \in Elem
    <3> SUFFICES ASSUME NEW i \in 1..(Count - 1) PROVE data[Slot(out' + i - 1)] \in Elem
      OBVIOUS
    <3>1. i + 1 \in 1..Count /\ out + (i + 1) - 1 = out + i
      BY <1>0
    <3>2. data[Slot(out + i)] \in Elem
      BY <3>1 DEF RingInv
    <3> QED BY <2>1, <3>2
  <2>4. Count' <= QUEUE_SIZE /\ (putPc' # "idle" => Count' < QUEUE_SIZE /\ putElem' \in Elem)
    BY <1>0, <2>1, <2>2, RingSize DEF RingInv
  <2>5. putPc' = "publish" => data'[Slot(in')] = putElem'
    BY <2>2 DEF RingInv
  <2> QED BY <2>1, <2>2, <2>3, <2>4, <2>5 DEF RingInv, Slot
<1>9. CASE UNCHANGED vars
  BY <1>9 DEF vars, RingInv, TypeOK, Count
<1> QED BY <1>1, <1>2, <1>3, <1>4, <1>5, <1>6, <1>7, <1>8, <1>9 DEF Next, Producer, Consumer

(* The counters never run more than the ring's size apart and every queued *)
(* slot holds an element, whatever the two threads' interleaving.          *)
THEOREM RingInvariant == Spec => []RingInv
<1>1. Init => RingInv
  BY RingInvInit
<1>2. RingInv /\ [Next]_vars => RingInv'
  BY RingInvStep
<1> QED BY <1>1, <1>2, PTL DEF Spec, Safety

(* kfifo_put and kfifo_get never touch one slot at the same time.          *)
THEOREM SlotsAreDisjoint == Spec => []DisjointSlots
<1>1. RingInv => DisjointSlots
  <2> SUFFICES ASSUME RingInv, putPc \in {"store", "publish"}, getPc \in {"load", "release"}
               PROVE  Slot(in) # Slot(out)
    BY DEF DisjointSlots
  <2>1. TypeOK /\ Count < QUEUE_SIZE /\ Count > 0
    BY DEF RingInv
  <2>2. Count \in 0..(WORD - 1) /\ out \in Int
    BY <2>1, CountFacts DEF TypeOK
  <2>3. 1 \in 1..Count /\ out + 1 - 1 = out
    BY <2>1, <2>2
  <2> QED BY <2>1, <2>3, FreeSlot
<1> QED BY <1>1, RingInvariant, PTL

-----------------------------------------------------------------------------
(* The ring implements the bounded queue.                                  *)

(* Appending and taking the tail, element by element.                      *)
LEMMA AppendIs ==
    ASSUME NEW S, NEW s \in Seq(S), NEW t \in Seq(S), NEW e \in S,
           Len(t) = Len(s) + 1, t[Len(s) + 1] = e,
           \A i \in 1..Len(s) : t[i] = s[i]
    PROVE  t = Append(s, e)
  OBVIOUS

(* A sequence one shorter, shifted by one, is the tail.                    *)
LEMMA TailIs ==
    ASSUME NEW S, NEW s \in Seq(S), NEW t \in Seq(S),
           Len(t) = Len(s) - 1, s # <<>>,
           \A i \in 1..Len(t) : t[i] = s[i + 1]
    PROVE  t = Tail(s)
<1>1. Tail(s) \in Seq(S) /\ Len(Tail(s)) = Len(s) - 1
  OBVIOUS
<1>2. \A i \in 1..Len(t) : Tail(s)[i] = s[i + 1]
  OBVIOUS
<1> QED BY <1>1, <1>2

(* The queued slots hold a sequence of elements.                           *)
LEMMA QueuedIsSeq ==
    ASSUME RingInv
    PROVE  /\ Queued \in Seq(Elem) /\ Len(Queued) = Count
           /\ Count \in Nat /\ DOMAIN Queued = 1..Count
           /\ \A i \in 1..Count : Queued[i] = data[Slot(out + i - 1)]
<1>1. Count \in Nat /\ \A i \in 1..Count : data[Slot(out + i - 1)] \in Elem
  BY CountFacts DEF RingInv
<1>2. Queued \in [1..Count -> Elem]
  BY <1>1 DEF Queued
<1>3. Queued \in Seq(Elem)
  BY <1>1, <1>2, SMT
<1>4. Len(Queued) = Count
  BY <1>1, <1>2, <1>3, SMT
<1> QED BY <1>1, <1>3, <1>4 DEF Queued

(* A step that leaves the counters and the queued slots alone leaves the   *)
(* queue alone.                                                            *)
LEMMA QueuedUnchanged ==
    ASSUME in' = in, out' = out,
           \A i \in 1..Count : data'[Slot(out + i - 1)] = data[Slot(out + i - 1)]
    PROVE  Queued' = Queued
<1>1. Count' = Count
  BY DEF Count
<1> QED BY <1>1 DEF Queued, Slot

(* Every step of the ring is a step of the bounded queue, or a stutter.    *)
LEMMA RefinementStep == RingInv /\ RingInv' /\ [Next]_vars => [Fifo!Next]_(Fifo!vars)
<1> SUFFICES ASSUME RingInv, RingInv', [Next]_vars PROVE [Fifo!Next]_(Fifo!vars)
  OBVIOUS
<1> USE DEF ring, producer, consumer
<1>0. /\ Queued \in Seq(Elem) /\ Len(Queued) = Count /\ DOMAIN Queued = 1..Count
      /\ Count \in Nat /\ Count <= QUEUE_SIZE
      /\ \A i \in 1..Count : Queued[i] = data[Slot(out + i - 1)]
  BY QueuedIsSeq DEF RingInv
<1>00. /\ Queued' \in Seq(Elem) /\ Len(Queued') = Count' /\ DOMAIN Queued' = 1..Count'
       /\ Count' \in Nat
       /\ \A i \in 1..Count' : Queued'[i] = data'[Slot(out' + i - 1)]
  <2>1. (Count \in Nat /\ DOMAIN Queued = 1..Count /\ Queued \in Seq(Elem)
         /\ Len(Queued) = Count /\ \A i \in 1..Count : Queued[i] = data[Slot(out + i - 1)])'
    BY QueuedIsSeq, PTL
  <2> QED BY <2>1 DEF Slot
<1>01. TypeOK /\ (Empty <=> Count = 0) /\ (Full <=> Count = QUEUE_SIZE)
  BY <1>0, CountFacts DEF RingInv
<1>1. CASE PutRefused
  <2>1. Queued' = Queued
    BY <1>1, QueuedUnchanged DEF PutRefused
  <2>2. Fifo!PutRefused
    BY <1>0, <1>01, <1>1, <2>1 DEF PutRefused, Fifo!PutRefused
  <2> QED BY <2>2 DEF Fifo!Next
<1>2. ASSUME NEW e \in Elem, PutEnter(e) PROVE UNCHANGED Fifo!vars
  <2>1. Queued' = Queued
    BY <1>2, QueuedUnchanged DEF PutEnter
  <2> QED BY <1>2, <2>1 DEF PutEnter, Fifo!vars
<1>3. CASE PutStore
  <2>1. Count < QUEUE_SIZE /\ data \in [Slots -> Elem \cup {NoElem}] /\ out \in Int
    BY <1>01, <1>3 DEF PutStore, RingInv, TypeOK
  <2>2. \A i \in 1..Count : data'[Slot(out + i - 1)] = data[Slot(out + i - 1)]
    <3> SUFFICES ASSUME NEW i \in 1..Count
                 PROVE  data'[Slot(out + i - 1)] = data[Slot(out + i - 1)]
      OBVIOUS
    <3>1. Slot(out + i - 1) # Slot(in)
      BY <1>01, <2>1, FreeSlot
    <3>2. Slot(out + i - 1) \in Slots
      <4>1. out + i - 1 \in Int
        BY <1>0, <2>1
      <4> QED BY <4>1, SlotWrap
    <3> QED BY <1>3, <2>1, <3>1, <3>2 DEF PutStore
  <2>3. Queued' = Queued
    BY <1>3, <2>2, QueuedUnchanged DEF PutStore
  <2> QED BY <1>3, <2>3 DEF PutStore, Fifo!vars
<1>4. CASE PutPublish
  <2>1. Count' = Count + 1 /\ Slot(in) = Slot(out + Count)
    BY <1>4, PublishCounts
  <2>2. /\ Count < QUEUE_SIZE /\ data[Slot(in)] = putElem /\ putElem \in Elem
        /\ data' = data /\ out' = out /\ putResult' = "ok" /\ getResult' = getResult
    BY <1>4 DEF PutPublish, RingInv
  <2>3. Queued' = Append(Queued, putElem)
    <3>1. \A i \in 1..Count : Queued'[i] = Queued[i]
      <4> SUFFICES ASSUME NEW i \in 1..Count PROVE Queued'[i] = Queued[i]
        OBVIOUS
      <4>1. i \in 1..Count'
        BY <1>0, <2>1
      <4>2. Queued'[i] = data'[Slot(out' + i - 1)] /\ Queued[i] = data[Slot(out + i - 1)]
        BY <1>0, <1>00, <4>1
      <4> QED BY <2>2, <4>2
    <3>2. Queued'[Count + 1] = putElem
      <4>1. Count + 1 \in 1..Count' /\ out + (Count + 1) - 1 = out + Count
        BY <1>0, <1>01, <2>1 DEF TypeOK
      <4> QED BY <1>00, <2>1, <2>2, <4>1
    <3> QED BY <1>0, <1>00, <2>1, <2>2, <3>1, <3>2, AppendIs
  <2>4. Fifo!Put(putElem)
    BY <1>0, <2>2, <2>3 DEF Fifo!Put
  <2> QED BY <2>2, <2>4 DEF Fifo!Next
<1>5. CASE GetNothing
  <2>1. Queued' = Queued
    BY <1>5, QueuedUnchanged DEF GetNothing
  <2>2. Queued = <<>>
    BY <1>0, <1>01, <1>5 DEF GetNothing
  <2>3. Fifo!GetNothing
    BY <1>5, <2>1, <2>2 DEF GetNothing, Fifo!GetNothing
  <2> QED BY <2>3 DEF Fifo!Next
<1>6. CASE GetEnter
  <2>1. Queued' = Queued
    BY <1>6, QueuedUnchanged DEF GetEnter
  <2> QED BY <1>6, <2>1 DEF GetEnter, Fifo!vars
<1>7. CASE GetLoad
  <2>1. Queued' = Queued
    BY <1>7, QueuedUnchanged DEF GetLoad
  <2> QED BY <1>7, <2>1 DEF GetLoad, Fifo!vars
<1>8. CASE GetRelease
  <2>1. Count' = Count - 1 /\ \A i \in Int : Slot(out' + i - 1) = Slot(out + i)
    BY <1>8, ReleaseCounts
  <2>2. /\ Count > 0 /\ getElem = data[Slot(out)] /\ data' = data
        /\ getResult' = getElem /\ putResult' = putResult
    BY <1>8 DEF GetRelease, RingInv
  <2>3. Head(Queued) = getElem
    <3>1. 1 \in 1..Count /\ out + 1 - 1 = out
      BY <1>0, <1>01, <2>2 DEF TypeOK
    <3> QED BY <1>0, <2>2, <3>1, SMT
  <2>4. Queued' = Tail(Queued)
    <3>1. \A i \in 1..(Count - 1) : Queued'[i] = Queued[i + 1]
      <4> SUFFICES ASSUME NEW i \in 1..(Count - 1) PROVE Queued'[i] = Queued[i + 1]
        OBVIOUS
      <4>1. i \in 1..Count' /\ i + 1 \in 1..Count /\ out + (i + 1) - 1 = out + i
        BY <1>0, <1>01, <2>1 DEF TypeOK
      <4>2. Queued'[i] = data'[Slot(out' + i - 1)]
        BY <1>00, <4>1
      <4>3. Slot(out' + i - 1) = Slot(out + i)
        BY <2>1
      <4>4. Queued[i + 1] = data[Slot(out + (i + 1) - 1)]
        BY <1>0, <4>1
      <4> QED BY <2>2, <4>1, <4>2, <4>3, <4>4
    <3>2. Queued # <<>>
      BY <1>0, <2>2
    <3>3. Len(Queued') = Len(Queued) - 1
      BY <1>0, <1>00, <2>1
    <3> QED BY <1>0, <1>00, <2>1, <3>1, <3>2, <3>3, TailIs
  <2>5. Fifo!Get
    BY <1>0, <2>2, <2>3, <2>4 DEF Fifo!Get
  <2> QED BY <2>5 DEF Fifo!Next
<1>9. CASE UNCHANGED vars
  <2>1. Queued' = Queued
    BY <1>9, QueuedUnchanged DEF vars
  <2> QED BY <1>9, <2>1 DEF vars, Fifo!vars
<1> QED BY <1>1, <1>2, <1>3, <1>4, <1>5, <1>6, <1>7, <1>8, <1>9 DEF Next, Producer, Consumer

(* Every behaviour of the ring is one of the bounded queue: frames come    *)
(* out once, in order, and a put is refused only when the ring is full.    *)
THEOREM RingImplementsFifo == Spec => Fifo!Safety
<1>1. Init => Fifo!Init
  <2> SUFFICES ASSUME Init PROVE Fifo!Init
    OBVIOUS
  <2>1. RingInv /\ Count = 0
    BY RingInvInit, CountFacts, RingSize DEF Init, RingInv, TypeOK
  <2>2. Queued = <<>>
    BY <2>1, QueuedIsSeq
  <2> QED BY <2>2 DEF Init, Fifo!Init
<1>2. RingInv /\ RingInv' /\ [Next]_vars => [Fifo!Next]_(Fifo!vars)
  BY RefinementStep
<1> QED BY <1>1, <1>2, RingInvariant, PTL DEF Spec, Safety, Fifo!Safety
=============================================================================
