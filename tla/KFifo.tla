-------------------------------- MODULE KFifo --------------------------------
(***************************************************************************)
(* The lock-free ring of mpp/sample/svntest/cdr_comm/cdr_comm.c            *)
(* (kfifo_put, kfifo_get) that hands MP4 frames from the recording thread  *)
(* to the thread that writes the file.  One producer, one consumer, no     *)
(* lock: `in` and `out` are free-running unsigned counters, a slot is the  *)
(* counter masked with QUEUE_SIZE - 1.                                     *)
(*                                                                         *)
(* Each step is one access to the shared ring, in program order: the       *)
(* __sync_synchronize() barriers keep the slot access on its side of the   *)
(* counter update.                                                         *)
(***************************************************************************)
EXTENDS Integers, Sequences

CONSTANTS
    Elem,       \* the pointers that are queued
    NoElem,     \* no pointer
    QUEUE_SIZE, \* slots of the ring (64 in cdr_comm.h)
    WORD        \* the counters count modulo WORD (2^32: unsigned int)

(* QUEUE_SIZE divides the counters' range, which is why the index survives *)
(* their wrap-around, and the range is larger than the ring, which is why  *)
(* a full ring differs from an empty one.                                  *)
ASSUME RingAssumption ==
    /\ QUEUE_SIZE \in Nat \ {0}
    /\ WORD \in Nat
    /\ \E k \in 2..WORD : WORD = k * QUEUE_SIZE
    /\ NoElem \notin Elem

VARIABLES
    data, in, out,             \* the kfifo structure
    putPc, putElem, putResult, \* the producer inside kfifo_put
    getPc, getElem, getResult  \* the consumer inside kfifo_get

ring == <<data, in, out>>
producer == <<putPc, putElem, putResult>>
consumer == <<getPc, getElem, getResult>>
vars == <<ring, producer, consumer>>

Slots == 0..(QUEUE_SIZE - 1)

(* Bugs the properties below must notice: a modulus where the code masks,  *)
(* a full ring that takes one more, a put that does not look.              *)
SlotModMask(counter) == counter % (QUEUE_SIZE - 1)
FullOneLate == (QUEUE_SIZE + 1 - in + out) % WORD = 0
FullIgnored == FALSE

(* fifo->in & (QUEUE_SIZE - 1).                                            *)
Slot(counter) == counter % QUEUE_SIZE

Succ(counter) == (counter + 1) % WORD

(* How many elements the counters say are queued, in unsigned arithmetic.  *)
Count == (in - out) % WORD

Full == (QUEUE_SIZE - in + out) % WORD = 0

Empty == (in - out) % WORD = 0

(* Mp4 contexts start with in = out = 0 (cdr_mp4_create); any common value *)
(* is a state a ring that has been emptied reaches.                        *)
Init ==
    /\ data = [s \in Slots |-> NoElem]
    /\ in \in 0..(WORD - 1) /\ out = in
    /\ putPc = "idle" /\ putElem = NoElem /\ putResult = "none"
    /\ getPc = "idle" /\ getElem = NoElem /\ getResult = NoElem

-----------------------------------------------------------------------------
(* kfifo_put: refuse, or store the element, then publish it.               *)

PutRefused ==
    /\ putPc = "idle"
    /\ Full
    /\ putResult' = "full"
    /\ UNCHANGED <<ring, putPc, putElem, consumer>>

PutEnter(e) ==
    /\ putPc = "idle"
    /\ ~Full
    /\ putPc' = "store"
    /\ putElem' = e
    /\ UNCHANGED <<ring, putResult, consumer>>

PutStore ==
    /\ putPc = "store"
    /\ data' = [data EXCEPT ![Slot(in)] = putElem]
    /\ putPc' = "publish"
    /\ UNCHANGED <<in, out, putElem, putResult, consumer>>

PutPublish ==
    /\ putPc = "publish"
    /\ in' = Succ(in)
    /\ putPc' = "idle"
    /\ putResult' = "ok"
    /\ UNCHANGED <<data, out, putElem, consumer>>

-----------------------------------------------------------------------------
(* kfifo_get: find nothing, or load the element, then release its slot.    *)

GetNothing ==
    /\ getPc = "idle"
    /\ Empty
    /\ getResult' = NoElem
    /\ UNCHANGED <<ring, getPc, getElem, producer>>

GetEnter ==
    /\ getPc = "idle"
    /\ ~Empty
    /\ getPc' = "load"
    /\ UNCHANGED <<ring, getElem, getResult, producer>>

GetLoad ==
    /\ getPc = "load"
    /\ getElem' = data[Slot(out)]
    /\ getPc' = "release"
    /\ UNCHANGED <<ring, getResult, producer>>

GetRelease ==
    /\ getPc = "release"
    /\ out' = Succ(out)
    /\ getPc' = "idle"
    /\ getResult' = getElem
    /\ UNCHANGED <<data, in, getElem, producer>>

-----------------------------------------------------------------------------
Producer == PutRefused \/ (\E e \in Elem : PutEnter(e)) \/ PutStore \/ PutPublish
Consumer == GetNothing \/ GetEnter \/ GetLoad \/ GetRelease
Next == Producer \/ Consumer

Safety == Init /\ [][Next]_vars

(* write_frame_to_mp4_pro calls kfifo_get in an endless loop.              *)
Spec == Safety /\ WF_vars(Consumer)

-----------------------------------------------------------------------------
TypeOK ==
    /\ data \in [Slots -> Elem \cup {NoElem}]
    /\ in \in 0..(WORD - 1)
    /\ out \in 0..(WORD - 1)
    /\ putPc \in {"idle", "store", "publish"}
    /\ putElem \in Elem \cup {NoElem}
    /\ putResult \in {"none", "ok", "full"}
    /\ getPc \in {"idle", "load", "release"}
    /\ getElem \in Elem \cup {NoElem}
    /\ getResult \in Elem \cup {NoElem}

(* The elements between out and in, the oldest first.                      *)
Queued == [i \in 1..Count |-> data[Slot(out + i - 1)]]

(* The two threads never touch one slot at the same time: while the        *)
(* producer stores or has yet to publish, and the consumer loads or has    *)
(* yet to release, they are at different slots.  This is what lets         *)
(* kfifo_put and kfifo_get do without a lock.                              *)
DisjointSlots ==
    putPc \in {"store", "publish"} /\ getPc \in {"load", "release"}
        => Slot(in) # Slot(out)

(* What makes DisjointSlots and the refinement inductive.                  *)
RingInv ==
    /\ TypeOK
    /\ Count <= QUEUE_SIZE
    /\ putPc # "idle" => Count < QUEUE_SIZE /\ putElem \in Elem
    /\ putPc = "publish" => data[Slot(in)] = putElem
    /\ getPc # "idle" => Count > 0
    /\ getPc = "release" => getElem = data[Slot(out)]
    /\ \A i \in 1..Count : data[Slot(out + i - 1)] \in Elem

(* The ring is a bounded FIFO queue: a put takes effect when `in` is       *)
(* advanced, a get when `out` is.                                          *)
Fifo == INSTANCE BoundedFifo WITH q <- Queued, Capacity <- QUEUE_SIZE

(* kfifo_put and kfifo_get implement the queue, the consumer's progress    *)
(* included.                                                               *)
ImplementsFifo == Fifo!Spec

=============================================================================
