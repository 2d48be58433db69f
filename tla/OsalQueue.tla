------------------------------ MODULE OsalQueue ------------------------------
(***************************************************************************)
(* The queue between a media session's producer and its sender             *)
(* (mpp/sample/svntest/librtsp/utils/OSAL_Queue.c): a closed ring of       *)
(* elements, each with room for one pointer, walked by first and last.     *)
(* Every operation holds the queue's mutex from its test to its return,    *)
(* so it is one step, written here as a function of the queue.             *)
(*                                                                         *)
(* OSAL_QueueCreate(q, NB_BUFFER) makes NB_BUFFER - 1 elements: one, and   *)
(* NB_BUFFER - 2 more in its loop.  A pointer is named by the frame buffer *)
(* it points to: cdr_rtsp_send_frame queues &pMs->mBuf[index].             *)
(***************************************************************************)
EXTENDS Integers, Sequences

CONSTANTS
    NB_BUFFER,  \* frame buffers of a session, and what its queue is asked to hold
    NULL        \* the pointer of an element that holds nothing

Slot == 0..(NB_BUFFER - 1)

ASSUME QueueAssumption ==
    /\ NB_BUFFER \in Nat /\ NB_BUFFER >= 2
    /\ NULL \notin Slot

(* The ring: NB_BUFFER - 1 elements, qNext of the last is the first.       *)
Nodes == NB_BUFFER - 1
Node == 0..(Nodes - 1)
qNext(n) == IF n = Nodes - 1 THEN 0 ELSE n + 1

Queue == [data : [Node -> Slot \cup {NULL}], first : Node, last : Node, numElem : Nat]

OSAL_QueueCreate == [data |-> [n \in Node |-> NULL], first |-> 0, last |-> 0, numElem |-> 0]

(* A bug MediaInv must notice: the count alone is looked at, which the     *)
(* ring can never reach.                                                   *)
RefusesByCount(q) == q.numElem >= NB_BUFFER

Refuses(q) == q.data[q.last] # NULL \/ q.numElem >= NB_BUFFER

(* OSAL_Queue: 0 when the pointer was stored, -1 when it was not.          *)
OSAL_Queue(q, d) ==
    IF Refuses(q) THEN q
    ELSE [data |-> [q.data EXCEPT ![q.last] = d],
          first |-> q.first,
          last |-> qNext(q.last),
          numElem |-> q.numElem + 1]

FindsNothing(q) == q.data[q.first] = NULL \/ q.numElem <= 0

(* OSAL_Dequeue: the pointer it returns, and the queue it leaves.          *)
Dequeued(q) == IF FindsNothing(q) THEN NULL ELSE q.data[q.first]
OSAL_Dequeue(q) ==
    IF FindsNothing(q) THEN q
    ELSE [data |-> [q.data EXCEPT ![q.first] = NULL],
          first |-> qNext(q.first),
          last |-> q.last,
          numElem |-> q.numElem - 1]

-----------------------------------------------------------------------------
(* The element i places after n, and what the queue holds, oldest first.   *)
After(n, i) == IF n + i >= Nodes THEN n + i - Nodes ELSE n + i
Contents(q) == [i \in 1..q.numElem |-> q.data[After(q.first, i - 1)]]

(* A ring in order: the numElem elements from first on hold pointers, the  *)
(* others hold none, and last is where they end.                           *)
IsQueue(q) ==
    /\ q \in Queue
    /\ q.numElem <= Nodes
    /\ q.last = After(q.first, q.numElem)
    /\ \A i \in 0..(Nodes - 1) : q.data[After(q.first, i)] # NULL <=> i < q.numElem
=============================================================================
