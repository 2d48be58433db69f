----------------------------- MODULE BoundedFifo -----------------------------
(***************************************************************************)
(* What the frame queue between a producer thread and a consumer thread    *)
(* promises: elements come out once each, in the order they went in, a put *)
(* is refused exactly when the queue holds Capacity elements and a get     *)
(* finds nothing exactly when it holds none.  KFifo (kfifo_put, kfifo_get) *)
(* and OsalQueue (OSAL_Queue, OSAL_Dequeue) implement it.                  *)
(***************************************************************************)
EXTENDS Naturals, Sequences

CONSTANTS
    Elem,      \* the values that can be queued
    Capacity,  \* how many fit
    NoElem     \* what a get that found nothing returns (a NULL pointer)

VARIABLES
    q,         \* the queued elements, the oldest first
    putResult, \* what the last finished put returned: "none", "ok" or "full"
    getResult  \* what the last finished get returned

vars == <<q, putResult, getResult>>

Init == q = <<>> /\ putResult = "none" /\ getResult = NoElem

Put(e) ==
    /\ Len(q) < Capacity
    /\ q' = Append(q, e)
    /\ putResult' = "ok"
    /\ UNCHANGED getResult

PutRefused ==
    /\ Len(q) = Capacity
    /\ putResult' = "full"
    /\ UNCHANGED <<q, getResult>>

Get ==
    /\ q # <<>>
    /\ getResult' = Head(q)
    /\ q' = Tail(q)
    /\ UNCHANGED putResult

GetNothing ==
    /\ q = <<>>
    /\ getResult' = NoElem
    /\ UNCHANGED <<q, putResult>>

Next == (\E e \in Elem : Put(e)) \/ PutRefused \/ Get \/ GetNothing

Safety == Init /\ [][Next]_vars

(* A queued element does not wait forever: the consumer keeps taking.      *)
Spec == Safety /\ WF_vars(Get)
=============================================================================
