------------------------------- MODULE MCKFifo -------------------------------
(* KFifo on a ring of four slots, its counters wrapping at eight: every     *)
(* position of the counters, full and empty, before and after the wrap.    *)
EXTENDS KFifo
=============================================================================
