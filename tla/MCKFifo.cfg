SPECIFICATION Spec
CONSTANTS
    Elem = {e1, e2}
    NoElem = NoElem
    QUEUE_SIZE = 4
    WORD = 8
INVARIANTS
    RingInv
    DisjointSlots
PROPERTIES
    ImplementsFifo
