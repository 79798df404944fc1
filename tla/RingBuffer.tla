----------------------------- MODULE RingBuffer -----------------------------
(***************************************************************************)
(* RingBuffer (services/event_bus.py): a fixed array written round and     *)
(* round.  Every operation holds the buffer's lock, so each is one step.   *)
(***************************************************************************)
EXTENDS Integers, Sequences

CONSTANTS Items,  \* what may be stored
          None,   \* an empty slot
          Size    \* max_size

ASSUME SizeAssumption == Size \in Nat \ {0}
ASSUME NoneAssumption == None \notin Items

VARIABLES buf,    \* _buf
          pos,    \* _pos, where the next item goes
          count   \* _count

ringVars == <<buf, pos, count>>

RingTypeOK ==
    /\ buf \in [0..(Size - 1) -> Items \cup {None}]
    /\ pos \in 0..(Size - 1)
    /\ count \in 0..Size

RingInit ==
    /\ buf = [i \in 0..(Size - 1) |-> None]
    /\ pos = 0
    /\ count = 0

RingAppend(x) ==
    /\ buf' = [buf EXCEPT ![pos] = x]
    /\ pos' = (pos + 1) % Size
    /\ count' = IF count < Size THEN count + 1 ELSE count

\* mistake: the position is kept
RingClearKeepsPos ==
    /\ buf' = [i \in 0..(Size - 1) |-> None]
    /\ count' = 0
    /\ UNCHANGED pos

RingClear ==
    /\ buf' = [i \in 0..(Size - 1) |-> None]
    /\ pos' = 0
    /\ count' = 0

(* Python's list(...)[start:end] of the first n items from slot first on.  *)
FromSlot(first, start, end) ==
    [i \in 1..(end - start) |-> buf[(first + start + i - 1) % Size]]

GetAll == IF count < Size THEN FromSlot(0, 0, count) ELSE FromSlot(pos, 0, count)

GetSlice(start, end) ==
    IF start < 0 \/ end > count \/ start >= end THEN <<>>
    ELSE IF count < Size THEN FromSlot(0, start, end)
    ELSE FromSlot(pos, start, end)
=============================================================================
