----------------------------- MODULE BoundedLog -----------------------------
(***************************************************************************)
(* What a log of bounded size promises: it holds the newest items, oldest  *)
(* first, and forgets the oldest one when it is full.                      *)
(***************************************************************************)
EXTENDS Integers, Sequences

CONSTANTS Items, Size

VARIABLE log

Newest(s) == IF Len(s) > Size THEN SubSeq(s, Len(s) - Size + 1, Len(s)) ELSE s

Init == log = <<>>

Append1(x) == log' = Newest(Append(log, x))
Forget == log' = <<>>

Next == Forget \/ \E x \in Items : Append1(x)

Spec == Init /\ [][Next]_log
=============================================================================
