---------------------------- MODULE BoundedHistory ----------------------------
(***************************************************************************)
(* What Domain::History<T, Capacity> is for: the last Capacity values that *)
(* were pushed since the last clear, oldest first.                         *)
(***************************************************************************)
EXTENDS Integers, Sequences

CONSTANTS Values, Capacity

VARIABLE items

Init == items = <<>>

Push(v) ==
    items' = Append(IF Len(items) < Capacity THEN items ELSE Tail(items), v)

Clear == items' = <<>>

Next == Clear \/ \E v \in Values : Push(v)

Spec == Init /\ [][Next]_items
==============================================================================
