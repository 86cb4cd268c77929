---------------------------- MODULE BoundedFifo ----------------------------
(***************************************************************************)
(* What an OSMessageQueue promises to the threads that use it: a sequence  *)
(* of at most Capacity messages; a message put in is taken out once, by    *)
(* one receiver, in order, except that a jammed message overtakes.         *)
(***************************************************************************)
EXTENDS Naturals, Sequences

CONSTANTS Users, Messages, Capacity

VARIABLES
  items,   \* the messages in the queue, oldest first
  got      \* the message each thread took last

Init ==
  /\ items = << >>
  /\ got \in [Users -> Messages]

Put(m) ==
  /\ Len(items) < Capacity
  /\ items' = Append(items, m)
  /\ UNCHANGED got

PutFirst(m) ==
  /\ Len(items) < Capacity
  /\ items' = << m >> \o items
  /\ UNCHANGED got

Take(t) ==
  /\ items # << >>
  /\ items' = Tail(items)
  /\ got' = [got EXCEPT ![t] = Head(items)]

Next ==
  \/ \E m \in Messages : Put(m) \/ PutFirst(m)
  \/ \E t \in Users : Take(t)

Spec == Init /\ [][Next]_<< items, got >>
=============================================================================
