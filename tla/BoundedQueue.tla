---------------------------- MODULE BoundedQueue ----------------------------
(***************************************************************************)
(* What a receive ring promises: bytes come out in the order they went in, *)
(* a byte that finds no room is lost, and a block goes in whole or not at  *)
(* all.                                                                    *)
(***************************************************************************)
EXTENDS Integers, Sequences

CONSTANTS Capacity, Bytes

VARIABLE queue

Put(b) == queue' = IF Len(queue) < Capacity THEN Append(queue, b) ELSE queue

PutAll(s) == queue' = IF Len(queue) + Len(s) <= Capacity THEN queue \o s ELSE queue

Get == queue # <<>> /\ queue' = Tail(queue)

Clear == queue' = <<>>

Next ==
  \/ \E b \in Bytes : Put(b)
  \/ \E s \in Seq(Bytes) : PutAll(s)
  \/ Get \/ Clear

Spec == queue = <<>> /\ [][Next]_queue
=============================================================================
