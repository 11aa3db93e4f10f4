----------------------------- MODULE EventQueue ------------------------------
(***************************************************************************)
(* What the ring buffer of the infrared receiver promises: a first-in,     *)
(* first-out queue of at most Limit events, which drops an event that      *)
(* comes when it is full.                                                  *)
(***************************************************************************)
EXTENDS Naturals, Sequences

CONSTANTS Event, Limit

VARIABLE queue

Put(e) == Len(queue) < Limit /\ queue' = Append(queue, e)
Get    == queue # <<>> /\ queue' = Tail(queue)

QueueInit == queue = <<>>
QueueNext == Get \/ \E e \in Event : Put(e)
QueueSpec == QueueInit /\ [][QueueNext]_queue
=============================================================================
