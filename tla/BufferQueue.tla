----------------------------- MODULE BufferQueue ----------------------------
(***************************************************************************)
(* The order mmal_queue.h promises: a queue of buffer headers for several  *)
(* threads, first in, first out, except for a header that is put back.     *)
(* What a call returns is not part of it: a Get is a header taken, and     *)
(* whether mmal_queue_wait may come back without one (mmal_queue.h:75-82)  *)
(* cannot be seen here.                                                    *)
(***************************************************************************)
EXTENDS Sequences

CONSTANTS Threads, Buffers

VARIABLES
    queue,               \* the headers in the queue, in order
    held                 \* thread -> the headers it has

Init ==
    /\ queue = <<>>
    /\ held \in [Threads -> SUBSET Buffers]

Put(t, b) ==
    /\ b \in held[t]
    /\ queue' = Append(queue, b)
    /\ held' = [held EXCEPT ![t] = @ \ {b}]

PutBack(t, b) ==
    /\ b \in held[t]
    /\ queue' = <<b>> \o queue
    /\ held' = [held EXCEPT ![t] = @ \ {b}]

Get(t) ==
    /\ queue # <<>>
    /\ queue' = Tail(queue)
    /\ held' = [held EXCEPT ![t] = @ \cup {Head(queue)}]

Next ==
    \E t \in Threads : Get(t) \/ \E b \in Buffers : Put(t, b) \/ PutBack(t, b)

Spec == Init /\ [][Next]_<<queue, held>>
=============================================================================
