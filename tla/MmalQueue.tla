------------------------------ MODULE MmalQueue -----------------------------
(***************************************************************************)
(* mmal_queue.c, the queue behind every pool of buffer headers: a linked   *)
(* list with a pointer to its last `next' field, a mutex around it, and a  *)
(* semaphore that counts the headers so that threads can wait for one.     *)
(*                                                                         *)
(* The semaphore is not tied to the mutex.  mmal_queue_wait takes a token  *)
(* and gives it back before it calls mmal_queue_get; mmal_queue_get takes  *)
(* its token INSIDE the mutex, where for a moment a waiting thread may     *)
(* have it.                                                                *)
(*                                                                         *)
(* Nothing but the semaphore is touched without the mutex, so what a       *)
(* thread does in it up to its next semaphore call is one step.            *)
(***************************************************************************)
EXTENDS Naturals, Sequences, FiniteSets

CONSTANTS
    Threads,
    Buffers,
    Null                 \* no buffer, no thread; as `last': &queue->first

ASSUME QueueAssumption ==
    /\ Null \notin Buffers /\ Null \notin Threads
    /\ IsFiniteSet(Buffers) /\ IsFiniteSet(Threads)

VARIABLES
    lock,                \* the thread in the mutex, or Null
    length,
    first,               \* the first buffer
    next,                \* buffer -> buffer->next
    last,                \* the buffer whose `next' a put sets, or Null
    sem,                 \* the semaphore
    pc,                  \* where each thread is
    held,                \* thread -> the buffers it has
    order                \* history: the queue as its users see it

list    == <<length, first, next, last, order>>
threads == <<pc, held>>
vars    == <<lock, list, sem, threads>>

States == {"idle", "posting", "wait", "timedwait", "token", "get", "taking"}

TypeOK ==
    /\ lock \in Threads \cup {Null}
    /\ length \in Nat
    /\ first \in Buffers \cup {Null}
    /\ next \in [Buffers -> Buffers \cup {Null}]
    /\ last \in Buffers \cup {Null}
    /\ sem \in Nat
    /\ pc \in [Threads -> States]
    /\ held \in [Threads -> SUBSET Buffers]
    /\ order \in Seq(Buffers)

(* mmal_queue_create; the users have the buffers, each buffer one user. *)
Init ==
    /\ lock = Null
    /\ length = 0
    /\ first = Null /\ last = Null
    /\ next = [b \in Buffers |-> Null]
    /\ sem = 0
    /\ pc = [t \in Threads |-> "idle"]
    /\ \E owner \in [Buffers -> Threads] :
           held = [t \in Threads |-> {b \in Buffers : owner[b] = t}]
    /\ order = <<>>

Goto(t, from, to) ==
    /\ pc[t] = from
    /\ pc' = [pc EXCEPT ![t] = to]

-----------------------------------------------------------------------------
(* mmal_queue_put: append under the mutex ... *)
Link(b) ==
    /\ length' = length + 1
    /\ IF last = Null
       THEN first' = b /\ next' = [next EXCEPT ![b] = Null]
       ELSE first' = first /\ next' = [next EXCEPT ![last] = b, ![b] = Null]
    /\ last' = b

Put(t, b) ==
    /\ Goto(t, "idle", "posting")
    /\ b \in held[t]
    /\ lock = Null /\ lock' = t
    /\ Link(b)
    /\ held' = [held EXCEPT ![t] = @ \ {b}]
    /\ order' = Append(order, b)
    /\ UNCHANGED sem

(* Fault: `last' is left alone, as if there were a buffer behind. *)
LinkFrontKeepLastMutant(b) ==
    /\ length' = length + 1
    /\ next' = [next EXCEPT ![b] = first]
    /\ first' = b
    /\ last' = last

(* mmal_queue_put_back: at the front ... *)
LinkFront(b) ==
    /\ length' = length + 1
    /\ next' = [next EXCEPT ![b] = first]
    /\ first' = b
    /\ last' = IF last = Null THEN b ELSE last

PutBack(t, b) ==
    /\ Goto(t, "idle", "posting")
    /\ b \in held[t]
    /\ lock = Null /\ lock' = t
    /\ LinkFront(b)
    /\ held' = [held EXCEPT ![t] = @ \ {b}]
    /\ order' = <<b>> \o order
    /\ UNCHANGED sem

(* Fault: no token is posted. *)
PostNothingMutant(t) ==
    /\ Goto(t, "posting", "idle")
    /\ lock' = Null
    /\ UNCHANGED <<list, sem, held>>

(* ... then post a token and leave the mutex. *)
Post(t) ==
    /\ Goto(t, "posting", "idle")
    /\ sem' = sem + 1
    /\ lock' = Null
    /\ UNCHANGED <<list, held>>

-----------------------------------------------------------------------------
(* A thread calls one of the functions that take a buffer. *)
Call(t) ==
    /\ \E function \in {"get", "wait", "timedwait"} : Goto(t, "idle", function)
    /\ UNCHANGED <<lock, list, sem, held>>

(* mmal_queue_get: under the mutex, give up when the list is empty ... *)
GetNull(t) ==
    /\ lock = Null /\ first = Null
    /\ Goto(t, "get", "idle")
    /\ UNCHANGED <<lock, list, sem, held>>

GetLock(t) ==
    /\ lock = Null /\ first # Null
    /\ Goto(t, "get", "taking")
    /\ lock' = t
    /\ UNCHANGED <<list, sem, held>>

(* Fault: `last' still points into the buffer that was taken. *)
UnlinkKeepLastMutant ==
    /\ first' = next[first]
    /\ last' = last
    /\ length' = length - 1
    /\ UNCHANGED next

Unlink ==
    /\ first' = next[first]
    /\ last' = IF next[first] = Null THEN Null ELSE last
    /\ length' = length - 1
    /\ UNCHANGED next

(* ... else wait for a token, still in the mutex, and take the first buffer.*)
Take(t) ==
    /\ Goto(t, "taking", "idle")
    /\ sem > 0 /\ sem' = sem - 1
    /\ Unlink
    /\ held' = [held EXCEPT ![t] = @ \cup {first}]
    /\ order' = Tail(order)
    /\ lock' = Null

(* mmal_queue_wait and mmal_queue_timedwait: wait for a token ... *)
TakeToken(t) ==
    /\ \/ Goto(t, "wait", "token") \/ Goto(t, "timedwait", "token")
    /\ sem > 0 /\ sem' = sem - 1
    /\ UNCHANGED <<lock, list, held>>

Timeout(t) ==
    /\ Goto(t, "timedwait", "idle")
    /\ UNCHANGED <<lock, list, sem, held>>

(* Fault: the token is kept. *)
KeepTokenMutant(t) ==
    /\ Goto(t, "token", "get")
    /\ UNCHANGED <<lock, list, sem, held>>

(* ... give it back, and get.                                               *)
ReturnToken(t) ==
    /\ Goto(t, "token", "get")
    /\ sem' = sem + 1
    /\ UNCHANGED <<lock, list, held>>

Enter(t) == Call(t) \/ \E b \in Buffers : Put(t, b) \/ PutBack(t, b)

Step(t) ==
    \/ Post(t) \/ GetNull(t) \/ GetLock(t) \/ Take(t)
    \/ TakeToken(t) \/ Timeout(t) \/ ReturnToken(t)

Next == \E t \in Threads : Enter(t) \/ Step(t)

Spec == Init /\ [][Next]_vars

(* A thread in one of the functions goes on, and gets the mutex and a token *)
(* if they are free again and again.  Nobody has to call anything.          *)
Fairness == \A t \in Threads : SF_vars(Step(t))

FairSpec == Spec /\ Fairness

-----------------------------------------------------------------------------
(* The pointers always form a list of the queue's content, which ends where *)
(* `last' says it does (mmal_queue.c:77-80, 91-94 and 117-120).             *)
ListIsQueue ==
    /\ length = Len(order)
    /\ first = IF order = <<>> THEN Null ELSE Head(order)
    /\ last  = IF order = <<>> THEN Null ELSE order[Len(order)]
    /\ \A i \in 1 .. Len(order) :
           next[order[i]] = IF i = Len(order) THEN Null ELSE order[i + 1]

(* Threads that have a token, or owe one for a buffer they have linked. *)
At(state) == {t \in Threads : pc[t] = state}

(* The semaphore lags behind the list by no more than the calls under way,  *)
(* and never runs ahead of it: no thread in mmal_queue_get waits for a      *)
(* token that nobody will post (mmal_queue.c:115, "Will always succeed").   *)
SemaphoreCounts ==
    sem + Cardinality(At("token")) + Cardinality(At("posting")) = Len(order)

(* "Will always succeed" (mmal_queue.c:115): a thread that waits for its    *)
(* token inside the mutex finds one, or one is in the hands of a thread     *)
(* that gives it back without the mutex.                                    *)
WillAlwaysSucceed ==
    \A t \in Threads : pc[t] = "taking" => sem > 0 \/ At("token") # {}

(* No buffer header is lost or handed out twice: each is with one user or   *)
(* once in the queue.                                                       *)
BufferKept ==
    \A b \in Buffers :
        Cardinality({t \in Threads : b \in held[t]})
            + Cardinality({i \in 1 .. Len(order) : order[i] = b}) = 1

(* The list with its semaphore takes and gives in the order of a queue, for *)
(* any interleaving of the calls (mmal_queue.h:41-67): who puts and who     *)
(* gets sees the order, but NULL from a wait is no step of the queue.       *)
Queue == INSTANCE BufferQueue WITH queue <- order
ImplementsQueue == Queue!Spec

(* Every call returns, with a header or with NULL, except that              *)
(* mmal_queue_wait may wait while the queue is empty.  In particular a      *)
(* thread that waits for its token inside the mutex gets it, although the   *)
(* threads that have it then need the mutex.                                *)
CallsReturn ==
    \A t \in Threads :
        (pc[t] # "idle") ~> (pc[t] = "idle" \/ (pc[t] = "wait" /\ order = <<>>))
=============================================================================
