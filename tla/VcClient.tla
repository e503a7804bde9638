------------------------------ MODULE VcClient ------------------------------
(***************************************************************************)
(* mmal_vc_client.c: how the threads of a process share one VCHIQ          *)
(* connection to VideoCore, where the camera runs.                         *)
(*                                                                         *)
(* mmal_vc_sendwait_message takes a waiter from a pool, puts its address   *)
(* into the message and waits on the waiter's semaphore; the VCHIQ thread  *)
(* copies the answer to where that waiter says.  mmal_vc_send_message does *)
(* not wait.  A message may announce a bulk transfer, which travels on a   *)
(* channel of its own, and VideoCore pairs the two by their order.         *)
(* The service is used (kept awake) while `usecount' is not 0: during a    *)
(* call that waits, and as long as a component exists (mmal_vc_use and     *)
(* mmal_vc_release).                                                       *)
(*                                                                         *)
(* What client.lock protects is one step.  A call is a thread and a number *)
(* that tells it from the thread's earlier calls still under way.          *)
(***************************************************************************)
EXTENDS Integers, SequencesExt

CONSTANTS
    Threads,
    MaxWaiters,          \* MAX_WAITERS, the size of the pool
    MaxMessages,         \* bound: messages VCHIQ takes before it blocks
    MaxComponents,       \* bound: components that exist at a time
    MayFail,             \* the calls of VCHIQ that may fail
    None

ASSUME ClientAssumption ==
    /\ MaxWaiters \in Nat \ {0}
    /\ MaxMessages \in Nat \ {0}
    /\ MaxComponents \in Nat
    /\ MayFail \subseteq {"use", "release", "bulk"}
    /\ IsFiniteSet(Threads) /\ None \notin Threads

Waiters == 1 .. MaxWaiters
Numbers == 0 .. MaxMessages
Calls   == Threads \X Numbers
NoCall  == <<None, 0>>

VARIABLES
    refcount,            \* threads that have called mmal_vc_init
    usecount, used,      \* the counter, and what VCHIQ knows
    holders,             \* threads with a component, for which the service is used
    failed,              \* history: which of the calls in MayFail have failed
    poolSem,             \* waitpool.sem: free waiters
    inuse, sem, dest,    \* waiter -> its flag, semaphore, destination
    bulkLock,            \* the thread that holds bulk_lock, or None
    pc,                  \* where each thread is
    kind,                \* what it sends: has it a bulk, does it wait?
    waiter,              \* its waiter
    number,              \* the number of its call
    answer,              \* the answer in its memory: the call it answers
    channel, bulks,      \* messages and bulks under way to VideoCore
    asked,               \* messages VideoCore has not answered yet
    copied               \* the waiter the VCHIQ thread posts next, or 0

service == <<usecount, used, failed>>
client == <<refcount, service, holders>>
pool   == <<poolSem, inuse, sem, dest>>
caller == <<kind, waiter, number, answer>>
link   == <<channel, bulks, asked, copied>>
vars   == <<client, pool, bulkLock, pc, caller, link>>

Kinds == [bulk : BOOLEAN, waits : BOOLEAN]
Messages == [call : Calls, waiter : Waiters \cup {0}, bulk : BOOLEAN]

NoKind   == [bulk |-> FALSE, waits |-> FALSE]

(* Where a thread is in mmal_vc_sendwait_message, between its waiter and    *)
(* its return; and where it holds the service in use.                       *)
HasWaiter == {"use", "queue", "bulk", "wait", "release", "free"}
InUse     == {"queue", "bulk", "wait", "release"}

TypeOK ==
    /\ refcount \in 0 .. Cardinality(Threads)
    /\ usecount \in Int /\ used \in BOOLEAN
    /\ holders \subseteq Threads /\ failed \subseteq MayFail
    /\ poolSem \in 0 .. MaxWaiters
    /\ inuse \in [Waiters -> BOOLEAN]
    /\ sem \in [Waiters -> Nat]
    /\ dest \in [Waiters -> Threads \cup {None}]
    /\ bulkLock \in Threads \cup {None}
    /\ pc \in [Threads -> HasWaiter \cup {"out", "entered", "idle", "lock", "take", "scan",
                                          "send", "sendbulk", "post"}]
    /\ kind \in [Threads -> Kinds]
    /\ waiter \in [Threads -> Waiters \cup {0}]
    /\ number \in [Threads -> Numbers]
    /\ answer \in [Threads -> Calls \cup {NoCall}]
    /\ channel \in Seq(Messages)
    /\ bulks \in Seq(Calls)
    /\ asked \subseteq Messages
    /\ copied \in Waiters \cup {0}

Init ==
    /\ refcount = 0 /\ usecount = 0 /\ used = FALSE
    /\ holders = {} /\ failed = {}
    /\ poolSem = 0
    /\ inuse = [w \in Waiters |-> FALSE]
    /\ sem = [w \in Waiters |-> 0]
    /\ dest = [w \in Waiters |-> None]
    /\ bulkLock = None
    /\ pc = [t \in Threads |-> "out"]
    /\ kind = [t \in Threads |-> NoKind]
    /\ waiter = [t \in Threads |-> 0]
    /\ number = [t \in Threads |-> 0]
    /\ answer = [t \in Threads |-> NoCall]
    /\ channel = <<>> /\ bulks = <<>>
    /\ asked = {} /\ copied = 0

Goto(t, from, to) ==
    /\ pc[t] = from
    /\ pc' = [pc EXCEPT ![t] = to]

Call(t) == <<t, number[t]>>

(* The variables of a call end with it. *)
EndCall(t) ==
    /\ kind' = [kind EXCEPT ![t] = NoKind]
    /\ waiter' = [waiter EXCEPT ![t] = 0]
    /\ answer' = [answer EXCEPT ![t] = NoCall]
    /\ number' = [number EXCEPT ![t] = 0]

Continue(t, from, to) == Goto(t, from, to) /\ UNCHANGED caller
Return(t, from)       == Goto(t, from, "idle") /\ EndCall(t)

-----------------------------------------------------------------------------
(* mmal_vc_use_internal; its result is ignored.  When vchiq_use_service     *)
(* fails the counter is as before.                                          *)
Use ==
    \/ /\ usecount' = usecount + 1
       /\ used' = (used \/ usecount = 0)
       /\ UNCHANGED failed
    \/ /\ "use" \in MayFail /\ usecount = 0
       /\ failed' = failed \cup {"use"}
       /\ UNCHANGED <<usecount, used>>

(* mmal_vc_release_internal, whose result is ignored as well.  When         *)
(* vchiq_release_service fails the counter is raised again.                 *)
Release ==
    \/ /\ usecount' = usecount - 1
       /\ used' = (used /\ usecount # 1)
       /\ UNCHANGED failed
    \/ /\ "release" \in MayFail /\ usecount = 1
       /\ failed' = failed \cup {"release"}
       /\ UNCHANGED <<usecount, used>>

(* mmal_vc_use and mmal_vc_release, for the time that a component exists.   *)
Hold(t) ==
    /\ pc[t] = "idle" /\ t \notin holders
    /\ Cardinality(holders) < MaxComponents
    /\ holders' = holders \cup {t}
    /\ Use
    /\ UNCHANGED <<refcount, pool, bulkLock, pc, caller, link>>

LetGo(t) ==
    /\ pc[t] = "idle" /\ t \in holders
    /\ holders' = holders \ {t}
    /\ Release
    /\ UNCHANGED <<refcount, pool, bulkLock, pc, caller, link>>

(* mmal_vc_init: the first one opens the service, which counts as a use ... *)
InitFirst(t) ==
    /\ refcount = 0 /\ refcount' = 1
    /\ Goto(t, "out", "entered")
    /\ usecount' = 1 /\ used' = TRUE
    /\ poolSem' = MaxWaiters
    /\ inuse' = [w \in Waiters |-> FALSE]
    /\ sem' = [w \in Waiters |-> 0]
    /\ UNCHANGED <<holders, failed, dest, bulkLock, caller, link>>

(* ... that is given up outside the lock; others only count themselves.     *)
InitReleases(t) ==
    /\ Goto(t, "entered", "idle")
    /\ Release
    /\ UNCHANGED <<refcount, holders, pool, bulkLock, caller, link>>

InitMore(t) ==
    /\ refcount > 0 /\ refcount' = refcount + 1
    /\ Goto(t, "out", "idle")
    /\ UNCHANGED <<service, holders, pool, bulkLock, caller, link>>

(* A service that cannot be opened or set up is closed again. *)
InitFails(t) ==
    /\ refcount = 0 /\ pc[t] = "out"
    /\ usecount' \in {usecount, 0}
    /\ UNCHANGED <<refcount, used, holders, failed, pool, bulkLock, pc, caller, link>>

(* mmal_vc_deinit: the last one closes the service, and nothing comes back  *)
(* from it any more.                                                        *)
Deinit(t) ==
    /\ Goto(t, "idle", "out") /\ t \notin holders
    /\ refcount' = refcount - 1
    /\ IF refcount = 1
       THEN /\ poolSem' = 0 /\ used' = FALSE
            /\ channel' = <<>> /\ bulks' = <<>> /\ asked' = {} /\ copied' = 0
       ELSE UNCHANGED <<poolSem, used, link>>
    /\ UNCHANGED <<usecount, holders, failed, inuse, sem, dest, bulkLock, caller>>

-----------------------------------------------------------------------------
After(k) == IF k.waits THEN "take" ELSE "send"

UnderWay == {m.call : m \in asked \cup Range(channel)} \cup Range(bulks)

(* A new call: first the bulk lock, if there is a bulk ... *)
Begin(t) ==
    /\ \E k \in Kinds, n \in Numbers :
           /\ <<t, n>> \notin UnderWay /\ \A i \in 0 .. n - 1 : <<t, i>> \in UnderWay
           /\ kind' = [kind EXCEPT ![t] = k]
           /\ number' = [number EXCEPT ![t] = n]
           /\ Goto(t, "idle", IF k.bulk THEN "lock" ELSE After(k))
    /\ UNCHANGED <<client, pool, bulkLock, waiter, answer, link>>

(* Fault: there is no bulk lock. *)
NoLockMutant(t) ==
    /\ Goto(t, "lock", After(kind[t]))
    /\ UNCHANGED <<client, pool, bulkLock, caller, link>>

LockBulk(t) ==
    /\ Goto(t, "lock", After(kind[t]))
    /\ bulkLock = None /\ bulkLock' = t
    /\ UNCHANGED <<client, pool, caller, link>>

(* ... then get_waiter: wait until one is free ... *)
TakeToken(t) ==
    /\ Goto(t, "take", "scan")
    /\ poolSem > 0 /\ poolSem' = poolSem - 1
    /\ UNCHANGED <<client, inuse, sem, dest, bulkLock, caller, link>>

(* Fault: the flag of the waiter is not set. *)
ScanUnmarkedMutant(t) ==
    \E w \in Waiters :
        /\ Goto(t, "scan", "use")
        /\ ~inuse[w] /\ \A v \in 1 .. w - 1 : inuse[v]
        /\ waiter' = [waiter EXCEPT ![t] = w]
        /\ dest' = [dest EXCEPT ![w] = t]
        /\ UNCHANGED <<inuse, client, poolSem, sem, bulkLock, kind, number, answer, link>>

(* ... and take the first; waiter->dest is where the answer shall go.  If   *)
(* none is free (vcos_verify fails), the code goes on with a null pointer:  *)
(* here the thread is stuck.                                                *)
Scan(t) ==
    \E w \in Waiters :
        /\ Goto(t, "scan", "use")
        /\ ~inuse[w] /\ \A v \in 1 .. w - 1 : inuse[v]
        /\ inuse' = [inuse EXCEPT ![w] = TRUE]
        /\ waiter' = [waiter EXCEPT ![t] = w]
        /\ dest' = [dest EXCEPT ![w] = t]
        /\ UNCHANGED <<client, poolSem, sem, bulkLock, kind, number, answer, link>>

UseService(t) ==
    /\ Goto(t, "use", "queue")
    /\ Use
    /\ UNCHANGED <<refcount, holders, pool, bulkLock, caller, link>>

Unlock(t) == bulkLock' = IF bulkLock = t THEN None ELSE bulkLock

Message(t) ==
    [call |-> Call(t), waiter |-> IF kind[t].waits THEN waiter[t] ELSE 0, bulk |-> kind[t].bulk]

(* vchiq_queue_message ...                                                  *)
QueueMessage(t) ==
    /\ \/ Continue(t, "queue", IF kind[t].bulk THEN "bulk" ELSE "wait")
       \/ kind[t].bulk /\ Continue(t, "send", "sendbulk")
       \/ ~kind[t].bulk /\ Return(t, "send")
    /\ Len(channel) < MaxMessages
    /\ channel' = Append(channel, Message(t))
    /\ UNCHANGED <<client, pool, bulkLock, bulks, asked, copied>>

(* Fault: the error path returns at once and keeps the waiter. *)
FailKeepsMutant(t) ==
    /\ Return(t, "queue") \/ Return(t, "send")
    /\ Unlock(t)
    /\ UNCHANGED <<client, pool, link>>

(* Fault: the service is not released. *)
FailUsedMutant(t) ==
    /\ Continue(t, "queue", "free") \/ Return(t, "send")
    /\ Unlock(t)
    /\ UNCHANGED <<client, pool, link>>

(* ... which may fail. *)
QueueFails(t) ==
    /\ Continue(t, "queue", "release") \/ Return(t, "send")
    /\ Unlock(t)
    /\ UNCHANGED <<client, pool, link>>

(* vchiq_queue_bulk_transmit, and the bulk lock is given up.                *)
QueueBulk(t) ==
    /\ Continue(t, "bulk", "wait") \/ Return(t, "sendbulk")
    /\ bulks' = Append(bulks, Call(t))
    /\ Unlock(t)
    /\ UNCHANGED <<client, pool, channel, asked, copied>>

(* "This really should not happen and if it does, things will go wrong":    *)
(* the bulk fails, the message is on its way, and the call ends.            *)
BulkFails(t) ==
    /\ "bulk" \in MayFail
    /\ Continue(t, "bulk", "release") \/ Return(t, "sendbulk")
    /\ failed' = failed \cup {"bulk"}
    /\ Unlock(t)
    /\ UNCHANGED <<refcount, usecount, used, holders, pool, link>>

(* The answer has come. *)
Wake(t) ==
    /\ Goto(t, "wait", "release")
    /\ sem[waiter[t]] > 0
    /\ sem' = [sem EXCEPT ![waiter[t]] = @ - 1]
    /\ UNCHANGED <<client, poolSem, inuse, dest, bulkLock, caller, link>>

ReleaseService(t) ==
    /\ Goto(t, "release", "free")
    /\ Release
    /\ UNCHANGED <<refcount, holders, pool, bulkLock, caller, link>>

(* Fault: the flag stays set. *)
StillMarkedMutant(t) ==
    /\ Goto(t, "free", "post")
    /\ UNCHANGED <<client, pool, bulkLock, caller, link>>

(* release_waiter: the flag ... *)
FreeWaiter(t) ==
    /\ Goto(t, "free", "post")
    /\ inuse' = [inuse EXCEPT ![waiter[t]] = FALSE]
    /\ UNCHANGED <<client, poolSem, sem, dest, bulkLock, caller, link>>

(* ... and the token. *)
PostToken(t) ==
    /\ Return(t, "post")
    /\ poolSem' = poolSem + 1
    /\ UNCHANGED <<client, inuse, sem, dest, bulkLock, link>>

-----------------------------------------------------------------------------
(* VideoCore takes the messages in order, each with its bulk ... *)
Receive ==
    /\ channel # <<>>
    /\ Head(channel).bulk => bulks # <<>>
    /\ channel' = Tail(channel)
    /\ bulks' = IF Head(channel).bulk THEN Tail(bulks) ELSE bulks
    /\ asked' = IF Head(channel).waiter # 0 THEN asked \cup {Head(channel)} ELSE asked
    /\ UNCHANGED <<client, pool, bulkLock, pc, caller, copied>>

(* ... and answers in any order.  The VCHIQ thread copies an answer ...     *)
CopyAnswer ==
    /\ copied = 0
    /\ \E m \in asked :
           /\ asked' = asked \ {m}
           /\ answer' = [answer EXCEPT ![dest[m.waiter]] = m.call]
           /\ copied' = m.waiter
    /\ UNCHANGED <<client, pool, bulkLock, pc, kind, waiter, number, channel, bulks>>

(* ... and wakes the thread that waits for it. *)
PostWaiter ==
    /\ copied # 0
    /\ sem' = [sem EXCEPT ![copied] = @ + 1]
    /\ copied' = 0
    /\ UNCHANGED <<client, poolSem, inuse, dest, bulkLock, pc, caller, channel, bulks, asked>>

Enter(t) ==
    \/ InitFirst(t) \/ InitFails(t) \/ InitMore(t) \/ Deinit(t)
    \/ Hold(t) \/ LetGo(t) \/ Begin(t)

Step(t) ==
    \/ InitReleases(t) \/ LockBulk(t) \/ TakeToken(t) \/ Scan(t)
    \/ UseService(t) \/ QueueMessage(t) \/ QueueBulk(t)
    \/ Wake(t) \/ ReleaseService(t) \/ FreeWaiter(t) \/ PostToken(t)

Fail(t) == QueueFails(t) \/ BulkFails(t)

VideoCore == Receive \/ CopyAnswer \/ PostWaiter

Next == (\E t \in Threads : Enter(t) \/ Step(t) \/ Fail(t)) \/ VideoCore

Spec == Init /\ [][Next]_vars

(* Threads in a call go on, and get the locks and tokens they wait for if   *)
(* these are free again and again; VideoCore answers every message.         *)
(* Nothing has to fail.                                                     *)
Fairness ==
    /\ \A t \in Threads : SF_vars(Step(t))
    /\ WF_vars(Receive) /\ WF_vars(PostWaiter) /\ SF_vars(CopyAnswer)

FairSpec == Spec /\ Fairness

Symmetry == Permutations(Threads)

-----------------------------------------------------------------------------
(* Every caller gets the answer to its own message, although waiters are    *)
(* reused at once, in any order, and the VCHIQ thread writes to the memory  *)
(* a waiter points to (mmal_vc_client.c:429 against 557-562 and 171).  When *)
(* a bulk transfer has failed this is no longer true: a message whose       *)
(* waiter was given back is answered.                                       *)
AnswerFits ==
    \A t \in Threads : pc[t] = "wait" /\ pc'[t] = "release" => answer'[t] = Call(t)
AnswerIsOwn == [][AnswerFits \/ "bulk" \in failed]_vars

(* VideoCore never pairs a message with the bulk transfer of another one:   *)
(* the two are queued one after the other, by several threads, on two       *)
(* channels (mmal_vc_client.c:547-586 and 637-664).  It does when a bulk    *)
(* transfer has failed, whose message was queued already (579-580).         *)
BulkIsOwn ==
    channel # <<>> /\ bulks # <<>> /\ Head(channel).bulk /\ "bulk" \notin failed =>
        Head(bulks) = Head(channel).call

(* The service is used as long as a call or a component needs it and no     *)
(* longer, on every path through use, release, failure and initialisation   *)
(* (mmal_vc_client.c:276-306, 555, 595, 603, 680-694 and 738-773).  After   *)
(* vchiq_use_service has failed it may be missing when it is needed, since  *)
(* the release that follows still counts; after vchiq_release_service has   *)
(* failed it may stay in use: neither does what the other one does.         *)
Needed == \E t \in Threads : t \in holders \/ pc[t] \in InUse \cup {"entered"}

UsedWhileNeeded ==
    /\ "use" \notin failed => (Needed => used)
    /\ "release" \notin failed => (used => Needed)

(* get_waiter finds a free waiter when the semaphore says so: the           *)
(* vcos_verify at mmal_vc_client.c:153 holds, although release_waiter gives *)
(* flag and token back one after the other and without the lock.            *)
WaiterFound == \A t \in Threads : pc[t] = "scan" => \E w \in Waiters : ~inuse[w]

(* bulk_lock is given back on every path, whatever fails: who holds it is   *)
(* still about to send its bulk (mmal_vc_client.c:547-605 and 637-674).     *)
BulkLockReturned ==
    \A t \in Threads : bulkLock = t =>
        /\ kind[t].bulk
        /\ pc[t] \in {"take", "scan", "use", "queue", "bulk", "send", "sendbulk"}

(* Every call returns, if VideoCore answers, without the help of a failure: *)
(* a thread that waits for a waiter while it holds bulk_lock gets one.  Only *)
(* a bulk transfer that failed may block all that follow.                   *)
CallsReturn ==
    \A t \in Threads : (pc[t] # "idle") ~> (pc[t] \in {"idle", "out"} \/ "bulk" \in failed)
=============================================================================
