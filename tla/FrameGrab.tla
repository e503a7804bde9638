------------------------------ MODULE FrameGrab -----------------------------
(***************************************************************************)
(* raspicam::Private_Impl: how one camera frame gets from MMAL to a caller *)
(* of grab() and retrieve(), and how the camera is opened and released.    *)
(*                                                                         *)
(* Two threads: the one that calls the methods (`main') and the one that   *)
(* runs MMAL's callbacks.  A callback holds PORT_USERDATA::_mutex until it *)
(* returns; grab() holds it while it does not wait; retrieve() and         *)
(* release() run without it.  MMAL runs one callback at a time.            *)
(*                                                                         *)
(* A buffer header is in the pool's queue, at the camera port, in a        *)
(* thread's hands, or lost.  Nothing tells two headers apart, so the model *)
(* counts them.  Frames are numbered, modulo NumFrames, as their callbacks *)
(* begin.                                                                  *)
(***************************************************************************)
EXTENDS Integers

CONSTANTS
    NumBuffers,          \* buffer headers of the video port's pool
    NumFrames            \* frames are numbered modulo NumFrames

ASSUME GrabAssumption ==
    /\ NumBuffers \in Nat \ {0}
    /\ NumFrames \in Nat \ {0, 1}

VARIABLES
    main,                \* where the calling thread is
    toSend,              \* buffers startCapture still has to send
    pool, port,          \* number of buffers in the queue and at the port
    transit,             \* MMAL's count of buffers the client has sent
    enabled,             \* port->is_enabled
    callback,            \* where MMAL's callback is
    hasGrabbed,          \* its local variable
    wantToGrab, ready,   \* the caller waits; ThreadCondition::ready
    buffData,            \* _buffData: the frame copied last
    image,               \* the caller's image: the frame of each half of it
    arrived,             \* history: the frame that arrived last
    asked                \* history: `arrived' when grab was called last

buffers == <<pool, port, transit, enabled>>
request == <<wantToGrab, ready, asked>>
frames  == <<buffData, image, arrived>>
vars    == <<main, toSend, buffers, callback, hasGrabbed, request, frames>>

Frames  == 0 .. NumFrames - 1
NoFrame == -1
Succ(f) == IF f = NumFrames - 1 THEN 0 ELSE f + 1

MainStates ==
    {"closed", "opened", "sending", "holding", "crashed", "ready", "waiting",
     "grabbed", "copying", "disabling", "reopened", "retrying", "draining",
     "released", "abandoned", "corrupt"}

(* The pool and the port are destroyed although the port is open. *)
Abandoned == main \in {"abandoned", "corrupt"}

TypeOK ==
    /\ main \in MainStates
    /\ toSend \in 0 .. NumBuffers
    /\ pool \in 0 .. NumBuffers
    /\ port \in 0 .. NumBuffers
    /\ transit \in 0 .. NumBuffers + 1
    /\ enabled \in BOOLEAN
    /\ callback \in {"idle", "copied", "released", "sending", "sent"}
    /\ hasGrabbed \in BOOLEAN
    /\ wantToGrab \in BOOLEAN /\ ready \in BOOLEAN
    /\ buffData \in Frames \cup {NoFrame}
    /\ image \in [{1, 2} -> Frames \cup {NoFrame}]
    /\ arrived \in Frames
    /\ asked \in Frames

Init ==
    /\ main = "closed"
    /\ toSend = 0
    /\ pool = 0 /\ port = 0 /\ transit = 0
    /\ enabled = FALSE
    /\ callback = "idle"
    /\ hasGrabbed = FALSE
    /\ wantToGrab = FALSE /\ ready = FALSE
    /\ buffData = NoFrame
    /\ image = [half \in {1, 2} |-> NoFrame]
    /\ arrived = 0 /\ asked = 0

-----------------------------------------------------------------------------
(* create_camera_component: the port is enabled and its pool is created.    *)
CreateComponent ==
    /\ enabled' = TRUE
    /\ pool' = NumBuffers
    /\ UNCHANGED <<port, transit>>

(* open.  (When the component cannot be created nothing is left of it.)     *)
Open ==
    /\ main = "closed"
    /\ main' = "opened"
    /\ CreateComponent
    /\ UNCHANGED <<toSend, callback, hasGrabbed, request, frames>>

(* startCapture: num = mmal_queue_length(...) *)
StartCapture ==
    /\ main = "opened"
    /\ main' = "sending"
    /\ toSend' = pool
    /\ UNCHANGED <<buffers, callback, hasGrabbed, request, frames>>

(* The camera refuses to capture: startCapture releases it. *)
CaptureFails ==
    /\ main = "opened"
    /\ main' = "disabling"
    /\ enabled' = FALSE
    /\ UNCHANGED <<toSend, pool, port, transit, callback, hasGrabbed, request, frames>>

(* mmal_queue_get.  A missing buffer is reported and then dereferenced. *)
GetBuffer ==
    /\ main = "sending" /\ toSend > 0
    /\ toSend' = toSend - 1
    /\ IF pool > 0
       THEN main' = "holding" /\ pool' = pool - 1
       ELSE main' = "crashed" /\ pool' = pool
    /\ UNCHANGED <<port, transit, enabled, callback, hasGrabbed, request, frames>>

(* mmal_port_send_buffer: the port must be enabled, and MMAL counts it. *)
Send ==
    /\ enabled
    /\ port' = port + 1
    /\ transit' = transit + 1
    /\ UNCHANGED <<pool, enabled>>

(* A closed port refuses a buffer, and an open one may.  The caller reports *)
(* it, and the buffer belongs to nobody from then on.                       *)
SendFails == UNCHANGED buffers

SendBuffer ==
    /\ main = "holding"
    /\ main' = "sending"
    /\ Send \/ SendFails
    /\ UNCHANGED <<toSend, callback, hasGrabbed, request, frames>>

Capturing ==
    /\ main = "sending" /\ toSend = 0
    /\ main' = "ready"
    /\ UNCHANGED <<toSend, buffers, callback, hasGrabbed, request, frames>>

-----------------------------------------------------------------------------
(* Fault: `ready' is still set from the frame before. *)
GrabStaleMutant ==
    /\ main = "ready" /\ callback = "idle"
    /\ main' = "waiting"
    /\ wantToGrab' = TRUE
    /\ asked' = arrived
    /\ UNCHANGED <<ready, toSend, buffers, callback, hasGrabbed, frames>>

(* grab: under the mutex, ask for a frame and start to wait. *)
Grab ==
    /\ main = "ready" /\ callback = "idle"
    /\ main' = "waiting"
    /\ wantToGrab' = TRUE
    /\ ready' = FALSE
    /\ asked' = arrived
    /\ UNCHANGED <<toSend, buffers, callback, hasGrabbed, frames>>

(* while (!ready) cv.wait(lck): the mutex is held again when it returns. *)
Wake ==
    /\ main = "waiting" /\ callback = "idle"
    /\ ready
    /\ main' = "grabbed"
    /\ UNCHANGED <<toSend, buffers, callback, hasGrabbed, request, frames>>

(* retrieve: a memcpy without the mutex, so that the frame could change     *)
(* between its first and its last byte.                                     *)
Retrieve ==
    /\ main = "grabbed"
    /\ IF buffData = NoFrame
       THEN main' = "ready" /\ UNCHANGED image
       ELSE main' = "copying" /\ image' = [image EXCEPT ![1] = buffData]
    /\ UNCHANGED <<toSend, buffers, callback, hasGrabbed, request, buffData, arrived>>

RetrieveRest ==
    /\ main = "copying"
    /\ main' = "ready"
    /\ image' = [image EXCEPT ![2] = buffData]
    /\ UNCHANGED <<toSend, buffers, callback, hasGrabbed, request, buffData, arrived>>

(* Fault: the port stays enabled. *)
ReleaseEnabledMutant ==
    /\ main = "ready"
    /\ main' = "disabling"
    /\ UNCHANGED <<toSend, buffers, callback, hasGrabbed, request, frames>>

(* release: mmal_port_disable closes the port and asks the module behind it *)
(* to disable it.                                                           *)
Release ==
    /\ main = "ready"
    /\ main' = "disabling"
    /\ enabled' = FALSE
    /\ UNCHANGED <<toSend, pool, port, transit, callback, hasGrabbed, request, frames>>

(* When the module has done so, the buffers under way are waited for.       *)
PortDown ==
    /\ main \in {"disabling", "retrying"}
    /\ main' = "draining"
    /\ UNCHANGED <<toSend, buffers, callback, hasGrabbed, request, frames>>

(* When it fails, the port is open again, and release does not look at the  *)
(* status ...                                                               *)
DisableFails ==
    /\ main = "disabling"
    /\ main' = "reopened"
    /\ enabled' = TRUE
    /\ UNCHANGED <<toSend, pool, port, transit, callback, hasGrabbed, request, frames>>

(* ... but mmal_port_pool_destroy finds it open and tries once more.        *)
DisableAgain ==
    /\ main = "reopened"
    /\ main' = "retrying"
    /\ enabled' = FALSE
    /\ UNCHANGED <<toSend, pool, port, transit, callback, hasGrabbed, request, frames>>

(* When that fails too, the pool goes, whatever is under way.               *)
Abandon ==
    /\ main = "retrying"
    /\ main' = "abandoned"
    /\ enabled' = TRUE
    /\ pool' = 0
    /\ UNCHANGED <<toSend, port, transit, callback, hasGrabbed, request, frames>>

(* Fault: the pool is destroyed with buffers under way. *)
DestroyEarlyMutant ==
    /\ main = "draining"
    /\ main' = "released"
    /\ pool' = 0
    /\ UNCHANGED <<toSend, port, transit, enabled, callback, hasGrabbed, request, frames>>

(* All buffers have come back; then the pool is destroyed. *)
Destroy ==
    /\ main = "draining"
    /\ transit = 0
    /\ main' = "released"
    /\ pool' = 0
    /\ UNCHANGED <<toSend, port, transit, enabled, callback, hasGrabbed, request, frames>>

(* A callback that is running, or comes, uses a pool that is gone: what     *)
(* happens then is undefined, and nothing further is modelled.              *)
UseDestroyed ==
    /\ main = "abandoned" /\ (callback # "idle" \/ port > 0)
    /\ main' = "corrupt"
    /\ UNCHANGED <<toSend, buffers, callback, hasGrabbed, request, frames>>

-----------------------------------------------------------------------------
(* Fault: the request stays, so that the next frame is copied as well. *)
KeepRequestMutant ==
    /\ hasGrabbed' = wantToGrab
    /\ wantToGrab' = wantToGrab
    /\ buffData' = IF wantToGrab THEN arrived' ELSE buffData

(* video_buffer_callback.  The camera returns a buffer with the next frame. *)
Copy ==
    /\ hasGrabbed' = wantToGrab
    /\ wantToGrab' = FALSE
    /\ buffData' = IF wantToGrab THEN arrived' ELSE buffData

FrameArrives ==
    /\ callback = "idle" /\ port > 0
    /\ callback' = "copied"
    /\ port' = port - 1
    /\ arrived' = Succ(arrived)
    /\ Copy
    /\ UNCHANGED <<main, toSend, pool, transit, enabled, ready, asked, image>>

(* A buffer comes back with nothing in it, as all do when the port goes down. *)
EmptyArrives ==
    /\ callback = "idle" /\ port > 0
    /\ callback' = "copied"
    /\ port' = port - 1
    /\ hasGrabbed' = FALSE
    /\ UNCHANGED <<main, toSend, pool, transit, enabled, request, frames>>

(* Fault: the buffer does not return to the pool. *)
KeepBufferMutant ==
    /\ callback = "copied"
    /\ callback' = "released"
    /\ UNCHANGED <<main, toSend, buffers, hasGrabbed, request, frames>>

(* mmal_buffer_header_release *)
ReleaseBuffer ==
    /\ callback = "copied"
    /\ callback' = "released"
    /\ pool' = pool + 1
    /\ UNCHANGED <<main, toSend, port, transit, enabled, hasGrabbed, request, frames>>

(* "send one back to the port (if still open)": take it from the queue ...  *)
TakeBuffer ==
    /\ callback = "released"
    /\ IF enabled /\ pool > 0
       THEN callback' = "sending" /\ pool' = pool - 1
       ELSE callback' = "sent" /\ pool' = pool
    /\ UNCHANGED <<main, toSend, port, transit, enabled, hasGrabbed, request, frames>>

(* ... and send it: meanwhile release may have closed the port. *)
SendBack ==
    /\ callback = "sending"
    /\ callback' = "sent"
    /\ Send \/ SendFails
    /\ UNCHANGED <<main, toSend, hasGrabbed, request, frames>>

(* Fault: the caller that waits is not woken. *)
ReturnSilentMutant ==
    /\ callback = "sent"
    /\ callback' = "idle"
    /\ transit' = transit - 1
    /\ UNCHANGED <<ready, main, toSend, pool, port, enabled, hasGrabbed, wantToGrab, asked, frames>>

(* BroadCast; the callback returns, and MMAL counts its buffer as back. *)
Return ==
    /\ callback = "sent"
    /\ callback' = "idle"
    /\ ready' = (ready \/ hasGrabbed)
    /\ transit' = transit - 1
    /\ UNCHANGED <<main, toSend, pool, port, enabled, hasGrabbed, wantToGrab, asked, frames>>

Starting == Open \/ StartCapture \/ CaptureFails \/ GetBuffer \/ SendBuffer \/ Capturing

Grabbing == Grab \/ Wake \/ Retrieve \/ RetrieveRest

Disabling == PortDown \/ DisableFails \/ DisableAgain \/ Abandon

Closing == Release \/ Disabling \/ Destroy

Arrival == ~Abandoned /\ (FrameArrives \/ EmptyArrives)

Callback == ~Abandoned /\ (ReleaseBuffer \/ TakeBuffer \/ SendBack \/ Return)

Next == Starting \/ Grabbing \/ Closing \/ Arrival \/ Callback \/ UseDestroyed

Spec == Init /\ [][Next]_vars

(* MMAL gives every buffer back, and now and then one with a frame in it; a *)
(* callback and a method that has begun go on, a woken thread gets the      *)
(* mutex (callbacks are milliseconds apart), a port that is disabled is     *)
(* disabled or not.  Nobody has to call grab or release.                    *)
Fairness ==
    /\ WF_vars(Arrival) /\ SF_vars(~Abandoned /\ FrameArrives)
    /\ WF_vars(Callback)
    /\ WF_vars(Starting \/ Retrieve \/ RetrieveRest \/ Disabling \/ Destroy)
    /\ SF_vars(Wake)

FairSpec == Spec /\ Fairness

-----------------------------------------------------------------------------
(* private_impl.h:105, "grabs the next frame": what grab leaves in          *)
(* _buffData is the first frame that arrived after the call, however late   *)
(* the caller wakes: neither one from before the call nor a later one.      *)
NextFrame == main \in {"grabbed", "copying"} => buffData = Succ(asked)

(* retrieve copies without the mutex (private_impl.cpp:182), and still a    *)
(* caller never gets an image put together from two frames.                 *)
WholeFrame == main # "copying" => image[1] = image[2]

(* Neither startCapture nor the callback finds the queue empty when it      *)
(* takes a buffer (private_impl.cpp:134 and 538), although both take from   *)
(* it: the error paths behind them, one of which dereferences a null        *)
(* pointer, are dead as long as there is a queue.                           *)
QueueNeverEmpty ==
    /\ main = "sending" /\ toSend > 0 => pool > 0
    /\ callback = "released" /\ enabled /\ ~Abandoned => pool > 0

(* When release has destroyed the pool after the port was disabled, at the  *)
(* first or at the second try, no callback is running that could use it,    *)
(* and none will come (private_impl.cpp:150-160 and mmal_util.c:228-234     *)
(* against private_impl.cpp:533-541).  When both tries failed the code      *)
(* promises nothing.                                                        *)
QuietWhenReleased == main = "released" => callback = "idle" /\ port = 0

(* The wake-up of a waiting grab is not lost, although the callback clears  *)
(* the request when it copies and signals only after it has sent the buffer *)
(* back (private_impl.cpp:525 and 549, threadcondition.cpp:57-66): a        *)
(* caller without an open request has been signalled, or will be by the     *)
(* callback that is running.                                                *)
NoLostWakeup ==
    main = "waiting" => wantToGrab \/ ready \/ (callback # "idle" /\ hasGrabbed)

(* While a port is being disabled the buffers under way become fewer, and   *)
(* release waits for no buffer that is not: although callbacks that found   *)
(* the port open go on to send, none succeeds, and a send that failed is    *)
(* not waited for (mmal_port.c:652-698 against private_impl.cpp:535-544).   *)
GoingDown == main \in {"disabling", "retrying", "draining"}

ReleaseDrains ==
    [][GoingDown =>
          /\ transit' <= transit
          /\ transit > 0 => port > 0 \/ callback # "idle"]_vars

(* grab blocks until the next frame arrives (private_impl.h:105), and not   *)
(* for ever, unless so many sends failed that MMAL has no buffer left.      *)
GrabReturns == (main = "waiting") ~> (main = "grabbed" \/ transit = 0)

(* release returns, although callbacks keep sending buffers to the port it  *)
(* waits for, and open again between its two tries to close it.             *)
ReleaseReturns == (main = "disabling") ~> (main \in {"released", "abandoned"})
=============================================================================
