--------------------------- MODULE FrameGrab_proofs -------------------------
(***************************************************************************)
(* Proofs about FrameGrab: for every number of buffers, and whichever      *)
(* sends fail, grab and retrieve yield the next frame, whole; the pool's   *)
(* queue is never found empty; and release leaves no callback behind.      *)
(***************************************************************************)
EXTENDS FrameGrab, TLAPS

(* MMAL has counted exactly the buffers at the port and the callback's.     *)
Counted == transit = port + (IF callback = "idle" THEN 0 ELSE 1)

(* The queue holds what startCapture still wants, and one more while a      *)
(* callback that has released its buffer did not take another.              *)
Owed == toSend + (IF callback = "released" THEN 1 ELSE 0)

PoolCovers ==
    /\ main \notin {"sending", "holding"} => toSend = 0
    /\ main \notin {"closed", "released", "abandoned", "corrupt"} => Owed <= pool
    /\ main # "crashed"

(* No header exists twice. *)
Circulating ==
    pool + port + (IF main = "holding" THEN 1 ELSE 0)
                + (IF callback \in {"copied", "sending"} THEN 1 ELSE 0) <= NumBuffers

AtRest ==
    /\ main = "closed" => pool = 0
    /\ main \in {"closed", "opened", "released"} => transit = 0

BufferInv == TypeOK /\ Counted /\ PoolCovers /\ Circulating /\ AtRest

(* While the caller waits, either its request stands, and no frame arrived, *)
(* or the frame is there and the caller is, or will be, woken.              *)
Requested ==
    wantToGrab /\ ~ready /\ arrived = asked /\ (callback # "idle" => ~hasGrabbed)

Answered ==
    ~wantToGrab /\ buffData = Succ(asked) /\ (ready \/ (callback # "idle" /\ hasGrabbed))

GrabInv ==
    /\ TypeOK
    /\ main = "waiting" => Requested \/ Answered
    /\ main # "waiting" => ~wantToGrab
    /\ main = "copying" => image[1] = buffData
    /\ NextFrame
    /\ WholeFrame

-----------------------------------------------------------------------------
(* Numbering wraps around within Frames. *)
LEMMA SuccType == \A f \in Frames : Succ(f) \in Frames
  BY GrabAssumption DEF Frames, Succ

(* Everything starts closed, with no buffer and no frame. *)
LEMMA InitBuffers == Init => BufferInv
  <1> SUFFICES ASSUME Init PROVE BufferInv
    OBVIOUS
  <1>1. /\ enabled \in BOOLEAN /\ hasGrabbed \in BOOLEAN
        /\ wantToGrab \in BOOLEAN /\ ready \in BOOLEAN
    BY Zenon DEF Init
  <1>2. /\ main = "closed" /\ callback = "idle"
        /\ toSend = 0 /\ pool = 0 /\ port = 0 /\ transit = 0
    BY DEF Init
  <1>3. /\ buffData \in Frames \cup {NoFrame} /\ arrived \in Frames /\ asked \in Frames
        /\ image \in [{1, 2} -> Frames \cup {NoFrame}]
    BY GrabAssumption DEF Init, Frames
  <1> QED
    BY <1>1, <1>2, <1>3, GrabAssumption
    DEF BufferInv, TypeOK, MainStates, Counted, PoolCovers, Owed, Circulating, AtRest

(* No step loses count of a buffer. *)
LEMMA StepBuffers == BufferInv /\ [Next]_vars => BufferInv'
  <1> SUFFICES ASSUME BufferInv, [Next]_vars PROVE BufferInv'
    OBVIOUS
  <1> USE GrabAssumption, SuccType
      DEF BufferInv, TypeOK, MainStates, Counted, PoolCovers, Owed, Circulating,
          AtRest, Abandoned, NoFrame, buffers, request, frames
  <1>1. CASE Open
    BY <1>1, SMTT(30) DEF Open, CreateComponent
  <1>2. CASE StartCapture
    BY <1>2, SMTT(30) DEF StartCapture
  <1>3. CASE CaptureFails
    <2>1. enabled' \in BOOLEAN
      BY <1>3, Zenon DEF CaptureFails, BufferInv, TypeOK
    <2>2. /\ main = "opened" /\ main' = "disabling"
          /\ UNCHANGED <<toSend, pool, port, transit, callback, hasGrabbed, request, frames>>
      BY <1>3 DEF CaptureFails
    <2> QED
      BY <2>1, <2>2
  <1>4. CASE GetBuffer
    BY <1>4, SMTT(30) DEF GetBuffer
  <1>5. CASE SendBuffer
    BY <1>5, SMTT(30) DEF SendBuffer, Send, SendFails
  <1>6. CASE Capturing
    BY <1>6, SMTT(30) DEF Capturing
  <1>7. CASE Grab
    <2>1. wantToGrab' \in BOOLEAN /\ ready' \in BOOLEAN
      BY <1>7, Zenon DEF Grab, BufferInv, TypeOK
    <2>2. /\ main = "ready" /\ main' = "waiting" /\ asked' = arrived
          /\ UNCHANGED <<toSend, buffers, callback, hasGrabbed, frames>>
      BY <1>7 DEF Grab
    <2> QED
      BY <2>1, <2>2
  <1>8. CASE Wake
    BY <1>8, SMTT(30) DEF Wake
  <1>9. CASE Retrieve
    BY <1>9, SMTT(30) DEF Retrieve
  <1>10. CASE RetrieveRest
    BY <1>10, SMTT(30) DEF RetrieveRest
  <1>11. CASE Release
    <2>1. enabled' \in BOOLEAN
      BY <1>11, Zenon DEF Release, BufferInv, TypeOK
    <2>2. /\ main = "ready" /\ main' = "disabling"
          /\ UNCHANGED <<toSend, pool, port, transit, callback, hasGrabbed, request, frames>>
      BY <1>11 DEF Release
    <2> QED
      BY <2>1, <2>2
  <1>12. CASE Destroy
    BY <1>12, SMTT(30) DEF Destroy
  <1>13. CASE FrameArrives
    <2>1. hasGrabbed' \in BOOLEAN /\ wantToGrab' \in BOOLEAN
      BY <1>13, Zenon DEF FrameArrives, Copy, BufferInv, TypeOK
    <2>2. /\ callback = "idle" /\ port > 0 /\ callback' = "copied" /\ port' = port - 1
          /\ arrived' = Succ(arrived) /\ buffData' \in {arrived', buffData}
          /\ UNCHANGED <<main, toSend, pool, transit, enabled, ready, asked, image>>
      BY <1>13 DEF FrameArrives, Copy
    <2> QED
      BY <2>1, <2>2
  <1>14. CASE EmptyArrives
    <2>1. hasGrabbed' \in BOOLEAN
      BY <1>14, Zenon DEF EmptyArrives, BufferInv, TypeOK
    <2>2. /\ callback = "idle" /\ port > 0 /\ callback' = "copied" /\ port' = port - 1
          /\ UNCHANGED <<main, toSend, pool, transit, enabled, request, frames>>
      BY <1>14 DEF EmptyArrives
    <2> QED
      BY <2>1, <2>2
  <1>15. CASE ReleaseBuffer
    BY <1>15, SMTT(30) DEF ReleaseBuffer
  <1>16. CASE TakeBuffer
    BY <1>16, SMTT(30) DEF TakeBuffer
  <1>17. CASE SendBack
    BY <1>17, SMTT(30) DEF SendBack, Send, SendFails
  <1>18. CASE Return
    BY <1>18, SMTT(30) DEF Return
  <1>19. CASE PortDown
    BY <1>19, SMTT(30) DEF PortDown
  <1>20. CASE DisableFails
    <2>1. enabled' \in BOOLEAN
      BY <1>20, Zenon DEF DisableFails, BufferInv, TypeOK
    <2>2. /\ main \in {"disabling", "reopened", "retrying"}
          /\ main' \in {"reopened", "retrying"}
          /\ UNCHANGED <<toSend, pool, port, transit, callback, hasGrabbed, request, frames>>
      BY <1>20 DEF DisableFails
    <2> QED
      BY <2>1, <2>2
  <1>21. CASE DisableAgain
    <2>1. enabled' \in BOOLEAN
      BY <1>21, Zenon DEF DisableAgain, BufferInv, TypeOK
    <2>2. /\ main \in {"disabling", "reopened", "retrying"}
          /\ main' \in {"reopened", "retrying"}
          /\ UNCHANGED <<toSend, pool, port, transit, callback, hasGrabbed, request, frames>>
      BY <1>21 DEF DisableAgain
    <2> QED
      BY <2>1, <2>2
  <1>22. CASE Abandon
    <2>1. enabled' \in BOOLEAN
      BY <1>22, Zenon DEF Abandon, BufferInv, TypeOK
    <2>2. /\ main = "retrying" /\ main' = "abandoned" /\ pool' = 0
          /\ UNCHANGED <<toSend, port, transit, callback, hasGrabbed, request, frames>>
      BY <1>22 DEF Abandon
    <2> QED
      BY <2>1, <2>2
  <1>23. CASE UseDestroyed
    BY <1>23, SMTT(30) DEF UseDestroyed
  <1>24. CASE UNCHANGED vars
    BY <1>24 DEF vars
  <1> QED
    BY <1>1, <1>2, <1>3, <1>4, <1>5, <1>6, <1>7, <1>8, <1>9, <1>10, <1>11, <1>12,
       <1>13, <1>14, <1>15, <1>16, <1>17, <1>18, <1>19, <1>20, <1>21, <1>22,
       <1>23, <1>24
    DEF Next, Starting, Grabbing, Closing, Disabling, Arrival, Callback

(* The protocol of wantToGrab and ready starts without a request. *)
LEMMA InitGrab == Init => GrabInv
  BY InitBuffers DEF Init, BufferInv, GrabInv, NextFrame, WholeFrame

(* No step loses a request, or answers it with another frame. *)
LEMMA StepGrab == GrabInv /\ BufferInv /\ BufferInv' /\ [Next]_vars => GrabInv'
  <1> SUFFICES ASSUME GrabInv, BufferInv, BufferInv', [Next]_vars PROVE GrabInv'
    OBVIOUS
  <1> USE DEF BufferInv, GrabInv, TypeOK, Requested, Answered, NextFrame, WholeFrame,
              buffers, request, frames
  <1>1. CASE Open
    BY <1>1, SMTT(30) DEF Open, CreateComponent
  <1>2. CASE StartCapture
    BY <1>2, SMTT(30) DEF StartCapture
  <1>3. CASE CaptureFails
    BY <1>3, SMTT(30) DEF CaptureFails
  <1>4. CASE GetBuffer
    BY <1>4, SMTT(30) DEF GetBuffer
  <1>5. CASE SendBuffer
    BY <1>5, SMTT(30) DEF SendBuffer, Send, SendFails
  <1>6. CASE Capturing
    BY <1>6, SMTT(30) DEF Capturing
  <1>7. CASE Grab
    BY <1>7, SMTT(30) DEF Grab
  <1>8. CASE Wake
    BY <1>8, SMTT(30) DEF Wake
  <1>9. CASE Retrieve
    BY <1>9, SMTT(30) DEF Retrieve
  <1>10. CASE RetrieveRest
    BY <1>10, SMTT(30) DEF RetrieveRest
  <1>11. CASE Release
    BY <1>11, SMTT(30) DEF Release
  <1>12. CASE Destroy
    BY <1>12, SMTT(30) DEF Destroy
  <1>13. CASE FrameArrives
    BY <1>13, SMTT(30) DEF FrameArrives, Copy
  <1>14. CASE EmptyArrives
    BY <1>14, SMTT(30) DEF EmptyArrives
  <1>15. CASE ReleaseBuffer
    BY <1>15, SMTT(30) DEF ReleaseBuffer
  <1>16. CASE TakeBuffer
    BY <1>16, SMTT(30) DEF TakeBuffer
  <1>17. CASE SendBack
    BY <1>17, SMTT(30) DEF SendBack, Send, SendFails
  <1>18. CASE Return
    BY <1>18, SMTT(30) DEF Return
  <1>19. CASE PortDown
    BY <1>19, SMTT(30) DEF PortDown
  <1>20. CASE DisableFails
    BY <1>20, SMTT(30) DEF DisableFails
  <1>21. CASE DisableAgain
    BY <1>21, SMTT(30) DEF DisableAgain
  <1>22. CASE Abandon
    BY <1>22, SMTT(30) DEF Abandon
  <1>23. CASE UseDestroyed
    BY <1>23, SMTT(30) DEF UseDestroyed
  <1>24. CASE UNCHANGED vars
    BY <1>24 DEF vars
  <1> QED
    BY <1>1, <1>2, <1>3, <1>4, <1>5, <1>6, <1>7, <1>8, <1>9, <1>10, <1>11, <1>12,
       <1>13, <1>14, <1>15, <1>16, <1>17, <1>18, <1>19, <1>20, <1>21, <1>22,
       <1>23, <1>24
    DEF Next, Starting, Grabbing, Closing, Disabling, Arrival, Callback

-----------------------------------------------------------------------------
(* Both invariants hold in every reachable state. *)
LEMMA Invariants == Spec => [](BufferInv /\ GrabInv)
  <1>1. Init => BufferInv /\ GrabInv
    BY InitBuffers, InitGrab
  <1>2. BufferInv /\ GrabInv /\ [Next]_vars => (BufferInv /\ GrabInv)'
    BY StepBuffers, StepGrab
  <1> QED
    BY <1>1, <1>2, PTL DEF Spec

(* Every variable of the capture protocol keeps its type: in particular no  *)
(* count of buffers goes below zero or above the size of the pool.          *)
THEOREM GrabTypes == Spec => []TypeOK
  <1>1. BufferInv => TypeOK
    BY DEF BufferInv
  <1> QED
    BY <1>1, Invariants, PTL

(* grab leaves in _buffData the first frame that arrived after the call.    *)
THEOREM GrabsNext == Spec => []NextFrame
  <1>1. GrabInv => NextFrame
    BY DEF GrabInv
  <1> QED
    BY <1>1, Invariants, PTL

(* A waiting grab still has its request, or its signal has come or is on    *)
(* its way: the safety half of GrabReturns, for every pool size.            *)
THEOREM WakeupComes == Spec => []NoLostWakeup
  <1>1. GrabInv => NoLostWakeup
    BY DEF GrabInv, Requested, Answered, NoLostWakeup
  <1> QED
    BY <1>1, Invariants, PTL

(* retrieve, which takes no lock, never returns halves of two frames.       *)
THEOREM NeverTorn == Spec => []WholeFrame
  <1>1. GrabInv => WholeFrame
    BY DEF GrabInv
  <1> QED
    BY <1>1, Invariants, PTL

(* Neither thread takes a buffer from an empty queue while there is one,    *)
(* even when sends fail.                                                    *)
THEOREM QueueSuffices == Spec => []QueueNeverEmpty
  <1>1. BufferInv => QueueNeverEmpty
    BY DEF BufferInv, TypeOK, PoolCovers, Owed, AtRest, Counted, QueueNeverEmpty, Abandoned
  <1> QED
    BY <1>1, Invariants, PTL

(* While the port is being disabled the buffers under way only become       *)
(* fewer: the safety half of ReleaseReturns.                                *)
THEOREM ReleaseGetsOn == Spec => ReleaseDrains
  <1> DEFINE Shut == GoingDown \/ main \in {"closed", "released"} => ~enabled
  <1>1. Init => Shut
    BY DEF Init, GoingDown
  <1>2. BufferInv /\ Shut /\ [Next]_vars => Shut'
    BY DEF GoingDown, Next, Starting, Grabbing, Closing, Disabling, Arrival, Callback, Open,
       CreateComponent, StartCapture, CaptureFails, GetBuffer, SendBuffer, Send, SendFails,
       Capturing, Grab, Wake, Retrieve, RetrieveRest, Release, PortDown, DisableFails,
       DisableAgain, Abandon, Destroy, UseDestroyed, FrameArrives, EmptyArrives, ReleaseBuffer,
       TakeBuffer, SendBack, Return, vars, buffers, BufferInv, PoolCovers
  <1>3. ASSUME BufferInv, Shut, Next, GoingDown
        PROVE  transit' <= transit /\ (transit > 0 => port > 0 \/ callback # "idle")
    <2>1. transit \in Nat /\ port \in Nat /\ ~enabled
      BY <1>3 DEF BufferInv, TypeOK
    <2>2. transit > 0 => port > 0 \/ callback # "idle"
      BY <1>3, <2>1 DEF BufferInv, Counted
    <2>3. transit' \in {transit, transit - 1}
      BY <1>3, <2>1 DEF GoingDown, Next, Starting, Grabbing, Closing, Disabling, Arrival, Callback,
         Open, StartCapture, CaptureFails, GetBuffer, SendBuffer, Send, SendFails, Capturing,
         Grab, Wake, Retrieve, RetrieveRest, Release, PortDown, DisableFails, DisableAgain,
         Abandon, Destroy, UseDestroyed, FrameArrives, EmptyArrives, ReleaseBuffer, TakeBuffer,
         SendBack, Return, buffers
    <2> QED
      BY <2>1, <2>2, <2>3
  <1>4. BufferInv /\ Shut /\ [Next]_vars
            => [GoingDown => /\ transit' <= transit
                             /\ transit > 0 => port > 0 \/ callback # "idle"]_vars
    BY <1>3
  <1> QED
    BY <1>1, <1>2, <1>4, Invariants, PTL DEF Spec, ReleaseDrains

(* When release has closed the port and destroyed the pool, no callback     *)
(* runs or will run.                                                        *)
THEOREM ReleaseIsFinal == Spec => []QuietWhenReleased
  <1>1. BufferInv => QuietWhenReleased
    BY DEF BufferInv, TypeOK, AtRest, Counted, QuietWhenReleased
  <1> QED
    BY <1>1, Invariants, PTL
=============================================================================
