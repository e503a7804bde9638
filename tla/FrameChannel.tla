---------------------------- MODULE FrameChannel ----------------------------
(***************************************************************************)
(* What the image buffer between the camera loop and the detector threads  *)
(* promises: a lossy channel.  Frames are numbered in the order they are   *)
(* captured.  A new frame always enters the channel and may push out at    *)
(* most one older frame; a frame leaves the channel at most once, and      *)
(* frames leave it in the order they were captured.                        *)
(***************************************************************************)
EXTENDS Naturals

CONSTANT MaxFrames       \* how many frames are captured at most

VARIABLES
    captured,            \* number of the newest captured frame, 0 before the first
    pending,             \* frames waiting in the channel
    delivered            \* frames handed to a detector thread

vars == <<captured, pending, delivered>>

Init ==
    /\ captured = 0
    /\ pending = {}
    /\ delivered = {}

(* The camera loop offers the next frame; one waiting frame may be dropped. *)
Capture ==
    /\ captured < MaxFrames
    /\ captured' = captured + 1
    /\ \E lost \in {{}} \cup {{f} : f \in pending} :
           pending' = (pending \ lost) \cup {captured + 1}
    /\ UNCHANGED delivered

(* A detector thread receives a frame newer than every frame before it. *)
Deliver ==
    \E f \in pending :
        /\ \A g \in delivered : g < f
        /\ pending' = pending \ {f}
        /\ delivered' = delivered \cup {f}
        /\ UNCHANGED captured

Next == Capture \/ Deliver

Spec == Init /\ [][Next]_vars
=============================================================================
