--------------------------- MODULE CircularBuffer ---------------------------
(***************************************************************************)
(* rc::CircularBuffer<cv::Mat>: the image buffer the camera loop writes    *)
(* (addElement) and the detector threads read (getElement).  Both methods  *)
(* hold the buffer's mutex from their first to their last statement, so    *)
(* each is one step here.                                                  *)
(*                                                                         *)
(* An image is the number of the captured frame; NoImage is the empty      *)
(* cv::Mat every slot holds until it is written for the first time.        *)
(* time(NULL) is `clock': whole seconds, so several frames may share one,  *)
(* and a clock that is set while the program runs may step back.           *)
(***************************************************************************)
EXTENDS Integers, FiniteSets

CONSTANTS
    MaxElements,         \* slots of the buffer (two per detector thread)
    MaxFrames,           \* bound: frames captured
    MaxTime,             \* bound: the clock's last second
    ClockMayStepBack     \* may the wall clock be set back?

ASSUME BufferAssumption ==
    /\ MaxElements \in Nat \ {0}
    /\ MaxFrames \in Nat
    /\ MaxTime \in Nat
    /\ ClockMayStepBack \in BOOLEAN

VARIABLES
    element,             \* slot -> image
    processed,           \* slot -> already handed out?
    tstamp,              \* slot -> second in which the image was added
    nextIndex,           \* where addElement looks first
    availableElements,   \* the counter that getElement checks first
    skippedElements,     \* the statistics counter
    maxAge,              \* images with an older time stamp are not handed out
    clock,               \* time(NULL)
    captured,            \* history: number of the newest frame added
    delivered            \* history: frames handed out

slots    == <<element, processed, tstamp>>
counters == <<nextIndex, availableElements, skippedElements, maxAge>>
vars     == <<slots, counters, clock, captured, delivered>>

Slots   == 0 .. MaxElements - 1
NoImage == 0
Images  == 0 .. MaxFrames
Times   == 0 .. MaxTime

-----------------------------------------------------------------------------
(* How far slot i is from slot n in the order both methods scan the ring. *)
Distance(n, i) == IF i >= n THEN i - n ELSE i + MaxElements - n

(* The slot of S that a scan starting at nextIndex meets first, as a set. *)
FirstOf(S) ==
    {i \in S : \A j \in S : Distance(nextIndex, i) <= Distance(nextIndex, j)}

Fresh == {i \in Slots : ~processed[i]}

(* addElement writes to nextIndex when that slot was handed out already.    *)
(* Otherwise it takes the fresh slot with the greatest time stamp, and of   *)
(* several the first from nextIndex on (the comparison is strict).          *)
Newest == {i \in Fresh : \A j \in Fresh : tstamp[j] <= tstamp[i]}

Victim == IF processed[nextIndex] THEN {nextIndex} ELSE FirstOf(Newest)

(* Fault: the age check is missing. *)
AnyAgeMutant == Fresh

(* The slots getElement may hand out: fresh and not older than maxAge. *)
NotTooOld == {i \in Fresh : maxAge <= tstamp[i]}

Deliverable == IF availableElements = 0 THEN {} ELSE FirstOf(NotTooOld)

-----------------------------------------------------------------------------
Init ==
    /\ element = [i \in Slots |-> NoImage]
    /\ processed = [i \in Slots |-> FALSE]
    /\ tstamp = [i \in Slots |-> 0]
    /\ nextIndex = 0
    /\ availableElements = 0
    /\ skippedElements = 0
    /\ maxAge = 0
    /\ clock = 0
    /\ captured = 0
    /\ delivered = {}

(* addElement writes the next frame, fresh and stamped with the time, to v. *)
Write(v) ==
    /\ element' = [element EXCEPT ![v] = captured + 1]
    /\ processed' = [processed EXCEPT ![v] = FALSE]
    /\ tstamp' = [tstamp EXCEPT ![v] = clock]

(* Faults of addElement: a frame that replaces a fresh one is not counted;  *)
(* nextIndex does not follow the jump to the slot written; the limit is off *)
(* by one.                                                                  *)
StoreFreeOnlyMutant(v) ==
    /\ Write(v)
    /\ nextIndex' = (v + 1) % MaxElements
    /\ availableElements' = IF availableElements < MaxElements /\ processed[v]
                            THEN availableElements + 1 ELSE availableElements

StoreNoJumpMutant(v) ==
    /\ Write(v)
    /\ nextIndex' = (nextIndex + 1) % MaxElements
    /\ availableElements' = IF availableElements < MaxElements
                            THEN availableElements + 1 ELSE availableElements

StoreOffByOneMutant(v) ==
    /\ Write(v)
    /\ nextIndex' = (v + 1) % MaxElements
    /\ availableElements' = IF availableElements < MaxElements - 1
                            THEN availableElements + 1 ELSE availableElements

(* addElement: write slot v, move behind it, count it. *)
Store(v) ==
    /\ Write(v)
    /\ nextIndex' = (v + 1) % MaxElements
    /\ availableElements' = IF availableElements < MaxElements
                            THEN availableElements + 1 ELSE availableElements

AddElement ==
    /\ captured < MaxFrames
    /\ \E v \in Victim :
           /\ Store(v)
           /\ skippedElements' = IF v # nextIndex THEN skippedElements + 1
                                                  ELSE skippedElements
    /\ captured' = captured + 1
    /\ UNCHANGED <<maxAge, clock, delivered>>

(* Faults of getElement: the slot stays unprocessed; the age limit is the   *)
(* time of the call and not that of the image.                              *)
TakeUnmarkedMutant(i) ==
    /\ availableElements' = availableElements - 1
    /\ maxAge' = tstamp[i]
    /\ UNCHANGED slots

TakeAgeNowMutant(i) ==
    /\ processed' = [processed EXCEPT ![i] = TRUE]
    /\ availableElements' = availableElements - 1
    /\ maxAge' = clock
    /\ UNCHANGED <<element, tstamp>>

(* getElement: hand out slot i. *)
Take(i) ==
    /\ processed' = [processed EXCEPT ![i] = TRUE]
    /\ availableElements' = availableElements - 1
    /\ maxAge' = tstamp[i]
    /\ UNCHANGED <<element, tstamp>>

GetElement ==
    /\ \E i \in Deliverable :
           /\ Take(i)
           /\ delivered' = delivered \cup ({element[i]} \ {NoImage})
    /\ UNCHANGED <<nextIndex, skippedElements, clock, captured>>

(* getElement returns false. *)
GetNothing == Deliverable = {} /\ UNCHANGED vars

(* The wall clock: the next second, or a correction that sets it back. *)
Tick ==
    /\ clock < MaxTime
    /\ clock' = clock + 1
    /\ UNCHANGED <<slots, counters, captured, delivered>>

StepBack ==
    /\ ClockMayStepBack
    /\ \E t \in 0 .. clock - 1 : clock' = t
    /\ UNCHANGED <<slots, counters, captured, delivered>>

Next == AddElement \/ GetElement \/ GetNothing \/ Tick \/ StepBack

Spec == Init /\ [][Next]_vars

-----------------------------------------------------------------------------
TypeOK ==
    /\ element \in [Slots -> 0 .. captured]
    /\ processed \in [Slots -> BOOLEAN]
    /\ tstamp \in [Slots -> Times]
    /\ nextIndex \in Slots
    /\ availableElements \in 0 .. MaxElements
    /\ skippedElements \in 0 .. captured
    /\ maxAge \in Times
    /\ clock \in Times
    /\ captured \in Images
    /\ delivered \subseteq 1 .. captured

(* No frame is analysed twice: a slot getElement may still hand out never   *)
(* holds a frame that was handed out before, however often the ring wraps   *)
(* or the clock is set (the `processed' flag, RC_CircularBuffer.cpp:76).    *)
AtMostOnce == \A i \in Fresh : element[i] \notin delivered

(* While the clock only moves forward, detector threads receive frames in   *)
(* the order the camera took them, although addElement overwrites slots out *)
(* of turn and getElement scans from a slot that is not the oldest          *)
(* (RC_CircularBuffer.cpp:39-48 and 72-75).                                 *)
InOrder == \A f \in delivered' \ delivered : \A g \in delivered : g < f
DeliveredInOrder == [][InOrder]_vars

(* While the clock only moves forward, the age check never rejects the      *)
(* newest frame: what addElement just stored can be handed out.             *)
NewestNotTooOld ==
    \A i \in Fresh : element[i] = captured => maxAge <= tstamp[i]

(* Fresh slots that availableElements does not count.  getElement gives up  *)
(* when the counter is 0, so that many images stay in the buffer unseen.    *)
Hidden == LET n == Cardinality(Fresh) - availableElements
          IN  IF n > 0 THEN n ELSE 0

(* All slots start out fresh and uncounted (RC_CircularBuffer.cpp:14 and    *)
(* 22); from then on no call of either method may hide one more, so once    *)
(* getElement can see every fresh slot it can do so for ever.               *)
HiddenShrinks == Hidden' <= Hidden
HiddenNeverGrows == [][HiddenShrinks]_vars

(* Both scans come to one result: addElement always finds a slot to write,  *)
(* even if it must give up a fresh image, and exactly one, and getElement   *)
(* never has two to choose from (RC_CircularBuffer.cpp:36-48 and 71-75).    *)
ScansDecide ==
    /\ \E v \in Slots : Victim = {v}
    /\ \A i, j \in Deliverable : i = j

(* While the clock only moves forward, getElement has an image to hand out  *)
(* whenever addElement has just stored one, however far the counter and the *)
(* age limit have moved (RC_CircularBuffer.cpp:57-63 against 69-75): who    *)
(* waits for a reader to free a slot does not wait for a starving one.  It  *)
(* need not be the image just stored: at first it may be an empty slot,     *)
(* which is fresh from the start (line 22).                                 *)
StoredIsTakeable == [][captured' # captured => Deliverable' # {}]_vars

(* The buffer is a channel that loses frames only one by one, at the        *)
(* arrival of a newer one, and delivers the others in order, once.          *)
Channel == INSTANCE FrameChannel WITH
               pending <- {element[i] : i \in Fresh} \ {NoImage}
ImplementsChannel == Channel!Spec
=============================================================================
