------------------------------- MODULE RoboCup ------------------------------
(***************************************************************************)
(* main() of robocup in the foreground: the camera loop, the detector      *)
(* threads of ThreadPool, the image buffer of CircularBuffer between them, *)
(* and SIGTERM / SIGINT.                                                   *)
(*                                                                         *)
(* The camera loop offers every frame to the buffer and counts it only     *)
(* when addElement returns true, that is when a detector thread has freed  *)
(* the slot at nextIndex; until then it takes the next frame and tries     *)
(* again, and looks at nothing else.                                       *)
(*                                                                         *)
(* No property here depends on which frame is in a slot, so a slot only    *)
(* has its flag and its time stamp, and of the seconds only their order    *)
(* matters: Tick drops the seconds nothing refers to, so that the clock    *)
(* may run for ever in finitely many states.  The images in the buffer     *)
(* come from MaxSeconds + 1 different seconds at most.                     *)
(***************************************************************************)
EXTENDS ThreadPool, Integers, FiniteSets

CONSTANTS
    Counts,              \* the values -n may have, 0 for no limit
    MaxSeconds           \* bound: seconds from the oldest one in use to now

ASSUME RoboCupAssumption ==
    NumThreads \in Nat \ {0} /\ Counts \subseteq Nat /\ MaxSeconds \in Nat

MaxElements == 2 * NumThreads

VARIABLES
    processed, tstamp, nextIndex, availableElements, maxAge,    \* CircularBuffer
    clock,               \* the wall clock
    at,                  \* where main() is
    i,                   \* its frame counter
    count,               \* opts.count, the limit of that counter
    isStartup,           \* has startUpDone been called?
    gotSigTerm           \* set by signal_handler

buffer == <<processed, tstamp, nextIndex, availableElements, maxAge>>
globals == <<count, isStartup, gotSigTerm>>
vars   == <<pool, buffer, clock, at, i, globals>>

Ring == INSTANCE CircularBuffer WITH
            MaxFrames <- 1, MaxTime <- MaxSeconds, ClockMayStepBack <- FALSE,
            element <- [slot \in 0 .. MaxElements - 1 |-> 1],
            captured <- 0, delivered <- {}, skippedElements <- 0

TypeOK ==
    /\ PoolTypeOK
    /\ processed \in [Ring!Slots -> BOOLEAN]
    /\ tstamp \in [Ring!Slots -> Ring!Times]
    /\ nextIndex \in Ring!Slots
    /\ availableElements \in 0 .. MaxElements
    /\ {maxAge, clock} \subseteq Ring!Times
    /\ at \in {"start", "loop", "grab", "stop", "exited"}
    /\ count \in Counts /\ i \in 0 .. count + 1
    /\ isStartup \in BOOLEAN /\ gotSigTerm \in BOOLEAN

Init ==
    /\ PoolInit
    /\ processed = [slot \in Ring!Slots |-> FALSE]
    /\ tstamp = [slot \in Ring!Slots |-> 0]
    /\ nextIndex = 0 /\ availableElements = 0 /\ maxAge = 0
    /\ clock = 0
    /\ at = "start"
    /\ count \in Counts /\ i = 0
    /\ isStartup = FALSE /\ gotSigTerm = FALSE

-----------------------------------------------------------------------------
StartFactory ==
    /\ at = "start"
    /\ StartThreads \/ Spawn \/ Assign
    /\ UNCHANGED <<buffer, clock, at, i, globals>>

(* startThreads returns, and startUpDone lets signals through. *)
StartUpDone ==
    /\ at = "start" /\ StartReturns
    /\ at' = "loop"
    /\ isStartup' = TRUE
    /\ UNCHANGED <<buffer, clock, i, count, gotSigTerm>>

(* Fault: the termination flag is not looked at. *)
TestSignalMutant ==
    /\ at = "loop"
    /\ at' = IF i <= count THEN "grab" ELSE "stop"
    /\ UNCHANGED <<pool, buffer, clock, i, globals>>


(* while (i <= opts.count && !isDaemonTerminate()) *)
TestCount ==
    /\ at = "loop"
    /\ at' = IF i <= count /\ ~gotSigTerm THEN "grab" ELSE "stop"
    /\ UNCHANGED <<pool, buffer, clock, i, globals>>

(* grabCameraImage: a frame has come and is added to the buffer. *)
AddElement == \E v \in Ring!Victim : Ring!Store(v)

(* The frame counts when its slot was free, with no limit it never does. *)
GrabCameraImage ==
    /\ at = "grab"
    /\ AddElement
    /\ IF processed[nextIndex]
       THEN at' = "loop" /\ i' = (IF count > 0 THEN i + 1 ELSE i)
       ELSE UNCHANGED <<at, i>>
    /\ UNCHANGED <<pool, maxAge, clock, globals>>

StopFactory ==
    /\ at = "stop"
    /\ StopThreads \/ Join
    /\ UNCHANGED <<buffer, clock, at, i, globals>>

(* Fault: the program ends without stopThreads. *)
ExitEarlyMutant ==
    /\ at = "stop"
    /\ at' = "exited"
    /\ UNCHANGED <<pool, buffer, clock, i, globals>>

(* stopThreads returns; the camera is closed and the program ends. *)
Exit ==
    /\ at = "stop" /\ StopReturns
    /\ at' = "exited"
    /\ UNCHANGED <<buffer, clock, i, globals>>

MainStep ==
    ~crashed /\ \/ StartFactory \/ StartUpDone \/ TestCount
                \/ GrabCameraImage \/ StopFactory \/ Exit

-----------------------------------------------------------------------------
(* Fault: getElement leaves the slot fresh. *)
GetUnmarkedMutant ==
    \/ \E slot \in Ring!Deliverable : Ring!TakeUnmarkedMutant(slot) /\ UNCHANGED nextIndex
    \/ Ring!Deliverable = {} /\ UNCHANGED buffer

(* A detector thread asks the buffer for an image and analyses it. *)
GetElement ==
    \/ \E slot \in Ring!Deliverable : Ring!Take(slot) /\ UNCHANGED nextIndex
    \/ Ring!Deliverable = {} /\ UNCHANGED buffer

Analyse(w) ==
    /\ Func(w) /\ GetElement
    /\ UNCHANGED <<clock, at, i, globals>>

OtherStep(w) ==
    /\ \/ ReadHandle(w) \/ SetName(w) \/ InitFunc(w) \/ SetLoop(w)
       \/ TestLoop(w) \/ CleanupFunc(w)
    /\ UNCHANGED <<buffer, clock, at, i, globals>>

WorkerStep(w) == ~crashed /\ (Analyse(w) \/ OtherStep(w))

(* signal_handler, for SIGTERM or SIGINT.  One that comes during start-up   *)
(* is ignored.                                                              *)
Signal ==
    /\ ~crashed /\ at # "exited"
    /\ gotSigTerm' = (gotSigTerm \/ isStartup)
    /\ UNCHANGED <<pool, buffer, clock, at, i, count, isStartup>>

(* A second passes.  Nobody reads the stamp of an image that was handed out, *)
(* and the seconds no other stamp and no limit refers to are dropped.       *)
Tick ==
    LET used    == {tstamp[slot] : slot \in Ring!Fresh} \cup {maxAge, clock + 1}
        Rank(t) == Cardinality({u \in used : u < t})
    IN  /\ ~crashed /\ at \in {"loop", "grab"}
        /\ Rank(clock + 1) <= MaxSeconds
        /\ clock' = Rank(clock + 1)
        /\ tstamp' = [slot \in Ring!Slots |->
                          IF slot \in Ring!Fresh THEN Rank(tstamp[slot]) ELSE 0]
        /\ maxAge' = Rank(maxAge)
        /\ UNCHANGED <<pool, processed, nextIndex, availableElements, at, i, globals>>

Next == MainStep \/ (\E w \in Workers : WorkerStep(w)) \/ Signal \/ Tick

Spec == Init /\ [][Next]_vars

(* The camera goes on delivering frames, and every thread gets to run.      *)
Fairness == WF_vars(MainStep) /\ \A w \in Workers : WF_vars(WorkerStep(w))

FairSpec == Spec /\ Fairness

-----------------------------------------------------------------------------
(* The retry loop of main (RC_Main.cpp:340) always ends: the detector       *)
(* threads free the slot at nextIndex, although addElement moves it, they   *)
(* refuse old images, and some images they never see.                       *)
RetryEnds == (at = "grab") ~> (at = "loop" \/ crashed)

(* Each try of that loop leaves a slot that a detector thread can take, if  *)
(* not always the frame just stored: main() never waits for a slot while    *)
(* every thread finds nothing (RC_Main.cpp:340 against                      *)
(* RC_CircularBuffer.cpp:69-75).                                            *)
TryFeedsThreads == [][GrabCameraImage => Ring!Deliverable' # {}]_vars

(* A signal that was not ignored ends the program, whatever the camera loop *)
(* is doing, if every detector thread has entered its loop when main() is   *)
(* still in its own (RC_Main.cpp:338-364): stopThreads then ends as well.   *)
SignalEnds ==
    gotSigTerm /\ main = "running" /\ (\A w \in Workers : Entered(w))
        ~> at = "exited"


(* The camera loop ends for one of two reasons: a signal that was not       *)
(* ignored, or a frame too many for the limit; without a limit it never     *)
(* runs out of frames (RC_Main.cpp:338 and 357).                            *)
StopsForAReason ==
    at \in {"stop", "exited"} => gotSigTerm \/ (count > 0 /\ i = count + 1)

(* While main() runs its camera loop, every thread it started has its       *)
(* results; when it exits, none is left that could use them, the buffer or  *)
(* the camera (RC_Main.cpp:328-366).                                        *)
QuietAtExit ==
    /\ NoUseAfterDelete
    /\ at = "exited" => \A w \in Workers : worker[w] = "ended"
=============================================================================
