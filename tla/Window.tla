------------------------------- MODULE Window -------------------------------
(***************************************************************************)
(* rc::Window, the preview window, as rc::DetectorFactory and main() use   *)
(* it: detector threads queue images, a preview thread shows them, and the *)
(* main thread stops both.                                                 *)
(*                                                                         *)
(* The preview thread never blocks on images_mtx, it only tries it; so     *)
(* stop() may join it while holding the mutex.  `doSmth' is TRUE from the  *)
(* constructor on, whether run() was ever called or not.                   *)
(*                                                                         *)
(* images.empty() is read without the mutex while the preview thread may   *)
(* pop: the read finds the queue as before or as after the pop.            *)
(***************************************************************************)
EXTENDS Naturals, Sequences

CONSTANTS
    Workers,             \* the detector threads
    MaxImages            \* bound: images analysed

ASSUME WindowAssumption == MaxImages \in Nat

VARIABLES
    main,                \* where the main thread is
    doLoop,              \* the loop flag of the detector threads
    worker,              \* where each detector thread is
    image,               \* the image each detector thread works on
    analysed,            \* history: number of images analysed
    doSmth,              \* the preview thread's loop flag
    images,              \* the queue
    mutex,               \* images_mtx: who holds it
    preview,             \* where the preview thread is
    shown                \* history: the images shown, in order

workerVars == <<doLoop, worker, image, analysed>>
windowVars == <<doSmth, images, mutex, preview, shown>>
vars == <<main, workerVars, windowVars>>

MainStates ==
    {"begin", "running", "joining", "draining", "leaving", "stopping", "locked",
     "destroying", "exited", "terminated"}
PreviewStates == {"none", "test", "try", "holding", "shown", "ended", "joined"}

TypeOK ==
    /\ main \in MainStates
    /\ doLoop \in BOOLEAN
    /\ worker \in [Workers -> {"starting", "loop", "adding", "ended"}]
    /\ image \in [Workers -> 0 .. MaxImages]
    /\ analysed \in 0 .. MaxImages
    /\ doSmth \in BOOLEAN
    /\ images \in Seq(1 .. MaxImages)
    /\ mutex \in {"free", "preview", "main"}
    /\ preview \in PreviewStates
    /\ shown \in Seq(1 .. MaxImages)

Init ==
    /\ main = "begin"
    /\ doLoop = FALSE
    /\ worker = [w \in Workers |-> "starting"]
    /\ image = [w \in Workers |-> 0]
    /\ analysed = 0
    /\ doSmth = TRUE
    /\ images = <<>>
    /\ mutex = "free"
    /\ preview = "none"
    /\ shown = <<>>

-----------------------------------------------------------------------------
(* A detector thread comes to its loop, and sets the flag of all: also after *)
(* stopThreads has cleared it.  startThreads ran the window before.          *)
SetLoop(w) ==
    /\ preview # "none"
    /\ worker[w] = "starting"
    /\ worker' = [worker EXCEPT ![w] = "loop"]
    /\ doLoop' = TRUE
    /\ UNCHANGED <<main, image, analysed, windowVars>>

(* It has a picture analysed ... *)
Analyse(w) ==
    /\ worker[w] = "loop" /\ doLoop
    /\ analysed < MaxImages
    /\ analysed' = analysed + 1
    /\ image' = [image EXCEPT ![w] = analysed + 1]
    /\ worker' = [worker EXCEPT ![w] = "adding"]
    /\ UNCHANGED <<main, doLoop, windowVars>>

(* ... and adds it to the queue (the mutex is locked and unlocked). *)
AddImage(w) ==
    /\ worker[w] = "adding"
    /\ mutex = "free"
    /\ images' = Append(images, image[w])
    /\ worker' = [worker EXCEPT ![w] = "loop"]
    /\ UNCHANGED <<main, doLoop, image, analysed, doSmth, mutex, preview, shown>>

LeaveLoop(w) ==
    /\ worker[w] = "loop" /\ ~doLoop
    /\ worker' = [worker EXCEPT ![w] = "ended"]
    /\ UNCHANGED <<main, doLoop, image, analysed, windowVars>>

-----------------------------------------------------------------------------
PreviewGoto(from, to) == preview = from /\ preview' = to

(* while (doSmth) *)
TestSmth ==
    /\ preview = "test"
    /\ preview' = IF doSmth THEN "try" ELSE "ended"
    /\ UNCHANGED <<main, workerVars, doSmth, images, mutex, shown>>

(* Fault: the preview thread waits for the mutex. *)
BlockMutant ==
    /\ preview = "try" /\ mutex = "free"
    /\ preview' = "holding" /\ mutex' = "preview"
    /\ UNCHANGED <<main, workerVars, doSmth, images, shown>>

(* images_mtx.try_lock() *)
TryLock ==
    /\ preview = "try"
    /\ IF mutex = "free"
       THEN preview' = "holding" /\ mutex' = "preview"
       ELSE preview' = "test" /\ mutex' = mutex
    /\ UNCHANGED <<main, workerVars, doSmth, images, shown>>

(* The first image is shown.  imshow and waitKey take their time, and the   *)
(* image stays in the queue meanwhile.                                      *)
PreviewImage ==
    /\ PreviewGoto("holding", "shown")
    /\ images # <<>>
    /\ shown' = Append(shown, Head(images))
    /\ UNCHANGED <<main, workerVars, doSmth, images, mutex>>

NothingToShow ==
    /\ PreviewGoto("holding", "test")
    /\ images = <<>>
    /\ mutex' = "free"
    /\ UNCHANGED <<main, workerVars, doSmth, images, shown>>

(* Fault: the mutex is given back without the pop. *)
NoPopMutant ==
    /\ PreviewGoto("shown", "test")
    /\ mutex' = "free"
    /\ UNCHANGED <<main, workerVars, doSmth, images, shown>>

Pop ==
    /\ PreviewGoto("shown", "test")
    /\ images' = Tail(images)
    /\ mutex' = "free"
    /\ UNCHANGED <<main, workerVars, doSmth, shown>>

-----------------------------------------------------------------------------
(* startThreads: run() starts the preview thread, before any detector       *)
(* thread runs.                                                             *)
Run ==
    /\ main = "begin"
    /\ main' = "running"
    /\ PreviewGoto("none", "test")
    /\ UNCHANGED <<workerVars, doSmth, images, mutex, shown>>

(* The camera cannot be opened: main returns, and the window is destroyed.  *)
OpenFails ==
    /\ main = "begin"
    /\ main' = "destroying"
    /\ UNCHANGED <<workerVars, windowVars>>

(* DetectorFactory::stopThreads: the detector threads are joined first.  A  *)
(* thread that comes to its loop only now sets the flag again, and then the *)
(* join never ends ...                                                      *)
StopThreads ==
    /\ main = "running"
    /\ main' = "joining"
    /\ doLoop' = FALSE
    /\ UNCHANGED <<worker, image, analysed, windowVars>>

Joined ==
    /\ main = "joining"
    /\ \A w \in Workers : worker[w] = "ended"
    /\ main' = "draining"
    /\ UNCHANGED <<workerVars, windowVars>>

(* Fault: the images still in the queue are not waited for. *)
NoDrainMutant ==
    /\ main = "draining"
    /\ main' = "leaving"
    /\ UNCHANGED <<workerVars, windowVars>>

(* ... then it polls until the queue is empty: while (imagesAvailable())    *)
Drained ==
    /\ main = "draining"
    /\ images = <<>>
    /\ main' = "leaving"
    /\ UNCHANGED <<workerVars, windowVars>>

(* stop(), called here or by the destructor: clear the flag ... *)
Stop ==
    /\ \/ main = "leaving"
       \/ main = "destroying" /\ doSmth
    /\ main' = "stopping"
    /\ doSmth' = FALSE
    /\ UNCHANGED <<workerVars, images, mutex, preview, shown>>

(* ... lock images_mtx ...                                                  *)
StopLocks ==
    /\ main = "stopping"
    /\ mutex = "free"
    /\ main' = "locked" /\ mutex' = "main"
    /\ UNCHANGED <<workerVars, doSmth, images, preview, shown>>

(* ... and join the preview thread, under the lock.  join() throws when     *)
(* there is nothing to join, and in a destructor that ends the program.     *)
JoinPreview ==
    /\ main = "locked"
    /\ \/ /\ PreviewGoto("ended", "joined")
          /\ main' = "destroying" /\ mutex' = "free"
       \/ /\ preview \in {"none", "joined"}
          /\ main' = "terminated"
          /\ UNCHANGED <<preview, mutex>>
    /\ UNCHANGED <<workerVars, doSmth, images, shown>>

(* The destructor: if (doSmth) stop() *)
Destroy ==
    /\ main = "destroying" /\ ~doSmth
    /\ main' = "exited"
    /\ UNCHANGED <<workerVars, windowVars>>

WorkerStep(w) == SetLoop(w) \/ Analyse(w) \/ AddImage(w) \/ LeaveLoop(w)

PreviewStep == TestSmth \/ TryLock \/ PreviewImage \/ NothingToShow \/ Pop

MainStep ==
    \/ Run \/ OpenFails \/ StopThreads \/ Joined \/ Drained
    \/ Stop \/ StopLocks \/ JoinPreview \/ Destroy

Next == (\E w \in Workers : WorkerStep(w)) \/ PreviewStep \/ MainStep

Spec == Init /\ [][Next]_vars

(* Every thread that can run does; main calls stopThreads one day.  The     *)
(* preview thread frees the mutex again and again, and a detector thread    *)
(* that waits for it gets it in the end (strong fairness: it yields between *)
(* two tries).                                                              *)
Fairness ==
    /\ WF_vars(PreviewStep)
    /\ WF_vars(MainStep)
    /\ \A w \in Workers : WF_vars(WorkerStep(w)) /\ SF_vars(AddImage(w))

FairSpec == Spec /\ Fairness

-----------------------------------------------------------------------------
(* Every image a detector thread added is shown, each once, and none is left *)
(* when the window has stopped: stopThreads drains the queue by             *)
(* polling images.empty(), without the mutex and while the preview thread   *)
(* still shows (RC_DetectorFactory.cpp:111 against RC_Window.cpp:43-46).    *)
Added == {i \in 1 .. analysed : \A w \in Workers : worker[w] = "adding" => image[w] # i}

AllShown ==
    preview = "joined" =>
        /\ Len(shown) = analysed
        /\ {shown[i] : i \in 1 .. Len(shown)} = Added

(* Images are shown in the order they were added, whatever the interleaving *)
(* of addImage with a preview thread that leaves the image in the queue     *)
(* while it shows it (RC_Window.cpp:43-46): the line of images, those       *)
(* already shown first, changes by an addImage at its end and never         *)
(* otherwise.                                                               *)
Waiting == IF preview = "shown" THEN Tail(images) ELSE images

Line == shown \o Waiting

ShownInOrder ==
    [][\/ Line' = Line
       \/ \E w \in Workers : /\ worker[w] = "adding" /\ worker'[w] # "adding"
                             /\ Line' = Append(Line, image[w])]_vars

(* The join under the mutex (RC_Window.cpp:18-21) finds no preview thread   *)
(* that still needs the mutex, and the program dies in that join only if    *)
(* the window never ran: the destructor never joins a second time           *)
(* (RC_Window.cpp:11).                                                      *)
JoinIsSafe ==
    /\ main = "locked" => preview \notin {"holding", "shown"}
    /\ main = "terminated" => preview = "none"

(* Once it stops, and every detector thread had come to its loop before     *)
(* (ThreadPool's StopCompletes shows what happens otherwise), the program   *)
(* ends and never hangs or dies in the window:                              *)
(* the drain ends, the join under the mutex does not deadlock with the      *)
(* thread that tries this mutex (RC_Window.cpp:18-21 and 37), and the       *)
(* destructor does not join a second time (RC_Window.cpp:11).  It does die  *)
(* there when the camera could not be opened (RC_Main.cpp:287): the window  *)
(* is destroyed without ever having run.                                    *)
ShutdownCompletes ==
    (main = "joining" /\ ~doLoop /\ \A w \in Workers : worker[w] # "starting") ~> (main = "exited")
=============================================================================
