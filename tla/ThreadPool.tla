------------------------------ MODULE ThreadPool ----------------------------
(***************************************************************************)
(* rc::Threads, the pool of detector threads, as rc::DetectorFactory uses  *)
(* it: the main thread starts the workers, later stops and joins them, and *)
(* then deletes the array `data' in which every worker keeps its results.  *)
(*                                                                         *)
(* `doLoop' is one atomic flag for the whole pool.  stopThreads clears it, *)
(* but every worker SETS it once, after its own initialisation.            *)
(***************************************************************************)
EXTENDS Naturals

CONSTANT NumThreads          \* size of the pool

ASSUME PoolAssumption == NumThreads \in Nat

Workers == 0 .. NumThreads - 1

VARIABLES
    main,                    \* where the main thread is
    next,                    \* the index i of its loop over thrds[]
    thrds,                   \* the workers whose thrds[i] holds a handle
    doLoop,                  \* the flag of the workers' loops
    worker,                  \* where each worker is
    data,                    \* the workers' results: DetectorFactory::data
    crashed                  \* has the process died?

mainVars == <<main, next, thrds, data>>
pool == <<main, next, thrds, doLoop, worker, data, crashed>>

MainStates == {"idle", "starting", "running", "joining", "stopped"}
WorkerStates == {"none", "new", "sighted", "blind", "named", "ready", "loop", "work",
                 "leaving", "ended"}

PoolTypeOK ==
    /\ main \in MainStates
    /\ next \in 0 .. NumThreads
    /\ thrds \subseteq Workers
    /\ doLoop \in BOOLEAN
    /\ worker \in [Workers -> WorkerStates]
    /\ data \in {"none", "live", "deleted"}
    /\ crashed \in BOOLEAN

-----------------------------------------------------------------------------
PoolInit ==
    /\ main = "idle"
    /\ next = 0
    /\ thrds = {}
    /\ doLoop = FALSE
    /\ worker = [w \in Workers |-> "none"]
    /\ data = "none"
    /\ crashed = FALSE

(* The main thread.  DetectorFactory::startThreads allocates the results    *)
(* and enters the loop of Threads::startThreads.                            *)
StartThreads ==
    /\ main = "idle"
    /\ main' = "starting"
    /\ data' = "live"
    /\ UNCHANGED <<next, thrds, doLoop, worker, crashed>>

(* thrds[i] = std::thread(...): the constructor starts the thread ... *)
Spawn ==
    /\ main = "starting" /\ next < NumThreads
    /\ worker[next] = "none"
    /\ worker' = [worker EXCEPT ![next] = "new"]
    /\ UNCHANGED <<mainVars, doLoop, crashed>>

(* Fault: the thread is started and detached, its handle is lost. *)
AssignDetachedMutant ==
    /\ main = "starting" /\ next < NumThreads
    /\ worker[next] # "none"
    /\ next' = next + 1
    /\ UNCHANGED <<main, thrds, doLoop, worker, data, crashed>>

(* ... and the move assignment stores its handle, while it already runs. *)
Assign ==
    /\ main = "starting" /\ next < NumThreads
    /\ worker[next] # "none"
    /\ thrds' = thrds \cup {next}
    /\ next' = next + 1
    /\ UNCHANGED <<main, doLoop, worker, data, crashed>>

StartReturns ==
    /\ main = "starting" /\ next = NumThreads
    /\ main' = "running"
    /\ UNCHANGED <<next, thrds, doLoop, worker, data, crashed>>

(* Fault: the index is not set to 0 for the second loop. *)
StopNoResetMutant ==
    /\ main = "running"
    /\ main' = "joining"
    /\ doLoop' = FALSE
    /\ UNCHANGED <<next, thrds, worker, data, crashed>>

(* Threads::stopThreads clears the flag once and joins worker by worker. *)
StopThreads ==
    /\ main = "running"
    /\ main' = "joining"
    /\ next' = 0
    /\ doLoop' = FALSE
    /\ UNCHANGED <<thrds, worker, data, crashed>>

(* Fault: the thread is detached, not waited for. *)
DetachMutant ==
    /\ main = "joining" /\ next < NumThreads
    /\ thrds' = thrds \ {next}
    /\ next' = next + 1
    /\ UNCHANGED <<main, doLoop, worker, data, crashed>>

Join ==
    /\ main = "joining" /\ next < NumThreads
    /\ worker[next] = "ended"
    /\ thrds' = thrds \ {next}
    /\ next' = next + 1
    /\ UNCHANGED <<main, doLoop, worker, data, crashed>>

(* Back in DetectorFactory::stopThreads: delete data. *)
StopReturns ==
    /\ main = "joining" /\ next = NumThreads
    /\ main' = "stopped"
    /\ data' = "deleted"
    /\ UNCHANGED <<next, thrds, doLoop, worker, crashed>>

-----------------------------------------------------------------------------
Goto(w, from, to) ==
    /\ worker[w] = from
    /\ worker' = [worker EXCEPT ![w] = to]

(* A worker wants to name itself and reads thrds[num].native_handle().  The *)
(* main thread may not have stored the handle yet; then it has read null.   *)
ReadHandle(w) ==
    /\ Goto(w, "new", IF w \in thrds THEN "sighted" ELSE "blind")
    /\ UNCHANGED <<mainVars, doLoop, crashed>>

(* Whenever it gets that far, pthread_setname_np dereferences the handle it *)
(* has read, whatever thrds[num] holds by now.                              *)
SetName(w) ==
    /\ \/ Goto(w, "sighted", "named") /\ UNCHANGED crashed
       \/ worker[w] = "blind" /\ crashed' = TRUE /\ UNCHANGED worker
    /\ UNCHANGED <<mainVars, doLoop>>

(* initFunc allocates the worker's results in data[num]. *)
InitFunc(w) ==
    /\ Goto(w, "named", "ready")
    /\ UNCHANGED <<mainVars, doLoop, crashed>>

SetLoop(w) ==
    /\ Goto(w, "ready", "loop")
    /\ doLoop' = TRUE
    /\ UNCHANGED <<mainVars, crashed>>

(* while (doLoop) *)
TestLoop(w) ==
    /\ IF doLoop THEN Goto(w, "loop", "work") ELSE Goto(w, "loop", "leaving")
    /\ UNCHANGED <<mainVars, doLoop, crashed>>

(* func(num): one image is analysed, the results are in data[num]. *)
Func(w) ==
    /\ Goto(w, "work", "loop")
    /\ UNCHANGED <<mainVars, doLoop, crashed>>

(* Fault: a worker that leaves its loop early starts it again. *)
RestartMutant(w) ==
    /\ Goto(w, "leaving", "ready")
    /\ UNCHANGED <<mainVars, doLoop, crashed>>

(* cleanupFunc prints and frees the results in data[num]; the thread ends. *)
CleanupFunc(w) ==
    /\ Goto(w, "leaving", "ended")
    /\ UNCHANGED <<mainVars, doLoop, crashed>>

PoolMainStep ==
    ~crashed /\ \/ StartThreads \/ Spawn \/ Assign \/ StartReturns
                \/ StopThreads \/ Join \/ StopReturns

PoolWorkerStep(w) ==
    ~crashed /\ \/ ReadHandle(w) \/ SetName(w) \/ InitFunc(w) \/ SetLoop(w)
                \/ TestLoop(w) \/ Func(w) \/ CleanupFunc(w)

PoolNext == PoolMainStep \/ \E w \in Workers : PoolWorkerStep(w)

PoolSpec == PoolInit /\ [][PoolNext]_pool

(* The scheduler runs every thread that can run, func returns, and main     *)
(* calls stopThreads one day (a frame count or a signal ends its loop).     *)
PoolFairness == WF_pool(PoolMainStep) /\ \A w \in Workers : WF_pool(PoolWorkerStep(w))

PoolFairSpec == PoolSpec /\ PoolFairness

-----------------------------------------------------------------------------
(* A worker may read the null handle only while startThreads runs           *)
(* (RC_Threads.cpp:22-24): once it has returned and no worker holds one, no *)
(* delay of a worker, and no join, which takes the handles away again,      *)
(* makes one read null or kills the program.                                *)
StartSurvived ==
    /\ main \notin {"idle", "starting"} /\ ~crashed
    /\ \A w \in Workers : worker[w] # "blind"

SurvivedForGood == [][StartSurvived => StartSurvived']_pool

(* The worker's next step reads or writes data[num]. *)
UsesData(w) == worker[w] \in {"named", "work", "leaving"}

(* No worker touches its results before they are allocated or after         *)
(* stopThreads deleted them (RC_DetectorFactory.cpp:39-41, 70-72, 78-87     *)
(* against 107-109), however starting and stopping interleave.              *)
NoUseAfterDelete == \A w \in Workers : UsesData(w) => data = "live"

(* When stopThreads has returned every worker has ended                     *)
(* (RC_DetectorFactory.hpp:82): no worker is left behind to be started, to  *)
(* set doLoop or to run.                                                    *)
AllEnded == main = "stopped" => \A w \in Workers : worker[w] = "ended"

(* stopThreads completes if the workers had all entered their loops: the    *)
(* flag is clear and nobody is left who would set it.                       *)
Entered(w) == worker[w] \in {"loop", "work", "leaving", "ended"}

Stopping == main = "joining" /\ ~doLoop /\ \A w \in Workers : Entered(w)

LateStopCompletes == Stopping ~> (main = "stopped")

(* No step undoes such a stop: the flag stays clear, and nobody goes back   *)
(* behind the point where it would be set (RC_Threads.cpp:32 against 46).   *)
StopIsFinal == [][Stopping => Stopping' \/ main' = "stopped"]_pool

(* Until stopThreads is called no worker leaves its loop, although each     *)
(* finds the flag clear when it is started (RC_Threads.cpp:32-33): the      *)
(* camera loop, which waits for a worker to take an image, is never left    *)
(* alone with a full buffer.                                                *)
WorkUntilStopped ==
    main \in {"starting", "running"} =>
        \A w \in Workers : worker[w] \notin {"leaving", "ended"}

=============================================================================
