---------------------------- MODULE RoboCup_proofs --------------------------
(***************************************************************************)
(* What the thread pool guarantees for every number of workers, and what   *)
(* follows for the program.  What main() and the detector threads do to    *)
(* the pool is what ThreadPool allows, so its theorems hold for the whole  *)
(* program, and the program only has to show that it exits after           *)
(* stopThreads.                                                            *)
(***************************************************************************)
EXTENDS RoboCup, FiniteSetTheorems, WellFoundedInduction, TLAPS

(* Which workers exist, have a handle in thrds and have ended, for each     *)
(* state of the main thread.                                                *)
PoolInv ==
    /\ PoolTypeOK
    /\ main = "idle" => next = 0 /\ \A w \in Workers : worker[w] = "none"
    /\ main \in {"starting", "running", "joining"} => data = "live"
    /\ main = "starting" => \A w \in Workers : worker[w] # "none" => w <= next
    /\ main = "starting" => \A w \in Workers : w < next => w \in thrds
    /\ main = "running" => thrds = Workers
    /\ main = "joining" => \A w \in Workers :
           IF w < next THEN worker[w] = "ended" ELSE w \in thrds
    /\ main = "stopped" => \A w \in Workers : worker[w] = "ended"

LEMMA PoolStarts == PoolInit => PoolInv
<1> SUFFICES ASSUME PoolInit PROVE PoolInv
  OBVIOUS
<1>1. doLoop \in BOOLEAN /\ crashed \in BOOLEAN
  BY Zenon DEF PoolInit
<1>2. worker \in [Workers -> WorkerStates] /\ next \in 0 .. NumThreads
  BY PoolAssumption DEF PoolInit, WorkerStates
<1> QED BY <1>1, <1>2 DEF PoolInit, PoolInv, PoolTypeOK, MainStates

(* A step of the main thread, one case per statement. *)
LEMMA PoolMainKeeps ==
    ASSUME PoolInv, PoolMainStep
    PROVE  PoolInv'
<1> USE PoolAssumption DEF PoolInv, PoolTypeOK, MainStates, WorkerStates
<1>1. CASE StartThreads
  <2>1. doLoop' \in BOOLEAN /\ crashed' \in BOOLEAN
    BY <1>1, Zenon DEF StartThreads
  <2>2. /\ main = "idle" /\ main' = "starting" /\ data' = "live"
        /\ UNCHANGED <<next, thrds, worker>>
    BY <1>1 DEF StartThreads
  <2> QED BY <2>1, <2>2 DEF Workers
<1>2. CASE Spawn
  <2>1. next \in Workers /\ worker' = [worker EXCEPT ![next] = "new"]
    BY <1>2 DEF Spawn, Workers
  <2>2. main' = "starting" /\ UNCHANGED <<main, next, thrds, data, doLoop, crashed>>
    BY <1>2 DEF Spawn, mainVars
  <2> QED BY <2>1, <2>2, <1>2 DEF Spawn
<1>3. CASE Assign
  <2>1. doLoop' \in BOOLEAN /\ crashed' \in BOOLEAN
    BY <1>3, Zenon DEF Assign
  <2>2. /\ main = "starting" /\ main' = "starting" /\ next' = next + 1 /\ next \in Workers
        /\ thrds' = thrds \cup {next} /\ UNCHANGED <<worker, data>>
    BY <1>3 DEF Assign, Workers
  <2>3. next' \in 0 .. NumThreads /\ thrds' \subseteq Workers
    BY <2>2 DEF Workers
  <2>4. \A w \in Workers : w < next' => w \in thrds'
    BY <2>2 DEF Workers
  <2>5. \A w \in Workers : worker'[w] # "none" => w <= next'
    BY <2>2 DEF Workers
  <2> QED BY <2>1, <2>2, <2>3, <2>4, <2>5
<1>4. CASE StartReturns
  <2>1. doLoop' \in BOOLEAN /\ crashed' \in BOOLEAN
    BY <1>4, Zenon DEF StartReturns
  <2>2. /\ main = "starting" /\ next = NumThreads /\ main' = "running"
        /\ UNCHANGED <<next, thrds, worker, data>>
    BY <1>4 DEF StartReturns
  <2>3. \A w \in Workers : w \in thrds
    BY <2>2 DEF Workers
  <2>4. thrds' = Workers
    BY <2>2, <2>3
  <2> QED BY <2>1, <2>2, <2>4
<1>5. CASE StopThreads
  <2>1. doLoop' \in BOOLEAN /\ crashed' \in BOOLEAN
    BY <1>5, Zenon DEF StopThreads
  <2>2. /\ main = "running" /\ main' = "joining" /\ next' = 0
        /\ UNCHANGED <<thrds, worker, data>>
    BY <1>5 DEF StopThreads
  <2>3. \A w \in Workers : ~(w < next') /\ w \in thrds'
    BY <2>2 DEF Workers
  <2>4. next' \in 0 .. NumThreads
    BY <2>2
  <2> QED BY <2>1, <2>2, <2>3, <2>4
<1>6. CASE Join
  <2>1. /\ main = "joining" /\ main' = "joining" /\ next' = next + 1 /\ next' \in 0 .. NumThreads
        /\ thrds' \subseteq Workers /\ UNCHANGED <<doLoop, worker, data, crashed>>
    BY <1>6 DEF Join
  <2>2. \A w \in Workers : IF w < next' THEN worker[w] = "ended" ELSE w \in thrds'
    BY <1>6, <2>1 DEF Join, Workers
  <2> QED BY <2>1, <2>2
<1>7. CASE StopReturns
  BY <1>7 DEF StopReturns, Workers
<1> QED BY <1>1, <1>2, <1>3, <1>4, <1>5, <1>6, <1>7 DEF PoolMainStep

(* A step of a worker: it exists, has not ended, and stays where it is in   *)
(* the main thread's loops.                                                 *)
LEMMA PoolWorkerKeeps ==
    ASSUME PoolInv, NEW w \in Workers, PoolWorkerStep(w)
    PROVE  PoolInv'
<1>1. UNCHANGED <<main, next, thrds, data>>
  BY DEF PoolWorkerStep, ReadHandle, SetName, InitFunc, SetLoop, TestLoop, Func, CleanupFunc, mainVars
<1>2. doLoop' \in BOOLEAN /\ crashed' \in BOOLEAN
  BY DEF PoolInv, PoolTypeOK, PoolWorkerStep, ReadHandle, SetName, InitFunc, SetLoop, TestLoop, Func, CleanupFunc
<1>3. \/ worker' = worker
      \/ /\ worker[w] \notin {"none", "ended"}
         /\ \E s \in WorkerStates \ {"none"} : worker' = [worker EXCEPT ![w] = s]
  BY DEF PoolWorkerStep, ReadHandle, SetName, InitFunc, SetLoop, TestLoop, Func, CleanupFunc, Goto, WorkerStates
<1>4. CASE worker' = worker
  BY <1>1, <1>2, <1>4 DEF PoolInv, PoolTypeOK
<1>5. CASE /\ worker[w] \notin {"none", "ended"}
           /\ \E s \in WorkerStates \ {"none"} : worker' = [worker EXCEPT ![w] = s]
  BY <1>1, <1>2, <1>5 DEF PoolInv, PoolTypeOK
<1> QED BY <1>3, <1>4, <1>5

LEMMA PoolCorrect == PoolSpec => []PoolInv
<1>1. PoolInv /\ UNCHANGED pool => PoolInv'
  BY DEF PoolInv, PoolTypeOK, pool
<1>2. PoolInv /\ [PoolNext]_pool => PoolInv'
  BY <1>1, PoolMainKeeps, PoolWorkerKeeps DEF PoolNext
<1> QED BY <1>2, PoolStarts, PTL DEF PoolSpec

(* The results of the workers outlive every use of them: stopThreads        *)
(* deletes `data' only after it has joined every worker.                    *)
THEOREM DataSafe == PoolSpec => []NoUseAfterDelete
<1>1. PoolInv => NoUseAfterDelete
  BY DEF PoolInv, PoolTypeOK, MainStates, NoUseAfterDelete, UsesData
<1> QED BY <1>1, PoolCorrect, PTL

(* Type correctness of the pool. *)
THEOREM PoolTypes == PoolSpec => []PoolTypeOK
<1>1. PoolInv => PoolTypeOK
  BY DEF PoolInv
<1> QED BY <1>1, PoolCorrect, PTL

(* A start that left no worker with the null handle is survived for good:   *)
(* while main runs or joins, the handle of every worker that has not ended  *)
(* is in thrds, so that nobody can read null any more, however late it gets *)
(* to RC_Threads.cpp:24.                                                    *)
THEOREM SafeOnceStarted == PoolSpec => SurvivedForGood
<1>1. ASSUME PoolInv, StartSurvived, PoolNext PROVE StartSurvived'
  <2> USE DEF StartSurvived, PoolInv, PoolTypeOK, MainStates
  <2>1. CASE PoolMainStep
    BY <1>1, <2>1 DEF PoolMainStep, StartThreads, Spawn, Assign, StartReturns, StopThreads, Join,
       StopReturns
  <2>2. ASSUME NEW w \in Workers, PoolWorkerStep(w) PROVE StartSurvived'
    <3>1. CASE ReadHandle(w)
      <4>1. w \in thrds
        BY <1>1, <3>1 DEF ReadHandle, Goto
      <4> QED BY <1>1, <3>1, <4>1 DEF ReadHandle, Goto, mainVars
    <3>2. CASE SetName(w)
      BY <1>1, <3>2 DEF SetName, Goto, mainVars
    <3>3. CASE InitFunc(w) \/ SetLoop(w) \/ TestLoop(w) \/ Func(w) \/ CleanupFunc(w)
      BY <1>1, <3>3 DEF InitFunc, SetLoop, TestLoop, Func, CleanupFunc, Goto, mainVars
    <3> QED BY <2>2, <3>1, <3>2, <3>3 DEF PoolWorkerStep
  <2> QED BY <1>1, <2>1, <2>2 DEF PoolNext
<1>2. PoolInv /\ [PoolNext]_pool => [StartSurvived => StartSurvived']_pool
  BY <1>1
<1> QED BY <1>2, PoolCorrect, PTL DEF PoolSpec, SurvivedForGood

(* stopThreads does not return before every worker has ended. *)
THEOREM StopWaits == PoolSpec => []AllEnded
<1>1. PoolInv => AllEnded
  BY DEF PoolInv, AllEnded
<1> QED BY <1>1, PoolCorrect, PTL

(* A worker has set the flag before it is in its loop, and only stopThreads *)
(* clears it.                                                               *)
FlagUp ==
    main \in {"idle", "starting", "running"} =>
        /\ \A w \in Workers : worker[w] \in {"loop", "work"} => doLoop
        /\ \A w \in Workers : worker[w] \notin {"leaving", "ended"}

(* No worker leaves its loop before stopThreads is called. *)
THEOREM WorksUntilStopped == PoolSpec => []WorkUntilStopped
<1>1. PoolInit => FlagUp
  BY DEF PoolInit, FlagUp
<1>2. ASSUME PoolInv, FlagUp, [PoolNext]_pool PROVE FlagUp'
  <2> USE DEF FlagUp
  <2>1. CASE StartThreads \/ Assign \/ StartReturns \/ StopThreads \/ Join \/ StopReturns
    BY <1>2, <2>1 DEF StartThreads, Assign, StartReturns, StopThreads, Join, StopReturns
  <2>2. CASE Spawn
    BY <1>2, <2>2 DEF Spawn, mainVars, PoolInv, PoolTypeOK
  <2>3. ASSUME NEW w \in Workers, PoolWorkerStep(w) PROVE FlagUp'
    BY <1>2, <2>3 DEF PoolWorkerStep, ReadHandle, SetName, InitFunc, SetLoop, TestLoop, Func, CleanupFunc,
       Goto, mainVars, PoolInv, PoolTypeOK, WorkerStates
  <2>4. CASE UNCHANGED pool
    BY <1>2, <2>4 DEF pool
  <2> QED BY <1>2, <2>1, <2>2, <2>3, <2>4 DEF PoolNext, PoolMainStep
<1>3. FlagUp => WorkUntilStopped
  BY DEF FlagUp, WorkUntilStopped
<1> QED BY <1>1, <1>2, <1>3, PoolCorrect, PTL DEF PoolSpec

(* A stop that finds every worker in its loop is never undone: the safety   *)
(* half of LateStopCompletes.                                               *)
THEOREM StopNeverUndone == PoolSpec => StopIsFinal
<1>1. ASSUME PoolInv, Stopping, PoolNext PROVE Stopping' \/ main' = "stopped"
  <2>1. CASE PoolMainStep
    BY <1>1, <2>1 DEF Stopping, Entered, PoolMainStep, StartThreads, Spawn, Assign, StartReturns,
       StopThreads, Join, StopReturns
  <2>2. ASSUME NEW w \in Workers, PoolWorkerStep(w) PROVE Stopping'
    BY <1>1, <2>2 DEF Stopping, Entered, PoolWorkerStep, ReadHandle, SetName, InitFunc, SetLoop, TestLoop,
       Func, CleanupFunc, Goto, mainVars, PoolInv, PoolTypeOK
  <2> QED BY <1>1, <2>1, <2>2 DEF PoolNext
<1>2. PoolInv /\ [PoolNext]_pool => [Stopping => Stopping' \/ main' = "stopped"]_pool
  BY <1>1
<1> QED BY <1>2, PoolCorrect, PTL DEF PoolSpec, StopIsFinal

-----------------------------------------------------------------------------
LEMMA MainStepsPool == MainStep => PoolNext \/ UNCHANGED pool
<1> SUFFICES ASSUME MainStep PROVE PoolNext \/ UNCHANGED pool
  OBVIOUS
<1>1. CASE StartFactory
  BY <1>1 DEF StartFactory, MainStep, PoolNext, PoolMainStep
<1>2. CASE StartUpDone
  BY <1>2 DEF StartUpDone, MainStep, PoolNext, PoolMainStep
<1>3. CASE TestCount \/ GrabCameraImage
  BY <1>3 DEF TestCount, GrabCameraImage
<1>4. CASE StopFactory
  BY <1>4 DEF StopFactory, MainStep, PoolNext, PoolMainStep
<1>5. CASE Exit
  BY <1>5 DEF Exit, MainStep, PoolNext, PoolMainStep
<1> QED BY <1>1, <1>2, <1>3, <1>4, <1>5 DEF MainStep

LEMMA WorkerStepsPool ==
    ASSUME NEW w \in Workers, WorkerStep(w)
    PROVE  PoolNext
<1>1. PoolWorkerStep(w)
  BY DEF WorkerStep, Analyse, OtherStep, PoolWorkerStep
<1> QED BY <1>1 DEF PoolNext

(* The program uses the pool as ThreadPool says: each of its steps is one   *)
(* of the pool or leaves the pool alone (RC_Main.cpp:328, 364).             *)
THEOREM ImplementsPool == Spec => PoolSpec
<1>1. Init => PoolInit
  BY DEF Init
<1>2. [Next]_vars => [PoolNext]_pool
  <2> SUFFICES ASSUME [Next]_vars PROVE PoolNext \/ UNCHANGED pool
    BY DEF pool
  <2>1. CASE MainStep
    BY <2>1, MainStepsPool
  <2>2. CASE \E w \in Workers : WorkerStep(w)
    BY <2>2, WorkerStepsPool
  <2>3. CASE Signal \/ Tick \/ UNCHANGED vars
    BY <2>3 DEF Signal, Tick, vars
  <2> QED BY <2>1, <2>2, <2>3 DEF Next
<1> QED BY <1>1, <1>2, PTL DEF Spec, PoolSpec

(* The threads have been stopped when the program exits. *)
ExitInv == at = "exited" => main = "stopped"

LEMMA ExitsStopped == Spec => []ExitInv
<1>1. Init => ExitInv
  BY DEF Init, ExitInv
<1>2. ASSUME ExitInv, [Next]_vars PROVE ExitInv'
  <2>1. CASE MainStep
    BY <1>2, <2>1 DEF ExitInv, MainStep, StartFactory, StartUpDone, TestCount,
       GrabCameraImage, StopFactory, Exit, StopReturns
  <2>2. CASE \E w \in Workers : WorkerStep(w)
    BY <1>2, <2>2 DEF ExitInv, WorkerStep, Analyse, OtherStep, Func, ReadHandle, SetName,
       InitFunc, SetLoop, TestLoop, CleanupFunc, mainVars
  <2>3. CASE Signal \/ Tick \/ UNCHANGED vars
    BY <1>2, <2>3 DEF ExitInv, Signal, Tick, pool, vars
  <2> QED BY <1>2, <2>1, <2>2, <2>3 DEF Next
<1> QED BY <1>1, <1>2, PTL DEF Spec

(* No detector thread uses its results when they are not there, and none is *)
(* left when the program exits (RC_Main.cpp:328-366), for every number of   *)
(* threads and frames.                                                      *)
THEOREM ExitsQuietly == Spec => []QuietAtExit
<1>1. NoUseAfterDelete /\ AllEnded /\ ExitInv => QuietAtExit
  BY DEF AllEnded, ExitInv, QuietAtExit
<1> QED BY <1>1, DataSafe, StopWaits, ImplementsPool, ExitsStopped, PTL

-----------------------------------------------------------------------------
(* Types of what the program adds to the pool.  No stamp and no limit is    *)
(* ahead of the clock, or the ranks that Tick assigns might not fit.        *)
OwnTypes ==
    /\ processed \in [Ring!Slots -> BOOLEAN]
    /\ tstamp \in [Ring!Slots -> Ring!Times]
    /\ nextIndex \in Ring!Slots
    /\ availableElements \in 0 .. MaxElements
    /\ {maxAge, clock} \subseteq Ring!Times
    /\ at \in {"start", "loop", "grab", "stop", "exited"}
    /\ count \in Counts /\ i \in 0 .. count + 1
    /\ isStartup \in BOOLEAN /\ gotSigTerm \in BOOLEAN

NothingAhead == maxAge <= clock /\ \A slot \in Ring!Slots : tstamp[slot] <= clock

OwnInv == OwnTypes /\ NothingAhead /\ (at = "grab" => i <= count)

LEMMA OwnInit == Init => OwnInv
<1> SUFFICES ASSUME Init PROVE OwnInv
  OBVIOUS
<1>1. 0 \in Ring!Slots /\ 0 \in Ring!Times /\ count \in Counts /\ 0 \in 0 .. count + 1
  BY RoboCupAssumption DEF Init, Ring!Slots, Ring!Times, MaxElements
<1>2. isStartup \in BOOLEAN /\ gotSigTerm \in BOOLEAN
  BY Zenon DEF Init
<1>3. processed \in [Ring!Slots -> BOOLEAN] /\ \A slot \in Ring!Slots : tstamp[slot] = 0
  BY DEF Init
<1>4. tstamp \in [Ring!Slots -> Ring!Times]
  BY <1>1 DEF Init
<1> QED BY <1>1, <1>2, <1>3, <1>4, RoboCupAssumption
        DEF Init, OwnInv, OwnTypes, NothingAhead, MaxElements

(* A frame is stored in a slot of the ring, with the time of the clock. *)
LEMMA OwnStore ==
    ASSUME OwnInv, NEW v \in Ring!Victim, Ring!Store(v)
    PROVE  /\ processed' \in [Ring!Slots -> BOOLEAN]
           /\ tstamp' \in [Ring!Slots -> Ring!Times]
           /\ nextIndex' \in Ring!Slots
           /\ availableElements' \in 0 .. MaxElements
           /\ \A slot \in Ring!Slots : tstamp'[slot] <= clock
<1>1. v \in Ring!Slots
  BY DEF OwnInv, OwnTypes, Ring!Victim, Ring!FirstOf, Ring!Newest, Ring!Fresh
<1>2. MaxElements \in Nat \ {0} /\ v \in Nat
  BY <1>1, RoboCupAssumption DEF MaxElements, Ring!Slots
<1>3. nextIndex' = (v + 1) % MaxElements /\ nextIndex' \in Ring!Slots
  BY <1>2 DEF Ring!Store, Ring!Slots
<1>4. availableElements' \in 0 .. MaxElements
  BY <1>2 DEF Ring!Store, OwnInv, OwnTypes
<1>5. processed' = [processed EXCEPT ![v] = FALSE] /\ tstamp' = [tstamp EXCEPT ![v] = clock]
  BY DEF Ring!Store, Ring!Write
<1>6. processed' \in [Ring!Slots -> BOOLEAN]
  BY <1>1, <1>5 DEF OwnInv, OwnTypes
<1>7. tstamp' \in [Ring!Slots -> Ring!Times]
  BY <1>1, <1>5 DEF OwnInv, OwnTypes
<1>8. \A slot \in Ring!Slots : tstamp'[slot] <= clock
  BY <1>1, <1>5 DEF OwnInv, OwnTypes, NothingAhead, Ring!Times
<1> QED BY <1>3, <1>4, <1>6, <1>7, <1>8

LEMMA OwnGet ==
    ASSUME OwnInv, GetElement
    PROVE  /\ processed' \in [Ring!Slots -> BOOLEAN]
           /\ availableElements' \in 0 .. MaxElements
           /\ maxAge' \in Ring!Times /\ maxAge' <= clock
           /\ UNCHANGED <<tstamp, nextIndex>>
<1>1. CASE Ring!Deliverable = {} /\ UNCHANGED buffer
  BY <1>1 DEF OwnInv, OwnTypes, NothingAhead, buffer
<1>2. CASE \E slot \in Ring!Deliverable : Ring!Take(slot) /\ UNCHANGED nextIndex
  <2>1. PICK slot \in Ring!Deliverable : Ring!Take(slot) /\ UNCHANGED nextIndex
    BY <1>2
  <2>2. availableElements # 0 /\ slot \in Ring!Slots
    BY DEF Ring!Deliverable, Ring!FirstOf, Ring!NotTooOld, Ring!Fresh
  <2>3. /\ processed' = [processed EXCEPT ![slot] = TRUE]
        /\ availableElements' = availableElements - 1
        /\ maxAge' = tstamp[slot] /\ tstamp' = tstamp
    BY <2>1 DEF Ring!Take
  <2>4. availableElements' \in 0 .. MaxElements
    BY <2>2, <2>3, RoboCupAssumption DEF OwnInv, OwnTypes, MaxElements
  <2>5. processed' \in [Ring!Slots -> BOOLEAN]
    BY <2>2, <2>3 DEF OwnInv, OwnTypes
  <2> QED BY <2>1, <2>2, <2>3, <2>4, <2>5 DEF OwnInv, OwnTypes, NothingAhead
<1> QED BY <1>1, <1>2 DEF GetElement

LEMMA OwnMain ==
    ASSUME OwnInv, MainStep
    PROVE  OwnInv'
<1> USE DEF OwnInv
<1>1. CASE StartFactory \/ StartUpDone \/ StopFactory \/ Exit
  <2>1. UNCHANGED <<processed, tstamp, nextIndex, availableElements, maxAge, clock, i, count, gotSigTerm>>
    BY <1>1 DEF StartFactory, StartUpDone, StopFactory, Exit, buffer, globals
  <2>2. isStartup' \in BOOLEAN /\ at' \in {"start", "loop", "stop", "exited"}
    BY <1>1, Zenon DEF StartFactory, StartUpDone, StopFactory, Exit, globals, OwnTypes
  <2> QED BY <2>1, <2>2 DEF OwnTypes, NothingAhead
<1>2. CASE TestCount
  <2>1. UNCHANGED <<processed, tstamp, nextIndex, availableElements, maxAge, clock, i, count,
                    isStartup, gotSigTerm>>
    BY <1>2 DEF TestCount, buffer, globals
  <2>2. at' \in {"grab", "stop"} /\ (at' = "grab" => i <= count)
    BY <1>2 DEF TestCount
  <2> QED BY <2>1, <2>2 DEF OwnTypes, NothingAhead
<1>3. CASE GrabCameraImage
  <2>1. PICK v \in Ring!Victim : Ring!Store(v)
    BY <1>3 DEF GrabCameraImage, AddElement
  <2>2. /\ i' \in 0 .. count + 1 /\ at' \in {"loop", "grab"} /\ (at' = "grab" => i' <= count)
        /\ UNCHANGED <<maxAge, clock, count, isStartup, gotSigTerm>>
    BY <1>3, RoboCupAssumption DEF GrabCameraImage, OwnTypes, globals
  <2> QED BY <2>1, <2>2, OwnStore DEF OwnTypes, NothingAhead
<1> QED BY <1>1, <1>2, <1>3 DEF MainStep

LEMMA OwnWorker ==
    ASSUME OwnInv, NEW w \in Workers, WorkerStep(w)
    PROVE  OwnInv'
<1> USE DEF OwnInv
<1>1. UNCHANGED <<clock, at, i, count, isStartup, gotSigTerm>>
  BY DEF WorkerStep, Analyse, OtherStep, globals
<1>2. CASE Analyse(w)
  <2>1. GetElement
    BY <1>2 DEF Analyse
  <2> QED BY <1>1, <2>1, OwnGet DEF OwnTypes, NothingAhead
<1>3. CASE OtherStep(w)
  BY <1>1, <1>3 DEF OtherStep, buffer, OwnTypes, NothingAhead
<1> QED BY <1>2, <1>3 DEF WorkerStep

(* The clock gets the highest rank, and that is at most MaxSeconds. *)
LEMMA OwnTick == OwnInv /\ Tick => OwnInv'
<1> SUFFICES ASSUME OwnInv, Tick PROVE OwnInv'
  OBVIOUS
<1> DEFINE used    == {tstamp[slot] : slot \in Ring!Fresh} \cup {maxAge, clock + 1}
           Rank(t) == Cardinality({u \in used : u < t})
<1>1. /\ Rank(clock + 1) <= MaxSeconds
      /\ clock' = Rank(clock + 1) /\ maxAge' = Rank(maxAge)
      /\ tstamp' = [slot \in Ring!Slots |-> IF slot \in Ring!Fresh THEN Rank(tstamp[slot]) ELSE 0]
      /\ UNCHANGED <<processed, nextIndex, availableElements, at, i, count, isStartup, gotSigTerm>>
  BY DEF Tick, globals
<1>2. \A u \in used : u \in Nat /\ u <= clock + 1
  BY RoboCupAssumption DEF OwnInv, OwnTypes, NothingAhead, Ring!Times, Ring!Fresh
<1>3. IsFiniteSet(used)
  <2>1. used \subseteq 0 .. (clock + 1) /\ clock \in Nat
    BY <1>2, RoboCupAssumption DEF OwnInv, OwnTypes, Ring!Times
  <2>2. IsFiniteSet(0 .. (clock + 1))
    BY <2>1, FS_Interval
  <2> QED BY <2>1, <2>2, FS_Subset
<1>4. ASSUME NEW t \in Nat, t <= clock + 1
      PROVE  Rank(t) \in Ring!Times /\ Rank(t) <= Rank(clock + 1)
  <2> DEFINE below(s) == {u \in used : u < s}
  <2>1. IsFiniteSet(below(clock + 1)) /\ IsFiniteSet(below(t))
    BY <1>3, FS_Subset
  <2>2. below(t) \subseteq below(clock + 1)
    BY <1>2, <1>4, RoboCupAssumption DEF OwnInv, OwnTypes, Ring!Times
  <2>3. Rank(t) \in Nat /\ Rank(clock + 1) \in Nat /\ Rank(t) <= Rank(clock + 1)
    BY <2>1, <2>2, FS_Subset, FS_CardinalityType
  <2> QED BY <1>1, <2>3, RoboCupAssumption DEF Ring!Times
<1> HIDE DEF Rank
<1>5. /\ clock + 1 \in Nat /\ maxAge \in Nat /\ maxAge <= clock + 1
      /\ \A slot \in Ring!Slots : tstamp[slot] \in Nat /\ tstamp[slot] <= clock + 1
  BY RoboCupAssumption DEF OwnInv, OwnTypes, NothingAhead, Ring!Times
<1>6. clock' \in Ring!Times /\ maxAge' \in Ring!Times /\ maxAge' <= clock'
  BY <1>1, <1>4, <1>5
<1>7. \A slot \in Ring!Slots : tstamp'[slot] \in Ring!Times /\ tstamp'[slot] <= clock'
  BY <1>1, <1>4, <1>5, <1>6, RoboCupAssumption DEF Ring!Times
<1>8. tstamp' \in [Ring!Slots -> Ring!Times]
  BY <1>1, <1>7
<1> QED BY <1>1, <1>6, <1>7, <1>8 DEF OwnInv, OwnTypes, NothingAhead

LEMMA OwnCorrect == Spec => []OwnInv
<1>1. ASSUME OwnInv, [Next]_vars PROVE OwnInv'
  <2>1. CASE Signal
    BY <1>1, <2>1, Zenon DEF Signal, OwnInv, OwnTypes, NothingAhead, buffer
  <2>2. CASE UNCHANGED vars
    BY <1>1, <2>2 DEF vars, buffer, globals, OwnInv, OwnTypes, NothingAhead
  <2> QED BY <1>1, <2>1, <2>2, OwnMain, OwnWorker, OwnTick DEF Next
<1> QED BY <1>1, OwnInit, PTL DEF Spec

(* Type correctness of the whole program. *)
THEOREM ProgramTypes == Spec => []TypeOK
<1>1. PoolTypeOK /\ OwnInv => TypeOK
  BY DEF OwnInv, OwnTypes, TypeOK
<1> QED BY <1>1, PoolTypes, ImplementsPool, OwnCorrect, PTL

(* The buffer counts its slots with the same Cardinality. *)
LEMMA RingCounts == \A S : Ring!Cardinality(S) = Cardinality(S)
BY DEF Ring!Cardinality, Cardinality

(* The fresh slots are finitely many, before and after a step. *)
LEMMA FreshSlots ==
    /\ IsFiniteSet(Ring!Fresh) /\ Cardinality(Ring!Fresh) \in Nat
    /\ IsFiniteSet(Ring!Fresh') /\ Cardinality(Ring!Fresh') \in Nat
<1>1. IsFiniteSet(Ring!Slots)
  <2>1. MaxElements - 1 \in Int
    BY RoboCupAssumption DEF MaxElements
  <2>2. IsFiniteSet(0 .. MaxElements - 1)
    BY <2>1, FS_Interval
  <2> QED BY <2>2 DEF Ring!Slots
<1>2. Ring!Fresh \subseteq Ring!Slots /\ Ring!Fresh' \subseteq Ring!Slots
  BY DEF Ring!Fresh
<1>3. IsFiniteSet(Ring!Fresh) /\ IsFiniteSet(Ring!Fresh')
  BY <1>1, <1>2, FS_Subset
<1> QED BY <1>3, FS_CardinalityType

(* A frame added makes at most one slot fresh, and is counted unless the    *)
(* counter has reached the size of the ring.                                *)
LEMMA StoreHidesNothing ==
    ASSUME OwnInv, NEW v \in Ring!Victim, Ring!Store(v)
    PROVE  Ring!HiddenShrinks
<1> DEFINE c  == Cardinality(Ring!Fresh)
           c2 == Cardinality(Ring!Fresh')
<1>1. v \in Ring!Slots
  BY DEF OwnInv, OwnTypes, Ring!Victim, Ring!FirstOf, Ring!Newest, Ring!Fresh
<1>2. Ring!Fresh' = Ring!Fresh \cup {v}
  BY <1>1 DEF Ring!Store, Ring!Write, Ring!Fresh, OwnInv, OwnTypes
<1>3. c2 <= c + 1
  <2>1. c2 = IF v \in Ring!Fresh THEN c ELSE c + 1
    BY <1>2, FreshSlots, FS_AddElement
  <2> QED BY <2>1, FreshSlots
<1>4. c2 <= MaxElements
  <2>1. 0 \in Int /\ MaxElements - 1 \in Int /\ MaxElements \in Nat /\ MaxElements > 0
    BY RoboCupAssumption DEF MaxElements
  <2>2. IsFiniteSet(0 .. MaxElements - 1)
        /\ Cardinality(0 .. MaxElements - 1)
               = IF 0 > MaxElements - 1 THEN 0 ELSE (MaxElements - 1) - 0 + 1
    BY <2>1, FS_Interval, Zenon
  <2>3. IsFiniteSet(Ring!Slots) /\ Cardinality(Ring!Slots) = MaxElements
    BY <2>1, <2>2 DEF Ring!Slots
  <2>4. Ring!Fresh' \subseteq Ring!Slots
    BY DEF Ring!Fresh
  <2> QED BY <2>3, <2>4, FS_Subset
<1>5. /\ availableElements \in 0 .. MaxElements /\ MaxElements \in Nat
      /\ availableElements' = IF availableElements < MaxElements
                              THEN availableElements + 1 ELSE availableElements
  BY RoboCupAssumption DEF OwnInv, OwnTypes, MaxElements, Ring!Store
<1>6. c \in Nat /\ c2 \in Nat
  BY FreshSlots
<1> HIDE DEF c, c2
<1>7. \/ c2 - availableElements' <= c - availableElements
      \/ c2 <= availableElements'
  BY <1>3, <1>4, <1>5, <1>6
<1> QED BY <1>5, <1>6, <1>7, RingCounts DEF Ring!HiddenShrinks, Ring!Hidden, c, c2

(* An image taken leaves one fresh slot and one count less. *)
LEMMA TakeHidesNothing ==
    ASSUME OwnInv, GetElement
    PROVE  Ring!HiddenShrinks
<1> DEFINE c  == Cardinality(Ring!Fresh)
           c2 == Cardinality(Ring!Fresh')
<1>1. c \in Nat /\ c2 \in Nat /\ availableElements \in Int
  BY FreshSlots DEF OwnInv, OwnTypes
<1>2. CASE UNCHANGED buffer
  <2>1. availableElements' = availableElements /\ Ring!Fresh' = Ring!Fresh
    BY <1>2 DEF buffer, Ring!Fresh
  <2> QED BY <1>1, <2>1, RingCounts DEF Ring!HiddenShrinks, Ring!Hidden
<1>3. ASSUME NEW slot \in Ring!Deliverable, Ring!Take(slot) PROVE Ring!HiddenShrinks
  <2>1. slot \in Ring!Fresh /\ slot \in Ring!Slots
    BY <1>3 DEF Ring!Deliverable, Ring!FirstOf, Ring!NotTooOld, Ring!Fresh
  <2>2. Ring!Fresh' = Ring!Fresh \ {slot}
    BY <1>3, <2>1 DEF Ring!Take, Ring!Fresh, OwnInv, OwnTypes
  <2>3. c2 = c - 1
    BY <2>1, <2>2, FreshSlots, FS_RemoveElement
  <2>4. availableElements' = availableElements - 1
    BY <1>3 DEF Ring!Take
  <2> HIDE DEF c, c2
  <2> QED BY <1>1, <2>3, <2>4, RingCounts DEF Ring!HiddenShrinks, Ring!Hidden, c, c2
<1> QED BY <1>2, <1>3 DEF GetElement

(* The promise of the buffer holds in the program: no frame of the camera   *)
(* loop and no detector thread hides one more image from getElement         *)
(* (RC_Main.cpp:340, RC_DetectorFactory.cpp:33), for every number of        *)
(* threads and whatever the clock drops.                                    *)
THEOREM ProgramHidesNoMore == Spec => Ring!HiddenNeverGrows
<1>1. ASSUME OwnInv, Next PROVE Ring!HiddenShrinks \/ UNCHANGED <<processed, availableElements>>
  <2>1. CASE GrabCameraImage
    <3>1. PICK v \in Ring!Victim : Ring!Store(v)
      BY <2>1 DEF GrabCameraImage, AddElement
    <3> QED BY <1>1, <3>1, StoreHidesNothing
  <2>2. CASE \E w \in Workers : Analyse(w)
    <3>1. GetElement
      BY <2>2 DEF Analyse
    <3> QED BY <1>1, <3>1, TakeHidesNothing
  <2>3. CASE StartFactory \/ StartUpDone \/ TestCount \/ StopFactory \/ Exit
    BY <2>3 DEF StartFactory, StartUpDone, TestCount, StopFactory, Exit, buffer
  <2>4. CASE \E w \in Workers : OtherStep(w)
    BY <2>4 DEF OtherStep, buffer
  <2>5. CASE Signal \/ Tick
    BY <2>5 DEF Signal, Tick, buffer
  <2> QED BY <1>1, <2>1, <2>2, <2>3, <2>4, <2>5 DEF Next, MainStep, WorkerStep
<1>2. ASSUME OwnInv, UNCHANGED <<processed, availableElements>> PROVE Ring!HiddenShrinks
  <2>1. Ring!Fresh' = Ring!Fresh
    BY <1>2 DEF Ring!Fresh
  <2> QED BY <1>2, <2>1, FreshSlots, RingCounts DEF Ring!HiddenShrinks, Ring!Hidden, OwnInv, OwnTypes
<1>3. ASSUME OwnInv, [Next]_vars PROVE [Ring!HiddenShrinks]_(Ring!vars)
  <2>1. UNCHANGED vars => UNCHANGED <<processed, availableElements>>
    BY DEF vars, buffer
  <2> QED BY <1>1, <1>2, <1>3, <2>1
<1> QED BY <1>3, OwnCorrect, PTL DEF Spec, Ring!HiddenNeverGrows

LEMMA LeastNatural ==
    ASSUME NEW T, T \subseteq Nat, T # {}
    PROVE  \E m \in T : \A n \in T : m <= n
<1>1. PICK m \in T : \A n \in T : <<n, m>> \notin OpToRel(<, Nat)
  BY NatLessThanWellFounded, WFMin
<1>2. \A n \in T : ~(n < m)
  BY <1>1, Zenon DEF OpToRel
<1> QED BY <1>2

(* A scan of slots of which there is one stops at one. *)
LEMMA ScanEnds ==
    ASSUME nextIndex \in Ring!Slots, NEW S, S \subseteq Ring!Slots, S # {}
    PROVE  Ring!FirstOf(S) # {}
<1> DEFINE D == {Ring!Distance(nextIndex, slot) : slot \in S}
<1>1. D \subseteq Nat /\ D # {}
  <2>1. MaxElements \in Nat
    BY RoboCupAssumption DEF MaxElements
  <2>2. \A slot \in Ring!Slots : slot \in 0 .. MaxElements - 1
    BY DEF Ring!Slots
  <2>3. nextIndex \in 0 .. MaxElements - 1
    BY <2>2
  <2>4. \A slot \in S : Ring!Distance(nextIndex, slot) \in Nat
    BY <2>1, <2>2, <2>3 DEF Ring!Distance
  <2> QED BY <2>4
<1>2. PICK m \in D : \A n \in D : m <= n
  BY <1>1, LeastNatural
<1>3. PICK slot \in S : m = Ring!Distance(nextIndex, slot)
  BY <1>2
<1>4. \A other \in S : Ring!Distance(nextIndex, slot) <= Ring!Distance(nextIndex, other)
  BY <1>2, <1>3
<1> QED BY <1>4 DEF Ring!FirstOf

LEMMA Takeable ==
    OwnTypes /\ availableElements # 0 /\ Ring!NotTooOld # {} => Ring!Deliverable # {}
<1> SUFFICES ASSUME OwnTypes, availableElements # 0, Ring!NotTooOld # {}
             PROVE  Ring!Deliverable # {}
  OBVIOUS
<1>1. nextIndex \in Ring!Slots /\ Ring!NotTooOld \subseteq Ring!Slots
  BY DEF OwnTypes, Ring!NotTooOld, Ring!Fresh
<1>2. Ring!FirstOf(Ring!NotTooOld) # {}
  BY <1>1, ScanEnds
<1> QED BY <1>2 DEF Ring!Deliverable

(* The frame just stored is fresh, counted and stamped with the time, which *)
(* no age limit exceeds: so a detector thread finds an image after every    *)
(* try of the camera loop (RC_Main.cpp:340), for every number of threads.   *)
THEOREM ThreadsAreFed == Spec => TryFeedsThreads
<1>1. ASSUME OwnInv, OwnInv', GrabCameraImage PROVE Ring!Deliverable' # {}
  <2>1. PICK v \in Ring!Victim : Ring!Store(v)
    BY <1>1 DEF GrabCameraImage, AddElement
  <2>2. v \in Ring!Slots
    BY <1>1 DEF OwnInv, OwnTypes, Ring!Victim, Ring!FirstOf, Ring!Newest, Ring!Fresh
  <2>3. ~processed'[v] /\ tstamp'[v] = clock /\ maxAge' = maxAge /\ maxAge <= clock
    BY <1>1, <2>1, <2>2 DEF GrabCameraImage, Ring!Store, Ring!Write, OwnInv, OwnTypes, NothingAhead
  <2>4. Ring!NotTooOld' # {}
    BY <2>2, <2>3 DEF Ring!NotTooOld, Ring!Fresh
  <2>5. availableElements' # 0
    BY <1>1, <2>1, RoboCupAssumption DEF Ring!Store, OwnInv, OwnTypes, MaxElements
  <2>6. (OwnTypes /\ availableElements # 0 /\ Ring!NotTooOld # {} => Ring!Deliverable # {})'
    BY Takeable, PTL
  <2> QED BY <1>1, <2>4, <2>5, <2>6 DEF OwnInv
<1>2. OwnInv /\ OwnInv' => [GrabCameraImage => Ring!Deliverable' # {}]_vars
  BY <1>1
<1> QED BY <1>2, OwnCorrect, PTL DEF Spec, TryFeedsThreads

(* The frame counter: it only moves when there is a limit, and once main()  *)
(* has left its loop nothing takes the reason away.                         *)
Reasons == StopsForAReason /\ (count = 0 => i = 0)

(* The safety half of SignalEnds and LimitEnds: the camera loop ends only   *)
(* by a signal or when one frame more than the limit was counted, for every *)
(* limit and number of threads (RC_Main.cpp:338, 357).                      *)
THEOREM LoopEndsRight == Spec => []StopsForAReason
<1>1. Init => Reasons
  BY DEF Init, Reasons, StopsForAReason
<1>2. ASSUME OwnInv, Reasons, [Next]_vars PROVE Reasons'
  <2>. USE RoboCupAssumption DEF Reasons, StopsForAReason
  <2>1. CASE StartFactory \/ StartUpDone \/ StopFactory \/ Exit
    BY <1>2, <2>1 DEF StartFactory, StartUpDone, StopFactory, Exit, globals
  <2>2. CASE TestCount
    <3>1. /\ count \in Nat /\ i \in 0 .. count + 1 /\ UNCHANGED <<i, count>>
          /\ gotSigTerm' <=> gotSigTerm
      BY <1>2, <2>2 DEF TestCount, OwnInv, OwnTypes, globals
    <3>2. at' = IF i <= count /\ ~gotSigTerm THEN "grab" ELSE "stop"
      BY <2>2 DEF TestCount
    <3>. QED
      BY <1>2, <3>1, <3>2
  <2>3. CASE GrabCameraImage
    BY <1>2, <2>3 DEF GrabCameraImage, OwnInv, OwnTypes, globals
  <2>4. CASE \E w \in Workers : WorkerStep(w)
    BY <1>2, <2>4 DEF WorkerStep, Analyse, OtherStep, globals
  <2>5. CASE Signal
    <3>1. UNCHANGED <<at, i, count>> /\ (gotSigTerm => gotSigTerm')
      BY <2>5, Zenon DEF Signal
    <3>. QED
      BY <1>2, <3>1
  <2>6. CASE Tick \/ UNCHANGED vars
    BY <1>2, <2>6 DEF Tick, vars, globals
  <2>. QED
    BY <1>2, <2>1, <2>2, <2>3, <2>4, <2>5, <2>6 DEF Next, MainStep
<1>3. Reasons => StopsForAReason
  BY DEF Reasons
<1>. QED
  BY <1>1, <1>2, <1>3, OwnCorrect, PTL DEF Spec

(* What holds of the thread pool by itself holds of it in the program: once *)
(* started without a null handle it gets none later, no worker's loop flag  *)
(* is lost before the stop, and a stop that found all workers in their      *)
(* loops is not undone (RC_Main.cpp:328-366).                               *)
THEOREM ProgramStopsFinally ==
    Spec => SurvivedForGood /\ []WorkUntilStopped /\ StopIsFinal
  BY ImplementsPool, SafeOnceStarted, WorksUntilStopped, StopNeverUndone, PTL
=============================================================================
