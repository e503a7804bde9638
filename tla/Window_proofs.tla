---------------------------- MODULE Window_proofs ----------------------------
(***************************************************************************)
(* Proofs about Window.                                                    *)
(***************************************************************************)
EXTENDS Window, FiniteSetTheorems, SequenceTheorems, TLAPS

-----------------------------------------------------------------------------
(* The inductive invariant.  Who holds the mutex ... *)
Locking ==
    /\ mutex = "preview" <=> preview \in {"holding", "shown"}
    /\ mutex = "main" <=> main \in {"locked", "terminated"}
    /\ preview = "shown" => images # <<>>

(* ... how far main, the preview thread and the detector threads may be     *)
(* apart ...                                                                *)
Phases ==
    /\ ~doSmth => main \in {"stopping", "locked", "destroying", "exited", "terminated"}
    /\ main \in {"stopping", "locked", "exited"} => ~doSmth
    /\ preview = "ended" => ~doSmth
    /\ preview = "joined" => ~doSmth /\ main \in {"destroying", "exited"}
    /\ preview = "none" => main \notin {"running", "joining", "draining", "leaving"}
    /\ preview # "none" => main \notin {"begin", "terminated"}
    /\ main = "destroying" /\ preview # "none" => preview = "joined"

(* ... who still works ...                                                  *)
Over ==
    /\ preview = "none" => images = <<>> /\ \A w \in Workers : worker[w] = "starting"
    /\ preview # "none" /\ main \notin {"running", "joining"} =>
          \A w \in Workers : worker[w] = "ended"
    /\ main \notin {"running", "joining", "draining"} => images = <<>>

(* ... which images the detector threads hold ...                           *)
Holding ==
    /\ \A w \in Workers : worker[w] = "adding" => image[w] \in 1 .. analysed
    /\ \A v, w \in Workers :
          worker[v] = "adding" /\ worker[w] = "adding" /\ image[v] = image[w] => v = w

(* ... and the line of the images added, each once.                         *)
LineOf(s) ==
    /\ s \in Seq(1 .. analysed)
    /\ \A i, j \in 1 .. Len(s) : s[i] = s[j] => i = j
    /\ {s[i] : i \in 1 .. Len(s)} = Added

Control == Locking /\ Phases /\ Over /\ Holding

Inv == TypeOK /\ Control /\ LineOf(Line)

-----------------------------------------------------------------------------
(* The queue moves its images to the end of those shown, one by one.        *)
LEMMA AddAtEnd ==
    ASSUME NEW S, NEW s \in Seq(S), NEW t \in Seq(S), NEW x \in S
    PROVE  s \o Append(t, x) = Append(s \o t, x)
  BY ConcatAssociative, ConcatProperties, AppendIsConcat, SMT

LEMMA MoveHead ==
    ASSUME NEW S, NEW s \in Seq(S), NEW t \in Seq(S), t # <<>>
    PROVE  Append(s, Head(t)) \o Tail(t) = s \o t
<1>1. Head(t) \in S /\ Tail(t) \in Seq(S)
  BY HeadTailProperties
<1>2. t = <<Head(t)>> \o Tail(t)
  <2>1. <<Head(t)>> \in Seq(S)
    BY <1>1
  <2>2. /\ <<Head(t)>> \o Tail(t) \in Seq(S)
        /\ Len(<<Head(t)>> \o Tail(t)) = 1 + Len(Tail(t))
        /\ \A i \in 1 .. 1 + Len(Tail(t)) : (<<Head(t)>> \o Tail(t))[i] =
                IF i <= 1 THEN <<Head(t)>>[i] ELSE Tail(t)[i - 1]
    BY <1>1, <2>1, ConcatProperties
  <2>3. Len(Tail(t)) = Len(t) - 1 /\ \A i \in 1 .. Len(Tail(t)) : Tail(t)[i] = t[i + 1]
    BY HeadTailProperties
  <2>4. Head(t) = t[1] /\ Len(t) \in Nat
    OBVIOUS
  <2>5. \A i \in 1 .. Len(t) : (<<Head(t)>> \o Tail(t))[i] = t[i]
    BY <2>2, <2>3, <2>4
  <2>. QED
    BY <2>2, <2>3, <2>4, <2>5, SeqEqual
<1>3. Append(s, Head(t)) = s \o <<Head(t)>>
  BY <1>1, AppendIsConcat
<1>. QED
  BY <1>1, <1>2, <1>3, ConcatAssociative

(* A line of images without repetition that holds all of 1 .. n has length  *)
(* n.                                                                       *)
LEMMA LineLength ==
    ASSUME NEW n \in Nat, NEW s \in Seq(1 .. n),
           \A i, j \in 1 .. Len(s) : s[i] = s[j] => i = j,
           {s[i] : i \in 1 .. Len(s)} = 1 .. n
    PROVE  Len(s) = n
<1>1. Len(s) \in Nat /\ s \in [1 .. Len(s) -> 1 .. n]
  OBVIOUS
<1>2. s \in Injection(1 .. Len(s), 1 .. n)
  BY <1>1, Zenon DEF Injection, IsInjective
<1>3. s \in Surjection(1 .. Len(s), 1 .. n)
  BY <1>1 DEF Surjection
<1>4. s \in Bijection(1 .. Len(s), 1 .. n)
  BY <1>2, <1>3 DEF Bijection
<1>5. Cardinality(1 .. n) = Cardinality(1 .. Len(s)) /\ IsFiniteSet(1 .. Len(s))
  BY <1>1, <1>4, FS_Bijection, FS_Interval DEF ExistsBijection
<1>6. \A k \in Nat : Cardinality(1 .. k) = k
  <2>. SUFFICES ASSUME NEW k \in Nat PROVE Cardinality(1 .. k) = k
    OBVIOUS
  <2>1. Cardinality(1 .. k) = IF 1 > k THEN 0 ELSE k - 1 + 1
    <3>1. 1 \in Int /\ k \in Int
      OBVIOUS
    <3>. QED
      BY ONLY <3>1, FS_Interval
  <2>. QED
    BY <2>1
<1>. QED
  BY <1>1, <1>5, <1>6

LEMMA LineType == TypeOK /\ Locking => Waiting \in Seq(1 .. MaxImages)
  BY HeadTailProperties DEF TypeOK, Locking, Waiting

-----------------------------------------------------------------------------
LEMMA TypeInit == Init => TypeOK
<1>. SUFFICES ASSUME Init PROVE TypeOK
  OBVIOUS
<1>1. worker \in [Workers -> {"starting", "loop", "adding", "ended"}]
  BY DEF Init
<1>2. image \in [Workers -> 0 .. MaxImages]
  BY WindowAssumption DEF Init
<1>3. images \in Seq(1 .. MaxImages) /\ shown \in Seq(1 .. MaxImages)
  BY EmptySeq DEF Init
<1>4. /\ main \in MainStates /\ preview \in PreviewStates /\ mutex \in {"free", "preview", "main"}
      /\ analysed \in 0 .. MaxImages
  BY WindowAssumption DEF Init, MainStates, PreviewStates
<1>5. doLoop \in BOOLEAN /\ doSmth \in BOOLEAN
  BY Zenon DEF Init
<1>. QED
  BY <1>1, <1>2, <1>3, <1>4, <1>5 DEF TypeOK

LEMMA TypeStep == TypeOK /\ Locking /\ Holding /\ [Next]_vars => TypeOK'
<1>. SUFFICES ASSUME TypeOK, Locking, Holding, [Next]_vars PROVE TypeOK'
  OBVIOUS
<1>. USE WindowAssumption DEF TypeOK, MainStates, PreviewStates, workerVars, windowVars
<1>1. ASSUME NEW w \in Workers, Analyse(w) PROVE TypeOK'
  BY <1>1 DEF Analyse
<1>2. ASSUME NEW w \in Workers, AddImage(w) PROVE TypeOK'
  <2>1. image[w] \in 1 .. MaxImages
    BY <1>2 DEF AddImage, Holding
  <2>. QED
    BY <1>2, <2>1 DEF AddImage
<1>3. ASSUME NEW w \in Workers, SetLoop(w) \/ LeaveLoop(w) PROVE TypeOK'
  BY <1>3 DEF SetLoop, LeaveLoop
<1>4. CASE PreviewImage
  <2>1. Head(images) \in 1 .. MaxImages
    BY <1>4, HeadTailProperties DEF PreviewImage
  <2>. QED
    BY <1>4, <2>1 DEF PreviewImage, PreviewGoto
<1>5. CASE Pop
  <2>1. Tail(images) \in Seq(1 .. MaxImages)
    BY <1>5, HeadTailProperties DEF Pop, PreviewGoto, Locking
  <2>. QED
    BY <1>5, <2>1 DEF Pop, PreviewGoto
<1>6. CASE TestSmth \/ TryLock \/ NothingToShow
  BY <1>6 DEF TestSmth, TryLock, NothingToShow, PreviewGoto
<1>7. CASE MainStep
  BY <1>7 DEF MainStep, Run, OpenFails, StopThreads, Joined, Drained, Stop, StopLocks,
              JoinPreview, Destroy, PreviewGoto
<1>8. CASE UNCHANGED vars
  BY <1>8 DEF vars
<1>. QED
  BY <1>1, <1>2, <1>3, <1>4, <1>5, <1>6, <1>7, <1>8 DEF Next, WorkerStep, PreviewStep

-----------------------------------------------------------------------------
LEMMA ControlInit == Init => Control
  BY DEF Init, Control, Locking, Phases, Over, Holding

LEMMA LockingStep == TypeOK /\ Control /\ [Next]_vars => Locking'
<1>. SUFFICES ASSUME TypeOK, Control, [Next]_vars PROVE Locking'
  OBVIOUS
<1>. USE DEF TypeOK, Control, Locking, Phases, workerVars, windowVars
<1>1. ASSUME NEW w \in Workers, WorkerStep(w) PROVE Locking'
  BY <1>1 DEF WorkerStep, SetLoop, Analyse, AddImage, LeaveLoop
<1>2. CASE PreviewStep
  BY <1>2 DEF PreviewStep, TestSmth, TryLock, PreviewImage, NothingToShow, Pop, PreviewGoto
<1>3. CASE MainStep
  BY <1>3 DEF MainStep, Run, OpenFails, StopThreads, Joined, Drained, Stop, StopLocks,
              JoinPreview, Destroy, PreviewGoto
<1>4. CASE UNCHANGED vars
  BY <1>4 DEF vars
<1>. QED
  BY <1>1, <1>2, <1>3, <1>4 DEF Next

LEMMA PhasesStep == TypeOK /\ Control /\ [Next]_vars => Phases'
<1>. SUFFICES ASSUME TypeOK, Control, [Next]_vars PROVE Phases'
  OBVIOUS
<1>. USE DEF TypeOK, Control, Phases, MainStates, workerVars, windowVars
<1>1. ASSUME NEW w \in Workers, WorkerStep(w) PROVE Phases'
  BY <1>1 DEF WorkerStep, SetLoop, Analyse, AddImage, LeaveLoop
<1>2. CASE PreviewStep
  BY <1>2 DEF PreviewStep, TestSmth, TryLock, PreviewImage, NothingToShow, Pop, PreviewGoto
<1>3. CASE MainStep
  BY <1>3 DEF MainStep, Run, OpenFails, StopThreads, Joined, Drained, Stop, StopLocks,
              JoinPreview, Destroy, PreviewGoto
<1>4. CASE UNCHANGED vars
  BY <1>4 DEF vars
<1>. QED
  BY <1>1, <1>2, <1>3, <1>4 DEF Next

LEMMA OverStep == TypeOK /\ Control /\ [Next]_vars => Over'
<1>. SUFFICES ASSUME TypeOK, Control, [Next]_vars PROVE Over'
  OBVIOUS
<1>. USE DEF TypeOK, Control, Locking, Phases, Over, MainStates, PreviewStates,
             workerVars, windowVars
<1>1. ASSUME NEW w \in Workers, Analyse(w) PROVE Over'
  BY <1>1 DEF Analyse
<1>2. ASSUME NEW w \in Workers, AddImage(w) PROVE Over'
  BY <1>2 DEF AddImage
<1>3. ASSUME NEW w \in Workers, SetLoop(w) \/ LeaveLoop(w) PROVE Over'
  BY <1>3 DEF SetLoop, LeaveLoop
<1>4. CASE PreviewStep
  BY <1>4 DEF PreviewStep, TestSmth, TryLock, PreviewImage, NothingToShow, Pop, PreviewGoto
<1>5. CASE MainStep
  BY <1>5 DEF MainStep, Run, OpenFails, StopThreads, Joined, Drained, Stop, StopLocks,
              JoinPreview, Destroy, PreviewGoto
<1>6. CASE UNCHANGED vars
  BY <1>6 DEF vars
<1>. QED
  BY <1>1, <1>2, <1>3, <1>4, <1>5, <1>6 DEF Next, WorkerStep

LEMMA HoldingStep == TypeOK /\ Control /\ [Next]_vars => Holding'
<1>. SUFFICES ASSUME TypeOK, Control, [Next]_vars PROVE Holding'
  OBVIOUS
<1>. USE WindowAssumption DEF TypeOK, Control, Holding, workerVars, windowVars
<1>1. ASSUME NEW w \in Workers, Analyse(w) PROVE Holding'
  BY <1>1 DEF Analyse
<1>2. ASSUME NEW w \in Workers, AddImage(w) PROVE Holding'
  BY <1>2 DEF AddImage
<1>3. ASSUME NEW w \in Workers, SetLoop(w) \/ LeaveLoop(w) PROVE Holding'
  BY <1>3 DEF SetLoop, LeaveLoop
<1>4. CASE PreviewStep
  BY <1>4 DEF PreviewStep, TestSmth, TryLock, PreviewImage, NothingToShow, Pop, PreviewGoto
<1>5. CASE MainStep
  BY <1>5 DEF MainStep, Run, OpenFails, StopThreads, Joined, Drained, Stop, StopLocks,
              JoinPreview, Destroy, PreviewGoto
<1>6. CASE UNCHANGED vars
  BY <1>6 DEF vars
<1>. QED
  BY <1>1, <1>2, <1>3, <1>4, <1>5, <1>6 DEF Next, WorkerStep

LEMMA ControlStep == TypeOK /\ Control /\ [Next]_vars => Control'
  BY LockingStep, PhasesStep, OverStep, HoldingStep DEF Control

-----------------------------------------------------------------------------
(* What each step does to the line: an addImage lengthens it by the image   *)
(* its thread held, every other step leaves it.                             *)
LEMMA LineAdds ==
    ASSUME TypeOK, Control, NEW w \in Workers, AddImage(w)
    PROVE  /\ worker[w] = "adding" /\ worker'[w] # "adding"
           /\ Line' = Append(Line, image[w])
<1>1. /\ worker[w] = "adding" /\ worker' = [worker EXCEPT ![w] = "loop"]
      /\ images' = Append(images, image[w]) /\ shown' = shown /\ preview' = preview
      /\ preview # "shown"
  BY DEF AddImage, Control, Locking
<1>2. image[w] \in 1 .. MaxImages
  BY <1>1, WindowAssumption DEF TypeOK, Control, Holding
<1>3. Line = shown \o images /\ Line' = shown \o Append(images, image[w])
  BY <1>1 DEF Line, Waiting
<1>4. shown \o Append(images, image[w]) = Append(shown \o images, image[w])
  BY <1>2, AddAtEnd DEF TypeOK
<1>. QED
  BY <1>1, <1>3, <1>4 DEF TypeOK

LEMMA LineKept ==
    ASSUME TypeOK, Control, [Next]_vars, ~ \E w \in Workers : AddImage(w)
    PROVE  Line' = Line
<1>. USE DEF Line, Waiting, workerVars, windowVars
<1>1. ASSUME NEW w \in Workers, SetLoop(w) \/ Analyse(w) \/ LeaveLoop(w) PROVE Line' = Line
  BY <1>1 DEF SetLoop, Analyse, LeaveLoop
<1>2. CASE PreviewImage
  <2>1. /\ preview # "shown" /\ preview' = "shown" /\ images # <<>> /\ images' = images
        /\ shown' = Append(shown, Head(images))
    BY <1>2 DEF PreviewImage, PreviewGoto
  <2>2. Append(shown, Head(images)) \o Tail(images) = shown \o images
    BY <2>1, MoveHead DEF TypeOK
  <2>. QED
    BY <2>1, <2>2
<1>3. CASE Pop
  BY <1>3 DEF Pop, PreviewGoto
<1>4. CASE TestSmth \/ TryLock \/ NothingToShow
  BY <1>4 DEF TestSmth, TryLock, NothingToShow, PreviewGoto
<1>5. CASE MainStep
  BY <1>5 DEF MainStep, Run, OpenFails, StopThreads, Joined, Drained, Stop, StopLocks,
              JoinPreview, Destroy, PreviewGoto
<1>6. CASE UNCHANGED vars
  BY <1>6 DEF vars
<1>. QED
  BY <1>1, <1>2, <1>3, <1>4, <1>5, <1>6 DEF Next, WorkerStep, PreviewStep

(* Only the detector threads' steps change which images were added.         *)
LEMMA AddedKept ==
    ASSUME TypeOK, Control, [Next]_vars, ~ \E w \in Workers : AddImage(w)
    PROVE  Added' = Added /\ analysed' \in Nat /\ analysed <= analysed'
<1>. USE WindowAssumption DEF Added, TypeOK, workerVars, windowVars
<1>1. ASSUME NEW w \in Workers, Analyse(w)
      PROVE  Added' = Added /\ analysed' \in Nat /\ analysed <= analysed'
  <2>1. /\ analysed' = analysed + 1 /\ worker[w] = "loop"
        /\ worker' = [worker EXCEPT ![w] = "adding"]
        /\ image' = [image EXCEPT ![w] = analysed + 1]
    BY <1>1 DEF Analyse
  <2>2. \A i \in 1 .. analysed : i \in Added <=> i \in Added'
    BY <2>1
  <2>3. analysed + 1 \notin Added'
    BY <2>1
  <2>4. Added \subseteq 1 .. analysed /\ Added' \subseteq 1 .. analysed + 1
    BY <2>1
  <2>. QED
    BY <2>1, <2>2, <2>3, <2>4
<1>2. ASSUME NEW w \in Workers, SetLoop(w) \/ LeaveLoop(w)
      PROVE  Added' = Added /\ analysed' \in Nat /\ analysed <= analysed'
  BY <1>2 DEF SetLoop, LeaveLoop
<1>3. CASE PreviewStep \/ MainStep
  BY <1>3 DEF PreviewStep, TestSmth, TryLock, PreviewImage, NothingToShow, Pop, PreviewGoto,
              MainStep, Run, OpenFails, StopThreads, Joined, Drained, Stop, StopLocks,
              JoinPreview, Destroy
<1>4. CASE UNCHANGED vars
  BY <1>4 DEF vars
<1>. QED
  BY <1>1, <1>2, <1>3, <1>4 DEF Next, WorkerStep

LEMMA AddedGrows ==
    ASSUME TypeOK, Control, NEW w \in Workers, AddImage(w)
    PROVE  /\ image[w] \in 1 .. analysed /\ image[w] \notin Added
           /\ Added' = Added \cup {image[w]} /\ analysed' = analysed
<1>. USE DEF Added, TypeOK, Control, Holding
<1>1. /\ worker[w] = "adding" /\ worker' = [worker EXCEPT ![w] = "loop"]
      /\ image' = image /\ analysed' = analysed
  BY DEF AddImage
<1>2. image[w] \in 1 .. analysed /\ image[w] \notin Added
  BY <1>1
<1>3. \A i \in 1 .. analysed : i \in Added' <=> i \in Added \/ i = image[w]
  <2>1. SUFFICES ASSUME NEW i \in 1 .. analysed
                 PROVE  i \in Added' <=> i \in Added \/ i = image[w]
    OBVIOUS
  <2>2. i \in Added' <=> \A v \in Workers : v # w /\ worker[v] = "adding" => image[v] # i
    BY <1>1
  <2>3. i \in Added <=> \A v \in Workers : worker[v] = "adding" => image[v] # i
    OBVIOUS
  <2>4. CASE i = image[w]
    BY <1>1, <2>2, <2>4
  <2>5. CASE i # image[w]
    BY <1>1, <2>2, <2>3, <2>5
  <2>. QED
    BY <2>4, <2>5
<1>4. Added \subseteq 1 .. analysed /\ Added' \subseteq 1 .. analysed
  BY <1>1
<1>. QED
  BY <1>1, <1>2, <1>3, <1>4

LEMMA LineStep == TypeOK /\ Control /\ LineOf(Line) /\ [Next]_vars => LineOf(Line)'
<1>. SUFFICES ASSUME TypeOK, Control, LineOf(Line), [Next]_vars PROVE LineOf(Line)'
  OBVIOUS
<1>1. ASSUME NEW w \in Workers, AddImage(w) PROVE LineOf(Line)'
  <2>. DEFINE x == image[w]
              n == Len(Line)
  <2>1. Line' = Append(Line, x)
    BY <1>1, LineAdds
  <2>2. x \in 1 .. analysed /\ x \notin Added /\ Added' = Added \cup {x} /\ analysed' = analysed
    BY <1>1, AddedGrows
  <2>3. /\ Line \in Seq(1 .. analysed)
        /\ \A i, j \in 1 .. n : Line[i] = Line[j] => i = j
        /\ {Line[i] : i \in 1 .. n} = Added
    BY DEF LineOf
  <2>4. /\ Line' \in Seq(1 .. analysed) /\ Len(Line') = n + 1 /\ n \in Nat
        /\ \A i \in 1 .. n : Line'[i] = Line[i]
        /\ Line'[n + 1] = x
    BY <2>1, <2>2, <2>3, AppendProperties
  <2>5. \A i \in 1 .. n : Line[i] # x
    BY <2>2, <2>3
  <2>. HIDE DEF n, x
  <2>6. \A i, j \in 1 .. n + 1 : Line'[i] = Line'[j] => i = j
    <3>1. \A i \in 1 .. n + 1 : i \in 1 .. n \/ i = n + 1
      BY <2>4
    <3>. QED
      BY <2>3, <2>4, <2>5, <3>1
  <2>7. {Line'[i] : i \in 1 .. n + 1} = {Line[i] : i \in 1 .. n} \cup {x}
    <3>1. 1 .. n + 1 = (1 .. n) \cup {n + 1}
      BY <2>4
    <3>. QED
      BY <2>4, <3>1
  <2>. QED
    BY <2>2, <2>3, <2>4, <2>6, <2>7 DEF LineOf
<1>2. ASSUME ~ \E w \in Workers : AddImage(w) PROVE LineOf(Line)'
  <2>1. Line' = Line /\ Added' = Added /\ analysed' \in Nat /\ analysed <= analysed'
    BY <1>2, LineKept, AddedKept
  <2>2. 1 .. analysed \subseteq 1 .. analysed'
    BY <2>1 DEF TypeOK
  <2>3. Line' \in Seq(1 .. analysed')
    <3>. DEFINE S == 1 .. analysed
                T == 1 .. analysed'
    <3>1. Line \in Seq(S) /\ S \subseteq T
      BY <2>2 DEF LineOf
    <3>. HIDE DEF S, T
    <3>2. Line \in Seq(T)
      BY <3>1
    <3>. QED
      BY <2>1, <3>2 DEF T
  <2>. QED
    BY <2>1, <2>3 DEF LineOf
<1>. QED
  BY <1>1, <1>2

LEMMA LineInit == Init => LineOf(Line)
<1>. SUFFICES ASSUME Init PROVE LineOf(Line)
  OBVIOUS
<1>1. Line = <<>> /\ analysed = 0
  BY ConcatEmptySeq DEF Init, Line, Waiting
<1>2. Added = {} /\ <<>> \in Seq(1 .. analysed)
  BY <1>1 DEF Added
<1>. QED
  BY <1>1, <1>2 DEF LineOf

LEMMA Invariance == Spec => []Inv
<1>1. Init => Inv
  BY TypeInit, ControlInit, LineInit DEF Inv
<1>2. Inv /\ [Next]_vars => Inv'
  BY TypeStep, ControlStep, LineStep DEF Inv, Control
<1>. QED
  BY <1>1, <1>2, PTL DEF Spec

-----------------------------------------------------------------------------
(* Every state of the window and of its threads is of its type.             *)
THEOREM WindowTypes == Spec => []TypeOK
<1>1. Inv => TypeOK
  BY DEF Inv
<1>. QED
  BY <1>1, Invariance, PTL

(* Once stop() has joined the preview thread, every image a detector thread *)
(* analysed was shown, each once, for any number of detector threads and    *)
(* images: the drain in stopThreads reads the queue without the mutex and   *)
(* still leaves nothing behind.                                             *)
THEOREM AllImagesShown == Spec => []AllShown
<1>1. Inv => AllShown
  <2>. SUFFICES ASSUME Inv, preview = "joined"
                PROVE  /\ Len(shown) = analysed
                       /\ {shown[i] : i \in 1 .. Len(shown)} = Added
    BY DEF AllShown
  <2>1. images = <<>> /\ \A w \in Workers : worker[w] = "ended"
    BY DEF Inv, Control, Phases, Over
  <2>2. Line = shown
    BY <2>1, ConcatEmptySeq DEF Line, Waiting, Inv, TypeOK
  <2>3. Added = 1 .. analysed
    BY <2>1 DEF Added
  <2>4. analysed \in Nat
    BY WindowAssumption DEF Inv, TypeOK
  <2>. QED
    BY <2>2, <2>3, <2>4, LineLength DEF Inv, LineOf
<1>. QED
  BY <1>1, Invariance, PTL

(* Images are shown in the order in which addImage queued them, none is     *)
(* dropped and none comes back.                                             *)
THEOREM ShownAsAdded == Spec => ShownInOrder
<1>1. Inv /\ [Next]_vars =>
        [\/ Line' = Line
         \/ \E w \in Workers : /\ worker[w] = "adding" /\ worker'[w] # "adding"
                               /\ Line' = Append(Line, image[w])]_vars
  BY LineAdds, LineKept DEF Inv
<1>. QED
  BY <1>1, Invariance, PTL DEF Spec, ShownInOrder

(* stop() joins a preview thread that no longer needs the mutex stop()      *)
(* holds, and join() throws only for a window that never ran.               *)
THEOREM JoinsSafely == Spec => []JoinIsSafe
<1>1. Inv => JoinIsSafe
  BY DEF Inv, Control, Locking, Phases, JoinIsSafe, TypeOK, PreviewStates
<1>. QED
  BY <1>1, Invariance, PTL
==============================================================================
