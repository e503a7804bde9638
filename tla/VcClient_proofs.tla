--------------------------- MODULE VcClient_proofs --------------------------
(***************************************************************************)
(* Proofs about VcClient, for any number of threads, waiters and messages: *)
(* the service is used exactly while a call or a component needs it, as    *)
(* far as VCHIQ does not refuse; every caller gets the answer to its own   *)
(* message and every bulk message arrives with its own bulk, as long as no *)
(* bulk transfer fails.                                                    *)
(***************************************************************************)
EXTENDS VcClient, FiniteSetTheorems, SequenceTheorems, TLAPS

States == HasWaiter \cup {"out", "entered", "idle", "lock", "take", "scan", "send", "sendbulk", "post"}

At(S) == {u \in Threads : pc[u] \in S}

Inside == States \ {"out"}
Using  == InUse \cup {"entered"}

(* refcount counts the threads inside; only they have components. *)
Counters ==
    /\ pc \in [Threads -> States]
    /\ usecount \in Int
    /\ refcount = Cardinality(At(Inside))
    /\ holders \subseteq At(Inside)

(* How many calls and components need the service.  A use that fails makes  *)
(* usecount too low, a release that fails makes it too high.                *)
Uses == Cardinality(At(Using)) + Cardinality(holders)

Fits(n, count, use, fail, refs) ==
    /\ refs = 0 => ~use
    /\ "use" \notin fail => count >= n /\ (refs # 0 => (use <=> count # 0))
    /\ "release" \notin fail => count <= n /\ (use => count > 0)

Counted == Fits(Uses, usecount, used, failed, refcount)

-----------------------------------------------------------------------------
LEMMA AtFinite ==
    ASSUME NEW S
    PROVE  /\ IsFiniteSet(At(S)) /\ Cardinality(At(S)) \in Nat
           /\ Cardinality(At(S)) = 0 <=> At(S) = {}
<1>1. IsFiniteSet(At(S))
  BY ClientAssumption, FS_Subset DEF At
<1> QED BY <1>1, FS_CardinalityType, FS_EmptySet

(* How these sets change when a thread goes on. *)
LEMMA Moves ==
    ASSUME pc \in [Threads -> States], NEW t \in Threads, NEW s, pc' = [pc EXCEPT ![t] = s], NEW S
    PROVE  Cardinality(At(S)') =
               IF s \in S /\ pc[t] \notin S THEN Cardinality(At(S)) + 1
               ELSE IF s \notin S /\ pc[t] \in S THEN Cardinality(At(S)) - 1
               ELSE Cardinality(At(S))
<1>1. IsFiniteSet(At(S)) /\ Cardinality(At(S)) \in Nat
  BY AtFinite
<1>2. At(S)' = IF s \in S THEN At(S) \cup {t} ELSE At(S) \ {t}
  BY DEF At
<1>3. t \in At(S) <=> pc[t] \in S
  BY DEF At
<1>4. CASE s \in S
  <2>1. Cardinality(At(S) \cup {t}) =
            IF t \in At(S) THEN Cardinality(At(S)) ELSE Cardinality(At(S)) + 1
    BY <1>1, FS_AddElement
  <2> QED BY <1>2, <1>3, <1>4, <2>1
<1>5. CASE s \notin S
  <2>1. Cardinality(At(S) \ {t}) =
            IF t \in At(S) THEN Cardinality(At(S)) - 1 ELSE Cardinality(At(S))
    BY <1>1, FS_RemoveElement
  <2> QED BY <1>2, <1>3, <1>5, <2>1
<1> QED BY <1>4, <1>5

LEMMA Places ==
    /\ "entered" \in Inside /\ "idle" \in Inside /\ "out" \notin Inside
    /\ "entered" \in Using /\ "idle" \notin Using /\ "out" \notin Using
    /\ Inside \subseteq States /\ "out" \in States
BY DEF Inside, Using, InUse, States, HasWaiter

(* Nobody is in a call of a client that is not initialised. *)
LEMMA AllOut ==
    ASSUME Counters, refcount = 0
    PROVE  /\ \A t \in Threads : pc[t] = "out"
           /\ Cardinality(At(Using)) = 0
<1>1. At(Inside) = {}
  BY AtFinite DEF Counters
<1>2. \A t \in Threads : pc[t] = "out"
  BY <1>1 DEF At, Inside, Counters
<1>3. At(Using) = {}
  BY <1>2 DEF At, Using, InUse
<1> QED BY <1>2, <1>3, AtFinite

(* The steps of a thread inside the client, and where they lead. *)
Inner(t) ==
    \/ InitReleases(t) \/ LockBulk(t) \/ TakeToken(t) \/ Scan(t) \/ UseService(t)
    \/ QueueMessage(t) \/ QueueFails(t) \/ QueueBulk(t) \/ BulkFails(t) \/ Wake(t)
    \/ ReleaseService(t) \/ FreeWaiter(t) \/ PostToken(t) \/ Begin(t)

LEMMA InnerMoves ==
    ASSUME Counters, NEW t \in Threads, Inner(t)
    PROVE  /\ refcount' = refcount /\ holders' = holders
           /\ pc[t] \in Inside
           /\ \E s \in Inside :
                  /\ pc' = [pc EXCEPT ![t] = s]
                  /\ \/ Use /\ pc[t] \notin Using /\ s \in Using
                     \/ Release /\ pc[t] \in Using /\ s \notin Using
                     \/ /\ UNCHANGED <<usecount, used>>
                        /\ failed' = failed \/ failed' = failed \cup {"bulk"}
                        /\ pc[t] \in Using <=> s \in Using
<1> USE DEF Goto, Continue, Return, EndCall, Inside, Using, InUse, States, HasWaiter, client, service, After
<1>1. CASE InitReleases(t) \/ UseService(t) \/ ReleaseService(t)
  BY <1>1 DEF InitReleases, UseService, ReleaseService
<1>2. CASE LockBulk(t) \/ TakeToken(t) \/ Wake(t) \/ FreeWaiter(t) \/ PostToken(t)
  BY <1>2 DEF LockBulk, TakeToken, Wake, FreeWaiter, PostToken
<1>3. CASE Scan(t)
  BY <1>3 DEF Scan
<1>4. CASE QueueMessage(t)
  BY <1>4 DEF QueueMessage
<1>5. CASE QueueFails(t) \/ QueueBulk(t)
  BY <1>5 DEF QueueFails, QueueBulk
<1>6. CASE BulkFails(t)
  BY <1>6 DEF BulkFails
<1>7. CASE Begin(t)
  <2>1. PICK k \in Kinds : Goto(t, "idle", IF k.bulk THEN "lock" ELSE After(k))
    BY <1>7 DEF Begin
  <2>2. (IF k.bulk THEN "lock" ELSE After(k)) \in {"lock", "take", "send"}
    OBVIOUS
  <2> QED BY <1>7, <2>1, <2>2 DEF Begin
<1> QED BY <1>1, <1>2, <1>3, <1>4, <1>5, <1>6, <1>7 DEF Inner

(* What mmal_vc_use_internal and mmal_vc_release_internal do to usecount,   *)
(* for one that needs the service more, or less.                            *)
LEMMA UseFits ==
    ASSUME NEW n \in Nat, usecount \in Int, refcount # 0, Use,
           Fits(n, usecount, used, failed, refcount)
    PROVE  usecount' \in Int /\ Fits(n + 1, usecount', used', failed', refcount)
<1>1. \/ usecount' = usecount + 1 /\ (used' <=> used \/ usecount = 0) /\ failed' = failed
      \/ usecount = 0 /\ usecount' = usecount /\ (used' <=> used) /\ failed' = failed \cup {"use"}
  BY Zenon DEF Use
<1> QED BY <1>1 DEF Fits

LEMMA ReleaseFits ==
    ASSUME NEW n \in Nat \ {0}, usecount \in Int, refcount # 0, Release,
           Fits(n, usecount, used, failed, refcount)
    PROVE  usecount' \in Int /\ Fits(n - 1, usecount', used', failed', refcount)
<1>1. \/ usecount' = usecount - 1 /\ (used' <=> used /\ usecount # 1) /\ failed' = failed
      \/ usecount = 1 /\ usecount' = usecount /\ (used' <=> used) /\ failed' = failed \cup {"release"}
  BY Zenon DEF Release
<1> QED BY <1>1 DEF Fits

LEMMA UsesFinite ==
    ASSUME Counters
    PROVE  /\ IsFiniteSet(holders) /\ Cardinality(holders) \in Nat
           /\ Cardinality(holders) = 0 <=> holders = {}
           /\ Uses \in Nat
<1>1. IsFiniteSet(holders)
  BY ClientAssumption, FS_Subset DEF Counters, At
<1> QED BY <1>1, AtFinite, FS_CardinalityType, FS_EmptySet DEF Uses

LEMMA NoUses ==
    ASSUME Counters, refcount = 0
    PROVE  holders = {} /\ Uses = 0
<1>1. holders = {}
  BY AllOut DEF Counters, At, Inside
<1> QED BY <1>1, AllOut, UsesFinite DEF Uses

LEMMA CountersStep ==
    ASSUME Counters, [Next]_vars
    PROVE  Counters' /\ (Counted => Counted')
<1> DEFINE i == Cardinality(At(Inside))
           n == Cardinality(At(Using))
           h == Cardinality(holders)
<1>0. i \in Nat /\ n \in Nat /\ h \in Nat /\ refcount = i /\ usecount \in Int /\ Uses = n + h
  BY AtFinite, UsesFinite DEF Counters, Uses
<1>h. \A t \in Threads : t \in holders => pc[t] \in Inside
  BY DEF Counters, At
<1>1. CASE UNCHANGED vars \/ VideoCore
  <2>1. UNCHANGED <<pc, refcount, usecount, used, holders, failed>>
    BY <1>1 DEF vars, client, service, VideoCore, Receive, CopyAnswer, PostWaiter
  <2> QED BY <2>1 DEF Counters, Counted, Uses, At
<1>2. ASSUME NEW t \in Threads, Inner(t)
      PROVE  Counters' /\ (Counted => Counted')
  <2>1. PICK s \in Inside :
                  /\ pc' = [pc EXCEPT ![t] = s]
                  /\ \/ Use /\ pc[t] \notin Using /\ s \in Using
                     \/ Release /\ pc[t] \in Using /\ s \notin Using
                     \/ /\ UNCHANGED <<usecount, used>>
                        /\ failed' = failed \/ failed' = failed \cup {"bulk"}
                        /\ pc[t] \in Using <=> s \in Using
    BY <1>2, InnerMoves
  <2>2. refcount' = refcount /\ holders' = holders /\ pc[t] \in Inside
    BY <1>2, InnerMoves
  <2>3. i' = i
    BY <2>1, <2>2, Moves DEF Counters
  <2>4. pc' \in [Threads -> States] /\ holders' \subseteq At(Inside)'
    BY <2>1, <2>2, <1>h DEF Counters, At, Inside
  <2>5. n' = IF s \in Using /\ pc[t] \notin Using THEN n + 1
             ELSE IF s \notin Using /\ pc[t] \in Using THEN n - 1 ELSE n
    BY <2>1, Moves DEF Counters
  <2>6. pc[t] \in Using => n # 0
    <3>1. pc[t] \in Using => At(Using) # {}
      BY DEF At
    <3> QED BY <3>1, AtFinite
  <2>7. refcount # 0
    BY <2>2, AllOut DEF Inside
  <2>8. Uses' = n' + h
    BY <2>2 DEF Uses
  <2> HIDE DEF i, n, h
  <2>9. usecount' \in Int
    <3>1. usecount' \in {usecount, usecount + 1, usecount - 1}
      BY <2>1 DEF Use, Release
    <3> QED BY <1>0, <3>1
  <2>10. Counters'
    BY <1>0, <2>2, <2>3, <2>4, <2>9 DEF Counters, i
  <2>11. ASSUME Counted PROVE Counted'
    <3>0. Fits(Uses, usecount, used, failed, refcount) /\ Uses \in Nat
      BY <1>0, <2>11 DEF Counted
    <3>1. CASE Use /\ pc[t] \notin Using /\ s \in Using
      <4>1. Uses' = Uses + 1
        BY <1>0, <2>5, <2>8, <3>1
      <4>2. Fits(Uses + 1, usecount', used', failed', refcount)
        BY <1>0, <2>7, <3>0, <3>1, UseFits
      <4> QED BY <2>2, <4>1, <4>2 DEF Counted
    <3>2. CASE Release /\ pc[t] \in Using /\ s \notin Using
      <4>1. Uses' = Uses - 1 /\ Uses \in Nat \ {0}
        BY <1>0, <2>5, <2>6, <2>8, <3>2
      <4>2. Fits(Uses - 1, usecount', used', failed', refcount)
        BY <1>0, <2>7, <3>0, <3>2, <4>1, ReleaseFits
      <4> QED BY <2>2, <4>1, <4>2 DEF Counted
    <3>3. CASE /\ UNCHANGED <<usecount, used>>
               /\ failed' = failed \/ failed' = failed \cup {"bulk"}
               /\ pc[t] \in Using <=> s \in Using
      <4>1. Uses' = Uses
        BY <1>0, <2>5, <2>8, <3>3
      <4>2. ("use" \in failed' <=> "use" \in failed) /\ ("release" \in failed' <=> "release" \in failed)
        BY <3>3
      <4> QED BY <2>2, <3>0, <3>3, <4>1, <4>2 DEF Counted, Fits
    <3> QED BY <2>1, <3>1, <3>2, <3>3
  <2> QED BY <2>10, <2>11
<1>3. ASSUME NEW t \in Threads, Hold(t) \/ LetGo(t)
      PROVE  Counters' /\ (Counted => Counted')
  <2>1. /\ pc[t] = "idle" /\ pc' = pc /\ refcount' = refcount
        /\ \/ t \notin holders /\ holders' = holders \cup {t} /\ Use
           \/ t \in holders /\ holders' = holders \ {t} /\ Release
    BY <1>3 DEF Hold, LetGo
  <2>2. n' = n /\ i' = i /\ At(Inside)' = At(Inside) /\ t \in At(Inside)
    BY <2>1, Places DEF At
  <2>3. refcount # 0
    BY <2>1, AllOut
  <2>4. h' = IF t \in holders THEN h - 1 ELSE h + 1
    BY <2>1, UsesFinite, FS_AddElement, FS_RemoveElement
  <2>5. t \in holders => h # 0
    BY UsesFinite
  <2>6. Uses' = n + h'
    BY <2>2 DEF Uses
  <2>7. Counters'
    <3>1. usecount' \in {usecount, usecount + 1, usecount - 1}
      BY <2>1 DEF Use, Release
    <3>2. usecount' \in Int
      BY <1>0, <3>1
    <3>3. holders' \subseteq At(Inside)'
      BY <2>1, <2>2 DEF Counters
    <3> QED BY <2>1, <2>2, <3>2, <3>3 DEF Counters
  <2> HIDE DEF i, n, h
  <2>8. ASSUME Counted PROVE Counted'
    <3>0. Fits(Uses, usecount, used, failed, refcount) /\ Uses \in Nat
      BY <1>0, <2>8 DEF Counted
    <3>1. CASE t \notin holders /\ Use
      <4>1. Uses' = Uses + 1
        BY <1>0, <2>4, <2>6, <3>1
      <4>2. Fits(Uses + 1, usecount', used', failed', refcount)
        BY <1>0, <2>3, <3>0, <3>1, UseFits
      <4> QED BY <2>1, <4>1, <4>2 DEF Counted
    <3>2. CASE t \in holders /\ Release
      <4>1. Uses' = Uses - 1 /\ Uses \in Nat \ {0}
        BY <1>0, <2>4, <2>5, <2>6, <3>2
      <4>2. Fits(Uses - 1, usecount', used', failed', refcount)
        BY <1>0, <2>3, <3>0, <3>2, <4>1, ReleaseFits
      <4> QED BY <2>1, <4>1, <4>2 DEF Counted
    <3> QED BY <2>1, <3>1, <3>2
  <2> QED BY <2>7, <2>8
<1>4. ASSUME NEW t \in Threads, InitFirst(t)
      PROVE  Counters' /\ (Counted => Counted')
  <2>1. /\ refcount = 0 /\ refcount' = 1 /\ pc[t] = "out" /\ pc' = [pc EXCEPT ![t] = "entered"]
        /\ usecount' = 1 /\ used' = TRUE /\ holders' = holders
    BY <1>4 DEF InitFirst, Goto
  <2>2. i = 0 /\ n = 0 /\ h = 0 /\ holders = {}
    BY <2>1, AllOut, NoUses, UsesFinite, <1>0
  <2>3. i' = i + 1 /\ n' = n + 1
    BY <2>1, Moves, Places DEF Counters
  <2>4. pc' \in [Threads -> States] /\ h' = h
    BY <2>1, Places DEF Counters
  <2>5. Uses' = n' + h'
    BY DEF Uses
  <2> HIDE DEF i, n, h
  <2>6. i' = 1 /\ Uses' = 1
    BY <2>2, <2>3, <2>4, <2>5
  <2>7. Counters'
    BY <2>1, <2>2, <2>4, <2>6 DEF Counters, i
  <2>8. Counted'
    BY <2>1, <2>6 DEF Counted, Fits
  <2> QED BY <2>7, <2>8
<1>5. ASSUME NEW t \in Threads, InitMore(t)
      PROVE  Counters' /\ (Counted => Counted')
  <2>1. /\ refcount > 0 /\ refcount' = refcount + 1
        /\ pc[t] = "out" /\ pc' = [pc EXCEPT ![t] = "idle"]
        /\ UNCHANGED <<usecount, used, failed, holders>>
    BY <1>5 DEF InitMore, Goto, service
  <2>2. i' = i + 1 /\ n' = n /\ h' = h
    BY <2>1, Moves, Places DEF Counters
  <2>3. pc' \in [Threads -> States] /\ holders' \subseteq At(Inside)'
    BY <2>1, <1>h, Places DEF Counters, At
  <2>4. Uses' = n' + h'
    BY DEF Uses
  <2> HIDE DEF i, n, h
  <2>5. Counters'
    BY <1>0, <2>1, <2>2, <2>3 DEF Counters, i
  <2>6. Uses' = Uses /\ refcount # 0 /\ refcount' # 0
    BY <1>0, <2>1, <2>2, <2>4
  <2>7. Counted => Counted'
    BY <2>1, <2>6 DEF Counted, Fits
  <2> QED BY <2>5, <2>7
<1>6. ASSUME NEW t \in Threads, InitFails(t)
      PROVE  Counters' /\ (Counted => Counted')
  <2>1. /\ refcount = 0 /\ usecount' \in {usecount, 0}
        /\ UNCHANGED <<refcount, used, pc, holders, failed>>
    BY <1>6 DEF InitFails
  <2>2. Uses = 0 /\ Uses' = Uses
    BY <2>1, NoUses DEF Uses, At
  <2>3. Counters'
    <3>1. usecount' \in Int
      BY <1>0, <2>1
    <3> QED BY <2>1, <3>1 DEF Counters, At
  <2>4. Counted => Counted'
    BY <1>0, <2>1, <2>2 DEF Counted, Fits
  <2> QED BY <2>3, <2>4
<1>7. ASSUME NEW t \in Threads, Deinit(t)
      PROVE  Counters' /\ (Counted => Counted')
  <2>1. /\ refcount' = refcount - 1 /\ pc[t] = "idle" /\ pc' = [pc EXCEPT ![t] = "out"]
        /\ t \notin holders
        /\ UNCHANGED <<usecount, holders, failed>>
    BY <1>7 DEF Deinit, Goto
  <2>2. i' = i - 1 /\ n' = n /\ h' = h
    BY <2>1, Moves, Places DEF Counters
  <2>3. pc' \in [Threads -> States] /\ holders' \subseteq At(Inside)'
    BY <2>1, <1>h, Places DEF Counters, At
  <2>4. Uses' = n' + h'
    BY DEF Uses
  <2>5. refcount # 0
    BY <2>1, AllOut
  <2> HIDE DEF i, n, h
  <2>6. Counters'
    BY <1>0, <2>1, <2>2, <2>3 DEF Counters, i
  <2>7. Uses' = Uses
    BY <1>0, <2>2, <2>4
  <2>8. CASE refcount = 1
    <3>1. used' = FALSE /\ refcount' = 0
      BY <1>7, <2>1, <2>8 DEF Deinit
    <3> QED BY <2>1, <2>6, <2>7, <3>1 DEF Counted, Fits
  <2>9. CASE refcount # 1
    <3>1. used' = used /\ refcount' # 0
      BY <1>0, <1>7, <2>1, <2>9 DEF Deinit
    <3> QED BY <2>1, <2>5, <2>6, <2>7, <3>1 DEF Counted, Fits
  <2> QED BY <2>8, <2>9
<1> QED BY <1>1, <1>2, <1>3, <1>4, <1>5, <1>6, <1>7 DEF Next, Enter, Step, Fail, Inner

LEMMA CountersInit == Init => Counters /\ Counted
<1> SUFFICES ASSUME Init PROVE Counters /\ Counted
  OBVIOUS
<1>1. At(Inside) = {} /\ At(Using) = {} /\ holders = {}
  BY DEF Init, At, Inside, Using, InUse
<1>2. Cardinality(At(Inside)) = 0 /\ Cardinality(At(Using)) = 0 /\ Cardinality(holders) = 0
  BY <1>1, FS_EmptySet
<1>3. Counters
  BY <1>1, <1>2 DEF Init, Counters, States
<1>4. Uses = 0
  BY <1>2 DEF Uses
<1>5. Counted
  BY <1>4 DEF Counted, Fits, Init
<1> QED BY <1>3, <1>5

LEMMA CountersCorrect == Spec => []Counters
<1> QED BY CountersInit, CountersStep, PTL DEF Spec

-----------------------------------------------------------------------------
(* The service is used as long as a call or a component needs it, unless    *)
(* vchiq_use_service has failed, and no longer, unless                      *)
(* vchiq_release_service has (mmal_vc_client.c:276-306, 555, 595, 603,      *)
(* 680-694 and 738-773), for any number of threads, waiters and components. *)
THEOREM ServiceUsed == Spec => []UsedWhileNeeded
<1>1. Counters /\ Counted => UsedWhileNeeded
  <2> SUFFICES ASSUME Counters, Counted PROVE UsedWhileNeeded
    OBVIOUS
  <2>1. /\ Cardinality(At(Using)) \in Nat /\ (Cardinality(At(Using)) # 0 <=> At(Using) # {})
        /\ Cardinality(holders) \in Nat /\ (Cardinality(holders) # 0 <=> holders # {})
    BY AtFinite, UsesFinite
  <2>2. Uses \in Nat /\ (Uses # 0 <=> At(Using) # {} \/ holders # {})
    BY <2>1 DEF Uses
  <2>3. Uses # 0 <=> Needed
    BY <2>2 DEF Needed, Using, At, Counters
  <2>4. Needed => refcount # 0
    BY <2>3, NoUses
  <2>5. usecount \in Int
    BY DEF Counters
  <2> QED BY <2>2, <2>3, <2>4, <2>5 DEF Counted, Fits, UsedWhileNeeded
<1>2. Counters /\ Counted /\ [Next]_vars => Counters' /\ Counted'
  BY CountersStep
<1> QED BY <1>1, <1>2, CountersInit, PTL DEF Spec

-----------------------------------------------------------------------------
Types ==
    /\ pc \in [Threads -> States]
    /\ kind \in [Threads -> Kinds]
    /\ waiter \in [Threads -> Waiters \cup {0}]
    /\ number \in [Threads -> Numbers]
    /\ answer \in [Threads -> Calls \cup {NoCall}]
    /\ inuse \in [Waiters -> BOOLEAN]
    /\ sem \in [Waiters -> Nat]
    /\ dest \in [Waiters -> Threads \cup {None}]
    /\ channel \in Seq(Messages)
    /\ bulks \in Seq(Calls)
    /\ asked \subseteq Messages
    /\ copied \in Waiters \cup {0}

LEMMA WaitersAre == Waiters \subseteq Nat \ {0} /\ 0 \notin Waiters /\ 0 \in Numbers
BY ClientAssumption DEF Waiters, Numbers

(* The variables keep their types, whatever fails. *)
Quiet(t) ==
    \/ InitReleases(t) \/ InitMore(t) \/ InitFails(t) \/ Deinit(t) \/ Hold(t) \/ LetGo(t)
    \/ LockBulk(t) \/ TakeToken(t) \/ UseService(t) \/ QueueFails(t)
    \/ ReleaseService(t) \/ PostToken(t)

LEMMA QuietTypes ==
    ASSUME Types, NEW t \in Threads, Quiet(t) \/ QueueBulk(t) \/ BulkFails(t)
    PROVE  Types'
<1> USE DEF Quiet, pool, link
<1>1. NoKind \in Kinds /\ 0 \in Numbers
  BY WaitersAre DEF Kinds, NoKind
<1>2. /\ UNCHANGED <<inuse, sem, dest>>
      /\ asked' \in {asked, {}} /\ copied' \in {copied, 0}
  BY DEF InitReleases, InitMore, InitFails, Deinit, Hold, LetGo, LockBulk, TakeToken, UseService,
         QueueFails, QueueBulk, BulkFails, ReleaseService, PostToken
<1>3. channel' \in Seq(Messages)
  <2>1. channel' \in {channel, <<>>}
    BY DEF InitReleases, InitMore, InitFails, Deinit, Hold, LetGo, LockBulk, TakeToken, UseService,
           QueueFails, QueueBulk, BulkFails, ReleaseService, PostToken
  <2> QED BY <2>1, EmptySeq DEF Types
<1>4. bulks' \in Seq(Calls)
  <2>1. bulks' \in {bulks, <<>>, Append(bulks, Call(t))}
    BY DEF InitReleases, InitMore, InitFails, Deinit, Hold, LetGo, LockBulk, TakeToken, UseService,
           QueueFails, QueueBulk, BulkFails, ReleaseService, PostToken
  <2>2. Call(t) \in Calls
    BY DEF Types, Call, Calls
  <2>3. <<>> \in Seq(Calls) /\ Append(bulks, Call(t)) \in Seq(Calls)
    BY <2>2, EmptySeq, AppendProperties DEF Types
  <2> QED BY <2>1, <2>3 DEF Types
<1>5. UNCHANGED caller \/ EndCall(t)
  BY DEF InitReleases, InitMore, InitFails, Deinit, Hold, LetGo, LockBulk, TakeToken, UseService,
         QueueFails, QueueBulk, BulkFails, ReleaseService, PostToken, Return, Continue
<1>6. kind' \in [Threads -> Kinds] /\ waiter' \in [Threads -> Waiters \cup {0}]
      /\ number' \in [Threads -> Numbers] /\ answer' \in [Threads -> Calls \cup {NoCall}]
  BY <1>1, <1>5 DEF caller, EndCall, Types
<1>7. pc' \in [Threads -> States]
  BY DEF InitReleases, InitMore, InitFails, Deinit, Hold, LetGo, LockBulk, TakeToken, UseService,
         QueueFails, QueueBulk, BulkFails, ReleaseService, PostToken, Return, Continue, Goto, After,
         Types, States, HasWaiter
<1> QED BY <1>2, <1>3, <1>4, <1>6, <1>7 DEF Types

LEMMA MessageTypes == ASSUME Types, NEW t \in Threads PROVE Message(t) \in Messages /\ Call(t) \in Calls
<1>1. kind[t].bulk \in BOOLEAN
  BY DEF Types, Kinds
<1>2. Call(t) \in Calls /\ waiter[t] \in Waiters \cup {0}
  BY DEF Types, Call, Calls
<1> QED BY <1>1, <1>2 DEF Message, Messages

LEMMA ThreadTypes == ASSUME Types, NEW t \in Threads, Enter(t) \/ Step(t) \/ Fail(t) PROVE Types'
<1> USE DEF Types, Goto
<1>1. CASE Quiet(t) \/ QueueBulk(t) \/ BulkFails(t)
  BY <1>1, QuietTypes
<1>2. CASE Begin(t)
  <2>1. PICK k \in Kinds, n \in Numbers :
             /\ kind' = [kind EXCEPT ![t] = k]
             /\ number' = [number EXCEPT ![t] = n]
             /\ Goto(t, "idle", IF k.bulk THEN "lock" ELSE After(k))
    BY <1>2 DEF Begin
  <2>2. UNCHANGED <<inuse, sem, dest, link, waiter, answer>>
    BY <1>2 DEF Begin, pool
  <2> QED BY <2>1, <2>2 DEF After, States, link
<1>3. CASE InitFirst(t)
  BY <1>3 DEF InitFirst, caller, link, States
<1>4. CASE Scan(t)
  BY <1>4 DEF Scan, link, States, HasWaiter
<1>5. CASE FreeWaiter(t)
  BY <1>5 DEF FreeWaiter, caller, link, States
<1>6. CASE QueueMessage(t)
  <2>1. UNCHANGED <<inuse, sem, dest, bulks, asked, copied>> /\ channel' = Append(channel, Message(t))
    BY <1>6 DEF QueueMessage, pool
  <2>2. channel' \in Seq(Messages)
    BY <2>1, MessageTypes, AppendProperties
  <2>3. NoKind \in Kinds /\ 0 \in Numbers
    BY WaitersAre DEF Kinds, NoKind
  <2>4. UNCHANGED caller \/ EndCall(t)
    BY <1>6 DEF QueueMessage, Continue, Return
  <2>5. kind' \in [Threads -> Kinds] /\ waiter' \in [Threads -> Waiters \cup {0}]
        /\ number' \in [Threads -> Numbers] /\ answer' \in [Threads -> Calls \cup {NoCall}]
    BY <2>3, <2>4 DEF caller, EndCall
  <2>6. pc' \in [Threads -> States]
    BY <1>6 DEF QueueMessage, Continue, Return, States, HasWaiter
  <2> QED BY <2>1, <2>2, <2>5, <2>6
<1>7. CASE Wake(t)
  <2>1. UNCHANGED <<inuse, dest, caller, link>> /\ pc' = [pc EXCEPT ![t] = "release"]
    BY <1>7 DEF Wake
  <2>2. sem' \in [Waiters -> Nat]
    <3>1. sem[waiter[t]] > 0 /\ sem' = [sem EXCEPT ![waiter[t]] = @ - 1]
      BY <1>7 DEF Wake
    <3>2. \A w \in Waiters : w = waiter[t] => sem[w] - 1 \in Nat
      BY <3>1
    <3> QED BY <3>1, <3>2
  <2> QED BY <2>1, <2>2 DEF caller, link, States, HasWaiter
<1> QED BY <1>1, <1>2, <1>3, <1>4, <1>5, <1>6, <1>7 DEF Enter, Step, Fail, Quiet

LEMMA TypesStep == ASSUME Types, [Next]_vars PROVE Types'
<1>1. CASE UNCHANGED vars
  BY <1>1 DEF vars, pool, caller, link, Types
<1>2. ASSUME NEW t \in Threads, Enter(t) \/ Step(t) \/ Fail(t) PROVE Types'
  BY <1>2, ThreadTypes
<1>3. CASE Receive
  <2>1. Head(channel) \in Messages /\ Tail(channel) \in Seq(Messages)
        /\ (bulks # <<>> => Tail(bulks) \in Seq(Calls))
    BY <1>3, HeadTailProperties DEF Receive, Types
  <2>2. channel' \in Seq(Messages) /\ bulks' \in Seq(Calls) /\ asked' \subseteq Messages
    BY <1>3, <2>1 DEF Receive, Types
  <2> QED BY <1>3, <2>2 DEF Receive, Types, pool, caller
<1>4. CASE CopyAnswer
  <2>1. PICK m \in asked :
           /\ asked' = asked \ {m}
           /\ answer' = [answer EXCEPT ![dest[m.waiter]] = m.call]
           /\ copied' = m.waiter
    BY <1>4 DEF CopyAnswer
  <2>2. m.call \in Calls /\ m.waiter \in Waiters \cup {0}
    BY DEF Types, Messages
  <2> QED BY <1>4, <2>1, <2>2 DEF CopyAnswer, Types, pool
<1>5. CASE PostWaiter
  <2>1. sem' \in [Waiters -> Nat]
    BY <1>5 DEF PostWaiter, Types
  <2> QED BY <1>5, <2>1 DEF PostWaiter, Types, caller
<1> QED BY <1>1, <1>2, <1>3, <1>4, <1>5 DEF Next, VideoCore

LEMMA TypesInit == Init => Types
<1>1. Init => kind \in [Threads -> Kinds]
  BY DEF Init, Kinds, NoKind
<1> QED BY <1>1, WaitersAre DEF Init, Types, States, Calls, NoCall

LEMMA TypesCorrect == Spec => []Types
<1> QED BY TypesInit, TypesStep, PTL DEF Spec

-----------------------------------------------------------------------------
(* A thread that has a waiter is the only one: the answer goes to it. *)
Owners == \A t \in Threads :
    /\ pc[t] \in HasWaiter => /\ waiter[t] \in Waiters
                              /\ inuse[waiter[t]] = TRUE
                              /\ dest[waiter[t]] = t
    /\ pc[t] \in {"take", "scan"} \cup HasWaiter => kind[t].waits = TRUE
    /\ pc[t] \in {"send", "sendbulk"} => kind[t].waits = FALSE

(* A message names the waiter of the thread that waits for its answer, and  *)
(* no two messages name the same waiter.                                    *)
Waiting(t, w) == pc[t] \in {"bulk", "wait"} /\ waiter[t] = w

Pending(m) ==
    /\ \E t \in Threads : m.call = Call(t) /\ Waiting(t, m.waiter)
    /\ sem[m.waiter] = 0 /\ copied # m.waiter

Queued ==
    /\ \A m \in asked : m.waiter # 0 /\ Pending(m)
    /\ \A i \in 1 .. Len(channel), m \in Messages :
           channel[i] = m /\ m.waiter # 0 => Pending(m)
    /\ \A m, n \in asked : m.waiter = n.waiter => m = n
    /\ \A i \in 1 .. Len(channel), m \in asked : channel[i].waiter # m.waiter
    /\ \A i, j \in 1 .. Len(channel) :
           channel[i].waiter = channel[j].waiter /\ channel[i].waiter # 0 => i = j

(* A waiter is posted once, and then its thread has the answer. *)
Answered(w) == \E t \in Threads : Waiting(t, w) /\ answer[t] = Call(t)

Posted ==
    /\ copied # 0 => Answered(copied) /\ sem[copied] = 0
    /\ \A w \in Waiters : sem[w] # 0 => sem[w] = 1 /\ Answered(w)

Own == Types /\ Owners /\ Queued /\ Posted

LEMMA OwnInit == Init => Own
<1> SUFFICES ASSUME Init PROVE Own
  OBVIOUS
<1>2. Types
  BY TypesInit
<1>3. Owners
  BY DEF Init, Owners, HasWaiter
<1>4. channel = <<>> /\ Len(channel) = 0 /\ asked = {} /\ copied = 0
  BY DEF Init
<1>5. Queued
  BY <1>4 DEF Queued
<1>6. Posted
  BY <1>4 DEF Init, Posted
<1> QED BY <1>2, <1>3, <1>5, <1>6 DEF Own

(* No two threads have the same waiter. *)
LEMMA OneOwner ==
    ASSUME Own, NEW t \in Threads, NEW u \in Threads,
           pc[t] \in HasWaiter, pc[u] \in HasWaiter, waiter[t] = waiter[u]
    PROVE  t = u
BY DEF Own, Owners

(* A waiter whose thread has not sent its message yet, or has its answer,   *)
(* is in no message.                                                        *)
LEMMA Fresh ==
    ASSUME Own, NEW t \in Threads, pc[t] \in HasWaiter \ {"bulk", "wait"}
    PROVE  /\ sem[waiter[t]] = 0 /\ copied # waiter[t]
           /\ \A m \in asked : m.waiter # waiter[t]
           /\ \A i \in 1 .. Len(channel) : channel[i].waiter # waiter[t]
<1>1. waiter[t] \in Waiters /\ waiter[t] # 0
  BY WaitersAre DEF Own, Owners
<1>2. \A u \in Threads : ~Waiting(u, waiter[t])
  BY OneOwner DEF Waiting, HasWaiter
<1>3. \A m : Pending(m) => m.waiter # waiter[t]
  BY <1>2 DEF Pending
<1>4. \A i \in 1 .. Len(channel) : channel[i] \in Messages
  BY ElementOfSeq DEF Own, Types
<1> QED BY <1>1, <1>2, <1>3, <1>4 DEF Own, Queued, Posted, Answered

(* What a step preserves that leaves the waiting threads alone. *)
LEMMA Kept ==
    ASSUME \A u \in Threads : pc[u] \in {"bulk", "wait"} =>
               /\ pc'[u] \in {"bulk", "wait"} /\ waiter'[u] = waiter[u]
               /\ number'[u] = number[u] /\ answer'[u] = answer[u]
    PROVE  /\ \A w : \A t \in Threads : Waiting(t, w) => Waiting(t, w)' /\ Call(t)' = Call(t)
           /\ \A w : Answered(w) => Answered(w)'
           /\ sem' = sem /\ copied' = copied => \A m : Pending(m) => Pending(m)'
<1>1. \A w : \A t \in Threads : Waiting(t, w) => Waiting(t, w)' /\ Call(t)' = Call(t)
  BY DEF Waiting, Call
<1>2. ASSUME NEW w, Answered(w) PROVE Answered(w)'
  <2>1. PICK t \in Threads : Waiting(t, w) /\ answer[t] = Call(t)
    BY <1>2 DEF Answered
  <2>2. Waiting(t, w)' /\ answer'[t] = Call(t)'
    BY <1>1, <2>1 DEF Waiting
  <2> QED BY <2>2 DEF Answered
<1>3. ASSUME sem' = sem, copied' = copied, NEW m, Pending(m) PROVE Pending(m)'
  <2>1. PICK t \in Threads : m.call = Call(t) /\ Waiting(t, m.waiter)
    BY <1>3 DEF Pending
  <2>2. Waiting(t, m.waiter)' /\ m.call = Call(t)'
    BY <1>1, <2>1
  <2> QED BY <1>3, <2>2 DEF Pending
<1> QED BY <1>1, <1>2, <1>3

LEMMA Frame ==
    ASSUME Own, sem' = sem,
           \/ copied' = copied /\ asked' = asked /\ channel' = channel
           \/ copied' = 0 /\ asked' = {} /\ channel' = <<>>,
           \A u \in Threads : pc[u] \in {"bulk", "wait"} =>
               /\ pc'[u] \in {"bulk", "wait"} /\ waiter'[u] = waiter[u]
               /\ number'[u] = number[u] /\ answer'[u] = answer[u]
    PROVE  Queued' /\ Posted'
<1>1. \A w : Answered(w) => Answered(w)'
  BY Kept
<1>2. Posted'
  BY <1>1 DEF Own, Posted
<1>3. CASE copied' = copied /\ asked' = asked /\ channel' = channel
  <2>1. \A m : Pending(m) => Pending(m)'
    BY <1>3, Kept
  <2>2. Queued'
    BY <1>3, <2>1 DEF Own, Queued
  <2> QED BY <1>2, <2>2
<1>4. CASE asked' = {} /\ channel' = <<>>
  <2>1. Len(channel') = 0
    BY <1>4
  <2>2. Queued'
    BY <1>4, <2>1 DEF Queued
  <2> QED BY <1>2, <2>2
<1> QED BY <1>3, <1>4

(* A thread's step that touches neither waiters nor messages: it is enough  *)
(* to look at the thread's own variables.                                   *)
Alone(t) ==
    /\ UNCHANGED <<inuse, sem, dest>>
    /\ \/ copied' = copied /\ asked' = asked /\ channel' = channel
       \/ copied' = 0 /\ asked' = {} /\ channel' = <<>>
    /\ \A u \in Threads \ {t} :
           /\ pc'[u] = pc[u] /\ kind'[u] = kind[u] /\ waiter'[u] = waiter[u]
           /\ number'[u] = number[u] /\ answer'[u] = answer[u]
    /\ pc[t] \in {"bulk", "wait"} => pc'[t] \in {"bulk", "wait"}
    /\ pc'[t] \in HasWaiter => pc[t] \in HasWaiter /\ UNCHANGED <<kind, waiter, number, answer>>
    /\ pc'[t] \in {"take", "scan"} => kind'[t].waits = TRUE
    /\ pc'[t] \in {"send", "sendbulk"} => kind'[t].waits = FALSE

LEMMA AloneKeeps == ASSUME Own, NEW t \in Threads, Alone(t), Types' PROVE Own'
<1>1. Queued' /\ Posted'
  <2>1. \A u \in Threads : pc[u] \in {"bulk", "wait"} =>
               /\ pc'[u] \in {"bulk", "wait"} /\ waiter'[u] = waiter[u]
               /\ number'[u] = number[u] /\ answer'[u] = answer[u]
    <3> TAKE u \in Threads
    <3>1. CASE u = t
      BY <3>1 DEF Alone, HasWaiter
    <3>2. CASE u # t
      BY <3>2 DEF Alone
    <3> QED BY <3>1, <3>2
  <2> QED BY <2>1, Frame DEF Alone
<1>2. Owners'
  <2> SUFFICES ASSUME NEW u \in Threads
               PROVE  /\ pc'[u] \in HasWaiter => /\ waiter'[u] \in Waiters
                                                 /\ inuse'[waiter'[u]] = TRUE
                                                 /\ dest'[waiter'[u]] = u
                      /\ pc'[u] \in {"take", "scan"} \cup HasWaiter => kind'[u].waits = TRUE
                      /\ pc'[u] \in {"send", "sendbulk"} => kind'[u].waits = FALSE
    BY DEF Owners
  <2>1. CASE u = t
    BY <2>1 DEF Alone, Own, Owners
  <2>2. CASE u # t
    BY <2>2 DEF Alone, Own, Owners
  <2> QED BY <2>1, <2>2
<1> QED BY <1>1, <1>2 DEF Own

LEMMA QuietOwn ==
    ASSUME Own, Types', NEW t \in Threads, Quiet(t) \/ QueueBulk(t)
    PROVE  Own'
<1> USE DEF Own, Types, Goto, Continue, Return, EndCall, Alone, HasWaiter, caller, pool, link
<1>1. CASE InitReleases(t) \/ UseService(t) \/ ReleaseService(t)
  BY <1>1, AloneKeeps DEF InitReleases, UseService, ReleaseService
<1>2. CASE InitMore(t) \/ InitFails(t) \/ Deinit(t) \/ Hold(t) \/ LetGo(t)
  <2>1. Alone(t)
    BY <1>2 DEF InitMore, InitFails, Deinit, Hold, LetGo, Owners
  <2> QED BY <2>1, AloneKeeps
<1>3. CASE LockBulk(t) \/ TakeToken(t)
  <2>1. Alone(t)
    BY <1>3 DEF LockBulk, TakeToken, After, Kinds, Owners
  <2> QED BY <2>1, AloneKeeps
<1>4. CASE QueueFails(t) \/ QueueBulk(t)
  <2>1. Alone(t)
    BY <1>4 DEF QueueFails, QueueBulk
  <2> QED BY <2>1, AloneKeeps
<1>5. CASE PostToken(t)
  <2>1. Alone(t)
    BY <1>5 DEF PostToken
  <2> QED BY <2>1, AloneKeeps
<1> QED BY <1>1, <1>2, <1>3, <1>4, <1>5 DEF Quiet

LEMMA BeginOwn == ASSUME Own, Types', NEW t \in Threads, Begin(t) PROVE Own'
<1>1. PICK k \in Kinds, n \in Numbers :
           /\ kind' = [kind EXCEPT ![t] = k]
           /\ number' = [number EXCEPT ![t] = n]
           /\ Goto(t, "idle", IF k.bulk THEN "lock" ELSE After(k))
  BY DEF Begin
<1>2. /\ UNCHANGED <<inuse, sem, dest, asked, copied, channel, waiter, answer>>
      /\ k.waits \in BOOLEAN /\ k.bulk \in BOOLEAN
  BY DEF Begin, pool, link, Kinds
<1>3. pc[t] = "idle" /\ \/ k.bulk /\ pc' = [pc EXCEPT ![t] = "lock"]
                        \/ k.waits /\ pc' = [pc EXCEPT ![t] = "take"]
                        \/ ~k.waits /\ pc' = [pc EXCEPT ![t] = "send"]
  BY <1>1 DEF Goto, After
<1>5. Alone(t)
  BY <1>1, <1>2, <1>3 DEF Own, Types, Alone, HasWaiter
<1> QED BY <1>5, AloneKeeps

(* The first thread finds nobody in a call, so no message is under way. *)
LEMMA InitFirstOwn == ASSUME Own, Types', Counters, NEW t \in Threads, InitFirst(t) PROVE Own'
<1>1. \A u \in Threads : pc[u] = "out"
  BY AllOut DEF InitFirst
<1>2. \A w \in Waiters : sem[w] = 0
  BY <1>1 DEF Own, Posted, Answered, Waiting
<1>3. sem' = sem
  BY <1>2 DEF InitFirst, Own, Types
<1>5. \A u \in Threads : pc[u] \notin {"bulk", "wait"}
  BY <1>1
<1>6. Queued' /\ Posted'
  BY <1>3, <1>5, Frame DEF InitFirst, link
<1>7. \A u \in Threads : pc'[u] \in {"out", "entered"}
  BY <1>1 DEF InitFirst, Goto, Own, Types
<1>8. Owners'
  BY <1>7 DEF Owners, HasWaiter
<1> QED BY <1>6, <1>8 DEF Own

(* get_waiter and release_waiter change whose a waiter is. *)
LEMMA ScanOwn == ASSUME Own, Types', NEW t \in Threads, Scan(t) PROVE Own'
<1>1. PICK w \in Waiters :
        /\ Goto(t, "scan", "use") /\ ~inuse[w]
        /\ inuse' = [inuse EXCEPT ![w] = TRUE]
        /\ waiter' = [waiter EXCEPT ![t] = w]
        /\ dest' = [dest EXCEPT ![w] = t]
        /\ UNCHANGED <<client, poolSem, sem, bulkLock, kind, number, answer, link>>
  BY DEF Scan
<1>3. Queued' /\ Posted'
  <2>1. \A u \in Threads : pc[u] \in {"bulk", "wait"} =>
               /\ pc'[u] \in {"bulk", "wait"} /\ waiter'[u] = waiter[u]
               /\ number'[u] = number[u] /\ answer'[u] = answer[u]
    BY <1>1 DEF Goto, Own, Types
  <2> QED BY <1>1, <2>1, Frame DEF link
<1>4. Owners'
  <2> SUFFICES ASSUME NEW u \in Threads
               PROVE  /\ pc'[u] \in HasWaiter => /\ waiter'[u] \in Waiters
                                                 /\ inuse'[waiter'[u]] = TRUE
                                                 /\ dest'[waiter'[u]] = u
                      /\ pc'[u] \in {"take", "scan"} \cup HasWaiter => kind'[u].waits = TRUE
                      /\ pc'[u] \in {"send", "sendbulk"} => kind'[u].waits = FALSE
    BY DEF Owners
  <2>1. CASE u = t
    BY <1>1, <2>1 DEF Goto, Own, Types, Owners, HasWaiter
  <2>2. CASE u # t
    <3>1. pc'[u] = pc[u] /\ waiter'[u] = waiter[u] /\ kind'[u] = kind[u]
      BY <1>1, <2>2 DEF Goto, Own, Types
    <3>2. pc[u] \in HasWaiter => waiter[u] \in Waiters /\ waiter[u] # w
      BY <1>1 DEF Own, Owners
    <3> QED BY <1>1, <3>1, <3>2 DEF Own, Types, Owners
  <2> QED BY <2>1, <2>2
<1> QED BY <1>3, <1>4 DEF Own

LEMMA FreeOwn == ASSUME Own, Types', NEW t \in Threads, FreeWaiter(t) PROVE Own'
<1>1. /\ pc[t] = "free" /\ pc' = [pc EXCEPT ![t] = "post"]
      /\ inuse' = [inuse EXCEPT ![waiter[t]] = FALSE]
      /\ UNCHANGED <<sem, dest, caller, link>>
  BY DEF FreeWaiter, Goto
<1>2. waiter[t] \in Waiters /\ pc[t] \in HasWaiter
  BY <1>1 DEF Own, Owners, HasWaiter
<1>4. Queued' /\ Posted'
  <2>1. \A u \in Threads : pc[u] \in {"bulk", "wait"} =>
               /\ pc'[u] \in {"bulk", "wait"} /\ waiter'[u] = waiter[u]
               /\ number'[u] = number[u] /\ answer'[u] = answer[u]
    BY <1>1 DEF caller, Own, Types
  <2> QED BY <1>1, <2>1, Frame DEF link
<1>5. Owners'
  <2>1. \A u \in Threads \ {t} : pc[u] \in HasWaiter => waiter[u] # waiter[t]
    BY <1>2, OneOwner
  <2>2. pc'[t] = "post"
    BY <1>1 DEF Own, Types
  <2> QED BY <1>1, <2>1, <2>2 DEF caller, Own, Types, Owners, HasWaiter
<1> QED BY <1>4, <1>5 DEF Own

(* The message that is sent names a waiter that is in no other message. *)
LEMMA QueueOwn == ASSUME Own, Types', NEW t \in Threads, QueueMessage(t) PROVE Own'
<1> DEFINE n == Len(channel)
<1>0. Message(t) \in Messages
  BY MessageTypes DEF Own
<1>m. PICK m \in Messages : m = Message(t)
  BY <1>0
<1>1. /\ channel' = Append(channel, m) /\ UNCHANGED <<inuse, sem, dest, asked, copied>>
      /\ \/ pc[t] = "queue" /\ UNCHANGED caller
            /\ (pc' = [pc EXCEPT ![t] = "bulk"] \/ pc' = [pc EXCEPT ![t] = "wait"])
         \/ pc[t] = "send" /\ pc' = [pc EXCEPT ![t] = "sendbulk"] /\ UNCHANGED caller
         \/ pc[t] = "send" /\ pc' = [pc EXCEPT ![t] = "idle"] /\ EndCall(t)
  BY <1>m DEF QueueMessage, Continue, Return, Goto, pool
<1>2. m \in Messages /\ m.call = Call(t)
      /\ (pc[t] = "queue" => m.waiter = waiter[t]) /\ (pc[t] = "send" => m.waiter = 0)
  <2>1. (pc[t] = "queue" => kind[t].waits = TRUE) /\ (pc[t] = "send" => kind[t].waits = FALSE)
    BY DEF Own, Owners, HasWaiter
  <2> QED BY <1>m, <2>1 DEF Message
<1>3. channel \in Seq(Messages) /\ n \in Nat
  BY LenProperties DEF Own, Types
<1>4. /\ channel' \in Seq(Messages) /\ Len(channel') = n + 1
      /\ channel'[n + 1] = m
      /\ \A i \in 1 .. n : channel'[i] = channel[i]
  BY <1>1, <1>2, <1>3, AppendProperties
<1>6. Owners'
  <2> SUFFICES ASSUME NEW u \in Threads
               PROVE  /\ pc'[u] \in HasWaiter => /\ waiter'[u] \in Waiters
                                                 /\ inuse'[waiter'[u]] = TRUE
                                                 /\ dest'[waiter'[u]] = u
                      /\ pc'[u] \in {"take", "scan"} \cup HasWaiter => kind'[u].waits = TRUE
                      /\ pc'[u] \in {"send", "sendbulk"} => kind'[u].waits = FALSE
    BY DEF Owners
  <2>1. CASE u = t
    BY <1>1, <2>1 DEF caller, EndCall, Own, Types, Owners, HasWaiter
  <2>2. CASE u # t
    BY <1>1, <2>2 DEF caller, EndCall, Own, Types, Owners
  <2> QED BY <2>1, <2>2
<1>7. \A u \in Threads : pc[u] \in {"bulk", "wait"} =>
               /\ pc'[u] \in {"bulk", "wait"} /\ waiter'[u] = waiter[u]
               /\ number'[u] = number[u] /\ answer'[u] = answer[u]
  BY <1>1 DEF caller, EndCall, Own, Types
<1>8. /\ \A w : Answered(w) => Answered(w)'
      /\ \A k : Pending(k) => Pending(k)'
  BY <1>1, <1>7, Kept
<1>9. Posted'
  BY <1>1, <1>8 DEF Own, Posted
<1>10. m.waiter # 0 =>
          /\ Pending(m)'
          /\ \A k \in asked : k.waiter # m.waiter
          /\ \A i \in 1 .. n : channel[i].waiter # m.waiter
  <2> SUFFICES ASSUME m.waiter # 0
               PROVE  /\ Pending(m)'
                      /\ \A k \in asked : k.waiter # m.waiter
                      /\ \A i \in 1 .. n : channel[i].waiter # m.waiter
    OBVIOUS
  <2>1. pc[t] = "queue" /\ m.waiter = waiter[t]
    BY <1>1, <1>2
  <2>2. /\ sem[m.waiter] = 0 /\ copied # m.waiter
        /\ \A k \in asked : k.waiter # m.waiter
        /\ \A i \in 1 .. n : channel[i].waiter # m.waiter
    BY <2>1, Fresh DEF HasWaiter
  <2>3. Waiting(t, m.waiter)' /\ Call(t)' = Call(t)
    BY <1>1, <2>1 DEF Waiting, Call, caller, Own, Types
  <2>4. Pending(m)'
    BY <1>1, <1>2, <2>2, <2>3 DEF Pending
  <2> QED BY <2>2, <2>4
<1>11. Queued'
  <2>1. /\ \A k \in asked' : k.waiter # 0 /\ Pending(k)'
        /\ \A k, l \in asked' : k.waiter = l.waiter => k = l
    BY <1>1, <1>8 DEF Own, Queued
  <2>2. \A i \in 1 .. n + 1 : i \in 1 .. n \/ i = n + 1
    BY <1>3
  <2>3. \A i \in 1 .. Len(channel'), k \in Messages :
             channel'[i] = k /\ k.waiter # 0 => Pending(k)'
    BY <1>4, <1>8, <1>10, <2>2 DEF Own, Queued
  <2>4. \A i \in 1 .. Len(channel'), k \in asked' : channel'[i].waiter # k.waiter
    BY <1>1, <1>4, <1>10, <2>1, <2>2 DEF Own, Queued
  <2>5. \A i, j \in 1 .. Len(channel') :
             channel'[i].waiter = channel'[j].waiter /\ channel'[i].waiter # 0 => i = j
    BY <1>4, <1>10, <2>2 DEF Own, Queued
  <2> QED BY <2>1, <2>3, <2>4, <2>5 DEF Queued
<1> QED BY <1>6, <1>9, <1>11 DEF Own

(* The thread that is woken has its own answer. *)
LEMMA WakeOwn ==
    ASSUME Own, Types', NEW t \in Threads, Wake(t)
    PROVE  Own' /\ answer'[t] = Call(t)
<1> DEFINE w == waiter[t]
<1>1. /\ pc[t] = "wait" /\ pc' = [pc EXCEPT ![t] = "release"] /\ sem[w] > 0
      /\ sem' = [sem EXCEPT ![w] = @ - 1]
      /\ UNCHANGED <<inuse, dest, caller, link>>
  BY DEF Wake, Goto
<1>2. w \in Waiters /\ w # 0 /\ pc[t] \in HasWaiter
  BY <1>1, WaitersAre DEF Own, Owners, HasWaiter
<1>3. sem[w] = 1 /\ Answered(w) /\ copied # w
  BY <1>1, <1>2 DEF Own, Posted
<1>4. \A x : \A u \in Threads \ {t} : Waiting(u, x) => x # w
  BY <1>2, OneOwner DEF Waiting, HasWaiter
<1>5. answer[t] = Call(t)
  BY <1>3, <1>4 DEF Answered
<1>7. Owners'
  BY <1>1 DEF caller, Own, Types, Owners, HasWaiter
<1>8. /\ \A x : \A u \in Threads : u # t /\ Waiting(u, x) => Waiting(u, x)' /\ Call(u)' = Call(u)
      /\ \A x \in Waiters : x # w => sem'[x] = sem[x]
      /\ sem'[w] = 0
  BY <1>1, <1>2, <1>3 DEF Waiting, Call, caller, Own, Types
<1>9. \A x : x # w /\ Answered(x) => Answered(x)'
  <2> SUFFICES ASSUME NEW x, x # w, Answered(x) PROVE Answered(x)'
    OBVIOUS
  <2>1. PICK u \in Threads : Waiting(u, x) /\ answer[u] = Call(u)
    BY DEF Answered
  <2>2. u # t
    BY <2>1 DEF Waiting
  <2>3. Waiting(u, x)' /\ answer'[u] = Call(u)'
    BY <1>1, <1>8, <2>1, <2>2 DEF caller
  <2> QED BY <2>3 DEF Answered
<1>10. \A m \in Messages : m.waiter # 0 /\ Pending(m) => m.waiter # w /\ Pending(m)'
  <2> SUFFICES ASSUME NEW m \in Messages, m.waiter # 0, Pending(m)
               PROVE  m.waiter # w /\ Pending(m)'
    OBVIOUS
  <2>1. m.waiter # w /\ m.waiter \in Waiters
    BY <1>3 DEF Pending, Messages
  <2>2. PICK u \in Threads : m.call = Call(u) /\ Waiting(u, m.waiter)
    BY DEF Pending
  <2>3. u # t
    BY <2>1, <2>2 DEF Waiting
  <2>4. m.call = Call(u)' /\ Waiting(u, m.waiter)'
    BY <1>8, <2>2, <2>3
  <2>5. sem'[m.waiter] = 0 /\ copied' # m.waiter
    BY <1>1, <1>8, <2>1 DEF Pending, link
  <2> QED BY <2>1, <2>4, <2>5 DEF Pending
<1>11. Posted'
  BY <1>1, <1>3, <1>8, <1>9 DEF Own, Types, Posted, link
<1>12. Queued'
  BY <1>1, <1>10 DEF Own, Types, Queued, link
<1> QED BY <1>1, <1>5, <1>7, <1>11, <1>12 DEF Own, caller

(* VideoCore receives a message, which stays pending. *)
LEMMA ReceiveOwn == ASSUME Own, Types', Receive PROVE Own'
<1> DEFINE n == Len(channel)
<1>1. channel \in Seq(Messages) /\ channel # <<>> /\ channel' = Tail(channel)
  BY DEF Receive, Own, Types
<1>2. /\ n \in Nat \ {0} /\ channel' \in Seq(Messages) /\ Len(channel') = n - 1
      /\ \A i \in 1 .. n - 1 : channel'[i] = channel[i + 1]
      /\ Head(channel) = channel[1] /\ channel[1] \in Messages
  BY <1>1, EmptySeq, HeadTailProperties, ElementOfSeq
<1>m. PICK h \in Messages : h = channel[1]
  BY <1>2
<1>3. /\ UNCHANGED <<inuse, sem, dest, pc, caller, copied>>
      /\ asked' = IF h.waiter # 0 THEN asked \cup {h} ELSE asked
  BY <1>2, <1>m DEF Receive, pool
<1>4. \A i \in 1 .. n - 1 : i + 1 \in 1 .. n /\ i + 1 # 1 /\ 1 \in 1 .. n
  BY <1>2
<1>6. Owners'
  BY <1>3 DEF caller, Own, Owners
<1>7. /\ \A w : Answered(w) => Answered(w)'
      /\ \A k : Pending(k) => Pending(k)'
  BY <1>3, Kept DEF caller
<1>8. Posted'
  BY <1>3, <1>7 DEF Own, Posted
<1>9. h.waiter # 0 =>
          /\ Pending(h)
          /\ \A k \in asked : k.waiter # h.waiter
          /\ \A i \in 1 .. n - 1 : channel'[i].waiter # h.waiter
  <2>1. 1 \in 1 .. n
    BY <1>2
  <2> QED BY <1>2, <1>m, <1>4, <2>1 DEF Own, Queued
<1>10. Queued'
  <2>1. /\ \A k \in asked' : k.waiter # 0 /\ Pending(k)'
        /\ \A k, l \in asked' : k.waiter = l.waiter => k = l
    BY <1>3, <1>7, <1>9 DEF Own, Queued
  <2>2. \A i \in 1 .. Len(channel'), k \in Messages :
             channel'[i] = k /\ k.waiter # 0 => Pending(k)'
    BY <1>2, <1>4, <1>7 DEF Own, Queued
  <2>3. \A i \in 1 .. n - 1, k \in asked : channel'[i].waiter # k.waiter
    BY <1>2, <1>4 DEF Own, Queued
  <2>4. \A i \in 1 .. Len(channel'), k \in asked' : channel'[i].waiter # k.waiter
    BY <1>2, <1>3, <1>9, <2>3
  <2>5. \A i, j \in 1 .. n - 1 :
             channel'[i].waiter = channel'[j].waiter /\ channel'[i].waiter # 0 => i = j
    <3> SUFFICES ASSUME NEW i \in 1 .. n - 1, NEW j \in 1 .. n - 1,
                        channel'[i].waiter = channel'[j].waiter, channel'[i].waiter # 0
                 PROVE  i = j
      OBVIOUS
    <3>1. i + 1 = j + 1
      BY <1>2, <1>4 DEF Own, Queued
    <3> QED BY <1>2, <3>1
  <2> QED BY <1>2, <2>1, <2>2, <2>4, <2>5 DEF Queued
<1> QED BY <1>6, <1>8, <1>10 DEF Own

(* The answer is copied to the thread that waits for it. *)
LEMMA CopyOwn == ASSUME Own, Types', CopyAnswer PROVE Own'
<1>1. PICK m \in asked :
           /\ asked' = asked \ {m}
           /\ answer' = [answer EXCEPT ![dest[m.waiter]] = m.call]
           /\ copied' = m.waiter
  BY DEF CopyAnswer
<1> DEFINE w == m.waiter
<1>2. /\ copied = 0 /\ UNCHANGED <<inuse, sem, dest, pc, kind, waiter, number, channel>>
  BY DEF CopyAnswer, pool
<1>3. PICK t \in Threads : m.call = Call(t) /\ Waiting(t, w)
  BY DEF Own, Queued, Pending
<1>4. w \in Waiters /\ w # 0 /\ dest[w] = t /\ sem[w] = 0 /\ m.call \in Calls
  BY <1>3, WaitersAre DEF Own, Types, Owners, Queued, Pending, Waiting, HasWaiter, Messages
<1>5. answer' = [answer EXCEPT ![t] = m.call] /\ Call(t) = m.call
  BY <1>1, <1>3, <1>4
<1>7. Owners'
  BY <1>2 DEF Own, Owners
<1>8. \A x : \A u \in Threads : Waiting(u, x) => Waiting(u, x)' /\ Call(u)' = Call(u)
  BY <1>2 DEF Waiting, Call
<1>9. \A k \in Messages : Pending(k) /\ k.waiter # w => Pending(k)'
  <2> SUFFICES ASSUME NEW k \in Messages, Pending(k), k.waiter # w PROVE Pending(k)'
    OBVIOUS
  <2>1. PICK u \in Threads : k.call = Call(u) /\ Waiting(u, k.waiter)
    BY DEF Pending
  <2>2. k.call = Call(u)' /\ Waiting(u, k.waiter)'
    BY <1>8, <2>1
  <2>3. sem'[k.waiter] = 0 /\ copied' # k.waiter
    BY <1>1, <1>2 DEF Pending
  <2> QED BY <2>2, <2>3 DEF Pending
<1>10. Queued'
  <2>1. \A k \in asked' : k \in asked /\ k \in Messages /\ k.waiter # w
    BY <1>1 DEF Own, Types, Queued
  <2>2. \A k \in asked' : k.waiter # 0 /\ Pending(k)'
    BY <1>9, <2>1 DEF Own, Queued
  <2>3. \A i \in 1 .. Len(channel') : channel'[i].waiter # w
    BY <1>2 DEF Own, Queued
  <2>4. \A i \in 1 .. Len(channel'), k \in Messages :
             channel'[i] = k /\ k.waiter # 0 => Pending(k)'
    BY <1>2, <1>9, <2>3 DEF Own, Queued
  <2>5. /\ \A k, l \in asked' : k.waiter = l.waiter => k = l
        /\ \A i \in 1 .. Len(channel'), k \in asked' : channel'[i].waiter # k.waiter
        /\ \A i, j \in 1 .. Len(channel') :
               channel'[i].waiter = channel'[j].waiter /\ channel'[i].waiter # 0 => i = j
    BY <1>2, <2>1 DEF Own, Queued
  <2> QED BY <2>2, <2>4, <2>5 DEF Queued
<1>11. Posted'
  <2>1. Answered(w)'
    <3>1. answer'[t] = Call(t)' /\ Waiting(t, w)'
      BY <1>3, <1>5, <1>8 DEF Own, Types
    <3> QED BY <3>1 DEF Answered
  <2>2. \A x \in Waiters : sem[x] # 0 => Answered(x)'
    <3> SUFFICES ASSUME NEW x \in Waiters, sem[x] # 0 PROVE Answered(x)'
      OBVIOUS
    <3>1. PICK u \in Threads : Waiting(u, x) /\ answer[u] = Call(u)
      BY DEF Own, Posted, Answered
    <3>2. u # t
      BY <1>3, <1>4, <3>1 DEF Waiting
    <3>3. answer'[u] = Call(u)' /\ Waiting(u, x)'
      BY <1>5, <1>8, <3>1, <3>2 DEF Own, Types
    <3> QED BY <3>3 DEF Answered
  <2>3. copied' = w /\ sem'[w] = 0 /\ sem' = sem
    BY <1>1, <1>2, <1>4
  <2>4. Answered(copied)'
    BY <2>1, <2>3 DEF Answered, Waiting
  <2> QED BY <2>2, <2>3, <2>4 DEF Own, Posted
<1> QED BY <1>7, <1>10, <1>11 DEF Own

LEMMA PostOwn == ASSUME Own, Types', PostWaiter PROVE Own'
<1>1. PICK w \in Waiters : w = copied /\ w # 0
  BY DEF PostWaiter, Own, Types
<1>2. /\ sem' = [sem EXCEPT ![w] = @ + 1] /\ copied' = 0
      /\ UNCHANGED <<inuse, dest, pc, caller, channel, asked>>
  BY <1>1 DEF PostWaiter
<1>3. Answered(w) /\ sem[w] = 0
  BY <1>1 DEF Own, Posted
<1>4. sem' \in [Waiters -> Nat] /\ sem'[w] = 1 /\ \A x \in Waiters \ {w} : sem'[x] = sem[x]
  BY <1>2, <1>3 DEF Own, Types
<1>6. Owners'
  BY <1>2 DEF caller, Own, Owners
<1>7. /\ \A x : \A t \in Threads : Waiting(t, x) => Waiting(t, x)' /\ Call(t)' = Call(t)
      /\ \A x : Answered(x) => Answered(x)'
  BY <1>2, Kept DEF caller
<1>8. \A k \in Messages : Pending(k) /\ k.waiter # 0 => Pending(k)'
  <2> SUFFICES ASSUME NEW k \in Messages, Pending(k), k.waiter # 0 PROVE Pending(k)'
    OBVIOUS
  <2>1. PICK t \in Threads : k.call = Call(t) /\ Waiting(t, k.waiter)
    BY DEF Pending
  <2>2. k.call = Call(t)' /\ Waiting(t, k.waiter)'
    BY <1>7, <2>1
  <2>3. k.waiter \in Waiters \ {w}
    BY <1>1 DEF Pending, Messages
  <2>4. sem'[k.waiter] = 0 /\ copied' # k.waiter
    BY <1>2, <1>4, <2>3 DEF Pending
  <2> QED BY <2>2, <2>4 DEF Pending
<1>9. Queued'
  BY <1>2, <1>8 DEF Own, Types, Queued
<1>10. Posted'
  BY <1>2, <1>3, <1>4, <1>7 DEF Own, Posted
<1> QED BY <1>6, <1>9, <1>10 DEF Own

LEMMA FailedGrows == ASSUME [Next]_vars PROVE failed \subseteq failed'
<1>1. CASE UNCHANGED vars \/ VideoCore
  BY <1>1 DEF vars, client, service, VideoCore, Receive, CopyAnswer, PostWaiter
<1>2. ASSUME NEW t \in Threads, Enter(t) \/ Step(t) \/ Fail(t) PROVE failed \subseteq failed'
  BY <1>2 DEF Enter, Step, Fail, InitFirst, InitFails, InitMore, Deinit, Hold, LetGo, Begin,
         InitReleases, LockBulk, TakeToken, Scan, UseService, QueueMessage, QueueFails, QueueBulk,
         BulkFails, Wake, ReleaseService, FreeWaiter, PostToken, Use, Release, client, service
<1> QED BY <1>1, <1>2 DEF Next

LEMMA OwnStep ==
    ASSUME Own, Types', Counters, [Next]_vars, "bulk" \notin failed'
    PROVE  Own'
<1>1. CASE UNCHANGED vars
  <2>1. \A u \in Threads : pc[u] \in {"bulk", "wait"} =>
               /\ pc'[u] \in {"bulk", "wait"} /\ waiter'[u] = waiter[u]
               /\ number'[u] = number[u] /\ answer'[u] = answer[u]
    BY <1>1 DEF vars, caller
  <2>2. Queued' /\ Posted'
    BY <1>1, <2>1, Frame DEF vars, pool, link
  <2> QED BY <1>1, <2>2 DEF vars, caller, pool, link, Own, Owners
<1>2. ASSUME NEW t \in Threads, Enter(t) \/ Step(t) \/ Fail(t) PROVE Own'
  <2>1. ~BulkFails(t)
    BY DEF BulkFails
  <2> QED BY <1>2, <2>1, QuietOwn, BeginOwn, InitFirstOwn, ScanOwn, FreeOwn, QueueOwn, WakeOwn
          DEF Enter, Step, Fail, Quiet
<1>3. CASE VideoCore
  BY <1>3, ReceiveOwn, CopyOwn, PostOwn DEF VideoCore
<1> QED BY <1>1, <1>2, <1>3 DEF Next

LEMMA OwnCorrect == Spec => []("bulk" \notin failed => Own)
<1>1. ASSUME "bulk" \notin failed => Own, Types', Counters, [Next]_vars
      PROVE  "bulk" \notin failed' => Own'
  BY <1>1, FailedGrows, OwnStep
<1>2. ("bulk" \notin failed => Own) /\ Types' /\ Counters /\ [Next]_vars => ("bulk" \notin failed => Own)'
  BY <1>1
<1>3. Init => ("bulk" \notin failed => Own)
  BY OwnInit
<1> QED BY <1>2, <1>3, TypesCorrect, CountersCorrect, PTL DEF Spec

(* Every caller gets the answer to its own message, although waiters are    *)
(* reused at once and the VCHIQ thread writes to the memory that a waiter   *)
(* points to (mmal_vc_client.c:429 against 557-562 and 171), until a bulk   *)
(* transfer fails, for any number of threads, waiters and messages under    *)
(* way.                                                                     *)
THEOREM OwnAnswer == Spec => AnswerIsOwn
<1>1. ASSUME "bulk" \notin failed => Own, Types, Types', [Next]_vars
      PROVE  [AnswerFits \/ "bulk" \in failed]_vars
  <2> SUFFICES ASSUME Next, "bulk" \notin failed, NEW t \in Threads, pc[t] = "wait", pc'[t] = "release"
               PROVE  answer'[t] = Call(t)
    BY <1>1 DEF AnswerFits
  <2>0. Own
    BY <1>1
  <2>1. pc \in [Threads -> States]
    BY <1>1 DEF Types
  <2>2. ~VideoCore
    BY DEF VideoCore, Receive, CopyAnswer, PostWaiter
  <2>3. PICK u \in Threads : Enter(u) \/ Step(u) \/ Fail(u)
    BY <2>2 DEF Next
  <2>4. \A v \in Threads \ {u} : pc'[v] = pc[v]
    BY <2>1, <2>3 DEF Enter, Step, Fail, InitFirst, InitFails, InitMore, Deinit, Hold, LetGo, Begin,
           InitReleases, LockBulk, TakeToken, Scan, UseService, QueueMessage, QueueFails, QueueBulk,
           BulkFails, Wake, ReleaseService, FreeWaiter, PostToken, Continue, Return, Goto
  <2>5. u = t
    BY <2>4
  <2>6. Wake(t)
    BY <2>1, <2>3, <2>5 DEF Enter, Step, Fail, InitFirst, InitFails, InitMore, Deinit, Hold, LetGo,
           Begin, InitReleases, LockBulk, TakeToken, Scan, UseService, QueueMessage, QueueFails,
           QueueBulk, BulkFails, ReleaseService, FreeWaiter, PostToken, Continue, Return, Goto
  <2> QED BY <1>1, <2>0, <2>6, WakeOwn
<1>2. ("bulk" \notin failed => Own) /\ Types /\ Types' /\ [Next]_vars => [AnswerFits \/ "bulk" \in failed]_vars
  BY <1>1
<1> QED BY <1>2, OwnCorrect, TypesCorrect, PTL DEF Spec, AnswerIsOwn

-----------------------------------------------------------------------------
(* Who sends a bulk has the bulk lock until the bulk is queued. *)
Sending(t) == pc[t] \in {"bulk", "sendbulk"}

Locking == \A t \in Threads :
    Sending(t) \/ (pc[t] \in {"take", "scan", "use", "queue", "send"} /\ kind[t].bulk = TRUE)
        => bulkLock = t

(* The bulk messages in the channel, in order, are those of the calls in b: *)
(* f maps each to its place.                                                *)
Pairs(b, f) ==
    /\ f \in [1 .. Len(b) -> 1 .. Len(channel)]
    /\ \A k \in 1 .. Len(b) : channel[f[k]].call = b[k]
    /\ \A j, k \in 1 .. Len(b) : j < k => f[j] < f[k]
    /\ \A i \in 1 .. Len(channel) : channel[i].bulk = TRUE <=> \E k \in 1 .. Len(b) : f[k] = i

(* These are the bulks under way, and the one about to be queued. *)
Matches(b) ==
    \/ (\A t \in Threads : ~Sending(t)) /\ b = bulks
    \/ \E t \in Threads : Sending(t) /\ b = Append(bulks, Call(t))

Paired ==
    /\ bulks \in Seq(Calls)
    /\ \E b, f : b \in Seq(Calls) /\ Pairs(b, f) /\ Matches(b)

LEMMA PairedInit == Init => Locking /\ Paired
<1> SUFFICES ASSUME Init PROVE Locking /\ Paired
  OBVIOUS
<1>1. \A t \in Threads : pc[t] = "out"
  BY DEF Init
<1>2. Locking
  BY <1>1 DEF Locking, Sending
<1>3. channel = <<>> /\ bulks = <<>> /\ Len(<<>>) = 0 /\ <<>> \in Seq(Calls)
  BY DEF Init
<1>4. \A t \in Threads : ~Sending(t)
  BY <1>1 DEF Sending
<1>5. Pairs(<<>>, [k \in 1 .. 0 |-> 0])
  BY <1>3 DEF Pairs
<1>6. Matches(<<>>)
  BY <1>3, <1>4 DEF Matches
<1> QED BY <1>2, <1>3, <1>5, <1>6 DEF Paired

(* No two threads are between a message and its bulk. *)
LEMMA OneSender ==
    ASSUME Locking, NEW t \in Threads, NEW u \in Threads, Sending(u),
           Sending(t) \/ (pc[t] \in {"take", "scan", "use", "queue", "send"} /\ kind[t].bulk = TRUE)
    PROVE  t = u
BY DEF Locking

(* Steps that send nothing. *)
LEMMA PairedKept ==
    ASSUME Paired, channel' = channel, bulks' = bulks,
           \A t \in Threads : /\ pc'[t] \in {"bulk", "sendbulk"} <=> pc[t] \in {"bulk", "sendbulk"}
                              /\ pc[t] \in {"bulk", "sendbulk"} => number'[t] = number[t]
    PROVE  Paired'
<1>1. PICK b, f : b \in Seq(Calls) /\ Pairs(b, f) /\ Matches(b)
  BY DEF Paired
<1>2. Pairs(b, f)'
  BY <1>1 DEF Pairs
<1>3. \A t \in Threads : (Sending(t)' <=> Sending(t)) /\ (Sending(t) => Call(t)' = Call(t))
  BY DEF Sending, Call
<1>4. Matches(b)'
  <2>1. CASE (\A t \in Threads : ~Sending(t)) /\ b = bulks
    BY <1>3, <2>1 DEF Matches
  <2>2. CASE \E t \in Threads : Sending(t) /\ b = Append(bulks, Call(t))
    <3>1. PICK t \in Threads : Sending(t) /\ b = Append(bulks, Call(t))
      BY <2>2
    <3>2. Sending(t)' /\ b = Append(bulks', Call(t)')
      BY <1>3, <3>1
    <3> QED BY <3>2 DEF Matches
  <2> QED BY <1>1, <2>1, <2>2 DEF Matches
<1> QED BY <1>1, <1>2, <1>4 DEF Paired

(* A message is appended; a bulk one by the thread that has the lock. *)
LEMMA PairedQueue == ASSUME Own, Locking, Paired, NEW t \in Threads, QueueMessage(t) PROVE Paired'
<1> DEFINE n == Len(channel)
<1>1. PICK b, f : b \in Seq(Calls) /\ Pairs(b, f) /\ Matches(b)
  BY DEF Paired
<1>2. channel \in Seq(Messages) /\ n \in Nat /\ Len(b) \in Nat /\ bulks \in Seq(Calls)
  BY LenProperties DEF Own, Types, Paired
<1>0. Message(t) \in Messages
  BY MessageTypes DEF Own
<1>3. PICK m \in Messages : m = Message(t)
  BY <1>0
<1>4. m.call = Call(t) /\ m.bulk = kind[t].bulk /\ Call(t) \in Calls
  BY <1>3 DEF Message, Messages
<1>5. channel' = Append(channel, m) /\ bulks' = bulks
  BY <1>3 DEF QueueMessage
<1>6. /\ Len(channel') = n + 1 /\ channel'[n + 1] = m
      /\ \A i \in 1 .. n : channel'[i] = channel[i]
  BY <1>2, <1>5, AppendProperties
<1>7. \A i \in 1 .. n + 1 : i \in 1 .. n \/ i = n + 1
  BY <1>2
<1>8. /\ \A u \in Threads \ {t} : pc'[u] = pc[u] /\ number'[u] = number[u]
      /\ pc[t] \in {"queue", "send"} /\ (pc'[t] \in {"bulk", "sendbulk"} <=> kind[t].bulk = TRUE)
      /\ kind[t].bulk = TRUE => number'[t] = number[t]
  <2>1. kind[t].bulk \in BOOLEAN
    BY DEF Own, Types, Kinds
  <2> QED BY <2>1 DEF QueueMessage, Continue, Return, Goto, EndCall, caller, Own, Types
<1>9. CASE kind[t].bulk # TRUE
  <2>1. Pairs(b, f)'
    <3>1. f \in [1 .. Len(b) -> 1 .. n + 1] /\ \A k \in 1 .. Len(b) : f[k] \in 1 .. n
      <4>1. 1 .. n \subseteq 1 .. n + 1
        BY <1>2
      <4>2. f \in [1 .. Len(b) -> 1 .. n]
        BY <1>1 DEF Pairs
      <4> HIDE DEF n
      <4> QED BY <4>1, <4>2
    <3>2. \A k \in 1 .. Len(b) : channel'[f[k]].call = b[k]
      BY <1>1, <1>6, <3>1 DEF Pairs
    <3>3. \A i \in 1 .. n + 1 : channel'[i].bulk = TRUE <=> \E k \in 1 .. Len(b) : f[k] = i
      <4>1. \A k \in 1 .. Len(b) : f[k] # n + 1
        BY <1>2, <3>1
      <4> QED BY <1>1, <1>4, <1>6, <1>7, <1>9, <4>1 DEF Pairs
    <3> QED BY <1>1, <1>6, <3>1, <3>2, <3>3 DEF Pairs
  <2>2. Matches(b)'
    <3>1. \A u \in Threads : (Sending(u)' <=> Sending(u)) /\ (Sending(u) => Call(u)' = Call(u))
      BY <1>8, <1>9 DEF Sending, Call
    <3>2. CASE (\A u \in Threads : ~Sending(u)) /\ b = bulks
      BY <1>5, <3>1, <3>2 DEF Matches
    <3>3. CASE \E u \in Threads : Sending(u) /\ b = Append(bulks, Call(u))
      <4>1. PICK u \in Threads : Sending(u) /\ b = Append(bulks, Call(u))
        BY <3>3
      <4>2. Sending(u)' /\ b = Append(bulks', Call(u)')
        BY <1>5, <3>1, <4>1
      <4> QED BY <4>2 DEF Matches
    <3> QED BY <1>1, <3>2, <3>3 DEF Matches
  <2> QED BY <1>1, <1>2, <1>5, <2>1, <2>2 DEF Paired
<1>10. CASE kind[t].bulk = TRUE
  <2>1. \A u \in Threads : ~Sending(u)
    <3> SUFFICES ASSUME NEW u \in Threads, Sending(u) PROVE FALSE
      OBVIOUS
    <3>1. t = u
      BY <1>8, <1>10, OneSender
    <3> QED BY <1>8, <3>1 DEF Sending
  <2>2. b = bulks
    BY <1>1, <2>1 DEF Matches
  <2>3. PICK c \in Seq(Calls) : c = Append(b, m.call)
    BY <1>1, <1>4, AppendProperties
  <2>4. /\ Len(c) = Len(b) + 1 /\ c[Len(b) + 1] = m.call
        /\ \A k \in 1 .. Len(b) : c[k] = b[k]
    BY <1>4, <2>3, AppendProperties
  <2>5. PICK g : g = [k \in 1 .. Len(b) + 1 |-> IF k = Len(b) + 1 THEN n + 1 ELSE f[k]]
    OBVIOUS
  <2>6. \A k \in 1 .. Len(b) + 1 : k \in 1 .. Len(b) \/ k = Len(b) + 1
    BY <1>2
  <2>7. /\ \A k \in 1 .. Len(b) : g[k] = f[k] /\ g[k] \in 1 .. n
        /\ g[Len(b) + 1] = n + 1
    BY <1>1, <1>2, <2>5 DEF Pairs
  <2>8. Pairs(c, g)'
    <3>1. g \in [1 .. Len(c) -> 1 .. Len(channel')]
      <4>1. \A k \in 1 .. Len(b) + 1 : g[k] \in 1 .. n + 1
        BY <1>2, <2>6, <2>7
      <4> HIDE DEF n
      <4> QED BY <1>6, <2>4, <2>5, <4>1
    <3>2. \A k \in 1 .. Len(c) : channel'[g[k]].call = c[k]
      BY <1>1, <1>6, <2>4, <2>6, <2>7 DEF Pairs
    <3>3. \A j, k \in 1 .. Len(c) : j < k => g[j] < g[k]
      <4> SUFFICES ASSUME NEW j \in 1 .. Len(b) + 1, NEW k \in 1 .. Len(b) + 1, j < k
                   PROVE  g[j] < g[k]
        BY <2>4
      <4>1. j \in 1 .. Len(b)
        BY <1>2
      <4>2. CASE k \in 1 .. Len(b)
        BY <1>1, <2>7, <4>1, <4>2 DEF Pairs
      <4>3. CASE k = Len(b) + 1
        BY <1>2, <2>7, <4>1, <4>3
      <4> QED BY <2>6, <4>2, <4>3
    <3>4. \A i \in 1 .. Len(channel') : channel'[i].bulk = TRUE <=> \E k \in 1 .. Len(c) : g[k] = i
      <4>1. CASE TRUE
        <5> SUFFICES ASSUME NEW i \in 1 .. n + 1
                     PROVE  channel'[i].bulk = TRUE <=> \E k \in 1 .. Len(b) + 1 : g[k] = i
          BY <1>6, <2>4
        <5>1. CASE i \in 1 .. n
          <6>1. i # n + 1 /\ 1 .. Len(b) \subseteq 1 .. Len(b) + 1
            BY <1>2, <5>1
          <6>2. (\E k \in 1 .. Len(b) + 1 : g[k] = i) <=> \E k \in 1 .. Len(b) : f[k] = i
            BY <2>6, <2>7, <6>1
          <6> QED BY <1>1, <1>6, <5>1, <6>2 DEF Pairs
        <5>2. CASE i = n + 1
          <6>1. Len(b) + 1 \in 1 .. Len(b) + 1
            BY <1>2
          <6> QED BY <1>4, <1>6, <1>10, <2>7, <5>2, <6>1
        <5> QED BY <1>7, <5>1, <5>2
      <4> QED BY <4>1
    <3> QED BY <3>1, <3>2, <3>3, <3>4 DEF Pairs
  <2>9. Matches(c)'
    <3>1. Sending(t)' /\ Call(t)' = Call(t)
      BY <1>8, <1>10 DEF Sending, Call
    <3>2. c = Append(bulks', Call(t)')
      BY <1>4, <1>5, <2>2, <2>3, <3>1
    <3> QED BY <3>1, <3>2 DEF Matches
  <2> QED BY <1>2, <1>5, <2>8, <2>9 DEF Paired
<1> QED BY <1>9, <1>10

(* The bulk that was announced is queued. *)
LEMMA PairedBulk == ASSUME Own, Locking, Paired, NEW t \in Threads, QueueBulk(t) PROVE Paired'
<1>1. PICK b, f : b \in Seq(Calls) /\ Pairs(b, f) /\ Matches(b)
  BY DEF Paired
<1>2. /\ Sending(t) /\ bulks' = Append(bulks, Call(t)) /\ channel' = channel
      /\ \A u \in Threads \ {t} : pc'[u] = pc[u]
      /\ pc'[t] \notin {"bulk", "sendbulk"}
  BY DEF QueueBulk, Continue, Return, Goto, Sending, Own, Types
<1>3. \A u \in Threads : Sending(u) => u = t
  BY <1>2, OneSender
<1>4. b = bulks'
  BY <1>1, <1>2, <1>3 DEF Matches
<1>5. \A u \in Threads : ~Sending(u)'
  BY <1>2, <1>3 DEF Sending
<1>6. Pairs(b, f)' /\ Matches(b)'
  BY <1>1, <1>2, <1>4, <1>5 DEF Pairs, Matches
<1> QED BY <1>1, <1>4, <1>6 DEF Paired

(* The first message, if it announces a bulk, is the first bulk's. *)
LEMMA FirstPair ==
    ASSUME Own, Paired, NEW b \in Seq(Calls), NEW f, Pairs(b, f), channel # <<>>, channel[1].bulk = TRUE
    PROVE  Len(b) > 0 /\ f[1] = 1 /\ channel[1].call = b[1]
<1>1. Len(channel) \in Nat \ {0} /\ Len(b) \in Nat
  BY EmptySeq, LenProperties DEF Own, Types
<1>2. PICK k \in 1 .. Len(b) : f[k] = 1
  BY <1>1 DEF Pairs
<1>3. 1 \in 1 .. Len(b) /\ f[1] \in 1 .. Len(channel)
  BY <1>1, <1>2 DEF Pairs
<1>4. k = 1
  <2> SUFFICES ASSUME 1 < k PROVE FALSE
    BY <1>1, <1>2
  <2>1. f[1] < f[k]
    BY <1>2, <1>3 DEF Pairs
  <2> QED BY <1>1, <1>2, <1>3, <2>1
<1> QED BY <1>1, <1>2, <1>3, <1>4 DEF Pairs

(* VideoCore takes the first message, and its bulk. *)
LEMMA PairedReceive == ASSUME Own, Paired, Receive PROVE Paired'
<1> DEFINE n == Len(channel)
<1>1. PICK b, f : b \in Seq(Calls) /\ Pairs(b, f) /\ Matches(b)
  BY DEF Paired
<1>2. channel \in Seq(Messages) /\ channel # <<>> /\ channel' = Tail(channel) /\ bulks \in Seq(Calls)
  BY DEF Receive, Own, Types, Paired
<1>3. /\ n \in Nat \ {0} /\ Len(channel') = n - 1 /\ Len(b) \in Nat
      /\ \A i \in 1 .. n - 1 : channel'[i] = channel[i + 1] /\ i + 1 \in 1 .. n
      /\ Head(channel) = channel[1] /\ 1 \in 1 .. n
  BY <1>2, EmptySeq, HeadTailProperties, LenProperties
<1>4. \A u \in Threads : (Sending(u)' <=> Sending(u)) /\ Call(u)' = Call(u)
  BY DEF Receive, caller, Sending, Call
<1>5. channel[1].bulk \in BOOLEAN
  <2>1. channel[1] \in Messages
    BY <1>2, <1>3, ElementOfSeq
  <2> QED BY <2>1 DEF Messages
<1>6. CASE channel[1].bulk = TRUE
  <2>1. bulks # <<>> /\ bulks' = Tail(bulks)
    BY <1>3, <1>6 DEF Receive
  <2>2. Len(b) > 0 /\ f[1] = 1
    BY <1>1, <1>2, <1>6, FirstPair
  <2>0. b # <<>> /\ Tail(b) \in Seq(Calls)
    BY <1>1, <2>2, <1>3, EmptySeq, HeadTailProperties
  <2>3. PICK c \in Seq(Calls) : c = Tail(b)
    BY <2>0
  <2>4. /\ Len(c) = Len(b) - 1 /\ b # <<>>
        /\ \A k \in 1 .. Len(c) : c[k] = b[k + 1] /\ k + 1 \in 1 .. Len(b)
    BY <1>3, <2>2, <2>3, EmptySeq, HeadTailProperties
  <2>5. PICK g : g = [k \in 1 .. Len(c) |-> f[k + 1] - 1]
    OBVIOUS
  <2>6. \A k \in 1 .. Len(b) : k # 1 => f[k] \in 2 .. n
    <3> SUFFICES ASSUME NEW k \in 1 .. Len(b), k # 1 PROVE f[k] \in 2 .. n
      OBVIOUS
    <3>1. f[1] < f[k] /\ f[k] \in 1 .. n
      BY <1>1, <1>3, <2>2 DEF Pairs
    <3> QED BY <1>3, <2>2, <3>1
  <2>7. \A k \in 1 .. Len(c) : g[k] = f[k + 1] - 1 /\ g[k] \in 1 .. n - 1 /\ f[k + 1] = g[k] + 1
    <3> SUFFICES ASSUME NEW k \in 1 .. Len(c)
                 PROVE  g[k] = f[k + 1] - 1 /\ g[k] \in 1 .. n - 1 /\ f[k + 1] = g[k] + 1
      OBVIOUS
    <3>1. k + 1 \in 1 .. Len(b) /\ k + 1 # 1
      BY <2>4, <1>3
    <3>2. f[k + 1] \in 2 .. n
      BY <2>6, <3>1
    <3>3. g[k] = f[k + 1] - 1
      BY <2>5
    <3>4. \A x \in 2 .. n : x - 1 \in 1 .. n - 1 /\ (x - 1) + 1 = x
      BY <1>3
    <3> QED BY <3>2, <3>3, <3>4
  <2>8. Pairs(c, g)'
    <3>1. g \in [1 .. Len(c) -> 1 .. Len(channel')]
      BY <1>3, <2>5, <2>7
    <3>2. \A k \in 1 .. Len(c) : channel'[g[k]].call = c[k]
      <4> SUFFICES ASSUME NEW k \in 1 .. Len(c) PROVE channel'[g[k]].call = c[k]
        OBVIOUS
      <4>1. channel'[g[k]] = channel[f[k + 1]]
        BY <1>3, <2>7
      <4>2. channel[f[k + 1]].call = b[k + 1]
        BY <1>1, <2>4 DEF Pairs
      <4> QED BY <2>4, <4>1, <4>2
    <3>3. \A j, k \in 1 .. Len(c) : j < k => g[j] < g[k]
      <4> SUFFICES ASSUME NEW j \in 1 .. Len(c), NEW k \in 1 .. Len(c), j < k PROVE g[j] < g[k]
        OBVIOUS
      <4>1. j + 1 < k + 1 /\ j + 1 \in 1 .. Len(b) /\ k + 1 \in 1 .. Len(b)
        BY <2>4
      <4>2. f[j + 1] < f[k + 1]
        BY <1>1, <4>1 DEF Pairs
      <4> QED BY <2>7, <4>2, <1>3
    <3>4. \A i \in 1 .. Len(channel') : channel'[i].bulk = TRUE <=> \E k \in 1 .. Len(c) : g[k] = i
      <4> SUFFICES ASSUME NEW i \in 1 .. n - 1
                   PROVE  channel[i + 1].bulk = TRUE <=> \E k \in 1 .. Len(c) : g[k] = i
        BY <1>3
      <4>1. channel[i + 1].bulk = TRUE <=> \E k \in 1 .. Len(b) : f[k] = i + 1
        BY <1>1, <1>3 DEF Pairs
      <4>2. ASSUME NEW k \in 1 .. Len(b), f[k] = i + 1 PROVE \E j \in 1 .. Len(c) : g[j] = i
        <5>1. k # 1
          BY <2>2, <4>2
        <5>2. k - 1 \in 1 .. Len(c) /\ (k - 1) + 1 = k
          BY <1>3, <2>4, <5>1
        <5>3. g[k - 1] = i
          BY <2>7, <4>2, <5>2
        <5> QED BY <5>2, <5>3
      <4>3. ASSUME NEW k \in 1 .. Len(c), g[k] = i PROVE \E j \in 1 .. Len(b) : f[j] = i + 1
        BY <2>4, <2>7, <4>3
      <4> QED BY <4>1, <4>2, <4>3
    <3> QED BY <3>1, <3>2, <3>3, <3>4 DEF Pairs
  <2>9. Matches(c)'
    <3>1. CASE (\A u \in Threads : ~Sending(u)) /\ b = bulks
      BY <1>4, <2>1, <2>3, <3>1 DEF Matches
    <3>2. CASE \E u \in Threads : Sending(u) /\ b = Append(bulks, Call(u))
      <4>1. PICK u \in Threads : Sending(u) /\ b = Append(bulks, Call(u))
        BY <3>2
      <4>2. Call(u) \in Calls
        BY DEF Call, Calls, Own, Types
      <4>3. Tail(Append(bulks, Call(u))) = Append(Tail(bulks), Call(u))
        BY <1>2, <2>1, <4>2, AppendProperties, HeadTailProperties, EmptySeq
      <4>4. Sending(u)' /\ c = Append(bulks', Call(u)')
        BY <1>4, <2>1, <2>3, <4>1, <4>3
      <4> QED BY <4>4 DEF Matches
    <3> QED BY <1>1, <3>1, <3>2 DEF Matches
  <2>10. bulks' \in Seq(Calls)
    BY <1>2, <2>1, HeadTailProperties
  <2> QED BY <2>8, <2>9, <2>10 DEF Paired
<1>7. CASE channel[1].bulk # TRUE
  <2>1. bulks' = bulks
    BY <1>3, <1>5, <1>7 DEF Receive
  <2>2. \A k \in 1 .. Len(b) : f[k] \in 2 .. n
    <3> SUFFICES ASSUME NEW k \in 1 .. Len(b) PROVE f[k] \in 2 .. n
      OBVIOUS
    <3>1. f[k] \in 1 .. n /\ f[k] # 1
      BY <1>1, <1>3, <1>7 DEF Pairs
    <3> QED BY <1>3, <3>1
  <2>3. PICK g : g = [k \in 1 .. Len(b) |-> f[k] - 1]
    OBVIOUS
  <2>4. \A k \in 1 .. Len(b) : g[k] = f[k] - 1 /\ g[k] \in 1 .. n - 1 /\ f[k] = g[k] + 1
    BY <1>3, <2>2, <2>3
  <2>5. Pairs(b, g)'
    <3>1. g \in [1 .. Len(b) -> 1 .. Len(channel')]
      BY <1>3, <2>3, <2>4
    <3>2. \A k \in 1 .. Len(b) : channel'[g[k]].call = b[k]
      <4> SUFFICES ASSUME NEW k \in 1 .. Len(b) PROVE channel'[g[k]].call = b[k]
        OBVIOUS
      <4>1. channel'[g[k]] = channel[f[k]]
        BY <1>3, <2>4
      <4>2. channel[f[k]].call = b[k]
        BY <1>1 DEF Pairs
      <4> QED BY <4>1, <4>2
    <3>3. \A j, k \in 1 .. Len(b) : j < k => g[j] < g[k]
      <4> SUFFICES ASSUME NEW j \in 1 .. Len(b), NEW k \in 1 .. Len(b), j < k PROVE g[j] < g[k]
        OBVIOUS
      <4>1. f[j] < f[k] /\ f[j] \in Int /\ f[k] \in Int
        BY <1>1, <1>3, <2>2 DEF Pairs
      <4> QED BY <2>4, <4>1
    <3>4. \A i \in 1 .. Len(channel') : channel'[i].bulk = TRUE <=> \E k \in 1 .. Len(b) : g[k] = i
      <4> SUFFICES ASSUME NEW i \in 1 .. n - 1
                   PROVE  channel[i + 1].bulk = TRUE <=> \E k \in 1 .. Len(b) : g[k] = i
        BY <1>3
      <4>1. channel[i + 1].bulk = TRUE <=> \E k \in 1 .. Len(b) : f[k] = i + 1
        BY <1>1, <1>3 DEF Pairs
      <4>2. \A k \in 1 .. Len(b) : f[k] = i + 1 <=> g[k] = i
        BY <1>3, <2>4
      <4> QED BY <4>1, <4>2
    <3> QED BY <3>1, <3>2, <3>3, <3>4 DEF Pairs
  <2>6. Matches(b)'
    <3>1. CASE (\A u \in Threads : ~Sending(u)) /\ b = bulks
      BY <1>4, <2>1, <3>1 DEF Matches
    <3>2. CASE \E u \in Threads : Sending(u) /\ b = Append(bulks, Call(u))
      <4>1. PICK u \in Threads : Sending(u) /\ b = Append(bulks, Call(u))
        BY <3>2
      <4>2. Sending(u)' /\ b = Append(bulks', Call(u)')
        BY <1>4, <2>1, <4>1
      <4> QED BY <4>2 DEF Matches
    <3> QED BY <1>1, <3>1, <3>2 DEF Matches
  <2> QED BY <1>1, <1>2, <2>1, <2>5, <2>6 DEF Paired
<1> QED BY <1>6, <1>7

(* The last thread to leave leaves nobody behind. *)
LEMMA LastOut ==
    ASSUME Counters, refcount = 1, NEW t \in Threads, pc[t] = "idle"
    PROVE  \A u \in Threads \ {t} : pc[u] = "out"
<1> DEFINE A == At(Inside)
<1>1. IsFiniteSet(A) /\ Cardinality(A) = 1 /\ t \in A
  BY AtFinite, Places DEF Counters, At
<1>2. Cardinality(A \ {t}) = 0 /\ IsFiniteSet(A \ {t})
  BY <1>1, FS_RemoveElement
<1>3. A \ {t} = {}
  BY <1>2, FS_EmptySet
<1> QED BY <1>3 DEF At, Inside, Counters

LEMMA PairedDeinit == ASSUME Own, Counters, Paired, NEW t \in Threads, Deinit(t) PROVE Paired'
<1>1. /\ pc[t] = "idle" /\ pc' = [pc EXCEPT ![t] = "out"] /\ number' = number
      /\ IF refcount = 1 THEN channel' = <<>> /\ bulks' = <<>> ELSE channel' = channel /\ bulks' = bulks
  BY DEF Deinit, Goto, caller, link
<1>2. \A u \in Threads : /\ pc'[u] \in {"bulk", "sendbulk"} <=> pc[u] \in {"bulk", "sendbulk"}
                         /\ number'[u] = number[u]
  BY <1>1 DEF Own, Types
<1>3. CASE refcount # 1
  BY <1>1, <1>2, <1>3, PairedKept
<1>4. CASE refcount = 1
  <2>1. \A u \in Threads : pc[u] \notin {"bulk", "sendbulk"}
    BY <1>1, <1>4, LastOut
  <2>2. \A u \in Threads : ~Sending(u)'
    BY <1>2, <2>1 DEF Sending
  <2>3. channel' = <<>> /\ bulks' = <<>> /\ Len(<<>>) = 0 /\ <<>> \in Seq(Calls)
    BY <1>1, <1>4
  <2>4. Pairs(<<>>, [k \in 1 .. 0 |-> 0])'
    BY <2>3 DEF Pairs
  <2>5. Matches(<<>>)'
    BY <2>2, <2>3 DEF Matches
  <2> QED BY <2>3, <2>4, <2>5 DEF Paired
<1> QED BY <1>3, <1>4

LEMMA PairedOther ==
    ASSUME Own, Paired, NEW t \in Threads,
           \/ InitFirst(t) \/ InitFails(t) \/ InitMore(t) \/ Begin(t) \/ InitReleases(t)
           \/ Hold(t) \/ LetGo(t) \/ LockBulk(t) \/ TakeToken(t) \/ Scan(t) \/ UseService(t) \/ QueueFails(t)
           \/ Wake(t) \/ ReleaseService(t) \/ FreeWaiter(t) \/ PostToken(t)
    PROVE  Paired'
<1> DEFINE Same == \A u \in Threads : /\ pc'[u] \in {"bulk", "sendbulk"} <=> pc[u] \in {"bulk", "sendbulk"}
                                      /\ pc[u] \in {"bulk", "sendbulk"} => number'[u] = number[u]
<1>1. channel' = channel /\ bulks' = bulks
  BY DEF InitFirst, InitFails, InitMore, Begin, InitReleases, LockBulk, TakeToken, Scan, UseService,
         Hold, LetGo, QueueFails, Wake, ReleaseService, FreeWaiter, PostToken, link
<1>2. Same
  <2> USE DEF Goto, Continue, Return, EndCall, caller, Own, Types, After
  <2>1. CASE InitFirst(t) \/ InitFails(t) \/ InitMore(t) \/ InitReleases(t) \/ Hold(t) \/ LetGo(t)
    BY <2>1 DEF InitFirst, InitFails, InitMore, InitReleases, Hold, LetGo
  <2>2. CASE Begin(t)
    BY <2>2 DEF Begin
  <2>3. CASE LockBulk(t) \/ TakeToken(t) \/ UseService(t) \/ QueueFails(t)
    BY <2>3 DEF LockBulk, TakeToken, UseService, QueueFails
  <2>4. CASE Scan(t)
    BY <2>4 DEF Scan
  <2>5. CASE Wake(t) \/ ReleaseService(t) \/ FreeWaiter(t) \/ PostToken(t)
    BY <2>5 DEF Wake, ReleaseService, FreeWaiter, PostToken
  <2> QED BY <2>1, <2>2, <2>3, <2>4, <2>5
<1> QED BY <1>1, <1>2, PairedKept

(* Only who has the lock gets to the point where it announces a bulk. *)
LEMMA LockingStep ==
    ASSUME Own, Locking, NEW t \in Threads, Enter(t) \/ Step(t) \/ QueueFails(t)
    PROVE  Locking'
<1> USE DEF Goto, Continue, Return, EndCall, caller, Own, Types, After, Locking, Sending, Unlock
<1>1. CASE \/ InitFirst(t) \/ InitFails(t) \/ InitMore(t) \/ Deinit(t) \/ InitReleases(t)
           \/ Hold(t) \/ LetGo(t)
  BY <1>1 DEF InitFirst, InitFails, InitMore, Deinit, InitReleases, Hold, LetGo
<1>2. CASE Begin(t)
  <2>1. PICK k \in Kinds : kind' = [kind EXCEPT ![t] = k]
                           /\ Goto(t, "idle", IF k.bulk THEN "lock" ELSE After(k))
    BY <1>2 DEF Begin
  <2>2. bulkLock' = bulkLock /\ k.bulk \in BOOLEAN
    BY <1>2 DEF Begin, Kinds
  <2>3. pc'[t] = "lock" \/ k.bulk = FALSE
    BY <2>1, <2>2
  <2>4. pc'[t] \notin {"bulk", "sendbulk"}
    BY <2>1
  <2> QED BY <2>1, <2>2, <2>3, <2>4
<1>3. CASE LockBulk(t)
  <2>1. /\ pc[t] = "lock" /\ bulkLock = None /\ bulkLock' = t /\ kind' = kind
        /\ pc' = [pc EXCEPT ![t] = After(kind[t])]
    BY <1>3 DEF LockBulk
  <2>2. /\ pc'[t] \in {"take", "send"}
        /\ \A u \in Threads \ {t} : pc'[u] = pc[u]
    BY <2>1
  <2>3. \A u \in Threads : u # None
    BY ClientAssumption
  <2>4. ASSUME NEW u \in Threads, u # t
        PROVE  ~(\/ pc[u] \in {"bulk", "sendbulk"}
                 \/ pc[u] \in {"take", "scan", "use", "queue", "send"} /\ kind[u].bulk = TRUE)
    BY <2>1, <2>3, <2>4
  <2> QED BY <2>1, <2>2, <2>4
<1>4. CASE TakeToken(t) \/ UseService(t)
  BY <1>4 DEF TakeToken, UseService
<1>5. CASE Scan(t)
  BY <1>5 DEF Scan
<1>6. CASE QueueMessage(t)
  <2>1. kind[t].bulk \in BOOLEAN
    BY DEF Kinds
  <2> QED BY <1>6, <2>1 DEF QueueMessage
<1>7. CASE QueueFails(t)
  BY <1>7 DEF QueueFails
<1>8. CASE QueueBulk(t)
  BY <1>8 DEF QueueBulk
<1>9. CASE Wake(t) \/ ReleaseService(t) \/ FreeWaiter(t) \/ PostToken(t)
  BY <1>9 DEF Wake, ReleaseService, FreeWaiter, PostToken
<1> QED BY <1>1, <1>2, <1>3, <1>4, <1>5, <1>6, <1>7, <1>8, <1>9 DEF Enter, Step

LEMMA PairedStep ==
    ASSUME Own, Counters, Locking, Paired, [Next]_vars, "bulk" \notin failed'
    PROVE  Locking' /\ Paired'
<1>1. CASE UNCHANGED vars \/ CopyAnswer \/ PostWaiter
  <2>1. UNCHANGED <<pc, kind, number, bulkLock, channel, bulks>>
    BY <1>1 DEF vars, caller, link, CopyAnswer, PostWaiter
  <2>2. Locking'
    BY <2>1 DEF Locking, Sending
  <2> QED BY <2>1, <2>2, PairedKept
<1>2. CASE Receive
  <2>1. UNCHANGED <<pc, kind, bulkLock>>
    BY <1>2 DEF Receive, caller
  <2>2. Locking'
    BY <2>1 DEF Locking, Sending
  <2> QED BY <1>2, <2>2, PairedReceive
<1>3. ASSUME NEW t \in Threads, Enter(t) \/ Step(t) \/ Fail(t) PROVE Locking' /\ Paired'
  <2>1. ~BulkFails(t)
    BY DEF BulkFails
  <2> QED BY <1>3, <2>1, LockingStep, PairedOther, PairedDeinit, PairedQueue, PairedBulk
          DEF Enter, Step, Fail
<1> QED BY <1>1, <1>2, <1>3 DEF Next, VideoCore

(* VideoCore never pairs a message with the bulk of another                 *)
(* (mmal_vc_client.c:547-586 and 637-664) until a bulk transfer fails:      *)
(* bulk_lock keeps the two channels in step, for any number of threads and  *)
(* whichever messages, uses and releases fail.                              *)
THEOREM BulkPaired == Spec => []BulkIsOwn
<1>1. ASSUME Own, Paired PROVE BulkIsOwn
  <2> SUFFICES ASSUME channel # <<>>, bulks # <<>>, Head(channel).bulk, "bulk" \notin failed
               PROVE  Head(bulks) = Head(channel).call
    BY DEF BulkIsOwn
  <2>1. /\ channel \in Seq(Messages) /\ bulks \in Seq(Calls) /\ Head(channel) = channel[1]
        /\ Head(bulks) = bulks[1] /\ channel[1] \in Messages /\ 1 \in 1 .. Len(bulks)
    BY <1>1, EmptySeq, HeadTailProperties, ElementOfSeq, LenProperties DEF Own, Types, Paired
  <2>2. PICK b, f : b \in Seq(Calls) /\ Pairs(b, f) /\ Matches(b)
    BY <1>1 DEF Paired
  <2>3. channel[1].bulk = TRUE
    BY <2>1 DEF Messages
  <2>4. channel[1].call = b[1]
    BY <1>1, <2>2, <2>3, FirstPair
  <2>5. b[1] = bulks[1]
    <3>1. CASE b = bulks
      BY <3>1
    <3>2. CASE \E u \in Threads : Sending(u) /\ b = Append(bulks, Call(u))
      <4>1. PICK u \in Threads : b = Append(bulks, Call(u))
        BY <3>2
      <4>2. Call(u) \in Calls
        BY <1>1 DEF Call, Calls, Own, Types
      <4> QED BY <2>1, <4>1, <4>2, AppendProperties
    <3> QED BY <2>2, <3>1, <3>2 DEF Matches
  <2> QED BY <2>1, <2>4, <2>5
<1> DEFINE Good == "bulk" \notin failed => Locking /\ Paired
<1>2. ASSUME "bulk" \notin failed => Own, Counters, Good, [Next]_vars PROVE Good'
  BY <1>2, FailedGrows, PairedStep
<1>3. ("bulk" \notin failed => Own) /\ Counters /\ Good /\ [Next]_vars => Good'
  BY <1>2
<1>4. ("bulk" \notin failed => Own) /\ Good => BulkIsOwn
  BY <1>1 DEF BulkIsOwn
<1>5. Init => Good
  BY PairedInit
<1> HIDE DEF Good
<1> QED BY <1>3, <1>4, <1>5, OwnCorrect, CountersCorrect, PTL DEF Spec

-----------------------------------------------------------------------------
(* The pool: the tokens that are not in waitpool.sem are with the threads   *)
(* between their taking one and their giving one back, and a waiter is      *)
(* marked only for a thread that has it.                                    *)
Holder == {"scan", "post"} \cup HasWaiter

Tokens ==
    /\ poolSem \in Nat
    /\ refcount # 0 => poolSem + Cardinality(At(Holder)) = MaxWaiters
    /\ refcount = 0 => poolSem = 0

Marked ==
    /\ \A w \in Waiters : inuse[w] => \E t \in Threads : pc[t] \in HasWaiter /\ waiter[t] = w
    /\ \A t \in Threads : pc[t] \in HasWaiter => waiter[t] \in Waiters

LEMMA PoolInit == Init => Tokens /\ Marked
  BY DEF Init, Tokens, Marked, HasWaiter

(* A thread inside takes one token in TakeToken and gives it back in        *)
(* PostToken.                                                               *)
LEMMA TokenMoves ==
    ASSUME Counters, NEW t \in Threads, Inner(t)
    PROVE  \E s \in Inside :
             /\ pc' = [pc EXCEPT ![t] = s]
             /\ \/ /\ pc[t] \notin Holder /\ s \in Holder
                   /\ poolSem > 0 /\ poolSem' = poolSem - 1
                \/ pc[t] \in Holder /\ s \notin Holder /\ poolSem' = poolSem + 1
                \/ (pc[t] \in Holder <=> s \in Holder) /\ poolSem' = poolSem
<1>. USE DEF Goto, Continue, Return, EndCall, Inside, Holder, States, HasWaiter, pool, After
<1>1. CASE InitReleases(t) \/ UseService(t) \/ ReleaseService(t)
  BY <1>1 DEF InitReleases, UseService, ReleaseService
<1>2. CASE LockBulk(t) \/ TakeToken(t) \/ Wake(t) \/ FreeWaiter(t) \/ PostToken(t)
  BY <1>2 DEF LockBulk, TakeToken, Wake, FreeWaiter, PostToken
<1>3. CASE Scan(t)
  BY <1>3 DEF Scan
<1>4. CASE QueueMessage(t)
  BY <1>4 DEF QueueMessage
<1>5. CASE QueueFails(t) \/ QueueBulk(t) \/ BulkFails(t)
  BY <1>5 DEF QueueFails, QueueBulk, BulkFails
<1>6. CASE Begin(t)
  <2>1. PICK k \in Kinds : Goto(t, "idle", IF k.bulk THEN "lock" ELSE After(k))
    BY <1>6 DEF Begin
  <2>2. (IF k.bulk THEN "lock" ELSE After(k)) \in {"lock", "take", "send"}
    OBVIOUS
  <2>. QED
    BY <1>6, <2>1, <2>2 DEF Begin
<1>. QED
  BY <1>1, <1>2, <1>3, <1>4, <1>5, <1>6 DEF Inner

LEMMA TokensStep == ASSUME Counters, Tokens, [Next]_vars PROVE Tokens'
<1>. DEFINE n == Cardinality(At(Holder))
<1>0. n \in Nat /\ refcount \in Nat /\ MaxWaiters \in Nat
  BY AtFinite, ClientAssumption DEF Counters
<1>1. CASE UNCHANGED vars \/ VideoCore
  <2>1. UNCHANGED <<pc, refcount, poolSem>>
    BY <1>1 DEF vars, client, pool, VideoCore, Receive, CopyAnswer, PostWaiter
  <2>. QED
    BY <2>1 DEF Tokens, At
<1>2. ASSUME NEW t \in Threads, Inner(t) PROVE Tokens'
  <2>1. PICK s \in Inside :
          /\ pc' = [pc EXCEPT ![t] = s]
          /\ \/ /\ pc[t] \notin Holder /\ s \in Holder
                /\ poolSem > 0 /\ poolSem' = poolSem - 1
             \/ pc[t] \in Holder /\ s \notin Holder /\ poolSem' = poolSem + 1
             \/ (pc[t] \in Holder <=> s \in Holder) /\ poolSem' = poolSem
    BY <1>2, TokenMoves
  <2>2. refcount' = refcount /\ refcount # 0
    BY <1>2, InnerMoves, AllOut DEF Inside
  <2>3. n' = IF s \in Holder /\ pc[t] \notin Holder THEN n + 1
             ELSE IF s \notin Holder /\ pc[t] \in Holder THEN n - 1 ELSE n
    BY <2>1, Moves DEF Counters
  <2>4. poolSem \in Nat /\ (refcount # 0 => poolSem + n = MaxWaiters)
    BY DEF Tokens
  <2>. HIDE DEF n
  <2>5. poolSem' \in Nat /\ (refcount # 0 => poolSem' + n' = MaxWaiters)
    BY <1>0, <2>1, <2>3, <2>4
  <2>. QED
    BY <2>2, <2>5 DEF Tokens, n
<1>3. ASSUME NEW t \in Threads, InitFirst(t) PROVE Tokens'
  <2>1. refcount = 0 /\ refcount' = 1 /\ pc[t] = "out" /\ pc' = [pc EXCEPT ![t] = "entered"]
        /\ poolSem' = MaxWaiters
    BY <1>3 DEF InitFirst, Goto
  <2>2. At(Holder) = {}
    BY <2>1, AllOut DEF At, Holder, HasWaiter
  <2>3. n = 0
    BY <2>2, AtFinite
  <2>4. n' = n
    BY <2>1, Moves, Places DEF Counters, Holder, HasWaiter
  <2>. QED
    BY <1>0, <2>1, <2>3, <2>4 DEF Tokens
<1>4. ASSUME NEW t \in Threads, InitMore(t) \/ Deinit(t) PROVE Tokens'
  <2>1. /\ refcount # 0 /\ pc[t] \in {"out", "idle"}
        /\ \E s \in {"out", "idle"} : pc' = [pc EXCEPT ![t] = s]
        /\ (poolSem' = poolSem /\ refcount' # 0) \/ (poolSem' = 0 /\ refcount' = 0)
    <3>1. CASE InitMore(t)
      BY <1>0, <3>1 DEF InitMore, Goto, pool
    <3>2. CASE Deinit(t)
      <4>1. pc[t] = "idle" /\ pc' = [pc EXCEPT ![t] = "out"]
            /\ refcount' = refcount - 1
            /\ poolSem' = IF refcount = 1 THEN 0 ELSE poolSem
        BY <3>2 DEF Deinit, Goto
      <4>2. refcount # 0
        BY <4>1, AllOut
      <4>. QED
        BY <1>0, <4>1, <4>2
    <3>. QED
      BY <1>4, <3>1, <3>2
  <2>2. n' = n
    <3>1. PICK s \in {"out", "idle"} : pc' = [pc EXCEPT ![t] = s]
      BY <2>1
    <3>2. pc[t] \notin Holder /\ s \notin Holder
      BY <2>1 DEF Holder, HasWaiter
    <3>. QED
      BY <3>1, <3>2, Moves DEF Counters
  <2>. QED
    BY <1>0, <2>1, <2>2 DEF Tokens
<1>5. ASSUME NEW t \in Threads, InitFails(t) \/ Hold(t) \/ LetGo(t) PROVE Tokens'
  <2>1. UNCHANGED <<pc, refcount, poolSem>>
    BY <1>5 DEF InitFails, Hold, LetGo, pool
  <2>. QED
    BY <2>1 DEF Tokens, At
<1>. QED
  BY <1>1, <1>2, <1>3, <1>4, <1>5 DEF Next, Enter, Step, Fail, Inner

LEMMA MarkedStep == ASSUME Types, Marked, [Next]_vars PROVE Marked'
<1>. USE DEF Marked, pool, caller, HasWaiter
<1>0. /\ pc \in [Threads -> States] /\ waiter \in [Threads -> Waiters \cup {0}]
      /\ inuse \in [Waiters -> BOOLEAN]
  BY DEF Types
<1>1. CASE UNCHANGED vars \/ VideoCore
  <2>1. UNCHANGED <<pc, inuse, waiter>>
    BY <1>1 DEF vars, VideoCore, Receive, CopyAnswer, PostWaiter
  <2>. QED
    BY <2>1
<1>2. ASSUME NEW t \in Threads, InitFirst(t) PROVE Marked'
  BY <1>0, <1>2 DEF InitFirst, Goto
<1>3. ASSUME NEW t \in Threads, Scan(t) PROVE Marked'
  <2>1. PICK w \in Waiters :
          /\ pc[t] = "scan" /\ pc' = [pc EXCEPT ![t] = "use"]
          /\ inuse' = [inuse EXCEPT ![w] = TRUE]
          /\ waiter' = [waiter EXCEPT ![t] = w]
    BY <1>3 DEF Scan, Goto
  <2>. QED
    BY <1>0, <2>1
<1>4. ASSUME NEW t \in Threads, FreeWaiter(t) PROVE Marked'
  <2>1. /\ pc[t] = "free" /\ pc' = [pc EXCEPT ![t] = "post"] /\ waiter' = waiter
        /\ inuse' = [inuse EXCEPT ![waiter[t]] = FALSE]
    BY <1>4 DEF FreeWaiter, Goto
  <2>. QED
    BY <1>0, <2>1
<1>5. ASSUME NEW t \in Threads,
             \/ Quiet(t) \/ QueueBulk(t) \/ BulkFails(t) \/ QueueMessage(t) \/ Wake(t) \/ Begin(t)
      PROVE  Marked'
  <2>1. /\ inuse' = inuse
        /\ \A u \in Threads \ {t} : pc'[u] = pc[u] /\ waiter'[u] = waiter[u]
        /\ pc[t] \in HasWaiter <=> pc'[t] \in HasWaiter
        /\ pc[t] \in HasWaiter => waiter'[t] = waiter[t]
    <3>. USE <1>0 DEF Goto, Continue, Return, EndCall, States
    <3>1. CASE InitFails(t) \/ InitMore(t) \/ Deinit(t) \/ InitReleases(t) \/ Hold(t) \/ LetGo(t)
      BY <3>1 DEF InitFails, InitMore, Deinit, InitReleases, Hold, LetGo
    <3>2. CASE Begin(t)
      <4>1. \E s \in {"lock", "take", "send"} : Goto(t, "idle", s)
        BY <3>2 DEF Begin, After
      <4>. QED
        BY <3>2, <4>1 DEF Begin
    <3>3. CASE LockBulk(t) \/ TakeToken(t) \/ UseService(t) \/ Wake(t)
               \/ ReleaseService(t) \/ PostToken(t)
      BY <3>3 DEF LockBulk, TakeToken, UseService, Wake, ReleaseService, PostToken, After
    <3>4. CASE QueueMessage(t)
      BY <3>4 DEF QueueMessage
    <3>5. CASE QueueFails(t) \/ QueueBulk(t) \/ BulkFails(t)
      BY <3>5 DEF QueueFails, QueueBulk, BulkFails
    <3>. QED
      BY <1>5, <3>1, <3>2, <3>3, <3>4, <3>5 DEF Quiet
  <2>. QED
    BY <2>1
<1>. QED
  BY <1>1, <1>2, <1>3, <1>4, <1>5 DEF Next, Enter, Step, Fail, Quiet

(* A thread that got a token from waitpool.sem finds a waiter that is not   *)
(* in use, for any number of waiters and threads: the vcos_verify of        *)
(* get_waiter never fails (mmal_vc_client.c:153).                           *)
THEOREM WaiterIsFound == Spec => []WaiterFound
<1>1. Counters /\ Tokens /\ Marked => WaiterFound
  <2>. SUFFICES ASSUME Counters, Tokens, Marked, NEW t \in Threads, pc[t] = "scan",
                       \A w \in Waiters : inuse[w]
                PROVE  FALSE
    BY DEF WaiterFound
  <2>. DEFINE H == At(HasWaiter)
              f == [u \in H |-> waiter[u]]
  <2>1. \A w \in Waiters : \E u \in H : waiter[u] = w
    BY DEF Marked, At
  <2>2. \A u \in H : waiter[u] \in Waiters
    BY DEF At, Marked
  <2>3. f \in Surjection(H, Waiters)
    BY <2>1, <2>2 DEF Surjection
  <2>4. IsFiniteSet(H) /\ Cardinality(H) \in Nat
    BY AtFinite
  <2>5. Cardinality(Waiters) <= Cardinality(H)
    BY <2>3, <2>4, FS_Surjection
  <2>6. Cardinality(Waiters) = MaxWaiters
    <3>1. 1 \in Int /\ MaxWaiters \in Int /\ MaxWaiters >= 1
      BY ClientAssumption
    <3>2. Cardinality(1 .. MaxWaiters) = IF 1 > MaxWaiters THEN 0 ELSE MaxWaiters - 1 + 1
      BY ONLY <3>1, FS_Interval
    <3>. QED
      BY <3>1, <3>2 DEF Waiters
  <2>7. t \notin H /\ H \cup {t} \subseteq At(Holder)
    BY DEF At, Holder, HasWaiter
  <2>8. IsFiniteSet(At(Holder)) /\ Cardinality(At(Holder)) \in Nat
    BY AtFinite
  <2>9. Cardinality(H) + 1 <= Cardinality(At(Holder))
    <3>1. IsFiniteSet(H \cup {t}) /\ Cardinality(H \cup {t}) = Cardinality(H) + 1
      BY <2>4, <2>7, FS_AddElement
    <3>. QED
      BY <2>7, <2>8, <3>1, FS_Subset
  <2>10. refcount # 0
    BY AllOut
  <2>. QED
    BY <2>4, <2>5, <2>6, <2>8, <2>9, <2>10, ClientAssumption DEF Tokens
<1>2. Init => Tokens /\ Marked
  BY PoolInit
<1>3. Counters /\ Types /\ Tokens /\ Marked /\ [Next]_vars => Tokens' /\ Marked'
  BY TokensStep, MarkedStep
<1>. QED
  BY <1>1, <1>2, <1>3, TypesCorrect, CountersCorrect, PTL DEF Spec

-----------------------------------------------------------------------------
(* The rest of the types, and who holds bulk_lock. *)
Rest ==
    /\ used \in BOOLEAN
    /\ failed \subseteq MayFail
    /\ bulkLock \in Threads \cup {None}
    /\ BulkLockReturned
    /\ \A t \in Threads : pc[t] = "lock" => kind[t].bulk

LEMMA RestInit == Init => Rest
  BY ClientAssumption DEF Init, Rest, BulkLockReturned

LEMMA RestStep == ASSUME Types, Rest, [Next]_vars PROVE Rest'
<1>. USE DEF Rest, BulkLockReturned, client, service, pool, caller
<1>0. /\ pc \in [Threads -> States] /\ kind \in [Threads -> Kinds]
      /\ \A t \in Threads : kind[t].bulk \in BOOLEAN /\ t # None
  BY ClientAssumption DEF Types, Kinds
<1>1. CASE UNCHANGED vars \/ VideoCore
  <2>1. UNCHANGED <<pc, used, failed, bulkLock, kind>>
    BY <1>1 DEF vars, VideoCore, Receive, CopyAnswer, PostWaiter
  <2>. QED
    BY <2>1
<1>2. ASSUME NEW t \in Threads, Enter(t) \/ Step(t) \/ Fail(t) PROVE Rest'
  <2>1. used' \in BOOLEAN
    <3>1. CASE UseService(t) \/ ReleaseService(t) \/ InitReleases(t) \/ Hold(t) \/ LetGo(t)
      BY <3>1, Zenon DEF UseService, ReleaseService, InitReleases, Hold, LetGo, Use, Release
    <3>2. CASE ~(UseService(t) \/ ReleaseService(t) \/ InitReleases(t) \/ Hold(t) \/ LetGo(t))
      <4>1. used' \in {used, TRUE, FALSE}
        BY <1>2, <3>2 DEF Enter, Step, Fail, InitFirst, InitFails, InitMore, Deinit, Begin, LockBulk,
               TakeToken, Scan, QueueMessage, QueueFails, QueueBulk, BulkFails, Wake, FreeWaiter,
               PostToken
      <4>. QED
        BY <4>1
    <3>. QED
      BY <3>1, <3>2
  <2>2. bulkLock' \in {bulkLock, t, None}
    BY <1>2 DEF Enter, Step, Fail, InitFirst, InitFails, InitMore, Deinit, Hold, LetGo, Begin,
           InitReleases, LockBulk, TakeToken, Scan, UseService, QueueMessage, QueueFails, QueueBulk,
           BulkFails, Wake, ReleaseService, FreeWaiter, PostToken, Unlock
  <2>3. \A u \in Threads \ {t} : pc'[u] = pc[u] /\ kind'[u] = kind[u]
    BY <1>0, <1>2 DEF Enter, Step, Fail, InitFirst, InitFails, InitMore, Deinit, Hold, LetGo, Begin,
           InitReleases, LockBulk, TakeToken, Scan, UseService, QueueMessage, QueueFails, QueueBulk,
           BulkFails, Wake, ReleaseService, FreeWaiter, PostToken, Goto, Continue, Return, EndCall
  <2>4. bulkLock' = t =>
            kind'[t].bulk /\ pc'[t] \in {"take", "scan", "use", "queue", "bulk", "send", "sendbulk"}
    <3>. SUFFICES ASSUME bulkLock' = t
                  PROVE  /\ kind'[t].bulk
                         /\ pc'[t] \in {"take", "scan", "use", "queue", "bulk", "send", "sendbulk"}
      OBVIOUS
    <3>. USE <1>0 DEF Goto, Continue, Return, EndCall
    <3>1. CASE \/ InitFirst(t) \/ InitFails(t) \/ InitMore(t) \/ Deinit(t) \/ InitReleases(t)
               \/ Hold(t) \/ LetGo(t)
      BY <3>1 DEF InitFirst, InitFails, InitMore, Deinit, InitReleases, Hold, LetGo
    <3>2. CASE Begin(t)
      <4>1. pc[t] = "idle" /\ bulkLock' = bulkLock
        BY <3>2 DEF Begin
      <4>. QED
        BY <4>1
    <3>3. CASE LockBulk(t)
      <4>1. pc[t] = "lock"
        BY <3>3 DEF LockBulk
      <4>2. kind[t].bulk
        BY <4>1
      <4>. QED
        BY <3>3, <4>2 DEF LockBulk, After
    <3>4. CASE TakeToken(t) \/ UseService(t) \/ Wake(t) \/ ReleaseService(t) \/ FreeWaiter(t)
               \/ PostToken(t)
      BY <3>4 DEF TakeToken, UseService, Wake, ReleaseService, FreeWaiter, PostToken
    <3>5. CASE Scan(t)
      BY <3>5 DEF Scan
    <3>6. CASE QueueMessage(t)
      BY <3>6 DEF QueueMessage
    <3>7. CASE QueueFails(t) \/ QueueBulk(t) \/ BulkFails(t)
      BY <3>7 DEF QueueFails, QueueBulk, BulkFails, Unlock
    <3>. QED
      BY <1>2, <3>1, <3>2, <3>3, <3>4, <3>5, <3>6, <3>7 DEF Enter, Step, Fail
  <2>5. pc'[t] = "lock" => kind'[t].bulk
    <3>. USE <1>0 DEF Goto, Continue, Return, EndCall
    <3>1. CASE Begin(t)
      <4>1. PICK k \in Kinds : /\ kind' = [kind EXCEPT ![t] = k]
                               /\ Goto(t, "idle", IF k.bulk THEN "lock" ELSE After(k))
        BY <3>1 DEF Begin
      <4>2. pc'[t] = IF k.bulk THEN "lock" ELSE After(k)
        BY <4>1
      <4>. QED
        BY <4>1, <4>2 DEF After
    <3>2. CASE ~Begin(t)
      <4>1. CASE \/ InitFails(t) \/ InitFirst(t) \/ InitMore(t) \/ Deinit(t) \/ InitReleases(t)
                 \/ Hold(t) \/ LetGo(t)
        BY <4>1 DEF InitFails, InitFirst, InitMore, Deinit, InitReleases, Hold, LetGo
      <4>2. CASE LockBulk(t) \/ TakeToken(t) \/ UseService(t) \/ Wake(t) \/ ReleaseService(t)
                 \/ FreeWaiter(t) \/ PostToken(t)
        BY <4>2 DEF LockBulk, TakeToken, UseService, Wake, ReleaseService, FreeWaiter, PostToken,
               After
      <4>3. CASE Scan(t)
        BY <4>3 DEF Scan
      <4>4. CASE QueueMessage(t) \/ QueueFails(t) \/ QueueBulk(t) \/ BulkFails(t)
        BY <4>4 DEF QueueMessage, QueueFails, QueueBulk, BulkFails
      <4>. QED
        BY <1>2, <3>2, <4>1, <4>2, <4>3, <4>4 DEF Enter, Step, Fail
    <3>. QED
      BY <3>1, <3>2
  <2>6. failed' \subseteq MayFail
    BY <1>2 DEF Enter, Step, Fail, InitFirst, InitFails, InitMore, Deinit, Hold, LetGo, Begin,
           InitReleases, LockBulk, TakeToken, Scan, UseService, QueueMessage, QueueFails, QueueBulk,
           BulkFails, Wake, ReleaseService, FreeWaiter, PostToken, Use, Release
  <2>. QED
    BY <1>0, <2>1, <2>2, <2>3, <2>4, <2>5, <2>6
<1>. QED
  BY <1>1, <1>2 DEF Next

(* No error path keeps bulk_lock, not even that of a failed bulk transfer   *)
(* (mmal_vc_client.c:547-605 and 637-674).                                  *)
THEOREM BulkLockGivenBack == Spec => []BulkLockReturned
<1>1. Rest => BulkLockReturned
  BY DEF Rest
<1>. QED
  BY <1>1, RestInit, RestStep, TypesCorrect, PTL DEF Spec

(* The client and its threads stay in states of their types: at most        *)
(* MaxWaiters tokens.                                                       *)
THEOREM VcTypes == Spec => []TypeOK
<1>1. Counters /\ Types /\ Tokens /\ Rest => TypeOK
  <2>. SUFFICES ASSUME Counters, Types, Tokens, Rest PROVE TypeOK
    OBVIOUS
  <2>1. refcount \in 0 .. Cardinality(Threads)
    <3>1. IsFiniteSet(Threads) /\ At(Inside) \subseteq Threads
      BY ClientAssumption DEF At
    <3>2. /\ Cardinality(At(Inside)) <= Cardinality(Threads)
          /\ Cardinality(Threads) \in Nat /\ Cardinality(At(Inside)) \in Nat
      BY <3>1, AtFinite, FS_Subset, FS_CardinalityType
    <3>. QED
      BY <3>2 DEF Counters
  <2>2. poolSem \in 0 .. MaxWaiters
    <3>1. Cardinality(At(Holder)) \in Nat /\ MaxWaiters \in Nat
      BY AtFinite, ClientAssumption
    <3>. QED
      BY <3>1 DEF Tokens
  <2>3. pc \in [Threads -> HasWaiter \cup {"out", "entered", "idle", "lock", "take", "scan",
                                          "send", "sendbulk", "post"}]
    BY DEF Counters, States
  <2>4. holders \subseteq Threads
    BY DEF Counters, At
  <2>. QED
    BY <2>1, <2>2, <2>3, <2>4 DEF TypeOK, Counters, Types, Rest
<1>2. Counters /\ Types /\ Tokens /\ Rest /\ [Next]_vars => Tokens' /\ Rest'
  BY TokensStep, RestStep
<1>3. Init => Tokens /\ Rest
  BY PoolInit, RestInit
<1>. QED
  BY <1>1, <1>2, <1>3, TypesCorrect, CountersCorrect, PTL DEF Spec

=============================================================================
