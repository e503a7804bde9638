------------------------ MODULE CircularBuffer_proofs -----------------------
(***************************************************************************)
(* What holds of the image buffer for every number of slots, frames and    *)
(* seconds.  Three inductive invariants build on each other:               *)
(*   TypeOK      the types;                                                *)
(*   UniqueInv   a frame is in at most one slot, and in no fresh slot once *)
(*               it was handed out (any clock);                            *)
(*   OrderInv    how the ring order, the frame numbers and the time stamps *)
(*               of the fresh slots are related (a clock that never steps  *)
(*               back).                                                    *)
(***************************************************************************)
EXTENDS CircularBuffer, TLAPS, FiniteSetTheorems, WellFoundedInduction

(* The index addElement moves to is again a slot. *)
LEMMA NextSlot ==
    ASSUME NEW v \in Slots
    PROVE  (v + 1) % MaxElements = IF v = MaxElements - 1 THEN 0 ELSE v + 1
<1>1. v \in Int /\ 0 <= v /\ v <= MaxElements - 1 /\ MaxElements \in Int /\ MaxElements > 0
  BY BufferAssumption DEF Slots
<1>2. CASE v = MaxElements - 1
  BY <1>1, <1>2
<1>3. CASE v # MaxElements - 1
  BY <1>1, <1>3
<1> QED BY <1>2, <1>3

LEMMA NextInSlots ==
    ASSUME NEW v \in Slots
    PROVE  (v + 1) % MaxElements \in Slots
BY NextSlot, BufferAssumption DEF Slots

(* Every slot addElement may choose and every slot getElement may hand out *)
(* is a slot of the buffer.                                                *)
LEMMA ChosenSlots ==
    ASSUME nextIndex \in Slots
    PROVE  Victim \subseteq Slots /\ Deliverable \subseteq NotTooOld /\ NotTooOld \subseteq Fresh
BY DEF Victim, Deliverable, FirstOf, Newest, NotTooOld, Fresh

(* The buffer's variables keep their types; in particular availableElements *)
(* never exceeds the number of slots and never wraps below zero             *)
(* (RC_CircularBuffer.cpp:63 and 78).                                       *)
THEOREM TypeCorrect == Spec => []TypeOK
<1>1. Init => TypeOK
  BY BufferAssumption DEF Init, TypeOK, Slots, Images, Times, NoImage
<1>2. TypeOK /\ [Next]_vars => TypeOK'
  <2> SUFFICES ASSUME TypeOK, [Next]_vars PROVE TypeOK'
    OBVIOUS
  <2> USE BufferAssumption
  <2>1. CASE AddElement
    <3>1. PICK v \in Victim : Store(v) /\ skippedElements' = IF v # nextIndex THEN skippedElements + 1 ELSE skippedElements
      BY <2>1 DEF AddElement
    <3>2. v \in Slots
      BY <3>1, ChosenSlots DEF TypeOK
    <3>3. nextIndex' \in Slots
      BY <3>1, <3>2, NextInSlots DEF Store, Write
    <3>4. captured < MaxFrames /\ captured' = captured + 1 /\ UNCHANGED <<maxAge, clock, delivered>>
      BY <2>1 DEF AddElement
    <3>5. element' \in [Slots -> 0 .. captured'] /\ processed' \in [Slots -> BOOLEAN] /\ tstamp' \in [Slots -> Times]
      BY <3>1, <3>2, <3>4 DEF Store, Write, TypeOK, Images, Times
    <3>6. availableElements' \in 0 .. MaxElements
      BY <3>1 DEF Store, Write, TypeOK
    <3>7. skippedElements' \in 0 .. captured' /\ captured' \in Images /\ delivered' \subseteq 1 .. captured'
      BY <3>1, <3>4 DEF TypeOK, Images
    <3> QED BY <3>3, <3>4, <3>5, <3>6, <3>7 DEF TypeOK
  <2>2. CASE GetElement
    <3>1. PICK i \in Deliverable : Take(i) /\ delivered' = delivered \cup ({element[i]} \ {NoImage})
      BY <2>2 DEF GetElement
    <3>2. i \in Slots /\ availableElements # 0
      BY <3>1, ChosenSlots DEF TypeOK, Deliverable, FirstOf, NotTooOld, Fresh
    <3>3. element[i] \in 0 .. captured
      BY <3>2 DEF TypeOK
    <3>4. delivered' \subseteq 1 .. captured
      <4>1. element[i] # 0 => element[i] \in 1 .. captured
        BY <3>3, SMT DEF TypeOK, Images
      <4>2. delivered \subseteq 1 .. captured
        BY DEF TypeOK
      <4> QED BY <3>1, <4>1, <4>2, Zenon DEF NoImage
    <3>5. UNCHANGED <<element, tstamp, nextIndex, skippedElements, clock, captured>>
      BY <2>2, <3>1 DEF GetElement, Take
    <3>6. processed' \in [Slots -> BOOLEAN] /\ maxAge' \in Times
      BY <3>1, <3>2 DEF Take, TypeOK
    <3>7. availableElements' \in 0 .. MaxElements
      BY <3>1, <3>2 DEF Take, TypeOK
    <3> QED BY <3>4, <3>5, <3>6, <3>7 DEF TypeOK
  <2>3. CASE GetNothing
    BY <2>3 DEF GetNothing, vars, slots, counters, TypeOK
  <2>4. CASE Tick
    BY <2>4 DEF Tick, slots, counters, TypeOK, Times
  <2>5. CASE StepBack
    BY <2>5 DEF StepBack, slots, counters, TypeOK, Times
  <2>6. CASE UNCHANGED vars
    BY <2>6 DEF vars, slots, counters, TypeOK
  <2> QED BY <2>1, <2>2, <2>3, <2>4, <2>5, <2>6 DEF Next
<1> QED BY <1>1, <1>2, PTL DEF Spec

-----------------------------------------------------------------------------
LEMMA FreshFinite ==
    /\ IsFiniteSet(Fresh)
    /\ Cardinality(Fresh) \in 0 .. MaxElements
    /\ IsFiniteSet(Fresh')
    /\ Cardinality(Fresh') \in 0 .. MaxElements
<1>1. IsFiniteSet(Slots) /\ Cardinality(Slots) = MaxElements
  <2>1. 0 \in Int /\ MaxElements - 1 \in Int /\ MaxElements \in Nat /\ MaxElements > 0
    BY BufferAssumption
  <2>2. IsFiniteSet(0 .. MaxElements - 1)
        /\ Cardinality(0 .. MaxElements - 1) = IF 0 > MaxElements - 1 THEN 0 ELSE (MaxElements - 1) - 0 + 1
    BY <2>1, FS_Interval, Zenon
  <2> QED BY <2>1, <2>2 DEF Slots
<1>2. Fresh \subseteq Slots /\ Fresh' \subseteq Slots
  BY DEF Fresh
<1>3. IsFiniteSet(Fresh) /\ Cardinality(Fresh) <= MaxElements
  BY <1>1, <1>2, FS_Subset
<1>4. IsFiniteSet(Fresh') /\ Cardinality(Fresh') <= MaxElements
  BY <1>1, <1>2, FS_Subset
<1>5. Cardinality(Fresh) \in Nat /\ Cardinality(Fresh') \in Nat
  BY <1>3, <1>4, FS_CardinalityType
<1> QED BY <1>3, <1>4, <1>5, BufferAssumption

(* Whatever is added, taken or overwritten, the number of fresh slots that  *)
(* availableElements leaves uncounted never grows (RC_CircularBuffer.cpp:63 *)
(* and 78): once getElement sees every fresh image it always will.          *)
THEOREM HiddenBounded == Spec => HiddenNeverGrows
<1>1. TypeOK /\ [Next]_vars => [HiddenShrinks]_vars
  <2> SUFFICES ASSUME TypeOK, [Next]_vars PROVE HiddenShrinks \/ UNCHANGED vars
    OBVIOUS
  <2> DEFINE c  == Cardinality(Fresh)
             c2 == Cardinality(Fresh')
  <2>t. /\ c \in 0 .. MaxElements /\ c2 \in 0 .. MaxElements
        /\ availableElements \in 0 .. MaxElements /\ MaxElements \in Nat
    BY FreshFinite, BufferAssumption DEF TypeOK
  <2>h. ASSUME \/ c2 - availableElements' <= c - availableElements
               \/ c2 <= availableElements',
               availableElements' \in Int
        PROVE  HiddenShrinks
    BY <2>t, <2>h DEF HiddenShrinks, Hidden
  <2>1. CASE AddElement
    <3>1. PICK v \in Victim : Store(v)
      BY <2>1 DEF AddElement
    <3>2. v \in Slots
      BY <3>1, ChosenSlots DEF TypeOK
    <3>3. Fresh' = Fresh \cup {v}
      BY <3>1, <3>2 DEF Store, Write, Fresh, TypeOK
    <3>4. c2 <= c + 1
      <4>1. c2 = IF v \in Fresh THEN c ELSE c + 1
        BY <3>3, FreshFinite, FS_AddElement
      <4> QED BY <4>1, <2>t
    <3>5. availableElements' = IF availableElements < MaxElements
                               THEN availableElements + 1 ELSE availableElements
      BY <3>1 DEF Store, Write
    <3>6. \/ c2 - availableElements' <= c - availableElements
          \/ c2 <= availableElements'
      BY <3>4, <3>5, <2>t
    <3> QED BY <3>6, <3>5, <2>t, <2>h
  <2>2. CASE GetElement
    <3>1. PICK i \in Deliverable : Take(i)
      BY <2>2 DEF GetElement
    <3>2. i \in Fresh
      BY <3>1, ChosenSlots DEF TypeOK
    <3>3. Fresh' = Fresh \ {i}
      BY <3>1, <3>2 DEF Take, Fresh, TypeOK
    <3>4. c2 = c - 1
      BY <3>2, <3>3, FreshFinite, FS_RemoveElement
    <3>5. availableElements' = availableElements - 1
      BY <3>1 DEF Take
    <3>6. c2 - availableElements' <= c - availableElements
      BY <3>4, <3>5, <2>t
    <3> QED BY <3>6, <3>5, <2>t, <2>h
  <2>3. CASE GetNothing
    BY <2>3 DEF GetNothing
  <2>4. CASE Tick \/ StepBack
    <3>1. availableElements' = availableElements /\ processed' = processed
      BY <2>4 DEF Tick, StepBack, counters, slots
    <3>2. Fresh' = Fresh
      BY <3>1 DEF Fresh
    <3>3. c2 - availableElements' <= c - availableElements
      BY <3>1, <3>2, <2>t
    <3> QED BY <3>3, <3>1, <2>t, <2>h
  <2> QED BY <2>1, <2>2, <2>3, <2>4 DEF Next
<1> QED BY <1>1, TypeCorrect, PTL DEF Spec, HiddenNeverGrows

-----------------------------------------------------------------------------
(* A captured frame sits in at most one slot. *)
Unique == \A i, j \in Slots : element[i] = element[j] /\ element[i] # NoImage => i = j

UniqueInv == TypeOK /\ Unique /\ AtMostOnce

LEMMA UniqueInit == Init => UniqueInv
<1> SUFFICES ASSUME Init PROVE UniqueInv
  OBVIOUS
<1>1. TypeOK
  BY BufferAssumption DEF Init, TypeOK, Slots, Images, Times, NoImage
<1> QED BY <1>1 DEF Init, UniqueInv, Unique, AtMostOnce, Fresh

LEMMA UniqueStep == UniqueInv /\ TypeOK' /\ [Next]_vars => UniqueInv'
<1> SUFFICES ASSUME UniqueInv, TypeOK', [Next]_vars PROVE Unique' /\ AtMostOnce'
  BY DEF UniqueInv
<1>t. TypeOK /\ Unique /\ AtMostOnce
  BY DEF UniqueInv
<1>1. CASE AddElement
  <2>1. PICK v \in Victim : Store(v)
    BY <1>1 DEF AddElement
  <2>2. v \in Slots
    BY <2>1, <1>t, ChosenSlots DEF TypeOK
  <2>3. /\ captured \in Nat /\ captured' = captured + 1 /\ delivered' = delivered
        /\ delivered \subseteq 1 .. captured
        /\ \A i \in Slots : element[i] \in 0 .. captured
    BY <1>1, <1>t DEF AddElement, TypeOK, Images
  <2>4. \A i \in Slots : element'[i] = IF i = v THEN captured + 1 ELSE element[i]
    BY <2>1, <2>2, <1>t DEF Store, Write, TypeOK
  <2>5. \A i \in Slots : processed'[i] = IF i = v THEN FALSE ELSE processed[i]
    BY <2>1, <2>2, <1>t DEF Store, Write, TypeOK
  <2>6. Unique'
    BY <2>3, <2>4, <1>t DEF Unique
  <2>7. AtMostOnce'
    <3>1. captured + 1 \notin delivered
      BY <2>3
    <3>2. \A i \in Slots : ~processed[i] => element[i] \notin delivered
      BY <1>t DEF AtMostOnce, Fresh
    <3> QED BY <3>1, <3>2, <2>3, <2>4, <2>5 DEF AtMostOnce, Fresh
  <2> QED BY <2>6, <2>7
<1>2. CASE GetElement
  <2>1. PICK k \in Deliverable : Take(k) /\ delivered' = delivered \cup ({element[k]} \ {NoImage})
    BY <1>2 DEF GetElement
  <2>2. k \in Slots
    BY <2>1, <1>t, ChosenSlots DEF TypeOK, Fresh
  <2>3. element' = element /\ \A i \in Slots : processed'[i] = IF i = k THEN TRUE ELSE processed[i]
    BY <2>1, <2>2, <1>t DEF Take, TypeOK
  <2>4. Unique'
    BY <2>3, <1>t DEF Unique
  <2>5. AtMostOnce'
    BY <2>1, <2>2, <2>3, <1>t DEF AtMostOnce, Fresh, Unique
  <2> QED BY <2>4, <2>5
<1>3. CASE Tick \/ StepBack \/ GetNothing \/ UNCHANGED vars
  BY <1>3, <1>t DEF Tick, StepBack, GetNothing, vars, slots, Unique, AtMostOnce, Fresh
<1> QED BY <1>1, <1>2, <1>3 DEF Next

LEMMA UniqueCorrect == Spec => []UniqueInv
BY UniqueInit, UniqueStep, TypeCorrect, PTL DEF Spec

(* No frame is analysed twice, with any clock: a slot that may still be     *)
(* handed out never holds a frame that was handed out before.               *)
THEOREM NeverTwice == Spec => []AtMostOnce
BY UniqueCorrect, PTL DEF UniqueInv

-----------------------------------------------------------------------------
(* The order of the fresh images, for a clock that never steps back.        *)

(* Time stamps and maxAge lie in the past; an empty slot has none. *)
TimesPast ==
    /\ maxAge <= clock
    /\ \A i \in Slots : tstamp[i] <= clock
    /\ \A i \in Slots : element[i] = NoImage => tstamp[i] = 0
    /\ captured = 0 => availableElements = 0

(* A later frame has no earlier time stamp. *)
Stamped == \A i, j \in Slots : element[i] <= element[j] => tstamp[i] <= tstamp[j]

(* Of two fresh slots the one getElement meets first holds the older frame, *)
(* or makes the other too old by being handed out.                          *)
RingOrder ==
    \A i, j \in Fresh :
        Distance(nextIndex, i) < Distance(nextIndex, j)
            => element[i] <= element[j] \/ tstamp[j] < tstamp[i]

(* No fresh slot between two of the same second is of a later second: the   *)
(* jump of addElement to the newest image never passes one of two images    *)
(* that only their order in the ring tells apart.                           *)
NoneBetween ==
    \A i, k, j \in Fresh :
        tstamp[i] = tstamp[j] /\ Distance(nextIndex, i) < Distance(nextIndex, k)
                              /\ Distance(nextIndex, k) < Distance(nextIndex, j)
            => tstamp[k] <= tstamp[i]

(* What getElement may still hand out is newer than all it handed out. *)
AfterDelivered ==
    \A i \in Fresh : maxAge <= tstamp[i] /\ element[i] # NoImage
                        => \A g \in delivered : g < element[i]

(* The newest image is not too old. *)
NewestStamped == \A i \in Slots : element[i] = captured => maxAge <= tstamp[i]

OrderInv ==
    /\ UniqueInv
    /\ TimesPast
    /\ Stamped
    /\ RingOrder
    /\ NoneBetween
    /\ AfterDelivered
    /\ NewestStamped

LEMMA DistanceRange ==
    ASSUME NEW n \in Slots, NEW i \in Slots, NEW j \in Slots
    PROVE  /\ Distance(n, i) \in 0 .. MaxElements - 1
           /\ Distance(n, i) = Distance(n, j) => i = j
           /\ Distance(n, n) = 0
           /\ Distance(n, i) = 0 => i = n
BY BufferAssumption DEF Slots, Distance

(* After slot v is written every scan starts behind it: what came after v  *)
(* comes first, then what came before v, and v last.                       *)
LEMMA Rotation ==
    ASSUME NEW n \in Slots, NEW v \in Slots, NEW m \in Slots, NEW i \in Slots,
           m = (v + 1) % MaxElements
    PROVE  Distance(m, i) = IF Distance(n, i) > Distance(n, v)
                            THEN Distance(n, i) - Distance(n, v) - 1
                            ELSE Distance(n, i) + MaxElements - Distance(n, v) - 1
<1>1. m = IF v = MaxElements - 1 THEN 0 ELSE v + 1
  BY NextSlot
<1>2. CASE v = MaxElements - 1
  BY <1>1, <1>2, BufferAssumption DEF Slots, Distance
<1>3. CASE v # MaxElements - 1
  BY <1>1, <1>3, BufferAssumption DEF Slots, Distance
<1> QED BY <1>2, <1>3

(* addElement writes to nextIndex, or jumps to a fresh slot that is strictly *)
(* newer than every fresh slot it passes.                                    *)
LEMMA VictimIsNewest ==
    ASSUME TypeOK, NEW v \in Victim, v # nextIndex
    PROVE  /\ v \in Fresh
           /\ \A i \in Fresh : /\ tstamp[i] <= tstamp[v]
                               /\ Distance(nextIndex, i) < Distance(nextIndex, v)
                                     => tstamp[i] < tstamp[v]
<1>1. v \in FirstOf(Newest)
  BY DEF Victim
<1>2. v \in Newest /\ \A i \in Newest : Distance(nextIndex, v) <= Distance(nextIndex, i)
  BY <1>1 DEF FirstOf
<1>3. v \in Fresh /\ \A i \in Fresh : tstamp[i] <= tstamp[v]
  BY <1>2 DEF Newest
<1>4. ASSUME NEW i \in Fresh, Distance(nextIndex, i) < Distance(nextIndex, v)
      PROVE  tstamp[i] < tstamp[v]
  <2>1. i \in Slots /\ v \in Slots /\ nextIndex \in Slots
    BY <1>3 DEF Fresh, TypeOK
  <2>2. Distance(nextIndex, i) \in Int /\ Distance(nextIndex, v) \in Int
    BY <2>1, DistanceRange
  <2>3. i \notin Newest
    BY <1>2, <1>4, <2>2
  <2>4. tstamp[i] # tstamp[v]
    BY <2>3, <1>3 DEF Newest
  <2>5. tstamp[i] \in Int /\ tstamp[v] \in Int
    BY <2>1 DEF TypeOK, Times
  <2> QED BY <2>4, <2>5, <1>3
<1> QED BY <1>3, <1>4

LEMMA OrderInit == Init => OrderInv
<1> SUFFICES ASSUME Init PROVE OrderInv
  OBVIOUS
<1>1. UniqueInv
  BY UniqueInit
<1>2. \A i \in Slots : element[i] = 0 /\ tstamp[i] = 0
  BY DEF Init, NoImage
<1>3. TimesPast /\ Stamped /\ NewestStamped
  BY <1>2, BufferAssumption DEF Init, TimesPast, Stamped, NewestStamped, NoImage
<1>4. RingOrder /\ NoneBetween /\ AfterDelivered
  BY <1>2, SMT DEF Init, RingOrder, NoneBetween, AfterDelivered, Fresh, NoImage
<1> QED BY <1>1, <1>3, <1>4 DEF OrderInv

LEMMA OrderAdd ==
    ASSUME OrderInv, AddElement, TypeOK'
    PROVE  /\ TimesPast' /\ Stamped' /\ RingOrder' /\ NoneBetween'
           /\ AfterDelivered' /\ NewestStamped'
<1> DEFINE d(i)  == Distance(nextIndex, i)
           d2(i) == Distance(nextIndex', i)
<1>1. PICK v \in Victim : Store(v)
  BY DEF AddElement
<1>t. TypeOK
  BY DEF OrderInv, UniqueInv
<1>2. v \in Slots /\ nextIndex \in Slots /\ nextIndex' \in Slots
  BY <1>1, <1>t, ChosenSlots DEF TypeOK
<1>3. /\ captured \in Nat /\ captured' = captured + 1 /\ delivered' = delivered
      /\ maxAge' = maxAge /\ clock' = clock /\ maxAge \in Nat /\ clock \in Nat
      /\ delivered \subseteq 1 .. captured
      /\ \A i \in Slots : element[i] \in 0 .. captured /\ tstamp[i] \in Nat
  BY <1>t DEF AddElement, TypeOK, Images, Times
<1>4. \A i \in Slots : element'[i] = IF i = v THEN captured + 1 ELSE element[i]
  BY <1>1, <1>2, <1>t DEF Store, Write, TypeOK
<1>5. \A i \in Slots : tstamp'[i] = IF i = v THEN clock ELSE tstamp[i]
  BY <1>1, <1>2, <1>t DEF Store, Write, TypeOK
<1>6. \A i \in Fresh' : i \in Slots /\ (i # v => i \in Fresh)
  BY <1>1, <1>2, <1>t DEF Store, Write, TypeOK, Fresh
<1>7. /\ MaxElements \in Nat /\ MaxElements > 0
      /\ \A i \in Slots : d(i) \in 0 .. MaxElements - 1 /\ d2(i) \in 0 .. MaxElements - 1
  BY <1>2, DistanceRange, BufferAssumption
<1>8. \A i, j \in Slots : d2(i) = d2(j) => i = j
  BY <1>2, DistanceRange
<1>9. \A i \in Slots : d2(i) = IF d(i) > d(v) THEN d(i) - d(v) - 1
                               ELSE d(i) + MaxElements - d(v) - 1
  BY <1>1, <1>2, Rotation DEF Store, Write
<1>10. \A i, j \in Slots : d(i) = d(j) => i = j
  BY <1>2, DistanceRange
<1>11. ASSUME v # nextIndex
       PROVE  /\ v \in Fresh
              /\ \A i \in Fresh : d(i) < d(v) => tstamp[i] < tstamp[v]
  BY <1>11, <1>1, <1>t, VictimIsNewest
<1>12. v = nextIndex => d(v) = 0
  BY <1>2, DistanceRange
<1> HIDE DEF d, d2
<1>a. TimesPast'
  <2>1. maxAge' <= clock' /\ \A i \in Slots : tstamp'[i] <= clock'
    BY <1>3, <1>5 DEF OrderInv, TimesPast
  <2>2. \A i \in Slots : element'[i] = NoImage => tstamp'[i] = 0
    BY <1>3, <1>4, <1>5 DEF OrderInv, TimesPast, NoImage
  <2> QED BY <2>1, <2>2, <1>3 DEF TimesPast
<1>b. Stamped'
  <2> SUFFICES ASSUME NEW i \in Slots, NEW j \in Slots, element'[i] <= element'[j]
               PROVE  tstamp'[i] <= tstamp'[j]
    BY DEF Stamped
  <2>1. CASE i = v /\ j # v
    BY <2>1, <1>3, <1>4
  <2>2. CASE j = v
    BY <2>2, <1>3, <1>5 DEF OrderInv, TimesPast
  <2>3. CASE i # v /\ j # v
    BY <2>3, <1>3, <1>4, <1>5 DEF OrderInv, Stamped
  <2> QED BY <2>1, <2>2, <2>3
(* Two old images whose order in the ring is reversed by the jump to v. *)
<1>13. ASSUME NEW i \in Fresh, NEW j \in Fresh, i # v, j # v,
              d2(i) < d2(j), ~(d(i) < d(j))
       PROVE  /\ v \in Fresh
              /\ d(j) < d(v) /\ d(v) < d(i)
              /\ tstamp[j] < tstamp[v]
              /\ tstamp[i] # tstamp[j]
  <2>1. i \in Slots /\ j \in Slots
    BY DEF Fresh
  <2>2. d(j) < d(v) /\ d(v) < d(i)
    BY <2>1, <1>13, <1>2, <1>7, <1>9, <1>10
  <2>3. v # nextIndex
    BY <2>1, <2>2, <1>7, <1>12
  <2>4. v \in Fresh /\ tstamp[j] < tstamp[v]
    BY <2>2, <2>3, <1>11
  <2>5. tstamp[i] = tstamp[j] => tstamp[v] <= tstamp[j]
    BY <2>2, <2>4 DEF OrderInv, NoneBetween, d
  <2> QED BY <2>1, <2>2, <2>4, <2>5, <1>2, <1>3
<1>c. RingOrder'
  <2> SUFFICES ASSUME NEW i \in Fresh', NEW j \in Fresh', d2(i) < d2(j)
               PROVE  element'[i] <= element'[j] \/ tstamp'[j] < tstamp'[i]
    BY DEF RingOrder, d2
  <2>1. i \in Slots /\ j \in Slots
    BY <1>6
  <2>2. CASE i = v
    BY <2>1, <2>2, <1>2, <1>7, <1>9
  <2>3. CASE j = v
    BY <2>1, <2>3, <1>3, <1>4
  <2>4. CASE i # v /\ j # v
    <3>1. i \in Fresh /\ j \in Fresh
      BY <2>4, <1>6
    <3>2. element[i] \in Int /\ element[j] \in Int /\ tstamp[i] \in Int /\ tstamp[j] \in Int
      BY <2>1, <1>3
    <3>3. CASE d(i) < d(j)
      <4>1. element[i] <= element[j] \/ tstamp[j] < tstamp[i]
        BY <3>1, <3>3 DEF OrderInv, RingOrder, d
      <4> QED BY <4>1, <2>1, <2>4, <1>4, <1>5
    <3>4. CASE ~(d(i) < d(j))
      <4>1. d(j) < d(i) /\ tstamp[i] # tstamp[j]
        BY <3>1, <3>4, <2>1, <2>4, <1>2, <1>7, <1>13
      <4>2. element[j] <= element[i] \/ tstamp[i] < tstamp[j]
        BY <3>1, <4>1 DEF OrderInv, RingOrder, d
      <4>3. element[j] <= element[i] => tstamp[j] <= tstamp[i]
        BY <2>1 DEF OrderInv, Stamped
      <4>4. element[i] <= element[j] \/ tstamp[j] < tstamp[i]
        BY <4>1, <4>2, <4>3, <3>2
      <4> QED BY <4>4, <2>1, <2>4, <1>4, <1>5
    <3> QED BY <3>3, <3>4
  <2> QED BY <2>2, <2>3, <2>4
<1>d. NoneBetween'
  <2> SUFFICES ASSUME NEW i \in Fresh', NEW k \in Fresh', NEW j \in Fresh',
                      d2(i) < d2(k), d2(k) < d2(j), tstamp'[i] = tstamp'[j]
               PROVE  tstamp'[k] <= tstamp'[i]
    BY DEF NoneBetween, d2
  <2>1. i \in Slots /\ k \in Slots /\ j \in Slots
    BY <1>6
  <2>2. i # v /\ k # v
    BY <2>1, <1>2, <1>7, <1>9
  <2>3. CASE j = v
    BY <2>1, <2>2, <2>3, <1>5 DEF OrderInv, TimesPast
  <2>4. CASE j # v
    <3>1. i \in Fresh /\ k \in Fresh /\ j \in Fresh
      BY <2>2, <2>4, <1>6
    <3>2. tstamp[i] = tstamp[j]
      BY <2>1, <2>2, <2>4, <1>5
    <3>3. d2(i) < d2(j)
      BY <2>1, <1>7
    <3>4. d(i) < d(j)
      BY <3>1, <3>2, <3>3, <2>2, <2>4, <1>13
    <3>5. d(i) < d(k) /\ d(k) < d(j)
      BY <3>4, <2>1, <1>2, <1>7, <1>9
    <3>6. tstamp[k] <= tstamp[i]
      BY <3>1, <3>2, <3>5 DEF OrderInv, NoneBetween, d
    <3> QED BY <3>6, <2>1, <2>2, <1>5
  <2> QED BY <2>3, <2>4
<1>e. AfterDelivered'
  <2> SUFFICES ASSUME NEW i \in Fresh', maxAge' <= tstamp'[i], element'[i] # NoImage,
                      NEW g \in delivered'
               PROVE  g < element'[i]
    BY DEF AfterDelivered
  <2>1. i \in Slots /\ g \in delivered /\ g \in 1 .. captured
    BY <1>6, <1>3
  <2>2. CASE i = v
    BY <2>1, <2>2, <1>3, <1>4
  <2>3. CASE i # v
    BY <2>1, <2>3, <1>3, <1>4, <1>5, <1>6 DEF OrderInv, AfterDelivered
  <2> QED BY <2>2, <2>3
<1>f. NewestStamped'
  BY <1>3, <1>4, <1>5 DEF NewestStamped, OrderInv, TimesPast
<1> QED BY <1>a, <1>b, <1>c, <1>d, <1>e, <1>f

(* What getElement does to one slot i: the facts every later proof needs. *)
LEMMA TakeFacts ==
    ASSUME OrderInv, NEW k \in Deliverable, Take(k)
    PROVE  /\ k \in Fresh /\ k \in Slots /\ availableElements # 0
           /\ maxAge <= tstamp[k] /\ maxAge' = tstamp[k]
           /\ element' = element /\ tstamp' = tstamp
           /\ Fresh' = Fresh \ {k}
           /\ \A j \in Fresh : j # k /\ tstamp[k] <= tstamp[j] /\ element[j] # NoImage
                                  => element[k] < element[j]
<1>t. TypeOK /\ Unique
  BY DEF OrderInv, UniqueInv
<1>1. k \in FirstOf(NotTooOld) /\ availableElements # 0
  BY DEF Deliverable
<1>2. k \in NotTooOld /\ \A j \in NotTooOld : Distance(nextIndex, k) <= Distance(nextIndex, j)
  BY <1>1 DEF FirstOf
<1>3. k \in Fresh /\ k \in Slots /\ maxAge <= tstamp[k]
  BY <1>2 DEF NotTooOld, Fresh
<1>4. element' = element /\ tstamp' = tstamp /\ maxAge' = tstamp[k]
  BY DEF Take
<1>5. Fresh' = Fresh \ {k}
  BY <1>3, <1>t DEF Take, Fresh, TypeOK
<1>6. ASSUME NEW j \in Fresh, j # k, tstamp[k] <= tstamp[j], element[j] # NoImage
      PROVE  element[k] < element[j]
  <2>1. j \in Slots /\ nextIndex \in Slots
    BY <1>t DEF Fresh, TypeOK
  <2>2. /\ tstamp[k] \in Int /\ tstamp[j] \in Int /\ maxAge \in Int
        /\ element[k] \in Int /\ element[j] \in Int
    BY <2>1, <1>3, <1>t DEF TypeOK, Times, Images
  <2>3. j \in NotTooOld
    BY <1>3, <1>6, <2>2 DEF NotTooOld
  <2>4. Distance(nextIndex, k) < Distance(nextIndex, j)
    <3>1. Distance(nextIndex, k) <= Distance(nextIndex, j)
      BY <1>2, <2>3
    <3>2. Distance(nextIndex, k) # Distance(nextIndex, j)
      BY <1>3, <1>6, <2>1, DistanceRange
    <3>3. Distance(nextIndex, k) \in Int /\ Distance(nextIndex, j) \in Int
      BY <1>3, <2>1, DistanceRange
    <3> QED BY <3>1, <3>2, <3>3
  <2>5. element[k] <= element[j] \/ tstamp[j] < tstamp[k]
    BY <1>3, <2>4 DEF OrderInv, RingOrder
  <2>6. element[k] # element[j]
    BY <1>3, <1>6, <2>1, <1>t DEF Unique
  <2> QED BY <2>5, <2>6, <2>2, <1>6
<1> QED BY <1>1, <1>3, <1>4, <1>5, <1>6

LEMMA OrderGet ==
    ASSUME OrderInv, GetElement, TypeOK'
    PROVE  /\ TimesPast' /\ Stamped' /\ RingOrder' /\ NoneBetween'
           /\ AfterDelivered' /\ NewestStamped'
<1>t. TypeOK /\ Unique
  BY DEF OrderInv, UniqueInv
<1>1. PICK k \in Deliverable : Take(k) /\ delivered' = delivered \cup ({element[k]} \ {NoImage})
  BY DEF GetElement
<1>2. /\ k \in Fresh /\ k \in Slots /\ availableElements # 0
      /\ maxAge <= tstamp[k] /\ maxAge' = tstamp[k]
      /\ element' = element /\ tstamp' = tstamp /\ Fresh' = Fresh \ {k}
      /\ \A j \in Fresh : j # k /\ tstamp[k] <= tstamp[j] /\ element[j] # NoImage
                             => element[k] < element[j]
  BY <1>1, TakeFacts
<1>3. nextIndex' = nextIndex /\ clock' = clock /\ captured' = captured
  BY DEF GetElement
<1>4. /\ \A i \in Slots : element[i] \in 0 .. captured /\ tstamp[i] \in Nat
      /\ maxAge \in Nat /\ captured \in Nat
  BY <1>t DEF TypeOK, Times, Images
<1>5. captured # 0
  BY <1>2 DEF OrderInv, TimesPast
<1>a. TimesPast'
  BY <1>2, <1>3, <1>5 DEF OrderInv, TimesPast
<1>b. Stamped'
  BY <1>2 DEF OrderInv, Stamped
<1>c. RingOrder'
  BY <1>2, <1>3 DEF OrderInv, RingOrder
<1>d. NoneBetween'
  BY <1>2, <1>3 DEF OrderInv, NoneBetween
<1>e. AfterDelivered'
  <2> SUFFICES ASSUME NEW i \in Fresh, i # k, tstamp[k] <= tstamp[i], element[i] # NoImage,
                      NEW g \in delivered'
               PROVE  g < element[i]
    BY <1>2 DEF AfterDelivered
  <2>1. i \in Slots
    BY DEF Fresh
  <2>2. CASE g = element[k]
    BY <2>2, <1>2
  <2>3. CASE g \in delivered
    <3>1. maxAge <= tstamp[i]
      BY <2>1, <1>2, <1>4
    <3> QED BY <3>1, <2>3 DEF OrderInv, AfterDelivered
  <2> QED BY <2>2, <2>3, <1>1
<1>f. NewestStamped'
  <2> SUFFICES ASSUME NEW i \in Slots, element[i] = captured
               PROVE  tstamp[k] <= tstamp[i]
    BY <1>2, <1>3 DEF NewestStamped
  <2>1. element[k] <= element[i]
    BY <1>2, <1>4
  <2> QED BY <2>1, <1>2 DEF OrderInv, Stamped
<1> QED BY <1>a, <1>b, <1>c, <1>d, <1>e, <1>f

LEMMA OrderStep ==
    ASSUME ~ClockMayStepBack, OrderInv, UniqueInv', [Next]_vars
    PROVE  OrderInv'
<1>t. TypeOK /\ TypeOK'
  BY DEF OrderInv, UniqueInv
<1>1. CASE AddElement
  BY <1>1, <1>t, OrderAdd DEF OrderInv
<1>2. CASE GetElement
  BY <1>2, <1>t, OrderGet DEF OrderInv
<1>3. CASE Tick \/ GetNothing \/ UNCHANGED vars
  <2>1. UNCHANGED <<slots, counters, captured, delivered>> /\ clock \in Int /\ clock <= clock'
    BY <1>3, <1>t DEF Tick, GetNothing, vars, TypeOK, Times
  <2>2. Fresh' = Fresh
    BY <2>1 DEF slots, Fresh
  <2>3. maxAge \in Int /\ clock' \in Int /\ \A i \in Slots : tstamp[i] \in Int
    BY <1>t DEF TypeOK, Times
  <2>4. TimesPast'
    BY <2>1, <2>3 DEF slots, counters, OrderInv, TimesPast
  <2>5. Stamped' /\ NewestStamped'
    BY <2>1 DEF slots, counters, OrderInv, Stamped, NewestStamped
  <2>6. RingOrder' /\ NoneBetween' /\ AfterDelivered'
    BY <2>1, <2>2 DEF slots, counters, OrderInv, RingOrder, NoneBetween, AfterDelivered
  <2> QED BY <2>4, <2>5, <2>6 DEF OrderInv
<1> QED BY <1>1, <1>2, <1>3 DEF Next, StepBack

(* The theorems below are about a clock that never steps back. *)
LEMMA OrderCorrect ==
    ASSUME ~ClockMayStepBack
    PROVE  Spec => []OrderInv
<1>1. OrderInv /\ UniqueInv' /\ [Next]_vars => OrderInv'
  BY OrderStep
<1> QED BY <1>1, OrderInit, UniqueCorrect, PTL DEF Spec

LEMMA InOrderStep ==
    ASSUME OrderInv, [Next]_vars
    PROVE  InOrder
<1>1. CASE GetElement
  <2>1. PICK k \in Deliverable : Take(k) /\ delivered' = delivered \cup ({element[k]} \ {NoImage})
    BY <1>1 DEF GetElement
  <2>2. k \in Fresh /\ maxAge <= tstamp[k]
    BY <2>1, TakeFacts
  <2>3. element[k] # NoImage => \A g \in delivered : g < element[k]
    BY <2>2 DEF OrderInv, AfterDelivered
  <2> QED BY <2>1, <2>3 DEF InOrder
<1>2. CASE UNCHANGED delivered
  BY <1>2 DEF InOrder
<1> QED BY <1>1, <1>2 DEF Next, AddElement, Tick, StepBack, GetNothing, vars

(* Frames are analysed in the order in which the camera took them, with any *)
(* number of slots and however the camera outruns the detector threads.     *)
THEOREM AlwaysInOrder ==
    ASSUME ~ClockMayStepBack
    PROVE  Spec => DeliveredInOrder
<1>1. OrderInv /\ [Next]_vars => [InOrder]_vars
  BY InOrderStep
<1> QED BY <1>1, OrderCorrect, PTL DEF Spec, DeliveredInOrder

(* The image addElement stored last is never refused for its age. *)
THEOREM NewestDeliverable ==
    ASSUME ~ClockMayStepBack
    PROVE  Spec => []NewestNotTooOld
<1>1. OrderInv => NewestNotTooOld
  BY DEF OrderInv, NewestStamped, NewestNotTooOld, Fresh
<1> QED BY <1>1, OrderCorrect, PTL

-----------------------------------------------------------------------------
(* The scans of the ring end, and at one slot.                              *)

LEMMA LeastNatural ==
    ASSUME NEW T, T \subseteq Nat, T # {}
    PROVE  \E m \in T : \A n \in T : m <= n
<1>1. PICK m \in T : \A n \in T : <<n, m>> \notin OpToRel(<, Nat)
  BY NatLessThanWellFounded, WFMin
<1>2. \A n \in T : ~(n < m)
  BY <1>1, Zenon DEF OpToRel
<1> QED BY <1>2

(* A scan of slots of which there is one stops at exactly one. *)
LEMMA FirstExists ==
    ASSUME nextIndex \in Slots, NEW S, S \subseteq Slots, S # {}
    PROVE  \E i \in S : FirstOf(S) = {i}
<1> DEFINE D == {Distance(nextIndex, i) : i \in S}
<1>1. D \subseteq Nat /\ D # {}
  BY DistanceRange, BufferAssumption
<1>2. PICK m \in D : \A n \in D : m <= n
  BY <1>1, LeastNatural
<1>3. PICK i \in S : m = Distance(nextIndex, i)
  BY <1>2
<1>4. \A j \in S : Distance(nextIndex, i) <= Distance(nextIndex, j)
  BY <1>2, <1>3
<1>5. \A j \in S : Distance(nextIndex, j) <= Distance(nextIndex, i) => j = i
  BY <1>4, DistanceRange
<1>6. FirstOf(S) = {i}
  BY <1>4, <1>5 DEF FirstOf
<1> QED BY <1>6

(* There is a newest one among fresh slots. *)
LEMMA NewestExists ==
    ASSUME TypeOK, Fresh # {}
    PROVE  Newest # {}
<1> DEFINE D == {MaxTime - tstamp[i] : i \in Fresh}
<1>1. \A i \in Fresh : tstamp[i] \in Times
  BY DEF TypeOK, Fresh
<1>2. D \subseteq Nat /\ D # {}
  BY <1>1, BufferAssumption DEF Times
<1>3. PICK m \in D : \A n \in D : m <= n
  BY <1>2, LeastNatural
<1>4. PICK i \in Fresh : m = MaxTime - tstamp[i]
  BY <1>3
<1>5. \A j \in Fresh : MaxTime - tstamp[i] <= MaxTime - tstamp[j]
  BY <1>3, <1>4
<1>6. \A j \in Fresh : tstamp[j] <= tstamp[i]
  BY <1>1, <1>5, BufferAssumption DEF Times
<1> QED BY <1>4, <1>6 DEF Newest

LEMMA Decided == TypeOK => ScansDecide
<1> SUFFICES ASSUME TypeOK PROVE ScansDecide
  OBVIOUS
<1>1. nextIndex \in Slots /\ Fresh \subseteq Slots
  BY DEF TypeOK, Fresh
<1>2. \E v \in Slots : Victim = {v}
  <2>1. CASE processed[nextIndex]
    BY <1>1, <2>1 DEF Victim
  <2>2. CASE ~processed[nextIndex]
    <3>1. Newest # {} /\ Newest \subseteq Slots
      BY <1>1, <2>2, NewestExists DEF Fresh, Newest
    <3>2. \E v \in Newest : FirstOf(Newest) = {v}
      BY <1>1, <3>1, FirstExists
    <3> QED BY <2>2, <3>1, <3>2 DEF Victim
  <2> QED BY <2>1, <2>2
<1>3. ASSUME NEW i \in Deliverable, NEW j \in Deliverable PROVE i = j
  <2>1. i \in FirstOf(NotTooOld) /\ j \in FirstOf(NotTooOld)
    BY <1>3 DEF Deliverable
  <2>2. NotTooOld \subseteq Slots /\ NotTooOld # {}
    BY <2>1 DEF FirstOf, NotTooOld, Fresh
  <2>3. \E k \in NotTooOld : FirstOf(NotTooOld) = {k}
    BY <1>1, <2>2, FirstExists
  <2> QED BY <2>1, <2>3
<1> QED BY <1>2, <1>3 DEF ScansDecide

(* addElement always finds exactly one slot to write, and getElement never  *)
(* more than one to hand out, with any clock.                               *)
THEOREM ScansEnd == Spec => []ScansDecide
  BY TypeCorrect, Decided, PTL

LEMMA Takeable ==
    TypeOK /\ availableElements # 0 /\ NotTooOld # {} => Deliverable # {}
<1> SUFFICES ASSUME TypeOK, availableElements # 0, NotTooOld # {} PROVE Deliverable # {}
  OBVIOUS
<1>1. nextIndex \in Slots /\ NotTooOld \subseteq Slots
  BY DEF TypeOK, NotTooOld, Fresh
<1>2. \E i \in NotTooOld : FirstOf(NotTooOld) = {i}
  BY <1>1, FirstExists
<1> QED BY <1>2 DEF Deliverable

(* What was stored last is fresh, counted and not older than the limit, so  *)
(* there is something to take (RC_CircularBuffer.cpp:57-75).                *)
THEOREM StoredTakeable ==
    ASSUME ~ClockMayStepBack
    PROVE  Spec => StoredIsTakeable
<1>1. ASSUME TypeOK, TypeOK', OrderInv, [Next]_vars, captured' # captured
      PROVE  Deliverable' # {}
  <2>1. AddElement
    BY <1>1 DEF Next, GetElement, GetNothing, Tick, StepBack, vars
  <2>2. PICK v \in Victim : Store(v)
    BY <2>1 DEF AddElement
  <2>3. v \in Slots
    BY <1>1, ChosenSlots DEF TypeOK
  <2>4. ~processed'[v] /\ tstamp'[v] = clock /\ maxAge' = maxAge /\ maxAge <= clock
    BY <1>1, <2>1, <2>2, <2>3 DEF AddElement, Store, Write, TypeOK, OrderInv, TimesPast
  <2>5. NotTooOld' # {}
    BY <2>3, <2>4 DEF NotTooOld, Fresh
  <2>6. availableElements' # 0
    BY <1>1, <2>2, BufferAssumption DEF Store, TypeOK
  <2>7. (TypeOK /\ availableElements # 0 /\ NotTooOld # {} => Deliverable # {})'
    BY Takeable, PTL
  <2> QED BY <1>1, <2>5, <2>6, <2>7
<1>2. TypeOK /\ TypeOK' /\ OrderInv /\ [Next]_vars => [captured' # captured => Deliverable' # {}]_vars
  BY <1>1
<1> QED BY <1>2, TypeCorrect, OrderCorrect, PTL DEF Spec, StoredIsTakeable

-----------------------------------------------------------------------------
(* The buffer implements FrameChannel. *)

Pending == {element[i] : i \in Fresh} \ {NoImage}

LEMMA ChannelInit == Init => Channel!Init
BY DEF Init, Channel!Init, Fresh, NoImage

LEMMA ChannelCapture ==
    ASSUME OrderInv, AddElement
    PROVE  Channel!Capture
<1>t. TypeOK /\ Unique
  BY DEF OrderInv, UniqueInv
<1>1. PICK v \in Victim : Store(v)
  BY DEF AddElement
<1>2. v \in Slots
  BY <1>1, <1>t, ChosenSlots DEF TypeOK
<1>3. /\ captured < MaxFrames /\ captured' = captured + 1 /\ delivered' = delivered
      /\ captured \in Nat /\ captured + 1 # NoImage
  BY <1>t DEF AddElement, TypeOK, Images, NoImage
<1>4. \A i \in Slots : element'[i] = IF i = v THEN captured + 1 ELSE element[i]
  BY <1>1, <1>2, <1>t DEF Store, Write, TypeOK
<1>5. Fresh' = Fresh \cup {v}
  BY <1>1, <1>2, <1>t DEF Store, Write, Fresh, TypeOK
<1>6. Fresh \subseteq Slots
  BY DEF Fresh
<1>7. CASE v \in Fresh /\ element[v] # NoImage
  <2>1. element[v] \in Pending
    BY <1>7 DEF Pending
  <2>2. Pending' = (Pending \ {element[v]}) \cup {captured + 1}
    BY <1>2, <1>3, <1>4, <1>5, <1>6, <1>7, <1>t DEF Pending, Unique
  <2> QED BY <1>3, <2>1, <2>2 DEF Channel!Capture, Pending
<1>8. CASE ~(v \in Fresh /\ element[v] # NoImage)
  <2>1. Pending' = (Pending \ {}) \cup {captured + 1}
    BY <1>2, <1>3, <1>4, <1>5, <1>6, <1>8, <1>t DEF Pending, Unique
  <2> QED BY <1>3, <2>1 DEF Channel!Capture, Pending
<1> QED BY <1>7, <1>8

LEMMA ChannelDeliver ==
    ASSUME OrderInv, GetElement
    PROVE  Channel!Deliver \/ UNCHANGED Channel!vars
<1>t. TypeOK /\ Unique
  BY DEF OrderInv, UniqueInv
<1>1. PICK k \in Deliverable : Take(k) /\ delivered' = delivered \cup ({element[k]} \ {NoImage})
  BY DEF GetElement
<1>2. k \in Fresh /\ maxAge <= tstamp[k] /\ element' = element /\ Fresh' = Fresh \ {k}
  BY <1>1, TakeFacts
<1>3. captured' = captured /\ Fresh \subseteq Slots
  BY DEF GetElement, Fresh
<1>4. CASE element[k] = NoImage
  <2>1. delivered' = delivered
    BY <1>1, <1>4
  <2>2. Pending' = Pending
    BY <1>2, <1>3, <1>4 DEF Pending
  <2> QED BY <2>1, <2>2, <1>3 DEF Channel!vars, Pending
<1>5. CASE element[k] # NoImage
  <2>1. element[k] \in Pending
    BY <1>2, <1>5 DEF Pending
  <2>2. \A g \in delivered : g < element[k]
    BY <1>2, <1>5 DEF OrderInv, AfterDelivered
  <2>3. Pending' = Pending \ {element[k]}
    BY <1>2, <1>3, <1>5, <1>t DEF Pending, Unique
  <2>4. delivered' = delivered \cup {element[k]}
    BY <1>1, <1>5
  <2> QED BY <2>1, <2>2, <2>3, <2>4, <1>3 DEF Channel!Deliver, Pending
<1> QED BY <1>4, <1>5

(* The ring with its overwriting, its counters and its age check is, seen   *)
(* from the camera loop and the detector threads, a lossy channel that      *)
(* keeps every new frame and delivers in order, each frame at most once.    *)
THEOREM BufferImplementsChannel ==
    ASSUME ~ClockMayStepBack
    PROVE  Spec => ImplementsChannel
<1>1. OrderInv /\ [Next]_vars => [Channel!Next]_(Channel!vars)
  <2> SUFFICES ASSUME OrderInv, [Next]_vars PROVE [Channel!Next]_(Channel!vars)
    OBVIOUS
  <2>1. CASE AddElement
    BY <2>1, ChannelCapture DEF Channel!Next
  <2>2. CASE GetElement
    BY <2>2, ChannelDeliver DEF Channel!Next
  <2>3. CASE Tick \/ StepBack \/ GetNothing \/ UNCHANGED vars
    BY <2>3 DEF Tick, StepBack, GetNothing, vars, slots, Channel!vars, Fresh
  <2> QED BY <2>1, <2>2, <2>3 DEF Next
<1> QED BY <1>1, ChannelInit, OrderCorrect, PTL DEF Spec, ImplementsChannel, Channel!Spec
=============================================================================
