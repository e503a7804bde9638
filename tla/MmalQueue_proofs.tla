-------------------------- MODULE MmalQueue_proofs --------------------------
(***************************************************************************)
(* The linked list with its semaphore is a FIFO queue, for any number of   *)
(* threads and buffers.  QueueInv adds to the two invariants of MmalQueue  *)
(* what makes them inductive: who is in the mutex, and that a buffer is in *)
(* one place only, so that no step writes to the `next' of a linked one by *)
(* accident.                                                               *)
(***************************************************************************)
EXTENDS MmalQueue, FiniteSetTheorems, SequenceTheorems, TLAPS

Locked == \A t \in Threads : pc[t] \in {"posting", "taking"} <=> lock = t

OnePlace ==
    /\ \A t, u \in Threads : t # u => held[t] \cap held[u] = {}
    /\ \A t \in Threads, i \in 1 .. Len(order) : order[i] \notin held[t]
    /\ \A i, j \in 1 .. Len(order) : order[i] = order[j] => i = j

TakesOne == \A t \in Threads : pc[t] = "taking" => order # <<>>

Shape == TypeOK /\ Locked /\ OnePlace /\ TakesOne /\ ListIsQueue

-----------------------------------------------------------------------------
(* What putting at either end and taking do to a sequence. *)
LEMMA Appended ==
    ASSUME NEW S, NEW s \in Seq(S), NEW b \in S
    PROVE  /\ Append(s, b) \in Seq(S) /\ Len(Append(s, b)) = Len(s) + 1 /\ Append(s, b) # <<>>
           /\ \A i \in 1 .. Len(s) + 1 : Append(s, b)[i] = IF i <= Len(s) THEN s[i] ELSE b
<1>1. Len(s) \in Nat
  BY LenProperties
<1> QED BY <1>1, AppendProperties

LEMMA Prepended ==
    ASSUME NEW S, NEW s \in Seq(S), NEW b \in S
    PROVE  /\ <<b>> \o s \in Seq(S) /\ Len(<<b>> \o s) = Len(s) + 1 /\ <<b>> \o s # <<>>
           /\ \A i \in 1 .. Len(s) + 1 : (<<b>> \o s)[i] = IF i = 1 THEN b ELSE s[i - 1]
<1>1. <<b>> \in Seq(S) /\ Len(<<b>>) = 1 /\ <<b>>[1] = b
  OBVIOUS
<1>2. Len(s) \in Nat
  BY LenProperties
<1>3. <<b>> \o s \in Seq(S) /\ Len(<<b>> \o s) = Len(s) + 1
  BY <1>1, <1>2, ConcatProperties
<1>4. \A i \in 1 .. Len(s) + 1 : (<<b>> \o s)[i] = IF i = 1 THEN b ELSE s[i - 1]
  <2> TAKE i \in 1 .. Len(s) + 1
  <2>1. (<<b>> \o s)[i] = IF i <= 1 THEN <<b>>[i] ELSE s[i - 1]
    BY <1>1, <1>2, ConcatProperties
  <2> QED BY <1>1, <1>2, <2>1
<1>5. <<b>> \o s # <<>>
  BY <1>2, <1>3, EmptySeq
<1> QED BY <1>3, <1>4, <1>5

(* The list invariant without Head, which the provers know less about. *)
LEMMA Ends ==
    ASSUME TypeOK
    PROVE  ListIsQueue <=>
             /\ length = Len(order)
             /\ first = IF Len(order) = 0 THEN Null ELSE order[1]
             /\ last  = IF Len(order) = 0 THEN Null ELSE order[Len(order)]
             /\ \A i \in 1 .. Len(order) :
                    next[order[i]] = IF i = Len(order) THEN Null ELSE order[i + 1]
<1>1. order \in Seq(Buffers)
  BY DEF TypeOK
<1>2. order = <<>> <=> Len(order) = 0
  BY <1>1, EmptySeq
<1>3. order # <<>> => Head(order) = order[1]
  BY <1>1, HeadTailProperties
<1> QED BY <1>2, <1>3 DEF ListIsQueue

-----------------------------------------------------------------------------
LEMMA ShapeInit == Init => Shape
<1> SUFFICES ASSUME Init PROVE Shape
  OBVIOUS
<1>1. PICK owner \in [Buffers -> Threads] :
          held = [t \in Threads |-> {b \in Buffers : owner[b] = t}]
  BY DEF Init
<1>2. order = <<>> /\ Len(order) = 0 /\ order \in Seq(Buffers)
  BY EmptySeq DEF Init
<1>3. TypeOK
  BY <1>1, <1>2 DEF Init, TypeOK, States
<1>4. Locked /\ TakesOne
  BY QueueAssumption DEF Init, Locked, TakesOne
<1>5. OnePlace
  BY <1>1, <1>2 DEF OnePlace
<1>6. ListIsQueue
  BY <1>2, <1>3, Ends DEF Init
<1> QED BY <1>3, <1>4, <1>5, <1>6 DEF Shape

(* Putting a buffer at the end ... *)
LEMMA ShapePut ==
    ASSUME Shape, NEW t \in Threads, NEW b \in Buffers, Put(t, b)
    PROVE  Shape'
<1> DEFINE n == Len(order)
<1>0. /\ order \in Seq(Buffers) /\ n \in Nat /\ \A i \in 1 .. n : order[i] \in Buffers
      /\ pc[t] = "idle" /\ pc' = [pc EXCEPT ![t] = "posting"]
      /\ b \in held[t] /\ held' = [held EXCEPT ![t] = @ \ {b}]
      /\ lock = Null /\ lock' = t /\ order' = Append(order, b) /\ sem' = sem
  BY LenProperties, ElementOfSeq DEF Shape, TypeOK, Put, Goto
<1>1. /\ order' \in Seq(Buffers) /\ Len(order') = n + 1 /\ order' # <<>>
      /\ \A i \in 1 .. n + 1 : order'[i] = IF i <= n THEN order[i] ELSE b
  BY <1>0, Appended
<1>2. /\ length = n
      /\ first = IF n = 0 THEN Null ELSE order[1]
      /\ last  = IF n = 0 THEN Null ELSE order[n]
      /\ \A i \in 1 .. n : next[order[i]] = IF i = n THEN Null ELSE order[i + 1]
  BY Ends DEF Shape
<1>3. last = Null <=> n = 0
  BY <1>0, <1>2, QueueAssumption
<1>4. \A i \in 1 .. n : order[i] # b
  BY <1>0 DEF Shape, OnePlace
<1>5. /\ length' = length + 1 /\ last' = b
      /\ first' = IF n = 0 THEN b ELSE first
      /\ next' = IF n = 0 THEN [next EXCEPT ![b] = Null] ELSE [next EXCEPT ![last] = b, ![b] = Null]
  BY <1>3 DEF Put, Link
<1>6. TypeOK'
  <2>1. last \in Buffers \cup {Null} /\ next \in [Buffers -> Buffers \cup {Null}]
    BY DEF Shape, TypeOK
  <2>2. next' \in [Buffers -> Buffers \cup {Null}]
    BY <1>5, <2>1
  <2>3. /\ length' \in Nat /\ first' \in Buffers \cup {Null} /\ last' \in Buffers \cup {Null}
        /\ lock' \in Threads \cup {Null} /\ sem' \in Nat /\ order' \in Seq(Buffers)
    BY <1>0, <1>1, <1>5 DEF Shape, TypeOK
  <2>4. pc' \in [Threads -> States] /\ held' \in [Threads -> SUBSET Buffers]
    BY <1>0 DEF Shape, TypeOK, States
  <2> QED BY <2>2, <2>3, <2>4 DEF TypeOK
<1>7. Locked' /\ TakesOne'
  BY <1>0, <1>1, QueueAssumption DEF Shape, TypeOK, Locked, TakesOne
<1>8. OnePlace'
  <2>1. \A u \in Threads : held'[u] \subseteq held[u] /\ b \notin held'[u]
    BY <1>0 DEF Shape, TypeOK, OnePlace
  <2>2. \A u, v \in Threads : u # v => held'[u] \cap held'[v] = {}
    BY <2>1 DEF Shape, OnePlace
  <2>3. \A u \in Threads, i \in 1 .. Len(order') : order'[i] \notin held'[u]
    BY <1>0, <1>1, <2>1 DEF Shape, OnePlace
  <2>4. \A i, j \in 1 .. Len(order') : order'[i] = order'[j] => i = j
    BY <1>0, <1>1, <1>4 DEF Shape, OnePlace
  <2> QED BY <2>2, <2>3, <2>4 DEF OnePlace
<1>9. \A i \in 1 .. n + 1 : next'[order'[i]] = IF i = n + 1 THEN Null ELSE order'[i + 1]
  <2> SUFFICES ASSUME NEW i \in 1 .. n + 1
               PROVE  next'[order'[i]] = IF i = n + 1 THEN Null ELSE order'[i + 1]
    OBVIOUS
  <2>1. next \in [Buffers -> Buffers \cup {Null}]
    BY DEF Shape, TypeOK
  <2>2. CASE i = n + 1
    BY <1>0, <1>1, <1>2, <1>5, <2>1, <2>2
  <2>3. CASE i = n
    <3>1. order'[i] = last /\ order'[i + 1] = b /\ last # b /\ last \in Buffers /\ n # 0
      BY <1>0, <1>1, <1>2, <1>4, <2>3
    <3> QED BY <1>0, <1>5, <2>1, <2>3, <3>1
  <2>4. CASE i < n
    <3>1. /\ order'[i] = order[i] /\ order'[i + 1] = order[i + 1] /\ order[i] \in Buffers
          /\ order[i] # b /\ order[i] # last /\ next[order[i]] = order[i + 1]
      BY <1>0, <1>1, <1>2, <1>4, <2>4 DEF Shape, OnePlace
    <3> QED BY <1>0, <1>5, <2>1, <2>4, <3>1
  <2> QED BY <1>0, <2>2, <2>3, <2>4
<1>10. ListIsQueue'
  <2>1. /\ length' = Len(order')
        /\ first' = IF Len(order') = 0 THEN Null ELSE order'[1]
        /\ last'  = IF Len(order') = 0 THEN Null ELSE order'[Len(order')]
    BY <1>0, <1>1, <1>2, <1>5
  <2>2. order' # <<>> => Head(order') = order'[1]
    BY <1>1, HeadTailProperties
  <2> QED BY <1>0, <1>1, <1>9, <2>1, <2>2 DEF ListIsQueue
<1> QED BY <1>6, <1>7, <1>8, <1>10 DEF Shape

(* ... at the front ... *)
LEMMA ShapePutBack ==
    ASSUME Shape, NEW t \in Threads, NEW b \in Buffers, PutBack(t, b)
    PROVE  Shape'
<1> DEFINE n == Len(order)
<1>0. /\ order \in Seq(Buffers) /\ n \in Nat /\ \A i \in 1 .. n : order[i] \in Buffers
      /\ pc[t] = "idle" /\ pc' = [pc EXCEPT ![t] = "posting"]
      /\ b \in held[t] /\ held' = [held EXCEPT ![t] = @ \ {b}]
      /\ lock = Null /\ lock' = t /\ order' = <<b>> \o order /\ sem' = sem
  BY LenProperties, ElementOfSeq DEF Shape, TypeOK, PutBack, Goto
<1>1. /\ order' \in Seq(Buffers) /\ Len(order') = n + 1 /\ order' # <<>>
      /\ \A i \in 1 .. n + 1 : order'[i] = IF i = 1 THEN b ELSE order[i - 1]
  BY <1>0, Prepended
<1>2. /\ length = n
      /\ first = IF n = 0 THEN Null ELSE order[1]
      /\ last  = IF n = 0 THEN Null ELSE order[n]
      /\ \A i \in 1 .. n : next[order[i]] = IF i = n THEN Null ELSE order[i + 1]
  BY Ends DEF Shape
<1>3. last = Null <=> n = 0
  BY <1>0, <1>2, QueueAssumption
<1>4. \A i \in 1 .. n : order[i] # b
  BY <1>0 DEF Shape, OnePlace
<1>5. /\ length' = length + 1 /\ first' = b
      /\ last' = IF n = 0 THEN b ELSE last
      /\ next' = [next EXCEPT ![b] = first]
  BY <1>3 DEF PutBack, LinkFront
<1>6. TypeOK'
  BY <1>0, <1>1, <1>2, <1>5 DEF Shape, TypeOK, States
<1>7. Locked' /\ TakesOne'
  BY <1>0, <1>1, QueueAssumption DEF Shape, TypeOK, Locked, TakesOne
<1>8. OnePlace'
  <2>1. \A u \in Threads : held'[u] \subseteq held[u] /\ b \notin held'[u]
    BY <1>0 DEF Shape, TypeOK, OnePlace
  <2>2. \A u, v \in Threads : u # v => held'[u] \cap held'[v] = {}
    BY <2>1 DEF Shape, OnePlace
  <2>3. \A i \in 2 .. n + 1 : i - 1 \in 1 .. n /\ order'[i] = order[i - 1]
    BY <1>0, <1>1
  <2>4. order'[1] = b
    BY <1>0, <1>1
  <2>5. \A u \in Threads, i \in 1 .. Len(order') : order'[i] \notin held'[u]
    BY <1>0, <1>1, <2>1, <2>3, <2>4 DEF Shape, OnePlace
  <2>6. \A i, j \in 1 .. Len(order') : order'[i] = order'[j] => i = j
    BY <1>0, <1>1, <1>4, <2>3, <2>4 DEF Shape, OnePlace
  <2> QED BY <2>2, <2>5, <2>6 DEF OnePlace
<1>9. \A i \in 1 .. n + 1 : next'[order'[i]] = IF i = n + 1 THEN Null ELSE order'[i + 1]
  <2> SUFFICES ASSUME NEW i \in 1 .. n + 1
               PROVE  next'[order'[i]] = IF i = n + 1 THEN Null ELSE order'[i + 1]
    OBVIOUS
  <2>1. next \in [Buffers -> Buffers \cup {Null}]
    BY DEF Shape, TypeOK
  <2>2. CASE i = 1
    <3>1. order'[1] = b /\ next'[b] = first /\ (n # 0 => order'[2] = order[1])
      BY <1>0, <1>1, <1>5, <2>1
    <3> QED BY <1>0, <1>2, <2>2, <3>1
  <2>3. CASE i > 1
    <3>1. /\ i - 1 \in 1 .. n /\ order'[i] = order[i - 1] /\ order[i - 1] # b
          /\ i # n + 1 => order'[i + 1] = order[i]
      BY <1>0, <1>1, <1>4, <2>3
    <3>2. next'[order[i - 1]] = next[order[i - 1]]
      BY <1>0, <1>5, <2>1, <3>1
    <3>3. i - 1 + 1 = i /\ (i - 1 = n <=> i = n + 1)
      BY <1>0
    <3>4. next[order[i - 1]] = IF i - 1 = n THEN Null ELSE order[i - 1 + 1]
      BY <1>2, <3>1
    <3>5. next[order[i - 1]] = IF i = n + 1 THEN Null ELSE order[i]
      BY <3>3, <3>4
    <3> QED BY <3>1, <3>2, <3>5
  <2>4. i = 1 \/ i > 1
    BY <1>0
  <2> QED BY <2>2, <2>3, <2>4
<1>10. ListIsQueue'
  <2>1. /\ length' = Len(order')
        /\ first' = IF Len(order') = 0 THEN Null ELSE order'[1]
        /\ last'  = IF Len(order') = 0 THEN Null ELSE order'[Len(order')]
    BY <1>0, <1>1, <1>2, <1>5
  <2>2. order' # <<>> => Head(order') = order'[1]
    BY <1>1, HeadTailProperties
  <2> QED BY <1>0, <1>1, <1>9, <2>1, <2>2 DEF ListIsQueue
<1> QED BY <1>6, <1>7, <1>8, <1>10 DEF Shape

(* ... and taking the first one. *)
LEMMA ShapeTake ==
    ASSUME Shape, NEW t \in Threads, Take(t)
    PROVE  Shape' /\ first = Head(order) /\ order # <<>>
<1> DEFINE n == Len(order)
<1>0. /\ order \in Seq(Buffers) /\ n \in Nat \ {0} /\ order # <<>>
      /\ \A i \in 1 .. n : order[i] \in Buffers
      /\ pc[t] = "taking" /\ pc' = [pc EXCEPT ![t] = "idle"]
      /\ held' = [held EXCEPT ![t] = @ \cup {first}]
      /\ lock = t /\ lock' = Null /\ order' = Tail(order) /\ sem > 0 /\ sem' = sem - 1
  BY EmptySeq, LenProperties, ElementOfSeq DEF Shape, TypeOK, Locked, TakesOne, Take, Goto
<1>1. /\ order' \in Seq(Buffers) /\ Len(order') = n - 1 /\ Head(order) = order[1]
      /\ \A i \in 1 .. n - 1 : order'[i] = order[i + 1]
  BY <1>0, HeadTailProperties
<1>2. /\ length = n /\ first = order[1] /\ last = order[n]
      /\ \A i \in 1 .. n : next[order[i]] = IF i = n THEN Null ELSE order[i + 1]
  BY <1>0, Ends DEF Shape
<1>3. next[first] = IF n = 1 THEN Null ELSE order[2]
  BY <1>0, <1>2
<1>4. /\ length' = n - 1 /\ next' = next
      /\ first' = IF n = 1 THEN Null ELSE order[2]
      /\ last' = IF n = 1 THEN Null ELSE last
  <2>1. next[first] = Null <=> n = 1
    <3>0. \A m \in Nat \ {0} : m # 1 => 2 \in 1 .. m
      OBVIOUS
    <3>1. n # 1 => 2 \in 1 .. n
      BY <1>0, <3>0
    <3>2. n # 1 => order[2] \in Buffers
      BY <1>0, <3>1
    <3> QED BY <1>3, <3>2, QueueAssumption
  <2> QED BY <1>2, <1>3, <2>1 DEF Take, Unlink
<1>5. first \in Buffers /\ \A u \in Threads : first \notin held[u]
  BY <1>0, <1>2 DEF Shape, OnePlace
<1>6. TypeOK'
  <2>0. next[first] \in Buffers \cup {Null} /\ first' = next[first]
    BY <1>5 DEF Shape, TypeOK, Take, Unlink
  <2>1. /\ length' \in Nat /\ first' \in Buffers \cup {Null} /\ last' \in Buffers \cup {Null}
        /\ lock' \in Threads \cup {Null} /\ next' \in [Buffers -> Buffers \cup {Null}]
    BY <1>0, <1>4, <2>0 DEF Shape, TypeOK
  <2>3. sem' \in Nat
    BY <1>0 DEF Shape, TypeOK
  <2>2. pc' \in [Threads -> States] /\ held' \in [Threads -> SUBSET Buffers]
    BY <1>0, <1>5 DEF Shape, TypeOK, States
  <2> QED BY <1>1, <2>1, <2>2, <2>3 DEF TypeOK
<1>7. Locked' /\ TakesOne'
  <2>1. \A u \in Threads : u # t => pc'[u] = pc[u] /\ pc[u] \notin {"posting", "taking"}
    BY <1>0 DEF Shape, TypeOK, Locked
  <2>2. pc'[t] = "idle"
    BY <1>0 DEF Shape, TypeOK
  <2> QED BY <1>0, <2>1, <2>2, QueueAssumption DEF Locked, TakesOne
<1>8. OnePlace'
  <2>1. \A u \in Threads : held'[u] = IF u = t THEN held[u] \cup {first} ELSE held[u]
    BY <1>0 DEF Shape, TypeOK
  <2>2. \A u, v \in Threads : u # v => held'[u] \cap held'[v] = {}
    <3> TAKE u, v \in Threads
    <3>1. u # v => held[u] \cap held[v] = {}
      BY DEF Shape, OnePlace
    <3>2. first \notin held[u] /\ first \notin held[v]
      BY <1>5
    <3> QED BY <2>1, <3>1, <3>2
  <2>3. \A i \in 1 .. n - 1 : i + 1 \in 1 .. n /\ i + 1 # 1 /\ order'[i] = order[i + 1]
    BY <1>0, <1>1
  <2>4. \A i \in 1 .. n - 1 : order'[i] # first
    BY <1>0, <1>2, <2>3 DEF Shape, OnePlace
  <2>5. \A u \in Threads, i \in 1 .. Len(order') : order'[i] \notin held'[u]
    <3> SUFFICES ASSUME NEW u \in Threads, NEW i \in 1 .. n - 1 PROVE order'[i] \notin held'[u]
      BY <1>1
    <3>1. order'[i] \notin held[u]
      BY <2>3 DEF Shape, OnePlace
    <3> QED BY <2>1, <2>4, <3>1
  <2>6. \A i, j \in 1 .. Len(order') : order'[i] = order'[j] => i = j
    <3> SUFFICES ASSUME NEW i \in 1 .. n - 1, NEW j \in 1 .. n - 1, order'[i] = order'[j]
                 PROVE  i = j
      BY <1>1
    <3>1. i + 1 = j + 1
      BY <2>3 DEF Shape, OnePlace
    <3> QED BY <3>1
  <2> QED BY <2>2, <2>5, <2>6 DEF OnePlace
<1>9. \A i \in 1 .. n - 1 : next'[order'[i]] = IF i = n - 1 THEN Null ELSE order'[i + 1]
  <2> TAKE i \in 1 .. n - 1
  <2>1. /\ i + 1 \in 1 .. n /\ order'[i] = order[i + 1] /\ (i + 1 = n <=> i = n - 1)
        /\ i # n - 1 => order'[i + 1] = order[i + 1 + 1]
    <3>1. i + 1 \in 1 .. n /\ (i + 1 = n <=> i = n - 1) /\ (i # n - 1 => i + 1 \in 1 .. n - 1)
      BY <1>0
    <3> QED BY <1>1, <3>1
  <2>2. next[order[i + 1]] = IF i + 1 = n THEN Null ELSE order[i + 1 + 1]
    BY <1>2, <2>1
  <2> QED BY <1>4, <2>1, <2>2
<1>10. ListIsQueue'
  <2>0. order' = <<>> <=> Len(order') = 0
    BY <1>1, EmptySeq
  <2>1. order' = <<>> <=> n = 1
    BY <1>0, <1>1, <2>0
  <2>2. order' # <<>> => Head(order') = order'[1] /\ order'[1] = order[2] /\ order'[n - 1] = order[n]
    BY <1>0, <1>1, <2>1, HeadTailProperties
  <2> QED BY <1>0, <1>1, <1>2, <1>4, <1>9, <2>1, <2>2 DEF ListIsQueue
<1> QED BY <1>0, <1>1, <1>2, <1>6, <1>7, <1>8, <1>10 DEF Shape

(* The other steps leave list and buffers alone. *)
LEMMA ShapeOther ==
    ASSUME Shape, NEW t \in Threads,
           \/ Post(t) \/ Call(t) \/ GetNull(t) \/ GetLock(t)
           \/ TakeToken(t) \/ Timeout(t) \/ ReturnToken(t)
    PROVE  Shape'
<1>1. UNCHANGED list /\ held' = held
  BY DEF Post, Call, GetNull, GetLock, TakeToken, Timeout, ReturnToken
<1>2. PICK s \in States : pc' = [pc EXCEPT ![t] = s]
  BY Zenon DEF Post, Call, GetNull, GetLock, TakeToken, Timeout, ReturnToken, Goto, States
<1>3. sem' \in Nat
  BY DEF Shape, TypeOK, Post, Call, GetNull, GetLock, TakeToken, Timeout, ReturnToken
<1>4. \/ pc[t] \in {"posting", "taking"} /\ s = "idle" /\ lock' = Null
      \/ lock = Null /\ lock' = t /\ s = "taking" /\ order # <<>>
      \/ pc[t] \notin {"posting", "taking"} /\ s \notin {"posting", "taking"} /\ lock' = lock
  <2>1. pc'[t] = s
    BY <1>2 DEF Shape, TypeOK
  <2>2. first # Null => order # <<>>
    BY DEF Shape, ListIsQueue
  <2> QED BY <2>1, <2>2
          DEF Shape, TypeOK, Post, Call, GetNull, GetLock, TakeToken, Timeout, ReturnToken, Goto
<1>5. TypeOK'
  BY <1>1, <1>2, <1>3, <1>4 DEF Shape, TypeOK, list
<1>6. Locked' /\ TakesOne'
  BY <1>1, <1>2, <1>4, QueueAssumption DEF Shape, TypeOK, Locked, TakesOne, list
<1> QED BY <1>1, <1>5, <1>6 DEF Shape, OnePlace, ListIsQueue, list

LEMMA ShapeStep == Shape /\ [Next]_vars => Shape'
<1>1. Shape /\ UNCHANGED vars => Shape'
  BY DEF vars, list, threads, Shape, TypeOK, Locked, OnePlace, TakesOne, ListIsQueue
<1>2. ASSUME Shape, NEW t \in Threads, Enter(t) \/ Step(t) PROVE Shape'
  BY <1>2, ShapePut, ShapePutBack, ShapeTake, ShapeOther DEF Enter, Step
<1> QED BY <1>1, <1>2 DEF Next

LEMMA ShapeCorrect == Spec => []Shape
<1> QED BY ShapeInit, ShapeStep, PTL DEF Spec

-----------------------------------------------------------------------------
(* How the sets of threads that have or owe a token change with a step. *)
LEMMA Moves ==
    ASSUME TypeOK, NEW t \in Threads, NEW s \in States, pc' = [pc EXCEPT ![t] = s], NEW state
    PROVE  /\ IsFiniteSet(At(state)) /\ Cardinality(At(state)) \in Nat
           /\ Cardinality(At(state)') = Cardinality(At(state))
                  + (IF s = state THEN 1 ELSE 0) - (IF pc[t] = state THEN 1 ELSE 0)
<1>1. IsFiniteSet(At(state)) /\ Cardinality(At(state)) \in Nat
  BY QueueAssumption, FS_Subset, FS_CardinalityType DEF At
<1>2. At(state)' = IF s = state THEN At(state) \cup {t} ELSE At(state) \ {t}
  BY DEF At, TypeOK
<1>3. t \in At(state) <=> pc[t] = state
  BY DEF At
<1> DEFINE A == At(state)
           n == Cardinality(A)
<1>4. CASE s = state
  <2>1. At(state)' = A \cup {t}
    BY <1>2, <1>4
  <2>2. Cardinality(A \cup {t}) = IF t \in A THEN n ELSE n + 1
    BY <1>1, FS_AddElement
  <2>3. Cardinality(At(state)') = IF pc[t] = state THEN n ELSE n + 1
    BY <2>1, <2>2, <1>3
  <2> HIDE DEF n
  <2>4. n \in Nat
    BY <1>1 DEF n
  <2>5. Cardinality(At(state)') = n + (IF s = state THEN 1 ELSE 0) - (IF pc[t] = state THEN 1 ELSE 0)
    BY <2>3, <2>4, <1>4
  <2> QED BY <2>5, <1>1 DEF n
<1>5. CASE s # state
  <2>1. At(state)' = A \ {t}
    BY <1>2, <1>5
  <2>2. Cardinality(A \ {t}) = IF t \in A THEN n - 1 ELSE n
    BY <1>1, FS_RemoveElement
  <2>3. Cardinality(At(state)') = IF pc[t] = state THEN n - 1 ELSE n
    BY <2>1, <2>2, <1>3
  <2> HIDE DEF n
  <2>4. n \in Nat
    BY <1>1 DEF n
  <2>5. Cardinality(At(state)') = n + (IF s = state THEN 1 ELSE 0) - (IF pc[t] = state THEN 1 ELSE 0)
    BY <2>3, <2>4, <1>5
  <2> QED BY <2>5, <1>1 DEF n
<1> QED BY <1>1, <1>4, <1>5

LEMMA CountStep ==
    ASSUME Shape, SemaphoreCounts, [Next]_vars
    PROVE  SemaphoreCounts'
<1> DEFINE a == Cardinality(At("token"))
           p == Cardinality(At("posting"))
<1>1. CASE UNCHANGED vars
  BY <1>1 DEF vars, threads, list, SemaphoreCounts, At
<1>2. ASSUME NEW t \in Threads, Enter(t) \/ Step(t) PROVE SemaphoreCounts'
  <2>1. PICK s \in States : pc' = [pc EXCEPT ![t] = s]
    BY <1>2, Zenon DEF Enter, Step, Put, PutBack, Post, Call, GetNull, GetLock, Take, TakeToken, Timeout,
       ReturnToken, Goto, States
  <2>2. /\ a \in Nat /\ p \in Nat /\ sem \in Nat /\ Len(order) \in Nat /\ pc'[t] = s
        /\ a' = a + (IF s = "token" THEN 1 ELSE 0) - (IF pc[t] = "token" THEN 1 ELSE 0)
        /\ p' = p + (IF s = "posting" THEN 1 ELSE 0) - (IF pc[t] = "posting" THEN 1 ELSE 0)
    BY <2>1, Moves, LenProperties DEF Shape, TypeOK
  <2>3. sem + a + p = Len(order)
    BY DEF SemaphoreCounts
  <2> HIDE DEF a, p
  <2>4. sem' + a' + p' = Len(order')
    <3>1. CASE \E b \in Buffers : Put(t, b) \/ PutBack(t, b)
      <4>1. PICK b \in Buffers : Put(t, b) \/ PutBack(t, b)
        BY <3>1
      <4>2. Len(order') = Len(order) + 1
        BY <4>1, Appended, Prepended DEF Put, PutBack, Shape, TypeOK
      <4>3. pc[t] = "idle" /\ s = "posting" /\ sem' = sem
        BY <4>1, <2>2 DEF Put, PutBack, Goto, Shape, TypeOK
      <4> QED BY <2>2, <2>3, <4>2, <4>3
    <3>2. CASE Post(t)
      BY <2>2, <2>3, <3>2 DEF Post, Goto, list, Shape, TypeOK
    <3>3. CASE Call(t) \/ GetNull(t) \/ GetLock(t) \/ Timeout(t)
      BY <2>2, <2>3, <3>3 DEF Call, GetNull, GetLock, Timeout, Goto, list, Shape, TypeOK
    <3>4. CASE Take(t)
      <4>1. Len(order') = Len(order) - 1
        BY <3>4, ShapeTake, HeadTailProperties DEF Take, Shape, TypeOK
      <4>2. pc[t] = "taking" /\ s = "idle" /\ sem' = sem - 1
        BY <3>4, <2>2 DEF Take, Goto, Shape, TypeOK
      <4> QED BY <2>2, <2>3, <4>1, <4>2
    <3>5. CASE TakeToken(t)
      <4>1. sem' = sem - 1 /\ order' = order
        BY <3>5 DEF TakeToken, list
      <4>2. pc[t] \in {"wait", "timedwait"} /\ s = "token"
        BY <3>5, <2>2 DEF TakeToken, Goto, Shape, TypeOK
      <4>3. a' = a + 1 /\ p' = p
        BY <2>2, <4>2
      <4>4. Len(order') = Len(order)
        BY <4>1
      <4>5. a \in Nat /\ p \in Nat /\ sem \in Nat
        BY <2>2
      <4>6. sem' + a' + p' = sem + a + p
        BY <4>1, <4>3, <4>5
      <4> QED BY <2>3, <4>4, <4>6
    <3>6. CASE ReturnToken(t)
      BY <2>2, <2>3, <3>6 DEF ReturnToken, Goto, list, Shape, TypeOK
    <3> QED BY <1>2, <3>1, <3>2, <3>3, <3>4, <3>5, <3>6 DEF Enter, Step
  <2> QED BY <2>4 DEF SemaphoreCounts, a, p
<1> QED BY <1>1, <1>2 DEF Next

-----------------------------------------------------------------------------
(* Type correctness of the queue. *)
THEOREM QueueTypes == Spec => []TypeOK
<1> QED BY ShapeCorrect, PTL DEF Shape

(* The pointers form the list of the queue's content, whoever puts, puts    *)
(* back and takes: no buffer is lost, linked twice or left in the list when *)
(* somebody has it (mmal_queue.c:77-80, 91-94, 117-120).                    *)
THEOREM ListCorrect == Spec => []ListIsQueue
<1> QED BY ShapeCorrect, PTL DEF Shape

(* The semaphore never runs ahead of the list, so a thread that waits for   *)
(* its token inside the mutex waits only for threads that give theirs back  *)
(* without the mutex (mmal_queue.c:115, 131-132).                           *)
THEOREM SemaphoreCorrect == Spec => []SemaphoreCounts
<1>1. Init => SemaphoreCounts
  <2> SUFFICES ASSUME Init PROVE SemaphoreCounts
    OBVIOUS
  <2>1. At("token") = {} /\ At("posting") = {}
    BY DEF Init, At
  <2>2. Cardinality(At("token")) = 0 /\ Cardinality(At("posting")) = 0
    BY <2>1, FS_EmptySet
  <2>3. sem = 0 /\ Len(order) = 0
    BY DEF Init
  <2> QED BY <2>2, <2>3 DEF SemaphoreCounts
<1> QED BY <1>1, CountStep, ShapeCorrect, PTL DEF Spec

(* The list with its mutex and semaphore is the FIFO queue of BufferQueue.  *)
THEOREM QueueImplements == Spec => ImplementsQueue
<1>1. Init => Queue!Init
  <2> SUFFICES ASSUME Init PROVE Queue!Init
    OBVIOUS
  <2>1. Shape
    BY ShapeInit
  <2> QED BY <2>1 DEF Init, Queue!Init, Shape, TypeOK
<1>2. ASSUME Shape, [Next]_vars PROVE [Queue!Next]_<<order, held>>
  <2>1. CASE UNCHANGED vars
    BY <2>1 DEF vars, list, threads
  <2>2. ASSUME NEW t \in Threads, Enter(t) \/ Step(t) PROVE [Queue!Next]_<<order, held>>
    <3>1. CASE Take(t)
      <4>1. first = Head(order) /\ order # <<>>
        BY <1>2, <3>1, ShapeTake
      <4>2. Queue!Get(t)
        BY <3>1, <4>1 DEF Take, Queue!Get
      <4> QED BY <4>2 DEF Queue!Next
    <3>2. CASE \E b \in Buffers : Put(t, b) \/ PutBack(t, b)
      BY <3>2 DEF Put, PutBack, Queue!Put, Queue!PutBack, Queue!Next
    <3>3. CASE \/ Post(t) \/ Call(t) \/ GetNull(t) \/ GetLock(t)
               \/ TakeToken(t) \/ Timeout(t) \/ ReturnToken(t)
      BY <3>3 DEF Post, Call, GetNull, GetLock, TakeToken, Timeout, ReturnToken, list
    <3> QED BY <2>2, <3>1, <3>2, <3>3 DEF Enter, Step
  <2> QED BY <1>2, <2>1, <2>2 DEF Next
<1> QED BY <1>1, <1>2, ShapeCorrect, PTL DEF Spec, ImplementsQueue, Queue!Spec

(* mmal_queue_get, once it has the mutex and has seen a buffer, gets a      *)
(* token without anybody else needing the mutex (mmal_queue.c:115).         *)
THEOREM TokenComes == Spec => []WillAlwaysSucceed
<1>1. Shape /\ SemaphoreCounts => WillAlwaysSucceed
  <2>. SUFFICES ASSUME Shape, SemaphoreCounts, NEW t \in Threads, pc[t] = "taking",
                       At("token") = {}
                PROVE  sem > 0
    BY DEF WillAlwaysSucceed
  <2>1. At("posting") = {}
    BY QueueAssumption DEF At, Shape, Locked
  <2>2. Cardinality(At("token")) = 0 /\ Cardinality(At("posting")) = 0
    BY <2>1, FS_EmptySet
  <2>3. Len(order) \in Nat /\ Len(order) # 0 /\ sem \in Nat
    BY LenProperties, EmptySeq DEF Shape, TypeOK, TakesOne
  <2>. QED
    BY <2>2, <2>3 DEF SemaphoreCounts
<1>. QED
  BY <1>1, ShapeCorrect, SemaphoreCorrect, PTL

-----------------------------------------------------------------------------
(* Nothing is lost: with OnePlace, each buffer is in exactly one place.     *)
Queued(b) == \E i \in 1 .. Len(order) : order[i] = b

Somewhere == \A b \in Buffers : Queued(b) \/ \E t \in Threads : b \in held[t]

LEMMA SomewhereInit == Init => Somewhere
  BY DEF Init, Somewhere

LEMMA SomewhereStep == Shape /\ Somewhere /\ [Next]_vars => Somewhere'
<1>. SUFFICES ASSUME Shape, Somewhere, [Next]_vars PROVE Somewhere'
  OBVIOUS
<1>0. order \in Seq(Buffers) /\ Len(order) \in Nat /\ held \in [Threads -> SUBSET Buffers]
  BY LenProperties DEF Shape, TypeOK
<1>1. ASSUME NEW t \in Threads, NEW b \in Buffers, Put(t, b) \/ PutBack(t, b) PROVE Somewhere'
  <2>1. /\ Len(order') = Len(order) + 1
        /\ \/ \A i \in 1 .. Len(order) + 1 :
                 order'[i] = IF i <= Len(order) THEN order[i] ELSE b
           \/ \A i \in 1 .. Len(order) + 1 : order'[i] = IF i = 1 THEN b ELSE order[i - 1]
    BY <1>0, <1>1, Appended, Prepended DEF Put, PutBack
  <2>2. held' = [held EXCEPT ![t] = @ \ {b}]
    BY <1>1 DEF Put, PutBack
  <2>3. Queued(b)'
    <3>1. 1 \in 1 .. Len(order') /\ Len(order) + 1 \in 1 .. Len(order')
      BY <1>0, <2>1
    <3>2. order'[1] = b \/ order'[Len(order) + 1] = b
      BY <1>0, <2>1, <3>1
    <3>. QED
      BY <3>1, <3>2 DEF Queued
  <2>4. ASSUME NEW c \in Buffers, Queued(c) PROVE Queued(c)'
    <3>1. PICK i \in 1 .. Len(order) : order[i] = c
      BY <2>4 DEF Queued
    <3>2. i \in 1 .. Len(order) + 1 /\ i + 1 \in 1 .. Len(order) + 1
      BY <1>0
    <3>3. order'[i] = c \/ order'[i + 1] = c
      BY <1>0, <2>1, <3>1, <3>2
    <3>. QED
      BY <2>1, <3>2, <3>3 DEF Queued
  <2>5. ASSUME NEW c \in Buffers \ {b}, NEW u \in Threads, c \in held[u] PROVE c \in held'[u]
    BY <1>0, <2>2, <2>5
  <2>. QED
    BY <2>3, <2>4, <2>5 DEF Somewhere
<1>2. ASSUME NEW t \in Threads, Take(t) PROVE Somewhere'
  <2>1. order # <<>> /\ first = Head(order)
    BY <1>2, ShapeTake
  <2>2. /\ Len(order') = Len(order) - 1
        /\ \A i \in 1 .. Len(order') : order'[i] = order[i + 1]
        /\ first = order[1]
    BY <1>0, <1>2, <2>1, HeadTailProperties DEF Take
  <2>3. held' = [held EXCEPT ![t] = @ \cup {first}]
    BY <1>2 DEF Take
  <2>4. ASSUME NEW c \in Buffers, Queued(c) PROVE Queued(c)' \/ c \in held'[t]
    <3>1. PICK i \in 1 .. Len(order) : order[i] = c
      BY <2>4 DEF Queued
    <3>2. CASE i = 1
      BY <1>0, <2>2, <2>3, <3>1, <3>2
    <3>3. CASE i # 1
      <4>1. i - 1 \in 1 .. Len(order') /\ order'[i - 1] = order[i - 1 + 1] /\ i - 1 + 1 = i
        BY <1>0, <2>2, <3>3
      <4>. QED
        BY <3>1, <4>1 DEF Queued
    <3>. QED
      BY <3>2, <3>3
  <2>5. ASSUME NEW c \in Buffers, NEW u \in Threads, c \in held[u] PROVE c \in held'[u]
    BY <1>0, <2>3, <2>5
  <2>. QED
    BY <2>4, <2>5 DEF Somewhere
<1>3. ASSUME order' = order, held' = held PROVE Somewhere'
  BY <1>3 DEF Somewhere, Queued
<1>4. CASE UNCHANGED vars
  BY <1>3, <1>4 DEF vars, list, threads
<1>. QED
  BY <1>1, <1>2, <1>3, <1>4 DEF Next, Enter, Step, Post, Call, GetNull, GetLock, TakeToken, Timeout,
     ReturnToken, list

(* Every buffer header is with one user or once in the queue, whoever puts, *)
(* puts back, waits or times out: none is lost or handed out twice.         *)
THEOREM NoneLost == Spec => []BufferKept
<1>1. Shape /\ Somewhere => BufferKept
  <2>. SUFFICES ASSUME Shape, Somewhere, NEW b \in Buffers
                PROVE  Cardinality({t \in Threads : b \in held[t]})
                          + Cardinality({i \in 1 .. Len(order) : order[i] = b}) = 1
    BY DEF BufferKept
  <2>. DEFINE U == {t \in Threads : b \in held[t]}
              Q == {i \in 1 .. Len(order) : order[i] = b}
  <2>1. CASE Queued(b)
    <3>1. PICK i \in 1 .. Len(order) : order[i] = b
      BY <2>1 DEF Queued
    <3>2. Q = {i}
      BY <3>1 DEF Shape, OnePlace
    <3>3. U = {}
      BY <3>1 DEF Shape, OnePlace
    <3>4. Cardinality(Q) = 1 /\ Cardinality(U) = 0
      BY <3>2, <3>3, FS_Singleton, FS_EmptySet
    <3>. QED
      BY <3>4
  <2>2. CASE ~Queued(b)
    <3>1. PICK t \in Threads : b \in held[t]
      BY <2>2 DEF Somewhere
    <3>2. U = {t}
      BY <3>1 DEF Shape, OnePlace
    <3>3. Q = {}
      BY <2>2 DEF Queued
    <3>4. Cardinality(U) = 1 /\ Cardinality(Q) = 0
      BY <3>2, <3>3, FS_Singleton, FS_EmptySet
    <3>. QED
      BY <3>4
  <2>. QED
    BY <2>1, <2>2
<1>. QED
  BY <1>1, SomewhereInit, SomewhereStep, ShapeCorrect, PTL DEF Spec
=============================================================================
