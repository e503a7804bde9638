--------------------------- MODULE WebServer_proofs -------------------------
(***************************************************************************)
(* Proofs about WebServer, for any number of detector threads, pictures,   *)
(* frames and pixel buffers: the array imagesOut is used only while it     *)
(* lives, a picture is served whole, and a page is consistent.             *)
(***************************************************************************)
EXTENDS WebServer, FiniteSetTheorems, TLAPS

(* The array lives while the server may be used, and the detector threads   *)
(* are joined before the server is stopped.                                 *)
Phases ==
    /\ main = "begin" <=> array = "none"
    /\ main = "stopped" <=> array = "deleted"
    /\ main \in {"begin", "stopped"} => handler = "off"
    /\ main = "begin" => \A w \in Workers : worker[w] = "loop"
    /\ main \in {"joined", "closing", "stopped"} => \A w \in Workers : worker[w] = "ended"

(* What getImage has returned keeps its pixels: a half that is copied is    *)
(* what the buffer still shows.                                             *)
Copying ==
    /\ handler = "get" => index \in Kinds
    /\ handler = "copied" => header \in Buffers /\ copy[1] = pixels[header]
    /\ handler \in {"script", "number", "tags", "sent"} => copy[1] = copy[2]

(* There are no more pictures than were stored, a page's script has only    *)
(* pictures that are there, and stay there while the page is made.          *)
Stored == {k \in Kinds : imagesOut[k] # None}

Paging ==
    /\ Cardinality(Stored) <= frames
    /\ handler \in {"script", "number", "tags"} => script \subseteq Stored
    /\ handler \in {"get", "clone", "copied"} => script = {}
    /\ handler = "number" => index = 0
    /\ handler \in {"tags", "sent"} => Cardinality(script) <= number
    /\ handler = "tags" => \A k \in script : k < index => k \in tags
    /\ handler = "sent" => script \subseteq tags

WebInv == TypeOK /\ Phases /\ Copying /\ Paging

-----------------------------------------------------------------------------
LEMMA KindsFinite ==
    /\ IsFiniteSet(Kinds)
    /\ \A S \in SUBSET Kinds : IsFiniteSet(S) /\ Cardinality(S) \in Nat
    /\ \A S, T \in SUBSET Kinds : S \subseteq T => Cardinality(S) <= Cardinality(T)
<1>1. 0 \in Int /\ ImageCount - 1 \in Int
  BY WebAssumption
<1>2. IsFiniteSet(Kinds)
  BY <1>1, FS_Interval DEF Kinds
<1> QED BY <1>2, FS_Subset, FS_CardinalityType

LEMMA TypeInit == Init => WebInv
<1> SUFFICES ASSUME Init PROVE WebInv
  OBVIOUS
<1>1. TypeOK
  BY WebAssumption DEF Init, TypeOK, Kinds, Frames, NoFrame
<1>2. Phases /\ Copying
  BY DEF Init, Phases, Copying
<1>3. Stored = {}
  BY DEF Init, Stored
<1>4. Cardinality(Stored) = 0 /\ frames = 0
  BY <1>3, FS_EmptySet DEF Init
<1>5. Paging
  BY <1>4 DEF Init, Paging
<1> QED BY <1>1, <1>2, <1>5 DEF WebInv

(* main's steps *)
LEMMA MainInv == ASSUME WebInv, MainStep PROVE WebInv'
<1>1. CASE Start
  <2>1. TypeOK'
    BY <1>1 DEF Start, WebInv, TypeOK, working, page
  <2>2. Phases' /\ Copying'
    BY <1>1 DEF Start, WebInv, Phases, Copying, working, page
  <2>3. Stored' = Stored
    BY <1>1 DEF Start, Stored
  <2>4. Paging'
    BY <1>1, <2>3 DEF Start, WebInv, Paging, working, page
  <2> QED BY <2>1, <2>2, <2>4 DEF WebInv
<1>2. CASE StopThreads \/ Join \/ Stop
  <2>1. UNCHANGED <<store, working, serving>>
    BY <1>2 DEF StopThreads, Join, Stop
  <2>2. TypeOK' /\ Copying'
    BY <1>2, <2>1 DEF StopThreads, Join, Stop, WebInv, TypeOK, Copying, store, working, serving, page
  <2>3. Phases'
    BY <1>2, <2>1 DEF StopThreads, Join, Stop, WebInv, Phases, store, working, serving, page
  <2>4. Stored' = Stored
    BY <2>1 DEF store, Stored
  <2>5. Paging'
    BY <2>1, <2>4 DEF WebInv, Paging, store, serving, page
  <2> QED BY <2>2, <2>3, <2>5 DEF WebInv
<1>3. CASE Delete
  <2>1. TypeOK'
    BY <1>3 DEF Delete, WebInv, TypeOK, working, page
  <2>2. Phases' /\ Copying'
    BY <1>3 DEF Delete, WebInv, Phases, Copying, working, page
  <2>3. Stored' = {} /\ frames' = frames /\ frames \in Nat
    BY <1>3 DEF Delete, Stored, WebInv, TypeOK
  <2>4. Cardinality(Stored') = 0
    BY <2>3, FS_EmptySet
  <2>5. Cardinality(Stored') <= frames'
    BY <2>3, <2>4
  <2>6. Cardinality(Stored)' <= frames'
    BY <2>5
  <2>7. Paging'
    BY <1>3, <2>6 DEF Delete, Paging
  <2> QED BY <2>1, <2>2, <2>7 DEF WebInv
<1> QED BY <1>1, <1>2, <1>3 DEF MainStep

(* The detector threads' steps: a picture is stored in a buffer that is not *)
(* the one being copied.                                                    *)
LEMMA WorkerInv == ASSUME WebInv, NEW w \in Workers, WorkerStep(w) PROVE WebInv'
<1>1. CASE Analyse(w) \/ LeaveLoop(w)
  <2>1. main' = main /\ UNCHANGED <<store, serving>> /\ UNCHANGED kind
    BY <1>1 DEF Analyse, LeaveLoop
  <2>2. TypeOK'
    <3>1. analysed' \in 0 .. MaxFrames /\ image' \in [Workers -> Frames \cup {NoFrame}]
      BY <1>1, WebAssumption DEF Analyse, LeaveLoop, WebInv, TypeOK, Frames
    <3>2. worker' \in [Workers -> {"loop", "storing", "ended"}]
      BY <1>1 DEF Analyse, LeaveLoop, WebInv, TypeOK
    <3> QED BY <2>1, <3>1, <3>2 DEF WebInv, TypeOK, store, serving, page
  <2>3. Phases'
    BY <1>1, <2>1 DEF Analyse, LeaveLoop, WebInv, TypeOK, Phases, store, serving
  <2>4. Copying'
    BY <2>1 DEF WebInv, Copying, store, serving, page
  <2>5. Stored' = Stored
    BY <2>1 DEF store, Stored
  <2>6. Paging'
    BY <2>1, <2>5 DEF WebInv, Paging, store, serving, page
  <2> QED BY <2>2, <2>3, <2>4, <2>6 DEF WebInv
<1>2. CASE SetImage(w)
  <2> DEFINE k == kind[w]
  <2>1. PICK b \in Buffers : /\ Unused(b)
                             /\ pixels' = [pixels EXCEPT ![b] = image[w]]
                             /\ imagesOut' = [imagesOut EXCEPT ![k] = b]
    BY <1>2 DEF SetImage, StoreClone
  <2>2. k \in Kinds /\ b # None /\ frames \in Nat /\ frames' = frames + 1
    BY <1>2, WebAssumption DEF SetImage, WebInv, TypeOK
  <2>3. main' = main /\ array' = array /\ UNCHANGED serving
    BY <1>2 DEF SetImage
  <2>4. worker' \in [Workers -> {"loop", "storing", "ended"}] /\ kind' \in [Workers -> Kinds]
    <3>1. k < Last => k + 1 \in Kinds
      BY <2>2, WebAssumption DEF Last, Kinds
    <3>2. 0 \in Kinds
      BY WebAssumption DEF Kinds
    <3> QED BY <1>2, <3>1, <3>2 DEF SetImage, Advance, WebInv, TypeOK
  <2>5. TypeOK'
    BY <1>2, <2>1, <2>2, <2>3, <2>4 DEF SetImage, WebInv, TypeOK, serving, page
  <2>6. Phases'
    BY <1>2, <2>3, <2>4 DEF SetImage, Advance, WebInv, TypeOK, Phases, serving
  <2>7. Copying'
    BY <2>1, <2>3 DEF Unused, WebInv, TypeOK, Copying, serving
  <2>8. Stored' = Stored \cup {k}
    BY <2>1, <2>2 DEF Stored, WebInv, TypeOK
  <2>9. Cardinality(Stored)' <= frames'
    <3> DEFINE n == Cardinality(Stored)
    <3>1. IsFiniteSet(Stored) /\ n \in Nat
      BY KindsFinite DEF Stored
    <3>2. Cardinality(Stored \cup {k}) = IF k \in Stored THEN n ELSE n + 1
      BY <3>1, FS_AddElement
    <3>3. n <= frames
      BY DEF WebInv, Paging
    <3>4. Cardinality(Stored)' = IF k \in Stored THEN n ELSE n + 1
      BY <2>8, <3>2
    <3> HIDE DEF n
    <3>5. (IF k \in Stored THEN n ELSE n + 1) <= frames + 1
      BY <2>2, <3>1, <3>3
    <3> QED BY <2>2, <3>4, <3>5
  <2>10. Paging'
    BY <2>3, <2>8, <2>9 DEF WebInv, Paging, serving, page
  <2> QED BY <2>5, <2>6, <2>7, <2>10 DEF WebInv
<1> QED BY <1>1, <1>2 DEF WorkerStep

(* The steps of microhttpd's thread leave the pictures alone. *)
LEMMA HandlerInv == ASSUME WebInv, HandlerStep PROVE WebInv'
<1>1. main' = main /\ UNCHANGED <<store, working>>
  BY DEF HandlerStep, Request, GetImage, Clone, NoImage, CloneRest, PageScript, PageNumber, PageTags, Sent
<1>2. Stored' = Stored
  BY <1>1 DEF Stored, store
<1>3. handler # "off" /\ handler' # "off" /\ (main = "stopped" => FALSE)
  BY DEF HandlerStep, Request, GetImage, Clone, NoImage, CloneRest, PageScript, PageNumber,
         PageTags, Sent, WebInv, Phases
<1>4. Phases'
  BY <1>1, <1>3 DEF WebInv, Phases, store, working
<1>5. CASE Request
  <2>1. 0 \in 0 .. ImageCount /\ Kinds \subseteq 0 .. ImageCount
    BY WebAssumption DEF Kinds
  <2>2. TypeOK'
    BY <1>1, <1>5, <2>1, WebAssumption DEF Request, WebInv, TypeOK, store, working
  <2>3. Copying'
    BY <1>5 DEF Request, Copying
  <2>4. Paging'
    BY <1>1, <1>2, <1>5 DEF Request, WebInv, Paging, store
  <2> QED BY <1>4, <2>2, <2>3, <2>4 DEF WebInv
<1>6. CASE GetImage \/ Clone \/ NoImage \/ CloneRest \/ Sent
  <2>1. 0 \in 0 .. ImageCount /\ NoFrame \in Frames \cup {NoFrame}
    BY WebAssumption
  <2>2. header' \in Buffers \cup {None}
    BY <1>6 DEF GetImage, Clone, NoImage, CloneRest, Sent, WebInv, TypeOK, Copying
  <2>3. copy' \in [{1, 2} -> Frames \cup {NoFrame}]
    <3>1. header \in Buffers => pixels[header] \in Frames \cup {NoFrame}
      BY DEF WebInv, TypeOK
    <3>2. Clone \/ CloneRest => header \in Buffers
      BY DEF Clone, CloneRest, WebInv, TypeOK, Copying
    <3> QED BY <1>6, <3>1, <3>2 DEF GetImage, Clone, NoImage, CloneRest, Sent, Half, WebInv, TypeOK, page
  <2>4. UNCHANGED page /\ index' \in {index, 0}
    BY <1>6 DEF GetImage, Clone, NoImage, CloneRest, Sent
  <2>5. handler' \in {"idle", "clone", "copied", "sent"}
    BY <1>6 DEF GetImage, Clone, NoImage, CloneRest, Sent
  <2>6. TypeOK'
    BY <1>1, <2>1, <2>2, <2>3, <2>4, <2>5 DEF WebInv, TypeOK, store, working, page
  <2>7. Copying'
    <3>1. CASE Clone
      BY <1>1, <3>1 DEF Clone, Half, WebInv, TypeOK, Copying, store
    <3>2. CASE CloneRest
      BY <1>1, <3>2 DEF CloneRest, Half, WebInv, TypeOK, Copying, store
    <3>3. CASE GetImage \/ NoImage \/ Sent
      BY <1>1, <3>3 DEF GetImage, NoImage, Sent, WebInv, Copying, store
    <3> QED BY <1>6, <3>1, <3>2, <3>3
  <2>8. Paging'
    <3>1. CASE CloneRest
      <4>1. script = {} /\ number \in Nat /\ Cardinality(script) = 0
        BY <3>1, FS_EmptySet DEF CloneRest, WebInv, TypeOK, Paging
      <4>2. Cardinality(script)' <= number'
        BY <2>4, <4>1 DEF page
      <4> QED BY <1>1, <1>2, <2>4, <3>1, <4>1, <4>2 DEF CloneRest, WebInv, Paging, store, page
    <3>2. CASE GetImage \/ Clone \/ NoImage \/ Sent
      BY <1>1, <1>2, <2>4, <3>2 DEF GetImage, Clone, NoImage, Sent, WebInv, Paging, store, page
    <3> QED BY <1>6, <3>1, <3>2
  <2> QED BY <1>4, <2>6, <2>7, <2>8 DEF WebInv
<1>7. CASE PageScript
  <2>1. index \in 0 .. ImageCount /\ (index \in Kinds => index + 1 \in 0 .. ImageCount) /\ 0 \in 0 .. ImageCount
    BY WebAssumption DEF WebInv, TypeOK, Kinds
  <2>2. index' \in 0 .. ImageCount
    BY <1>7, <2>1 DEF PageScript
  <2>3. script' \subseteq Kinds
    BY <1>7 DEF PageScript, WebInv, TypeOK
  <2>4. TypeOK'
    BY <1>1, <1>7, <2>2, <2>3 DEF PageScript, WebInv, TypeOK, store, working
  <2>5. Copying'
    BY <1>1, <1>7 DEF PageScript, WebInv, Copying, store
  <2>6. script' \subseteq Stored
    BY <1>7 DEF PageScript, WebInv, Paging, Stored
  <2>7. Paging'
    BY <1>1, <1>2, <1>7, <2>6 DEF PageScript, WebInv, Paging, store
  <2> QED BY <1>4, <2>4, <2>5, <2>7 DEF WebInv
<1>8. CASE PageNumber
  <2>1. TypeOK' /\ Copying'
    BY <1>1, <1>8 DEF PageNumber, WebInv, TypeOK, Copying, store, working
  <2>2. Cardinality(script) <= frames
    <3>1. script \subseteq Stored /\ Stored \subseteq Kinds /\ script \subseteq Kinds
      BY <1>8 DEF PageNumber, WebInv, Paging, TypeOK, Stored
    <3>2. Cardinality(script) <= Cardinality(Stored) /\ Cardinality(script) \in Nat /\ Cardinality(Stored) \in Nat
      BY <3>1, KindsFinite
    <3>3. Cardinality(Stored) <= frames /\ frames \in Nat
      BY DEF WebInv, Paging, TypeOK
    <3> DEFINE n == Cardinality(script)
               m == Cardinality(Stored)
    <3>4. n <= m /\ m <= frames /\ n \in Nat /\ m \in Nat /\ frames \in Nat
      BY <3>2, <3>3
    <3> HIDE DEF n, m
    <3>5. n <= frames
      BY <3>4
    <3> QED BY <3>5 DEF n
  <2>3. index = 0 /\ \A k \in script : ~(k < index)
    BY <1>8, WebAssumption DEF PageNumber, WebInv, TypeOK, Kinds, Paging
  <2>4. Paging'
    BY <1>1, <1>2, <1>8, <2>2, <2>3 DEF PageNumber, WebInv, Paging, store
  <2> QED BY <1>4, <2>1, <2>4 DEF WebInv
<1>9. CASE PageTags
  <2>1. index \in 0 .. ImageCount /\ (index \in Kinds => index + 1 \in 0 .. ImageCount) /\ 0 \in 0 .. ImageCount
    BY WebAssumption DEF WebInv, TypeOK, Kinds
  <2>2. index' \in 0 .. ImageCount
    BY <1>9, <2>1 DEF PageTags
  <2>3. tags' \subseteq Kinds
    BY <1>9 DEF PageTags, WebInv, TypeOK
  <2>4. TypeOK' /\ Copying'
    BY <1>1, <1>9, <2>2, <2>3 DEF PageTags, WebInv, TypeOK, Copying, store, working
  <2>5. handler' = "tags" => \A k \in script : k < index' => k \in tags'
    <3> SUFFICES ASSUME handler' = "tags", NEW k \in script, k < index' PROVE k \in tags'
      OBVIOUS
    <3>1. index \in Kinds /\ index' = index + 1 /\ k \in Kinds /\ imagesOut[k] # None
      BY <1>9 DEF PageTags, WebInv, TypeOK, Paging, Stored
    <3>2. k < index \/ k = index
      BY <2>1, <3>1, WebAssumption DEF Kinds
    <3>3. k < index => k \in tags
      BY <1>9 DEF PageTags, WebInv, Paging
    <3> QED BY <1>9, <3>1, <3>2, <3>3 DEF PageTags
  <2>6. handler' = "sent" => script \subseteq tags'
    <3> SUFFICES ASSUME handler' = "sent", NEW k \in script PROVE k \in tags'
      OBVIOUS
    <3>1. index \notin Kinds /\ k \in Kinds /\ tags' = tags
      BY <1>9 DEF PageTags, WebInv, TypeOK
    <3>2. k < index
      BY <2>1, <3>1, WebAssumption DEF Kinds
    <3> QED BY <1>9, <3>1, <3>2 DEF PageTags, WebInv, Paging
  <2>7. Paging'
    BY <1>1, <1>2, <1>9, <2>5, <2>6 DEF PageTags, WebInv, Paging, store
  <2> QED BY <1>4, <2>4, <2>7 DEF WebInv
<1> QED BY <1>5, <1>6, <1>7, <1>8, <1>9 DEF HandlerStep

(* A number that is too large ends the program as it stands. *)
LEMMA TooLargeInv == ASSUME WebInv, TooLarge PROVE WebInv'
<1>1. UNCHANGED <<store, working, serving>> /\ main' = "terminated" /\ main \notin {"begin", "stopped"}
  BY DEF TooLarge, WebInv, Phases
<1>2. TypeOK' /\ Copying'
  BY <1>1 DEF WebInv, TypeOK, Copying, store, working, serving, page
<1>3. Phases'
  BY <1>1 DEF WebInv, Phases, store, working, serving, page
<1>4. Stored' = Stored
  BY <1>1 DEF store, Stored
<1>5. Paging'
  BY <1>1, <1>4 DEF WebInv, Paging, store, serving, page
<1> QED BY <1>2, <1>3, <1>5 DEF WebInv

LEMMA WebInvariant == Spec => []WebInv
<1>1. WebInv /\ UNCHANGED vars => WebInv'
  BY DEF vars, store, working, serving, page, WebInv, TypeOK, Phases, Copying, Paging, Stored
<1>2. WebInv /\ [Next]_vars => WebInv'
  BY <1>1, MainInv, WorkerInv, HandlerInv, TooLargeInv DEF Next
<1> QED BY <1>2, TypeInit, PTL DEF Spec

-----------------------------------------------------------------------------
(* Type correctness of the web server's state. *)
THEOREM WebTypes == Spec => []TypeOK
<1> QED BY WebInvariant, PTL DEF WebInv

(* Neither a detector thread nor microhttpd's thread uses imagesOut before  *)
(* it is allocated or after it is deleted (RC_WebServer.cpp:92 and 124):    *)
(* this rests on the order in which main starts and stops them.             *)
THEOREM ArrayUsedAlive == Spec => []ArrayLive
<1>1. WebInv => ArrayLive
  <2> SUFFICES ASSUME WebInv, Uses PROVE array = "live"
    BY DEF ArrayLive
  <2>1. CASE \E w \in Workers : worker[w] = "storing"
    BY <2>1 DEF WebInv, TypeOK, Phases
  <2>2. CASE handler \in {"get", "script", "tags"}
    BY <2>2 DEF WebInv, TypeOK, Phases
  <2> QED BY <2>1, <2>2 DEF Uses
<1> QED BY <1>1, WebInvariant, PTL

(* What httpd_callback sends comes from one frame, although it copies the   *)
(* pixels without the mutex (RC_WebServer.cpp:39, RC_WebServer.hpp:65).     *)
THEOREM PictureWhole == Spec => []ServedWhole
<1>1. WebInv => ServedWhole
  BY DEF WebInv, Copying, ServedWhole
<1> QED BY <1>1, WebInvariant, PTL

(* A page shows every picture that its script reloads, and its number       *)
(* counts at least these (RC_WebServer.cpp:64, 73 and 74).                  *)
THEOREM PageSound == Spec => []PageConsistent
<1>1. WebInv => PageConsistent
  BY DEF WebInv, Paging, PageConsistent
<1> QED BY <1>1, WebInvariant, PTL
=============================================================================
