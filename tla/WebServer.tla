------------------------------ MODULE WebServer -----------------------------
(***************************************************************************)
(* rc::WebServer: detector threads store their newest pictures             *)
(* (setImage), and microhttpd's thread, one with MHD_USE_SELECT_INTERNALLY,*)
(* serves them as /cam<i>.jpg and on a page that shows them all            *)
(* (httpd_callback).  main() starts the server before and stops it after   *)
(* the detector threads.                                                   *)
(*                                                                         *)
(* setImage, getImage and getFrames hold imagesMtx throughout, so each is  *)
(* one step.  A cv::Mat is a counted reference to a pixel buffer: getImage *)
(* returns a second reference to the stored buffer, and its caller copies  *)
(* the pixels WITHOUT the mutex.  A buffer that nobody refers to is free   *)
(* and may be used for the next picture.  A picture is the number of the   *)
(* camera frame it was made from.                                          *)
(***************************************************************************)
EXTENDS Naturals, FiniteSets

CONSTANTS
    Workers,             \* the detector threads
    ImageCount,          \* pictures of a frame: drawn, filtered yellow, blue
    ShowFiltered,        \* are the filtered ones stored as well?
    MaxFrames,           \* bound: frames analysed
    Buffers,             \* pixel buffers
    None                 \* no buffer: the empty cv::Mat

ASSUME WebAssumption ==
    /\ ImageCount \in Nat \ {0}
    /\ ShowFiltered \in BOOLEAN
    /\ MaxFrames \in Nat
    /\ None \notin Buffers

Kinds  == 0 .. ImageCount - 1
Last   == IF ShowFiltered THEN ImageCount - 1 ELSE 0
Frames == 1 .. MaxFrames
NoFrame == 0

VARIABLES
    main,                \* where the main thread is
    array,               \* the array imagesOut: "none", "live", "deleted"
    imagesOut,           \* index -> the buffer stored there
    frames,              \* the counter: pictures stored so far
    pixels,              \* buffer -> the frame its pixels show
    worker,              \* where each detector thread is
    kind,                \* the index it stores next
    image,               \* the frame each detector thread works on
    analysed,            \* number of frames analysed
    handler,             \* where microhttpd's thread is
    index,               \* the index of the picture asked for, or of its loop
    header,              \* the cv::Mat that getImage returned
    copy,                \* the clone of it: the frame each half shows
    script, number, tags \* the page so far: the pictures its script reloads,
                         \* the frame number it prints, the pictures it shows

store   == <<array, imagesOut, frames, pixels>>
working == <<worker, kind, image, analysed>>
page    == <<script, number, tags>>
serving == <<handler, index, header, copy, page>>
vars    == <<main, store, working, serving>>

TypeOK ==
    /\ main \in {"begin", "running", "joining", "joined", "closing", "stopped", "terminated"}
    /\ array \in {"none", "live", "deleted"}
    /\ imagesOut \in [Kinds -> Buffers \cup {None}]
    /\ frames \in Nat
    /\ pixels \in [Buffers -> Frames \cup {NoFrame}]
    /\ worker \in [Workers -> {"loop", "storing", "ended"}]
    /\ kind \in [Workers -> Kinds]
    /\ image \in [Workers -> Frames \cup {NoFrame}]
    /\ analysed \in 0 .. MaxFrames
    /\ handler \in {"off", "idle", "get", "clone", "copied", "script", "number", "tags", "sent"}
    /\ index \in 0 .. ImageCount
    /\ header \in Buffers \cup {None}
    /\ copy \in [{1, 2} -> Frames \cup {NoFrame}]
    /\ script \subseteq Kinds /\ tags \subseteq Kinds
    /\ number \in Nat

Init ==
    /\ main = "begin"
    /\ array = "none"
    /\ imagesOut = [k \in Kinds |-> None]
    /\ frames = 0
    /\ pixels = [b \in Buffers |-> NoFrame]
    /\ worker = [w \in Workers |-> "loop"]
    /\ kind = [w \in Workers |-> 0]
    /\ image = [w \in Workers |-> NoFrame]
    /\ analysed = 0
    /\ handler = "off"
    /\ index = 0
    /\ header = None
    /\ copy = [half \in {1, 2} |-> NoFrame]
    /\ script = {} /\ number = 0 /\ tags = {}

-----------------------------------------------------------------------------
(* main: httpd.start() allocates the array before microhttpd runs; when the *)
(* port is taken it only reports this, and goes on with setHttpd.           *)
Start ==
    /\ main = "begin"
    /\ main' = "running"
    /\ array' = "live"
    /\ handler' \in {"idle", "off"}
    /\ UNCHANGED <<imagesOut, frames, pixels, working, index, header, copy, page>>

StopThreads ==
    /\ main = "running"
    /\ main' = "joining"
    /\ UNCHANGED <<store, working, serving>>

(* stopThreads joins every detector thread, then clears the pointer.        *)
Join ==
    /\ main = "joining"
    /\ \A w \in Workers : worker[w] = "ended"
    /\ main' = "joined"
    /\ UNCHANGED <<store, working, serving>>

(* Fault: the array is deleted before microhttpd has stopped. *)
StopDeletesFirstMutant ==
    /\ main = "joined"
    /\ main' = "closing"
    /\ array' = "deleted"
    /\ imagesOut' = [k \in Kinds |-> None]
    /\ UNCHANGED <<frames, pixels, working, serving>>

(* httpd.stop(): MHD_stop_daemon takes no more requests ... *)
Stop ==
    /\ main = "joined"
    /\ main' = "closing"
    /\ UNCHANGED <<store, working, serving>>

(* ... and joins the thread that answers them; then the array is deleted.   *)
Delete ==
    /\ main = "closing"
    /\ handler \in {"idle", "off"}
    /\ main' = "stopped"
    /\ handler' = "off"
    /\ array' = "deleted"
    /\ imagesOut' = [k \in Kinds |-> None]
    /\ UNCHANGED <<frames, pixels, working, index, header, copy, page>>

-----------------------------------------------------------------------------
(* A detector thread works until it finds its loop flag cleared: also after *)
(* the stop, when a late one has set the flag again (RC_Threads.cpp:32).    *)
Analyse(w) ==
    /\ main \in {"running", "joining"}
    /\ worker[w] = "loop"
    /\ analysed < MaxFrames
    /\ analysed' = analysed + 1
    /\ image' = [image EXCEPT ![w] = analysed + 1]
    /\ worker' = [worker EXCEPT ![w] = "storing"]
    /\ UNCHANGED <<main, kind, store, serving>>

LeaveLoop(w) ==
    /\ main = "joining"
    /\ worker[w] = "loop"
    /\ worker' = [worker EXCEPT ![w] = "ended"]
    /\ UNCHANGED <<main, store, kind, image, analysed, serving>>

(* A buffer nobody refers to, as the allocator may return it. *)
Unused(b) == b # header /\ \A k \in Kinds : imagesOut[k] # b

(* Fault: the pixels are copied into the buffer stored before (copyTo).     *)
StoreInPlaceMutant(k, f) ==
    \E b \in Buffers :
        /\ IF imagesOut[k] = None THEN Unused(b) ELSE b = imagesOut[k]
        /\ pixels' = [pixels EXCEPT ![b] = f]
        /\ imagesOut' = [imagesOut EXCEPT ![k] = b]

(* imagesOut[idx % imageCount] = src.clone(): a new buffer; the old one     *)
(* loses a reference.                                                       *)
StoreClone(k, f) ==
    \E b \in Buffers :
        /\ Unused(b)
        /\ pixels' = [pixels EXCEPT ![b] = f]
        /\ imagesOut' = [imagesOut EXCEPT ![k] = b]

Advance(w) ==
    IF kind[w] < Last
    THEN kind' = [kind EXCEPT ![w] = @ + 1] /\ UNCHANGED worker
    ELSE kind' = [kind EXCEPT ![w] = 0] /\ worker' = [worker EXCEPT ![w] = "loop"]

(* Fault: the counter is raised once for all pictures of a frame. *)
CountFramesMutant(w) ==
    /\ worker[w] = "storing"
    /\ StoreClone(kind[w], image[w])
    /\ frames' = IF kind[w] = Last THEN frames + 1 ELSE frames
    /\ Advance(w)
    /\ UNCHANGED <<main, array, image, analysed, serving>>

(* setImage for one picture after the other *)
SetImage(w) ==
    /\ worker[w] = "storing"
    /\ StoreClone(kind[w], image[w])
    /\ frames' = frames + 1
    /\ Advance(w)
    /\ UNCHANGED <<main, array, image, analysed, serving>>

-----------------------------------------------------------------------------
(* A request for a picture or for the page.  One that is no GET, or asks    *)
(* for a picture by what is no number or a number of no picture, gets       *)
(* MHD_NO at once ...                                                       *)
Request ==
    /\ main # "closing"
    /\ handler = "idle"
    /\ \/ handler' = "get" /\ index' \in Kinds
       \/ handler' = "script" /\ index' = 0
    /\ script' = {} /\ number' = 0 /\ tags' = {}
    /\ copy' = [half \in {1, 2} |-> NoFrame]
    /\ UNCHANGED <<main, store, working, header>>

(* ... but one for a number that does not fit into an int ends the program: *)
(* nothing catches the std::out_of_range of std::stoi.                      *)
TooLarge ==
    /\ main # "closing"
    /\ handler = "idle"
    /\ main' = "terminated"
    /\ UNCHANGED <<store, working, serving>>

(* cv::Mat out = ws->getImage(i).clone(): the reference ... *)
GetImage ==
    /\ handler = "get"
    /\ handler' = "clone"
    /\ header' = imagesOut[index]
    /\ UNCHANGED <<main, store, working, index, copy, page>>

Half(h) == copy' = [copy EXCEPT ![h] = pixels[header]]

(* ... the pixels, first half and second half (an empty image has none, and *)
(* then the answer is MHD_NO) ...                                           *)
Clone ==
    /\ handler = "clone" /\ header # None
    /\ handler' = "copied"
    /\ Half(1)
    /\ UNCHANGED <<main, store, working, index, header, page>>

NoImage ==
    /\ handler = "clone" /\ header = None
    /\ handler' = "idle" /\ index' = 0
    /\ UNCHANGED <<main, store, working, header, copy, page>>

(* ... after which the reference is given up and the copy is sent.          *)
CloneRest ==
    /\ handler = "copied"
    /\ handler' = "sent"
    /\ Half(2)
    /\ header' = None
    /\ UNCHANGED <<main, store, working, index, page>>

(* The page: its script reloads every picture there is ... *)
PageScript ==
    /\ handler = "script"
    /\ IF index \in Kinds
       THEN /\ index' = index + 1
            /\ script' = IF imagesOut[index] # None THEN script \cup {index} ELSE script
            /\ UNCHANGED handler
       ELSE handler' = "number" /\ index' = 0 /\ UNCHANGED script
    /\ UNCHANGED <<main, store, working, header, copy, number, tags>>

(* ... its text has the number ws->getFrames() ... *)
PageNumber ==
    /\ handler = "number"
    /\ handler' = "tags"
    /\ number' = frames
    /\ UNCHANGED <<main, store, working, index, header, copy, script, tags>>

(* ... and it shows every picture there is by now. *)
PageTags ==
    /\ handler = "tags"
    /\ IF index \in Kinds
       THEN /\ index' = index + 1
            /\ tags' = IF imagesOut[index] # None THEN tags \cup {index} ELSE tags
            /\ UNCHANGED handler
       ELSE handler' = "sent" /\ index' = 0 /\ UNCHANGED tags
    /\ UNCHANGED <<main, store, working, header, copy, script, number>>

Sent ==
    /\ handler = "sent"
    /\ handler' = "idle" /\ index' = 0
    /\ UNCHANGED <<main, store, working, header, copy, page>>

MainStep == Start \/ StopThreads \/ Join \/ Stop \/ Delete

WorkerStep(w) == Analyse(w) \/ LeaveLoop(w) \/ SetImage(w)

HandlerStep ==
    \/ Request \/ GetImage \/ Clone \/ NoImage \/ CloneRest
    \/ PageScript \/ PageNumber \/ PageTags \/ Sent

Next ==
    /\ main # "terminated"
    /\ MainStep \/ (\E w \in Workers : WorkerStep(w)) \/ HandlerStep \/ TooLarge

Spec == Init /\ [][Next]_vars

-----------------------------------------------------------------------------
(* A picture is served whole: what httpd_callback copies without the mutex  *)
(* (RC_WebServer.cpp:39) comes from one frame, although detector threads    *)
(* store newer pictures at the same index meanwhile (RC_WebServer.hpp:65).  *)
ServedWhole == handler = "sent" => copy[1] = copy[2]

(* A page never reloads a picture that it does not show, or whose storing   *)
(* its number does not count: the two loops and getFrames lock one by one,  *)
(* and pictures are stored between them (RC_WebServer.cpp:64, 73 and 74).   *)
PageConsistent ==
    handler = "sent" => script \subseteq tags /\ Cardinality(script) <= number

(* Nobody uses the array imagesOut before start has allocated or after stop *)
(* has deleted it (RC_WebServer.cpp:92 and 124), neither a detector thread  *)
(* in setImage nor microhttpd in getImage: neither looks.                   *)
Uses ==
    \/ \E w \in Workers : worker[w] = "storing"
    \/ handler = "get"
    \/ handler \in {"script", "tags"} /\ index \in Kinds

ArrayLive == Uses => array = "live"
=============================================================================
