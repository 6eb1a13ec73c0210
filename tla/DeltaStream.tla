------------------------------ MODULE DeltaStream -------------------------------
(* The picture on its way: the capture thread compares each frame with the one   *)
(* before it and sends the rectangles that changed (main.rs, quadtree.rs,        *)
(* proto.rs); the ring may drop entries for a viewer that is behind, and the     *)
(* viewer's queue the oldest when it is full; what arrives is blitted over the   *)
(* picture shown so far (client_window.rs).  No frame but a capture's first is   *)
(* sent whole.                                                                   *)
(*                                                                               *)
(* The ring is the abstract log of StreamLog, which StreamCache implements.      *)
(* When frames are shown is the subject of ClientPlayback: here at any moment.   *)
EXTENDS QuadTree, Sequences

CONSTANTS Viewers,
          Capacity,    \* of the ring
          QueueCap,    \* video_queue_cap
          Sizes,       \* sizes of the regions the host selects
          Values,      \* of a pixel; 0 is the black a new buffer is filled with
          Spots,       \* sets of pixels that change together
          MaxFrames,   \* bound of the model: frames captured
          MaxCaptures  \* bound of the model: captures

ASSUME StreamAssumption == Capacity \in Nat \ {0} /\ QueueCap \in Nat \ {0}
ASSUME PictureAssumption == /\ Sizes \subseteq [w : Nat \ {0}, h : Nat \ {0}]
                            /\ Values \subseteq Nat /\ 0 \in Values
ASSUME BoundAssumption == MaxFrames \in Nat /\ MaxCaptures \in Nat

VARIABLES
    cap,       \* number of the latest capture
    dims,      \* stream_dims: the region's size while it is captured
    prev,      \* the detector's previous frame
    frames,    \* number of frames captured so far
    unsent,    \* history: pixels whose last change was never pushed
    quiet,     \* history: frames captured since a pixel was last pushed
    log,       \* the entries pushed
    joined,    \* viewers that are streamed to
    position,  \* position[v]: the number of entries v's send thread is past
    lost,      \* history: lost[v], the entries v will never show
    video_queue,
    shown,     \* shown[v]: the last entry blitted, 0 for none
    picture    \* picture[v]: stream_w, stream_h and video_buf

capture == <<cap, dims, prev, frames, unsent, quiet>>
viewer == <<joined, lost, video_queue, shown, picture>>
vars == <<capture, log, position, viewer>>

NoFrame == [w |-> 0, h |-> 0, data |-> <<>>]
Black(w, h) == [w |-> w, h |-> h, data |-> [i \in Indices(w, h) |-> 0]]
NotJoined == [w |-> 0, h |-> 0, data |-> <<>>]

Frames(size) == [w : {size.w}, h : {size.h}, data : [Indices(size.w, size.h) -> Values]]

Ring == INSTANCE StreamLog WITH published <- Len(log), Readers <- Viewers

Init == /\ cap = 0 /\ dims = [w |-> 0, h |-> 0] /\ prev = NoFrame /\ frames = 0
        /\ unsent = {} /\ quiet = <<>>
        /\ log = <<>>
        /\ joined = {}
        /\ position = [v \in Viewers |-> 0]
        /\ lost = [v \in Viewers |-> {}]
        /\ video_queue = [v \in Viewers |-> <<>>]
        /\ shown = [v \in Viewers |-> 0]
        /\ picture = [v \in Viewers |-> NotJoined]

--------------------------------------------------------------------------------
(* The host.                                                                     *)

\* encode_video_frame writes each rectangle's pixels row by row, with its place and
\* width; decode_video_frame gives them back as one run of pixels.
EncodeRect(frame, r) ==
    [x |-> r.x, y |-> r.y, w |-> r.w,
     px |-> [k \in Indices(r.w, r.h) |->
               frame.data[(r.y + (k \div r.w)) * frame.w + r.x + (k % r.w)]]]
EncodeVideoFrame(rects, frame) ==
    [w |-> frame.w, h |-> frame.h, rects |-> {EncodeRect(frame, r) : r \in rects}]

Pixels(rects, frame) == UNION {Inside(frame.w, r) : r \in rects}

\* DeltaDetector::feed returns the whole of a capture's first frame.
DirtyRects(frame) == IF prev = NoFrame THEN {Whole(frame)} ELSE Subdivide(frame, prev)

Feed(frame) == prev' = frame

\* enter_capturing and enter_selecting.
StartCaptureSameDetector(size) ==
    /\ dims.w = 0
    /\ cap < MaxCaptures
    /\ cap' = cap + 1
    /\ dims' = size
    /\ prev' = IF prev.w = size.w /\ prev.h = size.h THEN prev ELSE NoFrame
    /\ unsent' = {} /\ quiet' = [i \in Indices(size.w, size.h) |-> 0]
    /\ UNCHANGED <<frames, log, position, viewer>>
StartCapture(size) ==
    /\ dims.w = 0
    /\ cap < MaxCaptures
    /\ cap' = cap + 1
    /\ dims' = size
    /\ prev' = NoFrame
    /\ unsent' = {} /\ quiet' = [i \in Indices(size.w, size.h) |-> 0]
    /\ UNCHANGED <<frames, log, position, viewer>>

StopCapture ==
    /\ dims.w > 0
    /\ dims' = [w |-> 0, h |-> 0]
    /\ UNCHANGED <<cap, prev, frames, unsent, quiet, log, position, viewer>>

\* A frame is captured and fed to the detector.  What is dirty is encoded and
\* pushed; if the encoder fails it is gone, though the detector has seen it.
CaptureFrame(frame) ==
    /\ dims.w > 0
    /\ frames < MaxFrames
    /\ frames' = frames + 1
    /\ Feed(frame)
    /\ LET rects == DirtyRects(frame)
           sent == Pixels(rects, frame)
       IN  \/ /\ rects # {}
              /\ log' = Append(log, [cap |-> cap, msg |-> EncodeVideoFrame(rects, frame)])
              /\ unsent' = unsent \ sent
              /\ quiet' = [i \in DOMAIN quiet |-> IF i \in sent THEN 0 ELSE quiet[i] + 1]
           \/ /\ log' = log
              /\ unsent' = unsent \cup sent
              /\ quiet' = [i \in DOMAIN quiet |-> quiet[i] + 1]
    /\ UNCHANGED <<cap, dims, position, viewer>>

\* What the screen may show next: some pixels of the region change together.
NextFrames ==
    IF prev = NoFrame
    THEN {[w |-> dims.w, h |-> dims.h, data |-> [i \in Indices(dims.w, dims.h) |-> c]] : c \in Values}
    ELSE {[prev EXCEPT !.data = [i \in DOMAIN @ |-> IF i \in spot THEN c ELSE @[i]]] :
            spot \in Spots, c \in Values}

--------------------------------------------------------------------------------
(* A viewer's connection and its window.                                         *)

\* STREAM_INFO gives a new viewer the size; its send thread starts at the ring's
\* tail.
SnapshotTail(v) ==
    position' = [position EXCEPT ![v] = IF Len(log) > Capacity THEN Len(log) - Capacity ELSE 0]
Join(v) ==
    /\ v \notin joined
    /\ joined' = joined \cup {v}
    /\ SnapshotTail(v)
    /\ lost' = [lost EXCEPT ![v] = 1 .. position'[v]]
    /\ picture' = [picture EXCEPT ![v] = Black(dims.w, dims.h)]
    /\ UNCHANGED <<capture, log, video_queue, shown>>

\* The ring has left the viewer behind.
Lapped(v) ==
    /\ v \in joined
    /\ UNCHANGED <<capture, log>>
    /\ Ring!JumpForward(v)
    /\ lost' = [lost EXCEPT ![v] = @ \cup (position[v] + 1 .. position'[v])]
    /\ UNCHANGED <<joined, video_queue, shown, picture>>

\* The next entry arrives in the queue, whose ceiling drops the oldest frame.
Receive(v) ==
    /\ v \in joined
    /\ UNCHANGED <<capture, log>>
    /\ Ring!Deliver(v)
    /\ IF Len(video_queue[v]) >= QueueCap
       THEN /\ video_queue' = [video_queue EXCEPT ![v] = Append(Tail(@), position'[v])]
            /\ lost' = [lost EXCEPT ![v] = @ \cup {Head(video_queue[v])}]
       ELSE /\ video_queue' = [video_queue EXCEPT ![v] = Append(@, position'[v])]
            /\ UNCHANGED lost
    /\ UNCHANGED <<joined, shown, picture>>

\* blit_frame: a frame of another size gets a new buffer; the pixels of each
\* rectangle are laid out again by its own width.
CanvasKeepingBuffer(pic, msg) ==
    IF pic.w = 0 THEN Black(msg.w, msg.h) ELSE [pic EXCEPT !.w = msg.w, !.h = msg.h]
Canvas(pic, msg) == IF pic.w # msg.w \/ pic.h # msg.h THEN Black(msg.w, msg.h) ELSE pic
Target(r, k, width) == (r.y + (k \div r.w)) * width + r.x + (k % r.w)
Hits(msg, i) == {hit \in UNION {{r} \X DOMAIN r.px : r \in msg.rects} :
                   Target(hit[1], hit[2], msg.w) = i}
BlitOneRect(pic, msg) ==
    LET r == CHOOSE r \in msg.rects : TRUE
    IN  [Canvas(pic, msg) EXCEPT !.data =
           [i \in DOMAIN @ |-> IF \E k \in DOMAIN r.px : Target(r, k, msg.w) = i
                               THEN r.px[CHOOSE k \in DOMAIN r.px : Target(r, k, msg.w) = i]
                               ELSE @[i]]]
BlitFrame(pic, msg) ==
    LET canvas == Canvas(pic, msg)
    IN  [canvas EXCEPT !.data =
           [i \in DOMAIN @ |->
              IF Hits(msg, i) # {} THEN LET hit == CHOOSE hit \in Hits(msg, i) : TRUE
                                        IN  hit[1].px[hit[2]]
              ELSE @[i]]]

Show(v) ==
    /\ video_queue[v] # <<>>
    /\ LET n == Head(video_queue[v])
       IN  /\ picture' = [picture EXCEPT ![v] = BlitFrame(@, log[n].msg)]
           /\ shown' = [shown EXCEPT ![v] = n]
    /\ video_queue' = [video_queue EXCEPT ![v] = Tail(@)]
    /\ UNCHANGED <<capture, log, position, joined, lost>>

--------------------------------------------------------------------------------

Next == \/ \E size \in Sizes : StartCapture(size)
        \/ StopCapture
        \/ \E frame \in NextFrames : CaptureFrame(frame)
        \/ \E v \in Viewers : Join(v) \/ Lapped(v) \/ Receive(v) \/ Show(v)

Spec == Init /\ [][Next]_vars

--------------------------------------------------------------------------------
(* Properties.                                                                   *)

\* The rectangle's pixels, as indices into a frame that is width wide.
Covered(msg) == UNION {{Target(r, k, msg.w) : k \in DOMAIN r.px} : r \in msg.rects}

\* The pixels a viewer shows are as many as the picture is large, whatever sizes
\* STREAM_INFO and the frames had; entries are in the queue once and in order.
TypeOK ==
    /\ cap \in 0 .. MaxCaptures /\ frames \in 0 .. MaxFrames
    /\ dims \in Sizes \cup {[w |-> 0, h |-> 0]}
    /\ prev = NoFrame \/ \E size \in Sizes : prev \in Frames(size)
    /\ joined \subseteq Viewers
    /\ \A v \in Viewers :
         /\ position[v] \in 0 .. Len(log)
         /\ lost[v] \subseteq 1 .. position[v]
         /\ Len(video_queue[v]) <= QueueCap
         /\ \A i \in DOMAIN video_queue[v] : video_queue[v][i] \in shown[v] + 1 .. position[v]
         /\ shown[v] \in 0 .. position[v]
         /\ DOMAIN picture[v].data = Indices(picture[v].w, picture[v].h)

\* The detector, over every pattern of changes a frame of the region just selected
\* can have: the rectangles cover each pixel that changed by more than the noise
\* floor, once, are inside the frame, each has a change in it, and none is larger
\* than the threshold allows.  Pixels at the noise floor do not count.
DetectorExact ==
    dims.w > 0 /\ frames = 0 /\ joined = {} => \A pixels \in SUBSET Indices(dims.w, dims.h) :
        LET before == Black(dims.w, dims.h)
            after == [before EXCEPT !.data =
                        [i \in DOMAIN @ |-> IF i \in pixels THEN NoiseFloor + 1 ELSE NoiseFloor]]
            rects == Subdivide(after, before)
        IN  /\ Changed(after, before, Whole(after)) = pixels
            /\ IsDirtyCover(rects, after, before)
            /\ IsTight(rects, after, before)

\* The entries of the capture that entry n is of, up to n, that cover pixel i.
Sources(n, i) == {k \in 1 .. n : log[k].cap = log[n].cap /\ i \in Covered(log[k].msg)}
Latest(S) == CHOOSE k \in S : \A j \in S : j <= k
Sent(k, i) == LET hit == CHOOSE hit \in Hits(log[k].msg, i) : TRUE IN hit[1].px[hit[2]]

\* A pixel is as the entry that changed it last sent it, unless the viewer lost
\* that very entry: losing others, joining in the middle of a capture, or having
\* the picture of another capture on the screen does no harm to it.
StaleOnlyWhereLost ==
    \A v \in Viewers : shown[v] # 0 =>
        \A i \in DOMAIN picture[v].data :
            LET sources == Sources(shown[v], i)
            IN  sources # {} /\ Latest(sources) \notin lost[v]
                    => picture[v].data[i] = Sent(Latest(sources), i)

\* A viewer that has shown everything and lost nothing of a capture sees the
\* host's screen: each pixel is off by no more than the noise floor for every
\* frame since it was last sent, for the detector compares with the frame before
\* and not with what the viewers have.
CaughtUpPicture ==
    \A v \in Viewers :
        /\ log # <<>> /\ shown[v] = Len(log)
        /\ log[Len(log)].cap = cap
        /\ \A k \in lost[v] : log[k].cap # cap
        => /\ picture[v].w = prev.w /\ picture[v].h = prev.h
           /\ \A i \in DOMAIN prev.data \ unsent :
                /\ picture[v].data[i] <= prev.data[i] + NoiseFloor * quiet[i]
                /\ prev.data[i] <= picture[v].data[i] + NoiseFloor * quiet[i]
================================================================================
