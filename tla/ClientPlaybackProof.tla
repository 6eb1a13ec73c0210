-------------------------- MODULE ClientPlaybackProof --------------------------
(* Theorems about the viewer's playback for streams of any length, any frame     *)
(* rates and cache sizes, sound with any gaps and stamped however late, with and *)
(* without a loopback device at the host, and devices that may fail.             *)
EXTENDS ClientPlayback, SequenceTheorems, WellFoundedInduction, TLAPS

--------------------------------------------------------------------------------
(* The inductive invariant.                                                      *)

IsFrame(i) == event_rx[i].ev = "VideoFrame"
IsChunk(i) == event_rx[i].ev = "AudioChunk"

\* The host has stamped a frame p and will not stamp another so; one that is
\* pushed comes before the frame that is being encoded.
Captured(p) == p < clock \/ (p = clock /\ "video" \notin unsent)
Pushed(p) == /\ Captured(p)
             /\ encoding["video"] # 0 => p < encoding["video"]

\* Where the turn is, and that StreamInfo comes before anything else.
PhaseInv ==
    /\ pc = "advancing" => prebuffering
    /\ pc = "showing" => ~prebuffering
    /\ prebuffering => player = "none" /\ shown = 0
    /\ \A i \in DOMAIN event_rx : event_rx[i].ev = "StreamInfo" =>
           /\ i = 1 /\ pc = "draining"
           /\ prebuffering /\ chunks = <<>> /\ video_queue = <<>>

\* The player holds what has not been played, its clock starts at the stamp of the
\* first chunk, and what it has shown was due.
PlayerInv ==
    /\ prebuffering => Samples(audio_prebuf) = chunks
    /\ Listening => played <= Len(chunks) /\ acc = SubSeq(chunks, played + 1, Len(chunks))
    /\ player \in {"none", "dead"} => acc = <<>>
    /\ chunks # <<>> => first_pts # 0
    /\ prebuffering /\ chunks # <<>> => audio_prebuf # <<>> /\ audio_prebuf[1].pts = first_pts
    /\ audio_base_pts # 0 => chunks # <<>> /\ audio_base_pts = first_pts
    /\ player # "none" => shown <= AudioPts

\* It takes a tick to record a chunk; the ticks of the host's clock are the chunks
\* recorded and the gaps.
RecordInv ==
    /\ \A i, j \in DOMAIN recorded : i <= j => j - i <= recorded[j] - recorded[i]
    /\ \A i \in DOMAIN recorded : /\ recorded[i] <= Start + i - 1 + gaps
                                  /\ recorded[i] <= clock
                                  /\ "audio" \in unsent => recorded[i] < clock
    /\ HostSound /\ "audio" \in unsent => clock = Start + Len(recorded) + gaps
    /\ HostSound /\ "audio" \notin unsent => clock = Start + Len(recorded) + gaps - 1
    /\ pushed <= Len(recorded)
    /\ encoding["audio"] # 0 => pushed < Len(recorded)

\* The chunks received and those in the channel are the chunks pushed, in order.
ChannelInv ==
    /\ Len(chunks) <= pushed
    /\ \A k \in DOMAIN chunks : chunks[k] = k
    /\ \A i \in DOMAIN event_rx : IsChunk(i) =>
           /\ Len(chunks) < event_rx[i].samples /\ event_rx[i].samples <= pushed
           /\ \A j \in DOMAIN event_rx :
                  i < j /\ IsChunk(j) => event_rx[i].samples < event_rx[j].samples
    /\ \A n \in Nat : Len(chunks) < n /\ n <= pushed =>
           \E i \in DOMAIN event_rx : IsChunk(i) /\ event_rx[i].samples = n

\* Stamps of frames grow from the picture through the queue, the channel and the
\* encoder to the host's clock.
FrameInv ==
    /\ Captured(encoding["video"])
    /\ Pushed(shown)
    /\ \A k \in DOMAIN video_queue :
           /\ shown < video_queue[k]
           /\ Pushed(video_queue[k])
           /\ \A l \in DOMAIN video_queue : k < l => video_queue[k] < video_queue[l]
    /\ \A i \in DOMAIN event_rx : IsFrame(i) =>
           /\ Pushed(event_rx[i].pts)
           /\ shown < event_rx[i].pts
           /\ \A k \in DOMAIN video_queue : video_queue[k] < event_rx[i].pts
           /\ \A j \in DOMAIN event_rx :
                  i < j /\ IsFrame(j) => event_rx[i].pts < event_rx[j].pts

IInv == TypeOK /\ PhaseInv /\ PlayerInv /\ RecordInv /\ ChannelInv /\ FrameInv

--------------------------------------------------------------------------------
(* Sequences.                                                                    *)

LEMMA EmptySequence == Len(<<>>) = 0 /\ DOMAIN <<>> = {}
  OBVIOUS

LEMMA AppendResult ==
    ASSUME NEW T, NEW s \in Seq(T), NEW e \in T
    PROVE  /\ Append(s, e) \in Seq(T)
           /\ Len(Append(s, e)) = Len(s) + 1
           /\ DOMAIN Append(s, e) = DOMAIN s \cup {Len(s) + 1}
           /\ \A i \in DOMAIN s : i \in Nat /\ 1 <= i /\ i <= Len(s) /\ Append(s, e)[i] = s[i]
           /\ Append(s, e)[Len(s) + 1] = e
           /\ Len(s) \in Nat
  OBVIOUS

LEMMA TailResult ==
    ASSUME NEW T, NEW s \in Seq(T), s # <<>>
    PROVE  /\ 1 \in DOMAIN s /\ Head(s) = s[1] /\ s[1] \in T
           /\ Tail(s) \in Seq(T)
           /\ Len(Tail(s)) = Len(s) - 1 /\ Len(s) \in Nat /\ Len(Tail(s)) \in Nat
           /\ \A i \in DOMAIN Tail(s) : i \in Nat /\ i >= 1 /\ i + 1 \in DOMAIN s /\ Tail(s)[i] = s[i + 1]
  OBVIOUS

\* What follows the first n elements, when one more is appended or taken.
LEMMA SubSeqResult ==
    ASSUME NEW T, NEW s \in Seq(T), NEW n \in 0 .. Len(s)
    PROVE  /\ SubSeq(s, n + 1, Len(s)) \in Seq(T)
           /\ Len(SubSeq(s, n + 1, Len(s))) = Len(s) - n
           /\ \A i \in DOMAIN SubSeq(s, n + 1, Len(s)) :
                  /\ i \in Nat /\ i >= 1 /\ n + i \in DOMAIN s
                  /\ SubSeq(s, n + 1, Len(s))[i] = s[n + i]
  OBVIOUS

LEMMA SubSeqOfAppend ==
    ASSUME NEW T, NEW s \in Seq(T), NEW n \in 0 .. Len(s), NEW e \in T
    PROVE  SubSeq(Append(s, e), n + 1, Len(s) + 1) = Append(SubSeq(s, n + 1, Len(s)), e)
  <1> DEFINE a == Append(s, e)
             t == SubSeq(s, n + 1, Len(s))
             u == SubSeq(a, n + 1, Len(s) + 1)
             v == Append(t, e)
  <1>1. /\ a \in Seq(T) /\ Len(a) = Len(s) + 1 /\ Len(s) \in Nat /\ a[Len(s) + 1] = e
        /\ \A i \in 1 .. Len(s) : a[i] = s[i]
    BY AppendProperties, LenProperties
  <1>2. /\ t \in Seq(T) /\ Len(t) = Len(s) - n
        /\ \A i \in 1 .. Len(s) - n : t[i] = s[n + i]
    OBVIOUS
  <1>3. /\ u \in Seq(T) /\ Len(u) = Len(s) + 1 - n
        /\ \A i \in 1 .. Len(s) + 1 - n : u[i] = a[n + i]
    <2> HIDE DEF a
    <2> QED BY <1>1
  <1>4. /\ v \in Seq(T) /\ Len(v) = Len(t) + 1 /\ v[Len(t) + 1] = e
        /\ \A i \in 1 .. Len(t) : v[i] = t[i]
    <2> HIDE DEF t
    <2> QED BY <1>2, AppendProperties
  <1> HIDE DEF a, t, u, v
  <1>5. \A i \in 1 .. Len(u) : u[i] = v[i]
    <2> SUFFICES ASSUME NEW i \in 1 .. Len(u) PROVE u[i] = v[i]
      OBVIOUS
    <2>1. CASE i = Len(s) + 1 - n
      <3>1. n + i = Len(s) + 1 /\ i = Len(t) + 1
        BY <1>1, <1>2, <2>1
      <3> QED BY <1>1, <1>3, <1>4, <3>1
    <2>2. CASE i # Len(s) + 1 - n
      <3>1. i \in 1 .. Len(s) - n /\ n + i \in 1 .. Len(s)
        <4>1. Len(u) = Len(s) + 1 - n /\ Len(s) \in Nat
          BY <1>1, <1>3
        <4> QED BY <4>1, <2>2
      <3> QED BY <1>1, <1>2, <1>3, <1>4, <3>1
    <2> QED BY <2>1, <2>2
  <1>6. Len(u) = Len(v)
    BY <1>1, <1>2, <1>3, <1>4
  <1>7. u = v
    BY <1>3, <1>4, <1>5, <1>6, SeqEqual
  <1> QED BY <1>7 DEF a, t, u, v

LEMMA TailOfSubSeq ==
    ASSUME NEW T, NEW s \in Seq(T), NEW n \in 0 .. Len(s), SubSeq(s, n + 1, Len(s)) # <<>>
    PROVE  /\ n + 1 <= Len(s)
           /\ Tail(SubSeq(s, n + 1, Len(s))) = SubSeq(s, n + 2, Len(s))
           /\ Head(SubSeq(s, n + 1, Len(s))) = s[n + 1]
  <1> DEFINE t == SubSeq(s, n + 1, Len(s))
             u == SubSeq(s, n + 2, Len(s))
  <1>1. /\ t \in Seq(T) /\ Len(t) = Len(s) - n /\ Len(s) \in Nat
        /\ \A i \in 1 .. Len(s) - n : t[i] = s[n + i]
    OBVIOUS
  <1>2. n + 1 <= Len(s)
    BY <1>1
  <1>3. /\ u \in Seq(T) /\ Len(u) = Len(s) - (n + 1)
        /\ \A i \in 1 .. Len(s) - (n + 1) : u[i] = s[n + 1 + i]
    BY <1>2
  <1>4. /\ Tail(t) \in Seq(T) /\ Len(Tail(t)) = Len(s) - n - 1
        /\ \A i \in 1 .. Len(s) - n - 1 : Tail(t)[i] = t[i + 1]
        /\ Head(t) = t[1]
    <2> HIDE DEF t
    <2> QED BY <1>1
  <1>5. Len(Tail(t)) = Len(u) /\ \A i \in 1 .. Len(Tail(t)) : Tail(t)[i] = u[i]
    <2> HIDE DEF t, u
    <2> QED BY <1>1, <1>3, <1>4
  <1>6. Tail(t) = u
    <2> HIDE DEF t, u
    <2> QED BY <1>3, <1>4, <1>5, SeqEqual
  <1>7. Head(t) = s[n + 1]
    <2>1. 1 \in 1 .. Len(s) - n /\ n + 1 \in Nat
      BY <1>1, <1>2
    <2> HIDE DEF t
    <2> QED BY <1>1, <1>4, <2>1
  <1> HIDE DEF t, u
  <1> QED BY <1>2, <1>6, <1>7 DEF t, u

\* The samples of held chunks, handed to the player in one go.
LEMMA SamplesResult ==
    ASSUME NEW q \in Seq(Chunk)
    PROVE  /\ Samples(q) \in Seq(Nat)
           /\ Len(Samples(q)) = Len(q)
           /\ q = <<>> <=> Samples(q) = <<>>
           /\ \A c \in Chunk : Samples(Append(q, c)) = Append(Samples(q), c.samples)
  <1>1. Len(q) \in Nat /\ DOMAIN q = 1 .. Len(q) /\ \A i \in DOMAIN q : q[i].samples \in Nat
    <2>1. \A i \in 1 .. Len(q) : q[i] \in Chunk
      BY ElementOfSeq
    <2> QED BY <2>1, LenProperties DEF Chunk
  <1>2. Samples(q) \in Seq(Nat) /\ Len(Samples(q)) = Len(q) /\ DOMAIN Samples(q) = 1 .. Len(q)
    BY <1>1 DEF Samples
  <1>3. q = <<>> <=> Samples(q) = <<>>
    BY <1>1, <1>2, EmptySeq, SMTT(30)
  <1>4. ASSUME NEW c \in Chunk
        PROVE  Samples(Append(q, c)) = Append(Samples(q), c.samples)
    <2> DEFINE a == Append(q, c)
               s == Samples(a)
               t == Append(Samples(q), c.samples)
    <2>1. /\ a \in Seq(Chunk) /\ Len(a) = Len(q) + 1 /\ DOMAIN a = 1 .. Len(q) + 1
          /\ a[Len(q) + 1] = c /\ \A i \in 1 .. Len(q) : a[i] = q[i]
      BY <1>1, AppendProperties, LenProperties
    <2>2. c.samples \in Nat
      BY DEF Chunk
    <2>3. /\ DOMAIN s = 1 .. Len(q) + 1
          /\ \A i \in 1 .. Len(q) : s[i] = q[i].samples
          /\ s[Len(q) + 1] = c.samples
      <3> HIDE DEF a
      <3>1. s = [i \in DOMAIN a |-> a[i].samples]
        BY DEF Samples
      <3>2. Len(q) + 1 \in DOMAIN a /\ \A i \in 1 .. Len(q) : i \in DOMAIN a
        BY <1>1, <2>1
      <3> QED BY <2>1, <3>1, <3>2
    <2>4. s \in Seq(Nat) /\ Len(s) = Len(q) + 1
      <3>1. \A i \in 1 .. Len(q) + 1 : s[i] \in Nat
        BY <1>1, <2>2, <2>3
      <3>2. s = [i \in 1 .. Len(q) + 1 |-> s[i]]
        BY <2>3 DEF Samples
      <3> HIDE DEF s
      <3> QED BY <1>1, <3>1, <3>2
    <2>5. /\ t \in Seq(Nat) /\ Len(t) = Len(q) + 1 /\ t[Len(q) + 1] = c.samples
          /\ \A i \in 1 .. Len(q) : t[i] = q[i].samples
      <3>1. \A i \in 1 .. Len(q) : Samples(q)[i] = q[i].samples
        BY <1>1 DEF Samples
      <3> QED BY <1>2, <2>2, <3>1, AppendProperties
    <2> HIDE DEF s, t
    <2>6. \A i \in 1 .. Len(s) : s[i] = t[i]
      BY <1>1, <2>3, <2>4, <2>5
    <2>7. s = t
      BY <2>4, <2>5, <2>6, SeqEqual
    <2> QED BY <2>7 DEF s, t
  <1> QED BY <1>2, <1>3, <1>4

--------------------------------------------------------------------------------
(* Events, and the frames that are due.                                          *)

LEMMA EventKinds ==
    ASSUME NEW e \in Events
    PROVE  /\ e.ev \in {"StreamInfo", "VideoFrame", "AudioChunk", "Disconnected"}
           /\ e \in StreamInfo <=> e.ev = "StreamInfo"
           /\ e \in VideoFrame <=> e.ev = "VideoFrame"
           /\ e \in AudioChunk <=> e.ev = "AudioChunk"
           /\ e = Disconnected <=> e.ev = "Disconnected"
           /\ e \in VideoFrame \cup AudioChunk => e.pts \in Stamps
           /\ e \in AudioChunk => e.samples \in Nat
           /\ e \in StreamInfo => e.fps \in HostFps
  BY DEF Events, StreamInfo, VideoFrame, AudioChunk, Disconnected

LEMMA StampsAreNumbers ==
    \A p \in Stamps : p \in Nat /\ p \in Int /\ p # 0 /\ p >= Start /\ p <= MaxTime
  BY TimeAssumption DEF Stamps

\* advance_video finds a number of due frames: there is a first that is not.
LEMMA DueFramesExist ==
    ASSUME TypeOK
    PROVE  /\ DueFrames \in 0 .. Len(video_queue)
           /\ \A i \in 1 .. DueFrames : AudioPts >= video_queue[i]
  <1> DEFINE Q == video_queue
             Stop == {n \in Nat : n = Len(Q) \/ (n < Len(Q) /\ AudioPts < Q[n + 1])}
             Less == OpToRel(<, Nat)
  <1>1. /\ Len(Q) \in Nat /\ AudioPts \in Nat
        /\ \A i \in 1 .. Len(Q) : Q[i] \in Nat
    <2>1. Q \in Seq(Stamps)
      BY DEF TypeOK
    <2>2. Len(Q) \in Nat /\ \A i \in 1 .. Len(Q) : Q[i] \in Nat
      BY <2>1, StampsAreNumbers, LenProperties, ElementOfSeq
    <2>3. AudioPts \in Nat
      BY StampsAreNumbers DEF TypeOK, AudioPts
    <2> QED BY <2>2, <2>3
  <1>2. Stop \subseteq Nat /\ Len(Q) \in Stop
    BY <1>1
  <1>3. \E n \in Stop : \A m \in Stop : <<m, n>> \notin Less
    <2>1. IsWellFoundedOn(Less, Nat)
      BY NatLessThanWellFounded
    <2> HIDE DEF Less, Stop
    <2> QED BY <1>2, <2>1, WFMin
  <1>4. PICK n \in Stop : \A m \in Stop : <<m, n>> \notin Less
    BY <1>3
  <1>5. \A m \in Nat : m < n => m \notin Stop
    <2> SUFFICES ASSUME NEW m \in Nat, m < n, m \in Stop PROVE FALSE
      OBVIOUS
    <2>1. <<m, n>> \in Less
      BY <1>2 DEF OpToRel
    <2> QED BY <1>4, <2>1
  <1>6. n \in 0 .. Len(Q)
    BY <1>1
  <1>7. \A i \in 1 .. n : AudioPts >= Q[i]
    <2> SUFFICES ASSUME NEW i \in 1 .. n PROVE AudioPts >= Q[i]
      OBVIOUS
    <2>1. i - 1 \in Nat /\ i - 1 < n /\ i - 1 < Len(Q) /\ (i - 1) + 1 = i
      BY <1>1, <1>6
    <2>2. i - 1 \notin Stop
      BY <1>5, <2>1
    <2>3. ~(AudioPts < Q[i])
      <3> HIDE DEF Q
      <3> QED BY <2>1, <2>2
    <2> QED BY <1>1, <1>6, <2>3
  <1>8. n < Len(Q) => AudioPts < Q[n + 1]
    BY <1>1
  <1>9. \E k \in 0 .. Len(Q) : /\ \A i \in 1 .. k : AudioPts >= Q[i]
                               /\ k < Len(Q) => AudioPts < Q[k + 1]
    BY <1>6, <1>7, <1>8
  <1> QED BY <1>9 DEF DueFrames

\* Where the numbers of a state are numbers.
LEMMA Numbers ==
    ASSUME TypeOK
    PROVE  /\ clock \in Nat /\ clock # 0 /\ clock >= Start /\ clock <= MaxTime
           /\ Start \in Nat /\ Start # 0 /\ MaxTime \in Nat
           /\ gaps \in Nat /\ pushed \in Nat /\ played \in Nat
           /\ Len(recorded) \in Nat /\ DOMAIN recorded = 1 .. Len(recorded)
           /\ \A i \in DOMAIN recorded : recorded[i] \in Nat /\ recorded[i] >= Start
           /\ Len(chunks) \in Nat /\ DOMAIN chunks = 1 .. Len(chunks)
           /\ \A k \in DOMAIN chunks : chunks[k] \in Nat
           /\ Len(event_rx) \in Nat /\ DOMAIN event_rx = 1 .. Len(event_rx)
           /\ \A i \in DOMAIN event_rx :
                  /\ event_rx[i] \in Events
                  /\ event_rx[i].ev \in {"VideoFrame", "AudioChunk"} => event_rx[i].pts \in Nat
                  /\ IsChunk(i) => event_rx[i].samples \in Nat
           /\ \A k \in DOMAIN video_queue : video_queue[k] \in Nat
           /\ shown \in Nat /\ first_pts \in Nat /\ audio_base_pts \in Nat /\ AudioPts \in Nat
           /\ encoding["video"] \in Nat /\ encoding["audio"] \in Nat
  <1>1. /\ clock \in Nat /\ clock # 0 /\ clock >= Start /\ clock <= MaxTime
        /\ Start \in Nat /\ Start # 0 /\ MaxTime \in Nat
        /\ gaps \in Nat /\ pushed \in Nat /\ played \in Nat
    BY StampsAreNumbers, TimeAssumption DEF TypeOK
  <1>2. ASSUME NEW T, NEW q \in Seq(T)
        PROVE  Len(q) \in Nat /\ DOMAIN q = 1 .. Len(q) /\ \A i \in DOMAIN q : q[i] \in T
    BY LenProperties, ElementOfSeq
  <1>3. /\ Len(recorded) \in Nat /\ DOMAIN recorded = 1 .. Len(recorded)
        /\ \A i \in DOMAIN recorded : recorded[i] \in Nat /\ recorded[i] >= Start
    <2>1. recorded \in Seq(Stamps)
      BY DEF TypeOK
    <2> QED BY <1>2, <2>1, StampsAreNumbers
  <1>4. /\ Len(chunks) \in Nat /\ DOMAIN chunks = 1 .. Len(chunks)
        /\ \A k \in DOMAIN chunks : chunks[k] \in Nat
    <2>1. chunks \in Seq(Nat)
      BY DEF TypeOK
    <2> QED BY <1>2, <2>1
  <1>5. /\ Len(event_rx) \in Nat /\ DOMAIN event_rx = 1 .. Len(event_rx)
        /\ \A i \in DOMAIN event_rx :
               /\ event_rx[i] \in Events
               /\ event_rx[i].ev \in {"VideoFrame", "AudioChunk"} => event_rx[i].pts \in Nat
               /\ IsChunk(i) => event_rx[i].samples \in Nat
    <2>1. event_rx \in Seq(Events)
      BY DEF TypeOK
    <2>2. \A i \in DOMAIN event_rx : event_rx[i] \in Events
      BY <1>2, <2>1
    <2>3. \A e \in Events : /\ e.ev \in {"VideoFrame", "AudioChunk"} => e.pts \in Nat
                            /\ e.ev = "AudioChunk" => e.samples \in Nat
      BY EventKinds, StampsAreNumbers
    <2> QED BY <1>2, <2>1, <2>2, <2>3 DEF IsChunk
  <1>6. \A k \in DOMAIN video_queue : video_queue[k] \in Nat
    <2>1. video_queue \in Seq(Stamps)
      BY DEF TypeOK
    <2> QED BY <1>2, <2>1, StampsAreNumbers
  <1>7. /\ shown \in Nat /\ first_pts \in Nat /\ audio_base_pts \in Nat
        /\ encoding["video"] \in Nat /\ encoding["audio"] \in Nat
    <2>1. \A p \in {0} \cup Stamps : p \in Nat
      BY StampsAreNumbers
    <2>2. "video" \in Media /\ "audio" \in Media
      BY DEF Media
    <2> QED BY <2>1, <2>2 DEF TypeOK
  <1>8. AudioPts \in Nat
    BY <1>1, <1>7 DEF AudioPts
  <1> QED BY <1>1, <1>3, <1>4, <1>5, <1>6, <1>7, <1>8

--------------------------------------------------------------------------------
(* Initial states.                                                               *)

LEMMA InitIInv == Init => IInv
  <1> SUFFICES ASSUME Init PROVE IInv
    OBVIOUS
  <1> USE DEF Init
  <1>1. PICK info \in StreamInfo : event_rx = <<info>>
    OBVIOUS
  <1>2. info \in Events /\ info.ev = "StreamInfo"
    BY DEF Events, StreamInfo
  <1>3. /\ event_rx \in Seq(Events) /\ Len(event_rx) = 1
        /\ \A i \in DOMAIN event_rx : i = 1 /\ event_rx[i].ev = "StreamInfo"
    BY <1>1, <1>2
  <1>4. /\ clock = Start /\ Start \in Nat /\ Start # 0
        /\ encoding["video"] = 0 /\ encoding["audio"] = 0 /\ encoding \in [Media -> {0} \cup Stamps]
    BY TimeAssumption DEF Media
  <1>5. TypeOK
    <2>1. clock \in Stamps /\ gaps \in Nat /\ pushed \in Nat /\ video_queue_cap \in Nat \ {0}
      BY TimeAssumption, SizeAssumption DEF Stamps
    <2>2. video_queue \in Seq(Stamps) /\ Len(video_queue) <= video_queue_cap
      BY <2>1
    <2>3. /\ recorded \in Seq(Stamps) /\ chunks \in Seq(Nat) /\ first_pts \in {0} \cup Stamps
          /\ audio_prebuf \in Seq(Chunk) /\ acc \in Seq(Nat)
          /\ played \in Nat /\ audio_base_pts \in {0} \cup Stamps /\ unsent \subseteq PerTick
          /\ prebuffer_target \in Nat \ {0} /\ shown \in {0} \cup Stamps
      OBVIOUS
    <2> QED BY <1>3, <1>4, <2>1, <2>2, <2>3 DEF TypeOK
  <1>6. PhaseInv
    BY <1>3 DEF PhaseInv
  <1>7. PlayerInv
    BY DEF PlayerInv, AudioPts, Listening, Samples
  <1>8. RecordInv
    <2>1. HostSound => "audio" \in unsent
      BY DEF PerTick, Media
    <2> QED BY <1>4, <2>1, EmptySequence DEF RecordInv
  <1>9. ChannelInv
    BY <1>3, EmptySequence DEF ChannelInv, IsChunk
  <1>10. FrameInv
    BY <1>3, <1>4, EmptySequence DEF FrameInv, IsFrame, Captured, Pushed
  <1> QED BY <1>5, <1>6, <1>7, <1>8, <1>9, <1>10 DEF IInv

--------------------------------------------------------------------------------
(* The host and the network thread.                                              *)

\* The host's clock and counts: a chunk is recorded, time passes, a chunk is taken
\* from the loopback channel, pushed.
LEMMA SourceRecords ==
    ASSUME TypeOK, RecordInv, Source
    PROVE  RecordInv' /\ recorded' \in Seq(Stamps) /\ Len(recorded') >= Len(recorded)
  <1>1. /\ clock \in Nat /\ clock # 0 /\ Start \in Nat /\ gaps \in Nat /\ pushed \in Nat
        /\ Len(recorded) \in Nat /\ DOMAIN recorded = 1 .. Len(recorded)
        /\ \A i \in DOMAIN recorded : recorded[i] \in Nat /\ recorded[i] >= Start
        /\ recorded \in Seq(Stamps) /\ clock \in Stamps
    BY Numbers DEF TypeOK
  <1>2. "audio" \in unsent => HostSound
    BY DEF TypeOK, PerTick
  <1>3. CASE Record
    <2>1. /\ "audio" \in unsent /\ recorded' = Append(recorded, clock) /\ HostSound
          /\ UNCHANGED <<clock, gaps, pushed, encoding>> /\ "audio" \notin unsent'
      BY <1>2, <1>3 DEF Record
    <2>2. /\ recorded' \in Seq(Stamps) /\ Len(recorded') = Len(recorded) + 1
          /\ DOMAIN recorded' = DOMAIN recorded \cup {Len(recorded) + 1}
          /\ \A i \in DOMAIN recorded : /\ i \in Nat /\ 1 <= i /\ i <= Len(recorded)
                                        /\ recorded'[i] = recorded[i]
          /\ recorded'[Len(recorded) + 1] = clock
      BY <1>1, <2>1, AppendResult
    <2>3. clock = Start + Len(recorded) + gaps
      BY <2>1 DEF RecordInv
    <2>4. ASSUME NEW i \in DOMAIN recorded', NEW j \in DOMAIN recorded', i <= j
          PROVE  j - i <= recorded'[j] - recorded'[i]
      <3>1. CASE j \in DOMAIN recorded
        <4>1. i \in DOMAIN recorded
          BY <1>1, <2>2, <2>4, <3>1
        <4> QED BY <2>2, <2>4, <3>1, <4>1 DEF RecordInv
      <3>2. CASE j = Len(recorded) + 1 /\ i = Len(recorded) + 1
        BY <1>1, <2>2, <3>2
      <3>3. CASE j = Len(recorded) + 1 /\ i \in DOMAIN recorded
        <4>1. recorded[i] <= Start + i - 1 + gaps /\ recorded[i] < clock /\ recorded[i] \in Nat
          BY <1>1, <2>1, <3>3 DEF RecordInv
        <4>2. Len(recorded) \in DOMAIN recorded /\ i <= Len(recorded) /\ i \in Nat
          BY <1>1, <3>3
        <4>3. Len(recorded) - i <= recorded[Len(recorded)] - recorded[i]
          BY <3>3, <4>2 DEF RecordInv
        <4>4. recorded[Len(recorded)] < clock /\ recorded[Len(recorded)] \in Nat
          BY <1>1, <2>1, <4>2 DEF RecordInv
        <4>5. Len(recorded) + 1 - i <= clock - recorded[i]
          BY <1>1, <4>1, <4>2, <4>3, <4>4, SMTT(30)
        <4> QED BY <2>2, <3>3, <4>5
      <3> QED BY <2>2, <3>1, <3>2, <3>3
    <2>5. ASSUME NEW i \in DOMAIN recorded'
          PROVE  recorded'[i] <= Start + i - 1 + gaps /\ recorded'[i] <= clock
      <3>1. CASE i \in DOMAIN recorded
        BY <2>2, <3>1 DEF RecordInv
      <3>2. CASE i = Len(recorded) + 1
        <4>1. Start + (Len(recorded) + 1) - 1 + gaps = Start + Len(recorded) + gaps
          BY <1>1
        <4> QED BY <1>1, <2>2, <2>3, <3>2, <4>1
      <3> QED BY <2>2, <3>1, <3>2
    <2>6. clock = Start + (Len(recorded) + 1) + gaps - 1
      BY <1>1, <2>3
    <2>7. pushed <= Len(recorded) + 1 /\ (encoding["audio"] # 0 => pushed < Len(recorded) + 1)
      BY <1>1 DEF RecordInv
    <2>8. Len(recorded) + 1 >= Len(recorded)
      BY <1>1
    <2> QED BY <2>1, <2>2, <2>4, <2>5, <2>6, <2>7, <2>8 DEF RecordInv
  <1>4. CASE Tick
    <2>1. /\ clock' = clock + 1 /\ UNCHANGED <<recorded, pushed, encoding>>
          /\ "audio" \in unsent => gaps' = gaps + 1
          /\ "audio" \notin unsent => gaps' = gaps
          /\ HostSound => "audio" \in unsent'
      BY <1>4 DEF Tick, PerTick, Media
    <2>2. gaps' \in Nat /\ gaps <= gaps'
      BY <1>1, <2>1
    <2>3. HostSound => clock' = Start + Len(recorded) + gaps'
      <3>1. CASE "audio" \in unsent
        <4>1. HostSound => clock = Start + Len(recorded) + gaps
          BY <3>1 DEF RecordInv
        <4> QED BY <1>1, <2>1, <3>1, <4>1
      <3>2. CASE "audio" \notin unsent
        <4>1. HostSound => clock = Start + Len(recorded) + gaps - 1
          BY <3>2 DEF RecordInv
        <4> QED BY <1>1, <2>1, <3>2, <4>1
      <3> QED BY <3>1, <3>2
    <2>4. ASSUME NEW i \in DOMAIN recorded
          PROVE  recorded[i] <= Start + i - 1 + gaps' /\ recorded[i] <= clock' /\ recorded[i] < clock'
      <3>1. recorded[i] <= Start + i - 1 + gaps /\ recorded[i] <= clock
        BY DEF RecordInv
      <3>2. i \in Nat /\ recorded[i] \in Nat
        BY <1>1
      <3> QED BY <1>1, <2>1, <2>2, <3>1, <3>2
    <2>5. "audio" \in unsent' => HostSound
      BY <1>4 DEF Tick, PerTick
    <2>6. HostSound => ~("audio" \notin unsent')
      BY <2>1
    <2> QED BY <1>1, <2>1, <2>3, <2>4, <2>6 DEF RecordInv
  <1>5. CASE StampFrame \/ SendFrame \/ EncodeFails \/ StampChunk \/ SendChunk \/ StreamEnds
    <2>1. /\ UNCHANGED <<clock, recorded, gaps>>
          /\ "audio" \in unsent' <=> "audio" \in unsent
      BY <1>5 DEF StampFrame, SendFrame, EncodeFails, StampChunk, SendChunk, StreamEnds, host, device
    <2>2. encoding \in [Media -> {0} \cup Stamps] /\ "audio" \in Media /\ "video" \in Media
      BY DEF TypeOK, Media
    <2>3. pushed' <= Len(recorded) /\ (encoding'["audio"] # 0 => pushed' < Len(recorded))
      <3>1. CASE SendChunk
        <4>1. pushed < Len(recorded) /\ pushed' = pushed + 1 /\ encoding'["audio"] = 0
          BY <2>2, <3>1 DEF SendChunk, RecordInv
        <4> QED BY <1>1, <4>1
      <3>2. CASE StampChunk
        <4>1. pushed < Len(recorded) /\ pushed' = pushed
          BY <3>2 DEF StampChunk
        <4> QED BY <1>1, <4>1
      <3>3. CASE StampFrame \/ SendFrame \/ EncodeFails \/ StreamEnds
        <4>1. pushed' = pushed /\ encoding'["audio"] = encoding["audio"]
          BY <2>2, <3>3 DEF StampFrame, SendFrame, EncodeFails, StreamEnds, host
        <4> QED BY <4>1 DEF RecordInv
      <3> QED BY <1>5, <3>1, <3>2, <3>3
    <2> QED BY <1>1, <2>1, <2>3 DEF RecordInv
  <1> QED BY <1>3, <1>4, <1>5 DEF Source

\* What the network thread appends, and when.
LEMMA SourceAppends ==
    ASSUME TypeOK, Source
    PROVE  \/ event_rx' = event_rx /\ pushed' = pushed
           \/ \E e \in Events :
                  /\ event_rx' = Append(event_rx, e) /\ e.ev # "StreamInfo"
                  /\ UNCHANGED <<clock, unsent>>
                  /\ e.ev = "VideoFrame" => /\ e.pts = encoding["video"] /\ encoding["video"] # 0
                                            /\ encoding'["video"] = 0
                  /\ e.ev # "VideoFrame" => encoding'["video"] = encoding["video"]
                  /\ e.ev = "AudioChunk" => e.samples = pushed + 1 /\ pushed' = pushed + 1
                  /\ e.ev # "AudioChunk" => pushed' = pushed
  <1>0. /\ encoding \in [Media -> {0} \cup Stamps] /\ "audio" \in Media /\ "video" \in Media
        /\ pushed + 1 \in Nat
    <2>1. pushed \in Nat
      BY DEF TypeOK
    <2> QED BY <2>1 DEF TypeOK, Media
  <1>1. CASE Record \/ Tick \/ StampFrame \/ EncodeFails \/ StampChunk
    BY <1>1 DEF Record, Tick, StampFrame, EncodeFails, StampChunk
  <1>2. CASE SendFrame
    <2> DEFINE e == [ev |-> "VideoFrame", pts |-> encoding["video"]]
    <2>1. e \in Events
      <3>1. encoding["video"] \in Stamps
        BY <1>0, <1>2 DEF SendFrame
      <3> QED BY <3>1 DEF Events, VideoFrame
    <2>2. /\ event_rx' = Append(event_rx, e) /\ UNCHANGED <<clock, unsent, pushed>>
          /\ encoding["video"] # 0 /\ encoding'["video"] = 0
      BY <1>0, <1>2 DEF SendFrame, device
    <2> QED BY <2>1, <2>2
  <1>3. CASE SendChunk
    <2> DEFINE e == [ev |-> "AudioChunk", pts |-> encoding["audio"], samples |-> pushed + 1]
    <2>1. e \in Events
      <3>1. encoding["audio"] \in Stamps
        BY <1>0, <1>3 DEF SendChunk
      <3> QED BY <1>0, <3>1 DEF Events, AudioChunk
    <2>2. /\ event_rx' = Append(event_rx, e) /\ UNCHANGED <<clock, unsent>>
          /\ pushed' = pushed + 1 /\ encoding'["video"] = encoding["video"]
      BY <1>0, <1>3 DEF SendChunk, device
    <2> QED BY <2>1, <2>2
  <1>4. CASE StreamEnds
    <2>1. Disconnected \in Events /\ Disconnected.ev = "Disconnected"
      BY DEF Events, Disconnected
    <2>2. event_rx' = Append(event_rx, Disconnected) /\ UNCHANGED <<clock, unsent, pushed, encoding>>
      BY <1>4 DEF StreamEnds, host, device
    <2> QED BY <2>1, <2>2
  <1> QED BY <1>1, <1>2, <1>3, <1>4 DEF Source

\* The frame that is being encoded is newer than every frame pushed.
LEMMA SourceCaptures ==
    ASSUME TypeOK, FrameInv, Source
    PROVE  /\ Captured(encoding["video"])'
           /\ \A p \in Int : Pushed(p) => Pushed(p)'
           /\ \A p \in Int : encoding["video"] # 0 /\ encoding'["video"] = 0 /\ p = encoding["video"]
                                => Pushed(p)'
  <1>1. /\ clock \in Nat /\ clock # 0 /\ encoding["video"] \in Nat
        /\ encoding \in [Media -> {0} \cup Stamps] /\ "audio" \in Media /\ "video" \in Media
    BY Numbers DEF TypeOK, Media
  <1>2. Captured(encoding["video"])
    BY DEF FrameInv
  <1>3. CASE StampFrame
    <2>1. /\ encoding["video"] = 0 /\ encoding'["video"] = clock /\ "video" \in unsent
          /\ "video" \notin unsent' /\ clock' = clock
      BY <1>1, <1>3 DEF StampFrame
    <2> QED BY <1>1, <2>1 DEF Captured, Pushed
  <1>4. CASE ~StampFrame
    <2>1. \/ clock' = clock /\ ("video" \in unsent' <=> "video" \in unsent)
          \/ clock' = clock + 1
      BY <1>4 DEF Source, Record, Tick, SendFrame, EncodeFails, StampChunk, SendChunk,
                  StreamEnds, host, device
    <2>2. encoding'["video"] = encoding["video"] \/ encoding'["video"] = 0
      BY <1>1, <1>4 DEF Source, Record, Tick, SendFrame, EncodeFails, StampChunk, SendChunk,
                        StreamEnds, host
    <2>3. \A p \in Int : Captured(p) => Captured(p)'
      BY <1>1, <2>1 DEF Captured
    <2>4. Captured(encoding["video"])'
      <3>1. CASE encoding'["video"] = encoding["video"]
        BY <1>1, <1>2, <2>3, <3>1 DEF Captured
      <3>2. CASE encoding'["video"] = 0
        <4>1. 0 < clock'
          BY <1>1, <2>1
        <4> QED BY <3>2, <4>1 DEF Captured
      <3> QED BY <2>2, <3>1, <3>2
    <2>5. \A p \in Int : Pushed(p) => Pushed(p)'
      BY <2>2, <2>3 DEF Pushed
    <2>6. \A p \in Int : encoding["video"] # 0 /\ encoding'["video"] = 0 /\ p = encoding["video"]
                            => Pushed(p)'
      BY <1>2, <2>3 DEF Pushed
    <2> QED BY <2>4, <2>5, <2>6
  <1> QED BY <1>3, <1>4

LEMMA SourceIInv ==
    ASSUME IInv, Source
    PROVE  IInv'
  <1>0. TypeOK /\ PhaseInv /\ PlayerInv /\ RecordInv /\ ChannelInv /\ FrameInv
    BY DEF IInv
  <1>1. UNCHANGED <<received, pc, disconnected, buffer, video_queue, audio_prebuf, shown, due, sound>>
    BY DEF Source
  <1>2. RecordInv' /\ recorded' \in Seq(Stamps)
    BY <1>0, SourceRecords
  <1>3. PlayerInv'
    BY <1>0, <1>1 DEF PlayerInv, AudioPts, Listening, received, buffer, sound
  <1>4. /\ Captured(encoding["video"])'
        /\ \A p \in Int : Pushed(p) => Pushed(p)'
        /\ \A p \in Int : encoding["video"] # 0 /\ encoding'["video"] = 0 /\ p = encoding["video"]
                             => Pushed(p)'
    BY <1>0, SourceCaptures
  <1>5. /\ clock' \in Stamps /\ unsent' \subseteq PerTick /\ gaps' \in Nat /\ pushed' \in Nat
        /\ encoding' \in [Media -> {0} \cup Stamps]
    <2>1. /\ clock \in Stamps /\ unsent \subseteq PerTick /\ gaps \in Nat /\ pushed \in Nat
          /\ encoding \in [Media -> {0} \cup Stamps]
      BY <1>0 DEF TypeOK
    <2>2. gaps + 1 \in Nat /\ pushed + 1 \in Nat
      BY <2>1
    <2>3. clock < MaxTime => clock + 1 \in Stamps
      BY <2>1, TimeAssumption DEF Stamps
    <2>4. CASE Tick
      BY <2>1, <2>2, <2>3, <2>4 DEF Tick
    <2>5. CASE ~Tick
      BY <2>1, <2>2, <2>5 DEF Source, Record, StampFrame, SendFrame, EncodeFails, StampChunk,
                              SendChunk, StreamEnds, host, device
    <2> QED BY <2>4, <2>5
  <1>6. /\ Len(chunks) \in Nat /\ pushed \in Nat
        /\ \A k \in DOMAIN video_queue : video_queue[k] \in Int
        /\ shown \in Int /\ encoding["video"] \in Int
        /\ event_rx \in Seq(Events)
        /\ Len(event_rx) \in Nat /\ DOMAIN event_rx = 1 .. Len(event_rx)
        /\ \A i \in DOMAIN event_rx : /\ IsFrame(i) => event_rx[i].pts \in Int
                                      /\ IsChunk(i) => event_rx[i].samples \in Nat
    <2>1. \A n \in Nat : n \in Int
      OBVIOUS
    <2>2. event_rx \in Seq(Events)
      BY <1>0 DEF TypeOK
    <2>3. /\ Len(chunks) \in Nat /\ pushed \in Nat
          /\ \A k \in DOMAIN video_queue : video_queue[k] \in Nat
          /\ shown \in Nat /\ encoding["video"] \in Nat
          /\ Len(event_rx) \in Nat /\ DOMAIN event_rx = 1 .. Len(event_rx)
          /\ \A i \in DOMAIN event_rx :
                 /\ event_rx[i].ev \in {"VideoFrame", "AudioChunk"} => event_rx[i].pts \in Nat
                 /\ IsChunk(i) => event_rx[i].samples \in Nat
      BY <1>0, Numbers
    <2> QED BY <2>1, <2>2, <2>3 DEF IsFrame
  <1>7. CASE event_rx' = event_rx /\ pushed' = pushed
    <2>1. TypeOK'
      BY <1>0, <1>1, <1>2, <1>5, <1>7 DEF TypeOK, received, buffer, sound
    <2>2. PhaseInv'
      BY <1>0, <1>1, <1>7 DEF PhaseInv, received, buffer, sound
    <2>3. ChannelInv'
      BY <1>0, <1>1, <1>7 DEF ChannelInv, IsChunk, received
    <2>4. FrameInv'
      BY <1>0, <1>1, <1>4, <1>6, <1>7 DEF FrameInv, IsFrame
    <2> QED BY <1>2, <1>3, <2>1, <2>2, <2>3, <2>4 DEF IInv
  <1>8. ASSUME NEW e \in Events,
               event_rx' = Append(event_rx, e), e.ev # "StreamInfo",
               e.ev = "VideoFrame" => /\ e.pts = encoding["video"] /\ encoding["video"] # 0
                                      /\ encoding'["video"] = 0,
               e.ev = "AudioChunk" => e.samples = pushed + 1 /\ pushed' = pushed + 1,
               e.ev # "AudioChunk" => pushed' = pushed
        PROVE  IInv'
    <2> DEFINE L == Len(event_rx)
    <2>1. /\ event_rx' \in Seq(Events)
          /\ Len(event_rx') = L + 1
          /\ DOMAIN event_rx' = DOMAIN event_rx \cup {L + 1}
          /\ \A i \in DOMAIN event_rx : /\ i \in Nat /\ 1 <= i /\ i <= L
                                        /\ event_rx'[i] = event_rx[i]
          /\ event_rx'[L + 1] = e
      BY <1>6, <1>8, AppendResult
    <2>2. \A i \in DOMAIN event_rx : ~(L + 1 < i) /\ ~(L + 1 < L + 1)
      BY <1>6
    <2>3. TypeOK'
      BY <1>0, <1>1, <1>2, <1>5, <2>1 DEF TypeOK, received, buffer, sound
    <2>4. PhaseInv'
      BY <1>0, <1>1, <1>8, <2>1 DEF PhaseInv, received, buffer, sound
    <2>5. FrameInv'
      <3>1. \A p \in Int : e.ev = "VideoFrame" /\ Pushed(p) => p < e.pts
        BY <1>8 DEF Pushed
      <3>2. e.ev = "VideoFrame" => Pushed(e.pts)' /\ e.pts \in Int
        BY <1>4, <1>6, <1>8
      <3> HIDE DEF L
      <3> QED BY <1>0, <1>1, <1>4, <1>6, <2>1, <2>2, <3>1, <3>2 DEF FrameInv, IsFrame
    <2>6. ChannelInv'
      <3>1. Len(chunks) <= pushed /\ (e.ev = "AudioChunk" => Len(chunks) < e.samples)
        BY <1>0, <1>6, <1>8 DEF ChannelInv
      <3>2. pushed <= pushed'
        BY <1>6, <1>8
      <3>3. ASSUME NEW i \in DOMAIN event_rx', IsChunk(i)'
            PROVE  /\ Len(chunks) < event_rx'[i].samples /\ event_rx'[i].samples <= pushed'
                   /\ \A j \in DOMAIN event_rx' :
                          i < j /\ IsChunk(j)' => event_rx'[i].samples < event_rx'[j].samples
        <4>1. CASE i \in DOMAIN event_rx
          <5>1. IsChunk(i) /\ event_rx'[i] = event_rx[i]
            BY <2>1, <3>3, <4>1 DEF IsChunk
          <5>2. /\ Len(chunks) < event_rx[i].samples /\ event_rx[i].samples <= pushed
                /\ event_rx[i].samples \in Nat
            BY <1>0, <1>6, <4>1, <5>1 DEF ChannelInv
          <5>3. event_rx[i].samples <= pushed'
            BY <1>6, <1>8, <5>2
          <5>4. \A j \in DOMAIN event_rx :
                    i < j /\ IsChunk(j)' => event_rx'[i].samples < event_rx'[j].samples
            BY <1>0, <2>1, <4>1, <5>1 DEF ChannelInv, IsChunk
          <5>5. e.ev = "AudioChunk" => event_rx[i].samples < e.samples
            BY <1>6, <1>8, <5>2
          <5> QED BY <2>1, <5>1, <5>2, <5>3, <5>4, <5>5 DEF IsChunk
        <4>2. CASE i = L + 1
          <5>1. e.ev = "AudioChunk" /\ event_rx'[i] = e
            BY <2>1, <3>3, <4>2 DEF IsChunk
          <5>2. e.samples = pushed' /\ pushed' \in Nat
            BY <1>5, <1>8, <5>1
          <5> QED BY <2>1, <2>2, <3>1, <4>2, <5>1, <5>2
        <4> QED BY <2>1, <4>1, <4>2
      <3>4. ASSUME NEW n \in Nat, Len(chunks) < n, n <= pushed'
            PROVE  \E i \in DOMAIN event_rx' : IsChunk(i)' /\ event_rx'[i].samples = n
        <4>1. CASE n <= pushed
          <5>1. PICK i \in DOMAIN event_rx : IsChunk(i) /\ event_rx[i].samples = n
            BY <1>0, <3>4, <4>1 DEF ChannelInv
          <5> QED BY <2>1, <5>1 DEF IsChunk
        <4>2. CASE ~(n <= pushed)
          <5>1. e.ev = "AudioChunk" /\ n = e.samples
            BY <1>6, <1>8, <3>4, <4>2
          <5> QED BY <2>1, <5>1 DEF IsChunk
        <4> QED BY <4>1, <4>2
      <3>5. Len(chunks) <= pushed'
        BY <1>6, <1>8, <3>1
      <3>6. chunks' = chunks
        BY <1>1 DEF received
      <3> HIDE DEF L
      <3> QED BY <1>0, <3>3, <3>4, <3>5, <3>6 DEF ChannelInv
    <2> QED BY <1>2, <1>3, <2>3, <2>4, <2>5, <2>6 DEF IInv
  <1> QED BY <1>0, <1>7, <1>8, SourceAppends

--------------------------------------------------------------------------------
(* Steps that neither the host nor the channel knows of.                         *)

LEMMA StampsUntouched ==
    ASSUME RecordInv, ChannelInv, FrameInv,
           UNCHANGED <<host, event_rx, received, video_queue, shown>>
    PROVE  RecordInv' /\ ChannelInv' /\ FrameInv'
  <1>1. UNCHANGED <<clock, unsent, recorded, gaps, pushed, encoding, event_rx, chunks,
                    video_queue, shown>>
    BY DEF host, device, received
  <1>2. RecordInv'
    BY <1>1 DEF RecordInv
  <1>3. ChannelInv'
    BY <1>1 DEF ChannelInv, IsChunk
  <1>4. FrameInv'
    BY <1>1 DEF FrameInv, IsFrame, Pushed, Captured
  <1> QED BY <1>2, <1>3, <1>4

--------------------------------------------------------------------------------
(* The player's thread and its callback.                                         *)

LEMMA DeviceIInv ==
    ASSUME IInv, Device
    PROVE  IInv'
  <1>0. TypeOK /\ PhaseInv /\ PlayerInv /\ RecordInv /\ ChannelInv /\ FrameInv
    BY DEF IInv
  <1> USE DEF Device, DeviceWorks, BesideTheWindow
  <1>1. UNCHANGED <<host, event_rx, received, pc, disconnected, buffer, video_queue,
                    audio_prebuf, shown, due, audio_base_pts>>
    BY DEF StreamPlays, DeviceFails, DeviceStalls, Callback
  <1>2. player \in {"opening", "running"} /\ player' \in {"running", "stalled", "dead"}
    BY DEF StreamPlays, DeviceFails, DeviceStalls, Callback
  <1>3. ~prebuffering
    BY <1>0, <1>2 DEF PhaseInv
  <1>4. PhaseInv' /\ RecordInv' /\ ChannelInv' /\ FrameInv'
    <2>1. PhaseInv'
      BY <1>0, <1>1, <1>3 DEF PhaseInv, received, buffer
    <2> QED BY <1>0, <1>1, <2>1, StampsUntouched
  <1>5. CASE StreamPlays \/ DeviceFails \/ DeviceStalls
    <2>1. TypeOK'
      <3>1. acc' \in Seq(Nat) /\ played' = played
        <4>1. acc \in Seq(Nat) /\ <<>> \in Seq(Nat)
          BY <1>0 DEF TypeOK
        <4> QED BY <1>5, <4>1 DEF StreamPlays, DeviceFails, DeviceStalls
      <3> QED BY <1>0, <1>1, <1>2, <3>1 DEF TypeOK, host, device, received, buffer
    <2>2. PlayerInv'
      <3>1. /\ played' = played
            /\ (player' = "dead" /\ acc' = <<>>) \/ (player' \in {"running", "stalled"} /\ acc' = acc)
        BY <1>5 DEF StreamPlays, DeviceFails, DeviceStalls
      <3> QED BY <1>0, <1>1, <1>2, <1>3, <3>1
              DEF PlayerInv, AudioPts, Listening, received, buffer
    <2> QED BY <1>4, <2>1, <2>2 DEF IInv
  <1>6. CASE Callback
    <2>1. /\ chunks \in Seq(Nat) /\ acc \in Seq(Nat) /\ acc # <<>>
          /\ played \in Nat /\ played' = played + 1 /\ acc' = Tail(acc) /\ player' = player
          /\ player = "running"
      BY <1>0, <1>6 DEF TypeOK, Callback
    <2>2. played <= Len(chunks) /\ acc = SubSeq(chunks, played + 1, Len(chunks))
      BY <1>0, <1>2 DEF PlayerInv, Listening
    <2>3. played \in 0 .. Len(chunks) /\ Len(chunks) \in Nat
      BY <2>1, <2>2, LenProperties
    <2>4. played + 1 <= Len(chunks) /\ acc' = SubSeq(chunks, played + 2, Len(chunks))
      BY <2>1, <2>2, <2>3, TailOfSubSeq
    <2>5. TypeOK'
      <3>1. acc' \in Seq(Nat) /\ played' \in Nat
        BY <2>1, TailResult
      <3> QED BY <1>0, <1>1, <2>1, <3>1 DEF TypeOK, host, device, received, buffer
    <2>6. Listening' => played' <= Len(chunks') /\ acc' = SubSeq(chunks', played' + 1, Len(chunks'))
      <3>1. (played + 1) + 1 = played + 2
        BY <2>1
      <3> QED BY <1>1, <2>1, <2>4, <3>1 DEF received
    <2>7. shown' <= AudioPts'
      <3>1. shown <= audio_base_pts + played
        BY <1>0, <2>1 DEF PlayerInv, AudioPts
      <3>2. shown \in Nat /\ audio_base_pts \in Nat
        BY <1>0, Numbers
      <3>3. shown <= audio_base_pts + (played + 1)
        BY <2>1, <3>1, <3>2
      <3> QED BY <1>1, <2>1, <3>3 DEF AudioPts
    <2>8. PlayerInv'
      BY <1>0, <1>1, <1>3, <2>1, <2>6, <2>7 DEF PlayerInv, received, buffer
    <2> QED BY <1>4, <2>5, <2>8 DEF IInv
  <1> QED BY <1>5, <1>6

--------------------------------------------------------------------------------
(* The turn: an event is drained.                                                *)

\* What remains true of the channel when its first event is taken.
LEMMA ChannelTail ==
    ASSUME IInv, DrainEvent
    PROVE  /\ Head(event_rx) = event_rx[1] /\ event_rx[1] \in Events
           /\ event_rx' \in Seq(Events)
           /\ 1 \in DOMAIN event_rx
           /\ \A i \in DOMAIN event_rx' : /\ i \in Nat /\ 1 <= i /\ i + 1 \in DOMAIN event_rx
                                          /\ i + 1 # 1
                                          /\ event_rx'[i] = event_rx[i + 1]
           /\ \A i \in DOMAIN event_rx : i # 1 => i - 1 \in DOMAIN event_rx' /\ (i - 1) + 1 = i
           /\ \A i \in DOMAIN event_rx' : event_rx'[i].ev # "StreamInfo"
  <1>1. event_rx \in Seq(Events) /\ event_rx # <<>> /\ event_rx' = Tail(event_rx)
    BY DEF IInv, TypeOK, DrainEvent
  <1>2. /\ 1 \in DOMAIN event_rx /\ Head(event_rx) = event_rx[1] /\ event_rx[1] \in Events
        /\ event_rx' \in Seq(Events)
        /\ Len(event_rx') = Len(event_rx) - 1 /\ Len(event_rx) \in Nat /\ Len(event_rx') \in Nat
        /\ \A i \in DOMAIN event_rx' : /\ i \in Nat /\ i >= 1 /\ i + 1 \in DOMAIN event_rx
                                       /\ event_rx'[i] = event_rx[i + 1]
    BY <1>1, TailResult
  <1>3. \A i \in DOMAIN event_rx' : event_rx'[i].ev # "StreamInfo"
    <2> SUFFICES ASSUME NEW i \in DOMAIN event_rx', event_rx'[i].ev = "StreamInfo" PROVE FALSE
      OBVIOUS
    <2>1. i + 1 \in DOMAIN event_rx /\ event_rx[i + 1].ev = "StreamInfo" /\ i + 1 # 1
      BY <1>2
    <2> QED BY <2>1 DEF IInv, PhaseInv
  <1>4. \A i \in DOMAIN event_rx : i # 1 => i - 1 \in DOMAIN event_rx' /\ (i - 1) + 1 = i
    <2>1. DOMAIN event_rx = 1 .. Len(event_rx) /\ DOMAIN event_rx' = 1 .. Len(event_rx')
      BY <1>1, <1>2, LenProperties
    <2> QED BY <1>2, <2>1
  <1> QED BY <1>2, <1>3, <1>4

LEMMA DrainIInv ==
    ASSUME IInv, DrainEvent
    PROVE  IInv'
  <1>0. TypeOK /\ PhaseInv /\ PlayerInv /\ RecordInv /\ ChannelInv /\ FrameInv
    BY DEF IInv
  <1> DEFINE e == event_rx[1]
  <1>1. /\ UNCHANGED <<clock, unsent, recorded, gaps, pushed, encoding, pc, shown, due>>
        /\ pc = "draining"
    BY DEF DrainEvent, host, device
  <1>2. /\ Head(event_rx) = e /\ e \in Events /\ event_rx' \in Seq(Events)
        /\ 1 \in DOMAIN event_rx
        /\ \A i \in DOMAIN event_rx' : /\ i \in Nat /\ 1 <= i /\ i + 1 \in DOMAIN event_rx
                                       /\ i + 1 # 1
                                       /\ event_rx'[i] = event_rx[i + 1]
        /\ \A i \in DOMAIN event_rx : i # 1 => i - 1 \in DOMAIN event_rx' /\ (i - 1) + 1 = i
        /\ \A i \in DOMAIN event_rx' : event_rx'[i].ev # "StreamInfo"
    BY ChannelTail
  <1>3. /\ \A i \in DOMAIN event_rx' : IsFrame(i)' <=> IsFrame(i + 1)
        /\ \A i \in DOMAIN event_rx' : IsChunk(i)' <=> IsChunk(i + 1)
    BY <1>2 DEF IsFrame, IsChunk
  <1>4. \A i, j \in DOMAIN event_rx' : i < j => i + 1 < j + 1
    BY <1>2
  <1>5. \A j \in DOMAIN event_rx' : 1 < j + 1
    BY <1>2
  <1>6. RecordInv' /\ \A p : Pushed(p)' <=> Pushed(p)
    BY <1>0, <1>1 DEF RecordInv, Pushed, Captured
  <1>11. Captured(encoding["video"])' /\ Pushed(shown)'
    BY <1>0, <1>1, <1>6 DEF FrameInv, Captured
  \* An event that is not a chunk leaves the chunks as they are.
  <1>12. ASSUME ~IsChunk(1), chunks' = chunks
         PROVE  ChannelInv'
    <2>1. ASSUME NEW n \in Nat, Len(chunks) < n, n <= pushed
          PROVE  \E i \in DOMAIN event_rx' : IsChunk(i)' /\ event_rx'[i].samples = n
      <3>1. PICK i \in DOMAIN event_rx : IsChunk(i) /\ event_rx[i].samples = n
        BY <1>0, <2>1 DEF ChannelInv
      <3>2. i # 1
        BY <1>12, <3>1
      <3>3. i - 1 \in DOMAIN event_rx' /\ (i - 1) + 1 = i
        BY <1>2, <3>1, <3>2
      <3> QED BY <1>2, <1>3, <3>1, <3>3
    <2>2. ASSUME NEW i \in DOMAIN event_rx', IsChunk(i)'
          PROVE  /\ Len(chunks) < event_rx'[i].samples /\ event_rx'[i].samples <= pushed
                 /\ \A j \in DOMAIN event_rx' :
                        i < j /\ IsChunk(j)' => event_rx'[i].samples < event_rx'[j].samples
      BY <1>0, <1>2, <1>3, <1>4, <2>2 DEF ChannelInv
    <2> QED BY <1>0, <1>1, <1>12, <2>1, <2>2 DEF ChannelInv
  \* The first event is StreamInfo: nothing has been received before.
  <1>7. CASE DrainStreamInfo(e)
    <2>1. /\ e.ev = "StreamInfo" /\ e.fps \in Nat
          /\ prebuffering /\ chunks = <<>> /\ video_queue = <<>> /\ shown = 0
      BY <1>0, <1>2, <1>7, EventKinds, SizeAssumption DEF DrainStreamInfo, PhaseInv
    <2>2. /\ prebuffering' = TRUE /\ video_queue' = <<>> /\ audio_prebuf' = <<>> /\ chunks' = <<>>
          /\ player' = "none" /\ acc' = <<>> /\ played' = 0 /\ audio_base_pts' = 0
          /\ first_pts' = 0 /\ disconnected' = disconnected
      BY <1>7 DEF DrainStreamInfo
    <2>3. prebuffer_target' \in Nat \ {0} /\ video_queue_cap' \in Nat \ {0}
      <3>1. MaxOf(e.fps, 1) \in Nat /\ CacheSecs \in Nat /\ QueueDefault \in Nat \ {0}
        BY <2>1, SizeAssumption DEF MaxOf
      <3>2. \A a, b \in Nat : a * b \in Nat
        OBVIOUS
      <3>3. FramesInCache(e.fps) \in Nat
        BY <3>1, <3>2 DEF FramesInCache
      <3>4. /\ prebuffer_target' = MaxOf(FramesInCache(e.fps), 1)
            /\ video_queue_cap' = MaxOf(FramesInCache(e.fps) * 2, QueueDefault)
        BY <1>7 DEF DrainStreamInfo, QueueCap
      <3> QED BY <3>1, <3>3, <3>4 DEF MaxOf
    <2>4. TypeOK'
      <3>1. /\ <<>> \in Seq(Stamps) /\ <<>> \in Seq(Nat) /\ <<>> \in Seq(Chunk)
            /\ Len(<<>>) = 0 /\ 0 <= video_queue_cap'
        BY <2>3
      <3> QED BY <1>0, <1>1, <1>2, <2>2, <2>3, <3>1 DEF TypeOK
    <2>5. PhaseInv'
      BY <1>1, <1>2, <2>1, <2>2 DEF PhaseInv
    <2>6. PlayerInv'
      BY <2>2 DEF PlayerInv, Listening, Samples
    <2>7. ChannelInv'
      <3>1. ~IsChunk(1) /\ chunks' = chunks
        BY <2>1, <2>2 DEF IsChunk
      <3> QED BY <1>12, <3>1
    <2>8. FrameInv'
      BY <1>0, <1>1, <1>2, <1>3, <1>4, <1>6, <1>11, <2>1, <2>2, EmptySequence DEF FrameInv
    <2> QED BY <1>6, <2>4, <2>5, <2>6, <2>7, <2>8 DEF IInv
  \* A frame: the oldest may go, the new one is the latest.
  <1>8. CASE DrainVideoFrame(e)
    <2>1. e.ev = "VideoFrame" /\ e.pts \in Stamps /\ IsFrame(1) /\ ~IsChunk(1)
      BY <1>2, <1>8, EventKinds DEF DrainVideoFrame, IsFrame, IsChunk
    <2>2. UNCHANGED <<disconnected, buffer, audio_prebuf, sound, received>>
      BY <1>8 DEF DrainVideoFrame
    <2>3. PICK kept \in Seq(Stamps) :
              /\ video_queue' = Append(kept, e.pts)
              /\ Len(kept) + 1 <= video_queue_cap
              /\ \A k \in DOMAIN kept : k \in Nat
              /\ \/ kept = video_queue
                 \/ \A k \in DOMAIN kept : k + 1 \in DOMAIN video_queue /\ kept[k] = video_queue[k + 1]
      <3>1. /\ video_queue \in Seq(Stamps) /\ video_queue_cap \in Nat \ {0}
            /\ Len(video_queue) <= video_queue_cap
        BY <1>0 DEF TypeOK
      <3>2. /\ Len(video_queue) \in Nat
            /\ \A k \in DOMAIN video_queue : k \in Nat
        BY <3>1, LenProperties
      <3>3. CASE Len(video_queue) >= video_queue_cap
        <4>1. video_queue # <<>>
          BY <3>1, <3>3, EmptySequence
        <4>2. video_queue' = Append(Tail(video_queue), e.pts)
          BY <1>8, <3>3 DEF DrainVideoFrame, Enqueue
        <4> DEFINE t == Tail(video_queue)
        <4>3. /\ t \in Seq(Stamps) /\ Len(t) + 1 = Len(video_queue) /\ Len(t) \in Nat
              /\ \A k \in DOMAIN t : k \in Nat /\ k + 1 \in DOMAIN video_queue /\ t[k] = video_queue[k + 1]
          BY <3>1, <4>1, TailResult
        <4>4. Len(t) + 1 <= video_queue_cap
          BY <3>1, <4>3
        <4>5. video_queue' = Append(t, e.pts)
          BY <4>2
        <4> HIDE DEF t
        <4> QED BY <4>3, <4>4, <4>5
      <3>4. CASE ~(Len(video_queue) >= video_queue_cap)
        <4>1. video_queue' = Append(video_queue, e.pts)
          BY <1>8, <3>4 DEF DrainVideoFrame, Enqueue
        <4>2. Len(video_queue) + 1 <= video_queue_cap
          BY <3>1, <3>2, <3>4
        <4> QED BY <3>1, <3>2, <4>1, <4>2
      <3> QED BY <3>3, <3>4
    <2>4. /\ video_queue' \in Seq(Stamps) /\ Len(video_queue') <= video_queue_cap
          /\ DOMAIN video_queue' = DOMAIN kept \cup {Len(kept) + 1}
          /\ \A k \in DOMAIN kept : k \in Nat /\ k <= Len(kept) /\ video_queue'[k] = kept[k]
          /\ video_queue'[Len(kept) + 1] = e.pts /\ Len(kept) \in Nat
      BY <2>1, <2>3, AppendResult
    <2>5. TypeOK'
      BY <1>0, <1>1, <1>2, <2>2, <2>4 DEF TypeOK, received, buffer, sound
    <2>6. PhaseInv'
      BY <1>0, <1>1, <1>2, <2>2 DEF PhaseInv, received, buffer, sound
    <2>7. PlayerInv'
      BY <1>0, <1>1, <2>2 DEF PlayerInv, Listening, AudioPts, received, buffer, sound
    <2>8. ChannelInv'
      BY <1>12, <2>1, <2>2 DEF received
    <2>9. FrameInv'
      <3>1. \A k \in DOMAIN kept : /\ shown < kept[k] /\ Pushed(kept[k])
                                   /\ kept[k] < e.pts
                                   /\ \A i \in DOMAIN event_rx' : IsFrame(i)' => kept[k] < event_rx'[i].pts
                                   /\ \A l \in DOMAIN kept : k < l => kept[k] < kept[l]
        <4>1. ASSUME NEW k \in DOMAIN video_queue
              PROVE  /\ shown < video_queue[k] /\ Pushed(video_queue[k])
                     /\ video_queue[k] < e.pts
                     /\ \A i \in DOMAIN event_rx' : IsFrame(i)' => video_queue[k] < event_rx'[i].pts
                     /\ \A l \in DOMAIN video_queue : k < l => video_queue[k] < video_queue[l]
          BY <1>0, <1>2, <1>3, <2>1 DEF FrameInv
        <4>2. CASE kept = video_queue
          BY <4>1, <4>2
        <4>3. CASE \A k \in DOMAIN kept : k + 1 \in DOMAIN video_queue /\ kept[k] = video_queue[k + 1]
          <5>1. \A k, l \in DOMAIN kept : k < l => k + 1 < l + 1
            BY <2>3
          <5> QED BY <4>1, <4>3, <5>1
        <4> QED BY <2>3, <4>2, <4>3
      <3>2. /\ shown < e.pts /\ Pushed(e.pts)
            /\ \A i \in DOMAIN event_rx' : IsFrame(i)' => e.pts < event_rx'[i].pts
        BY <1>0, <1>2, <1>3, <1>5, <2>1 DEF FrameInv
      <3>3. \A k \in DOMAIN video_queue' :
                /\ shown < video_queue'[k] /\ Pushed(video_queue'[k])
                /\ \A i \in DOMAIN event_rx' : IsFrame(i)' => video_queue'[k] < event_rx'[i].pts
        BY <2>4, <3>1, <3>2
      <3>4. \A k, l \in DOMAIN video_queue' : k < l => video_queue'[k] < video_queue'[l]
        BY <2>4, <3>1
      <3>5. \A i \in DOMAIN event_rx' : IsFrame(i)' =>
                /\ Pushed(event_rx'[i].pts) /\ shown < event_rx'[i].pts
                /\ \A j \in DOMAIN event_rx' : i < j /\ IsFrame(j)' => event_rx'[i].pts < event_rx'[j].pts
        BY <1>0, <1>2, <1>3, <1>4 DEF FrameInv
      <3> QED BY <1>1, <1>6, <1>11, <3>3, <3>4, <3>5 DEF FrameInv
    <2> QED BY <1>6, <2>5, <2>6, <2>7, <2>8, <2>9 DEF IInv
  <1>10. CASE DrainDisconnected(e)
    <2>1. ~IsChunk(1)
      BY <1>2, <1>10, EventKinds DEF DrainDisconnected, IsChunk
    <2>2. disconnected' = TRUE /\ UNCHANGED <<buffer, video_queue, audio_prebuf, sound, received>>
      BY <1>10 DEF DrainDisconnected
    <2>3. TypeOK'
      BY <1>0, <1>1, <1>2, <2>2 DEF TypeOK, received, buffer, sound
    <2>4. PhaseInv'
      BY <1>0, <1>1, <1>2, <2>2 DEF PhaseInv, received, buffer, sound
    <2>5. PlayerInv'
      BY <1>0, <1>1, <2>2 DEF PlayerInv, Listening, AudioPts, received, buffer, sound
    <2>6. ChannelInv'
      BY <1>12, <2>1, <2>2 DEF received
    <2>7. FrameInv'
      BY <1>0, <1>1, <1>2, <1>3, <1>4, <1>6, <1>11, <2>2 DEF FrameInv
    <2> QED BY <1>6, <2>3, <2>4, <2>5, <2>6, <2>7 DEF IInv
  \* A chunk: it goes on the end of what was received, and to the player if there
  \* is one.
  <1>9. CASE DrainAudioChunk(e)
    <2>1. /\ e.ev = "AudioChunk" /\ e.pts \in Stamps /\ e.samples \in Nat
          /\ IsChunk(1) /\ ~IsFrame(1)
      BY <1>2, <1>9, EventKinds DEF DrainAudioChunk, IsFrame, IsChunk
    <2>2. /\ UNCHANGED <<disconnected, buffer, video_queue, player, played, audio_base_pts>>
          /\ chunks' = Append(chunks, e.samples)
          /\ first_pts' = IF chunks = <<>> THEN e.pts ELSE first_pts
      BY <1>9 DEF DrainAudioChunk
    <2>3. /\ chunks \in Seq(Nat) /\ acc \in Seq(Nat) /\ audio_prebuf \in Seq(Chunk)
          /\ first_pts \in {0} \cup Stamps
          /\ Len(chunks) \in Nat /\ DOMAIN chunks = 1 .. Len(chunks)
          /\ pushed \in Nat
      <3>1. /\ chunks \in Seq(Nat) /\ acc \in Seq(Nat) /\ audio_prebuf \in Seq(Chunk)
            /\ first_pts \in {0} \cup Stamps /\ pushed \in Nat
        BY <1>0 DEF TypeOK
      <3> QED BY <3>1, LenProperties
    <2>4. /\ chunks' \in Seq(Nat) /\ Len(chunks') = Len(chunks) + 1
          /\ DOMAIN chunks' = DOMAIN chunks \cup {Len(chunks) + 1}
          /\ \A k \in DOMAIN chunks : k \in Nat /\ 1 <= k /\ k <= Len(chunks) /\ chunks'[k] = chunks[k]
          /\ chunks'[Len(chunks) + 1] = e.samples
      BY <2>1, <2>2, <2>3, AppendResult
    <2>5. /\ audio_prebuf' \in Seq(Chunk) /\ acc' \in Seq(Nat)
          /\ first_pts' \in {0} \cup Stamps /\ first_pts' # 0 /\ chunks' # <<>>
      <3>1. [pts |-> e.pts, samples |-> e.samples] \in Chunk
        BY <2>1 DEF Chunk
      <3>2. /\ Append(audio_prebuf, [pts |-> e.pts, samples |-> e.samples]) \in Seq(Chunk)
            /\ Append(acc, e.samples) \in Seq(Nat)
        BY <2>1, <2>3, <3>1, AppendProperties
      <3>3. \/ audio_prebuf' = Append(audio_prebuf, [pts |-> e.pts, samples |-> e.samples])
            \/ audio_prebuf' = audio_prebuf
        BY <1>9 DEF DrainAudioChunk
      <3>4. acc' = Append(acc, e.samples) \/ acc' = acc
        BY <1>9 DEF DrainAudioChunk
      <3>5. first_pts' \in {0} \cup Stamps /\ first_pts' # 0
        BY <1>0, <2>1, <2>2, <2>3, StampsAreNumbers DEF PlayerInv
      <3>6. chunks' # <<>>
        BY <2>3, <2>4, EmptySequence
      <3> QED BY <2>3, <3>2, <3>3, <3>4, <3>5, <3>6
    <2>6. TypeOK'
      BY <1>0, <1>1, <1>2, <2>2, <2>4, <2>5 DEF TypeOK, buffer
    <2>7. PhaseInv'
      BY <1>0, <1>1, <1>2, <2>2 DEF PhaseInv, buffer
    <2>8. PlayerInv'
      <3>1. CASE prebuffering
        <4> DEFINE c == [pts |-> e.pts, samples |-> e.samples]
        <4>1. /\ audio_prebuf' = Append(audio_prebuf, c) /\ acc' = acc
              /\ player = "none" /\ acc = <<>> /\ Samples(audio_prebuf) = chunks
              /\ c \in Chunk /\ c.samples = e.samples /\ c.pts = e.pts
          BY <1>0, <1>9, <2>1, <2>2, <3>1 DEF DrainAudioChunk, PhaseInv, PlayerInv, Chunk
        <4> HIDE DEF c
        <4>2. Samples(audio_prebuf') = chunks'
          BY <2>2, <2>3, <4>1, SamplesResult
        <4>3. audio_prebuf' # <<>> /\ audio_prebuf'[1].pts = first_pts'
          <5>1. audio_prebuf = <<>> <=> chunks = <<>>
            BY <2>3, <4>1, SamplesResult
          <5>2. /\ Len(audio_prebuf') = Len(audio_prebuf) + 1 /\ Len(audio_prebuf) \in Nat
                /\ audio_prebuf'[Len(audio_prebuf) + 1] = c
                /\ \A k \in DOMAIN audio_prebuf : audio_prebuf'[k] = audio_prebuf[k]
            BY <2>3, <4>1, AppendResult
          <5>3. audio_prebuf' # <<>>
            BY <5>2, EmptySequence
          <5>4. CASE chunks = <<>>
            <6>1. audio_prebuf'[1] = c
              BY <5>1, <5>2, <5>4, EmptySequence
            <6> QED BY <2>2, <4>1, <5>3, <5>4, <6>1
          <5>5. CASE chunks # <<>>
            <6>1. 1 \in DOMAIN audio_prebuf
              BY <2>3, <5>1, <5>5, TailResult
            <6>2. audio_prebuf[1].pts = first_pts
              BY <1>0, <3>1, <5>5 DEF PlayerInv
            <6> QED BY <2>2, <5>2, <5>3, <5>5, <6>1, <6>2
          <5> QED BY <5>4, <5>5
        <4>4. audio_base_pts' # 0 => chunks' # <<>> /\ audio_base_pts' = first_pts'
          BY <1>0, <2>2, <2>5 DEF PlayerInv
        <4> QED BY <2>2, <2>5, <4>1, <4>2, <4>3, <4>4 DEF PlayerInv, Listening
      <3>2. CASE ~prebuffering
        <4>1. acc' = IF Listening THEN Append(acc, e.samples) ELSE acc
          BY <1>9, <3>2 DEF DrainAudioChunk
        <4>2. Listening' <=> Listening
          BY <2>2 DEF Listening
        <4>3. Listening =>
                  played' <= Len(chunks') /\ acc' = SubSeq(chunks', played' + 1, Len(chunks'))
          <5> SUFFICES ASSUME Listening
                       PROVE  played' <= Len(chunks') /\ acc' = SubSeq(chunks', played' + 1, Len(chunks'))
            OBVIOUS
          <5>1. played <= Len(chunks) /\ acc = SubSeq(chunks, played + 1, Len(chunks))
            BY <1>0 DEF PlayerInv
          <5>2. played \in 0 .. Len(chunks) /\ played <= Len(chunks) + 1
            BY <1>0, <2>3, <5>1 DEF TypeOK
          <5>3. SubSeq(chunks', played + 1, Len(chunks) + 1) = Append(acc, e.samples)
            BY <2>1, <2>2, <2>3, <5>1, <5>2, SubSeqOfAppend
          <5> QED BY <2>2, <2>4, <4>1, <5>2, <5>3
        <4>4. player' \in {"none", "dead"} => acc' = <<>>
          BY <1>0, <2>2, <4>1 DEF PlayerInv, Listening
        <4>5. audio_base_pts' # 0 => audio_base_pts' = first_pts'
          BY <1>0, <2>2 DEF PlayerInv
        <4>6. ~prebuffering' /\ shown' = shown /\ AudioPts' = AudioPts
          BY <1>1, <2>2, <3>2 DEF buffer, AudioPts
        <4> QED BY <1>0, <2>2, <2>5, <4>2, <4>3, <4>4, <4>5, <4>6 DEF PlayerInv
      <3> QED BY <3>1, <3>2
    <2>9. ChannelInv'
      \* The chunk is the next one: some chunk in the channel is, and none comes before it.
      <3>1. Len(chunks) < e.samples /\ e.samples <= pushed
        BY <1>0, <1>2, <2>1 DEF ChannelInv
      <3>2. ASSUME NEW i \in DOMAIN event_rx', IsChunk(i)'
            PROVE  e.samples < event_rx'[i].samples
        BY <1>0, <1>2, <1>3, <1>5, <2>1, <3>2 DEF ChannelInv
      <3>3. e.samples = Len(chunks) + 1
        <4>1. Len(chunks) + 1 \in Nat /\ Len(chunks) < Len(chunks) + 1 /\ Len(chunks) + 1 <= pushed
          BY <2>1, <2>3, <3>1
        <4>2. PICK i \in DOMAIN event_rx : IsChunk(i) /\ event_rx[i].samples = Len(chunks) + 1
          BY <1>0, <4>1 DEF ChannelInv
        <4>3. CASE i = 1
          BY <4>2, <4>3
        <4>4. CASE i # 1
          <5>1. i - 1 \in DOMAIN event_rx' /\ (i - 1) + 1 = i
            BY <1>2, <4>4
          <5>2. e.samples < Len(chunks) + 1
            BY <1>2, <1>3, <3>2, <4>2, <5>1
          <5> QED BY <2>1, <2>3, <3>1, <5>2
        <4> QED BY <4>3, <4>4
      <3>4. \A k \in DOMAIN chunks' : chunks'[k] = k
        BY <1>0, <2>4, <3>3 DEF ChannelInv
      <3>5. Len(chunks') <= pushed
        BY <2>4, <3>1, <3>3
      <3>6. ASSUME NEW n \in Nat, Len(chunks') < n, n <= pushed
            PROVE  \E i \in DOMAIN event_rx' : IsChunk(i)' /\ event_rx'[i].samples = n
        <4>1. Len(chunks) < n /\ n # e.samples
          BY <2>3, <2>4, <3>3, <3>6
        <4>2. PICK i \in DOMAIN event_rx : IsChunk(i) /\ event_rx[i].samples = n
          BY <1>0, <3>6, <4>1 DEF ChannelInv
        <4>3. i # 1
          BY <4>1, <4>2
        <4>4. i - 1 \in DOMAIN event_rx' /\ (i - 1) + 1 = i
          BY <1>2, <4>3
        <4> QED BY <1>2, <1>3, <4>2, <4>4
      <3>7. ASSUME NEW i \in DOMAIN event_rx', IsChunk(i)'
            PROVE  /\ Len(chunks') < event_rx'[i].samples /\ event_rx'[i].samples <= pushed
                   /\ \A j \in DOMAIN event_rx' :
                          i < j /\ IsChunk(j)' => event_rx'[i].samples < event_rx'[j].samples
        <4>1. Len(chunks') < event_rx'[i].samples
          BY <2>4, <3>2, <3>3, <3>7
        <4> QED BY <1>0, <1>2, <1>3, <1>4, <3>7, <4>1 DEF ChannelInv
      <3> QED BY <1>1, <3>4, <3>5, <3>6, <3>7 DEF ChannelInv
    <2>10. FrameInv'
      BY <1>0, <1>1, <1>2, <1>3, <1>4, <1>6, <1>11, <2>2 DEF FrameInv
    <2> QED BY <1>6, <2>6, <2>7, <2>8, <2>9, <2>10 DEF IInv
  <1> QED BY <1>2, <1>7, <1>8, <1>9, <1>10 DEF DrainEvent

--------------------------------------------------------------------------------
(* The turn: playback starts, frames are shown.                                  *)

\* Frames taken off the front of the queue, the last of them shown.
LEMMA BlitKeepsOrder ==
    ASSUME TypeOK, FrameInv, NEW n \in 0 .. Len(video_queue), Blit(n),
           UNCHANGED <<host, event_rx>>
    PROVE  /\ FrameInv'
           /\ video_queue' \in Seq(Stamps) /\ Len(video_queue') <= video_queue_cap
           /\ shown' \in {0} \cup Stamps
           /\ n = 0 => shown' = shown
           /\ n # 0 => n \in DOMAIN video_queue /\ shown' = video_queue[n]
  <1>1. /\ video_queue \in Seq(Stamps) /\ Len(video_queue) \in Nat
        /\ DOMAIN video_queue = 1 .. Len(video_queue)
        /\ \A k \in DOMAIN video_queue : video_queue[k] \in Stamps
        /\ Len(video_queue) <= video_queue_cap /\ video_queue_cap \in Nat
    <2>1. /\ video_queue \in Seq(Stamps)
          /\ Len(video_queue) <= video_queue_cap /\ video_queue_cap \in Nat
      BY DEF TypeOK
    <2> QED BY <2>1, LenProperties, ElementOfSeq
  <1>2. /\ video_queue' \in Seq(Stamps)
        /\ Len(video_queue') = Len(video_queue) - n
        /\ \A i \in DOMAIN video_queue' : /\ i \in Nat /\ i >= 1 /\ n + i \in DOMAIN video_queue
                                          /\ video_queue'[i] = video_queue[n + i]
    BY <1>1, SubSeqResult DEF Blit
  <1>3. /\ n = 0 => shown' = shown
        /\ n # 0 => n \in DOMAIN video_queue /\ shown' = video_queue[n]
    BY <1>1 DEF Blit
  <1>4. shown' \in {0} \cup Stamps
    BY <1>1, <1>3 DEF TypeOK
  <1>5. Len(video_queue') <= video_queue_cap
    BY <1>1, <1>2
  <1>6. \A p \in {shown'} \cup {video_queue[k] : k \in DOMAIN video_queue} : Pushed(p)'
    BY <1>3 DEF FrameInv, Pushed, Captured, host, device
  <1>7. \A i, j \in DOMAIN video_queue' : /\ n < n + i
                                          /\ i < j => n + i < n + j
    BY <1>1, <1>2, SMTT(30)
  <1>8. \A i \in DOMAIN video_queue' :
            /\ shown' < video_queue'[i]
            /\ \A j \in DOMAIN video_queue' : i < j => video_queue'[i] < video_queue'[j]
    <2>1. \A i \in DOMAIN video_queue' : shown' < video_queue'[i]
      BY <1>2, <1>3, <1>7 DEF FrameInv
    <2>2. \A i, j \in DOMAIN video_queue' : i < j => video_queue'[i] < video_queue'[j]
      BY <1>2, <1>7 DEF FrameInv
    <2> QED BY <2>1, <2>2
  <1>9. \A i \in DOMAIN event_rx : IsFrame(i) =>
            /\ Pushed(event_rx[i].pts)'
            /\ shown' < event_rx[i].pts
            /\ \A k \in DOMAIN video_queue' : video_queue'[k] < event_rx[i].pts
            /\ \A j \in DOMAIN event_rx : i < j /\ IsFrame(j) => event_rx[i].pts < event_rx[j].pts
    BY <1>2, <1>3 DEF FrameInv, Pushed, Captured, host, device
  <1>10. FrameInv'
    <2>1. Captured(encoding["video"])'
      BY DEF FrameInv, Captured, host, device
    <2> QED BY <1>2, <1>6, <1>8, <1>9, <2>1 DEF FrameInv, IsFrame
  <1> QED BY <1>2, <1>3, <1>4, <1>5, <1>10

LEMMA ShowIInv ==
    ASSUME IInv, Show
    PROVE  IInv'
  <1>0. TypeOK /\ PhaseInv /\ PlayerInv /\ RecordInv /\ ChannelInv /\ FrameInv
    BY DEF IInv
  <1>1. /\ UNCHANGED <<host, event_rx, received, disconnected, buffer, audio_prebuf, sound>>
        /\ pc = "showing" /\ pc' \in {"draining", "exited"}
    BY DEF Show, EndTurn
  <1>2. ~prebuffering /\ \A i \in DOMAIN event_rx : event_rx[i].ev # "StreamInfo"
    BY <1>0, <1>1 DEF PhaseInv
  <1>3. PhaseInv' /\ RecordInv' /\ ChannelInv'
    <2>1. UNCHANGED <<clock, unsent, recorded, gaps, pushed, encoding, event_rx, chunks,
                      prebuffering, player>>
      BY <1>1 DEF host, device, received, buffer, sound
    <2>2. PhaseInv'
      BY <1>0, <1>1, <1>2, <2>1 DEF PhaseInv
    <2>3. RecordInv' /\ ChannelInv'
      BY <1>0, <2>1 DEF RecordInv, ChannelInv, IsChunk
    <2> QED BY <2>2, <2>3
  <1>4. due' \in BOOLEAN
    BY <1>0 DEF Show, ShowByAudio, ShowByWall, TypeOK
  <1>5. ASSUME NEW n \in 0 .. Len(video_queue), Blit(n),
               player # "none" => \A i \in 1 .. n : AudioPts >= video_queue[i]
        PROVE  IInv'
    <2>1. /\ FrameInv' /\ video_queue' \in Seq(Stamps) /\ Len(video_queue') <= video_queue_cap
          /\ shown' \in {0} \cup Stamps
          /\ n = 0 => shown' = shown
          /\ n # 0 => n \in DOMAIN video_queue /\ shown' = video_queue[n]
      BY <1>0, <1>1, <1>5, BlitKeepsOrder
    <2>2. TypeOK'
      BY <1>0, <1>1, <1>4, <2>1 DEF TypeOK, host, device, received, buffer, sound
    <2>3. player # "none" => shown' <= AudioPts
      <3>1. CASE n = 0
        BY <1>0, <2>1, <3>1 DEF PlayerInv
      <3>2. CASE n # 0
        <4>1. n \in 1 .. n /\ shown' = video_queue[n]
          BY <2>1, <3>2
        <4>2. shown' \in Int /\ AudioPts \in Int
          BY <1>0, <2>1, StampsAreNumbers DEF TypeOK, AudioPts
        <4> QED BY <1>5, <4>1, <4>2
      <3> QED BY <3>1, <3>2
    <2>4. PlayerInv'
      BY <1>0, <1>1, <2>3 DEF PlayerInv, Listening, AudioPts, received, buffer, sound
    <2> QED BY <1>3, <2>1, <2>2, <2>4 DEF IInv
  <1>6. CASE ShowByAudio
    BY <1>0, <1>5, <1>6, DueFramesExist DEF ShowByAudio
  <1>7. CASE ShowByWall
    <2>1. CASE due /\ video_queue # <<>>
      <3>1. 1 \in 0 .. Len(video_queue)
        <4>1. video_queue \in Seq(Stamps)
          BY <1>0 DEF TypeOK
        <4> QED BY <2>1, <4>1
      <3> QED BY <1>5, <1>7, <2>1, <3>1 DEF ShowByWall
    <2>2. CASE ~(due /\ video_queue # <<>>)
      <3>1. UNCHANGED <<video_queue, shown, due>>
        BY <1>7, <2>2 DEF ShowByWall
      <3>2. TypeOK'
        BY <1>0, <1>1, <3>1 DEF TypeOK, host, device, received, buffer, sound
      <3>3. PlayerInv' /\ FrameInv'
        <4>1. PlayerInv'
          BY <1>0, <1>1, <3>1 DEF PlayerInv, Listening, AudioPts, received, buffer, sound
        <4>2. FrameInv'
          BY <1>0, <1>1, <3>1, StampsUntouched
        <4> QED BY <4>1, <4>2
      <3> QED BY <1>3, <3>2, <3>3 DEF IInv
    <2> QED BY <2>1, <2>2
  <1> QED BY <1>6, <1>7 DEF Show

LEMMA TurnIInv ==
    ASSUME IInv, Drained \/ KeepBuffering \/ StartPlayback \/ WallClock \/ UserLeaves
    PROVE  IInv'
  <1>0. TypeOK /\ PhaseInv /\ PlayerInv /\ RecordInv /\ ChannelInv /\ FrameInv
    BY DEF IInv
  <1>1. UNCHANGED <<host, event_rx, received, prebuffer_target, video_queue_cap, video_queue, shown>>
    BY DEF Drained, KeepBuffering, StartPlayback, WallClock, UserLeaves, buffer
  <1>2. RecordInv' /\ ChannelInv' /\ FrameInv'
    BY <1>0, <1>1, StampsUntouched
  <1>3. CASE StartPlayback
    <2>1. /\ pc = "advancing" /\ pc' = "showing" /\ prebuffering /\ prebuffering' = FALSE
          /\ due' = TRUE /\ disconnected' = disconnected
          /\ player = "none" /\ shown = 0 /\ Samples(audio_prebuf) = chunks
          /\ \A i \in DOMAIN event_rx : event_rx[i].ev # "StreamInfo"
      BY <1>0, <1>3 DEF StartPlayback, PhaseInv, PlayerInv
    <2>2. PhaseInv'
      BY <1>1, <2>1 DEF PhaseInv, received
    <2>3. CASE OpenPlayer
      <3>1. /\ chunks \in Seq(Nat) /\ Len(chunks) \in Nat
            /\ audio_prebuf \in Seq(Chunk) /\ first_pts \in {0} \cup Stamps
        <4>1. /\ chunks \in Seq(Nat) /\ audio_prebuf \in Seq(Chunk)
              /\ first_pts \in {0} \cup Stamps
          BY <1>0 DEF TypeOK
        <4> QED BY <4>1, LenProperties
      <3>2. /\ player' = "opening" /\ acc' = chunks /\ audio_prebuf' = <<>> /\ played' = 0
            /\ audio_base_pts' = Anchor
        BY <2>1, <2>3 DEF OpenPlayer
      <3>3. /\ audio_base_pts' \in {0} \cup Stamps
            /\ audio_base_pts' # 0 => chunks # <<>> /\ audio_base_pts' = first_pts
        <4>1. audio_prebuf = <<>> <=> chunks = <<>>
          BY <2>1, <3>1, SamplesResult
        <4>2. CASE chunks = <<>>
          BY <3>2, <4>1, <4>2 DEF Anchor
        <4>3. CASE chunks # <<>>
          <5>1. audio_prebuf # <<>> /\ audio_prebuf[1].pts = first_pts
            BY <1>0, <2>1, <4>3 DEF PlayerInv
          <5>2. Head(audio_prebuf) = audio_prebuf[1]
            BY <3>1, <5>1, TailResult
          <5> QED BY <3>1, <3>2, <4>3, <5>1, <5>2 DEF Anchor
        <4> QED BY <4>2, <4>3
      <3>4. acc' = SubSeq(chunks, 1, Len(chunks))
        BY <3>1, <3>2, SubSeqFull
      <3>5. TypeOK'
        <4>1. /\ acc' \in Seq(Nat) /\ audio_prebuf' \in Seq(Chunk) /\ played' \in Nat
              /\ player' \in {"none", "opening", "running", "stalled", "dead"}
          BY <3>1, <3>2
        <4> QED BY <1>0, <1>1, <2>1, <3>3, <4>1 DEF TypeOK, host, device, received
      <3>6. played' <= Len(chunks) /\ acc' = SubSeq(chunks, played' + 1, Len(chunks))
        BY <3>1, <3>2, <3>4
      <3>7. 0 <= AudioPts'
        BY <3>2, <3>3, StampsAreNumbers DEF AudioPts
      <3>8. PlayerInv'
        BY <1>0, <1>1, <2>1, <3>2, <3>3, <3>6, <3>7 DEF PlayerInv, received
      <3> QED BY <1>2, <2>2, <3>5, <3>8 DEF IInv
    <2>4. CASE NoPlayer
      <3>1. TypeOK'
        BY <1>0, <1>1, <2>1, <2>4 DEF TypeOK, NoPlayer, host, device, received, sound
      <3>2. PlayerInv'
        BY <1>0, <1>1, <2>1, <2>4 DEF PlayerInv, Listening, NoPlayer, received, sound
      <3> QED BY <1>2, <2>2, <3>1, <3>2 DEF IInv
    <2> QED BY <1>3, <2>3, <2>4 DEF StartPlayback
  <1>4. CASE Drained \/ KeepBuffering \/ WallClock \/ UserLeaves
    <2>1. /\ UNCHANGED <<buffer, audio_prebuf, sound>>
          /\ pc' \in {"draining", "advancing", "showing", "exited"}
          /\ due' \in BOOLEAN /\ disconnected' \in BOOLEAN
      BY <1>0, <1>4 DEF Drained, KeepBuffering, WallClock, UserLeaves, EndTurn, TypeOK
    <2>2. TypeOK'
      BY <1>0, <1>1, <2>1 DEF TypeOK, host, device, received, buffer, sound
    <2>3. PlayerInv'
      BY <1>0, <1>1, <2>1 DEF PlayerInv, Listening, AudioPts, received, buffer, sound
    <2>4. PhaseInv'
      <3>1. CASE Drained
        BY <1>0, <1>1, <2>1, <3>1, EmptySequence DEF Drained, PhaseInv, received, buffer, sound
      <3>2. CASE KeepBuffering
        BY <1>0, <1>1, <2>1, <3>2 DEF KeepBuffering, EndTurn, PhaseInv, received, buffer, sound
      <3>3. CASE WallClock \/ UserLeaves
        BY <1>0, <1>1, <2>1, <3>3 DEF WallClock, UserLeaves, PhaseInv, received, buffer, sound
      <3> QED BY <1>4, <3>1, <3>2, <3>3
    <2> QED BY <1>2, <2>2, <2>3, <2>4 DEF IInv
  <1> QED BY <1>3, <1>4

--------------------------------------------------------------------------------
(* The theorems.                                                                 *)

LEMMA NextIInv == IInv /\ [Next]_vars => IInv'
  <1> SUFFICES ASSUME IInv, [Next]_vars PROVE IInv'
    OBVIOUS
  <1>1. CASE UNCHANGED vars
    <2>1. TypeOK' /\ PhaseInv' /\ PlayerInv'
      <3>1. /\ UNCHANGED <<clock, unsent, recorded, gaps, pushed, encoding, event_rx, chunks,
                           first_pts, pc, disconnected>>
            /\ UNCHANGED <<prebuffering, prebuffer_target, video_queue_cap, video_queue,
                           audio_prebuf, shown, due, player, acc, played, audio_base_pts>>
        BY <1>1 DEF vars, host, device, received, buffer, sound
      <3>2. TypeOK'
        BY <3>1 DEF IInv, TypeOK
      <3>3. PhaseInv'
        BY <3>1 DEF IInv, PhaseInv
      <3>4. PlayerInv'
        BY <3>1 DEF IInv, PlayerInv, Listening, AudioPts
      <3> QED BY <3>2, <3>3, <3>4
    <2>2. RecordInv' /\ ChannelInv' /\ FrameInv'
      BY <1>1, StampsUntouched DEF IInv, vars
    <2> QED BY <2>1, <2>2 DEF IInv
  <1>2. CASE AboutToWait
    BY <1>2, DrainIInv, ShowIInv, TurnIInv DEF AboutToWait
  <1> QED BY <1>1, <1>2, SourceIInv, DeviceIInv, TurnIInv DEF Next

THEOREM InductiveInvariant == Spec => []IInv
  BY InitIInv, NextIInv, PTL DEF Spec

\* Type correctness; in particular the video queue never exceeds its ceiling,
\* whatever frame rate and cache size the host declares.
THEOREM TypeCorrect == Spec => []TypeOK
  <1>1. IInv => TypeOK
    BY DEF IInv
  <1> QED BY <1>1, InductiveInvariant, PTL

\* Sound survives the way from the device that recorded it to the player, whose
\* thread may be opening the device meanwhile: nothing is lost, repeated or reordered.
THEOREM NoSoundLost == Spec => []SoundInOrder
  <1>1. IInv => SoundInOrder
    <2> SUFFICES ASSUME IInv PROVE SoundInOrder
      OBVIOUS
    <2>1. /\ Len(chunks) \in Nat /\ DOMAIN chunks = 1 .. Len(chunks)
          /\ pushed \in Nat /\ Len(recorded) \in Nat
      BY Numbers DEF IInv
    <2>2. Len(chunks) <= pushed /\ pushed <= Len(recorded) /\ \A n \in DOMAIN chunks : chunks[n] = n
      BY DEF IInv, ChannelInv, RecordInv
    <2>3. \A n \in DOMAIN chunks : n <= Len(recorded) /\ chunks[n] = n
      BY <2>1, <2>2
    <2> QED BY <2>3 DEF IInv, PlayerInv, SoundInOrder
  <1> QED BY <1>1, InductiveInvariant, PTL

\* Frames are shown in the order of their stamps, each after those before it.
THEOREM FramesInOrder == Spec => []PictureInOrder
  <1>1. IInv => PictureInOrder
    <2> SUFFICES ASSUME IInv, NEW i \in 1 .. Len(video_queue)
                 PROVE  /\ shown < video_queue[i]
                        /\ i > 1 => video_queue[i - 1] < video_queue[i]
      BY DEF PictureInOrder
    <2>1. DOMAIN video_queue = 1 .. Len(video_queue) /\ Len(video_queue) \in Nat
      BY LenProperties DEF IInv, TypeOK
    <2>2. i \in DOMAIN video_queue /\ (i > 1 => i - 1 \in DOMAIN video_queue /\ i - 1 < i)
      BY <2>1
    <2> QED BY <2>2 DEF IInv, FrameInv
  <1> QED BY <1>1, InductiveInvariant, PTL

\* The chunk that is up next was recorded when the count of chunks played says, or
\* later by no more than the gaps, whatever stamp it got.
LEMMA NextChunk ==
    ASSUME IInv, player # "none", acc # <<>>
    PROVE  /\ UpNext \in Nat /\ AudioPts \in Nat /\ gaps \in Nat /\ AnchorLateness \in Int
           /\ AudioPts <= UpNext + AnchorLateness
           /\ audio_base_pts # 0 => UpNext + AnchorLateness - AudioPts <= gaps
  <1>1. TypeOK /\ PlayerInv /\ RecordInv /\ ChannelInv
    BY DEF IInv
  <1>2. /\ chunks \in Seq(Nat) /\ Len(chunks) \in Nat /\ DOMAIN chunks = 1 .. Len(chunks)
        /\ Len(recorded) \in Nat /\ DOMAIN recorded = 1 .. Len(recorded)
        /\ \A k \in DOMAIN recorded : recorded[k] \in Nat /\ recorded[k] >= Start
        /\ played \in Nat /\ audio_base_pts \in Nat /\ gaps \in Nat /\ Start \in Nat
        /\ first_pts \in Nat /\ pushed \in Nat
    BY <1>1, Numbers DEF TypeOK
  <1>3. played <= Len(chunks) /\ acc = SubSeq(chunks, played + 1, Len(chunks))
    BY <1>1 DEF TypeOK, PlayerInv, Listening
  <1>4. played + 1 <= Len(chunks) /\ Head(acc) = played + 1
    <2>1. played \in 0 .. Len(chunks)
      BY <1>2, <1>3
    <2>2. played + 1 <= Len(chunks) /\ Head(acc) = chunks[played + 1]
      BY <1>2, <1>3, <2>1, TailOfSubSeq
    <2>3. played + 1 \in DOMAIN chunks
      BY <1>2, <2>2
    <2> QED BY <1>1, <2>2, <2>3 DEF ChannelInv
  <1>5. 1 \in DOMAIN recorded /\ played + 1 \in DOMAIN recorded /\ 1 <= played + 1
    <2>1. Len(chunks) <= pushed /\ pushed <= Len(recorded)
      BY <1>1 DEF ChannelInv, RecordInv
    <2> QED BY <1>2, <1>4, <2>1
  <1>6. Head(chunks) = 1
    <2>1. 1 \in DOMAIN chunks /\ Head(chunks) = chunks[1]
      BY <1>2, <1>4
    <2> QED BY <1>1, <2>1 DEF ChannelInv
  <1> DEFINE r == recorded[played + 1]
             first == recorded[1]
  <1>7. UpNext = r /\ r \in Nat /\ first \in Nat /\ first >= Start
    BY <1>2, <1>4, <1>5 DEF UpNext
  <1>8. (played + 1) - 1 <= r - first /\ r <= Start + (played + 1) - 1 + gaps
    BY <1>1, <1>5 DEF RecordInv
  <1>9. audio_base_pts = 0 => AnchorLateness = 0
    BY DEF AnchorLateness
  <1>10. audio_base_pts # 0 => AnchorLateness = audio_base_pts - first
    <2>1. audio_base_pts # 0 => audio_base_pts = first_pts
      BY <1>1 DEF PlayerInv
    <2> QED BY <1>6, <2>1 DEF AnchorLateness
  <1>11. AudioPts = audio_base_pts + played
    BY DEF AudioPts
  <1> HIDE DEF r, first
  <1>12. AnchorLateness \in Int /\ AudioPts \in Nat
    BY <1>2, <1>7, <1>9, <1>10, <1>11
  <1>13. AudioPts <= r + AnchorLateness
    <2>1. CASE audio_base_pts = 0
      <3>1. played <= r
        BY <1>2, <1>7, <1>8
      <3> QED BY <1>2, <1>7, <1>9, <1>11, <2>1, <3>1
    <2>2. CASE audio_base_pts # 0
      BY <1>2, <1>7, <1>8, <1>10, <1>11, <2>2
    <2> QED BY <2>1, <2>2
  <1>14. audio_base_pts # 0 => r + AnchorLateness - AudioPts <= gaps
    BY <1>2, <1>7, <1>8, <1>10, <1>11
  <1> QED BY <1>2, <1>7, <1>12, <1>13, <1>14

\* No frame is shown before the sound recorded with it is up next, the wait of the
\* first chunk in the loopback channel apart, however late and in whatever bursts the
\* audio thread stamps the others, and however the callback and the event loop interleave.
THEOREM NotBeforeItsSound == Spec => []NeverBeforeSound
  <1>1. IInv => NeverBeforeSound
    <2> SUFFICES ASSUME IInv, player # "none", acc # <<>> PROVE shown <= UpNext + AnchorLateness
      BY DEF NeverBeforeSound
    <2>1. /\ AudioPts <= UpNext + AnchorLateness
          /\ AudioPts \in Nat /\ UpNext \in Nat /\ AnchorLateness \in Int
      BY NextChunk
    <2>2. shown <= AudioPts /\ shown \in Nat
      BY Numbers DEF IInv, PlayerInv
    <2> QED BY <2>1, <2>2
  <1> QED BY <1>1, InductiveInvariant, PTL

\* The clock that frames are shown by leads the recording of the sound that is up next
\* by the wait of the first chunk less the ticks for which no chunk came, at most all.
THEOREM ClockLagsByGaps == Spec => []ClockFollowsSound
  <1>1. IInv => ClockFollowsSound
    <2> SUFFICES ASSUME IInv, Listening, audio_base_pts # 0, acc # <<>>
                 PROVE  UpNext + AnchorLateness - AudioPts \in 0 .. gaps
      BY DEF ClockFollowsSound
    <2>1. player # "none"
      BY DEF Listening
    <2>2. /\ UpNext \in Nat /\ AudioPts \in Nat /\ gaps \in Nat /\ AnchorLateness \in Int
          /\ AudioPts <= UpNext + AnchorLateness
          /\ UpNext + AnchorLateness - AudioPts <= gaps
      BY <2>1, NextChunk
    <2> QED BY <2>2
  <1> QED BY <1>1, InductiveInvariant, PTL
================================================================================
