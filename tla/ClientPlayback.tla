---------------------------- MODULE ClientPlayback ----------------------------
(* The viewer's playback (client_window.rs with audio/player.rs): frames and    *)
(* sound received from the host are held until the prebuffer is full, then the  *)
(* player starts and its count of samples played is the clock frames are shown  *)
(* by; without a player the wall clock paces them.                              *)
(*                                                                              *)
(* Three threads meet here: the network thread appends to event_rx, the event   *)
(* loop's turns (about_to_wait) drain it and show frames, the device's callback *)
(* consumes sound.  Time is counted in chunks: it takes the host's device a tick *)
(* to record one.  The host stamps sound and frames with one clock, but sound   *)
(* only when its thread takes it from the loopback channel: chunks that waited  *)
(* there are stamped late, and several may get one stamp.  A frame is its       *)
(* stamp, a chunk's samples are its number.                                     *)
EXTENDS Integers, Sequences

CONSTANTS HostSound,     \* the host's loopback device delivers sound
          DeviceMayFail, \* the player's thread may find that the device refuses the stream
          HostFps,       \* frame rates StreamInfo may declare; 0 while the host selects a region
          CacheSecs,     \* the host's cache_secs
          QueueDefault,  \* VIDEO_QUEUE_DEFAULT
          Start,         \* the host's clock when the first entry sent was stamped
          MaxFrames,     \* bound of the model: no frame is stamped later
          MaxTime,       \* bound of the model: nothing is stamped later
          MaxEvents      \* bound of the model: events waiting

ASSUME SwitchAssumption == HostSound \in BOOLEAN /\ DeviceMayFail \in BOOLEAN
ASSUME SizeAssumption == HostFps \subseteq Nat /\ CacheSecs \in Nat /\ QueueDefault \in Nat \ {0}
ASSUME TimeAssumption == /\ Start \in Nat \ {0} /\ MaxFrames \in Nat
                         /\ MaxTime \in Nat /\ Start <= MaxTime
ASSUME BoundAssumption == MaxEvents \in Nat

VARIABLES
    clock,     \* Broadcaster.elapsed_us, in ticks
    unsent,    \* what this tick may still bring: a frame captured, a chunk recorded
    recorded,  \* the ticks at which the chunks so far were recorded
    gaps,      \* ticks without a chunk so far
    pushed,    \* how many of the chunks the audio thread has taken and pushed
    encoding,  \* the stamp of the frame, of the chunk, that is being encoded; 0 for none
    event_rx,  \* the network thread's channel to the window
    chunks,    \* history: the chunks the window has received, by number
    first_pts, \* history: the stamp of the first of them, 0 before
    pc,        \* the turn: "draining", "advancing", "showing"; "exited"
    disconnected,
    prebuffering, prebuffer_target, video_queue_cap,
    video_queue, audio_prebuf,
    shown,     \* the last frame blitted to video_buf, 0 for none
    due,       \* the wall clock has reached next_frame_due
    player,    \* audio_out: "none", or its thread "opening", "running", "stalled", "dead"
    acc,       \* chunks in the player's channel and accumulator
    played,    \* samples_played
    audio_base_pts

device == <<clock, unsent, recorded, gaps>>
host == <<device, pushed, encoding>>
sound == <<player, acc, played, audio_base_pts>>
buffer == <<prebuffering, prebuffer_target, video_queue_cap>>
received == <<chunks, first_pts>>
vars == <<host, event_rx, received, pc, disconnected, buffer, video_queue, audio_prebuf,
          shown, due, sound>>

Stamps == Start .. MaxTime
MaxOf(a, b) == IF a >= b THEN a ELSE b

StreamInfo == [ev : {"StreamInfo"}, fps : HostFps]
VideoFrame == [ev : {"VideoFrame"}, pts : Stamps]
AudioChunk == [ev : {"AudioChunk"}, pts : Stamps, samples : Nat]
Disconnected == [ev |-> "Disconnected"]
Events == StreamInfo \cup VideoFrame \cup AudioChunk \cup {Disconnected}

Chunk == [pts : Stamps, samples : Nat]

Media == {"video", "audio"}
PerTick == IF HostSound THEN Media ELSE {"video"}

\* run_network sends StreamInfo once, before anything of the stream.
Init == /\ clock = Start /\ unsent = PerTick /\ recorded = <<>> /\ gaps = 0
        /\ pushed = 0 /\ encoding = [medium \in Media |-> 0]
        /\ \E info \in StreamInfo : event_rx = <<info>>
        /\ chunks = <<>> /\ first_pts = 0
        /\ pc = "draining"
        /\ disconnected = FALSE
        /\ prebuffering = TRUE /\ prebuffer_target = 1 /\ video_queue_cap = QueueDefault
        /\ video_queue = <<>> /\ audio_prebuf = <<>>
        /\ shown = 0
        /\ due = TRUE
        /\ player = "none" /\ acc = <<>> /\ played = 0 /\ audio_base_pts = 0

--------------------------------------------------------------------------------
(* The host and the network thread.  Entries arrive in the order they were      *)
(* pushed.  The capture thread stamps a frame, encodes it and pushes it, the    *)
(* audio thread does so with a chunk of the loopback channel, and neither waits *)
(* for the other.  A tick without a chunk is a silent device, sound that has    *)
(* ended, or a chunk lost by a viewer that was lapped; without a frame, a       *)
(* picture that did not change.                                                 *)

Streaming == Disconnected \notin {event_rx[i] : i \in DOMAIN event_rx} /\ ~disconnected
Room == Len(event_rx) < MaxEvents

Record == /\ Streaming
          /\ "audio" \in unsent
          /\ recorded' = Append(recorded, clock)
          /\ unsent' = unsent \ {"audio"}
          /\ UNCHANGED <<clock, gaps, pushed, encoding, event_rx>>

Tick == /\ Streaming
        /\ clock < MaxTime
        /\ clock' = clock + 1
        /\ gaps' = IF "audio" \in unsent THEN gaps + 1 ELSE gaps
        /\ unsent' = PerTick
        /\ UNCHANGED <<recorded, pushed, encoding, event_rx>>

StampFrame == /\ Streaming
              /\ encoding["video"] = 0
              /\ "video" \in unsent /\ clock <= MaxFrames
              /\ encoding' = [encoding EXCEPT !["video"] = clock]
              /\ unsent' = unsent \ {"video"}
              /\ UNCHANGED <<clock, recorded, gaps, pushed, event_rx>>

SendFrame == /\ Streaming /\ Room
             /\ encoding["video"] # 0
             /\ event_rx' = Append(event_rx, [ev |-> "VideoFrame", pts |-> encoding["video"]])
             /\ encoding' = [encoding EXCEPT !["video"] = 0]
             /\ UNCHANGED <<device, pushed>>

EncodeFails == /\ Streaming
               /\ encoding["video"] # 0
               /\ encoding' = [encoding EXCEPT !["video"] = 0]
               /\ UNCHANGED <<device, pushed, event_rx>>

\* next_frame returned the oldest chunk that waits in the loopback channel.
StampChunk == /\ Streaming
              /\ encoding["audio"] = 0
              /\ pushed < Len(recorded)
              /\ encoding' = [encoding EXCEPT !["audio"] = clock]
              /\ UNCHANGED <<device, pushed, event_rx>>

SendChunk == /\ Streaming /\ Room
             /\ encoding["audio"] # 0
             /\ event_rx' = Append(event_rx, [ev |-> "AudioChunk", pts |-> encoding["audio"],
                                              samples |-> pushed + 1])
             /\ pushed' = pushed + 1
             /\ encoding' = [encoding EXCEPT !["audio"] = 0]
             /\ UNCHANGED device

StreamEnds == /\ Streaming
              /\ event_rx' = Append(event_rx, Disconnected)
              /\ UNCHANGED host

Source == /\ \/ Record \/ Tick \/ StampFrame \/ SendFrame \/ EncodeFails
             \/ StampChunk \/ SendChunk \/ StreamEnds
          /\ UNCHANGED <<received, pc, disconnected, buffer, video_queue, audio_prebuf, shown,
                         due, sound>>

--------------------------------------------------------------------------------
(* The player's thread and its device callback (player.rs), opened with no      *)
(* prebuffer of its own.  The callback takes what is there and fills the rest   *)
(* with silence, which is not counted.                                          *)

StreamPlays == /\ player = "opening"
               /\ player' = "running"
               /\ UNCHANGED <<acc, played, audio_base_pts>>

\* The thread returns and nobody is told: its receiver is gone, pushes are ignored.
DeviceFails == /\ DeviceMayFail
               /\ player = "opening"
               /\ player' = "dead"
               /\ acc' = <<>>
               /\ UNCHANGED <<played, audio_base_pts>>

\* The error callback only prints; the device may not call back again.
DeviceStalls == /\ DeviceMayFail
                /\ player = "running"
                /\ player' = "stalled"
                /\ UNCHANGED <<acc, played, audio_base_pts>>

Callback == /\ player = "running"
            /\ acc # <<>>
            /\ acc' = Tail(acc)
            /\ played' = played + 1
            /\ UNCHANGED <<player, audio_base_pts>>

BesideTheWindow == /\ pc # "exited"
                   /\ UNCHANGED <<host, event_rx, received, pc, disconnected, buffer,
                                  video_queue, audio_prebuf, shown, due>>
DeviceWorks == BesideTheWindow /\ (StreamPlays \/ DeviceFails \/ Callback)
Device == DeviceWorks \/ (BesideTheWindow /\ DeviceStalls)

--------------------------------------------------------------------------------
(* A turn of the event loop: drain_events, one event after the other ...        *)

FramesInCache(fps) == CacheSecs * MaxOf(fps, 1)
QueueCapTooSmall(frames) == IF frames > 1 THEN frames - 1 ELSE QueueDefault
QueueCap(frames) == MaxOf(frames * 2, QueueDefault)

DrainStreamInfo(e) ==
    /\ e \in StreamInfo
    /\ prebuffering' = TRUE
    /\ prebuffer_target' = MaxOf(FramesInCache(e.fps), 1)
    /\ video_queue_cap' = QueueCap(FramesInCache(e.fps))
    /\ video_queue' = <<>>
    /\ audio_prebuf' = <<>>
    /\ player' = "none" /\ acc' = <<>> /\ played' = 0 /\ audio_base_pts' = 0
    /\ chunks' = <<>> /\ first_pts' = 0
    /\ UNCHANGED disconnected

\* The oldest frame makes room when the queue is at its ceiling.
EnqueueUncapped(queue, frame) == Append(queue, frame)
EnqueueFirst(queue, frame) == <<frame>> \o (IF Len(queue) >= video_queue_cap THEN Tail(queue) ELSE queue)
Enqueue(queue, frame) == Append(IF Len(queue) >= video_queue_cap THEN Tail(queue) ELSE queue, frame)

DrainVideoFrame(e) ==
    /\ e \in VideoFrame
    /\ video_queue' = Enqueue(video_queue, e.pts)
    /\ UNCHANGED <<disconnected, buffer, audio_prebuf, sound, received>>

\* The player's channel has a receiver.
Listening == player \in {"opening", "running", "stalled"}

DrainAudioChunk(e) ==
    /\ e \in AudioChunk
    /\ chunks' = Append(chunks, e.samples)
    /\ first_pts' = IF chunks = <<>> THEN e.pts ELSE first_pts
    /\ IF prebuffering
       THEN /\ audio_prebuf' = Append(audio_prebuf, [pts |-> e.pts, samples |-> e.samples])
            /\ UNCHANGED acc
       ELSE /\ acc' = IF Listening THEN Append(acc, e.samples) ELSE acc
            /\ UNCHANGED audio_prebuf
    /\ UNCHANGED <<disconnected, buffer, video_queue, player, played, audio_base_pts>>

DrainDisconnected(e) ==
    /\ e = Disconnected
    /\ disconnected' = TRUE
    /\ UNCHANGED <<buffer, video_queue, audio_prebuf, sound, received>>

DrainEvent == /\ pc = "draining"
              /\ event_rx # <<>>
              /\ \/ DrainStreamInfo(Head(event_rx))
                 \/ DrainVideoFrame(Head(event_rx))
                 \/ DrainAudioChunk(Head(event_rx))
                 \/ DrainDisconnected(Head(event_rx))
              /\ event_rx' = Tail(event_rx)
              /\ UNCHANGED <<host, pc, shown, due>>

Drained == /\ pc = "draining"
           /\ event_rx = <<>>
           /\ pc' = IF prebuffering THEN "advancing" ELSE "showing"
           /\ UNCHANGED <<host, event_rx, received, disconnected, buffer, video_queue,
                          audio_prebuf, shown, due, sound>>

--------------------------------------------------------------------------------
(* ... then advance_video, then the end of the turn or of the window.           *)

EndTurn == pc' = IF disconnected THEN "exited" ELSE "draining"

KeepBuffering == /\ pc = "advancing"
                 /\ Len(video_queue) < prebuffer_target
                 /\ EndTurn
                 /\ UNCHANGED <<host, event_rx, received, disconnected, buffer, video_queue,
                                audio_prebuf, shown, due, sound>>

\* The pts of the first chunk held, or 0.
AnchorLast == IF audio_prebuf = <<>> THEN 0 ELSE audio_prebuf[Len(audio_prebuf)].pts
Anchor == IF audio_prebuf = <<>> THEN 0 ELSE Head(audio_prebuf).pts

OpenPlayerUnflushed == /\ player' = "opening"
                       /\ audio_base_pts' = Anchor
                       /\ acc' = <<>>
                       /\ audio_prebuf' = <<>>
                       /\ played' = 0

Samples(held) == [i \in DOMAIN held |-> held[i].samples]

\* CpalPlayer::new returned Ok; its thread has yet to open the device.
OpenPlayer == /\ player' = "opening"
              /\ audio_base_pts' = Anchor
              /\ acc' = Samples(audio_prebuf)
              /\ audio_prebuf' = <<>>
              /\ played' = 0

NoPlayer == UNCHANGED <<sound, audio_prebuf>>

StartPlayback == /\ pc = "advancing"
                 /\ Len(video_queue) >= prebuffer_target
                 /\ prebuffering' = FALSE
                 /\ due' = TRUE
                 /\ OpenPlayer \/ NoPlayer
                 /\ pc' = "showing"
                 /\ UNCHANGED <<host, event_rx, received, disconnected, prebuffer_target,
                                video_queue_cap, video_queue, shown>>

AudioPtsAhead == audio_base_pts + played + Len(acc)
AudioPts == audio_base_pts + played

DueFramesStrict == CHOOSE n \in 0 .. Len(video_queue) :
                      /\ \A i \in 1 .. n : AudioPts > video_queue[i]
                      /\ n < Len(video_queue) => AudioPts <= video_queue[n + 1]

\* The number of frames at the front of the queue that are due.
DueFrames == CHOOSE n \in 0 .. Len(video_queue) :
                /\ \A i \in 1 .. n : AudioPts >= video_queue[i]
                /\ n < Len(video_queue) => AudioPts < video_queue[n + 1]

Blit(n) == /\ shown' = IF n = 0 THEN shown ELSE video_queue[n]
           /\ video_queue' = SubSeq(video_queue, n + 1, Len(video_queue))

ShowByAudio == /\ player # "none"
               /\ Blit(DueFrames)
               /\ UNCHANGED due

\* After a frame next_frame_due may already have passed.
ShowByWall == /\ player = "none"
              /\ IF due /\ video_queue # <<>>
                 THEN Blit(1) /\ due' \in BOOLEAN
                 ELSE UNCHANGED <<video_queue, shown, due>>

Show == /\ pc = "showing"
        /\ ShowByAudio \/ ShowByWall
        /\ EndTurn
        /\ UNCHANGED <<host, event_rx, received, disconnected, buffer, audio_prebuf, sound>>

WallClock == /\ ~due /\ pc # "exited"
             /\ due' = TRUE
             /\ UNCHANGED <<host, event_rx, received, pc, disconnected, buffer, video_queue,
                            audio_prebuf, shown, sound>>

\* CloseRequested, or D in the menu.
UserLeaves == /\ pc = "draining" /\ ~disconnected
              /\ disconnected' = TRUE
              /\ UNCHANGED <<host, event_rx, received, pc, buffer, video_queue, audio_prebuf,
                             shown, due, sound>>

AboutToWait == DrainEvent \/ Drained \/ KeepBuffering \/ StartPlayback \/ Show

Next == Source \/ Device \/ AboutToWait \/ WallClock \/ UserLeaves

Spec == Init /\ [][Next]_vars

(* The event loop wakes every few milliseconds, the device calls back while it  *)
(* works, time passes.  Nothing is asked of the host: sound may stop for ever.  *)
Fairness == /\ WF_vars(AboutToWait)
            /\ WF_vars(DeviceWorks)
            /\ WF_vars(WallClock)

FairSpec == Spec /\ Fairness

--------------------------------------------------------------------------------
(* Type invariant: every variable keeps its type, and the video queue is never  *)
(* longer than its ceiling (video_queue_cap).                                   *)
TypeOK == /\ clock \in Stamps /\ unsent \subseteq PerTick
          /\ recorded \in Seq(Stamps) /\ gaps \in Nat
          /\ pushed \in Nat /\ encoding \in [Media -> {0} \cup Stamps]
          /\ event_rx \in Seq(Events)
          /\ chunks \in Seq(Nat) /\ first_pts \in {0} \cup Stamps
          /\ pc \in {"draining", "advancing", "showing", "exited"}
          /\ disconnected \in BOOLEAN
          /\ prebuffering \in BOOLEAN
          /\ prebuffer_target \in Nat \ {0} /\ video_queue_cap \in Nat \ {0}
          /\ video_queue \in Seq(Stamps) /\ Len(video_queue) <= video_queue_cap
          /\ audio_prebuf \in Seq(Chunk)
          /\ shown \in {0} \cup Stamps
          /\ due \in BOOLEAN
          /\ player \in {"none", "opening", "running", "stalled", "dead"}
          /\ acc \in Seq(Nat)
          /\ played \in Nat
          /\ audio_base_pts \in {0} \cup Stamps

(* No sound is lost, repeated or reordered between the device that recorded it, *)
(* the channel, the prebuffer and the player: the n-th chunk received is the    *)
(* n-th recorded, and what was received is what was played and what waits, in   *)
(* order, across the hand-over at the start of playback.                        *)
SoundInOrder ==
    /\ \A n \in DOMAIN chunks : n <= Len(recorded) /\ chunks[n] = n
    /\ prebuffering => Samples(audio_prebuf) = chunks
    /\ Listening => /\ played <= Len(chunks)
                    /\ acc = SubSeq(chunks, played + 1, Len(chunks))

\* When the sound that is up next was recorded, and how long after its recording
\* the chunk that anchors the clock was stamped.
UpNext == recorded[Head(acc)]
AnchorLateness == IF audio_base_pts = 0 THEN 0 ELSE first_pts - recorded[Head(chunks)]

(* A frame is shown before the sound recorded with it is up next by no more     *)
(* than the time the first chunk waited for its stamp in the loopback channel:  *)
(* the lead does not grow, however late the chunks after it are stamped and     *)
(* however many of them carry one stamp.                                        *)
NeverBeforeSound == player # "none" /\ acc # <<>> => shown <= UpNext + AnchorLateness

(* That lead apart, the anchored clock is at the recording of the sound that is *)
(* up next, or behind it by no more than the ticks for which no chunk came.     *)
ClockFollowsSound ==
    Listening /\ audio_base_pts # 0 /\ acc # <<>> =>
        UpNext + AnchorLateness - AudioPts \in 0 .. gaps

(* Frames are shown in the order they were stamped, each after those before:    *)
(* nothing that waits in the queue or the channel is older than the picture.    *)
PictureInOrder ==
    \A i \in 1 .. Len(video_queue) :
        /\ shown < video_queue[i]
        /\ i > 1 => video_queue[i - 1] < video_queue[i]

Queued(f) == f \in {video_queue[i] : i \in DOMAIN video_queue}

(* A frame does not wait for ever once the sound that was received takes the    *)
(* clock to its stamp: it is shown, or makes room for newer ones.  Without a    *)
(* player it waits for the wall clock only.  If the sound ends before, or the   *)
(* device does not play, nothing is claimed: the frame is never shown.          *)
Reached(f) == player = "none" \/ audio_base_pts + Len(chunks) >= f
FramesShown ==
    \A f \in Stamps :
        (Queued(f) /\ ~prebuffering /\ Reached(f))
            ~> (~Queued(f) \/ player \in {"stalled", "dead"} \/ pc = "exited")

(* A prebuffer that has as many frames as it asked for ends: playback starts.   *)
(* The ceiling of the queue leaves room for the target.                         *)
LastFrameArrives == /\ event_rx # <<>> /\ Head(event_rx) \in VideoFrame
                    /\ Len(video_queue) + 1 >= prebuffer_target
PlaybackStarts == LastFrameArrives ~> (~prebuffering \/ pc = "exited")

(* "Fallback (no audio): wall-clock pacing at the declared fps": with playback  *)
(* started, a queued frame is shown whether there is sound or not.              *)
ShownWithoutSound ==
    \A f \in Stamps : (Queued(f) /\ ~prebuffering) ~> (shown >= f \/ pc = "exited")
================================================================================
