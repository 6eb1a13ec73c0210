# screen-party, specified and verified

TLA+ models of [screen-party](../src), a host that shares a region of its screen, its
audio and a chat room with viewers over TCP, together with the TLC runs that check them
and TLAPS proofs about them. Paths below are relative to `src/crates/` unless they start
with `README`.

## The system

One process is the **host** (`party host`), one per viewer is a **client**
(`party client`). All threads communicate through mutexes, std channels, atomics and one
TCP connection per viewer.

| Component | State | Operations | Talks to |
|---|---|---|---|
| Stream cache `party/src/net/stream_cache.rs` | `slots`, `next_seq` under a mutex, a condition variable | `push`, `wait_from`, `snapshot_tail`, `collect` | producers: capture thread, audio thread; consumers: one send thread per viewer |
| Broadcaster `party/src/net/broadcaster.rs` | the lists `pending` and `clients`, `stream_dims`, a control queue (8) per viewer, a decision channel per pending client | `accept_loop`, `spawn_client`, `run_client` (handshake, probe, approval gate, registration), `send_loop`, `client_read_loop`, `broadcast`, `approve_pending`, `deny_pending`, `kick_client` | cache, host UI (chat events), clients |
| Host UI `party/src/main.rs` | `phase`, `next_phase`, the drag, `quit`, chat history | window events, `about_to_wait`, `enter_capturing`, `enter_selecting`, admin commands | broadcaster, hook, capture thread |
| Keyboard hook `capture/src/hotkey.rs` | thread-local raw pointers to the stop and quit flags, time of the last Esc | `install`, `hook_proc`, `drop` | host UI's flags |
| Capture thread and DXGI `main.rs:382`, `capture/src/platform/windows.rs` | the duplication, its stop flag | `next_frame`, feed, broadcast | delta detector, cache |
| Delta detector `capture/src/quadtree.rs` | previous frame | `feed`: quadtree of dirty rectangles | capture thread |
| Client network `party/src/net/client.rs` | session keys, timeouts | `run_network`: handshake, known-host check, probe, verdict, read loop; write thread | window, host |
| Viewer window `party/src/client_window.rs` | video queue, prebuffer, audio clock, chat | `drain_events`, `advance_video`, window events | network threads, audio player |
| Audio `audio/src/player.rs`, `loopback.rs` | sample accumulator and counter; capture channel | callbacks, `push`, `next_frame` | window; cache |
| Protocol, cipher, speed probe `party/src/net/{proto,cipher,speed_test}.rs` | nonce counters, a buffered record | framing, encode and decode, `EncryptedReader`, `EncryptedWriter`, probe | both ends of a connection |
| Identity `party/src/identity.rs` | `~/.screen-party/known_hosts`, the key file | check, save, confirm, key generation | client network, host start-up |

What is hard here: two threads per viewer and the host user edit the same two lists in any
order; a verdict travels over its own channel to a thread that reads nothing else; control
messages are dropped when a queue is full, and dropping the queue itself is a signal;
producers unlock before they notify; a slow reader is lapped by the ring; the user
interface joins a thread that may be blocked in the operating system; a key hook writes
through raw pointers; the process may end while messages are on their way. The hazards
are listed with their lines in `PROJECT.json`.

What makes each part correct:

- *Cache*: a reader gets a contiguous, ordered run of entries; loss only when a whole ring
  behind; no lost wakeup; a stalled reader disturbs nobody.
- *Sessions*: nobody streams unapproved; a verdict reaches exactly its thread; the lists
  are exact; nobody is dropped but for cause; a viewer that is gone leaves nothing behind;
  the end of a session reaches the viewer.
- *Host UI*: one capture thread; advertised dimensions belong to the frames pushed; the
  hook's pointers are valid; stop, failure and quit take effect.
- *Playback*: sound reaches the device complete and in order; the clock frames are shown by
  stays with the sound, so that a frame is never further ahead of its sound than it was at
  the start; frames are shown in order, and as far as the sound goes they are shown at all.
- *Deltas*: the rectangles cover every change, once; a viewer's pixel is stale only where
  the entry that changed it was lost; one that has caught up sees the screen.
- *Transport*: what is read is what was written, across the change from plain to sealed
  and from one reader to the next; the counters stay in step; the probe ends.
- *Known hosts*: nothing is accepted silently that no user confirmed, and one fingerprint
  per address.

## Modules

| Module | Models | Composition |
|---|---|---|
| `StreamLog` | abstract: a growing log with a position per reader and bounded loss | implemented by `StreamCache` |
| `StreamCache` | the ring, its lock and condition variable, producers and send threads | `Log == INSTANCE StreamLog` under a refinement mapping |
| `Broadcaster` | a viewer's session end to end: host thread, read thread, lists, host user, client thread, window, network | `Abstract == INSTANCE Session` under a refinement mapping |
| `Session` | abstract: a viewer's seat at the host and its screen | implemented by `Broadcaster` |
| `HostApp` | the event loop's phases, the drag, the hook, the capture threads | |
| `ClientPlayback` | the stream from the host's stamps to the viewer's screen and device: recording, stamping, channel from the network thread, prebuffer, queue, player and its clock | |
| `QuadTree` | `feed`'s comparison of two frames and its split, with a reference definition | pure |
| `DeltaStream` | the picture from the captured frame to the viewer's buffer | EXTENDS `QuadTree`; `Ring == INSTANCE StreamLog` as the ring, which `StreamCache` implements |
| `Transport` | a connection's messages, records and counters, the probe, both ends' reads and writes | |
| `KnownHosts` | the programs of one user that share `identity.asc` and `known_hosts` | |
| `MC…` | instances for TLC | EXTEND the module of that name |
| `…Proof` | theorems | EXTEND the module and TLAPS |

### StreamCache

An entry is the number of the push that stored it, so "the right bytes" becomes "slot
`s % Capacity` holds `s`". One action is one critical section: `Push` is everything up to
`drop(inner)`, `NotifyAll` comes later and separately. `WaitFrom` is `wait_timeout_while`
up to the return or the first block; `WakeUp` is the re-check with the lock after a
notification; `TimeOut` returns with whatever there is. `batch` is what `collect` returned
and `send_loop` has not yet written, `WriteEntry` one `write_msg` of it. `last` only
remembers the last entry written. `RingAndBatches` is about the ring and what was taken
from it at once: slots hold the tail, batches are faithful copies. The refinement maps a
reader to the next entry it will write: collecting is a jump or a stutter, writing is a
delivery.

### Broadcaster

`hpc[c]` is where the thread of connection `c` (`run_client`, then the clean-up in
`spawn_client`) is; `rpc[c]` the read thread; `cpc[c]` the client's network thread and,
at its end, its process. A step is the code between two points where the thread blocks or
takes a list's lock. The lists are functions giving each entry the number of its push
(0: not on the list), so "first match of `position`" is the least number among the
fingerprints that have the prefix. `ctrl[c]` is the control queue, bounded by `CtrlQueue`;
its sender lives in the list's entry, so the send loop sees `Disconnected` once the entry
is gone and the queue empty (`ControlClosed`), and `try_send` sees it once `send_loop` has
returned (`HasReceiver`). `decision[c]` is what was sent on the decision channel.

The network: `up` and `down` are FIFO; a message to a peer that is gone is lost, a client
that closes drops what it has not read, `Reset` may lose both directions at any moment.
The host's socket is open while its thread or its read thread has a descriptor
(`HostHolds`): `run_client` clones the stream, which is why a kick that drops its
Disconnect leaves the viewer connected. Timeouts of the handshake (15 s), the probe (60 s)
and the verdict (300 s) may fire whenever nothing is there to be read. The probe's burst
of messages is one PROBE and one REPORT. Chat and commands are possible at any time: in
the program they need the chat window, which exists while a region is captured.

`Session` says what all of this is to the two people: a seat (`none`, `waiting`,
`approved`, `denied`, `seated`, `left`, `failed`) and a screen (`dark`, `live`, `off`).
`SeatOf` and `ScreenOf` read them off the lists, the verdict and the threads' places;
`approved` includes the moment between `STREAM_INFO` and the registration, when the
connection is on neither list.

### HostApp

The event loop's thread handles window events while `ui = "events"`, is blocked in
`enter_selecting`'s join while `ui = "joining"`, and is over at `"exited"`. `about_to_wait`
is one action per branch (`Turn`, `EnterCapturing`, `BeginSelecting` + `FinishSelecting`
around the join), each with the checks of quit and stop that follow. Captures are
numbered; a number stands for region, stop flag and thread. A position is the display
whose window reported it and a place on it; two different places are at least 8 pixels
apart in both directions. While the mouse button is held its window receives the mouse's
events, and a press comes from the window the mouse is in. `esc` is "an Esc was seen less
than 400 ms ago"; `EscExpires` lets the time pass.

### ClientPlayback

Time is counted in chunks: it takes the host's device a tick of the clock to record one, and
a chunk's samples are worth a tick to the player, so the position
`base + samples * 1_000_000 / rate` becomes `audio_base_pts + played`. A frame is its stamp, a
chunk's samples are its number.

The two threads of the host do not wait for each other. The capture thread stamps a frame,
encodes it, and pushes it if that succeeds (`StampFrame`, `SendFrame`, `EncodeFails`). The
device puts chunks into the loopback channel (`Record`); the audio thread stamps the oldest
one when it takes it out (`StampChunk`, `main.rs:1020`) and pushes it (`SendChunk`). A chunk
may wait in the channel for as long as it likes, so stamps of sound are late, several chunks
may get the same one, and sound stamped after a frame may overtake it. `recorded` is when
each chunk was really recorded. A tick without a chunk is a silent device, sound that has
ended (`main.rs:1023`), or a chunk lost to a viewer that was lapped, which is the same to that
viewer as if it had not been recorded; `gaps` counts these ticks. A tick without a frame is a
picture that did not change.

A turn of the event loop is `DrainEvent` until the channel is empty, then `advance_video`:
`KeepBuffering`, or `StartPlayback` and `Show`, or `Show`; `pc` is where it is. The other
threads act in between. The player has a thread that opens the device after `CpalPlayer::new`
has returned (`StreamPlays`, `DeviceFails`) and a callback that takes a chunk if there is one;
a device may stop calling back (`DeviceStalls`), of which the error callback only prints.
Without a player the wall clock paces frames: `due` is `now >= next_frame_due`, and after a
frame it may be so again or not. `StreamInfo` comes once and first, with the frame rate of a
host that shares or 0.

What the code promises about sound and picture depends on the first stamp alone. It anchors
the clock, and from there the clock counts samples: `AnchorLateness`, how long the first chunk
had waited for its stamp, is the lead of the picture over the sound for as long as the
playback lasts, and nothing bounds it but the first chunk's wait. The stamps of the chunks
after it are never looked at. `NeverBeforeSound` and `ClockFollowsSound` say that this lead
does not grow, whatever the later stamps are, and that the clock falls behind by gaps only.
Idealised are the rates: both devices take a tick for a chunk, and the callback takes whole
chunks.

### QuadTree and DeltaStream

A frame is its size and one number per pixel, the channel that differs most. `Subdivide`
is the recursive split, as a recursive function over the tiles of a frame;
`IsDirtyCover` and `IsTight` say what its result must be as a relation between the two
frames. `CaptureFrame` is a whole turn of the capture thread: capture, `feed`, encode,
push, with the encoder failing at will. The ring is `StreamLog` with a viewer's position in
it, so a lapped viewer jumps. `Join` seeds a viewer from the ring's tail (`snapshot_tail`)
with a black buffer of the size in `STREAM_INFO`; `Receive` is an entry reaching the video
queue, whose ceiling drops the oldest; `Show` is `blit_frame`. `lost`, `unsent` and `quiet`
are history: the entries a viewer will never show, the pixels whose last change the encoder
lost, and how long a pixel has not been sent.

The detector compares with the frame before, not with what was sent: changes below the
noise floor add up unseen. `CaughtUpPicture` therefore allows the noise floor per quiet
frame, and is false with less.

### Transport

The unit is a cell, a byte of the program. `WritePlain` and `WriteSealed` are `write_msg`
with its flush; `TcpTakes` takes as much as there is room for. The reading side is layered
as in the code: `ReadPlain` from the socket; `FetchRecord` and `OpenRecord` for
`EncryptedReader`; `TakeAhead`, `PassBy`, `Fill` for the `BufReader` around it;
`RefuseLength` and `Deliver` for `read_msg`. `hostAt` and `clientAt` are where the two ends
are in the session, and `MayRead` says that a thread which is writing does not read.
`Handover` is `into_inner`: the read thread keeps the record reader and the `BufReader`'s
content is dropped. `Leave` is either end going at any point, in the middle of a message
too. Read timeouts end a thread like `Leave` does and have no action of their own.

### KnownHosts

`run[p]` is a program of the user, `at` where it is: a viewer loads or makes its identity,
calls a host, checks, asks, saves and goes on; a host loads; `host --generate-key`
overwrites. `fs::write` is two steps, so that a program may end with the file truncated. A
file that cannot be read makes `load_fingerprint` ask for a passphrase, and the prompt may
fail (`Unlock`); a generation may fail too (`CreateFails`), after which a viewer goes on
without a name and the wizard gives up. `TypeOK` says that this is the only way for a viewer
to be without a name (`identity.rs:193`).
`presented` changes at any moment, as hosts do. `known` is the file's lines in order, the
first of an address decides. Programs end anywhere and start again; users delete the file.

## Runs

| Run | Instance | Shows |
|---|---|---|
| `cache` | 2 producers, 2 readers of which one may stall, 3 slots, 7 pushes | `TypeOK`, `RingAndBatches`, `CursorNotAhead`, `LossOnlyWhenLapped`, the refinement `ImplementsLog`, and `CatchUp` |
| `session` | 2 connections, prefixes matching one and both, queue of 1, 1 chat line, one connection may be reset | `TypeOK`, `PendingExact`, `ViewersExact`, `GateHolds`, `ClosingIsLast`, `DroppedForCause` |
| `session_live` | 1 connection, queue of 1, 2 chat lines, resets | the refinement `ImplementsSession`, `ThreadsEnd`, `QueuedDisconnectArrives`, `QuitEndsViewers` |
| `host_ui` | 2 displays that keep changing, 2 places, 3 captures | `TypeOK`, `OneCapture`, `AdvertisedIsCaptured`, `HookValid`, `StopReturns`, `QuitExits` |
| `playback` | a clock from 2 to 4, a frame and a chunk per tick or none, stamps of sound late by up to 2 ticks, a queue of 2 or 4, 2 events waiting; the player's device works, fails or stalls | `TypeOK`, `SoundInOrder`, `NeverBeforeSound`, `ClockFollowsSound`, `PictureInOrder`, `FramesShown`, `PlaybackStarts` |
| `deltas` | a viewer, regions of 4×3 and 3×3 pixels with values 0 to 2, tiles of 1, noise floor 1, a ring of 2, a queue of 2, 4 frames in up to 2 captures | `TypeOK`, `DetectorExact`, `StaleOnlyWhereLost`, `CaughtUpPicture` |
| `transport` | 2 probe chunks, a read buffer of 3, TCP of 3 cells, payloads at the limit of 4, over it, and over the record's limit of 9; 2 messages down and 1 up in the stream | `TypeOK`, `InOrder`, `EndsOnlyByLimit`, `Arrives` |
| `known_hosts` | 2 programs, 2 addresses, 2 fingerprints one of which is empty, 2 keys, 2 lines; addresses and programs are symmetric | `TypeOK`, `AcceptedWasConfirmed`, `OnePin` |

`ThreadsEnd` also says that a viewer that is gone leaves the viewer list, and `StopReturns`
that a failing capture leads back to the selection.

**Bounds.** `MaxSeq` = 7 with 3 slots lets the ring wrap twice and a reader be lapped
twice; slots, `% Capacity` and clamping have no further case. Two connections are the
least at which an entry can be taken for another's, a relay can meet a foreign entry and
a prefix can be ambiguous; a queue of 1 overflows with 2 messages as one of 8 does with 9.
The refinement is checked with one connection, for time; `SessionRefined` proves it for any
number. `MaxChats` bounds chat lines by anybody; 1 fills a queue, and with a kick or quit
overflows it. Three captures give an old thread, a running one and a next one. In `playback`
three frames overrun the queue of 2 that a host without a frame rate gives, and the target is
1 or 2. Each of the three ticks has a chunk or a gap, so that sound starts late, is
interrupted or ends before the frames do; chunks are stamped each in its tick, or all at once
at the end, or the first late and the others not. In `deltas` two sizes, both with an odd side, are the least at which
halving leaves a pixel over, at which a second capture finds a buffer of another size, and
at which rectangles overlap in a picture as indices if the width is wrong; `DetectorExact`
goes through all patterns of changes of either. A ring of 2 and 4 frames lap a viewer, and
a queue of 2 overflows with the third entry. In `transport` TCP holds less than a message
and the buffer less than a probe's payload, so that every write blocks and each of the
three ways through the `BufReader` is taken; a message that fits its record but not the
limit, and one that fits neither, are both sent. In `known_hosts` two programs can ask
about one address at once, and two lines can contradict each other. The proofs
remove these bounds for the invariants they cover. Deadlock checking is off because the
system may stop: pushes and lines are bounded, processes end.

**Runs that disagree with the documentation.** Each checks what a line of the repository
says and TLC finds the code doing otherwise (details under `findings`):

| Run | The line | The code |
|---|---|---|
| `stale_pending` | `broadcaster.rs:233` clean up stale pending entries | the thread is in `recv`, the clean-up is not reached until a verdict |
| `kick_full_queue` | `README.md:67` `/kick` disconnects a viewer | with a full queue the Disconnect is dropped, the socket stays open |
| `static_screen` | `main.rs:450` the capture thread exits in 33 ms | `next_frame` does not return while nothing changes |
| `video_only` | `client_window.rs:179` without audio the wall clock paces; `main.rs:999` the host will stream video only | the player opens, its clock stays at 0, no frame is ever due |

Three more were met and have no run of their own; each is a hazard in `PROJECT.json` and a
step of a model: `broadcaster.rs:333` says a pending client is told when the host quits,
and nobody drops the sender before the process ends; `README.md:66` says a denied client is
shown the reason, and no event reaches its window; `main.rs:822` says Enter confirms the
drag whichever window gets it, and it takes that window's display.

**Fairness.** Threads that can run do (weak fairness of each thread's own steps), and a
TCP read timeout fires. In `StreamCache` nothing is assumed of the 20 ms timeout: a wakeup
that relied on it would be a lost one; and a viewer in `Slow` need not take data. In
`Broadcaster` nothing is assumed of users, of resets, or of failing writes: while nothing
is captured a send loop writes nothing. In `HostApp` `about_to_wait` is called again and
again because the control flow is `Poll`; frames are assumed to arrive only on displays in
`Lively`; nothing is assumed of the user. In `ClientPlayback` the event loop wakes within
10 ms, time passes, and the player's device opens or fails and calls back while it works;
it may stop for good. Nothing is assumed of the host: neither sound nor frames need go on.
`FramesShown` is conditional instead: a queued frame is shown, or makes room, if the sound
received reaches its stamp and the device goes on playing; beyond the end of the sound no
frame is ever shown. In `Transport` one weak fairness says that TCP carries and threads run as
long as any of them can; no choice among their steps can go on for ever, since each
consumes cells. It asks nothing of users: nobody has to answer, approve or write.
`DeltaStream` and `KnownHosts` state safety only.

## Proofs

Proved by TLAPS for every value of the constants.

- `StreamCacheProof` (any capacity, producers, readers, number of pushes). The inductive
  invariant adds to the properties that each cursor and batch lies within `0 .. next_seq`,
  that an empty slot has not been used yet, and ties `last` to the batch. Two facts carry
  it: two entries less than `Capacity` apart are in different slots (from division with
  remainder), and the clamp in `collect` keeps every number it reads within the last
  `Capacity`. Theorems: `TypeCorrect`, `RingFaithful`, `NoUnderflow`, `LossOnlyBehind`,
  and `CacheImplementsLog`, where every step of the cache is shown to be a step of
  `StreamLog` or a stutter.
- `BroadcasterProof` (any clients, fingerprints, prefixes, queue depth). The lists'
  exactness is not inductive by itself: it needs where each thread is in its life
  (`DecisionInv`, `GateInv`, `ThreadInv`), for instance that no verdict exists before the
  entry does and that an INFO on its way implies an approval. One lemma per thread or
  actor, one step per action. That a closing message is the last rests on who writes it: a
  thread that then returns, so what follows it on its way would have been written by a
  thread that is over; and chat is written only by `send_loop`, entered after STREAM_INFO.
  Theorems: `TypeCorrect`, `PendingListExact`, `ViewerListExact`, `ApprovalGate`,
  `OnlyKicked`, `ClosesLast`.
- `SessionProof` (the same constants) builds on that invariant: every step of
  `Broadcaster` moves one seat, unseats some viewers, changes one screen, or is a stutter
  of `Session`. The invariant is what makes the mapping work: a decided entry was waiting,
  an entry that leaves the list had been approved, and an INFO is read by approved viewers
  only. Theorem: `SessionRefined`.
- `HostAppProof` (any displays, places, number of captures). Needed besides the
  properties: a phase change is pending only in the phase it leaves, the loop joins only
  on the way to the selection, `dims` is 0 or the current capture. Theorems: `TypeCorrect`,
  `SingleCapture`, `DimsOfCapture`, `HookPointers`.
- `KnownHostsProof` (any programs, addresses, fingerprints, bounds). What is written has
  been confirmed, so the file holds confirmed lines only and a silent acceptance takes its
  fingerprint from it. For `OnePin` the invariant ties every silent acceptance to the first
  line of its address, which appending keeps (that there is a least line is
  well-foundedness of the numbers). A viewer's name is one that was generated, or its
  generation failed, through every step that fails or ends. Theorems: `TypeCorrect`,
  `SilentIsConfirmed`, `OnePinPerAddress`.

- `ClientPlaybackProof` (any frame rate, cache, length of stream, lateness of stamps). Three
  lines of things under way. Chunks, by number: received, in the channel, being encoded,
  waiting to be stamped (`ChannelInv`). The ticks at which they were recorded: two chunks are
  at least as many ticks apart as chunks, and the ticks that are too many are `gaps`
  (`RecordInv`); the player's clock and the recording of the chunk that is up next thus
  differ by the first chunk's lateness and gaps, and no later stamp occurs in the argument.
  Frames, by stamp: they ascend from the picture through the queue and the channel to the
  encoder and the host's clock (`FrameInv`). What was shown was due when it was shown, so the
  picture is never ahead of the clock (`PlayerInv`). STREAM_INFO is first in the channel, so
  nothing is judged by a rate that has not arrived (`PhaseInv`). Theorems: `TypeCorrect`,
  `NoSoundLost`, `NotBeforeItsSound`, `ClockLagsByGaps`, `FramesInOrder`. The assumption that
  the stream starts before `MaxTime` is about the model's bound only.
- `TransportProof` (any lengths, buffers, number of messages). The model keeps no history,
  so the invariant says that a layout exists: a function that gives, for each message of a
  direction, the number of cells before it. What was read ends at a message's end, or
  within the message being read; the reader's buffers, then the record under way, then the
  wire, then what is still to be written are the cells that follow, in this order. A
  reader is before a record, in it, or has opened it, and the counters of the two ends
  differ by the records between them. From that every record opens under the right
  counter and `read_msg` finds a header where a message starts, also after `into_inner`
  has dropped a buffer, for then it is empty. Theorems: `TypeCorrect`, `ReadsInOrder`,
  `StopsOnlyByLimit`.
- `DeltaStreamProof` (any frames, sizes, noise floor, threshold and smallest tile; any
  ring, queue, viewers). The detector first: tiles get smaller with every call, so the
  recursive function has a value that satisfies its equation for every tile, shown by
  induction over the sum of a tile's sides; the quadrants of a tile divide its pixels, so a
  call is exact if the calls it makes are. Then a message: row by row and back gives each
  pixel its own place, for whatever width. Then the state. A viewer's queue is a window on
  the log (`Window`): in order, after what is shown, and nothing is missing from it that is
  not lost; entries of a capture are together and of one size, that of the buffer which
  shows one of them (`LogOK`, `PictureOK`). When an entry is shown, the latest source of a
  pixel is either that entry, or lost, or was the latest before and its capture's picture
  is still in the buffer. On the host each pixel whose last change was pushed has a latest
  source, and one frame more puts it off by at most one noise floor more (`Tracked`).
  Theorems: `SubdivideCorrect` for any two frames, `TypeCorrect`, `DetectorCorrect`,
  `StaleOnlyIfLost`, `CaughtUpSeesScreen`, and `StreamFollowsLog`: joining at the ring's
  tail is being lapped before taking anything, so the stream is a behaviour of `StreamLog`,
  which `CacheImplementsLog` shows the ring to implement.

With these every invariant, every step property and both refinements that the passing runs
check are proved. Only model-checked: the liveness properties (`CatchUp`, `ThreadsEnd`,
`QueuedDisconnectArrives`, `QuitEndsViewers`, `StopReturns`, `QuitExits`, `FramesShown`,
`PlaybackStarts`, `Arrives`), since fairness is out of the prover's reach, and the runs
that expect a violation. The library's induction theorems take an operator, which the
provers cannot instantiate; where a proof needs induction (`AllNumbers` and `GreatestIs` in
`DeltaStreamProof`, least elements elsewhere) it is over a set of numbers, from the
well-foundedness of `<`.

Assumptions are those named in the modules: a capacity and a queue depth of at least 1
(`stream_cache.rs:37`, `broadcaster.rs:58`), constants of the right type, and in `Transport`
that a message that may be read fits its record (16 and 32 MiB).

## Plan

1. `ChatRoom`: histories of host and viewers, relays and queue overflow; trimming.
2. The safety half of the liveness properties, as theorems: a measure that no step of
   `Transport` lets stay (each consumes cells), and the steps a thread of `Broadcaster` can
   still take once its viewer is gone.

## Not modelled

- The answer to an acknowledgement that says the fingerprint was not confirmed
  (`broadcaster.rs:283`, HANDSHAKE_REJECT): the repository's client sends one only after it
  was confirmed, and `Broadcaster` and `Transport` have that client at the other end.
- The last frame of a stopped capture. `enter_selecting` zeroes the dimensions, then sets the
  stop flag and joins a thread that may push one frame more; in `DeltaStream` that frame comes
  before `StopCapture`. To a viewer the two orders differ only if it joins in between, and it
  finds that frame in the ring's tail then. `HostApp` has the thread's steps one by one.
- The chat panels: their lines, the input, the histories that are trimmed, and the 16-bit
  lengths of a chat message's fields on the wire. `Broadcaster` has the relay and the queues.
- The layouts of the payloads but the video frame's, and their decoders' checks.
- Statistics of the speed probe, and the parameters `for_resolution` chooses.
- Wording and retries of prompts; a line of `known_hosts` torn by a full disk.
- Sample values, how the loopback callback cuts them into frames of 20 ms, and the drift of
  one device's rate against the other's.
- Drawing and window creation (output only), command-line declarations, Direct3D calls,
  the macOS and Linux stubs (they return an error), and the cryptographic primitives.
- Threads that fail to spawn (`.ok()`) and poisoned mutexes.
