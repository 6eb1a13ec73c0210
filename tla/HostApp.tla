------------------------------- MODULE HostApp -------------------------------
(* The host's user interface (main.rs): the selection of a region on one of the *)
(* displays, the capture thread that runs while the region is shared, the       *)
(* keyboard hook that ends a capture (hotkey.rs), and the end of the program.   *)
(*                                                                              *)
(* Everything but the capture threads runs on the event loop's thread: it       *)
(* handles window events one by one and calls about_to_wait between batches of  *)
(* them.  A position is a display and a place on it, the window it was reported *)
(* by telling the display; two different places are far enough apart to make a  *)
(* region.  Captures are numbered, and a number stands for the capture's        *)
(* region, its stop flag and its thread.                                        *)
EXTENDS Naturals

CONSTANTS Displays,
          Places,       \* places on a display
          Lively,       \* displays whose picture never stays the same for long
          MaxCaptures,  \* bound of the model: no region is selected after that many captures
          None          \* the code's None

ASSUME LivelyAssumption == Lively \subseteq Displays
ASSUME MaxCapturesAssumption == MaxCaptures \in Nat
ASSUME NoneAssumption == None \notin Displays \cup (Displays \X Places)

VARIABLES
    ui,            \* the event loop: "events", "joining" a capture thread, "exited"
    phase,         \* App.phase: "selecting", "capturing"
    next_phase,    \* App.next_phase
    drag_display, drag_start, cursor,  \* the fields of Phase::Selecting
    grab,          \* the selector window that holds the mouse, button pressed
    captures,      \* number of captures so far, the last one the current
    display,       \* display[g]: where capture g takes its frames
    thread,        \* thread[g]: the capture thread
    stop,          \* captures whose stop flag is set
    hook,          \* the capture the hook's pointers belong to, 0 for null
    esc,           \* the hook saw an Esc less than 400 ms ago
    quit,          \* App.quit
    dims           \* Broadcaster.stream_dims: a capture's, 0 for (0, 0, 0)

vars == <<ui, phase, next_phase, drag_display, drag_start, cursor, grab, captures,
          display, thread, stop, hook, esc, quit, dims>>
selection == <<drag_display, drag_start, cursor, grab>>
capture == <<captures, display, thread, stop, hook, esc, dims>>

Captures == 1 .. MaxCaptures
Positions == Displays \X Places

\* What next_phase can hold; PendingPhase::Capturing has the points of its region.
NoChange == [to |-> "same"]
ToSelecting == [to |-> "selecting"]
ToCapturing == [to : {"capturing"}, on : Displays, from : Positions, upTo : Positions]

ThreadStates == {"none", "starting", "looping", "grabbing", "encoding", "failed", "ended"}

\* The capture's thread is at work.
Live(g) == thread[g] \in {"starting", "looping", "grabbing", "encoding"}

Init == /\ ui = "events"
        /\ phase = "selecting"
        /\ next_phase = NoChange
        /\ drag_display = None /\ drag_start = None /\ cursor = None
        /\ grab = None
        /\ captures = 0
        /\ display = [g \in Captures |-> None]
        /\ thread = [g \in Captures |-> "none"]
        /\ stop = {}
        /\ hook = 0
        /\ esc = FALSE
        /\ quit = FALSE
        /\ dims = 0

--------------------------------------------------------------------------------
(* Window events while selecting.                                               *)

Selecting == ui = "events" /\ phase = "selecting"

\* make_capture_phase: two points, far enough apart.
MakeCapturePhaseUnchecked(d, a, b) ==
    IF b # None THEN [to |-> "capturing", on |-> d, from |-> a, upTo |-> b] ELSE NoChange
MakeCapturePhase(d, a, b) ==
    IF a # None /\ b # None /\ a # b
    THEN [to |-> "capturing", on |-> d, from |-> a, upTo |-> b]
    ELSE NoChange

\* While the button is held the pressed window gets the mouse's events.
CursorMoved(d, p) ==
    /\ Selecting
    /\ grab \in {None, d}
    /\ cursor' = <<d, p>>
    /\ UNCHANGED <<ui, phase, next_phase, drag_display, drag_start, grab, capture, quit>>

Press(d) ==
    /\ Selecting
    /\ grab = None
    /\ cursor \in {None} \cup ({d} \X Places)
    /\ drag_display' = d
    /\ drag_start' = cursor
    /\ grab' = d
    /\ UNCHANGED <<ui, phase, next_phase, cursor, capture, quit>>

Release(d) ==
    /\ Selecting
    /\ grab = d
    /\ captures < MaxCaptures
    /\ next_phase' = MakeCapturePhase(d, drag_start, cursor)
    /\ grab' = None
    /\ UNCHANGED <<ui, phase, drag_display, drag_start, cursor, capture, quit>>

Escape ==
    /\ Selecting
    /\ drag_start' = None
    /\ UNCHANGED <<ui, phase, next_phase, drag_display, cursor, grab, capture, quit>>

\* Enter in the selector window that has the keyboard.
Enter(d) ==
    /\ Selecting
    /\ captures < MaxCaptures
    /\ next_phase' = MakeCapturePhase(d, drag_start, cursor)
    /\ UNCHANGED <<ui, phase, selection, capture, quit>>

CtrlQ ==
    /\ Selecting
    /\ quit' = TRUE
    /\ UNCHANGED <<ui, phase, next_phase, selection, capture>>

--------------------------------------------------------------------------------
(* The keyboard hook, called on the event loop's thread.                        *)

HookEsc ==
    /\ ui = "events"
    /\ hook # 0
    /\ esc' = ~esc
    /\ stop' = IF esc THEN stop \cup {hook} ELSE stop
    /\ UNCHANGED <<ui, phase, next_phase, selection, captures, display, thread, hook, quit, dims>>

\* 400 ms have passed since the last Esc.
EscExpires ==
    /\ esc
    /\ esc' = FALSE
    /\ UNCHANGED <<ui, phase, next_phase, selection, captures, display, thread, stop, hook,
                   quit, dims>>

HookCtrlQ ==
    /\ ui = "events"
    /\ hook # 0
    /\ quit' = TRUE
    /\ stop' = stop \cup {hook}
    /\ UNCHANGED <<ui, phase, next_phase, selection, captures, display, thread, hook, esc, dims>>

--------------------------------------------------------------------------------
(* about_to_wait.                                                               *)

\* What follows the phase change: a quit ends the event loop, a stop flag asks
\* for the selection (entered the next time).
FinishTurnNeverQuits(newPhase) ==
    /\ ui' = "events"
    /\ next_phase' = IF ~quit /\ newPhase = "capturing" /\ captures \in stop
                     THEN ToSelecting ELSE NoChange
FinishTurn(newPhase) ==
    /\ ui' = IF quit THEN "exited" ELSE "events"
    /\ next_phase' = IF ~quit /\ newPhase = "capturing" /\ captures \in stop
                     THEN ToSelecting ELSE NoChange

Turn ==
    /\ ui = "events"
    /\ next_phase = NoChange
    /\ FinishTurn(phase)
    /\ UNCHANGED <<phase, selection, capture, quit>>

\* enter_capturing: the selector windows go, a thread and a hook come.
EnterCapturingLateDims ==
    /\ ui = "events"
    /\ next_phase \in ToCapturing
    /\ captures' = captures + 1
    /\ display' = [display EXCEPT ![captures + 1] = next_phase.on]
    /\ thread' = [thread EXCEPT ![captures + 1] = "starting"]
    /\ hook' = captures + 1
    /\ esc' = FALSE
    /\ dims' = captures
    /\ phase' = "capturing"
    /\ drag_display' = None /\ drag_start' = None /\ cursor' = None /\ grab' = None
    /\ ui' = IF quit THEN "exited" ELSE "events"
    /\ next_phase' = NoChange
    /\ UNCHANGED <<stop, quit>>
EnterCapturing ==
    /\ ui = "events"
    /\ next_phase \in ToCapturing
    /\ captures' = captures + 1
    /\ display' = [display EXCEPT ![captures + 1] = next_phase.on]
    /\ thread' = [thread EXCEPT ![captures + 1] = "starting"]
    /\ hook' = captures + 1
    /\ esc' = FALSE
    /\ dims' = captures + 1
    /\ phase' = "capturing"
    /\ drag_display' = None /\ drag_start' = None /\ cursor' = None /\ grab' = None
    /\ ui' = IF quit THEN "exited" ELSE "events"
    /\ next_phase' = NoChange
    /\ UNCHANGED <<stop, quit>>

\* enter_selecting, up to the join of the capture thread.
BeginSelectingKeepingHook ==
    /\ ui = "events"
    /\ next_phase = ToSelecting
    /\ phase' = "selecting"
    /\ dims' = 0
    /\ stop' = stop \cup {captures}
    /\ next_phase' = NoChange
    /\ ui' = "joining"
    /\ UNCHANGED <<selection, captures, display, thread, hook, esc, quit>>
BeginSelecting ==
    /\ ui = "events"
    /\ next_phase = ToSelecting
    /\ phase' = "selecting"
    /\ dims' = 0
    /\ hook' = 0
    /\ stop' = stop \cup {captures}
    /\ next_phase' = NoChange
    /\ ui' = "joining"
    /\ UNCHANGED <<selection, captures, display, thread, esc, quit>>

\* The join returns: the selector windows come back.
FinishUnjoined ==
    /\ ui = "joining"
    /\ FinishTurn(phase)
    /\ UNCHANGED <<phase, selection, capture, quit>>
FinishSelecting ==
    /\ ui = "joining"
    /\ ~Live(captures)
    /\ FinishTurn(phase)
    /\ UNCHANGED <<phase, selection, capture, quit>>

--------------------------------------------------------------------------------
(* The capture threads; the process's end ends them.                            *)

ThreadGoes(g, from, to) ==
    /\ ui # "exited"
    /\ thread[g] = from
    /\ thread' = [thread EXCEPT ![g] = to]
    /\ UNCHANGED <<ui, phase, next_phase, selection, captures, display, hook, esc, quit, dims>>

\* new_capturer, which may fail: the thread returns.
StartCapturer(g) == /\ \E to \in {"looping", "failed"} : ThreadGoes(g, "starting", to)
                    /\ UNCHANGED stop

\* The loop's condition.
CheckStop(g) == /\ ThreadGoes(g, "looping", IF g \in stop THEN "ended" ELSE "grabbing")
                /\ UNCHANGED stop

\* next_frame returns: only when the display's picture has changed.
FrameArrives(g) == ThreadGoes(g, "grabbing", "encoding") /\ UNCHANGED stop

\* next_frame fails: the thread sets its own stop flag.
FrameFailsQuietly(g) == ThreadGoes(g, "grabbing", "ended") /\ UNCHANGED stop
FrameFails(g) == /\ ThreadGoes(g, "grabbing", "ended")
                 /\ stop' = stop \cup {g}

\* Delta detection, encoding, broadcast, and the rest of the 33 ms.
PushFrame(g) == ThreadGoes(g, "encoding", "looping") /\ UNCHANGED stop

--------------------------------------------------------------------------------

WindowEvent == \/ \E d \in Displays, p \in Places : CursorMoved(d, p)
               \/ \E d \in Displays : Press(d) \/ Release(d) \/ Enter(d)
               \/ Escape \/ CtrlQ

AboutToWait == Turn \/ EnterCapturing \/ BeginSelecting \/ FinishSelecting

ThreadStep(g) == StartCapturer(g) \/ CheckStop(g) \/ PushFrame(g)

Next == \/ WindowEvent
        \/ HookEsc \/ EscExpires \/ HookCtrlQ
        \/ AboutToWait
        \/ \E g \in Captures : ThreadStep(g) \/ FrameArrives(g) \/ FrameFails(g)

Spec == Init /\ [][Next]_vars

(* The event loop polls (ControlFlow::Poll), so about_to_wait is called again    *)
(* and again; threads run; a lively display delivers frames.  Of other displays, *)
(* and of the user, nothing is assumed.                                          *)
Fairness == /\ WF_vars(AboutToWait)
            /\ \A g \in Captures :
                 /\ WF_vars(ThreadStep(g))
                 /\ WF_vars(display[g] \in Lively /\ FrameArrives(g))

FairSpec == Spec /\ Fairness

--------------------------------------------------------------------------------
(* Properties.                                                                  *)

TypeOK == /\ ui \in {"events", "joining", "exited"}
          /\ phase \in {"selecting", "capturing"}
          /\ next_phase \in {NoChange, ToSelecting} \cup ToCapturing
          /\ drag_display \in {None} \cup Displays
          /\ drag_start \in {None} \cup Positions
          /\ cursor \in {None} \cup Positions
          /\ grab \in {None} \cup Displays
          /\ captures \in 0 .. MaxCaptures
          /\ display \in [Captures -> {None} \cup Displays]
          /\ thread \in [Captures -> ThreadStates]
          /\ stop \subseteq Captures
          /\ hook \in 0 .. captures
          /\ esc \in BOOLEAN
          /\ quit \in BOOLEAN
          /\ dims \in 0 .. captures

\* At most one capture thread is at work, the current capture's, and none while
\* the user selects the next region: two would interleave the frames of two
\* regions in the ring.
OneCapture ==
    \A g \in Captures :
        Live(g) => g = captures /\ (phase = "capturing" \/ ui = "joining")

\* What a joining client is told of the picture's size is of the region whose
\* frames are pushed, or nothing.
AdvertisedIsCaptured ==
    /\ dims # 0 => phase = "capturing"
    /\ \A g \in Captures : thread[g] = "encoding" => dims \in {0, g}

\* The raw pointers of the hook are to flags that App.phase keeps alive, and a
\* key pressed during a capture stops that capture.
HookValid == IF phase = "capturing" THEN hook = captures ELSE hook = 0

\* Once a capture's stop flag is set, by the hook or by the thread's own failure,
\* the user gets the selection back, and is not sent on to another phase before;
\* and a thread whose source fails while it runs does set it.
StopReturns ==
    /\ (phase = "capturing" /\ captures \in stop)
           ~> (phase = "selecting" /\ ui = "events") \/ ui = "exited"
    /\ \A g \in Captures :
         (g = captures /\ phase = "capturing" /\ thread[g] = "ended")
             ~> (phase = "selecting" \/ ui = "exited")

\* Ctrl+Q ends the program, whatever phase change is pending when it is pressed.
QuitExits == quit ~> ui = "exited"

--------------------------------------------------------------------------------
(* What the documentation and the comments say of the program.                  *)

\* main.rs:450 "capture thread exits in <= 33 ms", so the join returns.
JoinReturns == ui = "joining" ~> ui # "joining"
================================================================================
