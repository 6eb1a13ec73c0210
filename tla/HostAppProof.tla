---------------------------- MODULE HostAppProof ----------------------------
(* Theorems about the host's user interface for any displays, any places on     *)
(* them and any number of captures.                                             *)
EXTENDS HostApp, TLAPS

--------------------------------------------------------------------------------
(* The inductive invariant: a phase change is asked for only in the phase it    *)
(* leaves, the event loop joins only while it enters the selection, and the     *)
(* dimensions that are advertised are the current capture's.                    *)

PendingInv == /\ next_phase \in ToCapturing => phase = "selecting" /\ captures < MaxCaptures
              /\ next_phase = ToSelecting => phase = "capturing"
JoinInv == ui = "joining" => phase = "selecting" /\ next_phase = NoChange
CurrentInv == /\ phase = "capturing" => captures # 0
              /\ dims # 0 => phase = "capturing" /\ dims = captures

IInv == TypeOK /\ OneCapture /\ HookValid /\ PendingInv /\ JoinInv /\ CurrentInv

\* None is not a position.
LEMMA Different ==
    /\ None \notin Displays
    /\ None \notin Positions
    /\ ToSelecting \notin ToCapturing
    /\ NoChange \notin ToCapturing
    /\ NoChange # ToSelecting
  <1>1. NoChange # ToSelecting
    <2>1. NoChange.to # ToSelecting.to
      BY DEF NoChange, ToSelecting
    <2> QED BY <2>1
  <1> QED BY <1>1, NoneAssumption DEF Positions, ToSelecting, ToCapturing, NoChange

\* A region that was selected has its display and its points.
LEMMA CapturePhaseType ==
    ASSUME TypeOK, NEW d \in Displays
    PROVE  MakeCapturePhase(d, drag_start, cursor) \in {NoChange} \cup ToCapturing
  BY DEF MakeCapturePhase, TypeOK, ToCapturing

LEMMA InitIInv == Init => IInv
  <1> SUFFICES ASSUME Init PROVE IInv
    OBVIOUS
  <1>1. TypeOK
    <2>1. /\ [g \in Captures |-> None] \in [Captures -> {None} \cup Displays]
          /\ [g \in Captures |-> "none"] \in [Captures -> ThreadStates]
      BY DEF ThreadStates
    <2>2. captures \in 0 .. MaxCaptures /\ hook \in 0 .. captures /\ dims \in 0 .. captures
      BY MaxCapturesAssumption DEF Init
    <2> QED BY <2>1, <2>2 DEF Init, TypeOK
  <1>2. OneCapture /\ HookValid
    BY DEF Init, OneCapture, HookValid, Live
  <1>3. PendingInv /\ JoinInv /\ CurrentInv
    BY Different DEF Init, PendingInv, JoinInv, CurrentInv
  <1> QED BY <1>1, <1>2, <1>3 DEF IInv

--------------------------------------------------------------------------------
(* Each step preserves it.                                                      *)

\* The window events change only what a selection is made of, and next_phase.
LEMMA SelectionStep ==
    ASSUME IInv, Selecting,
           UNCHANGED <<ui, phase, captures, display, thread, stop, hook, esc, dims>>,
           drag_display' \in {None} \cup Displays,
           drag_start' \in {None} \cup Positions,
           cursor' \in {None} \cup Positions,
           grab' \in {None} \cup Displays,
           quit' \in BOOLEAN,
           next_phase' = next_phase
             \/ (next_phase' \in {NoChange} \cup ToCapturing /\ captures < MaxCaptures)
    PROVE  IInv'
  <1>1. TypeOK'
    BY DEF IInv, TypeOK
  <1>2. OneCapture' /\ HookValid'
    BY DEF IInv, OneCapture, HookValid, Live
  <1>3. PendingInv' /\ JoinInv' /\ CurrentInv'
    BY Different DEF IInv, PendingInv, JoinInv, CurrentInv, Selecting, ToSelecting, ToCapturing
  <1> QED BY <1>1, <1>2, <1>3 DEF IInv

LEMMA WindowEventIInv == IInv /\ WindowEvent => IInv'
  <1> SUFFICES ASSUME IInv, WindowEvent PROVE IInv'
    OBVIOUS
  <1>0. TypeOK
    BY DEF IInv
  <1> USE DEF capture
  <1>1. ASSUME NEW d \in Displays, NEW p \in Places, CursorMoved(d, p) PROVE IInv'
    <2>1. <<d, p>> \in Positions
      BY DEF Positions
    <2> QED BY <1>0, <1>1, <2>1, SelectionStep DEF CursorMoved, TypeOK
  <1>2. ASSUME NEW d \in Displays, Press(d) PROVE IInv'
    BY <1>0, <1>2, SelectionStep DEF Press, TypeOK
  <1>3. ASSUME NEW d \in Displays, Release(d) PROVE IInv'
    BY <1>0, <1>3, CapturePhaseType, SelectionStep DEF Release, TypeOK
  <1>4. ASSUME NEW d \in Displays, Enter(d) PROVE IInv'
    BY <1>0, <1>4, CapturePhaseType, SelectionStep DEF Enter, TypeOK, selection
  <1>5. CASE Escape
    BY <1>0, <1>5, SelectionStep DEF Escape, TypeOK
  <1>6. CASE CtrlQ
    BY <1>0, <1>6, SelectionStep DEF CtrlQ, TypeOK, selection
  <1> QED BY <1>1, <1>2, <1>3, <1>4, <1>5, <1>6 DEF WindowEvent

LEMMA HookIInv == IInv /\ (HookEsc \/ EscExpires \/ HookCtrlQ) => IInv'
  <1> SUFFICES ASSUME IInv, HookEsc \/ EscExpires \/ HookCtrlQ PROVE IInv'
    OBVIOUS
  <1>1. hook # 0 => hook \in Captures
    BY MaxCapturesAssumption DEF IInv, TypeOK, Captures
  <1>2. stop' \subseteq Captures
    BY <1>1 DEF IInv, TypeOK, HookEsc, EscExpires, HookCtrlQ
  <1>3. /\ UNCHANGED <<ui, phase, next_phase, selection, captures, display, thread, hook, dims>>
        /\ esc' \in BOOLEAN /\ quit' \in BOOLEAN
    BY DEF IInv, TypeOK, HookEsc, EscExpires, HookCtrlQ
  <1>4. TypeOK'
    BY <1>2, <1>3 DEF IInv, TypeOK, selection
  <1> QED BY <1>3, <1>4
          DEF IInv, OneCapture, HookValid, PendingInv, JoinInv, CurrentInv, Live

\* The end of a turn of the event loop.
LEMMA FinishTurnIInv ==
    ASSUME IInv, FinishTurn(phase), next_phase = NoChange,
           ui = "events" \/ (ui = "joining" /\ ~Live(captures)),
           UNCHANGED <<phase, selection, capture, quit>>
    PROVE  IInv'
  <1>1. /\ ui' \in {"events", "exited"}
        /\ next_phase' \in {NoChange, ToSelecting}
        /\ next_phase' = ToSelecting => phase = "capturing"
    BY Different DEF FinishTurn
  <1>2. TypeOK'
    BY <1>1 DEF IInv, TypeOK, selection, capture
  <1>3. OneCapture'
    <2>1. ASSUME NEW g \in Captures, Live(g) PROVE g = captures /\ phase = "capturing"
      BY <2>1 DEF IInv, OneCapture
    <2> QED BY <2>1 DEF OneCapture, Live, capture
  <1>4. HookValid' /\ JoinInv' /\ CurrentInv'
    BY <1>1 DEF IInv, HookValid, JoinInv, CurrentInv, capture
  <1>5. PendingInv'
    BY <1>1, Different DEF FinishTurn, PendingInv, ToSelecting, ToCapturing
  <1> QED BY <1>2, <1>3, <1>4, <1>5 DEF IInv

LEMMA EnterCapturingIInv == IInv /\ EnterCapturing => IInv'
  <1> SUFFICES ASSUME IInv, EnterCapturing PROVE IInv'
    OBVIOUS
  <1>1. /\ phase = "selecting" /\ ui = "events"
        /\ captures \in Nat /\ captures + 1 \in Captures
        /\ next_phase.on \in Displays
    BY MaxCapturesAssumption
       DEF IInv, PendingInv, TypeOK, EnterCapturing, Captures, ToCapturing
  <1>2. \A g \in Captures : ~Live(g)
    BY <1>1 DEF IInv, OneCapture
  <1>3. TypeOK'
    <2>1. /\ thread' \in [Captures -> ThreadStates]
          /\ display' \in [Captures -> {None} \cup Displays]
      BY <1>1 DEF IInv, TypeOK, EnterCapturing, ThreadStates
    <2>2. captures + 1 \in 0 .. MaxCaptures /\ captures + 1 \in 0 .. captures + 1
      BY <1>1, MaxCapturesAssumption DEF Captures
    <2>3. ui' \in {"events", "joining", "exited"}
      BY DEF EnterCapturing
    <2> QED BY <2>1, <2>2, <2>3 DEF IInv, TypeOK, EnterCapturing
  <1>4. OneCapture'
    <2>1. ASSUME NEW g \in Captures, g # captures + 1 PROVE thread'[g] = thread[g]
      BY <2>1 DEF EnterCapturing, IInv, TypeOK
    <2> QED BY <1>1, <1>2, <2>1 DEF EnterCapturing, OneCapture, Live
  <1>5. HookValid' /\ JoinInv' /\ CurrentInv'
    BY <1>1 DEF EnterCapturing, HookValid, JoinInv, CurrentInv
  <1>6. PendingInv'
    BY Different, NoneAssumption DEF EnterCapturing, PendingInv, ToSelecting, ToCapturing
  <1> QED BY <1>3, <1>4, <1>5, <1>6 DEF IInv

LEMMA BeginSelectingIInv == IInv /\ BeginSelecting => IInv'
  <1> SUFFICES ASSUME IInv, BeginSelecting PROVE IInv'
    OBVIOUS
  <1>1. captures \in Captures
    BY MaxCapturesAssumption DEF IInv, TypeOK, PendingInv, CurrentInv, BeginSelecting, Captures
  <1>2. TypeOK'
    BY <1>1 DEF IInv, TypeOK, BeginSelecting, selection
  <1>3. OneCapture' /\ HookValid' /\ JoinInv' /\ CurrentInv'
    BY DEF IInv, BeginSelecting, OneCapture, Live, HookValid, JoinInv, CurrentInv
  <1>4. PendingInv'
    BY Different DEF BeginSelecting, PendingInv, ToSelecting, ToCapturing
  <1> QED BY <1>2, <1>3, <1>4 DEF IInv

LEMMA AboutToWaitIInv == IInv /\ AboutToWait => IInv'
  <1> SUFFICES ASSUME IInv, AboutToWait PROVE IInv'
    OBVIOUS
  <1>1. CASE Turn
    BY <1>1, FinishTurnIInv DEF Turn
  <1>2. CASE FinishSelecting
    BY <1>2, FinishTurnIInv DEF FinishSelecting, IInv, JoinInv
  <1> QED BY <1>1, <1>2, EnterCapturingIInv, BeginSelectingIInv DEF AboutToWait

\* A capture thread changes its own state, from one in which it is at work.
LEMMA ThreadIInv ==
    ASSUME IInv, NEW g \in Captures,
           ThreadStep(g) \/ FrameArrives(g) \/ FrameFails(g)
    PROVE  IInv'
  <1>1. /\ Live(g)
        /\ \E to \in ThreadStates : thread' = [thread EXCEPT ![g] = to]
        /\ stop' \subseteq Captures
        /\ UNCHANGED <<ui, phase, next_phase, selection, captures, display, hook, esc, quit, dims>>
    BY DEF ThreadStep, StartCapturer, CheckStop, PushFrame, FrameArrives, FrameFails, ThreadGoes,
           Live, ThreadStates, IInv, TypeOK
  <1>2. TypeOK'
    BY <1>1 DEF IInv, TypeOK, selection
  <1>3. OneCapture'
    <2>1. g = captures /\ (phase = "capturing" \/ ui = "joining")
      BY <1>1 DEF IInv, OneCapture
    <2>2. ASSUME NEW h \in Captures, h # g PROVE thread'[h] = thread[h]
      BY <1>1, <2>2 DEF IInv, TypeOK
    <2> QED BY <1>1, <2>1, <2>2 DEF IInv, OneCapture, Live
  <1>4. HookValid' /\ PendingInv' /\ JoinInv' /\ CurrentInv'
    BY <1>1 DEF IInv, HookValid, PendingInv, JoinInv, CurrentInv
  <1> QED BY <1>2, <1>3, <1>4 DEF IInv

LEMMA NextIInv == IInv /\ [Next]_vars => IInv'
  <1> SUFFICES ASSUME IInv, [Next]_vars PROVE IInv'
    OBVIOUS
  <1>1. CASE UNCHANGED vars
    BY <1>1 DEF vars, IInv, TypeOK, OneCapture, HookValid, PendingInv, JoinInv, CurrentInv, Live
  <1>2. CASE Next
    BY <1>2, WindowEventIInv, HookIInv, AboutToWaitIInv, ThreadIInv DEF Next
  <1> QED BY <1>1, <1>2

\* The invariant holds in every reachable state.
THEOREM InductiveInvariant == Spec => []IInv
  BY InitIInv, NextIInv, PTL DEF Spec

--------------------------------------------------------------------------------

\* Every variable of the user interface keeps its type.
THEOREM TypeCorrect == Spec => []TypeOK
  <1>1. IInv => TypeOK
    BY DEF IInv
  <1> QED BY <1>1, InductiveInvariant, PTL

\* However often the user stops a capture, quits or starts another one, two
\* capture threads never run at the same time, and none runs while the user
\* selects: enter_selecting joins the thread before the selectors come back.
THEOREM SingleCapture == Spec => []OneCapture
  <1>1. IInv => OneCapture
    BY DEF IInv
  <1> QED BY <1>1, InductiveInvariant, PTL

\* The dimensions a joining client is told are of the region being pushed.
THEOREM DimsOfCapture == Spec => []AdvertisedIsCaptured
  <1>1. IInv => AdvertisedIsCaptured
    BY DEF IInv, OneCapture, CurrentInv, AdvertisedIsCaptured, Live
  <1> QED BY <1>1, InductiveInvariant, PTL

\* The hook's raw pointers are null or to the flags of the current phase.
THEOREM HookPointers == Spec => []HookValid
  <1>1. IInv => HookValid
    BY DEF IInv
  <1> QED BY <1>1, InductiveInvariant, PTL
================================================================================
