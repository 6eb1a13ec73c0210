------------------------------ MODULE SessionProof -----------------------------
(* The session life cycle implements the abstract session of module Session, for *)
(* any clients, fingerprints and prefixes, and any depth of the control queues:  *)
(* each step is a step of the abstract session or a stutter.                     *)
EXTENDS BroadcasterProof

AbstractSeat == [c \in Clients |-> SeatOf(c)]
AbstractScreen == [c \in Clients |-> ScreenOf(c)]

\* What a step may do to one seat, and to one screen.
SeatKept(c) == SeatOf(c)' = SeatOf(c)
SeatLost(c) == SeatOf(c) = "seated" /\ SeatOf(c)' = "left"
SeatMoves(c) == \/ SeatOf(c) = "none" /\ SeatOf(c)' \in {"waiting", "failed"}
                \/ SeatOf(c) = "waiting" /\ SeatOf(c)' \in {"approved", "denied"}
                \/ SeatOf(c) = "approved" /\ SeatOf(c)' \in {"seated", "left"}

ScreenKept(c) == ScreenOf(c)' = ScreenOf(c)
ScreenOn(c) == /\ ScreenOf(c) = "dark" /\ ScreenOf(c)' = "live"
               /\ SeatOf(c) \in {"approved", "seated", "left"}
ScreenOff(c) == ScreenOf(c) # "off" /\ ScreenOf(c)' = "off"

--------------------------------------------------------------------------------
(* Steps of the abstract session.                                                *)

LEMMA ScreensKept ==
    ASSUME \A c \in Clients : ScreenKept(c)
    PROVE  AbstractScreen' = AbstractScreen
  BY DEF AbstractScreen, ScreenKept

LEMMA SeatsKept ==
    ASSUME \A c \in Clients : SeatKept(c)
    PROVE  AbstractSeat' = AbstractSeat
  BY DEF AbstractSeat, SeatKept

\* Any number of viewers may lose their seats in one step.
LEMMA UnseatStep ==
    ASSUME \A c \in Clients : ScreenKept(c),
           \A c \in Clients : SeatKept(c) \/ SeatLost(c)
    PROVE  [Abstract!Next]_(Abstract!vars)
  <1> DEFINE S == {c \in Clients : SeatLost(c)}
  <1>1. AbstractScreen' = AbstractScreen
    BY ScreensKept
  <1>2. S \in SUBSET {c \in Clients : AbstractSeat[c] = "seated"}
    BY DEF SeatLost, AbstractSeat
  <1>3. AbstractSeat' = [c \in Clients |-> IF c \in S THEN "left" ELSE AbstractSeat[c]]
    BY DEF SeatLost, SeatKept, AbstractSeat
  <1>4. Abstract!Unseat
    BY <1>2, <1>3 DEF Abstract!Unseat, AbstractSeat
  <1> QED BY <1>1, <1>4 DEF Abstract!Next, AbstractScreen

\* One viewer's seat changes.
LEMMA MoveStep ==
    ASSUME NEW c \in Clients,
           \A d \in Clients : ScreenKept(d),
           \A d \in Clients \ {c} : SeatKept(d),
           SeatKept(c) \/ SeatLost(c) \/ SeatMoves(c)
    PROVE  [Abstract!Next]_(Abstract!vars)
  <1>1. CASE SeatKept(c) \/ SeatLost(c)
    BY <1>1, UnseatStep
  <1>2. CASE SeatMoves(c)
    <2>1. AbstractScreen' = AbstractScreen
      BY ScreensKept
    <2>2. PICK to \in Abstract!Seats : /\ <<AbstractSeat[c], to>> \in Abstract!Moves
                                       /\ SeatOf(c)' = to
      BY <1>2 DEF SeatMoves, Abstract!Seats, Abstract!Moves, AbstractSeat
    <2>3. AbstractSeat' = [AbstractSeat EXCEPT ![c] = to]
      BY <2>2 DEF SeatKept, AbstractSeat
    <2>4. Abstract!Move(c)
      BY <2>2, <2>3 DEF Abstract!Move, AbstractSeat
    <2> QED BY <2>1, <2>4 DEF Abstract!Next, AbstractScreen
  <1> QED BY <1>1, <1>2

\* One viewer's screen changes.
LEMMA ScreenStep ==
    ASSUME NEW c \in Clients,
           \A d \in Clients : SeatKept(d),
           \A d \in Clients \ {c} : ScreenKept(d),
           ScreenKept(c) \/ ScreenOn(c) \/ ScreenOff(c)
    PROVE  [Abstract!Next]_(Abstract!vars)
  <1>1. AbstractSeat' = AbstractSeat
    BY SeatsKept
  <1>2. CASE ScreenKept(c)
    BY <1>2, UnseatStep
  <1>3. CASE ScreenOn(c)
    <2>1. AbstractScreen' = [AbstractScreen EXCEPT ![c] = "live"]
      BY <1>3 DEF ScreenOn, ScreenKept, AbstractScreen
    <2>2. Abstract!LightUp(c)
      BY <1>3, <2>1 DEF ScreenOn, Abstract!LightUp, AbstractSeat, AbstractScreen
    <2> QED BY <1>1, <2>2 DEF Abstract!Next, AbstractSeat
  <1>4. CASE ScreenOff(c)
    <2>1. AbstractScreen' = [AbstractScreen EXCEPT ![c] = "off"]
      BY <1>4 DEF ScreenOff, ScreenKept, AbstractScreen
    <2>2. Abstract!SwitchOff(c)
      BY <1>4, <2>1 DEF ScreenOff, Abstract!SwitchOff, AbstractScreen
    <2> QED BY <1>1, <2>2 DEF Abstract!Next, AbstractSeat
  <1> QED BY <1>2, <1>3, <1>4

\* A client that a step leaves alone.
LEMMA SeatUntouched ==
    ASSUME NEW c \in Clients,
           hpc'[c] = hpc[c], pendingAt'[c] = pendingAt[c],
           clientAt'[c] = clientAt[c], decision'[c] = decision[c]
    PROVE  SeatKept(c)
  <1>1. (c \in Viewers)' <=> c \in Viewers
    BY DEF Viewers
  <1>2. (c \in Pending)' <=> c \in Pending
    BY DEF Pending
  <1> QED BY <1>1, <1>2 DEF SeatKept, SeatOf

LEMMA ScreenUntouched ==
    ASSUME NEW c \in Clients, cpc'[c] = cpc[c]
    PROVE  ScreenKept(c)
  BY DEF ScreenKept, ScreenOf

\* A client that a step leaves alone or takes off the list.
LEMMA SeatOrLeft ==
    ASSUME TypeOK, NEW c \in Clients, ClientInv(c),
           hpc'[c] = hpc[c], pendingAt'[c] = pendingAt[c], decision'[c] = decision[c],
           clientAt'[c] \in {clientAt[c], 0}
    PROVE  SeatKept(c) \/ SeatLost(c)
  <1>1. CASE clientAt'[c] = clientAt[c]
    BY <1>1, SeatUntouched
  <1>2. CASE clientAt[c] # 0 /\ clientAt'[c] = 0
    <2>1. /\ hpc[c] \in {"registered", "sending", "returned", "cleaning"}
          /\ decision[c] = "approved"
      BY <1>2 DEF ClientInv, GateInv
    <2>2. c \in Viewers /\ (c \notin Viewers)'
      BY <1>2 DEF Viewers
    <2> QED BY <2>1, <2>2 DEF SeatLost, SeatOf
  <1> QED BY <1>1, <1>2

--------------------------------------------------------------------------------
(* The host's threads.                                                           *)

LEMMA MainStepRefines ==
    ASSUME IInv, IInv', NEW c \in Clients, MainStep(c) \/ HostWriteFails(c)
    PROVE  [Abstract!Next]_(Abstract!vars)
  <1>0. TypeOK /\ ClientInv(c) /\ TypeOK' /\ ClientInv(c)'
    BY DEF IInv
  <1> USE DEF lists, network, clientSide, admin, Return
  <1>1. UNCHANGED <<cpc, decision>>
    BY DEF MainStep, HostWriteFails, SendHandshake, ReadAck, ReadDecline, ReadReport,
           HostReadFails, PushPending, RecvDecision, SendInfo, Register, StartStreaming,
           ServeControl, ControlClosed, CleanPending, CleanClients
  <1>2. \A d \in Clients : ScreenKept(d)
    BY <1>1, ScreenUntouched
  <1>3. ASSUME NEW d \in Clients \ {c} PROVE SeatKept(d)
    <2>1. hpc'[d] = hpc[d]
      BY <1>0 DEF TypeOK, MainStep, HostWriteFails, SendHandshake, ReadAck, ReadDecline,
           ReadReport, HostReadFails, PushPending, RecvDecision, SendInfo, Register,
           StartStreaming, ServeControl, ControlClosed, CleanPending, CleanClients
    <2>2. pendingAt'[d] = pendingAt[d] /\ clientAt'[d] = clientAt[d]
      BY <1>0 DEF TypeOK, MainStep, HostWriteFails, SendHandshake, ReadAck, ReadDecline,
           ReadReport, HostReadFails, PushPending, RecvDecision, SendInfo, Register,
           StartStreaming, ServeControl, ControlClosed, CleanPending, CleanClients
    <2> QED BY <1>1, <2>1, <2>2, SeatUntouched
  <1> USE DEF SeatKept, SeatLost, SeatMoves
  <1>4. /\ c \in Viewers <=> clientAt[c] # 0
        /\ c \in Pending <=> pendingAt[c] # 0
        /\ (c \in Viewers)' <=> clientAt'[c] # 0
        /\ (c \in Pending)' <=> pendingAt'[c] # 0
    BY DEF Viewers, Pending
  \* Before the gate there is no seat, and a thread that ends there has failed.
  <1>5. CASE SendHandshake(c) \/ ReadAck(c) \/ ReadReport(c)
    <2>1. hpc[c] \in {"started", "awaitAck", "awaitReport"}
      BY <1>5 DEF SendHandshake, ReadAck, ReadReport
    <2>2. hpc'[c] \in {"awaitAck", "awaitReport", "announced"}
      BY <1>0, <1>5 DEF TypeOK, SendHandshake, ReadAck, ReadReport
    <2>3. SeatOf(c) = "none" /\ SeatOf(c)' = "none"
      BY <1>0, <1>4, <2>1, <2>2
         DEF SeatOf, ClientInv, DecisionInv, GateInv, Gated
    <2> QED BY <2>3, <1>2, <1>3, MoveStep
  <1>6. CASE ReadDecline(c) \/ HostReadFails(c) \/ (HostWriteFails(c) /\ hpc[c] = "started")
    <2>1. hpc[c] \in {"started", "awaitAck", "awaitReport"} /\ hpc'[c] = "returned"
      BY <1>0, <1>6 DEF TypeOK, ReadDecline, HostReadFails, HostWriteFails
    <2>2. UNCHANGED <<clientAt, pendingAt>>
      BY <1>6 DEF ReadDecline, HostReadFails, HostWriteFails
    <2>3. SeatOf(c) = "none" /\ SeatOf(c)' = "failed"
      BY <1>0, <1>1, <1>4, <2>1, <2>2
         DEF SeatOf, ClientInv, DecisionInv, GateInv, Gated
    <2> QED BY <2>3, <1>2, <1>3, MoveStep
  <1>7. CASE PushPending(c)
    <2>1. hpc[c] = "announced" /\ hpc'[c] = "pending"
      BY <1>0, <1>7 DEF TypeOK, PushPending
    <2>2. SeatOf(c) = "none" /\ SeatOf(c)' = "waiting"
      BY <1>0, <1>1, <1>4, <2>1 DEF SeatOf, ClientInv, DecisionInv, GateInv, Gated
    <2> QED BY <2>2, <1>2, <1>3, MoveStep
  \* A verdict has already been given when the thread takes it.
  <1>8. CASE RecvDecision(c)
    <2>1. UNCHANGED <<clientAt, pendingAt>> /\ hpc[c] = "pending"
      BY <1>8 DEF RecvDecision
    <2>2. CASE decision[c] = "approved"
      <3>1. hpc'[c] = "approved"
        BY <1>0, <1>8, <2>2 DEF TypeOK, RecvDecision
      <3> QED BY <1>0, <1>1, <1>2, <1>3, <1>4, <2>1, <2>2, <3>1, MoveStep
              DEF SeatOf, ClientInv, GateInv
    <2>3. CASE decision[c] = "denied"
      BY <1>0, <1>1, <1>2, <1>3, <1>4, <2>1, <2>3, MoveStep
         DEF SeatOf, ClientInv, GateInv
    <2> QED BY <1>8, <2>2, <2>3 DEF RecvDecision
  <1>9. CASE SendInfo(c)
    <2>1. /\ UNCHANGED <<clientAt, pendingAt>>
          /\ hpc[c] = "approved" /\ hpc'[c] = "informed"
      BY <1>0, <1>9 DEF TypeOK, SendInfo
    <2> QED BY <1>0, <1>1, <1>2, <1>3, <1>4, <2>1, MoveStep
            DEF SeatOf, ClientInv, DecisionInv, GateInv, PastGate
  <1>10. CASE HostWriteFails(c) /\ hpc[c] = "approved"
    <2>1. UNCHANGED <<clientAt, pendingAt>> /\ hpc'[c] = "returned"
      BY <1>0, <1>10 DEF TypeOK, HostWriteFails
    <2> QED BY <1>0, <1>1, <1>2, <1>3, <1>4, <1>10, <2>1, MoveStep
            DEF SeatOf, ClientInv, DecisionInv, GateInv, PastGate
  <1>11. CASE Register(c)
    <2>1. /\ hpc[c] = "informed"
          /\ clientAt'[c] # 0
      BY <1>0, <1>11 DEF TypeOK, Register
    <2> QED BY <1>0, <1>1, <1>2, <1>3, <1>4, <2>1, MoveStep
            DEF SeatOf, ClientInv, DecisionInv, GateInv, PastGate
  \* On the list or taken off it: the thread does not change that until it cleans up.
  <1>12. CASE \/ StartStreaming(c) \/ ServeControl(c) \/ ControlClosed(c)
              \/ HostWriteFails(c) /\ hpc[c] = "sending"
    <2>1. hpc[c] \in {"registered", "sending"} /\ hpc'[c] \in {"sending", "returned"}
      BY <1>0, <1>12 DEF TypeOK, StartStreaming, ServeControl, ControlClosed, HostWriteFails
    <2>2. UNCHANGED <<clientAt, pendingAt>>
      BY <1>12 DEF StartStreaming, ServeControl, ControlClosed, HostWriteFails
    <2>3. SeatKept(c)
      BY <1>0, <1>1, <1>4, <2>1, <2>2 DEF SeatOf, ClientInv, DecisionInv, PastGate
    <2> QED BY <2>3, <1>2, <1>3, MoveStep
  <1>13. CASE CleanPending(c)
    <2>1. UNCHANGED clientAt /\ hpc[c] = "returned" /\ hpc'[c] = "cleaning"
      BY <1>0, <1>13 DEF TypeOK, CleanPending
    <2>2. SeatKept(c)
      BY <1>0, <1>1, <1>4, <2>1 DEF SeatOf, ClientInv, DecisionInv
    <2> QED BY <2>2, <1>2, <1>3, MoveStep
  <1>14. CASE CleanClients(c)
    <2>1. /\ clientAt'[c] = 0 /\ UNCHANGED pendingAt
          /\ hpc[c] = "cleaning" /\ hpc'[c] = "done"
      BY <1>0, <1>14 DEF TypeOK, CleanClients
    <2>2. SeatKept(c) \/ SeatLost(c)
      BY <1>0, <1>1, <1>4, <2>1 DEF SeatOf, ClientInv, DecisionInv, GateInv
    <2> QED BY <2>2, <1>2, <1>3, MoveStep
  <1> QED BY <1>5, <1>6, <1>7, <1>8, <1>9, <1>10, <1>11, <1>12, <1>13, <1>14
          DEF MainStep, HostWriteFails

LEMMA BroadcastRefines ==
    ASSUME IInv, NEW m, Broadcast(m), UNCHANGED <<hpc, pendingAt, decision, cpc>>
    PROVE  [Abstract!Next]_(Abstract!vars)
  <1>1. TypeOK /\ \A d \in Clients : ClientInv(d)
    BY DEF IInv
  <1>2. \A d \in Clients : clientAt'[d] \in {clientAt[d], 0}
    BY DEF Broadcast
  <1>3. \A d \in Clients : SeatKept(d) \/ SeatLost(d)
    BY <1>1, <1>2, SeatOrLeft
  <1>4. \A d \in Clients : ScreenKept(d)
    BY ScreenUntouched
  <1> QED BY <1>3, <1>4, UnseatStep

LEMMA ReadStepRefines ==
    ASSUME IInv, NEW c \in Clients, ReadStep(c)
    PROVE  [Abstract!Next]_(Abstract!vars)
  <1>0. TypeOK /\ \A d \in Clients : ClientInv(d)
    BY DEF IInv
  <1> USE DEF lists, network, clientSide, admin
  <1>1. UNCHANGED <<hpc, pendingAt, decision, cpc>>
    BY DEF ReadStep, RelayChat, ReadDisconnect, ReadEnds, LeaveReadLoop
  <1>2. CASE RelayChat(c)
    BY <1>1, <1>2, BroadcastRefines DEF RelayChat
  <1>3. CASE ReadDisconnect(c) \/ ReadEnds(c) \/ LeaveReadLoop(c)
    <2>1. \A d \in Clients : clientAt'[d] \in {clientAt[d], 0}
      BY <1>0, <1>3 DEF TypeOK, ReadDisconnect, ReadEnds, LeaveReadLoop
    <2>2. \A d \in Clients : SeatKept(d) \/ SeatLost(d)
      BY <1>0, <1>1, <2>1, SeatOrLeft
    <2>3. \A d \in Clients : ScreenKept(d)
      BY <1>1, ScreenUntouched
    <2> QED BY <2>2, <2>3, UnseatStep
  <1> QED BY <1>2, <1>3 DEF ReadStep

--------------------------------------------------------------------------------
(* The client and the network.                                                   *)

LEMMA ClientRefines ==
    ASSUME IInv, NEW c \in Clients, ClientStep(c) \/ ViewerStep(c) \/ WindowCloses(c)
    PROVE  [Abstract!Next]_(Abstract!vars)
  <1>0. TypeOK /\ \A d \in Clients : ClientInv(d)
    BY DEF IInv
  <1> USE DEF lists, network, clientSide, admin, ClientStops
  <1>1. UNCHANGED <<pendingAt, clientAt, decision>>
    BY DEF ClientStep, ViewerStep, WindowCloses, ReadHandshake, ReadProbe, ReadInfo,
           ReadReject, ReadChat, StreamEnds, ClientReadFails, Connect, ConnectRefused,
           Decline, Confirm, ClientChat, UserLeaves
  <1>2. \A d \in Clients \ {c} : cpc'[d] = cpc[d]
    BY <1>0 DEF TypeOK, ClientStep, ViewerStep, WindowCloses, ReadHandshake, ReadProbe,
           ReadInfo, ReadReject, ReadChat, StreamEnds, ClientReadFails, Connect,
           ConnectRefused, Decline, Confirm, ClientChat, UserLeaves
  <1>3. \A d \in Clients \ {c} : ScreenKept(d)
    BY <1>2, ScreenUntouched
  \* A thread that has just started has no seat, as the connection had none before.
  <1>4. \A d \in Clients : SeatKept(d)
    <2>1. CASE Connect(c)
      <3>1. \A d \in Clients \ {c} : SeatKept(d)
        BY <1>0, <1>1, <2>1, SeatUntouched DEF TypeOK, Connect
      <3>2. hpc[c] = "none" /\ hpc'[c] = "started"
        BY <1>0, <2>1 DEF TypeOK, Connect, ClientInv, ThreadInv
      <3>3. SeatKept(c)
        BY <1>0, <1>1, <3>2
           DEF SeatKept, SeatOf, Viewers, Pending, ClientInv, DecisionInv, GateInv, Gated
      <3> QED BY <3>1, <3>3
    <2>2. CASE ~Connect(c)
      <3>1. UNCHANGED hpc
        BY <2>2 DEF ClientStep, ViewerStep, WindowCloses, ReadHandshake, ReadProbe,
           ReadInfo, ReadReject, ReadChat, StreamEnds, ClientReadFails, ConnectRefused,
           Decline, Confirm, ClientChat, UserLeaves
      <3> QED BY <1>1, <3>1, SeatUntouched
    <2> QED BY <2>1, <2>2
  <1>5. CASE cpc'[c] = cpc[c]
    BY <1>3, <1>4, <1>5, ScreenStep, ScreenUntouched
  <1>6. CASE ReadHandshake(c) \/ Confirm(c) \/ ReadProbe(c) \/ Connect(c)
    <2>1. /\ cpc[c] \in {"idle", "hello", "prompt", "probing"}
          /\ cpc'[c] \in {"hello", "prompt", "probing", "waiting"}
      BY <1>0, <1>6 DEF TypeOK, ReadHandshake, Confirm, ReadProbe, Connect
    <2>2. ScreenKept(c)
      BY <2>1 DEF ScreenKept, ScreenOf
    <2> QED BY <1>3, <1>4, <2>2, ScreenStep
  \* STREAM_INFO was sent to approved viewers only.
  <1>7. CASE ReadInfo(c)
    <2>1. Has(down[c], "INFO")
      BY <1>0, <1>7, TakeDownResult DEF ReadInfo
    <2>2. decision[c] = "approved"
      BY <1>0, <2>1 DEF ClientInv, GateInv
    <2>3. SeatOf(c) \in {"approved", "seated", "left"}
      BY <2>2 DEF SeatOf
    <2>4. cpc[c] = "waiting" /\ cpc'[c] = "streaming"
      BY <1>0, <1>7 DEF TypeOK, ReadInfo
    <2>5. ScreenOn(c)
      BY <2>3, <2>4 DEF ScreenOn, ScreenOf
    <2> QED BY <1>3, <1>4, <2>5, ScreenStep
  <1>8. CASE \/ ReadReject(c) \/ StreamEnds(c) \/ ClientReadFails(c) \/ ConnectRefused(c)
             \/ Decline(c) \/ UserLeaves(c) \/ WindowCloses(c)
    <2>1. cpc'[c] \in {"rejected", "over", "failed", "exited"}
      BY <1>0, <1>8 DEF TypeOK, ReadReject, StreamEnds, ClientReadFails, ConnectRefused,
         Decline, UserLeaves, WindowCloses
    <2>2. ScreenOf(c)' = "off"
      BY <2>1 DEF ScreenOf
    <2> QED BY <1>3, <1>4, <2>2, ScreenStep DEF ScreenOff, ScreenKept
  <1>9. CASE ReadChat(c) \/ ClientChat(c)
    BY <1>5, <1>9 DEF ReadChat, ClientChat
  <1> QED BY <1>6, <1>7, <1>8, <1>9 DEF ClientStep, ViewerStep

\* A step that changes nothing the two people at the ends see.
LEMMA UnseenRefines ==
    ASSUME UNCHANGED <<hpc, pendingAt, clientAt, decision, cpc>>
    PROVE  [Abstract!Next]_(Abstract!vars)
  <1>1. \A d \in Clients : SeatKept(d)
    BY SeatUntouched
  <1>2. \A d \in Clients : ScreenKept(d)
    BY ScreenUntouched
  <1> QED BY <1>1, <1>2, UnseatStep

--------------------------------------------------------------------------------
(* The host user.                                                                *)

\* The entry that is decided waits: no other seat changes, and none twice.
LEMMA DecideRefines ==
    ASSUME IInv, NEW prefix \in Prefixes, NEW verdict \in {"approved", "denied"},
           Decide(prefix, verdict)
    PROVE  [Abstract!Next]_(Abstract!vars)
  <1>0. TypeOK /\ \A d \in Clients : ClientInv(d)
    BY DEF IInv
  <1> USE DEF network, clientSide
  <1>1. PICK c \in First(Matching(Pending, prefix), pendingAt) :
            /\ decision' = [decision EXCEPT ![c] = verdict]
            /\ pendingAt' = [pendingAt EXCEPT ![c] = 0]
    BY DEF Decide
  <1>2. c \in Clients /\ c \in Pending /\ pendingAt[c] # 0
    BY <1>1 DEF First, Matching, Pending
  <1>3. UNCHANGED <<hpc, clientAt, cpc>>
    BY DEF Decide
  <1>4. hpc[c] = "pending" /\ decision[c] = "none" /\ c \notin Viewers /\ (c \notin Viewers)'
    BY <1>0, <1>2, <1>3 DEF ClientInv, DecisionInv, GateInv, Viewers
  <1>5. decision'[c] = verdict
    BY <1>0, <1>1, <1>2 DEF TypeOK
  <1>6. SeatOf(c) = "waiting" /\ SeatOf(c)' \in {"approved", "denied"}
    BY <1>2, <1>3, <1>4, <1>5 DEF SeatOf
  <1>7. \A d \in Clients \ {c} : SeatKept(d)
    BY <1>0, <1>1, <1>2, <1>3, SeatUntouched DEF TypeOK
  <1>8. \A d \in Clients : ScreenKept(d)
    BY <1>3, ScreenUntouched
  <1> QED BY <1>2, <1>6, <1>7, <1>8, MoveStep DEF SeatMoves

LEMMA KickRefines ==
    ASSUME IInv, NEW prefix \in Prefixes, Kick(prefix)
    PROVE  [Abstract!Next]_(Abstract!vars)
  <1>0. TypeOK /\ \A d \in Clients : ClientInv(d)
    BY DEF IInv
  <1> USE DEF network, clientSide
  <1>1. \A d \in Clients : clientAt'[d] \in {clientAt[d], 0}
    BY <1>0 DEF Kick, TypeOK
  <1>2. UNCHANGED <<hpc, pendingAt, decision, cpc>>
    BY DEF Kick
  <1>3. \A d \in Clients : SeatKept(d) \/ SeatLost(d)
    BY <1>0, <1>1, <1>2, SeatOrLeft
  <1>4. \A d \in Clients : ScreenKept(d)
    BY <1>2, ScreenUntouched
  <1> QED BY <1>3, <1>4, UnseatStep

--------------------------------------------------------------------------------
(* The theorem.                                                                  *)

LEMMA InitRefines == Init => Abstract!Init
  <1> SUFFICES ASSUME Init PROVE Abstract!Init
    OBVIOUS
  <1>1. \A c \in Clients : SeatOf(c) = "none"
    BY DEF Init, SeatOf, Viewers, Pending
  <1>2. \A c \in Clients : ScreenOf(c) = "dark"
    BY DEF Init, ScreenOf
  <1> QED BY <1>1, <1>2 DEF Abstract!Init

LEMMA StepRefines == IInv /\ [Next]_vars => [Abstract!Next]_(Abstract!vars)
  <1> SUFFICES ASSUME IInv, [Next]_vars PROVE [Abstract!Next]_(Abstract!vars)
    OBVIOUS
  <1> USE DEF lists, network, clientSide, admin
  <1>1. IInv'
    BY NextIInv
  <1>2. ASSUME NEW c \in Clients, MainStep(c) \/ HostWriteFails(c)
        PROVE  [Abstract!Next]_(Abstract!vars)
    BY <1>1, <1>2, MainStepRefines
  <1>3. ASSUME NEW c \in Clients, ReadStep(c) PROVE [Abstract!Next]_(Abstract!vars)
    BY <1>3, ReadStepRefines
  <1>4. ASSUME NEW c \in Clients, ClientStep(c) \/ ViewerStep(c) \/ WindowCloses(c)
        PROVE  [Abstract!Next]_(Abstract!vars)
    BY <1>4, ClientRefines
  <1>5. ASSUME NEW c \in Clients, Reset(c) PROVE [Abstract!Next]_(Abstract!vars)
    BY <1>5, UnseenRefines DEF Reset
  <1>6. ASSUME AdminStep \/ HostExits PROVE [Abstract!Next]_(Abstract!vars)
    <2>1. CASE HostChat \/ Quit
      BY <2>1, BroadcastRefines DEF HostChat, Quit
    <2>2. CASE HostExits
      BY <2>2, UnseenRefines DEF HostExits
    <2> QED BY <1>6, <2>1, <2>2, DecideRefines, KickRefines DEF AdminStep
  <1>7. CASE UNCHANGED vars
    BY <1>7, UnseenRefines DEF vars
  <1> QED BY <1>2, <1>3, <1>4, <1>5, <1>6, <1>7 DEF Next

\* The threads, lists, channels and messages of the session life cycle implement the
\* abstract session: one verdict, one seat after an approval, one lit screen
\* (broadcaster.rs run_client, approve_pending, kick_client; client.rs run_network).
THEOREM SessionRefined == Spec => ImplementsSession
  <1>1. ImplementsSession <=> Abstract!Spec
    BY DEF ImplementsSession
  <1> QED BY <1>1, InitRefines, StepRefines, InductiveInvariant, PTL DEF Spec, Abstract!Spec
================================================================================
