--------------------------- MODULE BroadcasterProof ---------------------------
(* Theorems about the session life cycle for any set of clients, of              *)
(* fingerprints and prefixes, and any depth of the control queues.               *)
EXTENDS Broadcaster, TLAPS

--------------------------------------------------------------------------------
(* The inductive invariant.                                                      *)

\* How far a host thread must be for what the other variables hold of it.
Gated == {"none", "started", "awaitAck", "awaitReport", "announced"}
PastGate == {"approved", "informed", "registered", "sending"}
NotYetSending == Gated \cup {"pending", "approved", "informed", "registered"}

Has(s, m) == \E i \in DOMAIN s : s[i] = m

\* A client is pending exactly while its thread waits for a decision; no decision
\* is made before, and no thread is past the gate without an approval.
DecisionInv(c) ==
    /\ pendingAt[c] # 0 <=> (hpc[c] = "pending" /\ decision[c] = "none")
    /\ hpc[c] \in Gated => decision[c] = "none"
    /\ hpc[c] \in PastGate => decision[c] = "approved"

\* The client list, and what its clients were sent, imply the approval.
GateInv(c) ==
    /\ clientAt[c] # 0 => /\ hpc[c] \in {"registered", "sending", "returned", "cleaning"}
                          /\ decision[c] = "approved"
    /\ Has(down[c], "INFO") => decision[c] = "approved"
    /\ cpc[c] \in {"streaming", "over"} => decision[c] = "approved"

\* A connection's thread starts when its client connects; the read thread is
\* spawned with send_loop; from the registration on a client
\* whose threads are at work is on the list or was kicked.
ThreadInv(c) ==
    /\ cpc[c] = "idle" => hpc[c] = "none"
    /\ hpc[c] \in NotYetSending => rpc[c] = "none"
    /\ hpc[c] \in {"registered", "sending"} /\ rpc[c] \in {"none", "reading"}
           => clientAt[c] # 0 \/ c \in kicked

ClientInv(c) == DecisionInv(c) /\ GateInv(c) /\ ThreadInv(c)

IInv == TypeOK /\ \A c \in Clients : ClientInv(c)

--------------------------------------------------------------------------------
(* Sequences.                                                                    *)

LEMMA EmptySequence == Len(<<>>) = 0 /\ \A x : ~Has(<<>>, x)
  BY DEF Has

LEMMA HasAppend ==
    ASSUME NEW T, NEW s \in Seq(T), NEW m \in T, NEW x, Has(Append(s, m), x)
    PROVE  Has(s, x) \/ m = x
  BY DEF Has

LEMMA HasTail ==
    ASSUME NEW T, NEW s \in Seq(T), s # <<>>, NEW x, Has(Tail(s), x)
    PROVE  Has(s, x)
  <1>1. PICK i \in 1 .. Len(s) - 1 : s[i + 1] = x
    BY DEF Has
  <1>2. i + 1 \in DOMAIN s
    BY <1>1
  <1> QED BY <1>1, <1>2 DEF Has

LEMMA HasHead ==
    ASSUME NEW T, NEW s \in Seq(T), s # <<>>
    PROVE  Head(s) \in T /\ Has(s, Head(s)) /\ Tail(s) \in Seq(T) /\ Len(Tail(s)) = Len(s) - 1
  <1>1. 1 \in DOMAIN s /\ s[1] = Head(s)
    BY DEF Has
  <1> QED BY <1>1 DEF Has

\* What SendDown does to the messages on their way to the clients.
LEMMA SendDownResult ==
    ASSUME TypeOK, NEW c \in Clients, NEW m \in HostMessages, SendDown(c, m)
    PROVE  /\ down' \in [Clients -> Seq(HostMessages)]
           /\ \A d \in Clients \ {c} : down'[d] = down[d]
           /\ \A x : Has(down'[c], x) => Has(down[c], x) \/ m = x
  <1>1. down \in [Clients -> Seq(HostMessages)]
    BY DEF TypeOK
  <1>2. CASE down' = down
    BY <1>1, <1>2
  <1>3. CASE down' = [down EXCEPT ![c] = Append(@, m)]
    <2>1. down'[c] = Append(down[c], m) /\ down[c] \in Seq(HostMessages)
      BY <1>1, <1>3
    <2>2. Append(down[c], m) \in Seq(HostMessages)
      BY <2>1
    <2>3. \A x : Has(down'[c], x) => Has(down[c], x) \/ m = x
      BY <2>1, HasAppend
    <2> QED BY <1>1, <1>3, <2>2, <2>3
  <1> QED BY <1>2, <1>3 DEF SendDown

LEMMA SendUpResult ==
    ASSUME TypeOK, NEW c \in Clients, NEW m \in ClientMessages, SendUp(c, m)
    PROVE  up' \in [Clients -> Seq(ClientMessages)]
  <1>1. up \in [Clients -> Seq(ClientMessages)]
    BY DEF TypeOK
  <1>2. Append(up[c], m) \in Seq(ClientMessages)
    BY <1>1
  <1> QED BY <1>1, <1>2 DEF SendUp

LEMMA TakeUpResult ==
    ASSUME TypeOK, NEW c \in Clients, NEW m, TakeUp(c, m)
    PROVE  up' \in [Clients -> Seq(ClientMessages)]
  <1>1. up \in [Clients -> Seq(ClientMessages)] /\ up[c] # <<>>
    BY DEF TypeOK, TakeUp
  <1>2. Tail(up[c]) \in Seq(ClientMessages)
    BY <1>1, HasHead
  <1> QED BY <1>1, <1>2 DEF TakeUp

LEMMA TakeDownResult ==
    ASSUME TypeOK, NEW c \in Clients, NEW m, TakeDown(c, m)
    PROVE  /\ down' \in [Clients -> Seq(HostMessages)]
           /\ \A d \in Clients \ {c} : down'[d] = down[d]
           /\ \A x : Has(down'[c], x) => Has(down[c], x)
           /\ Has(down[c], m)
  <1>1. down \in [Clients -> Seq(HostMessages)] /\ down[c] # <<>> /\ Head(down[c]) = m
    BY DEF TypeOK, TakeDown
  <1>2. /\ Tail(down[c]) \in Seq(HostMessages)
        /\ Has(down[c], m)
        /\ \A x : Has(Tail(down[c]), x) => Has(down[c], x)
    BY <1>1, HasHead, HasTail
  <1> QED BY <1>1, <1>2 DEF TakeDown

\* try_send keeps every queue within its depth.
LEMMA DeliveredResult ==
    ASSUME TypeOK, NEW S, NEW m \in {"CHAT", "DISCONNECT"}, Delivered(S, m)
    PROVE  /\ ctrl' \in [Clients -> Seq({"CHAT", "DISCONNECT"})]
           /\ \A c \in Clients : Len(ctrl'[c]) <= CtrlQueue
  <1>1. \A c \in Clients : /\ ctrl[c] \in Seq({"CHAT", "DISCONNECT"})
                           /\ Len(ctrl[c]) <= CtrlQueue
                           /\ Append(ctrl[c], m) \in Seq({"CHAT", "DISCONNECT"})
                           /\ Len(Append(ctrl[c], m)) = Len(ctrl[c]) + 1
                           /\ Len(ctrl[c]) \in Nat
    <2> DEFINE T == {"CHAT", "DISCONNECT"}
    <2>1. \A s \in Seq(T) : /\ Append(s, m) \in Seq(T)
                            /\ Len(Append(s, m)) = Len(s) + 1
                            /\ Len(s) \in Nat
      <3> m \in T
        OBVIOUS
      <3> HIDE DEF T
      <3> QED OBVIOUS
    <2>2. \A c \in Clients : ctrl[c] \in Seq(T) /\ Len(ctrl[c]) <= CtrlQueue
      BY DEF TypeOK
    <2> QED BY <2>1, <2>2
  <1>2. \A c \in Clients : HasRoom(c) => Len(ctrl[c]) + 1 <= CtrlQueue
    BY <1>1, CtrlQueueAssumption DEF HasRoom
  <1>3. \A c \in Clients : ctrl'[c] = IF c \in S /\ HasReceiver(c) /\ HasRoom(c)
                                      THEN Append(ctrl[c], m) ELSE ctrl[c]
    BY DEF Delivered
  <1>4. ctrl' \in [Clients -> Seq({"CHAT", "DISCONNECT"})]
    BY <1>1 DEF Delivered
  <1> QED BY <1>1, <1>2, <1>3, <1>4
--------------------------------------------------------------------------------
(* Initial states and frames.                                                    *)

LEMMA InitIInv == Init => IInv
  <1> SUFFICES ASSUME Init PROVE IInv
    OBVIOUS
  <1>1. TypeOK
    <2>1. \A c \in Clients : Len(ctrl[c]) <= CtrlQueue
      <3>1. \A c \in Clients : ctrl[c] = <<>>
        BY DEF Init
      <3>2. 0 <= CtrlQueue
        BY CtrlQueueAssumption
      <3> QED BY <3>1, <3>2, EmptySequence
    <2> QED BY <2>1, MaxChatsAssumption DEF Init, TypeOK, HostPhases, ReadPhases,
                                            ClientPhases
  <1>2. ASSUME NEW c \in Clients PROVE ClientInv(c)
    <2>1. ~Has(down[c], "INFO")
      BY EmptySequence DEF Init
    <2> QED BY <2>1 DEF Init, ClientInv, DecisionInv, GateInv, ThreadInv, Gated, PastGate
  <1> QED BY <1>1, <1>2 DEF IInv

\* A client whose own part of the state a step leaves alone.
LEMMA Untouched ==
    ASSUME NEW d \in Clients, ClientInv(d),
           hpc'[d] = hpc[d], rpc'[d] = rpc[d], pendingAt'[d] = pendingAt[d],
           clientAt'[d] = clientAt[d], decision'[d] = decision[d], cpc'[d] = cpc[d],
           d \in kicked => d \in kicked',
           Has(down'[d], "INFO") => Has(down[d], "INFO")
    PROVE  ClientInv(d)'
  BY DEF ClientInv, DecisionInv, GateInv, ThreadInv

\* A broadcast takes off the list only clients without a receiver.
LEMMA BroadcastClients ==
    ASSUME IInv, NEW m, Broadcast(m),
           UNCHANGED <<hpc, rpc, pendingAt, decision, cpc, kicked, down>>
    PROVE  \A d \in Clients : ClientInv(d)'
  <1> SUFFICES ASSUME NEW d \in Clients PROVE ClientInv(d)'
    OBVIOUS
  <1>1. clientAt'[d] = IF HasReceiver(d) THEN clientAt[d] ELSE 0
    BY DEF Broadcast
  <1>2. ClientInv(d)
    BY DEF IInv
  <1> QED BY <1>1, <1>2 DEF ClientInv, DecisionInv, GateInv, ThreadInv, HasReceiver

LEMMA BroadcastType ==
    ASSUME TypeOK, NEW m \in {"CHAT", "DISCONNECT"}, Broadcast(m)
    PROVE  /\ ctrl' \in [Clients -> Seq({"CHAT", "DISCONNECT"})]
           /\ \A c \in Clients : Len(ctrl'[c]) <= CtrlQueue
           /\ clientAt' \in [Clients -> Nat]
  <1>1. /\ ctrl' \in [Clients -> Seq({"CHAT", "DISCONNECT"})]
        /\ \A c \in Clients : Len(ctrl'[c]) <= CtrlQueue
    BY DeliveredResult DEF Broadcast
  <1>2. clientAt' \in [Clients -> Nat]
    BY DEF TypeOK, Broadcast
  <1> QED BY <1>1, <1>2

--------------------------------------------------------------------------------
(* The host's threads.                                                           *)

LEMMA MainStepIInv ==
    ASSUME IInv, NEW c \in Clients, MainStep(c) \/ HostWriteFails(c)
    PROVE  IInv'
  <1>0. TypeOK /\ \A d \in Clients : ClientInv(d)
    BY DEF IInv
  <1> USE DEF lists, network, clientSide, admin, Return
  <1>1. CASE SendHandshake(c)
    <2>1. /\ down' \in [Clients -> Seq(HostMessages)]
          /\ \A d \in Clients \ {c} : down'[d] = down[d]
          /\ \A x : Has(down'[c], x) => Has(down[c], x) \/ "HANDSHAKE" = x
      BY <1>0, <1>1, SendDownResult DEF SendHandshake, HostMessages
    <2>2. TypeOK'
      BY <1>0, <1>1, <2>1 DEF SendHandshake, TypeOK, HostPhases, ReadPhases
    <2>3. ClientInv(c)'
      BY <1>0, <1>1, <2>1
         DEF SendHandshake, TypeOK, ClientInv, DecisionInv, GateInv, ThreadInv, Gated,
             PastGate, NotYetSending
    <2>4. ASSUME NEW d \in Clients \ {c} PROVE ClientInv(d)'
      BY <1>0, <1>1, <2>1, Untouched DEF SendHandshake, TypeOK
    <2> QED BY <2>2, <2>3, <2>4 DEF IInv
  <1>2. CASE ReadAck(c)
    <2>1. up' \in [Clients -> Seq(ClientMessages)]
      BY <1>0, <1>2, TakeUpResult DEF ReadAck
    <2>2. /\ down' \in [Clients -> Seq(HostMessages)]
          /\ \A d \in Clients \ {c} : down'[d] = down[d]
          /\ \A x : Has(down'[c], x) => Has(down[c], x) \/ "PROBE" = x
      BY <1>0, <1>2, SendDownResult DEF ReadAck, HostMessages
    <2>3. TypeOK'
      BY <1>0, <1>2, <2>1, <2>2 DEF ReadAck, TypeOK, HostPhases, ReadPhases
    <2>4. ClientInv(c)'
      BY <1>0, <1>2, <2>1, <2>2
         DEF ReadAck, TypeOK, ClientInv, DecisionInv, GateInv, ThreadInv, Gated,
             PastGate, NotYetSending
    <2>5. ASSUME NEW d \in Clients \ {c} PROVE ClientInv(d)'
      BY <1>0, <1>2, <2>1, <2>2, Untouched DEF ReadAck, TypeOK
    <2> QED BY <2>3, <2>4, <2>5 DEF IInv
  <1>3. CASE ReadDecline(c)
    <2>1. up' \in [Clients -> Seq(ClientMessages)]
      BY <1>0, <1>3, TakeUpResult DEF ReadDecline
    <2>2. TypeOK'
      BY <1>0, <1>3, <2>1 DEF ReadDecline, TypeOK, HostPhases, ReadPhases
    <2>3. ClientInv(c)'
      BY <1>0, <1>3, <2>1
         DEF ReadDecline, TypeOK, ClientInv, DecisionInv, GateInv, ThreadInv, Gated,
             PastGate, NotYetSending
    <2>4. ASSUME NEW d \in Clients \ {c} PROVE ClientInv(d)'
      BY <1>0, <1>3, <2>1, Untouched DEF ReadDecline, TypeOK
    <2> QED BY <2>2, <2>3, <2>4 DEF IInv
  <1>4. CASE ReadReport(c)
    <2>1. up' \in [Clients -> Seq(ClientMessages)]
      BY <1>0, <1>4, TakeUpResult DEF ReadReport
    <2>2. TypeOK'
      BY <1>0, <1>4, <2>1 DEF ReadReport, TypeOK, HostPhases, ReadPhases
    <2>3. ClientInv(c)'
      BY <1>0, <1>4, <2>1
         DEF ReadReport, TypeOK, ClientInv, DecisionInv, GateInv, ThreadInv, Gated,
             PastGate, NotYetSending
    <2>4. ASSUME NEW d \in Clients \ {c} PROVE ClientInv(d)'
      BY <1>0, <1>4, <2>1, Untouched DEF ReadReport, TypeOK
    <2> QED BY <2>2, <2>3, <2>4 DEF IInv
  <1>5. CASE HostReadFails(c)
    <2>1. TypeOK'
      BY <1>0, <1>5 DEF HostReadFails, TypeOK, HostPhases, ReadPhases
    <2>2. ClientInv(c)'
      BY <1>0, <1>5
         DEF HostReadFails, TypeOK, ClientInv, DecisionInv, GateInv, ThreadInv, Gated,
             PastGate, NotYetSending
    <2>3. ASSUME NEW d \in Clients \ {c} PROVE ClientInv(d)'
      BY <1>0, <1>5, Untouched DEF HostReadFails, TypeOK
    <2> QED BY <2>1, <2>2, <2>3 DEF IInv
  <1>6. CASE PushPending(c)
    <2>1. TypeOK'
      BY <1>0, <1>6 DEF PushPending, TypeOK, HostPhases, ReadPhases
    <2>2. ClientInv(c)'
      BY <1>0, <1>6
         DEF PushPending, TypeOK, ClientInv, DecisionInv, GateInv, ThreadInv, Gated,
             PastGate, NotYetSending
    <2>3. ASSUME NEW d \in Clients \ {c} PROVE ClientInv(d)'
      BY <1>0, <1>6, Untouched DEF PushPending, TypeOK
    <2> QED BY <2>1, <2>2, <2>3 DEF IInv
  <1>7. CASE RecvDecision(c)
    <2>1. \/ down' = down
          \/ /\ down' \in [Clients -> Seq(HostMessages)]
             /\ \A d \in Clients \ {c} : down'[d] = down[d]
             /\ \A x : Has(down'[c], x) => Has(down[c], x) \/ "REJECT" = x
      BY <1>0, <1>7, SendDownResult DEF RecvDecision, HostMessages
    <2>2. TypeOK'
      BY <1>0, <1>7, <2>1 DEF RecvDecision, TypeOK, HostPhases, ReadPhases
    <2>3. ClientInv(c)'
      BY <1>0, <1>7, <2>1
         DEF RecvDecision, TypeOK, ClientInv, DecisionInv, GateInv, ThreadInv, Gated,
             PastGate, NotYetSending
    <2>4. ASSUME NEW d \in Clients \ {c} PROVE ClientInv(d)'
      BY <1>0, <1>7, <2>1, Untouched DEF RecvDecision, TypeOK
    <2> QED BY <2>2, <2>3, <2>4 DEF IInv
  <1>8. CASE SendInfo(c)
    <2>1. /\ down' \in [Clients -> Seq(HostMessages)]
          /\ \A d \in Clients \ {c} : down'[d] = down[d]
          /\ \A x : Has(down'[c], x) => Has(down[c], x) \/ "INFO" = x
      BY <1>0, <1>8, SendDownResult DEF SendInfo, HostMessages
    <2>2. TypeOK'
      BY <1>0, <1>8, <2>1 DEF SendInfo, TypeOK, HostPhases, ReadPhases
    <2>3. ClientInv(c)'
      BY <1>0, <1>8, <2>1
         DEF SendInfo, TypeOK, ClientInv, DecisionInv, GateInv, ThreadInv, Gated,
             PastGate, NotYetSending
    <2>4. ASSUME NEW d \in Clients \ {c} PROVE ClientInv(d)'
      BY <1>0, <1>8, <2>1, Untouched DEF SendInfo, TypeOK
    <2> QED BY <2>2, <2>3, <2>4 DEF IInv
  <1>9. CASE Register(c)
    <2>1. TypeOK'
      BY <1>0, <1>9 DEF Register, TypeOK, HostPhases, ReadPhases
    <2>2. ClientInv(c)'
      BY <1>0, <1>9
         DEF Register, TypeOK, ClientInv, DecisionInv, GateInv, ThreadInv, Gated,
             PastGate, NotYetSending
    <2>3. ASSUME NEW d \in Clients \ {c} PROVE ClientInv(d)'
      BY <1>0, <1>9, Untouched DEF Register, TypeOK
    <2> QED BY <2>1, <2>2, <2>3 DEF IInv
  <1>10. CASE StartStreaming(c)
    <2>1. TypeOK'
      BY <1>0, <1>10 DEF StartStreaming, TypeOK, HostPhases, ReadPhases
    <2>2. ClientInv(c)'
      BY <1>0, <1>10
         DEF StartStreaming, TypeOK, ClientInv, DecisionInv, GateInv, ThreadInv, Gated,
             PastGate, NotYetSending
    <2>3. ASSUME NEW d \in Clients \ {c} PROVE ClientInv(d)'
      BY <1>0, <1>10, Untouched DEF StartStreaming, TypeOK
    <2> QED BY <2>1, <2>2, <2>3 DEF IInv
  <1>11. CASE ServeControl(c)
    <2>1. /\ Head(ctrl[c]) \in {"CHAT", "DISCONNECT"}
          /\ Tail(ctrl[c]) \in Seq({"CHAT", "DISCONNECT"})
          /\ Len(Tail(ctrl[c])) <= CtrlQueue
      <3> DEFINE T == {"CHAT", "DISCONNECT"}
      <3>1. ctrl[c] \in Seq(T) /\ ctrl[c] # <<>> /\ Len(ctrl[c]) <= CtrlQueue
        BY <1>0, <1>11 DEF TypeOK, ServeControl
      <3>2. Head(ctrl[c]) \in T /\ Tail(ctrl[c]) \in Seq(T) /\ Len(Tail(ctrl[c])) = Len(ctrl[c]) - 1
        <4> HIDE DEF T
        <4> QED BY <3>1, HasHead
      <3>3. Len(ctrl[c]) \in Nat
        <4> HIDE DEF T
        <4> QED BY <3>1
      <3> QED BY <3>1, <3>2, <3>3, CtrlQueueAssumption
    <2>2. /\ down' \in [Clients -> Seq(HostMessages)]
          /\ \A d \in Clients \ {c} : down'[d] = down[d]
          /\ \A x : Has(down'[c], x) => Has(down[c], x) \/ Head(ctrl[c]) = x
      BY <1>0, <1>11, <2>1, SendDownResult DEF ServeControl, HostMessages
    <2>3. TypeOK'
      BY <1>0, <1>11, <2>1, <2>2 DEF ServeControl, TypeOK, HostPhases, ReadPhases
    <2>4. ClientInv(c)'
      BY <1>0, <1>11, <2>1, <2>2
         DEF ServeControl, TypeOK, ClientInv, DecisionInv, GateInv, ThreadInv, Gated,
             PastGate, NotYetSending
    <2>5. ASSUME NEW d \in Clients \ {c} PROVE ClientInv(d)'
      BY <1>0, <1>11, <2>1, <2>2, Untouched DEF ServeControl, TypeOK
    <2> QED BY <2>3, <2>4, <2>5 DEF IInv
  <1>12. CASE ControlClosed(c)
    <2>1. TypeOK'
      BY <1>0, <1>12 DEF ControlClosed, TypeOK, HostPhases, ReadPhases
    <2>2. ClientInv(c)'
      BY <1>0, <1>12
         DEF ControlClosed, TypeOK, ClientInv, DecisionInv, GateInv, ThreadInv, Gated,
             PastGate, NotYetSending
    <2>3. ASSUME NEW d \in Clients \ {c} PROVE ClientInv(d)'
      BY <1>0, <1>12, Untouched DEF ControlClosed, TypeOK
    <2> QED BY <2>1, <2>2, <2>3 DEF IInv
  <1>13. CASE HostWriteFails(c)
    <2>1. TypeOK'
      BY <1>0, <1>13 DEF HostWriteFails, TypeOK, HostPhases, ReadPhases
    <2>2. ClientInv(c)'
      BY <1>0, <1>13
         DEF HostWriteFails, TypeOK, ClientInv, DecisionInv, GateInv, ThreadInv, Gated,
             PastGate, NotYetSending
    <2>3. ASSUME NEW d \in Clients \ {c} PROVE ClientInv(d)'
      BY <1>0, <1>13, Untouched DEF HostWriteFails, TypeOK
    <2> QED BY <2>1, <2>2, <2>3 DEF IInv
  <1>14. CASE CleanPending(c)
    <2>1. TypeOK'
      BY <1>0, <1>14 DEF CleanPending, TypeOK, HostPhases, ReadPhases
    <2>2. ClientInv(c)'
      BY <1>0, <1>14
         DEF CleanPending, TypeOK, ClientInv, DecisionInv, GateInv, ThreadInv, Gated,
             PastGate, NotYetSending
    <2>3. ASSUME NEW d \in Clients \ {c} PROVE ClientInv(d)'
      BY <1>0, <1>14, Untouched DEF CleanPending, TypeOK
    <2> QED BY <2>1, <2>2, <2>3 DEF IInv
  <1>15. CASE CleanClients(c)
    <2>1. TypeOK'
      BY <1>0, <1>15 DEF CleanClients, TypeOK, HostPhases, ReadPhases
    <2>2. ClientInv(c)'
      BY <1>0, <1>15
         DEF CleanClients, TypeOK, ClientInv, DecisionInv, GateInv, ThreadInv, Gated,
             PastGate, NotYetSending
    <2>3. ASSUME NEW d \in Clients \ {c} PROVE ClientInv(d)'
      BY <1>0, <1>15, Untouched DEF CleanClients, TypeOK
    <2> QED BY <2>1, <2>2, <2>3 DEF IInv
  <1> QED BY <1>1, <1>2, <1>3, <1>4, <1>5, <1>6, <1>7, <1>8, <1>9, <1>10, <1>11, <1>12,
      <1>13, <1>14, <1>15 DEF MainStep

LEMMA ReadStepIInv ==
    ASSUME IInv, NEW c \in Clients, ReadStep(c)
    PROVE  IInv'
  <1>0. TypeOK /\ \A d \in Clients : ClientInv(d)
    BY DEF IInv
  <1> USE DEF lists, network, clientSide, admin
  <1>1. CASE RelayChat(c)
    <2>1. up' \in [Clients -> Seq(ClientMessages)]
      BY <1>0, <1>1, TakeUpResult DEF RelayChat
    <2>2. /\ ctrl' \in [Clients -> Seq({"CHAT", "DISCONNECT"})]
          /\ \A d \in Clients : Len(ctrl'[d]) <= CtrlQueue
          /\ clientAt' \in [Clients -> Nat]
      BY <1>0, <1>1, BroadcastType DEF RelayChat
    <2>3. TypeOK'
      BY <1>0, <1>1, <2>1, <2>2 DEF RelayChat, TypeOK
    <2>4. \A d \in Clients : ClientInv(d)'
      BY <1>1, BroadcastClients DEF RelayChat
    <2> QED BY <2>3, <2>4 DEF IInv
  <1>2. CASE ReadDisconnect(c)
    <2>1. up' \in [Clients -> Seq(ClientMessages)]
      BY <1>0, <1>2, TakeUpResult DEF ReadDisconnect
    <2>2. TypeOK'
      BY <1>0, <1>2, <2>1 DEF ReadDisconnect, TypeOK, HostPhases, ReadPhases
    <2>3. ClientInv(c)'
      BY <1>0, <1>2, <2>1
         DEF ReadDisconnect, TypeOK, ClientInv, DecisionInv, GateInv, ThreadInv, Gated,
             PastGate, NotYetSending
    <2>4. ASSUME NEW d \in Clients \ {c} PROVE ClientInv(d)'
      BY <1>0, <1>2, <2>1, Untouched DEF ReadDisconnect, TypeOK
    <2> QED BY <2>2, <2>3, <2>4 DEF IInv
  <1>3. CASE ReadEnds(c)
    <2>1. TypeOK'
      BY <1>0, <1>3 DEF ReadEnds, TypeOK, HostPhases, ReadPhases
    <2>2. ClientInv(c)'
      BY <1>0, <1>3
         DEF ReadEnds, TypeOK, ClientInv, DecisionInv, GateInv, ThreadInv, Gated,
             PastGate, NotYetSending
    <2>3. ASSUME NEW d \in Clients \ {c} PROVE ClientInv(d)'
      BY <1>0, <1>3, Untouched DEF ReadEnds, TypeOK
    <2> QED BY <2>1, <2>2, <2>3 DEF IInv
  <1>4. CASE LeaveReadLoop(c)
    <2>1. TypeOK'
      BY <1>0, <1>4 DEF LeaveReadLoop, TypeOK, HostPhases, ReadPhases
    <2>2. ClientInv(c)'
      BY <1>0, <1>4
         DEF LeaveReadLoop, TypeOK, ClientInv, DecisionInv, GateInv, ThreadInv, Gated,
             PastGate, NotYetSending
    <2>3. ASSUME NEW d \in Clients \ {c} PROVE ClientInv(d)'
      BY <1>0, <1>4, Untouched DEF LeaveReadLoop, TypeOK
    <2> QED BY <2>1, <2>2, <2>3 DEF IInv
  <1> QED BY <1>1, <1>2, <1>3, <1>4 DEF ReadStep

--------------------------------------------------------------------------------
(* The clients.                                                                  *)

LEMMA ClientStopsResult ==
    ASSUME TypeOK, NEW c \in Clients, NEW phase \in ClientPhases, ClientStops(c, phase)
    PROVE  /\ cpc' = [cpc EXCEPT ![c] = phase]
           /\ cpc' \in [Clients -> ClientPhases]
           /\ down' \in [Clients -> Seq(HostMessages)]
           /\ \A d \in Clients \ {c} : down'[d] = down[d]
           /\ ~Has(down'[c], "INFO")
  <1>1. <<>> \in Seq(HostMessages)
    OBVIOUS
  <1>2. cpc' \in [Clients -> ClientPhases] /\ down'[c] = <<>>
    BY DEF ClientStops, TypeOK
  <1> QED BY <1>1, <1>2, EmptySequence DEF ClientStops, TypeOK

LEMMA ClientIInv ==
    ASSUME IInv, NEW c \in Clients, ClientStep(c) \/ ViewerStep(c) \/ WindowCloses(c)
    PROVE  IInv'
  <1>0. TypeOK /\ \A d \in Clients : ClientInv(d)
    BY DEF IInv
  <1> USE DEF lists, network, clientSide, admin
  <1>1. CASE Connect(c)
    <2>1. TypeOK'
      BY <1>0, <1>1 DEF Connect, TypeOK, HostPhases, ClientPhases
    <2>2. ClientInv(c)'
      BY <1>0, <1>1
         DEF Connect, TypeOK, ClientInv, DecisionInv, GateInv, ThreadInv, Gated,
             PastGate, NotYetSending
    <2>3. ASSUME NEW d \in Clients \ {c} PROVE ClientInv(d)'
      BY <1>0, <1>1, Untouched DEF Connect, TypeOK
    <2> QED BY <2>1, <2>2, <2>3 DEF IInv
  <1>2. CASE ConnectRefused(c)
    <2>1. TypeOK'
      BY <1>0, <1>2 DEF ConnectRefused, TypeOK, ClientPhases
    <2>2. ClientInv(c)'
      BY <1>0, <1>2
         DEF ConnectRefused, TypeOK, ClientInv, DecisionInv, GateInv, ThreadInv, Gated,
             PastGate, NotYetSending
    <2>3. ASSUME NEW d \in Clients \ {c} PROVE ClientInv(d)'
      BY <1>0, <1>2, Untouched DEF ConnectRefused, TypeOK
    <2> QED BY <2>1, <2>2, <2>3 DEF IInv
  <1>3. CASE ReadHandshake(c)
    <2>1. /\ down' \in [Clients -> Seq(HostMessages)]
          /\ \A d \in Clients \ {c} : down'[d] = down[d]
          /\ \A x : Has(down'[c], x) => Has(down[c], x)
          /\ Has(down[c], "HANDSHAKE")
      BY <1>0, <1>3, TakeDownResult DEF ReadHandshake
    <2>2. up' \in [Clients -> Seq(ClientMessages)]
      BY <1>0, <1>3, SendUpResult DEF ReadHandshake, ClientMessages, TypeOK
    <2>3. TypeOK'
      BY <1>0, <1>3, <2>1, <2>2 DEF ReadHandshake, TypeOK, ClientPhases
    <2>4. ClientInv(c)'
      BY <1>0, <1>3, <2>1, <2>2
         DEF ReadHandshake, TypeOK, ClientInv, DecisionInv, GateInv, ThreadInv, Gated,
             PastGate, NotYetSending
    <2>5. ASSUME NEW d \in Clients \ {c} PROVE ClientInv(d)'
      BY <1>0, <1>3, <2>1, <2>2, Untouched DEF ReadHandshake, TypeOK
    <2> QED BY <2>3, <2>4, <2>5 DEF IInv
  <1>4. CASE Decline(c)
    <2>1. up' \in [Clients -> Seq(ClientMessages)]
      BY <1>0, <1>4, SendUpResult DEF Decline, ClientMessages
    <2>2. /\ cpc' = [cpc EXCEPT ![c] = "failed"]
          /\ cpc' \in [Clients -> ClientPhases]
          /\ down' \in [Clients -> Seq(HostMessages)]
          /\ \A d \in Clients \ {c} : down'[d] = down[d]
          /\ ~Has(down'[c], "INFO")
      BY <1>0, <1>4, ClientStopsResult DEF Decline, ClientPhases
    <2>3. TypeOK'
      BY <1>0, <1>4, <2>1, <2>2 DEF Decline, TypeOK, ClientPhases
    <2>4. ClientInv(c)'
      BY <1>0, <1>4, <2>1, <2>2
         DEF Decline, TypeOK, ClientInv, DecisionInv, GateInv, ThreadInv, Gated,
             PastGate, NotYetSending
    <2>5. ASSUME NEW d \in Clients \ {c} PROVE ClientInv(d)'
      BY <1>0, <1>4, <2>1, <2>2, Untouched DEF Decline, TypeOK
    <2> QED BY <2>3, <2>4, <2>5 DEF IInv
  <1>5. CASE Confirm(c)
    <2>1. up' \in [Clients -> Seq(ClientMessages)]
      BY <1>0, <1>5, SendUpResult DEF Confirm, ClientMessages
    <2>2. TypeOK'
      BY <1>0, <1>5, <2>1 DEF Confirm, TypeOK, ClientPhases
    <2>3. ClientInv(c)'
      BY <1>0, <1>5, <2>1
         DEF Confirm, TypeOK, ClientInv, DecisionInv, GateInv, ThreadInv, Gated,
             PastGate, NotYetSending
    <2>4. ASSUME NEW d \in Clients \ {c} PROVE ClientInv(d)'
      BY <1>0, <1>5, <2>1, Untouched DEF Confirm, TypeOK
    <2> QED BY <2>2, <2>3, <2>4 DEF IInv
  <1>6. CASE ReadProbe(c)
    <2>1. /\ down' \in [Clients -> Seq(HostMessages)]
          /\ \A d \in Clients \ {c} : down'[d] = down[d]
          /\ \A x : Has(down'[c], x) => Has(down[c], x)
          /\ Has(down[c], "PROBE")
      BY <1>0, <1>6, TakeDownResult DEF ReadProbe
    <2>2. up' \in [Clients -> Seq(ClientMessages)]
      BY <1>0, <1>6, SendUpResult DEF ReadProbe, ClientMessages
    <2>3. TypeOK'
      BY <1>0, <1>6, <2>1, <2>2 DEF ReadProbe, TypeOK, ClientPhases
    <2>4. ClientInv(c)'
      BY <1>0, <1>6, <2>1, <2>2
         DEF ReadProbe, TypeOK, ClientInv, DecisionInv, GateInv, ThreadInv, Gated,
             PastGate, NotYetSending
    <2>5. ASSUME NEW d \in Clients \ {c} PROVE ClientInv(d)'
      BY <1>0, <1>6, <2>1, <2>2, Untouched DEF ReadProbe, TypeOK
    <2> QED BY <2>3, <2>4, <2>5 DEF IInv
  <1>7. CASE ReadInfo(c)
    <2>1. /\ down' \in [Clients -> Seq(HostMessages)]
          /\ \A d \in Clients \ {c} : down'[d] = down[d]
          /\ \A x : Has(down'[c], x) => Has(down[c], x)
          /\ Has(down[c], "INFO")
      BY <1>0, <1>7, TakeDownResult DEF ReadInfo
    <2>2. TypeOK'
      BY <1>0, <1>7, <2>1 DEF ReadInfo, TypeOK, ClientPhases
    <2>3. ClientInv(c)'
      BY <1>0, <1>7, <2>1
         DEF ReadInfo, TypeOK, ClientInv, DecisionInv, GateInv, ThreadInv, Gated,
             PastGate, NotYetSending
    <2>4. ASSUME NEW d \in Clients \ {c} PROVE ClientInv(d)'
      BY <1>0, <1>7, <2>1, Untouched DEF ReadInfo, TypeOK
    <2> QED BY <2>2, <2>3, <2>4 DEF IInv
  <1>8. CASE ReadReject(c)
    <2>1. /\ cpc' = [cpc EXCEPT ![c] = "rejected"]
          /\ cpc' \in [Clients -> ClientPhases]
          /\ down' \in [Clients -> Seq(HostMessages)]
          /\ \A d \in Clients \ {c} : down'[d] = down[d]
          /\ ~Has(down'[c], "INFO")
      BY <1>0, <1>8, ClientStopsResult DEF ReadReject, ClientPhases
    <2>2. TypeOK'
      BY <1>0, <1>8, <2>1 DEF ReadReject, TypeOK, ClientPhases
    <2>3. ClientInv(c)'
      BY <1>0, <1>8, <2>1
         DEF ReadReject, TypeOK, ClientInv, DecisionInv, GateInv, ThreadInv, Gated,
             PastGate, NotYetSending
    <2>4. ASSUME NEW d \in Clients \ {c} PROVE ClientInv(d)'
      BY <1>0, <1>8, <2>1, Untouched DEF ReadReject, TypeOK
    <2> QED BY <2>2, <2>3, <2>4 DEF IInv
  <1>9. CASE ClientReadFails(c)
    <2>1. /\ cpc' = [cpc EXCEPT ![c] = "failed"]
          /\ cpc' \in [Clients -> ClientPhases]
          /\ down' \in [Clients -> Seq(HostMessages)]
          /\ \A d \in Clients \ {c} : down'[d] = down[d]
          /\ ~Has(down'[c], "INFO")
      BY <1>0, <1>9, ClientStopsResult DEF ClientReadFails, ClientPhases
    <2>2. TypeOK'
      BY <1>0, <1>9, <2>1 DEF ClientReadFails, TypeOK, ClientPhases
    <2>3. ClientInv(c)'
      BY <1>0, <1>9, <2>1
         DEF ClientReadFails, TypeOK, ClientInv, DecisionInv, GateInv, ThreadInv,
             Gated, PastGate, NotYetSending
    <2>4. ASSUME NEW d \in Clients \ {c} PROVE ClientInv(d)'
      BY <1>0, <1>9, <2>1, Untouched DEF ClientReadFails, TypeOK
    <2> QED BY <2>2, <2>3, <2>4 DEF IInv
  <1>10. CASE ReadChat(c)
    <2>1. /\ down' \in [Clients -> Seq(HostMessages)]
          /\ \A d \in Clients \ {c} : down'[d] = down[d]
          /\ \A x : Has(down'[c], x) => Has(down[c], x)
          /\ Has(down[c], "CHAT")
      BY <1>0, <1>10, TakeDownResult DEF ReadChat
    <2>2. TypeOK'
      BY <1>0, <1>10, <2>1 DEF ReadChat, TypeOK, ClientPhases
    <2>3. ClientInv(c)'
      BY <1>0, <1>10, <2>1
         DEF ReadChat, TypeOK, ClientInv, DecisionInv, GateInv, ThreadInv, Gated,
             PastGate, NotYetSending
    <2>4. ASSUME NEW d \in Clients \ {c} PROVE ClientInv(d)'
      BY <1>0, <1>10, <2>1, Untouched DEF ReadChat, TypeOK
    <2> QED BY <2>2, <2>3, <2>4 DEF IInv
  <1>11. CASE StreamEnds(c)
    <2>1. /\ cpc' = [cpc EXCEPT ![c] = "over"]
          /\ cpc' \in [Clients -> ClientPhases]
          /\ down' \in [Clients -> Seq(HostMessages)]
          /\ \A d \in Clients \ {c} : down'[d] = down[d]
          /\ ~Has(down'[c], "INFO")
      BY <1>0, <1>11, ClientStopsResult DEF StreamEnds, ClientPhases
    <2>2. TypeOK'
      BY <1>0, <1>11, <2>1 DEF StreamEnds, TypeOK, ClientPhases
    <2>3. ClientInv(c)'
      BY <1>0, <1>11, <2>1
         DEF StreamEnds, TypeOK, ClientInv, DecisionInv, GateInv, ThreadInv, Gated,
             PastGate, NotYetSending
    <2>4. ASSUME NEW d \in Clients \ {c} PROVE ClientInv(d)'
      BY <1>0, <1>11, <2>1, Untouched DEF StreamEnds, TypeOK
    <2> QED BY <2>2, <2>3, <2>4 DEF IInv
  <1>12. CASE ClientChat(c)
    <2>1. up' \in [Clients -> Seq(ClientMessages)]
      BY <1>0, <1>12, SendUpResult DEF ClientChat, ClientMessages
    <2>2. TypeOK'
      BY <1>0, <1>12, <2>1, MaxChatsAssumption DEF ClientChat, TypeOK, ClientPhases
    <2>3. ClientInv(c)'
      BY <1>0, <1>12, <2>1
         DEF ClientChat, TypeOK, ClientInv, DecisionInv, GateInv, ThreadInv, Gated,
             PastGate, NotYetSending
    <2>4. ASSUME NEW d \in Clients \ {c} PROVE ClientInv(d)'
      BY <1>0, <1>12, <2>1, Untouched DEF ClientChat, TypeOK
    <2> QED BY <2>2, <2>3, <2>4 DEF IInv
  <1>13. CASE UserLeaves(c)
    <2>1. up' \in [Clients -> Seq(ClientMessages)]
      BY <1>0, <1>13, SendUpResult DEF UserLeaves, ClientMessages, TypeOK
    <2>2. /\ cpc' = [cpc EXCEPT ![c] = "exited"]
          /\ cpc' \in [Clients -> ClientPhases]
          /\ down' \in [Clients -> Seq(HostMessages)]
          /\ \A d \in Clients \ {c} : down'[d] = down[d]
          /\ ~Has(down'[c], "INFO")
      BY <1>0, <1>13, ClientStopsResult DEF UserLeaves, ClientPhases
    <2>3. TypeOK'
      BY <1>0, <1>13, <2>1, <2>2 DEF UserLeaves, TypeOK, ClientPhases
    <2>4. ClientInv(c)'
      BY <1>0, <1>13, <2>1, <2>2
         DEF UserLeaves, TypeOK, ClientInv, DecisionInv, GateInv, ThreadInv, Gated,
             PastGate, NotYetSending
    <2>5. ASSUME NEW d \in Clients \ {c} PROVE ClientInv(d)'
      BY <1>0, <1>13, <2>1, <2>2, Untouched DEF UserLeaves, TypeOK
    <2> QED BY <2>3, <2>4, <2>5 DEF IInv
  <1>14. CASE WindowCloses(c)
    <2>1. /\ cpc' = [cpc EXCEPT ![c] = "exited"]
          /\ cpc' \in [Clients -> ClientPhases]
          /\ down' \in [Clients -> Seq(HostMessages)]
          /\ \A d \in Clients \ {c} : down'[d] = down[d]
          /\ ~Has(down'[c], "INFO")
      BY <1>0, <1>14, ClientStopsResult DEF WindowCloses, ClientPhases
    <2>2. TypeOK'
      BY <1>0, <1>14, <2>1 DEF WindowCloses, TypeOK, ClientPhases
    <2>3. ClientInv(c)'
      BY <1>0, <1>14, <2>1
         DEF WindowCloses, TypeOK, ClientInv, DecisionInv, GateInv, ThreadInv, Gated,
             PastGate, NotYetSending
    <2>4. ASSUME NEW d \in Clients \ {c} PROVE ClientInv(d)'
      BY <1>0, <1>14, <2>1, Untouched DEF WindowCloses, TypeOK
    <2> QED BY <2>2, <2>3, <2>4 DEF IInv
  <1> QED BY <1>1, <1>2, <1>3, <1>4, <1>5, <1>6, <1>7, <1>8, <1>9, <1>10, <1>11, <1>12,
      <1>13, <1>14 DEF ClientStep, ViewerStep

LEMMA ResetIInv ==
    ASSUME IInv, NEW c \in Clients, Reset(c)
    PROVE  IInv'
  <1>0. TypeOK /\ \A d \in Clients : ClientInv(d)
    BY DEF IInv
  <1> USE DEF lists, clientSide, admin
  <1>1. /\ <<>> \in Seq(HostMessages)
        /\ <<>> \in Seq(ClientMessages)
    OBVIOUS
  <1>2. TypeOK'
    BY <1>0, <1>1 DEF Reset, TypeOK
  <1>3. \A d \in Clients : Has(down'[d], "INFO") => Has(down[d], "INFO")
    <2>1. \A d \in Clients : down'[d] = IF d = c THEN <<>> ELSE down[d]
      BY <1>0 DEF Reset, TypeOK
    <2> QED BY <2>1, EmptySequence
  <1>4. ASSUME NEW d \in Clients PROVE ClientInv(d)'
    BY <1>0, <1>3, Untouched DEF Reset
  <1> QED BY <1>2, <1>4 DEF IInv

--------------------------------------------------------------------------------
(* The host user.                                                                *)

LEMMA DecideIInv ==
    ASSUME IInv, NEW prefix \in Prefixes, NEW verdict \in {"approved", "denied"},
           Decide(prefix, verdict)
    PROVE  IInv'
  <1>0. TypeOK /\ \A d \in Clients : ClientInv(d)
    BY DEF IInv
  <1> USE DEF network, clientSide
  <1>1. PICK c \in First(Matching(Pending, prefix), pendingAt) :
            /\ decision' = [decision EXCEPT ![c] = verdict]
            /\ pendingAt' = [pendingAt EXCEPT ![c] = 0]
    BY DEF Decide
  <1>2. c \in Clients /\ pendingAt[c] # 0
    BY <1>1 DEF First, Matching, Pending
  <1>3. hpc[c] = "pending" /\ decision[c] = "none"
    BY <1>0, <1>2 DEF ClientInv, DecisionInv
  <1>4. TypeOK'
    BY <1>0, <1>1, <1>2 DEF Decide, TypeOK
  <1>5. ClientInv(c)'
    BY <1>0, <1>1, <1>2, <1>3
       DEF Decide, TypeOK, ClientInv, DecisionInv, GateInv, ThreadInv, Gated, PastGate
  <1>6. ASSUME NEW d \in Clients \ {c} PROVE ClientInv(d)'
    BY <1>0, <1>1, <1>2, Untouched DEF Decide, TypeOK
  <1> QED BY <1>4, <1>5, <1>6 DEF IInv

LEMMA KickIInv ==
    ASSUME IInv, NEW prefix \in Prefixes, Kick(prefix)
    PROVE  IInv'
  <1>0. TypeOK /\ \A d \in Clients : ClientInv(d)
    BY DEF IInv
  <1> USE DEF network, clientSide
  <1>1. PICK c \in First(Matching(Viewers, prefix), clientAt) :
            /\ Delivered({c}, "DISCONNECT")
            /\ clientAt' = [clientAt EXCEPT ![c] = 0]
            /\ kicked' = kicked \cup {c}
    BY DEF Kick
  <1>2. c \in Clients
    BY <1>1 DEF First, Matching, Viewers
  <1>3. /\ ctrl' \in [Clients -> Seq({"CHAT", "DISCONNECT"})]
        /\ \A d \in Clients : Len(ctrl'[d]) <= CtrlQueue
    BY <1>0, <1>1, DeliveredResult
  <1>4. TypeOK'
    BY <1>0, <1>1, <1>2, <1>3 DEF Kick, TypeOK
  <1>5. ClientInv(c)'
    BY <1>0, <1>1, <1>2 DEF Kick, TypeOK, ClientInv, DecisionInv, GateInv, ThreadInv
  <1>6. ASSUME NEW d \in Clients \ {c} PROVE ClientInv(d)'
    BY <1>0, <1>1, <1>2, Untouched DEF Kick, TypeOK
  <1> QED BY <1>4, <1>5, <1>6 DEF IInv

LEMMA HostIInv ==
    ASSUME IInv, HostChat \/ Quit \/ HostExits
    PROVE  IInv'
  <1>0. TypeOK /\ \A d \in Clients : ClientInv(d)
    BY DEF IInv
  <1> USE DEF lists, network, clientSide, admin
  <1>1. CASE HostChat
    <2>1. /\ ctrl' \in [Clients -> Seq({"CHAT", "DISCONNECT"})]
          /\ \A d \in Clients : Len(ctrl'[d]) <= CtrlQueue
          /\ clientAt' \in [Clients -> Nat]
      BY <1>0, <1>1, BroadcastType DEF HostChat
    <2>2. TypeOK'
      BY <1>0, <1>1, <2>1, MaxChatsAssumption DEF HostChat, TypeOK
    <2>3. \A d \in Clients : ClientInv(d)'
      BY <1>1, BroadcastClients DEF HostChat
    <2> QED BY <2>2, <2>3 DEF IInv
  <1>2. CASE Quit
    <2>1. /\ ctrl' \in [Clients -> Seq({"CHAT", "DISCONNECT"})]
          /\ \A d \in Clients : Len(ctrl'[d]) <= CtrlQueue
          /\ clientAt' \in [Clients -> Nat]
      BY <1>0, <1>2, BroadcastType DEF Quit
    <2>2. TypeOK'
      BY <1>0, <1>2, <2>1 DEF Quit, TypeOK
    <2>3. \A d \in Clients : ClientInv(d)'
      BY <1>2, BroadcastClients DEF Quit
    <2> QED BY <2>2, <2>3 DEF IInv
  <1>3. CASE HostExits
    <2>1. TypeOK'
      BY <1>0, <1>3 DEF HostExits, TypeOK
    <2>2. ASSUME NEW d \in Clients PROVE ClientInv(d)'
      BY <1>0, <1>3, Untouched DEF HostExits
    <2> QED BY <2>1, <2>2 DEF IInv
  <1> QED BY <1>1, <1>2, <1>3

--------------------------------------------------------------------------------
(* The order of what a client is sent.  A message that closes the connection is  *)
(* written only by a thread that then returns, so no later one can follow; chat  *)
(* is written by send_loop only, which is entered after STREAM_INFO.             *)

Closed == {"returned", "cleaning", "done"}
Chatting == Closed \cup {"sending"}

OrderInv(c) ==
    /\ Has(down[c], "DISCONNECT") \/ Has(down[c], "REJECT") => hpc[c] \in Closed
    /\ Has(down[c], "CHAT") => hpc[c] \in Chatting
    /\ \A i, j \in DOMAIN down[c] :
           i < j => /\ down[c][i] \notin {"DISCONNECT", "REJECT"}
                    /\ down[c][j] = "INFO" => down[c][i] # "CHAT"

\* The host thread of a connection never goes back.
Onward(c) == /\ hpc[c] \in Closed => hpc'[c] \in Closed
             /\ hpc[c] \in Chatting => hpc'[c] \in Chatting

\* Reading a message, losing all of them and leaving them alone keep the order.
LEMMA OrderKept ==
    ASSUME TypeOK, NEW c \in Clients, OrderInv(c), Onward(c),
           \/ down'[c] = down[c]
           \/ down'[c] = <<>>
           \/ down[c] # <<>> /\ down'[c] = Tail(down[c])
    PROVE  OrderInv(c)'
  <1>1. CASE down'[c] = down[c]
    BY <1>1 DEF OrderInv, Onward
  <1>2. CASE down'[c] = <<>>
    <2>1. DOMAIN down'[c] = {} /\ \A x : ~Has(down'[c], x)
      BY <1>2, EmptySequence
    <2> QED BY <2>1 DEF OrderInv, Has
  <1>3. CASE down[c] # <<>> /\ down'[c] = Tail(down[c])
    <2> DEFINE s == down[c]
               t == down'[c]
    <2>1. s \in Seq(HostMessages)
      BY DEF TypeOK
    <2>2. \A x : Has(t, x) => Has(s, x)
      BY <1>3, <2>1, HasTail
    <2>3. \A i \in DOMAIN t : i \in Nat /\ i + 1 \in DOMAIN s /\ t[i] = s[i + 1]
      BY <1>3, <2>1
    <2>4. \A i, j \in DOMAIN s :
              i < j => /\ s[i] \notin {"DISCONNECT", "REJECT"}
                       /\ s[j] = "INFO" => s[i] # "CHAT"
      BY DEF OrderInv
    <2>5. \A i, j \in DOMAIN t :
              i < j => /\ t[i] \notin {"DISCONNECT", "REJECT"}
                       /\ t[j] = "INFO" => t[i] # "CHAT"
      <3> SUFFICES ASSUME NEW i \in DOMAIN t, NEW j \in DOMAIN t, i < j
                   PROVE  /\ t[i] \notin {"DISCONNECT", "REJECT"}
                          /\ t[j] = "INFO" => t[i] # "CHAT"
        OBVIOUS
      <3>1. i + 1 \in DOMAIN s /\ j + 1 \in DOMAIN s /\ i + 1 < j + 1
        BY <2>3
      <3> QED BY <2>3, <2>4, <3>1
    <2> QED BY <2>2, <2>5 DEF OrderInv, Onward
  <1> QED BY <1>1, <1>2, <1>3

\* A thread that is not closed yet writes m: it closes if m does, and STREAM_INFO
\* is not written by a thread that may have relayed chat.
LEMMA OrderAppended ==
    ASSUME TypeOK, NEW c \in Clients, OrderInv(c), Onward(c),
           NEW m \in HostMessages, down'[c] = Append(down[c], m),
           hpc[c] \notin Closed,
           m \in {"DISCONNECT", "REJECT"} => hpc'[c] \in Closed,
           m = "CHAT" => hpc'[c] \in Chatting,
           m = "INFO" => hpc[c] \notin Chatting
    PROVE  OrderInv(c)'
  <1> DEFINE s == down[c]
             t == down'[c]
  <1>1. s \in Seq(HostMessages)
    BY DEF TypeOK
  <1>2. \A x : Has(t, x) => Has(s, x) \/ m = x
    BY <1>1, HasAppend
  <1>3. \A i \in DOMAIN t : /\ i \in 1 .. Len(s) + 1
                            /\ i \in DOMAIN s => t[i] = s[i]
                            /\ i \notin DOMAIN s => i = Len(s) + 1 /\ t[i] = m
    BY <1>1
  <1>4. \A i, j \in DOMAIN t :
            i < j => /\ t[i] \notin {"DISCONNECT", "REJECT"}
                     /\ t[j] = "INFO" => t[i] # "CHAT"
    <2> SUFFICES ASSUME NEW i \in DOMAIN t, NEW j \in DOMAIN t, i < j
                 PROVE  /\ t[i] \notin {"DISCONNECT", "REJECT"}
                        /\ t[j] = "INFO" => t[i] # "CHAT"
      OBVIOUS
    <2>1. i \in DOMAIN s /\ t[i] = s[i]
      BY <1>1, <1>3
    <2>2. ~Has(s, "DISCONNECT") /\ ~Has(s, "REJECT")
      BY DEF OrderInv
    <2>3. t[i] \notin {"DISCONNECT", "REJECT"}
      BY <2>1, <2>2 DEF Has
    <2>4. CASE j \in DOMAIN s
      BY <1>3, <2>1, <2>3, <2>4 DEF OrderInv
    <2>5. CASE j \notin DOMAIN s
      <3>1. t[j] = m
        BY <1>3, <2>5
      <3>2. m = "INFO" => ~Has(s, "CHAT")
        BY DEF OrderInv
      <3> QED BY <2>1, <2>3, <3>1, <3>2 DEF Has
    <2> QED BY <2>4, <2>5
  <1> QED BY <1>2, <1>4 DEF OrderInv, Onward

\* A connection whose thread and messages a step leaves alone.
LEMMA OrderUntouched ==
    ASSUME NEW d \in Clients, OrderInv(d), hpc'[d] = hpc[d], down'[d] = down[d]
    PROVE  OrderInv(d)'
  BY DEF OrderInv

LEMMA OrderSent ==
    ASSUME TypeOK, NEW c \in Clients, OrderInv(c), Onward(c),
           NEW m \in HostMessages, SendDown(c, m),
           hpc[c] \notin Closed,
           m \in {"DISCONNECT", "REJECT"} => hpc'[c] \in Closed,
           m = "CHAT" => hpc'[c] \in Chatting,
           m = "INFO" => hpc[c] \notin Chatting
    PROVE  OrderInv(c)'
  <1>1. down'[c] = down[c] \/ down'[c] = Append(down[c], m)
    BY DEF SendDown, TypeOK
  <1> QED BY <1>1, OrderKept, OrderAppended

LEMMA MainStepOrder ==
    ASSUME TypeOK, NEW c \in Clients, OrderInv(c), MainStep(c) \/ HostWriteFails(c)
    PROVE  OrderInv(c)'
  <1> USE DEF lists, network, clientSide, admin, Return, Closed, Chatting
  <1>0. hpc \in [Clients -> HostPhases] /\ down \in [Clients -> Seq(HostMessages)]
    BY DEF TypeOK
  <1>1. CASE SendHandshake(c)
    <2>1. hpc[c] = "started" /\ hpc'[c] = "awaitAck" /\ SendDown(c, "HANDSHAKE")
      BY <1>0, <1>1 DEF SendHandshake
    <2> QED BY <2>1, OrderSent DEF HostMessages, Onward
  <1>2. CASE ReadAck(c)
    <2>1. hpc[c] = "awaitAck" /\ hpc'[c] = "awaitReport" /\ SendDown(c, "PROBE")
      BY <1>0, <1>2 DEF ReadAck
    <2> QED BY <2>1, OrderSent DEF HostMessages, Onward
  <1>3. CASE RecvDecision(c)
    <2>1. CASE decision[c] = "approved"
      <3>1. hpc[c] = "pending" /\ hpc'[c] = "approved" /\ down'[c] = down[c]
        BY <1>0, <1>3, <2>1 DEF RecvDecision
      <3> QED BY <3>1, OrderKept DEF Onward
    <2>2. CASE decision[c] = "denied"
      <3>1. hpc[c] = "pending" /\ hpc'[c] = "returned" /\ SendDown(c, "REJECT")
        BY <1>0, <1>3, <2>2 DEF RecvDecision
      <3> QED BY <3>1, OrderSent DEF HostMessages, Onward
    <2> QED BY <1>3, <2>1, <2>2 DEF RecvDecision
  <1>4. CASE SendInfo(c)
    <2>1. hpc[c] = "approved" /\ hpc'[c] = "informed" /\ SendDown(c, "INFO")
      BY <1>0, <1>4 DEF SendInfo
    <2> QED BY <2>1, OrderSent DEF HostMessages, Onward
  <1>5. CASE ServeControl(c)
    <2>1. Head(ctrl[c]) \in {"CHAT", "DISCONNECT"} /\ ctrl[c] # <<>>
      <3>1. ctrl[c] \in Seq({"CHAT", "DISCONNECT"}) /\ ctrl[c] # <<>>
        BY <1>5 DEF ServeControl, TypeOK
      <3> QED BY <3>1, HasHead
    <2>2. /\ hpc[c] = "sending"
          /\ SendDown(c, Head(ctrl[c]))
          /\ hpc'[c] = IF Head(ctrl[c]) = "DISCONNECT" THEN "returned" ELSE "sending"
      BY <1>0, <1>5 DEF ServeControl
    <2> QED BY <2>1, <2>2, OrderSent DEF HostMessages, Onward
  <1>6. CASE ReadDecline(c) \/ ReadReport(c) \/ HostReadFails(c) \/ PushPending(c)
              \/ Register(c) \/ StartStreaming(c) \/ ControlClosed(c) \/ CleanPending(c)
              \/ CleanClients(c) \/ HostWriteFails(c)
    <2>1. Onward(c) /\ down'[c] = down[c]
      BY <1>0, <1>6 DEF Onward, ReadDecline, ReadReport, HostReadFails, PushPending, Register,
                        StartStreaming, ControlClosed, CleanPending, CleanClients,
                        HostWriteFails
    <2> QED BY <2>1, OrderKept
  <1> QED BY <1>1, <1>2, <1>3, <1>4, <1>5, <1>6 DEF MainStep

LEMMA MainStepOthers ==
    ASSUME TypeOK, NEW c \in Clients, MainStep(c) \/ HostWriteFails(c), NEW d \in Clients \ {c}
    PROVE  hpc'[d] = hpc[d] /\ down'[d] = down[d]
  <1> USE DEF lists, network, clientSide, admin, Return, SendDown, TypeOK
  <1>1. CASE MainStep(c)
    BY <1>1 DEF MainStep, SendHandshake, ReadAck, ReadDecline, ReadReport, HostReadFails,
                PushPending, RecvDecision, SendInfo, Register, StartStreaming, ServeControl,
                ControlClosed, CleanPending, CleanClients
  <1>2. CASE HostWriteFails(c)
    BY <1>2 DEF HostWriteFails
  <1> QED BY <1>1, <1>2

\* Every other step leaves the messages to a client alone, takes the first of them
\* or loses them all; only Connect moves a host thread, from its start.
LEMMA ClientOrder ==
    ASSUME TypeOK, NEW c \in Clients, ThreadInv(c),
           ClientStep(c) \/ ViewerStep(c) \/ WindowCloses(c) \/ Reset(c)
    PROVE  /\ \A d \in Clients \ {c} : hpc'[d] = hpc[d] /\ down'[d] = down[d]
           /\ Onward(c)
           /\ \/ down'[c] = down[c]
              \/ down'[c] = <<>>
              \/ down[c] # <<>> /\ down'[c] = Tail(down[c])
  <1>0. hpc \in [Clients -> HostPhases] /\ down \in [Clients -> Seq(HostMessages)]
    BY DEF TypeOK
  <1> USE <1>0 DEF lists, network, clientSide, admin, TakeDown, ClientStops, Onward
  <1>1. CASE Connect(c)
    BY <1>1 DEF Connect, ThreadInv, Closed, Chatting
  <1>2. CASE ClientStep(c)
    BY <1>2 DEF ClientStep, ReadHandshake, ReadProbe, ReadInfo, ReadReject, ReadChat,
                StreamEnds, ClientReadFails
  <1>3. CASE ConnectRefused(c) \/ Decline(c) \/ Confirm(c) \/ ClientChat(c) \/ UserLeaves(c)
    BY <1>3 DEF ConnectRefused, Decline, Confirm, ClientChat, UserLeaves
  <1>4. CASE WindowCloses(c) \/ Reset(c)
    BY <1>4 DEF WindowCloses, Reset
  <1> QED BY <1>1, <1>2, <1>3, <1>4 DEF ViewerStep

LEMMA NextOrder ==
    ASSUME IInv, \A c \in Clients : OrderInv(c), [Next]_vars
    PROVE  \A c \in Clients : OrderInv(c)'
  <1>0. TypeOK /\ \A c \in Clients : ThreadInv(c)
    BY DEF IInv, ClientInv
  <1>1. ASSUME NEW c \in Clients, MainStep(c) \/ HostWriteFails(c)
        PROVE  \A d \in Clients : OrderInv(d)'
    BY <1>0, <1>1, MainStepOrder, MainStepOthers, OrderUntouched
  <1>2. ASSUME NEW c \in Clients,
               ClientStep(c) \/ ViewerStep(c) \/ WindowCloses(c) \/ Reset(c)
        PROVE  \A d \in Clients : OrderInv(d)'
    BY <1>0, <1>2, ClientOrder, OrderKept, OrderUntouched
  <1>3. CASE UNCHANGED <<hpc, down>>
    BY <1>3, OrderUntouched
  <1>4. ASSUME NEW c \in Clients, ReadStep(c) PROVE UNCHANGED <<hpc, down>>
    BY <1>4 DEF ReadStep, RelayChat, ReadDisconnect, ReadEnds, LeaveReadLoop, network
  <1>5. ASSUME AdminStep \/ HostExits PROVE UNCHANGED <<hpc, down>>
    BY <1>5 DEF AdminStep, Decide, Kick, HostChat, Quit, HostExits, network
  <1>6. CASE UNCHANGED vars
    BY <1>3, <1>6 DEF vars
  <1> QED BY <1>1, <1>2, <1>3, <1>4, <1>5, <1>6 DEF Next

--------------------------------------------------------------------------------
(* The theorems.                                                                 *)

LEMMA NextIInv == IInv /\ [Next]_vars => IInv'
  <1> SUFFICES ASSUME IInv, [Next]_vars PROVE IInv'
    OBVIOUS
  <1>1. ASSUME NEW c \in Clients, MainStep(c) \/ HostWriteFails(c) PROVE IInv'
    BY <1>1, MainStepIInv
  <1>2. ASSUME NEW c \in Clients, ReadStep(c) PROVE IInv'
    BY <1>2, ReadStepIInv
  <1>3. ASSUME NEW c \in Clients, ClientStep(c) \/ ViewerStep(c) \/ WindowCloses(c) PROVE IInv'
    BY <1>3, ClientIInv
  <1>4. ASSUME NEW c \in Clients, Reset(c) PROVE IInv'
    BY <1>4, ResetIInv
  <1>5. ASSUME AdminStep \/ HostExits PROVE IInv'
    BY <1>5, DecideIInv, KickIInv, HostIInv DEF AdminStep
  <1>6. CASE UNCHANGED vars
    <2>1. TypeOK'
      BY <1>6 DEF IInv, TypeOK, vars
    <2>2. ASSUME NEW d \in Clients PROVE ClientInv(d)'
      BY <1>6, Untouched DEF IInv, vars
    <2> QED BY <2>1, <2>2 DEF IInv
  <1> QED BY <1>1, <1>2, <1>3, <1>4, <1>5, <1>6 DEF Next

THEOREM InductiveInvariant == Spec => []IInv
  BY InitIInv, NextIInv, PTL DEF Spec

\* Type correctness; in particular no control queue is ever deeper than CtrlQueue.
THEOREM TypeCorrect == Spec => []TypeOK
  <1>1. IInv => TypeOK
    BY DEF IInv
  <1> QED BY <1>1, InductiveInvariant, PTL

\* The pending list is exactly the threads that wait for a decision.
THEOREM PendingListExact == Spec => []PendingExact
  <1>1. IInv => PendingExact
    BY DEF IInv, ClientInv, DecisionInv, PendingExact, Pending
  <1> QED BY <1>1, InductiveInvariant, PTL

\* Whatever the read threads, the relays and the host user do to the lists, the
\* client list holds nobody before its registration, and neither list anybody
\* whose thread has cleaned up.
THEOREM ViewerListExact == Spec => []ViewersExact
  <1>1. IInv => ViewersExact
    BY DEF IInv, ClientInv, DecisionInv, GateInv, ViewersExact, Pending, Viewers
  <1> QED BY <1>1, InductiveInvariant, PTL

\* Nobody gets the stream whom the host user has not approved, for any number of
\* clients, however their fingerprints overlap.
THEOREM ApprovalGate == Spec => []GateHolds
  <1>1. IInv => GateHolds
    BY DEF IInv, ClientInv, GateInv, GateHolds, Viewers, Has
  <1> QED BY <1>1, InductiveInvariant, PTL

\* A viewer whose threads are at work leaves the list by a kick only.
THEOREM OnlyKicked == Spec => []DroppedForCause
  <1>1. IInv => DroppedForCause
    BY DEF IInv, ClientInv, ThreadInv, DroppedForCause, Viewers
  <1> QED BY <1>1, InductiveInvariant, PTL

\* No client is sent anything after the message that ends its connection, and none
\* gets chat before the stream is announced to it.
THEOREM ClosesLast == Spec => []ClosingIsLast
  <1> DEFINE AllInOrder == \A c \in Clients : OrderInv(c)
  <1>1. Init => AllInOrder
    <2>1. ASSUME Init, NEW c \in Clients PROVE OrderInv(c)
      BY <2>1, EmptySequence DEF Init, OrderInv, Has
    <2> QED BY <2>1
  <1>2. IInv /\ AllInOrder /\ [Next]_vars => AllInOrder'
    BY NextOrder
  <1>3. AllInOrder => ClosingIsLast
    BY DEF OrderInv, ClosingIsLast
  <1> QED BY <1>1, <1>2, <1>3, InductiveInvariant, PTL DEF Spec
================================================================================
