------------------------------- MODULE Broadcaster ------------------------------
(* The life of a viewer's session: the host's thread per connection, from the    *)
(* handshake through the approval gate to the send loop and its read thread      *)
(* (broadcaster.rs), the shared lists of pending and of streaming clients, the   *)
(* host user's commands (main.rs), and the client's network thread and window    *)
(* (client.rs, client_window.rs) at the other end of the connection.             *)
(*                                                                               *)
(* A host or client step is the code between two points where its thread blocks  *)
(* or touches a shared list.  A/V payloads travel through the ring buffer        *)
(* (module StreamCache) and are left out here.  A list (a Vec in the code) is a  *)
(* function that gives each entry the moment it was pushed, 0 for no entry.      *)
EXTENDS Naturals, Sequences

CONSTANTS Clients,      \* connections; a viewer that reconnects is another one
          Fingerprints, \* fingerprints that the clients present
          FpOf,         \* FpOf[c]: the fingerprint client c presents
          Prefixes,     \* for each prefix a host user types: the fingerprints with it
          CtrlQueue,    \* depth of a client's control queue (8 in the code)
          MaxChats,     \* bound of the model: chat lines typed by anybody
          Breakable     \* connections the network may reset

ASSUME FpAssumption == FpOf \in [Clients -> Fingerprints]
ASSUME PrefixAssumption == Prefixes \subseteq SUBSET Fingerprints
ASSUME CtrlQueueAssumption == CtrlQueue \in Nat \ {0}
ASSUME MaxChatsAssumption == MaxChats \in Nat
ASSUME BreakableAssumption == Breakable \subseteq Clients

VARIABLES
    host,       \* the host process: "up", "quitting" (Disconnect broadcast), "down"
    hpc,        \* the connection's host thread (run_client, then its clean-up)
    rpc,        \* the connection's read thread (client_read_loop)
    pendingAt,  \* Broadcaster.pending
    clientAt,   \* Broadcaster.clients
    pushes,     \* number of pushes to either list so far
    decision,   \* what was sent on the connection's decision channel
    ctrl,       \* the connection's control channel
    kicked,     \* connections the host user has kicked
    up, down,   \* messages on their way to the host and to the client
    broken,     \* connections that were reset
    cpc,        \* the client's network thread, "exited" when its process is over
    told,       \* clients whose window got the Disconnected event
    chats       \* number of chat lines typed so far

vars == <<host, hpc, rpc, pendingAt, clientAt, pushes, decision, ctrl, kicked,
          up, down, broken, cpc, told, chats>>
lists == <<pendingAt, clientAt, pushes>>
network == <<up, down, broken>>
clientSide == <<cpc, told>>
admin == <<host, decision, kicked>>

HostPhases == {"none",        \* not accepted yet
               "started",     \* thread spawned
               "awaitAck", "awaitReport",
               "announced",   \* [JOIN] shown, not yet in the pending list
               "pending",     \* blocked in drx.recv()
               "approved",    \* has its decision, STREAM_INFO not yet written
               "informed",    \* STREAM_INFO written, not yet in the client list
               "registered",  \* in the client list, read thread not yet spawned
               "sending",     \* send_loop
               "returned",    \* run_client is over
               "cleaning",    \* pending list cleaned, client list not yet
               "done"}

ReadPhases == {"none", "reading", "leaving", "done"}

ClientPhases == {"idle",
                 "hello",     \* waits for the handshake
                 "prompt",    \* asks the user to confirm the host's fingerprint
                 "probing", "waiting",
                 "streaming",
                 "over",      \* the stream ended and the window was told
                 "rejected",  \* the host rejected the client before the stream
                 "failed",    \* run_network returned otherwise before the stream
                 "exited"}

HostMessages == {"HANDSHAKE", "PROBE", "REJECT", "INFO", "CHAT", "DISCONNECT"}
ClientMessages == {"ACK", "REPORT", "CHAT", "DISCONNECT"}

Pending == {c \in Clients : pendingAt[c] # 0}
Viewers == {c \in Clients : clientAt[c] # 0}

\* A descriptor of the socket is open in the host process: run_client's own, or
\* the clone the read thread keeps until its function ends.
HostHolds(c) == /\ host # "down"
                /\ \/ hpc[c] \in {"started", "awaitAck", "awaitReport", "announced", "pending",
                                  "approved", "informed", "registered", "sending"}
                   \/ rpc[c] \in {"reading", "leaving"}

\* The same in the client process, whose write thread keeps the socket open
\* after the stream until the window is closed.
ClientHolds(c) == cpc[c] \in {"hello", "prompt", "probing", "waiting", "streaming", "over"}

\* The peer of a host thread is gone: its writes may fail, and its reads do once
\* they have taken what is left.
ClientLost(c) == c \in broken \/ ~ClientHolds(c)
HostLost(c) == c \in broken \/ ~HostHolds(c)

SendDown(c, m) ==
    down' = IF ClientLost(c) THEN down ELSE [down EXCEPT ![c] = Append(@, m)]
SendUp(c, m) ==
    up' = IF HostLost(c) THEN up ELSE [up EXCEPT ![c] = Append(@, m)]

\* The next message to the host, or to the client, is m; it is taken.
TakeUp(c, m) == /\ up[c] # <<>>
                /\ Head(up[c]) = m
                /\ up' = [up EXCEPT ![c] = Tail(@)]
TakeDown(c, m) == /\ down[c] # <<>>
                  /\ Head(down[c]) = m
                  /\ down' = [down EXCEPT ![c] = Tail(@)]

Init == /\ host = "up"
        /\ hpc = [c \in Clients |-> "none"]
        /\ rpc = [c \in Clients |-> "none"]
        /\ pendingAt = [c \in Clients |-> 0]
        /\ clientAt = [c \in Clients |-> 0]
        /\ pushes = 0
        /\ decision = [c \in Clients |-> "none"]
        /\ ctrl = [c \in Clients |-> <<>>]
        /\ kicked = {}
        /\ up = [c \in Clients |-> <<>>]
        /\ down = [c \in Clients |-> <<>>]
        /\ broken = {}
        /\ cpc = [c \in Clients |-> "idle"]
        /\ told = {}
        /\ chats = 0

--------------------------------------------------------------------------------
(* The control channels and the client list.                                     *)

\* The receiver of c's control channel exists: send_loop has not returned.
HasReceiver(c) == hpc[c] \in {"registered", "sending"}

HasRoom(c) == Len(ctrl[c]) < CtrlQueue

\* try_send of m to the connections of S: a full queue drops the message and
\* keeps the client, a queue without receiver drops the client.
DeliveredAlways(S, m) ==
    ctrl' = [c \in Clients |-> IF c \in S /\ HasReceiver(c) THEN Append(ctrl[c], m) ELSE ctrl[c]]
Delivered(S, m) ==
    ctrl' = [c \in Clients |-> IF c \in S /\ HasReceiver(c) /\ HasRoom(c)
                               THEN Append(ctrl[c], m) ELSE ctrl[c]]

BroadcastDropsSlow(m) ==
    /\ Delivered(Viewers, m)
    /\ clientAt' = [c \in Clients |-> IF HasReceiver(c) /\ HasRoom(c) THEN clientAt[c] ELSE 0]
Broadcast(m) ==
    /\ Delivered(Viewers, m)
    /\ clientAt' = [c \in Clients |-> IF HasReceiver(c) THEN clientAt[c] ELSE 0]

\* position(|p| p.fingerprint.starts_with(fp_prefix)): the first entry pushed.
Matching(S, prefix) == {c \in S : FpOf[c] \in prefix}
First(S, at) == {c \in S : \A d \in S : at[c] <= at[d]}

Return(c) == hpc' = [hpc EXCEPT ![c] = "returned"]

--------------------------------------------------------------------------------
(* The host's thread for a connection.                                           *)

\* The client connects; accept_loop spawns the connection's thread.
Connect(c) ==
    /\ cpc[c] = "idle"
    /\ host # "down"
    /\ cpc' = [cpc EXCEPT ![c] = "hello"]
    /\ hpc' = [hpc EXCEPT ![c] = "started"]
    /\ UNCHANGED <<rpc, lists, ctrl, network, told, chats, admin>>

\* write_msg fails and run_client returns the error.
HostWriteFails(c) ==
    /\ host # "down"
    /\ hpc[c] \in {"started", "approved", "sending"}
    /\ ClientLost(c)
    /\ Return(c)
    /\ UNCHANGED <<rpc, lists, ctrl, network, clientSide, chats, admin>>

SendHandshake(c) ==
    /\ hpc[c] = "started"
    /\ SendDown(c, "HANDSHAKE")
    /\ hpc' = [hpc EXCEPT ![c] = "awaitAck"]
    /\ UNCHANGED <<rpc, lists, ctrl, up, broken, clientSide, chats, admin>>

\* The acknowledgement is followed by the speed probe.
ReadAck(c) ==
    /\ hpc[c] = "awaitAck"
    /\ TakeUp(c, "ACK")
    /\ SendDown(c, "PROBE")
    /\ hpc' = [hpc EXCEPT ![c] = "awaitReport"]
    /\ UNCHANGED <<rpc, lists, ctrl, broken, clientSide, chats, admin>>

\* The client declined, or refused the host.
ReadDecline(c) ==
    /\ hpc[c] = "awaitAck"
    /\ TakeUp(c, "DISCONNECT")
    /\ Return(c)
    /\ UNCHANGED <<rpc, lists, ctrl, down, broken, clientSide, chats, admin>>

\* The report ends the probe; [JOIN] goes to the host user.
ReadReport(c) ==
    /\ hpc[c] = "awaitReport"
    /\ TakeUp(c, "REPORT")
    /\ hpc' = [hpc EXCEPT ![c] = "announced"]
    /\ UNCHANGED <<rpc, lists, ctrl, down, broken, clientSide, chats, admin>>

\* A read before the approval gate fails: end of stream, or 15 s (60 s) are over.
HostReadFails(c) ==
    /\ hpc[c] \in {"awaitAck", "awaitReport"}
    /\ up[c] = <<>>
    /\ Return(c)
    /\ UNCHANGED <<rpc, lists, ctrl, network, clientSide, chats, admin>>

PushPending(c) ==
    /\ hpc[c] = "announced"
    /\ pushes' = pushes + 1
    /\ pendingAt' = [pendingAt EXCEPT ![c] = pushes + 1]
    /\ hpc' = [hpc EXCEPT ![c] = "pending"]
    /\ UNCHANGED <<rpc, clientAt, ctrl, network, clientSide, chats, admin>>

\* drx.recv() returns; a denial is written to the client.
RecvAnyDecision(c) ==
    /\ hpc[c] = "pending"
    /\ decision[c] # "none"
    /\ hpc' = [hpc EXCEPT ![c] = "approved"]
    /\ UNCHANGED <<rpc, lists, ctrl, network, clientSide, chats, admin>>
RecvDecision(c) ==
    /\ hpc[c] = "pending"
    /\ \/ /\ decision[c] = "approved"
          /\ hpc' = [hpc EXCEPT ![c] = "approved"]
          /\ UNCHANGED down
       \/ /\ decision[c] = "denied"
          /\ SendDown(c, "REJECT")
          /\ Return(c)
    /\ UNCHANGED <<rpc, lists, ctrl, up, broken, clientSide, chats, admin>>

SendInfo(c) ==
    /\ hpc[c] = "approved"
    /\ SendDown(c, "INFO")
    /\ hpc' = [hpc EXCEPT ![c] = "informed"]
    /\ UNCHANGED <<rpc, lists, ctrl, up, broken, clientSide, chats, admin>>

\* The client list gets the connection's handle.
Register(c) ==
    /\ hpc[c] = "informed"
    /\ pushes' = pushes + 1
    /\ clientAt' = [clientAt EXCEPT ![c] = pushes + 1]
    /\ hpc' = [hpc EXCEPT ![c] = "registered"]
    /\ UNCHANGED <<rpc, pendingAt, ctrl, network, clientSide, chats, admin>>

\* [JOINED]; the read thread is spawned and send_loop entered.
StartStreaming(c) ==
    /\ hpc[c] = "registered"
    /\ rpc' = [rpc EXCEPT ![c] = "reading"]
    /\ hpc' = [hpc EXCEPT ![c] = "sending"]
    /\ UNCHANGED <<lists, ctrl, network, clientSide, chats, admin>>

\* send_loop takes the next message of its control queue.
ServeControlUnsent(c) ==
    /\ hpc[c] = "sending"
    /\ ctrl[c] # <<>>
    /\ ctrl' = [ctrl EXCEPT ![c] = Tail(@)]
    /\ IF Head(ctrl[c]) = "DISCONNECT"
       THEN Return(c) /\ UNCHANGED down
       ELSE SendDown(c, Head(ctrl[c])) /\ UNCHANGED hpc
    /\ UNCHANGED <<rpc, lists, up, broken, clientSide, chats, admin>>
ServeControlGoesOn(c) ==
    /\ hpc[c] = "sending"
    /\ ctrl[c] # <<>>
    /\ SendDown(c, Head(ctrl[c]))
    /\ ctrl' = [ctrl EXCEPT ![c] = Tail(@)]
    /\ UNCHANGED <<hpc, rpc, lists, up, broken, clientSide, chats, admin>>
ServeControl(c) ==
    /\ hpc[c] = "sending"
    /\ ctrl[c] # <<>>
    /\ SendDown(c, Head(ctrl[c]))
    /\ ctrl' = [ctrl EXCEPT ![c] = Tail(@)]
    /\ IF Head(ctrl[c]) = "DISCONNECT" THEN Return(c) ELSE UNCHANGED hpc
    /\ UNCHANGED <<rpc, lists, up, broken, clientSide, chats, admin>>

\* The queue is empty and its sender was dropped with the client list's entry.
ControlClosed(c) ==
    /\ hpc[c] = "sending"
    /\ ctrl[c] = <<>>
    /\ c \notin Viewers
    /\ Return(c)
    /\ UNCHANGED <<rpc, lists, ctrl, network, clientSide, chats, admin>>

\* [LEFT] (if it was streaming), then spawn_client's clean-up of both lists.
CleanPending(c) ==
    /\ hpc[c] = "returned"
    /\ pendingAt' = [pendingAt EXCEPT ![c] = 0]
    /\ hpc' = [hpc EXCEPT ![c] = "cleaning"]
    /\ UNCHANGED <<rpc, clientAt, pushes, ctrl, network, clientSide, chats, admin>>

CleanNothing(c) ==
    /\ hpc[c] = "cleaning"
    /\ hpc' = [hpc EXCEPT ![c] = "done"]
    /\ UNCHANGED <<rpc, lists, ctrl, network, clientSide, chats, admin>>
CleanClients(c) ==
    /\ hpc[c] = "cleaning"
    /\ clientAt' = [clientAt EXCEPT ![c] = 0]
    /\ hpc' = [hpc EXCEPT ![c] = "done"]
    /\ UNCHANGED <<rpc, pendingAt, pushes, ctrl, network, clientSide, chats, admin>>

--------------------------------------------------------------------------------
(* The read thread.                                                              *)

\* A chat line is relayed to every streaming client, the sender included.
RelayChat(c) ==
    /\ rpc[c] = "reading"
    /\ TakeUp(c, "CHAT")
    /\ Broadcast("CHAT")
    /\ UNCHANGED <<hpc, rpc, pendingAt, pushes, down, broken, clientSide, chats, admin>>

\* The client said goodbye.
ReadDisconnect(c) ==
    /\ rpc[c] = "reading"
    /\ TakeUp(c, "DISCONNECT")
    /\ rpc' = [rpc EXCEPT ![c] = "leaving"]
    /\ UNCHANGED <<hpc, lists, ctrl, down, broken, clientSide, chats, admin>>

\* End of stream or reset.
ReadEnds(c) ==
    /\ rpc[c] = "reading"
    /\ up[c] = <<>>
    /\ ClientLost(c)
    /\ rpc' = [rpc EXCEPT ![c] = "leaving"]
    /\ UNCHANGED <<hpc, lists, ctrl, network, clientSide, chats, admin>>

\* The loop is over: the thread takes its client off the list and ends.
LeaveSilently(c) ==
    /\ rpc[c] = "leaving"
    /\ rpc' = [rpc EXCEPT ![c] = "done"]
    /\ UNCHANGED <<hpc, lists, ctrl, network, clientSide, chats, admin>>
LeaveReadLoop(c) ==
    /\ rpc[c] = "leaving"
    /\ clientAt' = [clientAt EXCEPT ![c] = 0]
    /\ rpc' = [rpc EXCEPT ![c] = "done"]
    /\ UNCHANGED <<hpc, pendingAt, pushes, ctrl, network, clientSide, chats, admin>>

--------------------------------------------------------------------------------
(* The host user.                                                                *)

\* approve_pending and deny_pending: the first match leaves the list and gets
\* the decision.
DecideKeepingEntry(prefix, verdict) ==
    /\ host = "up"
    /\ \E c \in First(Matching(Pending, prefix), pendingAt) :
         decision' = [decision EXCEPT ![c] = verdict]
    /\ UNCHANGED <<hpc, rpc, lists, ctrl, network, clientSide, chats, host, kicked>>
Decide(prefix, verdict) ==
    /\ host = "up"
    /\ \E c \in First(Matching(Pending, prefix), pendingAt) :
         /\ decision' = [decision EXCEPT ![c] = verdict]
         /\ pendingAt' = [pendingAt EXCEPT ![c] = 0]
    /\ UNCHANGED <<hpc, rpc, clientAt, pushes, ctrl, network, clientSide, chats, host, kicked>>

\* kick_client: a Disconnect is queued if there is room; the entry goes anyway.
Kick(prefix) ==
    /\ host = "up"
    /\ \E c \in First(Matching(Viewers, prefix), clientAt) :
         /\ Delivered({c}, "DISCONNECT")
         /\ clientAt' = [clientAt EXCEPT ![c] = 0]
         /\ kicked' = kicked \cup {c}
    /\ UNCHANGED <<hpc, rpc, pendingAt, pushes, network, clientSide, chats, host, decision>>

HostChat ==
    /\ host = "up"
    /\ chats < MaxChats
    /\ chats' = chats + 1
    /\ Broadcast("CHAT")
    /\ UNCHANGED <<hpc, rpc, pendingAt, pushes, network, clientSide, admin>>

\* Ctrl+Q: a Disconnect for every streaming client, and the event loop ends.
Quit ==
    /\ host = "up"
    /\ host' = "quitting"
    /\ Broadcast("DISCONNECT")
    /\ UNCHANGED <<hpc, rpc, pendingAt, pushes, network, clientSide, chats, decision, kicked>>

\* main returns: every thread ends where it is and the sockets are closed.
HostExits ==
    /\ host = "quitting"
    /\ host' = "down"
    /\ UNCHANGED <<hpc, rpc, lists, ctrl, network, clientSide, chats, decision, kicked>>

--------------------------------------------------------------------------------
(* The client.                                                                   *)

\* run_network returns: its descriptors are closed, what was on the way is lost.
ClientStops(c, phase) == /\ cpc' = [cpc EXCEPT ![c] = phase]
                         /\ down' = [down EXCEPT ![c] = <<>>]

\* The host process is gone: the connection is refused.
ConnectRefused(c) ==
    /\ cpc[c] = "idle"
    /\ host = "down"
    /\ cpc' = [cpc EXCEPT ![c] = "failed"]
    /\ UNCHANGED <<hpc, rpc, lists, ctrl, network, told, chats, admin>>

\* A known host is acknowledged at once, for a new one the user is asked.
ReadHandshake(c) ==
    /\ cpc[c] = "hello"
    /\ TakeDown(c, "HANDSHAKE")
    /\ \/ /\ cpc' = [cpc EXCEPT ![c] = "prompt"]
          /\ UNCHANGED up
       \/ /\ cpc' = [cpc EXCEPT ![c] = "probing"]
          /\ SendUp(c, "ACK")
    /\ UNCHANGED <<hpc, rpc, lists, ctrl, broken, told, chats, admin>>

\* Other version, changed fingerprint, or the user says no.
Decline(c) ==
    /\ \/ /\ cpc[c] = "hello"
          /\ down[c] # <<>>
          /\ Head(down[c]) = "HANDSHAKE"
       \/ cpc[c] = "prompt"
    /\ SendUp(c, "DISCONNECT")
    /\ ClientStops(c, "failed")
    /\ UNCHANGED <<hpc, rpc, lists, ctrl, broken, told, chats, admin>>

Confirm(c) ==
    /\ cpc[c] = "prompt"
    /\ SendUp(c, "ACK")
    /\ cpc' = [cpc EXCEPT ![c] = "probing"]
    /\ UNCHANGED <<hpc, rpc, lists, ctrl, down, broken, told, chats, admin>>

ReadProbe(c) ==
    /\ cpc[c] = "probing"
    /\ TakeDown(c, "PROBE")
    /\ SendUp(c, "REPORT")
    /\ cpc' = [cpc EXCEPT ![c] = "waiting"]
    /\ UNCHANGED <<hpc, rpc, lists, ctrl, broken, told, chats, admin>>

\* STREAM_INFO: the stream begins, the write thread is spawned.
ReadInfo(c) ==
    /\ cpc[c] = "waiting"
    /\ TakeDown(c, "INFO")
    /\ cpc' = [cpc EXCEPT ![c] = "streaming"]
    /\ UNCHANGED <<hpc, rpc, lists, ctrl, up, broken, told, chats, admin>>

\* HANDSHAKE_REJECT: run_network returns an error and the window is sent nothing.
ReadReject(c) ==
    /\ cpc[c] = "waiting"
    /\ down[c] # <<>>
    /\ Head(down[c]) = "REJECT"
    /\ ClientStops(c, "rejected")
    /\ UNCHANGED <<hpc, rpc, lists, ctrl, up, broken, told, chats, admin>>

\* A read before the stream fails: end of stream, or 15, 60, 300 s are over.
ClientReadFails(c) ==
    /\ cpc[c] \in {"hello", "probing", "waiting"}
    /\ down[c] = <<>>
    /\ ClientStops(c, "failed")
    /\ UNCHANGED <<hpc, rpc, lists, ctrl, up, broken, told, chats, admin>>

ReadChat(c) ==
    /\ cpc[c] = "streaming"
    /\ TakeDown(c, "CHAT")
    /\ UNCHANGED <<hpc, rpc, lists, ctrl, up, broken, clientSide, chats, admin>>

\* The stream ends, by DISCONNECT or by a failing read: the window is told.
StreamEndsUntold(c) ==
    /\ cpc[c] = "streaming"
    /\ \/ down[c] # <<>> /\ Head(down[c]) = "DISCONNECT"
       \/ down[c] = <<>> /\ HostLost(c)
    /\ ClientStops(c, "over")
    /\ UNCHANGED <<hpc, rpc, lists, ctrl, up, broken, told, chats, admin>>
StreamEnds(c) ==
    /\ cpc[c] = "streaming"
    /\ \/ down[c] # <<>> /\ Head(down[c]) = "DISCONNECT"
       \/ down[c] = <<>> /\ HostLost(c)
    /\ ClientStops(c, "over")
    /\ told' = told \cup {c}
    /\ UNCHANGED <<hpc, rpc, lists, ctrl, up, broken, chats, admin>>

\* The viewer types a line.
ClientChat(c) ==
    /\ cpc[c] = "streaming"
    /\ chats < MaxChats
    /\ chats' = chats + 1
    /\ SendUp(c, "CHAT")
    /\ UNCHANGED <<hpc, rpc, lists, ctrl, down, broken, clientSide, admin>>

\* The viewer closes the window: the write thread may or may not get its
\* DISCONNECT out before the process ends.
UserLeaves(c) ==
    /\ cpc[c] \notin {"idle", "exited"}
    /\ ClientStops(c, "exited")
    /\ \/ UNCHANGED up
       \/ cpc[c] = "streaming" /\ SendUp(c, "DISCONNECT")
    /\ UNCHANGED <<hpc, rpc, lists, ctrl, broken, told, chats, admin>>

\* The window sees the Disconnected event, and the process ends.
WindowCloses(c) ==
    /\ cpc[c] = "over"
    /\ c \in told
    /\ ClientStops(c, "exited")
    /\ UNCHANGED <<hpc, rpc, lists, ctrl, up, broken, told, chats, admin>>

--------------------------------------------------------------------------------
(* The network resets a connection; what was on the way is lost.                 *)

Reset(c) ==
    /\ c \in Breakable \ broken
    /\ HostHolds(c) \/ ClientHolds(c)
    /\ broken' = broken \cup {c}
    /\ up' = [up EXCEPT ![c] = <<>>]
    /\ down' = [down EXCEPT ![c] = <<>>]
    /\ UNCHANGED <<hpc, rpc, lists, ctrl, clientSide, chats, admin>>

--------------------------------------------------------------------------------

MainStep(c) ==
    /\ host # "down"
    /\ \/ SendHandshake(c) \/ ReadAck(c) \/ ReadDecline(c) \/ ReadReport(c) \/ HostReadFails(c)
       \/ PushPending(c) \/ RecvDecision(c) \/ SendInfo(c) \/ Register(c) \/ StartStreaming(c)
       \/ ServeControl(c) \/ ControlClosed(c)
       \/ CleanPending(c) \/ CleanClients(c)

ReadStep(c) ==
    /\ host # "down"
    /\ \/ RelayChat(c) \/ ReadDisconnect(c) \/ ReadEnds(c) \/ LeaveReadLoop(c)

\* What the client's network thread does by itself.
ClientStep(c) == \/ ReadHandshake(c) \/ ReadProbe(c) \/ ReadInfo(c) \/ ReadReject(c)
                 \/ ReadChat(c) \/ StreamEnds(c) \/ ClientReadFails(c)

ViewerStep(c) == \/ Connect(c) \/ ConnectRefused(c) \/ Decline(c) \/ Confirm(c)
                 \/ ClientChat(c) \/ UserLeaves(c)

AdminStep == \/ \E prefix \in Prefixes : Decide(prefix, "approved") \/ Decide(prefix, "denied")
             \/ \E prefix \in Prefixes : Kick(prefix)
             \/ HostChat \/ Quit

Next == \/ \E c \in Clients : MainStep(c) \/ ReadStep(c) \/ ClientStep(c) \/ ViewerStep(c)
        \/ \E c \in Clients : HostWriteFails(c) \/ WindowCloses(c) \/ Reset(c)
        \/ AdminStep
        \/ HostExits

Spec == Init /\ [][Next]_vars

(* Threads that can run do, and timeouts fire.  Nothing is assumed of the users  *)
(* at either end, nor that the network ever resets a connection, nor that a      *)
(* write fails: while nothing is captured a send loop has nothing to write.      *)
Fairness == /\ \A c \in Clients : /\ WF_vars(MainStep(c))
                                  /\ WF_vars(ReadStep(c))
                                  /\ WF_vars(ClientStep(c))
                                  /\ WF_vars(WindowCloses(c))
            /\ WF_vars(HostExits)

FairSpec == Spec /\ Fairness

--------------------------------------------------------------------------------
(* Properties.                                                                   *)

TypeOK == /\ host \in {"up", "quitting", "down"}
          /\ hpc \in [Clients -> HostPhases]
          /\ rpc \in [Clients -> ReadPhases]
          /\ pendingAt \in [Clients -> Nat]
          /\ clientAt \in [Clients -> Nat]
          /\ pushes \in Nat
          /\ decision \in [Clients -> {"none", "approved", "denied"}]
          /\ ctrl \in [Clients -> Seq({"CHAT", "DISCONNECT"})]
          /\ \A c \in Clients : Len(ctrl[c]) <= CtrlQueue
          /\ kicked \subseteq Clients
          /\ up \in [Clients -> Seq(ClientMessages)]
          /\ down \in [Clients -> Seq(HostMessages)]
          /\ broken \subseteq Breakable
          /\ cpc \in [Clients -> ClientPhases]
          /\ told \subseteq Clients
          /\ chats \in 0 .. MaxChats

\* The pending list is exactly the threads blocked in recv without a decision: no
\* decision is sent twice or to nobody, and no thread waits for a decision that
\* nobody can take any more (recv never returns its error).
PendingExact ==
    \A c \in Clients : c \in Pending <=> hpc[c] = "pending" /\ decision[c] = "none"

\* Nothing but its own thread puts a client on the list, and when that thread has
\* cleaned up the client is on neither list, whatever the read thread, the host
\* user and the other clients' relays do to the lists meanwhile.
ViewersExact ==
    \A c \in Clients : /\ c \in Viewers => hpc[c] \in {"registered", "sending", "returned", "cleaning"}
                       /\ hpc[c] = "done" => c \notin Pending \cup Viewers

\* Nobody sees the stream whom the host user did not approve: not with a verdict
\* meant for another client, not after a denial.
GateHolds ==
    \A c \in Clients :
        \/ c \in Viewers
        \/ cpc[c] \in {"streaming", "over"}
        \/ \E i \in DOMAIN down[c] : down[c][i] = "INFO"
        => decision[c] = "approved"

\* A DISCONNECT or a rejection is the last thing a client is sent, and chat comes
\* only after the stream was announced to it.
ClosingIsLast ==
    \A c \in Clients : \A i, j \in DOMAIN down[c] :
        i < j => /\ down[c][i] \notin {"DISCONNECT", "REJECT"}
                 /\ down[c][j] = "INFO" => down[c][i] # "CHAT"

\* A streaming client whose threads are both at work is taken off the list by a
\* kick and by nothing else: not by a chat line that finds its queue full.
DroppedForCause ==
    \A c \in Clients :
        hpc[c] = "sending" /\ rpc[c] \in {"none", "reading"} /\ c \notin Viewers => c \in kicked

\* A client that is gone leaves nothing behind: it does not stay on the viewer
\* list, and the host's two threads for it end, unless its thread is still at the
\* approval gate.
ThreadsEnd ==
    \A c \in Clients :
        /\ (c \in Viewers /\ ClientLost(c)) ~> (c \notin Viewers \/ host = "down")
        /\ (hpc[c] # "none" /\ ClientLost(c))
               ~> \/ hpc[c] = "pending"
                  \/ hpc[c] = "done" /\ rpc[c] \in {"none", "done"}
                  \/ host = "down"

\* A Disconnect that got into a client's queue ends the client's session.
QueuedDisconnectArrives ==
    \A c \in Clients :
        (\E i \in DOMAIN ctrl[c] : ctrl[c][i] = "DISCONNECT")
            ~> cpc[c] \in {"over", "failed", "exited"}

\* When the host's process has ended every viewer's window closes.
QuitEndsViewers ==
    \A c \in Clients : (host = "down" /\ cpc[c] = "streaming") ~> cpc[c] = "exited"

(* The abstract session.  A thread that holds a verdict is approved until it is   *)
(* on the viewer list; a client that was approved and is not on the list, nor on *)
(* the way to it, has left.                                                      *)
SeatOf(c) ==
    CASE c \in Viewers -> "seated"
      [] c \notin Viewers /\ decision[c] = "approved" ->
           IF hpc[c] \in {"pending", "approved", "informed"} THEN "approved" ELSE "left"
      [] c \notin Viewers /\ decision[c] = "denied" -> "denied"
      [] OTHER ->
           IF c \in Pending THEN "waiting"
           ELSE IF hpc[c] \in {"returned", "cleaning", "done"} THEN "failed" ELSE "none"

ScreenOf(c) ==
    CASE cpc[c] = "streaming" -> "live"
      [] cpc[c] \in {"over", "rejected", "failed", "exited"} -> "off"
      [] OTHER -> "dark"

Abstract == INSTANCE Session WITH seat <- [c \in Clients |-> SeatOf(c)],
                                  screen <- [c \in Clients |-> ScreenOf(c)]

\* Whatever the threads, lists and channels do, a connection goes through the
\* abstract session: one verdict, given while it waits; one seat, after an
\* approval, and none after it has left; a screen that lights up for approved
\* viewers and does so once.
ImplementsSession == Abstract!Spec

--------------------------------------------------------------------------------
(* What the documentation and the comments say of the program.                   *)

\* broadcaster.rs:233 "Clean up any stale pending entry if the client
\* disconnected mid-approval."
StalePendingCleaned ==
    \A c \in Clients : (c \in Pending /\ ClientLost(c)) ~> (c \notin Pending \/ host = "down")

\* README.md:67 "/kick <fp>: Disconnect a currently-streaming viewer".
KickDisconnects ==
    \A c \in Clients : c \in kicked ~> cpc[c] # "streaming"
================================================================================
