------------------------------- MODULE Transport --------------------------------
(* A connection as its two ends read and write it: messages framed by a header   *)
(* (proto.rs), in the clear up to the acknowledgement and then sealed into one   *)
(* record per message under a counter per direction (cipher.rs), the speed probe *)
(* (speed_test.rs), and the host's change of reader when the stream begins       *)
(* (broadcaster.rs).  TCP takes and gives bytes in any portions and holds no     *)
(* more than Window of them per direction.                                       *)
(*                                                                               *)
(* The unit of transport is a cell, a byte of the program: a message has a       *)
(* header of HeaderLen cells and as many as its payload is long; sealing adds a  *)
(* length in front and a tag behind.  The verdict, the lists and the threads'    *)
(* ends are the subject of Broadcaster; read timeouts are left out.              *)
EXTENDS Naturals, Sequences

CONSTANTS HeaderLen,    \* of a message
          LenOf,        \* payloads of the messages before the stream, by type
          Probes,       \* number of chunks of the speed probe
          BufLen,       \* capacity of a BufReader
          MsgLimit,     \* longest payload read_msg accepts
          RecordLimit,  \* longest sealed record the reader accepts
          Window,       \* cells TCP holds per direction
          Lengths,      \* payloads the stream may have
          MaxStream     \* bound of the model: messages of the stream, per direction

Prologue == {"HANDSHAKE", "HANDSHAKE_ACK", "SPEED_PROBE", "SPEED_REPORT", "STREAM_INFO"}

ASSUME LengthAssumption == /\ {HeaderLen, Probes, BufLen, Window} \subseteq Nat \ {0}
                           /\ {MsgLimit, RecordLimit} \subseteq Nat
                           /\ Lengths \subseteq Nat
\* 16 MiB of payload and 32 MiB of record: a message that may be read fits its record.
ASSUME LimitAssumption == /\ LenOf \in [Prologue -> 0 .. MsgLimit]
                          /\ HeaderLen + MsgLimit < RecordLimit

Down == "down"  \* host to client
Up == "up"      \* client to host
Ways == {Down, Up}
ASSUME StreamAssumption == MaxStream \in [Ways -> Nat]

VARIABLES
    hostAt, clientAt,  \* where the two ends are in the session
    sent,      \* sent[d]: the messages written
    out,       \* out[d]: what write_all has not yet handed to TCP
    wire,      \* wire[d]: cells held by TCP
    sealCtr,   \* SendCipher.counter
    openCtr,   \* RecvCipher.counter
    reading,   \* "plain" or "sealed"
    rec,       \* the record being fetched, its length first
    buf,       \* EncryptedReader.buf from pos on
    ahead,     \* what the BufReader holds
    acc,       \* what read_msg has of the current message
    received,  \* the messages read
    end        \* how reading ended: "open" while it goes on

writers == <<sent, out, sealCtr>>
readers == <<openCtr, reading, rec, buf, ahead, acc>>
vars == <<hostAt, clientAt, writers, wire, readers, received, end>>

HostPhases == {"hello", "awaitAck", "probing", "awaitReport", "gate", "informed",
               "streaming", "ended"}
ClientPhases == {"hello", "asking", "probing", "waiting", "streaming", "ended"}
Ends == {"open", "bye", "eof", "limit", "aead"}

Min(a, b) == IF a <= b THEN a ELSE b
Front(s, n) == SubSeq(s, 1, n)
Rest(s, n) == SubSeq(s, n + 1, Len(s))

\* A message: its type, its place among those sent and the length of its payload.  A cell
\* is a message's place and its own in the message.
Message(ty, d, len) == [ty |-> ty, n |-> Len(sent[d]) + 1, len |-> len]
Cells(m) == [i \in 1 .. HeaderLen + m.len |-> <<m.n, i>>]
Garbage == [ty |-> "garbage", n |-> 0, len |-> 0]

\* EncryptedWriter::flush: the ciphertext's length, the ciphertext and its tag.
Seal(cells, ctr) ==
    <<[len |-> Len(cells) + 1]>>
        \o [i \in 1 .. Len(cells) |-> [ctr |-> ctr, of |-> Len(cells), plain |-> cells[i]]]
        \o <<[ctr |-> ctr, of |-> Len(cells)]>>

Init == /\ hostAt = "hello" /\ clientAt = "hello"
        /\ sent = [d \in Ways |-> <<>>] /\ out = [d \in Ways |-> <<>>]
        /\ wire = [d \in Ways |-> <<>>]
        /\ sealCtr = [d \in Ways |-> 0] /\ openCtr = [d \in Ways |-> 0]
        /\ reading = [d \in Ways |-> "plain"]
        /\ rec = [d \in Ways |-> <<>>] /\ buf = [d \in Ways |-> <<>>]
        /\ ahead = [d \in Ways |-> <<>>] /\ acc = [d \in Ways |-> <<>>]
        /\ received = [d \in Ways |-> <<>>]
        /\ end = [d \in Ways |-> "open"]

--------------------------------------------------------------------------------
(* Writing.  write_msg ends with a flush, so that a message is a record.         *)

WriteCells(d, m, cells) == /\ sent' = [sent EXCEPT ![d] = Append(@, m)]
                           /\ out' = [out EXCEPT ![d] = cells]

WritePlain(d, m) == /\ out[d] = <<>>
                    /\ WriteCells(d, m, Cells(m))
                    /\ UNCHANGED sealCtr

WriteSealedKeepingNonce(d, m) ==
    /\ out[d] = <<>>
    /\ WriteCells(d, m, Seal(Cells(m), sealCtr[d]))
    /\ sealCtr' = IF m.len < BufLen THEN sealCtr ELSE [sealCtr EXCEPT ![d] = @ + 1]
WriteSealed(d, m) ==
    /\ out[d] = <<>>
    /\ WriteCells(d, m, Seal(Cells(m), sealCtr[d]))
    /\ sealCtr' = [sealCtr EXCEPT ![d] = @ + 1]

\* TCP takes what it has room for, while the other end is there.
TcpTakes(d) ==
    /\ out[d] # <<>>
    /\ Len(wire[d]) < Window
    /\ IF d = Down THEN clientAt # "ended" ELSE hostAt # "ended"
    /\ LET n == Min(Len(out[d]), Window - Len(wire[d]))
       IN  /\ wire' = [wire EXCEPT ![d] = @ \o Front(out[d], n)]
           /\ out' = [out EXCEPT ![d] = Rest(@, n)]
    /\ UNCHANGED <<hostAt, clientAt, sent, sealCtr, readers, received, end>>

--------------------------------------------------------------------------------
(* Reading.  Before the stream one thread reads and writes, so that it reads     *)
(* nothing while TCP has not taken what it wrote; the host does not read between *)
(* the report and the stream.                                                    *)

MayRead(d) ==
    /\ end[d] = "open"
    /\ \/ /\ d = Down
          /\ \/ clientAt = "streaming"
             \/ clientAt \in {"hello", "probing", "waiting"} /\ out[Up] = <<>>
       \/ /\ d = Up
          /\ \/ hostAt = "streaming"
             \/ hostAt \in {"awaitAck", "awaitReport"} /\ out[Down] = <<>>

\* read_msg: the header says which message follows, and read_exact takes what is missing.
Current(d) == sent[d][acc[d][1][1]]
HasHeader(d) == Len(acc[d]) >= HeaderLen
Wanted(d) == (IF HasHeader(d) THEN HeaderLen + Current(d).len ELSE HeaderLen) - Len(acc[d])
TooLong(d) == HasHeader(d) /\ Current(d).len > MsgLimit
Whole(d) == HasHeader(d) /\ ~TooLong(d) /\ Wanted(d) = 0
Reading(d) == MayRead(d) /\ ~Whole(d) /\ ~TooLong(d)

\* An error of reading ends a thread that also writes; in the stream only the reader ends.
Fail(d, why) ==
    /\ end' = [end EXCEPT ![d] = why]
    /\ hostAt' = IF d = Up /\ hostAt # "streaming" THEN "ended" ELSE hostAt
    /\ clientAt' = IF d = Down /\ clientAt # "streaming" THEN "ended" ELSE clientAt
    /\ UNCHANGED received

\* The handshake is read from the socket itself: nothing beyond the message is taken.
ReadPlain(d) ==
    /\ Reading(d) /\ reading[d] = "plain" /\ wire[d] # <<>>
    /\ LET n == Min(Wanted(d), Len(wire[d]))
       IN  /\ acc' = [acc EXCEPT ![d] = @ \o Front(wire[d], n)]
           /\ wire' = [wire EXCEPT ![d] = Rest(@, n)]
    /\ UNCHANGED <<hostAt, clientAt, writers, openCtr, reading, rec, buf, ahead, received, end>>

\* EncryptedReader::read with nothing left of the last record: the length, then the rest.
RecordWanted(r) == IF r = <<>> THEN 1 ELSE r[1].len + 1 - Len(r)
FetchRecord(d) ==
    /\ Reading(d) /\ reading[d] = "sealed"
    /\ ahead[d] = <<>> /\ buf[d] = <<>> /\ wire[d] # <<>>
    /\ RecordWanted(rec[d]) > 0
    /\ LET n == Min(RecordWanted(rec[d]), Len(wire[d]))
           got == rec[d] \o Front(wire[d], n)
       IN  /\ rec' = [rec EXCEPT ![d] = got]
           /\ wire' = [wire EXCEPT ![d] = Rest(@, n)]
           /\ IF got[1].len > RecordLimit THEN Fail(d, "limit")
              ELSE UNCHANGED <<hostAt, clientAt, received, end>>
    /\ UNCHANGED <<writers, openCtr, reading, buf, ahead, acc>>

\* RecvCipher::open: authentic only as one whole record sealed under the same counter.
Authentic(r, ctr) == \A i \in 2 .. Len(r) : r[i].ctr = ctr /\ r[i].of = Len(r) - 2
OpenRecord(d) ==
    /\ Reading(d) /\ rec[d] # <<>> /\ RecordWanted(rec[d]) = 0
    /\ openCtr' = [openCtr EXCEPT ![d] = @ + 1]
    /\ rec' = [rec EXCEPT ![d] = <<>>]
    /\ IF Authentic(rec[d], openCtr[d])
       THEN /\ buf' = [buf EXCEPT ![d] = [i \in 1 .. Len(rec[d]) - 2 |-> rec[d][i + 1].plain]]
            /\ UNCHANGED <<hostAt, clientAt, received, end>>
       ELSE Fail(d, "aead") /\ UNCHANGED buf
    /\ UNCHANGED <<writers, wire, reading, ahead, acc>>

\* BufReader::read: what it holds first; a read as long as its buffer passes it by.
TakeAhead(d) ==
    /\ ahead[d] # <<>>
    /\ LET n == Min(Wanted(d), Len(ahead[d]))
       IN  /\ acc' = [acc EXCEPT ![d] = @ \o Front(ahead[d], n)]
           /\ ahead' = [ahead EXCEPT ![d] = Rest(@, n)]
    /\ UNCHANGED buf
PassBy(d) ==
    /\ ahead[d] = <<>> /\ buf[d] # <<>> /\ Wanted(d) >= BufLen
    /\ LET n == Min(Wanted(d), Len(buf[d]))
       IN  /\ acc' = [acc EXCEPT ![d] = @ \o Front(buf[d], n)]
           /\ buf' = [buf EXCEPT ![d] = Rest(@, n)]
    /\ UNCHANGED ahead
FillForgettingRest(d) ==
    /\ ahead[d] = <<>> /\ buf[d] # <<>> /\ Wanted(d) < BufLen
    /\ ahead' = [ahead EXCEPT ![d] = Front(buf[d], Min(BufLen, Len(buf[d])))]
    /\ buf' = [buf EXCEPT ![d] = <<>>]
    /\ UNCHANGED acc
Fill(d) ==
    /\ ahead[d] = <<>> /\ buf[d] # <<>> /\ Wanted(d) < BufLen
    /\ LET n == Min(BufLen, Len(buf[d]))
       IN  /\ ahead' = [ahead EXCEPT ![d] = Front(buf[d], n)]
           /\ buf' = [buf EXCEPT ![d] = Rest(@, n)]
    /\ UNCHANGED acc
ReadBuffered(d) ==
    /\ Reading(d)
    /\ TakeAhead(d) \/ PassBy(d) \/ Fill(d)
    /\ UNCHANGED <<hostAt, clientAt, writers, wire, openCtr, reading, rec, received, end>>

RefuseLength(d) ==
    /\ MayRead(d) /\ TooLong(d)
    /\ Fail(d, "limit")
    /\ UNCHANGED <<writers, wire, readers>>

\* The other end is gone and TCP has nothing more.
EndOfStream(d) ==
    /\ Reading(d) /\ wire[d] = <<>> /\ ahead[d] = <<>> /\ buf[d] = <<>>
    /\ IF d = Down THEN hostAt = "ended" ELSE clientAt = "ended"
    /\ out[d] = <<>>
    /\ Fail(d, "eof")
    /\ UNCHANGED <<writers, wire, readers>>

\* read_msg returns: what was sent, or cells of different messages.
Got(d) == IF acc[d] = Cells(Current(d)) THEN Current(d) ELSE Garbage
Deliver(d) == /\ MayRead(d) /\ Whole(d)
              /\ received' = [received EXCEPT ![d] = Append(@, Got(d))]
              /\ acc' = [acc EXCEPT ![d] = <<>>]
              /\ UNCHANGED <<wire, openCtr, rec, buf, ahead>>

--------------------------------------------------------------------------------
(* The host's session thread, and its read thread from Handover on.              *)

Prolog(ty, d) == Message(ty, d, LenOf[ty])
GoOn == UNCHANGED end
Stop(d) == end' = [end EXCEPT ![d] = "bye"]

HostHello == /\ hostAt = "hello"
             /\ WritePlain(Down, Prolog("HANDSHAKE", Down))
             /\ hostAt' = "awaitAck"
             /\ UNCHANGED <<clientAt, wire, readers, received, end>>

\* From the acknowledgement on both directions are sealed; a DISCONNECT ends the thread.
HostReadsAck ==
    /\ hostAt = "awaitAck" /\ Deliver(Up)
    /\ IF Got(Up).ty = "HANDSHAKE_ACK"
       THEN hostAt' = "probing" /\ reading' = [reading EXCEPT ![Up] = "sealed"] /\ GoOn
       ELSE hostAt' = "ended" /\ UNCHANGED reading /\ Stop(Up)
    /\ UNCHANGED <<clientAt, writers>>

\* A chunk carries its number, from 0, and their total.
Chunk(m) == m.n - 2
HostProbes ==
    /\ hostAt = "probing"
    /\ LET m == Prolog("SPEED_PROBE", Down)
       IN  /\ WriteSealed(Down, m)
           /\ hostAt' = IF Chunk(m) = Probes - 1 THEN "awaitReport" ELSE "probing"
    /\ UNCHANGED <<clientAt, wire, readers, received, end>>

HostReadsReport ==
    /\ hostAt = "awaitReport" /\ Deliver(Up)
    /\ IF Got(Up).ty = "SPEED_REPORT" THEN hostAt' = "gate" /\ GoOn
       ELSE hostAt' = "ended" /\ Stop(Up)
    /\ UNCHANGED <<clientAt, writers, reading>>

Approve == /\ hostAt = "gate"
           /\ WriteSealed(Down, Prolog("STREAM_INFO", Down))
           /\ hostAt' = "informed"
           /\ UNCHANGED <<clientAt, wire, readers, received, end>>

\* A denial, or the host's end while the client is pending.
Refuse == /\ hostAt = "gate"
          /\ \E ty \in {"HANDSHAKE_REJECT", "DISCONNECT"} : WriteSealed(Down, Message(ty, Down, 0))
          /\ hostAt' = "ended"
          /\ UNCHANGED <<clientAt, wire, readers, received, end>>

\* into_inner: the read thread keeps the EncryptedReader and drops the BufReader's content.
Handover == /\ hostAt = "informed" /\ out[Down] = <<>>
            /\ hostAt' = "streaming"
            /\ ahead' = [ahead EXCEPT ![Up] = <<>>]
            /\ UNCHANGED <<clientAt, writers, wire, openCtr, reading, rec, buf, acc, received, end>>

\* Messages before the stream, per direction.
Before == [d \in Ways |-> IF d = Down THEN 2 + Probes ELSE 2]
Room(d) == Len(sent[d]) < Before[d] + MaxStream[d]

\* The send loop: the ring's entries and the chat; a closing message is its last.
HostSends ==
    /\ hostAt = "streaming" /\ Room(Down)
    /\ \/ \E len \in Lengths : WriteSealed(Down, Message("STREAM", Down, len)) /\ UNCHANGED hostAt
       \/ WriteSealed(Down, Message("DISCONNECT", Down, 0)) /\ hostAt' = "ended"
    /\ UNCHANGED <<clientAt, wire, readers, received, end>>

HostReads == /\ hostAt = "streaming" /\ Deliver(Up)
             /\ IF Got(Up).ty = "DISCONNECT" THEN Stop(Up) ELSE GoOn
             /\ UNCHANGED <<hostAt, clientAt, writers, reading>>

--------------------------------------------------------------------------------
(* The client's network thread, and its write thread in the stream.              *)

ClientReadsHandshake ==
    /\ clientAt = "hello" /\ Deliver(Down)
    /\ IF Got(Down).ty = "HANDSHAKE" THEN clientAt' = "asking" /\ GoOn
       ELSE clientAt' = "ended" /\ Stop(Down)
    /\ UNCHANGED <<hostAt, writers, reading>>

\* Another version or fingerprint, or the user's answer.
Answer ==
    /\ clientAt = "asking"
    /\ \/ /\ WritePlain(Up, Prolog("HANDSHAKE_ACK", Up))
          /\ clientAt' = "probing"
          /\ reading' = [reading EXCEPT ![Down] = "sealed"]
       \/ /\ WritePlain(Up, Message("DISCONNECT", Up, 0))
          /\ clientAt' = "ended"
          /\ UNCHANGED reading
    /\ UNCHANGED <<hostAt, wire, openCtr, rec, buf, ahead, acc, received, end>>

LastChunkOffByOne(m) == Chunk(m) = Probes
LastChunk(m) == Chunk(m) = Probes - 1
ClientReadsProbe ==
    /\ clientAt = "probing" /\ Deliver(Down)
    /\ IF Got(Down).ty # "SPEED_PROBE"
       THEN clientAt' = "ended" /\ UNCHANGED writers /\ Stop(Down)
       ELSE /\ GoOn
            /\ IF LastChunk(Got(Down))
               THEN WriteSealed(Up, Prolog("SPEED_REPORT", Up)) /\ clientAt' = "waiting"
               ELSE UNCHANGED <<clientAt, writers>>
    /\ UNCHANGED <<hostAt, reading>>

ClientReadsInfo ==
    /\ clientAt = "waiting" /\ Deliver(Down)
    /\ IF Got(Down).ty = "STREAM_INFO" THEN clientAt' = "streaming" /\ GoOn
       ELSE clientAt' = "ended" /\ Stop(Down)
    /\ UNCHANGED <<hostAt, writers, reading>>

ClientReads == /\ clientAt = "streaming" /\ Deliver(Down)
               /\ IF Got(Down).ty = "DISCONNECT" THEN clientAt' = "ended" /\ Stop(Down)
                  ELSE UNCHANGED clientAt /\ GoOn
               /\ UNCHANGED <<hostAt, writers, reading>>

\* The write thread ends with its DISCONNECT.
ClientSends ==
    /\ clientAt = "streaming" /\ Room(Up)
    /\ sent[Up][Len(sent[Up])].ty # "DISCONNECT"
    /\ \/ \E len \in Lengths : WriteSealed(Up, Message("STREAM", Up, len))
       \/ WriteSealed(Up, Message("DISCONNECT", Up, 0))
    /\ UNCHANGED <<hostAt, clientAt, wire, readers, received, end>>

--------------------------------------------------------------------------------
\* The end that writes d goes, perhaps within a message; TCP may lose what it holds of d.
Other(d) == IF d = Down THEN Up ELSE Down
Leave(d) ==
    /\ hostAt' = IF d = Down THEN "ended" ELSE hostAt
    /\ clientAt' = IF d = Up THEN "ended" ELSE clientAt
    /\ <<hostAt, clientAt>>' # <<hostAt, clientAt>>
    /\ out' = [out EXCEPT ![d] = <<>>]
    /\ \E kept \in {wire[d], <<>>} : wire' = [wire EXCEPT ![d] = kept, ![Other(d)] = <<>>]
    /\ UNCHANGED <<sent, sealCtr, readers, received, end>>

Carry(d) == \/ TcpTakes(d)
            \/ ReadPlain(d) \/ FetchRecord(d) \/ OpenRecord(d) \/ ReadBuffered(d)
            \/ RefuseLength(d) \/ EndOfStream(d)
Host == HostHello \/ HostReadsAck \/ HostProbes \/ HostReadsReport \/ Handover \/ HostReads
Client == ClientReadsHandshake \/ ClientReadsProbe \/ ClientReadsInfo \/ ClientReads
Users == Approve \/ Refuse \/ Answer \/ HostSends \/ ClientSends

Machine == (\E d \in Ways : Carry(d)) \/ Host \/ Client

Next == Machine \/ Users \/ \E d \in Ways : Leave(d)

\* TCP delivers and the threads run; no user has to answer, approve or write anything.  No
\* choice among the machine's steps lasts: every one consumes or hands on some cell.
Fairness == WF_vars(Machine)

Spec == Init /\ [][Next]_vars /\ Fairness

--------------------------------------------------------------------------------
\* Every variable has its type; no record is opened that has not been sealed.
TypeOK ==
    /\ hostAt \in HostPhases /\ clientAt \in ClientPhases
    /\ \A d \in Ways :
        /\ Len(wire[d]) <= Window
        /\ Len(ahead[d]) <= BufLen
        /\ openCtr[d] <= sealCtr[d]
        /\ sealCtr[d] <= Len(sent[d])
        /\ reading[d] \in {"plain", "sealed"}
        /\ end[d] \in Ends

\* Whatever portions TCP takes and gives, and across the change from plain to sealed and
\* the host's change of reader, each end reads what the other wrote: nothing is missing,
\* mixed or repeated before the last message read (proto.rs read_msg, cipher.rs read).
InOrder == \A d \in Ways : /\ Len(received[d]) <= Len(sent[d])
                           /\ received[d] = Front(sent[d], Len(received[d]))

\* The two counters of a direction stay in step: no record fails to open.  Only a message
\* that is too long stops a reader whose peer is still there, and no such message is read
\* (cipher.rs seal and open, proto.rs:49).
EndsOnlyByLimit ==
    \A d \in Ways :
        /\ end[d] # "aead"
        /\ end[d] = "limit" => sent[d][Len(received[d]) + 1].len > MsgLimit
        /\ \A i \in 1 .. Len(received[d]) : received[d][i].len <= MsgLimit

\* The probe comes to its end with both sides agreeing on it, and what is written is read
\* in the end, unless a side has gone or a message was too long: no two writes wait for
\* each other, however little TCP holds (speed_test.rs host_send_probe and
\* client_receive_probe, broadcaster.rs send_loop and client_read_loop).
Gone == hostAt = "ended" \/ clientAt = "ended"
Arrives ==
    /\ hostAt = "probing" ~> (hostAt = "gate" \/ Gone)
    /\ []<>(\A d \in Ways : received[d] = sent[d] \/ Gone \/ end[d] = "limit")
================================================================================
