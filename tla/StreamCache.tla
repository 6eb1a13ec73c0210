------------------------------ MODULE StreamCache ------------------------------
(* The ring buffer of encoded A/V payloads (stream_cache.rs) with the threads   *)
(* that use it: the capture and audio threads push, one send thread per viewer  *)
(* takes the tail once and then everything past its own cursor                  *)
(* (broadcaster.rs, send_loop).  The mutex makes each critical section one      *)
(* action; notify_all runs after the unlock and is an action of its own.        *)
(* An entry is represented by the number of the push that stored it.            *)
EXTENDS Integers

CONSTANTS Capacity,   \* number of slots
          Producers,  \* threads that push
          Readers,    \* send threads
          Slow,       \* readers whose viewer may stop taking data for ever
          MaxSeq      \* bound of the model: number of pushes

ASSUME CapacityAssumption == Capacity \in Nat \ {0}
ASSUME MaxSeqAssumption == MaxSeq \in Nat
ASSUME SlowAssumption == Slow \subseteq Readers

VARIABLES slots,      \* CacheInner.slots
          next_seq,   \* CacheInner.next_seq
          notifying,  \* producers between the unlock and notify_all
          phase,      \* where each send thread is
          cursor,     \* its cursor
          batch,      \* what it has collected and not yet written, by number
          last        \* the last entry it wrote to its socket

vars == <<slots, next_seq, notifying, phase, cursor, batch, last>>

NoEntry == -1         \* an empty slot; also "nothing written yet"

Phases == {"joining",  \* before snapshot_tail
           "writing",  \* outside the lock, batch possibly empty
           "waiting",  \* in the wait set of the condition variable
           "woken",    \* notified, before it has the lock again
           "gone"}     \* send_loop returned

\* The least element of a non-empty set of integers.
Least(S) == CHOOSE s \in S : \A t \in S : s <= t

EmptyBatch == [s \in {} |-> NoEntry]

--------------------------------------------------------------------------------
(* Operations of the ring.                                                      *)

SlotIndex(s) == s % Capacity

\* The oldest entry the ring still holds, next_seq.saturating_sub(capacity).
OldestOffByOne == IF next_seq > Capacity THEN next_seq - Capacity + 1 ELSE 0
Oldest == IF next_seq > Capacity THEN next_seq - Capacity ELSE 0

\* collect: the entries of the slots from `from` on, empty slots skipped.
CollectUnclamped(from) ==
    [s \in {q \in from .. next_seq - 1 : slots[SlotIndex(q)] # NoEntry}
        |-> slots[SlotIndex(s)]]
CollectMissesFirst(from) ==
    LET effective == 1 + IF from >= Oldest THEN from ELSE Oldest
    IN  [s \in {q \in effective .. next_seq - 1 : slots[SlotIndex(q)] # NoEntry}
            |-> slots[SlotIndex(s)]]
Collect(from) ==
    LET effective == IF from >= Oldest THEN from ELSE Oldest
    IN  [s \in {q \in effective .. next_seq - 1 : slots[SlotIndex(q)] # NoEntry}
            |-> slots[SlotIndex(s)]]

\* The cursor that collect returns with the entries.
NewCursorAhead == next_seq + 1
NewCursor == next_seq

\* The condition wait_timeout_while sleeps on, negated.
HasNew(r) == next_seq > cursor[r]

Init == /\ slots = [i \in 0 .. Capacity - 1 |-> NoEntry]
        /\ next_seq = 0
        /\ notifying = {}
        /\ phase = [r \in Readers |-> "joining"]
        /\ cursor = [r \in Readers |-> 0]
        /\ batch = [r \in Readers |-> EmptyBatch]
        /\ last = [r \in Readers |-> NoEntry]

--------------------------------------------------------------------------------
(* The producers.                                                               *)

PushForgetsNotify(p) ==
    /\ next_seq < MaxSeq
    /\ p \notin notifying
    /\ slots' = [slots EXCEPT ![SlotIndex(next_seq)] = next_seq]
    /\ next_seq' = next_seq + 1
    /\ UNCHANGED <<notifying, phase, cursor, batch, last>>

\* Store the entry, advance next_seq, unlock.
Push(p) ==
    /\ next_seq < MaxSeq
    /\ p \notin notifying
    /\ slots' = [slots EXCEPT ![SlotIndex(next_seq)] = next_seq]
    /\ next_seq' = next_seq + 1
    /\ notifying' = notifying \cup {p}
    /\ UNCHANGED <<phase, cursor, batch, last>>

\* notify_all, after the unlock.
NotifyAll(p) ==
    /\ p \in notifying
    /\ notifying' = notifying \ {p}
    /\ phase' = [r \in Readers |-> IF phase[r] = "waiting" THEN "woken" ELSE phase[r]]
    /\ UNCHANGED <<slots, next_seq, cursor, batch, last>>

--------------------------------------------------------------------------------
(* The send threads.                                                            *)

\* Collect under the lock and return to send_loop with the new cursor.
TakeFrom(r, from) ==
    /\ batch' = [batch EXCEPT ![r] = Collect(from)]
    /\ cursor' = [cursor EXCEPT ![r] = NewCursor]
    /\ phase' = [phase EXCEPT ![r] = "writing"]
    /\ UNCHANGED <<slots, next_seq, notifying, last>>

\* snapshot_tail(usize::MAX): start is next_seq minus at most the capacity.
SnapshotTail(r) ==
    /\ phase[r] = "joining"
    /\ TakeFrom(r, Oldest)

\* One write_msg of the batch to the viewer's socket.
WriteEntry(r) ==
    /\ phase[r] = "writing"
    /\ DOMAIN batch[r] # {}
    /\ LET s == Least(DOMAIN batch[r]) IN
         /\ last' = [last EXCEPT ![r] = batch[r][s]]
         /\ batch' = [batch EXCEPT ![r] = [q \in DOMAIN batch[r] \ {s} |-> batch[r][q]]]
    /\ UNCHANGED <<slots, next_seq, notifying, phase, cursor>>

\* wait_from, up to the return or the first block on the condition variable.
WaitFrom(r) ==
    /\ phase[r] = "writing"
    /\ DOMAIN batch[r] = {}
    /\ \/ /\ HasNew(r)
          /\ TakeFrom(r, cursor[r])
       \/ /\ ~HasNew(r)
          /\ phase' = [phase EXCEPT ![r] = "waiting"]
          /\ UNCHANGED <<slots, next_seq, notifying, cursor, batch, last>>

\* The thread has the lock again after a notification: check the condition anew.
WakeUp(r) ==
    /\ phase[r] = "woken"
    /\ \/ /\ HasNew(r)
          /\ TakeFrom(r, cursor[r])
       \/ /\ ~HasNew(r)
          /\ phase' = [phase EXCEPT ![r] = "waiting"]
          /\ UNCHANGED <<slots, next_seq, notifying, cursor, batch, last>>

\* The 20 ms are over: collect whatever there is, possibly nothing.
TimeOut(r) ==
    /\ phase[r] \in {"waiting", "woken"}
    /\ TakeFrom(r, cursor[r])

\* send_loop returns: a write failed or the control channel ended the session.
Leave(r) ==
    /\ phase[r] = "writing"
    /\ phase' = [phase EXCEPT ![r] = "gone"]
    /\ UNCHANGED <<slots, next_seq, notifying, cursor, batch, last>>

ReaderStep(r) == \/ SnapshotTail(r) \/ WriteEntry(r) \/ WaitFrom(r) \/ WakeUp(r)
                 \/ TimeOut(r) \/ Leave(r)

Next == \/ \E p \in Producers : Push(p) \/ NotifyAll(p)
        \/ \E r \in Readers : ReaderStep(r)

Spec == Init /\ [][Next]_vars

(* A producer that has unlocked goes on to notify_all, a reader that can lock   *)
(* the mutex does, and a viewer that is not slow takes what is written to it.   *)
(* Nothing is assumed of the 20 ms timeout: an entry must not need it.          *)
Fairness == /\ \A p \in Producers : WF_vars(NotifyAll(p))
            /\ \A r \in Readers : WF_vars(SnapshotTail(r) \/ WaitFrom(r) \/ WakeUp(r))
            /\ \A r \in Readers \ Slow : WF_vars(WriteEntry(r))

FairSpec == Spec /\ Fairness

--------------------------------------------------------------------------------
(* Properties.                                                                  *)

TypeOK == /\ next_seq \in 0 .. MaxSeq
          /\ slots \in [0 .. Capacity - 1 -> {NoEntry} \cup 0 .. MaxSeq - 1]
          /\ notifying \subseteq Producers
          /\ phase \in [Readers -> Phases]
          /\ cursor \in [Readers -> 0 .. MaxSeq]
          /\ last \in [Readers -> {NoEntry} \cup 0 .. MaxSeq - 1]

\* Whatever the interleaving of producers, the ring holds exactly the last
\* Capacity entries pushed, each in the slot collect looks for it.
SlotsHoldTail == /\ \A s \in Oldest .. next_seq - 1 : slots[s % Capacity] = s
                 /\ \A i \in 0 .. Capacity - 1 : i >= next_seq => slots[i] = NoEntry

\* No reader's cursor is ahead of the write cursor, so the subtraction
\* next_seq - effective in collect cannot underflow.
CursorNotAhead == \A r \in Readers : cursor[r] <= next_seq

\* A batch is a run of consecutive entries that ends just before the cursor, and
\* each is the entry pushed under that number: none was overwritten on the way.
BatchFaithful ==
    \A r \in Readers :
        \E from \in 0 .. cursor[r] :
            /\ DOMAIN batch[r] = from .. cursor[r] - 1
            /\ \A s \in DOMAIN batch[r] : batch[r][s] = s

\* Between them: an entry stored is the entry a viewer is sent under its number.
RingAndBatches == SlotsHoldTail /\ BatchFaithful

\* The entry a reader writes next is the successor of the last one it wrote,
\* unless the reader had fallen a whole ring behind: then it goes on with a
\* full ring.  Entries are never repeated or reordered.
LossOnlyWhenLapped ==
    \A r \in Readers :
        IF DOMAIN batch[r] = {}
        THEN last[r] = cursor[r] - 1
        ELSE LET s == Least(DOMAIN batch[r])
             IN  \/ s = last[r] + 1
                 \/ s > last[r] + 1 /\ cursor[r] - s = Capacity

\* No lost wakeup: an entry pushed is eventually written to (or overtaken by a
\* later entry for) every viewer that takes its data, without the help of the
\* 20 ms timeout and whatever a slow viewer does.
CatchUp ==
    \A r \in Readers \ Slow : \A n \in 1 .. MaxSeq :
        (next_seq = n) ~> (phase[r] = "gone" \/ last[r] >= n - 1)

\* The cache implements the lossy log.
Position(r) == IF DOMAIN batch[r] = {} THEN cursor[r] ELSE Least(DOMAIN batch[r])

Log == INSTANCE StreamLog WITH published <- next_seq,
                               position <- [r \in Readers |-> Position(r)]
ImplementsLog == Log!Spec
================================================================================
