--------------------------- MODULE StreamCacheProof ---------------------------
(* Theorems about the stream cache for every capacity, every set of producers   *)
(* and readers and every number of pushes: the inductive invariant IInv, the    *)
(* safety properties it contains, and the refinement of the lossy log.          *)
EXTENDS StreamCache, TLAPS

--------------------------------------------------------------------------------
(* Arithmetic of the slot index.                                                *)

LEMMA DivMod ==
    ASSUME NEW n \in Nat, NEW C \in Nat \ {0}
    PROVE  n \div C \in Nat /\ n % C \in 0 .. C - 1 /\ n = C * (n \div C) + (n % C)
  BY SMT

LEMMA MulMono ==
    ASSUME NEW C \in Nat \ {0}, NEW p \in Nat, NEW q \in Nat, p < q
    PROVE  C * p + C <= C * q
  <1>1. PICK d \in Nat : q = p + 1 + d
    <2>1. q - p - 1 \in Nat /\ q = p + 1 + (q - p - 1)
      OBVIOUS
    <2> QED BY <2>1
  <1>2. C * q = C * p + C + C * d
    BY <1>1
  <1>3. C * d \in Nat /\ C * p \in Nat
    OBVIOUS
  <1> QED BY <1>2, <1>3

LEMMA DistinctSlots ==
    ASSUME NEW C \in Nat \ {0}, NEW n \in Nat, NEW m \in Nat, n < m, m < n + C
    PROVE  n % C # m % C
  <1> SUFFICES ASSUME n % C = m % C PROVE FALSE
    OBVIOUS
  <1> DEFINE p == n \div C
             q == m \div C
             k == n % C
  <1>1. p \in Nat /\ q \in Nat /\ k \in Nat /\ n = C * p + k /\ m = C * q + k
    <2>1. \A x \in Nat : /\ x \div C \in Nat
                         /\ x % C \in Nat
                         /\ x = C * (x \div C) + (x % C)
      BY DivMod
    <2> QED BY <2>1, Zenon
  <1>5. C * p \in Nat /\ C * q \in Nat
    BY <1>1
  <1> HIDE DEF p, q, k
  <1>2. CASE p < q
    <2>1. C * p + C <= C * q
      BY <1>1, <1>2, MulMono
    <2> QED BY <2>1, <1>1, <1>5
  <1>3. CASE q < p
    <2>1. C * q + C <= C * p
      BY <1>1, <1>3, MulMono
    <2> QED BY <2>1, <1>1, <1>5
  <1>4. CASE p = q
    BY <1>1, <1>4, <1>5
  <1> QED BY <1>1, <1>2, <1>3, <1>4

LEMMA LeastOfInterval ==
    ASSUME NEW a \in Int, NEW b \in Int, a <= b
    PROVE  Least(a .. b) = a
  <1>1. a \in a .. b /\ \A t \in a .. b : a <= t
    OBVIOUS
  <1>2. \A s \in a .. b : (\A t \in a .. b : s <= t) => s = a
    OBVIOUS
  <1> QED BY <1>1, <1>2 DEF Least
--------------------------------------------------------------------------------
(* The inductive invariant.                                                     *)

\* A thread that has not collected yet, or is blocked on the condition variable,
\* has an empty batch; one that has not taken the tail has written nothing.
ReaderForm ==
    /\ batch = [r \in Readers |-> batch[r]]
    /\ \A r \in Readers : phase[r] = "joining" => cursor[r] = 0 /\ last[r] = NoEntry
    /\ \A r \in Readers :
           phase[r] \in {"joining", "waiting", "woken"} => DOMAIN batch[r] = {}

IInv == /\ TypeOK
        /\ SlotsHoldTail
        /\ CursorNotAhead
        /\ BatchFaithful
        /\ LossOnlyWhenLapped
        /\ ReaderForm

\* An empty slot is never confused with a stored entry, and the ring holds
\* exactly the numbers from Oldest on: collect loses none of them.
LEMMA CollectResult ==
    ASSUME next_seq \in Nat, SlotsHoldTail, NEW from \in 0 .. next_seq
    PROVE  LET lo == IF from >= Oldest THEN from ELSE Oldest
           IN  /\ lo \in 0 .. next_seq
               /\ DOMAIN Collect(from) = lo .. next_seq - 1
               /\ \A s \in lo .. next_seq - 1 : Collect(from)[s] = s
  <1> USE CapacityAssumption
  <1> DEFINE lo == IF from >= Oldest THEN from ELSE Oldest
  <1>1. lo \in 0 .. next_seq /\ Oldest \in 0 .. next_seq /\ lo >= Oldest
    BY DEF Oldest
  <1>2. \A q \in lo .. next_seq - 1 : slots[SlotIndex(q)] = q /\ q # NoEntry
    BY <1>1 DEF SlotsHoldTail, SlotIndex, NoEntry
  <1> HIDE DEF lo
  <1>3. Collect(from) = [s \in {q \in lo .. next_seq - 1 : slots[SlotIndex(q)] # NoEntry}
                            |-> slots[SlotIndex(s)]]
    BY DEF Collect, lo
  <1>4. {q \in lo .. next_seq - 1 : slots[SlotIndex(q)] # NoEntry} = lo .. next_seq - 1
    BY <1>2
  <1>5. /\ DOMAIN Collect(from) = lo .. next_seq - 1
        /\ \A s \in lo .. next_seq - 1 : Collect(from)[s] = s
    BY <1>2, <1>3, <1>4
  <1> QED BY <1>1, <1>5 DEF lo

LEMMA InitIInv == Init => IInv
  <1> SUFFICES ASSUME Init PROVE IInv
    OBVIOUS
  <1> USE CapacityAssumption, MaxSeqAssumption DEF Init, NoEntry
  <1>1. TypeOK
    BY DEF TypeOK, Phases
  <1>2. SlotsHoldTail
    BY DEF SlotsHoldTail, Oldest
  <1>3. CursorNotAhead
    BY DEF CursorNotAhead
  <1>4. \A r \in Readers : DOMAIN batch[r] = {} /\ cursor[r] = 0 /\ last[r] = -1
    BY DEF EmptyBatch
  <1>5. BatchFaithful
    BY <1>4 DEF BatchFaithful
  <1>6. LossOnlyWhenLapped
    BY <1>4 DEF LossOnlyWhenLapped
  <1>7. ReaderForm
    BY <1>4 DEF ReaderForm
  <1> QED BY <1>1, <1>2, <1>3, <1>5, <1>6, <1>7 DEF IInv

\* A push overwrites the slot of the one entry that leaves the ring.
LEMMA PushIInv ==
    ASSUME IInv, NEW p \in Producers, Push(p)
    PROVE  IInv'
  <1> USE CapacityAssumption, MaxSeqAssumption DEF IInv, Push
  <1>1. SlotIndex(next_seq) \in 0 .. Capacity - 1 /\ next_seq \in Nat
    BY DivMod DEF SlotIndex, TypeOK
  <1>2. TypeOK'
    BY <1>1 DEF TypeOK, NoEntry
  <1>3. SlotsHoldTail'
    <2>1. ASSUME NEW s \in Oldest' .. next_seq
          PROVE  slots'[s % Capacity] = s
      <3>1. CASE s = next_seq
        BY <3>1, <1>1 DEF TypeOK, SlotIndex
      <3>2. CASE s # next_seq
        <4>1. s \in Nat /\ s \in Oldest .. next_seq - 1 /\ s < next_seq /\ next_seq < s + Capacity
          BY <3>2, <1>1 DEF Oldest
        <4>2. s % Capacity # next_seq % Capacity
          BY <4>1, <1>1, DistinctSlots
        <4>3. s % Capacity \in 0 .. Capacity - 1
          BY <4>1, DivMod
        <4> QED BY <4>1, <4>2, <4>3 DEF TypeOK, SlotIndex, SlotsHoldTail
      <3> QED BY <3>1, <3>2
    <2>2. ASSUME NEW i \in 0 .. Capacity - 1, i >= next_seq + 1
          PROVE  slots'[i] = NoEntry
      <3>1. next_seq % Capacity = next_seq
        <4>1. next_seq \in 0 .. Capacity - 1
          BY <2>2, <1>1
        <4> QED BY <4>1
      <3> QED BY <2>2, <3>1, <1>1 DEF TypeOK, SlotIndex, SlotsHoldTail
    <2>3. next_seq' = next_seq + 1 /\ next_seq' - 1 = next_seq
      BY <1>1
    <2> QED BY <2>1, <2>2, <2>3 DEF SlotsHoldTail
  <1>4. CursorNotAhead'
    BY <1>1 DEF CursorNotAhead, TypeOK
  <1>5. BatchFaithful' /\ LossOnlyWhenLapped' /\ ReaderForm'
    BY DEF BatchFaithful, LossOnlyWhenLapped, ReaderForm
  <1> QED BY <1>2, <1>3, <1>4, <1>5

\* Steps that only move threads between phases.
LEMMA PhaseIInv ==
    ASSUME IInv,
           UNCHANGED <<slots, next_seq, cursor, batch, last>>,
           notifying' \subseteq Producers,
           phase' \in [Readers -> Phases],
           \A r \in Readers : phase'[r] = "joining" => phase[r] = "joining",
           \A r \in Readers : phase'[r] \in {"waiting", "woken"} => DOMAIN batch[r] = {}
    PROVE  IInv'
  <1> USE DEF IInv
  <1>1. TypeOK'
    BY DEF TypeOK
  <1>2. SlotsHoldTail' /\ CursorNotAhead' /\ BatchFaithful' /\ LossOnlyWhenLapped'
    BY DEF SlotsHoldTail, CursorNotAhead, BatchFaithful, LossOnlyWhenLapped, Oldest
  <1>3. ReaderForm'
    BY DEF ReaderForm
  <1> QED BY <1>1, <1>2, <1>3

\* The batch of a reader after it has collected from `from`.
LEMMA TakeFromResult ==
    ASSUME IInv, NEW r \in Readers, NEW from \in 0 .. next_seq, TakeFrom(r, from),
           from = cursor[r] \/ (from = Oldest /\ cursor[r] = 0)
    PROVE  LET lo == IF cursor[r] >= Oldest THEN cursor[r] ELSE Oldest
           IN  /\ lo \in 0 .. next_seq
               /\ lo = next_seq => lo = cursor[r]
               /\ cursor'[r] = next_seq
               /\ DOMAIN batch'[r] = lo .. next_seq - 1
               /\ \A s \in lo .. next_seq - 1 : batch'[r][s] = s
  <1> USE CapacityAssumption, MaxSeqAssumption DEF IInv, TakeFrom
  <1> DEFINE lo == IF cursor[r] >= Oldest THEN cursor[r] ELSE Oldest
  <1>1. next_seq \in Nat /\ cursor[r] \in 0 .. next_seq /\ Oldest \in Nat
    BY DEF TypeOK, CursorNotAhead, Oldest
  <1>2. lo = IF from >= Oldest THEN from ELSE Oldest
    BY <1>1
  <1>3. batch'[r] = Collect(from)
    BY DEF ReaderForm
  <1>4. /\ lo \in 0 .. next_seq
        /\ DOMAIN batch'[r] = lo .. next_seq - 1
        /\ \A s \in lo .. next_seq - 1 : batch'[r][s] = s
    BY <1>1, <1>2, <1>3, CollectResult
  <1>5. cursor'[r] = next_seq
    BY DEF TypeOK, NewCursor
  <1>6. lo = next_seq => lo = cursor[r]
    BY <1>1 DEF Oldest
  <1> QED BY <1>4, <1>5, <1>6

LEMMA TakeFromIInv ==
    ASSUME IInv, NEW r \in Readers, NEW from \in 0 .. next_seq, TakeFrom(r, from),
           from = cursor[r] \/ (from = Oldest /\ cursor[r] = 0),
           DOMAIN batch[r] = {}
    PROVE  IInv'
  <1> USE CapacityAssumption, MaxSeqAssumption DEF IInv
  <1> DEFINE lo == IF cursor[r] >= Oldest THEN cursor[r] ELSE Oldest
  <1>1. /\ lo \in 0 .. next_seq
        /\ lo = next_seq => lo = cursor[r]
        /\ cursor'[r] = next_seq
        /\ DOMAIN batch'[r] = lo .. next_seq - 1
        /\ \A s \in lo .. next_seq - 1 : batch'[r][s] = s
    BY TakeFromResult
  <1>2. /\ next_seq \in Nat /\ cursor[r] \in 0 .. next_seq /\ Oldest \in Nat
        /\ last[r] = cursor[r] - 1
    BY DEF TypeOK, CursorNotAhead, Oldest, LossOnlyWhenLapped
  <1>3. \A q \in Readers \ {r} : /\ cursor'[q] = cursor[q]
                                 /\ batch'[q] = batch[q]
                                 /\ phase'[q] = phase[q]
    BY DEF TakeFrom, TypeOK, ReaderForm
  <1>4. UNCHANGED <<slots, next_seq, notifying, last>> /\ phase'[r] = "writing"
    BY DEF TakeFrom, TypeOK
  <1>5. TypeOK'
    BY DEF TypeOK, TakeFrom, NewCursor, Phases
  <1>6. SlotsHoldTail'
    BY <1>4 DEF SlotsHoldTail, Oldest
  <1>7. CursorNotAhead'
    BY <1>1, <1>2, <1>3, <1>4 DEF CursorNotAhead
  <1>8. BatchFaithful'
    <2> SUFFICES ASSUME NEW q \in Readers
                 PROVE  \E f \in 0 .. cursor'[q] :
                            /\ DOMAIN batch'[q] = f .. cursor'[q] - 1
                            /\ \A s \in DOMAIN batch'[q] : batch'[q][s] = s
      BY DEF BatchFaithful
    <2>1. CASE q = r
      <3> HIDE DEF lo
      <3> QED BY <2>1, <1>1
    <2>2. CASE q # r
      BY <2>2, <1>3 DEF BatchFaithful
    <2> QED BY <2>1, <2>2
  <1>9. LossOnlyWhenLapped'
    <2> SUFFICES ASSUME NEW q \in Readers
                 PROVE  IF DOMAIN batch'[q] = {}
                        THEN last'[q] = cursor'[q] - 1
                        ELSE LET s == Least(DOMAIN batch'[q])
                             IN  \/ s = last'[q] + 1
                                 \/ s > last'[q] + 1 /\ cursor'[q] - s = Capacity
      BY DEF LossOnlyWhenLapped
    <2>1. CASE q = r /\ lo = next_seq
      <3>1. DOMAIN batch'[r] = {}
        BY <2>1, <1>1, <1>2
      <3> QED BY <2>1, <3>1, <1>1, <1>2, <1>4
    <2>2. CASE q = r /\ lo # next_seq
      <3>1. DOMAIN batch'[r] # {} /\ Least(DOMAIN batch'[r]) = lo
        <4> HIDE DEF lo
        <4>1. lo \in Int /\ next_seq - 1 \in Int /\ lo <= next_seq - 1
          BY <2>2, <1>1, <1>2
        <4>2. Least(lo .. next_seq - 1) = lo
          BY <4>1, LeastOfInterval
        <4> QED BY <4>1, <4>2, <1>1
      <3>2. lo = last[r] + 1 \/ (lo > last[r] + 1 /\ next_seq - lo = Capacity)
        BY <1>2 DEF Oldest
      <3> QED BY <2>2, <3>1, <3>2, <1>1, <1>4
    <2>3. CASE q # r
      BY <2>3, <1>3, <1>4 DEF LossOnlyWhenLapped
    <2> QED BY <2>1, <2>2, <2>3
  <1>10. ReaderForm'
    <2>1. batch' = [q \in Readers |-> batch'[q]]
      BY DEF TakeFrom, ReaderForm
    <2> QED BY <2>1, <1>3, <1>4 DEF ReaderForm
  <1> QED BY <1>5, <1>6, <1>7, <1>8, <1>9, <1>10

\* What a write does to the batch of the reader: its least entry goes.
LEMMA WriteEntryResult ==
    ASSUME IInv, NEW r \in Readers, WriteEntry(r)
    PROVE  \E f \in 0 .. cursor[r] - 1 :
               /\ Least(DOMAIN batch[r]) = f
               /\ last'[r] = f
               /\ DOMAIN batch[r] = f .. cursor[r] - 1
               /\ DOMAIN batch'[r] = f + 1 .. cursor[r] - 1
               /\ \A s \in f + 1 .. cursor[r] - 1 : batch'[r][s] = s
  <1> USE DEF IInv
  <1>1. cursor[r] \in Nat
    BY MaxSeqAssumption DEF TypeOK
  <1>2. PICK f \in 0 .. cursor[r] : /\ DOMAIN batch[r] = f .. cursor[r] - 1
                                    /\ \A s \in DOMAIN batch[r] : batch[r][s] = s
    BY DEF BatchFaithful
  <1>3. f \in 0 .. cursor[r] - 1 /\ Least(DOMAIN batch[r]) = f
    <2>1. f <= cursor[r] - 1
      BY <1>1, <1>2 DEF WriteEntry
    <2> QED BY <1>1, <1>2, <2>1, LeastOfInterval
  <1>4. last'[r] = f
    BY <1>2, <1>3 DEF WriteEntry, TypeOK
  <1>5. batch'[r] = [q \in DOMAIN batch[r] \ {f} |-> batch[r][q]]
    BY <1>3 DEF WriteEntry, ReaderForm
  <1>6. DOMAIN batch[r] \ {f} = f + 1 .. cursor[r] - 1
    BY <1>1, <1>2, <1>3
  <1>7. /\ DOMAIN batch'[r] = f + 1 .. cursor[r] - 1
        /\ \A s \in f + 1 .. cursor[r] - 1 : batch'[r][s] = s
    BY <1>2, <1>5, <1>6
  <1> QED BY <1>2, <1>3, <1>4, <1>7

LEMMA WriteEntryIInv ==
    ASSUME IInv, NEW r \in Readers, WriteEntry(r)
    PROVE  IInv'
  <1> USE CapacityAssumption, MaxSeqAssumption DEF IInv
  <1>1. PICK f \in 0 .. cursor[r] - 1 :
               /\ Least(DOMAIN batch[r]) = f
               /\ last'[r] = f
               /\ DOMAIN batch[r] = f .. cursor[r] - 1
               /\ DOMAIN batch'[r] = f + 1 .. cursor[r] - 1
               /\ \A s \in f + 1 .. cursor[r] - 1 : batch'[r][s] = s
    BY WriteEntryResult
  <1>2. cursor[r] \in 0 .. MaxSeq /\ f \in 0 .. MaxSeq - 1 /\ MaxSeq \in Nat
    BY <1>1 DEF TypeOK
  <1>3. UNCHANGED <<slots, next_seq, notifying, phase, cursor>> /\ phase[r] = "writing"
    BY DEF WriteEntry
  <1>4. \A q \in Readers \ {r} : last'[q] = last[q] /\ batch'[q] = batch[q]
    BY DEF WriteEntry, TypeOK, ReaderForm
  <1>5. TypeOK'
    <2>1. last' \in [Readers -> {NoEntry} \cup 0 .. MaxSeq - 1]
      <3>1. last' = [last EXCEPT ![r] = last'[r]]
        BY DEF WriteEntry, TypeOK
      <3>2. last'[r] \in {NoEntry} \cup 0 .. MaxSeq - 1
        BY <1>1, <1>2
      <3> QED BY <3>1, <3>2 DEF TypeOK
    <2> QED BY <2>1, <1>3 DEF TypeOK
  <1>6. SlotsHoldTail' /\ CursorNotAhead'
    BY <1>3 DEF SlotsHoldTail, Oldest, CursorNotAhead
  <1>7. BatchFaithful'
    <2> SUFFICES ASSUME NEW q \in Readers
                 PROVE  \E g \in 0 .. cursor[q] :
                            /\ DOMAIN batch'[q] = g .. cursor[q] - 1
                            /\ \A s \in DOMAIN batch'[q] : batch'[q][s] = s
      BY <1>3 DEF BatchFaithful
    <2>1. CASE q = r
      <3>1. f + 1 \in 0 .. cursor[r]
        BY <1>2
      <3> QED BY <2>1, <3>1, <1>1
    <2>2. CASE q # r
      BY <2>2, <1>4 DEF BatchFaithful
    <2> QED BY <2>1, <2>2
  <1>8. LossOnlyWhenLapped'
    <2> SUFFICES ASSUME NEW q \in Readers
                 PROVE  IF DOMAIN batch'[q] = {}
                        THEN last'[q] = cursor[q] - 1
                        ELSE LET s == Least(DOMAIN batch'[q])
                             IN  \/ s = last'[q] + 1
                                 \/ s > last'[q] + 1 /\ cursor[q] - s = Capacity
      BY <1>3 DEF LossOnlyWhenLapped
    <2>1. CASE q = r /\ f = cursor[r] - 1
      <3>1. DOMAIN batch'[r] = {}
        BY <2>1, <1>1, <1>2
      <3> QED BY <2>1, <3>1, <1>1
    <2>2. CASE q = r /\ f # cursor[r] - 1
      <3>1. f + 1 <= cursor[r] - 1
        BY <2>2, <1>1, <1>2
      <3>2. DOMAIN batch'[r] # {} /\ Least(DOMAIN batch'[r]) = f + 1
        BY <3>1, <1>1, <1>2, LeastOfInterval
      <3> QED BY <2>2, <3>2, <1>1, <1>2
    <2>3. CASE q # r
      BY <2>3, <1>4 DEF LossOnlyWhenLapped
    <2> QED BY <2>1, <2>2, <2>3
  <1>9. ReaderForm'
    <2>1. batch' = [q \in Readers |-> batch'[q]]
      BY DEF WriteEntry, ReaderForm
    <2> QED BY <2>1, <1>3, <1>4 DEF ReaderForm
  <1> QED BY <1>5, <1>6, <1>7, <1>8, <1>9

LEMMA NextIInv == IInv /\ [Next]_vars => IInv'
  <1> SUFFICES ASSUME IInv, [Next]_vars PROVE IInv'
    OBVIOUS
  <1>0. /\ notifying \subseteq Producers
        /\ phase \in [Readers -> Phases]
        /\ next_seq \in Nat
        /\ cursor \in [Readers -> Nat]
        /\ \A r \in Readers : cursor[r] \in 0 .. next_seq
        /\ Oldest \in 0 .. next_seq
    BY CapacityAssumption, MaxSeqAssumption DEF IInv, TypeOK, CursorNotAhead, Oldest
  <1>1. ASSUME NEW p \in Producers, Push(p) PROVE IInv'
    BY <1>1, PushIInv
  <1>2. ASSUME NEW p \in Producers, NotifyAll(p) PROVE IInv'
    <2>1. /\ notifying' \subseteq Producers
          /\ phase' \in [Readers -> Phases]
          /\ \A r \in Readers : phase'[r] = "joining" => phase[r] = "joining"
      BY <1>0, <1>2 DEF NotifyAll, Phases
    <2>2. \A r \in Readers : phase'[r] \in {"waiting", "woken"} => DOMAIN batch[r] = {}
      BY <1>0, <1>2 DEF NotifyAll, IInv, ReaderForm
    <2> QED BY <2>1, <2>2, <1>2, PhaseIInv DEF NotifyAll
  <1>3. ASSUME NEW r \in Readers, SnapshotTail(r) PROVE IInv'
    <2>1. TakeFrom(r, Oldest) /\ cursor[r] = 0 /\ DOMAIN batch[r] = {}
      BY <1>3 DEF SnapshotTail, IInv, ReaderForm
    <2> QED BY <1>0, <2>1, TakeFromIInv
  <1>4. ASSUME NEW r \in Readers, WriteEntry(r) PROVE IInv'
    BY <1>4, WriteEntryIInv
  <1>5. ASSUME NEW r \in Readers,
               TakeFrom(r, cursor[r]), phase[r] \in {"writing", "waiting", "woken"},
               phase[r] = "writing" => DOMAIN batch[r] = {}
        PROVE  IInv'
    <2>1. DOMAIN batch[r] = {} /\ cursor[r] \in 0 .. next_seq
      BY <1>0, <1>5 DEF IInv, ReaderForm
    <2> QED BY <2>1, <1>5, TakeFromIInv
  <1>6. ASSUME NEW r \in Readers, DOMAIN batch[r] = {},
               phase' = [phase EXCEPT ![r] = "waiting"],
               UNCHANGED <<slots, next_seq, notifying, cursor, batch, last>>
        PROVE  IInv'
    <2>1. /\ notifying' \subseteq Producers
          /\ phase' \in [Readers -> Phases]
          /\ \A q \in Readers : phase'[q] = "joining" => phase[q] = "joining"
      BY <1>0, <1>6 DEF Phases
    <2>2. \A q \in Readers : phase'[q] \in {"waiting", "woken"} => DOMAIN batch[q] = {}
      BY <1>0, <1>6 DEF IInv, ReaderForm
    <2> QED BY <2>1, <2>2, <1>6, PhaseIInv
  <1>7. ASSUME NEW r \in Readers, WaitFrom(r) PROVE IInv'
    BY <1>5, <1>6, <1>7 DEF WaitFrom
  <1>8. ASSUME NEW r \in Readers, WakeUp(r) PROVE IInv'
    <2>1. DOMAIN batch[r] = {}
      BY <1>8 DEF WakeUp, IInv, ReaderForm
    <2> QED BY <2>1, <1>5, <1>6, <1>8 DEF WakeUp
  <1>9. ASSUME NEW r \in Readers, TimeOut(r) PROVE IInv'
    BY <1>5, <1>9 DEF TimeOut
  <1>10. ASSUME NEW r \in Readers, Leave(r) PROVE IInv'
    <2>1. /\ notifying' \subseteq Producers
          /\ phase' \in [Readers -> Phases]
          /\ \A q \in Readers : phase'[q] = "joining" => phase[q] = "joining"
      BY <1>0, <1>10 DEF Leave, Phases
    <2>2. \A q \in Readers : phase'[q] \in {"waiting", "woken"} => DOMAIN batch[q] = {}
      BY <1>0, <1>10 DEF Leave, IInv, ReaderForm
    <2> QED BY <2>1, <2>2, <1>10, PhaseIInv DEF Leave
  <1>11. CASE UNCHANGED vars
    <2>1. \A r \in Readers : phase[r] \in {"waiting", "woken"} => DOMAIN batch[r] = {}
      BY DEF IInv, ReaderForm
    <2> QED BY <1>0, <1>11, <2>1, PhaseIInv DEF vars
  <1> QED BY <1>1, <1>2, <1>3, <1>4, <1>7, <1>8, <1>9, <1>10, <1>11 DEF Next, ReaderStep

THEOREM InductiveInvariant == Spec => []IInv
  BY InitIInv, NextIInv, PTL DEF Spec

--------------------------------------------------------------------------------
(* The theorems.                                                                *)

\* Type correctness of the cache and of its readers, for every instance.
THEOREM TypeCorrect == Spec => []TypeOK
  <1>1. IInv => TypeOK
    BY DEF IInv
  <1> QED BY <1>1, InductiveInvariant, PTL

\* The ring always holds the last Capacity entries, each where collect looks for
\* it, and what a reader has collected is a run of consecutive entries as pushed.
THEOREM RingFaithful == Spec => []RingAndBatches
  <1>1. IInv => RingAndBatches
    BY DEF IInv, RingAndBatches
  <1> QED BY <1>1, InductiveInvariant, PTL

\* The unsigned subtraction in collect never underflows.
THEOREM NoUnderflow == Spec => []CursorNotAhead
  <1>1. IInv => CursorNotAhead
    BY DEF IInv
  <1> QED BY <1>1, InductiveInvariant, PTL

\* A viewer loses entries only when its send thread has fallen a ring behind.
THEOREM LossOnlyBehind == Spec => []LossOnlyWhenLapped
  <1>1. IInv => LossOnlyWhenLapped
    BY DEF IInv
  <1> QED BY <1>1, InductiveInvariant, PTL

--------------------------------------------------------------------------------
(* The refinement of StreamLog.                                                 *)

AbstractPosition == [r \in Readers |-> Position(r)]

\* A step that leaves cursors and batches alone leaves every position alone.
LEMMA PositionUnchanged ==
    ASSUME UNCHANGED <<cursor, batch>>
    PROVE  AbstractPosition' = AbstractPosition
  BY DEF AbstractPosition, Position

LEMMA TakeFromRefines ==
    ASSUME IInv, NEW r \in Readers, NEW from \in 0 .. next_seq, TakeFrom(r, from),
           from = cursor[r] \/ (from = Oldest /\ cursor[r] = 0),
           DOMAIN batch[r] = {}
    PROVE  [Log!Next]_(Log!vars)
  <1> DEFINE lo == IF cursor[r] >= Oldest THEN cursor[r] ELSE Oldest
  <1>1. /\ lo \in 0 .. next_seq
        /\ lo = next_seq => lo = cursor[r]
        /\ cursor'[r] = next_seq
        /\ DOMAIN batch'[r] = lo .. next_seq - 1
    BY TakeFromResult
  <1>2. next_seq \in Nat /\ cursor[r] \in 0 .. next_seq /\ next_seq' = next_seq
    BY MaxSeqAssumption DEF IInv, TypeOK, CursorNotAhead, TakeFrom
  <1>3. Position(r) = cursor[r]
    BY DEF Position
  <1>4. Position(r)' = lo
    <2> HIDE DEF lo
    <2>1. CASE lo = next_seq
      <3>1. DOMAIN batch'[r] = {}
        BY <2>1, <1>1, <1>2
      <3> QED BY <2>1, <3>1, <1>1 DEF Position
    <2>2. CASE lo # next_seq
      <3>1. lo \in Int /\ next_seq - 1 \in Int /\ lo <= next_seq - 1
        BY <2>2, <1>1, <1>2
      <3>2. Least(lo .. next_seq - 1) = lo
        BY <3>1, LeastOfInterval
      <3>3. DOMAIN batch'[r] # {}
        BY <3>1, <1>1
      <3> QED BY <3>2, <3>3, <1>1 DEF Position
    <2> QED BY <2>1, <2>2
  <1>5. \A q \in Readers \ {r} : Position(q)' = Position(q)
    BY DEF Position, TakeFrom, IInv, TypeOK, ReaderForm
  <1>6. AbstractPosition' = [AbstractPosition EXCEPT ![r] = lo]
    <2> HIDE DEF lo
    <2> QED BY <1>4, <1>5 DEF AbstractPosition
  <1>7. CASE lo = cursor[r]
    <2>1. AbstractPosition' = AbstractPosition
      BY <1>3, <1>6, <1>7 DEF AbstractPosition
    <2> QED BY <2>1, <1>2 DEF Log!vars, AbstractPosition
  <1>8. CASE lo # cursor[r]
    <2>1. lo = next_seq - Capacity /\ cursor[r] + Capacity < next_seq
      BY <1>1, <1>2, <1>8, CapacityAssumption DEF Oldest
    <2>2. AbstractPosition[r] = cursor[r]
      BY <1>3 DEF AbstractPosition
    <2>3. Log!JumpForward(r)
      BY <2>1, <2>2, <1>2, <1>6 DEF Log!JumpForward, AbstractPosition
    <2> QED BY <2>3 DEF Log!Next
  <1> QED BY <1>7, <1>8

LEMMA WriteEntryRefines ==
    ASSUME IInv, NEW r \in Readers, WriteEntry(r)
    PROVE  Log!Deliver(r)
  <1>1. PICK f \in 0 .. cursor[r] - 1 :
               /\ Least(DOMAIN batch[r]) = f
               /\ last'[r] = f
               /\ DOMAIN batch[r] = f .. cursor[r] - 1
               /\ DOMAIN batch'[r] = f + 1 .. cursor[r] - 1
               /\ \A s \in f + 1 .. cursor[r] - 1 : batch'[r][s] = s
    BY WriteEntryResult
  <1>2. next_seq \in Nat /\ cursor[r] \in 0 .. next_seq /\ f \in 0 .. cursor[r] - 1
    BY MaxSeqAssumption DEF IInv, TypeOK, CursorNotAhead
  <1>3. UNCHANGED <<next_seq, cursor>> /\ DOMAIN batch[r] # {}
    BY DEF WriteEntry
  <1>4. Position(r) = f
    BY <1>1, <1>3 DEF Position
  <1>5. Position(r)' = f + 1
    <2>1. CASE f + 1 = cursor[r]
      <3>1. DOMAIN batch'[r] = {}
        BY <2>1, <1>1, <1>2
      <3> QED BY <2>1, <3>1, <1>3 DEF Position
    <2>2. CASE f + 1 # cursor[r]
      <3>1. f + 1 \in Int /\ cursor[r] - 1 \in Int /\ f + 1 <= cursor[r] - 1
        BY <2>2, <1>2
      <3>2. Least(f + 1 .. cursor[r] - 1) = f + 1
        BY <3>1, LeastOfInterval
      <3>3. DOMAIN batch'[r] # {}
        BY <3>1, <1>1
      <3> QED BY <3>2, <3>3, <1>1 DEF Position
    <2> QED BY <2>1, <2>2
  <1>6. \A q \in Readers \ {r} : Position(q)' = Position(q)
    BY DEF Position, WriteEntry, IInv, TypeOK, ReaderForm
  <1>7. AbstractPosition' = [AbstractPosition EXCEPT ![r] = @ + 1]
    BY <1>4, <1>5, <1>6 DEF AbstractPosition
  <1>8. AbstractPosition[r] < next_seq
    BY <1>2, <1>4 DEF AbstractPosition
  <1> QED BY <1>3, <1>7, <1>8 DEF Log!Deliver, AbstractPosition

LEMMA InitRefines == Init => Log!Init
  BY DEF Init, Log!Init, Position, EmptyBatch

LEMMA StepRefines == IInv /\ [Next]_vars => [Log!Next]_(Log!vars)
  <1> SUFFICES ASSUME IInv, [Next]_vars PROVE [Log!Next]_(Log!vars)
    OBVIOUS
  <1>0. /\ next_seq \in Nat
        /\ \A r \in Readers : cursor[r] \in 0 .. next_seq
        /\ Oldest \in 0 .. next_seq
    BY CapacityAssumption, MaxSeqAssumption DEF IInv, TypeOK, CursorNotAhead, Oldest
  <1>1. ASSUME UNCHANGED <<next_seq, cursor, batch>> PROVE [Log!Next]_(Log!vars)
    BY <1>1, PositionUnchanged DEF Log!vars, AbstractPosition
  <1>2. ASSUME NEW p \in Producers, Push(p) PROVE [Log!Next]_(Log!vars)
    <2>1. Log!Publish
      BY <1>2, PositionUnchanged DEF Push, Log!Publish, AbstractPosition
    <2> QED BY <2>1 DEF Log!Next
  <1>3. ASSUME NEW r \in Readers, SnapshotTail(r) PROVE [Log!Next]_(Log!vars)
    <2>1. TakeFrom(r, Oldest) /\ cursor[r] = 0 /\ DOMAIN batch[r] = {}
      BY <1>3 DEF SnapshotTail, IInv, ReaderForm
    <2> QED BY <1>0, <2>1, TakeFromRefines
  <1>4. ASSUME NEW r \in Readers, WriteEntry(r) PROVE [Log!Next]_(Log!vars)
    BY <1>4, WriteEntryRefines DEF Log!Next
  <1>5. ASSUME NEW r \in Readers, TakeFrom(r, cursor[r]), DOMAIN batch[r] = {}
        PROVE  [Log!Next]_(Log!vars)
    BY <1>0, <1>5, TakeFromRefines
  <1>6. ASSUME NEW r \in Readers, WaitFrom(r) PROVE [Log!Next]_(Log!vars)
    BY <1>1, <1>5, <1>6 DEF WaitFrom
  <1>7. ASSUME NEW r \in Readers, WakeUp(r) PROVE [Log!Next]_(Log!vars)
    <2>1. DOMAIN batch[r] = {}
      BY <1>7 DEF WakeUp, IInv, ReaderForm
    <2> QED BY <2>1, <1>1, <1>5, <1>7 DEF WakeUp
  <1>8. ASSUME NEW r \in Readers, TimeOut(r) PROVE [Log!Next]_(Log!vars)
    <2>1. DOMAIN batch[r] = {}
      BY <1>8 DEF TimeOut, IInv, ReaderForm
    <2> QED BY <2>1, <1>5, <1>8 DEF TimeOut
  <1>9. ASSUME NEW p \in Producers, NotifyAll(p) PROVE [Log!Next]_(Log!vars)
    BY <1>1, <1>9 DEF NotifyAll
  <1>10. ASSUME NEW r \in Readers, Leave(r) PROVE [Log!Next]_(Log!vars)
    BY <1>1, <1>10 DEF Leave
  <1>11. CASE UNCHANGED vars
    BY <1>1, <1>11 DEF vars
  <1> QED BY <1>2, <1>3, <1>4, <1>6, <1>7, <1>8, <1>9, <1>10, <1>11 DEF Next, ReaderStep

\* The ring buffer, its lock, its condition variable and the cursors of its
\* readers implement the lossy log.
THEOREM CacheImplementsLog == Spec => ImplementsLog
  <1>1. ImplementsLog <=> Log!Spec
    BY DEF ImplementsLog
  <1> QED BY <1>1, InitRefines, StepRefines, InductiveInvariant, PTL DEF Spec, Log!Spec
================================================================================
