----------------------------- MODULE TransportProof -----------------------------
(* Theorems about a connection for messages of any length, any capacities of TCP *)
(* and of the readers' buffers, any number of chunks of the speed probe, and     *)
(* streams of any length.                                                        *)
EXTENDS Transport, SequenceTheorems, TLAPS

--------------------------------------------------------------------------------
(* The inductive invariant.                                                      *)

Kinds == Prologue \cup {"HANDSHAKE_REJECT", "DISCONNECT", "STREAM"}
Msg == [ty : Kinds, n : Nat, len : Nat]
Plain == Nat \X Nat
Cell == Plain \cup [len : Nat] \cup [ctr : Nat, of : Nat, plain : Plain]
              \cup [ctr : Nat, of : Nat]

\* The length of a sequence, as a number like any other.
Length(s) == Len(s)

Typed == /\ hostAt \in HostPhases /\ clientAt \in ClientPhases
         /\ sent \in [Ways -> Seq(Msg)] /\ received \in [Ways -> Seq(Msg)]
         /\ out \in [Ways -> Seq(Cell)] /\ wire \in [Ways -> Seq(Cell)]
         /\ rec \in [Ways -> Seq(Cell)] /\ buf \in [Ways -> Seq(Cell)]
         /\ ahead \in [Ways -> Seq(Cell)] /\ acc \in [Ways -> Seq(Cell)]
         /\ sealCtr \in [Ways -> Nat] /\ openCtr \in [Ways -> Nat]
         /\ reading \in [Ways -> {"plain", "sealed"}] /\ end \in [Ways -> Ends]

\* What TypeOK adds to the types.
Bounded(d) == /\ Length(wire[d]) <= Window
              /\ Length(ahead[d]) <= BufLen
              /\ openCtr[d] <= sealCtr[d]

\* Messages are numbered as they are written, and a record's counter lags behind
\* the number of messages by the one that was written in the clear.
Written(d) == /\ \A k \in 1 .. Length(sent[d]) : sent[d][k].n = k
              /\ sent[d] = <<>> => sealCtr[d] = 0
              /\ sent[d] # <<>> => Length(sent[d]) = sealCtr[d] + 1

\* Where an end is in the session says what it has written and read already.
PhaseInv ==
    /\ hostAt # "ended" =>
           /\ hostAt = "hello" <=> sent[Down] = <<>>
           /\ received[Up] = <<>> <=> hostAt \in {"hello", "awaitAck"}
           /\ received[Up] = <<>> <=> reading[Up] = "plain"
    /\ clientAt # "ended" =>
           /\ clientAt \in {"hello", "asking"} <=> sent[Up] = <<>>
           /\ clientAt \in {"hello", "asking"} <=> reading[Down] = "plain"
           /\ clientAt = "hello" <=> received[Down] = <<>>
    /\ hostAt \in {"probing", "gate", "informed"} => ahead[Up] = <<>>

\* What has been read is what was written, and a reader that refused a message has
\* the refused one before it.
ReadInv(d) ==
    /\ Length(received[d]) <= Length(sent[d])
    /\ \A k \in 1 .. Length(received[d]) :
           received[d][k] = sent[d][k] /\ sent[d][k].len <= MsgLimit
    /\ end[d] # "aead"
    /\ end[d] = "limit" => /\ Length(received[d]) < Length(sent[d])
                           /\ sent[d][Length(received[d]) + 1].len > MsgLimit

WriterThere(d) == IF d = Down THEN hostAt # "ended" ELSE clientAt # "ended"
ReaderThere(d) == end[d] = "open" /\ (IF d = Down THEN clientAt # "ended" ELSE hostAt # "ended")

\* The i-th cell of the n-th message of a direction as it is written: the first
\* message in the clear, every other as a record.
Size(d, n) == HeaderLen + sent[d][n].len
IsCell(d, n, i, c) ==
    /\ n = 1 => c = <<n, i>>
    /\ n # 1 =>
           /\ i = 1 => c = [len |-> Size(d, n) + 1]
           /\ 1 < i /\ i < Size(d, n) + 2 =>
                  c = [ctr |-> n - 2, of |-> Size(d, n), plain |-> <<n, i - 1>>]
           /\ i = Size(d, n) + 2 => c = [ctr |-> n - 2, of |-> Size(d, n)]

\* S[n] cells of the direction come before the n-th message; base cells have been
\* taken from TCP.  What TCP holds, and behind it what the writer has left, are the
\* cells that follow; the writer, while it is there, has dropped none.
Layouts == [Nat -> Nat]
Laid(d, S) ==
    \A n \in 1 .. Length(sent[d]) :
        /\ n = 1 => S[n + 1] = S[n] + Size(d, n)
        /\ n # 1 => S[n + 1] = S[n] + Size(d, n) + 2
        /\ S[n + 1] <= S[Length(sent[d]) + 1]
OnWire(d, S, base) ==
    \A n \in 1 .. Length(sent[d]), p \in Nat :
        S[n] < p /\ p <= S[n + 1] /\ base < p /\ p <= base + Length(wire[d])
            => IsCell(d, n, p - S[n], wire[d][p - base])
InOut(d, S, base) ==
    \A n \in 1 .. Length(sent[d]), p \in Nat :
        S[n] < p /\ p <= S[n + 1]
            /\ base + Length(wire[d]) < p /\ p <= base + Length(wire[d]) + Length(out[d])
            => IsCell(d, n, p - S[n], out[d][p - (base + Length(wire[d]))])
Stream(d, S, base) ==
    /\ Laid(d, S) /\ OnWire(d, S, base) /\ InOut(d, S, base)
    /\ base + Length(wire[d]) + Length(out[d]) <= S[Length(sent[d]) + 1]
    /\ WriterThere(d) => base + Length(wire[d]) + Length(out[d]) = S[Length(sent[d]) + 1]

\* The reader is within the message r: reading it in the clear, fetching its record,
\* or reading what the record held.
InClear(d, r, S, base) ==
    /\ r = 1 /\ rec[d] = <<>> /\ buf[d] = <<>> /\ ahead[d] = <<>>
    /\ openCtr[d] = 0
    /\ base = S[r] + Length(acc[d])
    /\ acc[d] # <<>> => r <= Length(sent[d]) /\ Length(acc[d]) <= Size(d, r)
    /\ \A i \in 1 .. Length(acc[d]) : acc[d][i] = <<r, i>>
Fetching(d, r, S, base) ==
    /\ r # 1 /\ buf[d] = <<>> /\ ahead[d] = <<>> /\ acc[d] = <<>>
    /\ openCtr[d] = r - 2
    /\ base = S[r] + Length(rec[d])
    /\ rec[d] # <<>> => r <= Length(sent[d]) /\ Length(rec[d]) <= Size(d, r) + 2
    /\ \A i \in 1 .. Length(rec[d]) : IsCell(d, r, i, rec[d][i])
Opened(d, r, S, base) ==
    /\ r # 1 /\ r <= Length(sent[d]) /\ rec[d] = <<>>
    /\ openCtr[d] = r - 1
    /\ base = S[r + 1]
    /\ Length(acc[d]) + Length(ahead[d]) + Length(buf[d]) = Size(d, r)
    /\ \A i \in 1 .. Length(acc[d]) : acc[d][i] = <<r, i>>
    /\ \A i \in 1 .. Length(ahead[d]) : ahead[d][i] = <<r, Length(acc[d]) + i>>
    /\ \A i \in 1 .. Length(buf[d]) : buf[d][i] = <<r, Length(acc[d]) + Length(ahead[d]) + i>>
Reader(d, r, S, base) ==
    InClear(d, r, S, base) \/ Fetching(d, r, S, base) \/ Opened(d, r, S, base)

Next1(d) == Length(received[d]) + 1
Joined(d, S, base) == Stream(d, S, base) /\ Reader(d, Next1(d), S, base)
Link(d) == ReaderThere(d) => \E S \in Layouts, base \in Nat : Joined(d, S, base)

IInv == /\ Typed /\ PhaseInv
        /\ \A d \in Ways : Bounded(d) /\ Written(d) /\ ReadInv(d) /\ Link(d)

--------------------------------------------------------------------------------
(* Lemmas about taking cells from the front of a sequence.                       *)

LEMMA Naturals_ == /\ HeaderLen \in Nat /\ HeaderLen >= 1 /\ Probes \in Nat
                   /\ BufLen \in Nat /\ BufLen >= 1 /\ Window \in Nat
                   /\ MsgLimit \in Nat /\ RecordLimit \in Nat
                   /\ HeaderLen + MsgLimit < RecordLimit
                   /\ \A len \in Lengths : len \in Nat
                   /\ \A ty \in Prologue : LenOf[ty] \in Nat
BY LengthAssumption, LimitAssumption

\* The least of two numbers is one of them and exceeds neither.
LEMMA MinIs == ASSUME NEW a \in Nat, NEW b \in Nat
               PROVE  /\ Min(a, b) \in Nat /\ Min(a, b) <= a /\ Min(a, b) <= b
                      /\ a > 0 /\ b > 0 => Min(a, b) > 0
BY DEF Min

\* Adding a number to both sides.
LEMMA SumsOrdered ==
    ASSUME NEW x \in Nat, NEW a \in Nat, NEW b \in Nat, NEW c \in Nat
    PROVE  /\ a + b <= c => x + a + b <= x + c
           /\ x + (a + b) = x + a + b
OBVIOUS

\* The first n elements of a sequence.
LEMMA FrontIs ==
    ASSUME NEW T, NEW t \in Seq(T), NEW n \in Nat, n <= Length(t)
    PROVE  /\ Front(t, n) \in Seq(T)
           /\ Length(Front(t, n)) = n
           /\ \A i \in 1 .. n : Front(t, n)[i] = t[i]
<1> USE DEF Length
<1>1. Len(t) \in Nat /\ \A i \in 1 .. Len(t) : t[i] \in T
  BY LenProperties, ElementOfSeq
<1>2. \A i \in 1 .. n : t[i] \in T
  BY <1>1
<1>3. /\ SubSeq(t, 1, n) \in Seq(T)
      /\ Len(SubSeq(t, 1, n)) = IF 1 <= n THEN n - 1 + 1 ELSE 0
      /\ \A i \in 1 .. n - 1 + 1 : SubSeq(t, 1, n)[i] = t[1 + i - 1]
  BY <1>2, SubSeqProperties
<1> QED
  BY <1>3 DEF Front

\* What is left behind the first n elements.
LEMMA RestIs ==
    ASSUME NEW T, NEW t \in Seq(T), NEW n \in Nat, n <= Length(t)
    PROVE  /\ Rest(t, n) \in Seq(T)
           /\ Length(Rest(t, n)) = Length(t) - n
           /\ \A i \in 1 .. Length(t) - n : Rest(t, n)[i] = t[n + i]
<1> USE DEF Length
<1>1. Len(t) \in Nat /\ \A i \in 1 .. Len(t) : t[i] \in T
  BY LenProperties, ElementOfSeq
<1>2. \A i \in n + 1 .. Len(t) : t[i] \in T
  BY <1>1
<1>3. /\ SubSeq(t, n + 1, Len(t)) \in Seq(T)
      /\ Len(SubSeq(t, n + 1, Len(t))) =
             IF n + 1 <= Len(t) THEN Len(t) - (n + 1) + 1 ELSE 0
      /\ \A i \in 1 .. Len(t) - (n + 1) + 1 : SubSeq(t, n + 1, Len(t))[i] = t[n + 1 + i - 1]
  BY <1>1, <1>2, SubSeqProperties
<1>4. \A i \in 1 .. Len(t) - n : SubSeq(t, n + 1, Len(t))[i] = t[n + i]
  <2> TAKE i \in 1 .. Len(t) - n
  <2>1. Len(t) - (n + 1) + 1 = Len(t) - n /\ n + 1 + i - 1 = n + i
    BY <1>1
  <2> QED
    BY <1>3, <2>1
<1> QED
  BY <1>1, <1>3, <1>4 DEF Rest

\* v is s and behind it the first n cells of t.
Takes(v, s, t, n) ==
    /\ v \in Seq(Cell) /\ Length(v) = Length(s) + n
    /\ \A i \in 1 .. Length(s) : v[i] = s[i]
    /\ \A i \in Length(s) + 1 .. Length(s) + n : v[i] = t[i - Length(s)]

LEMMA TakenIs ==
    ASSUME NEW s \in Seq(Cell), NEW t \in Seq(Cell), NEW n \in Nat, n <= Length(t)
    PROVE  Takes(s \o Front(t, n), s, t, n)
<1> USE DEF Length
<1> DEFINE u == Front(t, n)
<1>1. u \in Seq(Cell) /\ Len(u) = n /\ \A i \in 1 .. n : u[i] = t[i]
  BY FrontIs
<1>2. Len(s) \in Nat
  BY LenProperties
<1> HIDE DEF u
<1>3. /\ s \o u \in Seq(Cell) /\ Len(s \o u) = Len(s) + n
      /\ \A i \in 1 .. Len(s) + n :
             (s \o u)[i] = IF i <= Len(s) THEN s[i] ELSE u[i - Len(s)]
  BY <1>1, ConcatProperties
<1>4. \A i \in 1 .. Len(s) : (s \o u)[i] = s[i]
  BY <1>2, <1>3
<1>5. \A i \in Len(s) + 1 .. Len(s) + n : (s \o u)[i] = t[i - Len(s)]
  <2> TAKE i \in Len(s) + 1 .. Len(s) + n
  <2>1. i \in 1 .. Len(s) + n /\ ~(i <= Len(s)) /\ i - Len(s) \in 1 .. n
    BY <1>2
  <2> QED
    BY <1>1, <1>3, <2>1
<1>6. Takes(s \o u, s, t, n)
  BY <1>3, <1>4, <1>5 DEF Takes
<1> QED
  BY <1>6 DEF u

\* v is t without its first n cells.
Leaves(v, t, n) ==
    /\ v \in Seq(Cell) /\ Length(v) = Length(t) - n
    /\ \A i \in 1 .. Length(t) - n : v[i] = t[n + i]

LEMMA LeftIs ==
    ASSUME NEW t \in Seq(Cell), NEW n \in Nat, n <= Length(t)
    PROVE  Leaves(Rest(t, n), t, n)
<1>1. /\ Rest(t, n) \in Seq(Cell) /\ Length(Rest(t, n)) = Length(t) - n
      /\ \A i \in 1 .. Length(t) - n : Rest(t, n)[i] = t[n + i]
  BY RestIs
<1> QED
  BY <1>1 DEF Leaves

\* No sequence but the empty one has length 0.
LEMMA EmptyIs == ASSUME NEW T, NEW t \in Seq(T)
                 PROVE  /\ Length(t) \in Nat /\ (t = <<>> <=> Length(t) = 0)
                        /\ \A i \in 1 .. Length(t) : t[i] \in T
BY EmptySeq, LenProperties, ElementOfSeq DEF Length

--------------------------------------------------------------------------------
(* Lemmas about the model's operators.                                           *)

\* The cells of a message.
LEMMA CellsAre ==
    ASSUME NEW m \in Msg
    PROVE  /\ Cells(m) \in Seq(Cell) /\ Cells(m) \in Seq(Plain)
           /\ Length(Cells(m)) = HeaderLen + m.len
           /\ \A i \in 1 .. HeaderLen + m.len : Cells(m)[i] = <<m.n, i>>
<1> USE DEF Length
<1>1. HeaderLen + m.len \in Nat /\ m.n \in Nat
  BY Naturals_ DEF Msg
<1>2. \A i \in 1 .. HeaderLen + m.len : <<m.n, i>> \in Plain
  BY <1>1 DEF Plain
<1>3. \A i \in 1 .. HeaderLen + m.len : <<m.n, i>> \in Cell
  BY <1>2 DEF Cell
<1>4. [i \in 1 .. HeaderLen + m.len |-> <<m.n, i>>] \in Seq(Cell)
  BY <1>1, <1>3, IsASeq
<1>5. [i \in 1 .. HeaderLen + m.len |-> <<m.n, i>>] \in Seq(Plain)
  BY <1>1, <1>2, IsASeq
<1>6. DOMAIN Cells(m) = 1 .. HeaderLen + m.len
  BY DEF Cells
<1>7. Cells(m) \in Seq(Cell) /\ Cells(m) \in Seq(Plain)
  BY <1>4, <1>5 DEF Cells
<1>8. Len(Cells(m)) \in Nat /\ DOMAIN Cells(m) = 1 .. Len(Cells(m))
  BY <1>7, LenProperties
<1>9. Len(Cells(m)) = HeaderLen + m.len
  BY <1>1, <1>6, <1>8
<1>10. \A i \in 1 .. HeaderLen + m.len : Cells(m)[i] = <<m.n, i>>
  BY DEF Cells
<1> QED
  BY <1>7, <1>9, <1>10

\* A record is the length, the ciphertext and the tag.
LEMMA SealIs ==
    ASSUME NEW cells \in Seq(Plain), NEW ctr \in Nat
    PROVE  /\ Seal(cells, ctr) \in Seq(Cell)
           /\ Length(Seal(cells, ctr)) = Length(cells) + 2
           /\ Seal(cells, ctr)[1] = [len |-> Length(cells) + 1]
           /\ \A i \in 2 .. Length(cells) + 1 :
                  Seal(cells, ctr)[i] =
                      [ctr |-> ctr, of |-> Length(cells), plain |-> cells[i - 1]]
           /\ Seal(cells, ctr)[Length(cells) + 2] = [ctr |-> ctr, of |-> Length(cells)]
<1> USE DEF Length
<1> DEFINE L == Len(cells)
           head == <<[len |-> L + 1]>>
           body == [i \in 1 .. L |-> [ctr |-> ctr, of |-> L, plain |-> cells[i]]]
           tag == <<[ctr |-> ctr, of |-> L]>>
<1>1. L \in Nat /\ \A i \in 1 .. L : cells[i] \in Plain
  BY LenProperties, ElementOfSeq
<1>2. head \in Seq(Cell) /\ Len(head) = 1 /\ head[1] = [len |-> L + 1]
  BY <1>1 DEF Cell
<1>3. tag \in Seq(Cell) /\ Len(tag) = 1 /\ tag[1] = [ctr |-> ctr, of |-> L]
  BY <1>1 DEF Cell
<1>4. /\ body \in Seq(Cell) /\ Len(body) = L
      /\ \A i \in 1 .. L : body[i] = [ctr |-> ctr, of |-> L, plain |-> cells[i]]
  <2>1. \A i \in 1 .. L : [ctr |-> ctr, of |-> L, plain |-> cells[i]] \in Cell
    BY <1>1 DEF Cell
  <2>2. body \in Seq(Cell)
    BY <1>1, <2>1, IsASeq
  <2> QED
    BY <1>1, <2>2, LenProperties
<1> HIDE DEF L, head, body, tag
<1>5. /\ head \o body \in Seq(Cell) /\ Len(head \o body) = L + 1
      /\ (head \o body)[1] = head[1]
      /\ \A i \in 2 .. L + 1 : (head \o body)[i] = body[i - 1]
  <2>2. /\ head \o body \in Seq(Cell) /\ Len(head \o body) = Len(head) + Len(body)
        /\ \A i \in 1 .. Len(head) + Len(body) :
               (head \o body)[i] = IF i <= Len(head) THEN head[i] ELSE body[i - Len(head)]
    <3>1. head \in Seq(Cell) /\ body \in Seq(Cell)
      BY <1>2, <1>4
    <3> QED
      BY <3>1, ConcatProperties
  <2>1. /\ head \o body \in Seq(Cell) /\ Len(head \o body) = 1 + L
        /\ \A i \in 1 .. 1 + L : (head \o body)[i] = IF i <= 1 THEN head[i] ELSE body[i - 1]
    BY <1>2, <1>4, <2>2
  <2> QED
    BY <1>1, <2>1
<1>6. /\ (head \o body) \o tag \in Seq(Cell) /\ Len((head \o body) \o tag) = L + 2
      /\ \A i \in 1 .. L + 1 : ((head \o body) \o tag)[i] = (head \o body)[i]
      /\ ((head \o body) \o tag)[L + 2] = tag[1]
  <2> DEFINE hb == head \o body
  <2> HIDE DEF hb
  <2>0. hb \in Seq(Cell) /\ tag \in Seq(Cell) /\ Len(hb) = L + 1 /\ Len(tag) = 1
    BY <1>3, <1>5 DEF hb
  <2>5. /\ hb \o tag \in Seq(Cell) /\ Len(hb \o tag) = Len(hb) + Len(tag)
        /\ \A i \in 1 .. Len(hb) + Len(tag) :
               (hb \o tag)[i] = IF i <= Len(hb) THEN hb[i] ELSE tag[i - Len(hb)]
    BY <2>0, ConcatProperties
  <2>6. /\ hb \o tag \in Seq(Cell) /\ Len(hb \o tag) = (L + 1) + 1
        /\ \A i \in 1 .. (L + 1) + 1 :
               (hb \o tag)[i] = IF i <= L + 1 THEN hb[i] ELSE tag[i - (L + 1)]
    BY <2>0, <2>5
  <2>1. /\ (head \o body) \o tag \in Seq(Cell) /\ Len((head \o body) \o tag) = (L + 1) + 1
        /\ \A i \in 1 .. (L + 1) + 1 :
               ((head \o body) \o tag)[i] =
                   IF i <= L + 1 THEN (head \o body)[i] ELSE tag[i - (L + 1)]
    BY <2>6 DEF hb
  <2>2. (L + 2) - (L + 1) = 1 /\ L + 2 \in 1 .. (L + 1) + 1 /\ ~(L + 2 <= L + 1)
        /\ (L + 1) + 1 = L + 2
    BY <1>1
  <2>3. ((head \o body) \o tag)[L + 2] = tag[1]
    BY <2>1, <2>2
  <2>4. \A i \in 1 .. L + 1 : i \in 1 .. (L + 1) + 1 /\ i <= L + 1
    BY <1>1
  <2> QED
    BY <2>1, <2>2, <2>3, <2>4
<1>7. Seal(cells, ctr) = (head \o body) \o tag
  BY DEF Seal, head, body, tag, L
<1>8. \A i \in 2 .. L + 1 : ((head \o body) \o tag)[i]
                                = [ctr |-> ctr, of |-> L, plain |-> cells[i - 1]]
  <2> TAKE i \in 2 .. L + 1
  <2>1. i \in 1 .. L + 1 /\ i - 1 \in 1 .. L
    BY <1>1
  <2> QED
    BY <1>4, <1>5, <1>6, <2>1
<1>9. 1 \in 1 .. L + 1
  BY <1>1
<1>10. ((head \o body) \o tag)[1] = [len |-> L + 1]
  BY <1>2, <1>5, <1>6, <1>9
<1> QED
  BY <1>3, <1>6, <1>7, <1>8, <1>10 DEF L

--------------------------------------------------------------------------------
(* Lemmas about one direction.                                                   *)

\* What the types say of one direction.
LEMMA TypesAt ==
    ASSUME Typed, NEW d \in Ways
    PROVE  /\ sent[d] \in Seq(Msg) /\ received[d] \in Seq(Msg)
           /\ out[d] \in Seq(Cell) /\ Length(out[d]) \in Nat /\ (out[d] = <<>> <=> Length(out[d]) = 0)
           /\ wire[d] \in Seq(Cell) /\ Length(wire[d]) \in Nat /\ (wire[d] = <<>> <=> Length(wire[d]) = 0)
           /\ rec[d] \in Seq(Cell) /\ Length(rec[d]) \in Nat /\ (rec[d] = <<>> <=> Length(rec[d]) = 0)
           /\ buf[d] \in Seq(Cell) /\ Length(buf[d]) \in Nat /\ (buf[d] = <<>> <=> Length(buf[d]) = 0)
           /\ ahead[d] \in Seq(Cell) /\ Length(ahead[d]) \in Nat /\ (ahead[d] = <<>> <=> Length(ahead[d]) = 0)
           /\ acc[d] \in Seq(Cell) /\ Length(acc[d]) \in Nat /\ (acc[d] = <<>> <=> Length(acc[d]) = 0)
           /\ Length(sent[d]) \in Nat /\ Length(received[d]) \in Nat
           /\ sent[d] = <<>> <=> Length(sent[d]) = 0
           /\ received[d] = <<>> <=> Length(received[d]) = 0
           /\ \A n \in 1 .. Length(sent[d]) :
                  /\ sent[d][n] \in Msg /\ sent[d][n].len \in Nat
                  /\ Size(d, n) \in Nat /\ Size(d, n) >= HeaderLen
           /\ Next1(d) \in Nat /\ Next1(d) >= 1
           /\ sealCtr[d] \in Nat /\ openCtr[d] \in Nat
<1>1. /\ sent[d] \in Seq(Msg) /\ received[d] \in Seq(Msg)
      /\ out[d] \in Seq(Cell) /\ wire[d] \in Seq(Cell) /\ rec[d] \in Seq(Cell)
      /\ buf[d] \in Seq(Cell) /\ ahead[d] \in Seq(Cell) /\ acc[d] \in Seq(Cell)
      /\ sealCtr[d] \in Nat /\ openCtr[d] \in Nat
  BY DEF Typed
<1>2. /\ Length(out[d]) \in Nat /\ (out[d] = <<>> <=> Length(out[d]) = 0)
      /\ Length(wire[d]) \in Nat /\ (wire[d] = <<>> <=> Length(wire[d]) = 0)
      /\ Length(rec[d]) \in Nat /\ (rec[d] = <<>> <=> Length(rec[d]) = 0)
      /\ Length(buf[d]) \in Nat /\ (buf[d] = <<>> <=> Length(buf[d]) = 0)
      /\ Length(ahead[d]) \in Nat /\ (ahead[d] = <<>> <=> Length(ahead[d]) = 0)
      /\ Length(acc[d]) \in Nat /\ (acc[d] = <<>> <=> Length(acc[d]) = 0)
  BY <1>1, EmptyIs
<1>3. /\ Length(sent[d]) \in Nat /\ (sent[d] = <<>> <=> Length(sent[d]) = 0)
      /\ \A n \in 1 .. Length(sent[d]) : sent[d][n] \in Msg
      /\ Length(received[d]) \in Nat /\ (received[d] = <<>> <=> Length(received[d]) = 0)
  BY <1>1, EmptyIs
<1>4. \A n \in 1 .. Length(sent[d]) :
          /\ sent[d][n].len \in Nat
          /\ Size(d, n) \in Nat /\ Size(d, n) >= HeaderLen
  BY <1>3, Naturals_, SMTT(30) DEF Size, Msg
<1> QED
  <2>1. Next1(d) \in Nat /\ Next1(d) >= 1
    BY <1>3 DEF Next1
  <2> QED
    BY <1>1, <1>2, <1>3, <1>4, <2>1

\* read_msg takes the type and the length from the header of the message it is in.
LEMMA CurrentIs ==
    ASSUME Typed, NEW d \in Ways, NEW S \in Layouts, NEW base \in Nat,
           Reader(d, Next1(d), S, base), acc[d] # <<>>
    PROVE  /\ Next1(d) \in 1 .. Length(sent[d])
           /\ Current(d) = sent[d][Next1(d)]
           /\ Length(acc[d]) <= Size(d, Next1(d))
           /\ \A i \in 1 .. Length(acc[d]) : acc[d][i] = <<Next1(d), i>>
           /\ ~Fetching(d, Next1(d), S, base)
<1> DEFINE r == Next1(d)
<1>1. Length(acc[d]) \in Nat /\ Length(acc[d]) >= 1 /\ r \in Nat /\ r >= 1
      /\ Length(sent[d]) \in Nat /\ Length(ahead[d]) \in Nat /\ Length(buf[d]) \in Nat
  BY TypesAt
<1> HIDE DEF r
<1>2. InClear(d, r, S, base) \/ Opened(d, r, S, base)
  BY DEF Reader, Fetching, r
<1>3. r <= Length(sent[d]) /\ Length(acc[d]) <= Size(d, r)
  <2>1. r <= Length(sent[d])
    BY <1>2 DEF InClear, Opened
  <2>2. CASE InClear(d, r, S, base)
    BY <2>1, <2>2 DEF InClear
  <2>3. CASE Opened(d, r, S, base)
    <3>1. Length(acc[d]) + Length(ahead[d]) + Length(buf[d]) = Size(d, r)
      BY <2>3 DEF Opened
    <3>2. Length(acc[d]) <= Length(acc[d]) + Length(ahead[d]) + Length(buf[d])
      BY <1>1
    <3> QED
      BY <2>1, <3>1, <3>2
  <2> QED
    BY <1>2, <2>2, <2>3
<1>4. \A i \in 1 .. Length(acc[d]) : acc[d][i] = <<r, i>>
  BY <1>2 DEF InClear, Opened
<1>5. acc[d][1] = <<r, 1>>
  <2>1. 1 \in 1 .. Length(acc[d])
    BY <1>1
  <2> QED
    BY <1>4, <2>1
<1>6. Current(d) = sent[d][r]
  BY <1>5 DEF Current
<1>7. ~Fetching(d, r, S, base)
  BY DEF Fetching
<1>8. r \in 1 .. Length(sent[d])
  BY <1>1, <1>3
<1> QED
  BY <1>3, <1>4, <1>6, <1>7, <1>8 DEF r

\* read_exact never wants more than what is left of the message.
LEMMA WantedIs ==
    ASSUME Typed, NEW d \in Ways, NEW S \in Layouts, NEW base \in Nat,
           Reader(d, Next1(d), S, base), Next1(d) <= Length(sent[d]),
           ~Whole(d), ~TooLong(d)
    PROVE  /\ Wanted(d) \in Nat /\ Wanted(d) > 0
           /\ Length(acc[d]) + Wanted(d) <= Size(d, Next1(d))
<1> DEFINE r == Next1(d)
<1>1. /\ Length(acc[d]) \in Nat /\ (acc[d] = <<>> <=> Length(acc[d]) = 0)
      /\ r \in Nat /\ r >= 1 /\ Length(sent[d]) \in Nat
      /\ r \in 1 .. Length(sent[d])
  BY TypesAt
<1>2. Size(d, r) \in Nat /\ Size(d, r) >= HeaderLen /\ HeaderLen \in Nat /\ HeaderLen >= 1
  BY <1>1, TypesAt, Naturals_
<1> HIDE DEF r
<1>3. CASE ~HasHeader(d)
  <2>1. Wanted(d) = HeaderLen - Length(acc[d]) /\ Length(acc[d]) < HeaderLen
    BY <1>1, <1>2, <1>3 DEF Wanted, HasHeader, Length
  <2>0. Length(acc[d]) \in Nat /\ HeaderLen \in Nat
    BY <1>1, <1>2
  <2>2. Wanted(d) \in Nat /\ Wanted(d) > 0 /\ Length(acc[d]) + Wanted(d) = HeaderLen
    BY <2>0, <2>1
  <2>3. Length(acc[d]) + Wanted(d) <= Size(d, r)
    BY <1>2, <2>2
  <2> QED
    BY <2>2, <2>3 DEF r
<1>4. CASE HasHeader(d)
  <2>1. acc[d] # <<>>
    BY <1>1, <1>2, <1>4 DEF HasHeader
  <2>2. Current(d) = sent[d][r] /\ Length(acc[d]) <= Size(d, r)
    BY <2>1, CurrentIs DEF r
  <2>3. Wanted(d) = Size(d, r) - Length(acc[d])
    BY <1>4, <2>2 DEF Wanted, Size, Length
  <2>4. Wanted(d) # 0
    BY <1>4 DEF Whole
  <2>7. Length(acc[d]) \in Nat /\ Size(d, r) \in Nat /\ Length(acc[d]) <= Size(d, r)
    BY <1>1, <1>2, <2>2
  <2>5. Wanted(d) \in Nat /\ Wanted(d) > 0 /\ Length(acc[d]) + Wanted(d) = Size(d, r)
    BY <2>3, <2>4, <2>7
  <2>6. Length(acc[d]) + Wanted(d) <= Size(d, r)
    BY <1>2, <2>5
  <2> QED
    BY <2>5, <2>6 DEF r
<1> QED
  BY <1>3, <1>4

\* A reader that has a cell before it in TCP, or has begun a message, is in one that
\* has been written.
LEMMA NextIsSent ==
    ASSUME Typed, NEW d \in Ways, NEW S \in Layouts, NEW base \in Nat,
           ReadInv(d), Joined(d, S, base),
           wire[d] # <<>> \/ acc[d] # <<>> \/ rec[d] # <<>> \/ ahead[d] # <<>> \/ buf[d] # <<>>
    PROVE  Next1(d) \in 1 .. Length(sent[d])
<1> DEFINE r == Next1(d)
<1>1. /\ Length(sent[d]) \in Nat /\ r \in Nat /\ r >= 1
      /\ Length(wire[d]) \in Nat /\ Length(out[d]) \in Nat
      /\ Length(acc[d]) \in Nat /\ Length(rec[d]) \in Nat
      /\ wire[d] # <<>> => Length(wire[d]) > 0
  BY TypesAt
<1>2. r <= Length(sent[d]) + 1
  BY <1>1, TypesAt DEF ReadInv, Next1
<1>3. /\ base + Length(wire[d]) + Length(out[d]) <= S[Length(sent[d]) + 1]
      /\ Reader(d, r, S, base)
  BY DEF Joined, Stream
<1> HIDE DEF r
<1>4. S[r] \in Nat
  BY <1>1 DEF Layouts
<1>8. ASSUME base >= S[r], wire[d] # <<>>
      PROVE  r \in 1 .. Length(sent[d])
  <2>1. SUFFICES ASSUME r = Length(sent[d]) + 1
                 PROVE  FALSE
    BY <1>1, <1>2
  <2>2. base + Length(wire[d]) + Length(out[d]) <= S[r]
    BY <1>3, <2>1
  <2>3. base + Length(wire[d]) + Length(out[d]) > base
    BY <1>1, <1>8
  <2> QED
    BY <1>1, <1>4, <1>8, <2>2, <2>3
<1>5. CASE Opened(d, r, S, base)
  BY <1>1, <1>5 DEF Opened, r
<1>6. CASE InClear(d, r, S, base)
  <2>1. base >= S[r]
    BY <1>1, <1>4, <1>6 DEF InClear
  <2>2. CASE wire[d] # <<>>
    BY <1>8, <2>1, <2>2 DEF r
  <2>3. CASE acc[d] # <<>>
    BY <1>1, <1>6, <2>3 DEF InClear, r
  <2> QED
    BY <1>6, <2>2, <2>3 DEF InClear
<1>7. CASE Fetching(d, r, S, base)
  <2>1. base >= S[r]
    BY <1>1, <1>4, <1>7 DEF Fetching
  <2>2. CASE wire[d] # <<>>
    BY <1>8, <2>1, <2>2 DEF r
  <2>3. CASE rec[d] # <<>>
    BY <1>1, <1>7, <2>3 DEF Fetching, r
  <2> QED
    BY <1>7, <2>2, <2>3 DEF Fetching
<1> QED
  BY <1>3, <1>5, <1>6, <1>7 DEF Reader

\* Taking n cells from TCP moves the reader's place in the stream by n.
LEMMA Consumed ==
    ASSUME Typed, NEW d \in Ways, NEW S \in Layouts, NEW base \in Nat,
           Stream(d, S, base), NEW n \in Nat, n <= Length(wire[d]),
           wire'[d] = Rest(wire[d], n), sent'[d] = sent[d], out'[d] = out[d],
           WriterThere(d)' => WriterThere(d)
    PROVE  Stream(d, S, base + n)'
<1>1. /\ Length(wire[d]) \in Nat /\ Length(out[d]) \in Nat /\ Length(sent[d]) \in Nat
      /\ wire[d] \in Seq(Cell)
  BY TypesAt
<1>2. /\ Length(wire'[d]) = Length(wire[d]) - n
      /\ \A i \in 1 .. Length(wire[d]) - n : wire'[d][i] = wire[d][n + i]
  <2>1. Leaves(wire'[d], wire[d], n)
    BY <1>1, LeftIs
  <2> QED
    BY <2>1 DEF Leaves
<1>3. base + n + Length(wire'[d]) = base + Length(wire[d])
  BY <1>1, <1>2
<1>4. Laid(d, S)'
  BY DEF Stream, Laid, Size
<1>5. OnWire(d, S, base + n)'
  <2>1. SUFFICES ASSUME NEW k \in 1 .. Length(sent[d]), NEW p \in Nat,
                        S[k] < p, p <= S[k + 1],
                        base + n < p, p <= base + n + Length(wire'[d])
                 PROVE  IsCell(d, k, p - S[k], wire[d][p - (base + n)])'
    BY DEF OnWire
  <2>5. Length(wire'[d]) = Length(wire[d]) - n /\ Length(wire[d]) \in Nat
    BY <1>1, <1>2
  <2>2. p - (base + n) \in 1 .. Length(wire[d]) - n /\ n + (p - (base + n)) = p - base
        /\ base < p /\ p <= base + Length(wire[d])
    BY <2>1, <2>5
  <2>3. wire'[d][p - (base + n)] = wire[d][p - base]
    BY <1>2, <2>2
  <2>4. IsCell(d, k, p - S[k], wire[d][p - base])
    BY <2>1, <2>2 DEF Stream, OnWire
  <2> QED
    BY <2>3, <2>4 DEF IsCell, Size
<1>6. InOut(d, S, base + n)'
  <2>1. SUFFICES ASSUME NEW k \in 1 .. Length(sent[d]), NEW p \in Nat,
                        S[k] < p, p <= S[k + 1],
                        base + n + Length(wire'[d]) < p,
                        p <= base + n + Length(wire'[d]) + Length(out[d])
                 PROVE  IsCell(d, k, p - S[k], out[d][p - (base + n + Length(wire[d]))])'
    BY DEF InOut
  <2>2. IsCell(d, k, p - S[k], out[d][p - (base + Length(wire[d]))])
    BY <1>3, <2>1 DEF Stream, InOut
  <2>3. IsCell(d, k, p - S[k], out[d][p - (base + n + Length(wire'[d]))])
    BY <1>3, <2>2
  <2> QED
    BY <2>3 DEF IsCell, Size
<1>7. /\ base + n + Length(wire'[d]) + Length(out'[d]) <= S[Length(sent'[d]) + 1]
      /\ WriterThere(d)' =>
             base + n + Length(wire'[d]) + Length(out'[d]) = S[Length(sent'[d]) + 1]
  BY <1>3 DEF Stream
<1> QED
  BY <1>4, <1>5, <1>6, <1>7 DEF Stream

\* What the reader finds in TCP is the message it is in from where it stands.
LEMMA WireCells ==
    ASSUME Typed, NEW d \in Ways, NEW S \in Layouts, NEW base \in Nat,
           Stream(d, S, base), NEW r \in 1 .. Length(sent[d]), NEW c \in Nat,
           base = S[r] + c, NEW n \in Nat, n <= Length(wire[d]), S[r] + c + n <= S[r + 1],
           NEW i \in c + 1 .. c + n
    PROVE  IsCell(d, r, i, wire[d][i - c])
<1>1. Length(wire[d]) \in Nat /\ S[r] \in Nat /\ S[r + 1] \in Nat
  BY TypesAt DEF Layouts
<1> DEFINE p == S[r] + i
<1>2. /\ p \in Nat /\ S[r] < p /\ p <= S[r + 1] /\ base < p /\ p <= base + Length(wire[d])
      /\ p - S[r] = i /\ p - base = i - c
  <2>1. /\ p \in Nat /\ S[r] < p /\ p <= S[r + 1] /\ base < p
        /\ p - S[r] = i /\ p - base = i - c
    BY <1>1
  <2>2. p <= base + Length(wire[d])
    BY <1>1
  <2> QED
    BY <2>1, <2>2
<1> HIDE DEF p
<1>3. IsCell(d, r, p - S[r], wire[d][p - base])
  BY <1>2 DEF Stream, OnWire
<1> QED
  BY <1>2, <1>3

--------------------------------------------------------------------------------
(* What one operation on a direction does to the stream and to its reader.       *)

\* The n-th message's cells do not change.
LEMMA CellsKept ==
    ASSUME NEW d \in Ways, sent'[d] = sent[d], NEW n, NEW i, NEW c
    PROVE  IsCell(d, n, i, c)' <=> IsCell(d, n, i, c)
BY DEF IsCell, Size

\* Nothing of the direction changes, but that an end of it may have gone.
LEMMA KeptLink ==
    ASSUME NEW d \in Ways, Link(d),
           sent'[d] = sent[d], out'[d] = out[d], wire'[d] = wire[d],
           openCtr'[d] = openCtr[d], rec'[d] = rec[d], buf'[d] = buf[d],
           ahead'[d] = ahead[d], acc'[d] = acc[d], received'[d] = received[d],
           ReaderThere(d)' => ReaderThere(d), WriterThere(d)' => WriterThere(d)
    PROVE  Link(d)'
<1>1. SUFFICES ASSUME ReaderThere(d)'
               PROVE  \E S \in Layouts, base \in Nat : Joined(d, S, base)'
  BY DEF Link, Layouts
<1>2. PICK S \in Layouts, base \in Nat : Joined(d, S, base)
  BY <1>1 DEF Link
<1>3. Stream(d, S, base)'
  <2>1. Laid(d, S)'
    BY <1>2 DEF Joined, Stream, Laid, Size
  <2>2. OnWire(d, S, base)'
    BY <1>2, CellsKept DEF Joined, Stream, OnWire
  <2>3. InOut(d, S, base)'
    BY <1>2, CellsKept DEF Joined, Stream, InOut
  <2> QED
    BY <1>2, <2>1, <2>2, <2>3 DEF Joined, Stream
<1>4. Reader(d, Next1(d), S, base)'
  <2>1. Next1(d)' = Next1(d)
    BY DEF Next1
  <2>2. CASE InClear(d, Next1(d), S, base)
    BY <2>1, <2>2 DEF Reader, InClear, Size
  <2>3. CASE Fetching(d, Next1(d), S, base)
    BY <2>1, <2>3, CellsKept DEF Reader, Fetching, Size
  <2>4. CASE Opened(d, Next1(d), S, base)
    BY <2>1, <2>4 DEF Reader, Opened, Size
  <2> QED
    BY <1>2, <2>2, <2>3, <2>4 DEF Joined, Reader
<1> QED
  BY <1>3, <1>4 DEF Joined

\* TcpTakes moves cells from behind what TCP holds to it.
LEMMA TakenStream ==
    ASSUME Typed, NEW d \in Ways, NEW S \in Layouts, NEW base \in Nat,
           Stream(d, S, base), NEW n \in Nat, n <= Length(out[d]),
           wire'[d] = wire[d] \o Front(out[d], n), out'[d] = Rest(out[d], n),
           sent'[d] = sent[d], WriterThere(d)' => WriterThere(d)
    PROVE  Stream(d, S, base)'
<1>1. /\ Length(wire[d]) \in Nat /\ Length(out[d]) \in Nat
      /\ wire[d] \in Seq(Cell) /\ out[d] \in Seq(Cell)
  BY TypesAt
<1> DEFINE W == Length(wire[d])
<1>2. /\ Length(wire'[d]) = W + n
      /\ \A i \in 1 .. W : wire'[d][i] = wire[d][i]
      /\ \A i \in W + 1 .. W + n : wire'[d][i] = out[d][i - W]
  <2>1. wire[d] \in Seq(Cell) /\ out[d] \in Seq(Cell) /\ n <= Length(out[d])
        /\ wire'[d] = wire[d] \o Front(out[d], n)
    BY <1>1
  <2>2. Takes(wire'[d], wire[d], out[d], n)
    BY <2>1, TakenIs
  <2> QED
    BY <2>2 DEF Takes
<1>3. /\ Length(out'[d]) = Length(out[d]) - n
      /\ \A i \in 1 .. Length(out[d]) - n : out'[d][i] = out[d][n + i]
  <2>1. Leaves(out'[d], out[d], n)
    BY <1>1, LeftIs
  <2> QED
    BY <2>1 DEF Leaves
<1>4. base + Length(wire'[d]) + Length(out'[d]) = base + W + Length(out[d])
  BY <1>1, <1>2, <1>3
<1> HIDE DEF W
<1>5. W \in Nat
  BY <1>1 DEF W
<1>6. Laid(d, S)'
  BY DEF Stream, Laid, Size
<1>7. OnWire(d, S, base)'
  <2>1. SUFFICES ASSUME NEW k \in 1 .. Length(sent[d]), NEW p \in Nat,
                        S[k] < p, p <= S[k + 1],
                        base < p, p <= base + Length(wire'[d])
                 PROVE  IsCell(d, k, p - S[k], wire[d][p - base])'
    BY DEF OnWire
  <2>5. p <= base + W + n
    BY <1>2, <1>5, <2>1
  <2>2. CASE p <= base + W
    <3>1. p - base \in 1 .. W
      BY <1>5, <2>1, <2>2
    <3>2. IsCell(d, k, p - S[k], wire[d][p - base])
      BY <2>1, <2>2 DEF Stream, OnWire, W
    <3> QED
      BY <1>2, <3>1, <3>2, CellsKept
  <2>3. CASE base + W < p
    <3>1. p - base \in W + 1 .. W + n /\ (p - base) - W = p - (base + W)
      BY <1>5, <2>3, <2>5
    <3>2. p <= base + W + Length(out[d])
      BY <1>1, <1>5, <2>5
    <3>3. IsCell(d, k, p - S[k], out[d][p - (base + W)])
      BY <2>1, <2>3, <3>2 DEF Stream, InOut, W
    <3> QED
      BY <1>2, <3>1, <3>3, CellsKept
  <2>4. p <= base + W \/ base + W < p
    BY <1>5
  <2> QED
    BY <2>2, <2>3, <2>4
<1>8. InOut(d, S, base)'
  <2>1. SUFFICES ASSUME NEW k \in 1 .. Length(sent[d]), NEW p \in Nat,
                        S[k] < p, p <= S[k + 1],
                        base + Length(wire'[d]) < p,
                        p <= base + Length(wire'[d]) + Length(out'[d])
                 PROVE  IsCell(d, k, p - S[k], out[d][p - (base + Length(wire[d]))])'
    BY DEF InOut
  <2>2. /\ base + W + n < p /\ p <= base + W + Length(out[d])
        /\ base + Length(wire'[d]) = base + W + n
    BY <1>1, <1>2, <1>4, <1>5, <2>1
  <2>3. /\ p - (base + W + n) \in 1 .. Length(out[d]) - n
        /\ n + (p - (base + W + n)) = p - (base + W)
        /\ base + W < p
    <3>1. PICK x \in Nat, b \in Nat : x = base + W /\ b = Length(out[d])
      BY <1>1, <1>5
    <3>2. x + n < p /\ p <= x + b
      BY <2>2, <3>1
    <3>3. p - (x + n) \in 1 .. b - n /\ n + (p - (x + n)) = p - x /\ x < p
      BY <3>2
    <3> QED
      BY <3>1, <3>3
  <2>4. IsCell(d, k, p - S[k], out[d][p - (base + W)])
    BY <2>1, <2>2, <2>3 DEF Stream, InOut, W
  <2>5. out'[d][p - (base + Length(wire'[d]))] = out[d][p - (base + W)]
    BY <1>3, <2>2, <2>3
  <2> QED
    BY <2>4, <2>5, CellsKept
<1> QED
  BY <1>4, <1>6, <1>7, <1>8 DEF Stream, W

\* What is written goes behind what was written before, encoded for its place.
LEMMA WrittenStream ==
    ASSUME Typed, NEW d \in Ways, NEW S \in Layouts, NEW base \in Nat,
           Joined(d, S, base), ReadInv(d), out[d] = <<>>, WriterThere(d),
           NEW m \in Msg, m.n = Length(sent[d]) + 1, sent'[d] = Append(sent[d], m),
           sent[d] = <<>> => out'[d] = Cells(m),
           sent[d] # <<>> => out'[d] = Seal(Cells(m), Length(sent[d]) - 1),
           wire'[d] = wire[d],
           openCtr'[d] = openCtr[d], rec'[d] = rec[d], buf'[d] = buf[d],
           ahead'[d] = ahead[d], acc'[d] = acc[d], received'[d] = received[d]
    PROVE  \E T \in Layouts : Joined(d, T, base)'
<1>1. PICK N \in Nat : N = Length(sent[d])
  BY TypesAt
<1>2. /\ sent[d] \in Seq(Msg) /\ out[d] \in Seq(Cell) /\ Length(out[d]) = 0
      /\ Length(wire[d]) \in Nat /\ (sent[d] = <<>> <=> N = 0)
  BY <1>1, TypesAt
<1>3. /\ Length(sent'[d]) = N + 1 /\ sent'[d][N + 1] = m
      /\ \A k \in 1 .. N : sent'[d][k] = sent[d][k]
  BY <1>1, <1>2, AppendProperties DEF Length
<1>4. PICK K \in Nat : K = HeaderLen + m.len
  <2>1. HeaderLen + m.len \in Nat
    BY Naturals_ DEF Msg
  <2> QED
    BY <2>1
<1>5. PICK w \in Nat : (N = 0 => w = K) /\ (N # 0 => w = K + 2)
  <2>1. K \in Nat /\ K + 2 \in Nat
    OBVIOUS
  <2> QED
    BY <2>1
<1>6. /\ \A k \in 1 .. N : Size(d, k)' = Size(d, k)
      /\ Size(d, N + 1)' = K
  BY <1>3, <1>4 DEF Size
<1>7. /\ Length(out'[d]) = w
      /\ \A i \in 1 .. w : IsCell(d, N + 1, i, out[d][i])'
  <2>1. /\ Cells(m) \in Seq(Plain) /\ Length(Cells(m)) = K
        /\ \A i \in 1 .. K : Cells(m)[i] = <<N + 1, i>>
    BY <1>1, <1>4, CellsAre
  <2>2. CASE N = 0
    <3>1. out'[d] = Cells(m) /\ w = K
      BY <1>2, <1>5, <2>2
    <3> QED
      BY <2>1, <2>2, <3>1 DEF IsCell
  <2>3. CASE N # 0
    <3>1. PICK c \in Nat : c = N - 1
      BY <2>3
    <3>2. out'[d] = Seal(Cells(m), c) /\ w = K + 2 /\ (N + 1) - 2 = c
      BY <1>1, <1>2, <1>5, <2>3, <3>1
    <3>3. /\ Length(out'[d]) = K + 2
          /\ out'[d][1] = [len |-> K + 1]
          /\ \A i \in 2 .. K + 1 :
                 out'[d][i] = [ctr |-> c, of |-> K, plain |-> Cells(m)[i - 1]]
          /\ out'[d][K + 2] = [ctr |-> c, of |-> K]
      <4> DEFINE s == Seal(Cells(m), c)
      <4>1. /\ Length(s) = K + 2
            /\ s[1] = [len |-> K + 1]
            /\ \A i \in 2 .. K + 1 :
                   s[i] = [ctr |-> c, of |-> K, plain |-> Cells(m)[i - 1]]
            /\ s[K + 2] = [ctr |-> c, of |-> K]
        BY <2>1, SealIs
      <4> HIDE DEF s
      <4>2. out'[d] = s
        BY <3>2 DEF s
      <4> QED
        BY <4>1, <4>2
    <3>4. SUFFICES ASSUME NEW i \in 1 .. w
                   PROVE  IsCell(d, N + 1, i, out[d][i])'
      BY <3>2, <3>3
    <3>5. i = 1 => out'[d][i] = [len |-> Size(d, N + 1)' + 1]
      BY <1>6, <3>3
    <3>6. 1 < i /\ i < K + 2 =>
              out'[d][i] = [ctr |-> c, of |-> K, plain |-> <<N + 1, i - 1>>]
      <4>1. 1 < i /\ i < K + 2 => i \in 2 .. K + 1 /\ i - 1 \in 1 .. K
        BY <3>2
      <4> QED
        BY <2>1, <3>3, <4>1
    <3>7. i = K + 2 => out'[d][i] = [ctr |-> c, of |-> K]
      BY <3>3
    <3>8. N + 1 # 1
      BY <2>3
    <3> QED
      BY <1>6, <3>2, <3>5, <3>6, <3>7, <3>8 DEF IsCell
  <2> QED
    BY <2>2, <2>3
<1>8. /\ S[N + 1] \in Nat
      /\ base + Length(wire[d]) = S[N + 1]
      /\ \A k \in 1 .. N : S[k] \in Nat /\ S[k + 1] \in Nat /\ S[k + 1] <= S[N + 1]
  <2>1. S[N + 1] \in Nat /\ \A k \in 1 .. N : S[k] \in Nat /\ S[k + 1] \in Nat
    <3>1. N + 1 \in Nat /\ \A k \in 1 .. N : k \in Nat /\ k + 1 \in Nat
      OBVIOUS
    <3>2. \A k \in Nat : S[k] \in Nat
      BY DEF Layouts
    <3> QED
      BY <3>1, <3>2
  <2>2. base + Length(wire[d]) + Length(out[d]) = S[N + 1]
    BY <1>1 DEF Joined, Stream
  <2>3. \A k \in 1 .. N : S[k + 1] <= S[N + 1]
    BY <1>1 DEF Joined, Stream, Laid
  <2> QED
    BY <1>2, <2>1, <2>2, <2>3
<1>9. PICK T \in Layouts : /\ \A k \in 1 .. N + 1 : T[k] = S[k]
                           /\ T[N + 2] = S[N + 1] + w
  <2> DEFINE T == [k \in Nat |-> IF k = N + 2 THEN S[N + 1] + w ELSE S[k]]
  <2>1. T \in Layouts
    <3>1. S[N + 1] + w \in Nat
      BY <1>8
    <3>2. \A k \in Nat : S[k] \in Nat
      BY DEF Layouts
    <3> QED
      BY <3>1, <3>2 DEF Layouts
  <2>2. \A k \in 1 .. N + 1 : T[k] = S[k]
    OBVIOUS
  <2>3. T[N + 2] = S[N + 1] + w
    OBVIOUS
  <2> HIDE DEF T
  <2> QED
    BY <2>1, <2>2, <2>3
<1>10. /\ \A k \in 1 .. N : T[k] = S[k] /\ T[k + 1] = S[k + 1]
       /\ T[N + 1] = S[N + 1] /\ T[N + 1 + 1] = S[N + 1] + w
       /\ \A k \in 1 .. N + 1 : k \in 1 .. N \/ k = N + 1
  <2>1. \A k \in 1 .. N : k \in 1 .. N + 1 /\ k + 1 \in 1 .. N + 1
    OBVIOUS
  <2>2. N + 1 \in 1 .. N + 1 /\ N + 1 + 1 = N + 2
    OBVIOUS
  <2> QED
    BY <1>9, <2>1, <2>2
<1>11. Laid(d, T)'
  <2>1. SUFFICES ASSUME NEW k \in 1 .. N + 1
                 PROVE  /\ k = 1 => T[k + 1] = T[k] + Size(d, k)'
                        /\ k # 1 => T[k + 1] = T[k] + Size(d, k)' + 2
                        /\ T[k + 1] <= T[N + 1 + 1]
    BY <1>3 DEF Laid
  <2>2. CASE k \in 1 .. N
    <3>1. /\ k = 1 => S[k + 1] = S[k] + Size(d, k)
          /\ k # 1 => S[k + 1] = S[k] + Size(d, k) + 2
      BY <1>1, <2>2 DEF Joined, Stream, Laid
    <3>2. T[k + 1] <= T[N + 1 + 1]
      <4>1. /\ T[k + 1] = S[k + 1] /\ S[k + 1] <= S[N + 1] /\ S[k + 1] \in Nat
            /\ T[N + 1 + 1] = S[N + 1] + w /\ S[N + 1] \in Nat
        BY <1>8, <1>10, <2>2
      <4> QED
        BY <4>1
    <3> QED
      BY <1>6, <1>10, <2>2, <3>1, <3>2
  <2>3. CASE k = N + 1
    <3>1. T[k] \in Nat /\ T[k + 1] = T[k] + w /\ T[k + 1] = T[N + 1 + 1]
      BY <1>8, <1>10, <2>3
    <3>2. T[k + 1] <= T[N + 1 + 1]
      BY <3>1
    <3>3. (k = 1 => w = K) /\ (k # 1 => w = K + 2)
      BY <1>5, <2>3
    <3>4. Size(d, k)' = K
      BY <1>6, <2>3
    <3>5. k = 1 => T[k + 1] = T[k] + Size(d, k)'
      BY <3>1, <3>3, <3>4
    <3>6. k # 1 => T[k + 1] = T[k] + Size(d, k)' + 2
      <4>1. T[k] + K + 2 = T[k] + (K + 2)
        <5>1. \A x, y \in Nat : x + y + 2 = x + (y + 2)
          OBVIOUS
        <5> QED
          BY <3>1, <5>1
      <4> QED
        BY <3>1, <3>3, <3>4, <4>1
    <3> QED
      BY <3>2, <3>5, <3>6
  <2> QED
    BY <1>10, <2>2, <2>3
<1>12. \A k \in 1 .. N : \A i, c : IsCell(d, k, i, c)' <=> IsCell(d, k, i, c)
  BY <1>6 DEF IsCell
<1>13. OnWire(d, T, base)'
  <2>1. SUFFICES ASSUME NEW k \in 1 .. N + 1, NEW p \in Nat,
                        T[k] < p, p <= T[k + 1], base < p, p <= S[N + 1]
                 PROVE  IsCell(d, k, p - T[k], wire[d][p - base])'
    BY <1>3, <1>8 DEF OnWire
  <2>2. k \in 1 .. N
    BY <1>8, <1>10, <2>1
  <2>3. IsCell(d, k, p - S[k], wire[d][p - base])
    BY <1>1, <1>8, <1>10, <2>1, <2>2 DEF Joined, Stream, OnWire
  <2> QED
    BY <1>10, <1>12, <2>2, <2>3
<1>14. InOut(d, T, base)'
  <2>1. SUFFICES ASSUME NEW k \in 1 .. N + 1, NEW p \in Nat,
                        T[k] < p, p <= T[k + 1],
                        S[N + 1] < p, p <= S[N + 1] + w
                 PROVE  IsCell(d, k, p - T[k], out[d][p - S[N + 1]])'
    BY <1>3, <1>7, <1>8 DEF InOut
  <2>2. k = N + 1
    <3>1. SUFFICES ASSUME k \in 1 .. N
                   PROVE  FALSE
      BY <1>10
    <3>2. p <= S[k + 1] /\ S[k + 1] <= S[N + 1] /\ S[k + 1] \in Nat
      BY <1>8, <1>10, <2>1, <3>1
    <3> QED
      BY <1>8, <2>1, <3>2
  <2>3. T[k] = S[N + 1] /\ p - S[N + 1] \in 1 .. w
    BY <1>8, <1>10, <2>1, <2>2
  <2> QED
    BY <1>7, <2>2, <2>3
<1>15. base + Length(wire'[d]) + Length(out'[d]) = T[Length(sent'[d]) + 1]
  BY <1>3, <1>7, <1>8, <1>10
<1>16. Stream(d, T, base)'
  <2>1. T[N + 1 + 1] \in Nat
    BY <1>8, <1>10
  <2> QED
    BY <1>3, <1>11, <1>13, <1>14, <1>15, <2>1 DEF Stream
<1>17. Reader(d, Next1(d), T, base)'
  <2>1. PICK r \in Nat : r = Next1(d)
    BY TypesAt
  <2>2. Next1(d)' = r /\ r >= 1 /\ r <= N + 1
    BY <1>1, <2>1, TypesAt DEF Next1, ReadInv
  <2>3. T[r] = S[r] /\ (r <= N => r \in 1 .. N /\ T[r + 1] = S[r + 1])
    BY <1>9, <1>10, <2>2
  <2>4. CASE InClear(d, r, S, base)
    BY <1>1, <1>3, <1>6, <2>2, <2>3, <2>4 DEF Reader, InClear
  <2>5. CASE Fetching(d, r, S, base)
    <3>1. rec[d] # <<>> => r \in 1 .. N
      BY <1>1, <2>3, <2>5 DEF Fetching
    <3>2. \A i \in 1 .. Length(rec[d]) : IsCell(d, r, i, rec[d][i])'
      <4>1. rec[d] = <<>> => Length(rec[d]) = 0
        BY TypesAt
      <4> QED
        BY <1>12, <2>5, <3>1, <4>1 DEF Fetching
    <3> QED
      BY <1>1, <1>3, <1>6, <2>2, <2>3, <2>5, <3>1, <3>2 DEF Reader, Fetching
  <2>6. CASE Opened(d, r, S, base)
    BY <1>1, <1>3, <1>6, <2>2, <2>3, <2>6 DEF Reader, Opened
  <2> QED
    BY <2>1, <2>4, <2>5, <2>6 DEF Joined, Reader
<1> QED
  BY <1>16, <1>17 DEF Joined

\* A read in the clear goes on with the first message, and not beyond it.
LEMMA ClearRead ==
    ASSUME Typed, NEW d \in Ways, NEW S \in Layouts, NEW base \in Nat,
           ReadInv(d), Joined(d, S, base), Next1(d) = 1,
           ~Whole(d), ~TooLong(d), wire[d] # <<>>,
           NEW n, n = Min(Wanted(d), Length(wire[d])),
           acc'[d] = acc[d] \o Front(wire[d], n), wire'[d] = Rest(wire[d], n),
           sent'[d] = sent[d], out'[d] = out[d], openCtr'[d] = openCtr[d],
           rec'[d] = rec[d], buf'[d] = buf[d], ahead'[d] = ahead[d],
           received'[d] = received[d], WriterThere(d)' => WriterThere(d)
    PROVE  Joined(d, S, base + n)'
<1>1. /\ 1 \in 1 .. Length(sent[d]) /\ InClear(d, 1, S, base)
      /\ Stream(d, S, base) /\ Reader(d, 1, S, base)
  <2>1. 1 \in 1 .. Length(sent[d])
    BY NextIsSent
  <2> QED
    BY <2>1 DEF Joined, Reader, Fetching, Opened
<1>2. /\ wire[d] \in Seq(Cell) /\ acc[d] \in Seq(Cell)
      /\ Length(wire[d]) \in Nat /\ Length(acc[d]) \in Nat /\ Length(wire[d]) > 0
      /\ Length(sent[d]) \in Nat /\ Size(d, 1) \in Nat
  BY <1>1, TypesAt, SMTT(30)
<1>3. Wanted(d) \in Nat /\ Wanted(d) > 0 /\ Length(acc[d]) + Wanted(d) <= Size(d, 1)
  <2>1. Next1(d) <= Length(sent[d])
    BY <1>1, <1>2
  <2> QED
    BY <1>1, <2>1, WantedIs
<1>4. n \in Nat /\ n > 0 /\ n <= Wanted(d) /\ n <= Length(wire[d])
  BY <1>2, <1>3, MinIs
<1>5. Stream(d, S, base + n)'
  BY <1>1, <1>4, Consumed
<1>6. Takes(acc'[d], acc[d], wire[d], n)
  BY <1>2, <1>4, TakenIs
<1>7. base = S[1] + Length(acc[d]) /\ S[1] \in Nat /\ S[1 + 1] = S[1] + Size(d, 1)
  <2>1. S[1] \in Nat
    BY DEF Layouts
  <2>2. S[1 + 1] = S[1] + Size(d, 1)
    BY <1>1 DEF Stream, Laid
  <2> QED
    BY <1>1, <2>1, <2>2 DEF InClear
<1>8. Length(acc'[d]) = Length(acc[d]) + n /\ Length(acc[d]) + n <= Size(d, 1)
  BY <1>2, <1>3, <1>4, <1>6 DEF Takes
<1>9. \A i \in 1 .. Length(acc[d]) + n : acc'[d][i] = <<1, i>>
  <2>1. SUFFICES ASSUME NEW i \in 1 .. Length(acc[d]) + n
                 PROVE  acc'[d][i] = <<1, i>>
    OBVIOUS
  <2>2. CASE i <= Length(acc[d])
    <3>1. i \in 1 .. Length(acc[d])
      BY <1>2, <2>2
    <3> QED
      BY <1>1, <1>6, <3>1 DEF InClear, Takes
  <2>3. CASE Length(acc[d]) < i
    <3>1. i \in Length(acc[d]) + 1 .. Length(acc[d]) + n
      BY <1>2, <1>4, <2>3
    <3>2. acc'[d][i] = wire[d][i - Length(acc[d])]
      BY <1>6, <3>1 DEF Takes
    <3>3. S[1] + Length(acc[d]) + n <= S[1 + 1]
      <4>1. S[1] + Length(acc[d]) + n <= S[1] + Size(d, 1)
        BY <1>2, <1>4, <1>7, <1>8, SumsOrdered
      <4> QED
        BY <1>7, <4>1
    <3>4. IsCell(d, 1, i, wire[d][i - Length(acc[d])])
      BY <1>1, <1>2, <1>4, <1>7, <3>1, <3>3, WireCells
    <3> QED
      BY <3>2, <3>4 DEF IsCell
  <2>4. i <= Length(acc[d]) \/ Length(acc[d]) < i
    BY <1>2
  <2> QED
    BY <2>2, <2>3, <2>4
<1>10. base + n = S[1] + (Length(acc[d]) + n)
  BY <1>2, <1>4, <1>7, SMTT(30)
<1>11. InClear(d, 1, S, base + n)'
  <2>1. /\ rec'[d] = <<>> /\ buf'[d] = <<>> /\ ahead'[d] = <<>> /\ openCtr'[d] = 0
    BY <1>1 DEF InClear
  <2>2. 1 <= Length(sent'[d]) /\ Length(acc'[d]) <= Size(d, 1)'
    BY <1>1, <1>2, <1>8 DEF Size
  <2> QED
    BY <1>8, <1>9, <1>10, <2>1, <2>2 DEF InClear
<1> QED
  BY <1>5, <1>11 DEF Joined, Reader, Next1

\* A sealed reader fetches its record to the end, and not beyond it.
LEMMA RecordRead ==
    ASSUME Typed, NEW d \in Ways, NEW S \in Layouts, NEW base \in Nat,
           ReadInv(d), Joined(d, S, base), Next1(d) # 1,
           Fetching(d, Next1(d), S, base), wire[d] # <<>>, RecordWanted(rec[d]) > 0,
           NEW n, n = Min(RecordWanted(rec[d]), Length(wire[d])),
           rec'[d] = rec[d] \o Front(wire[d], n), wire'[d] = Rest(wire[d], n),
           sent'[d] = sent[d], out'[d] = out[d], openCtr'[d] = openCtr[d],
           acc'[d] = acc[d], buf'[d] = buf[d], ahead'[d] = ahead[d],
           received'[d] = received[d], WriterThere(d)' => WriterThere(d)
    PROVE  /\ Joined(d, S, base + n)'
           /\ Next1(d) \in 1 .. Length(sent[d])
           /\ Length(rec'[d]) > 0 /\ rec'[d][1] = [len |-> Size(d, Next1(d)) + 1]
           /\ n \in Nat
<1>0. PICK r \in Nat : r = Next1(d)
  BY TypesAt
<1>1. /\ r \in 1 .. Length(sent[d]) /\ Stream(d, S, base) /\ r \in Nat /\ r # 1
  BY <1>0, NextIsSent, TypesAt DEF Joined
<1>2. /\ wire[d] \in Seq(Cell) /\ rec[d] \in Seq(Cell)
      /\ Length(wire[d]) \in Nat /\ Length(rec[d]) \in Nat /\ Length(wire[d]) > 0
      /\ (rec[d] = <<>> <=> Length(rec[d]) = 0)
      /\ Length(sent[d]) \in Nat /\ Size(d, r) \in Nat
  BY <1>1, TypesAt, SMTT(30)
<1> DEFINE K == Size(d, r)
<1>3. /\ RecordWanted(rec[d]) \in Nat /\ Length(rec[d]) + RecordWanted(rec[d]) <= K + 2
  <2>1. CASE rec[d] = <<>>
    BY <1>2, <2>1 DEF RecordWanted
  <2>2. CASE rec[d] # <<>>
    <3>1. 1 \in 1 .. Length(rec[d])
      BY <1>2, <2>2
    <3>2. rec[d][1] = [len |-> K + 1]
      BY <1>0, <1>1, <3>1 DEF Fetching, IsCell
    <3>3. rec[d][1].len = K + 1
      BY <3>2
    <3>4. RecordWanted(rec[d]) = K + 1 + 1 - Length(rec[d])
      BY <2>2, <3>3 DEF RecordWanted, Length
    <3>5. Length(rec[d]) <= K + 2
      BY <1>0, <2>2 DEF Fetching
    <3> HIDE DEF K
    <3>6. K \in Nat
      BY <1>2 DEF K
    <3> QED
      BY <1>2, <3>4, <3>5, <3>6
  <2> QED
    BY <2>1, <2>2
<1>4. n \in Nat /\ n > 0 /\ n <= RecordWanted(rec[d]) /\ n <= Length(wire[d])
  BY <1>2, <1>3, MinIs
<1>5. Stream(d, S, base + n)'
  BY <1>1, <1>4, Consumed
<1>6. Takes(rec'[d], rec[d], wire[d], n)
  BY <1>2, <1>4, TakenIs
<1>7. base = S[r] + Length(rec[d]) /\ S[r] \in Nat /\ S[r + 1] = S[r] + K + 2
  <2>1. S[r] \in Nat
    BY <1>1 DEF Layouts
  <2>2. S[r + 1] = S[r] + K + 2
    BY <1>1 DEF Stream, Laid
  <2> QED
    BY <1>0, <2>1, <2>2 DEF Fetching
<1> HIDE DEF K
<1>8. K \in Nat
  BY <1>2 DEF K
<1>9. Length(rec'[d]) = Length(rec[d]) + n /\ Length(rec[d]) + n <= K + 2
  <2>1. Length(rec'[d]) = Length(rec[d]) + n
    BY <1>6 DEF Takes
  <2> QED
    BY <1>2, <1>3, <1>4, <1>8, <2>1
<1>10. \A i \in 1 .. Length(rec[d]) + n : IsCell(d, r, i, rec'[d][i])
  <2>1. SUFFICES ASSUME NEW i \in 1 .. Length(rec[d]) + n
                 PROVE  IsCell(d, r, i, rec'[d][i])
    OBVIOUS
  <2>2. CASE i <= Length(rec[d])
    <3>1. i \in 1 .. Length(rec[d])
      BY <1>2, <2>2
    <3> QED
      BY <1>0, <1>6, <3>1 DEF Fetching, Takes
  <2>3. CASE Length(rec[d]) < i
    <3>1. i \in Length(rec[d]) + 1 .. Length(rec[d]) + n
      BY <1>2, <1>4, <2>3
    <3>2. rec'[d][i] = wire[d][i - Length(rec[d])]
      BY <1>6, <3>1 DEF Takes
    <3>3. S[r] + Length(rec[d]) + n <= S[r] + (K + 2)
      <4>1. K + 2 \in Nat
        BY <1>8
      <4> QED
        BY <1>2, <1>4, <1>7, <1>9, <4>1, SumsOrdered
    <3>5. S[r] + (K + 2) = S[r + 1]
      <4>1. S[r] + (K + 2) = S[r] + K + 2
        BY <1>7, <1>8, SumsOrdered
      <4> QED
        BY <1>7, <4>1
    <3>4. IsCell(d, r, i, wire[d][i - Length(rec[d])])
      BY <1>1, <1>2, <1>4, <1>7, <3>1, <3>3, <3>5, WireCells
    <3> QED
      BY <3>2, <3>4
  <2>4. i <= Length(rec[d]) \/ Length(rec[d]) < i
    BY <1>2
  <2> QED
    BY <2>2, <2>3, <2>4
<1>11. base + n = S[r] + (Length(rec[d]) + n)
  BY <1>2, <1>4, <1>7, SMTT(30)
<1>12. Next1(d)' = r
  BY <1>0 DEF Next1
<1>13. Fetching(d, r, S, base + n)'
  <2>1. /\ buf'[d] = <<>> /\ ahead'[d] = <<>> /\ acc'[d] = <<>> /\ openCtr'[d] = r - 2
    BY <1>0 DEF Fetching
  <2>2. r <= Length(sent'[d]) /\ Length(rec'[d]) <= Size(d, r)' + 2
    <3>1. Size(d, r)' = K
      BY DEF Size, K
    <3>2. r <= Length(sent[d])
      BY <1>1, <1>2
    <3> QED
      BY <1>9, <3>1, <3>2
  <2>3. \A i \in 1 .. Length(rec'[d]) : IsCell(d, r, i, rec[d][i])'
    <3>1. SUFFICES ASSUME NEW i \in 1 .. Length(rec'[d])
                   PROVE  IsCell(d, r, i, rec[d][i])'
      OBVIOUS
    <3>2. IsCell(d, r, i, rec'[d][i])
      BY <1>9, <1>10, <3>1
    <3> QED
      BY <3>2, CellsKept
  <2>4. r # 1 /\ base + n = S[r] + Length(rec'[d])
    BY <1>1, <1>9, <1>11
  <2> QED
    BY <2>1, <2>2, <2>3, <2>4 DEF Fetching
<1>14. Length(rec'[d]) > 0 /\ rec'[d][1] = [len |-> K + 1]
  <2>1. 1 \in 1 .. Length(rec[d]) + n
    BY <1>2, <1>4
  <2>2. IsCell(d, r, 1, rec'[d][1])
    BY <1>10, <2>1
  <2>3. Length(rec'[d]) > 0
    BY <1>2, <1>4, <1>9
  <2>4. r # 1
    BY <1>1
  <2> QED
    BY <2>2, <2>3, <2>4 DEF IsCell, K
<1> QED
  BY <1>0, <1>1, <1>4, <1>5, <1>12, <1>13, <1>14 DEF Joined, Reader, K

\* A whole record was sealed under the counter it is opened with: it opens, and it
\* holds its message.
LEMMA RecordOpens ==
    ASSUME Typed, NEW d \in Ways, NEW S \in Layouts, NEW base \in Nat,
           ReadInv(d), Joined(d, S, base), rec[d] # <<>>, RecordWanted(rec[d]) = 0
    PROVE  /\ Next1(d) \in 1 .. Length(sent[d])
           /\ openCtr[d] = Next1(d) - 2
           /\ Fetching(d, Next1(d), S, base)
           /\ Length(rec[d]) = Size(d, Next1(d)) + 2
           /\ Authentic(rec[d], openCtr[d])
           /\ \A i \in 1 .. Length(rec[d]) - 2 : rec[d][i + 1].plain = <<Next1(d), i>>
<1>0. PICK r \in Nat : r = Next1(d)
  BY TypesAt
<1>1. r \in 1 .. Length(sent[d]) /\ r # 1 /\ Fetching(d, r, S, base)
  <2>1. r \in 1 .. Length(sent[d])
    BY <1>0, NextIsSent
  <2>2. Fetching(d, r, S, base)
    BY <1>0 DEF Joined, Reader, InClear, Opened
  <2> QED
    BY <2>1, <2>2 DEF Fetching
<1>2. PICK K \in Nat : K = Size(d, r)
  BY <1>1, TypesAt
<1>3. Length(rec[d]) \in Nat /\ Length(rec[d]) >= 1
  BY TypesAt
<1>4. \A i \in 1 .. Length(rec[d]) : IsCell(d, r, i, rec[d][i])
  BY <1>1 DEF Fetching
<1>5. Length(rec[d]) = K + 2
  <2>1. 1 \in 1 .. Length(rec[d])
    BY <1>3
  <2>2. rec[d][1] = [len |-> K + 1]
    BY <1>1, <1>2, <1>4, <2>1 DEF IsCell
  <2>3. rec[d][1].len = K + 1
    BY <2>2
  <2>4. K + 1 + 1 - Length(rec[d]) = 0
    BY <2>3 DEF RecordWanted, Length
  <2> QED
    BY <1>3, <2>4
<1>6. openCtr[d] = r - 2
  BY <1>1 DEF Fetching
<1>7. Authentic(rec[d], openCtr[d])
  <2>1. SUFFICES ASSUME NEW i \in 2 .. Length(rec[d])
                 PROVE  rec[d][i].ctr = r - 2 /\ rec[d][i].of = K
    <3>1. Length(rec[d]) - 2 = K
      BY <1>5
    <3>2. Len(rec[d]) = Length(rec[d])
      BY DEF Length
    <3> QED
      BY <1>6, <3>1, <3>2 DEF Authentic
  <2>2. i \in 1 .. Length(rec[d]) /\ (i < K + 2 \/ i = K + 2) /\ 1 < i
    BY <1>3, <1>5
  <2>3. CASE i < K + 2
    <3>1. rec[d][i] = [ctr |-> r - 2, of |-> K, plain |-> <<r, i - 1>>]
      BY <1>1, <1>2, <1>4, <2>2, <2>3 DEF IsCell
    <3> QED
      BY <3>1
  <2>4. CASE i = K + 2
    <3>1. rec[d][i] = [ctr |-> r - 2, of |-> K]
      BY <1>1, <1>2, <1>4, <2>2, <2>4 DEF IsCell
    <3> QED
      BY <3>1
  <2> QED
    BY <2>2, <2>3, <2>4
<1>8. \A i \in 1 .. Length(rec[d]) - 2 : rec[d][i + 1].plain = <<r, i>>
  <2>1. SUFFICES ASSUME NEW i \in 1 .. Length(rec[d]) - 2
                 PROVE  rec[d][i + 1].plain = <<r, i>>
    OBVIOUS
  <2>2. /\ i + 1 \in 1 .. Length(rec[d]) /\ 1 < i + 1 /\ i + 1 < K + 2
        /\ (i + 1) - 1 = i
    BY <1>5
  <2>3. rec[d][i + 1] = [ctr |-> r - 2, of |-> K, plain |-> <<r, (i + 1) - 1>>]
    BY <1>1, <1>2, <1>4, <2>2 DEF IsCell
  <2> QED
    BY <2>2, <2>3
<1> QED
  BY <1>0, <1>1, <1>2, <1>5, <1>6, <1>7, <1>8

LEMMA OpenedJoined ==
    ASSUME Typed, NEW d \in Ways, NEW S \in Layouts, NEW base \in Nat,
           ReadInv(d), Joined(d, S, base), rec[d] # <<>>, RecordWanted(rec[d]) = 0,
           openCtr'[d] = openCtr[d] + 1, rec'[d] = <<>>,
           buf'[d] = [i \in 1 .. Len(rec[d]) - 2 |-> rec[d][i + 1].plain],
           sent'[d] = sent[d], out'[d] = out[d], wire'[d] = wire[d],
           acc'[d] = acc[d], ahead'[d] = ahead[d],
           received'[d] = received[d], WriterThere(d)' => WriterThere(d)
    PROVE  Joined(d, S, base)' /\ buf'[d] \in Seq(Cell)
<1>0. PICK r \in Nat : r = Next1(d)
  BY TypesAt
<1>1. /\ r \in 1 .. Length(sent[d]) /\ r # 1
      /\ openCtr[d] = r - 2 /\ Fetching(d, r, S, base)
      /\ Length(rec[d]) = Size(d, r) + 2
      /\ \A i \in 1 .. Length(rec[d]) - 2 : rec[d][i + 1].plain = <<r, i>>
  BY <1>0, RecordOpens DEF Fetching
<1>2. PICK K \in Nat : K = Size(d, r)
  BY <1>1, TypesAt
<1>3. /\ buf'[d] \in Seq(Cell) /\ Length(buf'[d]) = K
      /\ \A i \in 1 .. K : buf'[d][i] = <<r, i>>
  <2>1. Len(rec[d]) - 2 = K /\ Length(rec[d]) - 2 = K
    BY <1>1, <1>2 DEF Length
  <2>2. buf'[d] = [i \in 1 .. K |-> rec[d][i + 1].plain]
    BY <2>1
  <2>3. \A i \in 1 .. K : rec[d][i + 1].plain = <<r, i>>
    BY <1>1, <2>1
  <2>4. \A i \in 1 .. K : rec[d][i + 1].plain \in Cell
    <3>1. \A i \in 1 .. K : <<r, i>> \in Cell
      BY DEF Cell, Plain
    <3> QED
      BY <2>3, <3>1
  <2>5. [i \in 1 .. K |-> rec[d][i + 1].plain] \in Seq(Cell)
    BY <2>4, IsASeq
  <2>6. buf'[d] \in Seq(Cell)
    BY <2>2, <2>5
  <2>7. Length(buf'[d]) = K
    <3>1. DOMAIN buf'[d] = 1 .. Length(buf'[d]) /\ Length(buf'[d]) \in Nat
      BY <2>6, LenProperties DEF Length
    <3>2. DOMAIN buf'[d] = 1 .. K
      BY <2>2
    <3>3. 1 .. Length(buf'[d]) = 1 .. K
      BY <3>1, <3>2
    <3> QED
      BY <3>1, <3>3
  <2> QED
    BY <2>2, <2>3, <2>6, <2>7
<1>4. Stream(d, S, base)'
  <2>1. Laid(d, S)'
    BY DEF Joined, Stream, Laid, Size
  <2>2. OnWire(d, S, base)'
    BY CellsKept DEF Joined, Stream, OnWire
  <2>3. InOut(d, S, base)'
    BY CellsKept DEF Joined, Stream, InOut
  <2> QED
    BY <2>1, <2>2, <2>3 DEF Joined, Stream
<1>5. Opened(d, r, S, base)'
  <2>1. r # 1 /\ r <= Length(sent'[d]) /\ rec'[d] = <<>>
    BY <1>1, TypesAt
  <2>2. openCtr'[d] = r - 1
    BY <1>1
  <2>3. base = S[r + 1]
    <3>1. base = S[r] + (K + 2)
      BY <1>1, <1>2 DEF Fetching
    <3>2. S[r + 1] = S[r] + K + 2
      BY <1>1, <1>2 DEF Joined, Stream, Laid
    <3>3. PICK x \in Nat : x = S[r]
      BY DEF Layouts
    <3>4. x + (K + 2) = x + K + 2
      BY <1>1
    <3> QED
      BY <3>1, <3>2, <3>3, <3>4
  <2>4. /\ acc'[d] = <<>> /\ ahead'[d] = <<>>
        /\ Length(acc'[d]) = 0 /\ Length(ahead'[d]) = 0
    <3>1. acc'[d] = <<>> /\ ahead'[d] = <<>>
      BY <1>1 DEF Fetching
    <3> QED
      BY <3>1 DEF Length
  <2>5. Length(acc'[d]) + Length(ahead'[d]) + Length(buf'[d]) = Size(d, r)'
    <3>1. Size(d, r)' = K
      BY <1>2 DEF Size
    <3> QED
      BY <1>3, <2>4, <3>1
  <2>6. \A i \in 1 .. Length(buf'[d]) :
            buf'[d][i] = <<r, Length(acc'[d]) + Length(ahead'[d]) + i>>
    <3>1. SUFFICES ASSUME NEW i \in 1 .. K
                   PROVE  buf'[d][i] = <<r, Length(acc'[d]) + Length(ahead'[d]) + i>>
      BY <1>3
    <3>2. 0 + 0 + i = i
      OBVIOUS
    <3>3. buf'[d][i] = <<r, i>>
      BY <1>3
    <3> QED
      BY <2>4, <3>2, <3>3
  <2>7. /\ \A i \in 1 .. Length(acc'[d]) : acc'[d][i] = <<r, i>>
        /\ \A i \in 1 .. Length(ahead'[d]) : ahead'[d][i] = <<r, Length(acc'[d]) + i>>
    BY <2>4
  <2> QED
    BY <2>1, <2>2, <2>3, <2>5, <2>6, <2>7 DEF Opened
<1>6. Next1(d)' = r
  BY <1>0 DEF Next1
<1> QED
  BY <1>3, <1>4, <1>5, <1>6 DEF Joined, Reader

\* A BufReader hands on what it holds in order, and drops nothing.
LEMMA BufferedRead ==
    ASSUME Typed, NEW d \in Ways, NEW S \in Layouts, NEW base \in Nat,
           ReadInv(d), Joined(d, S, base), Bounded(d), ~Whole(d), ~TooLong(d),
           TakeAhead(d) \/ PassBy(d) \/ Fill(d),
           sent'[d] = sent[d], out'[d] = out[d], wire'[d] = wire[d],
           openCtr'[d] = openCtr[d], rec'[d] = rec[d],
           received'[d] = received[d], WriterThere(d)' => WriterThere(d)
    PROVE  /\ Joined(d, S, base)'
           /\ acc'[d] \in Seq(Cell) /\ ahead'[d] \in Seq(Cell) /\ buf'[d] \in Seq(Cell)
           /\ Length(ahead'[d]) <= BufLen
<1>0. PICK r \in Nat : r = Next1(d)
  BY TypesAt
<1>1. r \in 1 .. Length(sent[d]) /\ Opened(d, r, S, base)
  <2>1. ahead[d] # <<>> \/ buf[d] # <<>>
    BY DEF TakeAhead, PassBy, Fill
  <2>2. Opened(d, r, S, base)
    BY <1>0, <2>1 DEF Joined, Reader, InClear, Fetching
  <2> QED
    BY <1>0, <2>1, <2>2, NextIsSent
<1>2. PICK K \in Nat : K = Size(d, r)
  BY <1>1, TypesAt
<1>3. /\ acc[d] \in Seq(Cell) /\ ahead[d] \in Seq(Cell) /\ buf[d] \in Seq(Cell)
      /\ (ahead[d] = <<>> => Length(ahead[d]) = 0)
      /\ Length(ahead[d]) <= BufLen
  BY TypesAt DEF Bounded, Length
<1>4. PICK a \in Nat, h \in Nat, b \in Nat :
          a = Length(acc[d]) /\ h = Length(ahead[d]) /\ b = Length(buf[d])
  BY TypesAt
<1>5. /\ a + h + b = K
      /\ \A i \in 1 .. a : acc[d][i] = <<r, i>>
      /\ \A i \in 1 .. h : ahead[d][i] = <<r, a + i>>
      /\ \A i \in 1 .. b : buf[d][i] = <<r, a + h + i>>
  BY <1>1, <1>2, <1>4 DEF Opened
<1>6. Wanted(d) \in Nat /\ Wanted(d) > 0 /\ a + Wanted(d) <= K
  <2>1. Next1(d) <= Length(sent[d])
    BY <1>0, <1>1, TypesAt
  <2>2. Reader(d, Next1(d), S, base)
    BY DEF Joined
  <2> QED
    BY <1>0, <1>2, <1>4, <2>1, <2>2, WantedIs
<1> DEFINE Goal == /\ Joined(d, S, base)'
                   /\ acc'[d] \in Seq(Cell) /\ ahead'[d] \in Seq(Cell)
                   /\ buf'[d] \in Seq(Cell) /\ Length(ahead'[d]) <= BufLen
           Shape(x, y, z) ==
               /\ acc'[d] \in Seq(Cell) /\ ahead'[d] \in Seq(Cell) /\ buf'[d] \in Seq(Cell)
               /\ x = Length(acc'[d]) /\ y = Length(ahead'[d]) /\ z = Length(buf'[d])
               /\ x + y + z = K /\ y <= BufLen
               /\ \A i \in 1 .. x : acc'[d][i] = <<r, i>>
               /\ \A i \in 1 .. y : ahead'[d][i] = <<r, x + i>>
               /\ \A i \in 1 .. z : buf'[d][i] = <<r, x + y + i>>
<1>7. ASSUME NEW x \in Nat, NEW y \in Nat, NEW z \in Nat, Shape(x, y, z)
      PROVE  Goal
  <2>1. /\ acc'[d] \in Seq(Cell) /\ ahead'[d] \in Seq(Cell) /\ buf'[d] \in Seq(Cell)
        /\ x = Length(acc'[d]) /\ y = Length(ahead'[d]) /\ z = Length(buf'[d])
        /\ x + y + z = K /\ y <= BufLen
        /\ \A i \in 1 .. x : acc'[d][i] = <<r, i>>
        /\ \A i \in 1 .. y : ahead'[d][i] = <<r, x + i>>
        /\ \A i \in 1 .. z : buf'[d][i] = <<r, x + y + i>>
    BY <1>7
  <2>2. Stream(d, S, base)'
    <3>1. Laid(d, S)'
      BY DEF Joined, Stream, Laid, Size
    <3>2. OnWire(d, S, base)'
      BY CellsKept DEF Joined, Stream, OnWire
    <3>3. InOut(d, S, base)'
      BY CellsKept DEF Joined, Stream, InOut
    <3> QED
      BY <3>1, <3>2, <3>3 DEF Joined, Stream
  <2>3. Opened(d, r, S, base)'
    <3>1. /\ r # 1 /\ r <= Length(sent'[d]) /\ rec'[d] = <<>> /\ openCtr'[d] = r - 1
          /\ base = S[r + 1]
      BY <1>1 DEF Opened
    <3>2. Size(d, r)' = K
      BY <1>2 DEF Size
    <3> QED
      BY <2>1, <3>1, <3>2 DEF Opened
  <2>4. Next1(d)' = r
    BY <1>0 DEF Next1
  <2> QED
    BY <2>1, <2>2, <2>3, <2>4 DEF Joined, Reader
<1> HIDE DEF Goal, Shape
<1>8. CASE TakeAhead(d)
  <2>1. PICK n : n = Min(Wanted(d), h)
    OBVIOUS
  <2>2. /\ acc'[d] = acc[d] \o Front(ahead[d], n) /\ ahead'[d] = Rest(ahead[d], n)
        /\ buf'[d] = buf[d]
    BY <1>4, <1>8, <2>1 DEF TakeAhead, Typed, Length
  <2>3. n \in Nat /\ n <= h
    BY <1>6, <2>1, MinIs
  <2>4. Takes(acc'[d], acc[d], ahead[d], n)
    BY <1>3, <1>4, <2>2, <2>3, TakenIs
  <2>5. /\ ahead'[d] \in Seq(Cell) /\ Length(ahead'[d]) = h - n
        /\ \A i \in 1 .. h - n : ahead'[d][i] = ahead[d][n + i]
    <3>1. /\ Rest(ahead[d], n) \in Seq(Cell) /\ Length(Rest(ahead[d], n)) = h - n
          /\ \A i \in 1 .. h - n : Rest(ahead[d], n)[i] = ahead[d][n + i]
      <4>1. ahead[d] \in Seq(Cell) /\ n \in Nat /\ n <= Length(ahead[d])
        BY <1>3, <1>4, <2>3
      <4>2. /\ Rest(ahead[d], n) \in Seq(Cell)
            /\ Length(Rest(ahead[d], n)) = Length(ahead[d]) - n
            /\ \A i \in 1 .. Length(ahead[d]) - n : Rest(ahead[d], n)[i] = ahead[d][n + i]
        BY <4>1, RestIs
      <4> QED
        BY <1>4, <4>2
    <3> QED
      BY <2>2, <3>1
  <2>13. h <= BufLen /\ BufLen \in Nat /\ a + h + b = K
    BY <1>3, <1>4, <1>5, Naturals_
  <2>6. /\ a + n \in Nat /\ h - n \in Nat /\ (a + n) + (h - n) + b = K
        /\ h - n <= BufLen
    BY <2>3, <2>13
  <2>7. \A i \in 1 .. a + n : acc'[d][i] = <<r, i>>
    <3>1. SUFFICES ASSUME NEW i \in 1 .. a + n
                   PROVE  acc'[d][i] = <<r, i>>
      OBVIOUS
    <3>2. CASE i \in 1 .. a
      BY <1>4, <1>5, <2>4, <3>2 DEF Takes
    <3>3. CASE i \in a + 1 .. a + n
      <4>1. i - a \in 1 .. h /\ a + (i - a) = i
        BY <2>3, <3>3
      <4>2. acc'[d][i] = ahead[d][i - a]
        BY <1>4, <2>4, <3>3 DEF Takes
      <4> QED
        BY <1>5, <4>1, <4>2
    <3>4. i \in 1 .. a \/ i \in a + 1 .. a + n
      BY <2>3
    <3> QED
      BY <3>2, <3>3, <3>4
  <2>8. \A i \in 1 .. h - n : ahead'[d][i] = <<r, (a + n) + i>>
    <3>1. SUFFICES ASSUME NEW i \in 1 .. h - n
                   PROVE  ahead'[d][i] = <<r, (a + n) + i>>
      OBVIOUS
    <3>2. n + i \in 1 .. h /\ a + (n + i) = (a + n) + i
      BY <2>3
    <3> QED
      BY <1>5, <2>5, <3>2
  <2>9. \A i \in 1 .. b : buf'[d][i] = <<r, (a + n) + (h - n) + i>>
    <3>1. \A i \in 1 .. b : (a + n) + (h - n) + i = a + h + i
      BY <2>3
    <3> QED
      BY <1>5, <2>2, <3>1
  <2>10. acc'[d] \in Seq(Cell) /\ Length(acc'[d]) = a + n
    BY <1>4, <2>4 DEF Takes
  <2>11. buf'[d] \in Seq(Cell) /\ Length(buf'[d]) = b
    BY <1>3, <1>4, <2>2
  <2>12. Shape(a + n, h - n, b)
    BY <2>5, <2>6, <2>7, <2>8, <2>9, <2>10, <2>11 DEF Shape
  <2>14. Goal
    BY <1>7, <2>6, <2>12, Zenon
  <2> QED
    BY <2>14 DEF Goal
<1>9. CASE PassBy(d)
  <2>1. PICK n : n = Min(Wanted(d), b)
    OBVIOUS
  <2>2. /\ acc'[d] = acc[d] \o Front(buf[d], n) /\ buf'[d] = Rest(buf[d], n)
        /\ ahead'[d] = ahead[d]
    BY <1>4, <1>9, <2>1 DEF PassBy, Typed, Length
  <2>3. n \in Nat /\ n <= b /\ h = 0
    BY <1>3, <1>4, <1>6, <1>9, <2>1, MinIs DEF PassBy
  <2>4. Takes(acc'[d], acc[d], buf[d], n)
    BY <1>3, <1>4, <2>2, <2>3, TakenIs
  <2>5. /\ buf'[d] \in Seq(Cell) /\ Length(buf'[d]) = b - n
        /\ \A i \in 1 .. b - n : buf'[d][i] = buf[d][n + i]
    <3>1. Leaves(buf'[d], buf[d], n)
      BY <1>3, <1>4, <2>2, <2>3, LeftIs
    <3> QED
      BY <1>4, <3>1 DEF Leaves
  <2>6. /\ a + n \in Nat /\ b - n \in Nat /\ (a + n) + 0 + (b - n) = K
        /\ 0 <= BufLen
    BY <1>5, <2>3, Naturals_
  <2>7. \A i \in 1 .. a + n : acc'[d][i] = <<r, i>>
    <3>1. SUFFICES ASSUME NEW i \in 1 .. a + n
                   PROVE  acc'[d][i] = <<r, i>>
      OBVIOUS
    <3>2. CASE i \in 1 .. a
      BY <1>4, <1>5, <2>4, <3>2 DEF Takes
    <3>3. CASE i \in a + 1 .. a + n
      <4>1. i - a \in 1 .. b /\ a + h + (i - a) = i
        BY <2>3, <3>3
      <4>2. acc'[d][i] = buf[d][i - a]
        BY <1>4, <2>4, <3>3 DEF Takes
      <4> QED
        BY <1>5, <4>1, <4>2
    <3>4. i \in 1 .. a \/ i \in a + 1 .. a + n
      BY <2>3
    <3> QED
      BY <3>2, <3>3, <3>4
  <2>8. \A i \in 1 .. b - n : buf'[d][i] = <<r, (a + n) + 0 + i>>
    <3>1. SUFFICES ASSUME NEW i \in 1 .. b - n
                   PROVE  buf'[d][i] = <<r, (a + n) + 0 + i>>
      OBVIOUS
    <3>2. n + i \in 1 .. b /\ a + h + (n + i) = (a + n) + 0 + i
      BY <2>3
    <3> QED
      BY <1>5, <2>5, <3>2
  <2>9. ahead'[d] \in Seq(Cell) /\ Length(ahead'[d]) = 0
    BY <1>3, <1>4, <2>2, <2>3
  <2>10. acc'[d] \in Seq(Cell) /\ Length(acc'[d]) = a + n
    BY <1>4, <2>4 DEF Takes
  <2>11. \A i \in 1 .. 0 : ahead'[d][i] = <<r, (a + n) + i>>
    OBVIOUS
  <2>12. 0 \in Nat
    OBVIOUS
  <2>13. Shape(a + n, 0, b - n)
    BY <2>5, <2>6, <2>7, <2>8, <2>9, <2>10, <2>11 DEF Shape
  <2>14. Goal
    BY <1>7, <2>6, <2>12, <2>13, Zenon
  <2> QED
    BY <2>14 DEF Goal
<1>10. CASE Fill(d)
  <2>1. PICK n : n = Min(BufLen, b)
    OBVIOUS
  <2>2. /\ ahead'[d] = Front(buf[d], n) /\ buf'[d] = Rest(buf[d], n)
        /\ acc'[d] = acc[d]
    BY <1>4, <1>10, <2>1 DEF Fill, Typed, Length
  <2>3. n \in Nat /\ n <= b /\ n <= BufLen /\ h = 0
    BY <1>3, <1>4, <1>10, <2>1, MinIs, Naturals_ DEF Fill
  <2>4. /\ ahead'[d] \in Seq(Cell) /\ Length(ahead'[d]) = n
        /\ \A i \in 1 .. n : ahead'[d][i] = buf[d][i]
    <3>1. /\ Front(buf[d], n) \in Seq(Cell) /\ Length(Front(buf[d], n)) = n
          /\ \A i \in 1 .. n : Front(buf[d], n)[i] = buf[d][i]
      BY <1>3, <1>4, <2>3, FrontIs
    <3> QED
      BY <2>2, <3>1
  <2>5. /\ buf'[d] \in Seq(Cell) /\ Length(buf'[d]) = b - n
        /\ \A i \in 1 .. b - n : buf'[d][i] = buf[d][n + i]
    <3>1. Leaves(buf'[d], buf[d], n)
      BY <1>3, <1>4, <2>2, <2>3, LeftIs
    <3> QED
      BY <1>4, <3>1 DEF Leaves
  <2>6. b - n \in Nat /\ a + n + (b - n) = K
    BY <1>5, <2>3
  <2>7. \A i \in 1 .. n : ahead'[d][i] = <<r, a + i>>
    <3>1. \A i \in 1 .. n : i \in 1 .. b /\ a + h + i = a + i
      BY <2>3
    <3> QED
      BY <1>5, <2>4, <3>1
  <2>8. \A i \in 1 .. b - n : buf'[d][i] = <<r, a + n + i>>
    <3>1. \A i \in 1 .. b - n : n + i \in 1 .. b /\ a + h + (n + i) = a + n + i
      BY <2>3
    <3> QED
      BY <1>5, <2>5, <3>1
  <2>9. \A i \in 1 .. a : acc'[d][i] = <<r, i>>
    BY <1>5, <2>2
  <2>10. acc'[d] \in Seq(Cell) /\ Length(acc'[d]) = a
    BY <1>3, <1>4, <2>2
  <2>11. Shape(a, n, b - n)
    BY <2>3, <2>4, <2>5, <2>6, <2>7, <2>8, <2>9, <2>10 DEF Shape
  <2>14. Goal
    BY <1>7, <2>3, <2>6, <2>11, Zenon
  <2> QED
    BY <2>14 DEF Goal
<1> QED
  BY <1>8, <1>9, <1>10 DEF Goal

\* read_msg returns the message that comes next, as it was written.
LEMMA WholeIs ==
    ASSUME Typed, NEW d \in Ways, NEW S \in Layouts, NEW base \in Nat,
           Written(d), ReadInv(d), Joined(d, S, base), Whole(d)
    PROVE  /\ Next1(d) \in 1 .. Length(sent[d])
           /\ Got(d) = sent[d][Next1(d)]
           /\ Got(d).len <= MsgLimit
           /\ Length(acc[d]) = Size(d, Next1(d))
           /\ acc[d] # <<>>
<1>0. PICK r \in Nat : r = Next1(d)
  BY TypesAt
<1>1. /\ Length(acc[d]) \in Nat /\ (acc[d] = <<>> <=> Length(acc[d]) = 0)
      /\ acc[d] \in Seq(Cell)
  BY TypesAt
<1>2. acc[d] # <<>>
  <2>1. Length(acc[d]) >= HeaderLen
    BY DEF Whole, HasHeader, Length
  <2> QED
    BY <1>1, <2>1, Naturals_
<1>3. /\ r \in 1 .. Length(sent[d]) /\ Current(d) = sent[d][r]
      /\ Length(acc[d]) <= Size(d, r)
      /\ \A i \in 1 .. Length(acc[d]) : acc[d][i] = <<r, i>>
  <2>1. Reader(d, Next1(d), S, base)
    BY DEF Joined
  <2> QED
    BY <1>0, <1>2, <2>1, CurrentIs
<1>4. sent[d][r] \in Msg /\ Size(d, r) \in Nat /\ sent[d][r].len \in Nat
  BY <1>3, TypesAt
<1>5. sent[d][r].n = r
  BY <1>3 DEF Written, Length
<1>6. sent[d][r].len <= MsgLimit
  <2>1. ~(sent[d][r].len > MsgLimit)
    BY <1>3 DEF Whole, TooLong
  <2> QED
    BY <1>4, <2>1, Naturals_
<1>7. Length(acc[d]) = Size(d, r)
  <2>1. Wanted(d) = Size(d, r) - Length(acc[d])
    BY <1>3 DEF Whole, Wanted, Size, Length
  <2>2. Wanted(d) = 0
    BY DEF Whole
  <2> QED
    BY <1>1, <1>4, <2>1, <2>2
<1>8. acc[d] = Cells(sent[d][r])
  <2> DEFINE c == Cells(sent[d][r])
  <2>1. /\ c \in Seq(Cell) /\ Length(c) = Size(d, r)
        /\ \A i \in 1 .. Size(d, r) : c[i] = <<r, i>>
    BY <1>4, <1>5, CellsAre DEF Size
  <2> HIDE DEF c
  <2>2. Length(acc[d]) = Length(c) /\ \A i \in 1 .. Length(acc[d]) : acc[d][i] = c[i]
    BY <1>3, <1>7, <2>1
  <2>3. acc[d] = c
    BY <1>1, <2>1, <2>2, SeqEqual DEF Length
  <2> QED
    BY <2>3 DEF c
<1>9. Got(d) = sent[d][r]
  BY <1>3, <1>8 DEF Got
<1> QED
  BY <1>0, <1>2, <1>3, <1>6, <1>7, <1>9

\* A message that has been read is one more of those written, and the reader is
\* before the next.
LEMMA DeliveredJoined ==
    ASSUME Typed, NEW d \in Ways, NEW S \in Layouts, NEW base \in Nat,
           Written(d), ReadInv(d), Joined(d, S, base), Whole(d),
           received'[d] = Append(received[d], Got(d)), acc'[d] = <<>>,
           sent'[d] = sent[d], out'[d] = out[d], wire'[d] = wire[d],
           openCtr'[d] = openCtr[d], rec'[d] = rec[d], buf'[d] = buf[d],
           ahead'[d] = ahead[d], WriterThere(d)' => WriterThere(d),
           end'[d] \in {end[d], "bye"}, end[d] = "open"
    PROVE  /\ Joined(d, S, base)' /\ ReadInv(d)'
           /\ received'[d] \in Seq(Msg) /\ Length(received'[d]) = Length(received[d]) + 1
           /\ ahead[d] = <<>>
<1>0. PICK r \in Nat : r = Next1(d)
  BY TypesAt
<1>1. /\ r \in 1 .. Length(sent[d]) /\ Got(d) = sent[d][r] /\ Got(d).len <= MsgLimit
      /\ Length(acc[d]) = Size(d, r) /\ acc[d] # <<>>
  BY <1>0, WholeIs
<1>2. PICK K \in Nat : K = Size(d, r)
  BY <1>1, TypesAt
<1>3. /\ received[d] \in Seq(Msg) /\ Got(d) \in Msg /\ Length(received[d]) \in Nat
      /\ r = Length(received[d]) + 1
  BY <1>0, <1>1, TypesAt DEF Next1
<1>4. /\ received'[d] \in Seq(Msg) /\ Length(received'[d]) = r
      /\ \A k \in 1 .. Length(received[d]) : received'[d][k] = received[d][k]
      /\ received'[d][r] = Got(d)
  BY <1>3, AppendProperties DEF Length
<1>5. Next1(d)' = r + 1
  BY <1>4 DEF Next1
<1>6. Stream(d, S, base)'
  <2>1. Laid(d, S)'
    BY DEF Joined, Stream, Laid, Size
  <2>2. OnWire(d, S, base)'
    BY CellsKept DEF Joined, Stream, OnWire
  <2>3. InOut(d, S, base)'
    BY CellsKept DEF Joined, Stream, InOut
  <2> QED
    BY <2>1, <2>2, <2>3 DEF Joined, Stream
<1>7. /\ rec[d] = <<>> /\ buf[d] = <<>> /\ ahead[d] = <<>>
      /\ openCtr[d] = r - 1 /\ base = S[r + 1]
  <2>1. CASE InClear(d, r, S, base)
    <3>1. r = 1 /\ base = S[r] + K
      BY <1>1, <1>2, <2>1 DEF InClear
    <3>2. S[r + 1] = S[r] + K
      BY <1>1, <1>2, <3>1 DEF Joined, Stream, Laid
    <3> QED
      BY <2>1, <3>1, <3>2 DEF InClear
  <2>2. CASE Opened(d, r, S, base)
    <3>1. PICK a \in Nat, h \in Nat, b \in Nat :
              a = Length(acc[d]) /\ h = Length(ahead[d]) /\ b = Length(buf[d])
      BY TypesAt
    <3>2. a + h + b = K /\ a = K
      BY <1>1, <1>2, <2>2, <3>1 DEF Opened
    <3>3. h = 0 /\ b = 0
      BY <3>2
    <3>4. ahead[d] = <<>> /\ buf[d] = <<>>
      BY <3>1, <3>3, TypesAt
    <3> QED
      BY <2>2, <3>4 DEF Opened
  <2> QED
    BY <1>0, <1>1, <2>1, <2>2 DEF Joined, Reader, Fetching
<1>8. Fetching(d, r + 1, S, base)'
  <2>1. r + 1 # 1 /\ (r + 1) - 2 = r - 1
    BY <1>1
  <2>2. Length(rec'[d]) = 0
    BY <1>7 DEF Length
  <2>3. S[r + 1] \in Nat
    BY SMTT(30) DEF Layouts
  <2>4. base = S[r + 1] + Length(rec'[d])
    BY <1>7, <2>2, <2>3
  <2>5. \A i \in 1 .. Length(rec'[d]) : IsCell(d, r + 1, i, rec[d][i])'
    BY <2>2
  <2> QED
    BY <1>7, <2>1, <2>4, <2>5 DEF Fetching
<1>9. ReadInv(d)'
  <2>1. Length(received'[d]) <= Length(sent'[d])
    BY <1>1, <1>4, TypesAt
  <2>2. \A k \in 1 .. Length(received'[d]) :
            received'[d][k] = sent'[d][k] /\ sent'[d][k].len <= MsgLimit
    <3>1. SUFFICES ASSUME NEW k \in 1 .. r
                   PROVE  received'[d][k] = sent[d][k] /\ sent[d][k].len <= MsgLimit
      BY <1>4
    <3>2. CASE k = r
      BY <1>1, <1>4, <3>2
    <3>3. CASE k # r
      <4>1. k \in 1 .. Length(received[d])
        BY <1>3, <3>3
      <4> QED
        BY <1>4, <4>1 DEF ReadInv
    <3> QED
      BY <3>2, <3>3
  <2>3. end'[d] \in {"open", "bye"}
    OBVIOUS
  <2> QED
    BY <2>1, <2>2, <2>3 DEF ReadInv
<1> QED
  BY <1>3, <1>4, <1>5, <1>6, <1>7, <1>8, <1>9 DEF Joined, Reader

--------------------------------------------------------------------------------
(* The steps.                                                                    *)

Post(d) == Bounded(d) /\ Written(d) /\ ReadInv(d) /\ Link(d)

\* No end comes back.
Onward == /\ hostAt' # "ended" => hostAt # "ended"
          /\ clientAt' # "ended" => clientAt # "ended"

SameWriter(d) == sent'[d] = sent[d] /\ out'[d] = out[d] /\ sealCtr'[d] = sealCtr[d]
SameReader(d) == /\ openCtr'[d] = openCtr[d] /\ rec'[d] = rec[d] /\ buf'[d] = buf[d]
                 /\ ahead'[d] = ahead[d] /\ acc'[d] = acc[d]
                 /\ received'[d] = received[d]

LEMMA OnwardThere ==
    ASSUME Onward, NEW d \in Ways
    PROVE  /\ WriterThere(d)' => WriterThere(d)
           /\ end[d] = "open" /\ ReaderThere(d)' => ReaderThere(d)
BY DEF Onward, WriterThere, ReaderThere

\* A step on the other direction leaves this one as it is.
LEMMA Untouched ==
    ASSUME Onward, NEW d \in Ways, Post(d),
           SameWriter(d), SameReader(d), wire'[d] = wire[d], end'[d] = end[d]
    PROVE  Post(d)'
<1>1. Bounded(d)' /\ Written(d)' /\ ReadInv(d)'
  BY DEF Post, Bounded, Written, ReadInv, SameWriter, SameReader
<1>2. ReaderThere(d)' => ReaderThere(d)
  BY OnwardThere DEF ReaderThere
<1>3. Link(d)'
  BY <1>2, OnwardThere, KeptLink DEF Post, SameWriter, SameReader
<1> QED
  BY <1>1, <1>3 DEF Post

\* Who reads is there, and where an end reads.
LEMMA MayReadIs ==
    ASSUME NEW d \in Ways, MayRead(d)
    PROVE  /\ ReaderThere(d) /\ end[d] = "open"
           /\ d = Up => hostAt \in {"awaitAck", "awaitReport", "streaming"}
           /\ d = Down => clientAt \in {"hello", "probing", "waiting", "streaming"}
BY DEF MayRead, ReaderThere, Down, Up, Ways

LEMMA TcpTakesStep ==
    ASSUME IInv, NEW d \in Ways, TcpTakes(d)
    PROVE  IInv'
<1>1. /\ Typed /\ PhaseInv /\ \A e \in Ways : Post(e)
      /\ out[d] # <<>> /\ Length(wire[d]) < Window
      /\ UNCHANGED <<hostAt, clientAt, sent, sealCtr, openCtr, reading, rec, buf, ahead,
                     acc, received, end>>
  BY DEF IInv, Post, TcpTakes, readers, Length
<1>2. PICK n : /\ n = Min(Length(out[d]), Window - Length(wire[d]))
               /\ wire' = [wire EXCEPT ![d] = @ \o Front(out[d], n)]
               /\ out' = [out EXCEPT ![d] = Rest(@, n)]
  BY DEF TcpTakes, Length
<1>3. /\ out[d] \in Seq(Cell) /\ wire[d] \in Seq(Cell)
      /\ Length(out[d]) \in Nat /\ Length(wire[d]) \in Nat
      /\ Window \in Nat
  BY <1>1, TypesAt, Naturals_
<1>4. n \in Nat /\ n <= Length(out[d]) /\ Length(wire[d]) + n <= Window
  <2>1. PICK k \in Nat : k = Window - Length(wire[d])
    BY <1>1, <1>3
  <2>2. n \in Nat /\ n <= Length(out[d]) /\ n <= k
    BY <1>2, <1>3, <2>1, MinIs
  <2> QED
    BY <1>3, <2>1, <2>2
<1>5. /\ wire'[d] = wire[d] \o Front(out[d], n) /\ out'[d] = Rest(out[d], n)
      /\ \A e \in Ways : e # d => wire'[e] = wire[e] /\ out'[e] = out[e]
  BY <1>1, <1>2 DEF Typed
<1>6. Takes(wire'[d], wire[d], out[d], n)
  BY <1>3, <1>4, <1>5, TakenIs
<1>7. Rest(out[d], n) \in Seq(Cell)
  BY <1>3, <1>4, RestIs
<1>8. Typed'
  <2>1. wire'[d] \in Seq(Cell)
    BY <1>6 DEF Takes
  <2>2. wire' \in [Ways -> Seq(Cell)] /\ out' \in [Ways -> Seq(Cell)]
    BY <1>1, <1>2, <1>5, <1>7, <2>1 DEF Typed
  <2> QED
    BY <1>1, <2>2 DEF Typed
<1>9. PhaseInv'
  BY <1>1 DEF PhaseInv
<1>10. Onward
  BY <1>1 DEF Onward
<1>11. Post(d)'
  <2>1. Bounded(d)'
    BY <1>1, <1>4, <1>6 DEF Post, Bounded, Takes
  <2>2. Written(d)' /\ ReadInv(d)'
    BY <1>1 DEF Post, Written, ReadInv
  <2>3. Link(d)'
    <3>1. SUFFICES ASSUME ReaderThere(d)
                   PROVE  \E S \in Layouts, base \in Nat : Joined(d, S, base)'
      BY <1>1 DEF Link, ReaderThere, Layouts
    <3>2. PICK S \in Layouts, base \in Nat : Joined(d, S, base)
      BY <1>1, <3>1 DEF Post, Link
    <3>3. Stream(d, S, base)'
      BY <1>1, <1>4, <1>5, <1>10, <3>2, OnwardThere, TakenStream DEF Joined
    <3>4. Reader(d, Next1(d), S, base)'
      <4>1. Next1(d)' = Next1(d)
        BY <1>1 DEF Next1
      <4>2. CASE InClear(d, Next1(d), S, base)
        BY <1>1, <4>1, <4>2 DEF Reader, InClear, Size
      <4>3. CASE Fetching(d, Next1(d), S, base)
        BY <1>1, <4>1, <4>3, CellsKept DEF Reader, Fetching, Size
      <4>4. CASE Opened(d, Next1(d), S, base)
        BY <1>1, <4>1, <4>4 DEF Reader, Opened, Size
      <4> QED
        BY <3>2, <4>2, <4>3, <4>4 DEF Joined, Reader
    <3> QED
      BY <3>3, <3>4 DEF Joined
  <2> QED
    BY <2>1, <2>2, <2>3 DEF Post
<1>12. \A e \in Ways : e # d => Post(e)'
  BY <1>1, <1>5, <1>10, Untouched DEF SameWriter, SameReader
<1> QED
  BY <1>8, <1>9, <1>11, <1>12 DEF IInv, Post

LEMMA ReadPlainStep ==
    ASSUME IInv, NEW d \in Ways, ReadPlain(d)
    PROVE  IInv'
<1>1. /\ Typed /\ PhaseInv /\ \A e \in Ways : Post(e)
      /\ MayRead(d) /\ ~Whole(d) /\ ~TooLong(d) /\ reading[d] = "plain" /\ wire[d] # <<>>
      /\ UNCHANGED <<hostAt, clientAt, sent, out, sealCtr, openCtr, reading, rec, buf,
                     ahead, received, end>>
  BY DEF IInv, Post, ReadPlain, Reading, writers
<1>2. PICK n : /\ n = Min(Wanted(d), Length(wire[d]))
               /\ acc' = [acc EXCEPT ![d] = @ \o Front(wire[d], n)]
               /\ wire' = [wire EXCEPT ![d] = Rest(@, n)]
  BY DEF ReadPlain, Length
<1>3. /\ acc'[d] = acc[d] \o Front(wire[d], n) /\ wire'[d] = Rest(wire[d], n)
      /\ \A e \in Ways : e # d => wire'[e] = wire[e] /\ acc'[e] = acc[e]
  BY <1>1, <1>2 DEF Typed
<1>4. ReaderThere(d)
  BY <1>1, MayReadIs
<1>5. PICK S \in Layouts, base \in Nat : Joined(d, S, base)
  BY <1>1, <1>4 DEF Post, Link
<1>6. Next1(d) = 1
  <2>1. received[d] = <<>>
    BY <1>1, MayReadIs DEF PhaseInv, Ways, Down, Up
  <2> QED
    BY <2>1 DEF Next1, Length
<1>7. Onward
  BY <1>1 DEF Onward
<1>8. Joined(d, S, base + n)'
  <2>1. WriterThere(d)' => WriterThere(d)
    BY <1>7, OnwardThere
  <2> QED
    BY <1>1, <1>2, <1>3, <1>5, <1>6, <2>1, ClearRead DEF Post
<1>9. /\ n \in Nat /\ n <= Length(wire[d])
      /\ acc[d] \in Seq(Cell) /\ wire[d] \in Seq(Cell)
      /\ Length(wire[d]) \in Nat
  <2>1. /\ acc[d] \in Seq(Cell) /\ wire[d] \in Seq(Cell) /\ Length(wire[d]) \in Nat
        /\ Length(sent[d]) \in Nat
    BY <1>1, TypesAt
  <2>2. Wanted(d) \in Nat
    <3>1. 1 \in 1 .. Length(sent[d])
      BY <1>1, <1>5, <1>6, NextIsSent DEF Post
    <3>2. Next1(d) <= Length(sent[d])
      BY <1>6, <2>1, <3>1
    <3> QED
      BY <1>1, <1>5, <3>2, WantedIs DEF Joined
  <2> QED
    BY <1>2, <2>1, <2>2, MinIs
<1>10. Takes(acc'[d], acc[d], wire[d], n)
  BY <1>3, <1>9, TakenIs
<1>11. /\ Rest(wire[d], n) \in Seq(Cell) /\ Length(Rest(wire[d], n)) = Length(wire[d]) - n
  BY <1>9, RestIs
<1>12. Typed'
  <2>1. acc'[d] \in Seq(Cell)
    BY <1>10 DEF Takes
  <2>2. wire' \in [Ways -> Seq(Cell)] /\ acc' \in [Ways -> Seq(Cell)]
    BY <1>1, <1>2, <1>3, <1>11, <2>1 DEF Typed
  <2> QED
    BY <1>1, <2>2 DEF Typed
<1>13. PhaseInv'
  BY <1>1 DEF PhaseInv
<1>14. Post(d)'
  <2>1. Bounded(d)'
    <3>1. Length(wire[d]) <= Window /\ Window \in Nat
      BY <1>1, Naturals_ DEF Post, Bounded
    <3>2. Length(wire'[d]) = Length(wire[d]) - n
      BY <1>3, <1>11
    <3>3. Length(wire'[d]) <= Window
      BY <1>9, <3>1, <3>2
    <3> QED
      BY <1>1, <3>3 DEF Post, Bounded
  <2>2. Written(d)' /\ ReadInv(d)'
    BY <1>1 DEF Post, Written, ReadInv
  <2>3. Link(d)'
    <3>1. base + n \in Nat
      BY <1>9
    <3> QED
      BY <1>8, <3>1 DEF Link, Layouts
  <2> QED
    BY <2>1, <2>2, <2>3 DEF Post
<1>15. \A e \in Ways : e # d => Post(e)'
  BY <1>1, <1>3, <1>7, Untouched DEF SameWriter, SameReader
<1> QED
  BY <1>12, <1>13, <1>14, <1>15 DEF IInv, Post

\* A reader that ends takes no direction with it but as an end that goes.
LEMMA FailIs ==
    ASSUME Typed, PhaseInv, NEW d \in Ways, NEW why \in Ends \ {"open"}, Fail(d, why)
    PROVE  /\ Onward /\ end' \in [Ways -> Ends] /\ end'[d] = why
           /\ \A e \in Ways : e # d => end'[e] = end[e]
           /\ hostAt' \in HostPhases /\ clientAt' \in ClientPhases
           /\ hostAt' \in {hostAt, "ended"} /\ clientAt' \in {clientAt, "ended"}
           /\ received' = received
           /\ ~ReaderThere(d)'
BY DEF Fail, Onward, Typed, ReaderThere, HostPhases, ClientPhases

LEMMA FetchRecordStep ==
    ASSUME IInv, NEW d \in Ways, FetchRecord(d)
    PROVE  IInv'
<1>1. /\ Typed /\ PhaseInv /\ \A e \in Ways : Post(e)
      /\ MayRead(d) /\ reading[d] = "sealed"
      /\ wire[d] # <<>> /\ ahead[d] = <<>> /\ buf[d] = <<>> /\ RecordWanted(rec[d]) > 0
      /\ UNCHANGED <<sent, out, sealCtr, openCtr, reading, buf, ahead, acc>>
  BY DEF IInv, Post, FetchRecord, Reading, writers
<1>2. PICK n : /\ n = Min(RecordWanted(rec[d]), Length(wire[d]))
               /\ rec' = [rec EXCEPT ![d] = rec[d] \o Front(wire[d], n)]
               /\ wire' = [wire EXCEPT ![d] = Rest(@, n)]
               /\ IF (rec[d] \o Front(wire[d], n))[1].len > RecordLimit THEN Fail(d, "limit")
                  ELSE UNCHANGED <<hostAt, clientAt, received, end>>
  BY DEF FetchRecord, Length
<1>3. /\ rec'[d] = rec[d] \o Front(wire[d], n) /\ wire'[d] = Rest(wire[d], n)
      /\ \A e \in Ways : e # d => wire'[e] = wire[e] /\ rec'[e] = rec[e]
  BY <1>1, <1>2 DEF Typed
<1>4. ReaderThere(d) /\ end[d] = "open"
  BY <1>1, MayReadIs
<1>5. PICK S \in Layouts, base \in Nat : Joined(d, S, base)
  BY <1>1, <1>4 DEF Post, Link
<1>6. PICK r \in Nat : r = Next1(d)
  BY <1>1, TypesAt
<1>7. r # 1
  <2>1. received[d] # <<>>
    BY <1>1, MayReadIs DEF PhaseInv, Ways, Down, Up
  <2> QED
    BY <1>1, <1>6, <2>1, TypesAt DEF Next1
<1>8. Fetching(d, r, S, base)
  <2>1. CASE Opened(d, r, S, base)
    <3>1. PICK a \in Nat, K \in Nat : a = Length(acc[d]) /\ K = Size(d, r)
      BY <1>1, <1>6, <2>1, TypesAt DEF Opened
    <3>2. Length(ahead[d]) = 0 /\ Length(buf[d]) = 0
      BY <1>1 DEF Length
    <3>3. a = K
      BY <2>1, <3>1, <3>2 DEF Opened
    <3>4. acc[d] # <<>> /\ r \in 1 .. Length(sent[d]) /\ r <= Length(sent[d])
      <4>1. r \in 1 .. Length(sent[d]) /\ r <= Length(sent[d])
        BY <1>1, <1>6, <2>1, TypesAt DEF Opened
      <4>2. K >= HeaderLen /\ HeaderLen >= 1 /\ HeaderLen \in Nat
        BY <1>1, <3>1, <4>1, TypesAt, Naturals_
      <4>3. a # 0
        BY <3>3, <4>2
      <4> QED
        BY <1>1, <3>1, <4>1, <4>3, TypesAt
    <3>5. Reader(d, r, S, base)
      BY <2>1 DEF Reader
    <3>6. ~Whole(d) /\ ~TooLong(d)
      BY DEF FetchRecord, Reading
    <3>7. a + Wanted(d) <= K /\ Wanted(d) > 0 /\ Wanted(d) \in Nat
      BY <1>1, <1>6, <3>1, <3>4, <3>5, <3>6, WantedIs
    <3> QED
      BY <3>3, <3>7
  <2> QED
    BY <1>5, <1>6, <1>7, <2>1 DEF Joined, Reader, InClear
<1>9. Onward
  BY <1>1, <1>2, FailIs DEF Ends, Onward
<1>10. /\ received' = received /\ \A e \in Ways : e # d => end'[e] = end[e]
       /\ hostAt' \in {hostAt, "ended"} /\ clientAt' \in {clientAt, "ended"}
       /\ hostAt' \in HostPhases /\ clientAt' \in ClientPhases /\ end' \in [Ways -> Ends]
  <2>1. CASE Fail(d, "limit")
    <3>1. "limit" \in Ends \ {"open"}
      BY DEF Ends
    <3> QED
      BY <1>1, <2>1, <3>1, FailIs
  <2>2. CASE UNCHANGED <<hostAt, clientAt, received, end>>
    BY <1>1, <2>2 DEF Typed
  <2> QED
    BY <1>2, <2>1, <2>2
<1>11. /\ Joined(d, S, base + n)'
       /\ r \in 1 .. Length(sent[d])
       /\ Length(rec'[d]) > 0 /\ rec'[d][1] = [len |-> Size(d, r) + 1]
       /\ n \in Nat
  <2>1. /\ WriterThere(d)' => WriterThere(d)
        /\ received'[d] = received[d] /\ sent'[d] = sent[d] /\ out'[d] = out[d]
        /\ openCtr'[d] = openCtr[d] /\ acc'[d] = acc[d] /\ buf'[d] = buf[d]
        /\ ahead'[d] = ahead[d] /\ ReadInv(d)
    BY <1>1, <1>9, <1>10, OnwardThere DEF Post
  <2> QED
    <3>1. /\ Typed /\ Joined(d, S, base)
          /\ Next1(d) # 1 /\ Fetching(d, Next1(d), S, base)
          /\ wire[d] # <<>> /\ RecordWanted(rec[d]) > 0
          /\ n = Min(RecordWanted(rec[d]), Length(wire[d]))
          /\ rec'[d] = rec[d] \o Front(wire[d], n) /\ wire'[d] = Rest(wire[d], n)
      BY <1>1, <1>2, <1>3, <1>5, <1>6, <1>7, <1>8
    <3>2. /\ Joined(d, S, base + n)'
          /\ Next1(d) \in 1 .. Length(sent[d])
          /\ Length(rec'[d]) > 0 /\ rec'[d][1] = [len |-> Size(d, Next1(d)) + 1]
          /\ n \in Nat
      BY <2>1, <3>1, RecordRead
    <3> QED
      BY <1>6, <3>2
<1>12. /\ wire[d] \in Seq(Cell) /\ rec[d] \in Seq(Cell) /\ Length(wire[d]) \in Nat
       /\ n <= Length(wire[d])
  <2>1. /\ wire[d] \in Seq(Cell) /\ rec[d] \in Seq(Cell) /\ Length(wire[d]) \in Nat
    BY <1>1, TypesAt
  <2>2. n <= Length(wire[d])
    BY <1>2, <1>11, <2>1 DEF Min
  <2> QED
    BY <2>1, <2>2
<1>13. Takes(rec'[d], rec[d], wire[d], n)
  BY <1>3, <1>11, <1>12, TakenIs
<1>14. Rest(wire[d], n) \in Seq(Cell) /\ Length(Rest(wire[d], n)) = Length(wire[d]) - n
  BY <1>11, <1>12, RestIs
<1>15. Typed'
  <2>1. rec'[d] \in Seq(Cell)
    BY <1>13 DEF Takes
  <2>2. wire' \in [Ways -> Seq(Cell)] /\ rec' \in [Ways -> Seq(Cell)]
    BY <1>1, <1>2, <1>3, <1>14, <2>1 DEF Typed
  <2> QED
    BY <1>1, <1>10, <2>2 DEF Typed
<1>16. PhaseInv'
  BY <1>1, <1>10 DEF PhaseInv
<1>17. Post(d)'
  <2>1. Bounded(d)'
    <3>1. Length(wire[d]) <= Window /\ Window \in Nat
      BY <1>1, Naturals_ DEF Post, Bounded
    <3>2. Length(wire'[d]) = Length(wire[d]) - n
      BY <1>3, <1>14
    <3>3. Length(wire'[d]) <= Window
      BY <1>11, <1>12, <3>1, <3>2
    <3> QED
      BY <1>1, <3>3 DEF Post, Bounded
  <2>2. Written(d)'
    BY <1>1 DEF Post, Written
  <2>3. ReadInv(d)'
    <3>1. CASE UNCHANGED <<hostAt, clientAt, received, end>>
      BY <1>1, <3>1 DEF Post, ReadInv
    <3>2. CASE Fail(d, "limit") /\ rec'[d][1].len > RecordLimit
      <4>1. PICK K \in Nat : K = Size(d, r)
        BY <1>1, <1>11, TypesAt
      <4>2. rec'[d][1].len = K + 1
        BY <1>11, <4>1
      <4>3. PICK l \in Nat : l = sent[d][r].len /\ K = HeaderLen + l
        BY <1>1, <1>11, <4>1, TypesAt DEF Size
      <4>4. l > MsgLimit
        BY <3>2, <4>2, <4>3, Naturals_
      <4>5. Length(received[d]) < Length(sent[d]) /\ r = Length(received[d]) + 1
        BY <1>1, <1>6, <1>11, TypesAt DEF Next1
      <4>6. end'[d] = "limit"
        BY <1>1, <3>2 DEF Fail, Typed
      <4> QED
        BY <1>1, <1>10, <4>3, <4>4, <4>5, <4>6 DEF Post, ReadInv
    <3> QED
      BY <1>2, <1>3, <3>1, <3>2
  <2>4. Link(d)'
    <3>1. base + n \in Nat
      BY <1>11
    <3> QED
      BY <1>11, <3>1 DEF Link, Layouts
  <2> QED
    BY <2>1, <2>2, <2>3, <2>4 DEF Post
<1>18. \A e \in Ways : e # d => Post(e)'
  BY <1>1, <1>3, <1>9, <1>10, Untouched DEF SameWriter, SameReader
<1> QED
  BY <1>15, <1>16, <1>17, <1>18 DEF IInv, Post

LEMMA OpenRecordStep ==
    ASSUME IInv, NEW d \in Ways, OpenRecord(d)
    PROVE  IInv'
<1>1. /\ Typed /\ PhaseInv /\ \A e \in Ways : Post(e)
      /\ MayRead(d) /\ rec[d] # <<>> /\ RecordWanted(rec[d]) = 0
      /\ openCtr' = [openCtr EXCEPT ![d] = @ + 1] /\ rec' = [rec EXCEPT ![d] = <<>>]
      /\ UNCHANGED <<sent, out, sealCtr, wire, reading, ahead, acc>>
  BY DEF IInv, Post, OpenRecord, Reading, writers
<1>2. ReaderThere(d)
  BY <1>1, MayReadIs
<1>3. PICK S \in Layouts, base \in Nat : Joined(d, S, base)
  BY <1>1, <1>2 DEF Post, Link
<1>4. PICK r \in Nat : r = Next1(d)
  BY <1>1, TypesAt
<1>5. /\ r \in 1 .. Length(sent[d]) /\ openCtr[d] = r - 2
      /\ Authentic(rec[d], openCtr[d])
  BY <1>1, <1>3, <1>4, RecordOpens DEF Post
<1>6. /\ buf' = [buf EXCEPT ![d] = [i \in 1 .. Len(rec[d]) - 2 |-> rec[d][i + 1].plain]]
      /\ UNCHANGED <<hostAt, clientAt, received, end>>
  BY <1>5 DEF OpenRecord
<1>7. /\ openCtr'[d] = openCtr[d] + 1 /\ rec'[d] = <<>>
      /\ buf'[d] = [i \in 1 .. Len(rec[d]) - 2 |-> rec[d][i + 1].plain]
      /\ \A e \in Ways : e # d =>
             openCtr'[e] = openCtr[e] /\ rec'[e] = rec[e] /\ buf'[e] = buf[e]
  BY <1>1, <1>6 DEF Typed
<1>8. Onward
  BY <1>6 DEF Onward
<1>9. Joined(d, S, base)' /\ buf'[d] \in Seq(Cell)
  <2>1. /\ WriterThere(d)' => WriterThere(d)
        /\ received'[d] = received[d] /\ sent'[d] = sent[d] /\ out'[d] = out[d]
        /\ wire'[d] = wire[d] /\ acc'[d] = acc[d] /\ ahead'[d] = ahead[d] /\ ReadInv(d)
    BY <1>1, <1>6, <1>8, OnwardThere DEF Post
  <2> QED
    BY <1>1, <1>3, <1>7, <2>1, OpenedJoined
<1>10. Typed'
  <2>1. openCtr' \in [Ways -> Nat]
    BY <1>1, <1>7 DEF Typed
  <2>2. rec' \in [Ways -> Seq(Cell)]
    <3>1. <<>> \in Seq(Cell)
      BY EmptySeq
    <3> QED
      BY <1>1, <3>1 DEF Typed
  <2>3. buf' \in [Ways -> Seq(Cell)]
    BY <1>1, <1>6, <1>7, <1>9 DEF Typed
  <2> QED
    BY <1>1, <1>6, <2>1, <2>2, <2>3 DEF Typed
<1>11. PhaseInv'
  BY <1>1, <1>6 DEF PhaseInv
<1>12. Post(d)'
  <2>1. Bounded(d)'
    <3>1. sent[d] # <<>> /\ Length(sent[d]) \in Nat /\ sealCtr[d] \in Nat
      BY <1>1, <1>5, TypesAt, SMTT(30)
    <3>2. Length(sent[d]) = sealCtr[d] + 1
      BY <1>1, <3>1 DEF Post, Written
    <3>3. openCtr'[d] <= sealCtr[d]
      BY <1>5, <1>7, <3>1, <3>2
    <3> QED
      BY <1>1, <3>3 DEF Post, Bounded
  <2>2. Written(d)' /\ ReadInv(d)'
    BY <1>1, <1>6 DEF Post, Written, ReadInv
  <2>3. Link(d)'
    BY <1>9 DEF Link, Layouts
  <2> QED
    BY <2>1, <2>2, <2>3 DEF Post
<1>13. \A e \in Ways : e # d => Post(e)'
  BY <1>1, <1>6, <1>7, <1>8, Untouched DEF SameWriter, SameReader
<1> QED
  BY <1>10, <1>11, <1>12, <1>13 DEF IInv, Post

LEMMA ReadBufferedStep ==
    ASSUME IInv, NEW d \in Ways, ReadBuffered(d)
    PROVE  IInv'
<1>1. /\ Typed /\ PhaseInv /\ \A e \in Ways : Post(e)
      /\ MayRead(d) /\ ~Whole(d) /\ ~TooLong(d)
      /\ TakeAhead(d) \/ PassBy(d) \/ Fill(d)
      /\ UNCHANGED <<hostAt, clientAt, sent, out, sealCtr, wire, openCtr, reading, rec,
                     received, end>>
  BY DEF IInv, Post, ReadBuffered, Reading, writers
<1>2. ReaderThere(d)
  BY <1>1, MayReadIs
<1>3. PICK S \in Layouts, base \in Nat : Joined(d, S, base)
  BY <1>1, <1>2 DEF Post, Link
<1>4. Onward
  BY <1>1 DEF Onward
<1>5. /\ Joined(d, S, base)'
      /\ acc'[d] \in Seq(Cell) /\ ahead'[d] \in Seq(Cell) /\ buf'[d] \in Seq(Cell)
      /\ Length(ahead'[d]) <= BufLen
  <2>1. /\ WriterThere(d)' => WriterThere(d)
        /\ received'[d] = received[d] /\ sent'[d] = sent[d] /\ out'[d] = out[d]
        /\ wire'[d] = wire[d] /\ openCtr'[d] = openCtr[d] /\ rec'[d] = rec[d]
        /\ ReadInv(d) /\ Bounded(d)
    BY <1>1, <1>4, OnwardThere DEF Post
  <2> QED
    BY <1>1, <1>3, <2>1, BufferedRead
<1>6. /\ \E x : acc' = [acc EXCEPT ![d] = x]
      /\ \E x : ahead' = [ahead EXCEPT ![d] = x]
      /\ \E x : buf' = [buf EXCEPT ![d] = x]
  <2>2. /\ acc = [acc EXCEPT ![d] = acc[d]] /\ ahead = [ahead EXCEPT ![d] = ahead[d]]
        /\ buf = [buf EXCEPT ![d] = buf[d]]
    BY <1>1 DEF Typed
  <2>3. CASE TakeAhead(d)
    BY <2>2, <2>3 DEF TakeAhead
  <2>4. CASE PassBy(d)
    BY <2>2, <2>4 DEF PassBy
  <2>5. CASE Fill(d)
    BY <2>2, <2>5 DEF Fill
  <2> QED
    BY <1>1, <2>3, <2>4, <2>5
<1>7. /\ \A e \in Ways : e # d => acc'[e] = acc[e] /\ ahead'[e] = ahead[e] /\ buf'[e] = buf[e]
      /\ acc' \in [Ways -> Seq(Cell)] /\ ahead' \in [Ways -> Seq(Cell)]
      /\ buf' \in [Ways -> Seq(Cell)]
  BY <1>1, <1>5, <1>6 DEF Typed
<1>8. Typed'
  BY <1>1, <1>7 DEF Typed
<1>9. PhaseInv'
  <2>1. hostAt \in {"probing", "gate", "informed"} => d # Up
    BY <1>1, MayReadIs
  <2>2. Up \in Ways
    BY DEF Ways
  <2>3. hostAt \in {"probing", "gate", "informed"} => ahead'[Up] = <<>>
    BY <1>1, <1>7, <2>1, <2>2 DEF PhaseInv
  <2> QED
    BY <1>1, <2>3 DEF PhaseInv
<1>10. Post(d)'
  <2>1. Bounded(d)'
    BY <1>1, <1>5 DEF Post, Bounded
  <2>2. Written(d)' /\ ReadInv(d)'
    BY <1>1 DEF Post, Written, ReadInv
  <2>3. Link(d)'
    BY <1>5 DEF Link, Layouts
  <2> QED
    BY <2>1, <2>2, <2>3 DEF Post
<1>11. \A e \in Ways : e # d => Post(e)'
  BY <1>1, <1>4, <1>7, Untouched DEF SameWriter, SameReader
<1> QED
  BY <1>8, <1>9, <1>10, <1>11 DEF IInv, Post

\* A reader ends: with the message too long before it, or for another reason than a
\* message.
LEMMA FailStep ==
    ASSUME IInv, NEW d \in Ways, NEW why \in {"limit", "eof"}, Fail(d, why),
           UNCHANGED <<writers, wire, readers>>,
           why = "limit" => /\ Length(received[d]) < Length(sent[d])
                            /\ sent[d][Length(received[d]) + 1].len > MsgLimit
    PROVE  IInv'
<1>1. /\ Typed /\ PhaseInv /\ \A e \in Ways : Post(e)
      /\ UNCHANGED <<sent, out, sealCtr, wire, openCtr, reading, rec, buf, ahead, acc>>
  BY DEF IInv, Post, writers, readers
<1>2. /\ Onward /\ end' \in [Ways -> Ends] /\ end'[d] = why
      /\ \A e \in Ways : e # d => end'[e] = end[e]
      /\ hostAt' \in HostPhases /\ clientAt' \in ClientPhases
      /\ hostAt' \in {hostAt, "ended"} /\ clientAt' \in {clientAt, "ended"}
      /\ received' = received
      /\ ~ReaderThere(d)'
  <2>1. why \in Ends \ {"open"}
    BY DEF Ends
  <2> QED
    BY <1>1, <2>1, FailIs
<1>3. Typed'
  BY <1>1, <1>2 DEF Typed
<1>4. PhaseInv'
  BY <1>1, <1>2 DEF PhaseInv
<1>5. Post(d)'
  <2>1. Bounded(d)' /\ Written(d)'
    BY <1>1 DEF Post, Bounded, Written
  <2>2. ReadInv(d)'
    BY <1>1, <1>2 DEF Post, ReadInv
  <2>3. Link(d)'
    BY <1>2 DEF Link
  <2> QED
    BY <2>1, <2>2, <2>3 DEF Post
<1>6. \A e \in Ways : e # d => Post(e)'
  BY <1>1, <1>2, Untouched DEF SameWriter, SameReader
<1> QED
  BY <1>3, <1>4, <1>5, <1>6 DEF IInv, Post

LEMMA RefuseLengthStep ==
    ASSUME IInv, NEW d \in Ways, RefuseLength(d)
    PROVE  IInv'
<1>1. /\ Typed /\ PhaseInv /\ \A e \in Ways : Post(e)
      /\ MayRead(d) /\ TooLong(d)
  BY DEF IInv, Post, RefuseLength
<1>2. PICK S \in Layouts, base \in Nat : Joined(d, S, base)
  BY <1>1, MayReadIs DEF Post, Link
<1>3. acc[d] # <<>>
  <2>1. Length(acc[d]) >= HeaderLen
    BY <1>1 DEF TooLong, HasHeader, Length
  <2>2. Length(acc[d]) \in Nat /\ (acc[d] = <<>> <=> Length(acc[d]) = 0)
    BY <1>1, TypesAt
  <2> QED
    BY <2>1, <2>2, Naturals_
<1>4. PICK r \in Nat : r = Next1(d)
  BY <1>1, TypesAt
<1>5. r \in 1 .. Length(sent[d]) /\ Current(d) = sent[d][r]
  BY <1>1, <1>2, <1>3, <1>4, CurrentIs DEF Joined
<1>6. Length(received[d]) < Length(sent[d]) /\ r = Length(received[d]) + 1
  BY <1>1, <1>4, <1>5, TypesAt DEF Next1
<1>7. sent[d][Length(received[d]) + 1].len > MsgLimit
  BY <1>1, <1>5, <1>6 DEF TooLong
<1> QED
  BY <1>6, <1>7, FailStep DEF RefuseLength

LEMMA EndOfStreamStep ==
    ASSUME IInv, NEW d \in Ways, EndOfStream(d)
    PROVE  IInv'
BY FailStep DEF EndOfStream

LEMMA CarryStep ==
    ASSUME IInv, NEW d \in Ways, Carry(d)
    PROVE  IInv'
BY TcpTakesStep, ReadPlainStep, FetchRecordStep, OpenRecordStep, ReadBufferedStep,
   RefuseLengthStep, EndOfStreamStep DEF Carry

\* An end leaves, with what it has not handed to TCP.
LEMMA LeaveStep ==
    ASSUME IInv, NEW d \in Ways, Leave(d)
    PROVE  IInv'
<1>1. /\ Typed /\ PhaseInv /\ \A e \in Ways : Post(e)
      /\ UNCHANGED <<sent, sealCtr, openCtr, reading, rec, buf, ahead, acc, received, end>>
      /\ out' = [out EXCEPT ![d] = <<>>]
  BY DEF IInv, Post, Leave, readers
<1>2. /\ hostAt' \in {hostAt, "ended"} /\ clientAt' \in {clientAt, "ended"} /\ Onward
      /\ ~WriterThere(d)' /\ ~ReaderThere(Other(d))'
  BY DEF Leave, Onward, WriterThere, ReaderThere, Other, Ways, Up, Down
<1>3. Other(d) \in Ways /\ Other(d) # d /\ \A e \in Ways : e # d => e = Other(d)
  BY DEF Other, Ways, Up, Down
<1>4. PICK kept \in {wire[d], <<>>} :
          wire' = [wire EXCEPT ![d] = kept, ![Other(d)] = <<>>]
  BY DEF Leave
<1>5. /\ wire'[d] = kept /\ out'[d] = <<>>
      /\ wire'[Other(d)] = <<>> /\ out'[Other(d)] = out[Other(d)]
  BY <1>1, <1>3, <1>4 DEF Typed
<1>6. <<>> \in Seq(Cell) /\ Length(<<>>) = 0
  BY EmptySeq DEF Length
<1>7. Typed'
  <2>1. wire' \in [Ways -> Seq(Cell)] /\ out' \in [Ways -> Seq(Cell)]
    BY <1>1, <1>3, <1>4, <1>6 DEF Typed
  <2>2. hostAt' \in HostPhases /\ clientAt' \in ClientPhases
    BY <1>1, <1>2 DEF Typed, HostPhases, ClientPhases
  <2> QED
    BY <1>1, <2>1, <2>2 DEF Typed
<1>8. PhaseInv'
  BY <1>1, <1>2 DEF PhaseInv
<1>9. \A e \in Ways : Bounded(e)' /\ Written(e)' /\ ReadInv(e)'
  <2>1. SUFFICES ASSUME NEW e \in Ways
                 PROVE  Bounded(e)' /\ Written(e)' /\ ReadInv(e)'
    OBVIOUS
  <2>2. wire'[e] = wire[e] \/ wire'[e] = <<>>
    BY <1>3, <1>4, <1>5
  <2>3. Length(wire[e]) <= Window /\ 0 <= Window
    BY <1>1, Naturals_ DEF Post, Bounded
  <2>4. Length(wire'[e]) <= Window
    BY <1>6, <2>2, <2>3
  <2> QED
    BY <1>1, <2>4 DEF Post, Bounded, Written, ReadInv
<1>10. Link(Other(d))'
  BY <1>2 DEF Link
<1>11. Link(d)'
  <2>1. SUFFICES ASSUME ReaderThere(d)'
                 PROVE  \E S \in Layouts, base \in Nat : Joined(d, S, base)'
    BY DEF Link, Layouts
  <2>2. ReaderThere(d)
    BY <1>1, <1>2, <2>1, OnwardThere DEF ReaderThere
  <2>3. PICK S \in Layouts, base \in Nat : Joined(d, S, base)
    BY <1>1, <2>2 DEF Post, Link
  <2>4. /\ Length(wire[d]) \in Nat /\ Length(out[d]) \in Nat
        /\ S[Length(sent[d]) + 1] \in Nat
    <3>1. Length(sent[d]) + 1 \in Nat
      BY <1>1, TypesAt
    <3> QED
      BY <1>1, <3>1, TypesAt DEF Layouts
  <2>5. Stream(d, S, base)'
    <3>1. Laid(d, S)'
      BY <1>1, <2>3 DEF Joined, Stream, Laid, Size
    <3>2. OnWire(d, S, base)'
      <4>1. CASE kept = wire[d]
        BY <1>1, <1>5, <2>3, <4>1, CellsKept DEF Joined, Stream, OnWire
      <4>2. CASE kept = <<>>
        BY <1>1, <1>5, <1>6, <4>2 DEF OnWire
      <4> QED
        BY <4>1, <4>2
    <3>3. InOut(d, S, base)'
      <4>1. SUFFICES ASSUME NEW p \in Nat,
                            base + Length(wire'[d]) < p,
                            p <= base + Length(wire'[d]) + Length(out'[d])
                     PROVE  FALSE
        BY DEF InOut
      <4>2. Length(wire'[d]) \in Nat /\ Length(out'[d]) = 0
        BY <1>5, <1>6, <2>4
      <4> QED
        BY <4>1, <4>2
    <3>4. base + Length(wire'[d]) + Length(out'[d]) <= S[Length(sent'[d]) + 1]
      <4>1. base + Length(wire[d]) + Length(out[d]) <= S[Length(sent[d]) + 1]
        BY <2>3 DEF Joined, Stream
      <4>2. /\ Length(wire'[d]) \in Nat /\ Length(wire'[d]) <= Length(wire[d])
            /\ Length(out'[d]) = 0
        BY <1>5, <1>6, <2>4
      <4>3. base + Length(wire'[d]) + Length(out'[d])
                <= base + Length(wire[d]) + Length(out[d])
        BY <2>4, <4>2
      <4> QED
        BY <1>1, <2>4, <4>1, <4>2, <4>3
    <3> QED
      BY <1>2, <3>1, <3>2, <3>3, <3>4 DEF Stream
  <2>6. Reader(d, Next1(d), S, base)'
    <3>1. Next1(d)' = Next1(d)
      BY <1>1 DEF Next1
    <3>2. CASE InClear(d, Next1(d), S, base)
      BY <1>1, <3>1, <3>2 DEF Reader, InClear, Size
    <3>3. CASE Fetching(d, Next1(d), S, base)
      BY <1>1, <3>1, <3>3, CellsKept DEF Reader, Fetching, Size
    <3>4. CASE Opened(d, Next1(d), S, base)
      BY <1>1, <3>1, <3>4 DEF Reader, Opened, Size
    <3> QED
      BY <2>3, <3>2, <3>3, <3>4 DEF Joined, Reader
  <2> QED
    BY <2>5, <2>6 DEF Joined
<1>12. \A e \in Ways : Post(e)'
  BY <1>3, <1>9, <1>10, <1>11 DEF Post
<1> QED
  BY <1>7, <1>8, <1>12 DEF IInv, Post

\* A message carries its place among those written.
LEMMA MessageIs ==
    ASSUME Typed, NEW d \in Ways, NEW ty \in Kinds, NEW len \in Nat
    PROVE  Message(ty, d, len) \in Msg /\ Message(ty, d, len).n = Length(sent[d]) + 1
<1>1. Len(sent[d]) \in Nat
  BY TypesAt DEF Length
<1> QED
  BY <1>1 DEF Message, Msg, Length

\* The messages before the stream are messages.
LEMMA PrologIs ==
    ASSUME Typed, NEW d \in Ways, NEW ty \in Prologue
    PROVE  Prolog(ty, d) \in Msg /\ Prolog(ty, d).n = Length(sent[d]) + 1
<1>1. PICK len \in Nat : len = LenOf[ty]
  BY Naturals_
<1>2. ty \in Kinds
  BY DEF Kinds
<1>3. Message(ty, d, len) \in Msg /\ Message(ty, d, len).n = Length(sent[d]) + 1
  BY <1>2, MessageIs
<1> QED
  BY <1>1, <1>3 DEF Prolog

\* What writing does to the direction it writes: the first message goes in the clear,
\* every other under the next counter.
LEMMA WrittenPost ==
    ASSUME Typed, NEW d \in Ways, Post(d), Onward, WriterThere(d), out[d] = <<>>,
           NEW m \in Msg, m.n = Length(sent[d]) + 1,
           NEW cells \in Seq(Cell), WriteCells(d, m, cells),
           sealCtr' \in [Ways -> Nat],
           \A e \in Ways : e # d => sealCtr'[e] = sealCtr[e],
           sent[d] = <<>> => cells = Cells(m) /\ sealCtr'[d] = sealCtr[d],
           sent[d] # <<>> => /\ cells = Seal(Cells(m), sealCtr[d])
                             /\ sealCtr'[d] = sealCtr[d] + 1,
           SameReader(d), wire'[d] = wire[d], end'[d] = end[d]
    PROVE  /\ Post(d)'
           /\ sent' \in [Ways -> Seq(Msg)] /\ out' \in [Ways -> Seq(Cell)]
           /\ sent'[d] # <<>> /\ \A e \in Ways : e # d => SameWriter(e)
<1>1. PICK N \in Nat : N = Length(sent[d])
  BY TypesAt
<1>2. /\ sent[d] \in Seq(Msg) /\ (sent[d] = <<>> <=> N = 0)
      /\ sealCtr[d] \in Nat /\ openCtr[d] \in Nat
      /\ Length(received[d]) \in Nat
  BY <1>1, TypesAt
<1>3. /\ sent'[d] = Append(sent[d], m) /\ out'[d] = cells
      /\ sent' \in [Ways -> Seq(Msg)] /\ out' \in [Ways -> Seq(Cell)]
      /\ \A e \in Ways : e # d => sent'[e] = sent[e] /\ out'[e] = out[e]
  <2>1. Append(sent[d], m) \in Seq(Msg)
    BY <1>2, AppendProperties
  <2> QED
    BY <2>1 DEF WriteCells, Typed
<1>4. /\ Length(sent'[d]) = N + 1 /\ sent'[d][N + 1] = m
      /\ \A k \in 1 .. N : sent'[d][k] = sent[d][k]
  BY <1>1, <1>2, <1>3, AppendProperties DEF Length
<1>5. sent'[d] # <<>>
  BY <1>4 DEF Length
<1>6. (N = 0 => sealCtr[d] = 0) /\ (N # 0 => N = sealCtr[d] + 1)
  BY <1>1, <1>2 DEF Post, Written
<1>7. Written(d)'
  <2>1. \A k \in 1 .. Length(sent'[d]) : sent'[d][k].n = k
    <3>1. SUFFICES ASSUME NEW k \in 1 .. N + 1
                   PROVE  sent'[d][k].n = k
      BY <1>4
    <3>2. CASE k = N + 1
      BY <1>1, <1>4, <3>2
    <3>3. CASE k # N + 1
      <4>1. k \in 1 .. N
        BY <3>3
      <4> QED
        BY <1>1, <1>4, <4>1 DEF Post, Written
    <3> QED
      BY <3>2, <3>3
  <2>2. N + 1 = sealCtr'[d] + 1
    BY <1>2, <1>6
  <2> QED
    BY <1>4, <1>5, <2>1, <2>2 DEF Written
<1>8. ReadInv(d)'
  <2>1. Length(received[d]) <= N
    BY <1>1 DEF Post, ReadInv
  <2>2. received'[d] = received[d]
    BY DEF SameReader
  <2>3. Length(received'[d]) <= Length(sent'[d])
    BY <1>2, <1>4, <2>1, <2>2
  <2>4. \A k \in 1 .. Length(received'[d]) :
            received'[d][k] = sent'[d][k] /\ sent'[d][k].len <= MsgLimit
    <3>1. \A k \in 1 .. Length(received[d]) : k \in 1 .. N
      BY <1>2, <2>1
    <3> QED
      BY <1>4, <2>2, <3>1 DEF Post, ReadInv
  <2>5. end'[d] = "limit" => /\ Length(received'[d]) < Length(sent'[d])
                             /\ sent'[d][Length(received'[d]) + 1].len > MsgLimit
    <3>1. SUFFICES ASSUME end[d] = "limit"
                   PROVE  /\ Length(received[d]) < N + 1
                          /\ sent'[d][Length(received[d]) + 1].len > MsgLimit
      BY <1>4, <2>2
    <3>2. /\ Length(received[d]) < N
          /\ sent[d][Length(received[d]) + 1].len > MsgLimit
      BY <1>1, <3>1 DEF Post, ReadInv
    <3>3. Length(received[d]) + 1 \in 1 .. N
      BY <1>2, <3>2
    <3> QED
      BY <1>2, <1>4, <3>2, <3>3
  <2> QED
    BY <2>3, <2>4, <2>5 DEF Post, ReadInv
<1>9. Bounded(d)'
  <2>1. openCtr[d] <= sealCtr'[d]
    BY <1>2 DEF Post, Bounded
  <2> QED
    BY <2>1 DEF Post, Bounded, SameReader
<1>10. Link(d)'
  <2>1. SUFFICES ASSUME ReaderThere(d)'
                 PROVE  \E S \in Layouts, base \in Nat : Joined(d, S, base)'
    BY DEF Link, Layouts
  <2>2. ReaderThere(d)
    BY <2>1, OnwardThere DEF ReaderThere
  <2>3. PICK S \in Layouts, base \in Nat : Joined(d, S, base)
    BY <2>2 DEF Post, Link
  <2>4. sent[d] # <<>> => out'[d] = Seal(Cells(m), Length(sent[d]) - 1)
    <3>1. N # 0 => N - 1 = sealCtr[d]
      BY <1>2, <1>6
    <3> QED
      BY <1>1, <1>2, <1>3, <3>1
  <2>5. sent[d] = <<>> => out'[d] = Cells(m)
    BY <1>3
  <2>6. \E T \in Layouts : Joined(d, T, base)'
    BY <1>3, <2>3, <2>4, <2>5, WrittenStream DEF Post, SameReader
  <2> QED
    BY <2>6
<1> QED
  BY <1>3, <1>5, <1>7, <1>8, <1>9, <1>10 DEF Post, SameWriter

\* The two ways to write.
LEMMA PlainPost ==
    ASSUME Typed, NEW d \in Ways, Post(d), Onward, WriterThere(d), sent[d] = <<>>,
           NEW m \in Msg, m.n = Length(sent[d]) + 1, WritePlain(d, m),
           SameReader(d), wire'[d] = wire[d], end'[d] = end[d]
    PROVE  /\ Post(d)'
           /\ sent' \in [Ways -> Seq(Msg)] /\ out' \in [Ways -> Seq(Cell)]
           /\ sealCtr' \in [Ways -> Nat]
           /\ sent'[d] # <<>> /\ \A e \in Ways : e # d => SameWriter(e)
<1>1. /\ out[d] = <<>> /\ WriteCells(d, m, Cells(m)) /\ sealCtr' = sealCtr
  BY DEF WritePlain
<1>2. Cells(m) \in Seq(Cell) /\ sealCtr' \in [Ways -> Nat]
  BY <1>1, CellsAre DEF Typed
<1> QED
  BY <1>1, <1>2, WrittenPost

LEMMA SealedPost ==
    ASSUME Typed, NEW d \in Ways, Post(d), Onward, WriterThere(d), sent[d] # <<>>,
           NEW m \in Msg, m.n = Length(sent[d]) + 1, WriteSealed(d, m),
           SameReader(d), wire'[d] = wire[d], end'[d] = end[d]
    PROVE  /\ Post(d)'
           /\ sent' \in [Ways -> Seq(Msg)] /\ out' \in [Ways -> Seq(Cell)]
           /\ sealCtr' \in [Ways -> Nat]
           /\ sent'[d] # <<>> /\ \A e \in Ways : e # d => SameWriter(e)
<1>1. /\ out[d] = <<>> /\ WriteCells(d, m, Seal(Cells(m), sealCtr[d]))
      /\ sealCtr' = [sealCtr EXCEPT ![d] = @ + 1] /\ sealCtr[d] \in Nat
  BY TypesAt DEF WriteSealed
<1>2. /\ sealCtr' \in [Ways -> Nat] /\ sealCtr'[d] = sealCtr[d] + 1
      /\ \A e \in Ways : e # d => sealCtr'[e] = sealCtr[e]
  BY <1>1 DEF Typed
<1>3. Seal(Cells(m), sealCtr[d]) \in Seq(Cell)
  BY <1>1, CellsAre, SealIs
<1> QED
  BY <1>1, <1>2, <1>3, WrittenPost

\* What reading a message does to the direction it reads.
LEMMA DeliverPost ==
    ASSUME Typed, NEW d \in Ways, Post(d), Onward, Deliver(d), SameWriter(d),
           end'[d] \in {end[d], "bye"}
    PROVE  /\ Post(d)'
           /\ received' \in [Ways -> Seq(Msg)] /\ acc' \in [Ways -> Seq(Cell)]
           /\ received'[d] # <<>> /\ ahead[d] = <<>>
           /\ \A e \in Ways : e # d => SameReader(e)
           /\ UNCHANGED <<wire, openCtr, rec, buf, ahead>>
<1>1. /\ MayRead(d) /\ Whole(d)
      /\ received' = [received EXCEPT ![d] = Append(@, Got(d))]
      /\ acc' = [acc EXCEPT ![d] = <<>>]
      /\ UNCHANGED <<wire, openCtr, rec, buf, ahead>>
  BY DEF Deliver
<1>2. /\ received'[d] = Append(received[d], Got(d)) /\ acc'[d] = <<>>
      /\ \A e \in Ways : e # d => received'[e] = received[e] /\ acc'[e] = acc[e]
  BY <1>1 DEF Typed
<1>3. ReaderThere(d) /\ end[d] = "open"
  BY <1>1, MayReadIs
<1>4. PICK S \in Layouts, base \in Nat : Joined(d, S, base)
  BY <1>3 DEF Post, Link
<1>5. /\ Joined(d, S, base)' /\ ReadInv(d)'
      /\ received'[d] \in Seq(Msg) /\ Length(received'[d]) = Length(received[d]) + 1
      /\ ahead[d] = <<>>
  BY <1>1, <1>2, <1>3, <1>4, OnwardThere, DeliveredJoined DEF Post, SameWriter
<1>6. received' \in [Ways -> Seq(Msg)] /\ acc' \in [Ways -> Seq(Cell)]
  <2>1. <<>> \in Seq(Cell)
    BY EmptySeq
  <2> QED
    BY <1>1, <1>2, <1>5, <2>1 DEF Typed
<1>7. received'[d] # <<>>
  <2>1. Length(received'[d]) > 0
    BY <1>5, TypesAt
  <2> QED
    BY <2>1 DEF Length
<1>8. Bounded(d)' /\ Written(d)'
  BY <1>1 DEF Post, Bounded, Written, SameWriter
<1>9. Link(d)'
  BY <1>5 DEF Link, Layouts
<1> QED
  BY <1>1, <1>2, <1>5, <1>6, <1>7, <1>8, <1>9 DEF Post, SameReader

--------------------------------------------------------------------------------
(* The steps of the two ends.                                                    *)

\* Both directions, by name.
LEMMA TwoWays == /\ Down \in Ways /\ Up \in Ways /\ Down # Up
                 /\ \A d \in Ways : d = Down \/ d = Up
BY DEF Ways, Down, Up

\* A step that writes one direction and reads nothing.
LEMMA OnlyWrites ==
    ASSUME IInv, NEW d \in Ways, Onward, WriterThere(d),
           NEW m \in Msg, m.n = Length(sent[d]) + 1,
           \/ sent[d] = <<>> /\ WritePlain(d, m)
           \/ sent[d] # <<>> /\ WriteSealed(d, m),
           UNCHANGED <<wire, openCtr, rec, buf, ahead, acc, received, end>>,
           reading' \in [Ways -> {"plain", "sealed"}],
           hostAt' \in HostPhases, clientAt' \in ClientPhases
    PROVE  /\ Typed' /\ \A e \in Ways : Post(e)'
           /\ sent'[d] # <<>> /\ \A e \in Ways : e # d => sent'[e] = sent[e]
<1>1. Typed /\ \A e \in Ways : Post(e)
  BY DEF IInv, Post
<1>2. /\ Post(d)'
      /\ sent' \in [Ways -> Seq(Msg)] /\ out' \in [Ways -> Seq(Cell)]
      /\ sealCtr' \in [Ways -> Nat]
      /\ sent'[d] # <<>> /\ \A e \in Ways : e # d => SameWriter(e)
  <2>1. SameReader(d) /\ wire'[d] = wire[d] /\ end'[d] = end[d]
    BY DEF SameReader
  <2>2. CASE sent[d] = <<>> /\ WritePlain(d, m)
    BY <1>1, <2>1, <2>2, PlainPost
  <2>3. CASE sent[d] # <<>> /\ WriteSealed(d, m)
    BY <1>1, <2>1, <2>3, SealedPost
  <2> QED
    BY <2>2, <2>3
<1>3. Typed'
  BY <1>1, <1>2 DEF Typed
<1>4. \A e \in Ways : e # d => Post(e)'
  <2>1. SUFFICES ASSUME NEW e \in Ways, e # d
                 PROVE  Post(e)'
    OBVIOUS
  <2>2. SameReader(e) /\ SameWriter(e) /\ wire'[e] = wire[e] /\ end'[e] = end[e]
    BY <1>2, <2>1 DEF SameReader
  <2> QED
    BY <1>1, <2>2, Untouched
<1> QED
  BY <1>2, <1>3, <1>4 DEF SameWriter

\* A step that reads a message of one direction and writes nothing.
LEMMA OnlyReads ==
    ASSUME IInv, NEW d \in Ways, Onward, Deliver(d), UNCHANGED writers,
           GoOn \/ Stop(d),
           reading' \in [Ways -> {"plain", "sealed"}],
           hostAt' \in HostPhases, clientAt' \in ClientPhases
    PROVE  /\ Typed' /\ \A e \in Ways : Post(e)'
           /\ received'[d] # <<>> /\ \A e \in Ways : e # d => received'[e] = received[e]
           /\ ahead[d] = <<>> /\ UNCHANGED <<sent, ahead>>
<1>1. /\ Typed /\ \A e \in Ways : Post(e) /\ UNCHANGED <<sent, out, sealCtr>>
  BY DEF IInv, Post, writers
<1>2. /\ end' \in [Ways -> Ends] /\ end'[d] \in {end[d], "bye"}
      /\ \A e \in Ways : e # d => end'[e] = end[e]
  BY <1>1 DEF GoOn, Stop, Typed, Ends
<1>3. /\ Post(d)'
      /\ received' \in [Ways -> Seq(Msg)] /\ acc' \in [Ways -> Seq(Cell)]
      /\ received'[d] # <<>> /\ ahead[d] = <<>>
      /\ \A e \in Ways : e # d => SameReader(e)
      /\ UNCHANGED <<wire, openCtr, rec, buf, ahead>>
  BY <1>1, <1>2, DeliverPost DEF SameWriter
<1>4. Typed'
  BY <1>1, <1>2, <1>3 DEF Typed
<1>5. \A e \in Ways : e # d => Post(e)'
  BY <1>1, <1>2, <1>3, Untouched DEF SameWriter
<1> QED
  BY <1>1, <1>3, <1>4, <1>5 DEF SameReader

LEMMA HostHelloStep == ASSUME IInv, HostHello PROVE IInv'
<1>1. /\ Typed /\ PhaseInv /\ hostAt = "hello" /\ hostAt' = "awaitAck"
      /\ WritePlain(Down, Prolog("HANDSHAKE", Down))
      /\ UNCHANGED <<clientAt, wire, openCtr, reading, rec, buf, ahead, acc, received, end>>
  BY DEF IInv, HostHello, readers
<1>2. sent[Down] = <<>> /\ WriterThere(Down)
  BY <1>1 DEF PhaseInv, WriterThere
<1>3. Onward /\ hostAt' \in HostPhases /\ clientAt' \in ClientPhases
  BY <1>1 DEF Onward, HostPhases, Typed
<1>4. PICK m \in Msg : m = Prolog("HANDSHAKE", Down) /\ m.n = Length(sent[Down]) + 1
  BY <1>1, PrologIs, TwoWays DEF Prologue
<1>5. reading' \in [Ways -> {"plain", "sealed"}]
  BY <1>1 DEF Typed
<1>6. /\ Typed' /\ \A e \in Ways : Post(e)'
      /\ sent'[Down] # <<>> /\ \A e \in Ways : e # Down => sent'[e] = sent[e]
  BY <1>1, <1>2, <1>3, <1>4, <1>5, TwoWays, OnlyWrites
<1>7. PhaseInv'
  BY <1>1, <1>6, TwoWays DEF PhaseInv
<1> QED
  BY <1>6, <1>7 DEF IInv, Post

LEMMA HostReadsAckStep == ASSUME IInv, HostReadsAck PROVE IInv'
<1>1. /\ Typed /\ PhaseInv /\ hostAt = "awaitAck" /\ Deliver(Up)
      /\ \/ hostAt' = "probing" /\ reading' = [reading EXCEPT ![Up] = "sealed"] /\ GoOn
         \/ hostAt' = "ended" /\ reading' = reading /\ Stop(Up)
      /\ UNCHANGED <<clientAt, writers>>
  BY DEF IInv, HostReadsAck
<1>2. Onward /\ hostAt' \in HostPhases /\ clientAt' \in ClientPhases
  BY <1>1 DEF Onward, HostPhases, Typed
<1>3. /\ reading' \in [Ways -> {"plain", "sealed"}] /\ reading'[Down] = reading[Down]
      /\ hostAt' # "ended" => reading'[Up] = "sealed"
  BY <1>1, TwoWays DEF Typed
<1>4. /\ Typed' /\ \A e \in Ways : Post(e)'
      /\ received'[Up] # <<>> /\ received'[Down] = received[Down]
      /\ ahead[Up] = <<>> /\ UNCHANGED <<sent, ahead>>
  BY <1>1, <1>2, <1>3, TwoWays, OnlyReads
<1>5. PhaseInv'
  BY <1>1, <1>3, <1>4 DEF PhaseInv
<1> QED
  BY <1>4, <1>5 DEF IInv, Post

LEMMA HostProbesStep == ASSUME IInv, HostProbes PROVE IInv'
<1>1. /\ Typed /\ PhaseInv /\ hostAt = "probing" /\ hostAt' \in {"awaitReport", "probing"}
      /\ WriteSealed(Down, Prolog("SPEED_PROBE", Down))
      /\ UNCHANGED <<clientAt, wire, openCtr, reading, rec, buf, ahead, acc, received, end>>
  BY DEF IInv, HostProbes, readers
<1>2. sent[Down] # <<>> /\ WriterThere(Down)
  BY <1>1 DEF PhaseInv, WriterThere
<1>3. Onward /\ hostAt' \in HostPhases /\ clientAt' \in ClientPhases
  BY <1>1 DEF Onward, HostPhases, Typed
<1>4. PICK m \in Msg : m = Prolog("SPEED_PROBE", Down) /\ m.n = Length(sent[Down]) + 1
  BY <1>1, PrologIs, TwoWays DEF Prologue
<1>5. reading' \in [Ways -> {"plain", "sealed"}]
  BY <1>1 DEF Typed
<1>6. /\ Typed' /\ \A e \in Ways : Post(e)'
      /\ sent'[Down] # <<>> /\ \A e \in Ways : e # Down => sent'[e] = sent[e]
  BY <1>1, <1>2, <1>3, <1>4, <1>5, TwoWays, OnlyWrites
<1>7. PhaseInv'
  BY <1>1, <1>6, TwoWays DEF PhaseInv
<1> QED
  BY <1>6, <1>7 DEF IInv, Post

LEMMA HostReadsReportStep == ASSUME IInv, HostReadsReport PROVE IInv'
<1>1. /\ Typed /\ PhaseInv /\ hostAt = "awaitReport" /\ Deliver(Up)
      /\ \/ hostAt' = "gate" /\ GoOn
         \/ hostAt' = "ended" /\ Stop(Up)
      /\ UNCHANGED <<clientAt, writers, reading>>
  BY DEF IInv, HostReadsReport
<1>2. Onward /\ hostAt' \in HostPhases /\ clientAt' \in ClientPhases
  BY <1>1 DEF Onward, HostPhases, Typed
<1>3. reading' \in [Ways -> {"plain", "sealed"}]
  BY <1>1 DEF Typed
<1>4. /\ Typed' /\ \A e \in Ways : Post(e)'
      /\ received'[Up] # <<>> /\ received'[Down] = received[Down]
      /\ ahead[Up] = <<>> /\ UNCHANGED <<sent, ahead>>
  BY <1>1, <1>2, <1>3, TwoWays, OnlyReads
<1>5. PhaseInv'
  BY <1>1, <1>4 DEF PhaseInv
<1> QED
  BY <1>4, <1>5 DEF IInv, Post

\* The dropped BufReader held nothing: what it took was the report's.
LEMMA HandoverStep == ASSUME IInv, Handover PROVE IInv'
<1>1. /\ Typed /\ PhaseInv /\ \A e \in Ways : Post(e)
      /\ hostAt = "informed" /\ hostAt' = "streaming"
      /\ ahead' = [ahead EXCEPT ![Up] = <<>>]
      /\ UNCHANGED <<clientAt, sent, out, sealCtr, wire, openCtr, reading, rec, buf, acc,
                     received, end>>
  BY DEF IInv, Post, Handover, writers
<1>2. ahead[Up] = <<>> /\ Onward /\ hostAt' \in HostPhases
  BY <1>1 DEF PhaseInv, Onward, HostPhases
<1>3. ahead' = ahead
  BY <1>1, <1>2, TwoWays DEF Typed
<1>4. Typed' /\ PhaseInv'
  BY <1>1, <1>2, <1>3 DEF Typed, PhaseInv
<1>5. \A e \in Ways : Post(e)'
  BY <1>1, <1>2, <1>3, Untouched DEF SameWriter, SameReader
<1> QED
  BY <1>4, <1>5 DEF IInv, Post

LEMMA HostReadsStep == ASSUME IInv, HostReads PROVE IInv'
<1>1. /\ Typed /\ PhaseInv /\ hostAt = "streaming" /\ Deliver(Up)
      /\ GoOn \/ Stop(Up)
      /\ UNCHANGED <<hostAt, clientAt, writers, reading>>
  BY DEF IInv, HostReads
<1>2. Onward /\ hostAt' \in HostPhases /\ clientAt' \in ClientPhases
  BY <1>1 DEF Onward, Typed
<1>3. reading' \in [Ways -> {"plain", "sealed"}]
  BY <1>1 DEF Typed
<1>4. /\ Typed' /\ \A e \in Ways : Post(e)'
      /\ received'[Up] # <<>> /\ received'[Down] = received[Down]
      /\ ahead[Up] = <<>> /\ UNCHANGED <<sent, ahead>>
  BY <1>1, <1>2, <1>3, TwoWays, OnlyReads
<1>5. PhaseInv'
  BY <1>1, <1>4 DEF PhaseInv
<1> QED
  BY <1>4, <1>5 DEF IInv, Post

LEMMA HostStep == ASSUME IInv, Host PROVE IInv'
BY HostHelloStep, HostReadsAckStep, HostProbesStep, HostReadsReportStep, HandoverStep,
   HostReadsStep DEF Host

LEMMA ClientReadsHandshakeStep == ASSUME IInv, ClientReadsHandshake PROVE IInv'
<1>1. /\ Typed /\ PhaseInv /\ clientAt = "hello" /\ Deliver(Down)
      /\ \/ clientAt' = "asking" /\ GoOn
         \/ clientAt' = "ended" /\ Stop(Down)
      /\ UNCHANGED <<hostAt, writers, reading>>
  BY DEF IInv, ClientReadsHandshake
<1>2. Onward /\ hostAt' \in HostPhases /\ clientAt' \in ClientPhases
  BY <1>1 DEF Onward, ClientPhases, Typed
<1>3. reading' \in [Ways -> {"plain", "sealed"}]
  BY <1>1 DEF Typed
<1>4. /\ Typed' /\ \A e \in Ways : Post(e)'
      /\ received'[Down] # <<>> /\ received'[Up] = received[Up]
      /\ UNCHANGED <<sent, ahead>>
  BY <1>1, <1>2, <1>3, TwoWays, OnlyReads
<1>5. PhaseInv'
  BY <1>1, <1>4 DEF PhaseInv
<1> QED
  BY <1>4, <1>5 DEF IInv, Post

LEMMA AnswerStep == ASSUME IInv, Answer PROVE IInv'
<1>1. /\ Typed /\ PhaseInv /\ clientAt = "asking"
      /\ \/ /\ WritePlain(Up, Prolog("HANDSHAKE_ACK", Up))
            /\ clientAt' = "probing"
            /\ reading' = [reading EXCEPT ![Down] = "sealed"]
         \/ /\ WritePlain(Up, Message("DISCONNECT", Up, 0))
            /\ clientAt' = "ended" /\ reading' = reading
      /\ UNCHANGED <<hostAt, wire, openCtr, rec, buf, ahead, acc, received, end>>
  BY DEF IInv, Answer
<1>2. sent[Up] = <<>> /\ WriterThere(Up)
  BY <1>1, TwoWays DEF PhaseInv, WriterThere
<1>3. Onward /\ hostAt' \in HostPhases /\ clientAt' \in ClientPhases
  BY <1>1 DEF Onward, ClientPhases, Typed
<1>4. PICK m \in Msg : WritePlain(Up, m) /\ m.n = Length(sent[Up]) + 1
  <2>1. CASE WritePlain(Up, Prolog("HANDSHAKE_ACK", Up))
    <3>1. PICK m \in Msg : m = Prolog("HANDSHAKE_ACK", Up) /\ m.n = Length(sent[Up]) + 1
      BY <1>1, PrologIs, TwoWays DEF Prologue
    <3> QED
      BY <2>1, <3>1
  <2>2. CASE WritePlain(Up, Message("DISCONNECT", Up, 0))
    <3>1. PICK m \in Msg : m = Message("DISCONNECT", Up, 0) /\ m.n = Length(sent[Up]) + 1
      BY <1>1, MessageIs, TwoWays DEF Kinds
    <3> QED
      BY <2>2, <3>1
  <2> QED
    BY <1>1, <2>1, <2>2
<1>5. /\ reading' \in [Ways -> {"plain", "sealed"}] /\ reading'[Up] = reading[Up]
      /\ clientAt' # "ended" => reading'[Down] = "sealed"
  BY <1>1, TwoWays DEF Typed
<1>6. /\ Typed' /\ \A e \in Ways : Post(e)'
      /\ sent'[Up] # <<>> /\ \A e \in Ways : e # Up => sent'[e] = sent[e]
  BY <1>1, <1>2, <1>3, <1>4, <1>5, TwoWays, OnlyWrites
<1>7. PhaseInv'
  BY <1>1, <1>5, <1>6, TwoWays DEF PhaseInv
<1> QED
  BY <1>6, <1>7 DEF IInv, Post

\* The last chunk is answered in the step that reads it: one direction is read, the
\* other written.
LEMMA ClientReadsProbeStep == ASSUME IInv, ClientReadsProbe PROVE IInv'
<1>1. /\ Typed /\ PhaseInv /\ \A e \in Ways : Post(e)
      /\ clientAt = "probing" /\ Deliver(Down)
      /\ \/ clientAt' = "ended" /\ UNCHANGED writers /\ Stop(Down)
         \/ /\ GoOn /\ clientAt' = "waiting"
            /\ WriteSealed(Up, Prolog("SPEED_REPORT", Up))
         \/ GoOn /\ UNCHANGED <<clientAt, writers>>
      /\ UNCHANGED <<hostAt, reading>>
  BY DEF IInv, Post, ClientReadsProbe
<1>2. Onward /\ hostAt' \in HostPhases /\ clientAt' \in ClientPhases
  BY <1>1 DEF Onward, ClientPhases, Typed
<1>3. reading' \in [Ways -> {"plain", "sealed"}]
  BY <1>1 DEF Typed
<1>4. CASE UNCHANGED writers /\ (GoOn \/ Stop(Down))
  <2>1. /\ Typed' /\ \A e \in Ways : Post(e)'
        /\ received'[Down] # <<>> /\ received'[Up] = received[Up]
        /\ UNCHANGED <<sent, ahead>>
    BY <1>1, <1>2, <1>3, <1>4, TwoWays, OnlyReads
  <2>2. PhaseInv'
    BY <1>1, <2>1 DEF PhaseInv
  <2> QED
    BY <2>1, <2>2 DEF IInv, Post
<1>5. CASE /\ GoOn /\ clientAt' = "waiting"
           /\ WriteSealed(Up, Prolog("SPEED_REPORT", Up))
  <2>1. PICK m \in Msg : m = Prolog("SPEED_REPORT", Up) /\ m.n = Length(sent[Up]) + 1
    BY <1>1, PrologIs, TwoWays DEF Prologue
  <2>2. sent[Up] # <<>> /\ WriterThere(Up)
    BY <1>1, TwoWays DEF PhaseInv, WriterThere
  <2>3. end' = end
    BY <1>5 DEF GoOn
  <2>4. SameWriter(Down)
    BY <1>1, <1>5, TwoWays DEF WriteSealed, WriteCells, SameWriter, Typed
  <2>5. /\ Post(Down)'
        /\ received' \in [Ways -> Seq(Msg)] /\ acc' \in [Ways -> Seq(Cell)]
        /\ received'[Down] # <<>> /\ SameReader(Up)
        /\ UNCHANGED <<wire, openCtr, rec, buf, ahead>>
    BY <1>1, <1>2, <2>3, <2>4, TwoWays, DeliverPost
  <2>6. /\ Post(Up)'
        /\ sent' \in [Ways -> Seq(Msg)] /\ out' \in [Ways -> Seq(Cell)]
        /\ sealCtr' \in [Ways -> Nat]
        /\ sent'[Up] # <<>>
    BY <1>1, <1>2, <1>5, <2>1, <2>2, <2>3, <2>5, TwoWays, SealedPost
  <2>7. Typed'
    BY <1>1, <1>2, <1>3, <2>3, <2>5, <2>6 DEF Typed
  <2>8. PhaseInv'
    BY <1>1, <1>5, <2>4, <2>5, <2>6 DEF PhaseInv, SameWriter, SameReader
  <2> QED
    BY <2>5, <2>6, <2>7, <2>8, TwoWays DEF IInv, Post
<1> QED
  BY <1>1, <1>4, <1>5

LEMMA ClientReadsInfoStep == ASSUME IInv, ClientReadsInfo PROVE IInv'
<1>1. /\ Typed /\ PhaseInv /\ clientAt = "waiting" /\ Deliver(Down)
      /\ \/ clientAt' = "streaming" /\ GoOn
         \/ clientAt' = "ended" /\ Stop(Down)
      /\ UNCHANGED <<hostAt, writers, reading>>
  BY DEF IInv, ClientReadsInfo
<1>2. Onward /\ hostAt' \in HostPhases /\ clientAt' \in ClientPhases
  BY <1>1 DEF Onward, ClientPhases, Typed
<1>3. reading' \in [Ways -> {"plain", "sealed"}]
  BY <1>1 DEF Typed
<1>4. /\ Typed' /\ \A e \in Ways : Post(e)'
      /\ received'[Down] # <<>> /\ received'[Up] = received[Up]
      /\ UNCHANGED <<sent, ahead>>
  BY <1>1, <1>2, <1>3, TwoWays, OnlyReads
<1>5. PhaseInv'
  BY <1>1, <1>4 DEF PhaseInv
<1> QED
  BY <1>4, <1>5 DEF IInv, Post

LEMMA ClientReadsStep == ASSUME IInv, ClientReads PROVE IInv'
<1>1. /\ Typed /\ PhaseInv /\ clientAt = "streaming" /\ Deliver(Down)
      /\ \/ clientAt' = "ended" /\ Stop(Down)
         \/ clientAt' = clientAt /\ GoOn
      /\ UNCHANGED <<hostAt, writers, reading>>
  BY DEF IInv, ClientReads
<1>2. Onward /\ hostAt' \in HostPhases /\ clientAt' \in ClientPhases
  BY <1>1 DEF Onward, ClientPhases, Typed
<1>3. reading' \in [Ways -> {"plain", "sealed"}]
  BY <1>1 DEF Typed
<1>4. /\ Typed' /\ \A e \in Ways : Post(e)'
      /\ received'[Down] # <<>> /\ received'[Up] = received[Up]
      /\ UNCHANGED <<sent, ahead>>
  BY <1>1, <1>2, <1>3, TwoWays, OnlyReads
<1>5. PhaseInv'
  BY <1>1, <1>4 DEF PhaseInv
<1> QED
  BY <1>4, <1>5 DEF IInv, Post

LEMMA ClientStep == ASSUME IInv, Client PROVE IInv'
BY ClientReadsHandshakeStep, ClientReadsProbeStep, ClientReadsInfoStep, ClientReadsStep
   DEF Client

\* What the users and the stream have the two ends write: the host once it has written
\* before, the client once it has.
LEMMA StreamWriteStep ==
    ASSUME IInv, NEW d \in Ways, NEW ty \in Kinds, NEW len \in Nat,
           WriteSealed(d, Message(ty, d, len)),
           d = Down => hostAt \in {"gate", "streaming"},
           d = Up => clientAt = "streaming",
           \/ hostAt' \in {hostAt, "ended"}
           \/ hostAt = "gate" /\ hostAt' = "informed",
           clientAt' = clientAt,
           UNCHANGED <<wire, readers, received, end>>
    PROVE  IInv'
<1>1. /\ Typed /\ PhaseInv
      /\ UNCHANGED <<wire, openCtr, reading, rec, buf, ahead, acc, received, end>>
  BY DEF IInv, readers
<1>2. sent[d] # <<>> /\ WriterThere(d)
  BY <1>1, TwoWays DEF PhaseInv, WriterThere
<1>3. Onward /\ hostAt' \in HostPhases /\ clientAt' \in ClientPhases
  BY <1>1 DEF Onward, HostPhases, Typed
<1>4. PICK m \in Msg : m = Message(ty, d, len) /\ m.n = Length(sent[d]) + 1
  BY <1>1, MessageIs
<1>5. reading' \in [Ways -> {"plain", "sealed"}]
  BY <1>1 DEF Typed
<1>6. /\ Typed' /\ \A e \in Ways : Post(e)'
      /\ sent'[d] # <<>> /\ \A e \in Ways : e # d => sent'[e] = sent[e]
  BY <1>1, <1>2, <1>3, <1>4, <1>5, OnlyWrites
<1>7. \A e \in Ways : sent'[e] = <<>> <=> sent[e] = <<>>
  BY <1>2, <1>6
<1>8. PhaseInv'
  BY <1>1, <1>7, TwoWays DEF PhaseInv
<1> QED
  BY <1>6, <1>8 DEF IInv, Post

LEMMA UsersStep == ASSUME IInv, Users PROVE IInv'
<1>1. CASE Approve
  <2>1. PICK len \in Nat : len = LenOf["STREAM_INFO"]
    BY Naturals_ DEF Prologue
  <2>2. WriteSealed(Down, Message("STREAM_INFO", Down, len))
    BY <1>1, <2>1 DEF Approve, Prolog
  <2> QED
    BY <1>1, <2>2, TwoWays, StreamWriteStep DEF Approve, Kinds, Prologue
<1>2. CASE Refuse
  <2>1. PICK ty \in Kinds : WriteSealed(Down, Message(ty, Down, 0))
    BY <1>2 DEF Refuse, Kinds
  <2> QED
    BY <1>2, <2>1, TwoWays, StreamWriteStep DEF Refuse
<1>3. CASE Answer
  BY <1>3, AnswerStep
<1>4. CASE HostSends
  <2>1. PICK ty \in Kinds, len \in Nat : WriteSealed(Down, Message(ty, Down, len))
    BY <1>4, Naturals_ DEF HostSends, Kinds
  <2> QED
    BY <1>4, <2>1, TwoWays, StreamWriteStep DEF HostSends
<1>5. CASE ClientSends
  <2>1. PICK ty \in Kinds, len \in Nat : WriteSealed(Up, Message(ty, Up, len))
    BY <1>5, Naturals_ DEF ClientSends, Kinds
  <2> QED
    BY <1>5, <2>1, TwoWays, StreamWriteStep DEF ClientSends
<1> QED
  BY <1>1, <1>2, <1>3, <1>4, <1>5 DEF Users

--------------------------------------------------------------------------------
(* The invariant.                                                                *)

LEMMA InitIInv == Init => IInv
<1> SUFFICES ASSUME Init PROVE IInv
  OBVIOUS
<1>1. <<>> \in Seq(Msg) /\ <<>> \in Seq(Cell) /\ Length(<<>>) = 0
  BY EmptySeq DEF Length
<1>2. Typed
  BY <1>1 DEF Init, Typed, HostPhases, ClientPhases, Ends
<1>3. PhaseInv
  BY TwoWays DEF Init, PhaseInv
<1>4. SUFFICES ASSUME NEW d \in Ways
               PROVE  Bounded(d) /\ Written(d) /\ ReadInv(d) /\ Link(d)
  BY <1>2, <1>3 DEF IInv
<1>5. /\ sent[d] = <<>> /\ received[d] = <<>> /\ out[d] = <<>> /\ wire[d] = <<>>
      /\ rec[d] = <<>> /\ buf[d] = <<>> /\ ahead[d] = <<>> /\ acc[d] = <<>>
      /\ sealCtr[d] = 0 /\ openCtr[d] = 0 /\ end[d] = "open"
  BY DEF Init
<1>6. Bounded(d) /\ Written(d) /\ ReadInv(d)
  BY <1>1, <1>5, Naturals_ DEF Bounded, Written, ReadInv
<1>7. PICK S \in Layouts : \A n \in Nat : S[n] = 0
  <2>1. [n \in Nat |-> 0] \in Layouts /\ \A n \in Nat : [k \in Nat |-> 0][n] = 0
    BY DEF Layouts
  <2> QED
    BY <2>1
<1>8. Stream(d, S, 0)
  <2>1. S[Length(sent[d]) + 1] = 0
    BY <1>1, <1>5, <1>7
  <2> QED
    BY <1>1, <1>5, <2>1 DEF Stream, Laid, OnWire, InOut
<1>9. Next1(d) = 1
  BY <1>1, <1>5 DEF Next1
<1>10. InClear(d, Next1(d), S, 0)
  BY <1>1, <1>5, <1>7, <1>9 DEF InClear
<1>11. Joined(d, S, 0)
  BY <1>8, <1>10 DEF Joined, Reader
<1> QED
  BY <1>6, <1>11 DEF Link

LEMMA NextIInv == IInv /\ [Next]_vars => IInv'
<1> SUFFICES ASSUME IInv, [Next]_vars PROVE IInv'
  OBVIOUS
<1>1. CASE Machine
  BY <1>1, CarryStep, HostStep, ClientStep DEF Machine
<1>2. CASE Users
  BY <1>2, UsersStep
<1>3. CASE \E d \in Ways : Leave(d)
  BY <1>3, LeaveStep
<1>4. CASE UNCHANGED vars
  <2>1. /\ Typed /\ PhaseInv /\ \A e \in Ways : Post(e)
        /\ UNCHANGED <<hostAt, clientAt, sent, out, sealCtr, wire, openCtr, reading, rec,
                       buf, ahead, acc, received, end>>
    BY <1>4 DEF vars, writers, readers, IInv, Post
  <2>2. Typed' /\ PhaseInv'
    BY <2>1 DEF Typed, PhaseInv
  <2>3. \A e \in Ways : Post(e)'
    BY <2>1, Untouched DEF Onward, SameWriter, SameReader
  <2> QED
    BY <2>2, <2>3 DEF IInv, Post
<1> QED
  BY <1>1, <1>2, <1>3, <1>4 DEF Next

LEMMA Invariance == Spec => []IInv
BY InitIInv, NextIInv, PTL DEF Spec

--------------------------------------------------------------------------------
(* The theorems.                                                                 *)

\* Every variable has its type, TCP and the BufReader hold no more than they can, and no
\* record is opened that has not been sealed.
THEOREM TypeCorrect == Spec => []TypeOK
<1>1. IInv => TypeOK
  <2>1. SUFFICES ASSUME IInv, NEW d \in Ways
                 PROVE  /\ Len(wire[d]) <= Window /\ Len(ahead[d]) <= BufLen
                        /\ openCtr[d] <= sealCtr[d] /\ sealCtr[d] <= Len(sent[d])
                        /\ reading[d] \in {"plain", "sealed"} /\ end[d] \in Ends
    BY DEF IInv, Typed, TypeOK
  <2>2. Typed /\ Bounded(d) /\ Written(d)
    BY <2>1 DEF IInv
  <2>3. /\ Length(sent[d]) \in Nat /\ sealCtr[d] \in Nat
        /\ sent[d] = <<>> <=> Length(sent[d]) = 0
    BY <2>2, TypesAt
  <2>4. sealCtr[d] <= Length(sent[d])
    BY <2>2, <2>3 DEF Written
  <2> QED
    BY <2>2, <2>4 DEF Typed, Bounded, Length
<1> QED
  BY <1>1, Invariance, PTL

\* Each end reads what the other wrote, in order, with nothing missing, mixed or repeated,
\* whatever portions TCP takes and gives, across the change from plain to sealed and the
\* host's change of reader (proto.rs read_msg, cipher.rs read).
THEOREM ReadsInOrder == Spec => []InOrder
<1>1. IInv => InOrder
  <2>1. SUFFICES ASSUME IInv, NEW d \in Ways
                 PROVE  /\ Len(received[d]) <= Len(sent[d])
                        /\ received[d] = Front(sent[d], Len(received[d]))
    BY DEF InOrder
  <2>2. Typed /\ ReadInv(d)
    BY <2>1 DEF IInv
  <2>3. PICK k \in Nat : k = Length(received[d])
    BY <2>2, TypesAt
  <2>4. /\ received[d] \in Seq(Msg) /\ sent[d] \in Seq(Msg)
        /\ k <= Length(sent[d]) /\ \A i \in 1 .. k : received[d][i] = sent[d][i]
    BY <2>2, <2>3, TypesAt DEF ReadInv
  <2> DEFINE f == Front(sent[d], k)
  <2>5. f \in Seq(Msg) /\ Length(f) = k /\ \A i \in 1 .. k : f[i] = sent[d][i]
    BY <2>4, FrontIs
  <2> HIDE DEF f
  <2>6. received[d] = f
    BY <2>3, <2>4, <2>5, SeqEqual DEF Length
  <2> QED
    BY <2>3, <2>4, <2>6 DEF f, Length
<1> QED
  BY <1>1, Invariance, PTL

\* The two counters of a direction stay in step, so that every record opens; a reader that
\* stops on a limit has a message before it that is too long, and has read none such
\* (cipher.rs seal and open, proto.rs:49).
THEOREM StopsOnlyByLimit == Spec => []EndsOnlyByLimit
<1>1. IInv => EndsOnlyByLimit
  <2>1. SUFFICES ASSUME IInv, NEW d \in Ways
                 PROVE  /\ end[d] # "aead"
                        /\ end[d] = "limit" => sent[d][Len(received[d]) + 1].len > MsgLimit
                        /\ \A i \in 1 .. Len(received[d]) : received[d][i].len <= MsgLimit
    BY DEF EndsOnlyByLimit
  <2>2. ReadInv(d)
    BY <2>1 DEF IInv
  <2> QED
    BY <2>2 DEF ReadInv, Length
<1> QED
  BY <1>1, Invariance, PTL
================================================================================
