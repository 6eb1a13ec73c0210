--------------------------- MODULE KnownHostsProof -----------------------------
(* Theorems about the files the programs share, for any programs, addresses and  *)
(* fingerprints: what is accepted without a question was confirmed, and stands   *)
(* under one fingerprint per address.                                            *)
EXTENDS KnownHosts, WellFoundedInduction, TLAPS

--------------------------------------------------------------------------------
(* The inductive invariant.  A program that fills the identity carries the name  *)
(* it generated, and one about to save a line has its user's yes; every line was *)
(* confirmed; and what is accepted without a question is still the first line of *)
(* its address, which is why no later line can be accepted as well.              *)

RunInv == \A p \in Programs :
    /\ run[p].at = "fill" => run[p].name \in 1 .. keys
    /\ run[p].at \in {"check", "ask", "save"} => run[p].peer \in Lines
    /\ run[p].at = "save" => run[p].peer \in confirmed
LinesInv == \A i \in DOMAIN known : known[i] \in confirmed
FirstLine(i) == \A j \in DOMAIN known : j < i => known[j][1] # known[i][1]
SilentInv == \A pin \in silent : \E i \in DOMAIN known : known[i] = pin /\ FirstLine(i)

IInv == TypeOK /\ RunInv /\ LinesInv /\ SilentInv

Shown == {"dial", "check", "ask", "save", "on"}
NameOk(r, n) == r.mode = "viewer" /\ r.at \in Shown
                => r.name \in 1 .. n \/ (r.name = NoName /\ r.failed)

\* What a program's next place asks of it.
RunOk(r, n, yes) ==
    /\ r \in Runs
    /\ r.at = "fill" => r.name \in 1 .. n
    /\ NameOk(r, n)
    /\ r.at \in {"check", "ask", "save"} => r.peer \in Lines
    /\ r.at = "save" => r.peer \in yes

\* The least line of an address exists: CHOOSE finds it.
LEMMA PinnedIsFirst ==
    ASSUME TypeOK
    PROVE  \A a \in Addresses : LinesOf(a) # {} =>
               \E i \in DOMAIN known : Pinned(a) = known[i] /\ known[i][1] = a /\ FirstLine(i)
  <1> SUFFICES ASSUME NEW a \in Addresses, LinesOf(a) # {}
               PROVE  \E i \in DOMAIN known : /\ Pinned(a) = known[i]
                                              /\ known[i][1] = a /\ FirstLine(i)
    OBVIOUS
  <1>1. LinesOf(a) \subseteq Nat
    BY DEF TypeOK, LinesOf
  <1> DEFINE Less == OpToRel(<, Nat)
  <1>2. IsWellFoundedOn(Less, Nat)
    BY NatLessThanWellFounded
  <1>3. \E i \in LinesOf(a) : \A j \in LinesOf(a) : <<j, i>> \notin Less
    <2> HIDE DEF Less
    <2> QED BY <1>1, <1>2, WFMin
  <1>4. PICK i \in LinesOf(a) : \A j \in LinesOf(a) : <<j, i>> \notin Less
    BY <1>3
  <1>5. \A j, k \in Nat : j < k => <<j, k>> \in Less
    BY DEF OpToRel
  <1>6. ASSUME NEW j \in LinesOf(a) PROVE i <= j
    <2> HIDE DEF Less
    <2>1. i \in Nat /\ j \in Nat
      BY <1>1
    <2>2. <<j, i>> \notin Less
      BY <1>4
    <2>3. ~(j < i)
      BY <1>5, <2>1, <2>2
    <2> QED BY <2>1, <2>3
  <1> DEFINE least == CHOOSE k \in LinesOf(a) : \A j \in LinesOf(a) : k <= j
  <1>7. least \in LinesOf(a) /\ \A j \in LinesOf(a) : least <= j
    BY <1>6
  <1>8. least \in DOMAIN known /\ known[least][1] = a /\ Pinned(a) = known[least]
    BY <1>7 DEF LinesOf, Pinned
  <1>9. FirstLine(least)
    <2> HIDE DEF least
    <2> SUFFICES ASSUME NEW j \in DOMAIN known, j < least, known[j][1] = known[least][1]
                 PROVE  FALSE
      BY DEF FirstLine
    <2>1. j \in LinesOf(a)
      BY <1>8 DEF LinesOf
    <2>2. least <= j /\ least \in Nat /\ j \in Nat
      BY <2>1, <1>7, <1>1
    <2> QED BY <2>2
  <1> HIDE DEF least
  <1> QED BY <1>8, <1>9

\* A step of one program that moves no line keeps what is said of the others.
LEMMA OneRuns ==
    ASSUME IInv, NEW p \in Programs, NEW r,
           run' = [run EXCEPT ![p] = r],
           keys \in Nat, keys' \in Nat, keys <= keys', confirmed \subseteq confirmed',
           RunOk(r, keys', confirmed')
    PROVE  /\ run' \in [Programs -> Runs]
           /\ RunInv'
           /\ \A q \in Programs : NameOk(run'[q], keys')
  <1>1. run' \in [Programs -> Runs]
    BY DEF IInv, TypeOK, RunOk
  <1>2. ASSUME NEW q \in Programs PROVE RunOk(run'[q], keys', confirmed')
    <2>1. CASE q = p
      BY <2>1 DEF IInv, TypeOK
    <2>2. CASE q # p
      <3>1. run'[q] = run[q] /\ run[q] \in Runs
        BY <2>2 DEF IInv, TypeOK
      <3>2. RunOk(run[q], keys, confirmed)
        BY <3>1 DEF IInv, TypeOK, RunInv, RunOk, NameOk, Shown
      <3> QED BY <3>1, <3>2 DEF RunOk, NameOk
    <2> QED BY <2>1, <2>2
  <1> QED BY <1>1, <1>2 DEF RunInv, RunOk

\* The files' other state is unchanged, or grows as the invariant allows.
LEMMA KeepHosts ==
    ASSUME IInv, UNCHANGED hosts
    PROVE  /\ LinesInv' /\ SilentInv'
           /\ presented' \in [Addresses -> Prints]
           /\ known' \in Seq(Lines) /\ Len(known') <= MaxLines
           /\ confirmed' \subseteq Lines /\ silent' \subseteq Lines
  BY DEF IInv, TypeOK, hosts, LinesInv, SilentInv, FirstLine

\* A program goes on, under the name it has or another, or ends.
LEMMA GotoIsRun ==
    ASSUME TypeOK, NEW p \in Programs, NEW place \in Places
    PROVE  /\ Goto(p, place) =>
                \E r \in Runs : /\ run' = [run EXCEPT ![p] = r]
                                /\ r = IF place = "off" THEN Off ELSE [run[p] EXCEPT !.at = place]
           /\ Off \in Runs
           /\ run[p] \in Runs
  <1>1. Off \in Runs
    BY DEF Off, Runs, Places, Modes, NoName, NoPeer
  <1>2. run[p] \in Runs /\ run \in [Programs -> Runs]
    BY DEF TypeOK
  <1>3. CASE place = "off"
    BY <1>1, <1>2, <1>3 DEF Goto
  <1>4. CASE place # "off"
    <2> DEFINE s == [run[p] EXCEPT !.at = place]
    <2>1. s \in Runs
      BY <1>2 DEF Runs
    <2>2. Goto(p, place) => run' = [run EXCEPT ![p] = s]
      BY <1>2, <1>4 DEF Goto
    <2> QED BY <1>1, <1>2, <1>4, <2>1, <2>2
  <1> QED BY <1>3, <1>4

\* What is left to show of a step once the program's own record is known.
LEMMA StepIInv ==
    ASSUME IInv, NEW p \in Programs, NEW r,
           run' = [run EXCEPT ![p] = r],
           UNCHANGED hosts,
           keys' \in 0 .. MaxKeys, keys <= keys',
           identity' \in Keys \cup {Absent, Broken}, identity' \in Keys => identity' <= keys',
           RunOk(r, keys', confirmed)
    PROVE  IInv'
  <1>1. keys \in Nat /\ keys' \in Nat
    BY BoundAssumption DEF IInv, TypeOK
  <1>2. confirmed' = confirmed
    BY DEF hosts
  <1>3. /\ run' \in [Programs -> Runs]
        /\ RunInv'
        /\ \A q \in Programs : NameOk(run'[q], keys')
    BY <1>1, <1>2, OneRuns
  <1>4. TypeOK'
    BY <1>3, KeepHosts DEF TypeOK, NameOk, Shown
  <1> QED BY <1>3, <1>4, KeepHosts DEF IInv

\* The same of a step that leaves the files alone.
LEMMA QuietStep ==
    ASSUME IInv, NEW p \in Programs, UNCHANGED <<files, hosts>>
    PROVE  \A r \in Runs : run' = [run EXCEPT ![p] = r] /\ RunOk(r, keys, confirmed) => IInv'
  <1> SUFFICES ASSUME NEW r \in Runs, run' = [run EXCEPT ![p] = r], RunOk(r, keys, confirmed)
               PROVE  IInv'
    OBVIOUS
  <1>1. /\ keys' \in 0 .. MaxKeys /\ keys <= keys'
        /\ identity' \in Keys \cup {Absent, Broken}
        /\ identity' \in Keys => identity' <= keys'
    BY BoundAssumption DEF IInv, TypeOK, files
  <1>2. UNCHANGED hosts /\ RunOk(r, keys', confirmed)
    BY DEF files
  <1> QED BY <1>1, <1>2, StepIInv

--------------------------------------------------------------------------------
LEMMA InitIInv == Init => IInv
  <1> SUFFICES ASSUME Init PROVE IInv
    OBVIOUS
  <1>1. Off \in Runs
    BY DEF Off, Runs, Places, Modes, NoName, NoPeer
  <1>2. TypeOK
    <2>1. identity = 0 /\ identity \notin Keys /\ identity \in {Absent} /\ keys \in 0 .. MaxKeys
      BY BoundAssumption DEF Init, Absent, Keys
    <2>2. known = <<>> /\ known \in Seq(Lines) /\ Len(known) <= MaxLines
      BY BoundAssumption DEF Init
    <2>3. run \in [Programs -> Runs] /\ \A p \in Programs : run[p].at = "off"
      <3>1. Off.at = "off"
        BY DEF Off
      <3> QED BY <1>1, <3>1 DEF Init
    <2> QED BY <2>1, <2>2, <2>3 DEF Init, TypeOK
  <1>3. RunInv
    <2>1. Off.at = "off"
      BY DEF Off
    <2>2. \A p \in Programs : run[p] = Off
      BY DEF Init
    <2> QED BY <2>1, <2>2 DEF RunInv
  <1>4. DOMAIN known = {} /\ silent = {}
    <2>1. known = <<>> /\ silent = {}
      BY DEF Init
    <2> QED BY <2>1
  <1> QED BY <1>2, <1>3, <1>4 DEF IInv, LinesInv, SilentInv

\* Starting, the wizard's question, loading and unlocking leave the files alone.
LEMMA StartStep == ASSUME IInv, NEW p \in Programs, Start(p) PROVE IInv'
  <1>1. PICK m \in Modes, place \in {"load", "create", "overwrite"} :
          run' = [run EXCEPT ![p].at = place, ![p].mode = m]
    BY DEF Start
  <1>2. PICK r \in Runs : /\ run' = [run EXCEPT ![p] = r] /\ r.at = place
    <2> DEFINE s == [run[p] EXCEPT !.at = place, !.mode = m]
    <2>1. run[p] \in Runs /\ run \in [Programs -> Runs]
      BY DEF IInv, TypeOK
    <2>2. s \in Runs /\ s.at = place
      BY <2>1 DEF Runs, Places
    <2>3. run' = [run EXCEPT ![p] = s]
      BY <1>1, <2>1
    <2> HIDE DEF s
    <2> QED BY <2>2, <2>3
  <1>3. RunOk(r, keys, confirmed)
    BY <1>2 DEF RunOk, NameOk, Shown
  <1> QED BY <1>2, <1>3, QuietStep DEF Start

LEMMA OverwriteStep == ASSUME IInv, NEW p \in Programs, Overwrite(p) PROVE IInv'
  <1>1. PICK place \in {"create", "off"} : Goto(p, place)
    BY DEF Overwrite
  <1>2. PICK r \in Runs : /\ run' = [run EXCEPT ![p] = r]
                          /\ r = IF place = "off" THEN Off ELSE [run[p] EXCEPT !.at = place]
    BY <1>1, GotoIsRun DEF IInv, Places
  <1>3. run[p] \in Runs
    BY DEF IInv, TypeOK
  <1>4. RunOk(r, keys, confirmed)
    BY <1>1, <1>2, <1>3 DEF RunOk, NameOk, Off, Shown, Runs
  <1> QED BY <1>2, <1>4, QuietStep DEF Overwrite

LEMMA EndStep == ASSUME IInv, NEW p \in Programs, End(p) PROVE IInv'
  <1>1. Off \in Runs /\ RunOk(Off, keys, confirmed)
    BY DEF RunOk, NameOk, Off, Shown, Runs, Places, Modes, NoName, NoPeer
  <1>2. run' = [run EXCEPT ![p] = Off]
    BY DEF End, Goto
  <1> QED BY <1>1, <1>2, QuietStep DEF End

\* A program that goes on under a name: the one it has, or one it was given.
LEMMA GotoAsIsRun ==
    ASSUME TypeOK, NEW p \in Programs, NEW place \in Places \ {"off"}
    PROVE  \A own \in {NoName} \cup Keys :
               GotoAs(p, place, own) =>
                   \E r \in Runs : /\ run' = [run EXCEPT ![p] = r]
                                   /\ r.at = place /\ r.name = own
                                   /\ r.mode = run[p].mode /\ r.peer = run[p].peer
  <1> SUFFICES ASSUME NEW own \in {NoName} \cup Keys, GotoAs(p, place, own)
               PROVE  \E r \in Runs : /\ run' = [run EXCEPT ![p] = r]
                                      /\ r.at = place /\ r.name = own
                                      /\ r.mode = run[p].mode /\ r.peer = run[p].peer
    OBVIOUS
  <1> DEFINE s == [run[p] EXCEPT !.at = place, !.name = own]
  <1>1. run[p] \in Runs /\ run \in [Programs -> Runs]
    BY DEF TypeOK
  <1>2. s \in Runs /\ s.at = place /\ s.name = own /\ s.mode = run[p].mode /\ s.peer = run[p].peer
    BY <1>1 DEF Runs
  <1>3. run' = [run EXCEPT ![p] = s]
    BY <1>1 DEF GotoAs
  <1> HIDE DEF s
  <1> QED BY <1>2, <1>3

LEMMA NamedStep ==
    ASSUME IInv, NEW p \in Programs, identity \in Keys, GotoAs(p, Named(p), identity),
           UNCHANGED <<files, hosts>>
    PROVE  IInv'
  <1>1. Named(p) \in {"dial", "on"} /\ Named(p) \in Places \ {"off"}
    BY DEF Named, Places
  <1>2. PICK r \in Runs : /\ run' = [run EXCEPT ![p] = r]
                          /\ r.at = Named(p) /\ r.name = identity
    BY <1>1, GotoAsIsRun DEF IInv
  <1>3. identity \in 1 .. keys
    BY BoundAssumption DEF IInv, TypeOK, Keys
  <1>4. RunOk(r, keys, confirmed)
    BY <1>1, <1>2, <1>3 DEF RunOk, NameOk, Shown
  <1> QED BY <1>2, <1>4, QuietStep

LEMMA UnnamedStep ==
    ASSUME IInv, NEW p \in Programs, GotoAs(p, Unnamed(p), NoName), UNCHANGED <<files, hosts>>
    PROVE  IInv'
  <1>1. Unnamed(p) \in Places \ {"off"}
    BY DEF Unnamed, Places
  <1>2. PICK r \in Runs : /\ run' = [run EXCEPT ![p] = r]
                          /\ r.at = Unnamed(p) /\ r.mode = run[p].mode
    BY <1>1, GotoAsIsRun DEF IInv
  <1>3. r.at \in {"create", "on"} /\ (r.mode = "viewer" => r.at = "create")
    BY <1>2 DEF Unnamed
  <1>4. RunOk(r, keys, confirmed)
    BY <1>2, <1>3 DEF RunOk, NameOk, Shown
  <1> QED BY <1>2, <1>4, QuietStep

LEMMA LoadStep == ASSUME IInv, NEW p \in Programs, LoadFingerprint(p) PROVE IInv'
  <1>1. UNCHANGED <<files, hosts>>
    BY DEF LoadFingerprint
  <1>2. \/ identity \in Keys /\ GotoAs(p, Named(p), identity)
        \/ GotoAs(p, Unnamed(p), NoName)
        \/ Goto(p, "unlock")
    BY DEF LoadFingerprint, IInv, TypeOK
  <1>3. CASE Goto(p, "unlock")
    <2>1. PICK r \in Runs : /\ run' = [run EXCEPT ![p] = r]
                            /\ r = [run[p] EXCEPT !.at = "unlock"]
      BY <1>3, GotoIsRun DEF IInv, Places
    <2>2. r.at = "unlock"
      BY <2>1 DEF Runs
    <2>3. RunOk(r, keys, confirmed)
      BY <2>2 DEF RunOk, NameOk, Shown
    <2> QED BY <1>1, <2>1, <2>3, QuietStep
  <1> QED BY <1>1, <1>2, <1>3, NamedStep, UnnamedStep

LEMMA UnlockStep == ASSUME IInv, NEW p \in Programs, Unlock(p) PROVE IInv'
  BY NamedStep, UnnamedStep DEF Unlock

\* The new key is the next one; the file is left unreadable, or as it was.
LEMMA CreateStep == ASSUME IInv, NEW p \in Programs, Create(p) PROVE IInv'
  <1>1. /\ keys \in 0 .. MaxKeys /\ keys' = keys + 1 /\ keys' \in 0 .. MaxKeys
        /\ keys' \in Keys /\ MaxKeys \in Nat
    BY BoundAssumption DEF IInv, TypeOK, Create, Keys
  <1>2. /\ identity' \in Keys \cup {Absent, Broken}
        /\ identity' \in Keys => identity' <= keys'
    BY <1>1 DEF Create, IInv, TypeOK, Broken, Keys
  <1>3. PICK r \in Runs : run' = [run EXCEPT ![p] = r] /\ RunOk(r, keys', confirmed)
    <2>1. CASE \E place \in {"fill", "dial"} : GotoAs(p, place, keys')
      <3>1. PICK place \in {"fill", "dial"} : GotoAs(p, place, keys')
        BY <2>1
      <3>2. PICK r \in Runs : /\ run' = [run EXCEPT ![p] = r]
                              /\ r.at = place /\ r.name = keys'
        BY <1>1, <3>1, GotoAsIsRun DEF IInv, Places
      <3>3. keys' \in 1 .. keys'
        BY <1>1
      <3>4. RunOk(r, keys', confirmed)
        BY <3>2, <3>3 DEF RunOk, NameOk
      <3> QED BY <3>2, <3>4
    <2>2. CASE Goto(p, "off")
      <3>1. Off \in Runs /\ RunOk(Off, keys', confirmed)
        BY DEF RunOk, NameOk, Off, Shown, Runs, Places, Modes, NoName, NoPeer
      <3> QED BY <2>2, <3>1 DEF Goto
    <2> QED BY <1>1, <2>1, <2>2 DEF Create, Unsaved
  <1>4. UNCHANGED hosts /\ keys <= keys'
    BY <1>1 DEF Create
  <1> QED BY <1>1, <1>2, <1>3, <1>4, StepIInv

\* A viewer that cannot generate an identity goes on without a name, and says so.
LEMMA CreateFailsStep == ASSUME IInv, NEW p \in Programs, CreateFails(p) PROVE IInv'
  <1>1. UNCHANGED <<files, hosts>>
    BY DEF CreateFails
  <1>2. CASE run' = [run EXCEPT ![p].at = "dial", ![p].name = NoName, ![p].failed = TRUE]
    <2> DEFINE s == [run[p] EXCEPT !.at = "dial", !.name = NoName, !.failed = TRUE]
    <2>1. run[p] \in Runs /\ run \in [Programs -> Runs]
      BY DEF IInv, TypeOK
    <2>2. s \in Runs /\ s.at = "dial" /\ s.name = NoName /\ s.failed
      BY <2>1 DEF Runs, Places
    <2>3. run' = [run EXCEPT ![p] = s]
      BY <1>2, <2>1
    <2> HIDE DEF s
    <2>4. RunOk(s, keys, confirmed)
      BY <2>2 DEF RunOk, NameOk
    <2> QED BY <1>1, <2>2, <2>3, <2>4, QuietStep
  <1>3. CASE Goto(p, "off")
    <2>1. Off \in Runs /\ RunOk(Off, keys, confirmed)
      BY DEF RunOk, NameOk, Off, Shown, Runs, Places, Modes, NoName, NoPeer
    <2>2. run' = [run EXCEPT ![p] = Off]
      BY <1>3 DEF Goto
    <2> QED BY <1>1, <2>1, <2>2, QuietStep
  <1> QED BY <1>2, <1>3 DEF CreateFails

LEMMA FillStep == ASSUME IInv, NEW p \in Programs, Fill(p) PROVE IInv'
  <1>1. keys' = keys /\ keys \in 0 .. MaxKeys /\ UNCHANGED hosts /\ MaxKeys \in Nat
    BY BoundAssumption DEF IInv, TypeOK, Fill
  <1>2. run[p].name \in 1 .. keys
    BY DEF IInv, RunInv, Fill, From
  <1>3. /\ identity' \in Keys \cup {Absent, Broken}
        /\ identity' \in Keys => identity' <= keys'
    BY <1>1, <1>2 DEF Fill, Broken, Keys
  <1>4. run[p] \in Runs
    BY DEF IInv, TypeOK
  <1>5. PICK r \in Runs : run' = [run EXCEPT ![p] = r] /\ RunOk(r, keys', confirmed)
    <2>1. CASE \E place \in {"dial", "load"} : Goto(p, place)
      <3>1. PICK place \in {"dial", "load"} : Goto(p, place)
        BY <2>1
      <3>2. PICK r \in Runs : /\ run' = [run EXCEPT ![p] = r]
                              /\ r = [run[p] EXCEPT !.at = place]
        BY <3>1, GotoIsRun DEF IInv, Places
      <3>3. r.at = place /\ r.name = run[p].name
        BY <1>4, <3>2 DEF Runs
      <3>4. RunOk(r, keys', confirmed)
        BY <1>1, <1>2, <3>3 DEF RunOk, NameOk
      <3> QED BY <3>2, <3>4
    <2>2. CASE GotoAs(p, "dial", run[p].name)
      <3>1. run[p].name \in {NoName} \cup Keys
        BY <1>4 DEF Runs
      <3>2. PICK r \in Runs : /\ run' = [run EXCEPT ![p] = r]
                              /\ r.at = "dial" /\ r.name = run[p].name
        BY <2>2, <3>1, GotoAsIsRun DEF IInv, Places
      <3>3. RunOk(r, keys', confirmed)
        BY <1>1, <1>2, <3>2 DEF RunOk, NameOk
      <3> QED BY <3>2, <3>3
    <2>3. CASE Goto(p, "off")
      <3>1. Off \in Runs /\ RunOk(Off, keys', confirmed)
        BY DEF RunOk, NameOk, Off, Shown, Runs, Places, Modes, NoName, NoPeer
      <3> QED BY <2>3, <3>1 DEF Goto
    <2> QED BY <2>1, <2>2, <2>3 DEF Fill, Saved, Unsaved
  <1>6. keys <= keys' /\ keys' \in 0 .. MaxKeys
    BY <1>1
  <1> QED BY <1>1, <1>3, <1>5, <1>6, StepIInv

LEMMA DialStep == ASSUME IInv, NEW p \in Programs, Dial(p) PROVE IInv'
  <1>1. PICK a \in Addresses :
          run' = [run EXCEPT ![p].at = "check", ![p].peer = <<a, presented[a]>>]
    BY DEF Dial
  <1> DEFINE s == [run[p] EXCEPT !.at = "check", !.peer = <<a, presented[a]>>]
  <1>2. run[p] \in Runs /\ run \in [Programs -> Runs] /\ <<a, presented[a]>> \in Lines
    BY DEF IInv, TypeOK, Lines
  <1>3. /\ s \in Runs /\ s.at = "check" /\ s.peer \in Lines /\ s.mode = run[p].mode
        /\ s.name = run[p].name /\ s.failed = run[p].failed
    BY <1>2 DEF Runs, Places
  <1>4. run' = [run EXCEPT ![p] = s]
    BY <1>1, <1>2
  <1>5. run[p].mode = "viewer" => \/ run[p].name \in 1 .. keys
                                  \/ run[p].name = NoName /\ run[p].failed
    BY DEF IInv, TypeOK, Dial, From
  <1> HIDE DEF s
  <1>6. RunOk(s, keys, confirmed)
    BY <1>3, <1>5 DEF RunOk, NameOk
  <1>7. UNCHANGED <<files, hosts>>
    BY DEF Dial
  <1>8. PICK r \in Runs : run' = [run EXCEPT ![p] = r] /\ RunOk(r, keys, confirmed)
    BY <1>3, <1>4, <1>6
  <1> QED BY <1>7, <1>8, QuietStep

--------------------------------------------------------------------------------
\* A program at the check, the question or the save goes to a place after it.
LEMMA NextPlace ==
    ASSUME IInv, NEW p \in Programs, run[p].at \in {"check", "ask", "save"},
           NEW place \in {"ask", "save", "on", "off"}, Goto(p, place)
    PROVE  /\ run' \in [Programs -> Runs]
           /\ \A q \in Programs \ {p} : run'[q] = run[q]
           /\ run'[p].at = place
           /\ place # "off" => /\ run'[p].peer = run[p].peer /\ run[p].peer \in Lines
                               /\ NameOk(run'[p], keys)
  <1>1. PICK r \in Runs : /\ run' = [run EXCEPT ![p] = r]
                          /\ r = IF place = "off" THEN Off ELSE [run[p] EXCEPT !.at = place]
    BY GotoIsRun DEF IInv, Places
  <1>2. run[p] \in Runs /\ run \in [Programs -> Runs]
    BY DEF IInv, TypeOK
  <1>3. r.at = place
    BY <1>1, <1>2 DEF Off, Runs
  <1>4. place # "off" => /\ r.peer = run[p].peer /\ r.mode = run[p].mode
                         /\ r.name = run[p].name /\ r.failed = run[p].failed
    BY <1>1, <1>2 DEF Runs
  <1>5. run[p].peer \in Lines /\ (place # "off" => NameOk(r, keys))
    BY <1>4 DEF IInv, TypeOK, RunInv, NameOk
  <1> QED BY <1>1, <1>2, <1>3, <1>4, <1>5

\* So its record stays as the invariant says, if it is asked before it saves.
LEMMA NextPlaceRuns ==
    ASSUME IInv, NEW p \in Programs, run[p].at \in {"check", "ask", "save"},
           NEW place \in {"ask", "save", "on", "off"}, Goto(p, place), keys' = keys,
           confirmed \subseteq confirmed', place = "save" => run[p].peer \in confirmed'
    PROVE  /\ run' \in [Programs -> Runs]
           /\ RunInv'
           /\ \A q \in Programs : NameOk(run'[q], keys')
  <1>1. \A q \in Programs :
          /\ run[q].at = "fill" => run[q].name \in 1 .. keys
          /\ run[q].at \in {"check", "ask", "save"} => run[q].peer \in Lines
          /\ run[q].at = "save" => run[q].peer \in confirmed
          /\ NameOk(run[q], keys)
    BY DEF IInv, RunInv, TypeOK, NameOk, Shown
  <1>2. ASSUME NEW q \in Programs
        PROVE  /\ run'[q].at = "fill" => run'[q].name \in 1 .. keys'
               /\ run'[q].at \in {"check", "ask", "save"} => run'[q].peer \in Lines
               /\ run'[q].at = "save" => run'[q].peer \in confirmed'
               /\ NameOk(run'[q], keys')
    <2>1. CASE q = p
      BY <2>1, NextPlace DEF NameOk, Shown
    <2>2. CASE q # p
      <3>1. run'[q] = run[q]
        BY <2>2, NextPlace
      <3> QED BY <1>1, <3>1
    <2> QED BY <2>1, <2>2
  <1> QED BY <1>2, NextPlace DEF RunInv

\* The identity is left alone from the check on.
LEMMA KeepFiles ==
    ASSUME IInv, UNCHANGED files
    PROVE  /\ keys' = keys /\ keys' \in 0 .. MaxKeys
           /\ identity' \in Keys \cup {Absent, Broken}
           /\ identity' \in Keys => identity' <= keys'
  BY DEF IInv, TypeOK, files

\* What the host shows is the first line of the address, so that line is in the file.
LEMMA CheckStep == ASSUME IInv, NEW p \in Programs, CheckKnownHost(p) PROVE IInv'
  <1>1. run[p].at = "check" /\ run[p].peer \in Lines /\ Addr(p) \in Addresses
    BY DEF CheckKnownHost, From, IInv, RunInv, Addr, Lines
  <1>2. /\ UNCHANGED files
        /\ presented' = presented /\ known' = known /\ confirmed' = confirmed
    BY DEF CheckKnownHost
  <1>3. PICK place \in {"ask", "on", "off"} : Goto(p, place)
    BY DEF CheckKnownHost
  <1>4. /\ run' \in [Programs -> Runs]
        /\ RunInv'
        /\ \A q \in Programs : NameOk(run'[q], keys')
    BY <1>1, <1>2, <1>3, KeepFiles, NextPlaceRuns
  <1>5. /\ silent' \subseteq Lines
        /\ \A pin \in silent' : \E i \in DOMAIN known : known[i] = pin /\ FirstLine(i)
    <2>1. silent \subseteq Lines
          /\ \A pin \in silent : \E i \in DOMAIN known : known[i] = pin /\ FirstLine(i)
      BY DEF IInv, SilentInv, TypeOK
    <2>2. CASE silent' = silent
      BY <2>1, <2>2
    <2>3. CASE LinesOf(Addr(p)) # {} /\ Pinned(Addr(p)) = run[p].peer
               /\ silent' = silent \cup {run[p].peer}
      <3>1. \E i \in DOMAIN known : known[i] = run[p].peer /\ FirstLine(i)
        BY <1>1, <2>3, PinnedIsFirst DEF IInv
      <3> QED BY <1>1, <2>1, <2>3, <3>1
    <2> QED BY <2>2, <2>3 DEF CheckKnownHost
  <1>6. SilentInv' /\ LinesInv'
    BY <1>2, <1>5 DEF SilentInv, FirstLine, IInv, LinesInv
  <1>7. TypeOK'
    BY <1>2, <1>4, <1>5, KeepFiles DEF IInv, TypeOK, NameOk, Shown
  <1> QED BY <1>4, <1>6, <1>7 DEF IInv

LEMMA ConfirmStep == ASSUME IInv, NEW p \in Programs, InteractiveKeyConfirm(p) PROVE IInv'
  <1>1. run[p].at = "ask" /\ run[p].peer \in Lines
    BY DEF InteractiveKeyConfirm, From, IInv, RunInv
  <1>2. /\ UNCHANGED files
        /\ presented' = presented /\ known' = known /\ silent' = silent
        /\ confirmed \subseteq confirmed' /\ confirmed' \subseteq Lines
    BY <1>1 DEF InteractiveKeyConfirm, IInv, TypeOK
  <1>3. /\ run' \in [Programs -> Runs]
        /\ RunInv'
        /\ \A q \in Programs : NameOk(run'[q], keys')
    <2>1. CASE Goto(p, "save") /\ run[p].peer \in confirmed'
      BY <1>1, <1>2, <2>1, KeepFiles, NextPlaceRuns
    <2>2. CASE Goto(p, "off")
      BY <1>1, <1>2, <2>2, KeepFiles, NextPlaceRuns
    <2> QED BY <2>1, <2>2 DEF InteractiveKeyConfirm
  <1>4. SilentInv' /\ LinesInv'
    BY <1>2 DEF SilentInv, FirstLine, IInv, LinesInv
  <1>5. TypeOK'
    BY <1>2, <1>3, KeepFiles DEF IInv, TypeOK, NameOk, Shown
  <1> QED BY <1>3, <1>4, <1>5 DEF IInv

\* A line goes behind those there are: no first line changes.
LEMMA SaveStep == ASSUME IInv, NEW p \in Programs, SaveKnownHost(p) PROVE IInv'
  <1>1. run[p].at = "save" /\ run[p].peer \in Lines /\ run[p].peer \in confirmed
    BY DEF SaveKnownHost, From, IInv, RunInv
  <1>2. /\ UNCHANGED files
        /\ presented' = presented /\ silent' = silent /\ confirmed' = confirmed
        /\ Goto(p, "on")
    BY DEF SaveKnownHost
  <1>3. /\ run' \in [Programs -> Runs]
        /\ RunInv'
        /\ \A q \in Programs : NameOk(run'[q], keys')
    BY <1>1, <1>2, KeepFiles, NextPlaceRuns
  <1>4. known \in Seq(Lines) /\ Len(known) <= MaxLines /\ Len(known) \in Nat /\ MaxLines \in Nat
    BY BoundAssumption DEF IInv, TypeOK
  <1>5. /\ known' \in Seq(Lines) /\ Len(known') <= MaxLines
        /\ LinesInv' /\ SilentInv'
    <2>1. CASE known' = known
      BY <1>2, <1>4, <2>1 DEF SilentInv, FirstLine, IInv, LinesInv
    <2>2. CASE known' = Append(known, run[p].peer) /\ Len(known) < MaxLines
      <3>1. /\ known' \in Seq(Lines) /\ Len(known') = Len(known) + 1
            /\ known'[Len(known) + 1] = run[p].peer
            /\ \A i \in DOMAIN known : known'[i] = known[i]
        BY <1>1, <1>4, <2>2
      <3>2. DOMAIN known = 1 .. Len(known) /\ DOMAIN known' = 1 .. Len(known) + 1
        BY <1>4, <3>1
      <3>3. LinesInv'
        <4> SUFFICES ASSUME NEW i \in DOMAIN known' PROVE known'[i] \in confirmed'
          BY DEF LinesInv
        <4>1. CASE i \in DOMAIN known
          BY <1>2, <3>1, <4>1 DEF IInv, LinesInv
        <4>2. CASE i = Len(known) + 1
          BY <1>1, <1>2, <3>1, <4>2
        <4> QED BY <1>4, <3>2, <4>1, <4>2
      <3>4. SilentInv'
        <4> SUFFICES ASSUME NEW pin \in silent'
                     PROVE  \E i \in DOMAIN known' : known'[i] = pin /\ FirstLine(i)'
          BY DEF SilentInv
        <4>1. PICK i \in DOMAIN known : known[i] = pin /\ FirstLine(i)
          BY <1>2 DEF IInv, SilentInv
        <4>2. i \in DOMAIN known' /\ known'[i] = pin
          BY <1>4, <3>1, <3>2, <4>1
        <4>3. ASSUME NEW j \in DOMAIN known', j < i PROVE known'[j][1] # known'[i][1]
          <5>1. j \in DOMAIN known
            BY <1>4, <3>2, <4>3
          <5> QED BY <3>1, <4>1, <4>3, <5>1 DEF FirstLine
        <4> QED BY <4>2, <4>3 DEF FirstLine
      <3> QED BY <1>4, <2>2, <3>1, <3>3, <3>4
    <2> QED BY <2>1, <2>2 DEF SaveKnownHost
  <1>6. TypeOK'
    BY <1>2, <1>3, <1>5, KeepFiles DEF IInv, TypeOK, NameOk, Shown
  <1> QED BY <1>3, <1>5, <1>6 DEF IInv

LEMMA OutsideStep == ASSUME IInv, HostChanges \/ DeleteKnownHosts PROVE IInv'
  <1>1. UNCHANGED <<files, run, confirmed>>
    BY DEF HostChanges, DeleteKnownHosts
  <1>2. presented' \in [Addresses -> Prints]
    BY DEF HostChanges, DeleteKnownHosts, IInv, TypeOK
  <1>3. RunInv'
    BY <1>1 DEF IInv, RunInv, files
  <1>4. /\ known' \in Seq(Lines) /\ Len(known') <= MaxLines
        /\ silent' \subseteq Lines /\ LinesInv' /\ SilentInv'
    <2>1. CASE HostChanges
      BY <2>1 DEF HostChanges, IInv, TypeOK, LinesInv, SilentInv, FirstLine
    <2>2. CASE DeleteKnownHosts
      <3>1. known' = <<>> /\ silent' = {}
        BY <2>2 DEF DeleteKnownHosts
      <3>2. known' \in Seq(Lines) /\ Len(known') <= MaxLines /\ DOMAIN known' = {}
        BY <3>1, BoundAssumption
      <3> QED BY <3>1, <3>2 DEF LinesInv, SilentInv
    <2> QED BY <2>1, <2>2
  <1>5. TypeOK'
    BY <1>1, <1>2, <1>4, KeepFiles DEF IInv, TypeOK
  <1> QED BY <1>3, <1>4, <1>5 DEF IInv

LEMMA NextIInv == IInv /\ [Next]_vars => IInv'
  <1> SUFFICES ASSUME IInv, [Next]_vars PROVE IInv'
    OBVIOUS
  <1>1. ASSUME NEW p \in Programs, Program(p) PROVE IInv'
    BY <1>1, StartStep, OverwriteStep, LoadStep, UnlockStep, CreateStep, CreateFailsStep, FillStep,
       DialStep, CheckStep, ConfirmStep, SaveStep, EndStep DEF Program
  <1>2. CASE UNCHANGED vars
    <2>1. UNCHANGED <<files, presented, known, confirmed, silent, run>>
      BY <1>2 DEF vars, hosts
    <2> QED BY <2>1 DEF IInv, TypeOK, RunInv, LinesInv, SilentInv, FirstLine, files
  <1> QED BY <1>1, <1>2, OutsideStep DEF Next

THEOREM Invariance == Spec => []IInv
  BY InitIInv, NextIInv, PTL DEF Spec

--------------------------------------------------------------------------------
\* identity.rs ensure_identity: the types, and a viewer shows a name that was generated, or
\* none if generating one failed too.
THEOREM TypeCorrect == Spec => []TypeOK
  <1>1. IInv => TypeOK
    BY DEF IInv
  <1> QED BY <1>1, Invariance, PTL

\* client.rs:102: nothing is accepted without a question that no user has confirmed.
THEOREM SilentIsConfirmed == Spec => []AcceptedWasConfirmed
  <1>1. IInv => AcceptedWasConfirmed
    BY DEF IInv, LinesInv, SilentInv, AcceptedWasConfirmed
  <1> QED BY <1>1, Invariance, PTL

\* identity.rs check_known_host: an address is accepted under one fingerprint only.
THEOREM OnePinPerAddress == Spec => []OnePin
  <1>1. IInv => OnePin
    <2> SUFFICES ASSUME IInv, NEW one \in silent, NEW other \in silent, one[1] = other[1]
                 PROVE  one = other
      BY DEF OnePin
    <2>1. PICK i \in DOMAIN known : known[i] = one /\ FirstLine(i)
      BY DEF IInv, SilentInv
    <2>2. PICK j \in DOMAIN known : known[j] = other /\ FirstLine(j)
      BY DEF IInv, SilentInv
    <2>3. i \in Nat /\ j \in Nat
      BY DEF IInv, TypeOK
    <2>4. ~(i < j) /\ ~(j < i)
      BY <2>1, <2>2 DEF FirstLine
    <2> QED BY <2>1, <2>2, <2>3, <2>4
  <1> QED BY <1>1, Invariance, PTL
================================================================================
