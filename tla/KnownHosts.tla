------------------------------ MODULE KnownHosts -------------------------------
(* The two files a user's programs share, identity.asc and known_hosts           *)
(* (identity.rs), and the programs that read and write them without a lock:      *)
(* viewers (client_window.rs run, client.rs run_network up to the                *)
(* acknowledgement) and hosts (main.rs).  Programs overlap, are started again,   *)
(* may end at any point, and a write may fail.                                   *)
EXTENDS Naturals, Sequences

CONSTANTS Programs,     \* places a program runs in, one after the other
          Addresses,    \* "host:port" of the hosts called
          Prints,       \* fingerprints hosts present; "" is one, of a host without identity
          MaxKeys,      \* bound of the model: identities generated
          MaxLines      \* bound of the model: lines of known_hosts

ASSUME BoundAssumption == {MaxKeys, MaxLines} \subseteq Nat

VARIABLES
    identity,   \* identity.asc: Absent, Broken (opened for writing, unreadable) or a key
    keys,       \* identities generated so far
    presented,  \* presented[a]: the fingerprint the host at address a shows
    known,      \* lines of known_hosts
    run,        \* run[p]: a program, and
                \*   at: where it is
                \*   mode: viewer, host or keygen (host --generate-key)
                \*   name: the fingerprint it shows as its own
                \*   failed: history, whether it could not generate an identity
                \*   peer: address and fingerprint of the handshake
    confirmed,  \* history: what users have said yes to
    silent      \* history: what was accepted without a question, of this known_hosts

files == <<identity, keys>>
hosts == <<presented, known, confirmed, silent>>
vars == <<files, hosts, run>>

Absent == 0
Broken == MaxKeys + 1
Keys == 1 .. MaxKeys
NoName == 0
NoPeer == <<>>
Modes == {"viewer", "host", "keygen"}
Places == {"off", "overwrite", "load", "unlock", "create", "fill", "dial", "check",
           "ask", "save", "on"}
Lines == Addresses \X Prints
Runs == [at : Places, mode : Modes, name : {NoName} \cup Keys, failed : BOOLEAN,
         peer : Lines \cup {NoPeer}]
Off == [at |-> "off", mode |-> "viewer", name |-> NoName, failed |-> FALSE, peer |-> NoPeer]

Init == /\ identity = Absent /\ keys = 0
        /\ presented \in [Addresses -> Prints]
        /\ known = <<>>
        /\ run = [p \in Programs |-> Off]
        /\ confirmed = {} /\ silent = {}

From(p, place) == run[p].at = place
Goto(p, place) == run' = [run EXCEPT ![p] = IF place = "off" THEN Off ELSE [@ EXCEPT !.at = place]]
GotoAs(p, place, own) == run' = [run EXCEPT ![p].at = place, ![p].name = own]
Addr(p) == run[p].peer[1]

--------------------------------------------------------------------------------
(* identity.asc                                                                  *)

\* `host --generate-key` asks before it overwrites; the others load first.
Start(p) ==
    /\ From(p, "off")
    /\ \E m \in Modes :
        LET place == IF m # "keygen" THEN "load"
                     ELSE IF identity = Absent THEN "create" ELSE "overwrite"
        IN  run' = [run EXCEPT ![p].at = place, ![p].mode = m]
    /\ UNCHANGED <<files, hosts>>

Overwrite(p) == /\ From(p, "overwrite")
                /\ Goto(p, "create") \/ Goto(p, "off")
                /\ UNCHANGED <<files, hosts>>

\* A viewer goes on to its connection, a host to its window.
Named(p) == IF run[p].mode = "viewer" THEN "dial" ELSE "on"
\* ensure_identity makes an identity where there is none; run_host_gui does without.
UnnamedAnyway(p) == Named(p)
Unnamed(p) == IF run[p].mode = "viewer" THEN "create" ELSE "on"

\* load_fingerprint; a file it cannot read is taken for one that needs a passphrase.
LoadFingerprint(p) ==
    /\ From(p, "load")
    /\ CASE identity \in Keys -> GotoAs(p, Named(p), identity)
         [] identity = Absent -> GotoAs(p, Unnamed(p), NoName)
         [] identity = Broken -> Goto(p, "unlock")
    /\ UNCHANGED <<files, hosts>>

\* The passphrase is typed and the file read again, readable by now or not; or the prompt
\* fails, and the file is not read.
Unlock(p) ==
    /\ From(p, "unlock")
    /\ \/ identity \in Keys /\ GotoAs(p, Named(p), identity)
       \/ GotoAs(p, Unnamed(p), NoName)
    /\ UNCHANGED <<files, hosts>>

\* fs::write truncates the file and then fills it.  A viewer ignores that either fails;
\* the wizard gives up, and is followed by the host's start otherwise.
Saved(p) == IF run[p].mode = "viewer" THEN "dial" ELSE "load"
Unsaved(p, own) == IF run[p].mode = "viewer" THEN GotoAs(p, "dial", own) ELSE Goto(p, "off")

Create(p) ==
    /\ From(p, "create") /\ keys < MaxKeys
    /\ keys' = keys + 1
    /\ \/ identity' = Broken /\ GotoAs(p, "fill", keys + 1)
       \/ UNCHANGED identity /\ Unsaved(p, keys + 1)
    /\ UNCHANGED hosts

\* The generation itself may fail: a viewer then goes on without a name.
CreateFails(p) ==
    /\ From(p, "create")
    /\ IF run[p].mode = "viewer"
       THEN run' = [run EXCEPT ![p].at = "dial", ![p].name = NoName, ![p].failed = TRUE]
       ELSE Goto(p, "off")
    /\ UNCHANGED <<files, hosts>>

Fill(p) ==
    /\ From(p, "fill")
    /\ \/ identity' = run[p].name /\ Goto(p, Saved(p))
       \/ identity' = Broken /\ Unsaved(p, run[p].name)
    /\ UNCHANGED <<keys, hosts>>

--------------------------------------------------------------------------------
(* known_hosts                                                                   *)

\* check_known_host: the first line of the address decides.
LinesOf(a) == {i \in DOMAIN known : known[i][1] = a}
PinnedLast(a) == known[CHOOSE i \in LinesOf(a) : \A j \in LinesOf(a) : j <= i]
Pinned(a) == known[CHOOSE i \in LinesOf(a) : \A j \in LinesOf(a) : i <= j]

\* The handshake of the host at the address.
Dial(p) == /\ From(p, "dial")
           /\ \E a \in Addresses :
                run' = [run EXCEPT ![p].at = "check", ![p].peer = <<a, presented[a]>>]
           /\ UNCHANGED <<files, hosts>>

CheckKnownHost(p) ==
    /\ From(p, "check")
    /\ IF LinesOf(Addr(p)) = {} THEN Goto(p, "ask") /\ UNCHANGED silent
       ELSE IF Pinned(Addr(p)) = run[p].peer
       THEN Goto(p, "on") /\ silent' = silent \cup {run[p].peer}
       ELSE Goto(p, "off") /\ UNCHANGED silent
    /\ UNCHANGED <<files, presented, known, confirmed>>

InteractiveKeyConfirm(p) ==
    /\ From(p, "ask")
    /\ \/ Goto(p, "save") /\ confirmed' = confirmed \cup {run[p].peer}
       \/ Goto(p, "off") /\ UNCHANGED confirmed
    /\ UNCHANGED <<files, presented, known, silent>>

\* The line is what the handshake said, whatever the host shows by now.  A failure is ignored.
SaveKnownHostOfNow(p) ==
    /\ From(p, "save")
    /\ \/ known' = Append(known, <<Addr(p), presented[Addr(p)]>>) /\ Len(known) < MaxLines
       \/ UNCHANGED known
    /\ Goto(p, "on")
    /\ UNCHANGED <<files, presented, confirmed, silent>>
SaveKnownHost(p) ==
    /\ From(p, "save")
    /\ \/ known' = Append(known, run[p].peer) /\ Len(known) < MaxLines
       \/ UNCHANGED known
    /\ Goto(p, "on")
    /\ UNCHANGED <<files, presented, confirmed, silent>>

--------------------------------------------------------------------------------
\* A program ends, of itself or wherever it is.
End(p) == /\ ~From(p, "off")
          /\ Goto(p, "off")
          /\ UNCHANGED <<files, hosts>>

\* A host gets another identity, loses it or finds it again.
HostChanges == /\ \E a \in Addresses, print \in Prints :
                    presented[a] # print /\ presented' = [presented EXCEPT ![a] = print]
               /\ UNCHANGED <<files, known, run, confirmed, silent>>

\* What the warning of a changed fingerprint tells the user to do: known_hosts is deleted.
DeleteKnownHosts == /\ known # <<>>
                    /\ known' = <<>> /\ silent' = {}
                    /\ UNCHANGED <<files, presented, run, confirmed>>

Program(p) == \/ Start(p) \/ Overwrite(p) \/ LoadFingerprint(p) \/ Unlock(p)
              \/ Create(p) \/ CreateFails(p) \/ Fill(p) \/ Dial(p) \/ CheckKnownHost(p)
              \/ InteractiveKeyConfirm(p) \/ SaveKnownHost(p) \/ End(p)

Next == (\E p \in Programs : Program(p)) \/ HostChanges \/ DeleteKnownHosts

Spec == Init /\ [][Next]_vars

--------------------------------------------------------------------------------
\* Every variable has its type, and a viewer goes to its connection under a name that was
\* generated, whatever it found of identity.asc: missing, or left unreadable by a program
\* that ended within fs::write.  It goes without a name only if generating one failed as
\* well ("falls back to empty only if both steps fail", identity.rs ensure_identity).
TypeOK ==
    /\ identity \in Keys \cup {Absent, Broken} /\ keys \in 0 .. MaxKeys
    /\ identity \in Keys => identity <= keys
    /\ presented \in [Addresses -> Prints]
    /\ known \in Seq(Lines) /\ Len(known) <= MaxLines
    /\ run \in [Programs -> Runs]
    /\ \A p \in Programs :
         run[p].mode = "viewer" /\ run[p].at \in {"dial", "check", "ask", "save", "on"}
         => run[p].name \in 1 .. keys \/ (run[p].name = NoName /\ run[p].failed)
    /\ confirmed \subseteq Lines /\ silent \subseteq Lines

\* A host is accepted without a question only if a user of these files has once said yes
\* to that fingerprint at that address, however programs and changes of the host overlap
\* (client.rs:102, README: "Fingerprint confirmation (always on)").
AcceptedWasConfirmed == silent \subseteq confirmed

\* As long as known_hosts is not deleted, an address is accepted without a question under
\* one fingerprint only, even when two programs ask about two fingerprints at once and
\* both answers are saved (identity.rs check_known_host, save_known_host).
OnePin == \A one, other \in silent : one[1] = other[1] => one = other
================================================================================
