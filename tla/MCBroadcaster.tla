----------------------------- MODULE MCBroadcaster -----------------------------
(* Small instances of the session life cycle for TLC.                           *)
EXTENDS Broadcaster, TLC

CONSTANTS alice, bob,  \* two connections
          fpA, fpB     \* two fingerprints

\* Two viewers whose fingerprints share a prefix.
TwoClients == {alice, bob}
TwoFps == {fpA, fpB}
OwnFp == (alice :> fpA) @@ (bob :> fpB)
CommonPrefix == {{fpB}, {fpA, fpB}}

\* One viewer.
OnlyAlice == {alice}
OneFp == {fpA}
AliceFp == alice :> fpA
OnePrefix == {{fpA}}
NoClients == {}
================================================================================
