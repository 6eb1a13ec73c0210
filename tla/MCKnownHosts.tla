----------------------------- MODULE MCKnownHosts ------------------------------
(* Two programs at a time, of any kind and any number of starts, two addresses   *)
(* and two fingerprints, one of which is that of a host without an identity.     *)
EXTENDS KnownHosts, TLC

CONSTANTS p1, p2, a1, a2, f, none

MCPrograms == {p1, p2}
MCAddresses == {a1, a2}
MCPrints == {f, none}
Symmetry == Permutations({p1, p2}) \cup Permutations({a1, a2})
================================================================================
