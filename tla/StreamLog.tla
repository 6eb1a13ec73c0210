------------------------------- MODULE StreamLog -------------------------------
(* What the host-side stream cache promises its readers, with the ring and its *)
(* lock left out: a log that only grows, and for each reader a position in it. *)
(* A reader takes the log in order and without repetition; the only loss it    *)
(* may suffer is to be moved forward to the oldest of the last Capacity        *)
(* entries once it has fallen behind them.                                     *)
EXTENDS Naturals

CONSTANTS Capacity,   \* how many of the latest entries a reader can still take
          Readers

VARIABLES published,  \* number of entries appended so far
          position    \* position[r]: the entry reader r takes next

vars == <<published, position>>

TypeOK == /\ published \in Nat
          /\ position \in [Readers -> Nat]

Init == /\ published = 0
        /\ position = [r \in Readers |-> 0]

Publish == /\ published' = published + 1
           /\ UNCHANGED position

\* The reader was lapped: it goes on at the oldest entry that is left.
JumpForward(r) == /\ position[r] + Capacity < published
                  /\ position' = [position EXCEPT ![r] = published - Capacity]
                  /\ UNCHANGED published

Deliver(r) == /\ position[r] < published
              /\ position' = [position EXCEPT ![r] = @ + 1]
              /\ UNCHANGED published

Next == Publish \/ \E r \in Readers : JumpForward(r) \/ Deliver(r)

Spec == Init /\ [][Next]_vars
================================================================================
