-------------------------------- MODULE Session --------------------------------
(* What a connection is to the two people at its ends, threads, queues and       *)
(* messages left out: the seat the host gives the viewer, and the viewer's       *)
(* screen.  A viewer waits for one verdict, is seated at most once and only      *)
(* after an approval, and its screen lights up at most once, only for a viewer   *)
(* that was approved.                                                            *)
CONSTANT Clients

VARIABLES seat,   \* seat[c]: what c is to the host
          screen  \* screen[c]: what the viewer sees

vars == <<seat, screen>>

Seats == {"none",      \* connecting
          "waiting",   \* for the host user's verdict
          "approved", "denied",
          "seated",    \* on the viewer list
          "left",      \* was approved and is no longer served
          "failed"}    \* gone before there was a verdict

Screens == {"dark", "live", "off"}

TypeOK == /\ seat \in [Clients -> Seats]
          /\ screen \in [Clients -> Screens]

Init == /\ seat = [c \in Clients |-> "none"]
        /\ screen = [c \in Clients |-> "dark"]

\* Asking, giving up, the two verdicts, taking the seat and missing it.
Moves == {<<"none", "waiting">>, <<"none", "failed">>,
          <<"waiting", "approved">>, <<"waiting", "denied">>,
          <<"approved", "seated">>, <<"approved", "left">>}

Move(c) == \E to \in Seats : /\ <<seat[c], to>> \in Moves
                              /\ seat' = [seat EXCEPT ![c] = to]

\* A line that is relayed may find several viewers gone.
Unseat == \E S \in SUBSET {c \in Clients : seat[c] = "seated"} :
            seat' = [c \in Clients |-> IF c \in S THEN "left" ELSE seat[c]]

\* The viewer learns of its approval late: it may have lost its seat meanwhile.
LightUp(c) == /\ screen[c] = "dark"
              /\ seat[c] \in {"approved", "seated", "left"}
              /\ screen' = [screen EXCEPT ![c] = "live"]

SwitchOff(c) == /\ screen[c] # "off"
                /\ screen' = [screen EXCEPT ![c] = "off"]

Next == \/ /\ UNCHANGED screen
           /\ Unseat \/ \E c \in Clients : Move(c)
        \/ /\ UNCHANGED seat
           /\ \E c \in Clients : LightUp(c) \/ SwitchOff(c)

Spec == Init /\ [][Next]_vars
================================================================================
