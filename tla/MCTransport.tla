------------------------------ MODULE MCTransport ------------------------------
(* Two chunks of probe, longer than the readers' buffer, through a TCP that      *)
(* holds three cells; then messages of the longest payload, of one beyond it,    *)
(* and of one that is beyond a record.                                           *)
EXTENDS Transport, TLC

ProbesOf4 == [ty \in Prologue |-> IF ty = "SPEED_PROBE" THEN 4 ELSE 1]
StreamLengths == {4, 5, 9}
TwoDownOneUp == ("down" :> 2) @@ ("up" :> 1)
================================================================================
