------------------------------- MODULE MCHostApp -------------------------------
(* Small instances of the host's user interface for TLC.                        *)
EXTENDS HostApp, TLC

CONSTANTS d1, d2,  \* two displays
          p, q     \* two places on a display, far apart

TwoDisplays == {d1, d2}
OneDisplay == {d1}
NoDisplays == {}
TwoPlaces == {p, q}
================================================================================
