--------------------------- MODULE MCClientPlayback ---------------------------
(* Small instances of the viewer's playback for TLC.                            *)
EXTENDS ClientPlayback

\* A host that shares a region, and one that was still selecting it.
SharingOrSelecting == {0, 2}
================================================================================
