----------------------------- MODULE MCStreamCache -----------------------------
(* Small instances of the stream cache for TLC.                                 *)
EXTENDS StreamCache, TLC

CONSTANTS capture, audio,  \* the two producer threads
          viewer, slowViewer

MCProducers == {capture, audio}
MCReaders == {viewer, slowViewer}
MCSlow == {slowViewer}
================================================================================
