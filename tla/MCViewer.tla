------------------------------- MODULE MCViewer -------------------------------
(* Viewer for TLC: a dashboard, two streams of a few pictures, the second with *)
(* more audio than the first.                                                  *)
EXTENDS Viewer

CONSTANT v1

MCAudioChunks == <<1, 2>>
=============================================================================
