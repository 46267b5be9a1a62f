--------------------------- MODULE MCLatencyRecorder ---------------------------
(* LatencyRecorder on a small instance.                                     *)
EXTENDS LatencyRecorder

\* None of them is the zero that the buffer is made of.
MCDurations == {-1, 2}
===============================================================================
