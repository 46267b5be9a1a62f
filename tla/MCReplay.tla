------------------------------- MODULE MCReplay -------------------------------
(* Replay on a small instance.                                              *)
EXTENDS Replay

\* A gap that a late message fills; one payload does not parse, another one
\* is out of range.
MCStream ==
    << [id |-> 1, sensor |-> "a", sequence |-> 0, outcome |-> "sound"],
       [id |-> 2, sensor |-> "a", sequence |-> 2, outcome |-> "error"],
       [id |-> 3, sensor |-> "a", sequence |-> 1, outcome |-> "anomaly"] >>

MCMessages == ToSet(MCStream)

ASSUME MCReplayAssumption == ReplaySetting
===============================================================================
