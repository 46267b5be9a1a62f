----------------------------- MODULE MCStatistics -----------------------------
(* Statistics on a small instance.                                          *)
EXTENDS Statistics

MCTwoMessages ==
    { [id |-> 1, sensor |-> "a", sequence |-> 0, outcome |-> "sound"],
      [id |-> 2, sensor |-> "a", sequence |-> 2, outcome |-> "anomaly"] }
===============================================================================
