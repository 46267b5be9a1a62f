------------------------------ MODULE MCProcessor ------------------------------
(* Processor on small instances.                                            *)
EXTENDS Processor

\* Messages of one sensor: a gap, and a number that comes twice.
MCMessages ==
    { [id |-> 1, sensor |-> "a", sequence |-> 0, outcome |-> "sound"],
      [id |-> 2, sensor |-> "a", sequence |-> 2, outcome |-> "anomaly"],
      [id |-> 3, sensor |-> "a", sequence |-> 2, outcome |-> "error"] }

MCTwoMessages == {m \in MCMessages : m.id # 3}

MCSymmetry == Permutations(Workers)
===============================================================================
