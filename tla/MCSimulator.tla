------------------------------ MODULE MCSimulator ------------------------------
(* Simulator on small instances.                                            *)
EXTENDS Simulator

Flags(types, perType, rate, protocol, workers) ==
    [types |-> types, sensors |-> perType, rate |-> rate, protocol |-> protocol, workers |-> workers]

\* One generator of each type, in front of one worker; one or two to take turns
\* in front of a pool of two, of a type given once or twice and one that is
\* unknown; rates that do not divide 1000, and those at and beyond the limits.
MCConfigs ==
    { Flags(<<t>>, 1, 1000, "tcp", 1) : t \in GeneratorTypes }
    \cup { Flags(<<"temperature", "lidar">>, n, 300, p, 2) : n \in {1, 2}, p \in {"udp", "tcp"} }
    \cup { Flags(<<"temperature", "temperature">>, 1, 7, "udp", 1) }
    \cup { Flags(types, 1, r, "udp", 1) : types \in {<<"gps">>, <<"lidar">>}, r \in {-1, 0, 1001} }

MCFirstReading ==
    [ gps |-> [latitude |-> 47, longitude |-> -122, altitude |-> 0, speed |-> 99, heading |-> 0],
      drone |-> [latitude |-> 48, longitude |-> -123, altitude |-> 299, battery |-> 80,
                 signal |-> 99],
      vehicle |-> [latitude |-> 47, longitude |-> -123, speed |-> 0, fuel |-> 0, mileage |-> 0],
      temperature |-> [temperature |-> 29, humidity |-> 30, unit |-> "celsius"] ]

\* Each change takes a field past one of its limits; where generators take
\* turns, it is the upper one.
MCChanges(c) == IF Len(c.types) = 1 THEN {-400, 400} ELSE {400}
===============================================================================
