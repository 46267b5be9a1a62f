---------------------------- MODULE SimulatorProofs ----------------------------
(***************************************************************************)
(* Proofs about Simulator and Payload, for all command lines, all draws and *)
(* changes of the generators, and every network.                            *)
(***************************************************************************)
EXTENDS Simulator, SensorEntryProofs, FiniteSums, SequenceTheorems, FiniteSetTheorems, TLAPS

\* What the fields of a generator are between two messages.
GPSWithin(p) ==
    /\ p.latitude \in -90 .. 90 /\ p.longitude \in -180 .. 180
    /\ p.altitude \in Nat /\ p.speed \in 0 .. 150 /\ p.heading \in Int
DroneWithin(p) ==
    /\ p.latitude \in -90 .. 90 /\ p.longitude \in -180 .. 180
    /\ p.altitude \in 0 .. 500 /\ p.battery \in 0 .. 99 /\ p.signal \in 50 .. 99
VehicleWithin(p) ==
    /\ p.latitude \in -90 .. 90 /\ p.longitude \in -180 .. 180
    /\ p.speed \in 0 .. 120 /\ p.fuel \in Nat /\ p.mileage \in Nat
TemperatureWithin(p) ==
    /\ p.temperature \in 0 .. 50 /\ p.humidity \in 0 .. 100 /\ p.unit = "celsius"

Readings(type, p) ==
    /\ type = "gps"         => GPSWithin(p)
    /\ type = "drone"       => DroneWithin(p)
    /\ type = "vehicle"     => VehicleWithin(p)
    /\ type = "temperature" => TemperatureWithin(p)

\* The constructors draw within the limits.
LEMMA DrawnWithin ==
    ASSUME NEW type \in GeneratorTypes, NEW p \in Drawn(type) PROVE Readings(type, p)
<1>1. ASSUME p \in NewGPS PROVE GPSWithin(p)
  BY <1>1 DEF NewGPS, GPSWithin
<1>2. ASSUME p \in NewDrone PROVE DroneWithin(p)
  BY <1>2 DEF NewDrone, DroneWithin
<1>3. ASSUME p \in NewVehicle PROVE VehicleWithin(p)
  <2> DEFINE top     == (100 * 1000) - 1
             Mileage == 0 .. top
  <2>1. p \in [ latitude : 47 .. 48, longitude : -123 .. -122, speed : 0 .. 79, fuel : 0 .. 99,
                mileage : Mileage ]
    BY <1>3, Zenon DEF NewVehicle
  <2> HIDE DEF top
  <2>2. \A n \in Mileage : n \in Nat
    OBVIOUS
  <2> HIDE DEF Mileage
  <2>3. /\ p.latitude \in 47 .. 48 /\ p.longitude \in -123 .. -122
        /\ p.speed \in 0 .. 79 /\ p.fuel \in 0 .. 99
    BY <2>1
  <2>4. p.mileage \in Nat
    BY <2>1, <2>2
  <2> QED BY <2>3, <2>4 DEF VehicleWithin
<1>4. ASSUME p \in NewTemperature PROVE TemperatureWithin(p)
  BY <1>4 DEF NewTemperature, TemperatureWithin
<1>5. CASE type = "gps"
  BY <1>1, <1>5, Zenon DEF Drawn, Readings
<1>6. CASE type = "drone"
  BY <1>2, <1>6, Zenon DEF Drawn, Readings
<1>7. CASE type = "vehicle"
  BY <1>3, <1>7, Zenon DEF Drawn, Readings
<1>8. CASE type = "temperature"
  BY <1>4, <1>8, Zenon DEF Drawn, Readings
<1> QED BY <1>5, <1>6, <1>7, <1>8 DEF GeneratorTypes

\* The limits of the generators lie within those of the validators.
LEMMA ReadingsAccepted ==
    ASSUME NEW type \in GeneratorTypes, NEW p, Readings(type, p) PROVE Accepted(type, p)
<1>1. GPSWithin(p) => ValidateGPSData(p)
  BY DEF GPSWithin, ValidateGPSData, OnEarth, Within
<1>2. DroneWithin(p) => ValidateDroneData(p)
  BY DEF DroneWithin, ValidateDroneData, OnEarth, Within
<1>3. VehicleWithin(p) => ValidateVehicleData(p)
  BY DEF VehicleWithin, ValidateVehicleData, OnEarth, Within
<1>4. TemperatureWithin(p) => ValidateTemperatureSensorData(p)
  BY DEF TemperatureWithin, ValidateTemperatureSensorData, Within
<1>5. CASE type = "gps"
  BY <1>1, <1>5, Zenon DEF Readings, Accepted
<1>6. CASE type = "drone"
  BY <1>2, <1>6, Zenon DEF Readings, Accepted
<1>7. CASE type = "vehicle"
  BY <1>3, <1>7, Zenon DEF Readings, Accepted
<1>8. CASE type = "temperature"
  BY <1>4, <1>8, Zenon DEF Readings, Accepted
<1> QED BY <1>5, <1>6, <1>7, <1>8 DEF GeneratorTypes

\* Next keeps the fields of each type within the limits, whatever is drawn.
LEMMA NextGPSWithin ==
    ASSUME NEW p, GPSWithin(p), NEW d,
           d["latitude"] \in Int, d["longitude"] \in Int, d["altitude"] \in Int,
           d["speed"] \in Int, d["heading"] \in Int
    PROVE  GPSWithin(NextGPS(p, d))
<1>0. /\ p.latitude \in Int /\ p.longitude \in Int /\ p.altitude \in Int
      /\ p.speed \in Int /\ p.heading \in Int
  BY DEF GPSWithin
<1>1. /\ p.latitude + d["latitude"] \in Int /\ p.longitude + d["longitude"] \in Int
      /\ p.altitude + d["altitude"] \in Int /\ p.speed + d["speed"] \in Int
      /\ p.heading + d["heading"] \in Int
  BY <1>0
<1>2. Clamp(-90, 90, p.latitude + d["latitude"]) \in -90 .. 90
  BY <1>1 DEF Clamp
<1>3. Clamp(-180, 180, p.longitude + d["longitude"]) \in -180 .. 180
  BY <1>1 DEF Clamp
<1>4. Clamp(0, 150, p.speed + d["speed"]) \in 0 .. 150
  BY <1>1 DEF Clamp
<1>5. AtLeast(0, p.altitude + d["altitude"]) \in Nat
  BY <1>1 DEF AtLeast
<1>6. Mod(p.heading + d["heading"], 360) \in Int
  BY <1>1 DEF Mod
<1> QED BY <1>2, <1>3, <1>4, <1>5, <1>6 DEF NextGPS, GPSWithin

\* A battery or a tank that is drained stays between 0 and what it was.
LEMMA DrainWithin ==
    ASSUME NEW high \in Nat, NEW x \in 0 .. high, NEW c \in Int
    PROVE  AtLeast(0, x - AtLeast(0, c)) \in 0 .. high
BY DEF AtLeast

LEMMA NextDroneWithin ==
    ASSUME NEW p, DroneWithin(p), NEW d,
           d["latitude"] \in Int, d["longitude"] \in Int, d["altitude"] \in Int,
           d["battery"] \in Int, d["signal"] \in Int
    PROVE  DroneWithin(NextDrone(p, d))
<1>0. /\ p.latitude \in Int /\ p.longitude \in Int /\ p.altitude \in Int
      /\ p.battery \in 0 .. 99
  BY DEF DroneWithin
<1>1. /\ p.latitude + d["latitude"] \in Int /\ p.longitude + d["longitude"] \in Int
      /\ p.altitude + d["altitude"] \in Int /\ 50 + d["signal"] \in Int
  BY <1>0
<1>2. Clamp(-90, 90, p.latitude + d["latitude"]) \in -90 .. 90
  BY <1>1 DEF Clamp
<1>3. Clamp(-180, 180, p.longitude + d["longitude"]) \in -180 .. 180
  BY <1>1 DEF Clamp
<1>4. Clamp(0, 500, p.altitude + d["altitude"]) \in 0 .. 500
  BY <1>1 DEF Clamp
<1>5. Clamp(50, 99, 50 + d["signal"]) \in 50 .. 99
  BY <1>1 DEF Clamp
<1>6. AtLeast(0, p.battery - AtLeast(0, d["battery"])) \in 0 .. 99
  BY <1>0, DrainWithin
<1> QED BY <1>2, <1>3, <1>4, <1>5, <1>6 DEF NextDrone, DroneWithin

LEMMA NextVehicleWithin ==
    ASSUME NEW p, VehicleWithin(p), NEW d,
           d["latitude"] \in Int, d["longitude"] \in Int, d["speed"] \in Int,
           d["fuel"] \in Int
    PROVE  VehicleWithin(NextVehicle(p, d))
<1> DEFINE speed == Clamp(0, 120, p.speed + d["speed"])
<1>0. /\ p.latitude \in Int /\ p.longitude \in Int /\ p.speed \in Int
      /\ p.mileage \in Nat /\ p.fuel \in Nat
  BY DEF VehicleWithin
<1>1. /\ p.latitude + d["latitude"] \in Int /\ p.longitude + d["longitude"] \in Int
      /\ p.speed + d["speed"] \in Int
  BY <1>0
<1>2. Clamp(-90, 90, p.latitude + d["latitude"]) \in -90 .. 90
  BY <1>1 DEF Clamp
<1>3. Clamp(-180, 180, p.longitude + d["longitude"]) \in -180 .. 180
  BY <1>1 DEF Clamp
<1>4. speed \in 0 .. 120
  BY <1>1 DEF Clamp
<1>5. AtLeast(0, p.fuel - AtLeast(0, d["fuel"])) \in Nat
  BY <1>0 DEF AtLeast
<1> HIDE DEF speed
<1>6. p.mileage + (speed \div 10) \in Nat
  BY <1>0, <1>4
<1> QED BY <1>2, <1>3, <1>4, <1>5, <1>6 DEF NextVehicle, VehicleWithin, speed

LEMMA NextTemperatureWithin ==
    ASSUME NEW p, TemperatureWithin(p), NEW d,
           d["temperature"] \in Int, d["humidity"] \in Int
    PROVE  TemperatureWithin(NextTemperature(p, d))
<1>0. p.temperature \in Int /\ p.humidity \in Int
  BY DEF TemperatureWithin
<1>1. p.temperature + d["temperature"] \in Int /\ p.humidity + d["humidity"] \in Int
  BY <1>0
<1>2. Clamp(0, 50, p.temperature + d["temperature"]) \in 0 .. 50
  BY <1>1 DEF Clamp
<1>3. Clamp(0, 100, p.humidity + d["humidity"]) \in 0 .. 100
  BY <1>1 DEF Clamp
<1> QED BY <1>2, <1>3 DEF NextTemperature, TemperatureWithin

\* What is drawn for one field.
LEMMA ChangeInt ==
    ASSUME NEW F, NEW d \in [F -> Int], NEW f \in F PROVE d[f] \in Int
OBVIOUS

\* The same for all types together.
LEMMA NextWithin ==
    ASSUME NEW type \in GeneratorTypes, NEW p, Readings(type, p),
           NEW d \in [FieldsOf(type) -> Int]
    PROVE  Readings(type, NextPayload(type, p, d))
<1>1. CASE type = "gps"
  <2>1. GPSWithin(p)
    BY <1>1, Zenon DEF Readings
  <2>2. /\ d["latitude"] \in Int
        /\ d["longitude"] \in Int
        /\ d["altitude"] \in Int
        /\ d["speed"] \in Int
        /\ d["heading"] \in Int
    BY <1>1, ChangeInt, Zenon DEF FieldsOf
  <2>3. GPSWithin(NextGPS(p, d))
    BY <2>1, <2>2, NextGPSWithin, Zenon
  <2> QED BY <1>1, <2>3, Zenon DEF NextPayload, Readings
<1>2. CASE type = "drone"
  <2>1. DroneWithin(p)
    BY <1>2, Zenon DEF Readings
  <2>2. /\ d["latitude"] \in Int
        /\ d["longitude"] \in Int
        /\ d["altitude"] \in Int
        /\ d["battery"] \in Int
        /\ d["signal"] \in Int
    BY <1>2, ChangeInt, Zenon DEF FieldsOf
  <2>3. DroneWithin(NextDrone(p, d))
    BY <2>1, <2>2, NextDroneWithin, Zenon
  <2> QED BY <1>2, <2>3, Zenon DEF NextPayload, Readings
<1>3. CASE type = "vehicle"
  <2>1. VehicleWithin(p)
    BY <1>3, Zenon DEF Readings
  <2>2. /\ d["latitude"] \in Int
        /\ d["longitude"] \in Int
        /\ d["speed"] \in Int
        /\ d["fuel"] \in Int
    BY <1>3, ChangeInt, Zenon DEF FieldsOf
  <2>3. VehicleWithin(NextVehicle(p, d))
    BY <2>1, <2>2, NextVehicleWithin, Zenon
  <2> QED BY <1>3, <2>3, Zenon DEF NextPayload, Readings
<1>4. CASE type = "temperature"
  <2>1. TemperatureWithin(p)
    BY <1>4, Zenon DEF Readings
  <2>2. d["temperature"] \in Int /\ d["humidity"] \in Int
    BY <1>4, ChangeInt, Zenon DEF FieldsOf
  <2>3. TemperatureWithin(NextTemperature(p, d))
    BY <2>1, <2>2, NextTemperatureWithin, Zenon
  <2> QED BY <1>4, <2>3, Zenon DEF NextPayload, Readings
<1> QED BY <1>1, <1>2, <1>3, <1>4 DEF GeneratorTypes

-----------------------------------------------------------------------------
\* The inductive invariant: every generator stays within its limits.
ReadingsWithin ==
    /\ config \in Configs
    /\ DOMAIN reading = Generators(config)
    /\ \A g \in Generators(config) : Readings(TypeOf(config, g), reading[g])

\* Every generator has one of the four types.
LEMMA GeneratorType ==
    ASSUME NEW g \in Generators(config) PROVE TypeOf(config, g) \in GeneratorTypes
BY DEF Generators, TypeOf

\* The inductive invariant: the fields of every generator stay within its limits.
LEMMA ReadingsInductive == Spec => []ReadingsWithin
<1>1. Init => ReadingsWithin
  <2> SUFFICES ASSUME Init PROVE ReadingsWithin
    OBVIOUS
  <2>1. \A g \in Generators(config) : Readings(TypeOf(config, g), reading[g])
    <3> TAKE g \in Generators(config)
    <3>1. reading[g] = FirstReading[TypeOf(config, g)]
      BY DEF Init
    <3> QED BY <3>1, GeneratorType, DrawnWithin, SimulatorAssumption
  <2> QED BY <2>1 DEF Init, ReadingsWithin
<1>2. ReadingsWithin /\ [Next]_vars => ReadingsWithin'
  <2> SUFFICES ASSUME ReadingsWithin, [Next]_vars PROVE ReadingsWithin'
    OBVIOUS
  <2>1. CASE Tick
    <3> DEFINE g == GeneratorAt(config, turn)
               type == TypeOf(config, g)
    <3>1. PICK d \in [FieldsOf(type) -> Changes(config)] :
              reading' = [reading EXCEPT ![g] = NextPayload(type, @, d)]
      BY <2>1 DEF Tick
    <3>2. config' = config
      BY <2>1 DEF Tick
    <3>3. d \in [FieldsOf(type) -> Int]
      BY SimulatorAssumption DEF ReadingsWithin
    <3>4. ASSUME NEW h \in Generators(config) PROVE Readings(TypeOf(config, h), reading'[h])
      <4>1. CASE h = g
        <5>1. reading'[h] = NextPayload(type, reading[g], d)
          BY <4>1, <3>1 DEF ReadingsWithin
        <5> QED BY <5>1, <4>1, <3>3, NextWithin, GeneratorType DEF ReadingsWithin
      <4>2. CASE h # g
        BY <4>2, <3>1 DEF ReadingsWithin
      <4> QED BY <4>1, <4>2
    <3>5. DOMAIN reading' = Generators(config)
      BY <3>1 DEF ReadingsWithin
    <3> QED BY <3>2, <3>4, <3>5 DEF ReadingsWithin, Generators, TypeOf
  <2>2. CASE UNCHANGED <<config, reading>>
    BY <2>2 DEF ReadingsWithin, Generators, TypeOf
  <2>3. Tick \/ UNCHANGED <<config, reading>>
    BY DEF Next, Alive, RunStep, MainStep, Begin, Pass, Quit, CloseMessages, Receive, Send,
           SendFails, HandleSignal, Return, Interrupt, Break, LoseDatagram, Deliver, Take,
           Apply, World, Main, vars, source
  <2> QED BY <2>1, <2>2, <2>3
<1> QED BY <1>1, <1>2, PTL DEF Spec

\* What the simulator sends is never an anomaly to a worker: for every command
\* line and everything the generators draw, all fields pass the validation of
\* their type (SensorGenerator.Next, protocol.Validate*).
THEOREM PayloadsAlwaysAccepted == Spec => []PayloadsAccepted
<1>1. ReadingsWithin => PayloadsAccepted
  BY GeneratorType, ReadingsAccepted DEF ReadingsWithin, PayloadsAccepted
<1> QED BY <1>1, ReadingsInductive, PTL

-----------------------------------------------------------------------------
(* The generators and their turns.                                          *)

LEMMA GeneratorsFinite == ASSUME NEW c \in Configs PROVE IsFiniteSet(Generators(c))
<1>1. IsFiniteSet(DOMAIN c.types)
  <2>1. DOMAIN c.types = 1 .. Len(c.types) /\ Len(c.types) \in Nat
    BY SimulatorAssumption
  <2> QED BY <2>1, FS_Interval
<1>2. IsFiniteSet(0 .. c.sensors - 1)
  <2>1. c.sensors - 1 \in Int /\ 0 \in Int
    BY SimulatorAssumption
  <2> QED BY <2>1, FS_Interval
<1>3. IsFiniteSet((DOMAIN c.types) \X (0 .. c.sensors - 1))
  BY <1>1, <1>2, FS_Product
<1> QED BY <1>3, FS_Subset DEF Generators

Ahead(c, g) == {h \in Generators(c) : Earlier(h, g)}

\* Whoever is earlier has fewer ahead.
LEMMA FewerAhead ==
    ASSUME NEW c \in Configs, NEW g \in Generators(c), NEW h \in Generators(c), Earlier(g, h)
    PROVE  Cardinality(Ahead(c, g)) < Cardinality(Ahead(c, h))
<1> DEFINE A == Ahead(c, g)
           B == Ahead(c, h)
<1>1. \A x \in Generators(c) : x[1] \in Int /\ x[2] \in Int
  BY SimulatorAssumption DEF Generators
<1>2. A \in SUBSET B /\ g \in B /\ g \notin A
  BY <1>1 DEF Ahead, Earlier
<1>3. IsFiniteSet(B)
  BY GeneratorsFinite, FS_Subset DEF Ahead
<1>4. A \in SUBSET (B \ {g})
  BY <1>2
<1>5. IsFiniteSet(B \ {g}) /\ Cardinality(B \ {g}) = Cardinality(B) - 1
  BY <1>2, <1>3, FS_RemoveElement
<1>6. Cardinality(A) <= Cardinality(B) - 1 /\ IsFiniteSet(A)
  BY <1>4, <1>5, FS_Subset
<1>7. Cardinality(A) \in Nat /\ Cardinality(B) \in Nat
  BY <1>3, <1>6, FS_CardinalityType
<1> QED BY <1>6, <1>7

Rank(c, g) == Cardinality(Ahead(c, g))

LEMMA RankBound ==
    ASSUME NEW c \in Configs, NEW g \in Generators(c)
    PROVE  Rank(c, g) \in 0 .. Cardinality(Generators(c)) - 1
<1> DEFINE G == Generators(c)
<1>1. IsFiniteSet(G) /\ Cardinality(G) \in Nat
  BY GeneratorsFinite, FS_CardinalityType
<1>2. Ahead(c, g) \in SUBSET (G \ {g})
  BY SimulatorAssumption DEF Ahead, Earlier, Generators
<1>3. IsFiniteSet(G \ {g}) /\ Cardinality(G \ {g}) = Cardinality(G) - 1
  BY <1>1, FS_RemoveElement
<1>4. IsFiniteSet(Ahead(c, g)) /\ Cardinality(Ahead(c, g)) <= Cardinality(G) - 1
  BY <1>2, <1>3, FS_Subset
<1>5. Cardinality(Ahead(c, g)) \in Nat
  BY <1>4, FS_CardinalityType
<1> QED BY <1>1, <1>4, <1>5 DEF Rank

\* No two generators have the same rank.
LEMMA RanksDiffer ==
    ASSUME NEW c \in Configs, NEW g \in Generators(c), NEW h \in Generators(c),
           Rank(c, g) = Rank(c, h)
    PROVE  g = h
<1>1. ~ Earlier(g, h) /\ ~ Earlier(h, g)
  <2>1. Rank(c, g) \in Int /\ Rank(c, h) \in Int
    BY RankBound
  <2> QED BY <2>1, FewerAhead DEF Rank
<1>2. /\ g[1] \in Int /\ g[2] \in Int /\ h[1] \in Int /\ h[2] \in Int
      /\ g = <<g[1], g[2]>> /\ h = <<h[1], h[2]>>
  BY SimulatorAssumption DEF Generators
<1>3. g[1] = h[1] /\ g[2] = h[2]
  BY <1>1, <1>2 DEF Earlier
<1> QED BY <1>2, <1>3

\* Every turn is a generator's.
LEMMA TurnTaken ==
    ASSUME NEW c \in Configs, NEW n \in 0 .. Cardinality(Generators(c)) - 1
    PROVE  GeneratorAt(c, n) \in Generators(c) /\ Rank(c, GeneratorAt(c, n)) = n
<1> DEFINE G == Generators(c)
           rank == [g \in G |-> Rank(c, g)]
           T == 0 .. Cardinality(G) - 1
<1>1. IsFiniteSet(G) /\ Cardinality(G) \in Nat
  BY GeneratorsFinite, FS_CardinalityType
<1>2. rank \in Injection(G, T)
  <2>1. rank \in [G -> T]
    BY RankBound
  <2>2. IsInjective(rank)
    BY RanksDiffer DEF IsInjective
  <2> QED BY <2>1, <2>2 DEF Injection
<1>3. IsFiniteSet(T) /\ Cardinality(T) = Cardinality(G)
  BY <1>1, FS_Interval
<1>4. rank \in Surjection(G, T)
  BY <1>2, <1>3, FS_Injection
<1>5. PICK x \in G : rank[x] = n
  BY <1>4 DEF Surjection
<1>6. \E g \in Generators(c) : Cardinality({h \in Generators(c) : Earlier(h, g)}) = n
  BY <1>5 DEF Rank, Ahead
<1> QED BY <1>6 DEF GeneratorAt, Rank, Ahead

\* The bound on the ticks bounds every generator's number.
LEMMA NumberBelowSum ==
    ASSUME NEW S, IsFiniteSet(S), NEW f \in [S -> Nat], NEW g \in S
    PROVE  SumFunction(f) \in Nat /\ f[g] <= SumFunction(f)
<1>1. DOMAIN f = S /\ \A x \in S : f[x] \in Nat /\ f[x] \in Int
  OBVIOUS
<1>2. SumFunctionOnSet(f, S) = f[g] + SumFunctionOnSet(f, S \ {g})
  BY <1>1, SumRemove
<1>3. IsFiniteSet(S \ {g})
  BY FS_Subset
<1>4. SumFunctionOnSet(f, S \ {g}) \in Nat
  BY <1>1, <1>3, SumType
<1> QED BY <1>1, <1>2, <1>4 DEF SumFunction

\* With every type given once, generators of the same ID are the same.
LEMMA IdsDiffer ==
    ASSUME NEW c \in Configs, IsInjective(c.types), NEW g \in Generators(c),
           NEW h \in Generators(c), SensorId(c, g) = SensorId(c, h)
    PROVE  g = h
<1>1. /\ g[1] \in DOMAIN c.types /\ h[1] \in DOMAIN c.types
      /\ g = <<g[1], g[2]>> /\ h = <<h[1], h[2]>>
  BY DEF Generators
<1>2. c.types[g[1]] = c.types[h[1]] /\ g[2] = h[2]
  BY DEF SensorId, TypeOf
<1>3. g[1] = h[1]
  BY <1>1, <1>2 DEF IsInjective
<1> QED BY <1>1, <1>2, <1>3

-----------------------------------------------------------------------------
(* What the server misses.                                                  *)

\* What is under way, and what has left main: under way, or lost.
Arriving == ToSet(wire) \cup ToSet(queue) \cup held
Left     == Arriving \cup lost

InMain == IF main.pc = "sending" THEN {main.msg} ELSE {}
InRun  == IF run.pc = "sending" THEN {run.msg} ELSE {}

\* What was made before the i-th message of the channel, what was made and passed
\* on to the channel, and what was made; less what was delivered.
Before(i) == Left \cup InMain \cup {messages[j] : j \in 1 .. i - 1}
Passed    == Left \cup InMain \cup ToSet(messages)
Made      == Passed \cup InRun

Message(s, n) == [sensor |-> s, sequence |-> n]

\* The high-water mark of a sensor, zero for one that a store does not know.
Mark(store, s) == IF s \in DOMAIN store THEN store[s].lastSequence ELSE 0

\* Whatever lies between the mark and number n is in A.
Covered(store, s, n, A) ==
    \A k \in Nat : Mark(store, s) < k /\ k < n => Message(s, k) \in A

\* m comes behind the messages of A and the mark, and there is no gap.
Behind(store, m, A) ==
    /\ Mark(store, m.sensor) < m.sequence
    /\ \A a \in A : a.sensor = m.sensor => a.sequence < m.sequence
    /\ Covered(store, m.sensor, m.sequence, A)

\* Between the generators and the network messages keep their order.
Upstream ==
    /\ \A m \in InMain : Behind(sensors, m, Left)
    /\ \A i \in DOMAIN messages : Behind(sensors, messages[i], Before(i))
    /\ \A m \in InRun : Behind(sensors, m, Passed)

\* A generator's last number is the largest of its sensor, and while Run goes on
\* none is missing.
Numbered ==
    \A g \in DOMAIN sequence :
        LET s == SensorId(config, g) IN
        /\ Mark(sensors, s) <= sequence[g]
        /\ \A m \in Made : m.sensor = s => m.sequence <= sequence[g]
        /\ run.pc \in {"starting", "ticking", "sending"} => Covered(sensors, s, sequence[g] + 1, Made)

\* What is under way is there once, is not known to the store, and whatever comes
\* between the mark and it has left main, too.
UnderWay ==
    /\ IsInjective(wire) /\ IsInjective(queue)
    /\ \A m \in ToSet(queue) : m \notin ToSet(wire)
    /\ \A m \in held : m \notin ToSet(wire) /\ m \notin ToSet(queue)
    /\ \A m \in Arriving :
           /\ Covered(sensors, m.sensor, m.sequence, Left)
           /\ m.sensor \in DOMAIN sensors => /\ m.sequence # Mark(sensors, m.sensor)
                                             /\ m.sequence \notin sensors[m.sensor].recentSeqs

\* The numbers of a sensor rise along a sequence, and from one set to another.
InOrder(q) ==
    \A i, j \in DOMAIN q : i < j /\ q[i].sensor = q[j].sensor => q[i].sequence < q[j].sequence
Precede(A, B) == \A a \in A, b \in B : a.sensor = b.sensor => a.sequence < b.sequence

\* A connection keeps order up to the workers, and loses nothing until it breaks,
\* and then its tail; a single worker keeps order, too.
Connection ==
    config.protocol = "tcp" =>
        /\ linkUp = TRUE => lost = {}
        /\ InOrder(wire) /\ InOrder(queue)
        /\ Precede(held, ToSet(queue))
        /\ Precede(held \cup ToSet(queue), ToSet(wire))
        /\ Precede(Arriving, lost)
        /\ \A m \in Arriving : Covered(sensors, m.sensor, m.sequence, Arriving)
        /\ \A m \in ToSet(queue) \cup ToSet(wire) \cup lost : Mark(sensors, m.sensor) < m.sequence
        /\ config.workers = 1 => \A m \in held : Mark(sensors, m.sensor) < m.sequence

\* The messages of s among A below the mark: they are late, or lost.
Missed(store, s, A) == {m \in A : m.sensor = s /\ m.sequence < Mark(store, s)}

Counted ==
    \A s \in DOMAIN sensors :
        LET e == sensors[s] IN
        /\ e.duplicateCount = 0
        /\ \A k \in e.recentSeqs : k <= e.lastSequence
        /\ e.droppedCount <= e.outOfOrderCount + Cardinality(Missed(sensors, s, Left))
        /\ config.protocol = "tcp" =>
               /\ e.lastSequence = e.messageCount + Cardinality(Missed(sensors, s, held))
               /\ config.workers = 1 => e.droppedCount = 0 /\ e.outOfOrderCount = 0

Tidy == Upstream /\ Numbered /\ UnderWay /\ Connection /\ Counted

Msgs == [sensor : {SensorId(config, g) : g \in Generators(config)}, sequence : 1 .. MaxTicks]

Typed ==
    /\ config \in Configs
    /\ sequence \in [Generators(config) -> 0 .. MaxTicks]
    /\ turn \in Nat /\ (Generators(config) # {} => turn < Cardinality(Generators(config)))
    /\ run.pc \in {"ticking", "sending"} => Generators(config) # {}
    /\ run.pc = "sending" => run.msg \in Msgs
    /\ main.pc = "sending" => main.msg \in Msgs
    /\ messages \in Seq(Msgs) /\ wire \in Seq(Msgs) /\ queue \in Seq(Msgs)
    /\ held \in SUBSET Msgs /\ IsFiniteSet(held) /\ Cardinality(held) <= config.workers
    /\ lost \in SUBSET Msgs /\ IsFiniteSet(lost)
    /\ linkUp \in {TRUE, FALSE}
    /\ \A s \in DOMAIN sensors : sensors[s] \in Entry

\* Who makes the next message, and its number.
LEMMA TickNumber ==
    ASSUME Typed, Tick
    PROVE  LET g == GeneratorAt(config, turn) IN
           g \in Generators(config) /\ sequence[g] \in Nat /\ sequence[g] + 1 \in 1 .. MaxTicks
<1> DEFINE g == GeneratorAt(config, turn)
<1>1. g \in Generators(config)
  <2>1. IsFiniteSet(Generators(config)) /\ Cardinality(Generators(config)) \in Nat
    BY GeneratorsFinite, FS_CardinalityType DEF Typed
  <2>2. turn \in 0 .. Cardinality(Generators(config)) - 1
    BY <2>1 DEF Typed, Tick
  <2> QED BY <2>2, TurnTaken DEF Typed
<1> HIDE DEF g
<1>2. sequence[g] \in Nat /\ sequence \in [Generators(config) -> Nat]
  BY <1>1 DEF Typed
<1>3. SumFunction(sequence) \in Nat /\ sequence[g] <= SumFunction(sequence)
  BY <1>1, <1>2, NumberBelowSum, GeneratorsFinite DEF Typed
<1>4. SumFunction(sequence) < MaxTicks /\ MaxTicks \in Nat
  BY SimulatorAssumption DEF Tick
<1>5. sequence[g] + 1 \in 1 .. MaxTicks
  BY <1>2, <1>3, <1>4
<1> QED BY <1>1, <1>2, <1>5 DEF g

\* Taking messages out of a sequence.
LEMMA TakenOut ==
    ASSUME NEW S, NEW q \in Seq(S), NEW i \in DOMAIN q
    PROVE  /\ RemoveAt(q, i) \in Seq(S)
           /\ Len(RemoveAt(q, i)) = Len(q) - 1
           /\ \A j \in 1 .. Len(q) - 1 : RemoveAt(q, i)[j] = IF j < i THEN q[j] ELSE q[j + 1]
<1> DEFINE a == SubSeq(q, 1, i - 1)
           b == SubSeq(q, i + 1, Len(q))
<1>1. i \in 1 .. Len(q) /\ Len(q) \in Nat
  OBVIOUS
<1>2. a \in Seq(S) /\ Len(a) = i - 1 /\ \A j \in 1 .. i - 1 : a[j] = q[j]
  BY <1>1
<1>3. b \in Seq(S) /\ Len(b) = Len(q) - i /\ \A j \in 1 .. Len(q) - i : b[j] = q[i + j]
  BY <1>1
<1> HIDE DEF a, b
<1>4. RemoveAt(q, i) = a \o b
  BY DEF RemoveAt, a, b
<1>5. a \o b \in Seq(S) /\ Len(a \o b) = Len(q) - 1
  BY <1>1, <1>2, <1>3
<1>6. ASSUME NEW j \in 1 .. Len(q) - 1 PROVE (a \o b)[j] = IF j < i THEN q[j] ELSE q[j + 1]
  <2>1. CASE j < i
    BY <1>1, <1>2, <1>3, <2>1
  <2>2. CASE ~ (j < i)
    <3>0. j \in 1 .. Len(a) + Len(b) /\ ~ (j <= Len(a)) /\ Len(a) = i - 1
      BY <1>1, <1>2, <1>3, <2>2
    <3>1. (a \o b)[j] = b[j - (i - 1)]
      <4>1. (a \o b)[j] = IF j <= Len(a) THEN a[j] ELSE b[j - Len(a)]
        BY <1>2, <1>3, <3>0, ConcatProperties
      <4> QED BY <3>0, <4>1
    <3>2. j - (i - 1) \in 1 .. Len(q) - i /\ i + (j - (i - 1)) = j + 1
      BY <1>1, <2>2
    <3>3. b[j - (i - 1)] = q[i + (j - (i - 1))]
      BY <1>3, <3>2
    <3> QED BY <2>2, <3>1, <3>2, <3>3
  <2> QED BY <2>1, <2>2
<1> QED BY <1>4, <1>5, <1>6

LEMMA TakenOutSet ==
    ASSUME NEW S, NEW q \in Seq(S), NEW i \in DOMAIN q
    PROVE  /\ ToSet(RemoveAt(q, i)) \subseteq ToSet(q)
           /\ ToSet(q) \subseteq ToSet(RemoveAt(q, i)) \cup {q[i]}
           /\ IsInjective(q) => q[i] \notin ToSet(RemoveAt(q, i)) /\ IsInjective(RemoveAt(q, i))
<1> DEFINE r == RemoveAt(q, i)
<1> HIDE DEF r
<1>1. /\ DOMAIN q = 1 .. Len(q) /\ Len(q) \in Nat
      /\ DOMAIN r = 1 .. Len(q) - 1
      /\ \A j \in 1 .. Len(q) - 1 : r[j] = IF j < i THEN q[j] ELSE q[j + 1]
  <2>1. r \in Seq(S) /\ Len(r) = Len(q) - 1
    BY TakenOut DEF r
  <2>2. DOMAIN q = 1 .. Len(q) /\ Len(q) \in Nat /\ DOMAIN r = 1 .. Len(r)
    BY <2>1
  <2>3. \A j \in 1 .. Len(q) - 1 : r[j] = IF j < i THEN q[j] ELSE q[j + 1]
    BY TakenOut DEF r
  <2> QED BY <2>1, <2>2, <2>3
<1>2. ToSet(r) \subseteq ToSet(q)
  BY <1>1 DEF ToSet
<1>3. ASSUME NEW j \in DOMAIN q, j # i PROVE q[j] \in ToSet(r)
  <2>1. CASE j < i
    BY <1>1, <2>1 DEF ToSet
  <2>2. CASE ~ (j < i)
    <3>1. j - 1 \in 1 .. Len(q) - 1 /\ ~ (j - 1 < i) /\ (j - 1) + 1 = j
      BY <1>1, <1>3, <2>2
    <3>2. r[j - 1] = q[j]
      BY <1>1, <3>1
    <3> QED BY <1>1, <3>1, <3>2 DEF ToSet
  <2> QED BY <2>1, <2>2
<1>4. ASSUME IsInjective(q) PROVE q[i] \notin ToSet(r) /\ IsInjective(r)
  <2> DEFINE Was(j) == IF j < i THEN j ELSE j + 1
  <2>1. ASSUME NEW j \in DOMAIN r
        PROVE  Was(j) \in DOMAIN q /\ Was(j) # i /\ r[j] = q[Was(j)]
    BY <1>1
  <2>2. ASSUME NEW j \in DOMAIN r, NEW k \in DOMAIN r, Was(j) = Was(k) PROVE j = k
    BY <1>1, <2>2
  <2> HIDE DEF Was
  <2>3. q[i] \notin ToSet(r)
    BY <1>4, <2>1 DEF ToSet, IsInjective
  <2>4. IsInjective(r)
    BY <1>4, <2>1, <2>2 DEF IsInjective
  <2> QED BY <2>3, <2>4
<1> QED BY <1>2, <1>3, <1>4 DEF r, ToSet

LEMMA SeqElements ==
    ASSUME NEW S, NEW q \in Seq(S) PROVE ToSet(q) \subseteq S /\ IsFiniteSet(ToSet(q))
<1>1. IsFiniteSet(1 .. Len(q))
  BY FS_Interval
<1> DEFINE f == [i \in 1 .. Len(q) |-> q[i]]
<1>2. f \in Surjection(1 .. Len(q), ToSet(q))
  BY DEF Surjection, ToSet
<1>3. IsFiniteSet(ToSet(q))
  BY <1>1, <1>2, FS_Surjection
<1> QED BY <1>3 DEF ToSet

LEMMA UnionAtMost ==
    ASSUME NEW A, NEW B, IsFiniteSet(A), IsFiniteSet(B)
    PROVE  /\ IsFiniteSet(A \cup B) /\ Cardinality(A \cup B) <= Cardinality(A) + Cardinality(B)
           /\ Cardinality(A) \in Nat /\ Cardinality(B) \in Nat /\ Cardinality(A \cup B) \in Nat
<1>1. /\ IsFiniteSet(A \cup B)
      /\ Cardinality(A \cup B) = Cardinality(A) + Cardinality(B) - Cardinality(A \cap B)
  BY FS_Union
<1>2. IsFiniteSet(A \cap B)
  BY FS_Intersection
<1>3. /\ Cardinality(A) \in Nat /\ Cardinality(B) \in Nat
      /\ Cardinality(A \cup B) \in Nat /\ Cardinality(A \cap B) \in Nat
  BY <1>1, <1>2, FS_CardinalityType
<1> QED BY <1>1, <1>3

\* What is behind the first of a sequence.
LEMMA Rest ==
    ASSUME NEW S, NEW q \in Seq(S), NEW r, Len(q) > 0, DOMAIN r = 1 .. Len(q) - 1,
           \A j \in 1 .. Len(q) - 1 : r[j] = q[j + 1]
    PROVE  /\ ToSet(q) = {q[1]} \cup ToSet(r)
           /\ IsInjective(q) => q[1] \notin ToSet(r) /\ IsInjective(r)
           /\ InOrder(q) => InOrder(r) /\ Precede({q[1]}, ToSet(r))
<1> DEFINE n == Len(q)
<1>1. n \in Nat \ {0} /\ DOMAIN q = 1 .. n /\ 1 \in DOMAIN q
  OBVIOUS
<1>2. DOMAIN r = 1 .. n - 1
  OBVIOUS
<1>3. ASSUME NEW j \in 1 .. n - 1
      PROVE  r[j] = q[j + 1] /\ j + 1 \in 1 .. n /\ 1 < j + 1 /\ j + 1 # 1
  BY <1>1
<1>4. ASSUME NEW j \in 1 .. n, j # 1 PROVE q[j] \in ToSet(r)
  <2>1. j - 1 \in 1 .. n - 1 /\ (j - 1) + 1 = j
    BY <1>1, <1>4
  <2>2. r[j - 1] = q[j]
    BY <2>1, <1>3
  <2> QED BY <1>2, <2>1, <2>2 DEF ToSet
<1> HIDE DEF n
<1>5. ToSet(q) = {q[1]} \cup ToSet(r)
  BY <1>1, <1>2, <1>3, <1>4 DEF ToSet
<1>6. ASSUME IsInjective(q) PROVE q[1] \notin ToSet(r) /\ IsInjective(r)
  <2>1. q[1] \notin ToSet(r)
    BY <1>1, <1>2, <1>3, <1>6 DEF ToSet, IsInjective
  <2>2. ASSUME NEW j \in 1 .. n - 1, NEW k \in 1 .. n - 1, r[j] = r[k] PROVE j = k
    <3>1. q[j + 1] = q[k + 1] /\ j + 1 \in DOMAIN q /\ k + 1 \in DOMAIN q
      BY <1>1, <1>3, <2>2
    <3>2. j + 1 = k + 1
      BY <1>6, <3>1 DEF IsInjective
    <3> QED BY <3>2
  <2> QED BY <1>2, <2>1, <2>2 DEF IsInjective
<1>7. ASSUME InOrder(q) PROVE InOrder(r) /\ Precede({q[1]}, ToSet(r))
  <2>1. ASSUME NEW j \in 1 .. n - 1, NEW k \in 1 .. n - 1, j < k, r[j].sensor = r[k].sensor
        PROVE  r[j].sequence < r[k].sequence
    <3>1. j + 1 < k + 1
      BY <2>1
    <3> QED BY <1>1, <1>3, <1>7, <2>1, <3>1 DEF InOrder
  <2>2. ASSUME NEW j \in 1 .. n - 1, q[1].sensor = r[j].sensor PROVE q[1].sequence < r[j].sequence
    BY <1>1, <1>3, <1>7, <2>2 DEF InOrder
  <2> QED BY <1>2, <2>1, <2>2 DEF InOrder, Precede, ToSet
<1> QED BY <1>5, <1>6, <1>7

\* A message more at the end of a sequence.
LEMMA AppendedSet ==
    ASSUME NEW S, NEW q \in Seq(S), NEW x \in S
    PROVE  /\ ToSet(Append(q, x)) = ToSet(q) \cup {x}
           /\ IsInjective(q) /\ x \notin ToSet(q) => IsInjective(Append(q, x))
           /\ InOrder(q) /\ Precede(ToSet(q), {x}) => InOrder(Append(q, x))
<1> DEFINE n == Len(q)
           r == Append(q, x)
<1>1. /\ n \in Nat /\ DOMAIN q = 1 .. n /\ DOMAIN r = 1 .. n + 1
      /\ r[n + 1] = x /\ \A i \in 1 .. n : r[i] = q[i]
  OBVIOUS
<1> HIDE DEF n, r
<1>2. ASSUME NEW i \in 1 .. n + 1 PROVE r[i] \in ToSet(q) \cup {x}
  BY <1>1 DEF ToSet
<1>3. ASSUME NEW i \in 1 .. n PROVE q[i] \in ToSet(r) /\ q[i] \in ToSet(q)
  BY <1>1 DEF ToSet
<1>4. x \in ToSet(r)
  BY <1>1 DEF ToSet
<1>5. ToSet(r) = ToSet(q) \cup {x}
  BY <1>1, <1>2, <1>3, <1>4 DEF ToSet
<1>6. ASSUME IsInjective(q), x \notin ToSet(q) PROVE IsInjective(r)
  <2> SUFFICES ASSUME NEW i \in 1 .. n + 1, NEW j \in 1 .. n + 1, r[i] = r[j] PROVE i = j
    BY <1>1 DEF IsInjective
  <2>1. CASE i = n + 1 \/ j = n + 1
    BY <1>1, <1>3, <1>6, <2>1
  <2>2. CASE ~ (i = n + 1 \/ j = n + 1)
    <3>1. i \in 1 .. n /\ j \in 1 .. n
      BY <1>1, <2>2
    <3> QED BY <1>1, <1>6, <3>1 DEF IsInjective
  <2> QED BY <2>1, <2>2
<1>7. ASSUME InOrder(q), Precede(ToSet(q), {x}) PROVE InOrder(r)
  <2> SUFFICES ASSUME NEW i \in 1 .. n + 1, NEW j \in 1 .. n + 1, i < j, r[i].sensor = r[j].sensor
               PROVE  r[i].sequence < r[j].sequence
    BY <1>1 DEF InOrder
  <2>0. i \in 1 .. n
    BY <1>1
  <2>1. CASE j = n + 1
    BY <1>1, <1>3, <1>7, <2>0, <2>1 DEF Precede
  <2>2. CASE j # n + 1
    <3>1. j \in 1 .. n
      BY <1>1, <2>2
    <3> QED BY <1>1, <1>7, <2>0, <3>1 DEF InOrder
  <2> QED BY <2>1, <2>2
<1> QED BY <1>5, <1>6, <1>7 DEF r

\* What a worker does with m: the sensor has its entry updated, or made.
Applies(m) ==
    /\ held' = held \ {m}
    /\ LET s == m.sensor
           e == IF s \in DOMAIN sensors THEN Updated(sensors[s], m.sequence)
                                        ELSE NewEntry(m.sequence)
       IN  sensors' = [x \in DOMAIN sensors \cup {s} |-> IF x = s THEN e ELSE sensors[x]]

LEMMA Applied ==
    ASSUME Typed, NEW m \in held, Applies(m)
    PROVE  /\ m \in Msgs /\ m.sequence \in SequenceNumbers
           /\ \A s \in DOMAIN sensors' : sensors'[s] \in Entry
<1> DEFINE n == m.sequence
           t == m.sensor
           e == IF t \in DOMAIN sensors THEN Updated(sensors[t], n) ELSE NewEntry(n)
<1>1. m \in Msgs
  BY DEF Typed
<1>2. n \in SequenceNumbers
  BY <1>1, SimulatorAssumption, EntryAssumption DEF Msgs, SequenceNumbers
<1>3. sensors' = [x \in DOMAIN sensors \cup {t} |-> IF x = t THEN e ELSE sensors[x]]
  BY DEF Applies
<1> HIDE DEF n, t
<1>4. e \in Entry
  BY <1>2, UpdatedType, NewEntryType DEF Typed
<1> HIDE DEF e
<1>5. \A s \in DOMAIN sensors' : sensors'[s] \in Entry
  BY <1>3, <1>4 DEF Typed
<1> QED BY <1>1, <1>2, <1>5 DEF n

-----------------------------------------------------------------------------
(* The steps.                                                               *)

\* The steps that make, pass on, deliver or lose no message; Quit forgets one.
Quiet ==
    /\ UNCHANGED <<config, sequence, turn, messages, linkUp, wire, lost, queue, held, sensors>>
    /\ main'.pc = "sending" => main.pc = "sending" /\ main'.msg = main.msg
    /\ main.pc = "sending" => main'.pc = "sending"
    /\ run'.pc = "sending" => run.pc = "sending" /\ run'.msg = run.msg
    /\ run'.pc = "ticking" => Generators(config) # {}
    /\ run'.pc \in {"starting", "ticking", "sending"} =>
           run.pc \in {"starting", "ticking", "sending"} /\ (run.pc = "sending" => run'.pc = "sending")

LEMMA Steps ==
    ASSUME Typed, [Next]_vars
    PROVE  Quiet \/ Tick \/ Pass \/ Receive \/ Send \/ SendFails \/ Break \/ LoseDatagram
           \/ Deliver \/ Take \/ Apply
<1>1. ASSUME Begin PROVE Quiet
  BY <1>1 DEF Begin, Quiet, At, source, network, server
<1>2. ASSUME Quit PROVE Quiet
  BY <1>2 DEF Quit, Quiet, At, source, network, server, Running
<1>3. ASSUME CloseMessages \/ Interrupt \/ UNCHANGED vars PROVE Quiet
  BY <1>3 DEF Typed, CloseMessages, Interrupt, vars, Quiet, source, network, server
<1>4. ASSUME HandleSignal PROVE Quiet
  BY <1>4 DEF Typed, HandleSignal, Main, Quiet, At, source, network, server
<1>5. ASSUME Return PROVE Quiet
  BY <1>5 DEF Typed, Return, Main, Quiet, At, source, network, server
<1> QED BY <1>1, <1>2, <1>3, <1>4, <1>5 DEF Next, Alive, RunStep, MainStep

\* Send and SendFails take the message from main; over a connection that stands
\* it is not lost.
Leaves ==
    /\ UNCHANGED <<config, sequence, turn, linkUp, messages, queue, held, sensors, run>>
    /\ main'.pc = "looping" /\ main.pc = "sending"
    /\ \/ wire' = Append(wire, main.msg) /\ lost' = lost /\ linkUp = TRUE
       \/ /\ wire' = wire /\ lost' = lost \cup {main.msg}
          /\ config.protocol = "tcp" => linkUp = FALSE

LEMMA LeavesMain == ASSUME Typed, Send \/ SendFails PROVE Leaves
<1>1. CASE SendFails
  BY <1>1 DEF Typed, SendFails, AfterFailure, Main, source, server, At, Leaves
<1>2. CASE Send
  <2>1. /\ UNCHANGED <<config, sequence, turn, linkUp, messages, queue, held, sensors, run>>
        /\ main'.pc = "looping" /\ main.pc = "sending" /\ linkUp = TRUE
    BY <1>2 DEF Typed, Send, Main, source, server, At
  <2>2. CASE Len(wire) < SocketCap
    <3>1. wire' = Append(wire, main.msg) /\ lost' = lost
      BY <1>2, <2>2 DEF Send
    <3> QED BY <2>1, <3>1 DEF Leaves
  <2>3. CASE ~ (Len(wire) < SocketCap)
    <3>1. wire' = wire /\ lost' = lost \cup {main.msg} /\ ~ (config.protocol = "tcp")
      BY <1>2, <2>3 DEF Send
    <3> QED BY <2>1, <3>1 DEF Leaves
  <2> QED BY <2>2, <2>3
<1> QED BY <1>1, <1>2

\* Every step keeps the types.
LEMMA TypedStep ==
    ASSUME Typed, [Next]_vars PROVE Typed'
<1>0. config' = config => Msgs' = Msgs
  BY DEF Msgs
<1>1. CASE Quiet
  BY <1>0, <1>1 DEF Typed, Quiet
<1>2. CASE Tick
  <2> DEFINE g == GeneratorAt(config, turn)
             n == sequence[g] + 1
  <2>1. g \in Generators(config) /\ n \in 1 .. MaxTicks
    BY <1>2, TickNumber
  <2>2. /\ UNCHANGED <<config, turn, messages, linkUp, wire, lost, queue, held, sensors, main>>
        /\ sequence' = [sequence EXCEPT ![g] = n]
        /\ run'.pc = "sending" /\ run'.msg = [sensor |-> SensorId(config, g), sequence |-> n]
    BY <1>2 DEF Tick, network, server
  <2> HIDE DEF g, n
  <2>3. sequence' \in [Generators(config) -> 0 .. MaxTicks]
    BY <2>1, <2>2 DEF Typed
  <2>4. run'.msg \in Msgs
    BY <2>1, <2>2 DEF Msgs
  <2> QED BY <2>1, <2>2, <2>3, <2>4, <1>0 DEF Typed
<1>3. CASE Pass
  <2>1. /\ UNCHANGED <<config, sequence, linkUp, wire, lost, queue, held, sensors, main>>
        /\ run.pc = "sending" /\ run'.pc = "ticking" /\ messages' = Append(messages, run.msg)
        /\ turn' = (turn + 1) % Cardinality(Generators(config))
    BY <1>3 DEF Pass, NextTurn, network, server, Running, At
  <2>2. messages' \in Seq(Msgs)
    BY <2>1 DEF Typed
  <2>3. Cardinality(Generators(config)) \in Nat \ {0}
    BY <2>1, GeneratorsFinite, FS_CardinalityType, FS_EmptySet DEF Typed
  <2>4. turn' \in Nat /\ turn' < Cardinality(Generators(config))
    BY <2>1, <2>3 DEF Typed
  <2> QED BY <2>1, <2>2, <2>4, <1>0 DEF Typed
<1>4. CASE Receive
  <2>1. /\ UNCHANGED <<config, sequence, turn, linkUp, wire, lost, queue, held, sensors, run>>
        /\ messages # <<>> /\ main'.msg = Head(messages) /\ messages' = Tail(messages)
    BY <1>4 DEF Receive, network, server, Main, source
  <2>2. messages' \in Seq(Msgs) /\ main'.msg \in Msgs
    BY <2>1 DEF Typed
  <2> QED BY <2>1, <2>2, <1>0 DEF Typed
<1>5. CASE Send \/ SendFails
  <2>1. Leaves
    BY <1>5, LeavesMain
  <2>2. wire' \in Seq(Msgs)
    <3>1. main.msg \in Msgs /\ wire \in Seq(Msgs)
      BY <2>1 DEF Typed, Leaves
    <3>2. Append(wire, main.msg) \in Seq(Msgs)
      BY <3>1
    <3> QED BY <2>1, <3>1, <3>2 DEF Leaves
  <2>3. lost' \in SUBSET Msgs /\ IsFiniteSet(lost')
    <3>1. main.msg \in Msgs /\ lost \in SUBSET Msgs /\ IsFiniteSet(lost)
      BY <2>1 DEF Typed, Leaves
    <3>2. IsFiniteSet(lost \cup {main.msg})
      BY <3>1, FS_AddElement
    <3> QED BY <2>1, <3>1, <3>2 DEF Leaves
  <2> QED BY <2>1, <2>2, <2>3, <1>0 DEF Typed, Leaves
<1>6. CASE Break
  <2>1. /\ UNCHANGED <<config, sequence, turn, messages, queue, held, sensors, run, main>>
        /\ linkUp' = FALSE
    BY <1>6 DEF Break, World, source, server
  <2>2. PICK k \in 0 .. Len(wire) : /\ wire' = SubSeq(wire, 1, k)
                                    /\ lost' = lost \cup ToSet(SubSeq(wire, k + 1, Len(wire)))
    BY <1>6 DEF Break
  <2> DEFINE tail == SubSeq(wire, k + 1, Len(wire))
  <2>3. wire' \in Seq(Msgs) /\ tail \in Seq(Msgs)
    BY <2>2 DEF Typed
  <2>4. ToSet(tail) \subseteq Msgs /\ IsFiniteSet(ToSet(tail))
    <3>1. \A s \in Seq(Msgs) : ToSet(s) \subseteq Msgs /\ IsFiniteSet(ToSet(s))
      BY SeqElements
    <3> QED BY <2>3, <3>1
  <2>5. lost' \in SUBSET Msgs /\ IsFiniteSet(lost')
    BY <2>2, <2>4, FS_Union DEF Typed
  <2> QED BY <2>1, <2>3, <2>5, <1>0 DEF Typed
<1>7. CASE LoseDatagram
  <2>1. UNCHANGED <<config, sequence, turn, messages, queue, held, sensors, run, main, linkUp>>
    BY <1>7 DEF LoseDatagram, World, source, server
  <2>2. PICK i \in DOMAIN wire : wire' = RemoveAt(wire, i) /\ lost' = lost \cup {wire[i]}
    BY <1>7 DEF LoseDatagram
  <2>3. wire' \in Seq(Msgs) /\ wire[i] \in Msgs
    BY <2>2, TakenOut DEF Typed
  <2>4. lost' \in SUBSET Msgs /\ IsFiniteSet(lost')
    BY <2>2, <2>3, FS_AddElement DEF Typed
  <2> QED BY <2>1, <2>3, <2>4, <1>0 DEF Typed
<1>8. CASE Deliver
  <2>1. UNCHANGED <<config, sequence, turn, messages, run, main, linkUp, lost, held, sensors>>
    BY <1>8 DEF Deliver, World, source
  <2>2. PICK i \in DOMAIN wire : wire' = RemoveAt(wire, i) /\ queue' = Append(queue, wire[i])
    BY <1>8 DEF Deliver
  <2>3. wire' \in Seq(Msgs) /\ wire[i] \in Msgs
    BY <2>2, TakenOut DEF Typed
  <2>4. queue' \in Seq(Msgs)
    BY <2>2, <2>3 DEF Typed
  <2> QED BY <2>1, <2>3, <2>4, <1>0 DEF Typed
<1>9. CASE Take
  <2>1. UNCHANGED <<config, sequence, turn, messages, run, main, linkUp, wire, lost, sensors>>
    BY <1>9 DEF Take, World, source
  <2>2. queue # <<>> /\ Cardinality(held) < config.workers /\ queue' = Tail(queue)
    BY <1>9 DEF Take
  <2> DEFINE m == Head(queue)
  <2>3. held' = held \cup {m}
    BY <1>9 DEF Take
  <2>4. queue' \in Seq(Msgs) /\ m \in Msgs
    BY <2>2 DEF Typed
  <2> HIDE DEF m
  <2>5. held' \in SUBSET Msgs /\ IsFiniteSet(held') /\ Cardinality(held') <= config.workers
    <3>1. IsFiniteSet(held) /\ Cardinality(held) \in Nat /\ config.workers \in Nat
      BY SimulatorAssumption, FS_CardinalityType DEF Typed
    <3>2. /\ IsFiniteSet(held')
          /\ Cardinality(held') = IF m \in held THEN Cardinality(held) ELSE Cardinality(held) + 1
      BY <2>3, <3>1, FS_AddElement
    <3> QED BY <2>2, <2>3, <2>4, <3>1, <3>2 DEF Typed
  <2> QED BY <2>1, <2>4, <2>5, <1>0 DEF Typed
<1>10. CASE Apply
  <2>1. UNCHANGED <<config, sequence, turn, messages, run, main, linkUp, wire, lost, queue>>
    BY <1>10 DEF Apply, World, source
  <2>2. PICK m \in held : Applies(m)
    BY <1>10 DEF Apply, Applies
  <2>3. \A s \in DOMAIN sensors' : sensors'[s] \in Entry
    BY <2>2, Applied
  <2>4. held' \in SUBSET Msgs /\ IsFiniteSet(held') /\ Cardinality(held') <= config.workers
    <3>1. held' \subseteq held /\ IsFiniteSet(held) /\ config.workers \in Nat
      BY <2>2, SimulatorAssumption DEF Applies, Typed
    <3>2. IsFiniteSet(held') /\ Cardinality(held') <= Cardinality(held)
      BY <3>1, FS_Subset
    <3>3. Cardinality(held) \in Nat /\ Cardinality(held') \in Nat
      BY <3>1, <3>2, FS_CardinalityType
    <3> QED BY <3>1, <3>2, <3>3 DEF Typed
  <2> QED BY <2>1, <2>3, <2>4, <1>0 DEF Typed
<1> QED BY <1>1, <1>2, <1>3, <1>4, <1>5, <1>6, <1>7, <1>8, <1>9, <1>10, Steps

-----------------------------------------------------------------------------
(* What is made, passed on and sent.                                        *)

\* Marks and numbers are numbers.
LEMMA MarkType == ASSUME Typed PROVE \A s : Mark(sensors, s) \in Nat
BY DEF Typed, Mark, Entry, SequenceNumbers

LEMMA MadeTyped == ASSUME Typed PROVE Made \in SUBSET Msgs
BY DEF Typed, Made, Passed, InMain, InRun, Left, Arriving, ToSet

\* Covering is monotone.
LEMMA CoveredMore ==
    ASSUME NEW store, NEW s, NEW n, NEW A, NEW B, A \subseteq B, Covered(store, s, n, A)
    PROVE  Covered(store, s, n, B)
BY DEF Covered

LEMMA TidyQuiet == ASSUME Typed, Tidy, Quiet PROVE Tidy'
<1>1. Left' = Left /\ InMain' = InMain /\ InRun' \subseteq InRun
  BY DEF Quiet, Left, Arriving, InMain, InRun
<1>2. \A i \in DOMAIN messages : Before(i)' = Before(i)
  BY <1>1 DEF Quiet, Before
<1>3. Passed' = Passed /\ Made' \subseteq Made
  BY <1>1 DEF Quiet, Passed, Made
<1>4. run'.pc \in {"starting", "ticking", "sending"} =>
          run.pc \in {"starting", "ticking", "sending"} /\ Made' = Made
  BY <1>3 DEF Quiet, Made, InRun
<1>5. Upstream'
  <2>1. \A i \in DOMAIN messages : Behind(sensors, messages[i], Before(i)')
    BY <1>2 DEF Tidy, Upstream
  <2> QED BY <1>1, <1>3, <2>1 DEF Tidy, Upstream, Quiet
<1>6. Numbered'
  BY <1>3, <1>4 DEF Tidy, Numbered, Quiet
<1>7. UnderWay' /\ Connection' /\ Counted'
  BY <1>1 DEF Tidy, UnderWay, Connection, Counted, Arriving, Quiet
<1> QED BY <1>5, <1>6, <1>7 DEF Tidy

LEMMA TidyTick ==
    ASSUME Typed, Tidy, IsInjective(config.types), Tick PROVE Tidy'
<1> DEFINE g == GeneratorAt(config, turn)
           s == SensorId(config, g)
           n == sequence[g] + 1
           m == [sensor |-> s, sequence |-> n]
<1>1. g \in Generators(config) /\ n \in Nat /\ sequence[g] \in Nat /\ n = sequence[g] + 1
  BY TickNumber
<1>2. /\ UNCHANGED <<config, messages, linkUp, wire, lost, queue, held, sensors, main>>
      /\ sequence' = [sequence EXCEPT ![g] = n]
      /\ run'.pc = "sending" /\ run'.msg = m /\ run.pc = "ticking"
  BY DEF Tick, network, server
<1>0. m.sensor = s /\ m.sequence = n /\ m = Message(s, n)
  BY DEF Message
<1> HIDE DEF m, n
<1>3. Left' = Left /\ InMain' = InMain /\ InRun' = {m} /\ InRun = {}
  BY <1>2 DEF Left, Arriving, InMain, InRun
<1>4. Passed' = Passed /\ Made = Passed /\ Made' = Passed \cup {m}
  BY <1>2, <1>3 DEF Passed, Made
<1>5. /\ Mark(sensors, s) <= sequence[g]
      /\ \A a \in Passed : a.sensor = s => a.sequence <= sequence[g]
      /\ Covered(sensors, s, n, Passed)
  BY <1>1, <1>2, <1>4 DEF Tidy, Numbered, Typed
<1>6. \A a \in Passed : a.sequence \in Nat
  BY <1>4, MadeTyped DEF Msgs
<1>7. Behind(sensors, m, Passed)
  BY <1>0, <1>1, <1>5, <1>6, MarkType DEF Behind
<1>8. Upstream'
  <2>1. \A i \in DOMAIN messages : Before(i)' = Before(i)
    BY <1>2, <1>3 DEF Before
  <2>2. \A i \in DOMAIN messages : Behind(sensors, messages[i], Before(i)')
    BY <2>1 DEF Tidy, Upstream
  <2> QED BY <1>2, <1>3, <1>4, <1>7, <2>2 DEF Tidy, Upstream
<1>9. Numbered'
  <2> SUFFICES ASSUME NEW h \in Generators(config)
               PROVE  /\ Mark(sensors, SensorId(config, h)) <= sequence'[h]
                      /\ \A a \in Made' : a.sensor = SensorId(config, h) => a.sequence <= sequence'[h]
                      /\ Covered(sensors, SensorId(config, h), sequence'[h] + 1, Made')
    BY <1>2 DEF Numbered, Typed
  <2>1. CASE h = g
    <3>1. sequence'[h] = n /\ SensorId(config, h) = s
      BY <1>1, <1>2, <2>1 DEF Typed
    <3>2. Mark(sensors, s) <= n
      BY <1>1, <1>5, MarkType
    <3>3. \A a \in Made' : a.sensor = s => a.sequence <= n
      BY <1>0, <1>1, <1>4, <1>5, <1>6
    <3>4. Covered(sensors, s, n + 1, Made')
      <4> SUFFICES ASSUME NEW k \in Nat, Mark(sensors, s) < k, k < n + 1
                   PROVE  Message(s, k) \in Made'
        BY DEF Covered
      <4>1. CASE k = n
        BY <1>0, <1>4, <4>1
      <4>2. CASE k # n
        <5>1. k < n
          BY <1>1, <4>2
        <5> QED BY <1>4, <1>5, <5>1 DEF Covered
      <4> QED BY <4>1, <4>2
    <3> QED BY <3>1, <3>2, <3>3, <3>4
  <2>2. CASE h # g
    <3>1. sequence'[h] = sequence[h] /\ SensorId(config, h) # s
      BY <1>1, <1>2, <2>2, IdsDiffer DEF Typed
    <3>2. /\ Mark(sensors, SensorId(config, h)) <= sequence[h]
          /\ \A a \in Passed : a.sensor = SensorId(config, h) => a.sequence <= sequence[h]
          /\ Covered(sensors, SensorId(config, h), sequence[h] + 1, Passed)
      BY <1>2, <1>4 DEF Tidy, Numbered, Typed
    <3>3. Covered(sensors, SensorId(config, h), sequence[h] + 1, Made')
      BY <1>4, <3>2, CoveredMore
    <3> QED BY <1>0, <1>4, <3>1, <3>2, <3>3
  <2> QED BY <2>1, <2>2
<1>10. UnderWay' /\ Connection' /\ Counted'
  BY <1>2, <1>3 DEF Tidy, UnderWay, Connection, Counted, Arriving
<1> QED BY <1>8, <1>9, <1>10 DEF Tidy

\* The message at hand goes to the channel, or from the channel to main, and leaves
\* main: what is before whom stays.
LEMMA TidyPass == ASSUME Typed, Tidy, Pass PROVE Tidy'
<1> DEFINE m == run.msg
           n == Len(messages)
<1>1. /\ UNCHANGED <<config, sequence, linkUp, wire, lost, queue, held, sensors, main>>
      /\ run.pc = "sending" /\ run'.pc = "ticking" /\ messages' = Append(messages, m)
  BY DEF Pass, network, server, Running, At
<1>2. /\ m \in Msgs /\ n \in Nat /\ DOMAIN messages = 1 .. n /\ DOMAIN messages' = 1 .. n + 1
      /\ messages'[n + 1] = m /\ \A i \in 1 .. n : messages'[i] = messages[i]
  BY <1>1 DEF Typed
<1> HIDE DEF m, n
<1>3. Left' = Left /\ InMain' = InMain /\ InRun' = {} /\ InRun = {m}
  BY <1>1 DEF Left, Arriving, InMain, InRun, m
<1>4. ToSet(messages') = ToSet(messages) \cup {m}
  BY <1>2 DEF ToSet
<1>5. Made' = Made
  BY <1>3, <1>4 DEF Made, Passed
<1>6. \A i \in 1 .. n : Before(i)' = Before(i)
  <2> SUFFICES ASSUME NEW i \in 1 .. n PROVE Before(i)' = Before(i)
    OBVIOUS
  <2>1. \A j \in 1 .. i - 1 : messages'[j] = messages[j]
    BY <1>2
  <2> QED BY <1>3, <2>1 DEF Before
<1>7. ASSUME NEW i \in Nat, i = n + 1 PROVE Before(i)' = Passed
  <2>0. i - 1 = n
    BY <1>2, <1>7
  <2>1. {messages'[j] : j \in 1 .. n} = ToSet(messages)
    BY <1>2 DEF ToSet
  <2>2. Before(i)' = Left \cup InMain \cup {messages'[j] : j \in 1 .. n}
    BY <1>1, <1>3, <2>0 DEF Before
  <2> QED BY <2>1, <2>2 DEF Passed
<1>8. Upstream'
  <2> SUFFICES ASSUME NEW i \in 1 .. n + 1 PROVE Behind(sensors, messages'[i], Before(i)')
    BY <1>1, <1>2, <1>3 DEF Tidy, Upstream
  <2>1. CASE i = n + 1
    BY <1>2, <1>3, <1>7, <2>1 DEF Tidy, Upstream
  <2>2. CASE i # n + 1
    <3>1. i \in 1 .. n
      BY <1>2, <2>2
    <3> QED BY <1>2, <1>6, <3>1 DEF Tidy, Upstream
  <2> QED BY <2>1, <2>2
<1>9. Numbered'
  BY <1>1, <1>5 DEF Tidy, Numbered
<1>10. UnderWay' /\ Connection' /\ Counted'
  BY <1>1, <1>3 DEF Tidy, UnderWay, Connection, Counted, Arriving
<1> QED BY <1>8, <1>9, <1>10 DEF Tidy

LEMMA TidyReceive == ASSUME Typed, Tidy, Receive PROVE Tidy'
<1> DEFINE m == Head(messages)
           n == Len(messages)
<1>1. /\ UNCHANGED <<config, sequence, linkUp, wire, lost, queue, held, sensors, run>>
      /\ main.pc = "looping" /\ main'.pc = "sending" /\ main'.msg = m
      /\ messages # <<>> /\ messages' = Tail(messages)
  BY DEF Receive, Main, source, server
<1>2. /\ n \in Nat \ {0} /\ DOMAIN messages = 1 .. n /\ DOMAIN messages' = 1 .. n - 1
      /\ messages[1] = m /\ \A i \in 1 .. n - 1 : messages'[i] = messages[i + 1]
  BY <1>1 DEF Typed
<1> HIDE DEF m, n
<1>3. Left' = Left /\ InMain' = {m} /\ InMain = {} /\ InRun' = InRun
  BY <1>1 DEF Left, Arriving, InMain, InRun
<1>4. ASSUME NEW i \in 0 .. n - 1
      PROVE  {messages[j] : j \in 1 .. i + 1} = {m} \cup {messages'[j] : j \in 1 .. i}
  <2>1. ASSUME NEW j \in 1 .. i + 1 PROVE messages[j] \in {m} \cup {messages'[k] : k \in 1 .. i}
    <3>1. CASE j = 1
      BY <1>2, <3>1
    <3>2. CASE j # 1
      <4>1. j - 1 \in 1 .. i /\ j - 1 \in 1 .. n - 1 /\ (j - 1) + 1 = j
        BY <1>2, <3>2
      <4>2. messages'[j - 1] = messages[j]
        BY <1>2, <4>1
      <4> QED BY <4>1, <4>2
    <3> QED BY <3>1, <3>2
  <2>2. m \in {messages[j] : j \in 1 .. i + 1}
    BY <1>2
  <2>3. ASSUME NEW k \in 1 .. i PROVE messages'[k] \in {messages[j] : j \in 1 .. i + 1}
    <3>1. k + 1 \in 1 .. i + 1 /\ k \in 1 .. n - 1
      BY <1>2
    <3> QED BY <1>2, <3>1
  <2> QED BY <2>1, <2>2, <2>3
<1>5. ASSUME NEW i \in 1 .. n - 1 PROVE Before(i)' = Before(i + 1)
  <2> DEFINE e == i - 1
  <2>1. e \in 0 .. n - 1 /\ (i + 1) - 1 = e + 1 /\ e = i - 1
    BY <1>2
  <2> HIDE DEF e
  <2>2. {messages[j] : j \in 1 .. e + 1} = {m} \cup {messages'[j] : j \in 1 .. e}
    BY <1>4, <2>1
  <2>3. Before(i + 1) = Left \cup {messages[j] : j \in 1 .. e + 1}
    BY <1>3, <2>1 DEF Before
  <2>4. Before(i)' = Left \cup {m} \cup {messages'[j] : j \in 1 .. e}
    BY <1>3, <2>1 DEF Before
  <2> QED BY <2>2, <2>3, <2>4
<1>6. Before(1) = Left
  BY <1>3 DEF Before
<1>7. Passed' = Passed /\ Made' = Made
  <2> DEFINE e == n - 1
  <2>1. e \in 0 .. n - 1 /\ e + 1 = n
    BY <1>2
  <2> HIDE DEF e
  <2>2. {messages[j] : j \in 1 .. e + 1} = {m} \cup {messages'[j] : j \in 1 .. e}
    BY <1>4, <2>1
  <2>3. ToSet(messages) = {messages[j] : j \in 1 .. e + 1}
    BY <1>2, <2>1 DEF ToSet
  <2>4. ToSet(messages') = {messages'[j] : j \in 1 .. e}
    BY <1>2, <2>1 DEF ToSet, e
  <2> QED BY <1>3, <2>2, <2>3, <2>4 DEF Passed, Made
<1>8. Upstream'
  <2>1. Behind(sensors, m, Left)
    BY <1>2, <1>6 DEF Tidy, Upstream
  <2>2. ASSUME NEW i \in 1 .. n - 1 PROVE Behind(sensors, messages'[i], Before(i)')
    <3>1. i + 1 \in 1 .. n
      BY <1>2
    <3> QED BY <1>2, <1>5, <3>1 DEF Tidy, Upstream
  <2> QED BY <1>1, <1>2, <1>3, <1>7, <2>1, <2>2 DEF Tidy, Upstream
<1>9. Numbered'
  BY <1>1, <1>7 DEF Tidy, Numbered
<1>10. UnderWay' /\ Connection' /\ Counted'
  BY <1>1, <1>3 DEF Tidy, UnderWay, Connection, Counted, Arriving
<1> QED BY <1>8, <1>9, <1>10 DEF Tidy

LEMMA TidyLeaves == ASSUME Typed, Tidy, Leaves PROVE Tidy'
<1> DEFINE m == main.msg
<1>1. /\ UNCHANGED <<config, sequence, linkUp, messages, queue, held, sensors, run>>
      /\ m \in Msgs /\ InMain = {m} /\ InMain' = {}
  BY DEF Leaves, InMain, Typed
<1>0. wire' = Append(wire, main.msg) =>
          /\ ToSet(wire') = ToSet(wire) \cup {m}
          /\ IsInjective(wire) /\ m \notin ToSet(wire) => IsInjective(wire')
          /\ InOrder(wire) /\ Precede(ToSet(wire), {m}) => InOrder(wire')
  <2>1. wire \in Seq(Msgs) /\ main.msg \in Msgs
    BY <1>1 DEF Typed
  <2> DEFINE q == Append(wire, main.msg)
  <2>2. /\ ToSet(q) = ToSet(wire) \cup {m}
        /\ IsInjective(wire) /\ m \notin ToSet(wire) => IsInjective(q)
        /\ InOrder(wire) /\ Precede(ToSet(wire), {m}) => InOrder(q)
    BY <2>1, AppendedSet, Zenon
  <2> HIDE DEF q
  <2> SUFFICES ASSUME wire' = q
               PROVE  /\ ToSet(q) = ToSet(wire) \cup {m}
                      /\ IsInjective(wire) /\ m \notin ToSet(wire) => IsInjective(q)
                      /\ InOrder(wire) /\ Precede(ToSet(wire), {m}) => InOrder(q)
    BY Zenon DEF q
  <2> QED BY <2>2
<1>2. \/ /\ wire' = Append(wire, m) /\ lost' = lost /\ linkUp = TRUE
         /\ Arriving' = Arriving \cup {m} /\ ToSet(wire') = ToSet(wire) \cup {m}
      \/ /\ wire' = wire /\ lost' = lost \cup {m} /\ Arriving' = Arriving
         /\ config.protocol = "tcp" => linkUp = FALSE
  <2>1. CASE wire' = Append(wire, main.msg) /\ lost' = lost /\ linkUp = TRUE
    BY <1>0, <1>1, <2>1 DEF Arriving
  <2>2. CASE /\ wire' = wire /\ lost' = lost \cup {main.msg}
             /\ config.protocol = "tcp" => linkUp = FALSE
    BY <1>1, <2>2 DEF Arriving
  <2> QED BY <2>1, <2>2 DEF Leaves
<1>3. Left' = Left \cup {m}
  BY <1>2 DEF Left
<1>4. Behind(sensors, m, Left)
  BY <1>1 DEF Tidy, Upstream
<1> HIDE DEF m
<1>5. InRun' = InRun /\ Passed' = Passed /\ Made' = Made /\ \A i : Before(i)' = Before(i)
  BY <1>1, <1>3 DEF InRun, Passed, Made, Before
<1>6. Upstream'
  <2>1. \A i \in DOMAIN messages : Behind(sensors, messages[i], Before(i)')
    BY <1>5 DEF Tidy, Upstream
  <2> QED BY <1>1, <1>5, <2>1 DEF Tidy, Upstream
<1>7. Numbered'
  BY <1>1, <1>5 DEF Tidy, Numbered
<1>8. /\ \A a \in Left : a.sensor = m.sensor => a.sequence < m.sequence
      /\ Covered(sensors, m.sensor, m.sequence, Left)
      /\ Mark(sensors, m.sensor) < m.sequence /\ m.sequence \in Nat
      /\ Mark(sensors, m.sensor) \in Nat
  BY <1>1, <1>4, MarkType DEF Behind, Msgs
<1>9. m \notin Left
  BY <1>8
<1>10. m.sensor \in DOMAIN sensors =>
           m.sequence # Mark(sensors, m.sensor) /\ m.sequence \notin sensors[m.sensor].recentSeqs
  <2> SUFFICES ASSUME m.sensor \in DOMAIN sensors, m.sequence \in sensors[m.sensor].recentSeqs
               PROVE  FALSE
    BY <1>8
  <2>1. m.sequence <= sensors[m.sensor].lastSequence
    BY DEF Tidy, Counted
  <2> QED BY <1>8, <2>1 DEF Mark
<1>11. UnderWay'
  <2>1. ASSUME NEW w \in Arriving'
        PROVE  /\ Covered(sensors, w.sensor, w.sequence, Left')
               /\ w.sensor \in DOMAIN sensors =>
                      /\ w.sequence # Mark(sensors, w.sensor)
                      /\ w.sequence \notin sensors[w.sensor].recentSeqs
    <3>1. w \in Arriving \/ w = m
      BY <1>2
    <3>2. Covered(sensors, w.sensor, w.sequence, Left)
      BY <1>8, <3>1 DEF Tidy, UnderWay
    <3>3. Covered(sensors, w.sensor, w.sequence, Left')
      BY <1>3, <3>2, CoveredMore
    <3> QED BY <1>10, <3>1, <3>3 DEF Tidy, UnderWay
  <2>2. /\ IsInjective(wire) /\ m \notin ToSet(wire) /\ m \notin ToSet(queue) /\ m \notin held
        /\ \A x \in ToSet(queue) : x \notin ToSet(wire)
        /\ \A x \in held : x \notin ToSet(wire) /\ x \notin ToSet(queue)
    BY <1>9 DEF Tidy, UnderWay, Left, Arriving
  <2>3. IsInjective(wire')
    BY <1>0, <1>2, <2>2 DEF m
  <2>4. \A x \in ToSet(wire') : x \in ToSet(wire) \/ x = m
    BY <1>2
  <2>5. IsInjective(queue)
    BY DEF Tidy, UnderWay
  <2> QED BY <1>1, <2>1, <2>2, <2>3, <2>4, <2>5 DEF UnderWay
<1>12. Connection'
  <2> SUFFICES ASSUME config.protocol = "tcp" PROVE Connection'
    BY <1>1 DEF Connection
  <2>1. /\ linkUp = TRUE => lost = {}
        /\ InOrder(wire) /\ InOrder(queue)
        /\ Precede(held, ToSet(queue))
        /\ Precede(held \cup ToSet(queue), ToSet(wire))
        /\ Precede(Arriving, lost)
        /\ \A w \in Arriving : Covered(sensors, w.sensor, w.sequence, Arriving)
        /\ \A w \in ToSet(queue) \cup ToSet(wire) \cup lost : Mark(sensors, w.sensor) < w.sequence
        /\ config.workers = 1 => \A w \in held : Mark(sensors, w.sensor) < w.sequence
    BY DEF Tidy, Connection
  <2>2. CASE /\ wire' = wire /\ lost' = lost \cup {m} /\ Arriving' = Arriving
             /\ linkUp = FALSE
    <3>1. Precede(Arriving, {m})
      BY <1>8 DEF Precede, Left
    <3>2. Precede(Arriving', lost')
      BY <2>1, <2>2, <3>1 DEF Precede
    <3> QED BY <1>1, <1>8, <2>1, <2>2, <3>2 DEF Connection
  <2>3. CASE /\ wire' = Append(wire, m) /\ lost' = lost /\ linkUp = TRUE
             /\ Arriving' = Arriving \cup {m} /\ ToSet(wire') = ToSet(wire) \cup {m}
    <3>1. lost = {} /\ Left = Arriving
      BY <2>1, <2>3 DEF Left
    <3>2. /\ Precede(ToSet(wire), {m}) /\ Precede(held \cup ToSet(queue), {m})
      BY <1>8 DEF Precede, Left, Arriving
    <3>3. InOrder(wire')
      BY <1>0, <2>1, <2>3, <3>2 DEF m
    <3>4. Precede(held \cup ToSet(queue), ToSet(wire'))
      BY <2>1, <2>3, <3>2 DEF Precede
    <3>5. ASSUME NEW w \in Arriving' PROVE Covered(sensors, w.sensor, w.sequence, Arriving')
      <4>1. Covered(sensors, w.sensor, w.sequence, Arriving)
        BY <1>8, <2>1, <2>3, <3>1
      <4> QED BY <2>3, <4>1, CoveredMore
    <3>6. Precede(Arriving', lost')
      BY <2>3, <3>1 DEF Precede
    <3> QED BY <1>1, <1>8, <2>1, <2>3, <3>1, <3>3, <3>4, <3>5, <3>6 DEF Connection
  <2> QED BY <1>2, <2>2, <2>3
<1>13. Counted'
  <2>1. \A s : Missed(sensors, s, Left') = Missed(sensors, s, Left)
    BY <1>3, <1>8 DEF Missed
  <2> QED BY <1>1, <2>1 DEF Tidy, Counted
<1> QED BY <1>6, <1>7, <1>11, <1>12, <1>13 DEF Tidy

\* The network loses messages that were on the wire; a connection its tail.
Loses ==
    /\ UNCHANGED <<config, sequence, messages, queue, held, sensors, run, main>>
    /\ Left' = Left /\ Arriving' \subseteq Arriving
    /\ IsInjective(wire') /\ ToSet(wire') \subseteq ToSet(wire)
    /\ config.protocol = "tcp" =>
           /\ linkUp' = FALSE /\ InOrder(wire')
           /\ \E T \in SUBSET ToSet(wire) : lost' = lost \cup T /\ Precede(ToSet(wire'), T)

LEMMA NetworkLoses == ASSUME Typed, Tidy, Break \/ LoseDatagram PROVE Loses
<1>0. IsInjective(wire) /\ wire \in Seq(Msgs)
  BY DEF Tidy, UnderWay, Typed
<1>1. CASE Break
  <2>1. /\ UNCHANGED <<config, sequence, messages, queue, held, sensors, run, main>>
        /\ linkUp' = FALSE /\ config.protocol = "tcp"
    BY <1>1 DEF Break, World, source, server
  <2>2. PICK k \in 0 .. Len(wire) : /\ wire' = SubSeq(wire, 1, k)
                                    /\ lost' = lost \cup ToSet(SubSeq(wire, k + 1, Len(wire)))
    BY <1>1 DEF Break
  <2> DEFINE tail == SubSeq(wire, k + 1, Len(wire))
             n == Len(wire)
  <2>3. n \in Nat /\ DOMAIN wire = 1 .. n
    BY <1>0
  <2>4. DOMAIN wire' = 1 .. k /\ \A i \in 1 .. k : wire'[i] = wire[i]
    BY <1>0, <2>2, <2>3
  <2>5. DOMAIN tail = 1 .. n - k /\ \A i \in 1 .. n - k : tail[i] = wire[k + i]
    BY <1>0, <2>2, <2>3
  <2> HIDE DEF tail, n
  <2>6. ToSet(wire') \subseteq ToSet(wire) /\ ToSet(tail) \subseteq ToSet(wire)
    <3>1. (\A i \in 1 .. k : i \in 1 .. n) /\ \A i \in 1 .. n - k : k + i \in 1 .. n
      BY <2>3 DEF n
    <3> QED BY <2>3, <2>4, <2>5, <3>1 DEF ToSet
  <2>7. ASSUME NEW i \in 1 .. n PROVE wire[i] \in ToSet(wire') \cup ToSet(tail)
    <3>1. CASE i <= k
      BY <2>3, <2>4, <3>1 DEF ToSet
    <3>2. CASE ~ (i <= k)
      <4>1. i - k \in 1 .. n - k /\ k + (i - k) = i
        BY <2>3, <3>2
      <4>2. tail[i - k] = wire[i]
        BY <2>5, <4>1
      <4> QED BY <2>5, <4>1, <4>2 DEF ToSet
    <3> QED BY <3>1, <3>2
  <2>8. ToSet(wire) = ToSet(wire') \cup ToSet(tail)
    BY <2>3, <2>6, <2>7 DEF ToSet
  <2>9. lost' = lost \cup ToSet(tail)
    BY <2>2 DEF tail, n
  <2>10. Left' = Left /\ Arriving' \subseteq Arriving
    BY <2>1, <2>8, <2>9 DEF Left, Arriving
  <2>11. IsInjective(wire')
    BY <1>0, <2>3, <2>4 DEF IsInjective, n
  <2>12. InOrder(wire)
    BY <2>1 DEF Tidy, Connection
  <2>13. InOrder(wire')
    BY <2>3, <2>4, <2>12 DEF InOrder, n
  <2>14. Precede(ToSet(wire'), ToSet(tail))
    <3> SUFFICES ASSUME NEW i \in 1 .. k, NEW j \in 1 .. n - k, wire[i].sensor = wire[k + j].sensor
                 PROVE  wire[i].sequence < wire[k + j].sequence
      BY <2>4, <2>5 DEF Precede, ToSet
    <3>1. i \in 1 .. n /\ k + j \in 1 .. n /\ i < k + j
      BY <2>3 DEF n
    <3> QED BY <2>3, <2>12, <3>1 DEF InOrder
  <2> QED BY <2>1, <2>6, <2>9, <2>10, <2>11, <2>13, <2>14 DEF Loses
<1>2. CASE LoseDatagram
  <2>1. /\ UNCHANGED <<config, sequence, messages, queue, held, sensors, run, main>>
        /\ config.protocol = "udp"
    BY <1>2 DEF LoseDatagram, World, source, server
  <2>2. PICK i \in DOMAIN wire : wire' = RemoveAt(wire, i) /\ lost' = lost \cup {wire[i]}
    BY <1>2 DEF LoseDatagram
  <2>3. /\ ToSet(wire') \subseteq ToSet(wire) /\ ToSet(wire) \subseteq ToSet(wire') \cup {wire[i]}
        /\ IsInjective(wire')
    BY <1>0, <2>2, TakenOutSet
  <2>4. wire[i] \in ToSet(wire)
    BY DEF ToSet
  <2>5. Left' = Left /\ Arriving' \subseteq Arriving
    BY <2>1, <2>2, <2>3, <2>4 DEF Left, Arriving
  <2> QED BY <2>1, <2>3, <2>5 DEF Loses
<1> QED BY <1>1, <1>2

\* What moves or is lost behind main leaves the order in front of it as it is.
LEMMA StaysUpstream ==
    ASSUME Tidy, UNCHANGED <<config, sequence, messages, sensors, run, main>>, Left' = Left
    PROVE  Upstream' /\ Numbered'
<1>1. /\ InMain' = InMain /\ InRun' = InRun /\ Passed' = Passed /\ Made' = Made
      /\ \A i : Before(i)' = Before(i)
  BY DEF InMain, InRun, Passed, Made, Before
<1>2. \A i \in DOMAIN messages : Behind(sensors, messages[i], Before(i)')
  BY <1>1 DEF Tidy, Upstream
<1> QED BY <1>1, <1>2 DEF Tidy, Upstream, Numbered

LEMMA TidyLoses == ASSUME Typed, Tidy, Loses PROVE Tidy'
<1>1. UNCHANGED <<config, sequence, messages, queue, held, sensors, run, main>> /\ Left' = Left
  BY DEF Loses
<1>2. Upstream' /\ Numbered'
  BY <1>1, StaysUpstream
<1>3. Counted'
  BY <1>1 DEF Tidy, Counted
<1>4. UnderWay'
  BY <1>1 DEF Tidy, UnderWay, Loses
<1>5. Connection'
  <2> SUFFICES ASSUME config.protocol = "tcp" PROVE Connection'
    BY <1>1 DEF Connection
  <2>1. /\ InOrder(queue) /\ Precede(held, ToSet(queue))
        /\ Precede(held \cup ToSet(queue), ToSet(wire)) /\ Precede(Arriving, lost)
        /\ \A w \in Arriving : Covered(sensors, w.sensor, w.sequence, Arriving)
        /\ \A w \in ToSet(queue) \cup ToSet(wire) \cup lost : Mark(sensors, w.sensor) < w.sequence
        /\ config.workers = 1 => \A w \in held : Mark(sensors, w.sensor) < w.sequence
    BY DEF Tidy, Connection
  <2>2. linkUp' = FALSE /\ InOrder(wire')
    BY DEF Loses
  <2>3. PICK T \in SUBSET ToSet(wire) : lost' = lost \cup T /\ Precede(ToSet(wire'), T)
    BY DEF Loses
  <2>4. ToSet(wire') \subseteq ToSet(wire) /\ Arriving' \subseteq Arriving
        /\ Arriving' = ToSet(wire') \cup ToSet(queue) \cup held
    BY <1>1 DEF Loses, Arriving
  <2>5. Precede(Arriving', lost')
    BY <2>1, <2>3, <2>4 DEF Precede
  <2>6. Precede(held \cup ToSet(queue), ToSet(wire'))
    BY <2>1, <2>4 DEF Precede
  <2>7. ASSUME NEW w \in Arriving' PROVE Covered(sensors, w.sensor, w.sequence, Arriving')
    <3> SUFFICES ASSUME NEW k \in Nat, Mark(sensors, w.sensor) < k, k < w.sequence
                 PROVE  Message(w.sensor, k) \in Arriving'
      BY DEF Covered
    <3>1. Message(w.sensor, k) \in Left'
      BY <1>1, <2>1, <2>4 DEF Covered, Left
    <3>2. ASSUME Message(w.sensor, k) \in lost' PROVE FALSE
      <4>1. w.sequence < k
        BY <2>5, <3>2 DEF Precede, Message
      <4>2. w.sequence \in Nat
        BY <2>4, MadeTyped DEF Msgs, Made, Passed, Left
      <4> QED BY <4>1, <4>2
    <3> QED BY <3>1, <3>2 DEF Left
  <2> QED BY <1>1, <2>1, <2>2, <2>3, <2>4, <2>5, <2>6, <2>7 DEF Connection
<1> QED BY <1>2, <1>3, <1>4, <1>5 DEF Tidy

-----------------------------------------------------------------------------
(* What the server reads and takes.                                         *)

LEMMA TidyDeliver == ASSUME Typed, Tidy, Deliver PROVE Tidy'
<1>1. UNCHANGED <<config, sequence, messages, held, sensors, run, main, linkUp, lost>>
  BY DEF Deliver, World, source
<1>2. PICK i \in DOMAIN wire : /\ config.protocol = "tcp" => i = 1
                               /\ wire' = RemoveAt(wire, i) /\ queue' = Append(queue, wire[i])
  BY DEF Deliver
<1>0. wire \in Seq(Msgs) /\ queue \in Seq(Msgs) /\ Len(wire) \in Nat /\ DOMAIN wire = 1 .. Len(wire)
  BY DEF Typed
<1> DEFINE d == wire[i]
<1>3. d \in Msgs /\ d \in ToSet(wire)
  BY <1>0, <1>2 DEF ToSet
<1>4. /\ IsInjective(wire) /\ IsInjective(queue)
      /\ \A m \in ToSet(queue) : m \notin ToSet(wire)
      /\ \A m \in held : m \notin ToSet(wire) /\ m \notin ToSet(queue)
  BY DEF Tidy, UnderWay
<1>5. /\ ToSet(wire') \subseteq ToSet(wire) /\ ToSet(wire) \subseteq ToSet(wire') \cup {d}
      /\ d \notin ToSet(wire') /\ IsInjective(wire')
  <2> DEFINE q == RemoveAt(wire, i)
  <2>1. /\ ToSet(q) \subseteq ToSet(wire) /\ ToSet(wire) \subseteq ToSet(q) \cup {d}
        /\ d \notin ToSet(q) /\ IsInjective(q)
    BY <1>0, <1>4, TakenOutSet
  <2> QED BY <1>2, <2>1
<1>6. /\ ToSet(queue') = ToSet(queue) \cup {d}
      /\ d \notin ToSet(queue) => IsInjective(queue')
      /\ InOrder(queue) /\ Precede(ToSet(queue), {d}) => InOrder(queue')
  <2> DEFINE q == Append(queue, d)
  <2>1. /\ ToSet(q) = ToSet(queue) \cup {d}
        /\ IsInjective(queue) /\ d \notin ToSet(queue) => IsInjective(q)
        /\ InOrder(queue) /\ Precede(ToSet(queue), {d}) => InOrder(q)
    BY <1>0, <1>3, AppendedSet, Zenon
  <2>2. queue' = q
    BY <1>2
  <2> HIDE DEF q, d
  <2> QED BY <1>4, <2>1, <2>2
<1> HIDE DEF d
<1>7. Arriving' = Arriving /\ Left' = Left
  BY <1>1, <1>3, <1>5, <1>6 DEF Arriving, Left
<1>8. Upstream' /\ Numbered'
  BY <1>1, <1>7, StaysUpstream
<1>9. UnderWay'
  <2>1. d \notin ToSet(queue) /\ d \notin held
    BY <1>3, <1>4
  <2>2. \A m \in Arriving' :
            /\ Covered(sensors', m.sensor, m.sequence, Left')
            /\ m.sensor \in DOMAIN sensors' => /\ m.sequence # Mark(sensors', m.sensor)
                                               /\ m.sequence \notin sensors'[m.sensor].recentSeqs
    BY <1>1, <1>7 DEF Tidy, UnderWay
  <2> QED BY <1>1, <1>4, <1>5, <1>6, <2>1, <2>2 DEF UnderWay
<1>10. Connection'
  <2> SUFFICES ASSUME config.protocol = "tcp" PROVE Connection'
    BY <1>1 DEF Connection
  <2>1. /\ linkUp = TRUE => lost = {}
        /\ InOrder(wire) /\ InOrder(queue)
        /\ Precede(held, ToSet(queue))
        /\ Precede(held \cup ToSet(queue), ToSet(wire)) /\ Precede(Arriving, lost)
        /\ \A w \in Arriving : Covered(sensors, w.sensor, w.sequence, Arriving)
        /\ \A w \in ToSet(queue) \cup ToSet(wire) \cup lost : Mark(sensors, w.sensor) < w.sequence
        /\ config.workers = 1 => \A w \in held : Mark(sensors, w.sensor) < w.sequence
    BY DEF Tidy, Connection
  <2>2. InOrder(wire') /\ Precede({d}, ToSet(wire'))
    <3> DEFINE q == RemoveAt(wire, 1)
    <3>1. 1 \in DOMAIN wire /\ wire' = q /\ d = wire[1]
      BY <1>2 DEF d
    <3>2. q \in Seq(Msgs) /\ Len(q) = Len(wire) - 1
          /\ \A j \in 1 .. Len(wire) - 1 : q[j] = IF j < 1 THEN wire[j] ELSE wire[j + 1]
      BY <1>0, <3>1, TakenOut
    <3> HIDE DEF q
    <3>3. Len(wire) > 0 /\ DOMAIN q = 1 .. Len(wire) - 1
          /\ \A j \in 1 .. Len(wire) - 1 : q[j] = wire[j + 1]
      BY <1>0, <3>1, <3>2
    <3>4. InOrder(q) /\ Precede({wire[1]}, ToSet(q))
      BY <1>0, <2>1, <3>3, Rest
    <3> QED BY <3>1, <3>4
  <2>3. Precede(ToSet(queue), {d})
    BY <1>3, <2>1 DEF Precede
  <2>4. InOrder(queue')
    BY <1>6, <2>1, <2>3
  <2>5. Precede(held, ToSet(queue'))
    BY <1>3, <1>6, <2>1 DEF Precede
  <2>6. Precede(held \cup ToSet(queue'), ToSet(wire'))
    BY <1>5, <1>6, <2>1, <2>2 DEF Precede
  <2>7. ToSet(queue') \cup ToSet(wire') \subseteq ToSet(queue) \cup ToSet(wire)
    BY <1>3, <1>5, <1>6
  <2> QED BY <1>1, <1>7, <2>1, <2>2, <2>4, <2>5, <2>6, <2>7 DEF Connection
<1>11. Counted'
  BY <1>1, <1>7 DEF Tidy, Counted
<1> QED BY <1>8, <1>9, <1>10, <1>11 DEF Tidy

LEMMA TidyTake == ASSUME Typed, Tidy, Take PROVE Tidy'
<1>1. UNCHANGED <<config, sequence, messages, wire, sensors, run, main, linkUp, lost>>
  BY DEF Take, World, source
<1> DEFINE d == queue[1]
<1>2. /\ queue \in Seq(Msgs) /\ queue # <<>> /\ Cardinality(held) < config.workers
      /\ held' = held \cup {d} /\ queue' = Tail(queue)
  BY DEF Take, Typed
<1>3. /\ Len(queue) > 0 /\ DOMAIN queue' = 1 .. Len(queue) - 1
      /\ \A j \in 1 .. Len(queue) - 1 : queue'[j] = queue[j + 1]
  BY <1>2
<1>4. /\ IsInjective(wire) /\ IsInjective(queue)
      /\ \A m \in ToSet(queue) : m \notin ToSet(wire)
      /\ \A m \in held : m \notin ToSet(wire) /\ m \notin ToSet(queue)
  BY DEF Tidy, UnderWay
<1>5. /\ ToSet(queue) = {d} \cup ToSet(queue')
      /\ d \notin ToSet(queue') /\ IsInjective(queue')
      /\ InOrder(queue) => InOrder(queue') /\ Precede({d}, ToSet(queue'))
  BY <1>2, <1>3, <1>4, Rest
<1> HIDE DEF d
<1>6. Arriving' = Arriving /\ Left' = Left
  BY <1>1, <1>2, <1>5 DEF Arriving, Left
<1>7. Upstream' /\ Numbered'
  BY <1>1, <1>6, StaysUpstream
<1>8. UnderWay'
  <2>1. \A m \in Arriving' :
            /\ Covered(sensors', m.sensor, m.sequence, Left')
            /\ m.sensor \in DOMAIN sensors' => /\ m.sequence # Mark(sensors', m.sensor)
                                               /\ m.sequence \notin sensors'[m.sensor].recentSeqs
    BY <1>1, <1>6 DEF Tidy, UnderWay
  <2> QED BY <1>1, <1>2, <1>4, <1>5, <2>1 DEF UnderWay
<1>9. config.protocol = "tcp" => Mark(sensors, d.sensor) < d.sequence
  BY <1>5 DEF Tidy, Connection
<1>10. Connection'
  <2> SUFFICES ASSUME config.protocol = "tcp" PROVE Connection'
    BY <1>1 DEF Connection
  <2>1. /\ linkUp = TRUE => lost = {}
        /\ InOrder(wire) /\ InOrder(queue)
        /\ Precede(held, ToSet(queue))
        /\ Precede(held \cup ToSet(queue), ToSet(wire)) /\ Precede(Arriving, lost)
        /\ \A w \in Arriving : Covered(sensors, w.sensor, w.sequence, Arriving)
        /\ \A w \in ToSet(queue) \cup ToSet(wire) \cup lost : Mark(sensors, w.sensor) < w.sequence
    BY DEF Tidy, Connection
  <2>2. Precede(held', ToSet(queue'))
    BY <1>2, <1>5, <2>1 DEF Precede
  <2>3. held' \cup ToSet(queue') = held \cup ToSet(queue)
    BY <1>2, <1>5
  <2>4. config.workers = 1 => \A w \in held' : Mark(sensors, w.sensor) < w.sequence
    <3> SUFFICES ASSUME config.workers = 1 PROVE held = {}
      BY <1>2, <1>9
    <3>1. IsFiniteSet(held) /\ Cardinality(held) \in Nat
      BY FS_CardinalityType DEF Typed
    <3> QED BY <1>2, <3>1, FS_EmptySet
  <2> QED BY <1>1, <1>5, <1>6, <2>1, <2>2, <2>3, <2>4 DEF Connection
<1>11. Counted'
  <2>1. config.protocol = "tcp" => \A s : Missed(sensors, s, held') = Missed(sensors, s, held)
    <3>1. d \in Msgs
      BY <1>2, <1>5, SeqElements
    <3>2. d.sequence \in Nat /\ Mark(sensors, d.sensor) \in Nat
      BY <3>1, MarkType DEF Msgs
    <3> QED BY <1>2, <1>9, <3>2 DEF Missed
  <2> QED BY <1>1, <1>6, <2>1 DEF Tidy, Counted
<1> QED BY <1>7, <1>8, <1>10, <1>11 DEF Tidy

-----------------------------------------------------------------------------
(* What is applied.                                                         *)

\* Store T has the marks of store S, but for message d: no mark falls.
Moves(S, T, d) ==
    \A s : Mark(T, s) = IF s = d.sensor /\ Mark(S, s) < d.sequence THEN d.sequence ELSE Mark(S, s)

\* Once d is known to the server, nobody has to wait for it.
LEMMA StillCovered ==
    ASSUME NEW S, NEW T, NEW d \in Msgs, Moves(S, T, d), \A s : Mark(S, s) \in Nat,
           NEW A, NEW B, A \subseteq B \cup {d}, NEW s, NEW n, Covered(S, s, n, A)
    PROVE  Covered(T, s, n, B)
<1>1. d.sequence \in Nat
  BY DEF Msgs
<1> SUFFICES ASSUME NEW k \in Nat, Mark(T, s) < k, k < n PROVE Message(s, k) \in B
  BY DEF Covered
<1>2. Mark(S, s) <= Mark(T, s) /\ (s = d.sensor => d.sequence <= Mark(T, s)) /\ Mark(T, s) \in Nat
  BY <1>1 DEF Moves
<1>3. Mark(S, s) < k /\ (s = d.sensor => k # d.sequence)
  <2>1. Mark(S, s) \in Nat
    OBVIOUS
  <2> QED BY <1>1, <1>2, <2>1
<1>4. Message(s, k) \in A
  BY <1>3 DEF Covered
<1>5. Message(s, k) # d
  BY <1>3 DEF Message
<1> QED BY <1>4, <1>5

LEMMA StillBehind ==
    ASSUME NEW S, NEW T, NEW d \in Msgs, Moves(S, T, d), \A s : Mark(S, s) \in Nat,
           NEW A, NEW B, B \subseteq A, A \subseteq B \cup {d}, d \in A,
           NEW m, Behind(S, m, A)
    PROVE  Behind(T, m, B)
<1>1. Mark(S, m.sensor) < m.sequence /\ (m.sensor = d.sensor => d.sequence < m.sequence)
  BY DEF Behind
<1>2. Mark(T, m.sensor) < m.sequence
  BY <1>1 DEF Moves
<1>3. Covered(T, m.sensor, m.sequence, B)
  BY StillCovered DEF Behind
<1> QED BY <1>2, <1>3 DEF Behind

\* The messages with the numbers between two others, and how many they are.
Jumped(s, a, b) == {Message(s, k) : k \in a + 1 .. b - 1}

LEMMA JumpedCount ==
    ASSUME NEW s, NEW a \in Nat, NEW b \in Nat, a < b
    PROVE  IsFiniteSet(Jumped(s, a, b)) /\ Cardinality(Jumped(s, a, b)) = b - a - 1
<1> DEFINE I == a + 1 .. b - 1
           J == {Message(s, k) : k \in I}
           f == [k \in I |-> Message(s, k)]
<1>1. IsFiniteSet(I) /\ Cardinality(I) = b - a - 1
  <2> DEFINE x == a + 1
             y == b - 1
  <2>1. x \in Int /\ y \in Int /\ (IF x > y THEN 0 ELSE y - x + 1) = b - a - 1
    OBVIOUS
  <2> HIDE DEF x, y
  <2>2. IsFiniteSet(x .. y) /\ Cardinality(x .. y) = IF x > y THEN 0 ELSE y - x + 1
    BY <2>1, FS_Interval
  <2> QED BY <2>1, <2>2 DEF x, y
<1> HIDE DEF I
<1>2. f \in Bijection(I, J)
  <2>1. f \in [I -> J]
    OBVIOUS
  <2>2. IsInjective(f)
    BY DEF IsInjective, Message
  <2>3. \A j \in J : \E k \in I : f[k] = j
    OBVIOUS
  <2> QED BY <2>1, <2>2, <2>3 DEF Bijection, Injection, Surjection
<1>3. IsFiniteSet(J) /\ Cardinality(J) = Cardinality(I)
  <2>1. ExistsBijection(I, J)
    BY <1>2 DEF ExistsBijection
  <2> HIDE DEF J
  <2> QED BY <1>1, <2>1, FS_Bijection
<1> QED BY <1>1, <1>3 DEF I, Jumped

LEMMA LeftFinite == ASSUME Typed PROVE IsFiniteSet(Left)
<1>1. IsFiniteSet(ToSet(wire)) /\ IsFiniteSet(ToSet(queue)) /\ IsFiniteSet(held) /\ IsFiniteSet(lost)
  BY SeqElements DEF Typed
<1> QED BY <1>1, FS_Union DEF Left, Arriving

\* The entry of the sensor afterwards: the message is new to it.
LEMMA EntryApplied ==
    ASSUME Typed, Tidy, NEW d \in held, Applies(d)
    PROVE  LET t == d.sensor
               n == d.sequence
               f == sensors'[t]
           IN  /\ DOMAIN sensors' = DOMAIN sensors \cup {t}
               /\ \A s \in DOMAIN sensors : s # t => sensors'[s] = sensors[s]
               /\ Mark(sensors', t) = IF Mark(sensors, t) < n THEN n ELSE Mark(sensors, t)
               /\ f.duplicateCount = 0
               /\ \A k \in f.recentSeqs : k <= f.lastSequence
               /\ \A k \in f.recentSeqs : k = n \/ (t \in DOMAIN sensors /\ k \in sensors[t].recentSeqs)
               /\ t \notin DOMAIN sensors => /\ f.droppedCount = 0 /\ f.outOfOrderCount = 0
                                             /\ f.messageCount = 1 /\ f.lastSequence = n
               /\ t \in DOMAIN sensors /\ Mark(sensors, t) < n =>
                      /\ f.droppedCount = sensors[t].droppedCount + (n - Mark(sensors, t) - 1)
                      /\ f.outOfOrderCount = sensors[t].outOfOrderCount
                      /\ f.messageCount = sensors[t].messageCount + 1 /\ f.lastSequence = n
               /\ t \in DOMAIN sensors /\ ~ (Mark(sensors, t) < n) =>
                      /\ n < Mark(sensors, t)
                      /\ f.droppedCount = sensors[t].droppedCount
                      /\ f.outOfOrderCount = sensors[t].outOfOrderCount + 1
                      /\ f.messageCount = sensors[t].messageCount + 1
                      /\ f.lastSequence = sensors[t].lastSequence
<1> DEFINE t == d.sensor
           n == d.sequence
           e == IF t \in DOMAIN sensors THEN Updated(sensors[t], n) ELSE NewEntry(n)
<1>1. d \in Msgs /\ n \in SequenceNumbers /\ n \in Nat /\ n > 0
  <2>1. d \in Msgs /\ n \in SequenceNumbers
    BY Applied
  <2> QED BY <2>1 DEF Msgs
<1>2. sensors' = [x \in DOMAIN sensors \cup {t} |-> IF x = t THEN e ELSE sensors[x]]
  BY DEF Applies
<1>3. t \in DOMAIN sensors => n # Mark(sensors, t) /\ n \notin sensors[t].recentSeqs
  <2>1. d \in Arriving
    BY DEF Arriving
  <2> HIDE DEF e
  <2> QED BY <2>1 DEF Tidy, UnderWay
<1> HIDE DEF t, n, e
<1>4. /\ sensors'[t] = e /\ DOMAIN sensors' = DOMAIN sensors \cup {t}
      /\ \A s \in DOMAIN sensors : s # t => sensors'[s] = sensors[s]
      /\ Mark(sensors', t) = e.lastSequence
  BY <1>2 DEF Mark
<1>5. CASE t \notin DOMAIN sensors
  <2>1. e = NewEntry(n) /\ Mark(sensors, t) = 0
    BY <1>5 DEF e, Mark
  <2> QED BY <1>1, <1>4, <1>5, <2>1 DEF NewEntry, t, n
<1>6. CASE t \in DOMAIN sensors
  <2> DEFINE o == sensors[t]
  <2>1. /\ e = Updated(o, n) /\ Mark(sensors, t) = o.lastSequence /\ o \in Entry
        /\ n # o.lastSequence /\ n \notin o.recentSeqs
    BY <1>3, <1>6 DEF e, Mark, Typed
  <2>2. o.duplicateCount = 0 /\ \A k \in o.recentSeqs : k <= o.lastSequence
    BY <1>6 DEF Tidy, Counted
  <2>3. o.lastSequence \in Nat /\ \A k \in o.recentSeqs : k \in Nat
    BY <2>1 DEF Entry, SequenceNumbers
  <2> HIDE DEF o
  <2>4. CASE o.lastSequence < n
    <3>1. Advances(o, n)
      BY <1>1, <2>3, <2>4 DEF Advances
    <3>2. /\ e.lastSequence = n /\ e.recentSeqs = Pruned(o.recentSeqs \cup {n}, n)
          /\ e.messageCount = o.messageCount + 1
          /\ e.droppedCount = o.droppedCount + (n - o.lastSequence - 1)
          /\ e.duplicateCount = o.duplicateCount /\ e.outOfOrderCount = o.outOfOrderCount
      BY <1>1, <2>1, <3>1, AdvanceFields
    <3>3. e.recentSeqs \subseteq o.recentSeqs \cup {n}
      BY <3>2 DEF Pruned
    <3>4. \A k \in e.recentSeqs : k <= n
      BY <1>1, <2>2, <2>3, <2>4, <3>3
    <3> QED BY <1>4, <1>6, <2>1, <2>2, <2>4, <3>2, <3>3, <3>4 DEF t, n, o
  <2>5. CASE ~ (o.lastSequence < n)
    <3>1. n < o.lastSequence /\ ~ Advances(o, n) /\ ~ IsDuplicate(o, n)
      BY <1>1, <2>1, <2>3, <2>5 DEF Advances, IsDuplicate
    <3>2. /\ e.lastSequence = o.lastSequence /\ e.recentSeqs = o.recentSeqs \cup {n}
          /\ e.messageCount = o.messageCount + 1
          /\ e.droppedCount = o.droppedCount /\ e.duplicateCount = o.duplicateCount
          /\ e.outOfOrderCount = o.outOfOrderCount + 1
      BY <1>1, <2>1, <3>1, LateFields
    <3>3. \A k \in e.recentSeqs : k <= o.lastSequence
      BY <1>1, <2>2, <2>3, <3>1, <3>2
    <3> QED BY <1>4, <1>6, <2>1, <2>2, <2>5, <3>1, <3>2, <3>3 DEF t, n, o
  <2> QED BY <2>4, <2>5
<1> QED BY <1>5, <1>6

\* What of a set is missed by the sensor of d once d is applied: the numbers that it
\* jumps over, or d less; exactly, when d was there once and the mark is not.
LEMMA MissedApplied ==
    ASSUME NEW S, NEW T, NEW d \in Msgs, Moves(S, T, d), Mark(S, d.sensor) \in Nat,
           NEW A \in SUBSET Msgs, IsFiniteSet(A), NEW B, B \subseteq A, A \subseteq B \cup {d},
           Covered(S, d.sensor, d.sequence, A)
    PROVE  LET t == d.sensor
               n == d.sequence
               old == Mark(S, t)
               before == Cardinality(Missed(S, t, A))
               after  == Cardinality(Missed(T, t, B))
           IN  /\ before \in Nat /\ after \in Nat
               /\ old < n => before + (n - old - 1) <= after
               /\ ~ (old < n) => before - 1 <= after
               /\ d \in A /\ d \notin B /\ (\A a \in A : a.sensor = t => a.sequence # old) =>
                      /\ old < n => after = before + (n - old - 1)
                      /\ ~ (old < n) => after = before - 1
<1> DEFINE t == d.sensor
           n == d.sequence
           old == Mark(S, t)
           M == Missed(S, t, A)
           N == Missed(T, t, B)
           Once == d \in A /\ d \notin B /\ \A a \in A : a.sensor = t => a.sequence # old
<1>1. n \in Nat /\ old \in Nat
  BY DEF Msgs
<1>2. Mark(T, t) = IF old < n THEN n ELSE old
  BY DEF Moves
<1>3. IsFiniteSet(M) /\ IsFiniteSet(N) /\ Cardinality(M) \in Nat /\ Cardinality(N) \in Nat
  <2>1. M \in SUBSET A /\ N \in SUBSET A
    BY DEF Missed
  <2> QED BY <2>1, FS_Subset, FS_CardinalityType
<1>4. \A m \in A : m.sequence \in Nat /\ (m.sensor = t => m = Message(t, m.sequence))
  BY DEF Msgs, Message
<1> HIDE DEF t, n, old
<1>5. CASE old < n
  <2> DEFINE J == Jumped(t, old, n)
  <2>1. IsFiniteSet(J) /\ Cardinality(J) = n - old - 1 /\ Cardinality(J) \in Nat
    BY <1>1, <1>5, JumpedCount, FS_CardinalityType, Zenon
  <2>2. M \cap J = {}
    BY <1>1, <1>4 DEF Missed, Message, old, Jumped
  <2>3. J \subseteq N
    <3> SUFFICES ASSUME NEW k \in old + 1 .. n - 1 PROVE Message(t, k) \in N
      BY DEF Jumped
    <3>1. k \in Nat /\ old < k /\ k < n
      BY <1>1
    <3>2. Message(t, k) \in A /\ Message(t, k) # d
      BY <3>1 DEF Covered, Message, old, n, t
    <3> QED BY <1>2, <1>5, <3>1, <3>2 DEF Missed, Message
  <2>4. M \subseteq N
    <3> SUFFICES ASSUME NEW m \in M PROVE m \in N
      OBVIOUS
    <3>1. m \in A /\ m.sensor = t /\ m.sequence < old /\ m.sequence \in Nat
      BY <1>4 DEF Missed, old
    <3>2. m.sequence < n
      BY <1>1, <1>5, <3>1
    <3>3. m # d
      BY <1>1, <3>2 DEF n
    <3> QED BY <1>2, <1>5, <3>1, <3>2, <3>3 DEF Missed
  <2>5. Once => N \subseteq M \cup J
    <3> SUFFICES ASSUME Once, NEW m \in N, m.sequence >= old PROVE m \in J
      BY <1>1, <1>2, <1>4, <1>5 DEF Missed, old
    <3>1. /\ m \in A /\ m.sensor = t /\ m.sequence < n /\ m.sequence # old /\ m.sequence \in Nat
          /\ m = Message(t, m.sequence)
      BY <1>2, <1>4, <1>5 DEF Missed
    <3>2. m.sequence \in old + 1 .. n - 1
      BY <1>1, <3>1
    <3> QED BY <3>1, <3>2 DEF Jumped
  <2> HIDE DEF M, N, J, Once
  <2>6. Cardinality(M \cup J) = Cardinality(M) + Cardinality(J) /\ IsFiniteSet(M \cup J)
    <3>1. /\ IsFiniteSet(M \cup J)
          /\ Cardinality(M \cup J) = Cardinality(M) + Cardinality(J) - Cardinality(M \cap J)
      BY <1>3, <2>1, FS_Union, Zenon
    <3>2. Cardinality(M \cap J) = 0
      BY <2>2, FS_EmptySet, Zenon
    <3> QED BY <1>3, <2>1, <3>1, <3>2
  <2>7. Cardinality(M \cup J) <= Cardinality(N)
    BY <1>3, <2>3, <2>4, FS_Subset
  <2>8. Once => M \cup J = N
    BY <2>3, <2>4, <2>5
  <2> QED BY <1>1, <1>3, <1>5, <2>1, <2>6, <2>7, <2>8 DEF M, N, Once, old, t, n
<1>6. CASE ~ (old < n)
  <2>1. M \ {d} \subseteq N
    BY <1>2, <1>6 DEF Missed, old
  <2>2. Once => N \subseteq M \ {d} /\ d \in M
    <3>1. ASSUME Once PROVE N \subseteq M \ {d}
      BY <1>2, <1>6, <3>1 DEF Missed, old
    <3>2. ASSUME Once PROVE d \in M
      <4>1. d \in A /\ d.sensor = t /\ d.sequence = n /\ n # old
        BY <3>2 DEF t, n
      <4> QED BY <1>1, <1>6, <4>1 DEF Missed, old
    <3> QED BY <3>1, <3>2
  <2> HIDE DEF M, N, Once
  <2>3. Cardinality(M \ {d}) = IF d \in M THEN Cardinality(M) - 1 ELSE Cardinality(M)
    BY <1>3, FS_RemoveElement, Zenon
  <2>4. Cardinality(M \ {d}) <= Cardinality(N) /\ Cardinality(M \ {d}) \in Nat
    BY <1>3, <2>1, FS_Subset, FS_RemoveElement, FS_CardinalityType
  <2>5. Once => N = M \ {d}
    BY <2>1, <2>2
  <2> QED BY <1>1, <1>3, <1>6, <2>2, <2>3, <2>4, <2>5 DEF M, N, Once, old, t, n
<1> QED BY <1>5, <1>6, <1>3 DEF M, N, t, n, old

\* Which marks, sets and messages a worker moves.
LEMMA WhatMoves ==
    ASSUME Typed, Tidy, NEW d \in held, Applies(d), UNCHANGED <<wire, queue, lost>>
    PROVE  /\ Moves(sensors, sensors', d) /\ d \in Msgs /\ d \in Left
           /\ \A s : Mark(sensors, s) \in Nat
           /\ Arriving' = Arriving \ {d} /\ Left' \subseteq Left /\ Left \subseteq Left' \cup {d}
<1>1. /\ DOMAIN sensors' = DOMAIN sensors \cup {d.sensor}
      /\ \A s \in DOMAIN sensors : s # d.sensor => sensors'[s] = sensors[s]
      /\ Mark(sensors', d.sensor) = IF Mark(sensors, d.sensor) < d.sequence
                                    THEN d.sequence ELSE Mark(sensors, d.sensor)
  BY EntryApplied
<1>2. Moves(sensors, sensors', d)
  <2> SUFFICES ASSUME NEW s, s # d.sensor PROVE Mark(sensors', s) = Mark(sensors, s)
    BY <1>1 DEF Moves
  <2> QED BY <1>1 DEF Mark
<1>3. held' = held \ {d} /\ d \in Msgs
  BY Applied DEF Applies
<1>4. d \notin ToSet(wire) /\ d \notin ToSet(queue)
  BY DEF Tidy, UnderWay
<1>5. /\ Arriving' = Arriving \ {d} /\ Left' \subseteq Left /\ Left \subseteq Left' \cup {d}
      /\ d \in Left
  BY <1>3, <1>4 DEF Arriving, Left
<1> QED BY <1>2, <1>3, <1>5, MarkType

\* Over a connection what a message jumps over is with the other workers; a single
\* worker jumps over nothing.
LEMMA JumpsHeld ==
    ASSUME Typed, Tidy, config.protocol = "tcp", NEW d \in held
    PROVE  /\ Covered(sensors, d.sensor, d.sequence, held)
           /\ config.workers = 1 => d.sequence = Mark(sensors, d.sensor) + 1
<1> DEFINE t == d.sensor
           n == d.sequence
           old == Mark(sensors, t)
<1>1. /\ Covered(sensors, t, n, Arriving)
      /\ Precede(held, ToSet(queue)) /\ Precede(held \cup ToSet(queue), ToSet(wire))
      /\ config.workers = 1 => old < n
  BY DEF Tidy, Connection, Arriving
<1>2. d \in Msgs /\ n \in Nat /\ old \in Nat
  <2>1. d \in Msgs
    BY DEF Typed
  <2> QED BY <2>1, MarkType DEF Msgs
<1> HIDE DEF t, n, old
<1>3. Covered(sensors, t, n, held)
  <2> SUFFICES ASSUME NEW k \in Nat, old < k, k < n PROVE Message(t, k) \in held
    BY DEF Covered, old
  <2>1. Message(t, k) \in Arriving
    BY <1>1 DEF Covered, old
  <2>2. Message(t, k) \notin ToSet(queue) /\ Message(t, k) \notin ToSet(wire)
    <3>1. Message(t, k).sensor = d.sensor /\ Message(t, k).sequence = k /\ ~ (d.sequence < k)
      BY <1>2 DEF Message, t, n
    <3> QED BY <1>1, <3>1 DEF Precede
  <2> QED BY <2>1, <2>2 DEF Arriving
<1>4. config.workers = 1 => n = old + 1
  <2> SUFFICES ASSUME config.workers = 1, old + 1 < n PROVE FALSE
    BY <1>1, <1>2
  <2>1. Message(t, old + 1) \in held
    BY <1>2, <1>3 DEF Covered, old
  <2>2. Message(t, old + 1) # d
    BY <1>2 DEF Message, n
  <2>3. IsFiniteSet(held) /\ Cardinality(held) \in Nat /\ Cardinality(held) <= 1
    BY FS_CardinalityType DEF Typed
  <2>4. IsFiniteSet(held \ {d}) /\ Cardinality(held \ {d}) = Cardinality(held) - 1
    BY <2>3, FS_RemoveElement
  <2>5. Cardinality(held \ {d}) \in Nat
    BY <2>4, FS_CardinalityType
  <2>6. held \ {d} = {}
    BY <2>3, <2>4, <2>5, FS_EmptySet
  <2> QED BY <2>1, <2>2, <2>6
<1> QED BY <1>3, <1>4 DEF t, n, old

LEMMA CountedApplied ==
    ASSUME Typed, Tidy, NEW d \in held, Applies(d), UNCHANGED <<wire, queue, lost, config>>
    PROVE  Counted'
<1> DEFINE t == d.sensor
           n == d.sequence
           old == Mark(sensors, t)
           f == sensors'[t]
           tcp == config.protocol = "tcp"
           single == config.workers = 1
<1>0. /\ Moves(sensors, sensors', d) /\ d \in Msgs /\ \A s : Mark(sensors, s) \in Nat
      /\ Left' \subseteq Left /\ Left \subseteq Left' \cup {d} /\ d \in Left
  BY WhatMoves
<1>1. n \in Nat /\ old \in Nat /\ n > 0
  BY <1>0 DEF Msgs
<1>2. /\ DOMAIN sensors' = DOMAIN sensors \cup {t}
      /\ \A s \in DOMAIN sensors : s # t => sensors'[s] = sensors[s]
      /\ f.duplicateCount = 0 /\ \A k \in f.recentSeqs : k <= f.lastSequence
      /\ t \notin DOMAIN sensors => f.droppedCount = 0 /\ f.outOfOrderCount = 0
                                    /\ f.messageCount = 1 /\ f.lastSequence = n
      /\ t \in DOMAIN sensors /\ old < n =>
             /\ f.droppedCount = sensors[t].droppedCount + (n - old - 1)
             /\ f.outOfOrderCount = sensors[t].outOfOrderCount
             /\ f.messageCount = sensors[t].messageCount + 1 /\ f.lastSequence = n
      /\ t \in DOMAIN sensors /\ ~ (old < n) =>
             /\ f.droppedCount = sensors[t].droppedCount
             /\ f.outOfOrderCount = sensors[t].outOfOrderCount + 1
             /\ f.messageCount = sensors[t].messageCount + 1
             /\ f.lastSequence = sensors[t].lastSequence
  BY EntryApplied
<1>3. /\ Left \in SUBSET Msgs /\ IsFiniteSet(Left) /\ Covered(sensors, t, n, Left)
      /\ held \in SUBSET Msgs /\ IsFiniteSet(held) /\ held' = held \ {d}
  <2>1. d \in Arriving
    BY DEF Arriving
  <2> QED BY <2>1, LeftFinite, MadeTyped DEF Made, Passed, Tidy, UnderWay, Typed, Applies
<1> DEFINE a == Cardinality(Missed(sensors, t, Left))
           c == Cardinality(Missed(sensors', t, Left'))
           x == Cardinality(Missed(sensors, t, held))
           y == Cardinality(Missed(sensors', t, held'))
<1>4. /\ a \in Nat /\ c \in Nat
      /\ old < n => a + (n - old - 1) <= c
      /\ ~ (old < n) => a - 1 <= c
  BY <1>0, <1>3, MissedApplied
<1>5. tcp => /\ x \in Nat /\ y \in Nat
             /\ old < n => y = x + (n - old - 1)
             /\ ~ (old < n) => y = x - 1
             /\ single => n = old + 1
  <2> SUFFICES ASSUME tcp
               PROVE  /\ x \in Nat /\ y \in Nat
                      /\ old < n => y = x + (n - old - 1)
                      /\ ~ (old < n) => y = x - 1
                      /\ single => n = old + 1
    OBVIOUS
  <2>1. Covered(sensors, t, n, held) /\ (single => n = old + 1)
    BY JumpsHeld
  <2>2. \A m \in held : m.sensor = t => m.sequence # old
    <3> SUFFICES ASSUME NEW m \in held, m.sensor = t PROVE m.sequence # old
      OBVIOUS
    <3>1. m \in Arriving /\ m.sequence > 0
      BY <1>3 DEF Arriving, Msgs
    <3> QED BY <3>1 DEF Tidy, UnderWay, Mark
  <2>3. held' \subseteq held /\ held \subseteq held' \cup {d} /\ d \in held /\ d \notin held'
    BY <1>3
  <2> HIDE DEF tcp, single
  <2> QED BY <1>0, <1>3, <2>1, <2>2, <2>3, MissedApplied
<1> DEFINE Right(e, missed, jumped) ==
        /\ e.duplicateCount = 0
        /\ \A k \in e.recentSeqs : k <= e.lastSequence
        /\ e.droppedCount <= e.outOfOrderCount + missed
        /\ tcp => /\ e.lastSequence = e.messageCount + jumped
                  /\ single => e.droppedCount = 0 /\ e.outOfOrderCount = 0
<1>6. ASSUME NEW s \in DOMAIN sensors
      PROVE  Right(sensors[s], Cardinality(Missed(sensors, s, Left)),
                               Cardinality(Missed(sensors, s, held)))
  BY DEF Tidy, Counted
<1> HIDE DEF t, n, old
<1>7. ASSUME NEW s \in DOMAIN sensors', s # t
      PROVE  Right(sensors'[s], Cardinality(Missed(sensors', s, Left')),
                                Cardinality(Missed(sensors', s, held')))
  <2>1. s \in DOMAIN sensors /\ sensors'[s] = sensors[s]
    BY <1>2, <1>7
  <2>2. /\ Missed(sensors', s, Left') = Missed(sensors, s, Left)
        /\ Missed(sensors', s, held') = Missed(sensors, s, held)
    BY <1>0, <1>2, <1>3, <1>7, <2>1 DEF Missed, Mark, t
  <2> QED BY <1>6, <2>1, <2>2
<1>8. Right(f, c, y)
  <2> HIDE DEF tcp, single
  <2>1. CASE t \notin DOMAIN sensors
    <3>1. old = 0
      BY <2>1 DEF old, Mark
    <3>2. x = 0
      <4>1. Missed(sensors, t, held) = {}
        BY <1>3, <2>1 DEF Missed, Mark, Msgs
      <4> QED BY <4>1, FS_EmptySet
    <3> HIDE DEF f, c, x, y
    <3> QED BY <1>1, <1>2, <1>4, <1>5, <2>1, <3>1, <3>2
  <2>2. CASE t \in DOMAIN sensors
    <3> DEFINE e == sensors[t]
    <3>1. Right(e, a, x) /\ e \in Entry
      BY <1>6, <2>2 DEF Typed
    <3>2. e.droppedCount \in Nat /\ e.outOfOrderCount \in Nat /\ e.messageCount \in Nat
      BY <3>1 DEF Entry
    <3>3. old = e.lastSequence
      BY <2>2 DEF old, Mark
    <3>4. CASE old < n
      <4>1. /\ f.droppedCount = e.droppedCount + (n - old - 1)
            /\ f.outOfOrderCount = e.outOfOrderCount
            /\ f.messageCount = e.messageCount + 1 /\ f.lastSequence = n
        BY <1>2, <2>2, <3>4
      <4>2. f.duplicateCount = 0 /\ \A k \in f.recentSeqs : k <= f.lastSequence
        BY <1>2
      <4> HIDE DEF a, c, x, y, e, f
      <4>3. f.droppedCount <= f.outOfOrderCount + c
        BY <1>1, <1>4, <3>1, <3>2, <3>4, <4>1
      <4>4. ASSUME tcp PROVE f.lastSequence = f.messageCount + y
        BY <1>1, <1>5, <3>1, <3>2, <3>3, <3>4, <4>1, <4>4
      <4>5. ASSUME tcp, single PROVE f.droppedCount = 0 /\ f.outOfOrderCount = 0
        BY <1>1, <1>5, <3>1, <3>2, <3>4, <4>1, <4>5
      <4> QED BY <4>2, <4>3, <4>4, <4>5
    <3>5. CASE ~ (old < n)
      <4>1. /\ f.droppedCount = e.droppedCount /\ f.outOfOrderCount = e.outOfOrderCount + 1
            /\ f.messageCount = e.messageCount + 1 /\ f.lastSequence = e.lastSequence
        BY <1>2, <2>2, <3>5
      <4>2. f.duplicateCount = 0 /\ \A k \in f.recentSeqs : k <= f.lastSequence
        BY <1>2
      <4> HIDE DEF a, c, x, y, e, f
      <4>3. f.droppedCount <= f.outOfOrderCount + c
        BY <1>4, <3>1, <3>2, <3>5, <4>1
      <4>4. ASSUME tcp PROVE f.lastSequence = f.messageCount + y
        BY <1>5, <3>1, <3>2, <3>5, <4>1, <4>4
      <4>5. ASSUME tcp, single PROVE FALSE
        BY <1>1, <1>5, <3>5, <4>5
      <4> QED BY <4>2, <4>3, <4>4, <4>5
    <3> QED BY <3>4, <3>5
  <2> QED BY <2>1, <2>2
<1>9. \A s \in DOMAIN sensors' : Right(sensors'[s], Cardinality(Missed(sensors', s, Left')),
                                                     Cardinality(Missed(sensors', s, held')))
  BY <1>7, <1>8
<1> QED BY <1>9 DEF Counted

LEMMA TidyApply == ASSUME Typed, Tidy, Apply PROVE Tidy'
<1>1. UNCHANGED <<config, sequence, messages, run, main, linkUp, wire, queue, lost>>
  BY DEF Apply, World, source
<1>2. PICK d \in held : Applies(d)
  BY DEF Apply, Applies
<1> DEFINE t == d.sensor
           n == d.sequence
<1>3. /\ DOMAIN sensors' = DOMAIN sensors \cup {t}
      /\ \A s \in DOMAIN sensors : s # t => sensors'[s] = sensors[s]
      /\ Mark(sensors', t) = IF Mark(sensors, t) < n THEN n ELSE Mark(sensors, t)
      /\ \A k \in sensors'[t].recentSeqs :
             k = n \/ (t \in DOMAIN sensors /\ k \in sensors[t].recentSeqs)
      /\ t \notin DOMAIN sensors => Mark(sensors', t) = n
  <2>1. t \notin DOMAIN sensors => sensors'[t].lastSequence = n
    BY <1>2, EntryApplied
  <2> QED BY <1>2, <2>1, EntryApplied DEF Mark
<1> HIDE DEF t, n
<1>4. /\ Moves(sensors, sensors', d) /\ d \in Msgs /\ d \in Left /\ \A s : Mark(sensors, s) \in Nat
      /\ Arriving' = Arriving \ {d} /\ Left' \subseteq Left /\ Left \subseteq Left' \cup {d}
  BY <1>1, <1>2, WhatMoves
<1>5. InMain' = InMain /\ InRun' = InRun
  BY <1>1 DEF InMain, InRun
<1>6. /\ Passed' \subseteq Passed /\ Passed \subseteq Passed' \cup {d} /\ d \in Passed
      /\ Made' \subseteq Made /\ Made \subseteq Made' \cup {d} /\ d \in Made
      /\ \A j : Before(j)' \subseteq Before(j) /\ Before(j) \subseteq Before(j)' \cup {d} /\ d \in Before(j)
  BY <1>1, <1>4, <1>5 DEF Passed, Made, Before
<1>7. Upstream'
  <2>1. ASSUME NEW m \in InMain PROVE Behind(sensors', m, Left')
    <3>1. Behind(sensors, m, Left)
      BY DEF Tidy, Upstream
    <3> QED BY <1>4, <3>1, StillBehind
  <2>2. ASSUME NEW j \in DOMAIN messages PROVE Behind(sensors', messages[j], Before(j)')
    <3>1. Behind(sensors, messages[j], Before(j))
      BY DEF Tidy, Upstream
    <3> QED BY <1>4, <1>6, <3>1, StillBehind
  <2>3. ASSUME NEW m \in InRun PROVE Behind(sensors', m, Passed')
    <3>1. Behind(sensors, m, Passed)
      BY DEF Tidy, Upstream
    <3> QED BY <1>4, <1>6, <3>1, StillBehind
  <2> QED BY <1>1, <1>5, <2>1, <2>2, <2>3 DEF Upstream
<1>8. Numbered'
  <2> SUFFICES ASSUME NEW g \in DOMAIN sequence
               PROVE  LET s == SensorId(config, g) IN
                      /\ Mark(sensors', s) <= sequence[g]
                      /\ \A m \in Made' : m.sensor = s => m.sequence <= sequence[g]
                      /\ run.pc \in {"starting", "ticking", "sending"} =>
                             Covered(sensors', s, sequence[g] + 1, Made')
    BY <1>1 DEF Numbered
  <2> DEFINE s == SensorId(config, g)
  <2>1. /\ Mark(sensors, s) <= sequence[g]
        /\ \A m \in Made : m.sensor = s => m.sequence <= sequence[g]
        /\ run.pc \in {"starting", "ticking", "sending"} => Covered(sensors, s, sequence[g] + 1, Made)
    BY DEF Tidy, Numbered
  <2> HIDE DEF s
  <2>2. Mark(sensors', s) <= sequence[g]
    BY <1>4, <1>6, <2>1 DEF Moves
  <2>3. run.pc \in {"starting", "ticking", "sending"} => Covered(sensors', s, sequence[g] + 1, Made')
    BY <1>4, <1>6, <2>1, StillCovered
  <2> QED BY <1>6, <2>1, <2>2, <2>3 DEF s
<1>9. UnderWay'
  <2>1. ASSUME NEW m \in Arriving'
        PROVE  /\ Covered(sensors', m.sensor, m.sequence, Left')
               /\ m.sensor \in DOMAIN sensors' =>
                      /\ m.sequence # Mark(sensors', m.sensor)
                      /\ m.sequence \notin sensors'[m.sensor].recentSeqs
    <3>1. /\ Covered(sensors, m.sensor, m.sequence, Left)
          /\ m.sensor \in DOMAIN sensors => /\ m.sequence # Mark(sensors, m.sensor)
                                            /\ m.sequence \notin sensors[m.sensor].recentSeqs
      BY <1>4 DEF Tidy, UnderWay
    <3>2. Covered(sensors', m.sensor, m.sequence, Left')
      BY <1>4, <3>1, StillCovered
    <3>3. m.sensor = t => m.sequence # n
      <4>1. m # d /\ m \in Msgs
        BY <1>4, MadeTyped DEF Made, Passed, Left
      <4> QED BY <1>4, <4>1 DEF Msgs, t, n
    <3>4. CASE m.sensor = t
      BY <1>3, <3>1, <3>2, <3>3, <3>4
    <3>5. CASE m.sensor # t
      BY <1>3, <3>1, <3>2, <3>5 DEF Mark
    <3> QED BY <3>4, <3>5
  <2>2. held' \subseteq held
    BY <1>2 DEF Applies
  <2> QED BY <1>1, <2>1, <2>2 DEF Tidy, UnderWay
<1>10. Connection'
  <2> SUFFICES ASSUME config.protocol = "tcp" PROVE Connection'
    BY <1>1 DEF Connection
  <2>1. /\ linkUp = TRUE => lost = {}
        /\ InOrder(wire) /\ InOrder(queue)
        /\ Precede(held, ToSet(queue))
        /\ Precede(held \cup ToSet(queue), ToSet(wire)) /\ Precede(Arriving, lost)
        /\ \A w \in Arriving : Covered(sensors, w.sensor, w.sequence, Arriving)
        /\ \A w \in ToSet(queue) \cup ToSet(wire) \cup lost : Mark(sensors, w.sensor) < w.sequence
    BY DEF Tidy, Connection
  <2>2. held' \subseteq held /\ held' = held \ {d}
    BY <1>2 DEF Applies
  <2>3. /\ Precede(held', ToSet(queue)) /\ Precede(held' \cup ToSet(queue), ToSet(wire))
        /\ Precede(Arriving', lost)
    BY <1>4, <2>1, <2>2 DEF Precede
  <2>4. ASSUME NEW w \in Arriving' PROVE Covered(sensors', w.sensor, w.sequence, Arriving')
    <3>1. w \in Arriving /\ Arriving \subseteq Arriving' \cup {d}
      BY <1>4
    <3>2. Covered(sensors, w.sensor, w.sequence, Arriving)
      BY <2>1, <3>1
    <3> QED BY <1>4, <3>1, <3>2, StillCovered
  <2>5. ASSUME NEW w \in ToSet(queue) \cup ToSet(wire) \cup lost
        PROVE  Mark(sensors', w.sensor) < w.sequence
    <3>1. Mark(sensors, w.sensor) < w.sequence /\ (d.sensor = w.sensor => d.sequence < w.sequence)
      BY <2>1 DEF Precede, Arriving
    <3> QED BY <1>4, <3>1 DEF Moves
  <2>6. config.workers = 1 => held' = {}
    <3> SUFFICES ASSUME config.workers = 1 PROVE held' = {}
      OBVIOUS
    <3>1. IsFiniteSet(held) /\ Cardinality(held) \in Nat /\ Cardinality(held) <= 1
      BY FS_CardinalityType DEF Typed
    <3>2. IsFiniteSet(held \ {d}) /\ Cardinality(held \ {d}) = Cardinality(held) - 1
      BY <3>1, FS_RemoveElement
    <3>3. Cardinality(held \ {d}) \in Nat
      BY <3>2, FS_CardinalityType
    <3> QED BY <2>2, <3>1, <3>2, <3>3, FS_EmptySet
  <2> QED BY <1>1, <2>1, <2>3, <2>4, <2>5, <2>6 DEF Connection
<1>11. Counted'
  BY <1>1, <1>2, CountedApplied
<1> QED BY <1>7, <1>8, <1>9, <1>10, <1>11 DEF Tidy

-----------------------------------------------------------------------------
\* With every type given once, what the server counts and the numbers that are under
\* way or lost go together, from the generators to the store.
Sent == Typed /\ (IsInjective(config.types) => Tidy)

LEMMA SentInit == Init => Sent
<1> SUFFICES ASSUME Init PROVE Sent
  OBVIOUS
<1>1. /\ InMain = {} /\ InRun = {} /\ Left = {} /\ messages = <<>> /\ wire = <<>> /\ lost = {}
      /\ queue = <<>> /\ held = {} /\ Arriving = {}
      /\ DOMAIN sensors = {} /\ run.pc = "starting" /\ main.pc = "looping"
  BY DEF Init, InMain, InRun, Left, Arriving, At, ToSet
<1>2. ToSet(messages) = {} /\ ToSet(wire) = {} /\ ToSet(queue) = {} /\ Made = {}
  BY <1>1 DEF Made, Passed, ToSet
<1>3. Typed
  <2>1. Generators(config) # {} => 0 < Cardinality(Generators(config))
    <3>1. IsFiniteSet(Generators(config)) /\ Cardinality(Generators(config)) \in Nat
      BY GeneratorsFinite, FS_CardinalityType DEF Init
    <3> QED BY <3>1, FS_EmptySet
  <2>2. sequence \in [Generators(config) -> 0 .. MaxTicks] /\ config \in Configs /\ turn = 0 /\ linkUp = TRUE
    BY SimulatorAssumption DEF Init
  <2>3. IsFiniteSet(held) /\ Cardinality(held) <= config.workers
    BY <1>1, <2>2, SimulatorAssumption, FS_EmptySet
  <2> QED BY <1>1, <2>1, <2>2, <2>3, FS_EmptySet DEF Typed
<1>4. Upstream /\ UnderWay /\ Connection /\ Counted
  BY <1>1, <1>2 DEF Upstream, UnderWay, Connection, Counted, IsInjective, InOrder, Precede
<1>5. Numbered
  <2> SUFFICES ASSUME NEW g \in DOMAIN sequence, NEW s
               PROVE  Mark(sensors, s) <= sequence[g] /\ Covered(sensors, s, sequence[g] + 1, Made)
    BY <1>2 DEF Numbered
  <2>1. Mark(sensors, s) = 0 /\ sequence[g] = 0
    BY <1>1 DEF Mark, Init
  <2> QED BY <2>1 DEF Covered
<1> QED BY <1>3, <1>4, <1>5 DEF Sent, Tidy

LEMMA SentStep == Sent /\ [Next]_vars => Sent'
<1> SUFFICES ASSUME Sent, [Next]_vars PROVE Sent'
  OBVIOUS
<1>1. Typed /\ Typed'
  BY TypedStep DEF Sent
<1>2. config' = config
  BY DEF Next, Alive, RunStep, MainStep, Begin, Tick, Pass, Quit, CloseMessages, Receive, Send,
         SendFails, HandleSignal, Return, Interrupt, Break, LoseDatagram, Deliver, Take, Apply,
         World, Main, vars, source
<1>3. ASSUME IsInjective(config.types) PROVE Tidy'
  <2>1. Tidy
    BY <1>3 DEF Sent
  <2> QED BY <1>1, <1>3, <2>1, Steps, TidyQuiet, TidyTick, TidyPass, TidyReceive, LeavesMain,
             TidyLeaves, NetworkLoses, TidyLoses, TidyDeliver, TidyTake, TidyApply
<1> QED BY <1>1, <1>2, <1>3 DEF Sent

LEMMA SentAlways == Spec => []Sent
BY SentInit, SentStep, PTL DEF Spec

\* For every command line with distinct types, every network, every size of the pool
\* and every interleaving of the goroutines, the break, the signal and the workers:
\* what the counters that a server keeps say of the network (Run, main, Worker.Run,
\* store.Update).
THEOREM GapsAlwaysLosses == Spec => []GapsAreLosses
<1>1. Sent => GapsAreLosses
  <2> SUFFICES ASSUME Sent, IsInjective(config.types), NEW s \in DOMAIN sensors
               PROVE  LET e == sensors[s] IN
                      /\ e.duplicateCount = 0
                      /\ e.droppedCount <= e.outOfOrderCount + Of(s, lost) + Of(s, ToSet(wire))
                                                             + Of(s, ToSet(queue)) + Of(s, held)
                      /\ config.protocol = "tcp" =>
                             /\ e.droppedCount <= e.outOfOrderCount + Of(s, held)
                             /\ e.messageCount <= e.lastSequence
                             /\ e.lastSequence <= e.messageCount + Of(s, held)
                             /\ config.workers = 1 =>
                                    /\ e.droppedCount = 0 /\ e.outOfOrderCount = 0
                                    /\ e.lastSequence = e.messageCount
    BY DEF GapsAreLosses
  <2> DEFINE e == sensors[s]
             Part(S) == {m \in S : m.sensor = s}
             A == Part(lost)
             B == Part(ToSet(wire))
             C == Part(ToSet(queue))
             D == Part(held)
             M == Missed(sensors, s, Left)
             H == Missed(sensors, s, held)
  <2>1. Typed /\ Counted /\ Connection
    BY DEF Sent, Tidy
  <2>2. /\ e.duplicateCount = 0 /\ e.droppedCount <= e.outOfOrderCount + Cardinality(M)
        /\ config.protocol = "tcp" =>
               /\ e.lastSequence = e.messageCount + Cardinality(H)
               /\ config.workers = 1 => e.droppedCount = 0 /\ e.outOfOrderCount = 0
    BY <2>1 DEF Counted
  <2>3. /\ e.droppedCount \in Nat /\ e.outOfOrderCount \in Nat /\ e.messageCount \in Nat
        /\ e.lastSequence = Mark(sensors, s)
    BY <2>1 DEF Typed, Entry, Mark
  <2>4. IsFiniteSet(A) /\ IsFiniteSet(B) /\ IsFiniteSet(C) /\ IsFiniteSet(D)
    <3>1. IsFiniteSet(ToSet(wire)) /\ IsFiniteSet(ToSet(queue)) /\ IsFiniteSet(lost) /\ IsFiniteSet(held)
      BY <2>1, SeqElements DEF Typed
    <3> QED BY <3>1, FS_Subset
  <2>5. M \subseteq A \cup B \cup C \cup D /\ H \subseteq D
    BY DEF Missed, Left, Arriving
  <2>6. /\ Of(s, lost) = Cardinality(A) /\ Of(s, ToSet(wire)) = Cardinality(B)
        /\ Of(s, ToSet(queue)) = Cardinality(C) /\ Of(s, held) = Cardinality(D)
    BY DEF Of
  <2>7. \A m \in Left : m.sequence \in Nat
    BY <2>1, MadeTyped DEF Made, Passed, Msgs
  <2>8. config.protocol = "tcp" => M \subseteq D /\ (config.workers = 1 => H = {})
    <3> SUFFICES ASSUME config.protocol = "tcp", NEW m \in Left, m.sensor = s,
                        m.sequence < Mark(sensors, s)
                 PROVE  m \in held /\ (config.workers = 1 => FALSE)
      BY DEF Missed, Left, Arriving
    <3>1. ~ (Mark(sensors, m.sensor) < m.sequence)
      BY <2>1, <2>7, MarkType
    <3> QED BY <2>1, <3>1 DEF Connection, Left, Arriving
  <2> HIDE DEF A, B, C, D, M, H, e
  <2>9. /\ IsFiniteSet(A \cup B) /\ Cardinality(A \cup B) <= Cardinality(A) + Cardinality(B)
        /\ Cardinality(A) \in Nat /\ Cardinality(B) \in Nat /\ Cardinality(A \cup B) \in Nat
    BY <2>4, UnionAtMost
  <2>10. /\ IsFiniteSet(C \cup D) /\ Cardinality(C \cup D) <= Cardinality(C) + Cardinality(D)
         /\ Cardinality(C) \in Nat /\ Cardinality(D) \in Nat /\ Cardinality(C \cup D) \in Nat
    BY <2>4, UnionAtMost
  <2>11. /\ IsFiniteSet((A \cup B) \cup (C \cup D))
         /\ Cardinality((A \cup B) \cup (C \cup D)) <= Cardinality(A \cup B) + Cardinality(C \cup D)
         /\ Cardinality((A \cup B) \cup (C \cup D)) \in Nat
    BY <2>9, <2>10, UnionAtMost
  <2>12. M \subseteq (A \cup B) \cup (C \cup D)
    BY <2>5
  <2>13. /\ IsFiniteSet(M) /\ Cardinality(M) <= Cardinality((A \cup B) \cup (C \cup D))
         /\ Cardinality(M) \in Nat
    BY <2>11, <2>12, FS_Subset, FS_CardinalityType
  <2>14. Cardinality(H) <= Cardinality(D) /\ Cardinality(H) \in Nat
    BY <2>4, <2>5, FS_Subset, FS_CardinalityType
  <2>15. e.droppedCount <= e.outOfOrderCount + Of(s, lost) + Of(s, ToSet(wire))
                                             + Of(s, ToSet(queue)) + Of(s, held)
    BY <2>2, <2>3, <2>6, <2>9, <2>10, <2>11, <2>13
  <2>16. ASSUME config.protocol = "tcp"
         PROVE  /\ e.droppedCount <= e.outOfOrderCount + Of(s, held)
                /\ e.messageCount <= e.lastSequence
                /\ e.lastSequence <= e.messageCount + Of(s, held)
    <3>1. Cardinality(M) <= Cardinality(D)
      BY <2>4, <2>8, <2>16, FS_Subset
    <3> QED BY <2>2, <2>3, <2>6, <2>10, <2>13, <2>14, <2>16, <3>1
  <2>17. config.protocol = "tcp" /\ config.workers = 1 => e.lastSequence = e.messageCount
    <3> SUFFICES ASSUME config.protocol = "tcp", config.workers = 1
                 PROVE  e.lastSequence = e.messageCount
      OBVIOUS
    <3>1. H = {}
      BY <2>8
    <3>2. Cardinality(H) = 0
      BY <3>1, FS_EmptySet
    <3> QED BY <2>2, <2>3, <3>2
  <2> QED BY <2>2, <2>15, <2>16, <2>17 DEF e
<1> QED BY <1>1, SentAlways, PTL

-----------------------------------------------------------------------------
(* The turns.                                                               *)

\* The generators before k have spoken r + 1 times, the others r times.
Round(c, spoken, r, k) ==
    \A g \in Generators(c) : spoken[g] = IF Rank(c, g) < k THEN r + 1 ELSE r

\* The inductive invariant: the place in the round is the turn, or behind it while the
\* message of this turn is not passed on, and for ever when it is given up.
Rounds ==
    \E r \in Nat, k \in {turn, turn + 1} :
        /\ Round(config, sequence, r, k)
        /\ run.pc \in {"starting", "ticking"} => k = turn
        /\ run.pc = "sending" => k = turn + 1

LEMMA RoundsTick == ASSUME Typed, Rounds, Tick PROVE Rounds'
<1> DEFINE g == GeneratorAt(config, turn)
<1>1. g \in Generators(config) /\ Rank(config, g) = turn /\ turn \in Nat
  <2>1. Cardinality(Generators(config)) \in Nat
    BY GeneratorsFinite, FS_CardinalityType DEF Typed
  <2>2. turn \in 0 .. Cardinality(Generators(config)) - 1
    BY <2>1 DEF Typed, Tick
  <2> QED BY <2>2, TurnTaken DEF Typed
<1>2. /\ config' = config /\ turn' = turn /\ run.pc = "ticking" /\ run'.pc = "sending"
      /\ sequence' = [sequence EXCEPT ![g] = sequence[g] + 1]
  BY DEF Tick
<1> HIDE DEF g
<1>3. PICK r \in Nat : Round(config, sequence, r, turn)
  BY <1>2 DEF Rounds
<1>4. ASSUME NEW h \in Generators(config)
      PROVE  sequence'[h] = IF Rank(config, h) < turn + 1 THEN r + 1 ELSE r
  <2>1. Rank(config, h) \in Nat
    BY RankBound DEF Typed
  <2>2. CASE h = g
    BY <1>1, <1>2, <1>3, <2>2 DEF Round, Typed
  <2>3. CASE h # g
    <3>1. Rank(config, h) # turn
      BY <1>1, <2>3, RanksDiffer DEF Typed
    <3>2. sequence'[h] = sequence[h]
      BY <1>2, <2>3 DEF Typed
    <3> QED BY <1>1, <1>3, <2>1, <3>1, <3>2 DEF Round
  <2> QED BY <2>2, <2>3
<1>5. Round(config', sequence', r, turn' + 1)
  BY <1>2, <1>4 DEF Round
<1> QED BY <1>2, <1>5 DEF Rounds

LEMMA RoundsPass == ASSUME Typed, Rounds, Pass PROVE Rounds'
<1> DEFINE N == Cardinality(Generators(config))
<1>1. /\ UNCHANGED <<config, sequence>> /\ run.pc = "sending" /\ run'.pc = "ticking"
      /\ turn' = (turn + 1) % N
  BY DEF Pass, NextTurn, Running, At
<1>2. N \in Nat \ {0} /\ turn \in Nat /\ turn < N
  BY <1>1, GeneratorsFinite, FS_CardinalityType, FS_EmptySet DEF Typed
<1>3. PICK r \in Nat : Round(config, sequence, r, turn + 1)
  BY <1>1 DEF Rounds
<1>4. \A g \in Generators(config) : Rank(config, g) \in Nat /\ Rank(config, g) < N
  BY <1>2, RankBound DEF Typed
<1> HIDE DEF N
<1>5. CASE turn + 1 < N
  <2>1. turn' = turn + 1
    BY <1>1, <1>2, <1>5
  <2>2. Round(config', sequence', r, turn')
    BY <1>1, <1>3, <2>1
  <2> QED BY <1>1, <2>2 DEF Rounds
<1>6. CASE ~ (turn + 1 < N)
  <2>1. turn' = 0
    <3>1. turn + 1 = N
      BY <1>2, <1>6
    <3> QED BY <1>1, <1>2, <3>1
  <2>2. \A g \in Generators(config) : sequence[g] = r + 1 /\ ~ (Rank(config, g) < 0)
    BY <1>2, <1>3, <1>4, <1>6 DEF Round
  <2>3. Round(config', sequence', r + 1, turn')
    BY <1>1, <2>1, <2>2 DEF Round
  <2> QED BY <1>1, <2>3 DEF Rounds
<1> QED BY <1>5, <1>6

LEMMA RoundsStep == Typed /\ Rounds /\ [Next]_vars => Rounds'
<1> SUFFICES ASSUME Typed, Rounds, [Next]_vars PROVE Rounds'
  OBVIOUS
<1>1. ASSUME UNCHANGED <<config, sequence, turn>>,
             run'.pc = "sending" => run.pc = "sending",
             run'.pc \in {"starting", "ticking"} => run.pc \in {"starting", "ticking"}
      PROVE  Rounds'
  <2>1. PICK r \in Nat, k \in {turn, turn + 1} : /\ Round(config, sequence, r, k)
                                                 /\ run.pc \in {"starting", "ticking"} => k = turn
                                                 /\ run.pc = "sending" => k = turn + 1
    BY DEF Rounds
  <2>2. Round(config', sequence', r, k)
    BY <1>1, <2>1
  <2> QED BY <1>1, <2>1, <2>2 DEF Rounds
<1>2. CASE Quiet
  BY <1>1, <1>2 DEF Quiet
<1>3. CASE \/ Receive \/ Send \/ SendFails \/ Break \/ LoseDatagram \/ Deliver \/ Take \/ Apply
  <2>1. UNCHANGED <<config, sequence, turn, run>>
    BY <1>3 DEF Receive, Send, SendFails, Main, Break, LoseDatagram, Deliver, Take, Apply, World, source
  <2> QED BY <1>1, <2>1
<1> QED BY <1>2, <1>3, Steps, RoundsTick, RoundsPass

\* For every command line and whatever blocks Run: no sensor is ever more than one
\* message ahead of another (Simulator.Run).
THEOREM TurnsAlwaysShared == Spec => []TurnsShared
<1>1. Init => Rounds
  <2> SUFFICES ASSUME Init PROVE Rounds
    OBVIOUS
  <2>1. \A g \in Generators(config) : ~ (Rank(config, g) < 0)
    BY RankBound DEF Init
  <2>2. Round(config, sequence, 0, 0) /\ turn = 0 /\ run.pc = "starting"
    BY <2>1 DEF Init, Round, At
  <2> QED BY <2>2 DEF Rounds
<1>2. Typed /\ Rounds => TurnsShared
  <2> SUFFICES ASSUME Typed, Rounds, NEW g \in Generators(config), NEW h \in Generators(config),
                      Earlier(g, h)
               PROVE  sequence[h] <= sequence[g] /\ sequence[g] <= sequence[h] + 1
    BY DEF TurnsShared
  <2>1. PICK r \in Nat, k \in {turn, turn + 1} : Round(config, sequence, r, k)
    BY DEF Rounds
  <2>2. Rank(config, g) \in Nat /\ Rank(config, h) \in Nat /\ Rank(config, g) < Rank(config, h)
    BY RankBound, FewerAhead DEF Typed, Rank
  <2>3. k \in Nat
    BY DEF Typed
  <2> QED BY <2>1, <2>2, <2>3 DEF Round
<1>3. Sent => Typed
  BY DEF Sent
<1> QED BY <1>1, <1>2, <1>3, RoundsStep, SentAlways, PTL DEF Spec
===============================================================================
