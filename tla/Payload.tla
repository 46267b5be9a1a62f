-------------------------------- MODULE Payload --------------------------------
(***************************************************************************)
(* The fields of telemetry payloads: what internal/simulator generates and  *)
(* what internal/protocol accepts, in whole units.  The limits are written  *)
(* twice in the code, in two packages that do not use each other.           *)
(***************************************************************************)
EXTENDS Integers

Within(x, low, high) == low <= x /\ x <= high

OnEarth(p) == Within(p.latitude, -90, 90) /\ Within(p.longitude, -180, 180)

ValidateGPSData(p) == OnEarth(p) /\ p.altitude >= 0 /\ p.speed >= 0

ValidateDroneData(p) ==
    OnEarth(p) /\ p.altitude >= 0 /\ Within(p.battery, 0, 100) /\ Within(p.signal, 0, 100)

ValidateVehicleData(p) == OnEarth(p) /\ p.speed >= 0 /\ p.fuel >= 0 /\ p.mileage >= 0

ValidateTemperatureSensorData(p) == Within(p.humidity, 0, 100) /\ p.unit # ""

\* The worker's switch on the sensor type, for the types that have a generator:
\* whether a payload is no anomaly.
Accepted(type, p) ==
    CASE type = "gps"         -> ValidateGPSData(p)
      [] type = "drone"       -> ValidateDroneData(p)
      [] type = "vehicle"     -> ValidateVehicleData(p)
      [] type = "temperature" -> ValidateTemperatureSensorData(p)

GeneratorTypes == {"gps", "drone", "vehicle", "temperature"}

-----------------------------------------------------------------------------
(* The generators.  A step d gives each field the change drawn for it.      *)

AtLeast(low, x) == IF x < low THEN low ELSE x
Clamp(low, high, x) == IF x < low THEN low ELSE IF x > high THEN high ELSE x

\* math.Mod: the result has the sign of x.
Mod(x, n) == IF x >= 0 THEN x % n ELSE -((-x) % n)

FieldsOf(type) ==
    CASE type = "gps"         -> {"latitude", "longitude", "altitude", "speed", "heading"}
      [] type = "drone"       -> {"latitude", "longitude", "altitude", "battery", "signal"}
      [] type = "vehicle"     -> {"latitude", "longitude", "speed", "fuel"}
      [] type = "temperature" -> {"temperature", "humidity"}

NextGPS(p, d) ==
    [ latitude  |-> Clamp(-90, 90, p.latitude + d["latitude"]),
      longitude |-> Clamp(-180, 180, p.longitude + d["longitude"]),
      altitude  |-> AtLeast(0, p.altitude + d["altitude"]),
      speed     |-> Clamp(0, 150, p.speed + d["speed"]),
      heading   |-> Mod(p.heading + d["heading"], 360) ]

\* The battery only drains; the signal is drawn anew.
NextDrone(p, d) ==
    [ latitude  |-> Clamp(-90, 90, p.latitude + d["latitude"]),
      longitude |-> Clamp(-180, 180, p.longitude + d["longitude"]),
      altitude  |-> Clamp(0, 500, p.altitude + d["altitude"]),
      battery   |-> AtLeast(0, p.battery - AtLeast(0, d["battery"])),
      signal    |-> Clamp(50, 99, 50 + d["signal"]) ]

\* The mileage grows by a tenth of the new speed.
NextVehicle(p, d) ==
    LET speed == Clamp(0, 120, p.speed + d["speed"]) IN
    [ latitude  |-> Clamp(-90, 90, p.latitude + d["latitude"]),
      longitude |-> Clamp(-180, 180, p.longitude + d["longitude"]),
      speed     |-> speed,
      fuel      |-> AtLeast(0, p.fuel - AtLeast(0, d["fuel"])),
      mileage   |-> p.mileage + (speed \div 10) ]

\* A mutant: the change comes after the clamp.
HumidityUnclamped(p, d) ==
    [ temperature |-> Clamp(0, 50, p.temperature + d["temperature"]),
      humidity    |-> Clamp(0, 100, p.humidity) + d["humidity"],
      unit        |-> "celsius" ]

NextTemperature(p, d) ==
    [ temperature |-> Clamp(0, 50, p.temperature + d["temperature"]),
      humidity    |-> Clamp(0, 100, p.humidity + d["humidity"]),
      unit        |-> "celsius" ]

NextPayload(type, p, d) ==
    CASE type = "gps"         -> NextGPS(p, d)
      [] type = "drone"       -> NextDrone(p, d)
      [] type = "vehicle"     -> NextVehicle(p, d)
      [] type = "temperature" -> NextTemperature(p, d)

\* What the constructors draw, to the unit.
NewGPS ==
    [ latitude : 47 .. 48, longitude : -123 .. -122, altitude : 0 .. 499,
      speed : 0 .. 99, heading : 0 .. 359 ]
NewDrone ==
    [ latitude : 47 .. 48, longitude : -123 .. -122, altitude : 0 .. 299,
      battery : 80 .. 99, signal : 70 .. 99 ]
NewVehicle ==
    [ latitude : 47 .. 48, longitude : -123 .. -122, speed : 0 .. 79, fuel : 0 .. 99,
      mileage : 0 .. (100 * 1000) - 1 ]
NewTemperature ==
    [ temperature : 20 .. 29, humidity : 30 .. 69, unit : {"celsius"} ]

Drawn(type) ==
    CASE type = "gps"         -> NewGPS
      [] type = "drone"       -> NewDrone
      [] type = "vehicle"     -> NewVehicle
      [] type = "temperature" -> NewTemperature
===============================================================================
