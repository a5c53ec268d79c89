------------------------------- MODULE Sensors -------------------------------
(***************************************************************************)
(* The simulator's sensors: what each reports of its main quantity (degC   *)
(* in half degrees, hPa, mm/s in tenths), normally and with an anomaly     *)
(* injected, and what an anomaly leaves behind in the device.              *)
(*                                                                         *)
(* Noise and the daily cycle are abstracted to a choice among a few values *)
(* of the normal range; an anomaly is of the least magnitude it can have.  *)
(***************************************************************************)
EXTENDS Integers, Sequences

CONSTANTS
    Devices,
    DeviceTypes,   \* those the devices may be of
    MaxReadings    \* readings of all devices (bound)

Types == {"temperature_sensor", "pressure_sensor", "vibration_sensor"}

ASSUME SensorAssumption == DeviceTypes \subseteq Types /\ MaxReadings \in Nat

VARIABLES
    type,      \* each device's device_type; fixed
    last,      \* TemperatureSensor._last_temperature
    drifted,   \* TemperatureSensor._drift_steps
    current,   \* PressureSensor._current_pressure
    outbox,    \* each device's readings that nobody has processed yet
    made       \* readings made so far

sensorVars == <<type, last, drifted, current, outbox, made>>

NoneYet == -1    \* _last_temperature is None

\* Values within the normal range, and the range itself.
NormalTemperatures == {36, 56}
NormalPressures == {1013, 1018}
NormalVibrations == {11, 14}

NormalLow(t) ==
    CASE t = "temperature_sensor" -> 36
      [] t = "pressure_sensor"    -> 1008
      [] t = "vibration_sensor"   -> 11

NormalHigh(t) ==
    CASE t = "temperature_sensor" -> 56
      [] t = "pressure_sensor"    -> 1018
      [] t = "vibration_sensor"   -> 14

Spikes          == {160}   \* 80 degC, the least of them
DriftIncrease   == 40      \* 20 degC
DriftRate       == 1       \* 0.5 degC a step
FirstBase       == 46      \* 23 degC, before any reading
PressureDrop    == -200
Overpressure    == 500
BearingFailures == {100}   \* 10 mm/s, the least of them
BurstFactors    == {-5}    \* the one nearest to a normal reading

Smaller(i, j) == IF i <= j THEN i ELSE j
Magnitude(i)  == IF i < 0 THEN -i ELSE i

-----------------------------------------------------------------------------
\* What the generators return for the values they are given.
DriftAnomaly(base, rate, steps) == base + rate * steps
PointAnomaly(base, factor)      == base + base * factor
StuckSensor(value)              == value

Base(d) == IF last[d] = NoneYet THEN FirstBase ELSE last[d]

\* A step of the Brownian motion, clamped to the band around the baseline.
BrownianStep(p) == {q \in NormalPressures : Magnitude(q - p) <= 5}

SensorInit ==
    /\ type \in [Devices -> DeviceTypes]
    /\ last = [d \in Devices |-> NoneYet]
    /\ drifted = [d \in Devices |-> 0]
    /\ current \in [Devices -> NormalPressures]
    /\ \A d \in Devices : type[d] = "pressure_sensor" \/ current[d] = 1013
    /\ outbox = [d \in Devices |-> <<>>]
    /\ made = 0

Report(d, v) ==
    /\ made < MaxReadings
    /\ made' = made + 1
    /\ Len(outbox[d]) < 2
    /\ outbox' = [outbox EXCEPT ![d] = Append(@, v)]
    /\ UNCHANGED type

-----------------------------------------------------------------------------
(***************************************************************************)
(* generate_reading() of the three classes.                                *)
(***************************************************************************)
NormalTemperature(d) ==
    /\ type[d] = "temperature_sensor"
    /\ \E v \in NormalTemperatures :
          /\ last' = [last EXCEPT ![d] = v]
          /\ Report(d, v)
    /\ drifted' = [drifted EXCEPT ![d] = 0]
    /\ UNCHANGED current

NormalPressure(d) ==
    /\ type[d] = "pressure_sensor"
    /\ \E p \in BrownianStep(current[d]) :
          /\ current' = [current EXCEPT ![d] = p]
          /\ Report(d, p)
    /\ UNCHANGED <<last, drifted>>

NormalVibration(d) ==
    /\ type[d] = "vibration_sensor"
    /\ \E v \in NormalVibrations : Report(d, v)
    /\ UNCHANGED <<last, drifted, current>>

(***************************************************************************)
(* generate_anomaly(), one action per anomaly type it may draw.            *)
(***************************************************************************)
Spike(d) ==
    /\ type[d] = "temperature_sensor"
    /\ \E v \in Spikes :
          /\ last' = [last EXCEPT ![d] = v]
          /\ Report(d, v)
    /\ UNCHANGED <<drifted, current>>

\* The base is the previous reading, itself drifted if the drift goes on.
Drift(d) ==
    /\ type[d] = "temperature_sensor"
    /\ LET steps == drifted[d] + 1
           v == Smaller(DriftAnomaly(Base(d), DriftRate, steps),
                        Base(d) + DriftIncrease)
       IN  /\ drifted' = [drifted EXCEPT ![d] = steps]
           /\ last' = [last EXCEPT ![d] = v]
           /\ Report(d, v)
    /\ UNCHANGED current

Stuck(d) ==
    /\ type[d] = "temperature_sensor"
    /\ last' = [last EXCEPT ![d] = StuckSensor(Base(d))]
    /\ Report(d, StuckSensor(Base(d)))
    /\ UNCHANGED <<drifted, current>>

\* The drift goes on underneath; the jump is added to this reading only.
PressureJump(d) ==
    /\ type[d] = "pressure_sensor"
    /\ \E p \in BrownianStep(current[d]), jump \in {PressureDrop, Overpressure} :
          /\ current' = [current EXCEPT ![d] = p]
          /\ Report(d, p + jump)
    /\ UNCHANGED <<last, drifted>>

BearingFailure(d) ==
    /\ type[d] = "vibration_sensor"
    /\ \E v \in BearingFailures : Report(d, v)
    /\ UNCHANGED <<last, drifted, current>>

ErraticBurst(d) ==
    /\ type[d] = "vibration_sensor"
    /\ \E r \in NormalVibrations, f \in BurstFactors :
          Report(d, Magnitude(PointAnomaly(r, f)))
    /\ UNCHANGED <<last, drifted, current>>

\* get_telemetry(): one reading, normal or not.
Sample(d) ==
    \/ NormalTemperature(d) \/ NormalPressure(d) \/ NormalVibration(d)
    \/ Spike(d) \/ Drift(d) \/ Stuck(d)
    \/ PressureJump(d) \/ BearingFailure(d) \/ ErraticBurst(d)

=============================================================================
