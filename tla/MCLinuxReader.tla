--------------------------- MODULE MCLinuxReader ---------------------------
(***************************************************************************)
(* One Linux reader: its rates and its temperature.  The two meters share  *)
(* the lock and nothing else, and the temperature shares nothing with      *)
(* them, so behaviours in which only one of the three is in use are        *)
(* enough; the callers are interchangeable.                                *)
(***************************************************************************)
EXTENDS LinuxRates, LinuxTemperature, TLC

Unused(m) ==
    /\ grown[m] = Zero /\ falls[m] = Zero
    /\ m \notin based
    /\ \A c \in Callers : doing[c] # m

OneMeter == \A m, other \in Meters : m = other \/ Unused(m) \/ Unused(other)

RatesAtRest == now = 0 /\ \A m \in Meters : Unused(m)
SensorAtRest == cached = None /\ scan = "idle" /\ steady = {} /\ readable = {}

ReaderInit == Init /\ SensorInit

ReaderNext ==
    \/ Next /\ OneMeter' /\ SensorAtRest /\ UNCHANGED sensorVars
    \/ SensorNext /\ RatesAtRest /\ UNCHANGED vars

ReaderSpec == ReaderInit /\ [][ReaderNext]_<<vars, sensorVars>>

Symmetry == Permutations(Callers)
=============================================================================
