------------------------------- MODULE Window ------------------------------
(***************************************************************************)
(* window.py: what TelemetryWindow says of one device, computed from the   *)
(* snapshots given to it so far.  Snapshots arrive in any order and with   *)
(* equal stamps; the device may be missing from one, or be in it without   *)
(* some of its measurements.                                               *)
(***************************************************************************)
EXTENDS Integers, Sequences, FiniteSets, FiniteSetsExt

CONSTANTS Rows,           \* readings of the device
          Times,          \* time stamps, in seconds
          MaxSnapshots    \* bound: snapshots given

Unsupported == -1
Supported(value) == value # Unsupported
Absent == [present |-> FALSE]

\* GpuSample: the fields the window reads.
Reading(clock, temperature, power, limit, utilization, reported, active) ==
    [present |-> TRUE, clock |-> clock, temperature |-> temperature, power |-> power,
     limit |-> limit, utilization |-> utilization, reported |-> reported, active |-> active]

ASSUME WindowAssumption ==
    /\ Times \subseteq Nat /\ MaxSnapshots \in Nat
    /\ \A r \in Rows :
          /\ {r.clock, r.temperature, r.power, r.limit, r.utilization}
                \subseteq Nat \cup {Unsupported}
          /\ r.reported \in BOOLEAN /\ (r.active # {} => r.reported)

Snapshots == [time : Times, gpu : Rows \cup {Absent}]

VARIABLE series    \* the snapshots in the order they were given

Init == series = <<>>

Given(snapshot) == series' = Append(series, snapshot)

Next == Len(series) < MaxSnapshots /\ \E snapshot \in Snapshots : Given(snapshot)

Spec == Init /\ [][Next]_series

----------------------------------------------------------------------------
(* TelemetryWindow(s): the snapshots in the order of their times, those of *)
(* one time in the order they were given.                                  *)

\* (Variant: the series is used as it was given.)
AsGiven(s, p, q) == p < q

Earlier(s, p, q) == s[p].time < s[q].time \/ (s[p].time = s[q].time /\ p < q)
Later(s, p) == {q \in DOMAIN s : Earlier(s, p, q)}

\* Positions whose snapshot has the device, and the values measured of it.
GpuSamples(s) == {p \in DOMAIN s : s[p].gpu.present}
Measurements(s, field) ==
    [p \in {p \in GpuSamples(s) : Supported(s[p].gpu[field])} |-> s[p].gpu[field]]

Highest(values) == IF values = {} THEN Unsupported ELSE Max(values)

MaxTemperature(s) == Highest(Range(Measurements(s, "temperature")))

\* The mean, as the sum and the number it is divided by.
MeanPower(s) ==
    LET values == Measurements(s, "power") IN <<SumFunction(values), Cardinality(DOMAIN values)>>

\* The power of a snapshot for the seconds to the following one, which is the
\* earliest of the later ones.
Elapsed(s, p) ==
    IF Later(s, p) = {} THEN 0 ELSE Min({s[q].time : q \in Later(s, p)}) - s[p].time
Terms(s, elapsed) ==
    LET watts == Measurements(s, "power")
    IN [p \in {p \in DOMAIN watts : elapsed[p] > 0} |-> watts[p] * elapsed[p]]

\* (Variant: until the following snapshot that has a power.)
BridgedTerms(s) ==
    LET measured == DOMAIN Measurements(s, "power")
        After(p) == {s[q].time : q \in Later(s, p) \cap measured}
    IN Terms(s, [p \in measured |-> IF After(p) = {} THEN 0 ELSE Min(After(p)) - s[p].time])

EnergyTerms(s) == Terms(s, [p \in DOMAIN s |-> Elapsed(s, p)])

Energy(s) == IF DOMAIN EnergyTerms(s) = {} THEN Unsupported ELSE SumFunction(EnergyTerms(s))

\* The first of the samples with a clock below one measured earlier: it is at
\* least 15% below the maximum so far when it is so below one of the earlier.
Dropped(clock, earlier) == 100 * clock <= 85 * earlier
Clocked(s) == DOMAIN Measurements(s, "clock")
Drops(s) ==
    {p \in Clocked(s) : \E q \in Clocked(s) :
        Earlier(s, q, p) /\ Dropped(s[p].gpu.clock, s[q].gpu.clock)}
First(s, drops) == CHOOSE p \in drops : \A q \in drops \ {p} : Earlier(s, p, q)

SubstantialClockDrop(s) == IF Drops(s) = {} THEN Absent ELSE s[First(s, Drops(s))].gpu

\* The order is the one in which the window has the device's samples.
Sorted(s, order) ==
    /\ order \in Seq(DOMAIN s)
    /\ \A k \in DOMAIN order : order[k] \in GpuSamples(s)
    /\ \A p \in GpuSamples(s) : \E k \in DOMAIN order : order[k] = p
    /\ \A j, k \in DOMAIN order : j < k => Earlier(s, order[j], order[k])

\* The loop that looks for it, over the samples at the positions given: the
\* maximum so far, and the sample found, Absent until there is one.
Watch(state, sample) ==
    IF state.found.present \/ ~Supported(sample.clock) THEN state
    ELSE IF Supported(state.maximum) /\ Dropped(sample.clock, state.maximum)
    THEN [state EXCEPT !.found = sample]
    ELSE [state EXCEPT !.maximum = IF sample.clock > @ THEN sample.clock ELSE @]
Loop(s, order) ==
    LET after[k \in 0..Len(order)] ==
          IF k = 0 THEN [maximum |-> Unsupported, found |-> Absent]
          ELSE Watch(after[k - 1], s[order[k]].gpu)
    IN after[Len(order)].found

Hot(r) == Supported(r.temperature) /\ r.temperature >= 80
NearLimit(r) ==
    /\ Supported(r.power) /\ Supported(r.limit) /\ r.limit > 0
    /\ 100 * r.power >= 95 * r.limit
Idle(r) == Supported(r.utilization) /\ r.utilization <= 50

Verdict(state, reason, count) == [state |-> state, reason |-> reason, count |-> count]

\* What that many clocks say, when the driver reported no active reason.
Judged(s, reported, count) ==
    LET drop == SubstantialClockDrop(s)
    IN IF count < 2 THEN Verdict("unknown", "insufficient_clock_data", count)
       ELSE IF ~drop.present
       THEN IF reported # {} /\ reported = GpuSamples(s)
            THEN Verdict("not_suspected", "driver_reported_no_throttling", Cardinality(reported))
            ELSE Verdict("not_suspected", "no_substantial_clock_drop", count)
       ELSE IF Hot(drop) THEN Verdict("suspected", "clock_drop_with_high_temperature", count)
       ELSE IF NearLimit(drop) THEN Verdict("suspected", "clock_drop_near_power_limit", count)
       ELSE IF Idle(drop) THEN Verdict("not_suspected", "clock_drop_with_low_utilization", count)
       ELSE Verdict("unknown", "clock_drop_without_correlating_evidence", count)

\* (Variant: samples without a clock count.)
SampleVerdict(s, reported) == Judged(s, reported, Cardinality(GpuSamples(s)))

ClockVerdict(s, reported) == Judged(s, reported, Cardinality(Clocked(s)))

Reported(s) == {p \in GpuSamples(s) : s[p].gpu.reported}
Active(s, reported) == UNION {s[p].gpu.active : p \in reported} \ {"gpu_idle"}

\* (Variant: only the last report of the driver counts.)
LatestThrottling(s) ==
    LET active == Active(s, {p \in Reported(s) : Later(s, p) \cap Reported(s) = {}})
    IN IF active # {} THEN Verdict("suspected", active, Cardinality(Reported(s)))
       ELSE ClockVerdict(s, Reported(s))

SuspectedThrottling(s) ==
    LET active == Active(s, Reported(s))
    IN IF active # {} THEN Verdict("suspected", active, Cardinality(Reported(s)))
       ELSE ClockVerdict(s, Reported(s))

\* What a window of these snapshots says.
Says(s) ==
    [temperature |-> MaxTemperature(s), power |-> MeanPower(s), energy |-> Energy(s),
     energyCount |-> Cardinality(DOMAIN EnergyTerms(s)),
     throttling |-> SuspectedThrottling(s)]

----------------------------------------------------------------------------
(* Properties.                                                             *)

\* The snapshot in force at an instant is the last given among those of the
\* latest time up to then; the power is its power, if it has one.
InForce(s, t) ==
    LET past == {p \in DOMAIN s : s[p].time <= t}
    IN Max({p \in past : \A q \in past : s[q].time <= s[p].time})
Powered(s, t) == s[InForce(s, t)].gpu.present /\ Supported(s[InForce(s, t)].gpu.power)
PowerAt(s, t) == IF Powered(s, t) THEN s[InForce(s, t)].gpu.power ELSE 0

\* The seconds from the first stamp to the last.
Seconds(s) == LET stamps == {s[p].time : p \in DOMAIN s} IN Min(stamps)..(Max(stamps) - 1)

\* The energy is the integral of the power in force, second by second from the
\* first snapshot to the last, however the snapshots were ordered.
EnergyIsTheIntegral ==
    series # <<>> =>
        IF \E t \in Seconds(series) : Powered(series, t)
        THEN Energy(series) = SumFunction([t \in Seconds(series) |-> PowerAt(series, t)])
        ELSE Energy(series) = Unsupported

\* When no two stamps are equal, nothing depends on the order of arrival.
OrderIsIrrelevant ==
    IsInjective([p \in DOMAIN series |-> series[p].time]) =>
        \A order \in Bijection(DOMAIN series, DOMAIN series) :
            Says([p \in DOMAIN series |-> series[order[p]]]) = Says(series)

\* A device that is missing from a snapshot, or silent in it, decides nothing:
\* the aggregates and the verdict stay what they were.
Silent(gpu) ==
    \/ ~gpu.present
    \/ /\ \A value \in {gpu.clock, gpu.temperature, gpu.power} : ~Supported(value)
       /\ gpu.active = {}
SilenceDecidesNothing ==
    [][Silent(series'[Len(series')].gpu) =>
         /\ Says(series').temperature = Says(series).temperature
         /\ Says(series').power = Says(series).power
         /\ Says(series').throttling.state = Says(series).throttling.state]_series

\* A suspicion is not withdrawn by what is measured later.
SuspicionSticks ==
    [][/\ SuspectedThrottling(series).state = "suspected"
       /\ \A p \in DOMAIN series : series[p].time <= series'[Len(series')].time
       => SuspectedThrottling(series').state = "suspected"]_series
=============================================================================
