----------------------------- MODULE GpuReasons ----------------------------
(***************************************************************************)
(* The vocabulary of the GPU readers: devices by index, the fields of a    *)
(* GpuSample and of a GpuProfile, and the keys of unavailable_reasons.     *)
(***************************************************************************)
EXTENDS Integers, FiniteSets, Functions

CONSTANT Devices    \* the GPUs that may be in the machine

ASSUME DevicesAssumption == IsFiniteSet(Devices)

Operations == {"available", "sample", "static_info"}
Buses == UNION {Injection(0..(n - 1), Devices) : n \in 0..Cardinality(Devices)}
Places(b) == {<<i, b[i]>> : i \in DOMAIN b}

Text == {"name", "uuid", "driver_version"}
Fields(o) ==
    CASE o = "sample" ->
            {"uuid", "utilization_percent", "memory_utilization_percent",
             "vram_used_bytes", "vram_total_bytes", "temperature_c",
             "memory_temperature_c", "power_watts", "power_limit_watts",
             "fan_percent", "core_clock_mhz", "memory_clock_mhz", "throttle_reasons"}
      [] o = "static_info" ->
            {"name", "uuid", "vram_total_bytes", "driver_version", "cuda_version",
             "compute_capability"}
      [] OTHER -> {}

\* "gpu", "gpu.<index>", "<run>.<number of the row>"; the others are <<index, field>>
\* and <<System, field>>.
System == -1
Gpu == <<System, "gpu">>
Device(i) == <<i, "device">>
RowScopes == {"gpu.probe.row", "gpu.static.row", "gpu.sample.row"}
Names == {"gpu", "device", "gpu.throttle.row", "gpu.compute.row"} \cup RowScopes
            \cup UNION {Fields(o) : o \in Operations}
Keys == (Nat \cup {System}) \X Names

NoReasons == <<>>
NoRows == <<>>
Nobody == "nobody"
Nothing == [op |-> "none"]
=============================================================================
