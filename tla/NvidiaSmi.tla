------------------------------ MODULE NvidiaSmi ----------------------------
(***************************************************************************)
(* readers/nvidia.py.  An operation runs nvidia-smi up to three times, and *)
(* each run sees the devices as they are then; the rows of two runs are    *)
(* joined by the index they carry.                                         *)
(***************************************************************************)
EXTENDS GpuOperation

VARIABLES phase,   \* the run that comes next, or "rest"
          core,    \* rows of the first run by index
          second,  \* rows of the throttle or the compute run by index
          banner   \* whether the CUDA version was found

smiVars == <<phase, core, second, banner>>

SmiInit == phase = "rest" /\ core = NoRows /\ second = NoRows /\ banner = TRUE

(* The output of a run: a line for each device in the order of the indexes, *)
(* the same one twice perhaps.                                             *)

NoIndex == -1
Row(i, oddities) ==
    [index |-> IF <<i, "unindexed">> \in oddities THEN NoIndex ELSE i,
     device |-> bus[i],
     lost |-> {f \in UNION {Fields(o) : o \in Operations} : <<i, f>> \in oddities}]

\* _parse_nvidia_csv: the lines that could be parsed.
Parsed(oddities) ==
    {line \in (DOMAIN bus) \X {1, 2} :
        /\ <<line[1], "malformed">> \notin oddities
        /\ line[2] = 2 => <<line[1], "repeated">> \in oddities}

Before(line, other) == line[1] < other[1] \/ (line[1] = other[1] /\ line[2] < other[2])
Index(line, oddities) == Row(line[1], oddities).index

\* _rows_by_index: the first row of each index, and the numbers of the rows
\* left out, those without an index and those that come again.
Firsts(oddities) ==
    {line \in Parsed(oddities) :
        /\ Index(line, oddities) # NoIndex
        /\ \A other \in Parsed(oddities) :
              Before(other, line) => Index(other, oddities) # Index(line, oddities)}
ByIndex(oddities) == [i \in {line[1] : line \in Firsts(oddities)} |-> Row(i, oddities)]
RowKeys(lines, oddities, scope) ==
    {<<Cardinality({other \in Parsed(oddities) : Before(other, line)}), scope>> : line \in lines}
LeftOut(reasons, oddities, scope) ==
    LET unindexed == {line \in Parsed(oddities) : Index(line, oddities) = NoIndex}
        again == (Parsed(oddities) \ Firsts(oddities)) \ unindexed
    IN Put(Put(reasons, RowKeys(unindexed, oddities, scope), "malformed_value"),
           RowKeys(again, oddities, scope), "duplicate_gpu_index")

\* What may be odd about the lines of a run that asks for these fields; at
\* most two oddities in one output.
Odd(fields) == (DOMAIN bus) \X (fields \cup {"malformed", "unindexed", "repeated"})
OddSets(fields) == {{}} \cup {{a, b} : a, b \in Odd(fields)}

\* _query and _rows_by_index: `result` are the rows by index.
Query(fields, key, scope, result) ==
    \/ /\ Fault(1)
       /\ why' = Assign({key}, "call_failed")
       /\ failed' = failed \cup {key}
       /\ result = NoRows
    \/ \E oddities \in OddSets(fields) :
       LET dropped == \E i \in DOMAIN bus : <<i, "malformed">> \in oddities
       IN /\ Fault(Cardinality(oddities))
          /\ why' = LeftOut(IF dropped THEN Default({key}, "malformed_csv") ELSE why,
                            oddities, scope)
          /\ result = ByIndex(oddities)
          /\ UNCHANGED failed

(* An operation. *)

SmiBegin ==
    /\ phase = "rest"
    /\ Begin
    /\ phase' = "core"
    /\ core' = NoRows /\ second' = NoRows /\ banner' = TRUE

\* The run every operation starts with; a sample reads its fields from it, a
\* profile all but two of them.
CoreFields == Fields(op) \ {"throttle_reasons", "compute_capability", "cuda_version"}
CoreScope ==
    CASE op = "available" -> "gpu.probe.row"
      [] op = "static_info" -> "gpu.static.row"
      [] OTHER -> "gpu.sample.row"

RunCore ==
    /\ phase = "core"
    /\ Query(CoreFields, Gpu, CoreScope, core')
    /\ phase' = IF op = "available" \/ core' = NoRows THEN "verdict" ELSE "second"
    /\ UNCHANGED <<operationVars, second, banner>>

\* (available asks for rows, where the others ask for reasons; a row that is
\* left out is a reason.)  The end of available, and of an operation that found no device.
End(reasons) ==
    /\ phase = "verdict"
    /\ why' = reasons
    /\ UNCHANGED <<machineVars, failed>>
    /\ Return(NoRows, core # NoRows)
    /\ phase' = "rest"
    /\ UNCHANGED <<core, second, banner>>

\* (Variant: what was already told is not looked at.)
VerdictBlunt ==
    End(IF core # NoRows THEN why ELSE Default({Gpu}, "no_nvidia_gpus"))

Verdict ==
    End(IF core # NoRows THEN why
        ELSE Default({Gpu}, IF why = NoReasons THEN "no_nvidia_gpus" ELSE "malformed_csv"))

\* The field that comes from the second run.
Beside == IF op = "sample" THEN "throttle_reasons" ELSE "compute_capability"

RunSecond ==
    /\ phase = "second"
    /\ Query({Beside}, <<System, Beside>>,
             IF op = "sample" THEN "gpu.throttle.row" ELSE "gpu.compute.row", second')
    /\ phase' = IF op = "sample" THEN "rows" ELSE "banner"
    /\ UNCHANGED <<operationVars, core, banner>>

\* _read_cuda_version: the run may fail, and its text may have no version.
RunBanner ==
    /\ phase = "banner"
    /\ phase' = "rows"
    /\ \/ Fault(0) /\ banner' = TRUE /\ UNCHANGED reasonVars
       \/ /\ Fault(1) /\ banner' = FALSE
          /\ \/ /\ why' = Assign({<<System, "cuda_version">>}, "call_failed")
                /\ failed' = failed \cup {<<System, "cuda_version">>}
             \/ /\ why' = Assign({<<System, "cuda_version">>}, "field_missing")
                /\ UNCHANGED failed
    /\ UNCHANGED <<operationVars, core, second>>

\* The rows, each with the second run's row at the index `partner` gives it.
Build(partner) ==
    LET Joined(i) == partner[i] \in DOMAIN second /\ Beside \notin second[partner[i]].lost
        rows == [i \in DOMAIN core |->
                   [device |-> core[i].device,
                    beside |-> IF Joined(i) THEN second[partner[i]].device ELSE Nobody,
                    lost |-> core[i].lost \cup (IF Joined(i) THEN {} ELSE {Beside})
                                          \cup (IF banner THEN {} ELSE {"cuda_version"})]]
        gaps == UNION {{<<i, f>> : f \in rows[i].lost \ {"cuda_version"}} : i \in DOMAIN rows}
    IN /\ phase = "rows"
       /\ why' = Assign(gaps, "sensor_unsupported")
       /\ UNCHANGED <<machineVars, failed>>
       /\ Return(rows, TRUE)
       /\ phase' = "rest"
       /\ UNCHANGED <<core, second, banner>>

\* (Variant: the rows of the two runs are paired in the order they came.)
JoinByRank ==
    LET Rank(i, run) == Cardinality({j \in DOMAIN run : j < i})
        SameRank(i) == {j \in DOMAIN second : Rank(j, second) = Rank(i, core)}
    IN Build([i \in DOMAIN core |->
                IF SameRank(i) = {} THEN NoIndex ELSE CHOOSE j \in SameRank(i) : TRUE])

Join == Build([i \in DOMAIN core |-> i])

SmiEscape ==
    /\ phase # "rest"
    /\ Escape
    /\ phase' = "rest"
    /\ UNCHANGED <<core, second, banner>>

SmiNext ==
    \/ SmiBegin \/ RunCore \/ Verdict \/ RunSecond \/ RunBanner \/ Join \/ SmiEscape
=============================================================================
