----------------------------- MODULE GpuReaders ----------------------------
(***************************************************************************)
(* platform.py: the GPU reader create_gpu_reader gives, or a NullGpuReader *)
(* in its place, in a machine whose devices move.                          *)
(***************************************************************************)
EXTENDS NvmlReader, NvidiaSmi

VARIABLE backend    \* the reader in use

vars == <<backend, machineVars, operationVars, reasonVars, nvmlVars, smiVars>>

\* create_gpu_reader, by what is preferred and whether pynvml can be found.
\* Without the extra an explicit wish for it is an error.
Chosen(prefer, importable) ==
    CASE prefer = "pynvml" -> IF importable THEN "pynvml" ELSE "DependencyUnavailableError"
      [] prefer = "nvidia-smi" -> "nvidia-smi"
      [] OTHER -> IF importable THEN "pynvml" ELSE "nvidia-smi"

\* A caller who gets an error may install the null reader; so may any other.
ReadersInit ==
    /\ Init /\ NvmlInit /\ SmiInit
    /\ \E prefer \in {"none", "pynvml", "nvidia-smi"}, importable, willing \in BOOLEAN :
        backend = IF willing /\ Chosen(prefer, importable) # "DependencyUnavailableError"
                  THEN Chosen(prefer, importable) ELSE "null"

(* NullGpuReader: no device, and the reason it was made with. *)

NullBegin == op = "none" /\ Begin

NullAnswer ==
    /\ op # "none"
    /\ why' = Put(NoReasons, {Gpu}, "platform_unsupported")
    /\ UNCHANGED <<machineVars, failed>>
    /\ Return(NoRows, FALSE)

Next ==
    /\ UNCHANGED backend
    /\ \/ backend = "pynvml" /\ NvmlNext /\ UNCHANGED smiVars
       \/ backend = "nvidia-smi" /\ SmiNext /\ UNCHANGED nvmlVars
       \/ backend = "null" /\ (NullBegin \/ NullAnswer) /\ UNCHANGED <<nvmlVars, smiVars>>
       \/ Move /\ UNCHANGED <<nvmlVars, smiVars>>

Spec == ReadersInit /\ [][Next]_vars

\* The devices are interchangeable.
Symmetry == Permutations(Devices)

(* Properties. *)

\* Types of the variables; an index asked for is one that was counted.
GpuTypeOK ==
    /\ bus \in Buses
    /\ op \in Operations \cup {"none"}
    /\ subject < count \/ subject = System
    /\ \A k \in DOMAIN why : k \in Keys
    /\ lost \subseteq UNION {Fields(o) : o \in Operations}
    /\ \A i \in DOMAIN core : core[i].device \in Devices /\ i # NoIndex

\* A call is answered as if it were the first: when nothing failed during it,
\* every device is reported with every value the driver has, and no reason of
\* an earlier call is told.
FailuresDoNotLinger ==
    answer # Nothing /\ answer.calm /\ backend # "null" =>
        /\ answer.found <=> answer.steady # {}
        /\ answer.op # "available" => DOMAIN answer.rows = {place[1] : place \in answer.steady}
        /\ \A k \in DOMAIN answer.why :
              IF answer.found THEN k[2] = "memory_temperature_c" ELSE k = Gpu
        /\ \A i \in DOMAIN answer.rows : answer.rows[i].lost \subseteq {"memory_temperature_c"}

\* Whichever reader is in use, it keeps the promise of a GPU reader.
Promise == INSTANCE GpuBackend
ImplementsBackend == Promise!BackendSpec
=============================================================================
