----------------------------- MODULE NvmlReader ----------------------------
(***************************************************************************)
(* readers/nvml.py.  An operation initialises the library when the flag is *)
(* down, asks for the count and then, device by device, for a handle and   *)
(* for one value after the other; any question may fail on its own, the    *)
(* devices may move between two questions, and close() may be called from  *)
(* another thread between any two.                                         *)
(***************************************************************************)
EXTENDS GpuOperation

CONSTANT MaxCloses    \* bound: calls of close()

ASSUME ClosesAssumption == MaxCloses \in Nat

VARIABLES refs,         \* the library's count of nvmlInit less nvmlShutdown
          initialized,  \* _initialized
          closing,      \* a close() is between lowering the flag and nvmlShutdown
          kept,         \* references the code gave up on
          stage,        \* where the operation is
          count,        \* devices to visit
          subject,      \* index the questions are about, or System
          handle,       \* the device the handle of `subject` leads to
          todo,         \* questions still to ask, each by the fields it answers
          lost,         \* fields of `subject` without a value
          rows, closes

libraryVars == <<refs, initialized, closing, kept, closes>>
visitVars == <<subject, handle, todo, lost>>
nvmlVars == <<libraryVars, stage, count, visitVars, rows>>

NvmlInit ==
    /\ refs = 0 /\ initialized = FALSE /\ closing = FALSE /\ kept = 0 /\ closes = 0
    /\ stage = "rest" /\ count = 0
    /\ subject = System /\ handle = Nobody /\ todo = <<>> /\ lost = {}
    /\ rows = NoRows

\* The questions in the order they are asked; a failure is told of the first
\* field.  Throttle reasons take two.
Questions(o, s) ==
    CASE s = System -> <<<<"driver_version">>, <<"cuda_version">>>>
      [] s # System /\ o = "static_info" ->
            <<<<"name">>, <<"uuid">>, <<"vram_used_bytes", "vram_total_bytes">>,
              <<"compute_capability">>>>
      [] s # System /\ o # "static_info" ->
            <<<<"vram_used_bytes", "vram_total_bytes">>,
              <<"utilization_percent", "memory_utilization_percent">>,
              <<"throttle_reasons">>, <<"throttle_reasons">>, <<"uuid">>,
              <<"temperature_c">>, <<"power_watts">>, <<"power_limit_watts">>,
              <<"fan_percent">>, <<"core_clock_mhz">>, <<"memory_clock_mhz">>>>

(* Failures. *)

\* A call the library answers: it is initialised, and for a handle the device
\* is still there.
Reachable == refs > 0 /\ (subject = System \/ handle \in Range(bus))

\* A call that raises an Exception, as it must when `possible` does not hold.
Raises(key, possible) ==
    /\ Fault(IF possible THEN 1 ELSE 0)
    /\ why' = Assign({key}, "call_failed")
    /\ failed' = failed \cup {key}

Works == UNCHANGED <<machineVars, reasonVars>>

(* An operation. *)

NvmlBegin ==
    /\ stage = "rest"
    /\ Begin
    /\ stage' = "ready"
    /\ rows' = NoRows
    /\ UNCHANGED <<libraryVars, count, visitVars>>

\* What follows _ready.
Started == IF op = "static_info" THEN "questions" ELSE "count"
Start(first) ==
    /\ stage' = first
    /\ subject' = System /\ handle' = Nobody /\ lost' = {}
    /\ todo' = IF first = "questions" THEN Questions(op, System) ELSE <<>>

AlreadyReady ==
    /\ stage = "ready"
    /\ initialized
    /\ Start(Started)
    /\ Works
    /\ UNCHANGED <<libraryVars, operationVars, count, rows>>

\* No binding, or nvmlInit fails: the operation is over.
InitFails ==
    /\ stage = "ready"
    /\ ~initialized
    /\ Raises(Gpu, TRUE)
    /\ Return(NoRows, FALSE)
    /\ stage' = "rest"
    /\ UNCHANGED <<libraryVars, count, visitVars, rows>>

InitSucceeds ==
    /\ stage = "ready"
    /\ ~initialized
    /\ refs' = refs + 1
    /\ stage' = "flag"
    /\ Works
    /\ UNCHANGED <<operationVars, initialized, closing, kept, closes, count, visitVars, rows>>

RaiseFlag ==
    /\ stage = "flag"
    /\ initialized' = TRUE
    /\ Start(Started)
    /\ Works
    /\ UNCHANGED <<operationVars, refs, closing, kept, closes, count, rows>>

\* nvmlDeviceGetCount answers, raises, or answers no natural number.
Counting ==
    /\ stage = "count"
    /\ stage' = "next"
    /\ subject' = -1
    /\ \/ refs > 0 /\ Works /\ count' = Cardinality(DOMAIN bus)
       \/ Raises(Gpu, refs > 0) /\ count' = 0
       \/ /\ refs > 0 /\ Fault(1)
          /\ why' = Default({Gpu}, "malformed_value") /\ count' = 0
          /\ UNCHANGED failed
    /\ UNCHANGED <<operationVars, libraryVars, handle, todo, lost, rows>>

\* The handle of the next index below `limit`; without one the device is
\* passed over.
Visit(limit) ==
    /\ stage = "next" /\ op # "available"
    /\ subject + 1 < limit
    /\ subject' = subject + 1
    /\ LET possible == refs > 0 /\ subject' \in DOMAIN bus IN
       \/ /\ possible /\ Works
          /\ handle' = bus[subject']
          /\ todo' = Questions(op, subject')
          /\ lost' = IF op = "sample" THEN {"memory_temperature_c"}
                     ELSE lost \cap {"driver_version", "cuda_version"}
          /\ stage' = "questions"
       \/ /\ Raises(Device(subject'), possible)
          /\ UNCHANGED <<stage, handle, todo, lost>>
    /\ UNCHANGED <<operationVars, libraryVars, count, rows>>

\* (Variant: one index too many.)
AddressSlip == Visit(count + 1)

Address == Visit(count)

\* One question: a value, an exception, or an answer some fields of which are
\* no measurement.
Ask ==
    /\ stage = "questions" /\ todo # <<>>
    /\ todo' = Tail(todo)
    /\ LET fields == Range(Head(todo))
           key == <<subject, Head(todo)[1]>>
       IN \/ Reachable /\ Works /\ UNCHANGED lost
          \/ Raises(key, Reachable) /\ lost' = lost \cup fields
          \/ /\ Reachable /\ Fault(1)
             /\ \E bad \in (SUBSET fields) \ {{}} : lost' = lost \cup bad
             /\ why' = IF key[2] \in {"cuda_version", "compute_capability"}
                       THEN Default({key}, "malformed_value") ELSE why
             /\ UNCHANGED failed
    /\ UNCHANGED <<operationVars, libraryVars, stage, count, subject, handle, rows>>

EndSystem ==
    /\ stage = "questions" /\ todo = <<>> /\ subject = System
    /\ stage' = "count"
    /\ Works
    /\ UNCHANGED <<operationVars, libraryVars, count, visitVars, rows>>

\* The row is complete; whatever has no value and no reason yet gets one.
\* (The code names some fields earlier in the row; nobody else uses the keys.)
Unnamed == {<<subject, f>> : f \in lost \ (Text \cup {"cuda_version"})}
KeepRow(reasons) ==
    /\ stage = "questions" /\ todo = <<>> /\ subject # System
    /\ rows' = [i \in DOMAIN rows \cup {subject} |->
                   IF i = subject
                   THEN [device |-> handle, beside |-> Nobody, lost |-> lost \cap Fields(op)]
                   ELSE rows[i]]
    /\ why' = reasons
    /\ stage' = "next"
    /\ UNCHANGED <<machineVars, failed, operationVars, libraryVars, count, visitVars>>

\* (Variant: the generic reason replaces the one that was there.)
EndRowBlunt == KeepRow(Assign(Unnamed, "sensor_unsupported"))

EndRow == KeepRow(Default(Unnamed, "sensor_unsupported"))

Finish ==
    /\ stage = "next"
    /\ op = "available" \/ subject + 1 >= count
    /\ LET found == IF op = "available" THEN count > 0 ELSE rows # NoRows IN
       /\ why' = IF found THEN why ELSE Default({Gpu}, "no_nvidia_gpus")
       /\ UNCHANGED <<machineVars, failed>>
       /\ Return(rows, found)
    /\ stage' = "rest"
    /\ UNCHANGED <<libraryVars, count, visitVars, rows>>

\* The operation is cut short; a reference not yet flagged is nobody's.
NvmlEscape ==
    /\ stage # "rest"
    /\ Escape
    /\ stage' = "rest"
    /\ kept' = IF stage = "flag" THEN kept + 1 ELSE kept
    /\ UNCHANGED <<refs, initialized, closing, closes, count, visitVars, rows>>

(* close(), at any moment; without the flag it does nothing. *)

Lower(flag) ==
    /\ initialized /\ ~closing
    /\ closes < MaxCloses
    /\ closes' = closes + 1
    /\ initialized' = flag
    /\ closing' = TRUE
    /\ calm' = FALSE
    /\ UNCHANGED <<bus, steady, faults, moves, reasonVars, operationVars, refs, kept,
                   stage, count, visitVars, rows>>

\* (Variant: the flag stays up.)
CloseForgets == Lower(TRUE)

Close == Lower(FALSE)

Shutdown ==
    /\ closing
    /\ closing' = FALSE
    /\ \/ refs' = refs - 1 /\ Works /\ UNCHANGED kept
       \/ Raises(Gpu, TRUE) /\ kept' = kept + 1 /\ UNCHANGED refs
    /\ UNCHANGED <<operationVars, initialized, closes, stage, count, visitVars, rows>>

NvmlNext ==
    \/ NvmlBegin \/ AlreadyReady \/ InitFails \/ InitSucceeds \/ RaiseFlag
    \/ Counting \/ Address \/ Ask \/ EndSystem \/ EndRow \/ Finish \/ NvmlEscape
    \/ Close \/ Shutdown

(* Properties. *)

\* Each reference to the library has an owner: the flag, the operation about
\* to raise it, the close() about to give it back, or a failure.
ReferencesBalanced ==
    refs = kept + (IF initialized THEN 1 ELSE 0) + (IF closing THEN 1 ELSE 0)
                + (IF stage = "flag" THEN 1 ELSE 0)
=============================================================================
