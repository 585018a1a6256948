---------------------------- MODULE GpuOperation ---------------------------
(***************************************************************************)
(* What the two NVIDIA readers share: the devices of the machine, which    *)
(* may be renumbered, vanish and come back at any moment, and one public   *)
(* operation at a time (available, sample, static_info), which clears the  *)
(* reasons, asks the driver several questions and answers.                 *)
(***************************************************************************)
EXTENDS GpuReasons, Sequences, TLC

CONSTANTS MaxOps,      \* bound: operations begun
          MaxFaults,   \* bound: questions that fail or are answered badly
          MaxMoves     \* bound: changes of the devices

ASSUME GpuBounds == MaxOps \in Nat /\ MaxFaults \in Nat /\ MaxMoves \in Nat

VARIABLES bus,       \* the devices by index
          op,        \* the operation in progress, or "none"
          steady,    \* the <<index, device>> that held since op began
          why,       \* _reasons: from key to reason
          failed,    \* keys of the questions that failed since op began
          calm,      \* nothing failed, moved or was closed since op began
          answer,    \* the last answer, with the reasons told beside it
          ops, faults, moves

machineVars == <<bus, steady, calm, faults, moves>>
operationVars == <<op, answer, ops>>
reasonVars == <<why, failed>>

Init ==
    /\ bus \in Buses
    /\ op = "none" /\ steady = {} /\ calm = TRUE
    /\ why = NoReasons /\ failed = {}
    /\ answer = Nothing
    /\ ops = 0 /\ faults = 0 /\ moves = 0

\* Assignment and setdefault on _reasons.
Put(reasons, keys, reason) ==
    [k \in DOMAIN reasons \cup keys |-> IF k \in keys THEN reason ELSE reasons[k]]
Assign(keys, reason) == Put(why, keys, reason)
Default(keys, reason) == Put(why, keys \ DOMAIN why, reason)

(* The environment. *)

\* A device is added, removed, or all are enumerated anew.
Move ==
    /\ moves < MaxMoves
    /\ \E b \in Buses \ {bus} : bus' = b /\ steady' = steady \cap Places(b)
    /\ calm' = FALSE
    /\ moves' = moves + 1
    /\ UNCHANGED <<operationVars, reasonVars, faults>>

\* n things the driver got wrong.
Fault(n) ==
    /\ faults + n <= MaxFaults
    /\ faults' = faults + n
    /\ calm' = (calm /\ n = 0)
    /\ UNCHANGED <<bus, steady, moves>>

(* The operation. *)

BeginWith(reasons) ==
    /\ op = "none"
    /\ ops < MaxOps
    /\ op' \in Operations
    /\ ops' = ops + 1
    /\ why' = reasons /\ failed' = {}
    /\ steady' = Places(bus) /\ calm' = TRUE
    /\ answer' = Nothing
    /\ UNCHANGED <<bus, faults, moves>>

\* (Variant: the reasons of the last operation are kept.)
BeginKeeping == BeginWith(why)

Begin == BeginWith(NoReasons)

\* The operation returns these rows (for available: whether there are any),
\* and with them, from unavailable_reasons, what is in `why` then.
Return(rows, found) ==
    /\ answer' = [op |-> op, rows |-> rows, found |-> found, why |-> why',
                  failed |-> failed', steady |-> steady, calm |-> calm']
    /\ op' = "none"
    /\ UNCHANGED ops

\* An exception that the code does not turn into a reason ends the operation.
Escape ==
    /\ op # "none"
    /\ op' = "none"
    /\ Fault(1)
    /\ UNCHANGED <<answer, ops, reasonVars>>
=============================================================================
