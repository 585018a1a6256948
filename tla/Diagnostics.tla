---------------------------- MODULE Diagnostics ----------------------------
(***************************************************************************)
(* What the collector promises its callers, with no readers, lock or steps *)
(* in it: operations file whole reports, one at a time, and the            *)
(* diagnostics are always the reasons of the last one filed.  Everything   *)
(* else that happens is invisible.                                         *)
(***************************************************************************)
CONSTANTS Operations,   \* names of the operations
          Required,     \* fields each operation gives a value or a reason for
          Start,        \* the report there is before the first
          Nothing       \* the diagnostics of no operation

VARIABLES report, diagnostics

vars == <<report, diagnostics>>

\* A report gives each field a value or a reason; the one that stands for an
\* operation that failed as a whole gives no value and names the operation.
Honest(r) ==
    /\ r.op \in Operations
    /\ IF r.doomed
       THEN DOMAIN r.why = {r.op} /\ \A f \in Required[r.op] : r.got[f] = 0
       ELSE \A f \in Required[r.op] : r.got[f] # 0 \/ f \in DOMAIN r.why

Init == report = Start /\ diagnostics = Nothing

\* An operation returns.
File == Honest(report') /\ diagnostics' = report'.why

Spec == Init /\ [][File]_vars
=============================================================================
