----------------------- MODULE CollectorDiagnostics ------------------------
(***************************************************************************)
(* The collector implements Diagnostics: whatever its callers, its readers *)
(* and interrupts do, what a caller can see changes only when an operation *)
(* returns, and then to a whole honest report.                             *)
(***************************************************************************)
EXTENDS Collector, TLC

\* Fields an operation accounts for.
Accounted == [snapshot |-> LiveFields \cup {"gpu", "timestamp"},
              machine_profile |-> IdentityFields \cup {"gpu", "timestamp"}]

Promise == INSTANCE Diagnostics WITH
    Required <- Accounted, Start <- NoReport, Nothing <- NoReasons

\* The collector's steps are steps of the promise or invisible to it.
ImplementsDiagnostics == Promise!Spec

\* The callers are interchangeable.
Symmetry == Permutations(Callers)
=============================================================================
