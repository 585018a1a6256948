------------------------------ MODULE MCWindow -----------------------------
(***************************************************************************)
(* Readings that tell the branches of the window apart: a full clock, a    *)
(* drop to exactly 85% that is hot, near the limit, idle or none of these, *)
(* a device without a clock, a silent one, and one the driver slows down.  *)
(***************************************************************************)
EXTENDS Window, SequencesExt

SomeRows ==
    LET none == Unsupported IN
    {Reading(100, 70, 5, 10, 90, TRUE, {"gpu_idle"}),
     Reading(85, 80, none, 10, 90, FALSE, {}),
     Reading(85, 70, 19, 20, 40, TRUE, {}),
     Reading(70, none, 2, 0, 50, TRUE, {}),
     Reading(86, 79, 0, none, 90, FALSE, {}),
     Reading(none, 90, 3, none, none, TRUE, {}),
     Reading(none, none, none, none, none, FALSE, {}),
     Reading(none, none, 4, none, none, TRUE, {"sw_power_cap"})}

\* What the loop finds in the sorted samples, while it raises its maximum, is
\* the drop of Window, the first sample below an earlier one.
ASSUME LoopFindsTheDrop ==
    \A s \in BoundedSeq(Snapshots, 3) :
        LET order == SetToSortSeq(GpuSamples(s), LAMBDA p, q : Earlier(s, p, q))
        IN Sorted(s, order) /\ Loop(s, order) = SubstantialClockDrop(s)
=============================================================================
