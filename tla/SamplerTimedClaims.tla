------------------------ MODULE SamplerTimedClaims ------------------------
(***************************************************************************)
(* What the documentation says of the sampler's clock and the code does    *)
(* not do when the injected clock fails now and then.                      *)
(***************************************************************************)
EXTENDS SamplerTimed

(***************************************************************************)
(* "Read a valid monotonic value, falling back to the standard clock if    *)
(* injected badly" (_monotonic_now, line 218) and "delay between sampling  *)
(* deadlines" (interval_seconds, line 55): no wait is longer than the      *)
(* interval.  In the code one bad reading is replaced by a value of        *)
(* another clock, and the difference of the two becomes part of a wait.    *)
(***************************************************************************)
WaitsAtMostAnInterval ==
    ThreadIsAlive /\ pc[thread] = "sleep" => wakeAt <= asleepAt + Interval
============================================================================
