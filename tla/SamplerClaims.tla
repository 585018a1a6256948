--------------------------- MODULE SamplerClaims ---------------------------
(***************************************************************************)
(* What the documentation of the sampler says and the code does not do.    *)
(* Each claim is refuted by a run of its own.                              *)
(***************************************************************************)
EXTENDS Sampler

(***************************************************************************)
(* "Collect on monotonic deadlines and always wake iterators when exiting" *)
(* (_run, line 239): a generator that waits when the worker has died wakes *)
(* up.  In the code notify_all comes while is_alive() is still true, so a  *)
(* generator can see a live thread, wait again, and never be woken.        *)
(***************************************************************************)
IteratorsEndWithTheSampler ==
    \A i \in Iterators :
        iter[i] = "wait" /\ ~ThreadIsAlive ~> iter[i] # "wait"

(***************************************************************************)
(* "Sampling starts immediately on each start" (line 48): after a start(), *)
(* unless a stop() comes, there is a worker that was not asked to stop.    *)
(* In the code start() does nothing while the worker of an earlier stop    *)
(* request is alive (lines 113-114), and that worker then dies.            *)
(***************************************************************************)
StartedMeansSampling ==
    intent # "stop" ~> intent = "stop" \/ (ThreadIsAlive /\ ~stopSet)
=============================================================================
