---------------------------- MODULE SamplerFeed ----------------------------
(***************************************************************************)
(* The refinement mapping from the threads of the sampler to the feed its  *)
(* users see.                                                              *)
(***************************************************************************)
EXTENDS Sampler

InFlight == IF \E w \in Workers : pc[w] \in {"collect", "publish"} THEN 1 ELSE 0

\* The request or the fault that a live worker is on its way to obey.
Ending == stopSet \/ \E w \in Workers : pc[w] \in {"finally", "exiting"}

Phase == IF \A w \in Workers : ~Alive(w) THEN "stopped"
         ELSE IF Ending THEN "stopping"
         ELSE "running"

Feed == INSTANCE SampleFeed WITH
            Consumers <- Iterators,
            Capacity <- BufferSize,
            phase <- Phase,
            inFlight <- InFlight,
            published <- sequence,
            seen <- [i \in Iterators |-> cursor[i] - 1]

(***************************************************************************)
(* Every behaviour of the sampler is one of the feed: no sample starts     *)
(* after a stop request, sample numbers have no gap, and a generator skips *)
(* only what the ring has overwritten (sampler.py lines 106-256).          *)
(***************************************************************************)
ImplementsFeed == Feed!FeedSpec

(***************************************************************************)
(* With fair threads, a sample in flight is published or lost and a        *)
(* stopping sampler becomes stopped (sampler.py lines 238-256).            *)
(***************************************************************************)
ImplementsFairFeed == Feed!FeedFairSpec
=============================================================================
