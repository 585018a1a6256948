---------------------------- MODULE SampleFeed ----------------------------
(***************************************************************************)
(* What the sampler promises its users, without threads, locks or wakeups: *)
(* a feed that runs between a start and a stop, whose samples are numbered *)
(* 1, 2, 3, ... forever, keeps the newest Capacity of them, and hands each *)
(* consumer an increasing subsequence that omits only what was overwritten.*)
(* After a stop request at most the one collection in flight is published. *)
(***************************************************************************)
EXTENDS Integers

CONSTANTS Consumers, Capacity

VARIABLES
    phase,        \* "stopped", "running", or "stopping" once a stop is requested
    inFlight,     \* samples being taken: 0 or 1
    published,    \* samples published so far
    seen          \* number of the last sample each consumer was given

feedVars == <<phase, inFlight, published, seen>>

FeedInit ==
    /\ phase = "stopped"
    /\ inFlight = 0
    /\ published = 0
    /\ seen = [c \in Consumers |-> 0]

Begin ==
    /\ phase = "stopped"
    /\ phase' = "running"
    /\ UNCHANGED <<inFlight, published, seen>>

\* Only a running feed takes a new sample, one at a time.
TakeSample ==
    /\ phase = "running"
    /\ inFlight = 0
    /\ inFlight' = 1
    /\ UNCHANGED <<phase, published, seen>>

PublishSample ==
    /\ inFlight = 1
    /\ inFlight' = 0
    /\ published' = published + 1
    /\ UNCHANGED <<phase, seen>>

\* A stop request, or a fault that ends the feed between two samples.
RequestStop ==
    /\ phase = "running"
    /\ phase' = "stopping"
    /\ UNCHANGED <<inFlight, published, seen>>

\* A fault ends the feed; the sample being taken is lost and has no number.
Abort ==
    /\ inFlight = 1
    /\ phase' = "stopping"
    /\ inFlight' = 0
    /\ UNCHANGED <<published, seen>>

End ==
    /\ phase = "stopping"
    /\ inFlight = 0
    /\ phase' = "stopped"
    /\ UNCHANGED <<inFlight, published, seen>>

\* Sample n is published, newer than the last one, and all in between are gone.
Deliver(c, n) ==
    /\ seen[c] < n
    /\ \A skipped \in seen[c] + 1 .. n - 1 : skipped <= published - Capacity
    /\ seen' = [seen EXCEPT ![c] = n]
    /\ UNCHANGED <<phase, inFlight, published>>

FeedNext ==
    \/ Begin \/ TakeSample \/ PublishSample \/ RequestStop \/ Abort \/ End
    \/ \E c \in Consumers : \E n \in 1..published : Deliver(c, n)

FeedSpec == FeedInit /\ [][FeedNext]_feedVars

(***************************************************************************)
(* A sample being taken is published or lost, and a feed asked to stop     *)
(* stops.                                                                  *)
(***************************************************************************)
FeedFairSpec ==
    /\ FeedSpec
    /\ WF_feedVars(PublishSample \/ Abort)
    /\ WF_feedVars(End)
============================================================================
