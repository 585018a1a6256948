----------------------------- MODULE GpuBackend ----------------------------
(***************************************************************************)
(* What a GPU reader promises: at most one answer to each operation, and   *)
(* an honest one, whatever fails and however the devices move meanwhile.   *)
(***************************************************************************)
EXTENDS GpuReasons

CONSTANTS MaxOps, MaxMoves

VARIABLES bus, op, steady, answer, ops, moves

BackendInit ==
    /\ bus \in Buses
    /\ op = "none" /\ steady = {}
    /\ answer = Nothing
    /\ ops = 0 /\ moves = 0

BackendMove ==
    /\ moves < MaxMoves
    /\ bus' \in Buses
    /\ steady' = steady \cap Places(bus')
    /\ moves' = moves + 1
    /\ UNCHANGED <<op, answer, ops>>

Asked ==
    /\ op = "none"
    /\ ops < MaxOps
    /\ op' \in Operations
    /\ steady' = Places(bus)
    /\ answer' = Nothing
    /\ ops' = ops + 1
    /\ UNCHANGED <<bus, moves>>

\* Some reason speaks for the whole machine; "there are none" does not speak
\* for a device that was there.
Excuses(a) ==
    \/ Gpu \in DOMAIN a.why /\ a.why[Gpu] # "no_nvidia_gpus"
    \/ \E k \in DOMAIN a.why : k[2] \in RowScopes

\* A device that was there all the time is reported or accounted for.
NobodyForgotten(a) ==
    \A place \in a.steady :
        IF a.op = "available" THEN a.found \/ Excuses(a)
        ELSE place[1] \in DOMAIN a.rows \/ Excuses(a) \/ Device(place[1]) \in DOMAIN a.why

\* "There are none" is not said of devices that were there, unless each of them
\* is accounted for by itself.
NoneMeansNone(a) ==
    Gpu \in DOMAIN a.why /\ a.why[Gpu] = "no_nvidia_gpus" =>
        \A place \in a.steady : Device(place[1]) \in DOMAIN a.why

\* Finding nothing is never left without a reason.
EmptyIsExplained(a) == ~a.found => Gpu \in DOMAIN a.why

\* A missing measurement has a reason, of the device or of the machine, and a
\* reason about a device's field is about one that is missing.
GapsAreExplained(a) ==
    \A i \in DOMAIN a.rows :
        /\ \A f \in a.rows[i].lost \ Text :
               <<i, f>> \in DOMAIN a.why \/ <<System, f>> \in DOMAIN a.why
        /\ \A f \in Fields(a.op) : <<i, f>> \in DOMAIN a.why => f \in a.rows[i].lost

\* The reason told for a question that failed is that failure.
CausesSurvive(a) == \A k \in a.failed : k \in DOMAIN a.why /\ a.why[k] = "call_failed"

\* A row never mixes the values of two devices that kept their places.
RowsAreOfOne(a) ==
    \A place \in a.steady :
        place[1] \in DOMAIN a.rows =>
            {a.rows[place[1]].device, a.rows[place[1]].beside} \subseteq {place[2], Nobody}

Honest(a) ==
    /\ NobodyForgotten(a)
    /\ NoneMeansNone(a)
    /\ EmptyIsExplained(a)
    /\ GapsAreExplained(a)
    /\ CausesSurvive(a)
    /\ RowsAreOfOne(a)

Answered ==
    /\ op # "none" /\ op' = "none"
    /\ answer'.op = op /\ answer'.steady = steady
    /\ Honest(answer')
    /\ UNCHANGED <<bus, steady, ops, moves>>

GaveUp ==
    /\ op # "none" /\ op' = "none"
    /\ UNCHANGED <<bus, steady, answer, ops, moves>>

BackendNext == Asked \/ BackendMove \/ Answered \/ GaveUp

BackendSpec == BackendInit /\ [][BackendNext]_<<bus, op, steady, answer, ops, moves>>
=============================================================================
