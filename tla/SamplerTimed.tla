---------------------------- MODULE SamplerTimed ----------------------------
(***************************************************************************)
(* The clock of the sampler: the deadlines of _run, the receipt time of a  *)
(* snapshot, and latest_age_seconds.  Every action of Sampler is kept and  *)
(* what it reads from or does with a clock is added to it.                 *)
(*                                                                         *)
(* Time is a natural number that may advance in any state.  A reading of   *)
(* monotonic_clock is that number; when the injected clock fails, the code *)
(* reads time.monotonic(), whose origin is Skew away.                      *)
(***************************************************************************)
EXTENDS Sampler

CONSTANTS Interval,      \* interval_seconds
          Skew,          \* time.monotonic() minus monotonic_clock()
          ClockFaults,   \* the injected clock may fail
          MaxTime        \* bound: the last instant

ASSUME TimedAssumption ==
    /\ Interval \in Nat \ {0}
    /\ Skew \in Int
    /\ ClockFaults \in BOOLEAN
    /\ MaxTime \in Nat

VARIABLES
    now,         \* the true time
    deadline,    \* the local `deadline` of the worker
    received,    \* the local `sampled_at` of the worker
    stamps,      \* the sampled_at column of the history
    anchor,      \* the deadline the worker began with
    slot,        \* intervals between anchor and deadline
    lastBegin,   \* when the worker last began a collection
    asleepAt,    \* when it began to wait
    wakeAt,      \* when its wait times out
    age          \* a call of latest_age_seconds

schedule == <<deadline, anchor, slot, lastBegin, asleepAt, wakeAt>>
receipts == <<received, stamps>>
timedVars == <<vars, now, schedule, receipts, age>>

TimedInit ==
    /\ Init
    /\ now = 0
    /\ deadline = 0 /\ anchor = 0 /\ slot = 0 /\ lastBegin = 0
    /\ asleepAt = 0 /\ wakeAt = 0
    /\ received = 0 /\ stamps = <<>>
    /\ age = [at |-> "idle", stamp |-> 0, since |-> 0, told |-> 0]

\* _monotonic_now: the injected clock, or the standard one when it fails.
Readings == IF ClockFaults THEN {now, now + Skew} ELSE {now}

Tick ==
    /\ now < MaxTime
    /\ now' = now + 1
    /\ UNCHANGED <<vars, schedule, receipts, age>>
-----------------------------------------------------------------------------
TimedBegin(w) ==
    /\ Begin(w)
    /\ deadline' \in Readings
    /\ anchor' = deadline'
    /\ slot' = 0
    /\ lastBegin' = anchor' - Interval
    /\ UNCHANGED <<now, asleepAt, wakeAt, receipts, age>>

TimedTest(w) ==
    /\ Test(w)
    /\ lastBegin' = IF stopSet THEN lastBegin ELSE now
    /\ UNCHANGED <<now, deadline, anchor, slot, asleepAt, wakeAt, receipts, age>>

TimedCollect(w) ==
    /\ Collect(w)
    /\ received' \in Readings
    /\ UNCHANGED <<now, schedule, stamps, age>>

\* Variant: the sample is stamped with its deadline.
TimedPublishDue(w) ==
    /\ Publish(w)
    /\ stamps' = Push(stamps, deadline + Interval)
    /\ UNCHANGED <<now, schedule, received, age>>

TimedPublish(w) ==
    /\ Publish(w)
    /\ stamps' = Push(stamps, received)
    /\ UNCHANGED <<now, schedule, received, age>>

\* Variant for the mutants: the next deadline is always one interval on.
NextSlotsPlain(due, reading) == 1

\* Variant: the division is rounded up, and still incremented.
NextSlotsFar(due, reading) ==
    IF due > reading THEN 1 ELSE 1 + ((reading - due + Interval - 1) \div Interval + 1)

(***************************************************************************)
(* Lines 247-252: the next deadline is one interval on, or as many as it   *)
(* takes to be after the reading; the wait lasts until it by that reading. *)
(***************************************************************************)
NextSlots(due, reading) ==
    IF due > reading THEN 1 ELSE 1 + ((reading - due) \div Interval + 1)

TimedCallbackReturns(w) ==
    /\ CallbackReturns(w)
    /\ \E reading \in Readings :
          LET slots == NextSlots(deadline + Interval, reading) IN
          /\ deadline' = deadline + slots * Interval
          /\ slot' = slot + slots
          /\ wakeAt' = now + (deadline' - reading)
    /\ asleepAt' = now
    /\ UNCHANGED <<now, anchor, lastBegin, receipts, age>>

TimedIntervalElapses(w) ==
    /\ IntervalElapses(w)
    /\ now >= wakeAt
    /\ UNCHANGED <<now, schedule, receipts, age>>
-----------------------------------------------------------------------------
(***************************************************************************)
(* latest_age_seconds: sampled_at is read under the condition, the clock   *)
(* afterwards, and snapshots may be published between the two.             *)
(***************************************************************************)
AgeRead ==
    /\ age.at # "held"
    /\ stamps # <<>>
    /\ age' = [at |-> "held", stamp |-> stamps[Len(stamps)], since |-> now, told |-> 0]
    /\ UNCHANGED <<vars, now, schedule, receipts>>

AtLeastZero(n) == IF n < 0 THEN 0 ELSE n

\* Variant: the clock is read first and sampled_at afterwards.
AgeToldLate ==
    /\ age.at = "held"
    /\ age' = [age EXCEPT !.at = "told",
                          !.told = AtLeastZero(age.since - stamps[Len(stamps)])]
    /\ UNCHANGED <<vars, now, schedule, receipts>>

AgeTold ==
    /\ age.at = "held"
    /\ \E reading \in Readings :
          age' = [age EXCEPT !.at = "told", !.told = AtLeastZero(reading - age.stamp)]
    /\ UNCHANGED <<vars, now, schedule, receipts>>
-----------------------------------------------------------------------------
\* The steps of Sampler that read no clock.
Untimed(w) ==
    CallbackStops(w) \/ CallbackStarts(w) \/ WorkerRaises(w) \/ WakeOnStop(w)
    \/ Finally(w) \/ Exit(w)

TimedNext ==
    \/ Tick \/ AgeRead \/ AgeTold
    \/ \E w \in Workers :
          TimedBegin(w) \/ TimedTest(w) \/ TimedCollect(w) \/ TimedPublish(w)
          \/ TimedCallbackReturns(w) \/ TimedIntervalElapses(w)
    \/ /\ \/ \E c \in Clients : ClientStep(c)
          \/ \E w \in Workers : Untimed(w)
          \/ \E i \in Iterators : IterStep(i)
       /\ UNCHANGED <<now, schedule, receipts, age>>

TimedSpec == TimedInit /\ [][TimedNext]_timedVars
-----------------------------------------------------------------------------

(***************************************************************************)
(* A worker goes to sleep until the first point after now of the grid of   *)
(* its deadlines, so a slow collection skips slots instead of shifting the *)
(* grid or shortening the next wait (lines 247-252).                       *)
(***************************************************************************)
SleepsToTheNextSlot ==
    ThreadIsAlive /\ pc[thread] = "sleep" =>
        /\ wakeAt = anchor + slot * Interval
        /\ asleepAt < wakeAt /\ wakeAt <= asleepAt + Interval

(***************************************************************************)
(* "Missed deadlines are skipped instead of firing a burst of catch-up     *)
(* samples" (lines 48-50): however long collections, callbacks and wakeups *)
(* take, a point of the grid lies between the beginnings of any two        *)
(* collections of a worker.                                                *)
(***************************************************************************)
NoBurst ==
    [][\A w \in Workers :
          pc[w] = "test" /\ pc'[w] = "collect" =>
              \E k \in 0..now : lastBegin < anchor + k * Interval /\ anchor + k * Interval <= now
      ]_timedVars

(***************************************************************************)
(* "An NTP correction cannot make a stale sample look current" (line 165): *)
(* an age told is never less than the age the sample had when it was read, *)
(* though publications come between the two steps, and never more than the *)
(* time since it was received.                                             *)
(***************************************************************************)
AgeIsHonest ==
    age.at = "told" => /\ age.told >= age.since - age.stamp
                       /\ age.told <= now - age.stamp

(***************************************************************************)
(* The receipt times of the retained snapshots never decrease, restarts    *)
(* included, and belong to them one to one (_publish, lines 230-233).      *)
(***************************************************************************)
StampsAscend ==
    /\ Len(stamps) = Len(history)
    /\ \A j, k \in DOMAIN stamps : j <= k => stamps[j] <= stamps[k]
    /\ \A k \in DOMAIN stamps : stamps[k] <= now
=============================================================================
