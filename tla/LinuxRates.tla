---------------------------- MODULE LinuxRates -----------------------------
(***************************************************************************)
(* cpu_percent() and disk_throughput() of sweatmeter/readers/linux.py:     *)
(* rates computed from the differences of two cumulative readings of /proc *)
(* taken by successive calls.  A call reads the kernel's text, then (disk) *)
(* the clock, then swaps the baseline and subtracts.  Callers reach the    *)
(* reader through the collector, whose lock spans the call.                *)
(*                                                                         *)
(* A counter here is the sum the parser makes: over the columns of the cpu *)
(* line that count as busy or as idle, or over the whole devices of        *)
(* diskstats.  One column or device may fall back (a reset, a wrap, a      *)
(* device unplugged, iowait) while the others grow.                        *)
(***************************************************************************)
EXTENDS Integers

CONSTANTS Callers,      \* threads that call the reader
          NoCaller,     \* the collector's lock is free
          Meters,       \* which of "cpu" and "disk" they call
          MaxGrowth,    \* bound: what one counter ever counts
          MaxFalls,     \* bound: how often one counter falls
          MaxTime       \* bound: readings of the monotonic clock

ASSUME LinuxRatesAssumption ==
    /\ NoCaller \notin Callers
    /\ Meters \subseteq {"cpu", "disk"}
    /\ MaxGrowth \in Nat
    /\ MaxFalls \in Nat
    /\ MaxTime \in Nat

Sides == {"x", "y"}     \* cpu: busy and idle jiffies; disk: bytes read and written

\* A reading: the sums, and when they were read (disk).
Reading == [sum : [Sides -> Nat], at : Nat \cup {-1}]
Zero == [s \in Sides |-> 0]
NoReading == [sum |-> Zero, at |-> -1]

VARIABLES
    lock,       \* the collector's lock
    doing,      \* the meter each caller is inside of, or "none"
    stage,      \* where in it: "parse", "clock", "swap", or "failed"
    parsed,     \* its local reading
    counter,    \* the kernel's sums
    falls,      \* how often some part of each sum fell back
    grown,      \* everything each sum ever counted
    now,        \* the monotonic clock
    previous,   \* self._previous_cpu, self._previous_disk
    based,      \* meters that have a baseline
    first,      \* the first baseline
    told,       \* what the answers of each meter add up to
    missed      \* meters with an interval no answer could tell

kernelVars == <<counter, falls, grown, now>>
callVars == <<lock, doing, stage, parsed>>
readerVars == <<previous, based, first, told, missed>>
vars == <<kernelVars, callVars, readerVars>>

Init ==
    /\ lock = NoCaller
    /\ doing = [c \in Callers |-> "none"]
    /\ stage = [c \in Callers |-> "parse"]
    /\ parsed = [c \in Callers |-> NoReading]
    /\ counter = [m \in Meters |-> [s \in Sides |-> 1]]
    /\ falls = [m \in Meters |-> Zero]
    /\ grown = [m \in Meters |-> Zero]
    /\ now = 0
    /\ previous = [m \in Meters |-> NoReading]
    /\ based = {}
    /\ first = [m \in Meters |-> NoReading]
    /\ told = [m \in Meters |-> Zero]
    /\ missed = {}

----------------------------------------------------------------------------
(* The kernel.                                                             *)

\* Some column or device counts on.
Grow(m, s) ==
    /\ grown[m][s] < MaxGrowth
    /\ counter' = [counter EXCEPT ![m][s] = @ + 1]
    /\ grown' = [grown EXCEPT ![m][s] = @ + 1]
    /\ UNCHANGED <<falls, now, callVars, readerVars>>

\* One column or device loses k of what it held.
Fall(m, s, k) ==
    /\ falls[m][s] < MaxFalls
    /\ k \in 1..counter[m][s]
    /\ counter' = [counter EXCEPT ![m][s] = @ - k]
    /\ falls' = [falls EXCEPT ![m][s] = @ + 1]
    /\ UNCHANGED <<grown, now, callVars, readerVars>>

Tick ==
    /\ now < MaxTime
    /\ now' = now + 1
    /\ UNCHANGED <<counter, falls, grown, callVars, readerVars>>

----------------------------------------------------------------------------
(* A call.                                                                 *)

\* (Variant: the reader is called without the collector's lock.)
LockIgnored == TRUE
LockFree == lock = NoCaller

Enter(c, m) ==
    /\ doing[c] = "none"
    /\ LockFree
    /\ lock' = c
    /\ doing' = [doing EXCEPT ![c] = m]
    /\ stage' = [stage EXCEPT ![c] = "parse"]
    /\ UNCHANGED <<parsed, kernelVars, readerVars>>

\* The text is read and parsed; or it cannot be, and the call is over but for
\* the clock.
Parse(c) ==
    /\ doing[c] # "none"
    /\ stage[c] = "parse"
    /\ \/ /\ parsed' = [parsed EXCEPT ![c] = [sum |-> counter[doing[c]], at |-> -1]]
          /\ stage' = [stage EXCEPT ![c] = IF doing[c] = "disk" THEN "clock" ELSE "swap"]
       \/ /\ stage' = [stage EXCEPT ![c] = "failed"]
          /\ UNCHANGED parsed
    /\ UNCHANGED <<lock, doing, kernelVars, readerVars>>

\* disk_throughput() reads the clock after the counters; the clock may fail.
ReadClock(c) ==
    /\ doing[c] # "none"
    /\ stage[c] = "clock"
    /\ \/ /\ parsed' = [parsed EXCEPT ![c].at = now]
          /\ stage' = [stage EXCEPT ![c] = "swap"]
       \/ /\ stage' = [stage EXCEPT ![c] = "failed"]
          /\ UNCHANGED parsed
    /\ UNCHANGED <<lock, doing, kernelVars, readerVars>>

Leave(c) ==
    /\ lock' = NoCaller
    /\ doing' = [doing EXCEPT ![c] = "none"]
    /\ stage' = [stage EXCEPT ![c] = "parse"]
    /\ parsed' = [parsed EXCEPT ![c] = NoReading]
    /\ UNCHANGED kernelVars

\* The sides an answer has a value for.  (Variant: time that
\* stands still divides.)
ToldSidesAnyTime(m, old, new) == {s \in Sides : new.sum[s] >= old.sum[s]}

ToldSides(m, old, new) ==
    LET up == {s \in Sides : new.sum[s] >= old.sum[s]} IN
    IF m = "cpu"
    THEN IF up = Sides /\ new.sum # old.sum THEN Sides ELSE {}
    ELSE IF new.at > old.at THEN up ELSE {}

\* What an answer tells: amounts, before they are divided by time.
Gain(m, old, new) ==
    [s \in Sides |-> IF s \in ToldSides(m, old, new) THEN new.sum[s] - old.sum[s] ELSE 0]

Add(total, gain) == [s \in Sides |-> total[s] + gain[s]]

\* `previous, self._previous = self._previous, parsed`
Rebase(c, m) ==
    /\ previous' = [previous EXCEPT ![m] = parsed[c]]
    /\ based' = based \cup {m}
    /\ first' = IF m \in based THEN first ELSE [first EXCEPT ![m] = parsed[c]]

\* The baseline is replaced, and what grew since the old one is the answer.
Swap(c) ==
    /\ doing[c] # "none"
    /\ stage[c] = "swap"
    /\ LET m == doing[c]
       IN /\ Rebase(c, m)
          /\ told' = IF m \in based
                     THEN [told EXCEPT ![m] = Add(@, Gain(m, previous[m], parsed[c]))]
                     ELSE told
          /\ missed' = IF m = "disk" /\ m \in based /\ parsed[c].at = previous[m].at
                       THEN missed \cup {m} ELSE missed
    /\ Leave(c)

\* An unreadable text or clock: no answer, and the baseline stays.  (Variant:
\* it is dropped.)
GiveUpForgets(c) ==
    /\ doing[c] # "none"
    /\ stage[c] = "failed"
    /\ based' = based \ {doing[c]}
    /\ UNCHANGED <<previous, first, told, missed>>
    /\ Leave(c)

GiveUp(c) ==
    /\ doing[c] # "none"
    /\ stage[c] = "failed"
    /\ UNCHANGED readerVars
    /\ Leave(c)

\* A BaseException ends the call before the swap, or after it and before the
\* answer.
Interrupt(c) ==
    /\ doing[c] # "none"
    /\ \/ UNCHANGED readerVars
       \/ /\ stage[c] = "swap"
          /\ Rebase(c, doing[c])
          /\ missed' = missed \cup {doing[c]}
          /\ UNCHANGED told
    /\ Leave(c)

Next ==
    \/ \E m \in Meters, s \in Sides :
          Grow(m, s) \/ \E k \in 1..(MaxGrowth + 1) : Fall(m, s, k)
    \/ Tick
    \/ \E c \in Callers :
          \/ \E m \in Meters : Enter(c, m)
          \/ Parse(c) \/ ReadClock(c) \/ Swap(c) \/ GiveUp(c) \/ Interrupt(c)

Spec == Init /\ [][Next]_vars

----------------------------------------------------------------------------
(* Properties.                                                             *)

\* Types of the variables.
TypeOK ==
    /\ lock \in Callers \cup {NoCaller}
    /\ doing \in [Callers -> Meters \cup {"none"}]
    /\ stage \in [Callers -> {"parse", "clock", "swap", "failed"}]
    /\ parsed \in [Callers -> Reading]
    /\ counter \in [Meters -> [Sides -> Nat]]
    /\ falls \in [Meters -> [Sides -> Nat]]
    /\ grown \in [Meters -> [Sides -> Nat]]
    /\ now \in Nat
    /\ previous \in [Meters -> Reading]
    /\ based \subseteq Meters
    /\ first \in [Meters -> Reading]
    /\ told \in [Meters -> [Sides -> Nat]]
    /\ missed \subseteq Meters

\* Nothing is counted twice: the answers, given to whichever caller asks, add
\* up to at most what the kernel counted, whatever falls, fails or is
\* interrupted in between (the baseline is swapped under the collector's lock,
\* and there is none before the first reading).
NeverOverstates == \A m \in Meters, s \in Sides : told[m][s] <= grown[m][s]

\* Sums whose meter gives a value for both sides or for none.
Steady(m, s) == IF m = "cpu" THEN falls[m] = Zero ELSE falls[m][s] = 0

\* Nothing is lost either: as long as the sum never fell, the clock moved
\* between any two readings and no call was interrupted after its swap, the
\* answers add up to exactly what lies between the first baseline and the
\* last, across every failed read and every caller.
NothingIsLost ==
    \A m \in based \ missed, s \in Sides :
        Steady(m, s) => told[m][s] = previous[m].sum[s] - first[m].sum[s]

\* A rate is never negative, and a disk rate never divides by no time: what is
\* told grows only between readings of different times.
RatesAreSound ==
    [][\A m \in Meters, s \in Sides :
          /\ told'[m][s] >= told[m][s]
          /\ (m = "disk" /\ told'[m][s] # told[m][s]) => previous'[m].at > previous[m].at]_vars
=============================================================================
