-------------------------- MODULE LinuxReaderProofs -------------------------
(***************************************************************************)
(* Proofs about the Linux reader.  Its rates, for every number of callers, *)
(* meters and counts: what an answer tells is the difference of two        *)
(* readings, and the invariants account for each reading while a call      *)
(* holds it and the kernel counts on.  Its temperature, for any sets of    *)
(* files, any of them preferred, and any changes of them at any moment.    *)
(***************************************************************************)
EXTENDS LinuxRates, LinuxTemperature, TLAPS


\* An answer tells, for each side, the growth between its two readings, or
\* nothing: never a fall, and for the disk only over some time.
LEMMA GainFacts ==
    ASSUME NEW m, NEW old \in Reading, NEW new \in Reading, NEW s \in Sides
    PROVE  /\ Gain(m, old, new)[s] \in Nat
           /\ Gain(m, old, new)[s] \in {0, new.sum[s] - old.sum[s]}
           /\ (s \in ToldSides(m, old, new)) => Gain(m, old, new)[s] = new.sum[s] - old.sum[s]
           /\ (m # "cpu" /\ Gain(m, old, new)[s] # 0) => new.at > old.at
<1> DEFINE up == {q \in Sides : new.sum[q] >= old.sum[q]}
           T == ToldSides(m, old, new)
<1>1. T \subseteq up /\ (m # "cpu" /\ T # {} => new.at > old.at)
  <2>1. CASE m = "cpu"
    BY <2>1, Zenon DEF ToldSides
  <2>2. CASE m # "cpu"
    BY <2>2, Zenon DEF ToldSides
  <2> QED BY <2>1, <2>2
<1>2. new.sum[s] \in Nat /\ old.sum[s] \in Nat
  BY DEF Reading
<1>3. Gain(m, old, new)[s] = IF s \in T THEN new.sum[s] - old.sum[s] ELSE 0
  BY DEF Gain
<1>4. s \in T => new.sum[s] >= old.sum[s]
  BY <1>1
<1>5. CASE s \in T
  <2>1. Gain(m, old, new)[s] = new.sum[s] - old.sum[s] /\ (m # "cpu" => new.at > old.at)
    BY <1>1, <1>3, <1>5
  <2> QED BY <1>2, <1>4, <1>5, <2>1
<1>6. CASE s \notin T
  <2>1. Gain(m, old, new)[s] = 0
    BY <1>3, <1>6
  <2> QED BY <1>6, <2>1
<1> QED BY <1>5, <1>6

LEMMA AddType ==
    ASSUME NEW total \in [Sides -> Nat], NEW gain, \A s \in Sides : gain[s] \in Nat
    PROVE  Add(total, gain) \in [Sides -> Nat]
BY DEF Add

\* The types of the variables are as declared.
THEOREM TypeCorrect == Spec => []TypeOK
<1>1. Init => TypeOK
  BY LinuxRatesAssumption DEF Init, TypeOK, Reading, NoReading, Zero, Sides
<1>2. TypeOK /\ [Next]_vars => TypeOK'
  <2> SUFFICES ASSUME TypeOK, [Next]_vars PROVE TypeOK'
    OBVIOUS
  <2> USE LinuxRatesAssumption DEF TypeOK
  <2>1. ASSUME NEW m \in Meters, NEW s \in Sides, Grow(m, s) PROVE TypeOK'
    BY <2>1 DEF Grow, callVars, readerVars
  <2>2. ASSUME NEW m \in Meters, NEW s \in Sides, NEW k \in 1..(MaxGrowth + 1), Fall(m, s, k)
        PROVE TypeOK'
    <3>1. counter[m][s] - k \in Nat /\ falls[m][s] + 1 \in Nat
      BY <2>2 DEF Fall
    <3> QED BY <2>2, <3>1 DEF Fall, callVars, readerVars
  <2>3. CASE Tick
    BY <2>3 DEF Tick, callVars, readerVars
  <2>4. ASSUME NEW c \in Callers, NEW m \in Meters, Enter(c, m) PROVE TypeOK'
    BY <2>4 DEF Enter, kernelVars, readerVars
  <2>5. ASSUME NEW c \in Callers, Parse(c) PROVE TypeOK'
    <3>1. doing[c] \in Meters
      BY <2>5 DEF Parse
    <3>2. [sum |-> counter[doing[c]], at |-> -1] \in Reading
      BY <3>1 DEF Reading
    <3> QED BY <2>5, <3>2 DEF Parse, kernelVars, readerVars
  <2>6. ASSUME NEW c \in Callers, ReadClock(c) PROVE TypeOK'
    <3>1. [parsed[c] EXCEPT !.at = now] \in Reading
      <4>1. parsed[c] \in Reading /\ now \in Nat
        OBVIOUS
      <4> HIDE DEF TypeOK
      <4> QED BY <4>1 DEF Reading
    <3>2. parsed' \in [Callers -> Reading]
      <4>1. \/ parsed' = [parsed EXCEPT ![c] = [parsed[c] EXCEPT !.at = now]]
            \/ parsed' = parsed
        BY <2>6 DEF ReadClock
      <4>2. parsed \in [Callers -> Reading]
        OBVIOUS
      <4> HIDE DEF TypeOK
      <4> QED BY <3>1, <4>1, <4>2
    <3>3. stage' \in [Callers -> {"parse", "clock", "swap", "failed"}]
      <4>1. \/ stage' = [stage EXCEPT ![c] = "swap"]
            \/ stage' = [stage EXCEPT ![c] = "failed"]
        BY <2>6 DEF ReadClock
      <4>2. stage \in [Callers -> {"parse", "clock", "swap", "failed"}]
        OBVIOUS
      <4> HIDE DEF TypeOK
      <4> QED BY <4>1, <4>2
    <3>4. UNCHANGED <<lock, doing, kernelVars, readerVars>>
      BY <2>6 DEF ReadClock
    <3> QED BY <3>2, <3>3, <3>4 DEF kernelVars, readerVars
  <2>7. ASSUME NEW c \in Callers, doing[c] # "none", Leave(c), Rebase(c, doing[c])
        PROVE /\ previous' \in [Meters -> Reading] /\ first' \in [Meters -> Reading]
              /\ based' \subseteq Meters
    BY <2>7 DEF Rebase
  <2>8. ASSUME NEW c \in Callers, Leave(c), told' \in [Meters -> [Sides -> Nat]],
               previous' \in [Meters -> Reading], first' \in [Meters -> Reading],
               based' \subseteq Meters, missed' \subseteq Meters
        PROVE TypeOK'
    <3>1. NoReading \in Reading
      BY DEF NoReading, Reading, Zero
    <3> QED BY <2>8, <3>1 DEF Leave, kernelVars
  <2>9. ASSUME NEW c \in Callers, Swap(c) PROVE TypeOK'
    <3> DEFINE m == doing[c]
               G == Gain(m, previous[m], parsed[c])
    <3>1. m \in Meters /\ previous[m] \in Reading /\ parsed[c] \in Reading
      BY <2>9 DEF Swap
    <3>2. \A s \in Sides : G[s] \in Nat
      BY <3>1, GainFacts
    <3>3. Add(told[m], G) \in [Sides -> Nat]
      <4>1. told[m] \in [Sides -> Nat]
        BY <3>1
      <4> HIDE DEF TypeOK, G, m
      <4> QED BY <3>2, <4>1, AddType
    <3>4. told' \in [Meters -> [Sides -> Nat]]
      BY <2>9, <3>1, <3>3 DEF Swap
    <3>5. missed' \subseteq Meters
      BY <2>9, <3>1 DEF Swap
    <3>6. Leave(c) /\ Rebase(c, doing[c]) /\ doing[c] # "none"
      BY <2>9 DEF Swap
    <3> QED BY <2>7, <2>8, <3>4, <3>5, <3>6
  <2>10. ASSUME NEW c \in Callers, GiveUp(c) PROVE TypeOK'
    BY <2>8, <2>10 DEF GiveUp, readerVars
  <2>11. ASSUME NEW c \in Callers, Interrupt(c) PROVE TypeOK'
    <3>1. CASE UNCHANGED readerVars
      BY <2>8, <2>11, <3>1 DEF Interrupt, readerVars
    <3>2. CASE Rebase(c, doing[c]) /\ missed' = missed \cup {doing[c]} /\ UNCHANGED told
      <4>1. missed' \subseteq Meters
        BY <2>11, <3>2 DEF Interrupt
      <4> QED BY <2>7, <2>8, <2>11, <3>2, <4>1 DEF Interrupt
    <3> QED BY <2>11, <3>1, <3>2 DEF Interrupt
  <2>12. CASE UNCHANGED vars
    BY <2>12 DEF vars, kernelVars, callVars, readerVars
  <2> QED BY <2>1, <2>2, <2>3, <2>4, <2>5, <2>6, <2>9, <2>10, <2>11, <2>12 DEF Next
<1> QED BY <1>1, <1>2, PTL DEF Spec


----------------------------------------------------------------------------
(* Nothing is told twice.                                                  *)

\* Whoever is inside of the reader holds the collector's lock.
LockHeld == \A c \in Callers : doing[c] # "none" => lock = c

Holds(c, m) == doing[c] = m /\ stage[c] \in {"clock", "swap"}

\* What the kernel counted covers what was told and what a swap may still
\* tell: between the baseline and now, between a call's reading and now, and
\* between the baseline and that reading.
Covered(m, s) ==
    /\ told[m][s] <= grown[m][s]
    /\ m \in based => told[m][s] + (counter[m][s] - previous[m].sum[s]) <= grown[m][s]
    /\ \A c \in Callers : Holds(c, m) =>
          /\ told[m][s] + (counter[m][s] - parsed[c].sum[s]) <= grown[m][s]
          /\ m \in based =>
                told[m][s] + (parsed[c].sum[s] - previous[m].sum[s]) <= grown[m][s]

OverInv == LockHeld /\ \A m \in Meters, s \in Sides : Covered(m, s)

LEMMA LockHeldPreserved ==
    ASSUME TypeOK, LockHeld, [Next]_vars
    PROVE  LockHeld'
<1> USE LinuxRatesAssumption DEF TypeOK, LockHeld
<1>1. ASSUME NEW c \in Callers, NEW m \in Meters, Enter(c, m) PROVE LockHeld'
  BY <1>1 DEF Enter, LockFree
<1>2. ASSUME NEW c \in Callers, Leave(c), doing[c] # "none" PROVE LockHeld'
  BY <1>2 DEF Leave
<1>3. CASE UNCHANGED <<lock, doing>>
  BY <1>3
<1> HIDE DEF TypeOK, LockHeld
<1> QED
  BY <1>1, <1>2, <1>3 DEF Next, Grow, Fall, Tick, Parse, ReadClock, Swap, GiveUp, Interrupt,
                          vars, callVars

\* What a swap changes, meter by meter.
LEMMA SwapFacts ==
    ASSUME TypeOK, NEW c \in Callers, Swap(c)
    PROVE  /\ doing[c] \in Meters /\ stage[c] = "swap" /\ UNCHANGED kernelVars
           /\ doing' = [doing EXCEPT ![c] = "none"]
           /\ \A m \in Meters :
                 /\ previous'[m] = IF m = doing[c] THEN parsed[c] ELSE previous[m]
                 /\ m # doing[c] => told'[m] = told[m]
                 /\ m \notin based => told'[m] = told[m]
                 /\ m = doing[c] /\ m \in based =>
                       \A s \in Sides :
                          told'[m][s] = told[m][s] + Gain(m, previous[m], parsed[c])[s]
           /\ based' = based \cup {doing[c]}
           /\ \A d \in Callers : d # c => parsed'[d] = parsed[d] /\ stage'[d] = stage[d]
<1>1. doing[c] \in Meters /\ stage[c] = "swap" /\ UNCHANGED kernelVars
  BY DEF Swap, Leave, TypeOK
<1>2. \A m \in Meters : previous'[m] = IF m = doing[c] THEN parsed[c] ELSE previous[m]
  BY <1>1 DEF Swap, Rebase, TypeOK
<1>3. ASSUME NEW m \in Meters PROVE (m # doing[c] \/ m \notin based) => told'[m] = told[m]
  BY <1>1 DEF Swap, TypeOK
<1>4. ASSUME NEW m \in Meters, m = doing[c], m \in based, NEW s \in Sides
      PROVE told'[m][s] = told[m][s] + Gain(m, previous[m], parsed[c])[s]
  <2> DEFINE G == Gain(m, previous[m], parsed[c])
  <2>1. told' = [told EXCEPT ![m] = Add(@, G)]
    BY <1>4 DEF Swap
  <2>2. told \in [Meters -> [Sides -> Nat]]
    BY DEF TypeOK
  <2> HIDE DEF G
  <2>3. told'[m] = Add(told[m], G)
    BY <2>1, <2>2
  <2> QED BY <2>3 DEF Add, G
<1>5. \A d \in Callers : d # c => parsed'[d] = parsed[d] /\ stage'[d] = stage[d]
  BY DEF Swap, Leave, TypeOK
<1> QED BY <1>1, <1>2, <1>3, <1>4, <1>5 DEF Swap, Leave, Rebase


\* The same of an interrupt that comes after the swap.
LEMMA RebaseFacts ==
    ASSUME TypeOK, NEW c \in Callers, doing[c] # "none", Rebase(c, doing[c])
    PROVE  /\ doing[c] \in Meters
           /\ \A m \in Meters :
                 /\ previous'[m] = IF m = doing[c] THEN parsed[c] ELSE previous[m]
                 /\ first'[m] = IF m = doing[c] /\ m \notin based THEN parsed[c] ELSE first[m]
           /\ based' = based \cup {doing[c]}
BY DEF Rebase, TypeOK

LEMMA LeaveFacts ==
    ASSUME TypeOK, NEW c \in Callers, Leave(c)
    PROVE  /\ UNCHANGED kernelVars
           /\ \A d \in Callers :
                 /\ d = c => doing'[d] = "none"
                 /\ d # c => doing'[d] = doing[d] /\ parsed'[d] = parsed[d] /\ stage'[d] = stage[d]
BY DEF Leave, TypeOK

LEMMA ReadClockFacts ==
    ASSUME TypeOK, NEW c \in Callers, ReadClock(c), NEW d \in Callers
    PROVE  /\ parsed'[d].sum = parsed[d].sum
           /\ stage'[c] = "swap" => parsed'[c].at = now
<1>1. parsed[d] \in Reading /\ parsed[c] \in Reading
  BY DEF TypeOK
<1>2. CASE parsed' = parsed /\ stage' = [stage EXCEPT ![c] = "failed"]
  BY <1>2 DEF TypeOK
<1>3. CASE parsed' = [parsed EXCEPT ![c].at = now]
  <2>1. parsed'[c] = [parsed[c] EXCEPT !.at = now] /\ (d # c => parsed'[d] = parsed[d])
    BY <1>3 DEF TypeOK
  <2>2. /\ [parsed[c] EXCEPT !.at = now].sum = parsed[c].sum
        /\ [parsed[c] EXCEPT !.at = now].at = now
    BY <1>1 DEF Reading
  <2> QED BY <2>1, <2>2
<1> QED BY <1>2, <1>3 DEF ReadClock

LEMMA CoveredPreserved ==
    ASSUME TypeOK, LockHeld, NEW m \in Meters, NEW s \in Sides, Covered(m, s), [Next]_vars
    PROVE  Covered(m, s)'
<1> DEFINE T == told[m][s]
           K == counter[m][s]
           W == grown[m][s]
           P == previous[m].sum[s]
           R(c) == parsed[c].sum[s]
<1>1. T \in Nat /\ K \in Nat /\ W \in Nat /\ P \in Nat /\ \A c \in Callers : R(c) \in Nat
  BY DEF TypeOK, Reading
<1>2. ASSUME NEW n \in Meters, NEW q \in Sides, Grow(n, q) PROVE Covered(m, s)'
  <2>1. \/ counter'[m][s] = K /\ grown'[m][s] = W
        \/ counter'[m][s] = K + 1 /\ grown'[m][s] = W + 1
    BY <1>2 DEF Grow, TypeOK
  <2>2. UNCHANGED <<told, previous, based, parsed, doing, stage>>
    BY <1>2 DEF Grow, callVars, readerVars
  <2> QED BY <1>1, <2>1, <2>2 DEF Covered, Holds
<1>3. ASSUME NEW n \in Meters, NEW q \in Sides, NEW k \in 1..(MaxGrowth + 1), Fall(n, q, k)
      PROVE  Covered(m, s)'
  <2>1. counter'[m][s] = K \/ counter'[m][s] = K - k
    BY <1>3 DEF Fall, TypeOK
  <2>2. UNCHANGED <<told, grown, previous, based, parsed, doing, stage>>
    BY <1>3 DEF Fall, callVars, readerVars
  <2>3. k \in Nat
    BY LinuxRatesAssumption
  <2> QED BY <1>1, <2>1, <2>2, <2>3 DEF Covered, Holds
<1>4. CASE Tick
  BY <1>4 DEF Tick, callVars, readerVars, Covered, Holds
<1>5. ASSUME NEW c \in Callers, NEW n \in Meters, Enter(c, n) PROVE Covered(m, s)'
  <2>1. \A d \in Callers : Holds(d, m)' => Holds(d, m)
    BY <1>5 DEF Enter, TypeOK, Holds
  <2> QED BY <1>5, <2>1 DEF Enter, kernelVars, readerVars, Covered
<1>6. ASSUME NEW c \in Callers, Parse(c) PROVE Covered(m, s)'
  <2>1. UNCHANGED <<told, grown, counter, previous, based>>
    BY <1>6 DEF Parse, kernelVars, readerVars
  <2>2. \A d \in Callers : Holds(d, m)' =>
           \/ Holds(d, m) /\ parsed'[d] = parsed[d]
           \/ parsed'[d].sum[s] = counter[m][s]
    BY <1>6 DEF Parse, TypeOK, Holds
  <2> QED BY <1>1, <2>1, <2>2 DEF Covered
<1>7. ASSUME NEW c \in Callers, ReadClock(c) PROVE Covered(m, s)'
  <2>1. UNCHANGED <<told, grown, counter, previous, based>>
    BY <1>7 DEF ReadClock, kernelVars, readerVars
  <2>2. \A d \in Callers : Holds(d, m)' => Holds(d, m) /\ parsed'[d].sum = parsed[d].sum
    <3>1. \A d \in Callers : parsed'[d].sum = parsed[d].sum
      BY <1>7, ReadClockFacts
    <3>2. \A d \in Callers : Holds(d, m)' => Holds(d, m)
      BY <1>7 DEF ReadClock, TypeOK, Holds
    <3> QED BY <3>1, <3>2
  <2> QED BY <2>1, <2>2 DEF Covered
<1>8. ASSUME NEW c \in Callers, Leave(c), doing[c] # "none", LockHeld PROVE \A d \in Callers : ~ Holds(d, m)'
  <2>1. \A d \in Callers : d # c => doing[d] = "none"
    BY <1>8 DEF LockHeld
  <2>2. "none" # m
    BY LinuxRatesAssumption
  <2>3. \A d \in Callers : doing'[d] = "none"
    BY <1>8, <2>1, LeaveFacts
  <2> QED BY <2>2, <2>3 DEF Holds
<1>9. ASSUME NEW c \in Callers, Swap(c) PROVE Covered(m, s)'
  <2>1. /\ Leave(c) /\ doing[c] # "none"
        /\ UNCHANGED kernelVars
    BY <1>9, SwapFacts DEF Swap
  <2>2. \A d \in Callers : ~ Holds(d, m)'
    BY <1>8, <2>1
  <2>3. CASE m # doing[c]
    <3>1. told'[m] = told[m] /\ previous'[m] = previous[m] /\ (m \in based' => m \in based)
      BY <1>9, <2>3, SwapFacts
    <3> QED BY <2>1, <2>2, <3>1 DEF Covered, kernelVars
  <2>4. CASE m = doing[c] /\ m \notin based
    <3>1. told'[m] = told[m] /\ previous'[m] = parsed[c] /\ Holds(c, m)
      BY <1>9, <2>4, SwapFacts DEF Holds
    <3> QED BY <2>1, <2>2, <3>1 DEF Covered, kernelVars
  <2>5. CASE m = doing[c] /\ m \in based
    <3> DEFINE G == Gain(m, previous[m], parsed[c])[s]
    <3>1. told'[m][s] = T + G /\ previous'[m] = parsed[c] /\ Holds(c, m)
      BY <1>9, <2>5, SwapFacts DEF Holds
    <3>2. G \in Nat /\ G \in {0, R(c) - P}
      BY GainFacts DEF TypeOK
    <3>3. /\ T <= W /\ T + (K - P) <= W /\ T + (K - R(c)) <= W /\ T + (R(c) - P) <= W
      BY <2>5, <3>1 DEF Covered
    <3>4. /\ T + G <= W /\ T + G + (K - R(c)) <= W
      <4> HIDE DEF G, T, K, W, P, R
      <4> QED BY <1>1, <3>2, <3>3
    <3> QED BY <2>1, <2>2, <3>1, <3>4 DEF Covered, kernelVars
  <2> QED BY <2>3, <2>4, <2>5
<1>10. ASSUME NEW c \in Callers, GiveUp(c) PROVE Covered(m, s)'
  <2>1. \A d \in Callers : ~ Holds(d, m)'
    BY <1>8, <1>10 DEF GiveUp
  <2> QED BY <1>10, <2>1, LeaveFacts DEF GiveUp, readerVars, kernelVars, Covered
<1>11. ASSUME NEW c \in Callers, Interrupt(c) PROVE Covered(m, s)'
  <2>1. /\ \A d \in Callers : ~ Holds(d, m)'
        /\ UNCHANGED <<kernelVars, told>>
    BY <1>8, <1>11, LeaveFacts DEF Interrupt, readerVars
  <2>2. CASE UNCHANGED readerVars
    BY <2>1, <2>2 DEF readerVars, kernelVars, Covered
  <2>3. CASE stage[c] = "swap" /\ Rebase(c, doing[c])
    <3>1. \/ previous'[m] = previous[m] /\ (m \in based' => m \in based)
          \/ previous'[m] = parsed[c] /\ Holds(c, m)
      BY <1>11, <2>3, RebaseFacts DEF Interrupt, Holds
    <3> QED BY <2>1, <3>1 DEF kernelVars, Covered
  <2> QED BY <1>11, <2>2, <2>3 DEF Interrupt
<1>12. CASE UNCHANGED vars
  BY <1>12 DEF vars, kernelVars, callVars, readerVars, Covered, Holds
<1> QED
  BY <1>2, <1>3, <1>4, <1>5, <1>6, <1>7, <1>9, <1>10, <1>11, <1>12 DEF Next

\* Nothing is counted twice, for any number of callers of either meter.
THEOREM NeverTwice == Spec => []NeverOverstates
<1>1. Init => OverInv
  <2> SUFFICES ASSUME Init PROVE OverInv
    OBVIOUS
  <2>1. LockHeld
    BY DEF Init, LockHeld
  <2>2. \A m \in Meters, s \in Sides : Covered(m, s)
    BY DEF Init, Covered, Holds, Zero
  <2> QED BY <2>1, <2>2 DEF OverInv
<1>2. TypeOK /\ OverInv /\ [Next]_vars => OverInv'
  BY LockHeldPreserved, CoveredPreserved DEF OverInv
<1>3. OverInv => NeverOverstates
  BY DEF OverInv, Covered, NeverOverstates
<1> QED BY <1>1, <1>2, <1>3, TypeCorrect, PTL DEF Spec


----------------------------------------------------------------------------
(* Nothing is lost, and no rate is negative or over no time.               *)

\* Between readings that did not fall, of different times for the disk, an
\* answer tells the whole growth.
LEMMA GainWhole ==
    ASSUME NEW m, NEW old \in Reading, NEW new \in Reading, NEW s \in Sides,
           m = "cpu" => \A q \in Sides : new.sum[q] >= old.sum[q],
           m # "cpu" => new.sum[s] >= old.sum[s] /\ new.at > old.at
    PROVE  Gain(m, old, new)[s] = new.sum[s] - old.sum[s]
<1> DEFINE up == {q \in Sides : new.sum[q] >= old.sum[q]}
           T == ToldSides(m, old, new)
<1>1. new.sum[s] \in Nat /\ old.sum[s] \in Nat
  BY DEF Reading
<1>2. CASE s \in T
  BY <1>2, GainFacts
<1>3. CASE s \notin T
  <2>1. m = "cpu"
    <3>1. m # "cpu" => s \in T
      <4>1. s \in up
        OBVIOUS
      <4> QED BY <4>1, Zenon DEF ToldSides
    <3> QED BY <1>3, <3>1
  <2>2. up = Sides
    BY <2>1
  <2>3. new.sum = old.sum
    BY <1>3, <2>1, <2>2, Zenon DEF ToldSides
  <2>4. Gain(m, old, new)[s] = 0
    BY <1>3 DEF Gain
  <2> QED BY <1>1, <2>3, <2>4
<1> QED BY <1>2, <1>3

\* Readings lie behind each other: of a sum that never fell, the baseline is
\* behind a call's reading and both are behind the counter.  The disk's are
\* taken in the order of time, too.
Ordered(m, s) ==
    /\ falls[m][s] = 0 =>
          /\ m \in based => previous[m].sum[s] <= counter[m][s]
          /\ \A c \in Callers : Holds(c, m) =>
                /\ parsed[c].sum[s] <= counter[m][s]
                /\ m \in based => previous[m].sum[s] <= parsed[c].sum[s]
    /\ m = "disk" =>
          /\ previous[m].at <= now
          /\ \A c \in Callers : (doing[c] = m /\ stage[c] = "swap") =>
                parsed[c].at <= now /\ previous[m].at <= parsed[c].at

LEMMA OrderedPreserved ==
    ASSUME TypeOK, LockHeld, NEW m \in Meters, NEW s \in Sides, Ordered(m, s), [Next]_vars
    PROVE  Ordered(m, s)'
<1> DEFINE K == counter[m][s]
           F == falls[m][s]
           P == previous[m]
<1>1. /\ K \in Nat /\ F \in Nat /\ P.sum[s] \in Nat /\ P.at \in Nat \cup {-1} /\ now \in Nat
      /\ \A c \in Callers : parsed[c].sum[s] \in Nat /\ parsed[c].at \in Nat \cup {-1}
  BY DEF TypeOK, Reading
<1>2. ASSUME NEW n \in Meters, NEW q \in Sides, Grow(n, q) PROVE Ordered(m, s)'
  <2>1. counter'[m][s] = K \/ counter'[m][s] = K + 1
    BY <1>2 DEF Grow, TypeOK
  <2>2. UNCHANGED <<falls, now, previous, based, parsed, doing, stage>>
    BY <1>2 DEF Grow, callVars, readerVars
  <2> QED BY <1>1, <2>1, <2>2 DEF Ordered, Holds
<1>3. ASSUME NEW n \in Meters, NEW q \in Sides, NEW k \in 1..(MaxGrowth + 1), Fall(n, q, k)
      PROVE  Ordered(m, s)'
  <2>1. \/ falls'[m][s] = F + 1
        \/ falls'[m][s] = F /\ counter'[m][s] = K
    BY <1>3 DEF Fall, TypeOK
  <2>2. UNCHANGED <<now, previous, based, parsed, doing, stage>>
    BY <1>3 DEF Fall, callVars, readerVars
  <2> QED BY <1>1, <2>1, <2>2 DEF Ordered, Holds
<1>4. CASE Tick
  <2>1. now' = now + 1 /\ UNCHANGED <<falls, counter, previous, based, parsed, doing, stage>>
    BY <1>4 DEF Tick, callVars, readerVars
  <2> QED BY <1>1, <2>1 DEF Ordered, Holds
<1>5. ASSUME NEW c \in Callers, NEW n \in Meters, Enter(c, n) PROVE Ordered(m, s)'
  <2>1. \A d \in Callers : (Holds(d, m)' => Holds(d, m)) /\ (stage'[d] = "swap" => stage[d] = "swap")
    BY <1>5 DEF Enter, TypeOK, Holds
  <2>2. \A d \in Callers : doing'[d] = m /\ stage'[d] = "swap" => doing[d] = m /\ stage[d] = "swap"
    BY <1>5 DEF Enter, TypeOK
  <2> QED BY <1>5, <2>1, <2>2 DEF Enter, kernelVars, readerVars, Ordered
<1>6. ASSUME NEW c \in Callers, Parse(c) PROVE Ordered(m, s)'
  <2>1. UNCHANGED <<falls, counter, now, previous, based>>
    BY <1>6 DEF Parse, kernelVars, readerVars
  <2>2. \A d \in Callers : Holds(d, m)' =>
           \/ Holds(d, m) /\ parsed'[d] = parsed[d]
           \/ parsed'[d].sum[s] = counter[m][s]
    BY <1>6 DEF Parse, TypeOK, Holds
  <2>3. \A d \in Callers : (m = "disk" /\ doing'[d] = m /\ stage'[d] = "swap") =>
           doing[d] = m /\ stage[d] = "swap" /\ parsed'[d] = parsed[d]
    BY <1>6 DEF Parse, TypeOK
  <2> QED BY <1>1, <2>1, <2>2, <2>3 DEF Ordered
<1>7. ASSUME NEW c \in Callers, ReadClock(c) PROVE Ordered(m, s)'
  <2>1. UNCHANGED <<falls, counter, now, previous, based>>
    BY <1>7 DEF ReadClock, kernelVars, readerVars
  <2>2. \A d \in Callers : Holds(d, m)' => Holds(d, m) /\ parsed'[d].sum = parsed[d].sum
    <3>1. \A d \in Callers : parsed'[d].sum = parsed[d].sum
      BY <1>7, ReadClockFacts
    <3>2. \A d \in Callers : Holds(d, m)' => Holds(d, m)
      BY <1>7 DEF ReadClock, TypeOK, Holds
    <3> QED BY <3>1, <3>2
  <2>3. \A d \in Callers : (doing'[d] = m /\ stage'[d] = "swap") =>
           \/ doing[d] = m /\ stage[d] = "swap" /\ parsed'[d] = parsed[d]
           \/ parsed'[d].at = now
    <3>1. stage'[c] = "swap" => parsed'[c].at = now
      BY <1>7, ReadClockFacts
    <3>2. \A d \in Callers : d # c =>
             doing'[d] = doing[d] /\ stage'[d] = stage[d] /\ parsed'[d] = parsed[d]
      BY <1>7 DEF ReadClock, TypeOK
    <3> QED BY <3>1, <3>2
  <2> QED BY <1>1, <2>1, <2>2, <2>3 DEF Ordered
<1>8. ASSUME NEW c \in Callers, Leave(c), doing[c] # "none"
      PROVE  /\ \A d \in Callers : doing'[d] # m
             /\ UNCHANGED kernelVars
  <2>1. \A d \in Callers : d # c => doing[d] = "none"
    BY <1>8 DEF LockHeld
  <2>2. "none" # m
    BY LinuxRatesAssumption
  <2>3. \A d \in Callers : doing'[d] = "none"
    BY <1>8, <2>1, LeaveFacts
  <2> QED BY <1>8, <2>2, <2>3, LeaveFacts
<1>9. ASSUME NEW c \in Callers, Leave(c), doing[c] # "none", stage[c] = "swap", Rebase(c, doing[c])
      PROVE  Ordered(m, s)'
  <2>1. (\A d \in Callers : doing'[d] # m) /\ UNCHANGED kernelVars
    BY <1>8, <1>9
  <2>2. \/ previous'[m] = previous[m] /\ (m \in based' => m \in based)
        \/ previous'[m] = parsed[c] /\ doing[c] = m
    BY <1>9, RebaseFacts
  <2>3. m = "disk" /\ doing[c] = m => parsed[c].at <= now
    BY <1>9 DEF Ordered
  <2> QED BY <1>1, <1>9, <2>1, <2>2, <2>3 DEF Ordered, Holds, kernelVars
<1>10. ASSUME NEW c \in Callers, Leave(c), doing[c] # "none", UNCHANGED readerVars
       PROVE  Ordered(m, s)'
  <2>1. (\A d \in Callers : doing'[d] # m) /\ UNCHANGED kernelVars
    BY <1>8, <1>10
  <2> QED BY <1>10, <2>1 DEF Ordered, Holds, kernelVars, readerVars
<1>11. CASE UNCHANGED vars
  BY <1>11 DEF vars, kernelVars, callVars, readerVars, Ordered, Holds
<1>12. ASSUME NEW c \in Callers, Swap(c) \/ GiveUp(c) \/ Interrupt(c) PROVE Ordered(m, s)'
  BY <1>9, <1>10, <1>12 DEF Swap, GiveUp, Interrupt
<1> QED BY <1>2, <1>3, <1>4, <1>5, <1>6, <1>7, <1>11, <1>12 DEF Next


\* As long as a meter lost nothing, its answers add up to what lies between
\* the first baseline and the last; before the first it told nothing.
Kept(m, s) ==
    /\ m \notin based => told[m][s] = 0
    /\ m \in based \ missed /\ Steady(m, s) =>
          told[m][s] = previous[m].sum[s] - first[m].sum[s]

ExactInv == LockHeld /\ \A m \in Meters, s \in Sides : Ordered(m, s) /\ Kept(m, s)

LEMMA KeptPreserved ==
    ASSUME TypeOK, ExactInv, NEW m \in Meters, NEW s \in Sides, [Next]_vars
    PROVE  Kept(m, s)'
<1>1. Kept(m, s)
  BY DEF ExactInv
<1>2. CASE UNCHANGED <<falls, readerVars>>
  BY <1>1, <1>2 DEF Kept, Steady, readerVars
<1>3. ASSUME NEW n \in Meters, NEW q \in Sides, NEW k \in 1..(MaxGrowth + 1), Fall(n, q, k)
      PROVE  Kept(m, s)'
  <2>1. UNCHANGED readerVars
    BY <1>3 DEF Fall
  <2>2. Steady(m, s)' => Steady(m, s)
    <3>1. CASE m # n
      <4>1. falls'[m] = falls[m]
        BY <1>3, <3>1 DEF Fall, TypeOK
      <4> QED BY <4>1 DEF Steady
    <3>2. CASE m = n
      <4>1. falls'[m][q] = falls[m][q] + 1 /\ (s # q => falls'[m][s] = falls[m][s])
        BY <1>3, <3>2 DEF Fall, TypeOK
      <4>2. falls[m][q] \in Nat
        BY <3>2 DEF TypeOK
      <4>3. falls'[m] # Zero
        BY <4>1, <4>2 DEF Zero
      <4> QED BY <4>1, <4>2, <4>3 DEF Steady
    <3> QED BY <3>1, <3>2
  <2> QED BY <1>1, <2>1, <2>2 DEF Kept, readerVars
<1>4. ASSUME NEW c \in Callers, Swap(c) PROVE Kept(m, s)'
  <2>1. falls' = falls /\ (Steady(m, s)' <=> Steady(m, s))
    BY <1>4, SwapFacts DEF kernelVars, Steady
  <2>2. /\ previous'[m] = IF m = doing[c] THEN parsed[c] ELSE previous[m]
        /\ first'[m] = IF m = doing[c] /\ m \notin based THEN parsed[c] ELSE first[m]
        /\ based' = based \cup {doing[c]}
    BY <1>4, RebaseFacts DEF Swap
  <2>3. m \in missed => m \in missed'
    BY <1>4 DEF Swap
  <2>4. CASE m # doing[c]
    BY <1>1, <1>4, <2>1, <2>2, <2>3, <2>4, SwapFacts DEF Kept
  <2>5. CASE m = doing[c] /\ m \notin based
    <3>1. told'[m][s] = 0 /\ parsed[c].sum[s] \in Nat
      BY <1>1, <1>4, <2>5, SwapFacts DEF Kept, TypeOK, Reading
    <3> QED BY <2>2, <2>5, <3>1 DEF Kept
  <2>6. CASE m = doing[c] /\ m \in based
    <3> SUFFICES ASSUME m \notin missed', Steady(m, s)
        PROVE told'[m][s] = previous'[m].sum[s] - first'[m].sum[s]
      BY <2>1, <2>2, <2>6 DEF Kept
    <3>1. previous[m] \in Reading /\ parsed[c] \in Reading /\ first[m] \in Reading
      BY DEF TypeOK
    <3>2. Holds(c, m)
      BY <1>4, <2>6, SwapFacts DEF Holds
    <3>3. \A q \in Sides : falls[m][q] = 0 => previous[m].sum[q] <= parsed[c].sum[q]
      BY <2>6, <3>2 DEF ExactInv, Ordered
    <3>4. CASE m = "cpu"
      <4>1. \A q \in Sides : falls[m][q] = 0
        BY <3>4 DEF Steady, Zero
      <4>2. \A q \in Sides : parsed[c].sum[q] >= previous[m].sum[q]
        BY <3>1, <3>3, <4>1 DEF Reading
      <4> QED BY <1>1, <1>4, <2>2, <2>3, <2>6, <3>1, <3>4, <4>2, GainWhole, SwapFacts
              DEF Kept, Reading
    <3>5. CASE m # "cpu"
      <4>1. m = "disk"
        BY <3>5, LinuxRatesAssumption
      <4>2. parsed[c].sum[s] >= previous[m].sum[s]
        BY <3>1, <3>3, <3>5 DEF Steady, Reading
      <4>3. previous[m].at <= parsed[c].at /\ parsed[c].at # previous[m].at
        BY <1>4, <2>6, <4>1 DEF ExactInv, Ordered, Swap
      <4>4. parsed[c].at > previous[m].at
        BY <3>1, <4>3 DEF Reading
      <4> QED BY <1>1, <1>4, <2>2, <2>3, <2>6, <3>1, <3>5, <4>2, <4>4, GainWhole, SwapFacts
              DEF Kept, Reading
    <3> QED BY <3>4, <3>5
  <2> QED BY <2>4, <2>5, <2>6
<1>5. ASSUME NEW c \in Callers, Interrupt(c) PROVE Kept(m, s)'
  <2>1. UNCHANGED falls
    BY <1>5, LeaveFacts DEF Interrupt, kernelVars
  <2>2. CASE UNCHANGED readerVars
    BY <1>2, <2>1, <2>2
  <2>3. CASE Rebase(c, doing[c]) /\ missed' = missed \cup {doing[c]} /\ UNCHANGED told
    <3>1. /\ previous'[m] = IF m = doing[c] THEN parsed[c] ELSE previous[m]
          /\ first'[m] = IF m = doing[c] /\ m \notin based THEN parsed[c] ELSE first[m]
          /\ based' = based \cup {doing[c]}
      BY <1>5, <2>3, RebaseFacts DEF Interrupt
    <3> QED BY <1>1, <2>1, <2>3, <3>1 DEF Kept, Steady
  <2> QED BY <1>5, <2>2, <2>3 DEF Interrupt
<1>6. ASSUME [Next]_vars,
             ~ \E n \in Meters, q \in Sides : \E k \in 1..(MaxGrowth + 1) : Fall(n, q, k),
             ~ \E c \in Callers : Swap(c) \/ Interrupt(c)
      PROVE  UNCHANGED <<falls, readerVars>>
  <2>1. ASSUME NEW c \in Callers, GiveUp(c) PROVE UNCHANGED <<falls, readerVars>>
    BY <2>1, LeaveFacts DEF GiveUp, kernelVars
  <2> QED
    BY <1>6, <2>1 DEF Next, Grow, Tick, Enter, Parse, ReadClock, vars, kernelVars, readerVars
<1> QED BY <1>2, <1>3, <1>4, <1>5, <1>6

\* Across every failed read and every caller, the answers of a meter that
\* never fell and was not interrupted are exact.
THEOREM NeverLost == Spec => []NothingIsLost
<1>1. Init => ExactInv
  <2> SUFFICES ASSUME Init PROVE ExactInv
    OBVIOUS
  <2>1. LockHeld
    BY DEF Init, LockHeld
  <2>2. ASSUME NEW m \in Meters, NEW s \in Sides PROVE Ordered(m, s) /\ Kept(m, s)
    BY DEF Init, Ordered, Kept, Holds, Zero, NoReading
  <2> QED BY <2>1, <2>2 DEF ExactInv
<1>2. TypeOK /\ ExactInv /\ [Next]_vars => ExactInv'
  <2> SUFFICES ASSUME TypeOK, ExactInv, [Next]_vars PROVE ExactInv'
    OBVIOUS
  <2>1. LockHeld'
    BY LockHeldPreserved DEF ExactInv
  <2>2. ASSUME NEW m \in Meters, NEW s \in Sides PROVE (Ordered(m, s) /\ Kept(m, s))'
    BY KeptPreserved, OrderedPreserved DEF ExactInv
  <2> QED BY <2>1, <2>2 DEF ExactInv
<1>3. TypeOK /\ ExactInv => NothingIsLost
  BY DEF ExactInv, Kept, NothingIsLost, TypeOK
<1> QED BY <1>1, <1>2, <1>3, TypeCorrect, PTL DEF Spec

\* No utilisation or throughput is negative, and no throughput is over no
\* time.
THEOREM SoundRates == Spec => RatesAreSound
<1> DEFINE A == \A m \in Meters, s \in Sides :
                   /\ told'[m][s] >= told[m][s]
                   /\ (m = "disk" /\ told'[m][s] # told[m][s]) => previous'[m].at > previous[m].at
<1>1. TypeOK /\ [Next]_vars => [A]_vars
  <2> SUFFICES ASSUME TypeOK, [Next]_vars, NEW m \in Meters, NEW s \in Sides
      PROVE /\ told'[m][s] >= told[m][s]
            /\ (m = "disk" /\ told'[m][s] # told[m][s]) => previous'[m].at > previous[m].at
    OBVIOUS
  <2>1. told[m][s] \in Nat
    BY DEF TypeOK
  <2>2. CASE UNCHANGED told
    BY <2>1, <2>2
  <2>3. ASSUME NEW c \in Callers, Swap(c), told'[m] # told[m]
        PROVE /\ told'[m][s] >= told[m][s]
              /\ (m = "disk" /\ told'[m][s] # told[m][s]) => previous'[m].at > previous[m].at
    <3> DEFINE G == Gain(m, previous[m], parsed[c])[s]
    <3>1. /\ told'[m][s] = told[m][s] + G
          /\ previous'[m] = parsed[c]
      BY <2>3, SwapFacts
    <3>2. G \in Nat /\ (m # "cpu" /\ G # 0 => parsed[c].at > previous[m].at)
      BY GainFacts DEF TypeOK
    <3> HIDE DEF G
    <3> QED BY <2>1, <3>1, <3>2
  <2>4. ASSUME NEW c \in Callers, Interrupt(c) PROVE UNCHANGED told
    BY <2>4 DEF Interrupt, readerVars
  <2> QED
    BY <2>1, <2>2, <2>3, <2>4 DEF Next, Grow, Fall, Tick, Enter, Parse, ReadClock, GiveUp,
                                  vars, readerVars
<1> QED BY <1>1, TypeCorrect, PTL DEF Spec, RatesAreSound

-----------------------------------------------------------------------------
(***************************************************************************)
(* Where a call is.  A search starts with no kept path; what was readable  *)
(* all through the call is in its tree still to be read, or was found; and *)
(* the hwmon tree is reached only when no thermal zone was.                *)
(***************************************************************************)
Trees == [thermal |-> Thermal, hwmon |-> Hwmon]

Placed ==
    /\ readable \subseteq Files /\ steady \subseteq readable
    /\ cached \in Files \cup {None} /\ answer \in Files \cup {None}
    /\ scan \in {"idle", "cached", "thermal", "hwmon"}
    /\ dropped \in BOOLEAN

Searching ==
    /\ scan = "cached" => cached # None
    /\ scan \in {"thermal", "hwmon"} =>
          /\ cached = None
          /\ unread \subseteq Trees[scan] /\ found \subseteq Trees[scan]
          /\ steady \cap Trees[scan] \subseteq unread \cup found
    /\ scan = "hwmon" => steady \cap Thermal = {}

\* The last answer came from the path that is kept, until a call drops it.
KeptPath == answer \in Files => answer = cached \/ (dropped /\ scan \in {"thermal", "hwmon"})

SensorInv == Placed /\ Searching /\ KeptPath

LEMMA TreeFacts ==
    /\ Trees["thermal"] = Thermal /\ Trees["hwmon"] = Hwmon
    /\ Thermal \subseteq Files /\ Hwmon \subseteq Files
BY DEF Trees, Files

\* What a search ends with.
LEMMA BestFacts ==
    ASSUME NEW F, NEW f \in Best(F)
    PROVE  f \in F /\ (F \cap Preferred # {} => f \in Preferred)
BY DEF Best

LEMMA EndThermalFacts ==
    ASSUME SensorInv, EndThermal
    PROVE  /\ scan = "thermal" /\ cached = None /\ steady \cap Thermal \subseteq found
           /\ found \subseteq Thermal /\ UNCHANGED <<readable, steady, dropped>>
           /\ \/ /\ found = {} /\ scan' = "hwmon" /\ unread' = Hwmon /\ found' = {}
                 /\ UNCHANGED <<cached, answer>>
              \/ \E f \in Best(found) : answer' = f /\ cached' = f /\ scan' = "idle"
BY TreeFacts DEF EndThermal, Search, Answer, SensorInv, Searching

LEMMA EndHwmonFacts ==
    ASSUME SensorInv, EndHwmon
    PROVE  /\ scan = "hwmon" /\ cached = None /\ steady \cap Hwmon \subseteq found
           /\ steady \cap Thermal = {}
           /\ found \subseteq Hwmon /\ UNCHANGED <<readable, steady, dropped>> /\ scan' = "idle"
           /\ \/ found = {} /\ answer' = None /\ UNCHANGED cached
              \/ \E f \in Best(found) : answer' = f /\ cached' = f
BY TreeFacts DEF EndHwmon, Answer, SensorInv, Searching

LEMMA ReadCachedFacts ==
    ASSUME SensorInv, ReadCached
    PROVE  /\ scan = "cached" /\ cached \in Files /\ UNCHANGED <<readable, steady>>
           /\ \/ /\ answer' = cached /\ scan' = "idle" /\ UNCHANGED <<cached, dropped>>
              \/ /\ cached' = None /\ dropped' /\ UNCHANGED answer
                 /\ scan' = "thermal" /\ unread' = Thermal /\ found' = {}
BY DEF ReadCached, Answer, Search, SensorInv, Placed, Searching

LEMMA SensorInvInit == SensorInit => SensorInv
BY LinuxTemperatureAssumption DEF SensorInit, SensorInv, Placed, Searching, KeptPath

LEMMA SensorInvStep == SensorInv /\ [SensorNext]_sensorVars => SensorInv'
<1> SUFFICES ASSUME SensorInv, [SensorNext]_sensorVars PROVE SensorInv'
  OBVIOUS
<1> USE LinuxTemperatureAssumption, TreeFacts
<1>1. ASSUME NEW f \in Files, Change(f) PROVE SensorInv'
  BY <1>1 DEF Change, search, SensorInv, Placed, Searching, KeptPath
<1>2. ASSUME NEW f \in Files, Visit(f) PROVE SensorInv'
  <2>1. /\ scan \in {"thermal", "hwmon"} /\ f \in unread /\ unread' = unread \ {f}
        /\ found' = IF f \in readable THEN found \cup {f} ELSE found
        /\ UNCHANGED <<readable, cached, scan, answer, steady, dropped>>
    BY <1>2 DEF Visit
  <2>2. Placed' /\ KeptPath'
    BY <2>1 DEF SensorInv, Placed, KeptPath
  <2>3. Searching'
    BY <2>1 DEF SensorInv, Placed, Searching
  <2> QED BY <2>2, <2>3 DEF SensorInv
<1>3. CASE Call
  <2>1. CASE cached = None
    BY <1>3, <2>1 DEF Call, Search, SensorInv, Placed, Searching, KeptPath
  <2>2. CASE cached # None
    BY <1>3, <2>2 DEF Call, search, SensorInv, Placed, Searching, KeptPath
  <2> QED BY <2>1, <2>2
<1>4. CASE ReadCached
  BY <1>4, ReadCachedFacts DEF SensorInv, Placed, Searching, KeptPath
<1>5. CASE EndThermal
  BY <1>5, EndThermalFacts, BestFacts DEF SensorInv, Placed, Searching, KeptPath
<1>6. CASE EndHwmon
  <2>1. UNCHANGED <<readable, steady, dropped>> /\ scan' = "idle" /\ cached = None
    BY <1>6, EndHwmonFacts
  <2>2. CASE answer' = None /\ UNCHANGED cached
    BY <2>1, <2>2 DEF SensorInv, Placed, Searching, KeptPath
  <2>3. CASE \E f \in Files : answer' = f /\ cached' = f
    BY <2>1, <2>3 DEF SensorInv, Placed, Searching, KeptPath
  <2>4. ASSUME NEW f \in Best(found) PROVE f \in Files
    BY <1>6, EndHwmonFacts, BestFacts
  <2> QED BY <1>6, <2>2, <2>3, <2>4, EndHwmonFacts
<1>7. CASE UNCHANGED sensorVars
  BY <1>7 DEF sensorVars, search, SensorInv, Placed, Searching, KeptPath
<1> QED BY <1>1, <1>2, <1>3, <1>4, <1>5, <1>6, <1>7 DEF SensorNext

LEMMA SensorAlways == SensorSpec => []SensorInv
BY SensorInvInit, SensorInvStep, PTL DEF SensorSpec

\* The steps that end a call.
LEMMA EndOfCall ==
    ASSUME SensorInv, [SensorNext]_sensorVars, scan # "idle", scan' = "idle"
    PROVE  \/ ReadCached /\ answer' = cached
           \/ EndThermal /\ found # {}
           \/ EndHwmon
<1>1. ASSUME NEW f \in Files, Change(f) \/ Visit(f) PROVE FALSE
  BY <1>1 DEF Change, Visit
<1>2. ~ Call
  BY DEF Call
<1>3. ~ UNCHANGED sensorVars
  BY DEF sensorVars
<1>4. ReadCached => answer' = cached
  BY ReadCachedFacts
<1>5. EndThermal => found # {}
  BY EndThermalFacts, BestFacts
<1> QED BY <1>1, <1>2, <1>3, <1>4, <1>5 DEF SensorNext

\* A call answers None only when nothing was readable all through it.
THEOREM NoVainAnswer == SensorSpec => AnswersWhenItCan
<1>1. SensorInv /\ [SensorNext]_sensorVars =>
        [(scan # "idle" /\ scan' = "idle" /\ answer' = None) => steady = {}]_sensorVars
  <2> SUFFICES ASSUME SensorInv, [SensorNext]_sensorVars,
                      scan # "idle", scan' = "idle", answer' = None
               PROVE  steady = {}
    OBVIOUS
  <2>1. ~ (EndThermal /\ found # {})
    BY EndThermalFacts, BestFacts, TreeFacts, LinuxTemperatureAssumption
  <2>2. EndHwmon
    BY <2>1, EndOfCall, ReadCachedFacts, LinuxTemperatureAssumption
  <2>3. found = {}
    BY <2>2, EndHwmonFacts, BestFacts, TreeFacts, LinuxTemperatureAssumption
  <2> QED BY <2>2, <2>3, EndHwmonFacts DEF SensorInv, Placed, Files
<1> QED BY <1>1, SensorAlways, PTL DEF SensorSpec, AnswersWhenItCan

\* The source of the temperature changes only in a call that found it unreadable.
THEOREM OneSource == SensorSpec => SourceIsSticky
<1>1. SensorInv /\ [SensorNext]_sensorVars =>
        [(scan # "idle" /\ scan' = "idle" /\ {answer, answer'} \subseteq Files)
           => answer' = answer \/ dropped']_sensorVars
  <2> SUFFICES ASSUME SensorInv, [SensorNext]_sensorVars,
                      scan # "idle", scan' = "idle", answer \in Files, answer' # answer
               PROVE  dropped'
    OBVIOUS
  <2>1. CASE ReadCached /\ answer' = cached
    BY <2>1, ReadCachedFacts DEF SensorInv, KeptPath
  <2>2. CASE EndThermal \/ EndHwmon
    <3>1. cached = None /\ dropped' = dropped
      BY <2>2, EndThermalFacts, EndHwmonFacts
    <3> QED BY <3>1, LinuxTemperatureAssumption DEF SensorInv, KeptPath
  <2> QED BY <2>1, <2>2, EndOfCall
<1> QED BY <1>1, SensorAlways, PTL DEF SensorSpec, SourceIsSticky

\* A new source is a thermal zone, a preferred one, if the call could find one.
THEOREM ThermalFirst == SensorSpec => SearchPrefersThermal
<1>1. SensorInv /\ [SensorNext]_sensorVars =>
        [(cached = None /\ cached' \in Files) =>
            /\ steady \cap Thermal # {} => cached' \in Thermal
            /\ steady \cap Thermal \cap Preferred # {} => cached' \in Preferred]_sensorVars
  <2> SUFFICES ASSUME SensorInv, [SensorNext]_sensorVars, cached = None, cached' \in Files
               PROVE  /\ steady \cap Thermal # {} => cached' \in Thermal
                      /\ steady \cap Thermal \cap Preferred # {} => cached' \in Preferred
    OBVIOUS
  <2>1. CASE EndThermal
    <3>1. PICK f \in Best(found) : cached' = f
      BY <2>1, EndThermalFacts, LinuxTemperatureAssumption
    <3>2. steady \cap Thermal \subseteq found /\ found \subseteq Thermal
      BY <2>1, EndThermalFacts
    <3> QED BY <3>1, <3>2, BestFacts
  <2>2. CASE EndHwmon
    BY <2>2, EndHwmonFacts
  <2>3. cached' # cached
    BY LinuxTemperatureAssumption
  <2>4. ASSUME NEW f \in Files, Change(f) \/ Visit(f) PROVE FALSE
    BY <2>3, <2>4 DEF Change, Visit
  <2>5. ~ Call /\ ~ UNCHANGED sensorVars
    BY <2>3 DEF Call, sensorVars
  <2>6. ~ ReadCached
    BY ReadCachedFacts, LinuxTemperatureAssumption
  <2> QED BY <2>1, <2>2, <2>4, <2>5, <2>6 DEF SensorNext
<1> QED BY <1>1, SensorAlways, PTL DEF SensorSpec, SearchPrefersThermal
=============================================================================
