------------------------- MODULE SamplerTimedProofs -------------------------
(***************************************************************************)
(* Proofs about the clock of the sampler, for every interval, any delays   *)
(* and any number of restarts.  What is proved about Sampler holds of the  *)
(* timed sampler too, because every timed step is one of Sampler's steps   *)
(* or leaves its variables alone.                                          *)
(***************************************************************************)
EXTENDS SamplerTimed, SamplerProofs

\* Every reading is of one clock: the injected one never fails, or it counts
\* from the same origin as time.monotonic(), which is the default.
OneClock == ClockFaults => Skew = 0

LEMMA TimedIsUntimed ==
  ASSUME [TimedNext]_timedVars
  PROVE  [Next]_vars
  <1>1. ASSUME NEW w \in Workers,
               \/ TimedBegin(w) \/ TimedTest(w) \/ TimedCollect(w) \/ TimedPublish(w)
               \/ TimedCallbackReturns(w) \/ TimedIntervalElapses(w)
        PROVE  Next
    BY <1>1 DEF TimedBegin, TimedTest, TimedCollect, TimedPublish, TimedCallbackReturns,
                TimedIntervalElapses, Next, WorkerStep, WorkerProgress
  <1>2. ASSUME NEW w \in Workers, Untimed(w) PROVE Next
    BY <1>2 DEF Untimed, Next, WorkerStep, WorkerProgress
  <1>3. CASE UNCHANGED vars
    BY <1>3
  <1>4. Tick \/ AgeRead \/ AgeTold \/ UNCHANGED timedVars => UNCHANGED vars
    BY DEF Tick, AgeRead, AgeTold, timedVars
  <1> QED
    BY <1>1, <1>2, <1>3, <1>4 DEF TimedNext, Next

\* The timed sampler is the sampler.
THEOREM TimedImplementsSampler == TimedSpec => Spec
  <1>1. TimedInit => Init
    BY DEF TimedInit
  <1> QED
    BY <1>1, TimedIsUntimed, PTL DEF TimedSpec, Spec

LEMMA Inherited == TimedSpec => [](TypeOK /\ AtMostOneWorker /\ HistoryWindow)
  BY TimedImplementsSampler, TypeCorrect, OneWorker, Window, PTL

-----------------------------------------------------------------------------
(***************************************************************************)
(* Steps seen by the clock.                                                *)
(***************************************************************************)

\* Where a worker is when the clock of its loop matters.
Looping == {"test", "collect", "publish", "callback", "sleep"}

LEMMA LoopingIsAlive ==
  ASSUME AtMostOneWorker, NEW v \in Workers, NEW w \in Workers, Alive(w), pc[v] \in Looping
  PROVE  v = w
  BY DEF AtMostOneWorker, Alive, AlivePc, Looping

\* The steps that read no clock take workers out of the loop, never into it,
\* and publish nothing.
LEMMA UntimedFacts ==
  ASSUME TypeOK, AtMostOneWorker,
         \/ \E c \in Clients : ClientStep(c)
         \/ \E w \in Workers : Untimed(w)
         \/ \E i \in Iterators : IterStep(i)
  PROVE  /\ UNCHANGED history
         /\ \A v \in Workers : pc'[v] \in Looping => pc'[v] = pc[v]
  <1> USE DEF TypeOK, Looping, Goto
  <1>1. ASSUME NEW c \in Clients, Start(c)
        PROVE  UNCHANGED history /\ \A v \in Workers : pc'[v] \in Looping => pc'[v] = pc[v]
    BY <1>1 DEF Start, NewWorker, workerVars, ringVars
  <1>2. ASSUME NEW c \in Clients,
               StartFails(c) \/ Stop(c) \/ JoinReturns(c) \/ JoinTimesOut(c)
        PROVE  UNCHANGED history /\ \A v \in Workers : pc'[v] \in Looping => pc'[v] = pc[v]
    BY <1>2 DEF StartFails, Stop, JoinReturns, JoinTimesOut, workerVars, ringVars
  <1>3. ASSUME NEW w \in Workers, Untimed(w)
        PROVE  UNCHANGED history /\ \A v \in Workers : pc'[v] \in Looping => pc'[v] = pc[v]
    BY <1>3 DEF Untimed, CallbackStops, CallbackStarts, WorkerRaises, WakeOnStop, Finally,
                Exit, workerVars, ringVars
  <1>4. ASSUME NEW i \in Iterators, IterStep(i)
        PROVE  UNCHANGED history /\ \A v \in Workers : pc'[v] \in Looping => pc'[v] = pc[v]
    BY <1>4 DEF IterStep, Open, Check, Yield, Resume, Close, workerVars, ringVars
  <1> QED
    BY <1>1, <1>2, <1>3, <1>4 DEF ClientStep

\* A step of the loop moves its worker and no other one, and no other worker is
\* in the loop.
LEMMA LoopFacts ==
  ASSUME TypeOK, AtMostOneWorker, NEW w \in Workers, NEW from, NEW to,
         pc[w] = from, Goto(w, to), from \in AlivePc
  PROVE  /\ pc'[w] = to
         /\ \A v \in Workers : v # w => pc[v] \notin Looping /\ pc'[v] = pc[v]
  <1>1. Alive(w)
    BY DEF Alive
  <1> QED
    BY <1>1, LoopingIsAlive DEF TypeOK, Goto

LEMMA OneReading ==
  ASSUME OneClock, now \in Nat
  PROVE  Readings = {now}
  BY TimedAssumption DEF OneClock, Readings

-----------------------------------------------------------------------------
(***************************************************************************)
(* Types of what SamplerTimed adds.                                        *)
(***************************************************************************)
TimedTypeOK ==
    /\ now \in Nat /\ deadline \in Int /\ anchor \in Nat /\ slot \in Nat
    /\ lastBegin \in Int /\ asleepAt \in Nat /\ wakeAt \in Int
    /\ received \in Int /\ stamps \in Seq(Int)
    /\ age \in [at : {"idle", "held", "told"}, stamp : Int, since : Int, told : Int]

\* The history or the column of its receipt times after a push.
LEMMA PushStamps ==
  ASSUME NEW ring \in Seq(Int), NEW item \in Int, Len(ring) <= BufferSize,
         NEW pushed, pushed = Push(ring, item)
  PROVE  /\ pushed \in Seq(Int)
         /\ Len(pushed) = IF Len(ring) < BufferSize THEN Len(ring) + 1 ELSE BufferSize
         /\ pushed[Len(pushed)] = item
         /\ \A k \in 1 .. Len(pushed) - 1 :
               /\ k + Len(ring) + 1 - Len(pushed) \in 1 .. Len(ring)
               /\ pushed[k] = ring[k + Len(ring) + 1 - Len(pushed)]
  <1> USE SamplerAssumption
  <1>1. Len(ring) \in Nat
    BY LenProperties
  <1>2. CASE Len(ring) < BufferSize
    <2>1. pushed = Append(ring, item)
      BY <1>2 DEF Push
    <2>2. /\ pushed \in Seq(Int)
          /\ Len(pushed) = Len(ring) + 1
          /\ pushed[Len(ring) + 1] = item
          /\ \A k \in 1 .. Len(ring) : pushed[k] = ring[k]
      BY <1>1, <2>1, AppendProperties
    <2>3. ASSUME NEW k \in 1 .. Len(pushed) - 1
          PROVE  k \in 1 .. Len(ring) /\ k = k + Len(ring) + 1 - Len(pushed)
      BY <1>1, <2>2
    <2> QED
      BY <1>2, <2>2, <2>3
  <1>3. CASE Len(ring) = BufferSize
    <2>1. ring # <<>>
      BY <1>3, EmptySeq
    <2>2. /\ Tail(ring) \in Seq(Int)
          /\ Len(Tail(ring)) = Len(ring) - 1
          /\ \A k \in 1 .. Len(Tail(ring)) : Tail(ring)[k] = ring[k + 1]
      BY <2>1, HeadTailProperties
    <2>3. pushed = Append(Tail(ring), item)
      BY <1>3 DEF Push
    <2>4. /\ pushed \in Seq(Int)
          /\ Len(pushed) = BufferSize
          /\ pushed[BufferSize] = item
          /\ \A k \in 1 .. BufferSize - 1 : pushed[k] = ring[k + 1]
      BY <1>1, <1>3, <2>2, <2>3, AppendProperties
    <2>5. ASSUME NEW k \in 1 .. Len(pushed) - 1
          PROVE  /\ k \in 1 .. BufferSize - 1 /\ k + 1 = k + Len(ring) + 1 - Len(pushed)
                 /\ k + 1 \in 1 .. Len(ring)
      BY <1>1, <1>3, <2>4
    <2> QED
      BY <1>3, <2>4, <2>5
  <1> QED
    BY <1>1, <1>2, <1>3

LEMMA DivisionFacts ==
  ASSUME NEW n \in Nat, NEW d \in Nat \ {0}
  PROVE  /\ n \div d \in Nat
         /\ (n \div d) * d <= n
         /\ n < (n \div d + 1) * d
  <1>1. n \div d \in Int
    OBVIOUS
  <1>2. n = d * (n \div d) + (n % d)
    OBVIOUS
  <1>3. 0 <= n % d
    OBVIOUS
  <1>4. n % d < d
    OBVIOUS
  <1>5. (n \div d) * d <= n
    BY <1>1, <1>2, <1>3
  <1>6. n < (n \div d + 1) * d
    BY <1>1, <1>2, <1>4
  <1>7. n \div d >= 0
    OBVIOUS
  <1> QED
    BY <1>1, <1>5, <1>6, <1>7

\* The next point of the grid after the reading: whatever the delay was, it is
\* at most an interval away if the deadline was not ahead.
LEMMA SlotFacts ==
  ASSUME NEW last \in Int, NEW reading \in Int, last <= reading,
         NEW next, next = last + NextSlots(last + Interval, reading) * Interval
  PROVE  /\ NextSlots(last + Interval, reading) \in Nat \ {0}
         /\ next \in Int /\ reading < next /\ next <= reading + Interval
  <1> DEFINE due == last + Interval
             k == (reading - due) \div Interval
  <1> USE TimedAssumption
  <1>1. CASE due > reading
    BY <1>1 DEF NextSlots
  <1>2. CASE ~(due > reading)
    <2>1. reading - due \in Nat
      BY <1>2
    <2>2. k \in Nat /\ k * Interval <= reading - due /\ reading - due < (k + 1) * Interval
      BY <2>1, DivisionFacts
    <2>3. NextSlots(due, reading) = 1 + (k + 1)
      BY <1>2 DEF NextSlots
    <2> HIDE DEF k
    <2>4. next = last + (1 + (k + 1)) * Interval
      BY <2>3
    <2>5. next = due + (k + 1) * Interval /\ next = due + k * Interval + Interval
      BY <2>2, <2>4
    <2> QED
      BY <2>2, <2>3, <2>5
  <1> QED
    BY <1>1, <1>2

LEMMA TimedTypeInit == TimedInit => TimedTypeOK
  BY DEF TimedInit, TimedTypeOK

LEMMA TimedTypeStep ==
  ASSUME OneClock, TypeOK, TimedTypeOK, Len(stamps) = Len(history), Len(history) <= BufferSize,
         [TimedNext]_timedVars
  PROVE  TimedTypeOK'
  <1> USE TimedAssumption DEF TimedTypeOK, schedule, receipts
  <1>r. Readings = {now}
    BY OneReading
  <1>1. CASE Tick
    BY <1>1 DEF Tick
  <1>2. CASE AgeRead
    <2>1. stamps[Len(stamps)] \in Int
      <3>1. Len(stamps) \in 1 .. Len(stamps)
        BY <1>2, EmptySeq, LenProperties DEF AgeRead
      <3> QED
        BY <3>1, ElementOfSeq
    <2> QED
      BY <1>2, <2>1 DEF AgeRead
  <1>3. CASE AgeTold
    <2>1. age' = [age EXCEPT !.at = "told", !.told = AtLeastZero(now - age.stamp)]
      BY <1>3, <1>r DEF AgeTold
    <2>2. AtLeastZero(now - age.stamp) \in Int
      BY DEF AtLeastZero
    <2>3. age' \in [at : {"idle", "held", "told"}, stamp : Int, since : Int, told : Int]
      BY <2>1, <2>2
    <2> QED
      BY <1>3, <2>3 DEF AgeTold
  <1>4. ASSUME NEW w \in Workers, TimedBegin(w) PROVE TimedTypeOK'
    BY <1>4, <1>r DEF TimedBegin
  <1>5. ASSUME NEW w \in Workers, TimedTest(w) PROVE TimedTypeOK'
    BY <1>5 DEF TimedTest
  <1>6. ASSUME NEW w \in Workers, TimedCollect(w) PROVE TimedTypeOK'
    BY <1>6, <1>r DEF TimedCollect
  <1>7. ASSUME NEW w \in Workers, TimedPublish(w) PROVE TimedTypeOK'
    <2>1. stamps' \in Seq(Int)
      BY <1>7, PushStamps DEF TimedPublish
    <2> QED
      BY <1>7, <2>1 DEF TimedPublish
  <1>8. ASSUME NEW w \in Workers, TimedCallbackReturns(w) PROVE TimedTypeOK'
    BY <1>8, <1>r DEF TimedCallbackReturns, NextSlots
  <1>9. ASSUME NEW w \in Workers, TimedIntervalElapses(w) PROVE TimedTypeOK'
    BY <1>9 DEF TimedIntervalElapses
  <1>10. CASE UNCHANGED <<now, schedule, receipts, age>>
    BY <1>10
  <1> QED
    BY <1>1, <1>2, <1>3, <1>4, <1>5, <1>6, <1>7, <1>8, <1>9, <1>10 DEF TimedNext, timedVars

-----------------------------------------------------------------------------
(***************************************************************************)
(* Receipt times.  That they ascend needs the one in the worker's hand to  *)
(* be no older than any published before, restarts included.               *)
(***************************************************************************)
ReceivedInv ==
    \A w \in Workers : pc[w] = "publish" =>
        received <= now /\ \A k \in DOMAIN stamps : stamps[k] <= received

LEMMA StampsStep ==
  ASSUME OneClock, TypeOK, TypeOK', AtMostOneWorker, Len(history) <= BufferSize,
         TimedTypeOK, TimedTypeOK', StampsAscend, ReceivedInv, [TimedNext]_timedVars
  PROVE  StampsAscend' /\ ReceivedInv'
  <1> USE DEF schedule, receipts
  <1>t. /\ now \in Nat /\ now' \in Nat /\ received \in Int
        /\ stamps \in Seq(Int) /\ Len(stamps) \in Nat /\ DOMAIN stamps = 1 .. Len(stamps)
        /\ stamps' \in Seq(Int) /\ DOMAIN stamps' = 1 .. Len(stamps')
        /\ \A k \in DOMAIN stamps : stamps[k] \in Int
    BY LenProperties, ElementOfSeq DEF TimedTypeOK
  \* Nothing is received or published, and the clock may advance.
  <1>q. ASSUME UNCHANGED <<history, received, stamps>>, now <= now',
               \A v \in Workers : pc'[v] = "publish" => pc[v] = "publish"
        PROVE  StampsAscend' /\ ReceivedInv'
    <2>1. \A k \in DOMAIN stamps : stamps[k] <= now'
      BY <1>t, <1>q DEF StampsAscend
    <2>2. StampsAscend'
      BY <1>q, <2>1 DEF StampsAscend
    <2>3. ReceivedInv'
      BY <1>t, <1>q DEF ReceivedInv
    <2> QED
      BY <2>2, <2>3
  <1>1. CASE Tick
    <2>1. now <= now' /\ UNCHANGED <<history, received, stamps, pc>>
      BY <1>1, <1>t DEF Tick, vars, ringVars, workerVars
    <2> QED
      BY <2>1, <1>q
  <1>2. CASE AgeRead \/ AgeTold \/ UNCHANGED timedVars
    <2>1. UNCHANGED <<vars, now, receipts>>
      BY <1>2 DEF AgeRead, AgeTold, timedVars
    <2>2. now <= now' /\ UNCHANGED <<history, received, stamps, pc>>
      BY <2>1, <1>t DEF vars, ringVars, workerVars
    <2> QED
      BY <2>2, <1>q
  <1>3. ASSUME NEW w \in Workers,
               \/ TimedBegin(w) \/ TimedTest(w) \/ TimedCallbackReturns(w)
               \/ TimedIntervalElapses(w)
        PROVE  StampsAscend' /\ ReceivedInv'
    <2>1. now <= now' /\ UNCHANGED <<history, received, stamps>>
      BY <1>3, <1>t DEF TimedBegin, TimedTest, TimedCallbackReturns, TimedIntervalElapses,
                        Begin, Test, CallbackReturns, IntervalElapses, ringVars
    <2>2. \A v \in Workers : pc'[v] = "publish" => pc[v] = "publish"
      BY <1>3 DEF TypeOK, TimedBegin, TimedTest, TimedCallbackReturns, TimedIntervalElapses,
                  Begin, Test, CallbackReturns, IntervalElapses, Goto
    <2> QED
      BY <2>1, <2>2, <1>q
  <1>4. ASSUME NEW w \in Workers, TimedCollect(w) PROVE StampsAscend' /\ ReceivedInv'
    <2>1. /\ UNCHANGED <<now, history, stamps>>
          /\ received' = now
      <3>1. Readings = {now}
        BY <1>t, OneReading
      <3> QED
        BY <1>4, <3>1 DEF TimedCollect, Collect
    <2>2. StampsAscend' /\ \A k \in DOMAIN stamps : stamps[k] <= now
      BY <2>1 DEF StampsAscend
    <2> QED
      BY <1>t, <2>1, <2>2 DEF ReceivedInv
  <1>5. ASSUME NEW w \in Workers, TimedPublish(w) PROVE StampsAscend' /\ ReceivedInv'
    <2>1. /\ UNCHANGED <<now, received>>
          /\ stamps' = Push(stamps, received)
          /\ pc[w] = "publish"
      BY <1>5 DEF TimedPublish, Publish
    <2>2. /\ received <= now
          /\ \A k \in DOMAIN stamps : stamps[k] <= received
      BY <2>1 DEF ReceivedInv
    <2>3. Len(stamps) = Len(history) /\ Len(stamps) <= BufferSize
      BY DEF StampsAscend
    <2>4. /\ Len(stamps') = IF Len(stamps) < BufferSize THEN Len(stamps) + 1 ELSE BufferSize
          /\ stamps'[Len(stamps')] = received
          /\ \A k \in 1 .. Len(stamps') - 1 :
                /\ k + Len(stamps) + 1 - Len(stamps') \in 1 .. Len(stamps)
                /\ stamps'[k] = stamps[k + Len(stamps) + 1 - Len(stamps')]
      <3>1. /\ stamps \in Seq(Int) /\ received \in Int /\ Len(stamps) <= BufferSize
            /\ stamps' = Push(stamps, received)
        BY <1>t, <2>1, <2>3
      <3> QED
        BY <3>1, PushStamps
    <2>5. Len(history') = Len(stamps')
      \* The history is pushed at the same length.
      <3>1. /\ history' = Push(history, [seq |-> sequence + 1, snap |-> hand[w]])
            /\ [seq |-> sequence + 1, snap |-> hand[w]] \in Item
        BY <1>5 DEF TimedPublish, Publish, TypeOK, Item
      <3>2. history \in Seq(Item) /\ Len(history) <= BufferSize
        BY DEF TypeOK
      <3> QED
        BY <2>3, <2>4, <3>1, <3>2, PushWindow
    <2> DEFINE n == Len(stamps')
    <2>6. n \in Nat
      BY <1>t, LenProperties
    <2>7. \A k \in 1 .. n : k = n \/ k \in 1 .. n - 1
      BY <2>6
    <2>8. ASSUME NEW k \in 1 .. n PROVE stamps'[k] <= received
      <3>1. CASE k = n
        BY <1>t, <2>4, <3>1
      <3>2. CASE k \in 1 .. n - 1
        BY <1>t, <2>2, <2>4, <3>2
      <3> QED
        BY <2>7, <3>1, <3>2
    <2>9. ASSUME NEW j \in 1 .. n, NEW k \in 1 .. n, j <= k PROVE stamps'[j] <= stamps'[k]
      <3>1. CASE k = n
        BY <2>4, <2>8, <3>1
      <3>2. CASE j \in 1 .. n - 1 /\ k \in 1 .. n - 1
        <4>1. /\ j + Len(stamps) + 1 - n \in DOMAIN stamps
              /\ k + Len(stamps) + 1 - n \in DOMAIN stamps
              /\ j + Len(stamps) + 1 - n <= k + Len(stamps) + 1 - n
          BY <1>t, <2>4, <2>6, <2>9, <3>2
        <4>2. stamps[j + Len(stamps) + 1 - n] <= stamps[k + Len(stamps) + 1 - n]
          BY <4>1 DEF StampsAscend
        <4> QED
          BY <2>4, <3>2, <4>2
      <3> QED
        BY <2>6, <2>7, <2>9, <3>1, <3>2
    <2>10. StampsAscend'
      <3>1. \A k \in 1 .. n : stamps'[k] <= now'
        BY <1>t, <2>1, <2>2, <2>8, ElementOfSeq
      <3> QED
        BY <1>t, <2>5, <2>9, <3>1 DEF StampsAscend
    <2>11. ReceivedInv'
      <3>1. \A v \in Workers : pc'[v] # "publish"
        BY <1>5, LoopFacts DEF TimedPublish, Publish, Looping, AlivePc
      <3> QED
        BY <3>1 DEF ReceivedInv
    <2> QED
      BY <2>10, <2>11
  <1>6. CASE /\ \/ \E c \in Clients : ClientStep(c)
                \/ \E w \in Workers : Untimed(w)
                \/ \E i \in Iterators : IterStep(i)
             /\ UNCHANGED <<now, schedule, receipts, age>>
    <2>1. UNCHANGED history /\ \A v \in Workers : pc'[v] \in Looping => pc'[v] = pc[v]
      BY <1>6, UntimedFacts
    <2>2. \A v \in Workers : pc'[v] = "publish" => pc[v] = "publish"
      BY <2>1 DEF Looping
    <2>3. now <= now' /\ UNCHANGED <<received, stamps>>
      BY <1>6, <1>t
    <2> QED
      BY <1>q, <2>1, <2>2, <2>3
  <1> QED
    BY <1>1, <1>2, <1>3, <1>4, <1>5, <1>6 DEF TimedNext

LEMMA TimedAlways ==
  OneClock /\ TimedSpec => [](TimedTypeOK /\ StampsAscend /\ ReceivedInv)
  <1>1. TimedInit => StampsAscend /\ ReceivedInv
    BY EmptySeq DEF TimedInit, Init, StampsAscend, ReceivedInv
  <1>2. TypeOK /\ HistoryWindow => Len(history) <= BufferSize
    BY SamplerAssumption, LenProperties DEF TypeOK, HistoryWindow
  <1>3. OneClock /\ TypeOK /\ TypeOK' /\ AtMostOneWorker /\ HistoryWindow
        /\ TimedTypeOK /\ StampsAscend /\ ReceivedInv /\ [TimedNext]_timedVars
        => TimedTypeOK' /\ StampsAscend' /\ ReceivedInv'
    <2> SUFFICES ASSUME OneClock, TypeOK, TypeOK', AtMostOneWorker, HistoryWindow, TimedTypeOK,
                        StampsAscend, ReceivedInv, [TimedNext]_timedVars
                 PROVE  TimedTypeOK' /\ StampsAscend' /\ ReceivedInv'
      OBVIOUS
    <2>1. Len(history) <= BufferSize
      BY <1>2
    <2>2. Len(stamps) = Len(history)
      BY DEF StampsAscend
    <2>3. TimedTypeOK'
      BY <2>1, <2>2, TimedTypeStep
    <2> QED
      BY <2>1, <2>3, StampsStep
  <1>4. OneClock => OneClock'
    BY DEF OneClock
  <1> QED
    BY <1>1, <1>3, <1>4, Inherited, TimedTypeInit, PTL DEF TimedSpec

\* The receipt times of the history never decrease, across restarts too.
THEOREM ReceiptsAscend == OneClock /\ TimedSpec => []StampsAscend
  BY TimedAlways, PTL

-----------------------------------------------------------------------------
(***************************************************************************)
(* Ages.                                                                   *)
(***************************************************************************)

\* A sample whose age is being told was received before it was read.
AgeInv == age.at # "idle" => age.stamp <= age.since /\ age.since <= now

LEMMA AgeStep ==
  ASSUME OneClock, TimedTypeOK, TimedTypeOK', StampsAscend, AgeInv, AgeIsHonest,
         [TimedNext]_timedVars
  PROVE  AgeInv' /\ AgeIsHonest'
  <1>t. /\ now \in Nat /\ now' \in Nat
        /\ age \in [at : {"idle", "held", "told"}, stamp : Int, since : Int, told : Int]
    BY DEF TimedTypeOK
  <1>1. CASE AgeRead
    <2>1. stamps[Len(stamps)] <= now
      <3>1. Len(stamps) \in DOMAIN stamps
        BY <1>1, EmptySeq, LenProperties DEF AgeRead, TimedTypeOK
      <3> QED
        BY <3>1 DEF StampsAscend
    <2>2. age'.at = "held" /\ age'.stamp = stamps[Len(stamps)] /\ age'.since = now /\ now' = now
      BY <1>1 DEF AgeRead
    <2> QED
      BY <1>t, <2>1, <2>2 DEF AgeInv, AgeIsHonest
  <1>2. CASE AgeTold
    <2>1. age' = [age EXCEPT !.at = "told", !.told = AtLeastZero(now - age.stamp)]
          /\ now' = now /\ age.at = "held"
      BY <1>2, <1>t, OneReading DEF AgeTold
    <2>2. /\ age'.stamp = age.stamp /\ age'.since = age.since
          /\ age'.told = AtLeastZero(now - age.stamp)
      BY <1>t, <2>1
    <2>3. age.stamp <= age.since /\ age.since <= now
      BY <2>1 DEF AgeInv
    <2>4. AtLeastZero(now - age.stamp) = now - age.stamp
      BY <1>t, <2>3 DEF AtLeastZero
    <2> QED
      BY <1>t, <2>1, <2>2, <2>3, <2>4 DEF AgeInv, AgeIsHonest
  <1>3. CASE age' = age /\ now <= now'
    BY <1>t, <1>3 DEF AgeInv, AgeIsHonest
  <1>4. CASE \/ Tick \/ UNCHANGED timedVars
             \/ \E w \in Workers :
                   \/ TimedBegin(w) \/ TimedTest(w) \/ TimedCollect(w) \/ TimedPublish(w)
                   \/ TimedCallbackReturns(w) \/ TimedIntervalElapses(w)
             \/ UNCHANGED <<now, schedule, receipts, age>>
    <2>1. age' = age /\ now <= now'
      BY <1>t, <1>4 DEF Tick, timedVars, TimedBegin, TimedTest, TimedCollect, TimedPublish,
                        TimedCallbackReturns, TimedIntervalElapses
    <2> QED
      BY <1>3, <2>1
  <1> QED
    BY <1>1, <1>2, <1>4 DEF TimedNext

\* As long as there is one clock, an age is never less than the sample's when it
\* was read, whatever is published meanwhile.
THEOREM HonestAges == OneClock /\ TimedSpec => []AgeIsHonest
  <1>1. TimedInit => AgeInv /\ AgeIsHonest
    BY DEF TimedInit, AgeInv, AgeIsHonest
  <1>2. OneClock => OneClock'
    BY DEF OneClock
  <1> QED
    BY <1>1, <1>2, TimedAlways, AgeStep, PTL DEF TimedSpec

-----------------------------------------------------------------------------
(***************************************************************************)
(* The grid of deadlines.  A worker in its loop has reached its deadline,  *)
(* a worker asleep waits for a point of the grid that lies ahead, and the  *)
(* last collection began before that point.                                *)
(***************************************************************************)
OnGrid ==
    /\ deadline = anchor + slot * Interval
    /\ lastBegin <= now
    /\ \A w \in Workers :
          /\ pc[w] \in Looping \ {"sleep"} => deadline <= now
          /\ pc[w] \in {"test", "sleep"} => lastBegin < deadline
          /\ pc[w] = "sleep" =>
                wakeAt = deadline /\ asleepAt < wakeAt /\ wakeAt <= asleepAt + Interval

LEMMA GridStep ==
  ASSUME OneClock, TypeOK, TypeOK', AtMostOneWorker, TimedTypeOK, TimedTypeOK', OnGrid,
         [TimedNext]_timedVars
  PROVE  OnGrid'
  <1> USE TimedAssumption DEF schedule, receipts
  <1>t. /\ now \in Nat /\ now' \in Nat /\ deadline \in Int /\ anchor \in Nat /\ slot \in Nat
        /\ lastBegin \in Int /\ asleepAt \in Nat /\ wakeAt \in Int
        /\ Readings = {now}
    BY OneReading DEF TimedTypeOK
  \* The schedule stays, and no worker enters the loop.
  <1>q. ASSUME UNCHANGED schedule, now <= now',
               \A v \in Workers : pc'[v] \in Looping => pc'[v] = pc[v]
        PROVE  OnGrid'
    <2>1. deadline' = anchor' + slot' * Interval
      BY <1>q DEF OnGrid
    <2>2. lastBegin' <= now'
      BY <1>q, <1>t DEF OnGrid
    <2>3. ASSUME NEW v \in Workers
          PROVE  /\ pc'[v] \in Looping \ {"sleep"} => deadline' <= now'
                 /\ pc'[v] \in {"test", "sleep"} => lastBegin' < deadline'
                 /\ pc'[v] = "sleep" => /\ wakeAt' = deadline' /\ asleepAt' < wakeAt'
                                        /\ wakeAt' <= asleepAt' + Interval
      BY <1>q, <1>t DEF OnGrid, Looping
    <2> QED
      BY <2>1, <2>2, <2>3 DEF OnGrid
  <1>1. CASE Tick \/ AgeRead \/ AgeTold \/ UNCHANGED timedVars
    <2>1. UNCHANGED vars /\ UNCHANGED schedule
      BY <1>1 DEF Tick, AgeRead, AgeTold, timedVars
    <2>2. now <= now'
      BY <1>1, <1>t DEF Tick, AgeRead, AgeTold, timedVars
    <2> QED
      BY <2>1, <2>2, <1>q DEF vars, workerVars
  <1>2. ASSUME NEW w \in Workers, TimedBegin(w) PROVE OnGrid'
    <2>1. /\ deadline' = now /\ anchor' = now /\ slot' = 0 /\ lastBegin' = now - Interval
          /\ now' = now
      BY <1>2, <1>t DEF TimedBegin
    <2>2. pc'[w] = "test" /\ \A v \in Workers : v # w => pc'[v] \notin Looping
      BY <1>2, LoopFacts DEF TimedBegin, Begin, AlivePc
    <2> QED
      BY <1>t, <2>1, <2>2 DEF OnGrid, Looping
  <1>3. ASSUME NEW w \in Workers, TimedTest(w) PROVE OnGrid'
    <2>1. /\ UNCHANGED <<now, deadline, anchor, slot, asleepAt, wakeAt>>
          /\ lastBegin' = IF stopSet THEN lastBegin ELSE now
      BY <1>3 DEF TimedTest
    <2>2. /\ pc[w] = "test" /\ pc'[w] \in {"collect", "finally"}
          /\ \A v \in Workers : v # w => pc'[v] \notin Looping
      <3>1. pc[w] = "test" /\ Goto(w, IF stopSet THEN "finally" ELSE "collect")
        BY <1>3 DEF TimedTest, Test
      <3> QED
        BY <3>1, LoopFacts DEF AlivePc
    <2>3. lastBegin' \in Int /\ lastBegin' <= now
      BY <1>t, <2>1 DEF OnGrid
    <2> QED
      BY <1>t, <2>1, <2>2, <2>3 DEF OnGrid, Looping
  <1>4. ASSUME NEW w \in Workers, TimedCollect(w) \/ TimedPublish(w) PROVE OnGrid'
    <2>1. UNCHANGED <<now, schedule>>
      BY <1>4 DEF TimedCollect, TimedPublish
    <2>2. /\ pc[w] \in {"collect", "publish"} /\ pc'[w] \in {"publish", "callback"}
          /\ \A v \in Workers : v # w => pc'[v] \notin Looping
      BY <1>4, LoopFacts DEF TimedCollect, TimedPublish, Collect, Publish, AlivePc
    <2> QED
      BY <1>t, <2>1, <2>2 DEF OnGrid, Looping
  <1>5. ASSUME NEW w \in Workers, TimedCallbackReturns(w) PROVE OnGrid'
    <2> DEFINE slots == NextSlots(deadline + Interval, now)
    <2>1. /\ deadline' = deadline + slots * Interval
          /\ slot' = slot + slots
          /\ wakeAt' = now + (deadline' - now)
          /\ asleepAt' = now
          /\ UNCHANGED <<now, anchor, lastBegin>>
      BY <1>5, <1>t DEF TimedCallbackReturns
    <2>2. /\ pc[w] = "callback" /\ pc'[w] = "sleep"
          /\ \A v \in Workers : v # w => pc'[v] \notin Looping
      BY <1>5, LoopFacts DEF TimedCallbackReturns, CallbackReturns, AlivePc
    <2>3. deadline <= now
      BY <2>2 DEF OnGrid, Looping
    <2>4. slots \in Nat /\ deadline' \in Int /\ now < deadline' /\ deadline' <= now + Interval
      BY <1>t, <2>1, <2>3, SlotFacts
    <2> HIDE DEF slots
    <2>5. deadline' = anchor' + slot' * Interval
      <3>1. deadline + slots * Interval = anchor + (slot + slots) * Interval
        BY <1>t, <2>4 DEF OnGrid
      <3> QED
        BY <2>1, <3>1
    <2>6. wakeAt' = deadline'
      BY <1>t, <2>1, <2>4
    <2>7. lastBegin <= now
      BY DEF OnGrid
    <2> QED
      BY <1>t, <2>1, <2>2, <2>4, <2>5, <2>6, <2>7 DEF OnGrid, Looping
  <1>6. ASSUME NEW w \in Workers, TimedIntervalElapses(w) PROVE OnGrid'
    <2>1. UNCHANGED <<now, schedule>> /\ now >= wakeAt
      BY <1>6 DEF TimedIntervalElapses
    <2>2. /\ pc[w] = "sleep" /\ pc'[w] = "test"
          /\ \A v \in Workers : v # w => pc'[v] \notin Looping
      BY <1>6, LoopFacts DEF TimedIntervalElapses, IntervalElapses, AlivePc
    <2> QED
      BY <1>t, <2>1, <2>2 DEF OnGrid, Looping
  <1>7. CASE /\ \/ \E c \in Clients : ClientStep(c)
                \/ \E w \in Workers : Untimed(w)
                \/ \E i \in Iterators : IterStep(i)
             /\ UNCHANGED <<now, schedule, receipts, age>>
    BY <1>7, <1>q, <1>t, UntimedFacts
  <1> QED
    BY <1>1, <1>2, <1>3, <1>4, <1>5, <1>6, <1>7 DEF TimedNext

LEMMA GridAlways == OneClock /\ TimedSpec => []OnGrid
  <1>1. TimedInit => OnGrid
    BY TimedAssumption DEF TimedInit, Init, OnGrid, Looping
  <1>2. OneClock => OneClock'
    BY DEF OneClock
  <1> QED
    BY <1>1, <1>2, TimedAlways, Inherited, GridStep, PTL DEF TimedSpec

\* A worker sleeps until the next point of its grid, less than an interval away
\* or exactly one, however late it was.
THEOREM NextSlot == OneClock /\ TimedSpec => []SleepsToTheNextSlot
  <1>1. TypeOK /\ OnGrid => SleepsToTheNextSlot
    BY DEF OnGrid, SleepsToTheNextSlot, ThreadIsAlive, TypeOK, None
  <1> QED
    BY <1>1, GridAlways, Inherited, PTL

\* Between the beginnings of two collections lies a point of the grid.
LEMMA BurstStep ==
  ASSUME TypeOK, TimedTypeOK, OnGrid, NEW w \in Workers, pc[w] = "test"
  PROVE  \E k \in 0..now : lastBegin < anchor + k * Interval /\ anchor + k * Interval <= now
  <1>1. /\ now \in Nat /\ anchor \in Nat /\ slot \in Nat /\ Interval \in Nat \ {0}
        /\ anchor + slot * Interval <= now /\ lastBegin < anchor + slot * Interval
    BY TimedAssumption DEF TimedTypeOK, OnGrid, Looping
  <1>2. slot <= slot * Interval
    <2>1. Interval = 1 + (Interval - 1) /\ Interval - 1 \in Nat
      BY <1>1
    <2>2. slot * Interval = slot + slot * (Interval - 1) /\ slot * (Interval - 1) \in Nat
      BY <1>1, <2>1
    <2> QED
      BY <1>1, <2>2
  <1>3. slot * Interval \in Int
    BY <1>1
  <1>4. slot \in 0..now
    BY <1>1, <1>2, <1>3
  <1> QED
    BY <1>1, <1>4

\* A late worker catches up by skipping, never by collecting in a burst.
THEOREM NoCatchUp == OneClock /\ TimedSpec => NoBurst
  <1>1. TypeOK /\ TimedTypeOK /\ OnGrid /\ [TimedNext]_timedVars =>
          [\A w \in Workers :
              pc[w] = "test" /\ pc'[w] = "collect" =>
                  \E k \in 0..now : lastBegin < anchor + k * Interval
                                    /\ anchor + k * Interval <= now]_timedVars
    BY BurstStep
  <1> QED
    BY <1>1, TimedAlways, GridAlways, Inherited, PTL DEF TimedSpec, NoBurst
=============================================================================
