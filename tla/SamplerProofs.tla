--------------------------- MODULE SamplerProofs ---------------------------
(***************************************************************************)
(* Proofs about the sampler, for every number of clients, iterators and    *)
(* threads, every buffer size and every combination of faults.             *)
(***************************************************************************)
EXTENDS SamplerFeed, SequenceTheorems, TLAPS

(***************************************************************************)
(* Type correctness: the states of the threads, calls and generators are   *)
(* the ones named in Sampler, and the history is a sequence of items.      *)
(***************************************************************************)
LEMMA TypeInit == Init => TypeOK
  <1> SUFFICES ASSUME Init PROVE TypeOK
    OBVIOUS
  <1>1. history \in Seq(Item)
    BY EmptySeq DEF Init
  <1>2. /\ thread \in {None} \cup Workers
        /\ target \in [Clients -> {None} \cup Workers]
    BY DEF Init
  <1> QED
    BY <1>1, <1>2 DEF Init, TypeOK, WorkerPc, AlivePc

LEMMA PushType ==
  ASSUME NEW ring \in Seq(Item), NEW item \in Item
  PROVE  Push(ring, item) \in Seq(Item)
  <1>1. CASE Len(ring) < BufferSize
    BY <1>1, AppendProperties DEF Push
  <1>2. CASE ~(Len(ring) < BufferSize)
    <2>1. ring # <<>>
      BY <1>2, SamplerAssumption, LenProperties, EmptySeq
    <2>2. Tail(ring) \in Seq(Item)
      BY <2>1, HeadTailProperties
    <2> QED
      BY <1>2, <2>2, AppendProperties DEF Push
  <1> QED
    BY <1>1, <1>2

LEMMA TypeStep == TypeOK /\ [Next]_vars => TypeOK'
  <1> SUFFICES ASSUME TypeOK, [Next]_vars PROVE TypeOK'
    OBVIOUS
  <1> USE SamplerAssumption DEF TypeOK, None, Workers, WorkerPc, AlivePc,
          workerVars, ringVars, clientVars, iterVars, Goto, NotifyAll
  <1>1. ASSUME NEW c \in Clients, Start(c) PROVE TypeOK'
    <2>1. CASE ThreadIsAlive
      BY <1>1, <2>1 DEF Start, StartCalled, Free
    <2>2. CASE ~ThreadIsAlive
      <3>1. NewWorker
        BY <1>1, <2>2 DEF Start
      <3>2. thread' \in Workers /\ pc' \in [Workers -> WorkerPc]
        BY <3>1 DEF NewWorker
      <3> QED
        BY <1>1, <2>2, <3>2 DEF Start, StartCalled, Free
    <2> QED
      BY <2>1, <2>2
  <1>2. ASSUME NEW c \in Clients, StartFails(c) PROVE TypeOK'
    <2>1. thread' \in Workers /\ pc' \in [Workers -> WorkerPc]
      BY <1>2 DEF StartFails
    <2> QED
      BY <1>2, <2>1 DEF StartFails, StartCalled, Free
  <1>3. ASSUME NEW c \in Clients, Stop(c) PROVE TypeOK'
    BY <1>3 DEF Stop
  <1>4. ASSUME NEW c \in Clients, JoinReturns(c) PROVE TypeOK'
    BY <1>4 DEF JoinReturns
  <1>5. ASSUME NEW c \in Clients, JoinTimesOut(c) PROVE TypeOK'
    BY <1>5 DEF JoinTimesOut
  <1>6. ASSUME NEW w \in Workers, Begin(w) PROVE TypeOK'
    BY <1>6 DEF Begin
  <1>7. ASSUME NEW w \in Workers, Test(w) PROVE TypeOK'
    BY <1>7 DEF Test
  <1>8. ASSUME NEW w \in Workers, Collect(w) PROVE TypeOK'
    BY <1>8 DEF Collect
  <1>9. ASSUME NEW w \in Workers, Publish(w) PROVE TypeOK'
    <2>1. [seq |-> sequence + 1, snap |-> hand[w]] \in Item
      BY DEF Item
    <2>2. history' \in Seq(Item)
      BY <1>9, <2>1, PushType DEF Publish
    <2> QED
      BY <1>9, <2>2 DEF Publish
  <1>10. ASSUME NEW w \in Workers, CallbackReturns(w) PROVE TypeOK'
    BY <1>10 DEF CallbackReturns
  <1>11. ASSUME NEW w \in Workers, CallbackStops(w) PROVE TypeOK'
    BY <1>11 DEF CallbackStops
  <1>12. ASSUME NEW w \in Workers, CallbackStarts(w) PROVE TypeOK'
    BY <1>12 DEF CallbackStarts
  <1>13. ASSUME NEW w \in Workers, WorkerRaises(w) PROVE TypeOK'
    BY <1>13 DEF WorkerRaises
  <1>14. ASSUME NEW w \in Workers, IntervalElapses(w) PROVE TypeOK'
    BY <1>14 DEF IntervalElapses
  <1>15. ASSUME NEW w \in Workers, WakeOnStop(w) PROVE TypeOK'
    BY <1>15 DEF WakeOnStop
  <1>16. ASSUME NEW w \in Workers, Finally(w) PROVE TypeOK'
    BY <1>16 DEF Finally
  <1>17. ASSUME NEW w \in Workers, Exit(w) PROVE TypeOK'
    BY <1>17 DEF Exit
  <1>18. ASSUME NEW i \in Iterators, Open(i) PROVE TypeOK'
    BY <1>18 DEF Open
  <1>19. ASSUME NEW i \in Iterators, Check(i) PROVE TypeOK'
    <2>1. Available(i) \subseteq Item
      BY ElementOfSeq DEF Available, Contents
    <2> QED
      BY <1>19, <2>1 DEF Check
  <1>20. ASSUME NEW i \in Iterators, Yield(i) PROVE TypeOK'
    BY <1>20 DEF Yield, Item
  <1>21. ASSUME NEW i \in Iterators, Resume(i) PROVE TypeOK'
    BY <1>21 DEF Resume
  <1>22. ASSUME NEW i \in Iterators, Close(i) PROVE TypeOK'
    BY <1>22 DEF Close
  <1>23. CASE UNCHANGED vars
    BY <1>23 DEF vars
  <1> HIDE DEF TypeOK
  <1> QED
    BY <1>1, <1>2, <1>3, <1>4, <1>5, <1>6, <1>7, <1>8, <1>9, <1>10, <1>11,
       <1>12, <1>13, <1>14, <1>15, <1>16, <1>17, <1>18, <1>19, <1>20, <1>21,
       <1>22, <1>23
    DEF Next, ClientStep, WorkerStep, WorkerProgress, IterStep

\* The sampler never leaves the states TypeOK describes.
THEOREM TypeCorrect == Spec => []TypeOK
  BY TypeInit, TypeStep, PTL DEF Spec
-----------------------------------------------------------------------------
(***************************************************************************)
(* At most one worker.  The invariant is inductive: only a start() that    *)
(* finds self._thread dead creates a worker, and only the thread object it *)
(* holds can be alive.                                                     *)
(***************************************************************************)

\* Who can become alive, and that a live thread object is not replaced.
LEMMA AliveStep ==
  ASSUME TypeOK, [Next]_vars
  PROVE  \/ thread' = thread /\ \A w \in Workers : Alive(w)' => Alive(w)
         \/ ~ThreadIsAlive /\ \A w \in Workers : Alive(w)' => Alive(w) \/ w = thread'
  <1> DEFINE Goal == \/ thread' = thread /\ \A w \in Workers : Alive(w)' => Alive(w)
                     \/ ~ThreadIsAlive /\ \A w \in Workers : Alive(w)' => Alive(w) \/ w = thread'
  <1> USE DEF TypeOK, Alive, AlivePc, Goto, None, Workers
  <1>1. ASSUME NEW c \in Clients, Start(c) PROVE Goal
    <2>1. CASE ThreadIsAlive
      BY <1>1, <2>1 DEF Start, workerVars
    <2>2. CASE ~ThreadIsAlive
      BY <1>1, <2>2 DEF Start, NewWorker
    <2> QED
      BY <2>1, <2>2
  <1>2. ASSUME NEW c \in Clients, StartFails(c) PROVE Goal
    BY <1>2 DEF StartFails
  <1>3. ASSUME NEW c \in Clients, Stop(c) \/ JoinReturns(c) \/ JoinTimesOut(c) PROVE Goal
    BY <1>3 DEF Stop, JoinReturns, JoinTimesOut, workerVars
  <1>4. ASSUME NEW v \in Workers, WorkerProgress(v) PROVE Goal
    BY <1>4 DEF WorkerProgress, Begin, Test, Collect, Publish, CallbackReturns,
                IntervalElapses, WakeOnStop, Finally, Exit
  <1>5. ASSUME NEW v \in Workers, CallbackStops(v) \/ CallbackStarts(v) \/ WorkerRaises(v)
        PROVE Goal
    BY <1>5 DEF CallbackStops, CallbackStarts, WorkerRaises, workerVars
  <1>6. ASSUME NEW i \in Iterators, IterStep(i) PROVE Goal
    BY <1>6 DEF IterStep, Open, Check, Yield, Resume, Close, workerVars
  <1>7. CASE UNCHANGED vars
    BY <1>7 DEF vars, workerVars
  <1> HIDE DEF TypeOK, Workers, Alive, Goto
  <1> QED
    BY <1>1, <1>2, <1>3, <1>4, <1>5, <1>6, <1>7 DEF Next, ClientStep, WorkerStep

LEMMA OneWorkerStep ==
  TypeOK /\ AtMostOneWorker /\ [Next]_vars => AtMostOneWorker'
  <1> SUFFICES ASSUME TypeOK, AtMostOneWorker, [Next]_vars,
                      NEW w \in Workers, Alive(w)'
               PROVE  w = thread'
    BY DEF AtMostOneWorker
  <1>1. CASE thread' = thread /\ Alive(w)
    BY <1>1 DEF AtMostOneWorker
  <1>2. CASE ~ThreadIsAlive /\ (Alive(w) \/ w = thread')
    BY <1>2 DEF AtMostOneWorker, ThreadIsAlive, Workers, None
  <1> QED
    BY <1>1, <1>2, AliveStep

\* No interleaving of starts, stops, timeouts and faults runs two workers at once.
THEOREM OneWorker == Spec => []AtMostOneWorker
  <1>1. Init => AtMostOneWorker
    BY DEF Init, AtMostOneWorker, Alive, AlivePc
  <1> QED
    BY <1>1, TypeCorrect, OneWorkerStep, PTL DEF Spec

\* start() clears the event only where the invariant leaves no worker alive.
LEMMA StickyStep ==
  ASSUME TypeOK, AtMostOneWorker, [Next]_vars, stopSet, ~stopSet'
  PROVE  \A w \in Workers : ~Alive(w)
  <1>1. ~ThreadIsAlive
    BY DEF TypeOK, Next, ClientStep, Start, StartFails, Stop, JoinReturns, JoinTimesOut,
           WorkerStep, WorkerProgress, Begin, Test, Collect, Publish, CallbackReturns,
           IntervalElapses, WakeOnStop, Finally, Exit, CallbackStops, CallbackStarts,
           WorkerRaises, IterStep, Open, Check, Yield, Resume, Close, vars, workerVars
  <1> QED
    BY <1>1 DEF AtMostOneWorker, ThreadIsAlive, Workers, None

\* A stop request reaches the worker it was made for.
THEOREM RequestsStick == Spec => StopRequestSticks
  <1>1. TypeOK /\ AtMostOneWorker /\ [Next]_vars =>
          [stopSet /\ ~stopSet' => \A w \in Workers : ~Alive(w)]_vars
    BY StickyStep
  <1> QED
    BY <1>1, TypeCorrect, OneWorker, PTL DEF Spec, StopRequestSticks
-----------------------------------------------------------------------------
(***************************************************************************)
(* The history.  HistoryWindow is not inductive: that an item holds the    *)
(* snapshot of its number needs every collected snapshot but the one in a  *)
(* worker's hand to be published, and only one worker to hold one.         *)
(***************************************************************************)
InHand ==
    /\ \A w \in Workers : pc[w] = "publish" => hand[w] = sequence + 1 /\ taken = sequence + 1
    /\ (\A w \in Workers : pc[w] # "publish") => taken = sequence

HistoryInv == InHand /\ HistoryWindow

\* A push keeps the newest BufferSize items in their order.
LEMMA PushWindow ==
  ASSUME NEW ring \in Seq(Item), NEW item \in Item, Len(ring) <= BufferSize,
         NEW pushed, pushed = Push(ring, item)
  PROVE  /\ Len(pushed) = IF Len(ring) < BufferSize THEN Len(ring) + 1 ELSE BufferSize
         /\ pushed[Len(pushed)] = item
         /\ \A k \in 1 .. Len(pushed) - 1 : pushed[k] = ring[k + Len(ring) + 1 - Len(pushed)]
  <1> USE SamplerAssumption
  <1>1. Len(ring) \in Nat
    BY LenProperties
  <1>2. CASE Len(ring) < BufferSize
    <2>1. pushed = Append(ring, item)
      BY <1>2 DEF Push
    <2>2. /\ Len(pushed) = Len(ring) + 1
          /\ pushed[Len(ring) + 1] = item
          /\ \A k \in 1 .. Len(ring) : pushed[k] = ring[k]
      BY <1>1, <2>1, AppendProperties
    <2>3. ASSUME NEW k \in 1 .. Len(pushed) - 1
          PROVE  k \in 1 .. Len(ring) /\ k = k + Len(ring) + 1 - Len(pushed)
      BY <1>1, <2>2
    <2> QED
      BY <1>2, <2>2, <2>3
  <1>3. CASE Len(ring) = BufferSize
    <2>1. ring # <<>>
      BY <1>3, EmptySeq
    <2>2. /\ Tail(ring) \in Seq(Item)
          /\ Len(Tail(ring)) = Len(ring) - 1
          /\ \A k \in 1 .. Len(Tail(ring)) : Tail(ring)[k] = ring[k + 1]
      BY <2>1, HeadTailProperties
    <2>3. pushed = Append(Tail(ring), item)
      BY <1>3 DEF Push
    <2>4. /\ Len(pushed) = BufferSize
          /\ pushed[BufferSize] = item
          /\ \A k \in 1 .. BufferSize - 1 : pushed[k] = ring[k + 1]
      BY <1>1, <1>3, <2>2, <2>3, AppendProperties
    <2>5. ASSUME NEW k \in 1 .. Len(pushed) - 1
          PROVE  k \in 1 .. BufferSize - 1 /\ k + 1 = k + Len(ring) + 1 - Len(pushed)
      BY <1>1, <1>3, <2>4
    <2> QED
      BY <1>3, <2>4, <2>5
  <1> QED
    BY <1>1, <1>2, <1>3

LEMMA HistoryStep ==
  ASSUME TypeOK, AtMostOneWorker, HistoryInv, [Next]_vars
  PROVE  HistoryInv'
  <1> USE DEF TypeOK, InHand, HistoryInv
  <1>1. ASSUME NEW w \in Workers, Collect(w) PROVE HistoryInv'
    <2>1. \A v \in Workers : pc[v] # "publish"
      BY <1>1 DEF AtMostOneWorker, Alive, AlivePc, Collect
    <2>2. HistoryWindow'
      BY <1>1 DEF Collect, HistoryWindow
    <2> QED
      BY <1>1, <2>1, <2>2 DEF Collect, Goto
  <1>2. ASSUME NEW w \in Workers, Publish(w) PROVE HistoryInv'
    <2>1. \A v \in Workers : v # w => pc[v] # "publish"
      BY <1>2 DEF AtMostOneWorker, Alive, AlivePc, Publish
    <2>2. InHand'
      BY <1>2, <2>1 DEF Publish, Goto
    <2> DEFINE item == [seq |-> sequence + 1, snap |-> hand[w]]
    <2>3. item \in Item /\ item.seq = sequence + 1 /\ item.snap = sequence + 1
      BY <1>2 DEF Publish, Item
    <2>4. Len(history) \in Nat /\ DOMAIN history = 1 .. Len(history)
      BY LenProperties
    <2>5. Len(history) <= BufferSize
      BY <2>4, SamplerAssumption DEF HistoryWindow
    <2>6. history' = Push(history, item) /\ sequence' = sequence + 1
      BY <1>2 DEF Publish
    <2>7. history' \in Seq(Item)
      BY <2>3, <2>6, PushType
    <2>8. Len(history') \in Nat /\ DOMAIN history' = 1 .. Len(history')
      BY <2>7, LenProperties
    <2> HIDE DEF item
    <2>9. /\ Len(history') = IF Len(history) < BufferSize THEN Len(history) + 1 ELSE BufferSize
          /\ history'[Len(history')] = item
          /\ \A k \in 1 .. Len(history') - 1 :
                history'[k] = history[k + Len(history) + 1 - Len(history')]
      <3>1. history \in Seq(Item) /\ item \in Item /\ history' = Push(history, item)
        BY <2>3, <2>6
      <3> HIDE DEF TypeOK, InHand, HistoryInv
      <3> QED
        BY <2>5, <3>1, PushWindow
    <2>10. Len(history') = IF sequence' < BufferSize THEN sequence' ELSE BufferSize
      BY <2>4, <2>6, <2>9, SamplerAssumption DEF HistoryWindow
    <2>11. ASSUME NEW k \in 1 .. Len(history')
           PROVE  /\ history'[k].seq = sequence' - Len(history') + k
                  /\ history'[k].snap = history'[k].seq
      <3>1. CASE k = Len(history')
        BY <2>3, <2>6, <2>8, <2>9, <3>1
      <3>2. CASE k < Len(history')
        <4> DEFINE j == k + Len(history) + 1 - Len(history')
        <4>1. j \in 1 .. Len(history)
          BY <2>4, <2>5, <2>8, <2>9, <3>2, SamplerAssumption
        <4>2. history'[k] = history[j]
          <5>1. k \in 1 .. Len(history') - 1
            BY <2>8, <3>2
          <5> QED
            BY <2>9, <5>1
        <4>3. history[j].seq = sequence - Len(history) + j /\ history[j].snap = history[j].seq
          BY <2>4, <4>1 DEF HistoryWindow
        <4>4. j = k + Len(history) + 1 - Len(history')
          OBVIOUS
        <4> HIDE DEF j
        <4>5. sequence - Len(history) + j = sequence' - Len(history') + k
          BY <2>4, <2>6, <2>8, <4>1, <4>4
        <4> QED
          BY <4>2, <4>3, <4>5
      <3>3. k = Len(history') \/ k < Len(history')
        <4> DEFINE n == Len(history')
        <4>1. n \in Nat /\ k \in 1 .. n
          BY <2>8
        <4> HIDE DEF n
        <4>2. k = n \/ k < n
          BY <4>1
        <4> QED
          BY <4>2 DEF n
      <3> QED
        BY <3>1, <3>2, <3>3, Zenon
    <2> QED
      BY <2>2, <2>8, <2>10, <2>11 DEF HistoryWindow
  <1>3. CASE /\ UNCHANGED <<sequence, history, hand, taken>>
             /\ \A w \in Workers : pc[w]' = "publish" <=> pc[w] = "publish"
    BY <1>3 DEF HistoryWindow
  <1>4. ASSUME NEW c \in Clients, ClientStep(c) PROVE HistoryInv'
    <2>1. UNCHANGED ringVars /\ \A w \in Workers : pc[w]' = "publish" <=> pc[w] = "publish"
      <3>1. CASE Start(c)
        <4>1. CASE ThreadIsAlive
          BY <3>1, <4>1 DEF Start, workerVars
        <4>2. CASE ~ThreadIsAlive
          <5>1. \A w \in Workers : pc[w] # "publish"
            BY <4>2 DEF ThreadIsAlive, AtMostOneWorker, Alive, AlivePc, Workers, None
          <5> QED
            BY <3>1, <4>2, <5>1 DEF Start, NewWorker, Goto
        <4> QED
          BY <4>1, <4>2
      <3>2. CASE StartFails(c)
        BY <3>2 DEF StartFails, Goto, ThreadIsAlive, AtMostOneWorker, Alive, AlivePc, Workers, None
      <3>3. CASE Stop(c) \/ JoinReturns(c) \/ JoinTimesOut(c)
        BY <3>3 DEF Stop, JoinReturns, JoinTimesOut, workerVars
      <3> QED
        BY <1>4, <3>1, <3>2, <3>3 DEF ClientStep
    <2> QED
      BY <1>3, <2>1 DEF ringVars
  <1>5. ASSUME NEW v \in Workers,
               \/ Begin(v) \/ Test(v) \/ CallbackReturns(v) \/ IntervalElapses(v)
               \/ WakeOnStop(v) \/ Finally(v) \/ Exit(v)
               \/ CallbackStops(v) \/ CallbackStarts(v) \/ WorkerRaises(v)
        PROVE  HistoryInv'
    <2>1. UNCHANGED ringVars /\ \A w \in Workers : pc[w]' = "publish" <=> pc[w] = "publish"
      BY <1>5 DEF Begin, Test, CallbackReturns, IntervalElapses, WakeOnStop, Finally, Exit,
                  CallbackStops, CallbackStarts, WorkerRaises, Goto, workerVars
    <2> QED
      BY <1>3, <2>1 DEF ringVars
  <1>6. ASSUME NEW i \in Iterators, IterStep(i) PROVE HistoryInv'
    BY <1>3, <1>6 DEF IterStep, Open, Check, Yield, Resume, Close, workerVars, ringVars
  <1>7. CASE UNCHANGED vars
    BY <1>3, <1>7 DEF vars, workerVars, ringVars
  <1> HIDE DEF HistoryInv
  <1> QED
    BY <1>1, <1>2, <1>4, <1>5, <1>6, <1>7 DEF Next, WorkerStep, WorkerProgress

LEMMA HistoryAlways == Spec => []HistoryInv
  <1>1. Init => HistoryInv
    BY SamplerAssumption, EmptySeq DEF Init, HistoryInv, InHand, HistoryWindow
  <1> QED
    BY <1>1, TypeCorrect, OneWorker, HistoryStep, PTL DEF Spec

\* The history is the window of the newest snapshots, whatever the buffer size.
THEOREM Window == Spec => []HistoryWindow
  BY HistoryAlways, PTL DEF HistoryInv
-----------------------------------------------------------------------------
(***************************************************************************)
(* A stop() that nothing overtook captured the thread self._thread still   *)
(* holds, so its death leaves no worker alive.                             *)
(***************************************************************************)
QuietInv ==
    /\ \A c \in Clients : client[c] = "joining" => target[c] = thread
    /\ StoppedMeansQuiet

LEMMA QuietStep ==
  ASSUME TypeOK, AtMostOneWorker, QuietInv, [Next]_vars
  PROVE  QuietInv'
  <1> USE DEF TypeOK, QuietInv, StoppedMeansQuiet
  <1>1. ASSUME NEW c \in Clients, Start(c) \/ StartFails(c) PROVE QuietInv'
    <2>1. \A d \in Clients : client'[d] \in {"idle", "overtaken"}
      BY <1>1 DEF Start, StartFails, StartCalled
    <2> QED
      BY <2>1
  <1>2. ASSUME NEW c \in Clients, Stop(c) PROVE QuietInv'
    <2>1. thread = None => \A w \in Workers : ~Alive(w)
      BY DEF AtMostOneWorker, Workers, None
    <2>2. \A w \in Workers : Alive(w)' <=> Alive(w)
      BY <1>2 DEF Stop, Alive
    <2> QED
      BY <1>2, <2>1, <2>2 DEF Stop
  <1>3. ASSUME NEW c \in Clients, JoinReturns(c) PROVE QuietInv'
    <2>1. client[c] = "joining" => \A w \in Workers : ~Alive(w)
      BY <1>3 DEF JoinReturns, AtMostOneWorker
    <2>2. \A w \in Workers : Alive(w)' <=> Alive(w)
      BY <1>3 DEF JoinReturns, Alive, workerVars
    <2>3. \A d \in Clients : \/ d # c /\ client'[d] = client[d]
                             \/ d = c /\ client'[d] = IF client[c] = "joining" THEN "stopped" ELSE "idle"
      BY <1>3 DEF JoinReturns
    <2> QED
      BY <1>3, <2>1, <2>2, <2>3 DEF JoinReturns, workerVars
  <1>4. ASSUME NEW c \in Clients, JoinTimesOut(c) PROVE QuietInv'
    BY <1>4 DEF JoinTimesOut, Alive, workerVars
  <1>5. CASE /\ UNCHANGED <<thread, client, target>>
             /\ \A w \in Workers : Alive(w)' => Alive(w)
    BY <1>5
  <1>6. ASSUME NEW v \in Workers, WorkerStep(v) PROVE QuietInv'
    <2>1. UNCHANGED <<thread, client, target>> /\ \A w \in Workers : Alive(w)' => Alive(w)
      BY <1>6 DEF WorkerStep, WorkerProgress, Begin, Test, Collect, Publish, CallbackReturns,
                  IntervalElapses, WakeOnStop, Finally, Exit, CallbackStops, CallbackStarts,
                  WorkerRaises, Goto, Alive, AlivePc, workerVars, clientVars
    <2> QED
      BY <1>5, <2>1
  <1>7. ASSUME NEW i \in Iterators, IterStep(i) PROVE QuietInv'
    BY <1>5, <1>7 DEF IterStep, Open, Check, Yield, Resume, Close, Alive, workerVars, clientVars
  <1>8. CASE UNCHANGED vars
    BY <1>5, <1>8 DEF vars, Alive, workerVars, clientVars
  <1> HIDE DEF QuietInv, TypeOK
  <1> QED
    BY <1>1, <1>2, <1>3, <1>4, <1>6, <1>7, <1>8 DEF Next, ClientStep

\* After a stop() that returned and was not overtaken no worker is alive.
THEOREM Quiet == Spec => []StoppedMeansQuiet
  <1>1. Init => QuietInv
    BY DEF Init, QuietInv, StoppedMeansQuiet
  <1>2. Spec => []QuietInv
    BY <1>1, TypeCorrect, OneWorker, QuietStep, PTL DEF Spec
  <1> QED
    BY <1>2, PTL DEF QuietInv
-----------------------------------------------------------------------------
(***************************************************************************)
(* The iterators.  A generator that waits has seen everything published;   *)
(* one that holds items holds a suffix, from some point, of the history as *)
(* it was when it took them.                                               *)
(***************************************************************************)
CursorInv ==
    \A i \in Iterators :
        /\ cursor[i] \in 1 .. sequence + 1
        /\ \A item \in batch[i] : item.seq \in cursor[i] .. sequence /\ item.snap = item.seq

IterInv == CursorInv /\ NoLostWakeup /\ SkipsOnlyOverwritten

LEMMA ItemIdentity ==
  ASSUME NEW a \in Item, NEW b \in Item, a.seq = b.seq, a.snap = b.snap
  PROVE  a = b
  BY DEF Item

LEMMA IterFrame ==
  ASSUME TypeOK, IterInv, UNCHANGED <<sequence, cursor, batch>>,
         \A i \in Iterators : iter'[i] = "wait" => iter[i] = "wait"
  PROVE  IterInv'
  BY DEF IterInv, CursorInv, NoLostWakeup, SkipsOnlyOverwritten

LEMMA IterInvStep ==
  ASSUME TypeOK, TypeOK', HistoryWindow, IterInv, [Next]_vars
  PROVE  IterInv'
  <1> USE DEF TypeOK
  <1>1. ASSUME NEW c \in Clients, ClientStep(c) PROVE IterInv'
    <2>1. /\ UNCHANGED <<sequence, cursor, batch>>
          /\ \A i \in Iterators : iter'[i] = "wait" => iter[i] = "wait"
      BY <1>1 DEF ClientStep, Start, StartFails, Stop, JoinReturns, JoinTimesOut, NotifyAll,
                  ringVars, iterVars
    <2> QED
      BY <2>1, IterFrame
  <1>2. ASSUME NEW w \in Workers, Publish(w) PROVE IterInv'
    <2>1. /\ sequence' = sequence + 1
          /\ UNCHANGED <<cursor, batch>>
          /\ \A i \in Iterators : iter'[i] # "wait"
      BY <1>2 DEF Publish, NotifyAll
    <2>2. CursorInv' /\ NoLostWakeup'
      BY <2>1 DEF IterInv, CursorInv, NoLostWakeup
    <2>3. SkipsOnlyOverwritten'
      <3> SUFFICES ASSUME NEW i \in Iterators, NEW item \in batch'[i],
                          NEW s \in cursor'[i] .. item.seq, s > sequence' - BufferSize
                   PROVE  \E held \in batch'[i] : held.seq = s
        BY DEF SkipsOnlyOverwritten
      <3>1. item \in batch[i] /\ s \in cursor[i] .. item.seq
        BY <2>1
      <3>2. s > sequence - BufferSize
        <4>1. item.seq \in Nat /\ cursor[i] \in Nat
          BY <3>1 DEF Item
        <4> QED
          BY <2>1, <3>1, <4>1, SamplerAssumption
      <3> QED
        BY <2>1, <3>1, <3>2 DEF IterInv, SkipsOnlyOverwritten
    <2> QED
      BY <2>2, <2>3 DEF IterInv
  <1>3. ASSUME NEW v \in Workers,
               \/ Begin(v) \/ Test(v) \/ Collect(v) \/ CallbackReturns(v) \/ IntervalElapses(v)
               \/ WakeOnStop(v) \/ Finally(v) \/ Exit(v)
               \/ CallbackStops(v) \/ CallbackStarts(v) \/ WorkerRaises(v)
        PROVE  IterInv'
    <2>1. /\ UNCHANGED <<sequence, cursor, batch>>
          /\ \A i \in Iterators : iter'[i] = "wait" => iter[i] = "wait"
      BY <1>3 DEF Begin, Test, Collect, CallbackReturns, IntervalElapses, WakeOnStop, Finally,
                  Exit, CallbackStops, CallbackStarts, WorkerRaises, NotifyAll, ringVars, iterVars
    <2> QED
      BY <2>1, IterFrame
  <1>4. ASSUME NEW i \in Iterators, Check(i) PROVE IterInv'
    <2>1. Len(history) \in Nat /\ DOMAIN history = 1 .. Len(history)
      BY LenProperties
    <2>2. \A item \in Available(i) : item.seq \in cursor[i] .. sequence /\ item.snap = item.seq
      BY <2>1, SamplerAssumption DEF Available, Contents, HistoryWindow
    <2>3. ASSUME NEW s \in cursor[i] .. sequence, s > sequence - BufferSize
          PROVE  \E held \in Available(i) : held.seq = s
      <3>0. cursor[i] >= 1
        BY DEF IterInv, CursorInv
      <3> DEFINE k == s - sequence + Len(history)
      <3>1. k \in 1 .. Len(history)
        BY <2>1, <2>3, <3>0, SamplerAssumption DEF HistoryWindow
      <3>2. history[k].seq = s
        <4>1. history[k].seq = sequence - Len(history) + k
          BY <2>1, <3>1 DEF HistoryWindow
        <4>2. sequence - Len(history) + k = s
          BY <2>1
        <4> QED
          BY <4>1, <4>2
      <3>3. history[k] \in Available(i)
        <4>1. history[k] \in Contents(history)
          BY <2>1, <3>1 DEF Contents
        <4>2. history[k].seq >= cursor[i]
          BY <3>2
        <4> QED
          BY <4>1, <4>2, Zenon DEF Available
      <3> QED
        BY <3>2, <3>3
    <2>4. /\ UNCHANGED <<sequence, cursor>>
          /\ batch' = [batch EXCEPT ![i] = Available(i)]
          /\ \A j \in Iterators : j # i => iter'[j] = iter[j]
          /\ iter'[i] = "wait" => Available(i) = {}
      BY <1>4 DEF Check, ringVars
    <2>5. CursorInv'
      BY <2>2, <2>4 DEF IterInv, CursorInv
    <2>6. NoLostWakeup'
      <3>1. Available(i) = {} => sequence < cursor[i]
        <4> SUFFICES ASSUME Available(i) = {}, cursor[i] <= sequence PROVE FALSE
          OBVIOUS
        <4>1. sequence \in cursor[i] .. sequence /\ sequence > sequence - BufferSize
          BY SamplerAssumption
        <4> QED
          BY <2>3, <4>1
      <3> QED
        BY <2>4, <3>1 DEF IterInv, NoLostWakeup
    <2>7. SkipsOnlyOverwritten'
      <3> SUFFICES ASSUME NEW j \in Iterators, NEW item \in batch'[j],
                          NEW s \in cursor[j] .. item.seq, s > sequence - BufferSize
                   PROVE  \E held \in batch'[j] : held.seq = s
        BY <2>4 DEF SkipsOnlyOverwritten
      <3>1. CASE j = i
        <4>1. item \in Available(i) /\ batch'[j] = Available(i)
          BY <2>4, <3>1
        <4>2. s \in cursor[i] .. sequence
          BY <2>2, <3>1, <4>1
        <4> QED
          BY <2>3, <4>1, <4>2
      <3>2. CASE j # i
        BY <2>4, <3>2 DEF IterInv, SkipsOnlyOverwritten
      <3> QED
        BY <3>1, <3>2
    <2> QED
      BY <2>5, <2>6, <2>7 DEF IterInv
  <1>5. ASSUME NEW i \in Iterators, Yield(i) PROVE IterInv'
    <2>1. PICK item \in batch[i] :
            /\ \A other \in batch[i] : item.seq <= other.seq
            /\ cursor' = [cursor EXCEPT ![i] = item.seq + 1]
            /\ batch' = [batch EXCEPT ![i] = @ \ {item}]
      BY <1>5 DEF Yield
    <2>2. UNCHANGED sequence /\ iter' = [iter EXCEPT ![i] = "yielded"]
      BY <1>5 DEF Yield, ringVars
    <2>3. item.seq \in Nat /\ item.seq \in cursor[i] .. sequence /\ cursor[i] \in 1 .. sequence + 1
      BY DEF IterInv, CursorInv, Item
    <2>4. ASSUME NEW other \in batch[i] \ {item} PROVE other.seq \in item.seq + 1 .. sequence
      <3>1. /\ other \in Item /\ other.snap = other.seq
            /\ item \in Item /\ item.snap = item.seq
        BY DEF IterInv, CursorInv
      <3>2. other.seq # item.seq
        BY <3>1, ItemIdentity
      <3> QED
        BY <2>1, <2>3, <3>1, <3>2 DEF IterInv, CursorInv, Item
    <2>5. cursor'[i] = item.seq + 1 /\ batch'[i] = batch[i] \ {item}
      BY <2>1
    <2>6. CursorInv'
      <3> SUFFICES ASSUME NEW j \in Iterators
                   PROVE  /\ cursor'[j] \in 1 .. sequence + 1
                          /\ \A other \in batch'[j] :
                                other.seq \in cursor'[j] .. sequence /\ other.snap = other.seq
        BY <2>2 DEF CursorInv
      <3>1. CASE j # i
        BY <2>1, <3>1 DEF IterInv, CursorInv
      <3>2. CASE j = i
        BY <2>3, <2>4, <2>5, <3>2 DEF IterInv, CursorInv
      <3> QED
        BY <3>1, <3>2
    <2>7. NoLostWakeup'
      BY <2>1, <2>2 DEF IterInv, NoLostWakeup
    <2>8. SkipsOnlyOverwritten'
      <3> SUFFICES ASSUME NEW j \in Iterators, NEW other \in batch'[j],
                          NEW s \in cursor'[j] .. other.seq, s > sequence - BufferSize
                   PROVE  \E held \in batch'[j] : held.seq = s
        BY <2>2 DEF SkipsOnlyOverwritten
      <3>1. CASE j # i
        BY <2>1, <3>1 DEF IterInv, SkipsOnlyOverwritten
      <3>2. CASE j = i
        <4>1. other \in batch[i] /\ other.seq \in Nat
          BY <2>5, <3>2 DEF Item
        <4>2. s \in cursor[i] .. other.seq /\ s > item.seq
          BY <2>3, <2>5, <3>2, <4>1
        <4>3. PICK held \in batch[i] : held.seq = s
          BY <4>1, <4>2 DEF IterInv, SkipsOnlyOverwritten
        <4>4. held # item
          BY <2>3, <4>2, <4>3
        <4> QED
          BY <2>5, <3>2, <4>3, <4>4
      <3> QED
        BY <3>1, <3>2
    <2> QED
      BY <2>6, <2>7, <2>8 DEF IterInv
  <1>6. ASSUME NEW i \in Iterators, Open(i) \/ Resume(i) PROVE IterInv'
    <2>1. /\ UNCHANGED <<sequence, cursor, batch>>
          /\ \A j \in Iterators : iter'[j] = "wait" => iter[j] = "wait"
      BY <1>6 DEF Open, Resume, ringVars
    <2> QED
      BY <2>1, IterFrame
  <1>7. ASSUME NEW i \in Iterators, Close(i) PROVE IterInv'
    <2>1. /\ UNCHANGED <<sequence, cursor>>
          /\ \A j \in Iterators : iter'[j] = "wait" => iter[j] = "wait"
          /\ \A j \in Iterators : batch'[j] = {} \/ batch'[j] = batch[j]
      BY <1>7 DEF Close, ringVars
    <2>2. CursorInv' /\ NoLostWakeup'
      BY <2>1 DEF IterInv, CursorInv, NoLostWakeup
    <2>3. ASSUME NEW j \in Iterators, NEW item \in batch'[j]
          PROVE  batch'[j] = batch[j] /\ cursor'[j] = cursor[j]
      BY <2>1
    <2>4. SkipsOnlyOverwritten'
      BY <2>1, <2>3 DEF IterInv, SkipsOnlyOverwritten
    <2> QED
      BY <2>2, <2>4 DEF IterInv
  <1>8. CASE UNCHANGED vars
    BY <1>8, IterFrame DEF vars, ringVars, iterVars
  <1> HIDE DEF TypeOK
  <1> QED
    BY <1>1, <1>2, <1>3, <1>4, <1>5, <1>6, <1>7, <1>8
    DEF Next, WorkerStep, WorkerProgress, IterStep

LEMMA IterAlways == Spec => []IterInv
  <1>1. Init => IterInv
    BY DEF Init, IterInv, CursorInv, NoLostWakeup, SkipsOnlyOverwritten
  <1> QED
    BY <1>1, TypeCorrect, Window, IterInvStep, PTL DEF Spec

\* A generator that waits has yielded every snapshot published so far.
THEOREM WaitersAreCurrent == Spec => []NoLostWakeup
  BY IterAlways, PTL DEF IterInv

\* A slow consumer loses only what the ring has overwritten.
THEOREM HonestSkips == Spec => []SkipsOnlyOverwritten
  BY IterAlways, PTL DEF IterInv
-----------------------------------------------------------------------------
(***************************************************************************)
(* The sampler implements the feed.  With at most one worker, the phase of *)
(* the feed is a function of the state of the thread the sampler holds.    *)
(***************************************************************************)
ThreadPhase ==
    /\ Phase = IF ~ThreadIsAlive THEN "stopped"
               ELSE IF stopSet \/ pc[thread] \in {"finally", "exiting"} THEN "stopping"
               ELSE "running"
    /\ InFlight = IF ThreadIsAlive /\ pc[thread] \in {"collect", "publish"} THEN 1 ELSE 0

LEMMA PhaseOfThread == TypeOK /\ AtMostOneWorker => ThreadPhase
  <1> SUFFICES ASSUME TypeOK, AtMostOneWorker PROVE ThreadPhase
    OBVIOUS
  <1> USE DEF TypeOK, AtMostOneWorker, ThreadIsAlive, Alive, Workers, None
  <1>1. CASE ~ThreadIsAlive
    BY <1>1 DEF ThreadPhase, Phase, InFlight, AlivePc
  <1>2. CASE ThreadIsAlive
    <2>1. thread \in Workers /\ \A w \in Workers : w # thread => ~Alive(w)
      BY <1>2
    <2>2. Ending <=> stopSet \/ pc[thread] \in {"finally", "exiting"}
      BY <2>1 DEF Ending, AlivePc
    <2>3. (\E w \in Workers : pc[w] \in {"collect", "publish"}) <=> pc[thread] \in {"collect", "publish"}
      BY <2>1 DEF AlivePc
    <2>4. Phase = IF Ending THEN "stopping" ELSE "running"
      BY <1>2, <2>1 DEF Phase
    <2> QED
      BY <1>2, <2>2, <2>3, <2>4 DEF ThreadPhase, InFlight
  <1> QED
    BY <1>1, <1>2

Seen == [i \in Iterators |-> cursor[i] - 1]

\* Only the thread object the sampler holds takes a worker's steps.
LEMMA WorkerIsThread ==
  ASSUME TypeOK, AtMostOneWorker, NEW w \in Workers, Alive(w)
  PROVE  ThreadIsAlive /\ thread = w
  BY DEF AtMostOneWorker, ThreadIsAlive, Workers, None

\* The phase and the sample in flight after a worker has moved on to `to`.
LEMMA WorkerMoves ==
  ASSUME TypeOK, AtMostOneWorker, ThreadPhase, ThreadPhase',
         NEW w \in Workers, Alive(w), NEW to \in AlivePc \cup {"dead"},
         Goto(w, to), thread' = thread
  PROVE  /\ Phase = IF stopSet \/ pc[w] \in {"finally", "exiting"} THEN "stopping" ELSE "running"
         /\ InFlight = IF pc[w] \in {"collect", "publish"} THEN 1 ELSE 0
         /\ Phase' = IF to = "dead" THEN "stopped"
                     ELSE IF stopSet' \/ to \in {"finally", "exiting"} THEN "stopping"
                     ELSE "running"
         /\ InFlight' = IF to \in {"collect", "publish"} THEN 1 ELSE 0
  <1>1. ThreadIsAlive /\ thread = w
    BY WorkerIsThread
  <1>2. pc'[thread'] = to /\ thread' # None
    BY <1>1 DEF TypeOK, Goto, ThreadIsAlive
  <1>3. ThreadIsAlive' <=> to # "dead"
    BY <1>2 DEF ThreadIsAlive, Alive, AlivePc
  <1> QED
    BY <1>1, <1>2, <1>3 DEF ThreadPhase

LEMMA WorkerStutters ==
  ASSUME TypeOK, AtMostOneWorker, ThreadPhase, ThreadPhase',
         NEW w \in Workers, Alive(w), NEW to \in AlivePc,
         Goto(w, to), UNCHANGED <<thread, stopSet, sequence, cursor>>,
         pc[w] \in {"collect", "publish"} <=> to \in {"collect", "publish"},
         stopSet \/ (pc[w] \in {"finally", "exiting"} <=> to \in {"finally", "exiting"})
  PROVE  UNCHANGED <<Phase, InFlight, sequence, cursor>>
  <1>1. /\ Phase = IF stopSet \/ pc[w] \in {"finally", "exiting"} THEN "stopping" ELSE "running"
        /\ InFlight = IF pc[w] \in {"collect", "publish"} THEN 1 ELSE 0
        /\ Phase' = IF stopSet' \/ to \in {"finally", "exiting"} THEN "stopping" ELSE "running"
        /\ InFlight' = IF to \in {"collect", "publish"} THEN 1 ELSE 0
    BY WorkerMoves DEF AlivePc
  <1>2. stopSet' <=> stopSet
    OBVIOUS
  <1>3. CASE stopSet
    BY <1>1, <1>2, <1>3
  <1>4. CASE ~stopSet
    BY <1>1, <1>2, <1>4
  <1> QED
    BY <1>3, <1>4

LEMMA FeedStep ==
  ASSUME TypeOK, AtMostOneWorker, IterInv, ThreadPhase, ThreadPhase', [Next]_vars
  PROVE  [Feed!FeedNext]_(Feed!feedVars)
  <1> USE DEF TypeOK
  <1>1. CASE UNCHANGED <<Phase, InFlight, sequence, cursor>>
    BY <1>1 DEF Feed!feedVars
  <1>2. CASE UNCHANGED <<thread, stopSet, pc, sequence, cursor>>
    BY <1>1, <1>2 DEF Phase, InFlight, Ending, Alive
  <1>3. ASSUME NEW c \in Clients, Start(c) PROVE [Feed!FeedNext]_(Feed!feedVars)
    <2>1. CASE ThreadIsAlive
      BY <1>2, <1>3, <2>1 DEF Start, workerVars, ringVars, iterVars
    <2>2. CASE ~ThreadIsAlive
      <3>1. /\ thread' = thread + 1 /\ stopSet' = FALSE
            /\ pc' = [pc EXCEPT ![thread + 1] = "begin"]
        BY <1>3, <2>2 DEF Start, NewWorker, Goto
      <3>2. thread + 1 \in Workers /\ thread + 1 # None
        BY <1>3, <2>2, SamplerAssumption DEF Start, NewWorker, Workers, None
      <3>3. pc'[thread'] = "begin" /\ thread' # None
        BY <3>1, <3>2
      <3>4. Phase = "stopped" /\ InFlight = 0
        BY <2>2 DEF ThreadPhase
      <3>5. Phase' = "running" /\ InFlight' = 0
        BY <3>1, <3>3 DEF ThreadPhase, ThreadIsAlive, Alive, AlivePc
      <3>6. Feed!Begin
        BY <1>3, <3>4, <3>5 DEF Feed!Begin, Start, ringVars, iterVars
      <3> QED
        BY <3>6 DEF Feed!FeedNext
    <2> QED
      BY <2>1, <2>2
  <1>4. ASSUME NEW c \in Clients, StartFails(c) PROVE [Feed!FeedNext]_(Feed!feedVars)
    <2>1. thread' = thread + 1 /\ pc' = [pc EXCEPT ![thread + 1] = "unstarted"]
      BY <1>4 DEF StartFails, Goto
    <2>2. thread + 1 \in Workers
      BY <1>4, SamplerAssumption DEF StartFails, Workers, None
    <2>3. pc'[thread'] = "unstarted"
      BY <2>1, <2>2
    <2>4. ~ThreadIsAlive /\ ~ThreadIsAlive'
      BY <1>4, <2>3 DEF StartFails, ThreadIsAlive, Alive, AlivePc
    <2>5. UNCHANGED <<Phase, InFlight>>
      BY <2>4 DEF ThreadPhase
    <2> QED
      BY <1>1, <1>4, <2>5 DEF StartFails, ringVars, iterVars
  <1>5. ASSUME stopSet' = TRUE, UNCHANGED <<thread, pc, sequence, cursor>>
        PROVE  [Feed!FeedNext]_(Feed!feedVars)
    <2>1. InFlight' = InFlight /\ (ThreadIsAlive' <=> ThreadIsAlive)
      BY <1>5 DEF ThreadIsAlive, Alive, InFlight
    <2>2. CASE Phase = "running"
      <3>1. Phase' = "stopping"
        BY <1>5, <2>1, <2>2 DEF ThreadPhase
      <3>2. Feed!RequestStop
        BY <1>5, <2>1, <2>2, <3>1 DEF Feed!RequestStop
      <3> QED
        BY <3>2 DEF Feed!FeedNext
    <2>3. CASE Phase # "running"
      <3>1. Phase' = Phase
        BY <1>5, <2>1, <2>3 DEF ThreadPhase
      <3> QED
        BY <1>1, <1>5, <2>1, <3>1
    <2> QED
      BY <2>2, <2>3
  <1>6. ASSUME NEW c \in Clients, Stop(c) PROVE [Feed!FeedNext]_(Feed!feedVars)
    BY <1>5, <1>6 DEF Stop, ringVars
  <1>7. ASSUME NEW c \in Clients, JoinReturns(c) \/ JoinTimesOut(c)
        PROVE  [Feed!FeedNext]_(Feed!feedVars)
    BY <1>2, <1>7 DEF JoinReturns, JoinTimesOut, workerVars, ringVars, iterVars
  <1>8. ASSUME NEW w \in Workers, CallbackStops(w) PROVE [Feed!FeedNext]_(Feed!feedVars)
    BY <1>5, <1>8 DEF CallbackStops, ringVars
  <1>9. ASSUME NEW w \in Workers, CallbackStarts(w) PROVE [Feed!FeedNext]_(Feed!feedVars)
    BY <1>2, <1>9 DEF CallbackStarts, workerVars, ringVars, iterVars
  <1>10. ASSUME NEW w \in Workers,
                Begin(w) \/ CallbackReturns(w) \/ IntervalElapses(w) \/ WakeOnStop(w) \/ Finally(w)
         PROVE  UNCHANGED <<Phase, InFlight, sequence, cursor>>
    <2>1. CASE Begin(w)
      <3>1. /\ Alive(w) /\ Goto(w, "test") /\ "test" \in AlivePc /\ pc[w] = "begin"
            /\ UNCHANGED <<thread, stopSet, sequence, cursor>>
        BY <2>1 DEF Begin, Alive, AlivePc, ringVars, iterVars
      <3> QED
        BY <3>1, WorkerStutters
    <2>2. CASE CallbackReturns(w)
      <3>1. /\ Alive(w) /\ Goto(w, "sleep") /\ "sleep" \in AlivePc /\ pc[w] = "callback"
            /\ UNCHANGED <<thread, stopSet, sequence, cursor>>
        BY <2>2 DEF CallbackReturns, Alive, AlivePc, ringVars, iterVars
      <3> QED
        BY <3>1, WorkerStutters
    <2>3. CASE IntervalElapses(w)
      <3>1. /\ Alive(w) /\ Goto(w, "test") /\ "test" \in AlivePc /\ pc[w] = "sleep"
            /\ UNCHANGED <<thread, stopSet, sequence, cursor>>
        BY <2>3 DEF IntervalElapses, Alive, AlivePc, ringVars, iterVars
      <3> QED
        BY <3>1, WorkerStutters
    <2>4. CASE WakeOnStop(w)
      <3>1. /\ Alive(w) /\ Goto(w, "finally") /\ "finally" \in AlivePc /\ pc[w] = "sleep" /\ stopSet
            /\ UNCHANGED <<thread, stopSet, sequence, cursor>>
        BY <2>4 DEF WakeOnStop, Alive, AlivePc, ringVars, iterVars
      <3> QED
        BY <3>1, WorkerStutters
    <2>5. CASE Finally(w)
      <3>1. /\ Alive(w) /\ Goto(w, "exiting") /\ "exiting" \in AlivePc /\ pc[w] = "finally"
            /\ UNCHANGED <<thread, stopSet, sequence, cursor>>
        BY <2>5 DEF Finally, Alive, AlivePc, ringVars, iterVars
      <3> QED
        BY <3>1, WorkerStutters
    <2> QED
      BY <1>10, <2>1, <2>2, <2>3, <2>4, <2>5
  <1>11. ASSUME NEW w \in Workers, Test(w) PROVE [Feed!FeedNext]_(Feed!feedVars)
    <2>1. /\ pc[w] = "test" /\ Alive(w)
          /\ UNCHANGED <<thread, stopSet, sequence, cursor>>
      BY <1>11 DEF Test, Alive, AlivePc, ringVars, iterVars
    <2>2. CASE stopSet
      <3>1. Goto(w, "finally") /\ "finally" \in AlivePc
        BY <1>11, <2>2 DEF Test, AlivePc
      <3>2. UNCHANGED <<Phase, InFlight, sequence, cursor>>
        BY <2>1, <2>2, <3>1, WorkerStutters
      <3> QED
        BY <1>1, <3>2
    <2>3. CASE ~stopSet
      <3>1. Goto(w, "collect") /\ "collect" \in AlivePc
        BY <1>11, <2>3 DEF Test, AlivePc
      <3>2. Phase = "running" /\ Phase' = "running" /\ InFlight = 0 /\ InFlight' = 1
        BY <2>1, <2>3, <3>1, WorkerMoves
      <3>3. Feed!TakeSample
        BY <2>1, <3>2 DEF Feed!TakeSample
      <3> QED
        BY <3>3 DEF Feed!FeedNext
    <2> QED
      BY <2>2, <2>3
  <1>12. ASSUME NEW w \in Workers, Collect(w) PROVE [Feed!FeedNext]_(Feed!feedVars)
    <2>1. /\ pc[w] = "collect" /\ Alive(w) /\ Goto(w, "publish") /\ "publish" \in AlivePc
          /\ UNCHANGED <<thread, stopSet, sequence, cursor>>
      BY <1>12 DEF Collect, Alive, AlivePc, iterVars
    <2>2. UNCHANGED <<Phase, InFlight, sequence, cursor>>
      BY <2>1, WorkerStutters
    <2> QED
      BY <1>1, <2>2
  <1>13. ASSUME NEW w \in Workers, Publish(w) PROVE [Feed!FeedNext]_(Feed!feedVars)
    <2>1. /\ pc[w] = "publish" /\ Alive(w) /\ Goto(w, "callback") /\ "callback" \in AlivePc
          /\ UNCHANGED <<thread, stopSet, cursor>> /\ sequence' = sequence + 1
      BY <1>13 DEF Publish, Alive, AlivePc
    <2>2. /\ Phase = IF stopSet THEN "stopping" ELSE "running"
          /\ Phase' = IF stopSet' THEN "stopping" ELSE "running"
          /\ InFlight = 1 /\ InFlight' = 0
      <3> HIDE DEF TypeOK
      <3> QED
        BY <2>1, WorkerMoves
    <2>3. Phase' = Phase
      BY <2>1, <2>2
    <2>4. Feed!PublishSample
      BY <2>1, <2>2, <2>3 DEF Feed!PublishSample
    <2> QED
      BY <2>4 DEF Feed!FeedNext
  <1>14. ASSUME NEW w \in Workers, WorkerRaises(w) PROVE [Feed!FeedNext]_(Feed!feedVars)
    <2>1. /\ pc[w] \in {"collect", "callback", "sleep"} /\ Alive(w)
          /\ Goto(w, "finally") /\ "finally" \in AlivePc
          /\ UNCHANGED <<thread, stopSet, sequence, cursor>>
      BY <1>14 DEF WorkerRaises, Alive, AlivePc, ringVars, iterVars
    <2>2. /\ Phase = IF stopSet THEN "stopping" ELSE "running"
          /\ InFlight = IF pc[w] = "collect" THEN 1 ELSE 0
          /\ Phase' = "stopping" /\ InFlight' = 0
      BY <2>1, WorkerMoves
    <2>3. CASE pc[w] = "collect"
      <3>1. Feed!Abort
        BY <2>1, <2>2, <2>3 DEF Feed!Abort
      <3> QED
        BY <3>1 DEF Feed!FeedNext
    <2>4. CASE pc[w] # "collect" /\ ~stopSet
      <3>1. Feed!RequestStop
        BY <2>1, <2>2, <2>4 DEF Feed!RequestStop
      <3> QED
        BY <3>1 DEF Feed!FeedNext
    <2>5. CASE pc[w] # "collect" /\ stopSet
      BY <1>1, <2>1, <2>2, <2>5
    <2> QED
      BY <2>3, <2>4, <2>5
  <1>15. ASSUME NEW w \in Workers, Exit(w) PROVE [Feed!FeedNext]_(Feed!feedVars)
    <2>1. /\ pc[w] = "exiting" /\ Alive(w) /\ Goto(w, "dead")
          /\ UNCHANGED <<thread, stopSet, sequence, cursor>>
      BY <1>15 DEF Exit, Alive, AlivePc, ringVars, iterVars
    <2>2. Phase = "stopping" /\ Phase' = "stopped" /\ InFlight = 0 /\ InFlight' = 0
      BY <2>1, WorkerMoves
    <2>3. Feed!End
      BY <2>1, <2>2 DEF Feed!End
    <2> QED
      BY <2>3 DEF Feed!FeedNext
  <1>16. ASSUME NEW i \in Iterators, Open(i) \/ Check(i) \/ Resume(i) \/ Close(i)
         PROVE  [Feed!FeedNext]_(Feed!feedVars)
    BY <1>2, <1>16 DEF Open, Check, Resume, Close, workerVars, ringVars
  <1>17. ASSUME NEW i \in Iterators, Yield(i) PROVE [Feed!FeedNext]_(Feed!feedVars)
    <2>1. PICK item \in batch[i] :
            /\ \A other \in batch[i] : item.seq <= other.seq
            /\ cursor' = [cursor EXCEPT ![i] = item.seq + 1]
      BY <1>17 DEF Yield
    <2>2. UNCHANGED <<thread, stopSet, pc, sequence>>
      BY <1>17 DEF Yield, workerVars, ringVars
    <2>3. UNCHANGED <<Phase, InFlight>>
      BY <2>2 DEF Phase, InFlight, Ending, Alive
    <2>4. /\ item.seq \in Nat /\ cursor[i] \in 1 .. sequence + 1
          /\ item.seq \in cursor[i] .. sequence
      BY DEF IterInv, CursorInv, Item
    <2>5. ASSUME NEW skipped \in cursor[i] .. item.seq - 1
          PROVE  skipped <= sequence - BufferSize
      <3>1. skipped \in cursor[i] .. item.seq
        BY <2>4
      <3>2. \A held \in batch[i] : held.seq # skipped
        BY <2>1, <2>4, <2>5 DEF Item
      <3> QED
        BY <2>4, <3>1, <3>2, SamplerAssumption DEF IterInv, SkipsOnlyOverwritten
    <2>6. Feed!Deliver(i, item.seq)
      <3>1. Seen[i] = cursor[i] - 1
        BY DEF Seen
      <3>2. Seen' = [Seen EXCEPT ![i] = item.seq]
        <4>1. Seen' = [j \in Iterators |-> cursor'[j] - 1]
          BY DEF Seen
        <4>2. \A j \in Iterators : cursor'[j] - 1 = IF j = i THEN item.seq ELSE Seen[j]
          BY <2>1, <2>4 DEF Seen
        <4> QED
          BY <4>1, <4>2 DEF Seen
      <3>3. Seen[i] < item.seq
        BY <2>4, <3>1
      <3>4. \A skipped \in Seen[i] + 1 .. item.seq - 1 : skipped <= sequence - BufferSize
        BY <2>4, <2>5, <3>1
      <3> QED
        BY <2>2, <2>3, <3>2, <3>3, <3>4 DEF Feed!Deliver, Seen
    <2>7. item.seq \in 1 .. sequence
      BY <2>4
    <2> QED
      BY <2>6, <2>7 DEF Feed!FeedNext
  <1>18. CASE UNCHANGED vars
    BY <1>2, <1>18 DEF vars, workerVars, ringVars, iterVars
  <1> HIDE DEF TypeOK
  <1> QED
    BY <1>1, <1>3, <1>4, <1>6, <1>7, <1>8, <1>9, <1>10, <1>11, <1>12, <1>13, <1>14, <1>15,
       <1>16, <1>17, <1>18
    DEF Next, ClientStep, WorkerStep, WorkerProgress, IterStep

\* Every behaviour of the sampler's threads is a behaviour of the feed.
THEOREM SamplerImplementsFeed == Spec => ImplementsFeed
  <1>1. Init => Feed!FeedInit
    BY DEF Init, Feed!FeedInit, Phase, InFlight, Alive, AlivePc
  <1>2. Spec => []ThreadPhase
    BY TypeCorrect, OneWorker, PhaseOfThread, PTL
  <1> QED
    BY <1>1, <1>2, TypeCorrect, OneWorker, IterAlways, FeedStep, PTL
    DEF Spec, ImplementsFeed, Feed!FeedSpec
=============================================================================
