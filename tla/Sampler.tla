------------------------------ MODULE Sampler ------------------------------
(***************************************************************************)
(* The background sampler of sweatmeter/sampler.py: one worker thread that *)
(* collects snapshots, a bounded history (deque with maxlen) it publishes  *)
(* to, clients that call start() and stop(), callbacks that call them from *)
(* the worker itself, and iterators that block until the next snapshot.    *)
(*                                                                         *)
(* Each block of the code under `with self._condition` is one action; what *)
(* happens between two blocks (a collection, a callback, a join, a wait,   *)
(* the last instructions of a thread) is a state of its own.  The clock is *)
(* left to SamplerTimed.                                                   *)
(***************************************************************************)
EXTENDS Integers, Sequences, FiniteSets

CONSTANTS Clients,       \* threads that call start() and stop()
          Iterators,     \* generator objects returned by iter(sampler)
          BufferSize,    \* maxlen of the history; 1 when buffer_size is None
          MaxStarts,     \* bound: worker threads ever created
          MaxSamples,    \* bound: no further interval elapses past this sequence
          Faults         \* subset of {"thread_start", "worker"} that may occur

ASSUME SamplerAssumption ==
    /\ BufferSize \in Nat \ {0}
    /\ MaxStarts \in Nat
    /\ MaxSamples \in Nat
    /\ Faults \subseteq {"thread_start", "worker"}

\* The Thread objects start() creates, numbered in the order of creation.
Workers == 1..MaxStarts
None == 0

VARIABLES
    thread,     \* self._thread: None or the last worker created
    stopSet,    \* self._stop_event
    pc,         \* where each worker is in _run
    hand,       \* the local `snapshot` of each worker
    taken,      \* snapshots the collector has returned so far
    sequence,   \* self._sequence
    history,    \* self._history, oldest first
    client,     \* what each client is doing or what its last call returned
    target,     \* the local `thread` of each client inside stop()
    intent,     \* what the calls so far ask for: "stop" (also once the worker
                \* broke), "start", or "late", a start() that found the worker
                \* of a stop request still alive
    iter,       \* where each generator is suspended
    cursor,     \* next_sequence of each generator
    batch       \* the part of `available` a generator has not yielded yet

workerVars == <<thread, stopSet, pc>>
ringVars == <<sequence, history, hand, taken>>
clientVars == <<client, target>>
iterVars == <<iter, cursor, batch>>
vars == <<workerVars, ringVars, clientVars, intent, iterVars>>

(***************************************************************************)
(* threading.Thread.is_alive() is still true in the finally clause of _run *)
(* and until the interpreter has torn the thread down ("exiting").         *)
(***************************************************************************)
AlivePc == {"begin", "test", "collect", "publish", "callback", "sleep", "finally", "exiting"}
WorkerPc == AlivePc \cup {"new", "unstarted", "dead"}
Alive(w) == pc[w] \in AlivePc
ThreadIsAlive == thread # None /\ Alive(thread)

Item == [seq : Nat, snap : Nat]

Init ==
    /\ thread = None
    /\ stopSet = FALSE
    /\ pc = [w \in Workers |-> "new"]
    /\ hand = [w \in Workers |-> 0]
    /\ taken = 0
    /\ sequence = 0
    /\ history = <<>>
    /\ client = [c \in Clients |-> "idle"]
    /\ target = [c \in Clients |-> None]
    /\ intent = "stop"
    /\ iter = [i \in Iterators |-> "off"]
    /\ cursor = [i \in Iterators |-> 1]
    /\ batch = [i \in Iterators |-> {}]

\* Condition.notify_all: every waiting generator goes back to its loop test.
NotifyAll ==
    iter' = [i \in Iterators |-> IF iter[i] = "wait" THEN "check" ELSE iter[i]]

Goto(w, to) == pc' = [pc EXCEPT ![w] = to]
-----------------------------------------------------------------------------
(***************************************************************************)
(* Clients.  "joining" becomes "overtaken", and a result becomes "idle",   *)
(* when some client calls start() after the stop request: only a stop()    *)
(* that nothing overtook promises anything about the threads.              *)
(***************************************************************************)
Free(c) == client[c] \notin {"joining", "overtaken"}

StartCalled ==
    client' = [c \in Clients |-> IF Free(c) THEN "idle" ELSE "overtaken"]

NewWorker ==
    /\ thread < MaxStarts
    /\ thread' = thread + 1
    /\ Goto(thread + 1, "begin")

\* Variant for the mutants: start() without its is_alive() test.
StartUnchecked(c) ==
    /\ Free(c)
    /\ StartCalled
    /\ intent' = "start"
    /\ stopSet' = FALSE
    /\ NewWorker
    /\ UNCHANGED <<ringVars, target, iterVars>>

\* Variant: the event is cleared before the is_alive() test.
StartClearsFirst(c) ==
    /\ Free(c)
    /\ StartCalled
    /\ intent' = "start"
    /\ stopSet' = FALSE
    /\ IF ThreadIsAlive THEN UNCHANGED <<thread, pc>> ELSE NewWorker
    /\ UNCHANGED <<ringVars, target, iterVars>>

\* Variant: the event is not cleared.
StartKeepsEvent(c) ==
    /\ Free(c)
    /\ ~ThreadIsAlive
    /\ StartCalled
    /\ intent' = "start"
    /\ NewWorker
    /\ UNCHANGED <<stopSet, ringVars, target, iterVars>>

\* The event is cleared and a worker is created only when none is alive.
Start(c) ==
    /\ Free(c)
    /\ StartCalled
    /\ \/ /\ ThreadIsAlive
          /\ intent' = IF intent = "start" THEN "start" ELSE "late"
          /\ UNCHANGED workerVars
       \/ /\ ~ThreadIsAlive
          /\ intent' = "start"
          /\ stopSet' = FALSE
          /\ NewWorker
    /\ UNCHANGED <<ringVars, target, iterVars>>

\* thread.start() raises: the new Thread object stays in self._thread.
StartFails(c) ==
    /\ "thread_start" \in Faults
    /\ Free(c)
    /\ ~ThreadIsAlive
    /\ thread < MaxStarts
    /\ StartCalled
    /\ intent' = "stop"
    /\ stopSet' = FALSE
    /\ thread' = thread + 1
    /\ Goto(thread + 1, "unstarted")
    /\ UNCHANGED <<ringVars, target, iterVars>>

(***************************************************************************)
(* The critical section of stop(), and what join() does at once: nothing   *)
(* to join, a thread that was never started (RuntimeError), or a wait.     *)
(***************************************************************************)
Stop(c) ==
    /\ Free(c)
    /\ stopSet' = TRUE
    /\ intent' = "stop"
    /\ target' = [target EXCEPT ![c] = thread]
    /\ client' = [client EXCEPT ![c] =
                     IF thread = None THEN "stopped"
                     ELSE IF pc[thread] = "unstarted" THEN "join_error"
                     ELSE "joining"]
    /\ NotifyAll
    /\ UNCHANGED <<thread, pc, ringVars, cursor, batch>>

\* Variant: stop() does not look at the thread again after its join().
JoinUnchecked(c) ==
    /\ ~Free(c)
    /\ client' = [client EXCEPT ![c] = IF @ = "joining" THEN "stopped" ELSE "idle"]
    /\ UNCHANGED <<workerVars, ringVars, target, intent, iterVars>>

\* Variant: stop() joins self._thread as it is then, not as it was at the request.
JoinCurrent(c) ==
    /\ ~Free(c)
    /\ ~ThreadIsAlive
    /\ client' = [client EXCEPT ![c] = IF @ = "joining" THEN "stopped" ELSE "idle"]
    /\ UNCHANGED <<workerVars, ringVars, target, intent, iterVars>>

\* join() returns, or times out, and the thread is no longer alive.
JoinReturns(c) ==
    /\ ~Free(c)
    /\ ~Alive(target[c])
    /\ client' = [client EXCEPT ![c] = IF @ = "joining" THEN "stopped" ELSE "idle"]
    /\ UNCHANGED <<workerVars, ringVars, target, intent, iterVars>>

\* stop() raises TimeoutError.
JoinTimesOut(c) ==
    /\ ~Free(c)
    /\ Alive(target[c])
    /\ client' = [client EXCEPT ![c] = "idle"]
    /\ UNCHANGED <<workerVars, ringVars, target, intent, iterVars>>
-----------------------------------------------------------------------------
(***************************************************************************)
(* The worker.                                                             *)
(***************************************************************************)
Begin(w) ==
    /\ pc[w] = "begin"
    /\ Goto(w, "test")
    /\ UNCHANGED <<thread, stopSet, ringVars, clientVars, intent, iterVars>>

\* Variant: while True.
TestUnchecked(w) ==
    /\ pc[w] = "test"
    /\ Goto(w, "collect")
    /\ UNCHANGED <<thread, stopSet, ringVars, clientVars, intent, iterVars>>

\* while not self._stop_event.is_set()
Test(w) ==
    /\ pc[w] = "test"
    /\ Goto(w, IF stopSet THEN "finally" ELSE "collect")
    /\ UNCHANGED <<thread, stopSet, ringVars, clientVars, intent, iterVars>>

Collect(w) ==
    /\ pc[w] = "collect"
    /\ taken' = taken + 1
    /\ hand' = [hand EXCEPT ![w] = taken + 1]
    /\ Goto(w, "publish")
    /\ UNCHANGED <<thread, stopSet, sequence, history, clientVars, intent, iterVars>>

\* Variant: the oldest item is dropped one item too late.
PushLate(ring, item) ==
    Append(IF Len(ring) <= BufferSize THEN ring ELSE Tail(ring), item)

\* deque(maxlen).append: a full deque drops its oldest item.
Push(ring, item) ==
    Append(IF Len(ring) < BufferSize THEN ring ELSE Tail(ring), item)

\* Variant: no notify_all.
PublishSilently(w) ==
    /\ pc[w] = "publish"
    /\ sequence' = sequence + 1
    /\ history' = Push(history, [seq |-> sequence + 1, snap |-> hand[w]])
    /\ Goto(w, "callback")
    /\ UNCHANGED <<thread, stopSet, hand, taken, clientVars, intent, iterVars>>

\* Variant: items are numbered by how far they are from leaving the ring.
PublishRelabelled(w) ==
    /\ pc[w] = "publish"
    /\ sequence' = sequence + 1
    /\ history' = Push(history, [seq |-> sequence + 1 - BufferSize, snap |-> hand[w]])
    /\ NotifyAll
    /\ Goto(w, "callback")
    /\ UNCHANGED <<thread, stopSet, hand, taken, clientVars, intent, cursor, batch>>

Publish(w) ==
    /\ pc[w] = "publish"
    /\ sequence' = sequence + 1
    /\ history' = Push(history, [seq |-> sequence + 1, snap |-> hand[w]])
    /\ NotifyAll
    /\ Goto(w, "callback")
    /\ UNCHANGED <<thread, stopSet, hand, taken, clientVars, intent, cursor, batch>>

\* The callback returns, or raises an Exception that _safe swallows.
CallbackReturns(w) ==
    /\ pc[w] = "callback"
    /\ Goto(w, "sleep")
    /\ UNCHANGED <<thread, stopSet, ringVars, clientVars, intent, iterVars>>

\* The callback calls stop(): the worker does not join itself.
CallbackStops(w) ==
    /\ pc[w] = "callback"
    /\ stopSet' = TRUE
    /\ intent' = "stop"
    /\ NotifyAll
    /\ UNCHANGED <<thread, pc, ringVars, clientVars, cursor, batch>>

\* The callback calls start(): its own worker is alive, so nothing happens.
CallbackStarts(w) ==
    /\ pc[w] = "callback"
    /\ intent' = IF intent = "start" THEN "start" ELSE "late"
    /\ UNCHANGED <<workerVars, ringVars, clientVars, iterVars>>

(***************************************************************************)
(* A BaseException of the collector or the callback, or an interval that   *)
(* Event.wait cannot represent, unwinds _run through its finally clause.   *)
(***************************************************************************)
WorkerRaises(w) ==
    /\ "worker" \in Faults
    /\ pc[w] \in {"collect", "callback", "sleep"}
    /\ intent' = "stop"
    /\ Goto(w, "finally")
    /\ UNCHANGED <<thread, stopSet, ringVars, clientVars, iterVars>>

\* self._stop_event.wait: false at the deadline, true as soon as the event is set.
IntervalElapses(w) ==
    /\ pc[w] = "sleep"
    /\ ~stopSet
    /\ sequence < MaxSamples
    /\ Goto(w, "test")
    /\ UNCHANGED <<thread, stopSet, ringVars, clientVars, intent, iterVars>>

WakeOnStop(w) ==
    /\ pc[w] = "sleep"
    /\ stopSet
    /\ Goto(w, "finally")
    /\ UNCHANGED <<thread, stopSet, ringVars, clientVars, intent, iterVars>>

Finally(w) ==
    /\ pc[w] = "finally"
    /\ NotifyAll
    /\ Goto(w, "exiting")
    /\ UNCHANGED <<thread, stopSet, ringVars, clientVars, intent, cursor, batch>>

Exit(w) ==
    /\ pc[w] = "exiting"
    /\ Goto(w, "dead")
    /\ UNCHANGED <<thread, stopSet, ringVars, clientVars, intent, iterVars>>
-----------------------------------------------------------------------------
(***************************************************************************)
(* Iterators.  Each is a generator: its body runs inside next(), to the    *)
(* following yield, and the consumer may drop it at any yield.             *)
(***************************************************************************)
Open(i) ==
    /\ iter[i] = "off"
    /\ iter' = [iter EXCEPT ![i] = "check"]
    /\ UNCHANGED <<workerVars, ringVars, clientVars, intent, cursor, batch>>

Contents(ring) == {ring[k] : k \in DOMAIN ring}
\* Variant: next_sequence read as the last number yielded.
AvailableAfter(i) == {item \in Contents(history) : item.seq > cursor[i]}
Available(i) == {item \in Contents(history) : item.seq >= cursor[i]}

\* The block under the condition: take what is available, wait, or return.
Check(i) ==
    /\ iter[i] = "check"
    /\ batch' = [batch EXCEPT ![i] = Available(i)]
    /\ iter' = [iter EXCEPT ![i] = IF Available(i) # {} THEN "deliver"
                                   ELSE IF ThreadIsAlive THEN "wait"
                                   ELSE "done"]
    /\ UNCHANGED <<workerVars, ringVars, clientVars, intent, cursor>>

\* The deque is ordered by sequence, so the first item of the tuple is the least.
Yield(i) ==
    /\ iter[i] = "deliver"
    /\ \E item \in batch[i] :
          /\ \A other \in batch[i] : item.seq <= other.seq
          /\ cursor' = [cursor EXCEPT ![i] = item.seq + 1]
          /\ batch' = [batch EXCEPT ![i] = @ \ {item}]
    /\ iter' = [iter EXCEPT ![i] = "yielded"]
    /\ UNCHANGED <<workerVars, ringVars, clientVars, intent>>

Resume(i) ==
    /\ iter[i] = "yielded"
    /\ iter' = [iter EXCEPT ![i] = IF batch[i] = {} THEN "check" ELSE "deliver"]
    /\ UNCHANGED <<workerVars, ringVars, clientVars, intent, cursor, batch>>

Close(i) ==
    /\ iter[i] = "yielded"
    /\ iter' = [iter EXCEPT ![i] = "done"]
    /\ batch' = [batch EXCEPT ![i] = {}]
    /\ UNCHANGED <<workerVars, ringVars, clientVars, intent, cursor>>
-----------------------------------------------------------------------------
WorkerProgress(w) ==
    \/ Begin(w) \/ Test(w) \/ Collect(w) \/ Publish(w) \/ CallbackReturns(w)
    \/ IntervalElapses(w) \/ WakeOnStop(w) \/ Finally(w) \/ Exit(w)

WorkerStep(w) ==
    WorkerProgress(w) \/ CallbackStops(w) \/ CallbackStarts(w) \/ WorkerRaises(w)

ClientStep(c) ==
    Start(c) \/ StartFails(c) \/ Stop(c) \/ JoinReturns(c) \/ JoinTimesOut(c)

IterStep(i) == Open(i) \/ Check(i) \/ Yield(i) \/ Resume(i) \/ Close(i)

Next ==
    \/ \E c \in Clients : ClientStep(c)
    \/ \E w \in Workers : WorkerStep(w)
    \/ \E i \in Iterators : IterStep(i)

Spec == Init /\ [][Next]_vars

(***************************************************************************)
(* The thread scheduler runs every thread that can run, collections and    *)
(* callbacks return, and a join() whose thread has died returns.  Nobody   *)
(* has to call start(), stop() or next().                                  *)
(***************************************************************************)
Fairness ==
    /\ \A w \in Workers : WF_vars(WorkerProgress(w))
    /\ \A c \in Clients : WF_vars(JoinReturns(c))
    /\ \A i \in Iterators : WF_vars(Check(i) \/ Yield(i))

FairSpec == Spec /\ Fairness
-----------------------------------------------------------------------------
TypeOK ==
    /\ thread \in {None} \cup Workers
    /\ stopSet \in BOOLEAN
    /\ pc \in [Workers -> WorkerPc]
    /\ hand \in [Workers -> Nat]
    /\ taken \in Nat
    /\ sequence \in Nat
    /\ history \in Seq(Item)
    /\ client \in [Clients -> {"idle", "joining", "overtaken", "stopped", "join_error"}]
    /\ target \in [Clients -> {None} \cup Workers]
    /\ intent \in {"stop", "start", "late"}
    /\ iter \in [Iterators -> {"off", "check", "wait", "deliver", "yielded", "done"}]
    /\ cursor \in [Iterators -> Nat]
    /\ batch \in [Iterators -> SUBSET Item]

(***************************************************************************)
(* However start(), stop(), timed-out joins and deaths interleave, two     *)
(* workers never run at once: the one that is alive, if any, is the thread *)
(* object the sampler holds (start, lines 113-122).                        *)
(***************************************************************************)
AtMostOneWorker == \A w \in Workers : Alive(w) => w = thread

(***************************************************************************)
(* The history holds exactly the newest BufferSize snapshots, numbered     *)
(* without a gap and in the order the collector returned them, across      *)
(* restarts and failures ("never relabelled", line 110).                   *)
(***************************************************************************)
HistoryWindow ==
    /\ Len(history) = IF sequence < BufferSize THEN sequence ELSE BufferSize
    /\ \A k \in DOMAIN history :
          /\ history[k].seq = sequence - Len(history) + k
          /\ history[k].snap = history[k].seq

(***************************************************************************)
(* A stop() that returned, and that no start() overtook, leaves no worker  *)
(* behind: no later snapshot, no later callback (stop, lines 141-145).     *)
(***************************************************************************)
StoppedMeansQuiet ==
    (\E c \in Clients : client[c] = "stopped") => \A w \in Workers : ~Alive(w)

(***************************************************************************)
(* No generator sleeps on the condition while the history holds a snapshot *)
(* it has not yielded (__iter__, lines 187-192, and _publish, line 233).   *)
(***************************************************************************)
NoLostWakeup == \A i \in Iterators : iter[i] = "wait" => sequence < cursor[i]

(***************************************************************************)
(* Between two snapshots a generator yields, or between its last one and   *)
(* the next it holds, it has skipped only snapshots that the ring has      *)
(* overwritten (lines 181-183): a slow consumer loses the oldest, never    *)
(* one that is still retained.                                             *)
(***************************************************************************)
SkipsOnlyOverwritten ==
    \A i \in Iterators : \A item \in batch[i] :
        \A s \in cursor[i] .. item.seq :
            s > sequence - BufferSize => \E held \in batch[i] : held.seq = s

(***************************************************************************)
(* A stop request is never withdrawn while the worker it is meant for is   *)
(* alive: start() clears the event only when none is (lines 113-115).      *)
(***************************************************************************)
StopRequestSticks ==
    [][stopSet /\ ~stopSet' => \A w \in Workers : ~Alive(w)]_vars

(***************************************************************************)
(* Once a stop is requested, by a client or by the callback, the worker    *)
(* dies (stop, lines 124-149; _run, lines 242 and 252).                    *)
(***************************************************************************)
StopTakesEffect == stopSet /\ ThreadIsAlive ~> ~ThreadIsAlive

(***************************************************************************)
(* Every stop() returns, the ones that wait for a worker that a start()    *)
(* after its death has replaced included (stop, line 144).                 *)
(***************************************************************************)
EveryStopReturns == \A c \in Clients : ~Free(c) ~> Free(c)

(***************************************************************************)
(* A worker that start() creates publishes a snapshot unless a stop()      *)
(* comes or it breaks first: neither a stop request nor a fault left over  *)
(* from an earlier run reaches it (start, line 115; "immediately",         *)
(* line 48).                                                               *)
(***************************************************************************)
StartPublishes ==
    \A w \in Workers :
        pc[w] = "begin" /\ intent = "start" ~> pc[w] = "callback" \/ intent # "start"
=============================================================================
