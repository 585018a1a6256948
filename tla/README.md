# SweatMeter in TLA+

SweatMeter (`src/src/sweatmeter/`) is a Python library that samples hardware telemetry:
host and GPU readers behind two protocols, a collector that turns their answers into
immutable snapshots and never raises, a background sampler that collects on a schedule and
serves several consumers, and window aggregates over the snapshots. This directory holds TLA+
models of that code, the TLC runs that check them on small instances, and TLAPS proofs of what
matters most for every instance.

## 1. The system

| Part | Source | State it keeps | Operations | Interacts with |
|---|---|---|---|---|
| Sampler | `sampler.py` | thread object, stop event, condition, sequence number, bounded history; per generator a cursor and a batch | `start`, `stop`, `is_running`, `latest`, `latest_age_seconds`, `buffered`, iteration, context manager, the worker `_run`, the callback | calls the collector from its thread; called by any thread and by the callback |
| Collector | `collector.py` | readers, static GPU facts cached, reasons of the last operation, one RLock | `snapshot`, `machine_profile`, `unavailable_reasons` | called by the sampler's worker and by callers; calls both readers |
| Linux host reader | `readers/linux.py` | previous CPU counters, previous disk counters and time, cached sensor path, reasons | `cpu_percent`, `cpu_temperature`, `disk_throughput`, memory, load, `process_rss`, `static_facts` | `/proc`, `/sys`, clocks |
| NVML reader | `readers/nvml.py` | initialised flag, reasons | `available`, `sample`, `static_info`, `close` | the NVML binding |
| nvidia-smi reader | `readers/nvidia.py` | reasons of the last operation | `available`, `sample`, `static_info` | a subprocess with a timeout |
| Factories, null readers | `platform.py` | reasons | `create_host_reader`, `create_gpu_reader` | constructs the readers |
| Window | `window.py` | an immutable sorted tuple | peak, mean, energy, throttling verdicts | pure functions of snapshots |
| Test doubles | `testing.py` | a cursor per operation | the reader protocols | stand in for readers |
| Boundary helper | `safe.py` | none | `_safe`, `_safe_call` | wraps every foreign call |
| Value types | `types.py` | none (frozen) | validation | passed by all of the above |
| Stubs, protocols, package surface | `readers/darwin.py`, `readers/windows.py`, `readers/protocols.py`, `__init__.py` | none | raise, or declare | |

### What is hard here, and what makes each part correct

* **Sampler** (threads, condition variable, restarts, timeouts, a callback that may re-enter).
  At most one worker at a time; the history is the window of the newest snapshots, in order,
  never renumbered; a stop that returned means silence; a stop request is not lost; after it at
  most the sample in flight is published; no generator sleeps on news; a slow one loses only
  what the ring overwrote; deadlines keep their grid; missed ones are skipped; ages are honest.
* **Collector** (partial failure of readers, shared by the sampler's thread and callers). It
  never raises; a failing boundary degrades its own field and names a reason; reasons belong to
  the last operation.
* **Linux reader** (differences of counters across calls, two callers, rollback, time that does
  not advance). A rate is reported only between two comparable readings; baselines are never
  older than the last good reading.
* **GPU readers** (devices that come and go, drivers that unload, two commands joined by index).
  Every device is reported once or its absence is explained.
* **Window** (order, ties, gaps). Energy is a sum over adjacent supported pairs, whatever the
  order the snapshots are given in.

`PROJECT.json` lists each hazard at the line where it bites, with the properties that cover it.

## 2. Plan

| Step | Modules | State |
|---|---|---|
| 1. The sampler: the most important behaviour, and the hardest to test | `Sampler`, abstract `SampleFeed`, refinement `SamplerFeed`, clock `SamplerTimed` | modelled, checked; safety, refinement and deadlines proved |
| 2. The collector | `Collector`, abstract `Diagnostics`, refinement `CollectorDiagnostics`, row loops `GpuRows` | modelled, checked, proved |
| 3. The Linux reader's state across calls | `LinuxRates`, `LinuxTemperature`, one instance `MCLinuxReader` | modelled, checked, proved |
| 4. The GPU readers: devices that move, any question failing, `close` in the middle, two commands joined by index; one promise for both | vocabulary `GpuReasons`, `GpuOperation`, `NvmlReader`, `NvidiaSmi`, abstract `GpuBackend` | modelled, checked, proved |
| 5. Which reader is used, and the null reader in its place | `GpuReaders` | modelled, checked, proved |
| 6. Window: sort, ties, gaps, energy, verdicts, against reference definitions | `Window`, instance `MCWindow` | modelled, checked, proved |

Abstract specifications: the feed of the sampler, the diagnostics promise of the collector, and the
promise of a GPU backend. All three are proved to be
implemented. What is not proved is liveness (section 6). What is left of the code
after these steps keeps no state and meets no other actor (section 7).

## 3. The modules and the code

### Sampler (`sampler.py`)

`Sampler` has one action for each block under `with self._condition` and one for each thing that
can happen between two blocks. State: `thread` is `self._thread` (workers are numbered in the
order `start` creates them), `stopSet` the event, `history` and `sequence` the ring, `pc[w]` the
place of a worker in `_run`, `hand[w]` its local snapshot, `client`/`target` what a caller of
`stop` is doing and which thread it joins, `iter`/`cursor`/`batch` a suspended generator. `intent`
is a history variable: what the calls so far ask for.

| Action | Code |
|---|---|
| `Start`, `StartFails` | `start`, and the `thread.start()` that raises after the assignment of `self._thread` |
| `Stop`, `JoinReturns`, `JoinTimesOut` | the critical section of `stop`, then `join` and the second `is_alive` |
| `Begin`, `Test`, `Collect`, `Publish`, `CallbackReturns`, `IntervalElapses`, `WakeOnStop`, `Finally`, `Exit` | `_run`, `_publish` |
| `CallbackStops`, `CallbackStarts` | a callback that calls back into the sampler from its worker |
| `WorkerRaises` | a `BaseException`, or an interval `Event.wait` cannot represent |
| `Open`, `Check`, `Yield`, `Resume`, `Close` | a generator of `__iter__`, between two suspension points |

`Exit` is separate from `Finally` because `is_alive()` stays true until the interpreter has torn
the thread down; two of the findings live in that gap. `SampleFeed` is what users may rely on
without threads: a feed that is stopped, running or stopping, numbers its samples without a gap,
takes none after a stop request except the one in flight, and hands consumers increasing numbers
that skip only what the ring overwrote. `SamplerFeed` maps one to the other. `SamplerTimed` keeps
every action and adds what it reads from a clock: the deadline and its grid, the receipt times, and
`latest_age_seconds` as two steps (the stamp under the lock, the clock after it). `SamplerClaims` and
`SamplerTimedClaims` state what the docs promise and the code does not do.

### Collector (`collector.py`)

`Collector` runs an operation as a plan of boundary calls under the lock (`Enter`, `Read` for each
call, `Return`), and `Interrupt` wherever a `BaseException` passes `_safe`. An answer raises, has the
wrong type, lacks some of the fields it fills, or contains a value that breaks the code that
normalises it (`doom`); the last either skips the remaining calls or, for values normalised when the
result is assembled (`Lazy`), does not. A value is the number of the call that produced it, so
`OneRow` can compare where the fields of a snapshot come from. `Explained` writes the reasons in the
order of the code: exceptions and malformed answers at once, then `setdefault` for the gaps, then
the readers' own notes over them, then `no_gpus`. `gpuNotes` is the one dictionary both operations
of a GPU reader clear and refill. `GpuRows` has the two row loops, one iteration per step.
`Diagnostics` is what a caller may rely on; `CollectorDiagnostics` shows that the collector
implements it.

### Linux host reader (`readers/linux.py`)

`LinuxRates` models `cpu_percent` and `disk_throughput`: the kernel grows its counters at any
moment (`Grow`) or some part of a sum falls (`Fall`: reset, wrap, an unplugged device, `iowait`), a
call reads the text (`Parse`), the disk's also the clock (`ReadClock`), then replaces the baseline and
answers (`Swap`), or gives up and keeps it (`GiveUp`). `told` adds up the answers as amounts, before
the division; that makes "nothing is told twice" and "nothing is lost" statable over whole
histories and callers. `LinuxTemperature` models `cpu_temperature`: the kept path, and the search in
two trees one file at a time (`Visit`) while files come and go within the call. Which of several
files of one rank sorts first is left open. `MCLinuxReader` puts the two, which share no state, in
one instance.

### GPU readers (`readers/nvml.py`, `readers/nvidia.py`, `platform.py`)

`GpuOperation` is what the two readers share: `bus` is the machine (which device has which index; it
changes at any moment by `Move`), `op` the public operation in progress, `why` is `_reasons`, `failed`
the keys of the questions that failed since the operation began, `answer` what it returned together
with the reasons a caller reads beside it. `steady` and `calm` are history: the devices that kept
their place since the operation began, and whether nothing at all went wrong.

| Action | Code |
|---|---|
| `NvmlBegin`, `AlreadyReady`, `InitFails`, `InitSucceeds`, `RaiseFlag` | the start of an operation and `_ready`; `nvmlInit` and the flag are two steps |
| `Counting`, `Address` | `_count`; the loops over the indexes and the handle of each |
| `Ask`, `EndSystem` | one query of the driver or of a device, in the order of the code; the versions of a profile come first |
| `EndRow`, `Finish` | the row with the `setdefault` of its gaps; the end of an operation |
| `NvmlEscape`, `SmiEscape` | a `BaseException` in the middle |
| `Close`, `Shutdown` | `close` of another thread: the flag, then `nvmlShutdown` |
| `RunCore`, `RunSecond`, `RunBanner` | the two or three runs of nvidia-smi of an operation, each with its parsing, its rows by index and the reasons of those left out |
| `Verdict`, `Join` | what `available` and an operation without rows conclude; the rows built from two runs by index |
| `NullBegin`, `NullAnswer` | `NullGpuReader` |

`kept` counts the references to the library that the code gave up on (a `close` that raised, an
operation cut short before the flag). `GpuBackend` says, without binding or command, what the
collector may rely on: nobody who was there is forgotten, "no GPUs" is not said of devices that were
there, a missing value has a reason and a reason a missing value, the cause of a failure is not
replaced by a generic one, and a row is of one device. `GpuReaders` chooses among the readers
(`Chosen`) and shows that each of them keeps that promise.

### Window (`window.py`)

`Window` has one variable, the snapshots in the order they were given, and every aggregate as an
operator of it. The sorted tuple of the code is the relation `Earlier` (by time, then by position:
the sort is stable) on the positions of the series: `Measurements` are the supported values by
position, the snapshot that `pairwise` makes the following one is the earliest of the later ones
(`Elapsed`, `EnergyTerms`), and the sample at which `_substantial_clock_drop` returns is the `First`
with a clock 15% below one measured earlier, as the maximum so far is one of those. `Loop` is that
loop as the code writes it, with the maximum it carries (`Watch`); the assumption `LoopFindsTheDrop` of
`MCWindow` compares the two on all series of up to three snapshots, and the theorem
`LoopFindsTheFirstDrop` on all series.
A mean is a pair of sum and number, so nothing is rounded; 85% and 95% are compared as products. The
reference for the energy does not look at following snapshots: it is the integral, second by second,
of the power in force. Growing the series step by step also gives the two action properties: what an
additional snapshot may do to an answer.

## 4. Runs

| Run | Bounds | What it shows |
|---|---|---|
| `sampler_safety` | 2 clients, 1 iterator, 3 threads, ring of 2, 3 samples, all faults | one worker; the history window; quiet after stop; no lost wakeup; honest skips; sticky requests; refinement of the feed |
| `sampler_liveness` | 2 clients, 1 iterator, 2 threads, ring of 2, 2 samples, all faults, fairness | stop takes effect; every `stop()` returns; a created worker publishes unless stopped or broken; refinement of the fair feed |
| `sampler_timed` | 1 client, 2 threads, interval 2, 3 samples, times 0..5 | the grid; no burst; honest ages; ascending stamps |
| `collector` | 2 callers, 2 operations, 2 faults, 1 incomplete answer, notes for 3 fields | gaps explained; exceptions named; notes apart; one row; own notes; the lock held exactly during an operation; refinement of `Diagnostics` |
| `gpu_rows` | up to 3 values, 2 devices, 2 sensors | accounted rows; first row wins; gaps of kept rows |
| `linux_reader` | 2 callers, counters to 2, one fall each, 3 instants, one meter in use; or 2 files in each tree, one of each preferred | never told twice; never lost; sound rates; answers when it can; sticky source; preference |
| `gpu_backends` | 2 devices, 2 operations, 2 faults, 1 move, 1 `close`, at most 2 oddities in an output | every library reference has an owner; failures do not linger; each reader keeps the promise of `GpuBackend` |
| `window` | 8 readings that tell the branches apart, stamps 0, 1 and 3, up to 4 snapshots | energy is the integral; order is irrelevant; silence decides nothing; a suspicion sticks |

The bounds are enough for the cases that make the code hard: three threads give a stop request that
outlives its worker and a worker that replaces it; a ring of two with three samples overwrites; two
clients give overtaken and simultaneous stops; a thread that publishes between the test and the wait
of a generator needs one iterator. Two callers and two operations let an interrupted snapshot be
followed by the other operation of the other caller, over the same reader. Three rows give a
duplicate with a malformed row between. Interval 2 and five instants give a collection that is late
by less than, by exactly and by more than a slot. Two devices and one move let a device vanish,
appear or change its index between two questions or two runs; a second operation shows what the
first left behind; two faults let a second failure meet the reason of the first. Stamps with gaps of
one and two, and equal ones, give every order of arrival; four snapshots are a drop, what precedes
it and what follows. `CHECK_DEADLOCK FALSE` is set everywhere because the bounded counters end every
run, and a sampler nobody starts may rest forever. `SYMMETRY` is used only in runs without liveness.

Four runs are expected to be refuted; each is a disagreement between the code and its docs:

| Run | The code |
|---|---|
| `iterator_hang` | the last `notify_all` comes while the thread is alive; a generator that tests it then waits forever |
| `start_lost` | a `start()` while an asked-to-stop worker is still alive does nothing, and nothing runs afterwards |
| `clock_fallback` | one bad reading of an injected clock is replaced by one of another clock, and their offset lengthens a wait |
| `snapshot_collapse` | one value that breaks the normalisation empties the whole snapshot, whose fields have no reasons |

Smaller ones are visible in the models and have no run of their own: after a failed `thread.start()`
the next `stop()` raises `RuntimeError` (`sampler.py:121,144`; `join_error` in `Sampler`), where
line 127 calls `stop` safe; a missing OS version, kernel or Python version of a profile has no
reason (`collector.py:449`; `MustExplain` in `Collector`), where line 163 says failed fields are
recorded; and a counter that restarts is hidden in a sum by the growth of the others
(`linux.py:485`; `Fall` and `ToldSides` in `LinuxRates`), where line 393 says that a rollback is
unsupported for its interval. `docs/platform-support.md:35` has the NVML reader chosen when pynvml
is importable and healthy, and `platform.py:226` only asks whether it is importable (`Chosen`). Only
the first clock drop is judged (`window.py:332`, `First`): one at low utilisation hides a later one
at high temperature, which `docs/packages/sweatmeter/development-plan.md:189` would call suspected.
When every handle of the NVML reader fails, the reason is `no_nvidia_gpus` beside those of the
devices (`Finish`; `NoneMeansNone` allows it only then). A `close()` that comes between `nvmlInit`
and the flag has no effect, and the library stays initialised (`Close` needs the flag).

## 5. Fairness

* Sampler: every worker that can take its next step eventually does (`WorkerProgress`: threads are
  scheduled, a collection never raises and its boundaries return, a callback returns, a wait
  times out), a `join` whose thread has died returns, and a generator inside `next()` proceeds. No
  fairness for clients, for `Resume` (the consumer), for the timeout of a `join`, or for faults.
  `IntervalElapses` is bounded by `MaxSamples`; no liveness property depends on the last sleep
  ending by itself.

The other specifications state no fairness: a collector's operation ends when its boundaries return,
which the code does not control, and what is said of the readers and of the window is safety.

## 6. Proofs

Each theorem is of the module's `Spec`, for every value of the constants that satisfies the
module's `ASSUME`. The bounds on started threads, samples and growth are constants too, so the
theorems hold for all of them.

**`SamplerProofs`** (assumes `SamplerAssumption`). `TypeCorrect`. `OneWorker`: inductive with the
types, since a worker is created only when the current one is not alive. `RequestsStick` follows.
`Window`: `HistoryWindow` is not inductive; `InHand` adds that a live worker between collection and
publication holds the number of the last snapshot taken, and that otherwise nothing is outstanding.
`Quiet`: `QuietInv` adds that a caller still joining (not overtaken) waits for the current thread
and that its request is set. `WaitersAreCurrent` and `HonestSkips`: `CursorInv` bounds cursors and
batches by the sequence, and `SkipsOnlyOverwritten` has to be carried through ring pushes.
`SamplerImplementsFeed`: the initial state maps to the feed's, and each action to a feed step or a
stutter; `ThreadPhase` says that only the current thread decides the phase.

**`SamplerTimedProofs`** (assumes also `TimedAssumption` and, as a hypothesis, `OneClock`: the
injected clock never fails, or has the origin of the one that replaces it. Without it the theorems
are false, as the run `clock_fallback` shows). `TimedImplementsSampler` needs no clock at all: a timed
step is one of the sampler's or leaves its variables alone, so everything proved in `SamplerProofs`
holds here. `NextSlot`: `OnGrid` says that a worker in its loop has reached its deadline and that
one asleep waits for a point of the grid ahead; the rest is the arithmetic of skipping slots
(`SlotFacts`). `NoCatchUp`, an action property, follows from it. `ReceiptsAscend`: `ReceivedInv`
adds that what the worker has in hand was received after everything in the history, restarts
included. `HonestAges`: `AgeInv` keeps the stamp read under the lock behind the time it was read.

**`CollectorProofs`** (assumes `CollectorAssumption`; `NotesApart` also `GpuKeysAssumption`, that the
keys under which a GPU reader notes reasons are not fields of the host). `TypeCorrect` with
`StateTyped`: what an operation has collected so far is a draft, and its step lies in its plan.
`ExplainedGaps`: `TimestampExplained` is the one gap no `setdefault` fills. `NamedRaises`: `RaisesKept`
says that no later call of the plan fills a field whose call raised. `NotesApart` and `OwnNotes`:
`DraftsAtHome` and `NotesOfTheCall` say the same of the operation in progress. `SnapshotIsOneRow`:
`RowsInStep` counts the calls of every boundary, those behind the snapshot in progress once more,
and `DraftInRow` ties its fields to that count. `CollectorImplementsDiagnostics`: every step is a
report of the promise or a stutter, from these.

**`GpuRowsProofs`** (assumes `GpuRowsAssumption`). `RowsTyped`; `EveryRowAccounted` with
`ReasonsBehind` (no position has a reason before it is passed); `FirstRow` with `RowsFrom` (what is
kept is a row of that device) and `NoneLater`; `GapsOfKeptRows` is inductive by itself, as reasons of
positions and of sensors are different keys (`KeysDiffer`).

**`LinuxReaderProofs`**. The rates (assumes `LinuxRatesAssumption`). `NeverTwice`: `Covered` accounts for a
reading from the moment it is made: what was told plus what lies between the baseline and the
counter, between a call's reading and the counter, and between the two readings is at most what was
counted; `LockHeld` makes the call in progress the only one. `NeverLost`: `Ordered` says that
readings lie behind each other as long as a sum never fell, and the disk's in time; `Kept` is the
sum. `SoundRates` follows from what an answer may contain (`GainFacts`).

The temperature (assumes `LinuxTemperatureAssumption`). Three action properties from one
invariant, `SensorInv`: a search starts without a kept path; what was readable all through the call
is still to be read or was found (`Searching`); the last answer came from the path that is kept, as
long as no call dropped it (`KeptPath`). `NoVainAnswer`, `OneSource`, `ThermalFirst`.

**`GpuReadersProofs`**, on the lemmas of **`NvmlReaderProofs`** (assumes `DevicesAssumption`, that the
devices are finitely many; `References` assumes nothing). `References`: each reference to the NVML
library has one owner, whatever fails, is cut short or closed. `FlagDown` strengthens it: an
operation raises the flag only where it is down. `ReadersKeepThePromise`: every step of the reader
in use is a step of `GpuBackend` or a stutter. An answer is honest only if what was noted on the way
to it is, so the invariant follows the operation from question to question.

* For the NVML reader: reasons are told of what was visited, and those of failures are still the
  failures (`Told`); the count covers the devices that were there, or there is a reason for the
  whole machine (`Counted`); every index that is behind has a row or a reason (`Passed`); the gaps of
  a row that was kept are the fields with a reason, and its values are of the device that kept the
  place (`RowsGood`), as are those of the row in the making (`LostGood`).
* For the nvidia-smi reader: before the join no reason is about a field of a device (`SmiTold`), so the
  join can neither hide a cause nor name a value as missing; a device of the first run's time is in
  its rows or there is an excuse, and the rows of both runs are of the devices that kept their index
  (`SmiRows`). `QueryFacts` says what one run leaves behind whatever it prints.

`EveryCallStartsAnew`: `NvmlCalm` and `SmiCalm` say of an operation during which nothing failed that
what it has so far is everything: the flag is up and, by `References`, the library initialised, every
index behind has its row, a run had all the devices. `TypeCorrect` follows from these and from `Idle`
(the reader that is not in use rests).

**`WindowProofs`** (assumes `WindowAssumption`), for any readings and stamps and any number of
snapshots; the only invariant is that the series is one of snapshots. `SilenceIsIgnored`: a silent
snapshot adds no measurement (`SilentMeasurements`) and no active reason, and the first drop stays the
first (`SameDrop`). `SuspicionLasts`: a snapshot that is not earlier than the others comes after all
of them, so it can add a drop but not precede one (`LatestDrop`); clocks and active reasons only grow.
`ArrivalIsIrrelevant`: with distinct stamps, `Earlier` is carried from one order to the other
(`ReorderedFacts`), and with it the values measured, the seconds to the following snapshot and the
drops; a sum or a maximum does not change when its values are moved (`SumMoved`, `CarriedFacts`), and
verdicts depend on how many samples there are (`CarriedCount`) and the first drop. `LeastNatural` and `FirstUnique` say why there is a first and only
one.

Sums and loops are recursive functions over data of any size. The library's induction theorems, and
those about folds, take an operator as a parameter and cannot be instantiated; `SetInduction` and
`SubsetInduction` take a set instead, of numbers or of subsets of a finite set, and follow from
`LeastNatural`. With them: the function that a sum is defined by exists and is the only one
(`SumExists`, `SumsAgree`), so a sum has its equation (`SumDef`); any element can be taken out
(`SumTake`), and sums over disjoint sets add up (`SumUnion`).

* `EnergyIsIntegral`: every second from the first stamp to the last has one snapshot in force
  (`InForceFacts`) and lies in its slot, the seconds to the following snapshot, and in no other's
  (`SlotFacts`). The terms of the energy are the sums over the slots of those that have a power
  (`SlotsSum`), and what is left of the seconds has none.
* `LoopFindsTheFirstDrop`: `Watched` is the loop's invariant. Until it has found something, its maximum
  is that of the clocks behind it and none of these is a drop; what it has found is the first drop.

The types of `GpuRows` and `LinuxRates` are proved and not run. Every invariant, action property and
refinement of the passing runs is stated by a theorem. Only model-checked: all liveness (the temporal
properties of `sampler_liveness`), which rests on fairness and is out of the prover's reach.

## 7. What is not modelled

Without state between calls, and without another actor: the remaining operations of the Linux reader
(memory, load, process, static facts) and its text parsers, whose outcome (a reading or none) is an
input of `LinuxRates`; `create_host_reader`, a table of names, and `NullHostReader`; the test doubles'
own checks (their cursors and injected faults are the `calls` and the kinds of answer in `Collector`);
argument validation, logging, the text of messages, the value types and the stubs of other platforms.

Abstracted: the magnitude of measurements outside the window (a value is supported or not, or a small
count); the kinds of NVML errors and of failed commands, which differ only in the reason they give;
the reload of a driver, which to the NVML reader is a library whose calls fail until `close`; the
confidence a verdict carries; the profile fingerprint (a pure function of the profile); a reader or
clock that calls the collector back while it is inside one of its operations; and consumers of
`latest` and `buffered`, which read the history in one critical section (`HistoryWindow` is what
they see).
