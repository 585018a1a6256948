----------------------------- MODULE Collector -----------------------------
(***************************************************************************)
(* TelemetryCollector of sweatmeter/collector.py.  Callers (the sampler's  *)
(* worker, synchronous consumers) run snapshot() and machine_profile()     *)
(* under one lock.  An operation is a plan of calls into the readers and   *)
(* the clock; each call may answer, raise, return the wrong type, return a *)
(* value that breaks the code that normalises it, or be cut short by a     *)
(* KeyboardInterrupt, which _safe lets through.  An operation ends in one  *)
(* report, whose reasons become the collector's diagnostics.               *)
(*                                                                         *)
(* A value is the number of the call that returned it (0: UNSUPPORTED).    *)
(* Which rows a GPU answer keeps is the subject of GpuRows.                *)
(***************************************************************************)
EXTENDS Naturals, Sequences, FiniteSets

CONSTANTS Callers,      \* threads that share the collector
          NoCaller,     \* the lock is free
          HostNotes,    \* what a host reader's unavailable_reasons() may name
          GpuNotes,     \* what a GPU reader's unavailable_reasons() may name
          MaxOps,       \* bound: operations started
          MaxFaults,    \* bound: answers of one operation that are not complete
          MaxGaps       \* bound: fields one answer lacks, unless it lacks all

ASSUME CollectorAssumption ==
    /\ NoCaller \notin Callers
    /\ MaxOps \in Nat
    /\ MaxFaults \in Nat
    /\ MaxGaps \in Nat
    /\ HostNotes \cup GpuNotes \subseteq STRING

Operations == {"snapshot", "machine_profile"}

\* The calls of each operation, in the order of the code.
Plan == [snapshot |-> <<"clock", "cpu_percent", "load_average_1m", "memory", "cpu_temperature",
                        "disk_throughput", "process_rss_bytes", "sample">>,
         machine_profile |-> <<"static_facts", "static_info", "clock">>]

IdentityFields == {"hostname", "os_name", "architecture", "cpu_model",
                   "physical_cores", "logical_cores", "ram_bytes"}
StaticFields == IdentityFields \cup {"os_version", "kernel", "storage", "python_version"}

\* The fields each call fills ("gpu": at least one row is kept).
Fills == [clock |-> {"timestamp"},
          cpu_percent |-> {"cpu_percent"},
          load_average_1m |-> {"load_average_1m"},
          memory |-> {"ram_used_bytes", "ram_available_bytes", "ram_total_bytes"},
          cpu_temperature |-> {"cpu_temperature_c"},
          disk_throughput |-> {"disk_read_bytes_per_sec", "disk_write_bytes_per_sec"},
          process_rss_bytes |-> {"process_rss_bytes"},
          sample |-> {"gpu"},
          static_facts |-> StaticFields,
          static_info |-> {"gpu"}]

Calls == DOMAIN Fills
GpuCalls == {"sample", "static_info"}
LiveFields == UNION {Fills[r] : r \in Calls \ (GpuCalls \cup {"clock", "static_facts"})}
Fields == LiveFields \cup StaticFields \cup {"timestamp", "gpu"}
Keys == Fields \cup GpuNotes \cup HostNotes \cup Operations \cup {"host_profile"}
Reasons == {"reader_error", "malformed_reading", "invalid_clock", "sensor_unsupported",
            "no_gpus", "collector_error", "noted by the reader"}

\* A GPU reader's keys are "gpu" and names that begin with it.
ASSUME GpuKeysAssumption == GpuNotes \cap (LiveFields \cup StaticFields) = {}

VARIABLES
    lock,         \* owner of self._lock
    op,           \* what each caller is inside of, or "none"
    step,         \* index in the plan of the next call
    draft,        \* the local variables of the operation
    calls,        \* calls made to each boundary: the cursors of a ScriptedHostReader
    gpuNotes,     \* the GPU reader's own reasons and the call that left them
    diagnostics,  \* self._reasons
    report,       \* the last operation that returned, and what it returned
    skewed,       \* a snapshot ended before it had called every reader
    started       \* operations started

callerVars == <<lock, op, step, draft, started>>
readerVars == <<calls, gpuNotes>>
vars == <<callerVars, readerVars, diagnostics, report, skewed>>

----------------------------------------------------------------------------
(* Diagnostics: dictionaries from names to reasons.                        *)

Put(why, keys, reason) ==
    [k \in DOMAIN why \cup keys |-> IF k \in keys THEN reason ELSE why[k]]
SetDefault(why, keys, reason) == Put(why, keys \ DOMAIN why, reason)
NoReasons == [k \in {} |-> "reader_error"]

NoDraft == [got |-> [f \in Fields |-> 0], why |-> NoReasons, raised |-> {}, faults |-> 0,
            doomed |-> FALSE, gpuCall |-> 0]

----------------------------------------------------------------------------
(* The answers of a boundary.  "doom" stands for a value that makes the    *)
(* normalising code itself raise: an integer too large for math.isfinite,  *)
(* GPU rows whose throttle_reasons cannot be iterated.                     *)

Typed == {"clock", "memory", "disk_throughput", "static_facts"}

Kinds(r) == {"raises"} \cup (IF r \in Typed THEN {"malformed"} ELSE {})
                       \cup (IF r = "clock" THEN {} ELSE {"doom"})

\* The fields a well-formed answer supports.
Readings(r) == {F \in SUBSET Fills[r] : \/ F = {} /\ r # "clock"
                                        \/ Cardinality(Fills[r] \ F) <= (IF r = "clock" THEN 0 ELSE MaxGaps)}

Answers(r) ==
    [kind : Kinds(r), good : {{}}] \cup [kind : {"reading"}, good : Readings(r)]

Complete(r, a) == a.kind = "reading" /\ a.good = Fills[r]

\* What the code writes into `reasons` at once.
Named(r, kind) ==
    IF kind \notin {"raises", "malformed"} THEN {}
    ELSE IF r = "static_facts" /\ kind = "malformed" THEN {"host_profile"}
    ELSE Fills[r]
ReasonFor(r, kind) ==
    IF kind = "raises" THEN "reader_error"
    ELSE IF r = "clock" THEN "invalid_clock"
    ELSE "malformed_reading"

\* memory, disk and static facts are normalised when the operation assembles
\* its result, every other value right after its call.
Lazy == {"memory", "disk_throughput", "static_facts"}

Absorb(d, r, a, n) ==
    [d EXCEPT !.got = [f \in Fields |-> IF f \in a.good THEN n ELSE d.got[f]],
              !.why = Put(d.why, Named(r, a.kind), ReasonFor(r, a.kind)),
              !.raised = d.raised \cup (IF a.kind = "raises" THEN Fills[r] ELSE {}),
              !.faults = d.faults + (IF Complete(r, a) THEN 0 ELSE 1),
              !.doomed = d.doomed \/ a.kind = "doom",
              !.gpuCall = IF r \in GpuCalls /\ a.kind # "raises" THEN n ELSE d.gpuCall]

----------------------------------------------------------------------------
(* The end of an operation: unexplained gaps get a reason, then the notes  *)
(* of both readers are copied over, then "no_gpus".                        *)

\* (Variants: text fields forgotten; notes unfiltered; a reason overwritten.)
MustExplainNumbers(o) ==
    IF o = "snapshot" THEN LiveFields ELSE {"physical_cores", "logical_cores", "ram_bytes"}
NotesForAll(o, noted) == noted

MustExplain(o) == IF o = "snapshot" THEN LiveFields ELSE IdentityFields
NotesFor(o, noted) == IF o = "snapshot" THEN noted \cap LiveFields ELSE noted \ LiveFields

ExplainedOver(o, d, noted) ==
    LET gaps == {f \in MustExplain(o) : d.got[f] = 0}
        marked == Put(d.why, gaps, "sensor_unsupported")
        told == Put(marked, NotesFor(o, noted) \cup gpuNotes.keys, "noted by the reader")
    IN IF d.got["gpu"] = 0 THEN SetDefault(told, {"gpu"}, "no_gpus") ELSE told

Explained(o, d, noted) ==
    LET gaps == {f \in MustExplain(o) : d.got[f] = 0}
        marked == SetDefault(d.why, gaps, "sensor_unsupported")
        told == Put(marked, NotesFor(o, noted) \cup gpuNotes.keys, "noted by the reader")
    IN IF d.got["gpu"] = 0 THEN SetDefault(told, {"gpu"}, "no_gpus") ELSE told

\* What snapshot() and machine_profile() return when the assembly raised.
Emergency(o) == [k \in {o} |-> "collector_error"]

ReportOf(o, d, why) ==
    [op |-> o, got |-> IF d.doomed THEN NoDraft.got ELSE d.got, why |-> why, raised |-> d.raised,
     doomed |-> d.doomed, gpuCall |-> d.gpuCall, notes |-> gpuNotes]
NoReport ==
    [op |-> "none", got |-> NoDraft.got, why |-> NoReasons, raised |-> {},
     doomed |-> FALSE, gpuCall |-> 0, notes |-> [by |-> "sample", call |-> 0, keys |-> {}]]

----------------------------------------------------------------------------
(* The operations.                                                         *)

Init ==
    /\ lock = NoCaller
    /\ op = [c \in Callers |-> "none"]
    /\ step = [c \in Callers |-> 1]
    /\ draft = [c \in Callers |-> NoDraft]
    /\ calls = [r \in Calls |-> 0]
    /\ gpuNotes = NoReport.notes
    /\ diagnostics = NoReasons
    /\ report = NoReport
    /\ skewed = FALSE
    /\ started = 0

\* `with self._lock`: a caller enters an operation.  (Variants: one of the two
\* operations does without.)
SnapshotUnlocked(o) == o = "snapshot" \/ lock = NoCaller
ProfileUnlocked(o) == o = "machine_profile" \/ lock = NoCaller

LockFree(o) == lock = NoCaller

Enter(c, o) ==
    /\ op[c] = "none"
    /\ LockFree(o)
    /\ started < MaxOps
    /\ lock' = c
    /\ op' = [op EXCEPT ![c] = o]
    /\ started' = started + 1
    /\ UNCHANGED <<step, draft, readerVars, diagnostics, report, skewed>>

Finished(c) == step[c] > Len(Plan[op[c]])

\* The step after call r: a value that breaks the code right after its call
\* skips the calls that remain.
StepAfter(c, r, a) ==
    IF a.kind = "doom" /\ r \notin Lazy THEN Len(Plan[op[c]]) + 1 ELSE step[c] + 1

\* One boundary call under self._read, and what the code does with its answer.
Read(c) ==
    /\ op[c] # "none"
    /\ ~ Finished(c)
    /\ LET r == Plan[op[c]][step[c]]
           n == calls[r] + 1
       IN \E a \in Answers(r) :
            /\ Complete(r, a) \/ draft[c].faults < MaxFaults
            /\ calls' = [calls EXCEPT ![r] = n]
            /\ draft' = [draft EXCEPT ![c] = Absorb(@, r, a, n)]
            /\ step' = [step EXCEPT ![c] = StepAfter(c, r, a)]
            /\ skewed' = (skewed \/ (op[c] = "snapshot" /\ a.kind = "doom" /\ r \notin Lazy))
            /\ IF r \in GpuCalls /\ a.kind # "raises"
               THEN \E keys \in SUBSET GpuNotes : gpuNotes' = [by |-> r, call |-> n, keys |-> keys]
               ELSE UNCHANGED gpuNotes
    /\ UNCHANGED <<lock, op, started, diagnostics, report>>

Leave(c) ==
    /\ lock' = NoCaller
    /\ op' = [op EXCEPT ![c] = "none"]
    /\ step' = [step EXCEPT ![c] = 1]
    /\ draft' = [draft EXCEPT ![c] = NoDraft]
    /\ UNCHANGED <<started, readerVars>>

\* The operation returns, and its reasons replace the diagnostics.
Return(c) ==
    /\ op[c] # "none"
    /\ Finished(c)
    /\ \E noted \in SUBSET HostNotes :
          LET why == IF draft[c].doomed THEN Emergency(op[c])
                     ELSE Explained(op[c], draft[c], noted)
          IN /\ report' = ReportOf(op[c], draft[c], why)
             /\ diagnostics' = why
    /\ Leave(c)
    /\ UNCHANGED skewed

\* A BaseException leaves the operation wherever it is; `with` releases the
\* lock.  (Variants: the lock is kept; half an operation's reasons are stored.)
InterruptKeepsLock(c) ==
    /\ op[c] # "none"
    /\ op' = [op EXCEPT ![c] = "none"]
    /\ UNCHANGED <<lock, step, draft, started, readerVars, diagnostics, report, skewed>>

InterruptStores(c) ==
    /\ op[c] # "none"
    /\ Leave(c)
    /\ diagnostics' = draft[c].why
    /\ UNCHANGED <<report, skewed>>

Interrupt(c) ==
    /\ op[c] # "none"
    /\ Leave(c)
    /\ skewed' = (skewed \/ (op[c] = "snapshot" /\ step[c] > 1 /\ ~ Finished(c)))
    /\ UNCHANGED <<diagnostics, report>>

Next == \E c \in Callers :
    \/ \E o \in Operations : Enter(c, o)
    \/ Read(c)
    \/ Return(c)
    \/ Interrupt(c)

Spec == Init /\ [][Next]_vars

----------------------------------------------------------------------------
(* Properties.                                                             *)

\* Types of the variables.  The lock belongs to the caller that is inside an
\* operation, and to nobody once the operation ended, by its answer, by an
\* exception of its own or by an interrupt anywhere in it (`with self._lock`).
TypeOK ==
    /\ lock \in Callers \cup {NoCaller}
    /\ op \in [Callers -> Operations \cup {"none"}]
    /\ \A c \in Callers : lock = c <=> op[c] # "none"
    /\ step \in [Callers -> 1..9]
    /\ \A c \in Callers :
         /\ draft[c].got \in [Fields -> Nat]
         /\ DOMAIN draft[c].why \subseteq Keys
         /\ \A k \in DOMAIN draft[c].why : draft[c].why[k] \in Reasons
         /\ draft[c].raised \subseteq Fields
         /\ draft[c].doomed \in BOOLEAN
    /\ calls \in [Calls -> Nat]
    /\ gpuNotes \in [by : GpuCalls, call : Nat, keys : SUBSET GpuNotes]
    /\ DOMAIN diagnostics \subseteq Keys
    /\ \A k \in DOMAIN diagnostics : diagnostics[k] \in Reasons
    /\ report.op \in Operations \cup {"none"}
    /\ skewed \in BOOLEAN
    /\ started \in Nat

\* What a report must have or explain.
Measured == IF report.op = "snapshot" THEN LiveFields ELSE IdentityFields

\* A snapshot or profile that was assembled explains every measurement it
\* lacks, the absence of any GPU and, in a snapshot or a profile, a timestamp
\* that is not the clock's, whatever combination of calls failed
\* (collector.py _read, _mark_unsupported).
GapsExplained ==
    report.op # "none" /\ ~ report.doomed =>
        \A f \in Measured \cup {"gpu", "timestamp"} :
            report.got[f] = 0 => f \in DOMAIN report.why

\* An exception of a reader is reported as one: the default it is replaced by
\* is never taken for a sensor the machine does not have, unless the reader
\* gives a reason of its own (_read before _mark_unsupported).
RaisesAreNamed ==
    ~ report.doomed =>
        \A f \in report.raised :
            f \in DOMAIN report.why /\ report.why[f] \in {"reader_error", "noted by the reader"}

\* Notes about live sensors stay out of a profile's diagnostics, and notes
\* about static facts out of a snapshot's, though one host reader keeps both.
NotesStayHome ==
    /\ report.op = "snapshot" => DOMAIN report.why \cap StaticFields = {}
    /\ report.op = "machine_profile" => DOMAIN report.why \cap LiveFields = {}

\* One snapshot is one row of its readers: as long as no snapshot was cut
\* short, every value in it comes from the same call number, however the
\* callers interleave (the lock; testing.py "one coherent script row").
OneRow ==
    report.op = "snapshot" /\ ~ report.doomed /\ ~ skewed =>
        \A f, g \in LiveFields \cup {"gpu"} :
            report.got[f] # 0 /\ report.got[g] # 0 => report.got[f] = report.got[g]

\* The GPU reader's reasons a report carries are those of the report's own
\* call, though the other operation overwrites them (the lock is held from
\* the call to the copy).
NotesAreItsOwn ==
    ~ report.doomed /\ report.gpuCall # 0 =>
        /\ report.notes.call = report.gpuCall
        /\ report.notes.by = IF report.op = "snapshot" THEN "sample" ELSE "static_info"
=============================================================================
