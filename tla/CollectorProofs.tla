-------------------------- MODULE CollectorProofs --------------------------
(***************************************************************************)
(* Proofs about the collector for any set of callers, any notes of the     *)
(* readers and any number of operations and faults.                        *)
(***************************************************************************)
EXTENDS CollectorDiagnostics, FiniteSetTheorems, TLAPS

----------------------------------------------------------------------------
(* The plans.                                                              *)

LEMMA PlanCalls ==
    ASSUME NEW o \in Operations
    PROVE  /\ Len(Plan[o]) \in 1..8
           /\ \A i \in 1..Len(Plan[o]) : Plan[o][i] \in Calls
<1>1. CASE o = "snapshot"
  <2>1. Plan[o] = <<"clock", "cpu_percent", "load_average_1m", "memory", "cpu_temperature",
                    "disk_throughput", "process_rss_bytes", "sample">>
    BY <1>1 DEF Plan
  <2> QED BY <2>1 DEF Calls, Fills
<1>2. CASE o = "machine_profile"
  <2>1. Plan[o] = <<"static_facts", "static_info", "clock">>
    BY <1>2 DEF Plan
  <2> QED BY <2>1 DEF Calls, Fills
<1> QED BY <1>1, <1>2 DEF Operations

LEMMA Lengths == Len(Plan["snapshot"]) = 8 /\ Len(Plan["machine_profile"]) = 3
BY DEF Plan

\* What a call fills are fields, and keys of the diagnostics.
LEMMA FillsAreFields ==
    ASSUME NEW r \in Calls
    PROVE  Fills[r] \subseteq Fields
<1>1. CASE r \in GpuCalls
  BY <1>1 DEF Fills, GpuCalls, Fields
<1>2. CASE r = "clock"
  BY <1>2 DEF Fills, Fields
<1>3. CASE r = "static_facts"
  BY <1>3 DEF Fills, Fields
<1>4. CASE r \notin GpuCalls \cup {"clock", "static_facts"}
  <2>1. Fills[r] \subseteq LiveFields
    BY <1>4 DEF LiveFields
  <2> QED BY <2>1 DEF Fields
<1> QED BY <1>1, <1>2, <1>3, <1>4

\* No two calls of an operation fill the same field.
LEMMA FillsDiffer ==
    ASSUME NEW o \in Operations, NEW i \in 1..Len(Plan[o]), NEW j \in 1..Len(Plan[o]), i # j
    PROVE  Fills[Plan[o][i]] \cap Fills[Plan[o][j]] = {}
<1>1. CASE o = "snapshot"
  <2>1. Plan[o] = <<"clock", "cpu_percent", "load_average_1m", "memory", "cpu_temperature",
                    "disk_throughput", "process_rss_bytes", "sample">>
    BY <1>1 DEF Plan
  <2> QED BY <2>1 DEF Fills
<1>2. CASE o = "machine_profile"
  <2>1. Plan[o] = <<"static_facts", "static_info", "clock">>
    BY <1>2 DEF Plan
  <2> QED BY <2>1 DEF Fills, StaticFields, IdentityFields
<1> QED BY <1>1, <1>2 DEF Operations

\* Where the fields of an operation belong.
LEMMA FillsAtHome ==
    /\ \A i \in 1..8 : Fills[Plan["snapshot"][i]] \cap StaticFields = {}
    /\ \A i \in 1..3 : Fills[Plan["machine_profile"][i]] \cap LiveFields = {}
<1>1. ASSUME NEW i \in 1..8 PROVE Fills[Plan["snapshot"][i]] \cap StaticFields = {}
  BY <1>1 DEF Plan, Fills, StaticFields, IdentityFields
<1>2. ASSUME NEW i \in 1..3 PROVE Fills[Plan["machine_profile"][i]] \cap LiveFields = {}
  <2>1. Plan["machine_profile"][i] \in {"static_facts", "static_info", "clock"}
    BY <1>2 DEF Plan
  <2>2. ASSUME NEW r \in Calls \ (GpuCalls \cup {"clock", "static_facts"}),
               NEW f \in Fills[r], f \in Fills[Plan["machine_profile"][i]]
        PROVE  FALSE
    BY <2>1, <2>2 DEF Calls, GpuCalls, Fills, StaticFields, IdentityFields
  <2> QED BY <2>2 DEF LiveFields
<1> QED BY <1>1, <1>2

\* Neither of these is a field of a host reader.
LEMMA OtherKeys ==
    /\ {"gpu", "timestamp", "host_profile", "snapshot", "machine_profile"}
         \cap (LiveFields \cup StaticFields) = {}
    /\ "host_profile" \notin Fields
    /\ LiveFields \cap StaticFields = {}
<1>1. LiveFields \subseteq {"cpu_percent", "load_average_1m", "ram_used_bytes",
        "ram_available_bytes", "ram_total_bytes", "cpu_temperature_c", "disk_read_bytes_per_sec",
        "disk_write_bytes_per_sec", "process_rss_bytes"}
  BY DEF LiveFields, Calls, GpuCalls, Fills
<1> QED BY <1>1 DEF Fields, StaticFields, IdentityFields

----------------------------------------------------------------------------
(* Dictionaries of reasons, answers and drafts.                            *)

IsReasons(why) == why \in [DOMAIN why -> Reasons] /\ DOMAIN why \subseteq Keys

IsDraft(d) ==
    /\ d = [got |-> d.got, why |-> d.why, raised |-> d.raised, faults |-> d.faults,
            doomed |-> d.doomed, gpuCall |-> d.gpuCall]
    /\ d.got \in [Fields -> Nat]
    /\ IsReasons(d.why)
    /\ d.raised \subseteq Fields
    /\ d.faults \in Nat
    /\ d.doomed \in BOOLEAN
    /\ d.gpuCall \in Nat

LEMMA PutReasons ==
    ASSUME NEW why, IsReasons(why), NEW keys \in SUBSET Keys, NEW reason \in Reasons
    PROVE  IsReasons(Put(why, keys, reason))
BY DEF IsReasons, Put

LEMMA SetDefaultReasons ==
    ASSUME NEW why, IsReasons(why), NEW keys \in SUBSET Keys, NEW reason \in Reasons
    PROVE  IsReasons(SetDefault(why, keys, reason))
BY PutReasons DEF SetDefault

LEMMA NoReasonsTyped == IsReasons(NoReasons) /\ DOMAIN NoReasons = {}
BY DEF IsReasons, NoReasons

\* An answer has a value for some of the fields it fills, for none unless it is
\* a reading, and for all of them if it is a reading of the clock.
LEMMA AnswerFacts ==
    ASSUME NEW r \in Calls, NEW a \in Answers(r)
    PROVE  /\ a.kind \in Kinds(r) \cup {"reading"}
           /\ a.good \subseteq Fills[r]
           /\ a.kind # "reading" => a.good = {}
           /\ r = "clock" /\ a.kind = "reading" => a.good = {"timestamp"}
<1>1. CASE a \in [kind : Kinds(r), good : {{}}]
  <2>1. a.kind \in Kinds(r) /\ a.good = {}
    BY <1>1
  <2>2. "reading" \notin Kinds(r)
    BY DEF Kinds
  <2> QED BY <2>1, <2>2
<1>2. CASE a \in [kind : {"reading"}, good : Readings(r)]
  <2>1. a.kind = "reading" /\ a.good \in Readings(r)
    BY <1>2
  <2>2. a.good \subseteq Fills[r]
    BY <2>1 DEF Readings
  <2>3. CASE r = "clock"
    <3>1. Fills[r] = {"timestamp"}
      BY <2>3 DEF Fills
    <3>2. Cardinality(Fills[r] \ a.good) <= 0
      BY <2>1, <2>3 DEF Readings
    <3>3. IsFiniteSet({"timestamp"}) /\ ({"timestamp"} \ a.good) \in SUBSET {"timestamp"}
      BY FS_Singleton
    <3>4. IsFiniteSet({"timestamp"} \ a.good)
      BY <3>3, FS_Subset
    <3>5. Cardinality({"timestamp"} \ a.good) = 0
      BY <3>1, <3>2, <3>4, FS_CardinalityType
    <3>6. {"timestamp"} \ a.good = {}
      BY <3>4, <3>5, FS_EmptySet
    <3> QED BY <2>1, <2>2, <3>1, <3>6
  <2> QED BY <2>1, <2>2, <2>3
<1> QED BY <1>1, <1>2 DEF Answers

LEMMA ReasonForType == \A r, kind : ReasonFor(r, kind) \in Reasons
BY DEF ReasonFor, Reasons

\* What is named at once are fields of the call, or the profile.
LEMMA NamedFacts ==
    ASSUME NEW r \in Calls, NEW kind
    PROVE  /\ Named(r, kind) \subseteq Fills[r] \cup {"host_profile"}
           /\ Named(r, kind) \subseteq Keys
           /\ kind = "raises" => Named(r, kind) = Fills[r] /\ ReasonFor(r, kind) = "reader_error"
           /\ r = "clock" /\ kind \in {"raises", "malformed"} => Named(r, kind) = {"timestamp"}
<1>1. Named(r, kind) \subseteq Fills[r] \cup {"host_profile"}
  BY DEF Named
<1>2. Fills[r] \cup {"host_profile"} \subseteq Keys
  BY FillsAreFields DEF Keys
<1>3. kind = "raises" => Named(r, kind) = Fills[r] /\ ReasonFor(r, kind) = "reader_error"
  BY DEF Named, ReasonFor
<1>4. r = "clock" /\ kind \in {"raises", "malformed"} => Named(r, kind) = {"timestamp"}
  BY DEF Named, Fills
<1> QED BY <1>1, <1>2, <1>3, <1>4

\* The parts of a draft that took an answer in.
LEMMA AbsorbFacts ==
    ASSUME NEW d, IsDraft(d), NEW r \in Calls, NEW a \in Answers(r), NEW n \in Nat
    PROVE  /\ IsDraft(Absorb(d, r, a, n))
           /\ \A f \in Fields : Absorb(d, r, a, n).got[f] = IF f \in a.good THEN n ELSE d.got[f]
           /\ Absorb(d, r, a, n).why = Put(d.why, Named(r, a.kind), ReasonFor(r, a.kind))
           /\ Absorb(d, r, a, n).raised
                = d.raised \cup (IF a.kind = "raises" THEN Fills[r] ELSE {})
           /\ Absorb(d, r, a, n).doomed = (d.doomed \/ a.kind = "doom")
           /\ Absorb(d, r, a, n).gpuCall
                = IF r \in GpuCalls /\ a.kind # "raises" THEN n ELSE d.gpuCall
<1> DEFINE e == Absorb(d, r, a, n)
<1>1. /\ e.got = [f \in Fields |-> IF f \in a.good THEN n ELSE d.got[f]]
      /\ e.why = Put(d.why, Named(r, a.kind), ReasonFor(r, a.kind))
      /\ e.raised = d.raised \cup (IF a.kind = "raises" THEN Fills[r] ELSE {})
      /\ e.faults = d.faults + (IF Complete(r, a) THEN 0 ELSE 1)
      /\ e.doomed = (d.doomed \/ a.kind = "doom")
      /\ e.gpuCall = IF r \in GpuCalls /\ a.kind # "raises" THEN n ELSE d.gpuCall
      /\ e = [got |-> e.got, why |-> e.why, raised |-> e.raised, faults |-> e.faults,
              doomed |-> e.doomed, gpuCall |-> e.gpuCall]
  <2> DEFINE got == [f \in Fields |-> IF f \in a.good THEN n ELSE d.got[f]]
             why == Put(d.why, Named(r, a.kind), ReasonFor(r, a.kind))
             raised == d.raised \cup (IF a.kind = "raises" THEN Fills[r] ELSE {})
             faults == d.faults + (IF Complete(r, a) THEN 0 ELSE 1)
             doomed == d.doomed \/ a.kind = "doom"
             gpuCall == IF r \in GpuCalls /\ a.kind # "raises" THEN n ELSE d.gpuCall
  <2>1. e = [d EXCEPT !.got = got, !.why = why, !.raised = raised, !.faults = faults,
                      !.doomed = doomed, !.gpuCall = gpuCall]
    BY DEF Absorb
  <2>2. d = [got |-> d.got, why |-> d.why, raised |-> d.raised, faults |-> d.faults,
             doomed |-> d.doomed, gpuCall |-> d.gpuCall]
    BY DEF IsDraft
  <2> HIDE DEF e, got, why, raised, faults, doomed, gpuCall
  <2>3. e = [got |-> got, why |-> why, raised |-> raised, faults |-> faults,
             doomed |-> doomed, gpuCall |-> gpuCall]
    BY <2>1, <2>2
  <2>4. /\ e.got = got /\ e.why = why /\ e.raised = raised /\ e.faults = faults
        /\ e.doomed = doomed /\ e.gpuCall = gpuCall
    BY <2>3
  <2>5. e = [got |-> e.got, why |-> e.why, raised |-> e.raised, faults |-> e.faults,
             doomed |-> e.doomed, gpuCall |-> e.gpuCall]
    BY <2>3, <2>4
  <2> QED BY <2>4, <2>5 DEF got, why, raised, faults, doomed, gpuCall
<1> HIDE DEF e
<1>2. e.got \in [Fields -> Nat] /\ e.faults \in Nat /\ e.gpuCall \in Nat
  BY <1>1 DEF IsDraft
<1>3. IsReasons(e.why)
  BY <1>1, NamedFacts, ReasonForType, PutReasons DEF IsDraft
<1>4. e.raised \subseteq Fields /\ e.doomed \in BOOLEAN
  BY <1>1, FillsAreFields DEF IsDraft
<1>5. IsDraft(e)
  BY <1>1, <1>2, <1>3, <1>4 DEF IsDraft
<1>6. \A f \in Fields : e.got[f] = IF f \in a.good THEN n ELSE d.got[f]
  BY <1>1
<1> QED BY <1>1, <1>5, <1>6 DEF e

LEMMA NoDraftTyped == IsDraft(NoDraft)
BY NoReasonsTyped DEF NoDraft, IsDraft

----------------------------------------------------------------------------
(* Types.                                                                  *)

\* A caller at rest has a fresh draft, one inside an operation stands at a step
\* of its plan or behind the last; drafts are drafts.
StateTyped ==
    /\ TypeOK
    /\ draft = [c \in Callers |-> draft[c]]
    /\ \A c \in Callers :
         /\ IsDraft(draft[c])
         /\ op[c] = "none" => step[c] = 1 /\ draft[c] = NoDraft
         /\ op[c] # "none" => step[c] <= Len(Plan[op[c]]) + 1
    /\ gpuNotes.keys \subseteq GpuNotes


\* The call an operation makes next.
CallOf(c) == Plan[op[c]][step[c]]

\* What a call and its answer do.
Answered(c, a) ==
    LET r == CallOf(c)
        n == calls[r] + 1
    IN /\ calls' = [calls EXCEPT ![r] = n]
       /\ draft' = [draft EXCEPT ![c] = Absorb(draft[c], r, a, n)]
       /\ step' = [step EXCEPT ![c] = StepAfter(c, r, a)]
       /\ skewed' = (skewed \/ (op[c] = "snapshot" /\ a.kind = "doom" /\ r \notin Lazy))
       /\ IF r \in GpuCalls /\ a.kind # "raises"
          THEN \E keys \in SUBSET GpuNotes : gpuNotes' = [by |-> r, call |-> n, keys |-> keys]
          ELSE UNCHANGED gpuNotes
       /\ UNCHANGED <<lock, op, started, diagnostics, report>>

LEMMA ReadFacts ==
    ASSUME StateTyped, NEW c \in Callers, Read(c)
    PROVE  /\ lock = c /\ op[c] \in Operations
           /\ step[c] \in 1..Len(Plan[op[c]]) /\ CallOf(c) \in Calls
           /\ calls[CallOf(c)] + 1 \in Nat \ {0}
           /\ \E a \in Answers(CallOf(c)) : Answered(c, a)
<1>1. op[c] \in Operations /\ lock = c
  BY DEF Read, StateTyped, TypeOK
<1>2. step[c] \in 1..Len(Plan[op[c]])
  <2>1. Len(Plan[op[c]]) \in Nat
    BY <1>1, PlanCalls
  <2>2. ~ (step[c] > Len(Plan[op[c]])) /\ step[c] \in 1..9
    BY DEF Read, Finished, StateTyped, TypeOK
  <2> QED BY <2>1, <2>2
<1>3. CallOf(c) \in Calls
  BY <1>1, <1>2, PlanCalls DEF CallOf
<1>4. calls[CallOf(c)] + 1 \in Nat \ {0}
  BY <1>3 DEF StateTyped, TypeOK
<1>5. \E a \in Answers(CallOf(c)) : Answered(c, a)
  <2> DEFINE r == CallOf(c)
             n == calls[r] + 1
  <2>1. PICK a \in Answers(r) :
           /\ calls' = [calls EXCEPT ![r] = n]
           /\ draft' = [draft EXCEPT ![c] = Absorb(draft[c], r, a, n)]
           /\ step' = [step EXCEPT ![c] = StepAfter(c, r, a)]
           /\ skewed' = (skewed \/ (op[c] = "snapshot" /\ a.kind = "doom" /\ r \notin Lazy))
           /\ IF r \in GpuCalls /\ a.kind # "raises"
              THEN \E keys \in SUBSET GpuNotes : gpuNotes' = [by |-> r, call |-> n, keys |-> keys]
              ELSE UNCHANGED gpuNotes
    BY DEF Read, CallOf
  <2>2. UNCHANGED <<lock, op, started, diagnostics, report>>
    BY DEF Read
  <2> QED BY <2>1, <2>2 DEF Answered
<1> QED BY <1>1, <1>2, <1>3, <1>4, <1>5

\* The next step lies in the plan or behind its end.
LEMMA StepAfterFacts ==
    ASSUME NEW c \in Callers, op[c] \in Operations, step[c] \in 1..Len(Plan[op[c]]),
           NEW r, NEW a
    PROVE  /\ StepAfter(c, r, a) \in {step[c] + 1, Len(Plan[op[c]]) + 1}
           /\ StepAfter(c, r, a) \in 1..9
           /\ StepAfter(c, r, a) <= Len(Plan[op[c]]) + 1
           /\ StepAfter(c, r, a) = step[c] + 1 \/ a.kind = "doom"
<1> DEFINE len == Len(Plan[op[c]])
           s == step[c]
<1>1. len \in 1..8
  BY PlanCalls
<1>2. s \in 1..len
  OBVIOUS
<1>3. StepAfter(c, r, a) = IF a.kind = "doom" /\ r \notin Lazy THEN len + 1 ELSE s + 1
  BY DEF StepAfter
<1> HIDE DEF len, s
<1>4. {s + 1, len + 1} \subseteq 2..(len + 1) /\ len + 1 \in 2..9
  BY <1>1, <1>2
<1>5. StepAfter(c, r, a) \in {s + 1, len + 1}
  BY <1>3
<1>6. StepAfter(c, r, a) = s + 1 \/ a.kind = "doom"
  BY <1>3
<1>7. StepAfter(c, r, a) \in 1..9 /\ StepAfter(c, r, a) <= len + 1
  BY <1>1, <1>4, <1>5
<1> QED BY <1>5, <1>6, <1>7 DEF len, s

LEMMA ExplainedReasons ==
    ASSUME StateTyped, NEW c \in Callers, op[c] \in Operations, NEW noted \in SUBSET HostNotes
    PROVE  IsReasons(Explained(op[c], draft[c], noted))
<1> DEFINE d == draft[c]
           gaps == {f \in MustExplain(op[c]) : d.got[f] = 0}
           marked == SetDefault(d.why, gaps, "sensor_unsupported")
           told == Put(marked, NotesFor(op[c], noted) \cup gpuNotes.keys, "noted by the reader")
<1>1. IsReasons(d.why)
  BY DEF StateTyped, IsDraft
<1>2. gaps \subseteq Keys
  BY DEF MustExplain, Keys, Fields, StaticFields
<1>3. NotesFor(op[c], noted) \cup gpuNotes.keys \subseteq Keys
  <2>1. gpuNotes.keys \subseteq GpuNotes
    BY DEF StateTyped
  <2>2. NotesFor(op[c], noted) \subseteq HostNotes
    BY DEF NotesFor
  <2> QED BY <2>1, <2>2 DEF Keys
<1>4. /\ {"sensor_unsupported", "noted by the reader", "no_gpus"} \subseteq Reasons
      /\ {"gpu"} \subseteq Keys
  BY DEF Reasons, Keys, Fields
<1> HIDE DEF gaps
<1>5. IsReasons(marked)
  BY <1>1, <1>2, <1>4, SetDefaultReasons
<1> HIDE DEF marked
<1>6. IsReasons(told)
  BY <1>3, <1>4, <1>5, PutReasons
<1>7. Explained(op[c], d, noted)
        = IF d.got["gpu"] = 0 THEN SetDefault(told, {"gpu"}, "no_gpus") ELSE told
  BY DEF Explained, marked, gaps
<1> HIDE DEF told
<1>8. IsReasons(SetDefault(told, {"gpu"}, "no_gpus"))
  BY <1>4, <1>6, SetDefaultReasons
<1> QED BY <1>6, <1>7, <1>8

LEMMA EmergencyFacts ==
    ASSUME NEW o \in Operations
    PROVE  IsReasons(Emergency(o)) /\ DOMAIN Emergency(o) = {o}
BY DEF Emergency, IsReasons, Keys, Reasons

\* What a caller is told, and what becomes of the diagnostics.
LEMMA ReturnFacts ==
    ASSUME StateTyped, NEW c \in Callers, Return(c)
    PROVE  /\ op[c] \in Operations /\ lock = c /\ step[c] > Len(Plan[op[c]])
           /\ Leave(c) /\ UNCHANGED skewed
           /\ report'.op = op[c] /\ report'.doomed = draft[c].doomed
           /\ report'.raised = draft[c].raised /\ report'.gpuCall = draft[c].gpuCall
           /\ report'.notes = gpuNotes
           /\ report'.why = diagnostics' /\ IsReasons(diagnostics')
           /\ draft[c].doomed =>
                report'.got = NoDraft.got /\ diagnostics' = Emergency(op[c])
           /\ ~ draft[c].doomed =>
                /\ report'.got = draft[c].got
                /\ \E noted \in SUBSET HostNotes :
                      diagnostics' = Explained(op[c], draft[c], noted)
<1>1. op[c] \in Operations /\ lock = c /\ step[c] > Len(Plan[op[c]])
      /\ Leave(c) /\ UNCHANGED skewed
  BY DEF Return, Finished, StateTyped, TypeOK
<1>2. PICK noted \in SUBSET HostNotes :
         /\ diagnostics' = IF draft[c].doomed THEN Emergency(op[c])
                           ELSE Explained(op[c], draft[c], noted)
         /\ report' = ReportOf(op[c], draft[c], diagnostics')
  BY DEF Return
<1>3. /\ report'.op = op[c] /\ report'.doomed = draft[c].doomed
      /\ report'.raised = draft[c].raised /\ report'.gpuCall = draft[c].gpuCall
      /\ report'.notes = gpuNotes /\ report'.why = diagnostics'
      /\ report'.got = IF draft[c].doomed THEN NoDraft.got ELSE draft[c].got
  BY <1>2 DEF ReportOf
<1>4. IsReasons(Emergency(op[c])) /\ IsReasons(Explained(op[c], draft[c], noted))
  BY <1>1, EmergencyFacts, ExplainedReasons
<1>5. IsReasons(diagnostics')
  BY <1>2, <1>4
<1>6. draft[c].doomed \in BOOLEAN
  BY DEF StateTyped, TypeOK
<1> QED BY <1>1, <1>2, <1>3, <1>5, <1>6

LEMMA TypedInit == Init => StateTyped
<1> SUFFICES ASSUME Init PROVE StateTyped
  OBVIOUS
<1>1. NoReport.notes \in [by : GpuCalls, call : Nat, keys : SUBSET GpuNotes]
      /\ NoReport.op = "none"
  BY DEF NoReport, GpuCalls
<1>2. TypeOK
  <2>1. \A c \in Callers : draft[c] = NoDraft
    BY DEF Init
  <2>2. \A c \in Callers :
          /\ draft[c].got \in [Fields -> Nat]
          /\ DOMAIN draft[c].why \subseteq Keys
          /\ \A k \in DOMAIN draft[c].why : draft[c].why[k] \in Reasons
          /\ draft[c].raised \subseteq Fields
          /\ draft[c].doomed \in BOOLEAN
    BY <2>1, NoDraftTyped DEF IsDraft, IsReasons
  <2>3. /\ lock \in Callers \cup {NoCaller}
        /\ op \in [Callers -> Operations \cup {"none"}]
        /\ \A c \in Callers : lock = c <=> op[c] # "none"
        /\ step \in [Callers -> 1..9]
    BY CollectorAssumption DEF Init
  <2>4. calls \in [Calls -> Nat] /\ started \in Nat /\ skewed \in BOOLEAN
    BY DEF Init
  <2>5. /\ DOMAIN diagnostics \subseteq Keys
        /\ \A k \in DOMAIN diagnostics : diagnostics[k] \in Reasons
    BY NoReasonsTyped DEF Init
  <2> QED BY <1>1, <2>2, <2>3, <2>4, <2>5 DEF Init, TypeOK
<1>3. \A c \in Callers : draft[c] = NoDraft /\ step[c] = 1 /\ op[c] = "none"
  BY DEF Init
<1> QED BY <1>1, <1>2, <1>3, NoDraftTyped DEF Init, StateTyped

\* An operation is over, whatever became of it.
LEMMA LeaveTyped ==
    ASSUME StateTyped, NEW c \in Callers, op[c] # "none", Leave(c)
    PROVE  /\ lock' \in Callers \cup {NoCaller}
           /\ op' \in [Callers -> Operations \cup {"none"}]
           /\ \A d \in Callers : lock' = d <=> op'[d] # "none"
           /\ step' \in [Callers -> 1..9]
           /\ draft' = [d \in Callers |-> draft'[d]]
           /\ \A d \in Callers :
                /\ op'[d] = "none" /\ step'[d] = 1 /\ draft'[d] = NoDraft
                /\ IsDraft(draft'[d])
           /\ UNCHANGED <<started, calls, gpuNotes>>
<1>1. /\ op \in [Callers -> Operations \cup {"none"}]
      /\ step \in [Callers -> 1..9]
      /\ draft = [d \in Callers |-> draft[d]]
      /\ \A d \in Callers : lock = d <=> op[d] # "none"
      /\ \A d \in Callers : op[d] = "none" => step[d] = 1 /\ draft[d] = NoDraft
  BY DEF StateTyped, TypeOK
<1>2. \A d \in Callers : d # c => op[d] = "none"
  BY <1>1
<1>3. /\ lock' = NoCaller
      /\ op' = [op EXCEPT ![c] = "none"]
      /\ step' = [step EXCEPT ![c] = 1]
      /\ draft' = [draft EXCEPT ![c] = NoDraft]
      /\ UNCHANGED <<started, calls, gpuNotes>>
  BY DEF Leave, readerVars
<1>4. \A d \in Callers : op'[d] = "none" /\ step'[d] = 1 /\ draft'[d] = NoDraft
  BY <1>1, <1>2, <1>3
<1>5. op' \in [Callers -> Operations \cup {"none"}] /\ step' \in [Callers -> 1..9]
  BY <1>1, <1>3
<1>6. draft' = [d \in Callers |-> draft'[d]]
  BY <1>1, <1>3
<1> QED BY <1>3, <1>4, <1>5, <1>6, NoDraftTyped, CollectorAssumption

LEMMA TypedStep == StateTyped /\ [Next]_vars => StateTyped'
<1> SUFFICES ASSUME StateTyped, [Next]_vars PROVE StateTyped'
  OBVIOUS
<1>1. ASSUME NEW c \in Callers, NEW o \in Operations, Enter(c, o) PROVE StateTyped'
  <2>1. /\ op[c] = "none" /\ lock = NoCaller /\ lock' = c
        /\ op' = [op EXCEPT ![c] = o] /\ started' = started + 1
        /\ UNCHANGED <<step, draft, calls, gpuNotes, diagnostics, report, skewed>>
    BY <1>1 DEF Enter, LockFree, readerVars
  <2>2. \A d \in Callers : op[d] = "none"
    BY <2>1, CollectorAssumption DEF StateTyped, TypeOK
  <2>3. op' \in [Callers -> Operations \cup {"none"}]
        /\ \A d \in Callers : op'[d] = IF d = c THEN o ELSE "none"
    BY <2>1, <2>2 DEF StateTyped, TypeOK
  <2>4. \A d \in Callers : lock' = d <=> op'[d] # "none"
    BY <2>1, <2>3 DEF Operations
  <2>5. started' \in Nat
    BY <2>1 DEF StateTyped, TypeOK
  <2>6. TypeOK'
    BY <2>1, <2>3, <2>4, <2>5 DEF StateTyped, TypeOK
  <2>7. step'[c] <= Len(Plan[o]) + 1
    <3>1. step'[c] = 1
      BY <2>1, <2>2 DEF StateTyped
    <3> QED BY <3>1, PlanCalls
  <2> QED BY <2>1, <2>2, <2>3, <2>6, <2>7 DEF StateTyped
<1>2. ASSUME NEW c \in Callers, Read(c) PROVE StateTyped'
  <2> DEFINE r == CallOf(c)
             n == calls[r] + 1
  <2>1. /\ lock = c /\ op[c] \in Operations
        /\ step[c] \in 1..Len(Plan[op[c]]) /\ r \in Calls
        /\ n \in Nat
    BY <1>2, ReadFacts
  <2>2. PICK a \in Answers(r) : Answered(c, a)
    BY <1>2, ReadFacts
  <2>3. /\ calls' = [calls EXCEPT ![r] = n]
        /\ draft' = [draft EXCEPT ![c] = Absorb(draft[c], r, a, n)]
        /\ step' = [step EXCEPT ![c] = StepAfter(c, r, a)]
        /\ skewed' = (skewed \/ (op[c] = "snapshot" /\ a.kind = "doom" /\ r \notin Lazy))
        /\ IF r \in GpuCalls /\ a.kind # "raises"
           THEN \E keys \in SUBSET GpuNotes : gpuNotes' = [by |-> r, call |-> n, keys |-> keys]
           ELSE UNCHANGED gpuNotes
        /\ UNCHANGED <<lock, op, started, diagnostics, report>>
    BY <2>2 DEF Answered
  <2>4. IsDraft(Absorb(draft[c], r, a, n))
    <3>1. IsDraft(draft[c])
      BY DEF StateTyped
    <3> QED BY <2>1, <3>1, AbsorbFacts
  <2> HIDE DEF n, r
  <2>5. /\ draft' = [d \in Callers |-> draft'[d]]
        /\ \A d \in Callers : IsDraft(draft'[d]) /\ (d # c => draft'[d] = draft[d])
    BY <2>3, <2>4 DEF StateTyped
  <2>6. /\ step' \in [Callers -> 1..9]
        /\ \A d \in Callers : d # c => step'[d] = step[d]
        /\ step'[c] <= Len(Plan[op[c]]) + 1
    BY <2>1, <2>3, StepAfterFacts DEF StateTyped, TypeOK
  <2>7. calls' \in [Calls -> Nat]
    BY <2>1, <2>3 DEF StateTyped, TypeOK
  <2>8. gpuNotes' \in [by : GpuCalls, call : Nat, keys : SUBSET GpuNotes]
    BY <2>1, <2>3 DEF StateTyped, TypeOK
  <2>9. skewed' \in BOOLEAN
    BY <2>3 DEF StateTyped, TypeOK
  <2>10. \A d \in Callers :
           /\ draft'[d].got \in [Fields -> Nat]
           /\ DOMAIN draft'[d].why \subseteq Keys
           /\ \A k \in DOMAIN draft'[d].why : draft'[d].why[k] \in Reasons
           /\ draft'[d].raised \subseteq Fields
           /\ draft'[d].doomed \in BOOLEAN
    BY <2>5 DEF IsDraft, IsReasons
  <2>11. TypeOK'
    BY <2>3, <2>6, <2>7, <2>8, <2>9, <2>10 DEF StateTyped, TypeOK
  <2>12. gpuNotes'.keys \subseteq GpuNotes
    BY <2>8
  <2>13. \A d \in Callers : op[d] = "none" => d # c
    BY <2>1 DEF Operations
  <2> QED BY <2>3, <2>5, <2>6, <2>11, <2>12, <2>13 DEF StateTyped
<1>3. ASSUME NEW c \in Callers, op[c] # "none", Leave(c), skewed' \in BOOLEAN,
             DOMAIN diagnostics' \subseteq Keys,
             \A k \in DOMAIN diagnostics' : diagnostics'[k] \in Reasons,
             report'.op \in Operations \cup {"none"}
      PROVE  StateTyped'
  <2>1. \A d \in Callers :
          /\ draft'[d].got \in [Fields -> Nat]
          /\ DOMAIN draft'[d].why \subseteq Keys
          /\ \A k \in DOMAIN draft'[d].why : draft'[d].why[k] \in Reasons
          /\ draft'[d].raised \subseteq Fields
          /\ draft'[d].doomed \in BOOLEAN
    BY <1>3, LeaveTyped DEF IsDraft, IsReasons
  <2>2. UNCHANGED <<started, calls, gpuNotes>>
    BY <1>3, LeaveTyped
  <2>3. TypeOK'
    BY <1>3, <2>1, <2>2, LeaveTyped DEF StateTyped, TypeOK
  <2> QED BY <1>3, <2>2, <2>3, LeaveTyped DEF StateTyped
<1>4. ASSUME NEW c \in Callers, Return(c) PROVE StateTyped'
  <2>1. /\ op[c] \in Operations /\ Leave(c) /\ skewed' = skewed
        /\ report'.op = op[c] /\ IsReasons(diagnostics')
    BY <1>4, ReturnFacts
  <2>2. op[c] # "none" /\ skewed \in BOOLEAN
    BY <2>1 DEF Operations, StateTyped, TypeOK
  <2> QED BY <1>3, <2>1, <2>2 DEF IsReasons
<1>5. ASSUME NEW c \in Callers, Interrupt(c) PROVE StateTyped'
  <2>1. op[c] # "none" /\ Leave(c) /\ UNCHANGED <<diagnostics, report>>
        /\ skewed' \in BOOLEAN
    BY <1>5 DEF Interrupt, StateTyped, TypeOK
  <2>2. /\ DOMAIN diagnostics \subseteq Keys /\ report.op \in Operations \cup {"none"}
        /\ \A k \in DOMAIN diagnostics : diagnostics[k] \in Reasons
    BY DEF StateTyped, TypeOK
  <2> QED BY <1>3, <2>1, <2>2
<1>6. CASE UNCHANGED vars
  BY <1>6 DEF StateTyped, TypeOK, vars, callerVars, readerVars
<1> QED BY <1>1, <1>2, <1>4, <1>5, <1>6 DEF Next

LEMMA AlwaysTyped == Spec => []StateTyped
BY TypedInit, TypedStep, PTL DEF Spec

\* The types of the variables are as declared; in particular the lock belongs
\* to the caller inside an operation, and to nobody once it ended in any way.
THEOREM TypeCorrect == Spec => []TypeOK
<1>1. StateTyped => TypeOK
  BY DEF StateTyped
<1> QED BY <1>1, AlwaysTyped, PTL

----------------------------------------------------------------------------
(* What the four kinds of steps do to the one operation in progress.       *)

LEMMA EnterFacts ==
    ASSUME StateTyped, NEW c \in Callers, NEW o \in Operations, Enter(c, o)
    PROVE  /\ \A d \in Callers : op[d] = "none" /\ op'[d] = IF d = c THEN o ELSE "none"
           /\ step'[c] = 1 /\ draft'[c] = NoDraft
           /\ UNCHANGED <<step, draft, calls, gpuNotes, diagnostics, report, skewed>>
<1>1. /\ op[c] = "none" /\ lock = NoCaller /\ op' = [op EXCEPT ![c] = o]
      /\ UNCHANGED <<step, draft, calls, gpuNotes, diagnostics, report, skewed>>
  BY DEF Enter, LockFree, readerVars
<1>2. \A d \in Callers : op[d] = "none"
  BY <1>1, CollectorAssumption DEF StateTyped, TypeOK
<1>3. step[c] = 1 /\ draft[c] = NoDraft
  BY <1>2 DEF StateTyped
<1> QED BY <1>1, <1>2, <1>3 DEF StateTyped, TypeOK

LEMMA AnsweredFacts ==
    ASSUME StateTyped, NEW c \in Callers, Read(c)
    PROVE  /\ \A d \in Callers : d # c => op[d] = "none"
           /\ UNCHANGED <<lock, op, diagnostics, report>>
           /\ \E a \in Answers(CallOf(c)) :
                LET r == CallOf(c)
                    n == calls[r] + 1
                IN /\ calls' = [calls EXCEPT ![r] = n]
                   /\ draft'[c] = Absorb(draft[c], r, a, n)
                   /\ step'[c] = StepAfter(c, r, a)
                   /\ skewed' = (skewed \/ (op[c] = "snapshot" /\ a.kind = "doom"
                                              /\ r \notin Lazy))
                   /\ IF r \in GpuCalls /\ a.kind # "raises"
                      THEN gpuNotes'.call = n /\ gpuNotes'.by = r
                      ELSE UNCHANGED gpuNotes
<1> DEFINE r == CallOf(c)
           n == calls[r] + 1
<1>1. PICK a \in Answers(r) : Answered(c, a)
  BY ReadFacts
<1>2. lock = c
  BY ReadFacts
<1>3. \A d \in Callers : d # c => op[d] = "none"
  BY <1>2 DEF StateTyped, TypeOK
<1>4. /\ calls' = [calls EXCEPT ![r] = n]
      /\ draft' = [draft EXCEPT ![c] = Absorb(draft[c], r, a, n)]
      /\ step' = [step EXCEPT ![c] = StepAfter(c, r, a)]
      /\ skewed' = (skewed \/ (op[c] = "snapshot" /\ a.kind = "doom" /\ r \notin Lazy))
      /\ IF r \in GpuCalls /\ a.kind # "raises"
         THEN \E keys \in SUBSET GpuNotes : gpuNotes' = [by |-> r, call |-> n, keys |-> keys]
         ELSE UNCHANGED gpuNotes
      /\ UNCHANGED <<lock, op, started, diagnostics, report>>
  BY <1>1 DEF Answered
<1> HIDE DEF r, n
<1>5. /\ draft'[c] = Absorb(draft[c], r, a, n)
      /\ step'[c] = StepAfter(c, r, a)
  BY <1>4 DEF StateTyped, TypeOK
<1>6. IF r \in GpuCalls /\ a.kind # "raises"
      THEN gpuNotes'.call = n /\ gpuNotes'.by = r
      ELSE UNCHANGED gpuNotes
  BY <1>4
<1> QED BY <1>3, <1>4, <1>5, <1>6 DEF r, n

LEMMA EndFacts ==
    ASSUME StateTyped, NEW c \in Callers, Return(c) \/ Interrupt(c)
    PROVE  /\ \A d \in Callers : op'[d] = "none"
           /\ UNCHANGED <<calls, gpuNotes>>
<1>1. op[c] # "none" /\ Leave(c)
  BY DEF Return, Interrupt
<1> QED BY <1>1, LeaveTyped

\* A step of Next, or none.
LEMMA Steps ==
    ASSUME [Next]_vars
    PROVE  \/ \E c \in Callers, o \in Operations : Enter(c, o)
           \/ \E c \in Callers : Read(c)
           \/ \E c \in Callers : Return(c)
           \/ \E c \in Callers : Interrupt(c)
           \/ UNCHANGED vars
BY DEF Next

----------------------------------------------------------------------------
(* Gaps are explained.                                                     *)

\* Once the clock was asked, the timestamp is the clock's or has a reason.
TimestampExplained ==
    \A c \in Callers :
        /\ op[c] # "none" /\ ~ draft[c].doomed
        /\ \E i \in 1..(step[c] - 1) : i <= Len(Plan[op[c]]) /\ Plan[op[c]][i] = "clock"
        => draft[c].got["timestamp"] # 0 \/ "timestamp" \in DOMAIN draft[c].why

\* The order of the dictionaries' updates, from the draft to the report.
LEMMA ExplainedFacts ==
    ASSUME NEW o, NEW d, NEW noted
    PROVE  /\ DOMAIN d.why \subseteq DOMAIN Explained(o, d, noted)
           /\ \A f \in MustExplain(o) : d.got[f] = 0 => f \in DOMAIN Explained(o, d, noted)
           /\ d.got["gpu"] = 0 => "gpu" \in DOMAIN Explained(o, d, noted)
           /\ \A k \in DOMAIN d.why :
                Explained(o, d, noted)[k] \in {d.why[k], "noted by the reader"}
           /\ DOMAIN Explained(o, d, noted) \subseteq
                DOMAIN d.why \cup MustExplain(o) \cup NotesFor(o, noted)
                  \cup gpuNotes.keys \cup {"gpu"}
<1> DEFINE gaps == {f \in MustExplain(o) : d.got[f] = 0}
           marked == SetDefault(d.why, gaps, "sensor_unsupported")
           notes == NotesFor(o, noted) \cup gpuNotes.keys
           told == Put(marked, notes, "noted by the reader")
<1> HIDE DEF gaps, notes
<1>1. /\ DOMAIN marked = DOMAIN d.why \cup gaps
      /\ \A k \in DOMAIN d.why : marked[k] = d.why[k]
  BY DEF SetDefault, Put
<1> HIDE DEF marked
<1>2. /\ DOMAIN told = DOMAIN marked \cup notes
      /\ \A k \in notes : told[k] = "noted by the reader"
      /\ \A k \in DOMAIN marked \ notes : told[k] = marked[k]
  BY DEF Put
<1> HIDE DEF told
<1>3. /\ DOMAIN SetDefault(told, {"gpu"}, "no_gpus") = DOMAIN told \cup {"gpu"}
      /\ \A k \in DOMAIN told : SetDefault(told, {"gpu"}, "no_gpus")[k] = told[k]
  BY DEF SetDefault, Put
<1>4. Explained(o, d, noted)
        = IF d.got["gpu"] = 0 THEN SetDefault(told, {"gpu"}, "no_gpus") ELSE told
  BY DEF Explained, told, marked, gaps, notes
<1> DEFINE why == Explained(o, d, noted)
<1>5. /\ DOMAIN told \subseteq DOMAIN why /\ DOMAIN why \subseteq DOMAIN told \cup {"gpu"}
      /\ \A k \in DOMAIN told : why[k] = told[k]
      /\ d.got["gpu"] = 0 => "gpu" \in DOMAIN why
  BY <1>3, <1>4
<1> HIDE DEF why
<1>6. \A k \in DOMAIN d.why : why[k] \in {d.why[k], "noted by the reader"}
  BY <1>1, <1>2, <1>5
<1>7. DOMAIN d.why \cup gaps \subseteq DOMAIN why
  BY <1>1, <1>2, <1>5
<1>8. DOMAIN why \subseteq DOMAIN d.why \cup MustExplain(o) \cup notes \cup {"gpu"}
  BY <1>1, <1>2, <1>5 DEF gaps
<1> QED BY <1>5, <1>6, <1>7, <1>8 DEF why, gaps, notes

LEMMA TimestampStep ==
    ASSUME StateTyped, TimestampExplained, [Next]_vars
    PROVE  TimestampExplained'
<1>1. ASSUME NEW c \in Callers, NEW o \in Operations, Enter(c, o) PROVE TimestampExplained'
  BY <1>1, EnterFacts DEF TimestampExplained
<1>2. ASSUME NEW c \in Callers, Read(c) PROVE TimestampExplained'
  <2> DEFINE r == CallOf(c)
             n == calls[r] + 1
  <2>1. PICK a \in Answers(r) :
           draft'[c] = Absorb(draft[c], r, a, n) /\ step'[c] = StepAfter(c, r, a)
    BY <1>2, AnsweredFacts
  <2>2. /\ op[c] \in Operations /\ step[c] \in 1..Len(Plan[op[c]]) /\ r \in Calls
        /\ n \in Nat \ {0}
    BY <1>2, ReadFacts
  <2>3. IsDraft(draft[c])
    BY DEF StateTyped
  <2> HIDE DEF n
  <2>4. /\ draft'[c].got["timestamp"]
             = IF "timestamp" \in a.good THEN n ELSE draft[c].got["timestamp"]
        /\ draft'[c].why = Put(draft[c].why, Named(r, a.kind), ReasonFor(r, a.kind))
        /\ draft'[c].doomed = (draft[c].doomed \/ a.kind = "doom")
    BY <2>1, <2>2, <2>3, AbsorbFacts DEF Fields
  <2>5. DOMAIN draft'[c].why = DOMAIN draft[c].why \cup Named(r, a.kind)
    BY <2>4 DEF Put
  <2>6. SUFFICES ASSUME ~ draft'[c].doomed,
                        NEW i \in 1..(step'[c] - 1), i <= Len(Plan[op[c]]),
                        Plan[op[c]][i] = "clock"
                 PROVE  draft'[c].got["timestamp"] # 0 \/ "timestamp" \in DOMAIN draft'[c].why
    <3>1. \A d \in Callers : op'[d] # "none" => d = c
      BY <1>2, AnsweredFacts
    <3>2. op'[c] = op[c]
      BY <1>2, AnsweredFacts
    <3> QED BY <2>6, <3>1, <3>2 DEF TimestampExplained
  <2>7. ~ draft[c].doomed /\ a.kind # "doom"
    BY <2>4, <2>6
  <2>8. step'[c] = step[c] + 1
    BY <2>1, <2>2, <2>7, StepAfterFacts
  <2>9. CASE i = step[c]
    <3>1. r = "clock"
      BY <2>6, <2>9 DEF CallOf
    <3>2. a.kind \in {"raises", "malformed", "reading"}
      BY <2>2, <2>7, <3>1, AnswerFacts DEF Kinds
    <3>3. CASE a.kind = "reading"
      BY <2>2, <2>4, <3>1, <3>3, AnswerFacts
    <3>4. CASE a.kind \in {"raises", "malformed"}
      BY <2>2, <2>5, <3>1, <3>4, NamedFacts
    <3> QED BY <3>2, <3>3, <3>4
  <2>10. CASE i # step[c]
    <3>1. i \in 1..(step[c] - 1) /\ op[c] # "none"
      BY <2>2, <2>8, <2>10 DEF Operations
    <3>2. draft[c].got["timestamp"] # 0 \/ "timestamp" \in DOMAIN draft[c].why
      BY <2>6, <2>7, <3>1 DEF TimestampExplained
    <3> QED BY <2>2, <2>4, <2>5, <3>2
  <2> QED BY <2>9, <2>10
<1>3. ASSUME NEW c \in Callers, Return(c) \/ Interrupt(c) PROVE TimestampExplained'
  BY <1>3, EndFacts DEF TimestampExplained
<1>4. CASE UNCHANGED vars
  BY <1>4 DEF TimestampExplained, vars, callerVars, readerVars
<1> QED BY <1>1, <1>2, <1>3, <1>4, Steps

LEMMA TimestampAlways == Spec => []TimestampExplained
<1>1. Init => TimestampExplained
  BY DEF Init, TimestampExplained
<1> QED BY <1>1, AlwaysTyped, TimestampStep, PTL DEF Spec

\* Steps that return nothing leave the report alone.
LEMMA ReportKept ==
    ASSUME StateTyped, [Next]_vars
    PROVE  (\E c \in Callers : Return(c)) \/ UNCHANGED <<report, diagnostics>>
<1>1. ASSUME NEW c \in Callers, NEW o \in Operations, Enter(c, o)
      PROVE  UNCHANGED <<report, diagnostics>>
  BY <1>1, EnterFacts
<1>2. ASSUME NEW c \in Callers, Read(c) PROVE UNCHANGED <<report, diagnostics>>
  BY <1>2, AnsweredFacts
<1>3. ASSUME NEW c \in Callers, Interrupt(c) PROVE UNCHANGED <<report, diagnostics>>
  BY <1>3 DEF Interrupt
<1>4. CASE UNCHANGED vars
  BY <1>4 DEF vars
<1> QED BY <1>1, <1>2, <1>3, <1>4, Steps

\* Everything an operation accounts for has a value or a reason when it returns.
LEMMA ReturnExplains ==
    ASSUME StateTyped, TimestampExplained, NEW c \in Callers, Return(c), ~ draft[c].doomed,
           NEW f \in MustExplain(op[c]) \cup {"gpu", "timestamp"}, draft[c].got[f] = 0
    PROVE  f \in DOMAIN diagnostics'
<1>1. PICK noted \in SUBSET HostNotes : diagnostics' = Explained(op[c], draft[c], noted)
  BY ReturnFacts
<1>2. CASE f = "timestamp"
  <2>1. op[c] \in Operations /\ step[c] > Len(Plan[op[c]]) /\ step[c] \in Nat
    BY ReturnFacts DEF StateTyped, TypeOK
  <2>2. \E i \in 1..(step[c] - 1) : i <= Len(Plan[op[c]]) /\ Plan[op[c]][i] = "clock"
    <3>1. CASE op[c] = "snapshot"
      <4>1. 1 \in 1..(step[c] - 1) /\ 1 <= Len(Plan[op[c]])
        BY <2>1, <3>1, Lengths
      <4>2. Plan[op[c]][1] = "clock"
        BY <3>1 DEF Plan
      <4> QED BY <4>1, <4>2
    <3>2. CASE op[c] = "machine_profile"
      <4>1. 3 \in 1..(step[c] - 1) /\ 3 <= Len(Plan[op[c]])
        BY <2>1, <3>2, Lengths
      <4>2. Plan[op[c]][3] = "clock"
        BY <3>2 DEF Plan
      <4> QED BY <4>1, <4>2
    <3> QED BY <2>1, <3>1, <3>2 DEF Operations
  <2>3. op[c] # "none"
    BY <2>1 DEF Operations
  <2>4. "timestamp" \in DOMAIN draft[c].why
    BY <1>2, <2>2, <2>3 DEF TimestampExplained
  <2> QED BY <1>1, <1>2, <2>4, ExplainedFacts
<1>3. CASE f # "timestamp"
  BY <1>1, <1>3, ExplainedFacts
<1> QED BY <1>2, <1>3

LEMMA GapsStep ==
    ASSUME StateTyped, TimestampExplained, GapsExplained, [Next]_vars
    PROVE  GapsExplained'
<1>1. ASSUME NEW c \in Callers, Return(c) PROVE GapsExplained'
  <2>1. SUFFICES ASSUME ~ report'.doomed, NEW f \in Measured' \cup {"gpu", "timestamp"},
                        report'.got[f] = 0
                 PROVE  f \in DOMAIN report'.why
    BY DEF GapsExplained
  <2>2. /\ op[c] \in Operations /\ report'.op = op[c] /\ report'.doomed = draft[c].doomed
        /\ report'.why = diagnostics'
    BY <1>1, ReturnFacts
  <2>3. report'.got = draft[c].got
    BY <1>1, <2>1, <2>2, ReturnFacts
  <2>4. Measured' = MustExplain(op[c])
    BY <2>2 DEF Measured, MustExplain
  <2> QED BY <1>1, <2>1, <2>2, <2>3, <2>4, ReturnExplains
<1>2. CASE UNCHANGED <<report, diagnostics>>
  BY <1>2 DEF GapsExplained, Measured
<1> QED BY <1>1, <1>2, ReportKept

\* A report that was assembled explains every measurement it lacks, the absence
\* of any GPU and a timestamp that is not the clock's (collector.py _read,
\* _mark_unsupported), for any combination of failing calls.
THEOREM ExplainedGaps == Spec => []GapsExplained
<1>1. Init => GapsExplained
  BY DEF Init, NoReport, GapsExplained
<1> QED BY <1>1, AlwaysTyped, TimestampAlways, GapsStep, PTL DEF Spec

----------------------------------------------------------------------------
(* Exceptions are named.                                                   *)

\* A field whose call raised is named so, and no later call fills it.
RaisesKept ==
    \A c \in Callers : op[c] # "none" =>
        /\ \A f \in draft[c].raised :
              f \in DOMAIN draft[c].why /\ draft[c].why[f] = "reader_error"
        /\ \A i \in step[c]..Len(Plan[op[c]]) : Fills[Plan[op[c]][i]] \cap draft[c].raised = {}

LEMMA RaisesKeptStep ==
    ASSUME StateTyped, RaisesKept, [Next]_vars
    PROVE  RaisesKept'
<1>1. ASSUME NEW c \in Callers, NEW o \in Operations, Enter(c, o) PROVE RaisesKept'
  <2>1. draft'[c].raised = {}
    BY <1>1, EnterFacts DEF NoDraft
  <2> QED BY <1>1, <2>1, EnterFacts DEF RaisesKept
<1>2. ASSUME NEW c \in Callers, Read(c) PROVE RaisesKept'
  <2> DEFINE r == CallOf(c)
             n == calls[r] + 1
             len == Len(Plan[op[c]])
  <2>1. PICK a \in Answers(r) :
           draft'[c] = Absorb(draft[c], r, a, n) /\ step'[c] = StepAfter(c, r, a)
    BY <1>2, AnsweredFacts
  <2>2. /\ op[c] \in Operations /\ step[c] \in 1..len /\ r \in Calls
        /\ n \in Nat \ {0} /\ len \in Nat
    BY <1>2, ReadFacts, PlanCalls
  <2>3. IsDraft(draft[c])
    BY DEF StateTyped
  <2> HIDE DEF n
  <2>4. /\ draft'[c].raised = draft[c].raised \cup (IF a.kind = "raises" THEN Fills[r] ELSE {})
        /\ draft'[c].why = Put(draft[c].why, Named(r, a.kind), ReasonFor(r, a.kind))
    BY <2>1, <2>2, <2>3, AbsorbFacts
  <2>5. /\ \A f \in draft[c].raised :
             f \in DOMAIN draft[c].why /\ draft[c].why[f] = "reader_error"
        /\ \A i \in step[c]..len : Fills[Plan[op[c]][i]] \cap draft[c].raised = {}
    BY <2>2 DEF RaisesKept, Operations
  <2>6. draft[c].raised \cap Named(r, a.kind) = {}
    <3>1. Fills[r] \cap draft[c].raised = {}
      BY <2>2, <2>5 DEF CallOf
    <3>2. "host_profile" \notin draft[c].raised
      BY <2>3, OtherKeys DEF IsDraft
    <3> QED BY <2>2, <3>1, <3>2, NamedFacts
  <2>7. ASSUME NEW f \in draft'[c].raised
        PROVE  f \in DOMAIN draft'[c].why /\ draft'[c].why[f] = "reader_error"
    <3>1. CASE f \in draft[c].raised
      BY <2>4, <2>5, <2>6, <3>1 DEF Put
    <3>2. CASE a.kind = "raises" /\ f \in Fills[r]
      <4>1. Named(r, a.kind) = Fills[r] /\ ReasonFor(r, a.kind) = "reader_error"
        BY <2>2, <3>2, NamedFacts
      <4> QED BY <2>4, <3>2, <4>1 DEF Put
    <3> QED BY <2>4, <2>7, <3>1, <3>2
  <2>8. ASSUME NEW i \in step'[c]..len PROVE Fills[Plan[op[c]][i]] \cap draft'[c].raised = {}
    <3>1. step'[c] = step[c] + 1 \/ step'[c] = len + 1
      BY <2>1, <2>2, StepAfterFacts
    <3>2. i \in step[c]..len /\ i # step[c] /\ i \in 1..len
      BY <2>2, <2>8, <3>1
    <3>3. Fills[Plan[op[c]][i]] \cap Fills[r] = {}
      BY <2>2, <3>2, FillsDiffer DEF CallOf
    <3>4. Fills[Plan[op[c]][i]] \cap draft[c].raised = {}
      BY <2>5, <3>2
    <3> QED BY <2>4, <3>3, <3>4
  <2>9. \A d \in Callers : op'[d] # "none" => d = c
    BY <1>2, AnsweredFacts
  <2>10. op'[c] = op[c]
    BY <1>2, AnsweredFacts
  <2> QED BY <2>7, <2>8, <2>9, <2>10 DEF RaisesKept
<1>3. ASSUME NEW c \in Callers, Return(c) \/ Interrupt(c) PROVE RaisesKept'
  BY <1>3, EndFacts DEF RaisesKept
<1>4. CASE UNCHANGED vars
  BY <1>4 DEF RaisesKept, vars, callerVars, readerVars
<1> QED BY <1>1, <1>2, <1>3, <1>4, Steps

LEMMA RaisesKeptAlways == Spec => []RaisesKept
<1>1. Init => RaisesKept
  BY DEF Init, RaisesKept
<1> QED BY <1>1, AlwaysTyped, RaisesKeptStep, PTL DEF Spec

LEMMA RaisesStep ==
    ASSUME StateTyped, RaisesKept, RaisesAreNamed, [Next]_vars
    PROVE  RaisesAreNamed'
<1>1. ASSUME NEW c \in Callers, Return(c) PROVE RaisesAreNamed'
  <2>1. SUFFICES ASSUME ~ report'.doomed, NEW f \in report'.raised
                 PROVE  f \in DOMAIN report'.why
                          /\ report'.why[f] \in {"reader_error", "noted by the reader"}
    BY DEF RaisesAreNamed
  <2>2. /\ op[c] \in Operations /\ report'.doomed = draft[c].doomed
        /\ report'.raised = draft[c].raised /\ report'.why = diagnostics'
    BY <1>1, ReturnFacts
  <2>3. PICK noted \in SUBSET HostNotes : diagnostics' = Explained(op[c], draft[c], noted)
    BY <1>1, <2>1, <2>2, ReturnFacts
  <2>4. f \in DOMAIN draft[c].why /\ draft[c].why[f] = "reader_error"
    BY <2>1, <2>2 DEF RaisesKept, Operations
  <2>5. DOMAIN draft[c].why \subseteq DOMAIN diagnostics'
        /\ \A k \in DOMAIN draft[c].why :
              diagnostics'[k] \in {draft[c].why[k], "noted by the reader"}
    <3>1. /\ DOMAIN draft[c].why \subseteq DOMAIN Explained(op[c], draft[c], noted)
          /\ \A k \in DOMAIN draft[c].why :
                Explained(op[c], draft[c], noted)[k] \in {draft[c].why[k], "noted by the reader"}
      BY ExplainedFacts, Zenon
    <3> QED BY <2>3, <3>1, Zenon
  <2>6. diagnostics'[f] \in {"reader_error", "noted by the reader"}
    BY <2>4, <2>5
  <2>7. f \in DOMAIN diagnostics'
    BY <2>4, <2>5
  <2> QED BY <2>2, <2>6, <2>7
<1>2. CASE UNCHANGED <<report, diagnostics>>
  BY <1>2 DEF RaisesAreNamed
<1> QED BY <1>1, <1>2, ReportKept

\* An exception of a reader is reported as one, or by a reason of the reader's
\* own, and never as a sensor the machine does not have.
THEOREM NamedRaises == Spec => []RaisesAreNamed
<1>1. Init => RaisesAreNamed
  <2>1. Init => report.raised = {}
    BY DEF Init, NoReport
  <2> QED BY <2>1 DEF RaisesAreNamed
<1> QED BY <1>1, AlwaysTyped, RaisesKeptAlways, RaisesStep, PTL DEF Spec

----------------------------------------------------------------------------
(* Notes stay home.                                                        *)

\* So far, an operation gave reasons for fields of its own.
DraftsAtHome ==
    \A c \in Callers :
        /\ op[c] = "snapshot" => DOMAIN draft[c].why \cap StaticFields = {}
        /\ op[c] = "machine_profile" => DOMAIN draft[c].why \cap LiveFields = {}

LEMMA DraftsAtHomeStep ==
    ASSUME StateTyped, DraftsAtHome, [Next]_vars
    PROVE  DraftsAtHome'
<1>1. ASSUME NEW c \in Callers, NEW o \in Operations, Enter(c, o) PROVE DraftsAtHome'
  <2>1. DOMAIN draft'[c].why = {}
    BY <1>1, EnterFacts, NoReasonsTyped DEF NoDraft
  <2> QED BY <1>1, <2>1, EnterFacts DEF DraftsAtHome
<1>2. ASSUME NEW c \in Callers, Read(c) PROVE DraftsAtHome'
  <2> DEFINE r == CallOf(c)
             n == calls[r] + 1
  <2>1. PICK a \in Answers(r) : draft'[c] = Absorb(draft[c], r, a, n)
    BY <1>2, AnsweredFacts
  <2>2. /\ op[c] \in Operations /\ step[c] \in 1..Len(Plan[op[c]]) /\ r \in Calls
        /\ n \in Nat
    BY <1>2, ReadFacts
  <2>3. IsDraft(draft[c])
    BY DEF StateTyped
  <2> HIDE DEF n
  <2>4. draft'[c].why = Put(draft[c].why, Named(r, a.kind), ReasonFor(r, a.kind))
    BY <2>1, <2>2, <2>3, AbsorbFacts
  <2>5. DOMAIN draft'[c].why \subseteq DOMAIN draft[c].why \cup Fills[r] \cup {"host_profile"}
    <3>1. DOMAIN draft'[c].why = DOMAIN draft[c].why \cup Named(r, a.kind)
      BY <2>4 DEF Put
    <3> QED BY <2>2, <3>1, NamedFacts
  <2>6. op[c] = "snapshot" => Fills[r] \cap StaticFields = {}
    BY <2>2, Lengths, FillsAtHome DEF CallOf
  <2>7. op[c] = "machine_profile" => Fills[r] \cap LiveFields = {}
    BY <2>2, Lengths, FillsAtHome DEF CallOf
  <2>8. /\ op[c] = "snapshot" => DOMAIN draft'[c].why \cap StaticFields = {}
        /\ op[c] = "machine_profile" => DOMAIN draft'[c].why \cap LiveFields = {}
    BY <2>5, <2>6, <2>7, OtherKeys DEF DraftsAtHome
  <2>9. \A d \in Callers : d # c => op'[d] = "none"
    BY <1>2, AnsweredFacts
  <2>10. op'[c] = op[c]
    BY <1>2, AnsweredFacts
  <2> QED BY <2>8, <2>9, <2>10 DEF DraftsAtHome
<1>3. ASSUME NEW c \in Callers, Return(c) \/ Interrupt(c) PROVE DraftsAtHome'
  BY <1>3, EndFacts DEF DraftsAtHome
<1>4. CASE UNCHANGED vars
  BY <1>4 DEF DraftsAtHome, vars, callerVars, readerVars
<1> QED BY <1>1, <1>2, <1>3, <1>4, Steps

LEMMA DraftsAtHomeAlways == Spec => []DraftsAtHome
<1>1. Init => DraftsAtHome
  BY DEF Init, DraftsAtHome
<1> QED BY <1>1, AlwaysTyped, DraftsAtHomeStep, PTL DEF Spec

LEMMA NotesHomeStep ==
    ASSUME StateTyped, DraftsAtHome, NotesStayHome, [Next]_vars
    PROVE  NotesStayHome'
<1>1. ASSUME NEW c \in Callers, Return(c) PROVE NotesStayHome'
  <2>1. /\ op[c] \in Operations /\ report'.op = op[c] /\ report'.why = diagnostics'
    BY <1>1, ReturnFacts
  <2>2. CASE draft[c].doomed
    <3>1. DOMAIN report'.why = {op[c]}
      BY <1>1, <2>1, <2>2, ReturnFacts, EmergencyFacts
    <3> QED BY <2>1, <3>1, OtherKeys DEF Operations, NotesStayHome
  <2>3. CASE ~ draft[c].doomed
    <3>1. PICK noted \in SUBSET HostNotes : diagnostics' = Explained(op[c], draft[c], noted)
      BY <1>1, <2>3, ReturnFacts
    <3>2. DOMAIN Explained(op[c], draft[c], noted) \subseteq
            DOMAIN draft[c].why \cup MustExplain(op[c]) \cup NotesFor(op[c], noted)
              \cup gpuNotes.keys \cup {"gpu"}
      BY ExplainedFacts, Zenon
    <3>3. gpuNotes.keys \cap (LiveFields \cup StaticFields) = {}
      BY GpuKeysAssumption DEF StateTyped
    <3>4. CASE op[c] = "snapshot"
      <4>1. MustExplain(op[c]) = LiveFields /\ NotesFor(op[c], noted) \subseteq LiveFields
        BY <3>4 DEF MustExplain, NotesFor
      <4>2. DOMAIN draft[c].why \cap StaticFields = {}
        BY <3>4 DEF DraftsAtHome
      <4>3. DOMAIN diagnostics' \cap StaticFields = {}
        BY <3>1, <3>2, <3>3, <4>1, <4>2, OtherKeys
      <4> QED BY <2>1, <3>4, <4>3 DEF NotesStayHome
    <3>5. CASE op[c] = "machine_profile"
      <4>1. MustExplain(op[c]) \subseteq StaticFields /\ NotesFor(op[c], noted) \cap LiveFields = {}
        BY <3>5 DEF MustExplain, NotesFor, StaticFields
      <4>2. DOMAIN draft[c].why \cap LiveFields = {}
        BY <3>5 DEF DraftsAtHome
      <4>3. DOMAIN diagnostics' \cap LiveFields = {}
        BY <3>1, <3>2, <3>3, <4>1, <4>2, OtherKeys
      <4> QED BY <2>1, <3>5, <4>3 DEF NotesStayHome
    <3> QED BY <2>1, <3>4, <3>5 DEF Operations
  <2> QED BY <2>2, <2>3
<1>2. CASE UNCHANGED <<report, diagnostics>>
  BY <1>2 DEF NotesStayHome
<1> QED BY <1>1, <1>2, ReportKept

\* Reasons about live sensors stay out of a profile, and those about static
\* facts out of a snapshot, though one host reader keeps both.
THEOREM NotesApart == Spec => []NotesStayHome
<1>1. Init => NotesStayHome
  BY DEF Init, NoReport, NotesStayHome
<1> QED BY <1>1, AlwaysTyped, DraftsAtHomeAlways, NotesHomeStep, PTL DEF Spec

----------------------------------------------------------------------------
(* The notes of a report are of its own call.                              *)

\* Once an operation has an answer of the GPU reader, the reader's notes are of
\* that call.
NotesOfTheCall ==
    \A c \in Callers : op[c] # "none" /\ draft[c].gpuCall # 0 =>
        /\ gpuNotes.call = draft[c].gpuCall
        /\ gpuNotes.by = IF op[c] = "snapshot" THEN "sample" ELSE "static_info"

\* The one call of each operation to the GPU reader.
LEMMA GpuCallOf ==
    ASSUME NEW o \in Operations, NEW i \in 1..Len(Plan[o]), Plan[o][i] \in GpuCalls
    PROVE  Plan[o][i] = IF o = "snapshot" THEN "sample" ELSE "static_info"
BY DEF Plan, GpuCalls, Operations

LEMMA NotesOfTheCallStep ==
    ASSUME StateTyped, NotesOfTheCall, [Next]_vars
    PROVE  NotesOfTheCall'
<1>1. ASSUME NEW c \in Callers, NEW o \in Operations, Enter(c, o) PROVE NotesOfTheCall'
  <2>1. draft'[c].gpuCall = 0
    BY <1>1, EnterFacts DEF NoDraft
  <2> QED BY <1>1, <2>1, EnterFacts DEF NotesOfTheCall
<1>2. ASSUME NEW c \in Callers, Read(c) PROVE NotesOfTheCall'
  <2> DEFINE r == CallOf(c)
             n == calls[r] + 1
  <2>1. PICK a \in Answers(r) :
           /\ draft'[c] = Absorb(draft[c], r, a, n)
           /\ IF r \in GpuCalls /\ a.kind # "raises"
              THEN gpuNotes'.call = n /\ gpuNotes'.by = r
              ELSE UNCHANGED gpuNotes
    BY <1>2, AnsweredFacts
  <2>2. /\ op[c] \in Operations /\ step[c] \in 1..Len(Plan[op[c]]) /\ r \in Calls
        /\ n \in Nat
    BY <1>2, ReadFacts
  <2>3. IsDraft(draft[c])
    BY DEF StateTyped
  <2>4. r \in GpuCalls => r = IF op[c] = "snapshot" THEN "sample" ELSE "static_info"
    BY <2>2, GpuCallOf DEF CallOf
  <2> HIDE DEF n
  <2>5. draft'[c].gpuCall = IF r \in GpuCalls /\ a.kind # "raises" THEN n ELSE draft[c].gpuCall
    BY <2>1, <2>2, <2>3, AbsorbFacts
  <2> HIDE DEF r
  <2>6. draft'[c].gpuCall # 0 =>
          /\ gpuNotes'.call = draft'[c].gpuCall
          /\ gpuNotes'.by = IF op[c] = "snapshot" THEN "sample" ELSE "static_info"
    BY <2>1, <2>2, <2>4, <2>5 DEF NotesOfTheCall, Operations
  <2>7. \A d \in Callers : d # c => op'[d] = "none"
    BY <1>2, AnsweredFacts
  <2>8. op'[c] = op[c]
    BY <1>2, AnsweredFacts
  <2> QED BY <2>6, <2>7, <2>8 DEF NotesOfTheCall
<1>3. ASSUME NEW c \in Callers, Return(c) \/ Interrupt(c) PROVE NotesOfTheCall'
  BY <1>3, EndFacts DEF NotesOfTheCall
<1>4. CASE UNCHANGED vars
  BY <1>4 DEF NotesOfTheCall, vars, callerVars, readerVars
<1> QED BY <1>1, <1>2, <1>3, <1>4, Steps

LEMMA NotesOfTheCallAlways == Spec => []NotesOfTheCall
<1>1. Init => NotesOfTheCall
  BY DEF Init, NotesOfTheCall
<1> QED BY <1>1, AlwaysTyped, NotesOfTheCallStep, PTL DEF Spec

LEMMA OwnNotesStep ==
    ASSUME StateTyped, NotesOfTheCall, NotesAreItsOwn, [Next]_vars
    PROVE  NotesAreItsOwn'
<1>1. ASSUME NEW c \in Callers, Return(c) PROVE NotesAreItsOwn'
  <2>1. /\ op[c] \in Operations /\ report'.op = op[c]
        /\ report'.gpuCall = draft[c].gpuCall /\ report'.notes = gpuNotes
    BY <1>1, ReturnFacts
  <2> QED BY <2>1 DEF NotesAreItsOwn, NotesOfTheCall, Operations
<1>2. CASE UNCHANGED <<report, diagnostics>>
  BY <1>2 DEF NotesAreItsOwn
<1> QED BY <1>1, <1>2, ReportKept

\* The GPU reader's reasons in a report are those its own call left, though the
\* other operation overwrites them: the lock is held from the call to the copy.
THEOREM OwnNotes == Spec => []NotesAreItsOwn
<1>1. Init => NotesAreItsOwn
  BY DEF Init, NoReport, NotesAreItsOwn
<1> QED BY <1>1, AlwaysTyped, NotesOfTheCallAlways, OwnNotesStep, PTL DEF Spec

----------------------------------------------------------------------------
(* One row.                                                                *)

\* As long as no snapshot was cut short, every call of a row was made once by
\* each snapshot, and by the one in progress if it is behind that step.
Behind(i) == \E c \in Callers : op[c] = "snapshot" /\ i < step[c] /\ step[c] <= 8
RowsInStep ==
    ~ skewed => \A i \in 2..8 :
        calls[Plan["snapshot"][i]] = calls["sample"] + (IF Behind(i) THEN 1 ELSE 0)

\* What a snapshot has got so far is of one row.
DraftInRow ==
    ~ skewed => \A c \in Callers : op[c] = "snapshot" =>
        \A f \in LiveFields \cup {"gpu"} :
            draft[c].got[f] \in {0, calls["sample"] + (IF step[c] <= 8 THEN 1 ELSE 0)}

LEMMA RowCalls ==
    /\ \A i \in 1..8, j \in 1..8 : Plan["snapshot"][i] = Plan["snapshot"][j] => i = j
    /\ \A i \in 1..8 : Plan["snapshot"][i] \in Calls
    /\ Plan["snapshot"][1] = "clock" /\ Plan["snapshot"][8] = "sample"
    /\ \A i \in 1..3, j \in 2..8 : Plan["machine_profile"][i] # Plan["snapshot"][j]
<1>1. Plan["snapshot"] = <<"clock", "cpu_percent", "load_average_1m", "memory",
          "cpu_temperature", "disk_throughput", "process_rss_bytes", "sample">>
  BY DEF Plan
<1>2. Plan["machine_profile"] = <<"static_facts", "static_info", "clock">>
  BY DEF Plan
<1>3. \A i \in 1..8, j \in 1..8 : Plan["snapshot"][i] = Plan["snapshot"][j] => i = j
  BY <1>1
<1>4. \A i \in 1..8 : Plan["snapshot"][i] \in Calls
  BY <1>1 DEF Calls, Fills
<1>5. Plan["snapshot"][1] = "clock" /\ Plan["snapshot"][8] = "sample"
  BY <1>1
<1>6. \A i \in 1..3, j \in 2..8 : Plan["machine_profile"][i] # Plan["snapshot"][j]
  BY <1>1, <1>2
<1> QED BY <1>3, <1>4, <1>5, <1>6

\* A snapshot's next call counts itself and no other call of the row.
LEMMA RowStep ==
    ASSUME StateTyped, RowsInStep, DraftInRow, NEW c \in Callers, Read(c),
           op[c] = "snapshot", ~ skewed'
    PROVE  RowsInStep' /\ DraftInRow'
<1> DEFINE r == CallOf(c)
           n == calls[r] + 1
           s == step[c]
           N == calls["sample"]
<1>1. PICK a \in Answers(r) :
         /\ calls' = [calls EXCEPT ![r] = n]
         /\ draft'[c] = Absorb(draft[c], r, a, n)
         /\ step'[c] = StepAfter(c, r, a)
         /\ skewed' = (skewed \/ (op[c] = "snapshot" /\ a.kind = "doom" /\ r \notin Lazy))
  BY AnsweredFacts
<1>2. s \in 1..8 /\ r \in Calls /\ n \in Nat \ {0} /\ r = Plan["snapshot"][s]
  BY ReadFacts, Lengths DEF CallOf
<1>3. ~ skewed /\ step'[c] = s + 1
  BY <1>1 DEF StepAfter
<1>4. \A d \in Callers : d # c => op'[d] = "none" /\ op[d] = "none"
  BY AnsweredFacts
<1>5. op'[c] = "snapshot"
  BY AnsweredFacts
<1>6. \A i \in 2..8 : /\ Behind(i) <=> i < s
                      /\ Behind(i)' <=> i < s + 1 /\ s + 1 <= 8
  BY <1>2, <1>3, <1>4, <1>5 DEF Behind
<1>7. \A i \in 2..8 : calls[Plan["snapshot"][i]] = N + (IF i < s THEN 1 ELSE 0)
  BY <1>3, <1>6 DEF RowsInStep
<1>8. N \in Nat /\ "sample" \in Calls
  BY RowCalls DEF StateTyped, TypeOK
<1>9. \A i \in 2..8 : calls'[Plan["snapshot"][i]]
                        = IF i = s THEN n ELSE calls[Plan["snapshot"][i]]
  <2>1. calls \in [Calls -> Nat]
    BY DEF StateTyped, TypeOK
  <2>2. \A x \in Calls : calls'[x] = IF x = r THEN n ELSE calls[x]
    BY <1>1, <2>1
  <2>3. \A i \in 2..8 : /\ Plan["snapshot"][i] \in Calls
                        /\ Plan["snapshot"][i] = r <=> i = s
    BY <1>2, RowCalls
  <2> HIDE DEF r, n, s
  <2> QED BY <2>2, <2>3
<1>10. calls'["sample"] = IF s = 8 THEN n ELSE N
  <2>1. Plan["snapshot"][8] = "sample"
    BY RowCalls
  <2> QED BY <1>9, <2>1
<1>11. s # 1 => n = N + 1
  BY <1>2, <1>7, <1>8
<1> HIDE DEF n, N, s
<1>12. RowsInStep'
  <2>1. SUFFICES ASSUME NEW i \in 2..8
                 PROVE  calls'[Plan["snapshot"][i]]
                          = calls'["sample"] + (IF Behind(i)' THEN 1 ELSE 0)
    BY DEF RowsInStep
  <2>2. calls'[Plan["snapshot"][i]] = IF i = s THEN n ELSE N + (IF i < s THEN 1 ELSE 0)
    BY <1>7, <1>9
  <2>3. CASE s = 8
    BY <1>6, <1>8, <1>10, <1>11, <2>2, <2>3
  <2>4. CASE s # 8
    BY <1>2, <1>6, <1>8, <1>10, <1>11, <2>2, <2>4
  <2> QED BY <2>3, <2>4
<1>13. DraftInRow'
  <2>1. SUFFICES ASSUME NEW f \in LiveFields \cup {"gpu"}
                 PROVE  draft'[c].got[f]
                          \in {0, calls'["sample"] + (IF step'[c] <= 8 THEN 1 ELSE 0)}
    BY <1>4 DEF DraftInRow, Operations
  <2>2. calls'["sample"] + (IF step'[c] <= 8 THEN 1 ELSE 0) = N + 1
    BY <1>2, <1>3, <1>8, <1>10, <1>11
  <2>3. IsDraft(draft[c])
    BY DEF StateTyped
  <2>4. f \in Fields
    BY DEF Fields
  <2>5. draft'[c].got[f] = IF f \in a.good THEN n ELSE draft[c].got[f]
    BY <1>1, <1>2, <2>3, <2>4, AbsorbFacts
  <2>6. draft[c].got[f] \in {0, N + 1}
    <3>1. step[c] <= 8
      BY <1>2 DEF s
    <3> QED BY <1>3, <3>1 DEF DraftInRow, N
  <2>7. f \in a.good => n = N + 1
    <3>1. CASE s = 1
      <4>1. a.good \subseteq Fills["clock"]
        BY <1>2, <3>1, RowCalls, AnswerFacts
      <4>2. f # "timestamp"
        BY OtherKeys
      <4> QED BY <4>1, <4>2 DEF Fills
    <3> QED BY <1>11, <3>1
  <2> QED BY <2>2, <2>5, <2>6, <2>7
<1> QED BY <1>12, <1>13

LEMMA RowsStep ==
    ASSUME StateTyped, RowsInStep, DraftInRow, [Next]_vars
    PROVE  RowsInStep' /\ DraftInRow'
<1>1. ASSUME NEW c \in Callers, NEW o \in Operations, Enter(c, o)
      PROVE  RowsInStep' /\ DraftInRow'
  <2>1. \A i \in 2..8 : ~ Behind(i) /\ ~ Behind(i)'
    BY <1>1, EnterFacts DEF Behind
  <2>2. UNCHANGED <<calls, skewed>>
    BY <1>1, EnterFacts
  <2>3. RowsInStep'
    BY <2>1, <2>2 DEF RowsInStep
  <2>4. ASSUME NEW f \in LiveFields \cup {"gpu"} PROVE draft'[c].got[f] = 0
    <3>1. draft'[c].got[f] = NoDraft.got[f]
      BY <1>1, EnterFacts
    <3>2. f \in Fields
      BY DEF Fields
    <3> QED BY <3>1, <3>2 DEF NoDraft
  <2>5. DraftInRow'
    BY <1>1, <2>4, EnterFacts DEF DraftInRow, Operations
  <2> QED BY <2>3, <2>5
<1>2. ASSUME NEW c \in Callers, Read(c) PROVE RowsInStep' /\ DraftInRow'
  <2>1. CASE op[c] = "snapshot" /\ ~ skewed'
    BY <1>2, <2>1, RowStep
  <2>2. CASE skewed'
    BY <2>2 DEF RowsInStep, DraftInRow
  <2>3. CASE op[c] = "machine_profile" /\ ~ skewed'
    <3> DEFINE r == CallOf(c)
    <3>1. PICK a \in Answers(r) :
             /\ calls' = [calls EXCEPT ![r] = calls[r] + 1]
             /\ skewed' = (skewed \/ (op[c] = "snapshot" /\ a.kind = "doom" /\ r \notin Lazy))
      BY <1>2, AnsweredFacts
    <3>2. \A d \in Callers : op[d] # "snapshot" /\ op'[d] # "snapshot"
      BY <1>2, <2>3, AnsweredFacts
    <3>3. \A i \in 2..8 : r # Plan["snapshot"][i]
      BY <1>2, <2>3, ReadFacts, Lengths, RowCalls DEF CallOf
    <3>4. \A i \in 2..8 : calls'[Plan["snapshot"][i]] = calls[Plan["snapshot"][i]]
      <4>1. calls \in [Calls -> Nat]
        BY DEF StateTyped, TypeOK
      <4>2. \A x \in Calls : x # r => calls'[x] = calls[x]
        BY <3>1, <4>1
      <4>3. \A i \in 2..8 : Plan["snapshot"][i] \in Calls
        BY RowCalls
      <4> HIDE DEF r
      <4> QED BY <3>3, <4>2, <4>3
    <3>5. calls'["sample"] = calls["sample"]
      BY <3>4, RowCalls
    <3>6. \A i \in 2..8 : ~ Behind(i) /\ ~ Behind(i)'
      BY <3>2 DEF Behind
    <3>7. ~ skewed
      BY <2>3, <3>1
    <3> QED BY <3>2, <3>4, <3>5, <3>6, <3>7 DEF RowsInStep, DraftInRow
  <2>4. op[c] \in Operations
    BY <1>2, ReadFacts
  <2> QED BY <2>1, <2>2, <2>3, <2>4 DEF Operations
<1>3. ASSUME NEW c \in Callers, Return(c) \/ Interrupt(c) PROVE RowsInStep' /\ DraftInRow'
  <2>1. \A d \in Callers : op'[d] = "none"
    BY <1>3, EndFacts
  <2>2. calls' = calls
    BY <1>3, EndFacts
  <2>3. DraftInRow'
    BY <2>1 DEF DraftInRow
  <2>4. \A d \in Callers : d # c => op[d] = "none"
    BY <1>3 DEF Return, Interrupt, StateTyped, TypeOK
  <2>5. step[c] \in 1..9
    BY DEF StateTyped, TypeOK
  <2>6. op[c] = "snapshot" => Len(Plan[op[c]]) = 8
    BY Lengths
  <2>7. ASSUME ~ skewed' PROVE ~ skewed /\ \A i \in 2..8 : ~ Behind(i)
    <3>1. CASE Return(c)
      <4>1. skewed' = skewed /\ step[c] > Len(Plan[op[c]])
        BY <3>1, ReturnFacts
      <4>2. op[c] = "snapshot" => ~ (step[c] <= 8)
        <5>1. op[c] = "snapshot" => step[c] > 8
          BY <4>1, <2>6
        <5> QED BY <5>1, <2>5
      <4>3. \A i \in 2..8 : ~ Behind(i)
        BY <2>4, <4>2 DEF Behind
      <4> QED BY <2>7, <4>1, <4>3
    <3>2. CASE Interrupt(c)
      <4>1. ~ skewed /\ (op[c] # "snapshot" \/ ~ (step[c] > 1) \/ Finished(c))
        BY <2>7, <3>2 DEF Interrupt
      <4>2. op[c] = "snapshot" => ~ (step[c] <= 8) \/ ~ (1 < step[c])
        <5>1. op[c] # "snapshot" \/ ~ (step[c] > 1) \/ step[c] > 8
          BY <4>1, <2>6 DEF Finished
        <5> QED BY <5>1, <2>5
      <4>3. \A i \in 2..8 : op[c] = "snapshot" => ~ (i < step[c] /\ step[c] <= 8)
        BY <4>2, <2>5
      <4>4. \A i \in 2..8 : ~ Behind(i)
        BY <2>4, <4>3 DEF Behind
      <4> QED BY <4>1, <4>4
    <3> QED BY <1>3, <3>1, <3>2
  <2>8. \A i \in 2..8 : ~ Behind(i)'
    BY <2>1 DEF Behind
  <2>9. RowsInStep'
    BY <2>2, <2>7, <2>8 DEF RowsInStep
  <2> QED BY <2>3, <2>9
<1>4. CASE UNCHANGED vars
  BY <1>4 DEF RowsInStep, DraftInRow, Behind, vars, callerVars, readerVars
<1> QED BY <1>1, <1>2, <1>3, <1>4, Steps

LEMMA RowsAlways == Spec => [](RowsInStep /\ DraftInRow)
<1>1. Init => RowsInStep /\ DraftInRow
  <2> SUFFICES ASSUME Init PROVE RowsInStep /\ DraftInRow
    OBVIOUS
  <2>1. DraftInRow
    BY DEF Init, DraftInRow
  <2>2. \A i \in 2..8 : ~ Behind(i)
    BY DEF Init, Behind
  <2>3. \A r \in Calls : calls[r] = 0
    BY DEF Init
  <2>4. \A i \in 2..8 : calls[Plan["snapshot"][i]] = 0
    BY <2>3, RowCalls
  <2>5. calls["sample"] = 0
    BY <2>3, RowCalls
  <2> QED BY <2>1, <2>2, <2>4, <2>5 DEF RowsInStep
<1> QED BY <1>1, AlwaysTyped, RowsStep, PTL DEF Spec

LEMMA OneRowStep ==
    ASSUME StateTyped, RowsInStep, DraftInRow, OneRow, [Next]_vars
    PROVE  OneRow'
<1>1. ASSUME NEW c \in Callers, Return(c) PROVE OneRow'
  <2>1. SUFFICES ASSUME report'.op = "snapshot", ~ report'.doomed, ~ skewed',
                        NEW f \in LiveFields \cup {"gpu"}, NEW g \in LiveFields \cup {"gpu"},
                        report'.got[f] # 0, report'.got[g] # 0
                 PROVE  report'.got[f] = report'.got[g]
    BY DEF OneRow
  <2>2. op[c] = "snapshot" /\ ~ skewed /\ report'.got = draft[c].got
    BY <1>1, <2>1, ReturnFacts
  <2> QED BY <2>1, <2>2 DEF DraftInRow
<1>2. CASE UNCHANGED <<report, diagnostics>>
  <2>1. ~ skewed' => ~ skewed
    <3>1. ASSUME NEW c \in Callers, Read(c) PROVE ~ skewed' => ~ skewed
      BY <3>1, AnsweredFacts
    <3>2. ASSUME NEW c \in Callers, NEW o \in Operations, Enter(c, o)
          PROVE  ~ skewed' => ~ skewed
      BY <3>2, EnterFacts
    <3>3. ASSUME NEW c \in Callers, Return(c) \/ Interrupt(c) PROVE ~ skewed' => ~ skewed
      BY <3>3 DEF Return, Interrupt
    <3>4. CASE UNCHANGED vars
      BY <3>4 DEF vars
    <3> QED BY <3>1, <3>2, <3>3, <3>4, Steps
  <2> QED BY <1>2, <2>1 DEF OneRow
<1> QED BY <1>1, <1>2, ReportKept

\* As long as no snapshot was cut short, every value in one comes from the same
\* call number of its reader, however the callers interleave.
THEOREM SnapshotIsOneRow == Spec => []OneRow
<1>1. Init => OneRow
  BY DEF Init, NoReport, OneRow
<1> QED BY <1>1, AlwaysTyped, RowsAlways, OneRowStep, PTL DEF Spec

----------------------------------------------------------------------------
(* The promise.                                                            *)

\* A step files a whole honest report, or nobody sees it.
LEMMA FileStep ==
    ASSUME StateTyped, TimestampExplained, [Next]_vars
    PROVE  [Promise!File]_(Promise!vars)
<1>1. ASSUME NEW c \in Callers, Return(c) PROVE Promise!File
  <2>1. /\ op[c] \in Operations /\ report'.op = op[c] /\ report'.doomed = draft[c].doomed
        /\ report'.why = diagnostics'
    BY <1>1, ReturnFacts
  <2>2. Accounted[op[c]] = MustExplain(op[c]) \cup {"gpu", "timestamp"}
    BY <2>1 DEF Accounted, MustExplain, Operations
  <2>3. CASE draft[c].doomed
    <3>1. report'.got = NoDraft.got /\ DOMAIN report'.why = {op[c]}
      BY <1>1, <2>1, <2>3, ReturnFacts, EmergencyFacts
    <3>2. Accounted[op[c]] \subseteq Fields
      BY <2>2 DEF MustExplain, Fields, StaticFields
    <3>3. \A f \in Accounted[op[c]] : report'.got[f] = 0
      BY <3>1, <3>2 DEF NoDraft
    <3> QED BY <2>1, <2>3, <3>1, <3>3 DEF Promise!File, Promise!Honest
  <2>4. CASE ~ draft[c].doomed
    <3>1. report'.got = draft[c].got
      BY <1>1, <2>4, ReturnFacts
    <3>2. \A f \in Accounted[op[c]] : report'.got[f] # 0 \/ f \in DOMAIN report'.why
      BY <1>1, <2>1, <2>2, <2>4, <3>1, ReturnExplains
    <3> QED BY <2>1, <2>4, <3>2 DEF Promise!File, Promise!Honest
  <2> QED BY <2>3, <2>4
<1>2. CASE UNCHANGED <<report, diagnostics>>
  BY <1>2 DEF Promise!vars
<1> QED BY <1>1, <1>2, ReportKept

\* The collector keeps the promise of Diagnostics: what a caller can see only
\* changes when an operation returns, and then to a whole honest report.
THEOREM CollectorImplementsDiagnostics == Spec => ImplementsDiagnostics
<1>1. Init => Promise!Init
  BY DEF Init, Promise!Init
<1> QED BY <1>1, AlwaysTyped, TimestampAlways, FileStep, PTL
        DEF Spec, ImplementsDiagnostics, Promise!Spec
=============================================================================
