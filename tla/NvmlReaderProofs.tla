-------------------------- MODULE NvmlReaderProofs --------------------------
(***************************************************************************)
(* Proofs about the NVML reader, for any set of devices and any number of  *)
(* operations, failures, moves of the devices and closes: what Nvml        *)
(* contributes to the theorems of GpuReadersProofs.                        *)
(***************************************************************************)
EXTENDS GpuReaders, FiniteSetTheorems, SequenceTheorems, TLAPS

(***************************************************************************)
(* Dictionaries, the devices and the names of fields.                      *)
(***************************************************************************)
LEMMA AssignFacts ==
    ASSUME NEW keys, NEW reason
    PROVE  /\ DOMAIN Assign(keys, reason) = keys \cup DOMAIN why
           /\ \A k \in keys : Assign(keys, reason)[k] = reason
           /\ \A k \in DOMAIN why \ keys : Assign(keys, reason)[k] = why[k]
BY DEF Assign, Put

LEMMA DefaultFacts ==
    ASSUME NEW keys, NEW reason
    PROVE  /\ DOMAIN Default(keys, reason) = keys \cup DOMAIN why
           /\ \A k \in DOMAIN why : Default(keys, reason)[k] = why[k]
           /\ \A k \in keys \ DOMAIN why : Default(keys, reason)[k] = reason
BY DEF Default, Put

LEMMA EmptyFacts == DOMAIN NoReasons = {} /\ DOMAIN NoRows = {}
BY DEF NoReasons, NoRows

\* The devices are numbered from 0.
LEMMA BusFacts ==
    ASSUME NEW b \in Buses
    PROVE  /\ Cardinality(DOMAIN b) \in Nat
           /\ DOMAIN b = 0..(Cardinality(DOMAIN b) - 1)
           /\ \A i \in DOMAIN b : b[i] \in Devices
<1>1. PICK n \in 0..Cardinality(Devices) : b \in Injection(0..(n - 1), Devices)
  BY DEF Buses
<1>2. Cardinality(Devices) \in Nat /\ n \in Nat
  BY DevicesAssumption, FS_CardinalityType
<1>3. b \in [0..(n - 1) -> Devices]
  BY <1>1 DEF Injection
<1>4. Cardinality(0..(n - 1)) = n
  BY <1>2, FS_Interval
<1> QED BY <1>2, <1>3, <1>4

\* What is told about a whole machine, device or row is no field.
NoFields == {"gpu", "device", "gpu.throttle.row", "gpu.compute.row"} \cup RowScopes

LEMMA FieldNames ==
    ASSUME NEW o
    PROVE  Fields(o) \cap NoFields = {}
<1>1. ASSUME NEW f \in Fields("sample") PROVE f \notin NoFields
  BY <1>1 DEF Fields, NoFields, RowScopes
<1>2. ASSUME NEW f \in Fields("static_info") PROVE f \notin NoFields
  BY <1>2 DEF Fields, NoFields, RowScopes
<1>3. o \notin {"sample", "static_info"} => Fields(o) = {}
  BY DEF Fields
<1> QED BY <1>1, <1>2, <1>3

AllFields == UNION {Fields(o) : o \in Operations}

LEMMA FieldFacts == AllFields \cap NoFields = {} /\ \A o \in Operations : Fields(o) \subseteq AllFields
BY FieldNames DEF AllFields

LEMMA KeyFacts ==
    /\ Gpu \in Keys
    /\ \A i \in Nat : Device(i) \in Keys
    /\ \A i \in Nat \cup {System}, f \in AllFields : <<i, f>> \in Keys
BY DEF AllFields, Keys, Gpu, Device, Names

(***************************************************************************)
(* Questions.                                                              *)
(***************************************************************************)
SystemQuestions == {<<"driver_version">>, <<"cuda_version">>}
DeviceQuestions ==
    {<<"name">>, <<"uuid">>, <<"vram_used_bytes", "vram_total_bytes">>, <<"compute_capability">>,
     <<"utilization_percent", "memory_utilization_percent">>, <<"throttle_reasons">>,
     <<"temperature_c">>, <<"power_watts">>, <<"power_limit_watts">>,
     <<"fan_percent">>, <<"core_clock_mhz">>, <<"memory_clock_mhz">>}
QuestionsAbout(s) == IF s = System THEN SystemQuestions ELSE DeviceQuestions

LEMMA QuestionsTyped ==
    ASSUME NEW o, NEW s
    PROVE  Questions(o, s) \in Seq(QuestionsAbout(s))
<1>1. CASE s = System
  <2>1. ASSUME NEW a \in SystemQuestions, NEW b \in SystemQuestions
        PROVE  <<a, b>> \in Seq(SystemQuestions)
    OBVIOUS
  <2>2. <<"driver_version">> \in SystemQuestions /\ <<"cuda_version">> \in SystemQuestions
    BY DEF SystemQuestions
  <2>3. Questions(o, System) = <<<<"driver_version">>, <<"cuda_version">>>>
    BY DEF Questions
  <2>4. QuestionsAbout(System) = SystemQuestions
    BY DEF QuestionsAbout
  <2> QED BY <1>1, <2>1, <2>2, <2>3, <2>4, Zenon
<1>2. CASE s # System
  <2>1. QuestionsAbout(s) = DeviceQuestions
    BY <1>2 DEF QuestionsAbout
  <2>2. /\ <<"vram_used_bytes", "vram_total_bytes">> \in DeviceQuestions
        /\ <<"utilization_percent", "memory_utilization_percent">> \in DeviceQuestions
        /\ <<"throttle_reasons">> \in DeviceQuestions /\ <<"uuid">> \in DeviceQuestions
        /\ <<"temperature_c">> \in DeviceQuestions /\ <<"power_watts">> \in DeviceQuestions
        /\ <<"power_limit_watts">> \in DeviceQuestions /\ <<"fan_percent">> \in DeviceQuestions
        /\ <<"core_clock_mhz">> \in DeviceQuestions /\ <<"memory_clock_mhz">> \in DeviceQuestions
        /\ <<"name">> \in DeviceQuestions /\ <<"compute_capability">> \in DeviceQuestions
    BY DEF DeviceQuestions
  <2>3. CASE o = "static_info"
    <3>1. ASSUME NEW a \in DeviceQuestions, NEW b \in DeviceQuestions, NEW c \in DeviceQuestions,
                 NEW d \in DeviceQuestions
          PROVE  <<a, b, c, d>> \in Seq(DeviceQuestions)
      OBVIOUS
    <3>2. Questions("static_info", s) =
              <<<<"name">>, <<"uuid">>, <<"vram_used_bytes", "vram_total_bytes">>,
                <<"compute_capability">>>>
      BY <1>2 DEF Questions
    <3>3. <<<<"name">>, <<"uuid">>, <<"vram_used_bytes", "vram_total_bytes">>,
            <<"compute_capability">>>> \in Seq(DeviceQuestions)
      BY <2>2, <3>1, Zenon
    <3> QED BY <2>1, <2>3, <3>2, <3>3
  <2>4. CASE o # "static_info"
    <3>1. ASSUME NEW a \in DeviceQuestions, NEW b \in DeviceQuestions, NEW c \in DeviceQuestions,
                 NEW d \in DeviceQuestions, NEW e \in DeviceQuestions, NEW f \in DeviceQuestions,
                 NEW g \in DeviceQuestions, NEW h \in DeviceQuestions, NEW i \in DeviceQuestions,
                 NEW j \in DeviceQuestions, NEW k \in DeviceQuestions
          PROVE  <<a, b, c, d, e, f, g, h, i, j, k>> \in Seq(DeviceQuestions)
      OBVIOUS
    <3>2. Questions(o, s) =
              <<<<"vram_used_bytes", "vram_total_bytes">>,
                <<"utilization_percent", "memory_utilization_percent">>,
                <<"throttle_reasons">>, <<"throttle_reasons">>, <<"uuid">>,
                <<"temperature_c">>, <<"power_watts">>, <<"power_limit_watts">>,
                <<"fan_percent">>, <<"core_clock_mhz">>, <<"memory_clock_mhz">>>>
      BY <1>2, <2>4 DEF Questions
    <3>3. Questions(o, s) \in Seq(DeviceQuestions)
      BY <2>2, <3>1, <3>2
    <3> QED BY <2>1, <3>3
  <2> QED BY <2>3, <2>4
<1> QED BY <1>1, <1>2

\* The first field names the question; only questions of one field are told of
\* when the answer is malformed, and the CUDA version is one of the system.
LEMMA QuestionFacts ==
    ASSUME NEW s, NEW q \in QuestionsAbout(s)
    PROVE  /\ q[1] \in Range(q) /\ q[1] \notin NoFields
           /\ Range(q) \subseteq AllFields
           /\ q[1] \in {"cuda_version", "compute_capability"} => Range(q) = {q[1]}
           /\ "cuda_version" \in Range(q) => q[1] = "cuda_version" /\ s = System
<1> DEFINE single == {"driver_version", "cuda_version", "name", "uuid", "compute_capability",
                      "throttle_reasons", "temperature_c", "power_watts", "power_limit_watts",
                      "fan_percent", "core_clock_mhz", "memory_clock_mhz"}
           double == {<<"vram_used_bytes", "vram_total_bytes">>,
                      <<"utilization_percent", "memory_utilization_percent">>}
<1>1. ASSUME NEW f, q = <<f>> PROVE Range(q) = {f} /\ q[1] = f
  BY <1>1 DEF Range
<1>2. ASSUME NEW f, NEW g, q = <<f, g>> PROVE Range(q) = {f, g} /\ q[1] = f
  BY <1>2 DEF Range
<1>3. Fields("sample") \cup Fields("static_info") \subseteq AllFields
  BY DEF Operations, AllFields
<1>4. /\ {"uuid", "throttle_reasons", "temperature_c", "power_watts", "power_limit_watts",
          "fan_percent", "core_clock_mhz", "memory_clock_mhz"} \subseteq Fields("sample")
      /\ {"vram_used_bytes", "vram_total_bytes", "utilization_percent",
          "memory_utilization_percent"} \subseteq Fields("sample")
      /\ {"driver_version", "cuda_version", "name", "compute_capability"}
             \subseteq Fields("static_info")
  BY DEF Fields
<1>5. single \subseteq AllFields
  BY <1>3, <1>4
<1>6. AllFields \cap NoFields = {}
  BY FieldFacts
<1>7. (\E f \in single : q = <<f>>) \/ q \in double
  BY DEF QuestionsAbout, SystemQuestions, DeviceQuestions
<1>8. CASE \E f \in single : q = <<f>>
  <2>1. PICK f \in single : q = <<f>>
    BY <1>8
  <2>2. Range(q) = {f} /\ q[1] = f
    BY <1>1, <2>1
  <2>3. f = "cuda_version" => s = System
    <3>1. <<"cuda_version">> \notin DeviceQuestions
      BY DEF DeviceQuestions
    <3> QED BY <2>1, <3>1 DEF QuestionsAbout
  <2>4. f \in AllFields
    BY <1>5
  <2> QED BY <2>2, <2>3, <2>4, <1>6
<1>9. CASE q = <<"vram_used_bytes", "vram_total_bytes">>
  <2>1. Range(q) = {"vram_used_bytes", "vram_total_bytes"} /\ q[1] = "vram_used_bytes"
    BY <1>2, <1>9
  <2>2. {"vram_used_bytes", "vram_total_bytes"} \subseteq AllFields
    BY <1>3, <1>4
  <2> QED BY <2>1, <2>2, <1>6
<1>10. CASE q = <<"utilization_percent", "memory_utilization_percent">>
  <2>1. /\ Range(q) = {"utilization_percent", "memory_utilization_percent"}
        /\ q[1] = "utilization_percent"
    BY <1>2, <1>10
  <2>2. {"utilization_percent", "memory_utilization_percent"} \subseteq AllFields
    BY <1>3, <1>4
  <2> QED BY <2>1, <2>2, <1>6
<1> QED BY <1>7, <1>8, <1>9, <1>10

(***************************************************************************)
(* The state of the reader.                                                *)
(***************************************************************************)

\* The last index a reason may be about.
Reached == IF stage \in {"ready", "flag"} THEN System ELSE subject

\* Where the operation is.
Placed ==
    /\ bus \in Buses /\ steady \subseteq Places(bus)
    /\ op \in Operations \cup {"none"}
    /\ stage \in {"rest", "ready", "flag", "count", "next", "questions"}
    /\ stage = "rest" <=> op = "none"
    /\ subject \in Nat \cup {System} /\ count \in Nat
    /\ subject < count \/ subject = System
    /\ stage = "count" => subject = System
    /\ stage = "questions" => todo \in Seq(QuestionsAbout(subject))

\* Reasons are told of what was visited, those of failures are the failures.
Told ==
    /\ DOMAIN why \subseteq Keys
    /\ op # "none" =>
        /\ \A k \in failed : k \in DOMAIN why /\ why[k] = "call_failed"
        /\ Gpu \in DOMAIN why => why[Gpu] # "no_nvidia_gpus"
        /\ \A k \in DOMAIN why : k[1] <= Reached

\* The count covers the devices that were there, or it was not to be had.
Visiting == stage = "next" \/ (stage = "questions" /\ subject # System)
Counted == Visiting => Gpu \in DOMAIN why \/ \A place \in steady : place[1] < count

\* An index that is behind has a row or a reason.
Behind(i) == i \in DOMAIN rows \/ Device(i) \in DOMAIN why
Passed ==
    /\ stage = "next" /\ op # "available" => \A i \in 0..subject : Behind(i)
    /\ stage = "questions" => \A i \in 0..(subject - 1) : Behind(i)

\* A row that was kept.
RowGood(i) ==
    /\ \A f \in rows[i].lost \ Text : <<i, f>> \in DOMAIN why \/ <<System, f>> \in DOMAIN why
    /\ \A f \in Fields(op) : <<i, f>> \in DOMAIN why => f \in rows[i].lost
    /\ \A place \in steady : place[1] = i => rows[i].device = place[2]
    /\ rows[i].beside = Nobody
RowsGood ==
    /\ rows # NoRows => DOMAIN rows # {}
    /\ op # "none" => \A i \in DOMAIN rows :
          i \in Nat /\ i <= Reached /\ (stage = "questions" => i < subject) /\ RowGood(i)

\* The row in the making.
LostGood ==
    /\ lost \subseteq AllFields
    /\ stage \in {"count", "next", "questions"} /\ "cuda_version" \in lost =>
          <<System, "cuda_version">> \in DOMAIN why
    /\ stage = "questions" /\ subject # System =>
          /\ \A f \in Fields(op) : <<subject, f>> \in DOMAIN why => f \in lost
          /\ \A place \in steady : place[1] = subject => handle = place[2]

(***************************************************************************)
(* What raises, and what answers.                                          *)
(***************************************************************************)
LEMMA RaisesFacts ==
    ASSUME NEW key, NEW possible, Raises(key, possible)
    PROVE  /\ failed' = failed \cup {key}
           /\ DOMAIN why' = {key} \cup DOMAIN why
           /\ why'[key] = "call_failed"
           /\ \A k \in DOMAIN why \ {key} : why'[k] = why[k]
           /\ UNCHANGED <<bus, steady, moves>>
<1>1. why' = Assign({key}, "call_failed") /\ failed' = failed \cup {key}
  BY DEF Raises
<1>2. UNCHANGED <<bus, steady, moves>>
  BY DEF Raises, Fault
<1> QED BY <1>1, <1>2 DEF Assign, Put

LEMMA WorksFacts ==
    ASSUME Works
    PROVE  UNCHANGED <<bus, steady, calm, faults, moves, why, failed>>
BY DEF Works, machineVars, reasonVars

(***************************************************************************)
(* Places.                                                                 *)
(***************************************************************************)
LEMMA PlacedInit == ReadersInit => Placed
BY DEF ReadersInit, Init, NvmlInit, Placed, System

LEMMA PlacedStep ==
    ASSUME Placed, NvmlNext
    PROVE  Placed'
<1> DEFINE M == bus \in Buses /\ steady \subseteq Places(bus)
           P == /\ op \in Operations \cup {"none"}
                /\ stage \in {"rest", "ready", "flag", "count", "next", "questions"}
                /\ stage = "rest" <=> op = "none"
                /\ subject \in Nat \cup {System} /\ count \in Nat
                /\ subject < count \/ subject = System
                /\ stage = "count" => subject = System
           T == stage = "questions" => todo \in Seq(QuestionsAbout(subject))
<1>0. M /\ P /\ T
  BY DEF Placed
<1> SUFFICES M' /\ P' /\ T'
  BY DEF Placed
<1>1. CASE NvmlBegin
  BY <1>0, <1>1 DEF NvmlBegin, Begin, BeginWith, visitVars, Operations
<1>2. CASE AlreadyReady \/ RaiseFlag
  <2>1. UNCHANGED <<bus, steady, op, count>> /\ subject' = System /\ op # "none"
    BY <1>0, <1>2, WorksFacts DEF AlreadyReady, RaiseFlag, Start, operationVars
  <2>2. /\ stage' = Started
        /\ stage' = "questions" => todo' = Questions(op, System)
    BY <1>2 DEF AlreadyReady, RaiseFlag, Start
  <2> QED BY <1>0, <2>1, <2>2, QuestionsTyped DEF Started
<1>3. CASE InitFails
  BY <1>0, <1>3, RaisesFacts DEF InitFails, Return, visitVars
<1>4. CASE InitSucceeds
  BY <1>0, <1>4, WorksFacts DEF InitSucceeds, operationVars, visitVars
<1>5. CASE Counting
  <2>1. UNCHANGED <<bus, steady>> /\ count' \in Nat
    <3>1. CASE Raises(Gpu, refs > 0) /\ count' = 0
      BY <3>1, RaisesFacts
    <3>2. CASE Works /\ count' = Cardinality(DOMAIN bus)
      BY <3>2, <1>0, WorksFacts, BusFacts
    <3>3. CASE Fault(1) /\ count' = 0
      BY <3>3 DEF Fault
    <3> QED BY <1>5, <3>1, <3>2, <3>3 DEF Counting
  <2> QED BY <1>0, <1>5, <2>1 DEF Counting, operationVars, System
<1>6. CASE Address
  <2>1. UNCHANGED <<bus, steady>>
    BY <1>6, RaisesFacts, WorksFacts DEF Address, Visit
  <2>2. /\ stage = "next" /\ subject' = subject + 1 /\ subject + 1 < count
        /\ UNCHANGED <<op, count>>
    BY <1>6 DEF Address, Visit, operationVars
  <2>3. stage' = "next" \/ (stage' = "questions" /\ todo' = Questions(op, subject'))
    BY <1>6, <2>2 DEF Address, Visit
  <2> QED BY <1>0, <2>1, <2>2, <2>3, QuestionsTyped DEF System
<1>7. CASE Ask
  <2>1. UNCHANGED <<bus, steady>>
    BY <1>7, RaisesFacts, WorksFacts DEF Ask, Fault
  <2>2. /\ stage = "questions" /\ todo # <<>> /\ todo' = Tail(todo)
        /\ UNCHANGED <<op, stage, count, subject>>
    BY <1>7 DEF Ask, operationVars
  <2> QED BY <1>0, <2>1, <2>2
<1>8. CASE EndSystem
  BY <1>0, <1>8, WorksFacts DEF EndSystem, operationVars, visitVars
<1>9. CASE EndRow
  BY <1>0, <1>9 DEF EndRow, KeepRow, machineVars, operationVars, visitVars
<1>10. CASE Finish
  BY <1>0, <1>10 DEF Finish, Return, machineVars, visitVars
<1>11. CASE NvmlEscape
  BY <1>0, <1>11 DEF NvmlEscape, Escape, Fault, visitVars
<1>12. CASE Close
  BY <1>0, <1>12 DEF Close, Lower, operationVars, visitVars
<1>13. CASE Shutdown
  <2>1. UNCHANGED <<bus, steady>>
    BY <1>13, RaisesFacts, WorksFacts DEF Shutdown
  <2> QED BY <1>0, <1>13, <2>1 DEF Shutdown, operationVars, visitVars
<1> QED BY <1>1, <1>2, <1>3, <1>4, <1>5, <1>6, <1>7, <1>8, <1>9, <1>10, <1>11, <1>12, <1>13
        DEF NvmlNext

LEMMA AddressFacts ==
    ASSUME Placed, Address
    PROVE  /\ stage = "next" /\ op \in Operations \ {"available"}
           /\ subject' = subject + 1 /\ subject' \in Nat /\ subject' < count
           /\ UNCHANGED <<operationVars, libraryVars, count, rows, bus, steady, moves>>
           /\ \/ /\ Works /\ refs > 0 /\ subject' \in DOMAIN bus
                 /\ stage' = "questions" /\ handle' = bus[subject']
                 /\ lost' = IF op = "sample" THEN {"memory_temperature_c"}
                            ELSE lost \cap {"driver_version", "cuda_version"}
              \/ /\ Raises(Device(subject'), refs > 0 /\ subject' \in DOMAIN bus)
                 /\ stage' = "next" /\ UNCHANGED <<handle, todo, lost>>
<1>1. /\ stage = "next" /\ op # "available" /\ subject' = subject + 1 /\ subject + 1 < count
      /\ UNCHANGED <<operationVars, libraryVars, count, rows>>
  BY DEF Address, Visit
<1>2. \/ /\ Works /\ refs > 0 /\ subject' \in DOMAIN bus
         /\ stage' = "questions" /\ handle' = bus[subject']
         /\ lost' = IF op = "sample" THEN {"memory_temperature_c"}
                    ELSE lost \cap {"driver_version", "cuda_version"}
      \/ /\ Raises(Device(subject'), refs > 0 /\ subject' \in DOMAIN bus)
         /\ UNCHANGED <<stage, handle, todo, lost>>
  BY DEF Address, Visit
<1>3. UNCHANGED <<bus, steady, moves>>
  BY <1>2, RaisesFacts, WorksFacts
<1> QED BY <1>1, <1>2, <1>3 DEF Placed, System

LEMMA AskFacts ==
    ASSUME Placed, Ask
    PROVE  /\ stage = "questions" /\ op # "none"
           /\ UNCHANGED <<operationVars, libraryVars, stage, count, subject, handle, rows,
                          bus, steady, moves>>
           /\ \E q \in QuestionsAbout(subject) :
                 \/ Works /\ Reachable /\ UNCHANGED lost
                 \/ Raises(<<subject, q[1]>>, Reachable) /\ lost' = lost \cup Range(q)
                 \/ /\ Fault(1) /\ UNCHANGED failed
                    /\ \E bad \in (SUBSET Range(q)) \ {{}} : lost' = lost \cup bad
                    /\ why' = IF q[1] \in {"cuda_version", "compute_capability"}
                              THEN Default({<<subject, q[1]>>}, "malformed_value") ELSE why
<1> DEFINE q == Head(todo)
<1>1. /\ stage = "questions" /\ todo # <<>>
      /\ UNCHANGED <<operationVars, libraryVars, stage, count, subject, handle, rows>>
  BY DEF Ask
<1>2. \/ Works /\ Reachable /\ UNCHANGED lost
      \/ Raises(<<subject, q[1]>>, Reachable) /\ lost' = lost \cup Range(q)
      \/ /\ Fault(1) /\ UNCHANGED failed
         /\ \E bad \in (SUBSET Range(q)) \ {{}} : lost' = lost \cup bad
         /\ why' = IF q[1] \in {"cuda_version", "compute_capability"}
                   THEN Default({<<subject, q[1]>>}, "malformed_value") ELSE why
  BY DEF Ask
<1>3. UNCHANGED <<bus, steady, moves>>
  BY <1>2, RaisesFacts, WorksFacts DEF Fault
<1>4. q \in QuestionsAbout(subject)
  BY <1>1 DEF Placed
<1>5. op # "none"
  BY <1>1 DEF Placed
<1> HIDE DEF q
<1> QED BY <1>1, <1>2, <1>3, <1>4, <1>5

(***************************************************************************)
(* Reasons.                                                                *)
(***************************************************************************)
LEMMA ToldRaises ==
    ASSUME Placed, Told, NEW key \in Keys, NEW possible, Raises(key, possible),
           op' = op, Reached' \in Int, Reached <= Reached', key[1] <= Reached'
    PROVE  Told'
<1>1. Reached \in Int /\ \A k \in Keys : k[1] \in Int
  BY DEF Placed, Reached, Keys, System
<1>2. key = Gpu => why'[Gpu] = "call_failed"
  BY RaisesFacts
<1>a. DOMAIN why' = {key} \cup DOMAIN why /\ \A k \in DOMAIN why \ {key} : why'[k] = why[k]
  BY RaisesFacts
<1>3. \A k \in DOMAIN why' : k = key \/ (k \in DOMAIN why /\ why'[k] = why[k])
  BY <1>a
<1>4. op # "none" => \A k \in DOMAIN why' : k[1] <= Reached'
  BY <1>1, <1>3 DEF Told
<1>5. op # "none" => \A k \in failed' : k \in DOMAIN why' /\ why'[k] = "call_failed"
  BY RaisesFacts DEF Told
<1> QED BY <1>2, <1>3, <1>4, <1>5, RaisesFacts DEF Told

LEMMA ToldDefault ==
    ASSUME Placed, Told, NEW keys \in SUBSET Keys, NEW reason, reason # "no_nvidia_gpus",
           why' = Default(keys, reason), UNCHANGED failed,
           op' = op, Reached' \in Int, Reached <= Reached', \A k \in keys : k[1] <= Reached'
    PROVE  Told'
<1>1. Reached \in Int /\ \A k \in Keys : k[1] \in Int
  BY DEF Placed, Reached, Keys, System
<1>2. /\ DOMAIN why' = keys \cup DOMAIN why
      /\ \A k \in DOMAIN why : why'[k] = why[k]
      /\ \A k \in keys \ DOMAIN why : why'[k] = reason
  BY DefaultFacts
<1>3. op # "none" => \A k \in DOMAIN why' : k[1] <= Reached'
  BY <1>1, <1>2 DEF Told
<1>4. op # "none" => \A k \in failed' : k \in DOMAIN why' /\ why'[k] = "call_failed"
  BY <1>2 DEF Told
<1> QED BY <1>2, <1>3, <1>4 DEF Told

LEMMA ToldKept ==
    ASSUME Placed, Told, UNCHANGED <<why, failed, op>>, Reached' \in Int, Reached <= Reached'
    PROVE  Told'
<1>1. Reached \in Int /\ \A k \in Keys : k[1] \in Int
  BY DEF Placed, Reached, Keys, System
<1> QED BY <1>1 DEF Told

LEMMA ToldStep ==
    ASSUME Placed, Placed', Told, LostGood, NvmlNext
    PROVE  Told'
<1>0. /\ Reached \in Int /\ Reached' \in Int /\ System <= Reached /\ System <= Reached'
      /\ Gpu[1] = System /\ Gpu \in Keys
  BY KeyFacts DEF Placed, Reached, System, Gpu
<1>1. CASE NvmlBegin
  <2>1. why' = NoReasons /\ failed' = {}
    BY <1>1 DEF NvmlBegin, Begin, BeginWith
  <2> QED BY <2>1, EmptyFacts DEF Told
<1>2. CASE AlreadyReady \/ RaiseFlag
  <2>1. UNCHANGED <<why, failed, op>>
    BY <1>2, WorksFacts DEF AlreadyReady, RaiseFlag, operationVars
  <2>2. stage \in {"ready", "flag"} /\ subject' = System
    BY <1>2 DEF AlreadyReady, RaiseFlag, Start
  <2>3. Reached = System /\ Reached' = System
    BY <2>2 DEF Reached
  <2> QED BY <1>0, <2>1, <2>3, ToldKept DEF System
<1>3. CASE InitFails
  <2>1. Raises(Gpu, TRUE) /\ op' = "none"
    BY <1>3 DEF InitFails, Return
  <2> QED BY <2>1, RaisesFacts, KeyFacts DEF Told
<1>4. CASE InitSucceeds
  <2>1. UNCHANGED <<why, failed, op>>
    BY <1>4, WorksFacts DEF InitSucceeds, operationVars
  <2>2. stage = "ready" /\ stage' = "flag"
    BY <1>4 DEF InitSucceeds
  <2>3. Reached = System /\ Reached' = System
    BY <2>2 DEF Reached
  <2> QED BY <1>0, <2>1, <2>3, ToldKept DEF System
<1>5. CASE Counting
  <2>1. op' = op /\ Reached = System /\ Reached' = System
    BY <1>5 DEF Counting, operationVars, Placed, Reached, System
  <2>2. CASE Raises(Gpu, refs > 0)
    BY <1>0, <2>1, <2>2, ToldRaises
  <2>3. CASE Works
    BY <1>0, <2>1, <2>3, WorksFacts, ToldKept
  <2>4. CASE why' = Default({Gpu}, "malformed_value") /\ UNCHANGED failed
    <3>1. {Gpu} \in SUBSET Keys /\ \A k \in {Gpu} : k[1] <= Reached'
      BY <1>0, <2>1
    <3> QED BY <1>0, <2>1, <2>4, <3>1, ToldDefault
  <2> QED BY <1>5, <2>2, <2>3, <2>4 DEF Counting
<1>6. CASE Address
  <2>1. op' = op /\ Reached <= Reached' /\ subject' \in Nat /\ Reached' = subject'
    BY <1>6, AddressFacts DEF operationVars, Placed, Reached, System
  <2>2. CASE Works
    BY <1>0, <2>1, <2>2, WorksFacts, ToldKept
  <2>3. CASE Raises(Device(subject'), refs > 0 /\ subject' \in DOMAIN bus)
    <3>1. Device(subject') \in Keys /\ Device(subject')[1] <= Reached'
      BY <2>1, KeyFacts DEF Device
    <3> QED BY <1>0, <2>1, <2>3, <3>1, ToldRaises
  <2> QED BY <1>6, <2>2, <2>3, AddressFacts
<1>7. CASE Ask
  <2>1. op' = op /\ Reached' = Reached /\ Reached' = subject /\ subject \in Nat \cup {System}
    BY <1>7, AskFacts DEF operationVars, Placed, Reached
  <2>2. PICK q \in QuestionsAbout(subject) :
          \/ Works
          \/ Raises(<<subject, q[1]>>, Reachable)
          \/ /\ UNCHANGED failed
             /\ why' = why \/ why' = Default({<<subject, q[1]>>}, "malformed_value")
    BY <1>7, AskFacts
  <2>3. <<subject, q[1]>> \in Keys /\ <<subject, q[1]>>[1] <= Reached'
    <3>1. q[1] \in AllFields
      BY QuestionFacts
    <3> QED BY <1>0, <2>1, <3>1, KeyFacts
  <2> DEFINE key == <<subject, q[1]>>
  <2> HIDE DEF key
  <2>4. CASE Works \/ (UNCHANGED failed /\ why' = why)
    BY <1>0, <2>1, <2>4, WorksFacts, ToldKept
  <2>5. CASE Raises(key, Reachable)
    BY <1>0, <2>1, <2>3, <2>5, ToldRaises DEF key
  <2>6. CASE UNCHANGED failed /\ why' = Default({key}, "malformed_value")
    <3>1. {key} \in SUBSET Keys /\ \A k \in {key} : k[1] <= Reached'
      BY <2>3 DEF key
    <3> QED BY <1>0, <2>1, <2>6, <3>1, ToldDefault
  <2> QED BY <2>2, <2>4, <2>5, <2>6 DEF key
<1>8. CASE EndSystem
  <2>1. UNCHANGED <<why, failed, op>>
    BY <1>8, WorksFacts DEF EndSystem, operationVars
  <2>2. Reached' = Reached
    BY <1>8 DEF EndSystem, Reached, visitVars
  <2> QED BY <1>0, <2>1, <2>2, ToldKept
<1>9. CASE EndRow
  <2>1. /\ op' = op /\ UNCHANGED failed /\ why' = Default(Unnamed, "sensor_unsupported")
        /\ subject \in Nat /\ Reached' = subject /\ Reached = subject
    BY <1>9 DEF EndRow, KeepRow, operationVars, visitVars, Placed, Reached
  <2>2. Unnamed \in SUBSET Keys /\ \A k \in Unnamed : k[1] <= Reached'
    BY <2>1, KeyFacts DEF Unnamed, LostGood
  <2> QED BY <1>0, <2>1, <2>2, ToldDefault
<1>10. CASE Finish
  <2>1. op' = "none" /\ (why' = why \/ why' = Default({Gpu}, "no_nvidia_gpus"))
    BY <1>10 DEF Finish, Return
  <2>2. DOMAIN why' \subseteq DOMAIN why \cup {Gpu}
    BY <2>1 DEF Default, Put
  <2> QED BY <1>0, <2>1, <2>2 DEF Told
<1>11. CASE NvmlEscape
  BY <1>11 DEF NvmlEscape, Escape, reasonVars, Told
<1>12. CASE Close
  <2>1. UNCHANGED <<why, failed, op, stage, subject>>
    BY <1>12 DEF Close, Lower, reasonVars, operationVars, visitVars
  <2>2. Reached' = Reached
    BY <2>1 DEF Reached
  <2> QED BY <1>0, <2>1, <2>2, ToldKept
<1>13. CASE Shutdown
  <2>1. op' = op /\ Reached' = Reached
    BY <1>13 DEF Shutdown, operationVars, visitVars, Reached
  <2>2. CASE Raises(Gpu, TRUE)
    <3>1. PICK possible : Raises(Gpu, possible)
      BY <2>2, Zenon
    <3> QED BY <1>0, <2>1, <3>1, ToldRaises
  <2>3. CASE Works
    BY <1>0, <2>1, <2>3, WorksFacts, ToldKept
  <2> QED BY <1>13, <2>2, <2>3 DEF Shutdown
<1> QED BY <1>1, <1>2, <1>3, <1>4, <1>5, <1>6, <1>7, <1>8, <1>9, <1>10, <1>11, <1>12, <1>13
        DEF NvmlNext

(***************************************************************************)
(* A step inside an operation.                                             *)
(***************************************************************************)
LEMMA InsideStep ==
    ASSUME Placed, Placed', LostGood, NvmlNext, op # "none", op' # "none"
    PROVE  /\ op' = op /\ UNCHANGED <<bus, steady>>
           /\ DOMAIN why \subseteq DOMAIN why'
           /\ \A k \in DOMAIN why' \ DOMAIN why :
                 k[2] \in NoFields \/ (stage = "questions" /\ k[1] = subject)
<1> DEFINE New == \A k \in DOMAIN why' \ DOMAIN why :
                      k[2] \in NoFields \/ (stage = "questions" /\ k[1] = subject)
           Goal == /\ op' = op /\ UNCHANGED <<bus, steady>>
                   /\ DOMAIN why \subseteq DOMAIN why' /\ New
<1> SUFFICES Goal
  OBVIOUS
<1>0. stage # "rest" /\ stage' # "rest" /\ Gpu[2] \in NoFields
  BY DEF Placed, Gpu, NoFields
<1>a. ASSUME NEW key, NEW possible, Raises(key, possible), op' = op,
             key[2] \in NoFields \/ (stage = "questions" /\ key[1] = subject)
      PROVE  Goal
  BY <1>a, RaisesFacts
<1>b. ASSUME Works, op' = op PROVE Goal
  BY <1>b, WorksFacts
<1>c. ASSUME NEW keys, NEW reason, why' = Default(keys, reason),
             UNCHANGED <<bus, steady, op>>,
             \A key \in keys : key[2] \in NoFields \/ (stage = "questions" /\ key[1] = subject)
      PROVE  Goal
  BY <1>c DEF Default, Put
<1> HIDE DEF Goal
<1>1. CASE AlreadyReady \/ RaiseFlag \/ InitSucceeds \/ EndSystem
  BY <1>1, <1>b DEF AlreadyReady, RaiseFlag, InitSucceeds, EndSystem, operationVars
<1>2. CASE Counting
  <2>1. op' = op
    BY <1>2 DEF Counting, operationVars
  <2>2. CASE Works
    BY <2>1, <2>2, <1>b
  <2>3. CASE Raises(Gpu, refs > 0)
    BY <2>1, <2>3, <1>0, <1>a
  <2>4. CASE Fault(1) /\ why' = Default({Gpu}, "malformed_value")
    <3>1. UNCHANGED <<bus, steady>>
      BY <2>4 DEF Fault
    <3>2. PICK reason : why' = Default({Gpu}, reason)
      BY <2>4
    <3> QED BY <2>1, <3>1, <3>2, <1>0, <1>c
  <2> QED BY <1>2, <2>2, <2>3, <2>4 DEF Counting
<1>3. CASE Address
  <2>1. op' = op /\ (Works \/ Raises(Device(subject'), refs > 0 /\ subject' \in DOMAIN bus))
    BY <1>3, AddressFacts DEF operationVars
  <2>2. Device(subject')[2] \in NoFields
    BY DEF Device, NoFields
  <2>3. CASE Works
    BY <2>1, <2>3, <1>b
  <2>4. CASE Raises(Device(subject'), refs > 0 /\ subject' \in DOMAIN bus)
    BY <2>1, <2>2, <2>4, <1>a
  <2> QED BY <2>1, <2>3, <2>4
<1>4. CASE Ask
  <2>1. stage = "questions" /\ UNCHANGED <<op, bus, steady>>
    BY <1>4, AskFacts DEF operationVars
  <2>2. PICK q \in QuestionsAbout(subject) :
          \/ Works
          \/ Raises(<<subject, q[1]>>, Reachable)
          \/ why' = why \/ why' = Default({<<subject, q[1]>>}, "malformed_value")
    BY <1>4, AskFacts
  <2> DEFINE key == <<subject, q[1]>>
  <2>3. key[1] = subject
    OBVIOUS
  <2>6. CASE why' = why
    BY <2>1, <2>6 DEF Goal
  <2> HIDE DEF key
  <2>4. CASE Works
    BY <2>1, <2>4, <1>b
  <2>5. CASE Raises(key, Reachable)
    BY <2>1, <2>3, <2>5, <1>a
  <2>7. CASE why' = Default({key}, "malformed_value")
    <3>1. PICK reason : why' = Default({key}, reason)
      BY <2>7
    <3> QED BY <2>1, <2>3, <3>1, <1>c
  <2> QED BY <2>2, <2>4, <2>5, <2>6, <2>7 DEF key
<1>5. CASE EndRow
  <2>1. /\ stage = "questions" /\ UNCHANGED <<bus, steady, op>>
        /\ why' = Default(Unnamed, "sensor_unsupported")
    BY <1>5 DEF EndRow, KeepRow, machineVars, operationVars
  <2>2. \A key \in Unnamed : key[1] = subject
    BY DEF Unnamed
  <2>3. PICK reason : why' = Default(Unnamed, reason)
    BY <2>1
  <2> QED BY <2>1, <2>2, <2>3, <1>c
<1>6. CASE Close
  BY <1>6 DEF Close, Lower, operationVars, reasonVars, Goal
<1>7. CASE Shutdown
  <2>1. op' = op
    BY <1>7 DEF Shutdown, operationVars
  <2>2. CASE Works
    BY <2>1, <2>2, <1>b
  <2>3. CASE Raises(Gpu, TRUE)
    <3>1. PICK possible : Raises(Gpu, possible)
      BY <2>3, Zenon
    <3> QED BY <2>1, <3>1, <1>0, <1>a
  <2> QED BY <1>7, <2>2, <2>3 DEF Shutdown
<1>8. ~NvmlBegin /\ ~InitFails /\ ~Finish /\ ~NvmlEscape
  BY <1>0 DEF NvmlBegin, InitFails, Finish, NvmlEscape
<1> QED BY <1>1, <1>2, <1>3, <1>4, <1>5, <1>6, <1>7, <1>8 DEF NvmlNext

(***************************************************************************)
(* The devices that were there.                                            *)
(***************************************************************************)
LEMMA CountedStep ==
    ASSUME Placed, Placed', LostGood, Counted, NvmlNext
    PROVE  Counted'
<1> SUFFICES ASSUME Visiting' PROVE Counted'
  BY DEF Counted
<1>1. op' # "none"
  BY DEF Placed, Visiting
<1>2. CASE Counting
  <2>1. CASE Works /\ count' = Cardinality(DOMAIN bus)
    <3>1. \A place \in steady : place[1] \in DOMAIN bus
      BY DEF Placed, Places
    <3>2. \A i \in DOMAIN bus : i < Cardinality(DOMAIN bus)
      BY BusFacts DEF Placed
    <3> QED BY <2>1, <3>1, <3>2, WorksFacts DEF Counted
  <2>2. CASE Raises(Gpu, refs > 0)
    BY <2>2, RaisesFacts DEF Counted
  <2>3. CASE why' = Default({Gpu}, "malformed_value")
    BY <2>3 DEF Counted, Default, Put
  <2> QED BY <1>2, <2>1, <2>2, <2>3 DEF Counting
<1>3. CASE ~Counting
  <2>1. Visiting /\ op # "none" /\ count' = count
    <3>1. CASE Address
      BY <3>1, AddressFacts DEF Visiting, Operations
    <3>2. CASE Ask
      BY <3>2, AskFacts DEF Visiting
    <3>3. CASE EndRow
      BY <3>3 DEF EndRow, KeepRow, Visiting, Placed
    <3>4. CASE Close \/ Shutdown
      BY <3>4, <1>1 DEF Close, Lower, Shutdown, visitVars, operationVars, Visiting
    <3>5. ~AlreadyReady /\ ~RaiseFlag
      BY DEF AlreadyReady, RaiseFlag, Start, Started, Visiting
    <3>6. ~InitSucceeds /\ ~NvmlBegin /\ ~InitFails /\ ~Finish /\ ~NvmlEscape /\ ~EndSystem
      BY DEF InitSucceeds, NvmlBegin, InitFails, Finish, NvmlEscape, EndSystem, Visiting
    <3> QED BY <1>3, <3>1, <3>2, <3>3, <3>4, <3>5, <3>6 DEF NvmlNext
  <2> QED BY <1>1, <2>1, InsideStep DEF Counted
<1> QED BY <1>2, <1>3

LEMMA PassedStep ==
    ASSUME Placed, Placed', LostGood, Passed, NvmlNext
    PROVE  Passed'
<1> SUFFICES ASSUME op' # "none", stage' \in {"next", "questions"} PROVE Passed'
  BY DEF Passed, Placed
<1>0. subject \in Nat \cup {-1} /\ subject' \in Nat \cup {-1}
  BY DEF Placed, System
<1>a. ASSUME op # "none", rows' = rows, NEW i, Behind(i) PROVE Behind(i)'
  <2>1. DOMAIN why \subseteq DOMAIN why'
    BY <1>a, InsideStep
  <2> QED BY <1>a, <2>1 DEF Behind
<1>1. CASE Counting
  BY <1>1 DEF Counting, Passed
<1>2. CASE Address
  <2>1. /\ stage = "next" /\ op # "available" /\ op' = op /\ op # "none" /\ rows' = rows
        /\ subject' = subject + 1
    BY <1>2, AddressFacts DEF Operations, operationVars
  <2>2. \A i \in 0..subject : Behind(i)'
    BY <2>1, <1>a DEF Passed
  <2>3. CASE stage' = "questions"
    <3>1. 0..(subject' - 1) = 0..subject
      BY <2>1, <1>0
    <3> QED BY <2>2, <2>3, <3>1 DEF Passed
  <2>4. CASE stage' = "next"
    <3>1. Device(subject') \in DOMAIN why'
      BY <1>2, <2>4, AddressFacts, RaisesFacts
    <3>2. \A i \in 0..subject' : i \in 0..subject \/ i = subject'
      BY <2>1, <1>0
    <3>3. \A i : i = subject' => Behind(i)'
      BY <3>1 DEF Behind
    <3> QED BY <2>2, <2>4, <3>2, <3>3 DEF Passed
  <2> QED BY <2>3, <2>4
<1>3. CASE AlreadyReady \/ RaiseFlag
  <2>1. subject' = -1 /\ stage' # "next"
    BY <1>3 DEF AlreadyReady, RaiseFlag, Start, Started, System
  <2>2. 0..(subject' - 1) = {}
    BY <2>1
  <2> QED BY <2>1, <2>2 DEF Passed
<1>4. CASE Ask \/ Close \/ Shutdown
  <2>1. UNCHANGED <<stage, op, subject, rows>>
    BY <1>4, AskFacts DEF Close, Lower, Shutdown, operationVars, visitVars
  <2> QED BY <2>1, <1>a DEF Passed
<1>5. CASE EndRow
  <2>1. /\ stage = "questions" /\ subject' = subject /\ subject # System /\ stage' = "next"
        /\ op # "none" /\ DOMAIN rows' = DOMAIN rows \cup {subject}
    BY <1>5 DEF EndRow, KeepRow, visitVars, Placed
  <2>2. DOMAIN why \subseteq DOMAIN why'
    BY <2>1, InsideStep
  <2>3. \A i \in 0..subject' : i \in 0..(subject - 1) \/ i = subject
    BY <2>1, <1>0
  <2> QED BY <2>1, <2>2, <2>3 DEF Passed, Behind
<1>6. ~InitSucceeds /\ ~NvmlBegin /\ ~InitFails /\ ~Finish /\ ~NvmlEscape /\ ~EndSystem
  BY DEF InitSucceeds, NvmlBegin, InitFails, Finish, NvmlEscape, EndSystem
<1> QED BY <1>1, <1>2, <1>3, <1>4, <1>5, <1>6 DEF NvmlNext

(***************************************************************************)
(* The row in the making.                                                  *)
(***************************************************************************)
LEMMA LostKept ==
    ASSUME Placed, Placed', LostGood, NvmlNext, UNCHANGED <<lost, stage, subject, handle>>,
           \A k \in DOMAIN why' \ DOMAIN why : k[2] \in NoFields
    PROVE  LostGood'
<1>1. CASE op' = "none"
  BY <1>1 DEF Placed, LostGood
<1>2. CASE op' # "none"
  <2>1. op # "none"
    BY <1>2 DEF Placed
  <2>2. op' = op /\ steady' = steady /\ DOMAIN why \subseteq DOMAIN why'
    BY <1>2, <2>1, InsideStep
  <2>3. lost' = lost /\ stage' = stage /\ subject' = subject /\ handle' = handle
    OBVIOUS
  <2>4. ASSUME stage = "questions", subject # System, NEW f \in Fields(op),
               <<subject, f>> \in DOMAIN why'
        PROVE  f \in lost
    <3>1. CASE <<subject, f>> \in DOMAIN why
      BY <2>4, <3>1 DEF LostGood
    <3>2. CASE <<subject, f>> \notin DOMAIN why
      <4>1. <<subject, f>>[2] \in NoFields
        BY <2>4, <3>2
      <4> QED BY <2>4, <4>1, FieldNames
    <3> QED BY <3>1, <3>2
  <2> QED BY <2>2, <2>3, <2>4 DEF LostGood
<1> QED BY <1>1, <1>2

LEMMA LostStep ==
    ASSUME Placed, Placed', Told, LostGood, NvmlNext
    PROVE  LostGood'
<1> DEFINE running == {"count", "next", "questions"}
<1>0. Text \cup {"memory_temperature_c", "cuda_version"} \subseteq AllFields
  <2>1. /\ "memory_temperature_c" \in Fields("sample")
        /\ {"name", "uuid", "driver_version", "cuda_version"} \subseteq Fields("static_info")
    BY DEF Fields
  <2> QED BY <2>1 DEF AllFields, Operations, Text
<1>1. CASE AlreadyReady \/ RaiseFlag
  <2>1. lost' = {} /\ subject' = System
    BY <1>1 DEF AlreadyReady, RaiseFlag, Start
  <2> QED BY <2>1 DEF LostGood
<1>2. CASE NvmlBegin \/ InitSucceeds \/ InitFails \/ Finish \/ NvmlEscape
  <2>1. lost' = lost /\ stage' \notin {"count", "next", "questions"}
    BY <1>2 DEF NvmlBegin, InitSucceeds, InitFails, Finish, NvmlEscape, visitVars
  <2> QED BY <2>1 DEF LostGood
<1>3. CASE Counting \/ EndSystem \/ EndRow
  <2>1. /\ lost' = lost /\ stage \in {"count", "next", "questions"}
        /\ stage' \in {"count", "next"}
    BY <1>3 DEF Counting, EndSystem, EndRow, KeepRow, visitVars
  <2>2. DOMAIN why \subseteq DOMAIN why'
    BY <2>1, InsideStep DEF Placed
  <2> QED BY <2>1, <2>2 DEF LostGood
<1>4. CASE Address
  <2>1. /\ stage = "next" /\ op # "none" /\ op' = op /\ subject' = subject + 1 /\ subject' \in Nat
    BY <1>4, AddressFacts DEF operationVars, Operations
  <2>2. op' # "none" /\ steady' = steady /\ DOMAIN why \subseteq DOMAIN why'
    BY <2>1, InsideStep
  <2>3. CASE stage' = "next"
    <3>1. lost' = lost
      BY <1>4, <2>3, AddressFacts
    <3> QED BY <2>1, <2>2, <2>3, <3>1 DEF LostGood
  <2>4. CASE stage' = "questions"
    <3>1. /\ why' = why /\ handle' = bus[subject']
          /\ lost' = IF op = "sample" THEN {"memory_temperature_c"}
                     ELSE lost \cap {"driver_version", "cuda_version"}
      BY <1>4, <2>4, AddressFacts, WorksFacts
    <3>2. \A place \in steady : place[1] = subject' => bus[subject'] = place[2]
      BY DEF Placed, Places
    <3>3. \A k \in DOMAIN why : k[1] # subject'
      <4>1. \A k \in DOMAIN why : k[1] <= subject
        BY <2>1 DEF Told, Reached
      <4>2. subject \in Int /\ \A k \in DOMAIN why : k[1] \in Int
        BY DEF Told, Keys, Placed, System
      <4> QED BY <4>1, <4>2, <2>1
    <3>4. lost' \subseteq AllFields
      BY <1>0, <3>1 DEF LostGood
    <3>5. "cuda_version" \in lost' => "cuda_version" \in lost
      BY <3>1
    <3> QED BY <2>1, <2>2, <2>4, <3>1, <3>2, <3>3, <3>4, <3>5 DEF LostGood
  <2> QED BY <1>4, <2>3, <2>4, AddressFacts
<1>5. CASE Ask
  <2>1. /\ stage = "questions" /\ UNCHANGED <<op, stage, subject, handle, steady>> /\ op # "none"
    BY <1>5, AskFacts DEF operationVars
  <2>2. DOMAIN why \subseteq DOMAIN why'
    BY <2>1, InsideStep
  <2>3. PICK q \in QuestionsAbout(subject) :
          \/ Works /\ UNCHANGED lost
          \/ Raises(<<subject, q[1]>>, Reachable) /\ lost' = lost \cup Range(q)
          \/ /\ \E bad \in (SUBSET Range(q)) \ {{}} : lost' = lost \cup bad
             /\ why' = IF q[1] \in {"cuda_version", "compute_capability"}
                       THEN Default({<<subject, q[1]>>}, "malformed_value") ELSE why
    BY <1>5, AskFacts
  <2>4. /\ Range(q) \subseteq AllFields /\ q[1] \in Range(q)
        /\ q[1] \in {"cuda_version", "compute_capability"} => Range(q) = {q[1]}
        /\ "cuda_version" \in Range(q) => q[1] = "cuda_version" /\ subject = System
    BY QuestionFacts
  <2>5. CASE Works /\ UNCHANGED lost
    <3>1. why' = why
      BY <2>5, WorksFacts
    <3> QED BY <2>1, <2>5, <3>1, LostKept
  <2>6. CASE Raises(<<subject, q[1]>>, Reachable) /\ lost' = lost \cup Range(q)
    <3>1. DOMAIN why' = {<<subject, q[1]>>} \cup DOMAIN why
      BY <2>6, RaisesFacts
    <3> QED BY <2>1, <2>4, <2>6, <3>1 DEF LostGood
  <2>7. CASE /\ \E bad \in (SUBSET Range(q)) \ {{}} : lost' = lost \cup bad
             /\ why' = IF q[1] \in {"cuda_version", "compute_capability"}
                       THEN Default({<<subject, q[1]>>}, "malformed_value") ELSE why
    <3>1. PICK bad \in (SUBSET Range(q)) \ {{}} : lost' = lost \cup bad
      BY <2>7
    <3>2. CASE q[1] \in {"cuda_version", "compute_capability"}
      <4>1. DOMAIN why' = {<<subject, q[1]>>} \cup DOMAIN why
        BY <2>7, <3>2 DEF Default, Put
      <4>2. lost' = lost \cup {q[1]}
        <5>1. Range(q) = {q[1]}
          BY <2>4, <3>2
        <5>2. bad = {q[1]}
          <6>1. bad \subseteq {q[1]} /\ bad # {}
            BY <3>1, <5>1
          <6> QED BY <6>1
        <5> QED BY <3>1, <5>2
      <4> QED BY <2>1, <2>4, <3>2, <4>1, <4>2 DEF LostGood
    <3>3. CASE q[1] \notin {"cuda_version", "compute_capability"}
      <4>1. why' = why /\ "cuda_version" \notin Range(q)
        BY <2>4, <2>7, <3>3
      <4> QED BY <2>1, <2>4, <3>1, <4>1 DEF LostGood
    <3> QED BY <3>2, <3>3
  <2> QED BY <2>3, <2>5, <2>6, <2>7
<1>6. CASE Close \/ Shutdown
  <2>1. UNCHANGED <<lost, stage, subject, handle>>
    BY <1>6 DEF Close, Lower, Shutdown, visitVars
  <2>2. \A k \in DOMAIN why' : k \in DOMAIN why \/ k = Gpu
    <3>1. CASE Close
      BY <3>1 DEF Close, Lower, reasonVars
    <3>2. CASE Shutdown /\ Works
      BY <3>2, WorksFacts
    <3>3. CASE Shutdown /\ Raises(Gpu, TRUE)
      <4>1. PICK possible : Raises(Gpu, possible)
        BY <3>3, Zenon
      <4> QED BY <4>1, RaisesFacts
    <3> QED BY <1>6, <3>1, <3>2, <3>3 DEF Shutdown
  <2>3. Gpu[2] \in NoFields
    BY DEF Gpu, NoFields
  <2> QED BY <2>1, <2>2, <2>3, LostKept
<1> QED BY <1>1, <1>2, <1>3, <1>4, <1>5, <1>6 DEF NvmlNext

(***************************************************************************)
(* The rows.                                                               *)
(***************************************************************************)
LEMMA RowsKept ==
    ASSUME Placed, Placed', LostGood, RowsGood, NvmlNext, UNCHANGED rows,
           op # "none" /\ op' # "none" =>
              \A i \in DOMAIN rows : i <= Reached' /\ (stage' = "questions" => i < subject')
    PROVE  RowsGood'
<1>1. CASE op' = "none"
  BY <1>1 DEF RowsGood
<1>2. CASE op' # "none" /\ op # "none"
  <2>1. /\ op' = op /\ steady' = steady /\ DOMAIN why \subseteq DOMAIN why'
        /\ \A k \in DOMAIN why' \ DOMAIN why :
              k[2] \in NoFields \/ (stage = "questions" /\ k[1] = subject)
    BY <1>2, InsideStep
  <2>2. ASSUME NEW i \in DOMAIN rows PROVE RowGood(i)'
    <3>1. i \in Nat /\ (stage = "questions" => i < subject) /\ RowGood(i)
      BY <1>2 DEF RowsGood
    <3>2. ASSUME NEW f \in Fields(op), <<i, f>> \in DOMAIN why' PROVE f \in rows[i].lost
      <4>1. CASE <<i, f>> \in DOMAIN why
        BY <3>1, <4>1 DEF RowGood
      <4>2. CASE <<i, f>> \notin DOMAIN why
        <5>1. <<i, f>>[2] \in NoFields \/ (stage = "questions" /\ <<i, f>>[1] = subject)
          BY <2>1, <3>2, <4>2
        <5>2. f \notin NoFields
          BY FieldNames
        <5>3. stage = "questions" => i # subject
          BY <3>1 DEF Placed, System
        <5> QED BY <5>1, <5>2, <5>3
      <4> QED BY <4>1, <4>2
    <3> QED BY <2>1, <3>1, <3>2 DEF RowGood
  <2> QED BY <1>2, <2>2 DEF RowsGood
<1>3. CASE op' # "none" /\ op = "none"
  <2>1. NvmlBegin
    <3>1. stage = "rest" /\ stage' # "rest"
      BY <1>3 DEF Placed
    <3> QED BY <3>1 DEF NvmlNext, AlreadyReady, InitFails, InitSucceeds, RaiseFlag, Counting, Address,
                     Visit, Ask, EndSystem, EndRow, KeepRow, Finish, NvmlEscape, Close, Lower, Shutdown
  <2>2. DOMAIN rows' = {}
    BY <2>1, EmptyFacts DEF NvmlBegin
  <2> QED BY <2>2 DEF RowsGood
<1> QED BY <1>1, <1>2, <1>3

LEMMA RowsStep ==
    ASSUME Placed, Placed', Told, LostGood, RowsGood, NvmlNext
    PROVE  RowsGood'
<1>0. subject \in Nat \cup {-1} /\ subject' \in Nat \cup {-1} /\ System = -1
  BY DEF Placed, System
<1>1. CASE NvmlBegin
  <2>1. DOMAIN rows' = {} /\ rows' = NoRows
    BY <1>1, EmptyFacts DEF NvmlBegin
  <2> QED BY <2>1 DEF RowsGood
<1>2. CASE AlreadyReady \/ RaiseFlag \/ InitSucceeds \/ Counting \/ EndSystem
  <2>1. op # "none" => \A i \in DOMAIN rows : FALSE
    <3>1. Reached = -1
      BY <1>0, <1>2 DEF AlreadyReady, RaiseFlag, InitSucceeds, Counting, EndSystem, Placed, Reached
    <3>2. op # "none" => \A i \in DOMAIN rows : i \in Nat /\ i <= Reached
      BY DEF RowsGood
    <3> QED BY <3>1, <3>2
  <2>2. rows' = rows
    BY <1>2 DEF AlreadyReady, RaiseFlag, InitSucceeds, Counting, EndSystem
  <2> QED BY <2>1, <2>2, RowsKept
<1>3. CASE InitFails \/ Finish \/ NvmlEscape
  BY <1>3 DEF InitFails, Finish, NvmlEscape, Return, Escape, RowsGood
<1>4. CASE Address
  <2>1. stage = "next" /\ rows' = rows /\ subject' = subject + 1 /\ subject' \in Nat
    BY <1>4, AddressFacts
  <2>2. stage' \notin {"ready", "flag"}
    BY <1>4, AddressFacts
  <2>3. op # "none" => \A i \in DOMAIN rows : i \in Nat /\ i <= subject
    BY <2>1 DEF RowsGood, Reached
  <2>4. op # "none" => \A i \in DOMAIN rows : i <= subject' /\ i < subject'
    BY <2>1, <2>3, <1>0
  <2> QED BY <2>1, <2>2, <2>4, RowsKept DEF Reached
<1>5. CASE Ask \/ Close \/ Shutdown
  <2>1. UNCHANGED <<stage, op, subject, rows>>
    BY <1>5, AskFacts DEF Close, Lower, Shutdown, operationVars, visitVars
  <2>2. Reached' = Reached
    BY <2>1 DEF Reached
  <2> QED BY <2>1, <2>2, RowsKept DEF RowsGood
<1>6. CASE EndRow
  <2> DEFINE new == [device |-> handle, beside |-> Nobody, lost |-> lost \cap Fields(op)]
  <2>1. /\ stage = "questions" /\ stage' = "next" /\ subject \in Nat /\ subject # System
        /\ op # "none" /\ op' = op /\ subject' = subject /\ steady' = steady
        /\ why' = Default(Unnamed, "sensor_unsupported")
    BY <1>6, <1>0 DEF EndRow, KeepRow, Placed, operationVars, visitVars, machineVars
  <2>2. /\ DOMAIN rows' = DOMAIN rows \cup {subject}
        /\ rows'[subject] = new
        /\ \A i \in DOMAIN rows \ {subject} : rows'[i] = rows[i]
    BY <1>6 DEF EndRow, KeepRow
  <2>3. DOMAIN why' = Unnamed \cup DOMAIN why
    BY <2>1 DEF Default, Put
  <2>4. \A i \in DOMAIN rows : i \in Nat /\ i < subject /\ RowGood(i)
    BY <2>1 DEF RowsGood
  <2>5. Reached' = subject
    BY <2>1 DEF Reached
  <2>6. /\ new.device = handle /\ new.beside = Nobody /\ new.lost = lost \cap Fields(op)
    OBVIOUS
  <2> HIDE DEF new
  <2>7. ASSUME NEW i \in DOMAIN rows PROVE i <= subject /\ RowGood(i)'
    <3>1. i \in Nat /\ i < subject /\ rows'[i] = rows[i] /\ i # subject
      BY <2>2, <2>4
    <3>2. \A f : <<i, f>> \in DOMAIN why' => <<i, f>> \in DOMAIN why
      BY <2>3, <3>1 DEF Unnamed
    <3> QED BY <2>1, <2>3, <2>4, <3>1, <3>2 DEF RowGood
  <2>8. RowGood(subject)'
    <3>1. ASSUME NEW f \in (lost \cap Fields(op)) \ Text
          PROVE  <<subject, f>> \in DOMAIN why' \/ <<System, f>> \in DOMAIN why'
      <4>1. CASE f = "cuda_version"
        BY <2>1, <2>3, <3>1, <4>1 DEF LostGood
      <4>2. CASE f # "cuda_version"
        BY <2>3, <3>1, <4>2 DEF Unnamed
      <4> QED BY <4>1, <4>2
    <3>2. ASSUME NEW f \in Fields(op), <<subject, f>> \in DOMAIN why'
          PROVE  f \in lost \cap Fields(op)
      <4>1. CASE <<subject, f>> \in DOMAIN why
        BY <2>1, <3>2, <4>1 DEF LostGood
      <4>2. CASE <<subject, f>> \in Unnamed
        BY <3>2, <4>2 DEF Unnamed
      <4> QED BY <2>3, <3>2, <4>1, <4>2
    <3>3. \A place \in steady : place[1] = subject => handle = place[2]
      BY <2>1 DEF LostGood
    <3>4. /\ \A f \in rows'[subject].lost \ Text :
                <<subject, f>> \in DOMAIN why' \/ <<System, f>> \in DOMAIN why'
          /\ \A f \in Fields(op') : <<subject, f>> \in DOMAIN why' => f \in rows'[subject].lost
          /\ \A place \in steady' : place[1] = subject => rows'[subject].device = place[2]
          /\ rows'[subject].beside = Nobody
      BY <2>1, <2>2, <2>6, <3>1, <3>2, <3>3
    <3> QED BY <2>1, <3>4 DEF RowGood
  <2> QED BY <2>1, <2>2, <2>5, <2>7, <2>8 DEF RowsGood
<1> QED BY <1>1, <1>2, <1>3, <1>4, <1>5, <1>6 DEF NvmlNext

(***************************************************************************)
(* The promise.                                                            *)
(***************************************************************************)
\* It is stated in the same vocabulary.
LEMMA SameWords ==
    /\ Promise!Gpu = Gpu /\ Promise!System = System /\ Promise!Nobody = Nobody
    /\ Promise!Text = Text /\ Promise!RowScopes = RowScopes /\ Promise!Nothing = Nothing
    /\ Promise!Operations = Operations /\ Promise!Buses = Buses
    /\ \A o : Promise!Fields(o) = Fields(o)
    /\ \A i : Promise!Device(i) = Device(i)
    /\ \A b : Promise!Places(b) = Places(b)
<1>1. /\ Promise!Gpu = Gpu /\ Promise!System = System /\ Promise!Nobody = Nobody
      /\ Promise!Text = Text /\ Promise!RowScopes = RowScopes /\ Promise!Nothing = Nothing
      /\ Promise!Operations = Operations
  BY DEF Promise!Gpu, Promise!System, Promise!Nobody, Promise!Text, Promise!RowScopes,
         Promise!Nothing, Promise!Operations, Gpu, System, Nobody, Text, RowScopes, Nothing,
         Operations
<1>2. Promise!Buses = Buses
  <2>1. ASSUME NEW S, NEW T PROVE Promise!Injection(S, T) = Injection(S, T)
    BY DEF Promise!Injection, Injection, Promise!IsInjective, IsInjective
  <2>2. Promise!Cardinality(Devices) = Cardinality(Devices)
    BY DEF Promise!Cardinality, Cardinality
  <2>3. Promise!Buses = UNION {Injection(0..(n - 1), Devices) : n \in 0..Cardinality(Devices)}
    BY <2>1, <2>2 DEF Promise!Buses
  <2> QED BY <2>3 DEF Buses
<1>3. ASSUME NEW o PROVE Promise!Fields(o) = Fields(o)
  BY DEF Promise!Fields, Fields
<1>4. ASSUME NEW i PROVE Promise!Device(i) = Device(i)
  BY DEF Promise!Device, Device
<1>5. ASSUME NEW b PROVE Promise!Places(b) = Places(b)
  BY DEF Promise!Places, Places
<1> QED BY <1>1, <1>2, <1>3, <1>4, <1>5

\* An answer that gives a reason for the whole machine and has no rows.
LEMMA ExcuseIsHonest ==
    ASSUME NEW a, Gpu \in DOMAIN a.why, a.why[Gpu] # "no_nvidia_gpus", DOMAIN a.rows = {},
           \A k \in a.failed : k \in DOMAIN a.why /\ a.why[k] = "call_failed"
    PROVE  Promise!Honest(a)
<1>1. Promise!Excuses(a)
  BY SameWords DEF Promise!Excuses
<1>2. Promise!NobodyForgotten(a)
  BY <1>1 DEF Promise!NobodyForgotten
<1>3. Promise!NoneMeansNone(a) /\ Promise!EmptyIsExplained(a) /\ Promise!CausesSurvive(a)
  BY SameWords DEF Promise!NoneMeansNone, Promise!EmptyIsExplained, Promise!CausesSurvive
<1>4. Promise!GapsAreExplained(a) /\ Promise!RowsAreOfOne(a)
  BY DEF Promise!GapsAreExplained, Promise!RowsAreOfOne
<1> QED BY <1>2, <1>3, <1>4 DEF Promise!Honest

LEMMA InitFailsIsHonest ==
    ASSUME Placed, Told, InitFails
    PROVE  Promise!Answered
<1>1. /\ stage = "ready" /\ Raises(Gpu, TRUE) /\ Return(NoRows, FALSE)
  BY DEF InitFails
<1>2. op # "none"
  BY <1>1 DEF Placed
<1>3. PICK possible : Raises(Gpu, possible)
  BY <1>1, Zenon
<1>4. UNCHANGED <<bus, steady, ops, moves>> /\ op' = "none"
  BY <1>1, <1>3, RaisesFacts DEF Return
<1>5. /\ answer'.op = op /\ answer'.steady = steady /\ answer'.rows = NoRows
      /\ answer'.why = why' /\ answer'.failed = failed'
  BY <1>1 DEF Return
<1>6. /\ Gpu \in DOMAIN why' /\ why'[Gpu] # "no_nvidia_gpus"
      /\ \A k \in failed' : k \in DOMAIN why' /\ why'[k] = "call_failed"
  BY <1>2, <1>3, RaisesFacts DEF Told
<1>7. Promise!Honest(answer')
  BY <1>5, <1>6, EmptyFacts, ExcuseIsHonest
<1> QED BY <1>2, <1>4, <1>5, <1>7 DEF Promise!Answered

LEMMA FinishIsHonest ==
    ASSUME Placed, Told, Counted, Passed, RowsGood, Finish
    PROVE  Promise!Answered
<1> DEFINE found == IF op = "available" THEN count > 0 ELSE rows # NoRows
<1>1. /\ stage = "next" /\ op # "none" /\ op \in Operations
      /\ op = "available" \/ subject + 1 >= count
  BY DEF Finish, Placed
<1>2. /\ why' = (IF found THEN why ELSE Default({Gpu}, "no_nvidia_gpus"))
      /\ failed' = failed /\ UNCHANGED <<bus, steady, moves>>
      /\ Return(rows, found)
  BY DEF Finish, machineVars
<1>3. UNCHANGED ops /\ op' = "none"
  BY <1>2 DEF Return
<1>4. /\ answer'.op = op /\ answer'.steady = steady /\ answer'.rows = rows
      /\ answer'.why = why' /\ answer'.failed = failed'
  BY <1>2 DEF Return
<1>5. answer'.found <=> found
  BY <1>2 DEF Return
<1>6. /\ DOMAIN why \subseteq DOMAIN why' /\ \A k \in DOMAIN why : why'[k] = why[k]
      /\ \A k \in DOMAIN why' : k \in DOMAIN why \/ k = Gpu
      /\ ~found => Gpu \in DOMAIN why'
  BY <1>2 DEF Default, Put
<1>7. subject \in Nat \cup {-1} /\ count \in Nat
  BY DEF Placed, System
<1>8. \A place \in steady : place[1] \in Nat /\ place[2] = bus[place[1]]
  <2>1. \A i \in DOMAIN bus : i \in Nat
    BY BusFacts DEF Placed
  <2> QED BY <2>1 DEF Placed, Places
<1>9. Gpu \in DOMAIN why \/ \A place \in steady : place[1] < count
  BY <1>1 DEF Counted, Visiting
\* An index that was counted and has no row has a reason.
<1>10. op # "available" /\ Gpu \notin DOMAIN why =>
          \A place \in steady : place[1] \in DOMAIN rows \/ Device(place[1]) \in DOMAIN why
  <2> SUFFICES ASSUME op # "available", Gpu \notin DOMAIN why, NEW place \in steady
               PROVE  Behind(place[1])
    BY DEF Behind
  <2>1. place[1] \in 0..subject
    BY <1>1, <1>7, <1>8, <1>9
  <2> QED BY <1>1, <2>1 DEF Passed
<1> HIDE DEF found
<1>11. Promise!NobodyForgotten(answer')
  <2>1. CASE Gpu \in DOMAIN why
    <3>1. Gpu \in DOMAIN why' /\ why'[Gpu] # "no_nvidia_gpus"
      BY <1>1, <1>6, <2>1 DEF Told
    <3> QED BY <3>1, <1>4, SameWords DEF Promise!NobodyForgotten, Promise!Excuses
  <2>2. CASE Gpu \notin DOMAIN why /\ op = "available"
    <3>1. \A place \in steady : found
      BY <1>7, <1>8, <1>9, <2>2 DEF found
    <3> QED BY <3>1, <1>4, <1>5, <2>2 DEF Promise!NobodyForgotten
  <2>3. CASE Gpu \notin DOMAIN why /\ op # "available"
    BY <1>4, <1>6, <1>10, <2>3, SameWords DEF Promise!NobodyForgotten
  <2> QED BY <2>1, <2>2, <2>3
<1>12. Promise!NoneMeansNone(answer')
  <2> SUFFICES ASSUME Gpu \in DOMAIN why', why'[Gpu] = "no_nvidia_gpus", NEW place \in steady
               PROVE  Device(place[1]) \in DOMAIN why'
    BY <1>4, SameWords DEF Promise!NoneMeansNone
  <2>1. Gpu \notin DOMAIN why
    BY <1>1, <1>6 DEF Told
  <2>2. ~found
    BY <1>2, <2>1
  <2>3. op # "available"
    BY <1>7, <1>8, <1>9, <2>1, <2>2 DEF found
  <2>4. DOMAIN rows = {}
    BY <2>2, <2>3, EmptyFacts DEF found
  <2> QED BY <1>6, <1>10, <2>1, <2>3, <2>4
<1>13. Promise!EmptyIsExplained(answer')
  BY <1>4, <1>5, <1>6, SameWords DEF Promise!EmptyIsExplained
<1>14. Promise!GapsAreExplained(answer')
  <2> SUFFICES ASSUME NEW i \in DOMAIN rows
               PROVE  /\ \A f \in rows[i].lost \ Text :
                            <<i, f>> \in DOMAIN why' \/ <<System, f>> \in DOMAIN why'
                      /\ \A f \in Fields(op) : <<i, f>> \in DOMAIN why' => f \in rows[i].lost
    BY <1>4, SameWords DEF Promise!GapsAreExplained
  <2>1. i \in Nat /\ RowGood(i)
    BY <1>1 DEF RowsGood
  <2>2. \A f : <<i, f>> # Gpu
    BY <2>1 DEF Gpu, System
  <2> QED BY <1>6, <2>1, <2>2 DEF RowGood
<1>15. Promise!CausesSurvive(answer')
  BY <1>1, <1>2, <1>4, <1>6 DEF Promise!CausesSurvive, Told
<1>16. Promise!RowsAreOfOne(answer')
  <2> SUFFICES ASSUME NEW place \in steady, place[1] \in DOMAIN rows
               PROVE  rows[place[1]].device = place[2] /\ rows[place[1]].beside = Nobody
    BY <1>4, SameWords DEF Promise!RowsAreOfOne
  <2> QED BY <1>1 DEF RowsGood, RowGood
<1>17. Promise!Honest(answer')
  BY <1>11, <1>12, <1>13, <1>14, <1>15, <1>16 DEF Promise!Honest
<1> QED BY <1>1, <1>2, <1>3, <1>4, <1>17 DEF Promise!Answered

promiseVars == <<bus, op, steady, answer, ops, moves>>

LEMMA NvmlKeepsPromise ==
    ASSUME Placed, Told, Counted, Passed, RowsGood, NvmlNext
    PROVE  Promise!BackendNext \/ UNCHANGED promiseVars
<1>1. CASE NvmlBegin
  <2>1. op = "none" /\ ops < MaxOps /\ op' \in Operations /\ steady' = Places(bus)
    BY <1>1 DEF NvmlBegin, Begin, BeginWith
  <2>2. answer' = Nothing /\ ops' = ops + 1 /\ UNCHANGED <<bus, moves>>
    BY <1>1 DEF NvmlBegin, Begin, BeginWith
  <2> QED BY <2>1, <2>2, SameWords DEF Promise!BackendNext, Promise!Asked
<1>2. CASE AlreadyReady \/ RaiseFlag \/ InitSucceeds \/ EndSystem
  BY <1>2, WorksFacts DEF AlreadyReady, RaiseFlag, InitSucceeds, EndSystem, operationVars, promiseVars
<1>3. CASE InitFails
  BY <1>3, InitFailsIsHonest DEF Promise!BackendNext
<1>4. CASE Counting
  <2>1. UNCHANGED <<bus, steady, moves>>
    BY <1>4, RaisesFacts, WorksFacts DEF Counting, Fault
  <2> QED BY <1>4, <2>1 DEF Counting, operationVars, promiseVars
<1>5. CASE Address
  BY <1>5, AddressFacts DEF operationVars, promiseVars
<1>6. CASE Ask
  BY <1>6, AskFacts DEF operationVars, promiseVars
<1>7. CASE EndRow
  BY <1>7 DEF EndRow, KeepRow, machineVars, operationVars, promiseVars
<1>8. CASE Finish
  BY <1>8, FinishIsHonest DEF Promise!BackendNext
<1>9. CASE NvmlEscape
  <2>1. UNCHANGED <<bus, steady, moves, answer, ops>> /\ op # "none" /\ op' = "none"
    BY <1>9 DEF NvmlEscape, Escape, Fault
  <2> QED BY <2>1 DEF Promise!BackendNext, Promise!GaveUp
<1>10. CASE Close
  BY <1>10 DEF Close, Lower, operationVars, promiseVars
<1>11. CASE Shutdown
  <2>1. UNCHANGED <<bus, steady, moves>>
    <3>1. CASE Works
      BY <3>1, WorksFacts
    <3>2. CASE Raises(Gpu, TRUE)
      BY <3>2 DEF Raises, Fault
    <3> QED BY <1>11, <3>1, <3>2 DEF Shutdown
  <2> QED BY <1>11, <2>1 DEF Shutdown, operationVars, promiseVars
<1> QED BY <1>1, <1>2, <1>3, <1>4, <1>5, <1>6, <1>7, <1>8, <1>9, <1>10, <1>11 DEF NvmlNext

(***************************************************************************)
(* The references.                                                         *)
(***************************************************************************)
\* What the balance needs to know of the types.
LibraryTyped ==
    /\ refs \in Int /\ kept \in Nat
    /\ initialized \in BOOLEAN /\ closing \in BOOLEAN

\* The flag is raised only where it was down, and lowered only where no other
\* close() is in progress.
FlagDown == stage = "flag" => ~initialized

Balance == LibraryTyped /\ FlagDown /\ ReferencesBalanced

LEMMA BalanceInit == ReadersInit => Balance
<1> SUFFICES ASSUME NvmlInit PROVE Balance
    BY Zenon DEF ReadersInit
<1>1. refs = 0 /\ kept = 0 /\ stage = "rest"
      BY DEF NvmlInit
<1>2. initialized \in BOOLEAN /\ closing \in BOOLEAN /\ ~initialized /\ ~closing
      BY Zenon DEF NvmlInit
<1> QED BY <1>1, <1>2 DEF Balance, LibraryTyped, FlagDown, ReferencesBalanced

\* A step that leaves the library alone and is not at the flag.
LEMMA BalanceKept ==
    ASSUME Balance, UNCHANGED libraryVars, stage # "flag", stage' # "flag"
    PROVE  Balance'
BY DEF Balance, LibraryTyped, FlagDown, ReferencesBalanced, libraryVars

LEMMA BalanceStep ==
    ASSUME Balance, NvmlNext
    PROVE  Balance'
<1> USE DEF Balance, LibraryTyped, FlagDown, ReferencesBalanced
<1>1. CASE NvmlBegin
      BY <1>1, BalanceKept DEF NvmlBegin
<1>2. CASE AlreadyReady
      BY <1>2, BalanceKept DEF AlreadyReady, Start, Started
<1>3. CASE InitFails
      BY <1>3, BalanceKept DEF InitFails
<1>4. CASE InitSucceeds
      BY <1>4 DEF InitSucceeds
<1>5. CASE RaiseFlag
      BY <1>5 DEF RaiseFlag, Start, Started
<1>6. CASE Counting
      BY <1>6, BalanceKept DEF Counting
<1>7. CASE Address
      BY <1>7, BalanceKept DEF Address, Visit
<1>8. CASE Ask
      BY <1>8, BalanceKept DEF Ask
<1>9. CASE EndSystem
      BY <1>9, BalanceKept DEF EndSystem
<1>10. CASE EndRow
      BY <1>10, BalanceKept DEF EndRow, KeepRow
<1>11. CASE Finish
      BY <1>11, BalanceKept DEF Finish
<1>12. CASE NvmlEscape
      BY <1>12 DEF NvmlEscape
<1>13. CASE Close
  <2>1. initialized /\ ~closing
        BY <1>13, Zenon DEF Close, Lower
  <2>2. initialized' \in BOOLEAN /\ closing' \in BOOLEAN /\ ~initialized' /\ closing'
        BY <1>13, Zenon DEF Close, Lower
  <2>3. UNCHANGED <<refs, kept, stage>>
        BY <1>13 DEF Close, Lower
  <2> QED BY <2>1, <2>2, <2>3
<1>14. CASE Shutdown
  <2>1. closing /\ UNCHANGED <<initialized, stage>>
        BY <1>14 DEF Shutdown
  <2>2. closing' \in BOOLEAN /\ ~closing'
        BY <1>14, Zenon DEF Shutdown
  <2>3. \/ refs' = refs - 1 /\ kept' = kept
        \/ refs' = refs /\ kept' = kept + 1
        BY <1>14 DEF Shutdown
  <2> QED BY <2>1, <2>2, <2>3
<1> QED BY <1>1, <1>2, <1>3, <1>4, <1>5, <1>6, <1>7, <1>8, <1>9, <1>10, <1>11,
           <1>12, <1>13, <1>14 DEF NvmlNext

(***************************************************************************)
(* Calm operations of the NVML reader.                                     *)
(***************************************************************************)
Blank == "memory_temperature_c"

\* Nothing failed, moved or was closed since the operation began: every device
\* that was counted is where it was, and all that is behind has its row.
NvmlCalm ==
    calm /\ op # "none" =>
        /\ steady = Places(bus)
        /\ stage \in {"count", "next", "questions"} => initialized /\ lost \subseteq {Blank}
        /\ Visiting => count = Cardinality(DOMAIN bus)
        /\ stage = "questions" /\ subject # System =>
              subject \in DOMAIN bus /\ handle = bus[subject]
        /\ DOMAIN rows = 0..(IF stage = "questions" THEN subject - 1 ELSE Reached)
        /\ \A i \in DOMAIN rows : rows[i].lost \subseteq {Blank}
        /\ DOMAIN why \subseteq {<<i, Blank>> : i \in DOMAIN rows}

\* A failure ends the calm, and nothing restores it before the next operation.
LEMMA FaultEndsCalm ==
    ASSUME NEW n, Fault(n), calm'
    PROVE  calm /\ n = 0
BY Zenon DEF Fault

LEMMA RaisesEndsCalm ==
    ASSUME NEW key, NEW possible, possible, Raises(key, possible), calm'
    PROVE  FALSE
<1>1. Fault(1)
  BY DEF Raises
<1> QED BY <1>1, FaultEndsCalm

LEMMA NvmlCalmStep ==
    ASSUME Placed, Balance, NvmlCalm, RowsGood, NvmlNext
    PROVE  NvmlCalm'
<1> SUFFICES ASSUME calm', op' # "none"
             PROVE  NvmlCalm'
  BY Zenon DEF NvmlCalm
<1>0. /\ subject \in Nat \cup {-1} /\ count \in Nat /\ bus \in Buses
      /\ stage = "rest" <=> op = "none"
  BY DEF Placed, System
<1>01. initialized => refs > 0
  BY DEF Balance, LibraryTyped, ReferencesBalanced
<1>02. ASSUME calm, op # "none"
       PROVE  /\ steady = Places(bus)
              /\ stage \in {"count", "next", "questions"} => initialized /\ lost \subseteq {Blank}
              /\ Visiting => count = Cardinality(DOMAIN bus)
              /\ stage = "questions" /\ subject # System =>
                    subject \in DOMAIN bus /\ handle = bus[subject]
              /\ DOMAIN rows = 0..(IF stage = "questions" THEN subject - 1 ELSE Reached)
              /\ \A i \in DOMAIN rows : rows[i].lost \subseteq {Blank}
              /\ DOMAIN why \subseteq {<<i, Blank>> : i \in DOMAIN rows}
  BY <1>02, Zenon DEF NvmlCalm
<1>03. Works => calm
  BY Zenon DEF Works, machineVars
<1>1. CASE NvmlBegin
  <2>1. /\ steady' = Places(bus') /\ stage' = "ready" /\ DOMAIN rows' = {} /\ DOMAIN why' = {}
    BY <1>1, EmptyFacts DEF NvmlBegin, Begin, BeginWith
  <2>2. 0..(-1) = {}
    OBVIOUS
  <2> QED BY <2>1, <2>2 DEF NvmlCalm, Visiting, Reached, System
<1>2. CASE AlreadyReady \/ RaiseFlag
  <2>1. /\ Works /\ UNCHANGED <<op, rows>> /\ initialized'
        /\ stage' = Started /\ subject' = System /\ lost' = {}
        /\ stage \in {"ready", "flag"}
    <3>1. CASE AlreadyReady
      BY <3>1 DEF AlreadyReady, Start, operationVars, libraryVars
    <3>2. CASE RaiseFlag
      BY <3>2 DEF RaiseFlag, Start, operationVars
    <3> QED BY <1>2, <3>1, <3>2
  <2>2. calm /\ op # "none"
    BY <1>03, <2>1
  <2>3. DOMAIN rows' = {} /\ DOMAIN why' = {} /\ steady' = Places(bus')
    <3>1. DOMAIN rows = 0..(-1) /\ DOMAIN why \subseteq {<<i, Blank>> : i \in DOMAIN rows}
          /\ steady = Places(bus)
      BY <1>02, <2>1, <2>2 DEF Reached, System
    <3> QED BY <2>1, <3>1, WorksFacts
  <2>4. DOMAIN rows' = 0..(IF stage' = "questions" THEN subject' - 1 ELSE Reached')
    BY <2>1, <2>3 DEF Started, Reached, System
  <2> QED BY <2>1, <2>3, <2>4 DEF NvmlCalm, Visiting, Started
<1>3. CASE InitFails \/ Finish \/ NvmlEscape
  BY <1>3 DEF InitFails, Finish, NvmlEscape, Return, Escape
<1>4. CASE InitSucceeds
  <2>1. Works /\ UNCHANGED <<op, subject, rows>> /\ stage = "ready" /\ stage' = "flag"
    BY <1>4 DEF InitSucceeds, operationVars, visitVars
  <2>2. calm /\ op # "none" /\ UNCHANGED <<bus, steady, why>>
    BY <1>03, <2>1, WorksFacts
  <2>3. Reached = System /\ Reached' = System
    BY <2>1 DEF Reached
  <2> QED BY <1>02, <2>1, <2>2, <2>3 DEF NvmlCalm, Visiting
<1>5. CASE Counting
  <2>1. /\ stage = "count" /\ stage' = "next" /\ subject = System /\ subject' = System
        /\ UNCHANGED <<op, initialized, lost, rows>>
    BY <1>5 DEF Counting, operationVars, libraryVars, Placed, System
  <2>2. /\ \/ refs > 0 /\ Works /\ count' = Cardinality(DOMAIN bus)
           \/ Raises(Gpu, refs > 0)
           \/ Fault(1)
    BY <1>5 DEF Counting
  <2>3. calm /\ op # "none"
    BY <1>03, <2>1, <2>2, FaultEndsCalm DEF Raises
  <2>4. initialized /\ refs > 0
    BY <1>01, <1>02, <2>1, <2>3
  <2>5. Works /\ count' = Cardinality(DOMAIN bus)
    <3>1. Raises(Gpu, refs > 0) => Fault(1)
      BY <2>4 DEF Raises
    <3> QED BY <2>2, <3>1, FaultEndsCalm
  <2>6. Reached = System /\ Reached' = System
    BY <2>1 DEF Reached
  <2>7. UNCHANGED <<bus, steady, why>>
    BY <2>5, WorksFacts
  <2> QED BY <1>02, <2>1, <2>3, <2>4, <2>5, <2>6, <2>7 DEF NvmlCalm, Visiting
<1>6. CASE Address
  <2>1. /\ stage = "next" /\ subject' = subject + 1 /\ subject' \in Nat /\ subject' < count
        /\ UNCHANGED <<op, initialized, count, rows>>
    BY <1>6, AddressFacts DEF operationVars, libraryVars
  <2>2. \/ /\ Works /\ subject' \in DOMAIN bus
           /\ stage' = "questions" /\ handle' = bus[subject']
           /\ lost' = IF op = "sample" THEN {Blank} ELSE lost \cap {"driver_version", "cuda_version"}
        \/ Raises(Device(subject'), refs > 0 /\ subject' \in DOMAIN bus)
    BY <1>6, AddressFacts DEF Blank
  <2>3. calm /\ op # "none"
    BY <1>03, <2>1, <2>2, FaultEndsCalm DEF Raises
  <2>4. refs > 0 /\ subject' \in DOMAIN bus
    <3>1. refs > 0 /\ count = Cardinality(DOMAIN bus)
      BY <1>01, <1>02, <2>1, <2>3 DEF Visiting
    <3> QED BY <1>0, <2>1, <3>1, BusFacts
  <2>5. /\ Works /\ stage' = "questions" /\ handle' = bus[subject']
        /\ lost' = IF op = "sample" THEN {Blank} ELSE lost \cap {"driver_version", "cuda_version"}
    BY <2>2, <2>4, RaisesEndsCalm
  <2>6. lost' \subseteq {Blank}
    BY <1>02, <2>1, <2>3, <2>5
  <2>7. DOMAIN rows' = 0..(subject' - 1)
    <3>1. DOMAIN rows = 0..subject
      BY <1>02, <2>1, <2>3 DEF Reached
    <3> QED BY <1>0, <2>1, <3>1
  <2>8. UNCHANGED <<bus, steady, why>>
    BY <2>5, WorksFacts
  <2> QED BY <1>02, <2>1, <2>3, <2>4, <2>5, <2>6, <2>7, <2>8 DEF NvmlCalm, Visiting
<1>7. CASE Ask
  <2>1. /\ stage = "questions" /\ UNCHANGED <<op, initialized, stage, count, subject, handle, rows>>
        /\ \/ Works /\ UNCHANGED lost
           \/ \E key : Raises(key, Reachable)
           \/ Fault(1)
    BY <1>7, AskFacts DEF operationVars, libraryVars
  <2>2. calm /\ op # "none"
    BY <1>03, <2>1, FaultEndsCalm DEF Raises
  <2>3. Reachable
    BY <1>01, <1>02, <2>1, <2>2 DEF Reachable, Range
  <2>4. Works /\ UNCHANGED lost
    <3>1. ASSUME NEW key, Raises(key, Reachable) PROVE Fault(1)
      BY <2>3, <3>1 DEF Raises
    <3> QED BY <2>1, <3>1, FaultEndsCalm
  <2>5. UNCHANGED <<bus, steady, why>>
    BY <2>4, WorksFacts
  <2>6. Reached' = Reached
    BY <2>1 DEF Reached
  <2> QED BY <1>02, <2>1, <2>2, <2>4, <2>5, <2>6 DEF NvmlCalm, Visiting
<1>8. CASE EndSystem
  <2>1. /\ Works /\ stage = "questions" /\ stage' = "count" /\ subject = System /\ subject' = System
        /\ UNCHANGED <<op, initialized, lost, rows>>
    BY <1>8 DEF EndSystem, operationVars, libraryVars, visitVars
  <2>2. calm /\ op # "none" /\ UNCHANGED <<bus, steady, why>>
    BY <1>03, <2>1, WorksFacts
  <2>3. DOMAIN rows = {} /\ 0..(-1) = {}
    BY <1>02, <2>1, <2>2 DEF System
  <2>4. Reached' = -1
    BY <2>1 DEF Reached, System
  <2> QED BY <1>02, <2>1, <2>2, <2>3, <2>4 DEF NvmlCalm, Visiting
<1>9. CASE EndRow
  <2>1. /\ stage = "questions" /\ stage' = "next" /\ subject \in Nat
        /\ UNCHANGED <<op, initialized, lost, count, subject, bus, steady>>
        /\ why' = Default(Unnamed, "sensor_unsupported")
    BY <1>9, <1>0 DEF EndRow, KeepRow, operationVars, libraryVars, visitVars, machineVars, System
  <2>2. calm /\ op # "none" /\ subject # System
    BY <1>9, <2>1, Zenon DEF EndRow, KeepRow, machineVars
  <2>3. /\ DOMAIN rows' = DOMAIN rows \cup {subject}
        /\ rows'[subject].lost = lost \cap Fields(op)
        /\ \A i \in DOMAIN rows \ {subject} : rows'[i] = rows[i]
    BY <1>9 DEF EndRow, KeepRow
  <2>4. DOMAIN why' = Unnamed \cup DOMAIN why
    BY <2>1 DEF Default, Put
  <2>5. /\ lost \subseteq {Blank} /\ DOMAIN rows = 0..(subject - 1)
        /\ \A i \in DOMAIN rows : rows[i].lost \subseteq {Blank}
        /\ DOMAIN why \subseteq {<<i, Blank>> : i \in DOMAIN rows}
        /\ initialized /\ steady = Places(bus) /\ count = Cardinality(DOMAIN bus)
    BY <1>02, <2>1, <2>2 DEF Visiting
  <2>6. Unnamed \subseteq {<<subject, Blank>>}
    BY <2>5 DEF Unnamed
  <2>7. DOMAIN rows' = 0..subject /\ Reached' = subject
    BY <2>1, <2>3, <2>5 DEF Reached
  <2>8. \A i \in DOMAIN rows' : rows'[i].lost \subseteq {Blank}
    BY <2>3, <2>5
  <2>9. DOMAIN why' \subseteq {<<i, Blank>> : i \in DOMAIN rows'}
    BY <2>3, <2>4, <2>5, <2>6
  <2> QED BY <2>1, <2>5, <2>7, <2>8, <2>9 DEF NvmlCalm, Visiting
<1>10. CASE Close
  BY <1>10, Zenon DEF Close, Lower
<1>11. CASE Shutdown
  <2>1. UNCHANGED <<op, initialized, stage, count, subject, handle, lost, rows>>
    BY <1>11 DEF Shutdown, operationVars, visitVars
  <2>2. Works \/ Raises(Gpu, TRUE)
    BY <1>11 DEF Shutdown
  <2>3. Works
    BY <2>2, RaisesEndsCalm
  <2>4. calm /\ op # "none" /\ UNCHANGED <<bus, steady, why>>
    BY <1>03, <2>1, <2>3, WorksFacts
  <2>5. Reached' = Reached
    BY <2>1 DEF Reached
  <2> QED BY <1>02, <2>1, <2>4, <2>5 DEF NvmlCalm, Visiting
<1> QED BY <1>1, <1>2, <1>3, <1>4, <1>5, <1>6, <1>7, <1>8, <1>9, <1>10, <1>11 DEF NvmlNext

\* What a calm operation of the reader answers.
Lingers(a) ==
    a # Nothing /\ a.calm =>
        /\ a.found <=> a.steady # {}
        /\ a.op # "available" => DOMAIN a.rows = {place[1] : place \in a.steady}
        /\ \A k \in DOMAIN a.why : IF a.found THEN k[2] = Blank ELSE k = Gpu
        /\ \A i \in DOMAIN a.rows : a.rows[i].lost \subseteq {Blank}

\* Each place is of one index.
LEMMA PlacesFacts ==
    ASSUME NEW b
    PROVE  {place[1] : place \in Places(b)} = DOMAIN b /\ (Places(b) = {} <=> DOMAIN b = {})
<1>1. \A i \in DOMAIN b : <<i, b[i]>> \in Places(b) /\ <<i, b[i]>>[1] = i
  BY DEF Places
<1>2. \A place \in Places(b) : place[1] \in DOMAIN b
  BY DEF Places
<1> QED BY <1>1, <1>2

LEMMA NvmlAnswers ==
    ASSUME Placed, NvmlCalm, RowsGood, NvmlNext
    PROVE  UNCHANGED answer \/ answer' = Nothing \/ Lingers(answer')
<1>1. CASE NvmlBegin
  BY <1>1 DEF NvmlBegin, Begin, BeginWith
<1>2. CASE AlreadyReady \/ RaiseFlag \/ InitSucceeds \/ Counting \/ EndSystem \/ Shutdown
  BY <1>2 DEF AlreadyReady, RaiseFlag, InitSucceeds, Counting, EndSystem, Shutdown, operationVars
<1>3. CASE Address \/ Ask \/ EndRow
  BY <1>3, AddressFacts, AskFacts DEF EndRow, KeepRow, operationVars
<1>4. CASE NvmlEscape \/ Close
  BY <1>4 DEF NvmlEscape, Escape, Close, Lower, operationVars
<1>5. CASE InitFails
  <2>1. Fault(1) /\ Return(NoRows, FALSE)
    BY <1>5 DEF InitFails, Raises
  <2>2. ~calm'
    BY <2>1, FaultEndsCalm
  <2>3. answer'.calm = calm'
    BY <2>1 DEF Return
  <2> QED BY <2>2, <2>3, Zenon DEF Lingers
<1>6. CASE Finish
  <2> DEFINE found == IF op = "available" THEN count > 0 ELSE rows # NoRows
  <2>1. /\ stage = "next" /\ op # "none"
        /\ op = "available" \/ subject + 1 >= count
        /\ Return(rows, found) /\ UNCHANGED machineVars
        /\ why' = IF found THEN why ELSE Default({Gpu}, "no_nvidia_gpus")
    BY <1>6 DEF Finish, Placed
  <2>2. /\ answer'.calm = calm /\ answer'.steady = steady /\ answer'.rows = rows
        /\ answer'.op = op /\ answer'.why = why'
    BY <2>1 DEF Return, machineVars
  <2>3. answer'.found <=> found
    BY <2>1 DEF Return
  <2>4. SUFFICES ASSUME calm PROVE Lingers(answer')
    BY <2>2, Zenon DEF Lingers
  <2>5. /\ steady = Places(bus) /\ count = Cardinality(DOMAIN bus) /\ DOMAIN rows = 0..subject
        /\ \A i \in DOMAIN rows : rows[i].lost \subseteq {Blank}
        /\ DOMAIN why \subseteq {<<i, Blank>> : i \in DOMAIN rows}
    <3>1. /\ steady = Places(bus)
          /\ Visiting => count = Cardinality(DOMAIN bus)
          /\ DOMAIN rows = 0..(IF stage = "questions" THEN subject - 1 ELSE Reached)
          /\ \A i \in DOMAIN rows : rows[i].lost \subseteq {Blank}
          /\ DOMAIN why \subseteq {<<i, Blank>> : i \in DOMAIN rows}
      BY <2>1, <2>4, Zenon DEF NvmlCalm
    <3> QED BY <2>1, <3>1 DEF Visiting, Reached
  <2>6. /\ DOMAIN bus = 0..(count - 1) /\ count \in Nat
        /\ subject \in Nat \cup {-1}
        /\ subject < count \/ subject = -1
    BY <2>5, BusFacts DEF Placed, System
  <2>7. op # "available" => DOMAIN rows = DOMAIN bus
    BY <2>1, <2>5, <2>6
  <2>8. rows # NoRows <=> DOMAIN rows # {}
    BY EmptyFacts DEF RowsGood
  <2>9. found <=> DOMAIN bus # {}
    <3>1. CASE op = "available"
      <4>1. count > 0 => 0 \in DOMAIN bus
        BY <2>6
      <4>2. count = 0 => DOMAIN bus = {}
        BY <2>6
      <4> QED BY <2>6, <3>1, <4>1, <4>2
    <3>2. CASE op # "available"
      BY <2>7, <2>8, <3>2
    <3> QED BY <3>1, <3>2
  <2>10. found <=> steady # {}
    BY <2>5, <2>9, PlacesFacts
  <2>11. ~found => DOMAIN rows = {}
    <3>1. CASE op = "available"
      BY <2>5, <2>6, <3>1
    <3>2. CASE op # "available"
      BY <2>7, <2>9, <3>2
    <3> QED BY <3>1, <3>2
  <2> HIDE DEF found
  <2>12. \A k \in DOMAIN why' : IF found THEN k[2] = Blank ELSE k = Gpu
    <3>1. CASE found
      BY <2>1, <2>5, <3>1
    <3>2. CASE ~found
      <4>1. DOMAIN why = {}
        BY <2>5, <2>11, <3>2
      <4> QED BY <2>1, <3>2, <4>1 DEF Default, Put
    <3> QED BY <3>1, <3>2
  <2>13. op # "available" => DOMAIN rows = {place[1] : place \in steady}
    BY <2>5, <2>7, PlacesFacts
  <2> QED BY <2>2, <2>3, <2>5, <2>10, <2>12, <2>13 DEF Lingers
<1> QED BY <1>1, <1>2, <1>3, <1>4, <1>5, <1>6 DEF NvmlNext

(***************************************************************************)
(* All of it.                                                              *)
(***************************************************************************)
NvmlInv == Placed /\ Told /\ Counted /\ Passed /\ RowsGood /\ LostGood

LEMMA NvmlInvInit == ReadersInit => NvmlInv
<1> SUFFICES ASSUME ReadersInit PROVE NvmlInv
  OBVIOUS
<1>1. /\ op = "none" /\ why = NoReasons /\ stage = "rest" /\ rows = NoRows /\ lost = {}
  BY DEF ReadersInit, Init, NvmlInit
<1> QED BY <1>1, PlacedInit, EmptyFacts
        DEF NvmlInv, Told, Counted, Visiting, Passed, RowsGood, LostGood

LEMMA NvmlInvStep ==
    ASSUME NvmlInv, NvmlNext
    PROVE  NvmlInv'
<1>1. Placed'
  BY PlacedStep DEF NvmlInv
<1> QED BY <1>1, ToldStep, CountedStep, PassedStep, RowsStep, LostStep DEF NvmlInv

LEMMA NvmlInvKept ==
    ASSUME NvmlInv, UNCHANGED <<op, why, failed, nvmlVars>>,
           bus' \in Buses, steady' \subseteq Places(bus'), steady' \subseteq steady
    PROVE  NvmlInv'
<1>1. UNCHANGED <<stage, count, subject, handle, todo, lost, rows>>
  BY DEF nvmlVars, visitVars
<1>2. Placed' /\ Told' /\ Passed'
  BY <1>1 DEF NvmlInv, Placed, Told, Reached, Passed, Behind
<1>3. Counted' /\ LostGood'
  BY <1>1 DEF NvmlInv, Counted, Visiting, LostGood
<1>4. RowsGood'
  BY <1>1 DEF NvmlInv, RowsGood, RowGood, Reached
<1> QED BY <1>2, <1>3, <1>4 DEF NvmlInv
=============================================================================
