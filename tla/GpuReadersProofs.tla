-------------------------- MODULE GpuReadersProofs -------------------------
(***************************************************************************)
(* Proofs about the GPU readers for any set of devices and any number of   *)
(* operations, failures, moves of the devices and closes: the references   *)
(* to the NVML library are balanced, every reader keeps its promise, and   *)
(* what failed in one call does not show in the next.                      *)
(***************************************************************************)
EXTENDS NvmlReaderProofs

(***************************************************************************)
(* The references.                                                         *)
(***************************************************************************)
LEMMA BalanceInductive ==
    ASSUME Balance, [Next]_vars
    PROVE  Balance'
<1>1. CASE backend = "pynvml" /\ NvmlNext
      BY <1>1, BalanceStep
<1>2. CASE UNCHANGED nvmlVars
      BY <1>2 DEF nvmlVars, libraryVars, Balance, LibraryTyped, FlagDown, ReferencesBalanced
<1> QED BY <1>1, <1>2 DEF Next, vars

(***************************************************************************)
(* Whatever fails, whenever an operation is cut short and whenever another *)
(* thread calls close(), each reference to the NVML library has an owner,  *)
(* and none is given back twice (_ready and close of nvml.py).             *)
(***************************************************************************)
THEOREM References == Spec => []ReferencesBalanced
<1>1. Balance => ReferencesBalanced
      BY DEF Balance
<1> QED BY <1>1, BalanceInit, BalanceInductive, PTL DEF Spec

(***************************************************************************)
(* One run of nvidia-smi.                                                  *)
(***************************************************************************)
RunScopes == RowScopes \cup {"gpu.throttle.row", "gpu.compute.row"}
Oddities == {"malformed", "unindexed", "repeated"}

LEMMA PutFacts ==
    ASSUME NEW reasons, NEW keys, NEW reason
    PROVE  /\ DOMAIN Put(reasons, keys, reason) = keys \cup DOMAIN reasons
           /\ \A k \in keys : Put(reasons, keys, reason)[k] = reason
           /\ \A k \in DOMAIN reasons \ keys : Put(reasons, keys, reason)[k] = reasons[k]
BY DEF Put

\* The reasons of the rows left out are keys of that run.
LEMMA RowKeysFacts ==
    ASSUME bus \in Buses, NEW lines, NEW oddities, NEW scope \in RunScopes
    PROVE  RowKeys(lines, oddities, scope) \subseteq {k \in Keys : k[2] = scope}
<1>1. IsFiniteSet((DOMAIN bus) \X {1, 2})
  <2>1. IsFiniteSet(DOMAIN bus)
    BY BusFacts, FS_Interval
  <2>2. IsFiniteSet({1, 2})
    <3>1. {1, 2} = 1..2
      OBVIOUS
    <3>2. IsFiniteSet(1..2)
      BY 1 \in Int, 2 \in Int, FS_Interval, Zenon
    <3> QED BY <3>1, <3>2
  <2> QED BY <2>1, <2>2, FS_Product
<1>2. ASSUME NEW line \in lines
      PROVE  Cardinality({other \in Parsed(oddities) : Before(other, line)}) \in Nat
  <2>1. {other \in Parsed(oddities) : Before(other, line)} \subseteq (DOMAIN bus) \X {1, 2}
    BY DEF Parsed
  <2> QED BY <1>1, <2>1, FS_Subset, FS_CardinalityType
<1>3. scope \in Names
  BY DEF RunScopes, Names
<1>4. ASSUME NEW k \in RowKeys(lines, oddities, scope) PROVE \E n \in Nat : k = <<n, scope>>
  BY <1>2 DEF RowKeys
<1> QED BY <1>3, <1>4 DEF Keys

LEMMA LeftOutFacts ==
    ASSUME bus \in Buses, NEW reasons, NEW oddities, NEW scope \in RunScopes
    PROVE  /\ DOMAIN reasons \subseteq DOMAIN LeftOut(reasons, oddities, scope)
           /\ \A k \in DOMAIN LeftOut(reasons, oddities, scope) :
                 k \in DOMAIN reasons \/ (k \in Keys /\ k[2] = scope)
           /\ \A k \in DOMAIN reasons :
                 k[2] # scope => LeftOut(reasons, oddities, scope)[k] = reasons[k]
           /\ \A line \in Parsed(oddities) : Index(line, oddities) = NoIndex =>
                 \E k \in DOMAIN LeftOut(reasons, oddities, scope) : k[2] = scope
<1> DEFINE unindexed == {line \in Parsed(oddities) : Index(line, oddities) = NoIndex}
           again == (Parsed(oddities) \ Firsts(oddities)) \ unindexed
           one == RowKeys(unindexed, oddities, scope)
           two == RowKeys(again, oddities, scope)
           put == Put(reasons, one, "malformed_value")
<1>1. LeftOut(reasons, oddities, scope) = Put(put, two, "duplicate_gpu_index")
  BY DEF LeftOut
<1>2. one \subseteq {k \in Keys : k[2] = scope} /\ two \subseteq {k \in Keys : k[2] = scope}
  BY RowKeysFacts
<1>3. ASSUME NEW line \in unindexed PROVE \E k \in one : k[2] = scope
  <2> DEFINE n == Cardinality({other \in Parsed(oddities) : Before(other, line)})
  <2>1. <<n, scope>> \in one
    BY DEF RowKeys
  <2> HIDE DEF n
  <2> QED BY <2>1
<1> HIDE DEF one, two
<1>4. DOMAIN put = one \cup DOMAIN reasons /\ \A k \in DOMAIN reasons \ one : put[k] = reasons[k]
  BY DEF Put
<1> HIDE DEF put
<1> DEFINE all == Put(put, two, "duplicate_gpu_index")
<1>5. DOMAIN all = two \cup DOMAIN put /\ \A k \in DOMAIN put \ two : all[k] = put[k]
  BY DEF Put
<1> HIDE DEF all
<1>6. \A k \in DOMAIN reasons : k[2] # scope => all[k] = reasons[k]
  BY <1>2, <1>4, <1>5
<1>7. \A line \in Parsed(oddities) : Index(line, oddities) = NoIndex => \E k \in DOMAIN all : k[2] = scope
  BY <1>3, <1>4, <1>5
<1>8. DOMAIN reasons \subseteq DOMAIN all
  BY <1>4, <1>5
<1>9. \A k \in DOMAIN all : k \in DOMAIN reasons \/ (k \in Keys /\ k[2] = scope)
  BY <1>2, <1>4, <1>5
<1>10. LeftOut(reasons, oddities, scope) = all
  BY <1>1 DEF all
<1> QED BY <1>6, <1>7, <1>8, <1>9, <1>10

\* The rows by index: one of each device whose line could be parsed and has one.
LEMMA ByIndexFacts ==
    ASSUME bus \in Buses, NEW fields, NEW oddities \in OddSets(fields)
    PROVE  /\ DOMAIN ByIndex(oddities) \subseteq DOMAIN bus
           /\ \A i \in DOMAIN ByIndex(oddities) :
                 /\ ByIndex(oddities)[i].device = bus[i]
                 /\ ByIndex(oddities)[i].lost \subseteq AllFields \cap (fields \cup Oddities)
           /\ \A i \in DOMAIN bus :
                 \/ i \in DOMAIN ByIndex(oddities)
                 \/ <<i, "malformed">> \in oddities
                 \/ \E line \in Parsed(oddities) : Index(line, oddities) = NoIndex
<1>1. ASSUME NEW line \in Parsed(oddities)
      PROVE  /\ line[1] \in DOMAIN bus /\ line[2] \in {1, 2} /\ line = <<line[1], line[2]>>
             /\ Index(line, oddities) \in {line[1], NoIndex}
  BY DEF Parsed, Index, Row
<1>2. DOMAIN ByIndex(oddities) = {line[1] : line \in Firsts(oddities)}
  BY DEF ByIndex
<1>3. Firsts(oddities) \subseteq Parsed(oddities)
  BY DEF Firsts
<1>4. ASSUME NEW i \in DOMAIN ByIndex(oddities)
      PROVE  /\ ByIndex(oddities)[i].device = bus[i]
             /\ ByIndex(oddities)[i].lost = {f \in AllFields : <<i, f>> \in oddities}
  BY DEF ByIndex, Row, AllFields
<1>5. ASSUME NEW i, NEW f, <<i, f>> \in oddities PROVE f \in fields \cup Oddities
  BY <1>5 DEF OddSets, Odd, Oddities
<1>6. ASSUME NEW i \in DOMAIN bus, <<i, "malformed">> \notin oddities,
             \A line \in Parsed(oddities) : Index(line, oddities) # NoIndex
      PROVE  i \in DOMAIN ByIndex(oddities)
  <2> DEFINE line == <<i, 1>>
  <2>1. line \in Parsed(oddities)
    BY <1>6 DEF Parsed
  <2>2. ASSUME NEW other \in Parsed(oddities), Before(other, line)
        PROVE  Index(other, oddities) # Index(line, oddities)
    <3>1. Index(other, oddities) = other[1] /\ Index(line, oddities) = i
      BY <1>1, <1>6, <2>1
    <3>2. other[1] \in DOMAIN bus /\ other[2] \in {1, 2}
      BY <1>1
    <3>3. DOMAIN bus \subseteq Int
      BY BusFacts
    <3>4. other[1] < i \/ (other[1] = i /\ other[2] < 1)
      BY <2>2 DEF Before
    <3> QED BY <3>1, <3>2, <3>3, <3>4, <1>6
  <2>3. line \in Firsts(oddities)
    BY <1>6, <2>1, <2>2 DEF Firsts
  <2>4. line[1] = i
    OBVIOUS
  <2> HIDE DEF line
  <2> QED BY <1>2, <2>3, <2>4
<1> QED BY <1>1, <1>2, <1>3, <1>4, <1>5, <1>6

\* What a run leaves behind, whatever it printed.
QueryEffect(fields, key, scope, result) ==
    /\ UNCHANGED <<bus, steady, moves>>
    /\ DOMAIN why \subseteq DOMAIN why'
    /\ \A k \in DOMAIN why' : k \in DOMAIN why \/ k = key \/ (k \in Keys /\ k[2] = scope)
    /\ \A k \in DOMAIN why : k[2] # scope => why'[k] \in {why[k], "call_failed"}
    /\ key \in DOMAIN why' /\ key \notin DOMAIN why =>
          why'[key] \in {"call_failed", "malformed_csv"}
    /\ \/ failed' = failed
       \/ failed' = failed \cup {key} /\ key \in DOMAIN why' /\ why'[key] = "call_failed"
    /\ result # NoRows => DOMAIN result # {}
    /\ \A i \in DOMAIN result :
          /\ i \in DOMAIN bus /\ result[i].device = bus[i]
          /\ result[i].lost \subseteq AllFields \cap (fields \cup Oddities)
    /\ \A i \in DOMAIN bus :
          \/ i \in DOMAIN result \/ key \in DOMAIN why'
          \/ \E k \in DOMAIN why' : k[2] = scope

LEMMA QueryFacts ==
    ASSUME bus \in Buses, NEW fields, NEW key \in Keys, NEW scope \in RunScopes,
           key[2] # scope, NEW result, Query(fields, key, scope, result)
    PROVE  QueryEffect(fields, key, scope, result)
<1> USE DEF QueryEffect
<1>1. UNCHANGED <<bus, steady, moves>>
  BY DEF Query, Fault
<1>2. CASE /\ why' = Assign({key}, "call_failed") /\ failed' = failed \cup {key}
           /\ result = NoRows
  <2>1. /\ DOMAIN why' = {key} \cup DOMAIN why /\ why'[key] = "call_failed"
        /\ \A k \in DOMAIN why \ {key} : why'[k] = why[k]
    BY <1>2 DEF Assign, Put
  <2>2. DOMAIN result = {}
    BY <1>2, EmptyFacts
  <2> QED BY <1>1, <1>2, <2>1, <2>2
<1>3. ASSUME NEW oddities \in OddSets(fields),
             why' = LeftOut(IF \E i \in DOMAIN bus : <<i, "malformed">> \in oddities
                            THEN Default({key}, "malformed_csv") ELSE why, oddities, scope),
             result = ByIndex(oddities), failed' = failed
      PROVE  /\ DOMAIN why \subseteq DOMAIN why'
             /\ \A k \in DOMAIN why' : k \in DOMAIN why \/ k = key \/ (k \in Keys /\ k[2] = scope)
             /\ \A k \in DOMAIN why : k[2] # scope => why'[k] = why[k]
             /\ key \in DOMAIN why' /\ key \notin DOMAIN why => why'[key] = "malformed_csv"
             /\ result # NoRows => DOMAIN result # {}
             /\ \A i \in DOMAIN result :
                   /\ i \in DOMAIN bus /\ result[i].device = bus[i]
                   /\ result[i].lost \subseteq AllFields \cap (fields \cup Oddities)
             /\ \A i \in DOMAIN bus :
                   \/ i \in DOMAIN result \/ key \in DOMAIN why'
                   \/ \E k \in DOMAIN why' : k[2] = scope
  <2> DEFINE dropped == \E i \in DOMAIN bus : <<i, "malformed">> \in oddities
             told == IF dropped THEN Default({key}, "malformed_csv") ELSE why
  <2>1. /\ DOMAIN why \subseteq DOMAIN told /\ \A k \in DOMAIN why : told[k] = why[k]
        /\ \A k \in DOMAIN told : k \in DOMAIN why \/ (k = key /\ told[k] = "malformed_csv")
        /\ dropped => key \in DOMAIN told
    BY DEF Default, Put
  <2>2. why' = LeftOut(told, oddities, scope)
    BY <1>3
  <2> HIDE DEF told
  <2>3. /\ DOMAIN told \subseteq DOMAIN why'
        /\ \A k \in DOMAIN why' : k \in DOMAIN told \/ (k \in Keys /\ k[2] = scope)
        /\ \A k \in DOMAIN told : k[2] # scope => why'[k] = told[k]
        /\ \A line \in Parsed(oddities) : Index(line, oddities) = NoIndex =>
              \E k \in DOMAIN why' : k[2] = scope
    BY <2>2, LeftOutFacts
  <2>4. ASSUME NEW i \in DOMAIN bus
        PROVE  \/ i \in DOMAIN result \/ key \in DOMAIN why'
               \/ \E k \in DOMAIN why' : k[2] = scope
    <3>1. \/ i \in DOMAIN result \/ <<i, "malformed">> \in oddities
          \/ \E line \in Parsed(oddities) : Index(line, oddities) = NoIndex
      BY <1>3, ByIndexFacts
    <3> QED BY <2>1, <2>3, <3>1
  <2>5. \A i \in DOMAIN result :
           /\ i \in DOMAIN bus /\ result[i].device = bus[i]
           /\ result[i].lost \subseteq AllFields \cap (fields \cup Oddities)
    BY <1>3, ByIndexFacts
  <2>6. result # NoRows => DOMAIN result # {}
    BY <1>3 DEF ByIndex, NoRows
  <2>7. \A k \in DOMAIN why : k[2] # scope => why'[k] = why[k]
    BY <2>1, <2>3
  <2>8. key \in DOMAIN why' /\ key \notin DOMAIN why => why'[key] = "malformed_csv"
    BY <2>1, <2>3
  <2>9. \A k \in DOMAIN why' : k \in DOMAIN why \/ k = key \/ (k \in Keys /\ k[2] = scope)
    BY <2>1, <2>3
  <2> QED BY <2>1, <2>3, <2>4, <2>5, <2>6, <2>7, <2>8, <2>9
<1>4. CASE \E oddities \in OddSets(fields) :
              /\ why' = LeftOut(IF \E i \in DOMAIN bus : <<i, "malformed">> \in oddities
                                THEN Default({key}, "malformed_csv") ELSE why, oddities, scope)
              /\ result = ByIndex(oddities) /\ failed' = failed
  <2>1. PICK oddities \in OddSets(fields) :
              /\ why' = LeftOut(IF \E i \in DOMAIN bus : <<i, "malformed">> \in oddities
                                THEN Default({key}, "malformed_csv") ELSE why, oddities, scope)
              /\ result = ByIndex(oddities) /\ failed' = failed
    BY <1>4
  <2>2. /\ DOMAIN why \subseteq DOMAIN why'
        /\ \A k \in DOMAIN why' : k \in DOMAIN why \/ k = key \/ (k \in Keys /\ k[2] = scope)
        /\ \A k \in DOMAIN why : k[2] # scope => why'[k] = why[k]
        /\ key \in DOMAIN why' /\ key \notin DOMAIN why => why'[key] = "malformed_csv"
        /\ result # NoRows => DOMAIN result # {}
        /\ \A i \in DOMAIN result :
              /\ i \in DOMAIN bus /\ result[i].device = bus[i]
              /\ result[i].lost \subseteq AllFields \cap (fields \cup Oddities)
        /\ \A i \in DOMAIN bus :
              \/ i \in DOMAIN result \/ key \in DOMAIN why'
              \/ \E k \in DOMAIN why' : k[2] = scope
    BY <1>3, <2>1
  <2> QED BY <1>1, <2>1, <2>2
<1> QED BY <1>2, <1>4 DEF Query

(***************************************************************************)
(* The state of the nvidia-smi reader.                                     *)
(***************************************************************************)
Running(p) == p \in {"second", "banner", "rows"}
SmiPlaced ==
    /\ bus \in Buses /\ steady \subseteq Places(bus)
    /\ op \in Operations \cup {"none"}
    /\ phase \in {"rest", "core", "verdict", "second", "banner", "rows"}
    /\ phase = "rest" <=> op = "none"
    /\ Running(phase) => op # "available"

\* Before the rows are joined, no reason is about a field of a device.
SmiTold ==
    /\ DOMAIN why \subseteq Keys
    /\ op # "none" =>
        /\ \A k \in failed : k[2] \notin RunScopes /\ k \in DOMAIN why /\ why[k] = "call_failed"
        /\ Gpu \in DOMAIN why => why[Gpu] # "no_nvidia_gpus"
        /\ \A k \in DOMAIN why : k[1] = System \/ k[2] \in RunScopes
        /\ ~banner => <<System, "cuda_version">> \in DOMAIN why
        /\ phase # "rows" => <<System, "cuda_version">> \notin failed

\* The first run saw the devices that are still there, or there is an excuse;
\* the rows of both runs are of the devices that kept their index.
Excused == Gpu \in DOMAIN why \/ \E k \in DOMAIN why : k[2] \in RowScopes
SmiRows ==
    /\ \A i \in DOMAIN core : i \in Nat /\ core[i].device \in Devices
    /\ op # "none" =>
        /\ phase # "core" => \A place \in steady : place[1] \in DOMAIN core \/ Excused
        /\ \A place \in steady :
              /\ place[1] \in DOMAIN core => core[place[1]].device = place[2]
              /\ place[1] \in DOMAIN second => second[place[1]].device = place[2]
        /\ \A i \in DOMAIN core : core[i].lost \subseteq AllFields \ {"cuda_version"}
        /\ Running(phase) => core # NoRows
        /\ phase = "verdict" /\ op # "available" => core = NoRows

SmiInv == SmiPlaced /\ SmiTold /\ SmiRows

LEMMA SmiInvInit == ReadersInit => SmiInv
<1> SUFFICES ASSUME ReadersInit PROVE SmiInv
  OBVIOUS
<1>1. /\ op = "none" /\ why = NoReasons /\ phase = "rest" /\ core = NoRows
      /\ bus \in Buses /\ steady = {}
  BY DEF ReadersInit, Init, SmiInit
<1> QED BY <1>1, EmptyFacts DEF SmiInv, SmiPlaced, SmiTold, SmiRows, Running

LEMMA SmiInvKept ==
    ASSUME SmiInv, UNCHANGED <<op, why, failed, smiVars>>,
           bus' \in Buses, steady' \subseteq Places(bus'), steady' \subseteq steady
    PROVE  SmiInv'
<1>1. UNCHANGED <<phase, core, second, banner>>
  BY DEF smiVars
<1>2. SmiPlaced' /\ SmiTold'
  BY <1>1 DEF SmiInv, SmiPlaced, SmiTold, Running
<1>3. SmiRows'
  BY <1>1 DEF SmiInv, SmiRows, Running, Excused
<1> QED BY <1>2, <1>3 DEF SmiInv

\* A run of an operation after the first.
LEMMA SmiToldQuery ==
    ASSUME SmiPlaced, SmiTold, op # "none", op' = op,
           NEW fields, NEW key \in Keys, NEW scope \in RunScopes,
           key[1] = System, key[2] \notin RunScopes, NEW result, Query(fields, key, scope, result),
           banner' = banner, phase # "rows", key # <<System, "cuda_version">>
    PROVE  SmiTold'
<1>1. bus \in Buses /\ key[2] # scope
  BY DEF SmiPlaced
<1>0. QueryEffect(fields, key, scope, result)
  BY <1>1, QueryFacts
<1>2. /\ DOMAIN why \subseteq DOMAIN why'
      /\ \A k \in DOMAIN why' : k \in DOMAIN why \/ k = key \/ (k \in Keys /\ k[2] = scope)
      /\ \A k \in DOMAIN why : k[2] # scope => why'[k] \in {why[k], "call_failed"}
      /\ key \in DOMAIN why' /\ key \notin DOMAIN why =>
            why'[key] \in {"call_failed", "malformed_csv"}
      /\ \/ failed' = failed
         \/ failed' = failed \cup {key} /\ key \in DOMAIN why' /\ why'[key] = "call_failed"
  BY <1>0 DEF QueryEffect
<1>3. Gpu[2] \notin RunScopes
  BY DEF Gpu, RunScopes, RowScopes
<1>4. ASSUME NEW k \in failed' PROVE k[2] \notin RunScopes /\ k \in DOMAIN why' /\ why'[k] = "call_failed"
  <2>1. CASE k \in failed
    BY <1>2, <2>1 DEF SmiTold
  <2>2. CASE k \notin failed
    BY <1>2, <2>2
  <2> QED BY <2>1, <2>2
<1>5. Gpu \in DOMAIN why' => why'[Gpu] # "no_nvidia_gpus"
  <2>1. CASE Gpu \in DOMAIN why
    BY <1>2, <1>3, <2>1 DEF SmiTold
  <2>2. CASE Gpu \notin DOMAIN why
    BY <1>2, <1>3, <2>2
  <2> QED BY <2>1, <2>2
<1>6. \A k \in DOMAIN why' : k \in Keys /\ (k[1] = System \/ k[2] \in RunScopes)
  BY <1>2 DEF SmiTold
<1>7. ~banner' => <<System, "cuda_version">> \in DOMAIN why'
  BY <1>2 DEF SmiTold
<1>8. <<System, "cuda_version">> \notin failed'
  BY <1>2 DEF SmiTold
<1> QED BY <1>4, <1>5, <1>6, <1>7, <1>8 DEF SmiTold

LEMMA ScopeFacts ==
    /\ CoreScope \in RowScopes /\ CoreScope \in RunScopes
    /\ Gpu \in Keys /\ Gpu[1] = System /\ Gpu[2] \notin RunScopes
    /\ {"gpu.throttle.row", "gpu.compute.row"} \subseteq RunScopes
    /\ <<System, Beside>> \in Keys /\ Beside \notin RunScopes
    /\ Beside \in AllFields /\ "cuda_version" \in AllFields
    /\ <<System, Beside>> # <<System, "cuda_version">> /\ Gpu # <<System, "cuda_version">>
    /\ "cuda_version" \notin CoreFields \cup Oddities
    /\ <<System, "cuda_version">> \in Keys /\ "cuda_version" \notin RunScopes
<1>1. CoreScope \in RowScopes
  BY DEF CoreScope, RowScopes
<1>2. "throttle_reasons" \in Fields("sample")
  BY DEF Fields
<1>3. {"compute_capability", "cuda_version"} \subseteq Fields("static_info")
  BY DEF Fields
<1>4. Beside \in AllFields /\ "cuda_version" \in AllFields
  BY <1>2, <1>3 DEF Beside, AllFields, Operations
<1>5. Gpu[1] = System /\ Gpu[2] \notin RunScopes
  BY DEF Gpu, RunScopes, RowScopes
<1>6. AllFields \cap RunScopes = {}
  BY FieldFacts DEF NoFields, RunScopes
<1>7. "cuda_version" \notin CoreFields \cup Oddities
  BY DEF CoreFields, Oddities
<1>8. <<System, Beside>> \in Keys /\ <<System, "cuda_version">> \in Keys
  BY <1>4, KeyFacts
<1>9. Beside # "cuda_version" /\ Gpu[2] # "cuda_version"
  BY DEF Beside, Gpu
<1> QED BY <1>1, <1>4, <1>5, <1>6, <1>7, <1>8, <1>9, KeyFacts DEF RunScopes

\* The rows of two runs joined by index.
Gaps(joined) == UNION {{<<i, f>> : f \in joined[i].lost \ {"cuda_version"}} : i \in DOMAIN joined}
JoinEffect(joined) ==
    /\ phase = "rows" /\ UNCHANGED <<machineVars, failed, core, second, banner>>
    /\ phase' = "rest"
    /\ Return(joined, TRUE)
    /\ why' = Assign(Gaps(joined), "sensor_unsupported")
    /\ DOMAIN joined = DOMAIN core
    /\ \A i \in DOMAIN core :
          /\ joined[i].device = core[i].device
          /\ joined[i].beside = Nobody \/ (i \in DOMAIN second /\ joined[i].beside = second[i].device)
          /\ joined[i].lost \subseteq core[i].lost \cup {Beside, "cuda_version"}
          /\ "cuda_version" \in joined[i].lost => "cuda_version" \in core[i].lost \/ ~banner
          /\ banner /\ i \in DOMAIN second /\ Beside \notin second[i].lost =>
                joined[i].lost \subseteq core[i].lost

LEMMA JoinFacts ==
    ASSUME Join
    PROVE  \E joined : JoinEffect(joined)
<1> DEFINE partner == [i \in DOMAIN core |-> i]
           Joined(i) == partner[i] \in DOMAIN second /\ Beside \notin second[partner[i]].lost
           joined == [i \in DOMAIN core |->
                        [device |-> core[i].device,
                         beside |-> IF Joined(i) THEN second[partner[i]].device ELSE Nobody,
                         lost |-> core[i].lost \cup (IF Joined(i) THEN {} ELSE {Beside})
                                               \cup (IF banner THEN {} ELSE {"cuda_version"})]]
<1>1. /\ phase = "rows" /\ UNCHANGED <<machineVars, failed, core, second, banner>>
      /\ phase' = "rest"
  BY DEF Join, Build
<1>2. /\ Return(joined, TRUE)
      /\ why' = Assign(Gaps(joined), "sensor_unsupported")
  BY Zenon DEF Join, Build, Gaps
<1>3. ASSUME NEW i \in DOMAIN core
      PROVE  /\ joined[i].device = core[i].device
             /\ joined[i].beside = IF Joined(i) THEN second[i].device ELSE Nobody
             /\ joined[i].lost = core[i].lost \cup (IF Joined(i) THEN {} ELSE {Beside})
                                              \cup (IF banner THEN {} ELSE {"cuda_version"})
             /\ Joined(i) <=> i \in DOMAIN second /\ Beside \notin second[i].lost
  OBVIOUS
<1>4. Beside # "cuda_version"
  BY DEF Beside
<1>5. DOMAIN joined = DOMAIN core
  OBVIOUS
<1> HIDE DEF joined, Joined, partner
<1>6. ASSUME NEW i \in DOMAIN core
      PROVE  /\ joined[i].device = core[i].device
             /\ \/ joined[i].beside = Nobody
                \/ i \in DOMAIN second /\ joined[i].beside = second[i].device
             /\ joined[i].lost \subseteq core[i].lost \cup {Beside, "cuda_version"}
             /\ "cuda_version" \in joined[i].lost => "cuda_version" \in core[i].lost \/ ~banner
             /\ banner /\ i \in DOMAIN second /\ Beside \notin second[i].lost =>
                   joined[i].lost \subseteq core[i].lost
  BY <1>3, <1>4
<1>7. JoinEffect(joined)
  BY <1>1, <1>2, <1>5, <1>6 DEF JoinEffect
<1> QED BY <1>7

LEMMA SmiPlacedStep ==
    ASSUME SmiPlaced, SmiRows, SmiNext
    PROVE  SmiPlaced'
<1>1. CASE SmiBegin
  BY <1>1 DEF SmiBegin, Begin, BeginWith, SmiPlaced, Running, Operations
<1>2. CASE RunCore
  <2>1. phase = "core" /\ UNCHANGED <<op, bus, steady>>
        /\ phase' = IF op = "available" \/ core' = NoRows THEN "verdict" ELSE "second"
    BY <1>2 DEF RunCore, Query, Fault, operationVars
  <2> QED BY <2>1 DEF SmiPlaced, Running
<1>3. CASE Verdict
  BY <1>3 DEF Verdict, End, Return, machineVars, SmiPlaced, Running
<1>4. CASE RunSecond
  <2>1. phase = "second" /\ UNCHANGED <<op, bus, steady>> /\ phase' \in {"rows", "banner"}
    BY <1>4 DEF RunSecond, Query, Fault, operationVars
  <2> QED BY <2>1 DEF SmiPlaced, Running
<1>5. CASE RunBanner
  <2>1. phase = "banner" /\ UNCHANGED <<op, bus, steady>> /\ phase' = "rows"
    BY <1>5 DEF RunBanner, Fault, operationVars
  <2> QED BY <2>1 DEF SmiPlaced, Running
<1>6. CASE Join
  BY <1>6 DEF Join, Build, Return, machineVars, SmiPlaced, Running
<1>7. CASE SmiEscape
  BY <1>7 DEF SmiEscape, Escape, Fault, SmiPlaced, Running
<1> QED BY <1>1, <1>2, <1>3, <1>4, <1>5, <1>6, <1>7 DEF SmiNext

LEMMA SmiToldStep ==
    ASSUME SmiPlaced, SmiTold, SmiRows, SmiNext
    PROVE  SmiTold'
<1>1. CASE SmiBegin
  <2>1. why' = NoReasons /\ failed' = {}
    BY <1>1 DEF SmiBegin, Begin, BeginWith
  <2>2. banner'
    BY <1>1, Zenon DEF SmiBegin
  <2> QED BY <2>1, <2>2, EmptyFacts DEF SmiTold
<1>2. CASE RunCore
  <2>1. /\ op # "none" /\ op' = op /\ banner' = banner /\ phase # "rows"
        /\ Query(CoreFields, Gpu, CoreScope, core')
    BY <1>2 DEF RunCore, operationVars, SmiPlaced
  <2> QED BY <2>1, ScopeFacts, SmiToldQuery
<1>3. CASE RunSecond
  <2> DEFINE scope == IF op = "sample" THEN "gpu.throttle.row" ELSE "gpu.compute.row"
  <2>1. /\ op # "none" /\ op' = op /\ banner' = banner /\ phase # "rows"
        /\ Query({Beside}, <<System, Beside>>, scope, second')
    BY <1>3 DEF RunSecond, operationVars, SmiPlaced
  <2>2. scope \in RunScopes
    BY ScopeFacts
  <2>3. <<System, Beside>>[1] = System /\ <<System, Beside>>[2] \notin RunScopes
    BY ScopeFacts
  <2> HIDE DEF scope
  <2> QED BY <2>1, <2>2, <2>3, ScopeFacts, SmiToldQuery
<1>4. CASE RunBanner
  <2> DEFINE key == <<System, "cuda_version">>
  <2>1. op' = op /\ op # "none" /\ phase = "banner" /\ phase' = "rows"
    BY <1>4 DEF RunBanner, operationVars, SmiPlaced
  <2>2. key \in Keys /\ key[1] = System /\ key[2] \notin RunScopes /\ key # Gpu
    BY ScopeFacts
  <2>3. CASE banner' = TRUE /\ UNCHANGED reasonVars
    <3>1. banner'
      BY <2>3, Zenon
    <3>2. why' = why /\ failed' = failed
      BY <2>3 DEF reasonVars
    <3> QED BY <2>1, <3>1, <3>2 DEF SmiTold
  <2>4. key \notin failed
    BY <2>1 DEF SmiTold
  <2>5. SmiTold /\ key = <<System, "cuda_version">>
    OBVIOUS
  <2> HIDE DEF key
  <2>6. CASE \/ why' = Assign({key}, "call_failed") /\ failed' = failed \cup {key}
             \/ why' = Assign({key}, "field_missing") /\ UNCHANGED failed
    <3>1. /\ DOMAIN why' = {key} \cup DOMAIN why
          /\ \A k \in DOMAIN why \ {key} : why'[k] = why[k]
          /\ failed' = failed \/ (failed' = failed \cup {key} /\ why'[key] = "call_failed")
      BY <2>6 DEF Assign, Put
    <3>2. \A k \in failed' : k[2] \notin RunScopes /\ k \in DOMAIN why' /\ why'[k] = "call_failed"
      BY <2>1, <2>2, <2>4, <3>1 DEF SmiTold
    <3>3. Gpu \in DOMAIN why' => why'[Gpu] # "no_nvidia_gpus"
      BY <2>1, <2>2, <3>1 DEF SmiTold
    <3>4. \A k \in DOMAIN why' : k \in Keys /\ (k[1] = System \/ k[2] \in RunScopes)
      BY <2>1, <2>2, <3>1 DEF SmiTold
    <3> QED BY <2>1, <2>5, <3>1, <3>2, <3>3, <3>4 DEF SmiTold
  <2> QED BY <1>4, <2>3, <2>6 DEF RunBanner, key
<1>5. CASE Verdict
  <2>1. op' = "none" /\ \E reason : why' = why \/ why' = Default({Gpu}, reason)
    BY <1>5 DEF Verdict, End, Return
  <2>2. DOMAIN why' \subseteq DOMAIN why \cup {Gpu}
    BY <2>1 DEF Default, Put
  <2> QED BY <2>1, <2>2, ScopeFacts DEF SmiTold
<1>6. CASE Join
  <2>1. PICK joined : JoinEffect(joined)
    BY <1>6, JoinFacts
  <2>2. op # "none" /\ op' = "none"
    BY <2>1 DEF JoinEffect, Return, SmiPlaced
  <2>3. \A i \in DOMAIN core : i \in Nat /\ joined[i].lost \subseteq AllFields
    BY <2>1, <2>2, ScopeFacts DEF SmiRows, JoinEffect
  <2>4. DOMAIN joined = DOMAIN core /\ why' = Assign(Gaps(joined), "sensor_unsupported")
    BY <2>1 DEF JoinEffect
  <2>5. Gaps(joined) \subseteq Keys
    BY <2>3, <2>4, KeyFacts DEF Gaps
  <2>6. DOMAIN why' = Gaps(joined) \cup DOMAIN why
    BY <2>4 DEF Assign, Put
  <2> QED BY <2>2, <2>5, <2>6 DEF SmiTold
<1>7. CASE SmiEscape
  BY <1>7 DEF SmiEscape, Escape, reasonVars, SmiTold
<1> QED BY <1>1, <1>2, <1>3, <1>4, <1>5, <1>6, <1>7 DEF SmiNext

LEMMA SmiRowsStep ==
    ASSUME SmiPlaced, SmiTold, SmiRows, SmiNext
    PROVE  SmiRows'
<1>1. CASE SmiBegin
  <2>1. DOMAIN core' = {} /\ DOMAIN second' = {} /\ phase' = "core"
    BY <1>1, EmptyFacts DEF SmiBegin
  <2> QED BY <2>1 DEF SmiRows, Running
<1>2. CASE RunCore
  <2>1. /\ phase = "core" /\ op # "none" /\ op' = op /\ second' = second
        /\ phase' = IF op = "available" \/ core' = NoRows THEN "verdict" ELSE "second"
        /\ Query(CoreFields, Gpu, CoreScope, core')
    BY <1>2 DEF RunCore, operationVars, SmiPlaced
  <2>2. CoreScope \in RunScopes /\ Gpu \in Keys /\ Gpu[2] # CoreScope /\ bus \in Buses
    BY ScopeFacts DEF SmiPlaced
  <2>3. QueryEffect(CoreFields, Gpu, CoreScope, core')
    BY <2>1, <2>2, QueryFacts
  <2>4. /\ UNCHANGED steady
        /\ \A i \in DOMAIN core' :
              /\ i \in DOMAIN bus /\ core'[i].device = bus[i]
              /\ core'[i].lost \subseteq AllFields \cap (CoreFields \cup Oddities)
        /\ \A i \in DOMAIN bus :
              \/ i \in DOMAIN core' \/ Gpu \in DOMAIN why'
              \/ \E k \in DOMAIN why' : k[2] = CoreScope
    BY <2>3 DEF QueryEffect
  <2>5. \A i \in DOMAIN core' : i \in Nat /\ core'[i].device \in Devices
    BY <2>2, <2>4, BusFacts
  <2>6. \A place \in steady : place[1] \in DOMAIN bus /\ bus[place[1]] = place[2]
    BY DEF SmiPlaced, Places
  <2>7. \A place \in steady : place[1] \in DOMAIN core' \/ Excused'
    BY <2>4, <2>6, ScopeFacts DEF Excused
  <2>8. \A i \in DOMAIN core' : core'[i].lost \subseteq AllFields \ {"cuda_version"}
    BY <2>4, ScopeFacts
  <2>9. \A place \in steady : place[1] \in DOMAIN core' => core'[place[1]].device = place[2]
    BY <2>4, <2>6
  <2>10. \A place \in steady : place[1] \in DOMAIN second' => second'[place[1]].device = place[2]
    BY <2>1 DEF SmiRows
  <2> QED BY <2>1, <2>4, <2>5, <2>7, <2>8, <2>9, <2>10 DEF SmiRows, Running
<1>3. CASE Verdict
  BY <1>3 DEF Verdict, End, Return, SmiRows
<1>4. CASE RunSecond
  <2> DEFINE scope == IF op = "sample" THEN "gpu.throttle.row" ELSE "gpu.compute.row"
             key == <<System, Beside>>
  <2>1. /\ phase = "second" /\ op # "none" /\ op' = op /\ core' = core
        /\ phase' \in {"rows", "banner"}
        /\ Query({Beside}, key, scope, second')
    BY <1>4 DEF RunSecond, operationVars, SmiPlaced
  <2>2. scope \in RunScopes /\ key \in Keys /\ key[2] \notin RunScopes /\ bus \in Buses
    BY ScopeFacts DEF SmiPlaced
  <2> HIDE DEF scope, key
  <2>3. QueryEffect({Beside}, key, scope, second')
    BY <2>1, <2>2, QueryFacts
  <2>4. /\ UNCHANGED steady /\ DOMAIN why \subseteq DOMAIN why'
        /\ \A i \in DOMAIN second' : i \in DOMAIN bus /\ second'[i].device = bus[i]
    BY <2>3 DEF QueryEffect
  <2>5. \A place \in steady : place[1] \in DOMAIN bus /\ bus[place[1]] = place[2]
    BY DEF SmiPlaced, Places
  <2>6. Excused => Excused'
    BY <2>4 DEF Excused
  <2> QED BY <2>1, <2>4, <2>5, <2>6 DEF SmiRows, Running
<1>5. CASE RunBanner
  <2>1. /\ phase = "banner" /\ op' = op /\ phase' = "rows"
        /\ UNCHANGED <<steady, core, second>>
    BY <1>5 DEF RunBanner, operationVars, Fault
  <2>2. DOMAIN why \subseteq DOMAIN why'
    BY <1>5 DEF RunBanner, reasonVars, Assign, Put
  <2>3. Excused => Excused'
    BY <2>2 DEF Excused
  <2> QED BY <2>1, <2>3 DEF SmiRows, Running
<1>6. CASE Join
  <2>1. UNCHANGED core /\ op' = "none"
    BY <1>6, JoinFacts DEF JoinEffect, Return
  <2> QED BY <2>1 DEF SmiRows
<1>7. CASE SmiEscape
  BY <1>7 DEF SmiEscape, Escape, SmiRows
<1> QED BY <1>1, <1>2, <1>3, <1>4, <1>5, <1>6, <1>7 DEF SmiNext

LEMMA SmiInvStep ==
    ASSUME SmiInv, SmiNext
    PROVE  SmiInv'
BY SmiPlacedStep, SmiToldStep, SmiRowsStep DEF SmiInv

(***************************************************************************)
(* Its answers.                                                            *)
(***************************************************************************)
LEMMA VerdictIsHonest ==
    ASSUME SmiInv, Verdict
    PROVE  Promise!Answered
<1> USE DEF SmiInv
<1>1. /\ phase = "verdict" /\ op # "none" /\ UNCHANGED <<bus, steady, moves, failed>>
      /\ Return(NoRows, core # NoRows)
      /\ why' = IF core # NoRows THEN why
                ELSE Default({Gpu}, IF why = NoReasons THEN "no_nvidia_gpus" ELSE "malformed_csv")
  BY DEF Verdict, End, machineVars, SmiPlaced
<1>2. /\ op' = "none" /\ UNCHANGED ops
      /\ answer'.op = op /\ answer'.steady = steady /\ answer'.rows = NoRows
      /\ answer'.why = why' /\ answer'.failed = failed
  BY <1>1 DEF Return
<1>3. answer'.found <=> core # NoRows
  BY <1>1 DEF Return
<1>4. /\ DOMAIN why \subseteq DOMAIN why' /\ \A k \in DOMAIN why : why'[k] = why[k]
      /\ core = NoRows => Gpu \in DOMAIN why'
      /\ Gpu \in DOMAIN why' /\ Gpu \notin DOMAIN why /\ why'[Gpu] = "no_nvidia_gpus" =>
            why = NoReasons /\ core = NoRows
  BY <1>1 DEF Default, Put
<1>5. Gpu \in DOMAIN why => why[Gpu] # "no_nvidia_gpus"
  BY <1>1 DEF SmiTold
<1>6. core = NoRows => \A place \in steady : Excused
  BY <1>1, EmptyFacts DEF SmiRows
<1>7. Excused => Promise!Excuses(answer')
  BY <1>2, <1>4, <1>5, SameWords DEF Excused, Promise!Excuses
<1>8. op # "available" => core = NoRows
  BY <1>1 DEF SmiRows
<1>9. Promise!NobodyForgotten(answer')
  BY <1>2, <1>3, <1>6, <1>7, <1>8 DEF Promise!NobodyForgotten
<1>10. Promise!NoneMeansNone(answer')
  <2> SUFFICES ASSUME Gpu \in DOMAIN why', why'[Gpu] = "no_nvidia_gpus", NEW place \in steady
               PROVE  FALSE
    BY <1>2, SameWords DEF Promise!NoneMeansNone
  <2>1. why = NoReasons /\ core = NoRows
    BY <1>4, <1>5
  <2> QED BY <2>1, <1>6, EmptyFacts DEF Excused
<1>11. Promise!EmptyIsExplained(answer')
  BY <1>2, <1>3, <1>4, SameWords DEF Promise!EmptyIsExplained
<1>12. Promise!GapsAreExplained(answer') /\ Promise!RowsAreOfOne(answer')
  BY <1>2, EmptyFacts DEF Promise!GapsAreExplained, Promise!RowsAreOfOne
<1>13. Promise!CausesSurvive(answer')
  BY <1>1, <1>2, <1>4 DEF Promise!CausesSurvive, SmiTold
<1>14. Promise!Honest(answer')
  BY <1>9, <1>10, <1>11, <1>12, <1>13 DEF Promise!Honest
<1> QED BY <1>1, <1>2, <1>14 DEF Promise!Answered

LEMMA JoinIsHonest ==
    ASSUME SmiInv, Join
    PROVE  Promise!Answered
<1> USE DEF SmiInv
<1>1. PICK joined : JoinEffect(joined)
  BY JoinFacts
<1>2. /\ phase = "rows" /\ op # "none" /\ op # "available"
      /\ UNCHANGED <<bus, steady, moves, failed>>
      /\ Return(joined, TRUE) /\ DOMAIN joined = DOMAIN core
      /\ why' = Assign(Gaps(joined), "sensor_unsupported")
  BY <1>1 DEF JoinEffect, machineVars, SmiPlaced, Running
<1>3. /\ op' = "none" /\ UNCHANGED ops
      /\ answer'.op = op /\ answer'.steady = steady /\ answer'.rows = joined
      /\ answer'.why = why' /\ answer'.failed = failed /\ answer'.found
  BY <1>2 DEF Return
<1>4. \A i \in DOMAIN core : i \in Nat /\ i # System
  BY DEF SmiRows, System
<1>5. \A k \in Gaps(joined) : k[1] # System
  BY <1>2, <1>4 DEF Gaps
<1>6. /\ DOMAIN why' = Gaps(joined) \cup DOMAIN why
      /\ \A k \in DOMAIN why \ Gaps(joined) : why'[k] = why[k]
  BY <1>2 DEF Assign, Put
<1>7. Gpu[1] = System
  BY DEF Gpu
<1>8. Gpu \in DOMAIN why' => Gpu \in DOMAIN why /\ why'[Gpu] = why[Gpu] /\ why'[Gpu] # "no_nvidia_gpus"
  BY <1>2, <1>5, <1>6, <1>7 DEF SmiTold
<1>9. Promise!NobodyForgotten(answer')
  <2>1. Excused => Promise!Excuses(answer')
    BY <1>3, <1>6, <1>8, SameWords DEF Excused, Promise!Excuses
  <2>2. \A place \in steady : place[1] \in DOMAIN joined \/ Excused
    BY <1>2 DEF SmiRows
  <2> QED BY <1>2, <1>3, <2>1, <2>2 DEF Promise!NobodyForgotten
<1>10. Promise!NoneMeansNone(answer') /\ Promise!EmptyIsExplained(answer')
  BY <1>3, <1>8, SameWords DEF Promise!NoneMeansNone, Promise!EmptyIsExplained
<1>11. Promise!GapsAreExplained(answer')
  <2> SUFFICES ASSUME NEW i \in DOMAIN joined
               PROVE  /\ \A f \in joined[i].lost \ Text :
                            <<i, f>> \in DOMAIN why' \/ <<System, f>> \in DOMAIN why'
                      /\ \A f \in Fields(op) : <<i, f>> \in DOMAIN why' => f \in joined[i].lost
    BY <1>3, SameWords DEF Promise!GapsAreExplained
  <2>1. i \in DOMAIN core /\ i # System
    BY <1>2, <1>4
  <2>2. "cuda_version" \in joined[i].lost => <<System, "cuda_version">> \in DOMAIN why
    <3>1. "cuda_version" \notin core[i].lost
      BY <1>2, <2>1 DEF SmiRows
    <3>2. "cuda_version" \in joined[i].lost => ~banner
      BY <1>1, <2>1, <3>1 DEF JoinEffect
    <3> QED BY <1>2, <3>2 DEF SmiTold
  <2>3. \A f \in joined[i].lost \ {"cuda_version"} : <<i, f>> \in Gaps(joined)
    BY DEF Gaps
  <2>4. ASSUME NEW f, <<i, f>> \in Gaps(joined) PROVE f \in joined[i].lost
    <3>1. PICK j \in DOMAIN joined : <<i, f>> \in {<<j, g>> : g \in joined[j].lost \ {"cuda_version"}}
      BY <2>4 DEF Gaps
    <3> QED BY <3>1
  <2>5. ASSUME NEW f \in Fields(op), <<i, f>> \in DOMAIN why PROVE FALSE
    <3>1. f \in RunScopes
      BY <1>2, <2>1, <2>5 DEF SmiTold
    <3> QED BY <3>1, FieldNames DEF RunScopes, NoFields
  <2> QED BY <1>6, <2>2, <2>3, <2>4, <2>5
<1>12. Promise!CausesSurvive(answer')
  <2>1. ASSUME NEW k \in failed PROVE k \in DOMAIN why' /\ why'[k] = "call_failed"
    <3>1. k \in DOMAIN why /\ why[k] = "call_failed" /\ k[1] = System
      BY <1>2, <2>1 DEF SmiTold
    <3> QED BY <1>5, <1>6, <3>1
  <2> QED BY <1>3, <2>1 DEF Promise!CausesSurvive
<1>13. Promise!RowsAreOfOne(answer')
  <2> SUFFICES ASSUME NEW place \in steady, place[1] \in DOMAIN joined
               PROVE  {joined[place[1]].device, joined[place[1]].beside} \subseteq {place[2], Nobody}
    BY <1>3, SameWords DEF Promise!RowsAreOfOne
  <2>1. /\ joined[place[1]].device = core[place[1]].device
        /\ \/ joined[place[1]].beside = Nobody
           \/ /\ place[1] \in DOMAIN second
              /\ joined[place[1]].beside = second[place[1]].device
    BY <1>1, <1>2 DEF JoinEffect
  <2>2. /\ core[place[1]].device = place[2]
        /\ place[1] \in DOMAIN second => second[place[1]].device = place[2]
    BY <1>2 DEF SmiRows
  <2> QED BY <2>1, <2>2
<1>14. Promise!Honest(answer')
  BY <1>9, <1>10, <1>11, <1>12, <1>13 DEF Promise!Honest
<1> QED BY <1>2, <1>3, <1>14 DEF Promise!Answered

LEMMA SmiKeepsPromise ==
    ASSUME SmiInv, SmiNext
    PROVE  Promise!BackendNext \/ UNCHANGED promiseVars
<1>1. CASE SmiBegin
  <2>1. op = "none" /\ ops < MaxOps /\ op' \in Operations /\ steady' = Places(bus)
    BY <1>1 DEF SmiBegin, Begin, BeginWith
  <2>2. answer' = Nothing /\ ops' = ops + 1 /\ UNCHANGED <<bus, moves>>
    BY <1>1 DEF SmiBegin, Begin, BeginWith
  <2> QED BY <2>1, <2>2, SameWords DEF Promise!BackendNext, Promise!Asked
<1>2. CASE RunCore \/ RunSecond \/ RunBanner
  BY <1>2 DEF RunCore, RunSecond, RunBanner, Query, Fault, operationVars, promiseVars
<1>3. CASE Verdict
  BY <1>3, VerdictIsHonest DEF Promise!BackendNext
<1>4. CASE Join
  BY <1>4, JoinIsHonest DEF Promise!BackendNext
<1>5. CASE SmiEscape
  <2>1. UNCHANGED <<bus, steady, moves, answer, ops>> /\ op # "none" /\ op' = "none"
    BY <1>5 DEF SmiEscape, Escape, Fault
  <2> QED BY <2>1 DEF Promise!BackendNext, Promise!GaveUp
<1> QED BY <1>1, <1>2, <1>3, <1>4, <1>5 DEF SmiNext

(***************************************************************************)
(* Calm operations of the nvidia-smi reader.                               *)
(***************************************************************************)
\* Every run saw all the devices, and all of each.
Whole(run) == DOMAIN run = DOMAIN bus /\ \A i \in DOMAIN run : run[i].lost = {}
SmiCalm ==
    calm /\ op # "none" =>
        /\ steady = Places(bus) /\ DOMAIN why = {} /\ banner
        /\ phase # "core" => Whole(core) /\ (core # NoRows => DOMAIN core # {})
        /\ phase \in {"banner", "rows"} => Whole(second)

\* A run that was printed as it should be.
LEMMA QueryCalm ==
    ASSUME bus \in Buses, NEW fields, NEW key, NEW scope, NEW result,
           Query(fields, key, scope, result), calm'
    PROVE  /\ calm /\ DOMAIN why' = DOMAIN why /\ UNCHANGED <<bus, steady>>
           /\ Whole(result)
<1>0. UNCHANGED <<bus, steady>>
  BY DEF Query, Fault
<1>1. PICK oddities \in OddSets(fields) :
          /\ Fault(Cardinality(oddities))
          /\ why' = LeftOut(IF \E i \in DOMAIN bus : <<i, "malformed">> \in oddities
                            THEN Default({key}, "malformed_csv") ELSE why, oddities, scope)
          /\ result = ByIndex(oddities)
  <2>1. ~Fault(1)
    BY FaultEndsCalm
  <2> QED BY <2>1 DEF Query
<1>2. calm /\ Cardinality(oddities) = 0
  BY <1>1, FaultEndsCalm
<1>3. oddities = {}
  <2>1. IsFiniteSet(oddities)
    <3>1. CASE oddities = {}
      BY <3>1, FS_EmptySet
    <3>2. ASSUME NEW a, NEW b, oddities = {a, b} PROVE IsFiniteSet(oddities)
      <4>1. IsFiniteSet({a}) /\ {a} \cup {b} = {a, b}
        BY FS_Singleton
      <4> QED BY <3>2, <4>1, FS_AddElement
    <3>3. oddities = {} \/ \E a, b \in Odd(fields) : oddities = {a, b}
      BY DEF OddSets
    <3> QED BY <3>1, <3>2, <3>3
  <2> QED BY <1>2, <2>1, FS_EmptySet
<1>4. why' = LeftOut(why, {}, scope) /\ result = ByIndex({})
  BY <1>1, <1>3
<1>5. \A i \in DOMAIN bus : i \in Nat /\ i # NoIndex
  BY BusFacts DEF NoIndex
<1>6. Parsed({}) = (DOMAIN bus) \X {1}
  <2>1. \A line \in Parsed({}) : line \in (DOMAIN bus) \X {1, 2} /\ line[2] # 2
    BY DEF Parsed
  <2>2. (DOMAIN bus) \X {1} \subseteq Parsed({})
    BY DEF Parsed
  <2> QED BY <2>1, <2>2
<1>7. \A line \in Parsed({}) : Index(line, {}) = line[1]
  BY <1>6 DEF Index, Row
<1>8. Firsts({}) = Parsed({})
  <2>1. ASSUME NEW line \in Parsed({}), NEW other \in Parsed({}), Before(other, line)
        PROVE  Index(other, {}) # Index(line, {})
    BY <1>5, <1>6, <1>7, <2>1 DEF Before
  <2>2. \A line \in Parsed({}) : Index(line, {}) # NoIndex
    BY <1>5, <1>6, <1>7
  <2> QED BY <2>1, <2>2 DEF Firsts
<1>9. {line[1] : line \in Firsts({})} = DOMAIN bus
  <2>1. \A i \in DOMAIN bus : <<i, 1>> \in Firsts({}) /\ <<i, 1>>[1] = i
    BY <1>6, <1>8
  <2>2. \A line \in Firsts({}) : line[1] \in DOMAIN bus
    BY <1>6, <1>8
  <2> QED BY <2>1, <2>2
<1>10. Whole(ByIndex({}))
  <2>1. DOMAIN ByIndex({}) = DOMAIN bus
    BY <1>9 DEF ByIndex
  <2>2. \A i \in DOMAIN bus : ByIndex({})[i].lost = {}
    BY <1>9 DEF ByIndex, Row
  <2> QED BY <2>1, <2>2 DEF Whole
<1>11. \A r : RowKeys({}, {}, r) = {}
  BY DEF RowKeys
<1>12. DOMAIN LeftOut(why, {}, scope) = DOMAIN why
  <2> DEFINE unindexed == {line \in Parsed({}) : Index(line, {}) = NoIndex}
             again == (Parsed({}) \ Firsts({})) \ unindexed
  <2>1. unindexed = {} /\ again = {}
    BY <1>5, <1>6, <1>7, <1>8
  <2>2. LeftOut(why, {}, scope) =
            Put(Put(why, RowKeys(unindexed, {}, scope), "malformed_value"),
                RowKeys(again, {}, scope), "duplicate_gpu_index")
    BY DEF LeftOut
  <2> HIDE DEF unindexed, again
  <2>3. LeftOut(why, {}, scope) = Put(Put(why, {}, "malformed_value"), {}, "duplicate_gpu_index")
    BY <1>11, <2>1, <2>2
  <2>4. \A r, s : DOMAIN Put(r, {}, s) = DOMAIN r
    BY DEF Put
  <2> QED BY <2>3, <2>4
<1> QED BY <1>0, <1>2, <1>4, <1>10, <1>12

LEMMA SmiCalmStep ==
    ASSUME SmiInv, SmiCalm, SmiNext
    PROVE  SmiCalm'
<1> SUFFICES ASSUME calm', op' # "none"
             PROVE  SmiCalm'
  BY Zenon DEF SmiCalm
<1>0. SmiPlaced /\ bus \in Buses
  BY DEF SmiInv, SmiPlaced
<1>01. ASSUME calm, op # "none"
       PROVE  /\ steady = Places(bus) /\ DOMAIN why = {} /\ banner
              /\ phase # "core" => Whole(core) /\ (core # NoRows => DOMAIN core # {})
              /\ phase \in {"banner", "rows"} => Whole(second)
  BY <1>01, Zenon DEF SmiCalm
<1>1. CASE SmiBegin
  <2>1. /\ steady' = Places(bus') /\ phase' = "core" /\ DOMAIN why' = {} /\ banner' = TRUE
    BY <1>1, EmptyFacts DEF SmiBegin, Begin, BeginWith
  <2> QED BY <2>1 DEF SmiCalm
<1>2. CASE RunCore
  <2>1. /\ phase = "core" /\ op # "none" /\ UNCHANGED <<second, banner>>
        /\ Query(CoreFields, Gpu, CoreScope, core')
        /\ phase' \in {"verdict", "second"}
    BY <1>2, <1>0 DEF RunCore, SmiPlaced
  <2>2. calm /\ DOMAIN why' = DOMAIN why /\ UNCHANGED <<bus, steady>>
    BY <1>0, <2>1, QueryCalm
  <2>3. DOMAIN core' = DOMAIN bus /\ \A i \in DOMAIN core' : core'[i].lost = {}
    BY <1>0, <2>1, QueryCalm DEF Whole
  <2>4. core' # NoRows => DOMAIN core' # {}
    <3>1. QueryEffect(CoreFields, Gpu, CoreScope, core')
      BY <1>0, <2>1, QueryFacts, ScopeFacts
    <3> QED BY <3>1 DEF QueryEffect
  <2>5. Whole(core)'
    BY <2>2, <2>3 DEF Whole
  <2> QED BY <1>01, <2>1, <2>2, <2>4, <2>5 DEF SmiCalm
<1>3. CASE Verdict \/ Join \/ SmiEscape
  BY <1>3 DEF Verdict, End, Join, Build, SmiEscape, Return, Escape
<1>4. CASE RunSecond
  <2>1. /\ phase = "second" /\ op # "none" /\ UNCHANGED <<core, banner>>
        /\ \E key, scope : Query({Beside}, key, scope, second')
        /\ phase' \in {"rows", "banner"}
    BY <1>4, <1>0 DEF RunSecond, SmiPlaced
  <2>2. /\ calm /\ DOMAIN why' = DOMAIN why /\ UNCHANGED <<bus, steady>>
        /\ DOMAIN second' = DOMAIN bus /\ \A i \in DOMAIN second' : second'[i].lost = {}
    BY <1>0, <2>1, QueryCalm DEF Whole
  <2>3. Whole(second)' /\ (Whole(core) => Whole(core)')
    BY <2>1, <2>2 DEF Whole
  <2> QED BY <1>01, <2>1, <2>2, <2>3 DEF SmiCalm
<1>5. CASE RunBanner
  <2>1. /\ phase = "banner" /\ phase' = "rows" /\ op # "none" /\ UNCHANGED <<core, second>>
        /\ \/ Fault(0) /\ banner' = TRUE /\ UNCHANGED reasonVars
           \/ Fault(1)
    BY <1>5, <1>0 DEF RunBanner, SmiPlaced
  <2>2. Fault(0) /\ banner' = TRUE /\ UNCHANGED reasonVars
    BY <2>1, FaultEndsCalm
  <2>3. calm /\ UNCHANGED <<bus, steady, why>>
    BY <2>2, FaultEndsCalm DEF Fault, reasonVars
  <2>4. (Whole(core) => Whole(core)') /\ (Whole(second) => Whole(second)')
    BY <2>1, <2>3 DEF Whole
  <2> QED BY <1>01, <2>1, <2>2, <2>3, <2>4 DEF SmiCalm
<1> QED BY <1>1, <1>2, <1>3, <1>4, <1>5 DEF SmiNext

LEMMA SmiAnswers ==
    ASSUME SmiInv, SmiCalm, SmiNext
    PROVE  UNCHANGED answer \/ answer' = Nothing \/ Lingers(answer')
<1>1. CASE SmiBegin
  BY <1>1 DEF SmiBegin, Begin, BeginWith
<1>2. CASE RunCore \/ RunSecond \/ RunBanner \/ SmiEscape
  BY <1>2 DEF RunCore, RunSecond, RunBanner, SmiEscape, Escape, operationVars
<1>3. CASE Verdict
  <2>1. /\ phase = "verdict" /\ op # "none" /\ UNCHANGED machineVars
        /\ Return(NoRows, core # NoRows)
        /\ why' = IF core # NoRows THEN why
                  ELSE Default({Gpu}, IF why = NoReasons THEN "no_nvidia_gpus" ELSE "malformed_csv")
    BY <1>3 DEF Verdict, End, SmiInv, SmiPlaced
  <2>2. /\ answer'.calm = calm /\ answer'.steady = steady /\ answer'.rows = NoRows
        /\ answer'.op = op /\ answer'.why = why'
    BY <2>1 DEF Return, machineVars
  <2>3. answer'.found <=> core # NoRows
    BY <2>1 DEF Return
  <2>4. SUFFICES ASSUME calm PROVE Lingers(answer')
    BY <2>2, Zenon DEF Lingers
  <2>5. /\ steady = Places(bus) /\ DOMAIN why = {}
        /\ Whole(core) /\ (core # NoRows => DOMAIN core # {})
    <3>1. /\ steady = Places(bus) /\ DOMAIN why = {}
          /\ phase # "core" => Whole(core) /\ (core # NoRows => DOMAIN core # {})
      BY <2>1, <2>4, Zenon DEF SmiCalm
    <3> QED BY <2>1, <3>1
  <2>6. core # NoRows <=> steady # {}
    BY <2>5, EmptyFacts, PlacesFacts DEF Whole
  <2>7. op # "available" => core = NoRows
    BY <2>1 DEF SmiInv, SmiRows
  <2>8. op # "available" => DOMAIN NoRows = {place[1] : place \in steady}
    BY <2>6, <2>7, EmptyFacts
  <2>9. \A k \in DOMAIN why' : IF core # NoRows THEN k[2] = Blank ELSE k = Gpu
    BY <2>1, <2>5 DEF Default, Put
  <2> QED BY <2>2, <2>3, <2>6, <2>8, <2>9, EmptyFacts DEF Lingers
<1>4. CASE Join
  <2>1. PICK joined : JoinEffect(joined)
    BY <1>4, JoinFacts
  <2>2. /\ phase = "rows" /\ op # "none" /\ UNCHANGED machineVars
        /\ Return(joined, TRUE) /\ DOMAIN joined = DOMAIN core
        /\ why' = Assign(Gaps(joined), "sensor_unsupported")
    BY <2>1 DEF JoinEffect, SmiInv, SmiPlaced
  <2>3. /\ answer'.calm = calm /\ answer'.steady = steady /\ answer'.rows = joined
        /\ answer'.op = op /\ answer'.why = why' /\ answer'.found
    BY <2>2 DEF Return, machineVars
  <2>4. SUFFICES ASSUME calm PROVE Lingers(answer')
    BY <2>3, Zenon DEF Lingers
  <2>5. /\ steady = Places(bus) /\ DOMAIN why = {} /\ banner
        /\ Whole(core) /\ (core # NoRows => DOMAIN core # {}) /\ Whole(second)
    <3>1. /\ steady = Places(bus) /\ DOMAIN why = {} /\ banner
          /\ phase # "core" => Whole(core) /\ (core # NoRows => DOMAIN core # {})
          /\ phase \in {"banner", "rows"} => Whole(second)
      BY <2>2, <2>4, Zenon DEF SmiCalm
    <3> QED BY <2>2, <3>1
  <2>6. \A i \in DOMAIN joined : joined[i].lost = {}
    BY <2>1, <2>2, <2>5 DEF JoinEffect, Whole
  <2>7. DOMAIN why' = {}
    <3>1. Gaps(joined) = {}
      BY <2>6 DEF Gaps
    <3> QED BY <2>2, <2>5, <3>1 DEF Assign, Put
  <2>8. DOMAIN joined = {place[1] : place \in steady} /\ steady # {}
    <3>1. core # NoRows
      BY <2>2 DEF SmiInv, SmiRows, Running
    <3> QED BY <2>2, <2>5, <3>1, PlacesFacts DEF Whole
  <2> QED BY <2>3, <2>6, <2>7, <2>8 DEF Lingers
<1> QED BY <1>1, <1>2, <1>3, <1>4 DEF SmiNext

(***************************************************************************)
(* The null reader.                                                        *)
(***************************************************************************)
NullInv ==
    /\ bus \in Buses /\ steady \subseteq Places(bus)
    /\ op \in Operations \cup {"none"}
    /\ DOMAIN why \subseteq Keys
    /\ op # "none" => failed = {}

LEMMA NullInvStep ==
    ASSUME NullInv, NullBegin \/ NullAnswer
    PROVE  NullInv'
<1>1. CASE NullBegin
  BY <1>1, EmptyFacts DEF NullBegin, Begin, BeginWith, NullInv
<1>2. CASE NullAnswer
  BY <1>2, EmptyFacts, PutFacts, KeyFacts DEF NullAnswer, Return, machineVars, NullInv, Put
<1> QED BY <1>1, <1>2

LEMMA NullKeepsPromise ==
    ASSUME NullInv, NullBegin \/ NullAnswer
    PROVE  Promise!BackendNext \/ UNCHANGED promiseVars
<1>1. CASE NullBegin
  <2>1. op = "none" /\ ops < MaxOps /\ op' \in Operations /\ steady' = Places(bus)
    BY <1>1 DEF NullBegin, Begin, BeginWith
  <2>2. answer' = Nothing /\ ops' = ops + 1 /\ UNCHANGED <<bus, moves>>
    BY <1>1 DEF NullBegin, Begin, BeginWith
  <2> QED BY <2>1, <2>2, SameWords DEF Promise!BackendNext, Promise!Asked
<1>2. CASE NullAnswer
  <2>1. /\ op # "none" /\ op' = "none" /\ UNCHANGED <<bus, steady, moves, ops>> /\ failed' = {}
        /\ answer'.op = op /\ answer'.steady = steady /\ answer'.rows = NoRows
        /\ answer'.why = why' /\ answer'.failed = failed'
    BY <1>2 DEF NullAnswer, Return, machineVars, NullInv
  <2>2. Gpu \in DOMAIN why' /\ why'[Gpu] # "no_nvidia_gpus"
    BY <1>2 DEF NullAnswer, Put
  <2>3. Promise!Honest(answer')
    BY <2>1, <2>2, EmptyFacts, ExcuseIsHonest
  <2> QED BY <2>1, <2>3 DEF Promise!BackendNext, Promise!Answered
<1> QED BY <1>1, <1>2

(***************************************************************************)
(* Any reader.                                                             *)
(***************************************************************************)
GpuInv ==
    /\ bus \in Buses /\ steady \subseteq Places(bus)
    /\ backend = "pynvml" => NvmlInv
    /\ backend = "nvidia-smi" => SmiInv
    /\ backend = "null" => NullInv

LEMMA GpuInvInit == ReadersInit => GpuInv
<1>1. ReadersInit => bus \in Buses /\ steady = {} /\ op = "none" /\ why = NoReasons
  BY DEF ReadersInit, Init
<1> QED BY <1>1, NvmlInvInit, SmiInvInit, EmptyFacts DEF GpuInv, NullInv

LEMMA MoveFacts ==
    ASSUME Move, bus \in Buses, steady \subseteq Places(bus)
    PROVE  /\ bus' \in Buses /\ steady' = steady \cap Places(bus')
           /\ steady' \subseteq Places(bus') /\ steady' \subseteq steady
           /\ moves < MaxMoves /\ moves' = moves + 1
           /\ UNCHANGED <<op, answer, ops, why, failed>>
BY DEF Move, operationVars, reasonVars

LEMMA GpuInvStep ==
    ASSUME GpuInv, [Next]_vars
    PROVE  GpuInv'
<1>1. CASE backend = "pynvml" /\ NvmlNext /\ UNCHANGED backend
  <2>1. NvmlInv'
    BY <1>1, NvmlInvStep DEF GpuInv
  <2> QED BY <1>1, <2>1 DEF GpuInv, NvmlInv, Placed
<1>2. CASE backend = "nvidia-smi" /\ SmiNext /\ UNCHANGED backend
  <2>1. SmiInv'
    BY <1>2, SmiInvStep DEF GpuInv
  <2> QED BY <1>2, <2>1 DEF GpuInv, SmiInv, SmiPlaced
<1>3. CASE backend = "null" /\ (NullBegin \/ NullAnswer) /\ UNCHANGED backend
  <2>1. NullInv'
    BY <1>3, NullInvStep DEF GpuInv
  <2> QED BY <1>3, <2>1 DEF GpuInv, NullInv
<1>4. CASE Move /\ UNCHANGED <<backend, nvmlVars, smiVars>>
  <2>1. /\ bus' \in Buses /\ steady' \subseteq Places(bus') /\ steady' \subseteq steady
        /\ UNCHANGED <<op, why, failed>>
    BY <1>4, MoveFacts DEF GpuInv
  <2>2. UNCHANGED backend /\ UNCHANGED nvmlVars /\ UNCHANGED smiVars
    BY <1>4
  <2>3. NvmlInv => NvmlInv'
    BY <2>1, <2>2, NvmlInvKept
  <2>4. SmiInv => SmiInv'
    BY <2>1, <2>2, SmiInvKept
  <2>5. NullInv => NullInv'
    BY <2>1 DEF NullInv
  <2> QED BY <2>1, <2>2, <2>3, <2>4, <2>5 DEF GpuInv
<1>5. CASE UNCHANGED vars
  <2>1. UNCHANGED <<backend, bus, steady, op, why, failed>> /\ UNCHANGED nvmlVars /\ UNCHANGED smiVars
    BY <1>5 DEF vars, machineVars, operationVars, reasonVars
  <2>2. NvmlInv => NvmlInv'
    BY <2>1, NvmlInvKept DEF GpuInv
  <2>3. SmiInv => SmiInv'
    BY <2>1, SmiInvKept DEF GpuInv
  <2>4. NullInv => NullInv'
    BY <2>1 DEF NullInv
  <2> QED BY <2>1, <2>2, <2>3, <2>4 DEF GpuInv
<1> QED BY <1>1, <1>2, <1>3, <1>4, <1>5 DEF Next

LEMMA PromiseStep ==
    ASSUME GpuInv, [Next]_vars
    PROVE  [Promise!BackendNext]_promiseVars
<1>1. CASE backend = "pynvml" /\ NvmlNext
  BY <1>1, NvmlKeepsPromise DEF GpuInv, NvmlInv
<1>2. CASE backend = "nvidia-smi" /\ SmiNext
  BY <1>2, SmiKeepsPromise DEF GpuInv
<1>3. CASE backend = "null" /\ (NullBegin \/ NullAnswer)
  BY <1>3, NullKeepsPromise DEF GpuInv
<1>4. CASE Move
  BY <1>4, MoveFacts, SameWords DEF GpuInv, Promise!BackendNext, Promise!BackendMove
<1>5. CASE UNCHANGED vars
  BY <1>5 DEF vars, machineVars, operationVars, promiseVars
<1> QED BY <1>1, <1>2, <1>3, <1>4, <1>5 DEF Next

(***************************************************************************)
(* Whichever reader is in use, whatever fails and however the devices move *)
(* while it asks: nobody who was there is forgotten, "there are none" is   *)
(* not said of devices that were there, a missing value has a reason and a *)
(* failure keeps its own, and a row is of one device (sample, static_info  *)
(* and available of nvml.py, nvidia.py and NullGpuReader).                 *)
(***************************************************************************)
THEOREM ReadersKeepThePromise == Spec => ImplementsBackend
<1>1. ReadersInit => Promise!BackendInit
  BY SameWords DEF ReadersInit, Init, Promise!BackendInit
<1> QED BY <1>1, GpuInvInit, GpuInvStep, PromiseStep, PTL
        DEF Spec, ImplementsBackend, Promise!BackendSpec, promiseVars

(***************************************************************************)
(* The types, and calm operations of any reader.                           *)
(***************************************************************************)
\* The reader that is not in use rests.
Idle ==
    /\ backend \in {"pynvml", "nvidia-smi", "null"}
    /\ backend # "pynvml" => subject = System /\ lost = {}
    /\ backend # "nvidia-smi" => core = NoRows

CalmInv ==
    /\ backend = "pynvml" => NvmlCalm
    /\ backend = "nvidia-smi" => SmiCalm
    /\ FailuresDoNotLinger

LEMMA IdleInit == ReadersInit => Idle
BY DEF ReadersInit, NvmlInit, SmiInit, Chosen, Idle

LEMMA IdleStep ==
    ASSUME Idle, [Next]_vars
    PROVE  Idle'
<1>1. CASE backend = "pynvml" /\ UNCHANGED <<backend, smiVars>>
  BY <1>1 DEF Idle, smiVars
<1>2. CASE backend = "nvidia-smi" /\ UNCHANGED <<backend, nvmlVars>>
  BY <1>2 DEF Idle, nvmlVars, visitVars
<1>3. CASE UNCHANGED <<backend, nvmlVars, smiVars>>
  BY <1>3 DEF Idle, nvmlVars, visitVars, smiVars
<1> QED BY <1>1, <1>2, <1>3 DEF Next, vars

(***************************************************************************)
(* The variables keep their types, whichever reader is in use.             *)
(***************************************************************************)
THEOREM TypeCorrect == Spec => []GpuTypeOK
<1>1. ASSUME GpuInv, Idle PROVE GpuTypeOK
  <2>1. bus \in Buses
    BY <1>1 DEF GpuInv
  <2>2. op \in Operations \cup {"none"} /\ \A k \in DOMAIN why : k \in Keys
    BY <1>1 DEF GpuInv, Idle, NvmlInv, SmiInv, NullInv, Placed, SmiPlaced, Told, SmiTold
  <2>3. (subject < count \/ subject = System) /\ lost \subseteq AllFields
    BY <1>1 DEF GpuInv, Idle, NvmlInv, Placed, LostGood
  <2>4. \A i \in DOMAIN core : core[i].device \in Devices /\ i # NoIndex
    <3>1. CASE backend = "nvidia-smi"
      BY <1>1, <3>1 DEF GpuInv, SmiInv, SmiRows, NoIndex
    <3>2. CASE backend # "nvidia-smi"
      BY <1>1, <3>2, EmptyFacts DEF Idle
    <3> QED BY <3>1, <3>2
  <2> QED BY <2>1, <2>2, <2>3, <2>4 DEF GpuTypeOK, AllFields
<1> QED BY <1>1, GpuInvInit, GpuInvStep, IdleInit, IdleStep, PTL DEF Spec

LEMMA CalmInvInit == ReadersInit => CalmInv
<1>1. ReadersInit => op = "none" /\ answer = Nothing
  BY DEF ReadersInit, Init
<1> QED BY <1>1 DEF CalmInv, NvmlCalm, SmiCalm, FailuresDoNotLinger

\* What an answer says does not change until the next.
LEMMA AnswerKept ==
    ASSUME FailuresDoNotLinger, UNCHANGED backend,
           UNCHANGED answer \/ answer' = Nothing \/ Lingers(answer')
    PROVE  FailuresDoNotLinger'
<1>1. CASE UNCHANGED answer
  BY <1>1 DEF FailuresDoNotLinger
<1>2. CASE answer' = Nothing
  BY <1>2 DEF FailuresDoNotLinger
<1>3. CASE Lingers(answer')
  BY <1>3 DEF FailuresDoNotLinger, Lingers, Blank
<1> QED BY <1>1, <1>2, <1>3

LEMMA CalmInvStep ==
    ASSUME GpuInv, Balance, CalmInv, [Next]_vars
    PROVE  CalmInv'
<1>1. CASE backend = "pynvml" /\ NvmlNext /\ UNCHANGED backend
  <2>1. NvmlCalm'
    BY <1>1, NvmlCalmStep DEF GpuInv, NvmlInv, CalmInv
  <2>2. UNCHANGED answer \/ answer' = Nothing \/ Lingers(answer')
    BY <1>1, NvmlAnswers DEF GpuInv, NvmlInv, CalmInv
  <2> QED BY <1>1, <2>1, <2>2, AnswerKept DEF CalmInv
<1>2. CASE backend = "nvidia-smi" /\ SmiNext /\ UNCHANGED backend
  <2>1. SmiCalm'
    BY <1>2, SmiCalmStep DEF GpuInv, CalmInv
  <2>2. UNCHANGED answer \/ answer' = Nothing \/ Lingers(answer')
    BY <1>2, SmiAnswers DEF GpuInv, CalmInv
  <2> QED BY <1>2, <2>1, <2>2, AnswerKept DEF CalmInv
<1>3. CASE backend = "null" /\ UNCHANGED backend
  BY <1>3 DEF CalmInv, FailuresDoNotLinger
<1>4. CASE Move /\ UNCHANGED <<backend, nvmlVars, smiVars>>
  <2>1. calm' = FALSE /\ UNCHANGED answer
    BY <1>4 DEF Move, operationVars
  <2> QED BY <1>4, <2>1, AnswerKept DEF CalmInv, NvmlCalm, SmiCalm
<1>5. CASE UNCHANGED vars
  <2>1. UNCHANGED <<backend, bus, steady, calm, op, why, answer>> /\ UNCHANGED nvmlVars
        /\ UNCHANGED smiVars
    BY <1>5 DEF vars, machineVars, operationVars, reasonVars
  <2>2. NvmlCalm => NvmlCalm'
    BY <2>1 DEF NvmlCalm, nvmlVars, libraryVars, visitVars, Visiting, Reached
  <2>3. SmiCalm => SmiCalm'
    BY <2>1 DEF SmiCalm, smiVars, Whole
  <2> QED BY <2>1, <2>2, <2>3, AnswerKept DEF CalmInv
<1> QED BY <1>1, <1>2, <1>3, <1>4, <1>5 DEF Next

(***************************************************************************)
(* An operation is answered as if it were the first: when nothing failed   *)
(* during it, every device is reported with every value the driver has,    *)
(* and no reason of an earlier call is told.                               *)
(***************************************************************************)
THEOREM EveryCallStartsAnew == Spec => []FailuresDoNotLinger
<1>1. CalmInv => FailuresDoNotLinger
  BY DEF CalmInv
<1> QED BY <1>1, BalanceInit, BalanceInductive, GpuInvInit, GpuInvStep, CalmInvInit,
           CalmInvStep, PTL DEF Spec
=============================================================================
