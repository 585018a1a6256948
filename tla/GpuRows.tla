------------------------------ MODULE GpuRows ------------------------------
(***************************************************************************)
(* The loops of collector.py that turn what a GPU reader returned into     *)
(* rows: _normalize_gpu_samples and _normalize_gpu_profiles.  One step is  *)
(* one iteration: a value that is no row, a sample whose index is no       *)
(* natural number and a second row of one device are left out under a      *)
(* reason of their position; a sample that is kept has its missing sensors *)
(* named by device.                                                        *)
(***************************************************************************)
EXTENDS Naturals, Sequences, FiniteSets

CONSTANTS Indexes,      \* device indexes a row may carry
          Sensors,      \* the measurements of a row
          MaxRows       \* bound: values a reader returns

ASSUME GpuRowsAssumption == Indexes \subseteq Nat /\ MaxRows \in Nat

Loops == {"sample", "profile"}
Valid == [index : Indexes, good : SUBSET Sensors]

\* Each loop's inputs; the index of a GpuProfile is checked where it is built.
NotARow == [bad |-> "type"]
NoIndex == [bad |-> "index"]
Values(l) == Valid \cup (IF l = "sample" THEN {NotARow, NoIndex} ELSE {NotARow})

VARIABLES loop, values, position, normalized, reasons

vars == <<loop, values, position, normalized, reasons>>

Init ==
    /\ loop \in Loops
    /\ values \in UNION {[1..n -> Values(loop)] : n \in 0..MaxRows}
    /\ position = 1
    /\ normalized = [i \in {} |-> NotARow]
    /\ reasons = {}

\* Keys of the reasons.
AtPosition(p) == [position |-> p]
OfSensor(i, s) == [device |-> i, sensor |-> s]

More == position <= Len(values)
Value == values[position]

Advance == position' = position + 1 /\ UNCHANGED <<loop, values>>

\* (Variant: only a value of another type gets a reason.)
SkipSilently ==
    /\ More
    /\ Value \in {NotARow, NoIndex}
    /\ reasons' = reasons \cup (IF Value = NoIndex THEN {} ELSE {AtPosition(position)})
    /\ UNCHANGED normalized
    /\ Advance

\* isinstance fails, or the index is not a natural number.
SkipMalformed ==
    /\ More
    /\ Value \in {NotARow, NoIndex}
    /\ reasons' = reasons \cup {AtPosition(position)}
    /\ UNCHANGED normalized
    /\ Advance

\* (Variant: the gaps of the row that is left out are named.)
SkipDuplicateLate ==
    /\ More
    /\ Value \in Valid
    /\ Value.index \in DOMAIN normalized
    /\ reasons' = reasons \cup {AtPosition(position)}
                          \cup {OfSensor(Value.index, s) : s \in Sensors \ Value.good}
    /\ UNCHANGED normalized
    /\ Advance

SkipDuplicate ==
    /\ More
    /\ Value \in Valid
    /\ Value.index \in DOMAIN normalized
    /\ reasons' = reasons \cup {AtPosition(position)}
    /\ UNCHANGED normalized
    /\ Advance

\* (Variant: what is kept already is not looked at.)
KeepAny ==
    /\ More
    /\ Value \in Valid
    /\ normalized' = [i \in DOMAIN normalized \cup {Value.index} |->
                        IF i = Value.index THEN [from |-> position, good |-> Value.good]
                        ELSE normalized[i]]
    /\ UNCHANGED reasons
    /\ Advance

Keep ==
    /\ More
    /\ Value \in Valid
    /\ Value.index \notin DOMAIN normalized
    /\ normalized' = [i \in DOMAIN normalized \cup {Value.index} |->
                        IF i = Value.index THEN [from |-> position, good |-> Value.good]
                        ELSE normalized[i]]
    /\ reasons' = IF loop = "sample"
                  THEN reasons \cup {OfSensor(Value.index, s) : s \in Sensors \ Value.good}
                  ELSE reasons
    /\ Advance

Next == SkipMalformed \/ SkipDuplicate \/ Keep

Spec == Init /\ [][Next]_vars

----------------------------------------------------------------------------
(* Properties.                                                             *)

Seen == 1..(position - 1)
KeptAt(p) == \E i \in DOMAIN normalized : normalized[i].from = p

\* Types of the variables.
TypeOK ==
    /\ loop \in Loops
    /\ values \in Seq(Values(loop))
    /\ position \in 1..(Len(values) + 1)
    /\ DOMAIN normalized \subseteq Indexes
    /\ \A i \in DOMAIN normalized : normalized[i] \in [from : Seen, good : SUBSET Sensors]

\* No value disappears: each one a loop has passed is kept or has a reason of
\* its own, and never both.
RowsAccounted == \A p \in Seen : KeptAt(p) <=> AtPosition(p) \notin reasons

\* A device is reported by the first row that names it, unchanged.
FirstRowWins ==
    \A p \in Seen : values[p] \in Valid =>
        LET i == values[p].index IN
        /\ i \in DOMAIN normalized
        /\ normalized[i].from <= p
        /\ normalized[i].from = p => normalized[i].good = values[p].good
        /\ values[normalized[i].from] \in Valid /\ values[normalized[i].from].index = i

\* The sensors named as missing are those the reported rows lack: a row that
\* was left out says nothing about the device.
GapsAreOfKeptRows ==
    loop = "sample" =>
        \A i \in Indexes, s \in Sensors :
            OfSensor(i, s) \in reasons
                <=> i \in DOMAIN normalized /\ s \notin normalized[i].good
=============================================================================
