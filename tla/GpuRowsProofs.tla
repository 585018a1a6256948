--------------------------- MODULE GpuRowsProofs ----------------------------
(***************************************************************************)
(* Proofs about the row loops of the collector for every set of devices    *)
(* and sensors and every list a reader may return.                         *)
(***************************************************************************)
EXTENDS GpuRows, TLAPS

\* Reasons of positions and of sensors are different keys.
LEMMA KeysDiffer ==
    /\ \A p, q : AtPosition(p) = AtPosition(q) => p = q
    /\ \A i, s, j, r : OfSensor(i, s) = OfSensor(j, r) => i = j /\ s = r
    /\ \A p, i, s : AtPosition(p) # OfSensor(i, s)
<1>1. ASSUME NEW p, NEW q, AtPosition(p) = AtPosition(q) PROVE p = q
  <2>1. AtPosition(p).position = p /\ AtPosition(q).position = q
    BY DEF AtPosition
  <2> QED BY <1>1, <2>1
<1>2. ASSUME NEW i, NEW s, NEW j, NEW r, OfSensor(i, s) = OfSensor(j, r) PROVE i = j /\ s = r
  <2>1. /\ OfSensor(i, s).device = i /\ OfSensor(j, r).device = j
        /\ OfSensor(i, s).sensor = s /\ OfSensor(j, r).sensor = r
    BY DEF OfSensor
  <2> QED BY <1>2, <2>1
<1>3. ASSUME NEW p, NEW i, NEW s PROVE AtPosition(p) # OfSensor(i, s)
  <2>1. "position" \in DOMAIN AtPosition(p) /\ "position" \notin DOMAIN OfSensor(i, s)
    BY DEF AtPosition, OfSensor
  <2> QED BY <2>1
<1> QED BY <1>1, <1>2, <1>3

\* A row is none of the values a loop leaves out as malformed.
LEMMA RowsDiffer == ASSUME NEW v \in Valid PROVE v \notin {NotARow, NoIndex}
<1>1. "bad" \notin DOMAIN v
  BY DEF Valid
<1>2. "bad" \in DOMAIN NotARow /\ "bad" \in DOMAIN NoIndex
  BY DEF NotARow, NoIndex
<1> QED BY <1>1, <1>2

\* The types of the variables are as declared.
THEOREM RowsTyped == Spec => []TypeOK
<1>1. Init => TypeOK
  <2> SUFFICES ASSUME Init PROVE TypeOK
    OBVIOUS
  <2>1. PICK n \in 0..MaxRows : values \in [1..n -> Values(loop)]
    BY Zenon DEF Init
  <2>2. n \in Nat
    BY <2>1, GpuRowsAssumption
  <2>3. values \in Seq(Values(loop)) /\ Len(values) \in Nat
    BY <2>1, <2>2
  <2>4. DOMAIN normalized = {} /\ position = 1 /\ loop \in Loops
    BY DEF Init
  <2> QED BY <2>3, <2>4 DEF TypeOK
<1>2. TypeOK /\ [Next]_vars => TypeOK'
  <2> SUFFICES ASSUME TypeOK, [Next]_vars PROVE TypeOK'
    OBVIOUS
  <2>1. ASSUME More, Advance
        PROVE  /\ loop' \in Loops /\ values' \in Seq(Values(loop'))
               /\ position \in Nat \ {0} /\ position' = position + 1
               /\ position' \in 1..(Len(values') + 1) /\ Seen' = Seen \cup {position}
    <3>1. /\ loop' = loop /\ values' = values /\ position' = position + 1
          /\ values \in Seq(Values(loop)) /\ Len(values) \in Nat
          /\ position \in 1..(Len(values) + 1) /\ position <= Len(values)
      BY <2>1 DEF Advance, More, TypeOK
    <3>2. loop' \in Loops /\ values' \in Seq(Values(loop'))
      BY <3>1 DEF TypeOK
    <3> QED BY <3>1, <3>2 DEF Seen
  <2>2. ASSUME More, Advance, UNCHANGED normalized PROVE TypeOK'
    BY <2>1, <2>2 DEF TypeOK
  <2>3. ASSUME Keep PROVE TypeOK'
    <3>1. Value.index \in Indexes /\ Value.good \in SUBSET Sensors
      BY <2>3 DEF Keep, Valid
    <3>2. position \in Seen'
      BY <2>1, <2>3 DEF Keep
    <3>3. DOMAIN normalized' \subseteq Indexes
      BY <2>3, <3>1 DEF Keep, TypeOK
    <3>4. ASSUME NEW i \in DOMAIN normalized'
          PROVE  normalized'[i] \in [from : Seen', good : SUBSET Sensors]
      <4>1. CASE i = Value.index
        <5>1. normalized'[i] = [from |-> position, good |-> Value.good]
          BY <2>3, <4>1 DEF Keep
        <5> QED BY <3>1, <3>2, <5>1
      <4>2. CASE i # Value.index
        <5>1. i \in DOMAIN normalized /\ normalized'[i] = normalized[i]
          BY <2>3, <3>4, <4>2 DEF Keep
        <5>2. normalized[i] \in [from : Seen, good : SUBSET Sensors]
          BY <5>1 DEF TypeOK
        <5>3. Seen \subseteq Seen'
          BY <2>1, <2>3 DEF Keep
        <5> QED BY <5>1, <5>2, <5>3
      <4> QED BY <4>1, <4>2
    <3> QED BY <2>1, <2>3, <3>3, <3>4 DEF Keep, TypeOK
  <2>4. CASE UNCHANGED vars
    BY <2>4 DEF vars, TypeOK, Seen
  <2> QED BY <2>2, <2>3, <2>4 DEF Next, SkipMalformed, SkipDuplicate
<1> QED BY <1>1, <1>2, PTL DEF Spec

\* What one iteration does to the position.
LEMMA AdvanceFacts ==
    ASSUME TypeOK, More, Advance
    PROVE  /\ position \in Nat /\ position \notin Seen /\ Seen' = Seen \cup {position}
           /\ Seen \subseteq Nat /\ position \in 1..Len(values)
           /\ values' = values /\ loop' = loop
           /\ \A p \in Seen : p < position
<1>1. /\ loop' = loop /\ values' = values /\ position' = position + 1
      /\ values \in Seq(Values(loop)) /\ Len(values) \in Nat
      /\ position \in 1..(Len(values) + 1) /\ position <= Len(values)
  BY DEF Advance, More, TypeOK
<1> QED BY <1>1 DEF Seen

\* What keeping a row does to the rows.
LEMMA KeepFacts ==
    ASSUME Keep
    PROVE  /\ Value \in Valid /\ Value.index \notin DOMAIN normalized /\ Value.index \in Indexes
           /\ DOMAIN normalized' = DOMAIN normalized \cup {Value.index}
           /\ normalized'[Value.index].from = position
           /\ normalized'[Value.index].good = Value.good
           /\ \A i \in DOMAIN normalized : normalized'[i] = normalized[i]
BY DEF Keep, Valid


----------------------------------------------------------------------------
\* A position has a reason only once it is passed.
ReasonsBehind == \A p : AtPosition(p) \in reasons => p \in Seen

AccountInv == ReasonsBehind /\ RowsAccounted

\* No value disappears from the answer of a GPU reader, of any length.
THEOREM EveryRowAccounted == Spec => []RowsAccounted
<1>1. Init => AccountInv
  BY DEF Init, AccountInv, ReasonsBehind, RowsAccounted, Seen
<1>2. TypeOK /\ AccountInv /\ [Next]_vars => AccountInv'
  <2> SUFFICES ASSUME TypeOK, AccountInv, [Next]_vars PROVE AccountInv'
    OBVIOUS
  <2>1. ASSUME More, Advance, UNCHANGED normalized, reasons' = reasons \cup {AtPosition(position)}
        PROVE AccountInv'
    <3>1. ReasonsBehind'
      BY <2>1, AdvanceFacts, KeysDiffer DEF AccountInv, ReasonsBehind
    <3>2. ASSUME NEW p \in Seen' PROVE (KeptAt(p) <=> AtPosition(p) \notin reasons)'
      <4>1. CASE p \in Seen
        <5>1. p # position
          BY <2>1, <4>1, AdvanceFacts
        <5> QED BY <2>1, <4>1, <5>1, KeysDiffer DEF AccountInv, RowsAccounted, KeptAt
      <4>2. CASE p = position
        <5>1. \A i \in DOMAIN normalized : normalized[i].from \in Seen
          BY DEF TypeOK
        <5> QED BY <2>1, <4>2, <5>1, AdvanceFacts DEF KeptAt
      <4> QED BY <2>1, <4>1, <4>2, AdvanceFacts
    <3> QED BY <3>1, <3>2 DEF AccountInv, RowsAccounted
  <2>2. CASE Keep
    <3>1. More /\ Advance
      BY <2>2 DEF Keep
    <3>2. \A p : AtPosition(p) \in reasons' <=> AtPosition(p) \in reasons
      <4>1. /\ reasons \subseteq reasons'
            /\ reasons' \subseteq reasons \cup {OfSensor(Value.index, s) : s \in Sensors}
        <5>1. CASE loop = "sample"
          BY <2>2, <5>1 DEF Keep
        <5>2. CASE loop # "sample"
          BY <2>2, <5>2 DEF Keep
        <5> QED BY <5>1, <5>2
      <4> QED BY <4>1, KeysDiffer
    <3>3. ReasonsBehind'
      BY <3>1, <3>2, AdvanceFacts DEF AccountInv, ReasonsBehind
    <3>4. /\ \E i \in DOMAIN normalized' : normalized'[i].from = position
          /\ AtPosition(position) \notin reasons
      <4>1. AtPosition(position) \notin reasons
        BY <3>1, AdvanceFacts DEF AccountInv, ReasonsBehind
      <4>2. \E i \in DOMAIN normalized' : normalized'[i].from = position
        BY <2>2, KeepFacts
      <4> QED BY <4>1, <4>2
    <3>5. ASSUME NEW p, p # position PROVE KeptAt(p)' <=> KeptAt(p)
      BY <2>2, <3>5, KeepFacts DEF KeptAt
    <3>6. ASSUME NEW p \in Seen' PROVE (KeptAt(p) <=> AtPosition(p) \notin reasons)'
      <4>1. CASE p = position
        BY <3>2, <3>4, <4>1 DEF KeptAt
      <4>2. CASE p # position
        <5>1. p \in Seen
          BY <3>1, <4>2, AdvanceFacts
        <5> QED BY <3>2, <3>5, <4>2, <5>1 DEF AccountInv, RowsAccounted
      <4> QED BY <4>1, <4>2
    <3> QED BY <3>3, <3>6 DEF AccountInv, RowsAccounted
  <2>3. CASE UNCHANGED vars
    BY <2>3 DEF vars, AccountInv, ReasonsBehind, RowsAccounted, Seen, KeptAt
  <2> QED BY <2>1, <2>2, <2>3 DEF Next, SkipMalformed, SkipDuplicate
<1>3. AccountInv => RowsAccounted
  BY DEF AccountInv
<1> QED BY <1>1, <1>2, <1>3, RowsTyped, PTL DEF Spec

\* What is kept is a row the reader returned, of the device it is kept for.
RowsFrom ==
    \A i \in DOMAIN normalized :
        LET v == values[normalized[i].from] IN
        v \in Valid /\ v.index = i /\ normalized[i].good = v.good

\* Once a row of a device is passed, that row or an earlier one is kept.
NoneLater ==
    \A p \in Seen : values[p] \in Valid =>
        /\ values[p].index \in DOMAIN normalized
        /\ normalized[values[p].index].from <= p

\* A device is reported by the first of any number of rows that name it.
THEOREM FirstRow == Spec => []FirstRowWins
<1>1. Init => RowsFrom /\ NoneLater
  BY DEF Init, RowsFrom, NoneLater, Seen
<1>2. TypeOK /\ RowsFrom /\ NoneLater /\ [Next]_vars => RowsFrom' /\ NoneLater'
  <2> SUFFICES ASSUME TypeOK, RowsFrom, NoneLater, [Next]_vars PROVE RowsFrom' /\ NoneLater'
    OBVIOUS
  <2>1. \A i \in DOMAIN normalized : normalized[i].from \in Seen
    BY DEF TypeOK
  <2>2. ASSUME More, Advance, UNCHANGED normalized,
               Value \in Valid => Value.index \in DOMAIN normalized
        PROVE  RowsFrom' /\ NoneLater'
    <3>1. values' = values /\ Seen' = Seen \cup {position} /\ \A p \in Seen : p < position
      BY <2>2, AdvanceFacts
    <3>2. Seen \subseteq Nat /\ position \in Nat
      BY <2>2, AdvanceFacts
    <3>3. RowsFrom'
      BY <2>2, <3>1 DEF RowsFrom
    <3>4. ASSUME values[position] \in Valid
          PROVE  /\ values[position].index \in DOMAIN normalized
                 /\ normalized[values[position].index].from <= position
      <4>1. values[position].index \in DOMAIN normalized
        BY <2>2, <3>4 DEF Value
      <4> DEFINE f == normalized[values[position].index].from
      <4>2. f \in Nat /\ f < position
        BY <2>1, <3>1, <3>2, <4>1
      <4> HIDE DEF f
      <4>3. f <= position
        BY <3>2, <4>2
      <4> QED BY <4>1, <4>3 DEF f
    <3> QED BY <2>2, <3>1, <3>3, <3>4 DEF NoneLater
  <2>3. CASE Keep
    <3> DEFINE k == Value.index
    <3>1. values' = values /\ Seen' = Seen \cup {position} /\ \A p \in Seen : p < position
      BY <2>3, AdvanceFacts DEF Keep
    <3>2. Seen \subseteq Nat /\ position \in Nat
      BY <2>3, AdvanceFacts DEF Keep
    <3>3. Value = values[position]
      BY DEF Value
    <3>4. RowsFrom'
      <4> SUFFICES ASSUME NEW i \in DOMAIN normalized'
          PROVE LET v == values[normalized'[i].from] IN
                v \in Valid /\ v.index = i /\ normalized'[i].good = v.good
        BY <3>1 DEF RowsFrom
      <4>1. CASE i = k
        BY <2>3, <3>3, <4>1, KeepFacts
      <4>2. CASE i # k
        BY <2>3, <4>2, KeepFacts DEF RowsFrom
      <4> QED BY <4>1, <4>2
    <3>5. ASSUME NEW p \in Seen', values[p] \in Valid
          PROVE  values[p].index \in DOMAIN normalized' /\ normalized'[values[p].index].from <= p
      <4>1. CASE p = position
        BY <2>3, <3>2, <3>3, <4>1, KeepFacts
      <4>2. CASE p \in Seen
        BY <2>3, <3>5, <4>2, KeepFacts DEF NoneLater
      <4> QED BY <3>1, <4>1, <4>2
    <3> QED BY <3>1, <3>4, <3>5 DEF NoneLater
  <2>4. CASE UNCHANGED vars
    BY <2>4 DEF vars, RowsFrom, NoneLater, Seen
  <2>5. CASE SkipMalformed
    BY <2>2, <2>5, RowsDiffer DEF SkipMalformed
  <2>6. CASE SkipDuplicate
    BY <2>2, <2>6 DEF SkipDuplicate
  <2> QED BY <2>3, <2>4, <2>5, <2>6 DEF Next
<1>3. RowsFrom /\ NoneLater => FirstRowWins
  BY DEF RowsFrom, NoneLater, FirstRowWins
<1> QED BY <1>1, <1>2, <1>3, RowsTyped, PTL DEF Spec

\* The sensors named as missing are those the reported rows lack.
THEOREM GapsOfKeptRows == Spec => []GapsAreOfKeptRows
<1> DEFINE Named(i, s) == i \in DOMAIN normalized /\ s \notin normalized[i].good
<1>1. Init => GapsAreOfKeptRows
  BY DEF Init, GapsAreOfKeptRows
<1>2. TypeOK /\ GapsAreOfKeptRows /\ [Next]_vars => GapsAreOfKeptRows'
  <2> SUFFICES ASSUME TypeOK, GapsAreOfKeptRows, [Next]_vars, loop' = "sample",
                      NEW i \in Indexes, NEW s \in Sensors
      PROVE  OfSensor(i, s) \in reasons' <=> Named(i, s)'
    BY DEF GapsAreOfKeptRows
  <2>1. loop = "sample"
    BY DEF Next, SkipMalformed, SkipDuplicate, Keep, Advance, vars
  <2>2. OfSensor(i, s) \in reasons <=> Named(i, s)
    BY <2>1 DEF GapsAreOfKeptRows
  <2>3. ASSUME reasons' = reasons \cup {AtPosition(position)}, UNCHANGED normalized
        PROVE  OfSensor(i, s) \in reasons' <=> Named(i, s)'
    BY <2>2, <2>3, KeysDiffer
  <2>4. CASE Keep
    <3>1. reasons' = reasons \cup {OfSensor(Value.index, r) : r \in Sensors \ Value.good}
      BY <2>1, <2>4 DEF Keep
    <3>2. CASE i = Value.index
      <4>1. OfSensor(i, s) \in reasons' <=> s \notin Value.good
        BY <2>2, <2>4, <3>1, <3>2, KeepFacts, KeysDiffer
      <4> QED BY <2>4, <3>2, <4>1, KeepFacts
    <3>3. CASE i # Value.index
      <4>1. OfSensor(i, s) \in reasons' <=> OfSensor(i, s) \in reasons
        BY <3>1, <3>3, KeysDiffer
      <4> QED BY <2>2, <2>4, <3>3, <4>1, KeepFacts
    <3> QED BY <3>2, <3>3
  <2>5. CASE UNCHANGED vars
    BY <2>2, <2>5 DEF vars
  <2> QED BY <2>3, <2>4, <2>5 DEF Next, SkipMalformed, SkipDuplicate
<1> QED BY <1>1, <1>2, RowsTyped, PTL DEF Spec
=============================================================================
