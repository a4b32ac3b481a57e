--------------------------- MODULE ClientClassesProofs ---------------------------
(***************************************************************************)
(* Proofs about ClientClasses, for any tables and any list of classes:     *)
(* first what holds for tables that are in themselves too (IInv), then,    *)
(* for tables that are not, that the map is what FlatClasses says.         *)
(* Induction is by a least counterexample (Least).                         *)
(***************************************************************************)
EXTENDS FlatClasses, FiniteSetTheorems, SequenceTheorems, TLAPS

\* Each coroutine runs for a table that the one around it has come to.
Linked ==
  /\ \A d \in 1..(Len(frames) - 1) :
       /\ frames[d].idx <= Len(PropsOf(frames[d]))
       /\ PropOf(frames[d]).sub = frames[d + 1].table
  /\ frames = <<>> => control = 0
  /\ frames # <<>> => class <= Len(ClassList) /\ frames[1].table = ClassList[class].table

\* A row of frames, from a class's own table down to a value, in which every
\* offset is that of a property and the one below it, added up.
Chain(s) ==
  /\ s \in Seq(Frame) /\ s # <<>>
  /\ \A d \in 1..Len(s) :
       LET prop == PropOf(s[d]) IN
       /\ s[d].idx <= Len(PropsOf(s[d]))
       /\ d = Len(s) =>
            prop.sub = NoTable /\ s[d].path = <<prop.name>> /\ s[d].offset = prop.offset
       /\ d # Len(s) =>
            /\ prop.sub = s[d + 1].table
            /\ s[d].path = <<TableName[s[d + 1].table]>> \o s[d + 1].path
            /\ s[d].offset = prop.offset + s[d + 1].offset

\* Every entry of the map comes from such a row: no name and no offset is
\* made up, or mixed from two properties.
NothingInvented ==
  \A key \in DOMAIN clientclasses :
    \E c \in 1..Len(ClassList), s \in Seq(Frame) :
      /\ Chain(s)
      /\ s[1].table = ClassList[c].table /\ key = <<ClassList[c].name, s[1].path>>
      /\ clientclasses[key] = s[1].offset

IInv == TypeOK /\ Linked /\ ResultsAddUp /\ NothingInvented

-----------------------------------------------------------------------------
LEMMA InitIInv == ClassInit => IInv
<1> SUFFICES ASSUME ClassInit  PROVE IInv
  OBVIOUS
<1>1. frames \in Seq(Frame) /\ Len(frames) = 0
  BY EmptySeq DEF ClassInit
<1>2. TypeOK
  BY <1>1, ClassAssumption DEF ClassInit, TypeOK
<1>3. Linked /\ ResultsAddUp /\ NothingInvented
  BY <1>1 DEF ClassInit, Linked, ResultsAddUp, NothingInvented
<1> QED  BY <1>2, <1>3 DEF IInv

\* The property that a frame is at.
LEMMA PropType ==
  ASSUME TypeOK, NEW d \in 1..Len(frames), frames[d].idx <= Len(PropsOf(frames[d]))
  PROVE  /\ frames[d] \in Frame
         /\ PropsOf(frames[d]) \in Seq(Prop)
         /\ frames[d].idx \in 1..Len(PropsOf(frames[d]))
         /\ PropOf(frames[d]) \in Prop
<1>1. frames[d] \in Frame /\ frames[d].idx > 0
  BY DEF TypeOK
<1>2. PropsOf(frames[d]) \in Seq(Prop)
  BY <1>1 DEF TypeOK, PropsOf, Frame
<1>3. frames[d].idx \in 1..Len(PropsOf(frames[d]))
  BY <1>1, <1>2 DEF Frame
<1> QED  BY <1>1, <1>2, <1>3, ElementOfSeq DEF PropOf

\* A map that stays is still backed.
LEMMA MapStays ==
  ASSUME NothingInvented, UNCHANGED <<props, clientclasses>>
  PROVE  NothingInvented'
<1>1. ASSUME NEW s  PROVE Chain(s)' = Chain(s)
  BY DEF Chain, PropOf, PropsOf
<1> QED  BY <1>1 DEF NothingInvented

LEMMA BeginPreserves == IInv /\ BeginClass => IInv'
<1> SUFFICES ASSUME IInv, BeginClass  PROVE IInv'
  OBVIOUS
<1> DEFINE f == Started(ClassList[class].table)
<1>1. class \in 1..Len(ClassList) /\ ClassList[class] \in [name : Name, table : Table]
  <2>1. ClassList \in Seq([name : Name, table : Table])
    BY ClassAssumption
  <2>2. class \in 1..Len(ClassList)
    BY <2>1 DEF IInv, TypeOK, BeginClass
  <2> QED  BY <2>1, <2>2, ElementOfSeq
<1>2. f \in Frame /\ f.idx = 1 /\ f.table = ClassList[class].table
  <2>1. <<>> \in Seq(Name)
    BY EmptySeq
  <2> QED  BY <1>1, <2>1 DEF Started, Frame
<1>3. frames' = <<f>> /\ frames' \in Seq(Frame) /\ Len(frames') = 1 /\ frames'[1] = f /\ control' = 1
  BY <1>2 DEF BeginClass
<1> HIDE DEF f
<1>4. TypeOK'
  BY <1>2, <1>3 DEF IInv, TypeOK, BeginClass, tableVars
<1>5. Linked'
  BY <1>1, <1>2, <1>3 DEF Linked, BeginClass, tableVars
<1>6. ResultsAddUp'
  BY <1>3 DEF ResultsAddUp
<1>7. NothingInvented'
  BY MapStays DEF IInv, BeginClass, tableVars
<1> QED  BY <1>4, <1>5, <1>6, <1>7 DEF IInv

LEMMA OpenPreserves == IInv /\ OpenTable => IInv'
<1> SUFFICES ASSUME IInv, OpenTable  PROVE IInv'
  OBVIOUS
<1> DEFINE n == Len(frames)
<1> DEFINE sub == PropOf(frames[control]).sub
<1> DEFINE f == Started(sub)
<1>1. n \in Nat /\ control = n /\ n > 0 /\ frames \in Seq(Frame)
  BY DEF IInv, TypeOK, OpenTable, AtProp
<1>2. PropOf(frames[n]) \in Prop /\ frames[n].idx <= Len(PropsOf(frames[n]))
  BY <1>1, PropType DEF IInv, OpenTable, AtProp
<1>3. f \in Frame /\ f.idx = 1 /\ f.table = sub
  <2>1. <<>> \in Seq(Name)
    BY EmptySeq
  <2>2. sub \in Table
    BY <1>1, <1>2 DEF OpenTable, Prop
  <2> QED  BY <2>1, <2>2 DEF Started, Frame
<1>4. frames' = Append(frames, f) /\ control' = n + 1
  BY <1>1 DEF OpenTable
<1> HIDE DEF f
<1>5. /\ frames' \in Seq(Frame) /\ Len(frames') = n + 1 /\ frames'[n + 1] = f
      /\ \A d \in 1..n : frames'[d] = frames[d]
  BY <1>1, <1>3, <1>4, AppendProperties
<1>6. TypeOK'
  BY <1>1, <1>3, <1>4, <1>5 DEF IInv, TypeOK, OpenTable, tableVars
<1>7. Linked'
  <2>1. UNCHANGED <<props, class>> /\ frames # <<>>
    BY <1>1 DEF OpenTable, tableVars
  <2>2. ASSUME NEW d \in 1..n
        PROVE  /\ frames'[d].idx <= Len(props[frames'[d].table])
               /\ props[frames'[d].table][frames'[d].idx].sub = frames'[d + 1].table
    <3>1. frames'[d] = frames[d]
      BY <1>5
    <3>2. CASE d = n
      BY <1>1, <1>2, <1>3, <1>5, <3>1, <3>2 DEF PropOf, PropsOf
    <3>3. CASE d # n
      <4>1. d \in 1..(n - 1) /\ frames'[d + 1] = frames[d + 1]
        BY <1>1, <1>5, <3>3
      <4> QED  BY <1>1, <3>1, <4>1 DEF IInv, Linked, PropOf, PropsOf
    <3> QED  BY <3>2, <3>3
  <2>3. class <= Len(ClassList) /\ frames'[1].table = ClassList[class].table
    BY <1>1, <1>5, <2>1 DEF IInv, Linked
  <2>4. frames' # <<>> /\ Len(frames') - 1 = n
    BY <1>1, <1>5
  <2> QED  BY <2>1, <2>2, <2>3, <2>4 DEF Linked, PropsOf, PropOf
<1>8. ResultsAddUp'
  BY <1>1, <1>4, <1>5 DEF ResultsAddUp
<1>9. NothingInvented'
  BY MapStays DEF IInv, OpenTable, tableVars
<1> QED  BY <1>6, <1>7, <1>8, <1>9 DEF IInv

\* What a coroutine yields adds up with what is inside it.
LEMMA YieldsPreserves ==
  ASSUME IInv, control > 0,
         NEW path \in Seq(Name), NEW offset \in Int,
         frames[control].idx <= Len(PropsOf(frames[control])),
         IF control = Len(frames)
         THEN /\ PropOf(frames[control]).sub = NoTable
              /\ path = <<PropOf(frames[control]).name>> /\ offset = PropOf(frames[control]).offset
         ELSE /\ PropOf(frames[control]).sub = frames[control + 1].table
              /\ path = <<TableName[frames[control + 1].table]>> \o frames[control + 1].path
              /\ offset = PropOf(frames[control]).offset + frames[control + 1].offset,
         Yields(path, offset)
  PROVE  IInv'
<1> DEFINE n == Len(frames)
<1>1. n \in Nat /\ control \in 1..n /\ frames \in Seq(Frame)
  BY DEF IInv, TypeOK
<1>2. frames[control] \in Frame
  BY <1>1, ElementOfSeq
<1>3. /\ frames' = [frames EXCEPT ![control] = [frames[control] EXCEPT !.path = path, !.offset = offset]]
      /\ control' = control - 1 /\ UNCHANGED <<props, class, clientclasses>>
  BY DEF Yields, tableVars
<1> DEFINE f == [frames[control] EXCEPT !.path = path, !.offset = offset]
<1>4. /\ f \in Frame /\ f.table = frames[control].table /\ f.idx = frames[control].idx
      /\ f.path = path /\ f.offset = offset
  BY <1>2 DEF Frame
<1> DEFINE e == [frames EXCEPT ![control] = f]
<1>11. frames' = e
  BY <1>3
<1> HIDE DEF f
<1>12. /\ e \in Seq(Frame) /\ Len(e) = n /\ e[control] = f
      /\ \A d \in 1..n : d # control => e[d] = frames[d]
  BY <1>1, <1>4, ExceptSeq
<1> HIDE DEF e
<1>5. /\ frames' \in Seq(Frame) /\ Len(frames') = n /\ frames'[control] = f
      /\ \A d \in 1..n : d # control => frames'[d] = frames[d]
  BY <1>11, <1>12
<1>6. \A d \in 1..n : frames'[d].table = frames[d].table /\ frames'[d].idx = frames[d].idx
  BY <1>4, <1>5
<1>7. TypeOK'
  <2>1. \A d \in 1..Len(frames') : frames'[d].idx > 0
    BY <1>5, <1>6 DEF IInv, TypeOK
  <2>2. control' \in 0..Len(frames')
    BY <1>1, <1>3, <1>5
  <2> QED  BY <1>3, <1>5, <2>1, <2>2 DEF IInv, TypeOK
<1>8. Linked'
  <2>1. frames # <<>> /\ frames' # <<>>
    BY <1>1, <1>5
  <2> QED  BY SMTT(30), <1>1, <1>3, <1>5, <1>6, <2>1 DEF IInv, Linked, PropOf, PropsOf
<1>9. ResultsAddUp'
  <2>1. (control' + 1)..Len(frames') = control..n
    BY <1>1, <1>3, <1>5
  <2>2. ASSUME NEW d \in control..n  PROVE AddsUp(d)'
    <3>1. d \in 1..n /\ (d # n => frames'[d + 1] = frames[d + 1])
      BY SMTT(30), <1>1, <1>5
    <3>2. CASE d = control
      BY SMTT(30), <1>1, <1>3, <1>4, <1>5, <3>1, <3>2 DEF AddsUp, PropOf, PropsOf
    <3>3. CASE d # control
      <4>1. AddsUp(d) /\ frames'[d] = frames[d]
        BY <1>1, <1>5, <3>3 DEF IInv, ResultsAddUp
      <4> QED  BY <1>3, <1>5, <3>1, <4>1 DEF AddsUp, PropOf, PropsOf
    <3> QED  BY <3>2, <3>3
  <2> QED  BY <2>1, <2>2 DEF ResultsAddUp
<1>10. NothingInvented'
  BY <1>3, MapStays DEF IInv
<1> QED  BY <1>7, <1>8, <1>9, <1>10 DEF IInv

LEMMA YieldPreserves == IInv /\ YieldProp => IInv'
<1> SUFFICES ASSUME IInv, YieldProp  PROVE IInv'
  OBVIOUS
<1> DEFINE prop == PropOf(frames[control])
<1>1. control \in 1..Len(frames) /\ frames[control].idx <= Len(PropsOf(frames[control]))
  BY DEF IInv, TypeOK, YieldProp, AtProp
<1>2. prop \in Prop
  BY <1>1, PropType DEF IInv
<1> DEFINE path == <<prop.name>>
<1> DEFINE offset == prop.offset
<1>3. prop.sub = NoTable /\ Yields(path, offset) /\ control = Len(frames) /\ control > 0
  BY DEF YieldProp, AtProp
<1>4. path \in Seq(Name) /\ offset \in Int
  BY <1>2 DEF Prop
<1>5. path = <<PropOf(frames[control]).name>> /\ offset = PropOf(frames[control]).offset
  OBVIOUS
<1> HIDE DEF path, offset
<1> QED  BY <1>1, <1>3, <1>4, <1>5, YieldsPreserves

LEMMA PassOnPreserves == IInv /\ PassOn => IInv'
<1> SUFFICES ASSUME IInv, PassOn  PROVE IInv'
  OBVIOUS
<1> DEFINE inner == frames[control + 1]
<1> DEFINE path == <<TableName[inner.table]>> \o inner.path
<1> DEFINE offset == SumOffset(frames[control], inner)
<1>1. /\ control > 0 /\ control \in 1..(Len(frames) - 1) /\ frames \in Seq(Frame)
      /\ frames[control].idx <= Len(PropsOf(frames[control]))
      /\ PropOf(frames[control]).sub = inner.table
  BY DEF IInv, TypeOK, Linked, PassOn
<1>2. inner \in Frame
  <2>1. control + 1 \in 1..Len(frames)
    BY <1>1
  <2> QED  BY <1>1, <2>1, ElementOfSeq
<1>3. PropOf(frames[control]) \in Prop
  BY <1>1, PropType DEF IInv
<1>4. offset \in Int /\ offset = PropOf(frames[control]).offset + inner.offset
  BY <1>2, <1>3 DEF Frame, Prop, SumOffset
<1>5. path \in Seq(Name)
  <2>1. <<TableName[inner.table]>> \in Seq(Name) /\ inner.path \in Seq(Name)
    BY <1>2, ClassAssumption DEF Frame
  <2> QED  BY <2>1, ConcatProperties
<1>6. Yields(path, offset)
  BY DEF PassOn
<1>7. control # Len(frames)
  BY <1>1
<1> HIDE DEF path, offset
<1> QED  BY <1>1, <1>4, <1>5, <1>6, <1>7, YieldsPreserves DEF path

\* The row of coroutines is a chain when its value has come up.
LEMMA InsertPreserves == IInv /\ Insert => IInv'
<1> SUFFICES ASSUME IInv, Insert  PROVE IInv'
  OBVIOUS
<1> DEFINE n == Len(frames)
<1> DEFINE key == <<ClassList[class].name, frames[1].path>>
<1> DEFINE f == [frames[n] EXCEPT !.idx = frames[n].idx + 1]
<1>1. n \in Nat /\ n > 0 /\ frames \in Seq(Frame) /\ frames # <<>> /\ control = 0
  BY DEF IInv, TypeOK, Insert
<1>2. frames[1] \in Frame /\ frames[n] \in Frame /\ frames[n].idx > 0
  BY <1>1, ElementOfSeq DEF IInv, TypeOK
<1>3. /\ class \in 1..Len(ClassList) /\ ClassList[class] \in [name : Name, table : Table]
      /\ frames[1].table = ClassList[class].table
  <2>1. ClassList \in Seq([name : Name, table : Table])
    BY ClassAssumption
  <2>2. class \in 1..Len(ClassList) /\ frames[1].table = ClassList[class].table
    BY <1>1, <2>1 DEF IInv, TypeOK, Linked
  <2> QED  BY <2>1, <2>2, ElementOfSeq
<1>4. key \in Name \X Seq(Name) /\ frames[1].offset \in Int
  BY <1>2, <1>3 DEF Frame
<1>5. /\ frames' = [frames EXCEPT ![n] = f] /\ control' = n /\ UNCHANGED <<props, class>>
      /\ clientclasses' = Stored(key, frames[1].offset)
  BY DEF Insert, Advanced, tableVars
<1>6. f \in Frame /\ f.table = frames[n].table /\ f.idx > 0
  <2>1. frames[n] \in Frame /\ frames[n].idx > 0
    BY <1>2
  <2> HIDE DEF n
  <2> QED  BY <2>1 DEF Frame
<1> HIDE DEF f
<1>7. /\ frames' \in Seq(Frame) /\ Len(frames') = n /\ frames'[n] = f
      /\ \A d \in 1..n : d # n => frames'[d] = frames[d]
  BY <1>1, <1>5, <1>6, ExceptSeq
<1>8. TypeOK'
  <2>1. \A d \in 1..Len(frames') : frames'[d].idx > 0
    BY <1>6, <1>7 DEF IInv, TypeOK
  <2>2. control' \in 0..Len(frames')
    BY <1>1, <1>5, <1>7
  <2>3. DOMAIN clientclasses' = DOMAIN clientclasses \cup {key}
    BY <1>5 DEF Stored
  <2>4. \A k \in DOMAIN clientclasses' : clientclasses'[k] \in Int
    BY <1>4, <1>5 DEF IInv, TypeOK, Stored
  <2> HIDE DEF key
  <2> QED  BY <1>4, <1>5, <1>7, <2>1, <2>2, <2>3, <2>4 DEF IInv, TypeOK
<1>9. Linked'
  <2>1. \A d \in 1..n : frames'[d].table = frames[d].table
    BY <1>6, <1>7
  <2>2. frames' # <<>>
    BY <1>1, <1>7
  <2>3. ASSUME NEW d \in 1..(n - 1)
        PROVE  /\ frames'[d].idx <= Len(props[frames'[d].table])
               /\ props[frames'[d].table][frames'[d].idx].sub = frames'[d + 1].table
    <3>1. frames'[d] = frames[d] /\ frames'[d + 1].table = frames[d + 1].table
      BY <1>1, <1>7, <2>1
    <3> QED  BY <3>1 DEF IInv, Linked, PropOf, PropsOf
  <2>4. class <= Len(ClassList) /\ frames'[1].table = ClassList[class].table
    BY <1>1, <1>3, <2>1
  <2> QED  BY <1>5, <1>7, <2>2, <2>3, <2>4 DEF Linked, PropOf, PropsOf
<1>10. ResultsAddUp'
  BY <1>1, <1>5, <1>7 DEF ResultsAddUp
<1>11. NothingInvented'
  <2>1. ASSUME NEW s  PROVE Chain(s)' = Chain(s)
    BY <1>5 DEF Chain, PropOf, PropsOf
  <2>2. Chain(frames)
    <3>1. \A d \in 1..n : AddsUp(d)
      BY <1>1 DEF IInv, ResultsAddUp
    <3> QED  BY <1>1, <3>1 DEF Chain, AddsUp
  <2>3. ASSUME NEW k \in DOMAIN clientclasses'
        PROVE  \E c \in 1..Len(ClassList), s \in Seq(Frame) :
                 /\ Chain(s)
                 /\ s[1].table = ClassList[c].table /\ k = <<ClassList[c].name, s[1].path>>
                 /\ clientclasses'[k] = s[1].offset
    <3>1. CASE k = key
      <4>1. clientclasses'[k] = frames[1].offset
        BY <1>5, <3>1 DEF Stored
      <4> QED  BY <1>1, <1>3, <2>2, <3>1, <4>1
    <3>2. CASE k # key
      <4>1. k \in DOMAIN clientclasses /\ clientclasses'[k] = clientclasses[k]
        BY <1>5, <3>2 DEF Stored
      <4> QED  BY <4>1 DEF IInv, NothingInvented
    <3> QED  BY <3>1, <3>2
  <2> QED  BY <2>1, <2>3 DEF NothingInvented
<1> QED  BY <1>8, <1>9, <1>10, <1>11 DEF IInv

LEMMA EndPreserves == IInv /\ EndTable => IInv'
<1> SUFFICES ASSUME IInv, EndTable  PROVE IInv'
  OBVIOUS
<1> DEFINE n == Len(frames) - 1
<1> DEFINE rest == SubSeq(frames, 1, n)
<1>1. n \in Nat /\ control = n + 1 /\ frames \in Seq(Frame) /\ frames # <<>>
  BY DEF IInv, TypeOK, EndTable
<1>2. /\ frames' = Closed(rest) /\ control' = n /\ class' = NextClass
      /\ UNCHANGED <<props, clientclasses>>
  BY <1>1 DEF EndTable
<1>3. /\ rest \in Seq(Frame) /\ Len(rest) = n
      /\ \A d \in 1..n : rest[d] = frames[d]
  BY <1>1, SubSeqProperties
<1>4. /\ frames' \in Seq(Frame) /\ Len(frames') = n
      /\ \A d \in 1..n : frames'[d].table = frames[d].table /\ frames'[d].idx > 0
      /\ \A d \in 1..(n - 1) : frames'[d] = frames[d]
  <2> HIDE DEF rest
  <2>1. CASE n = 0
    <3>1. rest = <<>>
      BY <1>3, <2>1, EmptySeq
    <3>2. frames' = <<>>
      <4>1. frames' = Closed(<<>>)
        BY <1>2, <3>1
      <4>2. Closed(<<>>) = <<>>
        BY DEF Closed
      <4> QED  BY <4>1, <4>2
    <3>3. frames' \in Seq(Frame) /\ Len(frames') = 0
      <4>1. <<>> \in Seq(Frame) /\ Len(<<>>) = 0
        OBVIOUS
      <4> QED  BY <3>2, <4>1
    <3> HIDE DEF n
    <3>4. 1..n = {} /\ 1..(n - 1) = {}
      BY <2>1
    <3> QED  BY <2>1, <3>3, <3>4
  <2>2. CASE n # 0
    <3> DEFINE f == [rest[n] EXCEPT !.idx = rest[n].idx + 1]
    <3>1. rest[n] = frames[n] /\ frames[n] \in Frame /\ frames[n].idx > 0
      BY <1>1, <1>3, <2>2, ElementOfSeq DEF IInv, TypeOK
    <3>2. f \in Frame /\ f.table = frames[n].table /\ f.idx > 0
      BY <3>1 DEF Frame
    <3>3. frames' = [rest EXCEPT ![n] = f]
      BY <1>2, <1>3, <2>2 DEF Closed, Advanced
    <3> HIDE DEF f
    <3>4. /\ frames' \in Seq(Frame) /\ Len(frames') = n /\ frames'[n] = f
          /\ \A d \in 1..n : d # n => frames'[d] = rest[d]
      BY <1>1, <1>3, <2>2, <3>2, <3>3, ExceptSeq
    <3>5. \A d \in 1..n : frames[d].idx > 0
      BY <1>1 DEF IInv, TypeOK
    <3> QED  BY <1>1, <1>3, <3>2, <3>4, <3>5
  <2> QED  BY <2>1, <2>2
<1>5. /\ class \in 1..Len(ClassList) /\ frames[1].table = ClassList[class].table
      /\ class' \in 1..(Len(ClassList) + 1)
      /\ n # 0 => class' = class
  <2>1. Len(ClassList) \in Nat
    BY ClassAssumption
  <2> QED  BY <1>1, <1>2, <2>1 DEF IInv, TypeOK, Linked, NextClass
<1> HIDE DEF rest
<1>6. TypeOK'
  BY <1>1, <1>2, <1>4, <1>5 DEF IInv, TypeOK
<1>7. Linked'
  <2>1. frames' = <<>> <=> n = 0
    BY <1>1, <1>4, EmptySeq
  <2>2. ASSUME NEW d \in 1..(n - 1)
        PROVE  /\ frames'[d].idx <= Len(props[frames'[d].table])
               /\ props[frames'[d].table][frames'[d].idx].sub = frames'[d + 1].table
    <3>1. d \in 1..(Len(frames) - 1) /\ frames'[d] = frames[d] /\ frames'[d + 1].table = frames[d + 1].table
      BY <1>1, <1>4
    <3> QED  BY <3>1 DEF IInv, Linked, PropOf, PropsOf
  <2>3. n # 0 => frames'[1].table = frames[1].table
    BY <1>1, <1>4
  <2> QED  BY <1>1, <1>2, <1>4, <1>5, <2>1, <2>2, <2>3 DEF Linked, PropOf, PropsOf
<1>8. ResultsAddUp'
  BY <1>1, <1>2, <1>4 DEF ResultsAddUp
<1>9. NothingInvented'
  BY <1>2, MapStays DEF IInv
<1> QED  BY <1>6, <1>7, <1>8, <1>9 DEF IInv

LEMMA StepIInv == IInv /\ [ClassStep]_classVars => IInv'
<1> SUFFICES ASSUME IInv, [ClassStep]_classVars  PROVE IInv'
  OBVIOUS
<1>1. CASE ClassStep
  BY SMTT(30), <1>1, BeginPreserves, OpenPreserves, YieldPreserves, PassOnPreserves, EndPreserves,
     InsertPreserves DEF ClassStep
<1>2. CASE UNCHANGED classVars
  <2>1. UNCHANGED <<props, class, frames, control, clientclasses>>
    BY <1>2 DEF classVars, tableVars
  <2>2. NothingInvented'
    BY <2>1, MapStays DEF IInv
  <2> QED  BY <2>1, <2>2 DEF IInv, TypeOK, Linked, ResultsAddUp, AddsUp, PropOf, PropsOf
<1> QED  BY <1>1, <1>2

LEMMA Inductive == ClassSpec => []IInv
  BY InitIInv, StepIInv, PTL DEF ClassSpec

-----------------------------------------------------------------------------
\* The constructor stays within its list and its tables, and every row of
\* coroutines within the types of a frame.
THEOREM TypeCorrect == ClassSpec => []TypeOK
<1>1. IInv => TypeOK
  BY DEF IInv
<1> QED  BY <1>1, Inductive, PTL

\* What comes up through the coroutines adds up, for any tables however deep.
THEOREM ValuesAddUp == ClassSpec => []ResultsAddUp
<1>1. IInv => ResultsAddUp
  BY DEF IInv
<1> QED  BY <1>1, Inductive, PTL

\* Every name that get_prop_offset finds has the offset of a way down from its
\* class to a value, added up, at any time and for any tables, those that are
\* in themselves included.
THEOREM EntriesAreReal == ClassSpec => []NothingInvented
<1>1. IInv => NothingInvented
  BY DEF IInv
<1> QED  BY <1>1, Inductive, PTL

-----------------------------------------------------------------------------
\* A set of numbers has a least one.
LEMMA Least ==
  ASSUME NEW S, S \subseteq Nat, S # {}
  PROVE  \E n \in S : \A m \in S : n <= m
<1>1. PICK n \in S : \A m \in S : <<m, n>> \notin OpToRel(<, Nat)
  BY NatLessThanWellFounded, WFMin, Zenon
<1>2. ASSUME NEW m \in S  PROVE n <= m
  <2>1. <<m, n>> \in Nat \X Nat
    OBVIOUS
  <2>2. ~(m < n)
    BY <1>1, <2>1 DEF OpToRel
  <2> QED  BY <2>2
<1> QED  BY <1>2

\* A row of falling numbers of 1..N is no longer than N.
LEMMA Descend ==
  ASSUME NEW N \in Nat, NEW n \in Nat, NEW h,
         \A d \in 1..n : h[d] \in 1..N,
         \A d \in 1..(n - 1) : h[d + 1] < h[d]
  PROVE  n <= N
<1> DEFINE S == {d \in 1..n : h[d] > N + 1 - d}
<1>1. ASSUME S # {}  PROVE FALSE
  <2>0. S \subseteq Nat
    OBVIOUS
  <2> HIDE DEF S
  <2>1. PICK d \in S : \A m \in S : d <= m
    BY <1>1, <2>0, Least
  <2> USE DEF S
  <2>2. d \in 1..n /\ h[d] \in 1..N /\ d # 1
    BY <2>1
  <2>3. d - 1 \in 1..(n - 1) /\ d - 1 \in 1..n /\ d - 1 \notin S
    BY <2>1, <2>2
  <2>4. h[d - 1] \in 1..N /\ h[d - 1] <= N + 1 - (d - 1) /\ h[(d - 1) + 1] < h[d - 1]
    BY <2>3
  <2> QED  BY <2>1, <2>2, <2>4
<1> QED  BY <1>1

-----------------------------------------------------------------------------
(* Routes.                                                                 *)

LEMMA LayoutType ==
  ASSUME NEW l \in Layouts, NEW t \in Table
  PROVE  /\ l \in [Table -> Seq(Prop)] /\ l[t] \in Seq(Prop) /\ Len(l[t]) \in Nat
         /\ \A i \in 1..Len(l[t]) : l[t][i] \in Prop
<1>1. l \in [Table -> Seq(Prop)]
  BY ClassAssumption
<1> QED  BY <1>1, ElementOfSeq

LEMMA PositionType ==
  ASSUME NEW l \in Layouts, NEW p \in Positions(l)
  PROVE  /\ p = [table |-> p.table, idx |-> p.idx]
         /\ p.table \in Table /\ p.idx \in 1..Len(l[p.table])
         /\ PropAt(l, p) \in Prop /\ PropAt(l, p).offset \in Int
<1>1. PICK t \in Table : \E i \in 1..Len(l[t]) : p = [table |-> t, idx |-> i]
  BY DEF Positions
<1>2. \A i \in 1..Len(l[t]) : l[t][i] \in Prop
  BY LayoutType
<1> QED  BY <1>1, <1>2 DEF PropAt, Prop

LEMMA IsPosition ==
  ASSUME NEW l, NEW t \in Table, NEW i \in 1..Len(l[t])
  PROVE  [table |-> t, idx |-> i] \in Positions(l)
BY DEF Positions

LEMMA TablesFinite == IsFiniteSet(Table) /\ Cardinality(Table) \in Nat
  BY NestingAssumption, FS_CardinalityType

LEMMA RouteType ==
  ASSUME NEW l \in Layouts, NEW t, NEW r \in Routes(l, t)
  PROVE  /\ r \in Seq(Positions(l)) /\ Len(r) \in Nat /\ Len(r) > 0 /\ Len(r) <= Cardinality(Table)
         /\ \A k \in 1..Len(r) : /\ r[k] \in Positions(l) /\ r[k] = [table |-> r[k].table, idx |-> r[k].idx]
                                 /\ r[k].table \in Table /\ r[k].idx \in 1..Len(l[r[k].table])
                                 /\ r[k].idx \in Nat
                                 /\ PropAt(l, r[k]) \in Prop
         /\ r[1].table = t
         /\ PropAt(l, r[Len(r)]).sub = NoTable
         /\ \A k \in 1..(Len(r) - 1) : PropAt(l, r[k]).sub = r[k + 1].table
<1>1. PICK m \in 0..Cardinality(Table) : r \in [1..m -> Positions(l)]
  BY DEF Routes, SeqOf
<1>2. Cardinality(Table) \in Nat
  BY TablesFinite
<1>3. r \in Seq(Positions(l)) /\ Len(r) = m /\ r # <<>>
  BY <1>1, <1>2 DEF Routes
<1>4. Len(r) > 0
  BY <1>3, EmptySeq
<1>5. ASSUME NEW k \in 1..Len(r)
      PROVE /\ r[k] \in Positions(l) /\ r[k] = [table |-> r[k].table, idx |-> r[k].idx]
                                 /\ r[k].table \in Table /\ r[k].idx \in 1..Len(l[r[k].table])
                                 /\ r[k].idx \in Nat
                                 /\ PropAt(l, r[k]) \in Prop
  <2>1. r[k] \in Positions(l)
    BY <1>1, <1>3
  <2>2. r[k].idx \in 1..Len(l[r[k].table]) /\ r[k].table \in Table
    BY <2>1, PositionType
  <2> QED  BY <2>1, <2>2, PositionType
<1>6. /\ r[1].table = t /\ PropAt(l, r[Len(r)]).sub = NoTable
      /\ \A k \in 1..(Len(r) - 1) : PropAt(l, r[k]).sub = r[k + 1].table
  BY DEF Routes
<1>7. Len(r) \in Nat /\ Len(r) <= Cardinality(Table)
  BY <1>2, <1>3
<1> QED  BY <1>3, <1>4, <1>5, <1>6, <1>7

LEMMA RouteAt ==
  ASSUME NEW l \in Layouts, NEW t, NEW r \in Routes(l, t), NEW k \in 1..Len(r)
  PROVE  /\ r[k] \in [table : Table, idx : Nat] /\ r[k].table \in Table
         /\ r[k].idx \in Nat /\ r[k].idx > 0
         /\ Len(l[r[k].table]) \in Nat /\ r[k].idx <= Len(l[r[k].table])
         /\ PropAt(l, r[k]).sub = NoTable <=> k = Len(r)
         /\ k # Len(r) => k + 1 \in 1..Len(r) /\ PropAt(l, r[k]).sub = r[k + 1].table
<1>1. r[k] = [table |-> r[k].table, idx |-> r[k].idx] /\ r[k].table \in Table
  BY RouteType
<1>2. r[k].idx \in 1..Len(l[r[k].table])
  BY RouteType
<1>3. Len(l[r[k].table]) \in Nat
  BY <1>1, LayoutType
<1>7. r[k] \in [table : Table, idx : Nat]
  BY <1>1, <1>2, <1>3
<1>4. Len(r) \in Nat
  BY RouteType
<1>5. ASSUME k # Len(r)
      PROVE  k + 1 \in 1..Len(r) /\ PropAt(l, r[k]).sub = r[k + 1].table /\ r[k + 1].table \in Table
  <2>1. k + 1 \in 1..Len(r) /\ k \in 1..(Len(r) - 1)
    BY <1>4, <1>5
  <2>2. PropAt(l, r[k]).sub = r[k + 1].table
    BY <2>1, RouteType
  <2>3. r[k + 1].table \in Table
    BY <2>1, RouteType
  <2> QED  BY <2>1, <2>2, <2>3
<1>6. PropAt(l, r[Len(r)]).sub = NoTable
  BY RouteType
<1> QED  BY <1>2, <1>3, <1>5, <1>6, <1>7, ClassAssumption

\* A way down is no longer than there are tables, so it is a route.
LEMMA IsRoute ==
  ASSUME NEW l \in Layouts, NEW r \in Seq(Positions(l)), r # <<>>,
         PropAt(l, r[Len(r)]).sub = NoTable,
         \A k \in 1..(Len(r) - 1) : PropAt(l, r[k]).sub = r[k + 1].table
  PROVE  r \in Routes(l, r[1].table)
<1> DEFINE N == Cardinality(Table)
<1> DEFINE n == Len(r)
<1>1. N \in Nat /\ n \in Nat
  BY TablesFinite
<1>2. PICK level \in [Table -> 1..N] : \A t \in Table : \A i \in 1..Len(l[t]) :
         l[t][i].sub # NoTable => level[l[t][i].sub] < level[t]
  BY NestingAssumption
<1> DEFINE h == [d \in 1..n |-> level[r[d].table]]
<1>3. \A d \in 1..n : r[d] \in Positions(l) /\ r[d].table \in Table /\ r[d].idx \in 1..Len(l[r[d].table])
  BY PositionType, ElementOfSeq
<1>4. \A d \in 1..n : h[d] \in 1..N
  BY <1>3
<1>5. ASSUME NEW d \in 1..(n - 1)  PROVE h[d + 1] < h[d]
  <2>1. d \in 1..n /\ d + 1 \in 1..n
    BY <1>1
  <2>2. r[d + 1].table \in Table /\ r[d + 1].table # NoTable
    BY <1>3, <2>1, ClassAssumption
  <2>3. l[r[d].table][r[d].idx].sub = r[d + 1].table
    BY DEF PropAt
  <2>4. level[r[d + 1].table] < level[r[d].table]
    BY <1>2, <1>3, <2>1, <2>2, <2>3
  <2> QED  BY <2>1, <2>4
<1> HIDE DEF h
<1>6. n <= N
  BY <1>1, <1>4, <1>5, Descend
<1>7. r \in [1..n -> Positions(l)] /\ n \in 0..N
  BY <1>1, <1>6
<1>8. r \in SeqOf(Positions(l), N)
  BY <1>7 DEF SeqOf
<1> QED  BY <1>8 DEF Routes

-----------------------------------------------------------------------------
(* Sums of offsets.                                                        *)

\* from[k] is the sum of the offsets of r from the k-th on.
SumOf(l, r, from) ==
  from = [k \in 1..Len(r) |->
            PropAt(l, r[k]).offset + (IF k = Len(r) THEN 0 ELSE from[k + 1])]

LEMMA SumUnique ==
  ASSUME NEW l, NEW r, Len(r) \in Nat, NEW f, NEW g, SumOf(l, r, f), SumOf(l, r, g)
  PROVE  f = g
<1> DEFINE n == Len(r)
<1> DEFINE S == {m \in Nat : m < n /\ f[n - m] # g[n - m]}
<1>1. ASSUME S # {}  PROVE FALSE
  <2>1. S \subseteq Nat
    OBVIOUS
  <2> HIDE DEF S
  <2>2. PICK m \in S : \A j \in S : m <= j
    BY <1>1, <2>1, Least
  <2> USE DEF S
  <2>3. m \in Nat /\ m < n /\ f[n - m] # g[n - m] /\ n - m \in 1..n
    BY <2>2
  <2>4. n - m # n => f[(n - m) + 1] = g[(n - m) + 1]
    <3> SUFFICES ASSUME m # 0  PROVE f[(n - m) + 1] = g[(n - m) + 1]
      BY <2>3
    <3>1. m - 1 \in Nat /\ m - 1 < n /\ m - 1 \notin S /\ n - (m - 1) = (n - m) + 1
      BY <2>2, <2>3
    <3> QED  BY <3>1
  <2> DEFINE k == n - m
  <2> HIDE DEF k
  <2>5. k \in 1..n /\ f[k] # g[k] /\ (k # n => f[k + 1] = g[k + 1])
    BY <2>3, <2>4 DEF k
  <2> QED  BY <2>5 DEF SumOf
<1>2. ASSUME NEW k \in 1..n  PROVE f[k] = g[k]
  <2>1. n - k \in Nat /\ n - k < n /\ n - (n - k) = k
    OBVIOUS
  <2>2. n - k \notin S
    <3> HIDE DEF S
    <3> QED  BY <1>1
  <2> QED  BY <2>1, <2>2
<1> QED  BY <1>2 DEF SumOf

LEMMA OffsetIsSum ==
  ASSUME NEW l, NEW r, Len(r) \in Nat, NEW from, SumOf(l, r, from)
  PROVE  RouteOffset(l, r) = from[1]
<1> DEFINE f == CHOOSE g : SumOf(l, r, g)
<1>1. RouteOffset(l, r) = f[1]
  BY DEF RouteOffset, SumOf
<1>2. SumOf(l, r, f)
  OBVIOUS
<1> QED  BY <1>1, <1>2, SumUnique

\* The sum is there, and an integer.
LEMMA OffsetType ==
  ASSUME NEW l \in Layouts, NEW t, NEW r \in Routes(l, t)
  PROVE  RouteOffset(l, r) \in Int
<1> DEFINE n == Len(r)
<1> DEFINE o == [k \in 1..n |-> PropAt(l, r[k]).offset]
<1>1. n \in Nat /\ n > 0 /\ \A k \in 1..n : o[k] \in Int
  BY RouteType, PositionType
<1> DEFINE From(m, g) == g \in [m..n -> Int] /\ \A k \in m..n : g[k] = o[k] + (IF k = n THEN 0 ELSE g[k + 1])
<1> DEFINE S == {j \in Nat : j < n /\ \A g : ~From(n - j, g)}
<1>2. S = {}
  <2> SUFFICES ASSUME S # {}  PROVE FALSE
    OBVIOUS
  <2>1. S \subseteq Nat
    OBVIOUS
  <2> HIDE DEF S
  <2>2. PICK j \in S : \A i \in S : j <= i
    BY <2>1, Least
  <2> HIDE DEF From
  <2> USE DEF S
  <2> DEFINE m == n - j
  <2>3. j \in Nat /\ j < n /\ m \in 1..n /\ \A g : ~From(m, g)
    BY <2>2
  <2> HIDE DEF o
  <2>4. CASE j = 0
    <3> DEFINE g == [k \in m..n |-> o[k]]
    <3>1. m = n
      BY <2>4, <1>1
    <3>2. g \in [m..n -> Int] /\ \A k \in m..n : k = n /\ g[k] = o[k]
      BY <1>1, <3>1
    <3>3. From(m, g)
      BY <3>2, <1>1 DEF From
    <3> QED  BY <2>3, <3>3
  <2>5. CASE j # 0
    <3>1. j - 1 \in Nat /\ j - 1 < n /\ j - 1 \notin S /\ n - (j - 1) = m + 1
      BY SMTT(30), <1>1, <2>2, <2>3, <2>5
    <3>2. PICK f : From(m + 1, f)
      BY <3>1
    <3> DEFINE g == [k \in m..n |-> IF k = m THEN o[m] + f[m + 1] ELSE f[k]]
    <3> HIDE DEF m
    <3>3. m \in 1..(n - 1) /\ m + 1 \in (m + 1)..n
      BY <1>1, <2>3, <2>5 DEF m
    <3>4. \A k \in (m + 1)..n : f[k] \in Int /\ f[k] = o[k] + (IF k = n THEN 0 ELSE f[k + 1])
      BY <3>2 DEF From
    <3>5. g \in [m..n -> Int]
      BY <1>1, <3>3, <3>4
    <3>6. ASSUME NEW k \in m..n  PROVE g[k] = o[k] + (IF k = n THEN 0 ELSE g[k + 1])
      BY <1>1, <3>3, <3>4
    <3> HIDE DEF g
    <3>7. From(m, g)
      BY <3>5, <3>6 DEF From
    <3> QED  BY <2>3, <3>7
  <2> QED  BY <2>4, <2>5
<1>3. PICK g : From(1, g)
  <2>1. n - 1 \in Nat /\ n - 1 < n /\ n - (n - 1) = 1
    BY <1>1
  <2>2. n - 1 \notin S
    <3> HIDE DEF S
    <3> QED  BY <1>2
  <2> HIDE DEF From
  <2> QED  BY <2>1, <2>2
<1>4. /\ g = [k \in 1..n |-> o[k] + (IF k = n THEN 0 ELSE g[k + 1])]
      /\ g[1] \in Int
  BY <1>1, <1>3
<1>5. SumOf(l, r, g)
  BY <1>4 DEF SumOf
<1> QED  BY <1>1, <1>4, <1>5, OffsetIsSum

-----------------------------------------------------------------------------
(* The order of routes.                                                    *)

LEMMA PrecedesOneWay ==
  ASSUME NEW l \in Layouts, NEW t, NEW u, NEW r \in Routes(l, t), NEW s \in Routes(l, u),
         Precedes(r, s), Precedes(s, r)
  PROVE  FALSE
<1>1. PICK k \in 1..Len(r) : k <= Len(s) /\ r[k].idx < s[k].idx /\ \A j \in 1..(k - 1) : r[j] = s[j]
  BY DEF Precedes
<1>2. PICK m \in 1..Len(s) : m <= Len(r) /\ s[m].idx < r[m].idx /\ \A j \in 1..(m - 1) : s[j] = r[j]
  BY DEF Precedes
<1>3. /\ Len(r) \in Nat /\ Len(s) \in Nat
      /\ \A j \in 1..Len(r) : r[j].idx \in Nat
      /\ \A j \in 1..Len(s) : s[j].idx \in Nat
  BY RouteType
<1>4. CASE k < m
  <2>1. s[k] = r[k] /\ k \in 1..Len(r) /\ k \in 1..Len(s)
    BY <1>1, <1>2, <1>3, <1>4
  <2> QED  BY <1>1, <1>3, <2>1
<1>5. CASE m < k
  <2>1. s[m] = r[m] /\ m \in 1..Len(r) /\ m \in 1..Len(s)
    BY <1>1, <1>2, <1>3, <1>5
  <2> QED  BY <1>2, <1>3, <2>1
<1>6. CASE k = m
  <2>1. k \in 1..Len(r) /\ k \in 1..Len(s) /\ r[k].idx < s[k].idx /\ s[k].idx < r[k].idx
    BY <1>1, <1>2, <1>3, <1>6
  <2> QED  BY <1>3, <2>1
<1> QED  BY <1>3, <1>4, <1>5, <1>6

LEMMA PrecedesTransitive ==
  ASSUME NEW l \in Layouts, NEW t, NEW r \in Routes(l, t), NEW s \in Routes(l, t),
         NEW q \in Routes(l, t), Precedes(r, s), Precedes(s, q)
  PROVE  Precedes(r, q)
<1>1. PICK k \in 1..Len(r) : k <= Len(s) /\ r[k].idx < s[k].idx /\ \A j \in 1..(k - 1) : r[j] = s[j]
  BY DEF Precedes
<1>2. PICK m \in 1..Len(s) : m <= Len(q) /\ s[m].idx < q[m].idx /\ \A j \in 1..(m - 1) : s[j] = q[j]
  BY DEF Precedes
<1>3. /\ Len(r) \in Nat /\ Len(s) \in Nat /\ Len(q) \in Nat
      /\ \A j \in 1..Len(r) : r[j].idx \in Nat
      /\ \A j \in 1..Len(s) : s[j].idx \in Nat
      /\ \A j \in 1..Len(q) : q[j].idx \in Nat
  BY RouteType
<1> DEFINE i == IF k <= m THEN k ELSE m
<1>4. i \in 1..Len(r) /\ i <= Len(q) /\ \A j \in 1..(i - 1) : r[j] = q[j]
  BY <1>1, <1>2, <1>3
<1>5. r[i].idx < q[i].idx
  <2>1. CASE k < m
    <3>1. s[k] = q[k] /\ i = k
      BY <1>2, <1>3, <2>1
    <3> QED  BY <1>1, <3>1
  <2>2. CASE m < k
    <3>1. r[m] = s[m] /\ i = m
      BY <1>1, <1>3, <2>2
    <3> QED  BY <1>2, <3>1
  <2>3. CASE k = m
    <3>1. r[k].idx \in Nat /\ s[k].idx \in Nat /\ q[k].idx \in Nat /\ i = k
      BY <1>1, <1>2, <1>3, <2>3
    <3> QED  BY <1>1, <1>2, <2>3, <3>1
  <2> QED  BY <1>3, <2>1, <2>2, <2>3
<1> HIDE DEF i
<1> QED  BY <1>4, <1>5 DEF Precedes

\* Two routes that agree in all but the end end together: below a value
\* there is nothing.
LEMMA RoutesEnd ==
  ASSUME NEW l \in Layouts, NEW t, NEW r \in Routes(l, t), NEW s \in Routes(l, t),
         Len(r) <= Len(s), \A k \in 1..Len(r) : r[k] = s[k]
  PROVE  r = s
<1>1. /\ Len(r) \in Nat /\ Len(s) \in Nat /\ Len(r) > 0
      /\ r \in Seq(Positions(l)) /\ s \in Seq(Positions(l))
      /\ PropAt(l, r[Len(r)]).sub = NoTable
      /\ \A k \in 1..(Len(s) - 1) : PropAt(l, s[k]).sub = s[k + 1].table
      /\ \A k \in 1..Len(s) : s[k].table \in Table
  <2>1. /\ Len(r) \in Nat /\ Len(r) > 0 /\ r \in Seq(Positions(l))
        /\ PropAt(l, r[Len(r)]).sub = NoTable
    BY RouteType
  <2>2. /\ Len(s) \in Nat /\ s \in Seq(Positions(l))
        /\ \A k \in 1..(Len(s) - 1) : PropAt(l, s[k]).sub = s[k + 1].table
    BY RouteType
  <2>3. ASSUME NEW k \in 1..Len(s)  PROVE s[k].table \in Table
    BY RouteType
  <2> QED  BY <2>1, <2>2, <2>3
<1>2. Len(r) = Len(s)
  <2> SUFFICES ASSUME Len(r) < Len(s)  PROVE FALSE
    BY <1>1
  <2> DEFINE n == Len(r)
  <2>1. n \in 1..(Len(s) - 1) /\ n + 1 \in 1..Len(s) /\ r[n] = s[n]
    BY <1>1
  <2>2. s[n + 1].table \in Table /\ PropAt(l, s[n]).sub = s[n + 1].table
    BY <1>1, <2>1
  <2> QED  BY <1>1, <2>1, <2>2, ClassAssumption
<1> QED  BY <1>1, <1>2, SeqEqual

LEMMA PrecedesTotal ==
  ASSUME NEW l \in Layouts, NEW t, NEW r \in Routes(l, t), NEW s \in Routes(l, t)
  PROVE  r = s \/ Precedes(r, s) \/ Precedes(s, r)
<1> DEFINE S == {k \in 1..Len(r) : k <= Len(s) /\ r[k] # s[k]}
<1>1. /\ Len(r) \in Nat /\ Len(s) \in Nat /\ Len(r) > 0 /\ Len(s) > 0
      /\ r[1].table = t /\ s[1].table = t
      /\ \A k \in 1..Len(r) : r[k].idx \in Nat /\ r[k] = [table |-> r[k].table, idx |-> r[k].idx]
      /\ \A k \in 1..Len(s) : s[k].idx \in Nat /\ s[k] = [table |-> s[k].table, idx |-> s[k].idx]
      /\ \A k \in 1..(Len(r) - 1) : PropAt(l, r[k]).sub = r[k + 1].table
      /\ \A k \in 1..(Len(s) - 1) : PropAt(l, s[k]).sub = s[k + 1].table
  BY RouteType
<1>2. CASE S = {}
  <2>1. \A k \in 1..Len(r) : k <= Len(s) => r[k] = s[k]
    BY <1>2
  <2>2. CASE Len(r) <= Len(s)
    BY <1>1, <2>1, <2>2, RoutesEnd
  <2>3. CASE Len(s) <= Len(r)
    <3>1. \A k \in 1..Len(s) : s[k] = r[k]
      BY <1>1, <2>1, <2>3
    <3> QED  BY <2>3, <3>1, RoutesEnd
  <2> QED  BY <1>1, <2>2, <2>3
<1>3. CASE S # {}
  <2>1. S \subseteq Nat
    OBVIOUS
  <2> HIDE DEF S
  <2>2. PICK k \in S : \A j \in S : k <= j
    BY <1>3, <2>1, Least
  <2> USE DEF S
  <2>3. k \in 1..Len(r) /\ k \in 1..Len(s) /\ r[k] # s[k]
    BY <1>1, <2>2
  <2>4. ASSUME NEW j \in 1..(k - 1)  PROVE r[j] = s[j]
    <3>1. j \notin S /\ j \in 1..Len(r) /\ j <= Len(s)
      BY <1>1, <2>2, <2>3
    <3> QED  BY <3>1
  <2>5. r[k].table = s[k].table
    <3>1. CASE k = 1
      BY <1>1, <3>1
    <3>2. CASE k # 1
      <4>1. k - 1 \in 1..(Len(r) - 1) /\ k - 1 \in 1..(Len(s) - 1) /\ (k - 1) + 1 = k
        BY <1>1, <2>3, <3>2
      <4>2. r[k - 1] = s[k - 1]
        BY <2>3, <2>4, <3>2
      <4> QED  BY <1>1, <4>1, <4>2
    <3> QED  BY <3>1, <3>2
  <2>6. r[k].idx # s[k].idx /\ r[k].idx \in Nat /\ s[k].idx \in Nat
    BY <1>1, <2>3, <2>5
  <2>7. r[k].idx < s[k].idx \/ s[k].idx < r[k].idx
    BY <2>6
  <2>8. r[k].idx < s[k].idx => Precedes(r, s)
    BY <1>1, <2>3, <2>4 DEF Precedes
  <2>9. s[k].idx < r[k].idx => Precedes(s, r)
    BY <1>1, <2>3, <2>4 DEF Precedes
  <2> QED  BY <2>7, <2>8, <2>9
<1> QED  BY <1>2, <1>3

LEMMA FoundType ==
  ASSUME NEW l, NEW n \in Int, NEW f \in Found(l, n)
  PROVE  /\ f = <<f[1], f[2]>> /\ f[1] \in 1..n /\ f[1] \in Int
         /\ f[2] \in Routes(l, ClassList[f[1]].table)
<1>1. PICK c \in 1..n : \E r \in Routes(l, ClassList[c].table) : f = <<c, r>>
  BY DEF Found
<1> QED  BY <1>1

\* Before is a strict total order of what is found.
LEMMA BeforeOrders ==
  ASSUME NEW l \in Layouts, NEW n \in Int
  PROVE  /\ \A f, g \in Found(l, n) : ~(Before(f, g) /\ Before(g, f))
         /\ \A f, g \in Found(l, n) : f = g \/ Before(f, g) \/ Before(g, f)
         /\ \A f, g, h \in Found(l, n) : Before(f, g) /\ Before(g, h) => Before(f, h)
<1>1. ASSUME NEW f \in Found(l, n), NEW g \in Found(l, n), Before(f, g), Before(g, f)
      PROVE  FALSE
  <2>1. f[1] \in Int /\ g[1] \in Int
    BY FoundType
  <2>2. f[1] = g[1] /\ Precedes(f[2], g[2]) /\ Precedes(g[2], f[2])
    BY <1>1, <2>1 DEF Before
  <2> QED  BY <2>2, FoundType, PrecedesOneWay
<1>2. ASSUME NEW f \in Found(l, n), NEW g \in Found(l, n)
      PROVE  f = g \/ Before(f, g) \/ Before(g, f)
  <2>1. /\ f[1] \in Int /\ g[1] \in Int /\ f = <<f[1], f[2]>> /\ g = <<g[1], g[2]>>
        /\ f[2] \in Routes(l, ClassList[f[1]].table) /\ g[2] \in Routes(l, ClassList[g[1]].table)
    BY FoundType
  <2>2. CASE f[1] # g[1]
    BY <2>1, <2>2 DEF Before
  <2>3. CASE f[1] = g[1]
    <3>1. f[2] = g[2] \/ Precedes(f[2], g[2]) \/ Precedes(g[2], f[2])
      BY <2>1, <2>3, PrecedesTotal
    <3> QED  BY <2>1, <2>3, <3>1 DEF Before
  <2> QED  BY <2>2, <2>3
<1>3. ASSUME NEW f \in Found(l, n), NEW g \in Found(l, n), NEW h \in Found(l, n),
             Before(f, g), Before(g, h)
      PROVE  Before(f, h)
  <2>1. f[1] \in Int /\ g[1] \in Int /\ h[1] \in Int
    BY FoundType
  <2>2. CASE f[1] < h[1]
    BY <2>2 DEF Before
  <2>3. CASE ~(f[1] < h[1])
    <3>1. f[1] = g[1] /\ g[1] = h[1] /\ Precedes(f[2], g[2]) /\ Precedes(g[2], h[2])
      BY <1>3, <2>1, <2>3 DEF Before
    <3>2. Precedes(f[2], h[2])
      BY <3>1, FoundType, PrecedesTransitive
    <3> QED  BY <3>1, <3>2 DEF Before
  <2> QED  BY <2>2, <2>3
<1> QED  BY <1>1, <1>2, <1>3

-----------------------------------------------------------------------------
(* There are finitely many routes, so that each name has a last one.       *)

LEMMA UnionFinite ==
  ASSUME NEW S, IsFiniteSet(S), NEW f, DOMAIN f = S, \A x \in S : IsFiniteSet(f[x])
  PROVE  IsFiniteSet(UNION {f[x] : x \in S})
<1> DEFINE T == {f[x] : x \in S}
<1> DEFINE g == [x \in S |-> f[x]]
<1>1. g \in Surjection(S, T)
  BY DEF Surjection
<1> HIDE DEF g
<1>2. IsFiniteSet(T)
  <2> HIDE DEF T
  <2> QED  BY <1>1, FS_Surjection
<1> QED  BY <1>2, FS_UNION

LEMMA RowsFinite ==
  ASSUME NEW S, IsFiniteSet(S), NEW n \in Nat
  PROVE  IsFiniteSet([1..n -> S])
<1> DEFINE D == 1..n
<1> DEFINE pairs == [r \in [D -> S] |-> {<<k, r[k]>> : k \in D}]
<1>1. IsFiniteSet(D)
  BY FS_Interval
<1> HIDE DEF D
<1>2. IsFiniteSet(SUBSET (D \X S))
  BY <1>1, FS_Product, FS_SUBSET
<1>3. pairs \in [[D -> S] -> SUBSET (D \X S)]
  OBVIOUS
<1>4. ASSUME NEW r \in [D -> S], NEW s \in [D -> S], pairs[r] = pairs[s]
      PROVE  r = s
  <2>1. ASSUME NEW k \in D  PROVE r[k] = s[k]
    <3>1. <<k, r[k]>> \in {<<j, s[j]>> : j \in D}
      BY <1>4
    <3> QED  BY <3>1
  <2> QED  BY <2>1
<1> HIDE DEF pairs
<1>5. pairs \in Injection([D -> S], SUBSET (D \X S))
  BY <1>3, <1>4 DEF Injection, IsInjective
<1>6. IsFiniteSet([D -> S])
  BY <1>2, <1>5, FS_Injection
<1> QED  BY <1>6 DEF D

LEMMA PositionsFinite ==
  ASSUME NEW l \in Layouts
  PROVE  IsFiniteSet(Positions(l))
<1> DEFINE f == [t \in Table |-> {[table |-> t, idx |-> i] : i \in 1..Len(l[t])}]
<1>1. ASSUME NEW t \in Table  PROVE IsFiniteSet(f[t])
  <2> DEFINE g == [i \in 1..Len(l[t]) |-> [table |-> t, idx |-> i]]
  <2>1. IsFiniteSet(1..Len(l[t]))
    BY LayoutType, FS_Interval
  <2>2. g \in Surjection(1..Len(l[t]), f[t])
    BY DEF Surjection
  <2> HIDE DEF g, f
  <2> QED  BY <2>1, <2>2, FS_Surjection
<1>2. IsFiniteSet(Table) /\ DOMAIN f = Table
  BY NestingAssumption
<1>3. Positions(l) = UNION {f[t] : t \in Table}
  BY DEF Positions
<1> HIDE DEF f
<1> QED  BY <1>1, <1>2, <1>3, UnionFinite

LEMMA RoutesFinite ==
  ASSUME NEW l \in Layouts, NEW t
  PROVE  IsFiniteSet(Routes(l, t))
<1> DEFINE N == Cardinality(Table)
<1> DEFINE f == [m \in 0..N |-> [1..m -> Positions(l)]]
<1>1. N \in Nat /\ IsFiniteSet(0..N)
  BY TablesFinite, FS_Interval
<1>2. \A m \in 0..N : IsFiniteSet(f[m])
  <2> SUFFICES ASSUME NEW m \in 0..N  PROVE IsFiniteSet(f[m])
    OBVIOUS
  <2>1. m \in Nat
    BY <1>1
  <2> QED  BY <2>1, PositionsFinite, RowsFinite
<1>3. DOMAIN f = 0..N /\ SeqOf(Positions(l), N) = UNION {f[m] : m \in 0..N}
  BY DEF SeqOf
<1> HIDE DEF f
<1>4. IsFiniteSet(SeqOf(Positions(l), N))
  BY <1>1, <1>2, <1>3, UnionFinite
<1>5. Routes(l, t) \in SUBSET SeqOf(Positions(l), N)
  BY DEF Routes
<1> QED  BY <1>4, <1>5, FS_Subset

LEMMA FoundFinite ==
  ASSUME NEW l \in Layouts, NEW n \in Int
  PROVE  IsFiniteSet(Found(l, n))
<1> DEFINE f == [c \in 1..n |-> {<<c, r>> : r \in Routes(l, ClassList[c].table)}]
<1>1. ASSUME NEW c \in 1..n  PROVE IsFiniteSet(f[c])
  <2> DEFINE S == Routes(l, ClassList[c].table)
  <2> DEFINE g == [r \in S |-> <<c, r>>]
  <2>1. IsFiniteSet(S)
    BY RoutesFinite
  <2>2. g \in Surjection(S, f[c])
    BY DEF Surjection
  <2> HIDE DEF g, f, S
  <2> QED  BY <2>1, <2>2, FS_Surjection
<1>2. IsFiniteSet(1..n) /\ DOMAIN f = 1..n
  BY FS_Interval
<1>3. Found(l, n) = UNION {f[c] : c \in 1..n}
  BY DEF Found
<1> HIDE DEF f
<1> QED  BY <1>1, <1>2, <1>3, UnionFinite

\* Of some that are found, one is last.
LEMMA LastExists ==
  ASSUME NEW l \in Layouts, NEW n \in Int, NEW D \in SUBSET Found(l, n), D # {}
  PROVE  \E f \in D : \A g \in D : g = f \/ Before(g, f)
<1> DEFINE HasLast(E) == \E f \in E : \A g \in E : g = f \/ Before(g, f)
<1> DEFINE S == {Cardinality(E) : E \in {E \in SUBSET Found(l, n) : E # {} /\ ~HasLast(E)}}
<1>1. ASSUME NEW E \in SUBSET Found(l, n)
      PROVE  IsFiniteSet(E) /\ Cardinality(E) \in Nat
  BY FoundFinite, FS_Subset, FS_CardinalityType
<1>2. S = {}
  <2> SUFFICES ASSUME S # {}  PROVE FALSE
    OBVIOUS
  <2>1. S \subseteq Nat
    BY <1>1
  <2> HIDE DEF S
  <2>2. PICK m \in S : \A j \in S : m <= j
    BY <2>1, Least
  <2> USE DEF S
  <2>3. PICK E \in SUBSET Found(l, n) : E # {} /\ ~HasLast(E) /\ Cardinality(E) = m
    BY <2>2
  <2>4. PICK x \in E : TRUE
    BY <2>3
  <2> DEFINE R == E \ {x}
  <2>5. R \in SUBSET Found(l, n) /\ Cardinality(R) = m - 1 /\ m \in Nat
    BY <1>1, <2>3, <2>4, FS_RemoveElement
  <2>6. R # {}
    <3> SUFFICES ASSUME R = {}  PROVE FALSE
      OBVIOUS
    <3>1. \A g \in E : g = x
      OBVIOUS
    <3> QED  BY <2>3, <2>4, <3>1
  <2>7. HasLast(R)
    <3> SUFFICES ASSUME ~HasLast(R)  PROVE FALSE
      OBVIOUS
    <3> HIDE DEF HasLast, R
    <3>1. m - 1 \in S
      BY <2>5, <2>6
    <3> HIDE DEF S
    <3> QED  BY <2>2, <2>5, <3>1
  <2>8. PICK f \in R : \A g \in R : g = f \/ Before(g, f)
    BY <2>7
  <2>9. f \in Found(l, n) /\ x \in Found(l, n) /\ E = R \cup {x} /\ f # x
    BY <2>4, <2>5
  <2> HIDE DEF R
  <2>10. CASE Before(x, f)
    <3>1. \A g \in E : g = f \/ Before(g, f)
      BY <2>8, <2>9, <2>10
    <3> QED  BY <2>3, <2>9, <3>1
  <2>11. CASE Before(f, x)
    <3>1. ASSUME NEW g \in E  PROVE g = x \/ Before(g, x)
      BY <2>3, <2>8, <2>9, <2>11, BeforeOrders
    <3> QED  BY <2>3, <2>4, <3>1
  <2> QED  BY <2>9, <2>10, <2>11, BeforeOrders
<1>3. Cardinality(D) \notin S
  <2> HIDE DEF S
  <2> QED  BY <1>2
<1> QED  BY <1>3

\* The last one of a name is one only.
LEMMA LastUnique ==
  ASSUME NEW l \in Layouts, NEW n \in Int, NEW D \in SUBSET Found(l, n),
         NEW f \in D, NEW g \in D, KeyOf(l, f) = KeyOf(l, g), IsLast(l, D, f), IsLast(l, D, g)
  PROVE  f = g
BY BeforeOrders DEF IsLast

\* A map of what is found in D: each name is there, with the offset of the
\* last route that has it.
MapOf(l, D, m) ==
  /\ m = [key \in {KeyOf(l, f) : f \in D} |-> m[key]]
  /\ \A key \in DOMAIN m : \E f \in D :
       KeyOf(l, f) = key /\ IsLast(l, D, f) /\ m[key] = RouteOffset(l, f[2])

LEMMA MapIsFlat ==
  ASSUME NEW l \in Layouts, NEW n \in Int, NEW m, MapOf(l, Found(l, n), m)
  PROVE  m = Flat(l, n)
<1> DEFINE D == Found(l, n)
<1> DEFINE K == {KeyOf(l, f) : f \in D}
<1> DEFINE Final(key) == CHOOSE f \in D : KeyOf(l, f) = key /\ IsLast(l, D, f)
<1>1. m = [key \in K |-> m[key]] /\ DOMAIN m = K
  BY DEF MapOf
<1>2. ASSUME NEW key \in K  PROVE m[key] = RouteOffset(l, Final(key)[2])
  <2>1. PICK f \in D : KeyOf(l, f) = key /\ IsLast(l, D, f) /\ m[key] = RouteOffset(l, f[2])
    BY <1>1, <1>2 DEF MapOf
  <2>2. Final(key) \in D /\ KeyOf(l, Final(key)) = key /\ IsLast(l, D, Final(key))
    BY <2>1
  <2>3. Final(key) = f
    BY <2>1, <2>2, LastUnique
  <2> QED  BY <2>1, <2>3
<1>3. Flat(l, n) = [key \in K |-> RouteOffset(l, Final(key)[2])]
  BY DEF Flat
<1> HIDE DEF Final, K
<1> QED  BY <1>1, <1>2, <1>3

LEMMA FlatType ==
  ASSUME NEW l \in Layouts, NEW n \in Int, NEW key \in DOMAIN Flat(l, n)
  PROVE  Flat(l, n)[key] \in Int
<1> DEFINE D == Found(l, n)
<1> DEFINE K == {KeyOf(l, f) : f \in D}
<1> DEFINE Final(k) == CHOOSE f \in D : KeyOf(l, f) = k /\ IsLast(l, D, f)
<1>1. Flat(l, n) = [k \in K |-> RouteOffset(l, Final(k)[2])]
  BY DEF Flat
<1>2. \E f \in D : KeyOf(l, f) = key /\ IsLast(l, D, f)
  <2> DEFINE E == {f \in D : KeyOf(l, f) = key}
  <2>1. E \in SUBSET D /\ E # {}
    BY <1>1
  <2>2. PICK f \in E : \A g \in E : g = f \/ Before(g, f)
    <3> HIDE DEF E
    <3> QED  BY <2>1, LastExists
  <2> QED  BY <2>2 DEF IsLast
<1>3. Final(key) \in D
  BY <1>2
<1> HIDE DEF Final
<1>4. RouteOffset(l, Final(key)[2]) \in Int
  BY <1>3, FoundType, OffsetType
<1> QED  BY <1>1, <1>4

-----------------------------------------------------------------------------
(* How the row of coroutines goes through the routes.                      *)

\* Where the frames of s are.
Pos(s) == [d \in 1..Len(s) |-> [table |-> s[d].table, idx |-> s[d].idx]]

\* A row one longer, at its first property.
LEMMA OpenedPrecedes ==
  ASSUME NEW l \in Layouts, NEW t, NEW r \in Routes(l, t),
         NEW p, NEW q, Len(p) \in Nat, Len(q) = Len(p) + 1,
         \A d \in 1..Len(p) : q[d] = p[d], q[Len(q)].idx = 1
  PROVE  Precedes(r, q) <=> Precedes(r, p)
<1>1. Len(r) \in Nat /\ \A k \in 1..Len(r) : r[k].idx \in Nat /\ r[k].idx > 0
  <2>1. Len(r) \in Nat
    BY RouteType
  <2>2. ASSUME NEW k \in 1..Len(r)  PROVE r[k].idx \in Nat /\ r[k].idx > 0
    BY RouteAt
  <2> QED  BY <2>1, <2>2
<1>2. ASSUME Precedes(r, q)  PROVE Precedes(r, p)
  <2>1. PICK k \in 1..Len(r) : k <= Len(q) /\ r[k].idx < q[k].idx /\ \A j \in 1..(k - 1) : r[j] = q[j]
    BY <1>2 DEF Precedes
  <2>2. k # Len(q)
    BY <1>1, <2>1
  <2>3. k \in 1..Len(p) /\ \A j \in 1..(k - 1) : j \in 1..Len(p)
    BY <1>1, <2>1, <2>2
  <2> QED  BY <2>1, <2>3 DEF Precedes
<1>3. ASSUME Precedes(r, p)  PROVE Precedes(r, q)
  <2>1. PICK k \in 1..Len(r) : k <= Len(p) /\ r[k].idx < p[k].idx /\ \A j \in 1..(k - 1) : r[j] = p[j]
    BY <1>3 DEF Precedes
  <2>2. k \in 1..Len(p) /\ k <= Len(q) /\ \A j \in 1..(k - 1) : j \in 1..Len(p)
    BY <1>1, <2>1
  <2> QED  BY <2>1, <2>2 DEF Precedes
<1> QED  BY <1>2, <1>3

\* A row that is at the end of the class's own table is behind every route.
LEMMA EndedPrecedes ==
  ASSUME NEW l \in Layouts, NEW t, NEW r \in Routes(l, t),
         NEW p, Len(p) = 1, p[1].table = t, p[1].idx \in Nat, p[1].idx > Len(l[t])
  PROVE  Precedes(r, p)
<1>1. /\ Len(r) \in Nat /\ Len(r) > 0 /\ r[1].table = t
  BY RouteType
<1>2. 1 \in 1..Len(r)
  BY <1>1
<1>3. r[1].table \in Table /\ r[1].idx \in 1..Len(l[r[1].table])
  BY <1>2, RouteType
<1>4. Len(l[t]) \in Nat
  BY <1>1, <1>3, LayoutType
<1>5. r[1].idx < p[1].idx
  BY <1>1, <1>3, <1>4
<1> QED  BY <1>1, <1>2, <1>5 DEF Precedes

\* Rows that go through one property are then at one table.
LEMMA SharedTable ==
  ASSUME NEW l \in Layouts, NEW t, NEW r \in Routes(l, t), NEW p, NEW n \in 1..Len(r),
         p[1].table = t,
         n > 1 => r[n - 1] = p[n - 1] /\ PropAt(l, p[n - 1]).sub = p[n].table
  PROVE  r[n].table = p[n].table
<1>1. Len(r) \in Nat /\ r[1].table = t
  BY RouteType
<1>2. CASE n = 1
  BY <1>1, <1>2
<1>3. CASE n # 1
  <2> DEFINE m == n - 1
  <2>1. m \in 1..Len(r) /\ m + 1 = n /\ m # Len(r) /\ n > 1
    BY <1>1, <1>3
  <2> HIDE DEF m
  <2>2. PropAt(l, r[m]).sub = r[m + 1].table
    BY <2>1, RouteAt
  <2> QED  BY <2>1, <2>2 DEF m
<1> QED  BY <1>2, <1>3

\* p, at the end of the table that its last frame is in, goes on as q.
Closes(l, t, p, q) ==
  LET n == Len(q) IN
  /\ n \in Nat /\ n > 0 /\ Len(p) = n + 1
  /\ p[1].table = t
  /\ p[n] \in [table : Table, idx : Nat] /\ p[n + 1] \in [table : Table, idx : Nat]
  /\ \A d \in 1..n : PropAt(l, p[d]).sub = p[d + 1].table
  /\ p[n + 1].idx > Len(l[p[n + 1].table])
  /\ \A d \in 1..(n - 1) : q[d] = p[d]
  /\ q[n].idx = p[n].idx + 1

LEMMA ClosedPrecedes ==
  ASSUME NEW l \in Layouts, NEW t, NEW r \in Routes(l, t), NEW p, NEW q, Closes(l, t, p, q)
  PROVE  Precedes(r, q) <=> Precedes(r, p)
<1> DEFINE n == Len(q)
<1>1. Len(r) \in Nat /\ n \in Nat /\ n > 0 /\ Len(p) = n + 1
  BY RouteType DEF Closes
<1>2. \A k \in 1..Len(r) : r[k].idx \in Nat
  BY RouteAt
<1>3. p[n] \in [table : Table, idx : Nat] /\ p[n].idx \in Nat /\ q[n].idx = p[n].idx + 1
  BY DEF Closes
<1>4. \A d \in 1..(n - 1) : q[d] = p[d]
  BY DEF Closes
<1>5. ASSUME NEW k \in 1..Len(r), k < n
      PROVE  q[k] = p[k] /\ \A j \in 1..(k - 1) : p[j] = q[j]
  BY <1>1, <1>4, <1>5
<1>6. \A j \in 1..(n - 1) : p[j] = q[j]
  BY <1>4
\* A route that is with p in its n-th property goes into the table there.
<1>7. ASSUME n \in 1..Len(r), \A j \in 1..(n - 1) : r[j] = p[j], r[n].idx = p[n].idx
      PROVE  Precedes(r, p)
  <2>1. r[n].table = p[n].table
    <3>1. n > 1 => r[n - 1] = p[n - 1] /\ PropAt(l, p[n - 1]).sub = p[n].table
      <4> SUFFICES ASSUME n > 1  PROVE r[n - 1] = p[n - 1] /\ PropAt(l, p[n - 1]).sub = p[n].table
        OBVIOUS
      <4>1. n - 1 \in 1..(n - 1) /\ n - 1 \in 1..n /\ (n - 1) + 1 = n
        BY <1>1
      <4> QED  BY <1>7, <4>1 DEF Closes
    <3>2. p[1].table = t
      BY DEF Closes
    <3> HIDE DEF n
    <3> QED  BY <1>7, <3>1, <3>2, SharedTable
  <2>2. r[n] = p[n]
    <3>1. r[n] \in [table : Table, idx : Nat]
      BY <1>7, RouteAt
    <3> QED  BY <1>3, <1>7, <2>1, <3>1
  <2>3. PropAt(l, r[n]).sub = p[n + 1].table /\ p[n + 1].table \in Table
    BY <1>1, <2>2 DEF Closes
  <2>4. n # Len(r) /\ n + 1 \in 1..Len(r) /\ PropAt(l, r[n]).sub = r[n + 1].table
    BY <1>7, <2>3, RouteAt, ClassAssumption
  <2>5. r[n + 1].idx < p[n + 1].idx
    <3>1. r[n + 1].table = p[n + 1].table
      BY <2>3, <2>4
    <3>2. /\ r[n + 1].idx \in Nat /\ Len(l[r[n + 1].table]) \in Nat
          /\ r[n + 1].idx <= Len(l[r[n + 1].table])
      BY <2>4, RouteAt
    <3>3. p[n + 1].idx \in Nat /\ p[n + 1].idx > Len(l[p[n + 1].table])
      BY DEF Closes
    <3> QED  BY <3>1, <3>2, <3>3
  <2>6. \A j \in 1..((n + 1) - 1) : r[j] = p[j]
    BY <1>1, <1>7, <2>2
  <2> QED  BY <1>1, <2>4, <2>5, <2>6 DEF Precedes
<1>8. ASSUME Precedes(r, q)  PROVE Precedes(r, p)
  <2>1. PICK k \in 1..Len(r) : k <= n /\ r[k].idx < q[k].idx /\ \A j \in 1..(k - 1) : r[j] = q[j]
    BY <1>8 DEF Precedes
  <2>2. CASE k < n
    <3>1. r[k].idx < p[k].idx /\ \A j \in 1..(k - 1) : r[j] = p[j]
      BY <1>5, <2>1, <2>2
    <3> QED  BY <1>1, <2>2, <3>1 DEF Precedes
  <2>3. CASE k = n
    <3>1. n \in 1..Len(r) /\ r[n].idx < p[n].idx + 1
      BY <1>3, <2>1, <2>3
    <3>2. \A j \in 1..(n - 1) : r[j] = p[j]
      BY <1>6, <2>1, <2>3
    <3>3. CASE r[n].idx = p[n].idx
      <4> HIDE DEF n
      <4> QED  BY <1>7, <3>1, <3>2, <3>3
    <3>4. CASE r[n].idx # p[n].idx
      <4>1. r[n].idx < p[n].idx
        BY <1>2, <1>3, <3>1, <3>4
      <4> QED  BY <1>1, <3>1, <3>2, <4>1 DEF Precedes
    <3> QED  BY <3>3, <3>4
  <2> QED  BY <1>1, <2>1, <2>2, <2>3
<1>9. ASSUME Precedes(r, p)  PROVE Precedes(r, q)
  <2>1. PICK k \in 1..Len(r) : k <= n + 1 /\ r[k].idx < p[k].idx /\ \A j \in 1..(k - 1) : r[j] = p[j]
    BY <1>1, <1>9 DEF Precedes
  <2>2. CASE k < n
    <3>1. r[k].idx < q[k].idx /\ \A j \in 1..(k - 1) : r[j] = q[j]
      BY <1>5, <2>1, <2>2
    <3> QED  BY <2>2, <3>1 DEF Precedes
  <2>3. CASE k >= n
    <3>1. n \in 1..Len(r) /\ \A j \in 1..(n - 1) : j \in 1..(k - 1)
      BY <1>1, <2>1, <2>3
    <3>2. \A j \in 1..(n - 1) : r[j] = q[j]
      BY <1>6, <2>1, <3>1
    <3>3. r[n].idx <= p[n].idx
      <4>1. k = n \/ n \in 1..(k - 1)
        BY <1>1, <2>1, <2>3
      <4> QED  BY <1>2, <1>3, <2>1, <3>1, <4>1
    <3>4. r[n].idx < q[n].idx
      BY <1>2, <1>3, <3>1, <3>3
    <3> QED  BY <3>1, <3>2, <3>4 DEF Precedes
  <2> QED  BY <1>1, <2>1, <2>2, <2>3
<1> QED  BY <1>8, <1>9

\* A row that goes on behind a value has that route behind it, and no other
\* one more.
LEMMA AdvancedPrecedes ==
  ASSUME NEW l \in Layouts, NEW t, NEW r \in Routes(l, t), NEW p \in Routes(l, t),
         NEW q, Len(q) = Len(p), \A d \in 1..(Len(p) - 1) : q[d] = p[d],
         q[Len(p)].idx = p[Len(p)].idx + 1
  PROVE  Precedes(r, q) <=> r = p \/ Precedes(r, p)
<1> DEFINE n == Len(p)
<1>1. /\ Len(r) \in Nat /\ n \in Nat /\ n > 0 /\ n \in 1..n
      /\ p[1].table = t
  BY RouteType
<1>2. \A k \in 1..Len(r) : r[k].idx \in Nat
  BY RouteAt
<1>3. \A k \in 1..n : p[k].idx \in Nat
  BY RouteAt
<1>4. ASSUME Precedes(r, q)  PROVE r = p \/ Precedes(r, p)
  <2>1. PICK k \in 1..Len(r) : k <= n /\ r[k].idx < q[k].idx /\ \A j \in 1..(k - 1) : r[j] = q[j]
    BY <1>4 DEF Precedes
  <2>2. \A j \in 1..(k - 1) : r[j] = p[j]
    BY <1>1, <2>1
  <2>3. CASE k # n \/ r[k].idx < p[k].idx
    <3>1. r[k].idx < p[k].idx
      BY <1>1, <2>1, <2>3
    <3> QED  BY <1>1, <2>1, <2>2, <3>1 DEF Precedes
  <2>4. CASE k = n /\ ~(r[k].idx < p[k].idx)
    <3>1. r[n].idx = p[n].idx /\ n \in 1..Len(r)
      BY <1>1, <1>2, <1>3, <2>1, <2>4
    <3>2. r[n].table = p[n].table
      <4>1. n > 1 => r[n - 1] = p[n - 1] /\ PropAt(l, p[n - 1]).sub = p[n].table
        <5> SUFFICES ASSUME n > 1  PROVE r[n - 1] = p[n - 1] /\ PropAt(l, p[n - 1]).sub = p[n].table
          OBVIOUS
        <5>1. n - 1 \in 1..(n - 1) /\ n - 1 \in 1..n /\ n - 1 # n /\ (n - 1) + 1 = n
          BY <1>1
        <5>2. r[n - 1] = p[n - 1]
          BY <2>2, <2>4, <5>1
        <5>3. PropAt(l, p[n - 1]).sub = p[(n - 1) + 1].table
          BY <5>1, RouteAt
        <5> QED  BY <5>1, <5>2, <5>3
      <4> HIDE DEF n
      <4> QED  BY <1>1, <3>1, <4>1, SharedTable
    <3>3. r[n] = p[n]
      <4>1. r[n] \in [table : Table, idx : Nat]
        BY <3>1, RouteAt
      <4>2. p[n] \in [table : Table, idx : Nat]
        BY <1>1, RouteAt
      <4> QED  BY <3>1, <3>2, <4>1, <4>2
    <3>4. \A j \in 1..n : p[j] = r[j]
      BY <1>1, <2>2, <2>4, <3>3
    <3>5. n <= Len(r)
      BY <1>1, <3>1
    <3> QED  BY <3>4, <3>5, RoutesEnd
  <2> QED  BY <2>3, <2>4
<1>5. ASSUME r = p  PROVE Precedes(r, q)
  <2>1. n \in 1..Len(r) /\ p[n].idx < q[n].idx /\ \A j \in 1..(n - 1) : p[j] = q[j]
    BY <1>1, <1>3, <1>5
  <2> QED  BY <1>5, <2>1 DEF Precedes
<1>6. ASSUME Precedes(r, p)  PROVE Precedes(r, q)
  <2>1. PICK k \in 1..Len(r) : k <= n /\ r[k].idx < p[k].idx /\ \A j \in 1..(k - 1) : r[j] = p[j]
    BY <1>6 DEF Precedes
  <2>2. \A j \in 1..(k - 1) : r[j] = q[j]
    BY <1>1, <2>1
  <2>3. r[k].idx < q[k].idx
    BY SMTT(30), <1>1, <1>2, <1>3, <2>1
  <2> QED  BY <2>1, <2>2, <2>3 DEF Precedes
<1> QED  BY <1>4, <1>5, <1>6

-----------------------------------------------------------------------------
(* The map.                                                                *)

\* The routes that the row of coroutines has behind it.
Behind == {f \in Found(props, Len(ClassList)) : Before(f, <<class, Pos(frames)>>)}

\* At any time the map holds what is behind the row, and nothing else.
MapRight == props \in Layouts /\ MapOf(props, Behind, clientclasses)

LEMMA PosType ==
  ASSUME NEW s \in Seq(Frame)
  PROVE  /\ Len(Pos(s)) = Len(s) /\ Len(s) \in Nat
         /\ \A d \in 1..Len(s) :
              /\ Pos(s)[d].table = s[d].table /\ Pos(s)[d].idx = s[d].idx
              /\ Pos(s)[d] \in [table : Table, idx : Nat]
<1>1. \A d \in 1..Len(s) : s[d] \in Frame
  BY ElementOfSeq
<1>2. \A d \in 1..Len(s) : s[d].table \in Table /\ s[d].idx \in Nat
  BY <1>1 DEF Frame
<1> QED  BY <1>2 DEF Pos

\* What is behind the row is so in the state after a step too, if it is so of
\* the routes of the class in progress.
LEMMA MapStaysRight ==
  ASSUME MapRight, UNCHANGED <<props, class, clientclasses>>,
         \A r \in Routes(props, ClassList[class].table) :
           Precedes(r, Pos(frames')) <=> Precedes(r, Pos(frames))
  PROVE  MapRight'
<1>1. ASSUME NEW f \in Found(props, Len(ClassList))
      PROVE  Before(f, <<class, Pos(frames')>>) <=> Before(f, <<class, Pos(frames)>>)
  <2>1. Len(ClassList) \in Int
    BY ClassAssumption
  <2>2. f[1] = class => f[2] \in Routes(props, ClassList[class].table)
    BY <2>1, FoundType
  <2> QED  BY <2>2 DEF Before
<1>2. Behind' = {f \in Found(props, Len(ClassList)) : Before(f, <<class, Pos(frames')>>)}
  BY DEF Behind
<1>3. Behind' = Behind
  BY <1>1, <1>2 DEF Behind
<1>4. MapOf(props, Behind', clientclasses)
  BY <1>3 DEF MapRight
<1> QED  BY <1>4 DEF MapRight

LEMMA InitRight == ClassInit => MapRight
<1> SUFFICES ASSUME ClassInit  PROVE MapRight
  OBVIOUS
<1>1. frames = <<>> /\ class = 1 /\ props \in Layouts /\ clientclasses = [k \in {} |-> 0]
  BY DEF ClassInit
<1>2. Len(Pos(frames)) = 0
  BY <1>1 DEF Pos
<1>3. Behind = {}
  <2> SUFFICES ASSUME NEW f \in Found(props, Len(ClassList)), Before(f, <<class, Pos(frames)>>)
               PROVE  FALSE
    BY DEF Behind
  <2>1. Len(ClassList) \in Int
    BY ClassAssumption
  <2>2. f[1] \in 1..Len(ClassList) /\ f[2] \in Routes(props, ClassList[f[1]].table)
    BY <2>1, FoundType
  <2>3. Precedes(f[2], Pos(frames))
    BY <1>1, <2>1, <2>2 DEF Before
  <2> QED  BY <1>2, <2>3 DEF Precedes
<1> QED  BY <1>1, <1>3 DEF MapRight, MapOf

LEMMA BeginRight == IInv /\ MapRight /\ BeginClass => MapRight'
<1> SUFFICES ASSUME IInv, MapRight, BeginClass,
                    NEW r \in Routes(props, ClassList[class].table)
             PROVE  Precedes(r, Pos(frames')) <=> Precedes(r, Pos(frames))
  BY MapStaysRight DEF BeginClass, tableVars
<1>1. Len(Pos(frames)) = 0
  BY DEF BeginClass, Pos
<1>2. Len(Pos(frames')) = 1 /\ Pos(frames')[1].idx = 1
  BY DEF BeginClass, Pos, Started
<1>3. props \in Layouts
  BY DEF MapRight
<1> DEFINE p == Pos(frames)
<1> DEFINE q == Pos(frames')
<1>4. Len(p) \in Nat /\ Len(q) = Len(p) + 1 /\ q[Len(q)].idx = 1 /\ \A d \in 1..Len(p) : q[d] = p[d]
  BY <1>1, <1>2
<1> HIDE DEF p, q
<1>5. Precedes(r, q) <=> Precedes(r, p)
  BY <1>3, <1>4, OpenedPrecedes
<1> QED  BY <1>5 DEF p, q

LEMMA OpenRight == IInv /\ MapRight /\ OpenTable => MapRight'
<1> SUFFICES ASSUME IInv, MapRight, OpenTable,
                    NEW r \in Routes(props, ClassList[class].table)
             PROVE  Precedes(r, Pos(frames')) <=> Precedes(r, Pos(frames))
  BY MapStaysRight DEF OpenTable, tableVars
<1> DEFINE n == Len(frames)
<1> DEFINE sub == PropOf(frames[control]).sub
<1>1. frames \in Seq(Frame) /\ frames' \in Seq(Frame) /\ n \in Nat /\ props \in Layouts
  BY OpenPreserves DEF IInv, TypeOK, MapRight
<1>2. frames' = Append(frames, Started(sub))
  BY DEF OpenTable
<1> HIDE DEF sub
<1>3. Len(frames') = n + 1 /\ frames'[n + 1] = Started(sub) /\ \A d \in 1..n : frames'[d] = frames[d]
  BY <1>1, <1>2
<1>4. /\ Len(Pos(frames)) = n /\ Len(Pos(frames')) = n + 1
      /\ \A d \in 1..n : Pos(frames')[d] = Pos(frames)[d]
      /\ Pos(frames')[n + 1].idx = 1
  BY <1>1, <1>3 DEF Pos, Started
<1> QED  BY <1>1, <1>4, OpenedPrecedes

\* A value that comes up moves nothing.
LEMMA YieldsRight ==
  ASSUME IInv, MapRight, control > 0, NEW path, NEW offset, Yields(path, offset)
  PROVE  MapRight'
<1>1. frames \in Seq(Frame) /\ control \in 1..Len(frames)
  BY DEF IInv, TypeOK
<1> DEFINE f == [frames[control] EXCEPT !.path = path, !.offset = offset]
<1>2. frames' = [frames EXCEPT ![control] = f]
  BY DEF Yields
<1>3. ASSUME NEW d \in 1..Len(frames)
      PROVE  frames'[d].table = frames[d].table /\ frames'[d].idx = frames[d].idx
  <2>1. frames[d] \in Frame
    BY <1>1, ElementOfSeq
  <2>2. CASE d = control
    <3>1. f.table = frames[d].table /\ f.idx = frames[d].idx
      BY <2>1, <2>2 DEF Frame
    <3> HIDE DEF f
    <3>2. frames'[d] = f
      BY <1>1, <1>2, <2>2
    <3> QED  BY <3>1, <3>2
  <2>3. CASE d # control
    BY <1>1, <1>2, <2>3
  <2> QED  BY <2>2, <2>3
<1>4. Len(frames') = Len(frames)
  BY <1>1, <1>2
<1>5. Pos(frames') = Pos(frames)
  BY <1>3, <1>4 DEF Pos
<1> QED  BY <1>5, MapStaysRight DEF Yields, tableVars

LEMMA YieldRight == IInv /\ MapRight /\ YieldProp => MapRight'
<1> SUFFICES ASSUME IInv, MapRight, YieldProp  PROVE MapRight'
  OBVIOUS
<1>1. control > 0 /\ Yields(<<PropOf(frames[control]).name>>, PropOf(frames[control]).offset)
  BY DEF YieldProp, AtProp
<1> QED  BY <1>1, YieldsRight

LEMMA PassOnRight == IInv /\ MapRight /\ PassOn => MapRight'
<1> SUFFICES ASSUME IInv, MapRight, PassOn  PROVE MapRight'
  OBVIOUS
<1> DEFINE inner == frames[control + 1]
<1>1. /\ control > 0
      /\ Yields(<<TableName[inner.table]>> \o inner.path, SumOffset(frames[control], inner))
  BY DEF PassOn
<1> HIDE DEF inner
<1> QED  BY <1>1, YieldsRight

\* The row of coroutines is a route when its value has come up, and what has
\* come up is the name and the offset of that route.
LEMMA RowIsRoute ==
  ASSUME IInv, MapRight, control = 0, frames # <<>>
  PROVE  /\ Pos(frames) \in Routes(props, ClassList[class].table)
         /\ frames[1].path = RouteName(props, Pos(frames))
         /\ frames[1].offset = RouteOffset(props, Pos(frames))
<1> DEFINE n == Len(frames)
<1> DEFINE p == Pos(frames)
<1>1. frames \in Seq(Frame) /\ n \in Nat /\ n > 0 /\ n \in 1..n /\ props \in Layouts
  BY DEF IInv, TypeOK, MapRight
<1>2. Len(p) = n /\ p = [d \in 1..n |-> p[d]]
  BY <1>1, PosType DEF Pos
<1>3. ASSUME NEW d \in 1..n
      PROVE  /\ p[d].table = frames[d].table /\ p[d].idx = frames[d].idx
             /\ p[d] \in Positions(props)
             /\ PropAt(props, p[d]) = PropOf(frames[d]) /\ PropAt(props, p[d]) \in Prop
             /\ frames[d].path \in Seq(Name) /\ AddsUp(d)
  <2>1. AddsUp(d)
    BY <1>1 DEF IInv, ResultsAddUp
  <2>2. /\ frames[d] \in Frame /\ frames[d].idx \in 1..Len(PropsOf(frames[d]))
        /\ PropOf(frames[d]) \in Prop
    BY <2>1, PropType DEF IInv, AddsUp
  <2>3. p[d] = [table |-> frames[d].table, idx |-> frames[d].idx]
    BY DEF Pos
  <2>4. PropAt(props, p[d]) = PropOf(frames[d])
    BY <2>3 DEF PropAt, PropOf, PropsOf
  <2>5. p[d] \in Positions(props)
    BY <2>2, <2>3, IsPosition DEF PropsOf, Frame
  <2> HIDE DEF p
  <2> QED  BY <2>1, <2>2, <2>3, <2>4, <2>5 DEF Frame
<1> HIDE DEF p
<1>4. p \in Seq(Positions(props)) /\ p # <<>>
  <2>1. \A d \in 1..n : p[d] \in Positions(props)
    BY <1>3
  <2> HIDE DEF n
  <2>2. p \in Seq(Positions(props))
    BY <1>1, <1>2, <2>1
  <2> QED  BY <1>1, <1>2, <2>2
<1>5. ASSUME NEW k \in 1..n, k # n
      PROVE  /\ k + 1 \in 1..n /\ PropAt(props, p[k]).sub = p[k + 1].table
             /\ frames[k].path = <<TableName[p[k + 1].table]>> \o frames[k + 1].path
             /\ frames[k].offset = PropAt(props, p[k]).offset + frames[k + 1].offset
  <2>1. k + 1 \in 1..n
    BY <1>1, <1>5
  <2>2. /\ PropOf(frames[k]).sub = frames[k + 1].table
        /\ frames[k].path = <<TableName[frames[k + 1].table]>> \o frames[k + 1].path
        /\ frames[k].offset = PropOf(frames[k]).offset + frames[k + 1].offset
    BY <1>3, <1>5 DEF AddsUp
  <2>3. PropAt(props, p[k]) = PropOf(frames[k]) /\ p[k + 1].table = frames[k + 1].table
    BY <1>3, <2>1
  <2> QED  BY <2>1, <2>2, <2>3
<1>6. /\ PropAt(props, p[n]).sub = NoTable
      /\ frames[n].path = <<PropAt(props, p[n]).name>>
      /\ frames[n].offset = PropAt(props, p[n]).offset
  <2>1. /\ PropOf(frames[n]).sub = NoTable
        /\ frames[n].path = <<PropOf(frames[n]).name>>
        /\ frames[n].offset = PropOf(frames[n]).offset
    BY <1>1, <1>3 DEF AddsUp
  <2> QED  BY <1>1, <1>3, <2>1
<1>7. p[1].table = ClassList[class].table
  <2>1. 1 \in 1..n
    BY <1>1
  <2>2. p[1].table = frames[1].table
    BY <1>3, <2>1
  <2> QED  BY <2>2 DEF IInv, Linked
<1>8. p \in Routes(props, ClassList[class].table)
  <2>1. \A k \in 1..(Len(p) - 1) : PropAt(props, p[k]).sub = p[k + 1].table
    <3> SUFFICES ASSUME NEW k \in 1..(n - 1)  PROVE PropAt(props, p[k]).sub = p[k + 1].table
      BY <1>2
    <3>1. k \in 1..n /\ k # n
      BY <1>1
    <3> QED  BY <1>5, <3>1
  <2> QED  BY <1>1, <1>2, <1>4, <1>6, <1>7, <2>1, IsRoute
<1>9. frames[1].offset = RouteOffset(props, p)
  <2> DEFINE from == [k \in 1..n |-> frames[k].offset]
  <2>1. ASSUME NEW k \in 1..n
        PROVE  from[k] = PropAt(props, p[k]).offset + (IF k = n THEN 0 ELSE from[k + 1])
    <3>1. CASE k = n
      <4>1. PropAt(props, p[k]).offset \in Int
        BY <1>3 DEF Prop
      <4> QED  BY <1>6, <3>1, <4>1
    <3>2. CASE k # n
      BY <1>5, <3>2
    <3> QED  BY <3>1, <3>2
  <2>2. SumOf(props, p, from)
    BY <1>2, <2>1 DEF SumOf
  <2>3. from[1] = frames[1].offset
    BY <1>1
  <2> HIDE DEF from
  <2> QED  BY <1>1, <1>2, <2>2, <2>3, OffsetIsSum
<1>10. frames[1].path = RouteName(props, p)
  <2> DEFINE names == RouteName(props, p)
  <2>1. ASSUME NEW d \in 1..n
        PROVE  names[d] = (IF d < n THEN TableName[p[d + 1].table] ELSE PropAt(props, p[d]).name)
    BY <1>2 DEF RouteName
  <2>2. names = [k \in 1..n |-> names[k]]
    BY <1>2 DEF RouteName
  <2> HIDE DEF names
  <2>3. ASSUME NEW d \in 1..n  PROVE names[d] \in Name
    <3>1. CASE d = n
      BY <1>3, <2>1, <3>1 DEF Prop
    <3>2. CASE d # n
      <4>1. d + 1 \in 1..n /\ d < n
        BY <1>1, <3>2
      <4>2. p[d + 1].table \in Table
        BY <1>1, <1>3, <4>1, PositionType
      <4> QED  BY <2>1, <4>1, <4>2, ClassAssumption
    <3> QED  BY <3>1, <3>2
  <2>4. names \in Seq(Name) /\ Len(names) = n
    <3> HIDE DEF n
    <3> QED  BY <1>1, <2>2, <2>3
  <2> DEFINE S == {j \in Nat : j < n /\ frames[n - j].path # SubSeq(names, n - j, n)}
  <2>5. ASSUME S # {}  PROVE FALSE
    <3>1. S \subseteq Nat
      OBVIOUS
    <3> HIDE DEF S
    <3>2. PICK j \in S : \A i \in S : j <= i
      BY <2>5, <3>1, Least
    <3> USE DEF S
    <3> DEFINE d == n - j
    <3>3. j \in Nat /\ j < n /\ d \in 1..n /\ frames[d].path # SubSeq(names, d, n)
      BY <1>1, <3>2
    <3>4. SubSeq(names, d, n) = <<names[d]>> \o SubSeq(names, d + 1, n)
      <4> HIDE DEF d, n
      <4>1. d \in 1..Len(names) /\ n \in d..Len(names)
        BY <1>1, <2>4, <3>3
      <4> QED  BY <2>4, <4>1, SubSeqRecursiveFirst
    <3>5. CASE d = n
      <4>1. SubSeq(names, d + 1, n) = <<>>
        BY <1>1, <3>5, SubSeqEmpty
      <4>2. names[n] = PropAt(props, p[n]).name
        BY <1>1, <2>1
      <4>3. <<names[n]>> \o <<>> = <<names[n]>>
        OBVIOUS
      <4> HIDE DEF d, n
      <4> QED  BY <1>6, <3>3, <3>4, <3>5, <4>1, <4>2, <4>3
    <3>6. CASE d # n
      <4>1. j - 1 \in Nat /\ j - 1 < n /\ n - (j - 1) = d + 1 /\ d < n
        BY <1>1, <3>3, <3>6
      <4>2. j - 1 \notin S
        <5> HIDE DEF S
        <5> QED  BY <3>2, <3>3
      <4>3. frames[d + 1].path = SubSeq(names, d + 1, n)
        BY <4>1, <4>2
      <4> HIDE DEF d, n, S
      <4>4. names[d] = TableName[p[d + 1].table]
        BY <2>1, <3>3, <4>1
      <4>5. frames[d].path = <<TableName[p[d + 1].table]>> \o frames[d + 1].path
        BY <1>5, <3>3, <3>6
      <4> QED  BY <3>3, <3>4, <4>3, <4>4, <4>5
    <3> QED  BY <3>5, <3>6
  <2>6. frames[1].path = SubSeq(names, 1, n)
    <3>1. n - 1 \in Nat /\ n - 1 < n /\ n - (n - 1) = 1
      BY <1>1
    <3>2. n - 1 \notin S
      <4> HIDE DEF S
      <4> QED  BY <2>5
    <3> QED  BY <3>1, <3>2
  <2>7. SubSeq(names, 1, n) = names
    BY <2>4, SubSeqFull
  <2> QED  BY <2>6, <2>7 DEF names
<1> QED  BY <1>8, <1>9, <1>10 DEF p

\* A map takes in a route that is behind none of those it holds.
LEMMA MapGrows ==
  ASSUME NEW l, NEW D, NEW m, MapOf(l, D, m), NEW x, \A g \in D : Before(g, x),
         NEW key, key = KeyOf(l, x), NEW offset, offset = RouteOffset(l, x[2])
  PROVE  MapOf(l, D \cup {x},
               [k \in DOMAIN m \cup {key} |-> IF k = key THEN offset ELSE m[k]])
<1> DEFINE E == D \cup {x}
<1> DEFINE e == [k \in DOMAIN m \cup {key} |-> IF k = key THEN offset ELSE m[k]]
<1>1. DOMAIN m = {KeyOf(l, f) : f \in D}
  BY DEF MapOf
<1>2. DOMAIN e = {KeyOf(l, f) : f \in E}
  BY <1>1
<1>3. ASSUME NEW k \in DOMAIN e
      PROVE  \E f \in E : KeyOf(l, f) = k /\ IsLast(l, E, f) /\ e[k] = RouteOffset(l, f[2])
  <2>1. CASE k = key
    <3>1. IsLast(l, E, x)
      BY DEF IsLast
    <3> QED  BY <2>1, <3>1
  <2>2. CASE k # key
    <3>1. k \in DOMAIN m /\ e[k] = m[k]
      BY <2>2
    <3>2. PICK f \in D : KeyOf(l, f) = k /\ IsLast(l, D, f) /\ m[k] = RouteOffset(l, f[2])
      BY <3>1 DEF MapOf
    <3>3. IsLast(l, E, f)
      BY <2>2, <3>2 DEF IsLast
    <3> QED  BY <3>1, <3>2, <3>3
  <2> QED  BY <2>1, <2>2
<1>4. e = [k \in {KeyOf(l, f) : f \in E} |-> e[k]]
  BY <1>2
<1> HIDE DEF e
<1> QED  BY <1>3, <1>4 DEF MapOf, e

\* The value that has come up takes its place in the map, behind all others
\* that are there.
LEMMA InsertRight == IInv /\ MapRight /\ Insert => MapRight'
<1> SUFFICES ASSUME IInv, MapRight, Insert  PROVE MapRight'
  OBVIOUS
<1> DEFINE n == Len(frames)
<1> DEFINE p == Pos(frames)
<1> DEFINE q == Pos(frames')
<1> DEFINE x == <<class, p>>
<1> DEFINE key == <<ClassList[class].name, frames[1].path>>
<1> DEFINE offset == frames[1].offset
<1>1. /\ frames \in Seq(Frame) /\ frames' \in Seq(Frame) /\ n \in Nat /\ n > 0
      /\ control = 0 /\ frames # <<>> /\ props \in Layouts
  BY InsertPreserves DEF IInv, TypeOK, MapRight, Insert
<1>2. /\ p \in Routes(props, ClassList[class].table)
      /\ key = KeyOf(props, x) /\ offset = RouteOffset(props, x[2])
  BY <1>1, RowIsRoute DEF KeyOf
<1>3. class \in 1..Len(ClassList) /\ Len(ClassList) \in Int
  BY <1>1, ClassAssumption DEF IInv, TypeOK, Linked
<1>4. /\ Len(q) = Len(p) /\ \A d \in 1..(Len(p) - 1) : q[d] = p[d]
      /\ q[Len(p)].idx = p[Len(p)].idx + 1
  <2>1. frames' = Advanced(frames, n)
    BY DEF Insert
  <2>2. frames[n] \in Frame
    BY <1>1, ElementOfSeq
  <2>3. /\ Len(frames') = n /\ \A d \in 1..(n - 1) : frames'[d] = frames[d]
        /\ frames'[n].idx = frames[n].idx + 1
    BY SMTT(30), <1>1, <2>1, <2>2 DEF Advanced, Frame
  <2>4. Len(p) = n /\ Len(q) = n
    BY <1>1, <2>3 DEF Pos
  <2>5. q[n].idx = p[n].idx + 1
    BY <1>1, <2>3 DEF Pos
  <2>6. ASSUME NEW d \in 1..(n - 1)  PROVE q[d] = p[d]
    BY <1>1, <2>3 DEF Pos
  <2> HIDE DEF n, p, q
  <2> QED  BY <2>4, <2>5, <2>6
<1> HIDE DEF p, q
<1>5. x \in Found(props, Len(ClassList))
  BY <1>2, <1>3 DEF Found
<1>6. ASSUME NEW f \in Found(props, Len(ClassList))
      PROVE  Before(f, <<class, q>>) <=> f = x \/ Before(f, x)
  <2>1. /\ f = <<f[1], f[2]>> /\ f[1] \in Int
        /\ f[2] \in Routes(props, ClassList[f[1]].table)
    BY <1>3, FoundType
  <2>2. f[1] = class => (Precedes(f[2], q) <=> f[2] = p \/ Precedes(f[2], p))
    BY <1>1, <1>2, <1>4, <2>1, AdvancedPrecedes
  <2>3. f = x <=> f[1] = class /\ f[2] = p
    BY <2>1
  <2>4. class \in Int
    BY <1>3
  <2> QED  BY <2>1, <2>2, <2>3, <2>4 DEF Before
<1>7. Behind' = {f \in Found(props, Len(ClassList)) : Before(f, <<class, q>>)}
  BY DEF Behind, Insert, tableVars, q
<1>8. Behind = {f \in Found(props, Len(ClassList)) : Before(f, x)}
  BY DEF Behind, p
<1>9. Behind' = Behind \cup {x}
  BY <1>5, <1>6, <1>7, <1>8
<1>10. \A g \in Behind : Before(g, x)
  BY <1>8
<1>11. /\ props' = props
       /\ clientclasses' = [k \in DOMAIN clientclasses \cup {key} |->
                              IF k = key THEN offset ELSE clientclasses[k]]
  BY DEF Insert, Stored, tableVars
<1> HIDE DEF x, key, offset
<1>12. MapOf(props, Behind \cup {x}, clientclasses')
  BY <1>2, <1>10, <1>11, MapGrows DEF MapRight
<1> QED  BY <1>1, <1>9, <1>11, <1>12 DEF MapRight

\* The end of a table leaves behind what was behind.
LEMMA EndRight == IInv /\ MapRight /\ EndTable => MapRight'
<1> SUFFICES ASSUME IInv, MapRight, EndTable  PROVE MapRight'
  OBVIOUS
<1> DEFINE n == Len(frames) - 1
<1> DEFINE rest == SubSeq(frames, 1, n)
<1> DEFINE p == Pos(frames)
<1> DEFINE q == Pos(frames')
<1>1. /\ frames \in Seq(Frame) /\ frames' \in Seq(Frame) /\ n \in Nat /\ control = n + 1
      /\ frames # <<>> /\ props \in Layouts
  BY EndPreserves DEF IInv, TypeOK, MapRight, EndTable
<1>2. /\ frames' = Closed(rest) /\ UNCHANGED <<props, clientclasses>>
      /\ class' = (IF n = 0 THEN class + 1 ELSE class)
  BY <1>1 DEF EndTable, NextClass
<1>3. frames[1].table = ClassList[class].table /\ class \in 1..Len(ClassList) /\ Len(ClassList) \in Int
  BY <1>1, ClassAssumption DEF IInv, TypeOK, Linked
<1>4. /\ rest \in Seq(Frame) /\ Len(rest) = n
      /\ \A d \in 1..n : rest[d] = frames[d]
  BY <1>1, SubSeqProperties
<1>5. /\ Len(p) = n + 1
      /\ \A d \in 1..(n + 1) : /\ p[d].table = frames[d].table /\ p[d].idx = frames[d].idx
                               /\ p[d] \in [table : Table, idx : Nat]
  BY <1>1, PosType
<1>6. /\ n + 1 \in 1..(n + 1) /\ 1 \in 1..(n + 1)
      /\ p[1].table = ClassList[class].table
      /\ p[n + 1] \in [table : Table, idx : Nat]
      /\ p[n + 1].idx > Len(props[p[n + 1].table])
  <2>1. n + 1 \in 1..(n + 1) /\ 1 \in 1..(n + 1)
    BY <1>1
  <2>2. frames[n + 1].idx > Len(props[frames[n + 1].table])
    BY <1>1 DEF EndTable, PropsOf
  <2> HIDE DEF p, n
  <2>3. p[1].table = ClassList[class].table
    BY <1>3, <1>5, <2>1
  <2>4. p[n + 1].table = frames[n + 1].table /\ p[n + 1].idx = frames[n + 1].idx
    BY <1>5, <2>1
  <2>5. p[n + 1] \in [table : Table, idx : Nat]
    BY <1>5, <2>1
  <2> QED  BY <2>1, <2>2, <2>3, <2>4, <2>5
<1> HIDE DEF rest, p
<1>7. CASE n = 0
  <2>1. frames' = <<>> /\ Len(q) = 0
    <3>1. rest = <<>>
      BY <1>4, <1>7, EmptySeq
    <3> QED  BY <1>2, <3>1 DEF Closed, Pos
  <2>2. class' = class + 1
    BY <1>2, <1>7
  <2> DEFINE t == ClassList[class].table
  <2>3. Len(p) = 1 /\ p[1].table = t /\ p[1].idx \in Nat /\ p[1].idx > Len(props[t])
    BY <1>5, <1>6, <1>7
  <2> HIDE DEF n, q, t
  <2>4. ASSUME NEW f \in Found(props, Len(ClassList))
        PROVE  Before(f, <<class', q>>) <=> Before(f, <<class, p>>)
    <3>1. /\ f[1] \in Int /\ f[2] \in Routes(props, ClassList[f[1]].table)
      BY <1>3, FoundType
    <3>2. f[1] = class => Precedes(f[2], p)
      <4> SUFFICES ASSUME f[1] = class  PROVE Precedes(f[2], p)
        OBVIOUS
      <4>1. f[2] \in Routes(props, t)
        BY <3>1 DEF t
      <4> QED  BY <1>1, <2>3, <4>1, EndedPrecedes
    <3>3. ~Precedes(f[2], q)
      <4> SUFFICES ASSUME Precedes(f[2], q)  PROVE FALSE
        OBVIOUS
      <4>1. PICK k \in 1..Len(f[2]) : k <= Len(q)
        BY DEF Precedes
      <4> QED  BY <2>1, <4>1
    <3>4. class \in Int /\ <<class', q>>[1] = class + 1
      BY <1>3, <2>2
    <3> QED  BY <3>1, <3>2, <3>3, <3>4 DEF Before
  <2>5. Behind' = {f \in Found(props, Len(ClassList)) : Before(f, <<class', q>>)}
    BY <1>2 DEF Behind, q
  <2>6. Behind' = Behind
    BY <2>4, <2>5 DEF Behind, p
  <2> QED  BY <1>1, <1>2, <2>6 DEF MapRight
<1>8. CASE n # 0
  <2>1. frames' = [rest EXCEPT ![n].idx = rest[n].idx + 1]
    <3>1. rest # <<>>
      BY <1>1, <1>4, <1>8
    <3> HIDE DEF n
    <3> QED  BY <1>2, <1>4, <3>1 DEF Closed, Advanced
  <2>2. n \in 1..n /\ frames[n] \in Frame
    BY <1>1, <1>8, ElementOfSeq
  <2>3. /\ Len(frames') = n /\ frames'[n].idx = frames[n].idx + 1
        /\ \A d \in 1..(n - 1) : frames'[d] = frames[d]
    <3> HIDE DEF n
    <3>1. rest[n] = frames[n]
      BY <1>4, <2>2
    <3>2. DOMAIN rest = 1..n
      BY <1>1, <1>4
    <3>3. frames'[n].idx = frames[n].idx + 1
      BY <2>1, <2>2, <3>1, <3>2 DEF Frame
    <3>4. Len(frames') = n
      BY <1>1, <1>4, <2>1
    <3>5. ASSUME NEW d \in 1..(n - 1)  PROVE frames'[d] = frames[d]
      <4>1. d \in 1..n /\ d # n
        BY <1>1
      <4> QED  BY <1>4, <2>1, <3>2, <4>1
    <3> QED  BY <3>3, <3>4, <3>5
  <2>4. Len(q) = n /\ q[n].idx = p[n].idx + 1 /\ \A d \in 1..(n - 1) : q[d] = p[d]
    <3>1. Len(q) = n
      BY <1>1, <2>3 DEF Pos
    <3>2. q[n].idx = p[n].idx + 1
      BY <1>1, <2>2, <2>3 DEF Pos, p
    <3>3. ASSUME NEW d \in 1..(n - 1)  PROVE q[d] = p[d]
      BY <1>1, <2>3 DEF Pos, p
    <3> QED  BY <3>1, <3>2, <3>3
  <2>5. ASSUME NEW d \in 1..n  PROVE PropAt(props, p[d]).sub = p[d + 1].table
    <3>1. d \in 1..(Len(frames) - 1) /\ d \in 1..(n + 1) /\ d + 1 \in 1..(n + 1)
      BY <1>1
    <3>2. PropOf(frames[d]).sub = frames[d + 1].table
      BY <3>1 DEF IInv, Linked
    <3>3. PropAt(props, p[d]) = PropOf(frames[d])
      BY <1>5, <3>1 DEF PropAt, PropOf, PropsOf
    <3> QED  BY <1>5, <3>1, <3>2, <3>3
  <2>6. p[n] \in [table : Table, idx : Nat]
    BY <1>1, <1>5, <2>2
  <2> HIDE DEF n, q
  <2>7. Closes(props, ClassList[class].table, p, q)
    BY <1>1, <1>5, <1>6, <1>8, <2>4, <2>5, <2>6 DEF Closes
  <2>8. \A r \in Routes(props, ClassList[class].table) : Precedes(r, q) <=> Precedes(r, p)
    BY <1>1, <2>7, ClosedPrecedes
  <2> QED  BY <1>2, <1>8, <2>8, MapStaysRight DEF p, q
<1> QED  BY <1>7, <1>8

LEMMA StepRight == IInv /\ MapRight /\ [ClassStep]_classVars => MapRight'
<1> SUFFICES ASSUME IInv, MapRight, [ClassStep]_classVars  PROVE MapRight'
  OBVIOUS
<1>1. CASE ClassStep
  BY <1>1, BeginRight, OpenRight, YieldRight, PassOnRight, EndRight, InsertRight DEF ClassStep
<1>2. CASE UNCHANGED classVars
  <2>1. UNCHANGED <<props, class, frames, clientclasses>>
    BY <1>2 DEF classVars, tableVars
  <2> QED  BY <2>1, MapStaysRight
<1> QED  BY <1>1, <1>2

LEMMA InductiveRight == ClassSpec => [](IInv /\ MapRight)
<1>1. IInv /\ MapRight /\ [ClassStep]_classVars => (IInv /\ MapRight)'
  BY StepIInv, StepRight
<1> QED  BY <1>1, InitIInv, InitRight, PTL DEF ClassSpec

\* Between two classes everything of the classes before is behind.
LEMMA MapBetween ==
  IInv /\ MapRight /\ frames = <<>> => clientclasses = Flat(props, class - 1)
<1> SUFFICES ASSUME IInv, MapRight, frames = <<>>
             PROVE  clientclasses = Flat(props, class - 1)
  OBVIOUS
<1>1. class \in 1..(Len(ClassList) + 1) /\ Len(ClassList) \in Nat /\ props \in Layouts
  BY ClassAssumption DEF IInv, TypeOK, MapRight
<1>2. Behind = Found(props, class - 1)
  <2>1. ASSUME NEW f  PROVE f \in Behind <=> f \in Found(props, class - 1)
    <3>1. ASSUME f \in Behind  PROVE f \in Found(props, class - 1)
      <4>1. f \in Found(props, Len(ClassList)) /\ Before(f, <<class, Pos(frames)>>)
        BY <3>1 DEF Behind
      <4>2. ~Precedes(f[2], Pos(frames))
        <5>1. Len(Pos(frames)) = 0
          BY DEF Pos
        <5> QED  BY <5>1 DEF Precedes
      <4>3. f = <<f[1], f[2]>> /\ f[1] \in 1..Len(ClassList)
            /\ f[2] \in Routes(props, ClassList[f[1]].table)
        BY <1>1, <4>1, FoundType
      <4>4. f[1] \in 1..(class - 1)
        BY <1>1, <4>1, <4>2, <4>3 DEF Before
      <4> QED  BY <4>3, <4>4 DEF Found
    <3>2. ASSUME f \in Found(props, class - 1)  PROVE f \in Behind
      <4>1. f = <<f[1], f[2]>> /\ f[1] \in 1..(class - 1)
            /\ f[2] \in Routes(props, ClassList[f[1]].table)
        BY <1>1, <3>2, FoundType
      <4>2. f[1] \in 1..Len(ClassList) /\ f[1] < class
        BY <1>1, <4>1
      <4>3. f \in Found(props, Len(ClassList))
        BY <4>1, <4>2 DEF Found
      <4> QED  BY <4>2, <4>3 DEF Behind, Before
    <3> QED  BY <3>1, <3>2
  <2> QED  BY <2>1
<1> QED  BY <1>1, <1>2, MapIsFlat DEF MapRight

\* When a class is done with, the map holds what the classes up to it should
\* be flattened to, for any tables that are not in themselves, however deep,
\* and any list of classes: no value is lost, none has the name or the offset
\* of another, and of those with one name the last counts.
THEOREM FlattensRight == ClassSpec => Flattened
<1>1. (IInv /\ MapRight /\ frames = <<>>)' => (clientclasses = Flat(props, class - 1))'
  BY MapBetween, PTL
<1>2. ASSUME IInv /\ MapRight, [ClassStep]_classVars, (IInv /\ MapRight)'
      PROVE  [class' # class => clientclasses' = Flat(props, class)]_classVars
  <2> SUFFICES ASSUME ClassStep, class' # class  PROVE clientclasses' = Flat(props, class)
    BY <1>2
  <2>1. EndTable /\ control = 1 /\ class' = class + 1
    BY DEF ClassStep, BeginClass, OpenTable, YieldProp, PassOn, EndTable, Insert, Yields,
           tableVars, NextClass
  <2>2. props' = props /\ Len(frames) = 1 /\ frames' = Closed(SubSeq(frames, 1, 1 - 1))
    BY <2>1 DEF EndTable
  <2>3. frames' = <<>>
    <3>1. SubSeq(frames, 1, 1 - 1) = <<>>
      BY SubSeqEmpty
    <3> QED  BY <2>2, <3>1 DEF Closed
  <2>4. clientclasses' = Flat(props', class' - 1)
    BY <1>1, <1>2, <2>3
  <2>5. class' - 1 = class
    BY <1>2, <2>1 DEF IInv, TypeOK
  <2> QED  BY <2>2, <2>4, <2>5
<1> QED  BY <1>2, InductiveRight, PTL DEF ClassSpec, Flattened

\* There is at most one coroutine for each table.
DepthBounded == Len(frames) <= Cardinality(Table)

\* parse_tbl is never deeper in itself than there are tables, for any tables
\* that are not in themselves.
THEOREM RecursionBounded == ClassSpec => []DepthBounded
<1>1. IInv /\ MapRight => DepthBounded
  <2> SUFFICES ASSUME IInv, MapRight  PROVE DepthBounded
    OBVIOUS
  <2> DEFINE N == Cardinality(Table)
  <2> DEFINE n == Len(frames)
  <2>1. N \in Nat /\ n \in Nat /\ props \in Layouts /\ \A d \in 1..n : frames[d] \in Frame
    BY TablesFinite, ElementOfSeq DEF IInv, TypeOK, MapRight
  <2>2. PICK level \in [Table -> 1..N] : \A t \in Table : \A i \in 1..Len(props[t]) :
           props[t][i].sub # NoTable => level[props[t][i].sub] < level[t]
    BY <2>1, NestingAssumption
  <2> DEFINE h == [d \in 1..n |-> level[frames[d].table]]
  <2>3. \A d \in 1..n : h[d] \in 1..N
    BY <2>1 DEF Frame
  <2>4. ASSUME NEW d \in 1..(n - 1)  PROVE h[d + 1] < h[d]
    <3>1. d \in 1..n /\ d + 1 \in 1..n
      BY <2>1
    <3>2. frames[d].idx <= Len(PropsOf(frames[d])) /\ PropOf(frames[d]).sub = frames[d + 1].table
      BY DEF IInv, Linked
    <3>3. frames[d].idx \in 1..Len(PropsOf(frames[d]))
      BY <3>1, <3>2, PropType DEF IInv
    <3>4. frames[d].table \in Table /\ frames[d + 1].table \in Table
      BY <2>1, <3>1 DEF Frame
    <3>5. level[frames[d + 1].table] < level[frames[d].table]
      BY <2>2, <3>2, <3>3, <3>4, ClassAssumption DEF PropOf, PropsOf
    <3> QED  BY <3>1, <3>5
  <2> HIDE DEF h
  <2>5. n <= N
    BY <2>1, <2>3, <2>4, Descend
  <2> QED  BY <2>5 DEF DepthBounded
<1> QED  BY <1>1, InductiveRight, PTL
=============================================================================
